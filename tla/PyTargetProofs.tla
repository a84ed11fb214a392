--------------------------- MODULE PyTargetProofs ---------------------------
(***************************************************************************)
(* What PyTarget guarantees for every set of threads and MIs.              *)
(***************************************************************************)
EXTENDS PyTarget, FiniteSetTheorems, TLAPS

(* A thread in a call is in it on an MI.                                   *)
InCall == \A t \in Threads : pc[t] # "idle" => cur[t] \in MIs

TypeInv == TypeOK /\ InCall

-----------------------------------------------------------------------------
LEMMA TypeInit == Init => TypeInv
  BY PyTargetAssumption
  DEF Init, TypeInv, InCall, TypeOK, PC, Python, HdlState, ModuleState, Status, Fault

LEMMA TypeReturn ==
  ASSUME TypeOK, NEW t \in Threads, Return(t)
  PROVE  /\ pc' \in [Threads -> PC]
         /\ cur' \in [Threads -> MIs \cup {NoMI}]
         /\ tmp' \in [Threads -> Int]
         /\ term' \in [Threads -> BOOLEAN]
         /\ rc' \in [Threads -> Status]
         /\ admin' \in Threads \cup {NoThread}
         /\ InCall => InCall'
  BY DEF InCall, TypeOK, Return, Goto, PC, Status

LEMMA TypeStep ==
  ASSUME TypeInv, NEW t \in Threads, Step(t)
  PROVE  TypeInv'
<1> USE DEF TypeInv, InCall, TypeOK, lib, python, mi, local, Goto, Running, EnterAdmin, Status, Fault
<1>1. CASE Call(t)
  <2>1. ASSUME NEW m \in MIs, CreateCall(t, m) PROVE TypeInv'
    BY <2>1 DEF CreateCall, PC, HdlState
  <2>2. ASSUME NEW m \in MIs, OpCall(t, m) PROVE TypeInv'
    BY <2>2 DEF OpCall, PC, Python
  <2>3. ASSUME NEW m \in MIs, NEW b \in BOOLEAN, CleanupCall(t, m, b) PROVE TypeInv'
    BY <2>3 DEF CleanupCall, PC, Python
  <2>4. QED BY <1>1, <2>1, <2>2, <2>3 DEF Call
<1>2. CASE YieldGIL(t)
  BY <1>2 DEF YieldGIL
<1>3. CASE Acquire(t)
  <2>1. CASE TakeGIL(t)
    BY <2>1 DEF TakeGIL
  <2>2. CASE InitLock(t)
    BY <2>2 DEF InitLock, PC
  <2>3. CASE CleanupLock(t)
    BY <2>3 DEF CleanupLock, PC
  <2>4. CASE Finalize(t)
    BY <2>4 DEF Finalize, PC, Stale, HdlState, ModuleState
  <2>5. QED BY <1>3, <2>1, <2>2, <2>3, <2>4 DEF Acquire
<1>4. CASE PythonDone(t)
  <2>1. CASE ImportModule(t)
    BY <2>1 DEF ImportModule, PC, Python, ModuleState
  <2>2. CASE ProxyDone(t)
    BY <2>2 DEF ProxyDone, PC, HdlState
  <2>3. CASE OpDone(t)
    BY <2>3, TypeReturn DEF OpDone
  <2>4. CASE CleanupDone(t)
    BY <2>4, TypeReturn DEF CleanupDone, PC
  <2>5. CASE DropModule(t)
    BY <2>5 DEF DropModule, PC
  <2>6. QED BY <1>4, <2>1, <2>2, <2>3, <2>4, <2>5 DEF PythonDone
<1>5. CASE Straight(t)
  <2>1. CASE GlobalInitialize(t)
    BY <2>1 DEF GlobalInitialize, PC, Python
  <2>2. CASE CountRead(t)
    BY <2>2 DEF CountRead, PC
  <2>3. CASE CountWrite(t)
    BY <2>3, TypeReturn DEF CountWrite
  <2>4. CASE CreateFail(t)
    BY <2>4, TypeReturn DEF CreateFail, HdlState
  <2>5. CASE DropProvider(t)
    BY <2>5 DEF DropProvider, PC, HdlState
  <2>6. CASE UncountRead(t)
    BY <2>6 DEF UncountRead, PC
  <2>7. CASE UncountWrite(t)
    BY <2>7 DEF UncountWrite, PC, Python
  <2>8. CASE CleanupReturn(t)
    BY <2>8, TypeReturn DEF CleanupReturn, HdlState
  <2>9. QED
    BY <1>5, <2>1, <2>2, <2>3, <2>4, <2>5, <2>6, <2>7, <2>8 DEF Straight
<1>6. QED BY <1>1, <1>2, <1>3, <1>4, <1>5 DEF Step

LEMMA TypeNext == TypeInv /\ [Next]_vars => TypeInv'
<1> SUFFICES ASSUME TypeInv, [Next]_vars PROVE TypeInv'
  OBVIOUS
<1>1. CASE Dlclose
  BY <1>1 DEF TypeInv, InCall, TypeOK, Dlclose, python, mi, local, ModuleState
<1>2. ASSUME NEW t \in Threads, Step(t) PROVE TypeInv'
  BY <1>2, TypeStep
<1>3. CASE UNCHANGED vars
  BY <1>3 DEF TypeInv, InCall, TypeOK, vars, lib, python, mi, local
<1>4. QED BY <1>1, <1>2, <1>3 DEF Next

(* Type correctness, whatever the broker does.                             *)
THEOREM TypeCorrect == Spec => []TypeOK
<1>1. TypeInv => TypeOK
  BY DEF TypeInv
<1>2. QED BY <1>1, TypeInit, TypeNext, PTL DEF Spec

-----------------------------------------------------------------------------
(***************************************************************************)
(* The lock discipline, whatever the broker does.  Finalize would keep the *)
(* GIL if it found _TARGET_INIT clear, so the invariant also has to know   *)
(* that _TARGET_INIT is set while Python is up, and that Python stays up   *)
(* between the two GIL acquisitions of TargetCleanup.                      *)
(***************************************************************************)
LockInv ==
  /\ LockDiscipline
  /\ interp = "up" => targetInit = 1
  /\ gil # NoThread => interp = "up"
  /\ \A t \in Threads : pc[t] = "final" => interp = "up"

LEMMA LockInit == Init => LockInv
  BY PyTargetAssumption DEF Init, LockInv, LockDiscipline, Critical, Python

LEMMA LockStep ==
  ASSUME TypeInv, LockInv, NEW t \in Threads, Step(t)
  PROVE  LockInv'
<1> USE PyTargetAssumption
    DEF TypeInv, InCall, TypeOK, LockInv, LockDiscipline, Critical, Python, PC,
        lib, python, mi, local, Goto, Return, Running, EnterAdmin
<1>1. CASE Call(t)
  BY <1>1 DEF Call, CreateCall, OpCall, CleanupCall
<1>2. CASE YieldGIL(t)
  BY <1>2 DEF YieldGIL
<1>3. CASE Acquire(t)
  <2>1. CASE TakeGIL(t)
    BY <2>1 DEF TakeGIL
  <2>2. CASE InitLock(t)
    BY <2>2 DEF InitLock
  <2>3. CASE CleanupLock(t)
    BY <2>3 DEF CleanupLock
  <2>4. CASE Finalize(t)
    BY <2>4 DEF Finalize
  <2>5. QED BY <1>3, <2>1, <2>2, <2>3, <2>4 DEF Acquire
<1>4. CASE PythonDone(t)
  <2>1. CASE ImportModule(t)
    BY <2>1 DEF ImportModule
  <2>2. CASE ProxyDone(t)
    BY <2>2 DEF ProxyDone
  <2>3. CASE OpDone(t)
    BY <2>3 DEF OpDone
  <2>4. CASE CleanupDone(t)
    BY <2>4 DEF CleanupDone
  <2>5. CASE DropModule(t)
    BY <2>5 DEF DropModule
  <2>6. QED BY <1>4, <2>1, <2>2, <2>3, <2>4, <2>5 DEF PythonDone
<1>5. CASE Straight(t)
  <2>1. CASE GlobalInitialize(t)
    BY <2>1 DEF GlobalInitialize
  <2>2. CASE CountRead(t) \/ CountWrite(t) \/ CreateFail(t)
    BY <2>2 DEF CountRead, CountWrite, CreateFail
  <2>3. CASE DropProvider(t) \/ CleanupReturn(t)
    BY <2>3 DEF DropProvider, CleanupReturn
  <2>4. CASE UncountRead(t)
    BY <2>4 DEF UncountRead
  <2>5. CASE UncountWrite(t)
    BY <2>5 DEF UncountWrite
  <2>6. QED BY <1>5, <2>1, <2>2, <2>3, <2>4, <2>5 DEF Straight
<1>6. QED BY <1>1, <1>2, <1>3, <1>4, <1>5 DEF Step

LEMMA LockNext == TypeInv /\ LockInv /\ [Next]_vars => LockInv'
<1> SUFFICES ASSUME TypeInv, LockInv, [Next]_vars PROVE LockInv'
  OBVIOUS
<1>1. CASE Dlclose
  <2>1. gil = NoThread
    BY <1>1 DEF Dlclose, Used, TypeInv, TypeOK, LockInv, LockDiscipline, Python
  <2>2. QED BY <1>1, <2>1 DEF LockInv, LockDiscipline, Dlclose, Used, mi
<1>2. ASSUME NEW t \in Threads, Step(t) PROVE LockInv'
  BY <1>2, LockStep
<1>3. CASE UNCHANGED vars
  BY <1>3 DEF LockInv, LockDiscipline, vars, lib, python, mi, local
<1>4. QED BY <1>1, <1>2, <1>3 DEF Next

(* On every path of every call, and for any broker and any failure, the    *)
(* mutex and the GIL are held only where the code means to hold them.      *)
THEOREM LocksDisciplined == Spec => []LockDiscipline
<1>1. LockInv => LockDiscipline
  BY DEF LockInv
<1>2. Init => TypeInv /\ LockInv
  BY TypeInit, LockInit
<1>3. TypeInv /\ LockInv /\ [Next]_vars => (TypeInv /\ LockInv)'
  BY TypeNext, LockNext
<1>4. QED BY <1>1, <1>2, <1>3, PTL DEF Spec

-----------------------------------------------------------------------------
(***************************************************************************)
(* What holds under a broker that serialises creation and cleanup,         *)
(* whatever fails, and whether or not it unloads the library or frees the  *)
(* CMPI<type>MI.                                                           *)
(***************************************************************************)
Creating == {"lock", "global", "import", "proxy", "count", "count1", "fail"}
Released == {"unlock", "uncount", "uncount1", "decmodule", "final", "free"}
Cleanup  == {"cleanup", "decref"} \cup Released

(* Who is where: at most one thread creates or cleans up, it is alone with *)
(* its MI, and the broker holds exactly the MIs that are not being created. *)
SerialInv ==
  /\ \A t \in Threads :
       /\ admin = t <=> pc[t] \in Creating \cup Cleanup
       /\ pc[t] = "idle" <=> cur[t] = NoMI
       /\ pc[t] \in Creating => cur[t] \notin held
       /\ pc[t] \in Cleanup \cup {"op"} => cur[t] \in held
  /\ \A t, u \in Threads : pc[t] \in Cleanup /\ u # t => cur[u] # cur[t]

(* The state of each handle follows from where its threads are.            *)
HandleInv ==
  /\ \A m \in MIs \ held : hdl[m] # "none" => \E t \in Threads : cur[t] = m
  /\ \A m \in held : (\A t \in Users(m) : pc[t] \notin Released) => hdl[m] = "live"
  /\ \A t \in Threads : pc[t] \in {"count", "count1"} => hdl[cur[t]] = "live"

(* Python is up while it is used, by an MI or by a call that has entered   *)
(* it; it need not be when a creation has only found _TARGET_INIT set.     *)
UpInv ==
  /\ users # {} => interp = "up"
  /\ \A t \in Threads :
       pc[t] \in {"proxy", "count", "count1", "cleanup",
                 "decref", "unlock", "uncount", "uncount1", "decmodule"}
       => interp = "up"

(* A live module has a live interpreter, and it is there while an MI or a  *)
(* call uses it.                                                           *)
ModuleInv ==
  /\ targetModule = "live" => interp = "up"
  /\ fault = "none" =>
       /\ users # {} => targetModule = "live"
       /\ \A t \in Threads :
            pc[t] \in {"proxy", "count", "count1", "decmodule", "final"}
            => targetModule = "live"

CountInv ==
  /\ miCount = Cardinality(users)
  /\ \A t \in Threads :
       /\ pc[t] \in {"count1", "uncount1"} => tmp[t] = miCount
       /\ pc[t] \in {"decmodule", "final"} => users = {}

LifeInv ==
  SerialInv /\ HandleInv /\ UpInv /\ ModuleInv /\ CountInv /\ MIsSafe

LEMMA UsersFinite == TypeInv => IsFiniteSet(users)
  BY PyTargetAssumption, FS_Subset DEF TypeInv, TypeOK, users

(* A step of one thread that neither enters nor leaves the last stretch of *)
(* a cleanup, nor takes or gives up an MI, leaves the users as they were.  *)
LEMMA UsersSame ==
  ASSUME NEW t \in Threads, held' = held,
         \A u \in Threads \ {t} : pc'[u] = pc[u] /\ cur'[u] = cur[u],
         pc[t] \in Leaving <=> pc'[t] \in Leaving,
         pc[t] \in Leaving => cur'[t] = cur[t]
  PROVE  users' = users
<1>1. ASSUME NEW m \in held
      PROVE  (\A u \in Users(m) : pc[u] \notin Leaving)
             <=> (\A u \in Users(m)' : pc'[u] \notin Leaving)
  BY DEF Users
<1>2. QED BY <1>1 DEF users

(* A library that can be closed has no users.                              *)
LEMMA UsedIdle ==
  ASSUME SerialInv, HandleInv, TypeInv, Used
  PROVE  users = {}
<1>1. \A m \in MIs : Users(m) = {}
  BY PyTargetAssumption DEF Used, SerialInv, Users
<1>2. \A m \in held : hdl[m] = "live"
  BY <1>1 DEF HandleInv, TypeInv, TypeOK
<1>3. held = {}
  BY <1>2 DEF Used, TypeInv, TypeOK
<1>4. QED BY <1>3 DEF users

LEMMA LifeInit == Init => LifeInv
<1> SUFFICES ASSUME Init PROVE LifeInv
  OBVIOUS
<1>1. users = {}
  BY DEF Init, users
<1>2. SerialInv /\ HandleInv /\ UpInv /\ ModuleInv /\ MIsSafe
  BY <1>1, PyTargetAssumption
  DEF Init, SerialInv, HandleInv, UpInv, ModuleInv, MIsSafe, Creating, Cleanup, Released
<1>3. CountInv
  BY <1>1, FS_EmptySet DEF Init, CountInv
<1>4. QED BY <1>2, <1>3 DEF LifeInv

(* The steps, one lemma per group of actions.                              *)
LifeHyp == SerialAdmin /\ TypeInv /\ LockInv /\ LifeInv

LEMMA LifeCall ==
  ASSUME LifeHyp, NEW t \in Threads, fault = "none", Call(t)
  PROVE  LifeInv'
<1> USE PyTargetAssumption
    DEF LifeHyp, TypeInv, InCall, TypeOK, Creating, Cleanup, Released, Leaving, PC, Python,
        lib, python, mi, local, Goto, EnterAdmin
<1>1. ASSUME NEW m \in MIs, CreateCall(t, m) PROVE LifeInv'
  <2>1. users' = users
    BY <1>1, UsersSame DEF CreateCall, LifeInv, SerialInv
  <2>2. SerialInv'
    <3>1. m \notin held
      BY <1>1 DEF CreateCall, LifeInv, SerialInv, HandleInv, Users
    <3>2. QED BY <1>1, <3>1 DEF CreateCall, LifeInv, SerialInv
  <2>3. HandleInv'
    BY <1>1 DEF CreateCall, LifeInv, SerialInv, HandleInv, Users
  <2>4. UpInv'
    BY <1>1, <2>1 DEF CreateCall, LifeInv, UpInv
  <2>5. ModuleInv'
    BY <1>1, <2>1 DEF CreateCall, LifeInv, ModuleInv
  <2>6. CountInv' /\ MIsSafe'
    BY <1>1, <2>1 DEF CreateCall, LifeInv, CountInv, MIsSafe
  <2>7. QED BY <2>2, <2>3, <2>4, <2>5, <2>6 DEF LifeInv
<1>2. ASSUME NEW m \in MIs, OpCall(t, m) PROVE LifeInv'
  <2>1. users' = users
    BY <1>2, UsersSame DEF OpCall, LifeInv, SerialInv
  <2>2. SerialInv'
    BY <1>2 DEF OpCall, LifeInv, SerialInv, Cleaning, Users
  <2>3. HandleInv'
    BY <1>2 DEF OpCall, LifeInv, SerialInv, HandleInv, Users
  <2>4. UpInv' /\ ModuleInv'
    BY <1>2, <2>1 DEF OpCall, LifeInv, UpInv, ModuleInv
  <2>5. CountInv' /\ MIsSafe'
    BY <1>2, <2>1 DEF OpCall, LifeInv, CountInv, MIsSafe
  <2>6. QED BY <2>2, <2>3, <2>4, <2>5 DEF LifeInv
<1>3. ASSUME NEW m \in MIs, NEW b \in BOOLEAN, CleanupCall(t, m, b) PROVE LifeInv'
  <2>1. users' = users
    BY <1>3, UsersSame DEF CleanupCall, LifeInv, SerialInv
  <2>2. SerialInv'
    BY <1>3 DEF CleanupCall, LifeInv, SerialInv, Users
  <2>3. HandleInv'
    BY <1>3 DEF CleanupCall, LifeInv, SerialInv, HandleInv, Users
  <2>4. m \in users
    BY <1>3 DEF CleanupCall, users, Users
  <2>5. UpInv' /\ ModuleInv'
    BY <1>3, <2>1, <2>4 DEF CleanupCall, LifeInv, UpInv, ModuleInv
  <2>6. CountInv' /\ MIsSafe'
    BY <1>3, <2>1 DEF CleanupCall, LifeInv, CountInv, MIsSafe
  <2>7. QED BY <2>2, <2>3, <2>5, <2>6 DEF LifeInv
<1>4. QED BY <1>1, <1>2, <1>3 DEF Call

LEMMA LifeGIL ==
  ASSUME LifeHyp, NEW t \in Threads, fault = "none", YieldGIL(t) \/ TakeGIL(t)
  PROVE  LifeInv'
<1> USE DEF LifeHyp, YieldGIL, TakeGIL, lib, python, mi, local
<1>1. users' = users
  BY DEF users, Users
<1>2. SerialInv' /\ HandleInv'
  BY DEF LifeInv, SerialInv, HandleInv, Users
<1>3. UpInv' /\ ModuleInv' /\ CountInv'
  BY <1>1 DEF LifeInv, UpInv, ModuleInv, CountInv
<1>4. MIsSafe'
  <2>1. CASE YieldGIL(t)
    BY <2>1 DEF LifeInv, MIsSafe
  <2>2. CASE TakeGIL(t)
    <3>1. CASE pc[t] = "op"
      <4>1. cur[t] \in held /\ \A u \in Users(cur[t]) : pc[u] \notin Cleanup
        BY <3>1 DEF LifeInv, SerialInv, Users, Cleanup, Released, TypeInv, TypeOK
      <4>2. cur[t] \in users
        BY <4>1 DEF users, Cleanup, Released, Leaving
      <4>3. interp = "up"
        BY <4>2 DEF LifeInv, UpInv
      <4>4. QED BY <2>2, <4>3 DEF LifeInv, MIsSafe
    <3>2. CASE pc[t] = "import"
      BY <2>2, <3>2 DEF LifeInv, MIsSafe
    <3>3. CASE pc[t] \notin {"op", "import"}
      <4>1. interp = "up"
        BY <2>2, <3>3 DEF LifeInv, UpInv, Python
      <4>2. QED BY <2>2, <4>1 DEF LifeInv, MIsSafe
    <3>4. QED BY <3>1, <3>2, <3>3
  <2>3. QED BY <2>1, <2>2
<1>5. QED BY <1>2, <1>3, <1>4 DEF LifeInv

LEMMA LifeAcquire ==
  ASSUME LifeHyp, NEW t \in Threads, fault = "none",
         InitLock(t) \/ CleanupLock(t) \/ Finalize(t)
  PROVE  LifeInv'
<1> USE PyTargetAssumption
    DEF LifeHyp, TypeInv, InCall, TypeOK, Creating, Cleanup, Released, Leaving, PC, Python,
        lib, python, mi, local, Goto
<1>1. users' = users
  BY UsersSame DEF InitLock, CleanupLock, Finalize
<1>2. SerialInv'
  BY DEF InitLock, CleanupLock, Finalize, LifeInv, SerialInv
<1>3. CASE InitLock(t)
  <2>1. HandleInv'
    BY <1>3 DEF InitLock, LifeInv, HandleInv, Users
  <2>2. UpInv' /\ ModuleInv'
    BY <1>1, <1>3 DEF InitLock, LifeInv, UpInv, ModuleInv
  <2>3. CountInv' /\ MIsSafe'
    BY <1>1, <1>3 DEF InitLock, LifeInv, CountInv, MIsSafe
  <2>4. QED BY <1>2, <2>1, <2>2, <2>3 DEF LifeInv
<1>4. CASE CleanupLock(t)
  <2>1. HandleInv'
    BY <1>4 DEF CleanupLock, LifeInv, HandleInv, Users
  <2>2. UpInv' /\ ModuleInv'
    BY <1>1, <1>4 DEF CleanupLock, LifeInv, UpInv, ModuleInv
  <2>3. CountInv' /\ MIsSafe'
    BY <1>1, <1>4 DEF CleanupLock, LifeInv, CountInv, MIsSafe
  <2>4. QED BY <1>2, <2>1, <2>2, <2>3 DEF LifeInv
<1>5. CASE Finalize(t)
  <2>1. users = {} /\ interp = "up" /\ targetInit = 1
    BY <1>5 DEF Finalize, LifeInv, CountInv, LockInv
  <2>2. \A u \in Threads \ {t} : pc[u] \in {"idle", "op"}
    BY <1>5 DEF Finalize, LifeInv, SerialInv
  <2>3. HandleInv'
    BY <1>5, <2>1, <2>2 DEF Finalize, LifeInv, HandleInv, users, Users, Stale, HdlState
  <2>4. UpInv' /\ ModuleInv'
    BY <1>1, <1>5, <2>1, <2>2 DEF Finalize, LifeInv, UpInv, ModuleInv, Stale, ModuleState
  <2>5. CountInv' /\ MIsSafe'
    BY <1>1, <1>5, <2>1 DEF Finalize, LifeInv, CountInv, MIsSafe
  <2>6. QED BY <1>2, <2>3, <2>4, <2>5 DEF LifeInv
<1>6. QED BY <1>3, <1>4, <1>5

LEMMA LifePython ==
  ASSUME LifeHyp, NEW t \in Threads, fault = "none", PythonDone(t)
  PROVE  LifeInv'
<1> USE PyTargetAssumption
    DEF LifeHyp, TypeInv, InCall, TypeOK, Creating, Cleanup, Released, Leaving, PC, Python,
        lib, python, mi, local, Goto, Running, Return
<1>1. CASE ImportModule(t)
  <2>1. users' = users
    BY <1>1, UsersSame DEF ImportModule
  <2>2. SerialInv' /\ HandleInv'
    BY <1>1 DEF ImportModule, LifeInv, SerialInv, HandleInv, Users
  <2>3. interp = "up"
    BY <1>1 DEF ImportModule, LockInv
  <2>4. UpInv' /\ ModuleInv'
    BY <1>1, <2>1, <2>3 DEF ImportModule, LifeInv, UpInv, ModuleInv
  <2>5. CountInv' /\ MIsSafe'
    BY <1>1, <2>1 DEF ImportModule, LifeInv, CountInv, MIsSafe
  <2>6. QED BY <2>2, <2>4, <2>5 DEF LifeInv
<1>2. CASE ProxyDone(t)
  <2>1. users' = users
    BY <1>2, UsersSame DEF ProxyDone
  <2>2. SerialInv'
    BY <1>2 DEF ProxyDone, LifeInv, SerialInv
  <2>3. HandleInv'
    BY <1>2 DEF ProxyDone, LifeInv, SerialInv, HandleInv, Users
  <2>4. UpInv' /\ ModuleInv'
    BY <1>2, <2>1 DEF ProxyDone, LifeInv, UpInv, ModuleInv
  <2>5. CountInv' /\ MIsSafe'
    BY <1>2, <2>1 DEF ProxyDone, LifeInv, CountInv, MIsSafe
  <2>6. QED BY <2>2, <2>3, <2>4, <2>5 DEF LifeInv
<1>3. CASE OpDone(t)
  <2>1. users' = users
    BY <1>3, UsersSame DEF OpDone
  <2>2. SerialInv'
    BY <1>3 DEF OpDone, LifeInv, SerialInv
  <2>3. HandleInv'
    BY <1>3 DEF OpDone, LifeInv, SerialInv, HandleInv, Users
  <2>4. UpInv' /\ ModuleInv'
    BY <1>3, <2>1 DEF OpDone, LifeInv, UpInv, ModuleInv
  <2>5. hdl[cur[t]] = "live"
    BY <1>3 DEF OpDone, LifeInv, SerialInv, HandleInv, Users
  <2>6. CountInv' /\ MIsSafe'
    BY <1>3, <2>1, <2>5 DEF OpDone, LifeInv, CountInv, MIsSafe
  <2>7. QED BY <2>2, <2>3, <2>4, <2>6 DEF LifeInv
<1>4. CASE CleanupDone(t)
  <2>1. users' = users
    BY <1>4, UsersSame DEF CleanupDone
  <2>2. SerialInv'
    BY <1>4 DEF CleanupDone, LifeInv, SerialInv
  <2>3. HandleInv'
    BY <1>4 DEF CleanupDone, LifeInv, SerialInv, HandleInv, Users
  <2>4. UpInv' /\ ModuleInv'
    BY <1>4, <2>1 DEF CleanupDone, LifeInv, UpInv, ModuleInv
  <2>5. hdl[cur[t]] = "live"
    BY <1>4 DEF CleanupDone, LifeInv, SerialInv, HandleInv, Users
  <2>6. CountInv' /\ MIsSafe'
    BY <1>4, <2>1, <2>5 DEF CleanupDone, LifeInv, CountInv, MIsSafe
  <2>7. QED BY <2>2, <2>3, <2>4, <2>6 DEF LifeInv
<1>5. CASE DropModule(t)
  <2>1. users' = users
    BY <1>5, UsersSame DEF DropModule
  <2>2. SerialInv' /\ HandleInv'
    BY <1>5 DEF DropModule, LifeInv, SerialInv, HandleInv, Users
  <2>3. targetModule # "stale"
    BY <1>5 DEF DropModule, LifeInv, UpInv, ModuleInv
  <2>4. UpInv' /\ ModuleInv'
    BY <1>5, <2>1 DEF DropModule, LifeInv, UpInv, ModuleInv
  <2>5. CountInv' /\ MIsSafe'
    BY <1>5, <2>1, <2>3 DEF DropModule, LifeInv, CountInv, MIsSafe
  <2>6. QED BY <2>2, <2>4, <2>5 DEF LifeInv
<1>6. QED BY <1>1, <1>2, <1>3, <1>4, <1>5 DEF PythonDone

LEMMA LifeStraight ==
  ASSUME LifeHyp, NEW t \in Threads, fault = "none", Straight(t)
  PROVE  LifeInv'
<1> USE PyTargetAssumption
    DEF LifeHyp, TypeInv, InCall, TypeOK, Creating, Cleanup, Released, Leaving, PC, Python,
        lib, python, mi, local, Goto, Return
<1>1. CASE GlobalInitialize(t)
  <2>1. users' = users
    BY <1>1, UsersSame DEF GlobalInitialize
  <2>2. SerialInv' /\ HandleInv'
    BY <1>1 DEF GlobalInitialize, LifeInv, SerialInv, HandleInv, Users
  <2>3. UpInv' /\ ModuleInv'
    BY <1>1, <2>1 DEF GlobalInitialize, LifeInv, UpInv, ModuleInv
  <2>4. CountInv' /\ MIsSafe'
    BY <1>1, <2>1 DEF GlobalInitialize, LifeInv, CountInv, MIsSafe
  <2>5. QED BY <2>2, <2>3, <2>4 DEF LifeInv
<1>2. CASE CountRead(t)
  <2>1. users' = users
    BY <1>2, UsersSame DEF CountRead
  <2>2. SerialInv' /\ HandleInv'
    BY <1>2 DEF CountRead, LifeInv, SerialInv, HandleInv, Users
  <2>3. UpInv' /\ ModuleInv'
    BY <1>2, <2>1 DEF CountRead, LifeInv, UpInv, ModuleInv
  <2>4. CountInv' /\ MIsSafe'
    BY <1>2, <2>1 DEF CountRead, LifeInv, SerialInv, CountInv, MIsSafe
  <2>5. QED BY <2>2, <2>3, <2>4 DEF LifeInv
<1>3. CASE CountWrite(t)
  <2>1. cur[t] \in MIs \ held
    BY <1>3 DEF CountWrite, LifeInv, SerialInv
  <2>2. \A u \in Threads \ {t} : pc[u] \in {"idle", "op"} /\ cur[u] # cur[t]
    BY <1>3, <2>1 DEF CountWrite, LifeInv, SerialInv
  <2>3. users' = users \cup {cur[t]}
    BY <1>3, <2>1, <2>2 DEF CountWrite, users, Users
  <2>4. Cardinality(users') = miCount + 1
    <3>1. cur[t] \notin users
      BY <2>1 DEF users
    <3>2. QED BY <2>3, <3>1, UsersFinite, FS_AddElement DEF LifeInv, CountInv
  <2>5. SerialInv'
    BY <1>3, <2>1, <2>2 DEF CountWrite, LifeInv, SerialInv
  <2>6. HandleInv'
    BY <1>3, <2>1, <2>2 DEF CountWrite, LifeInv, HandleInv, Users
  <2>7. UpInv' /\ ModuleInv'
    BY <1>3, <2>3 DEF CountWrite, LifeInv, UpInv, ModuleInv
  <2>8. CountInv' /\ MIsSafe'
    <3>1. miCount' = Cardinality(users')
      BY <1>3, <2>4 DEF CountWrite, LifeInv, CountInv
    <3>2. QED BY <1>3, <2>2, <3>1 DEF CountWrite, LifeInv, CountInv, MIsSafe
  <2>9. QED BY <2>5, <2>6, <2>7, <2>8 DEF LifeInv
<1>4. CASE CreateFail(t)
  <2>1. users' = users
    BY <1>4, UsersSame DEF CreateFail
  <2>2. SerialInv'
    BY <1>4 DEF CreateFail, LifeInv, SerialInv
  <2>3. HandleInv'
    BY <1>4 DEF CreateFail, LifeInv, SerialInv, HandleInv, Users
  <2>4. UpInv' /\ ModuleInv'
    BY <1>4, <2>1 DEF CreateFail, LifeInv, UpInv, ModuleInv
  <2>5. CountInv' /\ MIsSafe'
    BY <1>4, <2>1 DEF CreateFail, LifeInv, CountInv, MIsSafe
  <2>6. QED BY <2>2, <2>3, <2>4, <2>5 DEF LifeInv
<1>5. CASE DropProvider(t)
  <2>1. users' = users
    BY <1>5, UsersSame DEF DropProvider
  <2>2. SerialInv'
    BY <1>5 DEF DropProvider, LifeInv, SerialInv
  <2>3. HandleInv'
    BY <1>5 DEF DropProvider, LifeInv, SerialInv, HandleInv, Users
  <2>4. UpInv' /\ ModuleInv'
    BY <1>5, <2>1 DEF DropProvider, LifeInv, UpInv, ModuleInv
  <2>5. hdl[cur[t]] = "live" /\ interp = "up"
    BY <1>5 DEF DropProvider, LifeInv, SerialInv, HandleInv, UpInv, Users
  <2>6. CountInv' /\ MIsSafe'
    BY <1>5, <2>1, <2>5 DEF DropProvider, LifeInv, CountInv, MIsSafe
  <2>7. QED BY <2>2, <2>3, <2>4, <2>6 DEF LifeInv
<1>6. CASE UncountRead(t)
  <2>1. users' = users
    BY <1>6, UsersSame DEF UncountRead
  <2>2. SerialInv' /\ HandleInv'
    BY <1>6 DEF UncountRead, LifeInv, SerialInv, HandleInv, Users
  <2>3. UpInv' /\ ModuleInv'
    BY <1>6, <2>1 DEF UncountRead, LifeInv, UpInv, ModuleInv
  <2>4. CountInv' /\ MIsSafe'
    BY <1>6, <2>1 DEF UncountRead, LifeInv, SerialInv, CountInv, MIsSafe
  <2>5. QED BY <2>2, <2>3, <2>4 DEF LifeInv
<1>7. CASE UncountWrite(t)
  <2>1. cur[t] \in held /\ \A u \in Threads \ {t} : pc[u] \in {"idle", "op"} /\ cur[u] # cur[t]
    BY <1>7 DEF UncountWrite, LifeInv, SerialInv
  <2>2. cur[t] \in users
    BY <1>7, <2>1 DEF UncountWrite, users, Users
  <2>3. users' = users \ {cur[t]}
    BY <1>7, <2>1 DEF UncountWrite, users, Users
  <2>4. miCount' = Cardinality(users')
    <3>1. miCount' = Cardinality(users) - 1
      BY <1>7 DEF UncountWrite, LifeInv, CountInv
    <3>2. IsFiniteSet(users)
      BY UsersFinite
    <3>3. Cardinality(users') = Cardinality(users) - 1
      <4> HIDE DEF LifeHyp
      <4>1. QED BY <2>2, <2>3, <3>2, FS_RemoveElement
    <3>4. QED BY <3>1, <3>3
  <2>5. IsFiniteSet(users')
    BY <2>3, UsersFinite, FS_Subset
  <2>6. pc'[t] = "decmodule" => users' = {}
    BY <1>7, <2>4, <2>5, FS_EmptySet, FS_CardinalityType DEF UncountWrite
  <2>7. SerialInv' /\ HandleInv'
    BY <1>7 DEF UncountWrite, LifeInv, SerialInv, HandleInv, Users
  <2>8. UpInv' /\ ModuleInv'
    BY <1>7, <2>1, <2>2, <2>3 DEF UncountWrite, LifeInv, UpInv, ModuleInv
  <2>9. CountInv' /\ MIsSafe'
    BY <1>7, <2>1, <2>4, <2>6 DEF UncountWrite, LifeInv, CountInv, MIsSafe
  <2>10. QED BY <2>7, <2>8, <2>9 DEF LifeInv
<1>8. CASE CleanupReturn(t)
  <2>1. cur[t] \in held /\ \A u \in Threads \ {t} : pc[u] \in {"idle", "op"} /\ cur[u] # cur[t]
    BY <1>8 DEF CleanupReturn, LifeInv, SerialInv
  <2>2. users' = users
    BY <1>8, <2>1 DEF CleanupReturn, users, Users
  <2>3. SerialInv'
    BY <1>8, <2>1 DEF CleanupReturn, LifeInv, SerialInv
  <2>4. HandleInv'
    BY <1>8, <2>1 DEF CleanupReturn, LifeInv, HandleInv, Users
  <2>5. UpInv' /\ ModuleInv'
    BY <1>8, <2>2 DEF CleanupReturn, LifeInv, UpInv, ModuleInv
  <2>6. CountInv' /\ MIsSafe'
    BY <1>8, <2>2 DEF CleanupReturn, LifeInv, CountInv, MIsSafe
  <2>7. QED BY <2>3, <2>4, <2>5, <2>6 DEF LifeInv
<1>9. QED BY <1>1, <1>2, <1>3, <1>4, <1>5, <1>6, <1>7, <1>8 DEF Straight

LEMMA LifeDlclose ==
  ASSUME LifeHyp, fault = "none", Dlclose
  PROVE  LifeInv'
<1> USE DEF LifeHyp, Dlclose, python, mi, local
<1>1. users = {}
  BY UsedIdle DEF LifeInv
<1>2. users' = {}
  BY <1>1 DEF users, Users
<1>3. SerialInv' /\ HandleInv'
  BY DEF LifeInv, SerialInv, HandleInv, Users
<1>4. UpInv' /\ ModuleInv'
  BY <1>1, <1>2 DEF Used, LifeInv, UpInv, ModuleInv
<1>5. Cardinality(users') = 0
  BY <1>2, FS_EmptySet
<1>6. CountInv' /\ MIsSafe'
  BY <1>1, <1>2, <1>5 DEF Used, LifeInv, CountInv, MIsSafe
<1>7. QED BY <1>3, <1>4, <1>6 DEF LifeInv

LEMMA LifeNext ==
  ASSUME LifeHyp, [Next]_vars
  PROVE  LifeInv'
<1>1. CASE fault = "none" /\ Dlclose
  BY <1>1, LifeDlclose
<1>2. ASSUME NEW t \in Threads, Step(t), fault = "none" PROVE LifeInv'
  BY <1>2, LifeCall, LifeGIL, LifeAcquire, LifePython, LifeStraight
  DEF Step, Acquire
<1>3. CASE UNCHANGED vars
  <2>1. users' = users
    BY <1>3 DEF vars, lib, python, mi, local, users, Users
  <2>2. QED
    BY <1>3, <2>1
    DEF LifeHyp, LifeInv, SerialInv, HandleInv, UpInv, ModuleInv, CountInv, MIsSafe,
        Users, vars, lib, python, mi, local
<1>4. QED BY <1>1, <1>2, <1>3 DEF Next

LEMMA LifeAlways ==
  ASSUME SerialAdmin
  PROVE  Spec => [](TypeInv /\ LockInv /\ LifeInv)
<1>1. Init => TypeInv /\ LockInv /\ LifeInv
  BY TypeInit, LockInit, LifeInit
<1>2. TypeInv /\ LockInv /\ LifeInv /\ [Next]_vars => (TypeInv /\ LockInv /\ LifeInv)'
  BY SerialAdmin, TypeNext, LockNext, LifeNext DEF LifeHyp
<1>3. QED BY <1>1, <1>2, PTL DEF Spec

(* For any number of threads and MIs, whichever creations fail at          *)
(* whichever step: under a broker that serialises creation and cleanup, no *)
(* operation and no cleanup of an MI meets a finalised interpreter, a dead *)
(* provider or a dead module.                                              *)
THEOREM MIsAlwaysSafe ==
  ASSUME SerialAdmin
  PROVE  Spec => []MIsSafe
<1>1. LifeInv => MIsSafe
  BY DEF LifeInv
<1>2. QED BY <1>1, LifeAlways, PTL

(* For any number of threads and MIs: under such a broker _MI_COUNT is the *)
(* number of MIs that use the interpreter.                                 *)
THEOREM CountExact ==
  ASSUME SerialAdmin
  PROVE  Spec => []UseCount
<1>1. LifeInv => UseCount
  BY DEF LifeInv, CountInv, UseCount
<1>2. QED BY <1>1, LifeAlways, PTL

-----------------------------------------------------------------------------
(***************************************************************************)
(* A broker that also unloads the library once it has no MI of it, and     *)
(* leaves the CMPI<type>MI to the library.  Whatever fails, no creation of *)
(* its finds a dead interpreter or module: a library that is used again    *)
(* without an MI is always a fresh one.                                    *)
(***************************************************************************)
OrderlyBroker == SerialAdmin /\ Unloads /\ ~BrokerFreesMI

FreshInv ==
  /\ NoFault
  /\ \A t \in Threads : pc[t] \in {"lock", "global", "import"} =>
       /\ targetModule \in {"None", "live"}
       /\ targetInit = 1 => interp = "up"
       /\ pc[t] = "import" => interp = "up"

LEMMA FreshStep ==
  ASSUME OrderlyBroker, LifeHyp, FreshInv, NEW t \in Threads, Step(t)
  PROVE  FreshInv'
<1> USE DEF LifeHyp, TypeInv, InCall, TypeOK, FreshInv, NoFault,
        Creating, Cleanup, Released, PC, Python, lib, python, mi, local, Goto, Return, Running
<1>1. ASSUME NEW m \in MIs, CreateCall(t, m) PROVE FreshInv'
  <2>1. \A u \in Threads : pc[u] \in {"idle", "op"}
    BY <1>1, PyTargetAssumption DEF CreateCall, EnterAdmin, OrderlyBroker, LifeInv, SerialInv
  <2>2. targetModule \in {"None", "live"} /\ (targetInit = 1 => interp = "up")
    <3>1. CASE users # {}
      BY <3>1 DEF LifeInv, UpInv, ModuleInv
    <3>2. CASE users = {}
      <4>1. held = {}
        BY <2>1, <3>2 DEF users, Users, Leaving
      <4>2. \A u \in Threads : pc[u] = "idle" /\ cur[u] = NoMI
        BY <2>1, <4>1 DEF LifeInv, SerialInv
      <4>3. \A n \in MIs : hdl[n] = "none"
        BY <4>1, <4>2, PyTargetAssumption DEF LifeInv, HandleInv
      <4>4. ~Used
        BY <1>1 DEF CreateCall, OrderlyBroker
      <4>5. targetInit # 1 /\ targetModule = "None"
        BY <4>2, <4>3, <4>4 DEF Used
      <4>6. QED BY <4>5
    <3>3. QED BY <3>1, <3>2
  <2>3. QED BY <1>1, <2>1, <2>2 DEF CreateCall
<1>2. CASE \E m \in MIs : OpCall(t, m) \/ \E b \in BOOLEAN : CleanupCall(t, m, b)
  BY <1>2 DEF OpCall, CleanupCall
<1>3. CASE YieldGIL(t)
  BY <1>3 DEF YieldGIL
<1>4. CASE TakeGIL(t)
  <2>1. LifeInv'
    BY <1>4, LifeGIL
  <2>2. fault' = fault
    BY <1>4, <2>1 DEF TakeGIL, LifeInv, MIsSafe
  <2>3. QED BY <1>4, <2>2 DEF TakeGIL
<1>5. CASE InitLock(t) \/ CleanupLock(t)
  BY <1>5 DEF InitLock, CleanupLock
<1>6. CASE Finalize(t)
  <2>1. \A u \in Threads \ {t} : pc[u] \in {"idle", "op"}
    BY <1>6 DEF Finalize, LifeInv, SerialInv
  <2>2. interp = "up"
    BY <1>6 DEF Finalize, LockInv
  <2>3. QED BY <1>6, <2>1, <2>2 DEF Finalize
<1>7. CASE ImportModule(t)
  <2>1. \A u \in Threads \ {t} : pc[u] \in {"idle", "op"}
    BY <1>7 DEF ImportModule, LifeInv, SerialInv
  <2>2. QED BY <1>7, <2>1 DEF ImportModule
<1>8. CASE ProxyDone(t)
  BY <1>8 DEF ProxyDone
<1>9. CASE OpDone(t) \/ CleanupDone(t) \/ DropModule(t)
  <2>1. LifeInv' /\ PythonDone(t)
    BY <1>9, LifePython DEF PythonDone
  <2>2. fault' = fault
    BY <1>9, <2>1 DEF OpDone, CleanupDone, DropModule, LifeInv, MIsSafe
  <2>3. QED BY <1>9, <2>2 DEF OpDone, CleanupDone, DropModule
<1>10. CASE GlobalInitialize(t)
  <2>1. \A u \in Threads \ {t} : pc[u] \in {"idle", "op"}
    BY <1>10 DEF GlobalInitialize, LifeInv, SerialInv
  <2>2. QED BY <1>10, <2>1 DEF GlobalInitialize
<1>11. CASE CountRead(t) \/ CountWrite(t) \/ CreateFail(t)
  BY <1>11 DEF CountRead, CountWrite, CreateFail
<1>12. CASE DropProvider(t)
  <2>1. LifeInv'
    BY <1>12, LifeStraight DEF Straight
  <2>2. fault' = fault
    BY <1>12, <2>1 DEF DropProvider, LifeInv, MIsSafe
  <2>3. QED BY <1>12, <2>2 DEF DropProvider
<1>13. CASE UncountRead(t) \/ UncountWrite(t) \/ CleanupReturn(t)
  BY <1>13 DEF UncountRead, UncountWrite, CleanupReturn, OrderlyBroker
<1>14. QED
  BY <1>1, <1>2, <1>3, <1>4, <1>5, <1>6, <1>7, <1>8, <1>9, <1>10, <1>11, <1>12, <1>13
  DEF Step, Call, Acquire, PythonDone, Straight

LEMMA FreshNext ==
  ASSUME OrderlyBroker, LifeHyp, FreshInv, [Next]_vars
  PROVE  FreshInv'
<1>1. CASE Dlclose
  BY <1>1 DEF Dlclose, Used, FreshInv, NoFault
<1>2. ASSUME NEW t \in Threads, Step(t) PROVE FreshInv'
  BY <1>2, FreshStep
<1>3. CASE UNCHANGED vars
  BY <1>3 DEF vars, lib, python, mi, local, FreshInv, NoFault
<1>4. QED BY <1>1, <1>2, <1>3 DEF Next

(* For any number of threads and MIs, whatever fails: under an orderly     *)
(* broker there is no undefined behaviour at all.                          *)
THEOREM InterpreterSafe ==
  ASSUME OrderlyBroker
  PROVE  Spec => []NoFault
<1>1. SerialAdmin
  BY OrderlyBroker DEF OrderlyBroker
<1>2. Init => FreshInv
  BY DEF Init, FreshInv, NoFault
<1>3. (TypeInv /\ LockInv /\ LifeInv) /\ FreshInv /\ [Next]_vars => FreshInv'
  BY OrderlyBroker, <1>1, FreshNext DEF LifeHyp
<1>4. FreshInv => NoFault
  BY DEF FreshInv
<1>5. QED BY <1>1, <1>2, <1>3, <1>4, LifeAlways, PTL DEF Spec

-----------------------------------------------------------------------------
(***************************************************************************)
(* PyTarget implements Interpreter.  Four kinds of steps change what the   *)
(* abstract specification sees: Python comes up, a factory counts its MI,  *)
(* a cleanup uncounts one, and Py_Finalize.                                *)
(***************************************************************************)
LEMMA DueSame ==
  ASSUME NEW t \in Threads,
         \A u \in Threads \ {t} : pc'[u] = pc[u],
         pc[t] \in {"decmodule", "final"} <=> pc'[t] \in {"decmodule", "final"}
  PROVE  due' = due
  BY DEF due

LEMMA OthersNotDue ==
  ASSUME LifeHyp, NEW t \in Threads, pc[t] \in Creating \cup Cleanup,
         NEW u \in Threads \ {t}
  PROVE  pc[u] \in {"idle", "op"}
  BY DEF LifeHyp, LifeInv, SerialInv, TypeInv, TypeOK, PC, Python,
         Creating, Cleanup, Released

LEMMA RefineQuiet ==
  ASSUME LifeHyp, NEW t \in Threads, Step(t),
         ~GlobalInitialize(t), ~CountWrite(t), ~UncountWrite(t), ~Finalize(t),
         ~CleanupReturn(t)
  PROVE  UNCHANGED Abstract!vars
<1> USE DEF LifeHyp, TypeInv, InCall, TypeOK, PC, Python, Leaving, Creating, Cleanup, Released,
        lib, python, mi, local, Goto, Running, Return
<1>1. CASE Call(t)
  <2>1. users' = users
    BY <1>1, UsersSame DEF Call, CreateCall, OpCall, CleanupCall
  <2>2. due' = due /\ interp' = interp
    BY <1>1, DueSame DEF Call, CreateCall, OpCall, CleanupCall
  <2>3. QED BY <2>1, <2>2 DEF Abstract!vars
<1>2. CASE YieldGIL(t) \/ TakeGIL(t)
  BY <1>2 DEF YieldGIL, TakeGIL, users, due, Users, Abstract!vars
<1>3. CASE InitLock(t) \/ CleanupLock(t)
  <2>1. users' = users
    BY <1>3, UsersSame DEF InitLock, CleanupLock
  <2>2. due' = due /\ interp' = interp
    BY <1>3, DueSame DEF InitLock, CleanupLock
  <2>3. QED BY <2>1, <2>2 DEF Abstract!vars
<1>4. CASE PythonDone(t)
  <2>1. users' = users
    BY <1>4, UsersSame DEF PythonDone, ImportModule, ProxyDone, OpDone, CleanupDone, DropModule
  <2>2. due' = due /\ interp' = interp
    BY <1>4, DueSame DEF PythonDone, ImportModule, ProxyDone, OpDone, CleanupDone, DropModule
  <2>3. QED BY <2>1, <2>2 DEF Abstract!vars
<1>5. CASE CountRead(t) \/ CreateFail(t) \/ DropProvider(t) \/ UncountRead(t)
  <2>1. users' = users
    BY <1>5, UsersSame DEF CountRead, CreateFail, DropProvider, UncountRead
  <2>2. due' = due /\ interp' = interp
    BY <1>5, DueSame DEF CountRead, CreateFail, DropProvider, UncountRead
  <2>3. QED BY <2>1, <2>2 DEF Abstract!vars
<1>6. QED BY <1>1, <1>2, <1>3, <1>4, <1>5 DEF Step, Acquire, Straight

LEMMA RefineStep ==
  ASSUME LifeHyp, NEW t \in Threads, fault = "none", Step(t)
  PROVE  [Abstract!Next]_(Abstract!vars)
<1> USE DEF LifeHyp, TypeInv, InCall, TypeOK, PC, Python, Leaving, Creating, Cleanup, Released,
        lib, python, mi, local, Goto, Return
<1>1. CASE GlobalInitialize(t)
  <2>1. users' = users
    BY <1>1, UsersSame DEF GlobalInitialize
  <2>2. due' = due
    BY <1>1, DueSame DEF GlobalInitialize
  <2>3. interp' = interp \/ (interp # "up" /\ interp' = "up")
    BY <1>1 DEF GlobalInitialize
  <2>4. QED BY <2>1, <2>2, <2>3 DEF Abstract!Next, Abstract!Load, Abstract!vars
<1>2. CASE CountWrite(t)
  <2>1. cur[t] \in MIs \ held
    BY <1>2 DEF CountWrite, LifeInv, SerialInv
  <2>2. \A u \in Threads \ {t} : pc[u] \in {"idle", "op"} /\ cur[u] # cur[t]
    BY <1>2, <2>1 DEF CountWrite, LifeInv, SerialInv
  <2>3. users' = users \cup {cur[t]} /\ cur[t] \notin users
    BY <1>2, <2>1, <2>2 DEF CountWrite, users, Users
  <2>4. ~due /\ due' = due
    BY <1>2, <2>2 DEF CountWrite, due
  <2>5. interp = "up" /\ interp' = interp
    BY <1>2 DEF CountWrite, LifeInv, UpInv
  <2>6. Abstract!Attach(cur[t])
    BY <2>3, <2>4, <2>5 DEF Abstract!Attach
  <2>7. QED BY <2>1, <2>6 DEF Abstract!Next
<1>3. CASE UncountWrite(t)
  <2>1. cur[t] \in held /\ \A u \in Threads \ {t} : pc[u] \in {"idle", "op"} /\ cur[u] # cur[t]
    BY <1>3 DEF UncountWrite, LifeInv, SerialInv
  <2>2. cur[t] \in users /\ users' = users \ {cur[t]}
    BY <1>3, <2>1 DEF UncountWrite, users, Users
  <2>3. LifeInv'
    BY <1>3, LifeStraight DEF Straight
  <2>4. due' = (users' = {})
    <3>1. CASE miCount' > 0
      <4>1. users' # {}
        BY <3>1, <2>3, FS_EmptySet DEF LifeInv, CountInv
      <4>2. ~due'
        BY <1>3, <2>1, <3>1 DEF UncountWrite, due
      <4>3. QED BY <4>1, <4>2 DEF due
    <3>2. CASE ~(miCount' > 0)
      <4>1. pc'[t] = "decmodule"
        BY <1>3, <3>2 DEF UncountWrite
      <4>2. due' /\ users' = {}
        BY <2>3, <4>1 DEF LifeInv, CountInv, due
      <4>3. QED BY <4>2 DEF due
    <3>3. QED BY <3>1, <3>2
  <2>5. Abstract!Detach(cur[t])
    BY <1>3, <2>2, <2>4 DEF UncountWrite, Abstract!Detach
  <2>6. QED BY <2>1, <2>5 DEF Abstract!Next
<1>4. CASE Finalize(t)
  <2>1. users' = users
    BY <1>4, UsersSame DEF Finalize
  <2>2. \A u \in Threads \ {t} : pc[u] \in {"idle", "op"}
    BY <1>4, OthersNotDue DEF Finalize
  <2>3. due /\ ~due'
    BY <1>4, <2>2 DEF Finalize, due
  <2>4. interp' = "down"
    BY <1>4 DEF Finalize, LockInv
  <2>5. Abstract!Unload
    BY <2>1, <2>3, <2>4 DEF Abstract!Unload, due
  <2>6. QED BY <2>5 DEF Abstract!Next
<1>5. CASE CleanupReturn(t)
  <2>1. \A u \in Threads \ {t} : cur[u] # cur[t]
    BY <1>5 DEF CleanupReturn, LifeInv, SerialInv
  <2>2. users' = users
    BY <1>5, <2>1 DEF CleanupReturn, users, Users
  <2>3. due' = due /\ interp' = interp
    BY <1>5, DueSame DEF CleanupReturn
  <2>4. QED BY <2>2, <2>3 DEF Abstract!vars
<1>6. QED BY <1>1, <1>2, <1>3, <1>4, <1>5, RefineQuiet

LEMMA RefineNext ==
  ASSUME LifeHyp, [Next]_vars
  PROVE  [Abstract!Next]_(Abstract!vars)
<1>1. CASE Dlclose
  <2>1. users' = users
    BY <1>1 DEF Dlclose, mi, users, Users
  <2>2. users = {} /\ ~due /\ due' = due
    BY <1>1, UsedIdle DEF Dlclose, Used, LifeHyp, LifeInv, due
  <2>3. interp \in {"up", "down"} /\ interp' = "down"
    BY <1>1 DEF Dlclose, LifeHyp, TypeInv, TypeOK
  <2>4. QED BY <2>1, <2>2, <2>3 DEF Abstract!Next, Abstract!Discard, Abstract!vars
<1>2. ASSUME NEW t \in Threads, Step(t), fault = "none" PROVE [Abstract!Next]_(Abstract!vars)
  BY <1>2, RefineStep
<1>3. CASE UNCHANGED vars
  <2>1. users' = users
    BY <1>3 DEF vars, lib, python, mi, local, users, Users
  <2>2. due' = due /\ interp' = interp
    BY <1>3 DEF vars, lib, python, mi, local, due
  <2>3. QED BY <2>1, <2>2 DEF Abstract!vars
<1>4. QED BY <1>1, <1>2, <1>3 DEF Next

(* The safety part of Implements for any number of threads and MIs: Python *)
(* is loaded before an MI is counted, and finalised only when the last has *)
(* been uncounted.                                                         *)
THEOREM ImplementsInterpreter ==
  ASSUME SerialAdmin
  PROVE  Spec => Abstract!Init /\ [][Abstract!Next]_(Abstract!vars)
<1>1. Init => Abstract!Init
  BY DEF Init, Abstract!Init, users, due, Users
<1>2. (TypeInv /\ LockInv /\ LifeInv) /\ [Next]_vars => [Abstract!Next]_(Abstract!vars)
  BY SerialAdmin, RefineNext DEF LifeHyp
<1>3. QED BY <1>1, <1>2, LifeAlways, PTL DEF Spec

=============================================================================
