------------------------------ MODULE PyTarget ------------------------------
(***************************************************************************)
(* The life of the one Python interpreter that serves every managed        *)
(* interface (MI) of the provider library: the MI factory and Cleanup of   *)
(* cmpi_provider.c over TargetInitialize, TargetCall and TargetCleanup of  *)
(* target_python.c, run by the threads of a CIM broker.                    *)
(*                                                                         *)
(* One action is one stretch of C code between two points where another    *)
(* thread can interfere: acquiring _CMPI_INIT_MUTEX, acquiring the global  *)
(* interpreter lock (GIL), Python code giving up the GIL, and the          *)
(* unprotected accesses to _MI_COUNT.  A release is merged with the code   *)
(* before it.                                                              *)
(*                                                                         *)
(* Reaching undefined behaviour (a dead interpreter, a freed object, a     *)
(* null module) is recorded in "fault" and ends the behaviour: C gives no  *)
(* meaning to what the process does next.                                  *)
(***************************************************************************)
EXTENDS Integers, FiniteSets

CONSTANTS
  Threads,        (* threads of the broker that call into the library      *)
  MIs,            (* slots for managed interfaces                          *)
  NoThread,       (* the owner of a free lock                              *)
  NoMI,           (* the MI of a thread that is not in a call              *)
  SerialAdmin,    (* does the broker serialise MI creation and cleanup?    *)
  Unloads,        (* does it dlclose the library before using it again?    *)
  BrokerFreesMI,  (* may the broker free the CMPI<type>MI after cleanup?   *)
  Failures,       (* which steps of TargetInitialize may fail              *)
  MaxCount        (* bound: lost decrements carry _MI_COUNT no further     *)

ASSUME PyTargetAssumption ==
  /\ IsFiniteSet(MIs)
  /\ NoThread \notin Threads
  /\ NoMI \notin MIs
  /\ SerialAdmin \in BOOLEAN
  /\ Unloads \in BOOLEAN
  /\ BrokerFreesMI \in BOOLEAN
  /\ Failures \subseteq {"init", "import", "proxy"}
  /\ MaxCount \in Nat

VARIABLES
  (* static data of the library, cmpi_provider.c:194-200                   *)
  initMutex,      (* owner of _CMPI_INIT_MUTEX                             *)
  targetInit,     (* _TARGET_INIT                                          *)
  miCount,        (* _MI_COUNT                                             *)
  targetModule,   (* _TARGET_MODULE: Py_None, NULL, a live or dead module  *)
  (* the interpreter                                                       *)
  interp,         (* is Python initialised?                                *)
  gil,            (* owner of the global interpreter lock                  *)
  (* per MI                                                                *)
  hdl,            (* the ProviderMIHandle and its implementation           *)
  held,           (* MIs the broker has been given and may call            *)
  (* per thread                                                            *)
  pc, cur,        (* where the thread is, and on which MI                  *)
  tmp,            (* the value of _MI_COUNT it is about to write back      *)
  term,           (* the "terminating" argument of its cleanup             *)
  rc,             (* the status its cleanup will return                    *)
  admin,          (* the broker's own lock, used when SerialAdmin          *)
  fault           (* the undefined behaviour met, or "none"                *)

lib    == <<initMutex, targetInit, miCount, targetModule>>
python == <<interp, gil>>
mi     == <<hdl, held>>
local  == <<tmp, term, rc>>
vars   == <<lib, python, mi, pc, cur, local, admin, fault>>

-----------------------------------------------------------------------------
Python == {"import", "proxy", "op", "cleanup", "decmodule"}
PC == Python \cup
      {"idle", "lock", "global", "count", "count1", "fail",
       "decref", "unlock", "uncount", "uncount1", "final", "free"}

HdlState    == {"none", "null", "live", "stale", "dropped"}
ModuleState == {"None", "NULL", "live", "stale"}
(* KEEP stands for CMPI_RC_DO_NOT_UNLOAD and CMPI_RC_NEVER_UNLOAD, ERR for *)
(* every other code but CMPI_RC_OK.                                        *)
Status      == {"OK", "ERR", "KEEP"}
Fault       == {"none", "dead_start", "no_interpreter", "dead_module",
                "dropped_module", "dead_provider", "double_free"}

Init ==
  /\ initMutex = NoThread /\ targetInit = 0
  /\ miCount = 0 /\ targetModule = "None"
  /\ interp = "down" /\ gil = NoThread
  /\ hdl = [m \in MIs |-> "none"] /\ held = {}
  /\ pc = [t \in Threads |-> "idle"] /\ cur = [t \in Threads |-> NoMI]
  /\ tmp = [t \in Threads |-> 0] /\ term = [t \in Threads |-> FALSE]
  /\ rc = [t \in Threads |-> "OK"]
  /\ admin = NoThread /\ fault = "none"

Goto(t, to) == pc' = [pc EXCEPT ![t] = to]

(* The call returns to the broker.                                         *)
Return(t) ==
  /\ Goto(t, "idle")
  /\ cur' = [cur EXCEPT ![t] = NoMI]
  /\ tmp' = [tmp EXCEPT ![t] = 0]
  /\ term' = [term EXCEPT ![t] = FALSE]
  /\ rc' = [rc EXCEPT ![t] = "OK"]
  /\ admin' = IF admin = t THEN NoThread ELSE admin

(* The broker enters the library to create or clean up an MI.              *)
EnterAdmin(t) ==
  IF SerialAdmin THEN admin = NoThread /\ admin' = t ELSE UNCHANGED admin

Users(m) == {t \in Threads : cur[t] = m}

-----------------------------------------------------------------------------
(* The GIL.  TARGET_THREAD_BEGIN_BLOCK is PyGILState_Ensure; Python code   *)
(* gives the GIL up at the interpreter's switch interval and, the wrappers *)
(* being generated with swig -threads, around every call into the broker.  *)

(* Without an interpreter a creation is told apart from the other calls.   *)
TakeGIL(t) ==
  /\ pc[t] \in Python /\ gil = NoThread
  /\ IF interp = "up"
     THEN gil' = t /\ UNCHANGED fault
     ELSE /\ fault' = IF pc[t] = "import" THEN "dead_start" ELSE "no_interpreter"
          /\ UNCHANGED gil
  /\ UNCHANGED <<lib, interp, mi, pc, cur, local, admin>>

YieldGIL(t) ==
  /\ pc[t] \in Python \ {"decmodule"} /\ gil = t
  /\ gil' = NoThread
  /\ UNCHANGED <<lib, interp, mi, pc, cur, local, admin, fault>>

Running(t, at) == pc[t] = at /\ gil = t

-----------------------------------------------------------------------------
(* _Generic_Create_<type>MI and TargetInitialize.                          *)

(* The library has been used, and no MI of it and no call into it is left. *)
Used ==
  /\ \A m \in MIs : hdl[m] = "none"
  /\ \A t \in Threads : pc[t] = "idle"
  /\ targetInit = 1 \/ targetModule # "None"

CreateCall(t, m) ==
  /\ pc[t] = "idle" /\ hdl[m] = "none" /\ ~(Unloads /\ Used)
  /\ EnterAdmin(t)
  /\ hdl' = [hdl EXCEPT ![m] = "null"]
  /\ cur' = [cur EXCEPT ![t] = m]
  /\ Goto(t, "lock")
  /\ UNCHANGED <<lib, python, held, local, fault>>

InitLock(t) ==
  /\ pc[t] = "lock" /\ initMutex = NoThread
  /\ initMutex' = t
  /\ Goto(t, "global")
  /\ UNCHANGED <<targetInit, miCount, targetModule, python, mi, cur, local,
                 admin, fault>>

(* PyGlobalInitialize sets _TARGET_INIT before it knows whether Python     *)
(* came up, and leaves it set when it did not.                             *)
GlobalInitialize(t) ==
  /\ pc[t] = "global"
  /\ targetInit' = 1
  /\ \/ /\ interp' = IF targetInit = 1 THEN interp ELSE "up"
        /\ Goto(t, "import")
        /\ UNCHANGED initMutex
     \/ /\ targetInit = 0 /\ "init" \in Failures
        /\ initMutex' = NoThread
        /\ Goto(t, "fail")
        /\ UNCHANGED interp
  /\ UNCHANGED <<miCount, targetModule, gil, mi, cur, local, admin, fault>>

(* Mutant: the failing import forgets pthread_mutex_unlock.                *)
ImportModule_Unlocks(t) ==
  /\ Running(t, "import")
  /\ \/ /\ targetModule' = IF targetModule = "None" THEN "live" ELSE targetModule
        /\ initMutex' = NoThread
        /\ Goto(t, "proxy")
        /\ UNCHANGED <<gil, fault>>
     \/ /\ targetModule = "None" /\ "import" \in Failures
        /\ targetModule' = "NULL"
        /\ gil' = NoThread
        /\ Goto(t, "fail")
        /\ UNCHANGED <<initMutex, fault>>
  /\ UNCHANGED <<targetInit, miCount, interp, mi, cur, local, admin>>

(* Import the module unless _TARGET_MODULE says it was; release the mutex; *)
(* look get_cmpi_proxy_provider up in the module, still under the GIL.     *)
ImportModule(t) ==
  /\ Running(t, "import")
  /\ initMutex' = NoThread
  /\ \/ /\ targetModule' = IF targetModule = "None" THEN "live" ELSE targetModule
        /\ fault' = IF targetModule' = "live" THEN fault ELSE "dead_module"
        /\ Goto(t, "proxy")
        /\ UNCHANGED gil
     \/ /\ targetModule = "None" /\ "import" \in Failures
        /\ targetModule' = "NULL"
        /\ gil' = NoThread
        /\ Goto(t, "fail")
        /\ UNCHANGED fault
  /\ UNCHANGED <<targetInit, miCount, interp, mi, cur, local, admin>>

(* Mutant: the failing call forgets TARGET_THREAD_END_BLOCK.               *)
ProxyDone_KeepsGIL(t) ==
  /\ Running(t, "proxy")
  /\ \/ /\ gil' = NoThread
        /\ hdl' = [hdl EXCEPT ![cur[t]] = "live"]
        /\ Goto(t, "count")
     \/ /\ "proxy" \in Failures
        /\ Goto(t, "fail")
        /\ UNCHANGED <<gil, hdl>>
  /\ UNCHANGED <<lib, interp, held, cur, local, admin, fault>>

(* get_cmpi_proxy_provider(miName, broker, ctx) returns or raises.         *)
ProxyDone(t) ==
  /\ Running(t, "proxy")
  /\ gil' = NoThread
  /\ \/ /\ hdl' = [hdl EXCEPT ![cur[t]] = "live"]
        /\ Goto(t, "count")
     \/ /\ "proxy" \in Failures
        /\ Goto(t, "fail")
        /\ UNCHANGED hdl
  /\ UNCHANGED <<lib, interp, held, cur, local, admin, fault>>

(* ++_MI_COUNT, outside the mutex: a read and a write.                     *)
CountRead(t) ==
  /\ pc[t] = "count" /\ miCount < MaxCount
  /\ tmp' = [tmp EXCEPT ![t] = miCount]
  /\ Goto(t, "count1")
  /\ UNCHANGED <<lib, python, mi, cur, term, rc, admin, fault>>

CountWrite(t) ==
  /\ pc[t] = "count1"
  /\ miCount' = tmp[t] + 1
  /\ held' = held \cup {cur[t]}
  /\ Return(t)
  /\ UNCHANGED <<initMutex, targetInit, targetModule, python, hdl, fault>>

(* Mutant: a factory that fails has counted its MI already.                *)
CreateFail_Counted(t) ==
  /\ pc[t] = "fail"
  /\ hdl' = [hdl EXCEPT ![cur[t]] = "none"]
  /\ miCount' = miCount + 1
  /\ Return(t)
  /\ UNCHANGED <<initMutex, targetInit, targetModule, python, held, fault>>

CreateFail(t) ==
  /\ pc[t] = "fail"
  /\ hdl' = [hdl EXCEPT ![cur[t]] = "none"]
  /\ Return(t)
  /\ UNCHANGED <<lib, python, held, fault>>

-----------------------------------------------------------------------------
(* The provider operations (enumInstanceNames ... disableIndications):     *)
(* BEGIN_BLOCK, TargetCall, END_BLOCK.  The broker calls an MI it holds    *)
(* and that no thread is cleaning up.                                      *)

Cleaning(m) == \E t \in Users(m) : pc[t] # "op"

OpCall(t, m) ==
  /\ pc[t] = "idle" /\ m \in held /\ ~Cleaning(m)
  /\ cur' = [cur EXCEPT ![t] = m]
  /\ Goto(t, "op")
  /\ UNCHANGED <<lib, python, mi, local, admin, fault>>

OpDone(t) ==
  /\ Running(t, "op")
  /\ gil' = NoThread
  /\ fault' = IF hdl[cur[t]] = "live" THEN fault ELSE "dead_provider"
  /\ Return(t)
  /\ UNCHANGED <<lib, interp, mi>>

-----------------------------------------------------------------------------
(* <type>Cleanup, Cleanup and TargetCleanup.  The broker cleans up an MI   *)
(* no thread is in.                                                        *)

CleanupCall(t, m, terminating) ==
  /\ pc[t] = "idle" /\ m \in held /\ Users(m) = {}
  /\ EnterAdmin(t)
  /\ cur' = [cur EXCEPT ![t] = m]
  /\ term' = [term EXCEPT ![t] = terminating]
  /\ Goto(t, "cleanup")
  /\ UNCHANGED <<lib, python, mi, tmp, rc, fault>>

(* The provider's "cleanup" returns; a refusal to be unloaded ends here.   *)
CleanupDone(t) ==
  /\ Running(t, "cleanup")
  /\ gil' = NoThread
  /\ fault' = IF hdl[cur[t]] = "live" THEN fault ELSE "dead_provider"
  /\ \E st \in Status :
       IF ~term[t] /\ st = "KEEP"
       THEN Return(t)
       ELSE /\ rc' = [rc EXCEPT ![t] = st]
            /\ Goto(t, "decref")
            /\ UNCHANGED <<cur, tmp, term, admin>>
  /\ UNCHANGED <<lib, interp, mi>>

(* Py_DecRef(hdl->implementation), without the GIL.                        *)
DropProvider(t) ==
  /\ pc[t] = "decref"
  /\ fault' = IF interp = "down" THEN "no_interpreter"
              ELSE IF hdl[cur[t]] # "live" THEN "dead_provider" ELSE fault
  /\ hdl' = [hdl EXCEPT ![cur[t]] = "dropped"]
  /\ Goto(t, "unlock")
  /\ UNCHANGED <<lib, python, held, cur, local, admin>>

CleanupLock(t) ==
  /\ pc[t] = "unlock" /\ initMutex = NoThread
  /\ initMutex' = t
  /\ Goto(t, "uncount")
  /\ UNCHANGED <<targetInit, miCount, targetModule, python, mi, cur, local,
                 admin, fault>>

(* --_MI_COUNT > 0, under the mutex: a read and a write.                   *)
UncountRead(t) ==
  /\ pc[t] = "uncount"
  /\ tmp' = [tmp EXCEPT ![t] = miCount]
  /\ Goto(t, "uncount1")
  /\ UNCHANGED <<lib, python, mi, cur, term, rc, admin, fault>>

(* Mutants: the interpreter goes with the last user but one; or never.     *)
UncountWrite_Early(t) ==
  /\ pc[t] = "uncount1"
  /\ miCount' = tmp[t] - 1
  /\ IF miCount' > 1
     THEN initMutex' = NoThread /\ Goto(t, "free")
     ELSE UNCHANGED initMutex /\ Goto(t, "decmodule")
  /\ UNCHANGED <<targetInit, targetModule, python, mi, cur, local, admin, fault>>

UncountWrite_Never(t) ==
  /\ pc[t] = "uncount1"
  /\ miCount' = tmp[t] - 1
  /\ initMutex' = NoThread /\ Goto(t, "free")
  /\ UNCHANGED <<targetInit, targetModule, python, mi, cur, local, admin, fault>>

UncountWrite(t) ==
  /\ pc[t] = "uncount1"
  /\ miCount' = tmp[t] - 1
  /\ IF miCount' > 0
     THEN initMutex' = NoThread /\ Goto(t, "free")
     ELSE UNCHANGED initMutex /\ Goto(t, "decmodule")
  /\ UNCHANGED <<targetInit, targetModule, python, mi, cur, local, admin, fault>>

(* Py_DecRef(_TARGET_MODULE), a no-op on NULL; the variable keeps its value. *)
DropModule(t) ==
  /\ Running(t, "decmodule")
  /\ gil' = NoThread
  /\ fault' = IF targetModule = "stale" THEN "dropped_module" ELSE fault
  /\ Goto(t, "final")
  /\ UNCHANGED <<lib, interp, mi, cur, local, admin>>

Stale(state) == IF state = "live" THEN "stale" ELSE state

(* PyEval_AcquireLock, PyThreadState_Swap, Py_Finalize: every Python       *)
(* object dies with the interpreter.  Without _TARGET_INIT the lock is     *)
(* acquired and kept.                                                      *)
Finalize(t) ==
  /\ pc[t] = "final" /\ gil = NoThread
  /\ fault' = IF interp = "down" THEN "no_interpreter" ELSE fault
  /\ IF targetInit = 1
     THEN /\ interp' = "down"
          /\ hdl' = [m \in MIs |-> Stale(hdl[m])]
          /\ targetModule' = Stale(targetModule)
          /\ UNCHANGED gil
     ELSE /\ gil' = t
          /\ UNCHANGED <<interp, hdl, targetModule>>
  /\ targetInit' = 0
  /\ initMutex' = NoThread
  /\ Goto(t, "free")
  /\ UNCHANGED <<miCount, held, cur, local, admin>>

(* Mutant: the handle is freed and not forgotten.                          *)
CleanupReturn_Dangling(t) ==
  /\ pc[t] = "free"
  /\ hdl' = [hdl EXCEPT ![cur[t]] = "freed"]
  /\ held' = held \ {cur[t]}
  /\ Return(t)
  /\ UNCHANGED <<lib, python, fault>>

(* Free the handle, and the CMPI<type>MI too after a successful            *)
(* terminating cleanup; a broker that frees the latter frees it again, as  *)
(* the comment on Cleanup (cmpi_provider.c:257-258) would have it do.      *)
CleanupReturn(t) ==
  /\ pc[t] = "free"
  /\ hdl' = [hdl EXCEPT ![cur[t]] = "none"]
  /\ held' = held \ {cur[t]}
  /\ \/ UNCHANGED fault
     \/ term[t] /\ rc[t] = "OK" /\ BrokerFreesMI /\ fault' = "double_free"
  /\ Return(t)
  /\ UNCHANGED <<lib, python>>

-----------------------------------------------------------------------------
(* Any broker may dlclose a library it has no MI of, and a broker that     *)
(* "Unloads" does so before it creates another.  Loading the library again *)
(* gives its static data their initial values; a Python that a failed      *)
(* creation has left behind goes with the library.                         *)
Dlclose ==
  /\ Used
  /\ targetInit' = 0 /\ miCount' = 0 /\ targetModule' = "None"
  /\ interp' = "down"
  /\ UNCHANGED <<initMutex, gil, mi, pc, cur, local, admin, fault>>

-----------------------------------------------------------------------------
Call(t) ==
  \/ \E m \in MIs : CreateCall(t, m)
  \/ \E m \in MIs : OpCall(t, m)
  \/ \E m \in MIs, b \in BOOLEAN : CleanupCall(t, m, b)

(* Acquiring a lock.                                                       *)
Acquire(t) == TakeGIL(t) \/ InitLock(t) \/ CleanupLock(t) \/ Finalize(t)

(* Python code returns to C.                                               *)
PythonDone(t) ==
  ImportModule(t) \/ ProxyDone(t) \/ OpDone(t) \/ CleanupDone(t) \/ DropModule(t)

(* C code that neither blocks nor runs Python.                             *)
Straight(t) ==
  \/ GlobalInitialize(t) \/ CountRead(t) \/ CountWrite(t) \/ CreateFail(t)
  \/ DropProvider(t) \/ UncountRead(t) \/ UncountWrite(t) \/ CleanupReturn(t)

Step(t) == Call(t) \/ YieldGIL(t) \/ Acquire(t) \/ PythonDone(t) \/ Straight(t)

Next == fault = "none" /\ (Dlclose \/ \E t \in Threads : Step(t))

Spec == Init /\ [][Next]_vars

(* Locks are handed out fairly and provider code returns: each thread that *)
(* keeps getting the GIL back eventually returns from the Python call.     *)
Fairness ==
  \A t \in Threads :
    /\ SF_vars(fault = "none" /\ TakeGIL(t))
    /\ SF_vars(fault = "none" /\ (InitLock(t) \/ CleanupLock(t) \/ Finalize(t)))
    /\ SF_vars(fault = "none" /\ PythonDone(t))
    /\ WF_vars(fault = "none" /\ Straight(t))

FairSpec == Spec /\ Fairness

-----------------------------------------------------------------------------
(* Properties.                                                             *)

TypeOK ==
  /\ initMutex \in Threads \cup {NoThread}
  /\ targetInit \in {0, 1}
  /\ miCount \in Int
  /\ targetModule \in ModuleState
  /\ interp \in {"up", "down"}
  /\ gil \in Threads \cup {NoThread}
  /\ hdl \in [MIs -> HdlState]
  /\ held \in SUBSET MIs
  /\ pc \in [Threads -> PC]
  /\ cur \in [Threads -> MIs \cup {NoMI}]
  /\ tmp \in [Threads -> Int]
  /\ term \in [Threads -> BOOLEAN]
  /\ rc \in [Threads -> Status]
  /\ admin \in Threads \cup {NoThread}
  /\ fault \in Fault

(* Where TargetInitialize and TargetCleanup hold _CMPI_INIT_MUTEX.         *)
Critical == {"global", "import", "uncount", "uncount1", "decmodule", "final"}

(* The lock discipline of target_python.c:327-454 that rules deadlock out: *)
(* on every path, the error paths included, a thread owns                  *)
(* _CMPI_INIT_MUTEX exactly in its critical sections and the GIL at most   *)
(* while it runs Python, so that no thread waits for the mutex, or         *)
(* returns to the broker, with the GIL in its hands.                       *)
LockDiscipline ==
  \A t \in Threads :
    /\ initMutex = t <=> pc[t] \in Critical
    /\ gil = t => pc[t] \in Python

(* The MIs that use the interpreter: the ones the broker has been given,   *)
(* up to the decrement in their TargetCleanup (cmpi_provider.c:1236,       *)
(* target_python.c:435).                                                   *)
Leaving == {"decmodule", "final", "free"}
users == {m \in held : \A t \in Users(m) : pc[t] \notin Leaving}

(* "The number of MIs using the interpreter is counted in _MI_COUNT"       *)
(* (cmpi_provider.c:184): no increment or decrement is ever lost.          *)
UseCount == miCount = Cardinality(users)

(* What is left of the interpreter after any creation, call or cleanup is  *)
(* enough for the ones that follow: whichever step of a TargetInitialize   *)
(* has failed, and in any interleaving of the rest, no operation and no    *)
(* cleanup of an MI enters a finalised interpreter, calls or releases a    *)
(* dead provider, or releases a dead module (target_python.c:195-258,      *)
(* 419-454).  Only the creation that follows a failed or a last use can.   *)
MIsSafe == fault \notin {"no_interpreter", "dead_provider", "dropped_module"}

(* No undefined behaviour at all: MIsSafe, and no creation starts on a dead *)
(* interpreter or module, and no MI is freed twice (cmpi_provider.c:289,   *)
(* target_python.c:442).                                                   *)
NoFault == fault = "none"

(* "the broker is responsible for freeing the CMPI<type>MI*" (the comment  *)
(* on Cleanup, cmpi_provider.c:257-258): a broker that takes it at its     *)
(* word frees each MI exactly once.                                        *)
FreedOnce == fault # "double_free"

(* "import cmpi_pywbem_bindings" (target_python.c:320, 344): every         *)
(* TargetInitialize ends up with a module of the running interpreter.      *)
ModuleAlive == fault # "dead_module"

(* The interpreter as its users see it: cmpi_provider.c:183-185.           *)
due == \E t \in Threads : pc[t] \in {"decmodule", "final"}
Abstract == INSTANCE Interpreter WITH loaded <- (interp = "up")

(* Python is loaded under every MI, finalised when and only when the last  *)
(* one has been cleaned up.                                                *)
Implements == Abstract!Spec

(* Every call of the broker into the library returns: no thread is left    *)
(* behind in a deadlock or starved by a lock some path forgot to release.  *)
(* Undefined behaviour ends the claim with the behaviour.                  *)
CallsReturn ==
  \A t \in Threads : pc[t] # "idle" ~> pc[t] = "idle" \/ fault # "none"

=============================================================================
