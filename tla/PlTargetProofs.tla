--------------------------- MODULE PlTargetProofs ---------------------------
(***************************************************************************)
(* The Perl target is right for one MI: with a single MI per load of the   *)
(* library, no interleaving of any number of threads uses the interpreter  *)
(* after its end.  The run PlUnload shows that two MIs are enough to       *)
(* refute it.                                                              *)
(***************************************************************************)
EXTENDS PlTarget, TLAPS

OneMI == Unloads = TRUE /\ \A m, n \in MIs : m = n

TypeOK ==
  /\ interp \in {"none", "up", "freed"}
  /\ targetInit \in BOOLEAN
  /\ mi \in [MIs -> {"none", "new", "live", "leaving"}]
  /\ op \in [Threads -> {Idle} \cup Doing]

Admin(t) == op[t].at \in {"create", "cleanup"}

(* Who is in a call knows in which state its MI is.                        *)
InStep ==
  /\ \A t \in Threads :
       /\ op[t].at = "create"  => mi[op[t].mi] = "new"
       /\ op[t].at = "call"    => mi[op[t].mi] = "live"
       /\ op[t].at = "cleanup" => mi[op[t].mi] = "leaving"
  /\ \A t, u \in Threads : Admin(t) /\ Admin(u) => t = u

(* The interpreter is loaded for an MI and unloaded with it.               *)
Loaded ==
  /\ \A m \in MIs : /\ mi[m] \in {"live", "leaving"} => interp = "up" /\ targetInit
                    /\ mi[m] = "new" => ~targetInit
  /\ ~fault

Inv == TypeOK /\ InStep /\ Loaded

(* Nobody is in a call at first.                                           *)
LEMMA InitInv == Init => Inv
<1> SUFFICES ASSUME Init PROVE Inv
  OBVIOUS
<1>1. \A t \in Threads : op[t].at = "idle"
  BY DEF Init, Idle
<1>2. TypeOK
  BY DEF Init, TypeOK
<1>3. InStep /\ Loaded
  BY <1>1 DEF Init, InStep, Loaded, Admin
<1> QED
  BY <1>2, <1>3 DEF Inv

(* Every step of an MI preserves the invariant when it is the only one.    *)
LEMMA StepInv ==
  ASSUME OneMI, Inv, NEW t \in Threads, NEW m \in MIs, Step(t, m)
  PROVE  Inv'
<1> USE DEF Inv, TypeOK, InStep, Loaded, Admin, Idle, Doing, OneMI
<1>1. CASE CreateCall(t, m)
  <2>1. ~targetInit
    BY <1>1 DEF CreateCall, Used
  <2>2. TypeOK'
    BY <1>1 DEF CreateCall, Start
  <2>3. InStep'
    BY <1>1 DEF CreateCall, Start, MayAdmin
  <2> QED
    BY <1>1, <2>1, <2>2, <2>3 DEF CreateCall
<1>2. CASE Initialize(t, m)
  <2>1. TypeOK'
    BY <1>2 DEF Initialize, Finish
  <2>2. InStep'
    BY <1>2 DEF Initialize, Finish
  <2>3. Loaded'
    BY <1>2 DEF Initialize, Finish
  <2> QED
    BY <2>1, <2>2, <2>3
<1>3. CASE OpCall(t, m)
  <2>1. TypeOK'
    BY <1>3 DEF OpCall, Start
  <2>2. InStep'
    BY <1>3 DEF OpCall, Start
  <2>3. Loaded'
    BY <1>3 DEF OpCall, Start
  <2> QED
    BY <2>1, <2>2, <2>3
<1>4. CASE OpDone(t, m)
  <2>1. TypeOK'
    BY <1>4 DEF OpDone, Finish
  <2>2. InStep'
    BY <1>4 DEF OpDone, Finish
  <2>3. Loaded'
    BY <1>4 DEF OpDone, Finish
  <2> QED
    BY <2>1, <2>2, <2>3
<1>5. CASE CleanupCall(t, m)
  <2>1. TypeOK'
    BY <1>5 DEF CleanupCall, Start, MayAdmin
  <2>2. InStep'
    BY <1>5 DEF CleanupCall, Start, MayAdmin
  <2>3. Loaded'
    BY <1>5 DEF CleanupCall, Start, MayAdmin
  <2> QED
    BY <2>1, <2>2, <2>3
<1>6. CASE Cleanup(t, m)
  <2>1. TypeOK'
    BY <1>6 DEF Cleanup, Finish
  <2>2. InStep'
    BY <1>6 DEF Cleanup, Finish
  <2>3. Loaded'
    BY <1>6 DEF Cleanup, Finish
  <2> QED
    BY <2>1, <2>2, <2>3
<1> QED
  BY <1>1, <1>2, <1>3, <1>4, <1>5, <1>6 DEF Step

(* The invariant holds throughout.                                         *)
LEMMA InvAlways == ASSUME OneMI PROVE Spec => []Inv
<1>1. Inv /\ [Next]_vars => Inv'
  <2> SUFFICES ASSUME Inv, [Next]_vars PROVE Inv'
    OBVIOUS
  <2>1. CASE Dlclose
    BY <2>1 DEF Dlclose, Used, Inv, TypeOK, InStep, Loaded, Admin
  <2>2. CASE \E t \in Threads, m \in MIs : Step(t, m)
    BY <2>2, StepInv
  <2>3. CASE UNCHANGED vars
    BY <2>3 DEF vars, Inv, TypeOK, InStep, Loaded, Admin
  <2> QED
    BY <2>1, <2>2, <2>3 DEF Next
<1> QED
  BY InitInv, <1>1, PTL DEF Spec

(* target_perl.c:143-158, cmpi_provider.c:183-185: for a single MI that is *)
(* created again only after a dlclose, the interpreter is up whenever the  *)
(* MI is there, and nothing uses it after it has been freed.               *)
THEOREM OneMIServed ==
  ASSUME OneMI
  PROVE  Spec => [](ServesAll /\ NoUseAfterFree)
<1>1. Inv => ServesAll /\ NoUseAfterFree
  BY DEF Inv, Loaded, ServesAll, NoUseAfterFree
<1> QED
  BY <1>1, InvAlways, PTL

=============================================================================
