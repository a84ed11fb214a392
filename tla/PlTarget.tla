------------------------------ MODULE PlTarget ------------------------------
(***************************************************************************)
(* The Perl target: target_perl.c under the factory and the Cleanup of     *)
(* cmpi_provider.c.  The provider object stays NULL, so that Cleanup calls *)
(* no provider; TargetCall answers CMPI_RC_OK; _MI_COUNT is counted up and *)
(* never read.  What is left is the life of the one interpreter, which     *)
(* every operation uses to build its arguments.                            *)
(*                                                                         *)
(* The broker creates and cleans up one MI at a time; operations run at    *)
(* any time, TARGET_THREAD_BEGIN_BLOCK being empty.                        *)
(***************************************************************************)
CONSTANTS
  Threads,   (* threads of the broker                                      *)
  MIs,       (* managed interfaces                                         *)
  Unloads    (* does the broker dlclose the library after its last MI?     *)

VARIABLES
  interp,     (* the interpreter: "none" yet, "up", or "freed"             *)
  targetInit, (* is _TARGET_INIT set?                                      *)
  mi,         (* per MI: "none", "new", "live" or "leaving"                *)
  op,         (* per thread: the call of the broker it is in               *)
  fault       (* has freed memory been used?                               *)

vars == <<interp, targetInit, mi, op, fault>>

Idle == [at |-> "idle"]
Doing == [at : {"create", "call", "cleanup"}, mi : MIs]

Init ==
  /\ interp = "none" /\ targetInit = FALSE
  /\ mi = [m \in MIs |-> "none"]
  /\ op = [t \in Threads |-> Idle]
  /\ fault = FALSE

MayAdmin == \A t \in Threads : op[t].at \in {"idle", "call"}
Used == targetInit /\ \A m \in MIs : mi[m] = "none"

Start(t, at, m) == op[t] = Idle /\ op' = [op EXCEPT ![t] = [at |-> at, mi |-> m]]
Finish(t, m)    == op[t].mi = m /\ op' = [op EXCEPT ![t] = Idle]

-----------------------------------------------------------------------------
CreateCall(t, m) ==
  /\ mi[m] = "none" /\ MayAdmin /\ ~(Unloads /\ Used)
  /\ Start(t, "create", m)
  /\ mi' = [mi EXCEPT ![m] = "new"]
  /\ UNCHANGED <<interp, targetInit, fault>>

(* PlGlobalInitialize loads an interpreter if none ever was.               *)
Initialize(t, m) ==
  /\ op[t].at = "create" /\ Finish(t, m)
  /\ mi' = [mi EXCEPT ![m] = "live"]
  /\ targetInit' = TRUE
  /\ interp' = IF targetInit THEN interp ELSE "up"
  /\ UNCHANGED fault

(* An operation: proxies for the arguments, then a TargetCall that does    *)
(* nothing with them.                                                      *)
OpCall(t, m) ==
  /\ mi[m] = "live" /\ Start(t, "call", m)
  /\ fault' = (fault \/ interp # "up")
  /\ UNCHANGED <<interp, targetInit, mi>>

OpDone(t, m) ==
  /\ op[t].at = "call" /\ Finish(t, m)
  /\ fault' = (fault \/ interp # "up")
  /\ UNCHANGED <<interp, targetInit, mi>>

CleanupCall(t, m) ==
  /\ mi[m] = "live" /\ MayAdmin
  /\ \A u \in Threads : op[u] # Idle => op[u].mi # m
  /\ Start(t, "cleanup", m)
  /\ mi' = [mi EXCEPT ![m] = "leaving"]
  /\ UNCHANGED <<interp, targetInit, fault>>

(* TargetCleanup: perl_destruct and perl_free.                             *)
Cleanup(t, m) ==
  /\ op[t].at = "cleanup" /\ Finish(t, m)
  /\ mi' = [mi EXCEPT ![m] = "none"]
  /\ interp' = "freed"
  /\ fault' = (fault \/ interp # "up")
  /\ UNCHANGED targetInit

Dlclose ==
  /\ Unloads /\ Used
  /\ targetInit' = FALSE /\ interp' = "none"
  /\ UNCHANGED <<mi, op, fault>>

Step(t, m) ==
  \/ CreateCall(t, m) \/ Initialize(t, m)
  \/ OpCall(t, m) \/ OpDone(t, m)
  \/ CleanupCall(t, m) \/ Cleanup(t, m)

Next == Dlclose \/ \E t \in Threads, m \in MIs : Step(t, m)

Spec == Init /\ [][Next]_vars

-----------------------------------------------------------------------------
(* cmpi_provider.c:183-185: one interpreter serves multiple MIs and is     *)
(* unloaded when the last user goes away, so that it is up for every MI    *)
(* that is there.                                                          *)
ServesAll == \A m \in MIs : mi[m] = "live" => interp = "up"

(* target_perl.c:154-155, cmpi_provider.c:353-1141: no operation runs on,  *)
(* and no cleanup frees again, an interpreter that has been freed.         *)
NoUseAfterFree == ~fault

=============================================================================
