------------------------------- MODULE Upcall -------------------------------
(***************************************************************************)
(* How errors travel between the broker and Python providers.  The broker  *)
(* calls an operation of a provider (cmpi_provider.c, TargetCall of        *)
(* target_python.c); the provider calls the broker back through a SWIG     *)
(* wrapper (cmpi_callbacks.i, cmpi_types.i); the broker may call a         *)
(* provider again on the same thread before it answers.                    *)
(*                                                                         *)
(* A broker call that fails is turned into a Python exception in two       *)
(* halves: _raise_ex sets the error indicator of the thread under the GIL, *)
(* and a flag kept with pthread_setspecific tells the %exception code at   *)
(* the end of the wrapper that it did.  cmpi_pywbem_bindings.py turns the  *)
(* exception into a pywbem.CIMError and that into the status of the        *)
(* operation.                                                              *)
(***************************************************************************)
EXTENDS Integers, Sequences, SequencesExt

CONSTANTS
  Threads,   (* threads of the broker                                      *)
  NoThread,  (* the owner of a free GIL                                    *)
  Messages,  (* do the statuses of the broker carry a message?             *)
  MaxDepth   (* bound on operations and upcalls nested on one thread       *)

ASSUME UpcallAssumption ==
  /\ NoThread \notin Threads
  /\ Messages \in BOOLEAN
  /\ MaxDepth \in Nat \ {0}

VARIABLES
  gil,       (* owner of the global interpreter lock                       *)
  raised,    (* the flag of _get_raised, per thread                        *)
  err,       (* the Python error indicator, per thread                     *)
  stack,     (* the operations and upcalls of each thread, innermost last  *)
  said,      (* the status of the thread's last operation, and its cause   *)
  fault      (* the undefined behaviour met, or "none"                     *)

vars == <<gil, raised, err, stack, said, fault>>

-----------------------------------------------------------------------------
(* FAILED and NOT_FOUND stand for the codes 1 to 17; KEEP for every code   *)
(* above, CMPI_RC_DO_NOT_UNLOAD and CMPI_RC_NEVER_UNLOAD among them.       *)
Code      == {"OK", "FAILED", "NOT_FOUND", "KEEP"}
ErrorCode == Code \ {"OK"}

Op(at) == [kind |-> "op", at |-> at, asked |-> "OK", got |-> "OK", cim |-> FALSE]
OpFrame == [kind : {"op"}, at : {"block", "python", "caught"},
            asked : Code, got : Code \cup {"nothing"}, cim : BOOLEAN]

(* "handle": did the provider go through BrokerCIMOMHandle, whose broker   *)
(* is wrapped in an ExceptionClassWrapper, or through the plain broker or  *)
(* result object?                                                          *)
Wrapper(handle) == [kind |-> "wrap", at |-> "broker", rc |-> "OK", handle |-> handle]
WrapFrame == [kind : {"wrap"}, at : {"broker", "error", "raising", "leave"}, rc : Code,
              handle : BOOLEAN]

Silent == [cause |-> "OK", cim |-> FALSE, rc |-> "OK"]

Init ==
  /\ gil = NoThread
  /\ raised = [t \in Threads |-> FALSE]
  /\ err = [t \in Threads |-> "none"]
  /\ stack = [t \in Threads |-> <<>>]
  /\ said = [t \in Threads |-> Silent]
  /\ fault = "none"

Top(t)     == Last(stack[t])
IsAt(t, kind, at) == stack[t] # <<>> /\ Top(t).kind = kind /\ Top(t).at = at
Push(t, frame)   == stack' = [stack EXCEPT ![t] = Append(@, frame)]
SetTop(t, frame) == stack' = [stack EXCEPT ![t] = Append(Front(@), frame)]
Goto(t, at)      == SetTop(t, [Top(t) EXCEPT !.at = at])

-----------------------------------------------------------------------------
(* The GIL: PyGILState_Ensure at the start of an operation and in          *)
(* _raise_ex, PyEval_RestoreThread at the end of a wrapper's action, the   *)
(* interpreter's switch interval in between.                               *)
NeedsGIL(t) ==
  \/ \E at \in {"block", "python", "caught"} : IsAt(t, "op", at)
  \/ \E at \in {"error", "leave"} : IsAt(t, "wrap", at)

TakeGIL(t) ==
  /\ NeedsGIL(t) /\ gil = NoThread
  /\ gil' = t
  /\ IF IsAt(t, "op", "block") THEN Goto(t, "python") ELSE UNCHANGED stack
  /\ UNCHANGED <<raised, err, said, fault>>

YieldGIL(t) ==
  /\ gil = t /\ Top(t).kind = "op"
  /\ gil' = NoThread
  /\ UNCHANGED <<raised, err, stack, said, fault>>

Running(t, kind, at) == gil = t /\ IsAt(t, kind, at)

-----------------------------------------------------------------------------
Quiet(t) == said' = [said EXCEPT ![t] = Silent]

(* An operation of a provider, called from outside or by a broker that     *)
(* serves an upcall of the same thread.                                    *)
OpCall(t) ==
  /\ stack[t] = <<>> \/ IsAt(t, "wrap", "broker")
  /\ Len(stack[t]) < MaxDepth
  /\ Push(t, Op("block"))
  /\ Quiet(t)
  /\ UNCHANGED <<gil, raised, err, fault>>

(* The wrapper clears the flag and gives up the GIL around the broker.     *)
Upcall(t) ==
  /\ Running(t, "op", "python") /\ Len(stack[t]) < MaxDepth
  /\ \E handle \in BOOLEAN : Push(t, Wrapper(handle))
  /\ raised' = [raised EXCEPT ![t] = FALSE]
  /\ gil' = NoThread
  /\ UNCHANGED <<err, said, fault>>

(* What a wrapper makes of the broker's status: RAISE_IF raises what is    *)
(* not OK; log_message and TraceMessage let NOT_SUPPORTED pass and get_key *)
(* NOT_FOUND; new_instance and set_property_filter raise FAILED themselves *)
(* where the broker has nothing to give, whatever its status.              *)
Verdict(rc) == {rc, "FAILED"} \cup IF rc = "NOT_FOUND" THEN {"OK"} ELSE {}

(* The broker answers.                                                     *)
BrokerDone(t) ==
  /\ IsAt(t, "wrap", "broker")
  /\ \E rc \in Code : \E verdict \in Verdict(rc) :
       SetTop(t, [Top(t) EXCEPT !.rc = verdict,
                                !.at = IF verdict = "OK" THEN "leave" ELSE "error"])
  /\ Quiet(t)
  /\ UNCHANGED <<gil, raised, err, fault>>

(* Mutant: _raise_ex takes the flag for the code of the exception.         *)
RaiseEx_Fixed(t) ==
  /\ Running(t, "wrap", "error")
  /\ err' = [err EXCEPT ![t] = "1"]
  /\ gil' = NoThread
  /\ Goto(t, "raising")
  /\ UNCHANGED <<raised, said, fault>>

(* _raise_ex: PyErr_SetObject, under the GIL.                              *)
RaiseEx(t) ==
  /\ Running(t, "wrap", "error")
  /\ err' = [err EXCEPT ![t] = Top(t).rc]
  /\ gil' = NoThread
  /\ Goto(t, "raising")
  /\ UNCHANGED <<raised, said, fault>>

(* Mutant: _raise_ex without _set_raised.                                  *)
SetRaised_Not(t) ==
  /\ IsAt(t, "wrap", "raising")
  /\ Goto(t, "leave")
  /\ UNCHANGED <<gil, raised, err, said, fault>>

(* _set_raised, without the GIL.                                           *)
SetRaised(t) ==
  /\ IsAt(t, "wrap", "raising")
  /\ raised' = [raised EXCEPT ![t] = TRUE]
  /\ Goto(t, "leave")
  /\ UNCHANGED <<gil, err, said, fault>>

(* The exception of a failed wrapper, "nothing" when there is none.        *)
Caught(t) == IF err[t] = "none" THEN "nothing" ELSE err[t]

(* description is freed by _raise_ex and still belongs to the exception:   *)
(* it is read when the exception is translated and freed again when the    *)
(* exception is dropped.                                                   *)
TextFault(touched) == IF Messages /\ touched THEN "freed_text" ELSE fault

(* Mutant: the wrapper leaves the flag set behind it.                      *)
WrapperDone_KeepsFlag(t) ==
  /\ Running(t, "wrap", "leave")
  /\ LET w  == Top(t)
         op == Last(Front(stack[t]))
     IN  stack' = [stack EXCEPT ![t] = Append(Front(Front(@)),
           IF raised[t]
           THEN [op EXCEPT !.at = "caught", !.asked = w.rc, !.got = Caught(t), !.cim = w.handle]
           ELSE [op EXCEPT !.at = "python", !.asked = w.rc])]
  /\ err' = [err EXCEPT ![t] = IF raised[t] THEN "none" ELSE @]
  /\ fault' = TextFault(raised[t] /\ Top(t).handle)
  /\ UNCHANGED <<gil, raised, said>>

(* The %exception code: the wrapper fails when the flag is set.            *)
WrapperDone(t) ==
  /\ Running(t, "wrap", "leave")
  /\ LET w  == Top(t)
         op == Last(Front(stack[t]))
     IN  stack' = [stack EXCEPT ![t] = Append(Front(Front(@)),
           IF raised[t]
           THEN [op EXCEPT !.at = "caught", !.asked = w.rc, !.got = Caught(t), !.cim = w.handle]
           ELSE [op EXCEPT !.at = "python", !.asked = w.rc])]
  /\ err' = [err EXCEPT ![t] = IF raised[t] THEN "none" ELSE @]
  /\ raised' = [raised EXCEPT ![t] = FALSE]
  /\ fault' = TextFault(raised[t] /\ Top(t).handle)
  /\ UNCHANGED <<gil, said>>

-----------------------------------------------------------------------------
(* The provider swallows the exception and goes on.                        *)
Swallow(t) ==
  /\ Running(t, "op", "caught")
  /\ SetTop(t, Op("python"))
  /\ fault' = TextFault(TRUE)
  /\ UNCHANGED <<gil, raised, err, said>>

OpReturn(t, cause, cim, rc) ==
  /\ said' = [said EXCEPT ![t] = [cause |-> cause, cim |-> cim, rc |-> rc]]
  /\ stack' = [stack EXCEPT ![t] = Front(@)]
  /\ gil' = NoThread
  /\ UNCHANGED <<raised, err>>

(* Mutant: the code of the exception goes through unchanged.               *)
ToError_Same(code) == code

(* _exception_to_error: codes that CIM does not have become CIM_ERR_FAILED. *)
ToError(code) == IF code = "KEEP" THEN "FAILED" ELSE code

(* It leaves the provider.  A pywbem.CIMError is caught around the MI_     *)
(* call and its code becomes the status; whatever else gets as far as      *)
(* TargetCall, a CMPIException translated on the way out included, is      *)
(* CMPI_RC_ERR_FAILED.                                                     *)
OpRaise(t) ==
  /\ Running(t, "op", "caught")
  /\ LET op == Top(t) IN
     OpReturn(t, op.got, op.cim,
              IF op.cim /\ op.got \in ErrorCode THEN ToError(op.got) ELSE "FAILED")
  /\ fault' = TextFault(TRUE)

(* The provider returns a status of its own; a method that is missing, not *)
(* callable, raises anything else or returns no (int, str) tuple is        *)
(* CMPI_RC_ERR_FAILED.                                                     *)
OpDone(t) ==
  /\ Running(t, "op", "python")
  /\ \E rc \in Code : OpReturn(t, "OK", FALSE, rc)
  /\ UNCHANGED fault

-----------------------------------------------------------------------------
Step(t) ==
  \/ TakeGIL(t) \/ YieldGIL(t)
  \/ OpCall(t) \/ Upcall(t) \/ BrokerDone(t)
  \/ RaiseEx(t) \/ SetRaised(t) \/ WrapperDone(t)
  \/ Swallow(t) \/ OpRaise(t) \/ OpDone(t)

Next == fault = "none" /\ \E t \in Threads : Step(t)

Spec == Init /\ [][Next]_vars

-----------------------------------------------------------------------------
(* Properties.                                                             *)

TypeOK ==
  /\ gil \in Threads \cup {NoThread}
  /\ raised \in [Threads -> BOOLEAN]
  /\ err \in [Threads -> ErrorCode \cup {"none"}]
  /\ stack \in [Threads -> Seq(OpFrame \cup WrapFrame)]
  /\ said \in [Threads -> [cause : Code \cup {"nothing"}, cim : BOOLEAN, rc : Code]]
  /\ fault \in {"none", "freed_text"}

(* cmpi.i:742-776, 778-826 and cmpi_types.i:165-179: the flag of a thread  *)
(* is set exactly while the innermost call of the thread is a wrapper that *)
(* has raised and not yet left, whatever ran on this thread (operations    *)
(* nested in the upcall, their wrappers and their failures) or on others   *)
(* in between; and the error indicator is set then, and before only while  *)
(* _raise_ex has set the one and not the other.                            *)
FlagExact ==
  \A t \in Threads :
    LET failed == IsAt(t, "wrap", "leave") /\ Top(t).rc # "OK" IN
    /\ raised[t] <=> failed
    /\ err[t] = IF failed \/ IsAt(t, "wrap", "raising") THEN Top(t).rc ELSE "none"

(* RAISE_IF: a wrapper raises in Python if and only if it took its own     *)
(* broker call for failed, with the code that it meant to raise.           *)
WrapperFaithful ==
  \A t \in Threads : \A i \in DOMAIN stack[t] :
    stack[t][i].kind = "op" => stack[t][i].got = stack[t][i].asked

(* cmpi_pywbem_bindings.py:51-63, 482-723 and target_python.c:249-256: a   *)
(* failed upcall that the provider does not swallow makes its operation    *)
(* fail; it is reported with the broker's own code when that is a CIM code *)
(* and came through the handle, and never as a refusal to be unloaded,     *)
(* which Cleanup would take for the provider's word.                       *)
ErrorReported ==
  \A t \in Threads :
    said[t].cause # "OK" =>
      /\ said[t].rc \in {"FAILED", "NOT_FOUND"}
      /\ said[t].cim /\ said[t].cause \in {"FAILED", "NOT_FOUND"} => said[t].rc = said[t].cause

(* "Container for a fault, contains numeric error_code and textual         *)
(* description" (cmpi_types.i:117): the description is there for as long   *)
(* as the exception is.                                                    *)
DescriptionAlive == fault # "freed_text"

=============================================================================
