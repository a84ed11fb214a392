------------------------------ MODULE RbTarget ------------------------------
(***************************************************************************)
(* The Ruby interpreter that serves every MI: the factory and Cleanup of   *)
(* cmpi_provider.c over target_ruby.c.  Unlike Python there is no global   *)
(* lock around the calls (cmpi.i:71-74 defines the thread macros away);    *)
(* what Ruby has instead is _stack_init_mutex, which a call tries to take  *)
(* and goes on without, and the garbage collector, to which every provider *)
(* has to be registered.                                                   *)
(*                                                                         *)
(* Provider code may call the broker, which may call another MI on the     *)
(* same thread, so a thread has a stack of calls.                          *)
(***************************************************************************)
EXTENDS Integers, Sequences, SequencesExt

CONSTANTS
  Threads,    (* threads of the broker that call into the library          *)
  MIs,        (* slots for managed interfaces                              *)
  NoThread,   (* the owner of a free mutex                                 *)
  SerialAdmin,(* does the broker serialise MI creation and cleanup?        *)
  MaxDepth    (* bound on the calls nested on one thread                   *)

ASSUME RbTargetAssumption ==
  /\ NoThread \notin Threads
  /\ SerialAdmin \in BOOLEAN
  /\ MaxDepth \in Nat \ {0}

VARIABLES
  initMutex,  (* owner of _CMPI_INIT_MUTEX                                 *)
  targetInit, (* _TARGET_INIT                                              *)
  miCount,    (* _MI_COUNT                                                 *)
  stackLock,  (* owner of _stack_init_mutex                                *)
  ruby,       (* is Ruby initialised?                                      *)
  hdl,        (* the ProviderMIHandle: absent, without or with a provider  *)
  roots,      (* MIs whose &hdl->implementation is registered with the GC  *)
  held,       (* MIs the broker has been given and may call                *)
  stack,      (* the calls each thread is in, the innermost last           *)
  result      (* the status the last call of each thread returned          *)

lib  == <<initMutex, targetInit, miCount, stackLock>>
mi   == <<hdl, roots, held>>
vars == <<lib, ruby, mi, stack, result>>

Kind == {"create", "op", "cleanup"}
At   == {"lock", "global", "enter", "ruby", "fail", "count", "count1",
         "unregister", "unlock", "uncount", "uncount1", "final", "free"}
(* KEEP stands for CMPI_RC_DO_NOT_UNLOAD and CMPI_RC_NEVER_UNLOAD, ERR for *)
(* every other code but CMPI_RC_OK.                                        *)
Status == {"OK", "ERR", "KEEP"}

(* have_lock, the _MI_COUNT about to be written back and the "terminating" *)
(* argument are locals of the call.                                        *)
Call(m, kind, at, terminating) ==
  [mi |-> m, kind |-> kind, at |-> at, lock |-> FALSE, tmp |-> 0,
   term |-> terminating]

Init ==
  /\ initMutex = NoThread /\ targetInit = 0 /\ miCount = 0
  /\ stackLock = NoThread /\ ruby = "down"
  /\ hdl = [m \in MIs |-> "none"] /\ roots = {} /\ held = {}
  /\ stack = [t \in Threads |-> <<>>]
  /\ result = [t \in Threads |-> "OK"]

Top(t)     == Last(stack[t])
IsAt(t, a) == stack[t] # <<>> /\ Top(t).at = a
Push(t, call) == stack' = [stack EXCEPT ![t] = Append(@, call)]
SetTop(t, call) == stack' = [stack EXCEPT ![t][Len(stack[t])] = call]
Goto(t, a) == SetTop(t, [Top(t) EXCEPT !.at = a])
Return(t)  == stack' = [stack EXCEPT ![t] = Front(@)]
Tell(t, rc) == result' = [result EXCEPT ![t] = rc]

Calls(t) == Range(stack[t])
InCall(m) == \E t \in Threads : \E c \in Calls(t) : c.mi = m

(* The broker calls the library from outside, or from an upcall of the     *)
(* provider that runs on this thread.                                      *)
MayCall(t) ==
  stack[t] = <<>> \/ (IsAt(t, "ruby") /\ Len(stack[t]) < MaxDepth)

MayAdmin == SerialAdmin => \A t \in Threads : \A c \in Calls(t) : c.kind = "op"

Quiet(t) == Tell(t, "OK")

-----------------------------------------------------------------------------
(* The factory and TargetInitialize.                                       *)

CreateCall(t, m) ==
  /\ MayCall(t) /\ MayAdmin /\ hdl[m] = "none"
  /\ hdl' = [hdl EXCEPT ![m] = "null"]
  /\ Push(t, Call(m, "create", "lock", FALSE))
  /\ Quiet(t)
  /\ UNCHANGED <<lib, ruby, roots, held>>

InitLock(t) ==
  /\ IsAt(t, "lock") /\ initMutex = NoThread
  /\ initMutex' = t
  /\ Goto(t, "global")
  /\ UNCHANGED <<targetInit, miCount, stackLock, ruby, mi, result>>

(* RbGlobalInitialize fails over RUBY_PROVIDERS_DIR, when Ruby is up.      *)
GlobalInitialize(t) ==
  /\ IsAt(t, "global")
  /\ targetInit' = 1
  /\ ruby' = IF targetInit = 0 THEN "up" ELSE ruby
  /\ initMutex' = NoThread
  /\ \/ Goto(t, "enter")
     \/ targetInit = 0 /\ Goto(t, "fail")
  /\ UNCHANGED <<miCount, stackLock, mi, result>>

(* pthread_mutex_trylock(&_stack_init_mutex); the call goes on either way. *)
EnterRuby(t) ==
  /\ IsAt(t, "enter")
  /\ IF stackLock = NoThread
     THEN stackLock' = t /\ SetTop(t, [Top(t) EXCEPT !.at = "ruby", !.lock = TRUE])
     ELSE Goto(t, "ruby") /\ UNCHANGED stackLock
  /\ UNCHANGED <<initMutex, targetInit, miCount, ruby, mi, result>>

(* Mutant: every call unlocks _stack_init_mutex, whoever locked it.        *)
LeaveRuby_Always(t) ==
  /\ IsAt(t, "ruby")
  /\ stackLock' = NoThread

LeaveRuby(t) ==
  /\ IsAt(t, "ruby")
  /\ stackLock' = IF Top(t).lock THEN NoThread ELSE stackLock

(* load_provider and <Class>.new succeed, or one of them raises.           *)
CreateDone(t) ==
  /\ LeaveRuby(t) /\ Top(t).kind = "create"
  /\ LET m == Top(t).mi IN
     \/ /\ hdl' = [hdl EXCEPT ![m] = "live"]
        /\ roots' = roots \cup {m}
        /\ SetTop(t, [Top(t) EXCEPT !.at = "count", !.lock = FALSE])
     \/ /\ SetTop(t, [Top(t) EXCEPT !.at = "fail", !.lock = FALSE])
        /\ UNCHANGED <<hdl, roots>>
  /\ UNCHANGED <<initMutex, targetInit, miCount, ruby, held, result>>

CountRead(t) ==
  /\ IsAt(t, "count")
  /\ SetTop(t, [Top(t) EXCEPT !.at = "count1", !.tmp = miCount])
  /\ UNCHANGED <<lib, ruby, mi, result>>

CountWrite(t) ==
  /\ IsAt(t, "count1")
  /\ miCount' = Top(t).tmp + 1
  /\ held' = held \cup {Top(t).mi}
  /\ Return(t)
  /\ UNCHANGED <<initMutex, targetInit, stackLock, ruby, hdl, roots, result>>

CreateFail(t) ==
  /\ IsAt(t, "fail")
  /\ hdl' = [hdl EXCEPT ![Top(t).mi] = "none"]
  /\ Return(t)
  /\ UNCHANGED <<lib, ruby, roots, held, result>>

-----------------------------------------------------------------------------
(* TargetCall.                                                             *)

(* What rb_protect(call_mi) comes back with: an exception or the value of  *)
(* the method.                                                             *)
RubyResult == {"raise", "nil", "true", "array", "other"}

(* Mutant: a method that returns nil leaves the status unset.              *)
TargetStatus_NilUnset(r, invoke) ==
  CASE r = "raise" -> Status
    [] r = "nil"   -> {"unset"}
    [] OTHER       -> IF r = "true" \/ invoke THEN {"OK"}
                      ELSE IF r = "array" THEN Status ELSE {"ERR"}

(* The statuses it may become.  An exception is reported with its @rc when *)
(* that is an integer, zero included, and with what the uninitialised "rc" *)
(* held otherwise; an array is a pair of status and message.               *)
TargetStatus(r, invoke) ==
  CASE r = "raise" -> Status
    [] r = "nil"   -> {"ERR"}
    [] OTHER       -> IF r = "true" \/ invoke THEN {"OK"}
                      ELSE IF r = "array" THEN Status ELSE {"ERR"}

Releasing(m) == \E t \in Threads : \E c \in Calls(t) : c.mi = m /\ c.kind # "op"

OpCall(t, m) ==
  /\ MayCall(t) /\ m \in held /\ ~Releasing(m)
  /\ Push(t, Call(m, "op", "enter", FALSE))
  /\ Quiet(t)
  /\ UNCHANGED <<lib, ruby, mi>>

OpDone(t) ==
  /\ LeaveRuby(t) /\ Top(t).kind = "op"
  /\ \E r \in RubyResult, invoke \in BOOLEAN : \E rc \in TargetStatus(r, invoke) :
       Tell(t, rc)
  /\ Return(t)
  /\ UNCHANGED <<initMutex, targetInit, miCount, ruby, mi>>

(* Between trylock and unlock the library also runs Ruby outside           *)
(* rb_protect: get_exc_trace, which calls to_s and join on what a provider *)
(* raised, and StringValuePtr on the message it returned.  An exception    *)
(* there unwinds a nested call to the rb_protect, or the rescue clause, of *)
(* the call around it, past the unlock and past the rest of the factory,   *)
(* whose handle is lost.  An outermost call ends the process instead, and  *)
(* a cleanup is always outermost.                                          *)
Unwind(t) ==
  /\ IsAt(t, "ruby") /\ Len(stack[t]) > 1
  /\ \/ Top(t).kind = "op" /\ UNCHANGED hdl
     \/ Top(t).kind = "create" /\ hdl' = [hdl EXCEPT ![Top(t).mi] = "none"]
  /\ Return(t)
  /\ UNCHANGED <<lib, ruby, roots, held, result>>

-----------------------------------------------------------------------------
(* Cleanup and TargetCleanup.  No call of the MI is in progress.           *)

CleanupCall(t, m, terminating) ==
  /\ stack[t] = <<>> /\ MayAdmin /\ m \in held /\ ~InCall(m)
  /\ Push(t, Call(m, "cleanup", "enter", terminating))
  /\ Quiet(t)
  /\ UNCHANGED <<lib, ruby, mi>>

CleanupDone(t) ==
  /\ LeaveRuby(t) /\ Top(t).kind = "cleanup"
  /\ \E r \in RubyResult : \E rc \in TargetStatus(r, FALSE) :
       /\ Tell(t, rc)
       /\ IF ~Top(t).term /\ rc = "KEEP"
          THEN Return(t)
          ELSE SetTop(t, [Top(t) EXCEPT !.at = "unregister", !.lock = FALSE])
  /\ UNCHANGED <<initMutex, targetInit, miCount, ruby, mi>>

(* Mutant: TargetCleanup leaves the address of the handle with the GC.     *)
Unregister_Forgets(t) ==
  /\ IsAt(t, "unregister")
  /\ Goto(t, "unlock")
  /\ UNCHANGED <<lib, ruby, mi, result>>

(* rb_gc_unregister_address(&hdl->implementation)                          *)
Unregister(t) ==
  /\ IsAt(t, "unregister")
  /\ roots' = roots \ {Top(t).mi}
  /\ Goto(t, "unlock")
  /\ UNCHANGED <<lib, ruby, hdl, held, result>>

CleanupLock(t) ==
  /\ IsAt(t, "unlock") /\ initMutex = NoThread
  /\ initMutex' = t
  /\ Goto(t, "uncount")
  /\ UNCHANGED <<targetInit, miCount, stackLock, ruby, mi, result>>

UncountRead(t) ==
  /\ IsAt(t, "uncount")
  /\ SetTop(t, [Top(t) EXCEPT !.at = "uncount1", !.tmp = miCount])
  /\ UNCHANGED <<lib, ruby, mi, result>>

(* Mutants: Ruby goes with the last user but one; or never.                *)
UncountWrite_Early(t) ==
  /\ IsAt(t, "uncount1")
  /\ miCount' = Top(t).tmp - 1
  /\ IF miCount' > 1
     THEN initMutex' = NoThread /\ Goto(t, "free")
     ELSE UNCHANGED initMutex /\ Goto(t, "final")
  /\ UNCHANGED <<targetInit, stackLock, ruby, mi, result>>

UncountWrite_Never(t) ==
  /\ IsAt(t, "uncount1")
  /\ miCount' = Top(t).tmp - 1
  /\ initMutex' = NoThread /\ Goto(t, "free")
  /\ UNCHANGED <<targetInit, stackLock, ruby, mi, result>>

UncountWrite(t) ==
  /\ IsAt(t, "uncount1")
  /\ miCount' = Top(t).tmp - 1
  /\ IF miCount' > 0
     THEN initMutex' = NoThread /\ Goto(t, "free")
     ELSE UNCHANGED initMutex /\ Goto(t, "final")
  /\ UNCHANGED <<targetInit, stackLock, ruby, mi, result>>

(* ruby_finalize, when _TARGET_INIT says that Ruby is up.                  *)
Finalize(t) ==
  /\ IsAt(t, "final")
  /\ ruby' = IF targetInit = 1 THEN "down" ELSE ruby
  /\ targetInit' = 0
  /\ initMutex' = NoThread
  /\ Goto(t, "free")
  /\ UNCHANGED <<miCount, stackLock, mi, result>>

CleanupReturn(t) ==
  /\ IsAt(t, "free")
  /\ hdl' = [hdl EXCEPT ![Top(t).mi] = "none"]
  /\ held' = held \ {Top(t).mi}
  /\ Return(t)
  /\ UNCHANGED <<lib, ruby, roots, result>>

-----------------------------------------------------------------------------
Step(t) ==
  \/ \E m \in MIs : CreateCall(t, m)
  \/ InitLock(t) \/ GlobalInitialize(t) \/ EnterRuby(t) \/ CreateDone(t)
  \/ CountRead(t) \/ CountWrite(t) \/ CreateFail(t)
  \/ \E m \in MIs : OpCall(t, m)
  \/ OpDone(t) \/ Unwind(t)
  \/ \E m \in MIs, b \in BOOLEAN : CleanupCall(t, m, b)
  \/ CleanupDone(t) \/ Unregister(t) \/ CleanupLock(t)
  \/ UncountRead(t) \/ UncountWrite(t) \/ Finalize(t) \/ CleanupReturn(t)

Next == \E t \in Threads : Step(t)

Spec == Init /\ [][Next]_vars

FairSpec == Spec /\ \A t \in Threads : WF_vars(Finalize(t))

-----------------------------------------------------------------------------
(* Properties.                                                             *)

TypeOK ==
  /\ initMutex \in Threads \cup {NoThread}
  /\ targetInit \in {0, 1}
  /\ miCount \in Int
  /\ stackLock \in Threads \cup {NoThread}
  /\ ruby \in {"up", "down"}
  /\ hdl \in [MIs -> {"none", "null", "live"}]
  /\ roots \subseteq MIs
  /\ held \subseteq MIs
  /\ stack \in [Threads -> Seq([mi : MIs, kind : Kind, at : At, lock : BOOLEAN,
                                tmp : Int, term : BOOLEAN])]
  /\ result \in [Threads -> Status]

(* ruby_finalize (target_ruby.c:517-522) never runs under a call that is   *)
(* in Ruby or about to enter it, nested calls and failed initialisations   *)
(* included.                                                               *)
RubyUp ==
  \A t \in Threads : \A c \in Calls(t) :
    c.at \in {"enter", "ruby", "unregister"} => ruby = "up"

(* target_ruby.c:337-340 and 497-500: the garbage collector has the        *)
(* address of every provider that can still be called, and of no handle    *)
(* that has been freed.                                                    *)
RootsLive ==
  /\ \A m \in roots : hdl[m] = "live"
  /\ \A m \in held : m \in roots \/ \E t \in Threads : \E c \in Calls(t) :
       c.mi = m /\ c.kind = "cleanup" /\ c.at \notin {"enter", "ruby", "unregister"}

(* target_ruby.c:342-343, 482-483: _stack_init_mutex is never released    *)
(* under the call that took it.  On every path, nested calls, failures and *)
(* exceptions that unwind a call included, a call that has it is in Ruby,  *)
(* is the only one that has it, and still has it when it comes to leave.   *)
(* (The converse is not so: a call that was unwound leaves the mutex       *)
(* locked for good, and from then on every call goes on without it.)       *)
FlagOwned ==
  \A t \in Threads : \A i \in DOMAIN stack[t] : stack[t][i].lock =>
    /\ stackLock = t /\ stack[t][i].at = "ruby"
    /\ \A j \in DOMAIN stack[t] : stack[t][j].lock => j = i

users == {m \in held : \A t \in Threads : \A c \in Calls(t) :
            c.mi = m => c.at \notin {"final", "free"}}

(* The Ruby target keeps the promise of cmpi_provider.c:183-185 too.       *)
due == \E t \in Threads : IsAt(t, "final")
Abstract == INSTANCE Interpreter WITH loaded <- (ruby = "up")
Implements == Abstract!Spec

=============================================================================
