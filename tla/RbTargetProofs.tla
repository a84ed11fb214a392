--------------------------- MODULE RbTargetProofs ---------------------------
(***************************************************************************)
(* The Ruby target for any number of threads, MIs and nested calls.  The   *)
(* flag that marks a Ruby call in progress needs nothing of the broker;    *)
(* the interpreter's life cycle needs a broker that serialises creations   *)
(* and cleanups, and is then the one of module Interpreter.                *)
(***************************************************************************)
EXTENDS RbTarget, SequenceTheorems, FiniteSetTheorems, TLAPS

CallRec == [mi : MIs, kind : Kind, at : At, lock : BOOLEAN, tmp : Int, term : BOOLEAN]
Stacks == [Threads -> Seq(CallRec)]

(* What the three operations on stacks do, element by element.             *)
LEMMA PushFacts ==
  ASSUME stack \in Stacks, NEW t \in Threads, NEW c \in CallRec, Push(t, c)
  PROVE  /\ stack' \in Stacks
         /\ Len(stack'[t]) = Len(stack[t]) + 1
         /\ stack'[t][Len(stack[t]) + 1] = c
         /\ \A i \in 1..Len(stack[t]) : stack'[t][i] = stack[t][i]
         /\ \A u \in Threads \ {t} : stack'[u] = stack[u]
<1>1. stack[t] \in Seq(CallRec)
  BY DEF Stacks
<1>2. /\ Append(stack[t], c) \in Seq(CallRec) /\ Len(Append(stack[t], c)) = Len(stack[t]) + 1
      /\ Append(stack[t], c)[Len(stack[t]) + 1] = c
      /\ \A i \in 1..Len(stack[t]) : Append(stack[t], c)[i] = stack[t][i]
  BY <1>1, AppendProperties
<1>3. stack' = [stack EXCEPT ![t] = Append(stack[t], c)]
  BY DEF Push
<1> QED
  BY <1>1, <1>2, <1>3 DEF Stacks

LEMMA SetTopFacts ==
  ASSUME stack \in Stacks, NEW t \in Threads, stack[t] # <<>>, NEW c \in CallRec, SetTop(t, c)
  PROVE  /\ stack' \in Stacks
         /\ Len(stack[t]) \in Nat \ {0}
         /\ Len(stack'[t]) = Len(stack[t])
         /\ stack'[t][Len(stack[t])] = c
         /\ \A i \in 1..Len(stack[t]) - 1 : stack'[t][i] = stack[t][i]
         /\ \A u \in Threads \ {t} : stack'[u] = stack[u]
<1>1. stack[t] \in Seq(CallRec) /\ Len(stack[t]) \in Nat \ {0}
  BY EmptySeq, LenProperties DEF Stacks
<1> DEFINE new == [stack[t] EXCEPT ![Len(stack[t])] = c]
<1>2. new \in Seq(CallRec) /\ Len(new) = Len(stack[t])
  BY <1>1, ExceptSeq
<1>3. stack' = [stack EXCEPT ![t] = new]
  BY DEF SetTop
<1>4. new[Len(stack[t])] = c /\ \A i \in 1..Len(stack[t]) - 1 : new[i] = stack[t][i]
  BY <1>1, LenProperties
<1> HIDE DEF new
<1> QED
  BY <1>1, <1>2, <1>3, <1>4 DEF Stacks

LEMMA ReturnFacts ==
  ASSUME stack \in Stacks, NEW t \in Threads, stack[t] # <<>>, Return(t)
  PROVE  /\ stack' \in Stacks
         /\ Len(stack[t]) \in Nat \ {0}
         /\ Len(stack'[t]) = Len(stack[t]) - 1
         /\ \A i \in 1..Len(stack[t]) - 1 : stack'[t][i] = stack[t][i]
         /\ \A u \in Threads \ {t} : stack'[u] = stack[u]
<1>1. stack[t] \in Seq(CallRec) /\ Len(stack[t]) \in Nat \ {0}
  BY EmptySeq, LenProperties DEF Stacks
<1>2. /\ Front(stack[t]) \in Seq(CallRec) /\ Len(Front(stack[t])) = Len(stack[t]) - 1
      /\ \A i \in 1..Len(stack[t]) - 1 : Front(stack[t])[i] = stack[t][i]
  BY <1>1, SubSeqProperties DEF Front
<1>3. stack' = [stack EXCEPT ![t] = Front(stack[t])]
  BY DEF Return
<1> QED
  BY <1>1, <1>2, <1>3 DEF Stacks

LEMMA TopFacts ==
  ASSUME stack \in Stacks, NEW t \in Threads, stack[t] # <<>>
  PROVE  /\ Len(stack[t]) \in Nat \ {0} /\ Top(t) = stack[t][Len(stack[t])] /\ Top(t) \in CallRec
         /\ Top(t) \in Calls(t)
  BY EmptySeq, LenProperties, ElementOfSeq DEF Stacks, Top, Last, Calls, Range

-----------------------------------------------------------------------------
(* Types and the stack mutex, whatever the broker does.                    *)

(* A call that has the mutex is in Ruby, and it is the only one that has.  *)
Flag(t) ==
  /\ \A i \in 1..Len(stack[t]) : stack[t][i].lock => stackLock = t /\ stack[t][i].at = "ruby"
  /\ \A i, j \in 1..Len(stack[t]) : stack[t][i].lock /\ stack[t][j].lock => i = j
FlagInv == \A t \in Threads : Flag(t)

Unlocks(t) == stackLock' = IF Top(t).lock THEN NoThread ELSE stackLock

(* The three forms of a step: a call begins, goes on, or returns.  One     *)
(* that leaves Ruby gives the mutex up if it has it, or is unwound and     *)
(* leaves it as it is.                                                     *)
Begins(t) == \E c \in CallRec : Push(t, c) /\ ~c.lock /\ UNCHANGED stackLock
GoesOn(t) ==
  /\ stack[t] # <<>>
  /\ \E c \in CallRec :
       /\ SetTop(t, c) /\ c.kind = Top(t).kind /\ c.mi = Top(t).mi
       /\ \/ ~c.lock /\ Unlocks(t)
          \/ c.lock = Top(t).lock /\ Top(t).at # "ruby" /\ UNCHANGED stackLock
          \/ c.lock /\ c.at = "ruby" /\ Top(t).at # "ruby" /\ stackLock = NoThread /\ stackLock' = t
Returns(t) ==
  /\ stack[t] # <<>> /\ Return(t)
  /\ Unlocks(t) \/ UNCHANGED stackLock

LEMMA Types == TypeOK => stack \in Stacks
  BY DEF TypeOK, Stacks, CallRec

LEMMA NewCallType ==
  \A m \in MIs, kind \in Kind, at \in At, b \in BOOLEAN :
    /\ Call(m, kind, at, b) \in CallRec /\ ~Call(m, kind, at, b).lock
    /\ Call(m, kind, at, b).kind = kind /\ Call(m, kind, at, b).mi = m
    /\ Call(m, kind, at, b).at = at
  BY DEF Call, CallRec

LEMMA GotoForm ==
  ASSUME TypeOK, NEW t \in Threads, stack[t] # <<>>, NEW at \in At, Goto(t, at),
         Top(t).at # "ruby", UNCHANGED stackLock
  PROVE  GoesOn(t)
<1> DEFINE c == [Top(t) EXCEPT !.at = at]
<1>1. Top(t) \in CallRec
  BY Types, TopFacts
<1>2. c \in CallRec /\ c.kind = Top(t).kind /\ c.mi = Top(t).mi /\ c.lock = Top(t).lock
  BY <1>1 DEF CallRec
<1>3. SetTop(t, c)
  BY DEF Goto
<1> QED
  BY <1>2, <1>3 DEF GoesOn

LEMMA TmpForm ==
  ASSUME TypeOK, NEW t \in Threads, stack[t] # <<>>, NEW at \in At, NEW n \in Int,
         SetTop(t, [Top(t) EXCEPT !.at = at, !.tmp = n]), Top(t).at # "ruby", UNCHANGED stackLock
  PROVE  GoesOn(t)
<1> DEFINE c == [Top(t) EXCEPT !.at = at, !.tmp = n]
<1>1. Top(t) \in CallRec
  BY Types, TopFacts
<1>2. c \in CallRec /\ c.kind = Top(t).kind /\ c.mi = Top(t).mi /\ c.lock = Top(t).lock
  BY <1>1 DEF CallRec
<1> QED
  BY <1>2 DEF GoesOn

LEMMA LeaveForm ==
  ASSUME TypeOK, NEW t \in Threads, stack[t] # <<>>, NEW at \in At, Unlocks(t),
         SetTop(t, [Top(t) EXCEPT !.at = at, !.lock = FALSE])
  PROVE  GoesOn(t)
<1> DEFINE c == [Top(t) EXCEPT !.at = at, !.lock = FALSE]
<1>1. Top(t) \in CallRec
  BY Types, TopFacts
<1>2. c \in CallRec /\ c.kind = Top(t).kind /\ c.mi = Top(t).mi /\ c.lock = FALSE
  BY <1>1 DEF CallRec
<1> QED
  BY <1>2 DEF GoesOn

LEMMA StepForms ==
  ASSUME TypeOK, NEW t \in Threads, Step(t)
  PROVE  Begins(t) \/ GoesOn(t) \/ Returns(t)
<1>0. \A a : IsAt(t, a) => stack[t] # <<>> /\ Top(t).at = a
  BY DEF IsAt
<1>1. ASSUME NEW m \in MIs, CreateCall(t, m) PROVE Begins(t)
  <2>1. Push(t, Call(m, "create", "lock", FALSE)) /\ UNCHANGED stackLock
    BY <1>1 DEF CreateCall, lib
  <2>2. "create" \in Kind /\ "lock" \in At
    BY DEF Kind, At
  <2> QED
    BY <2>1, <2>2, NewCallType DEF Begins
<1>2. ASSUME NEW m \in MIs, OpCall(t, m) PROVE Begins(t)
  <2>1. Push(t, Call(m, "op", "enter", FALSE)) /\ UNCHANGED stackLock
    BY <1>2 DEF OpCall, lib
  <2>2. "op" \in Kind /\ "enter" \in At
    BY DEF Kind, At
  <2> QED
    BY <2>1, <2>2, NewCallType DEF Begins
<1>3. ASSUME NEW m \in MIs, NEW b \in BOOLEAN, CleanupCall(t, m, b) PROVE Begins(t)
  <2>1. Push(t, Call(m, "cleanup", "enter", b)) /\ UNCHANGED stackLock
    BY <1>3 DEF CleanupCall, lib
  <2>2. "cleanup" \in Kind /\ "enter" \in At
    BY DEF Kind, At
  <2> QED
    BY <2>1, <2>2, NewCallType DEF Begins
<1>4. CASE InitLock(t)
  BY <1>0, <1>4, GotoForm DEF InitLock, At
<1>5. CASE GlobalInitialize(t)
  BY <1>0, <1>5, GotoForm DEF GlobalInitialize, At
<1>6. CASE EnterRuby(t)
  <2>1. CASE stackLock = NoThread
    <3> DEFINE c == [Top(t) EXCEPT !.at = "ruby", !.lock = TRUE]
    <3>1. Top(t) \in CallRec /\ stack[t] # <<>> /\ Top(t).at = "enter"
      BY <1>0, <1>6, Types, TopFacts DEF EnterRuby
    <3>2. c \in CallRec /\ c.kind = Top(t).kind /\ c.mi = Top(t).mi /\ c.lock /\ c.at = "ruby"
      BY <3>1 DEF CallRec, At
    <3>3. SetTop(t, c) /\ stackLock' = t
      BY <1>6, <2>1 DEF EnterRuby
    <3> QED
      BY <2>1, <3>1, <3>2, <3>3 DEF GoesOn
  <2>2. CASE stackLock # NoThread
    BY <1>0, <1>6, <2>2, GotoForm DEF EnterRuby, At
  <2> QED
    BY <2>1, <2>2
<1>7. CASE CreateDone(t)
  BY <1>0, <1>7, LeaveForm DEF CreateDone, LeaveRuby, Unlocks, At
<1>8. CASE CountRead(t)
  <2>1. /\ stack[t] # <<>> /\ Top(t).at = "count" /\ UNCHANGED stackLock
        /\ SetTop(t, [Top(t) EXCEPT !.at = "count1", !.tmp = miCount])
    BY <1>0, <1>8 DEF CountRead, lib
  <2>2. "count1" \in At /\ miCount \in Int /\ "count" # "ruby"
    BY DEF At, TypeOK
  <2> QED
    BY <2>1, <2>2, TmpForm
<1>9. CASE CountWrite(t) \/ CreateFail(t) \/ CleanupReturn(t)
  BY <1>0, <1>9 DEF CountWrite, CreateFail, CleanupReturn, Returns, lib
<1>10. CASE OpDone(t) \/ Unwind(t)
  BY <1>0, <1>10 DEF OpDone, Unwind, LeaveRuby, Unlocks, Returns, lib
<1>11. CASE CleanupDone(t)
  <2>1. stack[t] # <<>> /\ Unlocks(t)
    BY <1>0, <1>11 DEF CleanupDone, LeaveRuby, Unlocks
  <2>2. CASE Return(t)
    BY <2>1, <2>2 DEF Returns
  <2>3. CASE SetTop(t, [Top(t) EXCEPT !.at = "unregister", !.lock = FALSE])
    BY <2>1, <2>3, LeaveForm DEF At
  <2> QED
    BY <1>11, <2>2, <2>3 DEF CleanupDone
<1>12. CASE Unregister(t) \/ CleanupLock(t) \/ Finalize(t)
  BY <1>0, <1>12, GotoForm DEF Unregister, CleanupLock, Finalize, At, lib
<1>13. CASE UncountRead(t)
  <2>1. /\ stack[t] # <<>> /\ Top(t).at = "uncount" /\ UNCHANGED stackLock
        /\ SetTop(t, [Top(t) EXCEPT !.at = "uncount1", !.tmp = miCount])
    BY <1>0, <1>13 DEF UncountRead, lib
  <2>2. "uncount1" \in At /\ miCount \in Int /\ "uncount" # "ruby"
    BY DEF At, TypeOK
  <2> QED
    BY <2>1, <2>2, TmpForm
<1>14. CASE UncountWrite(t)
  BY <1>0, <1>14, GotoForm DEF UncountWrite, At
<1> QED
  BY <1>1, <1>2, <1>3, <1>4, <1>5, <1>6, <1>7, <1>8, <1>9, <1>10, <1>11, <1>12, <1>13, <1>14 DEF Step

LEMMA FlagStep ==
  ASSUME stack \in Stacks, FlagInv, NEW t \in Threads, Begins(t) \/ GoesOn(t) \/ Returns(t)
  PROVE  FlagInv' /\ stack' \in Stacks
<1>1. CASE Begins(t)
  <2>1. PICK c \in CallRec : Push(t, c) /\ ~c.lock /\ UNCHANGED stackLock
    BY <1>1 DEF Begins
  <2>2. /\ stack' \in Stacks
        /\ Len(stack'[t]) = Len(stack[t]) + 1
        /\ stack'[t][Len(stack[t]) + 1] = c
        /\ \A i \in 1..Len(stack[t]) : stack'[t][i] = stack[t][i]
        /\ \A u \in Threads \ {t} : stack'[u] = stack[u]
    BY <2>1, PushFacts
  <2>3. Len(stack[t]) \in Nat
    BY LenProperties DEF Stacks
  <2>4. ASSUME NEW u \in Threads \ {t} PROVE Flag(u)'
    <3>1. Flag(u) /\ stack'[u] = stack[u] /\ stackLock' = stackLock
      BY <2>1, <2>2 DEF FlagInv
    <3> QED
      BY <3>1 DEF Flag
  <2>5. Flag(t)
    BY DEF FlagInv
  <2>6. Flag(t)'
    <3> DEFINE n == Len(stack[t])
    <3>1. \A i \in 1..n + 1 : stack'[t][i].lock => i \in 1..n /\ stack[t][i].lock
      BY <2>1, <2>2, <2>3
    <3>2. \A i \in 1..n : i \in 1..n + 1 /\ stack'[t][i] = stack[t][i]
      BY <2>2, <2>3
    <3>3. Len(stack'[t]) = n + 1 /\ stackLock' = stackLock
      BY <2>1, <2>2
    <3> HIDE DEF n
    <3>4. Len(stack[t]) = n
      BY DEF n
    <3> QED
      BY <2>5, <3>1, <3>2, <3>3, <3>4 DEF Flag
  <2> QED
    BY <2>2, <2>4, <2>6 DEF FlagInv
<1>2. CASE GoesOn(t)
  <2>1. PICK c \in CallRec :
       /\ SetTop(t, c) /\ c.kind = Top(t).kind /\ c.mi = Top(t).mi
       /\ \/ ~c.lock /\ Unlocks(t)
          \/ c.lock = Top(t).lock /\ Top(t).at # "ruby" /\ UNCHANGED stackLock
          \/ c.lock /\ c.at = "ruby" /\ Top(t).at # "ruby" /\ stackLock = NoThread /\ stackLock' = t
    BY <1>2 DEF GoesOn
  <2> DEFINE n == Len(stack[t])
  <2>2. /\ stack' \in Stacks
        /\ n \in Nat \ {0} /\ Len(stack'[t]) = n
        /\ stack'[t][n] = c
        /\ \A i \in 1..n - 1 : stack'[t][i] = stack[t][i]
        /\ \A u \in Threads \ {t} : stack'[u] = stack[u]
    BY <1>2, <2>1, SetTopFacts DEF GoesOn
  <2>3. stack[t][n] = Top(t)
    BY <1>2, TopFacts DEF GoesOn
  <2> HIDE DEF n
  <2>4. Flag(t) /\ t # NoThread /\ n \in 1..n /\ n = Len(stack[t])
    BY <2>2, RbTargetAssumption DEF FlagInv, n
  <2>5. \A i \in 1..n : i # n => i \in 1..n - 1 /\ stack'[t][i] = stack[t][i]
    BY <2>2
  <2>6. ~c.lock /\ Unlocks(t) => Flag(t)'
    <3> SUFFICES ASSUME ~c.lock, Unlocks(t) PROVE Flag(t)'
      OBVIOUS
    <3>1. \A i \in 1..n : stack'[t][i].lock => i # n /\ stack[t][i].lock /\ stack'[t][i] = stack[t][i]
      BY <2>2, <2>5
    <3>2. \A i \in 1..n : stack'[t][i].lock => ~Top(t).lock /\ stackLock' = stackLock
      BY <2>3, <2>4, <3>1 DEF Flag, Unlocks
    <3> QED
      BY <2>2, <2>3, <2>4, <2>5, <3>1, <3>2 DEF Flag
  <2>7. c.lock = Top(t).lock /\ Top(t).at # "ruby" /\ UNCHANGED stackLock => Flag(t)'
    <3> SUFFICES ASSUME c.lock = Top(t).lock, Top(t).at # "ruby", UNCHANGED stackLock PROVE Flag(t)'
      OBVIOUS
    <3>1. ~Top(t).lock /\ ~c.lock
      BY <2>3, <2>4 DEF Flag
    <3>2. \A i \in 1..n : stack'[t][i].lock => i # n /\ stack[t][i].lock /\ stack'[t][i] = stack[t][i]
      BY <2>2, <2>5, <3>1
    <3> QED
      BY <2>2, <2>3, <2>4, <2>5, <3>1, <3>2 DEF Flag
  <2>8. c.lock /\ c.at = "ruby" /\ stackLock = NoThread /\ stackLock' = t => Flag(t)'
    <3> SUFFICES ASSUME c.lock, c.at = "ruby", stackLock = NoThread, stackLock' = t PROVE Flag(t)'
      OBVIOUS
    <3>1. \A i \in 1..n : stack'[t][i].lock => i = n
      BY <2>2, <2>4, <2>5 DEF Flag
    <3> QED
      BY <2>2, <2>4, <3>1 DEF Flag
  <2>9. ASSUME NEW u \in Threads \ {t} PROVE Flag(u)'
    <3>1. stackLock' = u <=> stackLock = u
      BY <2>1, <2>3, <2>4, RbTargetAssumption DEF Flag, Unlocks
    <3>2. Flag(u) /\ stack'[u] = stack[u]
      BY <2>2 DEF FlagInv
    <3> QED
      BY <3>1, <3>2 DEF Flag
  <2> QED
    BY <2>1, <2>2, <2>6, <2>7, <2>8, <2>9 DEF FlagInv
<1>3. CASE Returns(t)
  <2> DEFINE n == Len(stack[t])
  <2>1. /\ stack' \in Stacks
        /\ n \in Nat \ {0} /\ Len(stack'[t]) = n - 1
        /\ \A i \in 1..n - 1 : stack'[t][i] = stack[t][i]
        /\ \A u \in Threads \ {t} : stack'[u] = stack[u]
    BY <1>3, ReturnFacts DEF Returns
  <2>2. stack[t][n] = Top(t) /\ (Unlocks(t) \/ UNCHANGED stackLock)
    BY <1>3, TopFacts DEF Returns
  <2> HIDE DEF n
  <2>3. Flag(t) /\ t # NoThread /\ n \in 1..n /\ n = Len(stack[t])
    BY <2>1, RbTargetAssumption DEF FlagInv, n
  <2>4. \A i \in 1..n - 1 : i \in 1..n /\ i # n
    BY <2>1
  <2>5. \A i \in 1..n : i # n => i \in 1..n - 1
    BY <2>1
  <2>6. Flag(t)'
    <3>1. \A i \in 1..n - 1 : stack'[t][i].lock => ~Top(t).lock /\ stackLock' = stackLock
      BY <2>1, <2>2, <2>3, <2>4 DEF Flag, Unlocks
    <3>2. \A i \in 1..n - 1 : stack'[t][i].lock => stackLock' = t /\ stack'[t][i].at = "ruby"
      BY <2>1, <2>3, <2>4, <3>1 DEF Flag
    <3>3. \A i, j \in 1..n - 1 : stack'[t][i].lock /\ stack'[t][j].lock => i = j
      BY <2>1, <2>3, <2>4 DEF Flag
    <3> QED
      BY <2>1, <3>2, <3>3 DEF Flag
  <2>7. ASSUME NEW u \in Threads \ {t} PROVE Flag(u)'
    <3>1. stackLock = u => stackLock' = u
      BY <2>2, <2>3, RbTargetAssumption DEF Flag, Unlocks
    <3>2. Flag(u) /\ stack'[u] = stack[u]
      BY <2>1 DEF FlagInv
    <3> QED
      BY <3>1, <3>2 DEF Flag
  <2> QED
    BY <2>1, <2>6, <2>7 DEF FlagInv
<1> QED
  BY <1>1, <1>2, <1>3

LEMMA StatusType ==
  \A r \in RubyResult, b \in BOOLEAN : TargetStatus(r, b) \subseteq Status
  BY DEF TargetStatus, Status

LEMMA TypeStep ==
  ASSUME TypeOK, stack' \in Stacks, NEW t \in Threads, Step(t)
  PROVE  TypeOK'
<1>1. Top(t) \in CallRec \/ stack[t] = <<>>
  BY Types, TopFacts
<1>2. stack' \in [Threads -> Seq([mi : MIs, kind : Kind, at : At, lock : BOOLEAN,
                                 tmp : Int, term : BOOLEAN])]
  BY DEF Stacks, CallRec
<1>3. stackLock' \in Threads \cup {NoThread} /\ initMutex' \in Threads \cup {NoThread}
  BY DEF Step, CreateCall, InitLock, GlobalInitialize, EnterRuby, CreateDone, CountRead,
     CountWrite, CreateFail, OpCall, OpDone, Unwind, CleanupCall, CleanupDone, Unregister, CleanupLock,
     UncountRead, UncountWrite, Finalize, CleanupReturn, LeaveRuby, lib, TypeOK
<1>4. targetInit' \in {0, 1} /\ ruby' \in {"up", "down"}
  BY DEF Step, CreateCall, InitLock, GlobalInitialize, EnterRuby, CreateDone, CountRead,
     CountWrite, CreateFail, OpCall, OpDone, Unwind, CleanupCall, CleanupDone, Unregister, CleanupLock,
     UncountRead, UncountWrite, Finalize, CleanupReturn, LeaveRuby, lib, TypeOK
<1>5. miCount' \in Int
  <2>1. CASE CountWrite(t) \/ UncountWrite(t)
    BY <1>1, <2>1 DEF CountWrite, UncountWrite, IsAt, CallRec
  <2>2. CASE ~(CountWrite(t) \/ UncountWrite(t))
    BY <2>2 DEF Step, CreateCall, InitLock, GlobalInitialize, EnterRuby, CreateDone, CountRead,
     CreateFail, OpCall, OpDone, Unwind, CleanupCall, CleanupDone, Unregister, CleanupLock,
     UncountRead, Finalize, CleanupReturn, lib, TypeOK
  <2> QED
    BY <2>1, <2>2
<1>6. /\ hdl' \in [MIs -> {"none", "null", "live"}]
      /\ roots' \subseteq MIs /\ held' \subseteq MIs
  BY <1>1 DEF Step, CreateCall, InitLock, GlobalInitialize, EnterRuby, CreateDone, CountRead,
     CountWrite, CreateFail, OpCall, OpDone, Unwind, CleanupCall, CleanupDone, Unregister, CleanupLock,
     UncountRead, UncountWrite, Finalize, CleanupReturn, LeaveRuby, IsAt, mi, TypeOK, CallRec
<1>7. result' \in [Threads -> Status]
  <2>1. ASSUME NEW rc \in Status, Tell(t, rc) PROVE result' \in [Threads -> Status]
    BY <2>1 DEF Tell, TypeOK
  <2>2. CASE OpDone(t) \/ CleanupDone(t)
    <3>1. PICK r \in RubyResult, invoke \in BOOLEAN : \E rc \in TargetStatus(r, invoke) : Tell(t, rc)
      BY <2>2 DEF OpDone, CleanupDone
    <3> QED
      BY <2>1, <3>1, StatusType
  <2>3. CASE Quiet(t)
    BY <2>1, <2>3 DEF Quiet, Status
  <2>4. CASE UNCHANGED result
    BY <2>4 DEF TypeOK
  <2> QED
    BY <2>2, <2>3, <2>4 DEF Step, CreateCall, InitLock, GlobalInitialize, EnterRuby, CreateDone,
     CountRead, CountWrite, CreateFail, OpCall, Unwind, CleanupCall, Unregister, CleanupLock,
     UncountRead, UncountWrite, Finalize, CleanupReturn
<1> QED
  BY <1>2, <1>3, <1>4, <1>5, <1>6, <1>7 DEF TypeOK

LEMMA InitOK == Init => TypeOK /\ FlagInv
<1> SUFFICES ASSUME Init PROVE TypeOK /\ FlagInv
  OBVIOUS
<1>1. \A t \in Threads : stack[t] = <<>> /\ Len(stack[t]) = 0 /\ stackLock # t
  BY RbTargetAssumption DEF Init
<1>2. stack \in Stacks
  BY EmptySeq DEF Init, Stacks
<1>3. TypeOK
  BY <1>2 DEF Init, TypeOK, Stacks, CallRec, Status
<1>4. FlagInv
  BY <1>1 DEF FlagInv, Flag
<1> QED
  BY <1>3, <1>4

LEMMA Safe == TypeOK /\ FlagInv /\ [Next]_vars => TypeOK' /\ FlagInv'
<1> SUFFICES ASSUME TypeOK, FlagInv, [Next]_vars PROVE TypeOK' /\ FlagInv'
  OBVIOUS
<1>1. CASE Next
  <2>1. PICK t \in Threads : Step(t)
    BY <1>1 DEF Next
  <2>2. FlagInv' /\ stack' \in Stacks
    BY <2>1, Types, StepForms, FlagStep
  <2> QED
    BY <2>1, <2>2, TypeStep
<1>2. CASE UNCHANGED vars
  BY <1>2 DEF vars, lib, mi, TypeOK, FlagInv, Flag
<1> QED
  BY <1>1, <1>2

LEMMA SpecInv == Spec => [](TypeOK /\ FlagInv)
  BY InitOK, Safe, PTL DEF Spec

(* The state of cmpi_provider.c and target_ruby.c keeps its types under    *)
(* every broker, the one that creates and releases MIs at once included.   *)
THEOREM TypeCorrect == Spec => []TypeOK
  BY SpecInv, PTL

(* target_ruby.c:342-343, 482-483: _stack_init_mutex is never released     *)
(* under the call that took it, under every broker, however calls nest and *)
(* whichever of them an exception unwinds.                                 *)
THEOREM FlagAlwaysOwned == Spec => []FlagOwned
<1>1. TypeOK /\ FlagInv => FlagOwned
  <2> SUFFICES ASSUME TypeOK, FlagInv, NEW t \in Threads,
                      NEW i \in DOMAIN stack[t], stack[t][i].lock
               PROVE  /\ stackLock = t /\ stack[t][i].at = "ruby"
                      /\ \A j \in DOMAIN stack[t] : stack[t][j].lock => j = i
    BY DEF FlagOwned
  <2>1. DOMAIN stack[t] = 1..Len(stack[t])
    BY Types, LenProperties DEF Stacks
  <2> QED
    BY <2>1 DEF FlagInv, Flag
<1> QED
  BY <1>1, SpecInv, PTL

-----------------------------------------------------------------------------
(* Ruby is up for every call, when the broker creates and releases one MI  *)
(* at a time.                                                              *)

(* What holds while a call of an operation, of the factory or of Cleanup   *)
(* is in progress, and while none of the last two is.                      *)
OpOK(c) == c.at \in {"enter", "ruby"} /\ c.mi \in held /\ ruby = "up"

Settled ==
  /\ miCount = Cardinality(held)
  /\ held \subseteq roots
  /\ held # {} => ruby = "up"

CreateOK(c) ==
  /\ c.at \in {"lock", "global", "enter", "ruby", "fail", "count", "count1"}
  /\ c.mi \notin held
  /\ c.mi \in roots <=> c.at \in {"count", "count1"}
  /\ hdl[c.mi] = IF c.at \in {"count", "count1"} THEN "live" ELSE "null"
  /\ c.at \in {"enter", "ruby", "count", "count1"} => ruby = "up"
  /\ c.at = "count1" => c.tmp = miCount
  /\ Settled

CleanupOK(c) ==
  /\ c.at \in {"enter", "ruby", "unregister", "unlock", "uncount", "uncount1", "final", "free"}
  /\ c.mi \in held
  /\ c.mi \in roots <=> c.at \in {"enter", "ruby", "unregister"}
  /\ c.at # "free" => ruby = "up"
  /\ c.at = "uncount1" => c.tmp = miCount
  /\ c.at = "final" => held = {c.mi}
  /\ miCount = Cardinality(held) - IF c.at \in {"final", "free"} THEN 1 ELSE 0
  /\ \A m \in held \ {c.mi} : m \in roots /\ ruby = "up"

AdminOK(c) == (c.kind = "create" /\ CreateOK(c)) \/ (c.kind = "cleanup" /\ CleanupOK(c))

Basic ==
  /\ targetInit = 1 <=> ruby = "up"
  /\ IsFiniteSet(held)
  /\ \A m \in held \cup roots : hdl[m] = "live"

CallsOK == \A t \in Threads : \A i \in 1..Len(stack[t]) :
  \/ stack[t][i].kind = "op" /\ OpOK(stack[t][i])
  \/ stack[t][i].kind # "op" /\ AdminOK(stack[t][i])

OneAdmin == \A t, u \in Threads : \A i \in 1..Len(stack[t]), j \in 1..Len(stack[u]) :
  stack[t][i].kind # "op" /\ stack[u][j].kind # "op" => t = u /\ i = j

(* No operation of an MI is under way while Cleanup releases it.           *)
Alone == \A t, u \in Threads : \A i \in 1..Len(stack[t]), j \in 1..Len(stack[u]) :
  stack[t][i].kind = "cleanup" /\ stack[u][j].kind = "op" => stack[t][i].mi # stack[u][j].mi

Quiescent == \A t \in Threads : \A i \in 1..Len(stack[t]) : stack[t][i].kind = "op"

SerialInv == Basic /\ CallsOK /\ OneAdmin /\ Alone /\ (Quiescent => Settled)

(* A step of the call that creates or releases an MI: what is left to show *)
(* is what the step does to that call and to the operations of other MIs.  *)
LEMMA AdminGoesOn ==
  ASSUME stack \in Stacks, SerialInv, NEW t \in Threads, stack[t] # <<>>, Top(t).kind # "op",
         NEW c \in CallRec, SetTop(t, c), c.kind = Top(t).kind, c.mi = Top(t).mi,
         Basic', AdminOK(c)',
         \A d \in CallRec : d.kind = "op" /\ OpOK(d) /\ (c.kind = "cleanup" => d.mi # c.mi) => OpOK(d)'
  PROVE  SerialInv'
<1> DEFINE n == Len(stack[t])
<1>1. /\ stack' \in Stacks /\ n \in Nat \ {0} /\ Len(stack'[t]) = n /\ stack'[t][n] = c
      /\ \A i \in 1..n - 1 : stack'[t][i] = stack[t][i]
      /\ \A u \in Threads \ {t} : stack'[u] = stack[u]
  BY SetTopFacts
<1>2. stack[t][n] = Top(t) /\ n = Len(stack[t])
  BY TopFacts
<1> HIDE DEF n
<1>3. n \in 1..n /\ n \in 1..Len(stack[t])
  BY <1>1, <1>2
<1>4. \A u \in Threads : \A j \in 1..Len(stack'[u]) : (u = t /\ j = n) \/
        (~(u = t /\ j = n) /\ j \in 1..Len(stack[u]) /\ stack'[u][j] = stack[u][j])
  BY <1>1, <1>2
<1>5. \A u \in Threads : \A j \in 1..Len(stack[u]) : ~(u = t /\ j = n) => stack[u][j].kind = "op"
  BY <1>2, <1>3 DEF SerialInv, OneAdmin
<1>6. \A u \in Threads : \A j \in 1..Len(stack'[u]) : ~(u = t /\ j = n) =>
        stack'[u][j] \in CallRec /\ stack'[u][j].kind = "op" /\ OpOK(stack'[u][j])
  BY <1>1, <1>4, <1>5, ElementOfSeq DEF SerialInv, CallsOK, Stacks
<1>7. \A u \in Threads : \A j \in 1..Len(stack'[u]) : ~(u = t /\ j = n) =>
        (c.kind = "cleanup" => stack'[u][j].mi # c.mi)
  <2> SUFFICES ASSUME NEW u \in Threads, NEW j \in 1..Len(stack'[u]), ~(u = t /\ j = n),
                      c.kind = "cleanup"
               PROVE  stack'[u][j].mi # c.mi
    OBVIOUS
  <2>1. j \in 1..Len(stack[u]) /\ stack'[u][j] = stack[u][j] /\ stack[u][j].kind = "op"
    BY <1>4, <1>5
  <2>2. stack[t][n].kind = "cleanup" => stack[t][n].mi # stack[u][j].mi
    BY <1>3, <2>1 DEF SerialInv, Alone
  <2> QED
    BY <1>2, <2>1, <2>2
<1>8. CallsOK'
  BY <1>1, <1>6, <1>7 DEF CallsOK
<1>9. OneAdmin'
  BY <1>6 DEF OneAdmin
<1>10. Alone'
  BY <1>1, <1>6, <1>7 DEF Alone
<1>11. ~Quiescent'
  BY <1>1, <1>3 DEF Quiescent
<1> QED
  BY <1>8, <1>9, <1>10, <1>11 DEF SerialInv

LEMMA AdminReturns ==
  ASSUME stack \in Stacks, SerialInv, NEW t \in Threads, stack[t] # <<>>, Top(t).kind # "op",
         Return(t), Basic', Settled',
         \A d \in CallRec : d.kind = "op" /\ OpOK(d) /\ (Top(t).kind = "cleanup" => d.mi # Top(t).mi) => OpOK(d)'
  PROVE  SerialInv'
<1> DEFINE n == Len(stack[t])
<1>1. /\ stack' \in Stacks /\ n \in Nat \ {0} /\ Len(stack'[t]) = n - 1
      /\ \A i \in 1..n - 1 : stack'[t][i] = stack[t][i]
      /\ \A u \in Threads \ {t} : stack'[u] = stack[u]
  BY ReturnFacts
<1>2. stack[t][n] = Top(t) /\ n = Len(stack[t])
  BY TopFacts
<1> HIDE DEF n
<1>3. n \in 1..Len(stack[t])
  BY <1>1, <1>2
<1>4. \A u \in Threads : \A j \in 1..Len(stack'[u]) :
        ~(u = t /\ j = n) /\ j \in 1..Len(stack[u]) /\ stack'[u][j] = stack[u][j]
  <2> SUFFICES ASSUME NEW u \in Threads, NEW j \in 1..Len(stack'[u])
               PROVE  ~(u = t /\ j = n) /\ j \in 1..Len(stack[u]) /\ stack'[u][j] = stack[u][j]
    OBVIOUS
  <2>1. CASE u = t
    BY <1>1, <1>2, <2>1
  <2>2. CASE u # t
    BY <1>1, <2>2
  <2> QED
    BY <2>1, <2>2
<1>5. \A u \in Threads : \A j \in 1..Len(stack[u]) : ~(u = t /\ j = n) => stack[u][j].kind = "op"
  BY <1>2, <1>3 DEF SerialInv, OneAdmin
<1>6. \A u \in Threads : \A j \in 1..Len(stack'[u]) :
        stack'[u][j] \in CallRec /\ stack'[u][j].kind = "op" /\ OpOK(stack'[u][j])
  BY <1>1, <1>4, <1>5, ElementOfSeq DEF SerialInv, CallsOK, Stacks
<1>7. \A u \in Threads : \A j \in 1..Len(stack'[u]) :
        (Top(t).kind = "cleanup" => stack'[u][j].mi # Top(t).mi)
  <2> SUFFICES ASSUME NEW u \in Threads, NEW j \in 1..Len(stack'[u]), Top(t).kind = "cleanup"
               PROVE  stack'[u][j].mi # Top(t).mi
    OBVIOUS
  <2>1. j \in 1..Len(stack[u]) /\ stack'[u][j] = stack[u][j] /\ stack[u][j].kind = "op"
    BY <1>4, <1>5
  <2>2. stack[t][n].kind = "cleanup" => stack[t][n].mi # stack[u][j].mi
    BY <1>3, <2>1 DEF SerialInv, Alone
  <2> QED
    BY <1>2, <2>1, <2>2
<1>8. CallsOK'
  BY <1>6, <1>7 DEF CallsOK
<1>9. OneAdmin' /\ Alone'
  BY <1>6 DEF OneAdmin, Alone
<1> QED
  BY <1>8, <1>9 DEF SerialInv

LEMMA AdminBegins ==
  ASSUME stack \in Stacks, SerialInv, NEW t \in Threads, Quiescent,
         NEW c \in CallRec, Push(t, c), c.kind # "op", Basic', AdminOK(c)', c.kind = "cleanup" => ~InCall(c.mi),
         \A d \in CallRec : OpOK(d) => OpOK(d)'
  PROVE  SerialInv'
<1> DEFINE n == Len(stack[t]) + 1
<1>1. /\ stack' \in Stacks /\ Len(stack'[t]) = n /\ stack'[t][n] = c
      /\ \A i \in 1..Len(stack[t]) : stack'[t][i] = stack[t][i]
      /\ \A u \in Threads \ {t} : stack'[u] = stack[u]
  BY PushFacts
<1>2. Len(stack[t]) \in Nat /\ n = Len(stack[t]) + 1
  BY LenProperties DEF Stacks
<1> HIDE DEF n
<1>3. n \in 1..n
  BY <1>2
<1>4. \A u \in Threads : \A j \in 1..Len(stack'[u]) : (u = t /\ j = n) \/
        (~(u = t /\ j = n) /\ j \in 1..Len(stack[u]) /\ stack'[u][j] = stack[u][j])
  BY <1>1, <1>2
<1>5. \A u \in Threads : \A j \in 1..Len(stack'[u]) : ~(u = t /\ j = n) =>
        stack'[u][j] \in CallRec /\ stack'[u][j].kind = "op" /\ OpOK(stack'[u][j])
  <2>1. \A u \in Threads : \A j \in 1..Len(stack[u]) : stack[u][j] \in CallRec
    BY ElementOfSeq DEF Stacks
  <2>2. \A u \in Threads : \A j \in 1..Len(stack[u]) :
          stack[u][j].kind = "op" /\ OpOK(stack[u][j])
    BY <2>1 DEF SerialInv, CallsOK, Quiescent
  <2> QED
    BY <1>4, <2>1, <2>2
<1>6. \A u \in Threads : \A j \in 1..Len(stack'[u]) : ~(u = t /\ j = n) =>
        (c.kind = "cleanup" => stack'[u][j].mi # c.mi)
  <2>1. \A u \in Threads : \A j \in 1..Len(stack[u]) : stack[u][j] \in Calls(u)
    BY LenProperties DEF Calls, Range, Stacks
  <2> QED
    BY <1>4, <2>1 DEF InCall
<1>7. CallsOK'
  BY <1>1, <1>5 DEF CallsOK
<1>8. OneAdmin'
  BY <1>5 DEF OneAdmin
<1>9. Alone'
  BY <1>1, <1>5, <1>6 DEF Alone
<1>10. ~Quiescent'
  BY <1>1, <1>3 DEF Quiescent
<1> QED
  BY <1>7, <1>8, <1>9, <1>10 DEF SerialInv

(* The steps of an operation leave what MIs share alone.                   *)
Shared == <<targetInit, miCount, ruby, hdl, roots, held>>

LEMMA SharedKept ==
  ASSUME UNCHANGED Shared
  PROVE  /\ Basic => Basic'
         /\ Settled => Settled'
         /\ \A d \in CallRec : (OpOK(d) => OpOK(d)') /\ (AdminOK(d) => AdminOK(d)')
  BY DEF Shared, Basic, Settled, OpOK, AdminOK, CreateOK, CleanupOK

LEMMA OpBegins ==
  ASSUME stack \in Stacks, SerialInv, NEW t \in Threads, NEW c \in CallRec, Push(t, c),
         c.kind = "op", OpOK(c), UNCHANGED Shared, ~Releasing(c.mi)
  PROVE  SerialInv'
<1> DEFINE n == Len(stack[t]) + 1
<1>1. /\ stack' \in Stacks /\ Len(stack'[t]) = n /\ stack'[t][n] = c
      /\ \A i \in 1..Len(stack[t]) : stack'[t][i] = stack[t][i]
      /\ \A u \in Threads \ {t} : stack'[u] = stack[u]
  BY PushFacts
<1>2. Len(stack[t]) \in Nat /\ n = Len(stack[t]) + 1
  BY LenProperties DEF Stacks
<1> HIDE DEF n
<1>3. n \in 1..n /\ \A i \in 1..Len(stack[t]) : i \in 1..n
  BY <1>2
<1>4. \A u \in Threads : \A j \in 1..Len(stack'[u]) : (u = t /\ j = n /\ stack'[u][j] = c) \/
        (j \in 1..Len(stack[u]) /\ stack'[u][j] = stack[u][j])
  BY <1>1, <1>2
<1>5. \A u \in Threads : \A j \in 1..Len(stack[u]) :
        stack[u][j] \in CallRec /\ (stack[u][j].kind # "op" => stack[u][j].mi # c.mi)
  <2>1. \A u \in Threads : \A j \in 1..Len(stack[u]) : stack[u][j] \in Calls(u)
    BY LenProperties DEF Calls, Range, Stacks
  <2>2. \A u \in Threads : \A j \in 1..Len(stack[u]) : stack[u][j] \in CallRec
    BY ElementOfSeq DEF Stacks
  <2> QED
    BY <2>1, <2>2 DEF Releasing
<1>6. CallsOK'
  <2> SUFFICES ASSUME NEW u \in Threads, NEW j \in 1..Len(stack'[u])
               PROVE  (\/ stack[u][j].kind = "op" /\ OpOK(stack[u][j])
                       \/ stack[u][j].kind # "op" /\ AdminOK(stack[u][j]))'
    BY DEF CallsOK
  <2>1. CASE stack'[u][j] = c
    BY <2>1, SharedKept
  <2>2. CASE j \in 1..Len(stack[u]) /\ stack'[u][j] = stack[u][j]
    <3>1. stack[u][j] \in CallRec
      BY <1>5, <2>2
    <3> QED
      BY <2>2, <3>1, SharedKept DEF CallsOK, SerialInv
  <2> QED
    BY <1>4, <2>1, <2>2
<1>7. OneAdmin'
  <2> SUFFICES ASSUME NEW u \in Threads, NEW v \in Threads, NEW i \in 1..Len(stack'[u]),
                      NEW j \in 1..Len(stack'[v]),
                      stack'[u][i].kind # "op", stack'[v][j].kind # "op"
               PROVE  u = v /\ i = j
    BY DEF OneAdmin
  <2>1. /\ i \in 1..Len(stack[u]) /\ stack'[u][i] = stack[u][i]
        /\ j \in 1..Len(stack[v]) /\ stack'[v][j] = stack[v][j]
    BY <1>4
  <2> QED
    BY <2>1 DEF OneAdmin, SerialInv
<1>8. Alone'
  <2> SUFFICES ASSUME NEW u \in Threads, NEW v \in Threads, NEW i \in 1..Len(stack'[u]),
                      NEW j \in 1..Len(stack'[v]),
                      stack'[u][i].kind = "cleanup", stack'[v][j].kind = "op"
               PROVE  stack'[u][i].mi # stack'[v][j].mi
    BY DEF Alone
  <2>1. i \in 1..Len(stack[u]) /\ stack'[u][i] = stack[u][i]
    BY <1>4
  <2>2. CASE stack'[v][j] = c
    BY <1>5, <2>1, <2>2
  <2>3. CASE j \in 1..Len(stack[v]) /\ stack'[v][j] = stack[v][j]
    BY <2>1, <2>3 DEF Alone, SerialInv
  <2> QED
    BY <1>4, <2>2, <2>3
<1>9. Quiescent' => Quiescent
  <2> SUFFICES ASSUME Quiescent', NEW u \in Threads, NEW j \in 1..Len(stack[u])
               PROVE  stack[u][j].kind = "op"
    BY DEF Quiescent
  <2>1. j \in 1..Len(stack'[u]) /\ stack'[u][j] = stack[u][j]
    BY <1>1, <1>3
  <2> QED
    BY <2>1 DEF Quiescent
<1> QED
  BY <1>6, <1>7, <1>8, <1>9, SharedKept DEF SerialInv

LEMMA OpGoesOn ==
  ASSUME stack \in Stacks, SerialInv, NEW t \in Threads, stack[t] # <<>>, Top(t).kind = "op",
         NEW c \in CallRec, SetTop(t, c), c.kind = "op", c.mi = Top(t).mi, OpOK(c), UNCHANGED Shared
  PROVE  SerialInv'
<1> DEFINE n == Len(stack[t])
<1>1. /\ stack' \in Stacks /\ n \in Nat \ {0} /\ Len(stack'[t]) = n /\ stack'[t][n] = c
      /\ \A i \in 1..n - 1 : stack'[t][i] = stack[t][i]
      /\ \A u \in Threads \ {t} : stack'[u] = stack[u]
  BY SetTopFacts
<1>2. stack[t][n] = Top(t) /\ n = Len(stack[t])
  BY TopFacts
<1> HIDE DEF n
<1>3. \A u \in Threads : Len(stack'[u]) = Len(stack[u])
  BY <1>1, <1>2
<1>4. \A u \in Threads : \A j \in 1..Len(stack[u]) :
        stack'[u][j].kind = stack[u][j].kind /\ stack'[u][j].mi = stack[u][j].mi
  BY <1>1, <1>2
<1>5. \A u \in Threads : \A j \in 1..Len(stack[u]) : stack'[u][j] = stack[u][j] \/ stack'[u][j] = c
  BY <1>1, <1>2
<1>6. \A u \in Threads : \A j \in 1..Len(stack[u]) : stack[u][j] \in CallRec
  BY ElementOfSeq DEF Stacks
<1>7. CallsOK'
  <2> SUFFICES ASSUME NEW u \in Threads, NEW j \in 1..Len(stack'[u])
               PROVE  (\/ stack[u][j].kind = "op" /\ OpOK(stack[u][j])
                       \/ stack[u][j].kind # "op" /\ AdminOK(stack[u][j]))'
    BY DEF CallsOK
  <2>1. j \in 1..Len(stack[u])
    BY <1>3
  <2>2. CASE stack'[u][j] = c
    BY <2>2, SharedKept
  <2>3. CASE stack'[u][j] = stack[u][j]
    <3>1. stack[u][j] \in CallRec
      BY <1>6, <2>1
    <3> QED
      BY <2>1, <2>3, <3>1, SharedKept DEF CallsOK, SerialInv
  <2> QED
    BY <1>5, <2>1, <2>2, <2>3
<1>8. OneAdmin' /\ Alone'
  <2>1. OneAdmin'
    <3> SUFFICES ASSUME NEW u \in Threads, NEW v \in Threads, NEW i \in 1..Len(stack'[u]),
                        NEW j \in 1..Len(stack'[v]),
                        stack'[u][i].kind # "op", stack'[v][j].kind # "op"
                 PROVE  u = v /\ i = j
      BY DEF OneAdmin
    <3>1. /\ i \in 1..Len(stack[u]) /\ stack'[u][i].kind = stack[u][i].kind /\ stack'[u][i].mi = stack[u][i].mi
          /\ j \in 1..Len(stack[v]) /\ stack'[v][j].kind = stack[v][j].kind /\ stack'[v][j].mi = stack[v][j].mi
      BY <1>3, <1>4
    <3> QED
      BY <3>1 DEF OneAdmin, SerialInv
  <2>2. Alone'
    <3> SUFFICES ASSUME NEW u \in Threads, NEW v \in Threads, NEW i \in 1..Len(stack'[u]),
                        NEW j \in 1..Len(stack'[v]),
                        stack'[u][i].kind = "cleanup", stack'[v][j].kind = "op"
                 PROVE  stack'[u][i].mi # stack'[v][j].mi
      BY DEF Alone
    <3>1. /\ i \in 1..Len(stack[u]) /\ stack'[u][i].kind = stack[u][i].kind /\ stack'[u][i].mi = stack[u][i].mi
          /\ j \in 1..Len(stack[v]) /\ stack'[v][j].kind = stack[v][j].kind /\ stack'[v][j].mi = stack[v][j].mi
      BY <1>3, <1>4
    <3> QED
      BY <3>1 DEF Alone, SerialInv
  <2> QED
    BY <2>1, <2>2
<1>9. Quiescent' => Quiescent
  BY <1>3, <1>4 DEF Quiescent
<1> QED
  BY <1>7, <1>8, <1>9, SharedKept DEF SerialInv

LEMMA OpReturns ==
  ASSUME stack \in Stacks, SerialInv, NEW t \in Threads, stack[t] # <<>>, Top(t).kind = "op",
         Return(t), UNCHANGED Shared
  PROVE  SerialInv'
<1> DEFINE n == Len(stack[t])
<1>1. /\ stack' \in Stacks /\ n \in Nat \ {0} /\ Len(stack'[t]) = n - 1
      /\ \A i \in 1..n - 1 : stack'[t][i] = stack[t][i]
      /\ \A u \in Threads \ {t} : stack'[u] = stack[u]
  BY ReturnFacts
<1>2. stack[t][n] = Top(t) /\ n = Len(stack[t])
  BY TopFacts
<1> HIDE DEF n
<1>3. \A u \in Threads : \A j \in 1..Len(stack'[u]) : j \in 1..Len(stack[u]) /\ stack'[u][j] = stack[u][j]
  BY <1>1, <1>2
<1>4. \A u \in Threads : \A j \in 1..Len(stack[u]) : (u = t /\ j = n) \/ j \in 1..Len(stack'[u])
  BY <1>1, <1>2
<1>5. \A u \in Threads : \A j \in 1..Len(stack[u]) : stack[u][j] \in CallRec
  BY ElementOfSeq DEF Stacks
<1>6. CallsOK'
  BY <1>3, <1>5, SharedKept DEF CallsOK, SerialInv
<1>7. OneAdmin' /\ Alone'
  <2>1. OneAdmin'
    <3> SUFFICES ASSUME NEW u \in Threads, NEW v \in Threads, NEW i \in 1..Len(stack'[u]),
                        NEW j \in 1..Len(stack'[v]),
                        stack'[u][i].kind # "op", stack'[v][j].kind # "op"
                 PROVE  u = v /\ i = j
      BY DEF OneAdmin
    <3>1. /\ i \in 1..Len(stack[u]) /\ stack'[u][i].kind = stack[u][i].kind /\ stack'[u][i].mi = stack[u][i].mi
          /\ j \in 1..Len(stack[v]) /\ stack'[v][j].kind = stack[v][j].kind /\ stack'[v][j].mi = stack[v][j].mi
      BY <1>3
    <3> QED
      BY <3>1 DEF OneAdmin, SerialInv
  <2>2. Alone'
    <3> SUFFICES ASSUME NEW u \in Threads, NEW v \in Threads, NEW i \in 1..Len(stack'[u]),
                        NEW j \in 1..Len(stack'[v]),
                        stack'[u][i].kind = "cleanup", stack'[v][j].kind = "op"
                 PROVE  stack'[u][i].mi # stack'[v][j].mi
      BY DEF Alone
    <3>1. /\ i \in 1..Len(stack[u]) /\ stack'[u][i].kind = stack[u][i].kind /\ stack'[u][i].mi = stack[u][i].mi
          /\ j \in 1..Len(stack[v]) /\ stack'[v][j].kind = stack[v][j].kind /\ stack'[v][j].mi = stack[v][j].mi
      BY <1>3
    <3> QED
      BY <3>1 DEF Alone, SerialInv
  <2> QED
    BY <2>1, <2>2
<1>8. Quiescent' => Quiescent
  <2> SUFFICES ASSUME Quiescent', NEW u \in Threads, NEW j \in 1..Len(stack[u])
               PROVE  stack[u][j].kind = "op"
    BY DEF Quiescent
  <2>1. CASE u = t /\ j = n
    BY <1>2, <2>1
  <2>2. CASE j \in 1..Len(stack'[u])
    BY <1>3, <2>2 DEF Quiescent
  <2> QED
    BY <1>4, <2>1, <2>2
<1> QED
  BY <1>6, <1>7, <1>8, SharedKept DEF SerialInv

LEMMA TopOK ==
  ASSUME stack \in Stacks, SerialInv, NEW t \in Threads, stack[t] # <<>>
  PROVE  /\ Top(t) \in CallRec
         /\ (Top(t).kind = "op" /\ OpOK(Top(t))) \/ (Top(t).kind # "op" /\ AdminOK(Top(t)))
<1>1. Len(stack[t]) \in Nat \ {0} /\ Top(t) = stack[t][Len(stack[t])] /\ Top(t) \in CallRec
  BY TopFacts
<1>2. Len(stack[t]) \in 1..Len(stack[t])
  BY <1>1
<1> QED
  BY <1>1, <1>2 DEF SerialInv, CallsOK

LEMMA AtAll ==
  /\ "lock" \in At /\ "global" \in At /\ "enter" \in At /\ "ruby" \in At /\ "fail" \in At
  /\ "count" \in At /\ "count1" \in At /\ "unregister" \in At /\ "unlock" \in At
  /\ "uncount" \in At /\ "uncount1" \in At /\ "final" \in At /\ "free" \in At
  BY DEF At

LEMMA Entered ==
  ASSUME NEW t \in Threads, NEW c \in CallRec, c = Top(t), EnterRuby(t)
  PROVE  \E d \in CallRec : SetTop(t, d) /\ d.at = "ruby" /\ d.kind = c.kind /\ d.mi = c.mi
<1> DEFINE e == [c EXCEPT !.at = "ruby", !.lock = TRUE]
           f == [c EXCEPT !.at = "ruby"]
<1>1. /\ e \in CallRec /\ e.at = "ruby" /\ e.kind = c.kind /\ e.mi = c.mi
      /\ f \in CallRec /\ f.at = "ruby" /\ f.kind = c.kind /\ f.mi = c.mi
  BY AtAll DEF CallRec
<1>2. SetTop(t, e) \/ SetTop(t, f)
  BY DEF EnterRuby, Goto
<1> HIDE DEF e, f
<1> QED
  BY <1>1, <1>2

(* The actions of the call that creates an MI.                             *)
LEMMA CreateSteps ==
  ASSUME TypeOK, SerialInv, NEW t \in Threads, stack[t] # <<>>, Top(t).kind = "create",
         \/ InitLock(t) \/ GlobalInitialize(t) \/ EnterRuby(t) \/ CreateDone(t)
         \/ CountRead(t) \/ CountWrite(t) \/ CreateFail(t)
  PROVE  SerialInv'
<1>0. stack \in Stacks /\ Top(t) \in CallRec /\ CreateOK(Top(t))
  BY Types, TopOK DEF AdminOK
<1> PICK c \in CallRec : c = Top(t)
  BY <1>0
<1> PICK m \in MIs : m = c.mi
  BY DEF CallRec
<1>1. c \in CallRec /\ CreateOK(c) /\ c = Top(t) /\ stack \in Stacks /\ m \in MIs /\ c.kind = "create"
      /\ m = c.mi
  BY <1>0
<1>2. \A a : IsAt(t, a) => c.at = a
  BY <1>1 DEF IsAt
<1>3. Basic /\ Settled /\ m \notin held /\ hdl \in [MIs -> {"none", "null", "live"}] /\ miCount \in Int
      /\ held \subseteq MIs /\ roots \subseteq MIs
  BY <1>1 DEF SerialInv, CreateOK, TypeOK
<1>4. ASSUME NEW a \in At, Goto(t, a), UNCHANGED Shared,
             a \in {"lock", "global", "fail", "enter", "ruby"}, c.at \in {"lock", "global", "fail", "enter", "ruby"},
             a \in {"enter", "ruby"} => ruby = "up"
      PROVE  SerialInv'
  <2> DEFINE e == [c EXCEPT !.at = a]
  <2>1a. e \in CallRec /\ e.at = a /\ e.kind = "create" /\ e.mi = m
    BY <1>1, <1>3, AtAll DEF CallRec
  <2> PICK d \in CallRec : d = e
    BY <2>1a
  <2>1. d \in CallRec /\ d.at = a /\ d.kind = "create" /\ d.mi = m
    BY <2>1a
  <2>2. SetTop(t, d)
    BY <1>1, <1>4 DEF Goto
  <2>3. Basic' /\ Settled' /\ \A x \in CallRec : OpOK(x) => OpOK(x)'
    BY <1>3, <1>4, SharedKept
  <2>4. CreateOK(d)'
    BY <1>1, <1>4, <2>1, <2>3 DEF CreateOK, Shared
  <2>5. AdminOK(d)'
    BY <2>1, <2>4 DEF AdminOK
  <2> QED
    BY <1>1, <2>1, <2>2, <2>3, <2>5, AdminGoesOn
<1>5. CASE InitLock(t)
  BY <1>2, <1>4, <1>5 DEF InitLock, At, Shared, mi
<1>6. CASE GlobalInitialize(t)
  <2>1. c.at = "global" /\ UNCHANGED <<miCount, hdl, roots, held>> /\ targetInit' = 1 /\ ruby' = "up"
    BY <1>2, <1>3, <1>6 DEF GlobalInitialize, mi, Basic, TypeOK
  <2>2. PICK a \in At : a \in {"enter", "fail"} /\ Goto(t, a)
    BY <1>6, AtAll DEF GlobalInitialize
  <2> DEFINE e == [c EXCEPT !.at = a]
  <2>3a. e \in CallRec /\ e.at = a /\ e.kind = "create" /\ e.mi = m
    BY <1>1, <1>3, AtAll DEF CallRec
  <2> PICK d \in CallRec : d = e
    BY <2>3a
  <2>3. d \in CallRec /\ d.at = a /\ d.kind = "create" /\ d.mi = m
    BY <2>3a
  <2>4. SetTop(t, d)
    BY <1>1, <2>2 DEF Goto
  <2>5. Basic' /\ Settled' /\ \A x \in CallRec : OpOK(x) => OpOK(x)'
    BY <1>3, <2>1 DEF Basic, Settled, OpOK
  <2>6. CreateOK(d)'
    BY <1>1, <2>1, <2>2, <2>3, <2>5 DEF CreateOK
  <2>7. AdminOK(d)'
    BY <2>3, <2>6 DEF AdminOK
  <2> QED
    BY <1>1, <2>3, <2>4, <2>5, <2>7, AdminGoesOn
<1>7. CASE EnterRuby(t)
  <2>1. c.at = "enter" /\ UNCHANGED Shared /\ ruby = "up"
    BY <1>1, <1>2, <1>7 DEF EnterRuby, mi, Shared, CreateOK
  <2>2. PICK d \in CallRec : SetTop(t, d) /\ d.at = "ruby" /\ d.kind = "create" /\ d.mi = m
    BY <1>1, <1>7, Entered
  <2>3. Basic' /\ Settled' /\ \A x \in CallRec : OpOK(x) => OpOK(x)'
    BY <1>3, <2>1, SharedKept
  <2>4. CreateOK(d)'
    BY <1>1, <2>1, <2>2, <2>3 DEF CreateOK, Shared
  <2>5. AdminOK(d)'
    BY <2>2, <2>4 DEF AdminOK
  <2> QED
    BY <1>1, <2>2, <2>3, <2>5, AdminGoesOn
<1>8. CASE CreateDone(t)
  <2>1. c.at = "ruby" /\ UNCHANGED <<targetInit, miCount, ruby, held>> /\ ruby = "up" /\ hdl[m] = "null" /\ m \notin roots
    BY <1>1, <1>2, <1>8 DEF CreateDone, LeaveRuby, CreateOK
  <2>2. PICK a \in At :
          /\ a \in {"count", "fail"}
          /\ SetTop(t, [c EXCEPT !.at = a, !.lock = FALSE])
          /\ a = "count" => hdl' = [hdl EXCEPT ![m] = "live"] /\ roots' = roots \cup {m}
          /\ a = "fail" => UNCHANGED <<hdl, roots>>
    BY <1>1, <1>8, AtAll DEF CreateDone
  <2> DEFINE e == [c EXCEPT !.at = a, !.lock = FALSE]
  <2>3a. e \in CallRec /\ e.at = a /\ e.kind = "create" /\ e.mi = m
    BY <1>1, <1>3, AtAll DEF CallRec
  <2> PICK d \in CallRec : d = e
    BY <2>3a
  <2>3. d \in CallRec /\ d.at = a /\ d.kind = "create" /\ d.mi = m
    BY <2>3a
  <2>4. SetTop(t, d)
    BY <2>2
  <2>5. Basic' /\ Settled' /\ \A x \in CallRec : OpOK(x) => OpOK(x)'
    BY <1>1, <1>3, <2>1, <2>2 DEF Basic, Settled, OpOK
  <2>6. CreateOK(d)'
    BY <1>1, <1>3, <2>1, <2>2, <2>3, <2>5 DEF CreateOK
  <2>7. AdminOK(d)'
    BY <2>3, <2>6 DEF AdminOK
  <2> QED
    BY <1>1, <2>3, <2>4, <2>5, <2>7, AdminGoesOn
<1>9. CASE CountRead(t)
  <2>1. c.at = "count" /\ UNCHANGED Shared /\ ruby = "up"
    BY <1>1, <1>2, <1>9 DEF CountRead, lib, mi, Shared, CreateOK
  <2> DEFINE e == [c EXCEPT !.at = "count1", !.tmp = miCount]
  <2>2a. e \in CallRec /\ e.at = "count1" /\ e.kind = "create" /\ e.mi = m /\ e.tmp = miCount
    BY <1>1, <1>3, AtAll DEF CallRec
  <2> PICK d \in CallRec : d = e
    BY <2>2a
  <2>2. d \in CallRec /\ d.at = "count1" /\ d.kind = "create" /\ d.mi = m /\ d.tmp = miCount
    BY <2>2a
  <2>3. SetTop(t, d)
    BY <1>1, <1>9 DEF CountRead
  <2>4. Basic' /\ Settled' /\ \A x \in CallRec : OpOK(x) => OpOK(x)'
    BY <1>3, <2>1, SharedKept
  <2>5. CreateOK(d)'
    BY <1>1, <2>1, <2>2, <2>4 DEF CreateOK, Shared
  <2>6. AdminOK(d)'
    BY <2>2, <2>5 DEF AdminOK
  <2> QED
    BY <1>1, <2>2, <2>3, <2>4, <2>6, AdminGoesOn
<1>10. CASE CountWrite(t)
  <2>1. c.at = "count1" /\ Return(t) /\ UNCHANGED <<targetInit, ruby, hdl, roots>>
        /\ held' = held \cup {m} /\ miCount' = c.tmp + 1
    BY <1>1, <1>2, <1>10 DEF CountWrite
  <2>2. hdl[m] = "live" /\ m \in roots /\ ruby = "up" /\ c.tmp = miCount
    BY <1>1, <2>1 DEF CreateOK
  <2>3. IsFiniteSet(held) /\ m \notin held
    BY <1>3 DEF Basic
  <2>4. IsFiniteSet(held') /\ Cardinality(held') = Cardinality(held) + 1
    BY <2>1, <2>3, FS_AddElement
  <2>5. Basic'
    BY <1>3, <2>1, <2>2, <2>4 DEF Basic
  <2>6. Settled'
    BY <1>3, <2>1, <2>2, <2>4 DEF Settled
  <2>7. \A x \in CallRec : OpOK(x) => OpOK(x)'
    BY <2>1 DEF OpOK
  <2> QED
    BY <1>1, <2>1, <2>5, <2>6, <2>7, AdminReturns
<1>11. CASE CreateFail(t)
  <2>1. c.at = "fail" /\ Return(t) /\ UNCHANGED <<targetInit, miCount, ruby, roots, held>>
        /\ hdl' = [hdl EXCEPT ![m] = "none"]
    BY <1>1, <1>2, <1>11 DEF CreateFail, lib
  <2>2. m \notin roots
    BY <1>1, <2>1 DEF CreateOK
  <2>3. Basic' /\ Settled' /\ \A x \in CallRec : OpOK(x) => OpOK(x)'
    BY <1>1, <1>3, <2>1, <2>2 DEF Basic, Settled, OpOK
  <2> QED
    BY <1>1, <2>1, <2>3, AdminReturns
<1> QED
  BY <1>5, <1>6, <1>7, <1>8, <1>9, <1>10, <1>11

(* The actions of the call that releases an MI.                            *)
LEMMA CleanupSteps ==
  ASSUME TypeOK, SerialInv, NEW t \in Threads, stack[t] # <<>>, Top(t).kind = "cleanup",
         \/ EnterRuby(t) \/ CleanupDone(t) \/ Unregister(t) \/ CleanupLock(t)
         \/ UncountRead(t) \/ UncountWrite(t) \/ Finalize(t) \/ CleanupReturn(t)
  PROVE  SerialInv'
<1>0. stack \in Stacks /\ Top(t) \in CallRec /\ CleanupOK(Top(t))
  BY Types, TopOK DEF AdminOK
<1> PICK c \in CallRec : c = Top(t)
  BY <1>0
<1> PICK m \in MIs : m = c.mi
  BY DEF CallRec
<1>1. c \in CallRec /\ CleanupOK(c) /\ c = Top(t) /\ stack \in Stacks /\ m \in MIs /\ c.kind = "cleanup"
      /\ m = c.mi
  BY <1>0
<1>2. \A a : IsAt(t, a) => c.at = a
  BY <1>1 DEF IsAt
<1>3. Basic /\ m \in held /\ hdl \in [MIs -> {"none", "null", "live"}] /\ miCount \in Int
      /\ held \subseteq MIs /\ roots \subseteq MIs /\ IsFiniteSet(held) /\ Cardinality(held) \in Nat
  BY <1>1, FS_CardinalityType DEF SerialInv, CleanupOK, TypeOK, Basic
<1>4. ASSUME NEW d \in CallRec, SetTop(t, d), d.kind = "cleanup", d.mi = m, Basic', CleanupOK(d)',
             UNCHANGED <<ruby, held>>
      PROVE  SerialInv'
  <2>1. AdminOK(d)'
    BY <1>4 DEF AdminOK
  <2>2. \A x \in CallRec : OpOK(x) => OpOK(x)'
    BY <1>4 DEF OpOK
  <2> QED
    BY <1>1, <1>4, <2>1, <2>2, AdminGoesOn
<1>5. CASE EnterRuby(t)
  <2>1. c.at = "enter" /\ UNCHANGED Shared
    BY <1>2, <1>5 DEF EnterRuby, mi, Shared
  <2>2. PICK d \in CallRec : SetTop(t, d) /\ d.at = "ruby" /\ d.kind = "cleanup" /\ d.mi = m
    BY <1>1, <1>5, Entered
  <2>3. Basic' /\ CleanupOK(d)'
    BY <1>1, <1>3, <2>1, <2>2 DEF CleanupOK, Basic, Shared
  <2> QED
    BY <1>4, <2>1, <2>2, <2>3 DEF Shared
<1>6. CASE CleanupDone(t)
  <2>1. c.at = "ruby" /\ UNCHANGED Shared
    BY <1>2, <1>6 DEF CleanupDone, LeaveRuby, mi, Shared
  <2>2. Basic'
    BY <1>3, <2>1, SharedKept
  <2>3. CASE Return(t)
    <3>1. Settled'
      BY <1>1, <1>3, <2>1 DEF CleanupOK, Settled, Shared
    <3>2. \A x \in CallRec : OpOK(x) => OpOK(x)'
      BY <2>1, SharedKept
    <3> QED
      BY <1>1, <2>2, <2>3, <3>1, <3>2, AdminReturns
  <2>4. CASE SetTop(t, [c EXCEPT !.at = "unregister", !.lock = FALSE])
    <3> DEFINE e == [c EXCEPT !.at = "unregister", !.lock = FALSE]
    <3>1. e \in CallRec /\ e.at = "unregister" /\ e.kind = "cleanup" /\ e.mi = m
      BY <1>1, AtAll DEF CallRec
    <3> PICK d \in CallRec : d = e
      BY <3>1
    <3>2. d.at = "unregister" /\ d.kind = "cleanup" /\ d.mi = m
      BY <3>1
    <3>3. SetTop(t, d)
      BY <2>4
    <3>4. CleanupOK(d)'
      BY <1>1, <2>1, <3>2 DEF CleanupOK, Shared
    <3> QED
      BY <1>4, <2>1, <2>2, <3>2, <3>3, <3>4 DEF Shared
  <2> QED
    BY <1>1, <1>6, <2>3, <2>4 DEF CleanupDone
<1>7. ASSUME NEW a \in At, Goto(t, a)
      PROVE  \E d \in CallRec : SetTop(t, d) /\ d.at = a /\ d.kind = "cleanup" /\ d.mi = m /\ d.tmp = c.tmp
  <2> DEFINE e == [c EXCEPT !.at = a]
  <2>1. e \in CallRec /\ e.at = a /\ e.kind = "cleanup" /\ e.mi = m /\ e.tmp = c.tmp
    BY <1>1 DEF CallRec
  <2>2. SetTop(t, e)
    BY <1>1, <1>7 DEF Goto
  <2> HIDE DEF e
  <2> QED
    BY <2>1, <2>2
<1>8. CASE Unregister(t)
  <2>1. c.at = "unregister" /\ roots' = roots \ {m} /\ UNCHANGED <<targetInit, miCount, ruby, hdl, held>>
        /\ Goto(t, "unlock")
    BY <1>1, <1>2, <1>8 DEF Unregister, lib
  <2>2. PICK d \in CallRec : SetTop(t, d) /\ d.at = "unlock" /\ d.kind = "cleanup" /\ d.mi = m
    BY <1>7, <2>1, AtAll
  <2>3. Basic'
    BY <1>3, <2>1 DEF Basic
  <2>4. CleanupOK(d)'
    BY <1>1, <2>1, <2>2 DEF CleanupOK
  <2> QED
    BY <1>4, <2>1, <2>2, <2>3, <2>4
<1>9. CASE CleanupLock(t)
  <2>1. c.at = "unlock" /\ UNCHANGED Shared /\ Goto(t, "uncount")
    BY <1>2, <1>9 DEF CleanupLock, mi, Shared
  <2>2. PICK d \in CallRec : SetTop(t, d) /\ d.at = "uncount" /\ d.kind = "cleanup" /\ d.mi = m
    BY <1>7, <2>1, AtAll
  <2>3. Basic' /\ CleanupOK(d)'
    BY <1>1, <1>3, <2>1, <2>2 DEF CleanupOK, Basic, Shared
  <2> QED
    BY <1>4, <2>1, <2>2, <2>3 DEF Shared
<1>10. CASE UncountRead(t)
  <2>1. c.at = "uncount" /\ UNCHANGED Shared /\ SetTop(t, [c EXCEPT !.at = "uncount1", !.tmp = miCount])
    BY <1>1, <1>2, <1>10 DEF UncountRead, lib, mi, Shared
  <2> DEFINE e == [c EXCEPT !.at = "uncount1", !.tmp = miCount]
  <2>2. e \in CallRec /\ e.at = "uncount1" /\ e.kind = "cleanup" /\ e.mi = m /\ e.tmp = miCount
    BY <1>1, <1>3, AtAll DEF CallRec
  <2> PICK d \in CallRec : d = e
    BY <2>2
  <2>3. d.at = "uncount1" /\ d.kind = "cleanup" /\ d.mi = m /\ d.tmp = miCount /\ SetTop(t, d)
    BY <2>1, <2>2
  <2>4. Basic' /\ CleanupOK(d)'
    BY <1>1, <1>3, <2>1, <2>3 DEF CleanupOK, Basic, Shared
  <2> QED
    BY <1>4, <2>1, <2>3, <2>4 DEF Shared
<1>11. CASE UncountWrite(t)
  <2>1. c.at = "uncount1" /\ UNCHANGED <<targetInit, ruby, hdl, roots, held>> /\ miCount' = c.tmp - 1
    BY <1>1, <1>2, <1>11 DEF UncountWrite, mi
  <2>2. c.tmp = miCount /\ miCount = Cardinality(held) /\ ruby = "up" /\ m \notin roots
    BY <1>1, <1>3, <2>1 DEF CleanupOK
  <2>3. miCount' = Cardinality(held) - 1
    BY <2>1, <2>2
  <2>4. ~(miCount' > 0) => held = {m}
    <3>1. IsFiniteSet(held \ {m}) /\ Cardinality(held \ {m}) = Cardinality(held) - 1
      BY <1>3, FS_RemoveElement
    <3>2. Cardinality(held \ {m}) \in Nat
      BY <3>1, FS_CardinalityType
    <3>3. ~(miCount' > 0) => Cardinality(held \ {m}) = 0
      <4>1. miCount' = Cardinality(held \ {m})
        BY <2>3, <3>1
      <4> QED
        BY <3>2, <4>1
    <3>4. ~(miCount' > 0) => held \ {m} = {}
      BY <3>1, <3>3, FS_EmptySet
    <3> QED
      BY <1>3, <3>4
  <2>5. PICK d \in CallRec :
          /\ SetTop(t, d) /\ d.at \in {"free", "final"} /\ d.kind = "cleanup" /\ d.mi = m
          /\ d.at = "final" => held = {m}
    <3>1. Goto(t, "free") \/ (Goto(t, "final") /\ ~(miCount' > 0))
      BY <1>11 DEF UncountWrite
    <3> QED
      BY <1>7, <2>4, <3>1, AtAll
  <2>6. Basic'
    BY <1>3, <2>1 DEF Basic
  <2>7. \A k \in held \ {m} : k \in roots /\ ruby = "up"
    BY <1>1 DEF CleanupOK
  <2>8. miCount' = Cardinality(held') - 1 /\ held' = held /\ roots' = roots /\ ruby' = "up"
    BY <2>1, <2>2, <2>3
  <2>9. CleanupOK(d)'
    BY <1>3, <2>2, <2>5, <2>7, <2>8 DEF CleanupOK
  <2> QED
    BY <1>4, <2>1, <2>5, <2>6, <2>9
<1>12. CASE Finalize(t)
  <2>1. c.at = "final" /\ UNCHANGED <<miCount, hdl, roots, held>> /\ targetInit' = 0 /\ ruby' = "down"
        /\ Goto(t, "free")
    BY <1>1, <1>2, <1>3, <1>12 DEF Finalize, mi, Basic, CleanupOK
  <2>2. PICK d \in CallRec : SetTop(t, d) /\ d.at = "free" /\ d.kind = "cleanup" /\ d.mi = m
    BY <1>7, <2>1, AtAll
  <2>3. held = {m}
    BY <1>1, <2>1 DEF CleanupOK
  <2>4. Basic'
    BY <1>3, <2>1 DEF Basic
  <2>5. CleanupOK(d)'
    BY <1>1, <2>1, <2>2, <2>3 DEF CleanupOK
  <2>6. AdminOK(d)'
    BY <2>2, <2>5 DEF AdminOK
  <2>7. \A x \in CallRec : OpOK(x) /\ (d.kind = "cleanup" => x.mi # d.mi) => OpOK(x)'
    BY <2>2, <2>3 DEF OpOK
  <2> QED
    BY <1>1, <2>2, <2>4, <2>6, <2>7, AdminGoesOn
<1>13. CASE CleanupReturn(t)
  <2>1. c.at = "free" /\ Return(t) /\ UNCHANGED <<targetInit, miCount, ruby, roots>>
        /\ hdl' = [hdl EXCEPT ![m] = "none"] /\ held' = held \ {m}
    BY <1>1, <1>2, <1>13 DEF CleanupReturn, lib
  <2>2. m \notin roots /\ miCount = Cardinality(held) - 1 /\ \A k \in held \ {m} : k \in roots /\ ruby = "up"
    BY <1>1, <2>1 DEF CleanupOK
  <2>3. IsFiniteSet(held') /\ Cardinality(held') = Cardinality(held) - 1
    BY <1>3, <2>1, FS_RemoveElement
  <2>4. Basic'
    BY <1>1, <1>3, <2>1, <2>2, <2>3 DEF Basic
  <2>5. Settled'
    BY <2>1, <2>2, <2>3 DEF Settled
  <2>6. \A x \in CallRec : OpOK(x) /\ (c.kind = "cleanup" => x.mi # c.mi) => OpOK(x)'
    BY <1>1, <2>1 DEF OpOK
  <2> QED
    BY <1>1, <2>1, <2>4, <2>5, <2>6, AdminReturns
<1> QED
  BY <1>5, <1>6, <1>8, <1>9, <1>10, <1>11, <1>12, <1>13

LEMMA OpSteps ==
  ASSUME TypeOK, SerialInv, NEW t \in Threads, stack[t] # <<>>, Top(t).kind = "op",
         EnterRuby(t) \/ OpDone(t) \/ Unwind(t)
  PROVE  SerialInv'
<1>1. stack \in Stacks /\ Top(t) \in CallRec /\ OpOK(Top(t))
  BY Types, TopOK
<1>2. CASE EnterRuby(t)
  <2> PICK c \in CallRec : c = Top(t)
    BY <1>1
  <2>1. PICK d \in CallRec : SetTop(t, d) /\ d.at = "ruby" /\ d.kind = c.kind /\ d.mi = c.mi
    BY <1>2, Entered
  <2>2. OpOK(d) /\ UNCHANGED Shared
    BY <1>1, <1>2, <2>1 DEF OpOK, EnterRuby, Shared, mi
  <2> QED
    BY <1>1, <2>1, <2>2, OpGoesOn
<1>3. CASE OpDone(t)
  <2>1. Return(t) /\ UNCHANGED Shared
    BY <1>3 DEF OpDone, Shared, mi
  <2> QED
    BY <1>1, <2>1, OpReturns
<1>4. CASE Unwind(t)
  <2>1. Return(t) /\ UNCHANGED Shared
    BY <1>4 DEF Unwind, Shared, lib
  <2> QED
    BY <1>1, <2>1, OpReturns
<1> QED
  BY <1>2, <1>3, <1>4

(* A factory that is unwound leaves no trace but the handle it loses.      *)
LEMMA UnwindCreate ==
  ASSUME TypeOK, SerialInv, NEW t \in Threads, stack[t] # <<>>, Top(t).kind = "create", Unwind(t)
  PROVE  SerialInv'
<1>1. stack \in Stacks /\ Top(t) \in CallRec /\ CreateOK(Top(t)) /\ Top(t).at = "ruby"
  BY Types, TopOK DEF AdminOK, Unwind, IsAt
<1>2. Top(t).mi \notin held \cup roots /\ Settled /\ Basic
  BY <1>1 DEF CreateOK, SerialInv
<1>3. /\ Return(t) /\ UNCHANGED <<targetInit, miCount, ruby, roots, held>>
      /\ \A m \in MIs \ {Top(t).mi} : hdl'[m] = hdl[m]
  BY DEF Unwind, lib, TypeOK
<1>4. Basic' /\ Settled'
  BY <1>2, <1>3 DEF Basic, Settled, TypeOK
<1>5. \A d \in CallRec : OpOK(d) => OpOK(d)'
  BY <1>3 DEF OpOK
<1> QED
  BY <1>1, <1>3, <1>4, <1>5, AdminReturns

LEMMA SerialInit == Init => SerialInv
<1> SUFFICES ASSUME Init PROVE SerialInv
  OBVIOUS
<1>1. \A t \in Threads : Len(stack[t]) = 0 /\ 1..Len(stack[t]) = {}
  BY DEF Init
<1>2. IsFiniteSet(held) /\ Cardinality(held) = 0 /\ held = {} /\ roots = {} /\ miCount = 0
      /\ targetInit = 0 /\ ruby = "down"
  BY FS_EmptySet DEF Init
<1>3. Basic /\ Settled
  BY <1>2 DEF Basic, Settled
<1>4. CallsOK /\ OneAdmin /\ Alone
  BY <1>1 DEF CallsOK, OneAdmin, Alone
<1> QED
  BY <1>3, <1>4 DEF SerialInv

LEMMA SerialStep ==
  ASSUME SerialAdmin, TypeOK, SerialInv, NEW t \in Threads, Step(t)
  PROVE  SerialInv'
<1>0. stack \in Stacks
  BY Types
<1>1. \A a : IsAt(t, a) => stack[t] # <<>> /\ Top(t).at = a
  BY DEF IsAt
<1>2. \A u \in Threads : \A i \in 1..Len(stack[u]) : stack[u][i] \in Calls(u)
  BY <1>0, LenProperties DEF Calls, Range, Stacks
<1>3. MayAdmin => Quiescent
  BY <1>2 DEF MayAdmin, Quiescent
<1>4. ASSUME NEW m \in MIs, CreateCall(t, m) PROVE SerialInv'
  <2>1. PICK c \in CallRec : c = Call(m, "create", "lock", FALSE)
    BY NewCallType, AtAll DEF Kind
  <2>2. c.kind = "create" /\ c.at = "lock" /\ c.mi = m
    BY <2>1 DEF Call
  <2>3. Push(t, c) /\ Quiescent /\ hdl[m] = "none" /\ hdl' = [hdl EXCEPT ![m] = "null"]
        /\ UNCHANGED <<targetInit, miCount, ruby, roots, held>>
    BY <1>3, <1>4, <2>1 DEF CreateCall, lib
  <2>4. Basic /\ Settled /\ hdl \in [MIs -> {"none", "null", "live"}] /\ roots \subseteq MIs /\ held \subseteq MIs
    BY <2>3 DEF SerialInv, TypeOK
  <2>5. m \notin held /\ m \notin roots
    BY <2>3, <2>4 DEF Basic
  <2>6. Basic' /\ Settled' /\ \A x \in CallRec : OpOK(x) => OpOK(x)'
    BY <2>3, <2>4, <2>5 DEF Basic, Settled, OpOK
  <2>7. AdminOK(c)'
    BY <2>2, <2>3, <2>4, <2>5, <2>6 DEF AdminOK, CreateOK
  <2> QED
    BY <1>0, <2>2, <2>3, <2>6, <2>7, AdminBegins
<1>5. ASSUME NEW m \in MIs, OpCall(t, m) PROVE SerialInv'
  <2>1. PICK c \in CallRec : c = Call(m, "op", "enter", FALSE)
    BY NewCallType, AtAll DEF Kind
  <2>2. c.kind = "op" /\ c.at = "enter" /\ c.mi = m
    BY <2>1 DEF Call
  <2>3. Push(t, c) /\ m \in held /\ ~Releasing(m) /\ UNCHANGED Shared
    BY <1>5, <2>1 DEF OpCall, Shared, lib, mi
  <2>4. ruby = "up"
    <3>1. CASE Quiescent
      BY <2>3, <3>1 DEF SerialInv, Settled
    <3>2. CASE ~Quiescent
      <4>1. PICK u \in Threads : \E i \in 1..Len(stack[u]) : stack[u][i].kind # "op"
        BY <3>2 DEF Quiescent
      <4>1a. PICK i \in 1..Len(stack[u]) : stack[u][i].kind # "op"
        BY <4>1
      <4>2. AdminOK(stack[u][i]) /\ stack[u][i].mi # m
        BY <1>2, <2>3, <4>1a DEF SerialInv, CallsOK, Releasing
      <4> QED
        BY <2>3, <4>2 DEF AdminOK, CreateOK, CleanupOK, Settled
    <3> QED
      BY <3>1, <3>2
  <2>5. OpOK(c)
    BY <2>2, <2>3, <2>4 DEF OpOK
  <2> QED
    BY <1>0, <2>2, <2>3, <2>5, OpBegins
<1>6. ASSUME NEW m \in MIs, NEW b \in BOOLEAN, CleanupCall(t, m, b) PROVE SerialInv'
  <2>1. PICK c \in CallRec : c = Call(m, "cleanup", "enter", b)
    BY NewCallType, AtAll DEF Kind
  <2>2. c.kind = "cleanup" /\ c.at = "enter" /\ c.mi = m
    BY <2>1 DEF Call
  <2>3. Push(t, c) /\ Quiescent /\ m \in held /\ ~InCall(m) /\ UNCHANGED Shared
    BY <1>3, <1>6, <2>1 DEF CleanupCall, Shared, lib, mi
  <2>4. Basic /\ Settled
    BY <2>3 DEF SerialInv
  <2>5. Basic' /\ \A x \in CallRec : OpOK(x) => OpOK(x)'
    BY <2>3, <2>4, SharedKept
  <2>6. Cardinality(held) - 0 = Cardinality(held)
    BY <2>4, FS_CardinalityType DEF Basic
  <2>7. CleanupOK(c)
    BY <2>2, <2>3, <2>4, <2>6 DEF CleanupOK, Settled
  <2>8. AdminOK(c)'
    BY <2>2, <2>3, <2>7, SharedKept DEF AdminOK
  <2> QED
    BY <1>0, <2>2, <2>3, <2>5, <2>8, AdminBegins
<1>7. CASE \/ InitLock(t) \/ GlobalInitialize(t) \/ EnterRuby(t) \/ CreateDone(t)
          \/ CountRead(t) \/ CountWrite(t) \/ CreateFail(t) \/ OpDone(t) \/ Unwind(t)
          \/ CleanupDone(t)
          \/ Unregister(t) \/ CleanupLock(t) \/ UncountRead(t) \/ UncountWrite(t)
          \/ Finalize(t) \/ CleanupReturn(t)
  <2>1. stack[t] # <<>>
    BY <1>1, <1>7 DEF InitLock, GlobalInitialize, EnterRuby, CreateDone, CountRead, CountWrite,
       CreateFail, OpDone, Unwind, CleanupDone, Unregister, CleanupLock, UncountRead, UncountWrite,
       Finalize, CleanupReturn, LeaveRuby
  <2>2. \/ Top(t).kind = "op" /\ Top(t).at \in {"enter", "ruby"}
        \/ Top(t).kind = "create"
             /\ Top(t).at \in {"lock", "global", "enter", "ruby", "fail", "count", "count1"}
        \/ Top(t).kind = "cleanup"
             /\ Top(t).at \in {"enter", "ruby", "unregister", "unlock", "uncount", "uncount1", "final", "free"}
    BY <1>0, <2>1, TopOK DEF OpOK, AdminOK, CreateOK, CleanupOK
  <2>3. CASE Top(t).kind = "op"
    <3>1. EnterRuby(t) \/ OpDone(t) \/ Unwind(t)
      BY <1>1, <1>7, <2>2, <2>3 DEF InitLock, GlobalInitialize, CreateDone, CountRead, CountWrite,
         CreateFail, CleanupDone, Unregister, CleanupLock, UncountRead, UncountWrite,
         Finalize, CleanupReturn
    <3> QED
      BY <2>1, <2>3, <3>1, OpSteps
  <2>4. CASE Top(t).kind = "create"
    <3>1. \/ InitLock(t) \/ GlobalInitialize(t) \/ EnterRuby(t) \/ CreateDone(t)
          \/ CountRead(t) \/ CountWrite(t) \/ CreateFail(t) \/ Unwind(t)
      BY <1>1, <1>7, <2>2, <2>4 DEF OpDone, CleanupDone, Unregister, CleanupLock, UncountRead,
         UncountWrite, Finalize, CleanupReturn
    <3> QED
      BY <2>1, <2>4, <3>1, CreateSteps, UnwindCreate
  <2>5. CASE Top(t).kind = "cleanup"
    <3>1. \/ EnterRuby(t) \/ CleanupDone(t) \/ Unregister(t) \/ CleanupLock(t)
          \/ UncountRead(t) \/ UncountWrite(t) \/ Finalize(t) \/ CleanupReturn(t)
      BY <1>1, <1>7, <2>2, <2>5 DEF InitLock, GlobalInitialize, CreateDone, CountRead, CountWrite,
         CreateFail, OpDone, Unwind
    <3> QED
      BY <2>1, <2>5, <3>1, CleanupSteps
  <2> QED
    BY <2>2, <2>3, <2>4, <2>5
<1> QED
  BY <1>4, <1>5, <1>6, <1>7 DEF Step

LEMMA SerialSafe ==
  ASSUME SerialAdmin, TypeOK, SerialInv, [Next]_vars
  PROVE  SerialInv'
<1>1. CASE Next
  BY <1>1, SerialStep DEF Next
<1>2. CASE UNCHANGED vars
  <2>1. UNCHANGED stack /\ UNCHANGED Shared
    BY <1>2 DEF vars, lib, mi, Shared
  <2> QED
    BY <2>1 DEF SerialInv, Basic, CallsOK, OneAdmin, Alone, Quiescent, Settled, OpOK, AdminOK,
       CreateOK, CleanupOK, Shared
<1> QED
  BY <1>1, <1>2

LEMMA InCalls ==
  ASSUME stack \in Stacks, NEW t \in Threads
  PROVE  /\ \A c \in Calls(t) : \E i \in 1..Len(stack[t]) : c = stack[t][i]
         /\ \A i \in 1..Len(stack[t]) : stack[t][i] \in Calls(t)
  BY LenProperties DEF Calls, Range, Stacks

LEMMA SpecSerial == ASSUME SerialAdmin PROVE Spec => [](TypeOK /\ SerialInv)
<1>1. Init => SerialInv
  BY SerialInit
<1>2. TypeOK /\ SerialInv /\ [Next]_vars => SerialInv'
  BY SerialSafe
<1> QED
  BY <1>1, <1>2, SpecInv, PTL DEF Spec

(* target_ruby.c:517-522: if the broker creates and releases one MI at a   *)
(* time, ruby_finalize never runs under a call that is in Ruby or about to *)
(* enter it, however many threads there are and however deep they nest.    *)
THEOREM RubyAlwaysUp == ASSUME SerialAdmin PROVE Spec => []RubyUp
<1>1. TypeOK /\ SerialInv => RubyUp
  <2> SUFFICES ASSUME TypeOK, SerialInv, NEW t \in Threads, NEW c \in Calls(t),
                      c.at \in {"enter", "ruby", "unregister"}
               PROVE  ruby = "up"
    BY DEF RubyUp
  <2>1. PICK i \in 1..Len(stack[t]) : c = stack[t][i]
    BY Types, InCalls
  <2> QED
    BY <2>1 DEF SerialInv, CallsOK, OpOK, AdminOK, CreateOK, CleanupOK
<1> QED
  BY <1>1, SpecSerial, PTL

(* target_ruby.c:337-340, 497-500: under such a broker the collector has   *)
(* the address of every provider that can be called and of no freed        *)
(* handle.                                                                 *)
THEOREM RootsAlwaysLive == ASSUME SerialAdmin PROVE Spec => []RootsLive
<1>1. TypeOK /\ SerialInv => RootsLive
  <2> SUFFICES ASSUME TypeOK, SerialInv PROVE RootsLive
    OBVIOUS
  <2>1. \A m \in roots : hdl[m] = "live"
    BY DEF SerialInv, Basic
  <2>2. ASSUME NEW m \in held, m \notin roots
        PROVE  \E t \in Threads : \E c \in Calls(t) :
                 c.mi = m /\ c.kind = "cleanup" /\ c.at \notin {"enter", "ruby", "unregister"}
    <3>1. PICK t \in Threads : \E i \in 1..Len(stack[t]) : stack[t][i].kind # "op"
      BY <2>2 DEF SerialInv, Quiescent, Settled
    <3>1a. PICK i \in 1..Len(stack[t]) : stack[t][i].kind # "op"
      BY <3>1
    <3>2. AdminOK(stack[t][i])
      BY <3>1a DEF SerialInv, CallsOK
    <3>3. stack[t][i].kind = "cleanup" /\ stack[t][i].mi = m
          /\ stack[t][i].at \notin {"enter", "ruby", "unregister"}
      BY <2>2, <3>2 DEF AdminOK, CreateOK, CleanupOK, Settled
    <3> QED
      BY <3>3, Types, InCalls
  <2> QED
    BY <2>1, <2>2 DEF RootsLive
<1> QED
  BY <1>1, SpecSerial, PTL

-----------------------------------------------------------------------------
(***************************************************************************)
(* RbTarget implements Interpreter, if the broker serialises creations and *)
(* cleanups.  Three things are seen of the calls: which MI is being        *)
(* released, which call is about to finalise Ruby, and that both are on    *)
(* top of their stacks, since what is below a nested call is in Ruby.      *)
(***************************************************************************)
Ended == {"final", "free"}

Over(m) == \E u \in Threads : \E j \in 1..Len(stack[u]) :
  stack[u][j].mi = m /\ stack[u][j].at \in Ended

Final == \E u \in Threads : \E j \in 1..Len(stack[u]) : stack[u][j].at = "final"

Buried == \A u \in Threads : \A j \in 1..Len(stack[u]) - 1 : stack[u][j].at = "ruby"

LEMMA UsersAre ==
  ASSUME stack \in Stacks
  PROVE  users = {m \in held : ~Over(m)}
<1>1. \A u \in Threads : Calls(u) = {stack[u][j] : j \in 1..Len(stack[u])}
  BY LenProperties DEF Calls, Range, Stacks
<1> QED
  BY <1>1 DEF users, Over, Ended

LEMMA UsersWillBe ==
  ASSUME stack' \in Stacks
  PROVE  users' = {m \in held' : ~Over(m)'}
<1>1. \A u \in Threads : DOMAIN stack'[u] = 1..Len(stack'[u])
  BY LenProperties DEF Stacks
<1>2. \A u \in Threads : Calls(u)' = {stack'[u][j] : j \in 1..Len(stack'[u])}
  BY <1>1 DEF Calls, Range
<1> QED
  BY <1>2 DEF users, Over, Ended

LEMMA DueIs ==
  ASSUME stack \in Stacks, Buried
  PROVE  due <=> Final
<1>1. ASSUME NEW u \in Threads
      PROVE  IsAt(u, "final") <=> \E j \in 1..Len(stack[u]) : stack[u][j].at = "final"
  <2>1. stack[u] \in Seq(CallRec) /\ Len(stack[u]) \in Nat
    BY LenProperties DEF Stacks
  <2>2. CASE stack[u] = <<>>
    BY <2>2 DEF IsAt
  <2>3. CASE stack[u] # <<>>
    <3>1. Len(stack[u]) \in Nat \ {0} /\ Top(u) = stack[u][Len(stack[u])]
      BY <2>3, TopFacts
    <3>2. \A j \in 1..Len(stack[u]) : j = Len(stack[u]) \/ j \in 1..Len(stack[u]) - 1
      BY <3>1
    <3>3. Len(stack[u]) \in 1..Len(stack[u])
      BY <3>1
    <3> QED
      BY <2>3, <3>1, <3>2, <3>3 DEF IsAt, Buried
  <2> QED
    BY <2>2, <2>3
<1> QED
  BY <1>1 DEF due, Final

LEMMA DueWillBe ==
  ASSUME stack' \in Stacks, Buried'
  PROVE  due' <=> Final'
<1>1. ASSUME NEW u \in Threads
      PROVE  IsAt(u, "final")' <=> \E j \in 1..Len(stack'[u]) : stack'[u][j].at = "final"
  <2>1. stack'[u] \in Seq(CallRec) /\ Len(stack'[u]) \in Nat
    BY LenProperties DEF Stacks
  <2>2. CASE stack'[u] = <<>>
    BY <2>2 DEF IsAt
  <2>3. CASE stack'[u] # <<>>
    <3>1. Len(stack'[u]) \in Nat \ {0}
      BY <2>1, <2>3, EmptySeq
    <3>2. Top(u)' = stack'[u][Len(stack'[u])]
      BY DEF Top, Last
    <3>3. \A j \in 1..Len(stack'[u]) : j = Len(stack'[u]) \/ j \in 1..Len(stack'[u]) - 1
      BY <3>1
    <3>4. Len(stack'[u]) \in 1..Len(stack'[u])
      BY <3>1
    <3> QED
      BY <2>3, <3>1, <3>2, <3>3, <3>4 DEF IsAt, Buried
  <2> QED
    BY <2>2, <2>3
<1> QED
  BY <1>1 DEF due, Final

(* What is over, and what is final, is told by the calls at their end.      *)
LEMMA SameEnded ==
  ASSUME \A u \in Threads : \A j \in 1..Len(stack'[u]) : stack'[u][j].at \in Ended =>
           j \in 1..Len(stack[u]) /\ stack[u][j] = stack'[u][j],
         \A u \in Threads : \A j \in 1..Len(stack[u]) : stack[u][j].at \in Ended =>
           j \in 1..Len(stack'[u]) /\ stack'[u][j] = stack[u][j]
  PROVE  (\A m : Over(m)' <=> Over(m)) /\ (Final' <=> Final)
<1>1. ASSUME NEW m, Over(m)' PROVE Over(m)
  <2>1. PICK u \in Threads : \E j \in 1..Len(stack'[u]) : stack'[u][j].mi = m /\ stack'[u][j].at \in Ended
    BY <1>1 DEF Over
  <2>2. PICK j \in 1..Len(stack'[u]) : stack'[u][j].mi = m /\ stack'[u][j].at \in Ended
    BY <2>1
  <2>3. j \in 1..Len(stack[u]) /\ stack[u][j] = stack'[u][j]
    BY <2>2
  <2> QED
    BY <2>2, <2>3 DEF Over
<1>2. ASSUME NEW m, Over(m) PROVE Over(m)'
  <2>1. PICK u \in Threads : \E j \in 1..Len(stack[u]) : stack[u][j].mi = m /\ stack[u][j].at \in Ended
    BY <1>2 DEF Over
  <2>2. PICK j \in 1..Len(stack[u]) : stack[u][j].mi = m /\ stack[u][j].at \in Ended
    BY <2>1
  <2>3. j \in 1..Len(stack'[u]) /\ stack'[u][j] = stack[u][j]
    BY <2>2
  <2> QED
    BY <2>2, <2>3 DEF Over
<1>3. ASSUME Final' PROVE Final
  <2>1. PICK u \in Threads : \E j \in 1..Len(stack'[u]) : stack'[u][j].at = "final"
    BY <1>3 DEF Final
  <2>2. PICK j \in 1..Len(stack'[u]) : stack'[u][j].at = "final"
    BY <2>1
  <2>3. j \in 1..Len(stack[u]) /\ stack[u][j] = stack'[u][j]
    BY <2>2 DEF Ended
  <2> QED
    BY <2>2, <2>3 DEF Final
<1>4. ASSUME Final PROVE Final'
  <2>1. PICK u \in Threads : \E j \in 1..Len(stack[u]) : stack[u][j].at = "final"
    BY <1>4 DEF Final
  <2>2. PICK j \in 1..Len(stack[u]) : stack[u][j].at = "final"
    BY <2>1
  <2>3. j \in 1..Len(stack'[u]) /\ stack'[u][j] = stack[u][j]
    BY <2>2 DEF Ended
  <2> QED
    BY <2>2, <2>3 DEF Final
<1> QED
  BY <1>1, <1>2, <1>3, <1>4

(* What the three forms of a step do to calls that are not at their end.   *)
LEMMA QuietPush ==
  ASSUME stack \in Stacks, Buried, NEW t \in Threads, NEW c \in CallRec, Push(t, c),
         c.at \notin Ended, stack[t] = <<>> \/ IsAt(t, "ruby")
  PROVE  (\A m : Over(m)' <=> Over(m)) /\ (Final' <=> Final) /\ Buried'
<1> DEFINE n == Len(stack[t]) + 1
<1>1. /\ stack' \in Stacks /\ Len(stack'[t]) = n /\ stack'[t][n] = c
      /\ \A i \in 1..Len(stack[t]) : stack'[t][i] = stack[t][i]
      /\ \A u \in Threads \ {t} : stack'[u] = stack[u]
  BY PushFacts
<1>2. Len(stack[t]) \in Nat /\ n = Len(stack[t]) + 1
  BY LenProperties DEF Stacks
<1> HIDE DEF n
<1>3. \A u \in Threads : \A j \in 1..Len(stack'[u]) : stack'[u][j].at \in Ended =>
        j \in 1..Len(stack[u]) /\ stack[u][j] = stack'[u][j]
  <2> SUFFICES ASSUME NEW u \in Threads, NEW j \in 1..Len(stack'[u]), stack'[u][j].at \in Ended
               PROVE  j \in 1..Len(stack[u]) /\ stack[u][j] = stack'[u][j]
    OBVIOUS
  <2>1. CASE u = t
    BY <1>1, <1>2, <2>1
  <2>2. CASE u # t
    BY <1>1, <2>2
  <2> QED
    BY <2>1, <2>2
<1>4. \A u \in Threads : \A j \in 1..Len(stack[u]) : stack[u][j].at \in Ended =>
        j \in 1..Len(stack'[u]) /\ stack'[u][j] = stack[u][j]
  BY <1>1, <1>2
<1>5. (\A m : Over(m)' <=> Over(m)) /\ (Final' <=> Final)
  BY <1>3, <1>4, SameEnded
<1>6. \A i \in 1..Len(stack[t]) : stack[t][i].at = "ruby"
  <2>1. CASE stack[t] = <<>>
    BY <2>1
  <2>2. CASE IsAt(t, "ruby")
    <3>1. Len(stack[t]) \in Nat \ {0} /\ stack[t][Len(stack[t])].at = "ruby"
      BY <2>2, TopFacts DEF IsAt
    <3>2. \A i \in 1..Len(stack[t]) : i = Len(stack[t]) \/ i \in 1..Len(stack[t]) - 1
      BY <3>1
    <3> QED
      BY <3>1, <3>2 DEF Buried
  <2> QED
    BY <2>1, <2>2
<1>7. Buried'
  <2>1. \A i \in 1..Len(stack'[t]) - 1 : stack'[t][i].at = "ruby"
    BY <1>1, <1>2, <1>6
  <2> QED
    BY <1>1, <2>1 DEF Buried
<1> QED
  BY <1>5, <1>7

LEMMA SetTopBuried ==
  ASSUME stack \in Stacks, Buried, NEW t \in Threads, stack[t] # <<>>, NEW c \in CallRec, SetTop(t, c)
  PROVE  Buried'
<1>1. /\ Len(stack[t]) \in Nat \ {0} /\ Len(stack'[t]) = Len(stack[t])
      /\ \A i \in 1..Len(stack[t]) - 1 : stack'[t][i] = stack[t][i]
      /\ \A u \in Threads \ {t} : stack'[u] = stack[u]
  BY SetTopFacts
<1> SUFFICES ASSUME NEW u \in Threads, NEW j \in 1..Len(stack'[u]) - 1
             PROVE  stack'[u][j].at = "ruby"
  BY DEF Buried
<1>2. j \in 1..Len(stack[u]) - 1 /\ stack'[u][j] = stack[u][j]
  BY <1>1
<1> QED
  BY <1>2 DEF Buried

LEMMA ReturnBuried ==
  ASSUME stack \in Stacks, Buried, NEW t \in Threads, stack[t] # <<>>, Return(t)
  PROVE  Buried'
<1>1. /\ Len(stack[t]) \in Nat \ {0} /\ Len(stack'[t]) = Len(stack[t]) - 1
      /\ \A i \in 1..Len(stack[t]) - 1 : stack'[t][i] = stack[t][i]
      /\ \A u \in Threads \ {t} : stack'[u] = stack[u]
  BY ReturnFacts
<1> SUFFICES ASSUME NEW u \in Threads, NEW j \in 1..Len(stack'[u]) - 1
             PROVE  stack'[u][j].at = "ruby"
  BY DEF Buried
<1>2. j \in 1..Len(stack[u]) - 1 /\ stack'[u][j] = stack[u][j]
  <2>1. CASE u = t
    BY <1>1, <2>1
  <2>2. CASE u # t
    BY <1>1, <2>2
  <2> QED
    BY <2>1, <2>2
<1> QED
  BY <1>2 DEF Buried

LEMMA QuietTop ==
  ASSUME stack \in Stacks, NEW t \in Threads, stack[t] # <<>>, NEW c \in CallRec, SetTop(t, c),
         Top(t).at \notin Ended, c.at \notin Ended
  PROVE  (\A m : Over(m)' <=> Over(m)) /\ (Final' <=> Final)
<1> DEFINE n == Len(stack[t])
<1>1. /\ stack' \in Stacks /\ n \in Nat \ {0} /\ Len(stack'[t]) = n /\ stack'[t][n] = c
      /\ \A i \in 1..n - 1 : stack'[t][i] = stack[t][i]
      /\ \A u \in Threads \ {t} : stack'[u] = stack[u]
  BY SetTopFacts
<1>2. stack[t][n] = Top(t) /\ n = Len(stack[t])
  BY TopFacts
<1> HIDE DEF n
<1>3. \A u \in Threads : \A j \in 1..Len(stack'[u]) : stack'[u][j].at \in Ended =>
        j \in 1..Len(stack[u]) /\ stack[u][j] = stack'[u][j]
  <2> SUFFICES ASSUME NEW u \in Threads, NEW j \in 1..Len(stack'[u]), stack'[u][j].at \in Ended
               PROVE  j \in 1..Len(stack[u]) /\ stack[u][j] = stack'[u][j]
    OBVIOUS
  <2>1. CASE u = t
    BY <1>1, <1>2, <2>1
  <2>2. CASE u # t
    BY <1>1, <2>2
  <2> QED
    BY <2>1, <2>2
<1>4. \A u \in Threads : \A j \in 1..Len(stack[u]) : stack[u][j].at \in Ended =>
        j \in 1..Len(stack'[u]) /\ stack'[u][j] = stack[u][j]
  <2> SUFFICES ASSUME NEW u \in Threads, NEW j \in 1..Len(stack[u]), stack[u][j].at \in Ended
               PROVE  j \in 1..Len(stack'[u]) /\ stack[u][j] = stack'[u][j]
    OBVIOUS
  <2>1. CASE u = t
    BY <1>1, <1>2, <2>1
  <2>2. CASE u # t
    BY <1>1, <2>2
  <2> QED
    BY <2>1, <2>2
<1> QED
  BY <1>3, <1>4, SameEnded

LEMMA QuietReturn ==
  ASSUME stack \in Stacks, NEW t \in Threads, stack[t] # <<>>, Return(t), Top(t).at \notin Ended
  PROVE  (\A m : Over(m)' <=> Over(m)) /\ (Final' <=> Final)
<1> DEFINE n == Len(stack[t])
<1>1. /\ stack' \in Stacks /\ n \in Nat \ {0} /\ Len(stack'[t]) = n - 1
      /\ \A i \in 1..n - 1 : stack'[t][i] = stack[t][i]
      /\ \A u \in Threads \ {t} : stack'[u] = stack[u]
  BY ReturnFacts
<1>2. stack[t][n] = Top(t) /\ n = Len(stack[t])
  BY TopFacts
<1> HIDE DEF n
<1>3. \A u \in Threads : \A j \in 1..Len(stack'[u]) : stack'[u][j].at \in Ended =>
        j \in 1..Len(stack[u]) /\ stack[u][j] = stack'[u][j]
  <2> SUFFICES ASSUME NEW u \in Threads, NEW j \in 1..Len(stack'[u]), stack'[u][j].at \in Ended
               PROVE  j \in 1..Len(stack[u]) /\ stack[u][j] = stack'[u][j]
    OBVIOUS
  <2>1. CASE u = t
    BY <1>1, <1>2, <2>1
  <2>2. CASE u # t
    BY <1>1, <2>2
  <2> QED
    BY <2>1, <2>2
<1>4. \A u \in Threads : \A j \in 1..Len(stack[u]) : stack[u][j].at \in Ended =>
        j \in 1..Len(stack'[u]) /\ stack'[u][j] = stack[u][j]
  <2> SUFFICES ASSUME NEW u \in Threads, NEW j \in 1..Len(stack[u]), stack[u][j].at \in Ended
               PROVE  j \in 1..Len(stack'[u]) /\ stack[u][j] = stack'[u][j]
    OBVIOUS
  <2>1. CASE u = t
    BY <1>1, <1>2, <2>1
  <2>2. CASE u # t
    BY <1>1, <2>2
  <2> QED
    BY <2>1, <2>2
<1> QED
  BY <1>3, <1>4, SameEnded

LEMMA Unseen ==
  ASSUME stack \in Stacks, stack' \in Stacks, Buried, Buried', held' = held,
         \A m : Over(m)' <=> Over(m), Final' <=> Final
  PROVE  users' = users /\ due' = due
<1>1. users = {m \in held : ~Over(m)} /\ users' = {m \in held' : ~Over(m)'}
  BY UsersAre, UsersWillBe
<1>2. (due <=> Final) /\ (due' <=> Final')
  BY DueIs, DueWillBe
<1>3. users' = users
  BY <1>1
<1>4. due \in BOOLEAN /\ due' \in BOOLEAN
  BY DEF due
<1> QED
  BY <1>2, <1>3, <1>4

LEMMA UnseenTop ==
  ASSUME stack \in Stacks, Buried, NEW t \in Threads, stack[t] # <<>>, NEW c \in CallRec, SetTop(t, c),
         Top(t).at \notin Ended, c.at \notin Ended, held' = held
  PROVE  Buried' /\ users' = users /\ due' = due
<1>1. stack' \in Stacks
  BY SetTopFacts
<1>2. Buried'
  BY SetTopBuried
<1>3. (\A m : Over(m)' <=> Over(m)) /\ (Final' <=> Final)
  BY QuietTop
<1> QED
  BY <1>1, <1>2, <1>3, Unseen

LEMMA UnseenPush ==
  ASSUME stack \in Stacks, Buried, NEW t \in Threads, NEW c \in CallRec, Push(t, c),
         c.at \notin Ended, stack[t] = <<>> \/ IsAt(t, "ruby"), held' = held
  PROVE  Buried' /\ users' = users /\ due' = due
<1>1. stack' \in Stacks
  BY PushFacts
<1>2. (\A m : Over(m)' <=> Over(m)) /\ (Final' <=> Final) /\ Buried'
  BY QuietPush
<1> QED
  BY <1>1, <1>2, Unseen

LEMMA UnseenReturn ==
  ASSUME stack \in Stacks, Buried, NEW t \in Threads, stack[t] # <<>>, Return(t), Top(t).at \notin Ended,
         held' = held
  PROVE  Buried' /\ users' = users /\ due' = due
<1>1. stack' \in Stacks
  BY ReturnFacts
<1>2. Buried'
  BY ReturnBuried
<1>3. (\A m : Over(m)' <=> Over(m)) /\ (Final' <=> Final)
  BY QuietReturn
<1> QED
  BY <1>1, <1>2, <1>3, Unseen

(* A call that creates or releases an MI is the only one, so that it alone *)
(* decides what is over.                                                   *)
LEMMA AdminAlone ==
  ASSUME stack \in Stacks, SerialInv, NEW t \in Threads, stack[t] # <<>>, Top(t).kind # "op"
  PROVE  \A u \in Threads : \A j \in 1..Len(stack[u]) :
           (u = t /\ j = Len(stack[t]) /\ stack[u][j] = Top(t)) \/
           (~(u = t /\ j = Len(stack[t])) /\ stack[u][j].at \notin Ended)
<1>1. Len(stack[t]) \in 1..Len(stack[t]) /\ stack[t][Len(stack[t])] = Top(t)
  BY TopFacts
<1>2. \A u \in Threads : \A j \in 1..Len(stack[u]) :
        ~(u = t /\ j = Len(stack[t])) => stack[u][j].kind = "op"
  BY <1>1 DEF SerialInv, OneAdmin
<1>3. \A u \in Threads : \A j \in 1..Len(stack[u]) :
        stack[u][j].kind = "op" => stack[u][j].at \notin Ended
  BY DEF SerialInv, CallsOK, OpOK, Ended
<1> QED
  BY <1>1, <1>2, <1>3

LEMMA AdminNow ==
  ASSUME stack \in Stacks, SerialInv, NEW t \in Threads, stack[t] # <<>>, Top(t).kind # "op"
  PROVE  /\ \A m : Over(m) <=> m = Top(t).mi /\ Top(t).at \in Ended
         /\ Final <=> Top(t).at = "final"
<1>1. Len(stack[t]) \in 1..Len(stack[t]) /\ stack[t][Len(stack[t])] = Top(t)
  BY TopFacts
<1>2. \A m : Over(m) <=> m = Top(t).mi /\ Top(t).at \in Ended
  BY <1>1, AdminAlone DEF Over
<1>3. Final <=> Top(t).at = "final"
  BY <1>1, AdminAlone DEF Final, Ended
<1> QED
  BY <1>2, <1>3

LEMMA AdminThen ==
  ASSUME stack \in Stacks, SerialInv, NEW t \in Threads, stack[t] # <<>>, Top(t).kind # "op",
         NEW c \in CallRec, SetTop(t, c)
  PROVE  /\ \A m : Over(m)' <=> m = c.mi /\ c.at \in Ended
         /\ Final' <=> c.at = "final"
<1> DEFINE n == Len(stack[t])
<1>1. /\ stack' \in Stacks /\ n \in Nat \ {0} /\ Len(stack'[t]) = n /\ stack'[t][n] = c
      /\ \A i \in 1..n - 1 : stack'[t][i] = stack[t][i]
      /\ \A u \in Threads \ {t} : stack'[u] = stack[u]
  BY SetTopFacts
<1>2. \A u \in Threads : \A j \in 1..Len(stack[u]) : (u = t /\ j = n) \/ stack[u][j].at \notin Ended
  BY AdminAlone
<1>3. n = Len(stack[t])
  OBVIOUS
<1> HIDE DEF n
<1>4. \A u \in Threads : \A j \in 1..Len(stack'[u]) : (u = t /\ j = n /\ stack'[u][j] = c) \/
        stack'[u][j].at \notin Ended
  BY <1>1, <1>2, <1>3
<1>5. n \in 1..Len(stack'[t]) /\ stack'[t][n] = c
  BY <1>1
<1>6. \A m : Over(m)' <=> m = c.mi /\ c.at \in Ended
  BY <1>4, <1>5 DEF Over
<1>7. Final' <=> c.at = "final"
  BY <1>4, <1>5 DEF Final, Ended
<1> QED
  BY <1>6, <1>7

LEMMA AdminGone ==
  ASSUME stack \in Stacks, SerialInv, NEW t \in Threads, stack[t] # <<>>, Top(t).kind # "op", Return(t)
  PROVE  (\A m : ~Over(m)') /\ ~Final'
<1> DEFINE n == Len(stack[t])
<1>1. /\ stack' \in Stacks /\ n \in Nat \ {0} /\ Len(stack'[t]) = n - 1
      /\ \A i \in 1..n - 1 : stack'[t][i] = stack[t][i]
      /\ \A u \in Threads \ {t} : stack'[u] = stack[u]
  BY ReturnFacts
<1>2. \A u \in Threads : \A j \in 1..Len(stack[u]) : (u = t /\ j = n) \/ stack[u][j].at \notin Ended
  BY AdminAlone
<1>3. n = Len(stack[t])
  OBVIOUS
<1> HIDE DEF n
<1>4. \A u \in Threads : \A j \in 1..Len(stack'[u]) : stack'[u][j].at \notin Ended
  BY <1>1, <1>2, <1>3
<1> QED
  BY <1>4 DEF Over, Final, Ended

(* The four steps that Interpreter has too.                                *)
LEMMA StepLoads ==
  ASSUME TypeOK, SerialInv, Buried, NEW t \in Threads, GlobalInitialize(t)
  PROVE  Buried' /\ [Abstract!Next]_(Abstract!vars)
<1>1. stack \in Stacks /\ stack[t] # <<>> /\ Top(t) \in CallRec /\ Top(t).at = "global"
  BY Types, TopFacts DEF GlobalInitialize, IsAt
<1>2. ASSUME NEW a \in {"enter", "fail"}, Goto(t, a)
      PROVE  Buried' /\ users' = users /\ due' = due
  <2> DEFINE e == [Top(t) EXCEPT !.at = a]
  <2>1. e \in CallRec /\ e.at = a /\ SetTop(t, e)
    BY <1>1, <1>2, AtAll DEF CallRec, Goto
  <2> HIDE DEF e
  <2>2. e.at \notin Ended /\ Top(t).at \notin Ended /\ held' = held
    BY <1>1, <2>1 DEF Ended, GlobalInitialize, mi
  <2> QED
    BY <1>1, <2>1, <2>2, UnseenTop
<1>3. Buried' /\ users' = users /\ due' = due
  BY <1>2 DEF GlobalInitialize
<1>4. CASE targetInit = 0
  <2>1. ruby # "up" /\ ruby' = "up"
    BY <1>4 DEF GlobalInitialize, SerialInv, Basic
  <2> QED
    BY <1>3, <2>1 DEF Abstract!Next, Abstract!Load
<1>5. CASE targetInit # 0
  BY <1>3, <1>5 DEF GlobalInitialize, Abstract!vars
<1> QED
  BY <1>4, <1>5

LEMMA StepAttaches ==
  ASSUME TypeOK, SerialInv, Buried, NEW t \in Threads, CountWrite(t)
  PROVE  Buried' /\ [Abstract!Next]_(Abstract!vars)
<1>1. stack \in Stacks /\ stack[t] # <<>> /\ Top(t) \in CallRec /\ Top(t).at = "count1"
  BY Types, TopFacts DEF CountWrite, IsAt
<1>2. Top(t).kind = "create" /\ CreateOK(Top(t))
  BY <1>1, TopOK DEF OpOK, AdminOK, CleanupOK
<1>3. stack' \in Stacks /\ Buried'
  BY <1>1, ReturnFacts, ReturnBuried DEF CountWrite
<1> PICK m \in MIs : m = Top(t).mi
  BY <1>1 DEF CallRec
<1>4. m \in MIs /\ m = Top(t).mi /\ m \notin held /\ held' = held \cup {m} /\ ruby = "up" /\ ruby' = ruby
  BY <1>1, <1>2 DEF CountWrite, CreateOK
<1>5. (\A k : ~Over(k)) /\ ~Final
  BY <1>1, <1>2, AdminNow DEF Ended
<1>6. (\A k : ~Over(k)') /\ ~Final'
  BY <1>1, <1>2, AdminGone DEF CountWrite
<1>7. users = held /\ users' = held'
  BY <1>1, <1>3, <1>5, <1>6, UsersAre, UsersWillBe
<1>8. ~due /\ ~due'
  BY <1>1, <1>3, <1>5, <1>6, DueIs, DueWillBe
<1>9. due' = due
  BY <1>8 DEF due
<1>10. Abstract!Attach(m)
  BY <1>4, <1>7, <1>8, <1>9 DEF Abstract!Attach
<1> QED
  BY <1>3, <1>4, <1>10 DEF Abstract!Next

LEMMA StepDetaches ==
  ASSUME TypeOK, SerialInv, Buried, NEW t \in Threads, UncountWrite(t)
  PROVE  Buried' /\ [Abstract!Next]_(Abstract!vars)
<1>1. stack \in Stacks /\ stack[t] # <<>> /\ Top(t) \in CallRec /\ Top(t).at = "uncount1"
  BY Types, TopFacts DEF UncountWrite, IsAt
<1>2. Top(t).kind = "cleanup" /\ CleanupOK(Top(t))
  BY <1>1, TopOK DEF OpOK, AdminOK, CreateOK
<1> PICK m \in MIs : m = Top(t).mi
  BY <1>1 DEF CallRec
<1>3. m \in MIs /\ m = Top(t).mi /\ m \in held /\ IsFiniteSet(held)
  BY <1>1, <1>2 DEF CleanupOK, SerialInv, Basic
<1>4. miCount' = Cardinality(held) - 1 /\ held' = held /\ ruby' = ruby
  <2>1. Top(t).tmp = miCount /\ miCount = Cardinality(held) - 0
    BY <1>1, <1>2 DEF CleanupOK
  <2>2. miCount' = Top(t).tmp - 1 /\ held' = held /\ ruby' = ruby
    BY DEF UncountWrite, mi
  <2>3. Cardinality(held) \in Nat
    BY <1>3, FS_CardinalityType
  <2> QED
    BY <2>1, <2>2, <2>3
<1>5. IsFiniteSet(held \ {m}) /\ Cardinality(held \ {m}) = Cardinality(held) - 1
  BY <1>3, FS_RemoveElement
<1>6. miCount' \in Nat /\ (miCount' = 0 <=> held \ {m} = {})
  <2>1. miCount' = Cardinality(held \ {m})
    BY <1>4, <1>5
  <2> QED
    BY <1>5, <2>1, FS_CardinalityType, FS_EmptySet
<1>7. PICK c \in CallRec : SetTop(t, c) /\ c.mi = m /\ c.at = IF held \ {m} = {} THEN "final" ELSE "free"
  <2>1. PICK a \in At : a = IF held \ {m} = {} THEN "final" ELSE "free"
    BY AtAll
  <2>2. Goto(t, a)
    <3>1. CASE held \ {m} = {}
      <4>1. ~(miCount' > 0)
        BY <1>6, <3>1
      <4> QED
        BY <2>1, <3>1, <4>1 DEF UncountWrite
    <3>2. CASE held \ {m} # {}
      <4>1. miCount' > 0
        BY <1>6, <3>2
      <4> QED
        BY <2>1, <3>2, <4>1 DEF UncountWrite
    <3> QED
      BY <3>1, <3>2
  <2>3. [Top(t) EXCEPT !.at = a] \in CallRec /\ [Top(t) EXCEPT !.at = a].mi = Top(t).mi
        /\ [Top(t) EXCEPT !.at = a].at = a
    BY <1>1 DEF CallRec
  <2> QED
    BY <1>3, <2>1, <2>2, <2>3 DEF Goto
<1>8. stack' \in Stacks /\ Buried'
  BY <1>1, <1>7, SetTopFacts, SetTopBuried
<1>9. \A k : ~Over(k)
  BY <1>1, <1>2, AdminNow DEF Ended
<1>10. (\A k : Over(k)' <=> k = m) /\ (Final' <=> held \ {m} = {})
  BY <1>1, <1>2, <1>7, AdminThen DEF Ended
<1>11. users = held /\ users' = held \ {m}
  BY <1>1, <1>4, <1>8, <1>9, <1>10, UsersAre, UsersWillBe
<1>12. due' = (users' = {})
  <2>1. due' <=> users' = {}
    BY <1>8, <1>10, <1>11, DueWillBe
  <2> QED
    BY <2>1 DEF due
<1>13. Abstract!Detach(m)
  BY <1>3, <1>4, <1>11, <1>12 DEF Abstract!Detach
<1> QED
  BY <1>3, <1>8, <1>13 DEF Abstract!Next

LEMMA StepUnloads ==
  ASSUME TypeOK, SerialInv, Buried, NEW t \in Threads, Finalize(t)
  PROVE  Buried' /\ [Abstract!Next]_(Abstract!vars)
<1>1. stack \in Stacks /\ stack[t] # <<>> /\ Top(t) \in CallRec /\ Top(t).at = "final"
  BY Types, TopFacts DEF Finalize, IsAt
<1>2. Top(t).kind = "cleanup" /\ CleanupOK(Top(t))
  BY <1>1, TopOK DEF OpOK, AdminOK, CreateOK
<1>3. held' = held /\ ruby' = "down"
  BY <1>1, <1>2 DEF Finalize, mi, CleanupOK, SerialInv, Basic
<1>4. PICK c \in CallRec : SetTop(t, c) /\ c.mi = Top(t).mi /\ c.at = "free"
  <2>1. [Top(t) EXCEPT !.at = "free"] \in CallRec
    BY <1>1, AtAll DEF CallRec
  <2>2. [Top(t) EXCEPT !.at = "free"].mi = Top(t).mi /\ [Top(t) EXCEPT !.at = "free"].at = "free"
    BY <1>1 DEF CallRec
  <2> QED
    BY <2>1, <2>2 DEF Finalize, Goto
<1>5. stack' \in Stacks /\ Buried'
  BY <1>1, <1>4, SetTopFacts, SetTopBuried
<1>6. (\A k : Over(k) <=> k = Top(t).mi) /\ Final
  BY <1>1, <1>2, AdminNow DEF Ended
<1>7. (\A k : Over(k)' <=> k = Top(t).mi) /\ ~Final'
  BY <1>1, <1>2, <1>4, AdminThen DEF Ended
<1>8. users = {k \in held : ~Over(k)} /\ users' = {k \in held' : ~Over(k)'}
  BY <1>1, <1>5, UsersAre, UsersWillBe
<1>9. users' = users
  BY <1>3, <1>6, <1>7, <1>8
<1>10. due /\ ~due'
  BY <1>1, <1>5, <1>6, <1>7, DueIs, DueWillBe
<1>11. due' = FALSE
  BY <1>10 DEF due
<1>12. Abstract!Unload
  BY <1>3, <1>9, <1>10, <1>11 DEF Abstract!Unload
<1> QED
  BY <1>5, <1>12 DEF Abstract!Next

(* The MI that goes had been given up before.                              *)
LEMMA StepForgets ==
  ASSUME TypeOK, SerialInv, Buried, NEW t \in Threads, CleanupReturn(t)
  PROVE  Buried' /\ [Abstract!Next]_(Abstract!vars)
<1>1. stack \in Stacks /\ stack[t] # <<>> /\ Top(t) \in CallRec /\ Top(t).at = "free"
  BY Types, TopFacts DEF CleanupReturn, IsAt
<1>2. Top(t).kind = "cleanup"
  BY <1>1, TopOK DEF OpOK, AdminOK, CreateOK
<1>3. stack' \in Stacks /\ Buried'
  BY <1>1, ReturnFacts, ReturnBuried DEF CleanupReturn
<1>4. held' = held \ {Top(t).mi} /\ ruby' = ruby
  BY DEF CleanupReturn
<1>5. (\A k : Over(k) <=> k = Top(t).mi) /\ ~Final
  BY <1>1, <1>2, AdminNow DEF Ended
<1>6. (\A k : ~Over(k)') /\ ~Final'
  BY <1>1, <1>2, AdminGone DEF CleanupReturn
<1>7. users = {k \in held : ~Over(k)} /\ users' = {k \in held' : ~Over(k)'}
  BY <1>1, <1>3, UsersAre, UsersWillBe
<1>8. users' = users
  BY <1>4, <1>5, <1>6, <1>7
<1>9. ~due /\ ~due'
  BY <1>1, <1>3, <1>5, <1>6, DueIs, DueWillBe
<1>10. due' = due
  BY <1>9 DEF due
<1> QED
  BY <1>3, <1>4, <1>8, <1>10 DEF Abstract!vars

(* Every other step is one of the quiet ones.                              *)
LEMMA StepStutters ==
  ASSUME TypeOK, SerialInv, Buried, NEW t \in Threads, Step(t),
         ~GlobalInitialize(t), ~CountWrite(t), ~UncountWrite(t), ~Finalize(t), ~CleanupReturn(t)
  PROVE  Buried' /\ UNCHANGED Abstract!vars
<1>1. stack \in Stacks /\ \A a : IsAt(t, a) => stack[t] # <<>> /\ Top(t).at = a /\ Top(t) \in CallRec
  BY Types, TopFacts DEF IsAt
<1>2. SUFFICES Buried' /\ users' = users /\ due' = due /\ ruby' = ruby
  BY DEF Abstract!vars
<1>3. ASSUME NEW a \in At, Goto(t, a), stack[t] # <<>>, Top(t) \in CallRec, Top(t).at \notin Ended,
             a \notin Ended, held' = held
      PROVE  Buried' /\ users' = users /\ due' = due
  <2> DEFINE e == [Top(t) EXCEPT !.at = a]
  <2>1. e \in CallRec /\ e.at = a /\ SetTop(t, e)
    BY <1>3 DEF CallRec, Goto
  <2> HIDE DEF e
  <2> QED
    BY <1>1, <1>3, <2>1, UnseenTop
<1>4. ASSUME NEW a \in At, NEW n \in Int, SetTop(t, [Top(t) EXCEPT !.at = a, !.tmp = n]),
             stack[t] # <<>>, Top(t) \in CallRec, Top(t).at \notin Ended, a \notin Ended, held' = held
      PROVE  Buried' /\ users' = users /\ due' = due
  <2> DEFINE e == [Top(t) EXCEPT !.at = a, !.tmp = n]
  <2>1. e \in CallRec /\ e.at = a /\ SetTop(t, e)
    BY <1>4 DEF CallRec
  <2> HIDE DEF e
  <2> QED
    BY <1>1, <1>4, <2>1, UnseenTop
<1>5. ASSUME NEW a \in At, NEW b \in BOOLEAN, SetTop(t, [Top(t) EXCEPT !.at = a, !.lock = b]),
             stack[t] # <<>>, Top(t) \in CallRec, Top(t).at \notin Ended, a \notin Ended, held' = held
      PROVE  Buried' /\ users' = users /\ due' = due
  <2> DEFINE e == [Top(t) EXCEPT !.at = a, !.lock = b]
  <2>1. e \in CallRec /\ e.at = a /\ SetTop(t, e)
    BY <1>5 DEF CallRec
  <2> HIDE DEF e
  <2> QED
    BY <1>1, <1>5, <2>1, UnseenTop
<1>6. ASSUME NEW m \in MIs, NEW kind \in Kind, NEW a \in {"lock", "enter"}, NEW b \in BOOLEAN,
             Push(t, Call(m, kind, a, b)), stack[t] = <<>> \/ IsAt(t, "ruby"), held' = held
      PROVE  Buried' /\ users' = users /\ due' = due
  <2>1. PICK c \in CallRec : c = Call(m, kind, a, b) /\ c.at = a
    BY NewCallType, AtAll
  <2> QED
    BY <1>1, <1>6, <2>1, UnseenPush DEF Ended
<1>7. "create" \in Kind /\ "op" \in Kind /\ "cleanup" \in Kind
  BY DEF Kind
<1>8. CASE InitLock(t) \/ Unregister(t) \/ CleanupLock(t)
  BY <1>1, <1>3, <1>8, AtAll DEF InitLock, Unregister, CleanupLock, Ended, mi, lib
<1>9. CASE CountRead(t) \/ UncountRead(t)
  <2>1. PICK a \in {"count1", "uncount1"} : SetTop(t, [Top(t) EXCEPT !.at = a, !.tmp = miCount])
    BY <1>9 DEF CountRead, UncountRead
  <2>2. stack[t] # <<>> /\ Top(t) \in CallRec /\ Top(t).at \notin Ended /\ a \notin Ended
    BY <1>1, <1>9 DEF CountRead, UncountRead, Ended
  <2>3. held' = held /\ ruby' = ruby /\ miCount \in Int
    BY <1>9 DEF CountRead, UncountRead, mi, TypeOK
  <2> QED
    BY <1>4, <2>1, <2>2, <2>3, AtAll
<1>10. CASE EnterRuby(t)
  <2>1. stack[t] # <<>> /\ Top(t) \in CallRec /\ Top(t).at \notin Ended /\ "ruby" \notin Ended
    BY <1>1, <1>10 DEF EnterRuby, Ended
  <2>2. held' = held /\ ruby' = ruby
    BY <1>10 DEF EnterRuby, mi
  <2>3. SetTop(t, [Top(t) EXCEPT !.at = "ruby", !.lock = TRUE]) \/ Goto(t, "ruby")
    BY <1>10 DEF EnterRuby
  <2> QED
    BY <1>3, <1>5, <2>1, <2>2, <2>3, AtAll
<1>11. CASE CreateDone(t)
  <2>1. stack[t] # <<>> /\ Top(t) \in CallRec /\ Top(t).at \notin Ended
    BY <1>1, <1>11 DEF CreateDone, LeaveRuby, Ended
  <2>2. held' = held /\ ruby' = ruby
    BY <1>11 DEF CreateDone
  <2>3. PICK a \in {"count", "fail"} : SetTop(t, [Top(t) EXCEPT !.at = a, !.lock = FALSE])
    BY <1>11 DEF CreateDone
  <2>4. a \notin Ended
    BY DEF Ended
  <2> QED
    BY <1>5, <2>1, <2>2, <2>3, <2>4, AtAll
<1>12. CASE OpDone(t) \/ CreateFail(t) \/ Unwind(t)
  BY <1>1, <1>12, UnseenReturn DEF OpDone, CreateFail, Unwind, LeaveRuby, Ended, mi, lib
<1>13. CASE CleanupDone(t)
  <2>1. stack[t] # <<>> /\ Top(t).at = "ruby" /\ Top(t) \in CallRec /\ held' = held /\ ruby' = ruby
    BY <1>1, <1>13 DEF CleanupDone, LeaveRuby, mi
  <2>2. Return(t) \/ SetTop(t, [Top(t) EXCEPT !.at = "unregister", !.lock = FALSE])
    BY <1>13 DEF CleanupDone
  <2>3. Top(t).at \notin Ended /\ "unregister" \notin Ended
    BY <2>1 DEF Ended
  <2> QED
    BY <1>1, <1>5, <2>1, <2>2, <2>3, AtAll, UnseenReturn
<1>14. ASSUME NEW m \in MIs, CreateCall(t, m) PROVE Buried' /\ users' = users /\ due' = due /\ ruby' = ruby
  BY <1>6, <1>7, <1>14 DEF CreateCall, MayCall
<1>15. ASSUME NEW m \in MIs, OpCall(t, m) PROVE Buried' /\ users' = users /\ due' = due /\ ruby' = ruby
  BY <1>6, <1>7, <1>15 DEF OpCall, MayCall, mi
<1>16. ASSUME NEW m \in MIs, NEW b \in BOOLEAN, CleanupCall(t, m, b)
       PROVE  Buried' /\ users' = users /\ due' = due /\ ruby' = ruby
  BY <1>6, <1>7, <1>16 DEF CleanupCall, mi
<1> QED
  BY <1>8, <1>9, <1>10, <1>11, <1>12, <1>13, <1>14, <1>15, <1>16 DEF Step

LEMMA RefineNext ==
  ASSUME TypeOK, SerialInv, Buried, [Next]_vars
  PROVE  Buried' /\ [Abstract!Next]_(Abstract!vars)
<1>1. ASSUME NEW t \in Threads, Step(t) PROVE Buried' /\ [Abstract!Next]_(Abstract!vars)
  BY <1>1, StepLoads, StepAttaches, StepDetaches, StepUnloads, StepForgets, StepStutters
<1>2. CASE UNCHANGED vars
  <2>1. stack' = stack /\ held' = held /\ ruby' = ruby
    BY <1>2 DEF vars, mi
  <2>2. Buried'
    BY <2>1 DEF Buried
  <2>3. (\A m : Over(m)' <=> Over(m)) /\ (Final' <=> Final)
    BY <2>1 DEF Over, Final
  <2>4. users' = users /\ due' = due
    BY <2>1, <2>2, <2>3, Types, Unseen
  <2> QED
    BY <2>1, <2>2, <2>4 DEF Abstract!vars
<1> QED
  BY <1>1, <1>2 DEF Next

(* cmpi_provider.c:182-189, target_ruby.c:517-522: the safety part of      *)
(* Implements for any number of threads and MIs and any depth of nesting:  *)
(* Ruby is initialised before an MI is counted and finalised exactly when  *)
(* the last has been uncounted.                                            *)
THEOREM ImplementsInterpreter ==
  ASSUME SerialAdmin
  PROVE  Spec => Abstract!Init /\ [][Abstract!Next]_(Abstract!vars)
<1>1. Init => Abstract!Init
  BY DEF Init, Abstract!Init, users, due, IsAt
<1>2. Init => Buried
  BY DEF Init, Buried
<1>3. TypeOK /\ SerialInv /\ Buried /\ [Next]_vars => Buried' /\ [Abstract!Next]_(Abstract!vars)
  BY RefineNext
<1> QED
  BY <1>1, <1>2, <1>3, SpecSerial, PTL DEF Spec
=============================================================================
