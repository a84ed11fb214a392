---------------------------- MODULE UpcallProofs ----------------------------
(* Errors between the broker and Python providers, proved for any number   *)
(* of threads, any depth of nesting and any statuses of the broker.        *)
EXTENDS Upcall, SequenceTheorems, TLAPS

Frame == OpFrame \cup WrapFrame

(* What a frame says about its own past: an operation that has caught      *)
(* nothing has nothing to report, one that has knows the error of its own  *)
(* upcall; a wrapper learns its status from the broker.                    *)
FrameOK(f) ==
  \/ /\ f \in OpFrame /\ f.kind = "op" /\ f.asked = f.got
     /\ IF f.at = "caught" THEN f.got \in ErrorCode ELSE f.got = "OK"
  \/ /\ f \in WrapFrame /\ f.kind = "wrap"
     /\ f.at = "broker" => f.rc = "OK"
     /\ f.at \in {"error", "raising"} => f.rc \in ErrorCode

(* An upcall is made by an operation that runs Python code, an operation   *)
(* begins from outside or while a wrapper waits for the broker.            *)
Above(below, f) ==
  \/ f.kind = "wrap" /\ below.kind = "op" /\ below.at = "python"
  \/ f.kind = "op" /\ below.kind = "wrap" /\ below.at = "broker"

Nested(s) ==
  /\ s \in Seq(Frame)
  /\ \A i \in 1..Len(s) : FrameOK(s[i])
  /\ \A i \in 2..Len(s) : Above(s[i - 1], s[i])
  /\ s # <<>> => s[1].kind = "op"

Stacks == stack \in [Threads -> Seq(Frame)] /\ \A t \in Threads : Nested(stack[t])

-----------------------------------------------------------------------------
(* The operations on one stack.                                            *)

LEMMA FrameType == \A f : FrameOK(f) => f \in Frame
  BY DEF FrameOK, Frame

LEMMA TopFacts ==
  ASSUME NEW s, Nested(s), s # <<>>
  PROVE  Len(s) \in Nat \ {0} /\ Last(s) = s[Len(s)] /\ FrameOK(Last(s))
<1>1. Len(s) \in Nat \ {0}
  BY EmptySeq, LenProperties DEF Nested
<1> QED
  BY <1>1 DEF Nested, Last

LEMMA AppendFacts ==
  ASSUME NEW s, Nested(s), NEW f, FrameOK(f),
         IF s = <<>> THEN f.kind = "op" ELSE Above(Last(s), f)
  PROVE  Nested(Append(s, f)) /\ Append(s, f) # <<>> /\ Last(Append(s, f)) = f
<1> DEFINE r == Append(s, f)
           n == Len(s)
<1>1. s \in Seq(Frame) /\ f \in Frame /\ n \in Nat
  BY FrameType, LenProperties DEF Nested
<1>2. r \in Seq(Frame) /\ Len(r) = n + 1 /\ r[n + 1] = f /\ \A i \in 1..n : r[i] = s[i]
  BY <1>1, AppendProperties
<1>3. r # <<>> /\ Last(r) = f
  BY <1>1, <1>2, EmptySeq DEF Last
<1>4. s # <<>> => n \in 1..n /\ Last(s) = s[n]
  BY <1>1, EmptySeq DEF Last
<1> HIDE DEF r
<1>5. \A i \in 1..Len(r) : FrameOK(r[i])
  BY <1>1, <1>2 DEF Nested
<1>6. ASSUME NEW i \in 2..Len(r) PROVE Above(r[i - 1], r[i])
  <2>1. CASE i = n + 1
    <3>1. s # <<>> /\ i - 1 = n /\ n \in 1..n
      BY <1>1, <1>2, <1>6, <2>1, <1>4, EmptySeq
    <3> QED
      BY <1>2, <1>4, <2>1, <3>1
  <2>2. CASE i # n + 1
    <3>1. i \in 2..n /\ i - 1 \in 1..n /\ i \in 1..n
      BY <1>1, <1>2, <1>6, <2>2
    <3> QED
      BY <1>2, <3>1 DEF Nested
  <2> QED
    BY <2>1, <2>2
<1>7. r[1].kind = "op"
  <2>1. CASE s = <<>>
    BY <1>1, <1>2, <2>1, EmptySeq
  <2>2. CASE s # <<>>
    BY <1>1, <1>2, <1>4, <2>2 DEF Nested
  <2> QED
    BY <2>1, <2>2
<1> QED
  BY <1>2, <1>3, <1>5, <1>6, <1>7 DEF Nested, r

LEMMA FrontFacts ==
  ASSUME NEW s, Nested(s), s # <<>>
  PROVE  /\ Nested(Front(s))
         /\ IF Front(s) = <<>> THEN Last(s).kind = "op" ELSE Above(Last(Front(s)), Last(s))
<1> DEFINE r == Front(s)
           n == Len(s)
<1>1. s \in Seq(Frame) /\ n \in Nat \ {0} /\ Last(s) = s[n]
  BY TopFacts DEF Nested
<1>2. r \in Seq(Frame) /\ Len(r) = n - 1 /\ \A i \in 1..n - 1 : r[i] = s[i]
  <2>1. 1 \in Int /\ n - 1 \in Int /\ \A i \in 1..n - 1 : i \in 1..n
    BY <1>1
  <2>2. \A i \in 1..n - 1 : s[i] \in Frame
    BY <1>1, <2>1, ElementOfSeq
  <2>3. /\ SubSeq(s, 1, n - 1) \in Seq(Frame)
        /\ Len(SubSeq(s, 1, n - 1)) = IF 1 <= n - 1 THEN n - 1 - 1 + 1 ELSE 0
        /\ \A i \in 1..n - 1 - 1 + 1 : SubSeq(s, 1, n - 1)[i] = s[1 + i - 1]
    BY <2>1, <2>2, SubSeqProperties
  <2>4. (IF 1 <= n - 1 THEN n - 1 - 1 + 1 ELSE 0) = n - 1 /\ n - 1 - 1 + 1 = n - 1
        /\ \A i \in 1..n - 1 : 1 + i - 1 = i
    <3> n \in Nat \ {0}
      BY <1>1
    <3> HIDE DEF n
    <3> QED
      OBVIOUS
  <2>5. \A i \in 1..n - 1 : SubSeq(s, 1, n - 1)[i] = s[i]
    BY <2>3, <2>4
  <2> QED
    BY <2>3, <2>4, <2>5 DEF Front
<1> HIDE DEF r
<1>3. \A i \in 1..n - 1 : i \in 1..n
  BY <1>1
<1>4. \A i \in 1..Len(r) : FrameOK(r[i])
  BY <1>2, <1>3 DEF Nested
<1>5. ASSUME NEW i \in 2..Len(r) PROVE Above(r[i - 1], r[i])
  <2>1. i \in 2..n /\ i \in 1..n - 1 /\ i - 1 \in 1..n - 1
    BY <1>1, <1>2, <1>5
  <2> QED
    BY <1>2, <2>1 DEF Nested
<1>6. r # <<>> => n - 1 \in 1..n - 1 /\ 1 \in 1..n - 1 /\ n \in 2..n
  BY <1>1, <1>2, EmptySeq
<1>7. r # <<>> => r[1].kind = "op"
  BY <1>1, <1>2, <1>6, EmptySeq DEF Nested
<1>8. Nested(r)
  BY <1>2, <1>4, <1>5, <1>7 DEF Nested
<1>9. CASE r = <<>>
  <2>1. n = 1
    BY <1>1, <1>2, <1>9, EmptySeq
  <2> QED
    BY <1>1, <1>8, <1>9, <2>1, EmptySeq DEF Nested, r
<1>10. CASE r # <<>>
  <2>1. Last(r) = s[n - 1]
    BY <1>1, <1>2, <1>6, <1>10 DEF Last
  <2>2. Above(s[n - 1], s[n])
    BY <1>6, <1>10 DEF Nested
  <2> QED
    BY <1>1, <1>8, <1>10, <2>1, <2>2 DEF r
<1> QED
  BY <1>9, <1>10

LEMMA ReplaceTop ==
  ASSUME NEW s, Nested(s), s # <<>>, NEW f, FrameOK(f), f.kind = Last(s).kind
  PROVE  /\ Nested(Append(Front(s), f)) /\ Append(Front(s), f) # <<>>
         /\ Last(Append(Front(s), f)) = f
<1>1. Nested(Front(s)) /\ IF Front(s) = <<>> THEN Last(s).kind = "op" ELSE Above(Last(Front(s)), Last(s))
  BY FrontFacts
<1>2. IF Front(s) = <<>> THEN f.kind = "op" ELSE Above(Last(Front(s)), f)
  BY <1>1 DEF Above
<1> QED
  BY <1>1, <1>2, AppendFacts

-----------------------------------------------------------------------------
(* The flag, the error indicator and the stack.                            *)

Failed(s) == s # <<>> /\ Last(s).kind = "wrap" /\ Last(s).at = "leave" /\ Last(s).rc # "OK"

Indicated(s) == Failed(s) \/ (s # <<>> /\ Last(s).kind = "wrap" /\ Last(s).at = "raising")

Flags ==
  /\ raised \in [Threads -> BOOLEAN] /\ err \in [Threads -> ErrorCode \cup {"none"}]
  /\ \A t \in Threads : /\ raised[t] = Failed(stack[t])
                        /\ err[t] = IF Indicated(stack[t]) THEN Last(stack[t]).rc ELSE "none"

(* A step changes the stack, the flag and the indicator of one thread.     *)
Agree(t, s) ==
  /\ stack' = [stack EXCEPT ![t] = s]
  /\ raised' = [raised EXCEPT ![t] = Failed(s)]
  /\ err' = [err EXCEPT ![t] = IF Indicated(s) THEN Last(s).rc ELSE "none"]

LEMMA AgreeKeeps ==
  ASSUME Stacks, Flags, NEW t \in Threads, NEW s, Nested(s), Agree(t, s)
  PROVE  Stacks' /\ Flags'
<1>1. s \in Seq(Frame)
  BY DEF Nested
<1>2. stack' \in [Threads -> Seq(Frame)] /\ stack'[t] = s /\ \A u \in Threads \ {t} : stack'[u] = stack[u]
  BY <1>1 DEF Stacks, Agree
<1>3. Stacks'
  BY <1>2 DEF Stacks
<1>4. Failed(s) \in BOOLEAN
  BY DEF Failed
<1>5. Indicated(s) => Last(s).rc \in ErrorCode
  <2> SUFFICES ASSUME Indicated(s) PROVE Last(s).rc \in ErrorCode
    OBVIOUS
  <2>1. FrameOK(Last(s)) /\ Last(s).kind = "wrap" /\ (Last(s).rc # "OK" \/ Last(s).at = "raising")
    BY TopFacts DEF Indicated, Failed
  <2> QED
    BY <2>1 DEF FrameOK, WrapFrame, ErrorCode
<1>6. raised' \in [Threads -> BOOLEAN] /\ raised'[t] = Failed(s)
      /\ \A u \in Threads \ {t} : raised'[u] = raised[u]
  BY <1>4 DEF Flags, Agree
<1>7. err' \in [Threads -> ErrorCode \cup {"none"}] /\ err'[t] = (IF Indicated(s) THEN Last(s).rc ELSE "none")
      /\ \A u \in Threads \ {t} : err'[u] = err[u]
  BY <1>5 DEF Flags, Agree
<1>8. ASSUME NEW u \in Threads
      PROVE  /\ raised'[u] = Failed(stack'[u])
             /\ err'[u] = IF Indicated(stack'[u]) THEN Last(stack'[u]).rc ELSE "none"
  <2>1. CASE u = t
    BY <1>2, <1>6, <1>7, <2>1
  <2>2. CASE u # t
    BY <1>2, <1>6, <1>7, <2>2 DEF Flags
  <2> QED
    BY <2>1, <2>2
<1> QED
  BY <1>3, <1>6, <1>7, <1>8 DEF Flags

(* The usual case: neither before nor after the step a failed wrapper is   *)
(* about to leave, and the flag and the indicator stay.                    *)
LEMMA StillKeeps ==
  ASSUME Stacks, Flags, NEW t \in Threads, NEW s, Nested(s), stack' = [stack EXCEPT ![t] = s],
         UNCHANGED <<raised, err>>, ~Indicated(stack[t]), ~Indicated(s)
  PROVE  Stacks' /\ Flags'
<1>1. raised[t] = FALSE /\ err[t] = "none"
  BY DEF Flags, Indicated, Failed
<1>2. raised' = [raised EXCEPT ![t] = FALSE] /\ err' = [err EXCEPT ![t] = "none"]
  BY <1>1 DEF Flags
<1>3. Failed(s) = FALSE
  BY DEF Indicated, Failed
<1>4. Agree(t, s)
  BY <1>2, <1>3 DEF Agree
<1> QED
  BY <1>4, AgreeKeeps

Told == said \in [Threads -> [cause : Code \cup {"nothing"}, cim : BOOLEAN, rc : Code]] /\ ErrorReported

LEMMA QuietTold ==
  ASSUME Told, NEW t \in Threads, Quiet(t) PROVE Told'
<1>1. Silent \in [cause : Code \cup {"nothing"}, cim : BOOLEAN, rc : Code] /\ Silent.cause = "OK"
  BY DEF Silent, Code
<1>2. said' = [said EXCEPT ![t] = Silent]
  BY DEF Quiet
<1> QED
  BY <1>1, <1>2 DEF Told, ErrorReported

LEMMA ReturnTold ==
  ASSUME Told, NEW t \in Threads, NEW cause \in Code \cup {"nothing"}, NEW cim \in BOOLEAN, NEW rc \in Code,
         OpReturn(t, cause, cim, rc),
         cause # "OK" => /\ rc \in {"FAILED", "NOT_FOUND"}
                         /\ cim /\ cause \in {"FAILED", "NOT_FOUND"} => rc = cause
  PROVE  Told'
<1> DEFINE r == [cause |-> cause, cim |-> cim, rc |-> rc]
<1>1. r \in [cause : Code \cup {"nothing"}, cim : BOOLEAN, rc : Code]
      /\ r.cause = cause /\ r.cim = cim /\ r.rc = rc
  OBVIOUS
<1>2. said' = [said EXCEPT ![t] = r]
  BY DEF OpReturn
<1> HIDE DEF r
<1>3. said' \in [Threads -> [cause : Code \cup {"nothing"}, cim : BOOLEAN, rc : Code]]
  BY <1>1, <1>2 DEF Told
<1>4. \A u \in Threads : said'[u] = r \/ said'[u] = said[u]
  BY <1>2 DEF Told
<1> QED
  BY <1>1, <1>3, <1>4 DEF Told, ErrorReported

LEMMA NewFrames ==
  /\ FrameOK(Op("block")) /\ FrameOK(Op("python")) /\ Op("block").kind = "op" /\ Op("python").kind = "op"
  /\ \A h \in BOOLEAN : FrameOK(Wrapper(h)) /\ Wrapper(h).kind = "wrap" /\ Wrapper(h).at = "broker"
  BY DEF FrameOK, Op, Wrapper, OpFrame, WrapFrame, Code

LEMMA NoWrapper == \A s : Nested(s) /\ s # <<>> /\ Last(s).kind = "op" => ~Indicated(s)
  BY DEF Indicated, Failed

UpcallInv ==
  /\ gil \in Threads \cup {NoThread} /\ fault \in {"none", "freed_text"}
  /\ Stacks /\ Flags /\ Told

LEMMA StackStep ==
  ASSUME Stacks, Flags, NEW t \in Threads, Step(t)
  PROVE  Stacks' /\ Flags'
<1>0. PICK s : s = stack[t] /\ Nested(s)
  BY DEF Stacks
<1> \A kind, at : IsAt(t, kind, at) => s # <<>> /\ Last(s).kind = kind /\ Last(s).at = at /\ Top(t) = Last(s)
  BY <1>0 DEF IsAt, Top
<1>1. CASE UNCHANGED <<stack, raised, err>>
  BY <1>1 DEF Stacks, Flags
<1>2. CASE TakeGIL(t)
  <2>1. CASE IsAt(t, "op", "block")
    <3>0. PICK f : f = [Last(s) EXCEPT !.at = "python"]
      OBVIOUS
    <3>1. s # <<>> /\ FrameOK(Last(s)) /\ Last(s).kind = "op" /\ Last(s).at = "block"
      BY <1>0, <2>1, TopFacts
    <3>2. Last(s) \in OpFrame /\ Last(s).asked = Last(s).got /\ Last(s).got = "OK"
      BY <3>1 DEF FrameOK, WrapFrame
    <3>3. f \in OpFrame /\ f.kind = "op" /\ f.at = "python" /\ f.asked = Last(s).asked /\ f.got = Last(s).got
      BY <3>0, <3>2 DEF OpFrame
    <3>4. FrameOK(f)
      BY <3>2, <3>3 DEF FrameOK
    <3>5. stack' = [stack EXCEPT ![t] = Append(Front(s), f)] /\ UNCHANGED <<raised, err>>
      BY <1>0, <1>2, <2>1, <3>0 DEF TakeGIL, Goto, SetTop
    <3>6. f.kind = Last(s).kind
      BY <3>1, <3>3
    <3>7. Nested(Append(Front(s), f)) /\ Append(Front(s), f) # <<>> /\ Last(Append(Front(s), f)) = f
      BY <1>0, <3>1, <3>4, <3>6, ReplaceTop
    <3>8. ~Indicated(Append(Front(s), f)) /\ ~Indicated(s)
      BY <3>1, <3>3, <3>7 DEF Indicated, Failed
    <3> QED
      BY <1>0, <3>5, <3>7, <3>8, StillKeeps
  <2> QED
    BY <1>1, <1>2, <2>1 DEF TakeGIL
<1>3. CASE OpCall(t)
  <2>1. s = <<>> \/ (s # <<>> /\ Last(s).kind = "wrap" /\ Last(s).at = "broker")
    BY <1>0, <1>3 DEF OpCall
  <2>2. stack' = [stack EXCEPT ![t] = Append(s, Op("block"))] /\ UNCHANGED <<raised, err>>
    BY <1>0, <1>3 DEF OpCall, Push
  <2>3. IF s = <<>> THEN Op("block").kind = "op" ELSE Above(Last(s), Op("block"))
    BY <2>1, NewFrames DEF Above
  <2>4. Nested(Append(s, Op("block"))) /\ ~Indicated(Append(s, Op("block")))
    BY <1>0, <2>3, NewFrames, AppendFacts, NoWrapper
  <2>5. ~Indicated(s)
    BY <2>1 DEF Indicated, Failed
  <2> QED
    BY <1>0, <2>2, <2>4, <2>5, StillKeeps
<1>4. CASE Upcall(t)
  <2>1. s # <<>> /\ Last(s).kind = "op" /\ Last(s).at = "python"
    BY <1>4 DEF Upcall, Running
  <2>2. PICK h \in BOOLEAN : stack' = [stack EXCEPT ![t] = Append(s, Wrapper(h))]
    BY <1>0, <1>4 DEF Upcall, Push
  <2>3. Above(Last(s), Wrapper(h)) /\ FrameOK(Wrapper(h))
    BY <2>1, NewFrames DEF Above
  <2>4. Nested(Append(s, Wrapper(h))) /\ Last(Append(s, Wrapper(h))) = Wrapper(h)
    BY <1>0, <2>1, <2>3, AppendFacts
  <2>5. ~Indicated(Append(s, Wrapper(h))) /\ ~Indicated(s)
    BY <2>1, <2>4, NewFrames DEF Indicated, Failed
  <2>6. UNCHANGED <<raised, err>>
    BY <1>0, <1>4, <2>5 DEF Upcall, Flags, Indicated
  <2> QED
    BY <1>0, <2>2, <2>4, <2>5, <2>6, StillKeeps
<1>5. CASE BrokerDone(t)
  <2>1. s # <<>> /\ Last(s).kind = "wrap" /\ Last(s).at = "broker" /\ FrameOK(Last(s)) /\ UNCHANGED <<raised, err>>
    BY <1>0, <1>5, TopFacts DEF BrokerDone
  <2>2. PICK rc \in Code :
          stack' = [stack EXCEPT ![t] = Append(Front(s), [Last(s) EXCEPT !.rc = rc,
                                   !.at = IF rc = "OK" THEN "leave" ELSE "error"])]
    BY <1>0, <1>5 DEF BrokerDone, SetTop, Verdict, Code
  <2>2a. PICK f : f = [Last(s) EXCEPT !.rc = rc, !.at = IF rc = "OK" THEN "leave" ELSE "error"]
    OBVIOUS
  <2>3. Last(s) \in WrapFrame
    BY <2>1 DEF FrameOK, OpFrame
  <2>4. f \in WrapFrame /\ f.kind = "wrap" /\ f.rc = rc /\ f.at = IF rc = "OK" THEN "leave" ELSE "error"
    BY <2>2a, <2>3 DEF WrapFrame
  <2>5. FrameOK(f)
    BY <2>4 DEF FrameOK, ErrorCode
  <2>5a. f.kind = Last(s).kind
    BY <2>1, <2>4
  <2>6. Nested(Append(Front(s), f)) /\ Last(Append(Front(s), f)) = f
    BY <1>0, <2>1, <2>5, <2>5a, ReplaceTop
  <2>7. ~Indicated(Append(Front(s), f)) /\ ~Indicated(s)
    <3>1. (f.at = "leave" => f.rc = "OK") /\ f.at # "raising"
      BY <2>4
    <3> QED
      BY <2>1, <2>6, <3>1 DEF Indicated, Failed
  <2> QED
    BY <1>0, <2>1, <2>2, <2>2a, <2>6, <2>7, StillKeeps
<1>6. CASE RaiseEx(t) \/ SetRaised(t)
  <2>0. PICK at : at = IF RaiseEx(t) THEN "raising" ELSE "leave"
    OBVIOUS
  <2>1. /\ s # <<>> /\ Last(s).kind = "wrap" /\ Last(s).at \in {"error", "raising"}
        /\ FrameOK(Last(s)) /\ Top(t) = Last(s)
        /\ RaiseEx(t) <=> Last(s).at = "error"
    BY <1>0, <1>6, TopFacts DEF RaiseEx, SetRaised, Running
  <2>2. Last(s) \in WrapFrame /\ Last(s).rc \in ErrorCode
    BY <2>1 DEF FrameOK, OpFrame
  <2>2a. PICK f : f = [Last(s) EXCEPT !.at = at]
    OBVIOUS
  <2>3. f \in WrapFrame /\ f.kind = "wrap" /\ f.rc = Last(s).rc /\ f.at = at /\ at \in {"raising", "leave"}
    BY <2>0, <2>2, <2>2a DEF WrapFrame
  <2>4. FrameOK(f)
    BY <2>2, <2>3 DEF FrameOK
  <2>5. Nested(Append(Front(s), f)) /\ Last(Append(Front(s), f)) = f /\ Append(Front(s), f) # <<>>
    <3>1. f.kind = Last(s).kind
      BY <2>1, <2>3
    <3> QED
      BY <1>0, <2>1, <2>4, <3>1, ReplaceTop
  <2>6. /\ Failed(Append(Front(s), f)) = (at = "leave")
        /\ Indicated(Append(Front(s), f)) = TRUE
    BY <2>2, <2>3, <2>5 DEF Indicated, Failed, ErrorCode
  <2>7. stack' = [stack EXCEPT ![t] = Append(Front(s), f)]
    BY <1>0, <1>6, <2>0, <2>1, <2>2a DEF RaiseEx, SetRaised, Goto, SetTop
  <2>8. raised' = [raised EXCEPT ![t] = (at = "leave")] /\ err' = [err EXCEPT ![t] = f.rc]
    <3>1. CASE RaiseEx(t)
      <4>1. Last(s).at = "error" /\ at = "raising"
        BY <2>0, <2>1, <3>1
      <4>2. raised[t] = FALSE /\ raised' = raised
        BY <1>0, <3>1, <4>1 DEF RaiseEx, Flags, Failed
      <4>3. raised' = [raised EXCEPT ![t] = FALSE]
        BY <4>2 DEF Flags
      <4> QED
        BY <2>1, <2>3, <3>1, <4>1, <4>3 DEF RaiseEx
    <3>2. CASE ~RaiseEx(t)
      <4>1. Last(s).at = "raising" /\ at = "leave" /\ SetRaised(t)
        BY <1>6, <2>0, <2>1, <3>2
      <4>2. err[t] = f.rc /\ err' = err
        BY <1>0, <2>1, <2>3, <4>1 DEF SetRaised, Flags, Indicated
      <4>3. err' = [err EXCEPT ![t] = f.rc]
        BY <4>2 DEF Flags
      <4> QED
        BY <4>1, <4>3 DEF SetRaised
    <3> QED
      BY <3>1, <3>2
  <2>9. Agree(t, Append(Front(s), f))
    BY <2>5, <2>6, <2>7, <2>8 DEF Agree
  <2> QED
    BY <2>5, <2>9, AgreeKeeps
<1>7. CASE WrapperDone(t)
  <2>1. s # <<>> /\ Last(s).kind = "wrap" /\ Last(s).at = "leave" /\ FrameOK(Last(s)) /\ Top(t) = Last(s)
    BY <1>0, <1>7, TopFacts DEF WrapperDone, Running
  <2>1a. PICK w, op : w = Last(s) /\ op = Last(Front(s))
    OBVIOUS
  <2>2. w \in WrapFrame /\ w.rc \in Code /\ w.handle \in BOOLEAN
    BY <2>1, <2>1a DEF FrameOK, OpFrame, WrapFrame
  <2>3. Nested(Front(s)) /\ Front(s) # <<>> /\ op.kind = "op" /\ op.at = "python"
    BY <1>0, <2>1, <2>1a, FrontFacts DEF Above
  <2>4. op \in OpFrame /\ op.asked = "OK" /\ op.got = "OK"
    BY <2>1a, <2>3, TopFacts DEF FrameOK, WrapFrame
  <2>5. raised[t] = (w.rc # "OK") /\ err[t] = IF w.rc # "OK" THEN w.rc ELSE "none"
    <3>1. Failed(s) = (w.rc # "OK") /\ Indicated(s) = (w.rc # "OK")
      BY <2>1, <2>1a DEF Indicated, Failed
    <3> QED
      BY <1>0, <2>1a, <3>1 DEF Flags
  <2>6. Caught(t) = IF w.rc # "OK" THEN w.rc ELSE "nothing"
    BY <2>2, <2>5 DEF Caught, Code
  <2>6a. PICK f : f = IF raised[t]
                     THEN [op EXCEPT !.at = "caught", !.asked = w.rc, !.got = Caught(t), !.cim = w.handle]
                     ELSE [op EXCEPT !.at = "python", !.asked = w.rc]
    OBVIOUS
  <2>7. FrameOK(f) /\ f.kind = "op"
    <3>1. CASE w.rc = "OK"
      <4>1. f = [op EXCEPT !.at = "python", !.asked = w.rc]
        BY <2>5, <2>6a, <3>1
      <4>2. f \in OpFrame /\ f.kind = "op" /\ f.at = "python" /\ f.asked = "OK" /\ f.got = "OK"
        BY <2>4, <3>1, <4>1 DEF OpFrame, Code
      <4> QED
        BY <4>2 DEF FrameOK
    <3>2. CASE w.rc # "OK"
      <4>1. f = [op EXCEPT !.at = "caught", !.asked = w.rc, !.got = w.rc, !.cim = w.handle]
        BY <2>5, <2>6, <2>6a, <3>2
      <4>2. f \in OpFrame /\ f.kind = "op" /\ f.at = "caught" /\ f.asked = w.rc /\ f.got = w.rc
        BY <2>2, <2>4, <4>1 DEF OpFrame
      <4> QED
        BY <2>2, <3>2, <4>2 DEF FrameOK, ErrorCode
    <3> QED
      BY <3>1, <3>2
  <2>8. Nested(Append(Front(Front(s)), f)) /\ ~Indicated(Append(Front(Front(s)), f))
    <3>1. f.kind = Last(Front(s)).kind
      BY <2>1a, <2>3, <2>7
    <3>2. Nested(Append(Front(Front(s)), f)) /\ Append(Front(Front(s)), f) # <<>>
          /\ Last(Append(Front(Front(s)), f)) = f
      BY <2>3, <2>7, <3>1, ReplaceTop
    <3> QED
      BY <2>7, <3>2, NoWrapper
  <2>9. stack' = [stack EXCEPT ![t] = Append(Front(Front(s)), f)]
    BY <1>0, <1>7, <2>1, <2>1a, <2>6a DEF WrapperDone
  <2>10. raised' = [raised EXCEPT ![t] = FALSE] /\ err' = [err EXCEPT ![t] = "none"]
    BY <1>7, <2>5 DEF WrapperDone
  <2>11. Agree(t, Append(Front(Front(s)), f))
    <3>1. /\ Failed(Append(Front(Front(s)), f)) = FALSE
          /\ Indicated(Append(Front(Front(s)), f)) = FALSE
      BY <2>8 DEF Indicated, Failed
    <3> QED
      BY <2>9, <2>10, <3>1 DEF Agree
  <2> QED
    BY <2>8, <2>11, AgreeKeeps
<1>8. CASE Swallow(t)
  <2>1. s # <<>> /\ Last(s).kind = "op" /\ UNCHANGED <<raised, err>>
        /\ stack' = [stack EXCEPT ![t] = Append(Front(s), Op("python"))]
    BY <1>0, <1>8 DEF Swallow, Running, SetTop
  <2>2. Nested(Append(Front(s), Op("python"))) /\ ~Indicated(Append(Front(s), Op("python"))) /\ ~Indicated(s)
    BY <1>0, <2>1, NewFrames, ReplaceTop, NoWrapper
  <2> QED
    BY <1>0, <2>1, <2>2, StillKeeps
<1>9. CASE OpRaise(t) \/ OpDone(t)
  <2>1. s # <<>> /\ Last(s).kind = "op" /\ UNCHANGED <<raised, err>> /\ stack' = [stack EXCEPT ![t] = Front(s)]
    BY <1>0, <1>9 DEF OpRaise, OpDone, Running, OpReturn
  <2>2. Nested(Front(s)) /\ ~Indicated(Front(s)) /\ ~Indicated(s)
    BY <1>0, <2>1, FrontFacts DEF Above, Indicated, Failed
  <2> QED
    BY <1>0, <2>1, <2>2, StillKeeps
<1> QED
  BY <1>1, <1>2, <1>3, <1>4, <1>5, <1>6, <1>7, <1>8, <1>9 DEF Step, YieldGIL

LEMMA ToldStep ==
  ASSUME Stacks, Told, NEW t \in Threads, Step(t)
  PROVE  Told'
<1>1. CASE UNCHANGED said
  BY <1>1 DEF Told, ErrorReported
<1>2. CASE OpCall(t) \/ BrokerDone(t)
  BY <1>2, QuietTold DEF OpCall, BrokerDone
<1>3. CASE OpRaise(t)
  <2>1. PICK op : op = Top(t)
    OBVIOUS
  <2>2. FrameOK(op) /\ op.kind = "op" /\ op.at = "caught"
    BY <1>3, <2>1, TopFacts DEF OpRaise, Running, IsAt, Top, Stacks
  <2>3. op.got \in ErrorCode /\ op.cim \in BOOLEAN
    BY <2>2 DEF FrameOK, OpFrame, WrapFrame
  <2>4. PICK rc : rc = IF op.cim /\ op.got \in ErrorCode THEN ToError(op.got) ELSE "FAILED"
    OBVIOUS
  <2>5. OpReturn(t, op.got, op.cim, rc)
    BY <1>3, <2>1, <2>4 DEF OpRaise
  <2>6. rc \in {"FAILED", "NOT_FOUND"} /\ rc \in Code
    BY <2>3, <2>4 DEF ToError, ErrorCode, Code
  <2>7. op.cim /\ op.got \in {"FAILED", "NOT_FOUND"} => rc = op.got
    BY <2>3, <2>4 DEF ToError
  <2>8. op.got \in Code \cup {"nothing"}
    BY <2>3 DEF ErrorCode
  <2> QED
    BY <2>3, <2>5, <2>6, <2>7, <2>8, ReturnTold
<1>4. CASE OpDone(t)
  <2>1. PICK rc \in Code : OpReturn(t, "OK", FALSE, rc)
    BY <1>4 DEF OpDone
  <2>2. "OK" \in Code \cup {"nothing"} /\ FALSE \in BOOLEAN
    BY DEF Code
  <2> QED
    BY <2>1, <2>2, ReturnTold
<1> QED
  BY <1>1, <1>2, <1>3, <1>4 DEF Step, TakeGIL, YieldGIL, Upcall, RaiseEx, SetRaised, WrapperDone, Swallow

LEMMA UpcallInit == Init => UpcallInv
<1> SUFFICES ASSUME Init PROVE UpcallInv
  OBVIOUS
<1>1. \A t \in Threads : stack[t] = <<>> /\ raised[t] = FALSE /\ err[t] = "none"
  BY DEF Init
<1>2. Nested(<<>>) /\ <<>> \in Seq(Frame)
  BY EmptySeq DEF Nested
<1>3. Stacks
  BY <1>2 DEF Init, Stacks
<1>4. Flags
  BY <1>1 DEF Init, Flags, Indicated, Failed
<1>5. Told
  BY DEF Init, Told, Silent, Code, ErrorReported
<1> QED
  BY <1>3, <1>4, <1>5 DEF UpcallInv, Init

LEMMA UpcallStep == UpcallInv /\ [Next]_vars => UpcallInv'
<1> SUFFICES ASSUME UpcallInv, [Next]_vars PROVE UpcallInv'
  OBVIOUS
<1>1. ASSUME NEW t \in Threads, Step(t) PROVE UpcallInv'
  <2>1. Stacks' /\ Flags' /\ Told'
    BY <1>1, StackStep, ToldStep DEF UpcallInv
  <2>2. gil' \in Threads \cup {NoThread}
    BY <1>1 DEF UpcallInv, Step, TakeGIL, YieldGIL, OpCall, Upcall, BrokerDone, RaiseEx, SetRaised,
       WrapperDone, Swallow, OpRaise, OpDone, OpReturn
  <2>3. fault' \in {"none", "freed_text"}
    BY <1>1 DEF UpcallInv, Step, TakeGIL, YieldGIL, OpCall, Upcall, BrokerDone, RaiseEx, SetRaised,
       WrapperDone, Swallow, OpRaise, OpDone, TextFault
  <2> QED
    BY <2>1, <2>2, <2>3 DEF UpcallInv
<1>2. CASE UNCHANGED vars
  BY <1>2 DEF vars, UpcallInv, Stacks, Flags, Told, ErrorReported
<1> QED
  BY <1>1, <1>2 DEF Next

LEMMA UpcallAlways == Spec => []UpcallInv
  BY UpcallInit, UpcallStep, PTL DEF Spec

(* The threads' stacks, flags and indicators keep their types.             *)
THEOREM TypeCorrect == Spec => []TypeOK
<1>1. UpcallInv => TypeOK
  BY DEF UpcallInv, Stacks, Flags, Told, Frame, TypeOK
<1> QED
  BY <1>1, UpcallAlways, PTL

(* cmpi.i:742-826, cmpi_types.i:165-179: the flag of every thread is set   *)
(* exactly while a wrapper that raised has not left, however deep          *)
(* operations and upcalls nest, and the error indicator with it.           *)
THEOREM FlagAlwaysExact == Spec => []FlagExact
<1>1. UpcallInv => FlagExact
  BY DEF UpcallInv, Flags, Indicated, Failed, FlagExact, IsAt, Top
<1> QED
  BY <1>1, UpcallAlways, PTL

(* RAISE_IF: a wrapper raises if and only if it took its own broker call   *)
(* for failed, with the code that it meant to raise.                       *)
THEOREM WrapperAlwaysFaithful == Spec => []WrapperFaithful
<1>1. UpcallInv => WrapperFaithful
  <2> SUFFICES ASSUME UpcallInv, NEW t \in Threads, NEW i \in DOMAIN stack[t], stack[t][i].kind = "op"
               PROVE  stack[t][i].got = stack[t][i].asked
    BY DEF WrapperFaithful
  <2>1. Nested(stack[t]) /\ DOMAIN stack[t] = 1..Len(stack[t])
    BY LenProperties DEF UpcallInv, Stacks
  <2>2. FrameOK(stack[t][i])
    BY <2>1 DEF Nested
  <2> QED
    BY <2>2 DEF FrameOK
<1> QED
  BY <1>1, UpcallAlways, PTL

(* cmpi_pywbem_bindings.py:51-63, target_python.c:249-256: an upcall that  *)
(* fails unnoticed makes its operation fail, with the broker's code where  *)
(* the bindings can keep it, and never as a refusal to be unloaded.        *)
THEOREM ErrorAlwaysReported == Spec => []ErrorReported
<1>1. UpcallInv => ErrorReported
  BY DEF UpcallInv, Told
<1> QED
  BY <1>1, UpcallAlways, PTL
=============================================================================
