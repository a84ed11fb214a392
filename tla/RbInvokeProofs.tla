--------------------------- MODULE RbInvokeProofs ---------------------------
(* What an invocation of a Ruby method promises the broker, proved for any *)
(* values, types, integer widths and numbers of arguments.                 *)
EXTENDS RbInvoke, FiniteSetTheorems, SequenceTheorems, TLAPS

(* A conversion ends in success or in whatever rc held before.             *)
LEMMA ConvertRc ==
  ASSUME NEW v, NEW type, NEW c \in Convert(v, type)
  PROVE  c.rc \in Leftover \cup {"OK"}
<1>1. PICK o \in ToValue(v, type) :
        c \in IF o = Raise THEN {[rc |-> rc, data |-> Undefined] : rc \in Leftover}
              ELSE {[rc |-> "OK", data |-> o[2]]}
  BY DEF Convert
<1>2. CASE o = Raise
  BY <1>1, <1>2
<1>3. CASE o # Raise
  BY <1>1, <1>3
<1> QED
  BY <1>2, <1>3

(* The result is completed by the last step of a successful invocation and *)
(* by no other.                                                            *)
ReplyInv ==
  /\ rslt.done => pc = "done" /\ Len(out) = Len(args.outs)
  /\ pc = "done" => (status = "OK" <=> rslt.done)

LEMMA ReplyInit == Init => ReplyInv
  BY DEF Init, ReplyInv

LEMMA ReplyStep == ReplyInv /\ [Next]_vars => ReplyInv'
<1> SUFFICES ASSUME ReplyInv, [Next]_vars PROVE ReplyInv'
  OBVIOUS
<1>1. CASE Declare
  BY <1>1 DEF ReplyInv, Declare, Done
<1>2. CASE GetArg
  BY <1>2 DEF ReplyInv, GetArg, Done
<1>3. CASE Call
  BY <1>3 DEF ReplyInv, Call, Done
<1>4. CASE AddArg
  <2>1. PICK v \in Values : \E c \in Convert(v, args.outs[Len(out) + 1]) :
          IF c.rc = "OK"
          THEN \/ out' = Append(out, c.data) /\ status' = "OK" /\ UNCHANGED pc
               \/ Done("ERR") /\ UNCHANGED out
          ELSE Done(c.rc) /\ UNCHANGED out
    BY <1>4 DEF AddArg
  <2>2. pc = "out" /\ UNCHANGED <<args, rslt>>
    BY <1>4 DEF AddArg
  <2>3. ~rslt.done
    BY <2>2 DEF ReplyInv
  <2>4. pc' = "done" => status' # "OK"
    BY <2>1, <2>2 DEF Done
  <2> QED
    BY <2>2, <2>3, <2>4 DEF ReplyInv
<1>5. CASE ReturnData
  <2>1. PICK v \in Values : \E c \in Convert(v, args.returns) :
          /\ Done(c.rc)
          /\ rslt' = IF c.rc = "OK" THEN [data |-> c.data, done |-> TRUE] ELSE rslt
    BY <1>5 DEF ReturnData
  <2>2. pc = "out" /\ Len(out) = Len(args.outs) /\ UNCHANGED <<args, out>>
    BY <1>5 DEF ReturnData
  <2>3. ~rslt.done
    BY <2>2 DEF ReplyInv
  <2>4. pc' = "done" /\ (status' = "OK" <=> rslt'.done)
    BY <2>1, <2>3 DEF Done
  <2> QED
    BY <2>2, <2>4 DEF ReplyInv
<1>6. CASE UNCHANGED vars
  BY <1>6 DEF ReplyInv, vars
<1> QED
  BY <1>1, <1>2, <1>3, <1>4, <1>5, <1>6 DEF Next

(* target_ruby.c:598-712: a result is completed exactly when the           *)
(* invocation succeeds, and then with every output argument, whatever an   *)
(* uninitialised rc holds.                                                 *)
THEOREM ReplyWhole == Spec => []WholeReply
<1>1. ReplyInv => WholeReply
  BY DEF ReplyInv, WholeReply
<1> QED
  BY <1>1, ReplyInit, ReplyStep, PTL DEF Spec

(* The status CMGetArg leaves for a missing argument is gone once the      *)
(* method has been called.                                                 *)
MissingInv ==
  /\ status = "MISSING" => pc \in {"in", "call"}
  /\ pc \in {"idle", "in", "call", "out", "done"}

LEMMA MissingInit == Init => MissingInv
  BY DEF Init, MissingInv

LEMMA MissingStep ==
  ASSUME "MISSING" \notin Leftover
  PROVE  MissingInv /\ [Next]_vars => MissingInv'
<1> SUFFICES ASSUME MissingInv, [Next]_vars PROVE MissingInv'
  OBVIOUS
<1>1. CASE Declare
  BY <1>1 DEF MissingInv, Declare, Done
<1>2. CASE GetArg
  BY <1>2 DEF MissingInv, GetArg, Done
<1>3. CASE Call
  BY <1>3 DEF MissingInv, Call, Done
<1>4. CASE AddArg
  <2>1. pc = "out"
    BY <1>4 DEF AddArg
  <2>2. PICK v \in Values : \E c \in Convert(v, args.outs[Len(out) + 1]) :
          IF c.rc = "OK"
          THEN \/ out' = Append(out, c.data) /\ status' = "OK" /\ UNCHANGED pc
               \/ Done("ERR") /\ UNCHANGED out
          ELSE Done(c.rc) /\ UNCHANGED out
    BY <1>4 DEF AddArg
  <2>3. PICK c \in Convert(v, args.outs[Len(out) + 1]) :
          (status' = "OK" /\ pc' = pc) \/ Done("ERR") \/ Done(c.rc)
    BY <2>2
  <2>4. c.rc # "MISSING"
    BY <2>3, ConvertRc
  <2> QED
    BY <2>1, <2>3, <2>4 DEF MissingInv, Done
<1>5. CASE ReturnData
  <2>1. PICK v \in Values : \E c \in Convert(v, args.returns) : Done(c.rc)
    BY <1>5 DEF ReturnData
  <2>2. PICK c \in Convert(v, args.returns) : Done(c.rc)
    BY <2>1
  <2>3. c.rc # "MISSING"
    BY <2>2, ConvertRc
  <2> QED
    BY <2>2, <2>3 DEF MissingInv, Done
<1>6. CASE UNCHANGED vars
  BY <1>6 DEF MissingInv, vars
<1> QED
  BY <1>1, <1>2, <1>3, <1>4, <1>5, <1>6 DEF Next

(* target_ruby.c:645-653: that an input argument is missing never is the   *)
(* status of the invocation.                                               *)
THEOREM MissingIgnored ==
  ASSUME "MISSING" \notin Leftover
  PROVE  Spec => []MissingHarmless
<1>1. MissingInv => MissingHarmless
  BY DEF MissingInv, MissingHarmless
<1> QED
  BY <1>1, MissingInit, MissingStep, PTL DEF Spec

-----------------------------------------------------------------------------
(* What the method is called with: one value for each argument that has    *)
(* been read, in order.                                                    *)
Given(d) == IF d = Missing THEN <<"nil">> ELSE ToRuby(d)

Inputs  == {Given(d) : d \in InData \cup {Missing}}
Outcomes == UNION {Convert(v, type) : v \in Values, type \in OutTypes}
OutData  == {c.data : c \in Outcomes}

LEMMA OutcomeData ==
  ASSUME NEW v \in Values, NEW type \in OutTypes, NEW c \in Convert(v, type)
  PROVE  c.data \in OutData
<1>1. Convert(v, type) \in {Convert(w, t) : w \in Values, t \in OutTypes}
  OBVIOUS
<1>2. c \in Outcomes
  BY <1>1 DEF Outcomes
<1> QED
  BY <1>2 DEF OutData

InvokeInv ==
  /\ pc \in {"idle", "in", "call", "out", "done"} /\ status \in Status /\ rslt.done \in BOOLEAN
  /\ args.ins \in 0..MaxIns
  /\ args.outs \in Seq(OutTypes) /\ Len(args.outs) <= MaxOuts
  /\ out \in Seq(OutData) /\ Len(out) <= Len(args.outs)
  /\ given \in Seq(Values) /\ (Len(given) = Len(out) \/ (pc = "done" /\ Len(given) = Len(out) + 1))
  /\ ins \in Seq(InData \cup {Missing}) /\ Len(ins) = args.ins
  /\ input \in Seq(Inputs) /\ Len(input) <= args.ins
  /\ \A i \in 1..Len(input) : input[i] = Given(ins[i])
  /\ pc = "idle" => input = <<>> /\ out = <<>> /\ given = <<>>

LEMMA InvokeInit == Init => InvokeInv
<1>1. /\ <<>> \in Seq(OutTypes) /\ <<>> \in Seq(OutData) /\ <<>> \in Seq(Values)
      /\ <<>> \in Seq(InData \cup {Missing}) /\ <<>> \in Seq(Inputs)
  BY EmptySeq
<1>2. Len(<<>>) = 0 /\ 1..0 = {}
  OBVIOUS
<1> QED
  BY <1>1, <1>2, RbInvokeAssumption DEF Init, NoArgs, InvokeInv, Status

LEMMA InvokeDeclare == InvokeInv /\ Declare => InvokeInv'
<1> SUFFICES ASSUME InvokeInv, Declare PROVE InvokeInv'
  OBVIOUS
<1>0. pc = "idle" /\ input = <<>> /\ out = <<>> /\ given = <<>> /\ UNCHANGED <<input, given, out, rslt>>
  BY DEF Declare, InvokeInv
<1>1. CASE Done("MISMATCH") /\ UNCHANGED <<args, ins>>
  BY <1>0, <1>1 DEF InvokeInv, Done, Status
<1>2. ASSUME NEW n \in 0..MaxIns, NEW k \in 0..MaxOuts, NEW data \in [1..n -> InData \cup {Missing}],
             NEW outs \in [1..k -> OutTypes], NEW returns \in ReturnTypes,
             args' = [ins |-> n, outs |-> outs, returns |-> returns], ins' = data, pc' = "in", status' = status
      PROVE  InvokeInv'
  <2>1. n \in Nat /\ k \in Nat /\ n <= MaxIns /\ k <= MaxOuts
    BY RbInvokeAssumption
  <2>2. data \in Seq(InData \cup {Missing}) /\ Len(data) = n /\ outs \in Seq(OutTypes) /\ Len(outs) = k
    BY <2>1, SeqDef, LenProperties
  <2>3. args'.ins = n /\ args'.outs = outs
    BY <1>2
  <2>4. Len(<<>>) = 0 /\ 1..0 = {}
    OBVIOUS
  <2> QED
    BY <1>0, <1>2, <2>1, <2>2, <2>3, <2>4 DEF InvokeInv
<1> QED
  BY <1>1, <1>2 DEF Declare

LEMMA InvokeGetArg == InvokeInv /\ GetArg => InvokeInv'
<1> SUFFICES ASSUME InvokeInv, GetArg PROVE InvokeInv'
  OBVIOUS
<1>0. pc = "in" /\ UNCHANGED <<args, ins, given, out, rslt>>
  BY DEF GetArg
<1>1. CASE ((pc' = "call" /\ status' = status) \/ Done("ERR")) /\ input' = input
  BY <1>0, <1>1 DEF InvokeInv, Done, Status
<1>2. ASSUME Len(input) # args.ins, input' = Append(input, Given(ins[Len(input) + 1])),
             status' \in {"OK", "MISSING"}, pc' = pc
      PROVE  InvokeInv'
  <2> DEFINE n == Len(input)
  <2>1. n \in Nat /\ args.ins \in Nat /\ n + 1 <= args.ins /\ n + 1 \in 1..Len(ins)
    BY <1>2, RbInvokeAssumption, LenProperties DEF InvokeInv
  <2>2. ins[n + 1] \in InData \cup {Missing}
    BY <2>1, ElementOfSeq DEF InvokeInv
  <2>3. Given(ins[n + 1]) \in Inputs
    BY <2>2 DEF Inputs
  <2>4. /\ input' \in Seq(Inputs) /\ Len(input') = n + 1 /\ input'[n + 1] = Given(ins[n + 1])
        /\ \A i \in 1..n : input'[i] = input[i]
    BY <1>2, <2>3, AppendProperties DEF InvokeInv
  <2>5. \A i \in 1..n + 1 : i \in 1..n \/ i = n + 1
    BY <2>1
  <2>6. \A i \in 1..n : input[i] = Given(ins[i])
    BY DEF InvokeInv
  <2> HIDE DEF n
  <2>7. \A i \in 1..Len(input') : input'[i] = Given(ins'[i])
    BY <1>0, <2>4, <2>5, <2>6
  <2>8. status' \in Status
    BY <1>2 DEF Status
  <2> QED
    BY <1>0, <1>2, <2>1, <2>4, <2>7, <2>8 DEF InvokeInv
<1> QED
  BY <1>0, <1>1, <1>2 DEF GetArg, Given, Done

LEMMA InvokeCall == InvokeInv /\ Call => InvokeInv'
<1> SUFFICES ASSUME InvokeInv, Call PROVE InvokeInv'
  OBVIOUS
<1>1. pc = "call" /\ pc' \in {"done", "out"} /\ status' \in Status
  BY RbInvokeAssumption DEF Call, Done, Status
<1>2. UNCHANGED <<args, ins, input, given, out, rslt>>
  BY DEF Call
<1> QED
  BY <1>1, <1>2 DEF InvokeInv

LEMMA InvokeAddArg == InvokeInv /\ AddArg => InvokeInv'
<1> SUFFICES ASSUME InvokeInv, AddArg PROVE InvokeInv'
  OBVIOUS
<1>0. pc = "out" /\ Len(out) < Len(args.outs) /\ UNCHANGED <<args, ins, input, rslt>>
  BY DEF AddArg
<1> DEFINE k == Len(out)
<1>1. k \in Nat /\ Len(args.outs) \in Nat /\ k + 1 <= Len(args.outs) /\ k + 1 \in 1..Len(args.outs)
  BY <1>0, LenProperties DEF InvokeInv
<1>2. args.outs[k + 1] \in OutTypes
  BY <1>1, ElementOfSeq DEF InvokeInv
<1>v. PICK v \in Values :
        /\ given' = Append(given, v)
        /\ \E c \in Convert(v, args.outs[k + 1]) :
             IF c.rc = "OK"
             THEN \/ out' = Append(out, c.data) /\ status' = "OK" /\ UNCHANGED pc
                  \/ Done("ERR") /\ UNCHANGED out
             ELSE Done(c.rc) /\ UNCHANGED out
  BY DEF AddArg
<1>3. PICK c \in Convert(v, args.outs[k + 1]) :
        /\ given' = Append(given, v)
        /\ IF c.rc = "OK"
           THEN \/ out' = Append(out, c.data) /\ status' = "OK" /\ UNCHANGED pc
                \/ Done("ERR") /\ UNCHANGED out
           ELSE Done(c.rc) /\ UNCHANGED out
  BY <1>v
<1>4. c.data \in OutData /\ c.rc \in Status
  <2>1. c.rc \in Leftover \cup {"OK"}
    BY ConvertRc
  <2>3. c.data \in OutData
    BY <1>2, OutcomeData
  <2>4. c.rc \in Status
    BY <2>1, RbInvokeAssumption DEF Status
  <2> QED
    BY <2>3, <2>4
<1>5. given' \in Seq(Values) /\ Len(given') = Len(given) + 1 /\ Len(given) = k
  BY <1>0, <1>3, AppendProperties DEF InvokeInv
<1>6. Append(out, c.data) \in Seq(OutData) /\ Len(Append(out, c.data)) = k + 1
  BY <1>4, AppendProperties DEF InvokeInv
<1>7. \/ out' = Append(out, c.data) /\ status' = "OK" /\ pc' = "out"
      \/ out' = out /\ status' \in {"ERR", c.rc} /\ pc' = "done"
  BY <1>0, <1>3 DEF Done
<1>8. out' \in Seq(OutData) /\ Len(out') <= Len(args.outs)
      /\ (Len(given') = Len(out') \/ (pc' = "done" /\ Len(given') = Len(out') + 1))
  BY <1>1, <1>5, <1>6, <1>7 DEF InvokeInv
<1>9. status' \in Status /\ pc' \in {"out", "done"}
  BY <1>4, <1>7 DEF Status
<1> QED
  BY <1>0, <1>5, <1>8, <1>9 DEF InvokeInv

LEMMA InvokeReturn == InvokeInv /\ ReturnData => InvokeInv'
<1> SUFFICES ASSUME InvokeInv, ReturnData PROVE InvokeInv'
  OBVIOUS
<1>0. pc = "out" /\ UNCHANGED <<args, ins, input, out>>
  BY DEF ReturnData
<1>v. PICK v \in Values :
        /\ given' = Append(given, v)
        /\ \E c \in Convert(v, args.returns) :
             /\ Done(c.rc)
             /\ rslt' = IF c.rc = "OK" THEN [data |-> c.data, done |-> TRUE] ELSE rslt
  BY DEF ReturnData
<1>1. PICK c \in Convert(v, args.returns) :
        /\ given' = Append(given, v) /\ Done(c.rc)
        /\ rslt' = IF c.rc = "OK" THEN [data |-> c.data, done |-> TRUE] ELSE rslt
  BY <1>v
<1>2. given' \in Seq(Values) /\ Len(given') = Len(given) + 1 /\ Len(given) = Len(out)
  BY <1>0, <1>1, AppendProperties DEF InvokeInv
<1>3. c.rc \in Status
  BY <1>1, ConvertRc, RbInvokeAssumption DEF Status
<1>4. rslt'.done \in BOOLEAN
  BY <1>1 DEF InvokeInv
<1> QED
  BY <1>0, <1>1, <1>2, <1>3, <1>4 DEF InvokeInv, Done

LEMMA InvokeAlways == Spec => []InvokeInv
<1>1. UNCHANGED vars /\ InvokeInv => InvokeInv'
  BY DEF vars, InvokeInv
<1>2. InvokeInv /\ [Next]_vars => InvokeInv'
  BY <1>1, InvokeDeclare, InvokeGetArg, InvokeCall, InvokeAddArg, InvokeReturn DEF Next
<1> QED
  BY <1>2, InvokeInit, PTL DEF Spec

(* An invocation reads no more arguments and adds no more output arguments *)
(* than the provider declares, for any numbers of them.                    *)
THEOREM TypeCorrect == Spec => []TypeOK
<1>1. InvokeInv => TypeOK
  <2> SUFFICES ASSUME InvokeInv PROVE TypeOK
    OBVIOUS
  <2>1. Len(out) \in Nat /\ Len(given) \in Nat
    BY LenProperties DEF InvokeInv
  <2>2. Len(given) \in Len(out)..Len(out) + 1
    BY <2>1 DEF InvokeInv
  <2> QED
    BY <2>2 DEF InvokeInv, TypeOK
<1> QED
  BY <1>1, InvokeAlways, PTL

(* The broker's data have types and are what their types say.              *)
Sane(d) ==
  /\ d.type # Null
  /\ d.value[1] = "int" => d.value = <<"int", d.value[2]>>

LEMMA ReadExact ==
  ASSUME NEW d, Sane(d)
  PROVE  IF d.value = <<"null">> THEN ToRuby(d) = <<"nil">>
         ELSE d.value[1] = "int" /\ Fixnum(d.value[2]) => ToRuby(d) = d.value
<1>1. CASE d.value = <<"null">>
  <2>1. d.value[1] = "null" /\ d.value[1] # "int" /\ d.value[1] # "array" /\ d.value # NoText
    BY <1>1 DEF NoText
  <2>2. ToRuby(d) = Element(d)
    BY <2>1 DEF ToRuby
  <2>3. Element(d) = <<"nil">>
    BY <2>1 DEF Element, IsNull
  <2> QED
    BY <1>1, <2>2, <2>3
<1>2. CASE d.value[1] = "int" /\ Fixnum(d.value[2])
  <2>1. d.value # <<"null">> /\ d.value # NoText /\ d.value[1] # "array" /\ d.value[1] # "null"
    BY <1>2 DEF NoText
  <2>4. ToRuby(d) = Element(d) /\ ~(d.type = Null \/ d.value[1] = "null")
    BY <2>1 DEF ToRuby, Sane
  <2>2. ToRuby(d) = FromBits(d.value[2])
    BY <1>2, <2>1, <2>4 DEF Element, IsNull
  <2>3. FromBits(d.value[2]) = <<"int", d.value[2]>>
    BY <1>2 DEF FromBits, Fixnum
  <2> QED
    BY <1>2, <2>1, <2>2, <2>3 DEF Sane
<1> QED
  BY <1>1, <1>2

(* target_ruby.c:640-655: the method is called with nil for what is        *)
(* missing or null and with the broker's number wherever a Fixnum holds it,*)
(* each argument in the place that it was declared in.                     *)
THEOREM InputAlwaysExact ==
  ASSUME \A d \in InData : Sane(d)
  PROVE  Spec => []InputExact
<1>1. InvokeInv => InputExact
  <2> SUFFICES ASSUME InvokeInv, NEW i \in DOMAIN input
               PROVE  IF ins[i] = Missing \/ ins[i].value = <<"null">> THEN input[i] = <<"nil">>
                      ELSE ins[i].value[1] = "int" /\ Fixnum(ins[i].value[2]) => input[i] = ins[i].value
    BY DEF InputExact
  <2>1. i \in 1..Len(input) /\ i \in 1..Len(ins)
    BY LenProperties, RbInvokeAssumption DEF InvokeInv
  <2>2. ins[i] \in InData \cup {Missing} /\ input[i] = Given(ins[i])
    BY <2>1, ElementOfSeq DEF InvokeInv
  <2>3. CASE ins[i] = Missing
    BY <2>2, <2>3 DEF Given
  <2>4. CASE ins[i] # Missing
    <3>1. Sane(ins[i]) /\ input[i] = ToRuby(ins[i])
      BY <2>2, <2>4 DEF Given
    <3> QED
      BY <2>4, <3>1, ReadExact
  <2> QED
    BY <2>3, <2>4
<1> QED
  BY <1>1, InvokeAlways, PTL

-----------------------------------------------------------------------------
(* Powers of two.  No prover knows them; there are as many subsets of 1..k *)
(* as 2^k, which tells what is needed of them.                             *)
LEMMA PowerCounts ==
  ASSUME NEW k \in Nat
  PROVE  IsFiniteSet(SUBSET (1..k)) /\ Cardinality(SUBSET (1..k)) = 2^k
<1>1. IsFiniteSet(1..k) /\ Cardinality(1..k) = k
  BY FS_Interval
<1> QED
  BY <1>1, FS_SUBSET

LEMMA PowerPositive ==
  ASSUME NEW k \in Nat
  PROVE  2^k \in Nat \ {0}
<1>1. Cardinality(SUBSET (1..k)) \in Nat
  BY PowerCounts, FS_CardinalityType
<1>2. {} \in SUBSET (1..k)
  OBVIOUS
<1>3. Cardinality(SUBSET (1..k)) # 0
  BY <1>2, PowerCounts, FS_EmptySet
<1> QED
  BY <1>1, <1>3, PowerCounts

LEMMA PowerGrows ==
  ASSUME NEW k \in Nat, NEW m \in Nat, k <= m
  PROVE  2^k <= 2^m
<1>1. SUBSET (1..k) \in SUBSET SUBSET (1..m)
  BY SMT
<1>2. Cardinality(SUBSET (1..k)) <= Cardinality(SUBSET (1..m))
  BY <1>1, PowerCounts, FS_Subset
<1> QED
  BY <1>2, PowerCounts

LEMMA PowerDoubles ==
  ASSUME NEW k \in Nat
  PROVE  2^(k + 1) = 2 * 2^k
<1> DEFINE S == SUBSET (1..k)
           T == {x \in SUBSET (1..k + 1) : k + 1 \in x}
           f == [x \in S |-> x \cup {k + 1}]
<1>1. S \cup T = SUBSET (1..k + 1) /\ S \cap T = {}
  BY SMT
<1>2. f \in Bijection(S, T)
  <2>1. f \in [S -> T]
    BY SMT
  <2>2. ASSUME NEW x \in S, NEW y \in S, f[x] = f[y] PROVE x = y
    <3>1. x = f[x] \ {k + 1} /\ y = f[y] \ {k + 1}
      BY SMT
    <3> QED
      BY <2>2, <3>1
  <2>3. ASSUME NEW y \in T PROVE \E x \in S : f[x] = y
    <3>1. y \ {k + 1} \in S
      BY SMT
    <3>2. f[y \ {k + 1}] = y
      BY <3>1
    <3> QED
      BY <3>1, <3>2
  <2> HIDE DEF f, S, T
  <2> QED
    BY <2>1, <2>2, <2>3, Zenon DEF Bijection, Injection, Surjection, IsInjective
<1>3. IsFiniteSet(S) /\ Cardinality(S) = 2^k /\ Cardinality(S \cup T) = 2^(k + 1)
  BY <1>1, PowerCounts, k + 1 \in Nat
<1>4. IsFiniteSet(T) /\ Cardinality(T) = Cardinality(S)
  <2>1. ExistsBijection(S, T)
    BY <1>2 DEF ExistsBijection
  <2> HIDE DEF S, T
  <2> QED
    BY <1>3, <2>1, FS_Bijection
<1>5. Cardinality(S \cup T) = Cardinality(S) + Cardinality(T)
  <2> HIDE DEF S, T
  <2>1. Cardinality(S \cup T) = Cardinality(S) + Cardinality(T) - Cardinality(S \cap T)
    BY <1>3, <1>4, FS_Union
  <2>2. Cardinality(S \cap T) = 0
    BY <1>1, FS_EmptySet
  <2> QED
    BY <1>3, <1>4, <2>1, <2>2, FS_CardinalityType
<1>6. 2^k \in Nat
  BY PowerPositive
<1> HIDE DEF S, T
<1> QED
  BY <1>3, <1>4, <1>5, <1>6

-----------------------------------------------------------------------------
LEMMA ModBound ==
  ASSUME NEW n \in Int, NEW p \in Nat \ {0}
  PROVE  n % p \in 0 .. p - 1 /\ n = p * (n \div p) + (n % p) /\ n \div p \in Int
  OBVIOUS

LEMMA ModSmall ==
  ASSUME NEW p \in Nat \ {0}, NEW n \in 0 .. p - 1
  PROVE  n % p = n
  OBVIOUS

LEMMA ModMultiple ==
  ASSUME NEW p \in Nat \ {0}, NEW k \in Int
  PROVE  (p * k) % p = 0
  OBVIOUS

LEMMA ModCongruent ==
  ASSUME NEW n \in Int, NEW p \in Nat \ {0}
  PROVE  ((n % p) - n) % p = 0
<1> DEFINE q == n \div p
<1>1. q \in Int /\ n = p * q + (n % p) /\ n % p \in Int
  BY ModBound
<1>2. -q \in Int /\ p * q \in Int /\ p * (-q) = -(p * q)
  BY <1>1
<1> HIDE DEF q
<1>3. (n % p) - n = p * (-q)
  BY <1>1, <1>2
<1>4. (p * (-q)) % p = 0
  BY <1>2, ModMultiple
<1> QED
  BY <1>3, <1>4
(* What the low bits of a number are: within the width, and off by a       *)
(* multiple of two to the width.                                           *)
LEMMA HalfPower ==
  ASSUME NEW w \in Nat \ {0}
  PROVE  2^(w-1) \in Nat \ {0} /\ 2^w \in Nat \ {0} /\ 2^w = 2 * 2^(w-1)
<1>1. w - 1 \in Nat /\ (w - 1) + 1 = w
  OBVIOUS
<1> QED
  BY <1>1, PowerPositive, PowerDoubles

LEMMA WrapBound ==
  ASSUME NEW n \in Int, NEW w \in Nat \ {0}
  PROVE  Wrap(n, w) \in 0 .. 2^w - 1 /\ (Wrap(n, w) - n) % 2^w = 0
  BY HalfPower, ModBound, ModCongruent DEF Wrap

LEMMA WrapSignedBound ==
  ASSUME NEW n \in Int, NEW w \in Nat \ {0}
  PROVE  WrapSigned(n, w) \in -2^(w-1) .. 2^(w-1) - 1 /\ (WrapSigned(n, w) - n) % 2^w = 0
<1> DEFINE p == 2^w
           h == 2^(w-1)
<1>1. p \in Nat \ {0} /\ h \in Nat \ {0} /\ p = 2 * h
  BY HalfPower
<1>2. WrapSigned(n, w) = ((n + h) % p) - h
  BY DEF WrapSigned
<1> HIDE DEF p, h
<1>0. n + h \in Int
  BY <1>1
<1>3. (n + h) % p \in 0 .. p - 1 /\ (((n + h) % p) - (n + h)) % p = 0
  BY <1>0, <1>1, ModBound, ModCongruent
<1>4. ((n + h) % p) - (n + h) = (((n + h) % p) - h) - n
  BY <1>0, <1>1, <1>3
<1>5. ((n + h) % p) - h \in -h .. h - 1
  BY <1>1, <1>3
<1> USE DEF p, h
<1> QED
  BY <1>2, <1>3, <1>4, <1>5

LEMMA WrapSignedFits ==
  ASSUME NEW w \in Nat \ {0}, NEW n \in -2^(w-1) .. 2^(w-1) - 1
  PROVE  WrapSigned(n, w) = n
<1> DEFINE p == 2^w
           h == 2^(w-1)
<1>1. p \in Nat \ {0} /\ h \in Nat \ {0} /\ p = 2 * h
  BY HalfPower
<1>2. WrapSigned(n, w) = ((n + h) % p) - h /\ n \in -h .. h - 1
  BY DEF WrapSigned
<1> HIDE DEF p, h
<1>3. n + h \in 0 .. p - 1 /\ n \in Int
  BY <1>1, <1>2
<1>4. (n + h) % p = n + h
  BY <1>1, <1>3, ModSmall
<1> QED
  BY <1>1, <1>2, <1>3, <1>4

(* A number that a narrower type than a Fixnum's has room for is read back *)
(* as it is.                                                               *)
LEMMA NarrowRead ==
  ASSUME NEW b \in Nat \ {0}, NEW f \in Nat \ {0}, b < f,
         NEW m \in Int, m \in 0 .. 2^b - 1 \/ m \in -2^(b-1) .. 2^(b-1) - 1
  PROVE  WrapSigned(m, f) = m
<1>1. b \in Nat /\ f - 1 \in Nat /\ b <= f - 1 /\ b - 1 \in Nat
  OBVIOUS
<1>2. 2^b <= 2^(f-1) /\ 2^(b-1) <= 2^b
  BY <1>1, PowerGrows
<1>3. 2^b \in Nat /\ 2^(f-1) \in Nat /\ 2^(b-1) \in Nat
  BY HalfPower
<1>4. m \in -2^(f-1) .. 2^(f-1) - 1
  BY <1>2, <1>3
<1> QED
  BY <1>4, WrapSignedFits

LEMMA Widths ==
  /\ \A base \in Integer : Bits[base] \in Nat \ {0}
  /\ Bits["fixnum"] \in Nat \ {0}
  BY RbValuesAssumption

-----------------------------------------------------------------------------
(* What a conversion to a scalar promises of the data d it makes of v.     *)
ScalarKept(v, d, base) ==
  /\ SameScalar(v, Element(d), base)
  /\ d.value[1] # "array"
  /\ d.type = Null => v = <<"nil">> \/ base = "null"
  /\ d.type # Null =>
       /\ d.value # <<"null">>
       /\ \/ base \notin {"EmbeddedInstance", "EmbeddedObject"} /\ d.type = Scalar(base)
          \/ base = "null" /\ d.type = Scalar(d.type.base)
          \/ base \in {"EmbeddedInstance", "EmbeddedObject"} /\ d.type = Scalar("instance")

LEMMA IntegerKept ==
  ASSUME NEW n \in Int, NEW base \in Integer, NEW o \in FromInteger(n, base)
  PROVE  /\ o # Raise /\ o[2].type = Scalar(base)
         /\ o[2].value = <<"int", o[2].value[2]>>
         /\ Fixnum(n) => o[2].value[2] = IF base \in Signed THEN WrapSigned(n, Bits[base])
                                         ELSE Wrap(n, Bits[base])
<1>1. PICK l \in Longs(n) :
        o = Good(Scalar(base), <<"int", IF base \in Signed THEN WrapSigned(l, Bits[base])
                                        ELSE Wrap(l, Bits[base])>>)
  BY DEF FromInteger
<1>2. Fixnum(n) => l = n
  BY DEF Longs
<1> QED
  BY <1>1, <1>2 DEF Good, Data, Raise

(* A number of an integer type comes back as SameScalar says.              *)
LEMMA IntegerReadBack ==
  ASSUME NEW n \in Int, NEW base \in Integer, NEW o \in FromInteger(n, base)
  PROVE  SameScalar(<<"int", n>>, Element(o[2]), base)
<1> DEFINE v == <<"int", n>>
           d == o[2]
           m == d.value[2]
           b == Bits[base]
           f == Bits["fixnum"]
<1>1. d.type = Scalar(base) /\ d.value = <<"int", m>> /\ base # "null"
  BY IntegerKept DEF Integer, Signed, Unsigned
<1>2. Element(d) = FromBits(m)
  <2>1. ~IsNull(d) /\ d.value # NoText
    BY <1>1 DEF IsNull, Scalar, Null, NoText
  <2> QED
    BY <1>1, <2>1 DEF Element
<1>3. Element(d) = <<"int", WrapSigned(m, f)>>
  BY <1>2 DEF FromBits
<1>4. Fixnum(n) => m = IF base \in Signed THEN WrapSigned(n, b) ELSE Wrap(n, b)
  BY IntegerKept
<1>5. InRange(n, base) => Element(d) = v
  BY <1>3, <1>4 DEF InRange, Fixnum
<1>6. ASSUME Fixnum(n), b < f PROVE (WrapSigned(m, f) - n) % 2^b = 0
  <2>1. b \in Nat \ {0} /\ f \in Nat \ {0} /\ f - 1 \in Nat
    BY Widths
  <2>2. /\ m \in 0 .. 2^b - 1 \/ m \in -2^(b-1) .. 2^(b-1) - 1
        /\ (m - n) % 2^b = 0
    BY <1>4, <1>6, <2>1, WrapBound, WrapSignedBound
  <2>3. 2^b \in Int /\ 2^(b-1) \in Int
    BY <2>1, HalfPower
  <2>4. m \in Int
    BY <2>2, <2>3
  <2>5. WrapSigned(m, f) = m
    BY <1>6, <2>1, <2>2, <2>4, NarrowRead
  <2> QED
    BY <2>2, <2>5
<1> HIDE DEF d, m, b, f
<1>7. v[1] = "int" /\ v[2] = n /\ v # <<"nil">>
  OBVIOUS
<1>8. SameScalar(v, Element(d), base) =
        (/\ Element(d)[1] = "int"
         /\ InRange(n, base) => Element(d) = v
         /\ Fixnum(n) /\ b < f => (Element(d)[2] - n) % 2^b = 0)
  BY <1>7 DEF SameScalar, b, f
<1> QED
  BY <1>3, <1>5, <1>6, <1>8 DEF d, v

(* SameScalar asks nothing of a value whose class is not of the type.      *)
LEMMA SameOther ==
  ASSUME NEW v, NEW r, NEW base, v # <<"nil">>,
         ~(v[1] = "int" /\ base \in Integer), ~(v[1] = "float" /\ base \in Real),
         ~(v[1] \in {"string", "symbol"} /\ base = "string"),
         ~(v[1] = "bool" /\ base = "boolean"), ~(v[1] = "instance" /\ base = "instance")
  PROVE  SameScalar(v, r, base)
  BY DEF SameScalar

(* A value that is neither null, nor text, nor an integer is read as it is.*)
LEMMA ElementKept ==
  ASSUME NEW type, NEW x, type # Null, x[1] \notin {"null", "int"}, x # NoText
  PROVE  Element(Data(type, x)) = x
  BY DEF Element, IsNull, Data

LEMMA Bases ==
  /\ "null" \notin Real \cup Integer /\ "boolean" \notin Real \cup Integer
  /\ "string" \notin Real \cup Integer /\ "instance" \notin Real \cup Integer
  /\ "char16" \notin Real \cup Integer /\ Real \cap Integer = {}
  /\ "EmbeddedInstance" \notin Real \cup Integer /\ "EmbeddedObject" \notin Real \cup Integer
  BY DEF Real, Integer, Signed, Unsigned

LEMMA ScalarTypes ==
  \A base : /\ Scalar(base).base = base /\ Scalar(base) = Scalar(Scalar(base).base)
            /\ Scalar(base) = Null <=> base = "null"
  BY DEF Scalar, Null

LEMMA RealKept ==
  ASSUME NEW v, IsRuby(v), v[1] # "nil", NEW base \in Real, NEW o \in FromSome(v, base), o # Raise
  PROVE  ScalarKept(v, o[2], base)
<1> DEFINE x == ToF(v)[2]
           d == o[2]
<1>1. o \in FromFloat(x, base)
  <2>1. /\ base \notin Integer
        /\ base \notin {"null", "boolean", "char16", "instance", "EmbeddedInstance",
                         "EmbeddedObject", "string"}
    BY Bases
  <2> QED
    BY <2>1 DEF FromSome
<1>2. d = Data(Scalar(base), <<"float", IF base = "real32" THEN x - (x % 2) ELSE x>>)
  BY <1>1 DEF FromFloat, Good
<1>3. Scalar(base) # Null /\ base \notin {"null", "EmbeddedInstance", "EmbeddedObject"}
  BY Bases, ScalarTypes
<1>4. Element(d) = <<"float", IF base = "real32" THEN x - (x % 2) ELSE x>>
  BY <1>2, <1>3, ElementKept DEF NoText
<1>5. SameScalar(v, Element(d), base)
  <2>1. CASE v[1] = "float"
    <3>1. v = <<"float", v[2]>> /\ v[2] \in Int /\ x = v[2] /\ v # <<"nil">>
      BY <2>1 DEF IsRuby, ToF
    <3>2. x - (x - (x % 2)) \in 0 .. 1 /\ x - x \in 0 .. 1
      <4>1. x % 2 \in 0 .. 1
        BY <3>1, ModBound, 2 \in Nat \ {0}
      <4> QED
        BY <3>1, <4>1
    <3>3. base = "real64" => base # "real32"
      OBVIOUS
    <3> HIDE DEF x
    <3> QED
      BY <1>4, <2>1, <3>1, <3>2, <3>3 DEF SameScalar
  <2>2. CASE v[1] # "float"
    BY <2>2, Bases, SameOther DEF IsRuby
  <2> QED
    BY <2>1, <2>2
<1> HIDE DEF x
<1> QED
  BY <1>2, <1>3, <1>5 DEF ScalarKept, Data

LEMMA WholeKept ==
  ASSUME NEW v, IsRuby(v), v[1] # "nil", NEW base \in Integer, NEW o \in FromSome(v, base), o # Raise
  PROVE  ScalarKept(v, o[2], base)
<1>1. base \notin Real /\ Scalar(base) # Null
      /\ base \notin {"null", "EmbeddedInstance", "EmbeddedObject"}
  BY Bases, ScalarTypes
<1>2. ToI(v) # Raise /\ o \in FromInteger(ToI(v)[2], base)
  <2>1. base \notin {"null", "boolean", "char16", "instance", "EmbeddedInstance",
                      "EmbeddedObject", "string"}
    BY Bases
  <2> QED
    BY <1>1, <2>1 DEF FromSome
<1>3. ToI(v)[2] \in Int
  <2>1. CASE v[1] = "int"
    BY <2>1 DEF ToI, IsRuby
  <2>2. CASE v[1] = "float"
    <3>1. v[2] \in Int
      BY <2>2 DEF IsRuby
    <3>2. ToI(v)[2] = IF v[2] >= 0 THEN v[2] \div 2 ELSE -((-v[2]) \div 2)
      BY <2>2 DEF ToI
    <3>3. v[2] \div 2 \in Int /\ (-v[2]) \div 2 \in Int
      BY <3>1
    <3> QED
      BY <3>2, <3>3
  <2>3. CASE v[1] = "string"
    BY <2>3 DEF ToI
  <2> QED
    BY <1>2, <2>1, <2>2, <2>3 DEF ToI
<1>4. o[2].type = Scalar(base) /\ o[2].value = <<"int", o[2].value[2]>>
  BY <1>2, <1>3, IntegerKept
<1>5. SameScalar(v, Element(o[2]), base)
  <2>1. CASE v[1] = "int"
    <3>1. v = <<"int", v[2]>> /\ v[2] \in Int /\ ToI(v)[2] = v[2]
      BY <2>1 DEF ToI, IsRuby
    <3>2. SameScalar(<<"int", v[2]>>, Element(o[2]), base)
      BY <1>2, <3>1, IntegerReadBack
    <3> QED
      BY <3>1, <3>2
  <2>2. CASE v[1] # "int"
    BY <1>1, <2>2, Bases, SameOther DEF IsRuby
  <2> QED
    BY <2>1, <2>2
<1> QED
  BY <1>1, <1>4, <1>5 DEF ScalarKept

LEMMA UntypedKept ==
  ASSUME NEW v, IsRuby(v), v[1] # "nil", NEW o \in FromSome(v, "null"), o # Raise
  PROVE  ScalarKept(v, o[2], "null")
<1>1. o \in Untyped(v)
  BY Bases DEF FromSome
<1>2. SameScalar(v, Element(o[2]), "null")
  BY Bases, SameOther DEF IsRuby
<1>3. /\ o[2].value[1] # "array"
      /\ o[2].type # Null => o[2].value # <<"null">> /\ o[2].type = Scalar(o[2].type.base)
  <2>1. CASE v[1] = "float"
    <3>1. o \in FromFloat(v[2], "real32")
      BY <1>1, <2>1 DEF Untyped
    <3> QED
      BY <3>1, ScalarTypes DEF FromFloat, Good, Data
  <2>2. CASE v[1] = "int" /\ Fixnum(v[2])
    <3>1. o \in FromInteger(v[2], "uint32") /\ v[2] \in Int /\ "uint32" \in Integer
      BY <1>1, <2>2 DEF Untyped, IsRuby, Integer, Unsigned
    <3>2. o[2].type = Scalar("uint32") /\ o[2].value = <<"int", o[2].value[2]>>
      BY <3>1, IntegerKept
    <3> QED
      BY <3>2, ScalarTypes
  <2>3. CASE v[1] \in {"string", "symbol"}
    <3>1. o = Good(Scalar("string"), Text(v))
      BY <1>1, <2>3 DEF Untyped
    <3> QED
      BY <3>1, ScalarTypes DEF Good, Data, Text
  <2>4. CASE v[1] = "bool"
    <3>1. o = Good(Scalar("boolean"), v)
      BY <1>1, <2>4 DEF Untyped
    <3> QED
      BY <2>4, <3>1, ScalarTypes DEF Good, Data
  <2>5. CASE ~(v[1] = "int" /\ Fixnum(v[2])) /\ v[1] \notin {"float", "string", "symbol", "bool"}
    <3>1. o = Good(Null, <<"null">>)
      BY <1>1, <2>5 DEF Untyped
    <3> QED
      BY <3>1 DEF Good, Data
  <2> QED
    BY <2>1, <2>2, <2>3, <2>4, <2>5
<1> QED
  BY <1>2, <1>3 DEF ScalarKept

LEMMA BooleanKept ==
  ASSUME NEW v, IsRuby(v), v[1] # "nil", NEW o \in FromSome(v, "boolean"), o # Raise
  PROVE  ScalarKept(v, o[2], "boolean")
<1>1. o = Good(Scalar("boolean"), <<"bool", v # <<"bool", FALSE>>>>)
  BY Bases DEF FromSome
<1>2. Scalar("boolean") # Null
  BY ScalarTypes
<1>3. o[2] = Data(Scalar("boolean"), <<"bool", v # <<"bool", FALSE>>>>)
  BY <1>1 DEF Good
<1>4. Element(o[2]) = <<"bool", v # <<"bool", FALSE>>>>
  <2> DEFINE x == <<"bool", v # <<"bool", FALSE>>>>
  <2>1. x[1] = "bool" /\ x # NoText
    BY DEF NoText
  <2>2. o[2] = Data(Scalar("boolean"), x)
    BY <1>3
  <2> HIDE DEF x
  <2>3. Element(o[2]) = x
    BY <1>2, <2>1, <2>2, ElementKept
  <2> QED
    BY <2>3 DEF x
<1>5. SameScalar(v, Element(o[2]), "boolean")
  <2>1. CASE v[1] = "bool"
    <3>1. v = <<"bool", TRUE>> \/ v = <<"bool", FALSE>>
      BY <2>1 DEF IsRuby
    <3>2. Element(o[2]) = v
      BY <1>4, <3>1
    <3> QED
      BY <2>1, <3>2, Bases DEF SameScalar
  <2>2. CASE v[1] # "bool"
    BY <2>2, Bases, SameOther DEF IsRuby
  <2> QED
    BY <2>1, <2>2
<1> QED
  BY <1>2, <1>3, <1>5 DEF ScalarKept, Data

LEMMA CharKept ==
  ASSUME NEW v, IsRuby(v), v[1] # "nil", NEW o \in FromSome(v, "char16"), o # Raise
  PROVE  ScalarKept(v, o[2], "char16")
<1>1. o \in FromChar(v)
  BY Bases DEF FromSome
<1>2. \E c : o = Good(Scalar("char16"), <<"int", c>>)
  BY <1>1 DEF FromChar
<1>3. SameScalar(v, Element(o[2]), "char16")
  BY Bases, SameOther DEF IsRuby
<1> QED
  BY <1>2, <1>3, ScalarTypes DEF ScalarKept, Good, Data

LEMMA StringKept ==
  ASSUME NEW v, IsRuby(v), v[1] # "nil", NEW o \in FromSome(v, "string"), o # Raise
  PROVE  ScalarKept(v, o[2], "string")
<1>1. o[2] = Data(Scalar("string"), Text(v))
  BY Bases DEF FromSome, Good
<1>2. Scalar("string") # Null /\ Text(v)[1] = "string" /\ Text(v) # NoText
  <2>1. Text(v) = <<"string", IF v[1] \in {"string", "symbol"} THEN v[2] ELSE v>>
    BY DEF Text
  <2>2. (IF v[1] \in {"string", "symbol"} THEN v[2] ELSE v) # <<"null">>
    BY DEF IsRuby
  <2> QED
    BY <2>1, <2>2, ScalarTypes DEF NoText
<1>3. Element(o[2]) = Text(v)
  BY <1>1, <1>2, ElementKept
<1>4. SameScalar(v, Element(o[2]), "string")
  <2>1. CASE v[1] \in {"string", "symbol"}
    BY <1>3, <2>1, Bases DEF SameScalar, Text
  <2>2. CASE v[1] \notin {"string", "symbol"}
    BY <2>2, Bases, SameOther DEF IsRuby
  <2> QED
    BY <2>1, <2>2
<1> QED
  BY <1>1, <1>2, <1>4 DEF ScalarKept, Data

LEMMA InstanceKept ==
  ASSUME NEW v, IsRuby(v), v[1] # "nil",
         NEW base \in {"instance", "EmbeddedInstance", "EmbeddedObject"},
         NEW o \in FromSome(v, base), o # Raise
  PROVE  ScalarKept(v, o[2], base)
<1>1. o \in FromInstance(v)
  BY Bases DEF FromSome
<1>2. v[1] = "instance" /\ o[2] = Data(Scalar("instance"), v)
  BY <1>1 DEF FromInstance, Good
<1>3. Scalar("instance") # Null /\ v # NoText
  BY <1>2, ScalarTypes DEF NoText
<1>4. Element(o[2]) = v
  BY <1>2, <1>3, ElementKept
<1>5. SameScalar(v, Element(o[2]), base)
  BY <1>2, <1>4, Bases DEF SameScalar
<1> QED
  BY <1>2, <1>3, <1>5 DEF ScalarKept, Data

(* Whatever class a value has and whatever type is declared, a conversion  *)
(* that does not raise keeps the value and its type.                       *)
LEMMA AnyScalarKept ==
  ASSUME NEW v, IsRuby(v), NEW base, NEW o \in FromScalar(v, base), o # Raise
  PROVE  ScalarKept(v, o[2], base)
<1>1. CASE v[1] = "nil"
  <2>1. o = Good(Null, <<"null">>) /\ v = <<"nil">>
    BY <1>1 DEF FromScalar, IsRuby
  <2>2. o[2] = Data(Null, <<"null">>)
    BY <2>1 DEF Good
  <2>3. Element(o[2]) = <<"nil">>
    BY <2>2 DEF Element, IsNull, Data
  <2> QED
    BY <2>1, <2>2, <2>3 DEF ScalarKept, SameScalar, Data
<1>2. CASE v[1] # "nil"
  <2>1. o \in FromSome(v, base)
    BY <1>2 DEF FromScalar
  <2>2. base \in Real \cup Integer \cup {"null", "boolean", "char16", "string", "instance",
                                        "EmbeddedInstance", "EmbeddedObject"}
    BY <2>1 DEF FromSome
  <2> QED
    BY <1>2, <2>1, <2>2, RealKept, WholeKept, UntypedKept, BooleanKept, CharKept, StringKept,
       InstanceKept
<1> QED
  BY <1>1, <1>2

LEMMA ArrayKept ==
  ASSUME NEW s, \A i \in DOMAIN s : IsRuby(s[i]), NEW base, NEW o \in FromArray(s, base), o # Raise
  PROVE  /\ o[2].type = Array(ElementBase(base, o[2].value[2]))
         /\ o[2].value = <<"array", o[2].value[2]>>
         /\ o[2].value[2] = [i \in DOMAIN s |-> o[2].value[2][i]]
         /\ Uniform(o[2].value[2])
         /\ \A i \in DOMAIN s : ScalarKept(s[i], o[2].value[2][i], base)
<1> DEFINE outcomes == [i \in DOMAIN s |-> FromScalar(s[i], base)]
           Elements(f) == [i \in DOMAIN s |-> f[i][2]]
<1>1. PICK f \in [DOMAIN s -> UNION {outcomes[i] : i \in DOMAIN s}] :
        /\ \A i \in DOMAIN s : f[i] \in outcomes[i]
        /\ o = IF \E i \in DOMAIN s : f[i] = Raise THEN Raise
               ELSE IF Uniform(Elements(f))
                    THEN Good(Array(ElementBase(base, Elements(f))), <<"array", Elements(f)>>)
                    ELSE Raise
  BY DEF FromArray
<1> DEFINE data == Elements(f)
<1>2. /\ \A i \in DOMAIN s : f[i] \in FromScalar(s[i], base) /\ f[i] # Raise
      /\ Uniform(data) /\ o = Good(Array(ElementBase(base, data)), <<"array", data>>)
  BY <1>1
<1>3. \A i \in DOMAIN s : ScalarKept(s[i], data[i], base)
  <2> SUFFICES ASSUME NEW i \in DOMAIN s PROVE ScalarKept(s[i], f[i][2], base)
    OBVIOUS
  <2> QED
    BY <1>2, AnyScalarKept
<1>4. data = [i \in DOMAIN s |-> data[i]]
  OBVIOUS
<1> HIDE DEF data
<1>5. o[2].type = Array(ElementBase(base, data)) /\ o[2].value = <<"array", data>>
  BY <1>2 DEF Good, Data
<1>6. o[2].value[2] = data
  BY <1>5
<1>7. /\ o[2].type = Array(ElementBase(base, o[2].value[2]))
      /\ o[2].value = <<"array", o[2].value[2]>>
  BY <1>5, <1>6
<1>8. o[2].value[2] = [i \in DOMAIN s |-> o[2].value[2][i]]
  BY <1>4, <1>6
<1>9. Uniform(o[2].value[2])
  BY <1>2, <1>6
<1>10. \A i \in DOMAIN s : ScalarKept(s[i], o[2].value[2][i], base)
  BY <1>3, <1>6
<1> QED
  BY <1>7, <1>8, <1>9, <1>10

LEMMA ArrayLength ==
  ASSUME NEW n \in Nat, NEW s, s = [i \in 1..n |-> s[i]]
  PROVE  Len(s) = n
<1>1. s \in [1..n -> {s[i] : i \in 1..n}]
  BY Zenon
<1>2. s \in Seq({s[i] : i \in 1..n})
  BY <1>1, SeqDef
<1> QED
  BY <1>1, <1>2, LenProperties

-----------------------------------------------------------------------------
(* What a conversion that succeeds promises: the value and the type.       *)
ValueKept(v, d, type) == SameValue(v, ToRuby(d), type) /\ Typed(v, d, type)

IsArray(v) ==
  v[1] = "array" => /\ DOMAIN v[2] = 1..Len(v[2]) /\ Len(v[2]) \in Nat
                    /\ \A i \in DOMAIN v[2] : IsRuby(v[2][i])

LEMMA NullKept ==
  ASSUME NEW v, v = <<"nil">>, NEW type
  PROVE  ValueKept(v, Data(Null, <<"null">>), type)
<1> DEFINE d == Data(Null, <<"null">>)
<1>1. ToRuby(d) = <<"nil">>
  BY DEF ToRuby, Element, IsNull, Data
<1>2. SameScalar(v, <<"nil">>, type.base)
  BY DEF SameScalar
<1> QED
  BY <1>1, <1>2 DEF ValueKept, SameValue, Typed, Data

LEMMA ScalarValueKept ==
  ASSUME NEW v, NEW type, type = Scalar(type.base), NEW d, ScalarKept(v, d, type.base)
  PROVE  ValueKept(v, d, type)
<1>1. ~type.array /\ (type = Null <=> type.base = "null")
  BY DEF Scalar, Null
<1>2. ToRuby(d) = Element(d)
  BY DEF ToRuby, ScalarKept
<1>3. SameValue(v, ToRuby(d), type)
  BY <1>1, <1>2 DEF SameValue, ScalarKept
<1>4. d.type # Null => ~d.type.array
  BY DEF ScalarKept, Scalar
<1>5. \A b : Scalar(b).base = b /\ Scalar(b).array = FALSE
  BY DEF Scalar
<1> QED
  BY <1>1, <1>3, <1>4, <1>5 DEF ValueKept, Typed, ScalarKept

LEMMA ArrayValueKept ==
  ASSUME NEW v, v[1] = "array", IsArray(v), NEW type, type = Array(type.base),
         NEW o \in FromArray(v[2], type.base), o # Raise
  PROVE  ValueKept(v, o[2], type)
<1> DEFINE s == v[2]
           base == type.base
           d == o[2]
           data == d.value[2]
<1>1. DOMAIN s = 1..Len(s) /\ Len(s) \in Nat /\ \A i \in DOMAIN s : IsRuby(s[i])
  BY DEF IsArray
<1>2. /\ d.type = Array(ElementBase(base, data)) /\ d.value = <<"array", data>>
      /\ data = [i \in DOMAIN s |-> data[i]] /\ Uniform(data)
      /\ \A i \in DOMAIN s : ScalarKept(s[i], data[i], base)
  BY <1>1, ArrayKept
<1>3. /\ type.array = TRUE /\ d.type.array = TRUE /\ d.type # Null /\ type # Null
      /\ d.type.base = ElementBase(base, data) /\ d.value[2] = data
  BY <1>2 DEF Array, Null, Scalar
<1> HIDE DEF s, d, data
<1>4. SameValue(v, ToRuby(d), type)
  <2> DEFINE r == [i \in DOMAIN data |-> Element(data[i])]
  <2>1. ToRuby(d) = <<"array", r>>
    BY <1>2 DEF ToRuby
  <2>2. DOMAIN data = 1..Len(s)
    BY <1>1, <1>2
  <2>3. r = [i \in 1..Len(s) |-> r[i]] /\ \A i \in DOMAIN s : r[i] = Element(data[i])
    BY <1>1, <2>2
  <2> HIDE DEF r
  <2>4. Len(r) = Len(s)
    BY <1>1, <2>3, ArrayLength
  <2>5. \A i \in DOMAIN s : SameScalar(s[i], r[i], base)
    BY <1>2, <2>3 DEF ScalarKept
  <2> QED
    BY <1>3, <2>1, <2>4, <2>5 DEF SameValue, s
<1>5. DOMAIN data = DOMAIN s
  BY <1>2
<1>6. ASSUME base # "null", NEW i \in DOMAIN data
      PROVE  data[i].type \in {Scalar(d.type.base), Null}
  <2>1. ScalarKept(s[i], data[i], base)
    BY <1>2, <1>5, <1>6
  <2>2. CASE base \notin {"EmbeddedInstance", "EmbeddedObject"}
    BY <1>3, <1>6, <2>1, <2>2 DEF ScalarKept, ElementBase
  <2>3. CASE base \in {"EmbeddedInstance", "EmbeddedObject"}
    <3>1. data[i].type # Null => ElementBase(base, data) = "instance"
      BY <1>6, <2>3 DEF ElementBase
    <3>2. data[i].type \in {Scalar("instance"), Null}
      BY <1>6, <2>1, <2>3 DEF ScalarKept
    <3> QED
      BY <1>3, <3>1, <3>2
  <2> QED
    BY <2>2, <2>3
<1>7. Typed(v, d, type)
  <2>1. \/ d.type = type
        \/ /\ base \in {"EmbeddedInstance", "EmbeddedObject"}
           /\ d.type.base \in {"instance", "null"}
    BY <1>2, <1>3 DEF ElementBase
  <2>2. d.value # <<"null">>
    BY <1>2
  <2> QED
    BY <1>2, <1>3, <1>6, <2>1, <2>2 DEF Typed
<1> QED
  BY <1>4, <1>7 DEF ValueKept, d

LEMMA ConvertKept ==
  ASSUME "OK" \notin Leftover, NEW v \in Values, NEW type \in OutTypes \cup ReturnTypes,
         NEW c \in Convert(v, type), c.rc = "OK"
  PROVE  ValueKept(v, c.data, type)
<1>1. PICK o \in ToValue(v, type) : o # Raise /\ c.data = o[2]
  <2>1. PICK o \in ToValue(v, type) :
          c \in IF o = Raise THEN {[rc |-> rc, data |-> Undefined] : rc \in Leftover}
                ELSE {[rc |-> "OK", data |-> o[2]]}
    BY DEF Convert
  <2>2. o # Raise
    BY <2>1
  <2> QED
    BY <2>1, <2>2
<1>2. IsRuby(v) /\ IsArray(v) /\ IsType(type)
  BY RbInvokeAssumption DEF IsArray
<1>3. CASE type = Scalar(type.base)
  <2>1. o \in FromScalar(v, type.base)
    BY <1>3 DEF ToValue, Scalar
  <2> QED
    BY <1>1, <1>2, <1>3, <2>1, AnyScalarKept, ScalarValueKept
<1>4. CASE type = Array(type.base)
  <2>1. type.array
    BY <1>4 DEF Array
  <2>2. CASE v[1] = "array"
    <3>1. o \in FromArray(v[2], type.base)
      BY <2>1, <2>2 DEF ToValue
    <3> QED
      BY <1>1, <1>2, <1>4, <2>2, <3>1, ArrayValueKept
  <2>3. CASE v[1] # "array"
    <3>1. v[1] = "nil" /\ o = Good(Null, <<"null">>)
      BY <1>1, <2>1, <2>3 DEF ToValue
    <3>2. v = <<"nil">> /\ o[2] = Data(Null, <<"null">>)
      BY <1>2, <3>1 DEF IsRuby, Good
    <3> QED
      BY <1>1, <3>2, NullKept
  <2> QED
    BY <2>2, <2>3
<1> QED
  BY <1>2, <1>3, <1>4 DEF IsType

-----------------------------------------------------------------------------
(* What the broker has got so far came from conversions that succeeded.    *)
KeptInv ==
  /\ InvokeInv /\ ReplyInv
  /\ pc \in {"in", "call", "out"} => args.returns \in ReturnTypes
  /\ \A i \in 1..Len(out) : ValueKept(given[i], out[i], args.outs[i])
  /\ rslt.done => ValueKept(given[Len(given)], rslt.data, args.returns)

LEMMA KeptInit == Init => KeptInv
<1> SUFFICES ASSUME Init PROVE KeptInv
  OBVIOUS
<1>1. InvokeInv /\ ReplyInv
  BY InvokeInit, ReplyInit
<1>2. pc = "idle" /\ Len(out) = 0 /\ rslt.done = FALSE
  BY DEF Init
<1> QED
  BY <1>1, <1>2 DEF KeptInv

LEMMA KeptDeclare == KeptInv /\ Declare => KeptInv'
<1> SUFFICES ASSUME KeptInv, Declare PROVE KeptInv'
  OBVIOUS
<1>1. InvokeInv' /\ ReplyInv'
  BY InvokeDeclare, ReplyStep DEF KeptInv, Next
<1>2. pc = "idle" /\ out' = out /\ rslt' = rslt
  BY DEF Declare
<1>3. Len(out') = 0 /\ ~rslt'.done
  BY <1>2 DEF KeptInv, InvokeInv, ReplyInv
<1>4. pc' \in {"in", "call", "out"} => args'.returns \in ReturnTypes
  BY DEF Declare, Done
<1> QED
  BY <1>1, <1>3, <1>4 DEF KeptInv

LEMMA KeptCallStep == KeptInv /\ (GetArg \/ Call) => KeptInv'
<1> SUFFICES ASSUME KeptInv, GetArg \/ Call PROVE KeptInv'
  OBVIOUS
<1>1. InvokeInv' /\ ReplyInv'
  BY InvokeGetArg, InvokeCall, ReplyStep DEF KeptInv, Next
<1>2. UNCHANGED <<args, given, out, rslt>> /\ pc \in {"in", "call"}
  BY DEF GetArg, Call
<1> QED
  BY <1>1, <1>2 DEF KeptInv

LEMMA KeptAddArg == "OK" \notin Leftover /\ KeptInv /\ AddArg => KeptInv'
<1> SUFFICES ASSUME "OK" \notin Leftover, KeptInv, AddArg PROVE KeptInv'
  OBVIOUS
<1>1. InvokeInv /\ InvokeInv' /\ ReplyInv'
  BY InvokeAddArg, ReplyStep DEF KeptInv, Next
<1> DEFINE k == Len(out)
<1>2. pc = "out" /\ k < Len(args.outs) /\ UNCHANGED <<args, rslt>> /\ ~rslt.done
  BY DEF AddArg, KeptInv, ReplyInv
<1>3. k \in Nat /\ k + 1 \in 1..Len(args.outs) /\ Len(given) = k
  BY <1>1, <1>2, LenProperties DEF InvokeInv
<1>4. args.outs[k + 1] \in OutTypes
  BY <1>1, <1>3, ElementOfSeq DEF InvokeInv
<1>5. PICK v \in Values :
        /\ given' = Append(given, v)
        /\ \E c \in Convert(v, args.outs[k + 1]) :
             IF c.rc = "OK"
             THEN \/ out' = Append(out, c.data) /\ status' = "OK" /\ UNCHANGED pc
                  \/ Done("ERR") /\ UNCHANGED out
             ELSE Done(c.rc) /\ UNCHANGED out
  BY DEF AddArg
<1>6. PICK c \in Convert(v, args.outs[k + 1]) :
        \/ c.rc = "OK" /\ out' = Append(out, c.data)
        \/ UNCHANGED out
  BY <1>5
<1>7. given'[k + 1] = v /\ \A i \in 1..k : given'[i] = given[i]
  BY <1>1, <1>3, <1>5, AppendProperties DEF InvokeInv
<1>8. \A i \in 1..k : ValueKept(given'[i], out[i], args'.outs[i])
  BY <1>2, <1>7 DEF KeptInv
<1>9. \A i \in 1..Len(out') : ValueKept(given'[i], out'[i], args'.outs[i])
  <2>1. CASE UNCHANGED out
    BY <1>8, <2>1
  <2>2. CASE c.rc = "OK" /\ out' = Append(out, c.data)
    <3>1. ValueKept(v, c.data, args.outs[k + 1])
      BY <1>4, <2>2, ConvertKept
    <3>2. c.data \in OutData
      BY <1>4, OutcomeData
    <3>3. Len(out') = k + 1 /\ out'[k + 1] = c.data /\ \A i \in 1..k : out'[i] = out[i]
      BY <1>1, <2>2, <3>2, AppendProperties DEF InvokeInv
    <3>4. \A i \in 1..k + 1 : i \in 1..k \/ i = k + 1
      BY <1>3
    <3> HIDE DEF k
    <3> QED
      BY <1>2, <1>7, <1>8, <3>1, <3>3, <3>4
  <2> QED
    BY <1>6, <2>1, <2>2
<1>10. pc' \in {"in", "call", "out"} => args'.returns \in ReturnTypes
  BY <1>2 DEF KeptInv
<1> QED
  BY <1>1, <1>2, <1>9, <1>10 DEF KeptInv

LEMMA KeptReturn == "OK" \notin Leftover /\ KeptInv /\ ReturnData => KeptInv'
<1> SUFFICES ASSUME "OK" \notin Leftover, KeptInv, ReturnData PROVE KeptInv'
  OBVIOUS
<1>1. InvokeInv /\ InvokeInv' /\ ReplyInv'
  BY InvokeReturn, ReplyStep DEF KeptInv, Next
<1>2. pc = "out" /\ UNCHANGED <<args, out>> /\ ~rslt.done /\ args.returns \in ReturnTypes
  BY DEF ReturnData, KeptInv, ReplyInv
<1>3. Len(given) = Len(out) /\ Len(out) \in Nat
  BY <1>1, <1>2, LenProperties DEF InvokeInv
<1>4. PICK v \in Values :
        /\ given' = Append(given, v)
        /\ \E c \in Convert(v, args.returns) :
             /\ Done(c.rc)
             /\ rslt' = IF c.rc = "OK" THEN [data |-> c.data, done |-> TRUE] ELSE rslt
  BY DEF ReturnData
<1>5. PICK c \in Convert(v, args.returns) :
        /\ pc' = "done"
        /\ rslt' = IF c.rc = "OK" THEN [data |-> c.data, done |-> TRUE] ELSE rslt
  BY <1>4 DEF Done
<1>6. Len(given') = Len(given) + 1 /\ given'[Len(given) + 1] = v
      /\ \A i \in 1..Len(out) : given'[i] = given[i]
  BY <1>1, <1>3, <1>4, AppendProperties DEF InvokeInv
<1>7. rslt'.done => ValueKept(given'[Len(given')], rslt'.data, args'.returns)
  <2>1. c.rc = "OK" => ValueKept(v, c.data, args.returns)
    BY <1>2, ConvertKept
  <2> QED
    BY <1>2, <1>5, <1>6, <2>1
<1>8. \A i \in 1..Len(out') : ValueKept(given'[i], out'[i], args'.outs[i])
  BY <1>2, <1>6 DEF KeptInv
<1> QED
  BY <1>1, <1>5, <1>7, <1>8 DEF KeptInv

LEMMA KeptAlways ==
  ASSUME "OK" \notin Leftover
  PROVE  Spec => []KeptInv
<1>1. UNCHANGED vars /\ KeptInv => KeptInv'
  BY DEF vars, KeptInv, InvokeInv, ReplyInv
<1>2. KeptInv /\ [Next]_vars => KeptInv'
  BY <1>1, KeptDeclare, KeptCallStep, KeptAddArg, KeptReturn DEF Next
<1> QED
  BY <1>2, KeptInit, PTL DEF Spec

(* cmpi.i:172-327, 441-721: for any values, types and widths of integers,  *)
(* the broker reads back what the provider returned, in the order of       *)
(* <method>_args, as far as the type and a Fixnum hold it; provided that   *)
(* no conversion that raised passes for a success.                         *)
THEOREM ReplyAlwaysExact ==
  ASSUME "OK" \notin Leftover
  PROVE  Spec => []ReplyExact
<1>1. KeptInv => ReplyExact
  <2> SUFFICES ASSUME KeptInv PROVE ReplyExact
    OBVIOUS
  <2>1. DOMAIN out = 1..Len(out)
    BY LenProperties DEF KeptInv, InvokeInv
  <2> QED
    BY <2>1 DEF KeptInv, ReplyExact, ValueKept
<1> QED
  BY <1>1, KeptAlways, PTL

(* cmpi.i:441-721: only nil becomes a null, and everything else has the    *)
(* type that was declared for it, down to the elements of arrays.          *)
THEOREM TypesAlwaysKept ==
  ASSUME "OK" \notin Leftover
  PROVE  Spec => []TypesKept
<1>1. KeptInv => TypesKept
  <2> SUFFICES ASSUME KeptInv PROVE TypesKept
    OBVIOUS
  <2>1. DOMAIN out = 1..Len(out)
    BY LenProperties DEF KeptInv, InvokeInv
  <2> QED
    BY <2>1 DEF KeptInv, TypesKept, ValueKept
<1> QED
  BY <1>1, KeptAlways, PTL


-----------------------------------------------------------------------------
(* There and back again.                                                   *)
LEMMA HeldShape ==
  ASSUME NEW d, NEW base, HeldScalar(d, base)
  PROVE  /\ d.type = Scalar(base) /\ d.value = <<d.value[1], d.value[2]>>
         /\ d = Data(Scalar(base), d.value)
         /\ base \in Integer \cup {"char16", "real32", "real64", "string", "boolean", "instance"}
         /\ d.value[1] \in {"int", "float", "string", "bool", "instance"}
         /\ d.value # NoText
         /\ d.value[1] = "int" => d.value = <<"int", d.value[2]>> /\ Fixnum(d.value[2])
<1> DEFINE x == <<d.value[1], d.value[2]>>
<1>1. d = Data(Scalar(base), x)
  BY DEF HeldScalar
<1> HIDE DEF x
<1>2. d.type = Scalar(base) /\ d.value = x /\ d = Data(Scalar(base), d.value)
  BY <1>1 DEF Data
<1>3. /\ d.value[1] = "int" => Fixnum(d.value[2])
      /\ base \in Integer \cup {"char16", "real32", "real64", "string", "boolean", "instance"}
      /\ d.value[1] \in {"int", "float", "string", "bool", "instance"}
      /\ d.value[1] = "string" => d.value # NoText
  <2>1. /\ <<"bool", TRUE>>[1] = "bool" /\ <<"bool", FALSE>>[1] = "bool"
    OBVIOUS
  <2>2. CASE d.value \in {<<"bool", TRUE>>, <<"bool", FALSE>>} /\ base = "boolean"
    BY <2>1, <2>2
  <2>3. CASE ~(d.value \in {<<"bool", TRUE>>, <<"bool", FALSE>>} /\ base = "boolean")
    BY <2>3 DEF HeldScalar, InRange
  <2> QED
    BY <2>2, <2>3
<1>4. d.value # NoText
  BY <1>3 DEF NoText
<1> QED
  BY <1>2, <1>3, <1>4 DEF x

LEMMA HeldRead ==
  ASSUME NEW d, NEW base, HeldScalar(d, base)
  PROVE  Element(d) = d.value
<1>1. d.type # Null /\ d.value[1] # "null" /\ d.value # NoText
  BY HeldShape, ScalarTypes, Bases
<1>2. ~IsNull(d)
  BY <1>1 DEF IsNull
<1>3. CASE d.value[1] = "int"
  <2>1. Element(d) = FromBits(d.value[2])
    BY <1>1, <1>2, <1>3 DEF Element
  <2>2. FromBits(d.value[2]) = d.value
    BY <1>3, HeldShape DEF FromBits, Fixnum
  <2> QED
    BY <2>1, <2>2
<1>4. CASE d.value[1] # "int"
  BY <1>1, <1>2, <1>4 DEF Element
<1> QED
  BY <1>3, <1>4

LEMMA HeldIntegerEcho ==
  ASSUME NEW base \in Integer, NEW n \in Int, InRange(n, base)
  PROVE  FromScalar(<<"int", n>>, base) = {Good(Scalar(base), <<"int", n>>)}
<1> DEFINE v == <<"int", n>>
<1>1. v[1] = "int" /\ v[2] = n /\ ToI(v) = v /\ v # Raise
  BY DEF ToI, Raise
<1>2. /\ base \notin Real
      /\ base \notin {"null", "boolean", "char16", "instance", "EmbeddedInstance",
                      "EmbeddedObject", "string"}
  BY Bases
<1>3. FromScalar(v, base) = FromInteger(n, base)
  BY <1>1, <1>2 DEF FromScalar, FromSome
<1>4. Longs(n) = {n}
  BY DEF Longs, InRange
<1>5. n = IF base \in Signed THEN WrapSigned(n, Bits[base]) ELSE Wrap(n, Bits[base])
  BY DEF InRange
<1> QED
  BY <1>3, <1>4, <1>5 DEF FromInteger

LEMMA HeldCharEcho ==
  ASSUME NEW n \in 1 .. 2^Bits["char16"] - 1, Fixnum(n), WrapSigned(n, Bits["sint32"]) = n
  PROVE  FromScalar(<<"int", n>>, "char16") = {Good(Scalar("char16"), <<"int", n>>)}
<1>1. Bits["char16"] \in Nat \ {0}
  BY RbValuesAssumption
<1>2. 2^Bits["char16"] \in Nat \ {0}
  BY <1>1, HalfPower
<1>3. Wrap(n, Bits["char16"]) = n /\ n # 0
  BY <1>2, ModSmall DEF Wrap
<1>4. FromScalar(<<"int", n>>, "char16") = FromChar(<<"int", n>>)
  BY Bases DEF FromScalar, FromSome
<1> QED
  BY <1>3, <1>4 DEF FromChar

LEMMA HeldRealEcho ==
  ASSUME NEW n, NEW base, base = "real64" \/ (base = "real32" /\ n \in Int /\ n % 2 = 0)
  PROVE  FromScalar(<<"float", n>>, base) = {Good(Scalar(base), <<"float", n>>)}
<1>1. /\ base \in Real /\ base \notin Integer
      /\ base \notin {"null", "boolean", "char16", "instance", "EmbeddedInstance",
                      "EmbeddedObject", "string"}
  BY Bases DEF Real
<1>2. ToF(<<"float", n>>) = <<"float", n>> /\ <<"float", n>> # Raise
  BY DEF ToF, Raise
<1>3. FromScalar(<<"float", n>>, base) = FromFloat(n, base)
  BY <1>1, <1>2 DEF FromScalar, FromSome
<1>4. n = IF base = "real32" THEN n - (n % 2) ELSE n
  OBVIOUS
<1> QED
  BY <1>3, <1>4 DEF FromFloat

LEMMA HeldBooleanEcho ==
  ASSUME NEW b \in BOOLEAN
  PROVE  FromScalar(<<"bool", b>>, "boolean") = {Good(Scalar("boolean"), <<"bool", b>>)}
<1> DEFINE v == <<"bool", b>>
<1>1. v[1] # "nil"
  OBVIOUS
<1> HIDE DEF v
<1>2. FromScalar(v, "boolean") = {Good(Scalar("boolean"), <<"bool", v # <<"bool", FALSE>>>>)}
  BY <1>1, Bases DEF FromScalar, FromSome
<1>3. (v # <<"bool", FALSE>>) = b
  BY DEF v
<1> QED
  BY <1>2, <1>3 DEF v

LEMMA HeldScalarEcho ==
  ASSUME NEW d, NEW base, HeldScalar(d, base)
  PROVE  FromScalar(Element(d), base) = {Good(d.type, d.value)}
<1> DEFINE v == d.value
<1>1. /\ Element(d) = v /\ d.type = Scalar(base) /\ v = <<v[1], v[2]>>
      /\ v[1] \in {"int", "float", "string", "bool", "instance"}
  BY HeldRead, HeldShape
<1>2. \/ v[1] = "int" /\ base \in Integer /\ v[2] \in Int /\ InRange(v[2], base)
      \/ /\ v[1] = "int" /\ base = "char16" /\ v[2] \in 1 .. 2^Bits["char16"] - 1
         /\ Fixnum(v[2]) /\ WrapSigned(v[2], Bits["sint32"]) = v[2]
      \/ v[1] = "float" /\ (base = "real64" \/ (base = "real32" /\ v[2] \in Int /\ v[2] % 2 = 0))
      \/ v[1] = "string" /\ base = "string"
      \/ v \in {<<"bool", TRUE>>, <<"bool", FALSE>>} /\ base = "boolean"
      \/ v[1] = "instance" /\ base = "instance"
  BY DEF HeldScalar
<1> HIDE DEF v
<1>3. CASE v[1] = "int" /\ base \in Integer /\ v[2] \in Int /\ InRange(v[2], base)
  <2>1. v = <<"int", v[2]>>
    BY <1>1, <1>3
  <2>2. FromScalar(<<"int", v[2]>>, base) = {Good(Scalar(base), <<"int", v[2]>>)}
    BY <1>3, HeldIntegerEcho
  <2> QED
    BY <1>1, <2>1, <2>2 DEF v
<1>4. CASE /\ v[1] = "int" /\ base = "char16" /\ v[2] \in 1 .. 2^Bits["char16"] - 1
           /\ Fixnum(v[2]) /\ WrapSigned(v[2], Bits["sint32"]) = v[2]
  <2>1. v = <<"int", v[2]>>
    BY <1>1, <1>4
  <2>2. FromScalar(<<"int", v[2]>>, "char16") = {Good(Scalar("char16"), <<"int", v[2]>>)}
    BY <1>4, HeldCharEcho
  <2> QED
    BY <1>1, <1>4, <2>1, <2>2 DEF v
<1>5. CASE v[1] = "float" /\ (base = "real64" \/ (base = "real32" /\ v[2] \in Int /\ v[2] % 2 = 0))
  <2>1. v = <<"float", v[2]>>
    BY <1>1, <1>5
  <2>2. FromScalar(<<"float", v[2]>>, base) = {Good(Scalar(base), <<"float", v[2]>>)}
    BY <1>5, HeldRealEcho
  <2> QED
    BY <1>1, <2>1, <2>2 DEF v
<1>6. CASE v[1] = "string" /\ base = "string"
  <2>1. FromScalar(v, base) = {Good(Scalar(base), Text(v))}
    BY <1>6, Bases DEF FromScalar, FromSome
  <2>2. Text(v) = v
    BY <1>1, <1>6 DEF Text
  <2> QED
    BY <1>1, <2>1, <2>2 DEF v
<1>7. CASE v \in {<<"bool", TRUE>>, <<"bool", FALSE>>} /\ base = "boolean"
  <2>1. PICK b \in BOOLEAN : v = <<"bool", b>>
    BY <1>7
  <2> QED
    BY <1>1, <1>7, <2>1, HeldBooleanEcho DEF v
<1>8. CASE v[1] = "instance" /\ base = "instance"
  <2>1. FromScalar(v, base) = FromInstance(v)
    BY <1>8, Bases DEF FromScalar, FromSome
  <2> QED
    BY <1>1, <1>8, <2>1 DEF FromInstance, v
<1> QED
  BY <1>2, <1>3, <1>4, <1>5, <1>6, <1>7, <1>8

(* An array of elements that each come out as one value comes out as one.  *)
LEMMA ArrayEcho ==
  ASSUME NEW s, s = [i \in DOMAIN s |-> s[i]], NEW base,
         base \notin {"EmbeddedInstance", "EmbeddedObject"},
         \A i \in DOMAIN s : HeldScalar(s[i], base)
  PROVE  FromArray([i \in DOMAIN s |-> Element(s[i])], base)
           = {Good(Array(base), <<"array", s>>)}
<1> DEFINE r == [i \in DOMAIN s |-> Element(s[i])]
           outcomes == [i \in DOMAIN r |-> FromScalar(r[i], base)]
           each == {f \in [DOMAIN r -> UNION {outcomes[i] : i \in DOMAIN r}] :
                      \A i \in DOMAIN r : f[i] \in outcomes[i]}
           g == [i \in DOMAIN s |-> Good(s[i].type, s[i].value)]
           Elements(f) == [i \in DOMAIN r |-> f[i][2]]
           Collect(f) == IF Uniform(Elements(f))
                         THEN Good(Array(ElementBase(base, Elements(f))), <<"array", Elements(f)>>)
                         ELSE Raise
<1>1. FromArray(r, base)
        = {IF \E i \in DOMAIN r : f[i] = Raise THEN Raise ELSE Collect(f) : f \in each}
  BY DEF FromArray
<1>2. DOMAIN r = DOMAIN s /\ \A i \in DOMAIN s : outcomes[i] = {g[i]}
  BY HeldScalarEcho
<1>3. each = {g}
  <2> HIDE DEF r, outcomes
  <2>1. ASSUME NEW f \in each PROVE f = g
    <3>1. f = [i \in DOMAIN s |-> f[i]] /\ \A i \in DOMAIN s : f[i] = g[i]
      BY <1>2
    <3> QED
      BY <3>1
  <2>2. g \in each
    <3>1. \A i \in DOMAIN s : g[i] \in UNION {outcomes[j] : j \in DOMAIN s}
      BY <1>2
    <3>2. g \in [DOMAIN s -> UNION {outcomes[j] : j \in DOMAIN s}]
      BY <3>1
    <3> QED
      BY <1>2, <3>2
  <2> HIDE DEF each, g
  <2> QED
    BY <2>1, <2>2
<1>4. \A i \in DOMAIN s : s[i] = Data(Scalar(base), s[i].value) /\ s[i].type = Scalar(base)
  BY HeldShape
<1>5. \A i \in DOMAIN s : g[i][2] = s[i] /\ g[i] # Raise
  BY <1>4 DEF Good, Data, Raise
<1>6. Elements(g) = s
  <2>1. Elements(g) = [i \in DOMAIN s |-> g[i][2]]
    BY <1>2
  <2> HIDE DEF g
  <2> QED
    BY <1>5, <2>1
<1>7. Uniform(s) /\ ElementBase(base, s) = base
  BY <1>4 DEF Uniform, ElementBase
<1>8. Collect(g) = Good(Array(base), <<"array", s>>)
  BY <1>6, <1>7
<1>9. ~\E i \in DOMAIN r : g[i] = Raise
  BY <1>2, <1>5
<1> HIDE DEF r, each, g, Collect
<1>10. FromArray(r, base) = {Collect(g)}
  BY <1>1, <1>3, <1>9
<1> QED
  BY <1>8, <1>10 DEF r

LEMMA HeldEcho ==
  ASSUME NEW d, Held(d)
  PROVE  ToValue(ToRuby(d), d.type) = {Good(d.type, d.value)}
<1>1. CASE d.value[1] # "array"
  <2>1. HeldScalar(d, d.type.base)
    BY <1>1 DEF Held
  <2>2. ToRuby(d) = Element(d) /\ d.type = Scalar(d.type.base)
    BY <1>1, <2>1, HeldShape DEF ToRuby
  <2>3. ~d.type.array
    BY <2>2 DEF Scalar
  <2> QED
    BY <2>1, <2>2, <2>3, HeldScalarEcho DEF ToValue
<1>2. CASE d.value[1] = "array"
  <2> DEFINE s == d.value[2]
             base == d.type.base
  <2>1. /\ d = Data(Array(base), <<"array", [i \in DOMAIN s |-> s[i]]>>)
        /\ base \notin {"EmbeddedInstance", "EmbeddedObject"}
        /\ \A i \in DOMAIN s : HeldScalar(s[i], base)
    BY <1>2 DEF Held
  <2>2. /\ s = [i \in DOMAIN s |-> s[i]] /\ d.value = <<"array", s>>
        /\ d.type = Array(base) /\ d.type.array
    BY <2>1 DEF Data, Array
  <2>3. ToRuby(d) = <<"array", [i \in DOMAIN s |-> Element(s[i])]>>
    BY <1>2 DEF ToRuby
  <2> HIDE DEF s, base
  <2>4. ToValue(ToRuby(d), d.type) = FromArray([i \in DOMAIN s |-> Element(s[i])], base)
    BY <2>2, <2>3 DEF ToValue, base
  <2> QED
    BY <2>1, <2>2, <2>4, ArrayEcho
<1> QED
  BY <1>1, <1>2

(* cmpi.i:172-327, 441-721: what a provider hands on as it got it comes    *)
(* back to the broker as it was, for any widths of the integers, arrays of *)
(* any length and any number of arguments.                                 *)
THEOREM EchoAlwaysExact == Spec => []EchoExact
<1>1. InvokeInv => EchoExact
  <2> SUFFICES ASSUME InvokeInv, NEW i \in DOMAIN input, ins[i] # Missing, Held(ins[i])
               PROVE  ToValue(input[i], ins[i].type) = {Good(ins[i].type, ins[i].value)}
    BY DEF EchoExact
  <2>1. i \in 1..Len(input)
    BY LenProperties DEF InvokeInv
  <2>2. input[i] = ToRuby(ins[i])
    BY <2>1 DEF InvokeInv, Given
  <2> QED
    BY <2>2, HeldEcho
<1> QED
  BY <1>1, InvokeAlways, PTL

=============================================================================
