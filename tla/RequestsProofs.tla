--------------------------- MODULE RequestsProofs ---------------------------
(***************************************************************************)
(* What holds of every request, for all names, keys, arrays, projections,  *)
(* numbers of structures and bounds: the invariant is WrapperInv, which    *)
(* the wrappers preserve, and the balance of the references to None.       *)
(***************************************************************************)
EXTENDS Requests, WrappersProofs, FiniteSetTheorems

(* A request that has been built has the arguments of its operation, one   *)
(* that is with the provider knows how many None it holds.                 *)
ReqType ==
  \/ req = NoRequest
  \/ /\ req.at = "built" /\ req.op \in Op /\ req.given \in Given(req.op)
     /\ req.args = Arguments(req.op, req.given)
     /\ DOMAIN req.args = DOMAIN Passed[req.op]
  \/ req.at \in {"called", "running"} /\ req.nones \in Nat

ReqInv == WrapperInv /\ ReqType /\ NoneBalanced /\ Wired

-----------------------------------------------------------------------------
(* No operation has more than eight parameters.                            *)
Tuples(f) == \A op \in DOMAIN f : \E n \in 0..8 : DOMAIN f[op] = 1..n

LEMMA JoinTuples ==
  ASSUME NEW f, NEW g, Tuples(f), Tuples(g)
  PROVE  Tuples(Join(f, g))
  BY DEF Tuples, Join

LEMMA ReadTuples == Tuples(ReadPassed)
  BY DEF Tuples, ReadPassed

LEMMA WriteTuples == Tuples(WritePassed)
  BY DEF Tuples, WritePassed

LEMMA QueryTuples == Tuples(QueryPassed)
  BY DEF Tuples, QueryPassed

LEMMA AssociationTuples == Tuples(AssociatorPassed) /\ Tuples(ReferencePassed)
  BY DEF Tuples, AssociatorPassed, ReferencePassed

LEMMA IndicationTuples == Tuples(FilterPassed) /\ Tuples(IndicationPassed)
  BY DEF Tuples, FilterPassed, IndicationPassed

LEMMA AnyTuples == Tuples(MethodPassed) /\ Tuples(CleanupPassed)
  BY DEF Tuples, MethodPassed, CleanupPassed

LEMMA PassedFinite == \A op \in Op : IsFiniteSet(DOMAIN Passed[op])
<1>1. Tuples(InstancePassed)
  BY ReadTuples, WriteTuples, QueryTuples, JoinTuples DEF InstancePassed
<1>2. Tuples(AssociationPassed)
  BY AssociationTuples, JoinTuples DEF AssociationPassed
<1>3. Tuples(AnyPassed)
  BY AnyTuples, IndicationTuples, JoinTuples DEF AnyPassed
<1>4. Tuples(Passed)
  BY <1>1, <1>2, <1>3, JoinTuples DEF Passed
<1> SUFFICES ASSUME NEW op \in Op PROVE IsFiniteSet(DOMAIN Passed[op])
  OBVIOUS
<1>5. PICK n \in 0..8 : DOMAIN Passed[op] = 1..n
  BY <1>4 DEF Tuples, Op
<1>6. n \in Int /\ 1 \in Int
  BY <1>5
<1>7. IsFiniteSet(1..n)
  BY <1>6, FS_Interval
<1> QED
  BY <1>5, <1>7

-----------------------------------------------------------------------------
(* The methods of CMPIProxyProvider and those of provider.rb take what the *)
(* handlers pass, table by table.                                          *)
Agree(f) == \A op \in DOMAIN f : PythonTakes[op] = f[op] /\ RubyTakes[op] = f[op]

LEMMA JoinAgree ==
  ASSUME NEW f, NEW g, Agree(f), Agree(g)
  PROVE  Agree(Join(f, g))
  BY DEF Agree, Join

LEMMA ReadAgree == Agree(ReadPassed)
<1>1. PythonTakes["enum_instance_names"] = ReadPassed["enum_instance_names"] /\ RubyTakes["enum_instance_names"] = ReadPassed["enum_instance_names"]
  BY DEF ReadPassed, PythonTakes, RubyTakes
<1>2. PythonTakes["enum_instances"] = ReadPassed["enum_instances"] /\ RubyTakes["enum_instances"] = ReadPassed["enum_instances"]
  BY DEF ReadPassed, PythonTakes, RubyTakes
<1>3. PythonTakes["get_instance"] = ReadPassed["get_instance"] /\ RubyTakes["get_instance"] = ReadPassed["get_instance"]
  BY DEF ReadPassed, PythonTakes, RubyTakes
<1>4. DOMAIN ReadPassed = {"enum_instance_names", "enum_instances", "get_instance"}
  BY DEF ReadPassed
<1> QED
  BY <1>1, <1>2, <1>3, <1>4 DEF Agree

LEMMA WriteAgree == Agree(WritePassed)
<1>1. PythonTakes["create_instance"] = WritePassed["create_instance"] /\ RubyTakes["create_instance"] = WritePassed["create_instance"]
  BY DEF WritePassed, PythonTakes, RubyTakes
<1>2. PythonTakes["set_instance"] = WritePassed["set_instance"] /\ RubyTakes["set_instance"] = WritePassed["set_instance"]
  BY DEF WritePassed, PythonTakes, RubyTakes
<1>3. PythonTakes["delete_instance"] = WritePassed["delete_instance"] /\ RubyTakes["delete_instance"] = WritePassed["delete_instance"]
  BY DEF WritePassed, PythonTakes, RubyTakes
<1>4. DOMAIN WritePassed = {"create_instance", "set_instance", "delete_instance"}
  BY DEF WritePassed
<1> QED
  BY <1>1, <1>2, <1>3, <1>4 DEF Agree

LEMMA QueryAgree == Agree(QueryPassed)
  BY DEF Agree, QueryPassed, PythonTakes, RubyTakes

LEMMA MethodAgree == Agree(MethodPassed)
  BY DEF Agree, MethodPassed, PythonTakes, RubyTakes

LEMMA AssociatorAgree == Agree(AssociatorPassed)
<1>1. PythonTakes["associator_names"] = AssociatorPassed["associator_names"] /\ RubyTakes["associator_names"] = AssociatorPassed["associator_names"]
  BY DEF AssociatorPassed, PythonTakes, RubyTakes
<1>2. PythonTakes["associators"] = AssociatorPassed["associators"] /\ RubyTakes["associators"] = AssociatorPassed["associators"]
  BY DEF AssociatorPassed, PythonTakes, RubyTakes
<1>3. DOMAIN AssociatorPassed = {"associator_names", "associators"}
  BY DEF AssociatorPassed
<1> QED
  BY <1>1, <1>2, <1>3 DEF Agree

LEMMA ReferenceAgree == Agree(ReferencePassed)
<1>1. PythonTakes["reference_names"] = ReferencePassed["reference_names"] /\ RubyTakes["reference_names"] = ReferencePassed["reference_names"]
  BY DEF ReferencePassed, PythonTakes, RubyTakes
<1>2. PythonTakes["references"] = ReferencePassed["references"] /\ RubyTakes["references"] = ReferencePassed["references"]
  BY DEF ReferencePassed, PythonTakes, RubyTakes
<1>3. DOMAIN ReferencePassed = {"reference_names", "references"}
  BY DEF ReferencePassed
<1> QED
  BY <1>1, <1>2, <1>3 DEF Agree

LEMMA FilterAgree == Agree(FilterPassed)
<1>1. PythonTakes["authorize_filter"] = FilterPassed["authorize_filter"] /\ RubyTakes["authorize_filter"] = FilterPassed["authorize_filter"]
  BY DEF FilterPassed, PythonTakes, RubyTakes
<1>2. PythonTakes["activate_filter"] = FilterPassed["activate_filter"] /\ RubyTakes["activate_filter"] = FilterPassed["activate_filter"]
  BY DEF FilterPassed, PythonTakes, RubyTakes
<1>3. PythonTakes["deactivate_filter"] = FilterPassed["deactivate_filter"] /\ RubyTakes["deactivate_filter"] = FilterPassed["deactivate_filter"]
  BY DEF FilterPassed, PythonTakes, RubyTakes
<1>4. DOMAIN FilterPassed = {"authorize_filter", "activate_filter", "deactivate_filter"}
  BY DEF FilterPassed
<1> QED
  BY <1>1, <1>2, <1>3, <1>4 DEF Agree

LEMMA IndicationAgree == Agree(IndicationPassed)
<1>1. PythonTakes["must_poll"] = IndicationPassed["must_poll"] /\ RubyTakes["must_poll"] = IndicationPassed["must_poll"]
  BY DEF IndicationPassed, PythonTakes, RubyTakes
<1>2. PythonTakes["enable_indications"] = IndicationPassed["enable_indications"] /\ RubyTakes["enable_indications"] = IndicationPassed["enable_indications"]
  BY DEF IndicationPassed, PythonTakes, RubyTakes
<1>3. PythonTakes["disable_indications"] = IndicationPassed["disable_indications"] /\ RubyTakes["disable_indications"] = IndicationPassed["disable_indications"]
  BY DEF IndicationPassed, PythonTakes, RubyTakes
<1>4. DOMAIN IndicationPassed = {"must_poll", "enable_indications", "disable_indications"}
  BY DEF IndicationPassed
<1> QED
  BY <1>1, <1>2, <1>3, <1>4 DEF Agree

LEMMA CleanupAgree == Agree(CleanupPassed)
  BY DEF Agree, CleanupPassed, PythonTakes, RubyTakes

(* cmpi_provider.c:220-1141, cmpi_pywbem_bindings.py:478-713,              *)
(* provider.rb:60-163: each method of CMPIProxyProvider and each of the    *)
(* Ruby interfaces takes, in number and in order, what the handler of its  *)
(* operation passes.                                                       *)
THEOREM ParametersAgree ==
  \A op \in Op : PythonTakes[op] = Passed[op] /\ RubyTakes[op] = Passed[op]
<1>1. Agree(InstancePassed)
  BY ReadAgree, WriteAgree, QueryAgree, JoinAgree DEF InstancePassed
<1>2. Agree(AssociationPassed)
  BY AssociatorAgree, ReferenceAgree, JoinAgree DEF AssociationPassed
<1>3. Agree(AnyPassed)
  BY MethodAgree, FilterAgree, IndicationAgree, CleanupAgree, JoinAgree DEF AnyPassed
<1>4. Agree(Passed)
  BY <1>1, <1>2, <1>3, JoinAgree DEF Passed
<1> QED
  BY <1>4 DEF Agree, Op

-----------------------------------------------------------------------------
(* None in the place of every NULL: the tuple holds as many None as there  *)
(* were of both.                                                           *)
LEMMA PackedNones ==
  ASSUME NEW args, IsFiniteSet(DOMAIN args)
  PROVE  LET packed == [i \in DOMAIN args |-> IF args[i] = CNull THEN None ELSE args[i]]
         IN  /\ Nones(args) \in Nat /\ Nulls(args) \in Nat
             /\ Nones(packed) = Nones(args) + Nulls(args)
<1> DEFINE packed == [i \in DOMAIN args |-> IF args[i] = CNull THEN None ELSE args[i]]
           nones == {i \in DOMAIN args : args[i] = None}
           nulls == {i \in DOMAIN args : args[i] = CNull}
<1>1. CNull # None
  BY DEF CNull, None, Value
<1>2. IsFiniteSet(nones) /\ IsFiniteSet(nulls)
  BY FS_Subset
<1>3. {i \in DOMAIN packed : packed[i] = None} = nones \cup nulls
  BY <1>1
<1>4. nones \cap nulls = {}
  BY <1>1
<1>5. Cardinality(nones \cup nulls) = Cardinality(nones) + Cardinality(nulls)
  <2> HIDE DEF nones, nulls
  <2>1. Cardinality(nones \cap nulls) = 0
    BY <1>4, FS_EmptySet
  <2>2. Cardinality(nones) \in Nat /\ Cardinality(nulls) \in Nat
    BY <1>2, FS_CardinalityType
  <2>3. Cardinality(nones \cup nulls)
          = Cardinality(nones) + Cardinality(nulls) - Cardinality(nones \cap nulls)
    BY <1>2, FS_Union
  <2> QED
    BY <2>1, <2>2, <2>3
<1>6. Nones(args) \in Nat /\ Nulls(args) \in Nat
  BY <1>2, FS_CardinalityType DEF Nones, Nulls
<1> QED
  BY <1>3, <1>5, <1>6 DEF Nones, Nulls

LEMMA NonesType ==
  ASSUME NEW args, IsFiniteSet(DOMAIN args)
  PROVE  Nones(args) \in Nat
  BY PackedNones

(* A request that is under way holds a number of references.               *)
LEMMA HeldType == ReqType => HeldNones \in Nat
  BY PassedFinite, NonesType DEF ReqType, HeldNones, NoRequest

-----------------------------------------------------------------------------
LEMMA InitReqInv == Init => ReqInv
  BY InitWrapperInv DEF Init, ReqInv, ReqType, NoneBalanced, HeldNones, WrappersInit, NoRequest, Wired

LEMMA BuildStep ==
  ASSUME ReqInv, NEW op \in Op, NEW given \in Given(op), Build(op, given)
  PROVE  ReqInv'
<1> DEFINE args == Arguments(op, given)
<1>1. DOMAIN args = DOMAIN Passed[op] /\ IsFiniteSet(DOMAIN args)
  BY PassedFinite DEF Arguments
<1>2. Nones(args) \in Nat
  BY <1>1, NonesType
<1> HIDE DEF args
<1>3. /\ req = NoRequest /\ req'.at = "built" /\ req'.op = op /\ req'.args = args
      /\ none' = IF lang = "python" THEN none + Nones(args) ELSE none
      /\ UNCHANGED <<lang, call, accepts, lost, fault>>
  BY DEF Build, Receive, args, Python
<1>4. none \in Int /\ none' \in Int
  BY <1>2, <1>3 DEF ReqInv, WrapperInv, WrappersTypeOK
<1>5. \/ UNCHANGED slot
      \/ \E s \in Slots : slot' = [slot EXCEPT ![s] = Sfe("given", <<>>, NULL, NULL, FALSE)]
  BY DEF Build, Receive
<1>6. /\ slot' \in [Slots -> {Free} \cup
           [exp : {"own", "given", "NULL", "released"}, filter : Seq(Names),
            keys : Lists \cup {NULL}, projection : Projections \cup {NULL, Garbage},
            owned : BOOLEAN]]
      /\ FilterExact'
  <2>1. CASE UNCHANGED slot
    BY <2>1 DEF ReqInv, WrapperInv, WrappersTypeOK, FilterExact
  <2>2. ASSUME NEW s \in Slots, slot' = [slot EXCEPT ![s] = Sfe("given", <<>>, NULL, NULL, FALSE)]
        PROVE  <1>6!:
    <3>1. Sfe("given", <<>>, NULL, NULL, FALSE) \in
            [exp : {"own", "given", "NULL", "released"}, filter : Seq(Names),
             keys : Lists \cup {NULL}, projection : Projections \cup {NULL, Garbage},
             owned : BOOLEAN]
      BY EmptySeq DEF Sfe
    <3>2. Sfe("given", <<>>, NULL, NULL, FALSE).owned = FALSE
      BY DEF Sfe
    <3> QED
      BY <2>2, <3>1, <3>2 DEF ReqInv, WrapperInv, WrappersTypeOK, FilterExact
  <2> QED
    BY <1>5, <2>1, <2>2
<1>7. WrappersTypeOK'
  BY <1>3, <1>4, <1>6 DEF ReqInv, WrapperInv, WrappersTypeOK
<1>8. NewInv' /\ SetInv' /\ PropertyFilterExact' /\ BrokerExpressionKept'
  BY <1>3 DEF ReqInv, WrapperInv, NewInv, SetInv, PropertyFilterExact, BrokerExpressionKept, HasName, Wanted
<1>9. ReqType'
  <2>1. req'.given = given /\ req'.args = Arguments(op, given)
    BY DEF Build, Receive
  <2> QED
    BY <1>1, <1>3, <2>1 DEF ReqType
<1>10. NoneBalanced'
  <2>1. HeldNones' = Nones(args)
    BY <1>3 DEF HeldNones, Nones
  <2>2. HeldNones = 0
    BY <1>3 DEF HeldNones, NoRequest
  <2>3. lost => lost'
    BY DEF Build, Receive
  <2> QED
    BY <1>2, <1>3, <1>4, <2>1, <2>2, <2>3 DEF NoneBalanced, ReqInv
<1>11. Wired'
  BY <1>3 DEF Wired
<1> QED
  BY <1>6, <1>7, <1>8, <1>9, <1>10, <1>11 DEF ReqInv, WrapperInv

LEMMA MissingStep ==
  ASSUME ReqInv, Missing
  PROVE  ReqInv'
<1>1. /\ UNCHANGED <<lang, slot, call, accepts, none, fault>> /\ lang = "python"
      /\ req'.at = "idle" /\ req' = NoRequest
  BY DEF Missing, Python, NoRequest
<1>0. lost' \in BOOLEAN /\ (lost => lost') /\ (Nones(req.args) # 0 => lost')
  BY Zenon DEF Missing
<1>2. WrapperInv'
  BY <1>0, <1>1 DEF ReqInv, WrapperInv, WrappersTypeOK, NewInv, SetInv, FilterExact, HasName,
     PropertyFilterExact, BrokerExpressionKept, Wanted
<1>3. HeldNones = Nones(req.args) /\ HeldNones' = 0 /\ HeldNones \in Nat
  BY <1>1, HeldType DEF Missing, HeldNones, ReqInv
<1>4. NoneBalanced'
  BY <1>0, <1>1, <1>3 DEF NoneBalanced, ReqInv, WrapperInv, WrappersTypeOK
<1> QED
  BY <1>1, <1>2, <1>4 DEF ReqInv, ReqType, Wired

(* A formal parameter finds its argument, whatever the broker left out.    *)
LEMMA PackWires ==
  ASSUME ReqInv, Pack
  PROVE  Wired'
<1> DEFINE op == req.op
           given == req.given
           packed == [i \in DOMAIN req.args |-> Packed(req.args[i])]
           takes == IF Python THEN PythonTakes[op] ELSE RubyTakes[op]
<1>1. /\ op \in Op /\ req.args = Arguments(op, given)
      /\ DOMAIN req.args = DOMAIN Passed[op]
  BY DEF Pack, ReqInv, ReqType, NoRequest
<1>2. takes = Passed[op]
  BY <1>1, ParametersAgree
<1>3. /\ req'.given = given
      /\ req'.view = [p \in Params(op) |-> packed[CHOOSE i \in DOMAIN takes : takes[i] = p]]
  BY DEF Pack, Deliver
<1>4. ASSUME NEW p \in Params(op)
      PROVE  packed[CHOOSE i \in DOMAIN takes : takes[i] = p]
               = IF given[p] = "NULL" \/ (lang = "ruby" /\ given[p] = "false")
                 THEN None ELSE Value(p, given[p])
  <2> DEFINE i == CHOOSE i \in DOMAIN takes : takes[i] = p
  <2>1. \E j \in DOMAIN takes : takes[j] = p
    BY <1>2 DEF Params
  <2>2. i \in DOMAIN Passed[op] /\ Passed[op][i] = p
    BY <1>2, <2>1
  <2> HIDE DEF i
  <2>3. req.args[i] = Argument(p, given[p])
    BY <1>1, <2>2 DEF Arguments
  <2>4. packed[i] = Packed(req.args[i])
    BY <1>1, <2>2
  <2>5. given[p] # "NULL" => Value(p, given[p]) # CNull
    BY DEF Value, CNull
  <2>6. None # CNull /\ None[2] # "false" /\ Value(p, given[p])[2] = given[p]
    BY DEF None, CNull, Value
  <2>7. Python <=> lang # "ruby"
    BY DEF Python, ReqInv, WrapperInv, WrappersTypeOK
  <2> QED
    BY <2>3, <2>4, <2>5, <2>6, <2>7 DEF Argument, Packed, i
<1>5. lang' = lang
  BY DEF Pack
<1> HIDE DEF packed, takes
<1> QED
  BY <1>3, <1>4, <1>5 DEF Wired, op, given

LEMMA PackStep ==
  ASSUME ReqInv, Pack
  PROVE  ReqInv'
<1> DEFINE packed == [i \in DOMAIN req.args |-> Packed(req.args[i])]
<1>1. IsFiniteSet(DOMAIN req.args)
  BY PassedFinite DEF Pack, ReqInv, ReqType, NoRequest
<1>2. /\ Nones(req.args) \in Nat /\ Nulls(req.args) \in Nat /\ Nones(packed) \in Nat
      /\ lang = "python" => Nones(packed) = Nones(req.args) + Nulls(req.args)
  <2>1. CASE Python
    <3>1. packed = [i \in DOMAIN req.args |-> IF req.args[i] = CNull THEN None ELSE req.args[i]]
      BY <2>1 DEF Packed
    <3> QED
      BY <1>1, <3>1, PackedNones
  <2>2. CASE ~Python
    BY <1>1, <2>2, PackedNones, NonesType DEF Python
  <2> QED
    BY <2>1, <2>2
<1>3. req'.at = "called" /\ req'.nones = Nones(packed)
  BY DEF Pack, Deliver
<1> HIDE DEF packed
<1>4. /\ UNCHANGED <<lang, slot, call, accepts, lost, fault>>
      /\ none' = IF lang = "python" THEN none + Nulls(req.args) ELSE none
  BY DEF Pack, Python
<1>5. WrapperInv'
  BY <1>2, <1>4 DEF ReqInv, WrapperInv, WrappersTypeOK, NewInv, SetInv, FilterExact, HasName,
     PropertyFilterExact, BrokerExpressionKept, Wanted
<1>6. HeldNones = Nones(req.args) /\ HeldNones' = Nones(packed)
  BY <1>3 DEF Pack, HeldNones
<1>7. NoneBalanced'
  BY <1>2, <1>4, <1>6 DEF NoneBalanced, ReqInv, WrapperInv, WrappersTypeOK
<1> QED
  BY <1>2, <1>3, <1>5, <1>7, PackWires DEF ReqInv, ReqType

LEMMA RunStep ==
  ASSUME ReqInv, Run
  PROVE  ReqInv'
<1>1. UNCHANGED wrapperVars /\ req.nones \in Nat
      /\ req'.at = "running" /\ req'.nones = req.nones
  BY DEF Run, ReqInv, ReqType, NoRequest
<1>2. WrapperInv'
  BY <1>1 DEF wrapperVars, ReqInv, WrapperInv, WrappersTypeOK, NewInv, SetInv, FilterExact,
     HasName, PropertyFilterExact, BrokerExpressionKept, Wanted
<1>3. HeldNones' = HeldNones
  BY <1>1 DEF Run, HeldNones
<1> QED
  BY <1>1, <1>2, <1>3 DEF ReqInv, ReqType, NoneBalanced, Wired, wrapperVars

(* What the provider does with the wrappers, during and after its call.    *)
LEMMA WrappersRunStep ==
  ASSUME ReqInv, WrapperStep, UNCHANGED req
  PROVE  ReqInv'
<1>1. WrapperInv' /\ WrapperInv
  BY WrapperStepInv DEF ReqInv
<1>2. /\ lang' = lang /\ none' >= none
      /\ lost => lost'
      /\ none' # none => lost'
  BY WrapperStepNone DEF ReqInv
<1>3. HeldNones' = HeldNones /\ HeldNones \in Nat /\ ReqType'
  BY HeldType DEF ReqInv, HeldNones, ReqType, Nones
<1>4. none \in Int /\ none' \in Int
  BY <1>1 DEF WrapperInv, WrappersTypeOK
<1>5. NoneBalanced'
  BY <1>2, <1>3, <1>4 DEF NoneBalanced, ReqInv
<1> QED
  BY <1>1, <1>2, <1>3, <1>5 DEF ReqInv, Wired

LEMMA ReturnStep ==
  ASSUME ReqInv, Return
  PROVE  ReqInv'
<1>1. /\ req.at = "running" /\ req.nones \in Nat /\ req' = NoRequest /\ req'.at = "idle"
      /\ UNCHANGED <<lang, slot, call, accepts, lost, fault>>
      /\ none' = IF lang = "python" THEN none - req.nones ELSE none
  BY DEF Return, ReqInv, ReqType, NoRequest, Python
<1>2. WrapperInv'
  BY <1>1 DEF ReqInv, WrapperInv, WrappersTypeOK, NewInv, SetInv, FilterExact, HasName,
     PropertyFilterExact, BrokerExpressionKept, Wanted
<1>3. HeldNones = req.nones /\ HeldNones' = 0
  BY <1>1 DEF HeldNones
<1>4. NoneBalanced'
  BY <1>1, <1>3 DEF NoneBalanced, ReqInv, WrapperInv, WrappersTypeOK
<1> QED
  BY <1>1, <1>2, <1>4 DEF ReqInv, ReqType, Wired

LEMMA StepReqInv == ReqInv /\ [Next]_vars => ReqInv'
<1> SUFFICES ASSUME ReqInv, [Next]_vars PROVE ReqInv'
  OBVIOUS
<1>1. ASSUME NEW op \in Op, NEW given \in Given(op), Build(op, given) PROVE ReqInv'
  BY <1>1, BuildStep
<1>2. CASE Provide \/ Collect
  BY <1>2, WrappersRunStep DEF Provide, Collect, WrapperStep
<1>3. CASE UNCHANGED vars
  <2>1. HeldNones' = HeldNones
    BY <1>3 DEF vars, HeldNones, Nones
  <2> QED
    BY <1>3, <2>1 DEF vars, wrapperVars, ReqInv, WrapperInv, WrappersTypeOK, NewInv, SetInv,
       FilterExact, HasName, PropertyFilterExact, BrokerExpressionKept, Wanted, ReqType, NoneBalanced, Wired
<1> QED
  BY <1>1, <1>2, <1>3, MissingStep, PackStep, RunStep, ReturnStep DEF Next

LEMMA AlwaysReqInv == Spec => []ReqInv
  BY InitReqInv, StepReqInv, PTL DEF Spec

-----------------------------------------------------------------------------
(* A request that has been built has what the broker gave it, and an       *)
(* argument for each parameter of its operation.                           *)
THEOREM TypeCorrect == Spec => []TypeOK
<1>1. ReqInv => TypeOK
  BY DEF ReqInv, WrapperInv, ReqType, TypeOK
<1> QED
  BY <1>1, AlwaysReqInv, PTL

(* cmpi_provider.c:220-1141, cmpi_pywbem_bindings.py:478-723,              *)
(* provider.rb:60-163: whatever the broker leaves out, every parameter of  *)
(* the provider's method has the value given for it, and None for none;    *)
(* only Ruby's false is nil.                                               *)
THEOREM AlwaysWired == Spec => []Wired
<1>1. ReqInv => Wired
  BY DEF ReqInv
<1> QED
  BY <1>1, AlwaysReqInv, PTL

(* target_python.c:244-248, 312-319: a reference to None is released only  *)
(* if it was taken, and kept only on the paths that are known to lose one. *)
THEOREM NoneAlwaysBalanced == Spec => []NoneBalanced
<1>1. ReqInv => NoneBalanced
  BY DEF ReqInv
<1> QED
  BY <1>1, AlwaysReqInv, PTL

(* cmpi.i:948-990: a select expression that a provider gets has its whole  *)
(* filter, however many keys and projected names there are.                *)
THEOREM FilterAlwaysExact == Spec => []FilterExact
<1>1. ReqInv => FilterExact
  BY DEF ReqInv, WrapperInv
<1> QED
  BY <1>1, AlwaysReqInv, PTL

(* cmpi_types.i:1143-1194: a property filter is the given names and the    *)
(* missing keys of the instance, each once.                                *)
THEOREM PropertyFilterAlwaysExact == Spec => []PropertyFilterExact
<1>1. ReqInv => PropertyFilterExact
  BY DEF ReqInv, WrapperInv
<1> QED
  BY <1>1, AlwaysReqInv, PTL

(* cmpi.i:934-959, target_python.c:244-248: however creations of select    *)
(* expressions fail and proxies die, no expression that the broker lent is *)
(* released.                                                               *)
THEOREM BrokerExpressionAlwaysKept == Spec => []BrokerExpressionKept
<1>1. ReqInv => BrokerExpressionKept
  BY DEF ReqInv, WrapperInv
<1> QED
  BY <1>1, AlwaysReqInv, PTL

=============================================================================
