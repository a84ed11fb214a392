--------------------------- MODULE WrappersProofs ---------------------------
(***************************************************************************)
(* What every step of a wrapper preserves, whatever names, arrays and      *)
(* projections there are and whichever answer of the broker fails.         *)
(***************************************************************************)
EXTENDS Wrappers, SequenceTheorems, TLAPS

Prefix(s, t) == Len(s) <= Len(t) /\ \A i \in 1..Len(s) : s[i] = t[i]

(* create_select_filter_exp on its way: what has been copied is the start  *)
(* of what is wanted, and the raised flag is set if and only if there is   *)
(* no expression to wrap.                                                  *)
NewInv ==
  call.fn = "new" =>
    /\ call.flag <=> call.exp # "own"
    /\ call.flag => lang = "python"
    /\ call.projection = Garbage => lang = "python"
    /\ call.at = "finish" => call.flag
    /\ call.at = "element" => Prefix(call.filter, Wanted)

(* The names after the given ones are keys, and new when they are added.   *)
OnlyMissingKeys(names, given) ==
  \A i \in Len(given) + 1 .. Len(names) :
    /\ \E k \in 1..Len(Keys) : names[i] = Keys[k]
    /\ \A j \in 1 .. i - 1 : Lower(names[j]) # Lower(names[i])

(* set_property_filter on its way: the keys seen so far are in the copy.   *)
SetInv ==
  call.fn = "set" =>
    /\ call.i <= Len(Keys)
    /\ call.at \in {"path", "count"} => call.i = 0
    /\ Prefix(Strings(call.given), call.props)
    /\ \A k \in 1..call.i : HasName(call.props, Keys[k])
    /\ OnlyMissingKeys(call.props, Strings(call.given))

WrapperInv ==
  /\ WrappersTypeOK /\ NewInv /\ SetInv
  /\ FilterExact /\ PropertyFilterExact /\ BrokerExpressionKept

-----------------------------------------------------------------------------
(* string_array_clone copies an array of names; NULL gives no names.       *)
LEMMA StringsType ==
  /\ \A a \in Lists \cup {NULL} : Strings(a) \in Seq(Names)
  /\ \A a \in Projections \cup {NULL, Garbage} : Strings(a) \in Seq(Names)
  BY WrappersAssumption, EmptySeq DEF Strings

LEMMA WantedType ==
  ASSUME call \in NewCall
  PROVE  Wanted \in Seq(Names)
  BY StringsType, ConcatProperties DEF Wanted, NewCall

LEMMA InitWrapperInv == WrappersInit => WrapperInv
<1> SUFFICES ASSUME WrappersInit PROVE WrapperInv
  OBVIOUS
<1>1. WrappersTypeOK
  <2>0. lost \in BOOLEAN
    BY Zenon DEF WrappersInit
  <2>1. none \in Int /\ fault = "none" /\ lang \in {"python", "ruby"}
    BY DEF WrappersInit
  <2>2. accepts \in [names : Seq(Names) \cup {NULL}, given : Lists \cup {NULL}]
    BY DEF WrappersInit, NoFilter
  <2> QED
    BY <2>0, <2>1, <2>2 DEF WrappersInit, WrappersTypeOK
<1>2. NewInv /\ SetInv /\ FilterExact /\ PropertyFilterExact /\ BrokerExpressionKept
  BY DEF WrappersInit, NewInv, SetInv, FilterExact, PropertyFilterExact, BrokerExpressionKept, Idle,
         NoFilter
<1> QED
  BY <1>1, <1>2 DEF WrapperInv

LEMMA CallKind ==
  ASSUME WrappersTypeOK
  PROVE  /\ call.fn = "new" => call \in NewCall
         /\ call.fn = "set" => call \in SetCall
         /\ call = Idle => call.fn = "none"
  BY DEF WrappersTypeOK, NewCall, SetCall, Idle

LEMMA MakingType ==
  ASSUME NEW s \in Slots, NEW keys \in Lists \cup {NULL},
         NEW exp \in {"own", "NULL", "released"}, NEW flag \in BOOLEAN,
         NEW p \in Projections \cup {NULL, Garbage}, Making(s, exp, keys, p, flag)
  PROVE  /\ call' \in NewCall /\ call'.fn = "new" /\ call'.at = "wrap"
         /\ call'.exp = exp /\ call'.flag = flag /\ call'.projection = p
  BY EmptySeq DEF Making, NewCall

LEMMA NewSelectExpStep ==
  ASSUME WrapperInv, NEW s \in Slots, NEW keys \in Lists \cup {NULL}, NewSelectExp(s, keys)
  PROVE  WrapperInv'
<1>1. CASE \E p \in Projections \cup {NULL} : Making(s, "own", keys, p, FALSE)
  <2>1. PICK p \in Projections \cup {NULL} : Making(s, "own", keys, p, FALSE)
    BY <1>1
  <2>2. /\ call' \in NewCall /\ call'.fn = "new" /\ call'.at = "wrap"
        /\ call'.exp = "own" /\ call'.flag = FALSE /\ call'.projection = p
    BY <2>1, MakingType
  <2>3. p # Garbage
    BY WrappersAssumption
  <2>4. WrappersTypeOK' /\ NewInv' /\ SetInv'
    BY <2>1, <2>2, <2>3 DEF NewSelectExp, WrapperInv, WrappersTypeOK, NewInv, SetInv
  <2> QED
    BY <2>1, <2>4 DEF NewSelectExp, WrapperInv, FilterExact, PropertyFilterExact, HasName, BrokerExpressionKept
<1>2. CASE Unwind
  <2>1. call' = Idle
    BY <1>2 DEF Unwind
  <2>2. WrappersTypeOK' /\ NewInv' /\ SetInv'
    BY <1>2, <2>1 DEF NewSelectExp, WrapperInv, WrappersTypeOK, NewInv, SetInv, Idle
  <2> QED
    BY <2>2 DEF NewSelectExp, WrapperInv, FilterExact, PropertyFilterExact, HasName, BrokerExpressionKept
<1>3. CASE lang = "python" /\ (\E p \in Unset : Making(s, "NULL", keys, p, TRUE))
  <2>1. PICK p \in Unset : Making(s, "NULL", keys, p, TRUE)
    BY <1>3
  <2>2. p \in {NULL, Garbage}
    BY DEF Unset
  <2>3. /\ call' \in NewCall /\ call'.fn = "new" /\ call'.at = "wrap"
        /\ call'.exp = "NULL" /\ call'.flag = TRUE /\ call'.projection = p
    BY <2>1, <2>2, MakingType
  <2>4. WrappersTypeOK' /\ NewInv' /\ SetInv'
    BY <1>3, <2>2, <2>3 DEF NewSelectExp, WrapperInv, WrappersTypeOK, NewInv, SetInv
  <2> QED
    BY <1>3, <2>4 DEF NewSelectExp, WrapperInv, FilterExact, PropertyFilterExact, HasName, BrokerExpressionKept
<1> QED
  BY <1>1, <1>2, <1>3 DEF NewSelectExp

LEMMA WrapFilterStep ==
  ASSUME WrapperInv, WrapFilter
  PROVE  WrapperInv'
<1>0. call \in NewCall /\ call.at = "wrap" /\ call.fn = "new"
  BY CallKind DEF WrapFilter, In, WrapperInv
<1>1. WrappersTypeOK'
  <2>1. call' \in NewCall
    BY <1>0, StringsType DEF WrapFilter, NewCall
  <2> QED
    BY <2>1 DEF WrapFilter, WrapperInv, WrappersTypeOK
<1>2. NewInv'
  <2>1. /\ call'.filter = Strings(call.keys) /\ call'.keys = call.keys
        /\ call'.projection = call.projection /\ call'.flag = call.flag
        /\ call'.exp = call.exp /\ call'.at = "element"
    BY <1>0 DEF WrapFilter, NewCall
  <2>2. Prefix(call'.filter, Wanted')
    <3>1. Strings(call.keys) \in Seq(Names) /\ Strings(call.projection) \in Seq(Names)
      BY <1>0, StringsType DEF NewCall
    <3>2. Wanted' = Strings(call.keys) \o Strings(call.projection)
      BY <2>1 DEF Wanted
    <3> QED
      BY <2>1, <3>1, <3>2, ConcatProperties DEF Prefix
  <2> QED
    BY <1>0, <2>1, <2>2 DEF WrapFilter, NewInv, WrapperInv
<1>3. SetInv'
  BY <1>0 DEF WrapFilter, SetInv, NewCall
<1>4. BrokerExpressionKept'
  BY <1>0 DEF WrapFilter, BrokerExpressionKept, NewInv, WrapperInv
<1>5. FilterExact' /\ PropertyFilterExact'
  BY DEF WrapFilter, WrapperInv, FilterExact, PropertyFilterExact, HasName
<1> QED
  BY <1>1, <1>2, <1>3, <1>4, <1>5 DEF WrapperInv

LEMMA ProjectionElementStep ==
  ASSUME WrapperInv, ProjectionElement
  PROVE  WrapperInv'
<1>0. call \in NewCall /\ call.at = "element" /\ call.fn = "new" /\ Wanted \in Seq(Names)
  BY CallKind, WantedType DEF ProjectionElement, In, WrapperInv
<1>1. CASE call' = [call EXCEPT !.filter = Append(@, Wanted[Len(@) + 1])]
  <2>1. /\ Wanted' = Wanted /\ call'.fn = "new" /\ call'.at = "element"
        /\ call'.flag = call.flag /\ call'.exp = call.exp /\ call'.projection = call.projection
        /\ call'.filter = Append(call.filter, Wanted[Len(call.filter) + 1])
    BY <1>0, <1>1 DEF NewCall, Wanted
  <2>2. call.filter \in Seq(Names) /\ Len(call.filter) < Len(Wanted)
    BY <1>0 DEF NewCall, ProjectionElement
  <2>3. Wanted[Len(call.filter) + 1] \in Names
    BY <1>0, <2>2, ElementOfSeq
  <2>4. call' \in NewCall
    BY <1>0, <1>1, <2>2, <2>3, AppendProperties DEF NewCall
  <2>5. Prefix(call'.filter, Wanted)
    <3>1. Prefix(call.filter, Wanted)
      BY <1>0 DEF NewInv, WrapperInv
    <3> QED
      BY <1>0, <2>1, <2>2, <2>3, <3>1, AppendProperties DEF Prefix
  <2>6. NewInv'
    BY <1>0, <2>1, <2>5 DEF NewInv, WrapperInv, ProjectionElement
  <2>7. WrappersTypeOK' /\ SetInv'
    BY <1>1, <2>1, <2>4 DEF ProjectionElement, WrapperInv, WrappersTypeOK, SetInv
  <2> QED
    BY <1>1, <2>6, <2>7 DEF ProjectionElement, WrapperInv, FilterExact, PropertyFilterExact, HasName, BrokerExpressionKept
<1>2. CASE Unwind
  <2>1. call' = Idle
    BY <1>2 DEF Unwind
  <2>2. WrappersTypeOK' /\ NewInv' /\ SetInv'
    BY <1>2, <2>1 DEF ProjectionElement, WrapperInv, WrappersTypeOK, NewInv, SetInv, Idle
  <2> QED
    BY <2>2 DEF ProjectionElement, WrapperInv, FilterExact, PropertyFilterExact, HasName, BrokerExpressionKept
<1>3. CASE /\ lang = "python"
           /\ call' = [call EXCEPT !.at = "finish", !.exp = "released", !.flag = TRUE]
          
  <2>1. call' \in NewCall /\ call'.at = "finish" /\ call'.exp = "released" /\ call'.flag = TRUE
        /\ call'.projection = call.projection /\ call'.fn = "new"
    BY <1>0, <1>3 DEF NewCall
  <2>2. WrappersTypeOK' /\ NewInv' /\ SetInv'
    BY <1>0, <1>3, <2>1 DEF ProjectionElement, WrapperInv, WrappersTypeOK, NewInv, SetInv
  <2> QED
    BY <1>3, <2>2 DEF ProjectionElement, WrapperInv, FilterExact, PropertyFilterExact, HasName, BrokerExpressionKept
<1> QED
  BY <1>1, <1>2, <1>3 DEF ProjectionElement

(* What is copied whole is what is wanted.                                 *)
LEMMA PrefixEqual ==
  ASSUME NEW s \in Seq(Names), NEW t \in Seq(Names), Prefix(s, t), Len(s) = Len(t)
  PROVE  s = t
  BY SeqEqual DEF Prefix

LEMMA NewDoneStep ==
  ASSUME WrapperInv, NewDone
  PROVE  WrapperInv'
<1>0. call \in NewCall /\ call' = Idle /\ Wanted \in Seq(Names)
  BY CallKind, WantedType DEF NewDone, WrapperInv
<1>1. NewInv' /\ SetInv'
  BY <1>0 DEF NewInv, SetInv, Idle
<1>2. CASE call.flag
  <2>1. UNCHANGED slot
    BY <1>2 DEF NewDone
  <2>2. WrappersTypeOK'
    BY <1>0, <2>1 DEF NewDone, WrapperInv, WrappersTypeOK
  <2> QED
    BY <1>1, <2>1, <2>2 DEF NewDone, WrapperInv, FilterExact, PropertyFilterExact, HasName, BrokerExpressionKept
<1>3. CASE ~call.flag
  <2> DEFINE new == Sfe(call.exp, call.filter, call.keys, call.projection, TRUE)
  <2>1. slot' = [slot EXCEPT ![call.slot] = new] /\ call.slot \in Slots
    BY <1>0, <1>3 DEF NewDone, NewCall
  <2>2. call.exp = "own" /\ call.at = "element" /\ call.fn = "new"
    BY <1>0, <1>3 DEF NewDone, NewInv, WrapperInv, NewCall
  <2>3. call.filter = Wanted
    <3>1. Prefix(call.filter, Wanted) /\ Len(call.filter) = Len(Wanted)
      BY <2>2 DEF NewDone, NewInv, WrapperInv
    <3> QED
      BY <1>0, <3>1, PrefixEqual DEF NewCall
  <2>4. new \in [exp : {"own", "given", "NULL", "released"}, filter : Seq(Names),
        keys : Lists \cup {NULL}, projection : Projections \cup {NULL, Garbage}, owned : BOOLEAN]
    BY <1>0 DEF Sfe, NewCall
  <2> HIDE DEF new
  <2>5. WrappersTypeOK'
    <3>1. slot' \in [Slots -> {Free} \cup
            [exp : {"own", "given", "NULL", "released"}, filter : Seq(Names),
             keys : Lists \cup {NULL}, projection : Projections \cup {NULL, Garbage},
             owned : BOOLEAN]]
      BY <2>1, <2>4 DEF WrapperInv, WrappersTypeOK
    <3> QED
      BY <1>0, <3>1 DEF NewDone, WrapperInv, WrappersTypeOK
  <2>6. FilterExact'
    <3>1. new.filter = Strings(new.keys) \o Strings(new.projection) /\ new.exp = "own"
      BY <2>2, <2>3 DEF new, Sfe, Wanted
    <3> SUFFICES ASSUME NEW s \in Slots, slot'[s] # Free, slot'[s].owned
                 PROVE  /\ slot'[s].filter = Strings(slot'[s].keys) \o Strings(slot'[s].projection)
                        /\ slot'[s].exp = "own"
      BY DEF FilterExact
    <3>2. CASE s = call.slot
      BY <2>1, <3>1, <3>2 DEF WrapperInv, WrappersTypeOK
    <3>3. CASE s # call.slot
      BY <2>1, <3>3 DEF WrapperInv, WrappersTypeOK, FilterExact
    <3> QED
      BY <3>2, <3>3
  <2> QED
    BY <1>1, <2>1, <2>5, <2>6 DEF NewDone, WrapperInv, PropertyFilterExact, HasName, BrokerExpressionKept
<1> QED
  BY <1>0, <1>2, <1>3 DEF NewCall

LEMMA ProxyDiesStep ==
  ASSUME WrapperInv, NEW s \in Slots, ProxyDies(s)
  PROVE  WrapperInv'
<1>2. WrappersTypeOK'
  BY DEF ProxyDies, WrapperInv, WrappersTypeOK, Free
<1>3. FilterExact'
  BY DEF ProxyDies, WrapperInv, WrappersTypeOK, FilterExact
<1>4. BrokerExpressionKept'
  BY DEF ProxyDies, WrapperInv, FilterExact, BrokerExpressionKept
<1>5. NewInv' /\ SetInv' /\ PropertyFilterExact'
  BY DEF ProxyDies, WrapperInv, NewInv, SetInv, Idle, PropertyFilterExact, HasName
<1> QED
  BY <1>2, <1>3, <1>4, <1>5 DEF WrapperInv

LEMMA SetPropertyFilterStep ==
  ASSUME WrapperInv, NEW given \in Lists \cup {NULL}, SetPropertyFilter(given)
  PROVE  WrapperInv'
<1>1. Strings(given) \in Seq(Names)
  BY StringsType
<1>2. /\ call' \in SetCall /\ call'.fn = "set" /\ call'.at = "path" /\ call'.i = 0
      /\ call'.given = given /\ call'.props = Strings(given)
  BY <1>1 DEF SetPropertyFilter, SetCall
<1>3. SetInv'
  BY <1>1, <1>2, WrappersAssumption DEF SetInv, Prefix, OnlyMissingKeys
<1>4. WrappersTypeOK' /\ NewInv'
  BY <1>2 DEF SetPropertyFilter, WrapperInv, WrappersTypeOK, NewInv
<1> QED
  BY <1>3, <1>4 DEF SetPropertyFilter, WrapperInv, FilterExact, PropertyFilterExact, HasName, BrokerExpressionKept

LEMMA InstancePathStep ==
  ASSUME WrapperInv, InstancePath
  PROVE  WrapperInv'
<1>1. call \in SetCall /\ call.fn = "set" /\ call.at \in {"path", "count"}
  BY CallKind DEF InstancePath, In, WrapperInv
<1>2. /\ call' \in SetCall /\ call'.fn = "set" /\ call'.i = call.i
      /\ call'.given = call.given /\ call'.props = call.props
  BY <1>1 DEF InstancePath, SetCall
<1>3. SetInv'
  BY <1>1, <1>2 DEF SetInv, WrapperInv, HasName
<1>4. WrappersTypeOK' /\ NewInv'
  BY <1>2 DEF InstancePath, WrapperInv, WrappersTypeOK, NewInv
<1> QED
  BY <1>3, <1>4 DEF InstancePath, WrapperInv, FilterExact, PropertyFilterExact, HasName, BrokerExpressionKept

(* A key that is not there yet is added at the end, and nothing else       *)
(* changes.                                                                *)
LEMMA AddKey ==
  ASSUME NEW names \in Seq(Names), NEW given \in Seq(Names), NEW k \in 1..Len(Keys),
         Prefix(given, names), OnlyMissingKeys(names, given), ~HasName(names, Keys[k])
  PROVE  LET added == Append(names, Keys[k]) IN
         /\ added \in Seq(Names) /\ Prefix(given, added) /\ OnlyMissingKeys(added, given)
         /\ HasName(added, Keys[k])
         /\ \A name : HasName(names, name) => HasName(added, name)
<1> DEFINE added == Append(names, Keys[k])
<1>0. Keys[k] \in Names
  BY WrappersAssumption, ElementOfSeq
<1>1. /\ added \in Seq(Names) /\ Len(added) = Len(names) + 1 /\ Len(names) \in Nat
      /\ added[Len(names) + 1] = Keys[k] /\ \A i \in 1..Len(names) : added[i] = names[i]
  BY <1>0, AppendProperties
<1> HIDE DEF added
<1>2. Prefix(given, added)
  BY <1>1 DEF Prefix
<1>3. OnlyMissingKeys(added, given)
  <2> SUFFICES ASSUME NEW i \in Len(given) + 1 .. Len(added)
               PROVE  /\ \E n \in 1..Len(Keys) : added[i] = Keys[n]
                      /\ \A j \in 1 .. i - 1 : Lower(added[j]) # Lower(added[i])
    BY DEF OnlyMissingKeys
  <2>1. CASE i = Len(names) + 1
    BY <1>1, <2>1 DEF HasName
  <2>2. CASE i \in Len(given) + 1 .. Len(names)
    <3>1. /\ \E n \in 1..Len(Keys) : names[i] = Keys[n]
          /\ \A j \in 1 .. i - 1 : Lower(names[j]) # Lower(names[i])
      BY <2>2 DEF OnlyMissingKeys
    <3>2. Len(given) \in Nat /\ i \in 1..Len(names) /\ \A j \in 1 .. i - 1 : j \in 1..Len(names)
      BY <1>1, <2>2, LenProperties
    <3>3. added[i] = names[i] /\ \A j \in 1 .. i - 1 : added[j] = names[j]
      BY <1>1, <3>2
    <3> QED
      BY <3>1, <3>3
  <2> QED
    BY <1>1, <2>1, <2>2
<1>4. HasName(added, Keys[k]) /\ \A name : HasName(names, name) => HasName(added, name)
  BY <1>1 DEF HasName
<1> QED
  BY <1>1, <1>2, <1>3, <1>4 DEF added

LEMMA InstanceKeyStep ==
  ASSUME WrapperInv, InstanceKey
  PROVE  WrapperInv'
<1>0. call \in SetCall /\ call.fn = "set" /\ call.at = "key" /\ call.i < Len(Keys)
  BY CallKind DEF InstanceKey, In, WrapperInv
<1> DEFINE key == Keys[call.i + 1]
           next == IF HasName(call.props, key) THEN call.props ELSE Append(call.props, key)
<1>1. /\ call.i \in Nat /\ call.props \in Seq(Names) /\ call.given \in Lists \cup {NULL}
      /\ call.i + 1 \in 1..Len(Keys) /\ Strings(call.given) \in Seq(Names)
  BY <1>0, StringsType, WrappersAssumption DEF SetCall
<1>2. /\ call'.fn = "set" /\ call'.at = "key" /\ call'.i = call.i + 1
      /\ call'.given = call.given /\ call'.props = next
  BY <1>0 DEF InstanceKey, SetCall
<1>3. /\ next \in Seq(Names) /\ Prefix(Strings(call.given), next)
      /\ OnlyMissingKeys(next, Strings(call.given)) /\ HasName(next, key)
      /\ \A name : HasName(call.props, name) => HasName(next, name)
  <2>1. Prefix(Strings(call.given), call.props) /\ OnlyMissingKeys(call.props, Strings(call.given))
    BY <1>0 DEF SetInv, WrapperInv
  <2>2. CASE HasName(call.props, key)
    BY <1>1, <2>1, <2>2
  <2>3. CASE ~HasName(call.props, key)
    BY <1>1, <2>1, <2>3, AddKey
  <2> QED
    BY <2>2, <2>3
<1> HIDE DEF next
<1>4. SetInv'
  <2>1. \A k \in 1..call.i : HasName(call.props, Keys[k])
    BY <1>0 DEF SetInv, WrapperInv
  <2>2. \A k \in 1..call'.i : HasName(call'.props, Keys[k])
    <3> SUFFICES ASSUME NEW k \in 1..call.i + 1 PROVE HasName(next, Keys[k])
      BY <1>2 DEF HasName
    <3>1. CASE k = call.i + 1
      BY <1>3, <3>1
    <3>2. CASE k \in 1..call.i
      BY <1>3, <2>1, <3>2
    <3> QED
      BY <1>1, <3>1, <3>2
  <2>3. call'.i <= Len(Keys)
    BY <1>0, <1>1, <1>2, WrappersAssumption
  <2>4. Prefix(Strings(call'.given), call'.props) /\ OnlyMissingKeys(call'.props, Strings(call'.given))
    BY <1>2, <1>3
  <2> QED
    BY <1>2, <2>2, <2>3, <2>4 DEF SetInv, Strings
<1>5. call' \in SetCall
  <2>1. call' = [call EXCEPT !.i = @ + 1,
                             !.props = IF HasName(@, key) THEN @ ELSE Append(@, key)]
    BY DEF InstanceKey
  <2>2. call' = [call EXCEPT !.i = call.i + 1, !.props = next]
    BY <1>0, <2>1 DEF next, SetCall
  <2>3. next \in Seq(Names)
    BY <1>3
  <2>4. call.i + 1 \in Nat
    BY <1>1
  <2> HIDE DEF key
  <2> QED
    BY <1>0, <2>2, <2>3, <2>4 DEF SetCall
<1>6. WrappersTypeOK' /\ NewInv'
  BY <1>2, <1>5 DEF InstanceKey, WrapperInv, WrappersTypeOK, NewInv
<1> QED
  BY <1>4, <1>6 DEF InstanceKey, WrapperInv, FilterExact, PropertyFilterExact, HasName, BrokerExpressionKept

LEMMA ApplyFilterStep ==
  ASSUME WrapperInv, ApplyFilter
  PROVE  WrapperInv'
<1>1. call \in SetCall /\ call.fn = "set" /\ call.i = Len(Keys) /\ call' = Idle
  BY CallKind DEF ApplyFilter, In, WrapperInv
<1>2. accepts'.names = call.props /\ accepts'.given = call.given
  BY DEF ApplyFilter
<1>3. PropertyFilterExact'
  <2>1. /\ Prefix(Strings(call.given), call.props)
        /\ \A k \in 1..Len(Keys) : HasName(call.props, Keys[k])
        /\ OnlyMissingKeys(call.props, Strings(call.given))
    BY <1>1 DEF WrapperInv, SetInv
  <2> SUFFICES LET given == Strings(call.given)
                   names == call.props
               IN  /\ Len(given) <= Len(names)
                   /\ \A i \in 1..Len(given) : names[i] = given[i]
                   /\ \A k \in 1..Len(Keys) : HasName(names, Keys[k])
                   /\ \A i \in Len(given) + 1 .. Len(names) :
                        /\ \E k \in 1..Len(Keys) : names[i] = Keys[k]
                        /\ \A j \in 1 .. i - 1 : Lower(names[j]) # Lower(names[i])
    BY <1>2 DEF PropertyFilterExact, HasName, Strings
  <2> QED
    BY <2>1 DEF Prefix, OnlyMissingKeys
<1>4. accepts' \in [names : Seq(Names) \cup {NULL}, given : Lists \cup {NULL}]
  BY <1>1 DEF ApplyFilter, SetCall
<1>5. WrappersTypeOK' /\ NewInv' /\ SetInv'
  BY <1>1, <1>4 DEF ApplyFilter, WrapperInv, WrappersTypeOK, NewInv, SetInv, Idle
<1> QED
  BY <1>3, <1>5 DEF ApplyFilter, WrapperInv, FilterExact, BrokerExpressionKept

LEMMA SetFailsStep ==
  ASSUME WrapperInv, SetFails
  PROVE  WrapperInv'
<1>1. call' = Idle
  BY DEF SetFails
<1>2. WrappersTypeOK' /\ NewInv' /\ SetInv'
  BY <1>1 DEF SetFails, WrapperInv, WrappersTypeOK, NewInv, SetInv, Idle
<1> QED
  BY <1>2 DEF SetFails, WrapperInv, FilterExact, PropertyFilterExact, HasName, BrokerExpressionKept

LEMMA GetAtStep ==
  ASSUME WrapperInv, GetAt
  PROVE  WrapperInv'
<1>1. lost' \in BOOLEAN
  BY DEF GetAt, WrapperInv, WrappersTypeOK
<1>2. none' \in Int
  BY DEF GetAt, WrapperInv, WrappersTypeOK
<1>3. (fault' = fault) \/ fault' = "garbage"
  BY DEF GetAt
<1>4. WrappersTypeOK' /\ BrokerExpressionKept'
  BY <1>1, <1>2, <1>3 DEF GetAt, WrapperInv, WrappersTypeOK, BrokerExpressionKept
<1> QED
  BY <1>4 DEF GetAt, WrapperInv, NewInv, SetInv, FilterExact, PropertyFilterExact, HasName, Idle

(* Every step of every wrapper preserves the invariant.                    *)
LEMMA WrapperStepInv ==
  ASSUME WrapperInv, WrapperStep
  PROVE  WrapperInv'
  BY NewSelectExpStep, WrapFilterStep, ProjectionElementStep, NewDoneStep, ProxyDiesStep,
     SetPropertyFilterStep, InstancePathStep, InstanceKeyStep, ApplyFilterStep, SetFailsStep,
     GetAtStep
  DEF WrapperStep

(* Wrappers never give a reference to None away, and one that they take is *)
(* lost.                                                                   *)
LEMMA WrapperStepNone ==
  ASSUME WrapperInv, WrapperStep
  PROVE  /\ lang' = lang /\ none' >= none
         /\ lost => lost'
         /\ none' # none => lost'
<1>0. none \in Int
  BY DEF WrapperInv, WrappersTypeOK
<1>1. CASE GetAt
  <2>1. CASE UNCHANGED <<none, lost>>
    BY <1>0, <1>1, <2>1 DEF GetAt
  <2>2. CASE none' = none + 1 /\ lost' = TRUE
    BY <1>0, <1>1, <2>2 DEF GetAt
  <2> QED
    BY <1>1, <2>1, <2>2 DEF GetAt
<1>2. CASE ~GetAt
  <2>1. lang' = lang /\ none' = none
    BY <1>2 DEF WrapperStep, NewSelectExp, WrapFilter, ProjectionElement, NewDone, ProxyDies,
       SetPropertyFilter, InstancePath, InstanceKey, ApplyFilter, SetFails
  <2>2. lost => lost'
    BY <1>2 DEF WrapperStep, NewSelectExp, WrapFilter, ProjectionElement, NewDone, ProxyDies,
       SetPropertyFilter, InstancePath, InstanceKey, ApplyFilter, SetFails, Unwind
  <2> QED
    BY <1>0, <2>1, <2>2
<1> QED
  BY <1>1, <1>2

=============================================================================
