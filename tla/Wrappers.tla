------------------------------ MODULE Wrappers ------------------------------
(***************************************************************************)
(* The SWIG wrappers that build something out of several answers of the    *)
(* broker, as a provider calls them: select expressions                    *)
(* (create_select_filter_exp and release_select_filter_exp of cmpi.i),     *)
(* property filters (CMPIInstance#set_property_filter of cmpi_types.i) and *)
(* (data, name) pairs (get_property_at, get_key_at, get_arg_at), with the  *)
(* string arrays of string_array.h and cmpi_defs.i.                        *)
(*                                                                         *)
(* Any of the answers may be a failure, and RAISE_IF means two things: in  *)
(* Ruby it unwinds the C code that holds the memory, in Python it sets a   *)
(* flag and the C code goes on.  One action is the code up to the next     *)
(* answer of the broker.                                                   *)
(*                                                                         *)
(* What these paths allocate and do not free is left out, but for the      *)
(* references to None, which all of Python shares.                         *)
(***************************************************************************)
EXTENDS Integers, Sequences

CONSTANTS
  Slots,          (* places for select_filter_exp structures               *)
  Names,          (* property names                                        *)
  Lower(_),       (* a name in lower case: strcasecmp compares these       *)
  Keys,           (* the key names of the instance, as the broker has them *)
  Lists,          (* string arrays a provider passes                       *)
  Projections,    (* projections the broker reads out of a query           *)
  NULL,           (* no array, no structure                                *)
  Garbage,        (* an array pointer nobody has set                       *)
  MaxNone         (* bound on the references to None that are lost         *)

ASSUME WrappersAssumption ==
  /\ Keys \in Seq(Names)
  /\ Lists \subseteq Seq(Names) /\ Projections \subseteq Seq(Names)
  /\ NULL \notin Seq(Names) /\ Garbage \notin Seq(Names) \cup {NULL}
  /\ MaxNone \in Nat

VARIABLES
  lang,     (* the target language the library is built for                *)
  slot,     (* the select_filter_exp structures that are in use            *)
  call,     (* the wrapper that is running                                 *)
  accepts,  (* the property filter of the instance, as the broker has it   *)
  none,     (* the references to None that the C code has taken            *)
  lost,     (* has a reference to None been lost?                          *)
  fault     (* the undefined behaviour met, or "none"                      *)

wrapperVars == <<lang, slot, call, accepts, none, lost, fault>>

-----------------------------------------------------------------------------
(* What an unset pointer points to is not modelled: it reads as empty.     *)
Strings(array) == IF array \in {NULL, Garbage} THEN <<>> ELSE array

(* A structure and the proxy object around it: whose expression it holds,  *)
(* its filter, what the filter was made from, and whether the death of the *)
(* proxy runs the destructor (SWIG_POINTER_OWN).                           *)
Free == NULL
Sfe(exp, filter, keys, projection, owned) ==
  [exp |-> exp, filter |-> filter, keys |-> keys, projection |-> projection,
   owned |-> owned]

Idle == [fn |-> "none"]

NewCall == [fn : {"new"}, at : {"wrap", "element", "finish"}, slot : Slots,
            exp : {"own", "NULL", "released"}, keys : Lists \cup {NULL},
            projection : Projections \cup {NULL, Garbage},
            filter : Seq(Names), flag : BOOLEAN]
SetCall == [fn : {"set"}, at : {"path", "count", "key"},
            given : Lists \cup {NULL}, props : Seq(Names), i : Nat]

NoFilter == [names |-> NULL, given |-> NULL]

WrappersInit ==
  /\ lang \in {"python", "ruby"}
  /\ slot = [s \in Slots |-> Free]
  /\ call = Idle
  /\ accepts = NoFilter
  /\ none = 0 /\ lost = FALSE /\ fault = "none"

(* RAISE_IF in Ruby: rb_exc_raise leaves the wrapper.                      *)
Unwind == lang = "ruby" /\ call' = Idle

-----------------------------------------------------------------------------
(* create_select_filter_exp                                                *)

Making(s, exp, keys, projection, flag) ==
  call' = [fn |-> "new", at |-> "wrap", slot |-> s, exp |-> exp, keys |-> keys,
           projection |-> projection, filter |-> <<>>, flag |-> flag]

(* *projection after a failure: the broker may have set it to NULL, or not *)
(* have touched it.                                                        *)
Unset == {NULL, Garbage}

(* CMNewSelectExp                                                          *)
NewSelectExp(s, keys) ==
  /\ call = Idle /\ slot[s] = Free
  /\ \/ \E p \in Projections \cup {NULL} : Making(s, "own", keys, p, FALSE)
     \/ Unwind
     \/ lang = "python" /\ \E p \in Unset : Making(s, "NULL", keys, p, TRUE)
  /\ UNCHANGED <<lang, slot, accepts, none, lost, fault>>

In(fn, at) == call.fn = fn /\ call.at = at

(* wrap_select_filter, CMGetArrayCount of the projection, and copies of    *)
(* the keys.                                                               *)
WrapFilter ==
  /\ In("new", "wrap")
  /\ call' = [call EXCEPT !.at = "element", !.filter = Strings(call.keys)]
  /\ fault' = IF call.projection = Garbage THEN "garbage" ELSE fault
  /\ UNCHANGED <<lang, slot, accepts, none, lost>>

Wanted == Strings(call.keys) \o Strings(call.projection)

(* Mutant: an element that fails ends the loop and nothing else.           *)
ProjectionElement_Breaks ==
  /\ In("new", "element") /\ Len(call.filter) < Len(Wanted)
  /\ \/ call' = [call EXCEPT !.filter = Append(@, Wanted[Len(@) + 1])]
     \/ call' = [call EXCEPT !.at = "finish"]
  /\ UNCHANGED <<lang, slot, accepts, none, lost, fault>>

(* CMGetArrayElementAt: a copy of the name, or the release of all that has *)
(* been made so far.  The expression is not NULL then: after a failed      *)
(* CMNewSelectExp only an unset projection can have elements.              *)
ProjectionElement ==
  /\ In("new", "element") /\ Len(call.filter) < Len(Wanted)
  /\ \/ call' = [call EXCEPT !.filter = Append(@, Wanted[Len(@) + 1])]
     \/ Unwind
     \/ /\ lang = "python"
        /\ call' = [call EXCEPT !.at = "finish", !.exp = "released", !.flag = TRUE]
  /\ UNCHANGED <<lang, slot, accepts, none, lost, fault>>

(* The wrapper returns: an owned proxy (%newobject), or an exception.      *)
NewDone ==
  /\ call.fn = "new"
  /\ call.at = "finish" \/ (call.at = "element" /\ Len(call.filter) = Len(Wanted))
  /\ slot' = IF call.flag THEN slot
             ELSE [slot EXCEPT ![call.slot] =
                    Sfe(call.exp, call.filter, call.keys, call.projection, TRUE)]
  /\ call' = Idle
  /\ UNCHANGED <<lang, accepts, none, lost, fault>>

(* Mutant: the destructor runs for proxies that do not own theirs as well. *)
ProxyDies_Owns(s) ==
  /\ call = Idle /\ slot[s] # Free
  /\ slot' = [slot EXCEPT ![s] = Free]
  /\ fault' = IF slot[s].exp # "own" THEN "not_ours" ELSE fault
  /\ UNCHANGED <<lang, call, accepts, none, lost>>

(* The proxy of a structure dies: ~_CMPISelectExp runs                     *)
(* release_select_filter_exp when the proxy owns the structure.            *)
ProxyDies(s) ==
  /\ call = Idle /\ slot[s] # Free
  /\ slot' = [slot EXCEPT ![s] = Free]
  /\ fault' = IF slot[s].owned /\ slot[s].exp # "own" THEN "not_ours" ELSE fault
  /\ UNCHANGED <<lang, call, accepts, none, lost>>

-----------------------------------------------------------------------------
(* set_property_filter                                                     *)

(* string_array_clone; a NULL array gives an empty copy.                   *)
SetPropertyFilter(given) ==
  /\ call = Idle
  /\ call' = [fn |-> "set", at |-> "path", given |-> given,
              props |-> Strings(given), i |-> 0]
  /\ UNCHANGED <<lang, slot, accepts, none, lost, fault>>

(* CMGetObjectPath, then CMGetKeyCount.                                    *)
InstancePath ==
  /\ In("set", "path") \/ In("set", "count")
  /\ call' = [call EXCEPT !.at = IF @ = "path" THEN "count" ELSE "key"]
  /\ UNCHANGED <<lang, slot, accepts, none, lost, fault>>

(* string_array_find_ignore_case                                           *)
HasName(array, name) == \E i \in 1..Len(array) : Lower(array[i]) = Lower(name)

(* Mutant: strcmp instead of strcasecmp.                                   *)
InstanceKey_CaseSensitive ==
  /\ In("set", "key") /\ call.i < Len(Keys)
  /\ LET key == Keys[call.i + 1] IN
     call' = [call EXCEPT !.i = @ + 1,
                          !.props = IF \E i \in DOMAIN @ : @[i] = key THEN @ ELSE Append(@, key)]
  /\ UNCHANGED <<lang, slot, accepts, none, lost, fault>>

(* CMGetKeyAt and CMGetCharsPtr: a key that is not in the copy is added.   *)
InstanceKey ==
  /\ In("set", "key") /\ call.i < Len(Keys)
  /\ LET key == Keys[call.i + 1] IN
     call' = [call EXCEPT !.i = @ + 1,
                          !.props = IF HasName(@, key) THEN @ ELSE Append(@, key)]
  /\ UNCHANGED <<lang, slot, accepts, none, lost, fault>>

(* CMSetPropertyFilter, string_array_free.                                 *)
ApplyFilter ==
  /\ In("set", "key") /\ call.i = Len(Keys)
  /\ accepts' = [names |-> call.props, given |-> call.given]
  /\ call' = Idle
  /\ UNCHANGED <<lang, slot, none, lost, fault>>

(* The object path, the number of keys, a key, its name or the call that   *)
(* sets the filter fails: the wrapper returns or unwinds without a filter. *)
SetFails ==
  /\ call.fn = "set"
  /\ call' = Idle
  /\ UNCHANGED <<lang, slot, accepts, none, lost, fault>>

-----------------------------------------------------------------------------
(* get_property_at, get_key_at, get_arg_at: data and a name make a pair.   *)

(* When the broker fails, Python takes a reference to None as the result,  *)
(* which the raised flag then hides; data_data returns nothing at all for  *)
(* data that are not there.                                                *)
GetAt ==
  /\ call = Idle
  /\ \/ UNCHANGED <<none, lost, fault>>
     \/ /\ IF lang = "python"
           THEN none < MaxNone /\ none' = none + 1 /\ lost' = TRUE
           ELSE UNCHANGED <<none, lost>>
        /\ UNCHANGED fault
     \/ /\ fault' = IF lang = "python" THEN "garbage" ELSE fault
        /\ UNCHANGED <<none, lost>>
  /\ UNCHANGED <<lang, slot, call, accepts>>

-----------------------------------------------------------------------------
(* A provider that runs takes one of these steps.                          *)
WrapperStep ==
  \/ \E s \in Slots, keys \in Lists \cup {NULL} : NewSelectExp(s, keys)
  \/ WrapFilter \/ ProjectionElement \/ NewDone
  \/ \E s \in Slots : ProxyDies(s)
  \/ \E given \in Lists \cup {NULL} : SetPropertyFilter(given)
  \/ InstancePath \/ InstanceKey \/ ApplyFilter \/ SetFails
  \/ GetAt

-----------------------------------------------------------------------------
(* Properties.                                                             *)

WrappersTypeOK ==
  /\ lang \in {"python", "ruby"}
  /\ slot \in [Slots -> {Free} \cup
       [exp : {"own", "given", "NULL", "released"}, filter : Seq(Names),
        keys : Lists \cup {NULL}, projection : Projections \cup {NULL, Garbage},
        owned : BOOLEAN]]
  /\ call \in {Idle} \cup NewCall \cup SetCall
  /\ accepts \in [names : Seq(Names) \cup {NULL}, given : Lists \cup {NULL}]
  /\ none \in Int
  /\ lost \in BOOLEAN
  /\ fault \in {"none", "garbage", "not_ours"}

(* cmpi.i:834-837, 935-990: the filter of a select expression is the keys  *)
(* the provider gave and then the projection, whole: a creation that       *)
(* failed part of the way never leaves an object behind.                   *)
FilterExact ==
  \A s \in Slots : slot[s] # Free /\ slot[s].owned =>
    /\ slot[s].filter = Strings(slot[s].keys) \o Strings(slot[s].projection)
    /\ slot[s].exp = "own"

(* cmpi_types.i:1117-1142: the filter the broker gets accepts the given    *)
(* properties, in their order, and every key of the instance; a key is     *)
(* added once, and only if no case of its name was given.                  *)
PropertyFilterExact ==
  accepts.names # NULL =>
    LET given == Strings(accepts.given)
        names == accepts.names
    IN  /\ Len(given) <= Len(names)
        /\ \A i \in 1..Len(given) : names[i] = given[i]
        /\ \A k \in 1..Len(Keys) : HasName(names, Keys[k])
        /\ \A i \in Len(given) + 1 .. Len(names) :
             /\ \E k \in 1..Len(Keys) : names[i] = Keys[k]
             /\ \A j \in 1 .. i - 1 : Lower(names[j]) # Lower(names[i])

(* cmpi.i:935-959: whatever fails on the way, and however proxies die, the *)
(* expression that the broker lent with a request is never released: only  *)
(* structures whose expression the wrapper itself has made run the         *)
(* destructor.                                                             *)
BrokerExpressionKept == fault # "not_ours"

=============================================================================
