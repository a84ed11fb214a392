------------------------------ MODULE Requests ------------------------------
(***************************************************************************)
(* One request of the broker, from the C function of cmpi_provider.c that  *)
(* receives it to the provider and back: the arguments are built, packed   *)
(* and given to the provider, which may run the wrappers of Wrappers on    *)
(* them, and are dropped on the way back.                                  *)
(*                                                                         *)
(* The subject is what a request hands over and what it leaves behind: the *)
(* references to Python's None, which all arguments share, and the wrapper *)
(* around an indication filter.  Requests of other threads have arguments  *)
(* of their own; what they share is PyTarget's and RbTarget's matter.      *)
(***************************************************************************)
EXTENDS Wrappers, Handlers, FiniteSets

VARIABLE req   (* the request, as far as it has come                       *)

vars == <<req, wrapperVars>>

NoRequest == [at |-> "idle"]

(* An argument: the value of a parameter, the target's None (Ruby's nil),  *)
(* or a C NULL.                                                            *)
Value(param, is) == <<param, is>>
None  == Value("none", "None")
CNull == Value("none", "NULL")

Nones(args) == Cardinality({i \in DOMAIN args : args[i] = None})
Nulls(args) == Cardinality({i \in DOMAIN args : args[i] = CNull})

Params(op) == {Passed[op][i] : i \in DOMAIN Passed[op]}

(* What a broker passes: it may leave out what is nullable, and a Boolean  *)
(* may be false.                                                           *)
Given(op) ==
  {[p \in Params(op) |-> IF p \in absent THEN "NULL"
                         ELSE IF p \in Booleans THEN truth ELSE "set"] :
     absent \in SUBSET (Params(op) \cap Nullable), truth \in {"true", "false"}}

Python == lang = "python"

Init == WrappersInit /\ req = NoRequest

-----------------------------------------------------------------------------
(* string2target and proplist2target, or neither.                          *)
Argument(p, is) ==
  IF is # "NULL" THEN Value(p, is) ELSE IF p \in Optional THEN CNull ELSE None

Arguments(op, given) ==
  [i \in DOMAIN Passed[op] |-> Argument(Passed[op][i], given[Passed[op][i]])]

(* A filter gets a wrapper, and a proxy that does not own it.              *)
Receive(op, given, args) ==
  /\ req = NoRequest /\ call = Idle
  /\ ~Python => op # "invoke_method"
  /\ req' = [at |-> "built", op |-> op, given |-> given, args |-> args]
  /\ none' = IF Python THEN none + Nones(args) ELSE none
  /\ IF "filter" \in Params(op)
     THEN \E s \in Slots : /\ slot[s] = Free
                           /\ slot' = [slot EXCEPT ![s] = Sfe("given", <<>>, NULL, NULL, FALSE)]
     ELSE UNCHANGED slot
  /\ UNCHANGED <<lang, call, accepts, lost, fault>>

(* Mutant: one argument fewer than the operation has.                      *)
Build_Short(op, given) ==
  Receive(op, given, SubSeq(Arguments(op, given), 1, Len(Passed[op]) - 1))

(* The handler builds the arguments.                                       *)
Build(op, given) == Receive(op, given, Arguments(op, given))

(* TargetCall of Python finds no callable attribute of this name and does  *)
(* not get to the tuple that would release the arguments.                  *)
Missing ==
  /\ req.at = "built" /\ Python /\ none <= MaxNone
  /\ req' = NoRequest
  /\ lost' = (lost \/ Nones(req.args) # 0)
  /\ UNCHANGED <<lang, slot, call, accepts, none, fault>>

(* What comes of an argument: None takes the place of a NULL.  In Ruby the *)
(* test is for a VALUE of 0, and Qfalse is 0.                              *)
Packed(arg) == IF arg = CNull \/ (~Python /\ arg[2] = "false") THEN None ELSE arg

(* The formal parameters of the provider's method take the arguments by    *)
(* position.                                                               *)
Deliver ==
  LET packed == [i \in DOMAIN req.args |-> Packed(req.args[i])]
      takes == IF Python THEN PythonTakes[req.op] ELSE RubyTakes[req.op]
  IN  req' = [at |-> "called", given |-> req.given, nones |-> Nones(packed),
              view |-> [p \in Params(req.op) |->
                          packed[CHOOSE i \in DOMAIN takes : takes[i] = p]]]

(* Mutant: a NULL becomes None without a reference.                        *)
Pack_NoIncref ==
  /\ req.at = "built" /\ Deliver
  /\ UNCHANGED wrapperVars

(* TargetCall packs the tuple, or the array.                               *)
Pack ==
  /\ req.at = "built" /\ Deliver
  /\ none' = IF Python THEN none + Nulls(req.args) ELSE none
  /\ UNCHANGED <<lang, slot, call, accepts, lost, fault>>

(* The provider has its arguments and goes on.                             *)
Run ==
  /\ req.at = "called"
  /\ req' = [at |-> "running", nones |-> req.nones]
  /\ UNCHANGED wrapperVars

Provide == req.at = "running" /\ WrapperStep /\ UNCHANGED req

(* The provider returns or raises; the tuple releases what it holds.       *)
Return ==
  /\ req.at = "running" /\ call = Idle
  /\ req' = NoRequest
  /\ none' = IF Python THEN none - req.nones ELSE none
  /\ UNCHANGED <<lang, slot, call, accepts, lost, fault>>

(* What a provider has kept may die between two requests.                  *)
Collect == req = NoRequest /\ (\E s \in Slots : ProxyDies(s)) /\ UNCHANGED req

Next ==
  \/ \E op \in Op : \E given \in Given(op) : Build(op, given)
  \/ Missing \/ Pack \/ Run \/ Provide \/ Return \/ Collect

Spec == Init /\ [][Next]_vars

-----------------------------------------------------------------------------
(* Properties.                                                             *)

TypeOK ==
  /\ WrappersTypeOK
  /\ \/ req = NoRequest
     \/ /\ req.at = "built" /\ req.op \in Op
        /\ req.given \in Given(req.op)
        /\ DOMAIN req.args = DOMAIN Passed[req.op]
     \/ req.at \in {"called", "running"} /\ req.nones \in Nat

(* cmpi_provider.c:220-1141, cmpi_pywbem_bindings.py:478-723 and           *)
(* provider.rb:60-163: whatever the broker leaves out, every parameter of  *)
(* the provider's method has the value the broker gave it, and None for    *)
(* none; but a false Boolean reaches a Ruby provider as nil.               *)
Wired ==
  req.at = "called" =>
    \A p \in DOMAIN req.view :
      req.view[p] = IF req.given[p] = "NULL" \/ (lang = "ruby" /\ req.given[p] = "false")
                    THEN None ELSE Value(p, req.given[p])

(* The references to None that the request under way will release.         *)
HeldNones ==
  CASE req.at = "built" -> Nones(req.args)
    [] req.at \in {"called", "running"} -> req.nones
    [] OTHER -> 0

(* target_python.c:244-248, cmpi.i:32: a tuple never releases a reference  *)
(* to None that was not taken for it, which would in the end destroy None  *)
(* itself; and none is kept that is not known to be lost.                  *)
NoneBalanced ==
  lang = "python" => /\ none >= HeldNones
                     /\ ~lost => none = HeldNones

=============================================================================
