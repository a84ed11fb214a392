------------------------------- MODULE RbInvoke ------------------------------
(***************************************************************************)
(* The invocation of a method of a Ruby provider: TargetInvoke of          *)
(* target_ruby.c.  It reads the names and types of the arguments from      *)
(* <method>_args of the provider, converts the input arguments, calls the  *)
(* method through TargetCall, converts the output arguments one by one and *)
(* at last the return value.                                               *)
(*                                                                         *)
(* One action per call of Ruby or of the broker.  What the provider        *)
(* returns in one array is chosen element by element, when it is read.     *)
(***************************************************************************)
EXTENDS RbValues, FiniteSets

CONSTANTS
  Values,      (* Ruby values a provider may return                        *)
  InData,      (* data the broker may hold for an input argument           *)
  OutTypes,    (* declared types of output arguments                       *)
  ReturnTypes, (* declared types of return values                          *)
  Leftover,    (* what the uninitialised rc of a failed conversion may hold *)
  MaxIns,      (* bound on input arguments                                 *)
  MaxOuts      (* bound on output arguments                                *)

(* Statuses: MISMATCH and NOT_SUPPORTED of the bindings, MISSING of the    *)
(* broker for an argument that is not there, ERR of everything else.       *)
Status == {"OK", "NOT_SUPPORTED", "MISMATCH", "MISSING", "ERR"}

(* The Ruby values of RbValues, the text of a string never absent, and the *)
(* types of cmpi.rb: a base and an array flag.                             *)
IsRuby(v) ==
  /\ v[1] \in {"nil", "int", "float", "bool", "string", "symbol", "instance", "array"}
  /\ v = IF v[1] = "nil" THEN <<"nil">> ELSE <<v[1], v[2]>>
  /\ v[1] \in {"int", "float"} => v[2] \in Int
  /\ v[1] = "bool" => v[2] \in BOOLEAN
  /\ v[1] \in {"string", "symbol"} => v[2] # <<"null">>

IsType(t) == t \in {Scalar(t.base), Array(t.base)}

ASSUME RbInvokeAssumption ==
  /\ Leftover \subseteq Status
  /\ MaxIns \in Nat /\ MaxOuts \in Nat
  /\ \A v \in Values : /\ IsRuby(v)
                       /\ v[1] = "array" => /\ DOMAIN v[2] = 1 .. Len(v[2]) /\ Len(v[2]) \in Nat
                                            /\ \A i \in DOMAIN v[2] : IsRuby(v[2][i])
  /\ \A t \in OutTypes \cup ReturnTypes : IsType(t)

VARIABLES
  pc,      (* where the invocation is                                      *)
  args,    (* what <method>_args declares                                  *)
  ins,     (* the broker's data for the input arguments                    *)
  input,   (* what the method is called with                               *)
  given,   (* what the provider gave for the output arguments and at last  *)
           (* for the return value                                         *)
  out,     (* the output arguments added to the reply                      *)
  rslt,    (* the data returned, and whether the result is complete        *)
  status   (* status->rc                                                   *)

vars == <<pc, args, ins, input, given, out, rslt, status>>

Missing == Data(Null, <<"missing">>)
Nothing == Data(Null, <<"nothing">>)

NoArgs == [ins |-> 0, outs |-> <<>>, returns |-> Null]

Init ==
  /\ pc = "idle" /\ args = NoArgs /\ ins = <<>> /\ input = <<>> /\ given = <<>> /\ out = <<>>
  /\ rslt = [data |-> Nothing, done |-> FALSE]
  /\ status = "NOT_SUPPORTED"

Done(rc) == pc' = "done" /\ status' = rc

(* A conversion that raised has left the value as it was.                  *)
Undefined == Data(Null, <<"undefined">>)

(* protected_target_to_value: when the conversion raises, status->rc is    *)
(* what rc was before, as none of its exceptions carries an @rc.           *)
Convert(v, type) ==
  UNION {IF o = Raise THEN {[rc |-> rc, data |-> Undefined] : rc \in Leftover}
         ELSE {[rc |-> "OK", data |-> o[2]]} : o \in ToValue(v, type)}

-----------------------------------------------------------------------------
(* invokeMethod: the provider declares its arguments, properly or not.     *)
Declare ==
  /\ pc = "idle"
  /\ \/ /\ Done("MISMATCH")
        /\ UNCHANGED <<args, ins>>
     \/ \E n \in 0 .. MaxIns, k \in 0 .. MaxOuts :
        \E data \in [1..n -> InData \cup {Missing}], outs \in [1..k -> OutTypes],
           returns \in ReturnTypes :
          /\ args' = [ins |-> n, outs |-> outs, returns |-> returns]
          /\ ins' = data
          /\ pc' = "in"
          /\ UNCHANGED status
  /\ UNCHANGED <<input, given, out, rslt>>

(* Mutant: argsin holds names and types, and each is taken for a name.     *)
GetArg_AllEntries ==
  /\ pc = "in"
  /\ IF Len(input) = 2 * args.ins
     THEN pc' = "call" /\ UNCHANGED <<input, status>>
     ELSE LET named == Len(input) < args.ins IN
          /\ input' = Append(input, IF named /\ ins[Len(input) + 1] # Missing
                                    THEN ToRuby(ins[Len(input) + 1]) ELSE <<"nil">>)
          /\ status' = IF named THEN "OK" ELSE "MISSING"
          /\ UNCHANGED pc
  /\ UNCHANGED <<args, ins, given, out, rslt>>

(* CMGetArg: a missing argument is nil, whatever else fails ends it.       *)
GetArg ==
  /\ pc = "in"
  /\ IF Len(input) = args.ins
     THEN pc' = "call" /\ UNCHANGED <<input, status>>
     ELSE \/ /\ input' = Append(input, ToRuby(ins[Len(input) + 1]))
             /\ status' = "OK"
             /\ ins[Len(input) + 1] # Missing
             /\ UNCHANGED pc
          \/ /\ input' = Append(input, <<"nil">>)
             /\ status' = "MISSING"
             /\ ins[Len(input) + 1] = Missing
             /\ UNCHANGED pc
          \/ Done("ERR") /\ UNCHANGED input
  /\ UNCHANGED <<args, ins, given, out, rslt>>

(* Mutant: TargetCall leaves the status alone when the call succeeds.      *)
Call_KeepsStatus ==
  /\ pc = "call"
  /\ \/ \E rc \in (Leftover \ {"OK"}) \cup {"ERR"} : Done(rc)
     \/ Done("NOT_SUPPORTED")
     \/ IF status = "MISSING" THEN Done(status) ELSE pc' = "out" /\ status' = "OK"
  /\ UNCHANGED <<args, ins, input, given, out, rslt>>

(* TargetCall, the result of which is nil, an exception, or a value that   *)
(* must be an array when there are output arguments.  argsout is looked at *)
(* only now.  An exception that passes for a success is RbTarget's matter. *)
Call ==
  /\ pc = "call"
  /\ \/ \E rc \in (Leftover \ {"OK"}) \cup {"ERR"} : Done(rc)
     \/ Done("NOT_SUPPORTED")
     \/ Done("MISMATCH")
     \/ pc' = "out" /\ status' = "OK"
  /\ UNCHANGED <<args, ins, input, given, out, rslt>>

(* Mutant: the argument is declared by its own type.                       *)
AddArg_Untyped ==
  /\ pc = "out" /\ Len(out) < Len(args.outs)
  /\ \E v \in Values :
       /\ given' = Append(given, v)
       /\ \E c \in Convert(v, Null) :
            IF c.rc = "OK"
            THEN \/ out' = Append(out, c.data) /\ status' = "OK" /\ UNCHANGED pc
                 \/ Done("ERR") /\ UNCHANGED out
            ELSE Done(c.rc) /\ UNCHANGED out
  /\ UNCHANGED <<args, ins, input, rslt>>

(* One output argument: protected_target_to_value and CMAddArg.            *)
AddArg ==
  /\ pc = "out" /\ Len(out) < Len(args.outs)
  /\ \E v \in Values :
       /\ given' = Append(given, v)
       /\ \E c \in Convert(v, args.outs[Len(out) + 1]) :
            IF c.rc = "OK"
            THEN \/ out' = Append(out, c.data) /\ status' = "OK" /\ UNCHANGED pc
                 \/ Done("ERR") /\ UNCHANGED out
            ELSE Done(c.rc) /\ UNCHANGED out
  /\ UNCHANGED <<args, ins, input, rslt>>

(* Mutant: the value is returned while output arguments are still to come. *)
ReturnData_Early ==
  /\ pc = "out"
  /\ \E v \in Values :
       /\ given' = Append(given, v)
       /\ \E c \in Convert(v, args.returns) :
            /\ Done(c.rc)
            /\ rslt' = IF c.rc = "OK" THEN [data |-> c.data, done |-> TRUE] ELSE rslt
  /\ UNCHANGED <<args, ins, input, out>>

(* The return value.  What CMReturnData and CMReturnDone answer is not     *)
(* looked at.                                                              *)
ReturnData ==
  /\ pc = "out" /\ Len(out) = Len(args.outs)
  /\ \E v \in Values :
       /\ given' = Append(given, v)
       /\ v # <<"nil">> \/ args.outs # <<>>
       /\ \E c \in Convert(v, args.returns) :
            /\ Done(c.rc)
            /\ rslt' = IF c.rc = "OK" THEN [data |-> c.data, done |-> TRUE] ELSE rslt
  /\ UNCHANGED <<args, ins, input, out>>

Next == Declare \/ GetArg \/ Call \/ AddArg \/ ReturnData

Spec == Init /\ [][Next]_vars

-----------------------------------------------------------------------------
(* Properties.                                                             *)

TypeOK ==
  /\ pc \in {"idle", "in", "call", "out", "done"}
  /\ args.ins \in 0 .. MaxIns /\ Len(args.outs) <= MaxOuts
  /\ Len(input) <= args.ins /\ Len(ins) = args.ins
  /\ Len(out) <= Len(args.outs)
  /\ Len(given) \in Len(out) .. Len(out) + 1
  /\ rslt.done \in BOOLEAN
  /\ status \in Status

(* What a Ruby program would call the same value after a conversion to a   *)
(* type: nil stays nil, a number that the type and a Fixnum hold stays as  *)
(* it is, a larger one keeps the bits of its type, a real32 is off by less *)
(* than its precision, a symbol becomes its text, everything else is kept. *)
InRange(n, base) ==
  /\ Fixnum(n)
  /\ IF base \in Signed THEN WrapSigned(n, Bits[base]) = n ELSE Wrap(n, Bits[base]) = n

SameScalar(v, r, base) ==
  CASE v = <<"nil">> -> r = <<"nil">>
    [] v[1] = "int" /\ base \in Integer ->
         /\ r[1] = "int"
         /\ InRange(v[2], base) => r = v
         /\ Fixnum(v[2]) /\ Bits[base] < Bits["fixnum"] => (r[2] - v[2]) % 2^Bits[base] = 0
    [] v[1] = "float" /\ base \in Real ->
         r[1] = "float" /\ (IF base = "real64" THEN r = v ELSE v[2] - r[2] \in 0 .. 1)
    [] v[1] \in {"string", "symbol"} /\ base = "string" -> r = <<"string", v[2]>>
    [] v[1] = "bool" /\ base = "boolean" -> r = v
    [] v[1] = "instance" /\ base = "instance" -> r = v
    [] OTHER -> TRUE

SameValue(v, r, type) ==
  IF type.array /\ v[1] = "array"
  THEN /\ r[1] = "array" /\ Len(r[2]) = Len(v[2])
       /\ \A i \in DOMAIN v[2] : SameScalar(v[2][i], r[2][i], type.base)
  ELSE SameScalar(v, r, type.base)

(* cmpi.i:172-327, 441-721: the output arguments and the return value that *)
(* the broker gets read back as what the provider returned for them, in    *)
(* the order of <method>_args.                                             *)
ReplyExact ==
  /\ \A i \in DOMAIN out : SameValue(given[i], ToRuby(out[i]), args.outs[i])
  /\ rslt.done => SameValue(given[Len(given)], ToRuby(rslt.data), args.returns)

(* "A NULL value always has CMPIType CMPI_null" (cmpi.i:511) and only nil *)
(* becomes one; other data have the declared type, an embedded object that *)
(* of an instance, and the elements of an array the type of the array, or  *)
(* one type after leading nulls where the array has none.                  *)
Typed(v, d, type) ==
  /\ d.type = Null => v = <<"nil">> \/ type = Null
  /\ d.type # Null =>
       /\ d.value # <<"null">>
       /\ \/ d.type = type \/ type = Null
          \/ /\ type.base \in {"EmbeddedInstance", "EmbeddedObject"}
             /\ d.type.array = type.array /\ d.type.base \in {"instance", "null"}
       /\ d.type.array =>
            /\ Uniform(d.value[2])
            /\ type.base # "null" => \A i \in DOMAIN d.value[2] :
                 d.value[2][i].type \in {Scalar(d.type.base), Null}

TypesKept ==
  /\ \A i \in DOMAIN out : Typed(given[i], out[i], args.outs[i])
  /\ rslt.done => Typed(given[Len(given)], rslt.data, args.returns)

(* target_ruby.c:640-655: the method is called with a value for each       *)
(* argument it declares: nil for what is missing or null, and the broker's *)
(* number where a Fixnum holds it.                                         *)
InputExact ==
  \A i \in DOMAIN input :
    IF ins[i] = Missing \/ ins[i].value = <<"null">> THEN input[i] = <<"nil">>
    ELSE ins[i].value[1] = "int" /\ Fixnum(ins[i].value[2]) => input[i] = ins[i].value

(* The data that survive the way to Ruby and back: numbers that the type   *)
(* and a Fixnum hold, a real32 of no more than its precision, a char16     *)
(* that an int holds, text, truth values and instances, and arrays of them *)
(* (the embedded types are the bindings' own, not the broker's).           *)
HeldScalar(d, base) ==
  /\ d.value # <<"null">>
  /\ d = Data(Scalar(base), <<d.value[1], d.value[2]>>)
  /\ \/ d.value[1] = "int" /\ base \in Integer /\ d.value[2] \in Int /\ InRange(d.value[2], base)
     \/ /\ d.value[1] = "int" /\ base = "char16"
        /\ d.value[2] \in 1 .. 2^Bits["char16"] - 1 /\ Fixnum(d.value[2])
        /\ WrapSigned(d.value[2], Bits["sint32"]) = d.value[2]
     \/ d.value[1] = "float" /\ base = "real64"
     \/ d.value[1] = "float" /\ base = "real32" /\ d.value[2] \in Int /\ d.value[2] % 2 = 0
     \/ d.value[1] = "string" /\ base = "string" /\ d.value # NoText
     \/ d.value \in {<<"bool", TRUE>>, <<"bool", FALSE>>} /\ base = "boolean"
     \/ d.value[1] = "instance" /\ base = "instance"

Held(d) ==
  IF d.value[1] # "array" THEN HeldScalar(d, d.type.base)
  ELSE /\ d = Data(Array(d.type.base), <<"array", [i \in DOMAIN d.value[2] |-> d.value[2][i]]>>)
       /\ d.type.base \notin {"EmbeddedInstance", "EmbeddedObject"}
       /\ \A i \in DOMAIN d.value[2] : HeldScalar(d.value[2][i], d.type.base)

(* cmpi.i:172-327, 441-721: a provider that hands on what it was called    *)
(* with, declared with its own type, gives the broker its data back: the   *)
(* two conversions are inverse where a Ruby value holds the data.          *)
EchoExact ==
  \A i \in DOMAIN input :
    ins[i] # Missing /\ Held(ins[i]) =>
      ToValue(input[i], ins[i].type) = {Good(ins[i].type, ins[i].value)}

(* target_ruby.c:598-712: the result is completed exactly when the         *)
(* invocation succeeds, and then with all the output arguments.            *)
WholeReply ==
  /\ rslt.done => Len(out) = Len(args.outs)
  /\ pc = "done" => (status = "OK" <=> rslt.done)

(* target_ruby.c:645-653: that an input argument is missing is between the *)
(* provider and its caller; it never is the status of the invocation.      *)
MissingHarmless == pc = "done" => status # "MISSING"

=============================================================================
