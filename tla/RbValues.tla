------------------------------- MODULE RbValues ------------------------------
(***************************************************************************)
(* The conversions of cmpi.i between Ruby values and typed CMPI values:    *)
(* target_to_value one way, data_value the other.                          *)
(*                                                                         *)
(* A Ruby value is a tuple led by its class: <<"nil">>, <<"int", n>>,      *)
(* <<"float", n>> (n halves), <<"bool", b>>, <<"string", x>> and           *)
(* <<"symbol", x>> (x a tuple that identifies the text), <<"instance", i>>,*)
(* <<"array", s>>.  A CMPI value looks alike, with <<"null">> for a null   *)
(* pointer and, in the s of an array, CMPI data; CMPI data add a type.     *)
(***************************************************************************)
EXTENDS Integers, Sequences

CONSTANT
  Bits (* width of each integer type, of a C long and of a Fixnum          *)

Unsigned == {"uint8", "uint16", "uint32", "uint64"}
Signed   == {"sint8", "sint16", "sint32", "sint64"}
Integer  == Unsigned \cup Signed
Real     == {"real32", "real64"}

ASSUME RbValuesAssumption ==
  /\ Bits \in [Integer \cup {"char16", "long", "fixnum"} -> Nat \ {0}]
  /\ \A t \in Integer : Bits[t] <= Bits["long"]
  /\ Bits["fixnum"] < Bits["long"]

Scalar(base) == [base |-> base, array |-> FALSE]
Array(base)  == [base |-> base, array |-> TRUE]
Null         == Scalar("null")

Data(type, value) == [type |-> type, value |-> value]

(* The w low bits of n, read without and with a sign.                      *)
Wrap(n, w)       == n % 2^w
WrapSigned(n, w) == ((n + 2^(w-1)) % 2^w) - 2^(w-1)

Fixnum(n) == WrapSigned(n, Bits["fixnum"]) = n

(* What a conversion to a value may end in: an exception, or data.         *)
Raise           == <<"raise">>
Good(type, val) == <<"good", Data(type, val)>>

-----------------------------------------------------------------------------
(* Ruby's to_f, to_i and to_s.  Text reads as the number zero; what has no *)
(* such method raises.                                                     *)
ToF(v) == CASE v[1] = "float"  -> v
            [] v[1] = "int"    -> <<"float", 2 * v[2]>>
            [] v[1] = "string" -> <<"float", 0>>
            [] OTHER           -> Raise

ToI(v) == CASE v[1] = "int"    -> v
            [] v[1] = "float"  -> <<"int", IF v[2] >= 0 THEN v[2] \div 2 ELSE -((-v[2]) \div 2)>>
            [] v[1] = "string" -> <<"int", 0>>
            [] OTHER           -> Raise

(* target_charptr and to_cmpi_string: a name, a text or the result of to_s.*)
Text(v) == <<"string", IF v[1] \in {"string", "symbol"} THEN v[2] ELSE v>>

-----------------------------------------------------------------------------
(* From Ruby to CMPI.                                                      *)

(* FIX2ULONG and FIX2LONG into a narrower integer.  A Bignum is a pointer, *)
(* not a tagged integer: any bits may come out.                            *)
Longs(n) == IF Fixnum(n) THEN {n} ELSE 0 .. 2^Bits["long"] - 1

(* Mutant: the signed types are read like the unsigned ones.               *)
FromInteger_Unsigned(n, base) ==
  {Good(Scalar(base), <<"int", Wrap(l, Bits[base])>>) : l \in Longs(n)}

FromInteger(n, base) ==
  {Good(Scalar(base), <<"int", IF base \in Signed THEN WrapSigned(l, Bits[base])
                               ELSE Wrap(l, Bits[base])>>) : l \in Longs(n)}

(* Mutant: every real is stored through value->Float, a real32.            *)
FromFloat_Narrow(n, base) == {Good(Scalar(base), <<"float", n - (n % 2)>>)}

(* Half a unit is more than a real32 can tell.                             *)
FromFloat(n, base) ==
  {Good(Scalar(base), <<"float", IF base = "real32" THEN n - (n % 2) ELSE n>>)}

(* A number that a C int holds is taken as a char16, of a text the first   *)
(* two bytes; zero is refused.                                             *)
FromChar(v) ==
  LET isInt == v[1] = "int" /\ Fixnum(v[2])
      codes == IF ~isInt THEN 0 .. 2^Bits["char16"] - 1
               ELSE IF WrapSigned(v[2], Bits["sint32"]) = v[2] THEN {Wrap(v[2], Bits["char16"])}
               ELSE {0}
  IN  {IF c = 0 THEN Raise ELSE Good(Scalar("char16"), <<"int", c>>) : c \in codes}

(* A value that has no declared type takes the best match.                 *)
Untyped(v) ==
  CASE v[1] = "float"                  -> FromFloat(v[2], "real32")
    [] v[1] = "int" /\ Fixnum(v[2])    -> FromInteger(v[2], "uint32")
    [] v[1] \in {"string", "symbol"}   -> {Good(Scalar("string"), Text(v))}
    [] v[1] = "bool"                   -> {Good(Scalar("boolean"), v)}
    [] OTHER                           -> {Good(Null, <<"null">>)}

(* An instance; the embedded types of the Ruby bindings become its type.   *)
FromInstance(v) ==
  IF v[1] = "instance" THEN {Good(Scalar("instance"), v)} ELSE {Raise}

FromSome(v, base) ==
  CASE base \in Real    -> IF ToF(v) = Raise THEN {Raise} ELSE FromFloat(ToF(v)[2], base)
    [] base \in Integer -> IF ToI(v) = Raise THEN {Raise} ELSE FromInteger(ToI(v)[2], base)
    [] base = "null"    -> Untyped(v)
    [] base = "boolean" -> {Good(Scalar(base), <<"bool", v # <<"bool", FALSE>>>>)}
    [] base = "char16"  -> FromChar(v)
    [] base \in {"instance", "EmbeddedInstance", "EmbeddedObject"} -> FromInstance(v)
    [] base = "string"  -> {Good(Scalar(base), Text(v))}
    [] OTHER            -> {Raise}

(* nil is no number; for every other type it is null.                      *)
FromScalar(v, base) ==
  IF v[1] # "nil" THEN FromSome(v, base)
  ELSE {IF base \in Real \cup Integer THEN Raise ELSE Good(Null, <<"null">>)}

(* The element type is that of the first element that has one; what comes  *)
(* before it is null, what comes after must agree with it.                 *)
Uniform(elements) ==
  \A i, j \in DOMAIN elements :
    i < j /\ elements[i].type # Null => elements[j].type = elements[i].type

ElementBase(base, elements) ==
  IF base \notin {"EmbeddedInstance", "EmbeddedObject"} THEN base
  ELSE IF \E i \in DOMAIN elements : elements[i].type # Null THEN "instance" ELSE "null"

FromArray(s, base) ==
  LET outcomes == [i \in DOMAIN s |-> FromScalar(s[i], base)]
      each == {f \in [DOMAIN s -> UNION {outcomes[i] : i \in DOMAIN s}] :
                 \A i \in DOMAIN s : f[i] \in outcomes[i]}
      Collect(f) ==
        LET data == [i \in DOMAIN s |-> f[i][2]] IN
        IF Uniform(data) THEN Good(Array(ElementBase(base, data)), <<"array", data>>) ELSE Raise
  IN  {IF \E i \in DOMAIN s : f[i] = Raise THEN Raise ELSE Collect(f) : f \in each}

(* target_to_value                                                         *)
ToValue(v, type) ==
  IF ~type.array THEN FromScalar(v, type.base)
  ELSE CASE v[1] = "array" -> FromArray(v[2], type.base)
         [] v[1] = "nil"   -> {Good(Null, <<"null">>)}
         [] OTHER          -> {Raise}

-----------------------------------------------------------------------------
(* From CMPI to Ruby.                                                      *)

(* Mutant: INT2FIX drops the sign.                                         *)
FromBits_Unsigned(n) == <<"int", Wrap(n, Bits["fixnum"])>>

(* INT2FIX: an integer that a Fixnum has no room for loses its upper bits. *)
FromBits(n) == <<"int", WrapSigned(n, Bits["fixnum"])>>

(* A CMPIString may hold no text.                                          *)
NoText    == <<"string", <<"null">>>>
EmptyText == <<"string", <<"empty">>>>

(* value_value, and data_value's test for a null value.                    *)
IsNull(d) == d.type = Null \/ d.value[1] = "null"

Element(d) ==
  CASE IsNull(d)                              -> <<"nil">>
    [] ~IsNull(d) /\ d.value = NoText         -> EmptyText
    [] ~IsNull(d) /\ d.value[1] = "int"       -> FromBits(d.value[2])
    [] OTHER                                  -> d.value

(* data_value                                                              *)
ToRuby(d) ==
  IF d.value[1] = "array" THEN <<"array", [i \in DOMAIN d.value[2] |-> Element(d.value[2][i])]>>
  ELSE Element(d)

=============================================================================
