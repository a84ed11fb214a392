----------------------------- MODULE MCRbInvoke -----------------------------
(* Small instances of RbInvoke.  The integer types have widths of 2, 3, 4   *)
(* and 6 bits; a Fixnum is one bit narrower than a long, as in Ruby.        *)
EXTENDS RbInvoke

MCBits == [uint8 |-> 2, uint16 |-> 3, uint32 |-> 4, uint64 |-> 6,
           sint8 |-> 2, sint16 |-> 3, sint32 |-> 4, sint64 |-> 6,
           char16 |-> 3, long |-> 6, fixnum |-> 5]

Text1 == <<"string", <<"text", "one">>>>

(* Integers around the bounds of each width, with one Bignum each way.     *)
MCNumbers == {-17, -16, -9, -8, -5, -4, -3, -2, -1, 0, 1, 2, 3, 4, 7, 8, 15, 16}

MCArrays == {<<"array", <<>>>>} \cup {<<"array", <<a, b>>>> :
               a \in {<<"nil">>, Text1, <<"int", 1>>, <<"instance", "i">>},
               b \in {<<"nil">>, Text1, <<"int", 3>>, <<"instance", "i">>}}

MCValues == {<<"nil">>, <<"bool", TRUE>>, <<"bool", FALSE>>, <<"float", 3>>, <<"float", -3>>,
             Text1, <<"symbol", <<"text", "two">>>>, <<"instance", "i">>}
            \cup {<<"int", n>> : n \in MCNumbers} \cup MCArrays

MCInData == {Data(Scalar("uint8"), <<"int", 3>>), Data(Scalar("uint64"), <<"int", 63>>),
             Data(Scalar("sint64"), <<"int", -16>>), Data(Scalar("string"), NoText),
             Data(Scalar("string"), <<"null">>), Data(Scalar("string"), Text1),
             Data(Scalar("char16"), <<"int", 5>>), Data(Scalar("real32"), <<"float", -4>>),
             Data(Scalar("real64"), <<"float", 3>>),
             Data(Array("sint8"), <<"array", <<Data(Scalar("sint8"), <<"int", -2>>),
                                               Data(Scalar("sint8"), <<"int", 1>>)>>>>)}

MCOutTypes == {Scalar(b) : b \in Integer \cup Real \cup {"boolean", "char16", "string", "instance",
                                  "EmbeddedObject", "null"}}
              \cup {Array(b) : b \in {"uint8", "string", "EmbeddedInstance", "null"}}

MCReturnTypes == {Scalar("uint32"), Array("string")}
=============================================================================
