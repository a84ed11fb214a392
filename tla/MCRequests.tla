----------------------------- MODULE MCRequests -----------------------------
(* Requests on a small instance: two names, one of them in two cases, two  *)
(* keys, and string arrays of one and of two of them.                      *)
EXTENDS Requests

McNames == {"a", "A", "b"}
McLower(name) == IF name = "A" THEN "a" ELSE name
McKeys == <<"a", "b">>
McLists == {<<"A">>, <<"b", "A">>}
McProjections == {<<>>, <<"b", "a">>}
=============================================================================
