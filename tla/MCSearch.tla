------------------------------ MODULE MCSearch ------------------------------
(***************************************************************************)
(* Small instances of Search: texts with the characters that ILIKE treats  *)
(* specially, in both cases; searches with repeated, unknown and several   *)
(* tags; pages of one and of two.                                          *)
(***************************************************************************)
EXTENDS SearchSafety

Characters == {"a", "A", "b", "%", "_", "\\"}
Folded     == [c \in Characters |-> IF c = "A" THEN "a" ELSE c]

Content(t, b, g) == [title |-> t, body |-> b, tags |-> g]

\* Notes of the reader, and one of another user that has all the texts sought.
Special ==
    [u \in Users |->
        IF u = Reader
        THEN {Content(<<"A", "b">>, Nil, {1}), Content(<<"b", "%">>, <<"\\", "_">>, {1, 2})}
        ELSE {Content(<<"A", "%">>, <<"\\", "_">>, {})}]

Every == [tag |-> <<>>, q |-> Nil, from |-> Nil, to |-> Nil, limit |-> 1]

Conditions ==
    {[Every EXCEPT !.limit = n] : n \in {1, 2}}
    \cup {[Every EXCEPT !.q = q, !.limit = 2] : q \in {<<"a">>, <<"\\", "_">>}}
    \cup {[Every EXCEPT !.tag = <<"aws", "go", "aws">>],
          [Every EXCEPT !.from = 2], [Every EXCEPT !.to = 1],
          [Every EXCEPT !.tag = <<"go">>, !.q = <<"_">>, !.from = 2, !.to = 2]}
=============================================================================
