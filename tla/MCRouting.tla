----------------------------- MODULE MCRouting -----------------------------
(* Small instances of Routing for TLC. *)
EXTENDS Routing

Both(S) == S \cup {<<l[2], l[1]>> : l \in S}

\* a chat node a with two repeaters that hear each other
Triangle == Both({<<"a", "b">>, <<"a", "c">>, <<"b", "c">>})
\* a second chat node d behind one of them: routes of one and of two relays
Kite == Triangle \cup Both({<<"c", "d">>})

OwnHash == [n \in Node |-> n]

NoPairs == {}
AtoD == {<<"a", "d">>}
=============================================================================
