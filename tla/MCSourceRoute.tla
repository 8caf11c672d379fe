--------------------------- MODULE MCSourceRoute ---------------------------
(***************************************************************************)
(* SourceRoute on a line a - r - s - b, with a chat node x beside b.  The  *)
(* addressee b has the hash of x, the sender a that of y, a contact out of *)
(* range that b and x keep before a.  Channel c2 has the hash of c1, which *)
(* b keeps before it and x keeps alone; s, a repeater, is a member, too.   *)
(* b has a route back to a, x has none.                                    *)
(***************************************************************************)
EXTENDS SourceRoute

Both(S) == S \cup {<<l[2], l[1]>> : l \in S}
Line == Both({<<"a", "r">>, <<"r", "s">>, <<"s", "b">>, <<"s", "x">>})
MCHash == [n \in Node |-> CASE n \in {"b", "x"} -> 1 [] n \in {"a", "y"} -> 2
                            [] n = "r" -> 3 [] n = "s" -> 4]
MCContacts == [n \in Node |-> IF n \in {"b", "x"} THEN <<"y", "a">> ELSE <<"x", "b">>]
MCChannels == [n \in Node |-> CASE n \in {"b", "s"} -> <<"c1", "c2">> [] n = "x" -> <<"c1">>
                                [] n = "a" -> <<"c2">> [] OTHER -> <<>>]
MCChannelHash == [c1 |-> 7, c2 |-> 7]
MCRoutes ==
  [n \in Node |-> [m \in Node |->
     CASE n = "a" /\ m \in {"b", "x"} -> <<3, 4>> [] n = "b" /\ m = "a" -> <<4, 3>> [] OTHER -> Unknown]]

MCSends ==
  <<[kind |-> "control", from |-> "b", to |-> "all"],
    [kind |-> "raw", from |-> "a", to |-> <<3>>],
    [kind |-> "anon", from |-> "a", to |-> "x"],
    [kind |-> "grp", from |-> "a", to |-> "c2"],
    [kind |-> "txt", from |-> "a", to |-> "x"],
    [kind |-> "txt", from |-> "a", to |-> "b"]>>

=============================================================================
