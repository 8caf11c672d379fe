--------------------------- MODULE MCCorrelation ---------------------------
(* Small instances of Correlation for TLC. *)
EXTENDS Correlation

M(p, a, x) == [peer |-> p, attempt |-> a, text |-> x]

\* every message has its own text
MixedMessages == {M("p", 0, "hi"), M("p", 1, "yo")}

OneZero == {[ts |-> 2, attempt |-> 0, text |-> "hi"]}
NoZero == {}
=============================================================================
