---------------------------- MODULE MCEventPump ----------------------------
(* Small instances of EventPump for TLC. *)
EXTENDS EventPump

R(p, w) == [pri |-> p, delay |-> w, ok |-> TRUE]
V(a, b, c) == [first |-> a, second |-> b, relay |-> c]

\* release; relay now or later; reply; reply twice (an ACK and a path return);
\* reply that cannot be sent, and relay
MCVerdicts == { V(Nothing, Nothing, Nothing),
                V(Nothing, Nothing, [pri |-> 1, delay |-> 0]),
                V(R(0, 2), Nothing, Nothing),
                V(R(0, 0), R(1, 1), Nothing),
                V([R(0, 0) EXCEPT !.ok = FALSE], Nothing, [pri |-> 0, delay |-> 1]) }

FewVerdicts == { V(Nothing, Nothing, Nothing),
                 V(R(0, 1), Nothing, [pri |-> 1, delay |-> 0]) }

\* malformed; direct; a flood whose receive delay is capped
MCFrames == { [parses |-> FALSE, flood |-> FALSE, delay |-> 0],
              [parses |-> TRUE, flood |-> FALSE, delay |-> 0],
              [parses |-> TRUE, flood |-> TRUE, delay |-> 4] }

FewFrames == { [parses |-> TRUE, flood |-> FALSE, delay |-> 0],
               [parses |-> TRUE, flood |-> TRUE, delay |-> 2] }

MCRequests == {R(1, 0), R(0, 2)}
FewRequests == {R(1, 0)}
=============================================================================
