------------------------------- MODULE MCWire -------------------------------
(***************************************************************************)
(* Wire with three bits for a path length (sizes of one to three bytes, up *)
(* to four path bytes and a count modulo four), a chat node that repeats,  *)
(* three repeaters, two of which share the first byte of their keys, and   *)
(* frames of every route and kind, whole, too short and too long.          *)
(***************************************************************************)
EXTENDS Wire

CONSTANT FloodMax

MCNode == 1 .. 4
MCPubKey == <<<<1, 9, 9>>, <<2, 1, 1>>, <<2, 2, 2>>, <<3, 3, 3>>>>

Repeater(loop, fwd) ==
  [role |-> "repeater", client_repeat |-> FALSE, disable_fwd |-> ~fwd, flood_max |-> FloodMax,
   loop_detect |-> loop, tx_delay |-> 5, direct_tx_delay |-> 3]
Chat == [Repeater("off", TRUE) EXCEPT !.role = "chat", !.client_repeat = TRUE]
MCPolicy == <<Chat, Repeater("strict", TRUE), Repeater("minimal", TRUE), Repeater("off", TRUE)>>

\* Paths of n bytes that begin with nodes 2, 3 or 4
PathOf(n) == {SubSeq(q, 1, n) : q \in {<<2, 1, 3, 3>>, <<3, 3, 3, 2>>}}
Codes(h) == IF h % 4 \in {0, 3} THEN {SNR_CODES, NO_CODES} ELSE {<<>>}
FrameOf(h, f, payload) ==
  {<<h>> \o c \o <<f>> \o q \o payload : c \in Codes(h), q \in PathOf(IF PathBytes(f) <= 4 THEN PathBytes(f) ELSE 0)}
Header(type, route) == 4 * type + route

\* Payloads: the destination's hash, and the node that can open it
Payloads(type) ==
  CASE type = 2 -> {<<2, 1, 0, 0, 2>>}
    [] type = 3 -> {<<7, 7, 7, 7>>}
    [] type = 4 -> {<<9, 9, 9, 9, 4>>, <<9, 9, 9, 9, 0>>, <<9>>}
    [] type = 5 -> {<<8, 0, 0, 0>>}
    [] type = 7 -> {<<3, 9, 9, 0, 0, 4>>}
    [] type = 11 -> {<<128, 0>>, <<1, 0>>}
    [] OTHER -> {<<7, 7>>}

\* TRACEs over one-byte and two-byte hashes, there and back
Trace(flags, list) == <<1, 0, 0, 0, 2, 0, 0, 0, flags>> \o list
Traces ==
  {<<Header(9, 2), f>> \o SubSeq(<<77, 77, 77, 77>>, 1, f) \o Trace(0, l) :
     f \in 0 .. 3, l \in {<<2, 3, 2>>, <<1, 1, 1>>, <<3, 2, 1, 2>>}}
  \cup {<<Header(9, 2), 0>> \o Trace(1, <<2, 2, 1, 9, 2, 2>>)}

MCFrames ==
  UNION {UNION {FrameOf(Header(t, r), f, q) : q \in Payloads(t)} :
           t \in {2, 4}, r \in 0 .. 3, f \in {0, 1, 3, 5, 6, 7, 9, 12}}
  \cup UNION {UNION {FrameOf(Header(t, r), f, q) : q \in Payloads(t)} :
                t \in {3, 5, 7, 11, 15}, r \in {1, 2}, f \in {0, 3, 5}}
  \cup Traces
  \cup {<<255, 0, 1>>, <<65, 0, 1>>, <<9>>, <<8, 0, 0>>, <<8, 1, 2, 3, 4>>, <<9, 2, 7>>, <<9, 1, 7>>, <<9, 0>>}
  \cup {<<9, 0>> \o [i \in 1 .. n |-> 6] : n \in {15, 16, 23, 24}}

=============================================================================
