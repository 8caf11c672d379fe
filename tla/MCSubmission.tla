---------------------------- MODULE MCSubmission ----------------------------
(***************************************************************************)
(* Submission with the lengths on either side of every limit, the paths on *)
(* either side of validity, and hosts that differ from a good one in one   *)
(* respect.                                                                *)
(***************************************************************************)
EXTENDS Submission

NoRoute == [known |-> FALSE, neighbor |-> FALSE, bytes |-> 0, hash_size |-> 0]
RouteOf(n, size) == [known |-> TRUE, neighbor |-> FALSE, bytes |-> n, hash_size |-> size]

Good ==
  [identity |-> TRUE, profile |-> TRUE, position |-> FALSE, crypto |-> TRUE,
   channel |-> TRUE, config |-> TRUE, role |-> "chat", name |-> 5, hash_size |-> 1,
   route |-> NoRoute, free |-> 2, extra_acks |-> 0, telemetry |-> 93]

MCHosts ==
  {Good}
    \cup {[Good EXCEPT !.identity = FALSE], [Good EXCEPT !.profile = FALSE],
          [Good EXCEPT !.crypto = FALSE], [Good EXCEPT !.channel = FALSE],
          [Good EXCEPT !.config = FALSE], [Good EXCEPT !.free = 0],
          [Good EXCEPT !.position = TRUE, !.name = 31], [Good EXCEPT !.name = 0]}
    \cup {[Good EXCEPT !.role = r] : r \in {"none", "repeater"}}
    \cup {[Good EXCEPT !.hash_size = n] : n \in {3, 4}}
    \cup {[Good EXCEPT !.route = r, !.extra_acks = 1, !.free = 1] : r \in {RouteOf(63, 1)}}
    \cup {[Good EXCEPT !.route = r, !.extra_acks = 1] :
            r \in {[NoRoute EXCEPT !.known = TRUE, !.neighbor = TRUE], RouteOf(64, 2), RouteOf(64, 1)}}
    \cup {[Good EXCEPT !.telemetry = n] : n \in {NoTelemetry, 0, 94, 163, 164}}

MCLens == {0, 1, 63, 64, 65, 93, 94, 136, 137, 156, 157, 158, 159, 160, 161, 163, 164,
           165, 166, 184, 185}
MCPaths == {0, 1, 63, 64, 96, 97, 128, 149, 150, 192, Unknown}
MCHops == {1, 21, 22, 32, 63}

MCForeignData ==
  [type : {"none", "chat", "repeater"}, loc : BOOLEAN, feat1 : {TRUE}, feat2 : {FALSE},
   named : BOOLEAN, len : {1, 3, 11, 12, 32}]

=============================================================================
