-------------------------------- MODULE Wire --------------------------------
(***************************************************************************)
(* A frame on its way from node to node, byte for byte: the two parsers    *)
(* and the writer of core/meshcore_packet.c and core/meshcore_dispatcher.c,*)
(* what a relay changes in the bytes (core/meshcore_mesh.c), the policy    *)
(* that lets it (runtime/meshcore_runtime_policy.c), the word in which it  *)
(* packs priority and delay, and what the host is shown                    *)
(* (platform/meshcore_platform_bridge.c).                                  *)
(*                                                                         *)
(* The path array and the six bits of its count are scaled together by     *)
(* MaxPathLen; the lengths of keys and signatures are constants, too.      *)
(* A cipher text or a signature is a last byte that names the node it is   *)
(* meant for, or that signed.  SHA-256 does not collide: the key of a      *)
(* packet in a seen-table is what is hashed.  The host's flood filter and  *)
(* a frame that is not heard have the same effect, none.  Several copies   *)
(* on the air, and acknowledgements, are the business of Routing and       *)
(* SourceRoute.  `origin', `trail' and `opened' are kept by the model.     *)
(***************************************************************************)
EXTENDS PathLen, Sequences, FiniteSets

CONSTANTS
  Node,         \* a node is a number
  PubKey,       \* the first bytes of every node's public key
  Policy,       \* every node's role and runtime policy
  Frames,       \* frames a node may hear first
  MaxPayload,   \* MESHCORE_PACKET_PAYLOAD_MAX_LEN
  MaxFrame,     \* MESHCORE_MAX_TRANS_UNIT_LEN
  AnonHead,     \* destination hash and public key: 33 bytes
  AdvertHead,   \* public key, time stamp and signature: 100 bytes
  DelayBits,    \* bits of the delay in a dispatcher action: 24
  MaxRelays     \* bound: how often a frame is relayed

Byte == 0 .. 255
ROUTE_TYPE_TRANSPORT_FLOOD == 0
ROUTE_TYPE_FLOOD == 1
ROUTE_TYPE_DIRECT == 2
ROUTE_TYPE_TRANSPORT_DIRECT == 3
PAYLOAD_TYPE_ACK == 3
PAYLOAD_TYPE_ADVERT == 4
PAYLOAD_TYPE_ANON_REQ == 7
PAYLOAD_TYPE_TRACE == 9
PAYLOAD_TYPE_MULTIPART == 10
PAYLOAD_TYPE_CONTROL == 11
DATAGRAM == {0, 1, 2, 8}        \* REQ, RESPONSE, TXT_MSG, PATH
GROUP == {5, 6}                 \* GRP_TXT, GRP_DATA
CIPHER_MAC_SIZE == 2
TRACE_HEAD == 9                 \* tag, authentication code and flags
TRACE_PRIORITY == 5
SNR_CODES == <<78, 83, 1, 0>>   \* 0x534E and 0x0001, least significant byte first
NO_CODES == <<0, 0, 0, 0>>

ASSUME WireAssumption ==
  /\ Node \subseteq Byte \ {0}
  /\ \A n \in Node :
       /\ PubKey[n] \in [1 .. 3 -> Byte]
       /\ Policy[n].role \in {"chat", "repeater"}
       /\ {Policy[n].client_repeat, Policy[n].disable_fwd} \subseteq BOOLEAN
       /\ Policy[n].loop_detect \in {"off", "minimal", "moderate", "strict"}
       /\ Policy[n].flood_max \in Byte
  /\ \A f \in Frames : f \in Seq(Byte)
  /\ {MaxPayload, MaxFrame, AnonHead, AdvertHead, DelayBits, MaxRelays} \subseteq Nat
  /\ MaxPathLen <= 64 /\ 6 + MaxPathLen + MaxPayload <= MaxFrame
  /\ 2 ^ DelayBits \in Nat \ {0}
  /\ \A n \in Node : \A share \in {Policy[n].tx_delay, Policy[n].direct_tx_delay, 5, 2} :
       share \in Nat /\ 5 * ((MaxFrame * share) \div 10) < 2 ^ DelayBits

VARIABLES
  frame,    \* the frame on the air, <<>>: none
  origin,   \* the packet it was when a node first accepted it
  trail,    \* the nodes that relayed it, in order
  seen,     \* <<n, key>>: the seen-tables
  opened,   \* nodes that found the packet to be for them
  queued    \* how the last relay queued it

vars == <<frame, origin, trail, seen, opened, queued>>

---------------------------------------------------------------------------
(* core/meshcore_packet.c: the header and the codec.                       *)

RouteType(p) == p.header % 4
PayloadType(p) == (p.header \div 4) % 16
PayloadVer(p) == p.header \div 64
IsRouteFlood(p) == RouteType(p) \in {ROUTE_TYPE_FLOOD, ROUTE_TYPE_TRANSPORT_FLOOD}
IsRouteDirect(p) == RouteType(p) \in {ROUTE_TYPE_DIRECT, ROUTE_TYPE_TRANSPORT_DIRECT}
HasTransportCodes(p) == RouteType(p) \in {ROUTE_TYPE_TRANSPORT_FLOOD, ROUTE_TYPE_TRANSPORT_DIRECT}
HasSnrFlag(p) == HasTransportCodes(p) /\ p.codes = SNR_CODES

Bad == [header |-> -1]    \* no packet

\* The fields of a frame, the last byte of whose path is byte number `end'.
At(f) == IF HasTransportCodes([header |-> f[1]]) THEN 6 ELSE 2
End(f) == At(f) + PathBytes(f[At(f)])
Fields(f) ==
  [header |-> f[1],
   codes |-> IF At(f) = 6 THEN SubSeq(f, 2, 5) ELSE NO_CODES,
   path_len |-> f[At(f)],
   path |-> SubSeq(f, At(f) + 1, End(f)),
   payload |-> SubSeq(f, End(f) + 1, Len(f))]

\* The path length is a byte, whatever MaxPathLen scales it to.
ASSUME FramesAssumption ==
  \A f \in Frames : f # <<>> /\ At(f) <= Len(f) => f[At(f)] \in PathField

\* meshcore_dispatcher_try_parse_packet, behind the length check of its caller
TryParse(f) ==
  IF \/ Len(f) = 0 \/ Len(f) > MaxFrame
     \/ PayloadVer([header |-> f[1]]) > 0
     \/ At(f) > Len(f)
     \/ HashSize(f[At(f)]) = 4 \/ PathBytes(f[At(f)]) > MaxPathLen
     \/ End(f) > Len(f)
     \/ Len(f) - End(f) > MaxPayload
  THEN Bad ELSE Fields(f)

\* A bug: any size of hash is accepted.
ReadFromAnySize(f) ==
  IF \/ Len(f) = 0 \/ At(f) > Len(f) \/ PathBytes(f[At(f)]) > MaxPathLen
     \/ End(f) >= Len(f) \/ Len(f) - End(f) > MaxPayload
  THEN Bad ELSE Fields(f)

\* meshcore_packet_read_from, the parser of the adverts the host hands over:
\* it takes every version, and no empty payload
ReadFrom(f) ==
  IF \/ Len(f) = 0 \/ At(f) > Len(f) \/ ~IsValidPathLen(f[At(f)])
     \/ End(f) >= Len(f) \/ Len(f) - End(f) > MaxPayload
  THEN Bad ELSE Fields(f)

\* meshcore_packet_write_path: as many bytes of the array as the field counts
WritePath(p) == SubSeq(p.path, 1, PathBytes(p.path_len))

\* meshcore_packet_write_to; an unsound packet is not written
WriteTo(p) ==
  IF IsValidPathLen(p.path_len) /\ Len(p.payload) <= MaxPayload
  THEN <<p.header>> \o (IF HasTransportCodes(p) THEN p.codes ELSE <<>>)
         \o <<p.path_len>> \o WritePath(p) \o p.payload
  ELSE <<>>

\* meshcore_packet_get_raw_length
RawLength(p) ==
  2 + PathBytes(p.path_len) + Len(p.payload) + (IF HasTransportCodes(p) THEN 4 ELSE 0)

\* A bug: the length of the path of a TRACE is not part of its key.
KeyWithoutLength(p) == <<PayloadType(p), 0, p.payload>>

\* meshcore_packet_calculate_hash
CalculateHash(p) ==
  <<PayloadType(p), IF PayloadType(p) = PAYLOAD_TYPE_TRACE THEN p.path_len ELSE 0, p.payload>>

\* meshcore_packet_mark_do_not_retransmit
Mark(p) == [p EXCEPT !.header = 255]
IsMarked(p) == p.header = 255

\* meshcore_platform_bridge_packet_view_init: what the host is shown of p
PacketView(p) ==
  [route |-> IF IsRouteFlood(p) THEN "flood" ELSE "direct",
   type |-> PayloadType(p), snr |-> HasSnrFlag(p), codes |-> HasTransportCodes(p),
   size |-> HashSize(p.path_len), count |-> HashCount(p.path_len),
   path |-> SubSeq(p.path, 1, PathBytes(p.path_len)), payload |-> p.payload,
   raw_len |-> IF WriteTo(p) = <<>> THEN RawLength(p) ELSE Len(WriteTo(p)),
   raw |-> WriteTo(p)]

\* meshcore_runtime_raw_advert_copy: the advert as the host may keep and share
\* it, a plain flood
RawAdvertCopy(p) == WriteTo([p EXCEPT !.header = @ - (@ % 4) + ROUTE_TYPE_FLOOD])

---------------------------------------------------------------------------
(* meshcore_runtime_policy.c.                                              *)

\* Does n's key begin with these bytes?
IsHashMatch(n, hash) == SubSeq(PubKey[n], 1, Len(hash)) = hash

\* The i-th hash of p's path without an SNR byte
Stride(p) == HashSize(p.path_len)
MatchLen(p) == IF HasSnrFlag(p) THEN Stride(p) - 1 ELSE Stride(p)
HashAt(p, i) == SubSeq(p.path, (i - 1) * Stride(p) + 1, (i - 1) * Stride(p) + MatchLen(p))

\* loop_detect_max_minimal, _moderate and _strict
LoopMax(mode, size) ==
  CASE mode = "minimal" -> <<4, 2, 1>>[size]
    [] mode = "moderate" -> <<2, 1, 1>>[size]
    [] mode = "strict" -> 1

\* A bug: one visit more is tolerated.
IsLoopedOnceMore(n, p) ==
  /\ MatchLen(p) > 0
  /\ Cardinality({i \in 1 .. HashCount(p.path_len) : IsHashMatch(n, HashAt(p, i))}) >
       LoopMax(Policy[n].loop_detect, MatchLen(p))

\* meshcore_runtime_packet_is_looped
IsLooped(n, p) ==
  /\ MatchLen(p) > 0
  /\ Cardinality({i \in 1 .. HashCount(p.path_len) : IsHashMatch(n, HashAt(p, i))}) >=
       LoopMax(Policy[n].loop_detect, MatchLen(p))

\* A bug: one hop more than the policy allows.
AllowForwardOneMore(n, p) ==
  LET o == Policy[n]
  IN IF o.role = "repeater"
     THEN /\ ~o.disable_fwd
          /\ IsRouteFlood(p) => /\ HashCount(p.path_len) <= o.flood_max
                                /\ o.loop_detect # "off" => ~IsLooped(n, p)
     ELSE o.client_repeat

\* meshcore_runtime_protocol_allow_packet_forward
AllowForward(n, p) ==
  LET o == Policy[n]
  IN IF o.role = "repeater"
     THEN /\ ~o.disable_fwd
          /\ IsRouteFlood(p) => /\ HashCount(p.path_len) < o.flood_max
                                /\ o.loop_detect # "off" => ~IsLooped(n, p)
     ELSE o.client_repeat

\* meshcore_runtime_protocol_get_retransmit_delay and _get_direct_...: a random
\* number up to five times a share, in tenths, of the time on the air, which is
\* taken to be one unit a byte.  The extremes are tried.
Share(n, p) ==
  LET o == Policy[n]
  IN CASE o.role = "repeater" /\ IsRouteFlood(p) -> o.tx_delay
       [] o.role = "repeater" /\ IsRouteDirect(p) -> o.direct_tx_delay
       [] o.role = "chat" /\ IsRouteFlood(p) -> 5
       [] o.role = "chat" /\ IsRouteDirect(p) -> 2
MaxDelay(n, p) == 5 * ((RawLength(p) * Share(n, p)) \div 10)
RetransmitDelay(n, p) == {0, MaxDelay(n, p)}

---------------------------------------------------------------------------
(* meshcore_dispatcher.h and meshcore_dispatcher_process_recv_packet: the  *)
(* word that tells the dispatcher what to do with a received packet.       *)

RELEASE == 0
MANUAL_HOLD == 1

\* A bug: a priority of zero looks like a packet to be released.
RetransmitDelayedRaw(pri, delay) == pri * 2 ^ DelayBits + delay

RetransmitDelayed(pri, delay) == (1 + pri) * 2 ^ DelayBits + delay
Priority(action) == ((action \div 2 ^ DelayBits) - 1) % 256
Delay(action) == action % 2 ^ DelayBits

---------------------------------------------------------------------------
(* meshcore_mesh_on_recv_packet: node n hears the frame.                   *)

Heard == TryParse(frame)
HasSeen(n, p) == <<n, CalculateHash(p)>> \in seen
Remember(n, p) == seen' = seen \cup {<<n, CalculateHash(p)>>}

\* n queues what it made of the packet, and transmits it.
Retransmit(n, q, pri) ==
  /\ Len(trail) < MaxRelays
  /\ \E delay \in RetransmitDelay(n, q) :
       LET action == RetransmitDelayed(pri, delay)
       IN /\ action \notin {RELEASE, MANUAL_HOLD}
          /\ queued' = [priority |-> Priority(action), delay |-> Delay(action), limit |-> MaxDelay(n, q)]
  /\ frame' = WriteTo(q)
  /\ trail' = Append(trail, n)
  /\ UNCHANGED origin

\* The hash at a position of a TRACE's payload; its path is a plain count of
\* the SNR bytes that the relays append.
TraceHashes(p) == SubSeq(p.payload, TRACE_HEAD + 1, Len(p.payload))
TraceSize(p) == 2 ^ (p.payload[TRACE_HEAD] % 4)
TraceOffsetUnshifted(p) == p.path_len       \* a bug: hashes have one byte
TraceOffset(p) == p.path_len * TraceSize(p)
SnrOf(n) == 200 + n                 \* the SNR at which n hears a frame

IsTrace(p) == IsRouteDirect(p) /\ PayloadType(p) = PAYLOAD_TYPE_TRACE
IsControl(p) ==
  /\ IsRouteDirect(p) /\ PayloadType(p) = PAYLOAD_TYPE_CONTROL
  /\ Len(p.payload) > 0 /\ p.payload[1] >= 128

AppendSnr(n, p) == [p EXCEPT !.path = @ \o <<SnrOf(n)>>, !.path_len = @ + 1]

\* The next node of a TRACE, from its first hop to the last.
RelayTrace(n) ==
  LET p == Heard
  IN /\ p # Bad /\ IsTrace(p)
     /\ p.path_len < MaxPathLen /\ Len(p.payload) >= TRACE_HEAD
     /\ TraceOffset(p) < Len(TraceHashes(p))
     /\ IsHashMatch(n, SubSeq(TraceHashes(p), TraceOffset(p) + 1, TraceOffset(p) + TraceSize(p)))
     /\ AllowForward(n, p) /\ ~HasSeen(n, p)
     /\ Remember(n, p)
     /\ Retransmit(n, AppendSnr(n, p), TRACE_PRIORITY)
     /\ UNCHANGED opened

\* A TRACE that has made all its hops is told to whoever hears it.
EndTrace(n) ==
  LET p == Heard
  IN /\ p # Bad /\ IsTrace(p)
     /\ p.path_len < MaxPathLen /\ Len(p.payload) >= TRACE_HEAD
     /\ TraceOffset(p) >= Len(TraceHashes(p))
     /\ opened' = opened \cup {n}
     /\ UNCHANGED <<frame, origin, trail, seen, queued>>

\* A bug: the hashes that are left stay where they are.
RemoveSelfInPlace(p) == [p EXCEPT !.path_len = SetHashCount(@, HashCount(@) - 1)]

\* meshcore_mesh_remove_self_from_path
RemoveSelf(p) ==
  [p EXCEPT !.path_len = SetHashCount(@, HashCount(@) - 1),
            !.path = SubSeq(@, HashSize(p.path_len) + 1, Len(@))]

\* A source-routed packet at the next hop; acknowledgements take another way.
RelayDirect(n) ==
  LET p == Heard
  IN /\ p # Bad /\ IsRouteDirect(p) /\ ~IsTrace(p) /\ ~IsControl(p)
     /\ PayloadType(p) \notin {PAYLOAD_TYPE_ACK, PAYLOAD_TYPE_MULTIPART}
     /\ HashCount(p.path_len) > 0
     /\ IsHashMatch(n, SubSeq(p.path, 1, HashSize(p.path_len)))
     /\ AllowForward(n, p) /\ ~HasSeen(n, p)
     /\ Remember(n, p)
     /\ Retransmit(n, RemoveSelf(p), 0)
     /\ UNCHANGED opened

\* A bug: the room for one more hash is not looked for.
MayRouteUnbounded(n, p) == IsRouteFlood(p) /\ ~IsMarked(p) /\ AllowForward(n, p)

\* meshcore_mesh_route_recv_packet
MayRoute(n, p) ==
  /\ IsRouteFlood(p) /\ ~IsMarked(p)
  /\ (HashCount(p.path_len) + 1) * HashSize(p.path_len) <= MaxPathLen
  /\ AllowForward(n, p)

AppendSelf(n, p) ==
  [p EXCEPT !.path = @ \o SubSeq(PubKey[n], 1, HashSize(p.path_len)),
            !.path_len = SetHashCount(@, HashCount(@) + 1)]

\* Which node can open, or signed, the payload
Party(p) == p.payload[Len(p.payload)]

\* A datagram, an anonymous request, a group packet, an ACK or an advert that
\* is long enough to be looked at, and not n's own advert
Admissible(n, p) ==
  CASE PayloadType(p) = PAYLOAD_TYPE_ACK -> Len(p.payload) >= 4
    [] PayloadType(p) \in DATAGRAM -> Len(p.payload) > 2 + CIPHER_MAC_SIZE
    [] PayloadType(p) = PAYLOAD_TYPE_ANON_REQ -> Len(p.payload) > AnonHead + CIPHER_MAC_SIZE
    [] PayloadType(p) \in GROUP -> Len(p.payload) > 1 + CIPHER_MAC_SIZE
    [] PayloadType(p) = PAYLOAD_TYPE_ADVERT -> Len(p.payload) >= AdvertHead /\ Party(p) # n
    [] OTHER -> FALSE

\* Does n find itself to be the addressee?
Opens(n, p) ==
  /\ PayloadType(p) \in DATAGRAM \cup {PAYLOAD_TYPE_ANON_REQ}
  /\ IsHashMatch(n, SubSeq(p.payload, 1, 1)) /\ Party(p) = n

Open(n, p) == opened' = IF Opens(n, p) THEN opened \cup {n} ELSE opened

\* An advert whose signature is not good is not relayed.
Verified(p) == PayloadType(p) = PAYLOAD_TYPE_ADVERT => Party(p) \in Node

\* The packet as n looks at it once more, to relay it
AfterOpening(n, p) == IF Opens(n, p) THEN Mark(p) ELSE p

RelayFlood(n) ==
  LET p == Heard
      q == AfterOpening(n, p)
  IN /\ p # Bad /\ IsRouteFlood(p) /\ Admissible(n, p) /\ ~HasSeen(n, p)
     /\ Verified(p) /\ MayRoute(n, q)
     /\ Remember(n, p)
     /\ Open(n, p)
     /\ Retransmit(n, AppendSelf(n, q), HashCount(AppendSelf(n, q).path_len))

\* A flood that n keeps to itself, or a source-routed packet at its end
Keep(n) ==
  LET p == Heard
      q == AfterOpening(n, p)
  IN /\ p # Bad /\ ~(IsRouteDirect(p) /\ HashCount(p.path_len) > 0)
     /\ Admissible(n, p) /\ ~HasSeen(n, p)
     /\ ~(Verified(p) /\ MayRoute(n, q))
     /\ Remember(n, p)
     /\ Open(n, p)
     /\ UNCHANGED <<frame, origin, trail, queued>>

---------------------------------------------------------------------------

\* Someone transmits a frame, sound or not.
Inject(f) ==
  /\ frame = <<>>
  /\ frame' = f
  /\ origin' = TryParse(f)
  /\ UNCHANGED <<trail, seen, opened, queued>>

\* Enough other packets pass for n's seen-table to forget one that it relayed.
Forget(n) ==
  /\ \E s \in seen : s[1] = n
  /\ \E i \in DOMAIN trail : trail[i] = n
  /\ seen' = {s \in seen : s[1] # n}
  /\ UNCHANGED <<frame, origin, trail, opened, queued>>

NotQueued == [priority |-> 0, delay |-> 0, limit |-> 0]

Init ==
  /\ frame = <<>> /\ origin = Bad /\ trail = <<>>
  /\ seen = {} /\ opened = {} /\ queued = NotQueued

\* The frame is heard by nobody, or by nobody who accepts it.
Fade ==
  /\ frame # <<>>
  /\ frame' = <<>> /\ origin' = Bad /\ trail' = <<>>
  /\ seen' = {} /\ opened' = {} /\ queued' = NotQueued

Next ==
  \/ frame = <<>> /\ \E f \in Frames : Inject(f)
  \/ \E n \in Node : RelayTrace(n)
  \/ \E n \in Node : EndTrace(n)
  \/ \E n \in Node : RelayDirect(n)
  \/ \E n \in Node : RelayFlood(n)
  \/ \E n \in Node : Keep(n)
  \/ \E n \in Node : Forget(n)
  \/ Fade

Spec == Init /\ [][Next]_vars

---------------------------------------------------------------------------
(* Properties.                                                             *)

\* A frame that one of our nodes relayed is sound for the next, and a frame
\* that is accepted is written back byte for byte: to the next node, and in
\* what the host is shown of it.
Faithful ==
  /\ trail # <<>> => Heard # Bad
  /\ frame # <<>> /\ Heard # Bad =>
       LET v == PacketView(Heard)
       IN v.raw = frame /\ v.raw_len = Len(frame)

\* The two parsers accept the same frames of version 1, except those with an
\* empty payload, and read the same in them; and what the host is given of an
\* advert can be handed to the API that shares it: it is read as the advert it
\* was.
ReadersAgree ==
  frame # <<>> /\ frame[1] < 64 /\ Len(frame) <= MaxFrame =>
    IF Heard # Bad /\ Heard.payload # <<>>
    THEN /\ ReadFrom(frame) = Heard
         /\ PayloadType(Heard) = PAYLOAD_TYPE_ADVERT =>
              LET q == ReadFrom(RawAdvertCopy(Heard))
              IN /\ q # Bad /\ PayloadType(q) = PAYLOAD_TYPE_ADVERT
                 /\ q.payload = Heard.payload /\ q.path = Heard.path
    ELSE ReadFrom(frame) = Bad

\* The bytes that the relays of the trail stand for
HashesOf(p) ==
  LET size == IF IsTrace(p) THEN 1 ELSE HashSize(p.path_len)
  IN [k \in 1 .. size * Len(trail) |->
        LET n == trail[((k - 1) \div size) + 1]
        IN IF IsTrace(p) THEN SnrOf(n) ELSE PubKey[n][((k - 1) % size) + 1]]

\* The six bits of the count have not overflowed.
InCount == HashCount(origin.path_len) + Len(trail) < MaxPathLen

\* The path tells the way, byte for byte and in order: a flood's has grown by
\* the hashes of its relays, a TRACE's by the SNR at each of them, and a
\* source-routed packet's has lost the hashes of its relays.  The header, the
\* codes and the payload are those of the origin.
PathTellsTrail ==
  trail # <<>> =>
    /\ [Heard EXCEPT !.path = <<>>, !.path_len = 0] = [origin EXCEPT !.path = <<>>, !.path_len = 0]
    /\ HashSize(Heard.path_len) = HashSize(origin.path_len) \/ ~InCount
    /\ CASE IsTrace(origin) \/ IsRouteFlood(origin) ->
              InCount => Heard.path = origin.path \o HashesOf(origin)
         [] OTHER -> HashesOf(origin) \o Heard.path = origin.path

\* "Maximum flood hop count": a repeater relays a flood only when fewer than
\* flood_max nodes have relayed it before, for paths in which the count has not
\* overflowed.  (It can, past a node that repeats without a limit.)
HopLimit ==
  trail # <<>> /\ IsRouteFlood(origin) /\ InCount =>
    \A i \in DOMAIN trail :
      Policy[trail[i]].role = "repeater" =>
        HashCount(origin.path_len) + i - 1 < Policy[trail[i]].flood_max

\* Times that n relayed the packet
Visits(n) == Cardinality({i \in DOMAIN trail : trail[i] = n})

\* Floods end: the addressee does not relay one, then or later; and even
\* when every seen-table forgets, a repeater that looks for loops relays a flood
\* no more often than its mode allows, unless the path has no room for a hash
\* beside the SNR.
FloodsEnd ==
  trail # <<>> /\ IsRouteFlood(origin) =>
    /\ \A i \in DOMAIN trail : trail[i] \notin opened
    /\ InCount /\ MatchLen(origin) > 0 =>
         \A n \in Node :
           Policy[n].role = "repeater" /\ Policy[n].loop_detect # "off" =>
             Visits(n) <= LoopMax(Policy[n].loop_detect, MatchLen(origin))

\* A TRACE visits the nodes of its list in the order of the list, and only
\* those, although every node in range hears it after every hop.
TraceInOrder ==
  trail # <<>> /\ IsTrace(origin) =>
    LET list == TraceHashes(origin)
        size == TraceSize(origin)
    IN \A i \in DOMAIN trail :
         LET at == (origin.path_len + i - 1) * size
         IN SubSeq(list, at + 1, at + size) = SubSeq(PubKey[trail[i]], 1, size)

\* The seen-table does not stand in the way of a TRACE on its way back: no node
\* takes the frame on the air for one that it has relayed before.
TraceNotSeen ==
  frame # <<>> /\ Heard # Bad /\ IsTrace(Heard) => \A n \in Node : ~HasSeen(n, Heard)

\* A packet is queued as urgent as it should be, a flood behind those that made
\* fewer hops, and its delay is not taken for its priority.
UrgencyKept ==
  trail # <<>> =>
    /\ queued.delay <= queued.limit
    /\ queued.priority = CASE IsTrace(origin) -> TRACE_PRIORITY
                           [] IsRouteFlood(origin) -> HashCount(Heard.path_len)
                           [] OTHER -> 0

=============================================================================
