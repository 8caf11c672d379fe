------------------------------ MODULE Routing ------------------------------
(***************************************************************************)
(* Several meshcore nodes on a broadcast radio: flooding with duplicate    *)
(* suppression, source-routed forwarding, and the exchange by which two    *)
(* chat nodes learn routes to each other (core/meshcore_mesh.c with        *)
(* support/meshcore_tables.c, runtime/meshcore_runtime_policy.c and the    *)
(* receive paths of runtime/meshcore_runtime_receive.c).                   *)
(*                                                                         *)
(* A payload is known by a serial number `id', which stands for the hash   *)
(* the seen-table keeps; a path is the sequence of its node hashes.  A     *)
(* transmission puts one copy on the air for every node in range; copies   *)
(* arrive in any order and may be lost.  Time, queues and priorities are   *)
(* the dispatcher's (see Dispatcher).  The host stores the routes it is    *)
(* told.  `sends', `delivered', `acked', `relays' and `lost' are kept by   *)
(* the model, not by the code.                                             *)
(* Modelled payloads: TXT_MSG, PATH, ACK and ADVERT.                       *)
(***************************************************************************)
EXTENDS Integers, Sequences, FiniteSets

CONSTANTS
  Node,
  Links,      \* set of <<n, m>>: m hears what n transmits
  Hash,       \* the path hash of every node; two nodes may share one
  Repeaters,  \* nodes with the role REPEATER; the others are chat nodes
  FloodMax,   \* policy.flood_max
  LoopMax,    \* own hashes in a path at which a repeater sees a loop, 0: off
  MaxPath,    \* hashes that fit into MESHCORE_MAX_PATH_LEN
  TableSize,  \* MESHCORE_TABLES_MAX_PACKET_HASHES
  Pairs,      \* <<from, to>>: the messages the hosts may send
  Adverts,    \* chat nodes that may advertise themselves
  MaxSends,   \* bound: messages and adverts sent by the hosts
  MaxLost,    \* bound: copies the radio loses
  Quiet,      \* bound: copies on the air at most when a host sends
  Unknown     \* the host has no route to the peer

Chats == Node \ Repeaters
None == 0                     \* no payload

ASSUME RoutingAssumption ==
  /\ Links \subseteq Node \X Node
  /\ Repeaters \subseteq Node
  /\ Pairs \subseteq Chats \X Chats /\ Adverts \subseteq Chats
  /\ {FloodMax, LoopMax, MaxPath, MaxSends, MaxLost, Quiet} \subseteq Nat
  /\ TableSize \in Nat \ {0}

VARIABLES
  seen,       \* seen[n]: the ring of payloads node n remembers, oldest first
  air,        \* copies on their way: packet and receiver
  routes,     \* routes[n][m]: the path to m that n's host keeps
  lastId,     \* payloads created so far
  sends,      \* what the hosts sent: payload, sender, addressee
  delivered,  \* how often each message was handed to its addressee's host
  acked,      \* messages whose acknowledgement reached their sender
  relays,     \* what was relayed: node, payload, path
  lost        \* copies lost so far

vars == <<seen, air, routes, lastId, sends, delivered, acked, relays, lost>>

InRange(n) == {m \in Node : <<n, m>> \in Links}
Copies(n, pkts) == {[pkt |-> p, to |-> m, from |-> n] : p \in pkts, m \in InRange(n)}

Count(h, path) == Cardinality({i \in DOMAIN path : path[i] = h})

---------------------------------------------------------------------------
(* The seen-table and the forwarding policy.                               *)

\* meshcore_tables_has_seen: a lookup that remembers a new payload and, once
\* the ring is full, forgets the oldest
HasSeenNewest(n, id) ==                            \* a bug: only the last entry is compared
  seen[n] # <<>> /\ seen[n][Len(seen[n])] = id
HasSeen(n, id) == \E i \in DOMAIN seen[n] : seen[n][i] = id
Remember(ring, id) ==
  IF Len(ring) < TableSize THEN Append(ring, id) ELSE Append(Tail(ring), id)
RememberedOwn(ring, id) == ring                    \* a bug: only own payloads are
Remembered(ring, id) ==
  IF \E i \in DOMAIN ring : ring[i] = id THEN ring ELSE Remember(ring, id)

\* meshcore_runtime_packet_is_looped
IsLooped(n, p) == LoopMax > 0 /\ Count(Hash[n], p.path) >= LoopMax

\* A bug: source-routed packets are not forwarded.
AllowForwardFlood(n, p) == n \in Repeaters /\ p.flood /\ Len(p.path) < FloodMax

\* meshcore_runtime_protocol_allow_packet_forward for repeaters that forward
\* and chat nodes without client_repeat
AllowForward(n, p) ==
  /\ n \in Repeaters
  /\ p.flood => Len(p.path) < FloodMax /\ ~IsLooped(n, p)

\* A bug: the relay leaves the path as it is.
RouteRecvAnonymous(n, p) == IF p.flood /\ AllowForward(n, p) THEN {p} ELSE {}

\* meshcore_mesh_route_recv_packet: what n transmits of a packet it received
RouteRecv(n, p) ==
  IF p.flood /\ Len(p.path) + 1 <= MaxPath /\ AllowForward(n, p)
  THEN {[p EXCEPT !.path = Append(@, Hash[n])]}
  ELSE {}

---------------------------------------------------------------------------
(* Packets, and what they make a node send.                                *)

Packet(id, kind, from, to) ==
  [id |-> id, kind |-> kind, src |-> from, dst |-> to, flood |-> TRUE,
   path |-> <<>>, route |-> <<>>, ack |-> None]

SendFlood(p) == [p EXCEPT !.flood = TRUE, !.path = <<>>]
SendDirect(p, path) == [p EXCEPT !.flood = FALSE, !.path = path]

\* The acknowledgement of payload m; a PATH with the route it returns and the
\* acknowledgement it carries; an advert, which is for everyone.
AckPacket(id, n, to, m) == [Packet(id, "ack", n, to) EXCEPT !.ack = m]
PathPacket(id, n, to, route, m) ==
  [Packet(id, "path", n, to) EXCEPT !.route = route, !.ack = m]
AdvertPacket(id, n) == Packet(id, "advert", n, n)

\* meshcore_mesh_remove_self_from_path
RemoveSelf(p) == [p EXCEPT !.path = Tail(@)]

\* meshcore_runtime_peer_path_get, then flood or direct
SendTo(p, path) == IF path = Unknown THEN SendFlood(p) ELSE SendDirect(p, path)

\* meshcore_runtime_send_ack_or_path_return for a text message p to n: a flooded
\* one is answered by a flooded PATH that carries the path it came along
Acknowledge(n, p, id) ==
  IF p.flood
  THEN SendFlood(PathPacket(id, n, p.src, p.path, p.id))
  ELSE SendTo(AckPacket(id, n, p.src, p.id), routes[n][p.src])

\* A bug: the two paths of the reply are exchanged.
ReturnPathSwapped(n, p, id) ==
  SendDirect(PathPacket(id, n, p.src, p.route, None), p.path)

\* The reciprocal PATH with which n answers a flooded PATH p, along p.route
ReturnPath(n, p, id) ==
  SendDirect(PathPacket(id, n, p.src, p.path, None), p.route)

---------------------------------------------------------------------------
(* meshcore_mesh_on_recv_packet, one action per outcome.  c is a copy that *)
(* reaches c.to; `tx' is the set of packets c.to then transmits.           *)

Transmit(c, tx) == air' = (air \ {c}) \cup Copies(c.to, tx)
MarkSeen(n, p, own) ==      \* p, then the packets of n's own
  seen' = [seen EXCEPT ![n] =
             LET r == Remembered(@, p.id)
             IN IF own = {} THEN r ELSE Remember(r, (CHOOSE q \in own : TRUE).id)]
\* The events the host is told: a message, and a peer's route, which it stores
Deliver(id) == delivered' = [delivered EXCEPT ![id] = @ + 1]
TellRoute(n, m, route) == routes' = [routes EXCEPT ![n][m] = route]
Relayed(n, tx) == relays' = relays \cup {<<n, p.id, p.path>> : p \in tx}

\* Is the packet being carried along its path rather than handled here?
EnRoute(p) == ~p.flood /\ p.path # <<>>

\* An ACK that c.to's host awaits, in whatever packet it comes (see Correlation)
AckFor(n, m) == IF \E s \in sends : s.id = m /\ s.from = n THEN {m} ELSE {}

\* A source-routed packet for the next hop, which takes itself off the path.
\* An acknowledgement is looked at on the way, by everyone who hears it.
Forward(c) ==
  LET n == c.to
      p == c.pkt
      next == Hash[n] = Head(p.path) /\ AllowForward(n, p)
      tx == IF next /\ ~HasSeen(n, p.id) THEN {RemoveSelf(p)} ELSE {}
  IN /\ EnRoute(p)
     /\ Transmit(c, tx)
     /\ IF next THEN MarkSeen(n, p, {}) ELSE UNCHANGED seen
     /\ Relayed(n, tx)
     /\ acked' = IF p.kind = "ack" THEN acked \cup AckFor(n, p.ack) ELSE acked
     /\ UNCHANGED <<routes, lastId, sends, delivered, lost>>

\* A payload c.to remembers is dropped, as is its own advert.
Duplicate(c) ==
  /\ ~EnRoute(c.pkt)
  /\ HasSeen(c.to, c.pkt.id) \/ (c.pkt.kind = "advert" /\ c.pkt.src = c.to)
  /\ air' = air \ {c}
  /\ UNCHANGED <<seen, routes, lastId, sends, delivered, acked, relays, lost>>

IsNew(c) == ~EnRoute(c.pkt) /\ ~HasSeen(c.to, c.pkt.id)

\* Not for this node: relayed when it is a flood.  An ACK is for all.
PassOn(c) ==
  LET tx == RouteRecv(c.to, c.pkt)
  IN /\ IsNew(c) /\ c.pkt.kind # "advert"
     /\ c.pkt.kind \in {"txt", "path"} => c.pkt.dst # c.to
     /\ Transmit(c, tx)
     /\ MarkSeen(c.to, c.pkt, {})
     /\ Relayed(c.to, tx)
     /\ acked' = IF c.pkt.kind = "ack" THEN acked \cup AckFor(c.to, c.pkt.ack) ELSE acked
     /\ UNCHANGED <<routes, lastId, sends, delivered, lost>>

\* Another node's advert, whose signature is good: told to the host and relayed
HearAdvert(c) ==
  LET tx == RouteRecv(c.to, c.pkt)
  IN /\ IsNew(c) /\ c.pkt.kind = "advert" /\ c.pkt.src # c.to
     /\ Transmit(c, tx)
     /\ MarkSeen(c.to, c.pkt, {})
     /\ Relayed(c.to, tx)
     /\ UNCHANGED <<routes, lastId, sends, delivered, acked, lost>>

\* A bug: the acknowledgement is sent before the addressee is looked at.
ReceiveTextEager(c) ==
  LET reply == Acknowledge(c.to, c.pkt, lastId + 1)
  IN /\ IsNew(c) /\ c.pkt.kind = "txt"
     /\ delivered' = [delivered EXCEPT ![c.pkt.id] = IF c.pkt.dst = c.to THEN @ + 1 ELSE @]
     /\ Transmit(c, {reply})
     /\ MarkSeen(c.to, c.pkt, {reply})
     /\ lastId' = lastId + 1
     /\ UNCHANGED <<routes, sends, acked, relays, lost>>

\* meshcore_runtime_on_peer_data_recv for a text message
ReceiveText(c) ==
  LET reply == Acknowledge(c.to, c.pkt, lastId + 1)
  IN /\ IsNew(c) /\ c.pkt.kind = "txt" /\ c.pkt.dst = c.to
     /\ Deliver(c.pkt.id)
     /\ Transmit(c, {reply})
     /\ MarkSeen(c.to, c.pkt, {reply})
     /\ lastId' = lastId + 1
     /\ UNCHANGED <<routes, sends, acked, relays, lost>>

\* meshcore_runtime_on_peer_path_recv: note the acknowledgement, tell the host
\* the route, and answer a flooded PATH
ReceivePath(c) ==
  LET own == IF c.pkt.flood THEN {ReturnPath(c.to, c.pkt, lastId + 1)} ELSE {}
  IN /\ IsNew(c) /\ c.pkt.kind = "path" /\ c.pkt.dst = c.to
     /\ acked' = acked \cup AckFor(c.to, c.pkt.ack)
     /\ TellRoute(c.to, c.pkt.src, c.pkt.route)
     /\ Transmit(c, own)
     /\ MarkSeen(c.to, c.pkt, own)
     /\ lastId' = lastId + Cardinality(own)
     /\ UNCHANGED <<sends, delivered, relays, lost>>

---------------------------------------------------------------------------
(* The hosts and the air.                                                  *)

Originate(n, m, p) ==
  /\ Cardinality(sends) < MaxSends /\ Cardinality(air) <= Quiet
  /\ lastId' = lastId + 1
  /\ sends' = sends \cup {[id |-> lastId + 1, from |-> n, to |-> m]}
  /\ seen' = [seen EXCEPT ![n] = Remember(@, lastId + 1)]
  /\ air' = air \cup Copies(n, {p})

\* meshcore_message_send_to_node
SendMessage(n, m) ==
  /\ Originate(n, m, SendTo(Packet(lastId + 1, "txt", n, m), routes[n][m]))
  /\ delivered' = [i \in DOMAIN delivered \cup {lastId + 1} |->
                     IF i \in DOMAIN delivered THEN delivered[i] ELSE 0]
  /\ UNCHANGED <<routes, acked, relays, lost>>

\* meshcore_node_advert_request(flood = true)
SendAdvert(n) ==
  /\ Originate(n, n, SendFlood(AdvertPacket(lastId + 1, n)))
  /\ UNCHANGED <<routes, delivered, acked, relays, lost>>

\* The radio of one receiver misses a transmission.
Lose(c) ==
  /\ lost < MaxLost
  /\ lost' = lost + 1
  /\ air' = air \ {c}
  /\ UNCHANGED <<seen, routes, lastId, sends, delivered, acked, relays>>

Init ==
  /\ seen = [n \in Node |-> <<>>]
  /\ air = {}
  /\ routes = [n \in Node |-> [m \in Node |-> Unknown]]
  /\ lastId = 0
  /\ sends = {}
  /\ delivered = <<>>
  /\ acked = {}
  /\ relays = {}
  /\ lost = 0

Arrive(c) ==
  \/ Forward(c) \/ Duplicate(c) \/ PassOn(c) \/ HearAdvert(c)
  \/ ReceiveText(c) \/ ReceivePath(c)

Next ==
  \/ \E pair \in Pairs : SendMessage(pair[1], pair[2])
  \/ \E n \in Adverts : SendAdvert(n)
  \/ \E c \in air : Forward(c)
  \/ \E c \in air : Duplicate(c)
  \/ \E c \in air : PassOn(c)
  \/ \E c \in air : HearAdvert(c)
  \/ \E c \in air : ReceiveText(c)
  \/ \E c \in air : ReceivePath(c)
  \/ \E c \in air : Lose(c)

Spec == Init /\ [][Next]_vars

\* What is on the air arrives or is lost.
FairSpec == Spec /\ WF_vars(\E c \in air : Arrive(c))

---------------------------------------------------------------------------
(* Properties.                                                             *)

\* Does a transmission of n reach m over relays with these hashes?
Leads(n, path, m) ==
  \E hop \in [1 .. Len(path) -> Repeaters] :
    LET at(i) == IF i = 0 THEN n ELSE hop[i]
    IN /\ \A i \in 1 .. Len(path) : Hash[hop[i]] = path[i] /\ hop[i] \in InRange(at(i - 1))
       /\ m \in InRange(at(Len(path)))

\* Routes are right: a path collected by a flood, returned in a PATH, stored by
\* the host and consumed hop by hop by a source-routed packet leads, at every
\* moment, over relays in range of each other to the node it is meant for.
RoutesLead ==
  /\ \A c \in air : IF c.pkt.flood THEN Leads(c.pkt.src, c.pkt.path, c.to)
                                   ELSE Leads(c.from, c.pkt.path, c.pkt.dst)
  /\ \A n, m \in Node : routes[n][m] # Unknown => Leads(n, routes[n][m], m)

\* A flood is relayed at most once by every node, and a source-routed packet at
\* most once, as long as the seen-table is large enough for the traffic.
RelayOnce == \A r, s \in relays : r[1] = s[1] /\ r[2] = s[2] => r = s

\* A message reaches its addressee's host at most once, whatever copies arrive.
DeliveredOnce == \A i \in DOMAIN delivered : delivered[i] <= 1

\* A message is reported as acknowledged only after its addressee received it.
AckedMeansDelivered == \A i \in acked : i \in DOMAIN delivered /\ delivered[i] > 0

\* Every message is acknowledged in the end unless a copy is lost: the flood
\* finds the addressee, its PATH finds the sender, and the messages that follow
\* use the routes both have learnt.
Acknowledged ==
  []<>(DOMAIN delivered \subseteq acked \/ lost > 0)

\* The air falls silent: no flood is relayed for ever, not even when every
\* seen-table forgets.
Quiesces == []<>(air = {})

=============================================================================
