---------------------------- MODULE SourceRoute ----------------------------
(***************************************************************************)
(* What several nodes make of one another's packets when their one-byte    *)
(* hashes collide: who opens a packet and whom it is attributed to, how an *)
(* acknowledgement travels back along a route, with the extra copies that  *)
(* every relay adds, and what becomes of anonymous, group, raw and control *)
(* packets (meshcore_mesh_on_recv_packet in core/meshcore_mesh.c and       *)
(* runtime/meshcore_runtime_receive.c).  Texts are sent along known        *)
(* routes; how routes are learnt is in Routing, the bytes are in Wire, who *)
(* waits for an answer is in Correlation.                                  *)
(*                                                                         *)
(* Cryptography is symbolic: a packet is opened by the two nodes, or the   *)
(* members of the channel, that share its secret.  Seen-tables do not      *)
(* overflow (Routing has one that does).  The air is a set of copies: what *)
(* a node transmits twice while the first is on its way arrives once.      *)
(* `told', `acks', `lost' and `lostAcks' are kept by the model.            *)
(***************************************************************************)
EXTENDS Integers, Sequences, FiniteSets

CONSTANTS
  Node,
  Links,        \* set of <<n, m>>: m hears what n transmits
  Hash,         \* the first byte of every node's key; two nodes may share it
  Repeaters,    \* the nodes that forward; the others are chat nodes
  Contacts,     \* Contacts[n]: the peers in n's contact slots, in order
  Channels,     \* Channels[n]: the channels that n's host keeps, in order
  ChannelHash,  \* the hash of every channel; two channels may share it
  Routes,       \* Routes[n][m]: the path to m that n's host keeps
  Unknown,      \* it keeps none
  ExtraAcks,    \* what meshcore_platform_mesh_extra_ack_transmit_count_get answers
  MaxPath,      \* hashes that fit into a path
  Sends,        \* what the hosts send, in order; a payload is known by its index
  MaxFaults,    \* bound: copies the radio loses or delivers twice
  Quiet         \* bound: copies on the air at most when a host sends

SEARCH_MAX == 4       \* channels looked up by meshcore_mesh_on_recv_packet
Kinds == {"txt", "anon", "grp", "raw", "control"}

ASSUME SourceRouteAssumption ==
  /\ Links \subseteq Node \X Node /\ Repeaters \subseteq Node
  /\ Contacts \in [Node -> Seq(Node)]
  /\ {ExtraAcks, MaxPath, MaxFaults, Quiet} \subseteq Nat
  /\ \A i \in DOMAIN Sends :
       /\ Sends[i].kind \in Kinds /\ Sends[i].from \in Node \ Repeaters
       /\ Sends[i].kind = "txt" => Routes[Sends[i].from][Sends[i].to] # Unknown

VARIABLES
  seen,       \* seen[n]: the keys in n's seen-table
  air,        \* copies on their way: packet, transmitter and receiver
  sent,       \* the hosts' sends so far
  told,       \* told[n]: what n's host was told: payload, sender or channel, how often
  credited,   \* texts whose acknowledgement reached their sender
  acks,       \* acks[n][i]: transmissions by which n relayed an acknowledgement of i
  lost,       \* copies lost, and among them acknowledgements
  lostAcks,
  dups        \* copies delivered twice

vars == <<seen, air, sent, told, credited, acks, lost, lostAcks, dups>>

InRange(n) == {m \in Node : <<n, m>> \in Links}

---------------------------------------------------------------------------
(* Packets.  The key of a packet is its type and payload; a MULTIPART      *)
(* packet has the number of copies still to come in its payload.           *)

Packet(type, i) ==
  [type |-> type, id |-> i, remaining |-> 0, flood |-> FALSE, path |-> <<>>]
SendFlood(p) == [p EXCEPT !.flood = TRUE]
SendDirect(p, path) == [p EXCEPT !.path = path]
CreateAck(i) == Packet("ack", i)
CreateMultiAck(i, remaining) == [Packet("multipart", i) EXCEPT !.remaining = remaining]
IsAck(p) == p.type \in {"ack", "multipart"}

Key(p) == <<p.type, p.id, p.remaining>>
\* The packet that is looked up in place of a MULTIPART: its type, and the
\* acknowledgement without the count
InnerKey(p) == <<p.type, p.id, "inner">>

RemoveSelf(p) == [p EXCEPT !.path = Tail(@)]

\* meshcore_mesh_route_direct_recv_acks: p stands for the acknowledgement with
\* the rest of its path
RouteAcks(p) ==
  {[CreateMultiAck(p.id, k) EXCEPT !.path = p.path] : k \in 1 .. ExtraAcks}
    \cup {[CreateAck(p.id) EXCEPT !.path = p.path]}

\* A bug: no extra copy is sent.
SendAckOnce(n, m, i) ==
  IF Routes[n][m] = Unknown THEN {SendFlood(CreateAck(i))}
                            ELSE {SendDirect(CreateAck(i), Routes[n][m])}

\* meshcore_runtime_send_ack_direct
SendAck(n, m, i) ==
  IF Routes[n][m] = Unknown THEN {SendFlood(CreateAck(i))}
  ELSE {SendDirect(CreateAck(i), Routes[n][m])}
         \cup IF ExtraAcks > 0 THEN {SendDirect(CreateMultiAck(i, 1), Routes[n][m])} ELSE {}

AllowForward(n) == n \in Repeaters

\* A packet that is being carried along its path, and the node that is next
EnRoute(p) == ~p.flood /\ p.path # <<>>
ForMe(n, p) == p.path[1] = Hash[n] /\ AllowForward(n)

\* A transmission reaches every node in range.  The copies that change nothing,
\* whatever the receiver's state, are left out: packets on their way to another
\* hop, except an acknowledgement that passes the node that awaits it.
Copies(n, pkts) ==
  {c \in {[pkt |-> p, from |-> n, to |-> m] : p \in pkts, m \in InRange(n)} :
     EnRoute(c.pkt) => \/ ForMe(c.to, c.pkt)
                       \/ c.pkt.type = "ack" /\ Sends[c.pkt.id].from = c.to}

\* meshcore_mesh_route_recv_packet
RouteRecv(n, p) ==
  IF p.flood /\ Len(p.path) < MaxPath /\ AllowForward(n)
  THEN {[p EXCEPT !.path = Append(@, Hash[n])]} ELSE {}

---------------------------------------------------------------------------
(* meshcore_mesh_on_recv_packet: copy c reaches its receiver.              *)

HasSeen(n, key) == key \in seen[n]
Remember(n, keys) == seen' = [seen EXCEPT ![n] = @ \cup keys]
Keys(pkts) == {Key(p) : p \in pkts}

Faults == lost + lostAcks + dups

\* The radio delivers a copy, and may deliver it once more.
Deliver(c, pkts) ==
  \/ air' = (air \ {c}) \cup Copies(c.to, pkts) /\ UNCHANGED dups
  \/ /\ Faults < MaxFaults
     /\ air' = air \cup Copies(c.to, pkts) /\ dups' = dups + 1

Times(n, e) == IF e \in DOMAIN told[n] THEN told[n][e] ELSE 0
Tell(n, e) ==
  told' = [told EXCEPT ![n] = [x \in DOMAIN @ \cup {e} |-> Times(n, x) + IF x = e THEN 1 ELSE 0]]

\* meshcore_runtime_on_ack_recv: only the sender of the text expects it
Credit(n, i) == credited' = IF i \in sent /\ Sends[i].from = n THEN credited \cup {i} ELSE credited
CountAcks(n, i, pkts) == acks' = [acks EXCEPT ![n][i] = @ + Cardinality(pkts)]

\* An acknowledgement on its way: credited by any node that hears it, and
\* carried on, with extra copies, by the next one of its path.
ForwardAck(c) ==
  LET n == c.to
      p == c.pkt
      tx == IF ForMe(n, p) /\ ~HasSeen(n, Key(p)) THEN RouteAcks(RemoveSelf(p)) ELSE {}
  IN /\ EnRoute(p) /\ p.type = "ack"
     /\ Credit(n, p.id)
     /\ IF ForMe(n, p) THEN Remember(n, {Key(p)}) ELSE UNCHANGED seen
     /\ Deliver(c, tx) /\ CountAcks(n, p.id, tx)
     /\ UNCHANGED <<sent, told, lost, lostAcks>>

\* A bug: the acknowledgement in a MULTIPART is not looked up.
ForwardMultipartAlways(c) ==
  LET n == c.to
      p == c.pkt
      tx == IF ForMe(n, p) THEN RouteAcks(RemoveSelf(p)) ELSE {}
  IN /\ EnRoute(p) /\ p.type = "multipart"
     /\ Deliver(c, tx) /\ CountAcks(n, p.id, tx)
     /\ UNCHANGED <<seen, sent, told, credited, lost, lostAcks>>

\* meshcore_mesh_forward_multipart_direct
ForwardMultipart(c) ==
  LET n == c.to
      p == c.pkt
      tx == IF ForMe(n, p) /\ ~HasSeen(n, InnerKey(p)) THEN RouteAcks(RemoveSelf(p)) ELSE {}
  IN /\ EnRoute(p) /\ p.type = "multipart"
     /\ IF ForMe(n, p) THEN Remember(n, {InnerKey(p)}) ELSE UNCHANGED seen
     /\ Deliver(c, tx) /\ CountAcks(n, p.id, tx)
     /\ UNCHANGED <<sent, told, credited, lost, lostAcks>>

\* Any other packet at the next hop of its path; a control packet is not
\* carried on.
Forward(c) ==
  LET n == c.to
      p == c.pkt
      mine == ForMe(n, p) /\ p.type # "control"
      tx == IF mine /\ ~HasSeen(n, Key(p)) THEN {RemoveSelf(p)} ELSE {}
  IN /\ EnRoute(p) /\ ~IsAck(p)
     /\ IF mine THEN Remember(n, {Key(p)}) ELSE UNCHANGED seen
     /\ Deliver(c, tx)
     /\ UNCHANGED <<sent, told, credited, acks, lost, lostAcks>>

Arrived(c, type) == ~EnRoute(c.pkt) /\ c.pkt.type = type
New(c) == ~HasSeen(c.to, Key(c.pkt))

\* A packet that a node knows; a MULTIPART is known by its inner key, a control
\* packet is never looked up.
Duplicate(c) ==
  /\ ~EnRoute(c.pkt)
  /\ IF c.pkt.type = "multipart" THEN HasSeen(c.to, InnerKey(c.pkt))
                                 ELSE c.pkt.type # "control" /\ ~New(c)
  /\ Deliver(c, {})
  /\ UNCHANGED <<seen, sent, told, credited, acks, lost, lostAcks>>

ReceiveAck(c) ==
  LET tx == RouteRecv(c.to, c.pkt)
  IN /\ Arrived(c, "ack") /\ New(c)
     /\ Remember(c.to, {Key(c.pkt)})
     /\ Credit(c.to, c.pkt.id)
     /\ Deliver(c, tx) /\ CountAcks(c.to, c.pkt.id, tx)
     /\ UNCHANGED <<sent, told, lost, lostAcks>>

ReceiveMultipart(c) ==
  /\ Arrived(c, "multipart") /\ ~HasSeen(c.to, InnerKey(c.pkt))
  /\ Remember(c.to, {InnerKey(c.pkt)})
  /\ Credit(c.to, c.pkt.id)
  /\ Deliver(c, {})
  /\ UNCHANGED <<sent, told, acks, lost, lostAcks>>

\* A bug: the first contact with the sender's hash is taken for the sender.
SenderByHash(n, i) ==
  LET s == Sends[i]
      slots == {k \in DOMAIN Contacts[n] : Hash[Contacts[n][k]] = Hash[s.from]}
  IN IF Hash[n] = Hash[s.to] /\ slots # {}
     THEN {Contacts[n][CHOOSE k \in slots : \A j \in slots : k <= j]} ELSE {}

\* The contact whose secret opens the packet, among those with the sender's
\* hash, in the order of the slots
Sender(n, i) ==
  LET s == Sends[i]
      slots == {k \in DOMAIN Contacts[n] :
                  /\ Hash[Contacts[n][k]] = Hash[s.from]
                  /\ Contacts[n][k] = s.from /\ n = s.to}
  IN IF Hash[n] = Hash[s.to] /\ slots # {}
     THEN {Contacts[n][CHOOSE k \in slots : \A j \in slots : k <= j]} ELSE {}

\* A text at the end of its route: opened and acknowledged, or not for n
ReceiveText(c) ==
  LET n == c.to
      i == c.pkt.id
      found == Sender(n, i)
      tx == IF found = {} THEN RouteRecv(n, c.pkt)
            ELSE UNION {SendAck(n, m, i) : m \in found}
  IN /\ Arrived(c, "txt") /\ New(c)
     /\ IF found = {} THEN UNCHANGED told ELSE \E m \in found : Tell(n, <<i, m>>)
     /\ Remember(n, {Key(c.pkt)} \cup IF found = {} THEN {} ELSE Keys(tx))
     /\ Deliver(c, tx)
     /\ UNCHANGED <<sent, credited, acks, lost, lostAcks>>

\* An anonymous request carries its sender's key; the addressee opens it.
ReceiveAnon(c) ==
  LET n == c.to
      mine == Sends[c.pkt.id].to = n
  IN /\ Arrived(c, "anon") /\ New(c)
     /\ IF mine THEN Tell(n, <<c.pkt.id, Sends[c.pkt.id].from>>) ELSE UNCHANGED told
     /\ Remember(n, {Key(c.pkt)})
     /\ Deliver(c, IF mine THEN {} ELSE RouteRecv(n, c.pkt))
     /\ UNCHANGED <<sent, credited, acks, lost, lostAcks>>

\* The channels of n with this hash
Candidates(n, h) == {k \in DOMAIN Channels[n] : ChannelHash[Channels[n][k]] = h}

\* A bug: the first channel with the hash is taken for the packet's.
OpensGroupByHash(n, chan) == Candidates(n, ChannelHash[chan]) # {}

\* meshcore_mesh_runtime_search_channels_by_hash and the loop over its result
OpensGroup(n, chan) ==
  LET found == Candidates(n, ChannelHash[chan])
  IN \E k \in found : Channels[n][k] = chan /\ Cardinality({j \in found : j <= k}) <= SEARCH_MAX

\* A bug: a member keeps the packet to itself.
RouteGroupEnds(n, p, chan) == IF OpensGroup(n, chan) THEN {} ELSE RouteRecv(n, p)
RouteGroup(n, p, chan) == RouteRecv(n, p)

\* A group packet is for every member, and relayed by members, too.
ReceiveGroup(c) ==
  LET n == c.to
      chan == Sends[c.pkt.id].to
  IN /\ Arrived(c, "grp") /\ New(c)
     /\ IF OpensGroup(n, chan) /\ n \notin Repeaters THEN Tell(n, <<c.pkt.id, chan>>) ELSE UNCHANGED told
     /\ Remember(n, {Key(c.pkt)})
     /\ Deliver(c, RouteGroup(n, c.pkt, chan))
     /\ UNCHANGED <<sent, credited, acks, lost, lostAcks>>

\* A raw packet is for whoever hears it at the end of its route.
ReceiveRaw(c) ==
  /\ Arrived(c, "raw") /\ New(c)
  /\ Remember(c.to, {Key(c.pkt)})
  /\ Tell(c.to, <<c.pkt.id, "raw">>)
  /\ Deliver(c, {})
  /\ UNCHANGED <<sent, credited, acks, lost, lostAcks>>

\* A control packet is for every neighbour; it is not looked up.
ReceiveControl(c) ==
  /\ Arrived(c, "control")
  /\ Tell(c.to, <<c.pkt.id, "control">>)
  /\ Deliver(c, {})
  /\ UNCHANGED <<seen, sent, credited, acks, lost, lostAcks>>

---------------------------------------------------------------------------
(* The hosts and the air.                                                  *)

Outgoing(i) ==
  LET s == Sends[i]
      p == Packet(s.kind, i)
  IN CASE s.kind = "txt" -> SendDirect(p, Routes[s.from][s.to])
       [] s.kind \in {"anon", "grp"} -> SendFlood(p)
       [] s.kind = "raw" -> SendDirect(p, s.to)
       [] s.kind = "control" -> SendDirect(p, <<>>)

\* A host sends the i-th of the sends.
HostSend(i) ==
  /\ i \notin sent /\ \A j \in 1 .. i - 1 : j \in sent
  /\ Cardinality(air) <= Quiet
  /\ sent' = sent \cup {i}
  /\ Remember(Sends[i].from, {Key(Outgoing(i))})
  /\ air' = air \cup Copies(Sends[i].from, {Outgoing(i)})
  /\ UNCHANGED <<told, credited, acks, lost, lostAcks, dups>>

\* One receiver misses a transmission.
Lose(c) ==
  /\ Faults < MaxFaults
  /\ air' = air \ {c}
  /\ IF IsAck(c.pkt) THEN lostAcks' = lostAcks + 1 /\ UNCHANGED lost
                     ELSE lost' = lost + 1 /\ UNCHANGED lostAcks
  /\ UNCHANGED <<seen, sent, told, credited, acks, dups>>

Init ==
  /\ seen = [n \in Node |-> {}]
  /\ air = {} /\ sent = {}
  /\ told = [n \in Node |-> <<>>]
  /\ credited = {}
  /\ acks = [n \in Node |-> [i \in DOMAIN Sends |-> 0]]
  /\ lost = 0 /\ lostAcks = 0 /\ dups = 0

Arrive(c) ==
  \/ ForwardAck(c) \/ ForwardMultipart(c) \/ Forward(c) \/ Duplicate(c)
  \/ ReceiveAck(c) \/ ReceiveMultipart(c) \/ ReceiveText(c) \/ ReceiveAnon(c)
  \/ ReceiveGroup(c) \/ ReceiveRaw(c) \/ ReceiveControl(c)

\* Nothing is left to send or to arrive.
Done == sent = DOMAIN Sends /\ air = {} /\ UNCHANGED vars

Next ==
  \/ \E i \in DOMAIN Sends : HostSend(i)
  \/ \E c \in air : ForwardAck(c)
  \/ \E c \in air : ForwardMultipart(c)
  \/ \E c \in air : Forward(c)
  \/ \E c \in air : Duplicate(c)
  \/ \E c \in air : ReceiveAck(c)
  \/ \E c \in air : ReceiveMultipart(c)
  \/ \E c \in air : ReceiveText(c)
  \/ \E c \in air : ReceiveAnon(c)
  \/ \E c \in air : ReceiveGroup(c)
  \/ \E c \in air : ReceiveRaw(c)
  \/ \E c \in air : ReceiveControl(c)
  \/ \E c \in air : Lose(c)
  \/ Done

Spec == Init /\ [][Next]_vars
\* The hosts send, and what is on the air arrives or is lost.
FairSpec ==
  /\ Spec
  /\ WF_vars(\E i \in DOMAIN Sends : HostSend(i))
  /\ WF_vars(\E c \in air : Arrive(c))

---------------------------------------------------------------------------
(* Properties.                                                             *)

\* A private packet is told to the host of its addressee alone, once, under
\* the name of the node that sent it, whoever else has the hash of either; and
\* an acknowledgement is evidence that this has happened.
RightParties ==
  /\ \A n \in Node : \A e \in DOMAIN told[n] :
       Sends[e[1]].kind \in {"txt", "anon"} =>
         Sends[e[1]].to = n /\ Sends[e[1]].from = e[2] /\ told[n][e] = 1
  /\ \A i \in credited : \E e \in DOMAIN told[Sends[i].to] : e[1] = i

\* A group packet is told once to members, under the name of its channel.
GroupOnce ==
  \A n \in Node : \A e \in DOMAIN told[n] :
    Sends[e[1]].kind = "grp" =>
      /\ e[2] = Sends[e[1]].to /\ told[n][e] = 1
      /\ \E k \in DOMAIN Channels[n] : Channels[n][k] = e[2]

\* The extra copies do not multiply along the route: however many copies of an
\* acknowledgement reach a relay, it transmits the extra ones and the plain one
\* at most twice, once for the plain copies and once for the MULTIPART ones.
AckBudget == \A n \in Node : \A i \in DOMAIN Sends : acks[n][i] <= 2 * (ExtraAcks + 1)

\* Lost acknowledgements a text can spare: one when the addressee has a route
\* back, along which extra copies are sent, else none
Spare(i) == IF ExtraAcks > 0 /\ Routes[Sends[i].to][Sends[i].from] # Unknown THEN 1 ELSE 0

\* The extra copies are worth their airtime: a text that reaches its addressee
\* is acknowledged even if one of the copies is lost anywhere on the way back.
AckSurvives ==
  \A i \in DOMAIN Sends : Sends[i].kind = "txt" => <>(i \in credited \/ lost > 0 \/ lostAcks > Spare(i))

\* A group packet reaches every chat member, past other members and in spite of
\* channels with the same hash, unless a copy is lost.
GroupReaches ==
  <>(lost > 0 \/ \A i \in DOMAIN Sends : Sends[i].kind = "grp" =>
       \A n \in Node \ (Repeaters \cup {Sends[i].from}) :
         (\E k \in DOMAIN Channels[n] : Channels[n][k] = Sends[i].to)
           => <<i, Sends[i].to>> \in DOMAIN told[n])

=============================================================================
