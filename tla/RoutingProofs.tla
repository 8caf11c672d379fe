--------------------------- MODULE RoutingProofs ---------------------------
(***************************************************************************)
(* Proofs about Routing, for every network: what an acknowledgement says,  *)
(* what the seen-table guarantees until it is full, and that routes lead   *)
(* where they are meant to.                                                *)
(***************************************************************************)
EXTENDS Routing, TLAPS, FiniteSetTheorems

Path == Seq({Hash[n] : n \in Node})

PacketRecord ==
  [id : Nat, kind : {"txt", "path", "ack", "advert"}, src : Node, dst : Node,
   flood : BOOLEAN, path : Path, route : Path, ack : Nat]
CopyRecord == [pkt : PacketRecord, to : Node, from : Node]

RoutesOK == \A n, m \in Node : routes[n][m] # Unknown => routes[n][m] \in Path

TypeInv ==
  /\ seen \in [Node -> Seq(Nat)]
  /\ air \subseteq CopyRecord
  /\ routes = [n \in Node |-> [m \in Node |-> routes[n][m]]] /\ RoutesOK
  /\ lastId \in Nat
  /\ sends \subseteq [id : Nat \ {None}, from : Node, to : Node]
  /\ DOMAIN delivered \subseteq Nat /\ delivered \in [DOMAIN delivered -> Nat]

---------------------------------------------------------------------------
(* Packets.                                                                *)

\* The empty path.
LEMMA EmptyPath == <<>> \in Path /\ Len(<<>>) = 0
BY DEF Path

\* A fresh packet is a packet.
LEMMA PacketType ==
  ASSUME NEW id \in Nat, NEW kind \in {"txt", "path", "ack", "advert"},
         NEW from \in Node, NEW to \in Node
  PROVE  Packet(id, kind, from, to) \in PacketRecord
BY EmptyPath DEF Packet, PacketRecord, None

\* So are an acknowledgement and a PATH.
LEMMA AckPacketType ==
  ASSUME NEW id \in Nat, NEW n \in Node, NEW to \in Node, NEW m \in Nat,
         NEW q, q = AckPacket(id, n, to, m)
  PROVE  q \in PacketRecord /\ q.id = id /\ q.kind = "ack" /\ q.src = n /\ q.dst = to /\ q.ack = m
<1> DEFINE p == Packet(id, "ack", n, to)
<1>1. p \in PacketRecord /\ p.id = id /\ p.kind = "ack" /\ p.src = n /\ p.dst = to
  BY PacketType DEF Packet
<1>2. q = [p EXCEPT !.ack = m]
  BY DEF AckPacket
<1> HIDE DEF p
<1> QED
  BY <1>1, <1>2 DEF PacketRecord

\* A PATH packet has the type of a packet and carries the route and the acknowledgement
\* it was made with (create_path_return).
LEMMA PathPacketType ==
  ASSUME NEW id \in Nat, NEW n \in Node, NEW to \in Node, NEW route \in Path, NEW m \in Nat,
         NEW q, q = PathPacket(id, n, to, route, m)
  PROVE  /\ q \in PacketRecord /\ q.id = id /\ q.kind = "path" /\ q.src = n /\ q.dst = to
         /\ q.route = route /\ q.ack = m
<1> DEFINE p == Packet(id, "path", n, to)
<1>1. p \in PacketRecord /\ p.id = id /\ p.kind = "path" /\ p.src = n /\ p.dst = to
  BY PacketType DEF Packet
<1>2. q = [p EXCEPT !.route = route, !.ack = m]
  BY DEF PathPacket
<1> HIDE DEF p
<1> QED
  BY <1>1, <1>2 DEF PacketRecord

\* So is what a sender makes of one; only its path and the kind of routing change.
LEMMA FloodType ==
  ASSUME NEW p \in PacketRecord, NEW q, q = SendFlood(p)
  PROVE  /\ q \in PacketRecord /\ q.flood /\ q.path = <<>>
         /\ q.id = p.id /\ q.kind = p.kind /\ q.src = p.src /\ q.dst = p.dst
         /\ q.route = p.route /\ q.ack = p.ack
BY EmptyPath DEF SendFlood, PacketRecord

\* So is a packet sent along a source route (send_direct): nothing but flood and path change.
LEMMA DirectType ==
  ASSUME NEW p \in PacketRecord, NEW path \in Path, NEW q, q = SendDirect(p, path)
  PROVE  /\ q \in PacketRecord /\ ~q.flood /\ q.path = path
         /\ q.id = p.id /\ q.kind = p.kind /\ q.src = p.src /\ q.dst = p.dst
         /\ q.route = p.route /\ q.ack = p.ack
BY DEF SendDirect, PacketRecord

\* And so is what is sent along the host's route, or flooded if it has none.
LEMMA SentTo ==
  ASSUME NEW p \in PacketRecord, NEW r, r # Unknown => r \in Path, NEW q, q = SendTo(p, r)
  PROVE  /\ q \in PacketRecord
         /\ q.id = p.id /\ q.kind = p.kind /\ q.src = p.src /\ q.dst = p.dst
         /\ q.route = p.route /\ q.ack = p.ack
         /\ \/ q.flood /\ q.path = <<>>
            \/ ~q.flood /\ r # Unknown /\ q.path = r
<1>1. CASE r = Unknown
  <2>1. q = SendFlood(p)
    BY <1>1 DEF SendTo
  <2> QED
    BY <2>1, FloodType
<1>2. CASE r # Unknown
  <2>1. r \in Path
    BY <1>2
  <2>2. q = SendDirect(p, r)
    BY <1>2 DEF SendTo
  <2> QED
    BY <2>1, <2>2, <1>2, DirectType
<1> QED
  BY <1>1, <1>2

\* What a relay transmits: the packet with its own hash at the end of the path.
LEMMA RelayedFlood ==
  ASSUME NEW n \in Node, NEW p \in PacketRecord, NEW q \in RouteRecv(n, p)
  PROVE  /\ RouteRecv(n, p) = {q} /\ p.flood /\ n \in Repeaters
         /\ q = [p EXCEPT !.path = Append(p.path, Hash[n])]
         /\ q \in PacketRecord
<1>1. p.path \in Path /\ Hash[n] \in {Hash[x] : x \in Node}
  BY DEF PacketRecord
<1>2. Append(p.path, Hash[n]) \in Path
  BY <1>1 DEF Path
<1> QED
  BY <1>2 DEF RouteRecv, AllowForward, PacketRecord

\* A packet that is carried along its path loses the first hop.
LEMMA RemoveSelfType ==
  ASSUME NEW p \in PacketRecord, EnRoute(p)
  PROVE  /\ RemoveSelf(p) \in PacketRecord
         /\ RemoveSelf(p) = [p EXCEPT !.path = Tail(p.path)]
<1>1. p.path \in Path /\ p.path # <<>>
  BY DEF PacketRecord, EnRoute
<1>2. Tail(p.path) \in Path
  BY <1>1 DEF Path
<1> QED
  BY <1>2 DEF RemoveSelf, PacketRecord

\* What node n sends back to a packet p, as far as routes are concerned: a flood,
\* which if it is a PATH returns the path p was flooded along; an acknowledgement
\* along the host's route; or a PATH along the route that p returned.
AnswerTo(n, p, q) ==
  \/ q.flood /\ q.path = <<>> /\ q.src = n
       /\ (q.kind = "path" => p.flood /\ q.route = p.path /\ q.dst = p.src)
  \/ ~q.flood /\ q.kind = "ack" /\ q.dst = p.src
       /\ routes[n][p.src] # Unknown /\ q.path = routes[n][p.src]
  \/ ~q.flood /\ q.kind = "path" /\ q.src = n /\ q.dst = p.src /\ q.path = p.route
       /\ q.route = p.path /\ p.kind = "path" /\ p.flood /\ p.dst = n

\* What an addressee sends back to a text.
LEMMA AcknowledgeType ==
  ASSUME TypeInv, NEW n \in Node, NEW p \in PacketRecord, NEW id \in Nat,
         NEW q, q = Acknowledge(n, p, id)
  PROVE  /\ q \in PacketRecord /\ q.id = id /\ q.kind \in {"ack", "path"} /\ q.ack = p.id
         /\ AnswerTo(n, p, q)
<1>0. p.src \in Node /\ p.path \in Path /\ p.id \in Nat /\ p.flood \in BOOLEAN
  BY DEF PacketRecord
<1>1. CASE p.flood
  <2> DEFINE r == PathPacket(id, n, p.src, p.path, p.id)
  <2>1. /\ r \in PacketRecord /\ r.id = id /\ r.kind = "path" /\ r.ack = p.id
        /\ r.src = n /\ r.dst = p.src /\ r.route = p.path
    BY <1>0, PathPacketType
  <2>2. q = SendFlood(r)
    BY <1>1 DEF Acknowledge
  <2> HIDE DEF r
  <2>3. /\ q \in PacketRecord /\ q.id = id /\ q.kind = "path" /\ q.ack = p.id
        /\ q.src = n /\ q.dst = p.src /\ q.route = p.path /\ q.flood /\ q.path = <<>>
    BY <2>1, <2>2, FloodType
  <2> QED
    BY <1>1, <2>3 DEF AnswerTo
<1>2. CASE ~p.flood
  <2> DEFINE a == AckPacket(id, n, p.src, p.id)
             r == routes[n][p.src]
  <2>1. /\ a \in PacketRecord /\ a.id = id /\ a.kind = "ack" /\ a.ack = p.id
        /\ a.src = n /\ a.dst = p.src
    BY <1>0, AckPacketType
  <2>2. q = SendTo(a, r)
    BY <1>2 DEF Acknowledge
  <2>3. r # Unknown => r \in Path
    BY <1>0 DEF TypeInv, RoutesOK
  <2> HIDE DEF a, r
  <2>4. /\ q \in PacketRecord /\ q.id = id /\ q.kind = "ack" /\ q.ack = p.id
        /\ q.src = n /\ q.dst = p.src
        /\ \/ q.flood /\ q.path = <<>>
           \/ ~q.flood /\ r # Unknown /\ q.path = r
    BY <2>1, <2>2, <2>3, SentTo
  <2> QED
    BY <2>4 DEF AnswerTo, r
<1> QED
  BY <1>1, <1>2

\* What answers a flooded PATH.
LEMMA ReturnPathType ==
  ASSUME NEW n \in Node, NEW p \in PacketRecord, p.kind = "path", p.dst = n, p.flood,
         NEW id \in Nat, NEW q, q = ReturnPath(n, p, id)
  PROVE  /\ q \in PacketRecord /\ q.id = id /\ q.kind = "path" /\ q.ack = None
         /\ AnswerTo(n, p, q)
<1>0. p.src \in Node /\ p.path \in Path /\ p.route \in Path
  BY DEF PacketRecord
<1> DEFINE r == PathPacket(id, n, p.src, p.path, None)
<1>1. /\ r \in PacketRecord /\ r.id = id /\ r.kind = "path" /\ r.ack = None
      /\ r.src = n /\ r.dst = p.src /\ r.route = p.path
  BY <1>0, PathPacketType DEF None
<1>2. q = SendDirect(r, p.route)
  BY DEF ReturnPath
<1> HIDE DEF r
<1>3. /\ q \in PacketRecord /\ q.id = id /\ q.kind = "path" /\ q.ack = None
      /\ q.src = n /\ q.dst = p.src /\ q.route = p.path /\ ~q.flood /\ q.path = p.route
  BY <1>0, <1>1, <1>2, DirectType
<1> QED
  BY <1>3 DEF AnswerTo

\* What a message leaves its sender as: a flood, or along the host's route.
LEMMA MessageType ==
  ASSUME TypeInv, NEW n \in Node, NEW m \in Node, NEW id \in Nat,
         NEW p, p = SendTo(Packet(id, "txt", n, m), routes[n][m])
  PROVE  /\ p \in PacketRecord /\ p.id = id /\ p.kind = "txt" /\ p.src = n /\ p.dst = m
         /\ p.ack = None
         /\ \/ p.flood /\ p.path = <<>>
            \/ ~p.flood /\ routes[n][m] # Unknown /\ p.path = routes[n][m]
<1> DEFINE q == Packet(id, "txt", n, m)
           r == routes[n][m]
<1>1. q \in PacketRecord /\ q.id = id /\ q.kind = "txt" /\ q.src = n /\ q.dst = m /\ q.ack = None
  BY PacketType DEF Packet
<1>2. r # Unknown => r \in Path
  BY DEF TypeInv, RoutesOK
<1> HIDE DEF q, r
<1>3. p = SendTo(q, r)
  BY DEF q, r
<1>4. /\ p \in PacketRecord /\ p.id = id /\ p.kind = "txt" /\ p.src = n /\ p.dst = m
      /\ p.ack = None
      /\ \/ p.flood /\ p.path = <<>>
         \/ ~p.flood /\ r # Unknown /\ p.path = r
  BY <1>1, <1>2, <1>3, SentTo
<1> QED
  BY <1>4 DEF r

\* And an advert.
LEMMA AdvertType ==
  ASSUME NEW n \in Node, NEW id \in Nat, NEW p, p = SendFlood(AdvertPacket(id, n))
  PROVE  /\ p \in PacketRecord /\ p.id = id /\ p.kind = "advert" /\ p.src = n
         /\ p.ack = None /\ p.flood /\ p.path = <<>>
<1> DEFINE q == Packet(id, "advert", n, n)
<1>1. q \in PacketRecord /\ q.id = id /\ q.kind = "advert" /\ q.src = n /\ q.ack = None
  BY PacketType DEF Packet
<1>2. p = SendFlood(q)
  BY DEF AdvertPacket
<1> HIDE DEF q
<1> QED
  BY <1>1, <1>2, FloodType

---------------------------------------------------------------------------
(* The air.                                                                *)

\* What a node transmits reaches the nodes in range.
LEMMA CopiesAre ==
  ASSUME NEW n \in Node, NEW tx \in SUBSET PacketRecord, NEW c \in Copies(n, tx)
  PROVE  /\ c \in CopyRecord /\ c.pkt \in tx /\ c.from = n
         /\ c.to \in InRange(n)
<1>1. PICK p \in tx, m \in InRange(n) : c = [pkt |-> p, to |-> m, from |-> n]
  BY DEF Copies
<1>2. m \in Node /\ p \in PacketRecord
  BY DEF InRange
<1> QED
  BY <1>1, <1>2 DEF CopyRecord

\* After a transmission the air holds copies it held, and those of what was sent.
LEMMA TransmitIs ==
  ASSUME air \subseteq CopyRecord, NEW c \in air, NEW tx \in SUBSET PacketRecord, Transmit(c, tx)
  PROVE  /\ air' \subseteq CopyRecord
         /\ \A k \in air' : k \in air \/ (k.pkt \in tx /\ k.from = c.to /\ k.to \in InRange(c.to))
<1>1. c.to \in Node
  BY DEF CopyRecord
<1>2. \A k \in air' : k \in air \/ k \in Copies(c.to, tx)
  BY DEF Transmit
<1>3. ASSUME NEW k \in Copies(c.to, tx)
      PROVE  k \in CopyRecord /\ k.pkt \in tx /\ k.from = c.to /\ k.to \in InRange(c.to)
  BY <1>1, <1>3, CopiesAre
<1> QED
  BY <1>2, <1>3

\* What a node carries on of packet p: a flood with the node's hash at the end of
\* its path, or a source-routed packet without the hop that is the node.
Carried(n, p, q) ==
  /\ q.id = p.id /\ q.kind = p.kind /\ q.src = p.src /\ q.dst = p.dst
  /\ q.route = p.route /\ q.ack = p.ack /\ q.flood = p.flood /\ n \in Repeaters
  /\ \/ p.flood /\ q.path = Append(p.path, Hash[n])
     \/ EnRoute(p) /\ Hash[n] = Head(p.path) /\ q.path = Tail(p.path)

\* What a node originates in answer to p has a new serial number; it acknowledges
\* nothing, or p, a text, which the host is being told.
Answers(n, p, q) ==
  /\ q.id = lastId + 1 /\ lastId' = lastId + 1 /\ q.kind \in {"ack", "path"}
  /\ q.ack # None => /\ q.ack = p.id /\ p.kind = "txt"
                     /\ delivered' = [delivered EXCEPT ![p.id] = @ + 1]
  /\ AnswerTo(n, p, q)

\* A relay carries a flood on.
LEMMA CarriedFlood ==
  ASSUME NEW n \in Node, NEW p \in PacketRecord, NEW q \in RouteRecv(n, p)
  PROVE  q \in PacketRecord /\ Carried(n, p, q)
<1>1. /\ p.flood /\ n \in Repeaters /\ q = [p EXCEPT !.path = Append(p.path, Hash[n])]
      /\ q \in PacketRecord
  BY RelayedFlood
<1>2. /\ q.id = p.id /\ q.kind = p.kind /\ q.src = p.src /\ q.dst = p.dst
      /\ q.route = p.route /\ q.ack = p.ack /\ q.flood = p.flood
      /\ q.path = Append(p.path, Hash[n])
  BY <1>1 DEF PacketRecord
<1> QED
  BY <1>1, <1>2 DEF Carried

\* And a source-routed packet.
LEMMA CarriedDirect ==
  ASSUME NEW n \in Node, NEW p \in PacketRecord, EnRoute(p), Hash[n] = Head(p.path),
         AllowForward(n, p), NEW q, q = RemoveSelf(p)
  PROVE  q \in PacketRecord /\ Carried(n, p, q)
<1>1. q \in PacketRecord /\ q = [p EXCEPT !.path = Tail(p.path)] /\ n \in Repeaters
  BY RemoveSelfType DEF AllowForward
<1>2. /\ q.id = p.id /\ q.kind = p.kind /\ q.src = p.src /\ q.dst = p.dst
      /\ q.route = p.route /\ q.ack = p.ack /\ q.flood = p.flood
      /\ q.path = Tail(p.path)
  BY <1>1 DEF PacketRecord
<1> QED
  BY <1>1, <1>2 DEF Carried

\* So a node that a copy reaches transmits what it carries on, or an answer.
Received(c, tx) ==
  /\ tx \in SUBSET PacketRecord /\ Transmit(c, tx)
  /\ \A q \in tx : Carried(c.to, c.pkt, q) \/ Answers(c.to, c.pkt, q)

\* Whatever a copy meets at its receiver, what is transmitted then carries the copy's
\* content on or answers it.
LEMMA ArrivalIs ==
  ASSUME TypeInv, NEW c \in air, Arrive(c)
  PROVE  \E tx : Received(c, tx)
<1> DEFINE n == c.to
           p == c.pkt
<1>0. n \in Node /\ p \in PacketRecord /\ lastId + 1 \in Nat /\ p.flood \in BOOLEAN
  BY DEF TypeInv, CopyRecord, PacketRecord
<1>1. CASE Forward(c)
  <2> DEFINE next == Hash[n] = Head(p.path) /\ AllowForward(n, p)
             tx == IF next /\ ~HasSeen(n, p.id) THEN {RemoveSelf(p)} ELSE {}
  <2>1. EnRoute(p) /\ Transmit(c, tx)
    BY <1>1 DEF Forward
  <2>2. ASSUME NEW q \in tx PROVE q \in PacketRecord /\ Carried(n, p, q)
    BY <1>0, <2>1, <2>2, CarriedDirect
  <2> HIDE DEF tx
  <2> QED
    BY <2>1, <2>2 DEF Received
<1>2. CASE Duplicate(c)
  <2>1. Transmit(c, {})
    BY <1>2 DEF Duplicate, Transmit, Copies
  <2> QED
    BY <2>1 DEF Received
<1>3. CASE PassOn(c) \/ HearAdvert(c)
  <2>1. Transmit(c, RouteRecv(n, p))
    BY <1>3 DEF PassOn, HearAdvert
  <2>2. \A q \in RouteRecv(n, p) : q \in PacketRecord /\ Carried(n, p, q)
    BY <1>0, CarriedFlood
  <2> QED
    BY <2>1, <2>2 DEF Received
<1>4. CASE ReceiveText(c)
  <2> DEFINE q == Acknowledge(n, p, lastId + 1)
  <2>1. /\ Transmit(c, {q}) /\ lastId' = lastId + 1 /\ p.kind = "txt"
        /\ delivered' = [delivered EXCEPT ![p.id] = @ + 1]
    BY <1>4 DEF ReceiveText, Deliver
  <2>2. /\ q \in PacketRecord /\ q.id = lastId + 1 /\ q.kind \in {"ack", "path"} /\ q.ack = p.id
        /\ AnswerTo(n, p, q)
    BY <1>0, AcknowledgeType
  <2> HIDE DEF q, n, p
  <2>3. Answers(n, p, q)
    BY <2>1, <2>2 DEF Answers
  <2> QED
    BY <2>1, <2>2, <2>3 DEF Received, n, p
<1>5. CASE ReceivePath(c) /\ p.flood
  <2> DEFINE q == ReturnPath(n, p, lastId + 1)
  <2>1. Transmit(c, {q}) /\ lastId' = lastId + Cardinality({q}) /\ p.kind = "path" /\ p.dst = n
    BY <1>5 DEF ReceivePath
  <2>2. /\ q \in PacketRecord /\ q.id = lastId + 1 /\ q.kind = "path" /\ q.ack = None
        /\ AnswerTo(n, p, q)
    BY <1>0, <1>5, <2>1, ReturnPathType
  <2> HIDE DEF q, n, p
  <2>3. Cardinality({q}) = 1
    BY FS_Singleton
  <2>4. Answers(n, p, q)
    BY <2>1, <2>2, <2>3 DEF Answers
  <2> QED
    BY <2>1, <2>2, <2>4 DEF Received, n, p
<1>6. CASE ReceivePath(c) /\ ~p.flood
  <2>1. Transmit(c, {})
    BY <1>6 DEF ReceivePath
  <2> QED
    BY <2>1 DEF Received
<1> QED
  BY <1>0, <1>1, <1>2, <1>3, <1>4, <1>5, <1>6 DEF Arrive

---------------------------------------------------------------------------
(* The seen-table: until it is full it forgets nothing.                    *)

Holds(ring, id) == \E i \in DOMAIN ring : ring[i] = id

\* What has become of ring r: unless s is full, r was not, and is in it.
Kept(r, s) ==
  Len(s) < TableSize => Len(r) < TableSize /\ \A id : Holds(r, id) => Holds(s, id)

\* Remember keeps what a table that is not full holds, and adds the payload.
LEMMA RememberKeeps ==
  ASSUME NEW r \in Seq(Nat), NEW id \in Nat, NEW s, s = Remember(r, id)
  PROVE  /\ s \in Seq(Nat) /\ Kept(r, s)
         /\ Len(s) < TableSize => Holds(s, id)
<1>0. TableSize \in Nat \ {0}
  BY RoutingAssumption
<1>1. CASE Len(r) < TableSize
  <2>1. s = Append(r, id)
    BY <1>1 DEF Remember
  <2>2. /\ s \in Seq(Nat) /\ Len(s) = Len(r) + 1
        /\ \A i \in 1 .. Len(r) : s[i] = r[i]
        /\ s[Len(r) + 1] = id
    BY <2>1
  <2>3. Holds(s, id) /\ \A k : Holds(r, k) => Holds(s, k)
    BY <2>2 DEF Holds
  <2> QED
    BY <1>1, <2>2, <2>3 DEF Kept
<1>2. CASE ~(Len(r) < TableSize)
  <2>1. r # <<>>
    BY <1>0, <1>2
  <2>2. s = Append(Tail(r), id)
    BY <1>2 DEF Remember
  <2>3. s \in Seq(Nat) /\ Len(s) = Len(r)
    BY <2>1, <2>2
  <2> QED
    BY <1>0, <1>2, <2>3 DEF Kept
<1> QED
  BY <1>1, <1>2

\* So does the lookup that remembers a new payload.
LEMMA RememberedKeeps ==
  ASSUME NEW r \in Seq(Nat), NEW id \in Nat, NEW s, s = Remembered(r, id)
  PROVE  /\ s \in Seq(Nat) /\ Kept(r, s)
         /\ Len(s) < TableSize => Holds(s, id)
<1>1. CASE Holds(r, id)
  <2>1. s = r
    BY <1>1 DEF Holds, Remembered
  <2> QED
    BY <1>1, <2>1 DEF Kept
<1>2. CASE ~Holds(r, id)
  <2>1. s = Remember(r, id)
    BY <1>2 DEF Holds, Remembered
  <2> QED
    BY <2>1, RememberKeeps
<1> QED
  BY <1>1, <1>2

\* And the tables of all nodes when one of them has looked a packet up.
LEMMA MarkSeenKeeps ==
  ASSUME seen \in [Node -> Seq(Nat)], NEW n \in Node, NEW p \in PacketRecord,
         NEW own, own = {} \/ \E q \in PacketRecord : own = {q}, MarkSeen(n, p, own)
  PROVE  /\ seen' \in [Node -> Seq(Nat)]
         /\ \A m \in Node : Kept(seen[m], seen'[m])
         /\ Len(seen'[n]) < TableSize => Holds(seen'[n], p.id)
<1> DEFINE r == Remembered(seen[n], p.id)
           s == IF own = {} THEN r ELSE Remember(r, (CHOOSE q \in own : TRUE).id)
<1>1. seen' = [seen EXCEPT ![n] = s]
  BY DEF MarkSeen
<1>2. p.id \in Nat /\ seen[n] \in Seq(Nat)
  BY DEF PacketRecord
<1>3. /\ r \in Seq(Nat) /\ Kept(seen[n], r)
      /\ Len(r) < TableSize => Holds(r, p.id)
  BY <1>2, RememberedKeeps
<1> HIDE DEF r
<1>4. /\ s \in Seq(Nat) /\ Kept(seen[n], s)
      /\ Len(s) < TableSize => Holds(s, p.id)
  <2>1. CASE own = {}
    BY <1>3, <2>1
  <2>2. ASSUME NEW q \in PacketRecord, own = {q}
        PROVE  /\ s \in Seq(Nat) /\ Kept(seen[n], s)
               /\ Len(s) < TableSize => Holds(s, p.id)
    <3>1. s = Remember(r, q.id) /\ q.id \in Nat
      BY <2>2 DEF PacketRecord
    <3>2. s \in Seq(Nat) /\ Kept(r, s)
      BY <1>3, <3>1, RememberKeeps
    <3> HIDE DEF s
    <3> QED
      BY <1>3, <3>2 DEF Kept
  <2> QED
    BY <2>1, <2>2
<1> HIDE DEF s
<1>5. seen' \in [Node -> Seq(Nat)] /\ seen'[n] = s /\ \A m \in Node \ {n} : seen'[m] = seen[m]
  BY <1>1, <1>4
<1>6. \A m \in Node : Kept(seen[m], seen[m])
  BY DEF Kept
<1> QED
  BY <1>4, <1>5, <1>6

\* Every step keeps the tables in this sense.
LEMMA SeenKept ==
  ASSUME TypeInv, [Next]_vars
  PROVE  seen' \in [Node -> Seq(Nat)] /\ \A m \in Node : Kept(seen[m], seen'[m])
<1>0. seen \in [Node -> Seq(Nat)] /\ lastId + 1 \in Nat /\ \A m \in Node : Kept(seen[m], seen[m])
  BY DEF TypeInv, Kept
<1>1. ASSUME NEW n \in Node, seen' = [seen EXCEPT ![n] = Remember(@, lastId + 1)]
      PROVE  seen' \in [Node -> Seq(Nat)] /\ \A m \in Node : Kept(seen[m], seen'[m])
  <2> DEFINE s == Remember(seen[n], lastId + 1)
  <2>1. s \in Seq(Nat) /\ Kept(seen[n], s)
    BY <1>0, RememberKeeps
  <2>2. seen' = [seen EXCEPT ![n] = s]
    BY <1>1
  <2> HIDE DEF s
  <2> QED
    BY <1>0, <2>1, <2>2
<1>2. ASSUME NEW c \in air, Arrive(c)
      PROVE  seen' \in [Node -> Seq(Nat)] /\ \A m \in Node : Kept(seen[m], seen'[m])
  <2>0. c.to \in Node /\ c.pkt \in PacketRecord
    BY DEF TypeInv, CopyRecord
  <2>1. \/ UNCHANGED seen \/ MarkSeen(c.to, c.pkt, {})
        \/ \E q \in PacketRecord : MarkSeen(c.to, c.pkt, {q})
    <3>1. CASE ReceiveText(c)
      <4>1. Acknowledge(c.to, c.pkt, lastId + 1) \in PacketRecord
        BY <1>0, <2>0, AcknowledgeType
      <4> QED
        BY <3>1, <4>1 DEF ReceiveText
    <3>2. CASE ReceivePath(c)
      <4>1. c.pkt.flood => ReturnPath(c.to, c.pkt, lastId + 1) \in PacketRecord
        BY <3>2, <1>0, <2>0, ReturnPathType DEF ReceivePath
      <4> QED
        BY <3>2, <4>1 DEF ReceivePath
    <3>3. CASE Forward(c) \/ Duplicate(c) \/ PassOn(c) \/ HearAdvert(c)
      BY <3>3 DEF Forward, Duplicate, PassOn, HearAdvert
    <3> QED
      BY <1>2, <3>1, <3>2, <3>3 DEF Arrive
  <2>2. ASSUME NEW q \in PacketRecord, MarkSeen(c.to, c.pkt, {q})
        PROVE  seen' \in [Node -> Seq(Nat)] /\ \A m \in Node : Kept(seen[m], seen'[m])
    BY <1>0, <2>0, <2>2, MarkSeenKeeps
  <2>3. CASE MarkSeen(c.to, c.pkt, {})
    BY <1>0, <2>0, <2>3, MarkSeenKeeps
  <2> QED
    BY <1>0, <2>1, <2>2, <2>3
<1>3. CASE \E pair \in Pairs : SendMessage(pair[1], pair[2])
  <2>1. PICK pair \in Pairs : SendMessage(pair[1], pair[2])
    BY <1>3
  <2>2. pair[1] \in Node
    BY RoutingAssumption DEF Chats
  <2> QED
    BY <1>1, <2>1, <2>2 DEF SendMessage, Originate
<1>4. CASE \E n \in Adverts : SendAdvert(n)
  <2>1. PICK n \in Adverts : SendAdvert(n)
    BY <1>4
  <2>2. n \in Node
    BY RoutingAssumption DEF Chats
  <2> QED
    BY <1>1, <2>1, <2>2 DEF SendAdvert, Originate
<1>5. CASE UNCHANGED vars \/ \E c \in air : Lose(c)
  BY <1>0, <1>5 DEF vars, Lose
<1> QED
  BY <1>2, <1>3, <1>4, <1>5 DEF Next, Arrive

---------------------------------------------------------------------------
(* The types, and what numbers stand for.                                  *)

\* Every payload has a number of its own; a text is one of the hosts' messages;
\* an acknowledgement on the air is of a message that was delivered.
Numbered ==
  /\ \A c \in air : c.pkt.id \in 1 .. lastId
  /\ \A s \in sends : s.id \in 1 .. lastId
  /\ \A s, t \in sends : s.id = t.id => s = t
  /\ \A i \in DOMAIN delivered : \E s \in sends : s.id = i
Texts ==
  \A c \in air : c.pkt.kind = "txt" =>
    /\ c.pkt.id \in DOMAIN delivered
    /\ \E s \in sends : s.id = c.pkt.id /\ s.to = c.pkt.dst
Acks ==
  \A c \in air : c.pkt.ack # None =>
    c.pkt.ack \in DOMAIN delivered /\ delivered[c.pkt.ack] > 0

BaseInv == TypeInv /\ Numbered /\ Texts /\ Acks /\ AckedMeansDelivered

\* The numbers go up, and what was sent and delivered stays so.
Progress ==
  /\ lastId' \in Nat /\ lastId <= lastId'
  /\ sends \subseteq sends'
  /\ DOMAIN delivered' \subseteq Nat /\ delivered' \in [DOMAIN delivered' -> Nat]
  /\ \A i \in DOMAIN delivered : i \in DOMAIN delivered' /\ delivered'[i] >= delivered[i]

\* A packet that agrees with the counters.
GoodPacket(p) ==
  /\ p.id \in 1 .. lastId
  /\ p.kind = "txt" => /\ p.id \in DOMAIN delivered
                       /\ \E s \in sends : s.id = p.id /\ s.to = p.dst
  /\ p.ack # None => p.ack \in DOMAIN delivered /\ delivered[p.ack] > 0

\* It goes on doing so.
LEMMA GoodKept ==
  ASSUME TypeInv, Progress, NEW p, GoodPacket(p)
  PROVE  GoodPacket(p)'
<1>1. lastId \in Nat /\ delivered \in [DOMAIN delivered -> Nat]
  BY DEF TypeInv
<1>2. p.id \in 1 .. lastId'
  BY <1>1 DEF Progress, GoodPacket
<1>3. p.ack # None => p.ack \in DOMAIN delivered' /\ delivered'[p.ack] > 0
  <2> SUFFICES ASSUME p.ack # None PROVE p.ack \in DOMAIN delivered' /\ delivered'[p.ack] > 0
    OBVIOUS
  <2>1. /\ p.ack \in DOMAIN delivered /\ delivered[p.ack] > 0 /\ delivered[p.ack] \in Nat
        /\ p.ack \in DOMAIN delivered' /\ delivered'[p.ack] >= delivered[p.ack]
        /\ delivered'[p.ack] \in Nat
    BY <1>1 DEF Progress, GoodPacket
  <2> QED
    BY <2>1
<1> QED
  BY <1>2, <1>3 DEF Progress, GoodPacket

\* A text is delivered.
LEMMA DeliverProgress ==
  ASSUME TypeInv, Texts, NEW c \in air, c.pkt.kind = "txt", Deliver(c.pkt.id)
  PROVE  /\ DOMAIN delivered' = DOMAIN delivered
         /\ delivered' \in [DOMAIN delivered' -> Nat]
         /\ \A i \in DOMAIN delivered : delivered'[i] >= delivered[i]
         /\ c.pkt.id \in DOMAIN delivered /\ delivered'[c.pkt.id] = delivered[c.pkt.id] + 1
         /\ \A i \in DOMAIN delivered \ {c.pkt.id} : delivered'[i] = delivered[i]
<1> DEFINE D == DOMAIN delivered
           j == c.pkt.id
<1>1. delivered \in [D -> Nat] /\ j \in D
  BY DEF TypeInv, Texts
<1>2. delivered' = [delivered EXCEPT ![j] = delivered[j] + 1]
  BY DEF Deliver
<1> HIDE DEF D, j
<1>3. /\ DOMAIN delivered' = D /\ delivered' \in [D -> Nat] /\ delivered'[j] = delivered[j] + 1
      /\ \A i \in D \ {j} : delivered'[i] = delivered[i]
  BY <1>1, <1>2
<1>4. \A i \in D : delivered'[i] >= delivered[i]
  <2> TAKE i \in D
  <2>1. delivered[i] \in Nat /\ delivered'[i] \in {delivered[i], delivered[i] + 1}
    BY <1>1, <1>3
  <2> QED
    BY <2>1
<1> QED
  BY <1>1, <1>3, <1>4 DEF D, j

\* The counters when a copy arrives.
LEMMA ArrivalProgress ==
  ASSUME TypeInv, Texts, NEW c \in air, Arrive(c)
  PROVE  Progress /\ sends' = sends /\ DOMAIN delivered' = DOMAIN delivered
<1>0. /\ lastId \in Nat /\ DOMAIN delivered \subseteq Nat /\ delivered \in [DOMAIN delivered -> Nat]
      /\ \A i \in DOMAIN delivered : delivered[i] \in Nat
  BY DEF TypeInv
<1>1. CASE ReceiveText(c)
  BY <1>0, <1>1, DeliverProgress DEF ReceiveText, Progress
<1>2. CASE ReceivePath(c)
  <2> DEFINE r == ReturnPath(c.to, c.pkt, lastId + 1)
  <2>1. Cardinality({r}) = 1 /\ Cardinality({}) = 0
    BY FS_Singleton, FS_EmptySet
  <2>a. lastId' = lastId + Cardinality(IF c.pkt.flood THEN {r} ELSE {})
        /\ UNCHANGED <<sends, delivered>>
    BY <1>2 DEF ReceivePath
  <2> HIDE DEF r
  <2>2. lastId' \in {lastId, lastId + 1} /\ UNCHANGED <<sends, delivered>>
    BY <2>1, <2>a, <1>0
  <2> QED
    BY <1>0, <2>2 DEF Progress
<1>3. CASE Forward(c) \/ Duplicate(c) \/ PassOn(c) \/ HearAdvert(c)
  <2>1. UNCHANGED <<lastId, sends, delivered>>
    BY <1>3 DEF Forward, Duplicate, PassOn, HearAdvert
  <2> QED
    BY <1>0, <2>1 DEF Progress
<1> QED
  BY <1>1, <1>2, <1>3 DEF Arrive

\* What a host originates.
LEMMA OriginateIs ==
  ASSUME TypeInv, NEW n \in Node, NEW m \in Node, NEW p \in PacketRecord, Originate(n, m, p)
  PROVE  /\ lastId' = lastId + 1 /\ lastId + 1 \in Nat
         /\ sends' = sends \cup {[id |-> lastId + 1, from |-> n, to |-> m]}
         /\ sends' \subseteq [id : Nat \ {None}, from : Node, to : Node]
         /\ air' \subseteq CopyRecord
         /\ \A k \in air' : k \in air \/ (k.pkt = p /\ k.from = n /\ k.to \in InRange(n))
<1>1. lastId' = lastId + 1 /\ lastId + 1 \in Nat \ {None}
  BY DEF TypeInv, Originate, None
<1>2. /\ sends' = sends \cup {[id |-> lastId + 1, from |-> n, to |-> m]}
      /\ sends' \subseteq [id : Nat \ {None}, from : Node, to : Node]
  BY <1>1 DEF TypeInv, Originate
<1>3. \A k \in air' : k \in air \/ k \in Copies(n, {p})
  BY DEF Originate
<1>4. ASSUME NEW k \in Copies(n, {p})
      PROVE  k \in CopyRecord /\ k.pkt = p /\ k.from = n /\ k.to \in InRange(n)
  BY <1>4, CopiesAre
<1> QED
  BY <1>1, <1>2, <1>3, <1>4 DEF TypeInv

\* Init.
LEMMA InitBase == ASSUME Init PROVE BaseInv
<1>1. <<>> \in Seq(Nat) /\ DOMAIN <<>> = {}
  OBVIOUS
<1>2. TypeInv
  BY <1>1 DEF Init, TypeInv, RoutesOK
<1> QED
  BY <1>1, <1>2 DEF BaseInv, Init, Numbered, Texts, Acks, AckedMeansDelivered

\* A copy arrives.
LEMMA ArrivalBase ==
  ASSUME BaseInv, NEW c \in air, Arrive(c)
  PROVE  BaseInv'
<1>0. /\ TypeInv /\ Numbered /\ Texts /\ Acks /\ AckedMeansDelivered
      /\ c.to \in Node /\ c.pkt \in PacketRecord /\ c.pkt.id \in 1 .. lastId
  BY DEF BaseInv, TypeInv, CopyRecord, Numbered
<1>1. Progress /\ sends' = sends /\ DOMAIN delivered' = DOMAIN delivered
  BY <1>0, ArrivalProgress
<1>2. PICK tx : Received(c, tx)
  BY <1>0, ArrivalIs
<1>3. /\ air' \subseteq CopyRecord
      /\ \A k \in air' : k \in air \/ (k.pkt \in tx /\ k.from = c.to /\ k.to \in InRange(c.to))
  BY <1>0, <1>2, TransmitIs DEF Received, TypeInv
<1>4. ASSUME NEW k \in air PROVE GoodPacket(k.pkt)
  BY <1>0 DEF GoodPacket, Numbered, Texts, Acks
<1>5. ASSUME NEW q \in tx PROVE GoodPacket(q)'
  <2>1. CASE Carried(c.to, c.pkt, q)
    <3>1. GoodPacket(q)
      BY <1>4, <2>1 DEF Carried, GoodPacket
    <3> QED
      BY <1>0, <1>1, <3>1, GoodKept
  <2>2. CASE Answers(c.to, c.pkt, q)
    <3>1. lastId \in Nat /\ q.id \in 1 .. lastId'
      BY <1>0, <2>2 DEF Answers, TypeInv
    <3>2. ASSUME q.ack # None PROVE q.ack \in DOMAIN delivered' /\ delivered'[q.ack] > 0
      <4>1. q.ack = c.pkt.id /\ c.pkt.kind = "txt" /\ Deliver(c.pkt.id)
        BY <2>2, <3>2 DEF Answers, Deliver
      <4>2. c.pkt.id \in DOMAIN delivered /\ delivered'[c.pkt.id] = delivered[c.pkt.id] + 1
        BY <1>0, <4>1, DeliverProgress
      <4>3. delivered[c.pkt.id] \in Nat
        BY <1>0, <4>2 DEF TypeInv
      <4> QED
        BY <1>1, <4>1, <4>2, <4>3
    <3>3. q.kind # "txt"
      BY <2>2 DEF Answers
    <3> QED
      BY <3>1, <3>2, <3>3 DEF GoodPacket
  <2> QED
    BY <1>2, <1>5, <2>1, <2>2 DEF Received
<1>6. ASSUME NEW k \in air' PROVE GoodPacket(k.pkt)'
  <2>1. CASE k \in air
    BY <1>0, <1>1, <1>4, <2>1, GoodKept
  <2>2. CASE k.pkt \in tx
    BY <1>5, <2>2
  <2> QED
    BY <1>3, <2>1, <2>2
<1>7. /\ routes' = [n \in Node |-> [m \in Node |-> routes'[n][m]]] /\ RoutesOK'
  <2>1. CASE routes' = routes
    BY <1>0, <2>1 DEF TypeInv, RoutesOK
  <2>2. CASE ReceivePath(c)
    <3> DEFINE u == c.to
               v == c.pkt.src
               r == c.pkt.route
    <3>1. routes' = [routes EXCEPT ![u][v] = r] /\ u \in Node /\ v \in Node /\ r \in Path
      BY <1>0, <2>2 DEF ReceivePath, TellRoute, PacketRecord
    <3>2. routes = [n \in Node |-> [m \in Node |-> routes[n][m]]] /\ RoutesOK
      BY <1>0 DEF TypeInv
    <3> HIDE DEF u, v, r
    <3>3. \A n, m \in Node : routes'[n][m] = IF n = u /\ m = v THEN r ELSE routes[n][m]
      BY <3>1, <3>2
    <3>4. routes' = [n \in Node |-> [m \in Node |-> routes'[n][m]]]
      BY <3>1, <3>2, <3>3
    <3> QED
      BY <3>1, <3>2, <3>3, <3>4 DEF RoutesOK
  <2> QED
    BY <2>1, <2>2 DEF Arrive, Forward, Duplicate, PassOn, HearAdvert, ReceiveText
<1>8. TypeInv'
  <2>1. [Next]_vars
    BY DEF Arrive, Next
  <2>2. seen' \in [Node -> Seq(Nat)]
    BY <1>0, <2>1, SeenKept
  <2> QED
    BY <1>0, <1>1, <1>3, <1>7, <2>2 DEF TypeInv, Progress
<1>9. Numbered' /\ Texts' /\ Acks'
  <2>1. \A s \in sends : s.id \in 1 .. lastId'
    BY <1>0, <1>1 DEF Numbered, Progress, TypeInv
  <2> QED
    BY <1>0, <1>1, <1>6, <2>1 DEF Numbered, Texts, Acks, GoodPacket
<1>10. AckedMeansDelivered'
  <2>1. acked' \subseteq acked \cup AckFor(c.to, c.pkt.ack)
    BY DEF Arrive, Forward, Duplicate, PassOn, HearAdvert, ReceiveText, ReceivePath
  <2>2. ASSUME NEW i \in acked' PROVE i \in DOMAIN delivered /\ delivered[i] > 0
    <3>1. CASE i \in acked
      BY <1>0, <3>1 DEF AckedMeansDelivered
    <3>2. CASE i \in AckFor(c.to, c.pkt.ack)
      <4>1. i = c.pkt.ack /\ i # None
        BY <1>0, <3>2 DEF AckFor, TypeInv
      <4> QED
        BY <1>0, <4>1 DEF Acks
    <3> QED
      BY <2>1, <3>1, <3>2
  <2>3. ASSUME NEW i \in acked' PROVE delivered'[i] > 0
    <3>1. delivered[i] \in Nat /\ delivered'[i] \in Nat /\ delivered'[i] >= delivered[i] /\ delivered[i] > 0
      BY <1>0, <1>1, <2>2 DEF TypeInv, Progress
    <3> QED
      BY <3>1
  <2> QED
    BY <1>1, <2>2, <2>3 DEF AckedMeansDelivered
<1> QED
  BY <1>8, <1>9, <1>10 DEF BaseInv

\* A host sends a message or an advert.
LEMMA SendBase ==
  ASSUME BaseInv, NEW n \in Node, NEW m \in Node, NEW p \in PacketRecord, Originate(n, m, p),
         p.id = lastId + 1, p.ack = None, UNCHANGED <<routes, acked>>,
         \/ UNCHANGED delivered /\ p.kind # "txt"
         \/ p.dst = m /\ delivered' = [i \in DOMAIN delivered \cup {lastId + 1} |->
                                       IF i \in DOMAIN delivered THEN delivered[i] ELSE 0],
         seen' \in [Node -> Seq(Nat)]
  PROVE  BaseInv' /\ Progress
<1>0. TypeInv /\ Numbered /\ Texts /\ Acks /\ AckedMeansDelivered /\ lastId \in Nat
  BY DEF BaseInv, TypeInv
<1>1. /\ lastId' = lastId + 1 /\ lastId + 1 \in Nat
      /\ sends' = sends \cup {[id |-> lastId + 1, from |-> n, to |-> m]}
      /\ sends' \subseteq [id : Nat \ {None}, from : Node, to : Node]
      /\ air' \subseteq CopyRecord
      /\ \A k \in air' : k \in air \/ (k.pkt = p /\ k.from = n /\ k.to \in InRange(n))
  BY <1>0, OriginateIs
<1>2. /\ DOMAIN delivered' \subseteq DOMAIN delivered \cup {lastId + 1}
      /\ DOMAIN delivered' \subseteq Nat /\ delivered' \in [DOMAIN delivered' -> Nat]
      /\ \A i \in DOMAIN delivered : i \in DOMAIN delivered' /\ delivered'[i] = delivered[i]
      /\ p.kind = "txt" => lastId + 1 \in DOMAIN delivered'
  <2>1. DOMAIN delivered \subseteq Nat /\ delivered \in [DOMAIN delivered -> Nat]
    BY <1>0 DEF TypeInv
  <2>2. CASE UNCHANGED delivered /\ p.kind # "txt"
    BY <2>1, <2>2
  <2>3. CASE delivered' = [i \in DOMAIN delivered \cup {lastId + 1} |->
                             IF i \in DOMAIN delivered THEN delivered[i] ELSE 0]
    <3> DEFINE D == DOMAIN delivered
    <3>1. /\ DOMAIN delivered' = D \cup {lastId + 1}
          /\ \A i \in D \cup {lastId + 1} : delivered'[i] = IF i \in D THEN delivered[i] ELSE 0
      BY <2>3
    <3>2. delivered' \in [D \cup {lastId + 1} -> Nat]
      BY <2>1, <2>3
    <3> HIDE DEF D
    <3>3. D \subseteq Nat
      BY <2>1 DEF D
    <3> QED
      BY <1>1, <3>1, <3>2, <3>3 DEF D
  <2> QED
    BY <2>2, <2>3
<1>3. Progress
  <2>1. \A i \in DOMAIN delivered : delivered'[i] >= delivered[i]
    <3> TAKE i \in DOMAIN delivered
    <3>1. delivered'[i] = delivered[i] /\ delivered[i] \in Nat
      BY <1>0, <1>2 DEF TypeInv
    <3> QED
      BY <3>1
  <2> QED
    BY <1>0, <1>1, <1>2, <2>1 DEF Progress
<1>4. ASSUME NEW k \in air' PROVE GoodPacket(k.pkt)'
  <2>1. CASE k \in air
    <3>1. GoodPacket(k.pkt)
      BY <1>0, <2>1 DEF GoodPacket, Numbered, Texts, Acks
    <3> QED
      BY <1>0, <1>3, <3>1, GoodKept
  <2>2. CASE k.pkt = p
    <3>1. p.kind = "txt" => p.dst = m
      OBVIOUS
    <3>a. p.id \in 1 .. lastId'
      BY <1>0, <1>1
    <3>b. p.kind = "txt" => \E s \in sends' : s.id = p.id /\ s.to = p.dst
      <4>1. [id |-> lastId + 1, from |-> n, to |-> m] \in sends'
        BY <1>1
      <4> QED
        BY <3>1, <4>1
    <3>2. GoodPacket(p)'
      BY <1>2, <3>a, <3>b DEF GoodPacket
    <3> QED
      BY <2>2, <3>2
  <2> QED
    BY <1>1, <2>1, <2>2
<1>5. TypeInv'
  BY <1>0, <1>1, <1>2 DEF TypeInv, RoutesOK
<1>6. Numbered' /\ Texts' /\ Acks'
  <2>1. \A s \in sends : s.id \in 1 .. lastId /\ s.id # lastId + 1
    BY <1>0 DEF Numbered
  <2>2. \A s \in sends' : s.id \in 1 .. lastId'
    BY <1>0, <1>1, <2>1
  <2>3. \A s, t \in sends' : s.id = t.id => s = t
    BY <1>0, <1>1, <2>1 DEF Numbered
  <2>4. \A i \in DOMAIN delivered' : \E s \in sends' : s.id = i
    BY <1>0, <1>1, <1>2 DEF Numbered
  <2> QED
    BY <1>4, <2>2, <2>3, <2>4 DEF Numbered, Texts, Acks, GoodPacket
<1>7. AckedMeansDelivered'
  BY <1>0, <1>2 DEF AckedMeansDelivered
<1> QED
  BY <1>3, <1>5, <1>6, <1>7 DEF BaseInv

\* Every step keeps the invariant.
LEMMA NextBase ==
  ASSUME BaseInv, [Next]_vars
  PROVE  BaseInv' /\ Progress
<1>0. TypeInv /\ Texts /\ lastId + 1 \in Nat
  BY DEF BaseInv, TypeInv
<1>1. seen' \in [Node -> Seq(Nat)]
  BY <1>0, SeenKept
<1>2. ASSUME NEW c \in air, Arrive(c) PROVE BaseInv' /\ Progress
  BY <1>0, <1>2, ArrivalBase, ArrivalProgress
<1>3. ASSUME NEW pair \in Pairs, SendMessage(pair[1], pair[2]) PROVE BaseInv' /\ Progress
  <2> DEFINE n == pair[1]
             m == pair[2]
             p == SendTo(Packet(lastId + 1, "txt", n, m), routes[n][m])
  <2>1. n \in Node /\ m \in Node
    BY RoutingAssumption DEF Chats
  <2>2. p \in PacketRecord /\ p.id = lastId + 1 /\ p.dst = m /\ p.ack = None
    BY <1>0, <2>1, MessageType
  <2>3. /\ Originate(n, m, p) /\ UNCHANGED <<routes, acked>>
        /\ delivered' = [i \in DOMAIN delivered \cup {lastId + 1} |->
                           IF i \in DOMAIN delivered THEN delivered[i] ELSE 0]
    BY <1>3 DEF SendMessage
  <2> HIDE DEF n, m, p
  <2> QED
    BY <1>1, <2>1, <2>2, <2>3, SendBase
<1>4. ASSUME NEW n \in Adverts, SendAdvert(n) PROVE BaseInv' /\ Progress
  <2> DEFINE p == SendFlood(AdvertPacket(lastId + 1, n))
  <2>1. n \in Node
    BY RoutingAssumption DEF Chats
  <2>2. p \in PacketRecord /\ p.id = lastId + 1 /\ p.kind = "advert" /\ p.ack = None
    BY <1>0, <2>1, AdvertType
  <2>3. Originate(n, n, p) /\ UNCHANGED <<routes, acked, delivered>>
    BY <1>4 DEF SendAdvert
  <2> HIDE DEF p
  <2> QED
    BY <1>1, <2>1, <2>2, <2>3, SendBase
<1>5. CASE UNCHANGED vars \/ \E c \in air : Lose(c)
  <2>1. air' \subseteq air /\ UNCHANGED <<seen, routes, lastId, sends, delivered, acked>>
    BY <1>5 DEF vars, Lose
  <2>2. TypeInv' /\ Progress
    <3>1. \A i \in DOMAIN delivered : delivered[i] \in Nat
      BY <1>0 DEF TypeInv
    <3> QED
      BY <1>0, <2>1, <3>1 DEF TypeInv, RoutesOK, Progress
  <2>3. Numbered' /\ Texts' /\ Acks' /\ AckedMeansDelivered'
    BY <2>1 DEF BaseInv, Numbered, Texts, Acks, AckedMeansDelivered
  <2> QED
    BY <2>2, <2>3 DEF BaseInv
<1> QED
  BY <1>2, <1>3, <1>4, <1>5 DEF Next, Arrive

\* BaseInv holds throughout every behaviour.
LEMMA AlwaysBase == Spec => []BaseInv
<1>1. Init => BaseInv
  BY InitBase
<1>2. BaseInv /\ [Next]_vars => BaseInv'
  BY NextBase
<1> QED
  BY <1>1, <1>2, PTL DEF Spec

\* A message is reported to its sender as acknowledged only after its addressee's
\* host received it (AckedMeansDelivered), in every network, whatever is lost,
\* however small the seen-tables are and whichever nodes share a hash.
THEOREM AckIsEvidence == Spec => []AckedMeansDelivered
<1>1. BaseInv => AckedMeansDelivered
  BY DEF BaseInv
<1> QED
  BY <1>1, AlwaysBase, PTL

---------------------------------------------------------------------------
(* Once.                                                                   *)

NotFull(n) == Len(seen[n]) < TableSize

\* While its table is not full, a node remembers what it relayed and what its host
\* was handed, and did either once.
OnceInv ==
  /\ \A r \in relays : r[1] \in Node
  /\ \A n \in Node : NotFull(n) =>
       /\ \A r \in relays : r[1] = n => Holds(seen[n], r[2])
       /\ \A r, s \in relays : r[1] = n /\ s[1] = n /\ r[2] = s[2] => r = s
       /\ \A s \in sends : s.to = n /\ s.id \in DOMAIN delivered =>
            /\ delivered[s.id] <= 1
            /\ delivered[s.id] > 0 => Holds(seen[n], s.id)

\* Nothing is relayed, and nothing delivered.
LEMMA OnceQuiet ==
  ASSUME OnceInv, \A m \in Node : Kept(seen[m], seen'[m]), UNCHANGED relays,
         \A s \in sends' : s.id \in DOMAIN delivered' =>
           \/ s \in sends /\ s.id \in DOMAIN delivered /\ delivered'[s.id] = delivered[s.id]
           \/ delivered'[s.id] = 0
  PROVE  OnceInv'
<1> SUFFICES ASSUME NEW n \in Node, NotFull(n)'
             PROVE  /\ \A r \in relays : r[1] = n => Holds(seen'[n], r[2])
                    /\ \A r, s \in relays : r[1] = n /\ s[1] = n /\ r[2] = s[2] => r = s
                    /\ \A s \in sends' : s.to = n /\ s.id \in DOMAIN delivered' =>
                         /\ delivered'[s.id] <= 1
                         /\ delivered'[s.id] > 0 => Holds(seen'[n], s.id)
  BY DEF OnceInv, Holds
<1>1. NotFull(n) /\ \A id : Holds(seen[n], id) => Holds(seen'[n], id)
  BY DEF Kept, NotFull
<1>2. ASSUME NEW s \in sends', s.to = n, s.id \in DOMAIN delivered'
      PROVE  delivered'[s.id] <= 1 /\ (delivered'[s.id] > 0 => Holds(seen'[n], s.id))
  BY <1>1, <1>2 DEF OnceInv
<1> QED
  BY <1>1, <1>2 DEF OnceInv

\* A packet is relayed: it was not known, and is now.
LEMMA OnceRelayed ==
  ASSUME OnceInv, \A m \in Node : Kept(seen[m], seen'[m]), UNCHANGED <<sends, delivered>>,
         NEW n \in Node, NEW id, NEW x, x[1] = n, x[2] = id,
         ~Holds(seen[n], id), NotFull(n)' => Holds(seen'[n], id), relays' = relays \cup {x}
  PROVE  OnceInv'
<1> SUFFICES ASSUME NEW m \in Node, NotFull(m)'
             PROVE  /\ \A r \in relays' : r[1] = m => Holds(seen'[m], r[2])
                    /\ \A r, s \in relays' : r[1] = m /\ s[1] = m /\ r[2] = s[2] => r = s
                    /\ \A s \in sends : s.to = m /\ s.id \in DOMAIN delivered =>
                         /\ delivered[s.id] <= 1
                         /\ delivered[s.id] > 0 => Holds(seen'[m], s.id)
  BY DEF OnceInv, Holds
<1>1. NotFull(m) /\ \A k : Holds(seen[m], k) => Holds(seen'[m], k)
  BY DEF Kept, NotFull
<1>2. \A r \in relays : r[1] = m => Holds(seen[m], r[2])
  BY <1>1 DEF OnceInv
<1> QED
  BY <1>1, <1>2 DEF OnceInv

\* A text reaches its addressee's host: its number was not known, and is now.
LEMMA OnceDelivered ==
  ASSUME BaseInv, OnceInv, NEW c \in air, ReceiveText(c),
         \A m \in Node : Kept(seen[m], seen'[m]),
         NotFull(c.to)' => Holds(seen'[c.to], c.pkt.id)
  PROVE  OnceInv'
<1> DEFINE n == c.to
           j == c.pkt.id
<1>1. /\ UNCHANGED <<relays, sends>> /\ ~Holds(seen[n], j) /\ c.pkt.kind = "txt" /\ c.pkt.dst = n
      /\ Deliver(j)
  BY DEF ReceiveText, IsNew, HasSeen, Holds
<1>2. /\ DOMAIN delivered' = DOMAIN delivered /\ j \in DOMAIN delivered
      /\ delivered'[j] = delivered[j] + 1
      /\ \A i \in DOMAIN delivered \ {j} : delivered'[i] = delivered[i]
  BY <1>1, DeliverProgress DEF BaseInv
<1>3. PICK t \in sends : t.id = j /\ t.to = n
  BY <1>1 DEF BaseInv, Texts
<1>4. \A s \in sends : s.id = j => s = t
  BY <1>3 DEF BaseInv, Numbered
<1>5. n \in Node /\ delivered[j] \in Nat
  BY <1>2 DEF BaseInv, TypeInv, CopyRecord
<1> SUFFICES ASSUME NEW m \in Node, NotFull(m)'
             PROVE  /\ \A r \in relays : r[1] = m => Holds(seen'[m], r[2])
                    /\ \A r, s \in relays : r[1] = m /\ s[1] = m /\ r[2] = s[2] => r = s
                    /\ \A s \in sends : s.to = m /\ s.id \in DOMAIN delivered =>
                         /\ delivered'[s.id] <= 1
                         /\ delivered'[s.id] > 0 => Holds(seen'[m], s.id)
  BY <1>1, <1>2 DEF OnceInv, Holds
<1> HIDE DEF n, j
<1>6. NotFull(m) /\ \A k : Holds(seen[m], k) => Holds(seen'[m], k)
  BY DEF Kept, NotFull
<1>7. ASSUME NEW s \in sends, s.to = m, s.id \in DOMAIN delivered
      PROVE  delivered'[s.id] <= 1 /\ (delivered'[s.id] > 0 => Holds(seen'[m], s.id))
  <2>1. CASE s.id = j
    <3>1. s = t /\ m = n
      BY <1>3, <1>4, <1>7, <2>1
    <3>2. delivered[j] > 0 => Holds(seen[n], j)
      BY <1>3, <1>2, <1>6, <3>1 DEF OnceInv
    <3>3. delivered[j] = 0
      BY <1>1, <1>5, <3>2
    <3>4. Holds(seen'[n], j)
      BY <3>1 DEF n, j
    <3> QED
      BY <1>2, <2>1, <3>1, <3>3, <3>4
  <2>2. CASE s.id # j
    <3>1. delivered'[s.id] = delivered[s.id]
      BY <1>2, <1>7, <2>2
    <3> QED
      BY <1>6, <1>7, <3>1 DEF OnceInv
  <2> QED
    BY <2>1, <2>2
<1> QED
  BY <1>6, <1>7 DEF OnceInv

\* Every step keeps the invariant.
LEMMA NextOnce ==
  ASSUME BaseInv, OnceInv, [Next]_vars
  PROVE  OnceInv'
<1>0. /\ TypeInv /\ Numbered /\ lastId \in Nat /\ lastId + 1 \in Nat
      /\ seen \in [Node -> Seq(Nat)] /\ air \subseteq CopyRecord
  BY DEF BaseInv, TypeInv
<1>1. \A m \in Node : Kept(seen[m], seen'[m])
  BY <1>0, SeenKept
<1>2. CASE UNCHANGED <<relays, sends, delivered>>
  BY <1>1, <1>2, OnceQuiet
<1>3. ASSUME NEW c \in air, NEW tx, Relayed(c.to, tx), UNCHANGED <<sends, delivered>>,
             \/ tx = {}
             \/ /\ ~HasSeen(c.to, c.pkt.id) /\ MarkSeen(c.to, c.pkt, {})
                /\ \E q : tx = {q} /\ q.id = c.pkt.id
      PROVE  OnceInv'
  <2>0. c.to \in Node /\ c.pkt \in PacketRecord
    BY <1>0 DEF CopyRecord
  <2>1. CASE tx = {}
    <3>1. relays' = relays
      BY <1>3, <2>1 DEF Relayed
    <3> QED
      BY <1>2, <1>3, <3>1
  <2>2. CASE tx # {}
    <3>1. PICK q : tx = {q} /\ q.id = c.pkt.id
      BY <1>3, <2>2
    <3> DEFINE x == <<c.to, q.id, q.path>>
    <3>2. relays' = relays \cup {x}
      BY <1>3, <3>1 DEF Relayed
    <3>3. ~Holds(seen[c.to], c.pkt.id) /\ MarkSeen(c.to, c.pkt, {})
      BY <1>3, <2>2 DEF HasSeen, Holds
    <3>4. NotFull(c.to)' => Holds(seen'[c.to], c.pkt.id)
      BY <1>0, <2>0, <3>3, MarkSeenKeeps DEF NotFull
    <3>5. x[1] = c.to /\ x[2] = c.pkt.id
      BY <3>1
    <3> HIDE DEF x
    <3> QED
      BY <1>1, <1>3, <2>0, <3>2, <3>3, <3>4, <3>5, OnceRelayed
  <2> QED
    BY <2>1, <2>2
<1>4. ASSUME NEW c \in air, Forward(c) PROVE OnceInv'
  <2> DEFINE n == c.to
             p == c.pkt
             next == Hash[n] = Head(p.path) /\ AllowForward(n, p)
             tx == IF next /\ ~HasSeen(n, p.id) THEN {RemoveSelf(p)} ELSE {}
  <2>1. /\ Relayed(n, tx) /\ UNCHANGED <<sends, delivered>> /\ EnRoute(p)
        /\ next => MarkSeen(n, p, {})
    BY <1>4 DEF Forward
  <2>2. RemoveSelf(p).id = p.id
    BY <1>0, <2>1, RemoveSelfType DEF CopyRecord, PacketRecord
  <2>3. \/ tx = {}
        \/ /\ ~HasSeen(n, p.id) /\ MarkSeen(n, p, {})
           /\ \E q : tx = {q} /\ q.id = p.id
    BY <2>1, <2>2
  <2> HIDE DEF tx
  <2> QED
    BY <1>3, <2>1, <2>3
<1>5. ASSUME NEW c \in air, PassOn(c) \/ HearAdvert(c) PROVE OnceInv'
  <2> DEFINE tx == RouteRecv(c.to, c.pkt)
  <2>1. /\ Relayed(c.to, tx) /\ UNCHANGED <<sends, delivered>>
        /\ MarkSeen(c.to, c.pkt, {}) /\ ~HasSeen(c.to, c.pkt.id)
    BY <1>5 DEF PassOn, HearAdvert, IsNew
  <2>2. ASSUME tx # {} PROVE \E q : tx = {q} /\ q.id = c.pkt.id
    <3>1. c.to \in Node /\ c.pkt \in PacketRecord
      BY <1>0 DEF CopyRecord
    <3>2. PICK q : q \in RouteRecv(c.to, c.pkt)
      BY <2>2
    <3>3. tx = {q} /\ q.id = c.pkt.id
      BY <3>1, <3>2, RelayedFlood, CarriedFlood DEF Carried
    <3> QED
      BY <3>3
  <2> HIDE DEF tx
  <2> QED
    BY <1>3, <2>1, <2>2
<1>6. ASSUME NEW c \in air, ReceiveText(c) PROVE OnceInv'
  <2> DEFINE q == Acknowledge(c.to, c.pkt, lastId + 1)
  <2>1. c.to \in Node /\ c.pkt \in PacketRecord
    BY <1>0 DEF CopyRecord
  <2>2. MarkSeen(c.to, c.pkt, {q}) /\ q \in PacketRecord
    BY <1>0, <1>6, <2>1, AcknowledgeType DEF ReceiveText
  <2>3. NotFull(c.to)' => Holds(seen'[c.to], c.pkt.id)
    BY <1>0, <2>1, <2>2, MarkSeenKeeps DEF NotFull
  <2> QED
    BY <1>1, <1>6, <2>3, OnceDelivered
<1>7. ASSUME NEW c \in air, Duplicate(c) \/ ReceivePath(c) \/ Lose(c) PROVE OnceInv'
  BY <1>2, <1>7 DEF Duplicate, ReceivePath, Lose
<1>8. ASSUME NEW pair \in Pairs, SendMessage(pair[1], pair[2]) PROVE OnceInv'
  <2>1. /\ UNCHANGED relays
        /\ sends' = sends \cup {[id |-> lastId + 1, from |-> pair[1], to |-> pair[2]]}
        /\ delivered' = [i \in DOMAIN delivered \cup {lastId + 1} |->
                           IF i \in DOMAIN delivered THEN delivered[i] ELSE 0]
    BY <1>8 DEF SendMessage, Originate
  <2>2. \A s \in sends' : s.id \in DOMAIN delivered' =>
           \/ s \in sends /\ s.id \in DOMAIN delivered /\ delivered'[s.id] = delivered[s.id]
           \/ delivered'[s.id] = 0
    <3>1. lastId + 1 \notin DOMAIN delivered
      BY <1>0 DEF Numbered
    <3> QED
      BY <2>1, <3>1
  <2> QED
    BY <1>1, <2>1, <2>2, OnceQuiet
<1>9. ASSUME NEW n \in Adverts, SendAdvert(n) PROVE OnceInv'
  <2>1. /\ UNCHANGED <<relays, delivered>>
        /\ sends' = sends \cup {[id |-> lastId + 1, from |-> n, to |-> n]}
    BY <1>9 DEF SendAdvert, Originate
  <2>2. lastId + 1 \notin DOMAIN delivered
    BY <1>0 DEF Numbered
  <2>3. \A s \in sends' : s.id \in DOMAIN delivered' =>
           \/ s \in sends /\ s.id \in DOMAIN delivered /\ delivered'[s.id] = delivered[s.id]
           \/ delivered'[s.id] = 0
    BY <2>1, <2>2
  <2> QED
    BY <1>1, <2>1, <2>3, OnceQuiet
<1>10. CASE UNCHANGED vars
  BY <1>2, <1>10 DEF vars
<1> QED
  BY <1>4, <1>5, <1>6, <1>7, <1>8, <1>9, <1>10 DEF Next

\* So does OnceInv, which needs BaseInv in every step.
LEMMA AlwaysOnce == Spec => []OnceInv
<1>1. Init => OnceInv
  BY DEF Init, OnceInv
<1>2. BaseInv /\ OnceInv /\ [Next]_vars => OnceInv'
  BY NextOnce
<1> QED
  BY <1>1, <1>2, AlwaysBase, PTL DEF Spec

\* A node relays a payload at most once (RelayOnce), as long as no seen-table has
\* filled up; one that has forgets, and what it forgot is relayed again.
THEOREM RelaysOnce == Spec => []((\A n \in Node : NotFull(n)) => RelayOnce)
<1>1. OnceInv => ((\A n \in Node : NotFull(n)) => RelayOnce)
  BY DEF OnceInv, RelayOnce
<1> QED
  BY <1>1, AlwaysOnce, PTL

\* A message reaches its addressee's host at most once (DeliveredOnce), whatever
\* copies arrive and in whatever order, as long as no seen-table has filled up.
THEOREM DeliversOnce == Spec => []((\A n \in Node : NotFull(n)) => DeliveredOnce)
<1>1. BaseInv /\ OnceInv => ((\A n \in Node : NotFull(n)) => DeliveredOnce)
  <2> SUFFICES ASSUME BaseInv, OnceInv, \A n \in Node : NotFull(n), NEW i \in DOMAIN delivered
               PROVE  delivered[i] <= 1
    BY DEF DeliveredOnce
  <2>1. PICK s \in sends : s.id = i
    BY DEF BaseInv, Numbered
  <2>2. s.to \in Node
    BY DEF BaseInv, TypeInv
  <2> QED
    BY <2>1, <2>2 DEF OnceInv
<1> QED
  BY <1>1, AlwaysBase, AlwaysOnce, PTL

---------------------------------------------------------------------------
(* Routes.                                                                 *)

\* The relays that a path names, when they do lead from n to m.
Hops(n, path, m, hop) ==
  /\ hop \in [1 .. Len(path) -> Repeaters]
  /\ \A i \in 1 .. Len(path) :
       Hash[hop[i]] = path[i] /\ hop[i] \in InRange(IF i = 1 THEN n ELSE hop[i - 1])
  /\ m \in InRange(IF path = <<>> THEN n ELSE hop[Len(path)])

\* Leads in terms of the relays that stand for the hashes of the path.
LEMMA LeadsIs ==
  ASSUME NEW n, NEW m, NEW path \in Path
  PROVE  Leads(n, path, m) <=> \E hop : Hops(n, path, m, hop)
<1>1. Len(path) \in Nat /\ (Len(path) = 0 <=> path = <<>>)
  BY DEF Path
<1>2. ASSUME NEW hop, Hops(n, path, m, hop) PROVE Leads(n, path, m)
  BY <1>1, <1>2 DEF Hops, Leads
<1>3. ASSUME Leads(n, path, m) PROVE \E hop : Hops(n, path, m, hop)
  <2> DEFINE L == Len(path)
  <2>1. PICK hop \in [1 .. L -> Repeaters] :
          /\ \A i \in 1 .. L :
               Hash[hop[i]] = path[i] /\ hop[i] \in InRange(IF i - 1 = 0 THEN n ELSE hop[i - 1])
          /\ m \in InRange(IF L = 0 THEN n ELSE hop[L])
    BY <1>3 DEF Leads
  <2>2. \A i \in 1 .. L : (i - 1 = 0 <=> i = 1)
    BY <1>1
  <2> QED
    BY <1>1, <2>1, <2>2 DEF Hops
<1> QED
  BY <1>2, <1>3

\* The empty path leads to a neighbour.
LEMMA LeadsNeighbour ==
  ASSUME NEW n, NEW m \in InRange(n)
  PROVE  Leads(n, <<>>, m)
<1> DEFINE hop == [i \in 1 .. 0 |-> n]
<1>1. hop \in [1 .. 0 -> Repeaters] /\ \A i \in 1 .. 0 : FALSE
  OBVIOUS
<1> HIDE DEF hop
<1>2. Hops(n, <<>>, m, hop)
  BY <1>1, EmptyPath DEF Hops
<1> QED
  BY <1>2, LeadsIs, EmptyPath

\* A relay in range of the last hop adds itself.
LEMMA LeadsAppend ==
  ASSUME NEW n, NEW path \in Path, NEW r \in Repeaters, Leads(n, path, r), NEW m \in InRange(r)
  PROVE  Leads(n, Append(path, Hash[r]), m)
<1> DEFINE q == Append(path, Hash[r])
           L == Len(path)
<1>0. r \in Node
  BY RoutingAssumption
<1>1. /\ q \in Path /\ L \in Nat /\ Len(q) = L + 1 /\ q # <<>> /\ (L = 0 <=> path = <<>>)
      /\ \A i \in 1 .. L : q[i] = path[i]
      /\ q[L + 1] = Hash[r]
  BY <1>0 DEF Path
<1>2. PICK hop : Hops(n, path, r, hop)
  BY LeadsIs
<1> DEFINE next == [i \in 1 .. L + 1 |-> IF i = L + 1 THEN r ELSE hop[i]]
<1>3. /\ next[L + 1] = r /\ \A i \in 1 .. L : next[i] = hop[i] /\ hop[i] \in Repeaters
      /\ next \in [1 .. L + 1 -> Repeaters]
  BY <1>1, <1>2 DEF Hops
<1> HIDE DEF next, q, L
<1>4. ASSUME NEW i \in 1 .. L + 1
      PROVE  Hash[next[i]] = q[i] /\ next[i] \in InRange(IF i = 1 THEN n ELSE next[i - 1])
  <2>1. CASE i = L + 1
    <3>1. r \in InRange(IF L = 0 THEN n ELSE hop[L])
      BY <1>1, <1>2 DEF Hops, L
    <3>2. IF i = 1 THEN L = 0 ELSE L # 0 /\ i - 1 = L /\ next[i - 1] = hop[L]
      BY <1>1, <1>3, <2>1
    <3> QED
      BY <1>1, <1>3, <2>1, <3>1, <3>2
  <2>2. CASE i \in 1 .. L
    <3>1. i = 1 \/ (i - 1 \in 1 .. L /\ next[i - 1] = hop[i - 1])
      BY <1>1, <1>3, <2>2
    <3> QED
      BY <1>1, <1>2, <1>3, <2>2, <3>1 DEF Hops, L
  <2> QED
    BY <1>1, <2>1, <2>2
<1>5. Hops(n, q, m, next)
  BY <1>1, <1>3, <1>4 DEF Hops
<1> QED
  BY <1>1, <1>5, LeadsIs DEF q

\* Relays that are told apart by their hashes: the next one of a path is the one
\* that the path was made of.
DistinctRelays == \A r, s \in Repeaters : Hash[r] = Hash[s] => r = s

\* What remains of a path that leads from n to m, once a relay that answers to its first
\* hash has removed itself, leads from that relay to m.
LEMMA LeadsTail ==
  ASSUME DistinctRelays, NEW n, NEW path \in Path, path # <<>>, NEW m, Leads(n, path, m),
         NEW r \in Repeaters, Hash[r] = Head(path)
  PROVE  Leads(r, Tail(path), m)
<1> DEFINE q == Tail(path)
           L == Len(path)
<1>1. /\ q \in Path /\ L \in Nat \ {0} /\ Len(q) = L - 1 /\ (L = 1 <=> q = <<>>)
      /\ \A i \in 1 .. L - 1 : q[i] = path[i + 1]
      /\ Head(path) = path[1]
  <2>1. path \in Seq({Hash[x] : x \in Node}) /\ L \in Nat \ {0}
    BY DEF Path
  <2>2. q \in Seq({Hash[x] : x \in Node}) /\ Len(q) = L - 1
    BY <2>1
  <2>3. \A i \in 1 .. L - 1 : q[i] = path[i + 1]
    BY <2>1
  <2>4. Head(path) = path[1]
    BY <2>1
  <2> HIDE DEF q, L
  <2>5. L = 1 <=> q = <<>>
    BY <2>1, <2>2
  <2> QED
    BY <2>1, <2>2, <2>3, <2>4, <2>5 DEF Path
<1>2. PICK hop : Hops(n, path, m, hop)
  BY LeadsIs
<1> DEFINE next == [i \in 1 .. L - 1 |-> hop[i + 1]]
<1>3. /\ \A i \in 1 .. L : hop[i] \in Repeaters
      /\ \A i \in 1 .. L - 1 : next[i] = hop[i + 1] /\ i + 1 \in 1 .. L
      /\ next \in [1 .. L - 1 -> Repeaters]
  BY <1>1, <1>2 DEF Hops
<1> HIDE DEF next, q, L
<1>4. hop[1] = r
  <2>1. 1 \in 1 .. L
    BY <1>1
  <2>2. Hash[hop[1]] = path[1] /\ hop[1] \in Repeaters
    BY <1>2, <1>3, <2>1 DEF Hops, L
  <2> QED
    BY <1>1, <2>2 DEF DistinctRelays
<1>5. ASSUME NEW i \in 1 .. L - 1
      PROVE  Hash[next[i]] = q[i] /\ next[i] \in InRange(IF i = 1 THEN r ELSE next[i - 1])
  <2>1. Hash[hop[i + 1]] = path[i + 1] /\ hop[i + 1] \in InRange(hop[i])
    <3>1. i + 1 # 1 /\ i + 1 - 1 = i /\ i + 1 \in 1 .. L
      BY <1>1
    <3> QED
      BY <1>2, <3>1 DEF Hops, L
  <2>2. i # 1 => i - 1 \in 1 .. L - 1 /\ next[i - 1] = hop[i]
    <3> SUFFICES ASSUME i # 1 PROVE i - 1 \in 1 .. L - 1 /\ next[i - 1] = hop[i]
      OBVIOUS
    <3>1. i - 1 \in 1 .. L - 1 /\ i - 1 + 1 = i
      BY <1>1
    <3> QED
      BY <1>3, <3>1
  <2> QED
    BY <1>1, <1>3, <1>4, <2>1, <2>2
<1>6. m \in InRange(IF q = <<>> THEN r ELSE next[L - 1])
  <2>1. m \in InRange(hop[L])
    BY <1>1, <1>2 DEF Hops, L
  <2>2. q # <<>> => L - 1 \in 1 .. L - 1 /\ L - 1 + 1 = L
    BY <1>1
  <2> QED
    BY <1>1, <1>3, <1>4, <2>1, <2>2
<1>7. Hops(r, q, m, next)
  BY <1>1, <1>3, <1>5, <1>6 DEF Hops
<1> QED
  BY <1>1, <1>7, LeadsIs DEF q

\* What is known of a copy on the air: a flood came along its path, a source-routed
\* packet is led on by what is left of its path, and a PATH returns a route that
\* leads from its addressee to its sender.
GoodCopy(c) ==
  /\ IF c.pkt.flood THEN Leads(c.pkt.src, c.pkt.path, c.to)
                    ELSE Leads(c.from, c.pkt.path, c.pkt.dst)
  /\ c.pkt.kind = "path" => Leads(c.pkt.dst, c.pkt.route, c.pkt.src)

KnownRoutes == \A n, m \in Node : routes[n][m] # Unknown => Leads(n, routes[n][m], m)

RouteInv == (\A c \in air : GoodCopy(c)) /\ KnownRoutes

\* What a node carries on goes the right way.
LEMMA CarriedGood ==
  ASSUME DistinctRelays, NEW c \in CopyRecord, GoodCopy(c), NEW k \in CopyRecord,
         Carried(c.to, c.pkt, k.pkt), k.from = c.to, k.to \in InRange(c.to)
  PROVE  GoodCopy(k)
<1> DEFINE n == c.to
           p == c.pkt
           q == k.pkt
<1>0. /\ n \in Repeaters /\ p.path \in Path /\ p.flood \in BOOLEAN
      /\ q.kind = p.kind /\ q.src = p.src /\ q.dst = p.dst /\ q.route = p.route /\ q.flood = p.flood
  BY DEF Carried, CopyRecord, PacketRecord
<1>1. CASE p.flood
  <2>1. q.path = Append(p.path, Hash[n]) /\ Leads(p.src, p.path, n)
    BY <1>1 DEF Carried, EnRoute, GoodCopy
  <2>2. Leads(p.src, q.path, k.to)
    BY <1>0, <2>1, LeadsAppend
  <2> QED
    BY <1>0, <1>1, <2>2 DEF GoodCopy
<1>2. CASE ~p.flood
  <2>1. /\ EnRoute(p) /\ Hash[n] = Head(p.path) /\ q.path = Tail(p.path)
        /\ Leads(c.from, p.path, p.dst)
    BY <1>2 DEF Carried, GoodCopy
  <2>2. Leads(n, q.path, p.dst)
    BY <1>0, <2>1, LeadsTail DEF EnRoute
  <2> QED
    BY <1>0, <1>2, <2>2 DEF GoodCopy
<1> QED
  BY <1>1, <1>2

\* So does what it answers: an answer takes up a path on which it was asked, or
\* which it was told.
LEMMA AnswersGood ==
  ASSUME NEW c \in CopyRecord, GoodCopy(c), KnownRoutes, NEW k \in CopyRecord,
         Answers(c.to, c.pkt, k.pkt), k.from = c.to, k.to \in InRange(c.to)
  PROVE  GoodCopy(k)
<1> DEFINE n == c.to
           p == c.pkt
           q == k.pkt
<1>0. n \in Node /\ p.src \in Node /\ AnswerTo(n, p, q)
  BY DEF CopyRecord, PacketRecord, Answers
<1>1. CASE /\ q.flood /\ q.path = <<>> /\ q.src = n
           /\ q.kind = "path" => p.flood /\ q.route = p.path /\ q.dst = p.src
  <2>1. Leads(n, <<>>, k.to)
    BY LeadsNeighbour
  <2> QED
    BY <1>1, <2>1 DEF GoodCopy
<1>2. CASE /\ ~q.flood /\ q.kind = "ack" /\ q.dst = p.src
           /\ routes[n][p.src] # Unknown /\ q.path = routes[n][p.src]
  BY <1>0, <1>2 DEF GoodCopy, KnownRoutes
<1>3. CASE /\ ~q.flood /\ q.kind = "path" /\ q.src = n /\ q.dst = p.src /\ q.path = p.route
           /\ q.route = p.path /\ p.kind = "path" /\ p.flood /\ p.dst = n
  BY <1>3 DEF GoodCopy
<1> QED
  BY <1>0, <1>1, <1>2, <1>3 DEF AnswerTo

\* A message takes the host's route or floods; an advert floods.
LEMMA SentGood ==
  ASSUME KnownRoutes, NEW n \in Node, NEW m \in Node, NEW p, p.kind # "path", p.src = n,
         \/ p.flood /\ p.path = <<>>
         \/ ~p.flood /\ p.dst = m /\ routes[n][m] # Unknown /\ p.path = routes[n][m],
         NEW k, k.pkt = p, k.from = n, k.to \in InRange(n)
  PROVE  GoodCopy(k)
<1>1. Leads(n, <<>>, k.to)
  BY LeadsNeighbour
<1> QED
  BY <1>1 DEF GoodCopy, KnownRoutes

\* Every step keeps the invariant.
LEMMA NextRoute ==
  ASSUME DistinctRelays, BaseInv, RouteInv, [Next]_vars
  PROVE  RouteInv'
<1>0. TypeInv /\ KnownRoutes /\ air \subseteq CopyRecord /\ lastId + 1 \in Nat
  BY DEF BaseInv, TypeInv, RouteInv
<1>1. ASSUME NEW c \in air, Arrive(c) PROVE RouteInv'
  <2>0. c \in CopyRecord /\ GoodCopy(c) /\ c.to \in Node /\ c.pkt.src \in Node
    BY <1>0 DEF RouteInv, CopyRecord, PacketRecord
  <2>1. PICK tx : Received(c, tx)
    BY <1>0, <1>1, ArrivalIs
  <2>2. /\ air' \subseteq CopyRecord
        /\ \A k \in air' : k \in air \/ (k.pkt \in tx /\ k.from = c.to /\ k.to \in InRange(c.to))
    BY <1>0, <2>1, TransmitIs DEF Received
  <2>3. ASSUME NEW k \in air' PROVE GoodCopy(k)
    <3>1. CASE k \in air
      BY <3>1 DEF RouteInv
    <3>2. CASE k.pkt \in tx /\ k.from = c.to /\ k.to \in InRange(c.to)
      <4>1. Carried(c.to, c.pkt, k.pkt) \/ Answers(c.to, c.pkt, k.pkt)
        BY <2>1, <3>2 DEF Received
      <4> QED
        BY <1>0, <2>0, <2>2, <3>2, <4>1, CarriedGood, AnswersGood
    <3> QED
      BY <2>2, <3>1, <3>2
  <2>4. KnownRoutes'
    <3>1. CASE routes' = routes
      BY <1>0, <3>1 DEF KnownRoutes
    <3>2. CASE ReceivePath(c)
      <4> DEFINE u == c.to
                 v == c.pkt.src
                 r == c.pkt.route
      <4>1. routes' = [routes EXCEPT ![u][v] = r] /\ Leads(u, r, v)
        BY <2>0, <3>2 DEF ReceivePath, TellRoute, GoodCopy
      <4>2. routes = [n \in Node |-> [m \in Node |-> routes[n][m]]] /\ u \in Node /\ v \in Node
        BY <1>0, <2>0 DEF TypeInv
      <4> HIDE DEF u, v, r
      <4>3. \A n, m \in Node : routes'[n][m] = IF n = u /\ m = v THEN r ELSE routes[n][m]
        BY <4>1, <4>2
      <4> QED
        BY <1>0, <4>1, <4>3 DEF KnownRoutes
    <3> QED
      BY <1>1, <3>1, <3>2 DEF Arrive, Forward, Duplicate, PassOn, HearAdvert, ReceiveText
  <2> QED
    BY <2>3, <2>4 DEF RouteInv, GoodCopy
<1>2. ASSUME NEW pair \in Pairs, SendMessage(pair[1], pair[2]) PROVE RouteInv'
  <2> DEFINE n == pair[1]
             m == pair[2]
             p == SendTo(Packet(lastId + 1, "txt", n, m), routes[n][m])
  <2>1. n \in Node /\ m \in Node
    BY RoutingAssumption DEF Chats
  <2>2. /\ p \in PacketRecord /\ p.kind = "txt" /\ p.src = n /\ p.dst = m
        /\ \/ p.flood /\ p.path = <<>>
           \/ ~p.flood /\ routes[n][m] # Unknown /\ p.path = routes[n][m]
    BY <1>0, <2>1, MessageType
  <2>3. Originate(n, m, p) /\ UNCHANGED routes
    BY <1>2 DEF SendMessage
  <2> HIDE DEF n, m, p
  <2>4. \A k \in air' : k \in air \/ (k.pkt = p /\ k.from = n /\ k.to \in InRange(n))
    BY <1>0, <2>1, <2>2, <2>3, OriginateIs
  <2>5. ASSUME NEW k, k.pkt = p, k.from = n, k.to \in InRange(n) PROVE GoodCopy(k)
    BY <1>0, <2>1, <2>2, <2>5, SentGood
  <2> QED
    BY <1>0, <2>3, <2>4, <2>5 DEF RouteInv, KnownRoutes, GoodCopy
<1>3. ASSUME NEW n \in Adverts, SendAdvert(n) PROVE RouteInv'
  <2> DEFINE p == SendFlood(AdvertPacket(lastId + 1, n))
  <2>1. n \in Node
    BY RoutingAssumption DEF Chats
  <2>2. p \in PacketRecord /\ p.kind = "advert" /\ p.src = n /\ p.flood /\ p.path = <<>>
    BY <1>0, <2>1, AdvertType
  <2>3. Originate(n, n, p) /\ UNCHANGED routes
    BY <1>3 DEF SendAdvert
  <2> HIDE DEF p
  <2>4. \A k \in air' : k \in air \/ (k.pkt = p /\ k.from = n /\ k.to \in InRange(n))
    BY <1>0, <2>1, <2>2, <2>3, OriginateIs
  <2>5. ASSUME NEW k, k.pkt = p, k.from = n, k.to \in InRange(n) PROVE GoodCopy(k)
    BY <1>0, <2>1, <2>2, <2>5, SentGood
  <2> QED
    BY <1>0, <2>3, <2>4, <2>5 DEF RouteInv, KnownRoutes, GoodCopy
<1>4. CASE UNCHANGED vars \/ \E c \in air : Lose(c)
  <2>1. air' \subseteq air /\ UNCHANGED routes
    BY <1>4 DEF vars, Lose
  <2> QED
    BY <2>1 DEF RouteInv, KnownRoutes, GoodCopy
<1> QED
  BY <1>1, <1>2, <1>3, <1>4 DEF Next, Arrive

\* Routes lead where they are meant to (RoutesLead): the path a flood collects, which
\* its addressee returns in a PATH, the sender's host keeps, and later packets consume
\* hop by hop; whichever chat nodes share a hash, and whether or not links work both
\* ways.  It takes repeaters with distinct hashes: a packet for one is relayed
\* by another that has the same, which may not hear the next.
THEOREM RoutesLeadThere == DistinctRelays => (Spec => []RoutesLead)
<1> SUFFICES ASSUME DistinctRelays PROVE Spec => []RoutesLead
  OBVIOUS
<1>1. Init => RouteInv
  BY DEF Init, RouteInv, KnownRoutes
<1>2. BaseInv /\ RouteInv /\ [Next]_vars => RouteInv'
  BY NextRoute
<1>3. RouteInv => RoutesLead
  BY DEF RouteInv, KnownRoutes, GoodCopy, RoutesLead
<1> QED
  BY <1>1, <1>2, <1>3, AlwaysBase, PTL DEF Spec
=============================================================================
