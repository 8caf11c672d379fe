------------------------- MODULE SourceRouteProofs -------------------------
(***************************************************************************)
(* Proofs about SourceRoute, for every network, whichever nodes and        *)
(* channels share a hash: who is told what, and how many copies of an      *)
(* acknowledgement a relay transmits.                                      *)
(***************************************************************************)
EXTENDS SourceRoute, TLAPS, FiniteSetTheorems, WellFoundedInduction, NaturalsInduction

---------------------------------------------------------------------------
(* Packets.                                                                *)

\* A packet: of the type of the send it carries, or an acknowledgement of it.
PacketOK(p) ==
  /\ p = [type |-> p.type, id |-> p.id, remaining |-> p.remaining, flood |-> p.flood, path |-> p.path]
  /\ p.id \in DOMAIN Sends
  /\ IsAck(p) \/ p.type = Sends[p.id].kind
  /\ p.type # "multipart" => p.remaining = 0

\* What is made of a packet by routing it stays a packet with the same key.
LEMMA SamePacket ==
  ASSUME NEW p, PacketOK(p), NEW q, NEW path, NEW flood,
         q = [p EXCEPT !.path = path] \/ q = [p EXCEPT !.flood = flood]
  PROVE  PacketOK(q) /\ q.type = p.type /\ q.id = p.id /\ q.remaining = p.remaining
<1>1. CASE q = [p EXCEPT !.path = path]
  <2>1. q = [type |-> p.type, id |-> p.id, remaining |-> p.remaining, flood |-> p.flood, path |-> path]
    BY <1>1 DEF PacketOK
  <2> QED
    BY <2>1 DEF PacketOK, IsAck
<1>2. CASE q = [p EXCEPT !.flood = flood]
  <2>1. q = [type |-> p.type, id |-> p.id, remaining |-> p.remaining, flood |-> flood, path |-> p.path]
    BY <1>2 DEF PacketOK
  <2> QED
    BY <2>1 DEF PacketOK, IsAck
<1> QED
  BY <1>1, <1>2

\* A relay carries the packet itself on, once.
LEMMA RouteRecvIs ==
  ASSUME NEW n, NEW p, PacketOK(p), NEW q \in RouteRecv(n, p)
  PROVE  PacketOK(q) /\ q.type = p.type /\ q.id = p.id /\ RouteRecv(n, p) = {q}
<1>1. q = [p EXCEPT !.path = Append(p.path, Hash[n])] /\ RouteRecv(n, p) = {q}
  BY DEF RouteRecv
<1> QED
  BY <1>1, SamePacket

\* remove_self_from_path changes nothing but the path.
LEMMA RemoveSelfIs ==
  ASSUME NEW p, PacketOK(p)
  PROVE  PacketOK(RemoveSelf(p)) /\ RemoveSelf(p).type = p.type /\ RemoveSelf(p).id = p.id
<1>1. RemoveSelf(p) = [p EXCEPT !.path = Tail(p.path)]
  BY DEF RemoveSelf
<1> QED
  BY <1>1, SamePacket

\* An acknowledgement, single or one of several.
LEMMA CreateAckIs ==
  ASSUME NEW i \in DOMAIN Sends, NEW path, NEW k, NEW q,
         \/ q = CreateAck(i)
         \/ q = SendFlood(CreateAck(i))
         \/ q = SendDirect(CreateAck(i), path)
         \/ q = [CreateAck(i) EXCEPT !.path = path]
         \/ q = SendDirect(CreateMultiAck(i, k), path)
         \/ q = [CreateMultiAck(i, k) EXCEPT !.path = path]
  PROVE  PacketOK(q) /\ IsAck(q) /\ q.id = i
<1> DEFINE a == CreateAck(i)
           m == CreateMultiAck(i, k)
<1>1. PacketOK(a) /\ a.type = "ack" /\ a.id = i
  BY DEF CreateAck, Packet, PacketOK, IsAck
<1>2. PacketOK(m) /\ m.type = "multipart" /\ m.id = i
  <2> DEFINE p == Packet("multipart", i)
  <2>a. p = [type |-> "multipart", id |-> i, remaining |-> 0, flood |-> FALSE, path |-> <<>>]
    BY DEF Packet
  <2>b. m = [p EXCEPT !.remaining = k]
    BY DEF CreateMultiAck
  <2> HIDE DEF m, p
  <2>1. m = [type |-> "multipart", id |-> i, remaining |-> k, flood |-> FALSE, path |-> <<>>]
    BY <2>a, <2>b
  <2> QED
    BY <2>1 DEF PacketOK, IsAck
<1>3. \/ q = a \/ q = [a EXCEPT !.path = path] \/ q = [a EXCEPT !.flood = TRUE]
      \/ q = [m EXCEPT !.path = path]
  BY DEF SendFlood, SendDirect
<1> HIDE DEF a, m
<1>4. PacketOK(q) /\ q.type \in {"ack", "multipart"} /\ q.id = i
  BY <1>1, <1>2, <1>3, SamePacket
<1> QED
  BY <1>4 DEF IsAck

\* What route_direct_recv_acks sends are acknowledgements of the same packet.
LEMMA RouteAcksIs ==
  ASSUME NEW p, p.id \in DOMAIN Sends, NEW q \in RouteAcks(p)
  PROVE  PacketOK(q) /\ IsAck(q) /\ q.id = p.id
<1>1. \/ q = [CreateAck(p.id) EXCEPT !.path = p.path]
      \/ \E k \in 1 .. ExtraAcks : q = [CreateMultiAck(p.id, k) EXCEPT !.path = p.path]
  BY DEF RouteAcks
<1> QED
  BY <1>1, CreateAckIs

\* So is what a receiver sends to acknowledge packet i (send_ack_direct).
LEMMA SendAckIs ==
  ASSUME NEW n, NEW m, NEW i \in DOMAIN Sends, NEW q \in SendAck(n, m, i)
  PROVE  PacketOK(q) /\ IsAck(q) /\ q.id = i
<1>1. \/ q = SendFlood(CreateAck(i))
      \/ q = SendDirect(CreateAck(i), Routes[n][m])
      \/ q = SendDirect(CreateMultiAck(i, 1), Routes[n][m])
  BY DEF SendAck
<1> QED
  BY <1>1, CreateAckIs

\* What a host sends.
LEMMA OutgoingIs ==
  ASSUME NEW i \in DOMAIN Sends
  PROVE  PacketOK(Outgoing(i)) /\ ~IsAck(Outgoing(i)) /\ Outgoing(i).id = i
<1> DEFINE s == Sends[i]
           p == Packet(s.kind, i)
<1>1. s.kind \in {"txt", "anon", "grp", "raw", "control"}
  BY SourceRouteAssumption DEF Kinds
<1>2. PacketOK(p) /\ p.type = s.kind /\ p.id = i
  BY <1>1 DEF Packet, PacketOK, IsAck
<1>3. \/ Outgoing(i) = [p EXCEPT !.flood = TRUE]
      \/ \E path : Outgoing(i) = [p EXCEPT !.path = path]
  BY <1>1 DEF Outgoing, SendDirect, SendFlood
<1> HIDE DEF p
<1>4. PacketOK(Outgoing(i)) /\ Outgoing(i).type = s.kind /\ Outgoing(i).id = i
  BY <1>2, <1>3, SamePacket
<1> QED
  BY <1>1, <1>4 DEF IsAck

\* How many packets stand for an acknowledgement on its way.
LEMMA RouteAcksCount ==
  ASSUME NEW p
  PROVE  Cardinality(RouteAcks(p)) \in Nat /\ Cardinality(RouteAcks(p)) <= ExtraAcks + 1
<1> DEFINE M(k) == [CreateMultiAck(p.id, k) EXCEPT !.path = p.path]
           a == [CreateAck(p.id) EXCEPT !.path = p.path]
           S == {M(k) : k \in 1 .. ExtraAcks}
           f == [k \in 1 .. ExtraAcks |-> M(k)]
<1>0. ExtraAcks \in Nat
  BY SourceRouteAssumption
<1>1. RouteAcks(p) = S \cup {a}
  BY DEF RouteAcks
<1>2. f \in Surjection(1 .. ExtraAcks, S)
  BY DEF Surjection
<1>3. IsFiniteSet(1 .. ExtraAcks) /\ Cardinality(1 .. ExtraAcks) = ExtraAcks
  BY <1>0, FS_Interval
<1> HIDE DEF S, f, a
<1>4. IsFiniteSet(S) /\ Cardinality(S) <= ExtraAcks
  BY <1>2, <1>3, FS_Surjection
<1>5. Cardinality(S) \in Nat
  BY <1>4, FS_CardinalityType
<1>6. /\ IsFiniteSet(S \cup {a})
      /\ Cardinality(S \cup {a}) = IF a \in S THEN Cardinality(S) ELSE Cardinality(S) + 1
  BY <1>4, FS_AddElement
<1> QED
  BY <1>0, <1>1, <1>4, <1>5, <1>6

---------------------------------------------------------------------------
(* Who sent a packet.                                                      *)

\* A non-empty set of naturals has a least element.
LEMMA Least ==
  ASSUME NEW S, S \subseteq Nat, S # {}
  PROVE  \E x \in S : \A y \in S : x <= y
<1>1. PICK x \in S : \A y \in S : ~(<<y, x>> \in OpToRel(<, Nat))
  BY WFMin, NatLessThanWellFounded, Zenon
<1>2. \A y \in S : ~(y < x)
  BY <1>1 DEF OpToRel
<1> QED
  BY <1>2

\* Only the addressee finds a sender, and it finds the right one.
LEMMA SenderIs ==
  ASSUME NEW n \in Node, NEW i, Sender(n, i) # {}
  PROVE  Sender(n, i) = {Sends[i].from} /\ n = Sends[i].to
<1> DEFINE s == Sends[i]
           slots == {k \in DOMAIN Contacts[n] :
                       /\ Hash[Contacts[n][k]] = Hash[s.from]
                       /\ Contacts[n][k] = s.from /\ n = s.to}
           first == CHOOSE k \in slots : \A j \in slots : k <= j
<1>1. slots # {} /\ Sender(n, i) = {Contacts[n][first]}
  BY DEF Sender
<1>2. slots \subseteq Nat
  BY SourceRouteAssumption
<1>3. \E k \in slots : \A j \in slots : k <= j
  <2> HIDE DEF slots
  <2> QED
    BY <1>1, <1>2, Least
<1>4. first \in slots
  BY <1>3
<1> HIDE DEF first
<1> QED
  BY <1>1, <1>4

---------------------------------------------------------------------------
(* The invariant.                                                          *)

Shape ==
  /\ seen = [n \in Node |-> seen[n]]
  /\ told = [n \in Node |-> told[n]]
  /\ \A n \in Node : \A e \in DOMAIN told[n] : told[n][e] \in Nat
  /\ acks \in [Node -> [DOMAIN Sends -> Nat]]

\* The host of the addressee was told of send i.
Evidence(i) == Sends[i].to \in Node /\ \E e \in DOMAIN told[Sends[i].to] : e[1] = i

\* An acknowledgement is on the air only of what the addressee's host was told.
CopyOK(c) ==
  /\ c.from \in Node /\ c.to \in Node /\ PacketOK(c.pkt)
  /\ IsAck(c.pkt) => Evidence(c.pkt.id)
AirOK == \A c \in air : CopyOK(c)

\* Node n may tell its host of send i, as coming from or through x.
RightEntry(n, i, x) ==
  /\ Sends[i].kind \in {"txt", "anon"} => Sends[i].to = n /\ Sends[i].from = x
  /\ Sends[i].kind = "grp" =>
       x = Sends[i].to /\ \E k \in DOMAIN Channels[n] : Channels[n][k] = x

Private == {"txt", "anon", "grp"}

\* What a host was told is right; and what it was told of a payload that is not for
\* everyone, it was told once, for the node has the payload in its seen-table.
EntryOK(n, e) ==
  /\ RightEntry(n, e[1], e[2])
  /\ Sends[e[1]].kind \in Private => /\ told[n][e] = 1
                                    /\ <<Sends[e[1]].kind, e[1], 0>> \in seen[n]
ToldOK == \A n \in Node : \A e \in DOMAIN told[n] : EntryOK(n, e)

Credited == \A i \in credited : Evidence(i)

\* The transmissions of an acknowledgement are paid for by the two keys under which
\* the seen-table knows it.
Paid(known) == IF known THEN ExtraAcks + 1 ELSE 0
Budget ==
  \A n \in Node : \A i \in DOMAIN Sends :
    acks[n][i] <= Paid(<<"ack", i, 0>> \in seen[n]) + Paid(<<"multipart", i, "inner">> \in seen[n])

Inv == Shape /\ AirOK /\ ToldOK /\ Credited /\ Budget

\* Before anything is sent the invariant holds.
LEMMA InitInv == ASSUME Init PROVE Inv
<1>1. DOMAIN <<>> = {}
  OBVIOUS
<1>2. Shape /\ AirOK /\ ToldOK /\ Credited
  BY <1>1 DEF Init, Shape, AirOK, ToldOK, Credited
<1>3. Budget
  BY SourceRouteAssumption DEF Init, Budget, Paid
<1> QED
  BY <1>2, <1>3 DEF Inv

---------------------------------------------------------------------------
(* The air.                                                                *)

\* The tables only grow, and so does what the hosts were told.
Grows ==
  /\ \A n \in Node : seen[n] \subseteq seen'[n]
  /\ \A n \in Node : DOMAIN told[n] \subseteq DOMAIN told'[n]

\* What a host was told it is not told to forget.
LEMMA EvidenceKept ==
  ASSUME Grows, NEW i, Evidence(i)
  PROVE  Evidence(i)'
BY DEF Grows, Evidence

\* A transmission adds copies of what is transmitted.
LEMMA DeliverIs ==
  ASSUME NEW c, NEW tx, Deliver(c, tx), c.to \in Node, NEW k \in air'
  PROVE  k \in air \/ (k.pkt \in tx /\ k.from = c.to /\ k.to \in Node)
<1>1. k \in air \/ k \in Copies(c.to, tx)
  BY DEF Deliver
<1>2. CASE k \in Copies(c.to, tx)
  <2>1. PICK p \in tx, m \in InRange(c.to) : k = [pkt |-> p, from |-> c.to, to |-> m]
    BY <1>2 DEF Copies
  <2> QED
    BY <2>1 DEF InRange
<1> QED
  BY <1>1, <1>2

\* The seen-table of one node remembers.
LEMMA RememberIs ==
  ASSUME Shape, NEW n \in Node, NEW keys, Remember(n, keys)
  PROVE  /\ seen' = [m \in Node |-> seen'[m]]
         /\ seen'[n] = seen[n] \cup keys
         /\ \A m \in Node : seen[m] \subseteq seen'[m]
BY DEF Shape, Remember

\* A host is told something; the others are not.
LEMMA TellIs ==
  ASSUME Shape, NEW n \in Node, NEW e, Tell(n, e)
  PROVE  /\ told' = [m \in Node |-> told'[m]]
         /\ \A m \in Node : DOMAIN told[m] \subseteq DOMAIN told'[m]
         /\ \A m \in Node : \A x \in DOMAIN told'[m] :
              \/ x \in DOMAIN told[m] /\ told'[m][x] = told[m][x] /\ told'[m][x] \in Nat
              \/ m = n /\ x = e /\ told'[m][x] \in Nat
                   /\ (e \notin DOMAIN told[m] => told'[m][x] = 1)
         /\ e \in DOMAIN told'[n]
<1> DEFINE D == DOMAIN told[n] \cup {e}
           f == [x \in D |-> Times(n, x) + IF x = e THEN 1 ELSE 0]
<1>1. told' = [told EXCEPT ![n] = f] /\ told = [m \in Node |-> told[m]]
  BY DEF Tell, Shape
<1>2. \A x \in DOMAIN told[n] : told[n][x] \in Nat
  BY DEF Shape
<1>3. \A x \in D : Times(n, x) \in Nat
  BY <1>2 DEF Times
<1>4. ASSUME NEW x \in D
      PROVE  /\ f[x] \in Nat
             /\ x # e => x \in DOMAIN told[n] /\ f[x] = told[n][x]
             /\ x = e /\ e \notin DOMAIN told[n] => f[x] = 1
  <2>1. f[x] = Times(n, x) + IF x = e THEN 1 ELSE 0
    OBVIOUS
  <2>2. Times(n, x) = IF x \in DOMAIN told[n] THEN told[n][x] ELSE 0
    BY DEF Times
  <2> QED
    BY <1>2, <1>3, <2>1, <2>2
<1>5. DOMAIN f = D
  OBVIOUS
<1>6. DOMAIN told[n] \subseteq D /\ e \in D
  OBVIOUS
<1> HIDE DEF f, D
<1>7. /\ told' = [m \in Node |-> told'[m]] /\ told'[n] = f
      /\ \A m \in Node \ {n} : told'[m] = told[m]
  BY <1>1
<1>8. \A m \in Node : \A x \in DOMAIN told[m] : told[m][x] \in Nat
  BY DEF Shape
<1> QED
  BY <1>4, <1>5, <1>6, <1>7, <1>8

\* An entry that is right, and is new if it is private, keeps the entries right.
LEMMA ToldKept ==
  ASSUME Inv, NEW n \in Node, NEW i, NEW x, Tell(n, <<i, x>>), RightEntry(n, i, x),
         \A m \in Node : seen[m] \subseteq seen'[m],
         Sends[i].kind \in Private => /\ <<Sends[i].kind, i, 0>> \notin seen[n]
                                    /\ <<Sends[i].kind, i, 0>> \in seen'[n]
  PROVE  ToldOK' /\ Grows
<1>0. Shape /\ ToldOK
  BY DEF Inv
<1> DEFINE e == <<i, x>>
<1>1. e[1] = i /\ e[2] = x
  OBVIOUS
<1>2. /\ \A m \in Node : DOMAIN told[m] \subseteq DOMAIN told'[m]
      /\ \A m \in Node : \A y \in DOMAIN told'[m] :
              \/ y \in DOMAIN told[m] /\ told'[m][y] = told[m][y] /\ told'[m][y] \in Nat
              \/ m = n /\ y = e /\ told'[m][y] \in Nat
                   /\ (e \notin DOMAIN told[m] => told'[m][y] = 1)
  BY <1>0, TellIs
<1> HIDE DEF e
<1>3. Sends[i].kind \in Private => e \notin DOMAIN told[n]
  BY <1>0, <1>1 DEF ToldOK, EntryOK
<1>4. ASSUME NEW m \in Node, NEW y \in DOMAIN told'[m] PROVE EntryOK(m, y)'
  <2>1. CASE y \in DOMAIN told[m] /\ told'[m][y] = told[m][y]
    BY <1>0, <2>1 DEF ToldOK, EntryOK, RightEntry
  <2>2. CASE m = n /\ y = e /\ (e \notin DOMAIN told[m] => told'[m][y] = 1)
    BY <1>1, <1>3, <2>2 DEF EntryOK, RightEntry
  <2> QED
    BY <1>2, <2>1, <2>2
<1> QED
  BY <1>2, <1>4 DEF ToldOK, Grows

\* So does telling nothing.
LEMMA ToldSame ==
  ASSUME Inv, UNCHANGED told, \A m \in Node : seen[m] \subseteq seen'[m]
  PROVE  ToldOK' /\ Grows
BY DEF Inv, ToldOK, EntryOK, RightEntry, Grows

---------------------------------------------------------------------------
(* The steps.                                                              *)

\* One node's seen-table remembers some keys, or none does.
Learns(n, keys) == Remember(n, keys) \/ (keys = {} /\ UNCHANGED seen)

\* A seen-table grows by the keys that are looked up, and no other table changes.
LEMMA LearnsIs ==
  ASSUME Shape, NEW n \in Node, NEW keys, Learns(n, keys)
  PROVE  /\ seen' = [m \in Node |-> seen'[m]]
         /\ seen'[n] = seen[n] \cup keys
         /\ \A m \in Node : seen[m] \subseteq seen'[m]
<1>1. CASE Remember(n, keys)
  BY <1>1, RememberIs
<1>2. CASE keys = {} /\ UNCHANGED seen
  BY <1>2 DEF Shape
<1> QED
  BY <1>1, <1>2 DEF Learns

\* What is put on the air is good.
LEMMA AirKept ==
  ASSUME Inv, Grows, NEW c \in air, NEW tx, Deliver(c, tx),
         \A q \in tx : PacketOK(q) /\ (IsAck(q) => Evidence(q.id)')
  PROVE  AirOK'
<1> SUFFICES ASSUME NEW k \in air' PROVE CopyOK(k)'
  BY DEF AirOK
<1>1. c.to \in Node
  BY DEF Inv, AirOK, CopyOK
<1>2. k \in air \/ (k.pkt \in tx /\ k.from = c.to /\ k.to \in Node)
  BY <1>1, DeliverIs
<1>3. CASE k \in air
  <2>1. CopyOK(k)
    BY <1>3 DEF Inv, AirOK
  <2> QED
    BY <2>1, EvidenceKept DEF CopyOK
<1>4. CASE k.pkt \in tx /\ k.from = c.to /\ k.to \in Node
  BY <1>1, <1>4 DEF CopyOK
<1> QED
  BY <1>2, <1>3, <1>4

\* Learning keys pays for transmissions; the budget is never reduced.
LEMMA BudgetKept ==
  ASSUME Inv, \A m \in Node : seen[m] \subseteq seen'[m], UNCHANGED acks
  PROVE  Budget'
<1> SUFFICES ASSUME NEW n \in Node, NEW i \in DOMAIN Sends
             PROVE  acks[n][i] <= Paid(<<"ack", i, 0>> \in seen'[n])
                                    + Paid(<<"multipart", i, "inner">> \in seen'[n])
  BY DEF Budget, Paid
<1> DEFINE a == <<"ack", i, 0>>
           m == <<"multipart", i, "inner">>
<1>1. acks[n][i] <= Paid(a \in seen[n]) + Paid(m \in seen[n]) /\ acks[n][i] \in Nat
  BY DEF Inv, Budget, Shape
<1>2. (a \in seen[n] => a \in seen'[n]) /\ (m \in seen[n] => m \in seen'[n])
  OBVIOUS
<1> HIDE DEF a, m
<1>3. ExtraAcks \in Nat
  BY SourceRouteAssumption
<1>4. acks[n][i] <= Paid(a \in seen'[n]) + Paid(m \in seen'[n])
  BY <1>1, <1>2, <1>3 DEF Paid
<1> QED
  BY <1>4 DEF a, m

\* A node that sends acknowledgements of packet i enters a key of i into its seen-table
\* that was not there: each of the two keys pays for them once.
LEMMA BudgetSpent ==
  ASSUME Inv, \A m \in Node : seen[m] \subseteq seen'[m],
         NEW n \in Node, NEW i \in DOMAIN Sends, NEW tx, CountAcks(n, i, tx),
         Cardinality(tx) \in Nat, Cardinality(tx) <= ExtraAcks + 1,
         NEW key, key = <<"ack", i, 0>> \/ key = <<"multipart", i, "inner">>,
         Cardinality(tx) = 0 \/ (key \notin seen[n] /\ key \in seen'[n])
  PROVE  Budget' /\ acks' \in [Node -> [DOMAIN Sends -> Nat]]
<1>1. ExtraAcks \in Nat
  BY SourceRouteAssumption
<1>2. /\ acks' \in [Node -> [DOMAIN Sends -> Nat]]
      /\ acks'[n][i] = acks[n][i] + Cardinality(tx)
      /\ \A m \in Node, j \in DOMAIN Sends : m # n \/ j # i => acks'[m][j] = acks[m][j]
  BY DEF Inv, Shape, CountAcks
<1> SUFFICES ASSUME NEW m \in Node, NEW j \in DOMAIN Sends
             PROVE  acks'[m][j] <= Paid(<<"ack", j, 0>> \in seen'[m])
                                    + Paid(<<"multipart", j, "inner">> \in seen'[m])
  BY <1>2 DEF Budget, Paid
<1> DEFINE a == <<"ack", j, 0>>
           b == <<"multipart", j, "inner">>
<1>3. acks[m][j] <= Paid(a \in seen[m]) + Paid(b \in seen[m]) /\ acks[m][j] \in Nat
  BY DEF Inv, Budget, Shape
<1>4. (a \in seen[m] => a \in seen'[m]) /\ (b \in seen[m] => b \in seen'[m])
  OBVIOUS
<1>5. m = n /\ j = i => key = a \/ key = b
  OBVIOUS
<1> HIDE DEF a, b
<1>6. acks'[m][j] <= Paid(a \in seen'[m]) + Paid(b \in seen'[m])
  <2>1. CASE m = n /\ j = i
    BY <1>1, <1>2, <1>3, <1>4, <1>5, <2>1 DEF Paid
  <2>2. CASE m # n \/ j # i
    BY <1>1, <1>2, <1>3, <1>4, <2>2 DEF Paid
  <2> QED
    BY <2>1, <2>2
<1> QED
  BY <1>6 DEF a, b

\* An acknowledgement arrives.
LEMMA AckStep ==
  ASSUME Inv, NEW c \in air, IsAck(c.pkt), UNCHANGED told,
         NEW keys, Learns(c.to, keys), NEW tx, Deliver(c, tx),
         \A q \in tx : PacketOK(q) /\ q.id = c.pkt.id,
         credited' \subseteq credited \cup {c.pkt.id},
         Budget', acks' \in [Node -> [DOMAIN Sends -> Nat]]
  PROVE  Inv'
<1>1. Shape /\ c.to \in Node /\ Evidence(c.pkt.id)
  BY DEF Inv, AirOK, CopyOK
<1>2. seen' = [m \in Node |-> seen'[m]] /\ \A m \in Node : seen[m] \subseteq seen'[m]
  BY <1>1, LearnsIs
<1>3. ToldOK' /\ Grows
  BY <1>2, ToldSame
<1>4. Evidence(c.pkt.id)'
  BY <1>1, <1>3, EvidenceKept
<1>5. AirOK'
  BY <1>3, <1>4, AirKept
<1>6. Credited'
  BY <1>3, <1>4, EvidenceKept DEF Inv, Credited
<1>7. Shape'
  BY <1>1, <1>2 DEF Shape
<1> QED
  BY <1>3, <1>5, <1>6, <1>7 DEF Inv

\* Any other packet arrives; the host may be told.
LEMMA OtherStep ==
  ASSUME Inv, NEW c \in air, UNCHANGED <<credited, acks>>,
         NEW keys, Learns(c.to, keys), NEW tx, Deliver(c, tx),
         \A q \in tx : PacketOK(q) /\ (IsAck(q) => Evidence(q.id)'),
         \/ UNCHANGED told
         \/ \E i, x : /\ Tell(c.to, <<i, x>>) /\ RightEntry(c.to, i, x)
                      /\ Sends[i].kind \in Private =>
                           /\ <<Sends[i].kind, i, 0>> \notin seen[c.to]
                           /\ <<Sends[i].kind, i, 0>> \in keys
  PROVE  Inv'
<1>1. Shape /\ c.to \in Node
  BY DEF Inv, AirOK, CopyOK
<1>2. /\ seen' = [m \in Node |-> seen'[m]] /\ \A m \in Node : seen[m] \subseteq seen'[m]
      /\ keys \subseteq seen'[c.to]
  BY <1>1, LearnsIs
<1>3. /\ ToldOK' /\ Grows /\ told' = [m \in Node |-> told'[m]]
      /\ \A m \in Node : \A e \in DOMAIN told'[m] : told'[m][e] \in Nat
  <2>1. CASE UNCHANGED told
    <3>1. told' = [m \in Node |-> told'[m]] /\ \A m \in Node : \A e \in DOMAIN told'[m] : told'[m][e] \in Nat
      BY <1>1, <2>1 DEF Shape
    <3> QED
      BY <1>2, <2>1, <3>1, ToldSame
  <2>2. CASE \E i, x : /\ Tell(c.to, <<i, x>>) /\ RightEntry(c.to, i, x)
                       /\ Sends[i].kind \in Private =>
                           /\ <<Sends[i].kind, i, 0>> \notin seen[c.to]
                           /\ <<Sends[i].kind, i, 0>> \in keys
    <3>1. PICK i, x : /\ Tell(c.to, <<i, x>>) /\ RightEntry(c.to, i, x)
                      /\ Sends[i].kind \in Private =>
                           /\ <<Sends[i].kind, i, 0>> \notin seen[c.to]
                           /\ <<Sends[i].kind, i, 0>> \in keys
      BY <2>2
    <3>2. ToldOK' /\ Grows
      BY <1>1, <1>2, <3>1, ToldKept
    <3>3. told' = [m \in Node |-> told'[m]] /\ \A m \in Node : \A e \in DOMAIN told'[m] : told'[m][e] \in Nat
      BY <1>1, <3>1, TellIs
    <3> QED
      BY <3>2, <3>3
  <2> QED
    BY <2>1, <2>2
<1>4. AirOK'
  BY <1>3, AirKept
<1>5. Credited'
  BY <1>3, EvidenceKept DEF Inv, Credited
<1>6. Shape'
  BY <1>1, <1>2, <1>3 DEF Shape
<1>7. Budget'
  BY <1>2, BudgetKept
<1> QED
  BY <1>3, <1>4, <1>5, <1>6, <1>7 DEF Inv

\* What is known of a packet that arrives.
LEMMA Arriving ==
  ASSUME Inv, NEW c \in air
  PROVE  /\ Shape /\ c.to \in Node /\ PacketOK(c.pkt) /\ c.pkt.id \in DOMAIN Sends
         /\ IsAck(c.pkt) => Evidence(c.pkt.id)
         /\ ~IsAck(c.pkt) => c.pkt.type = Sends[c.pkt.id].kind
                             /\ Key(c.pkt) = <<Sends[c.pkt.id].kind, c.pkt.id, 0>>
         /\ c.pkt.type = "ack" => Key(c.pkt) = <<"ack", c.pkt.id, 0>>
BY DEF Inv, AirOK, CopyOK, PacketOK, IsAck, Key

\* Acknowledgements, on their way or at its end.
LEMMA ForwardAckInv == ASSUME Inv, NEW c \in air, ForwardAck(c) PROVE Inv'
<1> DEFINE n == c.to
           p == c.pkt
           r == RemoveSelf(p)
           tx == IF ForMe(n, p) /\ ~HasSeen(n, Key(p)) THEN RouteAcks(r) ELSE {}
           keys == IF ForMe(n, p) THEN {Key(p)} ELSE {}
<1>1. /\ p.type = "ack" /\ Deliver(c, tx) /\ CountAcks(n, p.id, tx) /\ UNCHANGED told
      /\ credited' \subseteq credited \cup {p.id}
      /\ IF ForMe(n, p) THEN Remember(n, {Key(p)}) ELSE UNCHANGED seen
  BY DEF ForwardAck, Credit
<1>2. Learns(n, keys)
  BY <1>1 DEF Learns
<1>3. /\ Shape /\ n \in Node /\ PacketOK(p) /\ p.id \in DOMAIN Sends
      /\ Key(p) = <<"ack", p.id, 0>> /\ IsAck(p)
  BY <1>1, Arriving DEF IsAck
<1>4. r.id = p.id
  BY <1>3, RemoveSelfIs
<1>5. \A q \in tx : PacketOK(q) /\ q.id = p.id
  <2> HIDE DEF r
  <2> QED
    BY <1>3, <1>4, RouteAcksIs
<1>6. Cardinality(tx) \in Nat /\ Cardinality(tx) <= ExtraAcks + 1
  <2>1. Cardinality({}) = 0 /\ ExtraAcks \in Nat
    BY FS_EmptySet, SourceRouteAssumption
  <2>2. tx \in {{}, RouteAcks(r)}
    OBVIOUS
  <2> HIDE DEF tx, r
  <2> QED
    BY <2>1, <2>2, RouteAcksCount
<1>7. Cardinality(tx) = 0 \/ (Key(p) \notin seen[n] /\ Key(p) \in keys)
  BY FS_EmptySet DEF HasSeen
<1> HIDE DEF tx, keys
<1>8. /\ seen'[n] = seen[n] \cup keys /\ \A m \in Node : seen[m] \subseteq seen'[m]
  BY <1>2, <1>3, LearnsIs
<1>9. Budget' /\ acks' \in [Node -> [DOMAIN Sends -> Nat]]
  BY <1>1, <1>3, <1>6, <1>7, <1>8, BudgetSpent
<1> QED
  BY <1>1, <1>2, <1>3, <1>5, <1>9, AckStep

\* A relay that takes the acknowledgement out of a MULTIPART on its route keeps the invariant.
LEMMA ForwardMultipartInv == ASSUME Inv, NEW c \in air, ForwardMultipart(c) PROVE Inv'
<1> DEFINE n == c.to
           p == c.pkt
           r == RemoveSelf(p)
           tx == IF ForMe(n, p) /\ ~HasSeen(n, InnerKey(p)) THEN RouteAcks(r) ELSE {}
           keys == IF ForMe(n, p) THEN {InnerKey(p)} ELSE {}
<1>1. /\ p.type = "multipart" /\ Deliver(c, tx) /\ CountAcks(n, p.id, tx)
      /\ UNCHANGED <<told, credited>>
      /\ IF ForMe(n, p) THEN Remember(n, {InnerKey(p)}) ELSE UNCHANGED seen
  BY DEF ForwardMultipart
<1>2. Learns(n, keys)
  BY <1>1 DEF Learns
<1>3. /\ Shape /\ n \in Node /\ PacketOK(p) /\ p.id \in DOMAIN Sends
      /\ InnerKey(p) = <<"multipart", p.id, "inner">> /\ IsAck(p)
  BY <1>1, Arriving DEF IsAck, InnerKey
<1>4. r.id = p.id
  BY <1>3, RemoveSelfIs
<1>5. \A q \in tx : PacketOK(q) /\ q.id = p.id
  <2> HIDE DEF r
  <2> QED
    BY <1>3, <1>4, RouteAcksIs
<1>6. Cardinality(tx) \in Nat /\ Cardinality(tx) <= ExtraAcks + 1
  <2>1. Cardinality({}) = 0 /\ ExtraAcks \in Nat
    BY FS_EmptySet, SourceRouteAssumption
  <2>2. tx \in {{}, RouteAcks(r)}
    OBVIOUS
  <2> HIDE DEF tx, r
  <2> QED
    BY <2>1, <2>2, RouteAcksCount
<1>7. Cardinality(tx) = 0 \/ (InnerKey(p) \notin seen[n] /\ InnerKey(p) \in keys)
  BY FS_EmptySet DEF HasSeen
<1> HIDE DEF tx, keys
<1>8. /\ seen'[n] = seen[n] \cup keys /\ \A m \in Node : seen[m] \subseteq seen'[m]
  BY <1>2, <1>3, LearnsIs
<1>9. Budget' /\ acks' \in [Node -> [DOMAIN Sends -> Nat]]
  BY <1>1, <1>3, <1>6, <1>7, <1>8, BudgetSpent
<1> QED
  BY <1>1, <1>2, <1>3, <1>5, <1>9, AckStep

\* So does the end of the way of an ACK, which is credited there, or relayed as a flood.
LEMMA ReceiveAckInv == ASSUME Inv, NEW c \in air, ReceiveAck(c) PROVE Inv'
<1> DEFINE n == c.to
           p == c.pkt
           tx == RouteRecv(n, p)
<1>1. /\ p.type = "ack" /\ Deliver(c, tx) /\ CountAcks(n, p.id, tx) /\ UNCHANGED told
      /\ credited' \subseteq credited \cup {p.id} /\ Key(p) \notin seen[n]
      /\ Remember(n, {Key(p)})
  BY DEF ReceiveAck, Credit, Arrived, New, HasSeen
<1>2. Learns(n, {Key(p)})
  BY <1>1 DEF Learns
<1>3. /\ Shape /\ n \in Node /\ PacketOK(p) /\ p.id \in DOMAIN Sends
      /\ Key(p) = <<"ack", p.id, 0>> /\ IsAck(p)
  BY <1>1, Arriving DEF IsAck
<1>5. \A q \in tx : PacketOK(q) /\ q.id = p.id /\ tx = {q}
  BY <1>3, RouteRecvIs
<1> HIDE DEF tx
<1>6. Cardinality(tx) \in Nat /\ Cardinality(tx) <= ExtraAcks + 1
  <2>1. ExtraAcks \in Nat
    BY SourceRouteAssumption
  <2>2. tx = {} \/ \E q : tx = {q}
    BY <1>5
  <2>3. Cardinality(tx) \in {0, 1}
    BY <2>2, FS_EmptySet, FS_Singleton
  <2> QED
    BY <2>1, <2>3
<1>8. /\ seen'[n] = seen[n] \cup {Key(p)} /\ \A m \in Node : seen[m] \subseteq seen'[m]
  BY <1>2, <1>3, LearnsIs
<1>9. Budget' /\ acks' \in [Node -> [DOMAIN Sends -> Nat]]
  BY <1>1, <1>3, <1>6, <1>8, BudgetSpent
<1> QED
  BY <1>1, <1>2, <1>3, <1>5, <1>9, AckStep

\* So does the end of the way of a MULTIPART, whose acknowledgement is credited.
LEMMA ReceiveMultipartInv == ASSUME Inv, NEW c \in air, ReceiveMultipart(c) PROVE Inv'
<1> DEFINE n == c.to
           p == c.pkt
<1>1. /\ p.type = "multipart" /\ Deliver(c, {}) /\ UNCHANGED <<told, acks>>
      /\ credited' \subseteq credited \cup {p.id} /\ Remember(n, {InnerKey(p)})
  BY DEF ReceiveMultipart, Credit, Arrived
<1>2. Learns(n, {InnerKey(p)})
  BY <1>1 DEF Learns
<1>3. Shape /\ n \in Node /\ IsAck(p)
  BY <1>1, Arriving DEF IsAck
<1>4. \A m \in Node : seen[m] \subseteq seen'[m]
  BY <1>2, <1>3, LearnsIs
<1>5. Budget' /\ acks' \in [Node -> [DOMAIN Sends -> Nat]]
  BY <1>1, <1>3, <1>4, BudgetKept DEF Shape
<1>6. PICK tx : tx = {} /\ Deliver(c, tx)
  BY <1>1
<1>7. \A q \in tx : PacketOK(q) /\ q.id = c.pkt.id
  BY <1>6
<1> HIDE DEF n, p
<1> QED
  BY <1>1, <1>2, <1>3, <1>5, <1>6, <1>7, AckStep DEF n, p

\* A packet that is carried on, or known.
LEMMA ForwardInv == ASSUME Inv, NEW c \in air, Forward(c) \/ Duplicate(c) PROVE Inv'
<1> DEFINE n == c.to
           p == c.pkt
           mine == ForMe(n, p) /\ p.type # "control"
           tx == IF mine /\ ~HasSeen(n, Key(p)) THEN {RemoveSelf(p)} ELSE {}
           keys == IF mine THEN {Key(p)} ELSE {}
<1>0. PacketOK(p)
  BY Arriving
<1>1. CASE Forward(c)
  <2>1. /\ ~IsAck(p) /\ Deliver(c, tx) /\ UNCHANGED <<told, credited, acks>>
        /\ IF mine THEN Remember(n, {Key(p)}) ELSE UNCHANGED seen
    BY <1>1 DEF Forward
  <2>2. Learns(n, keys)
    BY <2>1 DEF Learns
  <2>3. \A q \in tx : PacketOK(q) /\ ~IsAck(q)
    BY <1>0, <2>1, RemoveSelfIs DEF IsAck
  <2> HIDE DEF tx, keys
  <2> QED
    BY <2>1, <2>2, <2>3, OtherStep
<1>2. CASE Duplicate(c)
  <2>1. Deliver(c, {}) /\ UNCHANGED <<seen, told, credited, acks>>
    BY <1>2 DEF Duplicate
  <2>2. Learns(n, {})
    BY <2>1 DEF Learns
  <2> QED
    BY <2>1, <2>2, OtherStep
<1> QED
  BY <1>1, <1>2

\* Only the addressee opens a text, and acknowledges it once its host was told.
LEMMA ReceiveTextInv == ASSUME Inv, NEW c \in air, ReceiveText(c) PROVE Inv'
<1> DEFINE n == c.to
           p == c.pkt
           i == c.pkt.id
           found == Sender(n, i)
           tx == IF found = {} THEN RouteRecv(n, p) ELSE UNION {SendAck(n, m, i) : m \in found}
           keys == {Key(p)} \cup IF found = {} THEN {} ELSE Keys(tx)
<1>1. /\ p.type = "txt" /\ Key(p) \notin seen[n] /\ Remember(n, keys) /\ Deliver(c, tx)
      /\ UNCHANGED <<credited, acks>>
      /\ IF found = {} THEN UNCHANGED told ELSE \E m \in found : Tell(n, <<i, m>>)
  BY DEF ReceiveText, Arrived, New, HasSeen
<1>2. Learns(n, keys) /\ Key(p) \in keys
  BY <1>1 DEF Learns
<1>3. /\ Shape /\ n \in Node /\ PacketOK(p) /\ i \in DOMAIN Sends
      /\ Sends[i].kind = "txt" /\ Key(p) = <<Sends[i].kind, i, 0>>
  <2>1. ~IsAck(p)
    BY <1>1 DEF IsAck
  <2> QED
    BY <1>1, <2>1, Arriving
<1>4. CASE found = {}
  <2>1. \A q \in tx : PacketOK(q) /\ ~IsAck(q)
    BY <1>1, <1>3, <1>4, RouteRecvIs DEF IsAck
  <2> HIDE DEF tx, keys, found
  <2> QED
    BY <1>1, <1>2, <1>4, <2>1, OtherStep
<1>5. CASE found # {}
  <2>1. found = {Sends[i].from} /\ n = Sends[i].to
    BY <1>3, <1>5, SenderIs
  <2> DEFINE x == Sends[i].from
  <2>2. Tell(n, <<i, x>>) /\ tx = SendAck(n, x, i)
    BY <1>1, <1>5, <2>1
  <2>3. RightEntry(n, i, x)
    BY <1>3, <2>1 DEF RightEntry
  <2>4. Evidence(i)'
    <3>1. <<i, x>> \in DOMAIN told'[n]
      BY <1>3, <2>2, TellIs
    <3>2. <<i, x>>[1] = i
      OBVIOUS
    <3> QED
      BY <1>3, <2>1, <3>1, <3>2 DEF Evidence
  <2>5. \A q \in tx : PacketOK(q) /\ q.id = i
    BY <1>3, <2>2, SendAckIs
  <2> HIDE DEF tx, keys, found, x
  <2> QED
    BY <1>1, <1>2, <1>3, <2>2, <2>3, <2>4, <2>5, OtherStep
<1> QED
  BY <1>4, <1>5

\* Anonymous, group, raw and control packets.
LEMMA ReceiveAnonInv == ASSUME Inv, NEW c \in air, ReceiveAnon(c) PROVE Inv'
<1> DEFINE n == c.to
           p == c.pkt
           i == c.pkt.id
           mine == Sends[i].to = n
           tx == IF mine THEN {} ELSE RouteRecv(n, p)
           x == Sends[i].from
<1>1. /\ p.type = "anon" /\ Key(p) \notin seen[n] /\ Remember(n, {Key(p)}) /\ Deliver(c, tx)
      /\ UNCHANGED <<credited, acks>>
      /\ IF mine THEN Tell(n, <<i, x>>) ELSE UNCHANGED told
  BY DEF ReceiveAnon, Arrived, New, HasSeen
<1>2. Learns(n, {Key(p)}) /\ ~IsAck(p)
  BY <1>1 DEF Learns, IsAck
<1>3. PacketOK(p) /\ Sends[i].kind = "anon" /\ Key(p) = <<Sends[i].kind, i, 0>>
  BY <1>1, <1>2, Arriving
<1>4. \A q \in tx : PacketOK(q) /\ ~IsAck(q)
  BY <1>1, <1>3, RouteRecvIs DEF IsAck
<1>5. mine => RightEntry(n, i, x)
  BY <1>3 DEF RightEntry
<1> HIDE DEF tx, x, mine
<1> QED
  BY <1>1, <1>2, <1>3, <1>4, <1>5, OtherStep

\* So does a group packet, told under the channel whose secret opens it.
LEMMA ReceiveGroupInv == ASSUME Inv, NEW c \in air, ReceiveGroup(c) PROVE Inv'
<1> DEFINE n == c.to
           p == c.pkt
           i == c.pkt.id
           chan == Sends[i].to
           tx == RouteRecv(n, p)
<1>1. /\ p.type = "grp" /\ Key(p) \notin seen[n] /\ Remember(n, {Key(p)}) /\ Deliver(c, tx)
      /\ UNCHANGED <<credited, acks>>
      /\ IF OpensGroup(n, chan) /\ n \notin Repeaters THEN Tell(n, <<i, chan>>) ELSE UNCHANGED told
  BY DEF ReceiveGroup, Arrived, New, HasSeen, RouteGroup
<1>2. Learns(n, {Key(p)}) /\ ~IsAck(p)
  BY <1>1 DEF Learns, IsAck
<1>3. PacketOK(p) /\ Sends[i].kind = "grp" /\ Key(p) = <<Sends[i].kind, i, 0>>
  BY <1>1, <1>2, Arriving
<1>4. \A q \in tx : PacketOK(q) /\ ~IsAck(q)
  BY <1>1, <1>3, RouteRecvIs DEF IsAck
<1>5. OpensGroup(n, chan) => RightEntry(n, i, chan)
  BY <1>3 DEF RightEntry, OpensGroup, Candidates
<1> HIDE DEF tx, chan
<1> QED
  BY <1>1, <1>2, <1>3, <1>4, <1>5, OtherStep

\* So do RAW and CONTROL packets, which are open to everyone.
LEMMA ReceiveOpenInv == ASSUME Inv, NEW c \in air, ReceiveRaw(c) \/ ReceiveControl(c) PROVE Inv'
<1> DEFINE n == c.to
           p == c.pkt
           i == c.pkt.id
<1>1. /\ p.type \in {"raw", "control"} /\ Deliver(c, {}) /\ UNCHANGED <<credited, acks>>
      /\ \E x : Tell(n, <<i, x>>)
      /\ Remember(n, {Key(p)}) \/ UNCHANGED seen
  BY DEF ReceiveRaw, ReceiveControl, Arrived
<1>2. PICK keys : Learns(n, keys)
  BY <1>1 DEF Learns
<1>3. Sends[i].kind \in {"raw", "control"}
  BY <1>1, Arriving DEF IsAck
<1>4. Sends[i].kind \notin Private /\ \A x : RightEntry(n, i, x)
  BY <1>3 DEF RightEntry, Private
<1>5. PICK x : Tell(n, <<i, x>>)
  BY <1>1
<1>6. PICK tx : tx = {} /\ Deliver(c, tx)
  BY <1>1
<1>7. \A q \in tx : PacketOK(q) /\ (IsAck(q) => Evidence(q.id)')
  BY <1>6
<1>8. /\ Tell(n, <<i, x>>) /\ RightEntry(n, i, x)
      /\ Sends[i].kind \in Private =>
           /\ <<Sends[i].kind, i, 0>> \notin seen[n]
           /\ <<Sends[i].kind, i, 0>> \in keys
  BY <1>4, <1>5
<1> HIDE DEF i
<1> QED
  BY <1>1, <1>2, <1>6, <1>7, <1>8, OtherStep

\* A host sends.
LEMMA HostSendInv == ASSUME Inv, NEW i \in DOMAIN Sends, HostSend(i) PROVE Inv'
<1> DEFINE n == Sends[i].from
           p == Outgoing(i)
<1>1. /\ Remember(n, {Key(p)}) /\ air' = air \cup Copies(n, {p})
      /\ UNCHANGED <<told, credited, acks>>
  BY DEF HostSend
<1>2. Shape /\ n \in Node /\ PacketOK(p) /\ ~IsAck(p)
  BY SourceRouteAssumption, OutgoingIs DEF Inv
<1>3. seen' = [m \in Node |-> seen'[m]] /\ \A m \in Node : seen[m] \subseteq seen'[m]
  BY <1>1, <1>2, RememberIs
<1>4. ToldOK' /\ Grows
  BY <1>1, <1>3, ToldSame
<1>5. ASSUME NEW k \in air' PROVE CopyOK(k)'
  <2>1. CASE k \in air
    <3>1. CopyOK(k)
      BY <2>1 DEF Inv, AirOK
    <3> QED
      BY <1>4, <3>1, EvidenceKept DEF CopyOK
  <2>2. CASE k \in Copies(n, {p})
    <3>1. PICK m \in InRange(n) : k = [pkt |-> p, from |-> n, to |-> m]
      BY <2>2 DEF Copies
    <3> QED
      BY <1>2, <3>1 DEF CopyOK, InRange
  <2> QED
    BY <1>1, <2>1, <2>2
<1>6. Credited'
  BY <1>1, <1>4, EvidenceKept DEF Inv, Credited
<1>7. Shape'
  BY <1>1, <1>2, <1>3 DEF Shape
<1>8. Budget'
  BY <1>1, <1>3, BudgetKept
<1> QED
  BY <1>4, <1>5, <1>6, <1>7, <1>8 DEF Inv, AirOK

\* Every step keeps the invariant.
LEMMA NextInv == ASSUME Inv, [Next]_vars PROVE Inv'
<1>1. CASE \/ UNCHANGED vars \/ Done \/ \E c \in air : Lose(c)
  <2>1. air' \subseteq air /\ UNCHANGED <<seen, told, credited, acks>>
    BY <1>1 DEF vars, Done, Lose
  <2> QED
    BY <2>1 DEF Inv, Shape, AirOK, CopyOK, ToldOK, EntryOK, RightEntry, Credited, Evidence, Budget, Paid
<1> QED
  BY <1>1, HostSendInv, ForwardAckInv, ForwardMultipartInv, ForwardInv, ReceiveAckInv,
     ReceiveMultipartInv, ReceiveTextInv, ReceiveAnonInv, ReceiveGroupInv, ReceiveOpenInv DEF Next

\* The invariant holds throughout every behaviour.
LEMMA AlwaysInv == Spec => []Inv
<1> QED
  BY InitInv, NextInv, PTL DEF Spec

\* Private packets are told to their addressees' hosts alone, once and under the name
\* of the node that sent them, and an acknowledgement is evidence of that
\* (RightParties), whichever nodes share a hash and whatever the radio loses,
\* duplicates or reorders.
THEOREM TellsTheRightParties == Spec => []RightParties
<1>1. Inv => RightParties
  BY DEF Inv, ToldOK, EntryOK, RightEntry, Private, Credited, Evidence, RightParties
<1> QED
  BY <1>1, AlwaysInv, PTL

\* Group packets are told once, and to members, as of their own channel (GroupOnce),
\* whichever channels share a hash.
THEOREM TellsGroupsOnce == Spec => []GroupOnce
<1>1. Inv => GroupOnce
  BY DEF Inv, ToldOK, EntryOK, RightEntry, Private, GroupOnce
<1> QED
  BY <1>1, AlwaysInv, PTL

\* A relay transmits an acknowledgement and its extra copies at most twice
\* (AckBudget), however many copies reach it and whatever path they took.
THEOREM AcksWithinBudget == Spec => []AckBudget
<1>1. Inv => AckBudget
  <2> SUFFICES ASSUME Inv, NEW n \in Node, NEW i \in DOMAIN Sends
               PROVE  acks[n][i] <= 2 * (ExtraAcks + 1)
    BY DEF AckBudget
  <2> DEFINE a == <<"ack", i, 0>> \in seen[n]
             m == <<"multipart", i, "inner">> \in seen[n]
  <2>1. acks[n][i] <= Paid(a) + Paid(m) /\ acks[n][i] \in Nat /\ ExtraAcks \in Nat
    BY SourceRouteAssumption DEF Inv, Budget, Shape
  <2> HIDE DEF a, m
  <2>2. Paid(a) \in 0 .. ExtraAcks + 1 /\ Paid(m) \in 0 .. ExtraAcks + 1
    BY <2>1 DEF Paid
  <2> QED
    BY <2>1, <2>2
<1> QED
  BY <1>1, AlwaysInv, PTL
=============================================================================
