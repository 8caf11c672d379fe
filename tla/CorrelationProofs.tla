------------------------- MODULE CorrelationProofs -------------------------
(***************************************************************************)
(* Request correlation keeps its promises for every table size, time-out,  *)
(* clock range and set of messages, kinds, peers and tags.                 *)
(***************************************************************************)
EXTENDS Correlation, ClockProofs, FiniteSetTheorems, WellFoundedInduction

---------------------------------------------------------------------------
(* The tables.                                                             *)

\* Every entry of r is one of s in the same place: nothing was registered.
Sub(r, s) ==
  /\ \A i \in Slots : r.acks[i] = s.acks[i] \/ r.acks[i] = NoEntry
  /\ \A k \in AllKinds : r.pend[k] = s.pend[k] \/ r.pend[k] = NoEntry

\* Entry e stood in s in a place that is free in r.
Taken(e, r, s) ==
  \/ \E i \in Slots : e = s.acks[i] /\ r.acks[i] = NoEntry
  \/ \E k \in AllKinds : e = s.pend[k] /\ r.pend[k] = NoEntry

\* No two places hold the same request.
DistinctIds(s) ==
  /\ \A i, j \in Slots : s.acks[i] # NoEntry /\ s.acks[i].id = s.acks[j].id => i = j
  /\ \A k, l \in AllKinds : s.pend[k] # NoEntry /\ s.pend[k].id = s.pend[l].id => k = l
  /\ \A i \in Slots, k \in AllKinds : s.acks[i] # NoEntry => s.acks[i].id # s.pend[k].id

\* What a handler yields: a part of the table, and the entry it took from it.
Handled(h, s) ==
  /\ h.s \in Store
  /\ Sub(h.s, s)
  /\ h.s.ack_next = s.ack_next /\ h.s.last_unique = s.last_unique
  /\ h.credit = NoEntry \/ (h.credit # NoEntry /\ Taken(h.credit, h.s, s))

\* An entry is told from a free place by its number.
LEMMA EntryIds ==
  /\ \A e \in AckEntry \cup PendEntry : e # NoEntry /\ e.id \in 1 .. MaxRequests /\ e.expires \in Time
  /\ NoEntry.id = 0
  BY DEF AckEntry, PendEntry, NoEntry

\* The fields of a table.
LEMMA StoreFields ==
  ASSUME NEW s \in Store
  PROVE  /\ s.acks \in [Slots -> AckEntry \cup {NoEntry}] /\ s.ack_next \in Slots
         /\ s.pend \in [AllKinds -> PendEntry \cup {NoEntry}] /\ s.last_unique \in Nat
         /\ Entries(s) \subseteq AckEntry \cup PendEntry
         /\ NoEntry \notin Entries(s)
  BY DEF Store, Entries

\* The empty tables.
LEMMA ResetStore ==
  /\ Reset \in Store /\ Entries(Reset) = {}
  /\ \A i \in Slots : Reset.acks[i] = NoEntry
  /\ \A k \in AllKinds : Reset.pend[k] = NoEntry
<1>1. 0 \in Slots
  BY CorrelationAssumption DEF Slots
<1> QED
  BY <1>1 DEF Reset, Store, Entries

\* A part of a table has no entries of its own.
LEMMA SubEntries ==
  ASSUME NEW s \in Store, NEW r \in Store, Sub(r, s)
  PROVE  Entries(r) \subseteq Entries(s)
  BY DEF Sub, Entries

\* Parts of tables are transitive.
LEMMA SubTrans ==
  ASSUME NEW s, NEW r, NEW u, Sub(r, s), Sub(u, r)
  PROVE  Sub(u, s)
  BY DEF Sub

\* A part of a table with distinct requests has distinct requests.
LEMMA SubDistinct ==
  ASSUME NEW s \in Store, NEW r \in Store, Sub(r, s), DistinctIds(s)
  PROVE  DistinctIds(r)
<1>1. \A i, j \in Slots : r.acks[i] # NoEntry /\ r.acks[i].id = r.acks[j].id => i = j
  BY EntryIds, StoreFields DEF Sub, DistinctIds
<1>2. \A k, l \in AllKinds : r.pend[k] # NoEntry /\ r.pend[k].id = r.pend[l].id => k = l
  BY EntryIds, StoreFields DEF Sub, DistinctIds
<1>3. \A i \in Slots, k \in AllKinds : r.acks[i] # NoEntry => r.acks[i].id # r.pend[k].id
  BY EntryIds, StoreFields DEF Sub, DistinctIds
<1> QED
  BY <1>1, <1>2, <1>3 DEF DistinctIds

\* What was taken out of a table with distinct requests is no longer in it.
LEMMA TakenGone ==
  ASSUME NEW s \in Store, NEW r \in Store, Sub(r, s), DistinctIds(s),
         NEW e, e # NoEntry, Taken(e, r, s)
  PROVE  /\ e \in Entries(s)
         /\ \A f \in Entries(r) : f.id # e.id
<1>1. e \in Entries(s)
  BY DEF Taken, Entries
<1>2. ASSUME NEW f \in Entries(r) PROVE f.id # e.id
  <2>1. CASE \E i \in Slots : f = r.acks[i]
    BY <2>1, <1>2, EntryIds, StoreFields DEF Taken, Sub, DistinctIds, Entries
  <2>2. CASE \E k \in AllKinds : f = r.pend[k]
    BY <2>2, <1>2, EntryIds, StoreFields DEF Taken, Sub, DistinctIds, Entries
  <2> QED
    BY <1>2, <2>1, <2>2 DEF Entries
<1> QED
  BY <1>1, <1>2

---------------------------------------------------------------------------
(* The handlers.                                                           *)

\* The sweep leaves a part of the table, without expired entries.
LEMMA CleanupHandled ==
  ASSUME NEW s \in Store, NEW t \in Time
  PROVE  /\ Cleanup(s, t) \in Store /\ Sub(Cleanup(s, t), s)
         /\ Cleanup(s, t).ack_next = s.ack_next
         /\ Cleanup(s, t).last_unique = s.last_unique
         /\ \A e \in Entries(Cleanup(s, t)) : ~Expired(e, t)
         /\ \A e \in Entries(s) \ Entries(Cleanup(s, t)) : Expired(e, t)
<1> DEFINE r == Cleanup(s, t)
<1>1. /\ r.acks = [i \in Slots |-> IF Expired(s.acks[i], t) THEN NoEntry ELSE s.acks[i]]
      /\ r.pend = [k \in AllKinds |-> IF Expired(s.pend[k], t) THEN NoEntry ELSE s.pend[k]]
      /\ r.ack_next = s.ack_next /\ r.last_unique = s.last_unique
  BY DEF Cleanup, Store
<1>2. r \in Store
  BY StoreFields DEF Cleanup, Store
<1> HIDE DEF r
<1>3. Sub(r, s)
  BY <1>1 DEF Sub
<1>4. \A e \in Entries(r) : ~Expired(e, t)
  BY <1>1 DEF Entries
<1>5. \A e \in Entries(s) \ Entries(r) : Expired(e, t)
  BY <1>1 DEF Entries
<1> QED
  BY <1>1, <1>2, <1>3, <1>4, <1>5 DEF r

\* A non-empty set of numbers has a least one.
LEMMA LeastNat ==
  ASSUME NEW S \in SUBSET Nat, S # {}
  PROVE  \E x \in S : \A y \in S : x <= y
<1>1. PICK x \in S : \A y \in S : ~(<<y, x>> \in OpToRel(<, Nat))
  BY WFMin, NatLessThanWellFounded, Zenon
<1>2. \A y \in S : ~(y < x)
  BY <1>1 DEF OpToRel
<1> QED
  BY <1>2

\* A non-empty set of slots has a first one.
LEMMA MinSlot ==
  ASSUME NEW S \in SUBSET Slots, S # {}
  PROVE  Min(S) \in S /\ \A y \in S : Min(S) <= y
<1>1. S \subseteq Nat
  BY CorrelationAssumption DEF Slots
<1>2. \E x \in S : \A y \in S : x <= y
  BY <1>1, LeastNat
<1> QED
  BY <1>2 DEF Min

\* expected_ack_handle takes one fresh entry with the CRC, the first, or none.
LEMMA AckHandleHandled ==
  ASSUME NEW s \in Store, NEW crc, NEW t \in Time
  PROVE  LET h == AckHandle(s, crc, t) IN
         /\ Handled(h, s)
         /\ h.credit # NoEntry => \E i \in Slots : h.credit = s.acks[i] /\ h.credit.crc = crc
         /\ \A e \in Entries(s) \ Entries(h.s) : e = h.credit \/ Expired(e, t)
<1> DEFINE hits == {i \in Slots : Fresh(s.acks[i], t) /\ s.acks[i].crc = crc}
           stop == IF hits = {} THEN AckSlots ELSE Min(hits)
           h == AckHandle(s, crc, t)
           a == [i \in Slots |-> IF i = stop \/ (i < stop /\ Expired(s.acks[i], t))
                                 THEN NoEntry ELSE s.acks[i]]
<1>1. h = [s |-> [s EXCEPT !.acks = a], credit |-> IF hits = {} THEN NoEntry ELSE s.acks[stop]]
  BY DEF AckHandle
<1>2. hits # {} => stop \in hits /\ stop \in Slots
  BY MinSlot
<1>3. hits = {} => stop \notin Slots
  BY CorrelationAssumption DEF Slots
<1> HIDE DEF stop, h
<1>4. a \in [Slots -> AckEntry \cup {NoEntry}]
  BY StoreFields
<1>5. /\ h.s \in Store /\ h.s.acks = a /\ h.s.pend = s.pend
      /\ h.s.ack_next = s.ack_next /\ h.s.last_unique = s.last_unique
  BY <1>1, <1>4 DEF Store
<1>6. hits = {} => h.credit = NoEntry
  BY <1>1
<1>7. hits # {} => h.credit = s.acks[stop] /\ h.credit # NoEntry /\ h.credit.crc = crc
  BY <1>1, <1>2 DEF Fresh
<1>8. Sub(h.s, s)
  BY <1>5 DEF Sub
<1>9. hits # {} => a[stop] = NoEntry
  BY <1>2
<1>10. \A e \in Entries(s) \ Entries(h.s) : e = h.credit \/ Expired(e, t)
  <2> SUFFICES ASSUME NEW e \in Entries(s) \ Entries(h.s) PROVE e = h.credit \/ Expired(e, t)
    OBVIOUS
  <2>1. PICK i \in Slots : e = s.acks[i]
    BY <1>5 DEF Entries
  <2>2. a[i] # s.acks[i]
    BY <2>1, <1>5 DEF Entries
  <2>3. i = stop \/ Expired(s.acks[i], t)
    BY <2>2
  <2>4. i = stop => e = h.credit
    BY <2>1, <1>3, <1>7
  <2> QED
    BY <2>1, <2>3, <2>4
<1> QED
  BY <1>2, <1>5, <1>6, <1>7, <1>8, <1>9, <1>10 DEF Handled, Taken, h

\* A completed pending request leaves its slot, and nothing else does.
LEMMA CompleteHandled ==
  ASSUME NEW s \in Store, NEW k \in AllKinds, s.pend[k] # NoEntry
  PROVE  LET h == Complete(s, k) IN
         /\ Handled(h, s) /\ h.credit = s.pend[k]
         /\ h.s.acks = s.acks
         /\ \A l \in AllKinds : h.s.pend[l] = IF l = k THEN NoEntry ELSE s.pend[l]
<1> DEFINE h == Complete(s, k)
           p == [s.pend EXCEPT ![k] = NoEntry]
<1>1. h = [s |-> [s EXCEPT !.pend = p], credit |-> s.pend[k]]
  BY DEF Complete
<1>2. p \in [AllKinds -> PendEntry \cup {NoEntry}]
  BY StoreFields
<1> HIDE DEF h
<1>3. /\ h.s \in Store /\ h.s.acks = s.acks /\ h.s.pend = p /\ h.credit = s.pend[k]
      /\ h.s.ack_next = s.ack_next /\ h.s.last_unique = s.last_unique
  BY <1>1, <1>2 DEF Store
<1>4. \A l \in AllKinds : p[l] = IF l = k THEN NoEntry ELSE s.pend[l]
  BY StoreFields
<1> HIDE DEF p
<1>5. Sub(h.s, s) /\ Taken(h.credit, h.s, s)
  BY <1>3, <1>4 DEF Sub, Taken
<1> QED
  BY <1>3, <1>4, <1>5 DEF Handled, h

\* An answer that is ignored changes nothing.
LEMMA IgnoredHandled ==
  ASSUME NEW s \in Store
  PROVE  Handled(Ignored(s), s) /\ Ignored(s).s = s /\ Ignored(s).credit = NoEntry
  BY DEF Handled, Ignored, Sub

\* The pending slot whose request an answer to q completes under h.
Completes(h, s, q, k) ==
  h = Complete(s, k) /\ Matches(s.pend[k], q)

\* Every way of handling an answer, message by message and kind by kind.
LEMMA HandleCases ==
  ASSUME NEW s \in Store, NEW q, NEW t \in Time, NEW h \in Handle(s, q, t)
  PROVE  \/ q.kind = "message" /\ h = AckHandle(s, q.crc, t)
         \/ h = Ignored(s)
         \/ q.kind # "message" /\ \E k \in AllKinds : Completes(h, s, q, k)
         \/ /\ q.kind = "trace" /\ Matches(s.pend["trace"], q)
            /\ h = [Complete(s, "trace") EXCEPT !.credit = NoEntry]
<1>1. CASE q.kind = "message"
  BY <1>1 DEF Handle, PathAckHandle
<1>2. CASE q.kind = "trace"
  BY <1>2 DEF Handle, TraceHandle, Completes, AllKinds
<1>3. CASE q.kind # "message" /\ q.kind # "trace"
  BY <1>3 DEF Handle, ResponseHandle, PathResponseHandle, Completes, AllKinds
<1> QED
  BY <1>1, <1>2, <1>3

\* However it is handled, an answer removes at most what it is credited to, what
\* has expired and, if it is damaged, the trace it is about.
LEMMA HandleHandled ==
  ASSUME NEW s \in Store, NEW q, NEW t \in Time, NEW h \in Handle(s, q, t)
  PROVE  /\ Handled(h, s)
         /\ \A e \in Entries(s) \ Entries(h.s) :
              \/ e = h.credit
              \/ Expired(e, t)
              \/ q.kind = "trace" /\ e = s.pend["trace"] /\ q.tag = e.tag
<1>1. CASE h = AckHandle(s, q.crc, t)
  BY <1>1, AckHandleHandled
<1>2. CASE h = Ignored(s)
  BY <1>2, IgnoredHandled
<1>3. ASSUME NEW k \in AllKinds, Completes(h, s, q, k)
      PROVE  Handled(h, s) /\ \A e \in Entries(s) \ Entries(h.s) : e = h.credit
  <2>1. Handled(h, s) /\ h.credit = s.pend[k] /\ h.s.acks = s.acks
        /\ \A l \in AllKinds : h.s.pend[l] = IF l = k THEN NoEntry ELSE s.pend[l]
    BY <1>3, CompleteHandled DEF Completes, Matches
  <2> QED
    BY <2>1 DEF Entries
<1>4. CASE /\ q.kind = "trace" /\ Matches(s.pend["trace"], q)
           /\ h = [Complete(s, "trace") EXCEPT !.credit = NoEntry]
  <2> DEFINE g == Complete(s, "trace")
  <2>1. Handled(g, s) /\ g.s.acks = s.acks
        /\ \A l \in AllKinds : g.s.pend[l] = IF l = "trace" THEN NoEntry ELSE s.pend[l]
    BY <1>4, CompleteHandled DEF Matches, AllKinds
  <2>2. h.s = g.s /\ h.credit = NoEntry
    BY <1>4 DEF Complete
  <2> HIDE DEF g
  <2>3. Handled(h, s)
    BY <2>1, <2>2 DEF Handled
  <2>4. \A e \in Entries(s) \ Entries(h.s) : e = s.pend["trace"]
    BY <2>1, <2>2 DEF Entries
  <2> QED
    BY <2>3, <2>4, <1>4 DEF Matches
<1> QED
  BY <1>1, <1>2, <1>3, <1>4, HandleCases

---------------------------------------------------------------------------
(* Registration.                                                           *)

\* r is s with the entry e put into one place; what stood there gave way.
PutAck(r, s, e, i) ==
  /\ r.acks = [s.acks EXCEPT ![i] = e]
  /\ r.pend = s.pend
PutPend(r, s, e, k) ==
  /\ r.acks = s.acks
  /\ r.pend = [s.pend EXCEPT ![k] = e]
Put(r, s, e) ==
  \/ \E i \in Slots : PutAck(r, s, e, i)
  \/ \E k \in AllKinds : PutPend(r, s, e, k)

\* Putting an entry in adds nothing else, and the displaced one is unique.
LEMMA PutEntries ==
  ASSUME NEW s \in Store, NEW r \in Store, NEW e, e # NoEntry, Put(r, s, e)
  PROVE  /\ Entries(r) \subseteq Entries(s) \cup {e}
         /\ e \in Entries(r)
         /\ \E d : Entries(s) \ Entries(r) \subseteq {d}
<1>1. CASE \E i \in Slots : PutAck(r, s, e, i)
  <2>1. PICK i \in Slots : PutAck(r, s, e, i)
    BY <1>1
  <2>2. \A j \in Slots : r.acks[j] = IF j = i THEN e ELSE s.acks[j]
    BY <2>1, StoreFields DEF PutAck
  <2>3. Entries(s) \ Entries(r) \subseteq {s.acks[i]}
    BY <2>1, <2>2 DEF Entries, PutAck
  <2> QED
    BY <2>1, <2>2, <2>3 DEF Entries, PutAck
<1>2. CASE \E k \in AllKinds : PutPend(r, s, e, k)
  <2>1. PICK k \in AllKinds : PutPend(r, s, e, k)
    BY <1>2
  <2>2. \A l \in AllKinds : r.pend[l] = IF l = k THEN e ELSE s.pend[l]
    BY <2>1, StoreFields DEF PutPend
  <2>3. Entries(s) \ Entries(r) \subseteq {s.pend[k]}
    BY <2>1, <2>2 DEF Entries, PutPend
  <2> QED
    BY <2>1, <2>2, <2>3 DEF Entries, PutPend
<1> QED
  BY <1>1, <1>2 DEF Put

\* A new number keeps the numbers distinct.
LEMMA PutDistinct ==
  ASSUME NEW s \in Store, NEW r \in Store, NEW e, e # NoEntry, Put(r, s, e),
         DistinctIds(s), e.id # 0, \A f \in Entries(s) : f.id # e.id
  PROVE  DistinctIds(r)
<1>0. /\ \A j \in Slots : s.acks[j].id # e.id
      /\ \A l \in AllKinds : s.pend[l].id # e.id
  BY EntryIds, StoreFields DEF Entries
<1>1. CASE \E i \in Slots : PutAck(r, s, e, i)
  <2>1. PICK i \in Slots : PutAck(r, s, e, i)
    BY <1>1
  <2>2. \A j \in Slots : r.acks[j] = IF j = i THEN e ELSE s.acks[j]
    BY <2>1, StoreFields DEF PutAck
  <2>3. r.pend = s.pend
    BY <2>1 DEF PutAck
  <2> QED
    BY <1>0, <2>2, <2>3 DEF DistinctIds
<1>2. CASE \E k \in AllKinds : PutPend(r, s, e, k)
  <2>1. PICK k \in AllKinds : PutPend(r, s, e, k)
    BY <1>2
  <2>2. \A l \in AllKinds : r.pend[l] = IF l = k THEN e ELSE s.pend[l]
    BY <2>1, StoreFields DEF PutPend
  <2>3. r.acks = s.acks
    BY <2>1 DEF PutPend
  <2> QED
    BY <1>0, <2>2, <2>3 DEF DistinctIds
<1> QED
  BY <1>1, <1>2 DEF Put

\* The slot a new message takes; it takes a waiting one's only if all are waiting.
LEMMA AckSlotIs ==
  ASSUME NEW s \in Store, NEW t \in Time
  PROVE  /\ AckSlot(s, t) \in Slots
         /\ Fresh(s.acks[AckSlot(s, t)], t) => \A i \in Slots : Fresh(s.acks[i], t)
<1> DEFINE usable == {n \in Slots : ~Fresh(s.acks[(s.ack_next + n) % AckSlots], t)}
<1>1. s.ack_next \in Slots /\ AckSlots \in Nat \ {0}
  BY StoreFields, CorrelationAssumption
<1>2. CASE usable = {}
  <2>1. AckSlot(s, t) = s.ack_next
    BY <1>2 DEF AckSlot
  <2>2. ASSUME NEW i \in Slots PROVE Fresh(s.acks[i], t)
    <3> DEFINE n == IF i >= s.ack_next THEN i - s.ack_next ELSE i - s.ack_next + AckSlots
    <3>1. n \in Slots
      BY <1>1, <2>2 DEF Slots
    <3>2. (s.ack_next + n) % AckSlots = i
      BY <1>1, <2>2 DEF Slots
    <3> QED
      BY <3>1, <3>2, <1>2
  <2> QED
    BY <2>1, <2>2, <1>1
<1>3. CASE usable # {}
  <2>1. Min(usable) \in usable
    BY <1>3, MinSlot
  <2>2. AckSlot(s, t) = (s.ack_next + Min(usable)) % AckSlots
    BY <1>3 DEF AckSlot
  <2>3. \A x, y \in Slots : (x + y) % AckSlots \in Slots
    BY <1>1 DEF Slots
  <2> QED
    BY <1>1, <2>1, <2>2, <2>3
<1> QED
  BY <1>2, <1>3

\* expected_ack_register puts a message with a CRC in, and forgets one without.
LEMMA AckRegisterPuts ==
  ASSUME NEW s \in Store, NEW q, NEW t \in Time,
         q.id \in 1 .. MaxRequests, q.crc \in Crc, q.peer \in Peers, q.attempt \in Attempt
  PROVE  LET r == AckRegister(s, q, t)
             e == [id |-> q.id, crc |-> q.crc, peer |-> q.peer, attempt |-> q.attempt,
                   expires |-> Later(t, Timeout)]
         IN /\ r \in Store /\ r.last_unique = s.last_unique
            /\ e \in AckEntry
            /\ r = s \/ PutAck(r, s, e, AckSlot(s, t))
<1> DEFINE r == AckRegister(s, q, t)
           e == [id |-> q.id, crc |-> q.crc, peer |-> q.peer, attempt |-> q.attempt,
                 expires |-> Later(t, Timeout)]
           slot == AckSlot(s, t)
           a == [s.acks EXCEPT ![slot] = e]
<1>1. Later(t, Timeout) \in Time
  BY ClockAssumption, CorrelationAssumption DEF Later, Time, Half
<1>2. e \in AckEntry
  BY <1>1 DEF AckEntry
<1>3. slot \in Slots /\ (slot + 1) % AckSlots \in Slots
  BY AckSlotIs, CorrelationAssumption DEF Slots
<1>4. r = IF q.crc \in ZeroCrcs THEN s
          ELSE [s EXCEPT !.acks = a, !.ack_next = (slot + 1) % AckSlots]
  BY DEF AckRegister
<1> HIDE DEF r, e, slot
<1>5. a \in [Slots -> AckEntry \cup {NoEntry}]
  BY <1>2, StoreFields
<1> HIDE DEF a
<1>6. CASE q.crc \notin ZeroCrcs
  <2>1. r \in Store /\ r.last_unique = s.last_unique /\ r.acks = a /\ r.pend = s.pend
    BY <1>6, <1>3, <1>4, <1>5 DEF Store
  <2> QED
    BY <2>1, <1>2 DEF PutAck, a, e, r, slot
<1>7. CASE q.crc \in ZeroCrcs
  BY <1>7, <1>4, <1>2 DEF e, r
<1> QED
  BY <1>6, <1>7

\* pending_*_register puts the request into the slot of its kind.
LEMMA PendRegisterPuts ==
  ASSUME NEW s \in Store, NEW q, NEW t \in Time,
         q.id \in 1 .. MaxRequests, q.tag \in Nat \ {0}, q.kind \in AllKinds,
         q.peer \in Peers \cup {Nobody}
  PROVE  LET r == PendRegister(s, q, t)
             e == [id |-> q.id, tag |-> q.tag, peer |-> q.peer, expires |-> Later(t, Timeout)]
         IN /\ r \in Store /\ r.last_unique = s.last_unique
            /\ e \in PendEntry
            /\ PutPend(r, s, e, q.kind)
<1> DEFINE r == PendRegister(s, q, t)
           e == [id |-> q.id, tag |-> q.tag, peer |-> q.peer, expires |-> Later(t, Timeout)]
           p == [s.pend EXCEPT ![q.kind] = e]
<1>1. Later(t, Timeout) \in Time
  BY ClockAssumption, CorrelationAssumption DEF Later, Time, Half
<1>2. e \in PendEntry
  BY <1>1 DEF PendEntry
<1>3. r = [s EXCEPT !.pend = p]
  BY DEF PendRegister
<1> HIDE DEF r, e
<1>4. p \in [AllKinds -> PendEntry \cup {NoEntry}]
  BY <1>2, StoreFields
<1> HIDE DEF p
<1>5. r \in Store /\ r.last_unique = s.last_unique /\ r.acks = s.acks /\ r.pend = p
  BY <1>3, <1>4 DEF Store
<1> QED
  BY <1>5, <1>2 DEF PutPend, r, e, p

\* Drawing a tag touches no entry, and the tag is never 0.
LEMMA DrawTagIs ==
  ASSUME NEW s \in Store, NEW kind, NEW given \in CallerTags, rtc \in RtcTimes
  PROVE  LET r == DrawTag(s, kind, given) IN
         /\ r \in Store /\ r.acks = s.acks /\ r.pend = s.pend
         /\ Entries(r) = Entries(s) /\ r.last_unique >= s.last_unique
         /\ TagOf(s, given) \in Nat \ {0}
         /\ given = 0 => /\ r.last_unique = TagOf(s, given)
                         /\ TagOf(s, given) > s.last_unique
<1> DEFINE r == DrawTag(s, kind, given)
<1>1. s.last_unique \in Nat /\ rtc \in Nat \ {0} /\ given \in Nat
  BY StoreFields, CorrelationAssumption
<1>2. UniqueTime(s) \in Nat \ {0} /\ UniqueTime(s) > s.last_unique
  BY <1>1 DEF UniqueTime
<1>3. /\ r \in Store /\ r.acks = s.acks /\ r.pend = s.pend
      /\ r.last_unique = IF given = 0 \/ kind = "binary" THEN UniqueTime(s) ELSE s.last_unique
  BY <1>2 DEF DrawTag, Store
<1> HIDE DEF r
<1>4. Entries(r) = Entries(s)
  BY <1>3 DEF Entries
<1>5. /\ r.last_unique >= s.last_unique /\ TagOf(s, given) \in Nat \ {0}
      /\ given = 0 => r.last_unique = TagOf(s, given) /\ TagOf(s, given) > s.last_unique
  BY <1>1, <1>2, <1>3 DEF TagOf
<1> QED
  BY <1>3, <1>4, <1>5 DEF r

---------------------------------------------------------------------------
(* The timer.                                                              *)

\* An entry has its time-out ahead of it, or behind it by l at most.
Waits(e, t) == Elapsed(t, e.expires) \in 1 .. Timeout
Due(e, t, l) == Waits(e, t) \/ Elapsed(e.expires, t) <= l

\* The timer tm is no later than the next time-out, and has expired, for no
\* longer than l, if a time-out is past.
Watched(s, t, tm, l) ==
  /\ \A e \in Entries(s) :
       \/ /\ Waits(e, t) /\ tm \in Time
          /\ Reached(tm, t) \/ Elapsed(t, tm) <= Elapsed(t, e.expires)
       \/ Elapsed(e.expires, t) <= l /\ Reached(tm, t)
  /\ Reached(tm, t) => Elapsed(tm, t) <= l

\* The ranges the time-outs are in.
LEMMA Ranges ==
  /\ Timeout \in 1 .. Half - 1 /\ MaxLate \in 0 .. Half - 1 /\ Half \in Nat
  /\ 2 * Half = ClockMod /\ ClockMod \in Nat /\ NoTimer \notin Time /\ NoTimer \in Nat
  BY HalfIs, CorrelationAssumption, ClockAssumption DEF NoTimer, Time

\* A waiting entry is not expired; one behind by less than half a turn is.
LEMMA DueExpired ==
  ASSUME NEW e \in AckEntry \cup PendEntry, NEW t \in Time
  PROVE  /\ Waits(e, t) => ~Expired(e, t) /\ After(e.expires, t)
         /\ \A l \in 0 .. Half - 1 :
              Elapsed(e.expires, t) <= l => Expired(e, t) /\ ~After(e.expires, t)
<1>1. e # NoEntry /\ e.expires \in Time
  BY EntryIds
<1> DEFINE p == Elapsed(e.expires, t)
           f == Elapsed(t, e.expires)
<1>2. p \in Time /\ f \in Time /\ p = (IF f = 0 THEN 0 ELSE ClockMod - f)
  BY <1>1, Opposite
<1>3. After(e.expires, t) <=> f \in 1 .. Half - 1
  BY <1>1, AfterIs
<1> HIDE DEF p, f
<1>4. /\ Waits(e, t) <=> f \in 1 .. Timeout
      /\ Expired(e, t) <=> p < Half
  BY <1>1 DEF Waits, Expired, p, f
<1>5. p \in Nat /\ f \in Nat
  BY <1>2 DEF Time
<1>6. /\ Waits(e, t) => ~Expired(e, t) /\ After(e.expires, t)
      /\ \A l \in 0 .. Half - 1 : p <= l => Expired(e, t) /\ ~After(e.expires, t)
  BY <1>2, <1>3, <1>4, <1>5, Ranges
<1> QED
  BY <1>6 DEF p

\* A new entry waits.
LEMMA NewWaits ==
  ASSUME NEW t \in Time, NEW e, e.expires = Later(t, Timeout)
  PROVE  Waits(e, t)
<1>1. Timeout \in Time
  BY Ranges DEF Time
<1>2. Later(t, Timeout) = IF t + Timeout < ClockMod THEN t + Timeout ELSE t + Timeout - ClockMod
  BY <1>1, LaterIs
<1> DEFINE u == Later(t, Timeout)
<1>3. u \in Time
  BY <1>1, <1>2, Ranges DEF Time
<1>4. Elapsed(t, u) = IF t <= u THEN u - t ELSE u - t + ClockMod
  BY <1>3, ElapsedIs
<1>5. Elapsed(t, u) = Timeout
  BY <1>1, <1>2, <1>3, <1>4, Ranges DEF Time
<1> QED
  BY <1>5, Ranges DEF Waits

\* The deadline is now if something has expired, else the nearest time-out.
LEMMA DeadlineIs ==
  ASSUME NEW s \in Store, NEW t \in Time
  PROVE  LET D == Deadline(s, t) IN
         /\ Entries(s) = {} => D = NoTimer
         /\ (\E e \in Entries(s) : ~After(e.expires, t)) => D = t
         /\ Entries(s) # {} /\ (\A e \in Entries(s) : After(e.expires, t)) =>
              /\ \E e \in Entries(s) : D = e.expires
              /\ \A e \in Entries(s) : Elapsed(t, D) <= Elapsed(t, e.expires)
<1> DEFINE C == {e.expires : e \in Entries(s)}
           V == {Elapsed(t, x) : x \in C}
           D == Deadline(s, t)
<1>1. C \subseteq Time
  BY StoreFields, EntryIds
<1>2. V \subseteq Nat
  <2>1. \A x \in C : Elapsed(t, x) \in Time
    BY <1>1, Opposite
  <2> QED
    BY <2>1 DEF Time
<1>3. D = IF C = {} THEN NoTimer ELSE IF \E x \in C : ~After(x, t) THEN t
          ELSE CHOOSE x \in C : \A y \in C : Elapsed(t, x) <= Elapsed(t, y)
  BY DEF Deadline
<1>4. ASSUME C # {} PROVE \E x \in C : \A y \in C : Elapsed(t, x) <= Elapsed(t, y)
  <2>1. V # {}
    BY <1>4
  <2>2. \E v \in V : \A w \in V : v <= w
    BY <1>2, <2>1, LeastNat
  <2> QED
    BY <2>2
<1>5. (C = {}) <=> (Entries(s) = {})
  OBVIOUS
<1> HIDE DEF D
<1>6. ASSUME C # {}, \A x \in C : After(x, t)
      PROVE  D \in C /\ \A y \in C : Elapsed(t, D) <= Elapsed(t, y)
  BY <1>3, <1>4, <1>6
<1>7. Entries(s) = {} => D = NoTimer
  BY <1>3, <1>5
<1>8. (\E e \in Entries(s) : ~After(e.expires, t)) => D = t
  BY <1>3
<1> QED
  BY <1>5, <1>6, <1>7, <1>8 DEF D

\* timer_sync arms a timer that watches the tables.
LEMMA DeadlineWatches ==
  ASSUME NEW s \in Store, NEW t \in Time, NEW l \in 0 .. Half - 1,
         \A e \in Entries(s) : Due(e, t, l)
  PROVE  LET D == Deadline(s, t) IN
         /\ D \in Time \cup {NoTimer}
         /\ Watched(s, t, D, IF Reached(D, t) THEN l ELSE 0)
<1> DEFINE D == Deadline(s, t)
<1>1. /\ Entries(s) = {} => D = NoTimer
      /\ (\E e \in Entries(s) : ~After(e.expires, t)) => D = t
      /\ Entries(s) # {} /\ (\A e \in Entries(s) : After(e.expires, t)) =>
           /\ \E e \in Entries(s) : D = e.expires
           /\ \A e \in Entries(s) : Elapsed(t, D) <= Elapsed(t, e.expires)
  BY DeadlineIs
<1> HIDE DEF D
<1>2. \A e \in Entries(s) : e \in AckEntry \cup PendEntry /\ e.expires \in Time
  BY StoreFields, EntryIds
<1>3. CASE Entries(s) = {}
  BY <1>1, <1>3 DEF Watched, Reached, D
<1>4. CASE \E e \in Entries(s) : ~After(e.expires, t)
  <2>1. D = t
    BY <1>1, <1>4
  <2>2. Elapsed(t, t) = 0 /\ Reached(t, t)
    BY ElapsedIs, AfterIs, Ranges DEF Reached, Time
  <2>3. Watched(s, t, t, l)
    BY <2>2 DEF Watched, Due
  <2> QED
    BY <2>1, <2>2, <2>3 DEF D
<1>5. CASE Entries(s) # {} /\ \A e \in Entries(s) : After(e.expires, t)
  <2>1. D \in Time /\ After(D, t)
    BY <1>1, <1>2, <1>5
  <2>2. ~Reached(D, t)
    BY <2>1 DEF Reached
  <2>3. \A e \in Entries(s) : Waits(e, t)
    BY <1>2, <1>5, DueExpired DEF Due
  <2>4. Watched(s, t, D, 0)
    BY <2>1, <2>2, <2>3, <1>1, <1>5 DEF Watched
  <2> QED
    BY <2>1, <2>2, <2>4 DEF D
<1> QED
  BY <1>3, <1>4, <1>5

\* A timer that watches the tables still does one tick later.
LEMMA TickWatches ==
  ASSUME NEW s \in Store, NEW t \in Time, NEW tm \in Time \cup {NoTimer},
         NEW l \in 0 .. MaxLate, Watched(s, t, tm, l), Reached(tm, t) => l < MaxLate
  PROVE  Watched(s, Later(t, 1), tm, IF Reached(tm, t) THEN l + 1 ELSE 0)
<1> DEFINE u == Later(t, 1)
           k == IF Reached(tm, t) THEN l + 1 ELSE 0
<1>1. u \in Time /\ k \in 0 .. MaxLate
  BY TickDistance, Ranges DEF Time
<1>2. \A a \in Time : /\ Elapsed(t, a) # 0 => Elapsed(u, a) = Elapsed(t, a) - 1
                      /\ Elapsed(a, t) # ClockMod - 1 => Elapsed(a, u) = Elapsed(a, t) + 1
  BY TickDistance
<1> HIDE DEF u
<1>3. \A e \in Entries(s) : e \in AckEntry \cup PendEntry /\ e.expires \in Time
  BY StoreFields, EntryIds
<1>4. \A a \in Time : /\ Elapsed(t, a) \in Nat /\ Elapsed(a, t) \in Nat /\ Elapsed(u, a) \in Nat
                      /\ Elapsed(a, u) \in Nat
                      /\ Elapsed(a, u) = IF Elapsed(u, a) = 0 THEN 0 ELSE ClockMod - Elapsed(u, a)
                      /\ Elapsed(a, t) = IF Elapsed(t, a) = 0 THEN 0 ELSE ClockMod - Elapsed(t, a)
  BY <1>1, Opposite DEF Time
<1>5. tm = NoTimer => ~Reached(tm, t) /\ ~Reached(tm, u) /\ tm \notin Time
  BY Ranges DEF Reached
<1>6. tm \in Time => /\ Reached(tm, t) <=> Elapsed(t, tm) \notin 1 .. Half - 1
                     /\ Reached(tm, u) <=> Elapsed(u, tm) \notin 1 .. Half - 1
  BY <1>1, AfterIs, Ranges DEF Reached
<1>7. Reached(tm, u) => Elapsed(tm, u) <= k
  BY <1>1, <1>2, <1>4, <1>5, <1>6, Ranges DEF Watched
<1>8. Reached(tm, t) => Reached(tm, u)
  BY <1>1, <1>2, <1>4, <1>5, <1>6, Ranges DEF Watched
<1>9. ASSUME NEW e \in Entries(s)
      PROVE  \/ /\ Waits(e, u) /\ tm \in Time
                /\ Reached(tm, u) \/ Elapsed(u, tm) <= Elapsed(u, e.expires)
             \/ Elapsed(e.expires, u) <= k /\ Reached(tm, u)
  <2> DEFINE x == e.expires
  <2>1. x \in Time
    BY <1>3
  <2>2. CASE /\ Waits(e, t) /\ tm \in Time
             /\ Reached(tm, t) \/ Elapsed(t, tm) <= Elapsed(t, x)
    <3>1. Elapsed(t, x) \in 1 .. Timeout /\ Elapsed(u, x) = Elapsed(t, x) - 1
      BY <2>1, <2>2, <1>2 DEF Waits
    <3>2. CASE Reached(tm, t)
      BY <3>1, <3>2, <2>1, <2>2, <1>4, <1>8, <1>1, Ranges DEF Waits
    <3>3. CASE ~Reached(tm, t)
      <4>1. Elapsed(t, tm) \in 1 .. Half - 1 /\ Elapsed(u, tm) = Elapsed(t, tm) - 1
        BY <3>3, <2>2, <1>2, <1>6
      <4>2. Elapsed(t, tm) <= Elapsed(t, x)
        BY <3>3, <2>2
      <4> QED
        BY <4>1, <4>2, <3>1, <2>1, <2>2, <1>4, <1>6, <1>1, Ranges DEF Waits
    <3> QED
      BY <3>2, <3>3
  <2>3. CASE Elapsed(x, t) <= l /\ Reached(tm, t)
    BY <2>1, <2>3, <1>2, <1>4, <1>8, Ranges
  <2> QED
    BY <2>2, <2>3 DEF Watched
<1> QED
  BY <1>7, <1>9 DEF Watched, u

---------------------------------------------------------------------------
(* The inductive invariant.                                                *)

\* Requests are numbered as they are made, and only those are waited for.
Counted ==
  /\ IsFiniteSet(asked)
  /\ \A q \in asked : q.id \in 1 .. Cardinality(asked)
  /\ \A e \in Entries(c) : \E q \in asked : q.id = e.id

\* The timer watches the tables, which are empty while the runtime is down.
TimerInv == IF up THEN Watched(c, now, timer, late) ELSE c = Reset

Inv ==
  /\ TypeOK
  /\ Counted
  /\ DistinctIds(c)
  /\ AtMostOnce
  /\ CreditedInTime
  /\ TimerInv

\* What the invariant says of the entries and the timer while the node is up.
LEMMA InvDue ==
  ASSUME Inv, up
  PROVE  \A e \in Entries(c) :
           /\ Due(e, now, late)
           /\ Expired(e, now) => Reached(timer, now) /\ Elapsed(e.expires, now) <= late
<1> SUFFICES ASSUME NEW e \in Entries(c)
             PROVE  /\ Due(e, now, late)
                    /\ Expired(e, now) => Reached(timer, now) /\ Elapsed(e.expires, now) <= late
  OBVIOUS
<1>1. e \in AckEntry \cup PendEntry /\ now \in Time
  BY StoreFields DEF Inv, TypeOK
<1>2. Waits(e, now) => ~Expired(e, now)
  BY <1>1, DueExpired
<1> QED
  BY <1>2 DEF Inv, TimerInv, Watched, Due

\* A new request has a new number.
LEMMA AskCounts ==
  ASSUME Inv, NEW q, q.id = NextId, Ask(q)
  PROVE  /\ IsFiniteSet(asked') /\ Cardinality(asked') = NextId /\ NextId \in Nat
         /\ \A p \in asked' : p.id \in 1 .. Cardinality(asked')
         /\ \A p \in asked : p.id # NextId
         /\ \A e \in Entries(c) : e.id # NextId
<1>1. IsFiniteSet(asked) /\ Cardinality(asked) \in Nat
  BY FS_CardinalityType DEF Inv, Counted
<1>2. \A p \in asked : p.id \in 1 .. Cardinality(asked)
  BY DEF Inv, Counted
<1>3. q \notin asked
  BY <1>1, <1>2 DEF NextId
<1>4. IsFiniteSet(asked') /\ Cardinality(asked') = Cardinality(asked) + 1
  BY <1>1, <1>3, FS_AddElement DEF Ask
<1>5. \A e \in Entries(c) : e.id \in 1 .. Cardinality(asked)
  BY <1>2 DEF Inv, Counted
<1>6. NextId = Cardinality(asked) + 1 /\ asked' = asked \cup {q}
  BY DEF Ask, NextId
<1>7. \A p \in asked' : p.id \in 1 .. NextId
  BY <1>1, <1>2, <1>6
<1>8. /\ \A p \in asked : p.id # NextId
      /\ \A e \in Entries(c) : e.id # NextId
  BY <1>1, <1>2, <1>5, <1>6
<1> QED
  BY <1>1, <1>4, <1>6, <1>7, <1>8

\* A call that takes entries out, reporting those numbered in X, keeps the invariant.
LEMMA PartStep ==
  ASSUME Inv, up, UNCHANGED <<now, rtc, up, asked>>,
         c' \in Store, Sub(c', c), timer' = Deadline(c', now),
         NEW l \in 0 .. MaxLate, \A e \in Entries(c') : Due(e, now, l),
         late' = IF Reached(timer', now) THEN l ELSE 0,
         NEW X, \A x \in X : \E e \in Entries(c) : x = e.id,
         \A e \in Entries(c') : e.id \notin X,
         done' = done \cup X, CreditedInTime'
  PROVE  Inv'
<1>1. Entries(c') \subseteq Entries(c)
  BY SubEntries DEF Inv, TypeOK
<1>2. now \in Time /\ l \in 0 .. Half - 1
  BY Ranges DEF Inv, TypeOK
<1>3. timer' \in Time \cup {NoTimer} /\ Watched(c', now, timer', late')
  BY <1>2, DeadlineWatches
<1>4. late' \in 0 .. MaxLate
  BY Ranges
<1>5. TypeOK'
  BY <1>3, <1>4 DEF Inv, TypeOK, Counted
<1>6. Counted'
  BY <1>1 DEF Inv, Counted
<1>7. DistinctIds(c)'
  BY SubDistinct DEF Inv, TypeOK
<1>8. AtMostOnce'
  BY <1>1 DEF Inv, AtMostOnce
<1>9. TimerInv'
  BY <1>3 DEF TimerInv
<1> QED
  BY <1>5, <1>6, <1>7, <1>8, <1>9 DEF Inv

\* A call that makes the request q and may enter it keeps the invariant.
LEMMA RequestStep ==
  ASSUME Inv, up, UNCHANGED <<now, rtc, up>>, NextId <= MaxRequests,
         NEW q, q.id = NextId, Ask(q),
         c' \in Store, NEW e \in AckEntry \cup PendEntry,
         e.id = NextId, e.expires = Later(now, Timeout),
         Sub(c', c) \/ Put(c', c, e),
         timer' = Deadline(c', now), KeepWaiting, Quiet
  PROVE  Inv'
<1>1. Entries(c') \subseteq Entries(c) \cup {e}
  BY SubEntries, PutEntries, EntryIds DEF Inv, TypeOK
<1>2. now \in Time /\ late \in 0 .. Half - 1 /\ late \in 0 .. MaxLate
  BY Ranges DEF Inv, TypeOK
<1>3. \A f \in Entries(c') : Due(f, now, late)
  BY <1>1, <1>2, InvDue, NewWaits DEF Due
<1>4. timer' \in Time \cup {NoTimer} /\ Watched(c', now, timer', late')
  BY <1>2, <1>3, DeadlineWatches DEF KeepWaiting
<1>5. late' \in 0 .. MaxLate
  BY <1>2, Ranges DEF KeepWaiting
<1>6. /\ IsFiniteSet(asked') /\ Cardinality(asked') = NextId /\ NextId \in Nat
      /\ \A p \in asked' : p.id \in 1 .. Cardinality(asked')
      /\ \A f \in Entries(c) : f.id # NextId
      /\ \A p \in asked : p.id # NextId
  BY AskCounts
<1>7. \A p \in asked' : p.id \in 1 .. MaxRequests
  BY <1>6, CorrelationAssumption
<1>8. TypeOK'
  BY <1>4, <1>5, <1>7 DEF Inv, TypeOK, Quiet, Ask
<1>9. Counted'
  BY <1>1, <1>6 DEF Inv, Counted, Ask
<1>10. DistinctIds(c)'
  <2>1. CASE Sub(c', c)
    BY <2>1, SubDistinct DEF Inv, TypeOK
  <2>2. CASE Put(c', c, e)
    <3>1. e # NoEntry /\ e.id # 0
      BY EntryIds
    <3> QED
      BY <2>2, <3>1, <1>6, PutDistinct DEF Inv, TypeOK
  <2> QED
    BY <2>1, <2>2
<1>11. AtMostOnce'
  BY <1>1, <1>6 DEF Inv, TypeOK, AtMostOnce, Quiet
<1>12. CreditedInTime'
  BY DEF CreditedInTime, Quiet, NoOutcome
<1>13. TimerInv'
  BY <1>4 DEF TimerInv
<1> QED
  BY <1>8, <1>9, <1>10, <1>11, <1>12, <1>13 DEF Inv

\* Handling an answer on a part s of the tables, entered at most l ago.
LEMMA ReportStep ==
  ASSUME Inv, up, UNCHANGED <<now, rtc, up, asked>>,
         NEW s \in Store, Sub(s, c), NEW l \in 0 .. MaxLate,
         \A e \in Entries(s) : Due(e, now, l),
         NEW q, NEW h \in Handle(s, q, now), Report(q, h),
         late' = IF Reached(timer', now) THEN l ELSE 0
  PROVE  Inv'
<1>1. now \in Time /\ c \in Store /\ DistinctIds(c)
  BY DEF Inv, TypeOK
<1>2. Handled(h, s)
  BY <1>1, HandleHandled
<1>3. /\ c' = h.s /\ timer' = Deadline(c', now) /\ outcome'.credit = h.credit
      /\ done' = done \cup ({h.credit.id} \ {NoEntry.id})
  BY DEF Report, Finish
<1>4. c' \in Store /\ Sub(c', s) /\ Sub(c', c) /\ DistinctIds(s)
  BY <1>1, <1>2, <1>3, SubTrans, SubDistinct DEF Handled
<1>5. Entries(c') \subseteq Entries(s) /\ Entries(s) \subseteq Entries(c)
  BY <1>1, <1>4, SubEntries
<1>6. h.credit # NoEntry => /\ h.credit \in Entries(s)
                            /\ \A f \in Entries(c') : f.id # h.credit.id
  BY <1>2, <1>3, <1>4, TakenGone DEF Handled
<1>7. CreditedInTime'
  <2>1. h.credit # NoEntry /\ Expired(h.credit, now) => Elapsed(h.credit.expires, now) <= l
    BY <1>1, <1>6, StoreFields, DueExpired DEF Due
  <2>2. h.credit # NoEntry => Elapsed(h.credit.expires, now) \in Nat
    <3> SUFFICES ASSUME h.credit # NoEntry PROVE Elapsed(h.credit.expires, now) \in Nat
      OBVIOUS
    <3>1. h.credit.expires \in Time
      BY <1>6, StoreFields, EntryIds
    <3>2. Elapsed(h.credit.expires, now) \in Time
      BY <1>1, <3>1, Opposite
    <3> QED
      BY <3>2 DEF Time
  <2>3. l <= MaxLate /\ l \in Nat /\ MaxLate \in Nat
    BY Ranges
  <2> QED
    BY <2>1, <2>2, <2>3, <1>3 DEF CreditedInTime
<1> DEFINE X == {h.credit.id} \ {NoEntry.id}
<1>8. /\ \A x \in X : \E e \in Entries(c) : x = e.id
      /\ \A e \in Entries(c') : e.id \notin X
  <2>1. CASE h.credit = NoEntry
    BY <2>1
  <2>2. CASE h.credit # NoEntry
    BY <2>2, <1>5, <1>6
  <2> QED
    BY <2>1, <2>2
<1>9. \A e \in Entries(c') : Due(e, now, l)
  BY <1>5
<1> HIDE DEF X
<1>10. done' = done \cup X
  BY <1>3 DEF X
<1> QED
  BY <1>3, <1>4, <1>7, <1>8, <1>9, <1>10, PartStep

\* The invariant holds at start.
LEMMA InitInv == Init => Inv
<1> SUFFICES ASSUME Init PROVE Inv
  OBVIOUS
<1>0. StartTimes \subseteq Time /\ 0 \in 0 .. MaxLate /\ Reset \in Store
  BY ResetStore, CorrelationAssumption, Ranges
<1>1. TypeOK
  BY <1>0 DEF Init, TypeOK
<1>2. Counted /\ AtMostOnce
  BY ResetStore, FS_EmptySet DEF Init, Counted, AtMostOnce
<1>3. DistinctIds(c)
  BY ResetStore DEF Init, DistinctIds
<1>4. CreditedInTime /\ TimerInv
  BY DEF Init, CreditedInTime, NoOutcome, TimerInv
<1> QED
  BY <1>1, <1>2, <1>3, <1>4 DEF Inv

\* The request a text message makes.
MessageRequest(m) ==
  [id |-> NextId, kind |-> "message", peer |-> m.peer, attempt |-> m.attempt,
   crc |-> AckCrc(m)]

\* A text message makes its request, and gives way to none that is fresh unless
\* the whole table is.
LEMMA SendMessageIs ==
  ASSUME Inv, NEW m \in Messages, SendMessage(m, TRUE)
  PROVE  /\ Ask(MessageRequest(m)) /\ Quiet /\ c' \in Store
         /\ c'.last_unique = c.last_unique
         /\ \E e \in AckEntry :
              /\ e = [id |-> NextId, crc |-> AckCrc(m), peer |-> m.peer,
                      attempt |-> m.attempt, expires |-> Later(now, Timeout)]
              /\ c' = c \/ PutAck(c', c, e, AckSlot(c, now))
<1> DEFINE q == MessageRequest(m)
<1>1. /\ Ask(q) /\ Quiet /\ c' = AckRegister(c, q, now) /\ NextId <= MaxRequests
  BY DEF SendMessage, Finish, MessageRequest
<1>2. now \in Time /\ c \in Store /\ rtc \in RtcTimes
  BY DEF Inv, TypeOK
<1>3. NextId \in 1 .. MaxRequests
  BY <1>1, FS_CardinalityType, CorrelationAssumption DEF Inv, Counted, NextId
<1>4. m.peer \in Peers /\ m.attempt \in Attempt
  BY CorrelationAssumption
<1>5. m.attempt % 4 \in 0 .. 3
  BY <1>4 DEF Attempt
<1>6. AckCrc(m) \in Crc
  BY <1>2, <1>5 DEF AckCrc, Crc
<1>7. q.id = NextId /\ q.crc = AckCrc(m) /\ q.peer = m.peer /\ q.attempt = m.attempt
  BY DEF MessageRequest
<1> HIDE DEF q
<1> QED
  BY <1>1, <1>2, <1>3, <1>4, <1>6, <1>7, AckRegisterPuts DEF q

\* The request a tagged request makes.
TagRequest(kind, peer, given) ==
  [id |-> NextId, kind |-> kind, tag |-> TagOf(c, given),
   peer |-> IF kind = "trace" THEN Nobody ELSE peer]

\* A tagged request makes its request and takes the slot of its kind.
LEMMA TaggedRequestIs ==
  ASSUME Inv, NEW kind \in Kinds, NEW peer \in Peers, NEW given \in CallerTags,
         TaggedRequest(kind, peer, given, TRUE)
  PROVE  LET q == TagRequest(kind, peer, given) IN
         /\ Ask(q) /\ Quiet /\ c' \in Store
         /\ c'.last_unique = DrawTag(c, kind, given).last_unique
         /\ \E e \in PendEntry :
              /\ e = [id |-> NextId, tag |-> q.tag, peer |-> q.peer,
                      expires |-> Later(now, Timeout)]
              /\ PutPend(c', c, e, kind)
<1> DEFINE q == TagRequest(kind, peer, given)
           s == DrawTag(c, kind, given)
<1>1. /\ Ask(q) /\ Quiet /\ c' = PendRegister(s, q, now) /\ NextId <= MaxRequests
  BY DEF TaggedRequest, Finish, TagRequest
<1>2. now \in Time /\ c \in Store /\ rtc \in RtcTimes
  BY DEF Inv, TypeOK
<1>3. NextId \in 1 .. MaxRequests
  BY <1>1, FS_CardinalityType, CorrelationAssumption DEF Inv, Counted, NextId
<1>4. s \in Store /\ s.acks = c.acks /\ s.pend = c.pend /\ TagOf(c, given) \in Nat \ {0}
  BY <1>2, DrawTagIs
<1>5. q.id = NextId /\ q.kind = kind /\ q.tag = TagOf(c, given) /\ q.peer \in Peers \cup {Nobody}
  BY DEF TagRequest
<1>6. kind \in AllKinds
  BY CorrelationAssumption
<1> HIDE DEF q, s
<1>7. /\ c' \in Store /\ c'.last_unique = s.last_unique
      /\ \E e \in PendEntry :
           /\ e = [id |-> NextId, tag |-> q.tag, peer |-> q.peer, expires |-> Later(now, Timeout)]
           /\ PutPend(c', s, e, kind)
  BY <1>1, <1>2, <1>3, <1>4, <1>5, <1>6, PendRegisterPuts
<1>8. \A e : PutPend(c', s, e, kind) => PutPend(c', c, e, kind)
  BY <1>4 DEF PutPend
<1> QED
  BY <1>1, <1>7, <1>8 DEF q, s

\* A call that sends nothing leaves the entries alone.
LEMMA UnsentStep ==
  ASSUME Inv, up, UNCHANGED <<now, rtc, up, asked>>, c' \in Store,
         c'.acks = c.acks, c'.pend = c.pend, timer' = Deadline(c', now), KeepWaiting, Quiet
  PROVE  Inv'
<1>1. Sub(c', c) /\ Entries(c') = Entries(c)
  BY DEF Sub, Entries
<1>2. late \in 0 .. MaxLate /\ \A e \in Entries(c') : Due(e, now, late)
  BY <1>1, InvDue DEF Inv, TypeOK
<1>3. CreditedInTime'
  BY DEF CreditedInTime, Quiet, NoOutcome
<1>4. PICK X : X = {}
  OBVIOUS
<1>5. /\ \A x \in X : \E e \in Entries(c) : x = e.id
      /\ \A e \in Entries(c') : e.id \notin X
      /\ done' = done \cup X
  BY <1>4 DEF Quiet
<1> QED
  BY <1>1, <1>2, <1>3, <1>5, PartStep DEF KeepWaiting

\* Every step keeps the invariant.
LEMMA NextInv == Inv /\ [Next]_vars => Inv'
<1> SUFFICES ASSUME Inv, [Next]_vars PROVE Inv'
  OBVIOUS
<1>0. now \in Time /\ c \in Store /\ rtc \in RtcTimes /\ late \in 0 .. MaxLate
  BY DEF Inv, TypeOK
<1>1. CASE InitRuntime
  <2>1. Deadline(Reset, now) = NoTimer
    BY <1>0, ResetStore, DeadlineIs
  <2>2. c' = Reset /\ timer' = NoTimer /\ up' = TRUE /\ late' = 0
    BY <1>1, <2>1 DEF InitRuntime, Finish
  <2>3. c = Reset
    BY <1>1 DEF InitRuntime, Inv, TimerInv
  <2>4. Watched(Reset, now', NoTimer, 0)
    BY ResetStore DEF Watched, Reached
  <2>5. TypeOK'
    BY <1>1, <2>2, ResetStore, Ranges DEF InitRuntime, Inv, TypeOK, Quiet
  <2>6. Counted' /\ DistinctIds(c)' /\ AtMostOnce'
    BY <1>1, <2>2, <2>3 DEF InitRuntime, Inv, Counted, AtMostOnce, Quiet
  <2>7. CreditedInTime' /\ TimerInv'
    BY <1>1, <2>2, <2>4 DEF InitRuntime, CreditedInTime, TimerInv, Quiet, NoOutcome
  <2> QED
    BY <2>5, <2>6, <2>7 DEF Inv
<1>2. CASE Deinit
  <2>1. TypeOK'
    BY <1>2, ResetStore DEF Deinit, Inv, TypeOK, Quiet
  <2>2. Counted' /\ AtMostOnce'
    BY <1>2, ResetStore DEF Deinit, Inv, Counted, AtMostOnce, Quiet
  <2>3. DistinctIds(c)'
    BY <1>2, ResetStore DEF Deinit, DistinctIds
  <2>4. CreditedInTime' /\ TimerInv'
    BY <1>2 DEF Deinit, CreditedInTime, TimerInv, Quiet, NoOutcome
  <2> QED
    BY <2>1, <2>2, <2>3, <2>4 DEF Inv
<1>3. ASSUME NEW m \in Messages, NEW sent \in BOOLEAN, SendMessage(m, sent) PROVE Inv'
  <2>1. /\ up /\ NextId <= MaxRequests /\ Quiet /\ KeepWaiting /\ UNCHANGED <<now, rtc, up>>
        /\ timer' = Deadline(c', now)
    BY <1>3 DEF SendMessage, Finish
  <2>2. CASE sent
    <3>1. PICK e \in AckEntry :
            /\ Ask(MessageRequest(m)) /\ c' \in Store
            /\ e = [id |-> NextId, crc |-> AckCrc(m), peer |-> m.peer,
                    attempt |-> m.attempt, expires |-> Later(now, Timeout)]
            /\ c' = c \/ PutAck(c', c, e, AckSlot(c, now))
      BY <1>3, <2>2, SendMessageIs
    <3>2. Sub(c', c) \/ Put(c', c, e)
      BY <3>1, <1>0, AckSlotIs DEF Sub, Put
    <3>3. e.id = NextId /\ e.expires = Later(now, Timeout) /\ MessageRequest(m).id = NextId
      BY <3>1 DEF MessageRequest
    <3> QED
      BY <2>1, <3>1, <3>2, <3>3, RequestStep
  <2>3. CASE ~sent
    <3>1. c' = c /\ UNCHANGED asked
      BY <1>3, <2>3 DEF SendMessage, Finish
    <3> QED
      BY <2>1, <3>1, <1>0, UnsentStep
  <2> QED
    BY <2>2, <2>3
<1>4. ASSUME NEW kind \in Kinds, NEW peer \in Peers, NEW given \in CallerTags,
             NEW sent \in BOOLEAN, TaggedRequest(kind, peer, given, sent)
      PROVE  Inv'
  <2>1. /\ up /\ NextId <= MaxRequests /\ Quiet /\ KeepWaiting /\ UNCHANGED <<now, rtc, up>>
        /\ timer' = Deadline(c', now)
    BY <1>4 DEF TaggedRequest, Finish
  <2>2. CASE sent
    <3> DEFINE q == TagRequest(kind, peer, given)
    <3>1. PICK e \in PendEntry :
            /\ Ask(q) /\ c' \in Store
            /\ e = [id |-> NextId, tag |-> q.tag, peer |-> q.peer,
                    expires |-> Later(now, Timeout)]
            /\ PutPend(c', c, e, kind)
      BY <1>4, <2>2, TaggedRequestIs
    <3>2. Put(c', c, e)
      BY <3>1, CorrelationAssumption DEF Put
    <3>3. e.id = NextId /\ e.expires = Later(now, Timeout) /\ q.id = NextId
      BY <3>1 DEF TagRequest
    <3> HIDE DEF q
    <3> QED
      BY <2>1, <3>1, <3>2, <3>3, RequestStep
  <2>3. CASE ~sent
    <3>1. c' = DrawTag(c, kind, given) /\ UNCHANGED asked
      BY <1>4, <2>3 DEF TaggedRequest, Finish
    <3>2. c' \in Store /\ c'.acks = c.acks /\ c'.pend = c.pend
      BY <3>1, <1>0, DrawTagIs
    <3> QED
      BY <2>1, <3>1, <3>2, UnsentStep
  <2> QED
    BY <2>2, <2>3
<1>5. ASSUME NEW q \in asked, Receive(q) PROVE Inv'
  <2>1. PICK h \in Handle(c, q, now) : Report(q, h)
    BY <1>5 DEF Receive
  <2>2. Sub(c, c)
    BY DEF Sub
  <2> QED
    BY <1>0, <1>5, <2>1, <2>2, InvDue, ReportStep DEF Receive, KeepWaiting
<1>6. CASE TimerFired
  <2> DEFINE s == Cleanup(c, now)
  <2>1. s \in Store /\ Sub(s, c) /\ \A e \in Entries(s) : ~Expired(e, now)
    BY <1>0, CleanupHandled
  <2>2. up /\ late' = 0 /\ UNCHANGED <<now, rtc, up, asked>>
    BY <1>6 DEF TimerFired
  <2> HIDE DEF s
  <2>3. \A e \in Entries(s) : Due(e, now, 0)
    <3>1. Entries(s) \subseteq Entries(c)
      BY <1>0, <2>1, SubEntries
    <3>2. \A e \in Entries(s) : Waits(e, now) \/ Elapsed(e.expires, now) <= late
      BY <2>2, <3>1, InvDue DEF Due
    <3>3. \A e \in Entries(s) : Elapsed(e.expires, now) <= late => Expired(e, now)
      BY <1>0, <2>1, StoreFields, DueExpired, Ranges
    <3> QED
      BY <2>1, <3>2, <3>3 DEF Due
  <2>4. 0 \in 0 .. MaxLate /\ late' = IF Reached(timer', now) THEN 0 ELSE 0
    BY <2>2, Ranges
  <2>5. CASE Finish(s) /\ Quiet
    <3>1. c' = s /\ timer' = Deadline(c', now)
      BY <2>5 DEF Finish
    <3>3. PICK X : X = {}
      OBVIOUS
    <3>4. /\ \A x \in X : \E e \in Entries(c) : x = e.id
          /\ \A e \in Entries(c') : e.id \notin X
          /\ done' = done \cup X
      BY <2>5, <3>3 DEF Quiet
    <3>2. CreditedInTime'
      BY <2>5 DEF CreditedInTime, Quiet, NoOutcome
    <3> QED
      BY <2>1, <2>2, <2>3, <2>4, <3>1, <3>2, <3>4, PartStep
  <2>6. ASSUME NEW q \in asked, NEW h \in Handle(s, q, now), Report(q, h) PROVE Inv'
    BY <2>1, <2>2, <2>3, <2>4, <2>6, ReportStep
  <2> QED
    BY <1>6, <2>5, <2>6 DEF TimerFired, s
<1>7. CASE TimerFiredDown
  <2>1. TypeOK'
    BY <1>7, Ranges DEF TimerFiredDown, Inv, TypeOK, Quiet
  <2>2. Counted' /\ DistinctIds(c)' /\ AtMostOnce'
    BY <1>7 DEF TimerFiredDown, Inv, Counted, AtMostOnce, Quiet
  <2>3. CreditedInTime' /\ TimerInv'
    BY <1>7 DEF TimerFiredDown, Inv, CreditedInTime, TimerInv, Quiet, NoOutcome
  <2> QED
    BY <2>1, <2>2, <2>3 DEF Inv
<1>8. CASE SetRtc
  <2>1. TypeOK'
    BY <1>8 DEF SetRtc, Inv, TypeOK, Quiet
  <2>2. Counted' /\ DistinctIds(c)' /\ AtMostOnce'
    BY <1>8 DEF SetRtc, Inv, Counted, AtMostOnce, Quiet
  <2>3. CreditedInTime' /\ TimerInv'
    BY <1>8 DEF SetRtc, Inv, CreditedInTime, TimerInv, Quiet, NoOutcome
  <2> QED
    BY <2>1, <2>2, <2>3 DEF Inv
<1>9. CASE Tick
  <2>1. now' = Later(now, 1) /\ now' \in Time
    BY <1>9, <1>0, TickDistance DEF Tick
  <2>2. late' = (IF Reached(timer, now) THEN late + 1 ELSE 0) /\ late' \in 0 .. MaxLate
    BY <1>9, <1>0, Ranges DEF Tick
  <2>3. TypeOK'
    BY <1>9, <2>1, <2>2 DEF Tick, Inv, TypeOK, Quiet
  <2>4. Counted' /\ DistinctIds(c)' /\ AtMostOnce'
    BY <1>9 DEF Tick, Inv, Counted, AtMostOnce, Quiet
  <2>5. CreditedInTime'
    BY <1>9 DEF Tick, CreditedInTime, Quiet, NoOutcome
  <2>6. TimerInv'
    <3>1. CASE up
      <4>1. Watched(c, now, timer, late) /\ timer \in Time \cup {NoTimer}
        BY <3>1 DEF Inv, TimerInv, TypeOK
      <4>2. Watched(c, now', timer, late')
        BY <4>1, <1>0, <1>9, <2>1, <2>2, TickWatches DEF Tick
      <4> QED
        BY <3>1, <4>2, <1>9 DEF Tick, TimerInv
    <3>2. CASE ~up
      BY <3>2, <1>9 DEF Tick, Inv, TimerInv
    <3> QED
      BY <3>1, <3>2
  <2> QED
    BY <2>3, <2>4, <2>5, <2>6 DEF Inv
<1>10. CASE UNCHANGED vars
  <2>1. TypeOK'
    BY <1>10 DEF vars, Inv, TypeOK
  <2>2. Counted' /\ DistinctIds(c)' /\ AtMostOnce'
    BY <1>10 DEF vars, Inv, Counted, AtMostOnce
  <2>3. CreditedInTime' /\ TimerInv'
    BY <1>10 DEF vars, Inv, CreditedInTime, TimerInv
  <2> QED
    BY <2>1, <2>2, <2>3 DEF Inv
<1> QED
  BY <1>1, <1>2, <1>3, <1>4, <1>5, <1>6, <1>7, <1>8, <1>9, <1>10 DEF Next

\* The invariant holds in every reachable state.
LEMMA AlwaysInv == Spec => []Inv
  BY InitInv, NextInv, PTL DEF Spec

---------------------------------------------------------------------------
(* The theorems.                                                           *)

\* The state of the correlation tables keeps its type; the index ack_next stays
\* within the table whatever is registered, handled or swept.
THEOREM TypeCorrect == Spec => []TypeOK
<1>1. Inv => TypeOK
  BY DEF Inv
<1> QED
  BY <1>1, AlwaysInv, PTL

\* No duplicate or late answer reports a request a second time.
THEOREM ReportedAtMostOnce == Spec => []AtMostOnce
<1>1. Inv => AtMostOnce
  BY DEF Inv
<1> QED
  BY <1>1, AlwaysInv, PTL

\* The timer armed by meshcore_runtime_timer_sync never lets a time-out pass
\* unnoticed: the sweep is due as long as an expired entry stands.
THEOREM SweepIsDue == Spec => []ExpiryIsDue
<1>1. Inv => ExpiryIsDue
  BY InvDue DEF ExpiryIsDue
<1> QED
  BY <1>1, AlwaysInv, PTL

\* No handler, whether it looks at the expiry or leaves that to the sweep,
\* credits an answer to a request that timed out longer ago than the host is late.
THEOREM InTime == Spec => []CreditedInTime
<1>1. Inv => CreditedInTime
  BY DEF Inv
<1> QED
  BY <1>1, AlwaysInv, PTL

\* A reason for the entry e to leave its table, as NothingForgotten has it.
Reason(e) ==
  \/ outcome'.credit = e
  \/ Expired(e, now)
  \/ Superseded(e)
  \/ ~up'
  \/ /\ e = c.pend["trace"]
     /\ \E q \in asked : q.id = outcome'.answer /\ q.kind = "trace" /\ q.tag = e.tag

\* Handling an answer on a swept part of the tables forgets nothing.
LEMMA ReportForgets ==
  ASSUME Inv, NEW s \in Store, Sub(s, c),
         \A e \in Entries(c) \ Entries(s) : Expired(e, now),
         NEW q \in asked, NEW h \in Handle(s, q, now), Report(q, h)
  PROVE  \A e \in Entries(c) \ Entries(c') : Reason(e)
<1> SUFFICES ASSUME NEW e \in Entries(c), e \notin Entries(c'), ~Expired(e, now)
             PROVE  Reason(e)
  BY DEF Reason
<1>1. e \in Entries(s) /\ c' = h.s /\ outcome' = [answer |-> q.id, credit |-> h.credit]
  BY DEF Report, Finish
<1>2. e = h.credit \/ (q.kind = "trace" /\ e = s.pend["trace"] /\ q.tag = e.tag)
  BY <1>1, HandleHandled DEF Inv, TypeOK
<1>3. e # NoEntry
  BY DEF Entries
<1>4. e = s.pend["trace"] => e = c.pend["trace"]
  BY <1>3 DEF Sub, AllKinds
<1> QED
  BY <1>1, <1>2, <1>4 DEF Reason

\* Every step that takes an entry out of its table has a reason to.
LEMMA NextForgets ==
  ASSUME Inv, [Next]_vars
  PROVE  \A e \in Entries(c) \ Entries(c') : Reason(e)
<1>0. now \in Time /\ c \in Store /\ rtc \in RtcTimes
  BY DEF Inv, TypeOK
<1>1. CASE InitRuntime
  BY <1>1, ResetStore DEF InitRuntime, Inv, TimerInv
<1>2. CASE Deinit
  BY <1>2 DEF Deinit, Reason
<1>3. ASSUME NEW m \in Messages, NEW sent \in BOOLEAN, SendMessage(m, sent),
             NEW e \in Entries(c), e \notin Entries(c')
      PROVE  Reason(e)
  <2>1. CASE ~sent
    BY <1>3, <2>1 DEF SendMessage, Finish
  <2>2. CASE sent
    <3> DEFINE q == MessageRequest(m)
               i == AckSlot(c, now)
    <3>1. PICK f \in AckEntry : /\ Ask(q) /\ c' \in Store
                                /\ c' = c \/ PutAck(c', c, f, i)
      BY <1>3, <2>2, SendMessageIs
    <3>2. q.id = NextId /\ q.kind = "message"
      BY DEF MessageRequest
    <3> HIDE DEF q
    <3>3. q \in asked' \ asked
      BY <3>1, <3>2, AskCounts DEF Ask
    <3>4. i \in Slots /\ (Fresh(c.acks[i], now) => \A j \in Slots : Fresh(c.acks[j], now))
      BY <1>0, AckSlotIs
    <3> HIDE DEF i
    <3>5. PutAck(c', c, f, i)
      BY <3>1, <1>3
    <3>6. \A j \in Slots : j # i => c'.acks[j] = c.acks[j]
      BY <3>4, <3>5, <1>0, StoreFields DEF PutAck
    <3>7. e = c.acks[i]
      BY <3>5, <3>6, <1>3 DEF Entries, PutAck
    <3>8. e # NoEntry
      BY <1>3 DEF Entries
    <3> QED
      BY <3>2, <3>3, <3>4, <3>7, <3>8 DEF Reason, Superseded, Fresh
  <2> QED
    BY <2>1, <2>2
<1>4. ASSUME NEW kind \in Kinds, NEW peer \in Peers, NEW given \in CallerTags,
             NEW sent \in BOOLEAN, TaggedRequest(kind, peer, given, sent),
             NEW e \in Entries(c), e \notin Entries(c')
      PROVE  Reason(e)
  <2>1. CASE ~sent
    <3>1. c' = DrawTag(c, kind, given)
      BY <1>4, <2>1 DEF TaggedRequest, Finish
    <3> QED
      BY <3>1, <1>0, <1>4, DrawTagIs
  <2>2. CASE sent
    <3> DEFINE q == TagRequest(kind, peer, given)
    <3>1. PICK f \in PendEntry : Ask(q) /\ c' \in Store /\ PutPend(c', c, f, kind)
      BY <1>4, <2>2, TaggedRequestIs
    <3>2. q.id = NextId /\ q.kind = kind /\ kind \in AllKinds
      BY CorrelationAssumption DEF TagRequest
    <3> HIDE DEF q
    <3>3. q \in asked' \ asked
      BY <3>1, <3>2, AskCounts DEF Ask
    <3>4. \A l \in AllKinds : l # kind => c'.pend[l] = c.pend[l]
      BY <3>1, <3>2, <1>0, StoreFields DEF PutPend
    <3>5. e = c.pend[kind]
      BY <3>1, <3>4, <1>4 DEF Entries, PutPend
    <3>6. kind # "message"
      BY <3>2 DEF AllKinds
    <3> QED
      BY <3>2, <3>3, <3>5, <3>6 DEF Reason, Superseded
  <2> QED
    BY <2>1, <2>2
<1>5. ASSUME NEW q \in asked, Receive(q)
      PROVE  \A e \in Entries(c) \ Entries(c') : Reason(e)
  <2>1. PICK h \in Handle(c, q, now) : Report(q, h)
    BY <1>5 DEF Receive
  <2>2. Sub(c, c)
    BY DEF Sub
  <2> QED
    BY <1>0, <2>1, <2>2, ReportForgets
<1>6. CASE TimerFired
  <2> DEFINE s == Cleanup(c, now)
  <2>1. /\ s \in Store /\ Sub(s, c)
        /\ \A e \in Entries(c) \ Entries(s) : Expired(e, now)
    BY <1>0, CleanupHandled
  <2>2. CASE Finish(s) /\ Quiet
    BY <2>1, <2>2 DEF Finish, Reason
  <2>3. ASSUME NEW q \in asked, NEW h \in Handle(s, q, now), Report(q, h)
        PROVE  \A e \in Entries(c) \ Entries(c') : Reason(e)
    <3> HIDE DEF s
    <3> QED
      BY <2>1, <2>3, ReportForgets
  <2> QED
    BY <1>6, <2>2, <2>3 DEF TimerFired
<1>7. CASE TimerFiredDown \/ SetRtc \/ Tick \/ UNCHANGED vars
  BY <1>7 DEF TimerFiredDown, SetRtc, Tick, vars
<1> QED
  BY <1>1, <1>2, <1>3, <1>4, <1>5, <1>6, <1>7 DEF Next

\* No handler, sweep or registration forgets a request without a reason.
THEOREM ForgetsNothing == Spec => NothingForgotten
<1>1. Inv /\ [Next]_vars =>
        [\A e \in Entries(c) \ Entries(c') :
           \/ outcome'.credit = e
           \/ Expired(e, now)
           \/ Superseded(e)
           \/ ~up'
           \/ /\ e = c.pend["trace"]
              /\ \E q \in asked : q.id = outcome'.answer /\ q.kind = "trace" /\ q.tag = e.tag]_vars
  BY NextForgets DEF Reason
<1> QED
  BY <1>1, AlwaysInv, PTL DEF Spec, NothingForgotten

---------------------------------------------------------------------------
(* The refinement.                                                         *)

Awaited(s) == {e.id : e \in Entries(s)}

\* A call that makes a request is Requests' Make.
LEMMA MakeStep ==
  ASSUME Inv, NEW q, q.id = NextId, Ask(q), Quiet, c' \in Store,
         NEW e \in AckEntry \cup PendEntry, e.id = NextId, c' = c \/ Put(c', c, e)
  PROVE  Promise!Make
<1>1. e # NoEntry /\ c \in Store
  BY EntryIds DEF Inv, TypeOK
<1>2. /\ Entries(c') \subseteq Entries(c) \cup {e}
      /\ \E d : Entries(c) \ Entries(c') \subseteq {d}
  BY <1>1, PutEntries
<1>3. Cardinality(asked') = Cardinality(asked) + 1
  BY AskCounts DEF NextId
<1>4. Awaited(c') \subseteq Awaited(c) \cup {Cardinality(asked) + 1}
  BY <1>2 DEF Awaited, NextId
<1>5. Cardinality(Awaited(c) \ Awaited(c')) <= 1
  <2>1. PICK d : Entries(c) \ Entries(c') \subseteq {d}
    BY <1>2
  <2>2. Awaited(c) \ Awaited(c') \in SUBSET {d.id}
    BY <2>1 DEF Awaited
  <2>3. IsFiniteSet({d.id}) /\ Cardinality({d.id}) = 1
    BY FS_Singleton
  <2> HIDE DEF Awaited
  <2> QED
    BY <2>2, <2>3, FS_Subset
<1>6. \A S : Promise!Cardinality(S) = Cardinality(S)
  BY DEF Promise!Cardinality, Cardinality
<1> QED
  BY <1>3, <1>4, <1>5, <1>6 DEF Promise!Make, Awaited, Quiet

\* A call that only takes entries out is Requests' GiveUp.
LEMMA GiveUpStep ==
  ASSUME Inv, UNCHANGED <<asked, done>>, Entries(c') \subseteq Entries(c)
  PROVE  Promise!GiveUp
  BY DEF Promise!GiveUp

\* A call that handles an answer is Requests' Report, or GiveUp if nothing is credited.
LEMMA AnswerStep ==
  ASSUME Inv, NEW s \in Store, Sub(s, c), UNCHANGED asked,
         NEW q, NEW h \in Handle(s, q, now), Report(q, h)
  PROVE  Promise!GiveUp \/ \E n \in Awaited(c) : Promise!Report(n)
<1>1. now \in Time /\ c \in Store /\ DistinctIds(s)
  BY SubDistinct DEF Inv, TypeOK
<1>2. Handled(h, s)
  BY <1>1, HandleHandled
<1>3. c' = h.s /\ done' = done \cup ({h.credit.id} \ {NoEntry.id})
  BY DEF Report, Finish
<1>4. Entries(s) \subseteq Entries(c) /\ Entries(c') \subseteq Entries(s)
  BY <1>1, <1>2, <1>3, SubEntries DEF Handled
<1>5. CASE h.credit = NoEntry
  <2>1. UNCHANGED done
    BY <1>3, <1>5
  <2> QED
    BY <1>4, <2>1, GiveUpStep
<1>6. CASE h.credit # NoEntry
  <2> DEFINE n == h.credit.id
  <2>1. h.credit \in Entries(c) /\ \A f \in Entries(c') : f.id # n
    BY <1>1, <1>2, <1>3, <1>4, <1>6, TakenGone DEF Handled
  <2>2. n # NoEntry.id
    BY <1>1, <2>1, StoreFields, EntryIds
  <2>3. n \notin done
    BY <2>1 DEF Inv, AtMostOnce
  <2>4. n \in Awaited(c) /\ Awaited(c') \subseteq Awaited(c) \ {n}
    BY <1>4, <2>1 DEF Awaited
  <2>5. done' = done \cup {n}
    BY <1>3, <2>2
  <2> HIDE DEF n
  <2>6. Promise!Report(n)
    BY <2>3, <2>4, <2>5 DEF Promise!Report, Awaited
  <2> QED
    BY <2>4, <2>6
<1> QED
  BY <1>5, <1>6

\* Every step is a step of Requests.
LEMMA StepRefines ==
  ASSUME Inv, [Next]_vars
  PROVE  [Promise!Next]_(Promise!vars)
<1> SUFFICES \/ Promise!Make \/ Promise!GiveUp \/ \E n \in Awaited(c) : Promise!Report(n)
  BY DEF Promise!Next, Awaited
<1>0. now \in Time /\ c \in Store /\ rtc \in RtcTimes
  BY DEF Inv, TypeOK
<1>1. CASE InitRuntime
  <2>1. Entries(c') = {}
    BY <1>1, ResetStore DEF InitRuntime, Finish
  <2> QED
    BY <1>1, <2>1, GiveUpStep DEF InitRuntime, Quiet
<1>2. CASE Deinit
  <2>1. Entries(c') = {}
    BY <1>2, ResetStore DEF Deinit
  <2> QED
    BY <1>2, <2>1, GiveUpStep DEF Deinit, Quiet
<1>3. ASSUME NEW m \in Messages, NEW sent \in BOOLEAN, SendMessage(m, sent)
      PROVE  Promise!Make \/ Promise!GiveUp
  <2>1. CASE sent
    <3>1. PICK e \in AckEntry :
            /\ Ask(MessageRequest(m)) /\ Quiet /\ c' \in Store
            /\ e = [id |-> NextId, crc |-> AckCrc(m), peer |-> m.peer,
                    attempt |-> m.attempt, expires |-> Later(now, Timeout)]
            /\ c' = c \/ PutAck(c', c, e, AckSlot(c, now))
      BY <1>3, <2>1, SendMessageIs
    <3>2. c' = c \/ Put(c', c, e)
      BY <3>1, <1>0, AckSlotIs DEF Put
    <3>3. e.id = NextId /\ MessageRequest(m).id = NextId
      BY <3>1 DEF MessageRequest
    <3> QED
      BY <3>1, <3>2, <3>3, MakeStep
  <2>2. CASE ~sent
    BY <1>3, <2>2, GiveUpStep DEF SendMessage, Finish, Quiet
  <2> QED
    BY <2>1, <2>2
<1>4. ASSUME NEW kind \in Kinds, NEW peer \in Peers, NEW given \in CallerTags,
             NEW sent \in BOOLEAN, TaggedRequest(kind, peer, given, sent)
      PROVE  Promise!Make \/ Promise!GiveUp
  <2>1. CASE sent
    <3> DEFINE q == TagRequest(kind, peer, given)
    <3>1. PICK e \in PendEntry :
            /\ Ask(q) /\ Quiet /\ c' \in Store
            /\ e = [id |-> NextId, tag |-> q.tag, peer |-> q.peer,
                    expires |-> Later(now, Timeout)]
            /\ PutPend(c', c, e, kind)
      BY <1>4, <2>1, TaggedRequestIs
    <3>2. Put(c', c, e)
      BY <3>1, CorrelationAssumption DEF Put
    <3>3. e.id = NextId /\ q.id = NextId
      BY <3>1 DEF TagRequest
    <3> HIDE DEF q
    <3> QED
      BY <3>1, <3>2, <3>3, MakeStep
  <2>2. CASE ~sent
    <3>1. c' = DrawTag(c, kind, given) /\ UNCHANGED <<asked, done>>
      BY <1>4, <2>2 DEF TaggedRequest, Finish, Quiet
    <3> QED
      BY <3>1, <1>0, DrawTagIs, GiveUpStep
  <2> QED
    BY <2>1, <2>2
<1>5. ASSUME NEW q \in asked, Receive(q)
      PROVE  Promise!GiveUp \/ \E n \in Awaited(c) : Promise!Report(n)
  <2>1. PICK h \in Handle(c, q, now) : Report(q, h)
    BY <1>5 DEF Receive
  <2>2. Sub(c, c)
    BY DEF Sub
  <2> QED
    BY <1>0, <1>5, <2>1, <2>2, AnswerStep DEF Receive
<1>6. CASE TimerFired
  <2> DEFINE s == Cleanup(c, now)
  <2>1. s \in Store /\ Sub(s, c) /\ UNCHANGED asked
    BY <1>0, <1>6, CleanupHandled DEF TimerFired
  <2>2. CASE Finish(s) /\ Quiet
    <3>1. Entries(c') \subseteq Entries(c) /\ UNCHANGED done
      BY <1>0, <2>1, <2>2, SubEntries DEF Finish, Quiet
    <3> QED
      BY <2>1, <3>1, GiveUpStep
  <2>3. ASSUME NEW q \in asked, NEW h \in Handle(s, q, now), Report(q, h)
        PROVE  Promise!GiveUp \/ \E n \in Awaited(c) : Promise!Report(n)
    <3> HIDE DEF s
    <3> QED
      BY <2>1, <2>3, AnswerStep
  <2> QED
    BY <1>6, <2>2, <2>3 DEF TimerFired
<1>7. CASE TimerFiredDown \/ SetRtc \/ Tick \/ UNCHANGED vars
  BY <1>7, GiveUpStep DEF TimerFiredDown, SetRtc, Tick, vars, Quiet
<1> QED
  BY <1>1, <1>2, <1>3, <1>4, <1>5, <1>6, <1>7 DEF Next

\* The two tables, single slots, tags, timer and restarts implement the abstract
\* Requests: a request is waited for from the moment it is made, reported at most
\* once and only while it is waited for, and a new one pushes out one at most.
THEOREM PromiseKept == Spec => KeepsPromise
<1>1. Init => Promise!Init
  BY ResetStore, FS_EmptySet DEF Init, Promise!Init
<1>2. Inv /\ [Next]_vars => [Promise!Next]_(Promise!vars)
  BY StepRefines
<1> QED
  BY <1>1, <1>2, AlwaysInv, PTL DEF Spec, KeepsPromise, Promise!Spec

---------------------------------------------------------------------------
(* The right request is credited.                                          *)

\* What the host must do for answers to be told apart: let the runtime draw the
\* tags, not restart it, and never send one text with attempts that agree in
\* the two bits the CRC covers to different peers or with different tokens.
Unambiguous ==
  /\ ~Restarts
  /\ CallerTags \subseteq {0}
  /\ \A m, n \in Messages :
       m.text = n.text /\ m.attempt % 4 = n.attempt % 4 =>
         m.peer = n.peer /\ m.attempt = n.attempt

\* The CRC, peer and attempt of x are those of one of the messages.
OfMessage(x) ==
  \E m \in Messages : /\ x.crc.text = m.text /\ x.crc.attempt = m.attempt % 4
                      /\ x.peer = m.peer /\ x.attempt = m.attempt

\* Tags are drawn in increasing order, one per request.
TagsDrawn ==
  /\ \A q \in asked : q.kind # "message" => q.tag \in Nat /\ q.tag <= c.last_unique
  /\ \A p, q \in asked :
       p.kind # "message" /\ q.kind # "message" /\ p.tag = q.tag => p = q

\* A pending entry has the number and the tag of a request that was made.
PendAsked ==
  \A k \in AllKinds : c.pend[k] # NoEntry =>
    \E q \in asked : /\ q.kind # "message"
                     /\ q.id = c.pend[k].id /\ q.tag = c.pend[k].tag

AcksAsked ==
  /\ \A i \in Slots : c.acks[i] # NoEntry => OfMessage(c.acks[i])
  /\ \A q \in asked : q.kind = "message" => OfMessage(q)

RightInv ==
  /\ TagsDrawn
  /\ PendAsked
  /\ AcksAsked
  /\ ~up => asked = {}
  /\ RightRequest

\* An answer is credited to what it answers.
LEMMA CreditRight ==
  ASSUME Unambiguous, Inv, RightInv, NEW s \in Store, Sub(s, c),
         NEW q \in asked, NEW h \in Handle(s, q, now), h.credit # NoEntry
  PROVE  IF q.kind = "message" THEN h.credit.peer = q.peer /\ h.credit.attempt = q.attempt
                               ELSE h.credit.id = q.id
<1>0. now \in Time
  BY DEF Inv, TypeOK
<1>1. CASE q.kind = "message" /\ h = AckHandle(s, q.crc, now)
  <2>1. PICK i \in Slots : h.credit = s.acks[i] /\ h.credit.crc = q.crc
    BY <1>0, <1>1, AckHandleHandled
  <2>2. h.credit = c.acks[i]
    BY <2>1 DEF Sub
  <2>3. OfMessage(h.credit) /\ OfMessage(q)
    BY <1>1, <2>2 DEF RightInv, AcksAsked
  <2> QED
    BY <1>1, <2>1, <2>3 DEF OfMessage, Unambiguous
<1>2. CASE h = Ignored(s) \/ h = [Complete(s, "trace") EXCEPT !.credit = NoEntry]
  BY <1>2 DEF Ignored, Complete
<1>3. ASSUME NEW k \in AllKinds, Completes(h, s, q, k), q.kind # "message"
      PROVE  h.credit.id = q.id
  <2>1. h.credit = s.pend[k] /\ s.pend[k].tag = q.tag
    BY <1>3 DEF Completes, Complete, Matches
  <2>2. h.credit = c.pend[k]
    BY <2>1 DEF Sub
  <2>3. PICK p \in asked : p.kind # "message" /\ p.id = h.credit.id /\ p.tag = h.credit.tag
    BY <2>2 DEF RightInv, PendAsked
  <2>4. p = q
    BY <1>3, <2>1, <2>3 DEF RightInv, TagsDrawn
  <2> QED
    BY <2>3, <2>4
<1> QED
  BY <1>0, <1>1, <1>2, <1>3, HandleCases

\* A call that makes no request and only takes entries out keeps the rest of it.
LEMMA RightPart ==
  ASSUME Inv, RightInv, UNCHANGED <<up, asked>>, Sub(c', c), c' \in Store,
         c'.last_unique >= c.last_unique, RightRequest'
  PROVE  RightInv'
<1>1. c.last_unique \in Nat /\ c'.last_unique \in Nat
  BY StoreFields DEF Inv, TypeOK
<1>2. TagsDrawn'
  BY <1>1 DEF RightInv, TagsDrawn
<1>3. PendAsked'
  BY DEF RightInv, PendAsked, Sub
<1>4. AcksAsked'
  BY DEF RightInv, AcksAsked, Sub, OfMessage
<1> QED
  BY <1>2, <1>3, <1>4 DEF RightInv

\* Handling an answer keeps it.
LEMMA RightReport ==
  ASSUME Unambiguous, Inv, RightInv, UNCHANGED <<up, asked>>,
         NEW s \in Store, Sub(s, c), s.last_unique = c.last_unique,
         NEW q \in asked, NEW h \in Handle(s, q, now), Report(q, h)
  PROVE  RightInv'
<1>1. Handled(h, s)
  BY HandleHandled DEF Inv, TypeOK
<1>2. c' = h.s /\ outcome' = [answer |-> q.id, credit |-> h.credit]
  BY DEF Report, Finish
<1>3. outcome'.answer = q.id /\ outcome'.credit = h.credit
  BY <1>2
<1>4. RightRequest'
  BY <1>3, CreditRight DEF RightRequest
<1>5. c' \in Store /\ Sub(c', c) /\ c'.last_unique = c.last_unique
  BY <1>1, <1>2, SubTrans DEF Handled
<1>6. c.last_unique \in Nat
  BY StoreFields DEF Inv, TypeOK
<1> QED
  BY <1>4, <1>5, <1>6, RightPart

\* Every step keeps it.
LEMMA RightNext ==
  ASSUME Unambiguous, Inv, RightInv, [Next]_vars
  PROVE  RightInv'
<1>0. now \in Time /\ c \in Store /\ rtc \in RtcTimes /\ c.last_unique \in Nat
  BY StoreFields DEF Inv, TypeOK
<1>a. Sub(c, c)
  BY DEF Sub
<1>b. Quiet => RightRequest'
  BY DEF Quiet, NoOutcome, RightRequest
<1>1. CASE InitRuntime
  <2>1. asked = {} /\ asked' = {} /\ c' = Reset
    BY <1>1 DEF InitRuntime, Finish, RightInv
  <2>2. TagsDrawn' /\ PendAsked' /\ AcksAsked'
    BY <2>1, ResetStore DEF TagsDrawn, PendAsked, AcksAsked
  <2> QED
    BY <1>1, <1>b, <2>1, <2>2 DEF InitRuntime, RightInv
<1>2. CASE Deinit
  BY <1>2 DEF Deinit, Unambiguous
<1>3. ASSUME NEW m \in Messages, NEW sent \in BOOLEAN, SendMessage(m, sent) PROVE RightInv'
  <2>1. up /\ up' /\ Quiet
    BY <1>3 DEF SendMessage
  <2>2. CASE sent
    <3> DEFINE q == MessageRequest(m)
               i == AckSlot(c, now)
    <3>1. PICK e \in AckEntry :
            /\ Ask(q) /\ c' \in Store /\ c'.last_unique = c.last_unique
            /\ e = [id |-> NextId, crc |-> AckCrc(m), peer |-> m.peer,
                    attempt |-> m.attempt, expires |-> Later(now, Timeout)]
            /\ c' = c \/ PutAck(c', c, e, i)
      BY <1>3, <2>2, SendMessageIs
    <3>2. q.kind = "message" /\ q.crc = AckCrc(m) /\ q.peer = m.peer /\ q.attempt = m.attempt
      BY DEF MessageRequest
    <3>3. i \in Slots
      BY <1>0, AckSlotIs
    <3> HIDE DEF q, i
    <3>4. OfMessage(q) /\ OfMessage(e)
      BY <3>1, <3>2 DEF OfMessage, AckCrc
    <3>5. c'.pend = c.pend /\ \A j \in Slots : c'.acks[j] = c.acks[j] \/ c'.acks[j] = e
      BY <3>1, <3>3, <1>0, StoreFields DEF PutAck
    <3>6. asked' = asked \cup {q}
      BY <3>1 DEF Ask
    <3>7. TagsDrawn'
      BY <3>1, <3>2, <3>6 DEF RightInv, TagsDrawn
    <3>8. PendAsked'
      BY <3>5, <3>6 DEF RightInv, PendAsked
    <3>9. AcksAsked'
      <4>1. \A j \in Slots : c'.acks[j] # NoEntry => OfMessage(c'.acks[j])
        BY <3>4, <3>5 DEF RightInv, AcksAsked
      <4>2. \A p \in asked' : p.kind = "message" => OfMessage(p)
        BY <3>4, <3>6 DEF RightInv, AcksAsked
      <4> QED
        BY <4>1, <4>2 DEF AcksAsked, OfMessage
    <3> QED
      BY <2>1, <1>b, <3>7, <3>8, <3>9 DEF RightInv
  <2>3. CASE ~sent
    <3>1. c' = c /\ UNCHANGED <<up, asked>>
      BY <1>3, <2>3 DEF SendMessage, Finish
    <3> QED
      BY <3>1, <1>0, <1>a, <1>b, <2>1, RightPart
  <2> QED
    BY <2>2, <2>3
<1>4. ASSUME NEW kind \in Kinds, NEW peer \in Peers, NEW given \in CallerTags,
             NEW sent \in BOOLEAN, TaggedRequest(kind, peer, given, sent)
      PROVE  RightInv'
  <2>1. up /\ up' /\ Quiet /\ given = 0
    BY <1>4 DEF TaggedRequest, Unambiguous
  <2>2. /\ DrawTag(c, kind, given).last_unique = TagOf(c, given)
        /\ TagOf(c, given) \in Nat /\ TagOf(c, given) > c.last_unique
    BY <1>0, <2>1, DrawTagIs
  <2>3. CASE sent
    <3> DEFINE q == TagRequest(kind, peer, given)
    <3>1. PICK e \in PendEntry :
            /\ Ask(q) /\ c' \in Store
            /\ c'.last_unique = DrawTag(c, kind, given).last_unique
            /\ e = [id |-> NextId, tag |-> q.tag, peer |-> q.peer,
                    expires |-> Later(now, Timeout)]
            /\ PutPend(c', c, e, kind)
      BY <1>4, <2>3, TaggedRequestIs
    <3>2. q.id = NextId /\ q.kind = kind /\ q.tag = TagOf(c, given)
      BY DEF TagRequest
    <3>3. kind \in AllKinds /\ kind # "message"
      BY CorrelationAssumption DEF AllKinds
    <3> HIDE DEF q
    <3>4. e.id = q.id /\ e.tag = q.tag
      BY <3>1, <3>2
    <3>5. c'.acks = c.acks /\ \A k \in AllKinds : c'.pend[k] = c.pend[k] \/ c'.pend[k] = e
      BY <3>1, <3>3, <1>0, StoreFields DEF PutPend
    <3>6. asked' = asked \cup {q}
      BY <3>1 DEF Ask
    <3>7. c'.last_unique \in Nat /\ q.tag = c'.last_unique /\ q.tag > c.last_unique
      BY <2>2, <3>1, <3>2
    <3>8. TagsDrawn'
      <4>1. \A p \in asked : p.kind # "message" =>
              p.tag \in Nat /\ p.tag <= c.last_unique /\ p.tag # q.tag /\ p.tag <= c'.last_unique
        BY <3>7, <1>0 DEF RightInv, TagsDrawn
      <4> QED
        BY <4>1, <3>6, <3>7 DEF RightInv, TagsDrawn
    <3>9. PendAsked'
      BY <3>2, <3>3, <3>4, <3>5, <3>6 DEF RightInv, PendAsked
    <3>10. AcksAsked'
      BY <3>2, <3>3, <3>5, <3>6 DEF RightInv, AcksAsked, OfMessage
    <3> QED
      BY <2>1, <1>b, <3>8, <3>9, <3>10 DEF RightInv
  <2>4. CASE ~sent
    <3>1. c' = DrawTag(c, kind, given) /\ UNCHANGED <<up, asked>>
      BY <1>4, <2>4 DEF TaggedRequest, Finish
    <3>2. c' \in Store /\ c'.acks = c.acks /\ c'.pend = c.pend /\ c'.last_unique >= c.last_unique
      BY <3>1, <1>0, DrawTagIs
    <3>3. Sub(c', c)
      BY <3>2 DEF Sub
    <3> QED
      BY <3>1, <3>2, <3>3, <1>b, <2>1, RightPart
  <2> QED
    BY <2>3, <2>4
<1>5. ASSUME NEW q \in asked, Receive(q) PROVE RightInv'
  <2>1. PICK h \in Handle(c, q, now) : Report(q, h)
    BY <1>5 DEF Receive
  <2> QED
    BY <1>0, <1>5, <1>a, <2>1, RightReport DEF Receive
<1>6. CASE TimerFired
  <2> DEFINE s == Cleanup(c, now)
  <2>1. /\ s \in Store /\ Sub(s, c) /\ s.last_unique = c.last_unique
        /\ UNCHANGED <<up, asked>>
    BY <1>0, <1>6, CleanupHandled DEF TimerFired
  <2>2. CASE Finish(s) /\ Quiet
    <3>1. c' = s
      BY <2>2 DEF Finish
    <3> HIDE DEF s
    <3> QED
      BY <1>0, <1>b, <2>1, <2>2, <3>1, RightPart
  <2>3. ASSUME NEW q \in asked, NEW h \in Handle(s, q, now), Report(q, h) PROVE RightInv'
    <3> HIDE DEF s
    <3> QED
      BY <2>1, <2>3, RightReport
  <2> QED
    BY <1>6, <2>2, <2>3 DEF TimerFired
<1>7. CASE TimerFiredDown \/ SetRtc \/ Tick
  <2>1. UNCHANGED <<up, asked, c>> /\ Quiet
    BY <1>7 DEF TimerFiredDown, SetRtc, Tick
  <2> QED
    BY <2>1, <1>0, <1>a, <1>b, RightPart
<1>8. CASE UNCHANGED vars
  <2>1. UNCHANGED <<up, asked, c>> /\ RightRequest'
    BY <1>8 DEF vars, RightInv, RightRequest
  <2> QED
    BY <2>1, <1>0, <1>a, RightPart
<1> QED
  BY <1>1, <1>2, <1>3, <1>4, <1>5, <1>6, <1>7, <1>8 DEF Next

\* However late, often or out of order answers come, and however the wall clock
\* jumps, an answer is credited to the request it answers, provided the host
\* leaves the tags to the runtime, does not restart it and sends messages that
\* the CRC tells apart.  (Without any of the three the property fails.)
THEOREM CreditsTheRightRequest ==
  ASSUME Unambiguous
  PROVE  Spec => []RightRequest
<1>1. Init => RightInv
  BY ResetStore DEF Init, RightInv, TagsDrawn, PendAsked, AcksAsked, RightRequest, NoOutcome
<1>2. Inv /\ RightInv /\ [Next]_vars => RightInv'
  BY RightNext
<1>3. RightInv => RightRequest
  BY DEF RightInv
<1> QED
  BY <1>1, <1>2, <1>3, AlwaysInv, PTL DEF Spec
=============================================================================
