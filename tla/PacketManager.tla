--------------------------- MODULE PacketManager ---------------------------
(***************************************************************************)
(* The fixed packet pool and its three queues (support/meshcore_packet_    *)
(* manager.c).  A packet is the index of its buffer in packet_buf; a queue *)
(* is the sequence of its live entries, table/pri_table/schedule_table     *)
(* read together.  `m' below is any record with the fields unused, sendq   *)
(* and rxq: the manager is embedded in the dispatcher's record.            *)
(***************************************************************************)
EXTENDS Clock, Sequences, FiniteSets

CONSTANT PoolSize   \* MESHCORE_RUNTIME_PACKET_POOL_SIZE

ASSUME PoolAssumption == PoolSize \in Nat \ {0}

Packet == 1 .. PoolSize
None == 0                       \* the NULL packet pointer

\* The priority no queued packet may have: queue_get starts its search there.
NoPriority == 255
Priority == 0 .. NoPriority

Entry == [pkt : Packet, pri : Priority, at : Time]

Pkts(q) == {q[i].pkt : i \in DOMAIN q}
Elems(s) == {s[i] : i \in DOMAIN s}

---------------------------------------------------------------------------
(* The queue.                                                              *)

\* meshcore_packet_queue_compact_from: close the gap left by entry i.
CompactFrom(q, i) ==
  [j \in 1 .. Len(q) - 1 |-> IF j < i THEN q[j] ELSE q[j + 1]]

Due(q, now) == {i \in DOMAIN q : ~After(q[i].at, now)}

\* The entries queue_get may return: due, and more urgent than its start value.
Eligible(q, now) == {i \in Due(q, now) : q[i].pri < NoPriority}

\* A bug: the oldest eligible entry, whatever its priority.
BestIdxOldest(q, now) ==
  CHOOSE i \in Eligible(q, now) : \A j \in Eligible(q, now) : i <= j

\* The most urgent eligible entry, the oldest among equals.
BestIdx(q, now) ==
  CHOOSE i \in Eligible(q, now) :
    \A j \in Eligible(q, now) :
      \/ q[i].pri < q[j].pri
      \/ q[i].pri = q[j].pri /\ i <= j

\* The all-ones clock value doubles as "count everything".
CountBefore(q, now) ==
  IF now = ClockMod - 1 THEN Len(q) ELSE Cardinality(Due(q, now))

\* The earliest schedule of a non-empty queue, `now' as soon as one is due.
NextScheduled(q, now) ==
  IF Due(q, now) # {}
  THEN now
  ELSE (CHOOSE e \in Elems(q) :
          \A f \in Elems(q) : Elapsed(now, e.at) <= Elapsed(now, f.at)).at

---------------------------------------------------------------------------
(* The manager.                                                            *)

PreparedPool == [i \in 1 .. PoolSize |-> i]

CanAlloc(m) == m.unused # <<>>
AllocPkt(m) == Head(m.unused)
AllocRest(m) == [m EXCEPT !.unused = Tail(@)]

\* A full free list drops the packet silently: the pointer is lost.
Free(m, p) ==
  IF Len(m.unused) < PoolSize THEN [m EXCEPT !.unused = Append(@, p)] ELSE m

QueueOutbound(m, p, pri, at) ==
  IF Len(m.sendq) < PoolSize
  THEN [m EXCEPT !.sendq = Append(@, [pkt |-> p, pri |-> pri, at |-> at])]
  ELSE Free(m, p)

QueueInbound(m, p, at) ==
  IF Len(m.rxq) < PoolSize
  THEN [m EXCEPT !.rxq = Append(@, [pkt |-> p, pri |-> 0, at |-> at])]
  ELSE Free(m, p)

HasInbound(m, now) == Eligible(m.rxq, now) # {}
NextInbound(m, now) == m.rxq[BestIdx(m.rxq, now)].pkt
TakeInbound(m, now) == [m EXCEPT !.rxq = CompactFrom(@, BestIdx(@, now))]

HasOutbound(m, now) == Eligible(m.sendq, now) # {}
NextOutbound(m, now) == m.sendq[BestIdx(m.sendq, now)].pkt
TakeOutbound(m, now) == [m EXCEPT !.sendq = CompactFrom(@, BestIdx(@, now))]

=============================================================================
