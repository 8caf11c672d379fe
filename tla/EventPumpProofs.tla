-------------------------- MODULE EventPumpProofs --------------------------
(***************************************************************************)
(* Safety of the event pump for every pool size, clock range, timing       *)
(* constant and set of host and mesh-layer answers.                        *)
(***************************************************************************)
EXTENDS EventPump, DispatcherProofs

Inv == TypeOK /\ PacketConservation

---------------------------------------------------------------------------

\* A freshly begun dispatcher has its type.
LEMMA BeginType ==
  ASSUME NEW t \in Time, NEW rx \in BOOLEAN, NEW frame \in 0 .. FrameIds - 1
  PROVE  Begin(t, rx, frame) \in DispatcherRecord
<1>1. PreparedPool \in Seq(Packet)
  BY PoolAssumption DEF PreparedPool, Packet
<1>2. <<>> \in Seq(Entry)
  OBVIOUS
<1>3. MaxBudget \in 0 .. MaxBudget
  BY MaxBudgetNat
<1> QED
  BY <1>1, <1>2, <1>3, TimeConstants DEF Begin, DispatcherRecord

\* A zeroed context has its type.
LEMMA ClearedType ==
  ASSUME NEW frame \in 0 .. FrameIds - 1
  PROVE  Cleared(frame) \in DispatcherRecord
<1>1. Begin(0, FALSE, frame) \in DispatcherRecord
  BY BeginType, TimeConstants
<1>2. <<>> \in Seq(Packet) /\ 0 \in 0 .. MaxBudget
  BY MaxBudgetNat
<1> HIDE DEF Begin
<1> QED
  BY <1>1, <1>2 DEF Cleared, DispatcherRecord

\* meshcore_packet_manager_prepare puts every buffer in the free list.
LEMMA BeginConserves ==
  ASSUME NEW t \in Time, NEW rx \in BOOLEAN, NEW frame \in 0 .. FrameIds - 1
  PROVE  Conserved(Begin(t, rx, frame), {})
<1> DEFINE n == Begin(t, rx, frame)
<1>1. n.unused = PreparedPool /\ n.sendq = <<>> /\ n.rxq = <<>> /\ n.outbound = None
  BY DEF Begin
<1>2. Elems(PreparedPool) = Packet /\ Distinct(PreparedPool)
  BY PoolAssumption DEF PreparedPool, Packet, Elems, Distinct
<1>3. Pkts(<<>>) = {} /\ DistinctPkts(<<>>)
  BY DEF Pkts, DistinctPkts
<1>4. None \notin Packet
  BY DEF Packet, None
<1> HIDE DEF n
<1>5. Conserved(n, {})
  BY <1>1, <1>2, <1>3, <1>4 DEF Conserved
<1> QED
  BY <1>5 DEF n

\* Every answer is one the dispatcher's lemmas allow.
LEMMA LoopedInv ==
  ASSUME NEW m \in DispatcherRecord, NEW pending, now \in Time, rxmode \in BOOLEAN,
         NEW n \in Looped(m, pending)
  PROVE  n \in DispatcherRecord /\ (Conserved(m, {}) => Conserved(n, {}))
<1>1. PICK e \in Answers(pending) : n = Loop(m, e, now)
  BY DEF Looped
<1>2. e \in Answer
  BY PumpAssumption DEF Answers, Answer
<1> QED
  BY <1>1, <1>2, LoopType, LoopConserves

\* The end of a host call keeps the invariant when the dispatcher does.
LEMMA FinishInv ==
  ASSUME Inv, up, NEW n \in DispatcherRecord, Conserved(n, {}),
         NEW pending \in Seq(Report),
         Finish(n, pending), late' \in 0 .. MaxLate
  PROVE  Inv'
<1> USE DEF Inv, TypeOK
<1>1. NextDeadline(n, rxmode, now) \in Time
  BY NextDeadlineType
<1>2. owed' \in Seq(Report)
  <2>1. [id |-> n.frame, at |-> now] \in Report
    BY Fields DEF Report
  <2>2. Append(pending, [id |-> n.frame, at |-> now]) \in Seq(Report)
    BY <2>1
  <2> QED BY <2>2 DEF Finish
<1>3. TypeOK'
  BY <1>1, <1>2 DEF Finish
<1>4. PacketConservation'
  BY DEF Finish, PacketConservation
<1> QED
  BY <1>3, <1>4

\* A call other than the timer's keeps the lateness within its bound.
LEMMA KeepWaitingType ==
  ASSUME TypeOK, KeepWaiting
  PROVE  late' \in 0 .. MaxLate
  BY PumpAssumption DEF KeepWaiting, TypeOK

---------------------------------------------------------------------------

\* The inductive invariant holds initially.
LEMMA InitInv == Init => Inv
<1> SUFFICES ASSUME Init PROVE Inv
  OBVIOUS
<1>1. 0 \in 0 .. FrameIds - 1 /\ 0 \in 0 .. MaxLate
  BY DispatcherAssumption, PumpAssumption
<1>2. Cleared(0) \in DispatcherRecord
  BY <1>1, ClearedType
<1>3. TypeOK
  <2>1. now \in Time /\ rxmode \in BOOLEAN
    BY PumpAssumption DEF Init
  <2>2. <<>> \in Seq(Report)
    OBVIOUS
  <2> QED
    BY <1>1, <1>2, <2>1, <2>2 DEF Init, TypeOK
<1> QED
  BY <1>3 DEF Inv, Init, PacketConservation

\* Every host call, clock tick and radio event preserves the inductive invariant.
LEMMA NextInv == Inv /\ [Next]_vars => Inv'
<1> SUFFICES ASSUME Inv, [Next]_vars PROVE Inv'
  OBVIOUS
<1>0. /\ TypeOK /\ now \in Time /\ rxmode \in BOOLEAN /\ d \in DispatcherRecord
      /\ owed \in Seq(Report)
      /\ 0 \in 0 .. MaxLate
      /\ up => Conserved(d, {})
  BY PumpAssumption DEF Inv, TypeOK, PacketConservation
<1>1. CASE InitRuntime
  <2>1. d' \in DispatcherRecord /\ Conserved(d', {})
    BY <1>0, <1>1, BeginType, BeginConserves, Fields DEF InitRuntime
  <2>2. timer' \in Time
    BY <1>0, <1>1, <2>1, NextDeadlineType DEF InitRuntime
  <2> QED
    BY <1>0, <1>1, <2>1, <2>2 DEF InitRuntime, Inv, TypeOK, PacketConservation
<1>2. CASE Deinit
  <2>1. d' \in DispatcherRecord
    BY <1>0, <1>2, ClearedType, Fields DEF Deinit
  <2> QED
    BY <1>0, <1>2, <2>1 DEF Deinit, Inv, TypeOK, PacketConservation
<1>3. CASE TimerFired
  <2>1. PICK n \in Looped(d, owed) : Finish(n, owed)
    BY <1>3 DEF TimerFired
  <2> QED
    BY <1>0, <1>3, <2>1, LoopedInv, FinishInv DEF TimerFired
<1>4. CASE TimerFiredDown
  BY <1>0, <1>4 DEF TimerFiredDown, Inv, TypeOK, PacketConservation
<1>5. CASE CorrelationTimer
  <2>1. PICK n \in Looped(d, owed) : Finish(n, owed)
    BY <1>5 DEF CorrelationTimer
  <2> QED
    BY <1>0, <1>5, <2>1, LoopedInv, FinishInv DEF CorrelationTimer
<1>6. ASSUME NEW f \in Frames, RxInject(f) PROVE Inv'
  <2>1. late' \in 0 .. MaxLate /\ up
    BY <1>0, <1>6, KeepWaitingType DEF RxInject
  <2>2. PICK v \in Verdicts :
          IF CanAlloc(d) /\ f.parses
          THEN \E n \in Looped(ReceiveRaw(d, f, v, now), owed) : Finish(n, owed)
          ELSE Finish(ReceiveRaw(d, f, v, now), owed)
    BY <1>6 DEF RxInject
  <2> DEFINE m == ReceiveRaw(d, f, v, now)
  <2>3. m \in DispatcherRecord /\ Conserved(m, {})
    BY <1>0, <2>1, PumpAssumption, ReceiveRawType, ReceiveRawConserves
  <2> HIDE DEF m
  <2>4. CASE Finish(m, owed)
    BY <1>0, <2>1, <2>3, <2>4, FinishInv
  <2>5. CASE \E n \in Looped(m, owed) : Finish(n, owed)
    BY <1>0, <2>1, <2>3, <2>5, LoopedInv, FinishInv
  <2> QED
    BY <2>2, <2>4, <2>5 DEF m
<1>7. ASSUME NEW success \in BOOLEAN, TxDone(success) PROVE Inv'
  <2> DEFINE m == DispatcherTxDone(d, success, now)
  <2>1. late' \in 0 .. MaxLate /\ up
    BY <1>0, <1>7, KeepWaitingType DEF TxDone
  <2>2. m \in DispatcherRecord /\ Conserved(m, {})
    BY <1>0, <2>1, TxDoneType, TxDoneConserves
  <2> HIDE DEF m
  <2>3. PICK n \in Looped(m, Tail(owed)) : Finish(n, Tail(owed))
    BY <1>7 DEF TxDone, m
  <2>4. Tail(owed) \in Seq(Report)
    BY <1>0, <1>7 DEF TxDone
  <2> QED
    BY <1>0, <2>1, <2>2, <2>3, <2>4, LoopedInv, FinishInv
<1>8. CASE TxReportLost
  <2>1. Tail(owed) \in Seq(Report)
    BY <1>0, <1>8 DEF TxReportLost
  <2> QED
    BY <1>0, <1>8, <2>1 DEF TxReportLost, Inv, TypeOK, PacketConservation
<1>9. ASSUME NEW r \in Requests, Request(r) PROVE Inv'
  <2>1. late' \in 0 .. MaxLate /\ up /\ r \in Reply \cup {Nothing}
    BY <1>0, <1>9, KeepWaitingType, PumpAssumption DEF Request
  <2>2. SendNew(d, r, now) \in DispatcherRecord /\ Conserved(SendNew(d, r, now), {})
    BY <1>0, <2>1, SendNewType, SendNewConserves
  <2> QED
    BY <1>0, <1>9, <2>1, <2>2, FinishInv DEF Request
<1>10. CASE RadioMode
  BY <1>0, <1>10, PumpAssumption DEF RadioMode, Inv, TypeOK, PacketConservation
<1>11. CASE Tick
  <2>1. late' \in 0 .. MaxLate
    BY <1>0, <1>11, PumpAssumption DEF Tick, TypeOK
  <2>2. now' \in Time
    BY <1>0, <1>11, TimeConstants DEF Tick
  <2> QED
    BY <1>0, <1>11, <2>1, <2>2 DEF Tick, Inv, TypeOK, PacketConservation
<1>12. CASE UNCHANGED vars
  BY <1>12 DEF vars, Inv, TypeOK, PacketConservation
<1> QED
  BY <1>1, <1>2, <1>3, <1>4, <1>5, <1>6, <1>7, <1>8, <1>9, <1>10, <1>11, <1>12
  DEF Next

\* Type correctness, for every instance: in particular the transmit budget of
\* meshcore_dispatcher_update_tx_budget stays within the duty-cycle share.
THEOREM TypeCorrect == Spec => []TypeOK
<1>1. Inv => TypeOK
  BY DEF Inv
<1> QED
  BY InitInv, NextInv, <1>1, PTL DEF Spec

\* No packet buffer is leaked, duplicated or freed twice by any sequence of
\* host calls, for every pool size: the silent drops of
\* meshcore_packet_manager_free and of the two queue functions never lose one.
THEOREM BuffersConserved == Spec => []PacketConservation
<1>1. Inv => PacketConservation
  BY DEF Inv
<1> QED
  BY InitInv, NextInv, <1>1, PTL DEF Spec

\* The inductive invariant holds in every reachable state.
LEMMA AlwaysInv == Spec => []Inv
  BY InitInv, NextInv, PTL DEF Spec

---------------------------------------------------------------------------
(* The most urgent packet goes first.                                      *)

\* A frame started from a queue that begins as s did is no less urgent than any
\* packet that stays in it and is due.
LEMMA StartedUrgent ==
  ASSUME NEW k \in DispatcherRecord, NEW n, NEW air, NEW t \in Time, Started(n, k, air, t),
         Conserved(k, {}), NEW s \in Seq(Entry), Len(s) <= Len(k.sendq),
         \A i \in 1 .. Len(s) : k.sendq[i] = s[i],
         NEW i \in DOMAIN s, s[i].pkt = n.outbound, NEW j \in Due(n.sendq, t)
  PROVE  s[i].pri <= n.sendq[j].pri
<1> DEFINE q == k.sendq
           b == BestIdx(q, t)
           g == IF j < b THEN j ELSE j + 1
<1>1. q \in Seq(Entry) /\ Eligible(q, t) # {}
  BY Fields DEF Started, HasOutbound
<1>2. /\ b \in Eligible(q, t)
      /\ \A x \in Eligible(q, t) : q[b].pri < q[x].pri \/ (q[b].pri = q[x].pri /\ b <= x)
  BY <1>1, BestIdxExists
<1>3. b \in DOMAIN q /\ q[b].pri < NoPriority
  BY <1>2 DEF Eligible, Due
<1>4. n.sendq = CompactFrom(q, b) /\ n.outbound = q[b].pkt
  BY DEF Started, NextOutbound
<1> HIDE DEF b
<1>5. i \in DOMAIN q /\ q[i] = s[i] /\ Len(q) \in Nat
  BY <1>1
<1>6. i = b
  BY <1>3, <1>4, <1>5 DEF Conserved, DistinctPkts
<1>7. DOMAIN n.sendq = 1 .. Len(q) - 1 /\ \A x \in 1 .. Len(q) - 1 : n.sendq[x] = q[IF x < b THEN x ELSE x + 1]
  BY <1>4 DEF CompactFrom
<1>8. j \in 1 .. Len(q) - 1 /\ ~After(n.sendq[j].at, t)
  BY <1>7 DEF Due
<1>9. g \in DOMAIN q /\ n.sendq[j] = q[g]
  BY <1>1, <1>3, <1>5, <1>7, <1>8
<1> HIDE DEF g
<1>10. q[g] \in Entry /\ q[b] \in Entry
  BY <1>1, <1>3, <1>9
<1>11. q[g].pri \in Nat /\ q[b].pri \in Nat /\ NoPriority \in Nat
  <2>1. q[g].pri \in Priority /\ q[b].pri \in Priority
    BY <1>10 DEF Entry
  <2>2. Priority \subseteq Nat /\ NoPriority \in Nat
    BY DEF Priority, NoPriority
  <2> QED
    BY <2>1, <2>2
<1>12. q[b].pri <= q[g].pri
  <2>1. CASE q[g].pri < NoPriority
    <3>1. g \in Eligible(q, t)
      BY <2>1, <1>8, <1>9 DEF Eligible, Due
    <3> QED
      BY <3>1, <1>2, <1>11
  <2>2. CASE ~(q[g].pri < NoPriority)
    BY <2>2, <1>3, <1>11
  <2> QED
    BY <2>1, <2>2
<1> QED
  BY <1>5, <1>6, <1>9, <1>12

\* A loop on a dispatcher whose send queue begins as d's does keeps the order.
LEMMA LoopedUrgent ==
  ASSUME Inv, up, NEW m \in DispatcherRecord, Conserved(m, {}), m.frame = d.frame,
         Len(d.sendq) <= Len(m.sendq), \A i \in 1 .. Len(d.sendq) : m.sendq[i] = d.sendq[i],
         NEW pending, NEW n \in Looped(m, pending), n.frame # d.frame,
         NEW i \in DOMAIN d.sendq, d.sendq[i].pkt = n.outbound, NEW j \in Due(n.sendq, now)
  PROVE  d.sendq[i].pri <= n.sendq[j].pri
<1>0. now \in Time /\ rxmode \in BOOLEAN /\ d \in DispatcherRecord
  BY DEF Inv, TypeOK
<1>1. PICK e \in Answers(pending) : n = Loop(m, e, now)
  BY DEF Looped
<1>2. e \in Answer
  BY <1>0, PumpAssumption DEF Answers, Answer
<1>3. PICK k \in DispatcherRecord :
        /\ Started(n, k, e.air, now)
        /\ Conserved(k, {})
        /\ Len(m.sendq) <= Len(k.sendq)
        /\ \A x \in 1 .. Len(m.sendq) : k.sendq[x] = m.sendq[x]
  BY <1>0, <1>1, <1>2, LoopCases DEF Grows
<1>4. d.sendq \in Seq(Entry) /\ Len(d.sendq) \in Nat /\ Len(m.sendq) \in Nat /\ Len(k.sendq) \in Nat
  BY <1>0, Fields
<1>5. Len(d.sendq) <= Len(k.sendq) /\ \A x \in 1 .. Len(d.sendq) : k.sendq[x] = d.sendq[x]
  BY <1>3, <1>4
<1> QED
  BY <1>0, <1>3, <1>4, <1>5, StartedUrgent

\* Whatever a call first takes in, replies to or completes, the frame it starts
\* is the most urgent that is due (queue_get under check_send).
THEOREM UrgentFirst == Spec => MostUrgentFirst
<1>1. ASSUME Inv, [Next]_vars
      PROVE  [d'.frame # d.frame =>
                \A i \in DOMAIN d.sendq : d.sendq[i].pkt = d'.outbound =>
                  \A j \in Due(d'.sendq, now) : d.sendq[i].pri <= d'.sendq[j].pri]_vars
  <2> SUFFICES ASSUME d'.frame # d.frame, NEW i \in DOMAIN d.sendq,
                      d.sendq[i].pkt = d'.outbound, NEW j \in Due(d'.sendq, now)
               PROVE  d.sendq[i].pri <= d'.sendq[j].pri
    OBVIOUS
  <2>0. /\ now \in Time /\ rxmode \in BOOLEAN /\ d \in DispatcherRecord
        /\ up => Conserved(d, {})
    BY <1>1 DEF Inv, TypeOK, PacketConservation
  <2>1. Len(d.sendq) \in Nat
    BY <2>0, Fields
  <2>2. CASE TimerFired \/ CorrelationTimer
    <3>1. up
      BY <2>2 DEF TimerFired, CorrelationTimer
    <3>2. PICK n \in Looped(d, owed) : d' = n
      BY <2>2 DEF TimerFired, CorrelationTimer, Finish
    <3> QED
      BY <1>1, <2>0, <2>1, <3>1, <3>2, LoopedUrgent
  <2>3. ASSUME NEW f \in Frames, RxInject(f) PROVE d.sendq[i].pri <= d'.sendq[j].pri
    <3>1. up /\ f \in [parses : BOOLEAN, flood : BOOLEAN, delay : Nat]
      BY <2>3, PumpAssumption DEF RxInject
    <3>2. PICK v \in Verdicts :
            IF CanAlloc(d) /\ f.parses
            THEN \E n \in Looped(ReceiveRaw(d, f, v, now), owed) : d' = n
            ELSE d' = ReceiveRaw(d, f, v, now)
      BY <2>3 DEF RxInject, Finish
    <3> DEFINE m == ReceiveRaw(d, f, v, now)
    <3>3. m \in DispatcherRecord /\ Conserved(m, {}) /\ Grows(m, d)
      BY <2>0, <3>1, PumpAssumption, ReceiveRawType, ReceiveRawConserves, ReceiveRawGrows
    <3> HIDE DEF m
    <3>4. d' # m
      BY <3>3 DEF Grows
    <3>5. PICK n \in Looped(m, owed) : d' = n
      BY <3>2, <3>4 DEF m
    <3> QED
      BY <1>1, <3>1, <3>3, <3>5, LoopedUrgent DEF Grows
  <2>4. ASSUME NEW success \in BOOLEAN, TxDone(success) PROVE d.sendq[i].pri <= d'.sendq[j].pri
    <3> DEFINE m == DispatcherTxDone(d, success, now)
    <3>1. up
      BY <2>4 DEF TxDone
    <3>2. m \in DispatcherRecord /\ Conserved(m, {}) /\ m.sendq = d.sendq /\ m.frame = d.frame
      BY <2>0, <3>1, TxDoneType, TxDoneConserves, TxDoneFrame
    <3>3. PICK n \in Looped(m, Tail(owed)) : d' = n
      BY <2>4 DEF TxDone, Finish
    <3> HIDE DEF m
    <3> QED
      BY <1>1, <2>1, <3>1, <3>2, <3>3, LoopedUrgent
  <2>5. ASSUME NEW r \in Requests, Request(r) PROVE FALSE
    <3>1. d' = SendNew(d, r, now)
      BY <2>5 DEF Request, Finish
    <3> QED
      BY <2>0, <3>1, SendNewGrows, PumpAssumption DEF Grows
  <2>6. CASE InitRuntime
    BY <2>6 DEF InitRuntime, Begin
  <2>7. CASE Deinit
    <3>1. Cleared(d.frame).frame = d.frame
      BY DEF Cleared, Begin
    <3> QED
      BY <2>7, <3>1 DEF Deinit
  <2>8. CASE TimerFiredDown \/ TxReportLost \/ RadioMode \/ Tick \/ UNCHANGED vars
    BY <2>8 DEF TimerFiredDown, TxReportLost, RadioMode, Tick, vars
  <2> QED
    BY <1>1, <2>2, <2>3, <2>4, <2>5, <2>6, <2>7, <2>8 DEF Next
<1> QED
  BY <1>1, AlwaysInv, PTL DEF Spec, MostUrgentFirst

---------------------------------------------------------------------------
(* The timer misses no work.                                               *)

\* The timer tm has expired, no longer ago than l, or is ahead and comes before
\* all of the work of m.
Armed(m, tm, t, l) ==
  \/ Reached(tm, t) /\ Elapsed(tm, t) <= l
  \/ /\ After(tm, t)
     /\ \A x \in Work(m) : After(x, t) /\ Elapsed(t, tm) <= Elapsed(t, x)

\* timer_sync arms it so.
LEMMA DeadlineArmed ==
  ASSUME NEW m \in DispatcherRecord, NEW rx \in BOOLEAN, NEW t \in Time, NEW l \in Nat
  PROVE  LET D == NextDeadline(m, rx, t) IN
         Armed(m, D, t, IF Reached(D, t) THEN l ELSE 0) /\ Armed(m, D, t, 0)
<1> DEFINE D == NextDeadline(m, rx, t)
<1>1. D \in Time
  BY NextDeadlineType
<1>2. \/ D = t
      \/ /\ After(D, t)
         /\ \A x \in Work(m) : After(x, t) /\ Elapsed(t, D) <= Elapsed(t, x)
  BY NextDeadlineIs
<1>3. t # NoTimer
  BY ClockAssumption DEF Time, NoTimer
<1> HIDE DEF D
<1>4. CASE D = t
  <2>1. Reached(D, t) /\ Elapsed(D, t) = 0
    BY <1>3, <1>4, AfterAsymmetric DEF Reached
  <2> QED
    BY <2>1 DEF Armed, D
<1>5. CASE D # t
  BY <1>2, <1>5 DEF Armed, D
<1> QED
  BY <1>4, <1>5

\* One tick later it still is, if the host was not too late already.
LEMMA TickArmed ==
  ASSUME NEW m \in DispatcherRecord, NEW tm \in Time, NEW t \in Time, NEW l \in Nat,
         Reached(tm, t) => l < Half - 1, Armed(m, tm, t, l)
  PROVE  Armed(m, tm, Later(t, 1), IF Reached(tm, t) THEN l + 1 ELSE 0)
<1> DEFINE u == Later(t, 1)
<1>1. u \in Time
  BY TickDistance
<1>2. \A a \in Time : /\ Elapsed(t, a) # 0 => Elapsed(u, a) = Elapsed(t, a) - 1
                      /\ Elapsed(a, t) # ClockMod - 1 => Elapsed(a, u) = Elapsed(a, t) + 1
  BY TickDistance
<1> HIDE DEF u
<1>3. \A a \in Time : /\ Elapsed(t, a) \in Nat /\ Elapsed(a, t) \in Nat /\ Elapsed(u, a) \in Nat
                      /\ Elapsed(a, u) \in Nat
                      /\ Elapsed(a, u) = IF Elapsed(u, a) = 0 THEN 0 ELSE ClockMod - Elapsed(u, a)
  BY <1>1, ElapsedTime, TimeConstants, Opposite
<1>4. \A a \in Time : /\ After(a, t) <=> Elapsed(t, a) \in 1 .. Half - 1
                      /\ After(a, u) <=> Elapsed(u, a) \in 1 .. Half - 1
  BY <1>1, AfterIs
<1>5. tm # NoTimer
  BY ClockAssumption DEF Time, NoTimer
<1>6. Half \in Nat /\ 2 * Half = ClockMod /\ ClockMod \in Nat
  BY HalfIs, ClockAssumption
<1>7. CASE Reached(tm, t)
  <2>1. Elapsed(tm, t) <= l /\ l < Half - 1
    BY <1>7 DEF Armed, Reached
  <2>2. Elapsed(tm, u) = Elapsed(tm, t) + 1 /\ Elapsed(tm, u) <= l + 1
    BY <2>1, <1>2, <1>3, <1>6
  <2>3. ~After(tm, u)
    BY <2>1, <2>2, <1>3, <1>4, <1>6
  <2> QED
    BY <1>5, <1>7, <2>2, <2>3 DEF Armed, Reached, u
<1>8. CASE ~Reached(tm, t)
  <2>1. /\ Elapsed(t, tm) \in 1 .. Half - 1
        /\ \A x \in Work(m) : After(x, t) /\ Elapsed(t, tm) <= Elapsed(t, x)
    BY <1>4, <1>8 DEF Armed
  <2>2. Elapsed(u, tm) = Elapsed(t, tm) - 1
    BY <2>1, <1>2
  <2>3. CASE Elapsed(u, tm) = 0
    <3>1. Reached(tm, u) /\ Elapsed(tm, u) = 0
      BY <2>3, <1>3, <1>4, <1>5 DEF Reached
    <3> QED
      BY <1>8, <3>1 DEF Armed, u
  <2>4. CASE Elapsed(u, tm) # 0
    <3>1. After(tm, u)
      BY <2>1, <2>2, <2>4, <1>3, <1>4, <1>6
    <3>2. ASSUME NEW x \in Work(m)
          PROVE  After(x, u) /\ Elapsed(u, tm) <= Elapsed(u, x)
      <4>1. x \in Time
        BY WorkType
      <4>2. Elapsed(t, x) \in 1 .. Half - 1 /\ Elapsed(t, tm) <= Elapsed(t, x)
        BY <4>1, <2>1, <1>4
      <4>3. Elapsed(u, x) = Elapsed(t, x) - 1
        BY <4>1, <4>2, <1>2
      <4> QED
        BY <4>1, <4>2, <4>3, <2>1, <2>2, <2>4, <1>3, <1>4, <1>6
    <3> QED
      BY <1>8, <3>1, <3>2 DEF Armed, u
  <2> QED
    BY <2>3, <2>4
<1> QED
  BY <1>7, <1>8

\* A running runtime has its timer armed so.
TimerArmed == up => timer \in Time /\ Armed(d, timer, now, late)

\* Every call that synchronizes the timer keeps it.
LEMMA FinishArmed ==
  ASSUME Inv, Inv', NEW n, NEW pending, Finish(n, pending), late' = 0 \/ KeepWaiting
  PROVE  TimerArmed'
<1>1. /\ now \in Time /\ rxmode \in BOOLEAN /\ late \in Nat /\ d' \in DispatcherRecord
      /\ timer' = NextDeadline(d', rxmode, now) /\ now' = now
  BY DEF Inv, TypeOK, Finish
<1>2. /\ Armed(d', timer', now, 0)
      /\ Armed(d', timer', now, IF Reached(timer', now) THEN late ELSE 0)
      /\ timer' \in Time
  BY <1>1, DeadlineArmed, NextDeadlineType
<1>3. Armed(d', timer', now', late')
  BY <1>1, <1>2 DEF KeepWaiting
<1> QED
  BY <1>2, <1>3 DEF TimerArmed

\* Every step keeps it, on a host that is late by less than half a turn.
LEMMA NextArmed ==
  ASSUME MaxLate < Half, Inv, Inv', TimerArmed, [Next]_vars
  PROVE  TimerArmed'
<1>0. /\ now \in Time /\ rxmode \in BOOLEAN /\ d \in DispatcherRecord
      /\ late \in 0 .. MaxLate /\ MaxLate \in Nat /\ d' \in DispatcherRecord
  BY PumpAssumption DEF Inv, TypeOK
<1>1. CASE InitRuntime
  <2>1. /\ timer' = NextDeadline(d', rxmode, now) /\ late' = 0 /\ now' = now
    BY <1>1 DEF InitRuntime
  <2> QED
    BY <1>0, <2>1, DeadlineArmed, NextDeadlineType DEF TimerArmed
<1>2. CASE Deinit \/ TimerFiredDown
  BY <1>2 DEF Deinit, TimerFiredDown, TimerArmed
<1>3. CASE TimerFired \/ CorrelationTimer
  <2>1. late' = 0 /\ \E n : Finish(n, owed)
    BY <1>3 DEF TimerFired, CorrelationTimer
  <2> QED
    BY <2>1, FinishArmed
<1>4. ASSUME NEW f \in Frames, RxInject(f) PROVE TimerArmed'
  <2>1. KeepWaiting /\ \E n : Finish(n, owed)
    BY <1>4 DEF RxInject
  <2> QED
    BY <2>1, FinishArmed
<1>5. ASSUME NEW success \in BOOLEAN, TxDone(success) PROVE TimerArmed'
  <2>1. KeepWaiting /\ \E n : Finish(n, Tail(owed))
    BY <1>5 DEF TxDone
  <2> QED
    BY <2>1, FinishArmed
<1>6. ASSUME NEW r \in Requests, Request(r) PROVE TimerArmed'
  BY <1>6, FinishArmed DEF Request
<1>7. CASE TxReportLost \/ RadioMode \/ UNCHANGED vars
  <2>1. UNCHANGED <<now, up, d, timer, late>>
    BY <1>7 DEF TxReportLost, RadioMode, vars
  <2> QED
    BY <2>1 DEF TimerArmed
<1>8. CASE Tick
  <2>1. /\ now' = Later(now, 1) /\ UNCHANGED <<up, d, timer>>
        /\ late' = IF Reached(timer, now) THEN late + 1 ELSE 0
        /\ Reached(timer, now) => late < MaxLate
    BY <1>8 DEF Tick
  <2>2. Reached(timer, now) => late < Half - 1
    BY <1>0, <2>1, HalfIs
  <2>3. late \in Nat
    BY <1>0
  <2>4. CASE up
    <3>1. Armed(d, timer, Later(now, 1), IF Reached(timer, now) THEN late + 1 ELSE 0)
      BY <1>0, <2>2, <2>3, <2>4, TickArmed DEF TimerArmed
    <3> QED
      BY <2>1, <2>4, <3>1 DEF TimerArmed
  <2> QED
    BY <2>1, <2>4 DEF TimerArmed
<1> QED
  BY <1>1, <1>2, <1>3, <1>4, <1>5, <1>6, <1>7, <1>8 DEF Next

\* next_deadline_get misses none of the conditions the loop tests: on a host that
\* serves an expired timer within half a turn of the clock, whenever the loop
\* could move a packet the armed timer has expired.
THEOREM MissesNoWork ==
  ASSUME MaxLate < Half
  PROVE  Spec => []NoMissedWork
<1>1. Init => TimerArmed
  BY DEF Init, TimerArmed
<1>2. Inv /\ Inv' /\ TimerArmed /\ [Next]_vars => TimerArmed'
  BY NextArmed
<1>3. Inv /\ TimerArmed => NoMissedWork
  <2> SUFFICES ASSUME Inv, TimerArmed, up, ~Reached(timer, now)
               PROVE  Queues(Loop(d, Favourable, now)) = Queues(d)
    BY DEF NoMissedWork
  <2>1. \A x \in Work(d) : After(x, now)
    BY DEF TimerArmed, Armed
  <2>2. Favourable \in Answer
    <3>1. (CHOOSE v \in Verdicts : TRUE) \in Verdict /\ MaxAir \in Nat
      BY PumpAssumption, DispatcherAssumption
    <3> QED
      BY <3>1 DEF Favourable, Answer, Inv, TypeOK
  <2> QED
    BY <2>1, <2>2, LoopIdle DEF Inv, TypeOK, Queues
<1> QED
  BY <1>1, <1>2, <1>3, AlwaysInv, PTL DEF Spec

---------------------------------------------------------------------------
(* Completion reports.                                                     *)

\* What the host must do for reports to be told apart, as they carry nothing: not
\* restart the runtime with a frame on the air, and report on a frame before the
\* dispatcher gives it up, half as long again as its estimated airtime.
PromptReports ==
  /\ ~Restarts
  /\ \A a \in Airtimes : MaxReport <= (a * 3) \div 2 /\ (a * 3) \div 2 < Half

\* The radio owes no report, or one, on the frame that is outbound.
OwedInv ==
  owed # <<>> =>
    /\ up /\ d.outbound # None
    /\ owed = <<[id |-> d.frame, at |-> d.outbound_start]>>
    /\ Elapsed(d.outbound_start, now) <= MaxReport
    /\ \E a \in Airtimes : d.outbound_expiry = Later(d.outbound_start, (a * 3) \div 2)

\* The only report owed is the last.
LEMMA LastReport == ASSUME OwedInv, owed # <<>> PROVE Tail(owed) = <<>>
<1>1. PICK r : owed = <<r>>
  BY DEF OwedInv
<1>2. Tail(<<r>>) = <<>>
  OBVIOUS
<1> QED
  BY <1>1, <1>2

\* A frame whose report may still come has not expired.
LEMMA NotGivenUp ==
  ASSUME PromptReports, NEW s \in Time, NEW t \in Time, Elapsed(s, t) <= MaxReport,
         NEW a \in Airtimes
  PROVE  ~HasPassed(Later(s, (a * 3) \div 2), t)
<1> DEFINE X == (a * 3) \div 2
           v == Later(s, X)
<1>1. a \in Nat /\ MaxReport \in Nat
  BY PumpAssumption
<1>2. X \in Nat /\ MaxReport <= X /\ X < Half
  BY <1>1 DEF PromptReports
<1> HIDE DEF X
<1>3. Half \in Nat /\ 2 * Half = ClockMod /\ ClockMod \in Nat
  BY HalfIs, ClockAssumption
<1>4. X \in Time
  BY <1>2, <1>3 DEF Time
<1>5. v = IF s + X < ClockMod THEN s + X ELSE s + X - ClockMod
  BY <1>4, LaterIs
<1> HIDE DEF v
<1>6. v \in Time
  BY <1>3, <1>4, <1>5 DEF Time
<1>7. /\ Elapsed(s, t) = IF s <= t THEN t - s ELSE t - s + ClockMod
      /\ Elapsed(v, t) = IF v <= t THEN t - v ELSE t - v + ClockMod
  BY <1>6, ElapsedIs
<1>8. ~(Elapsed(v, t) \in 1 .. Half - 1)
  BY <1>1, <1>2, <1>3, <1>4, <1>5, <1>6, <1>7 DEF Time
<1> QED
  BY <1>6, <1>8, AfterIs DEF HasPassed, v, X

\* The end of a call that leaves what is on the air alone.
LEMMA OwedKept ==
  ASSUME Inv, OwedInv, up, NEW n, Grows(n, d), Finish(n, owed)
  PROVE  OwedInv'
<1>1. /\ owed' = owed /\ d' = n /\ now' = now /\ up' = up
  BY DEF Finish, Grows
<1> QED
  BY <1>1 DEF OwedInv, Grows

\* The end of a call that ran the loop.
LEMMA OwedLooped ==
  ASSUME PromptReports, Inv, up, OwedInv, NEW m \in DispatcherRecord, m.frame = d.frame,
         NEW pending, pending = <<>> \/ (pending = owed /\ Grows(m, d)),
         NEW n \in Looped(m, pending), Finish(n, pending)
  PROVE  OwedInv'
<1>0. now \in Time /\ rxmode \in BOOLEAN /\ d \in DispatcherRecord
  BY DEF Inv, TypeOK
<1>1. PICK e \in Answers(pending) : n = Loop(m, e, now)
  BY DEF Looped
<1>2. e \in Answer /\ e.air \in Airtimes
  BY <1>0, PumpAssumption DEF Answers, Answer
<1>3. d' = n /\ now' = now /\ up' = up
      /\ owed' = IF n.frame = d.frame THEN pending
                 ELSE Append(pending, [id |-> n.frame, at |-> now])
  BY DEF Finish
<1>4. CASE pending = <<>>
  <2>1. CASE n.frame = d.frame
    BY <2>1, <1>3, <1>4 DEF OwedInv
  <2>2. CASE n.frame # d.frame
    <3>1. \E k : Started(n, k, e.air, now)
      BY <1>0, <1>1, <1>2, <2>2, LoopCases DEF Grows
    <3>2. owed' = <<[id |-> n.frame, at |-> now]>>
      BY <1>3, <1>4, <2>2
    <3>3. Elapsed(now, now) <= MaxReport
      BY <1>0, AfterAsymmetric, PumpAssumption
    <3> QED
      BY <1>2, <1>3, <3>1, <3>2, <3>3 DEF OwedInv, Started
  <2> QED
    BY <2>1, <2>2
<1>5. CASE pending # <<>>
  <2>1. pending = owed /\ Grows(m, d) /\ owed # <<>>
    BY <1>5
  <2>2. m.outbound # None /\ m.outbound_expiry = d.outbound_expiry
    BY <2>1 DEF OwedInv, Grows
  <2>3. ~HasPassed(d.outbound_expiry, now)
    <3>1. d.outbound_start \in Time
      BY <1>0, Fields
    <3> QED
      BY <1>0, <2>1, <3>1, NotGivenUp DEF OwedInv
  <2>4. Grows(n, m)
    BY <1>0, <1>1, <1>2, <2>2, <2>3, LoopCases
  <2>5. n \in DispatcherRecord
    BY <1>0, <1>1, <1>2, LoopType
  <2>6. Grows(n, d)
    BY <1>0, <2>1, <2>4, <2>5, GrowsTrans
  <2> QED
    BY <2>1, <2>6, OwedKept
<1> QED
  BY <1>4, <1>5

\* Every step keeps it.
LEMMA NextOwed ==
  ASSUME PromptReports, Inv, OwedInv, [Next]_vars
  PROVE  OwedInv'
<1>0. /\ now \in Time /\ rxmode \in BOOLEAN /\ d \in DispatcherRecord
      /\ up => Conserved(d, {})
  BY DEF Inv, TypeOK, PacketConservation
<1>a. Grows(d, d)
  BY <1>0, GrowsSame
<1>1. CASE InitRuntime
  BY <1>1 DEF InitRuntime, OwedInv
<1>2. CASE Deinit
  BY <1>2 DEF Deinit, PromptReports
<1>3. CASE TimerFired \/ CorrelationTimer
  <2>1. up
    BY <1>3 DEF TimerFired, CorrelationTimer
  <2>2. PICK n \in Looped(d, owed) : Finish(n, owed)
    BY <1>3 DEF TimerFired, CorrelationTimer
  <2> QED
    BY <1>0, <1>a, <2>1, <2>2, OwedLooped
<1>4. ASSUME NEW f \in Frames, RxInject(f) PROVE OwedInv'
  <2>1. up /\ f \in [parses : BOOLEAN, flood : BOOLEAN, delay : Nat]
    BY <1>4, PumpAssumption DEF RxInject
  <2>2. PICK v \in Verdicts :
          IF CanAlloc(d) /\ f.parses
          THEN \E n \in Looped(ReceiveRaw(d, f, v, now), owed) : Finish(n, owed)
          ELSE Finish(ReceiveRaw(d, f, v, now), owed)
    BY <1>4 DEF RxInject
  <2> DEFINE m == ReceiveRaw(d, f, v, now)
  <2>3. m \in DispatcherRecord /\ Grows(m, d)
    BY <1>0, <2>1, PumpAssumption, ReceiveRawType, ReceiveRawGrows
  <2> HIDE DEF m
  <2>4. CASE Finish(m, owed)
    BY <2>1, <2>3, <2>4, OwedKept
  <2>5. CASE \E n \in Looped(m, owed) : Finish(n, owed)
    <3>1. m.frame = d.frame
      BY <2>3 DEF Grows
    <3> QED
      BY <2>1, <2>3, <2>5, <3>1, OwedLooped
  <2> QED
    BY <2>2, <2>4, <2>5 DEF m
<1>5. ASSUME NEW success \in BOOLEAN, TxDone(success) PROVE OwedInv'
  <2> DEFINE m == DispatcherTxDone(d, success, now)
  <2>1. up /\ Tail(owed) = <<>>
    BY <1>5, LastReport DEF TxDone
  <2>2. m \in DispatcherRecord /\ m.frame = d.frame
    BY <1>0, TxDoneType, TxDoneFrame
  <2>3. PICK n \in Looped(m, Tail(owed)) : Finish(n, Tail(owed))
    BY <1>5 DEF TxDone
  <2> HIDE DEF m
  <2> QED
    BY <2>1, <2>2, <2>3, OwedLooped
<1>6. ASSUME NEW r \in Requests, Request(r) PROVE OwedInv'
  <2>1. up /\ Finish(SendNew(d, r, now), owed)
    BY <1>6 DEF Request
  <2>2. Grows(SendNew(d, r, now), d)
    BY <1>0, SendNewGrows, PumpAssumption
  <2> QED
    BY <2>1, <2>2, OwedKept
<1>7. CASE TxReportLost
  <2>1. owed' = <<>>
    BY <1>7, LastReport DEF TxReportLost
  <2> QED
    BY <2>1 DEF OwedInv
<1>8. CASE TimerFiredDown \/ RadioMode \/ UNCHANGED vars
  <2>1. UNCHANGED <<now, up, d, owed>>
    BY <1>8 DEF TimerFiredDown, RadioMode, vars
  <2> QED
    BY <2>1 DEF OwedInv
<1>9. CASE Tick
  <2>1. /\ now' = Later(now, 1) /\ UNCHANGED <<up, d, owed>>
        /\ \A i \in DOMAIN owed : Elapsed(owed[i].at, now) < MaxReport
    BY <1>9 DEF Tick
  <2>2. CASE owed = <<>>
    BY <2>1, <2>2 DEF OwedInv
  <2>3. CASE owed # <<>>
    <3> DEFINE s == d.outbound_start
    <3>1. s \in Time
      BY <1>0, Fields
    <3>2. owed = <<[id |-> d.frame, at |-> s]>>
      BY <2>3 DEF OwedInv
    <3>3. Elapsed(s, now) < MaxReport
      BY <2>1, <3>2
    <3>4. MaxReport < Half /\ MaxReport \in Nat
      <4>1. PICK a \in Airtimes : TRUE
        BY <2>3 DEF OwedInv
      <4>2. MaxReport <= (a * 3) \div 2 /\ (a * 3) \div 2 < Half /\ a \in Nat /\ MaxReport \in Nat
        BY <4>1, PumpAssumption DEF PromptReports
      <4>3. (a * 3) \div 2 \in Nat
        BY <4>2
      <4> QED
        BY <4>2, <4>3, HalfIs
    <3>5. Elapsed(s, now) \in Nat /\ Half \in Nat /\ 2 * Half = ClockMod
      BY <1>0, <3>1, ElapsedTime, TimeConstants, HalfIs
    <3> HIDE DEF s
    <3>6. Elapsed(s, now) # ClockMod - 1
      BY <3>3, <3>4, <3>5
    <3>7. Elapsed(s, now') <= MaxReport
      BY <1>0, <2>1, <3>1, <3>3, <3>4, <3>5, <3>6, TickDistance
    <3> QED
      BY <2>1, <2>3, <3>7 DEF OwedInv, s
  <2> QED
    BY <2>2, <2>3
<1> QED
  BY <1>1, <1>2, <1>3, <1>4, <1>5, <1>6, <1>7, <1>8, <1>9 DEF Next

\* meshcore_radio_tx_done carries nothing that names a frame, and tx_done acts on
\* whatever is outbound; yet on a host that keeps PromptReports a completion is
\* always credited to the frame it is about, whatever is lost, refused or given up.
THEOREM CompletionsMatch ==
  ASSUME PromptReports
  PROVE  Spec => []CompletionMatchesOutbound
<1>1. Init => OwedInv
  BY DEF Init, OwedInv
<1>2. Inv /\ OwedInv /\ [Next]_vars => OwedInv'
  BY NextOwed
<1>3. OwedInv => CompletionMatchesOutbound
  BY DEF OwedInv, CompletionMatchesOutbound
<1> QED
  BY <1>1, <1>2, <1>3, AlwaysInv, PTL DEF Spec
=============================================================================
