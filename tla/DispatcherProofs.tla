-------------------------- MODULE DispatcherProofs --------------------------
(***************************************************************************)
(* What the operators of PacketManager and Dispatcher preserve, for every  *)
(* pool size, clock range and value of the other constants: the type of    *)
(* the dispatcher record and the conservation of packet buffers.           *)
(***************************************************************************)
EXTENDS Dispatcher, ClockProofs, FiniteSetTheorems, SequenceTheorems,
        WellFoundedInduction

---------------------------------------------------------------------------
(* Arithmetic.                                                             *)

\* A remainder lies below its modulus.
LEMMA ModRange ==
  ASSUME NEW a \in Int, NEW b \in Nat \ {0} PROVE a % b \in 0 .. b - 1
  OBVIOUS

\* A quotient of naturals is a natural.
LEMMA DivNat ==
  ASSUME NEW a \in Nat, NEW b \in Nat \ {0} PROVE a \div b \in Nat
  OBVIOUS

\* A product of naturals is a natural.
LEMMA MulNat ==
  ASSUME NEW a \in Nat, NEW b \in Nat PROVE a * b \in Nat
  OBVIOUS

\* future_millis yields a clock value, wrap-around included.
LEMMA LaterTime ==
  ASSUME NEW t \in Nat, NEW n \in Nat PROVE Later(t, n) \in Time
  BY ClockAssumption, ModRange DEF Later, Time

\* An unsigned clock difference is a clock value.
LEMMA ElapsedTime ==
  ASSUME NEW t \in Time, NEW s \in Time PROVE Elapsed(t, s) \in Time
  BY ClockAssumption, ModRange DEF Elapsed, Time

\* The full transmit budget is a natural number.
LEMMA MaxBudgetNat == MaxBudget \in Nat
  BY DispatcherAssumption, DivNat DEF MaxBudget

\* A non-empty set of naturals has a least element.
LEMMA NatMin ==
  ASSUME NEW S, S \subseteq Nat, S # {}
  PROVE  \E x \in S : \A y \in S : x <= y
<1>1. PICK x \in S : \A y \in S : ~(<<y, x>> \in OpToRel(<, Nat))
  BY WFMin, NatLessThanWellFounded, Zenon
<1>2. \A y \in S : ~(y < x)
  BY <1>1 DEF OpToRel
<1> QED
  BY <1>2

---------------------------------------------------------------------------
(* Types.                                                                  *)

\* The fields of a dispatcher record, and the updates that keep its type.
LEMMA Fields ==
  ASSUME NEW m \in DispatcherRecord
  PROVE  /\ m.unused \in Seq(Packet) /\ m.sendq \in Seq(Entry) /\ m.rxq \in Seq(Entry)
         /\ m.outbound \in Packet \cup {None}
         /\ m.outbound_start \in Time /\ m.outbound_expiry \in Time
         /\ m.next_tx_time \in Time /\ m.cad_busy_start \in Time
         /\ m.next_floor_calib_time \in Time /\ m.next_agc_reset_time \in Time
         /\ m.prev_isrecv_mode \in BOOLEAN /\ m.radio_nonrx_start \in Time
         /\ m.tx_budget_ms \in 0 .. MaxBudget /\ m.last_budget_update \in Time
         /\ m.frame \in 0 .. FrameIds - 1
  BY DEF DispatcherRecord

\* Replacing the free list keeps the record's type.
LEMMA UnusedUpdate ==
  ASSUME NEW m \in DispatcherRecord, NEW s \in Seq(Packet)
  PROVE  [m EXCEPT !.unused = s] \in DispatcherRecord
  BY DEF DispatcherRecord

\* Replacing a queue keeps the record's type.
LEMMA QueueUpdates ==
  ASSUME NEW m \in DispatcherRecord, NEW q \in Seq(Entry)
  PROVE  /\ [m EXCEPT !.sendq = q] \in DispatcherRecord
         /\ [m EXCEPT !.rxq = q] \in DispatcherRecord
  BY DEF DispatcherRecord

\* 0 and every future time are clock values.
LEMMA TimeConstants ==
  /\ 0 \in Time /\ Time \subseteq Nat
  /\ \A t \in Time, n \in Nat : Later(t, n) \in Time
  BY ClockAssumption, LaterTime DEF Time

\* alloc_new keeps the type and yields a packet.
LEMMA AllocType ==
  ASSUME NEW m \in DispatcherRecord, CanAlloc(m)
  PROVE  AllocRest(m) \in DispatcherRecord /\ AllocPkt(m) \in Packet
<1>1. m.unused \in Seq(Packet) /\ m.unused # <<>>
  BY Fields DEF CanAlloc
<1>2. Head(m.unused) \in Packet /\ Tail(m.unused) \in Seq(Packet)
  BY <1>1
<1> QED
  BY <1>2, UnusedUpdate DEF AllocRest, AllocPkt

\* The manager's free keeps the type.
LEMMA FreeType ==
  ASSUME NEW m \in DispatcherRecord, NEW p \in Packet
  PROVE  Free(m, p) \in DispatcherRecord
<1>1. Append(m.unused, p) \in Seq(Packet)
  BY Fields
<1> QED
  BY <1>1, UnusedUpdate DEF Free

\* queue_outbound and queue_inbound keep the type.
LEMMA QueueType ==
  ASSUME NEW m \in DispatcherRecord, NEW p \in Packet, NEW pri \in Priority, NEW at \in Time
  PROVE  /\ QueueOutbound(m, p, pri, at) \in DispatcherRecord
         /\ QueueInbound(m, p, at) \in DispatcherRecord
<1> DEFINE e == [pkt |-> p, pri |-> pri, at |-> at]
           f == [pkt |-> p, pri |-> 0, at |-> at]
<1>1. e \in Entry /\ f \in Entry
  BY DEF Entry, Priority, NoPriority
<1>2. Append(m.sendq, e) \in Seq(Entry) /\ Append(m.rxq, f) \in Seq(Entry)
  <2> HIDE DEF e, f
  <2> QED BY <1>1, Fields
<1> QED
  BY <1>2, QueueUpdates, FreeType DEF QueueOutbound, QueueInbound

\* compact_from keeps a queue a queue.
LEMMA CompactType ==
  ASSUME NEW q \in Seq(Entry), NEW i \in DOMAIN q
  PROVE  CompactFrom(q, i) \in Seq(Entry)
  BY DEF CompactFrom

\* queue_get's search has a result whenever there is an eligible entry.
LEMMA BestIdxExists ==
  ASSUME NEW q \in Seq(Entry), NEW now \in Time, Eligible(q, now) # {}
  PROVE  /\ BestIdx(q, now) \in Eligible(q, now)
         /\ \A j \in Eligible(q, now) :
              LET i == BestIdx(q, now) IN
              q[i].pri < q[j].pri \/ (q[i].pri = q[j].pri /\ i <= j)
<1> DEFINE E == Eligible(q, now)
           P == {q[i].pri : i \in E}
           Best(i) == \A j \in E : q[i].pri < q[j].pri \/ (q[i].pri = q[j].pri /\ i <= j)
<1>1. E \subseteq DOMAIN q /\ DOMAIN q \subseteq Nat
  BY DEF Eligible, Due
<1>2. \A i \in E : q[i].pri \in Nat
  <2> SUFFICES ASSUME NEW i \in E PROVE q[i].pri \in Nat
    OBVIOUS
  <2>1. q[i] \in Entry
    BY <1>1
  <2> QED BY <2>1 DEF Entry, Priority
<1>3. PICK p \in P : \A r \in P : p <= r
  <2>1. P \subseteq Nat /\ P # {}
    BY <1>2
  <2> QED BY <2>1, NatMin
<1>4. PICK i \in {k \in E : q[k].pri = p} : \A j \in {k \in E : q[k].pri = p} : i <= j
  <2>1. {k \in E : q[k].pri = p} \subseteq Nat /\ {k \in E : q[k].pri = p} # {}
    BY <1>1, <1>3
  <2> QED BY <2>1, NatMin
<1>5. i \in E /\ Best(i)
  <2>1. i \in E /\ i \in Nat /\ q[i].pri = p /\ p \in Nat
    BY <1>1, <1>2, <1>4
  <2>2. ASSUME NEW j \in E
        PROVE  q[i].pri < q[j].pri \/ (q[i].pri = q[j].pri /\ i <= j)
    <3>1. q[j].pri \in Nat /\ p <= q[j].pri
      BY <1>2, <1>3
    <3>2. q[j].pri = p => i <= j
      BY <1>4
    <3> QED BY <2>1, <3>1, <3>2
  <2> QED BY <2>1, <2>2
<1>6. BestIdx(q, now) = CHOOSE k \in E : Best(k)
  BY DEF BestIdx
<1> HIDE DEF E, Best
<1>7. BestIdx(q, now) \in E /\ Best(BestIdx(q, now))
  BY <1>5, <1>6
<1> QED
  BY <1>7 DEF E, Best

\* get_next_inbound and get_next_outbound keep the type and yield a packet.
LEMMA TakeType ==
  ASSUME NEW m \in DispatcherRecord, NEW now \in Time
  PROVE  /\ HasInbound(m, now) => /\ TakeInbound(m, now) \in DispatcherRecord
                                  /\ NextInbound(m, now) \in Packet
         /\ HasOutbound(m, now) => /\ TakeOutbound(m, now) \in DispatcherRecord
                                   /\ NextOutbound(m, now) \in Packet
<1>1. ASSUME NEW q \in Seq(Entry), Eligible(q, now) # {}
      PROVE  CompactFrom(q, BestIdx(q, now)) \in Seq(Entry) /\ q[BestIdx(q, now)].pkt \in Packet
  <2>1. BestIdx(q, now) \in DOMAIN q
    BY <1>1, BestIdxExists DEF Eligible, Due
  <2>2. q[BestIdx(q, now)] \in Entry
    BY <2>1
  <2> QED
    BY <2>1, <2>2, CompactType DEF Entry
<1> QED
  BY <1>1, Fields, QueueUpdates
  DEF HasInbound, TakeInbound, NextInbound, HasOutbound, TakeOutbound, NextOutbound

\* update_tx_budget keeps the type: the budget stays under its cap.
LEMMA BudgetType ==
  ASSUME NEW m \in DispatcherRecord, NEW now \in Time
  PROVE  UpdateTxBudget(m, now) \in DispatcherRecord
<1> DEFINE refill == Elapsed(m.last_budget_update, now) \div (1 + Factor)
           sum == m.tx_budget_ms + refill
           left == IF sum > MaxBudget THEN MaxBudget ELSE sum
<1>1. Elapsed(m.last_budget_update, now) \in Nat
  BY Fields, ElapsedTime, TimeConstants
<1>2. refill \in Nat
  BY <1>1, DivNat, DispatcherAssumption
<1>3. left \in 0 .. MaxBudget
  BY <1>2, Fields, MaxBudgetNat
<1> HIDE DEF left
<1>4. [m EXCEPT !.tx_budget_ms = left, !.last_budget_update = now] \in DispatcherRecord
  BY <1>3 DEF DispatcherRecord
<1> QED
  BY <1>4 DEF UpdateTxBudget, left

\* obtain_new_packet and send_packet keep the type.
LEMMA SendNewType ==
  ASSUME NEW m \in DispatcherRecord, NEW r \in Reply \cup {Nothing}, NEW now \in Time
  PROVE  SendNew(m, r, now) \in DispatcherRecord
<1>1. CASE r = Nothing \/ ~CanAlloc(m)
  BY <1>1 DEF SendNew
<1>2. CASE ~(r = Nothing \/ ~CanAlloc(m))
  <2>1. r.pri \in Priority /\ Later(now, r.delay) \in Time
    BY <1>2, TimeConstants DEF Reply
  <2>2. AllocRest(m) \in DispatcherRecord /\ AllocPkt(m) \in Packet
    BY <1>2, AllocType
  <2> QED
    BY <1>2, <2>1, <2>2, QueueType, FreeType DEF SendNew
<1> QED
  BY <1>1, <1>2

\* process_recv_packet keeps the type.
LEMMA ProcessRecvType ==
  ASSUME NEW m \in DispatcherRecord, NEW p \in Packet, NEW v \in Verdict, NEW now \in Time
  PROVE  ProcessRecv(m, p, v, now) \in DispatcherRecord
<1> DEFINE m1 == SendNew(SendNew(m, v.first, now), v.second, now)
<1>1. m1 \in DispatcherRecord
  BY SendNewType DEF Verdict
<1> HIDE DEF m1
<1>2. CASE v.relay = Nothing
  BY <1>1, <1>2, FreeType DEF ProcessRecv, m1
<1>3. CASE v.relay # Nothing
  <2>1. v.relay.pri \in Priority /\ Later(now, v.relay.delay) \in Time
    BY <1>3, TimeConstants DEF Verdict, Relay
  <2> QED
    BY <1>1, <1>3, <2>1, QueueType DEF ProcessRecv, m1
<1> QED
  BY <1>2, <1>3

\* receive_raw keeps the type.
LEMMA ReceiveRawType ==
  ASSUME NEW m \in DispatcherRecord, NEW v \in Verdict, NEW now \in Time,
         NEW f \in [parses : BOOLEAN, flood : BOOLEAN, delay : Nat]
  PROVE  ReceiveRaw(m, f, v, now) \in DispatcherRecord
<1> DEFINE at == Later(now, IF f.delay > MaxRxDelay THEN MaxRxDelay ELSE f.delay)
<1>1. at \in Time
  BY TimeConstants, DispatcherAssumption
<1> HIDE DEF at
<1>2. CASE ~CanAlloc(m)
  BY <1>2 DEF ReceiveRaw
<1>3. CASE CanAlloc(m)
  <2>1. AllocRest(m) \in DispatcherRecord /\ AllocPkt(m) \in Packet
    BY <1>3, AllocType
  <2>2. Free(AllocRest(m), AllocPkt(m)) \in DispatcherRecord
    BY <2>1, FreeType
  <2>3. QueueInbound(AllocRest(m), AllocPkt(m), at) \in DispatcherRecord
    BY <1>1, <2>1, QueueType DEF Priority, NoPriority
  <2>4. ProcessRecv(AllocRest(m), AllocPkt(m), v, now) \in DispatcherRecord
    BY <2>1, ProcessRecvType
  <2> QED
    BY <1>3, <2>2, <2>3, <2>4 DEF ReceiveRaw, at
<1> QED
  BY <1>2, <1>3

\* Accounting touches no packet.
LEMMA BudgetFrame ==
  ASSUME NEW m \in DispatcherRecord, NEW now \in Time
  PROVE  LET n == UpdateTxBudget(m, now) IN
         /\ n.unused = m.unused /\ n.sendq = m.sendq /\ n.rxq = m.rxq
         /\ n.outbound = m.outbound /\ n.frame = m.frame
  BY DEF UpdateTxBudget, DispatcherRecord

\* Charging a transmission touches no packet.
LEMMA ChargeFrame ==
  ASSUME NEW m \in DispatcherRecord, NEW now \in Time
  PROVE  LET n == ChargeAirtime(m, now) IN
         /\ n.unused = m.unused /\ n.sendq = m.sendq /\ n.rxq = m.rxq
         /\ n.outbound = m.outbound /\ n.frame = m.frame
<1>1. UpdateTxBudget(m, now) \in DispatcherRecord
  BY BudgetType
<1> QED
  BY <1>1, BudgetFrame DEF ChargeAirtime, DispatcherRecord

\* The charge of a transmission keeps the type: the budget never goes below 0.
LEMMA ChargeType ==
  ASSUME NEW m \in DispatcherRecord, NEW now \in Time
  PROVE  ChargeAirtime(m, now) \in DispatcherRecord
<1> DEFINE m1 == UpdateTxBudget(m, now)
           air == Elapsed(m.outbound_start, now)
           left == IF air > m1.tx_budget_ms THEN 0 ELSE m1.tx_budget_ms - air
           tx == IF left < Reserve THEN Later(now, (Reserve - left) * (1 + Factor)) ELSE now
<1>1. m1 \in DispatcherRecord
  BY BudgetType
<1>2. air \in Nat
  BY Fields, ElapsedTime, TimeConstants
<1> HIDE DEF m1, air
<1>3. left \in 0 .. MaxBudget
  BY <1>1, <1>2, Fields, MaxBudgetNat
<1> HIDE DEF left
<1>4. left < Reserve => (Reserve - left) * (1 + Factor) \in Nat
  BY <1>3, DispatcherAssumption, MaxBudgetNat
<1>5. tx \in Time
  BY <1>4, TimeConstants
<1> HIDE DEF tx
<1>6. [m1 EXCEPT !.tx_budget_ms = left, !.next_tx_time = tx] \in DispatcherRecord
  BY <1>1, <1>3, <1>5 DEF DispatcherRecord
<1> QED
  BY <1>6 DEF ChargeAirtime, m1, air, left, tx

\* Releasing the outbound packet keeps the type.
LEMMA DropType ==
  ASSUME NEW m \in DispatcherRecord, m.outbound # None
  PROVE  DropOutbound(m) \in DispatcherRecord
<1>1. m.outbound \in Packet
  BY Fields
<1>2. Free(m, m.outbound) \in DispatcherRecord
  BY <1>1, FreeType
<1> QED
  BY <1>2, TimeConstants DEF DropOutbound, DispatcherRecord

\* tx_done keeps the type.
LEMMA TxDoneType ==
  ASSUME NEW m \in DispatcherRecord, NEW success \in BOOLEAN, NEW now \in Time
  PROVE  DispatcherTxDone(m, success, now) \in DispatcherRecord
<1> DEFINE m0 == IF success THEN ChargeAirtime(m, now) ELSE m
<1>1. CASE m.outbound = None
  BY <1>1 DEF DispatcherTxDone
<1>2. CASE m.outbound # None
  <2>1. m0 \in DispatcherRecord
    BY ChargeType
  <2>2. m0.outbound = m.outbound
    BY ChargeFrame
  <2>3. DropOutbound(m0) \in DispatcherRecord
    BY <1>2, <2>1, <2>2, DropType
  <2>4. AgcInterval > 0 => Later(now, AgcInterval) \in Time
    BY TimeConstants, DispatcherAssumption
  <2>5. AgcInterval > 0 =>
          [DropOutbound(m0) EXCEPT !.next_agc_reset_time = Later(now, AgcInterval)] \in DispatcherRecord
    BY <2>3, <2>4 DEF DispatcherRecord
  <2> QED
    BY <1>2, <2>3, <2>5 DEF DispatcherTxDone
<1> QED
  BY <1>1, <1>2

\* The start of a transmission keeps the type.
LEMMA StartSendType ==
  ASSUME NEW m \in DispatcherRecord, NEW e \in Answer, NEW now \in Time
  PROVE  StartSend(m, e, now) \in DispatcherRecord
<1> DEFINE m0 == [m EXCEPT !.cad_busy_start = 0]
           t == TakeOutbound(m0, now)
           m1 == [t EXCEPT !.outbound = NextOutbound(m0, now), !.outbound_start = now]
           expiry == Later(now, (e.air * 3) \div 2)
           m2 == [m1 EXCEPT !.outbound_expiry = expiry, !.frame = (@ + 1) % FrameIds]
<1>1. m0 \in DispatcherRecord /\ m0.sendq = m.sendq
  BY TimeConstants DEF DispatcherRecord
<1>2. CASE ~HasOutbound(m, now)
  BY <1>1, <1>2 DEF StartSend
<1>3. CASE HasOutbound(m, now)
  <2> HIDE DEF m0
  <2>1. t \in DispatcherRecord /\ NextOutbound(m0, now) \in Packet
    BY <1>1, <1>3, TakeType DEF HasOutbound
  <2> HIDE DEF t
  <2>2. m1 \in DispatcherRecord /\ m1.outbound # None
    <3>1. \A p \in Packet : p # None
      BY DEF Packet, None
    <3>2. \A p \in Packet : [t EXCEPT !.outbound = p, !.outbound_start = now] \in DispatcherRecord
      BY <2>1 DEF DispatcherRecord
    <3>3. m1.outbound = NextOutbound(m0, now)
      BY <2>1 DEF DispatcherRecord
    <3> QED BY <2>1, <3>1, <3>2, <3>3
  <2> HIDE DEF m1
  <2>3. DropOutbound(m1) \in DispatcherRecord
    BY <2>2, DropType
  <2>4. expiry \in Time
    <3>1. (e.air * 3) \div 2 \in Nat
      BY DEF Answer
    <3> QED BY <3>1, TimeConstants
  <2> HIDE DEF expiry
  <2>5. (m1.frame + 1) % FrameIds \in 0 .. FrameIds - 1
    <3>1. m1.frame + 1 \in Int
      BY <2>2, Fields, DispatcherAssumption
    <3> QED BY <3>1, DispatcherAssumption, ModRange
  <2>6. m2 \in DispatcherRecord
    BY <2>2, <2>4, <2>5 DEF DispatcherRecord
  <2> QED
    BY <1>3, <2>3, <2>6 DEF StartSend, m0, m1, t, expiry
<1> QED
  BY <1>2, <1>3

\* Channel sensing keeps the type.
LEMMA SenseChannelType ==
  ASSUME NEW m \in DispatcherRecord, NEW e \in Answer, NEW now \in Time
  PROVE  SenseChannel(m, e, now) \in DispatcherRecord
<1> DEFINE since == IF m.cad_busy_start = 0 THEN now ELSE m.cad_busy_start
<1>1. since \in Time /\ Later(now, RetryDelay) \in Time
  BY Fields, TimeConstants, DispatcherAssumption
<1> HIDE DEF since
<1>2. [m EXCEPT !.cad_busy_start = since, !.next_tx_time = Later(now, RetryDelay)]
        \in DispatcherRecord
  BY <1>1 DEF DispatcherRecord
<1> QED
  BY <1>2, StartSendType DEF SenseChannel, since

\* check_send keeps the type.
LEMMA CheckSendType ==
  ASSUME NEW m \in DispatcherRecord, NEW e \in Answer, NEW now \in Time
  PROVE  CheckSend(m, e, now) \in DispatcherRecord
<1> DEFINE m1 == UpdateTxBudget(m, now)
           threshold == MaxAir \div 2
           wait == (threshold - m1.tx_budget_ms) * (1 + Factor)
<1>1. m1 \in DispatcherRecord
  BY BudgetType
<1>2. threshold \in Nat
  BY DispatcherAssumption, DivNat
<1> HIDE DEF m1, threshold
<1>3. m1.tx_budget_ms < threshold => wait \in Nat
  <2>1. m1.tx_budget_ms < threshold => threshold - m1.tx_budget_ms \in Nat
    BY <1>1, <1>2, Fields, MaxBudgetNat
  <2> QED BY <2>1, MulNat, DispatcherAssumption
<1> HIDE DEF wait
<1>4. m1.tx_budget_ms < threshold =>
        [m1 EXCEPT !.next_tx_time = Later(now, wait)] \in DispatcherRecord
  <2>1. m1.tx_budget_ms < threshold => Later(now, wait) \in Time
    BY <1>3, TimeConstants
  <2> QED BY <1>1, <2>1 DEF DispatcherRecord
<1> QED
  BY <1>1, <1>4, SenseChannelType DEF CheckSend, m1, threshold, wait

\* Calibration and the receive-mode watch keep the type.
LEMMA WatchRadioType ==
  ASSUME NEW m \in DispatcherRecord, NEW rx \in BOOLEAN, NEW now \in Time
  PROVE  WatchRadio(m, rx, now) \in DispatcherRecord
<1> DEFINE calib == IF HasPassed(m.next_floor_calib_time, now)
                    THEN Later(now, CalibInterval) ELSE m.next_floor_calib_time
           start == IF m.prev_isrecv_mode /\ ~rx THEN now ELSE m.radio_nonrx_start
<1>1. calib \in Time /\ start \in Time
  BY Fields, TimeConstants, DispatcherAssumption
<1> HIDE DEF calib, start
<1>2. [m EXCEPT !.next_floor_calib_time = calib, !.prev_isrecv_mode = rx,
                !.radio_nonrx_start = start] \in DispatcherRecord
  BY <1>1 DEF DispatcherRecord
<1> QED
  BY <1>2 DEF WatchRadio, calib, start

\* The AGC reset keeps the type.
LEMMA ResetAgcType ==
  ASSUME NEW m \in DispatcherRecord, NEW now \in Time
  PROVE  ResetAgc(m, now) \in DispatcherRecord
<1>1. Later(now, AgcInterval) \in Time
  BY TimeConstants, DispatcherAssumption
<1>2. [m EXCEPT !.next_agc_reset_time = Later(now, AgcInterval)] \in DispatcherRecord
  BY <1>1 DEF DispatcherRecord
<1> QED
  BY <1>2 DEF ResetAgc

\* Processing a delayed reception keeps the type.
LEMMA ProcessInboundType ==
  ASSUME NEW m \in DispatcherRecord, NEW v \in Verdict, NEW now \in Time
  PROVE  ProcessInbound(m, v, now) \in DispatcherRecord
<1>1. CASE HasInbound(m, now)
  <2>1. TakeInbound(m, now) \in DispatcherRecord /\ NextInbound(m, now) \in Packet
    BY <1>1, TakeType
  <2> QED
    BY <1>1, <2>1, ProcessRecvType DEF ProcessInbound
<1> QED
  BY <1>1 DEF ProcessInbound

\* The dispatcher's loop keeps the type.
LEMMA LoopType ==
  ASSUME NEW m \in DispatcherRecord, NEW e \in Answer, NEW now \in Time
  PROVE  Loop(m, e, now) \in DispatcherRecord
<1> DEFINE m1 == WatchRadio(m, e.rx, now)
           m2 == DispatcherTxDone(m1, FALSE, now)
           m3 == ResetAgc(m2, now)
           m4 == ProcessInbound(m3, e.verdict, now)
<1>1. m1 \in DispatcherRecord
  BY WatchRadioType DEF Answer
<1>2. m2 \in DispatcherRecord
  BY <1>1, TxDoneType
<1>3. m3 \in DispatcherRecord
  BY <1>2, ResetAgcType
<1>4. m4 \in DispatcherRecord
  BY <1>3, ProcessInboundType DEF Answer
<1>5. CheckSend(m4, e, now) \in DispatcherRecord
  BY <1>4, CheckSendType
<1> QED
  BY <1>1, <1>5 DEF Loop

\* Deadlines: next_scheduled_get and next_deadline_get have a result.
LEMMA NextScheduledType ==
  ASSUME NEW q \in Seq(Entry), q # <<>>, NEW now \in Time
  PROVE  NextScheduled(q, now) \in Time
<1> DEFINE D == {Elapsed(now, e.at) : e \in Elems(q)}
<1>1. Elems(q) # {} /\ \A e \in Elems(q) : e \in Entry
  <2>1. 1 \in DOMAIN q
    OBVIOUS
  <2>2. \A i \in DOMAIN q : q[i] \in Entry
    OBVIOUS
  <2> QED BY <2>1, <2>2 DEF Elems
<1>2. \A e \in Elems(q) : e.at \in Time /\ Elapsed(now, e.at) \in Nat
  BY <1>1, ElapsedTime, TimeConstants DEF Entry
<1>3. PICK x \in D : \A y \in D : x <= y
  <2>1. D \subseteq Nat /\ D # {}
    BY <1>1, <1>2
  <2> QED BY <2>1, NatMin
<1>4. \E e \in Elems(q) : \A f \in Elems(q) : Elapsed(now, e.at) <= Elapsed(now, f.at)
  BY <1>3
<1>5. (CHOOSE e \in Elems(q) :
         \A f \in Elems(q) : Elapsed(now, e.at) <= Elapsed(now, f.at)).at \in Time
  BY <1>2, <1>4
<1> QED
  BY <1>5 DEF NextScheduled

\* next_deadline_get always yields a clock value.
LEMMA NextDeadlineType ==
  ASSUME NEW m \in DispatcherRecord, NEW rx \in BOOLEAN, NEW now \in Time
  PROVE  NextDeadline(m, rx, now) \in Time
<1> DEFINE C == DeadlineCandidates(m, rx, now)
           D == {Elapsed(now, c) : c \in C}
<1>1. \A q \in {m.sendq, m.rxq} \ {<<>>} : NextScheduled(q, now) \in Time
  BY Fields, NextScheduledType
<1>2. Later(m.radio_nonrx_start, NonRxTimeout) \in Time
  BY Fields, TimeConstants, DispatcherAssumption
<1>3. C \subseteq Time /\ C # {}
  <2>1. m.next_floor_calib_time \in C
    BY DEF DeadlineCandidates
  <2>2. ASSUME NEW c \in C PROVE c \in Time
    BY <1>1, <1>2, Fields DEF DeadlineCandidates
  <2> QED BY <2>1, <2>2
<1> HIDE DEF C
<1>4. \A c \in C : Elapsed(now, c) \in Nat
  BY <1>3, ElapsedTime, TimeConstants
<1>5. PICK x \in D : \A y \in D : x <= y
  <2>1. D \subseteq Nat /\ D # {}
    BY <1>3, <1>4
  <2> QED BY <2>1, NatMin
<1>6. \E c \in C : \A b \in C : Elapsed(now, c) <= Elapsed(now, b)
  BY <1>5
<1>7. (CHOOSE c \in C : \A b \in C : Elapsed(now, c) <= Elapsed(now, b)) \in C
  BY <1>6
<1> QED
  BY <1>3, <1>7 DEF NextDeadline, C

---------------------------------------------------------------------------
(* Conservation of packet buffers.                                         *)

\* Appending a new buffer to the free list adds just that buffer.
LEMMA ElemsAppend ==
  ASSUME NEW s \in Seq(Packet), NEW p \in Packet
  PROVE  /\ Elems(Append(s, p)) = Elems(s) \cup {p}
         /\ Distinct(s) /\ p \notin Elems(s) => Distinct(Append(s, p))
<1>1. /\ DOMAIN Append(s, p) = 1 .. Len(s) + 1
      /\ \A i \in 1 .. Len(s) : Append(s, p)[i] = s[i]
      /\ Append(s, p)[Len(s) + 1] = p
      /\ DOMAIN s = 1 .. Len(s) /\ Len(s) \in Nat
  OBVIOUS
<1> DEFINE a == Append(s, p)
<1> HIDE DEF a
<1>2. Elems(a) = Elems(s) \cup {p}
  <2>1. \A i \in 1 .. Len(s) + 1 : i \in 1 .. Len(s) \/ i = Len(s) + 1
    BY <1>1
  <2>2. \A i \in 1 .. Len(s) : i \in 1 .. Len(s) + 1
    BY <1>1
  <2>3. Len(s) + 1 \in 1 .. Len(s) + 1
    BY <1>1
  <2> QED BY <1>1, <2>1, <2>2, <2>3 DEF Elems, a
<1>3. Distinct(s) /\ p \notin Elems(s) => Distinct(a)
  BY <1>1 DEF Distinct, Elems, a
<1> QED
  BY <1>2, <1>3 DEF a

\* Taking the head of the free list removes just that buffer.
LEMMA ElemsTail ==
  ASSUME NEW s \in Seq(Packet), s # <<>>, Distinct(s)
  PROVE  /\ Head(s) \in Elems(s)
         /\ Elems(Tail(s)) = Elems(s) \ {Head(s)}
         /\ Distinct(Tail(s))
<1>1. /\ Len(s) \in Nat \ {0} /\ DOMAIN s = 1 .. Len(s)
      /\ Head(s) = s[1]
      /\ DOMAIN Tail(s) = 1 .. Len(s) - 1
      /\ \A i \in 1 .. Len(s) - 1 : Tail(s)[i] = s[i + 1]
  OBVIOUS
<1> DEFINE t == Tail(s)
           h == Head(s)
<1> HIDE DEF t, h
<1>2. 1 \in DOMAIN s
  BY <1>1
<1>3. \A x : x \in Elems(t) <=> x \in Elems(s) /\ x # h
  <2>1. ASSUME NEW x \in Elems(t) PROVE x \in Elems(s) /\ x # h
    <3>1. PICK i \in 1 .. Len(s) - 1 : x = s[i + 1]
      BY <1>1 DEF Elems, t
    <3>2. i + 1 \in DOMAIN s /\ i + 1 # 1
      BY <1>1
    <3> QED BY <1>1, <1>2, <3>1, <3>2 DEF Elems, Distinct, h
  <2>2. ASSUME NEW x \in Elems(s), x # h PROVE x \in Elems(t)
    <3>1. PICK i \in DOMAIN s : x = s[i]
      BY DEF Elems
    <3>2. i # 1
      BY <1>1, <2>2, <3>1 DEF h
    <3>3. i - 1 \in 1 .. Len(s) - 1 /\ s[i] = t[i - 1]
      BY <1>1, <3>2 DEF t
    <3> QED BY <1>1, <3>1, <3>3 DEF Elems, t
  <2> QED BY <2>1, <2>2
<1>4. Distinct(t)
  <2> SUFFICES ASSUME NEW i \in 1 .. Len(s) - 1, NEW j \in 1 .. Len(s) - 1, t[i] = t[j]
               PROVE  i = j
    BY <1>1 DEF Distinct, t
  <2>1. i + 1 \in DOMAIN s /\ j + 1 \in DOMAIN s /\ s[i + 1] = s[j + 1]
    BY <1>1 DEF t
  <2>2. i + 1 = j + 1
    BY <2>1 DEF Distinct
  <2> QED BY <2>2
<1>5. h \in Elems(s)
  BY <1>1, <1>2 DEF Elems, h
<1> QED
  BY <1>3, <1>4, <1>5 DEF t, h

\* Appending an entry to a queue adds just its packet.
LEMMA PktsAppend ==
  ASSUME NEW q \in Seq(Entry), NEW e \in Entry
  PROVE  /\ Pkts(Append(q, e)) = Pkts(q) \cup {e.pkt}
         /\ DistinctPkts(q) /\ e.pkt \notin Pkts(q) => DistinctPkts(Append(q, e))
<1>1. /\ DOMAIN Append(q, e) = 1 .. Len(q) + 1
      /\ \A i \in 1 .. Len(q) : Append(q, e)[i] = q[i]
      /\ Append(q, e)[Len(q) + 1] = e
      /\ DOMAIN q = 1 .. Len(q) /\ Len(q) \in Nat
  OBVIOUS
<1> DEFINE a == Append(q, e)
<1> HIDE DEF a
<1>2. Pkts(a) = Pkts(q) \cup {e.pkt}
  <2>1. \A i \in 1 .. Len(q) + 1 : i \in 1 .. Len(q) \/ i = Len(q) + 1
    BY <1>1
  <2>2. \A i \in 1 .. Len(q) : i \in 1 .. Len(q) + 1
    BY <1>1
  <2>3. Len(q) + 1 \in 1 .. Len(q) + 1
    BY <1>1
  <2> QED BY <1>1, <2>1, <2>2, <2>3 DEF Pkts, a
<1>3. DistinctPkts(q) /\ e.pkt \notin Pkts(q) => DistinctPkts(a)
  BY <1>1 DEF DistinctPkts, Pkts, a
<1> QED
  BY <1>2, <1>3 DEF a

\* compact_from removes just the packet of the entry it closes over.
LEMMA PktsCompact ==
  ASSUME NEW q \in Seq(Entry), NEW k \in DOMAIN q, DistinctPkts(q)
  PROVE  /\ q[k].pkt \in Pkts(q)
         /\ Pkts(CompactFrom(q, k)) = Pkts(q) \ {q[k].pkt}
         /\ DistinctPkts(CompactFrom(q, k))
<1> DEFINE c == CompactFrom(q, k)
           at(j) == IF j < k THEN j ELSE j + 1
<1>1. Len(q) \in Nat /\ DOMAIN q = 1 .. Len(q) /\ k \in 1 .. Len(q)
  OBVIOUS
<1>2. DOMAIN c = 1 .. Len(q) - 1 /\ \A j \in 1 .. Len(q) - 1 : c[j] = q[at(j)]
  BY DEF CompactFrom
<1>3. \A j \in 1 .. Len(q) - 1 : at(j) \in DOMAIN q /\ at(j) # k
  BY <1>1
<1>4. \A i, j \in 1 .. Len(q) - 1 : at(i) = at(j) => i = j
  BY <1>1
<1>5. \A i \in DOMAIN q : i # k => \E j \in 1 .. Len(q) - 1 : at(j) = i
  <2> SUFFICES ASSUME NEW i \in DOMAIN q, i # k
               PROVE  \E j \in 1 .. Len(q) - 1 : at(j) = i
    OBVIOUS
  <2>1. CASE i < k
    BY <1>1, <2>1
  <2>2. CASE i > k
    <3>1. i - 1 \in 1 .. Len(q) - 1 /\ at(i - 1) = i
      BY <1>1, <2>2
    <3> QED BY <3>1
  <2> QED BY <1>1, <2>1, <2>2
<1> HIDE DEF c, at
<1>6. Pkts(c) = Pkts(q) \ {q[k].pkt}
  <2>1. ASSUME NEW x \in Pkts(c) PROVE x \in Pkts(q) /\ x # q[k].pkt
    BY <1>2, <1>3 DEF Pkts, DistinctPkts
  <2>2. ASSUME NEW x \in Pkts(q), x # q[k].pkt PROVE x \in Pkts(c)
    BY <1>2, <1>5, <2>2 DEF Pkts
  <2> QED BY <2>1, <2>2
<1>7. DistinctPkts(c)
  <2> SUFFICES ASSUME NEW i \in 1 .. Len(q) - 1, NEW j \in 1 .. Len(q) - 1,
                      c[i].pkt = c[j].pkt
               PROVE  i = j
    BY <1>2 DEF DistinctPkts
  <2>1. at(i) = at(j)
    BY <1>2, <1>3 DEF DistinctPkts
  <2> QED BY <1>4, <2>1
<1> QED
  BY <1>6, <1>7 DEF Pkts, c

\* Pigeonhole: distinct buffers that are not the whole pool leave room.
LEMMA RoomInPool ==
  ASSUME NEW s \in Seq(Packet), Distinct(s), NEW p \in Packet, p \notin Elems(s)
  PROVE  Len(s) < PoolSize
<1> DEFINE n == Len(s)
           T == Packet \ {p}
<1>1. n \in Nat /\ DOMAIN s = 1 .. n /\ \A i \in 1 .. n : s[i] \in Packet
  OBVIOUS
<1>2. s \in Injection(1 .. n, T)
  <2>1. s \in [1 .. n -> T]
    BY <1>1 DEF Elems
  <2> QED BY <1>1, <2>1 DEF Injection, IsInjective, Distinct
<1>3. IsFiniteSet(Packet) /\ Cardinality(Packet) = PoolSize
  BY FS_Interval, PoolAssumption DEF Packet
<1>4. IsFiniteSet(T) /\ Cardinality(T) = PoolSize - 1
  BY <1>3, FS_RemoveElement
<1>5. Cardinality(1 .. n) <= Cardinality(T)
  BY <1>2, <1>4, FS_Injection
<1>6. Cardinality(1 .. n) = n
  <2> HIDE DEF n
  <2>1. Cardinality(1 .. n) = IF 1 > n THEN 0 ELSE n - 1 + 1
    BY <1>1, FS_Interval
  <2> QED BY <1>1, <2>1
<1> QED
  BY <1>1, <1>4, <1>5, <1>6, PoolAssumption

\* A queue that lacks a packet of the pool is not full.
LEMMA RoomInQueue ==
  ASSUME NEW q \in Seq(Entry), DistinctPkts(q), NEW p \in Packet, p \notin Pkts(q)
  PROVE  Len(q) < PoolSize
<1> DEFINE s == [i \in 1 .. Len(q) |-> q[i].pkt]
<1>1. Len(q) \in Nat /\ DOMAIN q = 1 .. Len(q) /\ \A i \in 1 .. Len(q) : q[i] \in Entry
  OBVIOUS
<1>2. s \in Seq(Packet) /\ Len(s) = Len(q)
  BY <1>1 DEF Entry
<1>3. Distinct(s) /\ p \notin Elems(s)
  BY <1>1 DEF DistinctPkts, Distinct, Elems, Pkts
<1> QED
  BY <1>2, <1>3, RoomInPool

\* alloc_new hands the caller a buffer that is nowhere else.
LEMMA AllocConserves ==
  ASSUME NEW m \in DispatcherRecord, NEW H, Conserved(m, H), CanAlloc(m)
  PROVE  /\ AllocPkt(m) \notin H
         /\ Conserved(AllocRest(m), H \cup {AllocPkt(m)})
<1> DEFINE n == AllocRest(m)
           p == AllocPkt(m)
<1>1. m.unused \in Seq(Packet) /\ m.unused # <<>> /\ Distinct(m.unused)
  BY Fields DEF CanAlloc, Conserved
<1>2. /\ p \in Elems(m.unused)
      /\ Elems(Tail(m.unused)) = Elems(m.unused) \ {p}
      /\ Distinct(Tail(m.unused))
  BY <1>1, ElemsTail DEF AllocPkt
<1>3. /\ n.unused = Tail(m.unused) /\ n.sendq = m.sendq /\ n.rxq = m.rxq
      /\ n.outbound = m.outbound
  BY DEF AllocRest, DispatcherRecord
<1> HIDE DEF n, p
<1>4. p \notin H /\ Conserved(n, H \cup {p})
  <2>1. Distinct(n.unused) /\ DistinctPkts(n.sendq) /\ DistinctPkts(n.rxq)
    BY <1>2, <1>3 DEF Conserved
  <2> QED
    BY <1>2, <1>3, <2>1 DEF Conserved
<1> QED
  BY <1>4 DEF n, p

\* free takes a held buffer back; the free list is never full then.
LEMMA FreeConserves ==
  ASSUME NEW m \in DispatcherRecord, NEW H, NEW p \in Packet \cap H, Conserved(m, H)
  PROVE  Conserved(Free(m, p), H \ {p})
<1> DEFINE n == Free(m, p)
<1>1. m.unused \in Seq(Packet) /\ Distinct(m.unused) /\ p \notin Elems(m.unused)
  BY Fields DEF Conserved
<1>2. Len(m.unused) < PoolSize
  BY <1>1, RoomInPool
<1>3. /\ n.unused = Append(m.unused, p) /\ n.sendq = m.sendq /\ n.rxq = m.rxq
      /\ n.outbound = m.outbound
  BY <1>2 DEF Free, DispatcherRecord
<1>4. Elems(n.unused) = Elems(m.unused) \cup {p} /\ Distinct(n.unused)
  BY <1>1, <1>3, ElemsAppend
<1> HIDE DEF n
<1>5. Conserved(n, H \ {p})
  <2>1. DistinctPkts(n.sendq) /\ DistinctPkts(n.rxq)
    BY <1>3 DEF Conserved
  <2> QED
    BY <1>3, <1>4, <2>1 DEF Conserved
<1> QED
  BY <1>5 DEF n

\* A queue takes a held buffer; it is never full then.
LEMMA QueueConserves ==
  ASSUME NEW m \in DispatcherRecord, NEW H, NEW p \in Packet \cap H, Conserved(m, H),
         NEW pri \in Priority, NEW at \in Time
  PROVE  /\ Conserved(QueueOutbound(m, p, pri, at), H \ {p})
         /\ Conserved(QueueInbound(m, p, at), H \ {p})
<1> DEFINE e == [pkt |-> p, pri |-> pri, at |-> at]
           f == [pkt |-> p, pri |-> 0, at |-> at]
           o == QueueOutbound(m, p, pri, at)
           i == QueueInbound(m, p, at)
<1>1. e \in Entry /\ f \in Entry /\ e.pkt = p /\ f.pkt = p
  BY DEF Entry, Priority, NoPriority
<1>2. /\ m.sendq \in Seq(Entry) /\ DistinctPkts(m.sendq) /\ p \notin Pkts(m.sendq)
      /\ m.rxq \in Seq(Entry) /\ DistinctPkts(m.rxq) /\ p \notin Pkts(m.rxq)
  BY Fields DEF Conserved
<1>3. Len(m.sendq) < PoolSize /\ Len(m.rxq) < PoolSize
  BY <1>2, RoomInQueue
<1>4. /\ o.sendq = Append(m.sendq, e) /\ o.unused = m.unused
      /\ o.rxq = m.rxq /\ o.outbound = m.outbound
      /\ i.rxq = Append(m.rxq, f) /\ i.unused = m.unused
      /\ i.sendq = m.sendq /\ i.outbound = m.outbound
  BY <1>3 DEF QueueOutbound, QueueInbound, DispatcherRecord
<1> HIDE DEF e, f, o, i
<1>5. /\ Pkts(o.sendq) = Pkts(m.sendq) \cup {p} /\ DistinctPkts(o.sendq)
      /\ Pkts(i.rxq) = Pkts(m.rxq) \cup {p} /\ DistinctPkts(i.rxq)
  BY <1>1, <1>2, <1>4, PktsAppend
<1>6. Conserved(o, H \ {p})
  <2>1. Distinct(o.unused) /\ DistinctPkts(o.rxq)
    BY <1>4 DEF Conserved
  <2> QED
    BY <1>4, <1>5, <2>1 DEF Conserved
<1>7. Conserved(i, H \ {p})
  <2>1. Distinct(i.unused) /\ DistinctPkts(i.sendq)
    BY <1>4 DEF Conserved
  <2> QED
    BY <1>4, <1>5, <2>1 DEF Conserved
<1> QED
  BY <1>6, <1>7 DEF o, i

\* Taking an entry out of a queue leaves its buffer with the caller.
LEMMA TakeConserves ==
  ASSUME NEW m \in DispatcherRecord, NEW H, Conserved(m, H), NEW now \in Time
  PROVE  /\ HasInbound(m, now) =>
              /\ NextInbound(m, now) \notin H
              /\ Conserved(TakeInbound(m, now), H \cup {NextInbound(m, now)})
         /\ HasOutbound(m, now) =>
              /\ NextOutbound(m, now) \notin H
              /\ Conserved(TakeOutbound(m, now), H \cup {NextOutbound(m, now)})
<1>1. ASSUME HasInbound(m, now)
      PROVE  /\ NextInbound(m, now) \notin H
             /\ Conserved(TakeInbound(m, now), H \cup {NextInbound(m, now)})
  <2> DEFINE n == TakeInbound(m, now)
             k == BestIdx(m.rxq, now)
             p == NextInbound(m, now)
  <2>1. m.rxq \in Seq(Entry) /\ DistinctPkts(m.rxq)
    BY Fields DEF Conserved
  <2>2. k \in DOMAIN m.rxq
    BY <1>1, <2>1, BestIdxExists DEF HasInbound, Eligible, Due
  <2>3. /\ n.rxq = CompactFrom(m.rxq, k) /\ n.unused = m.unused
        /\ n.sendq = m.sendq /\ n.outbound = m.outbound
    BY DEF TakeInbound, DispatcherRecord
  <2>4. p \in Pkts(m.rxq) /\ Pkts(n.rxq) = Pkts(m.rxq) \ {p} /\ DistinctPkts(n.rxq)
    BY <2>1, <2>2, <2>3, PktsCompact DEF NextInbound
  <2> HIDE DEF n, p
  <2>5. Distinct(n.unused) /\ DistinctPkts(n.sendq)
    BY <2>3 DEF Conserved
  <2>6. p \notin H /\ Conserved(n, H \cup {p})
    BY <2>3, <2>4, <2>5 DEF Conserved
  <2> QED
    BY <2>6 DEF n, p
<1>2. ASSUME HasOutbound(m, now)
      PROVE  /\ NextOutbound(m, now) \notin H
             /\ Conserved(TakeOutbound(m, now), H \cup {NextOutbound(m, now)})
  <2> DEFINE n == TakeOutbound(m, now)
             k == BestIdx(m.sendq, now)
             p == NextOutbound(m, now)
  <2>1. m.sendq \in Seq(Entry) /\ DistinctPkts(m.sendq)
    BY Fields DEF Conserved
  <2>2. k \in DOMAIN m.sendq
    BY <1>2, <2>1, BestIdxExists DEF HasOutbound, Eligible, Due
  <2>3. /\ n.sendq = CompactFrom(m.sendq, k) /\ n.unused = m.unused
        /\ n.rxq = m.rxq /\ n.outbound = m.outbound
    BY DEF TakeOutbound, DispatcherRecord
  <2>4. p \in Pkts(m.sendq) /\ Pkts(n.sendq) = Pkts(m.sendq) \ {p} /\ DistinctPkts(n.sendq)
    BY <2>1, <2>2, <2>3, PktsCompact DEF NextOutbound
  <2> HIDE DEF n, p
  <2>5. Distinct(n.unused) /\ DistinctPkts(n.rxq)
    BY <2>3 DEF Conserved
  <2>6. p \notin H /\ Conserved(n, H \cup {p})
    BY <2>3, <2>4, <2>5 DEF Conserved
  <2> QED
    BY <2>6 DEF n, p
<1> QED
  BY <1>1, <1>2

\* A packet created by the mesh layer is queued or freed, never lost.
LEMMA SendNewConserves ==
  ASSUME NEW m \in DispatcherRecord, NEW H, Conserved(m, H),
         NEW r \in Reply \cup {Nothing}, NEW now \in Time
  PROVE  Conserved(SendNew(m, r, now), H)
<1>1. CASE r = Nothing \/ ~CanAlloc(m)
  BY <1>1 DEF SendNew
<1>2. CASE ~(r = Nothing \/ ~CanAlloc(m))
  <2> DEFINE n == AllocRest(m)
             p == AllocPkt(m)
  <2>1. r.pri \in Priority /\ Later(now, r.delay) \in Time
    BY <1>2, TimeConstants DEF Reply
  <2>2. n \in DispatcherRecord /\ p \in Packet
    BY <1>2, AllocType
  <2>3. p \notin H /\ Conserved(n, H \cup {p})
    BY <1>2, AllocConserves
  <2> HIDE DEF n, p
  <2>4. (H \cup {p}) \ {p} = H /\ p \in Packet \cap (H \cup {p})
    BY <2>2, <2>3
  <2>5. Conserved(QueueOutbound(n, p, r.pri, Later(now, r.delay)), (H \cup {p}) \ {p})
    BY <2>1, <2>2, <2>3, <2>4, QueueConserves
  <2>6. Conserved(Free(n, p), (H \cup {p}) \ {p})
    BY <2>2, <2>3, <2>4, FreeConserves
  <2> QED
    BY <1>2, <2>4, <2>5, <2>6 DEF SendNew, n, p
<1> QED
  BY <1>1, <1>2

\* A processed packet is relayed or freed, never both and never neither.
LEMMA ProcessRecvConserves ==
  ASSUME NEW m \in DispatcherRecord, NEW H, Conserved(m, H), NEW p \in Packet \cap H,
         NEW v \in Verdict, NEW now \in Time
  PROVE  Conserved(ProcessRecv(m, p, v, now), H \ {p})
<1> DEFINE m0 == SendNew(m, v.first, now)
           m1 == SendNew(m0, v.second, now)
<1>1. m0 \in DispatcherRecord /\ Conserved(m0, H)
  BY SendNewType, SendNewConserves DEF Verdict
<1> HIDE DEF m0
<1>2. m1 \in DispatcherRecord /\ Conserved(m1, H)
  BY <1>1, SendNewType, SendNewConserves DEF Verdict
<1> HIDE DEF m1
<1>3. CASE v.relay = Nothing
  BY <1>2, <1>3, FreeConserves DEF ProcessRecv, m0, m1
<1>4. CASE v.relay # Nothing
  <2>1. v.relay.pri \in Priority /\ Later(now, v.relay.delay) \in Time
    BY <1>4, TimeConstants DEF Verdict, Relay
  <2> QED
    BY <1>2, <1>4, <2>1, QueueConserves DEF ProcessRecv, m0, m1
<1> QED
  BY <1>3, <1>4

\* Whatever the mesh layer answers, a received frame loses no buffer.
LEMMA ReceiveRawConserves ==
  ASSUME NEW m \in DispatcherRecord, Conserved(m, {}), NEW v \in Verdict, NEW now \in Time,
         NEW f \in [parses : BOOLEAN, flood : BOOLEAN, delay : Nat]
  PROVE  Conserved(ReceiveRaw(m, f, v, now), {})
<1> DEFINE at == Later(now, IF f.delay > MaxRxDelay THEN MaxRxDelay ELSE f.delay)
           n == AllocRest(m)
           p == AllocPkt(m)
<1>1. at \in Time
  BY TimeConstants, DispatcherAssumption
<1> HIDE DEF at
<1>2. CASE ~CanAlloc(m)
  BY <1>2 DEF ReceiveRaw
<1>3. CASE CanAlloc(m)
  <2>1. n \in DispatcherRecord /\ p \in Packet
    BY <1>3, AllocType
  <2>2. Conserved(n, {} \cup {p})
    BY <1>3, AllocConserves
  <2> HIDE DEF n, p
  <2>3. {} \cup {p} = {p} /\ {p} \ {p} = {} /\ p \in Packet \cap {p}
    BY <2>1
  <2>4. Conserved(Free(n, p), {p} \ {p})
    BY <2>1, <2>2, <2>3, FreeConserves
  <2>5. Conserved(QueueInbound(n, p, at), {p} \ {p})
    <3>1. 0 \in Priority
      BY DEF Priority, NoPriority
    <3> QED BY <1>1, <2>1, <2>2, <2>3, <3>1, QueueConserves
  <2>6. Conserved(ProcessRecv(n, p, v, now), {p} \ {p})
    BY <2>1, <2>2, <2>3, ProcessRecvConserves
  <2> QED
    BY <1>3, <2>3, <2>4, <2>5, <2>6 DEF ReceiveRaw, at, n, p
<1> QED
  BY <1>2, <1>3

\* Conservation depends on the four places of a buffer only.
LEMMA SameBuffers ==
  ASSUME NEW m, NEW n, NEW H, Conserved(m, H),
         n.unused = m.unused, n.sendq = m.sendq, n.rxq = m.rxq, n.outbound = m.outbound
  PROVE  Conserved(n, H)
  BY DEF Conserved

\* Releasing the outbound packet returns its buffer to the pool.
LEMMA DropConserves ==
  ASSUME NEW m \in DispatcherRecord, m.outbound # None, Conserved(m, {})
  PROVE  Conserved(DropOutbound(m), {}) /\ DropOutbound(m).outbound = None
<1> DEFINE n == DropOutbound(m)
           p == m.outbound
<1>1. /\ m.unused \in Seq(Packet) /\ Distinct(m.unused)
      /\ p \in Packet /\ p \notin Elems(m.unused)
  BY Fields DEF Conserved
<1>2. Len(m.unused) < PoolSize
  BY <1>1, RoomInPool
<1>3. /\ n.unused = Append(m.unused, p) /\ n.sendq = m.sendq /\ n.rxq = m.rxq
      /\ n.outbound = None
  BY <1>2 DEF DropOutbound, Free, DispatcherRecord
<1>4. Elems(n.unused) = Elems(m.unused) \cup {p} /\ Distinct(n.unused)
  BY <1>1, <1>3, ElemsAppend
<1>5. \A x \in Packet : x # None
  BY DEF Packet, None
<1>6. /\ Elems(m.unused) \subseteq Packet /\ Pkts(m.sendq) \subseteq Packet
      /\ Pkts(m.rxq) \subseteq Packet
  BY DEF Conserved
<1> HIDE DEF n
<1>7. Conserved(n, {})
  <2>1. DistinctPkts(n.sendq) /\ DistinctPkts(n.rxq)
    BY <1>3 DEF Conserved
  <2> QED
    BY <1>1, <1>3, <1>4, <1>5, <1>6, <2>1 DEF Conserved
<1> QED
  BY <1>3, <1>7 DEF n

\* tx_done leaves nothing outbound and returns the buffer.
LEMMA TxDoneConserves ==
  ASSUME NEW m \in DispatcherRecord, Conserved(m, {}), NEW success \in BOOLEAN, NEW now \in Time
  PROVE  /\ Conserved(DispatcherTxDone(m, success, now), {})
         /\ DispatcherTxDone(m, success, now).outbound = None
<1> DEFINE m0 == IF success THEN ChargeAirtime(m, now) ELSE m
           m1 == DropOutbound(m0)
           n == DispatcherTxDone(m, success, now)
<1>1. CASE m.outbound = None
  BY <1>1 DEF DispatcherTxDone
<1>2. CASE m.outbound # None
  <2>1. /\ m0 \in DispatcherRecord /\ m0.unused = m.unused /\ m0.sendq = m.sendq
        /\ m0.rxq = m.rxq /\ m0.outbound = m.outbound
    BY ChargeType, ChargeFrame
  <2> HIDE DEF m0
  <2>2. Conserved(m0, {})
    BY <2>1, SameBuffers
  <2>3. Conserved(m1, {}) /\ m1.outbound = None /\ m1 \in DispatcherRecord
    BY <1>2, <2>1, <2>2, DropConserves, DropType
  <2> HIDE DEF m1
  <2>4. n = m1 \/ n = [m1 EXCEPT !.next_agc_reset_time = Later(now, AgcInterval)]
    BY <1>2 DEF DispatcherTxDone, m0, m1
  <2>5. /\ n.unused = m1.unused /\ n.sendq = m1.sendq /\ n.rxq = m1.rxq
        /\ n.outbound = m1.outbound
    BY <2>3, <2>4 DEF DispatcherRecord
  <2> HIDE DEF n
  <2>6. Conserved(n, {}) /\ n.outbound = None
    BY <2>3, <2>5, SameBuffers
  <2> QED
    BY <2>6 DEF n
<1> QED
  BY <1>1, <1>2

\* A packet taken for transmission is outbound or, if refused, freed.
LEMMA StartSendConserves ==
  ASSUME NEW m \in DispatcherRecord, Conserved(m, {}), m.outbound = None,
         NEW e \in Answer, NEW now \in Time
  PROVE  Conserved(StartSend(m, e, now), {})
<1> DEFINE m0 == [m EXCEPT !.cad_busy_start = 0]
           t == TakeOutbound(m0, now)
           p == NextOutbound(m0, now)
           m1 == [t EXCEPT !.outbound = p, !.outbound_start = now]
           m2 == [m1 EXCEPT !.outbound_expiry = Later(now, (e.air * 3) \div 2),
                            !.frame = (@ + 1) % FrameIds]
<1>1. /\ m0 \in DispatcherRecord /\ m0.sendq = m.sendq /\ m0.unused = m.unused
      /\ m0.rxq = m.rxq /\ m0.outbound = m.outbound
  BY TimeConstants DEF DispatcherRecord
<1>2. Conserved(m0, {})
  BY <1>1, SameBuffers
<1>3. CASE ~HasOutbound(m, now)
  BY <1>2, <1>3 DEF StartSend
<1>4. CASE HasOutbound(m, now)
  <2> HIDE DEF m0
  <2>1. t \in DispatcherRecord /\ p \in Packet
    BY <1>1, <1>4, TakeType DEF HasOutbound
  <2>2. Conserved(t, {} \cup {p})
    BY <1>1, <1>2, <1>4, TakeConserves DEF HasOutbound
  <2>3. t.outbound = None
    BY <1>1 DEF TakeOutbound, DispatcherRecord
  <2>4. p # None
    BY <2>1 DEF Packet, None
  <2> HIDE DEF t, p
  <2>5. \A x \in Packet : [t EXCEPT !.outbound = x, !.outbound_start = now] \in DispatcherRecord
    BY <2>1 DEF DispatcherRecord
  <2>6. /\ m1.unused = t.unused /\ m1.sendq = t.sendq /\ m1.rxq = t.rxq
        /\ m1.outbound = p /\ m1 \in DispatcherRecord
    BY <2>1, <2>5 DEF DispatcherRecord
  <2> HIDE DEF m1
  <2>7. Conserved(m1, {})
    <3>1. Distinct(m1.unused) /\ DistinctPkts(m1.sendq) /\ DistinctPkts(m1.rxq)
      BY <2>2, <2>6 DEF Conserved
    <3> QED
      BY <2>2, <2>3, <2>4, <2>6, <3>1 DEF Conserved
  <2>8. Conserved(DropOutbound(m1), {})
    BY <2>4, <2>6, <2>7, DropConserves
  <2>9. Conserved(m2, {})
    <3>1. /\ m2.unused = m1.unused /\ m2.sendq = m1.sendq /\ m2.rxq = m1.rxq
          /\ m2.outbound = m1.outbound
      BY <2>6 DEF DispatcherRecord
    <3> HIDE DEF m2
    <3> QED BY <2>7, <3>1, SameBuffers
  <2> QED
    BY <1>4, <2>8, <2>9 DEF StartSend, m0, t, p, m1
<1> QED
  BY <1>3, <1>4

\* check_send conserves buffers on every one of its returns.
LEMMA CheckSendConserves ==
  ASSUME NEW m \in DispatcherRecord, Conserved(m, {}), m.outbound = None,
         NEW e \in Answer, NEW now \in Time
  PROVE  Conserved(CheckSend(m, e, now), {})
<1> DEFINE m1 == UpdateTxBudget(m, now)
           n == CheckSend(m, e, now)
<1>1. /\ m1 \in DispatcherRecord /\ m1.unused = m.unused /\ m1.sendq = m.sendq
      /\ m1.rxq = m.rxq /\ m1.outbound = m.outbound
  BY BudgetType, BudgetFrame
<1> HIDE DEF m1
<1>2. Conserved(m1, {})
  BY <1>1, SameBuffers
<1>3. CASE n = m
  BY <1>3
<1>4. CASE \E x, y : n = [m1 EXCEPT !.cad_busy_start = x, !.next_tx_time = y]
  <2>1. /\ n.unused = m1.unused /\ n.sendq = m1.sendq /\ n.rxq = m1.rxq
        /\ n.outbound = m1.outbound
    BY <1>1, <1>4 DEF DispatcherRecord
  <2> QED BY <1>2, <2>1, SameBuffers
<1>5. CASE \E y : n = [m1 EXCEPT !.next_tx_time = y]
  <2>1. /\ n.unused = m1.unused /\ n.sendq = m1.sendq /\ n.rxq = m1.rxq
        /\ n.outbound = m1.outbound
    BY <1>1, <1>5 DEF DispatcherRecord
  <2> QED BY <1>2, <2>1, SameBuffers
<1>6. CASE n = m1
  BY <1>2, <1>6
<1>7. CASE n = StartSend(m1, e, now)
  BY <1>1, <1>2, <1>7, StartSendConserves
<1> QED
  BY <1>3, <1>4, <1>5, <1>6, <1>7 DEF CheckSend, SenseChannel, m1

---------------------------------------------------------------------------
(* What a call leaves alone.                                               *)

\* n is m with packets at most added to the send queue; what is on the air stays.
Grows(n, m) ==
  /\ n.outbound = m.outbound /\ n.outbound_start = m.outbound_start
  /\ n.outbound_expiry = m.outbound_expiry /\ n.frame = m.frame
  /\ Len(m.sendq) <= Len(n.sendq)
  /\ \A k \in 1 .. Len(m.sendq) : n.sendq[k] = m.sendq[k]

\* Growing is transitive.
LEMMA GrowsTrans ==
  ASSUME NEW a \in DispatcherRecord, NEW b \in DispatcherRecord, NEW c \in DispatcherRecord,
         Grows(b, a), Grows(c, b)
  PROVE  Grows(c, a)
<1>1. Len(a.sendq) \in Nat /\ Len(b.sendq) \in Nat /\ Len(c.sendq) \in Nat
  BY Fields
<1> QED
  BY <1>1 DEF Grows

\* A record that differs in none of these fields grows.
LEMMA GrowsSame ==
  ASSUME NEW m \in DispatcherRecord, NEW n,
         n.outbound = m.outbound, n.outbound_start = m.outbound_start,
         n.outbound_expiry = m.outbound_expiry, n.frame = m.frame, n.sendq = m.sendq
  PROVE  Grows(n, m)
<1>1. Len(m.sendq) \in Nat
  BY Fields
<1> QED
  BY <1>1 DEF Grows

\* What the loop does around the queues moves no buffer.
LEMMA RadioFrame ==
  ASSUME NEW m \in DispatcherRecord, NEW rx \in BOOLEAN, NEW now \in Time
  PROVE  /\ LET n == WatchRadio(m, rx, now) IN
            /\ n.unused = m.unused /\ n.sendq = m.sendq /\ n.rxq = m.rxq
            /\ n.outbound = m.outbound /\ Grows(n, m)
         /\ LET n == ResetAgc(m, now) IN
            /\ n.unused = m.unused /\ n.sendq = m.sendq /\ n.rxq = m.rxq
            /\ n.outbound = m.outbound /\ Grows(n, m)
<1> DEFINE a == WatchRadio(m, rx, now)
           b == ResetAgc(m, now)
<1>1. /\ a.unused = m.unused /\ a.sendq = m.sendq /\ a.rxq = m.rxq
      /\ a.outbound = m.outbound /\ a.outbound_start = m.outbound_start
      /\ a.outbound_expiry = m.outbound_expiry /\ a.frame = m.frame
  BY DEF WatchRadio, DispatcherRecord
<1>2. /\ b.unused = m.unused /\ b.sendq = m.sendq /\ b.rxq = m.rxq
      /\ b.outbound = m.outbound /\ b.outbound_start = m.outbound_start
      /\ b.outbound_expiry = m.outbound_expiry /\ b.frame = m.frame
  BY DEF ResetAgc, DispatcherRecord
<1> HIDE DEF a, b
<1> QED
  BY <1>1, <1>2, GrowsSame DEF a, b

\* Allocating, freeing and queueing a packet only grow the send queue.
LEMMA ManagerGrows ==
  ASSUME NEW m \in DispatcherRecord, NEW p \in Packet, NEW pri \in Priority, NEW at \in Time
  PROVE  /\ Grows(AllocRest(m), m) /\ Grows(Free(m, p), m)
         /\ Grows(QueueOutbound(m, p, pri, at), m) /\ Grows(QueueInbound(m, p, at), m)
<1>1. \A s : Grows([m EXCEPT !.unused = s], m) /\ Grows([m EXCEPT !.rxq = s], m)
  <2> SUFFICES ASSUME NEW s
               PROVE  Grows([m EXCEPT !.unused = s], m) /\ Grows([m EXCEPT !.rxq = s], m)
    OBVIOUS
  <2> DEFINE x == [m EXCEPT !.unused = s]
             y == [m EXCEPT !.rxq = s]
  <2>1. /\ x.outbound = m.outbound /\ x.outbound_start = m.outbound_start
        /\ x.outbound_expiry = m.outbound_expiry /\ x.frame = m.frame /\ x.sendq = m.sendq
        /\ y.outbound = m.outbound /\ y.outbound_start = m.outbound_start
        /\ y.outbound_expiry = m.outbound_expiry /\ y.frame = m.frame /\ y.sendq = m.sendq
    BY DEF DispatcherRecord
  <2> HIDE DEF x, y
  <2>2. Grows(x, m) /\ Grows(y, m)
    BY <2>1, GrowsSame
  <2> QED
    BY <2>2 DEF x, y
<1>2. Grows(AllocRest(m), m)
  BY <1>1 DEF AllocRest
<1>3. Grows(Free(m, p), m)
  <2>1. Grows(m, m)
    BY GrowsSame
  <2> QED
    BY <1>1, <2>1 DEF Free
<1>4. Grows(QueueInbound(m, p, at), m)
  BY <1>1, <1>3 DEF QueueInbound
<1>5. Grows(QueueOutbound(m, p, pri, at), m)
  <2> DEFINE e == [pkt |-> p, pri |-> pri, at |-> at]
             n == [m EXCEPT !.sendq = Append(@, e)]
  <2>1. /\ n.outbound = m.outbound /\ n.outbound_start = m.outbound_start
        /\ n.outbound_expiry = m.outbound_expiry /\ n.frame = m.frame
        /\ n.sendq = Append(m.sendq, e)
    BY DEF DispatcherRecord
  <2>2. e \in Entry /\ m.sendq \in Seq(Entry)
    BY Fields DEF Entry
  <2> HIDE DEF n, e
  <2>3. /\ Len(m.sendq) <= Len(n.sendq)
        /\ \A k \in 1 .. Len(m.sendq) : n.sendq[k] = m.sendq[k]
    BY <2>1, <2>2
  <2>4. Grows(n, m)
    BY <2>1, <2>3 DEF Grows
  <2> QED
    BY <1>3, <2>4 DEF QueueOutbound, n, e
<1> QED
  BY <1>2, <1>3, <1>4, <1>5

\* A packet of the mesh layer is queued or freed.
LEMMA SendNewGrows ==
  ASSUME NEW m \in DispatcherRecord, NEW r \in Reply \cup {Nothing}, NEW now \in Time
  PROVE  Grows(SendNew(m, r, now), m)
<1>1. CASE r = Nothing \/ ~CanAlloc(m)
  BY <1>1, GrowsSame DEF SendNew
<1>2. CASE ~(r = Nothing \/ ~CanAlloc(m))
  <2> DEFINE a == AllocRest(m)
             p == AllocPkt(m)
             o == QueueOutbound(a, p, r.pri, Later(now, r.delay))
             f == Free(a, p)
  <2>1. r.pri \in Priority /\ Later(now, r.delay) \in Time
    BY <1>2, TimeConstants DEF Reply
  <2>2. a \in DispatcherRecord /\ p \in Packet
    BY <1>2, AllocType
  <2>3. Grows(a, m)
    BY <2>1, <2>2, ManagerGrows
  <2> HIDE DEF a, p
  <2>4. /\ o \in DispatcherRecord /\ Grows(o, a)
        /\ f \in DispatcherRecord /\ Grows(f, a)
    BY <2>1, <2>2, QueueType, FreeType, ManagerGrows
  <2> HIDE DEF o, f
  <2>5. Grows(o, m) /\ Grows(f, m)
    BY <2>2, <2>3, <2>4, GrowsTrans
  <2> QED
    BY <1>2, <2>5 DEF SendNew, a, p, o, f
<1> QED
  BY <1>1, <1>2

\* Processing a received packet only adds to the send queue.
LEMMA ProcessRecvGrows ==
  ASSUME NEW m \in DispatcherRecord, NEW p \in Packet, NEW v \in Verdict, NEW now \in Time
  PROVE  Grows(ProcessRecv(m, p, v, now), m)
<1> DEFINE a == SendNew(m, v.first, now)
           b == SendNew(a, v.second, now)
           o == QueueOutbound(b, p, v.relay.pri, Later(now, v.relay.delay))
           f == Free(b, p)
<1>1. a \in DispatcherRecord /\ Grows(a, m)
  BY SendNewType, SendNewGrows DEF Verdict
<1> HIDE DEF a
<1>2. b \in DispatcherRecord /\ Grows(b, a)
  BY <1>1, SendNewType, SendNewGrows DEF Verdict
<1> HIDE DEF b
<1>3. Grows(b, m)
  BY <1>1, <1>2, GrowsTrans
<1>4. v.relay # Nothing => v.relay.pri \in Priority /\ Later(now, v.relay.delay) \in Time
  BY TimeConstants DEF Verdict, Relay
<1>5. f \in DispatcherRecord /\ Grows(f, b)
  <2>1. 0 \in Priority /\ 0 \in Time
    BY TimeConstants DEF Priority, NoPriority
  <2> QED
    BY <1>2, <2>1, FreeType, ManagerGrows
<1>6. v.relay # Nothing => o \in DispatcherRecord /\ Grows(o, b)
  BY <1>2, <1>4, QueueType, ManagerGrows
<1> HIDE DEF o, f
<1>7. Grows(f, m) /\ (v.relay # Nothing => Grows(o, m))
  BY <1>2, <1>3, <1>5, <1>6, GrowsTrans
<1> QED
  BY <1>7 DEF ProcessRecv, a, b, o, f

\* Processing a delayed reception only adds to the send queue.
LEMMA ProcessInboundGrows ==
  ASSUME NEW m \in DispatcherRecord, NEW v \in Verdict, NEW now \in Time
  PROVE  Grows(ProcessInbound(m, v, now), m)
<1>1. CASE HasInbound(m, now)
  <2> DEFINE a == TakeInbound(m, now)
             p == NextInbound(m, now)
             n == ProcessRecv(a, p, v, now)
  <2>1. a \in DispatcherRecord /\ p \in Packet
    BY <1>1, TakeType
  <2>2. Grows(a, m)
    <3>1. /\ a.outbound = m.outbound /\ a.outbound_start = m.outbound_start
          /\ a.outbound_expiry = m.outbound_expiry /\ a.frame = m.frame /\ a.sendq = m.sendq
      BY DEF TakeInbound, DispatcherRecord
    <3> HIDE DEF a
    <3> QED
      BY <3>1, GrowsSame
  <2> HIDE DEF a, p
  <2>3. n \in DispatcherRecord /\ Grows(n, a)
    BY <2>1, ProcessRecvType, ProcessRecvGrows
  <2> HIDE DEF n
  <2>4. Grows(n, m)
    BY <2>1, <2>2, <2>3, GrowsTrans
  <2> QED
    BY <1>1, <2>4 DEF ProcessInbound, a, p, n
<1>2. CASE ~HasInbound(m, now)
  BY <1>2, GrowsSame DEF ProcessInbound
<1> QED
  BY <1>1, <1>2

\* Taking in a received frame only adds to the send queue.
LEMMA ReceiveRawGrows ==
  ASSUME NEW m \in DispatcherRecord, NEW v \in Verdict, NEW now \in Time,
         NEW f \in [parses : BOOLEAN, flood : BOOLEAN, delay : Nat]
  PROVE  Grows(ReceiveRaw(m, f, v, now), m)
<1>1. CASE ~CanAlloc(m)
  BY <1>1, GrowsSame DEF ReceiveRaw
<1>2. CASE CanAlloc(m)
  <2> DEFINE a == AllocRest(m)
             p == AllocPkt(m)
             at == Later(now, IF f.delay > MaxRxDelay THEN MaxRxDelay ELSE f.delay)
             x == Free(a, p)
             y == QueueInbound(a, p, at)
             z == ProcessRecv(a, p, v, now)
  <2>0. 0 \in Priority
    BY DEF Priority, NoPriority
  <2>1. at \in Time
    BY TimeConstants, DispatcherAssumption
  <2>2. a \in DispatcherRecord /\ p \in Packet
    BY <1>2, AllocType
  <2>3. Grows(a, m)
    BY <2>0, <2>1, <2>2, ManagerGrows
  <2> HIDE DEF a, p, at
  <2>4. /\ x \in DispatcherRecord /\ Grows(x, a)
        /\ y \in DispatcherRecord /\ Grows(y, a)
    BY <2>0, <2>1, <2>2, FreeType, QueueType, ManagerGrows
  <2>5. z \in DispatcherRecord /\ Grows(z, a)
    BY <2>2, ProcessRecvType, ProcessRecvGrows
  <2> HIDE DEF x, y, z
  <2>6. Grows(x, m) /\ Grows(y, m) /\ Grows(z, m)
    BY <2>2, <2>3, <2>4, <2>5, GrowsTrans
  <2> QED
    BY <1>2, <2>6 DEF ReceiveRaw, a, p, at, x, y, z
<1> QED
  BY <1>1, <1>2

\* A delayed reception taken from its queue is relayed or freed.
LEMMA ProcessInboundConserves ==
  ASSUME NEW m \in DispatcherRecord, Conserved(m, {}), NEW v \in Verdict, NEW now \in Time
  PROVE  Conserved(ProcessInbound(m, v, now), {})
<1>1. CASE HasInbound(m, now)
  <2> DEFINE n == TakeInbound(m, now)
             p == NextInbound(m, now)
  <2>1. n \in DispatcherRecord /\ p \in Packet
    BY <1>1, TakeType
  <2>2. Conserved(n, {} \cup {p})
    BY <1>1, TakeConserves
  <2> HIDE DEF n, p
  <2>3. {} \cup {p} = {p} /\ {p} \ {p} = {} /\ p \in Packet \cap {p}
    BY <2>1
  <2>4. Conserved(ProcessRecv(n, p, v, now), {p} \ {p})
    BY <2>1, <2>2, <2>3, ProcessRecvConserves
  <2> QED
    BY <1>1, <2>3, <2>4 DEF ProcessInbound, n, p
<1> QED
  BY <1>1 DEF ProcessInbound

\* One call of the loop, whatever the host and the mesh layer answer.
LEMMA LoopConserves ==
  ASSUME NEW m \in DispatcherRecord, Conserved(m, {}), NEW e \in Answer, NEW now \in Time
  PROVE  Conserved(Loop(m, e, now), {})
<1> DEFINE m1 == WatchRadio(m, e.rx, now)
           m2 == DispatcherTxDone(m1, FALSE, now)
           m3 == ResetAgc(m2, now)
           m4 == ProcessInbound(m3, e.verdict, now)
<1>0. e.rx \in BOOLEAN /\ e.verdict \in Verdict
  BY DEF Answer
<1>1. m1 \in DispatcherRecord /\ Conserved(m1, {})
  BY <1>0, WatchRadioType, RadioFrame, SameBuffers
<1>2. m2 \in DispatcherRecord /\ Conserved(m2, {}) /\ m2.outbound = None
  BY <1>1, TxDoneType, TxDoneConserves
<1> HIDE DEF m2
<1>3. m3 \in DispatcherRecord /\ Conserved(m3, {}) /\ m3.outbound = None
  BY <1>0, <1>2, ResetAgcType, RadioFrame, SameBuffers
<1> HIDE DEF m3
<1>4. m4 \in DispatcherRecord /\ Conserved(m4, {}) /\ m4.outbound = None
  BY <1>0, <1>3, ProcessInboundType, ProcessInboundConserves, ProcessInboundGrows DEF Grows
<1> HIDE DEF m4
<1>5. Conserved(CheckSend(m4, e, now), {})
  BY <1>4, CheckSendConserves
<1> QED
  BY <1>1, <1>5 DEF Loop, m2, m3, m4

---------------------------------------------------------------------------
(* What one call of the loop sends.                                        *)

\* tx_done leaves the queues alone.
LEMMA TxDoneFrame ==
  ASSUME NEW m \in DispatcherRecord, NEW success \in BOOLEAN, NEW now \in Time
  PROVE  LET n == DispatcherTxDone(m, success, now) IN
         /\ n.sendq = m.sendq /\ n.rxq = m.rxq /\ n.frame = m.frame
         /\ n.outbound = None
         /\ m.outbound = None => n = m
<1> DEFINE x == IF success THEN ChargeAirtime(m, now) ELSE m
           y == DropOutbound(x)
           n == DispatcherTxDone(m, success, now)
<1>1. CASE m.outbound = None
  BY <1>1 DEF DispatcherTxDone
<1>2. CASE m.outbound # None
  <2>1. /\ x \in DispatcherRecord /\ x.sendq = m.sendq /\ x.rxq = m.rxq
        /\ x.frame = m.frame /\ x.outbound = m.outbound
    BY ChargeType, ChargeFrame
  <2> HIDE DEF x
  <2>2. y \in DispatcherRecord
    BY <1>2, <2>1, DropType
  <2>3. y.sendq = x.sendq /\ y.rxq = x.rxq /\ y.frame = x.frame /\ y.outbound = None
    BY <2>1 DEF DropOutbound, Free, DispatcherRecord
  <2> HIDE DEF y
  <2>4. n = y \/ \E a : n = [y EXCEPT !.next_agc_reset_time = a]
    BY <1>2 DEF DispatcherTxDone, x, y
  <2>5. n.sendq = y.sendq /\ n.rxq = y.rxq /\ n.frame = y.frame /\ n.outbound = y.outbound
    BY <2>2, <2>4 DEF DispatcherRecord
  <2> HIDE DEF n
  <2> QED
    BY <1>2, <2>1, <2>3, <2>5 DEF n
<1> QED
  BY <1>1, <1>2

\* n is m after the most urgent due packet was handed to the radio.
Started(n, m, air, now) ==
  /\ HasOutbound(m, now)
  /\ n.sendq = CompactFrom(m.sendq, BestIdx(m.sendq, now))
  /\ n.outbound = NextOutbound(m, now) /\ n.outbound # None
  /\ n.outbound_start = now
  /\ n.outbound_expiry = Later(now, (air * 3) \div 2)
  /\ n.frame = (m.frame + 1) % FrameIds

\* The three ends of check_send's last part.
LEMMA StartSendCases ==
  ASSUME NEW m \in DispatcherRecord, m.outbound = None, NEW e \in Answer, NEW now \in Time
  PROVE  LET n == StartSend(m, e, now) IN
         \/ Started(n, m, e.air, now)
         \/ HasOutbound(m, now) /\ n.outbound = None /\ n.frame = m.frame
         \/ n.outbound = None /\ n.frame = m.frame /\ n.sendq = m.sendq /\ n.rxq = m.rxq
<1> DEFINE m0 == [m EXCEPT !.cad_busy_start = 0]
           t == TakeOutbound(m0, now)
           p == NextOutbound(m0, now)
           m1 == [t EXCEPT !.outbound = p, !.outbound_start = now]
           m2 == [m1 EXCEPT !.outbound_expiry = Later(now, (e.air * 3) \div 2),
                            !.frame = (@ + 1) % FrameIds]
           n == StartSend(m, e, now)
<1>1. /\ m0 \in DispatcherRecord /\ m0.sendq = m.sendq /\ m0.rxq = m.rxq
      /\ m0.outbound = None /\ m0.frame = m.frame
  BY TimeConstants DEF DispatcherRecord
<1>2. CASE ~HasOutbound(m, now)
  BY <1>1, <1>2 DEF StartSend
<1>3. CASE HasOutbound(m, now)
  <2> HIDE DEF m0
  <2>1. t \in DispatcherRecord /\ p \in Packet /\ p = NextOutbound(m, now)
    BY <1>1, <1>3, TakeType DEF HasOutbound, NextOutbound
  <2>2. t.sendq = CompactFrom(m.sendq, BestIdx(m.sendq, now)) /\ t.frame = m.frame
    BY <1>1 DEF TakeOutbound, DispatcherRecord
  <2>3. p # None
    BY <2>1 DEF Packet, None
  <2> HIDE DEF t, p
  <2>4. /\ m1.sendq = t.sendq /\ m1.outbound = p /\ m1.outbound_start = now
        /\ m1.frame = t.frame /\ m1 \in DispatcherRecord
    BY <2>1 DEF DispatcherRecord
  <2> HIDE DEF m1
  <2>5. CASE e.accept
    <3>1. n = m2
      BY <1>3, <2>5 DEF StartSend, m0, t, p, m1
    <3>2. /\ m2.sendq = m1.sendq /\ m2.outbound = m1.outbound
          /\ m2.outbound_start = m1.outbound_start
          /\ m2.outbound_expiry = Later(now, (e.air * 3) \div 2)
          /\ m2.frame = (m1.frame + 1) % FrameIds
      BY <2>4 DEF DispatcherRecord
    <3> HIDE DEF m2, n
    <3>3. Started(n, m, e.air, now)
      BY <1>3, <2>1, <2>2, <2>3, <2>4, <3>1, <3>2 DEF Started
    <3> QED
      BY <3>3 DEF n
  <2>6. CASE ~e.accept
    <3>1. n = DropOutbound(m1)
      BY <1>3, <2>6 DEF StartSend, m0, t, p, m1
    <3>2. DropOutbound(m1).outbound = None /\ DropOutbound(m1).frame = m1.frame
      BY <2>4 DEF DropOutbound, Free, DispatcherRecord
    <3> HIDE DEF n
    <3> QED
      BY <1>3, <2>2, <2>4, <3>1, <3>2 DEF n
  <2> QED
    BY <2>5, <2>6
<1> QED
  BY <1>2, <1>3

\* check_send starts a frame, refuses one that was due, or touches no queue.
LEMMA CheckSendCases ==
  ASSUME NEW m \in DispatcherRecord, m.outbound = None, NEW e \in Answer, NEW now \in Time
  PROVE  LET n == CheckSend(m, e, now) IN
         \/ Started(n, m, e.air, now)
         \/ HasOutbound(m, now) /\ n.outbound = None /\ n.frame = m.frame
         \/ n.outbound = None /\ n.frame = m.frame /\ n.sendq = m.sendq /\ n.rxq = m.rxq
<1> DEFINE m1 == UpdateTxBudget(m, now)
           n == CheckSend(m, e, now)
<1>1. /\ m1 \in DispatcherRecord /\ m1.sendq = m.sendq /\ m1.rxq = m.rxq
      /\ m1.outbound = m.outbound /\ m1.frame = m.frame
  BY BudgetType, BudgetFrame
<1> HIDE DEF m1
<1>2. CASE n = m
  BY <1>2
<1>3. CASE \/ n = m1
           \/ \E x, y : n = [m1 EXCEPT !.cad_busy_start = x, !.next_tx_time = y]
           \/ \E y : n = [m1 EXCEPT !.next_tx_time = y]
  <2>1. n.sendq = m1.sendq /\ n.rxq = m1.rxq /\ n.outbound = m1.outbound /\ n.frame = m1.frame
    BY <1>1, <1>3 DEF DispatcherRecord
  <2> HIDE DEF n
  <2> QED
    BY <1>1, <2>1 DEF n
<1>4. CASE n = StartSend(m1, e, now)
  <2>1. \A x : Started(x, m1, e.air, now) => Started(x, m, e.air, now)
    BY <1>1 DEF Started, HasOutbound, NextOutbound
  <2>2. HasOutbound(m1, now) => HasOutbound(m, now)
    BY <1>1 DEF HasOutbound
  <2>3. \/ Started(n, m1, e.air, now)
        \/ HasOutbound(m1, now) /\ n.outbound = None /\ n.frame = m1.frame
        \/ n.outbound = None /\ n.frame = m1.frame /\ n.sendq = m1.sendq /\ n.rxq = m1.rxq
    BY <1>1, <1>4, StartSendCases
  <2> HIDE DEF n
  <2> QED
    BY <1>1, <2>1, <2>2, <2>3 DEF n
<1> QED
  BY <1>2, <1>3, <1>4 DEF CheckSend, SenseChannel, m1

\* One call of the loop: a transmission under way is left alone; else at most
\* one frame is started, from the queue as the call has filled it so far.
LEMMA LoopCases ==
  ASSUME NEW m \in DispatcherRecord, NEW e \in Answer, NEW now \in Time
  PROVE  LET n == Loop(m, e, now) IN
         \/ /\ m.outbound # None /\ ~HasPassed(m.outbound_expiry, now)
            /\ Grows(n, m)
         \/ /\ m.outbound = None \/ HasPassed(m.outbound_expiry, now)
            /\ n.outbound = None /\ n.frame = m.frame
         \/ /\ m.outbound = None \/ HasPassed(m.outbound_expiry, now)
            /\ \E k \in DispatcherRecord :
                 /\ Started(n, k, e.air, now)
                 /\ k.frame = m.frame
                 /\ Conserved(m, {}) => Conserved(k, {})
                 /\ Len(m.sendq) <= Len(k.sendq)
                 /\ \A i \in 1 .. Len(m.sendq) : k.sendq[i] = m.sendq[i]
<1> DEFINE m1 == WatchRadio(m, e.rx, now)
           m2 == DispatcherTxDone(m1, FALSE, now)
           m3 == ResetAgc(m2, now)
           m4 == ProcessInbound(m3, e.verdict, now)
           n == Loop(m, e, now)
<1>0. e.rx \in BOOLEAN /\ e.verdict \in Verdict
  BY DEF Answer
<1>1. /\ m1 \in DispatcherRecord /\ Grows(m1, m) /\ m1.sendq = m.sendq
      /\ Conserved(m, {}) => Conserved(m1, {})
  BY <1>0, WatchRadioType, RadioFrame, SameBuffers
<1>2. m1.outbound = m.outbound /\ m1.outbound_expiry = m.outbound_expiry /\ m1.frame = m.frame
  BY <1>1 DEF Grows
<1> HIDE DEF m1
<1>3. CASE m.outbound # None /\ ~HasPassed(m.outbound_expiry, now)
  <2>1. n = m1
    BY <1>2, <1>3 DEF Loop, m1
  <2> QED
    BY <1>1, <1>3, <2>1
<1>4. CASE ~(m.outbound # None /\ ~HasPassed(m.outbound_expiry, now))
  <2>1. n = CheckSend(m4, e, now)
    BY <1>2, <1>4 DEF Loop, m1, m2, m3, m4
  <2>2. /\ m2 \in DispatcherRecord /\ m2.outbound = None /\ m2.frame = m1.frame
        /\ m2.sendq = m1.sendq
        /\ Conserved(m1, {}) => Conserved(m2, {})
    BY <1>1, TxDoneType, TxDoneFrame, TxDoneConserves
  <2> HIDE DEF m2
  <2>3. /\ m3 \in DispatcherRecord /\ Grows(m3, m2)
        /\ Conserved(m2, {}) => Conserved(m3, {})
    BY <1>0, <2>2, ResetAgcType, RadioFrame, SameBuffers
  <2> HIDE DEF m3
  <2>4. /\ m4 \in DispatcherRecord /\ Grows(m4, m3)
        /\ Conserved(m3, {}) => Conserved(m4, {})
    BY <1>0, <2>3, ProcessInboundType, ProcessInboundConserves, ProcessInboundGrows
  <2> HIDE DEF m4, n
  <2>5. Grows(m4, m2)
    BY <2>2, <2>3, <2>4, GrowsTrans
  <2>6. /\ m4.outbound = None /\ m4.frame = m.frame
        /\ Len(m.sendq) <= Len(m4.sendq)
        /\ \A i \in 1 .. Len(m.sendq) : m4.sendq[i] = m.sendq[i]
        /\ Conserved(m, {}) => Conserved(m4, {})
    BY <1>1, <1>2, <2>2, <2>3, <2>4, <2>5 DEF Grows
  <2>7. \/ Started(n, m4, e.air, now)
        \/ n.outbound = None /\ n.frame = m4.frame
    BY <2>1, <2>4, <2>6, CheckSendCases
  <2> QED
    BY <1>4, <2>4, <2>6, <2>7 DEF n
<1> QED
  BY <1>3, <1>4

---------------------------------------------------------------------------
(* Deadlines.                                                              *)

\* The times at which the loop has work: a transmission to give up, a packet to
\* process or to send.
Work(m) ==
  UNION { IF m.outbound # None THEN {m.outbound_expiry} ELSE {},
          {m.sendq[i].at : i \in DOMAIN m.sendq},
          {m.rxq[i].at : i \in DOMAIN m.rxq} }

\* They are clock values.
LEMMA WorkType ==
  ASSUME NEW m \in DispatcherRecord
  PROVE  Work(m) \subseteq Time
<1>1. /\ \A i \in DOMAIN m.sendq : m.sendq[i].at \in Time
      /\ \A i \in DOMAIN m.rxq : m.rxq[i].at \in Time
  <2>1. /\ \A i \in DOMAIN m.sendq : m.sendq[i] \in Entry
        /\ \A i \in DOMAIN m.rxq : m.rxq[i] \in Entry
    BY Fields
  <2> QED
    BY <2>1 DEF Entry
<1> QED
  BY <1>1, Fields DEF Work

\* While all of them are ahead, the loop touches no queue.
LEMMA LoopIdle ==
  ASSUME NEW m \in DispatcherRecord, NEW e \in Answer, NEW now \in Time,
         \A x \in Work(m) : After(x, now)
  PROVE  LET n == Loop(m, e, now) IN
         n.sendq = m.sendq /\ n.rxq = m.rxq /\ n.outbound = m.outbound
<1> DEFINE m1 == WatchRadio(m, e.rx, now)
           m2 == DispatcherTxDone(m1, FALSE, now)
           m3 == ResetAgc(m2, now)
           m4 == ProcessInbound(m3, e.verdict, now)
           n == Loop(m, e, now)
<1>0. e.rx \in BOOLEAN /\ e.verdict \in Verdict
  BY DEF Answer
<1>1. /\ m1 \in DispatcherRecord /\ m1.sendq = m.sendq /\ m1.rxq = m.rxq
      /\ m1.outbound = m.outbound /\ m1.outbound_expiry = m.outbound_expiry
  BY <1>0, WatchRadioType, RadioFrame DEF Grows
<1> HIDE DEF m1
<1>2. Due(m.sendq, now) = {} /\ Due(m.rxq, now) = {}
  BY DEF Work, Due
<1>3. CASE m.outbound # None
  <2>1. After(m.outbound_expiry, now) /\ m.outbound_expiry \in Time
    BY <1>3, Fields DEF Work
  <2>2. ~HasPassed(m.outbound_expiry, now)
    BY <2>1, AfterAsymmetric DEF HasPassed
  <2>3. n = m1
    BY <1>1, <1>3, <2>2 DEF Loop, m1
  <2> QED
    BY <1>1, <2>3
<1>4. CASE m.outbound = None
  <2>1. m2 = m1
    BY <1>1, <1>4 DEF DispatcherTxDone
  <2> HIDE DEF m2
  <2>2. /\ m3 \in DispatcherRecord /\ m3.sendq = m.sendq /\ m3.rxq = m.rxq
        /\ m3.outbound = None
    BY <1>0, <1>1, <1>4, <2>1, ResetAgcType, RadioFrame
  <2> HIDE DEF m3
  <2>3. m4 = m3
    BY <1>2, <2>2 DEF ProcessInbound, HasInbound, Eligible
  <2>4. ~HasOutbound(m3, now)
    BY <1>2, <2>2 DEF HasOutbound, Eligible
  <2>5. n = CheckSend(m3, e, now)
    <3>1. n = CheckSend(m4, e, now)
      BY <1>1, <1>4 DEF Loop, m1, m2, m3
    <3> QED
      BY <3>1, <2>3
  <2> HIDE DEF n
  <2>6. n.outbound = None /\ n.sendq = m3.sendq /\ n.rxq = m3.rxq
    BY <2>2, <2>4, <2>5, CheckSendCases DEF Started
  <2> QED
    BY <1>4, <2>2, <2>6 DEF n
<1> QED
  BY <1>3, <1>4

\* A queue's next schedule is now, or the nearest of its entries, all ahead.
LEMMA NextScheduledIs ==
  ASSUME NEW q \in Seq(Entry), q # <<>>, NEW now \in Time, After(NextScheduled(q, now), now)
  PROVE  \A i \in DOMAIN q : /\ After(q[i].at, now)
                             /\ Elapsed(now, NextScheduled(q, now)) <= Elapsed(now, q[i].at)
<1> DEFINE D == {Elapsed(now, e.at) : e \in Elems(q)}
           Nearest(e) == \A f \in Elems(q) : Elapsed(now, e.at) <= Elapsed(now, f.at)
<1>1. Due(q, now) = {}
  BY AfterAsymmetric DEF NextScheduled
<1>2. Elems(q) # {} /\ \A e \in Elems(q) : e \in Entry
  <2>1. 1 \in DOMAIN q /\ \A i \in DOMAIN q : q[i] \in Entry
    OBVIOUS
  <2> QED BY <2>1 DEF Elems
<1>3. \A e \in Elems(q) : Elapsed(now, e.at) \in Nat
  BY <1>2, ElapsedTime, TimeConstants DEF Entry
<1>4. PICK x \in D : \A y \in D : x <= y
  <2>1. D \subseteq Nat /\ D # {}
    BY <1>2, <1>3
  <2> QED BY <2>1, NatMin
<1>5. \E e \in Elems(q) : Nearest(e)
  BY <1>4
<1>6. NextScheduled(q, now) = (CHOOSE e \in Elems(q) : Nearest(e)).at
  BY <1>1 DEF NextScheduled
<1>7. Nearest(CHOOSE e \in Elems(q) : Nearest(e))
  BY <1>5
<1>8. \A i \in DOMAIN q : Elapsed(now, NextScheduled(q, now)) <= Elapsed(now, q[i].at)
  BY <1>6, <1>7 DEF Elems
<1>9. \A i \in DOMAIN q : After(q[i].at, now)
  BY <1>1 DEF Due
<1> QED
  BY <1>8, <1>9

\* next_deadline_get is now, or comes before all of the loop's work.
LEMMA NextDeadlineIs ==
  ASSUME NEW m \in DispatcherRecord, NEW rx \in BOOLEAN, NEW now \in Time
  PROVE  LET D == NextDeadline(m, rx, now) IN
         \/ D = now
         \/ /\ After(D, now)
            /\ \A x \in Work(m) : After(x, now) /\ Elapsed(now, D) <= Elapsed(now, x)
<1> DEFINE C == DeadlineCandidates(m, rx, now)
           V == {Elapsed(now, c) : c \in C}
           D == NextDeadline(m, rx, now)
<1>1. \A q \in {m.sendq, m.rxq} \ {<<>>} : NextScheduled(q, now) \in Time
  BY Fields, NextScheduledType
<1>2. Later(m.radio_nonrx_start, NonRxTimeout) \in Time
  BY Fields, TimeConstants, DispatcherAssumption
<1>3. C \subseteq Time /\ C # {}
  <2>1. m.next_floor_calib_time \in C
    BY DEF DeadlineCandidates
  <2>2. ASSUME NEW c \in C PROVE c \in Time
    BY <1>1, <1>2, Fields DEF DeadlineCandidates
  <2> QED BY <2>1, <2>2
<1>4. /\ \A q \in {m.sendq, m.rxq} \ {<<>>} : NextScheduled(q, now) \in C
      /\ m.outbound # None => m.outbound_expiry \in C
  BY DEF DeadlineCandidates
<1> HIDE DEF C
<1>5. \A c \in C : Elapsed(now, c) \in Nat
  BY <1>3, ElapsedTime, TimeConstants
<1>6. PICK least \in V : \A y \in V : least <= y
  <2>1. V \subseteq Nat /\ V # {}
    BY <1>3, <1>5
  <2> QED BY <2>1, NatMin
<1>7. \E c \in C : \A b \in C : Elapsed(now, c) <= Elapsed(now, b)
  BY <1>6
<1>8. D = IF \E c \in C : ~After(c, now) THEN now
          ELSE CHOOSE c \in C : \A b \in C : Elapsed(now, c) <= Elapsed(now, b)
  BY DEF NextDeadline, C
<1>9. ASSUME \A c \in C : After(c, now)
      PROVE  D \in C /\ \A b \in C : Elapsed(now, D) <= Elapsed(now, b)
  BY <1>7, <1>8, <1>9
<1> HIDE DEF D
<1>10. ASSUME \A c \in C : After(c, now), NEW x \in Work(m)
       PROVE  After(x, now) /\ Elapsed(now, D) <= Elapsed(now, x)
  <2>0. x \in Time /\ Elapsed(now, x) \in Nat /\ Elapsed(now, D) \in Nat
    BY <1>3, <1>5, <1>9, <1>10, WorkType, ElapsedTime, TimeConstants
  <2>1. CASE m.outbound # None /\ x = m.outbound_expiry
    BY <2>1, <1>4, <1>9, <1>10
  <2>2. ASSUME NEW q \in {m.sendq, m.rxq}, NEW i \in DOMAIN q, x = q[i].at
        PROVE  After(x, now) /\ Elapsed(now, D) <= Elapsed(now, x)
    <3>1. q \in Seq(Entry) /\ q # <<>>
      BY <2>2, Fields
    <3>2. NextScheduled(q, now) \in C
      BY <3>1, <1>4
    <3>3. /\ After(q[i].at, now)
          /\ Elapsed(now, NextScheduled(q, now)) <= Elapsed(now, q[i].at)
      BY <3>1, <3>2, <1>10, NextScheduledIs
    <3>4. /\ Elapsed(now, D) <= Elapsed(now, NextScheduled(q, now))
          /\ Elapsed(now, NextScheduled(q, now)) \in Nat
      BY <3>2, <1>5, <1>9, <1>10
    <3> QED
      BY <3>3, <3>4, <2>0, <2>2
  <2> QED
    BY <2>1, <2>2, <1>10 DEF Work
<1>11. CASE \E c \in C : ~After(c, now)
  BY <1>8, <1>11 DEF D
<1>12. CASE \A c \in C : After(c, now)
  BY <1>9, <1>10, <1>12 DEF D
<1> QED
  BY <1>11, <1>12
=============================================================================
