----------------------------- MODULE Dispatcher -----------------------------
(***************************************************************************)
(* The packet dispatcher (core/meshcore_dispatcher.c): one operator per    *)
(* function of the file, each from the dispatcher record before the call   *)
(* to the record after it.  A record d has the fields of struct            *)
(* meshcore_dispatcher that its control reads, under their own names, the  *)
(* three queues of its packet manager, and `frame', a serial number of the *)
(* frame last handed to the radio (kept by the model, not by the code).    *)
(*                                                                         *)
(* What the host and the mesh layer answer during one call is in a record  *)
(* e: `busy' (channel activity), `accept' (does the radio take the frame), *)
(* `air' (estimated airtime of that frame), `rx' (radio in receive mode)   *)
(* and `verdict' (what the mesh layer makes of a received packet).         *)
(*                                                                         *)
(* The duty cycle is 1/(1 + Factor) with an integer Factor, so the code's  *)
(* float products become integer divisions and products.  Traffic counters,*)
(* air-time totals and error flags are written and never read by the       *)
(* runtime: they are left out.                                             *)
(***************************************************************************)
EXTENDS PacketManager

CONSTANTS
  Factor,         \* airtime budget factor: duty cycle 1/(1 + Factor)
  Window,         \* duty_cycle_window_ms
  Reserve,        \* MIN_TX_BUDGET_RESERVE_MS
  MaxAir,         \* estimated airtime of the longest frame
  CalibInterval,  \* NOISE_FLOOR_CALIB_INTERVAL
  AgcInterval,    \* AGC reset interval of the host, 0 when off
  NonRxTimeout,   \* RADIO_NONRX_TIMEOUT_MS
  CadMax,         \* longest wait for a clear channel
  RetryDelay,     \* wait before the channel is sensed again
  MinRxDelay,     \* a shorter receive delay is no delay (50 ms)
  MaxRxDelay,     \* MAX_RX_DELAY_MILLIS
  FrameIds        \* number of frame serial numbers

ASSUME DispatcherAssumption ==
  /\ \A c \in {Factor, Window, Reserve, MaxAir, CalibInterval, AgcInterval,
               NonRxTimeout, CadMax, RetryDelay, MinRxDelay, MaxRxDelay} : c \in Nat
  /\ FrameIds \in Nat \ {0}

MaxBudget == Window \div (1 + Factor)

\* A packet the mesh layer creates while it handles another: send_packet frees
\* it when it is not sendable (ok = FALSE), else queues it.
Reply == [pri : Priority, delay : Nat, ok : BOOLEAN]
\* A relayed packet: MESHCORE_ACTION_RETRANSMIT_DELAYED(pri, delay).
Relay == [pri : Priority, delay : Nat]
Nothing == [none |-> TRUE]

\* What the mesh layer does with a received packet: at most two packets of its
\* own (a host that asks for no more than one extra acknowledgement), then
\* RETRANSMIT_DELAYED or, with nothing to relay, RELEASE.
Verdict == [first : Reply \cup {Nothing}, second : Reply \cup {Nothing},
            relay : Relay \cup {Nothing}]

---------------------------------------------------------------------------

\* meshcore_dispatcher_init followed by meshcore_dispatcher_begin
Begin(now, rx, frame) ==
  [unused |-> PreparedPool, sendq |-> <<>>, rxq |-> <<>>,
   outbound |-> None, outbound_start |-> 0, outbound_expiry |-> 0,
   next_tx_time |-> now, cad_busy_start |-> 0,
   next_floor_calib_time |-> 0, next_agc_reset_time |-> 0,
   prev_isrecv_mode |-> rx, radio_nonrx_start |-> now,
   tx_budget_ms |-> MaxBudget, last_budget_update |-> now,
   frame |-> frame]

HasPassed(t, now) == After(now, t)

\* A bug: the refilled budget is not capped.
UpdateTxBudgetUncapped(d, now) ==
  [d EXCEPT !.tx_budget_ms = @ + Elapsed(d.last_budget_update, now) \div (1 + Factor),
            !.last_budget_update = now]

UpdateTxBudget(d, now) ==
  LET refill == Elapsed(d.last_budget_update, now) \div (1 + Factor)
      sum == d.tx_budget_ms + refill
  IN IF refill > 0
     THEN [d EXCEPT !.tx_budget_ms = IF sum > MaxBudget THEN MaxBudget ELSE sum,
                    !.last_budget_update = now]
     ELSE d

\* obtain_new_packet and send_packet for one packet of the mesh layer
SendNew(d, r, now) ==
  IF r = Nothing \/ ~CanAlloc(d) THEN d
  ELSE IF r.ok
       THEN QueueOutbound(AllocRest(d), AllocPkt(d), r.pri, Later(now, r.delay))
       ELSE Free(AllocRest(d), AllocPkt(d))

\* meshcore_dispatcher_process_recv_packet: p is held by the caller
ProcessRecv(d, p, v, now) ==
  LET d1 == SendNew(SendNew(d, v.first, now), v.second, now)
  IN IF v.relay = Nothing
     THEN Free(d1, p)
     ELSE QueueOutbound(d1, p, v.relay.pri, Later(now, v.relay.delay))

\* meshcore_dispatcher_receive_raw.  The frame f says whether it parses,
\* whether it is a flood, and the receive delay the host computes for it.
ReceiveRaw(d, f, v, now) ==
  IF ~CanAlloc(d) THEN d
  ELSE LET p == AllocPkt(d)
           d1 == AllocRest(d)
       IN IF ~f.parses THEN Free(d1, p)
          ELSE IF f.flood /\ f.delay >= MinRxDelay
               THEN QueueInbound(d1, p, Later(now, IF f.delay > MaxRxDelay
                                                   THEN MaxRxDelay ELSE f.delay))
               ELSE ProcessRecv(d1, p, v, now)

\* The charge of a completed transmission
ChargeAirtime(d, now) ==
  LET d1 == UpdateTxBudget(d, now)
      air == Elapsed(d.outbound_start, now)
      left == IF air > d1.tx_budget_ms THEN 0 ELSE d1.tx_budget_ms - air
  IN [d1 EXCEPT !.tx_budget_ms = left,
                !.next_tx_time = IF left < Reserve
                                 THEN Later(now, (Reserve - left) * (1 + Factor))
                                 ELSE now]

\* A bug: the packet is forgotten without being released.
DropOutboundLeaked(d) == [d EXCEPT !.outbound = None]

\* release_packet(outbound); outbound = NULL.  outbound_start and
\* outbound_expiry are read only while a packet is outbound; the model forgets
\* them with it.
DropOutbound(d) ==
  [Free(d, d.outbound) EXCEPT !.outbound = None,
                              !.outbound_start = 0, !.outbound_expiry = 0]

\* meshcore_dispatcher_tx_done; FALSE is returned when nothing is outbound
DispatcherTxDone(d, success, now) ==
  IF d.outbound = None THEN d
  ELSE LET d1 == DropOutbound(IF success THEN ChargeAirtime(d, now) ELSE d)
       IN IF AgcInterval > 0
          THEN [d1 EXCEPT !.next_agc_reset_time = Later(now, AgcInterval)]
          ELSE d1

\* A bug: the transmission expires after its estimated airtime, with no margin.
StartSendNoMargin(d, e, now) ==
  IF ~HasOutbound(d, now) \/ ~e.accept THEN d
  ELSE [TakeOutbound(d, now) EXCEPT !.outbound = NextOutbound(d, now),
          !.outbound_start = now, !.outbound_expiry = Later(now, e.air),
          !.frame = (@ + 1) % FrameIds]

\* check_send from the point where the channel is granted: take the most urgent
\* due packet and start its transmission.  A packet in the queue always
\* serializes (send_packet and the parser admit only valid lengths), so the
\* code's len == 0 branch has no case here.
StartSend(d, e, now) ==
  LET d0 == [d EXCEPT !.cad_busy_start = 0]
      d1 == [TakeOutbound(d0, now) EXCEPT !.outbound = NextOutbound(d0, now),
                                          !.outbound_start = now]
  IN IF ~HasOutbound(d, now) THEN d0
     ELSE IF ~e.accept THEN DropOutbound(d1)
     ELSE [d1 EXCEPT !.outbound_expiry = Later(now, (e.air * 3) \div 2),
                     !.frame = (@ + 1) % FrameIds]

\* check_send's channel sensing: wait, or give up waiting after CadMax.  The
\* start of the wait is 0 when there is none.
SenseChannel(d, e, now) ==
  LET since == IF d.cad_busy_start = 0 THEN now ELSE d.cad_busy_start
  IN IF e.busy /\ Elapsed(since, now) <= CadMax
     THEN [d EXCEPT !.cad_busy_start = since,
                    !.next_tx_time = Later(now, RetryDelay)]
     ELSE StartSend(d, e, now)

CheckSend(d, e, now) ==
  IF CountBefore(d.sendq, now) = 0 THEN d
  ELSE LET d1 == UpdateTxBudget(d, now)
           threshold == MaxAir \div 2
       IN IF d1.tx_budget_ms < threshold
          THEN [d1 EXCEPT !.next_tx_time =
                  Later(now, (threshold - d1.tx_budget_ms) * (1 + Factor))]
          ELSE IF HasPassed(d1.next_tx_time, now)
               THEN SenseChannel(d1, e, now)
               ELSE d1

\* The noise-floor calibration and receive-mode watch at the head of the loop
WatchRadio(d, rx, now) ==
  [d EXCEPT !.next_floor_calib_time =
                IF HasPassed(@, now) THEN Later(now, CalibInterval) ELSE @,
            !.prev_isrecv_mode = rx,
            !.radio_nonrx_start = IF d.prev_isrecv_mode /\ ~rx THEN now ELSE @]

ResetAgc(d, now) ==
  IF AgcInterval > 0 /\ HasPassed(d.next_agc_reset_time, now)
  THEN [d EXCEPT !.next_agc_reset_time = Later(now, AgcInterval)]
  ELSE d

ProcessInbound(d, v, now) ==
  IF HasInbound(d, now)
  THEN ProcessRecv(TakeInbound(d, now), NextInbound(d, now), v, now)
  ELSE d

\* A bug: a transmission is never given up.
LoopNoExpiry(d, e, now) ==
  LET d1 == WatchRadio(d, e.rx, now)
  IN IF d1.outbound # None THEN d1
     ELSE CheckSend(ProcessInbound(ResetAgc(d1, now), e.verdict, now), e, now)

\* meshcore_dispatcher_loop
Loop(d, e, now) ==
  LET d1 == WatchRadio(d, e.rx, now)
      d2 == DispatcherTxDone(d1, FALSE, now)
  IN IF d1.outbound # None /\ ~HasPassed(d1.outbound_expiry, now)
     THEN d1
     ELSE CheckSend(ProcessInbound(ResetAgc(d2, now), e.verdict, now), e, now)

\* Bugs: the delayed receptions, or the expiry of a transmission, are not
\* deadlines.
DeadlineCandidatesNoInbound(d, rx, now) ==
  UNION {{d.next_floor_calib_time},
         IF d.outbound # None THEN {d.outbound_expiry} ELSE {},
         IF d.sendq # <<>> THEN {NextScheduled(d.sendq, now), d.next_tx_time} ELSE {}}
DeadlineCandidatesNoExpiry(d, rx, now) ==
  UNION {{d.next_floor_calib_time},
         {NextScheduled(q, now) : q \in {d.sendq, d.rxq} \ {<<>>}},
         IF d.sendq # <<>> THEN {d.next_tx_time} ELSE {}}

\* meshcore_dispatcher_next_deadline_get.  The calibration time is always a
\* candidate, so there always is a deadline.
DeadlineCandidates(d, rx, now) ==
  UNION {
    {d.next_floor_calib_time},
    IF d.outbound # None THEN {d.outbound_expiry} ELSE {},
    {NextScheduled(q, now) : q \in {d.sendq, d.rxq} \ {<<>>}},
    IF d.sendq # <<>> THEN {d.next_tx_time} ELSE {},
    {d.next_agc_reset_time} \ {0},
    IF rx THEN {} ELSE {Later(d.radio_nonrx_start, NonRxTimeout)} }

NextDeadline(d, rx, now) ==
  LET C == DeadlineCandidates(d, rx, now)
  IN IF \E c \in C : ~After(c, now)
     THEN now
     ELSE CHOOSE c \in C : \A b \in C : Elapsed(now, c) <= Elapsed(now, b)

---------------------------------------------------------------------------
(* The dispatcher's state, and what its packet buffers must satisfy.        *)

DispatcherRecord ==
  [unused : Seq(Packet), sendq : Seq(Entry), rxq : Seq(Entry),
   outbound : Packet \cup {None}, outbound_start : Time, outbound_expiry : Time,
   next_tx_time : Time, cad_busy_start : Time,
   next_floor_calib_time : Time, next_agc_reset_time : Time,
   prev_isrecv_mode : BOOLEAN, radio_nonrx_start : Time,
   tx_budget_ms : 0 .. MaxBudget, last_budget_update : Time,
   frame : 0 .. FrameIds - 1]

\* What the host and the mesh layer may answer during a call
Answer == [verdict : Verdict, busy : BOOLEAN, accept : BOOLEAN,
           air : Nat, rx : BOOLEAN]

Distinct(s) == \A i, j \in DOMAIN s : s[i] = s[j] => i = j
DistinctPkts(q) == \A i, j \in DOMAIN q : q[i].pkt = q[j].pkt => i = j

\* Every buffer of the pool is in exactly one place: free, waiting to be
\* processed, waiting to be sent, on the air, or `held' by a running call.
Conserved(m, held) ==
  /\ Distinct(m.unused) /\ DistinctPkts(m.sendq) /\ DistinctPkts(m.rxq)
  /\ Elems(m.unused) \cap Pkts(m.sendq) = {}
  /\ Elems(m.unused) \cap Pkts(m.rxq) = {}
  /\ Pkts(m.sendq) \cap Pkts(m.rxq) = {}
  /\ m.outbound \notin Elems(m.unused) \cup Pkts(m.sendq) \cup Pkts(m.rxq)
  /\ held \cap ({m.outbound} \cup Elems(m.unused) \cup Pkts(m.sendq) \cup Pkts(m.rxq)) = {}
  /\ Packet = Elems(m.unused) \cup Pkts(m.sendq) \cup Pkts(m.rxq)
                \cup ({m.outbound} \ {None}) \cup held

=============================================================================
