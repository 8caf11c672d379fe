----------------------------- MODULE EventPump -----------------------------
(***************************************************************************)
(* The runtime's host-driven event pump (runtime/meshcore.c) over the      *)
(* dispatcher.  The runtime has no thread of its own: the host calls       *)
(* meshcore_init, meshcore_deinit, meshcore_timer_fired,                   *)
(* meshcore_radio_rx_inject, meshcore_radio_tx_done and the request        *)
(* functions, one at a time, and each ends by re-arming the single host    *)
(* timer.  One host call is one action.  The host itself (clock, timer,    *)
(* radio) is modelled from how the runtime uses it.                        *)
(***************************************************************************)
EXTENDS Dispatcher

CONSTANTS
  Verdicts,     \* what the mesh layer may do with a received packet
  Frames,       \* received frames: parses, flood, receive delay
  Requests,     \* packets submitted by host requests
  Airtimes,     \* estimated airtimes of outbound frames
  Busy,         \* what channel sensing may answer
  RadioModes,   \* receive-mode values the radio may have
  StartTimes,   \* clock values at which the host boots
  MaxLate,      \* milliseconds an expired timer may wait to be served
  MaxReport,    \* longest from a frame's start to its completion report
  MaxOwed,      \* completion reports the radio may still owe
  Restarts,     \* may the host deinitialize the runtime?
  StopTime      \* bound: the clock value at which the run ends, if any

ASSUME PumpAssumption ==
  /\ Verdicts \subseteq Verdict /\ Verdicts # {}
  /\ Frames \subseteq [parses : BOOLEAN, flood : BOOLEAN, delay : Nat]
  /\ Requests \subseteq Reply \cup {Nothing}
  /\ Airtimes \subseteq Nat
  /\ Busy \subseteq BOOLEAN
  /\ RadioModes \subseteq BOOLEAN
  /\ StartTimes \subseteq Time
  /\ StopTime \in Nat
  /\ MaxLate \in Nat /\ MaxReport \in Nat /\ MaxOwed \in Nat
  /\ Restarts \in BOOLEAN
  /\ FrameIds > MaxOwed

\* A frame the radio has taken: its serial number and when
Report == [id : 0 .. FrameIds - 1, at : Time]

VARIABLES
  now,      \* the host's millisecond clock
  up,       \* context->initialized
  d,        \* the dispatcher and its packet manager
  timer,    \* the deadline the host timer is armed for
  late,     \* milliseconds an expired timer has been waiting
  rxmode,   \* is the radio in receive mode?
  owed      \* frames the radio took and has not reported on, oldest first

vars == <<now, up, d, timer, late, rxmode, owed>>

\* The context after meshcore_runtime_end: everything zeroed, no pool.
Cleared(frame) ==
  [Begin(0, FALSE, frame) EXCEPT !.unused = <<>>, !.tx_budget_ms = 0]

\* What the host and the mesh layer may answer during a call that runs the
\* loop.  The radio may refuse a frame, and does when it owes too many reports.
Answers(pending) ==
  {e \in [verdict : Verdicts, busy : Busy, accept : BOOLEAN,
          air : Airtimes, rx : {rxmode}] : e.accept => Len(pending) < MaxOwed}

\* The outcomes of the loop on dispatcher d0
Looped(d0, pending) == {Loop(d0, e, now) : e \in Answers(pending)}

\* The end of a host call: the dispatcher is d1, the radio owes `pending' plus
\* the frame the call started, and the timer is synchronized with the deadlines.
Finish(d1, pending) ==
  /\ d' = d1
  /\ owed' = IF d1.frame = d.frame THEN pending
             ELSE Append(pending, [id |-> d1.frame, at |-> now])
  /\ timer' = NextDeadline(d1, rxmode, now)
  /\ UNCHANGED <<now, up, rxmode>>

\* A call other than the timer's: a timer that is expired again still waits.
KeepWaiting == late' = IF Reached(timer', now) THEN late ELSE 0

---------------------------------------------------------------------------
(* Host calls.                                                             *)

\* meshcore_init when the identity hook succeeds
InitRuntime ==
  /\ ~up
  /\ up' = TRUE
  /\ d' = Begin(now, rxmode, d.frame)
  /\ timer' = NextDeadline(d', rxmode, now)
  /\ late' = 0
  /\ UNCHANGED <<now, rxmode, owed>>

\* meshcore_deinit: neither the host timer nor the radio is told
Deinit ==
  /\ Restarts /\ up
  /\ up' = FALSE
  /\ d' = Cleared(d.frame)
  /\ UNCHANGED <<now, timer, late, rxmode, owed>>

\* meshcore_timer_fired by the expired one-shot timer
TimerFired ==
  /\ Reached(timer, now)
  /\ up
  /\ late' = 0
  /\ \E d1 \in Looped(d, owed) : Finish(d1, owed)

\* the same when the runtime is not initialized: -ENODEV
TimerFiredDown ==
  /\ Reached(timer, now)
  /\ ~up
  /\ timer' = NoTimer
  /\ late' = 0
  /\ UNCHANGED <<now, up, d, rxmode, owed>>

\* meshcore_timer_fired for a correlation deadline earlier than the dispatcher's
CorrelationTimer ==
  /\ up /\ ~Reached(timer, now)
  /\ late' = 0
  /\ \E d1 \in Looped(d, owed) : Finish(d1, owed)

\* meshcore_radio_rx_inject: the loop runs only when the frame was taken in
RxInject(f) ==
  /\ up
  /\ \E d0 \in {ReceiveRaw(d, f, v, now) : v \in Verdicts} :
       IF CanAlloc(d) /\ f.parses
       THEN \E d1 \in Looped(d0, owed) : Finish(d1, owed)
       ELSE Finish(d0, owed)
  /\ KeepWaiting

\* meshcore_radio_tx_done for the oldest frame the radio has not reported on
TxDone(success) ==
  /\ owed # <<>>
  /\ up
  /\ \E d1 \in Looped(DispatcherTxDone(d, success, now), Tail(owed)) :
       Finish(d1, Tail(owed))
  /\ KeepWaiting

\* the report comes while the runtime is down (-ENODEV), or never comes
TxReportLost ==
  /\ owed # <<>>
  /\ owed' = Tail(owed)
  /\ UNCHANGED <<now, up, d, timer, late, rxmode>>

\* a typed request, whichever its executor: it sends one packet, or fails inside
\* and sends nothing; -ENOBUFS leaves everything as it is
Request(r) ==
  /\ up /\ CanAlloc(d)
  /\ Finish(SendNew(d, r, now), owed)
  /\ KeepWaiting

---------------------------------------------------------------------------
(* The host's clock and radio.                                             *)

RadioMode ==
  /\ rxmode' \in RadioModes \ {rxmode}
  /\ UNCHANGED <<now, up, d, timer, late, owed>>

\* Time passes while the host is not too late for its timer, nor the radio for
\* its reports.
Tick ==
  /\ now # StopTime
  /\ Reached(timer, now) => late < MaxLate
  /\ late' = IF Reached(timer, now) THEN late + 1 ELSE 0
  /\ \A i \in DOMAIN owed : Elapsed(owed[i].at, now) < MaxReport
  /\ now' = Later(now, 1)
  /\ UNCHANGED <<up, d, timer, rxmode, owed>>

Init ==
  /\ now \in StartTimes
  /\ up = FALSE
  /\ d = Cleared(0)
  /\ timer = NoTimer
  /\ late = 0
  /\ rxmode \in RadioModes
  /\ owed = <<>>

Next ==
  \/ InitRuntime
  \/ Deinit
  \/ TimerFired
  \/ TimerFiredDown
  \/ CorrelationTimer
  \/ \E f \in Frames : RxInject(f)
  \/ \E success \in BOOLEAN : TxDone(success)
  \/ TxReportLost
  \/ \E r \in Requests : Request(r)
  \/ RadioMode
  \/ Tick

Spec == Init /\ [][Next]_vars

\* The host keeps going: its clock advances without end.  As Tick waits for an
\* overdue timer and for an overdue completion report, this implies that an
\* expired timer is served and that a report comes or is lost.
Fairness == []<><<Tick>>_vars /\ WF_vars(InitRuntime)

FairSpec == Spec /\ Fairness

---------------------------------------------------------------------------
(* Properties.                                                             *)

\* Every field keeps its type; in particular the transmit budget never exceeds
\* the duty-cycle share of the window (update_tx_budget's cap).
TypeOK ==
  /\ now \in Time
  /\ up \in BOOLEAN
  /\ d \in DispatcherRecord
  /\ timer \in Time \cup {NoTimer}
  /\ late \in 0 .. MaxLate
  /\ rxmode \in BOOLEAN
  /\ owed \in Seq(Report)

\* No packet buffer is ever leaked or freed twice, whatever the order of
\* receptions, replies, relays, refused sends, completions and time-outs: the
\* silent drops of queue_outbound, queue_inbound and free never lose a buffer.
PacketConservation == up => Conserved(d, {})

\* The answers most favourable to moving packets: a clear channel, a radio that
\* takes the frame.  Whether a packet is processed depends on no other answer.
Favourable == [verdict |-> CHOOSE v \in Verdicts : TRUE, busy |-> FALSE,
               accept |-> TRUE, air |-> MaxAir, rx |-> rxmode]

Queues(m) == <<m.sendq, m.rxq, m.outbound>>

\* The runtime sleeps only when it has nothing to do: whenever a call of the
\* loop could process, send or give up a packet, the armed host timer has
\* expired (next_deadline_get misses none of the conditions the loop tests).
NoMissedWork ==
  up /\ Queues(Loop(d, Favourable, now)) # Queues(d) => Reached(timer, now)

\* A completion report is credited to the frame it is about: tx_done acts on
\* whatever is outbound, so the report the radio owes next must be about the
\* frame the dispatcher is waiting for.
CompletionMatchesOutbound ==
  up /\ owed # <<>> /\ d.outbound # None => Head(owed).id = d.frame

\* A frame is started for the most urgent packet that is due: a due packet
\* that stays queued is never more urgent than the one taken from the queue.
MostUrgentFirst ==
  [][d'.frame # d.frame =>
       \A i \in DOMAIN d.sendq : d.sendq[i].pkt = d'.outbound =>
         \A j \in Due(d'.sendq, now) : d.sendq[i].pri <= d'.sendq[j].pri]_vars

\* The longest back-off any branch of the dispatcher asks for.
MaxBackoff ==
  LET S == {RetryDelay, Reserve * (1 + Factor), (MaxAir \div 2) * (1 + Factor)}
  IN CHOOSE x \in S : \A y \in S : y <= x

\* A queued packet is never held back longer than the longest back-off: an old
\* next_tx_time does not turn into a future one.
NoPhantomBackoff ==
  up /\ d.sendq # <<>> /\ After(d.next_tx_time, now) =>
    Elapsed(now, d.next_tx_time) <= MaxBackoff

\* Nothing stays in the node for ever: every buffer comes back to the pool,
\* unless new traffic keeps taking buffers or the host takes the runtime down.
\* However busy the channel and however small the budget, and whether or not
\* the radio takes a frame and reports on it, no packet is stuck in a queue or
\* on the air -- provided the node never meets the phantom back-off above.
Drains ==
  []NoPhantomBackoff =>
     \/ []<>(Elems(d.unused) = Packet)
     \/ []<><<~(Elems(d.unused) \subseteq Elems(d'.unused))>>_vars
     \/ []<>~up

\* A timer served after its deadline does something, or is armed for later:
\* "expired deadlines process queued work and schedule the next deadline".
TimerMakesProgress ==
  [][TimerFired /\ Elapsed(timer, now) > 0 => d' # d \/ After(timer', now)]_vars

=============================================================================
