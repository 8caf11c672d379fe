---------------------------- MODULE Correlation ----------------------------
(***************************************************************************)
(* Matching answers to requests (runtime/meshcore_runtime_pending.c with   *)
(* the request and receive paths that call it).  A text message registers  *)
(* the CRC its acknowledgement will carry in a small table; a discovery,   *)
(* trace, telemetry or binary request registers a tag in the single slot   *)
(* of its kind.  Entries expire after a time-out, swept by the host timer. *)
(*                                                                         *)
(* The mesh may delay, lose, duplicate and reorder answers without limit:  *)
(* an answer to any request ever made may arrive at any time, any number   *)
(* of times.  `asked' (the requests made), the serial number `id' in an    *)
(* entry, `outcome' and `done' are kept by the model, not by the code.     *)
(***************************************************************************)
EXTENDS Clock, FiniteSetsExt

CONSTANTS
  AckSlots,     \* MESHCORE_RUNTIME_EXPECTED_ACK_TABLE_SIZE
  Timeout,      \* MESHCORE_RUNTIME_REQUEST_TIMEOUT_MS
  Chat,         \* is the local role CHAT?
  Messages,     \* messages the host may send: peer, attempt, text
  ZeroCrcs,     \* acknowledgement CRCs that happen to be 0
  Kinds,        \* the tagged request kinds the host uses
  Peers,        \* the nodes it addresses
  CallerTags,   \* tags it passes; 0 asks the runtime to generate one
  RtcTimes,     \* values of the wall clock, which the host may set at will
  StartTimes,   \* clock values at which the host boots
  MaxLate,      \* milliseconds an expired timer may wait to be served
  MaxRequests,  \* bound: requests made in a behaviour
  MaxTag,       \* bound: tags the runtime generates
  Restarts,     \* may the host deinitialize the runtime?
  StopTime      \* bound: the clock value at which the run ends, if any

AllKinds == {"discovery", "trace", "telemetry", "binary"}
Attempt == 0 .. 255

ASSUME CorrelationAssumption ==
  /\ AckSlots \in Nat \ {0}
  /\ Timeout \in 1 .. Half - 1
  /\ Chat \in BOOLEAN
  /\ \A m \in Messages : m.peer \in Peers /\ m.attempt \in Attempt
  /\ Kinds \subseteq AllKinds
  /\ CallerTags \subseteq Nat
  /\ RtcTimes \subseteq Nat \ {0}
  /\ StartTimes \subseteq Time
  /\ MaxLate \in 0 .. Half - 1     \* later than that, signed differences mislead
  /\ MaxRequests \in Nat /\ MaxTag \in Nat
  /\ Restarts \in BOOLEAN
  /\ StopTime \in Nat

VARIABLES
  now,      \* the host's millisecond clock
  rtc,      \* the host's wall clock, in seconds
  up,       \* context->initialized
  c,        \* the correlation state of the context
  timer,    \* the deadline armed for it
  late,     \* milliseconds an expired timer has been waiting
  asked,    \* the requests made so far
  outcome,  \* the answer just received and the entry it was credited to
  done      \* the requests whose answer was reported to the host

vars == <<now, rtc, up, c, timer, late, asked, outcome, done>>

NoEntry == [id |-> 0]                 \* an entry with valid == false
Slots == 0 .. AckSlots - 1
Nobody == "nobody"                    \* a trace has no addressee

\* meshcore_runtime_state_reset
Reset == [acks |-> [i \in Slots |-> NoEntry], ack_next |-> 0,
          pend |-> [k \in AllKinds |-> NoEntry], last_unique |-> 0]

\* meshcore_runtime_time_reached for a live entry
Expired(e, t) == e # NoEntry /\ Elapsed(e.expires, t) < Half
Fresh(e, t) == e # NoEntry /\ ~Expired(e, t)

Entries(s) == ({s.acks[i] : i \in Slots} \cup {s.pend[k] : k \in AllKinds}) \ {NoEntry}

---------------------------------------------------------------------------
(* Registration.                                                           *)

\* The CRC of a text message's acknowledgement: a hash (here injective) of the
\* second it was sent, the low bits of the attempt and the text.
AckCrc(m) == [ts |-> rtc, attempt |-> m.attempt % 4, text |-> m.text]

\* A bug: the table is a plain ring.
AckSlotRing(s, t) == s.ack_next

\* meshcore_runtime_expected_ack_register: the first slot from ack_next on that
\* is free or expired, else the one at ack_next whatever it holds
AckSlot(s, t) ==
  LET usable == {n \in Slots : ~Fresh(s.acks[(s.ack_next + n) % AckSlots], t)}
  IN IF usable = {} THEN s.ack_next ELSE (s.ack_next + Min(usable)) % AckSlots

\* A bug: the next slot does not wrap around.
AckRegisterNoWrap(s, q, t) ==
  LET slot == AckSlot(s, t) % AckSlots
  IN [s EXCEPT !.acks[slot] = [id |-> q.id, crc |-> q.crc, peer |-> q.peer,
                               attempt |-> q.attempt, expires |-> Later(t, Timeout)],
               !.ack_next = slot + 1]

AckRegister(s, q, t) ==
  LET slot == AckSlot(s, t)
  IN IF q.crc \in ZeroCrcs THEN s
     ELSE [s EXCEPT !.acks[slot] = [id |-> q.id, crc |-> q.crc, peer |-> q.peer,
                                    attempt |-> q.attempt,
                                    expires |-> Later(t, Timeout)],
                    !.ack_next = (slot + 1) % AckSlots]

\* meshcore_runtime_pending_*_register
PendRegister(s, q, t) ==
  [s EXCEPT !.pend[q.kind] = [id |-> q.id, tag |-> q.tag, peer |-> q.peer,
                              expires |-> Later(t, Timeout)]]

\* A bug: the wall clock is taken as it is.
UniqueTimeRepeats(s) == rtc

\* meshcore_clock_rtc_get_current_time_unique
UniqueTime(s) == IF rtc <= s.last_unique THEN s.last_unique + 1 ELSE rtc

\* The state after a request's tag was chosen: a generated one moves
\* last_unique on, and a binary request draws one even if the caller gave its own.
DrawTag(s, kind, given) ==
  IF given = 0 \/ kind = "binary" THEN [s EXCEPT !.last_unique = UniqueTime(s)] ELSE s
TagOf(s, given) == IF given = 0 THEN UniqueTime(s) ELSE given

---------------------------------------------------------------------------
(* Answers.  Each handler yields the new state and the entry it credits.   *)

Ignored(s) == [s |-> s, credit |-> NoEntry]

\* A bug: an acknowledged message stays in the table.
AckHandleKeeps(s, crc, t) ==
  LET hits == {i \in Slots : Fresh(s.acks[i], t) /\ s.acks[i].crc = crc}
  IN [s |-> s, credit |-> IF hits = {} THEN NoEntry ELSE s.acks[Min(hits)]]

\* meshcore_runtime_expected_ack_handle: clears the expired entries it passes
AckHandle(s, crc, t) ==
  LET hits == {i \in Slots : Fresh(s.acks[i], t) /\ s.acks[i].crc = crc}
      stop == IF hits = {} THEN AckSlots ELSE Min(hits)
  IN [s |-> [s EXCEPT !.acks = [i \in Slots |->
               IF i = stop \/ (i < stop /\ Expired(@[i], t)) THEN NoEntry ELSE @[i]]],
      credit |-> IF hits = {} THEN NoEntry ELSE s.acks[stop]]

Matches(e, q) == e # NoEntry /\ e.tag = q.tag /\ e.peer = q.peer
\* Bugs: a completed request stays pending, or completes the others too.
CompleteKeeps(s, kind) == [s |-> s, credit |-> s.pend[kind]]
CompleteAll(s, kind) == [s |-> [s EXCEPT !.pend = Reset.pend], credit |-> s.pend[kind]]
Complete(s, kind) == [s |-> [s EXCEPT !.pend[kind] = NoEntry], credit |-> s.pend[kind]]

\* meshcore_runtime_pending_telemetry_handle, then _binary_handle
ResponseHandle(s, q) ==
  IF Matches(s.pend["telemetry"], q) THEN Complete(s, "telemetry")
  ELSE IF Matches(s.pend["binary"], q) THEN Complete(s, "binary")
  ELSE Ignored(s)

\* meshcore_runtime_on_peer_path_recv with a RESPONSE as extra data
PathResponseHandle(s, q) ==
  IF Matches(s.pend["discovery"], q) THEN Complete(s, "discovery")
  ELSE IF Chat THEN ResponseHandle(s, q)
  ELSE Ignored(s)

\* meshcore_runtime_on_peer_path_recv with an ACK as extra data
PathAckHandle(s, q, t) == IF Chat THEN AckHandle(s, q.crc, t) ELSE Ignored(s)

\* meshcore_runtime_pending_trace_handle: a trace with the awaited tag whose
\* hashes and SNRs do not fit together clears the slot and publishes nothing
TraceHandle(s, q, intact) ==
  IF ~Matches(s.pend["trace"], q) THEN Ignored(s)
  ELSE IF intact THEN Complete(s, "trace")
  ELSE [Complete(s, "trace") EXCEPT !.credit = NoEntry]

\* What the node may make of an answer to q, depending on how it comes
Handle(s, q, t) ==
  IF q.kind = "message" THEN {AckHandle(s, q.crc, t), PathAckHandle(s, q, t)}
  ELSE IF q.kind = "trace" THEN {TraceHandle(s, q, intact) : intact \in BOOLEAN}
  ELSE {ResponseHandle(s, q), PathResponseHandle(s, q)}

\* Bugs: one of the two tables is not swept.
CleanupAcks(s, t) ==
  [s EXCEPT !.acks = [i \in Slots |-> IF Expired(@[i], t) THEN NoEntry ELSE @[i]]]
CleanupPending(s, t) ==
  [s EXCEPT !.pend = [k \in AllKinds |-> IF Expired(@[k], t) THEN NoEntry ELSE @[k]]]

\* meshcore_runtime_correlation_cleanup
Cleanup(s, t) ==
  [s EXCEPT !.acks = [i \in Slots |-> IF Expired(@[i], t) THEN NoEntry ELSE @[i]],
            !.pend = [k \in AllKinds |-> IF Expired(@[k], t) THEN NoEntry ELSE @[k]]]

\* A bug: only the pending slots are looked at, and only whether they are in use.
DeadlineAcks(s, t) == IF s.pend # Reset.pend THEN Later(t, Timeout) ELSE NoTimer

\* meshcore_runtime_correlation_next_deadline_get
Deadline(s, t) ==
  LET C == {e.expires : e \in Entries(s)}
  IN IF C = {} THEN NoTimer
     ELSE IF \E x \in C : ~After(x, t) THEN t
     ELSE CHOOSE x \in C : \A y \in C : Elapsed(t, x) <= Elapsed(t, y)

---------------------------------------------------------------------------
(* Host calls.  Each ends in meshcore_runtime_timer_sync.                  *)

NoOutcome == [answer |-> 0, credit |-> NoEntry]

Finish(s) == c' = s /\ timer' = Deadline(s, now)
KeepWaiting == late' = IF Reached(timer', now) THEN late ELSE 0
Quiet == outcome' = NoOutcome /\ UNCHANGED done     \* no answer is received

\* The end of a call that handled an answer to q as h
Report(q, h) ==
  /\ Finish(h.s)
  /\ outcome' = [answer |-> q.id, credit |-> h.credit]
  /\ done' = done \cup ({h.credit.id} \ {NoEntry.id})

Ask(q) == asked' = asked \cup {q}
NextId == Cardinality(asked) + 1

\* meshcore_message_send_to_node; `sent' is FALSE when no packet is created
SendMessage(m, sent) ==
  LET q == [id |-> NextId, kind |-> "message", peer |-> m.peer,
            attempt |-> m.attempt, crc |-> AckCrc(m)]
  IN /\ up
     /\ NextId <= MaxRequests
     /\ IF sent THEN Ask(q) /\ Finish(AckRegister(c, q, now))
                ELSE UNCHANGED asked /\ Finish(c)
     /\ Quiet
     /\ KeepWaiting
     /\ UNCHANGED <<now, rtc, up>>

\* meshcore_node_discover_path_request, _trace_request, _telemetry_request and
\* _binary_request
TaggedRequest(kind, peer, given, sent) ==
  LET q == [id |-> NextId, kind |-> kind, tag |-> TagOf(c, given),
            peer |-> IF kind = "trace" THEN Nobody ELSE peer]
      s == DrawTag(c, kind, given)
  IN /\ up
     /\ NextId <= MaxRequests /\ s.last_unique <= MaxTag
     /\ IF sent THEN Ask(q) /\ Finish(PendRegister(s, q, now))
                ELSE UNCHANGED asked /\ Finish(s)
     /\ Quiet
     /\ KeepWaiting
     /\ UNCHANGED <<now, rtc, up>>

\* An answer is handled within meshcore_radio_rx_inject or meshcore_radio_tx_done
Receive(q) ==
  /\ up
  /\ \E h \in Handle(c, q, now) : Report(q, h)
  /\ KeepWaiting
  /\ UNCHANGED <<now, rtc, up, asked>>

\* meshcore_timer_fired, for this timer or for an earlier deadline of the
\* dispatcher: sweep, then the loop may handle an answer whose delay is over
TimerFired ==
  /\ up
  /\ \/ Finish(Cleanup(c, now)) /\ Quiet
     \/ \E q \in asked : \E h \in Handle(Cleanup(c, now), q, now) : Report(q, h)
  /\ late' = 0
  /\ UNCHANGED <<now, rtc, up, asked>>

\* the same when the runtime is not initialized: -ENODEV
TimerFiredDown ==
  /\ ~up /\ Reached(timer, now)
  /\ timer' = NoTimer
  /\ late' = 0
  /\ Quiet
  /\ UNCHANGED <<now, rtc, up, c, asked>>

InitRuntime ==
  /\ ~up
  /\ up' = TRUE
  /\ Finish(Reset)
  /\ late' = 0
  /\ Quiet
  /\ UNCHANGED <<now, rtc, asked>>

\* meshcore_deinit: the context is zeroed, the host timer stays armed
Deinit ==
  /\ up /\ Restarts
  /\ up' = FALSE
  /\ c' = Reset
  /\ Quiet
  /\ UNCHANGED <<now, rtc, timer, late, asked>>

SetRtc ==
  /\ rtc' \in RtcTimes \ {rtc}
  /\ Quiet
  /\ UNCHANGED <<now, up, c, timer, late, asked>>

\* Time passes while the host is not too late for its timer.
Tick ==
  /\ now # StopTime
  /\ Reached(timer, now) => late < MaxLate
  /\ late' = IF Reached(timer, now) THEN late + 1 ELSE 0
  /\ now' = Later(now, 1)
  /\ Quiet
  /\ UNCHANGED <<rtc, up, c, timer, asked>>

Init ==
  /\ now \in StartTimes
  /\ rtc \in RtcTimes
  /\ up = FALSE
  /\ c = Reset
  /\ timer = NoTimer
  /\ late = 0
  /\ asked = {}
  /\ outcome = NoOutcome
  /\ done = {}

Next ==
  \/ InitRuntime
  \/ Deinit
  \/ \E m \in Messages, sent \in BOOLEAN : SendMessage(m, sent)
  \/ \E kind \in Kinds, peer \in Peers, given \in CallerTags, sent \in BOOLEAN :
       TaggedRequest(kind, peer, given, sent)
  \/ \E q \in asked : Receive(q)
  \/ TimerFired
  \/ TimerFiredDown
  \/ SetRtc
  \/ Tick

Spec == Init /\ [][Next]_vars

\* The host's clock advances without end; as Tick waits for an overdue timer,
\* this implies that an expired timer is served.
FairSpec == Spec /\ []<><<Tick>>_vars /\ WF_vars(InitRuntime)

---------------------------------------------------------------------------
(* Properties.                                                             *)

Crc == [ts : RtcTimes, attempt : 0 .. 3, text : {m.text : m \in Messages}]
AckEntry == [id : 1 .. MaxRequests, crc : Crc, peer : Peers, attempt : Attempt,
             expires : Time]
PendEntry == [id : 1 .. MaxRequests, tag : Nat \ {0}, peer : Peers \cup {Nobody},
              expires : Time]

Store == [acks : [Slots -> AckEntry \cup {NoEntry}], ack_next : Slots,
          pend : [AllKinds -> PendEntry \cup {NoEntry}], last_unique : Nat]

\* Every field keeps its type; in particular ack_next stays within the table.
TypeOK ==
  /\ now \in Time
  /\ rtc \in RtcTimes
  /\ up \in BOOLEAN
  /\ c \in Store
  /\ timer \in Time \cup {NoTimer}
  /\ late \in 0 .. MaxLate
  /\ \A q \in asked : q.id \in 1 .. MaxRequests
  /\ done \subseteq {q.id : q \in asked}

\* What the host is told is right: an answer is credited to the very request it
\* answers -- for a message, to one with the peer and the attempt token that the
\* acknowledgement is about -- however late, often or out of order answers come
\* and whatever the wall clock does.
RightRequest ==
  outcome.credit # NoEntry =>
    \E q \in asked :
      /\ q.id = outcome.answer
      /\ IF q.kind = "message"
         THEN outcome.credit.peer = q.peer /\ outcome.credit.attempt = q.attempt
         ELSE outcome.credit.id = q.id

\* A request that has been reported is no longer awaited: no duplicate or
\* delayed answer can report it a second time.
AtMostOnce == \A e \in Entries(c) : e.id \notin done

\* The sweep is never missed: while an entry is past its time-out the armed
\* timer has expired, and has done so for as long as the entry.
ExpiryIsDue ==
  up => \A e \in Entries(c) :
          Expired(e, now) => Reached(timer, now) /\ Elapsed(e.expires, now) <= late

\* An answer is never credited long after the time-out.  Only the ACK handler
\* looks at the expiry; for the others this rests on the sweep.
CreditedInTime ==
  outcome.credit # NoEntry /\ Expired(outcome.credit, now) =>
    Elapsed(outcome.credit.expires, now) <= MaxLate

\* The entry e gave way to a new request: one of its kind, or any message when
\* the table holds nothing but messages still waiting.
Superseded(e) ==
  \E q \in asked' \ asked :
    IF q.kind = "message" THEN \A i \in Slots : Fresh(c.acks[i], now)
                          ELSE e = c.pend[q.kind]

\* No request is forgotten without a reason: an entry leaves its table only when
\* its answer is reported, when it has expired, when it is superseded, when the
\* runtime is taken down, or (a trace) when its answer comes back damaged.
NothingForgotten ==
  [][\A e \in Entries(c) \ Entries(c') :
       \/ outcome'.credit = e
       \/ Expired(e, now)
       \/ Superseded(e)
       \/ ~up'
       \/ /\ e = c.pend["trace"]
          /\ \E q \in asked : q.id = outcome'.answer /\ q.kind = "trace" /\ q.tag = e.tag]_vars

\* Every request is settled: answered, expired, superseded or reset.
Settles ==
  \A n \in 1 .. MaxRequests :
    (\E e \in Entries(c) : e.id = n) ~> ~(\E e \in Entries(c) : e.id = n)

\* The abstract view of the tables: Requests, with the entries as the requests
\* that are waited for.
Promise == INSTANCE Requests WITH
  made <- Cardinality(asked),
  waiting <- {e.id : e \in Entries(c)},
  reported <- done

\* Two tables, single slots, generated and given tags, expiry by a timer, early
\* and late answers, restarts: all of it implements Requests.
KeepsPromise == Promise!Spec

=============================================================================
