# A TLA+ model of meshcore

meshcore is a C library that turns a microcontroller with a LoRa radio into a
node of a mesh network. It has no thread of its own: a *host* calls it (a timer
fired, a frame arrived, a transmission ended, send this), and every call runs to
completion, calls the host's hooks synchronously and ends by arming the host's
single timer. This directory holds TLA+ specifications of its core logic,
the TLC configurations that check them, and TLAPS proofs. `PROJECT.json` maps
every definition to the source lines it stands for.

## 1. Inventory

| Part | State | Operations | Hard because |
| --- | --- | --- | --- |
| packet manager (`support/meshcore_packet_manager.c`) | a fixed pool; free list, send queue and delayed-receive queue with priority and due time | allocate, free, queue, take the most urgent due entry, next due time | every failure drops a pointer silently; a leak takes a buffer away for ever |
| dispatcher (`core/meshcore_dispatcher.c`) | the outbound packet with start and expiry, next transmission time, channel-wait start, duty-cycle budget, calibration, AGC and receive-mode times | receive, send, completion, loop, deadlines | wrapping clock, sentinels that are clock values, time-out against completion, strict and weak comparisons of one deadline |
| event pump (`runtime/meshcore.c`) | initialized flag, the host timer's deadline | init, deinit, timer fired, frame injected, transmission done, request | the timer is the only wake-up; reports of an earlier life reach the next |
| pending requests (`runtime/meshcore_runtime_pending.c`) | 8 expected acknowledgements in a ring, one slot for each of discovery, trace, telemetry, binary | register, match an answer, sweep, next deadline | answers are late, duplicated and reordered; tags come from a wall clock that may go back |
| mesh (`core/meshcore_mesh.c`) | identity, seen-table | classify a packet, relay, forward, answer; create and send packets | many copies of a payload over many relays, paths collected on one side and consumed on the other |
| seen-table (`support/meshcore_tables.c`) | a ring of packet hashes | test and remember | eviction re-opens a finished flood |
| policy (`runtime/meshcore_runtime_policy.c`) | none (asks the host) | may this packet be forwarded, after which delay | hop limit and loop detection must stop what the seen-table forgets; a path may hold SNR bytes between the hashes |
| packet codec (`core/meshcore_packet.c`, and the parser in the dispatcher) | none | parse, write, hash, path-length field | two parsers and a writer; hashes of one to three bytes share a six-bit count |
| requests (`runtime/meshcore_runtime_request.c`) | none of their own | one call for each request: validate, build a packet, register what is awaited, send | validated and answered before the packet is built |
| receive paths, control data (`runtime/meshcore_runtime_receive.c`, `..._control.c`) | none of their own | handle a decrypted payload, answer it, publish it | the answer to a flood carries the collected path; hashes of peers and channels collide |
| event publication (`runtime/meshcore_runtime_event_publish.c`), advert data (`support/meshcore_advert_data.c`) | none | fill a host event; build and parse an advert's data | event fields have limits of their own; decryption yields padded lengths |
| text data, telemetry codec, identity and crypto, radio and random wrappers, platform bridge | none or constant | conversions and hook calls | |

The parts interact by plain calls. Downwards: a host call enters the event pump,
which runs the sweep of pending requests and the dispatcher's loop. Upwards: the
loop hands a received packet to the mesh, which may ask the dispatcher to send
new packets, calls the receive paths (they complete pending requests and publish
host events) and returns a verdict: release the packet or relay it. Everything
shares one clock.

What makes the parts correct: no buffer is lost; the timer never misses work;
everything queued leaves; a completion, an acknowledgement or a response is
credited to what it is about, once and in time; a flood is relayed once by each
node and ends; a path leads to the node it is kept for; an acknowledged message
was delivered; what a request was accepted for is what the other host is told;
every node reads in a frame what the last one wrote.

## 2. Modules

| Module | Models |
| --- | --- |
| `Clock` | the wrapping millisecond clock and its comparisons |
| `PacketManager` | pool and queues, as operators on the dispatcher's record |
| `Dispatcher` | one operator per function of `meshcore_dispatcher.c`, from the record before the call to the record after it |
| `EventPump` | the state machine: one action per host call, plus the host's clock, timer and radio |
| `Correlation` | the expected-ACK table, the pending slots and the calls that fill, match and sweep them |
| `Routing` | several nodes on a broadcast radio: flood, source route, PATH exchange, acknowledgement |
| `Requests` | abstract: what correlation promises, without tables, tags or timers |
| `SourceRoute` | several nodes with colliding hashes: who opens a packet, source-routed acknowledgements with extra copies, anonymous, group, raw and control packets |
| `PathLen` | the path-length field: two bits of hash size, six of count |
| `Wire` | one frame byte for byte from node to node: parsers, writer, relay, TRACE, policy, the packed relay action, the host's packet view |
| `AdvertData` | what fits into an advert |
| `Submission` | every request of the API, the packet builders, the receiving node's handlers and events, with the real sizes |
| `MCEventPump`, `MCCorrelation`, `MCRouting`, `MCSourceRoute`, `MCWire`, `MCSubmission` | small instances for TLC |
| `ClockProofs`, `DispatcherProofs` | lemmas about the operators of `Clock`, `PacketManager` and `Dispatcher` |
| `EventPumpProofs`, `CorrelationProofs`, `RoutingProofs`, `SourceRouteProofs`, `SubmissionProofs`, `WireProofs` | the theorems about each state machine, with their lemmas |

`EventPump` composes the dispatcher, the packet manager and the clock; what the
mesh layer makes of a packet is there a nondeterministic `Verdict` (up to two
packets of its own, then relay or release). The mesh layer itself,
`meshcore_mesh_on_recv_packet` and what it calls, is seen from four sides, each
with the detail its properties need: `Routing` has many copies on the air and
learns routes; `SourceRoute` has collisions, acknowledgement copies and the other
payload types; `Wire` has the bytes; `Submission` has the sizes, from the API at
one node to the event at the other. `Correlation` stands beside them: it shares
the clock and the host calls, and its `TimerFired` first sweeps and then may
handle an answer, as `meshcore_timer_fired` does.

**Refinement.** `Requests` says what a host may rely on: a request may be waited
for once made, not again once given up; it is reported at most once, while it is
waited for; a new request pushes out at most one older one. `Correlation`
implements it under the mapping `Promise` (the requests made are those asked, the
waiting ones are the entries of the ring and the four slots): TLC checks it as
`KeepsPromise`, and `PromiseKept` proves it.

**State.** `d` in `EventPump` is `struct meshcore_dispatcher` under its own field
names, with the queues of its manager; `frame` numbers the frames handed to the
radio and `owed` lists those the radio has not reported on, so that a report can
be compared with the frame it is credited to. `c` in `Correlation` is the part of
the context that `meshcore_runtime_pending.c` owns; `asked`, `outcome` and `done`
record what the host asked and was told. In `Routing`, `seen` is each node's table
and `routes` what each host stores; `air` is what is between the radios. In
`Submission`, `call` is the host's last call, its return code and what became of
the packet, and `told` what the other host was told. In `Wire`, `frame` is the
frame on the air, `origin` the packet it was at first and `trail` the nodes that
relayed it. The
variables the code does not have are said to be so in the modules.

**Operators defined next to the code's own and called bugs** (`BestIdxOldest`,
`CleanupAcks`, `ReadFromAnySize`, ...) are altered versions of the definition that follows. No
specification uses them. Each replaces its original to confirm that a property
notices the defect.

**Abstractions.** Encryption is ideal: only the two peers, or the members of the
channel, open a packet; packet hashes are injective. Node and channel hashes
collide in `SourceRoute` and `Wire`, and are distinct in `Routing`. In `EventPump`,
`Correlation` and `Routing` payloads are serial numbers or model values; in
`Submission` they are their lengths and the byte that decides what they are; in
`Wire` they are bytes, with the path array, keys, signatures and frames scaled
down together. The duty-cycle factor is an integer, so float products become
integer ones. `unsigned long` is taken as 32 bits, as on the targets. Statistics
are left out. A queued packet always serializes, so the `len == 0` branch of
`check_send` has no case. In `Routing` and `SourceRoute` a transmission takes place
at once; delay is the arbitrary order of arrival. A host asks for at most one extra
acknowledgement in `EventPump` (no more than two replies to one packet).

## 3. Runs

All runs: `tlc -workers 2 -config <run>.cfg <module>`.

| Run | Shows |
| --- | --- |
| `Pump_safety` | `TypeOK`; `PacketConservation`: every buffer is in exactly one place after every call; `NoMissedWork`: if the loop could process, send or give up a packet now, the armed timer has expired; `CompletionMatchesOutbound`: a report made in time belongs to the outbound frame; `MostUrgentFirst` |
| `Pump_lifecycle` | `NoMissedWork` with deinit and init between any two calls, lost reports, AGC resets and a radio leaving receive mode |
| `Pump_drains` | `Drains`: unless new traffic keeps coming or the host takes the runtime down, every buffer returns to the pool |
| `Corr_answers` | `TypeOK`; `RightRequest`: an answer is credited to the request it answers, whatever the order, delay and number of answers and the wall clock; `AtMostOnce`; `ExpiryIsDue`: an entry past its time-out has the timer expired; `NothingForgotten`: an entry leaves only for a reason |
| `Corr_lifecycle` | with restarts, caller tags and traces: `CreditedInTime`; `NothingForgotten`; `Settles`: no request waits for ever; `KeepsPromise`: the refinement |
| `Route_exchange` | `RoutesLead`, `RelayOnce`, `DeliveredOnce`, `AckedMeansDelivered` with a lost copy; `Acknowledged` when none is lost |
| `Route_forgetful` | `Quiesces` with a seen-table of one entry: loop detection carries the burden alone, and the air falls silent |
| `Submit_sizes` | `FramesFit`; `AcceptedIsSent`: what a validator accepts no builder refuses; `DeliveredWhole`: the other host gets the length that was sent; `ReachesHost`: up to the largest size accepted; `Answered`: the answers fit beside the longest path |
| `Wire_frames` | `Faithful`: a frame is written as it was read, and what we relay the next node reads; `ReadersAgree`: the two parsers agree; `PathTellsTrail`: the path has the relays' hashes, or SNRs, in order, and nothing else changes; `HopLimit`; `FloodsEnd`: at the addressee, and in loops although every table may forget; `TraceInOrder`; `TraceNotSeen`: a TRACE passes nodes it has visited; `UrgencyKept`: priority and delay survive the packed action |
| `Source_acks` | `RightParties`: with colliding hashes, a private packet is told to its addressee alone, once, under its sender's name, and an acknowledgement means so; `GroupOnce`, `GroupReaches`: the same for channels with one hash; `AckBudget`: extra acknowledgements do not multiply along a route; `AckSurvives`: one of them may be lost |

Two runs show where the code departs from what its documents say; TLC's
counterexample is the evidence (details under `findings`).

| Run | Departure |
| --- | --- |
| `Pump_spin` | "expired deadlines process queued work and schedule the next deadline": while a packet is queued for later, or due behind a frame on the air, the timer is armed for *now*, fires, does nothing and is armed for *now* again. |
| `Submit_binary` | 163 bytes are the "Maximum service request payload length accepted by the public API", but of a binary request of 157 to 163 bytes the other host is told nothing: padded by the cipher, it is larger than the event. |

**Bounds and why they suffice.** Two buffers make the pool run empty while one
packet is outbound and another queued; the third role of a buffer (held by the
running call) occurs inside each action. The clock has 16 values and starts at
13, so each behaviour crosses the wrap; time constants are 1 to 5 so that every
order of expiry, report, back-off and receive delay occurs; the run ends at
`StopTime`. `Pump_drains` has no end: its clock of 6 values goes round for ever.
`MaxLate` lets an expired timer be served a millisecond late. `MaxReport` is the
longest time to a completion report: within the transmission's expiry in
`Pump_safety`, beyond it in the other runs. Two acknowledgement slots and three
requests overfill the table; two seconds of wall clock, set at will, repeat and go backwards. In
`Route_exchange` the four nodes form a triangle with a tail, so routes have one or
two relays and copies overtake each other; a table of three entries is evicted by
the second message; `Quiet = 0` keeps the two messages apart, as the table is
meant for the traffic of the moment. `Route_forgetful` sends two adverts into the
triangle while copies are still on the air.

`Submit_sizes` has the real sizes: lengths on either side of every limit in the
code, path fields of every hash size, valid and not, and hosts that differ from a
good one in one respect (no identity, no memory, no key, a role, a long name, a
longest route, telemetry of each critical size); one exchange at a time, there and
back. In `Wire_frames` the path array has 4 bytes and the count two bits: the real
64 bytes and six bits scaled by 16, so that a count can still overflow; two of the
four nodes share the first byte of their keys; frames of every route, kind and
hash size come whole, too short and too long, and of lengths on either side of the largest
payload (15 bytes) and the largest frame (25: as in the code, with its 254 of 255 bytes,
it has room for the largest packet); `MaxRelays` = 4 exceeds the hop limit
(2) and every loop threshold. In `Source_acks` sender, addressee and channel each
have a double with the same hash that stands before them in the host's tables; a
line of two repeaters lets a copy come back to the node that sent it; one copy may
be lost or doubled, one extra acknowledgement is sent.

`CHECK_DEADLOCK FALSE` stands in the two `Route_` runs because a network with nothing
on the air and no message left to send has nothing to do.

**Fairness.** `EventPump` and `Correlation` assume that the host's clock
advances without end, and that it initializes the runtime: nothing else. `Tick`
waits for a timer that is `MaxLate` overdue, so this includes that the host serves
its timer, which the platform contract demands, and (`EventPump`) that a
completion report comes or is given up. No fairness is assumed of the radio
accepting a frame, of a free channel or of an answer arriving. `Routing` and
`SourceRoute` assume that what is on the air arrives or is lost, and `SourceRoute`
that the hosts send what they have to send.

## 4. Proofs

Every theorem holds for all values of the constants that satisfy the named
assumptions of the modules (TLC evaluates those on every run): any pool, table,
network, set of messages, hosts, lengths and clock. Each proof has the same shape:
an inductive invariant, one lemma per operator or action that keeps it, and a last
step that puts them together. Where a theorem has a hypothesis of its own, the code
needs it, and section 5 says what happens without it.

**`EventPumpProofs`** (with `ClockProofs` and `DispatcherProofs`)

* `TypeCorrect`, `BuffersConserved`: `TypeOK` and `PacketConservation`. The inductive
  invariant is both together: conservation needs the types of the queues, and it is
  what shows that a buffer can always be returned. `Conserved(m, held)` speaks of the
  middle of a call too, when the running function holds a packet. The crux is
  `RoomInFreeList` and `RoomInQueue`: a duplicate-free list that lacks some buffer of
  the pool is shorter than the pool (pigeonhole), so the silent drop of a full list
  never happens.
* `UrgentFirst`: `MostUrgentFirst`, an action property, from what
  `meshcore_packet_manager_best_idx` returns.
* `MissesNoWork`: `NoMissedWork`, given `MaxLate < Half`. The invariant adds that the
  timer is armed for the earliest deadline there is, or has expired. The lemmas of
  `ClockProofs` say when the wrapping comparison orders two times as they really are;
  they need times less than half a turn apart, which is where the hypothesis comes in.
* `CompletionsMatch`: `CompletionMatchesOutbound`, given that reports come within 1.5
  times the estimated airtime and the runtime is not restarted in between
  (`PromptReports`). The invariant adds (`OwedInv`) that the radio owes at most one
  report, that it is about the outbound frame, and that the frame cannot have expired.

**`CorrelationProofs`**

* `TypeCorrect`, `ReportedAtMostOnce`, `SweepIsDue`, `InTime` and the action property
  `ForgetsNothing`, from one invariant. Its parts, besides the properties themselves:
  the entries are of requests that were made, numbered in order (`Counted`); no request
  has two entries (`DistinctIds`), without which an answer could be credited again; and
  the timer watches every entry (`TimerInv`): it is armed no later than the entry's
  time-out, or has expired with it, no longer ago than the host is late.
* `PromiseKept`: the refinement of `Requests`. Initial states map to initial states,
  and each action to a step of the promise or to a stutter.
* `CreditsTheRightRequest`: `RightRequest`, given `Unambiguous` (the runtime draws the
  tags, there is no restart, no two messages have the same CRC). The invariant says
  that the tags handed out so far are distinct and not above `last_unique`, however
  the wall clock was set.

**`RoutingProofs`**

* `AckIsEvidence`: `AckedMeansDelivered`, without hypotheses. An acknowledgement on the
  air, in a PATH or alone, is about a message that its sender holds as delivered.
* `RelaysOnce`, `DeliversOnce`: `[](NotFull => RelayOnce)` and the same for
  `DeliveredOnce`: as long as no seen-table has filled up. The invariant ties what a
  node has relayed or delivered to what is in its table.
* `RoutesLeadThere`: `RoutesLead`, given that repeaters have distinct hashes. The
  invariant says of each copy on the air that the path it has collected is a walk over
  links from its origin to where it is, and of each source route that what is left of
  it is a walk to its addressee.

**`SourceRouteProofs`**: `TellsTheRightParties`, `TellsGroupsOnce`, `AcksWithinBudget`,
without hypotheses: hashes collide, copies are lost and doubled at will. The invariant
says that an acknowledgement is on the air only of what the addressee's host was told,
that what a host was told is in the node's seen-table, and that the transmissions of an
acknowledgement are paid for by the two keys the table knows it under (`Budget`).

**`SubmissionProofs`**, about the real sizes: for every set of hosts, lengths and paths

* `FramesAlwaysFit`, `AcceptedMeansSent`, `DeliversWhole`, `HostIsReached`,
  `RequestsAreAnswered`: the five invariants of `Submit_sizes`.

The invariant is `Sound(p)` for every packet on the air, `ToldOK` of what a host was
told, and `AcceptedIsSent`. `Sound` says how the length of each kind of payload depends
on what the host gave (`Carries`), that both path-length fields are valid and that the
payload fits: it is what the builders establish (`DatagramBuilt`, `PathReturnBuilt`,
...), what relays and senders keep, and what each receive path needs. `PaddedBounds`
and `FieldIs` hold the arithmetic: a plaintext the builders accept still fits when the
cipher has padded it, and a path field is read as it was written.

**`WireProofs`**, for every set of frames, nodes, keys and policies, and every
`MaxPathLen` up to 64. Integers, the sequences of bytes and the division by the modulus of
the count are the prover's own; nothing of the codec is assumed.

* `RoundTrip` and `Parsed`, about the operators: the parser reads what the writer wrote,
  and the writer restores every frame the parser accepts. `LaidOut` and `TakenApart` hold
  the positions of the fields, `FieldParts` and `FieldMade` the path-length byte.
  `WrittenBackWhole` (`Faithful`) and `ParsersAgree` (`ReadersAgree`) follow.
* `CarriedUnchanged`: the first invariant, `Carried`. What is on the air is sound
  (`Whole`: valid path length, just the bytes it counts) and, but for its path, is the
  packet first accepted. It needs `OpenedStays`: a node that opened a flood would relay a
  header of 255, which is no packet, but then it does not relay.
* `TellsItsWay`: the second, `WayTold`: what the path and its length are after the relays
  of `trail`, for a TRACE, a flood and a source route each. It goes on past the overflow of
  the count, where it says of a flood only that the hash size stays. From it
  `PathsTellTrails`, `TracesKeepOrder` (`TraceInOrder`), `HopsAreLimited` (`HopLimit`).
* `FloodsComeToAnEnd` (`FloodsEnd`): `ForOpeners` says that the addressees of a flood are
  not in its trail; `LoopsBounded` that a node's visits are no more than its mode
  tolerates, since for each visit there is a hash in the path that matches
  (`VisitsMatch`, an injection) and the relay found fewer than that.
* `TracesComeBack` (`TraceNotSeen`): every key of a TRACE in a seen-table holds a path
  length below that of the frame on the air (`SeenShorter`).
* `UrgencySurvives` (`UrgencyKept`): the delay of a frame of any length stays below
  2^24, so the word is taken apart as it was put together.

The proofs assume of the constants what the code has: a path array of at most 64 bytes, a
frame that has room for the largest packet with its transport codes (6 + 64 + 184 = 254
of 255 bytes), delays that fit 24 bits, and that a path length is a byte
(`WireAssumption`, `FramesAssumption`).

**Only model-checked.** The liveness properties (`Drains`, `Settles`, `Acknowledged`,
`Quiesces`, `GroupReaches`, `AckSurvives`): the prover has no fairness. Every invariant
and every action property that a run checks has a theorem. The two departures from the
documents are shown by counterexamples.

## 5. Known limits of the code

Met while modelling, each visible in a definition of the model; the properties are
stated so that they hold beside them.

* *Late completion reports.* `tx_done` names no frame. A report later than 1.5
  times the estimated airtime releases the next frame while it is on the air:
  `CompletionMatchesOutbound` fails in `Pump_safety` with `MaxReport = 7`.
* *Idle for 2^31 ms.* `next_tx_time` is not refreshed while idle; after 24.8 days
  without a transmission it reads as a future back-off of up to 24.8 days.
  `NoPhantomBackoff` states that this does not happen, and `Drains` assumes it.
* *Equal texts.* Neither the recipient nor the high bits of the attempt are in the
  acknowledgement CRC: equal texts in one second to two peers, or with attempts 0
  and 4, are acknowledged in table order. `Corr_answers` has distinct texts.
* *Damaged traces.* A trace answer whose hashes and SNRs do not fit together
  clears the pending trace (the last case of `NothingForgotten`).
* *Restart.* `last_unique` starts again: if the wall clock stands still, a tag of
  the previous life is drawn again. `Corr_answers` has no restarts.
* *64 hops.* A chat node with `client_repeat` has no hop limit; past it the six-bit
  count wraps to 0 and the flood is relayed anew (`InCount` in `HopLimit`). A TRACE
  of 64 hops loses its SNRs in the same way; the API allows 63.
* *Channel texts.* "name: " and the text together may exceed 160 bytes: the call
  returns 0 and nothing is sent (the exception in `AcceptedIsSent`). A name with a
  colon is split at the wrong place by the receiver.
* *Telemetry.* The answer to a flooded request is dropped when it has more than 93
  bytes and the path is long (`Answered`).
* *Path arguments.* `raw_data_send` and `channel_data_send` document `path_len` as
  a number of bytes and decode it as the encoded field.
* *Zero-hop adverts.* A repeater takes an advert as a neighbour's when
  `path_len == 0`; with hashes of two or three bytes the field of an empty path is
  64 or 128.
* *SNR transport.* A relay writes its hash and no SNR. With one byte for each hop
  loop detection has nothing to compare (`MatchLen` in `FloodsEnd`).
* *Source routes by one byte.* Two neighbouring relays with the same hash both
  take a packet meant for one of them.
* *CONTROL* packets are not looked up in the seen-table: a copy heard twice is
  told twice.
* *Relay delay.* The packed action has 24 bits of delay and does not check it;
  `WireAssumption` states that the policy's delays fit.

## 6. Plan

1. Done: pump, dispatcher, packet manager; correlation and its abstract promise;
   routing of messages, paths, acknowledgements and adverts; requests, receive
   paths and events with their sizes; frames byte for byte; colliding hashes and
   acknowledgement copies; the theorems of section 4.
2. Done: the theorems about `Wire`. With them every safety property that a run checks is
   proved, under the hypotheses that section 4 names.
3. Left: the liveness properties, should the prover learn fairness; a theorem that
   joins `Wire` to `Routing`, whose copies have node names where `Wire` has bytes; and the
   text helpers and the telemetry codec, when the runtime calls them.

## 7. Not modelled

Cryptography (taken as ideal; the vendored code is out of reach), except the
padding of a cipher text and one-byte identity hashes. The telemetry codec and the
text helpers, which the runtime does not call. The contents of names, positions and
texts: lengths and flags stand for them. The platform bridge beyond the packet view
and the channel search: each of its functions calls one hook, whose answers are
nondeterministic here. Statistics. `meshcore_tables_clear`, the removal of queued
packets by index and the test hooks at the end of `meshcore_runtime_pending.c` have
no caller in the runtime.
