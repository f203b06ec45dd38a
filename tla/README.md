# EchLub: a verification project in TLA+

EchLub is a collaborative music application under construction.  The repository
holds a Rust semantic core (a document of tracks and MIDI notes, its validation
and its replication), a control plane that relays WebRTC signaling, a web
application that sets up a live two-peer audio session and measures it, and the
tools that validate and pair the evidence those measurements produce.  This
directory holds TLA+ modules translated from that code, TLC configurations that
check them on small instances, and TLAPS proofs of their main properties.

## 1. Inventory

| Part | State it keeps | Operations | Talks to |
|---|---|---|---|
| Semantic kernel and model (`crates/echlub-model`, `crates/echlub-kernel`) | a document: tracks, notes, a revision per note, a document revision | `validate`, `apply`, hash | called by replicas and by the WASM facade |
| Replication (`crates/echlub-replication`) | per replica: document, seen operation ids, largest sequence number per actor, last decision | `ingest`, `ingest_batch`, `replay`, `sequence_gaps`, `checkpoint` | kernel; operations come from an unordered flow |
| Collaboration (`crates/echlub-collaboration`) | none | `classify` two operations | protocol lab |
| Protocol and session types (`crates/echlub-protocol`, `crates/echlub-session`) | none (frames, flow classes, a transport trait without implementation) | - | replication |
| WASM facade (`crates/echlub-web`) | document, own operation counter, seen ids | `add_track`, `add_note`, `move_note`, `delete_note` | kernel; the web page |
| Protocol lab (`apps/protocol-lab`) | scripted scenarios | one run | kernel, replication, collaboration |
| Control plane signaling (`apps/control-plane/src/signaling`) | rooms: per session the peers and one bounded broadcast channel each; one task per socket | join, relay, leave, deliver | signaling clients of both peers |
| Control plane HTTP (`routes.rs`, `config.rs`) | configuration | health, WASM and vector files, origin check | - |
| Signaling client (`adapters/signaling/client.ts`) | one socket | connect, relay, disconnect | control plane, live session |
| Negotiation and ICE buffer (`live/negotiation.ts`) | perfect-negotiation flags, buffered candidates | apply a description, send an offer, flush candidates | peer connection, signaling |
| Live session (`live/session.ts`) | phase, peer presence, channel and track state | prepare, microphone, connect, observe, export, stop, event handlers | everything in `live/` |
| RTP stats preflight (`live/stats-preflight.ts`) | state, generation, attempts, observations, retry timer, in-flight flag | start, invalidate, restart, reset, attempts | peer connection, live session |
| Clock probe (`live/clock-probe.ts`) | pending probes, samples, timers | ping, pong, timeout, stop | data channel, live session |
| Stats sampler (`live/stats-sampler.ts`) | previous counters, timers | sample, stop | peer connection, live session |
| Synthetic loopback and pulse detector (`adapters/webrtc/synthetic`) | emitted and detected pulses | run a scenario, correlate | Web Audio |
| Panels (`features/*`) | UI state | buttons | live session, loopback |
| Evidence validation (`crates/echlub-performance`, `apps/performance-report`) | none | validate, pair, verify, summarise | evidence files |
| Harnesses and scripts (`tools/*`, `scripts/*`) | processes, scenario results | run scenarios | control plane, web application |

Where it is hard: replicas accept the same operations in different orders,
with duplicates and losses and without buffering; every socket of the control
plane is a task of its own that interleaves joins, relays and departures with
the others and may overrun a bounded channel; the preflight controller, the
clock probe and the live session run asynchronous calls and timers whose late
answers meet a state that has moved on.

## 2. Modules and how they correspond to the code

### Replication (`Document`, `Collaboration`, `OperationLedger`, `Replication`, `MCReplication`, `ReplicationProofs`)

`Document` translates the model and the kernel: `Validate` follows the arms of
`validate.rs`, `Apply` those of `apply.rs` including the trailing
`sync_document_revision`.  A document is a function from track ids to tracks,
`Absent` where there is none; a note keeps its revision.  `find_note` and the
loops of `apply` take the first track that holds an id, so `FirstTrack` is part
of the model: the same id may live on two tracks.  Pitch, velocity and
duration are one member of `Bodies`, of which `PlayableBodies` pass the range
check.

`Replication` is one `Replica` per member of `Replicas`: `Ingest`,
`IngestBatch` and `Replay` are the public operations.  The set `Envelopes` is
what the unordered flow may deliver; nothing removes an envelope from it, so
every delivery may be repeated, late, out of order or never made.
`sequence_gaps` is the operator `SequenceGap`, observed by a property.

`OperationLedger` is the abstract specification: a replica is a set of accepted
operations that grows by operations admissible in the document that set stands
for.  `Replication` implements it (`ImplementsLedger`), the refinement mapping
being the accepted set of each replica.  `Collaboration` is `classify()`.

### Signaling (`Signaling`, `MCSignaling`, `SignalingProofs`)

One task per socket of the control plane, as in `signaling/mod.rs`: connecting
(`join_room` under the lock, or a refusal), greeting (the awaits between the
join and the select loop, one frame at a time), serving (the select loop:
receive a frame, deliver from the channel) and closed (`remove_peer`).  `room`
is the map under the mutex; each mutex section is one action.  `channel` is the
broadcast receiver with its capacity; when a send finds it full the oldest
message goes and `dropped` remembers it.  The client of a socket is part of the
model as far as it concludes presence from the frames it gets (`view`).

### RTP preflight (`RtpPreflight`, `RtpPreflightProofs`)

`RtpStatsPreflightController` with its asynchronous attempts.  A running call of
`runAttempt` is a record with its generation token and its program counter; the
awaits (`getStats`, `collectNormalizedStats`) and the callback `onUpdate` are the
points where other code runs.  The session's calls `maybeStart`, `invalidate`,
`restartWhenIdle` and `reset` may come at each of them, also from inside
`onUpdate`.

### Clock probe (`ClockProbe`, `MCClockProbe`, `ClockProbeProofs`)

Both ends of the data channel run `ClockProbeEngine`; the model has one engine
per role, the channel as a set of messages, and one time that both clocks are
constant distances from.  The interval callback, the timeouts and both message
handlers are actions; `history` records what `onSample` was told about each
probe.  The offset is kept doubled, as TLC has no fractions.

### Evidence files (`LiveEvidence`, `EvidenceDirectory`, `MCEvidence`, `EvidenceProofs`)

`LiveEvidence` is validation as operators: an endpoint is a record of what the
validator tells apart (role, session, window, probes, counter samples, and the
set of fields that are flawed), and `validate_live_endpoint`, `build_pair` and
the derived figures are translated check by check.  Numbers of a report that
was printed and parsed again may differ in the last place (`Reread`), since
`serde_json` is built without `float_roundtrip` and `live_pair.rs:281` compares
exactly.

`EvidenceDirectory` is the directory `pair_files` (`main.rs:168`) writes: six
files and a manifest, each first created and then filled, while a run may
be cut short at any of them (`Stop`), files may be exchanged, removed or
rehashed, and `summarize` may put its own report beside them.
`validate_live_directory` is what a reader of the directory does.

### Synthetic loopback (`SyntheticLoopback`, `PerformanceRun`, `MCSynthetic`, `SyntheticProofs`)

`SyntheticLoopback` is one run of `runSyntheticLoopback`: connecting, emitting
pulses by one timer, a detector that looks by another, correlation and the
exported record.  The connection may fail, which exports a record too; a call
of the browser that no timer bounds may reject or stay pending, and then nothing
is exported (`Reject`).  The detector gets a spectrum of four bins from the
sounds of a tick (`spectrum`) and finds energy in the band (`bandEnergy`) and
the frequency that dominates (`dominantBin`) as the code does, with a maximum
that starts at 0.  What a bin reads that sounds is a parameter, `Levels`: a
browser's analyser gives decibels, below 0, while the code and its tests expect
magnitudes; `level` is what it is in this run.  `PerformanceRun` is what the
Rust side does with the record: `validate_run`, `assess_run`,
`compute_derived_metrics`.  The two programs meet only in that record, so the
properties are about both.

### Live session (`LiveSession`, `Negotiation`, `MCLive`, `LiveSessionProofs`, `NegotiationProofs`)

`LiveSession` has one record per `LiveWebRtcSession`; an action is the code from
one await or callback to the next.  `Negotiation` holds the operators on the
fields of the record that `negotiation.ts` works on: `call` names the promise
the one running call awaits, so that a frame or a callback may come between any
two of them.  `room` and `wire` are the signaling service: its joins, refusals
and departures, and the frames on their way, in order and without overruns
(those are checked in `Signaling`).  The buttons of the panel are the actions of
`User`, with the phases in which the panel enables them.  Candidates are found
in any order with the rest; the connection comes up once both ends applied each
other's description and one knows a candidate of the other.

`stop()` is one action; what it does not cancel is left to happen afterwards,
and the set `cut` remembers which of it was there (`Uncancelled`): a microphone
asked for, a `connect()` that waits for `replaceTrack` or for the import of the
signaling client, the wait of an observation, a stream that is no longer
`localStream`.  The last comes from a second `enableMicrophone()`
(`EnableAgain`): the method does not ask whether it was called before, and the
panel's button stays enabled until a stream is there.  The two streams may
arrive in either order with everything else of the session in between; the
later one takes the earlier one's place (`SecondStreamArrives`, `spare`), and if
`connect()` has begun its track is swapped in first (`TrackSwapped`).  The stats
sampler is its loop of asking and answering per observation, with its
`stopped` flag; it ends itself when it has all its samples or had all its time,
which may be before the observation does.  The clock probes and the preflight, modelled in full in their
own modules, appear by their verdicts.

## 3. Runs: what they check and what they show

| Run | Question | Answer |
|---|---|---|
| `replication_rivals` | Is a document always the one its accepted operations call for, whatever is delivered to two replicas when, and do they agree once they accepted the same? Ten envelopes on two tracks: rival moves and deletes, a chain of three revisions, an id on two tracks, rival tracks, a note that cannot be played | yes: `DocumentFollowsLedger`, `OneEditPerRevision`, `GapsAreReal`, `FreeOrderIsSafe`, `Converged`, and the refinement `ImplementsLedger` |
| `replication_stale` | "no silent overwrite on stale revision" | violated, see Findings |
| `replication_same_note` | "Concurrent same-note edits require coordination" | violated, see Findings |
| `signaling_reload` | A peer on two sockets, next to another, all relaying and closing, channels of two | `RoomsMatchTasks`, `LostOnlyByOverrun`, `RelaysInOrder`; under fairness `GoneClientsLeave`, `DepartureIsSeen` |
| `signaling_rooms` | Three peers for the two places of a room, a namesake of one in another room, channels of one | `PresenceIsTracked`: the limit of two is what makes one boolean enough; `RelaysStayInSession` |
| `rtp_preflight` | Interventions at every await of every attempt | `SingleFlight`, `ProbingGoesOn`, `VerdictIsBacked`, `RestartIsKept`, `OnlyCurrentCounts`; under fairness `RestartIsServed`, `ProbingEnds` |
| `clock_probe` | Probing over a channel that loses, reorders and repeats, with pauses, stops and a closing channel | `VerdictComesFirst`, `OffsetIsBounded`, `TimersAreOwned`, `AnsweredOnce`; under fairness `ProbingStops` |
| `evidence_directory` | What is a directory worth that verifies, after cut-short runs and exchanged files? | `ValidMeansPaired` (it is a sound pair), `PairedVerifies` (what pairing wrote undisturbed verifies), `ManifestFixesFiles` (with the manifest kept, no changed file verifies) |
| `synthetic_loopback` | Five pulses over a path that fails, rejects, loses and delays, with another sound, in spectra of decibels or of magnitudes | `PairsInOrder`, `PassIsMeasured`; under fairness `RunEnds` |
| `synthetic_limitation` | Is a run limited by the harness because media did not reach the analyser? | violated, see Findings |
| `synthetic_zero_fill` | "Never zero-fill missing metrics." | violated, see Findings |
| `live_session` | Two peers from Prepare to stop, in every order of promises, callbacks and frames, with one failure or second click | `CandidatesAreKept`, `NegotiationsNeverOverlap`, `OneObservationPerExport`, `StopIsFinal`; under fairness `SetupCompletes` |

### Bounds, and why they are enough

- Replication: the envelope universes are finite, deliveries are not bounded.
  A rival pair, a chain of three revisions, one id on two tracks, a deletion
  followed by a new addition (`replication_stale`) and an operation of every
  refusal of the kernel are the cases its conditions tell apart.  An envelope of
  a foreign protocol version, which `ingest` refuses before anything else, is in
  none of the universes.  The proofs need no bound.
- Signaling: channels hold one or two messages instead of 32, so that overruns
  happen; each socket relays at most `MaxRelays` messages.  Four sockets are a
  full room, a reload and a refused third peer.  A socket is used once; a
  reload is another socket with the same peer id.  The proofs hold for any
  capacity of at least one and any number of sockets.
- RTP preflight: three attempts (the code's limit is larger, only reaching it
  matters) and seven generations, so that three overlapping interventions
  meet answers of two earlier generations.
- Clock probe: one peer sends two probes, the other answers; three units of
  time with a timeout of one, one repetition.  `budget` bounds the probes a
  session may ask for.  In the code both peers probe; the two directions share
  no state except the clock, and the proofs cover both at once.
- Evidence: two observations of one session, a twin with an equal summary and
  one endpoint for each kind of flaw; two runs of pairing and two edits are
  enough for the files of two pairs to be mixed and a manifest to be redone.
- Synthetic loopback: five pulses as in the code, of which four must be
  detected; the unit of time is chosen so that the interval, the cooldown, the
  length of the tone and the latency limit keep their order (`Scale` keeps the
  derived values whole); one other sound, below or above the tone.  Decibels are
  a single value, that of a sine at full scale in the analyser's window: a
  quieter one is further below 0.  `synthetic_limitation` and
  `synthetic_zero_fill` have decibels alone; with magnitudes alone
  `LimitationIsReal` is not violated.
- Live session: one session per peer.  One of them finds two candidates and
  makes up to two observations, the other finds one and makes none: observations
  of two sessions share no state.  One failure in all (a rejecting call, a path
  that goes away, an exhausted preflight) is what a reconnect during an
  observation takes; a second click on Enable Microphone counts as one
  (`MaxFaults`).  `connect()` is called once: the panel would allow it again
  after a late second stream set the phase back.

Runs that set `CHECK_DEADLOCK FALSE` describe systems that may rest: all
sockets closed, a controller with a verdict, a session that asks for no more
probes, a directory nobody writes to, a run that ended,
sessions that stopped.  Replication never rests, a delivery may always be
repeated.

### Fairness

- Signaling: weak fairness of `Serve(c)` and `Depart(c)` for every socket: the
  runtime polls every ready task, and the end of a socket is reported to its
  task by `receiver.next()` or by a failed send.  There is no heartbeat: a
  connection that dies without either report is outside the fairness, and so
  is a client that stops reading while it stays connected, for the code awaits
  `sender.send` without a limit.
- RTP preflight: weak fairness of the attempts and the retry timer: `getStats`
  settles and timers fire.  The code has no timeout around `getStats`; a call
  that never settles would hold `inFlight` and with it every restart.  One
  condition covers both because at most one of them is enabled
  (`SingleFlight`, `ProbingGoesOn`).
- Clock probe: weak fairness of the interval.  Timeouts need none: no property
  waits for one, and `stopProbes` may come first.
- Synthetic loopback: weak fairness of what timers and the code between them
  do: `Emit`, `Tick`, `StopDetector`, `Correlate`.  Nothing is assumed of the
  calls before the first pulse and after the last turn of the correlation
  (`ctx.resume`, the descriptions, `getStats`, `ctx.close`), which no timer
  bounds; `RunEnds` promises no export, only that a run which began to emit gets
  to the end of its correlation.
- Live session: weak fairness, per session, of its promises, frames and
  browser events together (`Progresses`): each of them is finite, so one
  condition is enough.  No user has to act, no fault has to happen.

## 4. What is proved

TLAPS checks the following for every value of the constants, under the
assumptions named in the modules (`ClockAssumption`, `SignalingAssumption` and
their like, all of which TLC evaluates).

- `ReplicationProofs`: `Invariance`, `TypeCorrect`, `DocumentCorrect`,
  `Convergence`, `RivalsRefused`, `GapsCorrect`, `OrderFree`, `Refinement`.  The
  invariant
  relates each document field by field to the set of accepted operations: the
  tracks to the accepted additions of tracks, each note to the additions and
  the chain of edits of its id.  Convergence is a corollary: two documents that
  the same set calls for are equal.  `OrderFree` needs no history: two
  operations that `classify` leaves alone and that are not about one note
  write different cells of a document, and neither moves the cell the other
  writes.
- `SignalingProofs`: `Invariance`, `TypeCorrect`, `RoomsCorrect`,
  `PresenceCorrect`, `LossCorrect`, `IsolationCorrect`, `OrderCorrect`.  The
  last says that a delivery makes what was last heard of a sender strictly
  larger: no relay comes out of order, and none twice.  The
  invariant adds to the checked properties that rooms have at most two members
  (without it a departure does not mean that a client is alone), that tasks
  which have not joined have nothing (so that a join starts from a clean
  slate), and that queues are addressed, sorted and newer than what was
  delivered (so that delivering from their head keeps the order).
- `RtpPreflightProofs`: `Invariance`, `TypeCorrect`, `FlightCorrect`,
  `NeverStuck`, `VerdictCorrect`, `RestartCorrect`, `StaleIgnored`.  The
  invariant adds that a retry in hand is a running timer, that tokens are never
  ahead of the generation, that program counters fit the state, and that a
  probing controller has attempts left.
- `ClockProbeProofs`: `Invariance`, `TypeCorrect`, `VerdictCorrect`,
  `OffsetCorrect`, `TimersCorrect`, `AnswersCorrect`.  The invariant adds that
  numbers in use were handed out before, that nothing was said about a pending
  probe, that an engine knows what it answered until it is stopped, and that
  the times a message carries, taken back to true time, are ordered.  The
  bound on the offset is then a lemma about four numbers
  (`EstimateIsSound`).
- `LiveSessionProofs`: `Invariance`, `StopCorrect`, `ObservationCorrect`.
  Sessions meet only in frames and paths, so the invariant is one of each
  session by itself and the lemmas follow a session's record through every
  operator of `Negotiation` and `LiveSession`.  It adds that an undisturbed
  session has at most the one observation it started last, that its samplers
  are those of a running observation, that its phase is `observing` (or
  `stopped`) meanwhile, and that no call of the negotiation is pending once a
  session stopped: without the last, a continuation of `applySignalingDescription`
  might run on a stopped session.  `StopCorrect` goes clause by clause: the
  microphone stays off unless it was asked for at the stop, a stream is left
  over only if one was asked for or left over at the stop, the socket is left
  closed unless `connect()` was under way, the phase stays unless one of these
  or an observation's wait was pending, and nothing samples unless observations
  overlapped before.
- `EvidenceProofs`: `Invariance`, `PairSound`, `UndisturbedVerifies`,
  `ManifestCorrect`, for any endpoint files of the right shape
  (`DirectoryAssumption`) and any statistics and way of printing them.  What a
  verified directory is worth does not depend on how it came about, only on
  whatever looks like an endpoint being one; that is the first part of the
  invariant.  The rest is for `UndisturbedVerifies`: as long as nobody else
  changes the directory, it holds the files the pairing has written so far.
- `NegotiationProofs`: `TalkInvariance`, `NoOverlap`, `CandidatesCorrect`,
  `SetupInvariance`, `NeverStalls`, `SetupEnds`, for any candidates, failures,
  stops and orders of callbacks, under the hypothesis `OneSessionEach`: nobody
  stops and comes back as another session of the same role (section 5 says what
  happens then).  `NegotiationsNeverOverlap` is far
  from inductive: that a session is idle when a description arrives depends on
  what the other session does and on what is on its way.  `TalkInv` follows the
  one offer: before the offerer relayed it the answerer is idle and no
  description is anywhere; then it is on the answerer's wire, or the answerer is
  in one of the three calls that answer it, or the answer is on the offerer's
  wire, never two of them and never two copies; and while it is in any of the
  three places the offerer awaits the answer or was stopped.  For candidates it
  adds that all those received are with the connection or in the buffer, that
  flush gave the connection those before its cursor, and that with one other
  session they all belong to the description that was applied: this is why
  emptying the buffer loses none.
  `SetupInvariance` and `NeverStalls` are the safety half of `SetupCompletes`.
  As long as there is no fault, no second click and no stop (`Calm`; that a
  second click is a fault is `AgainInvariance`), two peers in the room are
  ready to observe or one of them has a step of its own left: a call that
  settles, a frame to take, a candidate to find, a verdict to come
  (`CanProgress`, which restates the guards of `Progresses`).  So no setup is
  stuck with both sides waiting.  `SetupInv` adds to `TalkInv` that who is in
  the room knows of the other or is about to, before any other frame, that the
  offer, the answer and a candidate sent are on the wire, being applied or
  applied, and that the last of the parts of readiness to come sets the phase.
  `NeverStalls` also needs that some session finds a candidate at all
  (`CandidatesFound`): without one no path is ever tried.
  `SetupEnds` is the other half of the argument: `SetupWork` counts the steps
  either session has left on its path, in its calls and with its candidates,
  and three for every frame on the wires; it is a natural number and every step
  in a calm room makes it smaller.  The steps of an observation leave it as it
  is, and only the start of one, by somebody who is ready, asks for a probe
  again.
- `SyntheticProofs`: `Invariance`, `OrderKept`, `ExportsAccepted`,
  `PassesMeasured`, `DecibelsNeverPass`, `RunsAreFinite`, for any number of
  pulses and any losses, delays, noises and levels.
  The invariant adds that
  emits and peaks are in the order of time, that what is paired came before
  what is not, and that an emit passed over though it would have matched has
  its pair already: this is what keeps the greedy choice in order.
  `PassesMeasured` bounds the sum behind the mean latency by induction on the
  number of detected pulses, from the order of emits and peaks and the limit on
  each latency.  It assumes of the constants that the assessment asks for at
  least four detected pulses (`assess.rs:56`), which is as many as the browser
  asks for (`loopback.ts:474`), and that round trip times are natural numbers.
  `ExportsAccepted` says that the validator accepts every record a run exports,
  that of a failed run with its observed zeros included: it is no promise but
  the reason why finding 4 goes unnoticed.  `DecibelsNeverPass`: whatever the
  analyser reads, as long as it is nowhere above 0 no detection is accepted and
  no run passes (finding 3).
  `RunsAreFinite` is the safety half of `RunEnds`: `Work`, a natural number made
  of the pulses still to emit, the ticks still to wait and the detections still
  to correlate, gets smaller with every step, and is 0 only when the run has
  been exported or rejected.  It needs that the loop never waits beyond its
  deadline.

Left to TLC: liveness under fairness (`GoneClientsLeave`, `DepartureIsSeen`,
`RestartIsServed`, `ProbingEnds`, `ProbingStops`, `RunEnds`, `SetupCompletes`),
which needs `ENABLED` and well-founded arguments the installed provers do not
offer, and the four properties that are violated.  Of `RunEnds` only that a
run which is not over can take its next step is left to it; of `SetupCompletes`,
after `NeverStalls` and `SetupEnds`, only that a step which can be taken is.  Every
invariant and every safety property of a step that a run checks is proved.

## 5. Findings

1. A note id that is deleted and added again starts over at revision 1
   (`apply.rs:54`), and `validate.rs:32` compares nothing else.  A move made
   against the deleted note is accepted by the new one, against
   `data-contracts.md:15` ("no silent overwrite on stale revision").  Run
   `replication_stale` shows the five deliveries.
2. `classify()` calls an `AddNote` and an edit of the same note id independent
   (`echlub-collaboration/src/lib.rs:22`).  With the id on two tracks the edit
   goes to whichever track comes first, so the order decides the document,
   against `ADR-0005:9` ("Concurrent same-note edits require coordination").
   Run `replication_same_note`.
3. `dominantFrequencyHz` (`pulse-detector.ts:71`) looks for the largest value
   from 0 up, while `getFloatFrequencyData` (`loopback.ts:267`) gives decibels,
   below 0 even for a tone at full scale.  The detector finds energy in the band
   (decibels squared are large) and 0 Hz, so every detection is refused as of
   the wrong frequency, and a run whose pulses did reach the analyser is
   reported as `harness_limitation`, "decoded remote media is not exposed to
   WebAudio analysers" (`loopback.ts:191`).  Run `synthetic_limitation`;
   `DecibelsNeverPass` proves that no such run can pass.
4. A run whose connection fails exports observed zeros for the bytes and the
   packets lost (`loopback.ts:379`, `528`), against `performance-evidence.md:32`
   ("Never zero-fill missing metrics.") and
   `performance-lab-reaudit-report.md:18`.  The validator looks for a zero in
   other fields only.  Run `synthetic_zero_fill`.

Not findings of a run, but worth knowing:

- The last tick of a probing interval drops the probes still pending, so with
  three probes every 500 ms and a timeout of 5000 ms no lost probe is ever
  reported as timed out, and an answer slower than the interval is reported as
  unsolicited.  If the three warm-up probes are lost, the session never becomes
  ready.
- `getStats` without a timeout can hold the preflight controller for good.
- Only `peer_a` makes an offer, and only one (`peerNegotiationStarted` is never
  reset after a success): a peer that reloads and joins again gets none, and
  the other has to start over as well.  The rule also means that, with one
  session for each role, two offers never collide and flushes never overlap
  (`NegotiationsNeverOverlap`), so the polite and impolite branches of
  `negotiation.ts:31` are not taken.
- An answer does not say which offer it answers.  If `peer_a` stops and leaves
  after its offer and joins again as a new session while `peer_b` still awaits
  `setRemoteDescription`, `createAnswer` or `setLocalDescription`, the answer is
  relayed to the new session, which may be in the middle of its own
  `createOffer`.  TLC finds this with three sessions (two of role `peer_a`):
  `NegotiationsNeverOverlap` does not hold of them, which is why the theorems
  of `NegotiationProofs` have the hypothesis `OneSessionEach`.
- A connection that comes back during an observation sets the phase to
  `connected` (`session.ts:333`) and then to `ready_to_observe`.  A second
  observation may start; the end of the first stops the second's sampler and
  marks the session completed while the second still runs.
  A peer that joins again during an observation has the same effect.
  `OneObservationPerExport` excepts these cases (`disturbed`).
- `stop()` does not cancel `getUserMedia`, `replaceTrack`, the import of the
  signaling client or the wait of an observation.  A microphone may be opened
  afterwards, a client may take the peer's place in the room without a session,
  and the phase of a stopped session may change again.  Each clause of
  `StopIsFinal` excepts the one of these that it is about, if it was pending at
  the stop (`cut`), and no other.
- A second click on Enable Microphone before the first stream is there opens two
  streams; `localStream` is the later one, and `stop()` leaves the other open.
  The second call also sets the phase to `microphone_ready` when it ends, be the
  session connecting, ready or observing by then: nothing but a new callback or
  click brings the phase forward again.
- If `setRemoteDescription` rejects an answer, `isSettingRemoteAnswerPending`
  stays true and the peer is never ready.
- A synthetic run that rejects (`ctx.resume`, the descriptions, `getStats`)
  closes neither its connections nor its audio context: that code is not in a
  `finally`.
- Were the detector given magnitudes, a pulse of 100 ms would be over its
  threshold for longer than the cooldown of 80 ms and be reported twice, and the
  second report could be matched with a neighbouring pulse that was lost
  (`pulse-detector.ts:136`).
- A snake_case endpoint passes `validate` but is refused by pairing, whose
  structures only know camelCase.

## 6. Assumptions and what is left out

- Replication: no transport connects replicas in this repository, so the model
  promises nothing about delivery.  The canonical encoding and the hash are
  left out; convergence compares the documents themselves.
- Signaling: frames that fail `validate_relay_envelope` only cause an error
  frame to their sender and are left out with the error frames; payloads are
  the number of the relay.
- RTP preflight: `onUpdate` does not throw.  The session's callback does not;
  if it did in the failure branch (`stats-preflight.ts:344`), no retry would
  follow.  Report shapes and wall-clock diagnostics are left out.
- Clock probe: the clocks differ by a constant (both are monotonic).  Under
  that assumption no answer is ever judged invalid; the branch is in the model
  and the proof shows it is not reached.  Malformed, foreign and oversized
  messages, which no end running this code sends, are left out.
- Evidence: checksums are equal for equal contents only; the wording of reports
  and the scan for forbidden content (`live_privacy.rs`) are left out.
- Synthetic loopback: the spectrum has four bins, each silent or at one level,
  and the band around the tone is one bin; the audio graph, leakage between bins
  and the smoothing of the analyser are left out.  That
  `getFloatFrequencyData` gives decibels is Web Audio's definition.  Timers are
  exact to a tick.
- Live session: each role has one session (`OneSessionEach`).  A second session
  of a role may overlap calls of the negotiation (section 5), and `Negotiation`
  keeps one call per session.  Connection and ICE state change together; the remote audio
  track is there from the first evaluation on, as a receiver has one from the
  start; ICE candidates of the description a peer holds are accepted; the
  software commit is configured.  The user clicks Enable Microphone at most
  twice and Connect once.  The exported record and its minimum counts are left out.

Not modelled, and why:

- WASM facade: one local replica over the modelled kernel, connected to nothing.
- Normalisation of stats reports (`stats-sampler.ts` except the sampler's loop):
  a function of one report and the one before it.
- Harnesses and scripts: browser automation and process launching.
- HTTP routes and configuration, views, audio rendering: stateless or pure I/O.
- Protocol and session types: no behaviour.

## 7. Plan

Done, in this order: Replication, Signaling, RtpPreflight, ClockProbe,
LiveEvidence and EvidenceDirectory, PerformanceRun and SyntheticLoopback,
Negotiation and LiveSession.  Left:

1. A peer that joins again: several sessions of a role in `LiveSession`, each
   with a set of calls that have not returned.
2. `WebCore` (`core.rs`): numbering of refused operations, shown to implement
   `OperationLedger`.
3. The counter differences of `stats-sampler.ts` against a reference definition.
4. For the liveness of `RtpPreflight` and `ClockProbe`, a number that every step
   makes smaller, as `SetupWork` and `Work` are for their modules.
