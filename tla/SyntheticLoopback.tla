-------------------------- MODULE SyntheticLoopback --------------------------
(***************************************************************************)
(* A synthetic run in one browser (loopback.ts, pulse-detector.ts): two    *)
(* connections in one page, five tone pulses sent over them, a detector on *)
(* what arrives, and the record the run is exported as.                    *)
(*                                                                         *)
(* The network may fail, lose pulses and delay them, and the page may hear *)
(* something else.  Time is counted in ticks, a tick being an occasion for *)
(* the detector to look; delays of timers below a tick are not seen.       *)
(*                                                                         *)
(* An analyser's spectrum has four bins here, the tone being in the third. *)
(* What a bin reads is a parameter: the browser's analyser gives decibels, *)
(* negative even for the loudest tone, where the code and its tests expect *)
(* magnitudes, zero for silence and positive for a sound.                  *)
(***************************************************************************)
EXTENDS PerformanceRun, SequencesExt, FiniteSetsExt

CONSTANTS
    Pulses,               \* PULSE_COUNT
    Interval, Settle,     \* ticks from pulse to pulse, and after the last one
    Tone,                 \* for how many ticks a pulse is heard: its length
                          \* and that of the analyser's window
    Cooldown,             \* peakCooldownMs: a new peak comes later than this
    MaxLatency,           \* maxCorrelationLatencyMs
    Delays, Lost,         \* what becomes of a pulse on its way
    Rtts,                 \* round trip times of the data channel
    MaxNoise,             \* how many ticks have another sound
    Levels, Silence       \* what a bin may read that sounds, and one that does not

VARIABLES
    phase,      \* "connecting", "emitting", "correlating", "done" or
                \* "rejected": the promise of the run was
    clock,
    emits,      \* pulseEmitTimes
    arrivals,   \* of every pulse: its delay, or Lost
    noises,     \* ticks with another sound so far
    lastPeakAt,
    detections, \* rawDetections: when, and whether at the target frequency;
                \* those not correlated yet
    pairs,      \* the pairs correlatePulseSequence() has found so far
    remote,     \* there is a remote stream
    rtt,        \* dcRtt
    result,     \* the exported run and the outcome
    level       \* what a bin reads that sounds, in this browser

vars == <<phase, clock, emits, arrivals, noises, lastPeakAt, detections, pairs, remote, rtt, result, level>>

\* Times are whole ticks, there is a pulse, no value is not a number, and the
\* assessment asks for no fewer pulses than PathOk does.
ASSUME SyntheticAssumption ==
    /\ Pulses \in Nat \ {0}
    /\ Interval \in Nat /\ Settle \in Nat /\ Cooldown \in Nat /\ MaxLatency \in Nat
    /\ Rtts \subseteq Nat
    /\ Levels \subseteq Int /\ Silence \in Int
    /\ MinDetected >= 4
    /\ Null \notin Int

-----------------------------------------------------------------------------
(* pulse-detector.ts                                                       *)

Bins == 0..3
TargetBin == 2

\* bandEnergyNearFrequency(): the band around the tone is its bin.
bandEnergy(mags) == mags[TargetBin] * mags[TargetBin]

\* dominantFrequencyHz(), as a bin: the first of the largest that is more than
\* nothing, and bin 0 (0 Hz) if none is.
dominantBin(mags) ==
    LET above == {b \in Bins \ {0} : mags[b] > 0}
    IN  IF above = {} THEN 0
        ELSE Min({b \in above : \A c \in above : mags[c] <= mags[b]})

\* The emits a detection at d may belong to.
Matching(d) == {i \in DOMAIN emits : d >= emits[i] /\ d - emits[i] <= MaxLatency}

\* classifyDetection() = "accepted".
Accepted(d) ==
    /\ emits # <<>> /\ d.at >= emits[1]
    /\ d.tuned
    /\ \A i \in DOMAIN pairs : d.at - pairs[i].at >= Cooldown
    /\ Matching(d.at) # {}

\* Mutant: an emit may be matched again.
FreeAgain(d) == Matching(d)

\* The emits it may still be matched with.
Free(d) == {i \in Matching(d) : \A k \in DOMAIN pairs : pairs[k].index # i}

\* computeDetectionStats(): the latencies are added up one by one; jitter is
\* Null for one pair, and otherwise only whether it is zero is kept.
LatencySum(ps) ==
    LET sum[n \in 0..Len(ps)] == IF n = 0 THEN 0 ELSE sum[n - 1] + ps[n].latency
    IN  sum[Len(ps)]

Mean(ps) == (Scale * LatencySum(ps)) \div Len(ps)
Spread(ps) ==
    IF Len(ps) = 1 THEN Null
    ELSE IF \A i, j \in DOMAIN ps : ps[i].latency = ps[j].latency THEN 0 ELSE 1

-----------------------------------------------------------------------------
(* loopback.ts                                                             *)

\* buildFailureResult()
FailedRun ==
    [outcome |-> "connection_failed", live |-> FALSE, emit |-> Null, pairs |-> <<>>,
     emitted |-> 0, rtt |-> Null, setup |-> Null, bytes |-> 0]

\* What runSyntheticLoopback() returns, bytes having come in.
FinishedRun(bytes) ==
    [outcome |-> IF pairs = <<>> THEN "harness_limitation" ELSE "pass",
     live |-> bytes > 0 /\ remote,
     emit |-> emits[1], pairs |-> pairs, emitted |-> Pulses,
     rtt |-> rtt, setup |-> 1, bytes |-> bytes]

\* Mutant: one pulse more is asked for.
PathOkStrict(r) == r.outcome = "pass" /\ r.live /\ Len(r.pairs) > 4

PathOk(r) == r.outcome = "pass" /\ r.live /\ Len(r.pairs) >= 4

\* metricOrUnavailable() of a time, in fractions.
Time(v) == IF v = Null THEN Unavailable ELSE Observed(Scale * v)

IfPathOk(r, m) == IF PathOk(r) THEN m ELSE Unavailable

\* buildPerformanceRunDraft()
buildPerformanceRunDraft(r) ==
    [flaws |-> {}, level |-> "browser_synthetic_media_path",
     startedAt |-> 0, completedAt |-> clock,
     pulseEmitMs |-> Time(r.emit),
     pulseDetectMs |-> IfPathOk(r, Time(r.pairs[1].at)),
     loopbackLatencyMs |-> IfPathOk(r, Observed(Mean(r.pairs))),
     datachannelRttMs |-> Time(r.rtt),
     iceGatheringMs |-> Time(r.setup),
     connectionSetupMs |-> Time(r.setup),
     pulsesEmitted |-> Observed(r.emitted),
     pulsesDetected |-> Observed(Len(r.pairs)),
     detectionRate |-> Observed(IF r.emitted = 0 THEN 0
                                ELSE (Scale * Len(r.pairs)) \div r.emitted),
     meanDetectionLatencyMs |-> IfPathOk(r, Observed(Mean(r.pairs))),
     jitterMs |-> IfPathOk(r, ObservedOr(Spread(r.pairs))),
     candidatePairType |-> Unsupported,
     bytesSent |-> Observed(0),
     bytesReceived |-> Observed(r.bytes),
     packetsLost |-> Observed(0)]

Export(r) ==
    /\ phase' = "done"
    /\ result' = [outcome |-> r.outcome, run |-> buildPerformanceRunDraft(r)]

Init ==
    /\ phase = "connecting"
    /\ clock = 1 /\ emits = <<>> /\ arrivals = <<>> /\ noises = 0
    /\ lastPeakAt = -Cooldown - 1 /\ detections = <<>> /\ pairs = <<>>
    /\ remote = FALSE /\ rtt = Null
    /\ result = Null /\ level \in Levels

\* The connection fails, or is not there in time.
Fail ==
    /\ phase = "connecting"
    /\ Export(FailedRun)
    /\ UNCHANGED <<clock, emits, arrivals, noises, lastPeakAt, detections, pairs, remote, rtt, level>>

\* It is there: the pong and the track come or do not, and what the waits
\* found decides whether a detector is started.
Connect ==
    /\ phase = "connecting"
    /\ phase' = "emitting"
    /\ remote' \in BOOLEAN
    /\ rtt' \in Rtts \cup {Null}
    /\ UNCHANGED <<clock, emits, arrivals, noises, lastPeakAt, detections, pairs, result, level>>

\* When the next pulse is due; the wait is measured from the last one.
Due == IF emits = <<>> THEN clock ELSE Last(emits) + Interval

Emit ==
    /\ phase = "emitting"
    /\ Len(emits) < Pulses
    /\ clock >= Due
    /\ emits' = Append(emits, clock)
    /\ \E d \in Delays \cup {Lost} : arrivals' = Append(arrivals, d)
    /\ UNCHANGED <<phase, clock, noises, lastPeakAt, detections, pairs, remote, rtt, result, level>>

Audible(t) ==
    \E i \in DOMAIN emits : arrivals[i] # Lost /\ t - emits[i] - arrivals[i] \in 0..(Tone - 1)

\* The bins that sound: that of the tone, and those of other sounds.
Sounding(t, noise) == noise \cup IF Audible(t) THEN {TargetBin} ELSE {}

\* getFloatFrequencyData()
spectrum(sounding) == [b \in Bins |-> IF b \in sounding THEN level ELSE Silence]

\* The detector looks: a peak long enough after the last one is recorded, with
\* the frequency that dominates, if there is energy in the band.
Look(t, noise) ==
    LET mags == spectrum(Sounding(t, noise))
    IN  IF /\ remote /\ Sounding(t, noise) # {}
           /\ bandEnergy(mags) > 0
           /\ t - lastPeakAt > Cooldown
        THEN /\ lastPeakAt' = t
             /\ detections' = Append(detections, [at |-> t, tuned |-> dominantBin(mags) = TargetBin])
        ELSE UNCHANGED <<lastPeakAt, detections>>

Tick ==
    /\ phase = "emitting"
    /\ clock < Due + (IF Len(emits) < Pulses THEN 0 ELSE Settle)
    /\ clock' = clock + 1
    /\ \E noise \in {{}, {1}, {3}} :
        /\ noise # {} => noises < MaxNoise
        /\ noises' = IF noise # {} THEN noises + 1 ELSE noises
        /\ Look(clock + 1, noise)
    /\ UNCHANGED <<phase, emits, arrivals, pairs, remote, rtt, result, level>>

\* The detector is stopped.
StopDetector ==
    /\ phase = "emitting"
    /\ Len(emits) = Pulses /\ clock >= Due + Settle
    /\ phase' = "correlating"
    /\ UNCHANGED <<clock, emits, arrivals, noises, lastPeakAt, detections, pairs, remote, rtt, result, level>>

\* Mutant: the loop stays at a detection it cannot place.
CorrelateStuck ==
    /\ phase = "correlating"
    /\ detections # <<>>
    /\ LET at == Head(detections).at
           first == Min(Free(at))
       IN  /\ Accepted(Head(detections)) /\ Free(at) # {}
           /\ detections' = Tail(detections)
           /\ pairs' = Append(pairs, [index |-> first, at |-> at,
                                      latency |-> at - emits[first]])
    /\ UNCHANGED <<phase, clock, emits, arrivals, noises, lastPeakAt, remote, rtt, result, level>>

\* One turn of the loop: the detection belongs to the first emit that still
\* has none.  (The detections are in the order of time already.)
Correlate ==
    /\ phase = "correlating"
    /\ detections # <<>>
    /\ detections' = Tail(detections)
    /\ LET at == Head(detections).at
           first == Min(Free(at))
       IN  pairs' = IF Accepted(Head(detections)) /\ Free(at) # {}
                    THEN Append(pairs, [index |-> first, at |-> at,
                                        latency |-> at - emits[first]])
                    ELSE pairs
    /\ UNCHANGED <<phase, clock, emits, arrivals, noises, lastPeakAt, remote, rtt, result, level>>

\* The bytes are read: pulses that were heard came in bytes.
Finish ==
    /\ phase = "correlating"
    /\ detections = <<>>
    /\ \E bytes \in {0, 1} :
        /\ pairs # <<>> => bytes > 0
        /\ Export(FinishedRun(bytes))
    /\ UNCHANGED <<clock, emits, arrivals, noises, lastPeakAt, detections, pairs, remote, rtt, level>>

\* A call of the browser that has no timer rejects: resuming or closing the
\* audio context, the descriptions, the statistics, the detector's source.  The
\* caller shows the error; nothing is exported, and nothing is closed.
Reject ==
    /\ phase = "connecting" \/ (phase = "correlating" /\ detections = <<>>)
    /\ phase' = "rejected"
    /\ UNCHANGED <<clock, emits, arrivals, noises, lastPeakAt, detections, pairs, remote, rtt, result, level>>

Next == Fail \/ Connect \/ Emit \/ Tick \/ StopDetector \/ Correlate \/ Finish \/ Reject

\* Timers fire and the code between them runs.  Nothing is assumed of the calls
\* before the first pulse and after the last turn of the loop: they have no
\* timer, and may stay pending.
Spec == Init /\ [][Next]_vars /\ WF_vars(Emit \/ Tick \/ StopDetector \/ Correlate)

-----------------------------------------------------------------------------
(* Properties                                                              *)

\* Pulses are recognised in the order they were emitted, each at most once, by
\* detections that follow each other in time, each within the time allowed
\* (correlatePulseSequence, pulse-detector.ts:120).
PairsInOrder ==
    \A i \in DOMAIN pairs :
        /\ pairs[i].at - emits[pairs[i].index] = pairs[i].latency
        /\ pairs[i].latency \in 0..MaxLatency
        /\ \A j \in 1..(i - 1) : pairs[j].index < pairs[i].index /\ pairs[j].at < pairs[i].at

\* A run that passes the assessment passed in the browser too, and has the
\* measurements a baseline is made of: latencies observed and in range, and
\* derived values that agree with them.
PassIsMeasured ==
    phase = "done" /\ assess_synthetic_observation(result.run) =>
        LET run == result.run
            derived == compute_derived_metrics(run)
        IN  /\ result.outcome = "pass"
            /\ run.pulseEmitMs.kind = "observed" /\ run.pulseDetectMs.kind = "observed"
            /\ run.loopbackLatencyMs.kind = "observed"
            /\ run.loopbackLatencyMs.value \in 0..(Scale * MaxLatency)
            /\ derived.endToEndSyntheticMs.value =
                  run.loopbackLatencyMs.value + run.connectionSetupMs.value
            /\ derived.datachannelOverheadMs.kind = "invalid"
               \/ derived.datachannelOverheadMs.value \in 0..run.loopbackLatencyMs.value

\* A run that begins to emit sends every pulse, stops its detector and
\* classifies every detection (loopback.ts:147-163).
RunEnds == phase = "emitting" ~> phase = "correlating" /\ detections = <<>>

\* A run that received media is reported as limited by the harness, because
\* decoded media does not reach the analyser (loopback.ts:191), only if none did:
\* the detector recorded no peak after the first pulse.
LimitationIsReal ==
    /\ phase = "done" /\ result.outcome = "harness_limitation"
    /\ remote /\ Positive(Value(result.run.bytesReceived))
    => lastPeakAt < emits[1]

\* A run that failed before anything was sent exports no transport figure as
\* observed (loopback.ts:379).
MissingIsUnavailable ==
    phase = "done" /\ emits = <<>> =>
        \A f \in {"bytesSent", "bytesReceived", "packetsLost"} : result.run[f].kind # "observed"
=============================================================================
