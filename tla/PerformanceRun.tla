--------------------------- MODULE PerformanceRun ---------------------------
(***************************************************************************)
(* The record of a synthetic run (schema.rs): when it is accepted          *)
(* (validate.rs), when it passes as an observation (assess.rs) and what is *)
(* derived from it (derived.rs).                                           *)
(*                                                                         *)
(* A run is a record with its metrics under their own names.  Fields that  *)
(* must hold one particular value are kept together: flaws is the set of   *)
(* those that do not.  Times and rates are counted in fractions of Scale.  *)
(***************************************************************************)
EXTENDS Integers

CONSTANTS
    Scale,                \* how many units a millisecond, or a rate of 1, has
    MinEmitted,           \* MIN_PULSES_EMITTED
    MinDetected,          \* MIN_PULSES_DETECTED
    Null                  \* no value

ASSUME RunAssumption == Scale \in Nat \ {0} /\ MinEmitted \in Nat /\ MinDetected \in Nat

-----------------------------------------------------------------------------
(* MetricValue                                                             *)

Observed(v) == [kind |-> "observed", value |-> v]
Unavailable == [kind |-> "unavailable", value |-> Null]
Unsupported == [kind |-> "unsupported", value |-> Null]
Invalid     == [kind |-> "invalid", value |-> Null]

\* observed_value(), Null for None.
Value(m) == IF m.kind = "observed" THEN m.value ELSE Null

TimingFields == {"pulseEmitMs", "pulseDetectMs", "loopbackLatencyMs",
                 "datachannelRttMs", "iceGatheringMs", "connectionSetupMs"}
PulseFields == {"pulsesEmitted", "pulsesDetected", "detectionRate",
                "meanDetectionLatencyMs", "jitterMs"}
TransportFields == {"candidatePairType", "bytesSent", "bytesReceived", "packetsLost"}
Metrics == TimingFields \cup PulseFields \cup TransportFields

-----------------------------------------------------------------------------
(* Validation                                                              *)

\* These may not be zero in a run that detected nothing.
Suspicious == {"pulseDetectMs", "loopbackLatencyMs", "meanDetectionLatencyMs", "jitterMs"}

\* Content or keys that are forbidden, the head of the document, and (last) a
\* field PerformanceRunV1 cannot be read without.
RunFields == {"content", "evidenceLevel", "evidenceStatus", "schemaVersion"}
ReadFields == {"structure"}

check_zero_filled_metrics(run) ==
    \A f \in Metrics : run[f].kind = "unavailable" => run[f].value = Null

Positive(v) == v # Null /\ v > 0

check_failed_path_zero_observed(run) ==
    \/ Positive(run.pulsesDetected.value)
    \/ \A f \in Suspicious : run[f] # Observed(0)

validate_run(run) ==
    /\ run.flaws \cap RunFields = {}
    /\ check_zero_filled_metrics(run)
    /\ check_failed_path_zero_observed(run)

parse_and_validate(run) == validate_run(run) /\ run.flaws \cap ReadFields = {}

-----------------------------------------------------------------------------
(* Assessment                                                              *)

AtLeast(m, least) == Value(m) # Null /\ Value(m) >= least

\* Detected / emitted and the stated rate differ by 0.01 at most.
RateConsistent(run) ==
    LET emitted == Value(run.pulsesEmitted)
        detected == Value(run.pulsesDetected)
        rate == Value(run.detectionRate)
    IN  emitted # Null /\ detected # Null =>
            /\ detected <= emitted
            /\ emitted > 0 =>
                  /\ rate # Null
                  /\ 100 * (rate * emitted - Scale * detected) <= Scale * emitted
                  /\ 100 * (Scale * detected - rate * emitted) <= Scale * emitted

\* Only runs of the synthetic media path are assessed, others pass.
assess_run(run) ==
    run.level = "browser_synthetic_media_path" =>
        /\ AtLeast(run.pulsesEmitted, MinEmitted)
        /\ AtLeast(run.pulsesDetected, MinDetected)
        /\ Value(run.detectionRate) # Null
        /\ 10 * Value(run.detectionRate) >= 8 * Scale
        /\ RateConsistent(run)
        /\ Positive(Value(run.bytesReceived))
        /\ run.startedAt # Null /\ run.completedAt # Null => run.startedAt < run.completedAt
        /\ Value(run.pulseEmitMs) # Null /\ Value(run.pulseDetectMs) # Null =>
              Value(run.pulseEmitMs) <= Value(run.pulseDetectMs)
        /\ Value(run.loopbackLatencyMs) # Null => Value(run.loopbackLatencyMs) >= 0

assess_synthetic_observation(run) == parse_and_validate(run) /\ assess_run(run)

-----------------------------------------------------------------------------
(* Derived metrics                                                         *)

\* setup.map(observed), or unavailable.
ObservedOr(v) == IF v = Null THEN Unavailable ELSE Observed(v)

compute_derived_metrics(run) ==
    LET loopback == Value(run.loopbackLatencyMs)
        setup == Value(run.connectionSetupMs)
        rtt == Value(run.datachannelRttMs)
        detected == Positive(Value(run.pulsesDetected))
    IN  [endToEndSyntheticMs |->
            IF ~ detected \/ loopback = Null THEN Unavailable
            ELSE Observed(loopback + (IF setup = Null THEN 0 ELSE setup)),
         setupToFirstPulseMs |-> ObservedOr(setup),
         datachannelOverheadMs |->
            CASE ~ detected \/ loopback = Null -> Unavailable
              [] detected /\ loopback # Null /\ rtt = Null -> Observed(loopback)
              [] OTHER -> IF loopback >= rtt THEN Observed(loopback - rtt) ELSE Invalid]
=============================================================================
