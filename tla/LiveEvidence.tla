---------------------------- MODULE LiveEvidence ----------------------------
(***************************************************************************)
(* The evidence of a live observation: when an endpoint file is accepted   *)
(* (live_validate.rs, live_clock.rs) and what two of them are paired into  *)
(* (live_pair.rs, live_derived.rs).                                        *)
(*                                                                         *)
(* An endpoint is a record.  Fields that must hold one particular value    *)
(* (or a value of one form) are kept together: flaws is the set of those   *)
(* that do not.  Windows, probes, statistics and counters are kept as they *)
(* are, in whole milliseconds; offsets of clocks are doubled.  numbers     *)
(* stands for the fractions the averages and medians are computed from.    *)
(* Tenth, the milliseconds in the tenth of a second a report shows, and    *)
(* the other bounds are parameters.                                        *)
(***************************************************************************)
EXTENDS Integers, Sequences, FiniteSets

CONSTANTS
    MinStats, MaxStats,   \* MIN_STATS_SAMPLES, MAX_STATS_SAMPLES
    MinProbes,            \* MIN_CLOCK_PROBES
    MaxDuration,          \* MAX_DURATION_SECONDS
    ClockEpsilon,         \* CLOCK_METRIC_EPSILON_MS
    Tenth,                \* the unit of time in report.md
    Numbers,              \* the fractions in a document
    Derive,               \* what the statistics of a fraction are
    ReadBack,             \* a fraction after it was printed and parsed again
    Null                  \* a field without a value

ASSUME EvidenceAssumption ==
    /\ MinStats \in Nat /\ MaxStats \in Nat /\ MinProbes \in Nat
    /\ MaxDuration \in Nat /\ ClockEpsilon \in Nat /\ Tenth \in Nat \ {0}
    /\ Derive \in [Numbers -> Numbers] /\ ReadBack \in [Numbers -> Numbers]

Roles == {"peer_a", "peer_b"}

opposite_peer_role == [r \in Roles |-> IF r = "peer_a" THEN "peer_b" ELSE "peer_a"]

\* A counter: where it was read (Null when the object is missing or empty) and
\* the packets counted, if there is a number.
Counters == [source : {Null, "rtp_audio", "other"}, packets : {Null} \cup Nat]

LiveStatsSampleV1 == [at : Int, inbound : Counters, outbound : Counters]

LiveClockProbeSampleV1 ==
    [from : Roles, to : {Null} \cup Roles, answered : BOOLEAN, version : Int,
     t : [1..4 -> Int], rtt : {Null} \cup Int, offset : {Null} \cup Int]

-----------------------------------------------------------------------------
(* Clock probes: from and to are requester and responder, answered tells   *)
(* that none of timeout, duplicate, unsolicited and invalid is set and an  *)
(* rttMs is present, t holds t0..t3, rtt and offset are the stored values. *)

RoundTrip(t) == (t[4] - t[1]) - (t[3] - t[2])
TwiceOffset(t) == (t[2] - t[1]) + (t[3] - t[4])

\* compute_cross_device_clock_metrics() returns a value.
Measurable(t) == t[4] >= t[1] /\ t[3] >= t[2] /\ RoundTrip(t) >= 0

Within(x, y, d) == x - y <= d /\ y - x <= d

stored_clock_metrics_consistent(p) ==
    /\ Measurable(p.t)
    /\ p.rtt >= 0
    /\ Within(p.rtt, RoundTrip(p.t), ClockEpsilon)
    /\ p.offset # Null => Within(p.offset, TwiceOffset(p.t), 2 * ClockEpsilon)

is_valid_completed_local_probe(p, role) ==
    /\ p.from = role
    /\ p.answered
    /\ p.version = 1
    /\ p.to = opposite_peer_role[role]
    /\ stored_clock_metrics_consistent(p)

ValidProbes(e) ==
    {i \in DOMAIN e.probes : is_valid_completed_local_probe(e.probes[i], e.role)}

validate_clock_probe_samples(e) ==
    \A i \in DOMAIN e.probes : LET p == e.probes[i] IN
        p.answered /\ p.from = e.role =>
            /\ p.to = opposite_peer_role[e.role]
            /\ stored_clock_metrics_consistent(p)

-----------------------------------------------------------------------------
(* Statistics: every sample has its offset in the observation (at) and a   *)
(* counter for either direction.                                           *)

Directions == {"inbound", "outbound"}

validate_stats_samples(stats, span) ==
    \A i \in DOMAIN stats :
        /\ stats[i].at \in 0..span
        /\ i > 1 => stats[i - 1].at < stats[i].at

validate_audio_counter_provenance(stats) ==
    \A i \in DOMAIN stats : \A d \in Directions :
        stats[i][d].source \in {"rtp_audio", Null}

\* The samples in which direction d was counted by the audio stream.
Counted(stats, d) ==
    {i \in DOMAIN stats : stats[i][d].source = "rtp_audio" /\ stats[i][d].packets # Null}

\* Mutant: counters that stand still will do.
has_direction_rtp_audio_progressionStill(stats, d) ==
    \E i, j \in Counted(stats, d) :
        i < j /\ stats[i][d].packets <= stats[j][d].packets

\* Only the first and the last of them are compared.
has_direction_rtp_audio_progression(stats, d) ==
    \E i, j \in Counted(stats, d) :
        /\ \A k \in Counted(stats, d) : i <= k /\ k <= j
        /\ stats[i][d].packets < stats[j][d].packets

-----------------------------------------------------------------------------
(* Validation of an endpoint.                                              *)

\* Forbidden content or keys, and the head of the document.
HeadFields == {"content", "schemaVersion", "evidenceLevel", "evidenceStatus",
               "peerRole", "sessionCorrelationId", "limitations"}

\* What only a finalized document has to satisfy.
FinalFields == {"exportKind", "softwareCommit", "timestamps",
                "peerConnectionState", "iceConnectionState", "signalingState",
                "readyState", "remoteAudioTrackReceived",
                "remoteAudioTrackReadyState"}

\* A field of LiveEndpointObservationV1 is missing under its own name (the
\* validation also knows the names in snake case, the type does not).
StructFields == {"structure"}

\* What an endpoint file may be: a record with these fields.
LiveEndpointObservationV1(e) ==
    /\ DOMAIN e = {"kind", "role", "session", "commit", "run", "start", "end",
                   "flaws", "numbers", "probes", "stats"}
    /\ e.kind = "endpoint"
    /\ e.role \in Roles
    /\ e.start \in Nat /\ e.end \in Nat
    /\ e.flaws \subseteq HeadFields \cup FinalFields \cup StructFields
    /\ e.numbers \in Numbers
    /\ e.probes \in Seq(LiveClockProbeSampleV1)
    /\ \A i \in DOMAIN e.probes : e.probes[i].answered => e.probes[i].rtt # Null
    /\ e.stats \in Seq(LiveStatsSampleV1)

validate_finalized_requirements(e) ==
    /\ e.flaws \cap FinalFields = {}
    /\ e.start < e.end
    /\ e.end - e.start <= MaxDuration
    /\ validate_stats_samples(e.stats, e.end - e.start)
    /\ Cardinality(ValidProbes(e)) >= MinProbes
    /\ validate_clock_probe_samples(e)
    /\ Len(e.stats) \in MinStats..MaxStats
    /\ validate_audio_counter_provenance(e.stats)
    /\ \A d \in Directions : has_direction_rtp_audio_progression(e.stats, d)

validate_live_endpoint(e, finalized) ==
    /\ e.flaws \cap HeadFields = {}
    /\ finalized => validate_finalized_requirements(e)

parse_and_validate_live_endpoint(e, finalized) ==
    /\ validate_live_endpoint(e, finalized)
    /\ e.flaws \cap StructFields = {}

-----------------------------------------------------------------------------
(* Pairing.  Documents made by the pairing carry the kind of file they     *)
(* are; ids are left out, they are functions of the correlation id.        *)

\* The summary of one endpoint: the clock as its valid probes measured it,
\* and the statistics.
compute_live_endpoint_derived(e) ==
    [kind  |-> "summary",
     clock |-> {<<RoundTrip(e.probes[i].t), TwiceOffset(e.probes[i].t)>> :
                    i \in ValidProbes(e)},
     numbers |-> Derive[e.numbers]]

Later(x, y) == IF x >= y THEN x ELSE y
Earlier(x, y) == IF x <= y THEN x ELSE y

compute_overlap_seconds(a, b) ==
    Later(Earlier(a.end, b.end) - Later(a.start, b.start), 0)

\* pair_live_endpoints() succeeds.
Pairable(a, b) ==
    /\ parse_and_validate_live_endpoint(a, TRUE)
    /\ parse_and_validate_live_endpoint(b, TRUE)
    /\ a.role = "peer_a"
    /\ b.role = "peer_b"
    /\ a.run # b.run
    /\ a.session = b.session
    /\ a.commit = b.commit
    /\ compute_overlap_seconds(a, b) > 0

build_pair(a, b) ==
    [kind    |-> "pair",
     session |-> a.session,
     commit  |-> a.commit,
     runs    |-> <<a.run, b.run>>,
     overlap |-> compute_overlap_seconds(a, b),
     numbers |-> <<Derive[a.numbers], Derive[b.numbers]>>,
     clocks  |-> <<compute_live_endpoint_derived(a).clock,
                   compute_live_endpoint_derived(b).clock>>]

build_pair_report(a, b) ==
    [kind    |-> "report",
     session |-> a.session,
     commit  |-> a.commit,
     overlap |-> (compute_overlap_seconds(a, b) + Tenth \div 2) \div Tenth]

-----------------------------------------------------------------------------
(* A document after it was written to a file and read again.               *)

Reread(doc) ==
    CASE doc.kind = "endpoint" \/ doc.kind = "summary" ->
            [doc EXCEPT !.numbers = ReadBack[@]]
      [] doc.kind = "pair" ->
            [doc EXCEPT !.numbers = <<ReadBack[@[1]], ReadBack[@[2]]>>]
      [] OTHER -> doc
=============================================================================
