--------------------------- MODULE EvidenceProofs ---------------------------
(***************************************************************************)
(* Proofs about EvidenceDirectory, for any endpoint files, any number of   *)
(* pairings and any number of changes by others: what a directory that     *)
(* verifies is worth, that undisturbed pairing verifies, and that a        *)
(* manifest fixes the files.                                               *)
(***************************************************************************)
EXTENDS EvidenceDirectory, FiniteSetTheorems, WellFoundedInduction, TLAPS

-----------------------------------------------------------------------------
(* Endpoints, written and read again                                       *)

\* Of an endpoint only the fractions change.
LEMMA RereadEndpoint ==
    ASSUME NEW e, LiveEndpointObservationV1(e)
    PROVE  /\ LiveEndpointObservationV1(Reread(e))
           /\ Reread(e).role = e.role /\ Reread(e).session = e.session
           /\ Reread(e).commit = e.commit /\ Reread(e).run = e.run
           /\ Reread(e).start = e.start /\ Reread(e).end = e.end
           /\ Reread(e).flaws = e.flaws
           /\ Reread(e).probes = e.probes /\ Reread(e).stats = e.stats
           /\ Reread(e).numbers = ReadBack[e.numbers]
<1> DEFINE y == [e EXCEPT !.numbers = ReadBack[@]]
<1>1. Reread(e) = y
  BY DEF Reread, LiveEndpointObservationV1
<1>2. /\ DOMAIN y = DOMAIN e /\ y.kind = e.kind
      /\ y.role = e.role /\ y.session = e.session
      /\ y.commit = e.commit /\ y.run = e.run
      /\ y.start = e.start /\ y.end = e.end /\ y.flaws = e.flaws
      /\ y.probes = e.probes /\ y.stats = e.stats
      /\ y.numbers = ReadBack[e.numbers]
  BY DEF LiveEndpointObservationV1
<1> HIDE DEF y
<1>3. y.numbers \in Numbers
  BY <1>2, EvidenceAssumption DEF LiveEndpointObservationV1
<1>4. LiveEndpointObservationV1(y)
  BY <1>2, <1>3 DEF LiveEndpointObservationV1
<1> QED  BY <1>1, <1>2, <1>4

\* Validation does not look at them.
LEMMA RereadVerdict ==
    ASSUME NEW e, LiveEndpointObservationV1(e)
    PROVE  /\ ValidProbes(Reread(e)) = ValidProbes(e)
           /\ validate_live_endpoint(Reread(e), TRUE)
                  <=> validate_live_endpoint(e, TRUE)
           /\ parse_and_validate_live_endpoint(Reread(e), TRUE)
                  <=> parse_and_validate_live_endpoint(e, TRUE)
<1> DEFINE y == Reread(e)
<1>1. /\ y.role = e.role /\ y.start = e.start /\ y.end = e.end
      /\ y.flaws = e.flaws /\ y.probes = e.probes /\ y.stats = e.stats
  BY RereadEndpoint
<1> HIDE DEF y
<1>2. ValidProbes(y) = ValidProbes(e)
  BY <1>1 DEF ValidProbes
<1>3. validate_clock_probe_samples(y) <=> validate_clock_probe_samples(e)
  BY <1>1 DEF validate_clock_probe_samples
<1>4. validate_finalized_requirements(y) <=> validate_finalized_requirements(e)
  BY <1>1, <1>2, <1>3 DEF validate_finalized_requirements
<1>5. validate_live_endpoint(y, TRUE) <=> validate_live_endpoint(e, TRUE)
  BY <1>1, <1>4 DEF validate_live_endpoint
<1>6. parse_and_validate_live_endpoint(y, TRUE)
          <=> parse_and_validate_live_endpoint(e, TRUE)
  BY <1>1, <1>5 DEF parse_and_validate_live_endpoint
<1> QED  BY <1>2, <1>5, <1>6 DEF y

LEMMA RereadPairable ==
    ASSUME NEW a, NEW b,
           LiveEndpointObservationV1(a), LiveEndpointObservationV1(b)
    PROVE  /\ Pairable(Reread(a), Reread(b)) <=> Pairable(a, b)
           /\ compute_overlap_seconds(Reread(a), Reread(b))
                  = compute_overlap_seconds(a, b)
<1>1. compute_overlap_seconds(Reread(a), Reread(b)) = compute_overlap_seconds(a, b)
  BY RereadEndpoint DEF compute_overlap_seconds
<1> QED  BY <1>1, RereadEndpoint, RereadVerdict DEF Pairable

-----------------------------------------------------------------------------
(* What validation of an endpoint means                                    *)

LEMMA Elements ==
    ASSUME NEW T, NEW s \in Seq(T)
    PROVE  /\ DOMAIN s = 1 .. Len(s) /\ Len(s) \in Nat
           /\ \A i \in DOMAIN s : s[i] \in T
OBVIOUS

\* Samples each later than the one before are in order.
LEMMA SamplesSorted ==
    ASSUME NEW s \in Seq(LiveStatsSampleV1),
           \A i \in DOMAIN s : i > 1 => s[i - 1].at < s[i].at
    PROVE  \A i, j \in DOMAIN s : i < j => s[i].at < s[j].at
<1> DEFINE B == {j \in DOMAIN s : \E i \in DOMAIN s : i < j /\ ~ (s[i].at < s[j].at)}
<1>1. DOMAIN s = 1 .. Len(s) /\ Len(s) \in Nat
  OBVIOUS
<1>2. \A i \in DOMAIN s : s[i].at \in Int
  <2>1. \A i \in DOMAIN s : s[i] \in LiveStatsSampleV1
    BY Elements
  <2> QED  BY <2>1 DEF LiveStatsSampleV1
<1>3. ASSUME B # {} PROVE FALSE
  <2>1. B \in SUBSET Nat
    BY <1>1
  <2>2. PICK j \in B : \A k \in B : ~ (<<k, j>> \in OpToRel(<, Nat))
    BY <1>3, <2>1, WFMin, NatLessThanWellFounded
  <2>3. \A k \in B : ~ (k < j)
    BY <2>1, <2>2 DEF OpToRel
  <2>4. PICK i \in DOMAIN s : i < j /\ ~ (s[i].at < s[j].at)
    OBVIOUS
  <2>5. /\ j \in DOMAIN s /\ j > 1 /\ j - 1 \in DOMAIN s /\ i <= j - 1
        /\ s[j - 1].at < s[j].at
    BY <1>1, <2>4
  <2>6. j - 1 \notin B
    BY <2>3, <2>5, <1>1
  <2>7. CASE i = j - 1
    BY <2>4, <2>5, <2>7
  <2>8. CASE i # j - 1
    <3>1. s[i].at < s[j - 1].at
      BY <1>1, <2>5, <2>6, <2>8
    <3> QED  BY <1>2, <2>4, <2>5, <3>1
  <2> QED  BY <2>7, <2>8
<1> QED  BY <1>3

\* The roles of the two ends differ.
LEMMA Opposite == \A r \in Roles : opposite_peer_role[r] # r
BY DEF Roles, opposite_peer_role

\* A probe that counts says what its times say.
LEMMA ValidIsTruthful ==
    ASSUME NEW e, LiveEndpointObservationV1(e), NEW i \in ValidProbes(e)
    PROVE  LET p == e.probes[i]
           IN  p.from = e.role /\ p.to # e.role /\ p.answered /\ Truthful(p)
<1> DEFINE p == e.probes[i]
<1>1. i \in DOMAIN e.probes /\ is_valid_completed_local_probe(p, e.role)
  BY DEF ValidProbes
<1>2. /\ p.t \in [1..4 -> Int] /\ p.rtt \in Int /\ p.answered
      /\ e.role \in Roles
  <2>1. e.probes \in Seq(LiveClockProbeSampleV1)
    BY DEF LiveEndpointObservationV1
  <2>2. p \in LiveClockProbeSampleV1
    BY <1>1, <2>1, Elements
  <2>3. p.answered /\ p.rtt # Null
    BY <1>1 DEF LiveEndpointObservationV1, is_valid_completed_local_probe
  <2> QED  BY <2>2, <2>3 DEF LiveEndpointObservationV1, LiveClockProbeSampleV1
<1>3. /\ p.t[1] \in Int /\ p.t[2] \in Int /\ p.t[3] \in Int /\ p.t[4] \in Int
      /\ ClockEpsilon \in Int
  BY <1>2, EvidenceAssumption
<1>4. p.from = e.role /\ p.to # e.role
  BY <1>1, <1>2, Opposite DEF is_valid_completed_local_probe
<1>5. Truthful(p)
  BY <1>1, <1>2, <1>3 DEF is_valid_completed_local_probe,
     stored_clock_metrics_consistent, Measurable, RoundTrip, Within, Truthful
<1> QED  BY <1>2, <1>4, <1>5

LEMMA AcceptedIsSound ==
    ASSUME NEW e, LiveEndpointObservationV1(e),
           parse_and_validate_live_endpoint(e, TRUE)
    PROVE  Sound(e)
<1>1. validate_finalized_requirements(e)
  BY DEF parse_and_validate_live_endpoint, validate_live_endpoint
<1>2. e.flaws = {}
  BY <1>1 DEF parse_and_validate_live_endpoint, validate_live_endpoint,
     validate_finalized_requirements, LiveEndpointObservationV1
<1>3. e.start \in Nat /\ e.end \in Nat /\ MaxDuration \in Nat
  BY EvidenceAssumption DEF LiveEndpointObservationV1
<1>4. e.end \in (e.start + 1)..(e.start + MaxDuration)
  BY <1>1, <1>3 DEF validate_finalized_requirements
<1>5. /\ e.stats \in Seq(LiveStatsSampleV1)
      /\ \A i \in DOMAIN e.stats : e.stats[i] \in LiveStatsSampleV1
      /\ \A i \in DOMAIN e.stats : e.stats[i].at \in Int
  <2>1. e.stats \in Seq(LiveStatsSampleV1)
    BY DEF LiveEndpointObservationV1
  <2>2. \A i \in DOMAIN e.stats : e.stats[i] \in LiveStatsSampleV1
    BY <2>1, Elements
  <2> QED  BY <2>1, <2>2 DEF LiveStatsSampleV1
<1>6. validate_stats_samples(e.stats, e.end - e.start)
  BY <1>1 DEF validate_finalized_requirements
<1>7. \A i, j \in DOMAIN e.stats : i < j => e.stats[i].at < e.stats[j].at
  BY <1>5, <1>6, SamplesSorted DEF validate_stats_samples
<1>8. \A i \in DOMAIN e.stats : e.start + e.stats[i].at \in e.start..e.end
  BY <1>3, <1>5, <1>6 DEF validate_stats_samples
<1>9. ASSUME NEW d \in Directions
      PROVE  Flowed(e, d)
  <2>1. \A i \in DOMAIN e.stats : e.stats[i][d] \in Counters
    <3>1. CASE d = "inbound"
      BY <1>5, <3>1 DEF LiveStatsSampleV1
    <3>2. CASE d = "outbound"
      BY <1>5, <3>2 DEF LiveStatsSampleV1
    <3> QED  BY <3>1, <3>2 DEF Directions
  <2>2. PICK i, j \in Counted(e.stats, d) :
            /\ i <= j
            /\ e.stats[i][d].packets < e.stats[j][d].packets
    BY <1>1 DEF validate_finalized_requirements,
                has_direction_rtp_audio_progression
  <2>3. /\ i \in DOMAIN e.stats /\ j \in DOMAIN e.stats
        /\ e.stats[i][d].source = "rtp_audio" /\ e.stats[i][d].packets \in Nat
        /\ e.stats[j][d].source = "rtp_audio" /\ e.stats[j][d].packets \in Nat
    BY <2>1, <2>2 DEF Counted, Counters
  <2>4. i \in Nat /\ j \in Nat
    BY <1>5, <2>3
  <2>5. i < j
    BY <2>2, <2>3, <2>4
  <2> QED  BY <2>2, <2>3, <2>5 DEF Flowed
<1>10. Cardinality({i \in DOMAIN e.probes : e.probes[i].from = e.role
                        /\ e.probes[i].to # e.role
                        /\ e.probes[i].answered /\ Truthful(e.probes[i])}) >= MinProbes
  <2> DEFINE T == {i \in DOMAIN e.probes : e.probes[i].from = e.role
                        /\ e.probes[i].to # e.role
                        /\ e.probes[i].answered /\ Truthful(e.probes[i])}
  <2>1. IsFiniteSet(DOMAIN e.probes)
    <3>1. DOMAIN e.probes = 1 .. Len(e.probes) /\ Len(e.probes) \in Int
      BY DEF LiveEndpointObservationV1
    <3> QED  BY <3>1, FS_Interval
  <2>2. IsFiniteSet(T)
    BY <2>1, FS_Subset
  <2>3. ValidProbes(e) \in SUBSET T
    BY ValidIsTruthful DEF ValidProbes
  <2>4. Cardinality(ValidProbes(e)) <= Cardinality(T)
    BY <2>2, <2>3, FS_Subset
  <2>5. Cardinality(ValidProbes(e)) \in Nat /\ Cardinality(T) \in Nat
    BY <2>2, <2>3, FS_Subset, FS_CardinalityType
  <2>6. Cardinality(ValidProbes(e)) >= MinProbes /\ MinProbes \in Nat
    BY <1>1, EvidenceAssumption DEF validate_finalized_requirements
  <2> QED  BY <2>4, <2>5, <2>6
<1> QED  BY <1>2, <1>4, <1>7, <1>8, <1>9, <1>10 DEF Sound

\* The overlap is the number of common instants.
LEMMA OverlapIsCommon ==
    ASSUME NEW a, NEW b,
           LiveEndpointObservationV1(a), LiveEndpointObservationV1(b),
           compute_overlap_seconds(a, b) > 0
    PROVE  /\ Common(a, b) # {}
           /\ compute_overlap_seconds(a, b) = Cardinality(Common(a, b))
<1> DEFINE from == Later(a.start, b.start)
           to == Earlier(a.end, b.end)
<1>1. /\ a.start \in Nat /\ b.start \in Nat /\ a.end \in Nat /\ b.end \in Nat
      /\ from \in Nat /\ to \in Nat
  BY DEF LiveEndpointObservationV1, Later, Earlier
<1>2. Common(a, b) = from .. (to - 1)
  BY <1>1 DEF Common, Later, Earlier
<1>3. compute_overlap_seconds(a, b) = to - from /\ to - from > 0
  <2>1. compute_overlap_seconds(a, b) = Later(to - from, 0)
    BY DEF compute_overlap_seconds
  <2> HIDE DEF from, to
  <2> QED  BY <1>1, <2>1 DEF Later
<1> HIDE DEF from, to
<1>4. Cardinality(from .. (to - 1)) = to - from
  BY <1>1, <1>3, FS_Interval
<1>5. from \in from .. (to - 1)
  BY <1>1, <1>3
<1> QED  BY <1>2, <1>3, <1>4, <1>5

-----------------------------------------------------------------------------
(* A directory that verifies                                               *)

LEMMA ArtifactNames ==
    /\ Artifacts = {"peer-a.validated.json", "peer-b.validated.json",
                    "peer-a.summary.json", "peer-b.summary.json",
                    "pair-summary.json", "report.md"}
    /\ Manifest \notin Artifacts
    /\ Files = Artifacts \cup {Manifest}
<1>1. Artifacts = {RequiredFiles[1], RequiredFiles[2], RequiredFiles[3],
                   RequiredFiles[4], RequiredFiles[5], RequiredFiles[6]}
  <2>1. 1 .. 6 = {1, 2, 3, 4, 5, 6}
    OBVIOUS
  <2> QED  BY <2>1 DEF Artifacts
<1> QED  BY <1>1 DEF RequiredFiles, Manifest, Files

\* What is said of a file: an endpoint is one, whoever put it there.
FilesInv(d) ==
    /\ d = [f \in Files |-> d[f]]
    /\ \A f \in Artifacts :
          d[f].kind = "endpoint" => LiveEndpointObservationV1(d[f])

\* The files of a verified directory are of their kinds.
LEMMA VerifiedKinds ==
    ASSUME NEW d, verify_live_artifact_manifest(d)
    PROVE  /\ d["peer-a.validated.json"].kind = "endpoint"
           /\ d["peer-b.validated.json"].kind = "endpoint"
           /\ d["pair-summary.json"].kind = "pair"
           /\ d["report.md"].kind = "report"
<1>1. \A f \in Artifacts : ContentFits(d[f], f)
  BY DEF verify_live_artifact_manifest, EntryFits
<1> QED  BY <1>1, ArtifactNames DEF ContentFits

LEMMA VerifiedIsPaired ==
    ASSUME NEW d, FilesInv(d), validate_live_directory(d)
    PROVE  LET a == d["peer-a.validated.json"]
               b == d["peer-b.validated.json"]
               pair == d["pair-summary.json"]
           IN  /\ Sound(a) /\ Sound(b)
               /\ a.role # b.role
               /\ a.session = b.session /\ a.commit = b.commit
               /\ pair.session = a.session /\ d["report.md"].session = a.session
               /\ pair.runs = <<a.run, b.run>> /\ a.run # b.run
               /\ Common(a, b) # {}
               /\ pair.overlap = Cardinality(Common(a, b))
<1> DEFINE a == d["peer-a.validated.json"]
           b == d["peer-b.validated.json"]
           pair == d["pair-summary.json"]
           report == d["report.md"]
           x == Reread(a)
           y == Reread(b)
<1>1. /\ a.kind = "endpoint" /\ b.kind = "endpoint"
      /\ pair.kind = "pair" /\ report.kind = "report"
  BY VerifiedKinds DEF validate_live_directory
<1>2. LiveEndpointObservationV1(a) /\ LiveEndpointObservationV1(b)
  BY <1>1, ArtifactNames DEF FilesInv
<1>3. Pairable(x, y)
  BY DEF validate_live_directory, verify_live_directory_semantics
<1>4. Pairable(a, b)
  BY <1>2, <1>3, RereadPairable
<1>5. /\ Reread(pair) = build_pair(x, y)
      /\ Reread(report) = build_pair_report(x, y)
  <2>1. \A f \in Artifacts :
            KindOf(f) # "endpoint" => Reread(d[f]) = PairArtifacts(x, y)[f]
    BY DEF validate_live_directory, verify_live_directory_semantics
  <2> HIDE DEF x, y
  <2> QED  BY <2>1, ArtifactNames DEF KindOf, PairArtifacts
<1>6. report.session = a.session
  <2>1. Reread(report) = report
    BY <1>1 DEF Reread
  <2> HIDE DEF report
  <2>2. report.session = x.session
    BY <1>5, <2>1 DEF build_pair_report
  <2> QED  BY <1>2, <2>2, RereadEndpoint
<1>7. /\ pair.session = a.session /\ pair.runs = <<a.run, b.run>>
      /\ pair.overlap = compute_overlap_seconds(a, b)
  <2>1. Reread(pair) = [pair EXCEPT !.numbers = <<ReadBack[@[1]], ReadBack[@[2]]>>]
    BY <1>1 DEF Reread
  <2> HIDE DEF pair
  <2> DEFINE n == <<ReadBack[pair.numbers[1]], ReadBack[pair.numbers[2]]>>
             q == build_pair(x, y)
  <2>2. [pair EXCEPT !.numbers = n] = q
    BY <1>5, <2>1
  <2>3. /\ DOMAIN q = {"kind", "session", "commit", "runs", "overlap",
                       "numbers", "clocks"}
        /\ q.session = x.session /\ q.runs = <<x.run, y.run>>
        /\ q.overlap = compute_overlap_seconds(x, y)
    BY DEF build_pair
  <2> HIDE DEF n, q, x, y
  <2>4. DOMAIN pair = DOMAIN q
    BY <2>2
  <2>5. pair.session = q.session /\ pair.runs = q.runs /\ pair.overlap = q.overlap
    BY <2>2, <2>3, <2>4
  <2>6. /\ x.session = a.session /\ x.run = a.run /\ y.run = b.run
        /\ compute_overlap_seconds(x, y) = compute_overlap_seconds(a, b)
    BY <1>2, RereadEndpoint, RereadPairable DEF x, y
  <2> QED  BY <2>3, <2>5, <2>6
<1>8. Sound(a) /\ Sound(b)
  BY <1>2, <1>4, AcceptedIsSound DEF Pairable
<1>9. Common(a, b) # {} /\ compute_overlap_seconds(a, b) = Cardinality(Common(a, b))
  BY <1>2, <1>4, OverlapIsCommon DEF Pairable
<1>10. /\ a.role # b.role /\ a.session = b.session /\ a.commit = b.commit
       /\ a.run # b.run
  BY <1>4 DEF Pairable
<1> HIDE DEF a, b, pair, report
<1>11. /\ Sound(a) /\ Sound(b)
       /\ a.role # b.role
       /\ a.session = b.session /\ a.commit = b.commit
       /\ pair.session = a.session /\ report.session = a.session
       /\ pair.runs = <<a.run, b.run>> /\ a.run # b.run
       /\ Common(a, b) # {}
       /\ pair.overlap = Cardinality(Common(a, b))
  BY <1>6, <1>7, <1>8, <1>9, <1>10
<1> QED  BY <1>11 DEF a, b, pair, report

\* The manifest holds the checksum of every artifact.
LEMMA ManifestFixes ==
    ASSUME NEW c, NEW d, FilesInv(c), FilesInv(d),
           c[Manifest] = d[Manifest],
           validate_live_directory(c), validate_live_directory(d)
    PROVE  c = d
<1>1. ASSUME NEW f \in Artifacts
      PROVE  c[f] = d[f]
  <2>1. PICK i \in DOMAIN c[Manifest].artifacts :
            c[Manifest].artifacts[i].file = f
    BY DEF validate_live_directory, verify_live_artifact_manifest
  <2>2. c[f] = c[Manifest].artifacts[i].sum
    BY <2>1 DEF validate_live_directory, verify_live_artifact_manifest, EntryFits
  <2>3. d[f] = d[Manifest].artifacts[i].sum
    BY <2>1 DEF validate_live_directory, verify_live_artifact_manifest, EntryFits
  <2> QED  BY <2>2, <2>3
<1> QED  BY <1>1, ArtifactNames DEF FilesInv

-----------------------------------------------------------------------------
(* The files pairing writes, left alone                                    *)

LEMMA FileNumbers ==
    /\ \A k \in 1..6 : RequiredFiles[k] \in Artifacts
    /\ \A j, k \in 1..6 : RequiredFiles[j] = RequiredFiles[k] => j = k
<1>1. \A k \in 1..6 : k \in {1, 2, 3, 4, 5, 6}
  OBVIOUS
<1> QED  BY <1>1 DEF Artifacts, RequiredFiles

LEMMA PairArtifactsAre ==
    ASSUME NEW a, NEW b
    PROVE  LET p == PairArtifacts(a, b)
           IN  /\ p["peer-a.validated.json"] = a
               /\ p["peer-b.validated.json"] = b
               /\ p["peer-a.summary.json"] = compute_live_endpoint_derived(a)
               /\ p["peer-b.summary.json"] = compute_live_endpoint_derived(b)
               /\ p["pair-summary.json"] = build_pair(a, b)
               /\ p["report.md"] = build_pair_report(a, b)
BY ArtifactNames DEF PairArtifacts

\* A summary is computed again from an endpoint that was read back exactly
\* when the number does not drift.
LEMMA SummaryReread ==
    ASSUME NEW e, LiveEndpointObservationV1(e)
    PROVE  /\ compute_live_endpoint_derived(Reread(e)).clock
                  = compute_live_endpoint_derived(e).clock
           /\ Reread(compute_live_endpoint_derived(e))
                  = compute_live_endpoint_derived(Reread(e)) <=> ~ Drifts(e)
<1> DEFINE x == Reread(e)
           s == compute_live_endpoint_derived(e)
           t == compute_live_endpoint_derived(x)
<1>1. x.probes = e.probes /\ x.numbers = ReadBack[e.numbers]
  BY RereadEndpoint
<1>2. ValidProbes(x) = ValidProbes(e)
  BY RereadVerdict
<1>3. Reread(s) = [s EXCEPT !.numbers = ReadBack[@]]
  BY DEF Reread, compute_live_endpoint_derived
<1> HIDE DEF x
<1> DEFINE clockS == {<<RoundTrip(e.probes[i].t), TwiceOffset(e.probes[i].t)>> :
                        i \in ValidProbes(e)}
           clockT == {<<RoundTrip(x.probes[i].t), TwiceOffset(x.probes[i].t)>> :
                        i \in ValidProbes(x)}
<1>4. clockT = clockS
  BY <1>1, <1>2
<1>5. /\ s = [kind |-> "summary", clock |-> clockS, numbers |-> Derive[e.numbers]]
      /\ t = [kind |-> "summary", clock |-> clockT, numbers |-> Derive[x.numbers]]
  BY DEF compute_live_endpoint_derived
<1> HIDE DEF s, t, clockS, clockT
<1>6. Reread(s) = [kind |-> "summary", clock |-> clockS,
                   numbers |-> ReadBack[Derive[e.numbers]]]
  BY <1>3, <1>5
<1>7. t.clock = s.clock
  BY <1>4, <1>5
<1>8. (Reread(s) = t) <=> ReadBack[Derive[e.numbers]] = Derive[x.numbers]
  BY <1>4, <1>5, <1>6
<1>9. (Reread(s) = t) <=> ~ Drifts(e)
  BY <1>1, <1>8 DEF Drifts
<1> QED  BY <1>7, <1>9 DEF s, t, x

LEMMA PairReread ==
    ASSUME NEW a, NEW b,
           LiveEndpointObservationV1(a), LiveEndpointObservationV1(b)
    PROVE  Reread(build_pair(a, b)) = build_pair(Reread(a), Reread(b))
              <=> ~ Drifts(a) /\ ~ Drifts(b)
<1> DEFINE x == Reread(a)
           y == Reread(b)
           p == build_pair(a, b)
           q == build_pair(x, y)
           clocks(u, v) == <<compute_live_endpoint_derived(u).clock,
                             compute_live_endpoint_derived(v).clock>>
<1>1. /\ x.session = a.session /\ x.commit = a.commit /\ x.run = a.run
      /\ y.run = b.run
      /\ x.numbers = ReadBack[a.numbers] /\ y.numbers = ReadBack[b.numbers]
  BY RereadEndpoint
<1>2. compute_overlap_seconds(x, y) = compute_overlap_seconds(a, b)
  BY RereadPairable
<1>3. clocks(x, y) = clocks(a, b)
  BY SummaryReread
<1>4. Reread(p) = [p EXCEPT !.numbers = <<ReadBack[@[1]], ReadBack[@[2]]>>]
  BY DEF Reread, build_pair
<1> HIDE DEF x, y
<1>5. /\ p = [kind |-> "pair", session |-> a.session, commit |-> a.commit,
              runs |-> <<a.run, b.run>>,
              overlap |-> compute_overlap_seconds(a, b),
              numbers |-> <<Derive[a.numbers], Derive[b.numbers]>>,
              clocks |-> clocks(a, b)]
      /\ q = [kind |-> "pair", session |-> x.session, commit |-> x.commit,
              runs |-> <<x.run, y.run>>,
              overlap |-> compute_overlap_seconds(x, y),
              numbers |-> <<Derive[x.numbers], Derive[y.numbers]>>,
              clocks |-> clocks(x, y)]
  BY DEF build_pair
<1> HIDE DEF p, q, clocks
<1>6. Reread(p) = [kind |-> "pair", session |-> a.session, commit |-> a.commit,
              runs |-> <<a.run, b.run>>,
              overlap |-> compute_overlap_seconds(a, b),
              numbers |-> <<ReadBack[Derive[a.numbers]], ReadBack[Derive[b.numbers]]>>,
              clocks |-> clocks(a, b)]
  BY <1>4, <1>5
<1>7. (Reread(p) = q) <=>
          <<ReadBack[Derive[a.numbers]], ReadBack[Derive[b.numbers]]>>
              = <<Derive[x.numbers], Derive[y.numbers]>>
  BY <1>1, <1>2, <1>3, <1>5, <1>6
<1>8. (Reread(p) = q) <=> ~ Drifts(a) /\ ~ Drifts(b)
  BY <1>1, <1>7 DEF Drifts
<1> QED  BY <1>8 DEF p, q, x, y

LEMMA ReportReread ==
    ASSUME NEW a, NEW b,
           LiveEndpointObservationV1(a), LiveEndpointObservationV1(b)
    PROVE  Reread(build_pair_report(a, b)) = build_pair_report(Reread(a), Reread(b))
<1>1. Reread(build_pair_report(a, b)) = build_pair_report(a, b)
  BY DEF Reread, build_pair_report
<1>2. /\ Reread(a).session = a.session /\ Reread(a).commit = a.commit
      /\ compute_overlap_seconds(Reread(a), Reread(b)) = compute_overlap_seconds(a, b)
  BY RereadEndpoint, RereadPairable
<1> QED  BY <1>1, <1>2 DEF build_pair_report

\* The directory holds what pairing a and b writes, manifest included.
Holds(d, a, b) ==
    /\ \A f \in Artifacts : d[f] = PairArtifacts(a, b)[f]
    /\ d[Manifest] = build_manifest_entries(PairArtifacts(a, b), a.session, a.commit)

\* The checksums of such a directory are right.
LEMMA ManifestVerifies ==
    ASSUME NEW d, NEW a, NEW b, Holds(d, a, b), Pairable(a, b),
           LiveEndpointObservationV1(a), LiveEndpointObservationV1(b)
    PROVE  verify_live_artifact_manifest(d)
<1> DEFINE p == PairArtifacts(a, b)
           entries == d[Manifest].artifacts
<1>1. /\ d[Manifest].kind = "manifest"
      /\ entries = [i \in 1..6 |-> [file |-> RequiredFiles[i],
                                    role |-> RequiredFiles[i],
                                    sum  |-> p[RequiredFiles[i]]]]
  BY DEF Holds, build_manifest_entries
<1>2. \A f \in Artifacts : d[f] = p[f]
  BY DEF Holds
<1>3. /\ p["peer-a.validated.json"] = a
      /\ p["peer-b.validated.json"] = b
      /\ p["peer-a.summary.json"] = compute_live_endpoint_derived(a)
      /\ p["peer-b.summary.json"] = compute_live_endpoint_derived(b)
      /\ p["pair-summary.json"] = build_pair(a, b)
      /\ p["report.md"] = build_pair_report(a, b)
  BY PairArtifactsAre
<1> HIDE DEF p, entries
<1>4. /\ p["peer-a.validated.json"].kind = "endpoint"
      /\ p["peer-b.validated.json"].kind = "endpoint"
      /\ p["peer-a.summary.json"].kind = "summary"
      /\ p["peer-b.summary.json"].kind = "summary"
      /\ p["pair-summary.json"].kind = "pair"
      /\ p["report.md"].kind = "report"
  <2>1. a.kind = "endpoint" /\ b.kind = "endpoint"
    BY DEF LiveEndpointObservationV1
  <2>2. /\ compute_live_endpoint_derived(a).kind = "summary"
        /\ compute_live_endpoint_derived(b).kind = "summary"
    BY DEF compute_live_endpoint_derived
  <2>3. build_pair(a, b).kind = "pair" /\ build_pair_report(a, b).kind = "report"
    BY DEF build_pair, build_pair_report
  <2> QED  BY <1>3, <2>1, <2>2, <2>3
<1>3a. /\ validate_live_endpoint(Reread(a), TRUE)
       /\ validate_live_endpoint(Reread(b), TRUE)
  BY RereadVerdict DEF Pairable, parse_and_validate_live_endpoint
<1>5. \A f \in Artifacts : ContentFits(d[f], f)
  BY <1>2, <1>3, <1>4, <1>3a, ArtifactNames DEF ContentFits
<1>6. \A f \in Artifacts : d[f].kind \notin {"missing", "torn"}
  BY <1>2, <1>4, ArtifactNames
<1>7. \A f \in Artifacts : Present(d, f)
  BY <1>6 DEF Present, Missing, Torn
<1>8. Present(d, Manifest)
  BY <1>1 DEF Present, Missing, Torn
<1>9. /\ DOMAIN entries = 1..6
      /\ \A i \in 1..6 : /\ entries[i].file = RequiredFiles[i]
                         /\ entries[i].role = RequiredFiles[i]
                         /\ entries[i].sum = p[RequiredFiles[i]]
  BY <1>1
<1>10. \A i \in DOMAIN entries : EntryFits(d, entries[i])
  BY <1>2, <1>5, <1>7, <1>9, FileNumbers DEF EntryFits
<1>11. \A i, j \in DOMAIN entries : i # j =>
              /\ entries[i].file # entries[j].file
              /\ entries[i].role # entries[j].role
  BY <1>9, FileNumbers
<1>12. \A f \in Artifacts : \E i \in DOMAIN entries :
              entries[i].file = f /\ entries[i].role = f
  BY <1>9 DEF Artifacts
<1> QED  BY <1>1, <1>8, <1>10, <1>11, <1>12
         DEF verify_live_artifact_manifest, entries

\* It verifies exactly when no number drifts.
LEMMA HoldsVerifies ==
    ASSUME NEW d, NEW a, NEW b, Holds(d, a, b), Pairable(a, b),
           LiveEndpointObservationV1(a), LiveEndpointObservationV1(b)
    PROVE  validate_live_directory(d) <=> ~ Drifts(a) /\ ~ Drifts(b)
<1> DEFINE x == Reread(a)
           y == Reread(b)
           p == PairArtifacts(a, b)
           q == PairArtifacts(x, y)
           Same == \A f \in Artifacts : KindOf(f) # "endpoint" => Reread(d[f]) = q[f]
<1>1. \A f \in Artifacts : d[f] = p[f]
  BY DEF Holds
<1>2. d["peer-a.validated.json"] = a /\ d["peer-b.validated.json"] = b
  BY <1>1, PairArtifactsAre, ArtifactNames
<1>3. d[Manifest].session = x.session /\ d[Manifest].commit = x.commit
  BY RereadEndpoint DEF Holds, build_manifest_entries
<1>4. Pairable(x, y)
  BY RereadPairable
<1>5. verify_live_directory_semantics(d) <=> Same
  BY <1>2, <1>3, <1>4 DEF verify_live_directory_semantics
<1>6. Same <=> /\ Reread(p["peer-a.summary.json"]) = q["peer-a.summary.json"]
               /\ Reread(p["peer-b.summary.json"]) = q["peer-b.summary.json"]
               /\ Reread(p["pair-summary.json"]) = q["pair-summary.json"]
               /\ Reread(p["report.md"]) = q["report.md"]
  <2> HIDE DEF p, q
  <2> QED  BY <1>1, ArtifactNames DEF KindOf
<1>7. /\ (Reread(p["peer-a.summary.json"]) = q["peer-a.summary.json"]) <=> ~ Drifts(a)
      /\ (Reread(p["peer-b.summary.json"]) = q["peer-b.summary.json"]) <=> ~ Drifts(b)
  BY PairArtifactsAre, SummaryReread
<1>8. (Reread(p["pair-summary.json"]) = q["pair-summary.json"])
          <=> ~ Drifts(a) /\ ~ Drifts(b)
  BY PairArtifactsAre, PairReread
<1>9. Reread(p["report.md"]) = q["report.md"]
  BY PairArtifactsAre, ReportReread
<1>10. verify_live_artifact_manifest(d)
  BY ManifestVerifies
<1> HIDE DEF p, q, Same
<1> QED  BY <1>5, <1>6, <1>7, <1>8, <1>9, <1>10 DEF validate_live_directory

-----------------------------------------------------------------------------
(* The inductive invariant                                                 *)

\* The running pairing has two endpoints that can be paired, and as long as
\* nobody interferes the files it has written so far are in the directory.
WriterInv ==
    /\ DOMAIN writer = {"step", "a", "b", "alone", "manifest"}
    /\ writer.step \in 0..14
    /\ writer.step # 0 =>
          /\ LiveEndpointObservationV1(writer.a)
          /\ LiveEndpointObservationV1(writer.b)
          /\ Pairable(writer.a, writer.b)

Written ==
    writer.step # 0 /\ writer.alone =>
        /\ \A k \in 1..6 : 2 * k < writer.step =>
              dir[RequiredFiles[k]] = PairArtifacts(writer.a, writer.b)[RequiredFiles[k]]
        /\ writer.step = 14 =>
              writer.manifest = build_manifest_entries(
                  PairArtifacts(writer.a, writer.b), writer.a.session, writer.a.commit)

\* The endpoints of an undisturbed pairing are what the directory holds.
PairedInv ==
    paired # Null =>
        /\ writer.step \in {0, 1}
        /\ LiveEndpointObservationV1(paired[1])
        /\ LiveEndpointObservationV1(paired[2])
        /\ Pairable(paired[1], paired[2])
        /\ Holds(dir, paired[1], paired[2])

IInv == FilesInv(dir) /\ WriterInv /\ Written /\ PairedInv

\* Replacing one file keeps the rest.
LEMMA OneFile ==
    ASSUME FilesInv(dir), NEW f \in Files, NEW x, dir' = [dir EXCEPT ![f] = x],
           f \in Artifacts => (x.kind = "endpoint" => LiveEndpointObservationV1(x))
    PROVE  /\ FilesInv(dir')
           /\ dir'[f] = x
           /\ \A g \in Files : g # f => dir'[g] = dir[g]
<1>1. DOMAIN dir = Files
  BY DEF FilesInv
<1>2. dir' = [g \in Files |-> IF g = f THEN x ELSE dir[g]]
  BY <1>1
<1>3. dir'[f] = x /\ \A g \in Files : g # f => dir'[g] = dir[g]
  BY <1>2
<1>4. dir' = [g \in Files |-> dir'[g]]
  BY <1>2
<1>5. \A g \in Artifacts : dir'[g].kind = "endpoint" => LiveEndpointObservationV1(dir'[g])
  <2> SUFFICES ASSUME NEW g \in Artifacts, dir'[g].kind = "endpoint"
               PROVE  LiveEndpointObservationV1(dir'[g])
    OBVIOUS
  <2>1. CASE g = f
    BY <1>3, <2>1
  <2>2. CASE g # f
    BY <1>3, <2>2, ArtifactNames DEF FilesInv
  <2> QED  BY <2>1, <2>2
<1> QED  BY <1>3, <1>4, <1>5 DEF FilesInv

\* What pairing writes into a file keeps the directory's invariant.
LEMMA PairContents ==
    ASSUME NEW a, NEW b, NEW f \in Artifacts,
           LiveEndpointObservationV1(a), LiveEndpointObservationV1(b)
    PROVE  PairArtifacts(a, b)[f].kind = "endpoint" =>
              LiveEndpointObservationV1(PairArtifacts(a, b)[f])
<1>1. /\ compute_live_endpoint_derived(a).kind = "summary"
      /\ compute_live_endpoint_derived(b).kind = "summary"
  BY DEF compute_live_endpoint_derived
<1>2. build_pair(a, b).kind = "pair" /\ build_pair_report(a, b).kind = "report"
  BY DEF build_pair, build_pair_report
<1> QED  BY <1>1, <1>2, PairArtifactsAre, ArtifactNames

LEMMA Initially == Init => IInv
<1> SUFFICES ASSUME Init PROVE IInv
  OBVIOUS
<1>1. FilesInv(dir)
  BY ArtifactNames DEF Init, FilesInv, Missing
<1>2. WriterInv /\ Written
  BY DEF Init, Idle, WriterInv, Written
<1>3. PairedInv
  BY DEF Init, PairedInv
<1> QED  BY <1>1, <1>2, <1>3 DEF IInv

\* A step of others.
LEMMA OthersKeep ==
    ASSUME IInv, NEW f \in Files, NEW x,
           f \in Artifacts => (x.kind = "endpoint" => LiveEndpointObservationV1(x)),
           Others([dir EXCEPT ![f] = x])
    PROVE  IInv'
<1>1. /\ dir' = [dir EXCEPT ![f] = x]
      /\ writer' = [writer EXCEPT !.alone = (writer = Idle)]
      /\ paired' = Null
  BY DEF Others
<1>2. FilesInv(dir')
  BY <1>1, OneFile DEF IInv
<1>3. DOMAIN writer = {"step", "a", "b", "alone", "manifest"}
  BY DEF IInv, WriterInv
<1>4. /\ DOMAIN writer' = {"step", "a", "b", "alone", "manifest"}
      /\ writer'.step = writer.step /\ writer'.a = writer.a /\ writer'.b = writer.b
      /\ writer'.alone = (writer = Idle)
  BY <1>1, <1>3
<1>5. WriterInv'
  BY <1>4 DEF IInv, WriterInv
<1>6. writer'.alone => writer'.step = 0
  <2>1. CASE writer = Idle
    BY <1>4, <2>1 DEF Idle
  <2>2. CASE writer # Idle
    <3>1. (writer = Idle) = FALSE
      BY <2>2
    <3>2. writer'.alone = FALSE
      BY <1>4, <3>1
    <3> QED  BY <3>2
  <2> QED  BY <2>1, <2>2
<1>7. Written'
  BY <1>6 DEF Written
<1>8. PairedInv'
  BY <1>1 DEF PairedInv
<1> QED  BY <1>2, <1>5, <1>7, <1>8 DEF IInv

\* Every input of a pairing is an endpoint.
LEMMA InputsAreEndpoints ==
    ASSUME FilesInv(dir), NEW e \in Inputs(dir)
    PROVE  LiveEndpointObservationV1(e)
<1>1. CASE e \in Endpoints
  BY <1>1, DirectoryAssumption
<1>2. CASE e \notin Endpoints
  <2>1. PICK f \in Artifacts : dir[f].kind = "endpoint" /\ e = Reread(dir[f])
    BY <1>2 DEF Inputs
  <2> QED  BY <2>1, RereadEndpoint DEF FilesInv
<1> QED  BY <1>1, <1>2

LEMMA ContentsAllowed ==
    ASSUME NEW f \in Artifacts, NEW c \in PossibleContents(f) \cup {Missing}
    PROVE  c.kind = "endpoint" => LiveEndpointObservationV1(c)
<1>1. CASE c = Missing
  BY <1>1 DEF Missing
<1>2. CASE c # Missing /\ KindOf(f) = "endpoint"
  BY <1>2, DirectoryAssumption DEF PossibleContents
<1>3. CASE c # Missing /\ KindOf(f) # "endpoint"
  <2>1. PICK p \in Endpoints \X Endpoints : c = PairArtifacts(p[1], p[2])[f]
    BY <1>3 DEF PossibleContents
  <2>2. LiveEndpointObservationV1(p[1]) /\ LiveEndpointObservationV1(p[2])
    BY DirectoryAssumption
  <2> QED  BY <2>1, <2>2, PairContents
<1> QED  BY <1>1, <1>2, <1>3

\* The number of the file a step is about.
LEMMA StepNumbers ==
    ASSUME NEW s
    PROVE  /\ s \in {1, 3, 5, 7, 9, 11} =>
                 (s + 1) \div 2 \in 1..6 /\ s + 1 = 2 * ((s + 1) \div 2)
           /\ s \in {2, 4, 6, 8, 10, 12} =>
                 s \div 2 \in 1..6 /\ s = 2 * (s \div 2)
<1>1. ASSUME s \in {1, 3, 5, 7, 9, 11}
      PROVE  (s + 1) \div 2 \in 1..6 /\ s + 1 = 2 * ((s + 1) \div 2)
  BY <1>1
<1>2. ASSUME s \in {2, 4, 6, 8, 10, 12}
      PROVE  s \div 2 \in 1..6 /\ s = 2 * (s \div 2)
  BY <1>2
<1> QED  BY <1>1, <1>2

LEMMA StartKeeps == ASSUME IInv, StartPairing PROVE IInv'
<1>1. PICK a, b \in Inputs(dir) :
          Pairable(a, b) /\ writer' = [Idle EXCEPT !.step = 1, !.a = a, !.b = b]
  BY DEF StartPairing
<1>2. /\ dir' = dir /\ paired' = paired
      /\ DOMAIN writer' = {"step", "a", "b", "alone", "manifest"}
      /\ writer'.step = 1 /\ writer'.a = a /\ writer'.b = b
  BY <1>1 DEF StartPairing, Idle
<1>3. LiveEndpointObservationV1(a) /\ LiveEndpointObservationV1(b)
  BY <1>1, InputsAreEndpoints DEF IInv
<1>4. FilesInv(dir')
  BY <1>2 DEF IInv
<1>5. WriterInv'
  BY <1>1, <1>2, <1>3 DEF WriterInv
<1>6. Written'
  BY <1>2 DEF Written
<1>7. PairedInv'
  BY <1>2 DEF IInv, PairedInv
<1> QED  BY <1>4, <1>5, <1>6, <1>7 DEF IInv

LEMMA CreateKeeps == ASSUME IInv, CreateFile PROVE IInv'
<1> DEFINE k == (writer.step + 1) \div 2
<1>1. /\ k \in 1..6 /\ writer.step + 1 = 2 * k
      /\ writer.step \in {1, 3, 5, 7, 9, 11}
  BY StepNumbers DEF CreateFile
<1>2. /\ dir' = [dir EXCEPT ![RequiredFiles[k]] = Torn]
      /\ writer' = [writer EXCEPT !.step = @ + 1]
      /\ paired' = Null
  BY DEF CreateFile, Create
<1> HIDE DEF k
<1>3. /\ DOMAIN writer' = {"step", "a", "b", "alone", "manifest"}
      /\ writer'.step = writer.step + 1 /\ writer'.a = writer.a /\ writer'.b = writer.b
      /\ writer'.alone = writer.alone
  BY <1>2 DEF IInv, WriterInv
<1>4. /\ FilesInv(dir')
      /\ \A g \in Files : g # RequiredFiles[k] => dir'[g] = dir[g]
  <2>1. PICK f : f = RequiredFiles[k]
    OBVIOUS
  <2>2. PICK x : x = Torn
    OBVIOUS
  <2>3. f \in Files /\ (f \in Artifacts => (x.kind = "endpoint" => LiveEndpointObservationV1(x)))
    BY <2>1, <2>2, <1>1, FileNumbers, ArtifactNames DEF Torn
  <2>4. dir' = [dir EXCEPT ![f] = x]
    BY <1>2, <2>1, <2>2
  <2>5. FilesInv(dir)
    BY DEF IInv
  <2>6. /\ FilesInv(dir') /\ dir'[f] = x
        /\ \A g \in Files : g # f => dir'[g] = dir[g]
    BY <2>3, <2>4, <2>5, OneFile
  <2> QED  BY <2>1, <2>2, <2>6
<1>5. WriterInv'
  BY <1>1, <1>3 DEF IInv, WriterInv
<1>6. Written'
  <2> SUFFICES ASSUME writer'.alone
               PROVE  \A j \in 1..6 : 2 * j < writer'.step =>
                         dir'[RequiredFiles[j]]
                            = PairArtifacts(writer'.a, writer'.b)[RequiredFiles[j]]
    BY <1>1, <1>3 DEF Written
  <2> SUFFICES ASSUME NEW j \in 1..6, 2 * j < 2 * k
               PROVE  dir'[RequiredFiles[j]]
                            = PairArtifacts(writer'.a, writer'.b)[RequiredFiles[j]]
    BY <1>1, <1>3
  <2>1. RequiredFiles[j] # RequiredFiles[k] /\ RequiredFiles[j] \in Files
    BY <1>1, FileNumbers, ArtifactNames
  <2>2. dir'[RequiredFiles[j]] = dir[RequiredFiles[j]]
    BY <1>4, <2>1
  <2>3. 2 * j < writer.step /\ writer.step # 0 /\ writer.alone
    BY <1>1, <1>3
  <2> QED  BY <1>3, <2>2, <2>3 DEF IInv, Written
<1>7. PairedInv'
  BY <1>2 DEF PairedInv
<1> QED  BY <1>4, <1>5, <1>6, <1>7 DEF IInv

LEMMA WriteKeeps == ASSUME IInv, WriteFile PROVE IInv'
<1> DEFINE k == writer.step \div 2
           p == PairArtifacts(writer.a, writer.b)
<1>1. /\ k \in 1..6 /\ writer.step = 2 * k
      /\ writer.step \in {2, 4, 6, 8, 10, 12}
  BY StepNumbers DEF WriteFile
<1>2. /\ dir' = [dir EXCEPT ![RequiredFiles[k]] = p[RequiredFiles[k]]]
      /\ writer' = [writer EXCEPT !.step = @ + 1]
      /\ paired' = paired
  BY DEF WriteFile
<1>3. RequiredFiles[k] \in Artifacts /\ RequiredFiles[k] \in Files
  BY <1>1, FileNumbers, ArtifactNames
<1> HIDE DEF k, p
<1>4. /\ DOMAIN writer' = {"step", "a", "b", "alone", "manifest"}
      /\ writer'.step = writer.step + 1 /\ writer'.a = writer.a /\ writer'.b = writer.b
      /\ writer'.alone = writer.alone
  BY <1>2 DEF IInv, WriterInv
<1>5. p[RequiredFiles[k]].kind = "endpoint"
          => LiveEndpointObservationV1(p[RequiredFiles[k]])
  BY <1>1, <1>3, PairContents DEF IInv, WriterInv, p
<1>6. /\ FilesInv(dir')
      /\ dir'[RequiredFiles[k]] = p[RequiredFiles[k]]
      /\ \A g \in Files : g # RequiredFiles[k] => dir'[g] = dir[g]
  <2>1. PICK f : f = RequiredFiles[k]
    OBVIOUS
  <2>2. PICK x : x = p[RequiredFiles[k]]
    OBVIOUS
  <2>3. f \in Files /\ (f \in Artifacts => (x.kind = "endpoint" => LiveEndpointObservationV1(x)))
    BY <2>1, <2>2, <1>3, <1>5
  <2>4. dir' = [dir EXCEPT ![f] = x]
    BY <1>2, <2>1, <2>2
  <2>5. FilesInv(dir)
    BY DEF IInv
  <2>6. /\ FilesInv(dir') /\ dir'[f] = x
        /\ \A g \in Files : g # f => dir'[g] = dir[g]
    BY <2>3, <2>4, <2>5, OneFile
  <2> QED  BY <2>1, <2>2, <2>6
<1>7. WriterInv'
  BY <1>1, <1>4 DEF IInv, WriterInv
<1>8. Written'
  <2> SUFFICES ASSUME writer'.alone
               PROVE  \A j \in 1..6 : 2 * j < writer'.step =>
                         dir'[RequiredFiles[j]]
                            = PairArtifacts(writer'.a, writer'.b)[RequiredFiles[j]]
    BY <1>1, <1>4 DEF Written
  <2> SUFFICES ASSUME NEW j \in 1..6, j <= k
               PROVE  dir'[RequiredFiles[j]] = p[RequiredFiles[j]]
    BY <1>1, <1>4 DEF p
  <2>1. CASE j = k
    BY <1>6, <2>1
  <2>2. CASE j # k
    <3>1. RequiredFiles[j] # RequiredFiles[k] /\ RequiredFiles[j] \in Files
      BY <1>1, <2>2, FileNumbers, ArtifactNames
    <3>2. dir'[RequiredFiles[j]] = dir[RequiredFiles[j]]
      BY <1>6, <3>1
    <3>3. 2 * j < writer.step /\ writer.step # 0 /\ writer.alone
      BY <1>1, <1>4, <2>2
    <3> QED  BY <3>2, <3>3 DEF IInv, Written, p
  <2> QED  BY <2>1, <2>2
<1>9. PairedInv'
  BY <1>1, <1>2 DEF IInv, PairedInv
<1> QED  BY <1>6, <1>7, <1>8, <1>9 DEF IInv

LEMMA CreateManifestKeeps == ASSUME IInv, CreateManifest PROVE IInv'
<1> DEFINE p == PairArtifacts(writer.a, writer.b)
           m(d) == build_manifest_entries(d, writer.a.session, writer.a.commit)
<1>1. /\ writer.step = 13
      /\ dir' = [dir EXCEPT ![Manifest] = Torn]
      /\ writer' = [writer EXCEPT !.step = 14, !.manifest = m(dir)]
      /\ paired' = Null
  BY DEF CreateManifest, Create
<1>2. /\ DOMAIN writer' = {"step", "a", "b", "alone", "manifest"}
      /\ writer'.step = 14 /\ writer'.a = writer.a /\ writer'.b = writer.b
      /\ writer'.alone = writer.alone /\ writer'.manifest = m(dir)
  <2> HIDE DEF m
  <2> QED  BY <1>1 DEF IInv, WriterInv
<1>3. /\ FilesInv(dir')
      /\ \A g \in Files : g # Manifest => dir'[g] = dir[g]
  <2>1. PICK f : f = Manifest
    OBVIOUS
  <2>2. PICK x : x = Torn
    OBVIOUS
  <2>3. f \in Files /\ (f \in Artifacts => (x.kind = "endpoint" => LiveEndpointObservationV1(x)))
    BY <2>1, <2>2, ArtifactNames
  <2>4. dir' = [dir EXCEPT ![f] = x]
    BY <1>1, <2>1, <2>2
  <2>5. FilesInv(dir)
    BY DEF IInv
  <2>6. /\ FilesInv(dir') /\ dir'[f] = x
        /\ \A g \in Files : g # f => dir'[g] = dir[g]
    BY <2>3, <2>4, <2>5, OneFile
  <2> QED  BY <2>1, <2>2, <2>6
<1>4. WriterInv'
  BY <1>1, <1>2 DEF IInv, WriterInv
<1>5. Written'
  <2> SUFFICES ASSUME writer'.alone
               PROVE  /\ \A k \in 1..6 : dir'[RequiredFiles[k]] = p[RequiredFiles[k]]
                      /\ writer'.manifest = m(p)
    BY <1>2 DEF Written
  <2>1. \A k \in 1..6 : dir[RequiredFiles[k]] = p[RequiredFiles[k]]
    BY <1>1, <1>2 DEF IInv, Written
  <2>2. \A k \in 1..6 : dir'[RequiredFiles[k]] = dir[RequiredFiles[k]]
    BY <1>3, FileNumbers, ArtifactNames
  <2> HIDE DEF p
  <2>3. m(dir) = m(p)
    BY <2>1 DEF build_manifest_entries
  <2> QED  BY <1>2, <2>1, <2>2, <2>3
<1>6. PairedInv'
  BY <1>1 DEF PairedInv
<1> QED  BY <1>3, <1>4, <1>5, <1>6 DEF IInv

LEMMA WriteManifestKeeps == ASSUME IInv, WriteManifest PROVE IInv'
<1> DEFINE p == PairArtifacts(writer.a, writer.b)
<1>1. /\ writer.step = 14
      /\ dir' = [dir EXCEPT ![Manifest] = writer.manifest]
      /\ paired' = IF writer.alone THEN <<writer.a, writer.b>> ELSE Null
      /\ writer' = Idle
  BY DEF WriteManifest
<1>2. /\ FilesInv(dir')
      /\ dir'[Manifest] = writer.manifest
      /\ \A g \in Files : g # Manifest => dir'[g] = dir[g]
  <2>1. PICK f : f = Manifest
    OBVIOUS
  <2>2. PICK x : x = writer.manifest
    OBVIOUS
  <2>3. f \in Files /\ (f \in Artifacts => (x.kind = "endpoint" => LiveEndpointObservationV1(x)))
    BY <2>1, <2>2, ArtifactNames
  <2>4. dir' = [dir EXCEPT ![f] = x]
    BY <1>1, <2>1, <2>2
  <2>5. FilesInv(dir)
    BY DEF IInv
  <2>6. /\ FilesInv(dir') /\ dir'[f] = x
        /\ \A g \in Files : g # f => dir'[g] = dir[g]
    BY <2>3, <2>4, <2>5, OneFile
  <2> QED  BY <2>1, <2>2, <2>6
<1>3. /\ DOMAIN writer' = {"step", "a", "b", "alone", "manifest"}
      /\ writer'.step = 0
  BY <1>1 DEF Idle
<1>4. WriterInv' /\ Written'
  BY <1>3 DEF WriterInv, Written
<1>5. PairedInv'
  <2>1. CASE writer.alone
    <3>1. paired' = <<writer.a, writer.b>>
      BY <1>1, <2>1
    <3>2. paired'[1] = writer.a /\ paired'[2] = writer.b
      BY <3>1
    <3>3. /\ LiveEndpointObservationV1(writer.a)
          /\ LiveEndpointObservationV1(writer.b)
          /\ Pairable(writer.a, writer.b)
      BY <1>1 DEF IInv, WriterInv
    <3>4. /\ \A k \in 1..6 : dir[RequiredFiles[k]] = p[RequiredFiles[k]]
          /\ writer.manifest = build_manifest_entries(p, writer.a.session, writer.a.commit)
      BY <1>1, <2>1 DEF IInv, Written
    <3> HIDE DEF p
    <3>5. \A f \in Artifacts : dir'[f] = p[f]
      BY <1>2, <3>4, ArtifactNames DEF Artifacts
    <3>6. Holds(dir', writer.a, writer.b)
      BY <1>2, <3>4, <3>5 DEF Holds, p
    <3> QED  BY <1>3, <3>2, <3>3, <3>6 DEF PairedInv
  <2>2. CASE ~ writer.alone
    BY <1>1, <2>2 DEF PairedInv
  <2> QED  BY <2>1, <2>2
<1> QED  BY <1>2, <1>4, <1>5 DEF IInv

LEMMA StopKeeps == ASSUME IInv, Stop PROVE IInv'
<1>1. /\ writer' = Idle /\ dir' = dir /\ paired' = paired
      /\ DOMAIN writer' = {"step", "a", "b", "alone", "manifest"}
      /\ writer'.step = 0
  BY DEF Stop, Idle
<1>2. WriterInv' /\ Written'
  BY <1>1 DEF WriterInv, Written
<1>3. FilesInv(dir') /\ PairedInv'
  BY <1>1 DEF IInv, PairedInv
<1> QED  BY <1>2, <1>3 DEF IInv

LEMMA Preserved == IInv /\ [Next]_vars => IInv'
<1> SUFFICES ASSUME IInv, [Next]_vars PROVE IInv'
  OBVIOUS
<1>1. CASE UNCHANGED vars
  BY <1>1 DEF vars, IInv, FilesInv, WriterInv, Written, PairedInv
<1>2. CASE StartPairing
  BY <1>2, StartKeeps
<1>3. CASE CreateFile
  BY <1>3, CreateKeeps
<1>4. CASE WriteFile
  BY <1>4, WriteKeeps
<1>5. CASE CreateManifest
  BY <1>5, CreateManifestKeeps
<1>6. CASE WriteManifest
  BY <1>6, WriteManifestKeeps
<1>7. CASE Stop
  BY <1>7, StopKeeps
<1>8. CASE EditFile
  <2>1. PICK f \in Artifacts : \E c \in PossibleContents(f) \cup {Missing} :
            Others([dir EXCEPT ![f] = c])
    BY <1>8 DEF EditFile
  <2>2. PICK c \in PossibleContents(f) \cup {Missing} : Others([dir EXCEPT ![f] = c])
    BY <2>1
  <2>3. f \in Files /\ (c.kind = "endpoint" => LiveEndpointObservationV1(c))
    BY ContentsAllowed, ArtifactNames
  <2> QED  BY <2>2, <2>3, OthersKeep
<1>9. CASE SummarizeRun
  <2> DEFINE c == [kind |-> "run report"]
  <2>1. Others([dir EXCEPT !["report.md"] = c])
    BY <1>9 DEF SummarizeRun
  <2>2. c.kind # "endpoint" /\ "report.md" \in Files
    BY ArtifactNames
  <2> HIDE DEF c
  <2> QED  BY <2>1, <2>2, OthersKeep
<1>10. CASE Rehash
  <2> DEFINE c == build_manifest_entries(dir, dir[Manifest].session, dir[Manifest].commit)
  <2>1. Others([dir EXCEPT ![Manifest] = c])
    BY <1>10 DEF Rehash
  <2>2. Manifest \in Files /\ Manifest \notin Artifacts
    BY ArtifactNames
  <2> HIDE DEF c
  <2> QED  BY <2>1, <2>2, OthersKeep
<1> QED
  BY <1>1, <1>2, <1>3, <1>4, <1>5, <1>6, <1>7, <1>8, <1>9, <1>10 DEF Next

-----------------------------------------------------------------------------
(* The theorems                                                            *)

\* Every file is an endpoint when it looks like one, the running pairing has
\* two endpoints that fit, and what an undisturbed pairing wrote is there.
THEOREM Invariance == Spec => []IInv
<1> QED  BY Initially, Preserved, PTL DEF Spec

\* Whatever was cut short or exchanged, a directory that verifies holds two
\* sound, matching observations, and its documents are about them.
THEOREM PairSound == Spec => []ValidMeansPaired
<1>1. IInv => ValidMeansPaired
  BY VerifiedIsPaired DEF IInv, ValidMeansPaired
<1> QED  BY Invariance, <1>1, PTL

\* What pairing wrote verifies, unless a number drifts when it is printed
\* and parsed.
THEOREM UndisturbedVerifies == Spec => []PairedVerifies
<1>1. IInv => PairedVerifies
  BY HoldsVerifies DEF IInv, PairedInv, PairedVerifies
<1> QED  BY Invariance, <1>1, PTL

\* One manifest, one set of files.
THEOREM ManifestCorrect == Spec => ManifestFixesFiles
<1> DEFINE Same == validate_live_directory(dir) /\ validate_live_directory(dir)'
                     /\ dir'[Manifest] = dir[Manifest] => dir' = dir
<1>1. IInv /\ IInv' => [Same]_vars
  BY ManifestFixes DEF IInv
<1>2. Spec => [][Same]_vars
  BY Invariance, <1>1, PTL DEF Spec
<1> QED  BY <1>2 DEF ManifestFixesFiles
=============================================================================
