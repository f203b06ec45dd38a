-------------------------- MODULE SyntheticProofs --------------------------
(***************************************************************************)
(* Proofs about SyntheticLoopback, for any number of pulses, any times and *)
(* any delays, losses and noises: the greedy matching of sounds to pulses  *)
(* keeps their order, every exported record is accepted, one that passes   *)
(* the assessment was measured, and none passes where spectra are read in  *)
(* decibels.                                                               *)
(***************************************************************************)
EXTENDS SyntheticLoopback, SequenceTheorems, WellFoundedInduction, TLAPS

-----------------------------------------------------------------------------
(* The inductive invariant                                                 *)

Detection == [at : Int, tuned : BOOLEAN]
Pair == [index : Nat, at : Int, latency : Int]

TypeInv ==
    /\ phase \in {"connecting", "emitting", "correlating", "done", "rejected"}
    /\ clock \in Int /\ lastPeakAt \in Int
    /\ emits \in Seq(Int)
    /\ detections \in Seq(Detection)
    /\ pairs \in Seq(Pair)

\* Pulses are emitted as time goes on.
EmitsInv ==
    /\ \A i \in DOMAIN emits : emits[i] <= clock
    /\ \A i, j \in DOMAIN emits : i < j => emits[i] <= emits[j]

\* Each peak was found after the one before.
DetectionsInv ==
    /\ lastPeakAt <= clock
    /\ \A i \in DOMAIN detections : detections[i].at <= lastPeakAt
    /\ \A i, j \in DOMAIN detections : i < j => detections[i].at < detections[j].at

\* Pairs are made of sounds before those that are left, and an emit that was
\* passed over though it would have matched has its pair already.
PairsInv ==
    /\ phase \in {"connecting", "emitting"} => pairs = <<>>
    /\ \A i \in DOMAIN pairs :
          /\ pairs[i].index \in DOMAIN emits
          /\ \A k \in DOMAIN detections : pairs[i].at < detections[k].at
          /\ \A f \in Matching(pairs[i].at) :
                f < pairs[i].index => \E k \in DOMAIN pairs : pairs[k].index = f

\* There is something to detect only where a stream came, and no round trip
\* time but those of the data channel.
HeardInv ==
    /\ rtt \in Rtts \cup {Null}
    /\ phase = "connecting" => detections = <<>>
    /\ detections # <<>> \/ pairs # <<>> => remote

ExportInv == phase = "done" => parse_and_validate(result.run)

IInv ==
    /\ TypeInv /\ EmitsInv /\ DetectionsInv /\ PairsInv /\ HeardInv
    /\ PairsInOrder /\ ExportInv /\ PassIsMeasured

-----------------------------------------------------------------------------
(* Sequences                                                               *)

LEMMA Appended ==
    ASSUME NEW T, NEW s \in Seq(T), NEW e \in T
    PROVE  /\ Append(s, e) \in Seq(T)
           /\ DOMAIN Append(s, e) = DOMAIN s \cup {Len(s) + 1}
           /\ DOMAIN s = 1..Len(s) /\ Len(s) \in Nat
           /\ \A i \in DOMAIN s : Append(s, e)[i] = s[i]
           /\ Append(s, e)[Len(s) + 1] = e
<1>1. /\ Append(s, e) \in Seq(T) /\ Len(Append(s, e)) = Len(s) + 1
      /\ \A i \in 1..Len(s) : Append(s, e)[i] = s[i]
      /\ Append(s, e)[Len(s) + 1] = e
  BY AppendProperties
<1>2. DOMAIN s = 1..Len(s) /\ Len(s) \in Nat
  OBVIOUS
<1>3. DOMAIN Append(s, e) = 1..(Len(s) + 1)
  BY <1>1
<1> QED  BY <1>1, <1>2, <1>3

LEMMA Dropped ==
    ASSUME NEW T, NEW s \in Seq(T), s # <<>>
    PROVE  /\ Tail(s) \in Seq(T)
           /\ Head(s) = s[1] /\ 1 \in DOMAIN s
           /\ \A i \in DOMAIN Tail(s) :
                 i \in Nat \ {0} /\ i + 1 \in DOMAIN s /\ Tail(s)[i] = s[i + 1]
<1>1. /\ Tail(s) \in Seq(T) /\ Len(Tail(s)) = Len(s) - 1
      /\ \A i \in 1..Len(Tail(s)) : Tail(s)[i] = s[i + 1]
  BY HeadTailProperties
<1>2. DOMAIN s = 1..Len(s) /\ Len(s) \in Nat \ {0}
  BY EmptySeq
<1>3. DOMAIN Tail(s) = 1..(Len(s) - 1)
  BY <1>1
<1>4. Head(s) = s[1]
  OBVIOUS
<1> QED  BY <1>1, <1>2, <1>3, <1>4

LEMMA Members ==
    ASSUME NEW T, NEW s \in Seq(T)
    PROVE  /\ DOMAIN s = 1..Len(s) /\ Len(s) \in Nat
           /\ \A i \in DOMAIN s : s[i] \in T
OBVIOUS

\* The least of the emits that are free.
LEMMA LeastIsFree ==
    ASSUME NEW S \in SUBSET Nat, S # {}
    PROVE  Min(S) \in S /\ \A i \in S : Min(S) <= i
<1>1. PICK m \in S : \A k \in S : ~ (<<k, m>> \in OpToRel(<, Nat))
  BY WFMin, NatLessThanWellFounded
<1>2. \A k \in S : m <= k
  <2>1. S \in SUBSET Nat
    OBVIOUS
  <2>2. \A k \in S : ~ (k < m)
    BY <1>1, <2>1 DEF OpToRel
  <2> QED  BY <2>1, <2>2
<1>3. \E x \in S : \A k \in S : x <= k
  BY <1>2
<1> DEFINE Least(x) == \A k \in S : x <= k
<1>4. \E x \in S : Least(x)
  BY <1>3
<1>5. Min(S) = CHOOSE x \in S : Least(x)
  BY DEF Min
<1> HIDE DEF Least
<1>6. Min(S) \in S /\ Least(Min(S))
  BY <1>4, <1>5, Zenon
<1> QED  BY <1>6 DEF Least

-----------------------------------------------------------------------------
(* The mean of the latencies                                               *)

\* A mean is no larger than what bounds each of the values.
LEMMA Quotient ==
    ASSUME NEW a \in Nat, NEW b \in Nat, NEW n \in Nat \ {0}, a <= n * b
    PROVE  a \div n \in 0..b
<1>1. PICK q : q = a \div n
  OBVIOUS
<1>2. /\ q \in Int /\ n * q <= a /\ a < n * (q + 1)
  BY <1>1
<1>3. q >= 0
  <2> SUFFICES ASSUME q + 1 <= 0 PROVE FALSE
    BY <1>2
  <2>1. PICK m \in Nat : m = -(q + 1)
    BY <1>2
  <2>2. n * m \in Nat /\ n * (q + 1) = -(n * m)
    BY <1>2, <2>1
  <2> QED  BY <1>2, <2>2
<1>4. q <= b
  <2> SUFFICES ASSUME q >= b + 1 PROVE FALSE
    BY <1>2
  <2>1. PICK m \in Nat : q = b + 1 + m
    <3>1. q - (b + 1) \in Nat
      BY <1>2
    <3> QED  BY <1>2, <3>1
  <2>2. n * m \in Nat /\ n * q = n * b + n + n * m
    BY <1>2, <2>1
  <2> QED  BY <1>2, <2>2
<1> QED  BY <1>1, <1>2, <1>3, <1>4

\* Adding the latencies up one by one stays below as many times their bound.
LEMMA SumBounded ==
    ASSUME NEW ps, Len(ps) \in Nat, NEW bound \in Nat,
           \A i \in 1..Len(ps) : ps[i].latency \in 0..bound
    PROVE  LatencySum(ps) \in 0..(Len(ps) * bound)
<1> DEFINE Sum(f, m) == [n \in 0..m |-> IF n = 0 THEN 0 ELSE f[n - 1] + ps[n].latency]
           IsSum(f, m) == f = Sum(f, m)
           sum == CHOOSE f : IsSum(f, Len(ps))
           Bad == {m \in Nat : ~ \E f : IsSum(f, m)}
           Wrong == {n \in 0..Len(ps) : ~ sum[n] \in 0..(n * bound)}
<1>1. LatencySum(ps) = sum[Len(ps)]
  BY DEF LatencySum
<1>2. IsSum([n \in 0..0 |-> 0], 0)
  OBVIOUS
<1>3. ASSUME NEW m \in Nat, NEW f, IsSum(f, m)
      PROVE  \E g : IsSum(g, m + 1)
  <2> DEFINE g == [n \in 0..(m + 1) |-> IF n <= m THEN f[n] ELSE f[m] + ps[n].latency]
  <2>1. \A n \in 0..m : f[n] = IF n = 0 THEN 0 ELSE f[n - 1] + ps[n].latency
    BY <1>3
  <2>2. \A n \in 0..(m + 1) : g[n] = IF n = 0 THEN 0 ELSE g[n - 1] + ps[n].latency
    <3> SUFFICES ASSUME NEW n \in 0..(m + 1)
                 PROVE  g[n] = IF n = 0 THEN 0 ELSE g[n - 1] + ps[n].latency
      OBVIOUS
    <3>1. CASE n <= m
      BY <2>1, <3>1
    <3>2. CASE n = m + 1
      BY <3>2
    <3> QED  BY <3>1, <3>2
  <2>3. g = [n \in 0..(m + 1) |-> g[n]]
    OBVIOUS
  <2> HIDE DEF g
  <2>4. IsSum(g, m + 1)
    BY <2>2, <2>3
  <2> QED  BY <2>4
<1> HIDE DEF IsSum, Sum
<1>4. \A m \in Nat : \E f : IsSum(f, m)
  <2> SUFFICES ASSUME Bad # {} PROVE FALSE
    OBVIOUS
  <2>1. PICK m \in Bad : \A k \in Bad : m <= k
    <3>1. Bad \in SUBSET Nat
      OBVIOUS
    <3> QED  BY <3>1, LeastIsFree
  <2>2. m # 0
    BY <1>2
  <2>3. m - 1 \in Nat /\ m - 1 \notin Bad
    BY <2>1, <2>2
  <2>4. PICK f : IsSum(f, m - 1)
    BY <2>3
  <2>5. \E g : IsSum(g, m - 1 + 1)
    BY <1>3, <2>3, <2>4
  <2>6. m - 1 + 1 = m
    OBVIOUS
  <2> QED  BY <2>5, <2>6
<1>5. IsSum(sum, Len(ps))
  <2>1. \E f : IsSum(f, Len(ps))
    BY <1>4
  <2> QED  BY <2>1
<1> HIDE DEF sum
<1>6. \A n \in 0..Len(ps) : sum[n] = IF n = 0 THEN 0 ELSE sum[n - 1] + ps[n].latency
  <2>1. sum = [n \in 0..Len(ps) |-> IF n = 0 THEN 0 ELSE sum[n - 1] + ps[n].latency]
    BY <1>5 DEF IsSum, Sum
  <2> QED  BY <2>1
<1>7. Wrong = {}
  <2> SUFFICES ASSUME Wrong # {} PROVE FALSE
    OBVIOUS
  <2>1. PICK n \in Wrong : \A k \in Wrong : n <= k
    <3>1. Wrong \in SUBSET Nat
      OBVIOUS
    <3> QED  BY <3>1, LeastIsFree
  <2>2. n # 0
    BY <1>6
  <2>3. n - 1 \in 0..Len(ps) /\ n - 1 \notin Wrong /\ n \in 1..Len(ps)
    BY <2>1, <2>2
  <2>4. sum[n - 1] \in 0..((n - 1) * bound)
    BY <2>3
  <2>5. sum[n] = sum[n - 1] + ps[n].latency
    BY <1>6, <2>2
  <2>6. (n - 1) * bound + bound = n * bound
    OBVIOUS
  <2>7. (n - 1) * bound \in Nat
    BY <2>3
  <2>8. ps[n].latency \in 0..bound
    BY <2>3
  <2>9. sum[n] \in 0..(n * bound)
    <3> HIDE DEF Wrong
    <3> QED  BY <2>4, <2>5, <2>6, <2>7, <2>8
  <2> QED  BY <2>9
<1>8. sum[Len(ps)] \in 0..(Len(ps) * bound)
  BY <1>7
<1> QED  BY <1>1, <1>8
LEMMA MeanBounded ==
    ASSUME NEW ps \in Seq(Pair), Len(ps) # 0,
           \A i \in DOMAIN ps : ps[i].latency \in 0..MaxLatency
    PROVE  Mean(ps) \in 0..(Scale * MaxLatency)
<1>1. PICK n \in Nat \ {0} : n = Len(ps)
  OBVIOUS
<1>2. PICK sum : sum = LatencySum(ps)
  OBVIOUS
<1>3. sum \in 0..(n * MaxLatency)
  <2>1. \A i \in 1..Len(ps) : ps[i].latency \in 0..MaxLatency
    OBVIOUS
  <2>2. LatencySum(ps) \in 0..(Len(ps) * MaxLatency)
    BY <1>1, <2>1, SyntheticAssumption, SumBounded
  <2> QED  BY ONLY <1>1, <1>2, <2>2
<1>4. Scale * sum \in Nat /\ Scale * sum <= n * (Scale * MaxLatency)
  <2>1. PICK rest \in Nat : sum + rest = n * MaxLatency
    <3>1. n * MaxLatency - sum \in Nat
      BY <1>3, SyntheticAssumption
    <3> QED  BY <1>3, <3>1, SyntheticAssumption
  <2>2. Scale * sum \in Nat /\ Scale * rest \in Nat
    BY <1>3, <2>1, RunAssumption
  <2>3. Scale * sum + Scale * rest = n * (Scale * MaxLatency)
    BY <1>3, <2>1, RunAssumption, SyntheticAssumption
  <2>4. n * (Scale * MaxLatency) \in Nat
    BY RunAssumption, SyntheticAssumption
  <2> QED  BY <2>2, <2>3, <2>4
<1>5. PICK a \in Nat, b \in Nat : a = Scale * sum /\ b = Scale * MaxLatency
  BY <1>4, RunAssumption, SyntheticAssumption
<1>6. a \div n \in 0..b
  BY <1>4, <1>5, Quotient
<1>7. Mean(ps) = a \div n
  BY <1>1, <1>2, <1>5 DEF Mean
<1> QED  BY ONLY <1>5, <1>6, <1>7

-----------------------------------------------------------------------------
(* The exported record                                                     *)

LEMMA DraftIsValid ==
    ASSUME NEW r, Len(r.pairs) \in Nat
    PROVE  parse_and_validate(buildPerformanceRunDraft(r))
<1> DEFINE run == buildPerformanceRunDraft(r)
<1>1. /\ run.flaws = {}
      /\ run.pulsesDetected = Observed(Len(r.pairs))
  BY DEF buildPerformanceRunDraft
<1>2. \A f \in Metrics : run[f].kind = "unavailable" => run[f].value = Null
  <2>1. \A v : /\ Time(v).kind = "unavailable" => Time(v).value = Null
               /\ Observed(v).kind # "unavailable"
               /\ ObservedOr(v).kind = "unavailable" => ObservedOr(v).value = Null
    BY DEF Time, Observed, ObservedOr, Unavailable
  <2>2. Unavailable.value = Null /\ Unsupported.kind # "unavailable"
    BY DEF Unavailable, Unsupported
  <2>3. \A m : (m.kind = "unavailable" => m.value = Null) =>
               (IfPathOk(r, m).kind = "unavailable" => IfPathOk(r, m).value = Null)
    BY <2>2 DEF IfPathOk
  <2>4. \A f \in TimingFields : run[f].kind = "unavailable" => run[f].value = Null
    BY <2>1, <2>2, <2>3 DEF TimingFields, buildPerformanceRunDraft
  <2>5. \A f \in PulseFields : run[f].kind = "unavailable" => run[f].value = Null
    BY <2>1, <2>2, <2>3 DEF PulseFields, buildPerformanceRunDraft
  <2>6. \A f \in TransportFields : run[f].kind = "unavailable" => run[f].value = Null
    BY <2>1, <2>2 DEF TransportFields, buildPerformanceRunDraft
  <2> QED  BY <2>4, <2>5, <2>6 DEF Metrics
<1>3. check_failed_path_zero_observed(run)
  <2>1. CASE Len(r.pairs) > 0
    <3>1. Len(r.pairs) # Null
      BY SyntheticAssumption
    <3>2. run.pulsesDetected.value = Len(r.pairs)
      BY <1>1 DEF Observed
    <3> HIDE DEF run
    <3> QED  BY <2>1, <3>1, <3>2 DEF check_failed_path_zero_observed, Positive
  <2>2. CASE Len(r.pairs) = 0
    <3>1. ~ PathOk(r)
      BY <2>2 DEF PathOk
    <3>2. \A f \in Suspicious : run[f] = Unavailable
      BY <3>1 DEF Suspicious, buildPerformanceRunDraft, IfPathOk
    <3>3. Unavailable # Observed(0)
      BY DEF Unavailable, Observed
    <3> HIDE DEF run
    <3> QED  BY <3>2, <3>3 DEF check_failed_path_zero_observed
  <2> QED  BY <2>1, <2>2
<1> HIDE DEF run
<1>4. parse_and_validate(run)
  BY <1>1, <1>2, <1>3 DEF parse_and_validate, validate_run, check_zero_filled_metrics
<1> QED  BY <1>4 DEF run

\* What PassIsMeasured says of a record.
Measured(outcome, run) ==
    LET derived == compute_derived_metrics(run)
    IN  /\ outcome = "pass"
        /\ run.pulseEmitMs.kind = "observed" /\ run.pulseDetectMs.kind = "observed"
        /\ run.loopbackLatencyMs.kind = "observed"
        /\ run.loopbackLatencyMs.value \in 0..(Scale * MaxLatency)
        /\ derived.endToEndSyntheticMs.value =
              run.loopbackLatencyMs.value + run.connectionSetupMs.value
        /\ derived.datachannelOverheadMs.kind = "invalid"
           \/ derived.datachannelOverheadMs.value \in 0..run.loopbackLatencyMs.value

\* A run that had a pulse to count passed in the browser, and passes there
\* whenever it passes here.
LEMMA DraftIsMeasured ==
    ASSUME NEW r, r.pairs \in Seq(Pair),
           \A i \in DOMAIN r.pairs : r.pairs[i].latency \in 0..MaxLatency,
           r.rtt \in Rtts \cup {Null},
           r.pairs # <<>> => /\ r.outcome = "pass" /\ r.setup = 1 /\ r.emit \in Int
                             /\ r.bytes > 0 => r.live,
           assess_synthetic_observation(buildPerformanceRunDraft(r))
    PROVE  Measured(r.outcome, buildPerformanceRunDraft(r))
<1> DEFINE run == buildPerformanceRunDraft(r)
           derived == compute_derived_metrics(run)
           n == Len(r.pairs)
<1>1. /\ run.level = "browser_synthetic_media_path"
      /\ run.pulsesDetected = Observed(n)
      /\ run.bytesReceived = Observed(r.bytes)
      /\ run.pulseEmitMs = Time(r.emit)
      /\ run.pulseDetectMs = IfPathOk(r, Time(r.pairs[1].at))
      /\ run.loopbackLatencyMs = IfPathOk(r, Observed(Mean(r.pairs)))
      /\ run.datachannelRttMs = Time(r.rtt)
      /\ run.connectionSetupMs = Time(r.setup)
  BY DEF buildPerformanceRunDraft
<1>2. assess_run(run)
  BY DEF assess_synthetic_observation
<1> HIDE DEF run
<1>3. /\ AtLeast(run.pulsesDetected, MinDetected)
      /\ Positive(Value(run.bytesReceived))
  BY <1>1, <1>2 DEF assess_run
<1>4. n >= 4 /\ r.bytes > 0
  <2>1. Value(Observed(n)) = n /\ Value(Observed(r.bytes)) = r.bytes
    BY DEF Value, Observed
  <2> QED
    BY <1>1, <1>3, <2>1, RunAssumption, SyntheticAssumption DEF AtLeast, Positive
<1>5. /\ PathOk(r) /\ r.outcome = "pass" /\ r.setup = 1 /\ r.emit \in Int
  BY <1>4 DEF PathOk
<1>6. /\ Mean(r.pairs) \in 0..(Scale * MaxLatency)
      /\ r.pairs[1].at \in Int
  <2>1. 1 \in DOMAIN r.pairs /\ n # 0
    BY <1>4
  <2>2. r.pairs[1] \in Pair
    BY <2>1, Members
  <2> QED  BY <2>1, <2>2, MeanBounded DEF Pair
<1> DEFINE mean == Mean(r.pairs)
<1>7. /\ run.pulseEmitMs = Observed(Scale * r.emit)
      /\ run.pulseDetectMs = Observed(Scale * r.pairs[1].at)
      /\ run.loopbackLatencyMs = Observed(mean)
      /\ run.connectionSetupMs = Observed(Scale)
      /\ run.datachannelRttMs =
            IF r.rtt = Null THEN Unavailable ELSE Observed(Scale * r.rtt)
  <2>1. r.emit # Null /\ r.pairs[1].at # Null /\ r.setup # Null
    BY <1>5, <1>6, SyntheticAssumption
  <2> QED  BY <1>1, <1>5, <2>1, RunAssumption DEF IfPathOk, Time
<1> HIDE DEF mean
<1>8. mean \in Nat /\ mean \in 0..(Scale * MaxLatency) /\ mean # Null
  BY <1>6, SyntheticAssumption DEF mean
<1>9. /\ Value(run.loopbackLatencyMs) = mean /\ run.loopbackLatencyMs.value = mean
      /\ Value(run.connectionSetupMs) = Scale /\ run.connectionSetupMs.value = Scale
      /\ run.loopbackLatencyMs.kind = "observed"
      /\ run.pulseEmitMs.kind = "observed" /\ run.pulseDetectMs.kind = "observed"
      /\ Value(run.datachannelRttMs) =
            IF r.rtt = Null THEN Null ELSE Scale * r.rtt
      /\ Positive(Value(run.pulsesDetected))
  <2>1. n # Null
    BY SyntheticAssumption
  <2> QED  BY <1>1, <1>4, <1>7, <2>1 DEF Value, Observed, Unavailable, Positive
<1> DEFINE rttValue == Value(run.datachannelRttMs)
<1>10. rttValue = Null \/ (rttValue \in Nat /\ rttValue # Null)
  <2>1. CASE r.rtt = Null
    BY <1>9, <2>1
  <2>2. CASE r.rtt # Null
    <3>1. r.rtt \in Nat
      BY <2>2, SyntheticAssumption
    <3>2. Scale * r.rtt \in Nat
      BY <3>1, RunAssumption
    <3> QED  BY <1>9, <2>2, <3>2, SyntheticAssumption
  <2> QED  BY <2>1, <2>2
<1>11. derived.endToEndSyntheticMs = Observed(mean + Scale)
  BY <1>8, <1>9, RunAssumption, SyntheticAssumption DEF compute_derived_metrics
<1>12. derived.datachannelOverheadMs =
          IF rttValue = Null THEN Observed(mean)
          ELSE IF mean >= rttValue THEN Observed(mean - rttValue) ELSE Invalid
  BY <1>8, <1>9 DEF compute_derived_metrics
<1> HIDE DEF derived, rttValue
<1>13. /\ derived.endToEndSyntheticMs.value = mean + Scale
       /\ derived.datachannelOverheadMs.kind = "invalid"
          \/ derived.datachannelOverheadMs.value \in 0..mean
  BY <1>8, <1>10, <1>11, <1>12 DEF Observed, Invalid
<1>14. Measured(r.outcome, run)
  BY <1>5, <1>8, <1>9, <1>13 DEF Measured, derived
<1> QED  BY <1>14 DEF run

-----------------------------------------------------------------------------
(* The steps                                                               *)

LEMMA Initially == Init => IInv
<1> SUFFICES ASSUME Init PROVE IInv
  OBVIOUS
<1>1. /\ phase = "connecting" /\ clock = 1 /\ lastPeakAt = -Cooldown - 1
      /\ emits = <<>> /\ detections = <<>> /\ pairs = <<>>
  BY DEF Init
<1>2. TypeInv
  BY <1>1, SyntheticAssumption DEF TypeInv
<1>3. EmitsInv /\ DetectionsInv
  BY <1>1, SyntheticAssumption DEF EmitsInv, DetectionsInv
<1>4. PairsInv /\ PairsInOrder /\ ExportInv
  BY <1>1 DEF PairsInv, PairsInOrder, ExportInv
<1>5. HeardInv /\ PassIsMeasured
  BY <1>1 DEF Init, HeardInv, PassIsMeasured
<1> QED  BY <1>2, <1>3, <1>4, <1>5 DEF IInv

\* A step that changes none of the sequences, nor what the record depends on.
LEMMA OthersKeep ==
    ASSUME IInv, clock' = clock, lastPeakAt' = lastPeakAt, emits' = emits,
           detections' = detections, pairs' = pairs,
           phase' \in {"connecting", "emitting", "correlating", "done", "rejected"},
           phase' \in {"connecting", "emitting"} => phase \in {"connecting", "emitting"},
           HeardInv', ExportInv', PassIsMeasured'
    PROVE  IInv'
<1>1. TypeInv' /\ EmitsInv' /\ DetectionsInv' /\ PairsInOrder'
  BY DEF IInv, TypeInv, EmitsInv, DetectionsInv, PairsInOrder
<1>2. PairsInv'
  BY DEF IInv, PairsInv, Matching
<1> QED  BY <1>1, <1>2 DEF IInv

\* A step that neither exports nor ends the connecting.
LEMMA RestKeeps ==
    ASSUME IInv, rtt' = rtt, remote' = remote,
           phase' # "done",
           phase' = "connecting" => detections' = <<>>,
           detections' # <<>> \/ pairs' # <<>> => remote
    PROVE  HeardInv' /\ ExportInv' /\ PassIsMeasured'
BY DEF IInv, HeardInv, ExportInv, PassIsMeasured

LEMMA ExportKeeps ==
    ASSUME IInv, NEW r, r.pairs \in Seq(Pair),
           \A i \in DOMAIN r.pairs : r.pairs[i].latency \in 0..MaxLatency,
           r.rtt \in Rtts \cup {Null},
           r.pairs # <<>> => /\ r.outcome = "pass" /\ r.setup = 1 /\ r.emit \in Int
                             /\ r.bytes > 0 => r.live,
           Export(r),
           UNCHANGED <<clock, emits, lastPeakAt, detections, pairs, remote, rtt>>
    PROVE  IInv'
<1>1. /\ phase' = "done" /\ result'.run = buildPerformanceRunDraft(r)
      /\ result'.outcome = r.outcome
  BY DEF Export
<1>2. ExportInv'
  BY <1>1, DraftIsValid DEF ExportInv
<1>3. HeardInv'
  BY <1>1 DEF IInv, HeardInv
<1>4. PassIsMeasured'
  <2>1. assess_synthetic_observation(buildPerformanceRunDraft(r)) =>
            Measured(r.outcome, buildPerformanceRunDraft(r))
    BY DraftIsMeasured
  <2>2. PassIsMeasured' =
           (phase' = "done" /\ assess_synthetic_observation(result'.run) =>
                Measured(result'.outcome, result'.run))
    BY DEF PassIsMeasured, Measured
  <2> QED  BY <1>1, <2>1, <2>2
<1> QED  BY <1>1, <1>2, <1>3, <1>4, OthersKeep

LEMMA EmitKeeps == ASSUME IInv, Emit PROVE IInv'
<1>1. /\ phase = "emitting" /\ phase' = phase /\ clock' = clock
      /\ lastPeakAt' = lastPeakAt /\ detections' = detections /\ pairs' = pairs
      /\ emits' = Append(emits, clock)
  BY DEF Emit
<1>2. emits \in Seq(Int) /\ clock \in Int
  BY DEF IInv, TypeInv
<1>3. /\ emits' \in Seq(Int)
      /\ DOMAIN emits' = DOMAIN emits \cup {Len(emits) + 1}
      /\ DOMAIN emits = 1..Len(emits) /\ Len(emits) \in Nat
      /\ \A i \in DOMAIN emits : emits'[i] = emits[i]
      /\ emits'[Len(emits) + 1] = clock
  BY <1>1, <1>2, Appended
<1>4. pairs = <<>>
  BY <1>1 DEF IInv, PairsInv
<1>5. TypeInv' /\ DetectionsInv'
  BY <1>1, <1>3 DEF IInv, TypeInv, DetectionsInv
<1>6. EmitsInv'
  BY <1>1, <1>2, <1>3 DEF IInv, EmitsInv
<1>7. PairsInv' /\ PairsInOrder'
  BY <1>1, <1>4 DEF PairsInv, PairsInOrder
<1>8. HeardInv' /\ ExportInv' /\ PassIsMeasured'
  BY <1>1, RestKeeps DEF IInv, HeardInv, Emit
<1> QED  BY <1>5, <1>6, <1>7, <1>8 DEF IInv

\* What a look records, if anything.
LEMMA Looked ==
    ASSUME NEW t, NEW noise, Look(t, noise),
           ~ UNCHANGED <<lastPeakAt, detections>>
    PROVE  /\ remote /\ t - lastPeakAt > Cooldown /\ lastPeakAt' = t
           /\ detections' = Append(detections,
                 [at |-> t, tuned |-> dominantBin(spectrum(Sounding(t, noise))) = TargetBin])
<1> DEFINE mags == spectrum(Sounding(t, noise))
           C == /\ remote /\ Sounding(t, noise) # {}
                /\ bandEnergy(mags) > 0 /\ t - lastPeakAt > Cooldown
           Found == /\ lastPeakAt' = t
                    /\ detections' = Append(detections,
                          [at |-> t, tuned |-> dominantBin(mags) = TargetBin])
           Same == UNCHANGED <<lastPeakAt, detections>>
<1>1. IF C THEN Found ELSE Same
  BY DEF Look
<1>2. ~ Same
  OBVIOUS
<1> HIDE DEF C, Found, Same
<1>3. C /\ Found
  BY <1>1, <1>2
<1> QED  BY <1>3 DEF C, Found

LEMMA TickKeeps == ASSUME IInv, Tick PROVE IInv'
<1>1. /\ phase = "emitting" /\ phase' = phase /\ clock' = clock + 1
      /\ emits' = emits /\ pairs' = pairs
  BY DEF Tick
<1>2. PICK noise : Look(clock + 1, noise)
  BY DEF Tick
<1>3. /\ emits \in Seq(Int) /\ clock \in Int /\ lastPeakAt \in Int
      /\ detections \in Seq(Detection) /\ pairs = <<>>
  BY <1>1 DEF IInv, TypeInv, PairsInv
<1>4. EmitsInv'
  <2>1. \A i \in DOMAIN emits : emits[i] \in Int
    BY <1>3, Members
  <2> QED  BY <1>1, <1>3, <2>1 DEF IInv, EmitsInv
<1>5. /\ lastPeakAt' \in Int /\ detections' \in Seq(Detection)
      /\ DetectionsInv'
  <2>1. CASE UNCHANGED <<lastPeakAt, detections>>
    BY <1>1, <1>3, <2>1 DEF IInv, DetectionsInv
  <2>2. CASE ~ UNCHANGED <<lastPeakAt, detections>>
    <3>0. PICK t : t = clock + 1
      OBVIOUS
    <3> DEFINE e == [at |-> t, tuned |-> dominantBin(spectrum(Sounding(t, noise))) = TargetBin]
    <3>1. t - lastPeakAt > Cooldown /\ lastPeakAt' = t /\ detections' = Append(detections, e)
      <4>1. Look(t, noise)
        BY ONLY <1>2, <3>0
      <4> QED  BY ONLY <2>2, <4>1, Looked
    <3>2. e \in Detection /\ e.at = clock + 1
      BY <1>3, <3>0 DEF Detection
    <3> HIDE DEF e
    <3>3. /\ detections' \in Seq(Detection)
          /\ DOMAIN detections' = DOMAIN detections \cup {Len(detections) + 1}
          /\ DOMAIN detections = 1..Len(detections) /\ Len(detections) \in Nat
          /\ \A i \in DOMAIN detections : detections'[i] = detections[i]
          /\ detections'[Len(detections) + 1] = e
      BY <1>3, <3>1, <3>2, Appended
    <3>4. lastPeakAt < clock + 1
      BY <1>3, <3>0, <3>1, SyntheticAssumption
    <3>5. \A i \in DOMAIN detections :
              detections[i].at \in Int /\ detections[i].at < clock + 1
      <4>1. \A i \in DOMAIN detections : detections[i].at \in Int
        <5>1. \A i \in DOMAIN detections : detections[i] \in Detection
          BY <1>3, Members
        <5> QED  BY <5>1 DEF Detection
      <4> QED  BY <1>3, <3>4, <4>1 DEF IInv, DetectionsInv
    <3>6. DetectionsInv'
      BY <1>1, <1>3, <3>0, <3>1, <3>2, <3>3, <3>5 DEF IInv, DetectionsInv
    <3> QED  BY <1>3, <3>0, <3>1, <3>3, <3>6
  <2> QED  BY <2>1, <2>2
<1>6. TypeInv'
  BY <1>1, <1>3, <1>5 DEF IInv, TypeInv
<1>7. PairsInv' /\ PairsInOrder'
  BY <1>1, <1>3 DEF PairsInv, PairsInOrder
<1>8. HeardInv' /\ ExportInv' /\ PassIsMeasured'
  <2>1. CASE UNCHANGED <<lastPeakAt, detections>>
    BY <1>1, <2>1, RestKeeps DEF IInv, HeardInv, Tick
  <2>2. CASE ~ UNCHANGED <<lastPeakAt, detections>>
    <3>1. PICK t : t = clock + 1
      OBVIOUS
    <3>2. Look(t, noise)
      BY ONLY <1>2, <3>1
    <3>3. remote
      BY ONLY <2>2, <3>2, Looked
    <3> QED  BY <1>1, <3>3, RestKeeps DEF Tick
  <2> QED  BY <2>1, <2>2
<1> QED  BY <1>4, <1>5, <1>6, <1>7, <1>8 DEF IInv

-----------------------------------------------------------------------------
(* One turn of the loop of correlatePulseSequence()                        *)

LEMMA CorrelateKeeps == ASSUME IInv, Correlate PROVE IInv'
<1> DEFINE d == Head(detections)
           first == Min(Free(d.at))
           new == [index |-> first, at |-> d.at, latency |-> d.at - emits[first]]
<1>1. /\ phase = "correlating" /\ phase' = phase /\ clock' = clock
      /\ emits' = emits /\ lastPeakAt' = lastPeakAt
      /\ detections # <<>> /\ detections' = Tail(detections)
      /\ \/ pairs' = pairs
         \/ Accepted(d) /\ Free(d.at) # {} /\ pairs' = Append(pairs, new)
  BY DEF Correlate
<1>2. /\ emits \in Seq(Int) /\ detections \in Seq(Detection) /\ pairs \in Seq(Pair)
      /\ clock \in Int /\ lastPeakAt \in Int
  BY DEF IInv, TypeInv
<1>3. /\ detections' \in Seq(Detection)
      /\ d = detections[1] /\ 1 \in DOMAIN detections
      /\ \A i \in DOMAIN detections' :
            /\ i \in Nat \ {0} /\ i + 1 \in DOMAIN detections
            /\ detections'[i] = detections[i + 1]
  BY <1>1, <1>2, Dropped
<1>4. d.at \in Int /\ \A i \in DOMAIN detections : detections[i].at \in Int
  <2>1. \A i \in DOMAIN detections : detections[i] \in Detection
    BY <1>2, Members
  <2>2. \A i \in DOMAIN detections : detections[i].at \in Int
    BY <2>1 DEF Detection
  <2> QED  BY <1>3, <2>2
<1>5. /\ DOMAIN emits = 1..Len(emits) /\ Len(emits) \in Nat
      /\ \A i \in DOMAIN emits : emits[i] \in Int
  BY <1>2, Members
<1>6. \A i \in DOMAIN pairs : pairs[i].index \in Nat /\ pairs[i].at \in Int
  <2>1. \A i \in DOMAIN pairs : pairs[i] \in Pair
    BY <1>2, Members
  <2> QED  BY <2>1 DEF Pair
<1> HIDE DEF d, first, new
<1>7. EmitsInv' /\ DetectionsInv'
  <2>1. EmitsInv'
    BY <1>1 DEF IInv, EmitsInv
  <2>2. \A i, j \in DOMAIN detections' : i < j => detections'[i].at < detections'[j].at
    <3> SUFFICES ASSUME NEW i \in DOMAIN detections', NEW j \in DOMAIN detections', i < j
                 PROVE  detections'[i].at < detections'[j].at
      OBVIOUS
    <3>1. /\ i + 1 \in DOMAIN detections /\ j + 1 \in DOMAIN detections
          /\ i + 1 < j + 1
          /\ detections'[i] = detections[i + 1] /\ detections'[j] = detections[j + 1]
      BY <1>3
    <3> QED  BY <3>1 DEF IInv, DetectionsInv
  <2>3. \A i \in DOMAIN detections' : detections'[i].at <= lastPeakAt
    BY <1>3 DEF IInv, DetectionsInv
  <2> QED  BY <1>1, <2>1, <2>2, <2>3 DEF IInv, DetectionsInv
  (* What is left comes after the one that was taken. *)
<1>8. \A k \in DOMAIN detections' :
          /\ d.at < detections'[k].at
          /\ \A i \in DOMAIN pairs : pairs[i].at < detections'[k].at
  <2> SUFFICES ASSUME NEW k \in DOMAIN detections'
               PROVE  /\ d.at < detections'[k].at
                      /\ \A i \in DOMAIN pairs : pairs[i].at < detections'[k].at
    OBVIOUS
  <2>1. /\ k + 1 \in DOMAIN detections /\ 1 < k + 1
        /\ detections'[k] = detections[k + 1]
    BY <1>3
  <2>2. d.at < detections'[k].at
    BY <1>3, <2>1 DEF IInv, DetectionsInv
  <2>3. \A i \in DOMAIN pairs : pairs[i].at < detections[k + 1].at
    BY <2>1 DEF IInv, PairsInv
  <2> QED  BY <2>1, <2>2, <2>3
<1>9. HeardInv' /\ ExportInv' /\ PassIsMeasured'
  <2>1. remote
    BY <1>1 DEF IInv, HeardInv
  <2> QED  BY <1>1, <2>1, RestKeeps DEF Correlate
<1>10. CASE pairs' = pairs
  <2>1. TypeInv'
    BY <1>1, <1>3, <1>10 DEF IInv, TypeInv
  <2>2. PairsInv'
    BY <1>1, <1>8, <1>10 DEF IInv, PairsInv, Matching
  <2>3. PairsInOrder'
    BY <1>1, <1>10 DEF IInv, PairsInOrder
  <2> QED  BY <1>7, <1>9, <2>1, <2>2, <2>3 DEF IInv
<1>11. CASE Accepted(d) /\ Free(d.at) # {} /\ pairs' = Append(pairs, new)
  <2>1. /\ first \in Free(d.at) /\ \A i \in Free(d.at) : first <= i
        /\ first \in Nat
    <3>1. Free(d.at) \in SUBSET Nat
      BY <1>5 DEF Free, Matching
    <3> QED  BY <1>11, <3>1, LeastIsFree DEF first
  <2>2. /\ first \in DOMAIN emits /\ emits[first] \in Int
        /\ d.at >= emits[first] /\ d.at - emits[first] <= MaxLatency
        /\ \A k \in DOMAIN pairs : pairs[k].index # first
    BY <1>5, <2>1 DEF Free, Matching
  <2>3. /\ new \in Pair /\ new.index = first /\ new.at = d.at
        /\ new.latency = d.at - emits[first]
    BY <1>4, <2>1, <2>2 DEF new, Pair
  <2> DEFINE n == Len(pairs) + 1
  <2>4. /\ pairs' \in Seq(Pair)
        /\ DOMAIN pairs' = DOMAIN pairs \cup {n}
        /\ DOMAIN pairs = 1..Len(pairs) /\ Len(pairs) \in Nat
        /\ \A i \in DOMAIN pairs : pairs'[i] = pairs[i]
        /\ pairs'[n] = new
    BY <1>2, <1>11, <2>3, Appended
  <2>5. TypeInv'
    BY <1>1, <1>3, <2>4 DEF IInv, TypeInv
  \* A pair for a later emit would have taken this one, which matched too.
  <2>6. \A j \in DOMAIN pairs : pairs[j].index < first /\ pairs[j].at < d.at
    <3> SUFFICES ASSUME NEW j \in DOMAIN pairs
                 PROVE  pairs[j].index < first /\ pairs[j].at < d.at
      OBVIOUS
    <3>1. pairs[j].at < d.at
      BY <1>3 DEF IInv, PairsInv
    <3>2. /\ pairs[j].index \in DOMAIN emits
          /\ pairs[j].at - emits[pairs[j].index] = pairs[j].latency
          /\ pairs[j].latency \in 0..MaxLatency
      BY DEF IInv, PairsInv, PairsInOrder
    <3>3. ASSUME first < pairs[j].index
          PROVE  FALSE
      <4>1. emits[first] <= emits[pairs[j].index]
        BY <2>2, <3>2, <3>3 DEF IInv, EmitsInv
      <4>2. emits[pairs[j].index] <= pairs[j].at
        BY <1>5, <1>6, <3>2, SyntheticAssumption
      <4>3. first \in Matching(pairs[j].at)
        BY <1>4, <1>5, <1>6, <2>2, <3>1, <3>2, <4>1, <4>2, SyntheticAssumption DEF Matching
      <4>4. \E k \in DOMAIN pairs : pairs[k].index = first
        BY <3>3, <4>3 DEF IInv, PairsInv
      <4> QED  BY <2>2, <4>4
    <3> QED  BY <1>6, <2>1, <2>2, <3>1, <3>3
  <2>7. PairsInv'
    <3> SUFFICES ASSUME NEW i \in DOMAIN pairs'
                 PROVE  /\ pairs'[i].index \in DOMAIN emits
                        /\ \A k \in DOMAIN detections' : pairs'[i].at < detections'[k].at
                        /\ \A f \in Matching(pairs'[i].at) :
                              f < pairs'[i].index => \E k \in DOMAIN pairs' : pairs'[k].index = f
      BY <1>1 DEF PairsInv, Matching
    <3>1. CASE i \in DOMAIN pairs
      <4>1. pairs'[i] = pairs[i]
        BY <2>4, <3>1
      <4>2. \A f \in Matching(pairs[i].at) :
                f < pairs[i].index => \E k \in DOMAIN pairs' : pairs'[k].index = f
        BY <2>4, <3>1 DEF IInv, PairsInv
      <4>3. pairs[i].index \in DOMAIN emits
        BY <3>1 DEF IInv, PairsInv
      <4> QED  BY <1>8, <3>1, <4>1, <4>2, <4>3
    <3>2. CASE i = n
      <4>1. pairs'[i] = new
        BY <2>4, <3>2
      <4>2. ASSUME NEW f \in Matching(d.at), f < first
            PROVE  \E k \in DOMAIN pairs' : pairs'[k].index = f
        <5>1. f \notin Free(d.at)
          BY <1>5, <2>1, <4>2 DEF Matching
        <5>2. \E k \in DOMAIN pairs : pairs[k].index = f
          BY <5>1 DEF Free
        <5> QED  BY <2>4, <5>2
      <4> QED  BY <1>8, <2>2, <2>3, <4>1, <4>2
    <3> QED  BY <2>4, <3>1, <3>2
  <2>8. PairsInOrder'
    <3> SUFFICES ASSUME NEW i \in DOMAIN pairs'
                 PROVE  /\ pairs'[i].at - emits[pairs'[i].index] = pairs'[i].latency
                        /\ pairs'[i].latency \in 0..MaxLatency
                        /\ \A j \in 1..(i - 1) : /\ pairs'[j].index < pairs'[i].index
                                                 /\ pairs'[j].at < pairs'[i].at
      BY <1>1 DEF PairsInOrder
    <3>1. CASE i \in DOMAIN pairs
      <4>1. pairs'[i] = pairs[i] /\ \A j \in 1..(i - 1) : pairs'[j] = pairs[j]
        BY <2>4, <3>1
      <4> QED  BY <3>1, <4>1 DEF IInv, PairsInOrder
    <3>2. CASE i = n
      <4>1. pairs'[i] = new /\ \A j \in 1..(i - 1) : j \in DOMAIN pairs /\ pairs'[j] = pairs[j]
        BY <2>4, <3>2
      <4>2. d.at - emits[first] \in 0..MaxLatency
        BY <1>4, <2>2, SyntheticAssumption
      <4> QED  BY <2>3, <2>6, <4>1, <4>2
    <3> QED  BY <2>4, <3>1, <3>2
  <2> QED  BY <1>7, <1>9, <2>5, <2>7, <2>8 DEF IInv
<1> QED  BY <1>1, <1>10, <1>11

LEMMA Preserved == IInv /\ [Next]_vars => IInv'
<1> SUFFICES ASSUME IInv, [Next]_vars PROVE IInv'
  OBVIOUS
<1>1. CASE UNCHANGED vars
  <2>1. HeardInv' /\ ExportInv' /\ PassIsMeasured' /\ phase' = phase
    BY <1>1 DEF vars, IInv, HeardInv, ExportInv, PassIsMeasured
  <2> QED  BY <1>1, <2>1, OthersKeep DEF vars, IInv, TypeInv
<1>2. CASE Fail
  <2> DEFINE r == FailedRun
  <2>1. r.pairs = <<>> /\ r.rtt = Null
    BY DEF FailedRun
  <2>2. r.pairs \in Seq(Pair) /\ DOMAIN r.pairs = {}
    BY <2>1
  <2> HIDE DEF r
  <2>3. Export(r)
    BY <1>2 DEF Fail, r
  <2> QED  BY <1>2, <2>1, <2>2, <2>3, ExportKeeps DEF Fail
<1>3. CASE Connect
  <2>1. HeardInv' /\ ExportInv' /\ PassIsMeasured'
    BY <1>3 DEF Connect, IInv, HeardInv, PairsInv, ExportInv, PassIsMeasured
  <2> QED  BY <1>3, <2>1, OthersKeep DEF Connect
<1>4. CASE Emit
  BY <1>4, EmitKeeps
<1>5. CASE Tick
  BY <1>5, TickKeeps
<1>6. CASE StopDetector
  <2>1. HeardInv' /\ ExportInv' /\ PassIsMeasured'
    BY <1>6, RestKeeps DEF StopDetector, IInv, HeardInv
  <2> QED  BY <1>6, <2>1, OthersKeep DEF StopDetector
<1>7. CASE Correlate
  BY <1>7, CorrelateKeeps
<1>8. CASE Finish
  <2>1. PICK bytes \in {0, 1} : Export(FinishedRun(bytes))
    BY <1>8 DEF Finish
  <2> DEFINE r == FinishedRun(bytes)
  <2>2. /\ r.pairs = pairs /\ r.rtt = rtt /\ r.setup = 1 /\ r.emit = emits[1]
        /\ r.bytes = bytes /\ r.live = (bytes > 0 /\ remote)
        /\ pairs # <<>> => r.outcome = "pass"
    BY DEF FinishedRun
  <2> HIDE DEF r
  <2>3. /\ r.pairs \in Seq(Pair) /\ r.rtt \in Rtts \cup {Null}
        /\ \A i \in DOMAIN r.pairs : r.pairs[i].latency \in 0..MaxLatency
    BY <2>2 DEF IInv, TypeInv, HeardInv, PairsInOrder
  <2>4. ASSUME r.pairs # <<>>
        PROVE  r.emit \in Int /\ (r.bytes > 0 => r.live)
    <3>1. 1 \in DOMAIN pairs
      BY <2>2, <2>3, <2>4, EmptySeq
    <3>2. pairs[1].index \in DOMAIN emits /\ emits \in Seq(Int)
      BY <3>1 DEF IInv, TypeInv, PairsInv
    <3>3. emits[1] \in Int
      BY <3>2, Members
    <3> QED  BY <2>2, <2>4, <3>3 DEF IInv, HeardInv
  <2>5. Export(r)
    BY <2>1 DEF r
  <2> QED  BY <1>8, <2>2, <2>3, <2>4, <2>5, ExportKeeps DEF Finish
<1>9. CASE Reject
  <2>1. HeardInv' /\ ExportInv' /\ PassIsMeasured'
    BY <1>9, RestKeeps DEF Reject, IInv, HeardInv
  <2> QED  BY <1>9, <2>1, OthersKeep DEF Reject
<1> QED  BY <1>1, <1>2, <1>3, <1>4, <1>5, <1>6, <1>7, <1>8, <1>9 DEF Next

-----------------------------------------------------------------------------
(* The theorems                                                            *)

\* Sounds and pulses come in the order of time, and the matching leaves no
\* earlier emit out that would have matched.
THEOREM Invariance == Spec => []IInv
<1> QED  BY Initially, Preserved, PTL DEF Spec

\* Pulses are recognised in the order they were emitted, each once.
THEOREM OrderKept == Spec => []PairsInOrder
<1>1. IInv => PairsInOrder
  BY DEF IInv
<1> QED  BY Invariance, <1>1, PTL

\* The validator accepts every record a run exports, that of a failed run with
\* its zeros for bytes and packets included: it looks for a zero in none of
\* those fields (validate.rs:143).
THEOREM ExportsAccepted == Spec => []ExportInv
<1>1. IInv => ExportInv
  BY DEF IInv
<1> QED  BY Invariance, <1>1, PTL

\* What passes the assessment passed in the browser, and was measured: the
\* mean latency is one of a pulse in time, and the derived values agree.
THEOREM PassesMeasured == Spec => []PassIsMeasured
<1>1. IInv => PassIsMeasured
  BY DEF IInv
<1> QED  BY Invariance, <1>1, PTL

-----------------------------------------------------------------------------
(* Decibels                                                                *)

\* No frequency dominates a spectrum with nothing above zero in it, so that no
\* detection is accepted.
DeafInv ==
    /\ level \in Levels /\ pairs = <<>>
    /\ \A i \in DOMAIN detections : ~ detections[i].tuned
    /\ phase = "done" => result.outcome # "pass"

LEMMA NothingDominates ==
    ASSUME \A l \in Levels : l <= 0, Silence <= 0, level \in Levels, NEW sounding
    PROVE  dominantBin(spectrum(sounding)) = 0
<1> DEFINE mags == spectrum(sounding)
<1>1. \A b \in Bins : mags[b] \in Int /\ mags[b] <= 0
  BY SyntheticAssumption DEF spectrum
<1> HIDE DEF mags
<1>2. {b \in Bins \ {0} : mags[b] > 0} = {}
  BY <1>1
<1> QED  BY <1>2 DEF dominantBin, mags

LEMMA DeafStep ==
    ASSUME \A l \in Levels : l <= 0, Silence <= 0, IInv, DeafInv, [Next]_vars
    PROVE  DeafInv'
<1>1. detections \in Seq(Detection)
  BY DEF IInv, TypeInv
<1>2. CASE UNCHANGED vars
  BY <1>2 DEF vars, DeafInv
<1>3. CASE Fail
  BY <1>3 DEF Fail, Export, FailedRun, DeafInv
<1>4. CASE Connect \/ Emit \/ StopDetector \/ Reject
  BY <1>4 DEF Connect, Emit, StopDetector, Reject, DeafInv
<1>5. CASE Tick
  <2>1. PICK noise : Look(clock + 1, noise)
    BY <1>5 DEF Tick
  <2>2. /\ phase' = phase /\ phase = "emitting" /\ pairs' = pairs /\ level' = level
    BY <1>5 DEF Tick
  <2>3. CASE UNCHANGED <<lastPeakAt, detections>>
    BY <2>2, <2>3 DEF DeafInv
  <2>4. CASE ~ UNCHANGED <<lastPeakAt, detections>>
    <3> DEFINE e == [at |-> clock + 1,
                     tuned |-> dominantBin(spectrum(Sounding(clock + 1, noise))) = TargetBin]
    <3>1. detections' = Append(detections, e)
      BY ONLY <2>1, <2>4, Looked
    <3>2. ~ e.tuned
      <4>1. dominantBin(spectrum(Sounding(clock + 1, noise))) = 0
        BY NothingDominates DEF DeafInv
      <4>2. dominantBin(spectrum(Sounding(clock + 1, noise))) # TargetBin
        BY ONLY <4>1 DEF TargetBin
      <4>3. e.tuned = (dominantBin(spectrum(Sounding(clock + 1, noise))) = TargetBin)
        OBVIOUS
      <4> QED  BY ONLY <4>2, <4>3
    <3>3. e \in Detection
      BY DEF Detection, IInv, TypeInv
    <3> HIDE DEF e
    <3>4. \A i \in DOMAIN detections' : ~ detections'[i].tuned
      BY <1>1, <3>1, <3>2, <3>3, Appended DEF DeafInv
    <3> QED  BY <2>2, <3>4 DEF DeafInv
  <2> QED  BY <2>3, <2>4
<1>6. CASE Correlate
  <2>1. /\ detections # <<>> /\ detections' = Tail(detections)
        /\ phase' = phase /\ phase = "correlating" /\ level' = level
    BY <1>6 DEF Correlate
  <2>2. Head(detections) = detections[1] /\ 1 \in DOMAIN detections
    BY <1>1, <2>1, Dropped
  <2>3. ~ Accepted(Head(detections))
    BY <2>2 DEF Accepted, DeafInv
  <2>4. pairs' = pairs
    BY <1>6, <2>3 DEF Correlate
  <2>5. \A i \in DOMAIN detections' : ~ detections'[i].tuned
    BY <1>1, <2>1, Dropped DEF DeafInv
  <2> QED  BY <2>1, <2>4, <2>5 DEF DeafInv
<1>7. CASE Finish
  BY <1>7 DEF Finish, Export, FinishedRun, DeafInv
<1> QED  BY <1>2, <1>3, <1>4, <1>5, <1>6, <1>7 DEF Next

\* Where an analyser reads nothing above zero, as it does in decibels, no pulse
\* is ever recognised and no run passes (pulse-detector.ts:71).
THEOREM DecibelsNeverPass ==
    ASSUME \A l \in Levels : l <= 0, Silence <= 0
    PROVE  Spec => [](pairs = <<>> /\ (phase = "done" => result.outcome # "pass"))
<1>1. Init => DeafInv
  BY DEF Init, DeafInv
<1>2. IInv /\ DeafInv /\ [Next]_vars => DeafInv'
  BY DeafStep
<1>3. DeafInv => pairs = <<>> /\ (phase = "done" => result.outcome # "pass")
  BY DEF DeafInv
<1> QED  BY <1>1, <1>2, <1>3, Invariance, PTL DEF Spec

-----------------------------------------------------------------------------
(* Runs are finite                                                         *)

\* When the loop waits no longer: for the next pulse, or after the last.
Deadline == Due + (IF Len(emits) < Pulses THEN 0 ELSE Settle)

RunInv ==
    /\ Len(emits) <= Pulses
    /\ phase = "connecting" => emits = <<>>
    /\ phase = "emitting" => clock <= Deadline

\* Pulses to emit and ticks to wait.
Waits == (Pulses - Len(emits)) * (Interval + 1) + (Due + Settle - clock)

\* What is left to do; a tick may add one detection.
Work ==
    CASE phase = "connecting"  -> Len(detections) + 2 * Waits + 5
      [] phase = "emitting"    -> Len(detections) + 2 * Waits + 3
      [] phase = "correlating" -> Len(detections) + 1
      [] OTHER                 -> 0

LEMMA DueIs ==
    ASSUME TypeInv
    PROVE  Due \in Int /\ Len(emits) \in Nat /\ (emits = <<>> => Due = clock /\ Len(emits) = 0)
<1>1. emits # <<>> => Last(emits) \in Int
  BY EmptySeq, Members DEF TypeInv, Last
<1> QED  BY <1>1, SyntheticAssumption DEF TypeInv, Due

LEMMA WorkIsNat ==
    ASSUME TypeInv, RunInv
    PROVE  /\ Work \in Nat /\ Waits \in Int
           /\ phase \in {"connecting", "emitting"} => Waits \in Nat
<1>1. /\ Due \in Int /\ Len(emits) \in Nat /\ (emits = <<>> => Due = clock /\ Len(emits) = 0)
      /\ Len(detections) \in Nat
  BY DueIs DEF TypeInv
<1>2. (Pulses - Len(emits)) * (Interval + 1) \in Nat
  <2>1. PICK k \in Nat : k = Pulses - Len(emits)
    BY <1>1, SyntheticAssumption DEF RunInv
  <2>2. k * (Interval + 1) \in Nat
    BY SyntheticAssumption
  <2> QED  BY <2>1, <2>2
<1>3. phase \in {"connecting", "emitting"} => Due + Settle - clock \in Nat
  BY <1>1, SyntheticAssumption DEF TypeInv, RunInv, Deadline
<1>4. Waits \in Int /\ (phase \in {"connecting", "emitting"} => Waits \in Nat)
  BY <1>1, <1>2, <1>3, SyntheticAssumption DEF Waits, TypeInv
<1>5. CASE phase = "connecting"
  <2>1. Work = Len(detections) + 2 * Waits + 5
    BY <1>5 DEF Work
  <2> QED  BY <1>1, <1>4, <1>5, <2>1
<1>6. CASE phase = "emitting"
  <2>1. Work = Len(detections) + 2 * Waits + 3
    BY <1>6 DEF Work
  <2> QED  BY <1>1, <1>4, <1>6, <2>1
<1>7. CASE phase = "correlating"
  <2>1. Work = Len(detections) + 1
    BY <1>7 DEF Work
  <2> QED  BY <1>1, <1>4, <1>7, <2>1
<1>8. CASE phase \in {"done", "rejected"}
  <2>1. Work = 0
    BY <1>8 DEF Work
  <2> QED  BY <1>4, <1>8, <2>1
<1> QED  BY <1>5, <1>6, <1>7, <1>8 DEF TypeInv

LEMMA EmitWorks ==
    ASSUME IInv, IInv', RunInv, Emit
    PROVE  RunInv' /\ Work' < Work
<1>1. /\ Due \in Int /\ Len(emits) \in Nat /\ Len(detections) \in Nat /\ clock \in Int
      /\ emits \in Seq(Int)
  BY DueIs DEF IInv, TypeInv
<1>2. /\ phase = "emitting" /\ phase' = phase /\ clock' = clock
      /\ emits' = Append(emits, clock) /\ detections' = detections
      /\ Len(emits) < Pulses /\ clock >= Due
  BY DEF Emit
<1>3. clock = Due
  BY <1>1, <1>2 DEF RunInv, Deadline
<1>4. Len(emits') = Len(emits) + 1 /\ emits'[Len(emits')] = clock /\ emits' # <<>>
  BY <1>1, <1>2
<1>5. Due' = clock + Interval
  BY <1>2, <1>4 DEF Due, Last
<1>6. RunInv'
  BY <1>1, <1>2, <1>4, <1>5, SyntheticAssumption DEF RunInv, Deadline
<1>7. Waits' = Waits - 1 /\ Waits \in Int
  <2>1. PICK k \in Nat : k = Pulses - Len(emits)
    BY <1>1, <1>2, SyntheticAssumption
  <2>2. (k - 1) * (Interval + 1) = k * (Interval + 1) - (Interval + 1)
    BY SyntheticAssumption
  <2>3. Pulses - Len(emits') = k - 1
    BY <1>1, <1>4, <2>1, SyntheticAssumption
  <2>4. Waits' = (k - 1) * (Interval + 1) + (clock + Interval + Settle - clock)
    BY <1>2, <1>5, <2>3 DEF Waits
  <2>5. Waits = k * (Interval + 1) + (clock + Settle - clock)
    BY <1>3, <2>1 DEF Waits
  <2>6. k * (Interval + 1) \in Int
    BY SyntheticAssumption
  <2> QED  BY <1>1, <2>2, <2>4, <2>5, <2>6, SyntheticAssumption
<1> QED  BY <1>1, <1>2, <1>6, <1>7 DEF Work

LEMMA TickWorks ==
    ASSUME IInv, IInv', RunInv, Tick
    PROVE  RunInv' /\ Work' < Work
<1>1. /\ Due \in Int /\ Len(emits) \in Nat /\ Len(detections) \in Nat /\ clock \in Int
      /\ detections \in Seq(Detection) /\ Waits \in Int
      /\ emits = <<>> => Due = clock /\ Len(emits) = 0
  BY DueIs, WorkIsNat DEF IInv, TypeInv
<1>2. /\ phase = "emitting" /\ phase' = phase /\ clock' = clock + 1 /\ emits' = emits
      /\ clock < Deadline
  BY DEF Tick, Deadline
<1>3. Len(detections') <= Len(detections) + 1 /\ Len(detections') \in Nat
  <2>1. PICK noise : Look(clock + 1, noise)
    BY DEF Tick
  <2>2. \/ detections' = detections
        \/ \E d : detections' = Append(detections, d)
    BY <2>1 DEF Look
  <2>3. detections' \in Seq(Detection)
    BY DEF IInv, TypeInv
  <2> QED  BY <1>1, <2>2, <2>3
<1>4. emits # <<>> /\ Due' = Due
  BY <1>1, <1>2, SyntheticAssumption DEF Deadline, Due
<1>5. RunInv'
  BY <1>1, <1>2, <1>4, SyntheticAssumption DEF RunInv, Deadline
<1>6. Waits' = Waits - 1
  <2>1. PICK k : k = (Pulses - Len(emits)) * (Interval + 1)
    OBVIOUS
  <2>2. k \in Int
    BY <1>1, <2>1, SyntheticAssumption
  <2>3. Waits = k + (Due + Settle - clock) /\ Waits' = k + (Due + Settle - (clock + 1))
    BY <1>2, <1>4, <2>1 DEF Waits
  <2> QED  BY <1>1, <2>2, <2>3, SyntheticAssumption
<1> QED  BY <1>1, <1>2, <1>3, <1>5, <1>6 DEF Work

LEMMA StepWorks ==
    ASSUME IInv, IInv', RunInv, Next
    PROVE  RunInv' /\ Work' < Work
<1>1. Len(detections) \in Nat /\ detections \in Seq(Detection) /\ Len(emits) \in Nat
  BY DEF IInv, TypeInv
<1>2. Work \in Nat /\ (phase \in {"connecting", "emitting"} => Waits \in Nat)
  BY WorkIsNat DEF IInv
<1>3. CASE Fail
  BY <1>1, <1>2, <1>3 DEF Fail, Export, RunInv, Work
<1>4. CASE Connect
  <2>1. Due' = Due /\ Waits' = Waits
    BY <1>4 DEF Connect, Due, Waits
  <2>2. phase = "connecting" /\ emits = <<>> /\ Due = clock /\ Len(emits) = 0
    BY <1>4, DueIs DEF Connect, IInv, RunInv
  <2>3. RunInv'
    BY <1>4, <2>1, <2>2, SyntheticAssumption DEF Connect, RunInv, Deadline, IInv, TypeInv
  <2> QED  BY <1>1, <1>2, <1>4, <2>1, <2>2, <2>3 DEF Connect, Work
<1>5. CASE Emit
  BY <1>5, EmitWorks
<1>6. CASE Tick
  BY <1>6, TickWorks
<1>7. CASE StopDetector
  BY <1>1, <1>2, <1>7 DEF StopDetector, RunInv, Work
<1>8. CASE Correlate
  <2>1. Len(detections') = Len(detections) - 1
    BY <1>1, <1>8, HeadTailProperties DEF Correlate
  <2> QED  BY <1>1, <1>8, <2>1 DEF Correlate, RunInv, Work
<1>9. CASE Finish
  BY <1>1, <1>9 DEF Finish, Export, RunInv, Work
<1>10. CASE Reject
  BY <1>1, <1>2, <1>10 DEF Reject, RunInv, Work
<1> QED  BY <1>3, <1>4, <1>5, <1>6, <1>7, <1>8, <1>9, <1>10 DEF Next

\* No run goes on for ever, whatever the timers and the detector do: each step
\* leaves less to do, and with nothing left the run was exported or rejected.
THEOREM RunsAreFinite ==
    Spec => /\ [](Work \in Nat /\ (Work = 0 => phase \in {"done", "rejected"}))
            /\ [][Work' < Work]_vars
<1>1. Init => RunInv
  <2> SUFFICES ASSUME Init PROVE RunInv
    OBVIOUS
  <2>1. emits = <<>> /\ phase = "connecting" /\ Len(<<>>) = 0
    BY DEF Init
  <2> QED  BY <2>1, SyntheticAssumption DEF RunInv
<1>2. IInv /\ IInv' /\ RunInv /\ [Next]_vars => RunInv'
  <2>1. IInv /\ RunInv /\ UNCHANGED vars => RunInv'
    BY DEF vars, RunInv, Deadline, Due
  <2> QED  BY <2>1, StepWorks
<1>3. IInv /\ IInv' /\ RunInv /\ [Next]_vars => [Work' < Work]_vars
  BY StepWorks
<1>4. IInv /\ RunInv => Work \in Nat /\ (Work = 0 => phase \in {"done", "rejected"})
  <2> SUFFICES ASSUME IInv, RunInv
               PROVE  Work \in Nat /\ (Work = 0 => phase \in {"done", "rejected"})
    OBVIOUS
  <2>1. Len(detections) \in Nat /\ phase \in {"connecting", "emitting", "correlating", "done", "rejected"}
    BY DEF IInv, TypeInv
  <2>2. Work \in Nat /\ (phase \in {"connecting", "emitting"} => Waits \in Nat)
    BY WorkIsNat DEF IInv
  <2> QED  BY <2>1, <2>2 DEF Work
<1> QED  BY <1>1, <1>2, <1>3, <1>4, Invariance, PTL DEF Spec
=============================================================================
