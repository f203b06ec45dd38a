-------------------------- MODULE ClockProbeProofs --------------------------
(***************************************************************************)
(* Proofs about ClockProbe, for any constant skew of the clocks, any       *)
(* timeout and any number of probes, repetitions and time units.           *)
(***************************************************************************)
EXTENDS ClockProbe, TLAPS

-----------------------------------------------------------------------------
(* The inductive invariant                                                 *)

\* Probes that the interval still has to send.
Left(p) == IF interval[p] = Null THEN 0
           ELSE interval[p].count - interval[p].sent

\* No peer sends more probes than it was asked for.
ProbesAreAsked ==
    \A p \in Roles : nextSequence[p] + budget[p] + Left(p) <= MaxProbes[p]

\* What carries a number was numbered before: nothing is known of a probe
\* that was not sent.
NumbersArePast ==
    /\ \A p \in Roles : \A n \in Sequence :
          n >= nextSequence[p] =>
              /\ n \notin sentSequences[p]
              /\ history[p][n] = <<>>
    /\ \A p \in Roles : \A e \in pending[p] : e.sequence < nextSequence[p]
    /\ \A m \in net : m.sequence < nextSequence[m.requester]

\* Nothing was said yet about a pending probe, and what completed a probe
\* was the first thing said about it.
PendingIsOpen ==
    \A p \in Roles :
        /\ \A e \in pending[p] : history[p][e.sequence] = <<>>
        /\ \A e1, e2 \in pending[p] :
              e1.sequence = e2.sequence => e1 = e2
        /\ \A n \in completedResponses[p] :
              /\ history[p][n] # <<>>
              /\ history[p][n][1].kind = "completed"

\* The times a message carries, taken back to true time, are ordered.
TimesAreOrdered ==
    \A m \in net :
        LET p == m.requester
            q == oppositeRole(p)
        IN  /\ m.type = "request" => m.t0 - Skew[p] <= now
            /\ m.type = "response" =>
                   /\ m.t0 - Skew[p] <= m.t1 - Skew[q]
                   /\ m.t1 <= m.t2
                   /\ m.t2 - Skew[q] <= now

\* An engine knows what it answered until it is stopped.
AnswersAreKnown ==
    \A m \in net :
        m.type = "response" =>
            LET q == oppositeRole(m.requester)
            IN  q \in attached => m.sequence \in respondedSequences[q]

IInv ==
    /\ TypeOK
    /\ ProbesAreAsked
    /\ NumbersArePast
    /\ PendingIsOpen
    /\ TimesAreOrdered
    /\ AnswersAreKnown
    /\ VerdictComesFirst
    /\ OffsetIsBounded
    /\ TimersAreOwned
    /\ AnsweredOnce

-----------------------------------------------------------------------------
(* Helpers                                                                 *)

LEMMA OtherRole ==
    ASSUME NEW p \in Roles
    PROVE  /\ oppositeRole(p) \in Roles
           /\ oppositeRole(p) # p
           /\ \A q \in Roles : q # p => q = oppositeRole(p)
BY DEF Roles, oppositeRole

\* A number below the probes of one peer is a number of the model.
LEMMA NumberBound ==
    ASSUME NEW p \in Roles, NEW n \in Nat, n < MaxProbes[p]
    PROVE  n \in Sequence
<1>1. /\ MaxProbes["peer_a"] \in Nat
      /\ MaxProbes["peer_b"] \in Nat
  BY ClockAssumption DEF ClockAssumption, Roles
<1>2. p = "peer_a" \/ p = "peer_b"
  BY DEF Roles
<1> QED
  BY <1>1, <1>2 DEF Sequence

LEMMA AppendFacts ==
    ASSUME NEW S, NEW s \in Seq(S), NEW e \in S
    PROVE  /\ Append(s, e) \in Seq(S)
           /\ Append(s, e) # <<>>
           /\ \A i \in DOMAIN Append(s, e) :
                 \/ i \in DOMAIN s /\ Append(s, e)[i] = s[i]
                 \/ i = Len(s) + 1 /\ Append(s, e)[i] = e
           /\ s # <<>> => /\ 1 \in DOMAIN s
                          /\ Append(s, e)[1] = s[1]
           /\ s = <<>> => Append(s, e)[1] = e /\ Len(s) = 0
<1>1. /\ Append(s, e) \in Seq(S)
      /\ Len(Append(s, e)) = Len(s) + 1
      /\ \A i \in 1 .. Len(s) : Append(s, e)[i] = s[i]
      /\ Append(s, e)[Len(s) + 1] = e
  OBVIOUS
<1>2. Append(s, e) # <<>>
  BY <1>1
<1>3. /\ DOMAIN s = 1 .. Len(s)
      /\ DOMAIN Append(s, e) = 1 .. Len(s) + 1
      /\ Len(s) \in Nat
  BY <1>1
<1>4. \A i \in DOMAIN Append(s, e) : i \in DOMAIN s \/ i = Len(s) + 1
  BY <1>3
<1>5. s # <<>> => 1 \in DOMAIN s
  BY <1>3
<1>6. s = <<>> => Len(s) = 0
  OBVIOUS
<1> QED
  BY <1>1, <1>2, <1>3, <1>4, <1>5, <1>6

\* A sample is added to what was said about one probe.
LEMMA RecordedFacts ==
    ASSUME TypeOK, NEW p \in Roles, NEW n \in Sequence,
           NEW sample \in Sample, Recorded(p, n, sample)
    PROVE  /\ history' \in [Roles -> [Sequence -> Seq(Sample)]]
           /\ history'[p][n] = Append(history[p][n], sample)
           /\ history[p][n] \in Seq(Sample)
           /\ \A q \in Roles : \A k \in Sequence :
                 q # p \/ k # n => history'[q][k] = history[q][k]
<1>1. history \in [Roles -> [Sequence -> Seq(Sample)]]
  BY DEF TypeOK
<1>2. history' = [history EXCEPT ![p] =
                     [history[p] EXCEPT ![n] = Append(history[p][n], sample)]]
  BY <1>1 DEF Recorded
<1>3. /\ history[p] \in [Sequence -> Seq(Sample)]
      /\ history[p][n] \in Seq(Sample)
  BY <1>1
<1>4. Append(history[p][n], sample) \in Seq(Sample)
  BY <1>3, AppendFacts
<1> QED
  BY <1>1, <1>2, <1>3, <1>4

LEMMA TakenFacts ==
    ASSUME TypeOK, NEW m \in net, NEW more, Taken(m, more)
    PROVE  /\ net' \subseteq net \cup more
           /\ repeated' \in Nat
BY DEF Taken, TypeOK

-----------------------------------------------------------------------------
(* Each conjunct depends on some of the variables only                     *)

LEMMA VerdictsKept ==
    ASSUME IInv, UNCHANGED history
    PROVE  VerdictComesFirst' /\ OffsetIsBounded'
BY DEF IInv, VerdictComesFirst, OffsetIsBounded

LEMMA NetShrinks ==
    ASSUME IInv, net' \subseteq net, UNCHANGED <<now, attached>>,
           \A q \in Roles :
              q \in attached => respondedSequences'[q] = respondedSequences[q]
    PROVE  TimesAreOrdered' /\ AnswersAreKnown' /\ AnsweredOnce'
<1>1. TimesAreOrdered'
  BY DEF IInv, TimesAreOrdered
<1>2. AnsweredOnce'
  BY DEF IInv, AnsweredOnce
<1>3. AnswersAreKnown'
  <2>1. \A m \in net : m.requester \in Roles
    BY DEF IInv, TypeOK, Requests, Responses
  <2> QED
    BY <2>1, OtherRole DEF IInv, AnswersAreKnown
<1> QED
  BY <1>1, <1>2, <1>3

-----------------------------------------------------------------------------
(* Sending                                                                 *)

\* What sendProbe does: it sends a fresh number, or nothing.
LEMMA SendFacts ==
    ASSUME IInv, NEW p \in Roles, NEW before, SendProbe(p, before),
           nextSequence[p] < MaxProbes[p]
    PROVE  /\ UNCHANGED history
           /\ nextSequence[p] \in Sequence
           /\ \/ /\ nextSequence' =
                       [nextSequence EXCEPT ![p] = nextSequence[p] + 1]
                 /\ sentSequences' =
                       [sentSequences EXCEPT ![p] =
                           sentSequences[p] \cup {nextSequence[p]}]
                 /\ pending' =
                       [pending EXCEPT ![p] =
                           before \cup {[sequence |-> nextSequence[p],
                                         t0 |-> Clock(p)]}]
                 /\ net' = net \cup {Request(p, nextSequence[p], Clock(p))}
              \/ /\ pending' = [pending EXCEPT ![p] = before]
                 /\ UNCHANGED <<nextSequence, sentSequences, net>>
<1>1. nextSequence[p] \in Nat
  BY DEF IInv, TypeOK
<1>2. nextSequence[p] \in Sequence
  BY <1>1, NumberBound
<1>3. nextSequence[p] \notin sentSequences[p]
  BY <1>1, <1>2 DEF IInv, NumbersArePast
<1> QED
  BY <1>2, <1>3 DEF SendProbe

LEMMA SendKeeps ==
    ASSUME IInv, NEW p \in Roles, NEW before, before \subseteq pending[p],
           SendProbe(p, before), nextSequence[p] < MaxProbes[p],
           UNCHANGED <<now, repeated, readyState, attached,
                       respondedSequences, completedResponses>>,
           interval' \in [Roles -> {Null} \cup [sent : Nat, count : Nat]],
           \A q \in Roles :
              interval'[q] # Null => interval'[q].sent <= interval'[q].count,
           \A q \in Roles : q # p => interval'[q] = interval[q],
           interval'[p] # Null,
           p \in attached,
           budget' \in [Roles -> Nat],
           ProbesAreAsked'
    PROVE  IInv'
<1> DEFINE n == nextSequence[p]
           e == [sequence |-> n, t0 |-> Clock(p)]
           m == Request(p, n, Clock(p))
<1>1. /\ UNCHANGED history
      /\ n \in Sequence
  BY SendFacts
<1>2. n \in Nat
  BY DEF IInv, TypeOK
<1>3. Clock(p) \in Int
  BY ClockAssumption DEF ClockAssumption, Clock, IInv, TypeOK
<1>4. e \in Probe /\ e.sequence = n
  BY <1>1, <1>3 DEF Probe
<1>5. /\ m \in Requests
      /\ m.type = "request"
      /\ m.requester = p
      /\ m.sequence = n
      /\ m.t0 = Clock(p)
  BY <1>1, <1>3 DEF Request, Requests
<1>6. /\ nextSequence' \in [Roles -> Nat]
      /\ \A q \in Roles : nextSequence[q] <= nextSequence'[q]
      /\ \A q \in Roles : q # p => nextSequence'[q] = nextSequence[q]
  <2>1. nextSequence \in [Roles -> Nat]
    BY DEF IInv, TypeOK
  <2>2. \/ nextSequence' = [nextSequence EXCEPT ![p] = nextSequence[p] + 1]
        \/ nextSequence' = nextSequence
    BY SendFacts
  <2> QED
    BY <2>1, <2>2
<1>7. \/ /\ pending' = [pending EXCEPT ![p] = before \cup {e}]
         /\ net' = net \cup {m}
         /\ sentSequences' = [sentSequences EXCEPT ![p] =
                                 sentSequences[p] \cup {n}]
         /\ nextSequence'[p] = n + 1
      \/ /\ pending' = [pending EXCEPT ![p] = before]
         /\ UNCHANGED <<nextSequence, sentSequences, net>>
  <2>1. nextSequence \in [Roles -> Nat]
    BY DEF IInv, TypeOK
  <2> QED
    BY <2>1, SendFacts
<1>8. /\ pending' \in [Roles -> SUBSET Probe]
      /\ \A q \in Roles : q # p => pending'[q] = pending[q]
      /\ \A d \in pending'[p] :
            d \in pending[p] \/ (d = e /\ nextSequence'[p] = n + 1)
  <2>1. pending \in [Roles -> SUBSET Probe]
    BY DEF IInv, TypeOK
  <2> HIDE DEF e, n
  <2> QED
    BY <1>4, <1>7, <2>1
<1>9. \A k \in net' : k \in net \/ (k = m /\ nextSequence'[p] = n + 1)
  BY <1>7
<1>10. /\ sentSequences' \in [Roles -> SUBSET Sequence]
       /\ \A q \in Roles : \A k \in sentSequences'[q] :
             k \in sentSequences[q] \/ (q = p /\ k = n /\ nextSequence'[p] = n + 1)
  <2>1. sentSequences \in [Roles -> SUBSET Sequence]
    BY DEF IInv, TypeOK
  <2> HIDE DEF n, e, m
  <2> QED
    BY <1>1, <1>7, <2>1
<1> HIDE DEF n, e, m
<1>11. TypeOK'
  <2>1. net' \subseteq Requests \cup Responses
    BY <1>5, <1>9 DEF IInv, TypeOK
  <2> QED
    BY <1>1, <1>6, <1>8, <1>10, <2>1 DEF IInv, TypeOK
<1>12. NumbersArePast'
  <2>1. ASSUME NEW q \in Roles, NEW k \in Sequence, k >= nextSequence'[q]
        PROVE  k \notin sentSequences'[q] /\ history'[q][k] = <<>>
    <3>1. k >= nextSequence[q]
      BY <1>6, <2>1 DEF IInv, TypeOK, Sequence
    <3>2. k \notin sentSequences[q] /\ history[q][k] = <<>>
      BY <3>1 DEF IInv, NumbersArePast
    <3>3. ~ (q = p /\ k = n /\ nextSequence'[p] = n + 1)
      BY <1>2, <2>1
    <3> QED
      BY <1>1, <1>10, <3>2, <3>3
  <2>2. ASSUME NEW q \in Roles, NEW d \in pending'[q]
        PROVE  d.sequence < nextSequence'[q]
    <3>1. CASE d \in pending[q]
      <4>1. d.sequence < nextSequence[q]
        BY <3>1 DEF IInv, NumbersArePast
      <4>2. d.sequence \in Int
        BY <3>1 DEF IInv, TypeOK, Probe, Sequence
      <4> QED
        BY <1>6, <4>1, <4>2 DEF IInv, TypeOK
    <3>2. CASE d \notin pending[q]
      <4>1. q = p /\ d = e /\ nextSequence'[p] = n + 1
        BY <1>8, <3>2
      <4> QED
        BY <1>2, <1>4, <4>1
    <3> QED
      BY <3>1, <3>2
  <2>3. ASSUME NEW k \in net'
        PROVE  k.sequence < nextSequence'[k.requester]
    <3>1. CASE k \in net
      <4>1. k.sequence < nextSequence[k.requester]
        BY <3>1 DEF IInv, NumbersArePast
      <4>2. k.sequence \in Int /\ k.requester \in Roles
        BY <3>1 DEF IInv, TypeOK, Requests, Responses, Sequence
      <4> QED
        BY <1>6, <4>1, <4>2 DEF IInv, TypeOK
    <3>2. CASE k \notin net
      BY <1>2, <1>5, <1>9, <3>2
    <3> QED
      BY <3>1, <3>2
  <2> QED
    BY <2>1, <2>2, <2>3 DEF NumbersArePast
<1>13. PendingIsOpen'
  <2>1. history[p][n] = <<>>
    BY <1>1, <1>2 DEF IInv, NumbersArePast, n
  <2>2. \A q \in Roles : \A d \in pending[q] : d.sequence # nextSequence[q]
    BY DEF IInv, NumbersArePast, TypeOK, Probe, Sequence
  <2>3. \A d \in pending[p] : d.sequence # n
    BY <2>2 DEF n
  <2>4. ASSUME NEW q \in Roles
        PROVE  /\ \A d \in pending'[q] : history'[q][d.sequence] = <<>>
               /\ \A d1, d2 \in pending'[q] :
                     d1.sequence = d2.sequence => d1 = d2
    <3>1. CASE q = p
      <4>1. \A d \in pending'[p] : d \in pending[p] \/ d = e
        BY <1>8
      <4>2. \A d \in pending[p] : history[p][d.sequence] = <<>>
        BY DEF IInv, PendingIsOpen
      <4>3. \A d1, d2 \in pending[p] :
               d1.sequence = d2.sequence => d1 = d2
        BY DEF IInv, PendingIsOpen
      <4> QED
        BY <1>1, <1>4, <2>1, <2>3, <3>1, <4>1, <4>2, <4>3
    <3>2. CASE q # p
      BY <1>1, <1>8, <3>2 DEF IInv, PendingIsOpen
    <3> QED
      BY <3>1, <3>2
  <2>5. \A q \in Roles : \A k \in completedResponses'[q] :
           /\ history'[q][k] # <<>>
           /\ history'[q][k][1].kind = "completed"
    BY <1>1 DEF IInv, PendingIsOpen
  <2> QED
    BY <2>4, <2>5 DEF PendingIsOpen
<1>14. TimesAreOrdered'
  <2>1. m.t0 - Skew[p] <= now
    BY <1>5, ClockAssumption DEF ClockAssumption, Clock, IInv, TypeOK
  <2> QED
    BY <1>5, <1>9, <2>1 DEF IInv, TimesAreOrdered
<1>15. AnswersAreKnown'
  BY <1>5, <1>9 DEF IInv, AnswersAreKnown
<1>16. AnsweredOnce'
  BY <1>5, <1>9 DEF IInv, AnsweredOnce
<1>17. TimersAreOwned'
  BY <1>8 DEF IInv, TimersAreOwned
<1>18. VerdictComesFirst' /\ OffsetIsBounded'
  BY <1>1, VerdictsKept
<1> QED
  BY <1>11, <1>12, <1>13, <1>14, <1>15, <1>16, <1>17, <1>18 DEF IInv
-----------------------------------------------------------------------------
(* Calls and timers                                                        *)

LEMMA InitHolds ==
    Init => IInv
<1> SUFFICES ASSUME Init PROVE IInv
  OBVIOUS
<1>1. /\ \A p \in Roles : interval[p] = Null /\ pending[p] = {}
      /\ \A p \in Roles : nextSequence[p] = 0 /\ budget[p] = MaxProbes[p]
      /\ \A p \in Roles : \A n \in Sequence : history[p][n] = <<>>
      /\ net = {}
      /\ \A p \in Roles : completedResponses[p] = {} /\ sentSequences[p] = {}
  BY DEF Init
<1>2. TypeOK
  <2>1. history \in [Roles -> [Sequence -> Seq(Sample)]]
    BY DEF Init
  <2>2. budget \in [Roles -> Nat] /\ nextSequence \in [Roles -> Nat]
    BY ClockAssumption DEF Init, ClockAssumption
  <2> QED
    BY <1>1, <2>1, <2>2 DEF Init, TypeOK
<1>3. ProbesAreAsked
  BY <1>1, ClockAssumption DEF ClockAssumption, ProbesAreAsked, Left
<1>4. NumbersArePast /\ PendingIsOpen
  BY <1>1 DEF NumbersArePast, PendingIsOpen
<1>5. TimesAreOrdered /\ AnswersAreKnown /\ AnsweredOnce /\ TimersAreOwned
  BY <1>1 DEF TimesAreOrdered, AnswersAreKnown, AnsweredOnce, TimersAreOwned
<1>6. VerdictComesFirst /\ OffsetIsBounded
  BY <1>1 DEF VerdictComesFirst, OffsetIsBounded
<1> QED
  BY <1>2, <1>3, <1>4, <1>5, <1>6 DEF IInv

\* stopProbes, with whatever budget is left.
LEMMA StopProbesKeeps ==
    ASSUME IInv, NEW p \in Roles, StopProbes(p),
           UNCHANGED <<now, net, repeated, readyState, attached, nextSequence,
                       sentSequences, respondedSequences, completedResponses,
                       history>>,
           budget' \in [Roles -> Nat],
           \A q \in Roles : budget'[q] <= budget[q]
    PROVE  IInv'
<1>1. /\ interval' = [interval EXCEPT ![p] = Null]
      /\ pending' = [pending EXCEPT ![p] = {}]
      /\ interval \in [Roles -> {Null} \cup [sent : Nat, count : Nat]]
      /\ pending \in [Roles -> SUBSET Probe]
  BY DEF IInv, TypeOK, StopProbes
<1>2. /\ interval' \in [Roles -> {Null} \cup [sent : Nat, count : Nat]]
      /\ pending' \in [Roles -> SUBSET Probe]
      /\ interval'[p] = Null
      /\ pending'[p] = {}
      /\ \A q \in Roles : q # p => /\ interval'[q] = interval[q]
                                   /\ pending'[q] = pending[q]
  BY <1>1
<1>3. \A q \in Roles : pending'[q] \subseteq pending[q]
  BY <1>2
<1>4. TypeOK'
  BY <1>2 DEF IInv, TypeOK
<1>5. ProbesAreAsked'
  <2>1. ASSUME NEW q \in Roles
        PROVE  nextSequence'[q] + budget'[q] + Left(q)' <= MaxProbes[q]
    <3>1. /\ nextSequence[q] + budget[q] + Left(q) <= MaxProbes[q]
          /\ nextSequence[q] \in Nat /\ budget[q] \in Nat
          /\ budget'[q] \in Nat /\ MaxProbes[q] \in Nat
          /\ budget'[q] <= budget[q]
          /\ nextSequence'[q] = nextSequence[q]
      BY ClockAssumption DEF ClockAssumption, IInv, TypeOK, ProbesAreAsked
    <3>2. Left(q) \in Nat
      BY DEF IInv, TypeOK, Left
    <3>3. Left(q)' = 0 \/ Left(q)' = Left(q)
      BY <1>2 DEF Left
    <3> QED
      BY <3>1, <3>2, <3>3
  <2> QED
    BY <2>1 DEF ProbesAreAsked
<1>6. NumbersArePast' /\ PendingIsOpen'
  BY <1>3 DEF IInv, NumbersArePast, PendingIsOpen
<1>7. TimersAreOwned'
  BY <1>2 DEF IInv, TimersAreOwned
<1>8. TimesAreOrdered' /\ AnswersAreKnown' /\ AnsweredOnce'
  BY NetShrinks
<1>9. VerdictComesFirst' /\ OffsetIsBounded'
  BY VerdictsKept
<1> QED
  BY <1>4, <1>5, <1>6, <1>7, <1>8, <1>9 DEF IInv

LEMMA StartKeeps ==
    ASSUME IInv, NEW p \in Roles, NEW count \in Counts, Start(p, count)
    PROVE  IInv'
<1>1. /\ count \in Nat
      /\ count <= budget[p]
      /\ budget \in [Roles -> Nat]
      /\ budget' = [budget EXCEPT ![p] = budget[p] - count]
  BY ClockAssumption DEF ClockAssumption, Start, IInv, TypeOK
<1>2. /\ budget' \in [Roles -> Nat]
      /\ \A q \in Roles : budget'[q] <= budget[q]
      /\ budget'[p] = budget[p] - count
      /\ \A q \in Roles : q # p => budget'[q] = budget[q]
  BY <1>1
<1>3. CASE count = 0
  BY <1>2, <1>3, StopProbesKeeps DEF Start
<1>4. CASE count # 0
  <2>1. /\ interval' = [interval EXCEPT ![p] = [sent |-> 1, count |-> count]]
        /\ interval \in [Roles -> {Null} \cup [sent : Nat, count : Nat]]
        /\ SendProbe(p, {})
    BY <1>4 DEF Start, IInv, TypeOK
  <2>2. /\ interval' \in [Roles -> {Null} \cup [sent : Nat, count : Nat]]
        /\ \A q \in Roles : q # p => interval'[q] = interval[q]
        /\ interval'[p] = [sent |-> 1, count |-> count]
    BY <1>1, <2>1
  <2>3. interval'[p] # Null /\ interval'[p].sent <= interval'[p].count
    BY <1>1, <1>4, <2>2, ClockAssumption DEF ClockAssumption
  <2>4. \A q \in Roles :
           interval'[q] # Null => interval'[q].sent <= interval'[q].count
    BY <2>2, <2>3 DEF IInv, TypeOK
  <2>5. /\ nextSequence[p] \in Nat
        /\ budget[p] \in Nat
        /\ MaxProbes[p] \in Nat
        /\ Left(p) \in Nat
        /\ nextSequence[p] + budget[p] + Left(p) <= MaxProbes[p]
    BY ClockAssumption
    DEF ClockAssumption, IInv, TypeOK, ProbesAreAsked, Left
  <2>6. nextSequence[p] < MaxProbes[p]
    BY <1>1, <1>4, <2>5
  <2>7. /\ \A q \in Roles : q # p => nextSequence'[q] = nextSequence[q]
        /\ nextSequence'[p] \in {nextSequence[p], nextSequence[p] + 1}
    BY <2>1, <2>6, SendFacts DEF IInv, TypeOK
  <2>8. ProbesAreAsked'
    <3>1. Left(p)' = count - 1
      BY <2>2, <2>3 DEF Left
    <3>2. nextSequence'[p] + budget'[p] + Left(p)' <= MaxProbes[p]
      BY <1>1, <1>2, <2>5, <2>7, <3>1
    <3>3. \A q \in Roles : q # p => Left(q)' = Left(q)
      BY <2>2 DEF Left
    <3> QED
      BY <1>2, <2>7, <3>2, <3>3 DEF IInv, ProbesAreAsked
  <2> QED
    BY <1>2, <2>1, <2>2, <2>3, <2>4, <2>6, <2>8, SendKeeps DEF Start
<1> QED
  BY <1>3, <1>4

LEMMA TickKeeps ==
    ASSUME IInv, NEW p \in Roles, Tick(p)
    PROVE  IInv'
<1>1. /\ interval \in [Roles -> {Null} \cup [sent : Nat, count : Nat]]
      /\ interval[p] # Null
      /\ interval[p] \in [sent : Nat, count : Nat]
      /\ budget \in [Roles -> Nat]
      /\ budget' = budget
  BY DEF Tick, IInv, TypeOK
<1>2. CASE interval[p].sent >= interval[p].count
  <2>1. \A q \in Roles : budget'[q] <= budget[q]
    BY <1>1
  <2> QED
    BY <1>1, <1>2, <2>1, StopProbesKeeps DEF Tick
<1>3. CASE ~ (interval[p].sent >= interval[p].count)
  <2>1. /\ interval' = [interval EXCEPT ![p] =
                           [interval[p] EXCEPT !.sent = interval[p].sent + 1]]
        /\ SendProbe(p, pending[p])
    BY <1>3 DEF Tick
  <2>2. /\ interval' \in [Roles -> {Null} \cup [sent : Nat, count : Nat]]
        /\ \A q \in Roles : q # p => interval'[q] = interval[q]
        /\ interval'[p] \in [sent : Nat, count : Nat]
        /\ interval'[p].sent = interval[p].sent + 1
        /\ interval'[p].count = interval[p].count
    BY <1>1, <2>1
  <2>3. interval'[p] # Null /\ interval'[p].sent <= interval'[p].count
    BY <1>1, <1>3, <2>2, ClockAssumption DEF ClockAssumption
  <2>4. \A q \in Roles :
           interval'[q] # Null => interval'[q].sent <= interval'[q].count
    BY <2>2, <2>3 DEF IInv, TypeOK
  <2>5. /\ nextSequence[p] \in Nat
        /\ budget[p] \in Nat
        /\ MaxProbes[p] \in Nat
        /\ Left(p) = interval[p].count - interval[p].sent
        /\ nextSequence[p] + budget[p] + Left(p) <= MaxProbes[p]
    BY <1>1, ClockAssumption
    DEF ClockAssumption, IInv, TypeOK, ProbesAreAsked, Left
  <2>6. nextSequence[p] < MaxProbes[p]
    BY <1>1, <1>3, <2>5
  <2>7. /\ \A q \in Roles : q # p => nextSequence'[q] = nextSequence[q]
        /\ nextSequence'[p] \in {nextSequence[p], nextSequence[p] + 1}
    BY <2>1, <2>6, SendFacts DEF IInv, TypeOK
  <2>8. ProbesAreAsked'
    <3>1. Left(p)' = Left(p) - 1
      BY <1>1, <2>2, <2>3, <2>5 DEF Left
    <3>2. nextSequence'[p] + budget'[p] + Left(p)' <= MaxProbes[p]
      BY <1>1, <2>5, <2>7, <3>1
    <3>3. \A q \in Roles : q # p => Left(q)' = Left(q)
      BY <2>2 DEF Left
    <3> QED
      BY <1>1, <2>7, <3>2, <3>3 DEF IInv, ProbesAreAsked
  <2>9. p \in attached
    BY <1>1 DEF IInv, TimersAreOwned
  <2> QED
    BY <1>1, <2>1, <2>2, <2>3, <2>4, <2>6, <2>8, <2>9, SendKeeps DEF Tick
<1> QED
  BY <1>2, <1>3
LEMMA PauseKeeps ==
    ASSUME IInv, NEW p \in Roles, Pause(p)
    PROVE  IInv'
<1>1. budget' \in [Roles -> Nat] /\ \A q \in Roles : budget'[q] <= budget[q]
  BY DEF Pause, IInv, TypeOK
<1> QED
  BY <1>1, StopProbesKeeps DEF Pause

LEMMA StopKeeps ==
    ASSUME IInv, NEW p \in Roles, Stop(p)
    PROVE  IInv'
<1>1. /\ interval' = [interval EXCEPT ![p] = Null]
      /\ pending' = [pending EXCEPT ![p] = {}]
      /\ attached' = attached \ {p}
      /\ sentSequences' = [sentSequences EXCEPT ![p] = {}]
      /\ respondedSequences' = [respondedSequences EXCEPT ![p] = {}]
      /\ completedResponses' = [completedResponses EXCEPT ![p] = {}]
      /\ UNCHANGED <<now, net, repeated, readyState, budget, nextSequence,
                     history>>
  BY DEF Stop, StopProbes
<1>2. /\ interval \in [Roles -> {Null} \cup [sent : Nat, count : Nat]]
      /\ pending \in [Roles -> SUBSET Probe]
      /\ sentSequences \in [Roles -> SUBSET Sequence]
      /\ respondedSequences \in [Roles -> SUBSET Sequence]
      /\ completedResponses \in [Roles -> SUBSET Sequence]
  BY DEF IInv, TypeOK
<1>3. /\ interval' \in [Roles -> {Null} \cup [sent : Nat, count : Nat]]
      /\ interval'[p] = Null
      /\ \A q \in Roles : q # p => interval'[q] = interval[q]
  BY <1>1, <1>2
<1>4. /\ pending' \in [Roles -> SUBSET Probe]
      /\ pending'[p] = {}
      /\ \A q \in Roles : q # p => pending'[q] = pending[q]
      /\ \A q \in Roles : pending'[q] \subseteq pending[q]
  BY <1>1, <1>2
<1>5. /\ sentSequences' \in [Roles -> SUBSET Sequence]
      /\ \A q \in Roles : sentSequences'[q] \subseteq sentSequences[q]
  BY <1>1, <1>2
<1>6. /\ respondedSequences' \in [Roles -> SUBSET Sequence]
      /\ \A q \in Roles :
            q # p => respondedSequences'[q] = respondedSequences[q]
  BY <1>1, <1>2
<1>7. /\ completedResponses' \in [Roles -> SUBSET Sequence]
      /\ \A q \in Roles : completedResponses'[q] \subseteq completedResponses[q]
  BY <1>1, <1>2
<1>8. TypeOK'
  BY <1>1, <1>3, <1>4, <1>5, <1>6, <1>7 DEF IInv, TypeOK
<1>9. ProbesAreAsked'
  <2>1. ASSUME NEW q \in Roles
        PROVE  nextSequence'[q] + budget'[q] + Left(q)' <= MaxProbes[q]
    <3>1. /\ nextSequence[q] + budget[q] + Left(q) <= MaxProbes[q]
          /\ nextSequence[q] \in Nat /\ budget[q] \in Nat
          /\ MaxProbes[q] \in Nat
      BY ClockAssumption DEF ClockAssumption, IInv, TypeOK, ProbesAreAsked
    <3>2. Left(q) \in Nat
      BY DEF IInv, TypeOK, Left
    <3>3. Left(q)' = 0 \/ Left(q)' = Left(q)
      BY <1>3 DEF Left
    <3> QED
      BY <1>1, <3>1, <3>2, <3>3
  <2> QED
    BY <2>1 DEF ProbesAreAsked
<1>10. NumbersArePast'
  BY <1>1, <1>4, <1>5 DEF IInv, NumbersArePast
<1>11. PendingIsOpen'
  BY <1>1, <1>4, <1>7 DEF IInv, PendingIsOpen
<1>12. TimersAreOwned'
  BY <1>1, <1>3, <1>4 DEF IInv, TimersAreOwned
<1>13. TimesAreOrdered' /\ AnsweredOnce'
  BY <1>1 DEF IInv, TimesAreOrdered, AnsweredOnce
<1>14. AnswersAreKnown'
  <2>1. \A m \in net : m.requester \in Roles
    BY DEF IInv, TypeOK, Requests, Responses
  <2> QED
    BY <1>1, <1>6, <2>1, OtherRole DEF IInv, AnswersAreKnown
<1>15. VerdictComesFirst' /\ OffsetIsBounded'
  BY <1>1, VerdictsKept
<1> QED
  BY <1>8, <1>9, <1>10, <1>11, <1>12, <1>13, <1>14, <1>15 DEF IInv

-----------------------------------------------------------------------------
(* What is said about a probe                                              *)

\* A sample that is the first of its probe, or that repeats or is
\* unsolicited, keeps the verdicts in order and the estimates sound.
LEMMA SampleKeeps ==
    ASSUME IInv, NEW p \in Roles, NEW n \in Sequence, NEW sample \in Sample,
           Recorded(p, n, sample),
           history[p][n] # <<>> => sample.kind \in {"duplicate", "unsolicited"},
           sample.kind = "duplicate" =>
              /\ history[p][n] # <<>>
              /\ history[p][n][1].kind = "completed",
           sample.kind # "invalid",
           sample.kind = "completed" =>
              /\ sample.rtt >= 0
              /\ sample.offset2 - 2 * (Skew[oppositeRole(p)] - Skew[p])
                    <= sample.rtt
              /\ 2 * (Skew[oppositeRole(p)] - Skew[p]) - sample.offset2
                    <= sample.rtt
    PROVE  VerdictComesFirst' /\ OffsetIsBounded'
<1> DEFINE h == history[p][n]
<1>1. /\ history'[p][n] = Append(h, sample)
      /\ h \in Seq(Sample)
      /\ \A q \in Roles : \A k \in Sequence :
            q # p \/ k # n => history'[q][k] = history[q][k]
  BY RecordedFacts DEF IInv
<1>2. /\ \A i \in DOMAIN Append(h, sample) :
            \/ i \in DOMAIN h /\ Append(h, sample)[i] = h[i]
            \/ i = Len(h) + 1 /\ Append(h, sample)[i] = sample
      /\ h # <<>> => /\ 1 \in DOMAIN h
                     /\ Append(h, sample)[1] = h[1]
      /\ h = <<>> => Append(h, sample)[1] = sample /\ Len(h) = 0
  BY <1>1, AppendFacts
<1> HIDE DEF h
<1>3. ASSUME NEW i \in DOMAIN Append(h, sample)
      PROVE  /\ i > 1 =>
                  Append(h, sample)[i].kind \in {"duplicate", "unsolicited"}
             /\ Append(h, sample)[i].kind = "duplicate" =>
                  /\ i > 1
                  /\ Append(h, sample)[1].kind = "completed"
  <2>1. CASE i \in DOMAIN h /\ Append(h, sample)[i] = h[i]
    <3>1. h # <<>>
      BY <2>1
    <3>2. /\ i > 1 => h[i].kind \in {"duplicate", "unsolicited"}
          /\ h[i].kind = "duplicate" => i > 1 /\ h[1].kind = "completed"
      BY <2>1 DEF IInv, VerdictComesFirst, h
    <3> QED
      BY <1>2, <2>1, <3>1, <3>2
  <2>2. CASE i = Len(h) + 1 /\ Append(h, sample)[i] = sample
    <3>1. CASE h = <<>>
      <4>1. ~ (i > 1)
        BY <1>2, <2>2, <3>1
      <4>2. sample.kind # "duplicate"
        BY <3>1 DEF h
      <4> QED
        BY <2>2, <4>1, <4>2
    <3>2. CASE h # <<>>
      <4>1. i > 1
        BY <1>1, <2>2, <3>2
      <4>2. sample.kind \in {"duplicate", "unsolicited"}
        BY <3>2 DEF h
      <4>3. sample.kind = "duplicate" => h[1].kind = "completed"
        BY DEF h
      <4> QED
        BY <1>2, <2>2, <3>2, <4>1, <4>2, <4>3
    <3> QED
      BY <3>1, <3>2
  <2> QED
    BY <1>2, <2>1, <2>2
<1>4. VerdictComesFirst'
  <2>1. ASSUME NEW q \in Roles, NEW k \in Sequence,
               NEW i \in DOMAIN history'[q][k]
        PROVE  /\ i > 1 => history'[q][k][i].kind \in
                              {"duplicate", "unsolicited"}
               /\ history'[q][k][i].kind = "duplicate" =>
                     i > 1 /\ history'[q][k][1].kind = "completed"
    <3>1. CASE q = p /\ k = n
      BY <1>1, <1>3, <3>1
    <3>2. CASE ~ (q = p /\ k = n)
      BY <1>1, <3>2 DEF IInv, VerdictComesFirst
    <3> QED
      BY <3>1, <3>2
  <2> QED
    BY <2>1 DEF VerdictComesFirst
<1>5. OffsetIsBounded'
  <2>1. ASSUME NEW q \in Roles, NEW k \in Sequence,
               NEW i \in DOMAIN history'[q][k]
        PROVE  /\ history'[q][k][i].kind # "invalid"
               /\ history'[q][k][i].kind = "completed" =>
                     /\ history'[q][k][i].rtt >= 0
                     /\ history'[q][k][i].offset2
                           - 2 * (Skew[oppositeRole(q)] - Skew[q])
                             <= history'[q][k][i].rtt
                     /\ 2 * (Skew[oppositeRole(q)] - Skew[q])
                           - history'[q][k][i].offset2
                             <= history'[q][k][i].rtt
    <3>1. CASE history'[q][k][i] = sample /\ q = p
      BY <3>1
    <3>2. CASE i \in DOMAIN history[q][k]
               /\ history'[q][k][i] = history[q][k][i]
      BY <3>2 DEF IInv, OffsetIsBounded
    <3>3. CASE q = p /\ k = n
      <4>1. \/ i \in DOMAIN h /\ history'[q][k][i] = h[i]
            \/ history'[q][k][i] = sample
        BY <1>1, <1>2, <3>3
      <4> QED
        BY <3>1, <3>2, <3>3, <4>1 DEF h
    <3>4. CASE ~ (q = p /\ k = n)
      BY <1>1, <3>2, <3>4
    <3> QED
      BY <3>3, <3>4
  <2> QED
    BY <2>1 DEF OffsetIsBounded
<1> QED
  BY <1>4, <1>5
\* A probe whose entry is removed as something is said about it.
LEMMA ClosingKeeps ==
    ASSUME IInv, NEW p \in Roles, NEW e \in pending[p], NEW sample \in Sample,
           Recorded(p, e.sequence, sample),
           pending' = [pending EXCEPT ![p] = pending[p] \ {e}],
           \/ UNCHANGED completedResponses
           \/ /\ sample.kind = "completed"
              /\ completedResponses' =
                    [completedResponses EXCEPT ![p] =
                        completedResponses[p] \cup {e.sequence}],
           UNCHANGED <<nextSequence, sentSequences>>,
           net' \subseteq net
    PROVE  /\ history' \in [Roles -> [Sequence -> Seq(Sample)]]
           /\ pending' \in [Roles -> SUBSET Probe]
           /\ completedResponses' \in [Roles -> SUBSET Sequence]
           /\ \A q \in Roles : pending'[q] \subseteq pending[q]
           /\ history[p][e.sequence] = <<>>
           /\ NumbersArePast'
           /\ PendingIsOpen'
<1> DEFINE n == e.sequence
<1>1. /\ pending \in [Roles -> SUBSET Probe]
      /\ completedResponses \in [Roles -> SUBSET Sequence]
      /\ n \in Sequence
  BY DEF IInv, TypeOK, Probe
<1>2. /\ history' \in [Roles -> [Sequence -> Seq(Sample)]]
      /\ history'[p][n] = Append(history[p][n], sample)
      /\ history[p][n] \in Seq(Sample)
      /\ \A q \in Roles : \A k \in Sequence :
            q # p \/ k # n => history'[q][k] = history[q][k]
  BY <1>1, RecordedFacts DEF IInv
<1>3. /\ history[p][n] = <<>>
      /\ n < nextSequence[p]
  BY DEF IInv, PendingIsOpen, NumbersArePast
<1>4. history'[p][n] # <<>> /\ history'[p][n][1] = sample
  BY <1>2, <1>3, AppendFacts
<1>5. /\ pending' \in [Roles -> SUBSET Probe]
      /\ \A q \in Roles : pending'[q] \subseteq pending[q]
      /\ e \notin pending'[p]
  BY <1>1
<1>6. /\ completedResponses' \in [Roles -> SUBSET Sequence]
      /\ \A q \in Roles : \A k \in completedResponses'[q] :
            \/ k \in completedResponses[q]
            \/ q = p /\ k = n /\ sample.kind = "completed"
  BY <1>1
<1>7. NumbersArePast'
  <2>1. ASSUME NEW q \in Roles, NEW k \in Sequence, k >= nextSequence[q]
        PROVE  k \notin sentSequences[q] /\ history'[q][k] = <<>>
    <3>1. k \notin sentSequences[q] /\ history[q][k] = <<>>
      BY <2>1 DEF IInv, NumbersArePast
    <3>2. q # p \/ k # n
      BY <1>3, <2>1 DEF IInv, TypeOK, Sequence
    <3> QED
      BY <1>2, <3>1, <3>2
  <2> QED
    BY <1>5, <2>1 DEF IInv, NumbersArePast
<1>8. PendingIsOpen'
  <2>1. ASSUME NEW q \in Roles, NEW d \in pending'[q]
        PROVE  history'[q][d.sequence] = <<>>
    <3>1. d \in pending[q] /\ d.sequence \in Sequence
      BY <1>1, <1>5 DEF Probe
    <3>2. history[q][d.sequence] = <<>>
      BY <3>1 DEF IInv, PendingIsOpen
    <3>3. q # p \/ d.sequence # n
      <4>1. q = p => d # e
        BY <1>5
      <4> QED
        BY <3>1, <4>1 DEF IInv, PendingIsOpen
    <3> QED
      BY <1>2, <3>1, <3>2, <3>3
  <2>2. ASSUME NEW q \in Roles, NEW k \in completedResponses'[q]
        PROVE  /\ history'[q][k] # <<>>
               /\ history'[q][k][1].kind = "completed"
    <3>1. CASE q = p /\ k = n
      <4>1. k \notin completedResponses[p]
        BY <1>3, <3>1 DEF IInv, PendingIsOpen
      <4> QED
        BY <1>4, <1>6, <3>1, <4>1
    <3>2. CASE ~ (q = p /\ k = n)
      <4>1. k \in completedResponses[q] /\ k \in Sequence
        BY <1>6, <3>2
      <4> QED
        BY <1>2, <3>2, <4>1 DEF IInv, PendingIsOpen
    <3> QED
      BY <3>1, <3>2
  <2> QED
    BY <1>5, <2>1, <2>2 DEF IInv, PendingIsOpen
<1> QED
  BY <1>2, <1>3, <1>5, <1>6, <1>7, <1>8

LEMMA FlaggedType ==
    \A k \in {"timeout", "invalid", "duplicate", "unsolicited"} :
        Flagged(k) \in Sample /\ Flagged(k).kind = k
BY DEF Flagged, Sample

LEMMA TimeoutKeeps ==
    ASSUME IInv, NEW p \in Roles, NEW e \in pending[p], Timeout(p, e)
    PROVE  IInv'
<1> DEFINE sample == Flagged("timeout")
<1>1. /\ sample \in Sample
      /\ sample.kind = "timeout"
      /\ Recorded(p, e.sequence, sample)
      /\ pending' = [pending EXCEPT ![p] = pending[p] \ {e}]
      /\ UNCHANGED <<now, net, repeated, readyState, attached, interval,
                     budget, nextSequence, sentSequences, respondedSequences,
                     completedResponses>>
  BY FlaggedType DEF Timeout
<1>2. e.sequence \in Sequence
  BY DEF IInv, TypeOK, Probe
<1> HIDE DEF sample
<1>3. /\ history' \in [Roles -> [Sequence -> Seq(Sample)]]
      /\ pending' \in [Roles -> SUBSET Probe]
      /\ \A q \in Roles : pending'[q] \subseteq pending[q]
      /\ history[p][e.sequence] = <<>>
      /\ NumbersArePast'
      /\ PendingIsOpen'
  BY <1>1, ClosingKeeps
<1>4. VerdictComesFirst' /\ OffsetIsBounded'
  BY <1>1, <1>2, <1>3, SampleKeeps
<1>5. TypeOK'
  BY <1>1, <1>3 DEF IInv, TypeOK
<1>6. ProbesAreAsked'
  BY <1>1 DEF IInv, ProbesAreAsked, Left
<1>7. TimersAreOwned'
  BY <1>1, <1>3 DEF IInv, TimersAreOwned
<1>8. TimesAreOrdered' /\ AnswersAreKnown' /\ AnsweredOnce'
  BY <1>1, NetShrinks
<1> QED
  BY <1>3, <1>4, <1>5, <1>6, <1>7, <1>8 DEF IInv
-----------------------------------------------------------------------------
(* Messages                                                                *)

LEMMA ReceiveRequestKeeps ==
    ASSUME IInv, NEW m \in net, ReceiveRequest(m)
    PROVE  IInv'
<1> DEFINE p == m.requester
           q == oppositeRole(m.requester)
           n == m.sequence
           r == Response(m, Clock(q), Clock(q))
<1>1. /\ m \in Requests
      /\ p \in Roles
      /\ n \in Sequence
      /\ m.t0 \in Int
  BY DEF ReceiveRequest, IInv, TypeOK, Requests, Responses
<1>2. q \in Roles /\ q # p
  BY <1>1, OtherRole
<1>3. Clock(q) \in Int /\ Clock(q) = now + Skew[q]
  BY <1>2, ClockAssumption DEF ClockAssumption, Clock, IInv, TypeOK
<1>4. /\ r \in Responses
      /\ r.type = "response" /\ r.requester = p /\ r.sequence = n
      /\ r.t0 = m.t0 /\ r.t1 = Clock(q) /\ r.t2 = Clock(q)
  BY <1>1, <1>3 DEF Response, Responses
<1>5. /\ m.t0 - Skew[p] <= now
      /\ n < nextSequence[p]
  BY DEF ReceiveRequest, IInv, TimesAreOrdered, NumbersArePast
<1>6. /\ UNCHANGED <<now, readyState, attached, interval, budget,
                     nextSequence, sentSequences, pending,
                     completedResponses, history>>
      /\ repeated' \in Nat
      /\ \/ /\ net' \subseteq net
            /\ UNCHANGED respondedSequences
         \/ /\ net' \subseteq net
            /\ q \notin attached
            /\ respondedSequences' =
                  [respondedSequences EXCEPT ![q] =
                      respondedSequences[q] \cup {n}]
         \/ /\ net' \subseteq net \cup {r}
            /\ q \in attached
            /\ n \notin respondedSequences[q]
            /\ respondedSequences' =
                  [respondedSequences EXCEPT ![q] =
                      respondedSequences[q] \cup {n}]
  <2>1. TypeOK
    BY DEF IInv
  <2>2. CASE n \in respondedSequences[q]
    <3>1. Taken(m, {}) /\ UNCHANGED respondedSequences
      BY <2>2 DEF ReceiveRequest
    <3> QED
      BY <2>1, <3>1, TakenFacts DEF ReceiveRequest
  <2>3. CASE n \notin respondedSequences[q]
    <3>1. /\ respondedSequences' =
                [respondedSequences EXCEPT ![q] =
                    respondedSequences[q] \cup {n}]
          /\ Taken(m, IF q \in attached THEN {r} ELSE {})
      BY <2>3 DEF ReceiveRequest
    <3> HIDE DEF q, n, r
    <3>2. CASE q \in attached
      <4>1. Taken(m, {r})
        BY <3>1, <3>2
      <4> QED
        BY <2>1, <2>3, <3>1, <3>2, <4>1, TakenFacts DEF ReceiveRequest
    <3>3. CASE q \notin attached
      <4>1. Taken(m, {})
        BY <3>1, <3>3
      <4> QED
        BY <2>1, <2>3, <3>1, <3>3, <4>1, TakenFacts DEF ReceiveRequest
    <3> QED
      BY <3>2, <3>3
  <2> QED
    BY <2>2, <2>3
<1> HIDE DEF p, q, n, r
<1>7. /\ respondedSequences' \in [Roles -> SUBSET Sequence]
      /\ \A u \in Roles : respondedSequences[u] \subseteq respondedSequences'[u]
  <2>1. respondedSequences \in [Roles -> SUBSET Sequence]
    BY DEF IInv, TypeOK
  <2> QED
    BY <1>1, <1>2, <1>6, <2>1 DEF n
<1>8. \A k \in net' : \/ k \in net
                      \/ /\ k = r
                         /\ q \in attached
                         /\ n \notin respondedSequences[q]
                         /\ n \in respondedSequences'[q]
  <2>1. respondedSequences \in [Roles -> SUBSET Sequence]
    BY DEF IInv, TypeOK
  <2> QED
    BY <1>2, <1>6, <2>1
<1>9. TypeOK'
  <2>1. net' \subseteq Requests \cup Responses
    BY <1>4, <1>8 DEF IInv, TypeOK
  <2> QED
    BY <1>6, <1>7, <2>1 DEF IInv, TypeOK
<1>10. ProbesAreAsked'
  BY <1>6 DEF IInv, ProbesAreAsked, Left
<1>11. NumbersArePast'
  BY <1>4, <1>5, <1>6, <1>8 DEF IInv, NumbersArePast, p
<1>12. PendingIsOpen' /\ TimersAreOwned'
  BY <1>6 DEF IInv, PendingIsOpen, TimersAreOwned
<1>13. TimesAreOrdered'
  <2>1. /\ r.t0 - Skew[p] <= r.t1 - Skew[q]
        /\ r.t1 <= r.t2
        /\ r.t2 - Skew[q] <= now
    <3>1. Skew[p] \in Int /\ Skew[q] \in Int /\ now \in Int
      BY <1>1, <1>2, ClockAssumption
      DEF ClockAssumption, IInv, TypeOK, p
    <3> QED
      BY <1>1, <1>3, <1>4, <1>5, <3>1
  <2>2. oppositeRole(r.requester) = q
    BY <1>4 DEF p, q
  <2> QED
    BY <1>4, <1>6, <1>8, <2>1, <2>2 DEF IInv, TimesAreOrdered
<1>14. AnswersAreKnown'
  <2>1. ASSUME NEW k \in net', k.type = "response",
               oppositeRole(k.requester) \in attached
        PROVE  k.sequence \in respondedSequences'[oppositeRole(k.requester)]
    <3>1. CASE k \in net
      <4>1. oppositeRole(k.requester) \in Roles
        BY <3>1, OtherRole DEF IInv, TypeOK, Requests, Responses
      <4>2. k.sequence \in respondedSequences[oppositeRole(k.requester)]
        BY <2>1, <3>1 DEF IInv, AnswersAreKnown
      <4> QED
        BY <1>7, <4>1, <4>2
    <3>2. CASE k \notin net
      BY <1>4, <1>8, <3>2 DEF p, q
    <3> QED
      BY <3>1, <3>2
  <2> QED
    BY <1>6, <2>1 DEF AnswersAreKnown
<1>15. AnsweredOnce'
  <2>1. ASSUME NEW k \in net, k.type = "response", k.requester = p,
               k.sequence = n, q \in attached, n \notin respondedSequences[q]
        PROVE  FALSE
    BY <2>1 DEF IInv, AnswersAreKnown, p, q
  <2> QED
    BY <1>4, <1>8, <2>1 DEF IInv, AnsweredOnce
<1>16. VerdictComesFirst' /\ OffsetIsBounded'
  BY <1>6, VerdictsKept
<1> QED
  BY <1>9, <1>10, <1>11, <1>12, <1>13, <1>14, <1>15, <1>16 DEF IInv

\* With ordered times, an answer is valid and its estimate sound.
LEMMA EstimateIsSound ==
    ASSUME NEW t0 \in Int, NEW t1 \in Int, NEW t2 \in Int, NEW t3 \in Int,
           NEW a \in Int, NEW b \in Int,
           t0 - a <= t1 - b, t1 <= t2, t2 - b <= t3 - a
    PROVE  /\ ValidTimes(t0, t1, t2, t3)
           /\ RoundTrip(t0, t1, t2, t3) >= 0
           /\ OffsetTwice(t0, t1, t2, t3) - 2 * (b - a)
                 <= RoundTrip(t0, t1, t2, t3)
           /\ 2 * (b - a) - OffsetTwice(t0, t1, t2, t3)
                 <= RoundTrip(t0, t1, t2, t3)
BY DEF ValidTimes, RoundTrip, OffsetTwice

LEMMA ReceiveResponseKeeps ==
    ASSUME IInv, NEW m \in net, ReceiveResponse(m)
    PROVE  IInv'
<1> DEFINE p == m.requester
           n == m.sequence
           q == oppositeRole(p)
           t3 == Clock(p)
           rtt == RoundTrip(m.t0, m.t1, m.t2, t3)
           off == OffsetTwice(m.t0, m.t1, m.t2, t3)
<1>1. /\ m.type = "response"
      /\ m \in Responses
      /\ p \in Roles
      /\ n \in Sequence
      /\ m.t0 \in Int /\ m.t1 \in Int /\ m.t2 \in Int
  BY DEF ReceiveResponse, IInv, TypeOK, Requests, Responses
<1>2. q \in Roles
  BY <1>1, OtherRole
<1>3. /\ Skew[p] \in Int /\ Skew[q] \in Int /\ now \in Int
      /\ t3 \in Int
      /\ t3 - Skew[p] = now
  BY <1>1, <1>2, ClockAssumption DEF ClockAssumption, Clock, IInv, TypeOK
<1>4. /\ m.t0 - Skew[p] <= m.t1 - Skew[q]
      /\ m.t1 <= m.t2
      /\ m.t2 - Skew[q] <= now
  BY <1>1 DEF IInv, TimesAreOrdered
<1>5. /\ ValidTimes(m.t0, m.t1, m.t2, t3)
      /\ rtt >= 0
      /\ off - 2 * (Skew[q] - Skew[p]) <= rtt
      /\ 2 * (Skew[q] - Skew[p]) - off <= rtt
  BY <1>1, <1>3, <1>4, EstimateIsSound
<1>6. rtt \in Int /\ off \in Int
  BY <1>1, <1>3 DEF RoundTrip, OffsetTwice
<1>7. /\ UNCHANGED <<now, readyState, attached, interval, budget,
                     nextSequence, sentSequences, respondedSequences>>
      /\ net' \subseteq net
      /\ repeated' \in Nat
  <2>1. Taken(m, {}) /\ TypeOK
    BY DEF ReceiveResponse, IInv
  <2> QED
    BY <2>1, TakenFacts DEF ReceiveResponse
<1>8. ProbesAreAsked'
  BY <1>7 DEF IInv, ProbesAreAsked, Left
<1>9. TimesAreOrdered' /\ AnswersAreKnown' /\ AnsweredOnce'
  BY <1>7, NetShrinks
<1>10. ASSUME NEW sample \in Sample,
              sample.kind \in {"duplicate", "unsolicited"},
              Recorded(p, n, sample),
              sample.kind = "duplicate" => n \in completedResponses[p],
              UNCHANGED <<pending, completedResponses>>,
              PendingFor(p, n) = {}
       PROVE  IInv'
  <2> HIDE DEF p, n, q, t3, rtt, off
  <2>1. /\ history' \in [Roles -> [Sequence -> Seq(Sample)]]
        /\ history'[p][n] = Append(history[p][n], sample)
        /\ history[p][n] \in Seq(Sample)
        /\ \A u \in Roles : \A k \in Sequence :
              u # p \/ k # n => history'[u][k] = history[u][k]
    BY <1>1, <1>10, RecordedFacts DEF IInv
  <2>2. /\ Append(history[p][n], sample) # <<>>
        /\ history[p][n] # <<>> =>
              Append(history[p][n], sample)[1] = history[p][n][1]
    <3> DEFINE h == history[p][n]
    <3>1. h \in Seq(Sample)
      BY <2>1
    <3> HIDE DEF h
    <3>2. /\ Append(h, sample) # <<>>
          /\ h # <<>> => Append(h, sample)[1] = h[1]
      BY <1>10, <3>1, AppendFacts
    <3> QED
      BY <3>2 DEF h
  <2>3. n \in completedResponses[p] =>
           /\ history[p][n] # <<>>
           /\ history[p][n][1].kind = "completed"
    BY <1>1 DEF IInv, PendingIsOpen
  <2>4. VerdictComesFirst' /\ OffsetIsBounded'
    BY <1>1, <1>10, <2>3, SampleKeeps
  <2>5. TypeOK'
    BY <1>7, <1>10, <2>1 DEF IInv, TypeOK
  <2>6. NumbersArePast'
    <3>1. n < nextSequence[p]
      BY DEF IInv, NumbersArePast, p, n
    <3>2. \A u \in Roles : \A k \in Sequence :
             k >= nextSequence[u] => u # p \/ k # n
      BY <1>1, <3>1 DEF IInv, TypeOK, Sequence
    <3> QED
      BY <1>7, <1>10, <2>1, <3>2 DEF IInv, NumbersArePast
  <2>7. PendingIsOpen'
    <3>1. ASSUME NEW u \in Roles, NEW d \in pending[u]
          PROVE  history'[u][d.sequence] = <<>>
      <4>1. u # p \/ d.sequence # n
        BY <1>10 DEF PendingFor
      <4>2. d.sequence \in Sequence
        BY DEF IInv, TypeOK, Probe
      <4> QED
        BY <2>1, <4>1, <4>2 DEF IInv, PendingIsOpen
    <3>2. ASSUME NEW u \in Roles, NEW k \in completedResponses[u]
          PROVE  /\ history'[u][k] # <<>>
                 /\ history'[u][k][1].kind = "completed"
      <4>1. /\ history[u][k] # <<>>
            /\ history[u][k][1].kind = "completed"
            /\ k \in Sequence
        BY DEF IInv, PendingIsOpen, TypeOK
      <4> QED
        BY <2>1, <2>2, <4>1
    <3> QED
      BY <1>10, <3>1, <3>2 DEF IInv, PendingIsOpen
  <2>8. TimersAreOwned'
    BY <1>7, <1>10 DEF IInv, TimersAreOwned
  <2> QED
    BY <1>8, <1>9, <2>4, <2>5, <2>6, <2>7, <2>8 DEF IInv
<1>11. CASE n \in completedResponses[p]
  <2>1. /\ Recorded(p, n, Flagged("duplicate"))
        /\ UNCHANGED <<pending, completedResponses>>
    BY <1>11 DEF ReceiveResponse
  <2>2. PendingFor(p, n) = {}
    <3>1. history[p][n] # <<>>
      BY <1>1, <1>11 DEF IInv, PendingIsOpen
    <3>2. \A e \in pending[p] : history[p][e.sequence] = <<>>
      BY <1>1 DEF IInv, PendingIsOpen
    <3> QED
      BY <3>1, <3>2 DEF PendingFor
  <2> HIDE DEF p, n
  <2> QED
    BY <1>10, <1>11, <2>1, <2>2, FlaggedType
<1>12. CASE n \notin completedResponses[p] /\ PendingFor(p, n) = {}
  <2>1. /\ Recorded(p, n, Flagged("unsolicited"))
        /\ UNCHANGED <<pending, completedResponses>>
    BY <1>12 DEF ReceiveResponse
  <2> HIDE DEF p, n
  <2> QED
    BY <1>10, <1>12, <2>1, FlaggedType
<1>13. CASE n \notin completedResponses[p] /\ PendingFor(p, n) # {}
  <2>1. PICK e \in pending[p] : e.sequence = n
    BY <1>13 DEF PendingFor
  <2>2. PendingFor(p, n) = {e}
    BY <1>1, <2>1 DEF IInv, PendingIsOpen, PendingFor
  <2> DEFINE sample == Completed(rtt, off)
  <2>3. /\ pending' = [pending EXCEPT ![p] = pending[p] \ {e}]
        /\ completedResponses' =
              [completedResponses EXCEPT ![p] =
                  completedResponses[p] \cup {e.sequence}]
        /\ Recorded(p, e.sequence, sample)
    BY <1>5, <1>13, <2>1, <2>2 DEF ReceiveResponse
  <2>4. /\ sample \in Sample
        /\ sample.kind = "completed"
        /\ sample.rtt = rtt
        /\ sample.offset2 = off
    BY <1>6 DEF Completed, Sample
  <2> HIDE DEF sample, rtt, off, n, p, q
  <2>5. /\ history' \in [Roles -> [Sequence -> Seq(Sample)]]
        /\ pending' \in [Roles -> SUBSET Probe]
        /\ completedResponses' \in [Roles -> SUBSET Sequence]
        /\ \A u \in Roles : pending'[u] \subseteq pending[u]
        /\ history[p][e.sequence] = <<>>
        /\ NumbersArePast'
        /\ PendingIsOpen'
    BY <1>1, <1>7, <2>3, <2>4, ClosingKeeps
  <2>6. VerdictComesFirst' /\ OffsetIsBounded'
    <3>1. oppositeRole(p) = q
      BY DEF q
    <3> QED
      BY <1>1, <1>5, <2>1, <2>3, <2>4, <2>5, <3>1, SampleKeeps
  <2>7. TypeOK'
    BY <1>7, <2>5 DEF IInv, TypeOK
  <2>8. TimersAreOwned'
    BY <1>7, <2>5 DEF IInv, TimersAreOwned
  <2> QED
    BY <1>8, <1>9, <2>5, <2>6, <2>7, <2>8 DEF IInv
<1> QED
  BY <1>11, <1>12, <1>13
LEMMA LoseKeeps ==
    ASSUME IInv, NEW m \in net, Lose(m)
    PROVE  IInv'
<1>1. /\ net' \subseteq net
      /\ UNCHANGED <<now, repeated, readyState, attached, interval, budget,
                     nextSequence, sentSequences, pending, respondedSequences,
                     completedResponses, history>>
  BY DEF Lose, engines
<1>2. TypeOK' /\ ProbesAreAsked' /\ TimersAreOwned'
  BY <1>1 DEF IInv, TypeOK, ProbesAreAsked, Left, TimersAreOwned
<1>3. NumbersArePast' /\ PendingIsOpen'
  BY <1>1 DEF IInv, NumbersArePast, PendingIsOpen
<1>4. TimesAreOrdered' /\ AnswersAreKnown' /\ AnsweredOnce'
  BY <1>1, NetShrinks
<1>5. VerdictComesFirst' /\ OffsetIsBounded'
  BY <1>1, VerdictsKept
<1> QED
  BY <1>2, <1>3, <1>4, <1>5 DEF IInv

LEMMA CloseKeeps ==
    ASSUME IInv, Close
    PROVE  IInv'
<1>1. /\ net' \subseteq net
      /\ readyState' = "closed"
      /\ UNCHANGED <<now, repeated, attached, interval, budget,
                     nextSequence, sentSequences, pending, respondedSequences,
                     completedResponses, history>>
  BY DEF Close, engines
<1>2. TypeOK' /\ ProbesAreAsked' /\ TimersAreOwned'
  BY <1>1 DEF IInv, TypeOK, ProbesAreAsked, Left, TimersAreOwned
<1>3. NumbersArePast' /\ PendingIsOpen'
  BY <1>1 DEF IInv, NumbersArePast, PendingIsOpen
<1>4. TimesAreOrdered' /\ AnswersAreKnown' /\ AnsweredOnce'
  BY <1>1, NetShrinks
<1>5. VerdictComesFirst' /\ OffsetIsBounded'
  BY <1>1, VerdictsKept
<1> QED
  BY <1>2, <1>3, <1>4, <1>5 DEF IInv

LEMMA PassKeeps ==
    ASSUME IInv, Pass
    PROVE  IInv'
<1>1. /\ now \in Nat
      /\ now' = now + 1
      /\ UNCHANGED <<net, repeated, readyState, attached, interval, budget,
                     nextSequence, sentSequences, pending, respondedSequences,
                     completedResponses, history>>
  BY DEF Pass, engines, IInv, TypeOK
<1>2. TypeOK' /\ ProbesAreAsked' /\ TimersAreOwned'
  BY <1>1 DEF IInv, TypeOK, ProbesAreAsked, Left, TimersAreOwned
<1>3. NumbersArePast' /\ PendingIsOpen' /\ AnswersAreKnown' /\ AnsweredOnce'
  BY <1>1
  DEF IInv, NumbersArePast, PendingIsOpen, AnswersAreKnown, AnsweredOnce
<1>4. TimesAreOrdered'
  <2>1. ASSUME NEW m \in net
        PROVE  /\ m.type = "request" => m.t0 - Skew[m.requester] <= now'
               /\ m.type = "response" =>
                     m.t2 - Skew[oppositeRole(m.requester)] <= now'
    <3>1. /\ m.requester \in Roles
          /\ m.t0 \in Int
          /\ m.type = "response" => m.t2 \in Int
      BY DEF IInv, TypeOK, Requests, Responses
    <3>2. /\ Skew[m.requester] \in Int
          /\ Skew[oppositeRole(m.requester)] \in Int
      BY <3>1, OtherRole, ClockAssumption DEF ClockAssumption
    <3> QED
      BY <1>1, <3>1, <3>2 DEF IInv, TimesAreOrdered
  <2> QED
    BY <1>1, <2>1 DEF IInv, TimesAreOrdered
<1>5. VerdictComesFirst' /\ OffsetIsBounded'
  BY <1>1, VerdictsKept
<1> QED
  BY <1>2, <1>3, <1>4, <1>5 DEF IInv

LEMMA StepKeeps ==
    ASSUME IInv, [Next]_vars
    PROVE  IInv'
<1>1. ASSUME NEW p \in Roles, NEW count \in Counts, Start(p, count)
      PROVE  IInv'
  BY <1>1, StartKeeps
<1>2. ASSUME NEW p \in Roles, Pause(p) \/ Stop(p) \/ Tick(p)
      PROVE  IInv'
  BY <1>2, PauseKeeps, StopKeeps, TickKeeps
<1>3. ASSUME NEW p \in Roles, NEW e \in pending[p], Timeout(p, e)
      PROVE  IInv'
  BY <1>3, TimeoutKeeps
<1>4. ASSUME NEW m \in net, Receive(m) \/ Lose(m)
      PROVE  IInv'
  BY <1>4, ReceiveRequestKeeps, ReceiveResponseKeeps, LoseKeeps DEF Receive
<1>5. CASE Close \/ Pass
  BY <1>5, CloseKeeps, PassKeeps
<1>6. CASE UNCHANGED vars
  <2>1. UNCHANGED <<now, net, repeated, readyState, attached, interval,
                    budget, nextSequence, sentSequences, pending,
                    respondedSequences, completedResponses, history>>
    BY <1>6 DEF vars, engines
  <2>2. TypeOK' /\ ProbesAreAsked' /\ TimersAreOwned'
    BY <2>1 DEF IInv, TypeOK, ProbesAreAsked, Left, TimersAreOwned
  <2>3. NumbersArePast' /\ PendingIsOpen'
    BY <2>1 DEF IInv, NumbersArePast, PendingIsOpen
  <2>4. TimesAreOrdered' /\ AnswersAreKnown' /\ AnsweredOnce'
    BY <2>1, NetShrinks
  <2>5. VerdictComesFirst' /\ OffsetIsBounded'
    BY <2>1, VerdictsKept
  <2> QED
    BY <2>2, <2>3, <2>4, <2>5 DEF IInv
<1> QED
  BY <1>1, <1>2, <1>3, <1>4, <1>5, <1>6 DEF Next

-----------------------------------------------------------------------------
(* The theorems                                                            *)

\* Every state the engines and the channel can reach satisfies the
\* strengthened invariant.
THEOREM Invariance == Spec => []IInv
<1>1. Init => IInv
  BY InitHolds
<1>2. IInv /\ [Next]_vars => IInv'
  BY StepKeeps
<1> QED
  BY <1>1, <1>2, PTL DEF Spec

\* The fields of the engines stay well formed, and an interval never sends
\* more probes than start was asked for (clock-probe.ts:157-176).
THEOREM TypeCorrect == Spec => []TypeOK
<1>1. IInv => TypeOK
  BY DEF IInv
<1> QED
  BY <1>1, Invariance, PTL

\* A probe gets at most one verdict and gets it first: timeouts, answers,
\* repetitions, pauses and stops never make two (clock-probe.ts:263-443).
THEOREM VerdictCorrect == Spec => []VerdictComesFirst
<1>1. IInv => VerdictComesFirst
  BY DEF IInv
<1> QED
  BY <1>1, Invariance, PTL

\* The offset that is reported is within half the round trip of the true one
\* (clock-probe.ts:42-69), whatever the network does with the messages.
THEOREM OffsetCorrect == Spec => []OffsetIsBounded
<1>1. IInv => OffsetIsBounded
  BY DEF IInv
<1> QED
  BY <1>1, Invariance, PTL

\* No timeout outlives its interval, no interval its engine
\* (clock-probe.ts:178-195).
THEOREM TimersCorrect == Spec => []TimersAreOwned
<1>1. IInv => TimersAreOwned
  BY DEF IInv
<1> QED
  BY <1>1, Invariance, PTL

\* The answers in the channel to one probe are all the same answer
\* (clock-probe.ts:311-313).
THEOREM AnswersCorrect == Spec => []AnsweredOnce
<1>1. IInv => AnsweredOnce
  BY DEF IInv
<1> QED
  BY <1>1, Invariance, PTL
=============================================================================
