----------------------------- MODULE ClockProbe -----------------------------
(***************************************************************************)
(* The clock probes of the live session (clock-probe.ts): each peer has a  *)
(* ClockProbeEngine that sends numbered requests over the data channel and *)
(* estimates round trip and clock offset from the answers.                 *)
(*                                                                         *)
(* The channel is unordered and unreliable (session.ts), so a message may  *)
(* be overtaken or lost; the engines also guard against repetition, so up  *)
(* to MaxDuplicates repetitions are allowed.  Both ends run this code:     *)
(* messages that are malformed, of another version or another role do not  *)
(* occur.  The clocks of the peers differ by a constant.  The interval of  *)
(* start may elapse at any moment, for it is a parameter.                  *)
(***************************************************************************)
EXTENDS Integers, Sequences

CONSTANTS
    Skew,           \* Skew[p]: the clock of p minus the true time
    Counts,         \* what start is called with, after the limit of 120
    ProbeTimeout,   \* PROBE_TIMEOUT_MS
    MaxProbes,      \* bounds: probes of each peer, time, repetitions
    MaxTime,
    MaxDuplicates,
    Null

Roles == {"peer_a", "peer_b"}

oppositeRole(p) == IF p = "peer_a" THEN "peer_b" ELSE "peer_a"

ASSUME ClockAssumption ==
    /\ Skew \in [Roles -> Int]
    /\ Counts \subseteq Nat
    /\ ProbeTimeout \in Nat
    /\ MaxProbes \in [Roles -> Nat]
    /\ MaxTime \in Nat
    /\ MaxDuplicates \in Nat
    /\ Null \notin [sent : Nat, count : Nat]

VARIABLES
    now,                \* true time
    net,                \* messages in the channel
    repeated,           \* how many repetitions there were
    readyState,         \* of the channel
    attached,           \* engines that hold the channel
    interval,           \* probes sent and wanted, or Null
    budget,             \* probes that start may still be asked for
    nextSequence,
    sentSequences,
    pending,            \* each with its timeout
    respondedSequences,
    completedResponses,
    history             \* history[p][n]: the samples about probe n of p

engines == <<attached, interval, budget, nextSequence, sentSequences, pending,
             respondedSequences, completedResponses, history>>

vars == <<now, net, repeated, readyState, engines>>

\* Numbers of probes, enough for either peer.
Sequence == 0 .. MaxProbes["peer_a"] + MaxProbes["peer_b"] - 1

Request(p, n, t0) ==
    [type |-> "request", requester |-> p, sequence |-> n, t0 |-> t0]

Response(m, t1, t2) ==
    [type |-> "response", requester |-> m.requester, sequence |-> m.sequence,
     t0 |-> m.t0, t1 |-> t1, t2 |-> t2]

Requests  == [type : {"request"}, requester : Roles, sequence : Sequence,
              t0 : Int]
Responses == [type : {"response"}, requester : Roles, sequence : Sequence,
              t0 : Int, t1 : Int, t2 : Int]
Probe     == [sequence : Sequence, t0 : Int]

\* offset2 is twice the offset.
Completed(rtt, offset2) ==
    [kind |-> "completed", rtt |-> rtt, offset2 |-> offset2]
Flagged(kind) == [kind |-> kind, rtt |-> 0, offset2 |-> 0]

Sample == [kind : {"completed", "timeout", "invalid", "duplicate",
                   "unsolicited"},
           rtt : Int, offset2 : Int]

Clock(p) == now + Skew[p]

-----------------------------------------------------------------------------
(* validateCrossDeviceClockTimestamps                                      *)

ValidTimes(t0, t1, t2, t3) ==
    /\ t3 >= t0
    /\ t2 >= t1
    /\ (t3 - t0) - (t2 - t1) >= 0

RoundTrip(t0, t1, t2, t3) == (t3 - t0) - (t2 - t1)

\* Mutant: the way back is added with the wrong sign.
OffsetTwiceOneWay(t0, t1, t2, t3) == (t1 - t0) + (t3 - t2)

OffsetTwice(t0, t1, t2, t3) == (t1 - t0) + (t2 - t3)

-----------------------------------------------------------------------------
Init ==
    /\ now = 0
    /\ net = {}
    /\ repeated = 0
    /\ readyState = "open"
    /\ attached = Roles
    /\ interval = [p \in Roles |-> Null]
    /\ budget = MaxProbes
    /\ nextSequence = [p \in Roles |-> 0]
    /\ sentSequences = [p \in Roles |-> {}]
    /\ pending = [p \in Roles |-> {}]
    /\ respondedSequences = [p \in Roles |-> {}]
    /\ completedResponses = [p \in Roles |-> {}]
    /\ history = [p \in Roles |-> [n \in Sequence |-> <<>>]]

Recorded(p, n, sample) ==
    history' = [history EXCEPT ![p][n] = Append(@, sample)]

\* sendProbe, where before is what is already pending.
SendProbe(p, before) ==
    LET n == nextSequence[p]
    IN  IF p \in attached /\ readyState = "open"
        THEN /\ nextSequence' = [nextSequence EXCEPT ![p] = n + 1]
             /\ IF n \in sentSequences[p]
                THEN /\ Recorded(p, n, Flagged("duplicate"))
                     /\ pending' = [pending EXCEPT ![p] = before]
                     /\ UNCHANGED <<net, sentSequences>>
                ELSE /\ sentSequences' =
                            [sentSequences EXCEPT ![p] = @ \cup {n}]
                     /\ pending' =
                            [pending EXCEPT ![p] =
                                before \cup {[sequence |-> n, t0 |-> Clock(p)]}]
                     /\ net' = net \cup {Request(p, n, Clock(p))}
                     /\ UNCHANGED history
        ELSE /\ pending' = [pending EXCEPT ![p] = before]
             /\ UNCHANGED <<nextSequence, sentSequences, net, history>>

\* Mutant: the timeouts are left running.
StopProbesTimersKept(p) ==
    /\ interval' = [interval EXCEPT ![p] = Null]
    /\ UNCHANGED pending

StopProbes(p) ==
    /\ interval' = [interval EXCEPT ![p] = Null]
    /\ pending' = [pending EXCEPT ![p] = {}]

-----------------------------------------------------------------------------
(* Calls of the session                                                    *)

Start(p, count) ==
    /\ p \in attached
    /\ readyState = "open"
    /\ count <= budget[p]
    /\ budget' = [budget EXCEPT ![p] = @ - count]
    /\ IF count = 0
       THEN /\ StopProbes(p)
            /\ UNCHANGED <<nextSequence, sentSequences, net, history>>
       ELSE /\ interval' = [interval EXCEPT ![p] =
                               [sent |-> 1, count |-> count]]
            /\ SendProbe(p, {})
    /\ UNCHANGED <<now, repeated, readyState, attached, respondedSequences,
                   completedResponses>>

\* stopProbes on its own, when an observation starts or ends.
Pause(p) ==
    /\ StopProbes(p)
    /\ UNCHANGED <<now, net, repeated, readyState, attached, budget,
                   nextSequence, sentSequences, respondedSequences,
                   completedResponses, history>>

\* The channel keeps its handler: messages still reach a stopped engine.
Stop(p) ==
    /\ p \in attached
    /\ StopProbes(p)
    /\ attached' = attached \ {p}
    /\ sentSequences' = [sentSequences EXCEPT ![p] = {}]
    /\ respondedSequences' = [respondedSequences EXCEPT ![p] = {}]
    /\ completedResponses' = [completedResponses EXCEPT ![p] = {}]
    /\ UNCHANGED <<now, net, repeated, readyState, budget, nextSequence,
                   history>>

-----------------------------------------------------------------------------
(* Timers                                                                  *)

\* Mutant: the last tick does not stop the interval.
TickForever(p) ==
    /\ interval[p] # Null
    /\ interval[p].sent < interval[p].count
    /\ interval' = [interval EXCEPT ![p].sent = @ + 1]
    /\ SendProbe(p, pending[p])
    /\ UNCHANGED <<now, repeated, readyState, attached, budget,
                   respondedSequences, completedResponses>>

\* The callback of setInterval.
Tick(p) ==
    /\ interval[p] # Null
    /\ IF interval[p].sent >= interval[p].count
       THEN /\ StopProbes(p)
            /\ UNCHANGED <<nextSequence, sentSequences, net, history>>
       ELSE /\ interval' = [interval EXCEPT ![p].sent = @ + 1]
            /\ SendProbe(p, pending[p])
    /\ UNCHANGED <<now, repeated, readyState, attached, budget,
                   respondedSequences, completedResponses>>

\* Mutant: the probe stays pending.
TimeoutForgets(p, e) ==
    /\ Clock(p) >= e.t0 + ProbeTimeout
    /\ Recorded(p, e.sequence, Flagged("timeout"))
    /\ UNCHANGED <<now, net, repeated, readyState, attached, interval, budget,
                   pending, nextSequence, sentSequences, respondedSequences,
                   completedResponses>>

Timeout(p, e) ==
    /\ Clock(p) >= e.t0 + ProbeTimeout
    /\ pending' = [pending EXCEPT ![p] = @ \ {e}]
    /\ Recorded(p, e.sequence, Flagged("timeout"))
    /\ UNCHANGED <<now, net, repeated, readyState, attached, interval, budget,
                   nextSequence, sentSequences, respondedSequences,
                   completedResponses>>

-----------------------------------------------------------------------------
(* Messages                                                                *)

\* A message leaves the channel, or will be delivered once more.
Taken(m, more) ==
    \/ /\ net' = (net \ {m}) \cup more
       /\ UNCHANGED repeated
    \/ /\ repeated < MaxDuplicates
       /\ repeated' = repeated + 1
       /\ net' = net \cup more

\* Mutant: repeated requests are answered again.
ReceiveRequestAgain(m) ==
    LET p == oppositeRole(m.requester)
    IN  /\ m.type = "request"
        /\ respondedSequences' =
              [respondedSequences EXCEPT ![p] = @ \cup {m.sequence}]
        /\ Taken(m, IF p \in attached
                    THEN {Response(m, Clock(p), Clock(p))} ELSE {})
        /\ UNCHANGED <<now, readyState, attached, interval, budget,
                       nextSequence, sentSequences, pending,
                       completedResponses, history>>

ReceiveRequest(m) ==
    LET p == oppositeRole(m.requester)
    IN  /\ m.type = "request"
        /\ IF m.sequence \in respondedSequences[p]
           THEN /\ Taken(m, {})
                /\ UNCHANGED respondedSequences
           ELSE /\ respondedSequences' =
                       [respondedSequences EXCEPT ![p] = @ \cup {m.sequence}]
                /\ Taken(m, IF p \in attached
                            THEN {Response(m, Clock(p), Clock(p))} ELSE {})
        /\ UNCHANGED <<now, readyState, attached, interval, budget,
                       nextSequence, sentSequences, pending,
                       completedResponses, history>>

PendingFor(p, n) == {e \in pending[p] : e.sequence = n}

ReceiveResponse(m) ==
    LET p  == m.requester
        n  == m.sequence
        t3 == Clock(p)
    IN  /\ m.type = "response"
        /\ Taken(m, {})
        /\ \/ /\ n \in completedResponses[p]
              /\ Recorded(p, n, Flagged("duplicate"))
              /\ UNCHANGED <<pending, completedResponses>>
           \/ /\ n \notin completedResponses[p]
              /\ PendingFor(p, n) = {}
              /\ Recorded(p, n, Flagged("unsolicited"))
              /\ UNCHANGED <<pending, completedResponses>>
           \/ /\ n \notin completedResponses[p]
              /\ PendingFor(p, n) # {}
              /\ pending' = [pending EXCEPT ![p] = @ \ PendingFor(p, n)]
              /\ IF ValidTimes(m.t0, m.t1, m.t2, t3)
                 THEN /\ completedResponses' =
                             [completedResponses EXCEPT ![p] = @ \cup {n}]
                      /\ Recorded(p, n,
                             Completed(RoundTrip(m.t0, m.t1, m.t2, t3),
                                       OffsetTwice(m.t0, m.t1, m.t2, t3)))
                 ELSE /\ Recorded(p, n, Flagged("invalid"))
                      /\ UNCHANGED completedResponses
        /\ UNCHANGED <<now, readyState, attached, interval, budget,
                       nextSequence, sentSequences, respondedSequences>>

\* The network: a message is lost, the channel closes, time passes.
Lose(m) ==
    /\ net' = net \ {m}
    /\ UNCHANGED <<now, repeated, readyState, engines>>

Close ==
    /\ readyState = "open"
    /\ readyState' = "closed"
    /\ net' = {}
    /\ UNCHANGED <<now, repeated, engines>>

Pass ==
    /\ now < MaxTime
    /\ now' = now + 1
    /\ UNCHANGED <<net, repeated, readyState, engines>>

Receive(m) == ReceiveRequest(m) \/ ReceiveResponse(m)

Next ==
    \/ \E p \in Roles, count \in Counts : Start(p, count)
    \/ \E p \in Roles : Pause(p) \/ Stop(p) \/ Tick(p)
    \/ \E p \in Roles : \E e \in pending[p] : Timeout(p, e)
    \/ \E m \in net : Receive(m) \/ Lose(m)
    \/ Close
    \/ Pass

\* Intervals elapse.
Fairness == \A p \in Roles : WF_vars(Tick(p))

Spec == Init /\ [][Next]_vars /\ Fairness

-----------------------------------------------------------------------------
(* Properties                                                              *)

TypeOK ==
    /\ now \in Nat
    /\ net \subseteq Requests \cup Responses
    /\ repeated \in Nat
    /\ readyState \in {"open", "closed"}
    /\ attached \subseteq Roles
    /\ interval \in [Roles -> {Null} \cup [sent : Nat, count : Nat]]
    /\ \A p \in Roles :
          interval[p] # Null => interval[p].sent <= interval[p].count
    /\ budget \in [Roles -> Nat]
    /\ nextSequence \in [Roles -> Nat]
    /\ sentSequences \in [Roles -> SUBSET Sequence]
    /\ pending \in [Roles -> SUBSET Probe]
    /\ respondedSequences \in [Roles -> SUBSET Sequence]
    /\ completedResponses \in [Roles -> SUBSET Sequence]
    /\ history \in [Roles -> [Sequence -> Seq(Sample)]]

\* A probe gets at most one verdict (completed, timeout or invalid), and it
\* comes before anything else is said about the probe: an answer that the
\* timeout, a repetition, a pause or a stop overtook is never counted.
VerdictComesFirst ==
    \A p \in Roles : \A n \in Sequence :
        \A i \in DOMAIN history[p][n] :
            /\ i > 1 => history[p][n][i].kind \in {"duplicate", "unsolicited"}
            /\ history[p][n][i].kind = "duplicate" =>
                   i > 1 /\ history[p][n][1].kind = "completed"

\* The estimate is sound: the true offset between the clocks is never
\* further from it than half the round trip, whatever the message order, and
\* no answer of this code is judged invalid.
OffsetIsBounded ==
    \A p \in Roles : \A n \in Sequence :
        \A i \in DOMAIN history[p][n] :
            LET s    == history[p][n][i]
                true == 2 * (Skew[oppositeRole(p)] - Skew[p])
            IN  /\ s.kind # "invalid"
                /\ s.kind = "completed" =>
                       /\ s.rtt >= 0
                       /\ s.offset2 - true <= s.rtt
                       /\ true - s.offset2 <= s.rtt

\* A timeout runs only while an interval does, and an interval only on an
\* engine that was not stopped: nothing is left to fire after either ends.
TimersAreOwned ==
    \A p \in Roles :
        /\ pending[p] # {} => interval[p] # Null
        /\ interval[p] # Null => p \in attached

\* A probe is answered once, however often it is delivered.
AnsweredOnce ==
    \A m1, m2 \in net :
        /\ m1.type = "response"
        /\ m2.type = "response"
        /\ m1.requester = m2.requester
        /\ m1.sequence = m2.sequence
        => m1 = m2

\* Probing stops by itself after the number of probes asked for.
ProbingStops ==
    \A p \in Roles : interval[p] # Null ~> interval[p] = Null
=============================================================================
