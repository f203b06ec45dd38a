------------------------- MODULE NegotiationProofs -------------------------
(***************************************************************************)
(* Proofs about the negotiation in LiveSession, for any candidates, faults *)
(* and orders of callbacks: descriptions never overlap and no candidate is *)
(* lost, as long as nobody comes back (OneSessionEach).                    *)
(*                                                                         *)
(* TalkInv says where the one offer and its answer are.  Until the offerer *)
(* relayed its offer the other is idle; from then on the offer is on its   *)
(* way, or is being answered, or the answer is on its way, and for each of *)
(* them the offerer awaits the answer or was stopped.                      *)
(*                                                                         *)
(* SetupInv says the same of the whole setup while nothing fails: what one *)
(* session waits for, the other has sent or has yet to do, and each part   *)
(* that comes was followed by an evaluation of readiness.                  *)
(* SetupWork counts what is left to do: a calm setup comes to an end.      *)
(***************************************************************************)
EXTENDS LiveSessionProofs, SequenceTheorems, FiniteSetTheorems

\* Nobody stops and comes back as another session of the same role.  With one
\* that does, the answer to the old session reaches the new one.
OneSessionEach == \A s, t \in Sessions : RoleOf[s] = RoleOf[t] => s = t

-----------------------------------------------------------------------------
(* The inductive invariant                                                 *)

\* Frames a session may get: offers go to peer_b, answers to peer_a.
Frame(t) ==
    {m \in [type : {"offer", "answer", "candidate", "peer_joined", "peer_left"},
            from : Sessions \ {t}, number : Nat] :
        /\ m.type = "offer" => RoleOf[t] = "peer_b"
        /\ m.type = "answer" => RoleOf[t] = "peer_a"}

Has(queue, type) == \E i \in DOMAIN queue : queue[i].type = type

Single(queue, type) ==
    \A i, j \in DOMAIN queue : queue[i].type = type /\ queue[j].type = type => i = j

\* Nothing was applied, and nothing is.
Idle(x) == x.call = Null /\ x.remote = Null /\ x.signalingState = "stable"

Answering(x) == x.call \in {"setRemoteOffer", "createAnswer", "setAnswer"}

Awaiting(x) ==
    x.offers = 1 /\ x.call = Null /\ x.remote = Null /\ x.signalingState = "have-local-offer"

\* x makes one offer, and applies one answer to it.
OffererInv(x) ==
    /\ x.offers \in {0, 1}
    /\ x.call \in {Null, "createOffer", "setOffer", "setRemoteAnswer", "flush"}
    /\ x.makingOffer <=> x.call \in {"createOffer", "setOffer"}
    /\ x.makingOffer => x.offers = 0
    /\ x.makingOffer \/ x.offers = 1 => x.peerNegotiationStarted
    /\ x.offers = 0 => /\ x.remote = Null /\ x.signalingState = "stable"
                       /\ x.makingOffer \/ x.call = Null

AnswererInv(x) ==
    /\ x.offers = 0 /\ ~ x.makingOffer
    /\ x.call \in {Null, "setRemoteOffer", "createAnswer", "setAnswer", "flush"}

\* Candidates are with the connection or in the buffer; flush has given the
\* first ones of it to the connection, and leaves none.
CandidateInv(s, x, calm) ==
    /\ x.remote \in (Sessions \ {s}) \cup {Null}
    /\ x.call \in {"setRemoteOffer", "setRemoteAnswer"} => x.from \in Sessions \ {s}
    /\ x.call \in {"createAnswer", "setAnswer", "flush"} => x.remote # Null
    /\ x.buffer \in Seq(Candidate) /\ x.cursor \in Nat
    /\ \A c \in x.received : c.from \in Sessions \ {s}
    /\ x.received \subseteq x.added \cup Range(x.buffer)
    /\ Range(x.buffer) \subseteq x.received
    /\ \A i \in DOMAIN x.buffer : i <= x.cursor => x.buffer[i] \in x.added
    /\ x.cursor = 0 \/ (x.call = "flush" /\ x.cursor < Len(x.buffer))
    /\ calm /\ x.remote # Null /\ x.call = Null => x.buffer = <<>>

TalkOf(s, x, calm) ==
    /\ x.found \in Nat
    /\ RoleOf[s] = "peer_a" => OffererInv(x)
    /\ RoleOf[s] = "peer_b" => AnswererInv(x)
    /\ CandidateInv(s, x, calm)

\* Where the offer of x and the answer of y are, toX and toY being the frames
\* on their way to them.
Handshake(x, y, toX, toY) ==
    /\ Single(toY, "offer") /\ Single(toX, "answer")
    /\ Has(toY, "offer") => Idle(y) /\ ~ Has(toX, "answer")
    /\ Answering(y) => ~ Has(toY, "offer") /\ ~ Has(toX, "answer")
    /\ Has(toY, "offer") \/ Answering(y) \/ Has(toX, "answer") => x.stopped \/ Awaiting(x)
    /\ x.offers = 0 => Idle(y) /\ ~ Has(toY, "offer") /\ ~ Has(toX, "answer")

TalkInv ==
    /\ room \subseteq Sessions
    /\ faults \in Nat
    /\ wire = [t \in Sessions |-> wire[t]]
    /\ \A t \in Sessions : wire[t] \in Seq(Frame(t))
    /\ \A s \in Sessions : TalkOf(s, session[s], faults = 0)
    /\ \A a, b \in Sessions :
          RoleOf[a] = "peer_a" /\ RoleOf[b] = "peer_b" =>
              Handshake(session[a], session[b], wire[a], wire[b])

-----------------------------------------------------------------------------
(* Queues of frames                                                        *)

Talk == {"offer", "answer"}

\* later has no descriptions that earlier has not.
Thinner(earlier, later) ==
    \A type \in Talk : /\ Has(later, type) => Has(earlier, type)
                       /\ Single(earlier, type) => Single(later, type)

LEMMA Elements ==
    ASSUME NEW T, NEW q \in Seq(T)
    PROVE  DOMAIN q = 1..Len(q) /\ Len(q) \in Nat /\ \A i \in DOMAIN q : q[i] \in T
OBVIOUS

LEMMA EmptyThinner ==
    ASSUME NEW q
    PROVE  Thinner(q, <<>>) /\ \A type : ~ Has(<<>>, type) /\ Single(<<>>, type)
BY DEF Thinner, Has, Single

LEMMA SameThinner ==
    ASSUME NEW q
    PROVE  Thinner(q, q)
BY DEF Thinner

LEMMA AppendThinner ==
    ASSUME NEW T, NEW q \in Seq(T), NEW m \in T
    PROVE  /\ Append(q, m) \in Seq(T)
           /\ q \o <<m>> = Append(q, m)
           /\ \A type : /\ Has(Append(q, m), type) => Has(q, type) \/ m.type = type
                        /\ (Single(q, type) /\ (m.type = type => ~ Has(q, type)))
                             => Single(Append(q, m), type)
           /\ m.type \notin Talk => Thinner(q, Append(q, m))
<1> DEFINE r == Append(q, m)
           n == Len(q) + 1
<1>1. /\ r \in Seq(T) /\ Len(r) = n
      /\ \A i \in 1..Len(q) : r[i] = q[i]
      /\ r[n] = m
  BY AppendProperties
<1>2. /\ DOMAIN q = 1..Len(q) /\ Len(q) \in Nat
      /\ DOMAIN r = DOMAIN q \cup {n}
  BY <1>1
<1>3. q \o <<m>> = r
  BY AppendIsConcat
<1> HIDE DEF r
<1>4. ASSUME NEW type
      PROVE  /\ Has(r, type) => Has(q, type) \/ m.type = type
             /\ Single(q, type) /\ (m.type = type => ~ Has(q, type)) => Single(r, type)
  <2>1. Has(r, type) => Has(q, type) \/ m.type = type
    BY <1>1, <1>2 DEF Has
  <2>2. ASSUME Single(q, type), m.type = type => ~ Has(q, type)
        PROVE  Single(r, type)
    <3> SUFFICES ASSUME NEW i \in DOMAIN r, NEW j \in DOMAIN r,
                        r[i].type = type, r[j].type = type
                 PROVE  i = j
      BY DEF Single
    <3>1. CASE i \in DOMAIN q /\ j \in DOMAIN q
      BY <1>1, <1>2, <2>2, <3>1 DEF Single
    <3>2. CASE i = n \/ j = n
      <4>1. m.type = type
        BY <1>1, <3>2
      <4>2. i \notin DOMAIN q /\ j \notin DOMAIN q
        BY <1>1, <1>2, <2>2, <4>1 DEF Has
      <4> QED  BY <1>2, <4>2
    <3> QED  BY <1>2, <3>1, <3>2
  <2> QED  BY <2>1, <2>2
<1>5. m.type \notin Talk => Thinner(q, r)
  BY <1>4 DEF Thinner
<1> QED  BY <1>1, <1>3, <1>4, <1>5 DEF r

LEMMA TailThinner ==
    ASSUME NEW T, NEW q \in Seq(T), q # <<>>
    PROVE  /\ Tail(q) \in Seq(T) /\ Head(q) \in T
           /\ Thinner(q, Tail(q))
           /\ Has(q, Head(q).type)
           /\ Single(q, Head(q).type) => ~ Has(Tail(q), Head(q).type)
<1> DEFINE r == Tail(q)
<1>1. /\ r \in Seq(T) /\ Len(r) = Len(q) - 1
      /\ \A i \in 1..Len(r) : r[i] = q[i + 1]
  BY HeadTailProperties
<1>2. /\ DOMAIN q = 1..Len(q) /\ Len(q) \in Nat \ {0}
      /\ \A i \in DOMAIN q : q[i] \in T
  BY EmptySeq
<1>3. DOMAIN r = 1..(Len(q) - 1)
  BY <1>1
<1>4. Head(q) = q[1]
  OBVIOUS
<1> HIDE DEF r
<1>5. \A i \in DOMAIN r : i + 1 \in DOMAIN q /\ i + 1 # 1 /\ r[i] = q[i + 1] /\ i \in Nat
  BY <1>1, <1>2, <1>3
<1>6. Thinner(q, r)
  <2>1. ASSUME NEW type, Has(r, type)
        PROVE  Has(q, type)
    BY <1>5, <2>1 DEF Has
  <2>2. ASSUME NEW type, Single(q, type)
        PROVE  Single(r, type)
    <3> SUFFICES ASSUME NEW i \in DOMAIN r, NEW j \in DOMAIN r,
                        r[i].type = type, r[j].type = type
                 PROVE  i = j
      BY DEF Single
    <3>1. i + 1 = j + 1
      BY <1>5, <2>2 DEF Single
    <3> QED  BY <1>5, <3>1
  <2> QED  BY <2>1, <2>2 DEF Thinner
<1>7. Has(q, Head(q).type)
  BY <1>2, <1>4 DEF Has
<1>8. Single(q, Head(q).type) => ~ Has(r, Head(q).type)
  BY <1>2, <1>4, <1>5 DEF Single, Has
<1>9. Head(q) \in T
  BY <1>2, <1>4
<1> QED  BY <1>1, <1>6, <1>7, <1>8, <1>9 DEF r

-----------------------------------------------------------------------------
(* Steps that leave the negotiation alone                                  *)

\* y differs from x in nothing that TalkInv reads.
Quiet(x, y) ==
    /\ DOMAIN y = DOMAIN x
    /\ y.stopped = x.stopped
    /\ x.found \in Nat => y.found \in Nat
    /\ y.offers = x.offers
    /\ y.peerNegotiationStarted = x.peerNegotiationStarted
    /\ y.signalingState = x.signalingState
    /\ y.makingOffer = x.makingOffer
    /\ y.call = x.call
    /\ y.from = x.from
    /\ y.remote = x.remote
    /\ y.received = x.received
    /\ y.added = x.added
    /\ y.buffer = x.buffer
    /\ y.cursor = x.cursor

LEMMA QuietTwice ==
    ASSUME NEW x, NEW y, NEW z, Quiet(x, y), Quiet(y, z)
    PROVE  Quiet(x, z)
BY DEF Quiet

LEMMA QuietTalk ==
    ASSUME NEW s, NEW x, NEW y, NEW calm, TalkOf(s, x, calm), Quiet(x, y)
    PROVE  TalkOf(s, y, calm)
BY DEF TalkOf, OffererInv, AnswererInv, CandidateInv, Quiet

\* Nor in what Handshake reads.
Unmoved(x, y) ==
    /\ y.stopped = x.stopped /\ y.offers = x.offers /\ y.call = x.call
    /\ y.remote = x.remote /\ y.signalingState = x.signalingState

LEMMA QuietUnmoved ==
    ASSUME NEW x, NEW y, Quiet(x, y)
    PROVE  Unmoved(x, y)
BY DEF Quiet, Unmoved

LEMMA HandshakeKept ==
    ASSUME NEW x, NEW y, NEW x2, NEW y2, NEW toX, NEW toY, NEW toX2, NEW toY2,
           Handshake(x, y, toX, toY),
           Unmoved(x, x2), Unmoved(y, y2), Thinner(toX, toX2), Thinner(toY, toY2)
    PROVE  Handshake(x2, y2, toX2, toY2)
<1>1. /\ Has(toX2, "answer") => Has(toX, "answer")
      /\ Has(toY2, "offer") => Has(toY, "offer")
      /\ Single(toX, "answer") => Single(toX2, "answer")
      /\ Single(toY, "offer") => Single(toY2, "offer")
  BY DEF Thinner, Talk
<1> QED  BY <1>1 DEF Handshake, Unmoved, Idle, Answering, Awaiting

LEMMA EvaluateQuiet ==
    ASSUME NEW x, DOMAIN x = Fields
    PROVE  Quiet(x, evaluateReadyToObserve(x))
<1> DEFINE y == ensureStatsPreflight(x)
           z == [y EXCEPT !.phase = "ready_to_observe"]
<1>1. Quiet(x, y)
  BY FieldsAre DEF Quiet, ensureStatsPreflight
<1>2. Quiet(x, x)
  BY DEF Quiet
<1>3. Quiet(x, z)
  <2> HIDE DEF y
  <2>1. Quiet(y, z)
    BY <1>1, FieldsAre DEF Quiet
  <2> QED  BY <1>1, <2>1, QuietTwice
<1> QED  BY <1>1, <1>2, <1>3 DEF evaluateReadyToObserve

LEMMA InvalidateQuiet ==
    ASSUME NEW x, DOMAIN x = Fields
    PROVE  Quiet(x, invalidateStatsPreflight(x))
<1> DEFINE y == [x EXCEPT !.preflight = IF @ = "none" THEN @ ELSE "cancelled"]
<1>1. Quiet(x, y)
  BY FieldsAre DEF Quiet
<1>2. DOMAIN y = Fields
  BY <1>1 DEF Quiet
<1> HIDE DEF y
<1>3. Quiet(y, evaluateReadyToObserve(y))
  BY <1>2, EvaluateQuiet
<1>4. Quiet(x, evaluateReadyToObserve(y))
  BY <1>1, <1>3, QuietTwice
<1> QED  BY <1>4 DEF invalidateStatsPreflight, y

\* s has the record y now, and the wires carry no further description.
LEMMA QuietInv ==
    ASSUME IInv, TalkInv, NEW s \in Sessions, NEW y,
           Set(s, y), Quiet(session[s], y),
           room' \subseteq Sessions,
           faults' \in Nat, faults' = 0 => faults = 0,
           wire' = [t \in Sessions |-> wire'[t]],
           \A t \in Sessions : wire'[t] \in Seq(Frame(t)) /\ Thinner(wire[t], wire'[t])
    PROVE  TalkInv'
<1>1. \A t \in Sessions : Quiet(session[t], session'[t])
  <2>1. DOMAIN session = Sessions
    BY DEF IInv
  <2>2. \A t \in Sessions : session'[t] = IF t = s THEN y ELSE session[t]
    BY <2>1 DEF Set
  <2> QED  BY <2>2 DEF Quiet
<1>2. \A t \in Sessions : TalkOf(t, session'[t], faults' = 0)
  <2> SUFFICES ASSUME NEW t \in Sessions PROVE TalkOf(t, session'[t], faults' = 0)
    OBVIOUS
  <2>1. TalkOf(t, session[t], faults = 0)
    BY DEF TalkInv
  <2>2. TalkOf(t, session[t], faults' = 0)
    BY <2>1 DEF TalkOf, CandidateInv
  <2> QED  BY <1>1, <2>2, QuietTalk
<1>3. \A a, b \in Sessions :
          RoleOf[a] = "peer_a" /\ RoleOf[b] = "peer_b" =>
              Handshake(session'[a], session'[b], wire'[a], wire'[b])
  BY <1>1, QuietUnmoved, HandshakeKept DEF TalkInv
<1> QED  BY <1>2, <1>3 DEF TalkInv

LEMMA WiresInv ==
    ASSUME TalkInv
    PROVE  /\ wire = [t \in Sessions |-> wire[t]]
           /\ \A t \in Sessions : wire[t] \in Seq(Frame(t)) /\ Thinner(wire[t], wire[t])
BY SameThinner DEF TalkInv

\* The same with all wires as they were.
LEMMA QuietHere ==
    ASSUME IInv, TalkInv, NEW s \in Sessions, NEW y,
           Set(s, y), Quiet(session[s], y), UNCHANGED <<room, wire>>,
           faults' = faults \/ faults' = faults + 1
    PROVE  TalkInv'
<1>1. /\ wire' = [t \in Sessions |-> wire'[t]]
      /\ \A t \in Sessions : wire'[t] \in Seq(Frame(t)) /\ Thinner(wire[t], wire'[t])
  BY WiresInv
<1>2. room' \subseteq Sessions /\ faults' \in Nat /\ (faults' = 0 => faults = 0)
  BY DEF TalkInv
<1> QED  BY <1>1, <1>2, QuietInv

\* The user and the promises of connect and of the microphone.
LEMMA UserQuiet ==
    ASSUME IInv, TalkInv, NEW s \in Sessions,
           \/ EnableMicrophone(s) \/ EnableAgain(s) \/ Connect(s) \/ StartObservation(s)
           \/ StreamArrives(s) \/ SecondStreamArrives(s) \/ TrackSwapped(s)
           \/ TrackReplaced(s) \/ ClientLoaded(s)
    PROVE  TalkInv'
<1> DEFINE x == session[s]
<1>1. DOMAIN x = Fields
  BY DEF IInv, SessionInv, TypeInv
<1>2. CASE EnableMicrophone(s)
  <2>1. Quiet(x, [x EXCEPT !.mic = "asking"])
    BY <1>1, FieldsAre DEF Quiet
  <2> QED  BY <1>2, <2>1, QuietHere DEF EnableMicrophone
<1>3. CASE Connect(s)
  <2>1. Quiet(x, [x EXCEPT !.phase = "signaling_connecting", !.step = "replacing"])
    BY <1>1, FieldsAre DEF Quiet
  <2> QED  BY <1>3, <2>1, QuietHere DEF Connect
<1>4. CASE StartObservation(s)
  <2> DEFINE k == x.started + 1
             y == [x EXCEPT !.phase = "observing", !.started = k,
                            !.clock = "probing",
                            !.timers = @ \cup {k}, !.samplers = @ \cup {k},
                            !.statsSamples = {}]
  <2>1. Quiet(x, y)
    BY <1>1, FieldsAre DEF Quiet
  <2>2. Set(s, y) /\ UNCHANGED <<room, wire, faults>>
    BY <1>4 DEF StartObservation
  <2> QED  BY <2>1, <2>2, QuietHere
<1>5. CASE StreamArrives(s)
  <2>1. Quiet(x, [x EXCEPT !.mic = "live", !.phase = "microphone_ready"])
    BY <1>1, FieldsAre DEF Quiet
  <2> QED  BY <1>5, <2>1, QuietHere DEF StreamArrives
<1>6. CASE TrackReplaced(s)
  <2>1. Quiet(x, [x EXCEPT !.step = "failed"])
    BY <1>1, FieldsAre DEF Quiet
  <2>2. Quiet(x, [x EXCEPT !.step = "importing",
                    !.channel = IF RoleOf[s] = "peer_a" THEN "connecting" ELSE @])
    BY <1>1, FieldsAre DEF Quiet
  <2> QED  BY <1>6, <2>1, <2>2, QuietHere DEF TrackReplaced
<1>7. CASE ClientLoaded(s)
  <2>1. Quiet(x, [x EXCEPT !.step = "done", !.socket = "connecting"])
    BY <1>1, FieldsAre DEF Quiet
  <2> QED  BY <1>7, <2>1, QuietHere DEF ClientLoaded
<1>8. CASE EnableAgain(s)
  <2>1. Quiet(x, [x EXCEPT !.again = "asking"])
    BY <1>1, FieldsAre DEF Quiet
  <2> QED  BY <1>8, <2>1, QuietHere DEF EnableAgain
<1>9. CASE SecondStreamArrives(s)
  <2>1. PICK y : y = [x EXCEPT !.mic = "live", !.spare = x.mic = "live"]
    OBVIOUS
  <2>2. Quiet(x, y) /\ DOMAIN y = Fields
    BY <1>1, <2>1, FieldsAre DEF Quiet
  <2>3. PICK z : z = IF x.step = "idle"
                     THEN [y EXCEPT !.again = "done", !.phase = "microphone_ready"]
                     ELSE [y EXCEPT !.again = IF x.stopped THEN "done" ELSE "swapping"]
    OBVIOUS
  <2>4. Quiet(y, z)
    BY <2>2, <2>3, FieldsAre DEF Quiet
  <2>5. Set(s, z) /\ UNCHANGED <<room, wire, faults>>
    BY <1>9, <2>1, <2>3 DEF SecondStreamArrives
  <2> QED  BY <2>2, <2>4, <2>5, QuietTwice, QuietHere
<1>10. CASE TrackSwapped(s)
  <2>1. Quiet(x, [x EXCEPT !.again = "done", !.phase = "microphone_ready",
                           !.disturbed = @ \/ x.timers # {}])
    BY <1>1, FieldsAre DEF Quiet
  <2> QED  BY <1>10, <2>1, QuietHere DEF TrackSwapped
<1> QED  BY <1>2, <1>3, <1>4, <1>5, <1>6, <1>7, <1>8, <1>9, <1>10

\* Observations and their samplers.
LEMMA SamplingQuiet ==
    ASSUME IInv, TalkInv, NEW s \in Sessions,
           \/ ObservationEnds(s)
           \/ \E k \in 1 .. MaxObservations[s] :
                  SamplerAsks(s, k) \/ SamplerAnswers(s, k) \/ SamplerExpires(s, k)
    PROVE  TalkInv'
<1> DEFINE x == session[s]
<1>1. DOMAIN x = Fields
  BY DEF IInv, SessionInv, TypeInv
<1>2. CASE ObservationEnds(s)
  <2>1. PICK k \in x.timers :
            Set(s, [x EXCEPT !.timers = @ \ {k}, !.samplers = @ \ {x.started},
                             !.phase = "completed"])
    BY <1>2 DEF ObservationEnds
  <2>2. Quiet(x, [x EXCEPT !.timers = @ \ {k}, !.samplers = @ \ {x.started},
                           !.phase = "completed"])
    BY <1>1, FieldsAre DEF Quiet
  <2>3. UNCHANGED <<room, wire, faults>>
    BY <1>2 DEF ObservationEnds
  <2> QED  BY <2>1, <2>2, <2>3, QuietHere
<1>3. ASSUME NEW k, SamplerAsks(s, k)
      PROVE  TalkInv'
  <2>1. Quiet(x, [x EXCEPT !.asking = @ \cup {k}])
    BY <1>1, FieldsAre DEF Quiet
  <2> QED  BY <1>3, <2>1, QuietHere DEF SamplerAsks
<1>4. ASSUME NEW k, SamplerAnswers(s, k)
      PROVE  TalkInv'
  <2>1. Quiet(x, [x EXCEPT
                    !.asking = @ \ {k},
                    !.statsSamples = IF Taken(x, k) THEN @ \cup {k} ELSE @])
    BY <1>1, FieldsAre DEF Quiet
  <2> QED  BY <1>4, <2>1, QuietHere DEF SamplerAnswers
<1>5. ASSUME NEW k, SamplerExpires(s, k)
      PROVE  TalkInv'
  <2>1. Quiet(x, [x EXCEPT !.samplers = @ \ {k}])
    BY <1>1, FieldsAre DEF Quiet
  <2> QED  BY <1>5, <2>1, QuietHere DEF SamplerExpires
<1> QED  BY <1>2, <1>3, <1>4, <1>5

\* Events of the connection, probes and preflight.
LEMMA ConnectionQuiet ==
    ASSUME IInv, TalkInv, NEW s \in Sessions,
           \/ ConnectionComes(s) \/ ConnectionGoes(s)
           \/ ChannelOpens(s) \/ ChannelCloses(s) \/ ProbeCompletes(s)
           \/ PreflightSettles(s)
    PROVE  TalkInv'
<1> DEFINE x == session[s]
<1>1. DOMAIN x = Fields
  BY DEF IInv, SessionInv, TypeInv
<1>2. ASSUME NEW y, Quiet(x, y)
      PROVE  /\ Quiet(x, evaluateReadyToObserve(y))
             /\ Quiet(x, invalidateStatsPreflight(y))
  <2>1. DOMAIN y = Fields
    BY <1>1, <1>2 DEF Quiet
  <2> QED  BY <1>2, <2>1, EvaluateQuiet, InvalidateQuiet, QuietTwice
<1>3. CASE ConnectionComes(s)
  <2> DEFINE y == [x EXCEPT !.connection = "connected", !.phase = "connected",
                            !.disturbed = @ \/ x.timers # {}]
  <2>1. Quiet(x, y)
    BY <1>1, FieldsAre DEF Quiet
  <2>2. Quiet(x, evaluateReadyToObserve(y))
    BY <1>2, <2>1
  <2>3. Set(s, evaluateReadyToObserve(y)) /\ UNCHANGED <<room, wire, faults>>
    BY <1>3 DEF ConnectionComes
  <2> QED  BY <2>2, <2>3, QuietHere
<1>4. CASE ConnectionGoes(s)
  <2> DEFINE y == [x EXCEPT !.connection = "disconnected"]
  <2>1. Quiet(x, y)
    BY <1>1, FieldsAre DEF Quiet
  <2>2. Quiet(x, invalidateStatsPreflight(y))
    BY <1>2, <2>1
  <2>3. /\ Set(s, invalidateStatsPreflight(y)) /\ UNCHANGED <<room, wire>>
        /\ faults' = faults \/ faults' = faults + 1
    BY <1>4 DEF ConnectionGoes
  <2> QED  BY <2>2, <2>3, QuietHere
<1>5. CASE ChannelOpens(s)
  <2>1. Quiet(x, [x EXCEPT !.channel = "open", !.clock = "probing"])
    BY <1>1, FieldsAre DEF Quiet
  <2> QED  BY <1>5, <2>1, QuietHere DEF ChannelOpens
<1>6. CASE ChannelCloses(s)
  <2> DEFINE y == [x EXCEPT !.channel = "closed"]
  <2>1. Quiet(x, y)
    BY <1>1, FieldsAre DEF Quiet
  <2>2. Quiet(x, invalidateStatsPreflight(y))
    BY <1>2, <2>1
  <2>3. Set(s, invalidateStatsPreflight(y)) /\ UNCHANGED <<room, wire, faults>>
    BY <1>6 DEF ChannelCloses
  <2> QED  BY <2>2, <2>3, QuietHere
<1>7. CASE ProbeCompletes(s)
  <2> DEFINE y == [x EXCEPT !.clock = "ok"]
  <2>1. Quiet(x, y)
    BY <1>1, FieldsAre DEF Quiet
  <2>2. Quiet(x, evaluateReadyToObserve(y))
    BY <1>2, <2>1
  <2>3. Set(s, evaluateReadyToObserve(y)) /\ UNCHANGED <<room, wire, faults>>
    BY <1>7 DEF ProbeCompletes, ProbeCompleted
  <2> QED  BY <2>2, <2>3, QuietHere
<1>8. CASE PreflightSettles(s)
  <2>1. ASSUME NEW v PROVE Quiet(x, evaluateReadyToObserve([x EXCEPT !.preflight = v]))
    <3>1. Quiet(x, [x EXCEPT !.preflight = v])
      BY <1>1, FieldsAre DEF Quiet
    <3> QED  BY <1>2, <3>1
  <2>2. \E v : Set(s, evaluateReadyToObserve([x EXCEPT !.preflight = v]))
    BY <1>8 DEF PreflightSettles
  <2>3. UNCHANGED <<room, wire>> /\ (faults' = faults \/ faults' = faults + 1)
    BY <1>8 DEF PreflightSettles
  <2> QED  BY <2>1, <2>2, <2>3, QuietHere
<1> QED  BY <1>3, <1>4, <1>5, <1>6, <1>7, <1>8

-----------------------------------------------------------------------------
(* The room                                                                *)

LEMMA SeqOfSet ==
    ASSUME NEW S, IsFiniteSet(S)
    PROVE  SetToSeq(S) \in [1..Cardinality(S) -> S] /\ Cardinality(S) \in Nat
<1> DEFINE n == Cardinality(S)
           Fits(f) == f \in [1..n -> S] /\ IsInjective(f)
<1>1. n \in Nat /\ ExistsBijection(1..n, S)
  BY FS_CardinalityType
<1>2. \E f \in [1..n -> S] : IsInjective(f)
  BY <1>1 DEF ExistsBijection, Bijection, Injection
<1>3. SetToSeq(S) = CHOOSE f \in [1..n -> S] : IsInjective(f)
  BY DEF SetToSeq
<1>4. SetToSeq(S) \in [1..n -> S]
  BY <1>2, <1>3
<1> QED  BY <1>1, <1>4

\* What s relays is appended where it goes, and never comes back.
LEMMA RelayedWires ==
    ASSUME TalkInv, NEW s \in Sessions, NEW m,
           \A t \in Sessions \ {s} : m \in Frame(t),
           wire' = Relayed(s, <<m>>)
    PROVE  /\ wire' = [t \in Sessions |-> wire'[t]]
           /\ \A t \in Sessions : /\ wire'[t] \in Seq(Frame(t))
                                  /\ \/ wire'[t] = wire[t]
                                     \/ t # s /\ wire'[t] = Append(wire[t], m)
<1>1. wire' = [t \in Sessions |-> wire'[t]]
  BY DEF Relayed
<1>2. \A t \in Sessions : \/ wire'[t] = wire[t]
                          \/ t # s /\ wire'[t] = wire[t] \o <<m>>
  BY DEF Relayed
<1>3. ASSUME NEW t \in Sessions
      PROVE  /\ wire'[t] \in Seq(Frame(t))
             /\ \/ wire'[t] = wire[t]
                \/ t # s /\ wire'[t] = Append(wire[t], m)
  <2>1. wire[t] \in Seq(Frame(t))
    BY DEF TalkInv
  <2>2. t # s => /\ Append(wire[t], m) \in Seq(Frame(t))
                 /\ wire[t] \o <<m>> = Append(wire[t], m)
    BY <2>1, AppendThinner
  <2> QED  BY <1>2, <2>1, <2>2
<1> QED  BY <1>1, <1>3

\* A frame that is no description, wherever it is appended.
LEMMA AppendedWires ==
    ASSUME TalkInv, NEW m, m.type \notin Talk,
           \A t \in Sessions : \/ wire'[t] = wire[t]
                               \/ m \in Frame(t) /\ wire'[t] = Append(wire[t], m)
    PROVE  \A t \in Sessions : wire'[t] \in Seq(Frame(t)) /\ Thinner(wire[t], wire'[t])
<1> SUFFICES ASSUME NEW t \in Sessions
             PROVE  wire'[t] \in Seq(Frame(t)) /\ Thinner(wire[t], wire'[t])
  OBVIOUS
<1>1. wire[t] \in Seq(Frame(t))
  BY DEF TalkInv
<1>2. CASE wire'[t] = wire[t]
  BY <1>1, <1>2, SameThinner
<1>3. CASE m \in Frame(t) /\ wire'[t] = Append(wire[t], m)
  BY <1>1, <1>3, AppendThinner
<1> QED  BY <1>2, <1>3

LEMMA CandidateFrame ==
    ASSUME NEW s \in Sessions, NEW k \in Nat
    PROVE  /\ \A t \in Sessions \ {s} :
                 /\ CandidateOf(s, k) \in Frame(t)
                 /\ Joined(s) \in Frame(t) /\ Left(s) \in Frame(t)
           /\ CandidateOf(s, k).type \notin Talk
           /\ Joined(s).type \notin Talk /\ Left(s).type \notin Talk
BY DEF CandidateOf, Joined, Left, Frame, Talk

LEMMA JoinInv ==
    ASSUME OneSessionEach, IInv, TalkInv, NEW s \in Sessions, Join(s)
    PROVE  TalkInv'
<1> DEFINE x == session[s]
<1>1. DOMAIN x = Fields
  BY DEF IInv, SessionInv, TypeInv
<1>2. \A v : Quiet(x, [x EXCEPT !.socket = v])
  BY <1>1, FieldsAre DEF Quiet
<1>3. CASE \E t \in room : RoleOf[t] = RoleOf[s]
  <2>1. /\ Set(s, [x EXCEPT !.socket = "refused"])
        /\ UNCHANGED <<room, wire, faults>>
    BY <1>3 DEF Join
  <2> QED  BY <1>2, <2>1, QuietHere
<1>4. CASE ~ \E t \in room : RoleOf[t] = RoleOf[s]
  <2> DEFINE others == SetToSeq(room)
  <2>1. /\ Set(s, [x EXCEPT !.socket = "joined"])
        /\ room' = room \cup {s} /\ UNCHANGED faults
        /\ wire' = [t \in Sessions |->
                     IF t = s THEN [i \in DOMAIN others |-> Joined(others[i])]
                     ELSE IF t \in room /\ session[t].socket = "joined"
                          THEN Append(wire[t], Joined(s)) ELSE wire[t]]
    BY <1>4 DEF Join
  <2>2. s \notin room /\ room \subseteq Sessions
    BY <1>4 DEF TalkInv
  <2>3. IsFiniteSet(room)
    <3>1. \A t, u \in room : t = u
      BY <1>4, <2>2, NegotiationAssumption DEF OneSessionEach
    <3>2. room = {} \/ \E t : room = {t}
      BY <3>1
    <3> QED  BY <3>2, FS_EmptySet, FS_Singleton
  <2> DEFINE n == Cardinality(room)
             mine == [i \in DOMAIN others |-> Joined(others[i])]
  <2>4. others \in [1..n -> room] /\ n \in Nat
    BY <2>3, SeqOfSet
  <2> HIDE DEF others, n
  <2>5. mine \in Seq(Frame(s)) /\ \A i \in DOMAIN mine : mine[i].type \notin Talk
    <3>1. \A i \in 1..n : /\ others[i] \in Sessions \ {s}
                          /\ Joined(others[i]) \in Frame(s)
                          /\ Joined(others[i]).type \notin Talk
      <4> SUFFICES ASSUME NEW i \in 1..n
                   PROVE  /\ others[i] \in Sessions \ {s}
                          /\ Joined(others[i]) \in Frame(s)
                          /\ Joined(others[i]).type \notin Talk
        OBVIOUS
      <4>1. PICK t \in Sessions \ {s} : t = others[i]
        BY <2>2, <2>4
      <4> QED  BY <4>1, CandidateFrame
    <3>2. DOMAIN mine = 1..n /\ \A i \in 1..n : mine[i] = Joined(others[i])
      BY <2>4
    <3>3. mine \in [1..n -> Frame(s)]
      BY <2>4, <3>1
    <3> QED  BY <2>4, <3>1, <3>2, <3>3
  <2>6. Thinner(wire[s], mine)
    BY <2>5 DEF Thinner, Has, Single
  <2>7. \A t \in Sessions : wire'[t] \in Seq(Frame(t)) /\ Thinner(wire[t], wire'[t])
    <3> SUFFICES ASSUME NEW t \in Sessions
                 PROVE  wire'[t] \in Seq(Frame(t)) /\ Thinner(wire[t], wire'[t])
      OBVIOUS
    <3>1. CASE t = s
      <4>1. wire'[s] = mine
        BY <2>1
      <4> QED  BY <2>5, <2>6, <3>1, <4>1
    <3>2. CASE t # s
      <4>1. wire[t] \in Seq(Frame(t))
        BY DEF TalkInv
      <4>2. wire'[t] = wire[t] \/ wire'[t] = Append(wire[t], Joined(s))
        BY <2>1, <3>2
      <4>3. PICK m \in Frame(t) : m = Joined(s) /\ m.type \notin Talk
        BY <3>2, CandidateFrame
      <4>4. Append(wire[t], m) \in Seq(Frame(t)) /\ Thinner(wire[t], Append(wire[t], m))
        BY <4>1, <4>3, AppendThinner
      <4>5. wire'[t] = wire[t] \/ wire'[t] = Append(wire[t], m)
        BY <4>2, <4>3
      <4>6. Thinner(wire[t], wire[t])
        BY SameThinner
      <4> QED  BY ONLY <4>1, <4>4, <4>5, <4>6
    <3> QED  BY <3>1, <3>2
  <2>8. wire' = [t \in Sessions |-> wire'[t]]
    BY <2>1
  <2>9. room' \subseteq Sessions /\ faults' \in Nat /\ (faults' = 0 => faults = 0)
    BY <2>1, <2>2 DEF TalkInv
  <2> QED  BY <1>2, <2>1, <2>7, <2>8, <2>9, QuietInv
<1> QED  BY <1>3, <1>4

LEMMA LeaveInv ==
    ASSUME IInv, TalkInv, NEW s \in Sessions, Leave(s)
    PROVE  TalkInv'
<1>1. /\ room' = room \ {s} /\ UNCHANGED <<session, faults>>
      /\ wire' = [t \in Sessions |->
                    IF t \in room \ {s} /\ session[t].socket = "joined"
                    THEN Append(wire[t], Left(s)) ELSE wire[t]]
  BY DEF Leave
<1>2. PICK m : m = Left(s)
  OBVIOUS
<1>3. m.type \notin Talk /\ \A t \in Sessions \ {s} : m \in Frame(t)
  BY <1>2, CandidateFrame
<1>4. \A t \in Sessions : \/ wire'[t] = wire[t]
                          \/ m \in Frame(t) /\ wire'[t] = Append(wire[t], m)
  BY <1>1, <1>2, <1>3
<1>5. \A t \in Sessions : wire'[t] \in Seq(Frame(t)) /\ Thinner(wire[t], wire'[t])
  BY <1>3, <1>4, AppendedWires
<1>6. /\ room' \subseteq Sessions /\ faults' \in Nat /\ (faults' = 0 => faults = 0)
      /\ wire' = [t \in Sessions |-> wire'[t]]
  BY <1>1 DEF TalkInv
<1>7. Set(s, session[s]) /\ Quiet(session[s], session[s])
  BY <1>1 DEF Set, Quiet, IInv
<1> QED  BY <1>5, <1>6, <1>7, QuietInv

LEMMA FindsInv ==
    ASSUME IInv, TalkInv, NEW s \in Sessions, FindsCandidate(s)
    PROVE  TalkInv'
<1> DEFINE x == session[s]
           y == [x EXCEPT !.found = @ + 1]
<1>1. Quiet(x, y)
  BY FieldsAre DEF Quiet, IInv, SessionInv, TypeInv
<1>2. PICK m : m = CandidateOf(s, x.found + 1)
  OBVIOUS
<1>3. /\ Set(s, y) /\ wire' = Relayed(s, <<m>>) /\ UNCHANGED <<room, faults>>
  BY <1>2 DEF FindsCandidate
<1>4. m.type \notin Talk /\ \A t \in Sessions \ {s} : m \in Frame(t)
  <2>1. x.found + 1 \in Nat
    BY DEF TalkInv, TalkOf
  <2>2. PICK k \in Nat : k = x.found + 1
    BY <2>1
  <2> QED  BY <1>2, <2>2, CandidateFrame
<1>5. /\ wire' = [t \in Sessions |-> wire'[t]]
      /\ \A t \in Sessions : \/ wire'[t] = wire[t]
                             \/ m \in Frame(t) /\ wire'[t] = Append(wire[t], m)
  BY <1>3, <1>4, RelayedWires
<1>6. \A t \in Sessions : wire'[t] \in Seq(Frame(t)) /\ Thinner(wire[t], wire'[t])
  BY <1>4, <1>5, AppendedWires
<1>7. room' \subseteq Sessions /\ faults' \in Nat /\ (faults' = 0 => faults = 0)
  BY <1>3 DEF TalkInv
<1> QED  BY <1>1, <1>3, <1>5, <1>6, <1>7, QuietInv

-----------------------------------------------------------------------------
(* The handshake, step by step                                             *)

LEMMA NothingIsSingle ==
    ASSUME NEW queue, NEW type, ~ Has(queue, type)
    PROVE  Single(queue, type)
BY DEF Has, Single

LEMMA IdleNeverAnswers ==
    ASSUME NEW y, Idle(y)
    PROVE  ~ Answering(y)
BY NegotiationAssumption DEF Idle, Answering, Calls

\* Before the offer was relayed nothing else goes on.
LEMMA HandshakeBefore ==
    ASSUME NEW x, NEW y, NEW x2, NEW toX, NEW toY, NEW toX2,
           Handshake(x, y, toX, toY), x.offers = 0, Thinner(toX, toX2)
    PROVE  Handshake(x2, y, toX2, toY)
<1>1. Idle(y) /\ ~ Answering(y) /\ ~ Has(toY, "offer") /\ ~ Has(toX, "answer")
  BY IdleNeverAnswers DEF Handshake
<1>2. ~ Has(toX2, "answer")
  BY <1>1 DEF Thinner, Talk
<1> QED  BY <1>1, <1>2, NothingIsSingle DEF Handshake

LEMMA HandshakeOffered ==
    ASSUME NEW x, NEW y, NEW x2, NEW toX, NEW toY, NEW toY2,
           Handshake(x, y, toX, toY), x.offers = 0,
           Awaiting(x2), Single(toY2, "offer")
    PROVE  Handshake(x2, y, toX, toY2)
<1>1. Idle(y) /\ ~ Answering(y) /\ ~ Has(toX, "answer") /\ Single(toX, "answer")
  BY IdleNeverAnswers DEF Handshake
<1> QED  BY <1>1 DEF Handshake, Awaiting

LEMMA HandshakeTaken ==
    ASSUME NEW x, NEW y, NEW y2, NEW toX, NEW toY, NEW toY2,
           Handshake(x, y, toX, toY), Has(toY, "offer"),
           ~ Has(toY2, "offer"), Answering(y2)
    PROVE  Handshake(x, y2, toX, toY2)
BY NothingIsSingle DEF Handshake

LEMMA HandshakeAnswering ==
    ASSUME NEW x, NEW y, NEW y2, NEW toX, NEW toY,
           Handshake(x, y, toX, toY), Answering(y), Answering(y2)
    PROVE  Handshake(x, y2, toX, toY)
BY IdleNeverAnswers DEF Handshake

\* The answer was relayed or given up, or the flush after it goes on.
LEMMA HandshakeAnswered ==
    ASSUME NEW x, NEW y, NEW y2, NEW toX, NEW toY, NEW toX2,
           Handshake(x, y, toX, toY), y.call # Null, ~ Answering(y2),
           Single(toX2, "answer"),
           Has(toX2, "answer") => Has(toX, "answer") \/ Answering(y)
    PROVE  Handshake(x, y2, toX2, toY)
BY DEF Handshake, Idle

\* An offerer that is here and awaits nothing can expect nothing.
LEMMA NothingExpected ==
    ASSUME NEW x, NEW y, NEW toX, NEW toY,
           Handshake(x, y, toX, toY), ~ x.stopped, ~ Awaiting(x)
    PROVE  ~ Has(toY, "offer") /\ ~ Answering(y) /\ ~ Has(toX, "answer")
BY DEF Handshake

LEMMA HandshakeOver ==
    ASSUME NEW x, NEW y, NEW toX, NEW toY, x.offers # 0,
           ~ Has(toY, "offer"), ~ Answering(y), ~ Has(toX, "answer")
    PROVE  Handshake(x, y, toX, toY)
BY NothingIsSingle DEF Handshake

LEMMA HandshakeStopped ==
    ASSUME NEW x, NEW y, NEW x2, NEW toX, NEW toY,
           Handshake(x, y, toX, toY), x2.stopped, x2.offers = x.offers
    PROVE  Handshake(x2, y, <<>>, toY)
BY EmptyThinner DEF Handshake

LEMMA HandshakeDropped ==
    ASSUME NEW x, NEW y, NEW y2, NEW toX, NEW toY,
           Handshake(x, y, toX, toY), Idle(y2)
    PROVE  Handshake(x, y2, toX, <<>>)
<1>1. ~ Has(<<>>, "offer") /\ Single(<<>>, "offer") /\ ~ Answering(y2)
  BY EmptyThinner, IdleNeverAnswers
<1> QED  BY <1>1 DEF Handshake

\* The invariant after a step of s: what is new is said of s alone.
LEMMA TalkSet ==
    ASSUME OneSessionEach, IInv, TalkInv, NEW s \in Sessions, NEW y, Set(s, y),
           room' = room, faults' = faults \/ faults' = faults + 1,
           wire' = [t \in Sessions |-> wire'[t]],
           \A t \in Sessions : wire'[t] \in Seq(Frame(t)),
           TalkOf(s, y, faults' = 0),
           \A b \in Sessions : RoleOf[s] = "peer_a" /\ RoleOf[b] = "peer_b" =>
               Handshake(y, session[b], wire'[s], wire'[b]),
           \A a \in Sessions : RoleOf[a] = "peer_a" /\ RoleOf[s] = "peer_b" =>
               Handshake(session[a], y, wire'[a], wire'[s])
    PROVE  TalkInv'
<1>1. \A t \in Sessions : session'[t] = IF t = s THEN y ELSE session[t]
  <2>1. DOMAIN session = Sessions
    BY DEF IInv
  <2> QED  BY <2>1 DEF Set
<1>2. faults' \in Nat /\ (faults' = 0 => faults = 0) /\ room' \subseteq Sessions
  BY DEF TalkInv
<1>3. \A t \in Sessions : TalkOf(t, session'[t], faults' = 0)
  <2> SUFFICES ASSUME NEW t \in Sessions PROVE TalkOf(t, session'[t], faults' = 0)
    OBVIOUS
  <2>1. TalkOf(t, session[t], faults = 0)
    BY DEF TalkInv
  <2>2. TalkOf(t, session[t], faults' = 0)
    BY <1>2, <2>1 DEF TalkOf, CandidateInv
  <2> QED  BY <1>1, <2>2
<1>4. ASSUME NEW a \in Sessions, NEW b \in Sessions,
             RoleOf[a] = "peer_a", RoleOf[b] = "peer_b"
      PROVE  Handshake(session'[a], session'[b], wire'[a], wire'[b])
  <2>1. RoleOf[s] \in {"peer_a", "peer_b"} /\ a # b
    BY <1>4, NegotiationAssumption
  <2>2. CASE RoleOf[s] = "peer_a"
    <3>1. a = s /\ b # s
      BY <1>4, <2>1, <2>2 DEF OneSessionEach
    <3>2. session'[a] = y /\ session'[b] = session[b]
      BY <1>1, <3>1
    <3> QED  BY <1>4, <2>2, <3>1, <3>2
  <2>3. CASE RoleOf[s] = "peer_b"
    <3>1. b = s /\ a # s
      BY <1>4, <2>1, <2>3 DEF OneSessionEach
    <3>2. session'[b] = y /\ session'[a] = session[a]
      BY <1>1, <3>1
    <3> QED  BY <1>4, <2>3, <3>1, <3>2
  <2> QED  BY <2>1, <2>2, <2>3
<1> QED  BY <1>2, <1>3, <1>4 DEF TalkInv

-----------------------------------------------------------------------------
(* Calls that settle, and the record of the session                        *)

\* y has the candidates x has.
SameCandidates(x, y) ==
    /\ y.received = x.received /\ y.added = x.added
    /\ y.buffer = x.buffer /\ y.cursor = x.cursor

LEMMA CandidatesKept ==
    ASSUME NEW s, NEW x, NEW y, NEW calm, NEW calm2,
           CandidateInv(s, x, calm), SameCandidates(x, y), x.call # "flush",
           y.remote \in (Sessions \ {s}) \cup {Null},
           y.call \in {"setRemoteOffer", "setRemoteAnswer"} => y.from \in Sessions \ {s},
           y.call \in {"createAnswer", "setAnswer", "flush"} => y.remote # Null,
           calm2 /\ y.remote # Null /\ y.call = Null => y.buffer = <<>>
    PROVE  CandidateInv(s, y, calm2)
BY DEF CandidateInv, SameCandidates

LEMMA CallsAre ==
    /\ Null \notin Sessions
    /\ \A call \in Calls : call # Null
BY NegotiationAssumption

\* The offerer's calls, and the records they leave.
LEMMA OffererCalls ==
    ASSUME NEW s, NEW x, NEW calm, DOMAIN x = Fields, TalkOf(s, x, calm),
           RoleOf[s] = "peer_a"
    PROVE  /\ x.call = "createOffer" =>
                  TalkOf(s, OfferCreated(x), calm) /\ OfferCreated(x).offers = x.offers
           /\ x.call = "setOffer" =>
                  LET y == [OfferSet(x) EXCEPT !.offers = @ + 1]
                  IN  TalkOf(s, y, calm) /\ Awaiting(y)
           /\ x.call = "setRemoteAnswer" =>
                  /\ TalkOf(s, RemoteAnswerSet(x), calm)
                  /\ RemoteAnswerSet(x).offers = x.offers
           /\ x.call = "setRemoteAnswer" =>
                  /\ TalkOf(s, DescriptionFails(x), FALSE)
                  /\ DescriptionFails(x).offers = x.offers
<1>1. /\ x.found \in Nat /\ OffererInv(x) /\ CandidateInv(s, x, calm)
  BY DEF TalkOf
<1>2. \A call \in Calls : call # Null
  BY CallsAre
<1>3. CASE x.call = "createOffer"
  <2> DEFINE y == OfferCreated(x)
  <2>1. /\ SameCandidates(x, y) /\ y.call = "setOffer" /\ y.found = x.found
        /\ y.offers = x.offers /\ y.remote = x.remote
        /\ y.signalingState = x.signalingState /\ y.makingOffer = x.makingOffer
        /\ y.peerNegotiationStarted = x.peerNegotiationStarted
    BY FieldsAre DEF OfferCreated, SameCandidates
  <2> HIDE DEF y
  <2>2. OffererInv(y)
    BY <1>1, <1>2, <1>3, <2>1 DEF OffererInv, Calls
  <2>3. CandidateInv(s, y, calm)
    <3>1. y.remote \in (Sessions \ {s}) \cup {Null} /\ y.call # Null
      BY <1>1, <1>2, <2>1 DEF CandidateInv, Calls
    <3> QED  BY <1>1, <1>3, <2>1, <3>1, CandidatesKept
  <2>4. TalkOf(s, y, calm)
    BY <1>1, <2>1, <2>2, <2>3 DEF TalkOf
  <2> QED  BY <1>3, <2>1, <2>4 DEF y
<1>4. CASE x.call = "setOffer"
  <2> DEFINE z == OfferSet(x)
             y == [z EXCEPT !.offers = @ + 1]
  <2>1. /\ DOMAIN z = Fields
        /\ SameCandidates(x, z) /\ z.call = Null /\ z.found = x.found
        /\ z.offers = x.offers /\ z.remote = x.remote
        /\ z.signalingState = "have-local-offer" /\ z.makingOffer = FALSE
        /\ z.peerNegotiationStarted = x.peerNegotiationStarted
    BY FieldsAre DEF OfferSet, SameCandidates
  <2> HIDE DEF z
  <2>2. /\ SameCandidates(x, y) /\ y.call = Null /\ y.found = x.found
        /\ y.offers = x.offers + 1 /\ y.remote = x.remote
        /\ y.signalingState = "have-local-offer" /\ y.makingOffer = FALSE
        /\ y.peerNegotiationStarted = x.peerNegotiationStarted
    BY <2>1, FieldsAre DEF SameCandidates
  <2> HIDE DEF y
  <2>3. x.makingOffer /\ x.offers = 0 /\ x.remote = Null
    BY <1>1, <1>4 DEF OffererInv
  <2>4. OffererInv(y) /\ Awaiting(y)
    BY <1>1, <1>2, <2>2, <2>3 DEF OffererInv, Awaiting, Calls
  <2>5. CandidateInv(s, y, calm)
    BY <1>1, <1>2, <1>4, <2>2, <2>3, CandidatesKept DEF Calls
  <2>6. TalkOf(s, y, calm)
    BY <1>1, <2>2, <2>4, <2>5 DEF TalkOf
  <2> QED  BY <1>4, <2>4, <2>6 DEF y, z
<1>5. CASE x.call = "setRemoteAnswer"
  <2>1. ~ x.makingOffer /\ x.offers = 1
    BY <1>1, <1>2, <1>5 DEF OffererInv, Calls
  <2>2. x.from \in Sessions \ {s} /\ x.remote \in (Sessions \ {s}) \cup {Null}
    BY <1>1, <1>5 DEF CandidateInv
  <2> DEFINE y == RemoteAnswerSet(x)
             z == DescriptionFails(x)
  <2>3. /\ SameCandidates(x, y) /\ y.call = "flush" /\ y.found = x.found
        /\ y.offers = x.offers /\ y.remote = x.from /\ y.makingOffer = x.makingOffer
        /\ y.peerNegotiationStarted = x.peerNegotiationStarted
    BY FieldsAre DEF RemoteAnswerSet, SameCandidates
  <2>4. /\ SameCandidates(x, z) /\ z.call = Null /\ z.found = x.found
        /\ z.offers = x.offers /\ z.remote = x.remote /\ z.makingOffer = x.makingOffer
        /\ z.peerNegotiationStarted = x.peerNegotiationStarted
    BY FieldsAre DEF DescriptionFails, SameCandidates
  <2> HIDE DEF y, z
  <2>5. OffererInv(y) /\ OffererInv(z)
    BY <1>1, <1>2, <2>1, <2>3, <2>4 DEF OffererInv, Calls
  <2>6. CandidateInv(s, y, calm)
    <3>1. y.remote # Null /\ y.remote \in Sessions \ {s}
      BY <2>2, <2>3, CallsAre
    <3>2. y.call # Null
      BY <1>2, <2>3 DEF Calls
    <3> QED  BY <1>1, <1>5, <2>3, <3>1, <3>2, CandidatesKept
  <2>7. CandidateInv(s, z, FALSE)
    BY <1>1, <1>2, <1>5, <2>2, <2>4, CandidatesKept DEF Calls
  <2>8. TalkOf(s, y, calm) /\ TalkOf(s, z, FALSE)
    BY <1>1, <2>3, <2>4, <2>5, <2>6, <2>7 DEF TalkOf
  <2> QED  BY <1>5, <2>3, <2>4, <2>8 DEF y, z
<1> QED
  BY ONLY <1>3, <1>4, <1>5

\* What CallRejects makes of x when no offer came about.
Failed(x) ==
    [OfferFails(x) EXCEPT
        !.peerNegotiationStarted = FALSE,
        !.phase = IF x.peerPresent THEN "peer_present" ELSE @,
        !.disturbed = @ \/ x.timers # {}]

\* An offer that could not be made may be made later.
LEMMA OfferFailsTalk ==
    ASSUME NEW s, NEW x, NEW calm, DOMAIN x = Fields, TalkOf(s, x, calm),
           RoleOf[s] = "peer_a", x.call \in {"createOffer", "setOffer"}
    PROVE  TalkOf(s, Failed(x), FALSE) /\ x.offers = 0
<1> DEFINE z == OfferFails(x)
           y == Failed(x)
<1>1. /\ DOMAIN z = Fields
      /\ SameCandidates(x, z) /\ z.call = Null /\ z.found = x.found
      /\ z.offers = x.offers /\ z.remote = x.remote
      /\ z.signalingState = x.signalingState /\ z.makingOffer = FALSE
  BY FieldsAre DEF OfferFails, SameCandidates
<1>2. y = [z EXCEPT !.peerNegotiationStarted = FALSE,
                    !.phase = IF x.peerPresent THEN "peer_present" ELSE @,
                    !.disturbed = @ \/ x.timers # {}]
  BY DEF Failed
<1> HIDE DEF z, y
<1>3. /\ SameCandidates(x, y) /\ y.call = Null /\ y.found = x.found
      /\ y.offers = x.offers /\ y.remote = x.remote
      /\ y.signalingState = x.signalingState /\ y.makingOffer = FALSE
  BY <1>1, <1>2, FieldsAre DEF SameCandidates
<1>4. /\ x.found \in Nat /\ OffererInv(x) /\ CandidateInv(s, x, calm)
  BY DEF TalkOf
<1>5. x.offers = 0 /\ x.remote = Null /\ x.signalingState = "stable"
  BY <1>4 DEF OffererInv
<1>6. OffererInv(y)
  BY <1>3, <1>5, CallsAre DEF OffererInv, Calls
<1>7. CandidateInv(s, y, FALSE)
  BY <1>3, <1>4, <1>5, CallsAre, CandidatesKept DEF Calls
<1> QED  BY <1>3, <1>4, <1>5, <1>6, <1>7 DEF TalkOf, y

\* The answerer's calls, and the records they leave.
LEMMA AnswererCalls ==
    ASSUME NEW s, NEW x, NEW calm, DOMAIN x = Fields, TalkOf(s, x, calm),
           RoleOf[s] = "peer_b"
    PROVE  /\ x.call = "setRemoteOffer" =>
                  TalkOf(s, RemoteOfferSet(x), calm) /\ Answering(RemoteOfferSet(x))
           /\ x.call = "createAnswer" =>
                  TalkOf(s, AnswerCreated(x), calm) /\ Answering(AnswerCreated(x))
           /\ x.call = "setAnswer" =>
                  TalkOf(s, AnswerSet(x), calm) /\ ~ Answering(AnswerSet(x))
           /\ Answering(x) =>
                  TalkOf(s, DescriptionFails(x), FALSE) /\ ~ Answering(DescriptionFails(x))
<1>1. /\ x.found \in Nat /\ AnswererInv(x) /\ CandidateInv(s, x, calm)
  BY DEF TalkOf
<1>2. \A call \in Calls : call # Null
  BY CallsAre
<1>3. x.call = "setRemoteOffer" =>
          TalkOf(s, RemoteOfferSet(x), calm) /\ Answering(RemoteOfferSet(x))
  <2> DEFINE y == RemoteOfferSet(x)
  <2> SUFFICES ASSUME x.call = "setRemoteOffer"
               PROVE  TalkOf(s, y, calm) /\ Answering(y)
    OBVIOUS
  <2>1. /\ SameCandidates(x, y) /\ y.call = "createAnswer" /\ y.found = x.found
        /\ y.offers = x.offers /\ y.remote = x.from /\ y.makingOffer = x.makingOffer
    BY FieldsAre DEF RemoteOfferSet, SameCandidates
  <2> HIDE DEF y
  <2>2. y.remote \in Sessions \ {s} /\ y.remote # Null /\ y.call # Null
    BY <1>1, <1>2, <2>1, CallsAre DEF CandidateInv, Calls
  <2>3. CandidateInv(s, y, calm)
    BY <1>1, <2>1, <2>2, CandidatesKept
  <2> QED  BY <1>1, <2>1, <2>3 DEF TalkOf, AnswererInv, Answering
<1>4. x.call \in {"createAnswer", "setAnswer"} =>
          /\ TalkOf(s, AnswerCreated(x), calm) /\ Answering(AnswerCreated(x))
          /\ TalkOf(s, AnswerSet(x), calm) /\ ~ Answering(AnswerSet(x))
  <2> DEFINE y == AnswerCreated(x)
             z == AnswerSet(x)
  <2> SUFFICES ASSUME x.call \in {"createAnswer", "setAnswer"}
               PROVE  TalkOf(s, y, calm) /\ Answering(y) /\ TalkOf(s, z, calm) /\ ~ Answering(z)
    OBVIOUS
  <2>1. /\ SameCandidates(x, y) /\ y.call = "setAnswer" /\ y.found = x.found
        /\ y.offers = x.offers /\ y.remote = x.remote /\ y.makingOffer = x.makingOffer
    BY FieldsAre DEF AnswerCreated, SameCandidates
  <2>2. /\ SameCandidates(x, z) /\ z.call = "flush" /\ z.found = x.found
        /\ z.offers = x.offers /\ z.remote = x.remote /\ z.makingOffer = x.makingOffer
    BY FieldsAre DEF AnswerSet, SameCandidates
  <2> HIDE DEF y, z
  <2>3. x.remote \in Sessions \ {s} /\ x.remote # Null
    BY <1>1 DEF CandidateInv
  <2>4. y.call # Null /\ z.call # Null
    BY <1>2, <2>1, <2>2 DEF Calls
  <2>5. CandidateInv(s, y, calm) /\ CandidateInv(s, z, calm)
    BY <1>1, <2>1, <2>2, <2>3, <2>4, CandidatesKept
  <2> QED  BY <1>1, <2>1, <2>2, <2>5 DEF TalkOf, AnswererInv, Answering
<1>5. Answering(x) =>
          TalkOf(s, DescriptionFails(x), FALSE) /\ ~ Answering(DescriptionFails(x))
  <2> DEFINE y == DescriptionFails(x)
  <2> SUFFICES ASSUME Answering(x) PROVE TalkOf(s, y, FALSE) /\ ~ Answering(y)
    OBVIOUS
  <2>1. /\ SameCandidates(x, y) /\ y.call = Null /\ y.found = x.found
        /\ y.offers = x.offers /\ y.remote = x.remote /\ y.makingOffer = x.makingOffer
    BY FieldsAre DEF DescriptionFails, SameCandidates
  <2> HIDE DEF y
  <2>2. x.remote \in (Sessions \ {s}) \cup {Null} /\ x.call # "flush"
    BY <1>1 DEF CandidateInv, Answering
  <2>3. CandidateInv(s, y, FALSE)
    BY <1>1, <1>2, <2>1, <2>2, CandidatesKept DEF Calls
  <2> QED  BY <1>1, <1>2, <2>1, <2>3 DEF TalkOf, AnswererInv, Answering, Calls
<1>6. /\ x.call = "createAnswer" => x.call \in {"createAnswer", "setAnswer"}
      /\ x.call = "setAnswer" => x.call \in {"createAnswer", "setAnswer"}
  OBVIOUS
<1> QED  BY ONLY <1>3, <1>4, <1>5, <1>6

-----------------------------------------------------------------------------
(* Candidates                                                              *)

LEMMA OneOther ==
    ASSUME OneSessionEach, NEW s \in Sessions,
           NEW t \in Sessions \ {s}, NEW u \in Sessions \ {s}
    PROVE  t = u
BY NegotiationAssumption DEF OneSessionEach

\* y differs from x in nothing that TalkOf reads but the candidates and the
\* call, which is flush or has ended.
Flushed(x, y) ==
    /\ y.stopped = x.stopped /\ y.found = x.found /\ y.offers = x.offers
    /\ y.peerNegotiationStarted = x.peerNegotiationStarted
    /\ y.signalingState = x.signalingState
    /\ y.makingOffer = x.makingOffer
    /\ y.remote = x.remote
    /\ y.received = x.received
    /\ y.call \in {Null, "flush"}

LEMMA FlushedTalk ==
    ASSUME NEW s \in Sessions, NEW x, NEW y, NEW calm,
           TalkOf(s, x, calm), x.call = "flush",
           Flushed(x, y), CandidateInv(s, y, calm)
    PROVE  /\ TalkOf(s, y, calm) /\ y.offers = x.offers /\ ~ Answering(y)
           /\ RoleOf[s] = "peer_a" => x.offers # 0
<1>1. /\ "flush" # Null
      /\ y.call \notin {"createOffer", "setOffer"}
  BY CallsAre DEF Calls, Flushed
<1>2. ~ Answering(y)
  BY CallsAre DEF Flushed, Answering, Calls
<1>3. RoleOf[s] = "peer_a" => OffererInv(y) /\ x.offers # 0
  <2> SUFFICES ASSUME RoleOf[s] = "peer_a" PROVE OffererInv(y) /\ x.offers # 0
    OBVIOUS
  <2>1. OffererInv(x)
    BY DEF TalkOf
  <2>2. ~ x.makingOffer /\ x.offers # 0
    BY <1>1, <2>1 DEF OffererInv
  <2> QED  BY <1>1, <2>1, <2>2 DEF OffererInv, Flushed
<1>4. RoleOf[s] = "peer_b" => AnswererInv(y)
  BY DEF TalkOf, AnswererInv, Flushed
<1> QED  BY <1>2, <1>3, <1>4 DEF TalkOf, Flushed

\* The next candidate of the buffer is given to the connection, or the buffer,
\* all of it given, is emptied.
LEMMA FlushTalk ==
    ASSUME OneSessionEach, NEW s \in Sessions, NEW x, NEW calm,
           DOMAIN x = Fields, TalkOf(s, x, calm), x.call = "flush"
    PROVE  LET y == flush(x)
           IN  /\ TalkOf(s, y, calm) /\ y.offers = x.offers /\ ~ Answering(y)
               /\ RoleOf[s] = "peer_a" => x.offers # 0
<1> DEFINE Good(y) == Flushed(x, y) /\ CandidateInv(s, y, calm)
           Ended(z, y) == /\ DOMAIN y = DOMAIN z /\ y.call = Null
                          /\ y.stopped = z.stopped /\ y.found = z.found
                          /\ y.offers = z.offers
                          /\ y.peerNegotiationStarted = z.peerNegotiationStarted
                          /\ y.signalingState = z.signalingState
                          /\ y.makingOffer = z.makingOffer
                          /\ y.remote = z.remote /\ y.received = z.received
                          /\ y.added = z.added /\ y.buffer = <<>> /\ y.cursor = 0
<1>1. /\ x.remote \in Sessions \ {s} /\ x.remote # Null
      /\ x.buffer \in Seq(Candidate) /\ x.cursor \in Nat
      /\ \A c \in x.received : c.from \in Sessions \ {s}
      /\ x.received \subseteq x.added \cup Range(x.buffer)
      /\ Range(x.buffer) \subseteq x.received
      /\ \A i \in DOMAIN x.buffer : i <= x.cursor => x.buffer[i] \in x.added
      /\ x.cursor = 0 \/ x.cursor < Len(x.buffer)
  BY DEF TalkOf, CandidateInv
<1>2. ASSUME NEW z, DOMAIN z = Fields
      PROVE  Ended(z, FlushEnds(z))
  BY <1>2, FieldsAre DEF FlushEnds
<1>3. ASSUME NEW z, NEW y, Ended(z, y), Flushed(x, z), z.received \subseteq z.added
      PROVE  Good(y)
  <2>1. Range(<<>>) = {} /\ DOMAIN <<>> = {} /\ <<>> \in Seq(Candidate)
    BY DEF Range
  <2>2. Flushed(x, y)
    BY <1>3 DEF Flushed
  <2>3. CandidateInv(s, y, calm)
    BY <1>1, <1>3, <2>1, CallsAre DEF CandidateInv, Flushed, Calls
  <2> QED  BY <2>2, <2>3
<1>4. Flushed(x, x)
  BY DEF Flushed
<1>5. ASSUME x.buffer = <<>>
      PROVE  Good(FlushEnds(x))
  <2>1. x.received \subseteq x.added
    BY <1>1, <1>5 DEF Range
  <2>2. Ended(x, FlushEnds(x))
    BY <1>2
  <2> QED  BY ONLY <1>3, <1>4, <2>1, <2>2
<1>6. ASSUME x.buffer # <<>>
      PROVE  Good(FlushNext(x))
  <2> DEFINE c == x.buffer[x.cursor + 1]
             z == [x EXCEPT !.cursor = @ + 1,
                            !.added = IF c.from = x.remote THEN @ \cup {c} ELSE @]
  <2>1. /\ Len(x.buffer) \in Nat /\ DOMAIN x.buffer = 1..Len(x.buffer)
        /\ x.cursor + 1 \in 1..Len(x.buffer)
    BY <1>1, <1>6
  <2>2. c \in Range(x.buffer) /\ c \in x.received
    BY <1>1, <2>1 DEF Range
  <2>3. c.from = x.remote
    <3>1. c.from \in Sessions \ {s}
      BY <1>1, <2>2
    <3> QED  BY <1>1, <3>1, OneOther
  <2>4. /\ DOMAIN z = Fields /\ z.cursor = x.cursor + 1 /\ z.added = x.added \cup {c}
        /\ z.call = "flush" /\ z.stopped = x.stopped /\ z.found = x.found
        /\ z.offers = x.offers
        /\ z.peerNegotiationStarted = x.peerNegotiationStarted
        /\ z.signalingState = x.signalingState
        /\ z.makingOffer = x.makingOffer
        /\ z.remote = x.remote /\ z.received = x.received /\ z.buffer = x.buffer
        /\ z.from = x.from
    BY <2>3, FieldsAre
  <2>5. FlushNext(x) = IF z.cursor = Len(z.buffer) THEN FlushEnds(z) ELSE z
    BY DEF FlushNext
  <2> HIDE DEF c, z
  <2>6. Flushed(x, z)
    BY <2>4 DEF Flushed
  <2>7. \A i \in DOMAIN x.buffer : i <= x.cursor + 1 => x.buffer[i] \in z.added
    <3> SUFFICES ASSUME NEW i \in DOMAIN x.buffer, i <= x.cursor + 1
                 PROVE  x.buffer[i] \in z.added
      OBVIOUS
    <3>1. CASE i = x.cursor + 1
      BY <2>4, <3>1 DEF c
    <3>2. CASE i # x.cursor + 1
      <4>1. i \in Nat /\ i <= x.cursor
        BY <1>1, <2>1, <3>2
      <4> QED  BY <1>1, <2>4, <4>1
    <3> QED  BY <3>1, <3>2
  <2>8. CASE z.cursor = Len(z.buffer)
    <3>1. Range(x.buffer) \subseteq z.added
      BY <1>1, <2>1, <2>4, <2>7, <2>8 DEF Range
    <3>2. z.received \subseteq z.added
      BY <1>1, <2>4, <3>1
    <3>3. Ended(z, FlushEnds(z))
      BY <1>2, <2>4
    <3>4. Good(FlushEnds(z))
      BY ONLY <1>3, <2>6, <3>2, <3>3
    <3> QED  BY <2>5, <2>8, <3>4
  <2>9. CASE z.cursor # Len(z.buffer)
    <3>1. z.cursor < Len(z.buffer) /\ z.cursor \in Nat
      BY <1>1, <2>1, <2>4, <2>9
    <3>2. "flush" # Null
      BY CallsAre DEF Calls
    <3>3. CandidateInv(s, z, calm)
      BY <1>1, <2>4, <2>7, <3>1, <3>2 DEF CandidateInv
    <3> QED  BY <2>5, <2>6, <2>9, <3>3
  <2> QED  BY <2>8, <2>9
<1>7. Good(flush(x))
  BY <1>1, <1>5, <1>6 DEF flush
<1> QED  BY <1>7, FlushedTalk

\* A candidate of the description that was applied goes to the connection,
\* one that comes before it to the buffer.
LEMMA CandidateTalk ==
    ASSUME OneSessionEach, NEW s \in Sessions, NEW x, NEW calm, NEW c \in Candidate,
           DOMAIN x = Fields, TalkOf(s, x, calm), c.from \in Sessions \ {s}
    PROVE  LET y == ReceiveCandidate(x, c)
           IN  TalkOf(s, y, calm) /\ Unmoved(x, y)
<1> DEFINE y == ReceiveCandidate(x, c)
           taken == x.remote = c.from
<1>1. /\ y.received = x.received \cup {c}
      /\ y.added = IF taken THEN x.added \cup {c} ELSE x.added
      /\ y.buffer = IF taken THEN x.buffer ELSE Append(x.buffer, c)
      /\ y.cursor = x.cursor /\ y.call = x.call /\ y.from = x.from
      /\ y.stopped = x.stopped /\ y.found = x.found /\ y.offers = x.offers
      /\ y.peerNegotiationStarted = x.peerNegotiationStarted
      /\ y.signalingState = x.signalingState /\ y.makingOffer = x.makingOffer
      /\ y.remote = x.remote
  BY FieldsAre DEF ReceiveCandidate
<1> HIDE DEF y
<1>2. CandidateInv(s, x, calm)
  BY DEF TalkOf
<1>3. ~ taken => x.remote = Null /\ x.call # "flush" /\ x.cursor = 0
  <2> SUFFICES ASSUME ~ taken PROVE x.remote = Null /\ x.call # "flush" /\ x.cursor = 0
    OBVIOUS
  <2>1. x.remote = Null
    BY <1>2, OneOther DEF CandidateInv
  <2> QED  BY <1>2, <2>1 DEF CandidateInv
<1>4. /\ y.buffer \in Seq(Candidate)
      /\ DOMAIN x.buffer \subseteq DOMAIN y.buffer
      /\ \A i \in DOMAIN x.buffer : y.buffer[i] = x.buffer[i]
      /\ Range(y.buffer) = IF taken THEN Range(x.buffer) ELSE Range(x.buffer) \cup {c}
      /\ DOMAIN y.buffer \subseteq Nat \ {0}
  <2>1. x.buffer \in Seq(Candidate)
    BY <1>2 DEF CandidateInv
  <2> DEFINE r == Append(x.buffer, c)
             n == Len(x.buffer) + 1
  <2>2. /\ r \in Seq(Candidate) /\ Len(r) = n
        /\ \A i \in 1..Len(x.buffer) : r[i] = x.buffer[i]
        /\ r[n] = c
    BY <2>1, AppendProperties
  <2>3. /\ DOMAIN x.buffer = 1..Len(x.buffer) /\ Len(x.buffer) \in Nat
        /\ DOMAIN r = DOMAIN x.buffer \cup {n}
    BY <2>1, <2>2
  <2> HIDE DEF r
  <2>4. Range(r) = Range(x.buffer) \cup {c}
    BY <2>2, <2>3 DEF Range
  <2>5. CASE taken
    BY <1>1, <2>1, <2>3, <2>5
  <2>6. CASE ~ taken
    <3>1. y.buffer = r
      BY <1>1, <2>6 DEF r
    <3> QED  BY <2>2, <2>3, <2>4, <2>6, <3>1
  <2> QED  BY <2>5, <2>6
<1>5. CandidateInv(s, y, calm)
  <2>1. CASE taken
    BY <1>1, <1>2, <1>4, <2>1 DEF CandidateInv
  <2>2. CASE ~ taken
    <3>1. x.remote = Null /\ x.call # "flush" /\ x.cursor = 0
      BY <1>3, <2>2
    <3>2. \A i \in DOMAIN y.buffer : ~ (i <= y.cursor)
      BY <1>1, <1>4, <3>1
    <3> QED  BY <1>1, <1>2, <1>4, <2>2, <3>1, <3>2 DEF CandidateInv
  <2> QED  BY <2>1, <2>2
<1>6. TalkOf(s, y, calm)
  BY <1>1, <1>5 DEF TalkOf, OffererInv, AnswererInv
<1> QED  BY <1>1, <1>6 DEF Unmoved, y

-----------------------------------------------------------------------------
(* Steps of the negotiation                                                *)

\* A session that stops has a new negotiation state.
LEMMA StopTalk ==
    ASSUME NEW s, NEW x, NEW calm, DOMAIN x = Fields, TalkOf(s, x, calm)
    PROVE  LET y == stop(x)
           IN  TalkOf(s, y, calm) /\ y.stopped /\ y.offers = x.offers /\ Idle(y)
<1> DEFINE z == stop(x)
           y == [x EXCEPT !.stopped = TRUE, !.phase = "stopped",
             !.cut = Uncancelled(x),
             !.mic = StopTracks(@),
             !.preflight = "none", !.clock = "none",
             !.samplers = @ \ {x.started},
             !.channel = IF @ = "none" THEN @ ELSE "closed",
             !.connection = "closed",
             !.socket = IF @ \in {"connecting", "joined"} THEN "closed" ELSE @]
           n == createNegotiationState
<1>1. z = With(y, n)
  BY DEF stop
<1>2. DOMAIN y = Fields
  OBVIOUS
<1>3. /\ DOMAIN n = {"signalingState", "makingOffer",
                     "isSettingRemoteAnswerPending", "call", "from", "remote",
                     "received", "added", "buffer", "cursor"}
      /\ n.signalingState = "stable" /\ n.makingOffer = FALSE /\ n.call = Null
      /\ n.remote = Null /\ n.received = {} /\ n.buffer = <<>> /\ n.cursor = 0
  BY DEF createNegotiationState
<1>4. /\ y.stopped = TRUE /\ y.found = x.found /\ y.offers = x.offers
      /\ y.peerNegotiationStarted = x.peerNegotiationStarted
  BY FieldsAre
<1> HIDE DEF y, z
<1>5. z = [f \in Fields |-> IF f \in DOMAIN n THEN n[f] ELSE y[f]]
  BY <1>1, <1>2, <1>3, FieldsAre DEF With
<1> HIDE DEF n
<1>6. /\ z.stopped = TRUE /\ z.found = x.found /\ z.offers = x.offers
      /\ z.peerNegotiationStarted = x.peerNegotiationStarted
      /\ z.signalingState = "stable" /\ z.makingOffer = FALSE /\ z.call = Null
      /\ z.remote = Null /\ z.received = {} /\ z.buffer = <<>> /\ z.cursor = 0
  BY <1>3, <1>4, <1>5, FieldsAre
<1>7. Idle(z)
  BY <1>6 DEF Idle
<1>8. Null \notin {"createOffer", "setOffer", "setRemoteOffer", "setRemoteAnswer",
                   "createAnswer", "setAnswer", "flush"}
  BY CallsAre DEF Calls
<1>9. CandidateInv(s, z, calm)
  <2>1. Range(<<>>) = {} /\ DOMAIN <<>> = {} /\ <<>> \in Seq(Candidate)
    BY DEF Range
  <2> QED  BY <1>6, <1>8, <2>1 DEF CandidateInv
<1>10. TalkOf(s, z, calm)
  BY <1>6, <1>8, <1>9 DEF TalkOf, OffererInv, AnswererInv
<1> QED  BY <1>6, <1>7, <1>10 DEF z

LEMMA StopStep ==
    ASSUME OneSessionEach, IInv, TalkInv, NEW s \in Sessions, Stop(s)
    PROVE  TalkInv'
<1> DEFINE x == session[s]
           y == stop(x)
<1>1. /\ Set(s, y) /\ wire' = [wire EXCEPT ![s] = <<>>] /\ UNCHANGED <<room, faults>>
  BY DEF Stop
<1>2. TalkOf(s, x, faults = 0) /\ DOMAIN x = Fields
  BY DEF TalkInv, IInv, SessionInv, TypeInv
<1>3. TalkOf(s, y, faults = 0) /\ y.stopped /\ y.offers = x.offers /\ Idle(y)
  BY <1>2, StopTalk
<1> HIDE DEF y
<1>4. TalkOf(s, y, faults' = 0)
  BY <1>1, <1>3
<1>5. \A t \in Sessions : wire'[t] = IF t = s THEN <<>> ELSE wire[t]
  BY <1>1 DEF TalkInv
<1>6. /\ wire' = [t \in Sessions |-> wire'[t]]
      /\ \A t \in Sessions : wire'[t] \in Seq(Frame(t))
  BY <1>1, <1>5 DEF TalkInv
<1>7. ASSUME NEW b \in Sessions, RoleOf[s] = "peer_a", RoleOf[b] = "peer_b"
      PROVE  Handshake(y, session[b], wire'[s], wire'[b])
  <2>1. Handshake(x, session[b], wire[s], wire[b])
    BY <1>7 DEF TalkInv
  <2>2. wire'[s] = <<>> /\ wire'[b] = wire[b]
    BY <1>5, <1>7
  <2>3. Handshake(y, session[b], <<>>, wire[b])
    BY <1>3, <2>1, HandshakeStopped
  <2> QED  BY <2>2, <2>3
<1>8. ASSUME NEW a \in Sessions, RoleOf[a] = "peer_a", RoleOf[s] = "peer_b"
      PROVE  Handshake(session[a], y, wire'[a], wire'[s])
  <2>1. Handshake(session[a], x, wire[a], wire[s])
    BY <1>8 DEF TalkInv
  <2>2. wire'[s] = <<>> /\ wire'[a] = wire[a]
    BY <1>5, <1>8
  <2>3. Handshake(session[a], y, wire[a], <<>>)
    BY <1>3, <2>1, HandshakeDropped
  <2> QED  BY <2>2, <2>3
<1> QED  BY <1>1, <1>4, <1>6, <1>7, <1>8, TalkSet

\* A step of s that leaves the frames as they are.
LEMMA TalkHere ==
    ASSUME OneSessionEach, IInv, TalkInv, NEW s \in Sessions, NEW y, Set(s, y),
           UNCHANGED <<room, wire>>, faults' = faults \/ faults' = faults + 1,
           TalkOf(s, y, faults' = 0),
           \A b \in Sessions : RoleOf[s] = "peer_a" /\ RoleOf[b] = "peer_b" =>
               Handshake(y, session[b], wire[s], wire[b]),
           \A a \in Sessions : RoleOf[a] = "peer_a" /\ RoleOf[s] = "peer_b" =>
               Handshake(session[a], y, wire[a], wire[s])
    PROVE  TalkInv'
<1>1. /\ wire' = [t \in Sessions |-> wire'[t]]
      /\ \A t \in Sessions : wire'[t] \in Seq(Frame(t))
  BY WiresInv
<1>2. /\ \A b \in Sessions : RoleOf[s] = "peer_a" /\ RoleOf[b] = "peer_b" =>
             Handshake(y, session[b], wire'[s], wire'[b])
      /\ \A a \in Sessions : RoleOf[a] = "peer_a" /\ RoleOf[s] = "peer_b" =>
             Handshake(session[a], y, wire'[a], wire'[s])
  OBVIOUS
<1> QED  BY <1>1, <1>2, TalkSet

\* The offerer ends a call that follows its offer.
LEMMA OffererSettles ==
    ASSUME NEW x, NEW y, NEW x2, NEW toX, NEW toY, Handshake(x, y, toX, toY),
           ~ x.stopped, x.call # Null, x2.offers # 0
    PROVE  Handshake(x2, y, toX, toY)
<1>1. ~ Awaiting(x)
  BY DEF Awaiting
<1>2. ~ Has(toY, "offer") /\ ~ Answering(y) /\ ~ Has(toX, "answer")
  BY <1>1, NothingExpected
<1> QED  BY <1>2, HandshakeOver

LEMMA RejectsStep ==
    ASSUME OneSessionEach, IInv, TalkInv, NEW s \in Sessions, CallRejects(s)
    PROVE  TalkInv'
<1> DEFINE x == session[s]
           failed == Failed(x)
           given == DescriptionFails(x)
<1>1. TalkOf(s, x, faults = 0) /\ DOMAIN x = Fields /\ (x.stopped => x.call = Null)
  BY DEF TalkInv, IInv, SessionInv, TypeInv, StopInv
<1>2. UNCHANGED <<room, wire>> /\ faults' = faults + 1 /\ ~ (faults' = 0)
  BY DEF CallRejects, TalkInv
<1>3. \/ x.call \in {"createOffer", "setOffer"} /\ Set(s, failed)
      \/ /\ x.call \in {"setRemoteOffer", "createAnswer", "setAnswer", "setRemoteAnswer"}
         /\ Set(s, given)
  BY DEF CallRejects, Failed
<1>4. ASSUME NEW y, TalkOf(s, y, FALSE)
      PROVE  TalkOf(s, y, faults' = 0)
  BY <1>2, <1>4 DEF TalkOf, CandidateInv
<1>5. x.call # Null /\ ~ x.stopped
  BY <1>1, <1>3, CallsAre DEF Calls
<1>6. CASE RoleOf[s] = "peer_a"
  <2>1. /\ OffererInv(x)
        /\ \A b \in Sessions : RoleOf[b] = "peer_b" =>
               Handshake(x, session[b], wire[s], wire[b])
    BY <1>1, <1>6 DEF TalkInv, TalkOf
  <2>2. CASE x.call \in {"createOffer", "setOffer"}
    <3>1. Set(s, failed)
      BY <1>3, <2>2
    <3>2. TalkOf(s, failed, FALSE) /\ x.offers = 0
      BY <1>1, <1>6, <2>2, OfferFailsTalk
    <3> HIDE DEF failed
    <3>3. TalkOf(s, failed, faults' = 0)
      BY <1>4, <3>2
    <3>4. \A b \in Sessions : RoleOf[b] = "peer_b" =>
              Handshake(failed, session[b], wire[s], wire[b])
      BY <2>1, <3>2, SameThinner, HandshakeBefore
    <3>5. \A a \in Sessions : RoleOf[a] = "peer_a" /\ RoleOf[s] = "peer_b" =>
              Handshake(session[a], failed, wire[a], wire[s])
      BY <1>6
    <3> QED  BY <1>2, <3>1, <3>3, <3>4, <3>5, TalkHere
  <2>3. CASE x.call \notin {"createOffer", "setOffer"}
    <3>1. Set(s, given)
      BY <1>3, <2>3
    <3>2. x.call = "setRemoteAnswer" /\ x.offers # 0
      BY <1>3, <1>5, <2>1, <2>3 DEF OffererInv
    <3>3. TalkOf(s, given, FALSE) /\ given.offers = x.offers
      BY <1>1, <1>6, <3>2, OffererCalls
    <3> HIDE DEF given
    <3>4. TalkOf(s, given, faults' = 0)
      BY <1>4, <3>3
    <3>5. \A b \in Sessions : RoleOf[b] = "peer_b" =>
              Handshake(given, session[b], wire[s], wire[b])
      BY <1>5, <2>1, <3>2, <3>3, OffererSettles
    <3>6. \A a \in Sessions : RoleOf[a] = "peer_a" /\ RoleOf[s] = "peer_b" =>
              Handshake(session[a], given, wire[a], wire[s])
      BY <1>6
    <3> QED  BY <1>2, <3>1, <3>4, <3>5, <3>6, TalkHere
  <2> QED  BY <2>2, <2>3
<1>7. CASE RoleOf[s] = "peer_b"
  <2>1. AnswererInv(x)
    BY <1>1, <1>7 DEF TalkOf
  <2>2. Answering(x) /\ Set(s, given)
    BY <1>3, <1>5, <2>1 DEF AnswererInv, Answering
  <2>3. TalkOf(s, given, FALSE) /\ ~ Answering(given)
    BY <1>1, <1>7, <2>2, AnswererCalls
  <2> HIDE DEF given
  <2>4. TalkOf(s, given, faults' = 0)
    BY <1>4, <2>3
  <2>5. ASSUME NEW a \in Sessions, RoleOf[a] = "peer_a"
        PROVE  Handshake(session[a], given, wire[a], wire[s])
    <3>1. Handshake(session[a], x, wire[a], wire[s])
      BY <1>7, <2>5 DEF TalkInv
    <3>2. Single(wire[a], "answer")
      BY <3>1 DEF Handshake
    <3> QED  BY <1>5, <2>3, <3>1, <3>2, HandshakeAnswered
  <2>6. \A b \in Sessions : RoleOf[s] = "peer_a" /\ RoleOf[b] = "peer_b" =>
            Handshake(given, session[b], wire[s], wire[b])
    BY <1>7
  <2> QED  BY <1>2, <2>2, <2>4, <2>5, <2>6, TalkHere
<1> QED  BY <1>6, <1>7, NegotiationAssumption

LEMMA DescriptionFrame ==
    ASSUME OneSessionEach, NEW s \in Sessions, NEW t \in Sessions \ {s}
    PROVE  /\ RoleOf[s] = "peer_a" => Description(s, "offer") \in Frame(t)
           /\ RoleOf[s] = "peer_b" => Description(s, "answer") \in Frame(t)
<1>1. /\ RoleOf[s] = "peer_a" => RoleOf[t] = "peer_b"
      /\ RoleOf[s] = "peer_b" => RoleOf[t] = "peer_a"
  BY NegotiationAssumption DEF OneSessionEach
<1> QED  BY <1>1 DEF Description, Frame

\* The offer is made: s awaits the answer.
LEMMA OfferStep ==
    ASSUME OneSessionEach, IInv, TalkInv, NEW s \in Sessions,
           RoleOf[s] = "peer_a", session[s].call = "setOffer", CallResolves(s)
    PROVE  TalkInv'
<1> DEFINE x == session[s]
           y == [OfferSet(x) EXCEPT !.offers = @ + 1]
<1>1. TalkOf(s, x, faults = 0) /\ DOMAIN x = Fields
  BY DEF TalkInv, IInv, SessionInv, TypeInv
<1>2. PICK m : m = Description(s, "offer")
  OBVIOUS
<1>3. Set(s, y) /\ wire' = Relayed(s, <<m>>) /\ UNCHANGED <<room, faults>>
  BY <1>2 DEF CallResolves, Resolves
<1>4. TalkOf(s, y, faults = 0) /\ Awaiting(y)
  BY <1>1, OffererCalls
<1> HIDE DEF y
<1>5. x.offers = 0
  BY <1>1 DEF TalkOf, OffererInv
<1>6. m.type = "offer" /\ \A t \in Sessions \ {s} : m \in Frame(t)
  BY <1>2, DescriptionFrame DEF Description
<1>7. /\ wire' = [t \in Sessions |-> wire'[t]]
      /\ \A t \in Sessions : /\ wire'[t] \in Seq(Frame(t))
                             /\ \/ wire'[t] = wire[t]
                                \/ t # s /\ wire'[t] = Append(wire[t], m)
  BY <1>3, <1>6, RelayedWires
<1>8. ASSUME NEW b \in Sessions, RoleOf[s] = "peer_a", RoleOf[b] = "peer_b"
      PROVE  Handshake(y, session[b], wire'[s], wire'[b])
  <2>1. Handshake(x, session[b], wire[s], wire[b]) /\ wire[b] \in Seq(Frame(b)) /\ b # s
    BY <1>8 DEF TalkInv
  <2>2. ~ Has(wire[b], "offer") /\ Single(wire[b], "offer")
    BY <1>5, <2>1 DEF Handshake
  <2>3. m \in Frame(b)
    BY <1>6, <2>1
  <2>4. Single(Append(wire[b], m), "offer")
    BY <1>6, <2>1, <2>2, <2>3, AppendThinner
  <2>5. wire'[s] = wire[s] /\ Single(wire'[b], "offer")
    BY <1>7, <2>2, <2>4
  <2>6. Handshake(y, session[b], wire[s], wire'[b])
    BY <1>4, <1>5, <2>1, <2>5, HandshakeOffered
  <2> QED  BY <2>5, <2>6
<1>9. \A a \in Sessions : RoleOf[a] = "peer_a" /\ RoleOf[s] = "peer_b" =>
          Handshake(session[a], y, wire'[a], wire'[s])
  OBVIOUS
<1>10. TalkOf(s, y, faults' = 0)
  BY <1>3, <1>4
<1> QED  BY <1>3, <1>7, <1>8, <1>9, <1>10, TalkSet

\* The answer is made: it is on its way, and s flushes its candidates.
LEMMA AnswerStep ==
    ASSUME OneSessionEach, IInv, TalkInv, NEW s \in Sessions,
           RoleOf[s] = "peer_b", session[s].call = "setAnswer", CallResolves(s)
    PROVE  TalkInv'
<1> DEFINE x == session[s]
           y == AnswerSet(x)
<1>1. TalkOf(s, x, faults = 0) /\ DOMAIN x = Fields
  BY DEF TalkInv, IInv, SessionInv, TypeInv
<1>2. PICK m : m = Description(s, "answer")
  OBVIOUS
<1>3. Set(s, y) /\ wire' = Relayed(s, <<m>>) /\ UNCHANGED <<room, faults>>
  BY <1>2 DEF CallResolves, Resolves
<1>4. TalkOf(s, y, faults = 0) /\ ~ Answering(y) /\ Answering(x) /\ x.call # Null
  BY <1>1, AnswererCalls, CallsAre DEF Answering, Calls
<1> HIDE DEF y
<1>5. m.type = "answer" /\ \A t \in Sessions \ {s} : m \in Frame(t)
  BY <1>2, DescriptionFrame DEF Description
<1>6. /\ wire' = [t \in Sessions |-> wire'[t]]
      /\ \A t \in Sessions : /\ wire'[t] \in Seq(Frame(t))
                             /\ \/ wire'[t] = wire[t]
                                \/ t # s /\ wire'[t] = Append(wire[t], m)
  BY <1>3, <1>5, RelayedWires
<1>7. ASSUME NEW a \in Sessions, RoleOf[a] = "peer_a", RoleOf[s] = "peer_b"
      PROVE  Handshake(session[a], y, wire'[a], wire'[s])
  <2>1. Handshake(session[a], x, wire[a], wire[s]) /\ wire[a] \in Seq(Frame(a)) /\ a # s
    BY <1>7 DEF TalkInv
  <2>2. ~ Has(wire[a], "answer") /\ Single(wire[a], "answer")
    BY <1>4, <2>1 DEF Handshake
  <2>3. m \in Frame(a)
    BY <1>5, <2>1
  <2>4. Single(Append(wire[a], m), "answer")
    BY <1>5, <2>1, <2>2, <2>3, AppendThinner
  <2>5. wire'[s] = wire[s] /\ Single(wire'[a], "answer")
    BY <1>6, <2>2, <2>4
  <2>6. Handshake(session[a], y, wire'[a], wire[s])
    BY <1>4, <2>1, <2>5, HandshakeAnswered
  <2> QED  BY <2>5, <2>6
<1>8. \A b \in Sessions : RoleOf[s] = "peer_a" /\ RoleOf[b] = "peer_b" =>
          Handshake(y, session[b], wire'[s], wire'[b])
  OBVIOUS
<1>9. TalkOf(s, y, faults' = 0)
  BY <1>3, <1>4
<1> QED  BY <1>3, <1>6, <1>7, <1>8, <1>9, TalkSet

LEMMA ResolvesStep ==
    ASSUME OneSessionEach, IInv, TalkInv, NEW s \in Sessions, CallResolves(s)
    PROVE  TalkInv'
<1> DEFINE x == session[s]
<1>1. TalkOf(s, x, faults = 0) /\ DOMAIN x = Fields /\ (x.stopped => x.call = Null)
  BY DEF TalkInv, IInv, SessionInv, TypeInv, StopInv
<1>2. /\ x.call \in Calls
      /\ x.call = "createOffer" => Set(s, OfferCreated(x))
      /\ x.call = "setRemoteOffer" => Set(s, RemoteOfferSet(x))
      /\ x.call = "createAnswer" => Set(s, AnswerCreated(x))
      /\ x.call = "setRemoteAnswer" => Set(s, RemoteAnswerSet(x))
      /\ x.call = "flush" => Set(s, flush(x))
      /\ x.call \notin {"setOffer", "setAnswer"} => UNCHANGED wire
      /\ UNCHANGED <<room, faults>>
  BY DEF CallResolves, Resolves, Calls
<1>3. x.call # Null /\ ~ x.stopped
  BY <1>1, <1>2, CallsAre
<1>4. CASE RoleOf[s] = "peer_a"
  <2>1. /\ OffererInv(x)
        /\ \A b \in Sessions : RoleOf[b] = "peer_b" =>
               Handshake(x, session[b], wire[s], wire[b])
    BY <1>1, <1>4 DEF TalkInv, TalkOf
  <2>2. CASE x.call = "createOffer"
    <3>1. PICK y : y = OfferCreated(x)
      OBVIOUS
    <3>2. TalkOf(s, y, faults = 0) /\ x.offers = 0
      BY <1>1, <1>4, <2>1, <2>2, <3>1, OffererCalls DEF OffererInv
    <3>3. \A b \in Sessions : RoleOf[s] = "peer_a" /\ RoleOf[b] = "peer_b" =>
              Handshake(y, session[b], wire[s], wire[b])
      BY <2>1, <3>2, SameThinner, HandshakeBefore
    <3>4. \A a \in Sessions : RoleOf[a] = "peer_a" /\ RoleOf[s] = "peer_b" =>
              Handshake(session[a], y, wire[a], wire[s])
      BY <1>4
    <3>5. Set(s, y) /\ UNCHANGED <<room, wire, faults>> /\ TalkOf(s, y, faults' = 0)
      BY <1>2, <2>2, <3>1, <3>2
    <3> QED  BY <3>3, <3>4, <3>5, TalkHere
  <2>3. CASE x.call = "setOffer"
    BY <1>4, <2>3, OfferStep
  <2>4. CASE x.call \in {"setRemoteAnswer", "flush"}
    <3>1. PICK y : y = IF x.call = "flush" THEN flush(x) ELSE RemoteAnswerSet(x)
      OBVIOUS
    <3>2. x.offers # 0
      BY <1>3, <2>1, <2>4 DEF OffererInv
    <3>3. TalkOf(s, y, faults = 0) /\ y.offers # 0
      <4>1. CASE x.call = "flush"
        BY <1>1, <3>1, <3>2, <4>1, FlushTalk
      <4>2. CASE x.call = "setRemoteAnswer"
        BY <1>1, <1>4, <3>1, <3>2, <4>2, OffererCalls
      <4> QED  BY <2>4, <4>1, <4>2
    <3>4. \A b \in Sessions : RoleOf[s] = "peer_a" /\ RoleOf[b] = "peer_b" =>
              Handshake(y, session[b], wire[s], wire[b])
      BY <1>3, <2>1, <3>3, OffererSettles
    <3>5. \A a \in Sessions : RoleOf[a] = "peer_a" /\ RoleOf[s] = "peer_b" =>
              Handshake(session[a], y, wire[a], wire[s])
      BY <1>4
    <3>6. Set(s, y) /\ UNCHANGED <<room, wire, faults>> /\ TalkOf(s, y, faults' = 0)
      BY <1>2, <2>4, <3>1, <3>3
    <3> QED  BY <3>4, <3>5, <3>6, TalkHere
  <2> QED  BY <1>3, <2>1, <2>2, <2>3, <2>4 DEF OffererInv
<1>5. CASE RoleOf[s] = "peer_b"
  <2>1. AnswererInv(x)
    BY <1>1, <1>5 DEF TalkOf
  <2>2. CASE x.call = "setAnswer"
    BY <1>5, <2>2, AnswerStep
  <2>3. CASE x.call \in {"setRemoteOffer", "createAnswer", "flush"}
    <3>1. PICK y : y = IF x.call = "flush" THEN flush(x)
                       ELSE IF x.call = "setRemoteOffer" THEN RemoteOfferSet(x)
                       ELSE AnswerCreated(x)
      OBVIOUS
    <3>2. /\ TalkOf(s, y, faults = 0)
          /\ IF x.call = "flush" THEN ~ Answering(y) ELSE Answering(x) /\ Answering(y)
      <4>1. CASE x.call = "flush"
        BY <1>1, <3>1, <4>1, FlushTalk
      <4>2. CASE x.call \in {"setRemoteOffer", "createAnswer"}
        BY <1>1, <1>5, <3>1, <4>2, AnswererCalls DEF Answering
      <4> QED  BY <2>3, <4>1, <4>2
    <3>3. ASSUME NEW a \in Sessions, RoleOf[a] = "peer_a", RoleOf[s] = "peer_b"
          PROVE  Handshake(session[a], y, wire[a], wire[s])
      <4>1. Handshake(session[a], x, wire[a], wire[s])
        BY <3>3 DEF TalkInv
      <4>2. Single(wire[a], "answer")
        BY <4>1 DEF Handshake
      <4>3. CASE x.call = "flush"
        BY <1>3, <3>2, <4>1, <4>2, <4>3, HandshakeAnswered
      <4>4. CASE x.call # "flush"
        BY <3>2, <4>1, <4>4, HandshakeAnswering
      <4> QED  BY <4>3, <4>4
    <3>4. \A b \in Sessions : RoleOf[s] = "peer_a" /\ RoleOf[b] = "peer_b" =>
              Handshake(y, session[b], wire[s], wire[b])
      BY <1>5
    <3>5. Set(s, y) /\ UNCHANGED <<room, wire, faults>> /\ TalkOf(s, y, faults' = 0)
      BY <1>2, <2>3, <3>1, <3>2
    <3> QED  BY <3>3, <3>4, <3>5, TalkHere
  <2> QED  BY <1>3, <2>1, <2>2, <2>3 DEF AnswererInv
<1> QED  BY <1>4, <1>5, NegotiationAssumption

-----------------------------------------------------------------------------
(* Frames that arrive                                                      *)

\* s takes the first frame on its way to it.
LEMMA TakeStep ==
    ASSUME OneSessionEach, IInv, TalkInv, NEW s \in Sessions, NEW y, Set(s, y),
           wire[s] # <<>>, wire' = [wire EXCEPT ![s] = Tail(@)],
           UNCHANGED <<room, faults>>,
           TalkOf(s, y, faults = 0),
           \A b \in Sessions : RoleOf[s] = "peer_a" /\ RoleOf[b] = "peer_b" =>
               Handshake(y, session[b], Tail(wire[s]), wire[b]),
           \A a \in Sessions : RoleOf[a] = "peer_a" /\ RoleOf[s] = "peer_b" =>
               Handshake(session[a], y, wire[a], Tail(wire[s]))
    PROVE  TalkInv'
<1>1. Tail(wire[s]) \in Seq(Frame(s))
  BY TailThinner DEF TalkInv
<1>2. \A t \in Sessions : wire'[t] = IF t = s THEN Tail(wire[s]) ELSE wire[t]
  BY DEF TalkInv
<1>3. /\ wire' = [t \in Sessions |-> wire'[t]]
      /\ \A t \in Sessions : wire'[t] \in Seq(Frame(t))
  BY <1>1, <1>2 DEF TalkInv
<1>4. ASSUME NEW b \in Sessions, RoleOf[s] = "peer_a", RoleOf[b] = "peer_b"
      PROVE  Handshake(y, session[b], wire'[s], wire'[b])
  <2>1. wire'[s] = Tail(wire[s]) /\ wire'[b] = wire[b]
    BY <1>2, <1>4
  <2> QED  BY <1>4, <2>1
<1>5. ASSUME NEW a \in Sessions, RoleOf[a] = "peer_a", RoleOf[s] = "peer_b"
      PROVE  Handshake(session[a], y, wire'[a], wire'[s])
  <2>1. wire'[s] = Tail(wire[s]) /\ wire'[a] = wire[a]
    BY <1>2, <1>5
  <2> QED  BY <1>5, <2>1
<1>6. TalkOf(s, y, faults' = 0)
  OBVIOUS
<1> QED  BY <1>3, <1>4, <1>5, <1>6, TalkSet

\* The frame changes nothing that the other session depends on.
LEMMA TakeUnmoved ==
    ASSUME OneSessionEach, IInv, TalkInv, NEW s \in Sessions, NEW y, Set(s, y),
           wire[s] # <<>>, wire' = [wire EXCEPT ![s] = Tail(@)],
           UNCHANGED <<room, faults>>,
           TalkOf(s, y, faults = 0), Unmoved(session[s], y)
    PROVE  TalkInv'
<1>1. Thinner(wire[s], Tail(wire[s])) /\ \A t \in Sessions : Thinner(wire[t], wire[t])
  BY TailThinner, SameThinner DEF TalkInv
<1>2. \A t \in Sessions : Unmoved(session[t], session[t])
  BY DEF Unmoved
<1>3. \A b \in Sessions : RoleOf[s] = "peer_a" /\ RoleOf[b] = "peer_b" =>
          Handshake(y, session[b], Tail(wire[s]), wire[b])
  BY <1>1, <1>2, HandshakeKept DEF TalkInv
<1>4. \A a \in Sessions : RoleOf[a] = "peer_a" /\ RoleOf[s] = "peer_b" =>
          Handshake(session[a], y, wire[a], Tail(wire[s]))
  BY <1>1, <1>2, HandshakeKept DEF TalkInv
<1> QED  BY <1>3, <1>4, TakeStep

\* What maybeStartInitialNegotiation makes of x when it starts.
Started(x) ==
    createAndSendOffer([x EXCEPT !.peerNegotiationStarted = TRUE,
                                 !.phase = "negotiating"])

LEMMA StartTalk ==
    ASSUME NEW s, NEW x, NEW calm, DOMAIN x = Fields, TalkOf(s, x, calm),
           RoleOf[s] = "peer_a", ~ x.peerNegotiationStarted
    PROVE  TalkOf(s, Started(x), calm) /\ x.offers = 0
<1> DEFINE z == [x EXCEPT !.peerNegotiationStarted = TRUE, !.phase = "negotiating"]
           y == Started(x)
<1>1. /\ DOMAIN z = Fields /\ SameCandidates(x, z) /\ z.peerNegotiationStarted = TRUE
      /\ z.offers = x.offers /\ z.found = x.found /\ z.remote = x.remote
      /\ z.signalingState = x.signalingState
  BY FieldsAre DEF SameCandidates
<1>2. y = createAndSendOffer(z)
  BY DEF Started
<1> HIDE DEF z, y
<1>3. /\ SameCandidates(x, y) /\ y.peerNegotiationStarted = TRUE
      /\ y.offers = x.offers /\ y.found = x.found /\ y.remote = x.remote
      /\ y.signalingState = x.signalingState
      /\ y.makingOffer = TRUE /\ y.call = "createOffer"
  BY <1>1, <1>2, FieldsAre DEF createAndSendOffer, SameCandidates
<1>4. OffererInv(x) /\ CandidateInv(s, x, calm) /\ x.found \in Nat
  BY DEF TalkOf
<1>5. ~ x.makingOffer /\ x.offers = 0
  BY <1>4 DEF OffererInv
<1>6. x.call = Null /\ x.remote = Null /\ x.signalingState = "stable"
  BY <1>4, <1>5 DEF OffererInv
<1>7. Null \notin {"createOffer", "flush"}
  BY CallsAre DEF Calls
<1>8. OffererInv(y)
  BY <1>3, <1>5, <1>6 DEF OffererInv
<1>9. CandidateInv(s, y, calm)
  BY <1>3, <1>4, <1>6, <1>7, CandidatesKept
<1> QED  BY <1>3, <1>4, <1>5, <1>8, <1>9 DEF TalkOf, y

\* What a description that is applied makes of x.
Applied(x, type, from) ==
    [x EXCEPT !.isSettingRemoteAnswerPending = type = "answer",
              !.call = IF type = "offer" THEN "setRemoteOffer" ELSE "setRemoteAnswer",
              !.from = from]

LEMMA AppliedTalk ==
    ASSUME NEW s, NEW x, NEW calm, NEW type, NEW from \in Sessions \ {s},
           DOMAIN x = Fields, TalkOf(s, x, calm)
    PROVE  /\ RoleOf[s] = "peer_a" /\ type = "answer" /\ Awaiting(x) =>
                  TalkOf(s, Applied(x, type, from), calm) /\ Applied(x, type, from).offers = 1
           /\ RoleOf[s] = "peer_b" /\ type = "offer" /\ Idle(x) =>
                  TalkOf(s, Applied(x, type, from), calm) /\ Answering(Applied(x, type, from))
<1> DEFINE y == Applied(x, type, from)
<1>1. /\ SameCandidates(x, y) /\ y.peerNegotiationStarted = x.peerNegotiationStarted
      /\ y.offers = x.offers /\ y.found = x.found /\ y.remote = x.remote
      /\ y.signalingState = x.signalingState /\ y.makingOffer = x.makingOffer
      /\ y.call = (IF type = "offer" THEN "setRemoteOffer" ELSE "setRemoteAnswer")
      /\ y.from = from
  BY FieldsAre DEF Applied, SameCandidates
<1> HIDE DEF y
<1>2. CandidateInv(s, x, calm) /\ x.found \in Nat
  BY DEF TalkOf
<1>3. Null \notin {"createOffer", "setOffer", "setRemoteOffer", "setRemoteAnswer", "flush"}
  BY CallsAre DEF Calls
<1>4. ASSUME x.call = Null, x.remote = Null
      PROVE  CandidateInv(s, y, calm)
  BY <1>1, <1>2, <1>3, <1>4, CandidatesKept
<1>5. ASSUME RoleOf[s] = "peer_a", type = "answer", Awaiting(x)
      PROVE  TalkOf(s, y, calm) /\ y.offers = 1
  <2>1. OffererInv(x)
    BY <1>5 DEF TalkOf
  <2>2. OffererInv(y)
    BY <1>1, <1>3, <1>5, <2>1 DEF OffererInv, Awaiting
  <2> QED  BY <1>1, <1>2, <1>4, <1>5, <2>2 DEF TalkOf, Awaiting
<1>6. ASSUME RoleOf[s] = "peer_b", type = "offer", Idle(x)
      PROVE  TalkOf(s, y, calm) /\ Answering(y)
  <2>1. AnswererInv(x)
    BY <1>6 DEF TalkOf
  <2>2. AnswererInv(y) /\ Answering(y)
    BY <1>1, <1>6, <2>1 DEF AnswererInv, Answering
  <2> QED  BY <1>1, <1>2, <1>4, <1>6, <2>2 DEF TalkOf, Idle
<1> QED  BY <1>5, <1>6 DEF y

\* The description at the head of a queue is one that s waits for.
LEMMA Expected ==
    ASSUME OneSessionEach, IInv, TalkInv, NEW s \in Sessions, wire[s] # <<>>
    PROVE  LET m == Head(wire[s])
           IN  /\ m \in Frame(s) /\ m.from \in Sessions \ {s}
               /\ m.type = "offer" =>
                      /\ RoleOf[s] = "peer_b" /\ Idle(session[s])
                      /\ \A a \in Sessions : RoleOf[a] = "peer_a" =>
                             Has(wire[s], "offer") /\ ~ Has(Tail(wire[s]), "offer")
               /\ m.type = "answer" =>
                      /\ RoleOf[s] = "peer_a" /\ (session[s].stopped \/ Awaiting(session[s]))
                      /\ \A b \in Sessions : RoleOf[b] = "peer_b" =>
                             /\ ~ Has(Tail(wire[s]), "answer")
                             /\ ~ Has(wire[b], "offer") /\ ~ Answering(session[b])
<1> DEFINE m == Head(wire[s])
<1>1. /\ m \in Frame(s) /\ Has(wire[s], m.type)
      /\ Single(wire[s], m.type) => ~ Has(Tail(wire[s]), m.type)
  BY TailThinner DEF TalkInv
<1> HIDE DEF m
<1>2. /\ m.from \in Sessions \ {s}
      /\ m.type = "offer" => RoleOf[s] = "peer_b"
      /\ m.type = "answer" => RoleOf[s] = "peer_a"
      /\ RoleOf[s] = "peer_a" => RoleOf[m.from] = "peer_b"
      /\ RoleOf[s] = "peer_b" => RoleOf[m.from] = "peer_a"
  BY <1>1, NegotiationAssumption DEF Frame, OneSessionEach
<1>3. ASSUME m.type = "offer"
      PROVE  /\ Idle(session[s])
             /\ \A a \in Sessions : RoleOf[a] = "peer_a" =>
                    Has(wire[s], "offer") /\ ~ Has(Tail(wire[s]), "offer")
  <2>1. Handshake(session[m.from], session[s], wire[m.from], wire[s])
    BY <1>2, <1>3 DEF TalkInv
  <2> QED  BY <1>1, <1>3, <2>1 DEF Handshake
<1>4. ASSUME m.type = "answer"
      PROVE  /\ session[s].stopped \/ Awaiting(session[s])
             /\ \A b \in Sessions : RoleOf[b] = "peer_b" =>
                    /\ ~ Has(Tail(wire[s]), "answer")
                    /\ ~ Has(wire[b], "offer") /\ ~ Answering(session[b])
  <2>1. \A b \in Sessions : RoleOf[b] = "peer_b" =>
            Handshake(session[s], session[b], wire[s], wire[b])
    BY <1>2, <1>4 DEF TalkInv
  <2>2. Handshake(session[s], session[m.from], wire[s], wire[m.from])
    BY <1>2, <1>4, <2>1
  <2> QED  BY <1>1, <1>4, <2>1, <2>2 DEF Handshake
<1> QED  BY <1>1, <1>2, <1>3, <1>4 DEF m

LEMMA JoinedReceived ==
    ASSUME OneSessionEach, IInv, TalkInv, NEW s \in Sessions, Receive(s),
           Head(wire[s]).type = "peer_joined"
    PROVE  TalkInv'
<1> DEFINE x == session[s]
           y == [x EXCEPT !.peerPresent = TRUE, !.phase = "peer_present",
                          !.disturbed = @ \/ x.timers # {}]
<1>1. TalkOf(s, x, faults = 0) /\ DOMAIN x = Fields
  BY DEF TalkInv, IInv, SessionInv, TypeInv
<1>2. /\ Set(s, maybeStartInitialNegotiation(s, y))
      /\ wire[s] # <<>> /\ wire' = [wire EXCEPT ![s] = Tail(@)]
      /\ UNCHANGED <<room, faults>>
  BY DEF Receive, Received
<1>3. Quiet(x, y) /\ DOMAIN y = Fields
  BY <1>1, FieldsAre DEF Quiet
<1> HIDE DEF y
<1>4. TalkOf(s, y, faults = 0) /\ Unmoved(x, y)
  BY <1>1, <1>3, QuietTalk, QuietUnmoved
<1>5. CASE maybeStartInitialNegotiation(s, y) = y
  BY <1>2, <1>4, <1>5, TakeUnmoved
<1>6. CASE maybeStartInitialNegotiation(s, y) # y
  <2>1. /\ RoleOf[s] = "peer_a" /\ ~ y.peerNegotiationStarted
        /\ maybeStartInitialNegotiation(s, y) = Started(y)
    BY <1>6 DEF maybeStartInitialNegotiation, Started
  <2>2. PICK z : z = Started(y)
    OBVIOUS
  <2>3. TalkOf(s, z, faults = 0) /\ x.offers = 0
    BY <1>3, <1>4, <2>1, <2>2, StartTalk DEF Unmoved
  <2>4. Thinner(wire[s], Tail(wire[s]))
    BY <1>2, TailThinner DEF TalkInv
  <2>5. \A b \in Sessions : RoleOf[s] = "peer_a" /\ RoleOf[b] = "peer_b" =>
            Handshake(z, session[b], Tail(wire[s]), wire[b])
    BY <2>3, <2>4, HandshakeBefore DEF TalkInv
  <2>6. \A a \in Sessions : RoleOf[a] = "peer_a" /\ RoleOf[s] = "peer_b" =>
            Handshake(session[a], z, wire[a], Tail(wire[s]))
    BY <2>1
  <2> QED  BY <1>2, <2>1, <2>2, <2>3, <2>5, <2>6, TakeStep
<1> QED  BY <1>5, <1>6

LEMMA DescriptionReceived ==
    ASSUME OneSessionEach, IInv, TalkInv, NEW s \in Sessions, Receive(s),
           Head(wire[s]).type \in {"offer", "answer"}, HasConnection(session[s])
    PROVE  TalkInv'
<1> DEFINE x == session[s]
           y == [x EXCEPT !.phase = "negotiating", !.disturbed = @ \/ x.timers # {}]
<1>1. TalkOf(s, x, faults = 0) /\ DOMAIN x = Fields /\ ~ x.stopped
  BY DEF TalkInv, IInv, SessionInv, TypeInv, HasConnection
<1>2. PICK m : m = Head(wire[s])
  OBVIOUS
<1>3. /\ Set(s, applySignalingDescription(y, RoleOf[s], m.type, m.from))
      /\ wire[s] # <<>> /\ wire' = [wire EXCEPT ![s] = Tail(@)]
      /\ UNCHANGED <<room, faults>>
  BY <1>2 DEF Receive, Received
<1>4. Quiet(x, y) /\ DOMAIN y = Fields
  BY <1>1, FieldsAre DEF Quiet
<1> HIDE DEF y
<1>5. TalkOf(s, y, faults = 0) /\ Unmoved(x, y)
  BY <1>1, <1>4, QuietTalk, QuietUnmoved
<1>6. PICK z : z = Applied(y, m.type, m.from)
  OBVIOUS
<1>7. /\ m.from \in Sessions \ {s}
      /\ m.type = "offer" =>
             /\ RoleOf[s] = "peer_b" /\ Idle(x)
             /\ \A a \in Sessions : RoleOf[a] = "peer_a" =>
                    Has(wire[s], "offer") /\ ~ Has(Tail(wire[s]), "offer")
      /\ m.type = "answer" =>
             /\ RoleOf[s] = "peer_a" /\ Awaiting(x)
             /\ \A b \in Sessions : RoleOf[b] = "peer_b" =>
                    /\ ~ Has(Tail(wire[s]), "answer")
                    /\ ~ Has(wire[b], "offer") /\ ~ Answering(session[b])
  BY <1>1, <1>2, <1>3, Expected
<1>8. CASE m.type = "offer"
  <2>1. Set(s, z)
    BY <1>3, <1>6, <1>7, <1>8 DEF applySignalingDescription, Applied
  <2>2. Idle(y)
    BY <1>5, <1>7, <1>8 DEF Idle, Unmoved
  <2>3. TalkOf(s, z, faults = 0) /\ Answering(z)
    BY <1>4, <1>5, <1>6, <1>7, <1>8, <2>2, AppliedTalk
  <2>4. \A a \in Sessions : RoleOf[a] = "peer_a" /\ RoleOf[s] = "peer_b" =>
            Handshake(session[a], z, wire[a], Tail(wire[s]))
    BY <1>7, <1>8, <2>3, HandshakeTaken DEF TalkInv
  <2>5. \A b \in Sessions : RoleOf[s] = "peer_a" /\ RoleOf[b] = "peer_b" =>
            Handshake(z, session[b], Tail(wire[s]), wire[b])
    BY <1>7, <1>8
  <2> QED  BY <1>3, <2>1, <2>3, <2>4, <2>5, TakeStep
<1>9. CASE m.type = "answer"
  <2>1. Set(s, z)
    BY <1>3, <1>6, <1>9 DEF applySignalingDescription, Applied, OfferCollision
  <2>2. Awaiting(y)
    BY <1>5, <1>7, <1>9 DEF Awaiting, Unmoved
  <2>3. TalkOf(s, z, faults = 0) /\ z.offers # 0
    BY <1>4, <1>5, <1>6, <1>7, <1>9, <2>2, AppliedTalk
  <2>4. \A b \in Sessions : RoleOf[s] = "peer_a" /\ RoleOf[b] = "peer_b" =>
            Handshake(z, session[b], Tail(wire[s]), wire[b])
    BY <1>7, <1>9, <2>3, HandshakeOver
  <2>5. \A a \in Sessions : RoleOf[a] = "peer_a" /\ RoleOf[s] = "peer_b" =>
            Handshake(session[a], z, wire[a], Tail(wire[s]))
    BY <1>7, <1>9
  <2> QED  BY <1>3, <2>1, <2>3, <2>4, <2>5, TakeStep
<1> QED  BY <1>2, <1>8, <1>9

LEMMA ReceiveStep ==
    ASSUME OneSessionEach, IInv, TalkInv, NEW s \in Sessions, Receive(s)
    PROVE  TalkInv'
<1> DEFINE x == session[s]
<1>1. TalkOf(s, x, faults = 0) /\ DOMAIN x = Fields
  BY DEF TalkInv, IInv, SessionInv, TypeInv
<1>2. PICK m : m = Head(wire[s])
  OBVIOUS
<1>3. /\ Set(s, Received(s, x, m))
      /\ wire[s] # <<>> /\ wire' = [wire EXCEPT ![s] = Tail(@)]
      /\ UNCHANGED <<room, faults>>
  BY <1>2 DEF Receive
<1>4. m \in Frame(s) /\ m.from \in Sessions \ {s}
  BY <1>2, <1>3, Expected
<1>5. TalkOf(s, x, faults = 0) /\ Unmoved(x, x)
  BY <1>1 DEF Unmoved
<1>6. CASE m.type = "peer_joined"
  BY <1>2, <1>6, JoinedReceived
<1>7. CASE m.type = "peer_left"
  <2>1. PICK y : y = [x EXCEPT !.peerPresent = FALSE]
    OBVIOUS
  <2>2. Quiet(x, y) /\ DOMAIN y = Fields
    BY <1>1, <2>1, FieldsAre DEF Quiet
  <2>3. PICK z : z = invalidateStatsPreflight(y)
    OBVIOUS
  <2>4. Quiet(x, z)
    BY <2>2, <2>3, InvalidateQuiet, QuietTwice
  <2>5. Set(s, z)
    BY <1>3, <1>7, <2>1, <2>3 DEF Received
  <2>6. TalkOf(s, z, faults = 0) /\ Unmoved(x, z)
    BY <1>1, <2>4, QuietTalk, QuietUnmoved
  <2> QED  BY <1>3, <2>5, <2>6, TakeUnmoved
<1>8. CASE m.type \in {"offer", "answer"}
  <2>1. CASE HasConnection(x)
    BY <1>2, <1>8, <2>1, DescriptionReceived
  <2>2. CASE ~ HasConnection(x)
    <3>1. Set(s, x)
      BY <1>3, <1>8, <2>2 DEF Received
    <3> QED  BY <1>3, <1>5, <3>1, TakeUnmoved
  <2> QED  BY <2>1, <2>2
<1>9. CASE m.type = "candidate"
  <2>1. CASE HasConnection(x)
    <3>1. PICK c : c = [from |-> m.from, number |-> m.number]
      OBVIOUS
    <3>2. c \in Candidate /\ c.from \in Sessions \ {s}
      BY <1>4, <3>1 DEF Frame, Candidate
    <3>3. PICK y : y = ReceiveCandidate(x, c)
      OBVIOUS
    <3>4. Set(s, y)
      BY <1>3, <1>9, <2>1, <3>1, <3>3 DEF Received
    <3>5. TalkOf(s, y, faults = 0) /\ Unmoved(x, y)
      BY <1>1, <3>2, <3>3, CandidateTalk
    <3> QED  BY <1>3, <3>4, <3>5, TakeUnmoved
  <2>2. CASE ~ HasConnection(x)
    <3>1. Set(s, x)
      BY <1>3, <1>9, <2>2 DEF Received
    <3> QED  BY <1>3, <1>5, <3>1, TakeUnmoved
  <2> QED  BY <2>1, <2>2
<1> QED  BY <1>4, <1>6, <1>7, <1>8, <1>9 DEF Frame

-----------------------------------------------------------------------------
(* The theorems                                                            *)

LEMMA TalkInit ==
    ASSUME Init
    PROVE  TalkInv
<1> DEFINE n == createNegotiationState
           x == With(New, n)
<1>1. /\ session = [s \in Sessions |-> x] /\ room = {} /\ faults = 0
      /\ wire = [s \in Sessions |-> <<>>]
  BY DEF Init
<1>2. /\ x.found = 0 /\ x.offers = 0 /\ x.peerNegotiationStarted = FALSE
      /\ x.signalingState = "stable" /\ x.makingOffer = FALSE /\ x.call = Null
      /\ x.remote = Null /\ x.received = {} /\ x.buffer = <<>> /\ x.cursor = 0
  BY DEF New, createNegotiationState, With
<1> HIDE DEF x
<1>3. Null \notin {"createOffer", "setOffer", "setRemoteOffer", "setRemoteAnswer",
                   "createAnswer", "setAnswer", "flush"}
  BY CallsAre DEF Calls
<1>4. ASSUME NEW s \in Sessions
      PROVE  TalkOf(s, x, TRUE)
  <2>1. Range(<<>>) = {} /\ DOMAIN <<>> = {} /\ <<>> \in Seq(Candidate)
    BY DEF Range
  <2>2. CandidateInv(s, x, TRUE)
    BY <1>2, <1>3, <2>1 DEF CandidateInv
  <2>3. OffererInv(x)
    BY <1>2, <1>3 DEF OffererInv
  <2>4. AnswererInv(x)
    BY <1>2 DEF AnswererInv
  <2>5. x.found \in Nat
    BY <1>2
  <2> QED  BY ONLY <2>2, <2>3, <2>4, <2>5 DEF TalkOf
<1>5. Handshake(x, x, <<>>, <<>>)
  BY <1>2, EmptyThinner, IdleNeverAnswers DEF Handshake, Idle
<1>6. \A s \in Sessions : session[s] = x /\ wire[s] = <<>> /\ wire[s] \in Seq(Frame(s))
  <2>1. \A T : <<>> \in Seq(T)
    OBVIOUS
  <2> QED  BY <1>1, <2>1
<1>7. \A s \in Sessions : TalkOf(s, session[s], faults = 0)
  BY <1>1, <1>4, <1>6 DEF TalkOf, CandidateInv
<1>8. \A a, b \in Sessions : Handshake(session[a], session[b], wire[a], wire[b])
  BY <1>5, <1>6
<1> QED  BY <1>1, <1>6, <1>7, <1>8 DEF TalkInv

LEMMA TalkNext ==
    ASSUME OneSessionEach, IInv, TalkInv, [Next]_vars
    PROVE  TalkInv'
<1>1. CASE UNCHANGED vars
  BY <1>1 DEF vars, TalkInv
<1>2. ASSUME NEW s \in Sessions,
             \/ User(s) \/ Progresses(s)
             \/ StreamArrives(s) \/ SecondStreamArrives(s) \/ TrackSwapped(s)
             \/ TrackReplaced(s) \/ ClientLoaded(s)
             \/ Join(s) \/ Leave(s)
             \/ CallRejects(s) \/ ConnectionGoes(s) \/ ChannelCloses(s)
             \/ ObservationEnds(s)
             \/ \E k \in 1 .. MaxObservations[s] :
                    SamplerAsks(s, k) \/ SamplerAnswers(s, k) \/ SamplerExpires(s, k)
      PROVE  TalkInv'
  <2>1. CASE \/ EnableMicrophone(s) \/ EnableAgain(s) \/ Connect(s) \/ StartObservation(s)
             \/ StreamArrives(s) \/ SecondStreamArrives(s) \/ TrackSwapped(s)
             \/ TrackReplaced(s) \/ ClientLoaded(s)
    BY <2>1, UserQuiet
  <2>2. CASE Stop(s)
    BY <2>2, StopStep
  <2>3. CASE CallResolves(s)
    BY <2>3, ResolvesStep
  <2>4. CASE CallRejects(s)
    BY <2>4, RejectsStep
  <2>5. CASE Receive(s)
    BY <2>5, ReceiveStep
  <2>6. CASE FindsCandidate(s)
    BY <2>6, FindsInv
  <2>7. CASE \/ ConnectionComes(s) \/ ConnectionGoes(s)
             \/ ChannelOpens(s) \/ ChannelCloses(s) \/ ProbeCompletes(s)
             \/ PreflightSettles(s)
    BY <2>7, ConnectionQuiet
  <2>8. CASE Join(s)
    BY <2>8, JoinInv
  <2>9. CASE Leave(s)
    BY <2>9, LeaveInv
  <2>10. CASE \/ ObservationEnds(s)
              \/ \E k \in 1 .. MaxObservations[s] :
                     SamplerAsks(s, k) \/ SamplerAnswers(s, k) \/ SamplerExpires(s, k)
    BY <2>10, SamplingQuiet
  <2> QED  BY <1>2, <2>1, <2>2, <2>3, <2>4, <2>5, <2>6, <2>7, <2>8, <2>9, <2>10
              DEF User, Progresses
<1> QED  BY <1>1, <1>2 DEF Next

\* However the calls of the two sessions settle and fail, wherever a stop comes
\* between: there is one offer, and an answer only where it is awaited.
THEOREM TalkInvariance ==
    ASSUME OneSessionEach
    PROVE  Spec => []TalkInv
<1>1. Init => TalkInv
  BY TalkInit
<1>2. IInv /\ TalkInv /\ [Next]_vars => TalkInv'
  BY TalkNext
<1> QED  BY <1>1, <1>2, Invariance, PTL DEF Spec

\* No description comes while another call of the negotiation waits, although
\* the client does not await handleSignaling; nobody offers twice, or has to
\* ignore an offer.
THEOREM NoOverlap ==
    ASSUME OneSessionEach
    PROVE  Spec => []NegotiationsNeverOverlap
<1>1. IInv /\ TalkInv => NegotiationsNeverOverlap
  <2> SUFFICES ASSUME IInv, TalkInv, NEW s \in Sessions
               PROVE  /\ session[s].offers <= 1
                      /\ (/\ HasConnection(session[s]) /\ session[s].socket = "joined"
                          /\ wire[s] # <<>> /\ Head(wire[s]).type \in {"offer", "answer"})
                         => /\ session[s].call = Null
                            /\ ~ OfferCollision(session[s], Head(wire[s]).type)
    BY DEF NegotiationsNeverOverlap
  <2>1. TalkOf(s, session[s], faults = 0) /\ RoleOf[s] \in {"peer_a", "peer_b"}
    BY NegotiationAssumption DEF TalkInv
  <2>2. session[s].offers <= 1
    BY <2>1 DEF TalkOf, OffererInv, AnswererInv
  <2>3. ASSUME HasConnection(session[s]), wire[s] # <<>>, Head(wire[s]).type = "offer"
        PROVE  session[s].call = Null /\ ~ OfferCollision(session[s], "offer")
    <3>1. RoleOf[s] = "peer_b" /\ Idle(session[s])
      BY <2>3, Expected
    <3>2. ~ session[s].makingOffer
      BY <2>1, <3>1 DEF TalkOf, AnswererInv
    <3> QED  BY <3>1, <3>2 DEF Idle, OfferCollision
  <2>4. ASSUME HasConnection(session[s]), wire[s] # <<>>, Head(wire[s]).type = "answer"
        PROVE  session[s].call = Null /\ ~ OfferCollision(session[s], "answer")
    <3>1. Awaiting(session[s])
      BY <2>4, Expected DEF HasConnection
    <3> QED  BY <3>1 DEF Awaiting, OfferCollision
  <2> QED  BY <2>2, <2>3, <2>4
<1> QED  BY <1>1, Invariance, TalkInvariance, PTL

\* A candidate that came before its description is kept, and given to the
\* connection once the description is applied, unless a call failed.
THEOREM CandidatesCorrect ==
    ASSUME OneSessionEach
    PROVE  Spec => []CandidatesAreKept
<1>1. TalkInv => CandidatesAreKept
  <2> SUFFICES ASSUME TalkInv, NEW s \in Sessions, NEW c \in session[s].received
               PROVE  /\ \/ c \in session[s].added \cup Range(session[s].buffer)
                         \/ session[s].remote # Null /\ c.from # session[s].remote
                      /\ (/\ c.from = session[s].remote /\ session[s].call = Null
                          /\ faults = 0) => c \in session[s].added
    BY DEF CandidatesAreKept
  <2>1. CandidateInv(s, session[s], faults = 0)
    BY DEF TalkInv, TalkOf
  <2>2. c \in session[s].added \cup Range(session[s].buffer)
    BY <2>1 DEF CandidateInv
  <2>3. ASSUME c.from = session[s].remote, session[s].call = Null, faults = 0
        PROVE  c \in session[s].added
    <3>1. session[s].remote # Null
      BY <2>1, <2>3, CallsAre DEF CandidateInv
    <3>2. session[s].buffer = <<>>
      BY <2>1, <2>3, <3>1 DEF CandidateInv
    <3> QED  BY <2>2, <3>2 DEF Range
  <2> QED  BY <2>2, <2>3
<1> QED  BY <1>1, TalkInvariance, PTL

-----------------------------------------------------------------------------
(* A second microphone                                                     *)

\* A second click on Enable Microphone is counted among the faults.
AgainInv == \A s \in Sessions : session[s].again = "none" \/ faults > 0

LEMMA AgainSet ==
    ASSUME IInv, TalkInv, AgainInv, NEW s \in Sessions, NEW y, Set(s, y),
           y.again = session[s].again, faults' = faults \/ faults' = faults + 1
    PROVE  AgainInv'
<1>1. \A t \in Sessions : session'[t].again = session[t].again
  BY DEF IInv, Set
<1>2. faults > 0 => faults' > 0
  BY DEF TalkInv
<1> QED  BY <1>1, <1>2 DEF AgainInv

LEMMA EvaluateAgain ==
    ASSUME NEW x, DOMAIN x = Fields
    PROVE  /\ evaluateReadyToObserve(x).again = x.again
           /\ invalidateStatsPreflight(x).again = x.again
<1>1. ASSUME NEW y, DOMAIN y = Fields
      PROVE  evaluateReadyToObserve(y).again = y.again
  <2>1. PICK z : z = ensureStatsPreflight(y)
    OBVIOUS
  <2>2. DOMAIN z = Fields /\ z.again = y.again
    BY <1>1, <2>1, FieldsAre DEF ensureStatsPreflight
  <2>3. [z EXCEPT !.phase = "ready_to_observe"].again = z.again
    BY <2>2, FieldsAre
  <2> QED  BY <2>1, <2>2, <2>3 DEF evaluateReadyToObserve
<1>2. PICK y : y = [x EXCEPT !.preflight = IF @ = "none" THEN @ ELSE "cancelled"]
  OBVIOUS
<1>3. DOMAIN y = Fields /\ y.again = x.again
  BY <1>2, FieldsAre
<1> QED  BY <1>1, <1>2, <1>3 DEF invalidateStatsPreflight

LEMMA StopAgain ==
    ASSUME NEW x, DOMAIN x = Fields
    PROVE  stop(x).again = x.again
<1>1. PICK y : y = [x EXCEPT !.stopped = TRUE, !.phase = "stopped",
             !.cut = Uncancelled(x),
             !.mic = StopTracks(@),
             !.preflight = "none", !.clock = "none",
             !.samplers = @ \ {x.started},
             !.channel = IF @ = "none" THEN @ ELSE "closed",
             !.connection = "closed",
             !.socket = IF @ \in {"connecting", "joined"} THEN "closed" ELSE @]
  OBVIOUS
<1>2. DOMAIN y = Fields /\ y.again = x.again
  BY <1>1, FieldsAre
<1>3. /\ "again" \notin DOMAIN createNegotiationState
      /\ "again" \in Fields
  BY FieldsAre DEF createNegotiationState
<1>4. With(y, createNegotiationState).again = y.again
  BY <1>2, <1>3 DEF With
<1> QED  BY <1>1, <1>2, <1>4 DEF stop

LEMMA ReceivedAgain ==
    ASSUME NEW s, NEW x, NEW m, SessionInv(x)
    PROVE  Received(s, x, m).again = x.again
<1>1. DOMAIN x = Fields
  BY DEF SessionInv, TypeInv
<1>2. CASE m.type = "peer_joined"
  <2>1. PICK y : y = [x EXCEPT !.peerPresent = TRUE, !.phase = "peer_present",
                               !.disturbed = @ \/ x.timers # {}]
    OBVIOUS
  <2>2. DOMAIN y = Fields /\ y.again = x.again
    BY <1>1, <2>1, FieldsAre
  <2>3. PICK z : z = [y EXCEPT !.peerNegotiationStarted = TRUE, !.phase = "negotiating"]
    OBVIOUS
  <2>4. createAndSendOffer(z).again = x.again
    BY <2>2, <2>3, FieldsAre DEF createAndSendOffer
  <2> QED  BY <1>2, <2>1, <2>2, <2>3, <2>4 DEF Received, maybeStartInitialNegotiation
<1>3. CASE m.type = "peer_left"
  <2>1. PICK y : y = [x EXCEPT !.peerPresent = FALSE]
    OBVIOUS
  <2>2. DOMAIN y = Fields /\ y.again = x.again
    BY <1>1, <2>1, FieldsAre
  <2> QED  BY <1>3, <2>1, <2>2, EvaluateAgain DEF Received
<1>4. CASE m.type \in {"offer", "answer"}
  <2>1. PICK y : y = [x EXCEPT !.phase = "negotiating",
                               !.disturbed = @ \/ x.timers # {}]
    OBVIOUS
  <2>2. DOMAIN y = Fields /\ y.again = x.again
    BY <1>1, <2>1, FieldsAre
  <2>3. applySignalingDescription(y, RoleOf[s], m.type, m.from).again = y.again
    BY <2>2, FieldsAre DEF applySignalingDescription
  <2> QED  BY <1>4, <2>1, <2>2, <2>3 DEF Received
<1>5. CASE m.type \notin {"peer_joined", "peer_left", "offer", "answer"}
  <2>1. ReceiveCandidate(x, [from |-> m.from, number |-> m.number]).again = x.again
    BY CandidateKeeps DEF SessionInv, Kept, Alike
  <2> QED  BY <1>5, <2>1 DEF Received
<1> QED  BY <1>2, <1>3, <1>4, <1>5

LEMMA AgainCalls ==
    ASSUME IInv, TalkInv, AgainInv, NEW s \in Sessions,
           CallResolves(s) \/ CallRejects(s)
    PROVE  AgainInv'
<1> DEFINE x == session[s]
<1>1. x.call \in Calls /\ SessionInv(x)
  BY DEF IInv, CallResolves, Resolves, CallRejects, Calls
<1>2. TypeInv(x) /\ ~ x.stopped
  BY <1>1, CallsAre DEF SessionInv, StopInv
<1>3. DOMAIN x = Fields
  BY <1>2 DEF TypeInv
<1>4. /\ OfferCreated(x).again = x.again /\ OfferSet(x).again = x.again
      /\ OfferFails(x).again = x.again /\ RemoteOfferSet(x).again = x.again
      /\ AnswerCreated(x).again = x.again /\ AnswerSet(x).again = x.again
      /\ RemoteAnswerSet(x).again = x.again /\ DescriptionFails(x).again = x.again
      /\ flush(x).again = x.again
      /\ DOMAIN OfferSet(x) = Fields /\ DOMAIN OfferFails(x) = Fields
  BY <1>2, <1>3, CallsKeep, FlushKeeps DEF Kept, Alike
<1>5. [OfferSet(x) EXCEPT !.offers = @ + 1].again = x.again
  BY <1>4, FieldsAre
<1>6. [OfferFails(x) EXCEPT !.peerNegotiationStarted = FALSE,
                            !.phase = IF x.peerPresent THEN "peer_present" ELSE @,
                            !.disturbed = @ \/ x.timers # {}].again = x.again
  BY <1>4, FieldsAre
<1>7. CASE CallResolves(s)
  <2>1. PICK y : Set(s, y) /\ y.again = x.again
    BY <1>4, <1>5, <1>7 DEF CallResolves, Resolves
  <2> QED  BY <1>7, <2>1, AgainSet DEF CallResolves
<1>8. CASE CallRejects(s)
  <2>1. PICK y : Set(s, y) /\ y.again = x.again
    BY <1>4, <1>6, <1>8 DEF CallRejects
  <2> QED  BY <1>8, <2>1, AgainSet DEF CallRejects
<1> QED  BY <1>7, <1>8

\* The user, promises, frames and the server.
LEMMA AgainUser ==
    ASSUME IInv, TalkInv, AgainInv, NEW s \in Sessions,
           \/ User(s) \/ StreamArrives(s) \/ SecondStreamArrives(s) \/ TrackSwapped(s)
           \/ TrackReplaced(s) \/ ClientLoaded(s) \/ Join(s) \/ Leave(s)
           \/ Receive(s) \/ FindsCandidate(s)
    PROVE  AgainInv'
<1> DEFINE x == session[s]
<1>1. DOMAIN x = Fields /\ SessionInv(x)
  BY DEF IInv, SessionInv, TypeInv
<1>2. CASE EnableAgain(s)
  BY <1>2 DEF EnableAgain, AgainInv, TalkInv
<1>3. CASE SecondStreamArrives(s) \/ TrackSwapped(s)
  <2>1. faults > 0
    BY <1>3 DEF SecondStreamArrives, TrackSwapped, AgainInv
  <2> QED  BY <1>3, <2>1 DEF SecondStreamArrives, TrackSwapped, AgainInv
<1>4. CASE Stop(s)
  <2>1. PICK y : y = stop(x)
    OBVIOUS
  <2> QED  BY <1>1, <1>4, <2>1, StopAgain, AgainSet DEF Stop
<1>5. CASE Receive(s)
  <2>1. PICK y : y = Received(s, x, Head(wire[s]))
    OBVIOUS
  <2> QED  BY <1>1, <1>5, <2>1, ReceivedAgain, AgainSet DEF Receive
<1>6. CASE Leave(s)
  BY <1>6 DEF Leave, AgainInv
<1>7. CASE \/ EnableMicrophone(s) \/ Connect(s) \/ StartObservation(s)
           \/ StreamArrives(s) \/ TrackReplaced(s) \/ ClientLoaded(s)
  <2>1. PICK y : Set(s, y) /\ y.again = x.again
    <3>1. CASE EnableMicrophone(s)
      <4>1. [x EXCEPT !.mic = "asking"].again = x.again
        BY <1>1, FieldsAre
      <4> QED  BY <3>1, <4>1 DEF EnableMicrophone
    <3>2. CASE Connect(s)
      <4>1. [x EXCEPT !.phase = "signaling_connecting", !.step = "replacing"].again = x.again
        BY <1>1, FieldsAre
      <4> QED  BY <3>2, <4>1 DEF Connect
    <3>3. CASE StartObservation(s)
      <4> DEFINE k == x.started + 1
      <4>1. [x EXCEPT !.phase = "observing", !.started = k, !.clock = "probing",
                      !.timers = @ \cup {k}, !.samplers = @ \cup {k},
                      !.statsSamples = {}].again = x.again
        BY <1>1, FieldsAre
      <4> QED  BY <3>3, <4>1 DEF StartObservation
    <3>4. CASE StreamArrives(s)
      <4>1. [x EXCEPT !.mic = "live", !.phase = "microphone_ready"].again = x.again
        BY <1>1, FieldsAre
      <4> QED  BY <3>4, <4>1 DEF StreamArrives
    <3>5. CASE TrackReplaced(s)
      <4>1. PICK y : y = IF x.stopped THEN [x EXCEPT !.step = "failed"]
                         ELSE [x EXCEPT !.step = "importing",
                                  !.channel = IF RoleOf[s] = "peer_a" THEN "connecting" ELSE @]
        OBVIOUS
      <4>2. y.again = x.again
        BY <1>1, <4>1, FieldsAre
      <4> QED  BY <3>5, <4>1, <4>2 DEF TrackReplaced
    <3>6. CASE ClientLoaded(s)
      <4>1. [x EXCEPT !.step = "done", !.socket = "connecting"].again = x.again
        BY <1>1, FieldsAre
      <4> QED  BY <3>6, <4>1 DEF ClientLoaded
    <3> QED  BY <1>7, <3>1, <3>2, <3>3, <3>4, <3>5, <3>6
  <2>2. faults' = faults
    BY <1>7 DEF EnableMicrophone, Connect, StartObservation, StreamArrives,
                TrackReplaced, ClientLoaded
  <2> QED  BY <2>1, <2>2, AgainSet
<1>8. CASE Join(s) \/ FindsCandidate(s)
  <2>1. PICK y : Set(s, y) /\ y.again = x.again
    BY <1>1, <1>8, FieldsAre DEF Join, FindsCandidate
  <2>2. faults' = faults
    BY <1>8 DEF Join, FindsCandidate
  <2> QED  BY <2>1, <2>2, AgainSet
<1> QED  BY <1>2, <1>3, <1>4, <1>5, <1>6, <1>7, <1>8 DEF User

\* Observations, and events of the connection.
LEMMA AgainConnection ==
    ASSUME IInv, TalkInv, AgainInv, NEW s \in Sessions,
           \/ ConnectionComes(s) \/ ConnectionGoes(s)
           \/ ChannelOpens(s) \/ ChannelCloses(s) \/ ProbeCompletes(s)
           \/ PreflightSettles(s) \/ ObservationEnds(s)
           \/ \E k \in 1 .. MaxObservations[s] :
                  SamplerAsks(s, k) \/ SamplerAnswers(s, k) \/ SamplerExpires(s, k)
    PROVE  AgainInv'
<1> DEFINE x == session[s]
<1>1. DOMAIN x = Fields
  BY DEF IInv, SessionInv, TypeInv
<1>2. ASSUME NEW y, DOMAIN y = Fields, y.again = x.again,
             \/ Set(s, evaluateReadyToObserve(y))
             \/ Set(s, invalidateStatsPreflight(y)),
             faults' = faults \/ faults' = faults + 1
      PROVE  AgainInv'
  <2>1. PICK z : z.again = x.again /\ Set(s, z)
    BY <1>2, EvaluateAgain
  <2> QED  BY <1>2, <2>1, AgainSet
<1>3. CASE ConnectionComes(s)
  <2>1. PICK y : y = [x EXCEPT !.connection = "connected", !.phase = "connected",
                               !.disturbed = @ \/ x.timers # {}]
    OBVIOUS
  <2>2. DOMAIN y = Fields /\ y.again = x.again
    BY <1>1, <2>1, FieldsAre
  <2> QED  BY <1>2, <1>3, <2>1, <2>2 DEF ConnectionComes
<1>4. CASE ConnectionGoes(s)
  <2>1. PICK y : y = [x EXCEPT !.connection = "disconnected"]
    OBVIOUS
  <2>2. DOMAIN y = Fields /\ y.again = x.again
    BY <1>1, <2>1, FieldsAre
  <2> QED  BY <1>2, <1>4, <2>1, <2>2 DEF ConnectionGoes
<1>5. CASE ChannelOpens(s)
  <2>1. PICK y : y = [x EXCEPT !.channel = "open", !.clock = "probing"]
    OBVIOUS
  <2>2. y.again = x.again
    BY <1>1, <2>1, FieldsAre
  <2> QED  BY <1>5, <2>1, <2>2, AgainSet DEF ChannelOpens
<1>6. CASE ChannelCloses(s)
  <2>1. PICK y : y = [x EXCEPT !.channel = "closed"]
    OBVIOUS
  <2>2. DOMAIN y = Fields /\ y.again = x.again
    BY <1>1, <2>1, FieldsAre
  <2> QED  BY <1>2, <1>6, <2>1, <2>2 DEF ChannelCloses
<1>7. CASE ProbeCompletes(s)
  <2>1. PICK y : y = [x EXCEPT !.clock = "ok"]
    OBVIOUS
  <2>2. DOMAIN y = Fields /\ y.again = x.again
    BY <1>1, <2>1, FieldsAre
  <2> QED  BY <1>2, <1>7, <2>1, <2>2 DEF ProbeCompletes, ProbeCompleted
<1>8. CASE PreflightSettles(s)
  <2>1. PICK y, z : /\ y = [x EXCEPT !.preflight = "available"]
                    /\ z = [x EXCEPT !.preflight = "exhausted"]
    OBVIOUS
  <2>2. /\ DOMAIN y = Fields /\ y.again = x.again
        /\ DOMAIN z = Fields /\ z.again = x.again
    BY <1>1, <2>1, FieldsAre
  <2>3. Set(s, evaluateReadyToObserve(y)) \/ Set(s, evaluateReadyToObserve(z))
    BY <1>8, <2>1 DEF PreflightSettles
  <2> QED  BY <1>2, <1>8, <2>2, <2>3 DEF PreflightSettles
<1>9. CASE \/ ObservationEnds(s)
           \/ \E k \in 1 .. MaxObservations[s] :
                  SamplerAsks(s, k) \/ SamplerAnswers(s, k) \/ SamplerExpires(s, k)
  <2>1. PICK y : Set(s, y) /\ y.again = x.again
    <3>1. ASSUME NEW k
          PROVE  /\ [x EXCEPT !.timers = @ \ {k}, !.samplers = @ \ {x.started},
                              !.phase = "completed"].again = x.again
                 /\ [x EXCEPT !.asking = @ \cup {k}].again = x.again
                 /\ [x EXCEPT !.asking = @ \ {k},
                       !.statsSamples = IF Taken(x, k) THEN @ \cup {k} ELSE @].again = x.again
                 /\ [x EXCEPT !.samplers = @ \ {k}].again = x.again
      BY <1>1, FieldsAre
    <3>2. CASE ObservationEnds(s)
      BY <3>1, <3>2 DEF ObservationEnds
    <3>3. ASSUME NEW k, SamplerAsks(s, k)
          PROVE  \E y : Set(s, y) /\ y.again = x.again
      BY <3>1, <3>3 DEF SamplerAsks
    <3>4. ASSUME NEW k, SamplerAnswers(s, k)
          PROVE  \E y : Set(s, y) /\ y.again = x.again
      BY <3>1, <3>4 DEF SamplerAnswers
    <3>5. ASSUME NEW k, SamplerExpires(s, k)
          PROVE  \E y : Set(s, y) /\ y.again = x.again
      BY <3>1, <3>5 DEF SamplerExpires
    <3> QED  BY <1>9, <3>2, <3>3, <3>4, <3>5
  <2>2. faults' = faults
    BY <1>9 DEF ObservationEnds, SamplerAsks, SamplerAnswers, SamplerExpires
  <2> QED  BY <2>1, <2>2, AgainSet
<1> QED  BY <1>3, <1>4, <1>5, <1>6, <1>7, <1>8, <1>9

LEMMA AgainNext ==
    ASSUME IInv, TalkInv, AgainInv, [Next]_vars
    PROVE  AgainInv'
<1>1. CASE UNCHANGED vars
  BY <1>1 DEF vars, AgainInv
<1>2. CASE Next
  BY <1>2, AgainCalls, AgainUser, AgainConnection DEF Next, Progresses
<1> QED  BY <1>1, <1>2

\* As long as nothing is counted nobody clicked twice.
LEMMA AgainNever ==
    ASSUME TalkInv, AgainInv, faults' = 0, NEW s \in Sessions
    PROVE  ~ (EnableAgain(s) \/ SecondStreamArrives(s) \/ TrackSwapped(s))
BY DEF TalkInv, AgainInv, EnableAgain, SecondStreamArrives, TrackSwapped

LEMMA AgainInvariance ==
    ASSUME OneSessionEach
    PROVE  Spec => []AgainInv
<1>1. Init => AgainInv
  <2>1. With(New, createNegotiationState).again = "none"
    BY DEF New, createNegotiationState, With
  <2> QED  BY <2>1 DEF Init, AgainInv
<1>2. IInv /\ TalkInv /\ AgainInv /\ [Next]_vars => AgainInv'
  BY AgainNext
<1> QED  BY <1>1, <1>2, Invariance, TalkInvariance, PTL DEF Spec

-----------------------------------------------------------------------------
(* Setup never stalls                                                      *)

\* A step of Progresses(s) has its guard.
CanProgress(s) ==
    LET x == session[s]
    IN  \/ x.call # Null
        \/ x.socket = "joined" /\ wire[s] # <<>>
        \/ /\ HasConnection(x)
           /\ x.offers > 0 \/ (x.remote # Null /\ x.signalingState = "stable")
           /\ x.found < MaxCandidates[s]
        \/ x.preflight = "probing"
        \/ /\ Linked(s)
           /\ \/ x.connection \in {"new", "disconnected"}
              \/ x.connection = "connected" /\ x.channel \in {"none", "connecting"}
              \/ /\ x.channel = "open" /\ session[x.remote].channel = "open"
                 /\ x.clock = "probing"

ReadyPhases == {"ready_to_observe", "observing", "completed"}

Calm == faults = 0 /\ \A s \in Sessions : ~ session[s].stopped

\* As long as nothing fails and nobody stops, two peers in the room are ready
\* to observe or there is something left that one of them does by itself: no
\* frame, description, candidate or verdict is waited for that never comes.
SetupNeverStalls ==
    \A s, t \in Sessions :
        s # t /\ {s, t} \subseteq room /\ Calm =>
            session[s].phase \in ReadyPhases \/ CanProgress(s) \/ CanProgress(t)

\* The path of x: each part was followed by an evaluation of the whole.
PathInv(x) ==
    /\ x.mic = "live" \/ (x.phase = "prepared" /\ x.step = "idle" /\ x.timers = {})
    /\ x.phase = "microphone_ready" => x.step = "idle"
    /\ x.socket = "none" \/ x.step = "done"
    /\ x.connection \in {"new", "connected"}
    /\ x.channel \in {"none", "connecting", "open"}
    /\ x.preflight \in {"none", "probing", "available"}
    /\ x.connection = "new" => x.channel # "open"
    /\ x.channel # "open" => x.clock = "none" /\ x.preflight = "none"
    /\ x.channel = "open" => x.clock \in {"probing", "ok"}
    /\ x.clock = "ok" => x.preflight # "none"
    /\ x.clock = "ok" /\ x.preflight = "available" => x.phase \in ReadyPhases

\* How far x is in its negotiation.
StageInv(s, x) ==
    /\ x.peerPresent => x.step = "done"
    /\ x.remote # Null \/ x.call # Null => x.peerPresent
    /\ x.isSettingRemoteAnswerPending => x.call = "setRemoteAnswer"
    /\ x.call \in {"setRemoteOffer", "setRemoteAnswer"} => x.remote = Null
    /\ x.connection = "connected" => x.remote # Null /\ x.signalingState = "stable"
    /\ RoleOf[s] = "peer_a" =>
          /\ x.peerPresent => x.peerNegotiationStarted
          /\ x.peerNegotiationStarted => x.peerPresent
          /\ x.peerNegotiationStarted => x.makingOffer \/ x.offers = 1
          /\ x.remote # Null => x.signalingState = "stable"
    /\ RoleOf[s] = "peer_b" /\ x.signalingState # "stable" =>
          x.remote # Null /\ x.call \in {"createAnswer", "setAnswer"}

JoinedFirst(q) == \A i \in DOMAIN q : q[i].type = "peer_joined" => i = 1

\* s is told of the other before anything the other relays: q are the frames
\* on their way to it, and members who is in the room.
WireInv(s, x, q, members) ==
    /\ s \in members => x.socket = "joined"
    /\ x.socket = "joined" => s \in members
    /\ ~ Has(q, "peer_left")
    /\ JoinedFirst(q)
    /\ Has(q, "peer_joined") => ~ x.peerPresent
    /\ IF s \in members /\ \E t \in members : t # s
       THEN x.peerPresent \/ Has(q, "peer_joined")
       ELSE q = <<>> /\ ~ x.peerPresent

\* The offer of x, the answer of y and the candidates of both are not lost.
Delivered(x, y, toX, toY) ==
    /\ x.offers = 1 => Has(toY, "offer") \/ y.call = "setRemoteOffer" \/ y.remote # Null
    /\ y.remote # Null /\ y.signalingState = "stable" =>
          Has(toX, "answer") \/ x.call = "setRemoteAnswer" \/ x.remote # Null
    /\ x.found > 0 => Has(toY, "candidate") \/ y.received # {}
    /\ y.found > 0 => Has(toX, "candidate") \/ x.received # {}

SetupOf(s, x, q, members) == PathInv(x) /\ StageInv(s, x) /\ WireInv(s, x, q, members)

SetupInv ==
    Calm =>
        /\ \A s \in Sessions : SetupOf(s, session[s], wire[s], room)
        /\ \A a, b \in Sessions :
              RoleOf[a] = "peer_a" /\ RoleOf[b] = "peer_b" =>
                  Delivered(session[a], session[b], wire[a], wire[b])

-----------------------------------------------------------------------------
(* Queues and records in a setup                                           *)

LEMMA EmptyHas == \A type : ~ Has(<<>>, type)
BY DEF Has

LEMMA AppendHas ==
    ASSUME NEW T, NEW q \in Seq(T), NEW m \in T
    PROVE  /\ \A type : /\ Has(q, type) => Has(Append(q, m), type)
                        /\ Has(Append(q, m), type) => Has(q, type) \/ m.type = type
           /\ Has(Append(q, m), m.type)
           /\ JoinedFirst(q) /\ (m.type = "peer_joined" => q = <<>>)
                => JoinedFirst(Append(q, m))
<1> DEFINE r == Append(q, m)
           n == Len(q) + 1
<1>1. /\ Len(r) = n /\ r[n] = m /\ r \in Seq(T)
      /\ \A i \in 1..Len(q) : r[i] = q[i]
  BY AppendProperties
<1>2. /\ DOMAIN q = 1..Len(q) /\ Len(q) \in Nat
      /\ DOMAIN r = DOMAIN q \cup {n} /\ n \in DOMAIN r
  BY <1>1
<1>3. q = <<>> => n = 1
  OBVIOUS
<1> HIDE DEF r, n
<1>4. \A i \in DOMAIN q : i \in DOMAIN r /\ r[i] = q[i]
  BY <1>1, <1>2
<1>5. \A i \in DOMAIN r : i \in DOMAIN q \/ (i = n /\ r[i] = m)
  BY <1>1, <1>2
<1> QED  BY <1>1, <1>2, <1>3, <1>4, <1>5 DEF Has, JoinedFirst, r

LEMMA TailHas ==
    ASSUME NEW T, NEW q \in Seq(T), q # <<>>
    PROVE  /\ \A type : /\ Has(q, type) => Has(Tail(q), type) \/ Head(q).type = type
                        /\ Has(Tail(q), type) => Has(q, type)
           /\ JoinedFirst(q) => /\ ~ Has(Tail(q), "peer_joined")
                                /\ JoinedFirst(Tail(q))
                                /\ Has(q, "peer_joined") => Head(q).type = "peer_joined"
<1> DEFINE r == Tail(q)
<1>1. /\ r \in Seq(T) /\ Len(r) = Len(q) - 1
      /\ \A i \in 1..Len(r) : r[i] = q[i + 1]
  BY HeadTailProperties
<1>2. DOMAIN q = 1..Len(q) /\ Len(q) \in Nat \ {0}
  BY EmptySeq
<1>3. DOMAIN r = 1..(Len(q) - 1) /\ Head(q) = q[1]
  BY <1>1
<1> HIDE DEF r
<1>4. \A i \in DOMAIN r : i + 1 \in DOMAIN q /\ r[i] = q[i + 1] /\ i + 1 # 1
  BY <1>1, <1>2, <1>3
<1>5. \A i \in DOMAIN q : i = 1 \/ (i - 1 \in DOMAIN r /\ q[i] = r[i - 1])
  BY <1>1, <1>2, <1>3
<1> QED  BY <1>3, <1>4, <1>5 DEF Has, JoinedFirst, r

\* y differs from x in the negotiation and in what the setup does not read.
SamePath(x, y) ==
    /\ DOMAIN y = DOMAIN x
    /\ y.stopped = x.stopped /\ y.phase = x.phase /\ y.mic = x.mic
    /\ y.step = x.step /\ y.timers = x.timers /\ y.socket = x.socket
    /\ y.connection = x.connection /\ y.channel = x.channel
    /\ y.preflight = x.preflight /\ y.clock = x.clock
    /\ y.peerPresent = x.peerPresent
    /\ y.peerNegotiationStarted = x.peerNegotiationStarted
    /\ y.found = x.found

LEMMA PathKept ==
    ASSUME NEW x, NEW y, PathInv(x), SamePath(x, y)
    PROVE  PathInv(y)
BY DEF PathInv, SamePath

\* What one session does the other does not see: it moves on, and loses nothing.
Forward(x, y) ==
    /\ y.offers = x.offers /\ y.found = x.found
    /\ x.received \subseteq y.received
    /\ x.remote # Null => y.remote # Null
    /\ x.call \in {"setRemoteOffer", "setRemoteAnswer"} => y.call = x.call \/ y.remote # Null

Answered(y) == y.remote # Null /\ y.signalingState = "stable"

Lossless(q, r) ==
    \A type \in {"offer", "answer", "candidate"} : Has(q, type) => Has(r, type)

LEMMA DeliveredKept ==
    ASSUME NEW x, NEW y, NEW x2, NEW y2, NEW toX, NEW toY, NEW toX2, NEW toY2,
           Delivered(x, y, toX, toY), Forward(x, x2), Forward(y, y2),
           Answered(y2) => Answered(y), Lossless(toX, toX2), Lossless(toY, toY2)
    PROVE  Delivered(x2, y2, toX2, toY2)
BY DEF Delivered, Forward, Answered, Lossless

LEMMA NothingMoves ==
    ASSUME NEW x, NEW q
    PROVE  Forward(x, x) /\ Lossless(q, q)
BY DEF Forward, Lossless

\* y differs from x in nothing that StageInv, WireInv and Delivered read, but
\* connect may have gone on and the connection have come.
Still(x, y) ==
    /\ Quiet(x, y) /\ y.found = x.found
    /\ y.isSettingRemoteAnswerPending = x.isSettingRemoteAnswerPending
    /\ y.peerPresent = x.peerPresent
    /\ y.socket = "joined" => x.socket = "joined"
    /\ x.socket = "joined" => y.socket = "joined"
    /\ x.step = "done" => y.step = "done"
    /\ y.connection = "connected" => x.connection = "connected" \/ Answered(x)

LEMMA StillOf ==
    ASSUME NEW s, NEW x, NEW y, NEW q, NEW members,
           SetupOf(s, x, q, members), Still(x, y), PathInv(y)
    PROVE  /\ SetupOf(s, y, q, members)
           /\ Forward(x, y) /\ (Answered(y) => Answered(x))
<1>1. StageInv(s, y)
  BY DEF SetupOf, StageInv, Still, Quiet, Answered
<1>2. WireInv(s, y, q, members)
  BY DEF SetupOf, WireInv, Still
<1>3. Forward(x, y) /\ (Answered(y) => Answered(x))
  BY DEF Still, Quiet, Forward, Answered
<1> QED  BY <1>1, <1>2, <1>3 DEF SetupOf

\* If it is calm after a step it was before.
LEMMA CalmBefore ==
    ASSUME IInv, NEW s \in Sessions, NEW y, Set(s, y), y.stopped = session[s].stopped,
           faults' = faults, Calm'
    PROVE  Calm /\ ~ session[s].stopped
<1>1. \A t \in Sessions : session'[t] = IF t = s THEN y ELSE session[t]
  BY DEF IInv, Set
<1>2. \A t \in Sessions : ~ session[t].stopped
  BY <1>1 DEF Calm
<1> QED  BY <1>2 DEF Calm

\* The invariant after a step of s: what is new is said of s, its wire and the
\* others' wires.
LEMMA SetupSet ==
    ASSUME OneSessionEach, IInv, NEW s \in Sessions, NEW y, Set(s, y),
           SetupOf(s, y, wire'[s], room'),
           \A t \in Sessions \ {s} : SetupOf(t, session[t], wire'[t], room'),
           \A b \in Sessions : RoleOf[s] = "peer_a" /\ RoleOf[b] = "peer_b" =>
               Delivered(y, session[b], wire'[s], wire'[b]),
           \A a \in Sessions : RoleOf[a] = "peer_a" /\ RoleOf[s] = "peer_b" =>
               Delivered(session[a], y, wire'[a], wire'[s])
    PROVE  SetupInv'
<1>1. \A t \in Sessions : session'[t] = IF t = s THEN y ELSE session[t]
  BY DEF IInv, Set
<1>2. \A t \in Sessions : SetupOf(t, session'[t], wire'[t], room')
  BY <1>1
<1>3. ASSUME NEW a \in Sessions, NEW b \in Sessions,
             RoleOf[a] = "peer_a", RoleOf[b] = "peer_b"
      PROVE  Delivered(session'[a], session'[b], wire'[a], wire'[b])
  <2>1. RoleOf[s] \in {"peer_a", "peer_b"} /\ a # b
    BY <1>3, NegotiationAssumption
  <2>2. CASE RoleOf[s] = "peer_a"
    <3>1. a = s /\ b # s
      BY <1>3, <2>1, <2>2 DEF OneSessionEach
    <3>2. session'[a] = y /\ session'[b] = session[b]
      BY <1>1, <3>1
    <3> QED  BY <1>3, <2>2, <3>1, <3>2
  <2>3. CASE RoleOf[s] = "peer_b"
    <3>1. b = s /\ a # s
      BY <1>3, <2>1, <2>3 DEF OneSessionEach
    <3>2. session'[b] = y /\ session'[a] = session[a]
      BY <1>1, <3>1
    <3> QED  BY <1>3, <2>3, <3>1, <3>2
  <2> QED  BY <2>1, <2>2, <2>3
<1> QED  BY <1>2, <1>3 DEF SetupInv

LEMMA StillStep ==
    ASSUME OneSessionEach, IInv, SetupInv, Calm, NEW s \in Sessions, NEW y, Set(s, y),
           UNCHANGED <<room, wire>>, Still(session[s], y), PathInv(y)
    PROVE  SetupInv'
<1>1. \A t \in Sessions : SetupOf(t, session[t], wire[t], room)
  BY DEF SetupInv
<1>2. /\ SetupOf(s, y, wire[s], room)
      /\ Forward(session[s], y) /\ (Answered(y) => Answered(session[s]))
  BY <1>1, StillOf
<1>3. /\ \A b \in Sessions : RoleOf[s] = "peer_a" /\ RoleOf[b] = "peer_b" =>
             Delivered(y, session[b], wire[s], wire[b])
      /\ \A a \in Sessions : RoleOf[a] = "peer_a" /\ RoleOf[s] = "peer_b" =>
             Delivered(session[a], y, wire[a], wire[s])
  BY <1>2, NothingMoves, DeliveredKept DEF SetupInv
<1>4. SetupOf(s, y, wire'[s], room')
  BY <1>2
<1>5. \A t \in Sessions \ {s} : SetupOf(t, session[t], wire'[t], room')
  BY <1>1
<1>6. /\ \A b \in Sessions : RoleOf[s] = "peer_a" /\ RoleOf[b] = "peer_b" =>
             Delivered(y, session[b], wire'[s], wire'[b])
      /\ \A a \in Sessions : RoleOf[a] = "peer_a" /\ RoleOf[s] = "peer_b" =>
             Delivered(session[a], y, wire'[a], wire'[s])
  BY <1>3
<1> QED  BY <1>4, <1>5, <1>6, SetupSet

-----------------------------------------------------------------------------
(* Steps along the path                                                    *)

\* With the channel open an evaluation finds out whatever there is to find.
LEMMA EvaluatePath ==
    ASSUME NEW x, DOMAIN x = Fields, ~ x.stopped, x.mic = "live", x.step = "done",
           x.phase # "microphone_ready",
           x.peerPresent, x.remote # Null, x.signalingState = "stable",
           ~ x.makingOffer, ~ x.isSettingRemoteAnswerPending,
           x.connection = "connected", x.channel = "open",
           x.clock \in {"probing", "ok"},
           x.preflight \in {"none", "probing", "available"}
    PROVE  LET y == evaluateReadyToObserve(x)
           IN  PathInv(y) /\ Still(x, y)
<1> DEFINE y == evaluateReadyToObserve(x)
           z == [x EXCEPT !.preflight = IF @ \in {"none", "idle", "cancelled"}
                                        THEN "probing" ELSE @]
           r == [z EXCEPT !.phase = "ready_to_observe"]
<1>1. canStartStatsPreflight(x) /\ HasConnection(x)
  BY DEF canStartStatsPreflight, HasConnection
<1>2. ensureStatsPreflight(x) = z
  BY <1>1 DEF ensureStatsPreflight
<1>3. y = IF Ready(z) /\ z.phase \notin {"observing", "completed"} THEN r ELSE z
  BY <1>2 DEF evaluateReadyToObserve
<1>4. /\ DOMAIN z = Fields /\ z.mic = x.mic /\ z.step = x.step /\ z.stopped = x.stopped
      /\ z.timers = x.timers /\ z.socket = x.socket /\ z.phase = x.phase
      /\ z.peerPresent = x.peerPresent /\ z.remote = x.remote
      /\ z.signalingState = x.signalingState /\ z.makingOffer = x.makingOffer
      /\ z.isSettingRemoteAnswerPending = x.isSettingRemoteAnswerPending
      /\ z.connection = x.connection /\ z.channel = x.channel /\ z.clock = x.clock
      /\ z.preflight = (IF x.preflight = "none" THEN "probing" ELSE x.preflight)
      /\ z.found = x.found
  BY FieldsAre
<1> HIDE DEF z
<1>5. /\ DOMAIN r = Fields /\ r.mic = z.mic /\ r.step = z.step /\ r.timers = z.timers
      /\ r.socket = z.socket /\ r.phase = "ready_to_observe"
      /\ r.peerPresent = z.peerPresent
      /\ r.isSettingRemoteAnswerPending = z.isSettingRemoteAnswerPending
      /\ r.connection = z.connection /\ r.channel = z.channel /\ r.clock = z.clock
      /\ r.preflight = z.preflight /\ r.found = z.found
  BY <1>4, FieldsAre
<1>6. z.clock = "ok" /\ z.preflight = "available" => Ready(z)
  BY <1>4 DEF Ready, HasConnection
<1>7. Quiet(x, y)
  BY EvaluateQuiet
<1> HIDE DEF r, y
<1>8. PathInv(y)
  BY <1>3, <1>4, <1>5, <1>6 DEF PathInv, ReadyPhases
<1>9. Still(x, y)
  BY <1>3, <1>4, <1>5, <1>7 DEF Still
<1> QED  BY <1>8, <1>9 DEF y

\* Without the channel it finds nothing.
LEMMA EvaluateWithout ==
    ASSUME NEW x, DOMAIN x = Fields, ~ x.stopped, x.channel # "open", x.preflight = "none"
    PROVE  LET y == evaluateReadyToObserve(x)
           IN  DOMAIN y = Fields /\ (PathInv(x) => PathInv(y)) /\ Still(x, y)
<1> DEFINE y == evaluateReadyToObserve(x)
           z == [x EXCEPT !.preflight = IF @ \in {"probing", "available", "exhausted"}
                                        THEN "cancelled" ELSE @]
<1>1. ensureStatsPreflight(x) = z
  BY DEF ensureStatsPreflight, canStartStatsPreflight
<1>2. /\ DOMAIN z = Fields /\ z.mic = x.mic /\ z.step = x.step /\ z.timers = x.timers
      /\ z.socket = x.socket /\ z.phase = x.phase /\ z.peerPresent = x.peerPresent
      /\ z.isSettingRemoteAnswerPending = x.isSettingRemoteAnswerPending
      /\ z.connection = x.connection /\ z.channel = x.channel /\ z.clock = x.clock
      /\ z.preflight = x.preflight /\ z.found = x.found
  BY FieldsAre
<1> HIDE DEF z
<1>3. y = z
  BY <1>1, <1>2 DEF evaluateReadyToObserve, Ready
<1>4. Quiet(x, y)
  BY EvaluateQuiet
<1> HIDE DEF y
<1>5. PathInv(x) => PathInv(y)
  BY <1>2, <1>3 DEF PathInv
<1>6. Still(x, y)
  BY <1>2, <1>3, <1>4 DEF Still
<1> QED  BY <1>2, <1>3, <1>5, <1>6 DEF y

LEMMA StillTwice ==
    ASSUME NEW x, NEW y, NEW z, Still(x, y), Still(y, z)
    PROVE  Still(x, z)
<1>1. Quiet(x, z)
  BY QuietTwice DEF Still
<1>2. Answered(y) => Answered(x)
  BY DEF Still, Quiet, Answered
<1> QED  BY <1>1, <1>2 DEF Still

\* What is known of a session in a calm room.
LEMMA SessionFacts ==
    ASSUME IInv, TalkInv, SetupInv, Calm, NEW s \in Sessions
    PROVE  LET x == session[s]
           IN  /\ DOMAIN x = Fields /\ ~ x.stopped /\ x.found \in Nat
               /\ PathInv(x) /\ StageInv(s, x) /\ WireInv(s, x, wire[s], room)
               /\ wire[s] \in Seq(Frame(s))
               /\ x.remote \in (Sessions \ {s}) \cup {Null}
               /\ x.remote # Null => ~ x.makingOffer
               /\ RoleOf[s] = "peer_a" => OffererInv(x)
               /\ RoleOf[s] = "peer_b" => AnswererInv(x)
<1> DEFINE x == session[s]
<1>1. TalkOf(s, x, faults = 0) /\ SetupOf(s, x, wire[s], room)
  BY DEF TalkInv, SetupInv
<1>2. x.remote # Null => ~ x.makingOffer
  BY <1>1, NegotiationAssumption DEF TalkOf, OffererInv, AnswererInv
<1>3. DOMAIN x = Fields /\ ~ x.stopped /\ wire[s] \in Seq(Frame(s))
  BY DEF IInv, SessionInv, TypeInv, Calm, TalkInv
<1> QED  BY <1>1, <1>2, <1>3 DEF TalkOf, CandidateInv, SetupOf

\* The same with a record the step left alone in what Calm and Quiet read.
LEMMA QuietCalm ==
    ASSUME IInv, TalkInv, SetupInv, NEW s \in Sessions, NEW y, Set(s, y),
           Quiet(session[s], y), UNCHANGED <<room, wire, faults>>, Calm'
    PROVE  Calm
BY CalmBefore DEF Quiet

LEMMA UserSetup ==
    ASSUME OneSessionEach, IInv, TalkInv, SetupInv, Calm', NEW s \in Sessions,
           \/ EnableMicrophone(s) \/ Connect(s) \/ StartObservation(s)
           \/ StreamArrives(s) \/ TrackReplaced(s) \/ ClientLoaded(s)
    PROVE  SetupInv'
<1> DEFINE x == session[s]
           Good(y) == Still(x, y) /\ PathInv(y)
<1>1. DOMAIN x = Fields
  BY DEF IInv, SessionInv, TypeInv
<1>2. ASSUME NEW y, Set(s, y), UNCHANGED <<room, wire, faults>>, Quiet(x, y),
             Calm /\ PathInv(x) /\ StageInv(s, x) /\ ~ x.stopped => Good(y)
      PROVE  SetupInv'
  <2>1. Calm
    BY <1>2, QuietCalm
  <2>2. PathInv(x) /\ StageInv(s, x) /\ ~ x.stopped
    BY <2>1, SessionFacts
  <2>3. Good(y)
    BY <1>2, <2>1, <2>2
  <2> QED  BY <1>2, <2>1, <2>3, StillStep
<1>3. CASE EnableMicrophone(s)
  <2> DEFINE y == [x EXCEPT !.mic = "asking"]
  <2>1. Quiet(x, y)
    BY <1>1, FieldsAre DEF Quiet
  <2>2. /\ y.found = x.found /\ y.peerPresent = x.peerPresent
        /\ y.isSettingRemoteAnswerPending = x.isSettingRemoteAnswerPending
        /\ y.socket = x.socket /\ y.step = x.step /\ y.connection = x.connection
        /\ y.phase = x.phase /\ y.timers = x.timers /\ y.channel = x.channel
        /\ y.preflight = x.preflight /\ y.clock = x.clock
    BY <1>1, FieldsAre
  <2>3. x.phase = "prepared" /\ x.mic = "off" /\ Set(s, y) /\ UNCHANGED <<room, wire, faults>>
    BY <1>3 DEF EnableMicrophone
  <2> HIDE DEF y
  <2>4. PathInv(x) => Good(y)
    BY <2>1, <2>2, <2>3 DEF PathInv, Still
  <2> QED  BY <1>2, <2>1, <2>3, <2>4
<1>4. CASE Connect(s)
  <2> DEFINE y == [x EXCEPT !.phase = "signaling_connecting", !.step = "replacing"]
  <2>1. Quiet(x, y)
    BY <1>1, FieldsAre DEF Quiet
  <2>2. /\ y.found = x.found /\ y.peerPresent = x.peerPresent
        /\ y.isSettingRemoteAnswerPending = x.isSettingRemoteAnswerPending
        /\ y.phase = "signaling_connecting"
        /\ y.socket = x.socket /\ y.step = "replacing" /\ y.connection = x.connection
        /\ y.mic = x.mic /\ y.timers = x.timers /\ y.channel = x.channel
        /\ y.preflight = x.preflight /\ y.clock = x.clock
    BY <1>1, FieldsAre
  <2>3. x.phase = "microphone_ready" /\ Set(s, y) /\ UNCHANGED <<room, wire, faults>>
    BY <1>4 DEF Connect
  <2> HIDE DEF y
  <2>4. PathInv(x) => Good(y)
    BY <2>1, <2>2, <2>3 DEF PathInv, Still, ReadyPhases
  <2> QED  BY <1>2, <2>1, <2>3, <2>4
<1>5. CASE StartObservation(s)
  <2> DEFINE k == x.started + 1
             y == [x EXCEPT !.phase = "observing", !.started = k,
                            !.clock = "probing",
                            !.timers = @ \cup {k}, !.samplers = @ \cup {k},
                            !.statsSamples = {}]
  <2>1. Quiet(x, y)
    BY <1>1, FieldsAre DEF Quiet
  <2>2. /\ y.found = x.found /\ y.peerPresent = x.peerPresent
        /\ y.isSettingRemoteAnswerPending = x.isSettingRemoteAnswerPending
        /\ y.socket = x.socket /\ y.step = x.step /\ y.connection = x.connection
        /\ y.mic = x.mic /\ y.phase = "observing" /\ y.channel = x.channel
        /\ y.preflight = x.preflight /\ y.clock = "probing"
    BY <1>1, FieldsAre
  <2>3. Ready(x) /\ Set(s, y) /\ UNCHANGED <<room, wire, faults>>
    BY <1>5 DEF StartObservation
  <2> HIDE DEF y
  <2>4. PathInv(x) => Good(y)
    BY <2>1, <2>2, <2>3 DEF PathInv, Still, Ready
  <2> QED  BY <1>2, <2>1, <2>3, <2>4
<1>6. CASE StreamArrives(s)
  <2> DEFINE y == [x EXCEPT !.mic = "live", !.phase = "microphone_ready"]
  <2>1. Quiet(x, y)
    BY <1>1, FieldsAre DEF Quiet
  <2>2. /\ y.found = x.found /\ y.peerPresent = x.peerPresent
        /\ y.isSettingRemoteAnswerPending = x.isSettingRemoteAnswerPending
        /\ y.socket = x.socket /\ y.step = x.step /\ y.connection = x.connection
        /\ y.mic = "live" /\ y.channel = x.channel
        /\ y.preflight = x.preflight /\ y.clock = x.clock
    BY <1>1, FieldsAre
  <2>3. x.mic = "asking" /\ Set(s, y) /\ UNCHANGED <<room, wire, faults>>
    BY <1>6 DEF StreamArrives
  <2> HIDE DEF y
  <2>4. PathInv(x) => Good(y)
    BY <2>1, <2>2, <2>3 DEF PathInv, Still, ReadyPhases
  <2> QED  BY <1>2, <2>1, <2>3, <2>4
<1>7. CASE TrackReplaced(s)
  <2>1. PICK y : y = IF x.stopped THEN [x EXCEPT !.step = "failed"]
                     ELSE [x EXCEPT !.step = "importing",
                              !.channel = IF RoleOf[s] = "peer_a" THEN "connecting" ELSE @]
    OBVIOUS
  <2>2. Quiet(x, y)
    BY <1>1, <2>1, FieldsAre DEF Quiet
  <2>3. /\ y.found = x.found /\ y.peerPresent = x.peerPresent
        /\ y.isSettingRemoteAnswerPending = x.isSettingRemoteAnswerPending
        /\ y.socket = x.socket /\ y.connection = x.connection
        /\ y.mic = x.mic /\ y.phase = x.phase /\ y.timers = x.timers
        /\ y.preflight = x.preflight /\ y.clock = x.clock
        /\ ~ x.stopped => /\ y.step = "importing"
                          /\ y.channel \in {"connecting", x.channel}
    BY <1>1, <2>1, FieldsAre
  <2>4. x.step = "replacing" /\ Set(s, y) /\ UNCHANGED <<room, wire, faults>>
    BY <1>7, <2>1 DEF TrackReplaced
  <2>5. PathInv(x) /\ StageInv(s, x) /\ ~ x.stopped => Good(y)
    <3> SUFFICES ASSUME PathInv(x), StageInv(s, x), ~ x.stopped PROVE Good(y)
      OBVIOUS
    <3>1. x.connection = "new"
      BY <2>4 DEF PathInv, StageInv
    <3> QED  BY <2>2, <2>3, <2>4, <3>1 DEF PathInv, Still
  <2> QED  BY <1>2, <2>2, <2>4, <2>5
<1>8. CASE ClientLoaded(s)
  <2> DEFINE y == [x EXCEPT !.step = "done", !.socket = "connecting"]
  <2>1. Quiet(x, y)
    BY <1>1, FieldsAre DEF Quiet
  <2>2. /\ y.found = x.found /\ y.peerPresent = x.peerPresent
        /\ y.isSettingRemoteAnswerPending = x.isSettingRemoteAnswerPending
        /\ y.socket = "connecting" /\ y.step = "done" /\ y.connection = x.connection
        /\ y.mic = x.mic /\ y.phase = x.phase /\ y.timers = x.timers
        /\ y.preflight = x.preflight /\ y.clock = x.clock /\ y.channel = x.channel
    BY <1>1, FieldsAre
  <2>3. x.step = "importing" /\ Set(s, y) /\ UNCHANGED <<room, wire, faults>>
    BY <1>8 DEF ClientLoaded
  <2> HIDE DEF y
  <2>4. PathInv(x) => Good(y)
    BY <2>1, <2>2, <2>3 DEF PathInv, Still
  <2> QED  BY <1>2, <2>1, <2>3, <2>4
<1> QED  BY <1>3, <1>4, <1>5, <1>6, <1>7, <1>8

LEMMA SamplingSetup ==
    ASSUME OneSessionEach, IInv, TalkInv, SetupInv, Calm', NEW s \in Sessions,
           \/ ObservationEnds(s)
           \/ \E k \in 1 .. MaxObservations[s] :
                  SamplerAsks(s, k) \/ SamplerAnswers(s, k) \/ SamplerExpires(s, k)
    PROVE  SetupInv'
<1> DEFINE x == session[s]
           \* y differs from x in what belongs to observations.
           Near(y) == /\ Quiet(x, y)
                      /\ y.found = x.found /\ y.peerPresent = x.peerPresent
                      /\ y.isSettingRemoteAnswerPending = x.isSettingRemoteAnswerPending
                      /\ y.socket = x.socket /\ y.step = x.step
                      /\ y.connection = x.connection /\ y.mic = x.mic
                      /\ y.preflight = x.preflight /\ y.clock = x.clock
                      /\ y.channel = x.channel
                      /\ \/ y.phase = x.phase /\ y.timers = x.timers
                         \/ y.phase = "completed" /\ x.timers # {}
<1>1. DOMAIN x = Fields
  BY DEF IInv, SessionInv, TypeInv
<1>2. ASSUME NEW y, Set(s, y), UNCHANGED <<room, wire, faults>>, Near(y)
      PROVE  SetupInv'
  <2>1. Calm
    BY <1>2, QuietCalm
  <2>2. PathInv(x) /\ Still(x, y)
    BY <1>2, <2>1, SessionFacts DEF Still
  <2>3. PathInv(y)
    BY <1>2, <2>2 DEF PathInv, ReadyPhases
  <2> QED  BY <1>2, <2>1, <2>2, <2>3, StillStep
<1>3. CASE ObservationEnds(s)
  <2>1. PICK k \in x.timers :
            Set(s, [x EXCEPT !.timers = @ \ {k}, !.samplers = @ \ {x.started},
                             !.phase = "completed"])
    BY <1>3 DEF ObservationEnds
  <2>2. PICK y : y = [x EXCEPT !.timers = @ \ {k}, !.samplers = @ \ {x.started},
                               !.phase = "completed"]
    OBVIOUS
  <2>3. Near(y)
    BY <1>1, <2>2, FieldsAre DEF Quiet
  <2>4. UNCHANGED <<room, wire, faults>>
    BY <1>3 DEF ObservationEnds
  <2> QED  BY <1>2, <2>1, <2>2, <2>3, <2>4
<1>4. ASSUME NEW k, SamplerAsks(s, k)
      PROVE  SetupInv'
  <2>1. PICK y : y = [x EXCEPT !.asking = @ \cup {k}]
    OBVIOUS
  <2>2. Near(y)
    BY <1>1, <2>1, FieldsAre DEF Quiet
  <2> QED  BY <1>2, <1>4, <2>1, <2>2 DEF SamplerAsks
<1>5. ASSUME NEW k, SamplerAnswers(s, k)
      PROVE  SetupInv'
  <2>1. PICK y : y = [x EXCEPT
                    !.asking = @ \ {k},
                    !.statsSamples = IF Taken(x, k) THEN @ \cup {k} ELSE @]
    OBVIOUS
  <2>2. Near(y)
    BY <1>1, <2>1, FieldsAre DEF Quiet
  <2> QED  BY <1>2, <1>5, <2>1, <2>2 DEF SamplerAnswers
<1>6. ASSUME NEW k, SamplerExpires(s, k)
      PROVE  SetupInv'
  <2>1. PICK y : y = [x EXCEPT !.samplers = @ \ {k}]
    OBVIOUS
  <2>2. Near(y)
    BY <1>1, <2>1, FieldsAre DEF Quiet
  <2> QED  BY <1>2, <1>6, <2>1, <2>2 DEF SamplerExpires
<1> QED  BY <1>3, <1>4, <1>5, <1>6

LEMMA ComesSetup ==
    ASSUME OneSessionEach, IInv, TalkInv, SetupInv, Calm', NEW s \in Sessions,
           ConnectionComes(s)
    PROVE  SetupInv'
<1> DEFINE x == session[s]
<1>1. PICK y : y = [x EXCEPT !.connection = "connected", !.phase = "connected",
                             !.disturbed = @ \/ x.timers # {}]
  OBVIOUS
<1>2. PICK z : z = evaluateReadyToObserve(y)
  OBVIOUS
<1>3. /\ Set(s, z) /\ UNCHANGED <<room, wire, faults>>
      /\ x.connection \in {"new", "disconnected"}
      /\ HasConnection(x) /\ Answered(x)
  BY <1>1, <1>2 DEF ConnectionComes, Linked, Answered
<1>4. DOMAIN x = Fields
  BY DEF IInv, SessionInv, TypeInv
<1>5. /\ Quiet(x, y) /\ DOMAIN y = Fields
      /\ y.found = x.found /\ y.peerPresent = x.peerPresent
      /\ y.isSettingRemoteAnswerPending = x.isSettingRemoteAnswerPending
      /\ y.socket = x.socket /\ y.step = x.step /\ y.timers = x.timers
      /\ y.connection = "connected" /\ y.phase = "connected" /\ y.mic = x.mic
      /\ y.preflight = x.preflight /\ y.clock = x.clock /\ y.channel = x.channel
      /\ y.stopped = x.stopped
  BY <1>1, <1>4, FieldsAre DEF Quiet
<1>6. Quiet(y, z) /\ Quiet(x, z)
  BY <1>2, <1>5, EvaluateQuiet, QuietTwice
<1>7. Calm
  BY <1>3, <1>6, QuietCalm
<1>8. PathInv(x) /\ ~ x.stopped
  BY <1>7, SessionFacts
<1>9. x.channel # "open" /\ x.clock = "none" /\ x.preflight = "none"
  BY <1>3, <1>8 DEF PathInv
<1>10. PathInv(y)
  BY <1>3, <1>5, <1>8, <1>9 DEF PathInv, HasConnection
<1>11. Still(x, y)
  BY <1>3, <1>5 DEF Still
<1>12. PathInv(z) /\ Still(x, z)
  BY <1>2, <1>5, <1>8, <1>9, <1>10, <1>11, EvaluateWithout, StillTwice
<1> QED  BY <1>3, <1>7, <1>12, StillStep

LEMMA OpensSetup ==
    ASSUME OneSessionEach, IInv, TalkInv, SetupInv, Calm', NEW s \in Sessions,
           ChannelOpens(s)
    PROVE  SetupInv'
<1> DEFINE x == session[s]
<1>1. PICK y : y = [x EXCEPT !.channel = "open", !.clock = "probing"]
  OBVIOUS
<1>2. Set(s, y) /\ UNCHANGED <<room, wire, faults>> /\ x.connection = "connected"
  BY <1>1 DEF ChannelOpens
<1>3. /\ Quiet(x, y)
      /\ y.found = x.found /\ y.peerPresent = x.peerPresent
      /\ y.isSettingRemoteAnswerPending = x.isSettingRemoteAnswerPending
      /\ y.socket = x.socket /\ y.step = x.step /\ y.timers = x.timers
      /\ y.connection = x.connection /\ y.phase = x.phase /\ y.mic = x.mic
      /\ y.preflight = x.preflight /\ y.clock = "probing" /\ y.channel = "open"
  BY <1>1, FieldsAre DEF Quiet, IInv, SessionInv, TypeInv
<1>4. Calm
  BY <1>2, <1>3, QuietCalm
<1>5. PathInv(x)
  BY <1>4, SessionFacts
<1>6. Still(x, y)
  BY <1>3 DEF Still
<1>7. PathInv(y)
  BY <1>2, <1>3, <1>5 DEF PathInv
<1> QED  BY <1>2, <1>4, <1>6, <1>7, StillStep

\* A verdict of the probes or of the preflight comes.
LEMMA VerdictSetup ==
    ASSUME OneSessionEach, IInv, TalkInv, SetupInv, Calm', NEW s \in Sessions,
           ProbeCompletes(s) \/ PreflightSettles(s)
    PROVE  SetupInv'
<1> DEFINE x == session[s]
<1>1. DOMAIN x = Fields
  BY DEF IInv, SessionInv, TypeInv
<1>2. ASSUME NEW y, Quiet(x, y),
             y.found = x.found, y.peerPresent = x.peerPresent,
             y.isSettingRemoteAnswerPending = x.isSettingRemoteAnswerPending,
             y.socket = x.socket, y.step = x.step, y.timers = x.timers,
             y.connection = x.connection, y.phase = x.phase, y.mic = x.mic,
             y.channel = x.channel,
             \/ x.channel = "open" /\ y.clock = "ok" /\ y.preflight = x.preflight
             \/ /\ x.preflight = "probing" /\ y.preflight = "available"
                /\ y.clock = x.clock,
             Set(s, evaluateReadyToObserve(y)), UNCHANGED <<room, wire, faults>>
      PROVE  SetupInv'
  <2>1. PICK z : z = evaluateReadyToObserve(y)
    OBVIOUS
  <2>2. DOMAIN y = Fields
    BY <1>1, <1>2 DEF Quiet
  <2>3. Quiet(x, z) /\ Set(s, z)
    BY <1>2, <2>1, <2>2, EvaluateQuiet, QuietTwice
  <2>4. Calm
    BY <1>2, <2>3, QuietCalm
  <2>5. /\ PathInv(x) /\ StageInv(s, x) /\ ~ x.stopped
        /\ x.remote # Null => ~ x.makingOffer
    BY <2>4, SessionFacts
  <2>6. x.channel = "open" /\ x.connection = "connected"
    BY <1>2, <2>5 DEF PathInv
  <2>7. x.remote # Null /\ x.signalingState = "stable" /\ ~ x.makingOffer
    BY <2>5, <2>6 DEF StageInv
  <2>8. ~ x.isSettingRemoteAnswerPending /\ x.peerPresent /\ x.step = "done"
    BY <2>5, <2>7 DEF StageInv
  <2>9. x.mic = "live" /\ x.phase # "microphone_ready"
    BY <2>5, <2>8 DEF PathInv
  <2>10. /\ ~ y.stopped /\ y.remote # Null /\ y.signalingState = "stable"
         /\ ~ y.makingOffer
    BY <1>2, <2>5, <2>7 DEF Quiet
  <2>11. y.clock \in {"probing", "ok"} /\ y.preflight \in {"none", "probing", "available"}
    BY <1>2, <2>5, <2>6 DEF PathInv
  <2>12. PathInv(z) /\ Still(y, z)
    BY <1>2, <2>1, <2>2, <2>6, <2>8, <2>9, <2>10, <2>11, EvaluatePath
  <2>13. Still(x, y)
    BY <1>2 DEF Still
  <2>14. Still(x, z)
    BY <2>12, <2>13, StillTwice
  <2> QED  BY <1>2, <2>3, <2>4, <2>12, <2>14, StillStep
<1>3. CASE ProbeCompletes(s)
  <2>1. PICK y : y = [x EXCEPT !.clock = "ok"]
    OBVIOUS
  <2>2. /\ Set(s, evaluateReadyToObserve(y)) /\ UNCHANGED <<room, wire, faults>>
        /\ x.channel = "open"
    BY <1>3, <2>1 DEF ProbeCompletes, ProbeCompleted
  <2>3. /\ Quiet(x, y)
        /\ y.found = x.found /\ y.peerPresent = x.peerPresent
        /\ y.isSettingRemoteAnswerPending = x.isSettingRemoteAnswerPending
        /\ y.socket = x.socket /\ y.step = x.step /\ y.timers = x.timers
        /\ y.connection = x.connection /\ y.phase = x.phase /\ y.mic = x.mic
        /\ y.channel = x.channel /\ y.clock = "ok" /\ y.preflight = x.preflight
    BY <1>1, <2>1, FieldsAre DEF Quiet
  <2> QED  BY <1>2, <2>2, <2>3
<1>4. CASE PreflightSettles(s)
  <2>1. PICK y : y = [x EXCEPT !.preflight = "available"]
    OBVIOUS
  <2>2. /\ Set(s, evaluateReadyToObserve(y)) /\ UNCHANGED <<room, wire, faults>>
        /\ x.preflight = "probing"
    <3>1. faults' # faults + 1
      BY DEF Calm, TalkInv
    <3> QED  BY <1>4, <2>1, <3>1 DEF PreflightSettles
  <2>3. /\ Quiet(x, y)
        /\ y.found = x.found /\ y.peerPresent = x.peerPresent
        /\ y.isSettingRemoteAnswerPending = x.isSettingRemoteAnswerPending
        /\ y.socket = x.socket /\ y.step = x.step /\ y.timers = x.timers
        /\ y.connection = x.connection /\ y.phase = x.phase /\ y.mic = x.mic
        /\ y.channel = x.channel /\ y.clock = x.clock /\ y.preflight = "available"
    BY <1>1, <2>1, FieldsAre DEF Quiet
  <2> QED  BY <1>2, <2>2, <2>3
<1> QED  BY <1>3, <1>4

\* What does not happen as long as it is calm.
LEMMA NotCalm ==
    ASSUME OneSessionEach, IInv, TalkInv, SetupInv, Calm', NEW s \in Sessions
    PROVE  ~ (\/ Stop(s) \/ Leave(s) \/ CallRejects(s)
              \/ ConnectionGoes(s) \/ ChannelCloses(s))
<1> DEFINE x == session[s]
<1>1. DOMAIN x = Fields /\ DOMAIN session = Sessions
  BY DEF IInv, SessionInv, TypeInv
<1>2. faults' # faults + 1
  BY DEF Calm, TalkInv
<1>3. ~ Stop(s)
  <2> SUFFICES ASSUME Stop(s) PROVE FALSE
    OBVIOUS
  <2>1. session'[s] = stop(x)
    BY <1>1 DEF Stop, Set
  <2>2. stop(x).stopped
    BY <1>1, StopTalk DEF TalkInv
  <2> QED  BY <2>1, <2>2 DEF Calm
<1>4. ~ Leave(s)
  <2> SUFFICES ASSUME Leave(s) PROVE FALSE
    OBVIOUS
  <2>1. Calm /\ x.socket = "closed" /\ s \in room
    BY DEF Leave, Calm
  <2>2. WireInv(s, x, wire[s], room)
    BY <2>1, SessionFacts
  <2> QED  BY <2>1, <2>2 DEF WireInv
<1>5. ~ CallRejects(s)
  BY <1>2 DEF CallRejects
<1>6. ASSUME NEW y, Quiet(x, y), Set(s, invalidateStatsPreflight(y)),
             UNCHANGED <<room, wire, faults>>, session[x.remote].stopped,
             x.connection = "connected" \/ x.channel = "open"
      PROVE  FALSE
  <2>1. PICK z : z = invalidateStatsPreflight(y)
    OBVIOUS
  <2>2. Quiet(x, z) /\ Set(s, z)
    BY <1>1, <1>6, <2>1, InvalidateQuiet, QuietTwice DEF Quiet
  <2>3. Calm
    BY <1>6, <2>2, QuietCalm
  <2>4. /\ PathInv(x) /\ StageInv(s, x)
        /\ x.remote \in (Sessions \ {s}) \cup {Null}
    BY <2>3, SessionFacts
  <2>5. x.remote \in Sessions
    BY <1>6, <2>4 DEF PathInv, StageInv
  <2> QED  BY <1>6, <2>3, <2>5 DEF Calm
<1>7. ~ ConnectionGoes(s)
  <2> SUFFICES ASSUME ConnectionGoes(s) PROVE FALSE
    OBVIOUS
  <2>1. PICK y : y = [x EXCEPT !.connection = "disconnected"]
    OBVIOUS
  <2>2. Quiet(x, y)
    BY <1>1, <2>1, FieldsAre DEF Quiet
  <2>3. /\ Set(s, invalidateStatsPreflight(y)) /\ UNCHANGED <<room, wire, faults>>
        /\ session[x.remote].stopped /\ x.connection = "connected"
    BY <1>2, <2>1 DEF ConnectionGoes
  <2> QED  BY <1>6, <2>2, <2>3
<1>8. ~ ChannelCloses(s)
  <2> SUFFICES ASSUME ChannelCloses(s) PROVE FALSE
    OBVIOUS
  <2>1. PICK y : y = [x EXCEPT !.channel = "closed"]
    OBVIOUS
  <2>2. Quiet(x, y)
    BY <1>1, <2>1, FieldsAre DEF Quiet
  <2>3. /\ Set(s, invalidateStatsPreflight(y)) /\ UNCHANGED <<room, wire, faults>>
        /\ session[x.remote].stopped /\ x.channel = "open"
    BY <2>1 DEF ChannelCloses
  <2> QED  BY <1>6, <2>2, <2>3
<1> QED  BY <1>3, <1>4, <1>5, <1>7, <1>8

-----------------------------------------------------------------------------
(* Steps of the negotiation in a setup                                     *)

\* Who knows that the other is present reaches it.
LEMMA RelayReaches ==
    ASSUME OneSessionEach, IInv, TalkInv, SetupInv, Calm, NEW s \in Sessions, NEW m,
           session[s].peerPresent,
           \A t \in Sessions \ {s} : m \in Frame(t),
           m.type \in {"offer", "answer", "candidate"},
           wire' = Relayed(s, <<m>>), room' = room
    PROVE  /\ wire'[s] = wire[s]
           /\ \A t \in Sessions \ {s} :
                 /\ SetupOf(t, session[t], wire'[t], room')
                 /\ Lossless(wire[t], wire'[t])
                 /\ Has(wire'[t], m.type)
<1>1. WireInv(s, session[s], wire[s], room)
  BY SessionFacts
<1>2. s \in room /\ session[s].socket = "joined"
  BY <1>1 DEF WireInv
<1>3. PICK u \in room : u # s
  BY <1>1 DEF WireInv
<1>4. wire'[s] = wire[s]
  BY DEF Relayed
<1>5. ASSUME NEW t \in Sessions \ {s}
      PROVE  /\ SetupOf(t, session[t], wire'[t], room')
             /\ Lossless(wire[t], wire'[t])
             /\ Has(wire'[t], m.type)
  <2>1. t \in room
    BY <1>3, OneOther DEF TalkInv
  <2>2. /\ PathInv(session[t]) /\ StageInv(t, session[t])
        /\ WireInv(t, session[t], wire[t], room) /\ wire[t] \in Seq(Frame(t))
    BY SessionFacts
  <2>3. session[t].socket = "joined"
    BY <2>1, <2>2 DEF WireInv
  <2>4. wire'[t] = wire[t] \o <<m>>
    BY <1>2, <2>1, <2>3 DEF Relayed
  <2>5. PICK n \in Frame(t) : n = m
    OBVIOUS
  <2>6. wire'[t] = Append(wire[t], n)
    BY <2>2, <2>4, <2>5, AppendThinner
  <2> DEFINE q == wire[t]
             r == Append(q, n)
  <2>7. /\ \A type : /\ Has(q, type) => Has(r, type)
                     /\ Has(r, type) => Has(q, type) \/ n.type = type
        /\ Has(r, n.type)
        /\ JoinedFirst(q) => JoinedFirst(r)
    BY <2>2, <2>5, AppendHas
  <2> HIDE DEF r
  <2>8. WireInv(t, session[t], r, room)
    BY <1>2, <2>1, <2>2, <2>5, <2>7 DEF WireInv
  <2>9. Lossless(q, r)
    BY <2>7 DEF Lossless
  <2> QED  BY <2>2, <2>5, <2>6, <2>7, <2>8, <2>9 DEF SetupOf, r
<1> QED  BY <1>4, <1>5

\* The session s moved on in its negotiation and relayed nothing.
LEMMA HereSetup ==
    ASSUME OneSessionEach, IInv, TalkInv, SetupInv, Calm, NEW s \in Sessions, NEW y,
           Set(s, y), UNCHANGED <<room, wire>>,
           SamePath(session[s], y), StageInv(s, y), Forward(session[s], y),
           RoleOf[s] = "peer_b" => (Answered(y) => Answered(session[s]))
    PROVE  SetupInv'
<1> DEFINE x == session[s]
<1>1. PathInv(x) /\ WireInv(s, x, wire[s], room)
  BY SessionFacts
<1>2. SetupOf(s, y, wire'[s], room')
  BY <1>1, PathKept DEF SetupOf, WireInv, SamePath
<1>3. \A t \in Sessions \ {s} : SetupOf(t, session[t], wire'[t], room')
  BY DEF SetupInv
<1>4. ASSUME NEW b \in Sessions, RoleOf[s] = "peer_a", RoleOf[b] = "peer_b"
      PROVE  Delivered(y, session[b], wire'[s], wire'[b])
  <2>1. Delivered(x, session[b], wire[s], wire[b])
    BY <1>4 DEF SetupInv
  <2>2. Delivered(y, session[b], wire[s], wire[b])
    BY <2>1, NothingMoves, DeliveredKept
  <2> QED  BY <2>2
<1>5. ASSUME NEW a \in Sessions, RoleOf[a] = "peer_a", RoleOf[s] = "peer_b"
      PROVE  Delivered(session[a], y, wire'[a], wire'[s])
  <2>1. Delivered(session[a], x, wire[a], wire[s])
    BY <1>5 DEF SetupInv
  <2>2. Delivered(session[a], y, wire[a], wire[s])
    BY <1>5, <2>1, NothingMoves, DeliveredKept
  <2> QED  BY <2>2
<1> QED  BY <1>2, <1>3, <1>4, <1>5, SetupSet

\* Flushing, s gives its connection candidates and nothing else changes.
LEMMA FlushPath ==
    ASSUME NEW x, DOMAIN x = Fields
    PROVE  LET y == flush(x)
           IN  /\ SamePath(x, y) /\ y.offers = x.offers /\ y.remote = x.remote
               /\ y.signalingState = x.signalingState /\ y.makingOffer = x.makingOffer
               /\ y.isSettingRemoteAnswerPending = x.isSettingRemoteAnswerPending
               /\ y.received = x.received /\ y.call \in {Null, x.call}
<1> DEFINE Good(y) == /\ SamePath(x, y) /\ y.offers = x.offers /\ y.remote = x.remote
                      /\ y.signalingState = x.signalingState
                      /\ y.makingOffer = x.makingOffer
                      /\ y.isSettingRemoteAnswerPending = x.isSettingRemoteAnswerPending
                      /\ y.received = x.received /\ y.call \in {Null, x.call}
<1>1. ASSUME NEW z, Good(z)
      PROVE  Good(FlushEnds(z))
  <2>1. DOMAIN z = Fields
    BY <1>1 DEF SamePath
  <2> QED  BY <1>1, <2>1, FieldsAre DEF FlushEnds, SamePath
<1>2. Good(x)
  BY DEF SamePath
<1>3. Good([x EXCEPT !.call = Null])
  BY FieldsAre DEF SamePath
<1>4. Good(FlushNext(x))
  <2> DEFINE c == x.buffer[x.cursor + 1]
             z == [x EXCEPT !.cursor = @ + 1,
                            !.added = IF c.from = x.remote THEN @ \cup {c} ELSE @]
  <2>1. Good(z)
    BY FieldsAre DEF SamePath
  <2>2. FlushNext(x) = IF z.cursor = Len(z.buffer) THEN FlushEnds(z) ELSE z
    BY DEF FlushNext
  <2> HIDE DEF z
  <2> QED  BY <1>1, <2>1, <2>2
<1>5. flush(x) \in {[x EXCEPT !.call = Null], FlushEnds(x), FlushNext(x)}
  BY DEF flush
<1>6. Good(FlushEnds(x))
  BY <1>1, <1>2
<1> HIDE DEF Good
<1>7. Good(flush(x))
  BY <1>3, <1>4, <1>5, <1>6
<1> QED  BY <1>7 DEF Good

LEMMA DifferentCalls ==
    /\ \A call \in Calls : call # Null
    /\ Null \notin {"createOffer", "setOffer", "setRemoteOffer", "createAnswer",
                    "setAnswer", "setRemoteAnswer", "flush"}
BY CallsAre DEF Calls

\* Calls that settle without anything being relayed.
LEMMA SettledSetup ==
    ASSUME OneSessionEach, IInv, TalkInv, SetupInv, Calm', NEW s \in Sessions,
           CallResolves(s), session[s].call \notin {"setOffer", "setAnswer"}
    PROVE  SetupInv'
<1> DEFINE x == session[s]
<1>1. DOMAIN x = Fields
  BY DEF IInv, SessionInv, TypeInv
<1>2. PICK y : y = CASE x.call = "createOffer"     -> OfferCreated(x)
                     [] x.call = "setRemoteOffer"  -> RemoteOfferSet(x)
                     [] x.call = "createAnswer"    -> AnswerCreated(x)
                     [] x.call = "setRemoteAnswer" -> RemoteAnswerSet(x)
                     [] x.call = "flush"           -> flush(x)
  OBVIOUS
<1>3. /\ Set(s, y) /\ UNCHANGED <<room, wire, faults>>
      /\ x.call \in {"createOffer", "setRemoteOffer", "createAnswer",
                     "setRemoteAnswer", "flush"}
  BY <1>2 DEF CallResolves, Resolves
<1>4. SamePath(x, y) /\ y.offers = x.offers
  <2>1. CASE x.call = "flush"
    BY <1>1, <1>2, <2>1, FlushPath
  <2>2. CASE x.call = "createOffer"
    BY <1>1, <1>2, <2>2, FieldsAre DEF OfferCreated, SamePath
  <2>3. CASE x.call = "setRemoteOffer"
    BY <1>1, <1>2, <2>3, FieldsAre DEF RemoteOfferSet, SamePath
  <2>4. CASE x.call = "createAnswer"
    BY <1>1, <1>2, <2>4, FieldsAre DEF AnswerCreated, SamePath
  <2>5. CASE x.call = "setRemoteAnswer"
    BY <1>1, <1>2, <2>5, FieldsAre DEF RemoteAnswerSet, SamePath
  <2> QED  BY <1>3, <2>1, <2>2, <2>3, <2>4, <2>5
<1>5. Calm
  BY <1>3, <1>4, CalmBefore DEF SamePath
<1>6. /\ StageInv(s, x) /\ x.remote \in (Sessions \ {s}) \cup {Null}
      /\ RoleOf[s] = "peer_a" => OffererInv(x)
      /\ RoleOf[s] = "peer_b" => AnswererInv(x)
  BY <1>5, SessionFacts
<1>7. x.call \in {"setRemoteOffer", "setRemoteAnswer"} => x.from \in Sessions /\ x.from # Null
  BY CallsAre DEF TalkInv, TalkOf, CandidateInv
<1>8. x.call \in {"createAnswer", "setAnswer", "flush"} => x.remote # Null
  BY DEF TalkInv, TalkOf, CandidateInv
<1>9. RoleOf[s] \in {"peer_a", "peer_b"} /\ x.call # Null
  BY <1>3, NegotiationAssumption, DifferentCalls
<1>10. CASE x.call = "flush"
  <2>1. /\ y.remote = x.remote /\ y.signalingState = x.signalingState
        /\ y.makingOffer = x.makingOffer
        /\ y.isSettingRemoteAnswerPending = x.isSettingRemoteAnswerPending
        /\ y.received = x.received /\ y.call \in {Null, "flush"}
    BY <1>1, <1>2, <1>10, FlushPath
  <2>2. y.call \notin {"setRemoteOffer", "setRemoteAnswer"}
    BY <2>1, DifferentCalls
  <2>3. StageInv(s, y)
    BY <1>4, <1>6, <1>8, <1>9, <1>10, <2>1, <2>2 DEF StageInv, SamePath
  <2>4. Forward(x, y) /\ (Answered(y) => Answered(x))
    BY <1>4, <1>10, <2>1 DEF Forward, SamePath, Answered
  <2> QED  BY <1>3, <1>4, <1>5, <2>3, <2>4, HereSetup
<1>11. CASE x.call \in {"createOffer", "createAnswer"}
  <2>1. /\ y.remote = x.remote /\ y.signalingState = x.signalingState
        /\ y.makingOffer = x.makingOffer
        /\ y.isSettingRemoteAnswerPending = x.isSettingRemoteAnswerPending
        /\ y.received = x.received
        /\ y.call = (IF x.call = "createOffer" THEN "setOffer" ELSE "setAnswer")
    BY <1>1, <1>2, <1>11, FieldsAre DEF OfferCreated, AnswerCreated
  <2>2. y.call \in {"setOffer", "setAnswer"} /\ y.call # Null
    BY <2>1, DifferentCalls
  <2>3. StageInv(s, y)
    BY <1>4, <1>6, <1>9, <1>11, <2>1, <2>2 DEF StageInv, SamePath, AnswererInv
  <2>4. Forward(x, y) /\ (Answered(y) => Answered(x))
    BY <1>4, <1>11, <2>1 DEF Forward, SamePath, Answered
  <2> QED  BY <1>3, <1>4, <1>5, <2>3, <2>4, HereSetup
<1>12. CASE x.call = "setRemoteOffer"
  <2>1. /\ y.remote = x.from /\ y.signalingState = "have-remote-offer"
        /\ y.makingOffer = x.makingOffer
        /\ ~ y.isSettingRemoteAnswerPending
        /\ y.received = x.received /\ y.call = "createAnswer"
    BY <1>1, <1>2, <1>12, FieldsAre DEF RemoteOfferSet
  <2>2. RoleOf[s] = "peer_b"
    BY <1>6, <1>9, <1>12 DEF OffererInv
  <2>3. x.connection # "connected"
    BY <1>6, <1>12 DEF StageInv
  <2>4. StageInv(s, y)
    BY <1>4, <1>6, <1>7, <1>9, <1>12, <2>1, <2>2, <2>3 DEF StageInv, SamePath
  <2>5. Forward(x, y) /\ ~ Answered(y)
    BY <1>4, <1>7, <1>12, <2>1 DEF Forward, SamePath, Answered
  <2> QED  BY <1>3, <1>4, <1>5, <2>4, <2>5, HereSetup
<1>13. CASE x.call = "setRemoteAnswer"
  <2>1. /\ y.remote = x.from /\ y.signalingState = "stable"
        /\ y.makingOffer = x.makingOffer
        /\ ~ y.isSettingRemoteAnswerPending
        /\ y.received = x.received /\ y.call = "flush"
    BY <1>1, <1>2, <1>13, FieldsAre DEF RemoteAnswerSet
  <2>2. RoleOf[s] = "peer_a"
    BY <1>6, <1>9, <1>13 DEF AnswererInv
  <2>3. StageInv(s, y)
    BY <1>4, <1>6, <1>7, <1>9, <1>13, <2>1, <2>2 DEF StageInv, SamePath
  <2>4. Forward(x, y)
    BY <1>4, <1>7, <1>13, <2>1 DEF Forward, SamePath
  <2> QED  BY <1>3, <1>4, <1>5, <2>2, <2>3, <2>4, HereSetup
<1> QED  BY <1>3, <1>10, <1>11, <1>12, <1>13

\* s relayed a frame: what is left to show is said of s and the other.
LEMMA RelayedSetup ==
    ASSUME OneSessionEach, IInv, TalkInv, SetupInv, Calm, NEW s \in Sessions, NEW m, NEW y,
           Set(s, y), wire' = Relayed(s, <<m>>), room' = room,
           \A t \in Sessions \ {s} : m \in Frame(t),
           m.type \in {"offer", "answer", "candidate"},
           session[s].peerPresent, y.peerPresent, y.socket = session[s].socket,
           PathInv(y), StageInv(s, y),
           \A b \in Sessions : \A toY : RoleOf[s] = "peer_a" /\ RoleOf[b] = "peer_b" =>
               (Delivered(session[s], session[b], wire[s], wire[b])
                /\ Lossless(wire[b], toY) /\ Has(toY, m.type)
                    => Delivered(y, session[b], wire[s], toY)),
           \A a \in Sessions : \A toX : RoleOf[a] = "peer_a" /\ RoleOf[s] = "peer_b" =>
               (Delivered(session[a], session[s], wire[a], wire[s])
                /\ Lossless(wire[a], toX) /\ Has(toX, m.type)
                    => Delivered(session[a], y, toX, wire[s]))
    PROVE  SetupInv'
<1> DEFINE x == session[s]
<1>1. /\ wire'[s] = wire[s]
      /\ \A t \in Sessions \ {s} :
            /\ SetupOf(t, session[t], wire'[t], room')
            /\ Lossless(wire[t], wire'[t])
            /\ Has(wire'[t], m.type)
  BY RelayReaches
<1>2. WireInv(s, x, wire[s], room)
  BY SessionFacts
<1>3. SetupOf(s, y, wire'[s], room')
  BY <1>1, <1>2 DEF SetupOf, WireInv
<1>4. ASSUME NEW b \in Sessions, RoleOf[s] = "peer_a", RoleOf[b] = "peer_b"
      PROVE  Delivered(y, session[b], wire'[s], wire'[b])
  <2>1. Delivered(x, session[b], wire[s], wire[b]) /\ b # s
    BY <1>4 DEF SetupInv
  <2>2. PICK toY : toY = wire'[b]
    OBVIOUS
  <2>3. Lossless(wire[b], toY) /\ Has(toY, m.type)
    BY <1>1, <2>1, <2>2
  <2>4. Delivered(y, session[b], wire[s], toY)
    BY <1>4, <2>1, <2>3
  <2> QED  BY <1>1, <2>2, <2>4
<1>5. ASSUME NEW a \in Sessions, RoleOf[a] = "peer_a", RoleOf[s] = "peer_b"
      PROVE  Delivered(session[a], y, wire'[a], wire'[s])
  <2>1. Delivered(session[a], x, wire[a], wire[s]) /\ a # s
    BY <1>5 DEF SetupInv
  <2>2. PICK toX : toX = wire'[a]
    OBVIOUS
  <2>3. Lossless(wire[a], toX) /\ Has(toX, m.type)
    BY <1>1, <2>1, <2>2
  <2>4. Delivered(session[a], y, toX, wire[s])
    BY <1>5, <2>1, <2>3
  <2> QED  BY <1>1, <2>2, <2>4
<1>6. \A t \in Sessions \ {s} : SetupOf(t, session[t], wire'[t], room')
  BY <1>1
<1> QED  BY <1>3, <1>4, <1>5, <1>6, SetupSet

LEMMA OfferSetup ==
    ASSUME OneSessionEach, IInv, TalkInv, SetupInv, Calm', NEW s \in Sessions,
           CallResolves(s), session[s].call = "setOffer"
    PROVE  SetupInv'
<1> DEFINE x == session[s]
<1>1. DOMAIN x = Fields
  BY DEF IInv, SessionInv, TypeInv
<1>2. PICK z : z = OfferSet(x)
  OBVIOUS
<1>3. PICK y : y = [z EXCEPT !.offers = @ + 1]
  OBVIOUS
<1>4. PICK m : m = Description(s, "offer")
  OBVIOUS
<1>5. Set(s, y) /\ wire' = Relayed(s, <<m>>) /\ UNCHANGED <<room, faults>>
  BY <1>2, <1>3, <1>4 DEF CallResolves, Resolves
<1>6. /\ DOMAIN z = Fields /\ SamePath(x, z) /\ z.offers = x.offers
      /\ z.signalingState = "have-local-offer" /\ z.makingOffer = FALSE
      /\ z.isSettingRemoteAnswerPending = x.isSettingRemoteAnswerPending
      /\ z.call = Null /\ z.remote = x.remote /\ z.received = x.received
  BY <1>1, <1>2, FieldsAre DEF OfferSet, SamePath
<1>7. /\ SamePath(z, y) /\ y.offers = z.offers + 1
      /\ y.signalingState = z.signalingState /\ y.makingOffer = z.makingOffer
      /\ y.isSettingRemoteAnswerPending = z.isSettingRemoteAnswerPending
      /\ y.call = Null /\ y.remote = z.remote /\ y.received = z.received
  BY <1>3, <1>6, FieldsAre DEF SamePath
<1>8. SamePath(x, y)
  BY <1>6, <1>7 DEF SamePath
<1>9. Calm
  BY <1>5, <1>8, CalmBefore DEF SamePath
<1>10. /\ PathInv(x) /\ StageInv(s, x)
       /\ RoleOf[s] = "peer_a" => OffererInv(x)
       /\ RoleOf[s] = "peer_b" => AnswererInv(x)
  BY <1>9, SessionFacts
<1>11. RoleOf[s] = "peer_a" /\ x.call # Null
  BY <1>10, NegotiationAssumption, DifferentCalls DEF AnswererInv
<1>12. x.makingOffer /\ x.offers = 0 /\ x.remote = Null
  BY <1>10, <1>11 DEF OffererInv
<1>13. m.type = "offer" /\ \A t \in Sessions \ {s} : m \in Frame(t)
  BY <1>4, <1>11, DescriptionFrame DEF Description
<1>14. x.peerPresent /\ x.connection # "connected" /\ ~ x.isSettingRemoteAnswerPending
  BY <1>10, <1>11, <1>12 DEF StageInv
<1>15. StageInv(s, y)
  BY <1>6, <1>7, <1>8, <1>10, <1>11, <1>12, <1>14, DifferentCalls DEF StageInv, SamePath
<1>16. PathInv(y) /\ y.peerPresent /\ y.socket = x.socket /\ y.found = x.found
  BY <1>8, <1>10, <1>14, PathKept DEF SamePath
<1>17. ASSUME NEW b \in Sessions, NEW toY,
              Delivered(x, session[b], wire[s], wire[b]),
              Lossless(wire[b], toY), Has(toY, "offer")
       PROVE  Delivered(y, session[b], wire[s], toY)
  BY <1>6, <1>7, <1>11, <1>12, <1>16, <1>17 DEF Delivered, Lossless
<1> QED  BY <1>5, <1>9, <1>11, <1>13, <1>14, <1>15, <1>16, <1>17, RelayedSetup

LEMMA AnswerSetup ==
    ASSUME OneSessionEach, IInv, TalkInv, SetupInv, Calm', NEW s \in Sessions,
           CallResolves(s), session[s].call = "setAnswer"
    PROVE  SetupInv'
<1> DEFINE x == session[s]
<1>1. DOMAIN x = Fields
  BY DEF IInv, SessionInv, TypeInv
<1>2. PICK y : y = AnswerSet(x)
  OBVIOUS
<1>3. PICK m : m = Description(s, "answer")
  OBVIOUS
<1>4. Set(s, y) /\ wire' = Relayed(s, <<m>>) /\ UNCHANGED <<room, faults>>
  BY <1>2, <1>3 DEF CallResolves, Resolves
<1>5. /\ SamePath(x, y) /\ y.offers = x.offers
      /\ y.signalingState = "stable" /\ y.makingOffer = x.makingOffer
      /\ y.isSettingRemoteAnswerPending = x.isSettingRemoteAnswerPending
      /\ y.call = "flush" /\ y.remote = x.remote /\ y.received = x.received
  BY <1>1, <1>2, FieldsAre DEF AnswerSet, SamePath
<1>6. Calm
  BY <1>4, <1>5, CalmBefore DEF SamePath
<1>7. /\ PathInv(x) /\ StageInv(s, x)
      /\ RoleOf[s] = "peer_a" => OffererInv(x)
      /\ RoleOf[s] = "peer_b" => AnswererInv(x)
  BY <1>6, SessionFacts
<1>8. RoleOf[s] = "peer_b" /\ x.call # Null
  BY <1>7, NegotiationAssumption, DifferentCalls DEF OffererInv
<1>9. m.type = "answer" /\ \A t \in Sessions \ {s} : m \in Frame(t)
  BY <1>3, <1>8, DescriptionFrame DEF Description
<1>10. x.peerPresent /\ ~ x.isSettingRemoteAnswerPending
  BY <1>7, <1>8 DEF StageInv
<1>11. StageInv(s, y)
  BY <1>5, <1>7, <1>8, <1>10 DEF StageInv, SamePath
<1>12. PathInv(y) /\ y.peerPresent /\ y.socket = x.socket /\ y.found = x.found
  BY <1>5, <1>7, <1>10, PathKept DEF SamePath
<1>13. ASSUME NEW a \in Sessions, NEW toX,
              Delivered(session[a], x, wire[a], wire[s]),
              Lossless(wire[a], toX), Has(toX, "answer")
       PROVE  Delivered(session[a], y, toX, wire[s])
  <2>1. x.remote # Null
    BY <1>8 DEF TalkInv, TalkOf, CandidateInv
  <2> QED  BY <1>5, <1>12, <1>13, <2>1 DEF Delivered, Lossless
<1> QED  BY <1>4, <1>6, <1>8, <1>9, <1>10, <1>11, <1>12, <1>13, RelayedSetup

LEMMA FindsSetup ==
    ASSUME OneSessionEach, IInv, TalkInv, SetupInv, Calm', NEW s \in Sessions,
           FindsCandidate(s)
    PROVE  SetupInv'
<1> DEFINE x == session[s]
<1>1. DOMAIN x = Fields /\ x.found \in Nat
  BY DEF IInv, SessionInv, TypeInv, TalkInv, TalkOf
<1>2. PICK k \in Nat : k = x.found + 1
  BY <1>1
<1>3. PICK y : y = [x EXCEPT !.found = @ + 1]
  OBVIOUS
<1>4. PICK m : m = CandidateOf(s, k)
  OBVIOUS
<1>5. /\ Set(s, y) /\ wire' = Relayed(s, <<m>>) /\ UNCHANGED <<room, faults>>
      /\ x.offers > 0 \/ x.remote # Null
  BY <1>2, <1>3, <1>4 DEF FindsCandidate
<1>6. /\ y.stopped = x.stopped /\ y.phase = x.phase /\ y.mic = x.mic
      /\ y.step = x.step /\ y.timers = x.timers /\ y.socket = x.socket
      /\ y.connection = x.connection /\ y.channel = x.channel
      /\ y.preflight = x.preflight /\ y.clock = x.clock
      /\ y.peerPresent = x.peerPresent
      /\ y.peerNegotiationStarted = x.peerNegotiationStarted
      /\ y.offers = x.offers /\ y.remote = x.remote
      /\ y.signalingState = x.signalingState /\ y.makingOffer = x.makingOffer
      /\ y.isSettingRemoteAnswerPending = x.isSettingRemoteAnswerPending
      /\ y.received = x.received /\ y.call = x.call
  BY <1>1, <1>3, FieldsAre
<1>7. Calm
  BY <1>5, <1>6, CalmBefore
<1>8. /\ PathInv(x) /\ StageInv(s, x)
      /\ RoleOf[s] = "peer_a" => OffererInv(x)
      /\ RoleOf[s] = "peer_b" => AnswererInv(x)
  BY <1>7, SessionFacts
<1>9. x.peerPresent
  <2>1. CASE x.remote # Null
    BY <1>8, <2>1 DEF StageInv
  <2>2. CASE x.offers > 0
    <3>1. RoleOf[s] = "peer_a" /\ x.offers = 1
      BY <1>8, <2>2, NegotiationAssumption DEF OffererInv, AnswererInv
    <3> QED  BY <1>8, <3>1 DEF OffererInv, StageInv
  <2> QED  BY <1>5, <2>1, <2>2
<1>10. m.type = "candidate" /\ \A t \in Sessions \ {s} : m \in Frame(t)
  BY <1>4, CandidateFrame DEF CandidateOf
<1>11. StageInv(s, y)
  BY <1>6, <1>8 DEF StageInv
<1>12. PathInv(y) /\ y.peerPresent
  BY <1>6, <1>8, <1>9 DEF PathInv
<1>13. ASSUME NEW b \in Sessions, NEW toY,
              Delivered(x, session[b], wire[s], wire[b]),
              Lossless(wire[b], toY), Has(toY, "candidate")
       PROVE  Delivered(y, session[b], wire[s], toY)
  BY <1>6, <1>13 DEF Delivered, Lossless
<1>14. ASSUME NEW a \in Sessions, NEW toX,
              Delivered(session[a], x, wire[a], wire[s]),
              Lossless(wire[a], toX), Has(toX, "candidate")
       PROVE  Delivered(session[a], y, toX, wire[s])
  BY <1>6, <1>14 DEF Delivered, Lossless
<1> QED  BY <1>5, <1>6, <1>7, <1>9, <1>10, <1>11, <1>12, <1>13, <1>14, RelayedSetup

-----------------------------------------------------------------------------
(* The room and the frames in a setup                                      *)

LEMMA JoinSetup ==
    ASSUME OneSessionEach, IInv, TalkInv, SetupInv, Calm', NEW s \in Sessions, Join(s)
    PROVE  SetupInv'
<1> DEFINE x == session[s]
           others == SetToSeq(room)
           mine == [i \in DOMAIN others |-> Joined(others[i])]
<1>1. DOMAIN x = Fields /\ room \subseteq Sessions
  BY DEF IInv, SessionInv, TypeInv, TalkInv
<1>2. Calm
  <2>1. PICK v : Set(s, [x EXCEPT !.socket = v]) /\ faults' = faults
    BY DEF Join
  <2>2. PICK y : y = [x EXCEPT !.socket = v]
    OBVIOUS
  <2>3. y.stopped = x.stopped
    BY <1>1, <2>2, FieldsAre
  <2> QED  BY <2>1, <2>2, <2>3, CalmBefore
<1>3. PathInv(x) /\ StageInv(s, x) /\ WireInv(s, x, wire[s], room)
  BY <1>2, SessionFacts
<1>4. x.socket = "connecting"
  BY DEF Join
<1>5. s \notin room /\ wire[s] = <<>> /\ ~ x.peerPresent /\ x.step = "done"
  BY <1>3, <1>4 DEF WireInv, PathInv
<1>6. ~ \E t \in room : RoleOf[t] = RoleOf[s]
  BY <1>1, <1>5 DEF OneSessionEach
<1>7. PICK y : y = [x EXCEPT !.socket = "joined"]
  OBVIOUS
<1>8. /\ Set(s, y) /\ room' = room \cup {s}
      /\ wire' = [t \in Sessions |->
                   IF t = s THEN mine
                   ELSE IF t \in room /\ session[t].socket = "joined"
                        THEN Append(wire[t], Joined(s)) ELSE wire[t]]
  BY <1>6, <1>7 DEF Join
<1>9. room = {} \/ \E t \in Sessions \ {s} : room = {t}
  BY <1>1, <1>5, OneOther
<1>10. /\ mine \in Seq(Frame(s)) /\ DOMAIN mine = 1..Cardinality(room)
       /\ Cardinality(room) = IF room = {} THEN 0 ELSE 1
       /\ \A i \in DOMAIN mine : mine[i].type = "peer_joined"
  <2>1. IsFiniteSet(room) /\ Cardinality(room) = IF room = {} THEN 0 ELSE 1
    BY <1>9, FS_EmptySet, FS_Singleton
  <2> DEFINE n == Cardinality(room)
  <2>2. others \in [1..n -> room] /\ n \in Nat
    BY <2>1, SeqOfSet
  <2> HIDE DEF others, n
  <2>3. \A i \in 1..n : Joined(others[i]) \in Frame(s)
    <3> SUFFICES ASSUME NEW i \in 1..n PROVE Joined(others[i]) \in Frame(s)
      OBVIOUS
    <3>1. PICK t \in Sessions \ {s} : t = others[i]
      BY <1>1, <1>5, <2>2
    <3> QED  BY <3>1, CandidateFrame
  <2>4. DOMAIN mine = 1..n /\ \A i \in 1..n : mine[i] = Joined(others[i])
    BY <2>2
  <2>5. mine \in [1..n -> Frame(s)]
    BY <2>2, <2>3
  <2>6. \A i \in 1..n : mine[i].type = "peer_joined"
    BY <2>4 DEF Joined
  <2>7. mine \in Seq(Frame(s))
    BY <2>2, <2>5
  <2> QED  BY <2>1, <2>4, <2>6, <2>7 DEF n
<1> HIDE DEF mine
<1>11. /\ JoinedFirst(mine) /\ ~ Has(mine, "peer_left")
       /\ room = {} => mine = <<>>
       /\ room # {} => Has(mine, "peer_joined")
  BY <1>10 DEF JoinedFirst, Has
<1>12. /\ y.phase = x.phase /\ y.mic = x.mic /\ y.stopped = x.stopped
       /\ y.step = x.step /\ y.timers = x.timers /\ y.socket = "joined"
       /\ y.connection = x.connection /\ y.channel = x.channel
       /\ y.preflight = x.preflight /\ y.clock = x.clock
       /\ y.peerPresent = x.peerPresent
       /\ y.peerNegotiationStarted = x.peerNegotiationStarted
       /\ y.offers = x.offers /\ y.remote = x.remote
       /\ y.signalingState = x.signalingState /\ y.makingOffer = x.makingOffer
       /\ y.isSettingRemoteAnswerPending = x.isSettingRemoteAnswerPending
       /\ y.received = x.received /\ y.call = x.call /\ y.found = x.found
  BY <1>1, <1>7, FieldsAre
<1>13. PathInv(y) /\ StageInv(s, y)
  BY <1>3, <1>5, <1>12 DEF PathInv, StageInv
<1>14. WireInv(s, y, wire'[s], room')
  <2>1. wire'[s] = mine /\ s \in room'
    BY <1>8
  <2>2. (\E t \in room' : t # s) <=> room # {}
    BY <1>5, <1>8
  <2>3. WireInv(s, y, mine, room')
    BY <1>5, <1>11, <1>12, <2>1, <2>2 DEF WireInv
  <2> QED  BY <2>1, <2>3
<1>15. ASSUME NEW t \in Sessions \ {s}
       PROVE  SetupOf(t, session[t], wire'[t], room') /\ Lossless(wire[t], wire'[t])
  <2>1. /\ PathInv(session[t]) /\ StageInv(t, session[t])
        /\ WireInv(t, session[t], wire[t], room)
    BY <1>2, SessionFacts
  <2>2. wire[t] = <<>> /\ ~ session[t].peerPresent
    BY <1>9, <2>1 DEF WireInv
  <2>3. Lossless(wire[t], wire'[t])
    BY <2>2, EmptyHas DEF Lossless
  <2>4. CASE t \in room
    <3>1. PICK m \in Frame(t) : m = Joined(s)
      BY CandidateFrame
    <3>2. m.type = "peer_joined"
      BY <3>1 DEF Joined
    <3>3. session[t].socket = "joined"
      BY <2>1, <2>4 DEF WireInv
    <3>4. wire'[t] = Append(<<>>, m)
      BY <1>8, <2>2, <2>4, <3>1, <3>3
    <3> DEFINE r == Append(<<>>, m)
    <3>5. <<>> \in Seq(Frame(t)) /\ JoinedFirst(<<>>)
      BY DEF JoinedFirst
    <3>6. /\ Has(r, "peer_joined") /\ JoinedFirst(r)
          /\ \A type : Has(r, type) => type = "peer_joined"
      BY <3>2, <3>5, AppendHas, EmptyHas
    <3> HIDE DEF r
    <3>7. t \in room' /\ \E u \in room' : u # t
      BY <1>8, <2>4
    <3>8. WireInv(t, session[t], r, room')
      BY <2>2, <3>3, <3>6, <3>7 DEF WireInv
    <3> QED  BY <2>1, <2>3, <3>4, <3>8 DEF SetupOf, r
  <2>5. CASE t \notin room
    <3>1. wire'[t] = wire[t] /\ t \notin room'
      BY <1>8, <2>5
    <3>2. WireInv(t, session[t], wire[t], room')
      BY <2>1, <2>2, <2>5, <3>1 DEF WireInv
    <3> QED  BY <2>1, <2>3, <3>1, <3>2 DEF SetupOf
  <2> QED  BY <2>4, <2>5
<1>16. Forward(x, y) /\ (Answered(y) => Answered(x))
  BY <1>12 DEF Forward, Answered
<1>17. Lossless(wire[s], wire'[s])
  BY <1>5, EmptyHas DEF Lossless
<1>18. ASSUME NEW b \in Sessions, RoleOf[s] = "peer_a", RoleOf[b] = "peer_b"
       PROVE  Delivered(y, session[b], wire'[s], wire'[b])
  <2>1. Delivered(x, session[b], wire[s], wire[b]) /\ b # s
    BY <1>2, <1>18 DEF SetupInv
  <2>2. PICK toX, toY : toX = wire'[s] /\ toY = wire'[b]
    OBVIOUS
  <2>3. Lossless(wire[s], toX) /\ Lossless(wire[b], toY)
    BY <1>15, <1>17, <2>1, <2>2
  <2>4. Delivered(y, session[b], toX, toY)
    BY <1>16, <2>1, <2>3, NothingMoves, DeliveredKept
  <2> QED  BY <2>2, <2>4
<1>19. ASSUME NEW a \in Sessions, RoleOf[a] = "peer_a", RoleOf[s] = "peer_b"
       PROVE  Delivered(session[a], y, wire'[a], wire'[s])
  <2>1. Delivered(session[a], x, wire[a], wire[s]) /\ a # s
    BY <1>2, <1>19 DEF SetupInv
  <2>2. PICK toX, toY : toX = wire'[a] /\ toY = wire'[s]
    OBVIOUS
  <2>3. Lossless(wire[a], toX) /\ Lossless(wire[s], toY)
    BY <1>15, <1>17, <2>1, <2>2
  <2>4. Delivered(session[a], y, toX, toY)
    BY <1>16, <2>1, <2>3, NothingMoves, DeliveredKept
  <2> QED  BY <2>2, <2>4
<1>20. SetupOf(s, y, wire'[s], room')
  BY <1>13, <1>14 DEF SetupOf
<1>21. \A t \in Sessions \ {s} : SetupOf(t, session[t], wire'[t], room')
  BY <1>15
<1> QED  BY <1>8, <1>18, <1>19, <1>20, <1>21, SetupSet

\* s took the first frame: what is left to show is said of s and the other.
LEMMA TakenSetup ==
    ASSUME OneSessionEach, IInv, TalkInv, SetupInv, Calm, NEW s \in Sessions, NEW y,
           Set(s, y), wire[s] # <<>>, wire' = [wire EXCEPT ![s] = Tail(@)], room' = room,
           SetupOf(s, y, Tail(wire[s]), room),
           \A b \in Sessions : RoleOf[s] = "peer_a" /\ RoleOf[b] = "peer_b" =>
               Delivered(y, session[b], Tail(wire[s]), wire[b]),
           \A a \in Sessions : RoleOf[a] = "peer_a" /\ RoleOf[s] = "peer_b" =>
               Delivered(session[a], y, wire[a], Tail(wire[s]))
    PROVE  SetupInv'
<1>1. \A t \in Sessions : wire'[t] = IF t = s THEN Tail(wire[s]) ELSE wire[t]
  BY DEF TalkInv
<1>2. SetupOf(s, y, wire'[s], room')
  BY <1>1
<1>3. \A t \in Sessions \ {s} : SetupOf(t, session[t], wire'[t], room')
  BY <1>1 DEF SetupInv
<1>4. ASSUME NEW b \in Sessions, RoleOf[s] = "peer_a", RoleOf[b] = "peer_b"
      PROVE  Delivered(y, session[b], wire'[s], wire'[b])
  <2>1. wire'[s] = Tail(wire[s]) /\ wire'[b] = wire[b]
    BY <1>1, <1>4
  <2> QED  BY <1>4, <2>1
<1>5. ASSUME NEW a \in Sessions, RoleOf[a] = "peer_a", RoleOf[s] = "peer_b"
      PROVE  Delivered(session[a], y, wire'[a], wire'[s])
  <2>1. wire'[s] = Tail(wire[s]) /\ wire'[a] = wire[a]
    BY <1>1, <1>5
  <2> QED  BY <1>5, <2>1
<1> QED  BY <1>2, <1>3, <1>4, <1>5, SetupSet

\* What comes first on the way to s: the news of the other, and only then
\* what it relays.
LEMMA FirstFrame ==
    ASSUME IInv, TalkInv, SetupInv, Calm, NEW s \in Sessions, wire[s] # <<>>
    PROVE  LET x == session[s]
               m == Head(wire[s])
               q == Tail(wire[s])
           IN  /\ HasConnection(x) /\ x.step = "done" /\ m.type # "peer_left"
               /\ m.type = "peer_joined" => ~ x.peerPresent
               /\ m.type # "peer_joined" => x.peerPresent
               /\ \A type : Has(wire[s], type) => Has(q, type) \/ m.type = type
               /\ \A y : y.peerPresent /\ y.socket = x.socket => WireInv(s, y, q, room)
<1> DEFINE x == session[s]
           m == Head(wire[s])
           q == Tail(wire[s])
<1>1. /\ PathInv(x) /\ StageInv(s, x) /\ WireInv(s, x, wire[s], room)
      /\ wire[s] \in Seq(Frame(s)) /\ ~ x.stopped
  BY SessionFacts
<1>2. /\ \A type : /\ Has(wire[s], type) => Has(q, type) \/ m.type = type
                   /\ Has(q, type) => Has(wire[s], type)
      /\ ~ Has(q, "peer_joined") /\ JoinedFirst(q)
      /\ Has(wire[s], "peer_joined") => m.type = "peer_joined"
  BY <1>1, TailHas DEF WireInv
<1>3. Has(wire[s], m.type)
  BY <1>1, TailThinner
<1>4. s \in room /\ (\E t \in room : t # s) /\ x.socket = "joined"
  BY <1>1 DEF WireInv
<1>5. x.step = "done"
  BY <1>1, <1>4 DEF PathInv
<1>6. HasConnection(x)
  BY <1>1, <1>5 DEF HasConnection
<1> HIDE DEF x, m, q
<1>7. m.type # "peer_left" /\ (m.type = "peer_joined" => ~ x.peerPresent)
  BY <1>1, <1>3 DEF WireInv, x
<1>8. m.type # "peer_joined" => x.peerPresent
  BY <1>1, <1>2, <1>4 DEF WireInv, x
<1>9. ~ Has(q, "peer_left")
  BY <1>1, <1>2 DEF WireInv
<1>10. ASSUME NEW y, y.peerPresent, y.socket = x.socket
       PROVE  WireInv(s, y, q, room)
  BY <1>2, <1>4, <1>9, <1>10 DEF WireInv
<1> QED  BY <1>2, <1>5, <1>6, <1>7, <1>8, <1>10 DEF x, m, q

\* Before it is connected the phase of a session may change.
LEMMA PathFree ==
    ASSUME NEW x, NEW y, PathInv(x), x.connection # "connected", x.step = "done",
           y.phase # "microphone_ready", y.mic = x.mic, y.step = x.step,
           y.timers = x.timers, y.socket = x.socket, y.connection = x.connection,
           y.channel = x.channel, y.preflight = x.preflight, y.clock = x.clock
    PROVE  PathInv(y)
BY DEF PathInv

LEMMA JoinedSetup ==
    ASSUME OneSessionEach, IInv, TalkInv, SetupInv, Calm', NEW s \in Sessions, Receive(s),
           Head(wire[s]).type = "peer_joined"
    PROVE  SetupInv'
<1> DEFINE x == session[s]
           q == Tail(wire[s])
<1>1. PICK y : y = [x EXCEPT !.peerPresent = TRUE, !.phase = "peer_present",
                             !.disturbed = @ \/ x.timers # {}]
  OBVIOUS
<1>2. PICK z : z = maybeStartInitialNegotiation(s, y)
  OBVIOUS
<1>3. /\ Set(s, z) /\ wire[s] # <<>> /\ wire' = [wire EXCEPT ![s] = Tail(@)]
      /\ UNCHANGED <<room, faults>>
  BY <1>1, <1>2 DEF Receive, Received
<1>4. DOMAIN x = Fields
  BY DEF IInv, SessionInv, TypeInv
<1>5. /\ DOMAIN y = Fields /\ y.phase = "peer_present" /\ y.peerPresent
      /\ y.stopped = x.stopped /\ y.mic = x.mic
      /\ y.step = x.step /\ y.timers = x.timers /\ y.socket = x.socket
      /\ y.connection = x.connection /\ y.channel = x.channel
      /\ y.preflight = x.preflight /\ y.clock = x.clock
      /\ y.peerNegotiationStarted = x.peerNegotiationStarted
      /\ y.offers = x.offers /\ y.remote = x.remote
      /\ y.signalingState = x.signalingState /\ y.makingOffer = x.makingOffer
      /\ y.isSettingRemoteAnswerPending = x.isSettingRemoteAnswerPending
      /\ y.received = x.received /\ y.call = x.call /\ y.found = x.found
  BY <1>1, <1>4, FieldsAre
<1>6. PICK w : w = [y EXCEPT !.peerNegotiationStarted = TRUE, !.phase = "negotiating"]
  OBVIOUS
<1>7. PICK v : v = createAndSendOffer(w)
  OBVIOUS
<1>8. /\ DOMAIN w = Fields /\ w.phase = "negotiating" /\ w.peerPresent = y.peerPresent
      /\ w.stopped = y.stopped /\ w.mic = y.mic
      /\ w.step = y.step /\ w.timers = y.timers /\ w.socket = y.socket
      /\ w.connection = y.connection /\ w.channel = y.channel
      /\ w.preflight = y.preflight /\ w.clock = y.clock
      /\ w.peerNegotiationStarted = TRUE
      /\ w.offers = y.offers /\ w.remote = y.remote
      /\ w.signalingState = y.signalingState
      /\ w.isSettingRemoteAnswerPending = y.isSettingRemoteAnswerPending
      /\ w.received = y.received /\ w.found = y.found
  BY <1>5, <1>6, FieldsAre
<1>9. /\ v.phase = "negotiating" /\ v.peerPresent = w.peerPresent
      /\ v.stopped = w.stopped /\ v.mic = w.mic
      /\ v.step = w.step /\ v.timers = w.timers /\ v.socket = w.socket
      /\ v.connection = w.connection /\ v.channel = w.channel
      /\ v.preflight = w.preflight /\ v.clock = w.clock
      /\ v.peerNegotiationStarted = TRUE
      /\ v.offers = w.offers /\ v.remote = w.remote
      /\ v.signalingState = w.signalingState
      /\ v.isSettingRemoteAnswerPending = w.isSettingRemoteAnswerPending
      /\ v.received = w.received /\ v.found = w.found
      /\ v.makingOffer = TRUE /\ v.call = "createOffer"
  BY <1>7, <1>8, FieldsAre DEF createAndSendOffer
<1>10. z = IF /\ RoleOf[s] = "peer_a" /\ HasConnection(y) /\ y.peerPresent
              /\ ~ y.peerNegotiationStarted /\ ~ y.makingOffer
              /\ y.signalingState = "stable"
           THEN v ELSE y
  BY <1>2, <1>6, <1>7 DEF maybeStartInitialNegotiation
<1>11. z.stopped = x.stopped
  BY <1>5, <1>8, <1>9, <1>10
<1>12. Calm
  BY <1>3, <1>11, CalmBefore
<1>13. /\ PathInv(x) /\ StageInv(s, x)
       /\ RoleOf[s] = "peer_a" => OffererInv(x)
       /\ RoleOf[s] = "peer_b" => AnswererInv(x)
  BY <1>12, SessionFacts
<1>14. /\ HasConnection(x) /\ x.step = "done" /\ ~ x.peerPresent
       /\ \A type : Has(wire[s], type) => Has(q, type) \/ type = "peer_joined"
       /\ \A r : r.peerPresent /\ r.socket = x.socket => WireInv(s, r, q, room)
  BY <1>3, <1>12, FirstFrame
<1>15. x.remote = Null /\ x.call = Null /\ x.connection # "connected"
  BY <1>13, <1>14 DEF StageInv
<1>16. PathInv(z) /\ WireInv(s, z, q, room)
  <2>1. /\ z.phase \in {"peer_present", "negotiating"} /\ z.mic = x.mic
        /\ z.step = x.step /\ z.timers = x.timers /\ z.socket = x.socket
        /\ z.connection = x.connection /\ z.channel = x.channel
        /\ z.preflight = x.preflight /\ z.clock = x.clock /\ z.peerPresent
    BY <1>5, <1>8, <1>9, <1>10
  <2> QED  BY <1>13, <1>14, <1>15, <2>1, PathFree
<1>17. CASE RoleOf[s] = "peer_a"
  <2>1. ~ x.peerNegotiationStarted
    BY <1>13, <1>14, <1>17 DEF StageInv
  <2>2. x.offers = 0 /\ ~ x.makingOffer /\ x.signalingState = "stable"
    BY <1>13, <1>17, <2>1 DEF OffererInv
  <2>3. z = v
    <3>1. HasConnection(y)
      BY <1>5, <1>14 DEF HasConnection
    <3> QED  BY <1>5, <1>10, <1>17, <2>1, <2>2, <3>1
  <2>4. ~ x.isSettingRemoteAnswerPending
    BY <1>13, <1>15, DifferentCalls DEF StageInv
  <2>5. StageInv(s, z)
    BY <1>5, <1>8, <1>9, <1>14, <1>15, <1>17, <2>2, <2>3, <2>4 DEF StageInv
  <2>6. ASSUME NEW b \in Sessions, RoleOf[b] = "peer_b"
        PROVE  Delivered(z, session[b], q, wire[b])
    <3>1. Delivered(x, session[b], wire[s], wire[b])
      BY <1>12, <1>17, <2>6 DEF SetupInv
    <3>2. Forward(x, z)
      BY <1>5, <1>8, <1>9, <1>15, <2>3, DifferentCalls DEF Forward
    <3>3. Lossless(wire[s], q)
      BY <1>14 DEF Lossless
    <3> HIDE DEF q
    <3> QED  BY <3>1, <3>2, <3>3, NothingMoves, DeliveredKept
  <2>7. SetupOf(s, z, q, room)
    BY <1>16, <2>5 DEF SetupOf
  <2> QED  BY <1>3, <1>12, <1>17, <2>6, <2>7, TakenSetup
<1>18. CASE RoleOf[s] = "peer_b"
  <2>1. z = y
    BY <1>10, <1>18
  <2>2. StageInv(s, z)
    BY <1>5, <1>13, <1>14, <1>15, <1>18, <2>1, DifferentCalls DEF StageInv
  <2>3. ASSUME NEW a \in Sessions, RoleOf[a] = "peer_a"
        PROVE  Delivered(session[a], z, wire[a], q)
    <3>1. Delivered(session[a], x, wire[a], wire[s])
      BY <1>12, <1>18, <2>3 DEF SetupInv
    <3>2. Forward(x, z) /\ (Answered(z) => Answered(x))
      BY <1>5, <2>1 DEF Forward, Answered
    <3>3. Lossless(wire[s], q)
      BY <1>14 DEF Lossless
    <3> HIDE DEF q
    <3> QED  BY <3>1, <3>2, <3>3, NothingMoves, DeliveredKept
  <2>4. SetupOf(s, z, q, room)
    BY <1>16, <2>2 DEF SetupOf
  <2> QED  BY <1>3, <1>12, <1>18, <2>3, <2>4, TakenSetup
<1> QED  BY <1>17, <1>18, NegotiationAssumption

LEMMA DescriptionSetup ==
    ASSUME OneSessionEach, IInv, TalkInv, SetupInv, Calm', NEW s \in Sessions, Receive(s),
           Head(wire[s]).type \in {"offer", "answer"}, HasConnection(session[s])
    PROVE  SetupInv'
<1> DEFINE x == session[s]
           q == Tail(wire[s])
<1>1. PICK m : m = Head(wire[s])
  OBVIOUS
<1>2. PICK y : y = [x EXCEPT !.phase = "negotiating", !.disturbed = @ \/ x.timers # {}]
  OBVIOUS
<1>3. PICK z : z = Applied(y, m.type, m.from)
  OBVIOUS
<1>4. /\ Set(s, applySignalingDescription(y, RoleOf[s], m.type, m.from))
      /\ wire[s] # <<>> /\ wire' = [wire EXCEPT ![s] = Tail(@)]
      /\ UNCHANGED <<room, faults>>
  BY <1>1, <1>2 DEF Receive, Received
<1>5. DOMAIN x = Fields /\ ~ x.stopped
  BY DEF IInv, SessionInv, TypeInv, HasConnection
<1>6. /\ m.type = "offer" => RoleOf[s] = "peer_b" /\ Idle(x)
      /\ m.type = "answer" => RoleOf[s] = "peer_a" /\ Awaiting(x)
  BY <1>1, <1>4, <1>5, Expected
<1>7. Set(s, z)
  BY <1>1, <1>3, <1>4, <1>6 DEF applySignalingDescription, Applied, OfferCollision
<1>8. /\ DOMAIN y = Fields /\ y.phase = "negotiating" /\ y.peerPresent = x.peerPresent
      /\ y.stopped = x.stopped /\ y.mic = x.mic
      /\ y.step = x.step /\ y.timers = x.timers /\ y.socket = x.socket
      /\ y.connection = x.connection /\ y.channel = x.channel
      /\ y.preflight = x.preflight /\ y.clock = x.clock
      /\ y.peerNegotiationStarted = x.peerNegotiationStarted
      /\ y.offers = x.offers /\ y.remote = x.remote
      /\ y.signalingState = x.signalingState /\ y.makingOffer = x.makingOffer
      /\ y.received = x.received /\ y.found = x.found
  BY <1>2, <1>5, FieldsAre
<1>9. /\ z.phase = "negotiating" /\ z.peerPresent = x.peerPresent
      /\ z.stopped = x.stopped /\ z.mic = x.mic
      /\ z.step = x.step /\ z.timers = x.timers /\ z.socket = x.socket
      /\ z.connection = x.connection /\ z.channel = x.channel
      /\ z.preflight = x.preflight /\ z.clock = x.clock
      /\ z.peerNegotiationStarted = x.peerNegotiationStarted
      /\ z.offers = x.offers /\ z.remote = x.remote
      /\ z.signalingState = x.signalingState /\ z.makingOffer = x.makingOffer
      /\ z.received = x.received /\ z.found = x.found
      /\ z.isSettingRemoteAnswerPending = (m.type = "answer")
      /\ z.call = (IF m.type = "offer" THEN "setRemoteOffer" ELSE "setRemoteAnswer")
  BY <1>3, <1>8, FieldsAre DEF Applied
<1>10. Calm
  BY <1>4, <1>7, <1>9, CalmBefore
<1>11. PathInv(x) /\ StageInv(s, x)
  BY <1>10, SessionFacts
<1>12. /\ x.step = "done" /\ x.peerPresent
       /\ \A type : Has(wire[s], type) => Has(q, type) \/ m.type = type
       /\ WireInv(s, z, q, room)
  BY <1>1, <1>4, <1>9, <1>10, FirstFrame
<1>13. x.remote = Null /\ x.connection # "connected"
  BY <1>1, <1>6, <1>11 DEF Idle, Awaiting, StageInv
<1>14. PathInv(z)
  BY <1>9, <1>11, <1>12, <1>13, PathFree
<1>15. StageInv(s, z)
  BY <1>1, <1>6, <1>9, <1>11, <1>12, <1>13 DEF StageInv, Idle
<1>16. SetupOf(s, z, q, room)
  BY <1>12, <1>14, <1>15 DEF SetupOf
<1>17. ASSUME NEW b \in Sessions, RoleOf[s] = "peer_a", RoleOf[b] = "peer_b"
       PROVE  Delivered(z, session[b], q, wire[b])
  <2>1. Delivered(x, session[b], wire[s], wire[b])
    BY <1>10, <1>17 DEF SetupInv
  <2>2. m.type = "answer"
    BY <1>1, <1>6, <1>17
  <2> HIDE DEF q
  <2> QED  BY <1>9, <1>12, <2>1, <2>2 DEF Delivered
<1>18. ASSUME NEW a \in Sessions, RoleOf[a] = "peer_a", RoleOf[s] = "peer_b"
       PROVE  Delivered(session[a], z, wire[a], q)
  <2>1. Delivered(session[a], x, wire[a], wire[s])
    BY <1>10, <1>18 DEF SetupInv
  <2>2. m.type = "offer"
    BY <1>1, <1>6, <1>18
  <2> HIDE DEF q
  <2> QED  BY <1>9, <1>12, <1>13, <2>1, <2>2 DEF Delivered
<1> QED  BY <1>4, <1>7, <1>10, <1>16, <1>17, <1>18, TakenSetup

LEMMA CandidateSetup ==
    ASSUME OneSessionEach, IInv, TalkInv, SetupInv, Calm', NEW s \in Sessions, Receive(s),
           Head(wire[s]).type = "candidate", HasConnection(session[s])
    PROVE  SetupInv'
<1> DEFINE x == session[s]
           q == Tail(wire[s])
<1>1. PICK m : m = Head(wire[s])
  OBVIOUS
<1>2. PICK c : c = [from |-> m.from, number |-> m.number]
  OBVIOUS
<1>3. PICK y : y = ReceiveCandidate(x, c)
  OBVIOUS
<1>4. /\ Set(s, y) /\ wire[s] # <<>> /\ wire' = [wire EXCEPT ![s] = Tail(@)]
      /\ UNCHANGED <<room, faults>>
  BY <1>1, <1>2, <1>3 DEF Receive, Received
<1>5. DOMAIN x = Fields
  BY DEF IInv, SessionInv, TypeInv
<1>6. /\ SamePath(x, y) /\ y.offers = x.offers /\ y.remote = x.remote
      /\ y.signalingState = x.signalingState /\ y.makingOffer = x.makingOffer
      /\ y.isSettingRemoteAnswerPending = x.isSettingRemoteAnswerPending
      /\ y.received = x.received \cup {c} /\ y.call = x.call
  BY <1>3, <1>5, FieldsAre DEF ReceiveCandidate, SamePath
<1>7. Calm
  BY <1>4, <1>6, CalmBefore DEF SamePath
<1>8. PathInv(x) /\ StageInv(s, x)
  BY <1>7, SessionFacts
<1>9. /\ x.peerPresent
      /\ \A type : Has(wire[s], type) => Has(q, type) \/ m.type = type
      /\ \A r : r.peerPresent /\ r.socket = x.socket => WireInv(s, r, q, room)
  BY <1>1, <1>4, <1>7, FirstFrame
<1>10. WireInv(s, y, q, room)
  BY <1>6, <1>9 DEF SamePath
<1>11. PathInv(y)
  BY <1>6, <1>8, PathKept
<1>12. StageInv(s, y)
  BY <1>6, <1>8 DEF StageInv, SamePath
<1>13. SetupOf(s, y, q, room)
  BY <1>10, <1>11, <1>12 DEF SetupOf
<1>14. y.received # {} /\ m.type = "candidate" /\ y.found = x.found
  BY <1>1, <1>6 DEF SamePath
<1>15. ASSUME NEW b \in Sessions, RoleOf[s] = "peer_a", RoleOf[b] = "peer_b"
       PROVE  Delivered(y, session[b], q, wire[b])
  <2>1. Delivered(x, session[b], wire[s], wire[b])
    BY <1>7, <1>15 DEF SetupInv
  <2> HIDE DEF q
  <2> QED  BY <1>6, <1>9, <1>14, <2>1 DEF Delivered
<1>16. ASSUME NEW a \in Sessions, RoleOf[a] = "peer_a", RoleOf[s] = "peer_b"
       PROVE  Delivered(session[a], y, wire[a], q)
  <2>1. Delivered(session[a], x, wire[a], wire[s])
    BY <1>7, <1>16 DEF SetupInv
  <2> HIDE DEF q
  <2> QED  BY <1>6, <1>9, <1>14, <2>1 DEF Delivered
<1> QED  BY <1>4, <1>7, <1>13, <1>15, <1>16, TakenSetup

LEMMA ReceiveSetup ==
    ASSUME OneSessionEach, IInv, TalkInv, SetupInv, Calm', NEW s \in Sessions, Receive(s)
    PROVE  SetupInv'
<1> DEFINE x == session[s]
<1>1. PICK m : m = Head(wire[s])
  OBVIOUS
<1>2. /\ Set(s, Received(s, x, m)) /\ wire[s] # <<>> /\ UNCHANGED <<room, faults>>
  BY <1>1 DEF Receive
<1>3. m \in Frame(s)
  BY <1>1, <1>2, Expected
<1>4. CASE m.type = "peer_joined"
  BY <1>1, <1>4, JoinedSetup
<1>5. m.type # "peer_joined" => Calm
  <2> SUFFICES ASSUME m.type # "peer_joined" PROVE Calm
    OBVIOUS
  <2>1. PICK y : y = Received(s, x, m)
    OBVIOUS
  <2>2. y.stopped = x.stopped
    <3>1. DOMAIN x = Fields
      BY DEF IInv, SessionInv, TypeInv
    <3>2. CASE m.type = "peer_left"
      <4>1. PICK z : z = [x EXCEPT !.peerPresent = FALSE]
        OBVIOUS
      <4>2. DOMAIN z = Fields /\ z.stopped = x.stopped
        BY <3>1, <4>1, FieldsAre
      <4>3. y = invalidateStatsPreflight(z)
        BY <2>1, <3>2, <4>1 DEF Received
      <4> QED  BY <4>2, <4>3, InvalidateQuiet DEF Quiet
    <3>3. CASE m.type \in {"offer", "answer"}
      BY <2>1, <3>1, <3>3, FieldsAre DEF Received, applySignalingDescription
    <3>4. CASE m.type = "candidate"
      BY <2>1, <3>1, <3>4, FieldsAre DEF Received, ReceiveCandidate
    <3> QED  BY <1>3, <3>2, <3>3, <3>4 DEF Frame
  <2> QED  BY <1>2, <2>1, <2>2, CalmBefore
<1>6. m.type # "peer_joined" => HasConnection(x) /\ m.type # "peer_left"
  BY <1>1, <1>2, <1>5, FirstFrame
<1>7. CASE m.type \in {"offer", "answer"}
  BY <1>1, <1>6, <1>7, DescriptionSetup
<1>8. CASE m.type = "candidate"
  BY <1>1, <1>6, <1>8, CandidateSetup
<1> QED  BY <1>3, <1>4, <1>6, <1>7, <1>8 DEF Frame

LEMMA SetupInit ==
    ASSUME Init
    PROVE  SetupInv
<1> DEFINE n == createNegotiationState
           x == With(New, n)
<1>1. /\ session = [s \in Sessions |-> x] /\ room = {}
      /\ wire = [s \in Sessions |-> <<>>]
  BY DEF Init
<1>2. /\ x.phase = "prepared" /\ x.mic = "off" /\ x.step = "idle" /\ x.timers = {}
      /\ x.socket = "none" /\ x.connection = "new" /\ x.channel = "none"
      /\ x.preflight = "none" /\ x.clock = "none"
  BY DEF New, createNegotiationState, With
<1>3. /\ x.peerPresent = FALSE /\ x.peerNegotiationStarted = FALSE /\ x.call = Null
      /\ x.isSettingRemoteAnswerPending = FALSE /\ x.remote = Null
      /\ x.signalingState = "stable" /\ x.offers = 0 /\ x.found = 0
  BY DEF New, createNegotiationState, With
<1> HIDE DEF x
<1>4. PathInv(x)
  BY <1>2 DEF PathInv
<1>5. \A s : StageInv(s, x)
  BY <1>2, <1>3, DifferentCalls DEF StageInv
<1>6. \A s : WireInv(s, x, <<>>, {})
  BY <1>2, <1>3, EmptyHas DEF WireInv, JoinedFirst
<1>7. Delivered(x, x, <<>>, <<>>)
  BY <1>3 DEF Delivered
<1>8. \A s \in Sessions : session[s] = x /\ wire[s] = <<>>
  BY <1>1
<1>9. \A s \in Sessions : SetupOf(s, session[s], wire[s], room)
  BY <1>1, <1>4, <1>5, <1>6, <1>8 DEF SetupOf
<1> QED  BY <1>7, <1>8, <1>9 DEF SetupInv

LEMMA SetupNext ==
    ASSUME OneSessionEach, IInv, TalkInv, AgainInv, SetupInv, [Next]_vars
    PROVE  SetupInv'
<1>1. CASE UNCHANGED vars
  BY <1>1 DEF vars, SetupInv, Calm, SetupOf
<1>2. CASE ~ Calm'
  BY <1>2 DEF SetupInv
<1>3. ASSUME NEW s \in Sessions, Calm',
             \/ User(s) \/ Progresses(s)
             \/ StreamArrives(s) \/ SecondStreamArrives(s) \/ TrackSwapped(s)
             \/ TrackReplaced(s) \/ ClientLoaded(s)
             \/ Join(s) \/ Leave(s)
             \/ CallRejects(s) \/ ConnectionGoes(s) \/ ChannelCloses(s)
             \/ ObservationEnds(s)
             \/ \E k \in 1 .. MaxObservations[s] :
                    SamplerAsks(s, k) \/ SamplerAnswers(s, k) \/ SamplerExpires(s, k)
      PROVE  SetupInv'
  <2>1. CASE \/ EnableMicrophone(s) \/ Connect(s) \/ StartObservation(s)
             \/ StreamArrives(s) \/ TrackReplaced(s) \/ ClientLoaded(s)
    BY <1>3, <2>1, UserSetup
  <2>2. CASE \/ Stop(s) \/ Leave(s) \/ CallRejects(s)
             \/ ConnectionGoes(s) \/ ChannelCloses(s)
    BY <1>3, <2>2, NotCalm
  <2>3. CASE CallResolves(s)
    BY <1>3, <2>3, SettledSetup, OfferSetup, AnswerSetup
  <2>4. CASE Receive(s)
    BY <1>3, <2>4, ReceiveSetup
  <2>5. CASE FindsCandidate(s)
    BY <1>3, <2>5, FindsSetup
  <2>6. CASE ConnectionComes(s)
    BY <1>3, <2>6, ComesSetup
  <2>7. CASE ChannelOpens(s)
    BY <1>3, <2>7, OpensSetup
  <2>8. CASE ProbeCompletes(s) \/ PreflightSettles(s)
    BY <1>3, <2>8, VerdictSetup
  <2>9. CASE Join(s)
    BY <1>3, <2>9, JoinSetup
  <2>10. CASE \/ ObservationEnds(s)
              \/ \E k \in 1 .. MaxObservations[s] :
                     SamplerAsks(s, k) \/ SamplerAnswers(s, k) \/ SamplerExpires(s, k)
    BY <1>3, <2>10, SamplingSetup
  <2>11. ~ (EnableAgain(s) \/ SecondStreamArrives(s) \/ TrackSwapped(s))
    BY <1>3, AgainNever DEF Calm
  <2> QED  BY <1>3, <2>1, <2>2, <2>3, <2>4, <2>5, <2>6, <2>7, <2>8, <2>9, <2>10, <2>11
              DEF User, Progresses
<1> QED  BY <1>1, <1>2, <1>3 DEF Next

\* While nothing fails and nobody stops, what the setup of session.ts waits for
\* was asked for and is on its way: who joined, the offer, the answer, the
\* candidates, the verdicts of the probe and of the preflight.
THEOREM SetupInvariance ==
    ASSUME OneSessionEach
    PROVE  Spec => []SetupInv
<1>1. Init => SetupInv
  BY SetupInit
<1>2. IInv /\ TalkInv /\ AgainInv /\ SetupInv /\ [Next]_vars => SetupInv'
  BY SetupNext
<1> QED  BY <1>1, <1>2, Invariance, TalkInvariance, AgainInvariance, PTL DEF Spec

\* Two peers in a calm room that wait for nothing applied each other's
\* descriptions.
LEMMA WaitersApplied ==
    ASSUME OneSessionEach, IInv, TalkInv, SetupInv, Calm,
           NEW a \in Sessions, NEW b \in Sessions,
           RoleOf[a] = "peer_a", RoleOf[b] = "peer_b", {a, b} \subseteq room,
           ~ CanProgress(a), ~ CanProgress(b)
    PROVE  LET x == session[a]
               y == session[b]
           IN  /\ HasConnection(x) /\ HasConnection(y)
               /\ x.call = Null /\ y.call = Null
               /\ x.remote = b /\ y.remote = a
               /\ x.signalingState = "stable" /\ y.signalingState = "stable"
               /\ Delivered(x, y, <<>>, <<>>)
<1> DEFINE x == session[a]
           y == session[b]
<1>1. /\ ~ x.stopped /\ ~ y.stopped
      /\ StageInv(a, x) /\ WireInv(a, x, wire[a], room)
      /\ StageInv(b, y) /\ WireInv(b, y, wire[b], room)
      /\ x.remote \in (Sessions \ {a}) \cup {Null}
      /\ y.remote \in (Sessions \ {b}) \cup {Null}
      /\ OffererInv(x)
  BY SessionFacts
<1>2. /\ Delivered(x, y, wire[a], wire[b]) /\ a # b
  BY DEF SetupInv
<1>3. x.call = Null /\ y.call = Null
  BY DEF CanProgress
<1>4. x.socket = "joined" /\ y.socket = "joined"
  BY <1>1 DEF WireInv
<1>5. wire[a] = <<>> /\ wire[b] = <<>>
  BY <1>4 DEF CanProgress
<1>6. x.peerPresent /\ y.peerPresent
  BY <1>1, <1>2, <1>5, EmptyHas DEF WireInv
<1>7. HasConnection(x) /\ HasConnection(y)
  BY <1>1, <1>6 DEF StageInv, HasConnection
<1>8. x.offers = 1
  BY <1>1, <1>3, <1>6, DifferentCalls DEF StageInv, OffererInv
<1>9. y.remote # Null /\ y.signalingState = "stable"
  BY <1>1, <1>2, <1>3, <1>5, <1>8, EmptyHas, DifferentCalls DEF Delivered, StageInv
<1>10. x.remote # Null
  BY <1>2, <1>3, <1>5, <1>9, EmptyHas, DifferentCalls DEF Delivered
<1>11. x.signalingState = "stable"
  BY <1>1, <1>10 DEF StageInv
<1>12. x.remote = b /\ y.remote = a
  BY <1>1, <1>2, <1>9, <1>10, OneOther
<1> QED  BY <1>2, <1>3, <1>5, <1>7, <1>9, <1>11, <1>12

\* Some session finds a candidate; without any no path is ever tried.
CandidatesFound == \E s \in Sessions : MaxCandidates[s] > 0

\* And each of them can try the path to the other.
LEMMA WaitersLinked ==
    ASSUME OneSessionEach, CandidatesFound, IInv, TalkInv, SetupInv, Calm,
           NEW a \in Sessions, NEW b \in Sessions,
           RoleOf[a] = "peer_a", RoleOf[b] = "peer_b", {a, b} \subseteq room,
           ~ CanProgress(a), ~ CanProgress(b)
    PROVE  /\ Linked(a) /\ Linked(b)
           /\ session[a].remote = b /\ session[b].remote = a
<1> DEFINE x == session[a]
           y == session[b]
<1>1. /\ HasConnection(x) /\ HasConnection(y)
      /\ x.call = Null /\ y.call = Null
      /\ x.remote = b /\ y.remote = a
      /\ x.signalingState = "stable" /\ y.signalingState = "stable"
      /\ Delivered(x, y, <<>>, <<>>)
  BY WaitersApplied
<1>2. a # Null /\ b # Null
  BY CallsAre
<1>3. /\ MaxCandidates[a] \in Nat /\ MaxCandidates[b] \in Nat
      /\ x.found \in Nat /\ y.found \in Nat
  BY SessionFacts, NegotiationAssumption
<1>4. x.found >= MaxCandidates[a] /\ y.found >= MaxCandidates[b]
  BY <1>1, <1>2, <1>3 DEF CanProgress
<1>5. MaxCandidates[a] > 0 \/ MaxCandidates[b] > 0
  <2>1. PICK s \in Sessions : MaxCandidates[s] > 0
    BY DEF CandidatesFound
  <2>2. s = a \/ s = b
    BY NegotiationAssumption DEF OneSessionEach
  <2> QED  BY <2>1, <2>2
<1>6. x.found > 0 \/ y.found > 0
  BY <1>3, <1>4, <1>5
<1>7. x.received # {} \/ y.received # {}
  BY <1>1, <1>6, EmptyHas DEF Delivered
<1>8. x.received \subseteq x.added /\ y.received \subseteq y.added
  <2>1. Range(<<>>) = {}
    BY DEF Range
  <2>2. CandidateInv(a, x, faults = 0) /\ CandidateInv(b, y, faults = 0) /\ faults = 0
    BY DEF TalkInv, TalkOf, Calm
  <2>3. x.buffer = <<>> /\ y.buffer = <<>>
    BY <1>1, <1>2, <2>2 DEF CandidateInv
  <2> QED  BY <2>1, <2>2, <2>3 DEF CandidateInv
<1>9. x.added \cup y.added # {}
  BY <1>7, <1>8
<1> QED  BY <1>1, <1>2, <1>9 DEF Linked

\* Who is linked, in a calm room, and has nothing left to do is ready.
LEMMA LinkedReady ==
    ASSUME IInv, TalkInv, SetupInv, Calm, NEW s \in Sessions, Linked(s),
           session[session[s].remote].channel = "open",
           session[s].channel = "open", ~ CanProgress(s)
    PROVE  session[s].phase \in ReadyPhases
<1> DEFINE x == session[s]
<1>1. PathInv(x)
  BY SessionFacts
<1>2. x.clock # "probing" /\ x.preflight # "probing"
  BY DEF CanProgress
<1> QED  BY <1>1, <1>2 DEF PathInv

\* The channel of who is linked, in a calm room, is open in the end.
LEMMA LinkedOpen ==
    ASSUME IInv, TalkInv, SetupInv, Calm, NEW s \in Sessions, Linked(s),
           ~ CanProgress(s)
    PROVE  session[s].channel = "open"
<1>1. PathInv(session[s])
  BY SessionFacts
<1> QED  BY <1>1 DEF PathInv, CanProgress

\* No setup waits for what never comes: with one session of each role and a
\* candidate to be found, whatever order the callbacks of session.ts run in,
\* two peers in the room are ready to observe, or one of them goes on by itself.
THEOREM NeverStalls ==
    ASSUME OneSessionEach, CandidatesFound
    PROVE  Spec => []SetupNeverStalls
<1>1. ASSUME IInv, TalkInv, SetupInv, Calm,
             NEW a \in Sessions, NEW b \in Sessions,
             RoleOf[a] = "peer_a", RoleOf[b] = "peer_b", {a, b} \subseteq room,
             ~ CanProgress(a), ~ CanProgress(b)
      PROVE  session[a].phase \in ReadyPhases /\ session[b].phase \in ReadyPhases
  <2>1. /\ Linked(a) /\ Linked(b)
        /\ session[a].remote = b /\ session[b].remote = a
    BY <1>1, WaitersLinked
  <2>2. session[a].channel = "open" /\ session[b].channel = "open"
    BY <1>1, <2>1, LinkedOpen
  <2> QED  BY <1>1, <2>1, <2>2, LinkedReady
<1>2. ASSUME IInv, TalkInv, SetupInv
      PROVE  SetupNeverStalls
  <2> SUFFICES ASSUME NEW s \in Sessions, NEW t \in Sessions, s # t,
                      {s, t} \subseteq room, Calm, ~ CanProgress(s), ~ CanProgress(t)
               PROVE  session[s].phase \in ReadyPhases
    BY DEF SetupNeverStalls
  <2>1. \/ RoleOf[s] = "peer_a" /\ RoleOf[t] = "peer_b"
        \/ RoleOf[s] = "peer_b" /\ RoleOf[t] = "peer_a"
    BY NegotiationAssumption DEF OneSessionEach
  <2> QED  BY <1>1, <1>2, <2>1
<1>3. IInv /\ TalkInv /\ SetupInv => SetupNeverStalls
  BY <1>2
<1> QED  BY <1>3, Invariance, TalkInvariance, SetupInvariance, PTL

-----------------------------------------------------------------------------
(* A setup ends                                                            *)

\* What x has left to do on its path to readiness.
PathWork(x) ==
    (IF x.mic = "off" THEN 2 ELSE IF x.mic = "asking" THEN 1 ELSE 0)
    + (IF x.step = "idle" THEN 10 ELSE IF x.step = "replacing" THEN 9
       ELSE IF x.step = "importing" THEN 8 ELSE IF x.socket = "connecting" THEN 7 ELSE 0)
    + (IF x.connection = "connected" THEN 0 ELSE 1)
    + (IF x.channel = "open" THEN 0 ELSE 2)
    + (IF x.clock = "probing" THEN 1 ELSE 0)
    + (IF x.preflight = "none" THEN 2 ELSE IF x.preflight = "probing" THEN 1 ELSE 0)

\* A call that is to relay a frame counts that as well.
CallWork(call) ==
    CASE call = "createOffer" -> 5
      [] call = "setOffer" -> 4
      [] call = "setRemoteOffer" -> 1
      [] call = "createAnswer" -> 6
      [] call = "setAnswer" -> 5
      [] call = "setRemoteAnswer" -> 2
      [] call = "flush" -> 1
      [] OTHER -> 0

CandidatesLeft(s, x) ==
    IF x.found < MaxCandidates[s] THEN MaxCandidates[s] - x.found ELSE 0

\* And in its negotiation.
TalkWork(s, x) ==
    (IF RoleOf[s] = "peer_a" /\ ~ x.peerNegotiationStarted THEN 6 ELSE 0)
    + (IF x.remote = Null THEN 7 ELSE 0)
    + CallWork(x.call)
    + 4 * CandidatesLeft(s, x)
    + (Len(x.buffer) - x.cursor)

\* A frame leaves at most two steps to whoever takes it.
SessionWork(s, x, q) == PathWork(x) + TalkWork(s, x) + 3 * Len(q)

SetupWork(a, b) ==
    SessionWork(a, session[a], wire[a]) + SessionWork(b, session[b], wire[b])

\* What goes on around an observation, however long.
Observes(s) ==
    \/ ObservationEnds(s)
    \/ \E k \in 1 .. MaxObservations[s] :
           SamplerAsks(s, k) \/ SamplerAnswers(s, k) \/ SamplerExpires(s, k)

LEMMA CallWorkIs ==
    /\ CallWork(Null) = 0 /\ CallWork("flush") = 1 /\ CallWork("setRemoteAnswer") = 2
    /\ CallWork("setAnswer") = 5 /\ CallWork("createAnswer") = 6
    /\ CallWork("setRemoteOffer") = 1 /\ CallWork("setOffer") = 4
    /\ CallWork("createOffer") = 5
    /\ \A call : CallWork(call) \in Nat
BY DifferentCalls DEF CallWork

LEMMA PathWorkIs ==
    ASSUME NEW x
    PROVE  PathWork(x) \in Nat
BY DEF PathWork

LEMMA TalkWorkIs ==
    ASSUME NEW s \in Sessions, NEW x, NEW calm, TalkOf(s, x, calm)
    PROVE  /\ TalkWork(s, x) \in Nat /\ CandidatesLeft(s, x) \in Nat
           /\ Len(x.buffer) \in Nat /\ x.cursor \in Nat
<1>1. /\ x.found \in Nat /\ x.buffer \in Seq(Candidate) /\ x.cursor \in Nat
      /\ x.cursor = 0 \/ x.cursor < Len(x.buffer)
  BY DEF TalkOf, CandidateInv
<1>2. MaxCandidates[s] \in Nat
  BY NegotiationAssumption
<1>3. CandidatesLeft(s, x) \in Nat
  BY <1>1, <1>2 DEF CandidatesLeft
<1>4. Len(x.buffer) \in Nat /\ Len(x.buffer) - x.cursor \in Nat
  <2>1. Len(x.buffer) \in Nat
    BY <1>1
  <2> QED  BY <1>1, <2>1
<1>5. CallWork(x.call) \in Nat
  BY CallWorkIs
<1> QED  BY <1>1, <1>3, <1>4, <1>5 DEF TalkWork

\* s did a step and relayed n frames.
LEMMA WorkFalls ==
    ASSUME OneSessionEach, IInv, TalkInv, TalkInv',
           NEW a \in Sessions, NEW b \in Sessions,
           RoleOf[a] = "peer_a", RoleOf[b] = "peer_b",
           NEW s \in Sessions, NEW y, Set(s, y), NEW n \in Nat,
           \A t \in Sessions \ {s} : Len(wire'[t]) <= Len(wire[t]) + n
    PROVE  /\ SetupWork(a, b) \in Nat
           /\ SessionWork(s, y, wire'[s]) + 3 * n < SessionWork(s, session[s], wire[s])
                => SetupWork(a, b)' < SetupWork(a, b)
           /\ SessionWork(s, y, wire'[s]) = SessionWork(s, session[s], wire[s]) /\ n = 0
              /\ (\A t \in Sessions \ {s} : wire'[t] = wire[t])
                => SetupWork(a, b)' = SetupWork(a, b)
<1>1. \A t \in Sessions : session'[t] = IF t = s THEN y ELSE session[t]
  BY DEF IInv, Set
<1>2. a # b /\ (s = a \/ s = b)
  BY NegotiationAssumption DEF OneSessionEach
<1>3. ASSUME NEW t \in Sessions
      PROVE  /\ SessionWork(t, session[t], wire[t]) \in Nat
             /\ SessionWork(t, session'[t], wire'[t]) \in Nat
             /\ Len(wire[t]) \in Nat /\ Len(wire'[t]) \in Nat
  <2>1. TalkOf(t, session[t], faults = 0) /\ wire[t] \in Seq(Frame(t))
    BY DEF TalkInv
  <2>2. TalkOf(t, session'[t], faults' = 0) /\ wire'[t] \in Seq(Frame(t))
    BY DEF TalkInv
  <2>3. Len(wire[t]) \in Nat /\ Len(wire'[t]) \in Nat
    BY <2>1, <2>2, Elements
  <2> QED  BY <2>1, <2>2, <2>3, TalkWorkIs, PathWorkIs DEF SessionWork
<1>4. ASSUME NEW t \in Sessions \ {s}
      PROVE  SessionWork(t, session'[t], wire'[t]) <= SessionWork(t, session[t], wire[t]) + 3 * n
  <2>1. session'[t] = session[t] /\ Len(wire'[t]) <= Len(wire[t]) + n
    BY <1>1
  <2>2. TalkOf(t, session[t], faults = 0)
    BY DEF TalkInv
  <2>3. PathWork(session[t]) \in Nat /\ TalkWork(t, session[t]) \in Nat
    BY <2>2, PathWorkIs, TalkWorkIs
  <2>4. /\ SessionWork(t, session'[t], wire'[t])
             = PathWork(session[t]) + TalkWork(t, session[t]) + 3 * Len(wire'[t])
        /\ SessionWork(t, session[t], wire[t])
             = PathWork(session[t]) + TalkWork(t, session[t]) + 3 * Len(wire[t])
    BY <2>1 DEF SessionWork
  <2> DEFINE p == PathWork(session[t]) + TalkWork(t, session[t])
             k == Len(wire[t])
             l == Len(wire'[t])
  <2>5. p \in Nat /\ k \in Nat /\ l \in Nat /\ l <= k + n
    BY <1>3, <2>1, <2>3
  <2>6. /\ SessionWork(t, session'[t], wire'[t]) = p + 3 * l
        /\ SessionWork(t, session[t], wire[t]) = p + 3 * k
    BY <2>4
  <2> HIDE DEF p, k, l
  <2>7. p + 3 * l <= (p + 3 * k) + 3 * n
    BY <2>5
  <2> QED  BY <2>6, <2>7
<1>5. ASSUME NEW t \in Sessions \ {s}, wire'[t] = wire[t]
      PROVE  SessionWork(t, session'[t], wire'[t]) = SessionWork(t, session[t], wire[t])
  BY <1>1, <1>5
<1>6. SetupWork(a, b)' = SessionWork(a, session'[a], wire'[a])
                         + SessionWork(b, session'[b], wire'[b])
  BY DEF SetupWork
<1>7. SetupWork(a, b) \in Nat
  BY <1>3 DEF SetupWork
<1>8. session'[s] = y
  BY <1>1
<1> DEFINE W(t) == SessionWork(t, session[t], wire[t])
           V(t) == SessionWork(t, session'[t], wire'[t])
<1>9. /\ W(a) \in Nat /\ W(b) \in Nat /\ V(a) \in Nat /\ V(b) \in Nat
      /\ SetupWork(a, b) = W(a) + W(b) /\ SetupWork(a, b)' = V(a) + V(b)
      /\ V(s) = SessionWork(s, y, wire'[s])
      /\ \A t \in Sessions \ {s} : V(t) <= W(t) + 3 * n
      /\ \A t \in Sessions \ {s} : wire'[t] = wire[t] => V(t) = W(t)
  BY <1>3, <1>4, <1>5, <1>6, <1>8 DEF SetupWork
<1> HIDE DEF V, W
<1>10. V(s) + 3 * n < W(s) => V(a) + V(b) < W(a) + W(b)
  BY <1>2, <1>9
<1>11. V(s) = W(s) /\ n = 0 /\ (\A t \in Sessions \ {s} : wire'[t] = wire[t])
         => V(a) + V(b) = W(a) + W(b)
  BY <1>2, <1>9
<1> QED  BY <1>7, <1>9, <1>10, <1>11 DEF W

\* Steps that leave the negotiation and the frames alone.
LEMMA PathFalls ==
    ASSUME OneSessionEach, IInv, TalkInv, TalkInv',
           NEW a \in Sessions, NEW b \in Sessions,
           RoleOf[a] = "peer_a", RoleOf[b] = "peer_b",
           NEW s \in Sessions, NEW y, Set(s, y), UNCHANGED wire,
           Quiet(session[s], y), y.found = session[s].found
    PROVE  /\ SetupWork(a, b) \in Nat
           /\ PathWork(y) < PathWork(session[s]) => SetupWork(a, b)' < SetupWork(a, b)
           /\ PathWork(y) = PathWork(session[s]) => SetupWork(a, b)' = SetupWork(a, b)
<1> DEFINE x == session[s]
           q == wire[s]
<1>1. TalkWork(s, y) = TalkWork(s, x)
  BY DEF TalkWork, CandidatesLeft, Quiet
<1>2. /\ \A t \in Sessions : wire'[t] = wire[t] /\ Len(wire[t]) \in Nat
      /\ TalkOf(s, x, faults = 0)
  BY Elements DEF TalkInv
<1>3. \A t \in Sessions \ {s} : Len(wire'[t]) <= Len(wire[t]) + 0
  BY <1>2
<1>4. TalkWork(s, x) \in Nat /\ PathWork(x) \in Nat /\ PathWork(y) \in Nat /\ Len(q) \in Nat
  BY <1>2, PathWorkIs, TalkWorkIs
<1>5. /\ SessionWork(s, y, wire'[s]) = PathWork(y) + TalkWork(s, x) + 3 * Len(q)
      /\ SessionWork(s, x, wire[s]) = PathWork(x) + TalkWork(s, x) + 3 * Len(q)
  BY <1>1, <1>2 DEF SessionWork
<1> DEFINE n == 0
<1>6. /\ SetupWork(a, b) \in Nat
      /\ SessionWork(s, y, wire'[s]) + 3 * n < SessionWork(s, x, wire[s])
           => SetupWork(a, b)' < SetupWork(a, b)
      /\ SessionWork(s, y, wire'[s]) = SessionWork(s, x, wire[s]) /\ n = 0
         /\ (\A t \in Sessions \ {s} : wire'[t] = wire[t])
           => SetupWork(a, b)' = SetupWork(a, b)
  BY <1>3, WorkFalls
<1>7. CASE PathWork(y) < PathWork(x)
  <2>1. SessionWork(s, y, wire'[s]) + 3 * n < SessionWork(s, x, wire[s])
    BY <1>4, <1>5, <1>7
  <2> QED  BY <1>4, <1>6, <1>7, <2>1
<1>8. CASE PathWork(y) = PathWork(x)
  BY <1>2, <1>4, <1>5, <1>6, <1>8
<1> QED  BY <1>6, <1>7, <1>8

\* An evaluation may start the preflight, and takes nothing back.
LEMMA EvaluateWork ==
    ASSUME NEW x, DOMAIN x = Fields, x.preflight \in {"none", "probing", "available"}
    PROVE  LET y == evaluateReadyToObserve(x)
           IN  Quiet(x, y) /\ y.found = x.found /\ PathWork(y) <= PathWork(x)
<1> DEFINE Same(z) == /\ DOMAIN z = Fields /\ z.mic = x.mic /\ z.step = x.step
                      /\ z.socket = x.socket /\ z.connection = x.connection
                      /\ z.channel = x.channel /\ z.clock = x.clock /\ z.found = x.found
                      /\ \/ z.preflight = x.preflight
                         \/ z.preflight = "cancelled"
                         \/ z.preflight = "probing" /\ x.preflight # "available"
<1>1. PICK z : z = ensureStatsPreflight(x)
  OBVIOUS
<1>2. Same(x)
  OBVIOUS
<1>3. Same(z)
  <2>1. CASE canStartStatsPreflight(x)
    BY <1>1, <2>1, FieldsAre DEF ensureStatsPreflight
  <2>2. CASE ~ canStartStatsPreflight(x)
    BY <1>1, <2>2, FieldsAre DEF ensureStatsPreflight
  <2> QED  BY <2>1, <2>2
<1>4. PICK r : r = [z EXCEPT !.phase = "ready_to_observe"]
  OBVIOUS
<1>5. Same(r)
  BY <1>3, <1>4, FieldsAre
<1>6. PICK y : y = evaluateReadyToObserve(x)
  OBVIOUS
<1>7. y \in {x, z, r}
  BY <1>1, <1>4, <1>6 DEF evaluateReadyToObserve
<1> HIDE DEF Same
<1>8. Same(y)
  BY <1>2, <1>3, <1>5, <1>7
<1>9. Quiet(x, y)
  BY <1>6, EvaluateQuiet
<1>10. PathWork(y) <= PathWork(x)
  BY <1>8 DEF Same, PathWork
<1> QED  BY <1>6, <1>8, <1>9, <1>10 DEF Same

\* The user, and the promises of EnableMicrophone and Connect.
LEMMA UserWork ==
    ASSUME OneSessionEach, IInv, TalkInv, TalkInv', SetupInv, Calm',
           NEW a \in Sessions, NEW b \in Sessions,
           RoleOf[a] = "peer_a", RoleOf[b] = "peer_b", NEW s \in Sessions,
           \/ EnableMicrophone(s) \/ Connect(s)
           \/ StreamArrives(s) \/ TrackReplaced(s) \/ ClientLoaded(s)
    PROVE  SetupWork(a, b)' < SetupWork(a, b)
<1> DEFINE x == session[s]
<1>1. DOMAIN x = Fields
  BY DEF IInv, SessionInv, TypeInv
<1>2. ASSUME NEW y, Set(s, y), UNCHANGED <<room, wire, faults>>,
             Quiet(x, y), y.found = x.found,
             PathInv(x) /\ StageInv(s, x) => PathWork(y) < PathWork(x)
      PROVE  SetupWork(a, b)' < SetupWork(a, b)
  <2>1. PathInv(x) /\ StageInv(s, x)
    BY <1>2, QuietCalm, SessionFacts
  <2> QED  BY <1>2, <2>1, PathFalls
<1>3. CASE EnableMicrophone(s)
  <2>1. PICK y : y = [x EXCEPT !.mic = "asking"]
    OBVIOUS
  <2>2. /\ Quiet(x, y) /\ y.found = x.found
        /\ y.mic = "asking" /\ y.step = x.step /\ y.socket = x.socket
        /\ y.connection = x.connection /\ y.channel = x.channel
        /\ y.clock = x.clock /\ y.preflight = x.preflight
    BY <1>1, <2>1, FieldsAre DEF Quiet
  <2>3. x.mic = "off" /\ Set(s, y) /\ UNCHANGED <<room, wire, faults>>
    BY <1>3, <2>1 DEF EnableMicrophone
  <2>4. PathWork(y) < PathWork(x)
    BY <2>2, <2>3 DEF PathWork
  <2> QED  BY <1>2, <2>2, <2>3, <2>4
<1>4. CASE Connect(s)
  <2>1. PICK y : y = [x EXCEPT !.phase = "signaling_connecting", !.step = "replacing"]
    OBVIOUS
  <2>2. /\ Quiet(x, y) /\ y.found = x.found
        /\ y.mic = x.mic /\ y.step = "replacing" /\ y.socket = x.socket
        /\ y.connection = x.connection /\ y.channel = x.channel
        /\ y.clock = x.clock /\ y.preflight = x.preflight
    BY <1>1, <2>1, FieldsAre DEF Quiet
  <2>3. x.phase = "microphone_ready" /\ Set(s, y) /\ UNCHANGED <<room, wire, faults>>
    BY <1>4, <2>1 DEF Connect
  <2>4. PathInv(x) => PathWork(y) < PathWork(x)
    <3> SUFFICES ASSUME PathInv(x) PROVE PathWork(y) < PathWork(x)
      OBVIOUS
    <3>1. x.step = "idle"
      BY <2>3 DEF PathInv
    <3> QED  BY <2>2, <3>1 DEF PathWork
  <2> QED  BY <1>2, <2>2, <2>3, <2>4
<1>5. CASE StreamArrives(s)
  <2>1. PICK y : y = [x EXCEPT !.mic = "live", !.phase = "microphone_ready"]
    OBVIOUS
  <2>2. /\ Quiet(x, y) /\ y.found = x.found
        /\ y.mic = "live" /\ y.step = x.step /\ y.socket = x.socket
        /\ y.connection = x.connection /\ y.channel = x.channel
        /\ y.clock = x.clock /\ y.preflight = x.preflight
    BY <1>1, <2>1, FieldsAre DEF Quiet
  <2>3. x.mic = "asking" /\ Set(s, y) /\ UNCHANGED <<room, wire, faults>>
    BY <1>5, <2>1 DEF StreamArrives
  <2>4. PathWork(y) < PathWork(x)
    BY <2>2, <2>3 DEF PathWork
  <2> QED  BY <1>2, <2>2, <2>3, <2>4
<1>6. CASE TrackReplaced(s)
  <2>1. PICK y : y = IF x.stopped THEN [x EXCEPT !.step = "failed"]
                     ELSE [x EXCEPT !.step = "importing",
                              !.channel = IF RoleOf[s] = "peer_a" THEN "connecting" ELSE @]
    OBVIOUS
  <2>2. /\ Quiet(x, y) /\ y.found = x.found
        /\ y.mic = x.mic /\ y.step \in {"importing", "failed"} /\ y.socket = x.socket
        /\ y.connection = x.connection /\ y.channel \in {"connecting", x.channel}
        /\ y.clock = x.clock /\ y.preflight = x.preflight
    <3>1. CASE x.stopped
      BY <1>1, <2>1, <3>1, FieldsAre DEF Quiet
    <3>2. CASE ~ x.stopped
      BY <1>1, <2>1, <3>2, FieldsAre DEF Quiet
    <3> QED  BY <3>1, <3>2
  <2>3. x.step = "replacing" /\ Set(s, y) /\ UNCHANGED <<room, wire, faults>>
    BY <1>6, <2>1 DEF TrackReplaced
  <2>4. PathInv(x) /\ StageInv(s, x) => PathWork(y) < PathWork(x)
    <3> SUFFICES ASSUME PathInv(x), StageInv(s, x) PROVE PathWork(y) < PathWork(x)
      OBVIOUS
    <3>1. x.socket = "none" /\ x.connection = "new"
      BY <2>3 DEF PathInv, StageInv
    <3>2. x.channel # "open"
      BY <3>1 DEF PathInv
    <3> QED  BY <2>2, <2>3, <3>1, <3>2 DEF PathWork
  <2> QED  BY <1>2, <2>2, <2>3, <2>4
<1>7. CASE ClientLoaded(s)
  <2>1. PICK y : y = [x EXCEPT !.step = "done", !.socket = "connecting"]
    OBVIOUS
  <2>2. /\ Quiet(x, y) /\ y.found = x.found
        /\ y.mic = x.mic /\ y.step = "done" /\ y.socket = "connecting"
        /\ y.connection = x.connection /\ y.channel = x.channel
        /\ y.clock = x.clock /\ y.preflight = x.preflight
    BY <1>1, <2>1, FieldsAre DEF Quiet
  <2>3. x.step = "importing" /\ Set(s, y) /\ UNCHANGED <<room, wire, faults>>
    BY <1>7, <2>1 DEF ClientLoaded
  <2>4. PathWork(y) < PathWork(x)
    BY <2>2, <2>3 DEF PathWork
  <2> QED  BY <1>2, <2>2, <2>3, <2>4
<1> QED  BY <1>3, <1>4, <1>5, <1>6, <1>7

\* The path to the other comes, and the verdicts on it.
LEMMA VerdictWork ==
    ASSUME OneSessionEach, IInv, TalkInv, TalkInv', SetupInv, Calm',
           NEW a \in Sessions, NEW b \in Sessions,
           RoleOf[a] = "peer_a", RoleOf[b] = "peer_b", NEW s \in Sessions,
           \/ ConnectionComes(s) \/ ChannelOpens(s)
           \/ ProbeCompletes(s) \/ PreflightSettles(s)
    PROVE  SetupWork(a, b)' < SetupWork(a, b)
<1> DEFINE x == session[s]
<1>1. DOMAIN x = Fields
  BY DEF IInv, SessionInv, TypeInv
<1>2. ASSUME NEW y, Quiet(x, y), y.found = x.found,
             Set(s, evaluateReadyToObserve(y)), UNCHANGED <<room, wire, faults>>,
             y.preflight \in {x.preflight, "available"},
             PathInv(x) => PathWork(y) < PathWork(x)
      PROVE  SetupWork(a, b)' < SetupWork(a, b)
  <2>1. DOMAIN y = Fields
    BY <1>1, <1>2 DEF Quiet
  <2>2. PICK z : z = evaluateReadyToObserve(y)
    OBVIOUS
  <2>3. Quiet(x, z) /\ Set(s, z)
    BY <1>2, <2>1, <2>2, EvaluateQuiet, QuietTwice
  <2>4. PathInv(x)
    BY <1>2, <2>3, QuietCalm, SessionFacts
  <2>5. z.found = x.found /\ PathWork(z) <= PathWork(y)
    <3>1. y.preflight \in {"none", "probing", "available"}
      BY <1>2, <2>4 DEF PathInv
    <3> QED  BY <1>2, <2>1, <2>2, <3>1, EvaluateWork
  <2>6. PathWork(z) < PathWork(x)
    BY <1>2, <2>4, <2>5, PathWorkIs
  <2> QED  BY <1>2, <2>3, <2>5, <2>6, PathFalls
<1>3. CASE ConnectionComes(s)
  <2>1. PICK y : y = [x EXCEPT !.connection = "connected", !.phase = "connected",
                               !.disturbed = @ \/ x.timers # {}]
    OBVIOUS
  <2>2. /\ Quiet(x, y) /\ y.found = x.found
        /\ y.mic = x.mic /\ y.step = x.step /\ y.socket = x.socket
        /\ y.connection = "connected" /\ y.channel = x.channel
        /\ y.clock = x.clock /\ y.preflight = x.preflight
    BY <1>1, <2>1, FieldsAre DEF Quiet
  <2>3. /\ x.connection \in {"new", "disconnected"}
        /\ Set(s, evaluateReadyToObserve(y)) /\ UNCHANGED <<room, wire, faults>>
    BY <1>3, <2>1 DEF ConnectionComes
  <2>4. PathWork(y) < PathWork(x)
    BY <2>2, <2>3 DEF PathWork
  <2> QED  BY <1>2, <2>2, <2>3, <2>4
<1>4. CASE ProbeCompletes(s)
  <2>1. PICK y : y = [x EXCEPT !.clock = "ok"]
    OBVIOUS
  <2>2. /\ Quiet(x, y) /\ y.found = x.found
        /\ y.mic = x.mic /\ y.step = x.step /\ y.socket = x.socket
        /\ y.connection = x.connection /\ y.channel = x.channel
        /\ y.clock = "ok" /\ y.preflight = x.preflight
    BY <1>1, <2>1, FieldsAre DEF Quiet
  <2>3. /\ x.clock = "probing"
        /\ Set(s, evaluateReadyToObserve(y)) /\ UNCHANGED <<room, wire, faults>>
    BY <1>4, <2>1 DEF ProbeCompletes, ProbeCompleted
  <2>4. PathWork(y) < PathWork(x)
    BY <2>2, <2>3 DEF PathWork
  <2> QED  BY <1>2, <2>2, <2>3, <2>4
<1>5. CASE PreflightSettles(s)
  <2>1. PICK y : y = [x EXCEPT !.preflight = "available"]
    OBVIOUS
  <2>2. /\ Quiet(x, y) /\ y.found = x.found
        /\ y.mic = x.mic /\ y.step = x.step /\ y.socket = x.socket
        /\ y.connection = x.connection /\ y.channel = x.channel
        /\ y.clock = x.clock /\ y.preflight = "available"
    BY <1>1, <2>1, FieldsAre DEF Quiet
  <2>3. /\ x.preflight = "probing"
        /\ Set(s, evaluateReadyToObserve(y)) /\ UNCHANGED <<room, wire, faults>>
    <3>1. faults' # faults + 1
      BY DEF Calm, TalkInv
    <3> QED  BY <1>5, <2>1, <3>1 DEF PreflightSettles
  <2>4. PathWork(y) < PathWork(x)
    BY <2>2, <2>3 DEF PathWork
  <2> QED  BY <1>2, <2>2, <2>3, <2>4
<1>6. CASE ChannelOpens(s)
  <2>1. PICK y : y = [x EXCEPT !.channel = "open", !.clock = "probing"]
    OBVIOUS
  <2>2. /\ Quiet(x, y) /\ y.found = x.found
        /\ y.mic = x.mic /\ y.step = x.step /\ y.socket = x.socket
        /\ y.connection = x.connection /\ y.channel = "open"
        /\ y.clock = "probing" /\ y.preflight = x.preflight
    BY <1>1, <2>1, FieldsAre DEF Quiet
  <2>3. /\ x.channel \in {"none", "connecting"}
        /\ Set(s, y) /\ UNCHANGED <<room, wire, faults>>
    BY <1>6, <2>1 DEF ChannelOpens
  <2>4. PathWork(y) < PathWork(x)
    BY <2>2, <2>3 DEF PathWork
  <2> QED  BY <2>2, <2>3, <2>4, PathFalls
<1> QED  BY <1>3, <1>4, <1>5, <1>6

\* An observation changes nothing of it.
LEMMA ObservesWork ==
    ASSUME OneSessionEach, IInv, TalkInv, TalkInv',
           NEW a \in Sessions, NEW b \in Sessions,
           RoleOf[a] = "peer_a", RoleOf[b] = "peer_b",
           NEW s \in Sessions, Observes(s)
    PROVE  SetupWork(a, b)' = SetupWork(a, b)
<1> DEFINE x == session[s]
<1>1. DOMAIN x = Fields
  BY DEF IInv, SessionInv, TypeInv
<1> DEFINE Near(y) == /\ Quiet(x, y) /\ y.found = x.found
                      /\ y.mic = x.mic /\ y.step = x.step /\ y.socket = x.socket
                      /\ y.connection = x.connection /\ y.channel = x.channel
                      /\ y.clock = x.clock /\ y.preflight = x.preflight
<1>2. ASSUME NEW y, Set(s, y), UNCHANGED wire, Near(y)
      PROVE  SetupWork(a, b)' = SetupWork(a, b)
  <2>1. PathWork(y) = PathWork(x)
    BY <1>2 DEF PathWork
  <2> QED  BY <1>2, <2>1, PathFalls
<1>3. CASE ObservationEnds(s)
  <2>1. PICK k \in x.timers :
            Set(s, [x EXCEPT !.timers = @ \ {k}, !.samplers = @ \ {x.started},
                             !.phase = "completed"]) /\ UNCHANGED wire
    BY <1>3 DEF ObservationEnds
  <2>2. PICK y : y = [x EXCEPT !.timers = @ \ {k}, !.samplers = @ \ {x.started},
                               !.phase = "completed"]
    OBVIOUS
  <2>3. Near(y)
    BY <1>1, <2>2, FieldsAre DEF Quiet
  <2> QED  BY <1>2, <2>1, <2>2, <2>3
<1>4. ASSUME NEW k, SamplerAsks(s, k)
      PROVE  SetupWork(a, b)' = SetupWork(a, b)
  <2>1. PICK y : y = [x EXCEPT !.asking = @ \cup {k}]
    OBVIOUS
  <2>2. Near(y)
    BY <1>1, <2>1, FieldsAre DEF Quiet
  <2> QED  BY <1>2, <1>4, <2>1, <2>2 DEF SamplerAsks
<1>5. ASSUME NEW k, SamplerAnswers(s, k)
      PROVE  SetupWork(a, b)' = SetupWork(a, b)
  <2>1. PICK y : y = [x EXCEPT
                    !.asking = @ \ {k},
                    !.statsSamples = IF Taken(x, k) THEN @ \cup {k} ELSE @]
    OBVIOUS
  <2>2. Near(y)
    BY <1>1, <2>1, FieldsAre DEF Quiet
  <2> QED  BY <1>2, <1>5, <2>1, <2>2 DEF SamplerAnswers
<1>6. ASSUME NEW k, SamplerExpires(s, k)
      PROVE  SetupWork(a, b)' = SetupWork(a, b)
  <2>1. PICK y : y = [x EXCEPT !.samplers = @ \ {k}]
    OBVIOUS
  <2>2. Near(y)
    BY <1>1, <2>1, FieldsAre DEF Quiet
  <2> QED  BY <1>2, <1>6, <2>1, <2>2 DEF SamplerExpires
<1> QED  BY <1>3, <1>4, <1>5, <1>6 DEF Observes

\* Steps of the negotiation, and the n frames relayed in them.
LEMMA TalkFalls ==
    ASSUME OneSessionEach, IInv, TalkInv, TalkInv',
           NEW a \in Sessions, NEW b \in Sessions,
           RoleOf[a] = "peer_a", RoleOf[b] = "peer_b",
           NEW s \in Sessions, NEW y, Set(s, y), SamePath(session[s], y), NEW n \in Nat,
           \A t \in Sessions \ {s} : Len(wire'[t]) <= Len(wire[t]) + n,
           wire'[s] = wire[s], TalkWork(s, y) + 3 * n < TalkWork(s, session[s])
    PROVE  SetupWork(a, b)' < SetupWork(a, b)
<1> DEFINE x == session[s]
           q == wire[s]
<1>1. PathWork(y) = PathWork(x)
  BY DEF PathWork, SamePath
<1>2. Len(q) \in Nat /\ TalkOf(s, x, faults = 0) /\ TalkOf(s, session'[s], faults' = 0)
  BY Elements DEF TalkInv
<1>3. session'[s] = y
  BY DEF Set, IInv
<1>4. PathWork(x) \in Nat /\ TalkWork(s, x) \in Nat /\ TalkWork(s, y) \in Nat
  BY <1>2, <1>3, PathWorkIs, TalkWorkIs
<1>5. /\ SessionWork(s, y, wire'[s]) = PathWork(x) + TalkWork(s, y) + 3 * Len(q)
      /\ SessionWork(s, x, wire[s]) = PathWork(x) + TalkWork(s, x) + 3 * Len(q)
  BY <1>1 DEF SessionWork
<1>6. SessionWork(s, y, wire'[s]) + 3 * n < SessionWork(s, x, wire[s])
  BY <1>4, <1>5, <1>2
<1> QED  BY <1>6, WorkFalls

\* Each candidate that flush gives to the connection is one less.
LEMMA FlushWork ==
    ASSUME NEW s \in Sessions, NEW x, NEW calm, DOMAIN x = Fields, TalkOf(s, x, calm),
           x.call = "flush"
    PROVE  TalkWork(s, flush(x)) < TalkWork(s, x)
<1> DEFINE Same(z) == /\ z.peerNegotiationStarted = x.peerNegotiationStarted
                      /\ z.remote = x.remote /\ z.found = x.found /\ DOMAIN z = Fields
           rest == (IF RoleOf[s] = "peer_a" /\ ~ x.peerNegotiationStarted THEN 6 ELSE 0)
                   + (IF x.remote = Null THEN 7 ELSE 0) + 4 * CandidatesLeft(s, x)
<1>1. /\ x.remote # Null /\ Len(x.buffer) \in Nat /\ x.cursor \in Nat
      /\ x.cursor = 0 \/ x.cursor < Len(x.buffer)
      /\ x.buffer = <<>> <=> Len(x.buffer) = 0
  BY EmptySeq, TalkWorkIs DEF TalkOf, CandidateInv
<1>2. rest \in Nat
  BY TalkWorkIs
<1>3. ASSUME NEW z, Same(z), Len(z.buffer) \in Nat, z.cursor \in Nat
      PROVE  TalkWork(s, z) = rest + CallWork(z.call) + (Len(z.buffer) - z.cursor)
  <2>1. CandidatesLeft(s, z) = CandidatesLeft(s, x) /\ CandidatesLeft(s, x) \in Nat
    BY <1>3, TalkWorkIs DEF CandidatesLeft
  <2>2. CallWork(z.call) \in Nat
    BY CallWorkIs
  <2> QED  BY <1>3, <2>1, <2>2 DEF TalkWork
<1> HIDE DEF rest
<1>4. TalkWork(s, x) = rest + 1 + (Len(x.buffer) - x.cursor)
  BY <1>1, <1>3, CallWorkIs
<1>5. ASSUME NEW z, Same(z)
      PROVE  TalkWork(s, FlushEnds(z)) < TalkWork(s, x)
  <2>1. PICK y : y = FlushEnds(z)
    OBVIOUS
  <2>2. Same(y) /\ y.buffer = <<>> /\ y.cursor = 0 /\ y.call = Null
    BY <1>5, <2>1, FieldsAre DEF FlushEnds
  <2>3. Len(y.buffer) = 0
    BY <2>2
  <2>4. TalkWork(s, y) = rest
    BY <1>2, <1>3, <2>2, <2>3, CallWorkIs
  <2> QED  BY <1>1, <1>2, <1>4, <2>1, <2>4
<1>6. CASE x.buffer = <<>>
  BY <1>1, <1>5, <1>6 DEF flush
<1>7. CASE x.buffer # <<>>
  <2> DEFINE c == x.buffer[x.cursor + 1]
  <2>1. PICK z : z = [x EXCEPT !.cursor = @ + 1,
                               !.added = IF c.from = x.remote THEN @ \cup {c} ELSE @]
    OBVIOUS
  <2>2. flush(x) = IF z.cursor = Len(z.buffer) THEN FlushEnds(z) ELSE z
    BY <1>1, <1>7, <2>1 DEF flush, FlushNext
  <2>3. Same(z) /\ z.buffer = x.buffer /\ z.cursor = x.cursor + 1 /\ z.call = "flush"
    BY <2>1, FieldsAre
  <2>4. TalkWork(s, z) = rest + 1 + (Len(x.buffer) - (x.cursor + 1))
    BY <1>1, <1>3, <2>3, CallWorkIs
  <2>5. TalkWork(s, z) < TalkWork(s, x)
    BY <1>1, <1>2, <1>4, <2>4
  <2> QED  BY <1>5, <2>2, <2>3, <2>5
<1> QED  BY <1>6, <1>7

\* y has what TalkWork reads of x but the call and remote.
LEMMA CallFalls ==
    ASSUME NEW s \in Sessions, NEW x, NEW calm, TalkOf(s, x, calm), NEW y,
           y.peerNegotiationStarted = x.peerNegotiationStarted, y.found = x.found,
           y.buffer = x.buffer, y.cursor = x.cursor, NEW n \in Nat,
           CallWork(y.call) + (IF y.remote = Null THEN 7 ELSE 0) + 3 * n
             < CallWork(x.call) + (IF x.remote = Null THEN 7 ELSE 0)
    PROVE  TalkWork(s, y) + 3 * n < TalkWork(s, x)
<1> DEFINE h == IF RoleOf[s] = "peer_a" /\ ~ x.peerNegotiationStarted THEN 6 ELSE 0
           d == Len(x.buffer) - x.cursor
           k == 4 * CandidatesLeft(s, x)
           r == IF x.remote = Null THEN 7 ELSE 0
           r2 == IF y.remote = Null THEN 7 ELSE 0
<1>1. h \in Nat /\ d \in Int /\ k \in Nat /\ r \in Nat /\ r2 \in Nat
  BY TalkWorkIs
<1>2. CallWork(x.call) \in Nat /\ CallWork(y.call) \in Nat
  BY CallWorkIs
<1>3. CandidatesLeft(s, y) = CandidatesLeft(s, x)
  BY DEF CandidatesLeft
<1>4. /\ TalkWork(s, x) = h + r + CallWork(x.call) + k + d
      /\ TalkWork(s, y) = h + r2 + CallWork(y.call) + k + d
  BY <1>3 DEF TalkWork
<1>5. CallWork(y.call) + r2 + 3 * n < CallWork(x.call) + r
  OBVIOUS
<1> HIDE DEF h, d, k, r, r2
<1> QED  BY <1>1, <1>2, <1>4, <1>5

\* Calls that settle, and the frame that two of them relay.
LEMMA CallsWork ==
    ASSUME OneSessionEach, IInv, TalkInv, TalkInv', SetupInv, Calm',
           NEW a \in Sessions, NEW b \in Sessions,
           RoleOf[a] = "peer_a", RoleOf[b] = "peer_b",
           NEW s \in Sessions, CallResolves(s)
    PROVE  SetupWork(a, b)' < SetupWork(a, b)
<1> DEFINE x == session[s]
<1>1. DOMAIN x = Fields /\ TalkOf(s, x, faults = 0)
  BY DEF IInv, SessionInv, TypeInv, TalkInv
<1>2. x.call = "setRemoteOffer" => x.from # Null
  BY <1>1, CallsAre DEF TalkOf, CandidateInv
<1>3. x.call = "setRemoteAnswer" => x.from # Null
  BY <1>1, CallsAre DEF TalkOf, CandidateInv
<1>4. \A t \in Sessions : Len(wire[t]) \in Nat
  BY Elements DEF TalkInv
<1>5. ASSUME NEW y, SamePath(x, y), Set(s, y), UNCHANGED wire,
             TalkWork(s, y) < TalkWork(s, x)
      PROVE  SetupWork(a, b)' < SetupWork(a, b)
  <2> DEFINE n == 0
  <2>1. /\ n \in Nat /\ wire'[s] = wire[s]
        /\ \A t \in Sessions \ {s} : Len(wire'[t]) <= Len(wire[t]) + n
    BY <1>4, <1>5
  <2>2. TalkOf(s, session'[s], faults' = 0) /\ session'[s] = y
    BY <1>5 DEF TalkInv, Set, IInv
  <2>3. TalkWork(s, y) + 3 * n < TalkWork(s, x)
    BY <1>1, <1>5, <2>2, TalkWorkIs
  <2> HIDE DEF n
  <2> QED  BY <1>5, <2>1, <2>3, TalkFalls
<1>6. ASSUME NEW y, SamePath(x, y), Set(s, y), UNCHANGED wire,
             y.buffer = x.buffer, y.cursor = x.cursor,
             CallWork(y.call) + (IF y.remote = Null THEN 7 ELSE 0)
               < CallWork(x.call) + (IF x.remote = Null THEN 7 ELSE 0)
      PROVE  SetupWork(a, b)' < SetupWork(a, b)
  <2> DEFINE n == 0
             i == CallWork(y.call) + (IF y.remote = Null THEN 7 ELSE 0)
             j == CallWork(x.call) + (IF x.remote = Null THEN 7 ELSE 0)
  <2>1. n \in Nat /\ i \in Nat /\ j \in Nat /\ i < j
    BY <1>6, CallWorkIs
  <2>2. i + 3 * n < j
    BY <2>1
  <2>3. TalkWork(s, y) + 3 * n < TalkWork(s, x)
    <3> HIDE DEF n
    <3> QED  BY <1>1, <1>6, <2>1, <2>2, CallFalls DEF SamePath
  <2>4. TalkOf(s, session'[s], faults' = 0) /\ session'[s] = y
    BY <1>6 DEF TalkInv, Set, IInv
  <2>5. TalkWork(s, y) < TalkWork(s, x)
    BY <1>1, <2>3, <2>4, TalkWorkIs
  <2> QED  BY <1>5, <1>6, <2>5
<1>7. ASSUME NEW y, SamePath(x, y), Set(s, y), y.remote = x.remote,
             y.buffer = x.buffer, y.cursor = x.cursor, NEW m,
             \A t \in Sessions \ {s} : m \in Frame(t), wire' = Relayed(s, <<m>>),
             CallWork(y.call) + 3 < CallWork(x.call)
      PROVE  SetupWork(a, b)' < SetupWork(a, b)
  <2> DEFINE n == 1
             r == IF x.remote = Null THEN 7 ELSE 0
  <2>1. /\ wire'[s] = wire[s]
        /\ \A t \in Sessions \ {s} : Len(wire'[t]) <= Len(wire[t]) + n
    <3>1. wire'[s] = wire[s]
      BY <1>7 DEF Relayed
    <3>2. ASSUME NEW t \in Sessions \ {s}
          PROVE  Len(wire'[t]) <= Len(wire[t]) + 1
      <4>1. wire[t] \in Seq(Frame(t)) /\ m \in Frame(t)
        BY <1>7 DEF TalkInv
      <4>2. wire'[t] = wire[t] \/ wire'[t] = Append(wire[t], m)
        BY <1>7, RelayedWires
      <4>3. Len(Append(wire[t], m)) = Len(wire[t]) + 1
        BY <4>1, AppendProperties
      <4> QED  BY <1>4, <4>2, <4>3
    <3> QED  BY <3>1, <3>2
  <2>2. /\ n \in Nat /\ r \in Nat
        /\ CallWork(y.call) \in Nat /\ CallWork(x.call) \in Nat
    BY CallWorkIs
  <2>3. CallWork(y.call) + r + 3 * n < CallWork(x.call) + r
    BY <1>7, <2>2
  <2>4. r = IF y.remote = Null THEN 7 ELSE 0
    BY <1>7
  <2>5. TalkWork(s, y) + 3 * n < TalkWork(s, x)
    <3> HIDE DEF n
    <3> QED  BY <1>1, <1>7, <2>2, <2>3, <2>4, CallFalls DEF SamePath
  <2> HIDE DEF n
  <2> QED  BY <1>7, <2>1, <2>2, <2>5, TalkFalls
<1>8. CASE x.call = "createOffer" \/ x.call = "createAnswer"
  <2>1. PICK y : y = IF x.call = "createOffer" THEN OfferCreated(x) ELSE AnswerCreated(x)
    OBVIOUS
  <2>2. /\ SamePath(x, y) /\ y.remote = x.remote
        /\ y.buffer = x.buffer /\ y.cursor = x.cursor
        /\ y.call = IF x.call = "createOffer" THEN "setOffer" ELSE "setAnswer"
    BY <1>1, <2>1, FieldsAre DEF OfferCreated, AnswerCreated, SamePath
  <2>3. Set(s, y) /\ UNCHANGED wire
    BY <1>8, <2>1 DEF CallResolves, Resolves
  <2>4. CallWork(y.call) < CallWork(x.call) /\ CallWork(y.call) \in Nat
        /\ CallWork(x.call) \in Nat
    BY <1>8, <2>2, CallWorkIs
  <2> QED  BY <1>6, <2>2, <2>3, <2>4
<1>9. CASE x.call = "setRemoteOffer"
  <2>1. PICK y : y = RemoteOfferSet(x)
    OBVIOUS
  <2>2. /\ SamePath(x, y) /\ y.remote = x.from
        /\ y.buffer = x.buffer /\ y.cursor = x.cursor /\ y.call = "createAnswer"
    BY <1>1, <2>1, FieldsAre DEF RemoteOfferSet, SamePath
  <2>3. Set(s, y) /\ UNCHANGED <<wire, faults>>
    BY <1>9, <2>1 DEF CallResolves, Resolves
  <2>4. x.remote = Null
    <3>1. Calm
      BY <2>2, <2>3, CalmBefore DEF SamePath
    <3> QED  BY <1>9, <3>1, SessionFacts DEF StageInv
  <2>5. CallWork(y.call) = 6 /\ CallWork(x.call) = 1 /\ y.remote # Null
    BY <1>2, <1>9, <2>2, CallWorkIs
  <2> QED  BY <1>6, <2>2, <2>3, <2>4, <2>5
<1>10. CASE x.call = "setRemoteAnswer"
  <2>1. PICK y : y = RemoteAnswerSet(x)
    OBVIOUS
  <2>2. /\ SamePath(x, y) /\ y.remote = x.from
        /\ y.buffer = x.buffer /\ y.cursor = x.cursor /\ y.call = "flush"
    BY <1>1, <2>1, FieldsAre DEF RemoteAnswerSet, SamePath
  <2>3. Set(s, y) /\ UNCHANGED wire
    BY <1>10, <2>1 DEF CallResolves, Resolves
  <2>4. CallWork(y.call) = 1 /\ CallWork(x.call) = 2 /\ y.remote # Null
    BY <1>3, <1>10, <2>2, CallWorkIs
  <2> QED  BY <1>6, <2>2, <2>3, <2>4
<1>11. CASE x.call = "flush"
  <2>1. PICK y : y = flush(x)
    OBVIOUS
  <2>2. Set(s, y) /\ UNCHANGED wire
    BY <1>11, <2>1 DEF CallResolves, Resolves
  <2>3. SamePath(x, y)
    BY <1>1, <2>1, FlushPath
  <2>4. TalkWork(s, y) < TalkWork(s, x)
    BY <1>1, <1>11, <2>1, FlushWork
  <2> QED  BY <1>5, <2>2, <2>3, <2>4
<1>12. CASE x.call = "setOffer"
  <2>1. PICK z : z = OfferSet(x)
    OBVIOUS
  <2>2. PICK y : y = [z EXCEPT !.offers = @ + 1]
    OBVIOUS
  <2>3. PICK m : m = Description(s, "offer")
    OBVIOUS
  <2>4. Set(s, y) /\ wire' = Relayed(s, <<m>>)
    BY <1>12, <2>1, <2>2, <2>3 DEF CallResolves, Resolves
  <2>5. SamePath(x, z) /\ z.remote = x.remote /\ z.buffer = x.buffer
        /\ z.cursor = x.cursor /\ z.call = Null /\ DOMAIN z = Fields
    BY <1>1, <2>1, FieldsAre DEF OfferSet, SamePath
  <2>6. SamePath(x, y) /\ y.remote = x.remote /\ y.buffer = x.buffer
        /\ y.cursor = x.cursor /\ y.call = Null
    BY <2>2, <2>5, FieldsAre DEF SamePath
  <2>7. \A t \in Sessions \ {s} : m \in Frame(t)
    <3>1. RoleOf[s] = "peer_a"
      BY <1>1, <1>12, NegotiationAssumption, DifferentCalls DEF TalkOf, AnswererInv
    <3> QED  BY <2>3, <3>1, DescriptionFrame
  <2>8. CallWork(y.call) = 0 /\ CallWork(x.call) = 4
    BY <1>12, <2>6, CallWorkIs
  <2> QED  BY <1>7, <2>4, <2>6, <2>7, <2>8
<1>13. CASE x.call = "setAnswer"
  <2>1. PICK y : y = AnswerSet(x)
    OBVIOUS
  <2>2. PICK m : m = Description(s, "answer")
    OBVIOUS
  <2>3. Set(s, y) /\ wire' = Relayed(s, <<m>>)
    BY <1>13, <2>1, <2>2 DEF CallResolves, Resolves
  <2>4. SamePath(x, y) /\ y.remote = x.remote /\ y.buffer = x.buffer
        /\ y.cursor = x.cursor /\ y.call = "flush"
    BY <1>1, <2>1, FieldsAre DEF AnswerSet, SamePath
  <2>5. \A t \in Sessions \ {s} : m \in Frame(t)
    <3>1. RoleOf[s] = "peer_b"
      BY <1>1, <1>13, NegotiationAssumption, DifferentCalls DEF TalkOf, OffererInv
    <3> QED  BY <2>2, <3>1, DescriptionFrame
  <2>6. CallWork(y.call) = 1 /\ CallWork(x.call) = 5
    BY <1>13, <2>4, CallWorkIs
  <2> QED  BY <1>7, <2>3, <2>4, <2>5, <2>6
<1>14. x.call \in {"createOffer", "setRemoteOffer", "createAnswer", "setRemoteAnswer",
                   "flush", "setOffer", "setAnswer"}
  BY DEF CallResolves, Resolves
<1> QED  BY <1>8, <1>9, <1>10, <1>11, <1>12, <1>13, <1>14

\* The same as WorkFalls, taken apart: k and l frames are on their way to s.
LEMMA StepFalls ==
    ASSUME OneSessionEach, IInv, TalkInv, TalkInv',
           NEW a \in Sessions, NEW b \in Sessions,
           RoleOf[a] = "peer_a", RoleOf[b] = "peer_b",
           NEW s \in Sessions, NEW y, Set(s, y), NEW n \in Nat, NEW k \in Nat, NEW l \in Nat,
           \A t \in Sessions \ {s} : Len(wire'[t]) <= Len(wire[t]) + n,
           Len(wire[s]) = k, Len(wire'[s]) = l,
           PathWork(y) + TalkWork(s, y) + 3 * l + 3 * n
             < PathWork(session[s]) + TalkWork(s, session[s]) + 3 * k
    PROVE  SetupWork(a, b)' < SetupWork(a, b)
<1> DEFINE x == session[s]
<1>1. /\ SessionWork(s, y, wire'[s]) = PathWork(y) + TalkWork(s, y) + 3 * l
      /\ SessionWork(s, x, wire[s]) = PathWork(x) + TalkWork(s, x) + 3 * k
  BY DEF SessionWork
<1>2. SessionWork(s, y, wire'[s]) + 3 * n < SessionWork(s, x, wire[s])
  BY <1>1
<1> QED  BY <1>2, WorkFalls

\* A candidate found is relayed.
LEMMA FindsWork ==
    ASSUME OneSessionEach, IInv, TalkInv, TalkInv',
           NEW a \in Sessions, NEW b \in Sessions,
           RoleOf[a] = "peer_a", RoleOf[b] = "peer_b",
           NEW s \in Sessions, FindsCandidate(s)
    PROVE  SetupWork(a, b)' < SetupWork(a, b)
<1> DEFINE x == session[s]
<1>1. DOMAIN x = Fields /\ TalkOf(s, x, faults = 0) /\ x.found \in Nat
  BY DEF IInv, SessionInv, TypeInv, TalkInv, TalkOf
<1>2. PICK y : y = [x EXCEPT !.found = @ + 1]
  OBVIOUS
<1>3. PICK m : m = CandidateOf(s, x.found + 1)
  OBVIOUS
<1>4. Set(s, y) /\ wire' = Relayed(s, <<m>>) /\ x.found < MaxCandidates[s]
  BY <1>2, <1>3 DEF FindsCandidate
<1>5. /\ y.found = x.found + 1 /\ y.remote = x.remote /\ y.call = x.call
      /\ y.buffer = x.buffer /\ y.cursor = x.cursor
      /\ y.peerNegotiationStarted = x.peerNegotiationStarted
      /\ y.mic = x.mic /\ y.step = x.step /\ y.socket = x.socket
      /\ y.connection = x.connection /\ y.channel = x.channel
      /\ y.clock = x.clock /\ y.preflight = x.preflight
  BY <1>1, <1>2, FieldsAre
<1>6. PathWork(y) = PathWork(x) /\ PathWork(x) \in Nat
  BY <1>5, PathWorkIs DEF PathWork
<1>7. /\ CandidatesLeft(s, x) = CandidatesLeft(s, y) + 1
      /\ CandidatesLeft(s, x) \in Nat /\ CandidatesLeft(s, y) \in Nat
  <2>1. MaxCandidates[s] \in Nat
    BY NegotiationAssumption
  <2> QED  BY <1>1, <1>4, <1>5, <2>1 DEF CandidatesLeft
<1>8. TalkWork(s, y) + 4 = TalkWork(s, x) /\ TalkWork(s, x) \in Nat
  <2> DEFINE h == IF RoleOf[s] = "peer_a" /\ ~ x.peerNegotiationStarted THEN 6 ELSE 0
             r == IF x.remote = Null THEN 7 ELSE 0
             d == Len(x.buffer) - x.cursor
             i == CandidatesLeft(s, x)
             j == CandidatesLeft(s, y)
             c == CallWork(x.call)
  <2>1. h \in Nat /\ r \in Nat /\ d \in Int /\ c \in Nat
    BY <1>1, TalkWorkIs, CallWorkIs
  <2>2. /\ TalkWork(s, x) = h + r + c + 4 * i + d
        /\ TalkWork(s, y) = h + r + c + 4 * j + d
    BY <1>5 DEF TalkWork
  <2>3. i = j + 1 /\ i \in Nat /\ j \in Nat
    BY <1>7
  <2>4. TalkWork(s, x) \in Nat
    BY <1>1, TalkWorkIs
  <2> HIDE DEF h, r, d, i, j, c
  <2> QED  BY <2>1, <2>2, <2>3, <2>4
<1>9. TalkWork(s, y) \in Nat
  <2>1. TalkOf(s, session'[s], faults' = 0) /\ session'[s] = y
    BY <1>4 DEF TalkInv, Set, IInv
  <2> QED  BY <2>1, TalkWorkIs
<1>10. \A t \in Sessions \ {s} : m \in Frame(t)
  BY <1>1, <1>3, CandidateFrame
<1> DEFINE n == 1
<1>11. \A t \in Sessions \ {s} : Len(wire'[t]) <= Len(wire[t]) + n
  <2> SUFFICES ASSUME NEW t \in Sessions \ {s} PROVE Len(wire'[t]) <= Len(wire[t]) + 1
    OBVIOUS
  <2>1. wire[t] \in Seq(Frame(t)) /\ m \in Frame(t) /\ Len(wire[t]) \in Nat
    BY <1>10, Elements DEF TalkInv
  <2>2. wire'[t] = wire[t] \/ wire'[t] = Append(wire[t], m)
    BY <1>4, <1>10, RelayedWires
  <2>3. Len(Append(wire[t], m)) = Len(wire[t]) + 1
    BY <2>1, AppendProperties
  <2> QED  BY <2>1, <2>2, <2>3
<1>12. PICK k \in Nat : Len(wire[s]) = k
  BY Elements DEF TalkInv
<1>13. Len(wire'[s]) = k
  BY <1>4, <1>12 DEF Relayed
<1>14. PathWork(y) + TalkWork(s, y) + 3 * k + 3 * n < PathWork(x) + TalkWork(s, x) + 3 * k
  BY <1>6, <1>8, <1>9
<1>15. n \in Nat
  OBVIOUS
<1> HIDE DEF n
<1> QED  BY <1>4, <1>11, <1>12, <1>13, <1>14, <1>15, StepFalls

\* s took a frame: at most two steps come of it.
LEMMA TakenFalls ==
    ASSUME OneSessionEach, IInv, TalkInv, TalkInv',
           NEW a \in Sessions, NEW b \in Sessions,
           RoleOf[a] = "peer_a", RoleOf[b] = "peer_b",
           NEW s \in Sessions, wire[s] # <<>>, wire' = [wire EXCEPT ![s] = Tail(@)],
           NEW y, Set(s, y), PathWork(y) = PathWork(session[s]),
           TalkWork(s, y) <= TalkWork(s, session[s]) + 2
    PROVE  SetupWork(a, b)' < SetupWork(a, b)
<1> DEFINE x == session[s]
           n == 0
<1>1. \A t \in Sessions : wire'[t] = IF t = s THEN Tail(wire[s]) ELSE wire[t]
  BY DEF TalkInv
<1>2. \A t \in Sessions : Len(wire[t]) \in Nat
  BY Elements DEF TalkInv
<1>3. PICK k \in Nat : Len(wire[s]) = k
  BY <1>2
<1>4. k # 0
  BY <1>3, EmptySeq DEF TalkInv
<1>5. PICK l \in Nat : Len(wire'[s]) = l /\ k = l + 1
  <2>1. wire[s] \in Seq(Frame(s)) /\ Len(Tail(wire[s])) = Len(wire[s]) - 1
    BY HeadTailProperties DEF TalkInv
  <2>2. wire'[s] = Tail(wire[s])
    BY <1>1
  <2>3. k - 1 \in Nat
    BY <1>4
  <2>4. Len(wire'[s]) = k - 1
    BY <1>3, <2>1, <2>2, Zenon
  <2>5. k = (k - 1) + 1
    OBVIOUS
  <2> QED  BY <2>3, <2>4, <2>5
<1>6. \A t \in Sessions \ {s} : Len(wire'[t]) <= Len(wire[t]) + n
  BY <1>1, <1>2
<1>7. /\ PathWork(x) \in Nat /\ TalkWork(s, x) \in Nat /\ TalkWork(s, y) \in Nat
  <2>1. TalkOf(s, session'[s], faults' = 0) /\ session'[s] = y /\ TalkOf(s, x, faults = 0)
    BY DEF TalkInv, Set, IInv
  <2> QED  BY <2>1, TalkWorkIs, PathWorkIs
<1>8. PathWork(y) + TalkWork(s, y) + 3 * l + 3 * n < PathWork(x) + TalkWork(s, x) + 3 * k
  BY <1>5, <1>7
<1>9. n \in Nat
  OBVIOUS
<1> HIDE DEF n
<1> QED  BY <1>3, <1>5, <1>6, <1>8, <1>9, StepFalls

\* A frame is taken.
LEMMA ReceiveWork ==
    ASSUME OneSessionEach, IInv, TalkInv, TalkInv', SetupInv, Calm,
           NEW a \in Sessions, NEW b \in Sessions,
           RoleOf[a] = "peer_a", RoleOf[b] = "peer_b",
           NEW s \in Sessions, Receive(s)
    PROVE  SetupWork(a, b)' < SetupWork(a, b)
<1> DEFINE x == session[s]
           Same(y) == /\ DOMAIN y = Fields
                      /\ y.mic = x.mic /\ y.step = x.step /\ y.socket = x.socket
                      /\ y.connection = x.connection /\ y.channel = x.channel
                      /\ y.clock = x.clock /\ y.preflight = x.preflight
                      /\ y.remote = x.remote /\ y.found = x.found /\ y.cursor = x.cursor
           h(started) == IF RoleOf[s] = "peer_a" /\ ~ started THEN 6 ELSE 0
           rest == (IF x.remote = Null THEN 7 ELSE 0) + 4 * CandidatesLeft(s, x)
<1>1. DOMAIN x = Fields /\ TalkOf(s, x, faults = 0)
  BY DEF IInv, SessionInv, TypeInv, TalkInv
<1>2. PICK m : m = Head(wire[s])
  OBVIOUS
<1>3. /\ Set(s, Received(s, x, m)) /\ wire[s] # <<>>
      /\ wire' = [wire EXCEPT ![s] = Tail(@)]
  BY <1>2 DEF Receive
<1>4. /\ m \in Frame(s)
      /\ m.type = "offer" => RoleOf[s] = "peer_b" /\ Idle(x)
      /\ m.type = "answer" => RoleOf[s] = "peer_a" /\ (x.stopped \/ Awaiting(x))
  BY <1>2, <1>3, Expected
<1>5. /\ HasConnection(x) /\ ~ x.stopped /\ m.type # "peer_left"
      /\ m.type = "peer_joined" => ~ x.peerPresent
  BY <1>2, <1>3, FirstFrame, SessionFacts
<1>6. /\ StageInv(s, x)
      /\ RoleOf[s] = "peer_a" => OffererInv(x)
      /\ RoleOf[s] = "peer_b" => AnswererInv(x)
  BY SessionFacts
<1>7. /\ Len(x.buffer) \in Nat /\ x.cursor \in Nat /\ rest \in Nat
      /\ x.buffer \in Seq(Candidate)
  <2>1. CandidatesLeft(s, x) \in Nat /\ Len(x.buffer) \in Nat /\ x.cursor \in Nat
    BY <1>1, TalkWorkIs
  <2>2. rest \in Nat
    BY <2>1
  <2>3. x.buffer \in Seq(Candidate)
    BY <1>1 DEF TalkOf, CandidateInv
  <2> QED  BY ONLY <2>1, <2>2, <2>3
<1>8. ASSUME NEW y, Same(y)
      PROVE  /\ PathWork(y) = PathWork(x)
             /\ TalkWork(s, y) = rest + h(y.peerNegotiationStarted) + CallWork(y.call)
                                 + (Len(y.buffer) - x.cursor)
  <2>1. CandidatesLeft(s, y) = CandidatesLeft(s, x)
    BY <1>8 DEF CandidatesLeft
  <2>2. CandidatesLeft(s, x) \in Nat /\ CallWork(y.call) \in Nat
    BY <1>1, TalkWorkIs, CallWorkIs
  <2>3. PathWork(y) = PathWork(x)
    BY <1>8 DEF PathWork
  <2> QED  BY <1>8, <2>1, <2>2, <2>3 DEF TalkWork
<1> HIDE DEF rest
<1>9. TalkWork(s, x) = rest + h(x.peerNegotiationStarted) + CallWork(x.call)
                       + (Len(x.buffer) - x.cursor)
  BY <1>1, <1>8
<1>10. ASSUME NEW y, Set(s, y), Same(y), y.buffer = x.buffer,
              h(y.peerNegotiationStarted) + CallWork(y.call)
                <= h(x.peerNegotiationStarted) + CallWork(x.call) + 2
       PROVE  SetupWork(a, b)' < SetupWork(a, b)
  <2> DEFINE i == h(y.peerNegotiationStarted)
             j == h(x.peerNegotiationStarted)
             e == Len(x.buffer) - x.cursor
  <2>1. /\ CallWork(y.call) \in Nat /\ CallWork(x.call) \in Nat
        /\ i \in Nat /\ j \in Nat /\ e \in Int
    BY <1>7, CallWorkIs
  <2>2. /\ TalkWork(s, y) = rest + i + CallWork(y.call) + e
        /\ TalkWork(s, x) = rest + j + CallWork(x.call) + e
        /\ PathWork(y) = PathWork(x)
    BY <1>8, <1>9, <1>10
  <2>3. i + CallWork(y.call) <= j + CallWork(x.call) + 2
    BY <1>10
  <2> HIDE DEF h, i, j, e
  <2>4. TalkWork(s, y) <= TalkWork(s, x) + 2
    BY <1>7, <2>1, <2>2, <2>3
  <2> QED  BY <1>3, <1>10, <2>2, <2>4, TakenFalls
<1>11. CASE m.type = "peer_joined"
  <2>1. PICK y : y = [x EXCEPT !.peerPresent = TRUE, !.phase = "peer_present",
                               !.disturbed = @ \/ x.timers # {}]
    OBVIOUS
  <2>2. /\ Same(y) /\ y.buffer = x.buffer /\ y.call = x.call
        /\ y.peerNegotiationStarted = x.peerNegotiationStarted
    BY <1>1, <2>1, FieldsAre
  <2>3. PICK w : w = [y EXCEPT !.peerNegotiationStarted = TRUE, !.phase = "negotiating"]
    OBVIOUS
  <2>4. Same(w) /\ w.buffer = x.buffer /\ w.peerNegotiationStarted = TRUE
    BY <2>2, <2>3, FieldsAre
  <2>5. PICK v : v = createAndSendOffer(w)
    OBVIOUS
  <2>6. /\ Same(v) /\ v.buffer = x.buffer /\ v.peerNegotiationStarted = TRUE
        /\ v.call = "createOffer"
    BY <2>4, <2>5, FieldsAre DEF createAndSendOffer
  <2>7. PICK z : z = maybeStartInitialNegotiation(s, y)
    OBVIOUS
  <2>8. Set(s, z)
    BY <1>3, <1>11, <2>1, <2>7 DEF Received
  <2>9. \/ z = v /\ RoleOf[s] = "peer_a" /\ ~ x.peerNegotiationStarted
        \/ z = y
    BY <2>2, <2>3, <2>5, <2>7 DEF maybeStartInitialNegotiation
  <2>10. CASE z = y
    <3>1. h(z.peerNegotiationStarted) + CallWork(z.call)
            <= h(x.peerNegotiationStarted) + CallWork(x.call) + 2
      BY <2>2, <2>10, CallWorkIs
    <3> QED  BY <1>10, <2>2, <2>8, <2>10, <3>1
  <2>11. CASE z = v /\ RoleOf[s] = "peer_a" /\ ~ x.peerNegotiationStarted
    <3>1. h(z.peerNegotiationStarted) = 0 /\ h(x.peerNegotiationStarted) = 6
      BY <2>6, <2>11
    <3>2. CallWork(z.call) = 5 /\ CallWork(x.call) \in Nat
      BY <2>6, <2>11, CallWorkIs
    <3>3. h(z.peerNegotiationStarted) + CallWork(z.call)
            <= h(x.peerNegotiationStarted) + CallWork(x.call) + 2
      BY <3>1, <3>2
    <3> QED  BY <1>10, <2>6, <2>8, <2>11, <3>3
  <2> QED  BY <2>9, <2>10, <2>11
<1>12. CASE m.type \in {"offer", "answer"}
  <2>1. PICK y : y = [x EXCEPT !.phase = "negotiating", !.disturbed = @ \/ x.timers # {}]
    OBVIOUS
  <2>2. PICK z : z = Applied(y, m.type, m.from)
    OBVIOUS
  <2>3. Set(s, applySignalingDescription(y, RoleOf[s], m.type, m.from))
    BY <1>3, <1>5, <1>12, <2>1 DEF Received
  <2>4. Set(s, z)
    BY <1>4, <1>12, <2>2, <2>3 DEF applySignalingDescription, Applied, OfferCollision
  <2>5. /\ Same(y) /\ y.buffer = x.buffer
        /\ y.peerNegotiationStarted = x.peerNegotiationStarted
    BY <1>1, <2>1, FieldsAre
  <2>6. /\ Same(z) /\ z.buffer = x.buffer
        /\ z.peerNegotiationStarted = x.peerNegotiationStarted
        /\ z.call \in {"setRemoteOffer", "setRemoteAnswer"}
    BY <2>2, <2>5, FieldsAre DEF Applied
  <2>7. CallWork(z.call) <= 2 /\ CallWork(z.call) \in Nat /\ CallWork(x.call) \in Nat
    BY <2>6, CallWorkIs
  <2>8. h(z.peerNegotiationStarted) + CallWork(z.call)
          <= h(x.peerNegotiationStarted) + CallWork(x.call) + 2
    BY <2>6, <2>7
  <2> QED  BY <1>10, <2>4, <2>6, <2>8
<1>13. CASE m.type = "candidate"
  <2>1. PICK c : c = [from |-> m.from, number |-> m.number]
    OBVIOUS
  <2>2. PICK y : y = ReceiveCandidate(x, c)
    OBVIOUS
  <2>3. Set(s, y)
    BY <1>3, <1>5, <1>13, <2>1, <2>2 DEF Received
  <2>4. c \in Candidate
    BY <1>4, <2>1 DEF Frame, Candidate
  <2>5. /\ Same(y) /\ y.call = x.call
        /\ y.peerNegotiationStarted = x.peerNegotiationStarted
        /\ y.buffer = x.buffer \/ y.buffer = Append(x.buffer, c)
    BY <1>1, <2>2, FieldsAre DEF ReceiveCandidate
  <2>6. Len(Append(x.buffer, c)) = Len(x.buffer) + 1
    BY <1>7, <2>4, AppendProperties
  <2>7. Len(y.buffer) \in Nat /\ Len(y.buffer) <= Len(x.buffer) + 1
    BY <1>7, <2>5, <2>6
  <2> DEFINE i == h(x.peerNegotiationStarted)
             k == Len(x.buffer)
             l == Len(y.buffer)
  <2>8. /\ TalkWork(s, y) = rest + i + CallWork(x.call) + (l - x.cursor)
        /\ TalkWork(s, x) = rest + i + CallWork(x.call) + (k - x.cursor)
        /\ PathWork(y) = PathWork(x)
    BY <1>8, <1>9, <2>5
  <2>9. CallWork(x.call) \in Nat /\ i \in Nat /\ k \in Nat /\ l \in Nat /\ l <= k + 1
    BY <1>7, <2>7, CallWorkIs
  <2> HIDE DEF h, i, k, l
  <2>10. TalkWork(s, y) <= TalkWork(s, x) + 2
    BY <1>7, <2>8, <2>9
  <2> QED  BY <1>3, <2>3, <2>8, <2>10, TakenFalls
<1> QED  BY <1>4, <1>5, <1>11, <1>12, <1>13 DEF Frame

\* Whoever joins is told of the other, and the other of it.
LEMMA JoinWork ==
    ASSUME OneSessionEach, IInv, TalkInv, TalkInv', SetupInv, Calm,
           NEW a \in Sessions, NEW b \in Sessions,
           RoleOf[a] = "peer_a", RoleOf[b] = "peer_b",
           NEW s \in Sessions, Join(s)
    PROVE  SetupWork(a, b)' < SetupWork(a, b)
<1> DEFINE x == session[s]
           others == SetToSeq(room)
           mine == [i \in DOMAIN others |-> Joined(others[i])]
           n == 1
<1>1. DOMAIN x = Fields /\ room \subseteq Sessions /\ TalkOf(s, x, faults = 0)
  BY DEF IInv, SessionInv, TypeInv, TalkInv
<1>2. x.socket = "connecting" /\ PathInv(x) /\ WireInv(s, x, wire[s], room)
  BY SessionFacts DEF Join
<1>3. s \notin room /\ wire[s] = <<>> /\ x.step = "done"
  BY <1>2 DEF WireInv, PathInv
<1>4. ~ \E t \in room : RoleOf[t] = RoleOf[s]
  BY <1>1, <1>3 DEF OneSessionEach
<1>5. PICK y : y = [x EXCEPT !.socket = "joined"]
  OBVIOUS
<1>6. /\ Set(s, y)
      /\ wire' = [t \in Sessions |->
                   IF t = s THEN mine
                   ELSE IF t \in room /\ session[t].socket = "joined"
                        THEN Append(wire[t], Joined(s)) ELSE wire[t]]
  BY <1>4, <1>5 DEF Join
<1>7. PICK l \in Nat : Len(wire'[s]) = l /\ l <= 1
  <2>1. room = {} \/ \E t \in Sessions \ {s} : room = {t}
    BY <1>1, <1>3, OneOther
  <2>2. IsFiniteSet(room) /\ Cardinality(room) \in {0, 1}
    BY <2>1, FS_EmptySet, FS_Singleton
  <2>3. PICK c \in Nat : Cardinality(room) = c /\ c <= 1
    BY <2>2
  <2>4. others \in [1..c -> room]
    BY <2>2, <2>3, SeqOfSet
  <2> HIDE DEF others
  <2>5. DOMAIN mine = 1..c
    BY <2>4
  <2>6. mine = [i \in 1..c |-> mine[i]]
    BY <2>5
  <2> HIDE DEF mine
  <2>7. Len(mine) = c
    BY <2>6
  <2>8. wire'[s] = mine
    BY <1>6
  <2> QED  BY <2>3, <2>7, <2>8
<1> HIDE DEF mine
<1>8. \A t \in Sessions \ {s} : Len(wire'[t]) <= Len(wire[t]) + n
  <2> SUFFICES ASSUME NEW t \in Sessions \ {s} PROVE Len(wire'[t]) <= Len(wire[t]) + 1
    OBVIOUS
  <2>1. wire[t] \in Seq(Frame(t)) /\ Joined(s) \in Frame(t) /\ Len(wire[t]) \in Nat
    BY CandidateFrame, Elements DEF TalkInv
  <2>2. wire'[t] = wire[t] \/ wire'[t] = Append(wire[t], Joined(s))
    BY <1>6
  <2>3. Len(Append(wire[t], Joined(s))) = Len(wire[t]) + 1
    BY <2>1, AppendProperties
  <2> QED  BY <2>1, <2>2, <2>3
<1>9. Len(wire[s]) = 0
  BY <1>3
<1>10. /\ y.peerNegotiationStarted = x.peerNegotiationStarted /\ y.remote = x.remote
       /\ y.call = x.call /\ y.found = x.found /\ y.buffer = x.buffer
       /\ y.cursor = x.cursor /\ y.mic = x.mic /\ y.step = x.step
       /\ y.socket = "joined" /\ y.connection = x.connection /\ y.channel = x.channel
       /\ y.clock = x.clock /\ y.preflight = x.preflight
  BY <1>1, <1>5, FieldsAre
<1>11. TalkWork(s, y) = TalkWork(s, x) /\ TalkWork(s, x) \in Nat
  BY <1>1, <1>10, TalkWorkIs DEF TalkWork, CandidatesLeft
<1>12. PathWork(y) + 7 = PathWork(x) /\ PathWork(x) \in Nat /\ PathWork(y) \in Nat
  BY <1>2, <1>3, <1>10, PathWorkIs DEF PathWork
<1> DEFINE k == 0
<1>13. PathWork(y) + TalkWork(s, y) + 3 * l + 3 * n < PathWork(x) + TalkWork(s, x) + 3 * k
  BY <1>7, <1>11, <1>12
<1>14. n \in Nat /\ k \in Nat /\ Len(wire[s]) = k
  BY <1>9
<1> HIDE DEF n, k
<1> QED  BY <1>6, <1>7, <1>8, <1>13, <1>14, StepFalls

\* A setup comes to an end.  Every step, while nothing fails and nobody stops,
\* leaves less to do, a natural number, for the callbacks of session.ts, the
\* frames and the browser; what goes on in an observation leaves as much.  Only
\* somebody who is ready, and starts one, asks for a probe again.
THEOREM SetupEnds ==
    ASSUME OneSessionEach, NEW a \in Sessions, NEW b \in Sessions,
           RoleOf[a] = "peer_a", RoleOf[b] = "peer_b"
    PROVE  Spec => [][Calm /\ Calm' =>
                        /\ SetupWork(a, b) \in Nat
                        /\ \/ SetupWork(a, b)' < SetupWork(a, b)
                           \/ \E s \in Sessions :
                                  Observes(s) /\ SetupWork(a, b)' = SetupWork(a, b)
                           \/ \E s \in Sessions : StartObservation(s)]_vars
<1> DEFINE Step == Calm /\ Calm' =>
                     /\ SetupWork(a, b) \in Nat
                     /\ \/ SetupWork(a, b)' < SetupWork(a, b)
                        \/ \E s \in Sessions :
                               Observes(s) /\ SetupWork(a, b)' = SetupWork(a, b)
                        \/ \E s \in Sessions : StartObservation(s)
<1>1. ASSUME IInv, TalkInv, AgainInv, SetupInv, [Next]_vars
      PROVE  [Step]_vars
  <2> SUFFICES ASSUME Next, Calm, Calm'
               PROVE  /\ SetupWork(a, b) \in Nat
                      /\ \/ SetupWork(a, b)' < SetupWork(a, b)
                         \/ \E s \in Sessions :
                                Observes(s) /\ SetupWork(a, b)' = SetupWork(a, b)
                         \/ \E s \in Sessions : StartObservation(s)
    BY <1>1
  <2>1. TalkInv'
    BY <1>1, TalkNext
  <2>2. SetupWork(a, b) \in Nat
    <3>1. ASSUME NEW t \in Sessions
          PROVE  SessionWork(t, session[t], wire[t]) \in Nat
      <4>1. TalkOf(t, session[t], faults = 0) /\ Len(wire[t]) \in Nat
        BY <1>1, Elements DEF TalkInv
      <4>2. PathWork(session[t]) \in Nat /\ TalkWork(t, session[t]) \in Nat
        BY <4>1, PathWorkIs, TalkWorkIs
      <4> QED  BY <4>1, <4>2 DEF SessionWork
    <3> QED  BY <3>1 DEF SetupWork
  <2>3. PICK s \in Sessions :
            \/ User(s) \/ Progresses(s)
            \/ StreamArrives(s) \/ SecondStreamArrives(s) \/ TrackSwapped(s)
            \/ TrackReplaced(s) \/ ClientLoaded(s)
            \/ Join(s) \/ Leave(s)
            \/ CallRejects(s) \/ ConnectionGoes(s) \/ ChannelCloses(s)
            \/ ObservationEnds(s)
            \/ \E k \in 1 .. MaxObservations[s] :
                   SamplerAsks(s, k) \/ SamplerAnswers(s, k) \/ SamplerExpires(s, k)
    BY DEF Next
  <2>4. CASE StartObservation(s)
    BY <2>2, <2>4
  <2>5. CASE Observes(s)
    BY <1>1, <2>1, <2>2, <2>5, ObservesWork
  <2>6. CASE \/ EnableMicrophone(s) \/ Connect(s)
             \/ StreamArrives(s) \/ TrackReplaced(s) \/ ClientLoaded(s)
    BY <1>1, <2>1, <2>2, <2>6, UserWork
  <2>7. CASE CallResolves(s)
    BY <1>1, <2>1, <2>2, <2>7, CallsWork
  <2>8. CASE Receive(s)
    BY <1>1, <2>1, <2>2, <2>8, ReceiveWork
  <2>9. CASE FindsCandidate(s)
    BY <1>1, <2>1, <2>2, <2>9, FindsWork
  <2>10. CASE \/ ConnectionComes(s) \/ ChannelOpens(s)
              \/ ProbeCompletes(s) \/ PreflightSettles(s)
    BY <1>1, <2>1, <2>2, <2>10, VerdictWork
  <2>11. CASE Join(s)
    BY <1>1, <2>1, <2>2, <2>11, JoinWork
  <2>12. ~ (\/ Stop(s) \/ Leave(s) \/ CallRejects(s)
            \/ ConnectionGoes(s) \/ ChannelCloses(s))
    BY <1>1, NotCalm
  <2>13. ~ (EnableAgain(s) \/ SecondStreamArrives(s) \/ TrackSwapped(s))
    BY <1>1, AgainNever DEF Calm
  <2> QED  BY <2>3, <2>4, <2>5, <2>6, <2>7, <2>8, <2>9, <2>10, <2>11, <2>12, <2>13
              DEF User, Progresses, Observes
<1>2. IInv /\ TalkInv /\ AgainInv /\ SetupInv /\ [Next]_vars => [Step]_vars
  BY <1>1
<1> QED  BY <1>2, Invariance, TalkInvariance, AgainInvariance, SetupInvariance, PTL DEF Spec

=============================================================================
