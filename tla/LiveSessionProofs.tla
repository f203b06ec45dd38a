------------------------- MODULE LiveSessionProofs -------------------------
(***************************************************************************)
(* Proofs about LiveSession, for any number of sessions, observations and  *)
(* candidates and any faults: that a stop is final and that an export      *)
(* holds one observation.                                                  *)
(*                                                                         *)
(* Sessions only meet in frames and paths, so the invariant is one of      *)
(* each session by itself: ObservationInv ties the timers and samplers to  *)
(* the phase, StopInv says what a stop leaves.  The lemmas follow a        *)
(* session's record through the operators the actions are made of.         *)
(***************************************************************************)
EXTENDS LiveSession, TLAPS

Fields == DOMAIN New \cup DOMAIN createNegotiationState

\* A session's record has its fields, and those the invariant reads are of
\* their types.
TypeInv(x) ==
    /\ DOMAIN x = Fields
    /\ x.stopped \in BOOLEAN
    /\ x.spare \in BOOLEAN
    /\ x.disturbed \in BOOLEAN
    /\ x.mic \in {"off", "asking", "live"}
    /\ x.again \in {"none", "asking", "swapping", "done"}
    /\ x.socket \in {"none", "connecting", "joined", "refused", "closed"}

\* An undisturbed session keeps the phase while its one observation runs,
\* and only that one is sampled.
ObservationInv(x) ==
    ~ x.disturbed =>
        /\ x.timers \subseteq {x.started}
        /\ x.samplers \subseteq x.timers
        /\ x.statsSamples \subseteq {x.started}
        /\ x.timers # {} => x.phase \in {"observing", "stopped"}
        /\ x.mic = "asking" \/ x.step = "idle" => x.timers = {}

\* What was not off, or is not, at a stop is in cut; nothing else comes back.
StopInv(x) ==
    /\ x.phase = "stopped" => x.stopped
    /\ x.stopped =>
           /\ x.call = Null
           /\ x.phase = "stopped" \/ x.cut \ {"spare"} # {}
           /\ (x.mic = "off" /\ x.again # "asking") \/ "microphone" \in x.cut
           /\ x.spare => x.cut \cap {"microphone", "spare"} # {}
           /\ \/ /\ x.socket \in {"none", "refused", "closed"}
                 /\ x.step \notin {"replacing", "importing"}
              \/ "connect" \in x.cut
           /\ x.timers = {} \/ "observation" \in x.cut
           /\ x.disturbed \/ x.samplers = {}

SessionInv(x) == TypeInv(x) /\ ObservationInv(x) /\ StopInv(x)

\* y differs from x in the phase, and in what the invariant does not read.
Alike(x, y) ==
    /\ DOMAIN y = DOMAIN x
    /\ y.stopped = x.stopped
    /\ y.cut = x.cut
    /\ y.mic = x.mic
    /\ y.again = x.again
    /\ y.spare = x.spare
    /\ y.socket = x.socket
    /\ y.step = x.step
    /\ y.timers = x.timers
    /\ y.samplers = x.samplers
    /\ y.statsSamples = x.statsSamples
    /\ y.started = x.started
    /\ x.stopped => y.call = x.call

Kept(x, y) == Alike(x, y) /\ y.phase = x.phase /\ y.disturbed = x.disturbed

-----------------------------------------------------------------------------
(* Records                                                                 *)

LEMMA FieldsAre ==
    Fields = {"phase", "stopped", "mic", "step", "socket", "peerPresent",
              "peerNegotiationStarted", "offers", "found", "connection",
              "channel", "clock", "preflight", "started", "timers", "samplers",
              "asking", "statsSamples", "disturbed", "cut", "again", "spare",
              "signalingState", "makingOffer", "isSettingRemoteAnswerPending", "call", "from",
              "remote", "received", "added", "buffer", "cursor"}
BY DEF Fields, New, createNegotiationState

LEMMA KeptInv ==
    ASSUME NEW x, NEW y, SessionInv(x), Kept(x, y)
    PROVE  SessionInv(y)
BY DEF SessionInv, TypeInv, ObservationInv, StopInv, Kept, Alike

\* A phase may follow another when no observation runs, or when the session is
\* marked as disturbed.
LEMMA PhaseInv ==
    ASSUME NEW x, NEW y, SessionInv(x), Alike(x, y),
           y.phase # "stopped",
           y.disturbed \in BOOLEAN,
           x.stopped => x.cut \ {"spare"} # {},
           ~ y.disturbed => ~ x.disturbed /\ x.timers = {}
    PROVE  SessionInv(y)
<1>1. TypeInv(y)
  BY DEF SessionInv, TypeInv, Alike
<1>2. ObservationInv(y)
  BY DEF SessionInv, ObservationInv, Alike
<1>3. StopInv(y)
  BY DEF SessionInv, StopInv, Alike
<1> QED  BY <1>1, <1>2, <1>3 DEF SessionInv

-----------------------------------------------------------------------------
(* Readiness                                                               *)

LEMMA EnsureKeeps ==
    ASSUME NEW x, TypeInv(x)
    PROVE  Kept(x, ensureStatsPreflight(x))
BY FieldsAre DEF Kept, Alike, TypeInv, ensureStatsPreflight

LEMMA EvaluateInv ==
    ASSUME NEW x, SessionInv(x)
    PROVE  SessionInv(evaluateReadyToObserve(x))
<1> DEFINE y == ensureStatsPreflight(x)
           z == [y EXCEPT !.phase = "ready_to_observe"]
<1>1. Kept(x, y)
  BY EnsureKeeps DEF SessionInv
<1>2. SessionInv(y)
  BY <1>1, KeptInv
<1>3. ASSUME ~ x.stopped, y.phase \notin {"observing", "completed"}
      PROVE  SessionInv(z)
  <2> HIDE DEF y
  <2>1. Alike(y, z) /\ z.phase = "ready_to_observe" /\ z.disturbed = y.disturbed
    BY <1>2, FieldsAre DEF SessionInv, TypeInv, Alike
  <2>2. ~ y.stopped
    BY <1>1, <1>3 DEF Kept, Alike
  <2>3. ~ y.disturbed => y.timers = {}
    BY <1>2, <1>3, <2>2 DEF SessionInv, ObservationInv, StopInv
  <2>4. y.disturbed \in BOOLEAN
    BY <1>2 DEF SessionInv, TypeInv
  <2> QED  BY <1>2, <2>1, <2>2, <2>3, <2>4, PhaseInv
<1> QED
  BY <1>2, <1>3 DEF evaluateReadyToObserve

LEMMA InvalidateInv ==
    ASSUME NEW x, SessionInv(x)
    PROVE  SessionInv(invalidateStatsPreflight(x))
<1> DEFINE y == [x EXCEPT !.preflight = IF @ = "none" THEN @ ELSE "cancelled"]
<1>1. Kept(x, y)
  BY FieldsAre DEF SessionInv, TypeInv, Kept, Alike
<1>2. SessionInv(evaluateReadyToObserve(y))
  BY <1>1, KeptInv, EvaluateInv
<1> QED  BY <1>2 DEF invalidateStatsPreflight

-----------------------------------------------------------------------------
(* Negotiation and signaling                                               *)

\* Every call of negotiation.ts, and every continuation of one.
LEMMA CallsKeep ==
    ASSUME NEW x, TypeInv(x), ~ x.stopped
    PROVE  /\ Kept(x, OfferCreated(x))
           /\ Kept(x, OfferSet(x))
           /\ Kept(x, OfferFails(x))
           /\ Kept(x, createAndSendOffer(x))
           /\ Kept(x, RemoteOfferSet(x))
           /\ Kept(x, AnswerCreated(x))
           /\ Kept(x, AnswerSet(x))
           /\ Kept(x, RemoteAnswerSet(x))
           /\ Kept(x, DescriptionFails(x))
           /\ Kept(x, FlushEnds(x))
<1> USE FieldsAre DEF TypeInv, Kept, Alike
<1>1. Kept(x, OfferCreated(x))        BY DEF OfferCreated
<1>2. Kept(x, OfferSet(x))            BY DEF OfferSet
<1>3. Kept(x, OfferFails(x))          BY DEF OfferFails
<1>4. Kept(x, createAndSendOffer(x))  BY DEF createAndSendOffer
<1>5. Kept(x, RemoteOfferSet(x))      BY DEF RemoteOfferSet
<1>6. Kept(x, AnswerCreated(x))       BY DEF AnswerCreated
<1>7. Kept(x, AnswerSet(x))           BY DEF AnswerSet
<1>8. Kept(x, RemoteAnswerSet(x))     BY DEF RemoteAnswerSet
<1>9. Kept(x, DescriptionFails(x))    BY DEF DescriptionFails
<1>10. Kept(x, FlushEnds(x))          BY DEF FlushEnds
<1> QED
  BY ONLY <1>1, <1>2, <1>3, <1>4, <1>5, <1>6, <1>7, <1>8, <1>9, <1>10

LEMMA KeptTwice ==
    ASSUME NEW x, NEW y, NEW z, Kept(x, y), Kept(y, z)
    PROVE  Kept(x, z)
BY DEF Kept, Alike

LEMMA FlushKeeps ==
    ASSUME NEW x, TypeInv(x), ~ x.stopped
    PROVE  Kept(x, flush(x))
<1> DEFINE c == x.buffer[x.cursor + 1]
           y == [x EXCEPT !.cursor = @ + 1,
                          !.added = IF c.from = x.remote THEN @ \cup {c} ELSE @]
<1>1. Kept(x, [x EXCEPT !.call = Null])
  BY FieldsAre DEF TypeInv, Kept, Alike
<1>2. Kept(x, FlushEnds(x))
  BY CallsKeep
<1>3. Kept(x, y)
  BY FieldsAre DEF TypeInv, Kept, Alike
<1>4. Kept(x, FlushEnds(y))
  <2>1. TypeInv(y) /\ ~ y.stopped
    BY <1>3 DEF TypeInv, Kept, Alike
  <2> HIDE DEF y
  <2>2. Kept(y, FlushEnds(y))
    BY <2>1, CallsKeep
  <2> QED  BY <1>3, <2>2, KeptTwice
<1>5. Kept(x, FlushNext(x))
  BY <1>3, <1>4 DEF FlushNext
<1> QED  BY <1>1, <1>2, <1>5 DEF flush

\* An answer that is expected, or an offer that collides, or neither.
LEMMA ApplyKeeps ==
    ASSUME NEW x, NEW role, NEW type, NEW from, TypeInv(x), ~ x.stopped
    PROVE  Kept(x, applySignalingDescription(x, role, type, from))
BY FieldsAre DEF TypeInv, Kept, Alike, applySignalingDescription

LEMMA CandidateKeeps ==
    ASSUME NEW x, NEW c, TypeInv(x)
    PROVE  Kept(x, ReceiveCandidate(x, c))
BY FieldsAre DEF TypeInv, Kept, Alike, ReceiveCandidate

\* An initial negotiation begins outside of an undisturbed observation.
LEMMA NegotiationInv ==
    ASSUME NEW s, NEW x, SessionInv(x), ~ x.disturbed => x.timers = {}
    PROVE  SessionInv(maybeStartInitialNegotiation(s, x))
<1> DEFINE y == [x EXCEPT !.peerNegotiationStarted = TRUE,
                          !.phase = "negotiating"]
<1>1. ASSUME ~ x.stopped
      PROVE  SessionInv(createAndSendOffer(y))
  <2>1. Alike(x, y) /\ y.phase = "negotiating" /\ y.disturbed = x.disturbed
    BY FieldsAre DEF SessionInv, TypeInv, Alike
  <2> HIDE DEF y
  <2>2. SessionInv(y)
    <3>1. y.disturbed \in BOOLEAN
      BY <2>1 DEF SessionInv, TypeInv
    <3> QED  BY <1>1, <2>1, <3>1, PhaseInv
  <2>3. Kept(y, createAndSendOffer(y))
    BY <1>1, <2>1, <2>2, CallsKeep DEF SessionInv, Alike
  <2> QED  BY <2>2, <2>3, KeptInv
<1> QED
  BY <1>1 DEF maybeStartInitialNegotiation, HasConnection

\* A session that gets frames has a socket: if it was stopped, the client was
\* made afterwards.
LEMMA ReceivedInv ==
    ASSUME NEW s, NEW x, NEW m, SessionInv(x), x.socket = "joined"
    PROVE  SessionInv(Received(s, x, m))
<1>1. x.stopped => x.cut \ {"spare"} # {}
  BY DEF SessionInv, StopInv
<1>2. CASE m.type = "peer_joined"
  <2> DEFINE y == [x EXCEPT !.peerPresent = TRUE, !.phase = "peer_present",
                            !.disturbed = @ \/ x.timers # {}]
  <2>1. /\ Alike(x, y) /\ y.phase = "peer_present"
        /\ y.disturbed = (x.disturbed \/ x.timers # {})
    BY FieldsAre DEF SessionInv, TypeInv, Alike
  <2>2. Received(s, x, m) = maybeStartInitialNegotiation(s, y)
    BY <1>2 DEF Received
  <2> HIDE DEF y
  <2>3. /\ y.disturbed \in BOOLEAN
        /\ ~ y.disturbed => ~ x.disturbed /\ x.timers = {}
    BY <2>1 DEF SessionInv, TypeInv
  <2>4. SessionInv(y)
    BY <1>1, <2>1, <2>3, PhaseInv
  <2>5. ~ y.disturbed => y.timers = {}
    BY <2>1, <2>3 DEF Alike
  <2> QED  BY <2>2, <2>4, <2>5, NegotiationInv
<1>3. CASE m.type = "peer_left"
  <2> DEFINE y == [x EXCEPT !.peerPresent = FALSE]
  <2>1. Kept(x, y)
    BY FieldsAre DEF SessionInv, TypeInv, Kept, Alike
  <2>2. Received(s, x, m) = invalidateStatsPreflight(y)
    BY <1>3 DEF Received
  <2> QED  BY <2>1, <2>2, KeptInv, InvalidateInv
<1>4. CASE m.type \in {"offer", "answer"}
  <2> DEFINE y == [x EXCEPT !.phase = "negotiating",
                            !.disturbed = @ \/ x.timers # {}]
  <2>1. /\ Alike(x, y) /\ y.phase = "negotiating"
        /\ y.disturbed = (x.disturbed \/ x.timers # {})
    BY FieldsAre DEF SessionInv, TypeInv, Alike
  <2>2. Received(s, x, m) =
            IF HasConnection(x)
            THEN applySignalingDescription(y, RoleOf[s], m.type, m.from)
            ELSE x
    BY <1>4 DEF Received
  <2> HIDE DEF y
  <2>3. /\ y.disturbed \in BOOLEAN
        /\ ~ y.disturbed => ~ x.disturbed /\ x.timers = {}
    BY <2>1 DEF SessionInv, TypeInv
  <2>4. SessionInv(y)
    BY <1>1, <2>1, <2>3, PhaseInv
  <2>5. ASSUME ~ x.stopped
        PROVE  SessionInv(applySignalingDescription(y, RoleOf[s], m.type, m.from))
    <3>1. ~ y.stopped
      BY <2>1, <2>5 DEF Alike
    <3>2. Kept(y, applySignalingDescription(y, RoleOf[s], m.type, m.from))
      BY <2>4, <3>1, ApplyKeeps DEF SessionInv
    <3> QED  BY <2>4, <3>2, KeptInv
  <2> QED  BY <2>2, <2>5 DEF HasConnection
<1>5. CASE m.type \notin {"peer_joined", "peer_left", "offer", "answer"}
  <2>1. Received(s, x, m) =
            IF HasConnection(x)
            THEN ReceiveCandidate(x, [from |-> m.from, number |-> m.number])
            ELSE x
    BY <1>5 DEF Received
  <2>2. Kept(x, ReceiveCandidate(x, [from |-> m.from, number |-> m.number]))
    BY CandidateKeeps DEF SessionInv
  <2> QED  BY <2>1, <2>2, KeptInv
<1> QED  BY <1>2, <1>3, <1>4, <1>5
-----------------------------------------------------------------------------
(* The other steps of a session                                            *)

LEMMA StopKeepsInv ==
    ASSUME NEW x, SessionInv(x)
    PROVE  SessionInv(stop(x))
<1> DEFINE z == stop(x)
<1>1. /\ DOMAIN z = Fields
      /\ z.stopped = TRUE
      /\ z.phase = "stopped"
      /\ z.cut = Uncancelled(x)
      /\ z.again = x.again /\ z.spare = x.spare
      /\ z.mic = StopTracks(x.mic)
      /\ z.socket = IF x.socket \in {"connecting", "joined"} THEN "closed"
                                                            ELSE x.socket
      /\ z.step = x.step
      /\ z.disturbed = x.disturbed
      /\ z.timers = x.timers
      /\ z.samplers = x.samplers \ {x.started}
      /\ z.statsSamples = x.statsSamples
      /\ z.started = x.started
      /\ z.call = Null
  <2> DEFINE y == [x EXCEPT !.stopped = TRUE, !.phase = "stopped",
             !.cut = Uncancelled(x),
             !.mic = StopTracks(@),
             !.preflight = "none", !.clock = "none",
             !.samplers = @ \ {x.started},
             !.channel = IF @ = "none" THEN @ ELSE "closed",
             !.connection = "closed",
             !.socket = IF @ \in {"connecting", "joined"} THEN "closed" ELSE @]
             n == createNegotiationState
  <2>1. z = With(y, n)
    BY DEF stop
  <2>2. DOMAIN y = Fields
    BY DEF SessionInv, TypeInv
  <2>3. DOMAIN n = {"signalingState", "makingOffer",
                    "isSettingRemoteAnswerPending", "call", "from", "remote",
                    "received", "added", "buffer", "cursor"}
        /\ n.call = Null
    BY DEF createNegotiationState
  <2>4. /\ y.stopped = TRUE
        /\ y.phase = "stopped"
        /\ y.cut = Uncancelled(x)
        /\ y.again = x.again /\ y.spare = x.spare
        /\ y.mic = StopTracks(x.mic)
        /\ y.socket = IF x.socket \in {"connecting", "joined"} THEN "closed"
                                                              ELSE x.socket
        /\ y.step = x.step
        /\ y.disturbed = x.disturbed
        /\ y.timers = x.timers
        /\ y.samplers = x.samplers \ {x.started}
        /\ y.statsSamples = x.statsSamples
        /\ y.started = x.started
    BY FieldsAre DEF SessionInv, TypeInv
  <2> HIDE DEF y, z
  <2>5. z = [f \in Fields |-> IF f \in DOMAIN n THEN n[f] ELSE y[f]]
    BY <2>1, <2>2, <2>3, FieldsAre DEF With
  <2> HIDE DEF n
  <2> QED  BY <2>3, <2>4, <2>5, FieldsAre
<1> HIDE DEF z
<1>2. /\ "asking" \in {x.mic, x.again} => "microphone" \in z.cut
      /\ x.step \in {"replacing", "importing"} => "connect" \in z.cut
      /\ x.timers # {} => "observation" \in z.cut
      /\ x.spare => "spare" \in z.cut
  BY <1>1 DEF Uncancelled
<1>3. TypeInv(z)
  BY <1>1 DEF TypeInv, SessionInv, StopTracks
<1>4. ObservationInv(z)
  BY <1>1 DEF SessionInv, ObservationInv, StopTracks
<1>5. StopInv(z)
  <2>1. z.disturbed \/ z.samplers = {}
    BY <1>1 DEF SessionInv, ObservationInv
  <2>2. (z.mic = "off" /\ z.again # "asking") \/ "microphone" \in z.cut
    BY <1>1, <1>2 DEF SessionInv, TypeInv, StopTracks
  <2>3. z.socket \in {"none", "refused", "closed"}
    BY <1>1 DEF SessionInv, TypeInv
  <2> QED  BY <1>1, <1>2, <2>1, <2>2, <2>3 DEF StopInv
<1> QED  BY <1>3, <1>4, <1>5 DEF SessionInv, z

LEMMA InitInv == SessionInv(With(New, createNegotiationState))
<1> DEFINE x == With(New, createNegotiationState)
<1>1. /\ DOMAIN x = Fields /\ x.phase = "prepared" /\ x.stopped = FALSE
      /\ x.again = "none" /\ x.spare = FALSE /\ x.disturbed = FALSE /\ x.mic = "off"
      /\ x.socket = "none" /\ x.timers = {} /\ x.samplers = {}
      /\ x.statsSamples = {}
  BY DEF Fields, New, createNegotiationState, With
<1> HIDE DEF x
<1>2. SessionInv(x)
  BY <1>1 DEF SessionInv, TypeInv, ObservationInv, StopInv
<1> QED  BY <1>2 DEF x
-----------------------------------------------------------------------------
(* Steps of the system                                                     *)

IInv == session = [s \in Sessions |-> session[s]]
        /\ \A s \in Sessions : SessionInv(session[s])

LEMMA SetInv ==
    ASSUME IInv, NEW s \in Sessions, NEW x, Set(s, x), SessionInv(x)
    PROVE  IInv'
<1>1. session' = [session EXCEPT ![s] = x]
  BY DEF Set
<1>2. DOMAIN session = Sessions
  BY DEF IInv
<1>3. \A t \in Sessions : session'[t] = IF t = s THEN x ELSE session[t]
  BY <1>1, <1>2
<1>4. session' = [t \in Sessions |-> session'[t]]
  BY <1>1, <1>2
<1>5. \A t \in Sessions : SessionInv(session'[t])
  BY <1>3 DEF IInv
<1> QED  BY <1>4, <1>5 DEF IInv

\* What the user does.
LEMMA UserInv ==
    ASSUME IInv, NEW s \in Sessions, User(s)
    PROVE  IInv'
<1> DEFINE x == session[s]
<1>1. SessionInv(x)
  BY DEF IInv
<1>2. CASE EnableMicrophone(s)
  <2> DEFINE y == [x EXCEPT !.mic = "asking"]
  <2>1. Set(s, y) /\ x.phase = "prepared" /\ ~ x.stopped
    BY <1>2 DEF EnableMicrophone
  <2>2. /\ DOMAIN y = DOMAIN x /\ y.mic = "asking" /\ y.phase = x.phase
        /\ y.stopped = x.stopped /\ y.cut = x.cut /\ y.disturbed = x.disturbed
        /\ y.again = x.again /\ y.spare = x.spare
        /\ y.socket = x.socket /\ y.step = x.step /\ y.call = x.call
        /\ y.timers = x.timers /\ y.samplers = x.samplers
        /\ y.statsSamples = x.statsSamples /\ y.started = x.started
    BY <1>1, FieldsAre DEF SessionInv, TypeInv
  <2> HIDE DEF y
  <2>3. SessionInv(y)
    BY <1>1, <2>1, <2>2 DEF SessionInv, TypeInv, ObservationInv, StopInv
  <2> QED  BY <2>1, <2>3, SetInv
<1>6. CASE EnableAgain(s)
  <2> DEFINE y == [x EXCEPT !.again = "asking"]
  <2>1. Set(s, y) /\ x.phase = "prepared" /\ ~ x.stopped
    BY <1>6 DEF EnableAgain
  <2>2. /\ DOMAIN y = DOMAIN x /\ y.mic = x.mic /\ y.phase = x.phase
        /\ y.stopped = x.stopped /\ y.cut = x.cut /\ y.disturbed = x.disturbed
        /\ y.again = "asking" /\ y.spare = x.spare
        /\ y.socket = x.socket /\ y.step = x.step /\ y.call = x.call
        /\ y.timers = x.timers /\ y.samplers = x.samplers
        /\ y.statsSamples = x.statsSamples /\ y.started = x.started
    BY <1>1, FieldsAre DEF SessionInv, TypeInv
  <2> HIDE DEF y
  <2>3. SessionInv(y)
    BY <1>1, <2>1, <2>2 DEF SessionInv, TypeInv, ObservationInv, StopInv
  <2> QED  BY <2>1, <2>3, SetInv
<1>3. CASE Connect(s)
  <2> DEFINE y == [x EXCEPT !.phase = "signaling_connecting",
                            !.step = "replacing"]
  <2>1. Set(s, y) /\ x.phase = "microphone_ready" /\ x.step = "idle" /\ ~ x.stopped
    BY <1>3 DEF Connect
  <2>2. /\ DOMAIN y = DOMAIN x /\ y.mic = x.mic
        /\ y.phase = "signaling_connecting"
        /\ y.stopped = x.stopped /\ y.cut = x.cut /\ y.disturbed = x.disturbed
        /\ y.again = x.again /\ y.spare = x.spare
        /\ y.socket = x.socket /\ y.call = x.call
        /\ y.timers = x.timers /\ y.samplers = x.samplers
        /\ y.statsSamples = x.statsSamples /\ y.started = x.started
    BY <1>1, FieldsAre DEF SessionInv, TypeInv
  <2> HIDE DEF y
  <2>3. SessionInv(y)
    BY <1>1, <2>1, <2>2 DEF SessionInv, TypeInv, ObservationInv, StopInv
  <2> QED  BY <2>1, <2>3, SetInv
<1>4. CASE StartObservation(s)
  <2> DEFINE k == x.started + 1
             y == [x EXCEPT !.phase = "observing", !.started = k,
                            !.clock = "probing",
                            !.timers = @ \cup {k}, !.samplers = @ \cup {k},
                            !.statsSamples = {}]
  <2>1. /\ Set(s, y) /\ x.phase = "ready_to_observe" /\ ~ x.stopped
        /\ x.mic = "live" /\ x.step # "idle"
    BY <1>4 DEF StartObservation, Ready, HasConnection
  <2>2. /\ DOMAIN y = DOMAIN x /\ y.mic = x.mic
        /\ y.phase = "observing"
        /\ y.stopped = x.stopped /\ y.cut = x.cut /\ y.disturbed = x.disturbed
        /\ y.again = x.again /\ y.spare = x.spare
        /\ y.socket = x.socket /\ y.step = x.step /\ y.call = x.call
        /\ y.timers = x.timers \cup {k} /\ y.samplers = x.samplers \cup {k}
        /\ y.statsSamples = {} /\ y.started = k
    BY <1>1, FieldsAre DEF SessionInv, TypeInv
  <2> HIDE DEF y, k
  <2>3. SessionInv(y)
    BY <1>1, <2>1, <2>2 DEF SessionInv, TypeInv, ObservationInv, StopInv
  <2> QED  BY <2>1, <2>3, SetInv
<1>5. CASE Stop(s)
  BY <1>1, <1>5, StopKeepsInv, SetInv DEF Stop
<1> QED  BY <1>2, <1>3, <1>4, <1>5, <1>6 DEF User

\* Calls of the negotiation that settle.
LEMMA CallInv ==
    ASSUME IInv, NEW s \in Sessions, CallResolves(s) \/ CallRejects(s)
    PROVE  IInv'
<1> DEFINE x == session[s]
<1>1. SessionInv(x)
  BY DEF IInv
<1>2. x.call \in Calls
  BY DEF CallResolves, Resolves, CallRejects, Calls
<1>3. ~ x.stopped
  BY <1>1, <1>2, NegotiationAssumption DEF SessionInv, StopInv
<1>4. CASE CallResolves(s)
  <2>1. PICK y : Set(s, y) /\ Kept(x, y)
    <3>1. CASE x.call = "createOffer"
      BY <1>1, <1>3, <1>4, <3>1, CallsKeep DEF CallResolves, Resolves, SessionInv
    <3>2. CASE x.call = "setRemoteOffer"
      BY <1>1, <1>3, <1>4, <3>2, CallsKeep DEF CallResolves, Resolves, SessionInv
    <3>3. CASE x.call = "createAnswer"
      BY <1>1, <1>3, <1>4, <3>3, CallsKeep DEF CallResolves, Resolves, SessionInv
    <3>4. CASE x.call = "setRemoteAnswer"
      BY <1>1, <1>3, <1>4, <3>4, CallsKeep DEF CallResolves, Resolves, SessionInv
    <3>5. CASE x.call = "flush"
      BY <1>1, <1>3, <1>4, <3>5, FlushKeeps DEF CallResolves, Resolves, SessionInv
    <3>6. CASE x.call = "setOffer"
      <4> DEFINE y == OfferSet(x)
                 z == [y EXCEPT !.offers = @ + 1]
      <4>1. Kept(x, y)
        BY <1>1, <1>3, CallsKeep DEF SessionInv
      <4> HIDE DEF y
      <4>2. Kept(y, z)
        BY <1>1, <4>1, FieldsAre DEF SessionInv, TypeInv, Kept, Alike
      <4>3. Kept(x, z)
        BY <4>1, <4>2, KeptTwice
      <4>4. Set(s, z)
        BY <1>4, <3>6 DEF CallResolves, Resolves, y
      <4> QED  BY <4>3, <4>4
    <3>7. CASE x.call = "setAnswer"
      BY <1>1, <1>3, <1>4, <3>7, CallsKeep DEF CallResolves, Resolves, SessionInv
    <3> QED
      BY <1>2, <3>1, <3>2, <3>3, <3>4, <3>5, <3>6, <3>7 DEF Calls
  <2> QED  BY <1>1, <2>1, KeptInv, SetInv
<1>5. CASE CallRejects(s)
  <2>1. CASE Set(s, DescriptionFails(x))
    <3>1. Kept(x, DescriptionFails(x))
      BY <1>1, <1>3, CallsKeep DEF SessionInv
    <3> QED  BY <1>1, <2>1, <3>1, KeptInv, SetInv
  <2> DEFINE y == OfferFails(x)
             z == [y EXCEPT !.peerNegotiationStarted = FALSE,
                            !.phase = IF x.peerPresent THEN "peer_present" ELSE @,
                            !.disturbed = @ \/ x.timers # {}]
  <2>2. CASE Set(s, z)
    <3>1. Kept(x, y)
      BY <1>1, <1>3, CallsKeep DEF SessionInv
    <3> HIDE DEF y
    <3>2. /\ Alike(y, z)
          /\ z.phase = IF x.peerPresent THEN "peer_present" ELSE y.phase
          /\ z.disturbed = (y.disturbed \/ x.timers # {})
      BY <1>1, <3>1, FieldsAre DEF SessionInv, TypeInv, Kept, Alike
    <3> HIDE DEF z
    <3>3. SessionInv(y) /\ ~ y.stopped /\ y.timers = x.timers
      BY <1>1, <1>3, <3>1, KeptInv DEF Kept, Alike
    <3>4. /\ z.phase # "stopped"
          /\ z.disturbed \in BOOLEAN
          /\ ~ z.disturbed => ~ y.disturbed /\ y.timers = {}
      BY <3>2, <3>3 DEF SessionInv, TypeInv, StopInv
    <3>5. SessionInv(z)
      BY <3>2, <3>3, <3>4, PhaseInv
    <3> QED  BY <2>2, <3>5, SetInv
  <2> QED
    BY <1>5, <2>1, <2>2 DEF CallRejects
<1> QED  BY <1>4, <1>5

\* Promises that stop() does not cancel: if it came before them, cut says so.
LEMMA PromiseInv ==
    ASSUME IInv, NEW s \in Sessions,
           \/ StreamArrives(s) \/ SecondStreamArrives(s) \/ TrackSwapped(s)
           \/ TrackReplaced(s) \/ ClientLoaded(s)
    PROVE  IInv'
<1> DEFINE x == session[s]
<1>1. SessionInv(x)
  BY DEF IInv
<1>2. CASE StreamArrives(s)
  <2> DEFINE y == [x EXCEPT !.mic = "live", !.phase = "microphone_ready"]
  <2>1. Set(s, y) /\ x.mic = "asking"
    BY <1>2 DEF StreamArrives
  <2>2. /\ DOMAIN y = DOMAIN x /\ y.mic = "live" /\ y.phase = "microphone_ready"
        /\ y.stopped = x.stopped /\ y.cut = x.cut /\ y.disturbed = x.disturbed
        /\ y.again = x.again /\ y.spare = x.spare
        /\ y.socket = x.socket /\ y.step = x.step /\ y.call = x.call
        /\ y.timers = x.timers /\ y.samplers = x.samplers
        /\ y.statsSamples = x.statsSamples /\ y.started = x.started
    BY <1>1, FieldsAre DEF SessionInv, TypeInv
  <2> HIDE DEF y
  <2>3. SessionInv(y)
    BY <1>1, <2>1, <2>2 DEF SessionInv, TypeInv, ObservationInv, StopInv
  <2> QED  BY <2>1, <2>3, SetInv
<1>3. CASE TrackReplaced(s)
  <2> DEFINE u == [x EXCEPT !.step = "failed"]
             y == [x EXCEPT !.step = "importing",
                       !.channel = IF RoleOf[s] = "peer_a" THEN "connecting" ELSE @]
  <2>1. Set(s, IF x.stopped THEN u ELSE y)
    BY <1>3 DEF TrackReplaced
  <2>2. /\ DOMAIN u = DOMAIN x /\ u.mic = x.mic /\ u.phase = x.phase
        /\ u.stopped = x.stopped /\ u.cut = x.cut /\ u.disturbed = x.disturbed
        /\ u.again = x.again /\ u.spare = x.spare
        /\ u.socket = x.socket /\ u.step = "failed" /\ u.call = x.call
        /\ u.timers = x.timers /\ u.samplers = x.samplers
        /\ u.statsSamples = x.statsSamples /\ u.started = x.started
    BY <1>1, FieldsAre DEF SessionInv, TypeInv
  <2>3. /\ DOMAIN y = DOMAIN x /\ y.mic = x.mic /\ y.phase = x.phase
        /\ y.stopped = x.stopped /\ y.cut = x.cut /\ y.disturbed = x.disturbed
        /\ y.again = x.again /\ y.spare = x.spare
        /\ y.socket = x.socket /\ y.step = "importing" /\ y.call = x.call
        /\ y.timers = x.timers /\ y.samplers = x.samplers
        /\ y.statsSamples = x.statsSamples /\ y.started = x.started
    BY <1>1, FieldsAre DEF SessionInv, TypeInv
  <2> HIDE DEF u, y
  <2>4. CASE x.stopped
    <3>1. SessionInv(u)
      BY <1>1, <2>2 DEF SessionInv, TypeInv, ObservationInv, StopInv
    <3> QED  BY <2>1, <2>4, <3>1, SetInv
  <2>5. CASE ~ x.stopped
    <3>1. SessionInv(y)
      BY <1>1, <2>3, <2>5 DEF SessionInv, TypeInv, ObservationInv, StopInv
    <3> QED  BY <2>1, <2>5, <3>1, SetInv
  <2> QED  BY <2>4, <2>5
<1>4. CASE ClientLoaded(s)
  <2> DEFINE y == [x EXCEPT !.step = "done", !.socket = "connecting"]
  <2>1. Set(s, y) /\ x.step = "importing"
    BY <1>4 DEF ClientLoaded
  <2>2. /\ DOMAIN y = DOMAIN x /\ y.mic = x.mic /\ y.phase = x.phase
        /\ y.stopped = x.stopped /\ y.cut = x.cut /\ y.disturbed = x.disturbed
        /\ y.again = x.again /\ y.spare = x.spare
        /\ y.socket = "connecting" /\ y.step = "done" /\ y.call = x.call
        /\ y.timers = x.timers /\ y.samplers = x.samplers
        /\ y.statsSamples = x.statsSamples /\ y.started = x.started
    BY <1>1, FieldsAre DEF SessionInv, TypeInv
  <2> HIDE DEF y
  <2>3. SessionInv(y)
    BY <1>1, <2>1, <2>2 DEF SessionInv, TypeInv, ObservationInv, StopInv
  <2> QED  BY <2>1, <2>3, SetInv
<1>5. CASE SecondStreamArrives(s)
  <2> DEFINE y == [x EXCEPT !.mic = "live", !.spare = x.mic = "live"]
             u == [y EXCEPT !.again = "done", !.phase = "microphone_ready"]
             v == [y EXCEPT !.again = IF x.stopped THEN "done" ELSE "swapping"]
             Carried(z) ==
               /\ DOMAIN z = DOMAIN x /\ z.mic = "live"
               /\ z.stopped = x.stopped /\ z.cut = x.cut /\ z.disturbed = x.disturbed
               /\ z.spare \in BOOLEAN /\ z.again \in {"none", "asking", "swapping", "done"}
               /\ z.socket = x.socket /\ z.step = x.step /\ z.call = x.call
               /\ z.timers = x.timers /\ z.samplers = x.samplers
               /\ z.statsSamples = x.statsSamples /\ z.started = x.started
  <2>1. /\ Set(s, IF x.step = "idle" THEN u ELSE v)
        /\ x.again = "asking" /\ x.mic # "asking"
    BY <1>5 DEF SecondStreamArrives
  <2>2. Carried(y) /\ y.phase = x.phase
    <3>1. (x.mic = "live") \in BOOLEAN
      OBVIOUS
    <3> QED  BY <1>1, <3>1, FieldsAre DEF SessionInv, TypeInv
  <2>3. DOMAIN y = Fields
    BY <1>1, <2>2 DEF SessionInv, TypeInv
  <2> HIDE DEF y
  <2>4. Carried(u) /\ u.phase = "microphone_ready"
    BY <2>2, <2>3, FieldsAre
  <2>5. Carried(v) /\ v.phase = x.phase
    BY <2>2, <2>3, FieldsAre
  <2> HIDE DEF u, v
  <2>6. x.stopped => "microphone" \in x.cut
    BY <1>1, <2>1 DEF SessionInv, StopInv
  <2>7. CASE x.step = "idle"
    <3>1. SessionInv(u)
      BY <1>1, <2>4, <2>6, <2>7 DEF SessionInv, TypeInv, ObservationInv, StopInv
    <3> QED  BY <2>1, <2>7, <3>1, SetInv
  <2>8. CASE x.step # "idle"
    <3>1. SessionInv(v)
      BY <1>1, <2>5, <2>6 DEF SessionInv, TypeInv, ObservationInv, StopInv
    <3> QED  BY <2>1, <2>8, <3>1, SetInv
  <2> QED  BY <2>7, <2>8
<1>6. CASE TrackSwapped(s)
  <2> DEFINE y == [x EXCEPT !.again = "done", !.phase = "microphone_ready",
                            !.disturbed = @ \/ x.timers # {}]
  <2>1. Set(s, y) /\ ~ x.stopped
    BY <1>6 DEF TrackSwapped
  <2>2. /\ DOMAIN y = DOMAIN x /\ y.mic = x.mic /\ y.phase = "microphone_ready"
        /\ y.stopped = x.stopped /\ y.cut = x.cut
        /\ y.disturbed = (x.disturbed \/ x.timers # {})
        /\ y.again = "done" /\ y.spare = x.spare
        /\ y.socket = x.socket /\ y.step = x.step /\ y.call = x.call
        /\ y.timers = x.timers /\ y.samplers = x.samplers
        /\ y.statsSamples = x.statsSamples /\ y.started = x.started
    BY <1>1, FieldsAre DEF SessionInv, TypeInv
  <2> HIDE DEF y
  <2>3. SessionInv(y)
    BY <1>1, <2>1, <2>2 DEF SessionInv, TypeInv, ObservationInv, StopInv
  <2> QED  BY <2>1, <2>3, SetInv
<1> QED  BY <1>2, <1>3, <1>4, <1>5, <1>6

\* The socket of a session, and the frames it gets.
LEMMA SocketInv ==
    ASSUME IInv, NEW s \in Sessions, Join(s) \/ Leave(s) \/ Receive(s)
    PROVE  IInv'
<1> DEFINE x == session[s]
<1>1. SessionInv(x)
  BY DEF IInv
<1>2. CASE Join(s)
  <2>1. x.socket = "connecting"
    BY <1>2 DEF Join
  <2>2. ASSUME NEW c \in {"joined", "refused"}
        PROVE  SessionInv([x EXCEPT !.socket = c])
    <3> DEFINE y == [x EXCEPT !.socket = c]
    <3>1. /\ DOMAIN y = DOMAIN x /\ y.mic = x.mic /\ y.phase = x.phase
          /\ y.stopped = x.stopped /\ y.cut = x.cut /\ y.disturbed = x.disturbed
          /\ y.again = x.again /\ y.spare = x.spare
          /\ y.socket = c /\ y.step = x.step /\ y.call = x.call
          /\ y.timers = x.timers /\ y.samplers = x.samplers
          /\ y.statsSamples = x.statsSamples /\ y.started = x.started
      BY <1>1, FieldsAre DEF SessionInv, TypeInv
    <3> HIDE DEF y
    <3>2. SessionInv(y)
      BY <1>1, <2>1, <3>1 DEF SessionInv, TypeInv, ObservationInv, StopInv
    <3> QED  BY <3>2 DEF y
  <2>3. \E c \in {"joined", "refused"} : Set(s, [x EXCEPT !.socket = c])
    BY <1>2 DEF Join
  <2> QED  BY <2>2, <2>3, SetInv
<1>3. CASE Leave(s)
  BY <1>3 DEF Leave, IInv
<1>4. CASE Receive(s)
  <2>1. Set(s, Received(s, x, Head(wire[s]))) /\ x.socket = "joined"
    BY <1>4 DEF Receive
  <2> QED  BY <1>1, <2>1, ReceivedInv, SetInv
<1> QED  BY <1>2, <1>3, <1>4

\* Events of the connection, probes and preflight.
LEMMA ConnectionInv ==
    ASSUME IInv, NEW s \in Sessions,
           \/ FindsCandidate(s) \/ ConnectionComes(s) \/ ConnectionGoes(s)
           \/ ChannelOpens(s) \/ ChannelCloses(s) \/ ProbeCompletes(s)
           \/ PreflightSettles(s)
    PROVE  IInv'
<1> DEFINE x == session[s]
<1>1. SessionInv(x)
  BY DEF IInv
<1>2. ASSUME NEW y, Kept(x, y)
      PROVE  /\ SessionInv(y)
             /\ SessionInv(evaluateReadyToObserve(y))
             /\ SessionInv(invalidateStatsPreflight(y))
  BY <1>1, <1>2, KeptInv, EvaluateInv, InvalidateInv
<1>3. CASE FindsCandidate(s)
  <2> DEFINE y == [x EXCEPT !.found = @ + 1]
  <2>1. Kept(x, y)
    BY <1>1, FieldsAre DEF SessionInv, TypeInv, Kept, Alike
  <2>2. Set(s, y)
    BY <1>3 DEF FindsCandidate
  <2> QED  BY <1>2, <2>1, <2>2, SetInv
<1>4. CASE ConnectionComes(s)
  <2> DEFINE y == [x EXCEPT !.connection = "connected", !.phase = "connected",
                            !.disturbed = @ \/ x.timers # {}]
  <2>1. Set(s, evaluateReadyToObserve(y)) /\ ~ x.stopped
    BY <1>4 DEF ConnectionComes, Linked, HasConnection
  <2>2. /\ Alike(x, y) /\ y.phase = "connected"
        /\ y.disturbed = (x.disturbed \/ x.timers # {})
    BY <1>1, FieldsAre DEF SessionInv, TypeInv, Alike
  <2> HIDE DEF y
  <2>3. /\ y.disturbed \in BOOLEAN
        /\ ~ y.disturbed => ~ x.disturbed /\ x.timers = {}
    BY <1>1, <2>2 DEF SessionInv, TypeInv
  <2>4. SessionInv(y)
    BY <1>1, <2>1, <2>2, <2>3, PhaseInv
  <2> QED  BY <2>1, <2>4, EvaluateInv, SetInv
<1>5. CASE ConnectionGoes(s)
  <2> DEFINE y == [x EXCEPT !.connection = "disconnected"]
  <2>1. Kept(x, y)
    BY <1>1, FieldsAre DEF SessionInv, TypeInv, Kept, Alike
  <2>2. Set(s, invalidateStatsPreflight(y))
    BY <1>5 DEF ConnectionGoes
  <2> QED  BY <1>2, <2>1, <2>2, SetInv
<1>6. CASE ChannelOpens(s)
  <2> DEFINE y == [x EXCEPT !.channel = "open", !.clock = "probing"]
  <2>1. Kept(x, y)
    BY <1>1, FieldsAre DEF SessionInv, TypeInv, Kept, Alike
  <2>2. Set(s, y)
    BY <1>6 DEF ChannelOpens
  <2> QED  BY <1>2, <2>1, <2>2, SetInv
<1>7. CASE ChannelCloses(s)
  <2> DEFINE y == [x EXCEPT !.channel = "closed"]
  <2>1. Kept(x, y)
    BY <1>1, FieldsAre DEF SessionInv, TypeInv, Kept, Alike
  <2>2. Set(s, invalidateStatsPreflight(y))
    BY <1>7 DEF ChannelCloses
  <2> QED  BY <1>2, <2>1, <2>2, SetInv
<1>8. CASE ProbeCompletes(s)
  <2> DEFINE y == [x EXCEPT !.clock = "ok"]
  <2>1. Kept(x, y)
    BY <1>1, FieldsAre DEF SessionInv, TypeInv, Kept, Alike
  <2>2. Set(s, evaluateReadyToObserve(y))
    BY <1>8 DEF ProbeCompletes, ProbeCompleted
  <2> QED  BY <1>2, <2>1, <2>2, SetInv
<1>9. CASE PreflightSettles(s)
  <2>1. ASSUME NEW v PROVE Kept(x, [x EXCEPT !.preflight = v])
    BY <1>1, FieldsAre DEF SessionInv, TypeInv, Kept, Alike
  <2>2. \E v : Set(s, evaluateReadyToObserve([x EXCEPT !.preflight = v]))
    BY <1>9 DEF PreflightSettles
  <2> QED  BY <1>2, <2>1, <2>2, SetInv
<1> QED  BY <1>3, <1>4, <1>5, <1>6, <1>7, <1>8, <1>9

\* The timer of an observation, and its sampler.
LEMMA SamplingInv ==
    ASSUME IInv, NEW s \in Sessions,
           \/ ObservationEnds(s)
           \/ \E k \in 1 .. MaxObservations[s] :
                  SamplerAsks(s, k) \/ SamplerAnswers(s, k) \/ SamplerExpires(s, k)
    PROVE  IInv'
<1> DEFINE x == session[s]
<1>1. SessionInv(x)
  BY DEF IInv
<1>2. CASE ObservationEnds(s)
  <2>1. PICK k \in x.timers :
            Set(s, [x EXCEPT !.timers = @ \ {k}, !.samplers = @ \ {x.started},
                             !.phase = "completed"])
    BY <1>2 DEF ObservationEnds
  <2> DEFINE y == [x EXCEPT !.timers = @ \ {k}, !.samplers = @ \ {x.started},
                            !.phase = "completed"]
  <2>2. /\ DOMAIN y = DOMAIN x /\ y.mic = x.mic /\ y.phase = "completed"
        /\ y.stopped = x.stopped /\ y.cut = x.cut /\ y.disturbed = x.disturbed
        /\ y.again = x.again /\ y.spare = x.spare
        /\ y.socket = x.socket /\ y.step = x.step /\ y.call = x.call
        /\ y.timers = x.timers \ {k} /\ y.samplers = x.samplers \ {x.started}
        /\ y.statsSamples = x.statsSamples /\ y.started = x.started
    BY <1>1, FieldsAre DEF SessionInv, TypeInv
  <2> HIDE DEF y
  <2>3. SessionInv(y)
    <3>1. TypeInv(y)
      BY <1>1, <2>2 DEF SessionInv, TypeInv
    <3>2. ObservationInv(y)
      BY <1>1, <2>1, <2>2 DEF SessionInv, ObservationInv
    <3>3. StopInv(y)
      BY <1>1, <2>1, <2>2 DEF SessionInv, StopInv
    <3> QED  BY <3>1, <3>2, <3>3 DEF SessionInv
  <2>4. Set(s, y)
    BY <2>1 DEF y
  <2> QED  BY <2>3, <2>4, SetInv
<1>3. ASSUME NEW k, SamplerAsks(s, k)
      PROVE  IInv'
  <2> DEFINE y == [x EXCEPT !.asking = @ \cup {k}]
  <2>1. Kept(x, y)
    BY <1>1, FieldsAre DEF SessionInv, TypeInv, Kept, Alike
  <2>2. Set(s, y)
    BY <1>3 DEF SamplerAsks
  <2> QED  BY <1>1, <2>1, <2>2, KeptInv, SetInv
<1>4. ASSUME NEW k, SamplerAnswers(s, k)
      PROVE  IInv'
  <2> DEFINE y == [x EXCEPT
                     !.asking = @ \ {k},
                     !.statsSamples = IF Taken(x, k) THEN @ \cup {k} ELSE @]
  <2>1. Set(s, y)
    BY <1>4 DEF SamplerAnswers
  <2>2. /\ DOMAIN y = DOMAIN x /\ y.mic = x.mic /\ y.phase = x.phase
        /\ y.stopped = x.stopped /\ y.cut = x.cut /\ y.disturbed = x.disturbed
        /\ y.again = x.again /\ y.spare = x.spare
        /\ y.socket = x.socket /\ y.step = x.step /\ y.call = x.call
        /\ y.timers = x.timers /\ y.samplers = x.samplers
        /\ y.statsSamples = IF k \in x.samplers THEN x.statsSamples \cup {k}
                                                ELSE x.statsSamples
        /\ y.started = x.started
    BY <1>1, FieldsAre DEF SessionInv, TypeInv, Taken
  <2> HIDE DEF y
  <2>3. SessionInv(y)
    BY <1>1, <2>2 DEF SessionInv, TypeInv, ObservationInv, StopInv
  <2> QED  BY <2>1, <2>3, SetInv
<1>5. ASSUME NEW k, SamplerExpires(s, k)
      PROVE  IInv'
  <2> DEFINE y == [x EXCEPT !.samplers = @ \ {k}]
  <2>1. Set(s, y)
    BY <1>5 DEF SamplerExpires
  <2>2. /\ DOMAIN y = DOMAIN x /\ y.mic = x.mic /\ y.phase = x.phase
        /\ y.stopped = x.stopped /\ y.cut = x.cut /\ y.disturbed = x.disturbed
        /\ y.again = x.again /\ y.spare = x.spare
        /\ y.socket = x.socket /\ y.step = x.step /\ y.call = x.call
        /\ y.timers = x.timers /\ y.samplers = x.samplers \ {k}
        /\ y.statsSamples = x.statsSamples /\ y.started = x.started
    BY <1>1, FieldsAre DEF SessionInv, TypeInv
  <2> HIDE DEF y
  <2>3. SessionInv(y)
    BY <1>1, <2>2 DEF SessionInv, TypeInv, ObservationInv, StopInv
  <2> QED  BY <2>1, <2>3, SetInv
<1> QED  BY <1>2, <1>3, <1>4, <1>5

LEMMA NextInv ==
    ASSUME IInv, [Next]_vars
    PROVE  IInv'
<1>1. CASE Next
  <2>1. PICK s \in Sessions :
           \/ User(s) \/ Progresses(s)
           \/ StreamArrives(s) \/ SecondStreamArrives(s) \/ TrackSwapped(s)
           \/ TrackReplaced(s) \/ ClientLoaded(s)
           \/ Join(s) \/ Leave(s)
           \/ CallRejects(s) \/ ConnectionGoes(s) \/ ChannelCloses(s)
           \/ ObservationEnds(s)
           \/ \E k \in 1 .. MaxObservations[s] :
                  SamplerAsks(s, k) \/ SamplerAnswers(s, k) \/ SamplerExpires(s, k)
    BY <1>1 DEF Next
  <2> QED
    BY <2>1, UserInv, CallInv, PromiseInv, SocketInv, ConnectionInv, SamplingInv
       DEF Progresses
<1>2. CASE UNCHANGED vars
  BY <1>2 DEF vars, IInv
<1> QED  BY <1>1, <1>2

-----------------------------------------------------------------------------
(* Theorems                                                                *)

\* The invariant of every session holds in every state.  It is about the
\* callbacks of session.ts that run after stop() or during an observation.
THEOREM Invariance == Spec => []IInv
<1>1. Init => IInv
  <2> SUFFICES ASSUME Init PROVE IInv
    OBVIOUS
  <2>1. session = [s \in Sessions |-> With(New, createNegotiationState)]
    BY DEF Init
  <2> QED  BY <2>1, InitInv DEF IInv
<1>2. IInv /\ [Next]_vars => IInv'
  BY NextInv
<1> QED  BY <1>1, <1>2, PTL DEF Spec

\* Whatever settles or fires after stop(): the stream of the session stays
\* closed, no socket keeps the room, the phase stays and nothing samples, but for
\* what stop() found pending and does not cancel.
THEOREM StopCorrect == Spec => []StopIsFinal
<1>1. IInv => StopIsFinal
  <2> SUFFICES ASSUME IInv, NEW s \in Sessions, session[s].stopped
               PROVE  LET x == session[s]
                      IN  /\ x.mic = "off" \/ "microphone" \in x.cut
                          /\ x.spare => x.cut \cap {"microphone", "spare"} # {}
                          /\ \/ x.socket \in {"none", "refused", "closed"}
                             \/ "connect" \in x.cut
                          /\ x.phase = "stopped" \/ x.cut \ {"spare"} # {}
                          /\ x.disturbed \/ x.samplers = {}
    BY DEF StopIsFinal
  <2> QED  BY DEF IInv, SessionInv, StopInv
<1> QED  BY <1>1, Invariance, PTL

\* An export of a completed, undisturbed session holds one whole observation,
\* however often the session observed and whenever getStats answered.
THEOREM ObservationCorrect == Spec => []OneObservationPerExport
<1>1. IInv => OneObservationPerExport
  <2> SUFFICES ASSUME IInv, NEW s \in Sessions,
                      session[s].phase = "completed", ~ session[s].disturbed
               PROVE  /\ session[s].timers = {}
                      /\ session[s].statsSamples \subseteq {session[s].started}
    BY DEF OneObservationPerExport
  <2> QED  BY DEF IInv, SessionInv, ObservationInv
<1> QED  BY <1>1, Invariance, PTL
=============================================================================
