---------------------------- MODULE LiveSession ----------------------------
(***************************************************************************)
(* Live sessions of two peers (live/session.ts) over the signaling service *)
(* and a peer connection: microphone, connecting, negotiation, readiness,  *)
(* observation and stop.                                                   *)
(*                                                                         *)
(* A session's code runs on one thread; an action is the code from one     *)
(* await or callback to the next.  session[s] is the object s with its     *)
(* negotiation (module Negotiation).  The user does what the panel's       *)
(* buttons allow in the phase shown.  The room and the order of frames are *)
(* those of module Signaling without overruns; the peer connection, the    *)
(* data channel and getUserMedia are the browser's.  Connection and ICE    *)
(* state change together.  The remote track is there from the first        *)
(* evaluation on: a receiver has one from the start.  Of the clock probes  *)
(* (module ClockProbe) and the stats preflight (module RtpPreflight) only  *)
(* the verdict matters here.                                               *)
(***************************************************************************)
EXTENDS Negotiation, SequencesExt

CONSTANTS
    MaxObservations,   \* bound: observations of each session
    MaxFaults          \* bound: failures of calls, paths and probes, and
                       \* second clicks on Enable Microphone

VARIABLES
    session,
    room,              \* sessions whose socket is in the room
    wire,              \* wire[s]: frames on their way to s
    faults             \* how many faults there were

vars == <<session, room, wire, faults>>

Phases == {"prepared", "microphone_ready", "signaling_connecting",
           "peer_present", "negotiating", "connected", "ready_to_observe",
           "observing", "completed", "stopped"}


New ==
    [phase |-> "prepared", stopped |-> FALSE,
     mic |-> "off",            \* off, asking (getUserMedia pending) or live
     again |-> "none",         \* a second enableMicrophone(): none, asking,
                               \* swapping (replaceTrack pending) or done
     spare |-> FALSE,          \* a stream is open that localStream no longer is
     step |-> "idle",          \* connect: idle, replacing, importing, failed, done
     socket |-> "none",        \* none, connecting, joined, refused or closed
     peerPresent |-> FALSE,
     peerNegotiationStarted |-> FALSE,
     offers |-> 0,             \* offers relayed
     found |-> 0,              \* candidates relayed
     connection |-> "new",     \* new, connected, disconnected or closed
     channel |-> "none",       \* data channel: none, connecting, open or closed
     clock |-> "none",         \* none, probing or ok: a valid local probe
     preflight |-> "none",     \* of the RtpStatsPreflightController
     started |-> 0,            \* observations started
     timers |-> {},            \* observations whose time has not passed
     samplers |-> {},          \* their StatsSamplers that were not stopped
     asking |-> {},            \* samplers that await getStats
     statsSamples |-> {},      \* the samplers statsSamples came from
     disturbed |-> FALSE,      \* another event set the phase in an observation
     cut |-> {}]               \* what stop() did not cancel

\* The record x with the fields of y in place of its own.
With(x, y) ==
    [f \in DOMAIN x \cup DOMAIN y |-> IF f \in DOMAIN y THEN y[f] ELSE x[f]]

Init ==
    /\ session = [s \in Sessions |-> With(New, createNegotiationState)]
    /\ room = {}
    /\ wire = [s \in Sessions |-> <<>>]
    /\ faults = 0

-----------------------------------------------------------------------------
(* Readiness                                                               *)

HasConnection(x) == x.step # "idle" /\ ~ x.stopped

canStartStatsPreflight(x) ==
    /\ HasConnection(x)
    /\ x.peerPresent
    /\ x.connection = "connected"
    /\ x.channel = "open"

\* A restart asked for while an attempt is in flight follows its end
\* (RtpPreflight's RestartIsServed), here it follows at once.
ensureStatsPreflight(x) ==
    IF canStartStatsPreflight(x)
    THEN [x EXCEPT !.preflight =
             IF @ \in {"none", "idle", "cancelled"} THEN "probing" ELSE @]
    ELSE [x EXCEPT !.preflight =
             IF @ \in {"probing", "available", "exhausted"} THEN "cancelled" ELSE @]

\* collectReadyFailures() is empty.
Ready(x) ==
    /\ x.peerPresent
    /\ x.mic = "live"
    /\ HasConnection(x) /\ x.connection = "connected"
    /\ x.signalingState = "stable"
    /\ ~ x.makingOffer /\ ~ x.isSettingRemoteAnswerPending
    /\ x.channel = "open"
    /\ x.clock = "ok"
    /\ x.preflight = "available"

evaluateReadyToObserve(x) ==
    LET y == ensureStatsPreflight(x)
    IN  IF x.stopped THEN x
        ELSE IF Ready(y) /\ y.phase \notin {"observing", "completed"}
             THEN [y EXCEPT !.phase = "ready_to_observe"]
             ELSE y

invalidateStatsPreflight(x) ==
    evaluateReadyToObserve(
        [x EXCEPT !.preflight = IF @ = "none" THEN @ ELSE "cancelled"])

-----------------------------------------------------------------------------
(* Signaling                                                               *)

\* What x relays reaches the other members of the room, if its socket is open.
Relayed(s, frames) ==
    [t \in Sessions |->
        IF s \in room /\ t \in room \ {s} /\ session[s].socket = "joined"
           /\ session[t].socket = "joined"
        THEN wire[t] \o frames
        ELSE wire[t]]

Description(s, type) == [type |-> type, from |-> s, number |-> 0]
CandidateOf(s, k)    == [type |-> "candidate", from |-> s, number |-> k]
Joined(s)            == [type |-> "peer_joined", from |-> s, number |-> 0]
Left(s)              == [type |-> "peer_left", from |-> s, number |-> 0]

Set(s, x) == session' = [session EXCEPT ![s] = x]

\* Mutant: whoever sees the other join makes an offer.
maybeStartInitialNegotiationBoth(s, x) ==
    IF HasConnection(x) /\ x.peerPresent /\ ~ x.peerNegotiationStarted
    THEN createAndSendOffer([x EXCEPT !.peerNegotiationStarted = TRUE,
                                      !.phase = "negotiating"])
    ELSE x

\* Only peer_a offers, once; negotiationneeded comes before anybody is present.
maybeStartInitialNegotiation(s, x) ==
    IF /\ RoleOf[s] = "peer_a"
       /\ HasConnection(x)
       /\ x.peerPresent
       /\ ~ x.peerNegotiationStarted
       /\ ~ x.makingOffer
       /\ x.signalingState = "stable"
    THEN createAndSendOffer([x EXCEPT !.peerNegotiationStarted = TRUE,
                                      !.phase = "negotiating"])
    ELSE x

\* The server admits one socket per role; a refused one only gets an error.
Join(s) ==
    /\ session[s].socket = "connecting"
    /\ IF \E t \in room : RoleOf[t] = RoleOf[s]
       THEN /\ Set(s, [session[s] EXCEPT !.socket = "refused"])
            /\ UNCHANGED <<room, wire>>
       ELSE /\ Set(s, [session[s] EXCEPT !.socket = "joined"])
            /\ room' = room \cup {s}
            /\ LET others == SetToSeq(room)
               IN  wire' = [t \in Sessions |->
                     IF t = s THEN [i \in DOMAIN others |-> Joined(others[i])]
                     ELSE IF t \in room /\ session[t].socket = "joined"
                          THEN Append(wire[t], Joined(s)) ELSE wire[t]]
    /\ UNCHANGED faults

\* The server notices that a socket was closed.
Leave(s) ==
    /\ s \in room
    /\ session[s].socket = "closed"
    /\ room' = room \ {s}
    /\ wire' = [t \in Sessions |->
                  IF t \in room \ {s} /\ session[t].socket = "joined"
                  THEN Append(wire[t], Left(s)) ELSE wire[t]]
    /\ UNCHANGED <<session, faults>>

Received(s, x, m) ==
    CASE m.type = "peer_joined" ->
            maybeStartInitialNegotiation(s,
                [x EXCEPT !.peerPresent = TRUE, !.phase = "peer_present",
                          !.disturbed = @ \/ x.timers # {}])
      [] m.type = "peer_left" ->
            invalidateStatsPreflight([x EXCEPT !.peerPresent = FALSE])
      [] m.type \in {"offer", "answer"} ->
            IF HasConnection(x)
            THEN applySignalingDescription(
                     [x EXCEPT !.phase = "negotiating",
                               !.disturbed = @ \/ x.timers # {}],
                     RoleOf[s], m.type, m.from)
            ELSE x
      [] OTHER ->  \* a candidate
            IF HasConnection(x)
            THEN ReceiveCandidate(x, [from |-> m.from, number |-> m.number])
            ELSE x

Receive(s) ==
    /\ session[s].socket = "joined"
    /\ wire[s] # <<>>
    /\ Set(s, Received(s, session[s], Head(wire[s])))
    /\ wire' = [wire EXCEPT ![s] = Tail(@)]
    /\ UNCHANGED <<room, faults>>

-----------------------------------------------------------------------------
(* The user                                                                *)

EnableMicrophone(s) ==
    /\ session[s].phase = "prepared" /\ ~ session[s].stopped
    /\ session[s].mic = "off"
    /\ Set(s, [session[s] EXCEPT !.mic = "asking"])
    /\ UNCHANGED <<room, wire, faults>>

\* enableMicrophone() does not ask whether it was called before, and its button
\* stays enabled until a stream is there.  Bound: it is called at most twice.
EnableAgain(s) ==
    /\ session[s].phase = "prepared" /\ ~ session[s].stopped
    /\ session[s].mic = "asking" /\ session[s].again = "none"
    /\ faults < MaxFaults /\ faults' = faults + 1
    /\ Set(s, [session[s] EXCEPT !.again = "asking"])
    /\ UNCHANGED <<room, wire>>

\* Bound: once, also when a second stream brings the phase back.
Connect(s) ==
    /\ session[s].phase = "microphone_ready" /\ session[s].step = "idle"
    /\ ~ session[s].stopped
    /\ Set(s, [session[s] EXCEPT !.phase = "signaling_connecting",
                                 !.step = "replacing"])
    /\ UNCHANGED <<room, wire, faults>>

\* The clock samples are dropped and the probes begin again.
StartObservation(s) ==
    LET x == session[s]
        k == x.started + 1
    IN  /\ x.phase = "ready_to_observe"
        /\ ~ x.stopped
        /\ Ready(x)
        /\ k <= MaxObservations[s]
        /\ Set(s, [x EXCEPT !.phase = "observing", !.started = k,
                            !.clock = "probing",
                            !.timers = @ \cup {k}, !.samplers = @ \cup {k},
                            !.statsSamples = {}])
        /\ UNCHANGED <<room, wire, faults>>

\* Mutant: the stream is left to the garbage collector.
StopTracksNever(mic) == mic

StopTracks(mic) == IF mic = "live" THEN "off" ELSE mic

\* What goes on after a stop: getUserMedia, connect(), the wait of an observation
\* and a stream that is not localStream.
Uncancelled(x) ==
    (IF "asking" \in {x.mic, x.again} THEN {"microphone"} ELSE {})
    \cup (IF x.step \in {"replacing", "importing"} THEN {"connect"} ELSE {})
    \cup (IF x.timers # {} THEN {"observation"} ELSE {})
    \cup (IF x.spare THEN {"spare"} ELSE {})

\* Only the latest sampler is known.  What is pending goes on, the calls of
\* the closed connection excepted: they never settle, and without it the
\* negotiation state is not read again.
stop(x) ==
    With([x EXCEPT !.stopped = TRUE, !.phase = "stopped",
             !.cut = Uncancelled(x),
             !.mic = StopTracks(@),
             !.preflight = "none", !.clock = "none",
             !.samplers = @ \ {x.started},
             !.channel = IF @ = "none" THEN @ ELSE "closed",
             !.connection = "closed",
             !.socket = IF @ \in {"connecting", "joined"} THEN "closed" ELSE @],
         createNegotiationState)

Stop(s) ==
    /\ ~ session[s].stopped
    /\ Set(s, stop(session[s]))
    /\ wire' = [wire EXCEPT ![s] = <<>>]
    /\ UNCHANGED <<room, faults>>

-----------------------------------------------------------------------------
(* Promises and timers of a session, which stop() does not cancel          *)

StreamArrives(s) ==
    /\ session[s].mic = "asking"
    /\ Set(s, [session[s] EXCEPT !.mic = "live", !.phase = "microphone_ready"])
    /\ UNCHANGED <<room, wire, faults>>

\* Of two streams the second takes the place of the first, which stays open.
\* Once connect() has begun its track is swapped in, which a stop forbids.
SecondStreamArrives(s) ==
    LET x == session[s]
        y == [x EXCEPT !.mic = "live", !.spare = x.mic = "live"]
    IN  /\ x.again = "asking" /\ x.mic # "asking"
        /\ Set(s, IF x.step = "idle"
                  THEN [y EXCEPT !.again = "done", !.phase = "microphone_ready"]
                  ELSE [y EXCEPT !.again = IF x.stopped THEN "done" ELSE "swapping"])
        /\ UNCHANGED <<room, wire, faults>>

\* Whatever the session was at, its phase is set back.
TrackSwapped(s) ==
    /\ session[s].again = "swapping" /\ ~ session[s].stopped
    /\ Set(s, [session[s] EXCEPT !.again = "done", !.phase = "microphone_ready",
                                 !.disturbed = @ \/ session[s].timers # {}])
    /\ UNCHANGED <<room, wire, faults>>

\* After a stop there is no connection to wire: an exception ends connect.
TrackReplaced(s) ==
    /\ session[s].step = "replacing"
    /\ Set(s, IF session[s].stopped
              THEN [session[s] EXCEPT !.step = "failed"]
              ELSE [session[s] EXCEPT
                       !.step = "importing",
                       !.channel = IF RoleOf[s] = "peer_a" THEN "connecting" ELSE @])
    /\ UNCHANGED <<room, wire, faults>>

ClientLoaded(s) ==
    /\ session[s].step = "importing"
    /\ Set(s, [session[s] EXCEPT !.step = "done", !.socket = "connecting"])
    /\ UNCHANGED <<room, wire, faults>>

\* Of the calls in Negotiation the one awaited goes on.
Resolves(s) ==
    LET x == session[s]
    IN  \/ /\ x.call \in {"createOffer", "setRemoteOffer", "createAnswer",
                          "setRemoteAnswer", "flush"}
           /\ Set(s, CASE x.call = "createOffer"     -> OfferCreated(x)
                       [] x.call = "setRemoteOffer"  -> RemoteOfferSet(x)
                       [] x.call = "createAnswer"    -> AnswerCreated(x)
                       [] x.call = "setRemoteAnswer" -> RemoteAnswerSet(x)
                       [] x.call = "flush"           -> flush(x))
           /\ UNCHANGED wire
        \/ /\ x.call = "setOffer"
           /\ Set(s, [OfferSet(x) EXCEPT !.offers = @ + 1])
           /\ wire' = Relayed(s, <<Description(s, "offer")>>)
        \/ /\ x.call = "setAnswer"
           /\ Set(s, AnswerSet(x))
           /\ wire' = Relayed(s, <<Description(s, "answer")>>)

CallResolves(s) == Resolves(s) /\ UNCHANGED <<room, faults>>

\* A failed offer may be made again when a peer joins.
CallRejects(s) ==
    LET x == session[s]
    IN  /\ faults < MaxFaults
        /\ faults' = faults + 1
        /\ \/ /\ x.call \in {"createOffer", "setOffer"}
              /\ Set(s, [OfferFails(x) EXCEPT
                            !.peerNegotiationStarted = FALSE,
                            !.phase = IF x.peerPresent THEN "peer_present" ELSE @,
                            !.disturbed = @ \/ x.timers # {}])
           \/ /\ x.call \in {"setRemoteOffer", "createAnswer", "setAnswer",
                             "setRemoteAnswer"}
              /\ Set(s, DescriptionFails(x))
        /\ UNCHANGED <<room, wire>>

\* stopObservation() at the end of an observation, stopped or not.  It knows
\* the latest sampler only.
ObservationEnds(s) ==
    LET x == session[s]
    IN  \E k \in x.timers :
          /\ \A j \in x.timers : k <= j
          /\ Set(s, [x EXCEPT !.timers = @ \ {k}, !.samplers = @ \ {x.started},
                              !.phase = "completed"])
          /\ UNCHANGED <<room, wire, faults>>

-----------------------------------------------------------------------------
(* StatsSampler: sampler k of a session                                    *)

SamplerAsks(s, k) ==
    /\ k \in session[s].samplers \ session[s].asking
    /\ Set(s, [session[s] EXCEPT !.asking = @ \cup {k}])
    /\ UNCHANGED <<room, wire, faults>>

\* Mutant: the answer is taken although the sampler was stopped.
TakenAlways(x, k) == TRUE

Taken(x, k) == k \in x.samplers

SamplerAnswers(s, k) ==
    /\ k \in session[s].asking
    /\ Set(s, [session[s] EXCEPT
                  !.asking = @ \ {k},
                  !.statsSamples = IF Taken(session[s], k) THEN @ \cup {k} ELSE @])
    /\ UNCHANGED <<room, wire, faults>>

\* A tick finds that the sampler has all its samples, or had all its time.
SamplerExpires(s, k) ==
    /\ k \in session[s].samplers \ session[s].asking
    /\ Set(s, [session[s] EXCEPT !.samplers = @ \ {k}])
    /\ UNCHANGED <<room, wire, faults>>

-----------------------------------------------------------------------------
(* Events of the peer connection                                           *)

\* s and the session it applied a description of applied each other's, and
\* one of them knows a candidate of the other.
Linked(s) ==
    /\ HasConnection(session[s])
    /\ session[s].remote # Null
    /\ session[s].signalingState = "stable"
    /\ LET y == session[session[s].remote]
       IN  /\ HasConnection(y)
           /\ y.remote = s
           /\ y.signalingState = "stable"
           /\ session[s].added \cup y.added # {}

\* Candidates are gathered once there is a local description.
FindsCandidate(s) ==
    LET x == session[s]
    IN  /\ HasConnection(x)
        /\ x.offers > 0 \/ (x.remote # Null /\ x.signalingState = "stable")
        /\ x.found < MaxCandidates[s]
        /\ Set(s, [x EXCEPT !.found = @ + 1])
        /\ wire' = Relayed(s, <<CandidateOf(s, x.found + 1)>>)
        /\ UNCHANGED <<room, faults>>

ConnectionComes(s) ==
    LET x == session[s]
    IN  /\ Linked(s)
        /\ x.connection \in {"new", "disconnected"}
        /\ Set(s, evaluateReadyToObserve(
                      [x EXCEPT !.connection = "connected", !.phase = "connected",
                                !.disturbed = @ \/ x.timers # {}]))
        /\ UNCHANGED <<room, wire, faults>>

\* The path fails for a while, or the remote connection was closed.
ConnectionGoes(s) ==
    LET x == session[s]
    IN  /\ HasConnection(x)
        /\ x.connection = "connected"
        /\ IF session[x.remote].stopped THEN UNCHANGED faults
           ELSE faults < MaxFaults /\ faults' = faults + 1
        /\ Set(s, invalidateStatsPreflight([x EXCEPT !.connection = "disconnected"]))
        /\ UNCHANGED <<room, wire>>

ChannelOpens(s) ==
    LET x == session[s]
    IN  /\ Linked(s)
        /\ x.connection = "connected"
        /\ x.channel \in {"none", "connecting"}
        /\ Set(s, [x EXCEPT !.channel = "open", !.clock = "probing"])
        /\ UNCHANGED <<room, wire, faults>>

ChannelCloses(s) ==
    LET x == session[s]
    IN  /\ x.channel = "open"
        /\ session[x.remote].stopped
        /\ Set(s, invalidateStatsPreflight([x EXCEPT !.channel = "closed"]))
        /\ UNCHANGED <<room, wire, faults>>

\* Mutant: readiness is left to the other callbacks.
ProbeCompletedOnly(x) == [x EXCEPT !.clock = "ok"]

ProbeCompleted(x) == evaluateReadyToObserve([x EXCEPT !.clock = "ok"])

\* One of the probes is answered.
ProbeCompletes(s) ==
    LET x == session[s]
    IN  /\ Linked(s)
        /\ x.channel = "open" /\ session[x.remote].channel = "open"
        /\ x.clock = "probing"
        /\ Set(s, ProbeCompleted(x))
        /\ UNCHANGED <<room, wire, faults>>

PreflightSettles(s) ==
    LET x == session[s]
    IN  /\ x.preflight = "probing"
        /\ \/ /\ Set(s, evaluateReadyToObserve([x EXCEPT !.preflight = "available"]))
              /\ UNCHANGED faults
           \/ /\ faults < MaxFaults
              /\ faults' = faults + 1
              /\ Set(s, evaluateReadyToObserve([x EXCEPT !.preflight = "exhausted"]))
        /\ UNCHANGED <<room, wire>>

-----------------------------------------------------------------------------
User(s) ==
    \/ EnableMicrophone(s) \/ EnableAgain(s) \/ Connect(s)
    \/ StartObservation(s) \/ Stop(s)

\* A promise settles, a frame arrives, the browser tries the path it knows.
Progresses(s) ==
    \/ CallResolves(s) \/ Receive(s) \/ FindsCandidate(s) \/ PreflightSettles(s)
    \/ ConnectionComes(s) \/ ChannelOpens(s) \/ ProbeCompletes(s)

Next ==
    \E s \in Sessions :
        \/ User(s) \/ Progresses(s)
        \/ StreamArrives(s) \/ SecondStreamArrives(s) \/ TrackSwapped(s)
        \/ TrackReplaced(s) \/ ClientLoaded(s)
        \/ Join(s) \/ Leave(s)
        \/ CallRejects(s) \/ ConnectionGoes(s) \/ ChannelCloses(s)
        \/ ObservationEnds(s)
        \/ \E k \in 1 .. MaxObservations[s] :
               SamplerAsks(s, k) \/ SamplerAnswers(s, k) \/ SamplerExpires(s, k)

\* The event loop and the browser of each session go on, however busy the
\* other session and the samplers are.  No user has to act.
Fairness == \A s \in Sessions : WF_vars(Progresses(s))

Spec == Init /\ [][Next]_vars /\ Fairness

-----------------------------------------------------------------------------
(* Properties                                                              *)

\* A candidate that reached a session before the description it belongs to is
\* kept until it is given to the connection, also when others arrive while
\* flush waits; none is left behind unless a call failed.
CandidatesAreKept ==
    \A s \in Sessions :
        LET x == session[s]
        IN  HasConnection(x) =>
                \A c \in x.received :
                    /\ \/ c \in x.added \cup Range(x.buffer)
                       \/ x.remote # Null /\ c.from # x.remote
                    /\ (c.from = x.remote /\ x.call = Null /\ faults = 0)
                       => c \in x.added

\* handleSignaling is not awaited by the client: a description that comes
\* while another call of the negotiation waits would overlap it.  None does,
\* nobody is offered to twice, and nobody has to ignore an offer.
NegotiationsNeverOverlap ==
    \A s \in Sessions :
        LET x == session[s]
        IN  /\ x.offers <= 1
            /\ (/\ HasConnection(x) /\ x.socket = "joined" /\ wire[s] # <<>>
                /\ Head(wire[s]).type \in {"offer", "answer"})
               => x.call = Null /\ ~ OfferCollision(x, Head(wire[s]).type)

\* A completed session exports one whole observation: none is still running
\* and the samples are all of the last, unless the connection came back, or a
\* frame or a swapped track set the phase, while one ran.
OneObservationPerExport ==
    \A s \in Sessions :
        LET x == session[s]
        IN  x.phase = "completed" /\ ~ x.disturbed =>
                x.timers = {} /\ x.statsSamples \subseteq {x.started}

\* After stop() the stream of the session is closed, no socket keeps the room,
\* the phase stays and nothing samples, whatever settles or fires afterwards.
\* Each of these is excepted only for the call, wait or stream that stop() does
\* not cancel and that was there (cut); samplers are, after a second observation
\* began while the first one ran (disturbed).
StopIsFinal ==
    \A s \in Sessions :
        LET x == session[s]
        IN  x.stopped =>
                /\ x.mic = "off" \/ "microphone" \in x.cut
                /\ x.spare => x.cut \cap {"microphone", "spare"} # {}
                /\ x.socket \in {"none", "refused", "closed"} \/ "connect" \in x.cut
                /\ x.phase = "stopped" \/ x.cut \ {"spare"} # {}
                /\ x.disturbed \/ x.samplers = {}

\* Two peers in the room become ready to observe, in whichever order they
\* joined and their callbacks ran, unless something fails or stops or a
\* microphone is enabled twice.
SetupCompletes ==
    \A s, t \in Sessions :
        (s # t /\ {s, t} \subseteq room) ~>
            \/ session[s].phase \in {"ready_to_observe", "observing", "completed"}
            \/ faults > 0
            \/ \E u \in Sessions : session[u].stopped
=============================================================================
