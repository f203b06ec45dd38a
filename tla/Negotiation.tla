---------------------------- MODULE Negotiation ----------------------------
(***************************************************************************)
(* Offers, answers and candidates of one peer connection (negotiation.ts), *)
(* as operators on the record x of the session that owns it.               *)
(*                                                                         *)
(* call is the one asynchronous function that has not returned, named for  *)
(* the promise it awaits: there is never a second while each role has one  *)
(* session (NegotiationsNeverOverlap).  remote is the session whose        *)
(* description was applied, Null while remoteDescription is.  A candidate  *)
(* is one that the peer connection takes: added are those it was given,    *)
(* and buffer holds those IceCandidateBuffer keeps, in order.              *)
(***************************************************************************)
EXTENDS Naturals, Sequences

CONSTANTS
    Sessions,        \* every LiveWebRtcSession ever constructed
    RoleOf,          \* the localPeerId of a session
    MaxCandidates,   \* bound: candidates each session finds
    Null

SignalingStates == {"stable", "have-local-offer", "have-remote-offer"}

Calls == {"createOffer", "setOffer", "setRemoteOffer", "createAnswer",
          "setAnswer", "setRemoteAnswer", "flush"}

ASSUME NegotiationAssumption ==
    /\ RoleOf \in [Sessions -> {"peer_a", "peer_b"}]
    /\ MaxCandidates \in [Sessions -> Nat]
    /\ Null \notin Sessions \cup Calls

Candidate == [from : Sessions, number : Nat]

Negotiation ==
    [signalingState : SignalingStates,
     makingOffer : BOOLEAN,
     isSettingRemoteAnswerPending : BOOLEAN,
     call : Calls \cup {Null},
     from : Sessions \cup {Null},       \* whose description is being applied
     remote : Sessions \cup {Null},
     received : SUBSET Candidate,       \* auxiliary: every candidate that came
     added : SUBSET Candidate,
     buffer : Seq(Candidate),
     cursor : Nat]                      \* how many flush has gone through

createNegotiationState ==
    [signalingState |-> "stable", makingOffer |-> FALSE,
     isSettingRemoteAnswerPending |-> FALSE, call |-> Null, from |-> Null,
     remote |-> Null, received |-> {}, added |-> {}, buffer |-> <<>>, cursor |-> 0]

-----------------------------------------------------------------------------
(* createAndSendOffer                                                      *)

createAndSendOffer(x) == [x EXCEPT !.makingOffer = TRUE, !.call = "createOffer"]

OfferCreated(x) == [x EXCEPT !.call = "setOffer"]

\* The caller relays the offer.
OfferSet(x) ==
    [x EXCEPT !.signalingState = "have-local-offer", !.makingOffer = FALSE,
              !.call = Null]

\* createOffer or setLocalDescription rejects.
OfferFails(x) == [x EXCEPT !.makingOffer = FALSE, !.call = Null]

-----------------------------------------------------------------------------
(* applySignalingDescription                                               *)

OfferCollision(x, type) ==
    /\ type = "offer"
    /\ \/ x.makingOffer
       \/ x.signalingState # "stable" /\ ~ x.isSettingRemoteAnswerPending

\* An impolite peer ignores an offer that collides; only peer_b is polite.
applySignalingDescription(x, role, type, from) ==
    IF role # "peer_b" /\ OfferCollision(x, type)
    THEN [x EXCEPT !.call = "flush"]
    ELSE [x EXCEPT !.isSettingRemoteAnswerPending = type = "answer",
                   !.call = IF type = "offer" THEN "setRemoteOffer"
                                              ELSE "setRemoteAnswer",
                   !.from = from]

RemoteOfferSet(x) ==
    [x EXCEPT !.signalingState = "have-remote-offer", !.remote = x.from,
              !.isSettingRemoteAnswerPending = FALSE, !.call = "createAnswer"]

AnswerCreated(x) == [x EXCEPT !.call = "setAnswer"]

\* The caller relays the answer.
AnswerSet(x) == [x EXCEPT !.signalingState = "stable", !.call = "flush"]

RemoteAnswerSet(x) ==
    [x EXCEPT !.signalingState = "stable", !.remote = x.from,
              !.isSettingRemoteAnswerPending = FALSE, !.call = "flush"]

\* A promise rejects: nothing is undone, the flush that would follow is not
\* reached.
DescriptionFails(x) == [x EXCEPT !.call = Null]

-----------------------------------------------------------------------------
(* IceCandidateBuffer                                                      *)

\* handleSignaling of a candidate: addIceCandidate takes it if it belongs to
\* the remote description; otherwise, or without one, it is buffered.
ReceiveCandidate(x, c) ==
    IF x.remote = c.from
    THEN [x EXCEPT !.received = @ \cup {c}, !.added = @ \cup {c}]
    ELSE [x EXCEPT !.received = @ \cup {c}, !.buffer = Append(@, c)]

FlushEnds(x) == [x EXCEPT !.buffer = <<>>, !.cursor = 0, !.call = Null]

\* Mutant: the buffer is emptied after the first candidate.
FlushNextOnly(x) ==
    LET c == x.buffer[x.cursor + 1]
    IN  FlushEnds([x EXCEPT !.added = IF c.from = x.remote THEN @ \cup {c} ELSE @])

\* addIceCandidate settled for the next candidate; after the last one the
\* buffer is emptied at once.
FlushNext(x) ==
    LET c == x.buffer[x.cursor + 1]
        y == [x EXCEPT !.cursor = @ + 1,
                       !.added = IF c.from = x.remote THEN @ \cup {c} ELSE @]
    IN  IF y.cursor = Len(y.buffer) THEN FlushEnds(y) ELSE y

flush(x) ==
    CASE x.remote = Null -> [x EXCEPT !.call = Null]
      [] x.remote # Null /\ x.buffer = <<>> -> FlushEnds(x)
      [] OTHER -> FlushNext(x)
=============================================================================
