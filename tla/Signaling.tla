----------------------------- MODULE Signaling -----------------------------
(***************************************************************************)
(* The signaling service of the control plane (signaling/mod.rs) and what  *)
(* its clients conclude from it (signaling/client.ts, live/session.ts).    *)
(*                                                                         *)
(* Every WebSocket is served by a task of its own.  The tasks share the    *)
(* rooms, behind a mutex; each member of a room owns a broadcast channel   *)
(* that the others send to and that its own task empties into the socket.  *)
(* A channel holds Capacity messages: a slower reader loses the oldest.    *)
(* Between two awaits a task runs alone, so an action is the code from one *)
(* await to the next.                                                      *)
(*                                                                         *)
(* A text that validate_relay_envelope refuses only sends an error back    *)
(* and changes nothing, so it is a stuttering step.  The client end of a   *)
(* socket handles frames in the order they were sent, so view[c] is what   *)
(* the client concludes from all the frames sent to it so far.             *)
(***************************************************************************)
EXTENDS Naturals, Sequences, FiniteSets

CONSTANTS
    Sockets,      \* every WebSocket ever opened
    Sessions,     \* session ids
    Peers,        \* peer ids
    SessionOf,    \* the session_id and peer_id in the query of a socket
    PeerOf,
    Capacity,     \* of a broadcast channel, 32 in the code
    MaxRelays     \* bound: messages one client relays

ASSUME SignalingAssumption ==
    /\ SessionOf \in [Sockets -> Sessions]
    /\ PeerOf \in [Sockets -> Peers]
    /\ Capacity \in Nat \ {0}
    /\ MaxRelays \in Nat

VARIABLES
    room,       \* room[s]: the members of s, at most one per peer id
    open,       \* sessions that have a room in the map
    task,       \* where handle_socket is
    announce,   \* existing_peer_ids the task has yet to send
    channel,    \* the broadcast channel of each member
    client,     \* whether the client end of the socket is still there
    sent,       \* how many messages each client relayed
    view        \* what each client knows

vars == <<room, open, task, announce, channel, client, sent, view>>

MAX_PEERS_PER_SESSION == 2

PeerJoined(p)    == [type |-> "PeerJoined", peer |-> p]
PeerLeft(p)      == [type |-> "PeerLeft", peer |-> p]
RelayMsg(c, k)   == [type |-> "Relay", from |-> c, number |-> k]

Presence == [type : {"PeerJoined", "PeerLeft"}, peer : Peers]
Relayed  == [type : {"Relay"}, from : Sockets, number : Nat]
Message  == Presence \cup Relayed

\* lagged: the next recv returns Lagged.  dropped: something was ever lost.
Channel == [queue : Seq(Message), lagged : BOOLEAN, dropped : BOOLEAN]

NewChannel == [queue |-> <<>>, lagged |-> FALSE, dropped |-> FALSE]

\* present: the session's peerPresent flag.  heard[d]: the number of the
\* last message delivered from d, or how many d had relayed before the join.
View == [present : BOOLEAN, heard : [Sockets -> Nat]]

-----------------------------------------------------------------------------
Peer(S) == {PeerOf[d] : d \in S}

\* Mutant: the peers of every room.
OthersAnywhere(c) ==
    {d \in UNION {room[s] : s \in Sessions} : PeerOf[d] # PeerOf[c]}

\* Those who get what c relays.
Others(c) == {d \in room[SessionOf[c]] : PeerOf[d] # PeerOf[c]}

InRoom(c) == c \in room[SessionOf[c]]

\* Mutant: a send that went through is tried again.
EnqueuedTwice(ch, m) ==
    IF Len(ch.queue) < Capacity
    THEN [ch EXCEPT !.queue = ch.queue \o <<m, m>>]
    ELSE [queue |-> Append(Tail(ch.queue), m), lagged |-> TRUE,
          dropped |-> TRUE]

\* tx.send: a full channel loses its oldest message.
Enqueued(ch, m) ==
    IF Len(ch.queue) < Capacity
    THEN [ch EXCEPT !.queue = Append(ch.queue, m)]
    ELSE [queue |-> Append(Tail(ch.queue), m), lagged |-> TRUE,
          dropped |-> TRUE]

\* Mutant: only tasks that are in their loop get the message.
PostedServing(targets, m) ==
    [c \in Sockets |-> IF c \in targets /\ task[c] = "serving"
                       THEN Enqueued(channel[c], m)
                       ELSE channel[c]]

Posted(targets, m) ==
    [c \in Sockets |-> IF c \in targets THEN Enqueued(channel[c], m)
                                        ELSE channel[c]]

\* Mutants: the flag holds the peer id; departures are not handled.
ShownPeer(v, c, m) ==
    CASE m.type = "PeerJoined" -> [v EXCEPT !.present = m.peer]
      [] m.type = "PeerLeft" -> [v EXCEPT !.present = FALSE]
      [] m.type = "Relay"    -> [v EXCEPT !.heard[m.from] = m.number]

ShownJoinsOnly(v, c, m) ==
    CASE m.type = "PeerJoined" -> [v EXCEPT !.present = TRUE]
      [] m.type = "PeerLeft" -> v
      [] m.type = "Relay"    -> [v EXCEPT !.heard[m.from] = m.number]

\* What a client makes of a frame.
Shown(v, c, m) ==
    CASE m.type = "PeerJoined" ->
            IF m.peer = PeerOf[c] THEN v ELSE [v EXCEPT !.present = TRUE]
      [] m.type = "PeerLeft" -> [v EXCEPT !.present = FALSE]
      [] m.type = "Relay"    -> [v EXCEPT !.heard[m.from] = m.number]

-----------------------------------------------------------------------------
Init ==
    /\ room = [s \in Sessions |-> {}]
    /\ open = {}
    /\ task = [c \in Sockets |-> "connecting"]
    /\ announce = [c \in Sockets |-> {}]
    /\ channel = [c \in Sockets |-> NewChannel]
    /\ client = [c \in Sockets |-> "open"]
    /\ sent = [c \in Sockets |-> 0]
    /\ view = [c \in Sockets |->
                  [present |-> FALSE, heard |-> [d \in Sockets |-> 0]]]

DuplicatePeer(c) == PeerOf[c] \in Peer(room[SessionOf[c]])

\* Mutant: off by one.
SessionFullLate(c) ==
    Cardinality(room[SessionOf[c]]) > MAX_PEERS_PER_SESSION

SessionFull(c) == Cardinality(room[SessionOf[c]]) >= MAX_PEERS_PER_SESSION

\* Mutant: a refused socket cleans up like an admitted one.
RefuseEvicts(c) ==
    /\ task[c] = "connecting"
    /\ DuplicatePeer(c) \/ SessionFull(c)
    /\ room' = [room EXCEPT ![SessionOf[c]] = Others(c)]
    /\ task' = [task EXCEPT ![c] = "closed"]
    /\ UNCHANGED <<open, announce, channel, client, sent, view>>

\* join_room fails, the task reports it and ends.  The entry that join_room
\* makes sure of is there already: neither test fails on an empty room.
Refuse(c) ==
    /\ task[c] = "connecting"
    /\ DuplicatePeer(c) \/ SessionFull(c)
    /\ open' = open \cup {SessionOf[c]}
    /\ task' = [task EXCEPT ![c] = "closed"]
    /\ UNCHANGED <<room, announce, channel, client, sent, view>>

Join(c) ==
    LET s == SessionOf[c]
    IN  /\ task[c] = "connecting"
        /\ ~ DuplicatePeer(c)
        /\ ~ SessionFull(c)
        /\ room' = [room EXCEPT ![s] = @ \cup {c}]
        /\ open' = open \cup {s}
        /\ announce' = [announce EXCEPT ![c] = Peer(room[s])]
        /\ channel' = Posted(room[s], PeerJoined(PeerOf[c]))
        /\ task' = [task EXCEPT ![c] = "greeting"]
        /\ view' = [view EXCEPT ![c].heard = sent]
        /\ UNCHANGED <<client, sent>>

\* The Join frame went out.
Greet(c) ==
    /\ task[c] = "greeting"
    /\ task' = [task EXCEPT ![c] = "serving"]
    /\ UNCHANGED <<room, open, announce, channel, client, sent, view>>

\* The PeerJoined frame of a member that was there before went out.
Announce(c) ==
    /\ task[c] = "serving"
    /\ \E p \in announce[c] :
          /\ announce' = [announce EXCEPT ![c] = @ \ {p}]
          /\ view' = [view EXCEPT ![c] = Shown(@, c, PeerJoined(p))]
    /\ UNCHANGED <<room, open, task, channel, client, sent>>

\* The select! loop runs once everything is announced.
Looping(c) == task[c] = "serving" /\ announce[c] = {}

\* The client relayed something: relay_message.
Relay(c) ==
    /\ Looping(c)
    /\ sent[c] < MaxRelays
    /\ sent' = [sent EXCEPT ![c] = @ + 1]
    /\ channel' = Posted(Others(c), RelayMsg(c, sent[c] + 1))
    /\ UNCHANGED <<room, open, task, announce, client, view>>

\* rx.recv returned a message and it was sent to the client.
Deliver(c) ==
    /\ Looping(c)
    /\ ~ channel[c].lagged
    /\ channel[c].queue # <<>>
    /\ channel' = [channel EXCEPT ![c].queue = Tail(@)]
    /\ view' = [view EXCEPT ![c] = Shown(@, c, Head(channel[c].queue))]
    /\ UNCHANGED <<room, open, task, announce, client, sent>>

\* rx.recv returned Lagged; the loop goes on with what is left.
SkipLag(c) ==
    /\ Looping(c)
    /\ channel[c].lagged
    /\ channel' = [channel EXCEPT ![c].lagged = FALSE]
    /\ UNCHANGED <<room, open, task, announce, client, sent, view>>

\* The tab is closed or reloaded, the session stopped, the network lost.
ClientCloses(c) ==
    /\ client[c] = "open"
    /\ client' = [client EXCEPT ![c] = "gone"]
    /\ UNCHANGED <<room, open, task, announce, channel, sent, view>>

\* Mutant: the departing id stays in the room.
RemainingAll(c) == room[SessionOf[c]]

\* remove_peer, by peer id.
Remaining(c) == {d \in room[SessionOf[c]] : PeerOf[d] # PeerOf[c]}

OpenAfter(s, members) == IF members = {} THEN open \ {s} ELSE open

\* A send failed, or the loop saw the socket close: remove_peer.
Depart(c) ==
    LET s == SessionOf[c]
    IN  /\ client[c] = "gone"
        /\ task[c] \in {"greeting", "serving"}
        /\ room' = [room EXCEPT ![s] = Remaining(c)]
        /\ open' = OpenAfter(s, Remaining(c))
        /\ channel' = [Posted(Remaining(c), PeerLeft(PeerOf[c]))
                          EXCEPT ![c] = NewChannel]
        /\ task' = [task EXCEPT ![c] = "closed"]
        /\ announce' = [announce EXCEPT ![c] = {}]
        /\ UNCHANGED <<client, sent, view>>

Serve(c) == Greet(c) \/ Announce(c) \/ Deliver(c) \/ SkipLag(c)

Next ==
    \E c \in Sockets :
        \/ Refuse(c)
        \/ Join(c)
        \/ Serve(c)
        \/ Relay(c)
        \/ ClientCloses(c)
        \/ Depart(c)

\* Tasks are scheduled fairly (tokio), and a closed socket is reported.
Fairness == \A c \in Sockets : WF_vars(Serve(c)) /\ WF_vars(Depart(c))

Spec == Init /\ [][Next]_vars /\ Fairness

-----------------------------------------------------------------------------
(* Properties                                                              *)

TypeOK ==
    /\ room \in [Sessions -> SUBSET Sockets]
    /\ open \in SUBSET Sessions
    /\ task \in [Sockets -> {"connecting", "greeting", "serving", "closed"}]
    /\ announce \in [Sockets -> SUBSET Peers]
    /\ channel \in [Sockets -> Channel]
    /\ client \in [Sockets -> {"open", "gone"}]
    /\ sent \in [Sockets -> Nat]
    /\ view \in [Sockets -> View]

\* The room map and the tasks agree: a socket is in a room, its own, exactly
\* while its task runs, whatever sockets with its peer id came before or are
\* refused meanwhile; hence no recv returns Closed.  Ids in a room are
\* distinct and no room is kept without members.
RoomsMatchTasks ==
    /\ \A s \in Sessions : \A c \in Sockets :
          c \in room[s] <=> /\ SessionOf[c] = s
                            /\ task[c] \in {"greeting", "serving"}
    /\ \A s \in Sessions : \A c, d \in room[s] :
          PeerOf[c] = PeerOf[d] => c = d
    /\ open = {s \in Sessions : room[s] # {}}

\* What a client that believes b will believe after the messages of q.
News(q) == {i \in DOMAIN q : q[i].type # "Relay"}

Verdict(q, b) ==
    IF News(q) = {} THEN b
    ELSE \E i \in News(q) : /\ \A j \in News(q) : j <= i
                            /\ q[i].type = "PeerJoined"

Foreseen(c) ==
    Verdict(channel[c].queue, view[c].present \/ announce[c] # {})

\* Presence is never stale for good: announcements of the members found at
\* the join, joins and departures come in an order that leaves the client
\* with the truth about its room, unless its channel overran.
PresenceIsTracked ==
    \A c \in Sockets :
        /\ InRoom(c)
        /\ ~ channel[c].dropped
        => (Foreseen(c) <=> Others(c) # {})

\* Relays of one client are delivered in the order sent and at most once: a
\* relay that is delivered was sent later than every relay of its sender that
\* was delivered before, and no step takes a client back.
NextIsOf(c, d) ==
    LET m == Head(channel[c].queue) IN m.type = "Relay" /\ m.from = d

DeliversNewer ==
    \A c, d \in Sockets :
        Deliver(c) /\ NextIsOf(c, d) => view'[c].heard[d] > view[c].heard[d]

NeverBack == \A c, d \in Sockets : view'[c].heard[d] >= view[c].heard[d]

InOrder == DeliversNewer /\ NeverBack

RelaysInOrder == [][InOrder]_vars

\* Nothing else is lost: unless the channel of c overran, the messages other
\* members relayed since c joined were delivered or are queued, in sequence.
From(q, d) == {i \in DOMAIN q : q[i].type = "Relay" /\ q[i].from = d}

LostOnlyByOverrun ==
    \A c, d \in Sockets :
        /\ InRoom(c)
        /\ c # d
        /\ SessionOf[c] = SessionOf[d]
        /\ ~ channel[c].dropped
        => \A k \in view[c].heard[d] + 1 .. sent[d] :
              \E i \in From(channel[c].queue, d) :
                  channel[c].queue[i].number = k

\* A relay never crosses into another session and never comes back.
RelaysStayInSession ==
    \A c, d \in Sockets :
        From(channel[c].queue, d) # {} =>
            SessionOf[c] = SessionOf[d] /\ PeerOf[c] # PeerOf[d]

\* A member whose client went away leaves its room: its id becomes free.
GoneClientsLeave == \A c \in Sockets :
    client[c] = "gone" /\ InRoom(c) ~> ~ InRoom(c)

\* A client left alone in its room comes to know it, unless somebody joins
\* again, its channel overran or it goes away itself.
DepartureIsSeen == \A c \in Sockets :
    /\ InRoom(c)
    /\ Others(c) = {}
    /\ view[c].present
    ~> \/ ~ view[c].present
       \/ Others(c) # {}
       \/ channel[c].dropped
       \/ ~ InRoom(c)
=============================================================================
