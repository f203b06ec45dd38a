-------------------------- MODULE SignalingProofs --------------------------
(***************************************************************************)
(* Proofs about Signaling, for any number of sockets, sessions and peers   *)
(* and any channel capacity.                                               *)
(***************************************************************************)
EXTENDS Signaling, FiniteSetTheorems, TLAPS

-----------------------------------------------------------------------------
(* The inductive invariant                                                 *)

\* At most two members, stated without counting them.
RoomsAreSmall ==
    \A s \in Sessions :
        /\ IsFiniteSet(room[s])
        /\ \A c, d, e \in room[s] : c = d \/ d = e \/ c = e

\* Messages are addressed to c: from its session, not about or from its id.
Mine(c, q) ==
    \A i \in DOMAIN q :
        /\ q[i].type = "Relay" => /\ SessionOf[q[i].from] = SessionOf[c]
                                  /\ PeerOf[q[i].from] # PeerOf[c]
        /\ q[i].type # "Relay" => q[i].peer # PeerOf[c]

\* Relays of one sender are queued in the order of their numbers.
Sorted(q) ==
    \A i, j \in DOMAIN q :
        /\ i < j
        /\ q[i].type = "Relay"
        /\ q[j].type = "Relay"
        /\ q[i].from = q[j].from
        => q[i].number < q[j].number

\* Queued relays were sent and are newer than those delivered.
Fresh(q, heard, snt) ==
    \A i \in DOMAIN q :
        q[i].type = "Relay" => /\ heard[q[i].from] < q[i].number
                               /\ q[i].number <= snt[q[i].from]

QueuesAreSound ==
    \A c \in Sockets :
        /\ Mine(c, channel[c].queue)
        /\ Sorted(channel[c].queue)
        /\ Fresh(channel[c].queue, view[c].heard, sent)
        /\ \A d \in Sockets : view[c].heard[d] <= sent[d]

\* A task that has not joined has nothing; nobody is announced its own id.
TasksStartClean ==
    \A c \in Sockets :
        /\ task[c] = "connecting" => /\ channel[c] = NewChannel
                                     /\ view[c].present = FALSE
                                     /\ sent[c] = 0
        /\ announce[c] # {} => task[c] \in {"greeting", "serving"}
        /\ PeerOf[c] \notin announce[c]

IInv ==
    /\ TypeOK
    /\ RoomsMatchTasks
    /\ RoomsAreSmall
    /\ TasksStartClean
    /\ QueuesAreSound
    /\ PresenceIsTracked
    /\ LostOnlyByOverrun

-----------------------------------------------------------------------------
(* Channels                                                                *)

LEMMA MessageTypes ==
    /\ \A p \in Peers : PeerJoined(p) \in Message /\ PeerLeft(p) \in Message
    /\ \A c \in Sockets, k \in Nat : RelayMsg(c, k) \in Message
BY DEF PeerJoined, PeerLeft, RelayMsg, Message, Presence, Relayed

LEMMA EnqueuedCases ==
    ASSUME NEW ch \in Channel, NEW m \in Message
    PROVE  /\ Enqueued(ch, m) \in Channel
           /\ \/ /\ Enqueued(ch, m).queue = Append(ch.queue, m)
                 /\ Enqueued(ch, m).dropped = ch.dropped
              \/ /\ ch.queue # <<>>
                 /\ Enqueued(ch, m).queue = Append(Tail(ch.queue), m)
                 /\ Enqueued(ch, m).dropped = TRUE
<1>1. ch.queue \in Seq(Message)
    BY DEF Channel
<1>2. CASE Len(ch.queue) < Capacity
    <2>1. Enqueued(ch, m) = [ch EXCEPT !.queue = Append(ch.queue, m)]
        BY <1>2 DEF Enqueued
    <2>2. Append(ch.queue, m) \in Seq(Message)
        BY <1>1
    <2> QED BY <2>1, <2>2 DEF Channel
<1>3. CASE ~ (Len(ch.queue) < Capacity)
    <2>1. ch.queue # <<>>
        BY <1>1, <1>3, SignalingAssumption
    <2>2. Append(Tail(ch.queue), m) \in Seq(Message)
        BY <1>1, <2>1
    <2>3. Enqueued(ch, m) = [queue |-> Append(Tail(ch.queue), m),
                             lagged |-> TRUE, dropped |-> TRUE]
        BY <1>3 DEF Enqueued
    <2>4. Enqueued(ch, m) \in Channel
        BY <2>2, <2>3 DEF Channel
    <2>5. /\ Enqueued(ch, m).queue = Append(Tail(ch.queue), m)
          /\ Enqueued(ch, m).dropped = TRUE
        BY <2>3
    <2> QED BY <2>1, <2>4, <2>5
<1> QED BY <1>2, <1>3

LEMMA PostedType ==
    ASSUME TypeOK, NEW targets, NEW m \in Message
    PROVE  Posted(targets, m) \in [Sockets -> Channel]
<1>1. \A c \in Sockets : Enqueued(channel[c], m) \in Channel
    BY EnqueuedCases DEF TypeOK
<1> QED BY <1>1 DEF Posted, TypeOK

LEMMA ShownType ==
    ASSUME NEW v \in View, NEW c, NEW m \in Message
    PROVE  /\ Shown(v, c, m) \in View
           /\ m.type # "Relay" => Shown(v, c, m).heard = v.heard
           /\ m.type = "Relay" =>
                 /\ Shown(v, c, m).present = v.present
                 /\ Shown(v, c, m).heard =
                        [v.heard EXCEPT ![m.from] = m.number]
           /\ m.type = "PeerLeft" => Shown(v, c, m).present = FALSE
           /\ m.type = "PeerJoined" /\ m.peer # PeerOf[c] =>
                 Shown(v, c, m).present = TRUE
<1>1. CASE m.type = "Relay"
    BY <1>1 DEF Shown, View, Message, Presence, Relayed
<1>2. CASE m.type = "PeerLeft"
    BY <1>2 DEF Shown, View, Message, Presence, Relayed
<1>3. CASE m.type = "PeerJoined"
    BY <1>3 DEF Shown, View, Message, Presence, Relayed
<1> QED BY <1>1, <1>2, <1>3 DEF Message, Presence, Relayed

-----------------------------------------------------------------------------
(* Queues                                                                  *)

LEMMA AppendFacts ==
    ASSUME NEW q \in Seq(Message), NEW m \in Message
    PROVE  /\ Append(q, m) \in Seq(Message)
           /\ DOMAIN Append(q, m) = 1 .. Len(q) + 1
           /\ DOMAIN q = 1 .. Len(q)
           /\ Len(q) \in Nat
           /\ \A i \in DOMAIN q : Append(q, m)[i] = q[i]
           /\ Append(q, m)[Len(q) + 1] = m
           /\ \A i \in DOMAIN q : q[i] \in Message
OBVIOUS

LEMMA TailFacts ==
    ASSUME NEW q \in Seq(Message), q # <<>>
    PROVE  /\ Tail(q) \in Seq(Message)
           /\ DOMAIN Tail(q) = 1 .. Len(q) - 1
           /\ DOMAIN q = 1 .. Len(q)
           /\ Len(q) \in Nat \ {0}
           /\ \A i \in DOMAIN Tail(q) : Tail(q)[i] = q[i + 1]
           /\ Head(q) = q[1]
           /\ Head(q) \in Message
           /\ \A i \in DOMAIN q : q[i] \in Message
OBVIOUS

LEMMA MineAppend ==
    ASSUME NEW c, NEW q \in Seq(Message), NEW m \in Message,
           Mine(c, q),
           m.type = "Relay" => /\ SessionOf[m.from] = SessionOf[c]
                               /\ PeerOf[m.from] # PeerOf[c],
           m.type # "Relay" => m.peer # PeerOf[c]
    PROVE  Mine(c, Append(q, m))
<1> DEFINE new == Append(q, m)
<1>1. SUFFICES ASSUME NEW i \in 1 .. Len(q) + 1
               PROVE  /\ new[i].type = "Relay" =>
                            /\ SessionOf[new[i].from] = SessionOf[c]
                            /\ PeerOf[new[i].from] # PeerOf[c]
                      /\ new[i].type # "Relay" => new[i].peer # PeerOf[c]
    BY AppendFacts DEF Mine
<1>2. CASE i = Len(q) + 1
    BY <1>2, AppendFacts
<1>3. CASE i # Len(q) + 1
    <2>1. i \in DOMAIN q /\ new[i] = q[i]
        BY <1>3, AppendFacts
    <2> QED BY <2>1 DEF Mine
<1> QED BY <1>2, <1>3

LEMMA MineTail ==
    ASSUME NEW c, NEW q \in Seq(Message), q # <<>>, Mine(c, q)
    PROVE  Mine(c, Tail(q))
<1>1. \A i \in DOMAIN Tail(q) : i + 1 \in DOMAIN q /\ Tail(q)[i] = q[i + 1]
    BY TailFacts
<1> QED BY <1>1 DEF Mine

LEMMA SortedAppend ==
    ASSUME NEW q \in Seq(Message), NEW m \in Message,
           Sorted(q),
           \A i \in DOMAIN q :
              /\ m.type = "Relay"
              /\ q[i].type = "Relay"
              /\ q[i].from = m.from
              => q[i].number < m.number
    PROVE  Sorted(Append(q, m))
<1> DEFINE new == Append(q, m)
<1>1. SUFFICES ASSUME NEW i \in 1 .. Len(q) + 1, NEW j \in 1 .. Len(q) + 1,
                      i < j, new[i].type = "Relay", new[j].type = "Relay",
                      new[i].from = new[j].from
               PROVE  new[i].number < new[j].number
    BY AppendFacts DEF Sorted
<1>2. i \in DOMAIN q /\ new[i] = q[i]
    BY <1>1, AppendFacts
<1>3. CASE j = Len(q) + 1
    <2>1. new[j] = m
        BY <1>3, AppendFacts
    <2> QED BY <1>1, <1>2, <2>1
<1>4. CASE j # Len(q) + 1
    <2>1. j \in DOMAIN q /\ new[j] = q[j]
        BY <1>4, AppendFacts
    <2> QED BY <1>1, <1>2, <2>1 DEF Sorted
<1> QED BY <1>3, <1>4

LEMMA SortedTail ==
    ASSUME NEW q \in Seq(Message), q # <<>>, Sorted(q)
    PROVE  Sorted(Tail(q))
<1>1. \A i \in DOMAIN Tail(q) :
          i \in Nat /\ i + 1 \in DOMAIN q /\ Tail(q)[i] = q[i + 1]
    BY TailFacts
<1>2. SUFFICES ASSUME NEW i \in DOMAIN Tail(q), NEW j \in DOMAIN Tail(q),
                      i < j,
                      Tail(q)[i].type = "Relay", Tail(q)[j].type = "Relay",
                      Tail(q)[i].from = Tail(q)[j].from
               PROVE  Tail(q)[i].number < Tail(q)[j].number
    BY DEF Sorted
<1>3. i + 1 < j + 1
    BY <1>1, <1>2
<1> QED BY <1>1, <1>2, <1>3 DEF Sorted

\* Fresh survives an append, the tail and sent numbers that grow.
LEMMA FreshAppend ==
    ASSUME NEW q \in Seq(Message), NEW m \in Message, NEW heard, NEW snt,
           Fresh(q, heard, snt),
           m.type = "Relay" => /\ heard[m.from] < m.number
                               /\ m.number <= snt[m.from]
    PROVE  Fresh(Append(q, m), heard, snt)
<1> DEFINE new == Append(q, m)
<1>1. SUFFICES ASSUME NEW i \in 1 .. Len(q) + 1, new[i].type = "Relay"
               PROVE  /\ heard[new[i].from] < new[i].number
                      /\ new[i].number <= snt[new[i].from]
    BY AppendFacts DEF Fresh
<1>2. CASE i = Len(q) + 1
    BY <1>1, <1>2, AppendFacts
<1>3. CASE i # Len(q) + 1
    <2>1. i \in DOMAIN q /\ new[i] = q[i]
        BY <1>3, AppendFacts
    <2> QED BY <1>1, <2>1 DEF Fresh
<1> QED BY <1>2, <1>3

LEMMA FreshTail ==
    ASSUME NEW q \in Seq(Message), q # <<>>, NEW heard, NEW snt,
           Fresh(q, heard, snt)
    PROVE  Fresh(Tail(q), heard, snt)
<1>1. \A i \in DOMAIN Tail(q) : i + 1 \in DOMAIN q /\ Tail(q)[i] = q[i + 1]
    BY TailFacts
<1> QED BY <1>1 DEF Fresh

\* Delivering the head keeps the rest newer than what was delivered.
LEMMA FreshDeliver ==
    ASSUME NEW q \in Seq(Message), q # <<>>,
           NEW heard \in [Sockets -> Nat], NEW snt,
           Head(q).type = "Relay", Fresh(q, heard, snt), Sorted(q)
    PROVE  Fresh(Tail(q), [heard EXCEPT ![Head(q).from] = Head(q).number],
                 snt)
<1> DEFINE new == [heard EXCEPT ![Head(q).from] = Head(q).number]
<1>1. SUFFICES ASSUME NEW i \in DOMAIN Tail(q), Tail(q)[i].type = "Relay"
               PROVE  /\ new[Tail(q)[i].from] < Tail(q)[i].number
                      /\ Tail(q)[i].number <= snt[Tail(q)[i].from]
    BY DEF Fresh
<1>2. /\ i \in Nat \ {0}
      /\ i + 1 \in DOMAIN q
      /\ Tail(q)[i] = q[i + 1]
      /\ 1 \in DOMAIN q
      /\ Head(q) = q[1]
      /\ 1 < i + 1
      /\ q[i + 1] \in Message
    BY TailFacts
<1>3. q[i + 1].from \in Sockets
    BY <1>1, <1>2 DEF Message, Presence, Relayed
<1>4. CASE q[i + 1].from = Head(q).from
    <2>1. Head(q).number < q[i + 1].number
        BY <1>1, <1>2, <1>4 DEF Sorted
    <2> QED BY <1>1, <1>2, <1>3, <1>4, <2>1 DEF Fresh
<1>5. CASE q[i + 1].from # Head(q).from
    BY <1>1, <1>2, <1>3, <1>5 DEF Fresh
<1> QED BY <1>4, <1>5

-----------------------------------------------------------------------------
(* What a queue will tell its client                                       *)

LEMMA VerdictAppend ==
    ASSUME NEW q \in Seq(Message), NEW m \in Message, NEW b \in BOOLEAN
    PROVE  /\ m.type = "Relay" => (Verdict(Append(q, m), b) <=> Verdict(q, b))
           /\ m.type # "Relay" =>
                 (Verdict(Append(q, m), b) <=> m.type = "PeerJoined")
<1> DEFINE new == Append(q, m)
<1>1. /\ DOMAIN new = 1 .. Len(q) + 1
      /\ DOMAIN q = 1 .. Len(q)
      /\ Len(q) \in Nat
      /\ \A i \in DOMAIN q : new[i] = q[i]
      /\ new[Len(q) + 1] = m
    BY AppendFacts
<1> HIDE DEF new
<1>2. CASE m.type = "Relay"
    <2>1. News(new) = News(q)
        BY <1>1, <1>2 DEF News
    <2>2. \A i \in News(q) : new[i] = q[i]
        BY <1>1 DEF News
    <2>3. Verdict(new, b) <=> Verdict(q, b)
        BY <2>1, <2>2 DEF Verdict
    <2> QED BY <1>2, <2>3 DEF new
<1>3. CASE m.type # "Relay"
    <2> DEFINE top == Len(q) + 1
    <2>1. /\ top \in News(new)
          /\ \A i \in News(new) : i \in Nat /\ i <= top
          /\ new[top] = m
        BY <1>1, <1>3 DEF News
    <2>2. \A i \in News(new) : top <= i => i = top
        BY <2>1, <1>1
    <2>3. Verdict(new, b) <=> m.type = "PeerJoined"
        BY <2>1, <2>2 DEF Verdict
    <2> QED BY <1>3, <2>3 DEF new
<1> QED BY <1>2, <1>3

LEMMA VerdictDeliver ==
    ASSUME NEW q \in Seq(Message), q # <<>>, NEW b \in BOOLEAN
    PROVE  /\ Head(q).type = "Relay" => (Verdict(Tail(q), b) <=> Verdict(q, b))
           /\ Head(q).type # "Relay" =>
                 (Verdict(Tail(q), Head(q).type = "PeerJoined")
                     <=> Verdict(q, b))
<1> DEFINE tail == Tail(q)
<1>1. /\ DOMAIN tail = 1 .. Len(q) - 1
      /\ DOMAIN q = 1 .. Len(q)
      /\ Len(q) \in Nat \ {0}
      /\ \A i \in DOMAIN tail : tail[i] = q[i + 1]
      /\ Head(q) = q[1]
    BY TailFacts
<1> HIDE DEF tail
<1>2. /\ \A i \in News(tail) : i \in Nat \ {0} /\ i + 1 \in News(q)
      /\ \A i \in News(q) : i \in Nat /\ (i # 1 => i - 1 \in News(tail))
      /\ 1 \in News(q) <=> Head(q).type # "Relay"
    BY <1>1 DEF News
<1>3. \A i \in News(tail) : tail[i] = q[i + 1]
    BY <1>1 DEF News
<1>4. ASSUME News(tail) # {}
      PROVE  Verdict(tail, b) <=> Verdict(q, b)
    <2>1. News(q) # {}
        BY <1>2, <1>4
    <2>2. ASSUME NEW i \in News(tail), \A j \in News(tail) : j <= i
          PROVE  i + 1 \in News(q) /\ \A j \in News(q) : j <= i + 1
        <3>1. SUFFICES ASSUME NEW j \in News(q) PROVE j <= i + 1
            BY <1>2
        <3>2. CASE j = 1
            BY <1>2, <3>2
        <3>3. CASE j # 1
            BY <1>2, <2>2, <3>3
        <3> QED BY <3>2, <3>3
    <2>3. ASSUME NEW i \in News(q), \A j \in News(q) : j <= i
          PROVE  i - 1 \in News(tail) /\ \A j \in News(tail) : j <= i - 1
        <3>1. PICK k \in News(tail) : TRUE
            BY <1>4
        <3>2. i # 1
            BY <1>2, <2>3, <3>1
        <3>3. ASSUME NEW j \in News(tail) PROVE j <= i - 1
            BY <1>2, <2>3, <3>3
        <3> QED BY <1>2, <3>2, <3>3
    <2>4. ASSUME Verdict(tail, b) PROVE Verdict(q, b)
        <3>1. PICK i \in News(tail) : /\ \A j \in News(tail) : j <= i
                                      /\ tail[i].type = "PeerJoined"
            BY <1>4, <2>4 DEF Verdict
        <3> QED BY <1>3, <2>1, <2>2, <3>1 DEF Verdict
    <2>5. ASSUME Verdict(q, b) PROVE Verdict(tail, b)
        <3>1. PICK i \in News(q) : /\ \A j \in News(q) : j <= i
                                   /\ q[i].type = "PeerJoined"
            BY <2>1, <2>5 DEF Verdict
        <3>2. tail[i - 1] = q[i]
            BY <1>2, <1>3, <2>3, <3>1
        <3> QED BY <1>4, <2>3, <3>1, <3>2 DEF Verdict
    <2> QED BY <2>4, <2>5
<1>5. \A x : News(tail) # {} => (Verdict(tail, x) <=> Verdict(tail, b))
    BY DEF Verdict
<1>6. CASE News(tail) # {}
    BY <1>4, <1>5, <1>6 DEF tail
<1>7. CASE News(tail) = {} /\ Head(q).type = "Relay"
    <2>1. News(q) = {}
        BY <1>2, <1>7
    <2>2. Verdict(tail, b) <=> Verdict(q, b)
        BY <1>7, <2>1 DEF Verdict
    <2> QED BY <1>7, <2>2 DEF tail
<1>8. CASE News(tail) = {} /\ Head(q).type # "Relay"
    <2>1. News(q) = {1}
        BY <1>2, <1>8
    <2>2. Verdict(q, b) <=> Head(q).type = "PeerJoined"
        BY <1>1, <2>1 DEF Verdict
    <2>3. Verdict(tail, Head(q).type = "PeerJoined")
              <=> Head(q).type = "PeerJoined"
        BY <1>8 DEF Verdict
    <2> QED BY <1>8, <2>2, <2>3 DEF tail
<1> QED BY <1>6, <1>7, <1>8

-----------------------------------------------------------------------------
(* Which relays a queue still holds                                        *)

\* All messages of d numbered above lo, up to hi, are in q.
Covers(q, d, lo, hi) ==
    \A k \in lo + 1 .. hi : \E i \in From(q, d) : q[i].number = k

LEMMA CoversAppend ==
    ASSUME NEW q \in Seq(Message), NEW m \in Message, NEW d,
           NEW lo \in Nat, NEW hi \in Nat, Covers(q, d, lo, hi)
    PROVE  /\ Covers(Append(q, m), d, lo, hi)
           /\ m.type = "Relay" /\ m.from = d /\ m.number = hi + 1 =>
                 Covers(Append(q, m), d, lo, hi + 1)
<1> DEFINE new == Append(q, m)
<1>1. /\ DOMAIN new = 1 .. Len(q) + 1
      /\ DOMAIN q = 1 .. Len(q)
      /\ Len(q) \in Nat
      /\ \A i \in DOMAIN q : new[i] = q[i]
      /\ new[Len(q) + 1] = m
    BY AppendFacts
<1> HIDE DEF new
<1>2. \A i \in From(q, d) : i \in From(new, d) /\ new[i] = q[i]
    BY <1>1 DEF From
<1>3. Covers(new, d, lo, hi)
    BY <1>2 DEF Covers
<1>4. ASSUME m.type = "Relay", m.from = d, m.number = hi + 1
      PROVE  Covers(new, d, lo, hi + 1)
    <2>1. Len(q) + 1 \in From(new, d) /\ new[Len(q) + 1].number = hi + 1
        BY <1>1, <1>4 DEF From
    <2>2. \A k \in lo + 1 .. hi + 1 : k = hi + 1 \/ k \in lo + 1 .. hi
        OBVIOUS
    <2> QED BY <1>3, <2>1, <2>2 DEF Covers
<1> QED BY <1>3, <1>4 DEF new

LEMMA CoversDeliver ==
    ASSUME NEW q \in Seq(Message), q # <<>>, NEW d,
           NEW lo \in Nat, NEW hi \in Nat, Covers(q, d, lo, hi)
    PROVE  /\ ~ (Head(q).type = "Relay" /\ Head(q).from = d) =>
                 Covers(Tail(q), d, lo, hi)
           /\ /\ Head(q).type = "Relay"
              /\ Head(q).from = d
              /\ lo < Head(q).number
              => Covers(Tail(q), d, Head(q).number, hi)
<1> DEFINE tail == Tail(q)
<1>1. /\ DOMAIN tail = 1 .. Len(q) - 1
      /\ DOMAIN q = 1 .. Len(q)
      /\ Len(q) \in Nat \ {0}
      /\ \A i \in DOMAIN tail : tail[i] = q[i + 1]
      /\ Head(q) = q[1]
      /\ Head(q) \in Message
    BY TailFacts
<1> HIDE DEF tail
<1>2. \A i \in From(q, d) :
          i # 1 => i - 1 \in From(tail, d) /\ tail[i - 1] = q[i]
    BY <1>1 DEF From
<1>3. ASSUME ~ (Head(q).type = "Relay" /\ Head(q).from = d)
      PROVE  Covers(tail, d, lo, hi)
    <2>1. 1 \notin From(q, d)
        BY <1>1, <1>3 DEF From
    <2> QED BY <1>2, <2>1 DEF Covers
<1>4. ASSUME Head(q).type = "Relay", Head(q).from = d, lo < Head(q).number
      PROVE  Covers(tail, d, Head(q).number, hi)
    <2>1. Head(q).number \in Nat
        BY <1>1, <1>4 DEF Message, Presence, Relayed
    <2>2. SUFFICES ASSUME NEW k \in Head(q).number + 1 .. hi
                   PROVE  \E i \in From(tail, d) : tail[i].number = k
        BY DEF Covers
    <2>3. k \in lo + 1 .. hi /\ k # Head(q).number
        BY <1>4, <2>1, <2>2
    <2>4. PICK i \in From(q, d) : q[i].number = k
        BY <2>3 DEF Covers
    <2>5. i # 1
        BY <1>1, <2>3, <2>4
    <2> QED BY <1>2, <2>4, <2>5
<1> QED BY <1>3, <1>4 DEF tail

-----------------------------------------------------------------------------
(* A message posted to a channel                                           *)

LEMMA EnqueueSound ==
    ASSUME NEW c, NEW ch \in Channel, NEW m \in Message,
           NEW heard \in [Sockets -> Nat],
           NEW snt \in [Sockets -> Nat], NEW snt2 \in [Sockets -> Nat],
           Mine(c, ch.queue), Sorted(ch.queue),
           Fresh(ch.queue, heard, snt),
           \A d \in Sockets : heard[d] <= snt[d] /\ snt[d] <= snt2[d],
           m.type = "Relay" => /\ SessionOf[m.from] = SessionOf[c]
                               /\ PeerOf[m.from] # PeerOf[c]
                               /\ snt[m.from] < m.number
                               /\ m.number <= snt2[m.from],
           m.type # "Relay" => m.peer # PeerOf[c]
    PROVE  /\ Mine(c, Enqueued(ch, m).queue)
           /\ Sorted(Enqueued(ch, m).queue)
           /\ Fresh(Enqueued(ch, m).queue, heard, snt2)
<1>1. ASSUME NEW q \in Seq(Message),
             Mine(c, q), Sorted(q), Fresh(q, heard, snt)
      PROVE  /\ Mine(c, Append(q, m))
             /\ Sorted(Append(q, m))
             /\ Fresh(Append(q, m), heard, snt2)
    <2>1. m.type = "Relay" => m.from \in Sockets /\ m.number \in Nat
        BY DEF Message, Presence, Relayed
    <2>2. \A i \in DOMAIN q :
              q[i].type = "Relay" => q[i].from \in Sockets
                                     /\ q[i].number \in Nat
        <3>1. \A i \in DOMAIN q : q[i] \in Message
            BY AppendFacts
        <3> QED BY <3>1 DEF Message, Presence, Relayed
    <2>3. Mine(c, Append(q, m))
        BY <1>1, MineAppend
    <2>4. \A i \in DOMAIN q :
              m.type = "Relay" /\ q[i].type = "Relay" /\ q[i].from = m.from
              => q[i].number < m.number
        BY <1>1, <2>1, <2>2 DEF Fresh
    <2>5. Sorted(Append(q, m))
        BY <1>1, <2>4, SortedAppend
    <2>6. Fresh(q, heard, snt2)
        BY <1>1, <2>2 DEF Fresh
    <2>7. m.type = "Relay" => heard[m.from] < m.number
        BY <2>1
    <2>8. Fresh(Append(q, m), heard, snt2)
        BY <2>6, <2>7, FreshAppend
    <2> QED BY <2>3, <2>5, <2>8
<1>2. ch.queue \in Seq(Message)
    BY DEF Channel
<1>3. CASE Enqueued(ch, m).queue = Append(ch.queue, m)
    BY <1>1, <1>2, <1>3
<1>4. CASE /\ ch.queue # <<>>
           /\ Enqueued(ch, m).queue = Append(Tail(ch.queue), m)
    <2>1. Tail(ch.queue) \in Seq(Message)
        BY <1>2, <1>4
    <2>2. /\ Mine(c, Tail(ch.queue))
          /\ Sorted(Tail(ch.queue))
          /\ Fresh(Tail(ch.queue), heard, snt)
        BY <1>2, <1>4, MineTail, SortedTail, FreshTail
    <2> QED BY <1>1, <1>4, <2>1, <2>2
<1> QED BY <1>3, <1>4, EnqueuedCases

\* All channels after a message was posted to some members.
LEMMA PostSound ==
    ASSUME IInv, NEW targets \in SUBSET Sockets, NEW m \in Message,
           NEW snt2 \in [Sockets -> Nat],
           \A d \in Sockets : sent[d] <= snt2[d],
           \A c \in targets :
              /\ m.type = "Relay" => /\ SessionOf[m.from] = SessionOf[c]
                                     /\ PeerOf[m.from] # PeerOf[c]
                                     /\ sent[m.from] < m.number
                                     /\ m.number <= snt2[m.from]
              /\ m.type # "Relay" => m.peer # PeerOf[c],
           NEW c \in Sockets
    PROVE  /\ Mine(c, Posted(targets, m)[c].queue)
           /\ Sorted(Posted(targets, m)[c].queue)
           /\ Fresh(Posted(targets, m)[c].queue, view[c].heard, snt2)
           /\ \A d \in Sockets : view[c].heard[d] <= snt2[d]
<1>1. /\ channel[c] \in Channel
      /\ view[c].heard \in [Sockets -> Nat]
      /\ sent \in [Sockets -> Nat]
    BY DEF IInv, TypeOK, View
<1>2. /\ Mine(c, channel[c].queue)
      /\ Sorted(channel[c].queue)
      /\ Fresh(channel[c].queue, view[c].heard, sent)
      /\ \A d \in Sockets : view[c].heard[d] <= sent[d]
    BY DEF IInv, QueuesAreSound
<1>3. \A d \in Sockets : view[c].heard[d] <= snt2[d]
    BY <1>1, <1>2
<1>4. CASE c \in targets
    <2>1. Posted(targets, m)[c] = Enqueued(channel[c], m)
        BY <1>4 DEF Posted
    <2> QED BY <1>1, <1>2, <1>3, <1>4, <2>1, EnqueueSound
<1>5. CASE c \notin targets
    <2>1. Posted(targets, m)[c] = channel[c]
        BY <1>5 DEF Posted
    <2>2. \A i \in DOMAIN channel[c].queue :
              channel[c].queue[i].type = "Relay" =>
                  /\ channel[c].queue[i].from \in Sockets
                  /\ channel[c].queue[i].number \in Nat
        <3>1. channel[c].queue \in Seq(Message)
            BY <1>1 DEF Channel
        <3>2. \A i \in DOMAIN channel[c].queue :
                  channel[c].queue[i] \in Message
            BY <3>1
        <3> QED BY <3>2 DEF Message, Presence, Relayed
    <2>3. Fresh(channel[c].queue, view[c].heard, snt2)
        BY <1>1, <1>2, <2>2 DEF Fresh
    <2> QED BY <1>2, <1>3, <2>1, <2>3
<1> QED BY <1>4, <1>5

LEMMA PostLoss ==
    ASSUME IInv, NEW targets \in SUBSET Sockets, NEW m \in Message,
           NEW c \in Sockets,
           ~ Posted(targets, m)[c].dropped
    PROVE  /\ ~ channel[c].dropped
           /\ c \notin targets => Posted(targets, m)[c] = channel[c]
           /\ c \in targets =>
                 Posted(targets, m)[c].queue = Append(channel[c].queue, m)
<1>1. channel[c] \in Channel
    BY DEF IInv, TypeOK
<1>2. CASE c \in targets
    <2>1. Posted(targets, m)[c] = Enqueued(channel[c], m)
        BY <1>2 DEF Posted
    <2>2. \/ /\ Enqueued(channel[c], m).queue = Append(channel[c].queue, m)
             /\ Enqueued(channel[c], m).dropped = channel[c].dropped
          \/ Enqueued(channel[c], m).dropped = TRUE
        BY <1>1, EnqueuedCases
    <2> QED BY <1>2, <2>1, <2>2
<1>3. CASE c \notin targets
    BY <1>3 DEF Posted
<1> QED BY <1>2, <1>3

-----------------------------------------------------------------------------
(* Rooms                                                                   *)

LEMMA RoomFacts ==
    ASSUME IInv, NEW c \in Sockets
    PROVE  /\ SessionOf[c] \in Sessions
           /\ PeerOf[c] \in Peers
           /\ room[SessionOf[c]] \subseteq Sockets
           /\ Others(c) \subseteq Sockets
           /\ Others(c) = Remaining(c)
           /\ InRoom(c) <=> task[c] \in {"greeting", "serving"}
           /\ InRoom(c) => Others(c) = room[SessionOf[c]] \ {c}
           /\ \A d \in room[SessionOf[c]] :
                 /\ SessionOf[d] = SessionOf[c]
                 /\ task[d] \in {"greeting", "serving"}
                 /\ InRoom(d)
BY SignalingAssumption
   DEF IInv, TypeOK, RoomsMatchTasks, Others, Remaining, InRoom

LEMMA FewMembers ==
    ASSUME NEW S, IsFiniteSet(S), Cardinality(S) < 2
    PROVE  \A x, y \in S : x = y
<1>1. SUFFICES ASSUME NEW x \in S, NEW y \in S, x # y
               PROVE  FALSE
    OBVIOUS
<1>2. IsFiniteSet({x}) /\ Cardinality({x}) = 1
    BY FS_Singleton
<1>3. Cardinality({x} \cup {y}) = 2
    BY <1>1, <1>2, FS_AddElement
<1>4. Cardinality({x} \cup {y}) <= Cardinality(S)
    BY <1>1, FS_Subset
<1>5. Cardinality(S) \in Nat
    BY FS_CardinalityType
<1> QED BY <1>3, <1>4, <1>5

-----------------------------------------------------------------------------
(* The invariant holds initially                                           *)

LEMMA InitInv == Init => IInv
<1> SUFFICES ASSUME Init PROVE IInv
    OBVIOUS
<1>1. NewChannel \in Channel
    BY DEF NewChannel, Channel
<1>2. TypeOK
    BY <1>1 DEF Init, TypeOK, View
<1>3. RoomsMatchTasks
    BY DEF Init, RoomsMatchTasks
<1>4. RoomsAreSmall
    BY FS_EmptySet DEF Init, RoomsAreSmall
<1>5. TasksStartClean
    BY DEF Init, TasksStartClean
<1>6. \A c \in Sockets : channel[c].queue = <<>> /\ ~ InRoom(c)
    BY SignalingAssumption DEF Init, NewChannel, InRoom
<1>7. QueuesAreSound
    <2>1. ASSUME NEW c \in Sockets
          PROVE  /\ Mine(c, <<>>)
                 /\ Sorted(<<>>)
                 /\ Fresh(<<>>, view[c].heard, sent)
        BY DEF Mine, Sorted, Fresh
    <2>2. \A c, d \in Sockets : view[c].heard[d] <= sent[d]
        BY DEF Init
    <2> QED BY <1>6, <2>1, <2>2 DEF QueuesAreSound
<1>8. PresenceIsTracked
    BY <1>6 DEF PresenceIsTracked
<1>9. LostOnlyByOverrun
    BY <1>6 DEF LostOnlyByOverrun
<1> QED BY <1>2, <1>3, <1>4, <1>5, <1>7, <1>8, <1>9 DEF IInv

-----------------------------------------------------------------------------
(* Joining                                                                 *)

LEMMA RefuseInv ==
    ASSUME IInv, NEW c \in Sockets, Refuse(c)
    PROVE  IInv'
<1>1. room[SessionOf[c]] # {}
    <2>1. CASE DuplicatePeer(c)
        BY <2>1 DEF DuplicatePeer, Peer
    <2>2. CASE SessionFull(c)
        BY <2>2, FS_EmptySet DEF SessionFull, MAX_PEERS_PER_SESSION
    <2> QED BY <2>1, <2>2 DEF Refuse
<1>2. open' = open
    BY <1>1, RoomFacts DEF Refuse, IInv, RoomsMatchTasks
<1>3. /\ task' = [task EXCEPT ![c] = "closed"]
      /\ task[c] = "connecting"
      /\ UNCHANGED <<room, announce, channel, client, sent, view>>
    BY DEF Refuse
<1>4. TypeOK'
    BY <1>2, <1>3 DEF IInv, TypeOK
<1>5. RoomsMatchTasks'
    BY <1>2, <1>3 DEF IInv, TypeOK, RoomsMatchTasks
<1>6. RoomsAreSmall' /\ QueuesAreSound'
    BY <1>3 DEF IInv, RoomsAreSmall, QueuesAreSound
<1>7. TasksStartClean'
    BY <1>3 DEF IInv, TypeOK, TasksStartClean
<1>8. PresenceIsTracked' /\ LostOnlyByOverrun'
    BY <1>3 DEF IInv, PresenceIsTracked, Foreseen, InRoom, Others,
                LostOnlyByOverrun
<1> QED BY <1>4, <1>5, <1>6, <1>7, <1>8 DEF IInv

LEMMA JoinInv ==
    ASSUME IInv, NEW c \in Sockets, Join(c)
    PROVE  IInv'
<1> DEFINE s == SessionOf[c]
           m == PeerJoined(PeerOf[c])
<1>1. /\ s \in Sessions
      /\ PeerOf[c] \in Peers
      /\ room[s] \subseteq Sockets
      /\ \A d \in room[s] : SessionOf[d] = s /\ PeerOf[d] # PeerOf[c]
      /\ c \notin room[s]
      /\ m \in Message
      /\ m.type = "PeerJoined"
      /\ m.peer = PeerOf[c]
    <2>1. \A d \in room[s] : PeerOf[d] # PeerOf[c]
        BY DEF Join, DuplicatePeer, Peer
    <2> QED BY <2>1, RoomFacts, MessageTypes DEF PeerJoined
<1>2. /\ task[c] = "connecting"
      /\ room' = [room EXCEPT ![s] = room[s] \cup {c}]
      /\ open' = open \cup {s}
      /\ announce' = [announce EXCEPT ![c] = Peer(room[s])]
      /\ channel' = Posted(room[s], m)
      /\ task' = [task EXCEPT ![c] = "greeting"]
      /\ view' = [view EXCEPT ![c].heard = sent]
      /\ UNCHANGED <<client, sent>>
    BY DEF Join
<1>3. TypeOK /\ RoomsMatchTasks /\ RoomsAreSmall /\ TasksStartClean
    BY DEF IInv
<1>4. \A e \in Sockets :
          /\ view'[e].present = view[e].present
          /\ e # c => view'[e] = view[e]
          /\ e = c => view'[e].heard = sent
    BY <1>2, <1>3 DEF TypeOK, View
<1> HIDE DEF m
<1>5. TypeOK'
    <2>1. channel' \in [Sockets -> Channel]
        BY <1>1, <1>2, <1>3, PostedType
    <2>2. Peer(room[s]) \subseteq Peers
        BY <1>1, SignalingAssumption DEF Peer
    <2>3. view' \in [Sockets -> View]
        BY <1>2, <1>3 DEF TypeOK, View
    <2> QED BY <1>1, <1>2, <1>3, <2>1, <2>2, <2>3 DEF TypeOK
<1>6. RoomsMatchTasks'
    BY <1>1, <1>2, <1>3 DEF TypeOK, RoomsMatchTasks
<1>7. RoomsAreSmall'
    <2>1. IsFiniteSet(room[s]) /\ Cardinality(room[s]) < 2
        <3>1. IsFiniteSet(room[s])
            BY <1>1, <1>3 DEF RoomsAreSmall
        <3>2. Cardinality(room[s]) \in Nat
            BY <3>1, FS_CardinalityType
        <3> QED BY <3>1, <3>2
                DEF Join, SessionFull, MAX_PEERS_PER_SESSION
    <2>2. IsFiniteSet(room[s] \cup {c})
        BY <2>1, FS_AddElement
    <2>3. \A x, y \in room[s] : x = y
        BY <2>1, FewMembers
    <2>4. room'[s] = room[s] \cup {c}
          /\ \A t \in Sessions : t # s => room'[t] = room[t]
        BY <1>1, <1>2, <1>3 DEF TypeOK
    <2> QED BY <1>3, <2>2, <2>3, <2>4 DEF RoomsAreSmall
<1>8. c \notin room[s] /\ channel'[c] = NewChannel /\ view[c].present = FALSE
    BY <1>1, <1>2, <1>3 DEF Posted, TasksStartClean
<1>9. TasksStartClean'
    <2>1. ASSUME NEW e \in Sockets, task'[e] = "connecting"
          PROVE  /\ channel'[e] = NewChannel
                 /\ view'[e].present = FALSE
                 /\ sent'[e] = 0
        <3>1. e # c /\ task[e] = "connecting"
            BY <1>2, <1>3, <2>1 DEF TypeOK
        <3>2. e \notin room[s]
            BY <1>1, <1>3, <3>1 DEF RoomsMatchTasks
        <3> QED BY <1>2, <1>3, <1>4, <3>1, <3>2 DEF Posted, TasksStartClean
    <2>2. ASSUME NEW e \in Sockets
          PROVE  /\ announce'[e] # {} => task'[e] \in {"greeting", "serving"}
                 /\ PeerOf[e] \notin announce'[e]
        BY <1>1, <1>2, <1>3 DEF TypeOK, TasksStartClean, Peer
    <2> QED BY <2>1, <2>2 DEF TasksStartClean
<1>10. QueuesAreSound'
    <2>1. sent \in [Sockets -> Nat] /\ \A d \in Sockets : sent[d] <= sent[d]
        BY <1>3 DEF TypeOK
    <2>2. ASSUME NEW e \in Sockets
          PROVE  /\ Mine(e, channel'[e].queue)
                 /\ Sorted(channel'[e].queue)
                 /\ Fresh(channel'[e].queue, view[e].heard, sent)
                 /\ \A d \in Sockets : view[e].heard[d] <= sent[d]
        <3>1. \A d \in room[s] : m.type # "Relay" /\ m.peer # PeerOf[d]
            BY <1>1
        <3> QED BY <1>1, <1>2, <2>1, <3>1, PostSound
    <2>3. ASSUME NEW e \in Sockets
          PROVE  /\ Fresh(channel'[e].queue, view'[e].heard, sent')
                 /\ \A d \in Sockets : view'[e].heard[d] <= sent'[d]
        <3>1. CASE e = c
            <4>1. channel'[e].queue = <<>>
                BY <1>8, <3>1 DEF NewChannel
            <4>2. Fresh(<<>>, view'[e].heard, sent')
                BY DEF Fresh
            <4> QED BY <1>2, <1>4, <2>1, <3>1, <4>1, <4>2
        <3>2. CASE e # c
            BY <1>2, <1>4, <2>2, <3>2
        <3> QED BY <3>1, <3>2
    <2> QED BY <2>2, <2>3 DEF QueuesAreSound
<1>11. ASSUME NEW e \in Sockets, InRoom(e)', ~ channel'[e].dropped
       PROVE  \/ e = c
              \/ /\ e # c
                 /\ InRoom(e)
                 /\ ~ channel[e].dropped
                 /\ e \notin room[s] => channel'[e] = channel[e]
                 /\ e \in room[s] => SessionOf[e] = s /\
                        channel'[e].queue = Append(channel[e].queue, m)
    <2>1. e # c => InRoom(e)
        BY <1>1, <1>2, <1>3, <1>11, SignalingAssumption DEF InRoom, TypeOK
    <2> QED BY <1>1, <1>2, <1>11, <2>1, PostLoss
<1>12. PresenceIsTracked'
    <2> SUFFICES ASSUME NEW e \in Sockets, InRoom(e)', ~ channel'[e].dropped
                 PROVE  Foreseen(e)' <=> Others(e)' # {}
        BY DEF PresenceIsTracked
    <2>1. CASE e = c
        <3>1. Others(c)' = room[s]
            BY <1>1, <1>2, <1>3 DEF Others, TypeOK
        <3>2. announce'[c] = Peer(room[s])
            BY <1>2, <1>3 DEF TypeOK
        <3>3. Foreseen(c)' <=> Peer(room[s]) # {}
            <4>1. channel'[c].queue = <<>> /\ view'[c].present = FALSE
                BY <1>4, <1>8 DEF NewChannel
            <4>2. \A b : Verdict(<<>>, b) = b
                BY DEF Verdict, News
            <4> QED BY <3>2, <4>1, <4>2 DEF Foreseen
        <3> QED BY <2>1, <3>1, <3>3 DEF Peer
    <2>2. CASE e # c /\ e \in room[s]
        <3>1. channel'[e].queue = Append(channel[e].queue, m)
            BY <1>11, <2>2
        <3>2. channel[e].queue \in Seq(Message)
            BY <1>3 DEF TypeOK, Channel
        <3>3. \A b \in BOOLEAN : Verdict(channel'[e].queue, b)
            BY <1>1, <3>1, <3>2, VerdictAppend
        <3>4. (view'[e].present \/ announce'[e] # {}) \in BOOLEAN
            BY <1>5 DEF TypeOK, View
        <3>5. Foreseen(e)'
            BY <3>3, <3>4 DEF Foreseen
        <3>6. c \in Others(e)'
            BY <1>1, <1>2, <1>3, <2>2 DEF Others, TypeOK
        <3> QED BY <3>5, <3>6
    <2>3. CASE e # c /\ e \notin room[s]
        <3>1. /\ channel'[e] = channel[e]
              /\ InRoom(e)
              /\ ~ channel[e].dropped
            BY <1>11, <2>3
        <3>2. view'[e].present = view[e].present /\ announce'[e] = announce[e]
            BY <1>2, <1>3, <1>4, <2>3 DEF TypeOK
        <3>3. Foreseen(e)' <=> Foreseen(e)
            BY <3>1, <3>2 DEF Foreseen
        <3>4. SessionOf[e] # s
            BY <2>3, <3>1 DEF InRoom
        <3>5. Others(e)' = Others(e)
            BY <1>2, <1>3, <3>4 DEF Others, TypeOK
        <3> QED BY <3>1, <3>3, <3>5 DEF IInv, PresenceIsTracked
    <2> QED BY <2>1, <2>2, <2>3
<1>13. LostOnlyByOverrun'
    <2> SUFFICES ASSUME NEW e \in Sockets, NEW d \in Sockets, InRoom(e)',
                        e # d, SessionOf[e] = SessionOf[d],
                        ~ channel'[e].dropped
                 PROVE  Covers(channel'[e].queue, d, view'[e].heard[d],
                               sent'[d])
        BY DEF LostOnlyByOverrun, Covers
    <2>1. sent[d] \in Nat /\ view[e].heard[d] \in Nat
        BY <1>3 DEF TypeOK, View
    <2>2. CASE e = c
        <3>1. view'[e].heard[d] = sent'[d]
            BY <1>2, <1>4, <2>2
        <3> QED BY <1>2, <2>1, <3>1 DEF Covers
    <2>3. CASE e # c
        <3>1. /\ InRoom(e)
              /\ ~ channel[e].dropped
              /\ \/ channel'[e] = channel[e]
                 \/ channel'[e].queue = Append(channel[e].queue, m)
            BY <1>11, <2>3
        <3>2. Covers(channel[e].queue, d, view[e].heard[d], sent[d])
            BY <3>1 DEF IInv, LostOnlyByOverrun, Covers
        <3>3. channel[e].queue \in Seq(Message)
            BY <1>3 DEF TypeOK, Channel
        <3>4. Covers(channel'[e].queue, d, view[e].heard[d], sent[d])
            BY <1>1, <2>1, <3>1, <3>2, <3>3, CoversAppend
        <3> QED BY <1>2, <1>4, <2>3, <3>4
    <2> QED BY <2>2, <2>3
<1> QED BY <1>5, <1>6, <1>7, <1>9, <1>10, <1>12, <1>13 DEF IInv

-----------------------------------------------------------------------------
(* Serving the socket                                                      *)

LEMMA GreetInv ==
    ASSUME IInv, NEW c \in Sockets, Greet(c)
    PROVE  IInv'
<1>1. /\ task[c] = "greeting"
      /\ task' = [task EXCEPT ![c] = "serving"]
      /\ UNCHANGED <<room, open, announce, channel, client, sent, view>>
    BY DEF Greet
<1>2. TypeOK'
    BY <1>1 DEF IInv, TypeOK
<1>3. RoomsMatchTasks'
    BY <1>1 DEF IInv, TypeOK, RoomsMatchTasks
<1>4. RoomsAreSmall' /\ QueuesAreSound'
    BY <1>1 DEF IInv, RoomsAreSmall, QueuesAreSound
<1>5. TasksStartClean'
    BY <1>1 DEF IInv, TypeOK, TasksStartClean
<1>6. PresenceIsTracked' /\ LostOnlyByOverrun'
    BY <1>1 DEF IInv, PresenceIsTracked, Foreseen, InRoom, Others,
                LostOnlyByOverrun
<1> QED BY <1>2, <1>3, <1>4, <1>5, <1>6 DEF IInv

LEMMA ClientClosesInv ==
    ASSUME IInv, NEW c \in Sockets, ClientCloses(c)
    PROVE  IInv'
<1>1. /\ client' = [client EXCEPT ![c] = "gone"]
      /\ UNCHANGED <<room, open, task, announce, channel, sent, view>>
    BY DEF ClientCloses
<1>2. TypeOK'
    BY <1>1 DEF IInv, TypeOK
<1>3. RoomsMatchTasks' /\ TasksStartClean'
    BY <1>1 DEF IInv, RoomsMatchTasks, TasksStartClean
<1>4. RoomsAreSmall' /\ QueuesAreSound'
    BY <1>1 DEF IInv, RoomsAreSmall, QueuesAreSound
<1>5. PresenceIsTracked' /\ LostOnlyByOverrun'
    BY <1>1 DEF IInv, PresenceIsTracked, Foreseen, InRoom, Others,
                LostOnlyByOverrun
<1> QED BY <1>2, <1>3, <1>4, <1>5 DEF IInv

LEMMA AnnounceInv ==
    ASSUME IInv, NEW c \in Sockets, Announce(c)
    PROVE  IInv'
<1>1. PICK p \in announce[c] :
          /\ announce' = [announce EXCEPT ![c] = announce[c] \ {p}]
          /\ view' = [view EXCEPT ![c] = Shown(view[c], c, PeerJoined(p))]
    BY DEF Announce
<1>2. /\ task[c] = "serving"
      /\ UNCHANGED <<room, open, task, channel, client, sent>>
    BY DEF Announce
<1>3. TypeOK /\ RoomsMatchTasks /\ TasksStartClean
    BY DEF IInv
<1>4. /\ p \in Peers
      /\ p # PeerOf[c]
      /\ PeerJoined(p) \in Message
      /\ PeerJoined(p).type = "PeerJoined"
      /\ PeerJoined(p).peer = p
    BY <1>3, MessageTypes DEF TypeOK, TasksStartClean, PeerJoined
<1>5. /\ Shown(view[c], c, PeerJoined(p)) \in View
      /\ Shown(view[c], c, PeerJoined(p)).heard = view[c].heard
      /\ Shown(view[c], c, PeerJoined(p)).present = TRUE
    BY <1>3, <1>4, ShownType DEF TypeOK
<1>6. /\ \A e \in Sockets : view'[e].heard = view[e].heard
      /\ \A e \in Sockets \ {c} : view'[e] = view[e]
      /\ view'[c].present = TRUE
    BY <1>1, <1>3, <1>5 DEF TypeOK
<1>7. TypeOK'
    BY <1>1, <1>2, <1>3, <1>5 DEF TypeOK
<1>8. RoomsMatchTasks' /\ RoomsAreSmall'
    BY <1>2 DEF IInv, RoomsMatchTasks, RoomsAreSmall
<1>9. TasksStartClean'
    BY <1>1, <1>2, <1>3, <1>6 DEF TypeOK, TasksStartClean
<1>10. QueuesAreSound'
    BY <1>2, <1>6 DEF IInv, QueuesAreSound
<1>11. PresenceIsTracked'
    <2> SUFFICES ASSUME NEW e \in Sockets, InRoom(e)', ~ channel'[e].dropped
                 PROVE  Foreseen(e)' <=> Others(e)' # {}
        BY DEF PresenceIsTracked
    <2>1. /\ InRoom(e)
          /\ ~ channel[e].dropped
          /\ Others(e)' = Others(e)
          /\ Foreseen(e) <=> Others(e) # {}
        BY <1>2 DEF IInv, PresenceIsTracked, InRoom, Others
    <2>2. CASE e = c
        <3>1. (view[c].present \/ announce[c] # {}) = TRUE
            BY <1>1
        <3>2. (view'[c].present \/ announce'[c] # {}) = TRUE
            BY <1>6
        <3>3. Foreseen(e)' <=> Foreseen(e)
            BY <1>2, <2>2, <3>1, <3>2 DEF Foreseen
        <3> QED BY <2>1, <3>3
    <2>3. CASE e # c
        <3>1. Foreseen(e)' <=> Foreseen(e)
            BY <1>1, <1>2, <1>3, <1>6, <2>3 DEF Foreseen, TypeOK
        <3> QED BY <2>1, <3>1
    <2> QED BY <2>2, <2>3
<1>12. LostOnlyByOverrun'
    BY <1>2, <1>6 DEF IInv, LostOnlyByOverrun, InRoom
<1> QED BY <1>7, <1>8, <1>9, <1>10, <1>11, <1>12 DEF IInv

LEMMA SkipLagInv ==
    ASSUME IInv, NEW c \in Sockets, SkipLag(c)
    PROVE  IInv'
<1>1. /\ task[c] = "serving"
      /\ channel' = [channel EXCEPT ![c].lagged = FALSE]
      /\ UNCHANGED <<room, open, task, announce, client, sent, view>>
    BY DEF SkipLag, Looping
<1>2. TypeOK /\ RoomsMatchTasks /\ TasksStartClean
    BY DEF IInv
<1>3. /\ \A e \in Sockets : channel'[e].queue = channel[e].queue
      /\ \A e \in Sockets : channel'[e].dropped = channel[e].dropped
      /\ \A e \in Sockets \ {c} : channel'[e] = channel[e]
      /\ channel' \in [Sockets -> Channel]
    BY <1>1, <1>2 DEF TypeOK, Channel
<1>4. TypeOK'
    BY <1>1, <1>2, <1>3 DEF TypeOK
<1>5. RoomsMatchTasks' /\ RoomsAreSmall'
    BY <1>1 DEF IInv, RoomsMatchTasks, RoomsAreSmall
<1>6. TasksStartClean'
    BY <1>1, <1>2, <1>3 DEF TasksStartClean
<1>7. QueuesAreSound'
    BY <1>1, <1>3 DEF IInv, QueuesAreSound
<1>8. PresenceIsTracked'
    BY <1>1, <1>3 DEF IInv, PresenceIsTracked, Foreseen, InRoom, Others
<1>9. LostOnlyByOverrun'
    BY <1>1, <1>3 DEF IInv, LostOnlyByOverrun, InRoom
<1> QED BY <1>4, <1>5, <1>6, <1>7, <1>8, <1>9 DEF IInv

LEMMA RelayInv ==
    ASSUME IInv, NEW c \in Sockets, Relay(c)
    PROVE  IInv'
<1> DEFINE m == RelayMsg(c, sent[c] + 1)
<1>1. /\ task[c] = "serving"
      /\ sent' = [sent EXCEPT ![c] = sent[c] + 1]
      /\ channel' = Posted(Others(c), m)
      /\ UNCHANGED <<room, open, task, announce, client, view>>
    BY DEF Relay, Looping
<1>2. TypeOK /\ RoomsMatchTasks /\ TasksStartClean
    BY DEF IInv
<1>3. /\ sent[c] \in Nat
      /\ m \in Message
      /\ m.type = "Relay"
      /\ m.from = c
      /\ m.number = sent[c] + 1
      /\ Others(c) \in SUBSET Sockets
      /\ \A e \in Others(c) : /\ SessionOf[e] = SessionOf[c]
                              /\ PeerOf[e] # PeerOf[c]
                              /\ task[e] \in {"greeting", "serving"}
    <2>1. sent[c] \in Nat
        BY <1>2 DEF TypeOK
    <2>2. \A e \in Others(c) : e \in room[SessionOf[c]]
                               /\ PeerOf[e] # PeerOf[c]
        BY DEF Others
    <2> QED BY <2>1, <2>2, MessageTypes, RoomFacts DEF RelayMsg
<1> HIDE DEF m
<1>4. TypeOK'
    <2>1. channel' \in [Sockets -> Channel]
        BY <1>1, <1>2, <1>3, PostedType
    <2> QED BY <1>1, <1>2, <1>3, <2>1 DEF TypeOK
<1>5. RoomsMatchTasks' /\ RoomsAreSmall'
    BY <1>1 DEF IInv, RoomsMatchTasks, RoomsAreSmall
<1>6. TasksStartClean'
    <2>1. ASSUME NEW e \in Sockets, task[e] = "connecting"
          PROVE  channel'[e] = channel[e] /\ sent'[e] = sent[e]
        BY <1>1, <1>2, <1>3, <2>1 DEF Posted, TypeOK
    <2> QED BY <1>1, <1>2, <2>1 DEF TasksStartClean
<1>7. QueuesAreSound'
    <2>1. /\ sent' \in [Sockets -> Nat]
          /\ \A d \in Sockets : sent[d] <= sent'[d]
          /\ sent'[c] = sent[c] + 1
        BY <1>1, <1>2, <1>3 DEF TypeOK
    <2>2. \A e \in Others(c) : /\ SessionOf[m.from] = SessionOf[e]
                               /\ PeerOf[m.from] # PeerOf[e]
                               /\ sent[m.from] < m.number
                               /\ m.number <= sent'[m.from]
        BY <1>3, <2>1
    <2>3. ASSUME NEW e \in Sockets
          PROVE  /\ Mine(e, channel'[e].queue)
                 /\ Sorted(channel'[e].queue)
                 /\ Fresh(channel'[e].queue, view[e].heard, sent')
                 /\ \A d \in Sockets : view[e].heard[d] <= sent'[d]
        <3>1. \A x \in Others(c) :
                 /\ m.type = "Relay" => /\ SessionOf[m.from] = SessionOf[x]
                                        /\ PeerOf[m.from] # PeerOf[x]
                                        /\ sent[m.from] < m.number
                                        /\ m.number <= sent'[m.from]
                 /\ m.type # "Relay" => m.peer # PeerOf[x]
            BY <1>3, <2>2
        <3>2. /\ Mine(e, Posted(Others(c), m)[e].queue)
              /\ Sorted(Posted(Others(c), m)[e].queue)
              /\ Fresh(Posted(Others(c), m)[e].queue, view[e].heard, sent')
              /\ \A d \in Sockets : view[e].heard[d] <= sent'[d]
            BY ONLY IInv, e \in Sockets, <1>3, <2>1, <3>1, PostSound
        <3> QED BY <1>1, <3>2
    <2> QED BY <1>1, <2>3 DEF QueuesAreSound
<1>8. ASSUME NEW e \in Sockets, InRoom(e)', ~ channel'[e].dropped
      PROVE  /\ InRoom(e)
             /\ ~ channel[e].dropped
             /\ e \notin Others(c) => channel'[e] = channel[e]
             /\ e \in Others(c) =>
                    channel'[e].queue = Append(channel[e].queue, m)
    BY <1>1, <1>3, <1>8, PostLoss DEF InRoom
<1>9. PresenceIsTracked'
    <2> SUFFICES ASSUME NEW e \in Sockets, InRoom(e)', ~ channel'[e].dropped
                 PROVE  Foreseen(e)' <=> Others(e)' # {}
        BY DEF PresenceIsTracked
    <2>1. /\ Others(e)' = Others(e)
          /\ Foreseen(e) <=> Others(e) # {}
        BY <1>1, <1>8 DEF IInv, PresenceIsTracked, Others
    <2> DEFINE b == view[e].present \/ announce[e] # {}
    <2>2. Foreseen(e) <=> Verdict(channel[e].queue, b)
        BY DEF Foreseen
    <2>3. Foreseen(e)' <=> Verdict(channel'[e].queue, b)
        BY <1>1 DEF Foreseen
    <2>4. b \in BOOLEAN
        BY <1>2 DEF TypeOK, View
    <2>5. channel[e].queue \in Seq(Message)
        BY <1>2 DEF TypeOK, Channel
    <2> HIDE DEF b
    <2>6. Verdict(channel'[e].queue, b) <=> Verdict(channel[e].queue, b)
        <3>1. Verdict(Append(channel[e].queue, m), b)
                  <=> Verdict(channel[e].queue, b)
            BY <1>3, <2>4, <2>5, VerdictAppend
        <3>2. \/ channel'[e].queue = channel[e].queue
              \/ channel'[e].queue = Append(channel[e].queue, m)
            BY <1>8
        <3>3. CASE channel'[e].queue = channel[e].queue
            BY <3>3
        <3>4. CASE channel'[e].queue = Append(channel[e].queue, m)
            BY <3>1, <3>4
        <3> QED BY <3>2, <3>3, <3>4
    <2> QED BY <2>1, <2>2, <2>3, <2>6
<1>10. LostOnlyByOverrun'
    <2> SUFFICES ASSUME NEW e \in Sockets, NEW d \in Sockets, InRoom(e)',
                        e # d, SessionOf[e] = SessionOf[d],
                        ~ channel'[e].dropped
                 PROVE  Covers(channel'[e].queue, d, view'[e].heard[d],
                               sent'[d])
        BY DEF LostOnlyByOverrun, Covers
    <2>1. sent[d] \in Nat /\ view[e].heard[d] \in Nat
        BY <1>2 DEF TypeOK, View
    <2>2. channel[e].queue \in Seq(Message)
        BY <1>2 DEF TypeOK, Channel
    <2>3. Covers(channel[e].queue, d, view[e].heard[d], sent[d])
        BY <1>8 DEF IInv, LostOnlyByOverrun, Covers
    <2>4. CASE d = c
        <3>1. e \in Others(c)
            <4>1. e \in room[SessionOf[c]] /\ c \in room[SessionOf[c]]
                BY <1>1, <1>8, <2>4, RoomFacts DEF InRoom
            <4>2. SessionOf[c] \in Sessions
                BY RoomFacts
            <4> QED BY <1>2, <2>4, <4>1, <4>2 DEF RoomsMatchTasks, Others
        <3>2. Covers(channel'[e].queue, c, view[e].heard[d], sent[c] + 1)
            <4>1. Covers(channel[e].queue, c, view[e].heard[d], sent[c])
                BY <2>3, <2>4
            <4>2. Covers(Append(channel[e].queue, m), c, view[e].heard[d],
                         sent[c] + 1)
                BY <1>3, <2>1, <2>2, <4>1, CoversAppend
            <4>3. channel'[e].queue = Append(channel[e].queue, m)
                BY <1>8, <3>1
            <4> QED BY <4>2, <4>3
        <3>3. sent'[d] = sent[c] + 1 /\ view'[e].heard[d] = view[e].heard[d]
            BY <1>1, <1>2, <2>4 DEF TypeOK
        <3> QED BY <2>4, <3>2, <3>3
    <2>5. CASE d # c
        <3>1. sent'[d] = sent[d] /\ view'[e].heard[d] = view[e].heard[d]
            BY <1>1, <1>2, <2>5 DEF TypeOK
        <3>2. Covers(channel'[e].queue, d, view[e].heard[d], sent[d])
            BY <1>3, <1>8, <2>1, <2>2, <2>3, CoversAppend
        <3> QED BY <3>1, <3>2
    <2> QED BY <2>4, <2>5
<1> QED BY <1>4, <1>5, <1>6, <1>7, <1>9, <1>10 DEF IInv

LEMMA DeliverInv ==
    ASSUME IInv, NEW c \in Sockets, Deliver(c)
    PROVE  /\ IInv'
           /\ NeverBack
           /\ \A d \in Sockets :
                 NextIsOf(c, d) => view'[c].heard[d] > view[c].heard[d]
<1> DEFINE q == channel[c].queue
           m == Head(q)
<1>1. /\ task[c] = "serving"
      /\ announce[c] = {}
      /\ q # <<>>
      /\ channel' = [channel EXCEPT ![c].queue = Tail(q)]
      /\ view' = [view EXCEPT ![c] = Shown(view[c], c, m)]
      /\ UNCHANGED <<room, open, task, announce, client, sent>>
    BY DEF Deliver, Looping
<1>2. TypeOK /\ RoomsMatchTasks /\ TasksStartClean
    BY DEF IInv
<1>3. /\ q \in Seq(Message)
      /\ m \in Message
      /\ Tail(q) \in Seq(Message)
      /\ 1 \in DOMAIN q
      /\ m = q[1]
    <2>1. q \in Seq(Message)
        BY <1>2 DEF TypeOK, Channel
    <2> QED BY <1>1, <2>1, TailFacts
<1>4. /\ Mine(c, q)
      /\ Sorted(q)
      /\ Fresh(q, view[c].heard, sent)
      /\ \A d \in Sockets : view[c].heard[d] <= sent[d]
    BY DEF IInv, QueuesAreSound
<1>5. /\ m.type = "Relay" => /\ m.from \in Sockets
                             /\ m.number \in Nat
                             /\ view[c].heard[m.from] < m.number
                             /\ m.number <= sent[m.from]
      /\ m.type # "Relay" => /\ m.type \in {"PeerJoined", "PeerLeft"}
                             /\ m.peer # PeerOf[c]
    BY <1>3, <1>4 DEF Mine, Fresh, Message, Presence, Relayed
<1>6. /\ Shown(view[c], c, m) \in View
      /\ m.type # "Relay" =>
            /\ Shown(view[c], c, m).heard = view[c].heard
            /\ Shown(view[c], c, m).present = (m.type = "PeerJoined")
      /\ m.type = "Relay" =>
            /\ Shown(view[c], c, m).present = view[c].present
            /\ Shown(view[c], c, m).heard =
                   [view[c].heard EXCEPT ![m.from] = m.number]
    <2>1. view[c] \in View
        BY <1>2 DEF TypeOK
    <2> HIDE DEF q, m
    <2>2. /\ Shown(view[c], c, m) \in View
          /\ m.type # "Relay" => Shown(view[c], c, m).heard = view[c].heard
          /\ m.type = "Relay" =>
                /\ Shown(view[c], c, m).present = view[c].present
                /\ Shown(view[c], c, m).heard =
                       [view[c].heard EXCEPT ![m.from] = m.number]
          /\ m.type = "PeerLeft" => Shown(view[c], c, m).present = FALSE
          /\ m.type = "PeerJoined" /\ m.peer # PeerOf[c] =>
                Shown(view[c], c, m).present = TRUE
        <3>1. m \in Message
            BY <1>3
        <3> QED BY ONLY <2>1, <3>1, ShownType
    <2>3. CASE m.type = "PeerJoined"
        <3>1. Shown(view[c], c, m).present = TRUE
            BY <1>5, <2>2, <2>3
        <3>2. (m.type = "PeerJoined") = TRUE
            BY <2>3
        <3>3. Shown(view[c], c, m).present = (m.type = "PeerJoined")
            BY <3>1, <3>2
        <3> QED BY <2>2, <2>3, <3>3
    <2>4. CASE m.type = "PeerLeft"
        <3>1. Shown(view[c], c, m).present = FALSE
            BY <2>2, <2>4
        <3>2. (m.type = "PeerJoined") = FALSE
            BY <2>4
        <3>3. Shown(view[c], c, m).present = (m.type = "PeerJoined")
            BY <3>1, <3>2
        <3> QED BY <2>2, <2>4, <3>3
    <2>5. CASE m.type = "Relay"
        BY <2>2, <2>5
    <2> QED BY <1>5, <2>3, <2>4, <2>5
<1>7. /\ channel'[c].queue = Tail(q)
      /\ channel'[c].dropped = channel[c].dropped
      /\ \A e \in Sockets \ {c} : channel'[e] = channel[e]
      /\ channel' \in [Sockets -> Channel]
      /\ view'[c] = Shown(view[c], c, m)
      /\ \A e \in Sockets \ {c} : view'[e] = view[e]
      /\ view' \in [Sockets -> View]
      /\ view[c].heard \in [Sockets -> Nat]
      /\ \A e, d \in Sockets : view[e].heard[d] \in Nat /\ sent[d] \in Nat
    <2> HIDE DEF q, m
    <2>1. channel[c] \in Channel
        BY <1>2 DEF TypeOK
    <2>2. [channel[c] EXCEPT !.queue = Tail(q)] \in Channel
        BY <1>3, <2>1 DEF Channel
    <2>3. channel' = [channel EXCEPT ![c] =
                         [channel[c] EXCEPT !.queue = Tail(q)]]
        BY <1>1
    <2>4. /\ channel' \in [Sockets -> Channel]
          /\ channel'[c] = [channel[c] EXCEPT !.queue = Tail(q)]
          /\ \A e \in Sockets \ {c} : channel'[e] = channel[e]
        BY <1>2, <2>2, <2>3 DEF TypeOK
    <2>5. channel'[c].queue = Tail(q) /\ channel'[c].dropped = channel[c].dropped
        BY <2>1, <2>4 DEF Channel
    <2>6. /\ view'[c] = Shown(view[c], c, m)
          /\ \A e \in Sockets \ {c} : view'[e] = view[e]
          /\ view' \in [Sockets -> View]
        BY <1>1, <1>2, <1>6 DEF TypeOK
    <2>7. /\ view[c].heard \in [Sockets -> Nat]
          /\ \A e, d \in Sockets : view[e].heard[d] \in Nat /\ sent[d] \in Nat
        BY <1>2 DEF TypeOK, View
    <2> QED BY <2>4, <2>5, <2>6, <2>7
<1> HIDE DEF q, m
<1>8. TypeOK'
    BY <1>1, <1>2, <1>7 DEF TypeOK
<1>9. RoomsMatchTasks' /\ RoomsAreSmall'
    BY <1>1 DEF IInv, RoomsMatchTasks, RoomsAreSmall
<1>10. TasksStartClean'
    BY <1>1, <1>2, <1>7 DEF TasksStartClean
<1>11. /\ m.type = "Relay" => view'[c].heard =
                                  [view[c].heard EXCEPT ![m.from] = m.number]
       /\ m.type # "Relay" => view'[c].heard = view[c].heard
    BY <1>6, <1>7
<1>12. QueuesAreSound'
    <2>1. ASSUME NEW e \in Sockets
          PROVE  /\ Mine(e, channel'[e].queue)
                 /\ Sorted(channel'[e].queue)
                 /\ Fresh(channel'[e].queue, view'[e].heard, sent)
                 /\ \A d \in Sockets : view'[e].heard[d] <= sent[d]
        <3>1. CASE e # c
            BY <1>7, <3>1 DEF IInv, QueuesAreSound
        <3>2. CASE e = c
            <4>1. Mine(c, Tail(q)) /\ Sorted(Tail(q))
                BY <1>1, <1>3, <1>4, MineTail, SortedTail DEF q
            <4>2. CASE m.type = "Relay"
                <5>1. Fresh(Tail(q), view'[c].heard, sent)
                    <6>1. Fresh(Tail(q), [view[c].heard EXCEPT
                                      ![Head(q).from] = Head(q).number], sent)
                        BY <1>1, <1>3, <1>4, <1>7, <4>2, FreshDeliver DEF m
                    <6> QED BY <1>11, <4>2, <6>1 DEF m
                <5>2. \A d \in Sockets : view'[c].heard[d] <= sent[d]
                    BY <1>4, <1>5, <1>7, <1>11, <4>2
                <5> QED BY <1>7, <3>2, <4>1, <5>1, <5>2
            <4>3. CASE m.type # "Relay"
                <5>1. Fresh(Tail(q), view'[c].heard, sent)
                    BY <1>1, <1>3, <1>4, <1>11, <4>3, FreshTail DEF q
                <5> QED BY <1>4, <1>7, <1>11, <3>2, <4>1, <4>3, <5>1
            <4> QED BY <4>2, <4>3
        <3> QED BY <3>1, <3>2
    <2> QED BY <1>1, <2>1 DEF QueuesAreSound
<1>13. PresenceIsTracked'
    <2> SUFFICES ASSUME NEW e \in Sockets, InRoom(e)', ~ channel'[e].dropped
                 PROVE  Foreseen(e)' <=> Others(e)' # {}
        BY DEF PresenceIsTracked
    <2>1. InRoom(e) /\ ~ channel[e].dropped /\ Others(e)' = Others(e)
        BY <1>1, <1>7 DEF InRoom, Others
    <2>2. Foreseen(e) <=> Others(e) # {}
        BY <2>1 DEF IInv, PresenceIsTracked
    <2>3. CASE e # c
        <3>1. Foreseen(e)' <=> Foreseen(e)
            BY <1>1, <1>7, <2>3 DEF Foreseen
        <3> QED BY <2>1, <2>2, <3>1
    <2>4. CASE e = c
        <3>1. view[c].present \in BOOLEAN /\ view'[c].present \in BOOLEAN
            BY <1>2, <1>7 DEF TypeOK, View
        <3>2. (view[c].present \/ announce[c] # {}) = view[c].present
            BY <1>1, <3>1
        <3>3. (view'[c].present \/ announce'[c] # {}) = view'[c].present
            BY <1>1, <3>1
        <3>4. Foreseen(c) <=> Verdict(q, view[c].present)
            BY <3>2 DEF Foreseen, q
        <3>5. Foreseen(c)' <=> Verdict(Tail(q), view'[c].present)
            BY <1>7, <3>3 DEF Foreseen
        <3>6. CASE m.type = "Relay"
            <4>1. view'[c].present = view[c].present
                BY <1>6, <1>7, <3>6
            <4>2. Verdict(Tail(q), view[c].present)
                      <=> Verdict(q, view[c].present)
                BY <1>1, <1>3, <3>1, <3>6, VerdictDeliver DEF q, m
            <4> QED BY <2>1, <2>2, <2>4, <3>4, <3>5, <4>1, <4>2
        <3>7. CASE m.type # "Relay"
            <4>1. view'[c].present = (m.type = "PeerJoined")
                BY <1>6, <1>7, <3>7
            <4>2. Verdict(Tail(q), m.type = "PeerJoined")
                      <=> Verdict(q, view[c].present)
                BY <1>1, <1>3, <3>1, <3>7, VerdictDeliver DEF q, m
            <4> QED BY <2>1, <2>2, <2>4, <3>4, <3>5, <4>1, <4>2
        <3> QED BY <3>6, <3>7
    <2> QED BY <2>3, <2>4
<1>14. LostOnlyByOverrun'
    <2> SUFFICES ASSUME NEW e \in Sockets, NEW d \in Sockets, InRoom(e)',
                        e # d, SessionOf[e] = SessionOf[d],
                        ~ channel'[e].dropped
                 PROVE  Covers(channel'[e].queue, d, view'[e].heard[d],
                               sent'[d])
        BY DEF LostOnlyByOverrun, Covers
    <2>1. InRoom(e) /\ ~ channel[e].dropped
        BY <1>1, <1>7 DEF InRoom
    <2>2. Covers(channel[e].queue, d, view[e].heard[d], sent[d])
        BY <2>1 DEF IInv, LostOnlyByOverrun, Covers
    <2>3. CASE e # c
        BY <1>1, <1>7, <2>2, <2>3
    <2>4. CASE e = c /\ m.type = "Relay" /\ m.from = d
        <3>1. Covers(Tail(q), d, m.number, sent[d])
            BY <1>1, <1>3, <1>5, <1>7, <2>2, <2>4, CoversDeliver DEF q, m
        <3>2. view'[e].heard[d] = m.number
            BY <1>7, <1>11, <2>4
        <3> QED BY <1>1, <1>7, <2>4, <3>1, <3>2
    <2>5. CASE e = c /\ ~ (m.type = "Relay" /\ m.from = d)
        <3>1. Covers(Tail(q), d, view[e].heard[d], sent[d])
            BY <1>1, <1>3, <1>7, <2>2, <2>5, CoversDeliver DEF q, m
        <3>2. view'[e].heard[d] = view[e].heard[d]
            BY <1>5, <1>7, <1>11, <2>5
        <3> QED BY <1>1, <1>7, <2>5, <3>1, <3>2
    <2> QED BY <2>3, <2>4, <2>5
<1>15. NeverBack
    <2> SUFFICES ASSUME NEW e \in Sockets, NEW d \in Sockets
                 PROVE  view'[e].heard[d] >= view[e].heard[d]
        BY DEF NeverBack
    <2>1. CASE e = c /\ m.type = "Relay" /\ m.from = d
        BY <1>5, <1>7, <1>11, <2>1
    <2>2. CASE ~ (e = c /\ m.type = "Relay" /\ m.from = d)
        <3>1. view'[e].heard[d] = view[e].heard[d]
            BY <1>5, <1>7, <1>11, <2>2
        <3> QED BY <1>7, <3>1
    <2> QED BY <2>1, <2>2
<1>16. \A d \in Sockets :
          NextIsOf(c, d) => view'[c].heard[d] > view[c].heard[d]
    <2> SUFFICES ASSUME NEW d \in Sockets, NextIsOf(c, d)
                 PROVE  view'[c].heard[d] > view[c].heard[d]
        OBVIOUS
    <2>1. m.type = "Relay" /\ m.from = d
        BY DEF NextIsOf, m, q
    <2> QED BY <1>5, <1>7, <1>11, <2>1
<1> QED BY <1>8, <1>9, <1>10, <1>12, <1>13, <1>14, <1>15, <1>16 DEF IInv
-----------------------------------------------------------------------------
(* Leaving                                                                 *)

LEMMA DepartInv ==
    ASSUME IInv, NEW c \in Sockets, Depart(c)
    PROVE  IInv'
<1> DEFINE s == SessionOf[c]
           R == Remaining(c)
           m == PeerLeft(PeerOf[c])
<1>1. /\ task[c] \in {"greeting", "serving"}
      /\ room' = [room EXCEPT ![s] = R]
      /\ open' = OpenAfter(s, R)
      /\ channel' = [Posted(R, m) EXCEPT ![c] = NewChannel]
      /\ task' = [task EXCEPT ![c] = "closed"]
      /\ announce' = [announce EXCEPT ![c] = {}]
      /\ UNCHANGED <<client, sent, view>>
    BY DEF Depart
<1>2. TypeOK /\ RoomsMatchTasks /\ RoomsAreSmall /\ TasksStartClean
    BY DEF IInv
<1>3. /\ s \in Sessions
      /\ c \in room[s]
      /\ R = room[s] \ {c}
      /\ R \in SUBSET Sockets
      /\ \A d \in R : /\ SessionOf[d] = s
                      /\ PeerOf[d] # PeerOf[c]
                      /\ task[d] \in {"greeting", "serving"}
    <2>1. InRoom(c) /\ R = Others(c)
        BY <1>1, RoomFacts
    <2>2. \A d \in R : PeerOf[d] # PeerOf[c]
        BY DEF Remaining
    <2> QED BY <2>1, <2>2, RoomFacts DEF InRoom
<1>4. m \in Message /\ m.type = "PeerLeft" /\ m.peer = PeerOf[c]
    BY SignalingAssumption, MessageTypes DEF PeerLeft
<1> HIDE DEF R, m
<1>5. /\ Posted(R, m) \in [Sockets -> Channel]
      /\ NewChannel \in Channel
      /\ channel' \in [Sockets -> Channel]
      /\ channel'[c] = NewChannel
      /\ \A e \in Sockets \ {c} : channel'[e] = Posted(R, m)[e]
    <2>1. Posted(R, m) \in [Sockets -> Channel]
        BY <1>2, <1>4, PostedType
    <2>2. NewChannel \in Channel
        BY DEF NewChannel, Channel
    <2> QED BY <1>1, <2>1, <2>2
<1>6. /\ room' \in [Sessions -> SUBSET Sockets]
      /\ room'[s] = R
      /\ \A t \in Sessions \ {s} : room'[t] = room[t]
      /\ task'[c] = "closed"
      /\ \A e \in Sockets \ {c} : task'[e] = task[e]
      /\ announce'[c] = {}
      /\ \A e \in Sockets \ {c} : announce'[e] = announce[e]
    BY <1>1, <1>2, <1>3 DEF TypeOK
<1>7. TypeOK'
    <2>1. open' \in SUBSET Sessions
        BY <1>1, <1>2 DEF TypeOK, OpenAfter
    <2>2. /\ task' \in [Sockets ->
                           {"connecting", "greeting", "serving", "closed"}]
          /\ announce' \in [Sockets -> SUBSET Peers]
        BY <1>1, <1>2 DEF TypeOK
    <2> QED BY <1>1, <1>2, <1>5, <1>6, <2>1, <2>2 DEF TypeOK
<1>8. RoomsMatchTasks'
    <2>1. ASSUME NEW t \in Sessions, NEW e \in Sockets
          PROVE  e \in room'[t] <=> /\ SessionOf[e] = t
                                    /\ task'[e] \in {"greeting", "serving"}
        <3>1. CASE e = c
            BY <1>2, <1>3, <1>6, <3>1 DEF RoomsMatchTasks
        <3>2. CASE e # c
            <4>1. e \in room'[t] <=> e \in room[t]
                BY <1>3, <1>6, <3>2
            <4> QED BY <1>2, <1>6, <3>2, <4>1 DEF RoomsMatchTasks
        <3> QED BY <3>1, <3>2
    <2>2. \A t \in Sessions : room'[t] \subseteq room[t]
        BY <1>3, <1>6
    <2>3. \A t \in Sessions : \A d, e \in room'[t] :
              PeerOf[d] = PeerOf[e] => d = e
        BY <1>2, <2>2 DEF RoomsMatchTasks
    <2>4. open' = {t \in Sessions : room'[t] # {}}
        <3>1. open = {t \in Sessions : room[t] # {}}
            BY <1>2 DEF RoomsMatchTasks
        <3>2. CASE R = {}
            <4>1. open' = open \ {s}
                BY <1>1, <3>2 DEF OpenAfter
            <4> QED BY <1>6, <3>1, <3>2, <4>1
        <3>3. CASE R # {}
            <4>1. open' = open
                BY <1>1, <3>3 DEF OpenAfter
            <4> QED BY <1>3, <1>6, <3>1, <3>3, <4>1
        <3> QED BY <3>2, <3>3
    <2> QED BY <2>1, <2>3, <2>4 DEF RoomsMatchTasks
<1>9. RoomsAreSmall'
    <2>1. \A t \in Sessions : room'[t] \subseteq room[t]
        BY <1>3, <1>6
    <2>2. \A t \in Sessions : IsFiniteSet(room'[t])
        BY <1>2, <2>1, FS_Subset DEF RoomsAreSmall
    <2> QED BY <1>2, <2>1, <2>2 DEF RoomsAreSmall
<1>10. TasksStartClean'
    <2>1. ASSUME NEW e \in Sockets, task'[e] = "connecting"
          PROVE  channel'[e] = channel[e] /\ task[e] = "connecting"
        <3>1. e # c /\ task[e] = "connecting"
            BY <1>6, <2>1
        <3>2. e \notin R
            BY <1>3, <3>1
        <3> QED BY <1>5, <3>1, <3>2 DEF Posted
    <2> QED BY <1>1, <1>2, <1>6, <2>1 DEF TasksStartClean
<1>11. QueuesAreSound'
    <2>1. ASSUME NEW e \in Sockets
          PROVE  /\ Mine(e, channel'[e].queue)
                 /\ Sorted(channel'[e].queue)
                 /\ Fresh(channel'[e].queue, view[e].heard, sent)
                 /\ \A d \in Sockets : view[e].heard[d] <= sent[d]
        <3>1. CASE e = c
            <4>1. channel'[e].queue = <<>>
                BY <1>5, <3>1 DEF NewChannel
            <4>2. /\ Mine(e, <<>>)
                  /\ Sorted(<<>>)
                  /\ Fresh(<<>>, view[e].heard, sent)
                BY DEF Mine, Sorted, Fresh
            <4> QED BY <4>1, <4>2 DEF IInv, QueuesAreSound
        <3>2. CASE e # c
            <4>1. sent \in [Sockets -> Nat]
                  /\ \A d \in Sockets : sent[d] <= sent[d]
                BY <1>2 DEF TypeOK
            <4>2. \A x \in R : /\ m.type # "Relay"
                               /\ m.peer # PeerOf[x]
                BY <1>3, <1>4
            <4>3. /\ Mine(e, Posted(R, m)[e].queue)
                  /\ Sorted(Posted(R, m)[e].queue)
                  /\ Fresh(Posted(R, m)[e].queue, view[e].heard, sent)
                  /\ \A d \in Sockets : view[e].heard[d] <= sent[d]
                BY ONLY IInv, e \in Sockets, <1>3, <1>4, <4>1, <4>2, PostSound
            <4> QED BY <1>5, <3>2, <4>3
        <3> QED BY <3>1, <3>2
    <2> QED BY <1>1, <2>1 DEF QueuesAreSound
<1>12. ASSUME NEW e \in Sockets, InRoom(e)', ~ channel'[e].dropped
       PROVE  /\ e # c
              /\ InRoom(e)
              /\ ~ channel[e].dropped
              /\ e \in R <=> SessionOf[e] = s
              /\ e \notin R => channel'[e] = channel[e]
              /\ e \in R => channel'[e].queue = Append(channel[e].queue, m)
    <2>1. e \in room'[SessionOf[e]] /\ SessionOf[e] \in Sessions
        BY <1>12, SignalingAssumption DEF InRoom
    <2>2. e # c /\ InRoom(e) /\ (e \in R <=> SessionOf[e] = s)
        BY <1>3, <1>6, <2>1 DEF InRoom
    <2>3. channel'[e] = Posted(R, m)[e]
        BY <1>5, <2>2
    <2>4. ~ Posted(R, m)[e].dropped
        BY <1>12, <2>3
    <2>5. /\ ~ channel[e].dropped
          /\ e \notin R => Posted(R, m)[e] = channel[e]
          /\ e \in R =>
                Posted(R, m)[e].queue = Append(channel[e].queue, m)
        BY ONLY IInv, e \in Sockets, <1>3, <1>4, <2>4, PostLoss
    <2> QED BY <2>2, <2>3, <2>5
<1>13. PresenceIsTracked'
    <2> SUFFICES ASSUME NEW e \in Sockets, InRoom(e)', ~ channel'[e].dropped
                 PROVE  Foreseen(e)' <=> Others(e)' # {}
        BY DEF PresenceIsTracked
    <2>1. view'[e] = view[e] /\ announce'[e] = announce[e]
        BY <1>1, <1>6, <1>12
    <2>2. CASE e \in R
        <3> DEFINE b == view[e].present \/ announce[e] # {}
        <3>1. channel'[e].queue = Append(channel[e].queue, m)
            BY <1>12, <2>2
        <3>2. channel[e].queue \in Seq(Message) /\ b \in BOOLEAN
            BY <1>2 DEF TypeOK, Channel, View
        <3>3. Foreseen(e)' <=> Verdict(channel'[e].queue, b)
            BY <2>1 DEF Foreseen
        <3> HIDE DEF b
        <3>4. ~ Verdict(Append(channel[e].queue, m), b)
            BY <1>4, <3>2, VerdictAppend
        <3>5. Others(e)' = {}
            <4>1. Others(e)' = {d \in R : PeerOf[d] # PeerOf[e]}
                BY <1>3, <1>6, <2>2 DEF Others
            <4>2. \A d \in R : d = e
                BY <1>2, <1>3, <2>2 DEF RoomsAreSmall
            <4> QED BY <4>1, <4>2
        <3> QED BY <3>1, <3>3, <3>4, <3>5
    <2>3. CASE e \notin R
        <3>1. channel'[e] = channel[e] /\ InRoom(e) /\ ~ channel[e].dropped
            BY <1>12, <2>3
        <3>2. Foreseen(e)' <=> Foreseen(e)
            BY <2>1, <3>1 DEF Foreseen
        <3>3. room'[SessionOf[e]] = room[SessionOf[e]]
            BY <1>6, <1>12, <2>3, SignalingAssumption
        <3>4. Others(e)' = Others(e)
            BY <3>3 DEF Others
        <3> QED BY <3>1, <3>2, <3>4 DEF IInv, PresenceIsTracked
    <2> QED BY <2>2, <2>3
<1>14. LostOnlyByOverrun'
    <2> SUFFICES ASSUME NEW e \in Sockets, NEW d \in Sockets, InRoom(e)',
                        e # d, SessionOf[e] = SessionOf[d],
                        ~ channel'[e].dropped
                 PROVE  Covers(channel'[e].queue, d, view'[e].heard[d],
                               sent'[d])
        BY DEF LostOnlyByOverrun, Covers
    <2>1. /\ sent[d] \in Nat
          /\ view[e].heard[d] \in Nat
          /\ channel[e].queue \in Seq(Message)
        BY <1>2 DEF TypeOK, View, Channel
    <2>2. Covers(channel[e].queue, d, view[e].heard[d], sent[d])
        BY <1>12 DEF IInv, LostOnlyByOverrun, Covers
    <2>3. Covers(Append(channel[e].queue, m), d, view[e].heard[d], sent[d])
        BY <1>4, <2>1, <2>2, CoversAppend
    <2>4. \/ channel'[e].queue = channel[e].queue
          \/ channel'[e].queue = Append(channel[e].queue, m)
        BY <1>12
    <2>5. view'[e].heard[d] = view[e].heard[d] /\ sent'[d] = sent[d]
        BY <1>1
    <2> QED BY <2>2, <2>3, <2>4, <2>5
<1> QED BY <1>7, <1>8, <1>9, <1>10, <1>11, <1>13, <1>14 DEF IInv

-----------------------------------------------------------------------------
(* Every step                                                              *)

LEMMA NextInv ==
    ASSUME IInv, [Next]_vars
    PROVE  IInv' /\ InOrder
<1>1. /\ \A e, d \in Sockets : view[e].heard[d] \in Nat
      /\ \A e, d \in Sockets : view[e].heard[d] <= sent[d]
    BY DEF IInv, TypeOK, View, QueuesAreSound
<1>2. ASSUME \A e \in Sockets : view'[e].heard = view[e].heard
      PROVE  NeverBack
    BY <1>1, <1>2 DEF NeverBack
<1>3. ASSUME UNCHANGED vars
      PROVE  IInv' /\ NeverBack
    <2>1. IInv'
        BY <1>3 DEF IInv, TypeOK, RoomsMatchTasks, RoomsAreSmall,
                    TasksStartClean, QueuesAreSound, PresenceIsTracked,
                    Foreseen, InRoom, Others, LostOnlyByOverrun, vars
    <2> QED BY <1>2, <1>3, <2>1 DEF vars
<1>4. ASSUME NEW c \in Sockets, Refuse(c)
      PROVE  IInv' /\ NeverBack
    BY <1>2, <1>4, RefuseInv DEF Refuse
<1>5. ASSUME NEW c \in Sockets, Join(c)
      PROVE  IInv' /\ NeverBack
    <2>1. view' = [view EXCEPT ![c].heard = sent] /\ view \in [Sockets -> View]
        BY <1>5 DEF Join, IInv, TypeOK
    <2>2. \A e \in Sockets : IF e = c THEN view'[e].heard = sent
                                      ELSE view'[e].heard = view[e].heard
        BY <2>1 DEF View
    <2>3. \A d \in Sockets : sent[d] \in Nat
        BY DEF IInv, TypeOK
    <2>4. NeverBack
        BY <1>1, <2>2, <2>3 DEF NeverBack
    <2> QED BY <1>5, <2>4, JoinInv
<1>6. ASSUME NEW c \in Sockets, Greet(c)
      PROVE  IInv' /\ NeverBack
    BY <1>2, <1>6, GreetInv DEF Greet
<1>7. ASSUME NEW c \in Sockets, Announce(c)
      PROVE  IInv' /\ NeverBack
    <2>1. PICK p \in announce[c] :
              view' = [view EXCEPT ![c] = Shown(view[c], c, PeerJoined(p))]
        BY <1>7 DEF Announce
    <2>2. /\ PeerJoined(p) \in Message
          /\ PeerJoined(p).type # "Relay"
          /\ view \in [Sockets -> View]
        BY MessageTypes DEF IInv, TypeOK, PeerJoined
    <2>3. Shown(view[c], c, PeerJoined(p)).heard = view[c].heard
        BY <2>2, ShownType
    <2>4. \A e \in Sockets : view'[e].heard = view[e].heard
        BY <2>1, <2>2, <2>3
    <2> QED BY <1>2, <1>7, <2>4, AnnounceInv
<1>8. ASSUME NEW c \in Sockets, Deliver(c)
      PROVE  IInv' /\ NeverBack
    BY <1>8, DeliverInv
<1>9. ASSUME NEW c \in Sockets, SkipLag(c)
      PROVE  IInv' /\ NeverBack
    BY <1>2, <1>9, SkipLagInv DEF SkipLag
<1>10. ASSUME NEW c \in Sockets, Relay(c)
       PROVE  IInv' /\ NeverBack
    BY <1>2, <1>10, RelayInv DEF Relay
<1>11. ASSUME NEW c \in Sockets, ClientCloses(c)
       PROVE  IInv' /\ NeverBack
    BY <1>2, <1>11, ClientClosesInv DEF ClientCloses
<1>12. ASSUME NEW c \in Sockets, Depart(c)
       PROVE  IInv' /\ NeverBack
    BY <1>2, <1>12, DepartInv DEF Depart
<1>13. IInv' /\ NeverBack
    BY <1>3, <1>4, <1>5, <1>6, <1>7, <1>8, <1>9, <1>10, <1>11, <1>12
    DEF Next, Serve
<1>14. DeliversNewer
    BY DeliverInv DEF DeliversNewer
<1> QED BY <1>13, <1>14 DEF InOrder

-----------------------------------------------------------------------------
(* Theorems                                                                *)

\* Whatever sockets come and go, the service stays in the states that the
\* invariant describes.
THEOREM Invariance == Spec => []IInv
<1>1. IInv /\ [Next]_vars => IInv'
    BY NextInv
<1> QED BY <1>1, InitInv, PTL DEF Spec

\* Rooms, tasks, channels and clients stay well formed.
THEOREM TypeCorrect == Spec => []TypeOK
<1>1. IInv => TypeOK
    BY DEF IInv
<1> QED BY <1>1, Invariance, PTL

\* join_room and remove_peer keep the room map in step with the tasks: one
\* socket per peer id, an entry exactly while its task runs, no empty rooms.
THEOREM RoomsCorrect == Spec => []RoomsMatchTasks
<1>1. IInv => RoomsMatchTasks
    BY DEF IInv
<1> QED BY <1>1, Invariance, PTL

\* What a client was told and will be told about its peer is the truth about
\* its room, in every interleaving of joins, announcements and departures.
THEOREM PresenceCorrect == Spec => []PresenceIsTracked
<1>1. IInv => PresenceIsTracked
    BY DEF IInv
<1> QED BY <1>1, Invariance, PTL

\* A relayed offer, answer or candidate is lost only when a channel overran.
THEOREM LossCorrect == Spec => []LostOnlyByOverrun
<1>1. IInv => LostOnlyByOverrun
    BY DEF IInv
<1> QED BY <1>1, Invariance, PTL

\* relay_message never reaches another session, nor the sender's own id.
THEOREM IsolationCorrect == Spec => []RelaysStayInSession
<1>1. IInv => RelaysStayInSession
    BY DEF IInv, QueuesAreSound, Mine, From, RelaysStayInSession
<1> QED BY <1>1, Invariance, PTL

\* Relays of one client arrive in the order sent and at most once, overruns
\* or not: every relay delivered is newer than those delivered before it.
THEOREM OrderCorrect == Spec => RelaysInOrder
<1>1. IInv /\ [Next]_vars => [InOrder]_vars
    BY NextInv
<1> QED BY <1>1, Invariance, PTL DEF Spec, RelaysInOrder
=============================================================================
