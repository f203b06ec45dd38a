---------------------------- MODULE Replication ----------------------------
(***************************************************************************)
(* echlub-replication: in-memory replicas that ingest operation envelopes. *)
(*                                                                         *)
(* Operations travel on a ReliableUnordered flow (echlub-protocol), and a  *)
(* replica neither buffers nor requests what it could not apply.  The      *)
(* transport is external and appears here as its weakest form: any         *)
(* envelope may reach any replica at any time, early, late, again or       *)
(* never.  What the replicas may disagree about is exactly what ingest     *)
(* has to cope with.                                                       *)
(***************************************************************************)
EXTENDS Collaboration

CONSTANTS
    Replicas,
    Actors,
    OperationIds,
    Envelopes        \* every envelope that is ever sent

Envelope ==
    [id : OperationIds, actor : Actors, seq : Nat, version : Nat,
     op : Operation]

\* Two envelopes with the same operation id are copies of one operation.
ASSUME EnvelopesAssumption ==
    /\ Envelopes \subseteq Envelope
    /\ \A e, f \in Envelopes : e.id = f.id => e = f

VARIABLE replica     \* replica[r] is the Replica struct of r

-----------------------------------------------------------------------------
ReplicaState ==
    [state     : DocumentState,
     seen      : SUBSET OperationIds,
     sequences : [Actors -> Nat],
     decision  : ValidationDecision]

NewReplica ==
    [state     |-> EmptyDocument,
     seen      |-> {},
     sequences |-> [a \in Actors |-> 0],
     decision  |-> "Accepted"]

\* Mutant: the last sequence number ingested instead of the largest.
TrackSequenceLast(sequences, env) == [sequences EXCEPT ![env.actor] = env.seq]

TrackSequence(sequences, env) ==
    IF env.seq > sequences[env.actor]
    THEN [sequences EXCEPT ![env.actor] = env.seq]
    ELSE sequences

\* Mutant: the operation id is recorded before the operation is validated.
IngestedSeenFirst(rep, env) ==
    IF env.id \in rep.seen THEN [rep EXCEPT !.decision = "Duplicate"]
    ELSE IF Validate(rep.state, env) # "Accepted"
    THEN [rep EXCEPT !.decision = Validate(rep.state, env),
                     !.seen = rep.seen \cup {env.id}]
    ELSE [state     |-> Apply(rep.state, env),
          seen      |-> rep.seen \cup {env.id},
          sequences |-> TrackSequence(rep.sequences, env),
          decision  |-> "Accepted"]

\* The replica after rep.ingest(env).
Ingested(rep, env) ==
    IF env.id \in rep.seen THEN [rep EXCEPT !.decision = "Duplicate"]
    ELSE IF Validate(rep.state, env) # "Accepted"
    THEN [rep EXCEPT !.decision = Validate(rep.state, env)]
    ELSE [state     |-> Apply(rep.state, env),
          seen      |-> rep.seen \cup {env.id},
          sequences |-> TrackSequence(rep.sequences, env),
          decision  |-> "Accepted"]

\* rep.sequence_gaps(env) returns a gap from GapStart to env.seq.
GapStart(rep, env) == rep.sequences[env.actor] + 1
SequenceGap(rep, env) == env.seq > GapStart(rep, env)

-----------------------------------------------------------------------------
Init == replica = [r \in Replicas |-> NewReplica]

Ingest(r, env) == replica' = [replica EXCEPT ![r] = Ingested(@, env)]

\* ingest_batch runs to its end before anything else can touch the replica.
\* Batches are bounded to two envelopes, which may be copies of each other.
IngestBatch(r, first, second) ==
    replica' = [replica EXCEPT ![r] = Ingested(Ingested(@, first), second)]

\* A replica built by Replica::replay from a log of two operations takes
\* the place of r; a longer log is this followed by Ingest steps.
Replay(r, first, second) ==
    replica' = [replica EXCEPT
                    ![r] = Ingested(Ingested(NewReplica, first), second)]

Next ==
    \E r \in Replicas :
        \/ \E env \in Envelopes : Ingest(r, env)
        \/ \E first, second \in Envelopes :
              \/ IngestBatch(r, first, second)
              \/ Replay(r, first, second)

Spec == Init /\ [][Next]_replica

-----------------------------------------------------------------------------
(* Properties                                                              *)

Accepted(rep) == {e \in Envelopes : e.id \in rep.seen}

Ledger == INSTANCE OperationLedger
              WITH ledger <- [r \in Replicas |-> Accepted(replica[r])]

NotesAddedOnce(S) == \A n \in NoteIds : Ledger!AddedOnce(S, n)

TypeOK == replica \in [Replicas -> ReplicaState]

(***************************************************************************)
(* The document is determined by the operations accepted, whatever their   *)
(* order was.  Tracks are exactly those created.  A note whose id is added *)
(* once is where that operation put it, carries the start of the last link *)
(* of its chain of moves, and is gone exactly if it was deleted.           *)
(***************************************************************************)
TracksFollow(doc, S) ==
    \A t \in TrackIds :
        /\ doc.name[t] = Absent <=> Ledger!TrackCreations(S, t) = {}
        /\ \A e \in Ledger!TrackCreations(S, t) : doc.name[t] = e.op.name

NotePlaced(doc, S, n) ==
    \A t \in TrackIds :
        doc.note[t][n] # Absent <=>
            /\ Ledger!Deletions(S, n) = {}
            /\ \E a \in Ledger!NoteAdditions(S, n) : a.op.track = t

NoteValued(note, S, n) ==
    /\ note.revision >= 1
    /\ \A a \in Ledger!NoteAdditions(S, n) :
          /\ note.body = a.op.body
          /\ note.revision = 1 => note.start = a.op.start
    /\ \A m \in Ledger!Moves(S, n) :
          /\ m.op.expected < note.revision
          /\ m.op.expected + 1 = note.revision => note.start = m.op.start
    /\ note.revision > 1 =>
          \E m \in Ledger!Moves(S, n) : m.op.expected + 1 = note.revision

NoteFollows(doc, S, n) ==
    /\ NotePlaced(doc, S, n)
    /\ \A t \in TracksHolding(doc, n) : NoteValued(doc.note[t][n], S, n)

\* Every replica's document is the one its accepted operations call for:
\* validation (validate.rs) lets nothing in that apply.rs would order badly.
DocumentFollowsLedger ==
    \A r \in Replicas :
        LET doc == replica[r].state
            S   == Accepted(replica[r])
        IN  /\ TracksFollow(doc, S)
            /\ \A n \in NoteIds :
                  Ledger!AddedOnce(S, n) => NoteFollows(doc, S, n)

\* Two replicas that accepted the same operations, in whatever orders, hold
\* the same document and so report the same checkpoint, unless a note id was
\* added twice.
Converged ==
    \A r, s \in Replicas :
        /\ Accepted(replica[r]) = Accepted(replica[s])
        /\ NotesAddedOnce(Accepted(replica[r]))
        => replica[r].state = replica[s].state

\* No two edits accepted by a replica were made against the same revision of
\* a note: of rival moves and deletes one wins and the rest are refused, at
\* every replica and in every delivery order (protocol-lab's "silent winner
\* selected for concurrent moves" check).
OneEditPerRevision ==
    \A r \in Replicas : \A e, f \in Accepted(replica[r]) :
        /\ {e.op.type, f.op.type} \subseteq EditTypes
        /\ e.op.note = f.op.note
        /\ e.op.expected = f.op.expected
        /\ Ledger!AddedOnce(Accepted(replica[r]), e.op.note)
        => e = f

\* sequence_gaps gives no false alarm: when it reports a gap, the first
\* sequence number it calls missing has not been accepted, although
\* operations of one actor arrive in any order and refused ones leave holes.
GapsAreReal ==
    \A r \in Replicas : \A env \in Envelopes :
        SequenceGap(replica[r], env) =>
            \A e \in Accepted(replica[r]) :
                e.actor = env.actor => e.seq # GapStart(replica[r], env)

\* Two operations that classify() lets pass without coordination, that do
\* not touch the same note and that a document accepts, can be applied in
\* either order: each is still accepted after the other, and the resulting
\* documents, revision included, are equal.
FreeOrderIsSafe ==
    \A r \in Replicas : \A e, f \in Envelopes :
        LET doc == replica[r].state
        IN  /\ e # f
            /\ FreelyOrdered(e.op, f.op)
            /\ ~ ("note" \in DOMAIN e.op /\ "note" \in DOMAIN f.op
                    /\ e.op.note = f.op.note)
            /\ Validate(doc, e) = "Accepted"
            /\ Validate(doc, f) = "Accepted"
            => /\ Validate(Apply(doc, e), f) = "Accepted"
               /\ Apply(Apply(doc, e), f) = Apply(Apply(doc, f), e)

\* The replicas implement the abstract ledger: what each accepted grows only
\* by admissible operations.
ImplementsLedger == Ledger!Spec
=============================================================================
