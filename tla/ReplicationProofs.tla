------------------------- MODULE ReplicationProofs -------------------------
(***************************************************************************)
(* Proofs about Replication for any number of replicas and any set of      *)
(* envelopes.                                                              *)
(***************************************************************************)
EXTENDS Replication, TLAPS, WellFoundedInduction

-----------------------------------------------------------------------------
(* The kernel                                                              *)

\* A non-empty set of track ids has a first element, the one find_note takes.
LEMMA LeastTrack ==
    ASSUME NEW T \in SUBSET Nat, T # {}
    PROVE  \E t \in T : \A u \in T : t <= u
<1>1. PICK t \in T : \A u \in T : ~ (<<u, t>> \in OpToRel(<, Nat))
    BY WFMin, NatLessThanWellFounded
<1>2. \A u \in T : ~ (u < t)
    BY <1>1 DEF OpToRel
<1> QED BY <1>2

\* A set of naturals that is bounded and not empty has a largest element.
LEMMA GreatestOfBounded ==
    ASSUME NEW S \in SUBSET Nat, S # {}, NEW B \in Nat, \A k \in S : k <= B
    PROVE  \E m \in S : \A k \in S : k <= m
<1> DEFINE U == {u \in Nat : \A k \in S : k <= u}
<1>1. PICK m \in U : \A u \in U : m <= u
    BY LeastTrack
<1>2. ASSUME m \notin S PROVE FALSE
    <2>1. PICK k \in S : TRUE
        OBVIOUS
    <2>2. \A j \in S : j < m
        BY <1>2
    <2>3. m - 1 \in U
        BY <2>1, <2>2
    <2> QED BY <1>1, <2>3
<1> QED BY <1>1, <1>2

\* find_note returns a note whenever some track holds the id.
LEMMA FirstTrackHolds ==
    ASSUME NEW doc, NEW n, TracksHolding(doc, n) # {}
    PROVE  FirstTrack(doc, n) \in TracksHolding(doc, n)
<1>1. TracksHolding(doc, n) \in SUBSET Nat
    BY DocumentAssumption DEF TracksHolding
<1>2. \E t \in TracksHolding(doc, n) : \A u \in TracksHolding(doc, n) : t <= u
    BY <1>1, LeastTrack
<1> QED BY <1>2 DEF FirstTrack

\* No note of doc has a revision above B.
RevisionsBounded(doc, B) == \A k \in NoteRevisions(doc) : k <= B

NoteTable == [TrackIds -> [NoteIds -> MidiNote \cup {Absent}]]

LEMMA NoteRevisionsType ==
    ASSUME NEW doc, doc.note \in NoteTable
    PROVE  NoteRevisions(doc) \in SUBSET Nat
BY DEF NoteRevisions, Present, NoteTable, MidiNote

\* The document revision that apply computes is a natural number and the
\* largest revision of a note.
LEMMA SyncedRevisionMaximal ==
    ASSUME NEW doc, doc.note \in NoteTable,
           NEW B \in Nat, RevisionsBounded(doc, B)
    PROVE  /\ SyncedRevision(doc) \in Nat
           /\ RevisionsBounded(doc, SyncedRevision(doc))
<1>1. NoteRevisions(doc) \in SUBSET Nat
    BY NoteRevisionsType
<1>2. CASE NoteRevisions(doc) = {}
    BY <1>2 DEF SyncedRevision, RevisionsBounded
<1>3. CASE NoteRevisions(doc) # {}
    <2>1. \E m \in NoteRevisions(doc) : \A k \in NoteRevisions(doc) : k <= m
        BY <1>1, <1>3, GreatestOfBounded DEF RevisionsBounded
    <2> QED BY <1>1, <1>3, <2>1 DEF SyncedRevision, RevisionsBounded
<1> QED BY <1>2, <1>3

-----------------------------------------------------------------------------
(* The invariant of one replica                                            *)

\* Notes sit on tracks that exist.
NotesOnTracks(doc) ==
    \A t \in TrackIds : \A n \in NoteIds :
        doc.note[t][n] # Absent => doc.name[t] # Absent

\* The document revision is up to date and bounds every note's revision.
RevisionSynced(doc) ==
    /\ doc.revision = SyncedRevision(doc)
    /\ RevisionsBounded(doc, doc.revision)

\* Every note was added by an accepted operation, every edit was accepted
\* after an operation that added its note.
NotesAdded(doc, S) ==
    \A t \in TrackIds : \A n \in NoteIds :
        doc.note[t][n] # Absent =>
            \E e \in Ledger!NoteAdditions(S, n) : e.op.track = t

EditsHaveNote(S) ==
    \A e \in S : e.op.type \in EditTypes =>
        Ledger!NoteAdditions(S, e.op.note) # {}

\* One accepted edit per revision of a note that is added once.
EditsDistinct(S, n) ==
    \A e, f \in Ledger!Moves(S, n) \cup Ledger!Deletions(S, n) :
        e.op.expected = f.op.expected => e = f

SequencesFollow(sequences, S) ==
    \A a \in Actors :
        /\ \A e \in S : e.actor = a => e.seq <= sequences[a]
        /\ sequences[a] > 0 =>
              \E e \in S : e.actor = a /\ e.seq = sequences[a]

DocInv(doc, S) ==
    /\ doc \in DocumentState
    /\ NotesOnTracks(doc)
    /\ RevisionSynced(doc)
    /\ TracksFollow(doc, S)
    /\ NotesAdded(doc, S)
    /\ EditsHaveNote(S)
    /\ \A n \in NoteIds :
          Ledger!AddedOnce(S, n) => NoteFollows(doc, S, n) /\ EditsDistinct(S, n)

ReplicaInv(rep) ==
    /\ rep \in ReplicaState
    /\ DocInv(rep.state, Accepted(rep))
    /\ SequencesFollow(rep.sequences, Accepted(rep))

IInv ==
    /\ replica \in [Replicas -> ReplicaState]
    /\ \A r \in Replicas : ReplicaInv(replica[r])

-----------------------------------------------------------------------------
(* What an accepted operation does to the document                         *)

LEMMA OperationTypes ==
    ASSUME NEW op \in Operation
    PROVE  \/ op.type = "AddTrack"   /\ op \in AddTrackOp
           \/ op.type = "AddNote"    /\ op \in AddNoteOp
           \/ op.type = "MoveNote"   /\ op \in MoveNoteOp
           \/ op.type = "DeleteNote" /\ op \in DeleteNoteOp
BY DEF Operation, AddTrackOp, AddNoteOp, MoveNoteOp, DeleteNoteOp

LEMMA NoteNotAbsent == \A note \in MidiNote : note # Absent
BY DocumentAssumption DEF MidiNote

\* Changing one note changes nothing else.
LEMMA PutNoteEffect ==
    ASSUME NEW doc \in DocumentState, NEW t \in TrackIds, NEW n \in NoteIds,
           NEW note \in MidiNote \cup {Absent}
    PROVE  LET new == PutNote(doc, t, n, note)
           IN  /\ new \in DocumentState
               /\ new.revision = doc.revision
               /\ new.name = doc.name
               /\ new.note[t][n] = note
               /\ \A u \in TrackIds : \A m \in NoteIds :
                     u # t \/ m # n => new.note[u][m] = doc.note[u][m]
BY DEF PutNote, DocumentState

\* Adding a track names it and leaves it without notes.
LEMMA AddTrackEffect ==
    ASSUME NEW doc \in DocumentState, NEW op \in AddTrackOp
    PROVE  LET new == ApplyAddTrack(doc, op)
           IN  /\ new \in DocumentState
               /\ new.revision = doc.revision
               /\ new.name[op.track] = op.name
               /\ \A u \in TrackIds :
                     u # op.track => new.name[u] = doc.name[u]
               /\ \A u \in TrackIds : \A m \in NoteIds :
                     new.note[u][m] = IF u = op.track THEN Absent
                                                      ELSE doc.note[u][m]
<1> DEFINE name == [doc.name EXCEPT ![op.track] = op.name]
           note == [doc.note EXCEPT ![op.track] = [n \in NoteIds |-> Absent]]
<1>1. ApplyAddTrack(doc, op) =
          [revision |-> doc.revision, name |-> name, note |-> note]
    BY DEF ApplyAddTrack, DocumentState
<1>2. op.track \in TrackIds /\ op.name \in Names
    BY DEF AddTrackOp
<1>3. name \in [TrackIds -> Names \cup {Absent}]
    BY <1>2 DEF DocumentState
<1>4. note \in [TrackIds -> [NoteIds -> MidiNote \cup {Absent}]]
    BY <1>2 DEF DocumentState
<1> QED BY <1>1, <1>2, <1>3, <1>4 DEF DocumentState

\* The rows of the note table, cell by cell.
LEMMA BoundedByCells ==
    ASSUME NEW doc, NEW B,
           \A u \in TrackIds : \A m \in NoteIds :
               doc.note[u][m] # Absent => doc.note[u][m].revision <= B
    PROVE  RevisionsBounded(doc, B)
BY DEF RevisionsBounded, NoteRevisions, Present

LEMMA CellsBounded ==
    ASSUME NEW doc, NEW B, RevisionsBounded(doc, B),
           NEW u \in TrackIds, NEW m \in NoteIds, doc.note[u][m] # Absent
    PROVE  doc.note[u][m].revision <= B
<1>1. <<u, m>> \in Present(doc)
    BY DEF Present
<1> QED BY <1>1 DEF RevisionsBounded, NoteRevisions

LEMMA PutNoteBounded ==
    ASSUME NEW doc \in DocumentState, RevisionsBounded(doc, doc.revision),
           NEW t \in TrackIds, NEW n \in NoteIds,
           NEW note \in MidiNote \cup {Absent},
           note # Absent => note.revision <= doc.revision + 1
    PROVE  RevisionsBounded(PutNote(doc, t, n, note), doc.revision + 1)
<1> DEFINE new == PutNote(doc, t, n, note)
<1> SUFFICES ASSUME NEW u \in TrackIds, NEW m \in NoteIds,
                    new.note[u][m] # Absent
             PROVE  new.note[u][m].revision <= doc.revision + 1
    BY BoundedByCells
<1>1. CASE u = t /\ m = n
    BY <1>1, PutNoteEffect
<1>2. CASE u # t \/ m # n
    <2>1. new.note[u][m] = doc.note[u][m]
        BY <1>2, PutNoteEffect
    <2>2. doc.note[u][m].revision <= doc.revision
        BY <2>1, CellsBounded
    <2>3. doc.note[u][m] \in MidiNote /\ doc.revision \in Nat
        BY <2>1 DEF DocumentState
    <2> QED BY <2>1, <2>2, <2>3 DEF MidiNote
<1> QED BY <1>1, <1>2

\* Each operation edits one field or one note and leaves a well-typed document
\* whose revisions grow by at most one.
LEMMA EditedType ==
    ASSUME NEW doc \in DocumentState, RevisionsBounded(doc, doc.revision),
           NEW env \in Envelope, Validate(doc, env) = "Accepted"
    PROVE  /\ Edited(doc, env.op) \in DocumentState
           /\ RevisionsBounded(Edited(doc, env.op), doc.revision + 1)
<1> DEFINE op == env.op
<1>1. op \in Operation
    BY DEF Envelope
<1>2. CASE op \in AddTrackOp /\ op.type = "AddTrack"
    <2>1. Edited(doc, op) = ApplyAddTrack(doc, op)
        BY <1>2 DEF Edited
    <2> DEFINE new == Edited(doc, op)
    <2>2. SUFFICES ASSUME NEW u \in TrackIds, NEW m \in NoteIds,
                          new.note[u][m] # Absent
                   PROVE  new.note[u][m].revision <= doc.revision + 1
        BY <1>2, <2>1, AddTrackEffect, BoundedByCells
    <2>3. new.note[u][m] = doc.note[u][m]
        BY <1>2, <2>1, <2>2, AddTrackEffect
    <2>4. doc.note[u][m].revision <= doc.revision
        BY <2>2, <2>3, CellsBounded
    <2>5. doc.note[u][m] \in MidiNote /\ doc.revision \in Nat
        BY <2>2, <2>3 DEF DocumentState
    <2> QED BY <2>3, <2>4, <2>5 DEF MidiNote
<1>3. CASE op \in AddNoteOp /\ op.type = "AddNote"
    <2> DEFINE note == [start |-> op.start, body |-> op.body, revision |-> 1]
    <2>1. Edited(doc, op) = PutNote(doc, op.track, op.note, note)
        BY <1>3 DEF Edited, ApplyAddNote
    <2>2. /\ note \in MidiNote
          /\ op.track \in TrackIds /\ op.note \in NoteIds
        BY <1>3 DEF AddNoteOp, MidiNote
    <2>3. note.revision <= doc.revision + 1
        BY DEF DocumentState
    <2> QED BY <2>1, <2>2, <2>3, PutNoteEffect, PutNoteBounded
<1>4. CASE op.type \in EditTypes /\ op \in MoveNoteOp \cup DeleteNoteOp
    <2> DEFINE t == FirstTrack(doc, op.note)
    <2>1. op.note \in NoteIds
        BY <1>4 DEF MoveNoteOp, DeleteNoteOp
    <2>2. TracksHolding(doc, op.note) # {}
        BY <1>4 DEF Validate, ValidateEdit, EditTypes
    <2>3. t \in TrackIds /\ doc.note[t][op.note] \in MidiNote
        BY <2>1, <2>2, FirstTrackHolds DEF TracksHolding, DocumentState
    <2>4. doc.note[t][op.note].revision <= doc.revision
        BY <2>1, <2>3, CellsBounded, NoteNotAbsent
    <2>5. CASE op.type = "MoveNote"
        <3> DEFINE old  == doc.note[t][op.note]
                   note == [start |-> op.start, body |-> old.body,
                            revision |-> old.revision + 1]
        <3>1. Edited(doc, op) = PutNote(doc, t, op.note, note)
            BY <2>5 DEF Edited, ApplyMoveNote
        <3>2. op.start \in Starts
            BY <1>4, <2>5 DEF MoveNoteOp, DeleteNoteOp
        <3>3. note \in MidiNote
            BY <2>3, <3>2 DEF MidiNote
        <3>4. note.revision <= doc.revision + 1
            BY <2>3, <2>4 DEF MidiNote, DocumentState
        <3> QED BY <2>1, <2>3, <3>1, <3>3, <3>4, PutNoteEffect, PutNoteBounded
    <2>6. CASE op.type = "DeleteNote"
        <3>1. Edited(doc, op) = PutNote(doc, t, op.note, Absent)
            BY <2>6 DEF Edited, ApplyDeleteNote
        <3> QED BY <2>1, <2>3, <3>1, PutNoteEffect, PutNoteBounded
    <2> QED BY <1>4, <2>5, <2>6 DEF EditTypes
<1> QED BY <1>1, <1>2, <1>3, <1>4, OperationTypes DEF EditTypes

\* apply brings the document revision up to date and touches nothing else.
LEMMA WrittenEffect ==
    ASSUME NEW doc \in DocumentState, RevisionsBounded(doc, doc.revision),
           NEW env \in Envelope, Validate(doc, env) = "Accepted"
    PROVE  /\ Written(doc, env.op) \in DocumentState
           /\ RevisionSynced(Written(doc, env.op))
           /\ Written(doc, env.op).name = Edited(doc, env.op).name
           /\ Written(doc, env.op).note = Edited(doc, env.op).note
<1> DEFINE ed  == Edited(doc, env.op)
           new == Written(doc, env.op)
<1>1. ed \in DocumentState /\ RevisionsBounded(ed, doc.revision + 1)
    BY EditedType
<1>2. ed.note \in NoteTable /\ doc.revision + 1 \in Nat
    BY <1>1 DEF DocumentState, NoteTable
<1>3. SyncedRevision(ed) \in Nat /\ RevisionsBounded(ed, SyncedRevision(ed))
    BY <1>1, <1>2, SyncedRevisionMaximal
<1>4. new = [ed EXCEPT !.revision = SyncedRevision(ed)]
    BY DEF Written
<1> HIDE DEF ed, new
<1>5. /\ new.revision = SyncedRevision(ed)
      /\ new.name = ed.name
      /\ new.note = ed.note
      /\ new \in DocumentState
    BY <1>1, <1>3, <1>4 DEF DocumentState
<1>6. NoteRevisions(new) = NoteRevisions(ed)
    BY <1>5 DEF NoteRevisions, Present
<1>7. SyncedRevision(new) = SyncedRevision(ed)
    BY <1>6 DEF SyncedRevision
<1> QED BY <1>3, <1>5, <1>6, <1>7 DEF RevisionSynced, RevisionsBounded, ed, new

-----------------------------------------------------------------------------
(* An accepted operation preserves DocInv                                  *)

\* What the ledger knows of note n is the same in S and T.
SameNoteHistory(S, T, n) ==
    /\ Ledger!NoteAdditions(S, n) = Ledger!NoteAdditions(T, n)
    /\ Ledger!Moves(S, n) = Ledger!Moves(T, n)
    /\ Ledger!Deletions(S, n) = Ledger!Deletions(T, n)

LEMMA UntouchedNote ==
    ASSUME NEW doc, NEW new, NEW S, NEW T, NEW n \in NoteIds,
           SameNoteHistory(S, T, n),
           \A t \in TrackIds : new.note[t][n] = doc.note[t][n],
           Ledger!AddedOnce(S, n) =>
               NoteFollows(doc, S, n) /\ EditsDistinct(S, n)
    PROVE  Ledger!AddedOnce(T, n) =>
               NoteFollows(new, T, n) /\ EditsDistinct(T, n)
BY DEF SameNoteHistory, Ledger!AddedOnce, NoteFollows, NotePlaced, NoteValued,
       EditsDistinct, TracksHolding

\* An operation enters the history of its own note or track only.
LEMMA HistoryOf ==
    ASSUME NEW S, NEW e, NEW T, T = S \cup {e}
    PROVE  /\ \A n : e.op.type = "AddTrack" \/ e.op.note # n =>
                 SameNoteHistory(S, T, n)
           /\ \A t : e.op.type # "AddTrack" \/ e.op.track # t =>
                 Ledger!TrackCreations(T, t) = Ledger!TrackCreations(S, t)
           /\ \A n : e.op.type # "AddNote" =>
                 Ledger!NoteAdditions(T, n) = Ledger!NoteAdditions(S, n)
           /\ \A n : e.op.type # "MoveNote" =>
                 Ledger!Moves(T, n) = Ledger!Moves(S, n)
           /\ \A n : e.op.type # "DeleteNote" =>
                 Ledger!Deletions(T, n) = Ledger!Deletions(S, n)
BY DEF SameNoteHistory, Ledger!NoteAdditions, Ledger!Moves, Ledger!Deletions,
       Ledger!TrackCreations

\* An operation that lets no note appear keeps every note accounted for.
LEMMA NoNoteAppears ==
    ASSUME NEW doc, NEW new, NEW S, NEW T, NotesAdded(doc, S),
           \A n : Ledger!NoteAdditions(T, n) = Ledger!NoteAdditions(S, n),
           \A u \in TrackIds : \A m \in NoteIds :
               new.note[u][m] # Absent => doc.note[u][m] # Absent
    PROVE  NotesAdded(new, T)
<1> SUFFICES ASSUME NEW u \in TrackIds, NEW m \in NoteIds,
                    new.note[u][m] # Absent
             PROVE  \E f \in Ledger!NoteAdditions(T, m) : f.op.track = u
    BY DEF NotesAdded
<1>1. \E f \in Ledger!NoteAdditions(S, m) : f.op.track = u
    BY DEF NotesAdded
<1> QED BY <1>1

LEMMA AddTrackPreserves ==
    ASSUME NEW doc, NEW S \in SUBSET Envelopes, DocInv(doc, S),
           NEW e \in Envelopes, e \notin S,
           Validate(doc, e) = "Accepted", e.op.type = "AddTrack"
    PROVE  DocInv(Written(doc, e.op), S \cup {e})
<1> DEFINE T   == S \cup {e}
           new == Written(doc, e.op)
           t   == e.op.track
<1>1. /\ e \in Envelope /\ e.op \in AddTrackOp
      /\ t \in TrackIds /\ e.op.name \in Names
    BY EnvelopesAssumption, OperationTypes DEF Envelope, AddTrackOp
<1>2. doc \in DocumentState /\ RevisionsBounded(doc, doc.revision)
    BY DEF DocInv, RevisionSynced
<1>3. doc.name[t] = Absent
    BY DEF Validate, ValidateAddTrack
<1>4. new \in DocumentState /\ RevisionSynced(new)
    BY <1>1, <1>2, WrittenEffect
<1>5. new.name = ApplyAddTrack(doc, e.op).name
      /\ new.note = ApplyAddTrack(doc, e.op).note
    BY <1>1, <1>2, WrittenEffect DEF Edited
<1>0. /\ \A n : SameNoteHistory(S, T, n)
      /\ \A u : u # t =>
            Ledger!TrackCreations(T, u) = Ledger!TrackCreations(S, u)
      /\ \A n : Ledger!NoteAdditions(T, n) = Ledger!NoteAdditions(S, n)
    BY HistoryOf
<1>6. /\ new.name[t] = e.op.name
      /\ \A u \in TrackIds : u # t => new.name[u] = doc.name[u]
      /\ \A u \in TrackIds : \A m \in NoteIds : new.note[u][m] = doc.note[u][m]
    <2>1. \A m \in NoteIds : doc.note[t][m] = Absent
        BY <1>1, <1>3 DEF DocInv, NotesOnTracks
    <2> QED BY <1>1, <1>2, <1>5, <2>1, AddTrackEffect
<1> HIDE DEF new
<1>7. NotesOnTracks(new)
    BY <1>1, <1>3, <1>6, DocumentAssumption DEF DocInv, NotesOnTracks
<1>8. TracksFollow(new, T)
    <2> SUFFICES ASSUME NEW u \in TrackIds
                 PROVE  /\ new.name[u] = Absent <=>
                              Ledger!TrackCreations(T, u) = {}
                        /\ \A f \in Ledger!TrackCreations(T, u) :
                              new.name[u] = f.op.name
        BY DEF TracksFollow
    <2>1. CASE u = t
        <3>1. Ledger!TrackCreations(S, t) = {}
            BY <1>1, <1>3 DEF DocInv, TracksFollow
        <3>2. Ledger!TrackCreations(T, t) = {e}
            BY <3>1 DEF Ledger!TrackCreations
        <3> QED BY <1>1, <1>6, <2>1, <3>2, DocumentAssumption
    <2>2. CASE u # t
        BY <1>0, <1>6, <2>2 DEF DocInv, TracksFollow
    <2> QED BY <2>1, <2>2
<1>9. NotesAdded(new, T) /\ EditsHaveNote(T)
    <2>1. NotesAdded(new, T)
        <3>1. NotesAdded(doc, S)
            BY DEF DocInv
        <3>2. \A u \in TrackIds : \A m \in NoteIds :
                  new.note[u][m] # Absent => doc.note[u][m] # Absent
            BY <1>6
        <3>3. \A n : Ledger!NoteAdditions(T, n) = Ledger!NoteAdditions(S, n)
            BY <1>0
        <3> HIDE DEF T
        <3> QED BY <3>1, <3>2, <3>3, NoNoteAppears
    <2>2. EditsHaveNote(T)
        BY <1>0 DEF DocInv, EditsHaveNote, EditTypes
    <2> QED BY <2>1, <2>2
<1>10. ASSUME NEW n \in NoteIds
       PROVE  Ledger!AddedOnce(T, n) =>
                  NoteFollows(new, T, n) /\ EditsDistinct(T, n)
    <2>1. \A u \in TrackIds : new.note[u][n] = doc.note[u][n]
        BY <1>6
    <2>2. SameNoteHistory(S, T, n)
        BY <1>0
    <2>3. Ledger!AddedOnce(S, n) =>
              NoteFollows(doc, S, n) /\ EditsDistinct(S, n)
        BY DEF DocInv
    <2> QED BY <2>1, <2>2, <2>3, UntouchedNote, Zenon
<1> QED BY <1>4, <1>7, <1>8, <1>9, <1>10 DEF DocInv, new

LEMMA AddNotePreserves ==
    ASSUME NEW doc, NEW S \in SUBSET Envelopes, DocInv(doc, S),
           NEW e \in Envelopes, e \notin S,
           Validate(doc, e) = "Accepted", e.op.type = "AddNote"
    PROVE  DocInv(Written(doc, e.op), S \cup {e})
<1> DEFINE T    == S \cup {e}
           new  == Written(doc, e.op)
           t    == e.op.track
           n    == e.op.note
           note == [start |-> e.op.start, body |-> e.op.body, revision |-> 1]
<1>1. /\ e \in Envelope /\ e.op \in AddNoteOp
      /\ t \in TrackIds /\ n \in NoteIds /\ note \in MidiNote
    BY EnvelopesAssumption, OperationTypes DEF Envelope, AddNoteOp, MidiNote
<1>2. doc \in DocumentState /\ RevisionsBounded(doc, doc.revision)
    BY DEF DocInv, RevisionSynced
<1>3. doc.name[t] # Absent /\ doc.note[t][n] = Absent
    BY DEF Validate, ValidateAddNote
<1>4. new \in DocumentState /\ RevisionSynced(new)
    BY <1>1, <1>2, WrittenEffect
<1>5. /\ new.name = PutNote(doc, t, n, note).name
      /\ new.note = PutNote(doc, t, n, note).note
    BY <1>1, <1>2, WrittenEffect DEF Edited, ApplyAddNote
<1>6. /\ new.name = doc.name
      /\ new.note[t][n] = note
      /\ \A u \in TrackIds : \A m \in NoteIds :
            u # t \/ m # n => new.note[u][m] = doc.note[u][m]
    BY <1>1, <1>2, <1>5, PutNoteEffect
<1>7. /\ \A m : m # n => SameNoteHistory(S, T, m)
      /\ \A u : Ledger!TrackCreations(T, u) = Ledger!TrackCreations(S, u)
      /\ \A m : Ledger!Moves(T, m) = Ledger!Moves(S, m)
      /\ \A m : Ledger!Deletions(T, m) = Ledger!Deletions(S, m)
    BY HistoryOf
<1>8. /\ \A m : m # n =>
            Ledger!NoteAdditions(T, m) = Ledger!NoteAdditions(S, m)
      /\ Ledger!NoteAdditions(T, n) = Ledger!NoteAdditions(S, n) \cup {e}
    BY <1>7 DEF SameNoteHistory, Ledger!NoteAdditions
<1>9. S \subseteq T /\ \A f \in T : f # e => f \in S
    OBVIOUS
<1> HIDE DEF new, T
<1>10. NotesOnTracks(new)
    BY <1>3, <1>6 DEF DocInv, NotesOnTracks
<1>11. TracksFollow(new, T)
    BY <1>6, <1>7 DEF DocInv, TracksFollow
<1>12. NotesAdded(new, T)
    <2> SUFFICES ASSUME NEW u \in TrackIds, NEW m \in NoteIds,
                        new.note[u][m] # Absent
                 PROVE  \E f \in Ledger!NoteAdditions(T, m) : f.op.track = u
        BY DEF NotesAdded
    <2>1. CASE u = t /\ m = n
        BY <1>8, <2>1
    <2>2. CASE u # t \/ m # n
        <3>1. \E f \in Ledger!NoteAdditions(S, m) : f.op.track = u
            BY <1>6, <2>2 DEF DocInv, NotesAdded
        <3> QED BY <1>8, <3>1
    <2> QED BY <2>1, <2>2
<1>13. EditsHaveNote(T)
    <2> SUFFICES ASSUME NEW f \in T, f.op.type \in EditTypes
                 PROVE  Ledger!NoteAdditions(T, f.op.note) # {}
        BY DEF EditsHaveNote
    <2>1. f \in S
        BY <1>9 DEF EditTypes
    <2>2. Ledger!NoteAdditions(S, f.op.note) # {}
        BY <2>1 DEF DocInv, EditsHaveNote
    <2> QED BY <1>8, <2>2
<1>14. ASSUME NEW m \in NoteIds, Ledger!AddedOnce(T, m)
       PROVE  NoteFollows(new, T, m) /\ EditsDistinct(T, m)
    <2>1. CASE m # n
        <3>1. \A u \in TrackIds : new.note[u][m] = doc.note[u][m]
            BY <1>6, <2>1
        <3>2. SameNoteHistory(S, T, m)
            BY <1>7, <2>1
        <3>3. Ledger!AddedOnce(S, m) =>
                  NoteFollows(doc, S, m) /\ EditsDistinct(S, m)
            BY DEF DocInv
        <3> QED BY <1>14, <3>1, <3>2, <3>3, UntouchedNote
    <2>2. CASE m = n
        <3>1. Ledger!NoteAdditions(S, n) = {}
            <4>1. \A f \in Ledger!NoteAdditions(S, n) : f = e
                BY <1>8, <1>14, <2>2 DEF Ledger!AddedOnce
            <4>2. e \notin Ledger!NoteAdditions(S, n)
                BY DEF Ledger!NoteAdditions
            <4> QED BY <4>1, <4>2
        <3>2. Ledger!Moves(T, n) = {} /\ Ledger!Deletions(T, n) = {}
            BY <1>7, <3>1
            DEF DocInv, EditsHaveNote, EditTypes, Ledger!Moves, Ledger!Deletions
        <3>3. \A u \in TrackIds : doc.note[u][n] = Absent
            BY <1>1, <3>1 DEF DocInv, NotesAdded
        <3>4. Ledger!NoteAdditions(T, n) = {e}
            BY <1>8, <3>1
        <3>5. \A u \in TrackIds : new.note[u][n] # Absent <=> u = t
            BY <1>1, <1>6, <3>3, NoteNotAbsent
        <3>6. NotePlaced(new, T, n)
            BY <3>2, <3>4, <3>5 DEF NotePlaced
        <3>7. NoteValued(new.note[t][n], T, n)
            BY <1>6, <3>2, <3>4 DEF NoteValued
        <3>8. \A u \in TracksHolding(new, n) : u = t
            BY <3>5 DEF TracksHolding
        <3>9. EditsDistinct(T, n)
            BY <3>2 DEF EditsDistinct
        <3> QED BY <2>2, <3>6, <3>7, <3>8, <3>9 DEF NoteFollows
    <2> QED BY <2>1, <2>2
<1> QED BY <1>4, <1>10, <1>11, <1>12, <1>13, <1>14 DEF DocInv, new, T

\* The note an accepted edit finds: the one of the first track, at the
\* revision the edit expects.
LEMMA EditedNote ==
    ASSUME NEW doc, NEW S, DocInv(doc, S), NEW e \in Envelopes,
           Validate(doc, e) = "Accepted", e.op.type \in EditTypes
    PROVE  LET n == e.op.note
               t == FirstTrack(doc, n)
           IN  /\ n \in NoteIds /\ t \in TrackIds
               /\ doc.note[t][n] \in MidiNote
               /\ doc.note[t][n].revision = e.op.expected
               /\ doc.note[t][n].revision <= doc.revision
               /\ doc.name[t] # Absent
<1> DEFINE n == e.op.note
           t == FirstTrack(doc, n)
<1>1. n \in NoteIds
    BY EnvelopesAssumption, OperationTypes
    DEF Envelope, EditTypes, MoveNoteOp, DeleteNoteOp
<1>2. TracksHolding(doc, n) # {} /\ doc.note[t][n].revision = e.op.expected
    BY DEF Validate, ValidateEdit, EditTypes
<1>3. t \in TrackIds /\ doc.note[t][n] # Absent
    BY <1>2, FirstTrackHolds DEF TracksHolding
<1>4. doc.note[t][n] \in MidiNote
    BY <1>1, <1>3 DEF DocInv, DocumentState
<1>5. doc.note[t][n].revision <= doc.revision
    BY <1>1, <1>3, CellsBounded DEF DocInv, RevisionSynced
<1>6. doc.name[t] # Absent
    BY <1>1, <1>3 DEF DocInv, NotesOnTracks
<1> QED BY <1>1, <1>2, <1>3, <1>4, <1>5, <1>6

\* A note that is added once sits on one track only.
LEMMA OneHolder ==
    ASSUME NEW doc, NEW S, DocInv(doc, S), NEW n \in NoteIds,
           Ledger!AddedOnce(S, n), NEW t \in TrackIds, NEW u \in TrackIds,
           doc.note[t][n] # Absent, doc.note[u][n] # Absent
    PROVE  t = u
<1>1. PICK a \in Ledger!NoteAdditions(S, n) : a.op.track = t
    BY DEF DocInv, NotesAdded
<1>2. PICK b \in Ledger!NoteAdditions(S, n) : b.op.track = u
    BY DEF DocInv, NotesAdded
<1> QED BY <1>1, <1>2 DEF Ledger!AddedOnce

\* The accepted edits of a note that is present are the moves up to its
\* revision; the next accepted edit expects a later one.
LEMMA EarlierEdits ==
    ASSUME NEW doc, NEW S, DocInv(doc, S), NEW n \in NoteIds,
           Ledger!AddedOnce(S, n), NEW t \in TrackIds, doc.note[t][n] # Absent
    PROVE  /\ Ledger!Deletions(S, n) = {}
           /\ NoteValued(doc.note[t][n], S, n)
<1>1. NoteFollows(doc, S, n)
    BY DEF DocInv
<1> QED BY <1>1 DEF NoteFollows, NotePlaced, TracksHolding

\* What the two edits share.
LEMMA EditPreserves ==
    ASSUME NEW doc, NEW S \in SUBSET Envelopes, DocInv(doc, S),
           NEW e \in Envelopes, e \notin S, e.op.type \in EditTypes,
           Validate(doc, e) = "Accepted",
           NEW note \in MidiNote \cup {Absent},
           Edited(doc, e.op) =
               PutNote(doc, FirstTrack(doc, e.op.note), e.op.note, note),
           NEW T, T = S \cup {e}, NEW new, new = Written(doc, e.op),
           Ledger!AddedOnce(T, e.op.note) =>
               /\ NoteFollows(new, T, e.op.note)
               /\ EditsDistinct(T, e.op.note)
    PROVE  DocInv(new, T)
<1> DEFINE n == e.op.note
           t == FirstTrack(doc, n)
<1>1. /\ e \in Envelope /\ n \in NoteIds /\ t \in TrackIds
      /\ doc.note[t][n] # Absent /\ doc.name[t] # Absent
    BY EditedNote, EnvelopesAssumption, NoteNotAbsent
<1>2. doc \in DocumentState /\ RevisionsBounded(doc, doc.revision)
    BY DEF DocInv, RevisionSynced
<1>3. new \in DocumentState /\ RevisionSynced(new)
    BY <1>1, <1>2, WrittenEffect
<1>4. /\ new.name = doc.name
      /\ new.note[t][n] = note
      /\ \A u \in TrackIds : \A m \in NoteIds :
            u # t \/ m # n => new.note[u][m] = doc.note[u][m]
    BY <1>1, <1>2, WrittenEffect, PutNoteEffect
<1>5. /\ \A m : m # n => SameNoteHistory(S, T, m)
      /\ \A u : Ledger!TrackCreations(T, u) = Ledger!TrackCreations(S, u)
      /\ \A m : Ledger!NoteAdditions(T, m) = Ledger!NoteAdditions(S, m)
    BY HistoryOf DEF EditTypes
<1>6. \A u \in TrackIds : \A m \in NoteIds :
          new.note[u][m] # Absent => doc.note[u][m] # Absent
    BY <1>1, <1>4
<1>7. NotesOnTracks(new)
    BY <1>4, <1>6 DEF DocInv, NotesOnTracks
<1>8. TracksFollow(new, T)
    BY <1>4, <1>5 DEF DocInv, TracksFollow
<1>9. NotesAdded(new, T)
    <2>1. NotesAdded(doc, S)
        BY DEF DocInv
    <2> QED BY <1>5, <1>6, <2>1, NoNoteAppears
<1>10. EditsHaveNote(T)
    <2>1. Ledger!NoteAdditions(S, n) # {}
        BY <1>1 DEF DocInv, NotesAdded
    <2>2. \A f \in S : f.op.type \in EditTypes =>
              Ledger!NoteAdditions(S, f.op.note) # {}
        BY DEF DocInv, EditsHaveNote
    <2> QED BY <1>5, <2>1, <2>2 DEF EditsHaveNote
<1>11. ASSUME NEW m \in NoteIds
       PROVE  Ledger!AddedOnce(T, m) =>
                  NoteFollows(new, T, m) /\ EditsDistinct(T, m)
    <2>1. CASE m # n
        <3>1. \A u \in TrackIds : new.note[u][m] = doc.note[u][m]
            BY <1>4, <2>1
        <3>2. SameNoteHistory(S, T, m)
            BY <1>5, <2>1
        <3>3. Ledger!AddedOnce(S, m) =>
                  NoteFollows(doc, S, m) /\ EditsDistinct(S, m)
            BY DEF DocInv
        <3> QED BY <3>1, <3>2, <3>3, UntouchedNote
    <2> QED BY <2>1
<1> QED BY <1>3, <1>7, <1>8, <1>9, <1>10, <1>11 DEF DocInv

LEMMA ExpectedType ==
    ASSUME NEW e \in Envelopes, e.op.type \in EditTypes
    PROVE  e.op.expected \in Nat /\ e.op.note \in NoteIds
BY EnvelopesAssumption, OperationTypes
DEF Envelope, EditTypes, MoveNoteOp, DeleteNoteOp

LEMMA MoveNotePreserves ==
    ASSUME NEW doc, NEW S \in SUBSET Envelopes, DocInv(doc, S),
           NEW e \in Envelopes, e \notin S,
           Validate(doc, e) = "Accepted", e.op.type = "MoveNote"
    PROVE  DocInv(Written(doc, e.op), S \cup {e})
<1> DEFINE T    == S \cup {e}
           new  == Written(doc, e.op)
           n    == e.op.note
           t    == FirstTrack(doc, n)
           old  == doc.note[t][n]
           note == [start |-> e.op.start, body |-> old.body,
                    revision |-> old.revision + 1]
<1>1. /\ e \in Envelope /\ e.op.type \in EditTypes
      /\ e.op.start \in Starts /\ e.op.expected \in Nat
    BY EnvelopesAssumption, OperationTypes DEF Envelope, EditTypes, MoveNoteOp
<1>2. /\ n \in NoteIds /\ t \in TrackIds /\ old \in MidiNote
      /\ old.revision = e.op.expected
    BY <1>1, EditedNote
<1>3. note \in MidiNote
    BY <1>1, <1>2 DEF MidiNote
<1>4. Edited(doc, e.op) = PutNote(doc, t, n, note)
    BY DEF Edited, ApplyMoveNote
<1>5. doc \in DocumentState /\ RevisionsBounded(doc, doc.revision)
    BY DEF DocInv, RevisionSynced
<1>6. /\ new.note[t][n] = note
      /\ \A u \in TrackIds : u # t => new.note[u][n] = doc.note[u][n]
    BY <1>1, <1>2, <1>3, <1>4, <1>5, WrittenEffect, PutNoteEffect
<1>7. /\ Ledger!NoteAdditions(T, n) = Ledger!NoteAdditions(S, n)
      /\ Ledger!Deletions(T, n) = Ledger!Deletions(S, n)
      /\ Ledger!Moves(T, n) = Ledger!Moves(S, n) \cup {e}
    <2>1. Ledger!Moves(T, n) = Ledger!Moves(S, n) \cup {e}
        BY DEF Ledger!Moves
    <2> QED BY <2>1, HistoryOf
<1>8. \A m \in Ledger!Moves(S, n) : m.op.expected \in Nat
    BY ExpectedType DEF Ledger!Moves, EditTypes
<1> HIDE DEF T, new
<1>9. ASSUME Ledger!AddedOnce(T, n)
      PROVE  NoteFollows(new, T, n) /\ EditsDistinct(T, n)
    <2>1. Ledger!AddedOnce(S, n)
        BY <1>7, <1>9 DEF Ledger!AddedOnce
    <2>2. Ledger!Deletions(S, n) = {} /\ NoteValued(old, S, n)
        BY <1>2, <2>1, EarlierEdits, NoteNotAbsent
    <2>3. \A u \in TrackIds : doc.note[u][n] # Absent <=> u = t
        BY <1>2, <2>1, OneHolder, NoteNotAbsent
    <2>4. \A u \in TrackIds : new.note[u][n] # Absent <=> u = t
        BY <1>3, <1>6, <2>3, NoteNotAbsent
    <2>5. NotePlaced(new, T, n)
        <3>1. NotePlaced(doc, S, n)
            BY <1>2, <2>1 DEF DocInv, NoteFollows
        <3> QED BY <1>7, <2>3, <2>4, <3>1 DEF NotePlaced
    <2>6. NoteValued(note, T, n)
        <3>1. old.revision \in Nat /\ old.revision >= 1
            BY <1>2, <2>2 DEF MidiNote, NoteValued
        <3>2. \A a \in Ledger!NoteAdditions(T, n) : note.body = a.op.body
            BY <1>7, <2>2 DEF NoteValued
        <3>3. \A m \in Ledger!Moves(S, n) : m.op.expected < old.revision
            BY <2>2 DEF NoteValued
        <3>4. \A m \in Ledger!Moves(T, n) :
                 /\ m.op.expected < note.revision
                 /\ m.op.expected + 1 = note.revision =>
                        note.start = m.op.start
            BY <1>2, <1>7, <1>8, <3>1, <3>3
        <3>5. e \in Ledger!Moves(T, n) /\ e.op.expected + 1 = note.revision
            BY <1>2, <1>7
        <3> QED BY <3>1, <3>2, <3>4, <3>5 DEF NoteValued
    <2>7. NoteFollows(new, T, n)
        BY <1>6, <2>4, <2>5, <2>6 DEF NoteFollows, TracksHolding
    <2>8. EditsDistinct(T, n)
        <3>1. EditsDistinct(S, n)
            BY <1>2, <2>1 DEF DocInv
        <3>2. \A m \in Ledger!Moves(S, n) : m.op.expected # e.op.expected
            BY <1>1, <1>2, <1>8, <2>2 DEF NoteValued
        <3> QED BY <1>7, <2>2, <3>1, <3>2 DEF EditsDistinct
    <2> QED BY <2>7, <2>8
<1>10. new = Written(doc, e.op) /\ T = S \cup {e}
    BY DEF new, T
<1>11. DocInv(new, T)
    <2>1. note \in MidiNote \cup {Absent}
        BY <1>3
    <2>2. Ledger!AddedOnce(T, n) =>
              NoteFollows(new, T, n) /\ EditsDistinct(T, n)
        BY <1>9
    <2> HIDE DEF note
    <2> QED BY <1>1, <1>4, <1>10, <2>1, <2>2, EditPreserves
<1> QED BY <1>10, <1>11

LEMMA DeleteNotePreserves ==
    ASSUME NEW doc, NEW S \in SUBSET Envelopes, DocInv(doc, S),
           NEW e \in Envelopes, e \notin S,
           Validate(doc, e) = "Accepted", e.op.type = "DeleteNote"
    PROVE  DocInv(Written(doc, e.op), S \cup {e})
<1> DEFINE T    == S \cup {e}
           new  == Written(doc, e.op)
           n    == e.op.note
           t    == FirstTrack(doc, n)
           old  == doc.note[t][n]
<1>1. /\ e \in Envelope /\ e.op.type \in EditTypes /\ e.op.expected \in Nat
    BY EnvelopesAssumption, ExpectedType DEF EditTypes
<1>2. /\ n \in NoteIds /\ t \in TrackIds /\ old \in MidiNote
      /\ old.revision = e.op.expected
    BY <1>1, EditedNote
<1>3. Edited(doc, e.op) = PutNote(doc, t, n, Absent)
    BY DEF Edited, ApplyDeleteNote
<1>4. doc \in DocumentState /\ RevisionsBounded(doc, doc.revision)
    BY DEF DocInv, RevisionSynced
<1>5. /\ new.note[t][n] = Absent
      /\ \A u \in TrackIds : u # t => new.note[u][n] = doc.note[u][n]
    BY <1>1, <1>2, <1>3, <1>4, WrittenEffect, PutNoteEffect
<1>6. /\ Ledger!NoteAdditions(T, n) = Ledger!NoteAdditions(S, n)
      /\ Ledger!Moves(T, n) = Ledger!Moves(S, n)
      /\ Ledger!Deletions(T, n) = Ledger!Deletions(S, n) \cup {e}
    <2>1. Ledger!Deletions(T, n) = Ledger!Deletions(S, n) \cup {e}
        BY DEF Ledger!Deletions
    <2> QED BY <2>1, HistoryOf
<1>7. \A m \in Ledger!Moves(S, n) : m.op.expected \in Nat
    BY ExpectedType DEF Ledger!Moves, EditTypes
<1> HIDE DEF T, new
<1>8. ASSUME Ledger!AddedOnce(T, n)
      PROVE  NoteFollows(new, T, n) /\ EditsDistinct(T, n)
    <2>1. Ledger!AddedOnce(S, n)
        BY <1>6, <1>8 DEF Ledger!AddedOnce
    <2>2. Ledger!Deletions(S, n) = {} /\ NoteValued(old, S, n)
        BY <1>2, <2>1, EarlierEdits, NoteNotAbsent
    <2>3. \A u \in TrackIds : doc.note[u][n] # Absent <=> u = t
        BY <1>2, <2>1, OneHolder, NoteNotAbsent
    <2>4. \A u \in TrackIds : new.note[u][n] = Absent
        BY <1>5, <2>3
    <2>5. NoteFollows(new, T, n)
        BY <1>6, <2>4 DEF NoteFollows, NotePlaced, TracksHolding
    <2>6. EditsDistinct(T, n)
        <3>1. EditsDistinct(S, n)
            BY <1>2, <2>1 DEF DocInv
        <3>2. \A m \in Ledger!Moves(S, n) : m.op.expected # e.op.expected
            BY <1>1, <1>2, <1>7, <2>2 DEF NoteValued
        <3> QED BY <1>6, <2>2, <3>1, <3>2 DEF EditsDistinct
    <2> QED BY <2>5, <2>6
<1>9. new = Written(doc, e.op) /\ T = S \cup {e}
    BY DEF new, T
<1>10. DocInv(new, T)
    <2>1. Absent \in MidiNote \cup {Absent}
        OBVIOUS
    <2>2. Ledger!AddedOnce(T, n) =>
              NoteFollows(new, T, n) /\ EditsDistinct(T, n)
        BY <1>8
    <2> QED BY <1>1, <1>3, <1>9, <2>1, <2>2, EditPreserves
<1> QED BY <1>9, <1>10

\* Whatever the kernel accepts keeps the document in step with the ledger.
LEMMA AcceptedPreserves ==
    ASSUME NEW doc, NEW S \in SUBSET Envelopes, DocInv(doc, S),
           NEW e \in Envelopes, e \notin S, Validate(doc, e) = "Accepted"
    PROVE  DocInv(Apply(doc, e), S \cup {e})
<1>1. Apply(doc, e) = Written(doc, e.op)
    BY DEF Apply
<1>2. e.op.type \in {"AddTrack", "AddNote", "MoveNote", "DeleteNote"}
    BY EnvelopesAssumption, OperationTypes DEF Envelope
<1> QED BY <1>1, <1>2, AddTrackPreserves, AddNotePreserves,
           MoveNotePreserves, DeleteNotePreserves

-----------------------------------------------------------------------------
(* One replica                                                             *)

LEMMA EmptyDocumentInv == DocInv(EmptyDocument, {})
<1> DEFINE doc == EmptyDocument
<1>1. doc \in DocumentState
    BY DEF EmptyDocument, DocumentState
<1>2. /\ doc.revision = 0
      /\ \A t \in TrackIds : doc.name[t] = Absent
      /\ \A t \in TrackIds : \A n \in NoteIds : doc.note[t][n] = Absent
    BY DEF EmptyDocument
<1> HIDE DEF doc
<1>3. NoteRevisions(doc) = {}
    BY <1>2 DEF NoteRevisions, Present
<1>4. RevisionSynced(doc)
    BY <1>2, <1>3 DEF RevisionSynced, SyncedRevision, RevisionsBounded
<1>5. \A n : /\ Ledger!NoteAdditions({}, n) = {}
             /\ Ledger!Moves({}, n) = {}
             /\ Ledger!Deletions({}, n) = {}
             /\ Ledger!TrackCreations({}, n) = {}
    BY DEF Ledger!NoteAdditions, Ledger!Moves, Ledger!Deletions,
           Ledger!TrackCreations
<1>6. NotesOnTracks(doc) /\ NotesAdded(doc, {})
    BY <1>2 DEF NotesOnTracks, NotesAdded
<1>7. TracksFollow(doc, {})
    BY <1>2, <1>5 DEF TracksFollow
<1>8. EditsHaveNote({})
    BY DEF EditsHaveNote
<1>9. \A n \in NoteIds : NoteFollows(doc, {}, n) /\ EditsDistinct({}, n)
    BY <1>2, <1>5 DEF NoteFollows, NotePlaced, TracksHolding, EditsDistinct
<1> QED BY <1>1, <1>4, <1>6, <1>7, <1>8, <1>9 DEF DocInv, doc

LEMMA NewReplicaInv == ReplicaInv(NewReplica)
<1>1. NewReplica \in ReplicaState
    BY EmptyDocumentInv
    DEF NewReplica, ReplicaState, ValidationDecision, DocInv
<1>2. Accepted(NewReplica) = {} /\ NewReplica.state = EmptyDocument
    BY DEF Accepted, NewReplica
<1>3. SequencesFollow(NewReplica.sequences, {})
    BY DEF SequencesFollow, NewReplica
<1> QED BY <1>1, <1>2, <1>3, EmptyDocumentInv DEF ReplicaInv

\* The three outcomes of ingest.
LEMMA IngestedCases ==
    ASSUME NEW rep \in ReplicaState, NEW env \in Envelopes
    PROVE  LET new == Ingested(rep, env) IN
           \/ /\ new.state = rep.state
              /\ new.seen = rep.seen
              /\ new.sequences = rep.sequences
              /\ new \in ReplicaState
           \/ /\ env.id \notin rep.seen
              /\ Validate(rep.state, env) = "Accepted"
              /\ new = [state     |-> Apply(rep.state, env),
                        seen      |-> rep.seen \cup {env.id},
                        sequences |-> TrackSequence(rep.sequences, env),
                        decision  |-> "Accepted"]
<1>1. ASSUME NEW d \in ValidationDecision
      PROVE  LET new == [rep EXCEPT !.decision = d]
             IN  /\ new.state = rep.state
                 /\ new.seen = rep.seen
                 /\ new.sequences = rep.sequences
                 /\ new \in ReplicaState
    BY DEF ReplicaState
<1>2. Validate(rep.state, env) \in ValidationDecision
    <2>1. env.op.type \in {"AddTrack", "AddNote", "MoveNote", "DeleteNote"}
        BY EnvelopesAssumption, OperationTypes DEF Envelope
    <2> QED BY <2>1 DEF Validate, ValidateAddTrack, ValidateAddNote,
                        ValidateEdit, ValidationDecision
<1>3. CASE env.id \in rep.seen
    <2>1. Ingested(rep, env) = [rep EXCEPT !.decision = "Duplicate"]
        BY <1>3 DEF Ingested
    <2> QED BY <1>1, <2>1 DEF ValidationDecision
<1>4. CASE env.id \notin rep.seen /\ Validate(rep.state, env) # "Accepted"
    <2>1. Ingested(rep, env) =
              [rep EXCEPT !.decision = Validate(rep.state, env)]
        BY <1>4 DEF Ingested
    <2> QED BY <1>1, <1>2, <2>1
<1>5. CASE env.id \notin rep.seen /\ Validate(rep.state, env) = "Accepted"
    BY <1>5 DEF Ingested
<1> QED BY <1>3, <1>4, <1>5

LEMMA AcceptedGrows ==
    ASSUME NEW rep, NEW new, NEW env \in Envelopes, env.id \notin rep.seen,
           new.seen = rep.seen \cup {env.id}
    PROVE  Accepted(new) = Accepted(rep) \cup {env} /\ env \notin Accepted(rep)
BY EnvelopesAssumption DEF Accepted

LEMMA TrackSequenceFollows ==
    ASSUME NEW sequences \in [Actors -> Nat], NEW S \in SUBSET Envelopes,
           SequencesFollow(sequences, S), NEW env \in Envelopes
    PROVE  /\ TrackSequence(sequences, env) \in [Actors -> Nat]
           /\ SequencesFollow(TrackSequence(sequences, env), S \cup {env})
<1> DEFINE new == TrackSequence(sequences, env)
           b   == env.actor
<1>1. /\ b \in Actors /\ env.seq \in Nat
      /\ \A e \in S : e.actor \in Actors /\ e.seq \in Nat
    BY EnvelopesAssumption DEF Envelope
<1>2. /\ new \in [Actors -> Nat]
      /\ \A a \in Actors : a # b => new[a] = sequences[a]
      /\ new[b] = IF env.seq > sequences[b] THEN env.seq ELSE sequences[b]
    BY <1>1 DEF TrackSequence
<1> HIDE DEF new
<1> SUFFICES ASSUME NEW a \in Actors
             PROVE  /\ \A e \in S \cup {env} : e.actor = a => e.seq <= new[a]
                    /\ new[a] > 0 => \E e \in S \cup {env} :
                                        e.actor = a /\ e.seq = new[a]
    BY <1>2 DEF SequencesFollow, new
<1>3. /\ \A e \in S : e.actor = a => e.seq <= sequences[a]
      /\ sequences[a] > 0 =>
            \E e \in S : e.actor = a /\ e.seq = sequences[a]
    BY DEF SequencesFollow
<1>4. CASE a # b
    BY <1>2, <1>3, <1>4
<1>5. CASE a = b
    BY <1>1, <1>2, <1>3, <1>5
<1> QED BY <1>4, <1>5

LEMMA IngestedPreserves ==
    ASSUME NEW rep, ReplicaInv(rep), NEW env \in Envelopes
    PROVE  ReplicaInv(Ingested(rep, env))
<1> DEFINE new == Ingested(rep, env)
<1>1. rep \in ReplicaState
    BY DEF ReplicaInv
<1>2. CASE /\ new.state = rep.state
           /\ new.seen = rep.seen
           /\ new.sequences = rep.sequences
           /\ new \in ReplicaState
    <2>1. Accepted(new) = Accepted(rep)
        BY <1>2 DEF Accepted
    <2> QED BY <1>2, <2>1 DEF ReplicaInv
<1>3. CASE /\ env.id \notin rep.seen
           /\ Validate(rep.state, env) = "Accepted"
           /\ new = [state     |-> Apply(rep.state, env),
                     seen      |-> rep.seen \cup {env.id},
                     sequences |-> TrackSequence(rep.sequences, env),
                     decision  |-> "Accepted"]
    <2> DEFINE S == Accepted(rep)
    <2>1. S \in SUBSET Envelopes
        BY DEF Accepted
    <2>2. Accepted(new) = S \cup {env} /\ env \notin S
        BY <1>3, AcceptedGrows
    <2>3. DocInv(Apply(rep.state, env), S \cup {env})
        BY <1>3, <2>1, <2>2, AcceptedPreserves DEF ReplicaInv
    <2>4. /\ TrackSequence(rep.sequences, env) \in [Actors -> Nat]
          /\ SequencesFollow(TrackSequence(rep.sequences, env), S \cup {env})
        BY <1>1, <2>1, TrackSequenceFollows DEF ReplicaInv, ReplicaState
    <2>5. new \in ReplicaState
        <3>1. env.id \in OperationIds
            BY EnvelopesAssumption DEF Envelope
        <3> QED BY <1>1, <1>3, <2>3, <2>4, <3>1
                DEF DocInv, ReplicaState, ValidationDecision
    <2> QED BY <1>3, <2>2, <2>3, <2>4, <2>5 DEF ReplicaInv
<1> QED BY <1>1, <1>2, <1>3, IngestedCases

\* The kernel accepts only what the ledger admits.
LEMMA AcceptedAdmissible ==
    ASSUME NEW doc, NEW S \in SUBSET Envelopes, DocInv(doc, S),
           NEW e \in Envelopes, e \notin S, Validate(doc, e) = "Accepted"
    PROVE  Ledger!Admissible(S, e)
<1> DEFINE n == e.op.note
           t == FirstTrack(doc, n)
<1>1. ASSUME e.op.type = "AddTrack"
      PROVE  Ledger!TrackCreations(S, e.op.track) = {}
    <2>1. doc.name[e.op.track] = Absent /\ e.op.track \in TrackIds
        BY <1>1, EnvelopesAssumption, OperationTypes
        DEF Envelope, AddTrackOp, Validate, ValidateAddTrack
    <2> QED BY <2>1 DEF DocInv, TracksFollow
<1>2. ASSUME e.op.type = "AddNote"
      PROVE  Ledger!TrackCreations(S, e.op.track) # {}
    <2>1. doc.name[e.op.track] # Absent /\ e.op.track \in TrackIds
        BY <1>2, EnvelopesAssumption, OperationTypes
        DEF Envelope, AddNoteOp, Validate, ValidateAddNote
    <2> QED BY <2>1 DEF DocInv, TracksFollow
<1>3. ASSUME e.op.type \in EditTypes
      PROVE  /\ Ledger!NoteAdditions(S, n) # {}
             /\ Ledger!AddedOnce(S, n) => Ledger!ContinuesChain(S, e.op)
    <2>1. /\ n \in NoteIds /\ t \in TrackIds /\ doc.note[t][n] # Absent
          /\ doc.note[t][n].revision = e.op.expected
        BY <1>3, EditedNote, NoteNotAbsent
    <2>2. Ledger!NoteAdditions(S, n) # {}
        BY <2>1 DEF DocInv, NotesAdded
    <2>3. ASSUME Ledger!AddedOnce(S, n)
          PROVE  Ledger!ContinuesChain(S, e.op)
        <3>1. /\ Ledger!Deletions(S, n) = {}
              /\ NoteValued(doc.note[t][n], S, n)
            BY <2>1, <2>3, EarlierEdits
        <3> QED BY <2>1, <3>1 DEF NoteValued, Ledger!ContinuesChain
    <2> QED BY <2>2, <2>3
<1> QED BY <1>1, <1>2, <1>3 DEF Ledger!Admissible, EditTypes

LEMMA IngestedGrows ==
    ASSUME NEW rep, ReplicaInv(rep), NEW env \in Envelopes
    PROVE  Ledger!Grows(Accepted(rep), Accepted(Ingested(rep, env)))
<1> DEFINE new == Ingested(rep, env)
           S   == Accepted(rep)
<1>1. rep \in ReplicaState /\ S \in SUBSET Envelopes
    BY DEF ReplicaInv, Accepted
<1>2. CASE new.seen = rep.seen
    BY <1>2 DEF Accepted, Ledger!Grows
<1>3. CASE /\ env.id \notin rep.seen
           /\ Validate(rep.state, env) = "Accepted"
           /\ new.seen = rep.seen \cup {env.id}
    <2>1. Accepted(new) = S \cup {env} /\ env \notin S
        BY <1>3, AcceptedGrows
    <2>2. Ledger!Admissible(S, env)
        BY <1>1, <1>3, <2>1, AcceptedAdmissible DEF ReplicaInv
    <2> QED BY <2>1, <2>2 DEF Ledger!Grows
<1>4. \/ new.seen = rep.seen
      \/ /\ env.id \notin rep.seen
         /\ Validate(rep.state, env) = "Accepted"
         /\ new.seen = rep.seen \cup {env.id}
    BY <1>1, IngestedCases
<1> QED BY <1>2, <1>3, <1>4

-----------------------------------------------------------------------------
(* The system                                                              *)

LEMMA InitInv == Init => IInv
<1>1. NewReplica \in ReplicaState
    BY NewReplicaInv DEF ReplicaInv
<1> QED BY <1>1, NewReplicaInv DEF Init, IInv

\* Two ingested envelopes are a batch.
LEMMA GrowthsCompose ==
    ASSUME NEW S, NEW M, NEW T, Ledger!Grows(S, M), Ledger!Grows(M, T)
    PROVE  Ledger!GrowsTwice(S, T)
<1>1. CASE M = S
    BY <1>1 DEF Ledger!GrowsTwice
<1>2. ASSUME NEW e \in M \ S, M = S \cup {e}
      PROVE  Ledger!GrowsTwice(S, T)
    <2>1. e \in T
        BY <1>2 DEF Ledger!Grows
    <2> QED BY <1>2, <2>1 DEF Ledger!GrowsTwice
<1> QED BY <1>1, <1>2 DEF Ledger!Grows

\* Every step gives one replica a new value that ingest computed.
LEMMA StepShape ==
    ASSUME IInv, Next
    PROVE  \E r \in Replicas : \E new :
               /\ replica' = [replica EXCEPT ![r] = new]
               /\ ReplicaInv(new)
               /\ \E first \in {replica[r], NewReplica} :
                     Ledger!GrowsTwice(Accepted(first), Accepted(new))
<1>1. \A rep : \A env \in Envelopes :
          ReplicaInv(rep) =>
              /\ ReplicaInv(Ingested(rep, env))
              /\ Ledger!Grows(Accepted(rep), Accepted(Ingested(rep, env)))
    BY IngestedPreserves, IngestedGrows
<1>2. \A r \in Replicas : ReplicaInv(replica[r])
    BY DEF IInv
<1>3. \A S, T : Ledger!Grows(S, T) => Ledger!GrowsTwice(S, T)
    BY DEF Ledger!Grows, Ledger!GrowsTwice
<1>4. \A S, M, T :
          Ledger!Grows(S, M) /\ Ledger!Grows(M, T) => Ledger!GrowsTwice(S, T)
    BY GrowthsCompose
<1>5. ASSUME NEW r \in Replicas, NEW env \in Envelopes, Ingest(r, env)
      PROVE  \E new :
               /\ replica' = [replica EXCEPT ![r] = new]
               /\ ReplicaInv(new)
               /\ Ledger!GrowsTwice(Accepted(replica[r]), Accepted(new))
    BY <1>1, <1>2, <1>3, <1>5 DEF Ingest
<1>6. ASSUME NEW r \in Replicas,
             NEW first \in Envelopes, NEW second \in Envelopes,
             IngestBatch(r, first, second)
      PROVE  \E new :
               /\ replica' = [replica EXCEPT ![r] = new]
               /\ ReplicaInv(new)
               /\ Ledger!GrowsTwice(Accepted(replica[r]), Accepted(new))
    <2> DEFINE mid == Ingested(replica[r], first)
               new == Ingested(mid, second)
    <2>1. /\ ReplicaInv(mid)
          /\ Ledger!Grows(Accepted(replica[r]), Accepted(mid))
        BY <1>1, <1>2
    <2>2. /\ ReplicaInv(new)
          /\ Ledger!Grows(Accepted(mid), Accepted(new))
        BY <1>1, <2>1
    <2>3. replica' = [replica EXCEPT ![r] = new]
        BY <1>6 DEF IngestBatch
    <2>4. Ledger!GrowsTwice(Accepted(replica[r]), Accepted(new))
        BY <1>4, <2>1, <2>2
    <2> QED BY <2>2, <2>3, <2>4
<1>7. ASSUME NEW r \in Replicas,
             NEW first \in Envelopes, NEW second \in Envelopes,
             Replay(r, first, second)
      PROVE  \E new :
               /\ replica' = [replica EXCEPT ![r] = new]
               /\ ReplicaInv(new)
               /\ Ledger!GrowsTwice(Accepted(NewReplica), Accepted(new))
    BY <1>1, <1>4, <1>7, NewReplicaInv DEF Replay
<1>8. PICK r \in Replicas :
          \/ \E env \in Envelopes : Ingest(r, env)
          \/ \E first, second \in Envelopes :
                IngestBatch(r, first, second) \/ Replay(r, first, second)
    BY DEF Next
<1> QED BY <1>5, <1>6, <1>7, <1>8

LEMMA NextInv == IInv /\ [Next]_replica => IInv'
<1>1. CASE UNCHANGED replica
    BY <1>1 DEF IInv
<1>2. ASSUME IInv, Next
      PROVE  IInv'
    <2>0. PICK r \in Replicas : \E new :
              replica' = [replica EXCEPT ![r] = new] /\ ReplicaInv(new)
        BY <1>2, StepShape
    <2>1. PICK new :
              replica' = [replica EXCEPT ![r] = new] /\ ReplicaInv(new)
        BY <2>0
    <2>2. new \in ReplicaState
        BY <2>1 DEF ReplicaInv
    <2> QED BY <1>2, <2>1, <2>2 DEF IInv
<1> QED BY <1>1, <1>2

\* The inductive invariant holds: documents, ledgers and sequence numbers of
\* every replica stay in step, whatever the transport does.
THEOREM Invariance == Spec => []IInv
<1> QED BY InitInv, NextInv, PTL DEF Spec

\* Replicas stay well typed; in particular find_note always finds the note
\* that validate accepted, and the revision maximum is always defined.
THEOREM TypeCorrect == Spec => []TypeOK
<1>1. IInv => TypeOK
    BY DEF IInv, TypeOK
<1> QED BY <1>1, Invariance, PTL

\* Documents are determined by the accepted operations.
THEOREM DocumentCorrect == Spec => []DocumentFollowsLedger
<1>1. IInv => DocumentFollowsLedger
    BY DEF IInv, ReplicaInv, DocInv, DocumentFollowsLedger
<1> QED BY <1>1, Invariance, PTL

\* The value of a note is determined by its history: the chain of moves
\* fixes the revision, the revision fixes the start.
LEMMA NoteDetermined ==
    ASSUME NEW S \in SUBSET Envelopes, NEW n \in NoteIds,
           NEW v \in MidiNote, NEW w \in MidiNote,
           NoteValued(v, S, n), NoteValued(w, S, n),
           Ledger!NoteAdditions(S, n) # {}
    PROVE  v = w
<1>1. v.revision \in Nat /\ w.revision \in Nat
    BY DEF MidiNote
<1>2. \A m \in Ledger!Moves(S, n) : m.op.expected \in Nat
    BY ExpectedType DEF Ledger!Moves, EditTypes
<1>3. v.revision = w.revision
    BY <1>1, <1>2 DEF NoteValued
<1>4. v.body = w.body
    BY DEF NoteValued
<1>5. v.start = w.start
    <2>1. CASE v.revision = 1
        BY <1>3, <2>1 DEF NoteValued
    <2>2. CASE v.revision > 1
        BY <1>3, <2>2 DEF NoteValued
    <2> QED BY <1>1, <2>1, <2>2 DEF NoteValued
<1> QED BY <1>3, <1>4, <1>5 DEF MidiNote

\* One set of accepted operations, one document.
LEMMA DocumentDetermined ==
    ASSUME NEW S \in SUBSET Envelopes, NEW c, NEW d,
           DocInv(c, S), DocInv(d, S), NotesAddedOnce(S)
    PROVE  c = d
<1>1. c \in DocumentState /\ d \in DocumentState
    BY DEF DocInv
<1>2. ASSUME NEW t \in TrackIds
      PROVE  c.name[t] = d.name[t]
    <2>1. CASE Ledger!TrackCreations(S, t) = {}
        BY <2>1 DEF DocInv, TracksFollow
    <2>2. CASE Ledger!TrackCreations(S, t) # {}
        BY <2>2 DEF DocInv, TracksFollow
    <2> QED BY <2>1, <2>2
<1>3. ASSUME NEW t \in TrackIds, NEW n \in NoteIds
      PROVE  c.note[t][n] = d.note[t][n]
    <2>1. NoteFollows(c, S, n) /\ NoteFollows(d, S, n)
        BY DEF DocInv, NotesAddedOnce
    <2>2. c.note[t][n] = Absent <=> d.note[t][n] = Absent
        BY <2>1 DEF NoteFollows, NotePlaced
    <2>3. CASE c.note[t][n] # Absent
        <3>1. /\ c.note[t][n] \in MidiNote
              /\ d.note[t][n] \in MidiNote
            BY <1>1, <2>2, <2>3 DEF DocumentState
        <3>2. /\ NoteValued(c.note[t][n], S, n)
              /\ NoteValued(d.note[t][n], S, n)
            BY <2>1, <2>2, <2>3 DEF NoteFollows, TracksHolding
        <3>3. Ledger!NoteAdditions(S, n) # {}
            BY <2>3 DEF DocInv, NotesAdded
        <3> QED BY <3>1, <3>2, <3>3, NoteDetermined
    <2> QED BY <2>2, <2>3
<1>4. c.name = d.name
    BY <1>1, <1>2 DEF DocumentState
<1>5. c.note = d.note
    <2>1. ASSUME NEW t \in TrackIds
          PROVE  c.note[t] = d.note[t]
        BY <1>1, <1>3 DEF DocumentState
    <2> QED BY <1>1, <2>1 DEF DocumentState
<1>6. c.revision = d.revision
    <2>1. Present(c) = Present(d)
        BY <1>5 DEF Present
    <2>2. NoteRevisions(c) = NoteRevisions(d)
        BY <1>5, <2>1 DEF NoteRevisions
    <2>3. SyncedRevision(c) = SyncedRevision(d)
        BY <2>2 DEF SyncedRevision
    <2> QED BY <2>3 DEF DocInv, RevisionSynced
<1> QED BY <1>1, <1>4, <1>5, <1>6 DEF DocumentState

\* Replicas that accepted the same operations hold the same document.
THEOREM Convergence == Spec => []Converged
<1>1. ASSUME IInv PROVE Converged
    <2> SUFFICES ASSUME NEW r \in Replicas, NEW s \in Replicas,
                        Accepted(replica[r]) = Accepted(replica[s]),
                        NotesAddedOnce(Accepted(replica[r]))
                 PROVE  replica[r].state = replica[s].state
        BY DEF Converged
    <2> DEFINE S == Accepted(replica[r])
    <2>1. S \in SUBSET Envelopes
        BY DEF Accepted
    <2>2. DocInv(replica[r].state, S) /\ DocInv(replica[s].state, S)
        BY <1>1 DEF IInv, ReplicaInv
    <2> QED BY <2>1, <2>2, DocumentDetermined
<1> QED BY <1>1, Invariance, PTL

\* Of rival edits a replica accepts one.
THEOREM RivalsRefused == Spec => []OneEditPerRevision
<1>1. ASSUME IInv PROVE OneEditPerRevision
    <2> SUFFICES ASSUME NEW r \in Replicas,
                        NEW e \in Accepted(replica[r]),
                        NEW f \in Accepted(replica[r]),
                        {e.op.type, f.op.type} \subseteq EditTypes,
                        e.op.note = f.op.note,
                        e.op.expected = f.op.expected,
                        Ledger!AddedOnce(Accepted(replica[r]), e.op.note)
                 PROVE  e = f
        BY DEF OneEditPerRevision
    <2> DEFINE S == Accepted(replica[r])
               n == e.op.note
    <2>1. n \in NoteIds
        BY ExpectedType DEF Accepted
    <2>2. EditsDistinct(S, n)
        BY <1>1, <2>1 DEF IInv, ReplicaInv, DocInv
    <2>3. {e, f} \subseteq Ledger!Moves(S, n) \cup Ledger!Deletions(S, n)
        BY DEF EditTypes, Ledger!Moves, Ledger!Deletions
    <2> QED BY <2>2, <2>3 DEF EditsDistinct
<1> QED BY <1>1, Invariance, PTL

\* A reported gap is a gap.
THEOREM GapsCorrect == Spec => []GapsAreReal
<1>1. ASSUME IInv PROVE GapsAreReal
    <2> SUFFICES ASSUME NEW r \in Replicas, NEW env \in Envelopes,
                        NEW e \in Accepted(replica[r]),
                        e.actor = env.actor
                 PROVE  e.seq # GapStart(replica[r], env)
        BY DEF GapsAreReal
    <2>1. env.actor \in Actors /\ e.seq \in Nat
        BY EnvelopesAssumption DEF Envelope, Accepted
    <2>2. /\ replica[r].sequences[env.actor] \in Nat
          /\ e.seq <= replica[r].sequences[env.actor]
        BY <1>1, <2>1 DEF IInv, ReplicaInv, ReplicaState, SequencesFollow
    <2> QED BY <2>1, <2>2 DEF GapStart
<1> QED BY <1>1, Invariance, PTL

\* The replicas implement the ledger.
THEOREM Refinement == Spec => ImplementsLedger
<1> DEFINE ledgers == [r \in Replicas |-> Accepted(replica[r])]
<1>1. Init => Ledger!Init
    <2>1. Accepted(NewReplica) = {}
        BY DEF Accepted, NewReplica
    <2> QED BY <2>1 DEF Init, Ledger!Init
<1>2. ASSUME IInv, [Next]_replica
      PROVE  [Ledger!Next]_ledgers
    <2>1. CASE UNCHANGED replica
        BY <2>1
    <2>2. CASE Next
        <3>0. PICK r \in Replicas : \E new :
                  /\ replica' = [replica EXCEPT ![r] = new]
                  /\ \E first \in {replica[r], NewReplica} :
                        Ledger!GrowsTwice(Accepted(first), Accepted(new))
            BY <1>2, <2>2, StepShape
        <3>1. PICK new :
                  /\ replica' = [replica EXCEPT ![r] = new]
                  /\ \E first \in {replica[r], NewReplica} :
                        Ledger!GrowsTwice(Accepted(first), Accepted(new))
            BY <3>0
        <3>2. ledgers' = [ledgers EXCEPT ![r] = Accepted(new)]
            BY <1>2, <3>1 DEF IInv, Accepted
        <3>3. Accepted(NewReplica) = {}
            BY DEF Accepted, NewReplica
        <3>4. CASE Ledger!GrowsTwice(Accepted(replica[r]), Accepted(new))
            BY <1>2, <3>2, <3>4 DEF Ledger!Next, Ledger!Extend, Ledger!Becomes
        <3>5. CASE Ledger!GrowsTwice({}, Accepted(new))
            BY <1>2, <3>2, <3>5 DEF Ledger!Next, Ledger!Rebuild, Ledger!Becomes
        <3> QED BY <3>1, <3>3, <3>4, <3>5
    <2> QED BY <1>2, <2>1, <2>2
<1> QED BY <1>1, <1>2, Invariance, PTL DEF Spec, ImplementsLedger, Ledger!Spec

-----------------------------------------------------------------------------
(* Operations in either order                                              *)

\* What the order of two operations depends on: no more than a document that
\* validate and apply left behind.
Sound(doc) ==
    doc \in DocumentState /\ NotesOnTracks(doc) /\ RevisionSynced(doc)

\* The track whose note op writes, and what it writes there.
Cell(doc, op) ==
    IF op.type = "AddNote" THEN op.track ELSE FirstTrack(doc, op.note)

NewNote(doc, op) ==
    LET old == doc.note[FirstTrack(doc, op.note)][op.note]
    IN  CASE op.type = "AddNote" ->
                [start |-> op.start, body |-> op.body, revision |-> 1]
          [] op.type = "MoveNote" ->
                [start |-> op.start, body |-> old.body,
                 revision |-> old.revision + 1]
          [] op.type = "DeleteNote" -> Absent

\* new holds the same notes of id n as doc, on the same tracks.
SameNotes(doc, new, n) == \A t \in TrackIds : new.note[t][n] = doc.note[t][n]

NameAfter(doc, op, u) ==
    IF op.type = "AddTrack" /\ u = op.track THEN op.name ELSE doc.name[u]

NoteAfter(doc, op, u, m) ==
    IF op.type # "AddTrack" /\ u = Cell(doc, op) /\ m = op.note
    THEN NewNote(doc, op) ELSE doc.note[u][m]

LEMMA NoteOperation ==
    ASSUME NEW op \in Operation, op.type # "AddTrack"
    PROVE  "note" \in DOMAIN op /\ op.note \in NoteIds
BY DEF Operation, AddTrackOp, AddNoteOp, MoveNoteOp, DeleteNoteOp

\* An accepted operation writes one name or one note.
LEMMA WrittenCells ==
    ASSUME NEW doc, Sound(doc), NEW e \in Envelope,
           Validate(doc, e) = "Accepted"
    PROVE  /\ \A u \in TrackIds :
                 Written(doc, e.op).name[u] = NameAfter(doc, e.op, u)
           /\ \A u \in TrackIds : \A m \in NoteIds :
                 Written(doc, e.op).note[u][m] = NoteAfter(doc, e.op, u, m)
<1> DEFINE op  == e.op
           new == Written(doc, op)
<1>1. op \in Operation
    BY DEF Envelope
<1>2. doc \in DocumentState /\ RevisionsBounded(doc, doc.revision)
    BY DEF Sound, RevisionSynced
<1>3. new.name = Edited(doc, op).name /\ new.note = Edited(doc, op).note
    BY <1>2, WrittenEffect
<1> HIDE DEF new
<1>4. CASE op.type = "AddTrack" /\ op \in AddTrackOp
    <2>1. Edited(doc, op) = ApplyAddTrack(doc, op)
        BY <1>4 DEF Edited
    <2>2. doc.name[op.track] = Absent /\ op.track \in TrackIds
        BY <1>4 DEF Validate, ValidateAddTrack, AddTrackOp
    <2>3. \A m \in NoteIds : doc.note[op.track][m] = Absent
        BY <2>2 DEF Sound, NotesOnTracks
    <2>4. /\ new.name[op.track] = op.name
          /\ \A u \in TrackIds : u # op.track => new.name[u] = doc.name[u]
          /\ \A u \in TrackIds : \A m \in NoteIds :
                new.note[u][m] = IF u = op.track THEN Absent
                                                 ELSE doc.note[u][m]
        BY <1>2, <1>3, <1>4, <2>1, AddTrackEffect
    <2> QED BY <1>4, <2>3, <2>4 DEF NameAfter, NoteAfter, new
<1>5. CASE op.type # "AddTrack"
    <2> DEFINE t == Cell(doc, op)
    <2>1. op.note \in NoteIds
        BY <1>1, <1>5, NoteOperation
    <2>2. /\ t \in TrackIds
          /\ NewNote(doc, op) \in MidiNote \cup {Absent}
          /\ Edited(doc, op) = PutNote(doc, t, op.note, NewNote(doc, op))
        <3>1. CASE op.type = "AddNote" /\ op \in AddNoteOp
            BY <3>1 DEF Cell, NewNote, Edited, ApplyAddNote, AddNoteOp, MidiNote
        <3>2. CASE op.type \in EditTypes /\ op \in MoveNoteOp \cup DeleteNoteOp
            <4>1. TracksHolding(doc, op.note) # {}
                BY <3>2 DEF Validate, ValidateEdit, EditTypes
            <4>2. /\ t \in TrackIds /\ t = FirstTrack(doc, op.note)
                  /\ doc.note[t][op.note] \in MidiNote
                BY <1>2, <2>1, <3>2, <4>1, FirstTrackHolds
                DEF Cell, EditTypes, TracksHolding, DocumentState
            <4> HIDE DEF t
            <4>3. CASE op.type = "MoveNote" /\ op.start \in Starts
                BY <4>2, <4>3 DEF NewNote, Edited, ApplyMoveNote, MidiNote
            <4>4. CASE op.type = "DeleteNote"
                BY <4>2, <4>4 DEF NewNote, Edited, ApplyDeleteNote
            <4>5. op.type = "MoveNote" => op.start \in Starts
                BY <3>2 DEF MoveNoteOp, DeleteNoteOp
            <4> QED BY <3>2, <4>3, <4>4, <4>5 DEF EditTypes
        <3> QED BY <1>1, <1>5, <3>1, <3>2, OperationTypes DEF EditTypes
    <2> HIDE DEF t
    <2>3. /\ new.name = doc.name
          /\ new.note[t][op.note] = NewNote(doc, op)
          /\ \A u \in TrackIds : \A m \in NoteIds :
                u # t \/ m # op.note => new.note[u][m] = doc.note[u][m]
        BY <1>2, <1>3, <2>1, <2>2, PutNoteEffect
    <2> QED BY <1>5, <2>3 DEF NameAfter, NoteAfter, new, t
<1> QED BY <1>1, <1>4, <1>5, OperationTypes

\* What an accepted operation writes is sound again.
LEMMA WrittenSound ==
    ASSUME NEW doc, Sound(doc), NEW e \in Envelope,
           Validate(doc, e) = "Accepted"
    PROVE  Sound(Written(doc, e.op))
<1> DEFINE op  == e.op
           new == Written(doc, op)
<1>1. op \in Operation
    BY DEF Envelope
<1>2. doc \in DocumentState /\ RevisionsBounded(doc, doc.revision)
    BY DEF Sound, RevisionSynced
<1>3. new \in DocumentState /\ RevisionSynced(new)
    BY <1>2, WrittenEffect
<1>4. ASSUME NEW u \in TrackIds, NEW m \in NoteIds, new.note[u][m] # Absent
      PROVE  new.name[u] # Absent
    <2>1. /\ new.name[u] = NameAfter(doc, op, u)
          /\ new.note[u][m] = NoteAfter(doc, op, u, m)
        BY WrittenCells
    <2>2. doc.name[u] # Absent => new.name[u] # Absent
        BY <1>1, <2>1, OperationTypes, DocumentAssumption
        DEF NameAfter, AddTrackOp
    <2>3. CASE doc.note[u][m] # Absent
        BY <2>2, <2>3 DEF Sound, NotesOnTracks
    <2>4. CASE doc.note[u][m] = Absent
        <3>1. op.type # "AddTrack" /\ u = Cell(doc, op) /\ m = op.note
            BY <1>4, <2>1, <2>4 DEF NoteAfter
        <3>2. CASE op.type = "AddNote"
            BY <2>2, <3>1, <3>2 DEF Cell, Validate, ValidateAddNote
        <3>3. CASE op.type \in EditTypes
            <4>1. TracksHolding(doc, op.note) # {}
                BY <3>3 DEF Validate, ValidateEdit, EditTypes
            <4>2. u = FirstTrack(doc, op.note)
                BY <3>1, <3>3 DEF Cell, EditTypes
            <4> QED BY <2>4, <3>1, <4>1, <4>2, FirstTrackHolds DEF TracksHolding
        <3> QED BY <1>1, <3>1, <3>2, <3>3, OperationTypes DEF EditTypes
    <2> QED BY <2>3, <2>4
<1> QED BY <1>3, <1>4 DEF Sound, NotesOnTracks

\* What an operation does to a note is a matter of the notes of its id.
LEMMA SameNotesSameEdit ==
    ASSUME NEW doc, NEW new, NEW op \in Operation, op.type # "AddTrack",
           SameNotes(doc, new, op.note)
    PROVE  /\ TracksHolding(new, op.note) = TracksHolding(doc, op.note)
           /\ FirstTrack(new, op.note) = FirstTrack(doc, op.note)
           /\ Cell(new, op) = Cell(doc, op)
<1>1. TracksHolding(new, op.note) = TracksHolding(doc, op.note)
    BY DEF SameNotes, TracksHolding
<1>2. FirstTrack(new, op.note) = FirstTrack(doc, op.note)
    BY <1>1 DEF FirstTrack
<1> QED BY <1>1, <1>2 DEF Cell

\* The operations classify() leaves alone, of two different notes.
FreePair(a, b) ==
    /\ FreelyOrdered(a, b)
    /\ ~ ("note" \in DOMAIN a /\ "note" \in DOMAIN b /\ a.note = b.note)

LEMMA FreePairSymmetric ==
    ASSUME NEW a \in Operation, NEW b \in Operation, FreePair(a, b)
    PROVE  FreePair(b, a)
<1>1. CASE a.type = "AddTrack" /\ b.type = "AddTrack"
    BY <1>1 DEF FreePair, FreelyOrdered, Classify, EditTypes
<1>2. CASE a.type = "AddNote" /\ b.type = "AddNote"
    BY <1>2 DEF FreePair, FreelyOrdered, Classify, EditTypes
<1>3. CASE /\ a.type \in EditTypes /\ b.type \in EditTypes
    <2>1. a.note # b.note
        BY <1>3, NoteOperation DEF FreePair, EditTypes
    <2> QED BY <1>3, <2>1 DEF FreePair, FreelyOrdered, Classify, EditTypes
<1>4. CASE a.type # b.type /\ ~ (a.type \in EditTypes /\ b.type \in EditTypes)
    BY <1>4 DEF FreePair, FreelyOrdered, Classify, EditTypes
<1> QED BY <1>1, <1>2, <1>3, <1>4, OperationTypes DEF EditTypes

\* f finds after e what it found before.
LEMMA UntouchedByOther ==
    ASSUME NEW doc, Sound(doc), NEW e \in Envelope, NEW f \in Envelope,
           FreePair(e.op, f.op),
           Validate(doc, e) = "Accepted", Validate(doc, f) = "Accepted"
    PROVE  LET new == Written(doc, e.op)
           IN  /\ Validate(new, f) = "Accepted"
               /\ f.op.type # "AddTrack" =>
                     /\ Cell(new, f.op) = Cell(doc, f.op)
                     /\ NewNote(new, f.op) = NewNote(doc, f.op)
<1> DEFINE new == Written(doc, e.op)
<1>1. e.op \in Operation /\ f.op \in Operation
    BY DEF Envelope
<1>2. /\ \A u \in TrackIds : new.name[u] = NameAfter(doc, e.op, u)
      /\ \A u \in TrackIds : \A m \in NoteIds :
            new.note[u][m] = NoteAfter(doc, e.op, u, m)
    BY WrittenCells
<1>3. Absent \notin Names
    BY DocumentAssumption
<1> HIDE DEF new
<1>4. CASE f.op.type = "AddTrack" /\ f.op \in AddTrackOp
    <2>1. /\ f.op.track \in TrackIds /\ doc.name[f.op.track] = Absent
          /\ f.version = PROTOCOL_VERSION
        BY <1>4 DEF AddTrackOp, Validate, ValidateAddTrack
    <2>2. e.op.type = "AddTrack" => e.op.track # f.op.track
        BY <1>4 DEF FreePair, FreelyOrdered, Classify
    <2>3. new.name[f.op.track] = Absent
        BY <1>2, <2>1, <2>2 DEF NameAfter
    <2> QED BY <1>4, <2>1, <2>3 DEF Validate, ValidateAddTrack, new
<1>5. CASE f.op.type # "AddTrack"
    <2> DEFINE n == f.op.note
    <2>1. n \in NoteIds /\ (e.op.type # "AddTrack" => e.op.note # n)
        BY <1>1, <1>5, NoteOperation DEF FreePair
    <2>2. SameNotes(doc, new, n)
        BY <1>2, <2>1 DEF SameNotes, NoteAfter
    <2>3. /\ TracksHolding(new, n) = TracksHolding(doc, n)
          /\ FirstTrack(new, n) = FirstTrack(doc, n)
          /\ Cell(new, f.op) = Cell(doc, f.op)
        BY <1>1, <1>5, <2>2, SameNotesSameEdit
    <2>4. CASE f.op.type = "AddNote" /\ f.op \in AddNoteOp
        <3>1. /\ f.op.track \in TrackIds /\ doc.name[f.op.track] # Absent
              /\ doc.note[f.op.track][n] = Absent
              /\ f.op.body \in PlayableBodies
              /\ f.version = PROTOCOL_VERSION
            BY <2>4 DEF AddNoteOp, Validate, ValidateAddNote
        <3>2. new.name[f.op.track] # Absent
            BY <1>1, <1>2, <1>3, <3>1, OperationTypes DEF NameAfter, AddTrackOp
        <3>3. new.note[f.op.track][n] = Absent
            BY <2>2, <3>1 DEF SameNotes
        <3>4. Validate(new, f) = "Accepted"
            BY <2>4, <3>1, <3>2, <3>3 DEF Validate, ValidateAddNote
        <3>5. NewNote(new, f.op) = NewNote(doc, f.op)
            BY <2>4 DEF NewNote
        <3> QED BY <2>3, <3>4, <3>5 DEF new
    <2>5. CASE f.op.type \in EditTypes
        <3>1. /\ TracksHolding(doc, n) # {}
              /\ doc.note[FirstTrack(doc, n)][n].revision = f.op.expected
              /\ f.version = PROTOCOL_VERSION
            BY <2>5 DEF Validate, ValidateEdit, EditTypes
        <3>2. FirstTrack(doc, n) \in TrackIds
            BY <3>1, FirstTrackHolds DEF TracksHolding
        <3>3. new.note[FirstTrack(new, n)][n] = doc.note[FirstTrack(doc, n)][n]
            BY <2>2, <2>3, <3>2 DEF SameNotes
        <3>4. Validate(new, f) = "Accepted"
            BY <2>3, <2>5, <3>1, <3>3 DEF Validate, ValidateEdit, EditTypes
        <3>5. NewNote(new, f.op) = NewNote(doc, f.op)
            BY <2>5, <3>3 DEF NewNote, EditTypes
        <3> QED BY <2>3, <3>4, <3>5 DEF new
    <2> QED BY <1>1, <1>5, <2>4, <2>5, OperationTypes DEF EditTypes
<1> QED BY <1>1, <1>4, <1>5, OperationTypes DEF new

\* A sound document is determined by its names and notes.
LEMMA SoundDetermined ==
    ASSUME NEW c, NEW d, Sound(c), Sound(d),
           \A t \in TrackIds : c.name[t] = d.name[t],
           \A t \in TrackIds : \A n \in NoteIds : c.note[t][n] = d.note[t][n]
    PROVE  c = d
<1>1. c \in DocumentState /\ d \in DocumentState
    BY DEF Sound
<1>2. c.name = d.name
    BY <1>1 DEF DocumentState
<1>3. c.note = d.note
    <2>1. ASSUME NEW t \in TrackIds
          PROVE  c.note[t] = d.note[t]
        BY <1>1 DEF DocumentState
    <2> QED BY <1>1, <2>1 DEF DocumentState
<1>4. NoteRevisions(c) = NoteRevisions(d)
    BY <1>3 DEF NoteRevisions, Present
<1>5. c.revision = d.revision
    BY <1>4 DEF Sound, RevisionSynced, SyncedRevision
<1> QED BY <1>1, <1>2, <1>3, <1>5 DEF DocumentState

\* Either order of a free pair leaves the same document.
LEMMA FreePairCommutes ==
    ASSUME NEW doc, Sound(doc), NEW e \in Envelope, NEW f \in Envelope,
           FreePair(e.op, f.op),
           Validate(doc, e) = "Accepted", Validate(doc, f) = "Accepted"
    PROVE  /\ Validate(Apply(doc, e), f) = "Accepted"
           /\ Apply(Apply(doc, e), f) = Apply(Apply(doc, f), e)
<1> DEFINE c  == Written(doc, e.op)
           d  == Written(doc, f.op)
           cd == Written(c, f.op)
           dc == Written(d, e.op)
<1>1. e.op \in Operation /\ f.op \in Operation
    BY DEF Envelope
<1>2. FreePair(f.op, e.op)
    BY <1>1, FreePairSymmetric
<1>3. Sound(c) /\ Sound(d)
    BY WrittenSound
<1>4. /\ Validate(c, f) = "Accepted"
      /\ f.op.type # "AddTrack" =>
            Cell(c, f.op) = Cell(doc, f.op) /\ NewNote(c, f.op) = NewNote(doc, f.op)
    BY UntouchedByOther
<1>5. /\ Validate(d, e) = "Accepted"
      /\ e.op.type # "AddTrack" =>
            Cell(d, e.op) = Cell(doc, e.op) /\ NewNote(d, e.op) = NewNote(doc, e.op)
    BY <1>2, UntouchedByOther
<1>6. /\ \A u \in TrackIds : /\ c.name[u] = NameAfter(doc, e.op, u)
                             /\ d.name[u] = NameAfter(doc, f.op, u)
      /\ \A u \in TrackIds : \A m \in NoteIds :
            /\ c.note[u][m] = NoteAfter(doc, e.op, u, m)
            /\ d.note[u][m] = NoteAfter(doc, f.op, u, m)
    BY WrittenCells
<1>7. Apply(doc, e) = c /\ Apply(doc, f) = d
    BY DEF Apply
<1> HIDE DEF c, d
<1>8. Sound(cd) /\ Sound(dc)
    BY <1>3, <1>4, <1>5, WrittenSound
<1>9. /\ \A u \in TrackIds : /\ cd.name[u] = NameAfter(c, f.op, u)
                             /\ dc.name[u] = NameAfter(d, e.op, u)
      /\ \A u \in TrackIds : \A m \in NoteIds :
            /\ cd.note[u][m] = NoteAfter(c, f.op, u, m)
            /\ dc.note[u][m] = NoteAfter(d, e.op, u, m)
    BY <1>3, <1>4, <1>5, WrittenCells
<1>10. Apply(c, f) = cd /\ Apply(d, e) = dc
    BY <1>4, <1>5 DEF Apply
<1> HIDE DEF cd, dc
<1>11. ASSUME NEW u \in TrackIds PROVE cd.name[u] = dc.name[u]
    <2>1. e.op.type = "AddTrack" /\ f.op.type = "AddTrack" =>
              e.op.track # f.op.track
        BY DEF FreePair, FreelyOrdered, Classify
    <2> QED BY <1>6, <1>9, <2>1 DEF NameAfter
<1>12. ASSUME NEW u \in TrackIds, NEW m \in NoteIds
       PROVE  cd.note[u][m] = dc.note[u][m]
    <2>1. e.op.type # "AddTrack" /\ f.op.type # "AddTrack" =>
              e.op.note # f.op.note
        BY <1>1, NoteOperation DEF FreePair
    <2> QED BY <1>4, <1>5, <1>6, <1>9, <2>1 DEF NoteAfter
<1>13. cd = dc
    BY <1>8, <1>11, <1>12, SoundDetermined
<1> QED BY <1>4, <1>7, <1>10, <1>13

\* classify() is right about what may go unordered, in every document a
\* replica can hold, the reused note ids of the findings excepted.
THEOREM OrderFree == Spec => []FreeOrderIsSafe
<1>1. ASSUME IInv PROVE FreeOrderIsSafe
    <2> SUFFICES ASSUME NEW r \in Replicas,
                        NEW e \in Envelopes, NEW f \in Envelopes,
                        FreelyOrdered(e.op, f.op),
                        ~ ("note" \in DOMAIN e.op /\ "note" \in DOMAIN f.op
                            /\ e.op.note = f.op.note),
                        Validate(replica[r].state, e) = "Accepted",
                        Validate(replica[r].state, f) = "Accepted"
                 PROVE  LET doc == replica[r].state
                        IN  /\ Validate(Apply(doc, e), f) = "Accepted"
                            /\ Apply(Apply(doc, e), f) = Apply(Apply(doc, f), e)
        BY DEF FreeOrderIsSafe
    <2>1. Sound(replica[r].state)
        BY <1>1 DEF IInv, ReplicaInv, DocInv, Sound
    <2>2. e \in Envelope /\ f \in Envelope /\ FreePair(e.op, f.op)
        BY EnvelopesAssumption DEF FreePair
    <2> QED BY <2>1, <2>2, FreePairCommutes
<1> QED BY <1>1, Invariance, PTL
=============================================================================
