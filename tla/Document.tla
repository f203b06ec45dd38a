------------------------------ MODULE Document ------------------------------
(***************************************************************************)
(* The semantic kernel of EchLub: the canonical document (echlub-model)    *)
(* and the two pure functions every write goes through, Kernel::validate   *)
(* and Kernel::apply (echlub-kernel).                                      *)
(*                                                                         *)
(* The document is kept as two total functions instead of nested maps:     *)
(* name[t] is the name of track t, note[t][n] the note with id n on track  *)
(* t, and Absent stands for a missing key.  The duration, pitch and        *)
(* velocity of a note never change after AddNote and are only range        *)
(* checked, so they are one opaque "body"; PlayableBodies are those that   *)
(* pass the range check.                                                   *)
(***************************************************************************)
EXTENDS Naturals

CONSTANTS
    TrackIds,        \* naturals, ordered as the keys of the BTreeMap are
    NoteIds,
    Names,           \* track names
    Starts,          \* note start ticks
    Bodies,          \* (duration, pitch, velocity) of a note
    PlayableBodies,  \* bodies with duration # 0, pitch <= 127, velocity <= 127
    Absent           \* no track or no note under this key

ASSUME DocumentAssumption ==
    /\ TrackIds \subseteq Nat
    /\ PlayableBodies \subseteq Bodies
    /\ Absent \notin Names
    /\ Absent \notin [start : Starts, body : Bodies, revision : Nat]

PROTOCOL_VERSION == 1

MidiNote == [start : Starts, body : Bodies, revision : Nat]

DocumentState ==
    [revision : Nat,
     name     : [TrackIds -> Names \cup {Absent}],
     note     : [TrackIds -> [NoteIds -> MidiNote \cup {Absent}]]]

EmptyDocument ==
    [revision |-> 0,
     name     |-> [t \in TrackIds |-> Absent],
     note     |-> [t \in TrackIds |-> [n \in NoteIds |-> Absent]]]

AddTrackOp   == [type : {"AddTrack"}, track : TrackIds, name : Names]
AddNoteOp    == [type : {"AddNote"}, track : TrackIds, note : NoteIds,
                 start : Starts, body : Bodies]
MoveNoteOp   == [type : {"MoveNote"}, note : NoteIds, expected : Nat,
                 start : Starts]
DeleteNoteOp == [type : {"DeleteNote"}, note : NoteIds, expected : Nat]

Operation == AddTrackOp \cup AddNoteOp \cup MoveNoteOp \cup DeleteNoteOp

\* The decisions Kernel::validate and Replica::ingest return.
ValidationDecision ==
    {"Accepted", "Rejected", "Duplicate", "MissingDependency",
     "StaleRevision", "UnsupportedVersion"}

-----------------------------------------------------------------------------
(* Looking a note up.  A note id may be present on several tracks; the     *)
(* code takes the first track in key order.                                *)

TracksHolding(doc, n) == {t \in TrackIds : doc.note[t][n] # Absent}

FirstTrack(doc, n) ==
    CHOOSE t \in TracksHolding(doc, n) :
        \A u \in TracksHolding(doc, n) : t <= u

-----------------------------------------------------------------------------
(* Kernel::validate                                                        *)

\* Mutant: a second creation of a track replaces the first.
ValidateAddTrackUnchecked(doc, op) == "Accepted"

ValidateAddTrack(doc, op) ==
    IF doc.name[op.track] # Absent THEN "Rejected" ELSE "Accepted"

\* Mutant: the track of the note is not looked up.
ValidateAddNoteAnywhere(doc, op) ==
    IF \/ op.body \notin PlayableBodies
       \/ doc.note[op.track][op.note] # Absent
    THEN "Rejected"
    ELSE "Accepted"

ValidateAddNote(doc, op) ==
    IF doc.name[op.track] = Absent THEN "MissingDependency"
    ELSE IF \/ op.body \notin PlayableBodies
            \/ doc.note[op.track][op.note] # Absent
         THEN "Rejected"
         ELSE "Accepted"

\* MoveNote and DeleteNote are validated alike.
ValidateEdit(doc, op) ==
    IF TracksHolding(doc, op.note) = {} THEN "MissingDependency"
    ELSE IF doc.note[FirstTrack(doc, op.note)][op.note].revision # op.expected
         THEN "StaleRevision"
         ELSE "Accepted"

Validate(doc, env) ==
    IF env.version # PROTOCOL_VERSION THEN "UnsupportedVersion"
    ELSE CASE env.op.type = "AddTrack" -> ValidateAddTrack(doc, env.op)
           [] env.op.type = "AddNote"  -> ValidateAddNote(doc, env.op)
           [] env.op.type \in {"MoveNote", "DeleteNote"} ->
                                          ValidateEdit(doc, env.op)

-----------------------------------------------------------------------------
(* Kernel::apply                                                           *)

Present(doc) ==
    {p \in TrackIds \X NoteIds : doc.note[p[1]][p[2]] # Absent}

NoteRevisions(doc) == {doc.note[p[1]][p[2]].revision : p \in Present(doc)}

\* The document revision is the largest note revision, 0 without notes.
SyncedRevision(doc) ==
    IF NoteRevisions(doc) = {} THEN 0
    ELSE CHOOSE m \in NoteRevisions(doc) :
             \A k \in NoteRevisions(doc) : k <= m

ApplyAddTrack(doc, op) ==
    [revision |-> doc.revision,
     name     |-> [doc.name EXCEPT ![op.track] = op.name],
     note     |-> [doc.note EXCEPT ![op.track] = [n \in NoteIds |-> Absent]]]

PutNote(doc, t, n, note) == [doc EXCEPT !.note[t][n] = note]

ApplyAddNote(doc, op) ==
    PutNote(doc, op.track, op.note,
            [start |-> op.start, body |-> op.body, revision |-> 1])

\* Mutants: the revision is not advanced; start and revision are swapped.
ApplyMoveNoteSameRevision(doc, op) ==
    LET t   == FirstTrack(doc, op.note)
        old == doc.note[t][op.note]
    IN  PutNote(doc, t, op.note, [old EXCEPT !.start = op.start])

ApplyMoveNoteSwapped(doc, op) ==
    LET t   == FirstTrack(doc, op.note)
        old == doc.note[t][op.note]
    IN  PutNote(doc, t, op.note, [start |-> op.expected, body |-> old.body,
                                  revision |-> old.revision + 1])

ApplyMoveNote(doc, op) ==
    LET t   == FirstTrack(doc, op.note)
        old == doc.note[t][op.note]
    IN  PutNote(doc, t, op.note, [start |-> op.start, body |-> old.body,
                                  revision |-> old.revision + 1])

ApplyDeleteNote(doc, op) ==
    PutNote(doc, FirstTrack(doc, op.note), op.note, Absent)

Edited(doc, op) ==
    CASE op.type = "AddTrack"   -> ApplyAddTrack(doc, op)
      [] op.type = "AddNote"    -> ApplyAddNote(doc, op)
      [] op.type = "MoveNote"   -> ApplyMoveNote(doc, op)
      [] op.type = "DeleteNote" -> ApplyDeleteNote(doc, op)

\* Mutant: the document revision is that of the note just edited.
WrittenLastEdit(doc, op) ==
    [Edited(doc, op) EXCEPT !.revision =
        CASE op.type = "AddTrack"   -> doc.revision
          [] op.type = "AddNote"    -> 1
          [] op.type = "MoveNote"   -> op.expected + 1
          [] op.type = "DeleteNote" -> op.expected]

Written(doc, op) ==
    [Edited(doc, op) EXCEPT !.revision = SyncedRevision(Edited(doc, op))]

\* Kernel::apply validates by itself and leaves the document alone when the
\* operation is refused.
Apply(doc, env) ==
    IF Validate(doc, env) = "Accepted" THEN Written(doc, env.op) ELSE doc
=============================================================================
