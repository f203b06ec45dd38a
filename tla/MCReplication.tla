--------------------------- MODULE MCReplication ---------------------------
(***************************************************************************)
(* Universes of envelopes for model checking Replication.  Actor a owns    *)
(* track 1 and note n1, actor b edits them concurrently.                   *)
(***************************************************************************)
EXTENDS Replication, TLC

CONSTANTS a, b, n1, n2, x, y, z, good, other, bad

AddTrack(t, name)       == [type |-> "AddTrack", track |-> t, name |-> name]
AddNote(t, n, s, body)  == [type |-> "AddNote", track |-> t, note |-> n,
                            start |-> s, body |-> body]
MoveNote(n, rev, s)     == [type |-> "MoveNote", note |-> n,
                            expected |-> rev, start |-> s]
DeleteNote(n, rev)      == [type |-> "DeleteNote", note |-> n,
                            expected |-> rev]

Sent(id, actor, seq, op) ==
    [id |-> id, actor |-> actor, seq |-> seq, version |-> 1, op |-> op]

\* Rival creations of a track, rival moves of a note, a chain of moves that
\* rivals its deletion, a second note, and one that cannot be played.
MCRivals ==
    { Sent(1, a, 1, AddTrack(1, x)),
      Sent(2, b, 1, AddTrack(2, y)),
      Sent(3, a, 2, AddTrack(2, x)),
      Sent(4, a, 3, AddNote(1, n1, x, good)),
      Sent(5, a, 4, MoveNote(n1, 1, y)),
      Sent(6, b, 2, MoveNote(n1, 1, z)),
      Sent(7, b, 3, MoveNote(n1, 2, x)),
      Sent(8, a, 5, DeleteNote(n1, 2)),
      Sent(9, b, 4, AddNote(2, n2, z, other)),
      Sent(10, b, 5, AddNote(1, n2, z, bad)) }

\* Replicas only differ in what they were sent.
Symmetry == Permutations(Replicas)

\* Actor a adds note n1 to track 2 and to track 1, actor b moves it.
MCReuse ==
    { Sent(1, a, 1, AddTrack(1, x)),
      Sent(2, a, 2, AddTrack(2, x)),
      Sent(3, a, 3, AddNote(2, n1, x, good)),
      Sent(4, a, 4, AddNote(1, n1, y, other)),
      Sent(5, b, 1, MoveNote(n1, 1, z)),
      Sent(6, b, 2, DeleteNote(n1, 1)) }

\* A note is deleted and its id added again while a move of actor b, made
\* against the first note, is on its way.
MCReadd ==
    { Sent(1, a, 1, AddTrack(1, x)),
      Sent(2, a, 2, AddNote(1, n1, x, good)),
      Sent(3, a, 3, DeleteNote(n1, 1)),
      Sent(4, a, 4, AddNote(1, n1, y, other)),
      Sent(5, b, 1, MoveNote(n1, 1, z)) }

-----------------------------------------------------------------------------
(* Statements of the documents that the code does not keep.                *)

\* "No silent overwrite on stale revision" (data-contracts.md): a replica
\* never accepts two edits made against the same revision of one note id.
NoStaleRevisionAccepted ==
    \A r \in Replicas : \A e, f \in Accepted(replica[r]) :
        /\ {e.op.type, f.op.type} \subseteq EditTypes
        /\ e.op.note = f.op.note
        /\ e.op.expected = f.op.expected
        => e = f

\* "Concurrent same-note edits require coordination" (ADR-0005): two
\* operations on one note that a replica would both accept, but whose order
\* decides what the document becomes, are never classified as freely ordered.
SameNoteEditsCoordinate ==
    \A r \in Replicas : \A e, f \in Envelopes :
        LET doc == replica[r].state
        IN  /\ {e.op.type, f.op.type} \subseteq EditTypes \cup {"AddNote"}
            /\ e.op.note = f.op.note
            /\ Validate(doc, e) = "Accepted"
            /\ Validate(doc, f) = "Accepted"
            /\ Apply(Apply(doc, e), f) # Apply(Apply(doc, f), e)
            => ~ FreelyOrdered(e.op, f.op)
=============================================================================
