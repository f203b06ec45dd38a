--------------------------- MODULE Collaboration ---------------------------
(***************************************************************************)
(* echlub-collaboration: the relation between two operations that the      *)
(* protocol lab uses to decide whether concurrent operations may be        *)
(* applied without coordination.                                           *)
(***************************************************************************)
EXTENDS Document

EditTypes == {"MoveNote", "DeleteNote"}

\* classify(a, b), arm by arm; the order of the arms does not matter because
\* their guards are disjoint.
Classify(a, b) ==
    CASE a.type = "AddTrack" /\ b.type = "AddTrack" ->
            IF a.track # b.track THEN "Commutative"
                                 ELSE "RequiresCoordination"
      [] a.type = "AddNote" /\ b.type = "AddNote" ->
            IF a.note # b.note THEN "Commutative"
                               ELSE "RequiresCoordination"
      [] /\ {a.type, b.type} \subseteq EditTypes
         /\ a.note = b.note
         /\ a.type = b.type -> "RequiresCoordination"
      [] /\ {a.type, b.type} = EditTypes
         /\ a.note = b.note -> "DestructiveConflict"
      [] OTHER -> "Independent"

\* Relations that need neither coordination nor conflict handling.
FreelyOrdered(a, b) == Classify(a, b) \in {"Commutative", "Independent"}
=============================================================================
