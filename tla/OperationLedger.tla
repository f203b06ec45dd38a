-------------------------- MODULE OperationLedger --------------------------
(***************************************************************************)
(* What echlub-replication promises, stated without documents: every       *)
(* replica keeps a ledger of the operations it accepted, and an operation  *)
(* enters a ledger only if the operations it builds on are already there   *)
(* and nothing in the ledger has taken its place:                          *)
(*   - a track is created at most once;                                    *)
(*   - a note is added only to a track that was created;                   *)
(*   - the moves of a note form a chain 1, 2, 3, ... of expected revisions *)
(*     closed by at most one delete, as long as no note id is added twice  *)
(*     (the kernel promises nothing of the sort for a reused id).          *)
(* The module is the abstract specification Replication is shown to        *)
(* implement; it is not itself a translation of code.                      *)
(***************************************************************************)
EXTENDS Naturals

CONSTANTS Replicas, Envelopes

VARIABLE ledger   \* ledger[r] is the set of envelopes replica r accepted

-----------------------------------------------------------------------------
TrackCreations(S, t) == {e \in S : e.op.type = "AddTrack" /\ e.op.track = t}
NoteAdditions(S, n)  == {e \in S : e.op.type = "AddNote" /\ e.op.note = n}
Moves(S, n)          == {e \in S : e.op.type = "MoveNote" /\ e.op.note = n}
Deletions(S, n)      == {e \in S : e.op.type = "DeleteNote" /\ e.op.note = n}

\* Note id n is added by at most one operation of S.
AddedOnce(S, n) == \A e, f \in NoteAdditions(S, n) : e = f

\* The next edit of note n must carry the revision the chain has reached.
ContinuesChain(S, op) ==
    /\ Deletions(S, op.note) = {}
    /\ op.expected >= 1
    /\ \A m \in Moves(S, op.note) : m.op.expected < op.expected
    /\ op.expected > 1 =>
          \E m \in Moves(S, op.note) : m.op.expected + 1 = op.expected

Admissible(S, e) ==
    /\ e \in Envelopes \ S
    /\ e.op.type = "AddTrack" => TrackCreations(S, e.op.track) = {}
    /\ e.op.type = "AddNote"  => TrackCreations(S, e.op.track) # {}
    /\ e.op.type \in {"MoveNote", "DeleteNote"} =>
          /\ NoteAdditions(S, e.op.note) # {}
          /\ AddedOnce(S, e.op.note) => ContinuesChain(S, e.op)

\* What one ingested envelope makes of a ledger.
Grows(S, T) ==
    \/ T = S
    \/ \E e \in T \ S : T = S \cup {e} /\ Admissible(S, e)

\* What a batch of two makes of it.
GrowsTwice(S, T) ==
    \E M \in {S} \cup {S \cup {e} : e \in T} : Grows(S, M) /\ Grows(M, T)

-----------------------------------------------------------------------------
Init == ledger = [r \in Replicas |-> {}]

Becomes(r, T) == ledger' = [ledger EXCEPT ![r] = T]

\* A replica ingests one envelope, or a batch of two.
Extend(r) ==
    /\ Becomes(r, ledger'[r])
    /\ GrowsTwice(ledger[r], ledger'[r])

\* A replica is built again from a log of at most two envelopes.
Rebuild(r) ==
    /\ Becomes(r, ledger'[r])
    /\ GrowsTwice({}, ledger'[r])

Next == \E r \in Replicas : Extend(r) \/ Rebuild(r)

Spec == Init /\ [][Next]_ledger
=============================================================================
