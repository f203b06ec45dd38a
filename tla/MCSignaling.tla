---------------------------- MODULE MCSignaling ----------------------------
(***************************************************************************)
(* Sockets for model checking Signaling: two clients of one session, and   *)
(* either a reload of the first with the same peer id, or a third peer and *)
(* a namesake of the first in another session.                             *)
(***************************************************************************)
EXTENDS Signaling

CONSTANTS a1, a2, b1, c1, pa, pb, pc, s1, s2

MCSessionOf == [c \in Sockets |-> s1]

MCTwoSessions == [c \in Sockets |-> IF c = a2 THEN s2 ELSE s1]

MCPeerOf == [c \in Sockets |-> CASE c \in {a1, a2} -> pa
                                 [] c = b1 -> pb
                                 [] c = c1 -> pc]
=============================================================================
