------------------------------- MODULE MCLive -------------------------------
(* Two peers, each of one session.                                         *)
EXTENDS LiveSession

CONSTANTS a1, b1

MCSessions == {a1, b1}
MCMaxCandidates == (a1 :> 2) @@ (b1 :> 1)
MCMaxObservations == (a1 :> 2) @@ (b1 :> 0)
MCRoleOf == (a1 :> "peer_a") @@ (b1 :> "peer_b")
=============================================================================
