---------------------------- MODULE MCClockProbe ----------------------------
(* Instances of ClockProbe for TLC.                                         *)
EXTENDS ClockProbe

\* The clock of peer_b is three units ahead.
MCSkew == [p \in Roles |-> IF p = "peer_a" THEN 1 ELSE 4]

\* peer_a sends probes, peer_b answers.
MCProbes == [p \in Roles |-> IF p = "peer_a" THEN 2 ELSE 0]

\* Each peer sends one.
MCBothProbes == [p \in Roles |-> 1]
=============================================================================
