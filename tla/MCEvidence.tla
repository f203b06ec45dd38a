----------------------------- MODULE MCEvidence -----------------------------
(* An instance of EvidenceDirectory for TLC.                                *)
EXTENDS EvidenceDirectory

MCNumbers == 0..3

\* 0 and its statistics are exact; the statistics of 1 are 2, which is read
\* back as 3.
MCDerive   == [n \in MCNumbers |-> IF n = 1 THEN 2 ELSE n]
MCReadBack == [n \in MCNumbers |-> IF n = 2 THEN 3 ELSE n]

Counter(n) == [source |-> "rtp_audio", packets |-> n]
Sample(at, in, out) == [at |-> at, inbound |-> Counter(in), outbound |-> Counter(out)]

Probe(role, t, rtt) ==
    [from |-> role, to |-> opposite_peer_role[role], answered |-> TRUE,
     version |-> 1, t |-> t, rtt |-> rtt, offset |-> Null]

\* Two observations of one session: each endpoint overlaps with the one of the
\* same observation only, and the statistics of the later peer_b drift.
A == [kind |-> "endpoint", role |-> "peer_a", session |-> "s", commit |-> "c",
      run |-> "live-s-a", start |-> 0, end |-> 3, flaws |-> {}, numbers |-> 0,
      probes |-> <<Probe("peer_a", <<1, 6, 7, 4>>, 2)>>,
      stats |-> <<Sample(0, 0, 5), Sample(1, 2, 7)>>]
B == [A EXCEPT !.role = "peer_b", !.run = "live-s-b", !.start = 1, !.end = 4,
      !.probes = <<Probe("peer_b", <<6, 1, 1, 8>>, 2)>>]
LaterA == [A EXCEPT !.start = 4, !.end = 6]
LaterB == [B EXCEPT !.start = 3, !.end = 6, !.numbers = 1]

\* It has the summary of A: only its checksum tells it from A.
Twin == [A EXCEPT !.stats = <<Sample(0, 0, 5), Sample(2, 2, 7)>>]

\* Endpoints that must not be believed.
Flawed == {
    [A EXCEPT !.end = 5],
    [A EXCEPT !.stats = <<Sample(1, 0, 5), Sample(1, 2, 7)>>],
    [A EXCEPT !.stats = <<Sample(0, 2, 5), Sample(1, 2, 7)>>],
    [A EXCEPT !.probes[1].rtt = 3],
    [A EXCEPT !.flaws = {"sessionCorrelationId"}],
    [B EXCEPT !.session = "t"],
    [B EXCEPT !.commit = "d"]}

MCEndpoints == {A, B, Twin, LaterA, LaterB} \cup Flawed
=============================================================================
