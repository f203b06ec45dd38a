---- MODULE MCSynthetic ----
(* Instances of SyntheticLoopback for TLC: a tick is 40 ms.                *)
EXTENDS SyntheticLoopback

MCDelays == {1, 4}
MCRtts == {5}

\* What an analyser reads of a tone at full scale, a sine in a Blackman window,
\* in decibels; and a magnitude, which is what the code takes it for.
Decibels == {-14}
DecibelsOrMagnitude == {-14, 1}
MCSilence == -100
====
