------------------------------ MODULE MCAcquisition ------------------------------
(* Small instances of Acquisition for TLC. *)
EXTENDS Acquisition, TLC

CONSTANTS p1, p2, a1, a2, c1, d1, d2, b1, b2, t1, t2

\* Two plans with an artifact in common: one of two rounds over two artifacts, one
\* of a single slot.
BothRounds == p1 :> 2 @@ p2 :> 1
BothArtifacts == p1 :> <<a1, a2>> @@ p2 :> <<a2>>
BothConfig == p1 :> c1 @@ p2 :> c1

\* The first of them alone, and with one round.
TwoRounds == p1 :> 2
OneRound == p1 :> 1
TwoArtifacts == p1 :> <<a1, a2>>
OneConfig == p1 :> c1

\* Devices, and the timings of a benchmark, are interchangeable.
Symmetry == Permutations(Devices) \cup Permutations(Timings)
=============================================================================
