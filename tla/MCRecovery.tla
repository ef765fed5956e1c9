------------------------------- MODULE MCRecovery -------------------------------
(* Small instances of Recovery for TLC. *)
EXTENDS Recovery, TLC

CONSTANTS p1, a1, a2, c1, d1, d2, b1, t1, t2

\* One artifact measured twice: both slots accept the same records.
OneArtifact == p1 :> <<a1>>
TwoRounds == p1 :> 2
\* Two artifacts measured once.
TwoArtifacts == p1 :> <<a1, a2>>
OneRound == p1 :> 1
OneConfig == p1 :> c1
=============================================================================
