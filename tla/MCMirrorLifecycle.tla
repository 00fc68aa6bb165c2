-------------------------- MODULE MCMirrorLifecycle --------------------------
(* Instances of MirrorLifecycle for TLC: the constants that are functions. *)
EXTENDS MirrorLifecycle, TLC

CONSTANTS r1, l1, l2, g1, g2, g3, g4

TwoOrgs == [l \in Links |-> l]
==============================================================================
