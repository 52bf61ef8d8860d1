---------------------------- MODULE MCPlayerSessions ----------------------------
(* Symmetry for checking PlayerSessions with TLC.                              *)
EXTENDS PlayerSessions, TLC

MCSymmetry == Permutations(Players)
=============================================================================
