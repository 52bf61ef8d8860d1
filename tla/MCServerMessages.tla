---------------------------- MODULE MCServerMessages ----------------------------
(* Symmetry for checking ServerMessages with TLC.                              *)
EXTENDS ServerMessages, TLC

MCSymmetry == Permutations(Channels)
=============================================================================
