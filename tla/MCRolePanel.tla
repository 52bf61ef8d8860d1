------------------------------ MODULE MCRolePanel ------------------------------
(* Symmetry for checking RolePanel with TLC.                                   *)
EXTENDS RolePanel, TLC

MCSymmetry == Permutations(Messages) \cup Permutations(Channels)
=============================================================================
