--------------------------- MODULE MCDiscordLeader ---------------------------
(* Model values and bounds for checking DiscordLeader with TLC. *)
EXTENDS DiscordLeader, TLC

MCSymmetry == Permutations(Workers)
=============================================================================
