----------------------------- MODULE DiscordGuild -----------------------------
(* The guild as Discord has it, for the modules about what the bot keeps in   *)
(* it: its text channels, and the trouble that may still come.                *)
EXTENDS Naturals

CONSTANTS
  Channels, NoChannel, \* the text channels, and none
  MaxFaults            \* bound: failures, losses and crashes in one behaviour

ASSUME GuildAssumption == NoChannel \notin Channels /\ MaxFaults \in Nat

VARIABLES
  exists, \* the text channels of the guild
  faults  \* how many more faults there are

guildVars == <<exists, faults>>

GuildTypeOK == exists \in SUBSET Channels /\ faults \in 0 .. MaxFaults

GuildInit == exists = Channels /\ faults = MaxFaults

\* Mutant: a channel is used whether or not it resolves.
ReachAny(c) == TRUE

\* Discord resolves the channel.
Reach(c) == c \in exists

Fault == faults > 0 /\ faults' = faults - 1
=============================================================================
