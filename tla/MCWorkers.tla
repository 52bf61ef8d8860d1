------------------------------ MODULE MCWorkers ------------------------------
(* What the workers of several processes arrange among themselves, in one run: *)
(* a behaviour is one of KeeperRateGate, of LifecycleEvidence, of              *)
(* ServerLifecycle with a prober or of PersonaClaims, while the variables of   *)
(* the other three stand still.                                                *)
EXTENDS MCKeeperRateGate, LifecycleEvidence, PersonaClaims

VARIABLES part, now, disturbed, server, naming, snapshot, fetch

MCBackoff == <<1>>

\* One server that a prober and a command fetch, the clocks in agreement.
Fetches == INSTANCE ServerLifecycle WITH
  Lanes <- {}, Probers <- {"prober"}, Commands <- {"command"},
  Skew <- [f \in {"prober", "command"} |-> 0], Names <- {"name"}, FirstName <- "name",
  Start <- 1, MaxTime <- 3, Faults <- TRUE, Retirement <- 2, ConsoleProbe <- 2

fetchVars == <<now, disturbed, server, naming, snapshot, fetch>>
mcVars == <<part, vars, evidenceVars, fetchVars, personaVars>>

MCInit ==
  /\ part \in {"gates", "policy", "probes", "persona"}
  /\ Init /\ EvidenceInit /\ Fetches!Init /\ PersonaInit
  /\ part # "policy" => ~row.console
  /\ part # "probes" =>
       ~server.console /\ server.state = "DISCOVERED" /\ naming.open.first = 1
  /\ part # "persona" => distributed

MCNext ==
  \/ part = "gates" /\ Next /\ UNCHANGED <<part, evidenceVars, fetchVars, personaVars>>
  \/ /\ part = "policy" /\ EvidenceNext
     /\ UNCHANGED <<part, vars, fetchVars, personaVars>>
  \/ /\ part = "probes" /\ Fetches!Next
     /\ UNCHANGED <<part, vars, evidenceVars, personaVars>>
  \/ part = "persona" /\ PersonaNext /\ UNCHANGED <<part, vars, evidenceVars, fetchVars>>

\* With the fairness of KeeperRateGate's FairSpec, of ServerLifecycle's and of
\* PersonaFairSpec.
MCSpec ==
  /\ MCInit /\ [][MCNext]_mcVars
  /\ WF_vars(part = "gates" /\ Proceeds)
  /\ WF_fetchVars(part = "probes" /\ Fetches!Step("prober"))
  /\ \A w \in Workers : WF_personaVars(part = "persona" /\ PersonaStep(w))
  /\ WF_personaVars(part = "persona" /\ Fallback)
  /\ WF_personaVars(part = "persona" /\ Settle)
  /\ WF_personaVars(part = "persona" /\ PersonaTick)

DueProbeSettles == Fetches!DueProbeSettles
=============================================================================
