------------------------- MODULE LifecycleEvidence -------------------------
(* The lifecycle policy against its definition in                            *)
(* docs/V3.2.0_STALE_SERVER_DESIGN.md: the row is driven by observations in  *)
(* any order, and what it says is compared with what the accepted            *)
(* observations themselves say.                                              *)
EXTENDS LifecyclePolicy, Sequences, FiniteSets

CONSTANTS MaxAt,      \* observations are made at 0 .. MaxAt
          MaxEvidence   \* and at most this many are accepted

ASSUME EvidenceAssumption == MaxAt \in Nat /\ MaxEvidence \in Nat

VARIABLES row,        \* the lifecycle columns
          evidence    \* history: the accepted observations, oldest first

evidenceVars == <<row, evidence>>

EvidenceInit == row \in {Discovered(console) : console \in BOOLEAN} /\ evidence = <<>>

Observe(result, at) ==
  /\ Len(evidence) < MaxEvidence
  /\ row' = Applied(row, result, at)
  /\ evidence' = IF OutOfOrder(at, row.lastResult) THEN evidence
                 ELSE Append(evidence, [result |-> result, at |-> at])

EvidenceNext == \E result \in Results, at \in 0 .. MaxAt : Observe(result, at)

EvidenceSpec == EvidenceInit /\ [][EvidenceNext]_evidenceVars

-----------------------------------------------------------------------------
Successes == {i \in DOMAIN evidence : evidence[i].result = "SUCCESS"}

\* The 404s that no later success has answered.
Outage == {i \in DOMAIN evidence :
             /\ evidence[i].result = "NOT_FOUND"
             /\ \A j \in Successes : j < i}

OutageTimes == {evidence[i].at : i \in Outage}

\* How long Keeper has been confirming the outage: from its first 404 to its
\* latest, whatever errors were observed between them or since.
ConfirmedFor(d) == \E s, t \in OutageTimes : t - s >= d

\* Whatever order observations arrive in, those the row accepts are in the
\* order they were observed, and the lifecycle is what the definitive ones say:
\* never seen, confirmed by the last success, or offline for the time Keeper
\* itself confirmed with 404s and no more. Errors and wall-clock time alone
\* neither age nor revive a server. (decide_lifecycle and the watermark of
\* apply_keeper_lifecycle_result.)
LifecycleFollowsEvidence ==
  /\ \A i, j \in DOMAIN evidence : i < j => evidence[i].at <= evidence[j].at
  /\ row.state = "DISCOVERED" <=> Successes = {} /\ Outage = {}
  /\ row.state = "CONFIRMED"  <=> Successes # {} /\ Outage = {}
  /\ row.state = "RETIRED"    <=> ConfirmedFor(Retirement)
  /\ row.state \in Offline    <=> ConfirmedFor(Grace)
  /\ Outage = {} <=> row.first404 = None
  /\ row.first404 \in OutageTimes \cup {None}

\* A server that is being probed is probed again no sooner than the interval of
\* its state after the 404 that scheduled the probe, and a retired PC server is
\* not probed at all. (NextProbe in decide_lifecycle.)
ProbesArePaced ==
  /\ row.probe # None => row.state \in Offline
  /\ row.state = "STALE" => row.probe - StaleProbe \in OutageTimes
  /\ row.state = "RETIRED" /\ ~row.console => row.probe = None
  /\ row.state = "RETIRED" /\ row.console =>
       /\ row.probe - ConsoleProbe \in OutageTimes
       /\ row.retiredAt \in OutageTimes
       /\ row.retiredAt - row.first404 >= Retirement
=============================================================================
