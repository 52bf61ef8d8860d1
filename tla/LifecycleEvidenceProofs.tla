---------------------- MODULE LifecycleEvidenceProofs ----------------------
(***************************************************************************)
(* The lifecycle policy says what the accepted observations say, however   *)
(* many they are and whatever the periods: the row is the summary of them  *)
(* that Summary states, and each observation keeps it so.                  *)
(***************************************************************************)
EXTENDS LifecycleEvidence, TLAPS

Observation == [result : Results, at : Nat]

\* The watermark is the time of the last observation accepted, and they are in order.
Watermarked ==
  /\ evidence = <<>> => row.lastResult = None
  /\ evidence # <<>> => row.lastResult = evidence[Len(evidence)].at
  /\ \A i, j \in DOMAIN evidence : i < j => evidence[i].at <= evidence[j].at

\* An outage that Keeper confirmed from the row's first 404 to its last.
Confirmed(last) ==
  /\ \A t \in OutageTimes : row.first404 <= t /\ t <= last
  /\ row.first404 \in OutageTimes
  /\ row.state = OutagePhase(last - row.first404)
  /\ row.probe = NextProbe(row.console, row.state, last)
  /\ row.state = "RETIRED" => row.retiredAt # None
  /\ row.retiredAt # None =>
       row.retiredAt \in OutageTimes /\ row.retiredAt - row.first404 >= Retirement

Summary ==
  /\ Outage = {} =>
       /\ row.first404 = None /\ row.retiredAt = None /\ row.probe = None
       /\ row.state = IF Successes = {} THEN "DISCOVERED" ELSE "CONFIRMED"
  /\ Outage # {} => \E last \in OutageTimes : Confirmed(last)

EvidenceInv ==
  /\ row \in LifecycleRow /\ evidence \in Seq(Observation)
  /\ Watermarked /\ Summary

-----------------------------------------------------------------------------
(* What an accepted observation does to the row.                             *)

LEMMA AfterSuccess ==
  ASSUME NEW r \in LifecycleRow, NEW at \in Nat, ~OutOfOrder(at, r.lastResult)
  PROVE  LET new == Applied(r, "SUCCESS", at)
         IN  /\ new \in LifecycleRow /\ new.state = "CONFIRMED"
             /\ new.first404 = None /\ new.retiredAt = None /\ new.probe = None
             /\ new.lastResult = at
<1>1. Applied(r, "SUCCESS", at) = [Succeeded(r, at) EXCEPT !.lastResult = at]
  BY DEF Applied, Decide
<1>2. at \in Stamps /\ None \in Stamps /\ "CONFIRMED" \in Online
  BY DEF Stamps, Online
<1> QED  BY <1>1, <1>2 DEF Succeeded, LifecycleRow

LEMMA AfterError ==
  ASSUME NEW r \in LifecycleRow, NEW at \in Nat, ~OutOfOrder(at, r.lastResult)
  PROVE  LET new == Applied(r, "ERROR", at)
         IN  /\ new \in LifecycleRow
             /\ new.console = r.console /\ new.state = r.state /\ new.first404 = r.first404
             /\ new.retiredAt = r.retiredAt /\ new.probe = r.probe
             /\ new.lastResult = at
<1>1. Applied(r, "ERROR", at) = [r EXCEPT !.lastResult = at]
  BY DEF Applied, Decide
<1>2. at \in Stamps
  BY DEF Stamps
<1> QED  BY <1>1, <1>2 DEF LifecycleRow

LEMMA PhaseOfAge ==
  ASSUME NEW age \in Int
  PROVE  /\ OutagePhase(age) \in {"GRACE", "STALE", "RETIRED"}
         /\ OutagePhase(age) = "RETIRED" <=> age >= Retirement
         /\ OutagePhase(age) \in Offline <=> age >= Grace
BY PolicyAssumption DEF OutagePhase, Offline

LEMMA AfterNotFound ==
  ASSUME NEW r \in LifecycleRow, NEW at \in Nat, ~OutOfOrder(at, r.lastResult)
  PROVE  LET new == Applied(r, "NOT_FOUND", at)
         IN  /\ new \in LifecycleRow
             /\ new.console = r.console
             /\ new.first404 = OutageStart(r, at) /\ new.first404 \in Nat
             /\ new.state = OutagePhase(at - new.first404)
             /\ new.probe = NextProbe(new.console, new.state, at)
             /\ new.retiredAt = IF new.state # "RETIRED" THEN None
                                ELSE IF r.retiredAt = None THEN at ELSE r.retiredAt
             /\ new.lastResult = at
<1> DEFINE first == OutageStart(r, at)
           phase == OutagePhase(at - first)
           retired == IF phase # "RETIRED" THEN None
                      ELSE IF r.retiredAt = None THEN at ELSE r.retiredAt
           probe == NextProbe(r.console, phase, at)
<1>1. first \in Nat /\ first \in Stamps
  BY DEF OutageStart, LifecycleRow, Stamps, None
<1>2. phase \in {"GRACE", "STALE", "RETIRED"} /\ phase \in Online \cup Offline
  BY <1>1, PhaseOfAge DEF Online, Offline
<1>3. probe \in Stamps
  BY <1>2, PolicyAssumption DEF NextProbe, Stamps
<1>4. retired \in Stamps /\ at \in Stamps
  BY DEF LifecycleRow, Stamps
<1>5. Applied(r, "NOT_FOUND", at) =
        [[r EXCEPT !.state = phase, !.first404 = first, !.retiredAt = retired,
                   !.probe = probe] EXCEPT !.lastResult = at]
  BY DEF Applied, Decide, NotFound
<1> HIDE DEF first, phase, retired, probe
<1>6. LET new == Applied(r, "NOT_FOUND", at)
      IN  /\ new \in LifecycleRow
          /\ new.console = r.console /\ new.first404 = first /\ new.state = phase
          /\ new.probe = probe /\ new.retiredAt = retired /\ new.lastResult = at
  BY <1>1, <1>2, <1>3, <1>4, <1>5 DEF LifecycleRow
<1> HIDE DEF Applied
<1>7. LET new == Applied(r, "NOT_FOUND", at)
      IN  /\ new.state = OutagePhase(at - new.first404)
          /\ new.probe = NextProbe(new.console, new.state, at)
          /\ new.retiredAt = IF new.state # "RETIRED" THEN None
                             ELSE IF r.retiredAt = None THEN at ELSE r.retiredAt
  BY <1>6 DEF phase, probe, retired
<1> QED  BY <1>1, <1>6, <1>7 DEF first

-----------------------------------------------------------------------------
(* What it does to the evidence.                                             *)

LEMMA OutageFacts ==
  ASSUME EvidenceInv
  PROVE  /\ Outage \subseteq DOMAIN evidence /\ Successes \subseteq DOMAIN evidence
         /\ DOMAIN evidence = 1 .. Len(evidence) /\ Len(evidence) \in Nat
         /\ \A i \in DOMAIN evidence : evidence[i] \in Observation
         /\ OutageTimes \subseteq Nat
         /\ \A t \in OutageTimes : t <= row.lastResult
<1>1. DOMAIN evidence = 1 .. Len(evidence) /\ Len(evidence) \in Nat
      /\ \A i \in DOMAIN evidence : evidence[i] \in Observation
  BY DEF EvidenceInv
<1>2. Outage \subseteq DOMAIN evidence /\ Successes \subseteq DOMAIN evidence
  BY DEF Outage, Successes
<1>3. OutageTimes \subseteq Nat
  BY <1>1, <1>2 DEF OutageTimes, Observation
<1>4. ASSUME NEW i \in DOMAIN evidence PROVE evidence[i].at <= row.lastResult
  <2>1. i \in Nat /\ i <= Len(evidence) /\ Len(evidence) \in DOMAIN evidence
        /\ evidence[Len(evidence)].at \in Nat /\ evidence # <<>>
    BY <1>1, <1>4 DEF Observation
  <2>2. row.lastResult = evidence[Len(evidence)].at
    BY <2>1 DEF EvidenceInv, Watermarked
  <2>3. i < Len(evidence) => evidence[i].at <= evidence[Len(evidence)].at
    BY <2>1 DEF EvidenceInv, Watermarked
  <2> QED  BY <1>1, <2>1, <2>2, <2>3
<1> QED  BY <1>1, <1>2, <1>3, <1>4 DEF OutageTimes

LEMMA Accepted ==
  ASSUME EvidenceInv, NEW result \in Results, NEW at \in Nat,
         evidence' = Append(evidence, [result |-> result, at |-> at])
  PROVE  LET n == Len(evidence)
         IN  /\ evidence' \in Seq(Observation) /\ evidence' # <<>>
             /\ Len(evidence') = n + 1 /\ DOMAIN evidence' = 1 .. n + 1
             /\ evidence'[n + 1] = [result |-> result, at |-> at]
             /\ \A i \in DOMAIN evidence : evidence'[i] = evidence[i]
<1>1. [result |-> result, at |-> at] \in Observation
  BY DEF Observation
<1> QED  BY <1>1 DEF EvidenceInv

LEMMA SuccessEndsOutage ==
  ASSUME EvidenceInv, NEW at \in Nat,
         evidence' = Append(evidence, [result |-> "SUCCESS", at |-> at])
  PROVE  Outage' = {} /\ Successes' # {}
<1> DEFINE n == Len(evidence)
<1>1. /\ DOMAIN evidence' = 1 .. n + 1 /\ n \in Nat
      /\ evidence'[n + 1].result = "SUCCESS"
  BY Accepted, OutageFacts DEF Results
<1>2. n + 1 \in Successes'
  BY <1>1 DEF Successes
<1>3. ASSUME NEW i \in Outage' PROVE FALSE
  <2>1. i \in 1 .. n + 1 /\ n + 1 < i
    BY <1>1, <1>2 DEF Outage
  <2> QED  BY <1>1, <2>1
<1> QED  BY <1>2, <1>3

LEMMA NotFoundJoinsOutage ==
  ASSUME EvidenceInv, NEW at \in Nat,
         evidence' = Append(evidence, [result |-> "NOT_FOUND", at |-> at])
  PROVE  Outage' # {} /\ OutageTimes' = OutageTimes \cup {at}
<1> DEFINE n == Len(evidence)
<1>1. /\ DOMAIN evidence' = 1 .. n + 1 /\ DOMAIN evidence = 1 .. n /\ n \in Nat
      /\ evidence'[n + 1].result = "NOT_FOUND" /\ evidence'[n + 1].at = at
      /\ \A i \in 1 .. n : evidence'[i] = evidence[i]
  BY Accepted, OutageFacts DEF Results
<1> HIDE DEF n
<1>2. Successes' = Successes
  BY <1>1 DEF Successes
<1>3. Outage' = Outage \cup {n + 1}
  BY <1>1, <1>2 DEF Outage, Successes
<1>4. \A i \in Outage : evidence'[i].at = evidence[i].at
  BY <1>1 DEF Outage
<1> QED  BY <1>1, <1>3, <1>4 DEF OutageTimes

LEMMA ErrorIsNoEvidence ==
  ASSUME EvidenceInv, NEW at \in Nat,
         evidence' = Append(evidence, [result |-> "ERROR", at |-> at])
  PROVE  /\ Outage' = Outage /\ OutageTimes' = OutageTimes
         /\ Successes' = Successes
<1> DEFINE n == Len(evidence)
<1>1. /\ DOMAIN evidence' = 1 .. n + 1 /\ DOMAIN evidence = 1 .. n /\ n \in Nat
      /\ evidence'[n + 1].result = "ERROR"
      /\ \A i \in 1 .. n : evidence'[i] = evidence[i]
  BY Accepted, OutageFacts DEF Results
<1> HIDE DEF n
<1>2. Successes' = Successes
  BY <1>1 DEF Successes
<1>3. Outage' = Outage
  BY <1>1, <1>2 DEF Outage, Successes
<1>4. \A i \in Outage : evidence'[i].at = evidence[i].at
  BY <1>1 DEF Outage
<1> QED  BY <1>2, <1>3, <1>4 DEF OutageTimes

-----------------------------------------------------------------------------
(* The invariant.                                                            *)

LEMMA InitEvidence == EvidenceInit => EvidenceInv
<1> SUFFICES ASSUME EvidenceInit PROVE EvidenceInv
  OBVIOUS
<1>1. PICK console \in BOOLEAN : row = Discovered(console)
  BY DEF EvidenceInit
<1>2. row \in LifecycleRow
  BY <1>1 DEF Discovered, LifecycleRow, Stamps, Online
<1>3. evidence = <<>> /\ DOMAIN evidence = {} /\ evidence \in Seq(Observation)
  BY DEF EvidenceInit
<1>4. Watermarked
  BY <1>1, <1>3 DEF Watermarked, Discovered
<1>5. Outage = {} /\ Successes = {}
  BY <1>3 DEF Outage, Successes
<1>6. Summary
  BY <1>1, <1>5 DEF Summary, Discovered
<1> QED  BY <1>2, <1>3, <1>4, <1>6 DEF EvidenceInv

LEMMA WatermarkKept ==
  ASSUME EvidenceInv, NEW result \in Results, NEW at \in Nat,
         ~OutOfOrder(at, row.lastResult), row'.lastResult = at,
         evidence' = Append(evidence, [result |-> result, at |-> at])
  PROVE  Watermarked' /\ row.lastResult <= at
<1> DEFINE n == Len(evidence)
<1>1. /\ evidence' # <<>> /\ Len(evidence') = n + 1 /\ DOMAIN evidence' = 1 .. n + 1
      /\ evidence'[n + 1].at = at
      /\ \A i \in DOMAIN evidence : evidence'[i] = evidence[i]
  BY Accepted
<1>2. row.lastResult <= at
  <2>1. row.lastResult \in Stamps
    BY DEF EvidenceInv, LifecycleRow
  <2> QED  BY <2>1 DEF OutOfOrder, Stamps, None
<1>3. \A i \in DOMAIN evidence : evidence[i].at <= at
  <2> SUFFICES ASSUME NEW i \in DOMAIN evidence PROVE evidence[i].at <= at
    OBVIOUS
  <2>1. evidence # <<>> /\ n \in DOMAIN evidence /\ i \in Nat /\ n \in Nat /\ i <= n
    BY OutageFacts
  <2>2. evidence[i].at \in Nat /\ evidence[n].at \in Nat
    BY <2>1, OutageFacts DEF Observation
  <2>3. evidence[n].at <= at
    BY <1>2, <2>1 DEF EvidenceInv, Watermarked
  <2>4. i < n => evidence[i].at <= evidence[n].at
    BY <2>1 DEF EvidenceInv, Watermarked
  <2> HIDE DEF n
  <2> QED  BY <2>1, <2>2, <2>3, <2>4
<1>4. ASSUME NEW i \in DOMAIN evidence', NEW j \in DOMAIN evidence', i < j
      PROVE  evidence'[i].at <= evidence'[j].at
  <2>1. i \in DOMAIN evidence /\ (j \in DOMAIN evidence \/ j = n + 1)
    BY <1>1, <1>4, OutageFacts
  <2> QED  BY <1>1, <1>3, <1>4, <2>1 DEF EvidenceInv, Watermarked
<1> QED  BY <1>1, <1>2, <1>4 DEF Watermarked

\* A 404 moves the end of the outage, and begins one where there is none.
LEMMA SummaryOfNotFound ==
  ASSUME EvidenceInv, NEW at \in Nat, ~OutOfOrder(at, row.lastResult),
         row' = Applied(row, "NOT_FOUND", at),
         evidence' = Append(evidence, [result |-> "NOT_FOUND", at |-> at])
  PROVE  Summary'
<1>1. /\ row'.first404 = OutageStart(row, at) /\ row'.first404 \in Nat
      /\ row'.state = OutagePhase(at - row'.first404)
      /\ row'.probe = NextProbe(row'.console, row'.state, at)
      /\ row'.retiredAt = IF row'.state # "RETIRED" THEN None
                          ELSE IF row.retiredAt = None THEN at ELSE row.retiredAt
      /\ row'.lastResult = at
  BY AfterNotFound DEF EvidenceInv
<1>2. Outage' # {} /\ OutageTimes' = OutageTimes \cup {at}
  BY NotFoundJoinsOutage
<1>3. \A t \in OutageTimes : t \in Nat /\ t <= at
  <2>1. row.lastResult <= at /\ row.lastResult \in Int
    BY <1>1, WatermarkKept DEF Results, EvidenceInv, LifecycleRow, Stamps, None
  <2> QED  BY <2>1, OutageFacts
<1>4. /\ \A t \in OutageTimes' : row'.first404 <= t /\ t <= at
      /\ row'.first404 \in OutageTimes'
      /\ row.retiredAt # None =>
           row.retiredAt \in OutageTimes /\ row.retiredAt - row'.first404 >= Retirement
  <2>1. CASE Outage = {}
    <3>1. OutageTimes = {} /\ row.retiredAt = None /\ row.first404 = None
      BY <2>1 DEF EvidenceInv, Summary, OutageTimes
    <3> QED  BY <1>1, <1>2, <3>1 DEF OutageStart
  <2>2. CASE Outage # {}
    <3>1. PICK last \in OutageTimes : Confirmed(last)
      BY <2>2 DEF EvidenceInv, Summary
    <3>2. row.first404 \in Nat /\ row.first404 # None
      BY <1>3, <3>1 DEF Confirmed, None
    <3>3. row'.first404 = row.first404
      BY <1>1, <3>2 DEF OutageStart
    <3> QED  BY <1>2, <1>3, <3>1, <3>3 DEF Confirmed
  <2> QED  BY <2>1, <2>2
<1>5. row'.state = "RETIRED" <=> at - row'.first404 >= Retirement
  BY <1>1, PhaseOfAge
<1>6. /\ row'.state = "RETIRED" => row'.retiredAt # None
      /\ row'.retiredAt # None =>
           row'.retiredAt \in OutageTimes' /\ row'.retiredAt - row'.first404 >= Retirement
  <2>1. at # None
    BY DEF None
  <2>2. CASE row'.state = "RETIRED" /\ row.retiredAt = None
    BY <1>1, <1>2, <1>5, <2>1, <2>2
  <2>3. CASE row'.state = "RETIRED" /\ row.retiredAt # None
    BY <1>1, <1>2, <1>4, <2>3
  <2>4. CASE row'.state # "RETIRED"
    BY <1>1, <2>4
  <2> QED  BY <2>2, <2>3, <2>4
<1>7. Confirmed(at)'
  BY <1>1, <1>4, <1>6 DEF Confirmed
<1> QED  BY <1>2, <1>7 DEF Summary

LEMMA EvidenceStep == EvidenceInv /\ [EvidenceNext]_evidenceVars => EvidenceInv'
<1> SUFFICES ASSUME EvidenceInv, [EvidenceNext]_evidenceVars PROVE EvidenceInv'
  OBVIOUS
<1>1. CASE UNCHANGED <<row, evidence>>
  BY <1>1 DEF EvidenceInv, Watermarked, Summary, Confirmed, OutageTimes, Outage, Successes
<1>2. ASSUME NEW result \in Results, NEW at \in Nat, ~OutOfOrder(at, row.lastResult),
             row' = Applied(row, result, at),
             evidence' = Append(evidence, [result |-> result, at |-> at])
      PROVE  EvidenceInv'
  <2>1. evidence' \in Seq(Observation)
    BY <1>2, Accepted
  <2>2. row' \in LifecycleRow /\ row'.lastResult = at
    BY <1>2, AfterSuccess, AfterError, AfterNotFound DEF EvidenceInv, Results
  <2>3. Watermarked'
    BY <1>2, <2>2, WatermarkKept
  <2>4. Summary'
    <3>1. CASE result = "SUCCESS"
      <4>1. Outage' = {} /\ Successes' # {}
        BY <1>2, <3>1, SuccessEndsOutage
      <4>2. /\ row'.state = "CONFIRMED"
            /\ row'.first404 = None /\ row'.retiredAt = None /\ row'.probe = None
        BY <1>2, <3>1, AfterSuccess DEF EvidenceInv
      <4> QED  BY <4>1, <4>2 DEF Summary
    <3>2. CASE result = "NOT_FOUND"
      BY <1>2, <3>2, SummaryOfNotFound
    <3>3. CASE result = "ERROR"
      <4>1. Outage' = Outage /\ OutageTimes' = OutageTimes /\ Successes' = Successes
        BY <1>2, <3>3, ErrorIsNoEvidence
      <4>2. /\ row'.console = row.console /\ row'.state = row.state
            /\ row'.first404 = row.first404
            /\ row'.retiredAt = row.retiredAt /\ row'.probe = row.probe
        BY <1>2, <3>3, AfterError DEF EvidenceInv
      <4> QED  BY <4>1, <4>2 DEF EvidenceInv, Summary, Confirmed
    <3> QED  BY <3>1, <3>2, <3>3 DEF Results
  <2> QED  BY <2>1, <2>2, <2>3, <2>4 DEF EvidenceInv
<1>3. ASSUME NEW result \in Results, NEW at \in 0 .. MaxAt, Observe(result, at)
      PROVE  EvidenceInv'
  <2>1. at \in Nat
    BY EvidenceAssumption
  <2>2. CASE OutOfOrder(at, row.lastResult)
    BY <1>1, <1>3, <2>2 DEF Observe, Applied
  <2>3. CASE ~OutOfOrder(at, row.lastResult)
    BY <1>2, <1>3, <2>1, <2>3 DEF Observe
  <2> QED  BY <2>2, <2>3
<1> QED  BY <1>1, <1>3 DEF EvidenceNext, evidenceVars

LEMMA EvidenceInvHolds == EvidenceSpec => []EvidenceInv
BY InitEvidence, EvidenceStep, PTL DEF EvidenceSpec

-----------------------------------------------------------------------------
(* The properties.                                                           *)

LEMMA OutageMeaning ==
  ASSUME EvidenceInv, Outage # {}
  PROVE  /\ row.first404 \in OutageTimes /\ row.first404 # None
         /\ row.state \in {"GRACE", "STALE", "RETIRED"}
         /\ row.state = "RETIRED" <=> ConfirmedFor(Retirement)
         /\ row.state \in Offline <=> ConfirmedFor(Grace)
<1>1. PICK last \in OutageTimes : Confirmed(last)
  BY DEF EvidenceInv, Summary
<1>2. row.first404 \in OutageTimes /\ row.first404 \in Nat /\ last \in Nat
      /\ \A t \in OutageTimes : t \in Nat
  BY <1>1, OutageFacts DEF Confirmed
<1>3. /\ row.state \in {"GRACE", "STALE", "RETIRED"}
      /\ row.state = "RETIRED" <=> last - row.first404 >= Retirement
      /\ row.state \in Offline <=> last - row.first404 >= Grace
  BY <1>1, <1>2, PhaseOfAge DEF Confirmed
<1>4. ASSUME NEW d \in Nat PROVE ConfirmedFor(d) <=> last - row.first404 >= d
  <2>1. ASSUME NEW s \in OutageTimes, NEW t \in OutageTimes, t - s >= d
        PROVE  last - row.first404 >= d
    <3>1. row.first404 <= s /\ t <= last
      BY <1>1 DEF Confirmed
    <3> QED  BY <1>2, <2>1, <3>1
  <2> QED  BY <1>2, <2>1 DEF ConfirmedFor
<1> QED  BY <1>2, <1>3, <1>4, PolicyAssumption DEF None

LEMMA NoOutageMeaning ==
  ASSUME EvidenceInv, Outage = {}
  PROVE  /\ row.first404 = None /\ row.probe = None
         /\ row.state = IF Successes = {} THEN "DISCOVERED" ELSE "CONFIRMED"
         /\ \A d : ~ConfirmedFor(d)
BY DEF EvidenceInv, Summary, ConfirmedFor, OutageTimes

\* The lifecycle is what the definitive observations say, in the order they were made:
\* never seen, confirmed by the last success, or offline for the time Keeper itself
\* confirmed with 404s and no more. (decide_lifecycle, apply_keeper_lifecycle_result.)
THEOREM PolicyFollowsEvidence == EvidenceSpec => []LifecycleFollowsEvidence
<1>1. ASSUME EvidenceInv PROVE LifecycleFollowsEvidence
  <2>1. \A i, j \in DOMAIN evidence : i < j => evidence[i].at <= evidence[j].at
    BY <1>1 DEF EvidenceInv, Watermarked
  <2>2. CASE Outage = {}
    BY <1>1, <2>1, <2>2, NoOutageMeaning DEF LifecycleFollowsEvidence, Offline
  <2>3. CASE Outage # {}
    BY <1>1, <2>1, <2>3, OutageMeaning DEF LifecycleFollowsEvidence
  <2> QED  BY <2>2, <2>3
<1> QED  BY <1>1, EvidenceInvHolds, PTL

\* A server that is probed is probed again an interval of its state after the 404 that
\* scheduled the probe, and a retired PC server is not probed. (NextProbe.)
THEOREM ProbingIsPaced == EvidenceSpec => []ProbesArePaced
<1>1. ASSUME EvidenceInv PROVE ProbesArePaced
  <2>1. CASE Outage = {}
    <3>1. row.probe = None /\ row.state \notin Offline
      BY <1>1, <2>1, NoOutageMeaning DEF Offline
    <3> QED  BY <3>1 DEF ProbesArePaced, Offline
  <2>2. CASE Outage # {}
    <3>1. PICK last \in OutageTimes : Confirmed(last)
      BY <1>1, <2>2 DEF EvidenceInv, Summary
    <3>2. last \in Nat /\ row.console \in BOOLEAN
      BY <1>1, <3>1, OutageFacts DEF EvidenceInv, LifecycleRow
    <3>3. CASE row.state = "RETIRED"
      <4>1. /\ row.probe = IF row.console THEN last + ConsoleProbe ELSE None
            /\ row.retiredAt \in OutageTimes
            /\ row.retiredAt - row.first404 >= Retirement
        BY <3>1, <3>3 DEF Confirmed, NextProbe
      <4>2. (last + ConsoleProbe) - ConsoleProbe = last
        BY <3>2, PolicyAssumption
      <4> QED  BY <3>1, <3>3, <4>1, <4>2 DEF ProbesArePaced, Offline
    <3>4. CASE row.state = "STALE"
      <4>1. row.probe = last + StaleProbe
        BY <3>1, <3>4 DEF Confirmed, NextProbe
      <4>2. row.probe - StaleProbe = last
        BY <3>2, <4>1, PolicyAssumption
      <4> QED  BY <3>1, <3>4, <4>2 DEF ProbesArePaced, Offline
    <3>5. CASE row.state = "GRACE"
      <4>1. row.probe = None
        BY <3>1, <3>5 DEF Confirmed, NextProbe
      <4> QED  BY <3>5, <4>1 DEF ProbesArePaced
    <3> QED  BY <1>1, <2>2, <3>3, <3>4, <3>5, OutageMeaning
  <2> QED  BY <2>1, <2>2
<1> QED  BY <1>1, EvidenceInvHolds, PTL
============================================================================
