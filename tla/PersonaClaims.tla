---------------------------- MODULE PersonaClaims ----------------------------
(***************************************************************************)
(* Persona enrichment of one server: the workers that serve it in turn     *)
(* under a durable claim (serverwatcher.py, control_plane.py), and the     *)
(* leader-local fallback that takes over while distributed enrichment is   *)
(* switched off. The Battlelog page of the server is read by whoever may   *)
(* and resolves the names of its open sessions.                            *)
(*                                                                         *)
(* Times are relative to now: the row and the fallback hold what is left   *)
(* of a pause or of a claim, an attempt how long ago it claimed.           *)
(***************************************************************************)
EXTENDS Integers, Sequences, FiniteSetsExt

CONSTANTS
  Workers,   \* the workers with the player_persona role, numbered by HRW score
  Claim,     \* persona.claim_seconds
  BaseRetry, \* persona.base_retry_seconds, also the fallback's
  Backoff,   \* PLAYER_ENRICHMENT_NO_PROGRESS_BACKOFF_SECONDS
  MaxAttempt \* bound: how long an attempt lasts, from its claim to its end

ASSUME PersonaAssumption ==
  /\ Workers \in SUBSET Nat
  /\ Claim \in Nat \ {0} /\ BaseRetry \in Nat \ {0} /\ MaxAttempt \in Nat
  /\ Backoff \in Seq(Nat \ {0}) /\ Backoff # <<>>

VARIABLES
  debt,        \* the server is CONFIRMED and has open unresolved sessions
  distributed, \* persona.distributed_enabled
  eligible,    \* the workers that are alive, enabled and not draining
  claim,       \* its row of player_persona_enrichment_state
  attempt,     \* what each worker does about the server
  fallback,    \* the leader's process-local retry state
  unsettled    \* workers may fail and settings may change

personaVars ==
  <<debt, distributed, eligible, claim, attempt, fallback, unsettled>>

Nobody == -1
NoRow == -2   \* as holder: the row does not exist
NoPause == 0
Pauses == {NoPause, BaseRetry} \cup {Backoff[i] : i \in DOMAIN Backoff}
LongestPause == Max(Pauses)

\* The fallback also waits for claims to run out.
LongestWait == Max(Pauses \cup {Claim})

\* How many attempts without progress make a difference to the pause.
Streaks == 0 .. Len(Backoff) - 1

\* Mutant: the list of pauses has no end.
LengthenedWithoutEnd(streak) == streak + 1

Lengthened(streak) == Min({streak + 1, Len(Backoff) - 1})

\* What an attempt comes to: all, some or none of the sessions resolved, nothing
\* left to resolve, an error.
Outcomes == {"complete", "partial", "none", "gone", "failed"}

Possible(result) == /\ result \in {"complete", "partial"} => debt
                    /\ result = "gone" => ~debt

\* voided, history: the row was deleted during the attempt.
AttemptType ==
  [pc : {"idle", "owner", "pending", "claim", "request", "streak", "finish"},
   age : 0 .. MaxAttempt, result : Outcomes, pause : Pauses, voided : BOOLEAN]

ClaimType ==
  [retry : 0 .. LongestPause, holder : Workers \cup {Nobody, NoRow},
   left : 0 .. Claim, streak : Streaks]

FallbackType ==
  [pc : {"idle", "seeded", "request"}, retry : 0 .. LongestWait, streak : Streaks]

PersonaTypeOK ==
  /\ debt \in BOOLEAN /\ distributed \in BOOLEAN /\ unsettled \in BOOLEAN
  /\ eligible \in SUBSET Workers
  /\ claim \in ClaimType
  /\ attempt \in [Workers -> AttemptType]
  /\ fallback \in FallbackType

Asleep == [pc |-> "idle", age |-> 0, result |-> "failed", pause |-> NoPause,
           voided |-> FALSE]

Unclaimed == [retry |-> NoPause, holder |-> NoRow, left |-> 0, streak |-> 0]

PersonaInit ==
  /\ debt = FALSE /\ distributed \in BOOLEAN /\ unsettled = TRUE
  /\ eligible = Workers
  /\ claim = Unclaimed
  /\ attempt = [w \in Workers |-> Asleep]
  /\ fallback = [pc |-> "idle", retry |-> NoPause, streak |-> 0]

-----------------------------------------------------------------------------
(* One worker's visit to the server in a sweep of                            *)
(* distributed_persona_enrichment_loop.                                      *)

At(w, pc) == attempt[w].pc = pc
Goto(w, pc) == attempt' = [attempt EXCEPT ![w].pc = pc]

\* persona_hrw_owner: the eligible worker with the highest score.
Owner == IF eligible = {} \/ ~debt THEN Nobody ELSE Max(eligible)

\* The switch is read once, where the sweep starts.
Sweep(w) ==
  /\ At(w, "idle") /\ distributed /\ Owner = w
  /\ Goto(w, "owner")
  /\ UNCHANGED <<debt, distributed, eligible, claim, fallback, unsettled>>

CheckOwner(w) ==
  /\ At(w, "owner")
  /\ Goto(w, IF Owner = w THEN "pending" ELSE "idle")
  /\ UNCHANGED <<debt, distributed, eligible, claim, fallback, unsettled>>

\* Mutants: a claim never runs out; the claim of another is not looked at.
ClaimableIfFree(w) == claim.retry = 0 /\ claim.holder \in {NoRow, Nobody, w}

ClaimableByAnyone(w) == claim.retry = 0

Claimable(w) ==
  /\ claim.retry = 0
  /\ claim.holder \in {NoRow, Nobody, w} \/ claim.left = 0

\* _persona_pending_ids.
LookPending(w) ==
  /\ At(w, "pending")
  /\ Goto(w, IF debt THEN "claim" ELSE "idle")
  /\ UNCHANGED <<debt, distributed, eligible, claim, fallback, unsettled>>

\* _claim_persona_server, whatever has become of the sessions since.
TryClaim(w) ==
  /\ At(w, "claim")
  /\ IF Claimable(w)
     THEN /\ claim' = [claim EXCEPT !.holder = w, !.left = Claim]
          /\ attempt' = [attempt EXCEPT ![w] = [Asleep EXCEPT !.pc = "request"]]
     ELSE Goto(w, "idle") /\ UNCHANGED claim
  /\ UNCHANGED <<debt, distributed, eligible, fallback, unsettled>>

\* The pauses that need no look at the row.
Pause(result) ==
  IF result \in {"complete", "gone"} THEN NoPause ELSE BaseRetry

Ends(w, result, pause) ==
  attempt' = [attempt EXCEPT ![w].pc = "finish", ![w].result = result,
                             ![w].pause = pause, ![w].voided = FALSE]

\* After wait_for_persona_cluster_slot and the request, however long they take:
\* the page names nobody who is missing; or _apply_persona_identities resolves the
\* sessions of those it names, and counts what is left, in one transaction.
Read(w) ==
  /\ At(w, "request")
  /\ \E result \in Outcomes \ {"failed"} :
       /\ Possible(result)
       /\ debt' = (debt /\ result # "complete")
       /\ IF result = "none"
          THEN attempt' = [attempt EXCEPT ![w].pc = "streak", ![w].result = result]
          ELSE Ends(w, result, Pause(result))
  /\ UNCHANGED <<distributed, eligible, claim, fallback, unsettled>>

Longer(streak) == Backoff[streak + 1]

\* _persona_state_streak, in a transaction of its own.
ReadStreak(w) ==
  /\ At(w, "streak")
  /\ Ends(w, attempt[w].result, Longer(claim.streak))
  /\ UNCHANGED <<debt, distributed, eligible, claim, fallback, unsettled>>

\* The page, the URL or a query of the attempt raises.
Raises(w) ==
  /\ attempt[w].pc \in {"request", "streak"}
  /\ Ends(w, "failed", BaseRetry)
  /\ UNCHANGED <<debt, distributed, eligible, claim, fallback, unsettled>>

\* Mutant: whoever finishes writes the row.
AnyoneFinishes(w) == claim.holder # NoRow

MayFinish(w) == claim.holder \in {Nobody, w}

Finished(w) ==
  IF MayFinish(w)
  THEN [retry |-> attempt[w].pause, holder |-> Nobody, left |-> 0,
        streak |-> CASE attempt[w].result \in {"complete", "partial"} -> 0
                     [] attempt[w].result = "none" -> Lengthened(claim.streak)
                     [] OTHER -> claim.streak]
  ELSE claim

Finish(w) ==
  /\ At(w, "finish")
  /\ claim' = Finished(w)
  /\ attempt' = [attempt EXCEPT ![w] = Asleep]
  /\ UNCHANGED <<debt, distributed, eligible, fallback, unsettled>>

\* The transaction raises, having committed or not: the handler finishes the
\* attempt as failed; when that raises the sweep is over.
FinishRaises(w) ==
  /\ unsettled /\ At(w, "finish")
  /\ claim' \in {claim, Finished(w)}
  /\ IF attempt[w].result = "failed"
     THEN attempt' = [attempt EXCEPT ![w] = Asleep]
     ELSE Ends(w, "failed", BaseRetry)
  /\ UNCHANGED <<debt, distributed, eligible, fallback, unsettled>>

-----------------------------------------------------------------------------
(* The leader's fallback, process_player_persona_enrichment.                 *)

\* _seed_legacy_persona_queue_from_db: what the row says of a pause or a claim is
\* taken over while there is something to do. A pause keeps the server queued.
Seed ==
  /\ fallback.pc = "idle" /\ ~distributed
  /\ \/ /\ debt
        /\ fallback' = [pc |-> "seeded",
                        retry |-> Max({fallback.retry, claim.retry, claim.left}),
                        streak |-> Max({fallback.streak, claim.streak})]
     \/ /\ ~debt /\ (fallback.retry > 0 \/ fallback.streak > 0)
        /\ fallback' = [fallback EXCEPT !.pc = "seeded"]
  /\ UNCHANGED <<debt, distributed, eligible, claim, attempt, unsettled>>

\* A server still in its pause is put back in the queue; without pending
\* sessions its state is dropped.
Scan ==
  /\ fallback.pc = "seeded"
  /\ fallback' = IF fallback.retry > 0 THEN [fallback EXCEPT !.pc = "idle"]
                 ELSE IF ~debt THEN [pc |-> "idle", retry |-> 0, streak |-> 0]
                 ELSE [fallback EXCEPT !.pc = "request"]
  /\ UNCHANGED <<debt, distributed, eligible, claim, attempt, unsettled>>

FallbackRead ==
  /\ fallback.pc = "request"
  /\ \E result \in Outcomes \ {"failed"} :
       /\ Possible(result)
       /\ debt' = (debt /\ result # "complete")
       /\ fallback' =
            IF result = "none"
            THEN [pc |-> "idle", retry |-> Longer(fallback.streak),
                  streak |-> Lengthened(fallback.streak)]
            ELSE [pc |-> "idle", retry |-> Pause(result), streak |-> 0]
  /\ UNCHANGED <<distributed, eligible, claim, attempt, unsettled>>

\* The request or a transaction raises. A server without a page URL gets no pause.
FallbackRaises ==
  /\ fallback.pc = "request"
  /\ \E pause \in {NoPause, BaseRetry} :
       fallback' = [fallback EXCEPT !.pc = "idle", !.retry = pause]
  /\ UNCHANGED <<debt, distributed, eligible, claim, attempt, unsettled>>

-----------------------------------------------------------------------------
(* What happens around it.                                                   *)

\* Players join and leave, and the server comes back online.
SessionsChange ==
  /\ debt' = ~debt
  /\ UNCHANGED <<distributed, eligible, claim, attempt, fallback, unsettled>>

Holds(w) == attempt[w].pc \in {"request", "streak", "finish"}
Reads(w) == Holds(w) /\ ~At(w, "finish")

\* The server goes STALE or RETIRED: its sessions are closed and the row deleted
\* in one transaction.
ServerOffline ==
  /\ claim.holder # NoRow \/ debt
  /\ debt' = FALSE /\ claim' = Unclaimed
  /\ attempt' = [w \in Workers |-> IF Reads(w) THEN [attempt[w] EXCEPT !.voided = TRUE]
                                   ELSE attempt[w]]
  /\ UNCHANGED <<distributed, eligible, fallback, unsettled>>

Switch ==
  /\ unsettled /\ distributed' = ~distributed
  /\ UNCHANGED <<debt, eligible, claim, attempt, fallback, unsettled>>

\* A worker is drained, disabled or found stale, or comes back.
Membership(w) ==
  /\ unsettled
  /\ eligible' = IF w \in eligible THEN eligible \ {w} ELSE eligible \cup {w}
  /\ UNCHANGED <<debt, distributed, claim, attempt, fallback, unsettled>>

Crash(w) ==
  /\ unsettled /\ ~At(w, "idle")
  /\ attempt' = [attempt EXCEPT ![w] = Asleep]
  /\ UNCHANGED <<debt, distributed, eligible, claim, fallback, unsettled>>

\* Another process leads, with nothing in memory.
LeaderChange ==
  /\ unsettled
  /\ fallback' = [pc |-> "idle", retry |-> 0, streak |-> 0]
  /\ UNCHANGED <<debt, distributed, eligible, claim, attempt, unsettled>>

Settle ==
  /\ unsettled /\ eligible # {} /\ unsettled' = FALSE
  /\ UNCHANGED <<debt, distributed, eligible, claim, attempt, fallback>>

Less(t) == Max({t - 1, 0})

\* A second of the bounds passes.
PersonaTick ==
  /\ \A w \in Workers : Holds(w) => attempt[w].age < MaxAttempt
  /\ claim' = [claim EXCEPT !.retry = Less(@), !.left = Less(@)]
  /\ fallback' = [fallback EXCEPT !.retry = Less(@)]
  /\ attempt' = [w \in Workers |-> IF Holds(w)
                   THEN [attempt[w] EXCEPT !.age = @ + 1] ELSE attempt[w]]
  /\ UNCHANGED <<debt, distributed, eligible, unsettled>>

PersonaStep(w) ==
  \/ Sweep(w) \/ CheckOwner(w) \/ LookPending(w) \/ TryClaim(w) \/ Read(w)
  \/ ReadStreak(w) \/ Raises(w) \/ Finish(w)

Fallback == Seed \/ Scan \/ FallbackRead \/ FallbackRaises

PersonaNext ==
  \/ \E w \in Workers :
       PersonaStep(w) \/ FinishRaises(w) \/ Crash(w) \/ Membership(w)
  \/ Fallback \/ SessionsChange \/ ServerOffline \/ Switch \/ LeaderChange
  \/ Settle \/ PersonaTick

PersonaSpec == PersonaInit /\ [][PersonaNext]_personaVars

\* The loops run, an attempt that may go on does, and time passes.
PersonaFairSpec ==
  /\ PersonaSpec
  /\ \A w \in Workers : WF_personaVars(PersonaStep(w))
  /\ WF_personaVars(Fallback) /\ WF_personaVars(Settle)
  /\ WF_personaVars(PersonaTick)

-----------------------------------------------------------------------------
(* Properties.                                                               *)

\* Two workers wait for the server's page or read it at once only when the claim
\* of one of them has run out, or the server went offline in between, however
\* workers fail, drain and return. (_claim_persona_server, _finish_persona_attempt.)
Expired(w) == attempt[w].age >= Claim \/ attempt[w].voided

OverlapNeedsExpiry ==
  \A v, w \in Workers : v # w /\ Reads(v) /\ Reads(w) => Expired(v) \/ Expired(w)

\* Nobody but its holder ends or takes over a claim that has not run out, except
\* with the server. (_claim_persona_server, _finish_persona_attempt.)
LiveClaimStands ==
  [][\A w \in Workers : claim.holder = w /\ claim.left > 0 /\ attempt'[w] = attempt[w] =>
       claim'.holder \in {w, NoRow}]_personaVars

\* Unresolved sessions are not forgotten: their server's page is asked for again
\* and again until they are resolved or gone, whichever mode is on and wherever
\* claims, pauses and crashes left the row.
\* (distributed_persona_enrichment_loop, process_player_persona_enrichment.)
DebtIsAttempted ==
  ~unsettled ~> (~debt \/ fallback.pc = "request"
                 \/ \E w \in Workers : attempt[w].pc \in {"request", "streak", "finish"})
=============================================================================
