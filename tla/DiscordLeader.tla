---------------------------- MODULE DiscordLeader ----------------------------
(***************************************************************************)
(* The Discord leadership supervisor (discord_leader.py) of every worker,  *)
(* the lease and handoff rows they share (control_plane.py), and the       *)
(* Discord session each starts and stops (serverwatcher.py).               *)
(*                                                                         *)
(* A worker runs one supervisor coroutine; pc is the await it stands at.   *)
(* Database calls run in a thread: they are sent, begin a transaction,     *)
(* commit, and are answered, and the caller may stop waiting at any point. *)
(* Deadlines are kept relative to the present: authority[w] is what        *)
(* _remaining_authority_seconds returns.                                   *)
(***************************************************************************)
EXTENDS ClusterLease

CONSTANTS
  RenewAfter,     \* discord.lease_renew_seconds, in ticks
  DbTimeout,      \* db_operation_timeout_seconds, in ticks
  MaxGeneration,  \* bound: no acquisition is attempted at this generation
  MaxRequests,    \* bound: handoff requests an operator creates
  MaxFaults,      \* bound: disturbances in one behaviour
  LateOps,        \* calls that may commit after their caller gave up
  Prompt          \* no step takes longer than its timeout or poll period

ASSUME BoundsAssumption ==
  /\ MaxGeneration \in Nat /\ MaxRequests \in Nat /\ MaxFaults \in Nat
  /\ RenewAfter \in Nat /\ DbTimeout \in Nat
  /\ LateOps \subseteq {"acquire", "renew", "release", "start", "complete", "fail"}
  /\ Prompt \in BOOLEAN

VARIABLES
  lease,       \* the discord:leader row of cluster_leases
  request,     \* the rows of cluster_handoff_requests, with the updates of
               \* each that nobody waits for (late), and whether its target
               \* has connected since under a later generation (led)
  health,      \* what list_role_candidates says of a worker
  pc,          \* where the supervisor of a worker awaits
  generation,  \* self.generation, 0 for None
  authority,   \* ticks left before _authority_deadline_monotonic
  session,     \* the worker's Discord client task; "left" once a disconnect
               \* failed and the supervisor has forgotten it
  started,     \* self._discord_session_started
  stopping,    \* self._stop_event
  origin,      \* who called _release_authority: "run", "check" or "connect"
  handoff,     \* the handoff snapshot the cycle read
  call,        \* the outstanding lease call of the supervisor
  late,        \* lease calls whose caller no longer waits for them
  faults       \* disturbances still allowed

supervisor == <<generation, authority, session, started, stopping>>
control    == <<origin, handoff>>
database   == <<lease, request>>
vars == <<lease, request, health, pc, generation, authority, session, started,
          stopping, origin, handoff, call, late, faults>>

Requests   == 1..MaxRequests
NoHandoff  == [id |-> 0, status |-> "none"]
NoCall     == [op |-> "none", st |-> "none", age |-> 0, lag |-> 0, gen |-> 0]
NewCall(op, g) == [op |-> op, st |-> "sent", age |-> 0, lag |-> 0, gen |-> g]
Grant(c, g) == [op |-> c.op, st |-> "granted", age |-> c.age, lag |-> 0, gen |-> g]

\* Nobody uses anything of a refused call but the refusal.
Refusal(op) == [op |-> op, st |-> "refused", age |-> 0, lag |-> 0, gen |-> 0]

Phases == {"off", "idle", "electing", "preparing", "acquiring", "announcing",
           "connecting", "completing", "leader", "checking", "auditing",
           "waiting", "renewing", "closing", "releasing", "failing"}
OpenStates  == {"pending", "in_progress"}
ClosedStates == {"completed", "failed", "expired"}

CallType == [op : {"none", "acquire", "renew", "release"},
             st : {"none", "sent", "begun", "granted", "refused"},
             age : 0..TTL, lag : 0..TTL, gen : Nat]
RequestType == [status : {"none"} \cup OpenStates \cup ClosedStates,
                source : Workers \cup {NoWorker}, target : Workers \cup {NoWorker},
                expected : Nat, lapsed : BOOLEAN,
                late : SUBSET {"start", "complete", "fail"}, led : BOOLEAN]
HandoffType == [id : {0} \cup Requests, status : {"none"} \cup OpenStates]
OrphanType == [worker : Workers, call : CallType]

TypeOK ==
  /\ lease \in LeaseRow
  /\ request \in [Requests -> RequestType]
  /\ health \in [Workers -> {"ok", "stale", "draining"}]
  /\ pc \in [Workers -> Phases]
  /\ generation \in [Workers -> Nat]
  /\ authority \in [Workers -> 0..TTL]
  /\ session \in [Workers -> {"closed", "open", "broken", "left"}]
  /\ started \in [Workers -> BOOLEAN]
  /\ stopping \in [Workers -> BOOLEAN]
  /\ origin \in [Workers -> {"run", "check", "connect"}]
  /\ handoff \in [Workers -> HandoffType]
  /\ call \in [Workers -> CallType]
  /\ late \subseteq OrphanType
  /\ faults \in 0..MaxFaults

Init ==
  /\ lease = NoLeaseRow
  /\ request = [r \in Requests |->
       [status |-> "none", source |-> NoWorker, target |-> NoWorker,
        expected |-> 0, lapsed |-> FALSE, late |-> {}, led |-> FALSE]]
  /\ health = [w \in Workers |-> "ok"]
  /\ pc = [w \in Workers |-> "idle"]
  /\ generation = [w \in Workers |-> 0]
  /\ authority = [w \in Workers |-> 0]
  /\ session = [w \in Workers |-> "closed"]
  /\ started = [w \in Workers |-> FALSE]
  /\ stopping = [w \in Workers |-> FALSE]
  /\ origin = [w \in Workers |-> "run"]
  /\ handoff = [w \in Workers |-> NoHandoff]
  /\ call = [w \in Workers |-> NoCall]
  /\ late = {}
  /\ faults = MaxFaults

-----------------------------------------------------------------------------
(* Shared pieces of the actions. *)

At(w, p)   == pc[w] = p
Goto(w, p) == pc' = [pc EXCEPT ![w] = p]
Disturbed  == faults > 0 /\ faults' = faults - 1

\* _local_eligibility and _candidate_control_plane_eligible: enabled, not
\* draining, role enabled, not stale, capability available.
Eligible(w) == health[w] = "ok"

Send(w, op, g) == call' = [call EXCEPT ![w] = NewCall(op, g)]

\* Mutant: the deadline counted from the reply.
RemainingFromReply(c) == TTL

\* _set_authority counts the deadline from the start of the request.
Remaining(c) == TTL - c.age

\* A wait of min(renew_seconds, remaining) that followed a grant is over.
RenewalDue(w) == authority[w] > 0 /\ authority[w] <= TTL - RenewAfter

\* _release_authority starts with _disconnect.
Relinquish(w, from) ==
  /\ Goto(w, "closing")
  /\ origin' = [origin EXCEPT ![w] = from]

IsOpen(row) == row.status \in OpenStates

\* Mutant: only requests nobody acknowledged expire.
SweptPending == [r \in Requests |->
                   IF request[r].status = "pending" /\ request[r].lapsed
                   THEN [request[r] EXCEPT !.status = "expired"] ELSE request[r]]

\* expire_handoff_requests, which get_active_handoff_request repeats.
Swept == [r \in Requests |->
            IF IsOpen(request[r]) /\ request[r].lapsed
            THEN [request[r] EXCEPT !.status = "expired"] ELSE request[r]]

\* get_active_handoff_request returns the oldest request still open.
ActiveHandoff(rows) ==
  LET open == {r \in Requests : IsOpen(rows[r])}
  IN IF open = {} THEN {NoHandoff}
     ELSE {[id |-> r, status |-> rows[r].status] :
             r \in {q \in open : \A s \in open : q <= s}}

\* fail_handoff_request: only a completed request keeps its status.
Failed(r) ==
  IF request[r].status = "completed" THEN request
  ELSE [request EXCEPT ![r].status = "failed"]

\* Mutant: an expired or failed request is completed all the same.
CompletedAlways(r) == [request EXCEPT ![r].status = "completed"]

\* complete_handoff_request: a settled request keeps its status.
Completed(r) ==
  IF IsOpen(request[r]) THEN [request EXCEPT ![r].status = "completed"] ELSE request

\* mark_handoff_started: a pending request is acknowledged, unless it expired.
Marked(r) ==
  IF request[r].status # "pending" THEN request
  ELSE [request EXCEPT ![r].status = IF request[r].lapsed THEN "expired"
                                     ELSE "in_progress"]

\* _handle_leader_handoff refuses: the request names an older generation, or
\* its target is ineligible.
Refuses(w) ==
  LET r == handoff[w].id
  IN /\ r # 0 /\ request[r].source = w
     /\ \/ request[r].expected # generation[w]
        \/ ~Eligible(request[r].target)

\* The update of its request that a supervisor waits for.
Updates(w) ==
  LET pending == At(w, "preparing") /\ handoff[w].status = "pending"
      refusing == \/ At(w, "failing")
                  \/ pending /\ ~Eligible(w)
                  \/ At(w, "checking") /\ Refuses(w)
  IN {u \in {"start", "complete", "fail"} :
        /\ handoff[w].id # 0
        /\ u = "start" => pending /\ Eligible(w)
        /\ u = "complete" => At(w, "completing")
        /\ u = "fail" => refusing}

\* _db_bounded gave the update up: it is lost, or commits later in its thread.
\* Each of them done twice is done once, so that a set keeps them.
Abandons(w) ==
  \/ UNCHANGED request
  \/ \E u \in Updates(w) \cap LateOps :
       request' = [request EXCEPT ![handoff[w].id].late = @ \cup {u}]

\* _fail_handoff swallows every exception.
FailRequest(w) ==
  \/ /\ request' = Failed(handoff[w].id)
     /\ UNCHANGED faults
  \/ /\ Disturbed
     /\ Abandons(w)

\* _active_handoff, whose result the cycle keeps.
ReadHandoff(w) ==
  /\ request' = Swept
  /\ \E h \in ActiveHandoff(Swept) : handoff' = [handoff EXCEPT ![w] = h]

-----------------------------------------------------------------------------
(* _standby_cycle: election and targeted handoff. *)

PollHandoff(w) ==
  /\ At(w, "idle") /\ ~stopping[w] /\ generation[w] = 0
  /\ ReadHandoff(w)
  /\ Goto(w, "electing")
  /\ UNCHANGED <<supervisor, lease, health, origin, call, late, faults>>

\* _should_attempt_acquire returns False, or a control-plane call raises; the
\* acknowledgement of mark_handoff_started may have been committed by then, or
\* be committed later.
GiveUp(w) ==
  /\ \/ /\ At(w, "electing")
        /\ \/ ~Eligible(w)
           \/ stopping[w] /\ handoff[w].id = 0
           \/ handoff[w].id # 0 /\ request[handoff[w].id].target # w
        /\ UNCHANGED <<request, faults>>
     \/ /\ pc[w] \in {"electing", "preparing"} /\ Disturbed
        /\ Abandons(w)
     \/ /\ At(w, "preparing") /\ handoff[w].status = "pending" /\ Eligible(w)
        /\ Disturbed
        /\ request' = Marked(handoff[w].id)
  /\ Goto(w, "idle")
  /\ handoff' = [handoff EXCEPT ![w] = NoHandoff]
  /\ UNCHANGED <<supervisor, lease, health, origin, call, late>>

\* No handoff: the priority head start is slept, then eligibility read again.
ElectOpenly(w) ==
  /\ At(w, "electing") /\ Eligible(w)
  /\ handoff[w].id = 0
  /\ lease.generation < MaxGeneration
  /\ Send(w, "acquire", 0)
  /\ Goto(w, "acquiring")
  /\ UNCHANGED <<supervisor, database, health, control, late, faults>>

ElectTarget(w) ==
  /\ At(w, "electing") /\ Eligible(w)
  /\ handoff[w].id # 0 /\ request[handoff[w].id].target = w
  /\ Goto(w, "preparing")
  /\ UNCHANGED <<supervisor, database, health, control, call, late, faults>>

\* _prepare_target_handoff, when the target is no longer eligible.
RejectTarget(w) ==
  /\ At(w, "preparing") /\ ~Eligible(w)
  /\ handoff[w].status = "pending"
  /\ FailRequest(w)
  /\ Goto(w, "idle")
  /\ handoff' = [handoff EXCEPT ![w] = NoHandoff]
  /\ UNCHANGED <<supervisor, lease, health, origin, call, late>>

\* _prepare_target_handoff: mark_handoff_started acknowledges readiness.
AcceptTarget(w) ==
  LET r == handoff[w].id
  IN /\ At(w, "preparing")
     /\ handoff[w].status = "pending" => Eligible(w)
     /\ lease.generation < MaxGeneration
     /\ request' = IF handoff[w].status = "pending" THEN Marked(r) ELSE request
     /\ IF handoff[w].status = "in_progress" \/ request'[r].status = "in_progress"
        THEN /\ Send(w, "acquire", 0)
             /\ Goto(w, "acquiring")
             /\ UNCHANGED handoff
        ELSE /\ Goto(w, "idle")
             /\ handoff' = [handoff EXCEPT ![w] = NoHandoff]
             /\ UNCHANGED call
     /\ UNCHANGED <<supervisor, lease, health, origin, late, faults>>

\* The answer of acquire_lease.
Acquired(w) ==
  /\ At(w, "acquiring") /\ call[w].st = "granted"
  /\ generation' = [generation EXCEPT ![w] = call[w].gen]
  /\ authority' = [authority EXCEPT ![w] = Remaining(call[w])]
  /\ call' = [call EXCEPT ![w] = NoCall]
  /\ Goto(w, "announcing")
  /\ UNCHANGED <<session, started, stopping, database, health, control, late, faults>>

NotAcquired(w) ==
  /\ At(w, "acquiring") /\ call[w].st = "refused"
  /\ call' = [call EXCEPT ![w] = NoCall]
  /\ Goto(w, "idle")
  /\ handoff' = [handoff EXCEPT ![w] = NoHandoff]
  /\ UNCHANGED <<supervisor, database, health, origin, late, faults>>

\* record_operator_event("leadership_acquired") raises: the cycle ends with
\* the generation set and no session.
AnnounceFails(w) ==
  /\ At(w, "announcing") /\ Disturbed
  /\ Goto(w, "idle")
  /\ handoff' = [handoff EXCEPT ![w] = NoHandoff]
  /\ UNCHANGED <<supervisor, database, health, origin, call, late>>

-----------------------------------------------------------------------------
(* _connect_as_leader and start_discord_leader_session. *)

ConnectTooLate(w) ==
  /\ At(w, "announcing") /\ authority[w] = 0
  /\ Relinquish(w, "connect")
  /\ UNCHANGED <<supervisor, database, health, handoff, call, late, faults>>

\* A client task that still runs makes start_discord_leader_session raise.
StartSession(w) ==
  /\ At(w, "announcing") /\ authority[w] > 0
  /\ started' = [started EXCEPT ![w] = TRUE]
  /\ IF session[w] = "closed"
     THEN /\ session' = [session EXCEPT ![w] = "open"]
          /\ Goto(w, "connecting")
          /\ UNCHANGED origin
     ELSE /\ Relinquish(w, "connect")
          /\ UNCHANGED session
  /\ UNCHANGED <<generation, authority, stopping, database, health, handoff,
                 call, late, faults>>

\* While the client starts, the lease is renewed.
RenewWhileConnecting(w) ==
  /\ At(w, "connecting") /\ call[w] = NoCall /\ session[w] # "closed"
  /\ RenewalDue(w)
  /\ Send(w, "renew", generation[w])
  /\ UNCHANGED <<supervisor, database, health, pc, control, late, faults>>

RenewedWhileConnecting(w) ==
  /\ At(w, "connecting") /\ call[w].st = "granted"
  /\ authority' = [authority EXCEPT ![w] = Remaining(call[w])]
  /\ call' = [call EXCEPT ![w] = NoCall]
  /\ UNCHANGED <<generation, session, started, stopping, database, health, pc,
                 control, late, faults>>

\* The deadline passed or the renewal was refused: the start is cancelled.
ConnectLosesAuthority(w) ==
  /\ At(w, "connecting")
  /\ \/ call[w] = NoCall /\ authority[w] = 0
     \/ call[w].st = "refused"
  /\ call' = [call EXCEPT ![w] = NoCall]
  /\ Relinquish(w, "connect")
  /\ UNCHANGED <<supervisor, database, health, handoff, late, faults>>

\* The requests for w that a generation granted after them has answered.
Led(w) ==
  [r \in Requests |->
     IF /\ request[r].status # "none" /\ request[r].target = w
        /\ generation[w] > request[r].expected
     THEN [request[r] EXCEPT !.led = TRUE] ELSE request[r]]

\* on_ready finished: the loop does not look at the deadline again.
Connected(w) ==
  /\ At(w, "connecting") /\ call[w] = NoCall /\ session[w] = "open"
  /\ Goto(w, "completing")
  /\ request' = Led(w)
  /\ UNCHANGED <<supervisor, lease, health, control, call, late, faults>>

\* The client task ended before READY.
ClientExited(w) ==
  /\ At(w, "connecting") /\ call[w] = NoCall /\ session[w] = "closed"
  /\ Relinquish(w, "connect")
  /\ UNCHANGED <<supervisor, database, health, handoff, call, late, faults>>

\* on_ready raised: the client task still runs.
ReadyFails(w) ==
  /\ At(w, "connecting") /\ call[w] = NoCall /\ session[w] = "open" /\ Disturbed
  /\ Relinquish(w, "connect")
  /\ UNCHANGED <<supervisor, database, health, handoff, call, late>>

\* _complete_target_handoff_if_needed; an exception, of the update or of the
\* event recorded after it, ends the cycle. The update may commit later.
CompleteHandoff(w) ==
  /\ At(w, "completing")
  /\ \/ /\ handoff[w].id = 0
        /\ Goto(w, "leader")
        /\ UNCHANGED <<request, faults>>
     \/ /\ handoff[w].id # 0
        /\ request' = Completed(handoff[w].id)
        /\ Goto(w, "leader")
        /\ UNCHANGED faults
     \/ /\ handoff[w].id # 0 /\ Disturbed
        /\ request' = Completed(handoff[w].id) \/ Abandons(w)
        /\ Goto(w, "idle")
  /\ handoff' = [handoff EXCEPT ![w] = NoHandoff]
  /\ UNCHANGED <<supervisor, lease, health, origin, call, late>>

-----------------------------------------------------------------------------
(* _leader_cycle and _leader_control_checks. *)

\* run() enters the leader cycle whenever a generation is set.
Resume(w) ==
  /\ At(w, "idle") /\ ~stopping[w] /\ generation[w] # 0
  /\ Goto(w, "leader")
  /\ UNCHANGED <<supervisor, database, health, control, call, late, faults>>

AuthorityExpired(w) ==
  /\ pc[w] \in {"leader", "waiting"} /\ ~stopping[w] /\ authority[w] = 0
  /\ Relinquish(w, "run")
  /\ UNCHANGED <<supervisor, database, health, handoff, call, late, faults>>

BeginChecks(w) ==
  /\ At(w, "leader") /\ ~stopping[w] /\ authority[w] > 0
  /\ ReadHandoff(w)
  /\ Goto(w, "checking")
  /\ UNCHANGED <<supervisor, lease, health, origin, call, late, faults>>

\* _handle_leader_handoff answers False: nothing to hand over yet.
KeepLeading(w) ==
  LET r == handoff[w].id
  IN /\ At(w, "checking")
     /\ \/ r = 0
        \/ r # 0 /\ request[r].source # w
        \/ /\ r # 0 /\ request[r].source = w
           /\ request[r].expected = generation[w]
           /\ Eligible(request[r].target)
           /\ handoff[w].status = "pending"
     /\ Goto(w, "auditing")
     /\ handoff' = [handoff EXCEPT ![w] = NoHandoff]
     /\ UNCHANGED <<supervisor, database, health, origin, call, late, faults>>

RejectHandoff(w) ==
  /\ At(w, "checking") /\ Refuses(w)
  /\ FailRequest(w)
  /\ Goto(w, "auditing")
  /\ handoff' = [handoff EXCEPT ![w] = NoHandoff]
  /\ UNCHANGED <<supervisor, lease, health, origin, call, late>>

\* The target acknowledged: close Discord, then release the lease.
HandOver(w) ==
  LET r == handoff[w].id
  IN /\ At(w, "checking") /\ r # 0 /\ request[r].source = w
     /\ request[r].expected = generation[w]
     /\ Eligible(request[r].target)
     /\ handoff[w].status = "in_progress"
     /\ Relinquish(w, "check")
     /\ handoff' = [handoff EXCEPT ![w] = NoHandoff]
     /\ UNCHANGED <<supervisor, database, health, call, late, faults>>

\* _connection_is_healthy is false before _connected, and after a disconnect.
Healthy(w) == started[w] /\ session[w] = "open"

AuditFails(w) ==
  /\ At(w, "auditing")
  /\ ~Eligible(w) \/ ~Healthy(w)
  /\ Relinquish(w, "check")
  /\ UNCHANGED <<supervisor, database, health, handoff, call, late, faults>>

AuditPasses(w) ==
  /\ At(w, "auditing") /\ Eligible(w) /\ Healthy(w)
  /\ Goto(w, "waiting")
  /\ UNCHANGED <<supervisor, database, health, control, call, late, faults>>

\* wait_for(_leader_control_checks(), timeout) cancels, or a read raises,
\* before anything was closed.
ChecksFail(w) ==
  /\ pc[w] \in {"checking", "auditing"} /\ Disturbed
  /\ Abandons(w)
  /\ Goto(w, "waiting")
  /\ handoff' = [handoff EXCEPT ![w] = NoHandoff]
  /\ UNCHANGED <<supervisor, lease, health, origin, call, late>>

Renew(w) ==
  /\ At(w, "waiting") /\ ~stopping[w] /\ RenewalDue(w)
  /\ Send(w, "renew", generation[w])
  /\ Goto(w, "renewing")
  /\ UNCHANGED <<supervisor, database, health, control, late, faults>>

Renewed(w) ==
  /\ At(w, "renewing") /\ call[w].st = "granted"
  /\ authority' = [authority EXCEPT ![w] = Remaining(call[w])]
  /\ call' = [call EXCEPT ![w] = NoCall]
  /\ Goto(w, "leader")
  /\ UNCHANGED <<generation, session, started, stopping, database, health,
                 control, late, faults>>

AuthorityLost(w) ==
  /\ At(w, "renewing") /\ call[w].st = "refused"
  /\ call' = [call EXCEPT ![w] = NoCall]
  /\ Relinquish(w, "run")
  /\ UNCHANGED <<supervisor, database, health, handoff, late, faults>>

\* The stop event ends the leader cycle.
StopLeading(w) ==
  /\ pc[w] \in {"leader", "waiting"} /\ stopping[w]
  /\ Goto(w, "idle")
  /\ UNCHANGED <<supervisor, database, health, control, call, late, faults>>

-----------------------------------------------------------------------------
(* _release_authority: _disconnect, then release_lease. *)

\* Mutant: the stop callback returns before the client is closed.
DisconnectedInBackground(w) == session[w]

\* stop_discord_leader_session closes the client before it returns.
Disconnected(w) == IF started[w] THEN "closed" ELSE session[w]

CloseSession(w) ==
  /\ At(w, "closing")
  /\ session' = [session EXCEPT ![w] = Disconnected(w)]
  /\ started' = [started EXCEPT ![w] = FALSE]
  /\ Send(w, "release", generation[w])
  /\ Goto(w, "releasing")
  /\ UNCHANGED <<generation, authority, stopping, database, health, control,
                 late, faults>>

\* What a disconnect that failed makes of the client: the supervisor no longer
\* knows of it, and it runs until it ends or is found by the next start.
Left(w) == IF session[w] = "closed" THEN "closed" ELSE "left"

\* The disconnect callback raises: logged, and the release goes on.
CloseRaises(w) ==
  /\ At(w, "closing") /\ started[w] /\ Disturbed
  /\ session' = [session EXCEPT ![w] = Left(w)]
  /\ started' = [started EXCEPT ![w] = FALSE]
  /\ Send(w, "release", generation[w])
  /\ Goto(w, "releasing")
  /\ UNCHANGED <<generation, authority, stopping, database, health,
                 control, late>>

\* The control check times out while it disconnects: _disconnect is
\* cancelled, its finally clears the flag, the cycle goes on.
CloseCancelled(w) ==
  /\ At(w, "closing") /\ origin[w] = "check" /\ started[w] /\ Disturbed
  /\ session' = [session EXCEPT ![w] = Left(w)]
  /\ started' = [started EXCEPT ![w] = FALSE]
  /\ origin' = [origin EXCEPT ![w] = "run"]
  /\ Goto(w, "waiting")
  /\ UNCHANGED <<generation, authority, stopping, database, health,
                 handoff, call, late>>

\* _clear_authority; a failed connection then fails its handoff.
ClearAuthority(w) ==
  /\ generation' = [generation EXCEPT ![w] = 0]
  /\ authority' = [authority EXCEPT ![w] = 0]
  /\ call' = [call EXCEPT ![w] = NoCall]
  /\ origin' = [origin EXCEPT ![w] = "run"]
  /\ IF origin[w] = "connect" /\ handoff[w].id # 0
     THEN /\ Goto(w, "failing")
          /\ UNCHANGED handoff
     ELSE /\ Goto(w, "idle")
          /\ handoff' = [handoff EXCEPT ![w] = NoHandoff]
  /\ UNCHANGED <<session, started, stopping>>

Released(w) ==
  /\ At(w, "releasing") /\ call[w].st \in {"granted", "refused"}
  /\ ClearAuthority(w)
  /\ UNCHANGED <<database, health, late, faults>>

FailConnectHandoff(w) ==
  /\ At(w, "failing")
  /\ FailRequest(w)
  /\ Goto(w, "idle")
  /\ handoff' = [handoff EXCEPT ![w] = NoHandoff]
  /\ UNCHANGED <<supervisor, lease, health, origin, call, late>>

\* The finally of run(), after which the process ends.
Shutdown(w) ==
  /\ At(w, "idle") /\ stopping[w]
  /\ IF generation[w] # 0
     THEN /\ Relinquish(w, "run")
          /\ UNCHANGED stopping
     ELSE /\ Goto(w, "off")
          /\ stopping' = [stopping EXCEPT ![w] = FALSE]
          /\ UNCHANGED origin
  /\ UNCHANGED <<generation, authority, session, started, database, health,
                 handoff, call, late, faults>>

-----------------------------------------------------------------------------
(* The database side of a lease call, and callers that stop waiting. *)

\* The transaction begins: db_now is fixed; acquire_lease reads its worker.
Begin(w) ==
  /\ call[w].st = "sent"
  /\ IF call[w].op = "acquire" /\ health[w] = "draining"
     THEN call' = [call EXCEPT ![w] = Refusal("acquire")]
     ELSE call' = [call EXCEPT ![w].st = "begun"]
  /\ UNCHANGED <<supervisor, database, health, pc, control, late, faults>>

\* The row is locked, tested and written, and the transaction commits.
Granted(w, c) ==
  \/ c.op = "acquire" /\ AcquireGranted(lease, w, c.lag)
  \/ c.op = "renew"   /\ RenewGranted(lease, w, c.gen, c.lag)
  \/ c.op = "release" /\ ReleaseGranted(lease, w, c.gen)

Written(w, c) ==
  CASE c.op = "acquire" -> AcquiredRow(lease, w, c.lag)
    [] c.op = "renew"   -> RenewedRow(lease, w, c.gen, c.lag)
    [] c.op = "release" -> ReleasedRow(lease, c.lag)

Commit(w) ==
  /\ call[w].st = "begun"
  /\ \/ /\ Granted(w, call[w])
        /\ lease' = Written(w, call[w])
        /\ call' = [call EXCEPT ![w] = Grant(call[w], lease'.generation)]
     \/ /\ ~Granted(w, call[w])
        /\ call' = [call EXCEPT ![w] = Refusal(call[w].op)]
        /\ UNCHANGED lease
  /\ UNCHANGED <<supervisor, request, health, pc, control, late, faults>>

\* The thread of a call nobody waits for: asyncio.wait_for cannot stop it.
Orphaned(w) ==
  \/ UNCHANGED late
  \/ /\ call[w].op \in LateOps /\ call[w].st \in {"sent", "begun"}
     /\ late' = late \cup {[worker |-> w, call |-> [call[w] EXCEPT !.age = 0]]}

LateBegin(o) ==
  /\ o.call.st = "sent"
  /\ late' = (late \ {o}) \cup
       IF o.call.op = "acquire" /\ health[o.worker] = "draining" THEN {}
       ELSE {[o EXCEPT !.call.st = "begun"]}
  /\ UNCHANGED <<supervisor, database, health, pc, control, call, faults>>

LateCommit(o) ==
  /\ o.call.st = "begun"
  /\ lease' = IF Granted(o.worker, o.call) THEN Written(o.worker, o.call) ELSE lease
  /\ late' = late \ {o}
  /\ UNCHANGED <<supervisor, request, health, pc, control, call, faults>>

\* The thread of an abandoned update of a request.
LateUpdate(r, u) ==
  LET updated == CASE u = "start" -> Marked(r)
                   [] u = "complete" -> Completed(r)
                   [] u = "fail" -> Failed(r)
  IN /\ request' = [updated EXCEPT ![r].late = @ \ {u}]
     /\ UNCHANGED <<supervisor, lease, health, pc, control, call, late, faults>>

\* _db_bounded raises: a timeout, an error, or a reply that was lost.
CallFails(w) ==
  /\ call[w].op # "none" /\ Disturbed
  /\ Orphaned(w)
  /\ \/ /\ At(w, "acquiring")
        /\ call' = [call EXCEPT ![w] = NoCall]
        /\ Goto(w, "idle")
        /\ handoff' = [handoff EXCEPT ![w] = NoHandoff]
        /\ UNCHANGED <<supervisor, origin>>
     \/ /\ At(w, "connecting")
        /\ call' = [call EXCEPT ![w] = NoCall]
        /\ UNCHANGED <<supervisor, pc, control>>
     \/ /\ At(w, "renewing")
        /\ call' = [call EXCEPT ![w] = NoCall]
        /\ IF authority[w] > 0 THEN Goto(w, "leader") /\ UNCHANGED origin
                               ELSE Relinquish(w, "run")
        /\ UNCHANGED <<supervisor, handoff>>
     \/ /\ At(w, "releasing")
        /\ ClearAuthority(w)
  /\ UNCHANGED <<database, health>>

\* The control check times out while the lease is being released: the
\* generation is kept, and with it the leader cycle.
ReleaseCancelled(w) ==
  /\ At(w, "releasing") /\ origin[w] = "check" /\ Disturbed
  /\ Orphaned(w)
  /\ call' = [call EXCEPT ![w] = NoCall]
  /\ origin' = [origin EXCEPT ![w] = "run"]
  /\ Goto(w, "waiting")
  /\ UNCHANGED <<supervisor, database, health, handoff>>

-----------------------------------------------------------------------------
(* The environment: time, operators, heartbeats, Discord, processes. *)

\* create_handoff_request, by an operator who read the lease.
CreateRequest(r, t) ==
  /\ request[r].status = "none" /\ \A q \in Requests : q < r => request[q].status # "none"
  /\ lease.owner \in Workers \ {t}
  /\ \A q \in Requests : ~IsOpen(Swept[q])
  /\ request' = [Swept EXCEPT ![r] =
       [status |-> "pending", source |-> lease.owner, target |-> t,
        expected |-> lease.generation, lapsed |-> FALSE,
        late |-> {}, led |-> FALSE]]
  /\ UNCHANGED <<supervisor, lease, health, pc, control, call, late, faults>>

\* The expires_at of an open request passes.
LapseRequest(r) ==
  /\ IsOpen(request[r]) /\ ~request[r].lapsed
  /\ request' = [request EXCEPT ![r].lapsed = TRUE]
  /\ UNCHANGED <<supervisor, lease, health, pc, control, call, late, faults>>

\* set_worker_draining, a worker row disabled, heartbeats that stop or resume.
SetHealth(w, h) ==
  /\ health[w] # h
  /\ IF h = "ok" THEN UNCHANGED faults ELSE Disturbed
  /\ health' = [health EXCEPT ![w] = h]
  /\ UNCHANGED <<supervisor, database, pc, control, call, late>>

\* The gateway drops a client, which reconnects by itself or ends; of one that
\* was left behind only the end matters.
DropSession(w, s) ==
  /\ session[w] # "closed" /\ session[w] # s
  /\ session[w] = "left" => s = "closed"
  /\ IF s = "open" THEN UNCHANGED faults ELSE Disturbed
  /\ session' = [session EXCEPT ![w] = s]
  /\ UNCHANGED <<generation, authority, started, stopping, database, health, pc,
                 control, call, late>>

\* SIGTERM: main_async stops the supervisor and waits for it.
Stop(w) ==
  /\ pc[w] # "off" /\ ~stopping[w] /\ Disturbed
  /\ stopping' = [stopping EXCEPT ![w] = TRUE]
  /\ UNCHANGED <<generation, authority, session, started, database, health, pc,
                 control, call, late>>

\* The process dies: its client, its threads and its memory are gone.
Crash(w) ==
  /\ pc[w] # "off" /\ Disturbed
  /\ Orphaned(w)
  /\ Goto(w, "off")
  /\ generation' = [generation EXCEPT ![w] = 0]
  /\ authority' = [authority EXCEPT ![w] = 0]
  /\ session' = [session EXCEPT ![w] = "closed"]
  /\ started' = [started EXCEPT ![w] = FALSE]
  /\ stopping' = [stopping EXCEPT ![w] = FALSE]
  /\ origin' = [origin EXCEPT ![w] = "run"]
  /\ handoff' = [handoff EXCEPT ![w] = NoHandoff]
  /\ call' = [call EXCEPT ![w] = NoCall]
  /\ Abandons(w)
  /\ UNCHANGED <<lease, health>>

\* The container restarts the process.
Start(w) ==
  /\ At(w, "off")
  /\ Goto(w, "idle")
  /\ UNCHANGED <<supervisor, database, health, control, call, late, faults>>

\* With Prompt, a call ends within its timeout, a wait within the renewal
\* period, and everything else between two ticks.
OnTime(w) ==
  /\ call[w].op # "none" => call[w].age < DbTimeout
  /\ pc[w] \in {"waiting", "connecting"} /\ call[w].op = "none"
       => authority[w] > TTL - RenewAfter
  /\ pc[w] \notin {"announcing", "completing", "leader", "checking", "auditing",
                   "closing", "failing", "preparing"}
  /\ At(w, "electing") => handoff[w].id = 0

\* Mutant: _remaining_authority_seconds without its max(0.0, ...).
MinusUnfloored(n) == n - 1

Minus(n) == IF n > 0 THEN n - 1 ELSE 0
Plus(n)  == IF n < TTL THEN n + 1 ELSE TTL
AgedCall(c) ==
  IF c.st \in {"none", "refused"} THEN c
  ELSE [c EXCEPT !.age = Plus(c.age),
                 !.lag = IF c.st = "begun" THEN Plus(c.lag) ELSE c.lag]

Tick ==
  /\ Prompt => \A w \in Workers : OnTime(w)
  /\ lease' = AgedRow(lease)
  /\ authority' = [w \in Workers |-> Minus(authority[w])]
  /\ call' = [w \in Workers |-> AgedCall(call[w])]
  /\ late' = {[o EXCEPT !.call.lag = IF o.call.st = "begun" THEN Plus(o.call.lag)
                                     ELSE o.call.lag] : o \in late}
  /\ UNCHANGED <<request, health, pc, generation, session, started, stopping,
                 control, faults>>

-----------------------------------------------------------------------------
\* What the program does by itself.
Step(w) ==
  \/ PollHandoff(w) \/ GiveUp(w) \/ ElectOpenly(w) \/ ElectTarget(w)
  \/ RejectTarget(w) \/ AcceptTarget(w) \/ Acquired(w) \/ NotAcquired(w)
  \/ ConnectTooLate(w) \/ StartSession(w) \/ RenewWhileConnecting(w)
  \/ RenewedWhileConnecting(w) \/ ConnectLosesAuthority(w) \/ Connected(w)
  \/ ClientExited(w) \/ CompleteHandoff(w) \/ Resume(w) \/ AuthorityExpired(w) \/ BeginChecks(w)
  \/ KeepLeading(w) \/ RejectHandoff(w) \/ HandOver(w) \/ AuditFails(w)
  \/ AuditPasses(w) \/ Renew(w) \/ Renewed(w) \/ AuthorityLost(w)
  \/ StopLeading(w) \/ CloseSession(w) \/ Released(w) \/ FailConnectHandoff(w)
  \/ Shutdown(w) \/ Begin(w) \/ Commit(w)

\* What goes wrong around it.
Disturbance(w) ==
  \/ AnnounceFails(w) \/ ReadyFails(w) \/ ChecksFail(w) \/ CloseRaises(w)
  \/ CloseCancelled(w) \/ CallFails(w) \/ ReleaseCancelled(w)
  \/ Stop(w) \/ Crash(w)
  \/ \E h \in {"ok", "stale", "draining"} : SetHealth(w, h)
  \/ \E s \in {"closed", "open", "broken"} : DropSession(w, s)

Next ==
  \/ \E w \in Workers : Step(w) \/ Disturbance(w) \/ Start(w)
  \/ \E o \in late : LateBegin(o) \/ LateCommit(o)
  \/ \E r \in Requests :
       \/ LapseRequest(r)
       \/ \E t \in Workers : CreateRequest(r, t)
       \/ \E u \in request[r].late : LateUpdate(r, u)
  \/ Tick

Spec == Init /\ [][Next]_vars

-----------------------------------------------------------------------------
(* Safety. *)

Live(w)  == session[w] # "closed"

\* A client the supervisor knows of: not one that outlived its disconnect.
Controlled(w) == session[w] \in {"open", "broken"}
Leads(w) == started[w] /\ session[w] = "open" /\ authority[w] > 0

\* The generation is a fencing token: whatever is lost, late or crashed, no
\* two workers ever believe in the same one (generation of cluster_leases).
UniqueGeneration ==
  \A v, w \in Workers : generation[v] = generation[w] /\ generation[v] # 0 => v = w

\* A worker whose local deadline has not passed, and which controls a Discord
\* client or is about to start one, holds the lease row at its generation for
\* at least as long as it believes (class docstring of the supervisor). Nothing
\* fences a client that outlived its disconnect: see CloseBeforeRelease.
Fenced ==
  \A w \in Workers :
    authority[w] > 0 /\ (Controlled(w) \/ At(w, "announcing")) =>
      /\ lease.owner = w
      /\ lease.generation = generation[w]
      /\ authority[w] <= lease.left

\* "Discord/database side effects remain single-writer: only the current fenced
\* Discord leader processes shared snapshots" (CHANGELOG.md).
SingleWriter == \A v, w \in Workers : Leads(v) /\ Leads(w) => v = w

\* "Safety invariant: Discord closes before lease release." (_release_authority)
CloseBeforeRelease ==
  [][\A w \in Workers : lease.owner = w /\ lease'.owner = NoWorker => ~Live(w)]_vars

\* The lease is released, on every path that gives it up, only after the
\* disconnect was over: the client is closed, or that very disconnect failed.
ReleaseFollowsDisconnect ==
  [][\A w \in Workers :
       lease.owner = w /\ lease'.owner = NoWorker => ~Controlled(w) /\ ~started[w]]_vars

\* A handoff completes only once its target has acknowledged it and, under a
\* generation granted after it was made, connected to Discord
\* (_complete_target_handoff_if_needed). The target leads at that moment,
\* unless it no longer waited for the update.
CompletionMovesLeadership ==
  [][\A r \in Requests :
       request'[r].status = "completed" /\ request[r].status # "completed" =>
         /\ request[r].status = "in_progress" /\ request[r].led
         /\ \/ "complete" \in request[r].late
            \/ /\ generation[request[r].target] > request[r].expected
               /\ started[request[r].target]]_vars

\* A worker acts as leader while it controls a client and believes in its
\* authority.
Acting == {w \in Workers : authority[w] > 0 /\ Controlled(w)}

Promise == INSTANCE FencedLeadership
  WITH holder <- lease.owner, epoch <- lease.generation, acting <- Acting

\* The supervisors and the lease row implement fenced leadership.
ImplementsFencedLeadership == Promise!Spec

-----------------------------------------------------------------------------
(* Liveness. *)

\* asyncio schedules every coroutine; a client that can reach READY does; the
\* container runtime restarts the process; the gateway reconnects; time passes.
Fairness ==
  /\ \A w \in Workers :
       /\ WF_vars(Step(w))
       /\ SF_vars(Connected(w))
       /\ WF_vars(Start(w))
       /\ WF_vars(DropSession(w, "open"))
  /\ \A r \in Requests : WF_vars(LapseRequest(r))
  /\ SF_vars(Tick)

FairSpec == Spec /\ Fairness

\* Whatever went wrong before, a worker that stays eligible is enough for the
\* cluster to settle under one leader.
LeadershipRecovers ==
  (\E w \in Workers : <>[]Eligible(w)) => <>[](\E w \in Workers : Leads(w))

\* A handoff request never stays open: it completes, fails or expires.
HandoffSettles ==
  \A r \in Requests : IsOpen(request[r]) ~> request[r].status \in ClosedStates
=============================================================================
