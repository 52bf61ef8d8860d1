# A verification development for BF4 Server Watcher

BF4 Server Watcher is a Discord bot that watches Battlefield 4 servers. Since 3.0 it
runs as a cluster: several identical worker processes share one PostgreSQL database,
one of them at a time is the *Discord leader* (it holds a lease and the Discord
connection), and all of them fetch server snapshots from Keeper. This directory holds
TLA+ models of the parts of it where processes meet, the TLC runs that check them, and
TLAPS proofs about them.

    tlc -workers 2 -config MCDiscordLeader_Fencing.cfg MCDiscordLeader
    tlapm DiscordLeaderProofs.tla

`PROJECT.json` lists the runs with their properties, for every definition the source
lines it stands for, and for every property a mutation of the model that breaks it.

## 1. The system

### Inventory

| Part | State | Operations | What is hard |
|---|---|---|---|
| Leadership supervisor (`discord_leader.py`) | generation, monotonic authority deadline, connected / session flags, state name | standby cycle, election head start, connect, leader cycle, control checks, renewal, release, shutdown | every database call runs in a thread the caller may abandon; authority must end before the row does; disconnect before release |
| Lease (`cluster_leases`, `control_plane.py:1226-1311`) | owner, generation, expiry | acquire, renew, release: one transaction on one locked row | `now()` is read before the lock is obtained |
| Handoff requests (`control_plane.py:963-1223`) | status, source, target, expected generation, expiry | create, mark started, complete, fail, expire | crash of either side, expiry during the move, third parties |
| Discord session (`serverwatcher.py:2600-2861`) | client, background tasks | start, stop, health | a start or stop that fails halfway |
| Server lifecycle (`server_lifecycle.py`, `serverwatcher.py:651-828`) | state, watermarks, outage columns, probe time, retirement | apply a Keeper result; ask for revalidation | observations out of order, stamped by different clocks |
| Keeper acquisition (`serverwatcher.py:5352-5819`) | snapshots, name history | lanes (bulk, fast, lifecycle), on-demand fetch | two transactions per observation; several workers on one server |
| Monitor cycle and player history (`serverwatcher.py:4013-4255, 5822-6440`) | open sessions, baselines, pending absences, command cache | load, filter, history, alerts | works on snapshots that others invalidate; process memory against shared rows |
| Rate gates (`control_plane.py:405-562`) | next request time per gate, waiter queue per lane | poll, wait | pacing across processes, dead waiters, starvation |
| HRW assignment (`control_plane.py:253-400`) | none | rank workers by hash | readers with different views of who is healthy |
| Persona enrichment (`serverwatcher.py:3307-4010`) | claims, backoff, alert modes; a leader-local legacy queue | claim, fetch, apply, finish | claims that run out while their owner waits |
| Watch alerts (`serverwatcher.py:3099-3300`) | alert rows | evaluate, send, record | send and record are not atomic |
| Presence (`serverwatcher.py:5512-5600, 6462-6525`) | persisted aggregate, local copy | compute, persist, hydrate | validity across leader changes |
| Player displays (`serverwatcher.py:4405-5305`) | message rows, hashes | create, edit, delete, replace | several messages, partial failure, restarts |
| Role panels (`serverwatcher.py:6742-7476`) | panel rows, debounce tasks | reconcile, replace | concurrent triggers, partial creation |
| Slash commands (`serverwatcher.py:7502-10900`) | configuration rows | validate and write | races with loops, mostly single-row writes |
| Guild retention (`serverwatcher.py:1717-1806, 6545-6640`) | `left_at` | leave, rejoin, nightly delete | rejoin during the delete |
| Discovery (`serverwatcher.py:1089-1318`) | daily checkpoints | PC and console discovery | crash between persisting and checkpoint |
| Geography (`geography_worker.py`) | durable request gate | reserve, fetch, back off | the advisory lock lives as long as a connection |
| Operator notifications (`operator_notifications.py`, `control_plane.py:1337-1435`) | events, destinations, deliveries | record, fan out, retry | uniqueness without a constraint, at-least-once |
| Settings cache (`control_plane.py:718-905`) | a copy of settings rows | refresh | none beyond staleness |
| Migrations (`migrate_with_lock.py`, `alembic/`) | schema version | upgrade under an advisory lock | several workers start together |
| PostgreSQL HA toolkit (`postgresql-ha/`) | a journal replicated to the surviving nodes | quiesce, fence, promote, reparent, DNS cutover, resume, rejoin | a crash at any step; two operators; split brain |
| Fleet deployment (`ops/fleet-deploy`) | per-host releases | deploy, roll back | a host failing halfway |
| Web dashboard (`optional/web-dashboard`) | none | read-only queries | none |
| Formatting and logging helpers | none | pure | none |

Parts interact through PostgreSQL rows only (no messages between workers), through
process memory inside one worker (asyncio tasks interleave at awaits, database work
runs in threads), and through Discord and Keeper, which may fail or be slow at any
time. Nothing orders the steps of two workers but row locks and clocks.

### What makes each part correct

- *Leadership*: whoever acts on Discord holds the lease at its generation; generations
  are never shared; the lease is given up only after the disconnect; a handoff that is
  completed has moved leadership to its target; a cluster with an eligible worker gets
  a leader again; no request stays open for ever.
- *Lifecycle*: the row says what the accepted evidence says whatever the order it came
  in; confirmed servers have a snapshot; the canonical name is that of the open history
  row; due probes get answered; errors change nothing.
- *Monitoring*: no session is open on a server that is offline; the first roster after
  a recovery alerts nobody; commands do not answer from an invalidated snapshot.
- *Persona claims*: two workers read one server's page at once only when a claim ran out or
  the server went away; a live claim is nobody else's; what is unresolved is attempted again.
- *Sessions and alerts*: a departure takes two rosters, whoever leads; a session is announced
  once; its mark outlives the leader.
- *Messages in Discord*: nothing is left in a guild that no row remembers; no two notices
  contradict; managers are mentioned once in an outage; an undisturbed cycle or reconciliation
  puts right what failures left.
- *Pacing*: the cluster never exceeds a gate's rate; a waiting worker keeps its place;
  everyone is served whose lane is.

## 2. Modules

| Module | Models | Uses |
|---|---|---|
| `ClusterLease` | the lease row and its three transactions, as operators | |
| `FencedLeadership` | abstract: one leader at a time, generations only grow | |
| `DiscordLeader` | supervisors, handoffs, sessions, crashes | `ClusterLease`, `FencedLeadership` (refinement) |
| `DiscordLeaderProofs` | proofs about it | `DiscordLeader` |
| `LifecyclePolicy` | `decide_lifecycle` and what `apply_keeper_lifecycle_result` writes, as operators | |
| `LifecycleEvidence` | the policy against a reference: what the accepted evidence says | `LifecyclePolicy` |
| `LifecycleEvidenceProofs` | proofs about it | `LifecycleEvidence` |
| `ServerLifecycle` | one server row under concurrent fetches | `LifecyclePolicy` |
| `MonitorCycle` | the leader's monitor cycle on top of the fetches | `ServerLifecycle` |
| `ServerLifecycleProofs` | proofs about the rows, alone and beside the cycle | `MonitorCycle` |
| `PlayerSessions`, `PlayerSessionsProofs` | rosters, sessions, aliases, persona marks and the alerts of one watched player, and proofs | |
| `PersonaClaims`, `PersonaClaimsProofs` | the durable claim on a server's persona page, and the leader-local fallback, and proofs | |
| `KeeperRateGate`, `KeeperRateGateProofs` | the gates and queues, and proofs | |
| `DiscordGuild` | the guild's channels, and the faults that may come | |
| `RolePanel` | the role panel: reconciliations, role events, the commands | `DiscordGuild` |
| `RolePanelProofs` | proofs about it | `RolePanel` |
| `ServerMessages` | announcement, notices and player list of a server: monitor and commands | `DiscordGuild` |
| `ServerMessagesInv` | its inductive invariants | `ServerMessages` |
| `ServerMessagesProofs` | proofs about it | `ServerMessagesInv` |
| `MCWorkers` | the gates, the policy, the probes and the persona claims in one run | the four |
| other `MC...` | model values, symmetry and bounds for TLC | |

### How the models correspond to the code

**DiscordLeader.** `pc[w]` is the await at which the supervisor coroutine stands; an
action is the code from one await to the next. A database call is *sent*, *begins* its
transaction (reading `now()`), *commits* and is *answered*; the caller may give up on it
at any point (`_db_bounded`), and then it may still commit, once, if its kind is in `LateOps`: a
call on the lease stays in `late`, an update of a handoff (`start`, `complete`, `fail`) in the
request's `late`. (A late sweep of expired requests does what the next poll of anybody does, and is not kept
apart.) A disconnect that raises or is cancelled leaves its client behind: `session[w]` is `left`, nobody controls
the client any more, and whether it is still connected is what `Live` says. Deadlines are relative to the present: `authority[w]` is what
`_remaining_authority_seconds` would return, `lease.left` what is left of the row. A
transaction that waited for the row acts with a `now()` that is `lag` ticks old.
The head start of the priority election is the time spent in `electing`. The retry
after an `IntegrityError` in `acquire_lease` is serialised with the insertion it lost
against. `Prompt` means that no step takes longer than its own timeout or poll period;
without it any step may be arbitrarily late. `DropSession`, `Stop`, `Crash`, `SetHealth`
and lost answers are disturbances, `MaxFaults` of them in a behaviour.

**LifecyclePolicy / ServerLifecycle / MonitorCycle.** One row, since rows of different servers
share nothing here. Time is absolute: `now` is the database clock, `Clock(f)` the
clock of the worker that runs task `f`. A fetch goes through `http` (answered by
Keeper with a success and a name, a 404 or an error), `store` (the snapshot
transaction with the rename), `record` (the lifecycle transaction), `note` (what the
process remembers) and `read` (the command's second look at the row); each transaction
may raise, having committed or not. Names and snapshots are told apart only by
equality and by time. `MonitorCycle` adds the leader's cycle, the one player session that
matters and the in-memory marks; fetch actions are strengthened with
what they do to these. `disturbed` turns false when failures cease, for liveness.

**KeeperRateGate.** Times are relative to now. A poll is one transaction, as the rows
are locked in a fixed order; its `now()` may be `MaxLag` old. Every process runs the lanes bulk, fast and lifecycle. `ahead[c]` is the set of
rows that come before `c`'s in `ORDER BY requested_at, worker_id`, which is all the
queue is read for. `level` is a history variable: a bucket that fills by one gap at
each grant and drains with time.

**PersonaClaims.** One server; its unresolved sessions are the Boolean `debt`. `attempt[w]` is
where worker `w`'s sweep stands between two transactions: the owner is looked up twice, the
pending sessions are read, the claim is one transaction, the page is read and applied, the streak is read in a transaction of
its own, and the end is written, or the write raises, having committed or not. `claim` is the row,
its times relative to the present; `fallback` is the process memory of the leader. `Switch`
changes `persona.distributed_enabled` at any time, and an attempt that is under way goes on.
The HRW hash is an order of the workers.

**PlayerSessions.** One server, so that every session is one row; names and personas are told apart by
equality. `History` is the roster transaction: it picks for each name the session the code may
find (the queries have no order, so any match), and closes what was absent twice. `monitor.pc`
stands at the parts of a cycle, `monitor.at` inside `evaluate_player_watch_alerts`, which
reads, sends and records in three steps. `WorkerResolves` is any worker's
transaction at any time. A crash is a `NewMonitor`.

**RolePanel.** `doing[t]` is a coroutine: the debounced runner, a caller of
`reconcile_role_panel`, `/setroleschannel`, `/delroleschannel`. Each step is the code between two calls
to Discord. Text and buttons of a panel are the number of panels it was made for. The two
commands do not take the lock, and neither does the model. `/setroleschannel` commits the settings and then the
rows, with nothing but a crash or a failure in between: `PersistFails` has both outcomes of each.

**ServerMessages.** `task[t].todo` is the list of operations a coroutine still has to do. What
follows a query is computed when the query is made, so that the operations work
on what was read then, as the code's local variables do. `Between` is where the other coroutine may act: at
every call to Discord, the message to the guild's log between a notice and its record included. `Unanswered` is a message
that Discord has sent and the bot takes for failed. `live` has the messages Discord has and
somebody refers to; a message that loses its last reference sets `abandoned`. The operations say
what a failure of theirs means (go on, note it, stop the procedure, give up the command), which
is how the code's `try` blocks and return values are kept.

## 3. Runs

| Run | Question | Bounds | Expect |
|---|---|---|---|
| `fencing` | does a leader always hold the lease, does the release wait for the disconnect, is this fenced leadership | 2 workers, TTL 2, 2 generations, 2 faults (failing disconnects included), steps arbitrarily late | pass |
| `close_fails` | is Discord closed when the lease is released | as above | violation |
| `recovery` | can two workers believe in one generation; does a completed handoff move leadership, is there a leader again, is the request closed | 1 request, 1 fault, late calls of every kind, fair | pass |
| `late_release` | single writer with a release that commits late | 2 faults | violation |
| `server_cycle` | outage columns, snapshot and evidence, names, and no session on an offline server | the cycle, a prober whose clock is ahead, a command, a rename, all failures; grace of 3 ticks, a clock up to 3 | pass |
| `error_watermark` | do errors change nothing | a lane and a command | violation |
| `recovery_alerts` | is the first roster after recovery a baseline | the recording worker does not lead | violation |
| `workers` | rates and places, turns in a lane; does the row say what the evidence says; is a due probe answered; do claims exclude, stand and get their work done | 2 workers of a lane and a laneless caller; 4 accepted observations in any order; prober and command; 2 workers and the fallback | pass |
| `lanes_served` | is everyone served | the 3 lanes at the seeded rates, 1 dead worker, no lag | violation |
| `player_alerts` | announced once, closed on two absences, marks that outlive the leader | 2 players, 2 names, 2 sessions, crashes and failures without bound | pass |
| `role_panel` | strays, healing, a move that keeps the old panel | 2 panels, 2 channels, 2 messages, 2 faults (calls and commits) | pass |
| `server_messages` | abandoned messages, contradictions, second mentions, healing | 2 channels, 1 fault, lists of 1 or 2 messages | pass |

`workers` has four subjects that share no variable: `part` chooses one of them at the
start and the others stand still, so that the state space is the sum of the four and not their product.
They are together because each is small and each is about what workers arrange through rows.

Why the bounds are enough. *Leader*: two workers give every pair of roles (holder and
challenger, source and target). `TTL` 2 or 3 with renewal after 1 tick is the least that tells renewal, expiry
and lag apart; two faults are a failure during the handling of another. *Lifecycle*:
intervals are scaled to a few ticks (grace, probe and retirement keep their order); in `server_cycle`
the clock runs long enough for a server to go offline, and a grace period of 3 is the least that is
`Timely` with a cycle of one tick and clocks one tick apart. A server that is lost and found again, and the
whole life with retirement, are in the policy part of `workers`. *Gates*: one tick is about a second; the
gaps 3, 4, 10 and 4 are the seeded 0.33, 0.23, 0.10 and 0.23 requests a second, the sleep cap 5 and the
stale time 15 are the code's in `lanes_served`. `workers` scales the last two to 2 and 3, which keeps
their order with the lag of 1; callers wake in time there (with a lag of 1 and a latency of 1 a stale time of
3 would no longer cover a sleep, as the 15 seconds do), while the theorems hold for any latency. *Persona*: a claim of one tick and attempts of up to one
let a claim run out under its holder; the pauses are one tick, for only their end matters.
*Sessions*: two names on two players are enough for a rename, a name that another player takes, and
two sessions of one roster; the second session is the one that must not be mistaken for the first.
There is no bound on crashes, failed messages or rosters. *Panels*: growing, shrinking and moving need two
panels, two channels and a message beside the recorded one; a panel of two messages moves only
as far as the two message ids go, which is its failure halfway. Two faults are a failure in
the clean-up after another. *Messages*: one fault at any
step, in addition to everything commands and lifecycle do; after a second one the properties would
have to except too much. A command may start inside a monitor cycle, which counts as
the fault; a cycle that starts inside a command overlaps with it in the same ways.

Deadlock is checked wherever the clock is unbounded. Runs of `ServerLifecycle`,
`MonitorCycle` and `LifecycleEvidence` end at `MaxTime` (or after the last observation), the leader's
runs end when the generations of the bound are used up, and the Discord runs when nobody does
anything and all channels are gone or ids used; those cfgs say so.

### Fairness

- *Leader* (`recovery`): weak fairness of every supervisor step, since asyncio resumes a
  ready coroutine and every await is bounded by a timeout; strong fairness of `Connected`,
  because the renewals that run beside the connection disable it again and again; strong
  fairness of `Tick`, because `Prompt` disables it whenever somebody is due;
  a stopped process is started again (`restart: unless-stopped`, `docker-compose.yml:6`).
- *Lifecycle* (`DueProbeSettles`): the lanes loop for ever, each HTTP request ends within its
  timeout, and failures cease at some time. Nothing is assumed of commands.
- *Persona* (`DebtIsAttempted`): failures, crashes and changes of settings cease at some time, with
  an eligible worker left; the worker loops and the monitor run for ever, so that a visit that may
  go on does; time passes. Nothing is assumed of players, of the server or of how long claims and
  pauses are. Whether a page names anybody is left open: the attempt is promised, not its success.
- *Gates* (`LaneIsFair`): time passes, and a caller that is due polls. Nothing makes callers ask, and nothing
  makes a lane get slots: `LaneIsFair` supposes that it does.

## 4. Disagreements between the code and what is said of it

Each `violation` run shows the code doing otherwise than a comment or a document says; the
`findings` of `PROJECT.json` quote the lines.

1. `late_release`: a release that commits after its caller gave up on it frees a lease acquired
   since, and a second leader appears beside the first.
2. `error_watermark`: an `ERROR` moves the watermark that successes are compared with, so that a
   success observed before it and recorded after it counts for nothing.
3. `recovery_alerts`: recovery marks live in the worker that recorded the recovery, not in the
   leader, which then alerts for the first roster.
4. `close_fails`: the comment in `_release_authority` calls it a safety invariant that Discord closes before the
   lease is released. `_disconnect` swallows an exception of the callback and clears its flags also when it is
   cancelled (`discord_leader.py:540-560`), and the release follows. `fencing` checks what is left of it: the release
   comes after the disconnect was over.
5. `lanes_served`: the changelog says that workers with pending work cannot starve. Within a lane that is so as long as the
   lane is served (`LaneIsFair` of `workers`). Across lanes the global gate has no queue (`control_plane.py:513-521`), and
   the rates of the lanes add up to more than the global one: with the bulk lane busy and due probes
   in the lifecycle lane at all times, the fast lane's head finds the gate shut whenever it polls. With a lag and a short sleep
   the same happens without the lifecycle lane, for what keeps the fast lane going is that its poll falls into
   the window between two bulk grants.

And these were met while modelling; the models contain them, and no run is made for them:

6. With distributed enrichment off, a leader that did not queue a marked session itself clears its mark
   without evaluating it (`serverwatcher.py:3937`), and the watched player is never announced, though the comment at 3056
   calls the re-evaluation durable. `MarkOutlivesLeader` is therefore about distributed enrichment.
7. The mention of the managers goes on record in a transaction after the message was sent (`serverwatcher.py:4822-4832`).
   A crash, a failed commit or a lost answer in between mentions the role again, though `RELEASE-v3.2.0.md:17` says once
   per outage; `MentionedOnce` excepts it.
8. `_finish_persona_attempt` (`serverwatcher.py:3426-3445`, comment at 3429) lets a holder whose claim ran out and
   was finished by another finish once more, as an empty claim counts as its own.
9. A role event that comes while the debounced reconciliation runs only moves a deadline
   (`serverwatcher.py:7133-7199`): the panel stays behind until something else reconciles it.
   `ReconcileHeals` therefore speaks of reconciliations that no change of roles disturbed.
10. A list whose second message cannot be sent leaves the first one in the channel, unrecorded
    (`serverwatcher.py:5044-5070`); `NothingAbandoned` excepts it as `partial`.
11. `/setroleschannel` and `/delroleschannel` work without `role_panel_reconcile_lock`: when they meet a
    reconciliation, strays may be left and the panel may come back. And when `/setroleschannel` fails or stops between its two
    commits (`serverwatcher.py:9185-9191`), the new channel is chosen while the rows are those of the old panel, which
    still stands; the next reconciliation moves it. `StraysNeedTrouble` and `SetKeepsPanel` say how far the promise goes.
12. A deleted announcement channel makes every deletion in it fail, so that `/defaultserver modify` and
    `remove` of its servers are refused for ever, although the log line (`serverwatcher.py:6688`) asks
    for a manual reassignment. `CycleHeals` excepts deleted channels.
13. A notice, announcement or list that was sent and not recorded (a crash, a failed commit, a lost answer, a meeting of the monitor
    with a command) stands in Discord for good: the bot finds its messages by its rows only. `CycleHeals` promises
    nothing about them.

## 5. Proofs

TLAPS proves the following for all values of the constants allowed by the `ASSUME`s. Every safety
property that a passing run checks, state invariant or action property, is among it.

**Leader** (`DiscordLeaderProofs`). `TypeInvariant`; `GenerationsAreUnique`: the
generation of the row bounds those
anyone was granted, is at or above what anyone believes in or is being told, and who believes in
the row's generation is its owner or its owner is gone: acquisition by another worker
raises the generation, and only then. It holds with every disturbance. `LeadershipIsFenced`,
`ReleaseComesLast` and `SupervisorsImplementFencedLeadership` assume only that no call on the lease commits after its
caller gave up, `Bounded == LateOps \cap {"acquire", "renew", "release"} = {}`; `late_release` shows that this
is needed. Disconnects may fail; a client that outlives its disconnect is not fenced, as `close_fails` shows, and the
three theorems speak of clients a supervisor controls. The
inductive invariant relates, for every call under way, its age and lag to what is left of
the row: the deadline counted from the sending of a call is never later than the expiry
counted from the `now()` of its transaction.

`HandoffsMoveLeadership` proves `CompletionMovesLeadership` with every disturbance, late calls and failed
disconnects included, and for any number of requests. A completion that commits after its caller gave up may find
its target no longer leading, so the property says that the target had led: `led`, a history variable of the
request, is set when the target's client is ready under a later generation. Its invariant, `Handoffs`, ties three things together that no
transaction reads at once. `Requested`: a request names a generation the row has reached, and once its target owns the
row, an earlier one. `Answers`: the handoff snapshot a supervisor carries from await to await is of a request that
was made, and is acknowledged (or settled, behind its back) from the moment the supervisor asks for the lease; and what that
supervisor was granted, or is being told, is later than the generation the request names. `RequestsKept`: whoever sweeps,
fails, acknowledges or creates requests meanwhile, a request keeps its target and its generation, and is never less than
acknowledged again. That a completed request was in progress, and not expired or failed in between, is left to
the test in `complete_handoff_request`, which `Answers` has to allow for. TLC checked `Handoffs` with two
requests before it was proved.

**Lifecycle rows** (`ServerLifecycleProofs`). `TypesHold`; `OutageIsCoherent`; `SuccessIsStored`: a success
on record is at most as new
as the stored snapshot, because a fetch that is about to record a success has stored its
snapshot or was refused in favour of a newer one; the strengthening carries this
through the `record` step of every fetch under way. `ConfirmationIsFresh` is the action
property of the same invariant. `NamesAgree` for any number of tasks and names.
Clocks may disagree arbitrarily. `CycleKeepsRows` and `CycleConfirmsFresh` carry all of it over to
`MonitorCycle`: each of its steps is one of the rows' steps or leaves the rows alone, and `CycleTypesHold`, which they
rest on, adds the types of the cycle.

**No session on an offline server** (`OfflineHasNoSession`, same module). The monitor cycle opens sessions from
a roster it read before, and closes them when it sees the server offline. What protects them is time:
a roster in hand is at most a cycle old, the observation that confirmed the server was then at most one
recording older, and the server goes offline only a grace period after the first 404. The theorem assumes

    Timely == \A f, g \in Tasks : MaxCycle + MaxDelay + Skew[g] - Skew[f] < Grace

since the start of the outage is stamped by the clock of one worker and its end by that of another. (The
code's figures: an hour of grace against minutes of cycle and seconds of clock difference.) The
inductive invariant has `Paced`, the ages of what is under way, and `RosterGuarded`: while a cycle has a
roster in hand the server is not offline, and an outage that began meanwhile was not observed longer before
the cycle than an observation may wait. A weaker condition without the clocks' difference is refuted by TLC, with
the bounds `Grace = 2`, `MaxTime = 3` of `server_cycle`: a worker whose clock is ahead ends the outage a
tick early.

**Lifecycle policy** (`LifecycleEvidenceProofs`). `PolicyFollowsEvidence` compares the row with a reference that
looks through the whole history of accepted observations; no induction over that history is needed, since
the invariant `Summary` says of the row what the reference says of the history, and one more
observation changes both alike. `ProbingIsPaced` comes from the same invariant.

**Persona claims** (`PersonaClaimsProofs`). `ReadersExclude` and `ClaimsStand` rest on `Covered`: who is between its claim
and the write of its end, and has not outlived the claim, is the holder in the row, and the age of the attempt and what is
left of the claim add up to `Claim`. No assumption on the length of claims against that of attempts is made, so
that claims do run out under their holders; the theorem says that nothing else lets two readers meet, but
a server that went offline. `BackoffIsBounded`, a lemma, shows that the pause computed from any
streak is one of the list's; the extremes of a set of numbers it needs are got from a least counterexample.

**Sessions and alerts** (`PlayerSessionsProofs`). `AnnouncedOnceHolds` through `Told`: a message in Discord is on
record, excused by a failure, or the one the leader is about to record. `DepartureNeedsTwo`
through `Begun`: what the leader remembers as absent was missed by a roster that nothing has contradicted
since. `MarksOutliveLeader` through `Evaluated`: a mark that is about to be cleared belongs to a session that
has been resolved and announced, or was somebody else's, or is over.

**Role panels** (`RolePanelProofs`). One invariant, `PanelInv`, for any number of panels, messages and callers:
`Books` (the rows and each task's view of them are of different messages, the panels a task has made are numbered without
gaps), `Roles` (the holder of the lock, and only it, is at work on panels), `Private` (what
`/setroleschannel` has created is known to nobody else before it is on record) and `CleanSoFar` (what
an undisturbed reconciliation has handled is as the roles need it). `ReconciliationHeals` and `SetKeeps` follow
from it. `StraysAreTroubled` needs `Tidy` in addition: as long as there is no trouble, a task that
works alone can account for every message that stands, in terms that depend on how far it is (`Story`).

**Messages about a server** (`ServerMessagesProofs`; its invariants are in `ServerMessagesInv`). `MessagesTypesHold`, `RoleMentionedOnce` and
`NoticesNeverContradict` from one invariant, `NoticesInv`, for any channels and faults. `Ids` is a bound
of the runs (a new message takes any id that nothing refers to), so that the theorems assume that it is large
enough: `EnoughIds` holds of every six ids and of `Nat`, not of the three of the run, where sending stops
when they are used up. `TypesHold` therefore has to say that Discord
holds only what a row or a coroutine refers to: at most five messages of each kind.
A coroutine's plan is a sequence of operations, and the invariant says of every remaining plan that it is
`Regular` (a notice that is sent or edited is recorded by the next operation, once, and before any
procedure begins), and of a coroutine that it is `Steady` (one that made a notice records it next).
While there is no excuse, `Undisturbed` holds: the two coroutines do not meet, the mention of this outage is on record or
about to be, who may still mention the role finds no mention before it, and who has a notice
to show has the recovery notice forgotten first. What replacing the head of a plan, cutting
it after a failure, or beginning another procedure keeps of this are lemmas about sequences (`Prefixed`, `Shorter`,
`AfterEnd`, `Begins`), by which one lemma per operation follows. TLC found no violation of
`NoticesInv` in the states of `server_messages` before it was proved.

`NothingIsAbandoned`: no message is left in Discord that nobody remembers. A message is lost in many ways (recorded
over, forgotten before it is deleted, deleted in vain, made by a coroutine that stops), so that the invariant,
`KeptInv`, has to account for all of them at once. One part holds always: a coroutine's plan is `Orderly`. `Precedes` says which
operation may come before which (nothing but another procedure follows one, nothing is decided after a check that may abort,
a message that was made meets only operations that `Allows` it until it is recorded), and `Closes` that what is sent or edited is
recorded by what follows (the time of the next update needs it only when it is sent). The other part holds while there is no excuse. A message that stands is on record or is one
that a coroutine at work has made (`Accounted`); the list of players is recorded in the server's channel, if at all (`Home`); and
each remaining operation finds what it relies on (`Fits`): what the coroutine read before is still what the database has,
or what it replaces will have been deleted by then; a deletion that fails leaves its message on record; a channel is
given up only when nothing in it is left behind. One lemma per operation follows, of the shape: what the head of the plan does to the rows and to
Discord is what the rest of the plan was promised. `Faithful` is what goes wrong first when an excuse arises, and is not
claimed then.

`CyclesHeal`: an undisturbed cycle of the monitor leaves the notice, and nothing else, on record for an offline server, and no notice
for one that is back, whatever was on record before; and what is on record is all that stands in Discord, unless
something had been sent without a record, two coroutines had met or half a list was sent. (The last part is that of `NothingIsAbandoned`: no cycle takes away what nothing refers to.) Here the invariant, `HealInv`, speaks of the future: while the cycle is
calm and the command idle, what is not right yet is what the rest of the plan still does (`ShowsOffline`: every other
message on record has an operation that withdraws it, the notice will be sent or edited and then recorded, or
everything is right and nothing but the end is left; `ShowsBack`: the notice is off the record, or the plan has yet to come to what forgets
it). It rests on `KeptInv`, whose `Orderly` says that nothing later in the plan undoes it. The theorem needs no
excuse to be absent for what is on record: the cycle heals what failures, crashes and commands that met an earlier cycle have left there.

Both assume `EnoughIds`. TLC found no violation of `KeptInv` and `HealInv` in the states of `server_messages` before they were proved;
several versions of them that were not inductive showed themselves there or in a step that could not be proved.

**Gates** (`KeeperRateGateProofs`). `GateTypes`; `RatesAreKept`: `level[k] <= gate[k] + MaxLag` and `-MaxLag <= gate[k] <= Gap[k]`
is inductive, so that nothing but the lag itself can be gained, once; `SleepersKeepTheirPlace`:
what is left of a sleep and the age of the row add up to at most the longest sleep and
the lag, so that `Longest + MaxLag <= Stale` is all the place in the queue needs.

Only model-checked: the liveness properties (`LeadershipRecovers`, `HandoffSettles`, `DueProbeSettles`,
`DebtIsAttempted`, `LaneIsFair`), since fairness and ENABLED are beyond the prover; and that the disagreements of section 4 are
reached, which are counterexamples.

## 6. Not modelled, and the plan

Not modelled yet, in the order of importance:

1. `HaJournal`, `HaTakeover`: the replicated journal (revisions, ownership) and the stages
   quiesce, fence, promote, reparent, DNS, resume, rejoin with a crash at each step.
   Abstract specification: at most one writable primary. Theorem: no promotion without a fence.
2. `OperatorEvents`: events, destinations, deliveries; the last-operator rule.
3. `GuildRetention`, `GeographyGate`, `Discovery`, `PresenceState`, `MigrationLock`: small and each
   with one race worth checking.

Left out of what is modelled: the message "No default server(s) set", which nothing tracks; the text and fate of log-channel
messages (their await is kept); the button that toggles a member's role; several guilds and servers, which share no row
in the modelled parts; the legacy acquisition inside the monitor cycle (`serverwatcher.py:5955-5969`), which records a success and
stores no snapshot, so that `SuccessHasSnapshot` and `ConfirmedWithSnapshot` speak of distributed acquisition; statistics of players and rendering of rosters.

HRW hashing, the settings cache, formatting, logging and the dashboard have no state
worth a model. The remaining slash commands are validation around single-row writes.
