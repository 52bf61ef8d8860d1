--------------------------- MODULE KeeperRateGate ---------------------------
(***************************************************************************)
(* The PostgreSQL gates that pace the Keeper requests of the whole cluster *)
(* (control_plane.py): one global gate, one gate per acquisition lane and  *)
(* a queue of the workers that wait for a lane's gate.                     *)
(*                                                                         *)
(* Times are relative to now: a gate holds the time left until its         *)
(* next_request_at, a waiter how long ago it was seen. A transaction reads *)
(* now() where it starts and acts once it has the locks, up to MaxLag      *)
(* later.                                                                  *)
(***************************************************************************)
EXTENDS Integers, FiniteSets

CONSTANTS
  Callers,   \* the lane loops of all workers: records [lane, worker]
  Gap,       \* 1 / requests per second of each gate, "keeper" the global one
  Retry,     \* KEEPER_RATE_WAITER_RETRY_SECONDS
  MaxSleep,  \* the longest wait_for_keeper_cluster_slot sleeps
  Stale,     \* KEEPER_RATE_WAITER_STALE_SECONDS
  MaxLag,    \* bound: how long a transaction waits for its locks
  Latency,   \* bound: how late a caller may wake up
  MaxFaults  \* bound: how many callers may stop while they wait

Lanes == {c.lane : c \in Callers} \ {"direct"}
Gates == {"keeper"} \cup Lanes

ASSUME GateAssumption ==
  /\ \A c \in Callers : c.lane # "keeper" /\ c.worker \in Nat
  /\ Gap \in [Gates -> Nat \ {0}]
  /\ Retry \in Nat \ {0} /\ MaxSleep \in Nat \ {0} /\ Stale \in Nat
  /\ MaxLag \in Nat /\ Latency \in Nat /\ MaxFaults \in Nat

VARIABLES
  gate,     \* next_request_at of each gate
  seen,     \* for each waiter row, how long ago it was refreshed
  asked,    \* and how long ago it was added, as far as that matters
  ahead,    \* the callers whose rows come before it in the lane's queue
  waiting,  \* the callers in wait_for_keeper_cluster_slot
  wake,     \* when each of them polls next
  faults,   \* how many more may stop
  level     \* history: how far each gate's grants run ahead of its rate

rows == <<seen, asked, ahead>>
vars == <<gate, rows, waiting, wake, faults, level>>

\* No row of the caller is in the queue.
Absent == -1

Larger(a, b) == IF a >= b THEN a ELSE b

TypeOK ==
  /\ gate \in [Gates -> Int]
  /\ seen \in [Callers -> Nat \cup {Absent}]
  /\ asked \in [Callers -> 0 .. MaxLag + 1]
  /\ ahead \in [Callers -> SUBSET Callers]
  /\ waiting \in SUBSET Callers
  /\ wake \in [Callers -> -Latency .. Larger(Retry, MaxSleep)]
  /\ faults \in 0 .. MaxFaults
  /\ level \in [Gates -> Nat]

Init ==
  /\ gate = [k \in Gates |-> 0]
  /\ seen = [c \in Callers |-> Absent]
  /\ asked = [c \in Callers |-> 0]
  /\ ahead = [c \in Callers |-> {}]
  /\ waiting = {}
  /\ wake = [c \in Callers |-> 0]
  /\ faults = MaxFaults
  /\ level = [k \in Gates |-> 0]

-----------------------------------------------------------------------------
(* try_acquire_keeper_rate_slot.                                             *)

Needs(c) == {"keeper"} \cup ({c.lane} \ {"direct"})

\* The waiter rows of the caller's lane that are left when the stale ones and
\* those in gone are deleted.
Queued(c, lag, gone) ==
  {d \in Callers : /\ d.lane = c.lane /\ seen[d] # Absent
                   /\ seen[d] <= Stale + lag /\ d \notin gone}

\* ORDER BY requested_at, worker_id, against a row added now.
Before(d, c, lag) ==
  asked[d] > lag \/ (asked[d] = lag /\ d.worker < c.worker)

\* Mutant: a waiter that polls again is not refreshed.
JoinUnseen(c, lag) ==
  /\ seen' = [d \in Callers |-> IF d = c /\ seen[d] = Absent THEN lag
                                ELSE IF d.lane = c.lane /\ seen[d] > Stale + lag
                                     THEN Absent ELSE seen[d]]
  /\ UNCHANGED <<asked, ahead>>

\* The queue of the lane once the caller has refreshed its row or added it.
Join(c, lag) ==
  LET queue == Queued(c, lag, {c})
      kept == seen[c] # Absent /\ seen[c] <= Stale + lag
  IN  /\ seen' = [d \in Callers |-> IF d = c THEN lag
                                    ELSE IF d.lane = c.lane /\ d \notin queue
                                         THEN Absent ELSE seen[d]]
      /\ asked' = [asked EXCEPT ![c] = IF kept THEN @ ELSE lag]
      /\ ahead' = [d \in Callers |->
           IF d = c THEN queue \cap (IF kept THEN ahead[c]
                                     ELSE {e \in queue : Before(e, c, lag)})
           ELSE IF d.lane # c.lane THEN ahead[d]
           ELSE IF d \notin queue THEN {}
           ELSE (ahead[d] \cap queue)
                \cup (IF (kept /\ c \in ahead[d]) \/ (~kept /\ ~Before(d, c, lag))
                      THEN {c} ELSE {})]

\* The queue of the lane without the caller and the stale rows.
Leave(c, lag) ==
  LET queue == Queued(c, lag, {c})
  IN  /\ seen' = [d \in Callers |-> IF d.lane = c.lane /\ d \notin queue
                                    THEN Absent ELSE seen[d]]
      /\ ahead' = [d \in Callers |-> IF d.lane # c.lane THEN ahead[d]
                                     ELSE IF d \in queue THEN ahead[d] \cap queue
                                     ELSE {}]
      /\ UNCHANGED asked

\* Mutant: the gate goes to whoever polls first.
FirstAnyone(c, lag) == TRUE

\* The caller's row, once refreshed or added, is the first of its lane.
First(c, lag) ==
  LET queue == Queued(c, lag, {c})
  IN  \/ c.lane = "direct"
      \/ IF seen[c] # Absent /\ seen[c] <= Stale + lag
         THEN ahead[c] \cap queue = {}
         ELSE \A d \in queue : ~Before(d, c, lag)

Enqueue(c, lag) == IF c.lane = "direct" THEN UNCHANGED rows ELSE Join(c, lag)

Sleep(c, time) ==
  /\ wake' = [wake EXCEPT ![c] = time]
  /\ UNCHANGED <<gate, waiting, faults, level>>

\* How long the caller's gates stay closed.
Wait(c, lag) ==
  LET shut == {gate[k] + lag : k \in Needs(c)}
  IN  CHOOSE t \in shut \cup {0} : \A u \in shut \cup {0} : t >= u

\* A caller polls no earlier than it meant to, in a transaction that started
\* lag ago.
Polls(c, lag) == c \in waiting /\ wake[c] + lag <= 0

NotFirst(c, lag) ==
  /\ Polls(c, lag) /\ ~First(c, lag)
  /\ Enqueue(c, lag) /\ Sleep(c, Retry)

\* Mutant: the sleep is not capped.
ShutUncapped(c, lag) ==
  /\ Polls(c, lag) /\ First(c, lag) /\ Wait(c, lag) > 0
  /\ Enqueue(c, lag)
  /\ Sleep(c, Wait(c, lag))

Shut(c, lag) ==
  /\ Polls(c, lag) /\ First(c, lag) /\ Wait(c, lag) > 0
  /\ Enqueue(c, lag)
  /\ Sleep(c, IF Wait(c, lag) <= MaxSleep THEN Wait(c, lag) ELSE MaxSleep)

\* Mutant: only the lane's gate is moved.
ReopeningLane(c, k, lag) == IF k = c.lane THEN Gap[k] - lag ELSE gate[k]

\* Both gates are moved on from the time the transaction read.
Reopening(c, k, lag) == IF k \in Needs(c) THEN Gap[k] - lag ELSE gate[k]

Grant(c, lag) ==
  /\ Polls(c, lag) /\ First(c, lag) /\ Wait(c, lag) = 0
  /\ IF c.lane = "direct" THEN UNCHANGED rows ELSE Leave(c, lag)
  /\ gate' = [k \in Gates |-> Reopening(c, k, lag)]
  /\ level' = [k \in Gates |-> IF k \in Needs(c) THEN level[k] + Gap[k] ELSE level[k]]
  /\ waiting' = waiting \ {c}
  /\ wake' = [wake EXCEPT ![c] = 0]
  /\ UNCHANGED faults

-----------------------------------------------------------------------------
Ask(c) ==
  /\ c \notin waiting
  /\ waiting' = waiting \cup {c}
  /\ UNCHANGED <<gate, rows, wake, faults, level>>

\* The process stops or its transaction raises: its row stays behind.
Abandon(c) ==
  /\ faults > 0 /\ c \in waiting
  /\ faults' = faults - 1
  /\ waiting' = waiting \ {c}
  /\ wake' = [wake EXCEPT ![c] = 0]
  /\ UNCHANGED <<gate, rows, level>>

\* Time passes unless a caller is due.
Tick ==
  /\ \A c \in waiting : wake[c] > -Latency
  /\ gate' = [k \in Gates |-> Larger(gate[k] - 1, -MaxLag)]
  /\ level' = [k \in Gates |-> Larger(level[k] - 1, 0)]
  /\ seen' = [c \in Callers |-> IF seen[c] = Absent THEN Absent
                                ELSE IF seen[c] > Stale + MaxLag THEN seen[c]
                                ELSE seen[c] + 1]
  /\ asked' = [c \in Callers |-> IF seen[c] = Absent THEN 0
                                 ELSE IF asked[c] > MaxLag THEN asked[c]
                                 ELSE asked[c] + 1]
  /\ wake' = [c \in Callers |-> IF c \in waiting THEN wake[c] - 1 ELSE wake[c]]
  /\ UNCHANGED <<ahead, waiting, faults>>

Poll(c) == \E lag \in 0 .. MaxLag : NotFirst(c, lag) \/ Shut(c, lag) \/ Grant(c, lag)

Next == Tick \/ \E c \in Callers : Ask(c) \/ Poll(c) \/ Abandon(c)

Spec == Init /\ [][Next]_vars

\* Time passes, and a caller that is due polls: time stands still until it has.
Proceeds == Tick \/ \E c \in Callers : Poll(c)

FairSpec == Spec /\ WF_vars(Proceeds)

-----------------------------------------------------------------------------
(* Properties.                                                               *)

\* However many workers poll, and however long a transaction waits for its
\* locks, a gate never grants more than its rate allows: a bucket that drains at
\* that rate never holds more than one request and one lag. (The global row and
\* the lane row of try_acquire_keeper_rate_slot; CHANGELOG.md:224.)
RateCeiling == \A k \in Gates : level[k] <= Gap[k] + MaxLag

\* A worker that sleeps between two polls keeps its place in the queue: nobody
\* takes its row for that of a stopped worker. (The stale_before purge against
\* the sleep of wait_for_keeper_cluster_slot.)
KeepsPlace ==
  \A c \in waiting : c.lane # "direct" /\ wake[c] > 0 => seen[c] # Absent

\* The workers of a lane take turns: a lane does not serve the others for ever while
\* one of its workers waits. (The waiter queue of try_acquire_keeper_rate_slot:
\* "continuously requesting workers cannot starve one another".)
LaneIsFair ==
  \A c \in Callers : c.lane # "direct" =>
    []<>(c \notin waiting) \/ <>[][level'[c.lane] <= level[c.lane]]_vars

\* Every worker that waits for a slot gets one, what the changelog says. (CHANGELOG.md:83:
\* "healthy distributed workers with pending work cannot starve under sustained cluster
\* load". The global gate has no queue across the lanes.)
Served == \A c \in Callers : c \in waiting ~> c \notin waiting
=============================================================================
