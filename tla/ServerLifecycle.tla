-------------------------- MODULE ServerLifecycle --------------------------
(***************************************************************************)
(* The life of one bf4_servers row under Keeper fetches (serverwatcher.py):*)
(* acquisition lanes and Discord commands each fetch, store a snapshot and *)
(* record a lifecycle result in two transactions that lock the row.        *)
(*                                                                         *)
(* Rows of different servers share nothing here, so there is one. A task   *)
(* stamps an observation with the wall clock of its worker, which is off   *)
(* by Skew; func.now() is the database clock, now. What the Discord leader *)
(* does with the row is in MonitorCycle.                                   *)
(***************************************************************************)
EXTENDS LifecyclePolicy

CONSTANTS
  Lanes,      \* normal (bulk or fast) acquisition tasks
  Probers,    \* lifecycle lane tasks
  Commands,   \* Discord commands that fetch on demand
  Skew,       \* each task's wall clock minus the database clock
  Names,      \* server names Keeper may answer
  FirstName,  \* the name the row was created with
  Start,      \* the time the model starts at
  MaxTime,    \* bound: the time it stops at
  Faults      \* Keeper, the database and the workers may fail at all

Tasks == Lanes \cup Probers \cup Commands

ASSUME TasksAssumption ==
  /\ Lanes \cap Probers = {} /\ Commands \cap (Lanes \cup Probers) = {}
  /\ FirstName \in Names /\ Faults \in BOOLEAN

ASSUME TimeAssumption ==
  /\ Start \in Nat /\ MaxTime \in Nat
  /\ Skew \in [Tasks -> Int]
  /\ \A f \in Tasks : Start + Skew[f] >= 0

VARIABLES
  now,        \* the database clock
  disturbed,  \* they may still fail
  server,     \* the lifecycle columns of the row
  naming,     \* its canonical name and the open row of its name history
  snapshot,   \* fetched_at of its keeper_snapshots row
  fetch       \* the fetch each task is at

rows == <<server, naming, snapshot>>
vars == <<now, disturbed, server, naming, snapshot, fetch>>

NoNameRow == [name |-> FirstName, first |-> None]

FetchType ==
  [pc : {"idle", "http", "store", "record", "note", "read"},
   result : Results, at : Nat, name : Names]

Idle == [pc |-> "idle", result |-> "ERROR", at |-> 0, name |-> FirstName]

TypeOK ==
  /\ now \in Nat /\ now >= Start /\ disturbed \in BOOLEAN
  /\ server \in LifecycleRow
  /\ naming \in [name : Names, open : [name : Names, first : Stamps]]
  /\ snapshot \in Stamps
  /\ fetch \in [Tasks -> FetchType]

\* A row the 0023 migration confirmed with the snapshot it found, if any, or one
\* newly admitted: discovery opens its name history, /addserver does not.
Init ==
  /\ now = Start /\ disturbed = Faults
  /\ snapshot \in {None, Start}
  /\ \E console \in BOOLEAN, named \in BOOLEAN :
       /\ \/ server = Migrated(console, snapshot) /\ named
          \/ server = Discovered(console) /\ snapshot = None
       /\ naming = [name |-> FirstName,
                    open |-> [name |-> FirstName, first |-> IF named THEN Start ELSE None]]
  /\ fetch = [f \in Tasks |-> Idle]

Clock(f) == now + Skew[f]

Due == server.state \in Offline /\ server.probe # None /\ server.probe <= now

\* Mutant: retired servers are never due.
InScopeStale(f) ==
  \/ f \in Lanes /\ server.state \in Online
  \/ f \in Probers /\ Due /\ server.state = "STALE"
  \/ f \in Commands

\* The tasks whose lane the server is in; a command may ask for any server.
InScope(f) ==
  \/ f \in Lanes /\ server.state \in Online
  \/ f \in Probers /\ Due
  \/ f \in Commands

-----------------------------------------------------------------------------
(* A fetch: the HTTP request, two transactions, the in-memory notes.         *)

Goto(f, step) == fetch' = [fetch EXCEPT ![f] = step]

Recording(f, result) ==
  [Idle EXCEPT !.pc = "record", !.result = result, !.at = Clock(f)]

Storing(f, name) ==
  [Idle EXCEPT !.pc = "store", !.result = "SUCCESS", !.at = Clock(f), !.name = name]

\* The lane checks its scope, waits for the rate gate and sends the request.
Begin(f) ==
  /\ fetch[f].pc = "idle" /\ InScope(f)
  /\ Goto(f, [Idle EXCEPT !.pc = "http"])
  /\ UNCHANGED <<now, disturbed, rows>>

\* The observation is stamped when the response is back, not when it was sent.
Answer(f) ==
  /\ fetch[f].pc = "http"
  /\ \/ \E name \in Names : Goto(f, Storing(f, name))
     \/ Goto(f, Recording(f, "NOT_FOUND"))
     \/ disturbed /\ Goto(f, Recording(f, "ERROR"))
  /\ UNCHANGED <<now, disturbed, rows>>

\* Mutant: an observation as old as the watermark is not stored.
StoreAcceptsNewer(at) == server.lastResult < at /\ snapshot < at

StoreAccepts(at) ==
  ~OutOfOrder(at, server.lastResult) /\ ~OutOfOrder(at, snapshot)

\* Mutant: the canonical name is left behind.
RenamedInHistory(name, at) ==
  [name |-> naming.name,
   open |-> IF naming.name # name \/ naming.open = NoNameRow
            THEN [name |-> name, first |-> at] ELSE naming.open]

\* The open name row is closed and another opened only when the name changes.
Renamed(name, at) ==
  [name |-> name,
   open |-> IF naming.name # name \/ naming.open = NoNameRow
            THEN [name |-> name, first |-> at] ELSE naming.open]

StoreSnapshot(f) ==
  IF StoreAccepts(fetch[f].at)
  THEN /\ snapshot' = fetch[f].at
       /\ naming' = Renamed(fetch[f].name, fetch[f].at)
       /\ UNCHANGED server
  ELSE UNCHANGED rows

Store(f) ==
  /\ fetch[f].pc = "store"
  /\ StoreSnapshot(f)
  /\ Goto(f, [fetch[f] EXCEPT !.pc = "record", !.name = FirstName])
  /\ UNCHANGED <<now, disturbed>>

\* The transaction raises, having committed or not; the handler records ERROR
\* as a new observation.
StoreRaises(f) ==
  /\ disturbed /\ fetch[f].pc = "store"
  /\ StoreSnapshot(f) \/ UNCHANGED rows
  /\ Goto(f, Recording(f, "ERROR"))
  /\ UNCHANGED <<now, disturbed>>

Verdict(f) == Applied(server, fetch[f].result, fetch[f].at)

Record(f) ==
  /\ fetch[f].pc = "record"
  /\ server' = Verdict(f)
  /\ Goto(f, [fetch[f] EXCEPT !.pc = "note"])
  /\ UNCHANGED <<now, disturbed, naming, snapshot>>

\* A SUCCESS that cannot be recorded is reported as an ERROR; the failure to
\* record a failure is only logged.
RecordRaises(f) ==
  /\ disturbed /\ fetch[f].pc = "record"
  /\ server' \in {server, Verdict(f)}
  /\ Goto(f, IF fetch[f].result = "SUCCESS" THEN Recording(f, "ERROR") ELSE Idle)
  /\ UNCHANGED <<now, disturbed, naming, snapshot>>

\* What record_keeper_lifecycle_result does in memory after the commit.
Note(f) ==
  /\ fetch[f].pc = "note"
  /\ Goto(f, IF f \in Commands /\ fetch[f].result = "SUCCESS"
             THEN [fetch[f] EXCEPT !.pc = "read"] ELSE Idle)
  /\ UNCHANGED <<now, disturbed, rows>>

\* A command answers with its snapshot only when the row reads CONFIRMED;
\* otherwise its own handler takes the refusal for a failed fetch.
Reply(f) ==
  /\ fetch[f].pc = "read" /\ server.state = "CONFIRMED"
  /\ Goto(f, Idle)
  /\ UNCHANGED <<now, disturbed, rows>>

Superseded(f) ==
  /\ fetch[f].pc = "read"
  /\ server.state # "CONFIRMED" \/ disturbed
  /\ Goto(f, Recording(f, "ERROR"))
  /\ UNCHANGED <<now, disturbed, rows>>

\* The process of the task stops.
Crash(f) ==
  /\ disturbed /\ fetch[f].pc # "idle"
  /\ Goto(f, Idle)
  /\ UNCHANGED <<now, disturbed, rows>>

\* /addserver on a known server: a hint that never confirms it.
Revalidate ==
  /\ server.state \in Offline
  /\ server' = [server EXCEPT !.probe = now]
  /\ UNCHANGED <<now, disturbed, naming, snapshot, fetch>>

Tick ==
  /\ now < MaxTime
  /\ now' = now + 1
  /\ UNCHANGED <<disturbed, rows, fetch>>

\* From here on Keeper, the database and the workers stay up.
Settle ==
  /\ disturbed /\ disturbed' = FALSE
  /\ UNCHANGED <<now, rows, fetch>>

Step(f) ==
  \/ Begin(f) \/ Answer(f) \/ Store(f) \/ Record(f) \/ Note(f)
  \/ Reply(f) \/ Superseded(f)

Raise(f) == StoreRaises(f) \/ RecordRaises(f) \/ Crash(f)

Next == \/ \E f \in Tasks : Step(f) \/ Raise(f)
        \/ Revalidate \/ Tick \/ Settle

Spec == Init /\ [][Next]_vars

\* Every lane loops for ever, and a request or a transaction ends.
FairSpec == Spec /\ \A f \in Lanes \cup Probers : WF_vars(Step(f))

-----------------------------------------------------------------------------
(* Properties.                                                               *)

\* Concurrent fetches, late commits and failures leave the outage columns
\* telling one story: the clock runs exactly while Keeper's latest definitive
\* word is 404, it started after the last success, and a server is offline only
\* once Keeper was still answering 404 a grace period (retired: a retirement
\* period) after the first. (apply_keeper_lifecycle_result, decide_lifecycle.)
OutageClock ==
  /\ server.first404 = None <=> server.state \in {"DISCOVERED", "CONFIRMED"}
  /\ server.first404 # None =>
       server.lastSuccess <= server.first404 /\ server.first404 <= server.lastResult
  /\ server.state \in Offline => server.lastResult - server.first404 >= Grace
  /\ server.retiredAt # None <=> server.state = "RETIRED"
  /\ server.state = "RETIRED" =>
       /\ server.retiredAt - server.first404 >= Retirement
       /\ server.retiredAt <= server.lastResult

\* A success is only on record when the snapshot of that success, or a newer
\* one, is stored, although the two are written by separate transactions that
\* fetches of other workers come between. (_store_keeper_snapshot before
\* record_keeper_lifecycle_result.)
SuccessHasSnapshot == server.lastSuccess <= snapshot

\* The canonical name is the one whose history period is open, and that period
\* opened with the row or no later than the snapshot that carries the name.
\* (_store_keeper_snapshot.)
NameHistoryAgrees ==
  naming.open # NoNameRow =>
    /\ naming.open.name = naming.name
    /\ naming.open.first = Start \/ naming.open.first <= snapshot

\* When a server becomes CONFIRMED, the snapshot the monitor cycle then reads
\* was observed no earlier than every result accepted before, so pre-404 data
\* never comes back with the state. (_store_keeper_snapshot,
\* apply_keeper_lifecycle_result.)
ConfirmedWithSnapshot ==
  [][server.state # "CONFIRMED" /\ server'.state = "CONFIRMED"
       => snapshot' >= server.lastResult]_vars

\* An ERROR does not touch the lifecycle: what the result another task is about
\* to record does to the server is the same after it as before.
\* (docs/V3.2.0_STALE_SERVER_DESIGN.md on ERROR; apply_keeper_lifecycle_result.)
ErrorIsInert ==
  [][\A f \in Tasks : Record(f) /\ fetch[f].result = "ERROR" =>
       \A g \in Tasks \ {f} : fetch[g].pc = "record" /\ fetch[g].result = "SUCCESS" =>
         Applied(server', "SUCCESS", fetch[g].at).state
           = Applied(server, "SUCCESS", fetch[g].at).state]_vars

\* A due lifecycle probe does not stay due for ever once nothing fails any more,
\* whatever results of slower fetches were ordered before it.
\* (distributed_keeper_acquisition_loop, lifecycle lane.)
DueProbeSettles == (~disturbed /\ Due) ~> ~Due
=============================================================================
