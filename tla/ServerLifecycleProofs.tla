----------------------- MODULE ServerLifecycleProofs -----------------------
(***************************************************************************)
(* The rows of ServerLifecycle under any number of tasks, with any clock   *)
(* skew and any periods, and the monitor cycle of the Discord leader beside*)
(* them. The inductive invariant of the rows adds to their properties the  *)
(* order of the watermarks, and for each fetch between its two             *)
(* transactions that its observation is stored or already out of order.    *)
(* That of the cycle says how old an observation and a cycle may be, and   *)
(* that no outage began long before a cycle that holds a roster.           *)
(***************************************************************************)
EXTENDS MonitorCycle, TLAPS

\* OutageClock of any row, with the order of its two watermarks.
Coherent(row) ==
  /\ row.lastSuccess <= row.lastResult
  /\ row.first404 = None <=> row.state \in {"DISCOVERED", "CONFIRMED"}
  /\ row.first404 # None =>
       row.lastSuccess <= row.first404 /\ row.first404 <= row.lastResult
  /\ row.state \in Offline => row.lastResult - row.first404 >= Grace
  /\ row.retiredAt # None <=> row.state = "RETIRED"
  /\ row.state = "RETIRED" =>
       row.retiredAt - row.first404 >= Retirement /\ row.retiredAt <= row.lastResult

\* A success that is stored but not recorded has its snapshot, unless a newer
\* result was recorded since, and then it will be ignored.
PendingStored ==
  \A f \in Tasks : fetch[f].pc = "record" /\ fetch[f].result = "SUCCESS" =>
    fetch[f].at <= snapshot \/ fetch[f].at < server.lastResult

Rows == Coherent(server) /\ SuccessHasSnapshot /\ PendingStored /\ NameHistoryAgrees

-----------------------------------------------------------------------------
(* What one observation does to a row.                                       *)

LEMMA SucceededFacts ==
  ASSUME NEW row \in LifecycleRow, NEW at \in Nat
  PROVE  /\ Succeeded(row, at) \in LifecycleRow
         /\ Succeeded(row, at).state = "CONFIRMED"
         /\ Succeeded(row, at).first404 = None
         /\ Succeeded(row, at).retiredAt = None
         /\ Succeeded(row, at).lastSuccess = at
BY DEF Succeeded, LifecycleRow, Stamps, None, Online, Offline

LEMMA PhaseFacts ==
  ASSUME NEW age \in Int
  PROVE  /\ OutagePhase(age) \in {"GRACE", "STALE", "RETIRED"}
         /\ OutagePhase(age) = "RETIRED" <=> age >= Retirement
         /\ OutagePhase(age) \in Offline <=> age >= Grace
BY PolicyAssumption DEF OutagePhase, Offline

LEMMA NotFoundFacts ==
  ASSUME NEW row \in LifecycleRow, NEW at \in Nat
  PROVE  LET new == NotFound(row, at)
             first == OutageStart(row, at)
             phase == OutagePhase(at - first)
         IN  /\ new \in LifecycleRow
             /\ first \in Nat
             /\ new.state = phase
             /\ new.first404 = first
             /\ new.lastSuccess = row.lastSuccess
             /\ new.retiredAt = IF phase # "RETIRED" THEN None
                                ELSE IF row.retiredAt = None THEN at
                                ELSE row.retiredAt
<1> DEFINE first == OutageStart(row, at)
           phase == OutagePhase(at - first)
<1>1. first \in Nat
  BY DEF OutageStart, LifecycleRow, Stamps, None
<1>2. phase \in {"GRACE", "STALE", "RETIRED"}
  BY <1>1, PhaseFacts
<1>3. NextProbe(row.console, phase, at) \in Stamps
  BY <1>2, PolicyAssumption DEF NextProbe, Stamps
<1>4. phase \in Online \cup Offline
  BY <1>2 DEF Online, Offline
<1>5. (IF phase # "RETIRED" THEN None
       ELSE IF row.retiredAt = None THEN at ELSE row.retiredAt) \in Stamps
  BY DEF LifecycleRow, Stamps
<1> HIDE DEF phase, first
<1>6. NotFound(row, at) =
        [row EXCEPT !.state = phase, !.first404 = first,
                    !.retiredAt = IF phase # "RETIRED" THEN None
                                  ELSE IF row.retiredAt = None THEN at
                                  ELSE row.retiredAt,
                    !.probe = NextProbe(row.console, phase, at)]
  BY DEF NotFound, phase, first
<1>7. first \in Stamps
  BY <1>1 DEF Stamps
<1> QED
  BY <1>1, <1>3, <1>4, <1>5, <1>6, <1>7 DEF LifecycleRow, phase, first

LEMMA AppliedRow ==
  ASSUME NEW row \in LifecycleRow, NEW at \in Nat, NEW result \in Results
  PROVE  Applied(row, result, at) \in LifecycleRow
<1>1. Decide(row, result, at) \in LifecycleRow
  BY SucceededFacts, NotFoundFacts DEF Decide, Results
<1>2. at \in Stamps
  BY DEF Stamps
<1> QED
  BY <1>1, <1>2 DEF Applied, LifecycleRow

\* The fields of an accepted observation's row, by its result.
LEMMA AppliedFields ==
  ASSUME NEW row \in LifecycleRow, NEW at \in Nat, NEW result \in Results,
         ~OutOfOrder(at, row.lastResult)
  PROVE  LET new == Applied(row, result, at)
             decided == Decide(row, result, at)
         IN  /\ new.lastResult = at
             /\ new.state = decided.state
             /\ new.first404 = decided.first404
             /\ new.retiredAt = decided.retiredAt
             /\ new.lastSuccess = decided.lastSuccess
<1>1. Decide(row, result, at) \in LifecycleRow
  BY SucceededFacts, NotFoundFacts DEF Decide, Results
<1>2. Applied(row, result, at) = [Decide(row, result, at) EXCEPT !.lastResult = at]
  BY DEF Applied
<1> QED
  BY <1>1, <1>2 DEF LifecycleRow

LEMMA AppliedCoherent ==
  ASSUME NEW row \in LifecycleRow, NEW at \in Nat, NEW result \in Results,
         Coherent(row)
  PROVE  /\ Coherent(Applied(row, result, at))
         /\ row.lastResult <= Applied(row, result, at).lastResult
<1>1. /\ row.first404 \in Int /\ row.retiredAt \in Int
      /\ row.lastResult \in Int /\ row.lastSuccess \in Int
      /\ row.lastResult >= None /\ row.lastSuccess >= None
      /\ row.first404 >= None /\ row.retiredAt >= None
  BY DEF LifecycleRow, Stamps, None
<1>2. CASE OutOfOrder(at, row.lastResult)
  BY <1>1, <1>2 DEF Applied
<1>3. CASE ~OutOfOrder(at, row.lastResult)
  <2> DEFINE new == Applied(row, result, at)
  <2>1. at >= row.lastResult
    BY <1>1, <1>3 DEF OutOfOrder, None
  <2>2. CASE result = "ERROR"
    <3>1. Decide(row, result, at) = row
      BY <2>2 DEF Decide
    <3>2. /\ new.lastResult = at /\ new.state = row.state
          /\ new.first404 = row.first404 /\ new.retiredAt = row.retiredAt
          /\ new.lastSuccess = row.lastSuccess
      BY <1>3, <3>1, AppliedFields
    <3> HIDE DEF new
    <3> QED
      BY <1>1, <2>1, <3>2, PolicyAssumption DEF Coherent, Offline, new
  <2>3. CASE result = "SUCCESS"
    <3>1. Decide(row, result, at) = Succeeded(row, at)
      BY <2>3 DEF Decide
    <3>2. /\ new.lastResult = at /\ new.state = "CONFIRMED"
          /\ new.first404 = None /\ new.retiredAt = None
          /\ new.lastSuccess = at
      BY <1>3, <3>1, AppliedFields, SucceededFacts
    <3> HIDE DEF new
    <3> QED
      BY <1>1, <2>1, <3>2 DEF Coherent, Offline, new
  <2>4. CASE result = "NOT_FOUND"
    <3> DEFINE first == OutageStart(row, at)
               phase == OutagePhase(at - first)
    <3>1. Decide(row, result, at) = NotFound(row, at)
      BY <2>4 DEF Decide
    <3>2. /\ new.lastResult = at /\ new.state = phase
          /\ new.first404 = first
          /\ new.lastSuccess = row.lastSuccess
          /\ new.retiredAt = IF phase # "RETIRED" THEN None
                             ELSE IF row.retiredAt = None THEN at
                             ELSE row.retiredAt
          /\ first \in Nat
      <4>1. /\ NotFound(row, at).state = phase
            /\ NotFound(row, at).first404 = first
            /\ NotFound(row, at).lastSuccess = row.lastSuccess
            /\ NotFound(row, at).retiredAt =
                 IF phase # "RETIRED" THEN None
                 ELSE IF row.retiredAt = None THEN at ELSE row.retiredAt
            /\ first \in Nat
        BY NotFoundFacts
      <4>2. /\ new.lastResult = at
            /\ new.state = NotFound(row, at).state
            /\ new.first404 = NotFound(row, at).first404
            /\ new.retiredAt = NotFound(row, at).retiredAt
            /\ new.lastSuccess = NotFound(row, at).lastSuccess
        BY <1>3, <3>1, AppliedFields
      <4> HIDE DEF new, first, phase
      <4> QED
        BY <4>1, <4>2
    <3>3. row.lastSuccess <= first /\ first <= at
      BY <1>1, <2>1 DEF first, OutageStart, Coherent, None
    <3>4. /\ phase \in {"GRACE", "STALE", "RETIRED"}
          /\ phase = "RETIRED" <=> at - first >= Retirement
          /\ phase \in Offline <=> at - first >= Grace
      BY <3>2, PhaseFacts
    <3>5. row.retiredAt # None =>
            row.retiredAt - first >= Retirement /\ row.retiredAt <= at
      BY <1>1, <2>1 DEF first, OutageStart, Coherent, None
    <3> HIDE DEF new, phase, first
    <3>6. phase \in Offline => at - first >= Grace
      BY <3>4
    <3> QED
      BY <1>1, <2>1, <3>2, <3>3, <3>4, <3>5, <3>6, PolicyAssumption
      DEF Coherent, None, new
  <2> QED
    BY <2>2, <2>3, <2>4 DEF Results
<1> QED
  BY <1>2, <1>3

\* Only an accepted success confirms, or moves the last success.
LEMMA AppliedSuccess ==
  ASSUME NEW row \in LifecycleRow, NEW at \in Nat, NEW result \in Results
  PROVE  LET new == Applied(row, result, at)
         IN  \/ /\ new.lastSuccess = row.lastSuccess
                /\ new.state = "CONFIRMED" => row.state = "CONFIRMED"
             \/ /\ result = "SUCCESS" /\ new.lastSuccess = at
                /\ at >= row.lastResult
<1>1. row.lastResult \in Int
  BY DEF LifecycleRow, Stamps, None
<1>2. CASE OutOfOrder(at, row.lastResult)
  BY <1>2 DEF Applied
<1>3. CASE ~OutOfOrder(at, row.lastResult) /\ result = "ERROR"
  BY <1>3, AppliedFields DEF Decide
<1>4. CASE ~OutOfOrder(at, row.lastResult) /\ result = "SUCCESS"
  <2>1. at >= row.lastResult
    BY <1>1, <1>4 DEF OutOfOrder, None
  <2>2. Decide(row, result, at).lastSuccess = at
    BY <1>4, SucceededFacts DEF Decide
  <2> QED
    BY <1>4, <2>1, <2>2, AppliedFields
<1>5. CASE ~OutOfOrder(at, row.lastResult) /\ result = "NOT_FOUND"
  <2> DEFINE phase == OutagePhase(at - OutageStart(row, at))
  <2>1. Decide(row, result, at) = NotFound(row, at)
    BY <1>5 DEF Decide
  <2>2. OutageStart(row, at) \in Nat
    BY NotFoundFacts
  <2>3. phase # "CONFIRMED"
    BY <2>2, PhaseFacts
  <2>4. /\ Applied(row, result, at).state = NotFound(row, at).state
        /\ Applied(row, result, at).lastSuccess = NotFound(row, at).lastSuccess
    BY <1>5, <2>1, AppliedFields
  <2>5. /\ NotFound(row, at).state = phase
        /\ NotFound(row, at).lastSuccess = row.lastSuccess
    BY NotFoundFacts
  <2> QED
    BY <2>3, <2>4, <2>5
<1> QED
  BY <1>2, <1>3, <1>4, <1>5 DEF Results

-----------------------------------------------------------------------------
(* Types.                                                                    *)

LEMMA TaskFacts ==
  ASSUME TypeOK, NEW f \in Tasks
  PROVE  /\ fetch[f] \in FetchType
         /\ fetch[f].at \in Nat /\ fetch[f].result \in Results
         /\ fetch[f].name \in Names
         /\ Idle \in FetchType
         /\ Clock(f) \in Nat
<1>1. now + Skew[f] >= 0 /\ now + Skew[f] \in Int
  BY TimeAssumption DEF TypeOK
<1> QED
  BY <1>1, TasksAssumption DEF TypeOK, FetchType, Idle, Clock, Results

\* The three steps a handler leaves a task at.
LEMMA StepFacts ==
  ASSUME TypeOK, NEW f \in Tasks
  PROVE  /\ \A result \in Results : Recording(f, result) \in FetchType
         /\ \A name \in Names : Storing(f, name) \in FetchType
         /\ [Idle EXCEPT !.pc = "http"] \in FetchType
         /\ \A pc \in {"note", "read"} : [fetch[f] EXCEPT !.pc = pc] \in FetchType
         /\ [fetch[f] EXCEPT !.pc = "record", !.name = FirstName] \in FetchType
BY TaskFacts, TasksAssumption DEF Recording, Storing, Idle, FetchType, Results

LEMMA VerdictFacts ==
  ASSUME TypeOK, NEW f \in Tasks
  PROVE  Verdict(f) \in LifecycleRow
BY TaskFacts, AppliedRow DEF Verdict, TypeOK

LEMMA InitTypes == Init => TypeOK
<1> SUFFICES ASSUME Init PROVE TypeOK
  OBVIOUS
<1>1. Start \in Stamps /\ None \in Stamps /\ snapshot \in Stamps
  BY TimeAssumption DEF Init, Stamps
<1>2. \A console \in BOOLEAN :
        Discovered(console) \in LifecycleRow /\ Migrated(console, snapshot) \in LifecycleRow
  BY <1>1 DEF Discovered, Migrated, LifecycleRow, Online, Offline
<1>3. server \in LifecycleRow
  BY <1>2 DEF Init
<1>4. naming \in [name : Names, open : [name : Names, first : Stamps]]
  BY <1>1, TasksAssumption DEF Init, NoNameRow
<1>5. fetch \in [Tasks -> FetchType]
  BY TasksAssumption DEF Init, Idle, FetchType, Results
<1> QED
  BY <1>1, <1>3, <1>4, <1>5, TasksAssumption, TimeAssumption DEF Init, TypeOK

\* Storing keeps the snapshot and the name history well formed.
LEMMA StoreTypes ==
  ASSUME TypeOK, NEW f \in Tasks, StoreSnapshot(f)
  PROVE  /\ server' = server /\ snapshot' \in Stamps
         /\ naming' \in [name : Names, open : [name : Names, first : Stamps]]
<1>1. fetch[f].at \in Stamps
  BY TaskFacts DEF Stamps
<1>2. Renamed(fetch[f].name, fetch[f].at)
        \in [name : Names, open : [name : Names, first : Stamps]]
  BY <1>1, TaskFacts DEF Renamed, TypeOK
<1> QED
  BY <1>1, <1>2 DEF StoreSnapshot, TypeOK, rows

LEMMA TypeStep == TypeOK /\ [Next]_vars => TypeOK'
<1> SUFFICES ASSUME TypeOK, [Next]_vars PROVE TypeOK'
  OBVIOUS
<1> USE DEF TypeOK
<1>1. ASSUME NEW f \in Tasks, Begin(f) PROVE TypeOK'
  BY <1>1, StepFacts DEF Begin, Goto, rows
<1>2. ASSUME NEW f \in Tasks, Answer(f) PROVE TypeOK'
  <2>1. PICK step \in FetchType : Goto(f, step)
    BY <1>2, StepFacts DEF Answer, Results
  <2> QED
    BY <1>2, <2>1 DEF Answer, Goto, rows
<1>3. ASSUME NEW f \in Tasks, Store(f) PROVE TypeOK'
  BY <1>3, StepFacts, StoreTypes DEF Store, Goto
<1>4. ASSUME NEW f \in Tasks, StoreRaises(f) PROVE TypeOK'
  <2>1. Recording(f, "ERROR") \in FetchType
    BY StepFacts DEF Results
  <2>2. CASE StoreSnapshot(f)
    BY <1>4, <2>1, <2>2, StoreTypes DEF StoreRaises, Goto
  <2>3. CASE UNCHANGED rows
    BY <1>4, <2>1, <2>3 DEF StoreRaises, Goto, rows
  <2> QED
    BY <1>4, <2>2, <2>3 DEF StoreRaises
<1>5. ASSUME NEW f \in Tasks, Record(f) PROVE TypeOK'
  BY <1>5, StepFacts, VerdictFacts DEF Record, Goto
<1>6. ASSUME NEW f \in Tasks, RecordRaises(f) PROVE TypeOK'
  BY <1>6, StepFacts, TaskFacts, VerdictFacts DEF RecordRaises, Goto, Results
<1>7. ASSUME NEW f \in Tasks, Note(f) PROVE TypeOK'
  BY <1>7, StepFacts, TaskFacts DEF Note, Goto, rows
<1>8. ASSUME NEW f \in Tasks, Reply(f) PROVE TypeOK'
  BY <1>8, TaskFacts DEF Reply, Goto, rows
<1>9. ASSUME NEW f \in Tasks, Superseded(f) PROVE TypeOK'
  BY <1>9, StepFacts DEF Superseded, Goto, rows, Results
<1>10. ASSUME NEW f \in Tasks, Crash(f) PROVE TypeOK'
  BY <1>10, TaskFacts DEF Crash, Goto, rows
<1>11. CASE Revalidate
  <2>1. [server EXCEPT !.probe = now] \in LifecycleRow
    BY DEF LifecycleRow, Stamps
  <2> QED
    BY <1>11, <2>1 DEF Revalidate
<1>12. CASE Tick
  BY <1>12, TimeAssumption DEF Tick, rows
<1>13. CASE Settle
  BY <1>13 DEF Settle, rows
<1>14. CASE UNCHANGED vars
  BY <1>14 DEF vars
<1> QED
  BY <1>1, <1>2, <1>3, <1>4, <1>5, <1>6, <1>7, <1>8, <1>9, <1>10, <1>11, <1>12,
     <1>13, <1>14 DEF Next, Step, Raise

\* Every reachable state of the rows and the fetches is well typed: a
\* timestamp is never taken before the clock of its worker starts.
THEOREM TypesHold == Spec => []TypeOK
<1>1. Init => TypeOK
  BY InitTypes
<1>2. TypeOK /\ [Next]_vars => TypeOK'
  BY TypeStep
<1> QED
  BY <1>1, <1>2, PTL DEF Spec

-----------------------------------------------------------------------------
(* The rows.                                                                 *)

LEMMA InitRows == Init => Rows
<1> SUFFICES ASSUME Init PROVE Rows
  OBVIOUS
<1>1. snapshot \in Int /\ snapshot >= None
  BY TimeAssumption DEF Init, None
<1>2. PICK console \in BOOLEAN, named \in BOOLEAN :
        /\ \/ server = Migrated(console, snapshot)
           \/ snapshot = None /\ server = Discovered(console)
        /\ naming = [name |-> FirstName,
                     open |-> [name |-> FirstName,
                               first |-> IF named THEN Start ELSE None]]
  BY DEF Init
<1>3. /\ server.state \in {"DISCOVERED", "CONFIRMED"}
      /\ server.first404 = None /\ server.retiredAt = None
      /\ server.lastSuccess = server.lastResult
      /\ server.lastSuccess \in {None, snapshot}
  <2>1. CASE server = Discovered(console) /\ snapshot = None
    BY <2>1 DEF Discovered
  <2>2. CASE server = Migrated(console, snapshot)
    <3>1. server = [console |-> console, state |-> "CONFIRMED", first404 |-> None,
                    retiredAt |-> None, probe |-> None, lastResult |-> snapshot,
                    lastSuccess |-> snapshot]
      BY <2>2 DEF Migrated, Discovered
    <3> QED
      BY <3>1
  <2> QED
    BY <1>2, <2>1, <2>2
<1>4. Coherent(server) /\ SuccessHasSnapshot
  BY <1>1, <1>3 DEF Coherent, SuccessHasSnapshot, Offline, None
<1>5. PendingStored
  BY DEF Init, Idle, PendingStored
<1>6. NameHistoryAgrees
  <2>1. CASE naming = [name |-> FirstName,
                       open |-> [name |-> FirstName, first |-> Start]]
    BY <2>1 DEF NameHistoryAgrees
  <2>2. CASE naming = [name |-> FirstName,
                       open |-> [name |-> FirstName, first |-> None]]
    BY <2>2 DEF NameHistoryAgrees, NoNameRow
  <2> QED
    BY <1>2, <2>1, <2>2
<1> QED
  BY <1>4, <1>5, <1>6 DEF Rows

\* The invariant of the pending successes survives whatever moves the two
\* watermarks forward and leaves every other fetch where it is.
LEMMA PendingKept ==
  ASSUME TypeOK, TypeOK', PendingStored, NEW f \in Tasks,
         \A g \in Tasks \ {f} : fetch'[g] = fetch[g],
         snapshot <= snapshot', server.lastResult <= server'.lastResult,
         fetch'[f].pc = "record" /\ fetch'[f].result = "SUCCESS" =>
           fetch'[f].at <= snapshot' \/ fetch'[f].at < server'.lastResult
  PROVE  PendingStored'
<1> SUFFICES ASSUME NEW g \in Tasks,
                    fetch'[g].pc = "record", fetch'[g].result = "SUCCESS"
             PROVE  fetch'[g].at <= snapshot' \/ fetch'[g].at < server'.lastResult
  BY DEF PendingStored
<1>1. CASE g = f
  BY <1>1
<1>2. CASE g # f
  <2>1. fetch'[g] = fetch[g]
    BY <1>2
  <2>2. fetch[g].at <= snapshot \/ fetch[g].at < server.lastResult
    BY <2>1 DEF PendingStored
  <2>3. /\ snapshot \in Int /\ snapshot' \in Int /\ fetch[g].at \in Int
        /\ server.lastResult \in Int /\ server'.lastResult \in Int
    BY TaskFacts DEF TypeOK, LifecycleRow, Stamps, None
  <2> QED
    BY <2>1, <2>2, <2>3
<1> QED
  BY <1>1, <1>2

\* The row after the transaction that records a result, committed or not.
LEMMA RecordedRows ==
  ASSUME TypeOK, Rows, NEW f \in Tasks, fetch[f].pc = "record",
         server' \in {server, Verdict(f)}, UNCHANGED <<naming, snapshot>>
  PROVE  /\ Coherent(server') /\ SuccessHasSnapshot' /\ NameHistoryAgrees'
         /\ server.lastResult <= server'.lastResult
<1>1. NameHistoryAgrees'
  BY DEF Rows, NameHistoryAgrees
<1>2. server.lastResult \in Int /\ snapshot \in Int
  BY DEF TypeOK, LifecycleRow, Stamps, None
<1>3. CASE server' = server
  BY <1>1, <1>2, <1>3 DEF Rows, SuccessHasSnapshot
<1>4. CASE server' = Verdict(f)
  <2>1. Coherent(Verdict(f)) /\ server.lastResult <= Verdict(f).lastResult
    BY TaskFacts, AppliedCoherent DEF Rows, Verdict, TypeOK
  <2>2. \/ Verdict(f).lastSuccess = server.lastSuccess
        \/ /\ fetch[f].result = "SUCCESS" /\ Verdict(f).lastSuccess = fetch[f].at
           /\ fetch[f].at >= server.lastResult
    BY TaskFacts, AppliedSuccess DEF Verdict, TypeOK
  <2>3. Verdict(f).lastSuccess <= snapshot
    BY <1>2, <2>2, TaskFacts DEF Rows, PendingStored, SuccessHasSnapshot
  <2> QED
    BY <1>1, <1>4, <2>1, <2>3 DEF SuccessHasSnapshot
<1> QED
  BY <1>3, <1>4

\* The rows after the transaction that stores a snapshot: either the snapshot
\* is there or the success is out of order already.
LEMMA StoredRows ==
  ASSUME TypeOK, Rows, NEW f \in Tasks, StoreSnapshot(f)
  PROVE  /\ server' = server
         /\ SuccessHasSnapshot' /\ NameHistoryAgrees'
         /\ snapshot <= snapshot'
         /\ fetch[f].at <= snapshot' \/ fetch[f].at < server.lastResult
<1>1. /\ snapshot \in Int /\ snapshot >= None /\ fetch[f].at \in Int
      /\ server.lastResult \in Int /\ server.lastSuccess \in Int
  BY TaskFacts DEF TypeOK, LifecycleRow, Stamps, None
<1>2. CASE ~StoreAccepts(fetch[f].at)
  <2>1. UNCHANGED <<server, naming, snapshot>>
    BY <1>2 DEF StoreSnapshot, rows
  <2>2. fetch[f].at < server.lastResult \/ fetch[f].at < snapshot
    BY <1>2 DEF StoreAccepts, OutOfOrder
  <2> QED
    BY <1>1, <2>1, <2>2 DEF Rows, SuccessHasSnapshot, NameHistoryAgrees
<1>3. CASE StoreAccepts(fetch[f].at)
  <2>1. /\ server' = server /\ snapshot' = fetch[f].at
        /\ naming' = Renamed(fetch[f].name, fetch[f].at)
    BY <1>3 DEF StoreSnapshot
  <2>2. snapshot <= fetch[f].at
    BY <1>1, <1>3, TaskFacts DEF StoreAccepts, OutOfOrder, None
  <2>3. SuccessHasSnapshot'
    BY <1>1, <2>1, <2>2 DEF Rows, SuccessHasSnapshot
  <2>4. NameHistoryAgrees'
    <3>1. CASE naming.name # fetch[f].name \/ naming.open = NoNameRow
      <4>1. naming' = [name |-> fetch[f].name,
                       open |-> [name |-> fetch[f].name, first |-> fetch[f].at]]
        BY <2>1, <3>1 DEF Renamed
      <4> QED
        BY <1>1, <2>1, <4>1 DEF NameHistoryAgrees
    <3>2. CASE ~(naming.name # fetch[f].name \/ naming.open = NoNameRow)
      <4>1. naming' = [name |-> naming.name, open |-> naming.open]
        BY <2>1, <3>2 DEF Renamed
      <4>2. /\ naming.open.name = naming.name
            /\ naming.open.first = Start \/ naming.open.first <= snapshot
        BY <3>2 DEF Rows, NameHistoryAgrees
      <4>3. naming.open.first \in Int
        BY DEF TypeOK, Stamps, None
      <4> QED
        BY <1>1, <2>1, <2>2, <4>1, <4>2, <4>3 DEF NameHistoryAgrees
    <3> QED
      BY <3>1, <3>2
  <2> QED
    BY <1>1, <2>1, <2>2, <2>3, <2>4
<1> QED
  BY <1>2, <1>3

LEMMA RowsStep == TypeOK /\ Rows /\ [Next]_vars => Rows'
<1> SUFFICES ASSUME TypeOK, Rows, [Next]_vars PROVE Rows'
  OBVIOUS
<1>t. TypeOK'
  BY TypeStep
<1>0. snapshot \in Int /\ server.lastResult \in Int
  BY DEF TypeOK, LifecycleRow, Stamps, None
<1>g. \A f \in Tasks : \A step : Goto(f, step) =>
        fetch'[f] = step /\ \A g \in Tasks \ {f} : fetch'[g] = fetch[g]
  BY DEF Goto, TypeOK
\* A step of one task that touches no row and brings no success to record.
<1>u. ASSUME NEW f \in Tasks, NEW step, Goto(f, step), UNCHANGED rows,
             ~(step.pc = "record" /\ step.result = "SUCCESS")
      PROVE  Rows'
  <2>1. UNCHANGED <<server, naming, snapshot>>
    BY <1>u DEF rows
  <2>2. /\ snapshot <= snapshot' /\ server.lastResult <= server'.lastResult
        /\ ~(fetch'[f].pc = "record" /\ fetch'[f].result = "SUCCESS")
        /\ \A g \in Tasks \ {f} : fetch'[g] = fetch[g]
    BY <1>0, <1>g, <1>u, <2>1
  <2>3. PendingStored'
    BY <1>t, <2>2, PendingKept DEF Rows
  <2> QED
    BY <2>1, <2>3 DEF Rows, SuccessHasSnapshot, NameHistoryAgrees
<1>1. ASSUME NEW f \in Tasks, Begin(f) PROVE Rows'
  BY <1>1, <1>u DEF Begin, Idle
<1>2. ASSUME NEW f \in Tasks, Answer(f) PROVE Rows'
  <2>1. PICK step : /\ Goto(f, step)
                    /\ ~(step.pc = "record" /\ step.result = "SUCCESS")
    <3>1. CASE \E name \in Names : Goto(f, Storing(f, name))
      <4>1. \A name \in Names : Storing(f, name).pc = "store"
        BY DEF Storing, Idle
      <4> QED
        BY <3>1, <4>1
    <3>2. CASE \E result \in {"NOT_FOUND", "ERROR"} : Goto(f, Recording(f, result))
      <4>1. \A result \in {"NOT_FOUND", "ERROR"} :
              Recording(f, result).result # "SUCCESS"
        BY DEF Recording, Idle
      <4> QED
        BY <3>2, <4>1
    <3> QED
      BY <1>2, <3>1, <3>2 DEF Answer
  <2> QED
    BY <1>2, <1>u, <2>1 DEF Answer
<1>3. ASSUME NEW f \in Tasks, Store(f) PROVE Rows'
  <2> DEFINE step == [fetch[f] EXCEPT !.pc = "record", !.name = FirstName]
  <2>1. StoreSnapshot(f) /\ Goto(f, step)
    BY <1>3 DEF Store
  <2>2. step.at = fetch[f].at
    BY TaskFacts DEF FetchType
  <2> HIDE DEF step
  <2>3. PendingStored'
    <3>1. fetch'[f].at = fetch[f].at /\ \A g \in Tasks \ {f} : fetch'[g] = fetch[g]
      BY <1>g, <2>1, <2>2
    <3>2. /\ server' = server /\ snapshot <= snapshot'
          /\ fetch[f].at <= snapshot' \/ fetch[f].at < server.lastResult
      BY <2>1, StoredRows
    <3> QED
      BY <1>0, <1>t, <3>1, <3>2, PendingKept DEF Rows
  <2> QED
    BY <2>1, <2>3, StoredRows DEF Rows
<1>4. ASSUME NEW f \in Tasks, StoreRaises(f) PROVE Rows'
  <2> DEFINE step == Recording(f, "ERROR")
  <2>1. Goto(f, step) /\ step.result = "ERROR"
    BY <1>4 DEF StoreRaises, Recording, Idle
  <2>2. CASE StoreSnapshot(f)
    <3> HIDE DEF step
    <3>1. PendingStored'
      <4>1. /\ fetch'[f].result # "SUCCESS"
            /\ \A g \in Tasks \ {f} : fetch'[g] = fetch[g]
        BY <1>g, <2>1
      <4>2. server' = server /\ snapshot <= snapshot'
        BY <2>2, StoredRows
      <4> QED
        BY <1>0, <1>t, <4>1, <4>2, PendingKept DEF Rows
    <3> QED
      BY <2>2, <3>1, StoredRows DEF Rows
  <2>3. CASE UNCHANGED rows
    BY <1>4, <1>u, <2>1, <2>3 DEF StoreRaises
  <2> QED
    BY <1>4, <2>2, <2>3 DEF StoreRaises
<1>5. ASSUME NEW f \in Tasks, Record(f) PROVE Rows'
  <2> DEFINE step == [fetch[f] EXCEPT !.pc = "note"]
  <2>1. Goto(f, step) /\ step.pc = "note"
    BY <1>5, TaskFacts DEF Record, FetchType
  <2>2. /\ fetch[f].pc = "record" /\ server' \in {server, Verdict(f)}
        /\ UNCHANGED <<naming, snapshot>>
    BY <1>5 DEF Record
  <2> HIDE DEF step
  <2>3. PendingStored'
    <3>1. /\ ~(fetch'[f].pc = "record" /\ fetch'[f].result = "SUCCESS")
          /\ \A g \in Tasks \ {f} : fetch'[g] = fetch[g]
      BY <1>g, <2>1
    <3>2. snapshot' = snapshot /\ server.lastResult <= server'.lastResult
      BY <2>2, RecordedRows
    <3> QED
      BY <1>0, <1>t, <3>1, <3>2, PendingKept DEF Rows
  <2> QED
    BY <2>2, <2>3, RecordedRows DEF Rows
<1>6. ASSUME NEW f \in Tasks, RecordRaises(f) PROVE Rows'
  <2>1. PICK step : /\ Goto(f, step)
                    /\ ~(step.pc = "record" /\ step.result = "SUCCESS")
    <3>1. Recording(f, "ERROR").result # "SUCCESS" /\ Idle.pc # "record"
      BY DEF Recording, Idle
    <3> QED
      BY <1>6, <3>1 DEF RecordRaises
  <2>2. /\ fetch[f].pc = "record" /\ server' \in {server, Verdict(f)}
        /\ UNCHANGED <<naming, snapshot>>
    BY <1>6 DEF RecordRaises
  <2>3. PendingStored'
    <3>1. /\ ~(fetch'[f].pc = "record" /\ fetch'[f].result = "SUCCESS")
          /\ \A g \in Tasks \ {f} : fetch'[g] = fetch[g]
      BY <1>g, <2>1
    <3>2. snapshot' = snapshot /\ server.lastResult <= server'.lastResult
      BY <2>2, RecordedRows
    <3> QED
      BY <1>0, <1>t, <3>1, <3>2, PendingKept DEF Rows
  <2> QED
    BY <2>2, <2>3, RecordedRows DEF Rows
<1>7. ASSUME NEW f \in Tasks, Note(f) PROVE Rows'
  <2>1. PICK step : Goto(f, step) /\ step.pc # "record"
    BY <1>7, TaskFacts DEF Note, Idle, FetchType
  <2> QED
    BY <1>7, <1>u, <2>1 DEF Note
<1>8. ASSUME NEW f \in Tasks, Reply(f) PROVE Rows'
  BY <1>8, <1>u DEF Reply, Idle
<1>9. ASSUME NEW f \in Tasks, Superseded(f) PROVE Rows'
  BY <1>9, <1>u DEF Superseded, Recording, Idle
<1>10. ASSUME NEW f \in Tasks, Crash(f) PROVE Rows'
  BY <1>10, <1>u DEF Crash, Idle
<1>11. CASE Revalidate
  <2>1. /\ server'.state = server.state /\ server'.first404 = server.first404
        /\ server'.retiredAt = server.retiredAt
        /\ server'.lastResult = server.lastResult
        /\ server'.lastSuccess = server.lastSuccess
        /\ UNCHANGED <<naming, snapshot, fetch>>
    BY <1>11 DEF Revalidate, TypeOK, LifecycleRow
  <2>2. Coherent(server')
    BY <2>1 DEF Rows, Coherent
  <2> QED
    BY <2>1, <2>2 DEF Rows, SuccessHasSnapshot, PendingStored, NameHistoryAgrees
<1>12. CASE Tick \/ Settle \/ UNCHANGED vars
  <2>1. \/ UNCHANGED <<server, naming, snapshot, fetch>>
    BY <1>12 DEF Tick, Settle, vars, rows
  <2> QED
    BY <2>1 DEF Rows, SuccessHasSnapshot, PendingStored, NameHistoryAgrees
<1> QED
  BY <1>1, <1>2, <1>3, <1>4, <1>5, <1>6, <1>7, <1>8, <1>9, <1>10, <1>11, <1>12
  DEF Next, Step, Raise

LEMMA RowsHold == Spec => [](TypeOK /\ Rows)
<1>1. Init => TypeOK /\ Rows
  BY InitTypes, InitRows
<1>2. TypeOK /\ Rows /\ [Next]_vars => (TypeOK /\ Rows)'
  BY TypeStep, RowsStep
<1> QED
  BY <1>1, <1>2, PTL DEF Spec

-----------------------------------------------------------------------------
(* The properties.                                                           *)

\* However many workers fetch the server, and whatever fails, the outage
\* columns tell one story.
THEOREM OutageIsCoherent == Spec => []OutageClock
<1>1. Rows => OutageClock
  BY DEF Rows, Coherent, OutageClock
<1> QED
  BY <1>1, RowsHold, PTL

\* A success on record has its snapshot, or a newer one, stored.
THEOREM SuccessIsStored == Spec => []SuccessHasSnapshot
<1>1. Rows => SuccessHasSnapshot
  BY DEF Rows
<1> QED
  BY <1>1, RowsHold, PTL

\* The canonical name is that of the open history period.
THEOREM NamesAgree == Spec => []NameHistoryAgrees
<1>1. Rows => NameHistoryAgrees
  BY DEF Rows
<1> QED
  BY <1>1, RowsHold, PTL

LEMMA ConfirmStep ==
  ASSUME TypeOK, Rows, [Next]_vars, server.state # "CONFIRMED",
         server'.state = "CONFIRMED"
  PROVE  snapshot' >= server.lastResult
<1>1. server'.state = server.state
      \/ \E f \in Tasks : Record(f) \/ RecordRaises(f)
  <2>1. ASSUME NEW f \in Tasks, StoreSnapshot(f) \/ UNCHANGED rows
        PROVE  server' = server
    BY <2>1 DEF StoreSnapshot, rows
  <2>2. CASE Revalidate
    BY <2>2 DEF Revalidate, TypeOK, LifecycleRow
  <2> QED
    BY <2>1, <2>2 DEF Next, Step, Raise, Begin, Answer, Store, StoreRaises,
       Note, Reply, Superseded, Crash, Tick, Settle, vars, rows
<1>2. PICK f \in Tasks : Record(f) \/ RecordRaises(f)
  BY <1>1
<1>3. /\ fetch[f].pc = "record" /\ server' \in {server, Verdict(f)}
      /\ snapshot' = snapshot
  BY <1>2 DEF Record, RecordRaises
<1>4. fetch[f].result = "SUCCESS" /\ fetch[f].at >= server.lastResult
  BY <1>3, TaskFacts, AppliedSuccess DEF Verdict, TypeOK
<1>5. snapshot \in Int /\ server.lastResult \in Int /\ fetch[f].at \in Int
  BY TaskFacts DEF TypeOK, LifecycleRow, Stamps, None
<1> QED
  BY <1>3, <1>4, <1>5 DEF Rows, PendingStored

\* No server is confirmed with a snapshot older than a result accepted before.
THEOREM ConfirmationIsFresh == Spec => ConfirmedWithSnapshot
<1>1. TypeOK /\ Rows /\ [Next]_vars
      => [server.state # "CONFIRMED" /\ server'.state = "CONFIRMED"
            => snapshot' >= server.lastResult]_vars
  BY ConfirmStep
<1> QED
  BY <1>1, RowsHold, PTL DEF Spec, ConfirmedWithSnapshot

-----------------------------------------------------------------------------
(* The rows beside the monitor cycle.                                        *)

\* The rows know nothing of the cycle but that its process may end.
LEMMA CycleStepOnRows ==
  ASSUME TypeOK, [CycleNext]_all
  PROVE  [Next]_vars \/ NewLeader
<1>1. ASSUME NEW f \in Tasks, FetchStep(f) PROVE Next
  BY <1>1 DEF FetchStep, RecordResult, RecordResultRaises, NoteResult, Unseen,
     Next, Step, Raise
<1>2. CASE Monitor
  BY <1>2 DEF Monitor, Load, Filter, NoRoster, History, HistoryRaises, Alert
<1>3. CASE Surroundings
  BY <1>3 DEF Surroundings, Next
<1>4. CASE UNCHANGED all
  BY <1>4 DEF all
<1> QED  BY <1>1, <1>2, <1>3, <1>4 DEF CycleNext

LEMMA NewLeaderRows ==
  ASSUME TypeOK, Rows, NewLeader
  PROVE  TypeOK' /\ Rows'
<1>1. UNCHANGED <<now, disturbed, server, naming, snapshot>>
  BY DEF NewLeader, rows
<1>2. \A f \in Tasks : fetch'[f] \in {Idle, fetch[f]}
  BY DEF NewLeader
<1>3. TypeOK'
  BY <1>1, <1>2, TaskFacts DEF NewLeader, TypeOK
<1>4. PendingStored'
  <2> SUFFICES ASSUME NEW f \in Tasks,
                      fetch'[f].pc = "record", fetch'[f].result = "SUCCESS"
               PROVE  fetch'[f].at <= snapshot' \/ fetch'[f].at < server'.lastResult
    BY DEF PendingStored
  <2>1. fetch'[f] = fetch[f]
    BY <1>2 DEF Idle
  <2> QED  BY <1>1, <2>1 DEF Rows, PendingStored
<1> QED  BY <1>1, <1>3, <1>4 DEF Rows, SuccessHasSnapshot, NameHistoryAgrees

LEMMA CycleRowsStep ==
  TypeOK /\ Rows /\ [CycleNext]_all => (TypeOK /\ Rows)'
BY CycleStepOnRows, NewLeaderRows, TypeStep, RowsStep

LEMMA CycleRowsHold == CycleSpec => [](TypeOK /\ Rows)
<1>1. CycleInit => TypeOK /\ Rows
  BY InitTypes, InitRows DEF CycleInit
<1> QED  BY <1>1, CycleRowsStep, PTL DEF CycleSpec

\* With the monitor cycle at work and its process ending at any time, the outage columns
\* still tell one story, a success on record has its snapshot, and the canonical
\* name is that of the open history period.
THEOREM CycleKeepsRows ==
  CycleSpec => [](OutageClock /\ SuccessHasSnapshot /\ NameHistoryAgrees)
<1>1. Rows => OutageClock /\ SuccessHasSnapshot /\ NameHistoryAgrees
  BY DEF Rows, Coherent, OutageClock
<1> QED  BY <1>1, CycleRowsHold, PTL

\* And the snapshot the monitor cycle finds beside a server that was just confirmed is
\* no older than a result accepted before.
THEOREM CycleConfirmsFresh == CycleSpec => ConfirmedWithSnapshot
<1>1. TypeOK /\ Rows /\ [CycleNext]_all
      => [server.state # "CONFIRMED" /\ server'.state = "CONFIRMED"
            => snapshot' >= server.lastResult]_vars
  BY CycleStepOnRows, ConfirmStep DEF NewLeader, rows
<1> QED  BY <1>1, CycleRowsHold, PTL DEF CycleSpec, ConfirmedWithSnapshot

-----------------------------------------------------------------------------
(* Types of the cycle.                                                       *)

LEMMA StartedTypes ==
  ASSUME TypeOK, leader \in LeaderType
  PROVE  Started \in LeaderType /\ Ended \in LeaderType
<1>1. Start \in Nat /\ None \in Stamps
  BY TimeAssumption DEF Stamps
<1> QED  BY <1>1 DEF Started, Ended, LeaderType

LEMMA MonitorTypes ==
  ASSUME CycleTypeOK, Monitor
  PROVE  leader' \in LeaderType /\ session' \in BOOLEAN /\ baseline' = baseline
         /\ roster' \in [recovering : BOOLEAN, alerted : BOOLEAN]
<1>0. /\ leader \in LeaderType /\ session \in BOOLEAN /\ now \in Nat
      /\ roster \in [recovering : BOOLEAN, alerted : BOOLEAN]
      /\ snapshot \in Stamps /\ None \in Stamps
  BY DEF CycleTypeOK, TypeOK, Stamps
<1>e. Ended \in LeaderType
  BY StartedTypes DEF CycleTypeOK
<1>1. CASE Load
  <2>1. (IF Fresh THEN snapshot ELSE None) \in Stamps
    BY <1>0
  <2>2. (server.state \in Online) \in BOOLEAN
    OBVIOUS
  <2> QED  BY <1>0, <1>1, <2>1, <2>2 DEF Load, LeaderType
<1>2. CASE Filter
  <2>1. (leader.confirmed /\ Usable) \in BOOLEAN
    BY DEF Usable
  <2> QED  BY <1>0, <1>2, <2>1 DEF Filter, LeaderType
<1>3. CASE NoRoster
  BY <1>0, <1>3, <1>e DEF NoRoster, LeaderType
<1>4. CASE History
  <2>1. PICK present \in BOOLEAN :
          /\ Sessions(present)
          /\ leader' = [leader EXCEPT
               !.pc = "alert", !.seen = None, !.confirmed = FALSE,
               !.quiet = ~leader.baselined \/ leader.recovery,
               !.recovering = leader.recovery,
               !.joined = present /\ ~session]
    BY <1>4 DEF History
  <2>2. leader' \in LeaderType
    BY <1>0, <2>1 DEF LeaderType
  <2>3. session' \in BOOLEAN
    BY <1>0, <2>1 DEF Sessions
  <2> QED  BY <1>0, <1>4, <2>2, <2>3 DEF History
<1>5. CASE HistoryRaises
  <2>1. session' \in BOOLEAN
    BY <1>0, <1>5 DEF HistoryRaises, Sessions
  <2> QED  BY <1>0, <1>5, <1>e, <2>1 DEF HistoryRaises
<1>6. CASE Alert
  <2>1. leader' \in LeaderType
    BY <1>0, <1>6, <1>e DEF Alert, LeaderType
  <2>2. (leader.joined /\ ~leader.quiet) \in BOOLEAN
    OBVIOUS
  <2> QED  BY <1>0, <1>6, <2>1, <2>2 DEF Alert, LeaderType
<1> QED  BY <1>1, <1>2, <1>3, <1>4, <1>5, <1>6 DEF Monitor

LEMMA CycleTypeStep ==
  CycleTypeOK /\ Rows /\ [CycleNext]_all => CycleTypeOK'
<1> SUFFICES ASSUME CycleTypeOK, Rows, [CycleNext]_all PROVE CycleTypeOK'
  OBVIOUS
<1>t. TypeOK /\ TypeOK'
  BY CycleRowsStep DEF CycleTypeOK
<1> USE DEF CycleTypeOK
<1>1. ASSUME NEW f \in Tasks, RecordResult(f) \/ RecordResultRaises(f) PROVE CycleTypeOK'
  <2>1. session' \in BOOLEAN /\ roster' \in [recovering : BOOLEAN, alerted : BOOLEAN]
    BY <1>1 DEF RecordResult, RecordResultRaises, Committed
  <2>2. NeedsBaseline(f) \in BOOLEAN
    BY DEF NeedsBaseline
  <2>3. baseline' \in [Tasks -> BOOLEAN] /\ leader' = leader
    BY <1>1, <2>2 DEF RecordResult, RecordResultRaises
  <2> QED  BY <1>t, <2>1, <2>3
<1>2. ASSUME NEW f \in Tasks, NoteResult(f) PROVE CycleTypeOK'
  <2>1. leader' \in LeaderType
    BY <1>2 DEF NoteResult, LeaderType
  <2> QED  BY <1>t, <1>2, <2>1 DEF NoteResult
<1>3. ASSUME NEW f \in Tasks, Unseen(f) PROVE CycleTypeOK'
  BY <1>t, <1>3 DEF Unseen, cycle
<1>4. CASE Monitor
  BY <1>t, <1>4, MonitorTypes
<1>5. CASE NewLeader
  <2>1. baseline' \in [Tasks -> BOOLEAN]
    BY <1>5 DEF NewLeader
  <2> QED  BY <1>t, <1>5, <2>1, StartedTypes DEF NewLeader
<1>6. CASE Surroundings \/ UNCHANGED all
  BY <1>t, <1>6 DEF Surroundings, all, cycle
<1> QED  BY <1>1, <1>2, <1>3, <1>4, <1>5, <1>6 DEF CycleNext, FetchStep

LEMMA CycleTypesAndRows == CycleSpec => [](CycleTypeOK /\ Rows)
<1>1. CycleInit => CycleTypeOK /\ Rows
  <2> SUFFICES ASSUME CycleInit PROVE CycleTypeOK /\ Rows
    OBVIOUS
  <2>1. TypeOK /\ Rows
    BY InitTypes, InitRows DEF CycleInit
  <2>2. Started \in LeaderType
    BY TimeAssumption DEF Started, LeaderType, Stamps
  <2> QED  BY <2>1, <2>2 DEF CycleInit, CycleTypeOK
<1>2. CycleTypeOK /\ Rows /\ [CycleNext]_all => (CycleTypeOK /\ Rows)'
  BY CycleTypeStep, CycleRowsStep DEF CycleTypeOK
<1> QED  BY <1>1, <1>2, PTL DEF CycleSpec

\* The rows, the fetches and the monitor cycle keep their types.
THEOREM CycleTypesHold == CycleSpec => []CycleTypeOK
BY CycleTypesAndRows, PTL

-----------------------------------------------------------------------------
(* No session while the server is offline.                                   *)

\* A cycle under way, and an observation waiting for its transactions, are no older
\* than the bounds say.
Paced ==
  /\ leader.pc # "idle" => leader.began <= now /\ now - leader.began <= MaxCycle
  /\ \A f \in Tasks : fetch[f].pc \in {"store", "record"} =>
       fetch[f].at <= Clock(f) /\ Clock(f) - fetch[f].at <= MaxDelay

\* While a cycle holds a roster, the server is not offline, and if it is in an outage,
\* the first 404 was observed no longer before the cycle than an observation may wait.
RosterGuarded ==
  leader.pc = "filtered" /\ leader.seen # None =>
    /\ server.state \in Online
    /\ server.first404 # None =>
         \E f \in Tasks : leader.began + Skew[f] - MaxDelay <= server.first404

SessionGuarded == Paced /\ RosterGuarded /\ NoSessionWhileOffline

\* An observation leaves the outage alone, or ends it, or counts it from its start.
LEMMA AppliedOutage ==
  ASSUME NEW row \in LifecycleRow, NEW at \in Nat, NEW result \in Results
  PROVE  LET new == Applied(row, result, at)
         IN  \/ new.state = row.state /\ new.first404 = row.first404
             \/ new.state = "CONFIRMED" /\ new.first404 = None
             \/ /\ new.first404 = OutageStart(row, at) /\ new.first404 \in Nat
                /\ new.state = OutagePhase(at - new.first404)
<1>1. CASE OutOfOrder(at, row.lastResult)
  BY <1>1 DEF Applied
<1>2. CASE ~OutOfOrder(at, row.lastResult) /\ result = "ERROR"
  BY <1>2, AppliedFields DEF Decide
<1>3. CASE ~OutOfOrder(at, row.lastResult) /\ result = "SUCCESS"
  <2>1. Decide(row, result, at) = Succeeded(row, at)
    BY <1>3 DEF Decide
  <2> QED  BY <1>3, <2>1, AppliedFields, SucceededFacts
<1>4. CASE ~OutOfOrder(at, row.lastResult) /\ result = "NOT_FOUND"
  <2>1. Decide(row, result, at) = NotFound(row, at)
    BY <1>4 DEF Decide
  <2>2. /\ NotFound(row, at).first404 = OutageStart(row, at)
        /\ OutageStart(row, at) \in Nat
        /\ NotFound(row, at).state = OutagePhase(at - OutageStart(row, at))
    BY NotFoundFacts
  <2>3. /\ Applied(row, result, at).first404 = NotFound(row, at).first404
        /\ Applied(row, result, at).state = NotFound(row, at).state
    BY <1>4, <2>1, AppliedFields
  <2> QED  BY <2>2, <2>3
<1> QED  BY <1>1, <1>2, <1>3, <1>4 DEF Results

\* A result recorded while a cycle holds a roster does not take the server offline.
LEMMA VerdictGuarded ==
  ASSUME Timely, TypeOK, leader \in LeaderType, Paced, RosterGuarded,
         leader.pc = "filtered", leader.seen # None,
         NEW g \in Tasks, fetch[g].pc = "record"
  PROVE  /\ Verdict(g).state \in Online
         /\ Verdict(g).first404 # None =>
              \E f \in Tasks : leader.began + Skew[f] - MaxDelay <= Verdict(g).first404
<1> DEFINE new == Verdict(g)
           at == fetch[g].at
<1>1. /\ at \in Nat /\ now \in Nat /\ leader.began \in Nat /\ MaxDelay \in Nat
      /\ MaxCycle \in Nat /\ Skew \in [Tasks -> Int] /\ Grace \in Nat \ {0}
  BY TaskFacts, CycleAssumption, TimeAssumption, PolicyAssumption DEF TypeOK, LeaderType
<1>2. /\ at <= now + Skew[g] /\ now + Skew[g] - at <= MaxDelay
      /\ leader.began <= now /\ now - leader.began <= MaxCycle
  <2>1. leader.pc # "idle" /\ fetch[g].pc \in {"store", "record"}
    OBVIOUS
  <2>2. at <= Clock(g) /\ Clock(g) - at <= MaxDelay
    BY <2>1 DEF Paced
  <2>3. leader.began <= now /\ now - leader.began <= MaxCycle
    BY <2>1 DEF Paced
  <2>4. Clock(g) = now + Skew[g]
    BY DEF Clock
  <2> HIDE DEF at
  <2> QED  BY <1>1, <2>2, <2>3, <2>4
<1>3. /\ server.state \in Online
      /\ server.first404 # None =>
           \E f \in Tasks : leader.began + Skew[f] - MaxDelay <= server.first404
  BY DEF RosterGuarded
<1>4. \/ new.state = server.state /\ new.first404 = server.first404
      \/ new.state = "CONFIRMED" /\ new.first404 = None
      \/ /\ new.first404 = OutageStart(server, at) /\ new.first404 \in Nat
         /\ new.state = OutagePhase(at - new.first404)
  BY TaskFacts, AppliedOutage DEF Verdict, TypeOK
<1> HIDE DEF new
<1>5. CASE new.state = server.state /\ new.first404 = server.first404
  BY <1>3, <1>5 DEF new
<1>6. CASE new.state = "CONFIRMED" /\ new.first404 = None
  BY <1>6 DEF new, Online
<1>7. CASE /\ new.first404 = OutageStart(server, at) /\ new.first404 \in Nat
           /\ new.state = OutagePhase(at - new.first404)
  <2>1. PICK f \in Tasks : leader.began + Skew[f] - MaxDelay <= new.first404
    <3>1. CASE server.first404 = None
      <4>1. new.first404 = at
        BY <1>7, <3>1 DEF OutageStart
      <4>2. leader.began + Skew[g] - MaxDelay <= at
        BY <1>1, <1>2
      <4> QED  BY <4>1, <4>2
    <3>2. CASE server.first404 # None
      BY <1>3, <1>7, <3>2 DEF OutageStart
    <3> QED  BY <3>1, <3>2
  <2>2. MaxCycle + MaxDelay + Skew[g] - Skew[f] < Grace
    BY DEF Timely
  <2>3. at - new.first404 < Grace /\ at - new.first404 \in Int
    <3>1. Skew[f] \in Int /\ Skew[g] \in Int /\ new.first404 \in Int
      BY <1>1, <1>7
    <3> HIDE DEF at
    <3> QED  BY <1>1, <1>2, <2>1, <2>2, <3>1
  <2>4. ~(at - new.first404 >= Grace)
    BY <1>1, <2>3
  <2>5. new.state \in {"GRACE", "STALE", "RETIRED"} /\ new.state \notin Offline
    BY <1>7, <2>3, <2>4, PhaseFacts
  <2>6. new.state \in Online
    BY <2>5 DEF Online, Offline
  <2> QED  BY <2>1, <2>6 DEF new
<1> QED  BY <1>4, <1>5, <1>6, <1>7

\* What a fetch does to the row, and to the sessions with it.
LEMMA FetchOnSession ==
  ASSUME CycleTypeOK, NEW f \in Tasks, FetchStep(f)
  PROVE  \/ server' = server /\ session' = session
         \/ /\ fetch[f].pc = "record" /\ server' = Verdict(f)
            /\ session' = (session /\ ~GoesOffline(server, server'))
<1>1. CASE RecordResult(f)
  BY <1>1 DEF RecordResult, Record, Committed
<1>2. CASE RecordResultRaises(f)
  <2>1. CASE server' = server
    BY <1>2, <2>1 DEF RecordResultRaises, Committed, GoesOffline, CycleTypeOK
  <2> QED  BY <1>2, <2>1 DEF RecordResultRaises, RecordRaises, Committed
<1>3. CASE NoteResult(f)
  BY <1>3 DEF NoteResult, Note, rows
<1>4. CASE Unseen(f)
  <2>1. server' = server
    BY <1>4 DEF Unseen, Begin, Answer, Store, StoreRaises, StoreSnapshot, Reply, Superseded,
       Crash, rows
  <2> QED  BY <1>4, <2>1 DEF Unseen
<1> QED  BY <1>1, <1>2, <1>3, <1>4 DEF FetchStep

\* An observation that waits is stamped by the clock of its task, now or before.
LEMMA FetchStamps ==
  ASSUME TypeOK, NEW f \in Tasks, FetchStep(f)
  PROVE  /\ now' = now
         /\ \A g \in Tasks \ {f} : fetch'[g] = fetch[g]
         /\ fetch'[f].pc \in {"store", "record"} =>
              \/ fetch'[f].at = Clock(f)
              \/ fetch[f].pc \in {"store", "record"} /\ fetch'[f].at = fetch[f].at
<1>g. \A step : Goto(f, step) =>
        fetch'[f] = step /\ \A g \in Tasks \ {f} : fetch'[g] = fetch[g]
  BY DEF Goto, TypeOK
<1>1. PICK step : Goto(f, step)
  BY DEF FetchStep, RecordResult, RecordResultRaises, NoteResult, Unseen, Begin, Answer, Store,
     StoreRaises, Record, RecordRaises, Note, Reply, Superseded, Crash
<1>2. now' = now
  BY DEF FetchStep, RecordResult, RecordResultRaises, NoteResult, Unseen, Begin, Answer, Store,
     StoreRaises, Record, RecordRaises, Note, Reply, Superseded, Crash
<1>3. /\ \A result : Recording(f, result).at = Clock(f)
      /\ \A name : Storing(f, name).at = Clock(f)
      /\ Idle.pc = "idle"
  BY DEF Recording, Storing, Idle
<1>4. CASE Store(f)
  <2>1. fetch'[f] = [fetch[f] EXCEPT !.pc = "record", !.name = FirstName]
    BY <1>4, <1>g DEF Store
  <2>2. fetch'[f].at = fetch[f].at /\ fetch[f].pc = "store"
    BY <1>4, <2>1, TaskFacts DEF FetchType, Store
  <2> QED  BY <1>1, <1>2, <1>g, <2>2
<1>5. CASE Record(f)
  <2>1. fetch'[f].pc = "note"
    BY <1>5, <1>g, TaskFacts DEF Record, FetchType
  <2> QED  BY <1>1, <1>2, <1>g, <2>1
<1>6. CASE Note(f)
  <2>1. fetch'[f].pc \in {"idle", "read"}
    BY <1>6, <1>3, <1>g, TaskFacts DEF Note, FetchType
  <2> QED  BY <1>1, <1>2, <1>g, <2>1
<1>7. CASE Begin(f)
  <2>1. fetch'[f].pc = "http"
    BY <1>7, <1>g DEF Begin, Idle
  <2> QED  BY <1>1, <1>2, <1>g, <2>1
<1>8. CASE Answer(f) \/ StoreRaises(f) \/ RecordRaises(f) \/ Superseded(f)
  <2>1. fetch'[f].at = Clock(f) \/ fetch'[f].pc = "idle"
    BY <1>8, <1>3, <1>g DEF Answer, StoreRaises, RecordRaises, Superseded
  <2> QED  BY <1>1, <1>2, <1>g, <2>1
<1>9. CASE Reply(f) \/ Crash(f)
  <2>1. fetch'[f].pc = "idle"
    BY <1>9, <1>3, <1>g DEF Reply, Crash
  <2> QED  BY <1>1, <1>2, <1>g, <2>1
<1> QED  BY <1>4, <1>5, <1>6, <1>7, <1>8, <1>9 DEF FetchStep, RecordResult,
         RecordResultRaises, NoteResult, Unseen

\* The cycle's own clock.
LEMMA MonitorOnClock ==
  ASSUME CycleTypeOK, Monitor
  PROVE  /\ UNCHANGED vars
         /\ leader'.pc # "idle" =>
              \/ leader'.began = now
              \/ leader.pc # "idle" /\ leader'.began = leader.began
<1>0. leader \in LeaderType
  BY DEF CycleTypeOK
<1>1. CASE Load
  BY <1>0, <1>1 DEF Load, LeaderType
<1>2. CASE Filter \/ History
  BY <1>0, <1>2 DEF Filter, History, LeaderType
<1>3. CASE NoRoster \/ HistoryRaises \/ Alert
  <2>1. leader'.pc = "idle"
    BY <1>3 DEF NoRoster, HistoryRaises, Alert, Ended, Started
  <2> QED  BY <1>3, <2>1 DEF NoRoster, HistoryRaises, Alert
<1> QED  BY <1>1, <1>2, <1>3 DEF Monitor

LEMMA PacedStep ==
  ASSUME CycleTypeOK, Paced, [CycleNext]_all
  PROVE  Paced'
<1>0. /\ now \in Nat /\ MaxCycle \in Nat /\ MaxDelay \in Nat /\ leader.began \in Nat
      /\ \A f \in Tasks : Clock(f) \in Nat /\ fetch[f].at \in Nat /\ Skew[f] \in Int
  BY TaskFacts, TimeAssumption, CycleAssumption DEF CycleTypeOK, TypeOK, LeaderType
<1>1. ASSUME NEW f \in Tasks, FetchStep(f) PROVE Paced'
  <2>1. leader'.pc = leader.pc /\ leader'.began = leader.began
    BY <1>1 DEF FetchStep, RecordResult, RecordResultRaises, NoteResult, Unseen, cycle,
       CycleTypeOK, LeaderType
  <2>2. now' = now
    BY <1>1, FetchStamps DEF CycleTypeOK
  <2>3. ASSUME NEW g \in Tasks, fetch'[g].pc \in {"store", "record"}
        PROVE  fetch'[g].at <= Clock(g) /\ Clock(g) - fetch'[g].at <= MaxDelay
    <3>1. \/ fetch'[g].at = Clock(g)
          \/ fetch[g].pc \in {"store", "record"} /\ fetch'[g].at = fetch[g].at
      BY <1>1, <2>3, FetchStamps DEF CycleTypeOK
    <3> QED  BY <1>0, <3>1 DEF Paced
  <2> QED  BY <2>1, <2>2, <2>3 DEF Paced, Clock
<1>2. CASE Monitor
  <2>1. now' = now /\ fetch' = fetch
    BY <1>2, MonitorOnClock DEF vars
  <2>2. leader'.pc # "idle" =>
          \/ leader'.began = now
          \/ leader.pc # "idle" /\ leader'.began = leader.began
    BY <1>2, MonitorOnClock
  <2> QED  BY <1>0, <2>1, <2>2 DEF Paced, Clock
<1>3. CASE NewLeader
  <2>1. now' = now /\ leader'.pc = "idle" /\ \A f \in Tasks : fetch'[f] \in {Idle, fetch[f]}
    BY <1>3 DEF NewLeader, Started
  <2>2. Idle.pc = "idle"
    BY DEF Idle
  <2> QED  BY <2>1, <2>2 DEF Paced, Clock
<1>4. CASE Surroundings /\ Tick
  <2>1. /\ now' = now + 1 /\ leader' = leader /\ fetch' = fetch
        /\ leader.pc # "idle" => now - leader.began < MaxCycle
        /\ \A f \in Tasks : fetch[f].pc \in {"store", "record"} =>
                             Clock(f) - fetch[f].at < MaxDelay
    BY <1>4 DEF Surroundings, Tick, Revalidate, cycle, CycleTypeOK, TypeOK
  <2>2. ASSUME NEW f \in Tasks, fetch[f].pc \in {"store", "record"}
        PROVE  fetch[f].at <= (now + 1) + Skew[f]
               /\ ((now + 1) + Skew[f]) - fetch[f].at <= MaxDelay
    BY <1>0, <2>1, <2>2 DEF Paced, Clock
  <2>3. leader.pc # "idle" => leader.began <= now + 1 /\ (now + 1) - leader.began <= MaxCycle
    BY <1>0, <2>1 DEF Paced
  <2> QED  BY <2>1, <2>2, <2>3 DEF Paced, Clock
<1>5. CASE (Surroundings /\ Revalidate) \/ UNCHANGED all
  BY <1>5 DEF Surroundings, Revalidate, all, vars, cycle, Paced, Clock
<1> QED  BY <1>1, <1>2, <1>3, <1>4, <1>5 DEF CycleNext, Surroundings

LEMMA SessionGuardedStep ==
  ASSUME Timely, CycleTypeOK, Rows, SessionGuarded, [CycleNext]_all
  PROVE  SessionGuarded'
<1> USE DEF SessionGuarded
<1>0. leader \in LeaderType /\ TypeOK
  BY DEF CycleTypeOK
<1>p. Paced'
  BY PacedStep
<1>1. ASSUME NEW g \in Tasks, FetchStep(g) PROVE RosterGuarded' /\ NoSessionWhileOffline'
  <2>1. /\ leader'.pc = leader.pc /\ leader'.began = leader.began
        /\ leader'.seen = leader.seen
    BY <1>0, <1>1 DEF FetchStep, RecordResult, RecordResultRaises, NoteResult, Unseen, cycle,
       LeaderType
  <2>2. CASE server' = server /\ session' = session
    BY <2>1, <2>2 DEF RosterGuarded, NoSessionWhileOffline
  <2>3. CASE /\ fetch[g].pc = "record" /\ server' = Verdict(g)
             /\ session' = (session /\ ~GoesOffline(server, server'))
    <3>1. NoSessionWhileOffline'
      BY <2>3 DEF NoSessionWhileOffline, GoesOffline
    <3>2. RosterGuarded'
      BY <1>0, <2>1, <2>3, VerdictGuarded DEF RosterGuarded
    <3> QED  BY <3>1, <3>2
  <2> QED  BY <1>1, <2>2, <2>3, FetchOnSession
<1>2. CASE Monitor
  <2>0. UNCHANGED server
    BY <1>2, MonitorOnClock DEF vars, rows
  <2>1. CASE Filter
    <3>1. leader'.seen # None => server.state = "CONFIRMED"
      BY <1>0, <2>1 DEF Filter, LeaderType, Usable
    <3>2. server.state = "CONFIRMED" => server.first404 = None /\ server.state \in Online
      BY DEF Rows, Coherent, Online
    <3> QED  BY <1>p, <2>0, <2>1, <3>1, <3>2 DEF Filter, RosterGuarded, NoSessionWhileOffline
  <2>2. CASE History \/ HistoryRaises
    <3>1. leader'.pc # "filtered"
      BY <1>0, <2>2 DEF History, HistoryRaises, Ended, Started, LeaderType
    <3>2. server.state \notin Offline
      BY <2>2 DEF History, HistoryRaises, RosterGuarded, Online, Offline
    <3> QED  BY <1>p, <2>0, <3>1, <3>2 DEF RosterGuarded, NoSessionWhileOffline
  <2>3. CASE Load \/ NoRoster \/ Alert
    <3>1. leader'.pc # "filtered" /\ session' = session
      BY <1>0, <2>3 DEF Load, NoRoster, Alert, Ended, Started, LeaderType
    <3> QED  BY <1>p, <2>0, <3>1 DEF RosterGuarded, NoSessionWhileOffline
  <2> QED  BY <1>2, <2>1, <2>2, <2>3 DEF Monitor
<1>3. CASE NewLeader
  <2>1. leader'.pc = "idle" /\ UNCHANGED <<server, session>>
    BY <1>3 DEF NewLeader, Started, rows
  <2> QED  BY <1>p, <2>1 DEF RosterGuarded, NoSessionWhileOffline
<1>4. CASE Surroundings
  <2>1. UNCHANGED <<session, leader>>
    BY <1>4 DEF Surroundings, cycle
  <2>2. /\ server'.state = server.state /\ server'.first404 = server.first404
    BY <1>0, <1>4 DEF Surroundings, Revalidate, Tick, rows, TypeOK, LifecycleRow
  <2> QED  BY <1>p, <2>1, <2>2 DEF RosterGuarded, NoSessionWhileOffline
<1>5. CASE UNCHANGED all
  BY <1>p, <1>5 DEF all, vars, rows, cycle, RosterGuarded, NoSessionWhileOffline
<1> QED  BY <1>p, <1>1, <1>2, <1>3, <1>4, <1>5 DEF CycleNext

\* While the cycles are Timely, a server that goes offline leaves no session open and none
\* is opened while it stays so, although the cycle opens sessions from a roster it read
\* earlier. (apply_keeper_lifecycle_result, monitor_cycle,
\* _process_player_history_server_db.)
THEOREM OfflineHasNoSession ==
  ASSUME Timely
  PROVE  CycleSpec => []NoSessionWhileOffline
<1>1. CycleInit => SessionGuarded
  <2> SUFFICES ASSUME CycleInit PROVE SessionGuarded
    OBVIOUS
  <2>1. Paced
    BY DEF CycleInit, Init, Paced, Started, Idle
  <2>2. RosterGuarded
    BY DEF CycleInit, RosterGuarded, Started
  <2>3. NoSessionWhileOffline
    BY DEF CycleInit, NoSessionWhileOffline, Offline
  <2> QED  BY <2>1, <2>2, <2>3 DEF SessionGuarded
<1>2. Timely /\ CycleTypeOK /\ Rows /\ SessionGuarded /\ [CycleNext]_all => SessionGuarded'
  BY SessionGuardedStep
<1>3. SessionGuarded => NoSessionWhileOffline
  BY DEF SessionGuarded
<1>4. Timely
  OBVIOUS
<1> QED  BY <1>1, <1>2, <1>3, CycleTypesAndRows, PTL DEF CycleSpec
=============================================================================
