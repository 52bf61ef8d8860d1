------------------------- MODULE PlayerSessionsProofs -------------------------
(***************************************************************************)
(* What holds of PlayerSessions for any players, names and number of       *)
(* sessions: the types, that a session is announced once, that a departure *)
(* takes two rosters, and that marks outlive the leader while distributed  *)
(* enrichment is on.                                                       *)
(***************************************************************************)
EXTENDS PlayerSessions, TLAPS, FiniteSetTheorems

\* A message in Discord is on record, excused, or about to be put on record; one
\* that is about to be sent is not on record.
Told ==
  /\ sent \subseteq alerted \cup excused \cup
                      (IF monitor.at = "record" THEN {monitor.item} ELSE {})
  /\ monitor.at = "send" => monitor.item \notin alerted
  /\ monitor.at = "record" => monitor.item \in sent
  /\ alerted \subseteq sent
  /\ AnnouncedOnce

\* A session without an owner has not begun; the leader remembers absences of
\* sessions that no roster since has had.
Begun ==
  /\ \A s \in SessionIds : sessions[s].state = "unused" => sessions[s].persona = Nobody
  /\ \A s \in monitor.absent :
       /\ sessions[s].state # "unused"
       /\ sessions[s].state = "open" => missed[s] >= 1

\* A session evaluated about its mark has been resolved; when the mark is about to be
\* cleared it has been announced, failed, found somebody else's, or is over.
Evaluated ==
  /\ monitor.pc \in {"history", "queue", "enrich"} => monitor.item = 0
  /\ \A s \in monitor.marks : sessions[s].persona # Nobody
  /\ monitor.pc = "marks" /\ monitor.item # 0 => sessions[monitor.item].persona # Nobody
  /\ distributed /\ monitor.at = "clear" =>
       \/ sessions[monitor.item].state = "closed"
       \/ monitor.item \in sent \cup excused \cup passed

-----------------------------------------------------------------------------
(* The roster transaction.                                                   *)

LEMMA RosterNames ==
  ASSUME SessionsTypeOK
  PROVE  Roster \subseteq Names
BY DEF Roster, SessionsTypeOK

LEMMA KnownType ==
  ASSUME NEW n
  PROVE  Known(n) \in Players \cup {Nobody}
<1> DEFINE owners == {p \in Players : <<p, n>> \in aliases}
<1>1. CASE Cardinality(owners) = 1
  <2>1. owners # {}
    <3>1. SUFFICES ASSUME owners = {} PROVE FALSE
      OBVIOUS
    <3>2. Cardinality(owners) = 0
      BY <3>1, FS_EmptySet
    <3> HIDE DEF owners
    <3> QED  BY <1>1, <3>2
  <2>2. (CHOOSE p \in owners : TRUE) \in owners
    BY <2>1
  <2> QED  BY <1>1, <2>2 DEF Known
<1>2. CASE Cardinality(owners) # 1
  BY <1>2 DEF Known
<1> QED  BY <1>1, <1>2

LEMMA SightedFacts ==
  ASSUME SessionsTypeOK, NEW s \in SessionIds, NEW names \in SUBSET Names,
         NEW new \in Sighted(s, names)
  PROVE  /\ new \in SessionRow
         /\ new.state = "open" /\ new.marked = sessions[s].marked
         /\ sessions[s].persona # Nobody => new.persona = sessions[s].persona
<1> DEFINE known == {Known(n) : n \in names} \ {Nobody}
           persona == IF sessions[s].persona # Nobody \/ known = {} THEN sessions[s].persona
                      ELSE CHOOSE p \in known : TRUE
<1>1. sessions[s] \in SessionRow
  BY DEF SessionsTypeOK
<1>2. persona \in Players \cup {Nobody}
  <2>1. CASE sessions[s].persona # Nobody \/ known = {}
    BY <1>1, <2>1 DEF SessionRow
  <2>2. CASE ~(sessions[s].persona # Nobody \/ known = {})
    <3>1. (CHOOSE p \in known : TRUE) \in known
      BY <2>2
    <3> QED  BY <2>2, <3>1, KnownType
  <2> QED  BY <2>1, <2>2
<1>3. sessions[s].persona # Nobody => persona = sessions[s].persona
  OBVIOUS
<1>4. PICK n \in names : new = [state |-> "open", persona |-> persona, name |-> n,
                                marked |-> sessions[s].marked]
  BY DEF Sighted
<1> HIDE DEF persona, known
<1> QED  BY <1>1, <1>2, <1>3, <1>4 DEF SessionRow

\* What the transaction does to a session: it has a sight of it, or closes it, or
\* leaves it alone.
LEMMA HistoryRows ==
  ASSUME SessionsTypeOK, NEW f \in Assignments, History(f), NEW s \in SessionIds
  PROVE  LET seen == {f[n] : n \in Roster}
         IN  /\ sessions'[s] \in SessionRow
             /\ s \in seen =>
                  /\ sessions[s].state # "closed"
                  /\ sessions'[s].state = "open" /\ sessions'[s].marked = sessions[s].marked
                  /\ sessions[s].persona # Nobody => sessions'[s].persona = sessions[s].persona
             /\ s \notin seen =>
                  \/ sessions'[s] = sessions[s]
                  \/ s \in Open /\ Closes(s) /\ sessions'[s] = Closed(s)
<1> DEFINE seen == {f[n] : n \in Roster}
           gone == {t \in Open \ seen : Closes(t)}
           names == {n \in Roster : f[n] = s}
<1>1. sessions[s] \in SessionRow /\ names \in SUBSET Names
  BY RosterNames DEF SessionsTypeOK
<1>2. IF s \in seen THEN sessions'[s] \in Sighted(s, names)
      ELSE sessions'[s] = IF s \in gone THEN Closed(s) ELSE sessions[s]
  BY DEF History
<1>3. CASE s \in seen
  <2>1. sessions[s].state # "closed"
    <3>1. PICK n \in Roster : s = f[n]
      BY <1>3
    <3>2. CASE Matches(n) # {}
      <4>1. s \in Matches(n)
        BY <3>1, <3>2 DEF Assignments
      <4>2. s \in Open
        BY <4>1 DEF Matches
      <4> QED  BY <4>2 DEF Open
    <3>3. CASE Matches(n) = {}
      BY <3>1, <3>3 DEF Assignments
    <3> QED  BY <3>2, <3>3
  <2> QED  BY <1>1, <1>2, <1>3, <2>1, SightedFacts
<1>4. CASE s \notin seen
  <2>1. Closed(s) \in SessionRow
    BY <1>1 DEF Closed, SessionRow
  <2> QED  BY <1>1, <1>2, <1>4, <2>1
<1> QED  BY <1>3, <1>4

LEMMA HistoryDomain ==
  ASSUME NEW f, History(f)
  PROVE  DOMAIN sessions' = SessionIds /\ sessions' = [s \in SessionIds |-> sessions'[s]]
BY DEF History

LEMMA HistoryTypes ==
  ASSUME SessionsTypeOK, NEW f \in Assignments, History(f)
  PROVE  /\ sessions' \in [SessionIds -> SessionRow]
         /\ aliases' \subseteq Players \X Names
         /\ missed' \in [SessionIds -> 0 .. 2]
<1>1. sessions' \in [SessionIds -> SessionRow]
  BY HistoryRows, HistoryDomain
<1>2. aliases' \subseteq Players \X Names
  <2>1. ASSUME NEW n \in Roster, sessions'[f[n]].persona # Nobody
        PROVE  <<sessions'[f[n]].persona, n>> \in Players \X Names
    <3>1. f[n] \in SessionIds
      BY DEF Assignments
    <3>2. sessions'[f[n]].persona \in Players
      BY <1>1, <2>1, <3>1 DEF SessionRow
    <3> QED  BY <3>2, RosterNames
  <2> QED  BY <2>1 DEF History, SessionsTypeOK
<1>3. missed' \in [SessionIds -> 0 .. 2]
  BY DEF History, SessionsTypeOK
<1> QED  BY <1>1, <1>2, <1>3

-----------------------------------------------------------------------------
(* Types.                                                                    *)

LEMMA ResolvesTypes ==
  ASSUME SessionsTypeOK, NEW ids, Resolves(ids)
  PROVE  /\ sessions' \in [SessionIds -> SessionRow]
         /\ aliases' \subseteq Players \X Names
         /\ watch' \in Players \cup {Nobody}
         /\ \A s \in SessionIds :
              \/ sessions'[s] = sessions[s]
              \/ /\ s \in Open /\ sessions[s].persona = Nobody
                 /\ sessions'[s].state = "open" /\ sessions'[s].marked = sessions[s].marked
<1> DEFINE named(s) == {p \in Players : playing[p] = sessions[s].name}
           found == {s \in ids \cap Unresolved : named(s) # {}}
           persona(s) == CHOOSE p \in named(s) : TRUE
<1>1. /\ sessions' = [s \in SessionIds |-> IF s \in found
                        THEN [sessions[s] EXCEPT !.persona = persona(s)] ELSE sessions[s]]
      /\ aliases' = aliases \cup {<<persona(s), sessions[s].name>> : s \in found}
      /\ \/ watch' = watch
         \/ \E s \in found : watch' = persona(s)
  BY DEF Resolves
<1>2. \A s \in found : /\ s \in SessionIds /\ s \in Open /\ sessions[s].persona = Nobody
                       /\ sessions[s].state = "open" /\ named(s) # {}
  BY DEF Unresolved, Open
<1>3. \A s \in found : persona(s) \in Players
  <2>1. ASSUME NEW s \in found PROVE persona(s) \in named(s)
    BY <1>2
  <2> QED  BY <2>1
<1>4. \A s \in SessionIds : sessions[s] \in SessionRow
  BY DEF SessionsTypeOK
<1> HIDE DEF persona, found, named
<1>5. sessions' \in [SessionIds -> SessionRow]
  BY <1>1, <1>2, <1>3, <1>4 DEF SessionRow
<1>6. aliases' \subseteq Players \X Names
  BY <1>1, <1>2, <1>3, <1>4 DEF SessionRow, SessionsTypeOK
<1>7. watch' \in Players \cup {Nobody}
  BY <1>1, <1>3 DEF SessionsTypeOK
<1>8. \A s \in SessionIds :
        \/ sessions'[s] = sessions[s]
        \/ /\ s \in Open /\ sessions[s].persona = Nobody
           /\ sessions'[s].state = "open" /\ sessions'[s].marked = sessions[s].marked
  BY <1>1, <1>2, <1>4 DEF SessionRow
<1> QED  BY <1>5, <1>6, <1>7, <1>8

LEMMA NewMonitorType == NewMonitor \in MonitorType
BY DEF NewMonitor, MonitorType

LEMMA InitSessionTypes == SessionsInit => SessionsTypeOK
<1> SUFFICES ASSUME SessionsInit PROVE SessionsTypeOK
  OBVIOUS
<1>1. Unopened \in SessionRow
  BY SessionAssumption DEF Unopened, SessionRow
<1> QED  BY <1>1, NewMonitorType DEF SessionsInit, SessionsTypeOK, NewMonitor

LEMMA AfterItemType ==
  ASSUME SessionsTypeOK, monitor.item # 0
  PROVE  /\ AfterItem \in MonitorType
         /\ AfterItem.at # "decide" => AfterItem.item # 0
         /\ AfterItem.at = "clear" => AfterItem.pc = "marks"
BY DEF AfterItem, MonitorType, SessionsTypeOK

\* The parts of a cycle, and of the evaluation of one session.
LEMMA CycleTypes ==
  ASSUME SessionsTypeOK, Sight \/ Queue \/ JoinAlert \/ Enrich \/ NextMark \/ ClearMark
  PROVE  SessionsTypeOK'
<1> USE DEF SessionsTypeOK
<1>1. CASE Sight
  <2>1. PICK f \in Assignments :
          LET seen == {f[n] : n \in Roster}
              new == {s \in seen : sessions[s].state = "unused"}
              baseline == ~monitor.baselined \/ monitor.recovery
          IN  /\ History(f)
              /\ monitor' = [monitor EXCEPT
                   !.pc = "queue", !.quiet = baseline,
                   !.absent = {s \in Open \ seen : s \notin @},
                   !.queue = {s \in new : sessions'[s].persona = Nobody},
                   !.joins = IF baseline /\ monitor.baselined THEN {} ELSE new]
    BY <1>1 DEF Sight
  <2>2. {f[n] : n \in Roster} \subseteq SessionIds /\ Open \subseteq SessionIds
    BY DEF Assignments, Open
  <2>3. monitor' \in MonitorType /\ monitor'.at = monitor.at /\ monitor'.item = monitor.item
        /\ monitor.pc = "history"
    BY <1>1, <2>1, <2>2 DEF MonitorType, Sight
  <2> QED  BY <1>1, <2>1, <2>3, HistoryTypes DEF Sight, setting
<1>2. CASE Queue
  <2>1. monitor' \in MonitorType /\ monitor'.at = monitor.at /\ monitor'.item = monitor.item
        /\ monitor.pc = "queue"
    BY <1>2 DEF Queue, MonitorType
  <2>2. sessions' \in [SessionIds -> SessionRow]
    BY <1>2 DEF Queue, SessionRow
  <2> QED  BY <1>2, <2>1, <2>2 DEF Queue, setting, told
<1>3. CASE JoinAlert
  <2>1. monitor' \in MonitorType /\ (monitor'.at # "decide" => monitor'.item # 0)
        /\ monitor'.at # "clear"
    <3>1. ASSUME NEW s \in monitor.joins,
                 monitor' = [monitor EXCEPT !.item = s, !.at = "decide", !.joins = @ \ {s}]
          PROVE  monitor' \in MonitorType /\ monitor'.at = "decide"
      BY <3>1 DEF MonitorType
    <3>2. ASSUME monitor' = [monitor EXCEPT !.pc = "enrich", !.baselined = TRUE,
                                            !.recovery = FALSE, !.quiet = FALSE],
                 monitor.item = 0
          PROVE  monitor' \in MonitorType /\ monitor'.at = "decide"
      BY <3>2 DEF MonitorType
    <3> QED  BY <1>3, <3>1, <3>2 DEF JoinAlert
  <2> QED  BY <1>3, <2>1 DEF JoinAlert, setting, tables, told
<1>4. CASE Enrich
  <2>1. /\ monitor' \in MonitorType /\ monitor'.at = monitor.at /\ monitor'.item = monitor.item
        /\ monitor'.pc = "marks"
    <3>1. PICK marks \in SUBSET SessionIds :
            \/ monitor' = [monitor EXCEPT !.pc = "marks", !.marks = marks]
            \/ monitor' = [monitor EXCEPT !.pc = "marks"]
      <4>1. {s \in SessionIds : sessions[s].marked /\ sessions[s].persona # Nobody}
              \in SUBSET SessionIds
        OBVIOUS
      <4>2. {s \in Unresolved : sessions'[s].persona # Nobody} \in SUBSET SessionIds
        BY DEF Unresolved, Open
      <4> QED  BY <1>4, <4>1, <4>2 DEF Enrich
    <3>2. CASE monitor' = [monitor EXCEPT !.pc = "marks", !.marks = marks]
      BY <3>2 DEF MonitorType
    <3>3. CASE monitor' = [monitor EXCEPT !.pc = "marks"]
      BY <3>3 DEF MonitorType
    <3> QED  BY <3>1, <3>2, <3>3
  <2>2. /\ sessions' \in [SessionIds -> SessionRow] /\ aliases' \subseteq Players \X Names
        /\ watch' \in Players \cup {Nobody}
    BY <1>4, ResolvesTypes DEF Enrich
  <2> QED  BY <1>4, <2>1, <2>2 DEF Enrich, setting, told
<1>5. CASE NextMark
  <2>1. /\ monitor' \in MonitorType
        /\ monitor'.at # "decide" => monitor'.item # 0 /\ monitor'.pc = "marks"
    <3>1. ASSUME NEW s \in monitor.marks,
                 monitor' = [monitor EXCEPT
                   !.item = s, !.marks = @ \ {s}, !.eligible = @ \ {s},
                   !.at = IF NeedsLook(s) THEN "decide" ELSE "clear"]
          PROVE  monitor' \in MonitorType /\ monitor'.item # 0 /\ monitor'.pc = monitor.pc
      <4>1. s \in SessionIds /\ s # 0
        BY SessionAssumption DEF MonitorType, SessionIds
      <4>2. (IF NeedsLook(s) THEN "decide" ELSE "clear") \in {"decide", "clear"}
        OBVIOUS
      <4> QED  BY <3>1, <4>1, <4>2 DEF MonitorType
    <3>2. ASSUME monitor' = [monitor EXCEPT !.pc = "history"], monitor.item = 0
          PROVE  monitor' \in MonitorType /\ monitor'.at = "decide"
      BY <3>2 DEF MonitorType
    <3> QED  BY <1>5, <3>1, <3>2 DEF NextMark
  <2> QED  BY <1>5, <2>1 DEF NextMark, setting, tables, told
<1>6. CASE ClearMark
  <2>1. monitor' \in MonitorType /\ monitor'.at = "decide"
    BY <1>6 DEF ClearMark, MonitorType
  <2>2. sessions' \in [SessionIds -> SessionRow]
    <3>1. monitor.item \in SessionIds
      BY <1>6 DEF ClearMark, item, MonitorType
    <3> QED  BY <1>6, <3>1 DEF ClearMark, SessionRow, item
  <2> QED  BY <1>6, <2>1, <2>2 DEF ClearMark, setting, told
<1> QED  BY <1>1, <1>2, <1>3, <1>4, <1>5, <1>6

LEMMA AlertTypes ==
  ASSUME SessionsTypeOK,
         Decide \/ SendAlert \/ AlertFails \/ RecordAlert \/ RecordAlertRaises
  PROVE  SessionsTypeOK'
<1> USE DEF SessionsTypeOK, item
<1>1. monitor.item # 0 => monitor.item \in SessionIds
  BY DEF MonitorType
<1>2. CASE Decide
  <2>1. /\ monitor' \in MonitorType
        /\ monitor'.at # "decide" => monitor'.item # 0
        /\ monitor'.at = "clear" => monitor'.pc = "marks"
    <3>1. CASE Due(item)
      BY <1>2, <3>1 DEF Decide, MonitorType
    <3>2. CASE ~Due(item)
      BY <1>2, <3>2, AfterItemType DEF Decide
    <3> QED  BY <3>1, <3>2
  <2>2. passed' \in SUBSET SessionIds
    <3>1. monitor.item \in SessionIds /\ passed \in SUBSET SessionIds
      BY <1>1, <1>2 DEF Decide
    <3>2. passed' \subseteq passed \cup {monitor.item}
      BY <1>2 DEF Decide
    <3> QED  BY <3>1, <3>2
  <2> QED  BY <1>2, <2>1, <2>2 DEF Decide, setting, tables
<1>3. CASE SendAlert
  <2>1. /\ monitor' \in MonitorType /\ monitor'.at = "record" /\ monitor'.item = monitor.item
    BY <1>3 DEF SendAlert, MonitorType
  <2> QED  BY <1>1, <1>3, <2>1 DEF SendAlert, setting, tables
<1>4. CASE AlertFails
  BY <1>1, <1>4, AfterItemType DEF AlertFails, setting, tables
<1>5. CASE RecordAlert
  <2>1. watch' \in Players \cup {Nobody}
    BY <1>1, <1>5 DEF RecordAlert, SessionRow
  <2> QED  BY <1>1, <1>5, <2>1, AfterItemType DEF RecordAlert, setting, told
<1>6. CASE RecordAlertRaises
  BY <1>1, <1>6, AfterItemType DEF RecordAlertRaises, setting, tables
<1> QED  BY <1>2, <1>3, <1>4, <1>5, <1>6

LEMMA OutsideTypes ==
  ASSUME SessionsTypeOK,
         \/ WorkerResolves \/ Missing \/ Offline \/ NewLeads
         \/ \E p \in Players, n \in Names \cup {Nobody} : Play(p, n)
  PROVE  SessionsTypeOK'
<1> USE DEF SessionsTypeOK
<1>1. CASE WorkerResolves
  BY <1>1, ResolvesTypes DEF WorkerResolves, setting, told
<1>2. CASE Missing
  <2>1. /\ monitor' \in MonitorType /\ monitor'.at = monitor.at /\ monitor'.item = monitor.item
        /\ monitor'.pc = monitor.pc
    BY <1>2 DEF Missing, MonitorType
  <2> QED  BY <1>2, <2>1 DEF Missing, setting, tables, told
<1>3. CASE Offline
  <2>1. sessions' \in [SessionIds -> SessionRow]
    BY <1>3 DEF Offline, Closed, SessionRow
  <2> QED  BY <1>3, <2>1 DEF Offline, setting
<1>4. CASE NewLeads
  <2>1. monitor.item # 0 => monitor.item \in SessionIds
    BY DEF MonitorType
  <2> QED  BY <1>4, <2>1, NewMonitorType DEF NewLeads, NewMonitor, setting, tables, item
<1>5. ASSUME NEW p \in Players, NEW n \in Names \cup {Nobody}, Play(p, n)
      PROVE  SessionsTypeOK'
  BY <1>5 DEF Play, tables, told
<1> QED  BY <1>1, <1>2, <1>3, <1>4, <1>5

LEMMA SessionTypeStep ==
  SessionsTypeOK /\ [SessionsNext]_sessionVars => SessionsTypeOK'
<1> SUFFICES ASSUME SessionsTypeOK, [SessionsNext]_sessionVars PROVE SessionsTypeOK'
  OBVIOUS
<1>1. CASE UNCHANGED sessionVars
  BY <1>1 DEF sessionVars, setting, tables, told, SessionsTypeOK
<1>2. CASE SessionsNext
  BY <1>2, CycleTypes, AlertTypes, OutsideTypes DEF SessionsNext
<1> QED  BY <1>1, <1>2

\* Sessions, aliases, the watch and what the leader remembers keep their types.
THEOREM SessionTypesHold == SessionsSpec => []SessionsTypeOK
BY InitSessionTypes, SessionTypeStep, PTL DEF SessionsSpec

-----------------------------------------------------------------------------
(* What any step does to a session.                                          *)

LEMMA ClosedRow ==
  ASSUME SessionsTypeOK, NEW s \in SessionIds
  PROVE  /\ Closed(s).state = "closed" /\ Closed(s).persona = sessions[s].persona
BY DEF Closed, SessionsTypeOK, SessionRow

\* An owner is kept, a session that is over stays over, one that has begun has begun,
\* and only ClearMark takes the mark from a session that goes on.
RowKeeps(s) ==
  /\ sessions[s].persona # Nobody => sessions'[s].persona = sessions[s].persona
  /\ sessions[s].state = "closed" => sessions'[s].state = "closed"
  /\ sessions'[s].state = "unused" =>
       sessions[s].state = "unused" /\ sessions'[s].persona = sessions[s].persona
  /\ sessions[s].marked /\ ~sessions'[s].marked =>
       \/ sessions'[s].state = "closed"
       \/ ClearMark /\ s = monitor.item

LEMMA RowStep ==
  ASSUME SessionsTypeOK, [SessionsNext]_sessionVars, NEW s \in SessionIds
  PROVE  RowKeeps(s)
<1>1. /\ sessions[s] \in SessionRow
      /\ s \in Open <=> sessions[s].state = "open"
  BY DEF SessionsTypeOK, Open
<1>2. CASE sessions'[s] = sessions[s]
  BY <1>1, <1>2 DEF RowKeeps, SessionRow
<1>3. CASE s \in Open /\ sessions'[s] = Closed(s)
  BY <1>1, <1>3, ClosedRow DEF RowKeeps
<1>4. CASE Sight
  <2>1. PICK f \in Assignments : History(f)
    BY <1>4 DEF Sight
  <2> DEFINE seen == {f[n] : n \in Roster}
  <2>2. CASE s \in seen
    <3>1. /\ sessions[s].state # "closed"
          /\ sessions'[s].state = "open" /\ sessions'[s].marked = sessions[s].marked
          /\ sessions[s].persona # Nobody => sessions'[s].persona = sessions[s].persona
      BY <2>1, <2>2, HistoryRows
    <3> QED  BY <3>1 DEF RowKeeps
  <2>3. CASE s \notin seen
    <3>1. \/ sessions'[s] = sessions[s]
          \/ s \in Open /\ sessions'[s] = Closed(s)
      BY <2>1, <2>3, HistoryRows
    <3> QED  BY <1>2, <1>3, <3>1
  <2> QED  BY <2>2, <2>3
<1>5. CASE Queue
  <2>1. \/ sessions'[s] = sessions[s]
        \/ sessions'[s] = [sessions[s] EXCEPT !.marked = TRUE]
    BY <1>5 DEF Queue
  <2> QED  BY <1>1, <1>2, <2>1 DEF RowKeeps, SessionRow
<1>6. CASE ClearMark
  <2>1. \/ sessions'[s] = sessions[s]
        \/ s = monitor.item /\ sessions'[s] = [sessions[s] EXCEPT !.marked = FALSE]
    BY <1>6 DEF ClearMark, item, SessionsTypeOK
  <2> QED  BY <1>1, <1>2, <1>6, <2>1 DEF RowKeeps, SessionRow
<1>7. CASE WorkerResolves \/ Enrich
  <2>1. \/ sessions' = sessions
        \/ Resolves(Unresolved)
    BY <1>7 DEF WorkerResolves, Enrich
  <2>2. CASE Resolves(Unresolved)
    <3>1. \/ sessions'[s] = sessions[s]
          \/ /\ s \in Open /\ sessions[s].persona = Nobody
             /\ sessions'[s].state = "open" /\ sessions'[s].marked = sessions[s].marked
      BY <2>2, ResolvesTypes
    <3> QED  BY <1>1, <1>2, <3>1 DEF RowKeeps
  <2> QED  BY <1>2, <2>1, <2>2
<1>8. CASE Offline
  <2>1. sessions'[s] = IF s \in Open THEN Closed(s) ELSE sessions[s]
    BY <1>8 DEF Offline
  <2> QED  BY <1>2, <1>3, <2>1
<1>9. CASE JoinAlert \/ Decide \/ SendAlert \/ AlertFails \/ RecordAlert \/ RecordAlertRaises
           \/ NextMark \/ Missing \/ NewLeads
           \/ (\E p \in Players, n \in Names \cup {Nobody} : Play(p, n))
           \/ UNCHANGED sessionVars
  BY <1>2, <1>9 DEF JoinAlert, Decide, SendAlert, AlertFails, RecordAlert, RecordAlertRaises,
     NextMark, Missing, NewLeads, Play, sessionVars, tables
<1> QED  BY <1>4, <1>5, <1>6, <1>7, <1>8, <1>9 DEF SessionsNext

-----------------------------------------------------------------------------
(* A session is announced once.                                              *)

LEMMA AfterItemFacts ==
  ASSUME SessionsTypeOK
  PROVE  /\ AfterItem.at \in {"decide", "clear"}
         /\ AfterItem.pc = monitor.pc
         /\ AfterItem.at = "clear" => AfterItem.item = monitor.item /\ monitor.pc = "marks"
         /\ AfterItem.item \in {monitor.item, 0}
         /\ monitor.pc # "marks" => AfterItem.item = 0
         /\ AfterItem.absent = monitor.absent /\ AfterItem.marks = monitor.marks
BY DEF AfterItem, SessionsTypeOK, MonitorType

\* Outside the evaluation of a session, a step neither brings one near an
\* announcement nor changes what was announced.
LEMMA ElsewhereQuiet ==
  ASSUME SessionsTypeOK,
         \/ Sight \/ Queue \/ JoinAlert \/ WorkerResolves \/ Enrich \/ NextMark \/ ClearMark
         \/ (\E p \in Players, n \in Names \cup {Nobody} : Play(p, n))
         \/ Missing \/ Offline \/ UNCHANGED sessionVars
  PROVE  /\ UNCHANGED <<alerted, sent, excused, twice, passed>>
         /\ \/ monitor'.at = monitor.at /\ monitor'.item = monitor.item
            \/ monitor.at \in {"decide", "clear"} /\ monitor'.at \in {"decide", "clear"}
<1> USE DEF SessionsTypeOK, MonitorType
<1>1. CASE Sight \/ Queue \/ Enrich
  <2>1. UNCHANGED <<alerted, sent, excused, twice, passed>>
    BY <1>1 DEF Sight, Queue, Enrich, told
  <2>2. monitor'.at = monitor.at /\ monitor'.item = monitor.item
    <3>1. CASE Sight
      BY <3>1 DEF Sight
    <3>2. CASE Queue
      BY <3>2 DEF Queue
    <3>3. CASE Enrich
      BY <3>3 DEF Enrich
    <3> QED  BY <1>1, <3>1, <3>2, <3>3
  <2> QED  BY <2>1, <2>2
<1>2. CASE JoinAlert
  <2>1. monitor.at = "decide" /\ monitor'.at = "decide"
    BY <1>2 DEF JoinAlert
  <2> QED  BY <1>2, <2>1 DEF JoinAlert, tables, told
<1>3. CASE NextMark
  <2>1. monitor.at = "decide" /\ monitor'.at \in {"decide", "clear"}
    BY <1>3 DEF NextMark
  <2> QED  BY <1>3, <2>1 DEF NextMark, tables, told
<1>4. CASE ClearMark
  <2>1. monitor.at = "clear" /\ monitor'.at = "decide"
    BY <1>4 DEF ClearMark
  <2> QED  BY <1>4, <2>1 DEF ClearMark, told
<1>5. CASE Missing
  BY <1>5 DEF Missing, tables, told
<1>6. CASE WorkerResolves \/ Offline
  BY <1>6 DEF WorkerResolves, Offline, told
<1>7. CASE \E p \in Players, n \in Names \cup {Nobody} : Play(p, n)
  BY <1>7 DEF Play, tables, told
<1>8. CASE UNCHANGED sessionVars
  BY <1>8 DEF sessionVars, tables, told
<1> QED  BY <1>1, <1>2, <1>3, <1>4, <1>5, <1>6, <1>7, <1>8

LEMMA ToldStep ==
  ASSUME SessionsTypeOK, Told, [SessionsNext]_sessionVars
  PROVE  Told'
<1> USE DEF Told, AnnouncedOnce
<1>1. CASE \/ Sight \/ Queue \/ JoinAlert \/ WorkerResolves \/ Enrich \/ NextMark \/ ClearMark
           \/ (\E p \in Players, n \in Names \cup {Nobody} : Play(p, n))
           \/ Missing \/ Offline \/ UNCHANGED sessionVars
  BY <1>1, ElsewhereQuiet
<1>2. CASE Decide
  <2>1. CASE Due(item)
    <3>1. monitor'.at = "send" /\ monitor'.item = monitor.item /\ monitor.item \notin alerted
          /\ monitor.at = "decide"
      BY <1>2, <2>1 DEF Decide, Due, item, SessionsTypeOK, MonitorType
    <3> QED  BY <1>2, <3>1 DEF Decide, tables
  <2>2. CASE ~Due(item)
    <3>1. monitor'.at \in {"decide", "clear"} /\ monitor.at = "decide"
      BY <1>2, <2>2, AfterItemFacts DEF Decide
    <3> QED  BY <1>2, <3>1 DEF Decide, tables
  <2> QED  BY <2>1, <2>2
<1>3. CASE SendAlert
  <2>1. monitor'.at = "record" /\ monitor'.item = monitor.item /\ monitor.at = "send"
    BY <1>3 DEF SendAlert, SessionsTypeOK, MonitorType
  <2> QED  BY <1>3, <2>1 DEF SendAlert, tables, item
<1>4. CASE AlertFails
  <2>1. monitor'.at \in {"decide", "clear"} /\ monitor.at = "send"
    BY <1>4, AfterItemFacts DEF AlertFails
  <2> QED  BY <1>4, <2>1 DEF AlertFails, tables
<1>5. CASE RecordAlert
  <2>1. monitor'.at \in {"decide", "clear"} /\ monitor.at = "record"
    BY <1>5, AfterItemFacts DEF RecordAlert
  <2> QED  BY <1>5, <2>1 DEF RecordAlert, told, item
<1>6. CASE RecordAlertRaises
  <2>1. monitor'.at \in {"decide", "clear"} /\ monitor.at = "record"
    BY <1>6, AfterItemFacts DEF RecordAlertRaises
  <2> QED  BY <1>6, <2>1 DEF RecordAlertRaises, tables, item
<1>7. CASE NewLeads
  <2>1. monitor'.at = "decide" /\ (monitor.at = "record" => monitor.item # 0)
    BY <1>7 DEF NewLeads, NewMonitor, SessionsTypeOK
  <2> QED  BY <1>7, <2>1 DEF NewLeads, tables, item
<1> QED  BY <1>1, <1>2, <1>3, <1>4, <1>5, <1>6, <1>7 DEF SessionsNext

LEMMA InitTold == SessionsInit => Told
BY DEF SessionsInit, Told, NewMonitor, AnnouncedOnce

\* A session of the watched player is announced again only when its message or the
\* record of it had failed. (evaluate_player_watch_alerts.)
THEOREM AnnouncedOnceHolds == SessionsSpec => []AnnouncedOnce
<1>1. SessionsInit => SessionsTypeOK /\ Told
  BY InitSessionTypes, InitTold
<1>2. SessionsTypeOK /\ Told /\ [SessionsNext]_sessionVars => (SessionsTypeOK /\ Told)'
  BY SessionTypeStep, ToldStep
<1>3. Told => AnnouncedOnce
  BY DEF Told
<1> QED  BY <1>1, <1>2, <1>3, PTL DEF SessionsSpec

-----------------------------------------------------------------------------
(* A departure takes two rosters.                                            *)

LEMMA BegunStep ==
  ASSUME SessionsTypeOK, Begun, [SessionsNext]_sessionVars
  PROVE  Begun'
<1>1. \A s \in SessionIds : sessions'[s].state = "unused" => sessions'[s].persona = Nobody
  BY RowStep DEF RowKeeps, Begun
<1>2. monitor.absent \subseteq SessionIds
  BY DEF SessionsTypeOK, MonitorType
<1>3. \A s \in monitor'.absent :
        /\ sessions'[s].state # "unused"
        /\ sessions'[s].state = "open" => missed'[s] >= 1
  <2>1. CASE Sight
    <3>1. PICK f \in Assignments :
            /\ History(f)
            /\ monitor'.absent \subseteq Open \ {f[n] : n \in Roster}
      BY <2>1 DEF Sight, SessionsTypeOK, MonitorType
    <3>2. ASSUME NEW s \in Open, s \notin {f[n] : n \in Roster}
          PROVE  missed'[s] >= 1 /\ sessions'[s].state # "unused"
      <4>1. s \in SessionIds /\ sessions[s].state = "open"
        BY DEF Open
      <4>2. missed'[s] = IF missed[s] < 2 THEN missed[s] + 1 ELSE 2
        BY <3>1, <3>2, <4>1 DEF History
      <4>3. missed[s] \in 0 .. 2
        BY <4>1 DEF SessionsTypeOK
      <4>4. sessions'[s].state # "unused"
        BY <4>1, RowStep DEF RowKeeps
      <4> QED  BY <4>2, <4>3, <4>4
    <3> QED  BY <3>1, <3>2
  <2>2. CASE Offline
    <3>1. ASSUME NEW s \in SessionIds PROVE sessions'[s].state # "open"
      <4>1. sessions'[s] = IF s \in Open THEN Closed(s) ELSE sessions[s]
        BY <2>2 DEF Offline
      <4> QED  BY <4>1, ClosedRow DEF Open
    <3>2. \A s \in monitor.absent : sessions'[s].state # "unused"
      BY <1>2, RowStep DEF RowKeeps, Begun
    <3> QED  BY <1>2, <2>2, <3>1, <3>2 DEF Offline
  <2>3. CASE ~Sight /\ ~Offline
    <3>1. missed' = missed
      BY <2>3 DEF SessionsNext, Queue, JoinAlert, Decide, SendAlert, AlertFails, RecordAlert,
         RecordAlertRaises, WorkerResolves, Enrich, NextMark, ClearMark, Play, Missing,
         NewLeads, sessionVars, told
    <3>2. monitor'.absent \subseteq monitor.absent
      <4> USE DEF SessionsTypeOK, MonitorType
      <4>1. CASE Queue \/ JoinAlert
        BY <4>1 DEF Queue, JoinAlert
      <4>2. CASE Decide \/ AlertFails \/ RecordAlert \/ RecordAlertRaises
        BY <4>2, AfterItemFacts DEF Decide, AlertFails, RecordAlert, RecordAlertRaises
      <4>3. CASE SendAlert \/ Enrich \/ Missing
        BY <4>3 DEF SendAlert, Enrich, Missing
      <4>4. CASE NextMark \/ ClearMark
        BY <4>4 DEF NextMark, ClearMark
      <4>5. CASE NewLeads
        BY <4>5 DEF NewLeads, NewMonitor
      <4>6. CASE \/ WorkerResolves \/ UNCHANGED sessionVars
                 \/ \E p \in Players, n \in Names \cup {Nobody} : Play(p, n)
        BY <4>6 DEF WorkerResolves, Play, sessionVars
      <4> QED  BY <2>3, <4>1, <4>2, <4>3, <4>4, <4>5, <4>6 DEF SessionsNext
    <3>3. ASSUME NEW s \in monitor.absent
          PROVE  /\ sessions'[s].state # "unused"
                 /\ sessions'[s].state = "open" => sessions[s].state = "open"
      <4>1. RowKeeps(s) /\ sessions[s] \in SessionRow /\ sessions[s].state # "unused"
        BY <1>2, RowStep DEF SessionsTypeOK, Begun
      <4> QED  BY <4>1 DEF RowKeeps, SessionRow
    <3> QED  BY <3>1, <3>2, <3>3 DEF Begun
  <2> QED  BY <2>1, <2>2, <2>3
<1> QED  BY <1>1, <1>3 DEF Begun

LEMMA InitBegun == SessionsInit => Begun
BY DEF SessionsInit, Begun, NewMonitor, Unopened

LEMMA OnlySightEndsHistory ==
  ASSUME SessionsTypeOK, [SessionsNext]_sessionVars,
         monitor.pc = "history", monitor'.pc = "queue"
  PROVE  Sight
<1> USE DEF SessionsTypeOK, MonitorType
<1>1. ~(Queue \/ JoinAlert \/ Enrich \/ NextMark)
  BY DEF Queue, JoinAlert, Enrich, NextMark
<1>2. ~(Decide \/ AlertFails \/ RecordAlert \/ RecordAlertRaises)
  BY AfterItemFacts DEF Decide, AlertFails, RecordAlert, RecordAlertRaises
<1>3. ~(SendAlert \/ ClearMark \/ Missing \/ NewLeads)
  BY DEF SendAlert, ClearMark, Missing, NewLeads, NewMonitor
<1>4. ~(WorkerResolves \/ Offline \/ UNCHANGED sessionVars)
      /\ ~(\E p \in Players, n \in Names \cup {Nobody} : Play(p, n))
  BY DEF WorkerResolves, Offline, Play, sessionVars
<1> QED  BY <1>1, <1>2, <1>3, <1>4 DEF SessionsNext

LEMMA DepartureStep ==
  ASSUME SessionsTypeOK, Begun, [SessionsNext]_sessionVars,
         monitor.pc = "history", monitor'.pc = "queue",
         NEW s \in Open, sessions'[s].state = "closed"
  PROVE  missed'[s] = 2
<1>1. PICK f \in Assignments : History(f)
  BY OnlySightEndsHistory DEF Sight
<1> DEFINE seen == {f[n] : n \in Roster}
<1>2. s \in SessionIds /\ sessions[s].state = "open"
  BY DEF Open
<1>3. s \notin seen /\ Closes(s)
  BY <1>1, <1>2, HistoryRows
<1>4. missed[s] \in 0 .. 2 /\ missed[s] >= 1
  BY <1>2, <1>3 DEF Closes, Begun, SessionsTypeOK
<1>5. missed'[s] = IF missed[s] < 2 THEN missed[s] + 1 ELSE 2
  BY <1>1, <1>2, <1>3 DEF History
<1> QED  BY <1>4, <1>5

\* A roster closes a session only when the one before had no sight of it either,
\* whoever led when it was taken. (_process_player_history_server_db.)
THEOREM DepartureNeedsTwo == SessionsSpec => DepartureTakesTwo
<1>1. SessionsInit => SessionsTypeOK /\ Begun
  BY InitSessionTypes, InitBegun
<1>2. SessionsTypeOK /\ Begun /\ [SessionsNext]_sessionVars => (SessionsTypeOK /\ Begun)'
  BY SessionTypeStep, BegunStep
<1>3. SessionsTypeOK /\ Begun /\ [SessionsNext]_sessionVars
      => [monitor.pc = "history" /\ monitor'.pc = "queue" =>
            \A s \in Open : sessions'[s].state = "closed" => missed'[s] = 2]_sessionVars
  BY DepartureStep
<1> QED  BY <1>1, <1>2, <1>3, PTL DEF SessionsSpec, DepartureTakesTwo

-----------------------------------------------------------------------------
(* Marks outlive the leader.                                                 *)

LEMMA TellingGrows ==
  ASSUME SessionsTypeOK, [SessionsNext]_sessionVars
  PROVE  /\ distributed' = distributed
         /\ sent \cup excused \cup passed \subseteq sent' \cup excused' \cup passed'
<1>1. distributed' = distributed
  BY DEF SessionsNext, Sight, Queue, JoinAlert, Decide, SendAlert, AlertFails, RecordAlert,
     RecordAlertRaises, WorkerResolves, Enrich, NextMark, ClearMark, Play, Missing, Offline,
     NewLeads, sessionVars, setting
<1>2. CASE \/ Sight \/ Queue \/ JoinAlert \/ WorkerResolves \/ Enrich \/ NextMark \/ ClearMark
           \/ (\E p \in Players, n \in Names \cup {Nobody} : Play(p, n))
           \/ Missing \/ Offline \/ UNCHANGED sessionVars
  BY <1>1, <1>2, ElsewhereQuiet
<1>3. CASE Decide \/ SendAlert \/ AlertFails \/ RecordAlert \/ RecordAlertRaises \/ NewLeads
  BY <1>1, <1>3 DEF Decide, SendAlert, AlertFails, RecordAlert, RecordAlertRaises, NewLeads, told
<1> QED  BY <1>2, <1>3 DEF SessionsNext

\* The parts of Evaluated, one by one.
LEMMA NoItemBetween ==
  ASSUME SessionsTypeOK, Evaluated, [SessionsNext]_sessionVars,
         monitor'.pc \in {"history", "queue", "enrich"}
  PROVE  monitor'.item = 0
<1> USE DEF SessionsTypeOK, MonitorType, Evaluated
<1>1. CASE Sight \/ Queue \/ JoinAlert
  BY <1>1 DEF Sight, Queue, JoinAlert
<1>2. CASE Enrich \/ NextMark \/ ClearMark
  BY <1>2 DEF Enrich, NextMark, ClearMark
<1>3. CASE Decide \/ SendAlert \/ AlertFails \/ RecordAlert \/ RecordAlertRaises
  <2>1. monitor.item # 0 /\ monitor.pc \notin {"history", "queue", "enrich"}
    BY <1>3 DEF Decide, SendAlert, AlertFails, RecordAlert, RecordAlertRaises, item
  <2>2. monitor'.pc = monitor.pc
    BY <1>3, AfterItemFacts DEF Decide, SendAlert, AlertFails, RecordAlert, RecordAlertRaises
  <2> QED  BY <2>1, <2>2
<1>4. CASE Missing
  BY <1>4 DEF Missing
<1>5. CASE NewLeads
  BY <1>5 DEF NewLeads, NewMonitor
<1>6. CASE \/ WorkerResolves \/ Offline \/ UNCHANGED sessionVars
           \/ \E p \in Players, n \in Names \cup {Nobody} : Play(p, n)
  BY <1>6 DEF WorkerResolves, Offline, Play, sessionVars
<1> QED  BY <1>1, <1>2, <1>3, <1>4, <1>5, <1>6 DEF SessionsNext

\* The sessions to evaluate, and the one being evaluated, are resolved ones.
ToEvaluate ==
  monitor.marks \cup (IF monitor.pc = "marks" /\ monitor.item # 0 THEN {monitor.item} ELSE {})

LEMMA ToEvaluateStep ==
  ASSUME SessionsTypeOK, Evaluated, [SessionsNext]_sessionVars, NEW s \in ToEvaluate'
  PROVE  sessions'[s].persona # Nobody
<1> USE DEF SessionsTypeOK, MonitorType
<1>1. ToEvaluate \subseteq SessionIds /\ \A t \in ToEvaluate : sessions[t].persona # Nobody
  BY DEF ToEvaluate, Evaluated
<1>2. CASE s \in ToEvaluate
  BY <1>1, <1>2, RowStep DEF RowKeeps
<1>3. CASE Enrich
  <2>1. monitor'.item = 0
    BY <1>3 DEF Enrich, Evaluated
  <2>2. s \in monitor'.marks
    BY <2>1 DEF ToEvaluate
  <2>3. CASE distributed
    <3>1. sessions' = sessions /\ monitor'.marks =
               {t \in SessionIds : sessions[t].marked /\ sessions[t].persona # Nobody}
      BY <1>3, <2>3 DEF Enrich
    <3> QED  BY <2>2, <3>1
  <2>4. CASE monitor'.marks = {t \in Unresolved : sessions'[t].persona # Nobody}
    BY <2>2, <2>4
  <2>5. CASE monitor'.marks = monitor.marks
    BY <1>2, <2>2, <2>5 DEF ToEvaluate
  <2> QED  BY <1>3, <2>3, <2>4, <2>5 DEF Enrich
<1>4. CASE ~Enrich
  <2> SUFFICES ToEvaluate' \subseteq ToEvaluate
    BY <1>2
  <2> USE DEF ToEvaluate
  <2>1. CASE Sight \/ Queue
    BY <2>1 DEF Sight, Queue
  <2>2. CASE JoinAlert
    <3>1. monitor.pc = "joins" /\ monitor'.pc \in {"joins", "enrich"}
          /\ monitor'.marks = monitor.marks
      BY <2>2 DEF JoinAlert
    <3> QED  BY <3>1
  <2>3. CASE NextMark
    <3>1. CASE monitor' = [monitor EXCEPT !.pc = "history"]
      BY <3>1
    <3>2. ASSUME NEW t \in monitor.marks, monitor.pc = "marks",
                 monitor' = [monitor EXCEPT
                   !.item = t, !.marks = @ \ {t}, !.eligible = @ \ {t},
                   !.at = IF NeedsLook(t) THEN "decide" ELSE "clear"]
          PROVE  ToEvaluate' \subseteq ToEvaluate
      <4>1. monitor'.item = t /\ monitor'.marks = monitor.marks \ {t}
        BY <3>2
      <4> QED  BY <4>1
    <3> QED  BY <2>3, <3>1, <3>2 DEF NextMark
  <2>4. CASE ClearMark
    BY <2>4 DEF ClearMark
  <2>5. CASE Decide \/ AlertFails \/ RecordAlert \/ RecordAlertRaises
    <3>1. /\ monitor'.marks = monitor.marks /\ monitor'.pc = monitor.pc
          /\ monitor'.item \in {monitor.item, 0}
      BY <2>5, AfterItemFacts DEF Decide, AlertFails, RecordAlert, RecordAlertRaises
    <3> QED  BY <3>1
  <2>6. CASE SendAlert \/ Missing
    BY <2>6 DEF SendAlert, Missing
  <2>7. CASE NewLeads
    BY <2>7 DEF NewLeads, NewMonitor
  <2>8. CASE \/ WorkerResolves \/ Offline \/ UNCHANGED sessionVars
             \/ \E p \in Players, n \in Names \cup {Nobody} : Play(p, n)
    BY <2>8 DEF WorkerResolves, Offline, Play, sessionVars
  <2> QED  BY <1>4, <2>1, <2>2, <2>3, <2>4, <2>5, <2>6, <2>7, <2>8 DEF SessionsNext
<1> QED  BY <1>3, <1>4

\* What ends the evaluation of a session about its mark.
LEMMA ClearReason ==
  ASSUME SessionsTypeOK, Told, Begun, Evaluated, [SessionsNext]_sessionVars,
         distributed, monitor'.at = "clear"
  PROVE  \/ sessions'[monitor'.item].state = "closed"
         \/ monitor'.item \in sent' \cup excused' \cup passed'
<1> USE DEF SessionsTypeOK, MonitorType
<1>1. CASE monitor.at = "clear" /\ monitor'.item = monitor.item
  <2>1. monitor.item \in SessionIds
    BY <1>1
  <2> QED  BY <1>1, <2>1, RowStep, TellingGrows DEF Evaluated, RowKeeps
<1>2. CASE Decide
  <2>1. monitor' = AfterItem /\ ~Due(item)
    BY <1>2 DEF Decide
  <2>2. /\ monitor'.item = monitor.item /\ monitor.pc = "marks" /\ monitor.item # 0
        /\ monitor.item \in SessionIds
    BY <1>2, <2>1, AfterItemFacts DEF Decide, item
  <2>3. sessions[item].persona # Nobody /\ sessions' = sessions
    BY <1>2, <2>2 DEF Evaluated, item, Decide, tables
  <2>4. CASE ~Watched(item)
    BY <1>2, <2>2, <2>3, <2>4 DEF Decide, item
  <2>5. CASE item \in alerted
    BY <1>2, <2>2, <2>5 DEF Told, Decide, item
  <2>6. CASE item \notin Open
    <3>1. sessions[item] \in SessionRow /\ sessions[item].state \notin {"open", "unused"}
      BY <2>2, <2>3, <2>6 DEF Open, Begun, item
    <3> QED  BY <2>2, <2>3, <3>1 DEF SessionRow, item
  <2> QED  BY <2>1, <2>4, <2>5, <2>6 DEF Due
<1>3. CASE AlertFails \/ RecordAlertRaises
  BY <1>3, AfterItemFacts DEF AlertFails, RecordAlertRaises, item
<1>4. CASE RecordAlert
  <2>1. monitor'.item = monitor.item /\ monitor.at = "record" /\ sent' = sent
    BY <1>4, AfterItemFacts DEF RecordAlert, told
  <2> QED  BY <2>1 DEF Told
<1>5. CASE NextMark
  BY <1>5 DEF NextMark, NeedsLook
<1>6. CASE \/ JoinAlert \/ SendAlert \/ ClearMark \/ NewLeads
  <2>1. monitor'.at # "clear"
    <3>1. CASE JoinAlert
      <4>1. monitor.at = "decide"
        BY <3>1 DEF JoinAlert
      <4> QED  BY <3>1, <4>1 DEF JoinAlert
    <3>2. CASE SendAlert \/ ClearMark
      BY <3>2 DEF SendAlert, ClearMark
    <3>3. CASE NewLeads
      BY <3>3 DEF NewLeads, NewMonitor
    <3> QED  BY <1>6, <3>1, <3>2, <3>3
  <2> QED  BY <2>1
<1>7. CASE \/ Sight \/ Queue \/ WorkerResolves \/ Enrich \/ Missing \/ Offline
           \/ (\E p \in Players, n \in Names \cup {Nobody} : Play(p, n))
           \/ UNCHANGED sessionVars
  <2>1. monitor'.at = monitor.at /\ monitor'.item = monitor.item
    BY <1>7 DEF Sight, Queue, WorkerResolves, Enrich, Missing, Offline, Play, sessionVars
  <2> QED  BY <1>1, <2>1
<1> QED  BY <1>2, <1>3, <1>4, <1>5, <1>6, <1>7 DEF SessionsNext

LEMMA EvaluatedStep ==
  ASSUME SessionsTypeOK, Told, Begun, Evaluated, [SessionsNext]_sessionVars
  PROVE  Evaluated'
<1>1. distributed' = distributed
  BY TellingGrows
<1>2. \A s \in ToEvaluate' : sessions'[s].persona # Nobody
  BY ToEvaluateStep
<1>3. /\ \A s \in monitor'.marks : sessions'[s].persona # Nobody
      /\ monitor'.pc = "marks" /\ monitor'.item # 0 =>
           sessions'[monitor'.item].persona # Nobody
  BY <1>2 DEF ToEvaluate
<1> QED  BY <1>1, <1>3, NoItemBetween, ClearReason DEF Evaluated

LEMMA InitEvaluated == SessionsInit => Evaluated
BY DEF SessionsInit, Evaluated, NewMonitor

LEMMA MarksStandStep ==
  ASSUME SessionsTypeOK, Evaluated, [SessionsNext]_sessionVars, distributed
  PROVE  MarksStand
<1> SUFFICES ASSUME NEW s \in Open, sessions[s].marked, sessions'[s].state = "open",
                    ~sessions'[s].marked
             PROVE  s \in sent \cup excused \cup passed
  BY DEF MarksStand
<1>1. s \in SessionIds /\ sessions[s].state = "open"
  BY DEF Open
<1>2. ClearMark /\ s = monitor.item
  BY <1>1, RowStep DEF RowKeeps
<1> QED  BY <1>1, <1>2 DEF ClearMark, Evaluated

\* A mark for later evaluation stands until the watched player has been announced, the
\* session was found not to be theirs, or the message failed, whatever worker resolved
\* it and whoever led meanwhile. (process_pending_persona_alerts.)
THEOREM MarksOutliveLeader == SessionsSpec => MarkOutlivesLeader
<1> DEFINE Inv == SessionsTypeOK /\ Told /\ Begun /\ Evaluated
<1>1. SessionsInit => Inv
  BY InitSessionTypes, InitTold, InitBegun, InitEvaluated
<1>2. Inv /\ [SessionsNext]_sessionVars => Inv'
  BY SessionTypeStep, ToldStep, BegunStep, EvaluatedStep
<1>3. Inv /\ [SessionsNext]_sessionVars => [distributed => MarksStand]_sessionVars
  BY MarksStandStep
<1> QED  BY <1>1, <1>2, <1>3, PTL DEF SessionsSpec, MarkOutlivesLeader
=============================================================================
