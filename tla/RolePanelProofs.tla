---------------------------- MODULE RolePanelProofs ----------------------------
(***************************************************************************)
(* The role panel for any number of panels, channels, messages and callers:*)
(* its types, that an undisturbed reconciliation heals it, that            *)
(* /setroleschannel keeps the old panel until the new one stands, and that *)
(* strays need trouble. Nothing is assumed of the order in which           *)
(* reconciliations and commands meet.                                      *)
(***************************************************************************)
EXTENDS RolePanel, TLAPS, FiniteSetTheorems

TaskRecord ==
  [pc : {"off", "timer", "lock", "panels", "extras", "create", "undo", "remove"},
   channel : Channels \cup {NoChannel}, panels : Counts,
   stored : SUBSET PanelRow, kept : SUBSET PanelRow, todo : SUBSET PanelRow]

Msgs(R) == {r.msg : r \in R}
Distinct(R) == \A r, s \in R : r.msg = s.msg => r = s
Standing == {m \in Messages : posted[m] # Gone}

\* A task's own view: its rows are of different messages, and the panels it has made or
\* found are numbered from one and in its channel.
Orderly(d) ==
  /\ IsFiniteSet(d.kept) /\ Distinct(d.stored \cup d.kept \cup d.todo)
  /\ {r.panel : r \in d.kept} = 1 .. Cardinality(d.kept)
  /\ \A r, s \in d.kept : r.panel = s.panel => r = s
  /\ \A r \in d.kept : r.channel = d.channel
  /\ Cardinality(d.kept) <= d.panels
  /\ d.pc = "extras" =>
       /\ Cardinality(d.kept) = d.panels
       /\ \A r \in d.todo : r \in d.stored /\ (r.panel > d.panels \/ r.channel # d.channel)

Books == Distinct(rows) /\ \A t \in PanelTasks : Orderly(doing[t])

\* Who may be where: only a reconciliation that holds the lock edits panels.
Roles ==
  \A t \in PanelTasks :
    /\ doing[t].pc \in {"panels", "extras"} <=> lock = t
    /\ doing[t].pc \in {"create", "undo"} => t = "set"
    /\ doing[t].pc = "remove" => t \in {"set", "del"}
    /\ t = "del" => doing[t].pc \in {"off", "remove"}

\* The messages /setroleschannel has created are known to nobody else, until they are
\* on record; those it removes after that are not among them.
Private ==
  LET set == doing["set"]
  IN  /\ set.pc \in {"create", "undo"} =>
           \A k \in set.kept :
             /\ k.msg \notin Msgs(rows) /\ k.msg \notin Msgs(set.stored)
             /\ \A u \in PanelTasks \ {"set"} :
                  k.msg \notin Msgs(doing[u].stored \cup doing[u].kept \cup doing[u].todo)
      /\ set.pc = "create" /\ set.channel \in exists =>
           \A k \in set.kept : posted[k.msg] = PanelMessage(set.channel, set.panels)
      /\ set.pc = "remove" => \A k \in set.kept : k.msg \notin Msgs(set.todo)

\* An undisturbed reconciliation has made or found what the roles need.
CleanSoFar ==
  clean => \A t \in PanelTasks : lock = t =>
    /\ doing[t].panels = wanted
    /\ \A r \in doing[t].kept : posted[r.msg] = PanelMessage(doing[t].channel, wanted)

Working(t) == doing[t].pc \notin {"off", "timer", "lock"}
OnlyWorks(t) == Working(t) /\ \A u \in PanelTasks \ {t} : ~Working(u)

\* What stands in Discord while one task works.
Story(t) ==
  LET d == doing[t]
  IN  /\ d.pc = "panels" =>
           /\ d.stored = rows /\ d.channel = chosen
           /\ Standing = Msgs(rows) \cup Msgs(d.kept)
           /\ \A r \in rows : r.channel = d.channel /\ r.panel <= Cardinality(d.kept) =>
                r \in d.kept
      /\ d.pc = "extras" => Standing = Msgs(d.kept) \cup Msgs(d.todo)
      /\ d.pc = "create" => d.stored = rows /\ Standing = Msgs(rows) \cup Msgs(d.kept)
      /\ d.pc = "remove" =>
           Standing = Msgs(d.todo) \cup IF t = "set" THEN Msgs(rows) ELSE {}
      /\ d.pc = "remove" /\ t = "set" => rows = d.kept

Tidy ==
  untroubled =>
    /\ exists = Channels /\ doing["set"].pc # "undo"
    /\ \A r, s \in rows : r.panel = s.panel => r = s
    /\ (\A t \in PanelTasks : ~Working(t)) => Standing = Msgs(rows)
    /\ \A t \in PanelTasks : OnlyWorks(t) => Story(t)

-----------------------------------------------------------------------------
(* The steps, by what they change.                                           *)

\* The task t becomes d, and no other changes.
Turns(t, d) ==
  /\ doing' \in [PanelTasks -> TaskRecord]
  /\ \A u \in PanelTasks : doing'[u] = IF u = t THEN d ELSE doing[u]

\* A step that at most asks for a reconciliation.
Asked ==
  /\ UNCHANGED <<exists, panel, posted, lock, faults, untroubled>>
  /\ wanted' \in Needs /\ clean' \in BOOLEAN
  /\ clean' => clean /\ wanted' = wanted
  /\ \/ doing' = doing
     \/ \E t \in Callers \cup {"runner"}, q \in {"timer", "lock"} :
          doing[t].pc \in {"off", "timer"} /\ Turns(t, [doing[t] EXCEPT !.pc = q])

LEMMA TaskTypes ==
  ASSUME PanelTypeOK
  PROVE  doing \in [PanelTasks -> TaskRecord]
BY DEF PanelTypeOK, TaskRecord

LEMMA TurnsTo ==
  ASSUME PanelTypeOK, NEW t \in PanelTasks, NEW d \in TaskRecord,
         doing' = [doing EXCEPT ![t] = d]
  PROVE  Turns(t, d)
BY TaskTypes DEF Turns

LEMMA OffType ==
  Off \in TaskRecord
BY PanelAssumption DEF Off, TaskRecord, Counts

LEMMA OffFields ==
  /\ Off \in TaskRecord /\ Off.pc = "off" /\ Off.stored = {} /\ Off.kept = {}
  /\ Off.todo = {}
BY OffType DEF Off

\* Each task is of its own kind.
LEMMA TaskKinds ==
  /\ "set" \in Reconcilers /\ "runner" \in Reconcilers /\ "del" \notin Reconcilers
  /\ "nobody" \notin PanelTasks /\ Reconcilers \subseteq PanelTasks
  /\ "set" \in PanelTasks /\ "del" \in PanelTasks /\ "set" \notin Callers \cup {"runner"}
  /\ "del" \notin Callers \cup {"runner"} /\ Callers \cup {"runner"} \subseteq Reconcilers
BY PanelAssumption DEF Reconcilers, PanelTasks

LEMMA KeptCount ==
  ASSUME PanelTypeOK, Books, NEW t \in PanelTasks
  PROVE  Cardinality(doing[t].kept) \in Nat
BY FS_CardinalityType DEF Books, Orderly

LEMMA CallsAsk ==
  ASSUME PanelTypeOK, NEW t \in Callers, wanted' \in Needs, Calls(t)
  PROVE  Asked
<1>1. [doing[t] EXCEPT !.pc = "lock"] \in TaskRecord
  BY TaskTypes, TaskKinds DEF TaskRecord
<1>2. doing' = [doing EXCEPT ![t] = [doing[t] EXCEPT !.pc = "lock"]]
  BY DEF Calls, Wants
<1>3. Turns(t, [doing[t] EXCEPT !.pc = "lock"])
  BY <1>1, <1>2, TurnsTo, TaskKinds
<1>4. clean' \in BOOLEAN
  BY DEF Calls, PanelTypeOK
<1> QED  BY <1>3, <1>4 DEF Asked, Calls

LEMMA StepCases ==
  ASSUME PanelTypeOK, [PanelNext]_panelVars
  PROVE  \/ Asked
         \/ \E t \in Reconcilers : ReconcilePanel(t)
         \/ \E t \in PanelTasks : DeleteOne(t)
         \/ \E t \in {"set", "del"} : RemoveFails(t) \/ PanelRemoved(t)
         \/ \E c \in Channels, t \in Callers : PanelChannelDeleted(c, t)
         \/ \E c \in Channels : SetChannel(c)
         \/ Restart \/ DisableChannel \/ CreatePanel \/ CreateFails \/ Undo \/ Created
         \/ PersistFails
<1>1. CASE UNCHANGED panelVars
  BY <1>1 DEF panelVars, guildConfig, panelHistory, Asked, PanelTypeOK
<1>2. CASE RoleEvent
  <2>1. clean' \in BOOLEAN
    BY <1>2 DEF RoleEvent
  <2>2. CASE doing["runner"].pc = "off"
    <3>1. [doing["runner"] EXCEPT !.pc = "timer"] \in TaskRecord
      BY TaskTypes, TaskKinds DEF TaskRecord
    <3>2. doing' = [doing EXCEPT !["runner"] = [doing["runner"] EXCEPT !.pc = "timer"]]
      BY <1>2, <2>2 DEF RoleEvent
    <3>3. Turns("runner", [doing["runner"] EXCEPT !.pc = "timer"])
      BY <3>1, <3>2, TurnsTo, TaskKinds
    <3> QED  BY <1>2, <2>1, <2>2, <3>3 DEF RoleEvent, Asked
  <2>3. CASE doing["runner"].pc # "off"
    BY <1>2, <2>1, <2>3 DEF RoleEvent, Asked
  <2> QED  BY <2>2, <2>3
<1>3. CASE TimerEnds
  <2>1. [doing["runner"] EXCEPT !.pc = "lock"] \in TaskRecord
    BY TaskTypes, TaskKinds DEF TaskRecord
  <2>2. doing' = [doing EXCEPT !["runner"] = [doing["runner"] EXCEPT !.pc = "lock"]]
    BY <1>3 DEF TimerEnds, Wants
  <2>3. Turns("runner", [doing["runner"] EXCEPT !.pc = "lock"])
    BY <2>1, <2>2, TurnsTo, TaskKinds
  <2>4. wanted' \in Needs /\ clean' \in BOOLEAN /\ (clean' => clean /\ wanted' = wanted)
    BY <1>3 DEF TimerEnds, Undisturbed, guildConfig, PanelTypeOK
  <2> QED  BY <1>3, <2>3, <2>4 DEF TimerEnds, Asked, Undisturbed, guildConfig
<1>4. ASSUME NEW t \in Callers,
             SetMapRole(t) \/ EditMapRole(t) \/ DelMapRole(t) \/ PanelSignal(t) \/ Ready(t)
      PROVE  Asked
  <2>1. Calls(t)
    BY <1>4 DEF SetMapRole, EditMapRole, DelMapRole, PanelSignal, Ready
  <2>2. wanted' \in Needs
    BY <1>4, PanelAssumption
       DEF SetMapRole, EditMapRole, DelMapRole, PanelSignal, Ready, PanelTypeOK, Needs
  <2> QED  BY <2>1, <2>2, CallsAsk
<1>5. CASE PanelNext
  BY <1>2, <1>3, <1>4, <1>5 DEF PanelNext
<1> QED  BY <1>1, <1>5

\* What a task that fetches, edits or sends a panel does.
LEMMA PostStep ==
  ASSUME PanelTypeOK, Books, NEW t \in PanelTasks,
         Next(t) <= doing[t].panels, doing[t].channel \in exists,
         NEW r, r \in Current(t) \cup NewMessage(t), Posts(t, r)
  PROVE  /\ r \in PanelRow /\ r.panel = Next(t) /\ r.channel = doing[t].channel
         /\ r \in doing[t].stored \/ FreeMessage(r.msg)
         /\ r.msg \in Messages
         /\ Turns(t, [doing[t] EXCEPT !.kept = @ \cup {r}])
         /\ posted' = [posted EXCEPT ![r.msg] = PanelMessage(r.channel, doing[t].panels)]
<1>1. /\ doing[t] \in TaskRecord /\ doing[t].channel \in Channels
      /\ doing[t].panels \in 0 .. MaxPanels
  BY TaskTypes, GuildAssumption DEF TaskRecord, Counts, PanelTypeOK, GuildTypeOK
<1>2. Next(t) \in 1 .. MaxPanels
  BY <1>1, KeptCount, PanelAssumption DEF Next
<1>3. /\ r \in PanelRow /\ r.panel = Next(t) /\ r.channel = doing[t].channel
      /\ r \in doing[t].stored \/ FreeMessage(r.msg)
  <2>1. CASE r \in Current(t)
    BY <2>1, <1>1 DEF Current, TaskRecord
  <2>2. CASE r \in NewMessage(t)
    BY <2>2, <1>1, <1>2 DEF NewMessage, PanelRow
  <2> QED  BY <2>1, <2>2
<1>4. [doing[t] EXCEPT !.kept = @ \cup {r}] \in TaskRecord
  BY <1>1, <1>3 DEF TaskRecord
<1>5. doing' = [doing EXCEPT ![t] = [doing[t] EXCEPT !.kept = @ \cup {r}]]
  BY DEF Posts
<1>6. Turns(t, [doing[t] EXCEPT !.kept = @ \cup {r}])
  BY <1>4, <1>5, TurnsTo
<1> QED  BY <1>3, <1>6 DEF Posts, PanelRow

-----------------------------------------------------------------------------
(* Types, and what each task knows of its own.                               *)

LEMMA OrderlyOff ==
  ASSUME NEW d \in TaskRecord, d.kept = {}, d.pc # "extras",
         Distinct(d.stored \cup d.todo)
  PROVE  Orderly(d)
<1>1. Cardinality({}) = 0 /\ IsFiniteSet({})
  BY FS_EmptySet
<1>2. d.panels \in Nat
  BY PanelAssumption DEF TaskRecord, Counts
<1> QED  BY <1>1, <1>2 DEF Orderly, Distinct

LEMMA OrderlyPost ==
  ASSUME NEW d \in TaskRecord, Orderly(d), d.pc # "extras", NEW r \in PanelRow,
         r.panel = Cardinality(d.kept) + 1, r.panel <= d.panels, r.channel = d.channel,
         \A s \in d.stored \cup d.kept \cup d.todo : s.msg = r.msg => s = r
  PROVE  Orderly([d EXCEPT !.kept = @ \cup {r}])
<1> DEFINE e == [d EXCEPT !.kept = @ \cup {r}]
<1>1. /\ e.kept = d.kept \cup {r} /\ e.stored = d.stored /\ e.todo = d.todo
      /\ e.channel = d.channel /\ e.panels = d.panels /\ e.pc = d.pc
  BY DEF TaskRecord
<1> HIDE DEF e
<1>2. Cardinality(d.kept) \in Nat /\ IsFiniteSet(d.kept)
  BY FS_CardinalityType DEF Orderly
<1>8. \A s \in d.kept : s.panel # r.panel
  <2>1. \A s \in d.kept : s.panel \in 1 .. Cardinality(d.kept)
    BY DEF Orderly
  <2> QED  BY <1>2, <2>1
<1>3. r \notin d.kept
  BY <1>8
<1>4. IsFiniteSet(e.kept) /\ Cardinality(e.kept) = Cardinality(d.kept) + 1
  BY <1>1, <1>2, <1>3, FS_AddElement
<1>5. Distinct(e.stored \cup e.kept \cup e.todo)
  BY <1>1 DEF Orderly, Distinct
<1>6. {s.panel : s \in e.kept} = {s.panel : s \in d.kept} \cup {r.panel}
  BY <1>1
<1>7. {s.panel : s \in e.kept} = 1 .. Cardinality(e.kept)
  BY <1>2, <1>4, <1>6 DEF Orderly
<1>9. \A s, q \in e.kept : s.panel = q.panel => s = q
  BY <1>1, <1>8 DEF Orderly
<1>10. (\A s \in e.kept : s.channel = e.channel) /\ Cardinality(e.kept) <= e.panels
  BY <1>1, <1>4 DEF Orderly
<1>11. Orderly(e)
  BY <1>1, <1>4, <1>5, <1>7, <1>9, <1>10 DEF Orderly
<1> QED  BY <1>11 DEF e

\* A task that no longer looks at its extras, or never did, and knows less.
LEMMA OrderlyLess ==
  ASSUME NEW d \in TaskRecord, Orderly(d), NEW e \in TaskRecord,
         e.kept = d.kept, e.stored = d.stored, e.channel = d.channel,
         e.panels = d.panels, e.todo \subseteq d.todo \cup d.stored,
         e.pc = "extras" => d.pc = "extras" /\ e.todo \subseteq d.todo
  PROVE  Orderly(e)
<1>1. Distinct(e.stored \cup e.kept \cup e.todo)
  BY DEF Orderly, Distinct
<1> QED  BY <1>1 DEF Orderly

LEMMA FaultsFall ==
  ASSUME GuildTypeOK, UNCHANGED exists, UNCHANGED faults \/ Fault
  PROVE  GuildTypeOK'
BY GuildAssumption DEF GuildTypeOK, Fault

LEMMA TypesAndBooks ==
  ASSUME PanelTypeOK, Books, [PanelNext]_panelVars
  PROVE  PanelTypeOK' /\ Books'
<1> USE TaskKinds
<1>0. doing \in [PanelTasks -> TaskRecord] /\ \A t \in PanelTasks : Orderly(doing[t])
  BY TaskTypes DEF Books
<1>a. ASSUME NEW t \in PanelTasks, NEW d, Turns(t, d), Orderly(d)
      PROVE  \A u \in PanelTasks : Orderly(doing'[u])
  BY <1>a, <1>0 DEF Turns
<1>b. ASSUME NEW t, NEW d, Turns(t, d), UNCHANGED guildConfig, UNCHANGED faults \/ Fault,
             UNCHANGED panel, lock' \in {lock, "nobody"}, clean' \in BOOLEAN,
             untroubled' \in BOOLEAN, UNCHANGED posted
      PROVE  PanelTypeOK'
  <2>1. GuildTypeOK'
    BY <1>b, FaultsFall DEF PanelTypeOK, guildConfig
  <2> QED  BY <1>b, <2>1 DEF PanelTypeOK, Turns, TaskRecord, guildConfig, panel
<1>c. ASSUME NEW t \in PanelTasks, doing' = [doing EXCEPT ![t] = Off]
      PROVE  Turns(t, Off) /\ \A u \in PanelTasks : Orderly(doing'[u])
  <2>1. Turns(t, Off)
    BY <1>c, OffType, TurnsTo
  <2>2. Orderly(Off)
    BY OffType, OrderlyOff DEF Off, Distinct
  <2> QED  BY <2>1, <2>2, <1>a
<1>d. ASSUME Asked
      PROVE  PanelTypeOK' /\ Books'
  <2>1. CASE doing' = doing
    BY <2>1, <1>d DEF Asked, PanelTypeOK, GuildTypeOK, Books, panel
  <2>2. ASSUME NEW t \in Callers \cup {"runner"}, NEW q \in {"timer", "lock"},
               Turns(t, [doing[t] EXCEPT !.pc = q])
        PROVE  PanelTypeOK' /\ Books'
    <3> DEFINE d == [doing[t] EXCEPT !.pc = q]
    <3>1. d \in TaskRecord /\ doing[t] \in TaskRecord /\ t \in PanelTasks
      BY <1>0 DEF TaskRecord
    <3>2. /\ d.kept = doing[t].kept /\ d.stored = doing[t].stored /\ d.todo = doing[t].todo
          /\ d.channel = doing[t].channel /\ d.panels = doing[t].panels /\ d.pc = q
      BY <1>0 DEF TaskRecord
    <3>3. Orderly(d)
      BY <1>0, <3>1, <3>2, OrderlyLess
    <3>4. PanelTypeOK'
      BY <2>2, <1>d DEF Asked, PanelTypeOK, GuildTypeOK, Turns, TaskRecord, panel
    <3>5. rows' = rows
      BY <1>d DEF Asked, panel
    <3> QED  BY <2>2, <1>a, <3>1, <3>3, <3>4, <3>5 DEF Books
  <2> QED  BY <1>d, <2>1, <2>2 DEF Asked
<1>1. ASSUME NEW t \in Reconcilers, Start(t)
      PROVE  PanelTypeOK' /\ Books'
  <2>1. CASE chosen \in exists
    <3> DEFINE d == [Off EXCEPT !.pc = "panels", !.channel = chosen, !.panels = wanted,
                                !.stored = rows]
    <3>0. wanted \in Counts /\ rows \in SUBSET PanelRow
          /\ chosen \in Channels \cup {NoChannel}
      BY PanelAssumption DEF PanelTypeOK, Needs, Counts
    <3>1. d \in TaskRecord /\ d.kept = {} /\ d.todo = {} /\ d.stored = rows /\ d.pc = "panels"
      BY <3>0, OffFields DEF TaskRecord
    <3>2. Turns(t, d)
      BY <1>1, <2>1, <3>1, TurnsTo DEF Start
    <3>3. Orderly(d)
      BY <3>1, OrderlyOff DEF Books
    <3>4. PanelTypeOK'
      BY <1>1, <2>1, <3>2 DEF Start, PanelTypeOK, GuildTypeOK, Turns, TaskRecord,
                              guildConfig, panel
    <3> HIDE DEF d
    <3>5. \A u \in PanelTasks : Orderly(doing'[u])
      BY <1>a, <3>2, <3>3
    <3> QED  BY <1>1, <2>1, <3>4, <3>5 DEF Books, Start, panel
  <2>2. CASE chosen \notin exists
    <3>1. doing' = [doing EXCEPT ![t] = Off]
      BY <1>1, <2>2 DEF Start
    <3>2. rows' \in {rows, {}}
      BY <1>1, <2>2 DEF Start
    <3>3. PanelTypeOK'
      BY <1>1, <2>2, <3>1, <3>2, <1>c
         DEF Start, PanelTypeOK, GuildTypeOK, Turns, TaskRecord, guildConfig
    <3> QED  BY <3>1, <3>2, <3>3, <1>c DEF Books, Distinct
  <2> QED  BY <2>1, <2>2
<1>p. ASSUME NEW t \in PanelTasks, doing[t].pc # "extras", Next(t) <= doing[t].panels,
             doing[t].channel \in exists,
             NEW r, r \in Current(t) \cup NewMessage(t), Posts(t, r),
             UNCHANGED <<guildConfig, panel, lock>>, UNCHANGED faults \/ Fault,
             clean' \in BOOLEAN, untroubled' \in BOOLEAN
      PROVE  PanelTypeOK' /\ Books'
  <2> DEFINE d == [doing[t] EXCEPT !.kept = @ \cup {r}]
  <2>1. /\ r \in PanelRow /\ r.panel = Next(t) /\ r.channel = doing[t].channel
        /\ r \in doing[t].stored \/ FreeMessage(r.msg)
        /\ r.msg \in Messages /\ Turns(t, d)
        /\ posted' = [posted EXCEPT ![r.msg] = PanelMessage(r.channel, doing[t].panels)]
    BY <1>p, PostStep
  <2>2. \A s \in doing[t].stored \cup doing[t].kept \cup doing[t].todo :
          s.msg = r.msg => s = r
    BY <2>1, <1>0 DEF FreeMessage, Orderly, Distinct
  <2>3. Orderly(d)
    BY <2>1, <2>2, <1>0, <1>p, OrderlyPost DEF Next
  <2>4. \A u \in PanelTasks : Orderly(doing'[u])
    BY <2>1, <2>3, <1>a
  <2>5. PanelMessage(r.channel, doing[t].panels) \in [channel : Channels, text : Counts]
    BY <1>p, <1>0, <2>1 DEF PanelMessage, TaskRecord, PanelTypeOK, GuildTypeOK
  <2>6. PanelTypeOK'
    <3>1. posted' \in [Messages -> [channel : Channels, text : Counts] \cup {Gone}]
      BY <2>1, <2>5 DEF PanelTypeOK
    <3>2. GuildTypeOK'
      BY <1>p, FaultsFall DEF PanelTypeOK, guildConfig
    <3> QED  BY <1>p, <2>1, <3>1, <3>2 DEF PanelTypeOK, Turns, TaskRecord, guildConfig, panel
  <2> QED  BY <1>p, <2>4, <2>6 DEF Books, panel
<1>2. ASSUME NEW t \in Reconcilers, FetchPanel(t)
      PROVE  PanelTypeOK' /\ Books'
  <2>1. PICK r \in Current(t) \cup NewMessage(t) : Posts(t, r)
    BY <1>2 DEF FetchPanel
  <2>2. clean' \in BOOLEAN /\ untroubled' \in BOOLEAN
    BY <1>2 DEF FetchPanel, Acts, Troubles, PanelTypeOK
  <2> QED  BY <1>2, <2>1, <2>2, <1>p DEF FetchPanel
<1>3. ASSUME CreatePanel
      PROVE  PanelTypeOK' /\ Books'
  <2>1. PICK r \in NewMessage("set") : Posts("set", r)
    BY <1>3 DEF CreatePanel
  <2>2. clean' \in BOOLEAN /\ untroubled' \in BOOLEAN
    BY <1>3 DEF CreatePanel, Acts, PanelTypeOK
  <2> QED  BY <1>3, <2>1, <2>2, <1>p DEF CreatePanel
<1>4. ASSUME NEW t \in Reconcilers, ReconcileFails(t)
      PROVE  PanelTypeOK' /\ Books'
  <2>1. doing' = [doing EXCEPT ![t] = Off]
    BY <1>4 DEF ReconcileFails, Release
  <2>2. PanelTypeOK'
    BY <1>4, <2>1, <1>c, <1>b DEF ReconcileFails, Release, CallFails, Troubles
  <2> QED  BY <1>4, <2>1, <2>2, <1>c DEF Books, ReconcileFails, panel
<1>5. ASSUME NEW t \in Reconcilers, PanelsDone(t)
      PROVE  PanelTypeOK' /\ Books'
  <2> DEFINE d == [doing[t] EXCEPT !.pc = "extras", !.todo = Extras(t)]
  <2>1. /\ d \in TaskRecord /\ d.kept = doing[t].kept /\ d.stored = doing[t].stored
        /\ d.channel = doing[t].channel /\ d.panels = doing[t].panels
        /\ d.todo = Extras(t) /\ d.pc = "extras"
    BY <1>0 DEF TaskRecord, Extras
  <2>2. doing' = [doing EXCEPT ![t] = d]
    BY <1>5 DEF PanelsDone
  <2>3. Turns(t, d)
    BY <2>1, <2>2, TurnsTo
  <2>4. Cardinality(doing[t].kept) = doing[t].panels
    <3>1. Cardinality(doing[t].kept) \in Nat /\ doing[t].panels \in Nat
      BY <1>0, KeptCount, PanelAssumption DEF TaskRecord, Counts
    <3>2. doing[t].panels < Cardinality(doing[t].kept) + 1
      BY <1>5, <3>1 DEF PanelsDone, Next
    <3>3. Cardinality(doing[t].kept) <= doing[t].panels
      BY <1>0 DEF Orderly
    <3> QED  BY <3>1, <3>2, <3>3
  <2>5. Distinct(d.stored \cup d.kept \cup d.todo)
    BY <2>1, <1>0 DEF Orderly, Distinct, Extras
  <2>6. Orderly(d)
    <3> HIDE DEF d
    <3>1. \A r \in d.todo : r \in d.stored /\ (r.panel > d.panels \/ r.channel # d.channel)
      BY <2>1 DEF Extras
    <3> QED  BY <2>1, <2>4, <2>5, <3>1, <1>0 DEF Orderly
  <2>7. PanelTypeOK'
    BY <1>5, <2>3, <1>b DEF PanelsDone, Undisturbed, PanelTypeOK
  <2> HIDE DEF d
  <2>8. \A u \in PanelTasks : Orderly(doing'[u])
    BY <2>3, <2>6, <1>a
  <2> QED  BY <1>5, <2>7, <2>8 DEF Books, PanelsDone, panel
<1>6. ASSUME NEW t \in Reconcilers, Save(t)
      PROVE  PanelTypeOK' /\ Books'
  <2>1. doing' = [doing EXCEPT ![t] = Off] /\ lock' \in {lock, "nobody"}
    BY <1>6 DEF Save, Release
  <2>4. GuildTypeOK' /\ clean' \in BOOLEAN /\ untroubled' \in BOOLEAN
    BY <1>6, FaultsFall DEF Save, PanelTypeOK, guildConfig, Troubles
  <2>2. /\ rows' = doing[t].kept /\ rows' \in SUBSET PanelRow /\ Distinct(rows')
        /\ chosen' \in Channels \cup {NoChannel}
    BY <1>6, <1>0 DEF Save, TaskRecord, Orderly, Distinct, PanelTypeOK
  <2>3. PanelTypeOK'
    BY <1>6, <2>1, <2>2, <2>4, <1>c DEF Save, PanelTypeOK, Turns, TaskRecord, guildConfig
  <2> QED  BY <2>1, <2>2, <2>3, <1>c DEF Books
<1>7. ASSUME NEW t \in PanelTasks, DeleteOne(t)
      PROVE  PanelTypeOK' /\ Books'
  <2>1. PICK r \in doing[t].todo :
          /\ doing' = [doing EXCEPT ![t].todo = @ \ {r}]
          /\ \/ /\ posted' = [posted EXCEPT ![r.msg] = Gone]
                /\ Acts(t) /\ UNCHANGED faults
             \/ /\ Fault /\ Troubles
                /\ UNCHANGED posted
    BY <1>7 DEF DeleteOne
  <2> DEFINE d == [doing[t] EXCEPT !.todo = @ \ {r}]
  <2>2. /\ d \in TaskRecord /\ d.kept = doing[t].kept /\ d.stored = doing[t].stored
        /\ d.channel = doing[t].channel /\ d.panels = doing[t].panels
        /\ d.todo = doing[t].todo \ {r} /\ d.pc = doing[t].pc
    BY <1>0 DEF TaskRecord
  <2>3. doing' = [doing EXCEPT ![t] = d]
    BY <2>1
  <2>4. Turns(t, d)
    BY <2>2, <2>3, TurnsTo
  <2>5. Orderly(d)
    BY <1>0, <2>2, OrderlyLess
  <2>6. PanelTypeOK'
    <3>1. posted' \in [Messages -> [channel : Channels, text : Counts] \cup {Gone}]
      BY <2>1 DEF PanelTypeOK
    <3>2. GuildTypeOK'
      BY <1>7, <2>1, FaultsFall DEF DeleteOne, PanelTypeOK, guildConfig
    <3>3. clean' \in BOOLEAN /\ untroubled' \in BOOLEAN
      BY <2>1 DEF PanelTypeOK, Acts, Troubles
    <3> QED  BY <1>7, <2>4, <3>1, <3>2, <3>3
             DEF DeleteOne, PanelTypeOK, Turns, TaskRecord, guildConfig, panel
  <2> HIDE DEF d
  <2>7. \A u \in PanelTasks : Orderly(doing'[u])
    BY <2>4, <2>5, <1>a
  <2> QED  BY <1>7, <2>6, <2>7 DEF Books, DeleteOne, panel
<1>8. ASSUME NEW t \in {"set", "del"}, RemoveFails(t)
      PROVE  PanelTypeOK' /\ Books'
  <2>1. doing' = [doing EXCEPT ![t] = Off]
    BY <1>8 DEF RemoveFails
  <2>2. PanelTypeOK'
    BY <1>8, <2>1, <1>c, <1>b DEF RemoveFails, CallFails, Troubles
  <2> QED  BY <1>8, <2>1, <2>2, <1>c DEF Books, RemoveFails, panel
<1>9. ASSUME NEW t \in {"set", "del"}, PanelRemoved(t)
      PROVE  PanelTypeOK' /\ Books'
  <2>1. doing' = [doing EXCEPT ![t] = Off]
    BY <1>9 DEF PanelRemoved
  <2>2. rows' \in {rows, {}} /\ chosen' \in {chosen, NoChannel}
    BY <1>9 DEF PanelRemoved, panel
  <2>3. PanelTypeOK'
    BY <1>9, <2>1, <2>2, <1>c
       DEF PanelRemoved, Acts, PanelTypeOK, GuildTypeOK, Turns, TaskRecord, guildConfig
  <2> QED  BY <2>1, <2>2, <2>3, <1>c DEF Books, Distinct
<1>10. ASSUME NEW c \in Channels, NEW t \in Callers, PanelChannelDeleted(c, t)
       PROVE  PanelTypeOK' /\ Books'
  <2>1. posted' \in [Messages -> [channel : Channels, text : Counts] \cup {Gone}]
    BY <1>10 DEF PanelChannelDeleted, PanelTypeOK
  <2>2. GuildTypeOK'
    BY <1>10 DEF PanelChannelDeleted, PanelTypeOK, GuildTypeOK
  <2>3. doing' \in [PanelTasks -> TaskRecord] /\ \A u \in PanelTasks : Orderly(doing'[u])
    <3>1. CASE chosen = c
      <4> DEFINE d == [doing[t] EXCEPT !.pc = "lock"]
      <4>1. /\ d \in TaskRecord /\ d.kept = doing[t].kept /\ d.stored = doing[t].stored
            /\ d.channel = doing[t].channel /\ d.panels = doing[t].panels
            /\ d.todo = doing[t].todo /\ d.pc = "lock"
        BY <1>0 DEF TaskRecord
      <4>2. doing' = [doing EXCEPT ![t] = d]
        BY <1>10, <3>1 DEF PanelChannelDeleted, Wants
      <4>3. Turns(t, d)
        BY <4>1, <4>2, TurnsTo
      <4>4. Orderly(d)
        BY <1>0, <4>1, OrderlyLess
      <4> HIDE DEF d
      <4> QED  BY <4>3, <4>4, <1>a DEF Turns
    <3>2. CASE chosen # c
      BY <1>10, <3>2, <1>0 DEF PanelChannelDeleted
    <3> QED  BY <3>1, <3>2
  <2>4. PanelTypeOK'
    BY <1>10, <2>1, <2>2, <2>3
       DEF PanelChannelDeleted, PanelTypeOK, TaskRecord, panel, Troubles
  <2> QED  BY <1>10, <2>3, <2>4 DEF Books, PanelChannelDeleted, panel
<1>11. ASSUME NEW c \in Channels, SetChannel(c)
       PROVE  PanelTypeOK' /\ Books'
  <2> DEFINE d == IF chosen = c THEN [Off EXCEPT !.pc = "lock"]
                  ELSE [Off EXCEPT !.pc = "create", !.channel = c, !.panels = wanted,
                                   !.stored = rows]
  <2>0. wanted \in Counts /\ rows \in SUBSET PanelRow
    BY PanelAssumption DEF PanelTypeOK, Needs, Counts
  <2>1. d \in TaskRecord /\ d.kept = {} /\ d.pc # "extras" /\ d.todo = {}
        /\ d.stored \in {rows, {}}
    <3>1. CASE chosen = c
      BY <3>1, OffFields DEF TaskRecord
    <3>2. CASE chosen # c
      BY <3>2, <2>0, OffFields DEF TaskRecord
    <3> QED  BY <3>1, <3>2
  <2>2. doing' = [doing EXCEPT !["set"] = d]
    BY <1>11 DEF SetChannel
  <2>3. Turns("set", d)
    BY <2>1, <2>2, TurnsTo
  <2>4. Orderly(d)
    BY <2>1, OrderlyOff DEF Books, Distinct
  <2>5. PanelTypeOK'
    BY <1>11, <2>3, <1>b DEF SetChannel, Undisturbed, PanelTypeOK
  <2> HIDE DEF d
  <2>6. \A u \in PanelTasks : Orderly(doing'[u])
    BY <2>3, <2>4, <1>a
  <2> QED  BY <1>11, <2>5, <2>6 DEF Books, SetChannel, panel
<1>12. ASSUME Restart
       PROVE  PanelTypeOK' /\ Books'
  <2>1. doing' \in [PanelTasks -> TaskRecord] /\ \A u \in PanelTasks : doing'[u] = Off
    BY <1>12, OffType DEF Restart
  <2>2. Orderly(Off)
    BY OffType, OrderlyOff DEF Off, Distinct
  <2>3. PanelTypeOK'
    BY <1>12, <2>1 DEF Restart, PanelTypeOK, GuildTypeOK, TaskRecord, guildConfig, panel,
                       Troubles
  <2> QED  BY <1>12, <2>1, <2>2, <2>3 DEF Books, Restart, panel
<1>13. ASSUME DisableChannel
       PROVE  PanelTypeOK' /\ Books'
  <2> DEFINE d == [Off EXCEPT !.pc = "remove", !.todo = rows]
  <2>1. /\ d \in TaskRecord /\ d.kept = {} /\ d.pc # "extras" /\ d.todo = rows
        /\ d.stored = {}
    BY OffType DEF Off, TaskRecord, PanelTypeOK
  <2>2. Turns("del", d)
    BY <1>13, <2>1, TurnsTo DEF DisableChannel
  <2>3. Orderly(d)
    BY <2>1, OrderlyOff DEF Books
  <2>4. PanelTypeOK'
    BY <1>13, <2>2, <1>b DEF DisableChannel, Undisturbed, PanelTypeOK
  <2> HIDE DEF d
  <2>5. \A u \in PanelTasks : Orderly(doing'[u])
    BY <2>2, <2>3, <1>a
  <2> QED  BY <1>13, <2>4, <2>5 DEF Books, DisableChannel, panel
<1>14. ASSUME CreateFails
       PROVE  PanelTypeOK' /\ Books'
  <2> DEFINE d == [doing["set"] EXCEPT !.pc = "undo"]
  <2>1. /\ d \in TaskRecord /\ d.kept = doing["set"].kept /\ d.stored = doing["set"].stored
        /\ d.channel = doing["set"].channel /\ d.panels = doing["set"].panels
        /\ d.todo = doing["set"].todo /\ d.pc = "undo"
    BY <1>0 DEF TaskRecord
  <2>2. doing' = [doing EXCEPT !["set"] = d]
    BY <1>14 DEF CreateFails
  <2>3. Turns("set", d)
    BY <2>1, <2>2, TurnsTo
  <2>4. Orderly(d)
    BY <1>0, <2>1, OrderlyLess
  <2>5. PanelTypeOK'
    BY <1>14, <2>3, <1>b DEF CreateFails, CallFails, Troubles
  <2> HIDE DEF d
  <2>6. \A u \in PanelTasks : Orderly(doing'[u])
    BY <2>3, <2>4, <1>a
  <2> QED  BY <1>14, <2>5, <2>6 DEF Books, CreateFails, panel
<1>15. ASSUME Undo
       PROVE  PanelTypeOK' /\ Books'
  <2>1. PICK left \in SUBSET doing["set"].kept :
          /\ Cardinality(left) <= faults
          /\ faults' = faults - Cardinality(left)
          /\ posted' = [m \in Messages |->
               IF m \in {r.msg : r \in Undone(left)} THEN Gone ELSE posted[m]]
    BY <1>15 DEF Undo
  <2>2. IsFiniteSet(doing["set"].kept)
    BY <1>0 DEF Orderly
  <2>3. Cardinality(left) \in Nat
    BY <2>2, FS_Subset, FS_CardinalityType
  <2>4. posted' \in [Messages -> [channel : Channels, text : Counts] \cup {Gone}]
    BY <2>1 DEF PanelTypeOK
  <2>5. GuildTypeOK'
    BY <1>15, <2>1, <2>3, GuildAssumption DEF Undo, PanelTypeOK, GuildTypeOK, guildConfig
  <2>6. doing' = [doing EXCEPT !["set"] = Off]
    BY <1>15 DEF Undo
  <2>7. PanelTypeOK'
    BY <1>15, <2>4, <2>5, <2>6, <1>c
       DEF Undo, PanelTypeOK, Turns, TaskRecord, guildConfig, panel
  <2> QED  BY <1>15, <2>6, <2>7, <1>c DEF Books, Undo, panel
<1>16. ASSUME Created
       PROVE  PanelTypeOK' /\ Books'
  <2> DEFINE d == [doing["set"] EXCEPT !.pc = "remove", !.todo = doing["set"].stored]
  <2>1. /\ d \in TaskRecord /\ d.kept = doing["set"].kept /\ d.stored = doing["set"].stored
        /\ d.channel = doing["set"].channel /\ d.panels = doing["set"].panels
        /\ d.todo = doing["set"].stored /\ d.pc = "remove"
    BY <1>0 DEF TaskRecord
  <2>2. doing' = [doing EXCEPT !["set"] = d]
    BY <1>16 DEF Created
  <2>3. Turns("set", d)
    BY <2>1, <2>2, TurnsTo
  <2>4. Orderly(d)
    BY <1>0, <2>1, OrderlyLess
  <2>5. /\ rows' = doing["set"].kept /\ rows' \in SUBSET PanelRow /\ Distinct(rows')
        /\ chosen' \in Channels \cup {NoChannel}
    BY <1>16, <1>0 DEF Created, TaskRecord, Orderly, Distinct
  <2>6. PanelTypeOK'
    BY <1>16, <2>3, <2>5
       DEF Created, Acts, PanelTypeOK, GuildTypeOK, Turns, TaskRecord, guildConfig
  <2> HIDE DEF d
  <2>7. \A u \in PanelTasks : Orderly(doing'[u])
    BY <2>3, <2>4, <1>a
  <2> QED  BY <2>5, <2>6, <2>7 DEF Books
<1>17. ASSUME PersistFails
       PROVE  PanelTypeOK' /\ Books'
  <2>1. doing' = [doing EXCEPT !["set"] = Off]
    BY <1>17 DEF PersistFails
  <2>2. /\ rows' \in {rows, doing["set"].kept} /\ rows' \in SUBSET PanelRow
        /\ Distinct(rows') /\ chosen' \in Channels \cup {NoChannel}
    BY <1>17, <1>0 DEF PersistFails, TaskRecord, Orderly, Distinct, PanelTypeOK, Books, panel
  <2>3. GuildTypeOK'
    BY <1>17, FaultsFall DEF PersistFails, PanelTypeOK, guildConfig
  <2>4. PanelTypeOK'
    BY <1>17, <2>1, <2>2, <2>3, <1>c
       DEF PersistFails, Troubles, PanelTypeOK, Turns, TaskRecord, guildConfig
  <2> QED  BY <2>1, <2>2, <2>4, <1>c DEF Books
<1> QED
  BY StepCases, <1>d, <1>1, <1>2, <1>3, <1>4, <1>5, <1>6, <1>7, <1>8, <1>9, <1>10, <1>11,
     <1>12, <1>13, <1>14, <1>15, <1>16, <1>17 DEF ReconcilePanel

LEMMA PanelStarts ==
  ASSUME PanelInit
  PROVE  PanelTypeOK /\ Books
<1>1. Orderly(Off)
  BY OffType, OrderlyOff DEF Off, Distinct
<1>2. PanelTypeOK
  <2>1. GuildTypeOK
    BY GuildAssumption DEF PanelInit, GuildInit, GuildTypeOK
  <2>2. doing \in [PanelTasks -> TaskRecord] /\ 1 \in Needs
    BY OffType, PanelAssumption DEF PanelInit, Needs
  <2> QED  BY <2>1, <2>2 DEF PanelInit, PanelTypeOK, TaskRecord
<1> QED  BY <1>1, <1>2 DEF PanelInit, Books, Distinct

\* Whatever meets, rows, messages and tasks keep their types, and no message is
\* recorded for two panels.
THEOREM PanelTypesHold == PanelSpec => [](PanelTypeOK /\ Distinct(rows))
<1>1. PanelInit => PanelTypeOK /\ Books
  BY PanelStarts
<1>2. PanelTypeOK /\ Books /\ [PanelNext]_panelVars => PanelTypeOK' /\ Books'
  BY TypesAndBooks
<1>3. Books => Distinct(rows)
  BY DEF Books
<1> QED  BY <1>1, <1>2, <1>3, PTL DEF PanelSpec

-----------------------------------------------------------------------------
(* Who may be where.                                                         *)

\* What a step leaves of the task that takes it.
LEMMA TurnOfStep ==
  ASSUME PanelTypeOK, NEW t \in PanelTasks
  PROVE  /\ ReconcileFails(t) \/ Save(t) \/ RemoveFails(t) \/ PanelRemoved(t) => Turns(t, Off)
         /\ t = "set" /\ (Undo \/ PersistFails) => Turns(t, Off)
         /\ Start(t) /\ chosen \notin exists => Turns(t, Off)
         /\ Start(t) /\ chosen \in exists =>
              Turns(t, [Off EXCEPT !.pc = "panels", !.channel = chosen, !.panels = wanted,
                                   !.stored = rows])
         /\ PanelsDone(t) =>
              Turns(t, [doing[t] EXCEPT !.pc = "extras", !.todo = Extras(t)])
         /\ t = "set" /\ CreateFails => Turns(t, [doing[t] EXCEPT !.pc = "undo"])
         /\ t = "set" /\ Created =>
              Turns(t, [doing[t] EXCEPT !.pc = "remove", !.todo = doing[t].stored])
         /\ t = "del" /\ DisableChannel =>
              Turns(t, [Off EXCEPT !.pc = "remove", !.todo = rows])
<1>0. doing[t] \in TaskRecord
  BY TaskTypes
<1>1. doing' = [doing EXCEPT ![t] = Off] => Turns(t, Off)
  BY OffType, TurnsTo
<1>2. /\ ReconcileFails(t) \/ Save(t) \/ RemoveFails(t) \/ PanelRemoved(t) => Turns(t, Off)
      /\ t = "set" /\ (Undo \/ PersistFails) => Turns(t, Off)
      /\ Start(t) /\ chosen \notin exists => Turns(t, Off)
  BY <1>1 DEF ReconcileFails, Save, Release, RemoveFails, PanelRemoved, Undo, PersistFails,
              Start
<1>3. ASSUME Start(t), chosen \in exists
      PROVE  Turns(t, [Off EXCEPT !.pc = "panels", !.channel = chosen, !.panels = wanted,
                                  !.stored = rows])
  <2> DEFINE d == [Off EXCEPT !.pc = "panels", !.channel = chosen, !.panels = wanted,
                              !.stored = rows]
  <2>1. wanted \in Counts /\ rows \in SUBSET PanelRow /\ chosen \in Channels \cup {NoChannel}
    BY PanelAssumption DEF PanelTypeOK, Needs, Counts
  <2>2. d \in TaskRecord
    BY <2>1, OffFields DEF TaskRecord
  <2>3. doing' = [doing EXCEPT ![t] = d]
    BY <1>3 DEF Start
  <2> QED  BY <2>2, <2>3, TurnsTo
<1>4. ASSUME PanelsDone(t)
      PROVE  Turns(t, [doing[t] EXCEPT !.pc = "extras", !.todo = Extras(t)])
  <2>1. [doing[t] EXCEPT !.pc = "extras", !.todo = Extras(t)] \in TaskRecord
    BY <1>0 DEF TaskRecord, Extras
  <2>2. doing' = [doing EXCEPT ![t] = [doing[t] EXCEPT !.pc = "extras", !.todo = Extras(t)]]
    BY <1>4 DEF PanelsDone
  <2> QED  BY <2>1, <2>2, TurnsTo
<1>5. ASSUME t = "set", CreateFails
      PROVE  Turns(t, [doing[t] EXCEPT !.pc = "undo"])
  <2>1. [doing[t] EXCEPT !.pc = "undo"] \in TaskRecord
    BY <1>0 DEF TaskRecord
  <2>2. doing' = [doing EXCEPT ![t] = [doing[t] EXCEPT !.pc = "undo"]]
    BY <1>5 DEF CreateFails
  <2> QED  BY <2>1, <2>2, TurnsTo
<1>6. ASSUME t = "set", Created
      PROVE  Turns(t, [doing[t] EXCEPT !.pc = "remove", !.todo = doing[t].stored])
  <2>1. [doing[t] EXCEPT !.pc = "remove", !.todo = doing[t].stored] \in TaskRecord
    BY <1>0 DEF TaskRecord
  <2>2. doing' = [doing EXCEPT ![t] =
                    [doing[t] EXCEPT !.pc = "remove", !.todo = doing[t].stored]]
    BY <1>6 DEF Created
  <2> QED  BY <2>1, <2>2, TurnsTo
<1>7. ASSUME t = "del", DisableChannel
      PROVE  Turns(t, [Off EXCEPT !.pc = "remove", !.todo = rows])
  <2>1. [Off EXCEPT !.pc = "remove", !.todo = rows] \in TaskRecord
    BY OffFields DEF TaskRecord, PanelTypeOK
  <2>2. doing' = [doing EXCEPT ![t] = [Off EXCEPT !.pc = "remove", !.todo = rows]]
    BY <1>7 DEF DisableChannel
  <2> QED  BY <2>1, <2>2, TurnsTo
<1> QED  BY <1>2, <1>3, <1>4, <1>5, <1>6, <1>7

LEMMA SetTurn ==
  ASSUME PanelTypeOK, NEW c, SetChannel(c)
  PROVE  IF chosen = c THEN Turns("set", [Off EXCEPT !.pc = "lock"])
         ELSE Turns("set", [Off EXCEPT !.pc = "create", !.channel = c, !.panels = wanted,
                                       !.stored = rows])
<1>1. /\ wanted \in Counts /\ rows \in SUBSET PanelRow /\ c \in Channels
      /\ "set" \in PanelTasks
  BY PanelAssumption, TaskKinds DEF PanelTypeOK, GuildTypeOK, Needs, Counts, SetChannel
<1>2. CASE chosen = c
  <2>1. [Off EXCEPT !.pc = "lock"] \in TaskRecord
    BY OffFields DEF TaskRecord
  <2> QED  BY <1>1, <1>2, <2>1, TurnsTo DEF SetChannel
<1>3. CASE chosen # c
  <2> DEFINE d == [Off EXCEPT !.pc = "create", !.channel = c, !.panels = wanted,
                              !.stored = rows]
  <2>1. d \in TaskRecord
    BY <1>1, OffFields DEF TaskRecord
  <2>2. doing' = [doing EXCEPT !["set"] = d]
    BY <1>3 DEF SetChannel
  <2>3. Turns("set", d)
    BY <1>1, <2>1, <2>2, TurnsTo
  <2> QED  BY <1>3, <2>3
<1> QED  BY <1>2, <1>3

LEMMA DeleteTurn ==
  ASSUME PanelTypeOK, NEW t \in PanelTasks, DeleteOne(t)
  PROVE  \E r \in doing[t].todo :
           /\ Turns(t, [doing[t] EXCEPT !.todo = @ \ {r}])
           /\ \/ /\ posted' = [posted EXCEPT ![r.msg] = Gone]
                 /\ Acts(t) /\ UNCHANGED faults
              \/ /\ Troubles
                 /\ UNCHANGED posted
<1>1. PICK r \in doing[t].todo :
        /\ doing' = [doing EXCEPT ![t].todo = @ \ {r}]
        /\ \/ /\ posted' = [posted EXCEPT ![r.msg] = Gone]
              /\ Acts(t) /\ UNCHANGED faults
           \/ /\ Fault /\ Troubles
              /\ UNCHANGED posted
  BY DEF DeleteOne
<1>2. [doing[t] EXCEPT !.todo = @ \ {r}] \in TaskRecord
  BY TaskTypes DEF TaskRecord
<1>3. doing' = [doing EXCEPT ![t] = [doing[t] EXCEPT !.todo = @ \ {r}]]
  BY <1>1
<1>4. Turns(t, [doing[t] EXCEPT !.todo = @ \ {r}])
  BY <1>2, <1>3, TurnsTo
<1> QED  BY <1>1, <1>4

LEMMA FetchTurn ==
  ASSUME PanelTypeOK, Books, NEW t \in PanelTasks, FetchPanel(t) \/ (t = "set" /\ CreatePanel)
  PROVE  \E r \in PanelRow :
           /\ r.panel = Next(t) /\ r.channel = doing[t].channel
           /\ r.msg \in Messages
           /\ r \in doing[t].stored \/ FreeMessage(r.msg)
           /\ Turns(t, [doing[t] EXCEPT !.kept = @ \cup {r}])
           /\ posted' = [posted EXCEPT ![r.msg] = PanelMessage(r.channel, doing[t].panels)]
           /\ \/ Acts(t) /\ IF Current(t) = {} \/ doing[t].pc = "create"
                             THEN FreeMessage(r.msg) ELSE r \in doing[t].stored
              \/ Troubles /\ doing[t].pc = "panels"
<1>1. Next(t) <= doing[t].panels /\ doing[t].channel \in exists
  BY DEF FetchPanel, CreatePanel
<1>2. PICK r \in Current(t) \cup NewMessage(t) :
        /\ Posts(t, r)
        /\ \/ Acts(t) /\ r \in IF Current(t) = {} \/ doing[t].pc = "create"
                                THEN NewMessage(t) ELSE Current(t)
           \/ Troubles /\ doing[t].pc = "panels"
  <2>1. CASE FetchPanel(t)
    BY <2>1 DEF FetchPanel
  <2>2. CASE t = "set" /\ CreatePanel
    BY <2>2 DEF CreatePanel
  <2> QED  BY <2>1, <2>2
<1>3. /\ r \in NewMessage(t) => FreeMessage(r.msg)
      /\ r \in Current(t) => r \in doing[t].stored
  BY DEF NewMessage, Current
<1> QED  BY <1>1, <1>2, <1>3, PostStep

LEMMA RolesKept ==
  ASSUME PanelTypeOK, Books, Roles, [PanelNext]_panelVars
  PROVE  Roles'
<1> USE TaskKinds
<1>0. doing \in [PanelTasks -> TaskRecord]
  BY TaskTypes
<1>a. ASSUME NEW t \in PanelTasks, NEW d, Turns(t, d), UNCHANGED lock,
             d.pc = doing[t].pc
      PROVE  Roles'
  BY <1>a DEF Turns, Roles
<1>b. ASSUME NEW t \in PanelTasks, Turns(t, Off), lock' = IF lock = t THEN "nobody" ELSE lock
      PROVE  Roles'
  BY <1>b, OffFields DEF Turns, Roles
<1>1. CASE Asked
  <2>1. CASE doing' = doing
    BY <1>1, <2>1 DEF Asked, Roles
  <2>2. ASSUME NEW t \in Callers \cup {"runner"}, NEW q \in {"timer", "lock"},
               doing[t].pc \in {"off", "timer"}, Turns(t, [doing[t] EXCEPT !.pc = q])
        PROVE  Roles'
    <3> DEFINE d == [doing[t] EXCEPT !.pc = q]
    <3>1. d.pc \in {"timer", "lock"} /\ Turns(t, d)
      BY <1>0, <2>2 DEF TaskRecord
    <3>2. UNCHANGED lock /\ t # "set" /\ t # "del" /\ t \in PanelTasks
      BY <1>1 DEF Asked
    <3> HIDE DEF d
    <3> QED  BY <2>2, <3>1, <3>2 DEF Turns, Roles
  <2> QED  BY <1>1, <2>1, <2>2 DEF Asked
<1>2. ASSUME NEW t \in Reconcilers, Start(t)
      PROVE  Roles'
  <2>1. doing[t].pc = "lock" /\ lock = "nobody"
    BY <1>2 DEF Start
  <2>2. CASE chosen \in exists
    <3> DEFINE d == [Off EXCEPT !.pc = "panels", !.channel = chosen, !.panels = wanted,
                                !.stored = rows]
    <3>1. d.pc = "panels" /\ lock' = t
      BY <1>2, <2>2, OffFields DEF TaskRecord, Start
    <3>2. Turns(t, d)
      BY <1>2, <2>2, TurnOfStep
    <3> HIDE DEF d
    <3> QED  BY <2>1, <3>1, <3>2 DEF Turns, Roles
  <2>3. CASE chosen \notin exists
    BY <1>2, <2>1, <2>3, <1>b, TurnOfStep DEF Start
  <2> QED  BY <2>2, <2>3
<1>3. ASSUME NEW t \in PanelTasks, FetchPanel(t) \/ (t = "set" /\ CreatePanel)
      PROVE  Roles'
  <2>1. PICK r \in PanelRow : Turns(t, [doing[t] EXCEPT !.kept = @ \cup {r}])
    BY <1>3, FetchTurn
  <2>2. [doing[t] EXCEPT !.kept = @ \cup {r}].pc = doing[t].pc
    BY <1>0 DEF TaskRecord
  <2> QED  BY <1>3, <2>1, <2>2, <1>a DEF FetchPanel, CreatePanel
<1>4. ASSUME NEW t \in Reconcilers, ReconcileFails(t) \/ Save(t)
      PROVE  Roles'
  BY <1>4, <1>b, TurnOfStep DEF ReconcileFails, Save, Release
<1>5. ASSUME NEW t \in Reconcilers, PanelsDone(t)
      PROVE  Roles'
  <2> DEFINE d == [doing[t] EXCEPT !.pc = "extras", !.todo = Extras(t)]
  <2>1. d.pc = "extras" /\ Turns(t, d) /\ doing[t].pc = "panels" /\ UNCHANGED lock
    BY <1>0, <1>5, TurnOfStep DEF TaskRecord, PanelsDone
  <2> HIDE DEF d
  <2> QED  BY <2>1 DEF Turns, Roles
<1>6. ASSUME NEW t \in PanelTasks, DeleteOne(t)
      PROVE  Roles'
  <2>1. PICK r : Turns(t, [doing[t] EXCEPT !.todo = @ \ {r}])
    BY <1>6, DeleteTurn
  <2>2. [doing[t] EXCEPT !.todo = @ \ {r}].pc = doing[t].pc
    BY <1>0 DEF TaskRecord
  <2> QED  BY <1>6, <2>1, <2>2, <1>a DEF DeleteOne
<1>7. ASSUME NEW t \in {"set", "del"}, RemoveFails(t) \/ PanelRemoved(t)
      PROVE  Roles'
  <2>1. doing[t].pc = "remove" /\ UNCHANGED lock
    BY <1>7 DEF RemoveFails, PanelRemoved
  <2>2. lock # t
    BY <2>1 DEF Roles
  <2> QED  BY <1>7, <2>1, <2>2, <1>b, TurnOfStep
<1>8. ASSUME NEW c \in Channels, NEW t \in Callers, PanelChannelDeleted(c, t)
      PROVE  Roles'
  <2>1. CASE chosen = c
    <3> DEFINE d == [doing[t] EXCEPT !.pc = "lock"]
    <3>1. d.pc = "lock" /\ d \in TaskRecord
      BY <1>0 DEF TaskRecord
    <3>2. doing' = [doing EXCEPT ![t] = d] /\ doing[t].pc = "off" /\ UNCHANGED lock
      BY <1>8, <2>1 DEF PanelChannelDeleted, Wants
    <3>3. Turns(t, d)
      BY <3>1, <3>2, TurnsTo
    <3> HIDE DEF d
    <3> QED  BY <3>1, <3>2, <3>3 DEF Turns, Roles
  <2>2. CASE chosen # c
    BY <1>8, <2>2 DEF PanelChannelDeleted, Roles
  <2> QED  BY <2>1, <2>2
<1>9. ASSUME NEW c \in Channels, SetChannel(c)
      PROVE  Roles'
  <2>1. doing["set"].pc = "off" /\ UNCHANGED lock
    BY <1>9 DEF SetChannel
  <2>2. PICK d : Turns("set", d) /\ d.pc \in {"lock", "create"}
    <3>1. [Off EXCEPT !.pc = "lock"].pc = "lock"
      BY OffFields DEF TaskRecord
    <3>2. [Off EXCEPT !.pc = "create", !.channel = c, !.panels = wanted,
                      !.stored = rows].pc = "create"
      BY OffFields DEF TaskRecord
    <3> QED  BY <1>9, <3>1, <3>2, SetTurn
  <2> QED  BY <2>1, <2>2 DEF Turns, Roles
<1>10. CASE Restart
  BY <1>10 DEF Restart, Roles, Off
<1>11. CASE DisableChannel
  <2>1. [Off EXCEPT !.pc = "remove", !.todo = rows].pc = "remove"
    BY OffFields DEF TaskRecord
  <2>2. Turns("del", [Off EXCEPT !.pc = "remove", !.todo = rows])
    BY <1>11, TurnOfStep
  <2> QED  BY <1>11, <2>1, <2>2 DEF Turns, Roles, DisableChannel
<1>12. CASE CreateFails
  <2>1. [doing["set"] EXCEPT !.pc = "undo"].pc = "undo"
    BY <1>0 DEF TaskRecord
  <2>2. Turns("set", [doing["set"] EXCEPT !.pc = "undo"])
    BY <1>12, TurnOfStep
  <2> QED  BY <1>12, <2>1, <2>2 DEF Turns, Roles, CreateFails
<1>13. CASE Undo \/ PersistFails
  <2>1. doing["set"].pc \in {"undo", "create"} /\ UNCHANGED lock
    BY <1>13 DEF Undo, PersistFails
  <2>2. lock # "set"
    BY <2>1 DEF Roles
  <2> QED  BY <1>13, <2>1, <2>2, <1>b, TurnOfStep
<1>14. CASE Created
  <2> DEFINE d == [doing["set"] EXCEPT !.pc = "remove", !.todo = doing["set"].stored]
  <2>1. d.pc = "remove"
    BY <1>0 DEF TaskRecord
  <2>2. Turns("set", d)
    BY <1>14, TurnOfStep
  <2> HIDE DEF d
  <2> QED  BY <1>14, <2>1, <2>2 DEF Turns, Roles, Created
<1> QED
  BY StepCases, <1>1, <1>2, <1>3, <1>4, <1>5, <1>6, <1>7, <1>8, <1>9, <1>10, <1>11, <1>12,
     <1>13, <1>14 DEF ReconcilePanel

-----------------------------------------------------------------------------
(* /setroleschannel.                                                         *)

\* The rows of a message known to another task, or on record.
Known(u, m) == m \in Msgs(doing[u].stored \cup doing[u].kept \cup doing[u].todo)

LEMMA FreeIsUnknown ==
  ASSUME NEW m, FreeMessage(m)
  PROVE  m \notin Msgs(rows) /\ \A u \in PanelTasks : ~Known(u, m)
BY DEF FreeMessage, Msgs, Known

\* A step of another task learns of messages that are on record, that it knew, or that
\* were nobody's.
LEMMA PrivateFrame ==
  ASSUME PanelTypeOK, Private, doing'["set"] = doing["set"], exists' \subseteq exists,
         \A m : m \in Msgs(rows)' =>
           m \in Msgs(rows) \/ \E u \in PanelTasks \ {"set"} : Known(u, m),
         \A u \in PanelTasks \ {"set"} : \A m : Known(u, m)' =>
           Known(u, m) \/ m \in Msgs(rows) \/ FreeMessage(m),
         doing["set"].pc = "create" /\ doing["set"].channel \in exists' =>
           \A k \in doing["set"].kept : posted'[k.msg] = posted[k.msg]
  PROVE  Private'
<1> DEFINE set == doing["set"]
<1>1. ASSUME set.pc \in {"create", "undo"}, NEW k \in set.kept
      PROVE  /\ k.msg \notin Msgs(rows)' /\ k.msg \notin Msgs(set.stored)
             /\ \A u \in PanelTasks \ {"set"} : ~Known(u, k.msg)'
  <2>1. /\ k.msg \notin Msgs(rows) /\ k.msg \notin Msgs(set.stored)
        /\ \A u \in PanelTasks \ {"set"} : ~Known(u, k.msg)
    BY <1>1 DEF Private, Known
  <2>2. ~FreeMessage(k.msg)
    BY TaskKinds DEF FreeMessage
  <2> QED  BY <2>1, <2>2
<1> QED  BY <1>1 DEF Private, Known, Msgs

LEMMA PrivateKept ==
  ASSUME PanelTypeOK, Books, Roles, Private, [PanelNext]_panelVars
  PROVE  Private'
<1> USE TaskKinds
<1>0. doing \in [PanelTasks -> TaskRecord]
  BY TaskTypes
<1>a. ASSUME NEW d, Turns("set", d), d.pc \notin {"create", "undo", "remove"}
      PROVE  Private'
  BY <1>a DEF Turns, Private
<1>b. ASSUME UNCHANGED doing, UNCHANGED <<exists, rows, posted>>
      PROVE  Private'
  BY <1>b DEF Private
<1>1. CASE Asked
  <2>1. UNCHANGED <<exists, rows, posted>>
    BY <1>1 DEF Asked, panel
  <2>2. ASSUME NEW t \in Callers \cup {"runner"}, NEW q, Turns(t, [doing[t] EXCEPT !.pc = q])
        PROVE  Private'
    <3>1. \A u \in PanelTasks : \A m : Known(u, m)' => Known(u, m)
      BY <2>2, <1>0 DEF Turns, TaskRecord, Known, Msgs
    <3>2. doing'["set"] = doing["set"]
      BY <2>2 DEF Turns
    <3> QED  BY <2>1, <3>1, <3>2, PrivateFrame DEF Msgs
  <2> QED  BY <1>1, <1>b, <2>1, <2>2 DEF Asked
<1>2. ASSUME NEW t \in PanelTasks, t # "set", Turns(t, Off), UNCHANGED <<exists, posted>>,
             rows' \in {rows, {}, doing[t].kept}
      PROVE  Private'
  <2>1. \A u \in PanelTasks : \A m : Known(u, m)' => Known(u, m)
    BY <1>2, OffFields DEF Turns, Known, Msgs
  <2>2. \A m : m \in Msgs(rows)' => m \in Msgs(rows) \/ Known(t, m)
    BY <1>2 DEF Known, Msgs
  <2>3. doing'["set"] = doing["set"]
    BY <1>2 DEF Turns
  <2> QED  BY <1>2, <2>1, <2>2, <2>3, PrivateFrame
<1>3. ASSUME Turns("set", Off)
      PROVE  Private'
  BY <1>3, <1>a, OffFields
<1>4. ASSUME NEW t \in Reconcilers, Start(t)
      PROVE  Private'
  <2>1. CASE chosen \notin exists
    <3>1. Turns(t, Off) /\ rows' \in {rows, {}} /\ UNCHANGED <<exists, posted>>
      BY <1>4, <2>1, TurnOfStep DEF Start, guildConfig
    <3> QED  BY <3>1, <1>2, <1>3
  <2>2. CASE chosen \in exists
    <3> DEFINE d == [Off EXCEPT !.pc = "panels", !.channel = chosen, !.panels = wanted,
                                !.stored = rows]
    <3>1. Turns(t, d) /\ UNCHANGED <<exists, posted, rows>>
      BY <1>4, <2>2, TurnOfStep DEF Start, guildConfig, panel
    <3>2. d.pc = "panels" /\ d.stored = rows /\ d.kept = {} /\ d.todo = {}
      BY OffFields DEF TaskRecord
    <3> HIDE DEF d
    <3>3. CASE t = "set"
      BY <3>1, <3>2, <3>3, <1>a
    <3>4. CASE t # "set"
      <4>1. \A u \in PanelTasks : \A m : Known(u, m)' => Known(u, m) \/ m \in Msgs(rows)
        BY <3>1, <3>2 DEF Turns, Known, Msgs
      <4>2. doing'["set"] = doing["set"] /\ Msgs(rows)' = Msgs(rows)
        BY <3>1, <3>4 DEF Turns, Msgs
      <4> QED  BY <3>1, <4>1, <4>2, PrivateFrame
    <3> QED  BY <3>3, <3>4
  <2> QED  BY <2>1, <2>2
<1>5. ASSUME NEW t \in Reconcilers, FetchPanel(t)
      PROVE  Private'
  <2>1. doing[t].pc = "panels" /\ UNCHANGED <<exists, rows>>
    BY <1>5 DEF FetchPanel, guildConfig, panel
  <2>2. PICK r \in PanelRow :
           /\ r \in doing[t].stored \/ FreeMessage(r.msg)
           /\ Turns(t, [doing[t] EXCEPT !.kept = @ \cup {r}])
           /\ posted' = [posted EXCEPT ![r.msg] = PanelMessage(r.channel, doing[t].panels)]
    BY <1>5, FetchTurn
  <2> DEFINE d == [doing[t] EXCEPT !.kept = @ \cup {r}]
  <2>3. /\ d.pc = "panels" /\ d.stored = doing[t].stored /\ d.kept = doing[t].kept \cup {r}
        /\ d.todo = doing[t].todo /\ Turns(t, d)
    BY <2>1, <2>2, <1>0 DEF TaskRecord
  <2> HIDE DEF d
  <2>4. CASE t = "set"
    BY <2>3, <2>4, <1>a
  <2>5. CASE t # "set"
    <3>1. \A u \in PanelTasks : \A m : Known(u, m)' => Known(u, m) \/ FreeMessage(m)
      BY <2>2, <2>3 DEF Turns, Known, Msgs
    <3>2. doing'["set"] = doing["set"] /\ Msgs(rows)' = Msgs(rows)
      BY <2>1, <2>3, <2>5 DEF Turns, Msgs
    <3>3. ASSUME doing["set"].pc = "create", NEW k \in doing["set"].kept
          PROVE  posted'[k.msg] = posted[k.msg]
      <4>1. ~Known(t, k.msg) /\ ~FreeMessage(k.msg)
        BY <3>3, <2>5 DEF Private, Known, FreeMessage
      <4>2. k.msg # r.msg
        BY <4>1, <2>2 DEF Known, Msgs
      <4> QED  BY <2>2, <4>2 DEF PanelTypeOK
    <3> QED  BY <2>1, <3>1, <3>2, <3>3, PrivateFrame
  <2> QED  BY <2>4, <2>5
<1>6. ASSUME CreatePanel
      PROVE  Private'
  <2>1. doing["set"].pc = "create" /\ UNCHANGED <<exists, rows>>
    BY <1>6 DEF CreatePanel, guildConfig, panel
  <2>2. PICK r \in PanelRow :
           /\ r.channel = doing["set"].channel /\ r.msg \in Messages
           /\ Turns("set", [doing["set"] EXCEPT !.kept = @ \cup {r}])
           /\ posted' = [posted EXCEPT ![r.msg] = PanelMessage(r.channel, doing["set"].panels)]
           /\ FreeMessage(r.msg)
    BY <1>6, <2>1, FetchTurn
  <2> DEFINE d == [doing["set"] EXCEPT !.kept = @ \cup {r}]
  <2>3. /\ d.pc = "create" /\ d.stored = doing["set"].stored
        /\ d.kept = doing["set"].kept \cup {r} /\ d.channel = doing["set"].channel
        /\ d.panels = doing["set"].panels /\ Turns("set", d)
    BY <2>1, <2>2, <1>0 DEF TaskRecord
  <2> HIDE DEF d
  <2>4. doing'["set"] = d /\ \A u \in PanelTasks \ {"set"} : doing'[u] = doing[u]
    BY <2>3 DEF Turns
  <2>5. ~Known("set", r.msg) /\ r.msg \notin Msgs(rows)
        /\ \A u \in PanelTasks \ {"set"} : ~Known(u, r.msg)
    BY <2>2, FreeIsUnknown
  <2>6. ASSUME NEW k \in d.kept
        PROVE  /\ k.msg \notin Msgs(rows)' /\ k.msg \notin Msgs(d.stored)
               /\ \A u \in PanelTasks \ {"set"} :
                    k.msg \notin Msgs(doing[u].stored \cup doing[u].kept \cup doing[u].todo)'
    <3>1. CASE k = r
      BY <2>1, <2>3, <2>4, <2>5, <3>1 DEF Known, Msgs
    <3>2. CASE k \in doing["set"].kept
      BY <2>1, <2>3, <2>4, <3>2 DEF Private, Msgs
    <3> QED  BY <2>3, <2>6, <3>1, <3>2
  <2>7. ASSUME d.channel \in exists', NEW k \in d.kept
        PROVE  posted'[k.msg] = PanelMessage(d.channel, d.panels)
    <3>1. CASE k = r
      BY <2>2, <2>3, <3>1 DEF PanelTypeOK
    <3>2. CASE k \in doing["set"].kept
      <4>1. k.msg # r.msg
        BY <2>5, <3>2 DEF Known, Msgs
      <4>2. posted[k.msg] = PanelMessage(d.channel, d.panels)
        BY <2>1, <2>3, <2>7, <3>2 DEF Private
      <4> QED  BY <2>2, <4>1, <4>2 DEF PanelTypeOK
    <3> QED  BY <2>3, <2>7, <3>1, <3>2
  <2> QED  BY <2>3, <2>4, <2>6, <2>7 DEF Private
<1>7. ASSUME NEW t \in Reconcilers, ReconcileFails(t) \/ Save(t)
      PROVE  Private'
  <2>1. Turns(t, Off) /\ UNCHANGED <<exists, posted>> /\ rows' \in {rows, doing[t].kept}
    BY <1>7, TurnOfStep DEF ReconcileFails, Save, guildConfig, panel
  <2> QED  BY <1>2, <1>3, <2>1
<1>8. ASSUME NEW t \in Reconcilers, PanelsDone(t)
      PROVE  Private'
  <2> DEFINE d == [doing[t] EXCEPT !.pc = "extras", !.todo = Extras(t)]
  <2>1. /\ d.pc = "extras" /\ d.stored = doing[t].stored /\ d.kept = doing[t].kept
        /\ d.todo \subseteq doing[t].stored /\ Turns(t, d)
    BY <1>0, <1>8, TurnOfStep DEF TaskRecord, Extras
  <2>2. UNCHANGED <<exists, posted, rows>>
    BY <1>8 DEF PanelsDone, guildConfig, panel
  <2> HIDE DEF d
  <2>3. CASE t = "set"
    BY <2>1, <2>3, <1>a
  <2>4. CASE t # "set"
    <3>1. \A u \in PanelTasks : \A m : Known(u, m)' => Known(u, m)
      BY <2>1 DEF Turns, Known, Msgs
    <3>2. doing'["set"] = doing["set"] /\ Msgs(rows)' = Msgs(rows)
      BY <2>1, <2>2, <2>4 DEF Turns, Msgs
    <3> QED  BY <2>2, <3>1, <3>2, PrivateFrame
  <2> QED  BY <2>3, <2>4
<1>9. ASSUME NEW t \in PanelTasks, DeleteOne(t)
      PROVE  Private'
  <2>1. doing[t].pc \in {"extras", "remove"} /\ UNCHANGED <<exists, rows>>
    BY <1>9 DEF DeleteOne, guildConfig, panel
  <2>2. PICK r \in doing[t].todo :
          /\ Turns(t, [doing[t] EXCEPT !.todo = @ \ {r}])
          /\ posted' = [posted EXCEPT ![r.msg] = Gone] \/ UNCHANGED posted
    BY <1>9, DeleteTurn
  <2> DEFINE d == [doing[t] EXCEPT !.todo = @ \ {r}]
  <2>3. /\ d.pc = doing[t].pc /\ d.stored = doing[t].stored /\ d.kept = doing[t].kept
        /\ d.todo = doing[t].todo \ {r} /\ Turns(t, d)
    BY <2>2, <1>0 DEF TaskRecord
  <2> HIDE DEF d
  <2>4. CASE t = "set"
    <3>1. doing'["set"] = d
      BY <2>3, <2>4 DEF Turns
    <3>2. d.pc = "remove" => \A k \in d.kept : k.msg \notin Msgs(d.todo)
      BY <2>3, <2>4 DEF Private, Msgs
    <3> QED  BY <2>1, <2>3, <2>4, <3>1, <3>2 DEF Private
  <2>5. CASE t # "set"
    <3>1. \A u \in PanelTasks : \A m : Known(u, m)' => Known(u, m)
      BY <2>3 DEF Turns, Known, Msgs
    <3>2. doing'["set"] = doing["set"] /\ Msgs(rows)' = Msgs(rows)
      BY <2>1, <2>3, <2>5 DEF Turns, Msgs
    <3>3. ASSUME doing["set"].pc = "create", NEW k \in doing["set"].kept
          PROVE  posted'[k.msg] = posted[k.msg]
      <4>1. k.msg # r.msg
        BY <3>3, <2>2, <2>5 DEF Private, Msgs
      <4>2. k.msg \in Messages
        BY <1>0, <3>3 DEF TaskRecord, PanelRow
      <4> QED  BY <2>2, <4>1, <4>2 DEF PanelTypeOK
    <3> QED  BY <2>1, <3>1, <3>2, <3>3, PrivateFrame
  <2> QED  BY <2>4, <2>5
<1>10. ASSUME NEW t \in {"set", "del"}, RemoveFails(t) \/ PanelRemoved(t)
       PROVE  Private'
  <2>1. Turns(t, Off) /\ UNCHANGED posted /\ UNCHANGED exists
    BY <1>10, TurnOfStep DEF RemoveFails, PanelRemoved, guildConfig
  <2>2. rows' \in {rows, {}}
    BY <1>10 DEF RemoveFails, PanelRemoved, panel
  <2> QED  BY <1>2, <1>3, <2>1, <2>2
<1>11. ASSUME NEW c \in Channels, NEW t \in Callers, PanelChannelDeleted(c, t)
       PROVE  Private'
  <2>1. /\ exists' = exists \ {c} /\ UNCHANGED rows
        /\ posted' = [m \in Messages |-> IF posted[m].channel = c THEN Gone ELSE posted[m]]
    BY <1>11 DEF PanelChannelDeleted, panel
  <2>2. doing'["set"] = doing["set"] /\ \A u \in PanelTasks : \A m : Known(u, m)' => Known(u, m)
    <3>1. CASE chosen # c
      BY <1>11, <3>1 DEF PanelChannelDeleted, Known, Msgs
    <3>2. CASE chosen = c
      <4>1. doing' = [doing EXCEPT ![t].pc = "lock"]
        BY <1>11, <3>2 DEF PanelChannelDeleted, Wants
      <4> QED  BY <4>1, <1>0 DEF TaskRecord, Known, Msgs
    <3> QED  BY <3>1, <3>2
  <2>3. ASSUME doing["set"].pc = "create", doing["set"].channel \in exists',
               NEW k \in doing["set"].kept
        PROVE  posted'[k.msg] = posted[k.msg]
    <3>1. posted[k.msg] = PanelMessage(doing["set"].channel, doing["set"].panels)
      BY <2>1, <2>3 DEF Private
    <3>2. posted[k.msg].channel # c
      BY <2>1, <2>3, <3>1 DEF PanelMessage
    <3>3. k.msg \in Messages
      BY <1>0, <2>3 DEF TaskRecord, PanelRow
    <3> QED  BY <2>1, <3>2, <3>3
  <2> QED  BY <2>1, <2>2, <2>3, PrivateFrame DEF Msgs
<1>12. ASSUME NEW c \in Channels, SetChannel(c)
       PROVE  Private'
  <2>1. PICK d : Turns("set", d) /\ d.pc \in {"lock", "create"} /\ d.kept = {}
    <3>1. [Off EXCEPT !.pc = "lock"].pc = "lock" /\ [Off EXCEPT !.pc = "lock"].kept = {}
      BY OffFields DEF TaskRecord
    <3> DEFINE e == [Off EXCEPT !.pc = "create", !.channel = c, !.panels = wanted,
                                !.stored = rows]
    <3>2. e.pc = "create" /\ e.kept = {}
      BY OffFields DEF TaskRecord
    <3> QED  BY <1>12, <3>1, <3>2, SetTurn
  <2> QED  BY <2>1 DEF Turns, Private
<1>13. CASE Restart
  BY <1>13 DEF Restart, Private, Off
<1>14. CASE DisableChannel
  <2> DEFINE d == [Off EXCEPT !.pc = "remove", !.todo = rows]
  <2>1. d.stored = {} /\ d.kept = {} /\ d.todo = rows
    BY OffFields DEF TaskRecord
  <2>2. Turns("del", d) /\ UNCHANGED <<exists, rows, posted>>
    BY <1>14, TurnOfStep DEF DisableChannel, guildConfig, panel
  <2> HIDE DEF d
  <2>3. \A u \in PanelTasks : \A m : Known(u, m)' => Known(u, m) \/ m \in Msgs(rows)
    BY <2>1, <2>2 DEF Turns, Known, Msgs
  <2>4. doing'["set"] = doing["set"] /\ Msgs(rows)' = Msgs(rows)
    BY <2>2 DEF Turns, Msgs
  <2> QED  BY <2>2, <2>3, <2>4, PrivateFrame
<1>15. CASE CreateFails
  <2> DEFINE d == [doing["set"] EXCEPT !.pc = "undo"]
  <2>1. d.pc = "undo" /\ d.stored = doing["set"].stored /\ d.kept = doing["set"].kept
    BY <1>0 DEF TaskRecord
  <2>2. Turns("set", d) /\ UNCHANGED rows /\ doing["set"].pc = "create"
    BY <1>15, TurnOfStep DEF CreateFails, panel
  <2> HIDE DEF d
  <2> QED  BY <2>1, <2>2 DEF Turns, Private, Msgs
<1>16. CASE Undo \/ PersistFails
  BY <1>16, <1>3, TurnOfStep
<1>17. CASE Created
  <2> DEFINE d == [doing["set"] EXCEPT !.pc = "remove", !.todo = doing["set"].stored]
  <2>1. d.pc = "remove" /\ d.todo = doing["set"].stored /\ d.kept = doing["set"].kept
    BY <1>0 DEF TaskRecord
  <2>2. Turns("set", d) /\ doing["set"].pc = "create"
    BY <1>17, TurnOfStep DEF Created
  <2> HIDE DEF d
  <2>3. doing'["set"] = d
    BY <2>2 DEF Turns
  <2> QED  BY <2>1, <2>2, <2>3 DEF Private
<1> QED
  BY StepCases, <1>1, <1>4, <1>5, <1>6, <1>7, <1>8, <1>9, <1>10, <1>11, <1>12, <1>13,
     <1>14, <1>15, <1>16, <1>17 DEF ReconcilePanel

-----------------------------------------------------------------------------
(* Reconciliation.                                                           *)

\* What a reconciliation deletes is none of the panels it keeps.
LEMMA KeptIsNotExtra ==
  ASSUME PanelTypeOK, Books, NEW t \in PanelTasks, doing[t].pc = "extras",
         NEW k \in doing[t].kept, NEW r \in doing[t].todo
  PROVE  k.msg # r.msg
<1>1. k.panel \in 1 .. doing[t].panels /\ k.channel = doing[t].channel
  BY DEF Books, Orderly
<1>2. doing[t].panels \in Nat
  BY TaskTypes, PanelAssumption DEF TaskRecord, Counts
<1>3. r.panel > doing[t].panels \/ r.channel # doing[t].channel
  BY DEF Books, Orderly
<1>4. k # r
  BY <1>1, <1>2, <1>3
<1> QED  BY <1>4 DEF Books, Orderly, Distinct

LEMMA CleanKept ==
  ASSUME PanelTypeOK, Books, Roles, CleanSoFar, [PanelNext]_panelVars
  PROVE  CleanSoFar'
<1> USE TaskKinds
<1>0. doing \in [PanelTasks -> TaskRecord]
  BY TaskTypes
<1>a. ASSUME UNCHANGED <<lock, wanted, posted>>, clean' => clean,
             \A u \in PanelTasks : lock = u => doing'[u] = doing[u]
      PROVE  CleanSoFar'
  BY <1>a DEF CleanSoFar
<1>b. ASSUME ~clean' \/ lock' = "nobody"
      PROVE  CleanSoFar'
  BY <1>b DEF CleanSoFar
<1>1. CASE Asked
  <2>1. UNCHANGED <<lock, posted>> /\ (clean' => clean /\ wanted' = wanted)
    BY <1>1 DEF Asked
  <2>2. ASSUME NEW t \in Callers \cup {"runner"}, NEW q \in {"timer", "lock"},
               doing[t].pc \in {"off", "timer"}, Turns(t, [doing[t] EXCEPT !.pc = q])
        PROVE  CleanSoFar'
    <3>1. lock # t
      BY <2>2 DEF Roles
    <3>2. \A u \in PanelTasks : lock = u => doing'[u] = doing[u]
      BY <2>2, <3>1 DEF Turns
    <3> QED  BY <2>1, <3>2 DEF CleanSoFar
  <2>3. CASE doing' = doing
    BY <2>1, <2>3 DEF CleanSoFar
  <2> QED  BY <1>1, <2>2, <2>3 DEF Asked
<1>2. ASSUME NEW t \in Reconcilers, Start(t)
      PROVE  CleanSoFar'
  <2>1. CASE chosen \notin exists
    BY <1>2, <2>1, <1>b DEF Start
  <2>2. CASE chosen \in exists
    <3> DEFINE d == [Off EXCEPT !.pc = "panels", !.channel = chosen, !.panels = wanted,
                                !.stored = rows]
    <3>1. Turns(t, d) /\ lock' = t /\ UNCHANGED wanted
      BY <1>2, <2>2, TurnOfStep DEF Start, guildConfig
    <3>2. d.kept = {} /\ d.panels = wanted
      BY OffFields DEF TaskRecord
    <3> HIDE DEF d
    <3> QED  BY <3>1, <3>2 DEF Turns, CleanSoFar
  <2> QED  BY <2>1, <2>2
<1>3. ASSUME NEW t \in Reconcilers, FetchPanel(t)
      PROVE  CleanSoFar'
  <2>1. doing[t].pc = "panels" /\ UNCHANGED <<lock, wanted>> /\ lock = t
    BY <1>3 DEF FetchPanel, guildConfig, Roles
  <2>2. PICK r \in PanelRow :
           /\ r.channel = doing[t].channel /\ r.msg \in Messages
           /\ Turns(t, [doing[t] EXCEPT !.kept = @ \cup {r}])
           /\ posted' = [posted EXCEPT ![r.msg] = PanelMessage(r.channel, doing[t].panels)]
           /\ Acts(t) \/ Troubles
    BY <1>3, FetchTurn
  <2> DEFINE d == [doing[t] EXCEPT !.kept = @ \cup {r}]
  <2>3. /\ d.panels = doing[t].panels /\ d.channel = doing[t].channel
        /\ d.kept = doing[t].kept \cup {r} /\ Turns(t, d)
    BY <2>2, <1>0 DEF TaskRecord
  <2> HIDE DEF d
  <2>4. ASSUME clean'
        PROVE  CleanSoFar'
    <3>1. clean /\ doing[t].panels = wanted
      BY <2>1, <2>2, <2>4 DEF Acts, Troubles, CleanSoFar
    <3>2. ASSUME NEW k \in d.kept
          PROVE  posted'[k.msg] = PanelMessage(d.channel, wanted)
      <4>1. k.msg = r.msg => posted'[k.msg] = PanelMessage(d.channel, wanted)
        BY <2>2, <2>3, <3>1 DEF PanelTypeOK
      <4>2. ASSUME k.msg # r.msg
            PROVE  posted'[k.msg] = PanelMessage(d.channel, wanted)
        <5>1. k \in doing[t].kept
          BY <2>3, <3>2, <4>2
        <5>2. posted[k.msg] = PanelMessage(d.channel, wanted) /\ k.msg \in Messages
          BY <2>1, <2>3, <3>1, <5>1, <1>0 DEF CleanSoFar, TaskRecord, PanelRow
        <5> QED  BY <2>2, <4>2, <5>2 DEF PanelTypeOK
      <4> QED  BY <4>1, <4>2
    <3>3. doing'[t] = d
      BY <2>3 DEF Turns
    <3> QED  BY <2>1, <2>3, <3>1, <3>2, <3>3 DEF CleanSoFar
  <2> QED  BY <2>4, <1>b
<1>4. ASSUME NEW t \in Reconcilers, ReconcileFails(t) \/ Save(t)
      PROVE  CleanSoFar'
  <2>1. CASE ReconcileFails(t)
    BY <2>1, <1>b DEF ReconcileFails, CallFails, Troubles
  <2>2. CASE Save(t)
    <3>1. lock = t
      BY <2>2 DEF Save, Roles
    <3> QED  BY <2>2, <3>1, <1>b DEF Save, Release
  <2> QED  BY <1>4, <2>1, <2>2
<1>5. ASSUME NEW t \in Reconcilers, PanelsDone(t)
      PROVE  CleanSoFar'
  <2> DEFINE d == [doing[t] EXCEPT !.pc = "extras", !.todo = Extras(t)]
  <2>1. /\ d.kept = doing[t].kept /\ d.channel = doing[t].channel
        /\ d.panels = doing[t].panels /\ Turns(t, d)
    BY <1>0, <1>5, TurnOfStep DEF TaskRecord
  <2>2. UNCHANGED <<lock, posted, wanted, clean>>
    BY <1>5 DEF PanelsDone, guildConfig, Undisturbed
  <2> HIDE DEF d
  <2> QED  BY <2>1, <2>2 DEF CleanSoFar, Turns
<1>6. ASSUME NEW t \in PanelTasks, DeleteOne(t)
      PROVE  CleanSoFar'
  <2>1. doing[t].pc \in {"extras", "remove"} /\ UNCHANGED <<lock, wanted>>
    BY <1>6 DEF DeleteOne, guildConfig
  <2>2. PICK r \in doing[t].todo :
          /\ Turns(t, [doing[t] EXCEPT !.todo = @ \ {r}])
          /\ \/ posted' = [posted EXCEPT ![r.msg] = Gone] /\ Acts(t)
             \/ Troubles
    BY <1>6, DeleteTurn
  <2> DEFINE d == [doing[t] EXCEPT !.todo = @ \ {r}]
  <2>3. /\ d.kept = doing[t].kept /\ d.channel = doing[t].channel
        /\ d.panels = doing[t].panels /\ Turns(t, d)
    BY <2>2, <1>0 DEF TaskRecord
  <2> HIDE DEF d
  <2>4. ASSUME clean'
        PROVE  CleanSoFar'
    <3>1. clean /\ lock = t /\ posted' = [posted EXCEPT ![r.msg] = Gone]
      BY <2>2, <2>4 DEF Acts, Troubles
    <3>2. doing[t].pc = "extras"
      BY <2>1, <3>1 DEF Roles
    <3>3. ASSUME NEW k \in d.kept
          PROVE  posted'[k.msg] = posted[k.msg]
      <4>1. k.msg # r.msg
        BY <2>2, <2>3, <3>2, <3>3, KeptIsNotExtra
      <4>2. k.msg \in Messages
        BY <1>0, <2>3, <3>3 DEF TaskRecord, PanelRow
      <4> QED  BY <3>1, <4>1, <4>2 DEF PanelTypeOK
    <3>4. doing'[t] = d
      BY <2>3 DEF Turns
    <3> QED  BY <2>1, <2>3, <3>1, <3>3, <3>4 DEF CleanSoFar
  <2> QED  BY <2>4, <1>b
<1>7. ASSUME NEW t \in {"set", "del"}, doing[t].pc \notin {"panels", "extras"},
             NEW d, Turns(t, d), UNCHANGED <<lock, wanted>>,
             \/ UNCHANGED posted /\ (clean' => clean)
             \/ Acts(t) \/ Troubles
      PROVE  CleanSoFar'
  <2>1. lock # t
    BY <1>7 DEF Roles
  <2>2. CASE UNCHANGED posted /\ (clean' => clean)
    BY <1>7, <2>1, <2>2, <1>a DEF Turns
  <2>3. CASE Acts(t) \/ Troubles
    BY <2>1, <2>3, <1>b DEF Acts, Troubles
  <2> QED  BY <1>7, <2>2, <2>3
<1>8. ASSUME NEW t \in {"set", "del"}, RemoveFails(t) \/ PanelRemoved(t)
      PROVE  CleanSoFar'
  <2>1. doing[t].pc = "remove" /\ UNCHANGED <<lock, wanted>> /\ (Acts(t) \/ Troubles)
    BY <1>8 DEF RemoveFails, PanelRemoved, CallFails, guildConfig
  <2> QED  BY <1>8, <2>1, <1>7, TurnOfStep
<1>9. ASSUME NEW c \in Channels, NEW t \in Callers, PanelChannelDeleted(c, t)
      PROVE  CleanSoFar'
  BY <1>9, <1>b DEF PanelChannelDeleted, Troubles
<1>10. ASSUME NEW c \in Channels, SetChannel(c)
       PROVE  CleanSoFar'
  <2>1. /\ doing["set"].pc = "off" /\ UNCHANGED <<lock, wanted, posted>>
        /\ clean' => clean
    BY <1>10 DEF SetChannel, guildConfig, Undisturbed
  <2> QED  BY <1>10, <2>1, <1>7, SetTurn
<1>11. CASE Restart
  BY <1>11, <1>b DEF Restart
<1>12. CASE DisableChannel
  <2>1. /\ doing["del"].pc = "off" /\ UNCHANGED <<lock, wanted, posted>>
        /\ clean' => clean
    BY <1>12 DEF DisableChannel, guildConfig, Undisturbed
  <2> QED  BY <1>12, <2>1, <1>7, TurnOfStep
<1>13. CASE CreatePanel
  <2>1. doing["set"].pc = "create" /\ Acts("set")
    BY <1>13 DEF CreatePanel
  <2> QED  BY <2>1, <1>b DEF Acts, Roles
<1>14. CASE CreateFails \/ Undo \/ PersistFails
  BY <1>14, <1>b DEF CreateFails, CallFails, Troubles, Undo, PersistFails
<1>15. CASE Created
  <2>1. doing["set"].pc = "create" /\ Acts("set")
    BY <1>15 DEF Created
  <2> QED  BY <2>1, <1>b DEF Acts, Roles
<1> QED
  BY StepCases, <1>1, <1>2, <1>3, <1>4, <1>5, <1>6, <1>8, <1>9, <1>10, <1>11, <1>12, <1>13,
     <1>14, <1>15 DEF ReconcilePanel

PanelInv == PanelTypeOK /\ Books /\ Roles /\ Private /\ CleanSoFar

LEMMA PanelInvariant ==
  PanelSpec => []PanelInv
<1>1. PanelInit => PanelInv
  <2>1. ASSUME PanelInit
        PROVE  Roles /\ Private /\ CleanSoFar
    BY <2>1, TaskKinds, OffFields DEF PanelInit, Roles, Private, CleanSoFar
  <2> QED  BY <2>1, PanelStarts DEF PanelInv
<1>2. PanelInv /\ [PanelNext]_panelVars => PanelInv'
  BY TypesAndBooks, RolesKept, PrivateKept, CleanKept DEF PanelInv
<1> QED  BY <1>1, <1>2, PTL DEF PanelSpec

\* Whatever state failed calls, restarts and commands that met left the rows and the
\* messages in, a reconciliation that nothing disturbed leaves the panel complete: one
\* message per panel, on record, in the channel and with the text it should have.
THEOREM ReconciliationHeals == PanelSpec => ReconcileHeals
<1>1. ASSUME PanelInv, [PanelNext]_panelVars, lock # "nobody", lock' = "nobody", clean'
      PROVE  Complete'
  <2> USE <1>1, TaskKinds DEF PanelInv
  <2>1. PICK t \in Reconcilers : Save(t)
    <3>1. ~Asked /\ ~Restart
      BY DEF Asked, Restart, Troubles
    <3>2. \A t \in Reconcilers : ReconcilePanel(t) => Save(t)
      BY DEF ReconcilePanel, Start, FetchPanel, ReconcileFails, CallFails, Troubles, PanelsDone
    <3>3. \A t \in PanelTasks : ~DeleteOne(t)
      BY DEF DeleteOne
    <3>4. \A t \in {"set", "del"} : ~RemoveFails(t) /\ ~PanelRemoved(t)
      BY DEF RemoveFails, PanelRemoved
    <3>5. /\ \A c \in Channels, t \in Callers : ~PanelChannelDeleted(c, t)
          /\ \A c \in Channels : ~SetChannel(c)
          /\ ~DisableChannel /\ ~CreatePanel /\ ~CreateFails /\ ~Undo /\ ~Created
          /\ ~PersistFails
      BY DEF PanelChannelDeleted, SetChannel, DisableChannel, CreatePanel, CreateFails,
             Undo, Created, PersistFails
    <3> QED  BY <3>1, <3>2, <3>3, <3>4, <3>5, StepCases
  <2>2. /\ doing[t].pc = "extras" /\ UNCHANGED <<wanted, posted>>
        /\ rows' = doing[t].kept /\ chosen' = doing[t].channel /\ clean
    BY <2>1 DEF Save, guildConfig, Troubles
  <2>3. lock = t
    BY <2>2 DEF Roles
  <2>4. /\ doing[t].panels = wanted
        /\ \A r \in doing[t].kept : posted[r.msg] = PanelMessage(doing[t].channel, wanted)
    BY <2>2, <2>3 DEF CleanSoFar
  <2>5. /\ {r.panel : r \in doing[t].kept} = 1 .. Cardinality(doing[t].kept)
        /\ Cardinality(doing[t].kept) = doing[t].panels
        /\ \A r \in doing[t].kept : r.channel = doing[t].channel
    BY <2>2 DEF Books, Orderly
  <2> QED  BY <2>2, <2>4, <2>5 DEF Complete, StandsIn
<1>2. PanelInv /\ [PanelNext]_panelVars =>
        [lock # "nobody" /\ lock' = "nobody" /\ clean' => Complete']_panelVars
  BY <1>1
<1> QED  BY PanelInvariant, <1>2, PTL DEF PanelSpec, ReconcileHeals

\* /setroleschannel leaves a panel that stands as it is until every new message has been
\* sent, also when it fails before that or is undone; and when it fails while the new
\* panel is recorded, a whole panel stands in Discord and on record, the old or the new.
THEOREM SetKeeps == PanelSpec => SetKeepsPanel
<1> DEFINE set == doing["set"]
<1> DEFINE Kept == \/ Complete'
                   \/ /\ set.pc = "create" /\ Next("set") > set.panels
                      /\ \E c \in Channels : StandsIn(c)'
<1>1. ASSUME PanelInv, [PanelNext]_panelVars, chosen # NoChannel, Complete, set' # set,
             \/ set.pc \in {"create", "undo"} /\ rows = set.stored
             \/ set.pc = "remove" /\ rows = set.kept,
             set.panels = wanted, set.channel \in exists
      PROVE  Kept
  <2> USE TaskKinds
  <2>0. /\ PanelTypeOK /\ Books /\ Private
        /\ set \in TaskRecord /\ Orderly(set)
        /\ set.pc \in {"create", "undo", "remove"}
    BY <1>1, TaskTypes DEF PanelInv, Books
  <2>a. ASSUME UNCHANGED <<wanted, chosen, rows>>,
               \A r \in rows : posted'[r.msg] = posted[r.msg]
        PROVE  Kept
    BY <1>1, <2>a DEF Complete, StandsIn
  <2>b. ASSUME NEW t \in PanelTasks, NEW d, Turns(t, d)
        PROVE  t = "set"
    BY <1>1, <2>b DEF Turns
  <2>c. \A r \in rows : r.msg \in Messages
    BY <2>0 DEF PanelTypeOK, PanelRow
  <2>1. ~Asked
    <3>1. ASSUME NEW t \in Callers \cup {"runner"}, NEW q \in {"timer", "lock"},
                 doing[t].pc \in {"off", "timer"}, Turns(t, [doing[t] EXCEPT !.pc = q])
          PROVE  FALSE
      BY <2>b, <3>1
    <3> QED  BY <1>1, <3>1 DEF Asked
  <2>2. ASSUME NEW t \in Reconcilers, ReconcilePanel(t)
        PROVE  Kept
    <3>1. t # "set"
      BY <2>0, <2>2, <1>1
         DEF ReconcilePanel, Start, FetchPanel, ReconcileFails, PanelsDone, Save
    <3>2. CASE Start(t) \/ ReconcileFails(t) \/ PanelsDone(t) \/ Save(t)
      BY <2>0, <2>b, <3>1, <3>2, TurnOfStep
    <3>3. CASE FetchPanel(t)
      BY <2>0, <2>b, <3>1, <3>3, FetchTurn
    <3> QED  BY <2>2, <3>2, <3>3 DEF ReconcilePanel
  <2>3. ASSUME NEW t \in PanelTasks, DeleteOne(t)
        PROVE  Kept
    <3>1. PICK r \in doing[t].todo :
            /\ Turns(t, [doing[t] EXCEPT !.todo = @ \ {r}])
            /\ posted' = [posted EXCEPT ![r.msg] = Gone] \/ UNCHANGED posted
      BY <2>0, <2>3, DeleteTurn
    <3>2. t = "set" /\ set.pc = "remove" /\ rows = set.kept
      BY <1>1, <2>0, <2>3, <2>b, <3>1 DEF DeleteOne
    <3>3. \A k \in rows : k.msg # r.msg
      BY <2>0, <3>1, <3>2 DEF Private, Msgs
    <3>4. \A k \in rows : posted'[k.msg] = posted[k.msg]
      BY <2>0, <2>c, <3>1, <3>3 DEF PanelTypeOK
    <3> QED  BY <2>3, <2>a, <3>4 DEF DeleteOne, guildConfig, panel
  <2>4. ASSUME NEW t \in {"set", "del"}, RemoveFails(t) \/ PanelRemoved(t)
        PROVE  Kept
    <3>1. t = "set"
      BY <2>0, <2>4, <2>b, TurnOfStep
    <3>2. UNCHANGED <<wanted, chosen, rows, posted>>
      BY <2>4, <3>1 DEF RemoveFails, PanelRemoved, guildConfig, panel
    <3> QED  BY <2>a, <3>2
  <2>5. ASSUME NEW c \in Channels, NEW t \in Callers, PanelChannelDeleted(c, t)
        PROVE  FALSE
    <3>1. doing'["set"] = doing["set"]
      BY <2>0, <2>5 DEF PanelChannelDeleted, Wants, PanelTypeOK
    <3> QED  BY <1>1, <3>1
  <2>6. ASSUME NEW c \in Channels, SetChannel(c)
        PROVE  FALSE
    BY <2>0, <2>6 DEF SetChannel
  <2>7. CASE Restart
    BY <2>7, <2>a DEF Restart, guildConfig, panel
  <2>8. ~DisableChannel
    BY <2>0, <2>b, TurnOfStep
  <2>9. CASE CreatePanel
    <3>1. PICK r \in PanelRow :
             /\ posted' = [posted EXCEPT ![r.msg] = PanelMessage(r.channel, set.panels)]
             /\ FreeMessage(r.msg)
      BY <2>0, <2>9, FetchTurn DEF CreatePanel, Troubles
    <3>2. \A k \in rows : posted'[k.msg] = posted[k.msg]
      BY <2>0, <2>c, <3>1 DEF FreeMessage, PanelTypeOK
    <3> QED  BY <2>9, <2>a, <3>2 DEF CreatePanel, guildConfig, panel
  <2>10. CASE CreateFails
    BY <2>10, <2>a DEF CreateFails, guildConfig, panel
  <2>11. CASE Undo
    <3>1. set.pc = "undo" /\ UNCHANGED <<wanted, chosen, rows>>
      BY <2>11 DEF Undo, guildConfig, panel
    <3>2. PICK left \in SUBSET set.kept :
            posted' = [m \in Messages |->
              IF m \in {r.msg : r \in Undone(left)} THEN Gone ELSE posted[m]]
      BY <2>11 DEF Undo
    <3>3. \A k \in rows, r \in set.kept : k.msg # r.msg
      BY <2>0, <3>1 DEF Private, Msgs
    <3>4. \A k \in rows : posted'[k.msg] = posted[k.msg]
      BY <2>c, <3>2, <3>3 DEF Undone
    <3> QED  BY <2>a, <3>1, <3>4
  <2>d. ASSUME set.pc = "create", UNCHANGED <<wanted, posted>>, rows' = set.kept,
               Next("set") > set.panels, NEW c, c = set.channel
        PROVE  StandsIn(c)'
    <3>2. \A k \in set.kept : posted[k.msg] = PanelMessage(set.channel, set.panels)
      BY <1>1, <2>0, <2>d DEF Private
    <3>3. Cardinality(set.kept) = set.panels
      <4>1. Cardinality(set.kept) \in Nat /\ set.panels \in Nat
        BY <2>0, KeptCount, PanelAssumption DEF TaskRecord, Counts
      <4>2. Cardinality(set.kept) + 1 > set.panels
        BY <2>d DEF Next
      <4>3. Cardinality(set.kept) <= set.panels
        BY <2>0 DEF Orderly
      <4> QED  BY <4>1, <4>2, <4>3
    <3>4. /\ {r.panel : r \in set.kept} = 1 .. Cardinality(set.kept)
          /\ \A r \in set.kept : r.channel = set.channel
      BY <2>0 DEF Orderly
    <3> QED  BY <1>1, <2>d, <3>2, <3>3, <3>4 DEF StandsIn
  <2>12. CASE Created
    <3>1. /\ set.pc = "create" /\ UNCHANGED <<wanted, posted>> /\ rows' = set.kept
          /\ Next("set") > set.panels /\ chosen' = set.channel
      BY <2>12 DEF Created, guildConfig
    <3>2. PICK c : c = set.channel
      OBVIOUS
    <3>3. StandsIn(c)'
      BY <2>d, <3>1, <3>2
    <3> QED  BY <3>1, <3>2, <3>3 DEF Complete, StandsIn
  <2>13. CASE PersistFails
    <3>1. /\ set.pc = "create" /\ UNCHANGED <<wanted, posted>> /\ Next("set") > set.panels
          /\ \/ UNCHANGED <<chosen, rows>>
             \/ rows' \in {rows, set.kept}
      BY <2>13 DEF PersistFails, guildConfig, panel
    <3>2. CASE UNCHANGED <<chosen, rows>>
      BY <2>a, <3>1, <3>2
    <3>3. CASE rows' = rows
      <4>1. chosen \in Channels
        BY <1>1, <2>0 DEF PanelTypeOK
      <4>2. StandsIn(chosen)
        BY <1>1 DEF Complete
      <4>3. \E c \in Channels : StandsIn(c)'
        BY <3>1, <3>3, <4>1, <4>2 DEF StandsIn
      <4> QED  BY <3>1, <4>3
    <3>4. CASE rows' = set.kept
      <4>1. PICK c \in Channels : c = set.channel
        BY <1>1, <2>0 DEF PanelTypeOK, GuildTypeOK
      <4>2. StandsIn(c)'
        BY <2>d, <3>1, <3>4, <4>1
      <4> QED  BY <3>1, <4>2
    <3> QED  BY <3>1, <3>2, <3>3, <3>4
  <2> QED  BY <1>1, <2>0, StepCases, <2>1, <2>2, <2>3, <2>4, <2>5, <2>6, <2>7, <2>8, <2>9,
              <2>10, <2>11, <2>12, <2>13
<1>2. PanelInv /\ [PanelNext]_panelVars =>
        [/\ chosen # NoChannel /\ Complete /\ doing'["set"] # doing["set"]
         /\ \/ doing["set"].pc \in {"create", "undo"} /\ rows = doing["set"].stored
            \/ doing["set"].pc = "remove" /\ rows = doing["set"].kept
         /\ doing["set"].panels = wanted /\ doing["set"].channel \in exists
         => \/ Complete'
            \/ /\ doing["set"].pc = "create" /\ Next("set") > doing["set"].panels
               /\ \E c \in Channels : StandsIn(c)']_panelVars
  BY <1>1
<1> QED  BY PanelInvariant, <1>2, PTL DEF PanelSpec, SetKeepsPanel

-----------------------------------------------------------------------------
(* What stands in Discord without trouble.                                   *)

\* A step that changes no task that works, and nothing else Story is about.
LEMMA TidyFrame ==
  ASSUME PanelTypeOK, Tidy, UNCHANGED <<exists, panel, posted>>, untroubled' => untroubled,
         \A u \in PanelTasks : Working(u)' <=> Working(u),
         \A u \in PanelTasks : Working(u) => doing'[u] = doing[u]
  PROVE  Tidy'
<1>1. SUFFICES ASSUME untroubled'
               PROVE  Tidy'
  BY DEF Tidy
<1>2. /\ exists' = Channels /\ \A r, s \in rows' : r.panel = s.panel => r = s
      /\ Standing' = Standing /\ Msgs(rows)' = Msgs(rows) /\ UNCHANGED <<rows, chosen>>
  BY <1>1 DEF Tidy, Standing, Msgs, panel
<1>3. doing'["set"].pc # "undo"
  BY <1>1, TaskKinds DEF Tidy, Working
<1>4. (\A t \in PanelTasks : ~Working(t)') => Standing' = Msgs(rows)'
  BY <1>1, <1>2 DEF Tidy
<1>5. ASSUME NEW t \in PanelTasks, OnlyWorks(t)'
      PROVE  Story(t)'
  <2>1. OnlyWorks(t)
    BY <1>5 DEF OnlyWorks
  <2>2. Story(t) /\ doing'[t] = doing[t]
    BY <1>1, <2>1 DEF Tidy, OnlyWorks
  <2> QED  BY <1>2, <2>2 DEF Story, Msgs
<1> QED  BY <1>2, <1>3, <1>4, <1>5 DEF Tidy

\* A step of the only task that works, which may be its last.
LEMMA TidyTurn ==
  ASSUME PanelTypeOK, NEW t \in PanelTasks, NEW d, Turns(t, d), Alone(t), exists' = Channels,
         d.pc # "undo", \A r, s \in rows' : r.panel = s.panel => r = s,
         IF d.pc \in {"off", "timer", "lock"} THEN Standing' = Msgs(rows)' ELSE Story(t)'
  PROVE  Tidy'
<1>1. \A u \in PanelTasks \ {t} : ~Working(u)'
  BY DEF Turns, Alone, Working
<1>2. Working(t)' <=> d.pc \notin {"off", "timer", "lock"}
  BY DEF Turns, Working
<1>3. doing'["set"].pc # "undo"
  BY TaskKinds DEF Turns, Alone
<1>4. ASSUME NEW u \in PanelTasks, OnlyWorks(u)'
      PROVE  Story(u)'
  <2>1. u = t
    BY <1>1, <1>4 DEF OnlyWorks
  <2> QED  BY <1>2, <1>4, <2>1 DEF OnlyWorks
<1>5. (\A u \in PanelTasks : ~Working(u)') => Standing' = Msgs(rows)'
  BY <1>2
<1> QED  BY <1>3, <1>4, <1>5 DEF Tidy

LEMMA AloneOnlyWorks ==
  ASSUME NEW t \in PanelTasks, Alone(t), Working(t), untroubled, Tidy
  PROVE  Story(t)
BY DEF Alone, Working, OnlyWorks, Tidy

LEMMA TidyKept ==
  ASSUME PanelInv, Tidy, [PanelNext]_panelVars
  PROVE  Tidy'
<1> USE TaskKinds
<1>0. /\ PanelTypeOK /\ Books /\ Roles /\ Private
      /\ doing \in [PanelTasks -> TaskRecord] /\ \A t \in PanelTasks : Orderly(doing[t])
  BY TaskTypes DEF PanelInv, Books
<1>a. ASSUME untroubled
      PROVE  exists = Channels /\ \A r, s \in rows : r.panel = s.panel => r = s
  BY <1>a DEF Tidy
<1>b. ~untroubled' => Tidy'
  BY DEF Tidy
<1>c. Troubles => Tidy'
  BY <1>b DEF Troubles
<1>1. CASE Asked
  <2>1. UNCHANGED <<exists, panel, posted, untroubled>>
    BY <1>1 DEF Asked
  <2>2. CASE doing' = doing
    <3>1. \A u \in PanelTasks : Working(u)' <=> Working(u)
      BY <2>2 DEF Working
    <3> QED  BY <1>0, <2>1, <2>2, <3>1, TidyFrame
  <2>3. ASSUME NEW t \in Callers \cup {"runner"}, NEW q \in {"timer", "lock"},
               doing[t].pc \in {"off", "timer"}, Turns(t, [doing[t] EXCEPT !.pc = q])
        PROVE  Tidy'
    <3>1. [doing[t] EXCEPT !.pc = q].pc = q
      BY <1>0 DEF TaskRecord
    <3>2. \A u \in PanelTasks : Working(u)' <=> Working(u)
      BY <2>3, <3>1 DEF Turns, Working
    <3>3. \A u \in PanelTasks : Working(u) => doing'[u] = doing[u]
      BY <2>3 DEF Turns, Working
    <3> QED  BY <1>0, <2>1, <3>2, <3>3, TidyFrame
  <2> QED  BY <1>1, <2>2, <2>3 DEF Asked
<1>2. ASSUME NEW t \in Reconcilers, Start(t), untroubled'
      PROVE  Tidy'
  <2>0. doing[t].pc = "lock" /\ lock = "nobody" /\ UNCHANGED <<exists, posted>> /\ untroubled
    BY <1>2 DEF Start, guildConfig
  <2>1. CASE chosen \notin exists
    <3>1. UNCHANGED <<rows, chosen>>
      BY <1>0, <1>2, <1>a, <2>0, <2>1 DEF Start, PanelTypeOK
    <3>2. Turns(t, Off)
      BY <1>0, <1>2, <2>1, TurnOfStep
    <3>3. \A u \in PanelTasks : Working(u)' <=> Working(u)
      BY <2>0, <3>2, OffFields DEF Turns, Working
    <3>4. \A u \in PanelTasks : Working(u) => doing'[u] = doing[u]
      BY <2>0, <3>2 DEF Turns, Working
    <3> QED  BY <1>0, <2>0, <3>1, <3>3, <3>4, TidyFrame DEF panel
  <2>2. CASE chosen \in exists
    <3> DEFINE d == [Off EXCEPT !.pc = "panels", !.channel = chosen, !.panels = wanted,
                                !.stored = rows]
    <3>1. Turns(t, d) /\ UNCHANGED <<rows, chosen>> /\ Alone(t)
      BY <1>0, <1>2, <2>2, TurnOfStep DEF Start, panel
    <3>2. d.pc = "panels" /\ d.stored = rows /\ d.kept = {} /\ d.channel = chosen
      BY OffFields DEF TaskRecord
    <3> HIDE DEF d
    <3>3. \A u \in PanelTasks : ~Working(u)
      BY <2>0, <3>1 DEF Alone, Working
    <3>4. Standing' = Msgs(rows)
      BY <2>0, <3>3 DEF Tidy, Standing
    <3>5. \A r \in rows : r.panel >= 1
      BY <1>0 DEF PanelTypeOK, PanelRow
    <3>6. Cardinality({}) = 0 /\ doing'[t] = d
      BY FS_EmptySet, <3>1 DEF Turns
    <3>7. \A r \in rows : ~(r.panel <= 0)
      BY <1>0, <3>5 DEF PanelTypeOK, PanelRow
    <3>8. Story(t)'
      BY <3>1, <3>2, <3>4, <3>6, <3>7 DEF Story, Msgs
    <3> QED  BY <1>0, <1>a, <2>0, <3>1, <3>2, <3>8, TidyTurn
  <2> QED  BY <2>1, <2>2
<1>3. ASSUME NEW t \in PanelTasks, FetchPanel(t) \/ (t = "set" /\ CreatePanel), untroubled'
      PROVE  Tidy'
  <2>1. /\ doing[t].pc \in {"panels", "create"} /\ UNCHANGED <<exists, panel, lock>>
        /\ doing[t].pc = "create" => t = "set"
    BY <1>3 DEF FetchPanel, CreatePanel, guildConfig
  <2>2. PICK r \in PanelRow :
           /\ r.panel = Next(t) /\ r.channel = doing[t].channel /\ r.msg \in Messages
           /\ r \in doing[t].stored \/ FreeMessage(r.msg)
           /\ Turns(t, [doing[t] EXCEPT !.kept = @ \cup {r}])
           /\ posted' = [posted EXCEPT ![r.msg] = PanelMessage(r.channel, doing[t].panels)]
           /\ Acts(t)
           /\ IF Current(t) = {} \/ doing[t].pc = "create" THEN FreeMessage(r.msg)
              ELSE r \in doing[t].stored
    BY <1>0, <1>3, FetchTurn DEF Troubles
  <2> DEFINE d == [doing[t] EXCEPT !.kept = @ \cup {r}]
  <2>3. /\ d.pc = doing[t].pc /\ d.stored = doing[t].stored /\ d.channel = doing[t].channel
        /\ d.kept = doing[t].kept \cup {r} /\ Turns(t, d)
    BY <2>2, <1>0 DEF TaskRecord
  <2> HIDE DEF d
  <2>4. untroubled /\ Alone(t) /\ doing'[t] = d
    BY <1>3, <2>2, <2>3 DEF Acts, Turns
  <2>5. Story(t)
    BY <2>1, <2>4, AloneOnlyWorks DEF Working
  <2>6. Standing' = Standing \cup {r.msg}
    <3>1. PanelMessage(r.channel, doing[t].panels) # Gone
      <4>1. r.channel # NoChannel
        BY GuildAssumption, <2>2 DEF PanelRow
      <4> QED  BY <4>1 DEF PanelMessage, Gone
    <3> QED  BY <1>0, <2>2, <3>1 DEF Standing, PanelTypeOK
  <2>7. Msgs(d.kept) = Msgs(doing[t].kept) \cup {r.msg}
    BY <2>3 DEF Msgs
  <2>8. Standing' = Msgs(rows) \cup Msgs(d.kept) /\ doing[t].stored = rows
    BY <2>1, <2>5, <2>6, <2>7 DEF Story
  <2>9. ASSUME doing[t].pc = "panels", NEW s \in rows, s.channel = d.channel,
               s.panel <= Cardinality(d.kept)
        PROVE  s \in d.kept
    <3>1. /\ Cardinality(doing[t].kept) \in Nat /\ s.panel \in Nat
          /\ IsFiniteSet(doing[t].kept)
      <4>1. s.panel \in Nat
        BY <1>0, <2>9 DEF PanelTypeOK, PanelRow
      <4>2. IsFiniteSet(doing[t].kept)
        BY <1>0 DEF Orderly
      <4> QED  BY <1>0, <4>1, <4>2, KeptCount
    <3>2. /\ Cardinality(d.kept) <= Cardinality(doing[t].kept) + 1
          /\ Cardinality(d.kept) \in Nat
      <4> DEFINE k == doing[t].kept
      <4>1. Cardinality(k \cup {r}) \in {Cardinality(k), Cardinality(k) + 1}
        BY <3>1, FS_AddElement
      <4>2. d.kept = k \cup {r} /\ Cardinality(k) \in Nat
        BY <2>3, <3>1
      <4> HIDE DEF k
      <4>3. Cardinality(d.kept) \in {Cardinality(k), Cardinality(k) + 1}
        BY <4>1, <4>2
      <4>4. Cardinality(d.kept) <= Cardinality(k) + 1 /\ Cardinality(d.kept) \in Nat
        BY <4>2, <4>3
      <4> QED  BY <4>4 DEF k
    <3>3. CASE s.panel <= Cardinality(doing[t].kept)
      BY <2>3, <2>5, <2>9, <3>3 DEF Story
    <3>4. CASE s.panel = Cardinality(doing[t].kept) + 1
      <4>1. s.panel = r.panel
        BY <2>2, <3>4 DEF Next
      <4>2. s.msg \in Standing
        BY <2>5, <2>9 DEF Story, Msgs
      <4>3. s \in Current(t)
        BY <2>2, <2>3, <2>8, <2>9, <4>1, <4>2 DEF Current, Standing
      <4>4. r \in rows
        BY <2>2, <2>8, <2>9, <4>3
      <4> QED  BY <1>a, <2>3, <2>4, <2>9, <4>1, <4>4
    <3> QED  BY <2>9, <3>1, <3>2, <3>3, <3>4
  <2>10. Story(t)'
    <3>1. UNCHANGED <<rows, chosen>> /\ (d.pc = "panels" => d.channel = chosen)
      BY <2>1, <2>3, <2>5 DEF panel, Story
    <3> QED  BY <2>1, <2>3, <2>4, <2>8, <2>9, <3>1 DEF Story, Msgs
  <2> QED  BY <1>0, <1>a, <2>1, <2>3, <2>4, <2>10, TidyTurn DEF panel
<1>4. ASSUME NEW t \in Reconcilers, ReconcileFails(t)
      PROVE  Tidy'
  BY <1>4, <1>c DEF ReconcileFails, CallFails
<1>5. ASSUME NEW t \in Reconcilers, PanelsDone(t), untroubled'
      PROVE  Tidy'
  <2> DEFINE d == [doing[t] EXCEPT !.pc = "extras", !.todo = Extras(t)]
  <2>1. /\ d.pc = "extras" /\ d.kept = doing[t].kept /\ d.todo = Extras(t) /\ Turns(t, d)
    BY <1>0, <1>5, TurnOfStep DEF TaskRecord, Extras
  <2>2. /\ UNCHANGED <<exists, posted, rows, chosen, untroubled>> /\ doing[t].pc = "panels"
        /\ Next(t) > doing[t].panels
    BY <1>5 DEF PanelsDone, guildConfig, panel, Undisturbed
  <2> HIDE DEF d
  <2>3. /\ doing'[t] = d /\ \A u \in PanelTasks \ {t} : doing'[u] = doing[u]
        /\ untroubled
    BY <1>5, <2>1, <2>2 DEF Turns
  <2>4. \A u \in PanelTasks : Working(u)' <=> Working(u)
    BY <2>1, <2>2, <2>3 DEF Working
  <2>5. ASSUME OnlyWorks(t)
        PROVE  Story(t)'
    <3>1. /\ doing[t].stored = rows /\ Standing = Msgs(rows) \cup Msgs(doing[t].kept)
          /\ \A r \in rows : /\ r.channel = doing[t].channel
                             /\ r.panel <= Cardinality(doing[t].kept)
                             => r \in doing[t].kept
      BY <2>2, <2>3, <2>5 DEF Tidy, Story
    <3>2. Cardinality(doing[t].kept) = doing[t].panels
      <4>1. Cardinality(doing[t].kept) \in Nat /\ doing[t].panels \in Nat
        BY <1>0, KeptCount, PanelAssumption DEF TaskRecord, Counts
      <4>2. doing[t].panels < Cardinality(doing[t].kept) + 1
        BY <2>2, <4>1 DEF Next
      <4>3. Cardinality(doing[t].kept) <= doing[t].panels
        BY <1>0 DEF Orderly
      <4> QED  BY <4>1, <4>2, <4>3
    <3>3. \A r \in rows : r \in Extras(t) \/ r \in doing[t].kept
      <4>1. \A r \in rows : r.panel \in Nat
        BY <1>0 DEF PanelTypeOK, PanelRow
      <4>2. doing[t].panels \in Nat
        BY <1>0, PanelAssumption DEF TaskRecord, Counts
      <4> QED  BY <3>1, <3>2, <4>1, <4>2 DEF Extras
    <3>4. Extras(t) \subseteq rows
      BY <3>1 DEF Extras
    <3>5. Standing = Msgs(doing[t].kept) \cup Msgs(Extras(t))
      BY <3>1, <3>3, <3>4 DEF Msgs
    <3>6. Standing' = Standing
      BY <2>2 DEF Standing
    <3> QED  BY <2>1, <2>3, <3>5, <3>6 DEF Story, Msgs
  <2>6. ASSUME NEW u \in PanelTasks, OnlyWorks(u)'
        PROVE  Story(u)'
    <3>1. u = t
      BY <2>1, <2>3, <2>6 DEF OnlyWorks, Working
    <3>2. OnlyWorks(t)
      BY <2>4, <2>6, <3>1 DEF OnlyWorks
    <3> QED  BY <2>5, <3>1, <3>2
  <2>7. exists' = Channels /\ doing'["set"].pc # "undo"
    BY <2>1, <2>2, <2>3 DEF Tidy
  <2>8. \A r, s \in rows' : r.panel = s.panel => r = s
    BY <1>a, <2>2, <2>3
  <2>9. Working(t)'
    BY <2>1, <2>3 DEF Working
  <2> QED  BY <2>6, <2>7, <2>8, <2>9 DEF Tidy
<1>6. ASSUME NEW t \in Reconcilers, Save(t), untroubled'
      PROVE  Tidy'
  <2>1. /\ doing[t].pc = "extras" /\ doing[t].todo = {} /\ rows' = doing[t].kept
        /\ UNCHANGED <<exists, posted>> /\ untroubled /\ Alone(t)
    BY <1>6 DEF Save, Troubles, guildConfig
  <2>2. Story(t)
    BY <2>1, AloneOnlyWorks DEF Working
  <2>3. Standing' = Msgs(rows)'
    BY <2>1, <2>2 DEF Story, Standing, Msgs
  <2>4. \A r, s \in rows' : r.panel = s.panel => r = s
    BY <1>0, <2>1 DEF Orderly
  <2>5. Turns(t, Off)
    BY <1>0, <1>6, TurnOfStep
  <2> QED  BY <1>0, <1>a, <2>1, <2>3, <2>4, <2>5, OffFields, TidyTurn
<1>7. ASSUME NEW t \in PanelTasks, DeleteOne(t), untroubled'
      PROVE  Tidy'
  <2>1. doing[t].pc \in {"extras", "remove"} /\ UNCHANGED <<exists, rows, chosen>>
    BY <1>7 DEF DeleteOne, guildConfig, panel
  <2>2. PICK r \in doing[t].todo :
          /\ Turns(t, [doing[t] EXCEPT !.todo = @ \ {r}])
          /\ posted' = [posted EXCEPT ![r.msg] = Gone] /\ Acts(t)
    BY <1>0, <1>7, DeleteTurn DEF Troubles
  <2> DEFINE d == [doing[t] EXCEPT !.todo = @ \ {r}]
  <2>3. /\ d.pc = doing[t].pc /\ d.kept = doing[t].kept
        /\ d.todo = doing[t].todo \ {r} /\ Turns(t, d)
    BY <2>2, <1>0 DEF TaskRecord
  <2> HIDE DEF d
  <2>4. untroubled /\ Alone(t) /\ doing'[t] = d
    BY <1>7, <2>2, <2>3 DEF Acts, Turns
  <2>5. Story(t)
    BY <2>1, <2>4, AloneOnlyWorks DEF Working
  <2>6. Standing' = Standing \ {r.msg}
    BY <1>0, <2>2 DEF Standing, PanelTypeOK
  <2>7. Msgs(d.todo) = Msgs(doing[t].todo) \ {r.msg}
    BY <1>0, <2>2, <2>3 DEF Msgs, Orderly, Distinct
  <2>8. Story(t)'
    <3>1. CASE doing[t].pc = "extras"
      <4>1. r.msg \notin Msgs(doing[t].kept)
        BY <1>0, <2>2, <3>1, KeptIsNotExtra DEF Msgs
      <4>2. Standing' = Msgs(d.kept) \cup Msgs(d.todo)
        BY <2>3, <2>5, <2>6, <2>7, <3>1, <4>1 DEF Story
      <4> QED  BY <2>3, <2>4, <3>1, <4>2 DEF Story, Msgs
    <3>2. CASE doing[t].pc = "remove"
      <4>1. t = "set" => rows = doing[t].kept /\ r.msg \notin Msgs(rows)
        BY <1>0, <2>2, <2>5, <3>2 DEF Story, Private, Msgs
      <4>2. Standing' = Msgs(d.todo) \cup IF t = "set" THEN Msgs(rows) ELSE {}
        BY <2>5, <2>6, <2>7, <3>2, <4>1 DEF Story
      <4> QED  BY <2>1, <2>3, <2>4, <3>2, <4>1, <4>2 DEF Story, Msgs
    <3> QED  BY <2>1, <3>1, <3>2
  <2> QED  BY <1>0, <1>a, <2>1, <2>3, <2>4, <2>8, TidyTurn
<1>8. ASSUME NEW t \in {"set", "del"}, RemoveFails(t) \/ PanelRemoved(t), untroubled'
      PROVE  Tidy'
  <2>1. PanelRemoved(t)
    BY <1>8 DEF RemoveFails, CallFails, Troubles
  <2>2. /\ doing[t].pc = "remove" /\ doing[t].todo = {} /\ untroubled /\ Alone(t)
        /\ rows' = IF t = "del" THEN {} ELSE rows
        /\ UNCHANGED <<exists, posted>>
    BY <1>8, <2>1 DEF PanelRemoved, Acts, guildConfig, panel
  <2>3. Story(t)
    BY <2>2, AloneOnlyWorks DEF Working
  <2>4. Standing' = Msgs(rows)'
    <3>1. "set" # "del" /\ Msgs({}) = {}
      BY DEF Msgs
    <3> QED  BY <2>2, <2>3, <3>1 DEF Story, Standing, Msgs
  <2>5. Turns(t, Off)
    BY <1>0, <2>1, TurnOfStep
  <2>6. \A r, s \in rows' : r.panel = s.panel => r = s
    BY <1>a, <2>2
  <2> QED  BY <1>0, <1>a, <2>2, <2>4, <2>5, <2>6, OffFields, TidyTurn
<1>9. ASSUME NEW c \in Channels, NEW t \in Callers, PanelChannelDeleted(c, t)
      PROVE  Tidy'
  BY <1>9, <1>c DEF PanelChannelDeleted
\* A command that begins, alone or not.
<1>d. ASSUME NEW t \in {"set", "del"}, NEW d, Turns(t, d), doing[t].pc = "off",
             UNCHANGED <<exists, panel, posted, untroubled>>,
             d.pc \in {"lock", "create", "remove"},
             Story(t)' \/ ~Working(t)' \/ Standing # Msgs(rows)
      PROVE  Tidy'
  <2>1. SUFFICES ASSUME untroubled
                 PROVE  Tidy'
    BY <1>d, <1>b
  <2>2. doing'[t] = d /\ \A u \in PanelTasks \ {t} : doing'[u] = doing[u]
    BY <1>d DEF Turns
  <2>3. CASE d.pc = "lock"
    <3>1. \A u \in PanelTasks : Working(u)' <=> Working(u)
      BY <1>d, <2>2, <2>3 DEF Working
    <3>2. \A u \in PanelTasks : Working(u) => doing'[u] = doing[u]
      BY <1>d, <2>2 DEF Working
    <3> QED  BY <1>0, <1>d, <3>1, <3>2, TidyFrame
  <2>4. CASE d.pc # "lock"
    <3>1. Working(t)' /\ ~Working(t)
      BY <1>d, <2>2, <2>4 DEF Working
    <3>2. ASSUME NEW u \in PanelTasks, OnlyWorks(u)'
          PROVE  Story(u)'
      <4>1. u = t
        BY <3>1, <3>2 DEF OnlyWorks
      <4>2. \A v \in PanelTasks : ~Working(v)
        BY <2>2, <3>1, <3>2, <4>1 DEF OnlyWorks, Working
      <4>3. Standing = Msgs(rows)
        BY <2>1, <4>2 DEF Tidy
      <4> QED  BY <1>d, <3>1, <4>1, <4>3
    <3>3. doing'["set"].pc # "undo"
      BY <1>d, <2>1, <2>2 DEF Tidy
    <3>4. exists' = Channels /\ \A r, s \in rows' : r.panel = s.panel => r = s
      BY <1>d, <1>a, <2>1 DEF panel
    <3> QED  BY <3>1, <3>2, <3>3, <3>4 DEF Tidy
  <2> QED  BY <2>3, <2>4
<1>10. ASSUME NEW c \in Channels, SetChannel(c)
       PROVE  Tidy'
  <2>1. /\ doing["set"].pc = "off" /\ UNCHANGED <<exists, panel, posted, untroubled>>
        /\ UNCHANGED rows
    BY <1>10 DEF SetChannel, guildConfig, Undisturbed, panel
  <2>2. CASE chosen = c
    <3>1. [Off EXCEPT !.pc = "lock"].pc = "lock"
      BY OffFields DEF TaskRecord
    <3>2. Turns("set", [Off EXCEPT !.pc = "lock"])
      BY <1>0, <1>10, <2>2, SetTurn
    <3>3. ~Working("set")'
      BY <3>1, <3>2 DEF Turns, Working
    <3> QED  BY <1>d, <2>1, <3>1, <3>2, <3>3
  <2>3. CASE chosen # c
    <3> DEFINE d == [Off EXCEPT !.pc = "create", !.channel = c, !.panels = wanted,
                                !.stored = rows]
    <3>1. d.pc = "create" /\ d.stored = rows /\ d.kept = {}
      BY OffFields DEF TaskRecord
    <3>2. Turns("set", d)
      BY <1>0, <1>10, <2>3, SetTurn
    <3> HIDE DEF d
    <3>3. doing'["set"] = d
      BY <3>2 DEF Turns
    <3>4. Standing' = Standing
      BY <2>1 DEF Standing
    <3>5. Standing = Msgs(rows) => Story("set")'
      BY <2>1, <3>1, <3>3, <3>4 DEF Story, Msgs
    <3> QED  BY <1>d, <2>1, <3>1, <3>2, <3>5
  <2> QED  BY <2>2, <2>3
<1>11. CASE Restart
  BY <1>11, <1>c DEF Restart
<1>12. CASE DisableChannel
  <2> DEFINE d == [Off EXCEPT !.pc = "remove", !.todo = rows]
  <2>1. d.pc = "remove" /\ d.todo = rows
    BY OffFields DEF TaskRecord
  <2>2. /\ Turns("del", d) /\ doing["del"].pc = "off"
        /\ UNCHANGED <<exists, panel, posted, untroubled>>
    BY <1>0, <1>12, TurnOfStep DEF DisableChannel, guildConfig, Undisturbed
  <2> HIDE DEF d
  <2>3. doing'["del"] = d
    BY <2>2 DEF Turns
  <2>4. Standing' = Standing
    BY <2>2 DEF Standing
  <2>5. Standing = Msgs(rows) => Story("del")'
    BY <2>1, <2>3, <2>4 DEF Story, Msgs
  <2> QED  BY <1>d, <2>1, <2>2, <2>5
<1>13. CASE CreateFails \/ PersistFails
  BY <1>13, <1>c DEF CreateFails, CallFails, PersistFails
<1>14. CASE Undo
  BY <1>14, <1>b DEF Undo, Tidy
<1>15. ASSUME Created, untroubled'
       PROVE  Tidy'
  <2> DEFINE d == [doing["set"] EXCEPT !.pc = "remove", !.todo = doing["set"].stored]
  <2>1. d.pc = "remove" /\ d.todo = doing["set"].stored /\ d.kept = doing["set"].kept
    BY <1>0 DEF TaskRecord
  <2>2. Turns("set", d)
    BY <1>0, <1>15, TurnOfStep
  <2>3. /\ doing["set"].pc = "create" /\ rows' = doing["set"].kept
        /\ untroubled /\ Alone("set") /\ UNCHANGED <<exists, posted>>
    BY <1>15 DEF Created, Acts, guildConfig
  <2> HIDE DEF d
  <2>4. Story("set") /\ doing'["set"] = d
    BY <2>2, <2>3, AloneOnlyWorks DEF Working, Turns
  <2>5. Standing' = Standing
    BY <2>3 DEF Standing
  <2>6. Standing' = Msgs(d.todo) \cup Msgs(d.kept)
    BY <2>1, <2>3, <2>4, <2>5 DEF Story
  <2>7. Story("set")'
    BY <2>1, <2>3, <2>4, <2>6 DEF Story, Msgs
  <2>8. \A r, s \in rows' : r.panel = s.panel => r = s
    BY <1>0, <2>3 DEF Orderly
  <2> QED  BY <1>0, <1>a, <2>1, <2>2, <2>3, <2>7, <2>8, TidyTurn
<1> QED
  BY StepCases, <1>0, <1>b, <1>1, <1>2, <1>3, <1>4, <1>5, <1>6, <1>7, <1>8, <1>9, <1>10, <1>11,
     <1>12, <1>13, <1>14, <1>15 DEF ReconcilePanel

\* As long as no call fails, no channel goes and no two tasks meet, the messages in the
\* guild are those on record whenever no task is at work.
THEOREM StraysAreTroubled == PanelSpec => []StraysNeedTrouble
<1>1. PanelInit => Tidy
  BY OffFields, TaskKinds
     DEF PanelInit, GuildInit, Tidy, Standing, Msgs, OnlyWorks, Working
<1>2. PanelInv /\ Tidy /\ [PanelNext]_panelVars => Tidy'
  BY TidyKept
<1>3. Tidy => StraysNeedTrouble
  BY DEF Tidy, StraysNeedTrouble, Idle, Working, Standing, Msgs
<1> QED  BY PanelInvariant, <1>1, <1>2, <1>3, PTL DEF PanelSpec
=============================================================================
