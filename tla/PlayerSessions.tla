---------------------------- MODULE PlayerSessions ----------------------------
(***************************************************************************)
(* The player sessions of one server and the alerts about one watched      *)
(* player (serverwatcher.py). The Discord leader's cycle turns rosters of  *)
(* names into sessions; players are known by persona where an alias or     *)
(* Battlelog tells, and a worker of any process or the leader itself may   *)
(* resolve a session later. The leader announces sessions of the watched   *)
(* player, now or once they are resolved.                                  *)
(*                                                                         *)
(* A persona stands for its player. The server stays CONFIRMED except      *)
(* where it goes offline and comes back (Offline).                         *)
(***************************************************************************)
EXTENDS Naturals, FiniteSets

CONSTANTS
  Players, Names,
  Nobody,      \* no persona, or not in the game
  WatchedName, \* the name the watch was created with
  MaxSessions  \* bound: how many sessions are opened

ASSUME SessionAssumption ==
  /\ Nobody \notin Players \cup Names /\ WatchedName \in Names
  /\ MaxSessions \in Nat

SessionIds == 1 .. MaxSessions

VARIABLES
  distributed, \* persona.distributed_enabled, which does not change here
  playing,  \* the name each player uses on the server
  sessions, \* rows of bf4_player_sessions
  aliases,  \* rows of bf4_player_aliases
  watch,    \* persona of the guild_player_watches row
  alerted,  \* sessions with a guild_player_watch_alerts row
  monitor,  \* the leader's cycle and its process-local state
  sent,     \* history: sessions announced in Discord
  excused,  \* history: whose message or record of it failed
  twice,    \* history: announced again
  passed,   \* history: resolved and found to be somebody else
  missed    \* history: sightings since the last roster that had them, up to two

setting == <<distributed, playing>>
tables == <<sessions, aliases, watch, alerted>>
told == <<sent, excused, twice, passed, missed>>
sessionVars == <<setting, tables, monitor, told>>

Unopened == [state |-> "unused", name |-> WatchedName, persona |-> Nobody, marked |-> FALSE]

SessionRow ==
  [state : {"unused", "open", "closed"}, name : Names, persona : Players \cup {Nobody},
   marked : BOOLEAN]

\* item is the session evaluate_player_watch_alerts is at.
MonitorType ==
  [pc : {"history", "queue", "joins", "enrich", "marks"}, baselined : BOOLEAN,
   recovery : BOOLEAN, quiet : BOOLEAN, absent : SUBSET SessionIds,
   queue : SUBSET SessionIds, joins : SUBSET SessionIds, marks : SUBSET SessionIds,
   eligible : SUBSET SessionIds, item : SessionIds \cup {0},
   at : {"decide", "send", "record", "clear"}]

\* Only where a session is evaluated about a mark is the mark cleared after it.
SessionsTypeOK ==
  /\ distributed \in BOOLEAN
  /\ playing \in [Players -> Names \cup {Nobody}]
  /\ sessions \in [SessionIds -> SessionRow]
  /\ aliases \subseteq Players \X Names
  /\ watch \in Players \cup {Nobody}
  /\ monitor \in MonitorType
  /\ monitor.at # "decide" => monitor.item # 0
  /\ monitor.at = "clear" => monitor.pc = "marks"
  /\ alerted \in SUBSET SessionIds /\ sent \in SUBSET SessionIds
  /\ excused \in SUBSET SessionIds /\ twice \in SUBSET SessionIds
  /\ passed \in SUBSET SessionIds /\ missed \in [SessionIds -> 0 .. 2]

\* A process that has just become leader.
NewMonitor ==
  [pc |-> "history", baselined |-> FALSE, recovery |-> FALSE, quiet |-> FALSE,
   absent |-> {}, queue |-> {}, joins |-> {}, marks |-> {}, eligible |-> {},
   item |-> 0, at |-> "decide"]

SessionsInit ==
  /\ distributed \in BOOLEAN
  /\ playing = [p \in Players |-> Nobody]
  /\ sessions = [s \in SessionIds |-> Unopened]
  /\ aliases = {} /\ watch \in Players \cup {Nobody}
  /\ alerted = {} /\ sent = {} /\ excused = {} /\ twice = {} /\ passed = {}
  /\ missed = [s \in SessionIds |-> 0]
  /\ monitor = NewMonitor

Open == {s \in SessionIds : sessions[s].state = "open"}
Unresolved == {s \in Open : sessions[s].persona = Nobody}

-----------------------------------------------------------------------------
(* _process_player_history_server_db: one roster, in one transaction.        *)

Roster == {playing[p] : p \in Players} \ {Nobody}

\* The one persona an alias gives the name, if it is only one.
Known(n) ==
  LET owners == {p \in Players : <<p, n>> \in aliases}
  IN  IF Cardinality(owners) = 1 THEN CHOOSE p \in owners : TRUE ELSE Nobody

\* By persona, else by name.
Matches(n) ==
  LET persona == {s \in Open : Known(n) # Nobody /\ sessions[s].persona = Known(n)}
  IN  IF persona # {} THEN persona ELSE {s \in Open : sessions[s].name = n}

\* The sessions the roster's names go to: new ones where nothing matches, one for
\* all names of a persona.
Assignments ==
  {f \in [Roster -> SessionIds] : \A n \in Roster :
     /\ Matches(n) # {} => f[n] \in Matches(n)
     /\ Matches(n) = {} =>
          /\ sessions[f[n]].state = "unused"
          /\ \A m \in Roster \ {n} :
               f[m] = f[n] <=> /\ Matches(m) = {} /\ Known(m) = Known(n)
                               /\ Known(n) # Nobody}

\* A session without a persona takes the one its name is known by, and only a
\* session with a persona takes another name.
Sighted(s, names) ==
  LET known == {Known(n) : n \in names} \ {Nobody}
      persona == IF sessions[s].persona # Nobody \/ known = {} THEN sessions[s].persona
                 ELSE CHOOSE p \in known : TRUE
  IN  {[state |-> "open", persona |-> persona, name |-> n,
        marked |-> sessions[s].marked] : n \in names}

\* Mutant: a session is closed by the first roster that does not have it.
ClosesAtOnce(s) == TRUE

\* A departure takes two rosters in a row.
Closes(s) == s \in monitor.absent

Closed(s) == [sessions[s] EXCEPT !.state = "closed", !.marked = FALSE]

History(f) ==
  LET seen == {f[n] : n \in Roster}
      gone == {s \in Open \ seen : Closes(s)}
  IN  /\ \E next \in [SessionIds -> UNION {Sighted(s, {n \in Roster : f[n] = s}) : s \in seen}
                             \cup {sessions[s] : s \in SessionIds} \cup {Closed(s) : s \in gone}] :
           /\ \A s \in SessionIds :
                IF s \in seen THEN next[s] \in Sighted(s, {n \in Roster : f[n] = s})
                ELSE next[s] = IF s \in gone THEN Closed(s) ELSE sessions[s]
           /\ sessions' = next
      /\ aliases' = aliases \cup
           {<<sessions'[f[n]].persona, n>> : n \in {m \in Roster :
                                               sessions'[f[m]].persona # Nobody}}
      /\ missed' = [s \in SessionIds |-> IF s \in Open \ seen THEN IF missed[s] < 2
                                  THEN missed[s] + 1 ELSE 2 ELSE 0]

-----------------------------------------------------------------------------
(* process_player_history.                                                   *)

\* The absences are remembered once the transaction is over.
Sight ==
  /\ monitor.pc = "history"
  /\ \E f \in Assignments :
       LET seen == {f[n] : n \in Roster}
           new == {s \in seen : sessions[s].state = "unused"}
           baseline == ~monitor.baselined \/ monitor.recovery
       IN  /\ History(f)
           /\ monitor' = [monitor EXCEPT
                !.pc = "queue", !.quiet = baseline,
                !.absent = {s \in Open \ seen : s \notin @},
                !.queue = {s \in new : sessions'[s].persona = Nobody},
                !.joins = IF baseline /\ monitor.baselined THEN {} ELSE new]
  /\ UNCHANGED <<setting, watch, alerted, sent, excused, twice, passed>>

\* queue_player_enrichment: the marks in a transaction of their own, and for the
\* fallback the same in memory. Only a recovery's baseline leaves no marks.
Queue ==
  /\ monitor.pc = "queue"
  /\ LET allowed == ~monitor.quiet \/ ~monitor.baselined
         marked == IF allowed THEN monitor.queue ELSE {}
     IN  /\ sessions' = [s \in SessionIds |-> IF s \in marked
                           THEN [sessions[s] EXCEPT !.marked = TRUE] ELSE sessions[s]]
         /\ monitor' = [monitor EXCEPT !.pc = "joins", !.queue = {},
                          !.eligible = IF distributed THEN @ ELSE @ \cup marked]
  /\ UNCHANGED <<setting, aliases, watch, alerted, told>>

Evaluate(s) == monitor' = [monitor EXCEPT !.item = s, !.at = "decide"]

JoinAlert ==
  /\ monitor.pc = "joins" /\ monitor.item = 0
  /\ \/ \E s \in monitor.joins :
          monitor' = [monitor EXCEPT !.item = s, !.at = "decide", !.joins = @ \ {s}]
     \/ /\ monitor.joins = {}
        /\ monitor' = [monitor EXCEPT !.pc = "enrich", !.baselined = TRUE,
                                      !.recovery = FALSE, !.quiet = FALSE]
  /\ UNCHANGED <<setting, tables, told>>

-----------------------------------------------------------------------------
(* evaluate_player_watch_alerts for the session monitor.item.                *)

item == monitor.item

\* The persona decides where both are known, the name otherwise.
Watched(s) ==
  IF sessions[s].persona # Nobody /\ watch # Nobody
  THEN sessions[s].persona = watch
  ELSE sessions[s].name = WatchedName

\* Mutant: a session is announced whether or not it was before.
DueAgain(s) == s \in Open /\ Watched(s)

Due(s) == s \in Open /\ Watched(s) /\ s \notin alerted

\* Mutant: the mark is cleared wherever the session was evaluated.
AfterItemClears == [monitor EXCEPT !.at = "clear"]

AfterItem ==
  IF monitor.pc = "marks" THEN [monitor EXCEPT !.at = "clear"]
  ELSE [monitor EXCEPT !.item = 0, !.at = "decide"]

Decide ==
  /\ item # 0 /\ monitor.at = "decide"
  /\ monitor' = IF Due(item) THEN [monitor EXCEPT !.at = "send"] ELSE AfterItem
  /\ passed' = passed \cup {s \in {item} : sessions[s].persona # Nobody /\ ~Watched(s)}
  /\ UNCHANGED <<setting, tables, sent, excused, twice, missed>>

SendAlert ==
  /\ item # 0 /\ monitor.at = "send"
  /\ monitor' = [monitor EXCEPT !.at = "record"]
  /\ sent' = sent \cup {item}
  /\ twice' = twice \cup ({item} \cap sent)
  /\ UNCHANGED <<setting, tables, excused, passed, missed>>

\* The guild or its channel is not there, or Discord refuses: logged, not kept.
AlertFails ==
  /\ item # 0 /\ monitor.at = "send"
  /\ monitor' = AfterItem
  /\ excused' = excused \cup {item}
  /\ UNCHANGED <<setting, tables, sent, twice, passed, missed>>

\* The watch takes the persona of the session it matched by name.
RecordAlert ==
  /\ item # 0 /\ monitor.at = "record"
  /\ alerted' = alerted \cup {item}
  /\ watch' = IF watch = Nobody /\ sessions[item].name = WatchedName
              THEN sessions[item].persona ELSE watch
  /\ monitor' = AfterItem
  /\ UNCHANGED <<setting, sessions, aliases, told>>

RecordAlertRaises ==
  /\ item # 0 /\ monitor.at = "record"
  /\ excused' = excused \cup {item}
  /\ monitor' = AfterItem
  /\ UNCHANGED <<setting, tables, sent, twice, passed, missed>>

-----------------------------------------------------------------------------
(* Resolving sessions by the names on the server's page.                     *)

\* What the page says of the sessions in some set, with the aliases it adds.
Resolves(ids) ==
  LET named(s) == {p \in Players : playing[p] = sessions[s].name}
      found == {s \in ids \cap Unresolved : named(s) # {}}
      persona(s) == CHOOSE p \in named(s) : TRUE
  IN  /\ sessions' = [s \in SessionIds |-> IF s \in found
                        THEN [sessions[s] EXCEPT !.persona = persona(s)] ELSE sessions[s]]
      /\ aliases' = aliases \cup {<<persona(s), sessions[s].name>> : s \in found}
      /\ \/ watch' = watch /\ (watch # Nobody
              \/ \A s \in found : sessions[s].name # WatchedName)
         \/ watch = Nobody /\ \E s \in found :
              sessions[s].name = WatchedName /\ watch' = persona(s)

\* _apply_persona_identities, by any worker at any time.
WorkerResolves ==
  /\ distributed /\ Unresolved # {}
  /\ Resolves(Unresolved)
  /\ UNCHANGED <<setting, alerted, monitor, told>>

\* process_player_persona_enrichment with process_pending_persona_alerts, or the
\* leader's own look at the page, whose answer may be an error.
Enrich ==
  /\ monitor.pc = "enrich"
  /\ IF distributed
     THEN /\ monitor' = [monitor EXCEPT !.pc = "marks", !.marks =
               {s \in SessionIds : sessions[s].marked /\ sessions[s].persona # Nobody}]
          /\ UNCHANGED <<sessions, aliases, watch>>
     ELSE \/ /\ Resolves(Unresolved)
             /\ monitor' = [monitor EXCEPT !.pc = "marks", !.marks =
                  {s \in Unresolved : sessions'[s].persona # Nobody}]
          \/ /\ monitor' = [monitor EXCEPT !.pc = "marks"]
             /\ UNCHANGED <<sessions, aliases, watch>>
  /\ UNCHANGED <<setting, alerted, told>>

\* Mutant: only the sessions this process has queued are evaluated.
NeedsLookIfEligible(s) == s \in monitor.eligible

\* The fallback only evaluates what is eligible in its memory.
NeedsLook(s) == distributed \/ s \in monitor.eligible

NextMark ==
  /\ monitor.pc = "marks" /\ monitor.item = 0
  /\ \/ \E s \in monitor.marks :
          monitor' = [monitor EXCEPT
            !.item = s, !.marks = @ \ {s}, !.eligible = @ \ {s},
            !.at = IF NeedsLook(s) THEN "decide" ELSE "clear"]
     \/ /\ monitor.marks = {}
        /\ monitor' = [monitor EXCEPT !.pc = "history"]
  /\ UNCHANGED <<setting, tables, told>>

ClearMark ==
  /\ item # 0 /\ monitor.at = "clear"
  /\ sessions' = [sessions EXCEPT ![item].marked = FALSE]
  /\ monitor' = [monitor EXCEPT !.item = 0, !.at = "decide"]
  /\ UNCHANGED <<setting, aliases, watch, alerted, told>>

-----------------------------------------------------------------------------
(* Surroundings.                                                             *)

\* A player joins, leaves or takes another name.
Play(p, n) ==
  /\ n # playing[p] /\ (n = Nobody \/ n \notin Roster)
  /\ Cardinality({s \in SessionIds : sessions[s].state = "unused"}) > Cardinality(Roster)
     \/ n = Nobody
  /\ playing' = [playing EXCEPT ![p] = n]
  /\ UNCHANGED <<distributed, tables, monitor, told>>

\* A confirmed server's roster is missing.
Missing ==
  /\ monitor.pc = "history" /\ monitor.baselined /\ ~monitor.recovery
  /\ monitor' = [monitor EXCEPT !.recovery = TRUE]
  /\ UNCHANGED <<setting, tables, told>>

\* A Keeper worker's transaction takes the server offline; another confirms it
\* again before the next roster.
Offline ==
  /\ Open # {}
  /\ sessions' = [s \in SessionIds |-> IF s \in Open THEN Closed(s) ELSE sessions[s]]
  /\ missed' = [s \in SessionIds |-> 0]
  /\ UNCHANGED <<setting, aliases, watch, alerted, monitor, sent, excused, twice, passed>>

\* Another process leads. A message sent and not recorded is as good as lost.
NewLeads ==
  /\ monitor # NewMonitor
  /\ monitor' = NewMonitor
  /\ excused' = excused \cup (IF item # 0 /\ monitor.at = "record" THEN {item} ELSE {})
  /\ UNCHANGED <<setting, tables, sent, twice, passed, missed>>

SessionsNext ==
  \/ Sight \/ Queue \/ JoinAlert \/ Decide \/ SendAlert \/ AlertFails \/ RecordAlert
  \/ RecordAlertRaises \/ WorkerResolves \/ Enrich \/ NextMark \/ ClearMark
  \/ (\E p \in Players, n \in Names \cup {Nobody} : Play(p, n))
  \/ Missing \/ Offline \/ NewLeads

SessionsSpec == SessionsInit /\ [][SessionsNext]_sessionVars

-----------------------------------------------------------------------------
(* Properties.                                                               *)

\* A session is announced again only when its message or the record of it had
\* failed, although a cycle, a mark and a new leader may each announce it.
\* (evaluate_player_watch_alerts.)
AnnouncedOnce == twice \subseteq excused

\* A roster closes a session only when the one before had no sight of it either,
\* whoever led when it was taken. (_process_player_history_server_db.)
DepartureTakesTwo ==
  [][monitor.pc = "history" /\ monitor'.pc = "queue" =>
       \A s \in Open : sessions'[s].state = "closed" => missed'[s] = 2]_sessionVars

\* A session marked for later evaluation keeps its mark until the watched player
\* has been announced, or the session was resolved and found not to be theirs, or
\* the message failed: also when another worker resolved it and when the leader
\* changed meanwhile. (process_pending_persona_alerts.)
MarksStand ==
  \A s \in Open :
    /\ sessions[s].marked /\ sessions[s].persona = watch /\ watch # Nobody
    /\ sessions'[s].state = "open" /\ ~sessions'[s].marked
    => s \in sent \cup excused \cup passed

MarkOutlivesLeader == [][distributed => MarksStand]_sessionVars
=============================================================================
