---------------------------- MODULE ServerMessages ----------------------------
(***************************************************************************)
(* The messages the Discord leader keeps in a guild about one server        *)
(* (serverwatcher.py): the announcement of its map, the notice that it is   *)
(* offline, the notice that it is back, and the list of its players with    *)
(* the time of its next update above it. guild_server_state and             *)
(* guild_server_player_messages track them. The monitor cycle and           *)
(* /defaultserver change them in coroutines of one event loop, which        *)
(* suspend at each call to Discord.                                         *)
(*                                                                          *)
(* A task is the sequence of the operations it still has to do. An          *)
(* operation that reads the database replaces itself by those that follow   *)
(* from what it read; a call to Discord is an operation of its own.         *)
(***************************************************************************)
EXTENDS DiscordGuild, Sequences, Functions

CONSTANT Ids \* bound: messages of a kind in a channel, to tell them apart

ASSUME MessagesAssumption == Ids \subseteq Nat

Lists == <<"list1", "list2">> \* bound: two messages hold the longest list
Listed == Range(Lists)
Kinds == {"status", "notice", "recovery", "eta", "list1", "list2"}
Tasks == {"monitor", "command"}

Message == [channel : Channels, id : Ids]
None == [channel |-> NoChannel, id |-> 0]
Nothing == [k \in Kinds |-> None]

VARIABLES
  lifecycle, \* of the server: CONFIRMED, GRACE, or STALE and RETIRED
  map,       \* last_map_key: none, that of the server's map now, or another
  route,     \* announcement_channel_id of the default server
  users,     \* include_users
  tracked,   \* the message of each kind the database has
  pinged,    \* management_notified_at is set
  live,      \* the messages of each kind in Discord that something refers to
  task,      \* the coroutines
  pings,     \* history: mentions of the management role in this outage
  excuses,   \* history: what may explain an abandoned message or a second mention
  calm,      \* history: nothing has disturbed the monitor's cycle
  abandoned  \* history: a message in Discord that nothing refers to any more

server == <<lifecycle, map, exists>>
config == <<route, users>>
history == <<pings, excuses, calm, abandoned>>
messagesVars == <<server, config, tracked, pinged, live, task, faults, history>>

\* An operation: what it does, to which kind of message, and what a failure of it
\* means: to go on, to note it and go on, to stop the procedure, or the task.
Op(do, kind, fail) == [do |-> do, kind |-> kind, fail |-> fail]
Run(do) == Op(do, "status", "go on")
End == Run("end")

\* old: messages read from the database; made: messages sent and not on record yet.
Free == [todo |-> <<>>, route |-> NoChannel, users |-> FALSE,
         old |-> Nothing, made |-> Nothing, ping |-> FALSE, failed |-> FALSE]

MessagesTypeOK ==
  /\ lifecycle \in {"confirmed", "grace", "offline"}
  /\ map \in {"none", "current", "old"}
  /\ GuildTypeOK /\ route \in Channels \cup {NoChannel}
  /\ users \in BOOLEAN /\ pinged \in BOOLEAN
  /\ tracked \in [Kinds -> Message \cup {None}]
  /\ live \in [Kinds -> SUBSET Message]
  /\ \A t \in Tasks :
       /\ task[t].route \in Channels \cup {NoChannel}
       /\ task[t].users \in BOOLEAN
       /\ task[t].old \in [Kinds -> Message \cup {None}]
       /\ task[t].made \in [Kinds -> Message \cup {None}]
       /\ task[t].ping \in BOOLEAN /\ task[t].failed \in BOOLEAN
       /\ \A i \in DOMAIN task[t].todo : task[t].todo[i].kind \in Kinds
  /\ pings \in 0 .. 2 /\ excuses \subseteq {"unrecorded", "met", "partial"}
  /\ calm \in BOOLEAN /\ abandoned \in BOOLEAN

MessagesInit ==
  /\ lifecycle = "confirmed" /\ map = "none" /\ GuildInit
  /\ route = NoChannel /\ users = FALSE
  /\ tracked = Nothing /\ pinged = FALSE
  /\ live = [k \in Kinds |-> {}]
  /\ task = [t \in Tasks |-> Free]
  /\ pings = 0 /\ excuses = {} /\ calm = FALSE /\ abandoned = FALSE

-----------------------------------------------------------------------------
(* Messages and what refers to them.                                         *)

Referred(k, trk, tsk) == {trk[k]} \cup UNION {{tsk[t].old[k], tsk[t].made[k]} : t \in Tasks}

\* What Discord has after a step: a message nothing refers to is only counted.
Discord(messages) ==
  /\ live' = [k \in Kinds |-> messages[k] \cap Referred(k, tracked', task')]
  /\ abandoned' = (abandoned \/ (live' # messages /\ excuses' \subseteq {"partial"}))

\* An id that neither Discord nor anybody's memory has for the kind.
New(k, c) ==
  LET ids == {i \in Ids : [channel |-> c, id |-> i] \notin
                live[k] \cup Referred(k, tracked, task)}
  IN  [channel |-> c, id |-> CHOOSE i \in ids : \A j \in ids : i <= j]

Busy(t) == task[t].todo # <<>>

\* Coroutines take turns where they wait for Discord or start a procedure. Between a
\* notice and its record lies the message in the guild's log, of the first notice of an
\* outage and of the recovery.
Between(t) == Busy(t) =>
  LET op == Head(task[t].todo)
  IN  /\ op.do \notin {"clear eta", "clear lists", "check", "build"}
      /\ op.do = "record" =>
           op.kind = "recovery" \/ (op.kind = "notice" /\ task[t].ping)

\* A command that starts while the monitor is in its cycle is a fault as well. (The
\* cycle that starts during a command overlaps with it in the same ways: bound.)
Meets ==
  IF Busy("monitor")
  THEN /\ Fault /\ Between("monitor")
       /\ excuses' = excuses \cup {"met"}
  ELSE UNCHANGED <<faults, excuses>>

\* Nothing changes but what the task does next.
OnlyThinks ==
  /\ UNCHANGED <<server, config, tracked, pinged, faults, pings, excuses, calm>>
  /\ Discord(live)

Doing(t, do) == /\ Busy(t) /\ Head(task[t].todo).do = do
                /\ \A u \in Tasks \ {t} : Between(u)
Kind(t) == Head(task[t].todo).kind

\* A procedure that is over leaves the task its plan only.
Over(t, todo) ==
  IF todo = <<>> THEN Free
  ELSE [Free EXCEPT !.todo = todo, !.route = task[t].route, !.users = task[t].users]

\* The task goes on with what it does next.
Goes(t, next) == task' = [task EXCEPT ![t] =
  IF next.todo = <<>> THEN Free
  ELSE IF Head(next.todo) = End THEN Over(t, Tail(next.todo)) ELSE next]
Then(t, ops) == [task[t] EXCEPT !.todo = ops \o Tail(@)]

\* Skips the rest of the procedure.
Stopped(t) ==
  LET todo == task[t].todo
      ends == {i \in DOMAIN todo : todo[i] = End}
  IN  IF ends = {} THEN Free
      ELSE Over(t, SubSeq(todo, 1 + CHOOSE i \in ends : \A j \in ends : i <= j, Len(todo)))

Failing(t) ==
  CASE Head(task[t].todo).fail = "go on" -> Then(t, <<>>)
    [] Head(task[t].todo).fail = "note"  -> [Then(t, <<>>) EXCEPT !.failed = TRUE]
    [] Head(task[t].todo).fail = "stop"  -> Stopped(t)
    [] Head(task[t].todo).fail = "abort" -> Free

-----------------------------------------------------------------------------
(* Calls to Discord.                                                         *)

Old(t) == task[t].old[Kind(t)]

\* delete_discord_message, clear_persistent_player_eta and
\* delete_player_message_rows: a message that is already gone counts as deleted.
Delete(t) ==
  /\ Doing(t, "delete") \/ Doing(t, "forget")
  /\ Reach(Old(t).channel)
  /\ tracked' = IF Doing(t, "forget") THEN [tracked EXCEPT ![Kind(t)] = None] ELSE tracked
  /\ Goes(t, [Then(t, <<>>) EXCEPT !.old[Kind(t)] = None])
  /\ UNCHANGED <<server, config, pinged, faults, pings, excuses, calm>>
  /\ Discord([live EXCEPT ![Kind(t)] = @ \ {Old(t)}])

\* The list is given up with messages that were sent and will not be recorded.
Half(t) == IF \E k \in Listed : task[t].made[k] # task[t].old[k] /\ task[t].made[k] # None
           THEN {"partial"} ELSE {}

\* The message is edited; one that is gone is sent again.
Edit(t) ==
  /\ Doing(t, "edit") /\ Reach(Old(t).channel)
  /\ IF Old(t) \in live[Kind(t)]
     THEN Goes(t, IF Kind(t) = "eta" THEN [Then(t, <<>>) EXCEPT !.old["eta"] = None]
                  ELSE [Then(t, <<>>) EXCEPT !.made[Kind(t)] = Old(t)])
     ELSE Goes(t, IF Kind(t) \in Listed THEN Stopped(t) ELSE
       Then(t, <<Op("send", Kind(t), "stop")>> \o
               IF Kind(t) = "eta" THEN <<Op("record", "eta", "stop")>> ELSE <<>>))
  /\ excuses' = excuses \cup IF Old(t) \in live[Kind(t)] THEN {} ELSE Half(t)
  /\ UNCHANGED <<server, config, tracked, pinged, faults, pings, calm>>
  /\ Discord(live)

\* A notice that is sent mentions the role if it should.
Mentioning(t) ==
  pings' = IF Kind(t) = "notice" /\ task[t].ping /\ pings < 2 THEN pings + 1 ELSE pings

Send(t) ==
  /\ Doing(t, "send") /\ Reach(task[t].route)
  /\ LET m == New(Kind(t), task[t].route)
     IN  /\ Goes(t, [Then(t, <<>>) EXCEPT !.made[Kind(t)] = m])
         /\ UNCHANGED <<tracked, excuses>>
         /\ Discord([live EXCEPT ![Kind(t)] = @ \cup {m}])
  /\ Mentioning(t)
  /\ UNCHANGED <<server, config, pinged, faults, calm>>

\* Discord sends the message, and its answer is lost.
Unanswered(t) ==
  /\ Doing(t, "send") /\ Reach(task[t].route) /\ Fault
  /\ Goes(t, Failing(t)) /\ Mentioning(t)
  /\ excuses' = excuses \cup {"unrecorded"} /\ calm' = FALSE
  /\ UNCHANGED tracked /\ Discord(live)
  /\ UNCHANGED <<server, config, pinged>>

\* Discord refuses the call, or its channel cannot be resolved; or the transaction
\* that is to put a message on record fails.
Fails(t) ==
  /\ \E do \in {"delete", "forget", "edit", "send", "record"} : Doing(t, do)
  /\ \/ Fault
     \/ /\ ~Doing(t, "record") /\ UNCHANGED faults
        /\ ~Reach(IF Doing(t, "send") THEN task[t].route ELSE Old(t).channel)
  /\ Goes(t, Failing(t))
  /\ excuses' = excuses \cup
       CASE Doing(t, "record") -> {"unrecorded"}
         [] Doing(t, "send") \/ Doing(t, "edit") -> Half(t)
         [] OTHER -> {}
  /\ calm' = FALSE /\ UNCHANGED tracked
  /\ Discord(live)
  /\ UNCHANGED <<server, config, pinged, pings>>

-----------------------------------------------------------------------------
(* What the procedures do after a look at the database.                      *)

\* The operation on a message, if the database has one.
IfAny(k, do, fail) == IF tracked[k] = None THEN <<>> ELSE <<Op(do, k, fail)>>

Reads(t, kinds) == [k \in Kinds |-> IF k \in kinds THEN tracked[k] ELSE task[t].old[k]]

\* clear_persistent_player_stack.
Stack == <<Run("clear eta"), Run("clear lists")>>

Look(t, do, kinds, ops) ==
  /\ Doing(t, do)
  /\ Goes(t, [Then(t, ops) EXCEPT !.old = Reads(t, kinds)])
  /\ OnlyThinks

Clear(t) ==
  \/ Look(t, "clear eta", {"eta"}, IfAny("eta", "forget", "note"))
  \/ Look(t, "clear lists", Listed,
          IfAny("list1", "forget", "note") \o IfAny("list2", "forget", "note"))

\* Mutant: what could not be deleted is of no consequence.
NoCheck(t) ==
  /\ Doing(t, "check") /\ Goes(t, Then(t, <<>>))
  /\ OnlyThinks

\* Whether what was to be cleared is gone.
Check(t) ==
  /\ Doing(t, "check") /\ Goes(t, IF task[t].failed THEN Failing(t) ELSE Then(t, <<>>))
  /\ OnlyThinks

\* post_automatic_announcement, about a new map or after a command.
Announce(t, do) ==
  Look(t, do, {"status", "recovery"},
    IF ~Reach(task[t].route) THEN <<>> ELSE
      (IF do = "announce" THEN IfAny("recovery", "forget", "stop") ELSE <<>>)
      \o IfAny("status", "delete", "stop") \o <<Op("send", "status", "stop")>>
      \o (IF do = "announce" /\ task[t].users THEN Stack ELSE <<>>)
      \o <<Op("record", "status", "stop"), End>>)

\* Mutants: the notice that the server is back stays; the other notice is edited
\* wherever it is.
KeepsRecovery ==
  IfAny("status", "forget", "stop") \o Stack \o <<Op("check", "status", "stop")>>
  \o <<IF tracked["notice"] = None THEN Op("send", "notice", "stop")
       ELSE Op("edit", "notice", "stop"), Op("record", "notice", "stop"), End>>

EditsAnywhere ==
  IfAny("status", "forget", "stop") \o Stack \o <<Op("check", "status", "stop")>>
  \o IfAny("recovery", "forget", "stop")
  \o <<IF tracked["notice"] = None THEN Op("send", "notice", "stop")
       ELSE Op("edit", "notice", "stop"), Op("record", "notice", "stop"), End>>

\* reconcile_server_lifecycle_discord for a server that is STALE or RETIRED: all
\* else goes before the notice is edited, moved or sent.
ShowOffline ==
  IfAny("status", "forget", "stop") \o Stack \o <<Op("check", "status", "stop")>>
  \o IfAny("recovery", "forget", "stop")
  \o (IF tracked["notice"] # None /\ tracked["notice"].channel = route
      THEN <<Op("edit", "notice", "stop")>>
      ELSE IfAny("notice", "delete", "stop") \o <<Op("send", "notice", "stop")>>)
  \o <<Op("record", "notice", "stop"), End>>

\* For one that is CONFIRMED and has a notice still.
ShowRecovery ==
  <<Op("delete", "notice", "stop"), Op("send", "recovery", "stop"),
    Op("record", "recovery", "stop"), End>>

\* Mutant: the role is mentioned whenever a notice is sent.
AlwaysPings == TRUE
ShouldPing == ~pinged

Reconcile(t) ==
  /\ Doing(t, "reconcile")
  /\ Goes(t, [Then(t,
       CASE ~Reach(route) -> <<>>
         [] Reach(route) /\ lifecycle = "offline" -> ShowOffline
         [] Reach(route) /\ lifecycle = "confirmed" /\ tracked["notice"] # None ->
              ShowRecovery
         [] OTHER -> <<>>)
       EXCEPT !.old = Reads(t, {"status", "recovery", "notice"}),
              !.route = route, !.ping = ShouldPing, !.failed = FALSE])
  /\ OnlyThinks

\* refresh_persistent_player_displays: what the monitor keeps a list for. The
\* roster comes with the snapshot of the cycle.
Listable == lifecycle = "confirmed" /\ users /\ route # NoChannel

\* update_persistent_player_display.
Display(t, do) ==
  LET c == IF do = "refresh" THEN route ELSE task[t].route
      due == do = "refresh" => Listable
  IN  /\ Doing(t, do)
      /\ Goes(t, [Then(t,
           CASE ~due -> <<>>
             [] due /\ ~Reach(c) ->
                  IF \A k \in Listed : tracked[k] = None THEN <<>> ELSE Stack
             [] OTHER ->
                  (IF tracked["eta"] # None /\ tracked["eta"].channel = c
                   THEN <<Op("edit", "eta", "stop")>>
                   ELSE IfAny("eta", "delete", "stop")
                        \o <<Op("send", "eta", "stop"), Op("record", "eta", "stop")>>)
                  \o <<Run("compare"), End>>)
           EXCEPT !.old = Reads(t, Listed \cup {"eta"}), !.route = c, !.failed = FALSE])
      /\ OnlyThinks

OldLists(t) == {k \in Listed : task[t].old[k] # None}
InPlace(t) == {k \in OldLists(t) : task[t].old[k].channel = task[t].route}

\* player_display_messages_exist.
AllThere(t) == \A k \in OldLists(t) : task[t].old[k] \in live[k]

\* A list that has not changed stays, whether or not it is looked for. Otherwise
\* its messages are edited while Discord has all of them, and else removed.
Compare(t) ==
  /\ Doing(t, "compare")
  /\ \/ /\ OldLists(t) # {} /\ InPlace(t) = OldLists(t)
        /\ Goes(t, Stopped(t)) /\ UNCHANGED faults
     \/ AllThere(t) /\ Goes(t, Then(t, <<Run("build")>>)) /\ UNCHANGED faults
     \/ /\ OldLists(t) # {}
        /\ \/ ~AllThere(t) /\ UNCHANGED faults
           \/ AllThere(t) /\ Fault
        /\ Goes(t, Then(t, <<Run("clear lists"), Op("check", "list1", "stop"),
                             Run("build")>>))
  /\ calm' = (calm /\ faults' = faults) /\ UNCHANGED <<tracked, excuses>>
  /\ Discord(live)
  /\ UNCHANGED <<server, config, pinged, pings>>

Build(t) ==
  /\ Doing(t, "build")
  /\ \E n \in DOMAIN Lists :
       LET op(k) == IF k \in InPlace(t) THEN Op("edit", k, "stop") ELSE Op("send", k, "stop")
           excess(k) == IF k \in InPlace(t) THEN <<Op("forget", k, "go on")>> ELSE <<>>
       IN  Goes(t, Then(t,
             (IF n = 1 THEN <<op("list1")>> \o excess("list2")
              ELSE <<op("list1"), op("list2")>>)
             \o <<Op("record", "list1", "stop")>>))
  /\ OnlyThinks

\* The messages a transaction puts on record: a list's all at once, and those that
\* are not made again stay as they are.
Recorded(t) ==
  {k \in IF Kind(t) = "list1" THEN Listed ELSE {Kind(t)} : task[t].made[k] # None}

\* What the transaction after a message was sent does.
Record(t) ==
  /\ Doing(t, "record")
  /\ Goes(t, [Then(t, IF Kind(t) = "eta" /\ OldLists(t) # {}
                      THEN <<Run("clear lists"), Op("check", "list1", "stop")>>
                      ELSE <<>>) EXCEPT !.made = Nothing])
  /\ tracked' = [k \in Kinds |->
       CASE k = "notice" /\ Kind(t) = "recovery" -> None
         [] k \in Recorded(t) -> task[t].made[k]
         [] OTHER -> tracked[k]]
  /\ pinged' = CASE Kind(t) = "notice" -> pinged \/ task[t].ping
                 [] Kind(t) = "recovery" -> FALSE
                 [] OTHER -> pinged
  /\ map' = IF Kind(t) = "status" THEN "current" ELSE map
  /\ UNCHANGED <<lifecycle, exists, config, faults, pings, excuses, calm>>
  /\ Discord(live)

-----------------------------------------------------------------------------
(* The commands.                                                             *)

\* What a command does once the server's channel is set: its announcement and its
\* list if Keeper answers, or else its notice.
Shows(u) == IF lifecycle = "offline" THEN <<Run("reconcile")>>
            ELSE <<Run("post")>> \o (IF u THEN <<Run("display")>> ELSE <<>>)

\* bound: no other command follows once there is an excuse.
Commands(ops, c, u) ==
  /\ ~Busy("command") /\ excuses = {}
  /\ task' = [task EXCEPT !["command"] =
       [Free EXCEPT !.todo = ops, !.route = c, !.users = u, !.old = tracked]]
  /\ Meets /\ calm' = FALSE
  /\ UNCHANGED tracked /\ Discord(live)
  /\ UNCHANGED <<server, config, pinged, pings>>

\* default_add, which refuses the default server of another channel, but clears a
\* list that is not wanted first.
DefaultAdd(c, u) ==
  LET clear == IF users /\ ~u THEN Stack \o <<Op("check", "eta", "abort")>> ELSE <<>>
  IN  /\ Reach(c)
      /\ \/ route \in {NoChannel, c} /\ Commands(clear \o <<Run("add")>>, c, u)
         \/ route \notin {NoChannel, c} /\ clear # <<>> /\ Commands(clear, c, u)

\* default_modify.
DefaultModify(c) ==
  /\ Reach(c) /\ route \notin {NoChannel, c} /\ lifecycle # "grace"
  /\ Commands((IF users THEN Stack \o <<Op("check", "eta", "abort")>> ELSE <<>>)
              \o IfAny("status", "delete", "abort") \o <<Run("set")>> \o Shows(users),
              c, users)

Sets(ops) ==
  /\ Goes("command", Then("command", ops))
  /\ route' = task["command"].route /\ users' = task["command"].users
  /\ UNCHANGED <<server, tracked, pinged, faults, pings, excuses, calm>>
  /\ Discord(live)

Moved == Doing("command", "set") /\ Sets(<<>>)

\* Of a server in GRACE Keeper has no snapshot, and the command fails.
Added ==
  /\ Doing("command", "add")
  /\ IF lifecycle = "grace"
     THEN Goes("command", [task["command"] EXCEPT !.todo = <<>>]) /\ OnlyThinks
     ELSE Sets(Shows(task["command"].users))

\* addserver with make_default, of a server that is no default yet. The notice of a
\* server that is offline is left to the monitor.
AddServer(c) ==
  Reach(c) /\ route = NoChannel /\ Commands(<<Run("activate")>>, c, FALSE)

Activated == Doing("command", "activate") /\ Sets(<<Run("confirm")>>)

\* Keeper is asked at once, and need not answer.
Confirmed ==
  /\ Doing("command", "confirm")
  /\ \E ops \in {<<>>, <<Run("post")>>} :
       /\ ops # <<>> => lifecycle = "confirmed"
       /\ Goes("command", Then("command", ops))
  /\ OnlyThinks

\* cleanup_guild_server_discord_state.
Cleanup ==
  IfAny("status", "delete", "note") \o IfAny("notice", "delete", "note")
  \o IfAny("recovery", "delete", "note") \o Stack
  \o <<Op("check", "eta", "abort"), Run("remove")>>

DefaultRemove == Commands(Cleanup, NoChannel, FALSE)

\* delserver, which refuses a default server.
DelServer == route = NoChannel /\ DefaultRemove

Removed ==
  /\ Doing("command", "remove")
  /\ Goes("command", Then("command", <<>>))
  /\ route' = NoChannel /\ users' = FALSE /\ map' = "none" /\ pinged' = FALSE
  /\ tracked' = [k \in Kinds |-> IF k \in Listed THEN tracked[k] ELSE None]
  /\ pings' = 0
  /\ UNCHANGED <<lifecycle, exists, faults, excuses, calm>>
  /\ Discord(live)

Does(t) ==
  \/ Delete(t) \/ Edit(t) \/ Send(t) \/ Unanswered(t) \/ Fails(t)
  \/ Clear(t) \/ Check(t)
  \/ Announce(t, "announce") \/ Announce(t, "post") \/ Reconcile(t)
  \/ Display(t, "refresh") \/ Display(t, "display")
  \/ Compare(t) \/ Build(t) \/ Record(t)

-----------------------------------------------------------------------------
(* The monitor cycle, and what happens around it.                            *)

\* The snapshot of a CONFIRMED server may be missing, and may show a new map. The
\* first one only seeds last_map_key.
Cycle ==
  /\ \A t \in Tasks : ~Busy(t)
  /\ \E fresh, newMap \in BOOLEAN :
       LET seen == IF newMap /\ map = "current" THEN "old" ELSE map
           default == route # NoChannel
       IN  /\ (newMap => fresh) /\ (fresh => lifecycle = "confirmed")
           /\ map' = IF fresh /\ default /\ seen = "none" THEN "current" ELSE seen
           /\ task' = [task EXCEPT !["monitor"] =
                [Free EXCEPT !.route = route, !.users = users,
                   !.todo = (IF default /\ seen = "old" /\ fresh THEN <<Run("announce")>>
                             ELSE <<>>)
                            \o <<Run("reconcile")>>
                            \o (IF fresh THEN <<Run("refresh")>> ELSE <<>>)]]
  /\ calm' = TRUE
  /\ UNCHANGED <<lifecycle, exists, config, tracked, pinged, faults, pings, excuses>>
  /\ Discord(live)

\* A server is STALE after an hour of 404s: longer than a cycle or a command takes.
Keeper ==
  /\ lifecycle' \in CASE lifecycle = "confirmed" -> {"grace"}
                      [] lifecycle = "grace" -> {"confirmed", "offline"}
                      [] lifecycle = "offline" -> {"confirmed"}
  /\ lifecycle' = "offline" => \A t \in Tasks : ~Busy(t)
  /\ pings' = IF lifecycle' = "grace" THEN pings ELSE 0
  /\ calm' = FALSE
  /\ UNCHANGED <<map, exists, config, tracked, pinged, live, task, faults,
                 excuses, abandoned>>

Trouble == Fault /\ calm' = FALSE

\* Somebody deletes a message in Discord.
Vanish(k) ==
  /\ Trouble /\ live[k] # {}
  /\ \E m \in live[k] : live' = [live EXCEPT ![k] = @ \ {m}]
  /\ UNCHANGED <<server, config, tracked, pinged, task, pings, excuses, abandoned>>

\* on_guild_channel_delete leaves the servers of the channel to the managers.
ChannelDeleted(c) ==
  /\ Trouble /\ c \in exists /\ exists' = exists \ {c}
  /\ live' = [k \in Kinds |-> {m \in live[k] : m.channel # c}]
  /\ UNCHANGED <<lifecycle, map, config, tracked, pinged, task, pings, excuses,
                 abandoned>>

\* Another process leads.
Crash ==
  /\ Trouble /\ \E t \in Tasks : Busy(t)
  /\ task' = [t \in Tasks |-> Free] /\ UNCHANGED tracked
  /\ excuses' = IF \E t \in Tasks : task[t].made # Nothing
                THEN excuses \cup {"unrecorded"} ELSE excuses
  /\ Discord(live)
  /\ UNCHANGED <<server, config, pinged, pings>>

MessagesNext ==
  \/ \E t \in Tasks : Does(t)
  \/ Added \/ Moved \/ Activated \/ Confirmed \/ Removed \/ DefaultRemove \/ DelServer
  \/ \E c \in Channels :
       \/ DefaultModify(c) \/ AddServer(c) \/ ChannelDeleted(c)
       \/ \E u \in BOOLEAN : DefaultAdd(c, u)
  \/ Cycle \/ Keeper \/ Crash
  \/ \E k \in Kinds : Vanish(k)

MessagesSpec == MessagesInit /\ [][MessagesNext]_messagesVars

-----------------------------------------------------------------------------
(* Properties.                                                               *)

Stands(k) == tracked[k] # None /\ tracked[k] \in live[k]

\* No message is left in Discord that nothing remembers, whichever deletions fail
\* and whichever channels and messages go, unless the process ended or a call failed
\* between a message and its record, the two coroutines met, or half a list was sent.
\* (delete_discord_message's callers, clear_persistent_player_stack,
\* update_persistent_player_display, default_modify, default_remove.)
NothingAbandoned == abandoned => excuses # {}

\* The notice that the server is offline and the one that it is back never stand
\* together, with the same excuses: what failed between a message and its record, and
\* coroutines that met. (reconcile_server_lifecycle_discord,
\* post_automatic_announcement.)
NoContradiction == Stands("notice") /\ Stands("recovery") => excuses # {}

\* The management role is mentioned once in an outage, although the notice is sent
\* again when it is moved or gone when it is to be edited, with the same excuses.
\* (reconcile_server_lifecycle_discord.)
MentionedOnce == pings > 1 => excuses # {}

\* In Discord there is nothing of the server but what is on record of the kind.
OnlyRecorded == ~abandoned /\ \A k \in Kinds : live[k] \subseteq {tracked[k]}

\* One undisturbed cycle of the monitor puts right what is shown of a server, whatever
\* failures, lost messages and commands came before it: of one that is offline its
\* notice is on record, stands in the server's channel, and is all that is on record;
\* of one that is back no notice is. It is also all there is in Discord, unless a
\* message was sent and not put on record, the two coroutines had met or half a list
\* was sent: what those leave behind nothing refers to, and no cycle takes it away.
\* (reconcile_server_lifecycle_discord, refresh_persistent_player_displays.)
Shown ==
  /\ lifecycle = "offline" =>
       /\ Stands("notice") /\ tracked["notice"].channel = route
       /\ \A k \in Kinds \ {"notice"} : tracked[k] = None
  /\ lifecycle = "confirmed" => tracked["notice"] = None
  /\ excuses = {} => OnlyRecorded

CycleHeals ==
  [][/\ calm' /\ Busy("monitor") /\ ~Busy("monitor")'
     /\ route # NoChannel /\ exists = Channels
     => Shown']_messagesVars
=============================================================================
