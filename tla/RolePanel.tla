------------------------------ MODULE RolePanel ------------------------------
(***************************************************************************)
(* The self-service role panel of one guild (serverwatcher.py): messages   *)
(* with buttons in the guild's roles channel, reconciled with the map      *)
(* roles by events, commands and a debounced task, and moved or removed by *)
(* /setroleschannel and /delroleschannel. All of them are coroutines of    *)
(* one event loop that suspend at each call to Discord; the                *)
(* reconciliations take turns with a lock, the two commands do not.        *)
(*                                                                         *)
(* How many panel messages the map roles need is also their text: the      *)
(* title counts them.                                                      *)
(***************************************************************************)
EXTENDS DiscordGuild, FiniteSets

CONSTANTS
  MaxPanels, \* bound: how many panel messages the map roles need
  Messages,  \* bound: the panel messages in Discord or on record
  Callers    \* coroutines that call reconcile_role_panel

ASSUME PanelAssumption ==
  /\ MaxPanels \in Nat \ {0}
  /\ Callers \cap {"runner", "set", "del", "nobody"} = {}

Reconcilers == Callers \cup {"runner", "set"}
PanelTasks == Reconcilers \cup {"del"}

VARIABLES
  wanted,    \* the panel messages the map roles need
  chosen,    \* roles_channel_id
  rows,      \* guild_role_panel_messages
  posted,    \* the panel messages in Discord
  lock,      \* holder of role_panel_reconcile_lock
  doing,     \* the coroutines
  clean,     \* history: the reconciliation under way has not been disturbed
  untroubled \* history: no call failed, no channel went, no two tasks met

guildConfig == <<wanted, exists>>
panel == <<chosen, rows>>
panelHistory == <<clean, untroubled>>
panelVars == <<guildConfig, panel, posted, lock, doing, faults, panelHistory>>

Counts == 0 .. MaxPanels

\* role_panel_chunks: without roles there is still one panel.
Needs == 1 .. MaxPanels

\* What is compared of a panel message.
PanelMessage(c, panels) == [channel |-> c, text |-> panels]

Gone == [channel |-> NoChannel, text |-> 0]
PanelRow == [panel : 1 .. MaxPanels, channel : Channels, msg : Messages]

\* kept are the panels a task has made or found, todo the messages it deletes.
Off == [pc |-> "off", channel |-> NoChannel, panels |-> 0,
        stored |-> {}, kept |-> {}, todo |-> {}]

PanelTypeOK ==
  /\ GuildTypeOK /\ wanted \in Needs
  /\ chosen \in Channels \cup {NoChannel} /\ rows \in SUBSET PanelRow
  /\ posted \in [Messages -> [channel : Channels, text : Counts] \cup {Gone}]
  /\ lock \in Reconcilers \cup {"nobody"}
  /\ doing \in [PanelTasks ->
       [pc : {"off", "timer", "lock", "panels", "extras", "create", "undo", "remove"},
        channel : Channels \cup {NoChannel}, panels : Counts,
        stored : SUBSET PanelRow, kept : SUBSET PanelRow, todo : SUBSET PanelRow]]
  /\ clean \in BOOLEAN /\ untroubled \in BOOLEAN

PanelInit ==
  /\ GuildInit /\ wanted = 1 /\ chosen = NoChannel /\ rows = {}
  /\ posted = [m \in Messages |-> Gone]
  /\ lock = "nobody" /\ doing = [t \in PanelTasks |-> Off]
  /\ clean = FALSE /\ untroubled = TRUE

Idle == \A t \in PanelTasks : doing[t].pc = "off"

\* A message id nobody refers to.
FreeMessage(m) ==
  /\ posted[m] = Gone /\ \A r \in rows : r.msg # m
  /\ \A t \in PanelTasks : \A r \in doing[t].stored \cup doing[t].kept \cup doing[t].todo :
       r.msg # m

-----------------------------------------------------------------------------
(* History.                                                                  *)

Undisturbed == UNCHANGED <<clean, untroubled>>
Alone(t) == \A u \in PanelTasks \ {t} : doing[u].pc \in {"off", "timer"}

\* A step of a task that changes something: others may be working.
Acts(t) == /\ clean' = (clean /\ lock = t)
           /\ untroubled' = (untroubled /\ Alone(t))
Troubles == clean' = FALSE /\ untroubled' = FALSE

\* A call of the task fails: Discord refuses it, or the channel is gone.
CallFails(t) ==
  /\ \/ Fault
     \/ doing[t].channel \notin exists \cup {NoChannel} /\ UNCHANGED faults
  /\ Troubles

-----------------------------------------------------------------------------
(* _reconcile_role_panel_unlocked.                                           *)

\* What has not suspended yet: the settings, the roles and the rows are read.
Start(t) ==
  /\ doing[t].pc = "lock" /\ lock = "nobody"
  /\ IF chosen \in exists
     THEN /\ lock' = t
          /\ doing' = [doing EXCEPT ![t] =
               [Off EXCEPT !.pc = "panels", !.channel = chosen, !.panels = wanted,
                           !.stored = rows]]
          /\ clean' = TRUE /\ untroubled' = (untroubled /\ Alone(t))
          /\ UNCHANGED panel
     ELSE /\ chosen' = NoChannel
          /\ rows' = IF chosen = NoChannel THEN rows ELSE {}
          /\ doing' = [doing EXCEPT ![t] = Off]
          /\ UNCHANGED <<lock, clean, untroubled>>
  /\ UNCHANGED <<guildConfig, posted, faults>>

\* Mutant: the panels are numbered from zero.
NextFromZero(t) == Cardinality(doing[t].kept)

Next(t) == Cardinality(doing[t].kept) + 1

\* The recorded message of the panel in its channel, while Discord still has it.
Current(t) ==
  {r \in doing[t].stored : /\ r.panel = Next(t) /\ r.channel = doing[t].channel
                          /\ posted[r.msg] # Gone}

Posts(t, r) ==
  /\ posted' = [posted EXCEPT ![r.msg] = PanelMessage(r.channel, doing[t].panels)]
  /\ doing' = [doing EXCEPT ![t].kept = @ \cup {r}]

NewMessage(t) == {[panel |-> Next(t), channel |-> doing[t].channel, msg |-> m] :
             m \in {m \in Messages : FreeMessage(m)}}

\* Mutant: a panel that is there is taken as it is.
FetchPanelOnly(t) ==
  /\ doing[t].pc = "panels" /\ Next(t) <= doing[t].panels
  /\ doing[t].channel \in exists
  /\ IF Current(t) # {}
     THEN /\ doing' = [doing EXCEPT ![t].kept = @ \cup Current(t)]
          /\ UNCHANGED posted
     ELSE \E r \in NewMessage(t) : Posts(t, r)
  /\ Acts(t)
  /\ UNCHANGED <<guildConfig, panel, lock, faults>>

\* Each panel is fetched, and edited or sent again: also when it is there and may
\* not be read.
FetchPanel(t) ==
  /\ doing[t].pc = "panels" /\ Next(t) <= doing[t].panels
  /\ doing[t].channel \in exists
  /\ \/ /\ IF Current(t) # {} THEN \E r \in Current(t) : Posts(t, r)
           ELSE \E r \in NewMessage(t) : Posts(t, r)
        /\ Acts(t) /\ UNCHANGED faults
     \/ /\ Current(t) # {} /\ \E r \in NewMessage(t) : Posts(t, r)
        /\ Fault /\ Troubles
  /\ UNCHANGED <<guildConfig, panel, lock>>

Release(t) ==
  /\ doing' = [doing EXCEPT ![t] = Off]
  /\ lock' = IF lock = t THEN "nobody" ELSE lock

\* Nothing of what was done is recorded. The debounced task logs it.
ReconcileFails(t) ==
  /\ doing[t].pc \in {"panels", "extras"} /\ lock = t
  /\ CallFails(t) /\ Release(t)
  /\ UNCHANGED <<guildConfig, panel, posted>>

\* Mutant: messages beyond the last panel are forgotten, not deleted.
SomeExtras(t) == {r \in doing[t].stored : r.channel # doing[t].channel}

Extras(t) ==
  {r \in doing[t].stored : r.panel > doing[t].panels \/ r.channel # doing[t].channel}

PanelsDone(t) ==
  /\ doing[t].pc = "panels" /\ Next(t) > doing[t].panels
  /\ doing' = [doing EXCEPT ![t].pc = "extras", ![t].todo = Extras(t)]
  /\ UNCHANGED <<guildConfig, panel, posted, lock, faults>> /\ Undisturbed

\* delete_role_panel_messages: a message that is gone, or whose channel is, is
\* passed over; one that may not be deleted stays.
DeleteOne(t) ==
  /\ doing[t].pc \in {"extras", "remove"}
  /\ \E r \in doing[t].todo :
       /\ doing' = [doing EXCEPT ![t].todo = @ \ {r}]
       /\ \/ /\ posted' = [posted EXCEPT ![r.msg] = Gone]
             /\ Acts(t) /\ UNCHANGED faults
          \/ /\ Fault /\ Troubles
             /\ UNCHANGED posted
  /\ UNCHANGED <<guildConfig, panel, lock>>

\* replace_persisted_role_panel, and in a transaction of its own the channel it was
\* for. The second may fail, and either may have committed when it raises.
Save(t) ==
  /\ doing[t].pc = "extras" /\ doing[t].todo = {}
  /\ rows' = doing[t].kept
  /\ \/ /\ chosen' = doing[t].channel
        /\ clean' = clean /\ untroubled' = (untroubled /\ Alone(t))
        /\ UNCHANGED faults
     \/ /\ chosen' \in {chosen, doing[t].channel}
        /\ Fault /\ Troubles
  /\ Release(t)
  /\ UNCHANGED <<guildConfig, posted>>

ReconcilePanel(t) ==
  \/ Start(t) \/ FetchPanel(t) \/ ReconcileFails(t) \/ PanelsDone(t) \/ Save(t)

-----------------------------------------------------------------------------
(* Who reconciles.                                                           *)

Wants(t) == doing' = [doing EXCEPT ![t].pc = "lock"]

\* A role is created, changed or deleted: schedule_role_panel_reconcile starts
\* the debounced task, or only moves the deadline of the one there is.
RoleEvent ==
  /\ wanted' \in Needs
  /\ doing' = IF doing["runner"].pc = "off"
             THEN [doing EXCEPT !["runner"].pc = "timer"] ELSE doing
  /\ clean' = FALSE
  /\ UNCHANGED <<exists, panel, posted, lock, faults, untroubled>>

TimerEnds ==
  /\ doing["runner"].pc = "timer" /\ Wants("runner")
  /\ UNCHANGED <<guildConfig, panel, posted, lock, faults>> /\ Undisturbed

\* A coroutine that finds a roles channel calls reconcile_role_panel.
Calls(t) ==
  /\ doing[t].pc = "off" /\ chosen # NoChannel
  /\ clean' = (clean /\ wanted' = wanted)
  /\ Wants(t)
  /\ UNCHANGED <<exists, panel, posted, lock, faults, untroubled>>

\* setmaprole adds, replaces or disables the role of a map.
SetMapRole(t) == wanted' \in Needs /\ Calls(t)

\* The form of editmaprole may choose a role that members cannot take, or the first
\* one they can.
EditMapRole(t) == wanted' \in Needs /\ Calls(t)

DelMapRole(t) == wanted' \in 1 .. wanted /\ Calls(t)

\* A button finds its role gone, or the roles channel is changed.
PanelSignal(t) == wanted' = wanted /\ Calls(t)

\* on_ready: a process that has just become leader looks at the panel.
Ready(t) == Idle /\ PanelSignal(t)

\* on_guild_channel_delete.
PanelChannelDeleted(c, t) ==
  /\ c \in exists /\ exists' = exists \ {c}
  /\ posted' = [m \in Messages |-> IF posted[m].channel = c THEN Gone ELSE posted[m]]
  /\ IF chosen = c THEN doing[t].pc = "off" /\ Wants(t) ELSE UNCHANGED doing
  /\ Troubles
  /\ UNCHANGED <<wanted, panel, lock, faults>>

\* Another process leads: its memory is gone, and it reconciles (Ready).
Restart ==
  /\ doing # [t \in PanelTasks |-> Off]
  /\ doing' = [t \in PanelTasks |-> Off] /\ lock' = "nobody"
  /\ Troubles
  /\ UNCHANGED <<guildConfig, panel, posted, faults>>

-----------------------------------------------------------------------------
(* /setroleschannel and /delroleschannel.                                    *)

SetChannel(c) ==
  /\ doing["set"].pc = "off" /\ c \in exists
  /\ doing' = [doing EXCEPT !["set"] =
       IF chosen = c THEN [Off EXCEPT !.pc = "lock"]
       ELSE [Off EXCEPT !.pc = "create", !.channel = c, !.panels = wanted,
                        !.stored = rows]]
  /\ UNCHANGED <<guildConfig, panel, posted, lock, faults>> /\ Undisturbed

\* create_role_panel_set.
CreatePanel ==
  /\ doing["set"].pc = "create" /\ Next("set") <= doing["set"].panels
  /\ doing["set"].channel \in exists
  /\ \E r \in NewMessage("set") : Posts("set", r)
  /\ Acts("set")
  /\ UNCHANGED <<guildConfig, panel, lock, faults>>

CreateFails ==
  /\ doing["set"].pc = "create" /\ CallFails("set")
  /\ doing' = [doing EXCEPT !["set"].pc = "undo"]
  /\ UNCHANGED <<guildConfig, panel, posted, lock>>

\* Mutant: the messages that stood before go as well.
UndoneAll(left) == (doing["set"].kept \cup doing["set"].stored) \ left

Undone(left) == doing["set"].kept \ left

\* Deletes what it had created, as far as Discord lets it.
Undo ==
  /\ doing["set"].pc = "undo"
  /\ \E left \in SUBSET doing["set"].kept :
       /\ Cardinality(left) <= faults
       /\ faults' = faults - Cardinality(left)
       /\ posted' = [m \in Messages |->
            IF m \in {r.msg : r \in Undone(left)} THEN Gone ELSE posted[m]]
  /\ doing' = [doing EXCEPT !["set"] = Off]
  /\ clean' = FALSE
  /\ UNCHANGED <<guildConfig, panel, lock, untroubled>>

\* The old messages are removed once the new ones are on record.
Created ==
  /\ doing["set"].pc = "create" /\ Next("set") > doing["set"].panels
  /\ chosen' = doing["set"].channel /\ rows' = doing["set"].kept
  /\ doing' = [doing EXCEPT !["set"].pc = "remove", !["set"].todo = doing["set"].stored]
  /\ Acts("set")
  /\ UNCHANGED <<guildConfig, posted, lock, faults>>

\* The settings, or then the rows, cannot be written, or it is not known that they
\* were. What was created stays, and so do the old messages; the settings may name the
\* new channel already, beside the old rows. A process that stops between the two
\* commits leaves the same (and its tasks end: Restart).
PersistFails ==
  /\ doing["set"].pc = "create" /\ Next("set") > doing["set"].panels
  /\ \/ UNCHANGED panel
     \/ chosen' = doing["set"].channel /\ rows' \in {rows, doing["set"].kept}
  /\ doing' = [doing EXCEPT !["set"] = Off]
  /\ Fault /\ Troubles
  /\ UNCHANGED <<guildConfig, posted, lock>>

DisableChannel ==
  /\ doing["del"].pc = "off"
  /\ doing' = [doing EXCEPT !["del"] = [Off EXCEPT !.pc = "remove", !.todo = rows]]
  /\ UNCHANGED <<guildConfig, panel, posted, lock, faults>> /\ Undisturbed

\* A deletion raises, or the last transaction of /delroleschannel.
RemoveFails(t) ==
  /\ doing[t].pc = "remove" /\ (doing[t].todo # {} \/ t = "del") /\ CallFails(t)
  /\ doing' = [doing EXCEPT ![t] = Off]
  /\ UNCHANGED <<guildConfig, panel, posted, lock>>

PanelRemoved(t) ==
  /\ doing[t].pc = "remove" /\ doing[t].todo = {}
  /\ IF t = "del" THEN chosen' = NoChannel /\ rows' = {} ELSE UNCHANGED panel
  /\ doing' = [doing EXCEPT ![t] = Off]
  /\ Acts(t)
  /\ UNCHANGED <<guildConfig, posted, lock, faults>>

PanelNext ==
  \/ \E t \in Reconcilers : ReconcilePanel(t)
  \/ \E t \in PanelTasks : DeleteOne(t)
  \/ \E t \in {"set", "del"} : RemoveFails(t) \/ PanelRemoved(t)
  \/ \E t \in Callers :
       \/ SetMapRole(t) \/ EditMapRole(t) \/ DelMapRole(t) \/ PanelSignal(t) \/ Ready(t)
       \/ \E c \in Channels : PanelChannelDeleted(c, t)
  \/ \E c \in Channels : SetChannel(c)
  \/ RoleEvent \/ TimerEnds \/ Restart \/ DisableChannel
  \/ CreatePanel \/ CreateFails \/ Undo \/ Created \/ PersistFails

PanelSpec == PanelInit /\ [][PanelNext]_panelVars

-----------------------------------------------------------------------------
(* Properties.                                                               *)

\* The panel on record stands in c, as the roles need it.
StandsIn(c) ==
  /\ {r.panel : r \in rows} = 1 .. wanted /\ Cardinality(rows) = wanted
  /\ \A r \in rows : r.channel = c /\ posted[r.msg] = PanelMessage(c, wanted)

Complete == StandsIn(chosen)

\* A reconciliation that nothing disturbed leaves the panel as it should be, in
\* whatever state failed calls, restarts and commands that met left the rows and
\* the messages before it. (_reconcile_role_panel_unlocked.)
ReconcileHeals ==
  [][lock # "nobody" /\ lock' = "nobody" /\ clean' => Complete']_panelVars

\* As long as no call fails and no two tasks meet, the messages in the guild are
\* those on record: none is left behind when the panel grows, shrinks, moves or
\* is removed. (_reconcile_role_panel_unlocked, setroleschannel, delroleschannel.)
StraysNeedTrouble ==
  untroubled /\ Idle => {m \in Messages : posted[m] # Gone} = {r.msg : r \in rows}

\* /setroleschannel leaves a panel that stands as it is until every new message has
\* been sent, also when it fails halfway; and when it fails after that, between the
\* commit of the settings and that of the rows too, a whole panel stands in Discord and
\* on record all the same, the old one or the new. Unless another task puts a panel on
\* record in between; a change of roles meanwhile, or the loss of the new channel, is
\* for the next reconciliation. (setroleschannel: "Existing panel state is untouched
\* unless every new message succeeds", "Only after the new panel is fully persisted do
\* we remove old messages".)
SetKeepsPanel ==
  [][/\ chosen # NoChannel /\ Complete /\ doing'["set"] # doing["set"]
     /\ \/ doing["set"].pc \in {"create", "undo"} /\ rows = doing["set"].stored
        \/ doing["set"].pc = "remove" /\ rows = doing["set"].kept
     /\ doing["set"].panels = wanted /\ doing["set"].channel \in exists
     => \/ Complete'
        \/ /\ doing["set"].pc = "create" /\ Next("set") > doing["set"].panels
           /\ \E c \in Channels : StandsIn(c)']_panelVars
=============================================================================
