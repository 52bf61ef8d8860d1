------------------------- MODULE ServerMessagesInv -------------------------
(***************************************************************************)
(* The inductive invariants of ServerMessages. They speak of the plans of   *)
(* the two coroutines: which operations a plan may hold and in which order, *)
(* what each operation relies on, and what the plan will still put right.   *)
(*   NoticesInv  types, the mention of the role, notices that contradict    *)
(*   KeptInv     every message in Discord is on record, or about to be      *)
(*   HealInv     what is not right yet is what the cycle still does         *)
(***************************************************************************)
EXTENDS ServerMessages

Procedures == {"reconcile", "announce", "post", "refresh", "display", "add",
               "activate", "confirm", "end"}
Deeds == Procedures \cup
  {"delete", "forget", "edit", "send", "record", "clear eta", "clear lists", "check",
   "compare", "build", "set", "remove"}
Fates == {"go on", "note", "stop", "abort"}
Operation == [do : Deeds, kind : Kinds, fail : Fates]

Places == Channels \cup {NoChannel}
Known == [Kinds -> Message \cup {None}]
TaskRecord ==
  [todo : Seq(Operation), route : Places, users : BOOLEAN, old : Known, made : Known,
   ping : BOOLEAN, failed : BOOLEAN]

TypesHold ==
  /\ MessagesTypeOK /\ task \in [Tasks -> TaskRecord]
  /\ \A k \in Kinds : live[k] \subseteq Referred(k, tracked, task)

-----------------------------------------------------------------------------
(* What a plan promises.                                                     *)

\* An operation that mentions the role, or one that a notice takes.
Mentions(op) == op.do \in {"send", "edit"} /\ op.kind = "notice"
Notes(op) == op.do = "record" /\ op.kind = "notice" /\ op.fail = "stop"
Notices(op) == Mentions(op) \/ Notes(op)
Recovers(op) == op.do = "record" /\ op.kind = "recovery"
Forgets(op) == op.do = "forget" /\ op.kind = "recovery" /\ op.fail = "stop"

\* What a procedure about a notice never has before the notice.
Bars(op) == op.do \in Procedures \/ Recovers(op)

HasNotice(s) == \E i \in DOMAIN s : Notices(s[i])
HasMention(s) == \E i \in DOMAIN s : Mentions(s[i])
HasRecovery(s) == \E i \in DOMAIN s : Recovers(s[i])

\* The notice that the server is back goes before the other one is sent or recorded.
ForgetsFirst(s) ==
  \A i \in DOMAIN s : Notices(s[i]) => \E j \in DOMAIN s : j < i /\ Forgets(s[j])

\* A notice is recorded right after it was sent or edited, only once, and before all else.
Regular(s) ==
  /\ \A i \in DOMAIN s : Mentions(s[i]) => i + 1 \in DOMAIN s /\ Notes(s[i + 1])
  /\ \A i, j \in DOMAIN s : Notes(s[i]) /\ Notes(s[j]) => i = j
  /\ \A i, j \in DOMAIN s : Notices(s[i]) /\ j < i => ~Bars(s[j])

\* A notice that was made and is not on record is recorded next; who is done knows
\* nothing.
Steady(tk) ==
  /\ Regular(tk.todo)
  /\ tk.made["notice"] # None => tk.todo # <<>> /\ Notes(Head(tk.todo))
  /\ tk.todo = <<>> => tk = Free

-----------------------------------------------------------------------------
(* The inductive invariant.                                                  *)

\* The mention of this outage is on record, or about to be.
Mentioned ==
  lifecycle = "offline" /\ pings # 0 =>
    pinged \/ \E t \in Tasks : task[t].ping /\ task[t].made["notice"] # None

Undisturbed ==
  /\ ~(Busy("monitor") /\ Busy("command"))
  /\ pings <= 1 /\ Mentioned
  /\ \A t \in Tasks :
       /\ task[t].ping /\ HasMention(task[t].todo) => pings = 0
       /\ HasNotice(task[t].todo) => tracked["recovery"] = None \/ ForgetsFirst(task[t].todo)
  /\ tracked["notice"] = None \/ tracked["recovery"] = None

NoticesInv ==
  /\ TypesHold
  /\ \A t \in Tasks : Steady(task[t])
  /\ \A t \in Tasks : HasRecovery(task[t].todo) => lifecycle # "offline"
  /\ excuses = {} => Undisturbed

-----------------------------------------------------------------------------
(* What a plan may still do, and in which order.                             *)

PlayerKinds == Listed \cup {"eta"}

Plan(tk) == Range(tk.todo)

Posts(op) == op.do \in {"send", "edit"}
Removes(op, k) == op.do \in {"delete", "forget"} /\ op.kind = k
Clears(op, k) == \/ op.do = "clear eta" /\ k = "eta"
                 \/ op.do = "clear lists" /\ k \in Listed
Records(op, k) == op.do = "record" /\ (op.kind = k \/ (op.kind = "list1" /\ k \in Listed))

\* What decides where the server is shown, and the check before it.
Decides(op) == op.do \in {"set", "add", "activate", "remove"}
Guards(op) == op.do = "check" /\ op.fail = "abort"

\* What is shown where the list of players is at home only.
NeedsHome(op) ==
  \/ op.do \in {"display", "compare", "build"}
  \/ (Posts(op) \/ op.do = "record") /\ op.kind \in PlayerKinds

\* What a task may do after a procedure: another one, but none that decides.
Routine(op) == op.do \in Procedures \ {"add", "activate"}

\* What is left to do while a message of the kind was made and is not on record.
Allows(k, op) ==
  \/ Records(op, k) \/ Routine(op)
  \/ /\ k = "status"
     /\ op.do \in {"clear eta", "clear lists"} \/ (op.do = "forget" /\ op.fail = "note")
  \/ k = "eta" /\ op.do = "compare"
  \/ /\ k \in Listed
     /\ \/ Posts(op) /\ op.kind \in Listed \ {k}
        \/ op.do = "forget" /\ op.fail = "go on"

Closing == {"compare", "build", "set", "remove"}

Precedes(a, b) ==
  /\ a.do \notin {"remove", "add", "activate"}
  /\ a.do \in Procedures \cup Closing => Routine(b)
  /\ a.do = "refresh" => b.do # "reconcile"
  /\ a.do = "set" => b.do # "end"
  /\ a.do = "record" => Routine(b) \/ (a.kind = "eta" /\ b.do = "compare")
  /\ Posts(a) => Allows(a.kind, b)
  /\ a.do = "edit" /\ a.kind = "eta" => b.do # "record"
  /\ Guards(a) => b.do \notin {"clear eta", "clear lists"} /\ b.fail # "note"

Ordered(s) == \A i, j \in DOMAIN s : i < j => Precedes(s[i], s[j])

\* What is sent or edited, but the time of the next update where it is, is put on
\* record, or all stops; a list is not deleted without being forgotten.
Closes(op, plan) ==
  /\ Posts(op) /\ ~(op.do = "edit" /\ op.kind = "eta") => \E b \in plan : Records(b, op.kind)
  /\ op.do = "record" => op.fail = "stop"
  /\ op.do = "delete" =>
       op.kind \notin Listed /\ (op.kind = "eta" => \A b \in plan : ~Decides(b))

Orderly(tk) ==
  /\ Ordered(tk.todo)
  /\ \A a \in Plan(tk) : Closes(a, Plan(tk))
  /\ \A k \in Kinds : tk.made[k] # None =>
       /\ \E b \in Plan(tk) : Records(b, k)
       /\ \A b \in Plan(tk) : Allows(k, b)

-----------------------------------------------------------------------------
(* What a plan relies on, given the messages on record, those in Discord, and *)
(* the channel of the server with its list of players.                        *)

Gone(k, trk, msgs) == trk[k] \notin msgs[k]
Current(tk, k, trk) == tk.old[k] = trk[k]

Removal(tk, k, trk, msgs) ==
  \/ Gone(k, trk, msgs)
  \/ Current(tk, k, trk) /\ \E a \in Plan(tk) : Removes(a, k) /\ a.fail = "stop"

\* The server may be shown elsewhere, or no more.
Settled(tk, op, k, trk, msgs, r) ==
  IF k \in PlayerKinds
  THEN trk[k] = None \/ (op.do # "remove" /\ tk.route = r /\ tk.users)
  ELSE op.do = "remove" => Gone(k, trk, msgs)

WillClear(tk, a, k, trk) ==
  \/ Clears(a, k)
  \/ /\ Removes(a, k) /\ a.fail = "note" /\ Current(tk, k, trk)
     /\ k \in PlayerKinds => a.do = "forget"

Remembers(tk, a, trk, msgs) ==
  /\ a.do \in {"forget", "edit"} => Current(tk, a.kind, trk) \/ Gone(a.kind, trk, msgs)
  /\ a.do = "edit" /\ a.kind \in Listed => Current(tk, a.kind, trk)
  /\ a.do \in {"compare", "build"} => \A k \in Listed : Current(tk, k, trk)

Replaces(tk, a, trk, msgs) ==
  /\ a.do = "send" => Removal(tk, a.kind, trk, msgs)
  /\ Recovers(a) => Removal(tk, "notice", trk, msgs)

Leaves(tk, a, trk, msgs, r) ==
  Decides(a) => \A k \in Kinds :
    \/ Settled(tk, a, k, trk, msgs, r)
    \/ /\ \E b \in Plan(tk) : Guards(b)
       /\ tk.failed \/ \E b \in Plan(tk) : WillClear(tk, b, k, trk)

AtHome(tk, a, r, u) ==
  NeedsHome(a) => IF \E b \in Plan(tk) : b.do = "set" THEN tk.users
                  ELSE u /\ tk.route = r

Fits(tk, a, trk, msgs, r, u) ==
  /\ Remembers(tk, a, trk, msgs) /\ Replaces(tk, a, trk, msgs)
  /\ Leaves(tk, a, trk, msgs, r) /\ AtHome(tk, a, r, u)

Held(tk, k, trk, msgs, r) ==
  tk.made[k] # None =>
    /\ tk.made[k] = trk[k] \/ Gone(k, trk, msgs)
    /\ k \in Listed /\ tk.made[k] = tk.old[k] => tk.made[k] = trk[k]
    /\ k \in PlayerKinds => tk.made[k].channel = r

Faithful(tk, trk, msgs, r, u) ==
  /\ \A a \in Plan(tk) : Fits(tk, a, trk, msgs, r, u)
  /\ \A k \in Kinds : Held(tk, k, trk, msgs, r)

\* The list of players is shown in the server's channel, if at all.
Home(trk, r, u) == \A k \in PlayerKinds : trk[k] # None => u /\ trk[k].channel = r

\* A message in Discord is on record, or about to be.
Accounted(msgs, trk, made) ==
  \A k \in Kinds : \A m \in msgs[k] : m = trk[k] \/ \E t \in Tasks : m = made[t][k]

MadeBy(tasks) == [t \in Tasks |-> tasks[t].made]

Kept ==
  /\ ~abandoned /\ Home(tracked, route, users)
  /\ Accounted(live, tracked, MadeBy(task))
  /\ \A t \in Tasks : Faithful(task[t], tracked, live, route, users)

KeptInv ==
  /\ \A t \in Tasks : Orderly(task[t])
  /\ excuses = {} => Kept

-----------------------------------------------------------------------------
(* What one undisturbed cycle will still do.                                 *)

\* What may come before the notice that the server is back.
Leading(a) ==
  /\ a.do \notin {"check", "compare", "build", "edit", "display"}
  /\ a.do = "record" => a.kind # "eta"

\* What a cycle does for a server that is offline.
Quiet(tk) == \A a \in Plan(tk) :
  /\ a.do \in {"reconcile", "end", "clear eta", "clear lists", "check", "delete",
               "forget", "send", "edit", "record"}
  /\ Posts(a) \/ a.do = "record" => a.kind = "notice"

Healed(trk, msgs, r) ==
  /\ trk["notice"] # None /\ trk["notice"] \in msgs["notice"]
  /\ trk["notice"].channel = r
  /\ \A k \in Kinds \ {"notice"} : trk[k] = None

Withdrawn(a, k) == Clears(a, k) \/ (a.do = "forget" /\ a.kind = k)
Withdraws(tk, trk) ==
  \A k \in Kinds \ {"notice"} : trk[k] = None \/ \E a \in Plan(tk) : Withdrawn(a, k)

Sends(tk, msgs, r) ==
  \/ tk.made["notice"] \in msgs["notice"] /\ tk.made["notice"].channel = r
  \/ \E a \in Plan(tk) : a.do = "send"
  \/ /\ \E a \in Plan(tk) : a.do = "edit"
     /\ tk.old["notice"].channel = r /\ \A a \in Plan(tk) : ~Removes(a, "notice")

ShowsOffline(tk, trk, msgs, r) ==
  /\ Quiet(tk)
  /\ \/ \E a \in Plan(tk) : a.do = "reconcile"
     \/ /\ Withdraws(tk, trk) /\ tk.route = r /\ Sends(tk, msgs, r)
        /\ \E a \in Plan(tk) : Records(a, "notice")
     \/ Healed(trk, msgs, r) /\ \A a \in Plan(tk) : a.do = "end"

ShowsBack(tk, trk) ==
  /\ \A a \in Plan(tk) : ~Records(a, "notice")
  /\ \/ trk["notice"] = None
     \/ /\ \A a \in Plan(tk) : Leading(a)
        /\ \E a \in Plan(tk) : a.do = "reconcile" \/ Recovers(a)

Restores(tk, trk, msgs, r) ==
  /\ ~tk.failed
  /\ lifecycle = "offline" => ShowsOffline(tk, trk, msgs, r)
  /\ lifecycle = "confirmed" => ShowsBack(tk, trk)

HealInv ==
  calm => /\ ~Busy("command")
          /\ route # NoChannel /\ exists = Channels =>
               Restores(task["monitor"], tracked, live, route)
=============================================================================
