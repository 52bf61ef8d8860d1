---------------------------- MODULE MonitorCycle ----------------------------
(***************************************************************************)
(* ServerLifecycle composed with the Discord leader's monitor cycle        *)
(* (serverwatcher.py): the cycle reads the snapshot and the lifecycle that *)
(* fetches write, and drives player sessions and join alerts; recording a  *)
(* result closes sessions in its transaction and leaves marks in the       *)
(* memory of the process that recorded it, leading or not.                 *)
(***************************************************************************)
EXTENDS ServerLifecycle

CONSTANTS
  LeaderTasks,  \* the tasks that run in the Discord leader's process
  Horizon,      \* snapshot freshness horizon of the monitor cycle
  MaxCycle,     \* bound: how long one monitor cycle may take
  MaxDelay      \* bound: how long an observation may wait to be recorded

ASSUME CycleAssumption ==
  /\ Commands \subseteq LeaderTasks /\ LeaderTasks \subseteq Tasks
  /\ Horizon \in Nat /\ MaxCycle \in Nat /\ MaxDelay \in Nat

VARIABLES
  session,  \* a player session of the server is open
  baseline, \* needs_recovery_baseline of the outcome each task has to note
  leader,   \* the monitor cycle and its process-local flags
  roster    \* history: the server is back, its roster not; the last one alerted

cycle == <<leader, roster>>
all   == <<vars, session, baseline, cycle>>

LeaderType ==
  [pc : {"idle", "loaded", "filtered", "alert"}, began : Nat, seen : Stamps,
   confirmed : BOOLEAN, baselined : BOOLEAN, recovery : BOOLEAN,
   quiet : BOOLEAN, recovering : BOOLEAN, joined : BOOLEAN]

CycleTypeOK ==
  /\ TypeOK
  /\ session \in BOOLEAN
  /\ baseline \in [Tasks -> BOOLEAN]
  /\ leader \in LeaderType
  /\ roster \in [recovering : BOOLEAN, alerted : BOOLEAN]

\* A process that has just become leader has seen no roster.
Started ==
  [pc |-> "idle", began |-> Start, seen |-> None, confirmed |-> FALSE,
   baselined |-> FALSE, recovery |-> FALSE, quiet |-> FALSE,
   recovering |-> FALSE, joined |-> FALSE]

CycleInit ==
  /\ Init
  /\ session \in {FALSE, server.state = "CONFIRMED"}
  /\ baseline = [f \in Tasks |-> FALSE]
  /\ leader = Started
  /\ roster = [recovering |-> FALSE, alerted |-> FALSE]

-----------------------------------------------------------------------------
(* Fetches, with what they do outside the row.                               *)

NeedsBaseline(f) ==
  \/ Verdict(f).state \in Offline
  \/ Verdict(f).state = "CONFIRMED" /\ server.state \in Offline

\* The transaction that moved the row closed its sessions, or nothing happened.
Committed ==
  /\ session' = (session /\ ~GoesOffline(server, server'))
  /\ roster' = [roster EXCEPT !.recovering =
                  @ \/ (server.state \in Offline /\ server'.state = "CONFIRMED")]

RecordResult(f) ==
  /\ Record(f) /\ Committed
  /\ baseline' = [baseline EXCEPT ![f] = NeedsBaseline(f)]
  /\ UNCHANGED leader

RecordResultRaises(f) ==
  /\ RecordRaises(f) /\ Committed
  /\ UNCHANGED <<baseline, leader>>

\* The process that recorded the result, and only that one, remembers that its
\* next roster is a baseline.
NoteResult(f) ==
  /\ Note(f)
  /\ leader' = [leader EXCEPT !.recovery = @ \/ (f \in LeaderTasks /\ baseline[f])]
  /\ baseline' = [baseline EXCEPT ![f] = FALSE]
  /\ UNCHANGED <<session, roster>>

\* Crash is the end of one worker; the leader's tasks end with it (NewLeader).
Unseen(f) ==
  /\ \/ Begin(f) \/ Answer(f) \/ Store(f) \/ StoreRaises(f)
     \/ Reply(f) \/ Superseded(f)
     \/ f \notin LeaderTasks /\ Crash(f)
  /\ baseline' = [baseline EXCEPT ![f] = FALSE]
  /\ UNCHANGED <<session, cycle>>

\* Failures never settle here.
Surroundings ==
  /\ \/ Revalidate
     \/ /\ Tick
        /\ leader.pc # "idle" => now - leader.began < MaxCycle
        /\ \A f \in Tasks : fetch[f].pc \in {"store", "record", "note"} =>
                             Clock(f) - fetch[f].at < MaxDelay
  /\ UNCHANGED <<session, baseline, cycle>>

-----------------------------------------------------------------------------
(* The monitor cycle.                                                        *)

Fresh == /\ server.state \in Online /\ snapshot # None
         /\ now - snapshot <= Horizon

\* Only a server that is on the cycle's list when it begins can count as confirmed.
Load ==
  /\ leader.pc = "idle"
  /\ leader' = [leader EXCEPT !.pc = "loaded", !.began = now,
                              !.confirmed = server.state \in Online,
                              !.seen = IF Fresh THEN snapshot ELSE None]
  /\ UNCHANGED <<vars, session, baseline, roster>>

\* Mutant: the roster of a server in GRACE is used.
UsableOnline == server.state \in Online

Usable == server.state = "CONFIRMED"

\* The states are read in a later transaction than the snapshots.
Filter ==
  /\ leader.pc = "loaded"
  /\ leader' = [leader EXCEPT
       !.pc = "filtered",
       !.confirmed = @ /\ Usable,
       !.seen = IF Usable THEN @ ELSE None]
  /\ UNCHANGED <<vars, session, baseline, roster>>

Ended == [Started EXCEPT !.baselined = leader.baselined,
                         !.recovery = leader.recovery]

\* A confirmed server whose roster went missing restarts from a baseline.
NoRoster ==
  /\ leader.pc = "filtered" /\ leader.seen = None
  /\ leader' = [Ended EXCEPT
       !.recovery = @ \/ (leader.confirmed /\ leader.baselined)]
  /\ UNCHANGED <<vars, session, baseline, roster>>

\* The roster opens a session for a player who has none, keeps one open, and
\* may close one: the two-sighting confirmation of departures is left out.
Sessions(present) == session' \in IF present THEN {TRUE} ELSE {session, FALSE}

History ==
  /\ leader.pc = "filtered" /\ leader.seen # None
  /\ \E present \in BOOLEAN :
       /\ Sessions(present)
       /\ leader' = [leader EXCEPT
            !.pc = "alert", !.seen = None, !.confirmed = FALSE,
            !.quiet = ~leader.baselined \/ leader.recovery,
            !.recovering = leader.recovery,
            !.joined = present /\ ~session]
  /\ UNCHANGED <<vars, baseline, roster>>

\* The transaction raises, having committed or not, and the cycle skips the rest.
HistoryRaises ==
  /\ disturbed /\ leader.pc = "filtered" /\ leader.seen # None
  /\ session' = session \/ \E present \in BOOLEAN : Sessions(present)
  /\ leader' = Ended
  /\ UNCHANGED <<vars, baseline, roster>>

\* A baseline roster announces no joins (a player watched by name may still be
\* announced once as being online when the process starts).
Alert ==
  /\ leader.pc = "alert"
  /\ leader' = [Ended EXCEPT !.baselined = TRUE,
                             !.recovery = @ /\ ~leader.recovering]
  /\ roster' = [recovering |-> FALSE, alerted |-> leader.joined /\ ~leader.quiet]
  /\ UNCHANGED <<vars, session, baseline>>

\* Another process leads, or the same one again, with nothing in memory.
NewLeader ==
  /\ disturbed
  /\ leader' = Started
  /\ fetch' = [f \in Tasks |-> IF f \in LeaderTasks THEN Idle ELSE fetch[f]]
  /\ baseline' = [f \in Tasks |-> f \notin LeaderTasks /\ baseline[f]]
  /\ UNCHANGED <<now, disturbed, rows, session, roster>>

FetchStep(f) ==
  RecordResult(f) \/ RecordResultRaises(f) \/ NoteResult(f) \/ Unseen(f)

Monitor == Load \/ Filter \/ NoRoster \/ History \/ HistoryRaises \/ Alert

CycleNext == (\E f \in Tasks : FetchStep(f)) \/ Monitor \/ NewLeader \/ Surroundings

CycleSpec == CycleInit /\ [][CycleNext]_all

-----------------------------------------------------------------------------
(* Properties.                                                               *)

\* A cycle and the recording of an observation are over within the grace period,
\* by the clocks of any two workers.
Timely == \A f, g \in Tasks : MaxCycle + MaxDelay + Skew[g] - Skew[f] < Grace

\* A server that goes offline leaves no session open and none is opened while
\* it stays so, although the monitor cycle opens sessions from a snapshot it
\* read earlier without looking at the lifecycle again. Holds as long as the cycles
\* are Timely.
\* (apply_keeper_lifecycle_result, monitor_cycle, _process_player_history_server_db.)
NoSessionWhileOffline == server.state \in Offline => ~session

\* The first roster after a server came back online is a baseline that alerts
\* nobody. (CHANGELOG.md:541; needs_recovery_baseline, process_player_history.)
RecoveryIsBaseline ==
  [][roster.recovering /\ ~roster'.recovering => ~roster'.alerted]_all
=============================================================================
