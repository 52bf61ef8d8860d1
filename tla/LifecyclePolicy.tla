-------------------------- MODULE LifecyclePolicy --------------------------
(* The pure lifecycle policy of server_lifecycle.py and the row update that  *)
(* apply_keeper_lifecycle_result makes with it under the server row lock:    *)
(* how one Keeper observation changes the lifecycle columns of a server.     *)
EXTENDS Integers

CONSTANTS Grace,         \* GRACE_PERIOD, in ticks
          StaleProbe,    \* STALE_PROBE_INTERVAL
          Retirement,    \* RETIREMENT_PERIOD
          ConsoleProbe   \* CONSOLE_RETIRED_PROBE_INTERVAL

ASSUME PolicyAssumption ==
  /\ Grace \in Nat \ {0} /\ StaleProbe \in Nat \ {0}
  /\ Retirement \in Nat \ {0} /\ ConsoleProbe \in Nat \ {0}
  /\ Grace < Retirement

\* SQL NULL in a timestamp column; every timestamp is a natural number.
None == -1
Stamps == Nat \cup {None}

Online  == {"DISCOVERED", "CONFIRMED", "GRACE"}
Offline == {"STALE", "RETIRED"}
Results == {"SUCCESS", "NOT_FOUND", "ERROR"}

\* The lifecycle columns of a bf4_servers row; console says whether its platform
\* is in CONSOLE_PLATFORMS.
LifecycleRow ==
  [console : BOOLEAN, state : Online \cup Offline, first404 : Stamps,
   retiredAt : Stamps, probe : Stamps, lastResult : Stamps, lastSuccess : Stamps]

Discovered(console) ==
  [console |-> console, state |-> "DISCOVERED", first404 |-> None,
   retiredAt |-> None, probe |-> None, lastResult |-> None, lastSuccess |-> None]

\* A row the 0023 migration confirmed from a snapshot fetched at `at', or
\* (at = None) without one.
Migrated(console, at) ==
  [Discovered(console) EXCEPT !.state = "CONFIRMED", !.lastResult = at, !.lastSuccess = at]

-----------------------------------------------------------------------------
\* Mutant: every 404 restarts the outage.
OutageStartAgain(row, at) == at

OutageStart(row, at) == IF row.first404 = None THEN at ELSE row.first404

OutagePhase(age) == IF age >= Retirement THEN "RETIRED"
                    ELSE IF age >= Grace THEN "STALE" ELSE "GRACE"

\* Mutant: retired PC servers are probed too.
NextProbeForAll(console, phase, at) ==
  CASE phase = "RETIRED" -> at + ConsoleProbe
    [] phase = "STALE"   -> at + StaleProbe
    [] phase = "GRACE"   -> None

NextProbe(console, phase, at) ==
  CASE phase = "RETIRED" -> IF console THEN at + ConsoleProbe ELSE None
    [] phase = "STALE"   -> at + StaleProbe
    [] phase = "GRACE"   -> None

NotFound(row, at) ==
  LET first == OutageStart(row, at)
      phase == OutagePhase(at - first)
  IN  [row EXCEPT !.state = phase,
                  !.first404 = first,
                  !.retiredAt = IF phase # "RETIRED" THEN None
                                ELSE IF row.retiredAt = None THEN at
                                ELSE row.retiredAt,
                  !.probe = NextProbe(row.console, phase, at)]

Succeeded(row, at) ==
  [row EXCEPT !.state = "CONFIRMED", !.first404 = None, !.retiredAt = None,
              !.probe = None, !.lastSuccess = at]

\* Mutant: an error becomes a state.
DecideError(row, result, at) ==
  CASE result = "SUCCESS"   -> Succeeded(row, at)
    [] result = "NOT_FOUND" -> NotFound(row, at)
    [] result = "ERROR"     -> [row EXCEPT !.state = "ERROR"]

Decide(row, result, at) ==
  CASE result = "SUCCESS"   -> Succeeded(row, at)
    [] result = "NOT_FOUND" -> NotFound(row, at)
    [] result = "ERROR"     -> row

\* Mutant: the watermark is not looked at.
OutOfOrderNever(at, watermark) == FALSE

\* An observation older than the watermark is out of order and ignored.
OutOfOrder(at, watermark) == watermark # None /\ at < watermark

Applied(row, result, at) ==
  IF OutOfOrder(at, row.lastResult) THEN row
  ELSE [Decide(row, result, at) EXCEPT !.lastResult = at]

(* The first transition into STALE or RETIRED also closes the open sessions. *)
GoesOffline(old, new) == old.state \notin Offline /\ new.state \in Offline
=============================================================================
