-------------------------- MODULE FencedLeadership --------------------------
(***************************************************************************)
(* What the leadership lease promises, without clocks, sessions or         *)
(* messages: at any time one worker at most holds the current epoch, only  *)
(* the holder acts as leader, and the epoch moves on, or is given up, only *)
(* while nobody acts.                                                      *)
(***************************************************************************)
EXTENDS Naturals

CONSTANTS Workers, NoWorker

VARIABLES
  holder,  \* the worker the current epoch was granted to, or NoWorker
  epoch,   \* counts the grants
  acting   \* the workers that act as leader

vars == <<holder, epoch, acting>>

Init == holder = NoWorker /\ epoch = 0 /\ acting = {}

Grant(w) ==
  /\ acting = {}
  /\ holder' = w
  /\ epoch' = epoch + 1
  /\ UNCHANGED acting

Act(w) ==
  /\ holder = w
  /\ acting' = {w}
  /\ UNCHANGED <<holder, epoch>>

Rest ==
  /\ acting' = {}
  /\ UNCHANGED <<holder, epoch>>

Yield ==
  /\ acting = {}
  /\ holder' = NoWorker
  /\ UNCHANGED <<epoch, acting>>

Next == Rest \/ Yield \/ \E w \in Workers : Grant(w) \/ Act(w)

Spec == Init /\ [][Next]_vars
=============================================================================
