------------------------ MODULE KeeperRateGateProofs ------------------------
(***************************************************************************)
(* What holds of KeeperRateGate for any callers, rates, lags and latencies:*)
(* the types, the ceiling of every gate and, when the stale time is longer *)
(* than a sleep, the place of a sleeping caller in its queue.              *)
(***************************************************************************)
EXTENDS KeeperRateGate, TLAPS

\* A gate's bucket never holds more than the time until the gate opens and the
\* longest lag; that time is at most one gap.
Paced ==
  \A k \in Gates : /\ -MaxLag <= gate[k] /\ gate[k] <= Gap[k]
                   /\ level[k] <= gate[k] + MaxLag

Longest == Larger(Retry, MaxSleep)

\* What is left of a sleep and the age of the sleeper's row together are at most
\* the longest sleep and the lag of the transaction that wrote the row.
Fresh ==
  /\ \A c \in Callers : c \notin waiting => wake[c] = 0
  /\ \A c \in waiting :
       c.lane # "direct" /\ wake[c] > 0 =>
         seen[c] # Absent /\ seen[c] + wake[c] <= Longest + MaxLag

-----------------------------------------------------------------------------
(* Lemmas about the helpers.                                                 *)

LEMMA NeedsAreGates ==
  ASSUME NEW c \in Callers
  PROVE  Needs(c) \subseteq Gates
  BY GateAssumption DEF Needs, Gates, Lanes

\* The wait is an integer, none of the caller's gates stays closed for longer, and it
\* is never negative.
LEMMA WaitCovers ==
  ASSUME gate \in [Gates -> Int], NEW c \in Callers, NEW lag \in 0 .. MaxLag
  PROVE  /\ Wait(c, lag) \in Int /\ Wait(c, lag) >= 0
         /\ \A k \in Needs(c) : gate[k] + lag <= Wait(c, lag)
<1> DEFINE shut == {gate[k] + lag : k \in Needs(c)}
<1> DEFINE all == shut \cup {0}
<1>1. lag \in Int /\ \A k \in Needs(c) : gate[k] \in Int
  BY NeedsAreGates, GateAssumption
<1>2. all \subseteq Int
  BY <1>1
<1>3. \E t \in all : \A u \in all : t >= u
  <2> DEFINE a == gate["keeper"] + lag
             b == gate[c.lane] + lag
  <2>1. CASE c.lane = "direct"
    <3>1. all = {a, 0}
      BY <2>1 DEF Needs
    <3>2. a \in Int
      BY <1>2, <3>1
    <3> HIDE DEF a
    <3>3. (a >= 0 /\ a >= a) \/ (0 >= a /\ 0 >= 0)
      BY <3>2
    <3> QED  BY <3>1, <3>3
  <2>2. CASE c.lane # "direct"
    <3>1. all = {a, b, 0}
      BY <2>2 DEF Needs
    <3>2. a \in Int /\ b \in Int
      BY <1>2, <3>1
    <3> HIDE DEF a, b
    <3>3. \/ a >= a /\ a >= b /\ a >= 0
          \/ b >= a /\ b >= b /\ b >= 0
          \/ 0 >= a /\ 0 >= b /\ 0 >= 0
      BY <3>2
    <3> QED  BY <3>1, <3>3
  <2> QED  BY <2>1, <2>2
<1>4. Wait(c, lag) \in all /\ \A u \in all : Wait(c, lag) >= u
  BY <1>3, Zenon DEF Wait
<1> QED  BY <1>2, <1>4

LEMMA LongestBounds ==
  Longest \in Nat /\ Retry <= Longest /\ MaxSleep <= Longest
BY GateAssumption DEF Longest, Larger

\* What the three ways of a poll do to the queue.
LEMMA JoinTypes ==
  ASSUME TypeOK, NEW c \in Callers, NEW lag \in 0 .. MaxLag, Join(c, lag)
  PROVE  /\ seen' \in [Callers -> Nat \cup {Absent}]
         /\ asked' \in [Callers -> 0 .. MaxLag + 1]
         /\ ahead' \in [Callers -> SUBSET Callers]
         /\ seen'[c] = lag
         /\ \A d \in Callers \ {c} :
              seen[d] # Absent /\ seen[d] <= Stale + lag => seen'[d] = seen[d]
<1> USE GateAssumption DEF TypeOK, Absent
<1>1. Queued(c, lag, {c}) \subseteq Callers
  BY DEF Queued
<1>2. seen' \in [Callers -> Nat \cup {Absent}] /\ seen'[c] = lag
  BY DEF Join
<1>3. asked' \in [Callers -> 0 .. MaxLag + 1]
  BY DEF Join
<1>4. ahead' \in [Callers -> SUBSET Callers]
  BY <1>1 DEF Join
<1>5. \A d \in Callers \ {c} :
        seen[d] # Absent /\ seen[d] <= Stale + lag => seen'[d] = seen[d]
  BY DEF Join, Queued
<1> QED  BY <1>2, <1>3, <1>4, <1>5

LEMMA EnqueueTypes ==
  ASSUME TypeOK, NEW c \in Callers, NEW lag \in 0 .. MaxLag, Enqueue(c, lag)
  PROVE  /\ seen' \in [Callers -> Nat \cup {Absent}]
         /\ asked' \in [Callers -> 0 .. MaxLag + 1]
         /\ ahead' \in [Callers -> SUBSET Callers]
         /\ c.lane # "direct" => seen'[c] = lag
         /\ \A d \in Callers \ {c} :
              seen[d] # Absent /\ seen[d] <= Stale + lag => seen'[d] = seen[d]
<1>1. CASE c.lane = "direct"
  BY <1>1 DEF Enqueue, TypeOK, rows
<1>2. CASE c.lane # "direct"
  BY <1>2, JoinTypes DEF Enqueue
<1> QED  BY <1>1, <1>2

LEMMA LeaveTypes ==
  ASSUME TypeOK, NEW c \in Callers, NEW lag \in 0 .. MaxLag, Leave(c, lag)
  PROVE  /\ seen' \in [Callers -> Nat \cup {Absent}]
         /\ asked' \in [Callers -> 0 .. MaxLag + 1]
         /\ ahead' \in [Callers -> SUBSET Callers]
         /\ \A d \in Callers \ {c} :
              seen[d] # Absent /\ seen[d] <= Stale + lag => seen'[d] = seen[d]
<1> USE GateAssumption DEF TypeOK, Absent
<1>1. Queued(c, lag, {c}) \subseteq Callers
  BY DEF Queued
<1>2. seen' \in [Callers -> Nat \cup {Absent}]
  BY DEF Leave
<1>3. ahead' \in [Callers -> SUBSET Callers]
  BY <1>1 DEF Leave
<1>4. \A d \in Callers \ {c} :
        seen[d] # Absent /\ seen[d] <= Stale + lag => seen'[d] = seen[d]
  BY DEF Leave, Queued
<1> QED  BY <1>2, <1>3, <1>4 DEF Leave

-----------------------------------------------------------------------------
(* Types.                                                                    *)

\* A poll that is refused leaves the types right.
LEMMA RefusedTypes ==
  ASSUME TypeOK, NEW c \in Callers, NEW lag \in 0 .. MaxLag,
         NEW time \in 0 .. Longest, Enqueue(c, lag), Sleep(c, time)
  PROVE  TypeOK'
<1>1. wake' \in [Callers -> -Latency .. Longest]
  BY GateAssumption, LongestBounds DEF Sleep, TypeOK, Longest
<1> QED  BY <1>1, EnqueueTypes DEF TypeOK, Sleep, Longest

\* A refused poll sleeps no longer than the longest sleep.
LEMMA ShutSleeps ==
  ASSUME TypeOK, NEW c \in Callers, NEW lag \in 0 .. MaxLag, Shut(c, lag)
  PROVE  \E time \in 0 .. Longest : Enqueue(c, lag) /\ Sleep(c, time)
<1> DEFINE time == IF Wait(c, lag) <= MaxSleep THEN Wait(c, lag) ELSE MaxSleep
<1>1. time \in 0 .. Longest
  BY WaitCovers, LongestBounds, GateAssumption DEF TypeOK
<1> QED  BY <1>1 DEF Shut

LEMMA NotHeadSleeps ==
  ASSUME NEW c \in Callers, NEW lag \in 0 .. MaxLag, NotFirst(c, lag)
  PROVE  \E time \in 0 .. Longest : Enqueue(c, lag) /\ Sleep(c, time)
BY LongestBounds, GateAssumption DEF NotFirst

LEMMA TypesKept == TypeOK /\ [Next]_vars => TypeOK'
<1> SUFFICES ASSUME TypeOK, [Next]_vars PROVE TypeOK'
  OBVIOUS
<1>1. CASE Tick
  <2> USE GateAssumption, <1>1 DEF Tick
  <2>1. gate' \in [Gates -> Int]
    BY DEF TypeOK, Larger
  <2>2. level' \in [Gates -> Nat]
    BY DEF TypeOK, Larger
  <2>3. seen' \in [Callers -> Nat \cup {Absent}]
    BY DEF TypeOK, Absent
  <2>4. asked' \in [Callers -> 0 .. MaxLag + 1]
    BY DEF TypeOK
  <2>5. wake' \in [Callers -> -Latency .. Longest]
    BY LongestBounds DEF TypeOK, Longest
  <2> QED  BY <2>1, <2>2, <2>3, <2>4, <2>5 DEF TypeOK, Longest
<1>2. ASSUME NEW c \in Callers, Ask(c) PROVE TypeOK'
  BY <1>2 DEF Ask, TypeOK, rows
<1>3. ASSUME NEW c \in Callers, NEW lag \in 0 .. MaxLag, NotFirst(c, lag)
      PROVE TypeOK'
  BY <1>3, NotHeadSleeps, RefusedTypes
<1>4. ASSUME NEW c \in Callers, NEW lag \in 0 .. MaxLag, Shut(c, lag)
      PROVE TypeOK'
  BY <1>4, ShutSleeps, RefusedTypes
<1>5. ASSUME NEW c \in Callers, NEW lag \in 0 .. MaxLag, Grant(c, lag)
      PROVE TypeOK'
  <2> USE GateAssumption DEF Grant
  <2>1. gate' \in [Gates -> Int] /\ level' \in [Gates -> Nat]
    BY <1>5 DEF TypeOK, Reopening
  <2>2. /\ seen' \in [Callers -> Nat \cup {Absent}]
        /\ asked' \in [Callers -> 0 .. MaxLag + 1]
        /\ ahead' \in [Callers -> SUBSET Callers]
    BY <1>5, LeaveTypes DEF TypeOK, rows
  <2>3. wake' \in [Callers -> -Latency .. Longest]
    BY <1>5, LongestBounds DEF TypeOK, Longest
  <2> QED  BY <1>5, <2>1, <2>2, <2>3 DEF TypeOK, Longest
<1>6. ASSUME NEW c \in Callers, Abandon(c) PROVE TypeOK'
  <2>1. wake' \in [Callers -> -Latency .. Longest] /\ faults' \in 0 .. MaxFaults
    BY <1>6, LongestBounds, GateAssumption DEF Abandon, TypeOK, Longest
  <2> QED  BY <1>6, <2>1 DEF Abandon, TypeOK, rows, Longest
<1>7. CASE UNCHANGED vars
  BY <1>7 DEF vars, rows, TypeOK
<1> QED  BY <1>1, <1>2, <1>3, <1>4, <1>5, <1>6, <1>7 DEF Next, Poll

LEMMA InitTypes == Init => TypeOK
BY LongestBounds, GateAssumption DEF Init, TypeOK, Absent, Longest

\* The type invariant holds for every set of callers, every rate, lag and latency.
THEOREM GateTypes == Spec => []TypeOK
BY InitTypes, TypesKept, PTL DEF Spec

-----------------------------------------------------------------------------
(* The ceiling.                                                              *)

LEMMA PaceKept == TypeOK /\ Paced /\ [Next]_vars => Paced'
<1> SUFFICES ASSUME TypeOK, Paced, [Next]_vars, NEW k \in Gates
             PROVE  /\ -MaxLag <= gate'[k] /\ gate'[k] <= Gap[k]
                    /\ level'[k] <= gate'[k] + MaxLag
  BY DEF Paced
<1> USE GateAssumption
<1>0. /\ gate[k] \in Int /\ level[k] \in Nat /\ Gap[k] \in Nat \ {0}
      /\ -MaxLag <= gate[k] /\ gate[k] <= Gap[k] /\ level[k] <= gate[k] + MaxLag
  BY DEF TypeOK, Paced
<1>1. CASE Tick
  BY <1>0, <1>1 DEF Tick, Larger
<1>2. ASSUME NEW c \in Callers, NEW lag \in 0 .. MaxLag, Grant(c, lag)
      PROVE  /\ -MaxLag <= gate'[k] /\ gate'[k] <= Gap[k]
             /\ level'[k] <= gate'[k] + MaxLag
  <2>1. CASE k \in Needs(c)
    <3>1. gate[k] + lag <= 0
      BY <1>2, <2>1, WaitCovers DEF TypeOK, Grant
    <3>2. gate'[k] = Gap[k] - lag /\ level'[k] = level[k] + Gap[k]
      BY <1>2, <2>1 DEF Grant, Reopening
    <3> QED  BY <1>0, <3>1, <3>2
  <2>2. CASE k \notin Needs(c)
    <3>1. gate'[k] = gate[k] /\ level'[k] = level[k]
      BY <1>2, <2>2 DEF Grant, Reopening
    <3> QED  BY <1>0, <3>1
  <2> QED  BY <2>1, <2>2
<1>3. CASE UNCHANGED <<gate, level>>
  BY <1>0, <1>3
<1> QED
  BY <1>1, <1>2, <1>3 DEF Next, Poll, NotFirst, Shut, Sleep, Ask, Abandon, vars

LEMMA InitPace == Init => Paced
BY GateAssumption DEF Init, Paced

LEMMA PacedIsCeiling == TypeOK /\ Paced => RateCeiling
BY GateAssumption DEF TypeOK, Paced, RateCeiling

\* The global gate and every lane's gate keep their rate whatever polls, however many
\* workers and lanes there are, and however long transactions wait for the row locks
\* of try_acquire_keeper_rate_slot: only the lag itself can be gained, once.
THEOREM RatesAreKept == Spec => []RateCeiling
<1>1. Spec => [](TypeOK /\ Paced)
  BY InitTypes, InitPace, TypesKept, PaceKept, PTL DEF Spec
<1> QED  BY <1>1, PacedIsCeiling, PTL

-----------------------------------------------------------------------------
(* The place in the queue.                                                   *)

\* Polls are refused until the stale time, and a sleep is shorter than it.
StaleOutlastsSleep == Longest + MaxLag <= Stale

\* A refused poll leaves the caller with a row as old as its transaction.
LEMMA RefusedFresh ==
  ASSUME StaleOutlastsSleep, TypeOK, Fresh, NEW c \in waiting,
         NEW lag \in 0 .. MaxLag, NEW time \in 0 .. Longest,
         Enqueue(c, lag), Sleep(c, time)
  PROVE  Fresh'
<1> USE GateAssumption, LongestBounds
<1>0. c \in Callers /\ waiting \in SUBSET Callers /\ waiting' = waiting
  BY DEF TypeOK, Sleep
<1>1. ASSUME NEW d \in Callers, d \notin waiting' PROVE wake'[d] = 0
  BY <1>0, <1>1 DEF Sleep, TypeOK, Fresh
<1>2. ASSUME NEW d \in waiting', d.lane # "direct", wake'[d] > 0
      PROVE  seen'[d] # Absent /\ seen'[d] + wake'[d] <= Longest + MaxLag
  <2>1. CASE d = c
    <3>1. seen'[c] = lag /\ wake'[c] = time
      BY <1>0, <1>2, <2>1, EnqueueTypes DEF Sleep, TypeOK
    <3> QED  BY <2>1, <3>1 DEF Absent
  <2>2. CASE d # c
    <3>1. d \in Callers /\ d \in waiting /\ wake'[d] = wake[d]
      BY <1>0, <2>2 DEF Sleep, TypeOK
    <3>2. seen[d] # Absent /\ seen[d] + wake[d] <= Longest + MaxLag
      BY <1>2, <3>1 DEF Fresh
    <3>3. seen[d] \in Nat /\ wake[d] \in Int /\ wake[d] > 0
      BY <1>2, <3>1, <3>2 DEF TypeOK
    <3>4. seen[d] <= Stale + lag
      BY <3>2, <3>3 DEF StaleOutlastsSleep
    <3>5. seen'[d] = seen[d]
      BY <1>0, <2>2, <3>1, <3>2, <3>4, EnqueueTypes
    <3> QED  BY <3>1, <3>2, <3>5
  <2> QED  BY <2>1, <2>2
<1> QED  BY <1>1, <1>2 DEF Fresh, Longest, Larger

LEMMA FreshKept ==
  ASSUME StaleOutlastsSleep
  PROVE  TypeOK /\ Fresh /\ [Next]_vars => Fresh'
<1> SUFFICES ASSUME TypeOK, Fresh, [Next]_vars PROVE Fresh'
  OBVIOUS
<1> USE GateAssumption, LongestBounds
<1>1. CASE Tick
  <2>1. waiting' = waiting /\ waiting \in SUBSET Callers
    BY <1>1 DEF Tick, TypeOK
  <2>2. ASSUME NEW d \in Callers, d \notin waiting' PROVE wake'[d] = 0
    BY <1>1, <2>1, <2>2 DEF Tick, TypeOK, Fresh
  <2>3. ASSUME NEW d \in waiting', d.lane # "direct", wake'[d] > 0
        PROVE  seen'[d] # Absent /\ seen'[d] + wake'[d] <= Longest + MaxLag
    <3>1. d \in Callers /\ wake'[d] = wake[d] - 1 /\ wake[d] \in Int
      BY <1>1, <2>1 DEF Tick, TypeOK
    <3>2. seen[d] # Absent /\ seen[d] + wake[d] <= Longest + MaxLag
      BY <2>1, <2>3, <3>1 DEF Fresh
    <3>3. seen[d] \in Nat /\ (seen'[d] = seen[d] \/ seen'[d] = seen[d] + 1)
      BY <1>1, <3>1, <3>2 DEF Tick, TypeOK
    <3> QED  BY <3>1, <3>2, <3>3 DEF Absent
  <2> QED  BY <2>2, <2>3 DEF Fresh, Longest, Larger
<1>2. ASSUME NEW c \in Callers, Ask(c) PROVE Fresh'
  BY <1>2 DEF Ask, Fresh, TypeOK, rows, Longest, Larger
<1>3. ASSUME NEW c \in Callers, NEW lag \in 0 .. MaxLag, NotFirst(c, lag)
      PROVE Fresh'
  BY <1>3, NotHeadSleeps, RefusedFresh DEF NotFirst, Polls
<1>4. ASSUME NEW c \in Callers, NEW lag \in 0 .. MaxLag, Shut(c, lag)
      PROVE Fresh'
  BY <1>4, ShutSleeps, RefusedFresh DEF Shut, Polls
<1>5. ASSUME NEW c \in Callers, NEW lag \in 0 .. MaxLag, Grant(c, lag)
      PROVE Fresh'
  <2>1. /\ waiting' = waiting \ {c} /\ waiting \in SUBSET Callers
        /\ wake' = [wake EXCEPT ![c] = 0]
    BY <1>5 DEF Grant, TypeOK
  <2>2. ASSUME NEW d \in Callers, d \notin waiting' PROVE wake'[d] = 0
    BY <2>1, <2>2 DEF TypeOK, Fresh
  <2>3. ASSUME NEW d \in waiting', d.lane # "direct", wake'[d] > 0
        PROVE  seen'[d] # Absent /\ seen'[d] + wake'[d] <= Longest + MaxLag
    <3>1. d \in Callers /\ d # c /\ d \in waiting /\ wake'[d] = wake[d]
      BY <2>1 DEF TypeOK
    <3>2. seen[d] # Absent /\ seen[d] + wake[d] <= Longest + MaxLag
      BY <2>3, <3>1 DEF Fresh
    <3>3. seen[d] \in Nat /\ wake[d] \in Int /\ wake[d] > 0
      BY <2>3, <3>1, <3>2 DEF TypeOK
    <3>4. seen[d] <= Stale + lag
      BY <3>2, <3>3 DEF StaleOutlastsSleep
    <3>5. seen'[d] = seen[d]
      <4>1. CASE c.lane = "direct"
        BY <1>5, <4>1 DEF Grant, rows
      <4>2. CASE c.lane # "direct"
        BY <1>5, <4>2, <3>1, <3>2, <3>4, LeaveTypes DEF Grant
      <4> QED  BY <4>1, <4>2
    <3> QED  BY <3>1, <3>2, <3>5
  <2> QED  BY <2>2, <2>3 DEF Fresh, Longest, Larger
<1>6. ASSUME NEW c \in Callers, Abandon(c) PROVE Fresh'
  BY <1>6 DEF Abandon, Fresh, TypeOK, rows, Longest, Larger
<1>7. CASE UNCHANGED vars
  BY <1>7 DEF vars, rows, Fresh, Longest, Larger
<1> QED  BY <1>1, <1>2, <1>3, <1>4, <1>5, <1>6, <1>7 DEF Next, Poll

LEMMA InitFresh == Init => Fresh
BY DEF Init, Fresh

LEMMA FreshKeepsPlace == Fresh => KeepsPlace
BY DEF Fresh, KeepsPlace

\* When KEEPER_RATE_WAITER_STALE_SECONDS covers the longest sleep of
\* wait_for_keeper_cluster_slot and the lag of the poll before it, a sleeping worker
\* keeps its row, however late the others poll.
THEOREM SleepersKeepTheirPlace ==
  ASSUME StaleOutlastsSleep
  PROVE  Spec => []KeepsPlace
<1>1. TypeOK /\ Fresh /\ [Next]_vars => TypeOK' /\ Fresh'
  BY TypesKept, FreshKept
<1>2. Spec => [](TypeOK /\ Fresh)
  BY <1>1, InitTypes, InitFresh, PTL DEF Spec
<1> QED  BY <1>2, FreshKeepsPlace, PTL
=============================================================================
