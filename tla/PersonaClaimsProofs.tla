------------------------- MODULE PersonaClaimsProofs -------------------------
(***************************************************************************)
(* What holds of PersonaClaims for any workers, claims, pauses and lengths *)
(* of attempts: the types, and that two workers read the page of a server  *)
(* at once only when a claim has run out or the server went away. The      *)
(* inductive invariant says that a worker that has not outlived its claim  *)
(* is the holder on record, with as much of the claim left as the age of   *)
(* the attempt leaves.                                                     *)
(***************************************************************************)
EXTENDS PersonaClaims, TLAPS, SequenceTheorems, WellFoundedInduction

\* A worker that reads, and has not outlived its claim, holds it.
Covered ==
  \A w \in Workers : Reads(w) /\ ~Expired(w) =>
    claim.holder = w /\ claim.left + attempt[w].age = Claim

-----------------------------------------------------------------------------
(* Extrema of sets of integers.                                              *)

\* The induction that the provers can use: a set of numbers has a least one.
LEMMA LeastNatural ==
  ASSUME NEW T \in SUBSET Nat, T # {}
  PROVE  \E n \in T : \A m \in T : n <= m
<1> DEFINE R == OpToRel(<, Nat)
<1>1. IsWellFoundedOn(R, Nat)
  BY NatLessThanWellFounded
<1>2. \A m, n \in Nat : m < n => <<m, n>> \in R
  BY DEF OpToRel
<1> HIDE DEF R
<1>3. PICK n \in T : \A m \in T : ~(<<m, n>> \in R)
  BY <1>1, WFMin
<1>4. ASSUME NEW m \in T PROVE n <= m
  <2>1. m \in Nat /\ n \in Nat
    OBVIOUS
  <2>2. ~(m < n)
    BY <1>2, <1>3, <2>1
  <2> QED  BY <2>1, <2>2
<1> QED  BY <1>4

LEMMA MaxIsGreatest ==
  ASSUME NEW S, NEW x \in S, \A y \in S : x >= y
  PROVE  Max(S) \in S /\ \A y \in S : Max(S) >= y
BY Zenon DEF Max

LEMMA MinIsLeast ==
  ASSUME NEW S, NEW x \in S, \A y \in S : x <= y
  PROVE  Min(S) \in S /\ \A y \in S : Min(S) <= y
BY Zenon DEF Min

LEMMA MaxOfThree ==
  ASSUME NEW a \in Int, NEW b \in Int, NEW c \in Int
  PROVE  Max({a, b, c}) \in {a, b, c}
<1> DEFINE S == {a, b, c}
<1>1. \/ \A y \in S : a >= y
      \/ \A y \in S : b >= y
      \/ \A y \in S : c >= y
  OBVIOUS
<1>2. a \in S /\ b \in S /\ c \in S
  OBVIOUS
<1> HIDE DEF S
<1>3. Max(S) \in S
  BY <1>1, <1>2, MaxIsGreatest
<1> QED  BY <1>3 DEF S

LEMMA MaxOfTwo ==
  ASSUME NEW a \in Int, NEW b \in Int
  PROVE  Max({a, b}) \in {a, b} /\ Max({a, b}) >= a /\ Max({a, b}) >= b
<1> DEFINE S == {a, b}
<1>1. (\A y \in S : a >= y) \/ (\A y \in S : b >= y)
  OBVIOUS
<1>2. a \in S /\ b \in S
  OBVIOUS
<1> HIDE DEF S
<1>3. Max(S) \in S /\ Max(S) >= a /\ Max(S) >= b
  BY <1>1, <1>2, MaxIsGreatest
<1> QED  BY <1>3 DEF S

LEMMA MinOfTwo ==
  ASSUME NEW a \in Int, NEW b \in Int
  PROVE  Min({a, b}) \in {a, b} /\ Min({a, b}) <= a /\ Min({a, b}) <= b
<1> DEFINE S == {a, b}
<1>1. (\A y \in S : a <= y) \/ (\A y \in S : b <= y)
  OBVIOUS
<1>2. a \in S /\ b \in S
  OBVIOUS
<1> HIDE DEF S
<1>3. Min(S) \in S /\ Min(S) <= a /\ Min(S) <= b
  BY <1>1, <1>2, MinIsLeast
<1> QED  BY <1>3 DEF S

\* A non-empty set of numbers with a bound has a greatest one: its least bound.
LEMMA GreatestNatural ==
  ASSUME NEW T \in SUBSET Nat, T # {}, NEW bound \in Nat, \A t \in T : t <= bound
  PROVE  \E t \in T : \A s \in T : t >= s
<1> DEFINE U == {u \in Nat : \A t \in T : t <= u}
<1>1. U \in SUBSET Nat /\ U # {}
  OBVIOUS
<1>2. PICK u \in U : \A v \in U : u <= v
  <2> HIDE DEF U
  <2> QED  BY <1>1, LeastNatural
<1>3. u \in T
  <2>1. SUFFICES ASSUME u \notin T PROVE FALSE
    OBVIOUS
  <2>2. u \in Nat /\ \A t \in T : t \in Nat /\ t <= u /\ t # u
    BY <2>1
  <2>3. u > 0
    <3>1. PICK t \in T : TRUE
      OBVIOUS
    <3> QED  BY <2>2, <3>1
  <2>4. u - 1 \in Nat /\ \A t \in T : t <= u - 1
    BY <2>2, <2>3
  <2>5. u - 1 \in U
    BY <2>4
  <2>6. u <= u - 1
    BY <1>2, <2>5
  <2> QED  BY <2>2, <2>6
<1>4. \A s \in T : u >= s
  OBVIOUS
<1> QED  BY <1>3, <1>4

-----------------------------------------------------------------------------
(* The pauses.                                                               *)

LEMMA BackoffFacts ==
  /\ Len(Backoff) \in Nat /\ Len(Backoff) >= 1
  /\ DOMAIN Backoff = 1 .. Len(Backoff)
  /\ \A i \in 1 .. Len(Backoff) : Backoff[i] \in Nat
BY PersonaAssumption

\* The list of pauses has a longest one, however long it is.
LEMMA BackoffIsBounded ==
  \E u \in Nat : \A i \in 1 .. Len(Backoff) : Backoff[i] <= u
<1> DEFINE n == Len(Backoff)
           Bounded(k) == \E u \in Nat : \A i \in 1 .. k : Backoff[i] <= u
           Unbounded == {k \in 0 .. n : ~Bounded(k)}
<1>1. n \in Nat /\ \A i \in 1 .. n : Backoff[i] \in Nat
  BY BackoffFacts
<1> HIDE DEF n
<1>2. SUFFICES ASSUME ~Bounded(n) PROVE FALSE
  BY DEF n
<1>3. Unbounded \in SUBSET Nat /\ n \in Unbounded
  BY <1>1, <1>2
<1>4. PICK k \in Unbounded : \A m \in Unbounded : k <= m
  <2> HIDE DEF Unbounded
  <2> QED  BY <1>3, LeastNatural
<1>5. k \in 0 .. n /\ ~Bounded(k)
  OBVIOUS
<1>6. k # 0
  <2>1. Bounded(0)
    OBVIOUS
  <2> QED  BY <1>5, <2>1
<1>7. k - 1 \in 0 .. n /\ k - 1 \notin Unbounded
  <2>1. k \in Nat /\ k - 1 \in Nat /\ k - 1 \in 0 .. n /\ ~(k <= k - 1)
    BY <1>1, <1>5, <1>6
  <2> HIDE DEF Unbounded
  <2> QED  BY <1>4, <2>1
<1>8. PICK u \in Nat : \A i \in 1 .. k - 1 : Backoff[i] <= u
  BY <1>7
<1>9. PICK v \in Nat : v >= u /\ v >= Backoff[k]
  <2>1. k \in 1 .. n
    BY <1>1, <1>5, <1>6
  <2>2. u + Backoff[k] \in Nat /\ u + Backoff[k] >= u /\ u + Backoff[k] >= Backoff[k]
    BY <1>1, <2>1
  <2> QED  BY <2>2
<1>10. \A i \in 1 .. k : Backoff[i] <= v
  <2>1. k \in Nat /\ \A i \in 1 .. k : i \in 1 .. k - 1 \/ i = k
    BY <1>1, <1>5
  <2>2. \A i \in 1 .. k - 1 : i \in 1 .. n
    BY <1>1, <1>5
  <2>3. \A i \in 1 .. k - 1 : Backoff[i] <= v
    BY <1>1, <1>8, <1>9, <2>2
  <2> QED  BY <1>9, <2>1, <2>3
<1> QED  BY <1>5, <1>10

LEMMA PauseFacts ==
  /\ Pauses \subseteq Nat /\ NoPause \in Pauses /\ BaseRetry \in Pauses
  /\ \A i \in 1 .. Len(Backoff) : Backoff[i] \in Pauses
  /\ LongestPause \in Nat /\ LongestPause <= LongestWait /\ \A p \in Pauses : p <= LongestPause
  /\ LongestWait \in Nat
  /\ \A p \in Pauses \cup {Claim} : p <= LongestWait
<1>1. /\ Pauses \subseteq Nat /\ NoPause \in Pauses /\ BaseRetry \in Pauses
      /\ \A i \in 1 .. Len(Backoff) : Backoff[i] \in Pauses
  BY BackoffFacts, PersonaAssumption DEF Pauses, NoPause
<1>2. PICK u \in Nat : \A i \in 1 .. Len(Backoff) : Backoff[i] <= u
  BY BackoffIsBounded
<1>3. u + BaseRetry + Claim \in Nat /\ \A p \in Pauses \cup {Claim} : p <= u + BaseRetry + Claim
  BY <1>2, BackoffFacts, PersonaAssumption DEF Pauses, NoPause
<1>4. ASSUME NEW S \in SUBSET Nat, S # {}, S \subseteq Pauses \cup {Claim}
      PROVE  Max(S) \in S /\ Max(S) \in Nat /\ \A p \in S : p <= Max(S)
  <2>1. \E t \in S : \A s \in S : t >= s
    BY <1>3, <1>4, GreatestNatural
  <2>2. Max(S) \in S /\ \A y \in S : Max(S) >= y
    BY <2>1, MaxIsGreatest
  <2> QED  BY <2>2
<1>5. Pauses \cup {Claim} \subseteq Nat
  BY <1>1, PersonaAssumption
<1> QED  BY <1>1, <1>4, <1>5 DEF LongestPause, LongestWait

LEMMA StreakFacts ==
  ASSUME NEW streak \in Streaks
  PROVE  /\ Lengthened(streak) \in Streaks
         /\ Longer(streak) \in Pauses
<1>1. streak \in 0 .. Len(Backoff) - 1 /\ Len(Backoff) \in Nat
  BY BackoffFacts DEF Streaks
<1>2. Longer(streak) \in Pauses
  BY <1>1, PauseFacts DEF Longer
<1>3. Lengthened(streak) \in {streak + 1, Len(Backoff) - 1} /\ Lengthened(streak) <= Len(Backoff) - 1
  <2>1. streak + 1 \in Int /\ Len(Backoff) - 1 \in Int
    BY <1>1
  <2> QED  BY <2>1, MinOfTwo DEF Lengthened
<1>4. Lengthened(streak) \in 0 .. Len(Backoff) - 1
  BY <1>1, <1>3
<1> QED  BY <1>2, <1>4 DEF Streaks

LEMMA LessFacts ==
  ASSUME NEW t \in Nat
  PROVE  /\ Less(t) \in Nat /\ Less(t) <= t
         /\ t > 0 => Less(t) = t - 1
<1>1. /\ Less(t) \in {t - 1, 0} /\ Less(t) >= t - 1 /\ Less(t) >= 0
  BY MaxOfTwo DEF Less
<1> QED  BY <1>1

-----------------------------------------------------------------------------
(* Types.                                                                    *)

LEMMA AsleepType == Asleep \in AttemptType
<1>1. 0 \in 0 .. MaxAttempt
  BY PersonaAssumption
<1> QED  BY <1>1, PauseFacts DEF Asleep, AttemptType, Outcomes

LEMMA UnclaimedType == Unclaimed \in ClaimType
<1>1. 0 \in 0 .. LongestPause /\ 0 \in 0 .. Claim /\ 0 \in Streaks
  BY PauseFacts, BackoffFacts, PersonaAssumption DEF Streaks
<1> QED  BY <1>1 DEF Unclaimed, ClaimType, NoPause

LEMMA FallbackValue ==
  ASSUME NEW pc \in {"idle", "seeded", "request"}, NEW retry \in Pauses \cup {Claim},
         NEW streak \in Streaks
  PROVE  [pc |-> pc, retry |-> retry, streak |-> streak] \in FallbackType
<1>1. retry \in 0 .. LongestWait
  BY PauseFacts, PersonaAssumption
<1> QED  BY <1>1 DEF FallbackType

LEMMA ZeroStreak == 0 \in Streaks
BY BackoffFacts DEF Streaks

LEMMA InitPersonaTypes == PersonaInit => PersonaTypeOK
<1> SUFFICES ASSUME PersonaInit PROVE PersonaTypeOK
  OBVIOUS
<1>1. claim \in ClaimType /\ attempt \in [Workers -> AttemptType]
  BY AsleepType, UnclaimedType DEF PersonaInit
<1>2. fallback \in FallbackType
  BY FallbackValue, ZeroStreak, PauseFacts DEF PersonaInit
<1> QED  BY <1>1, <1>2 DEF PersonaInit, PersonaTypeOK

\* What Ends writes.
LEMMA EndsTypes ==
  ASSUME PersonaTypeOK, NEW w \in Workers, NEW result \in Outcomes, NEW pause \in Pauses,
         Ends(w, result, pause)
  PROVE  attempt' \in [Workers -> AttemptType]
<1>1. attempt[w] \in AttemptType /\ attempt \in [Workers -> AttemptType]
  BY DEF PersonaTypeOK
<1>2. attempt' = [attempt EXCEPT ![w] = [attempt[w] EXCEPT
        !.pc = "finish", !.result = result, !.pause = pause, !.voided = FALSE]]
  BY <1>1 DEF Ends
<1>3. [attempt[w] EXCEPT !.pc = "finish", !.result = result, !.pause = pause,
                         !.voided = FALSE] \in AttemptType
  BY <1>1 DEF AttemptType
<1> QED  BY <1>1, <1>2, <1>3

LEMMA GotoTypes ==
  ASSUME PersonaTypeOK, NEW w \in Workers,
         NEW pc \in {"idle", "owner", "pending", "claim", "streak"}, Goto(w, pc)
  PROVE  attempt' \in [Workers -> AttemptType]
BY DEF PersonaTypeOK, Goto, AttemptType

LEMMA FinishedType ==
  ASSUME PersonaTypeOK, NEW w \in Workers
  PROVE  Finished(w) \in ClaimType
<1>1. CASE ~MayFinish(w)
  BY <1>1 DEF Finished, PersonaTypeOK
<1>2. CASE MayFinish(w)
  <2>1. attempt[w].pause \in 0 .. LongestPause
    <3>1. attempt[w].pause \in Pauses
      BY DEF PersonaTypeOK, AttemptType
    <3>2. attempt[w].pause \in Nat /\ attempt[w].pause <= LongestPause
      BY <3>1, PauseFacts
    <3> QED  BY <3>2, PauseFacts
  <2>2. claim.streak \in Streaks
    BY DEF PersonaTypeOK, ClaimType
  <2>3. (CASE attempt[w].result \in {"complete", "partial"} -> 0
           [] attempt[w].result = "none" -> Lengthened(claim.streak)
           [] OTHER -> claim.streak) \in Streaks
    BY <2>2, ZeroStreak, StreakFacts
  <2>4. 0 \in 0 .. Claim
    BY PersonaAssumption
  <2> QED  BY <1>2, <2>1, <2>3, <2>4 DEF Finished, ClaimType
<1> QED  BY <1>1, <1>2

\* One visit of a worker.
LEMMA VisitTypes ==
  ASSUME PersonaTypeOK, NEW w \in Workers, PersonaStep(w) \/ FinishRaises(w)
  PROVE  PersonaTypeOK'
<1> USE DEF PersonaTypeOK
<1>1. CASE Sweep(w)
  BY <1>1, GotoTypes DEF Sweep
<1>2. CASE CheckOwner(w) \/ LookPending(w)
  BY <1>2, GotoTypes DEF CheckOwner, LookPending
<1>3. CASE TryClaim(w)
  <2>1. CASE Claimable(w)
    <3>1. Claim \in 0 .. Claim
      BY PersonaAssumption
    <3>2. [Asleep EXCEPT !.pc = "request"] \in AttemptType
      BY AsleepType DEF AttemptType
    <3>3. claim' \in ClaimType
      BY <1>3, <2>1, <3>1 DEF TryClaim, ClaimType
    <3>4. attempt' \in [Workers -> AttemptType]
      BY <1>3, <2>1, <3>2 DEF TryClaim
    <3> QED  BY <1>3, <3>3, <3>4 DEF TryClaim
  <2>2. CASE ~Claimable(w)
    BY <1>3, <2>2, GotoTypes DEF TryClaim
  <2> QED  BY <2>1, <2>2
<1>4. CASE Read(w)
  <2>1. PICK result \in Outcomes \ {"failed"} :
          /\ debt' = (debt /\ result # "complete")
          /\ IF result = "none"
             THEN attempt' = [attempt EXCEPT ![w].pc = "streak", ![w].result = result]
             ELSE Ends(w, result, Pause(result))
    BY <1>4 DEF Read
  <2>2. CASE result = "none"
    BY <1>4, <2>1, <2>2 DEF Read, AttemptType
  <2>3. CASE result # "none"
    <3>1. Pause(result) \in Pauses
      BY PauseFacts DEF Pause
    <3>2. attempt' \in [Workers -> AttemptType]
      BY <2>1, <2>3, <3>1, EndsTypes
    <3> QED  BY <1>4, <2>1, <3>2 DEF Read
  <2> QED  BY <2>2, <2>3
<1>5. CASE ReadStreak(w)
  <2>1. attempt[w].result \in Outcomes /\ claim.streak \in Streaks
    BY DEF AttemptType, ClaimType
  <2>2. Longer(claim.streak) \in Pauses
    BY <2>1, StreakFacts
  <2>3. attempt' \in [Workers -> AttemptType]
    BY <1>5, <2>1, <2>2, EndsTypes DEF ReadStreak
  <2> QED  BY <1>5, <2>3 DEF ReadStreak
<1>6. CASE Raises(w)
  <2>1. attempt' \in [Workers -> AttemptType]
    BY <1>6, PauseFacts, EndsTypes DEF Raises, Outcomes
  <2> QED  BY <1>6, <2>1 DEF Raises
<1>7. CASE Finish(w)
  BY <1>7, FinishedType, AsleepType DEF Finish
<1>8. CASE FinishRaises(w)
  <2>1. attempt' \in [Workers -> AttemptType]
    BY <1>8, PauseFacts, EndsTypes, AsleepType DEF FinishRaises, Outcomes
  <2> QED  BY <1>8, <2>1, FinishedType DEF FinishRaises
<1> QED  BY <1>1, <1>2, <1>3, <1>4, <1>5, <1>6, <1>7, <1>8 DEF PersonaStep

\* The leader's fallback.
LEMMA FallbackTypes ==
  ASSUME PersonaTypeOK, Fallback
  PROVE  PersonaTypeOK'
<1> USE DEF PersonaTypeOK
<1>0. /\ fallback.retry \in 0 .. LongestWait /\ fallback.streak \in Streaks
      /\ fallback.pc \in {"idle", "seeded", "request"}
      /\ claim.retry \in 0 .. LongestPause /\ claim.left \in 0 .. Claim
      /\ claim.streak \in Streaks
  BY DEF FallbackType, ClaimType
<1>1. CASE Seed
  <2>1. CASE debt
    <3>1. Max({fallback.retry, claim.retry, claim.left}) \in
            {fallback.retry, claim.retry, claim.left}
      <4>1. fallback.retry \in Int /\ claim.retry \in Int /\ claim.left \in Int
        BY <1>0, PauseFacts, PersonaAssumption
      <4> QED  BY <4>1, MaxOfThree
    <3>2. Max({fallback.retry, claim.retry, claim.left}) \in 0 .. LongestWait
      BY <1>0, <3>1, PauseFacts, PersonaAssumption
    <3>3. Max({fallback.streak, claim.streak}) \in Streaks
      <4>1. fallback.streak \in Int /\ claim.streak \in Int
        BY <1>0, BackoffFacts DEF Streaks
      <4> QED  BY <1>0, <4>1, MaxOfTwo
    <3> QED  BY <1>1, <2>1, <3>2, <3>3 DEF Seed, FallbackType
  <2>2. CASE ~debt
    BY <1>1, <2>2 DEF Seed, FallbackType
  <2> QED  BY <2>1, <2>2
<1>2. CASE Scan
  <2>1. [pc |-> "idle", retry |-> 0, streak |-> 0] \in FallbackType
    BY FallbackValue, ZeroStreak, PauseFacts DEF NoPause
  <2> QED  BY <1>2, <2>1 DEF Scan, FallbackType
<1>3. CASE FallbackRead
  <2>1. PICK result \in Outcomes \ {"failed"} :
          /\ debt' = (debt /\ result # "complete")
          /\ fallback' =
               IF result = "none"
               THEN [pc |-> "idle", retry |-> Longer(fallback.streak),
                     streak |-> Lengthened(fallback.streak)]
               ELSE [pc |-> "idle", retry |-> Pause(result), streak |-> 0]
    BY <1>3 DEF FallbackRead
  <2>2. Pause(result) \in Pauses
    BY PauseFacts DEF Pause
  <2>3. Longer(fallback.streak) \in Pauses /\ Lengthened(fallback.streak) \in Streaks
    BY <1>0, StreakFacts
  <2>4. fallback' \in FallbackType
    BY <2>1, <2>2, <2>3, ZeroStreak, FallbackValue
  <2> QED  BY <1>3, <2>1, <2>4 DEF FallbackRead
<1>4. CASE FallbackRaises
  <2>1. PICK pause \in {NoPause, BaseRetry} :
          fallback' = [fallback EXCEPT !.pc = "idle", !.retry = pause]
    BY <1>4 DEF FallbackRaises
  <2>2. pause \in 0 .. LongestWait
    BY PauseFacts
  <2>3. fallback' \in FallbackType
    BY <2>1, <2>2 DEF FallbackType
  <2> QED  BY <1>4, <2>3 DEF FallbackRaises
<1> QED  BY <1>1, <1>2, <1>3, <1>4 DEF Fallback

\* What happens around the attempts.
LEMMA SurroundingTypes ==
  ASSUME PersonaTypeOK,
         \/ \E w \in Workers : Crash(w) \/ Membership(w)
         \/ SessionsChange \/ ServerOffline \/ Switch \/ LeaderChange \/ Settle
         \/ PersonaTick
  PROVE  PersonaTypeOK'
<1> USE DEF PersonaTypeOK
<1>1. ASSUME NEW w \in Workers, Crash(w) PROVE PersonaTypeOK'
  BY <1>1, AsleepType DEF Crash
<1>2. ASSUME NEW w \in Workers, Membership(w) PROVE PersonaTypeOK'
  BY <1>2 DEF Membership
<1>3. CASE SessionsChange
  BY <1>3 DEF SessionsChange
<1>4. CASE ServerOffline
  <2>1. attempt' \in [Workers -> AttemptType]
    BY <1>4 DEF ServerOffline, AttemptType
  <2> QED  BY <1>4, <2>1, UnclaimedType DEF ServerOffline
<1>5. CASE Switch
  BY <1>5 DEF Switch
<1>6. CASE LeaderChange
  BY <1>6, FallbackValue, ZeroStreak, PauseFacts DEF LeaderChange, NoPause
<1>7. CASE Settle
  BY <1>7 DEF Settle
<1>8. CASE PersonaTick
  <2>1. claim' \in ClaimType
    <3>1. claim.retry \in Nat /\ claim.left \in Nat
          /\ claim.retry <= LongestPause /\ claim.left <= Claim
      BY PauseFacts, PersonaAssumption DEF ClaimType
    <3>2. Less(claim.retry) \in 0 .. LongestPause /\ Less(claim.left) \in 0 .. Claim
      <4>1. /\ Less(claim.retry) \in Nat /\ Less(claim.retry) <= claim.retry
            /\ Less(claim.left) \in Nat /\ Less(claim.left) <= claim.left
        BY <3>1, LessFacts
      <4> QED  BY <3>1, <4>1, PauseFacts, PersonaAssumption
    <3> QED  BY <1>8, <3>2 DEF PersonaTick, ClaimType
  <2>2. fallback' \in FallbackType
    <3>0. LongestWait \in Nat /\ fallback.retry \in 0 .. LongestWait
      BY PauseFacts DEF FallbackType
    <3>1. Less(fallback.retry) \in 0 .. LongestWait
      BY <3>0, LessFacts
    <3> QED  BY <1>8, <3>1 DEF PersonaTick, FallbackType
  <2>3. attempt' \in [Workers -> AttemptType]
    <3>1. ASSUME NEW w \in Workers, Holds(w)
          PROVE  [attempt[w] EXCEPT !.age = @ + 1] \in AttemptType
      <4>1. attempt[w].age + 1 \in 0 .. MaxAttempt
        BY <1>8, <3>1, PersonaAssumption DEF PersonaTick, AttemptType
      <4> QED  BY <4>1 DEF AttemptType
    <3> QED  BY <1>8, <3>1 DEF PersonaTick
  <2> QED  BY <1>8, <2>1, <2>2, <2>3 DEF PersonaTick
<1> QED  BY <1>1, <1>2, <1>3, <1>4, <1>5, <1>6, <1>7, <1>8

LEMMA PersonaTypeStep ==
  PersonaTypeOK /\ [PersonaNext]_personaVars => PersonaTypeOK'
<1> SUFFICES ASSUME PersonaTypeOK, [PersonaNext]_personaVars PROVE PersonaTypeOK'
  OBVIOUS
<1>1. CASE UNCHANGED personaVars
  BY <1>1 DEF personaVars, PersonaTypeOK
<1>2. CASE PersonaNext
  BY <1>2, VisitTypes, FallbackTypes, SurroundingTypes DEF PersonaNext
<1> QED  BY <1>1, <1>2

\* The claims, attempts and pauses keep their types: in particular no pause grows
\* beyond the longest of the list and no attempt beyond its bound.
THEOREM PersonaTypesHold == PersonaSpec => []PersonaTypeOK
BY InitPersonaTypes, PersonaTypeStep, PTL DEF PersonaSpec

-----------------------------------------------------------------------------
(* Who reads.                                                                *)

LEMMA WorkerFacts ==
  ASSUME PersonaTypeOK, NEW w \in Workers
  PROVE  /\ w \in Nat /\ w # Nobody /\ w # NoRow
         /\ attempt[w].age \in Nat /\ claim.left \in Nat /\ Claim \in Nat /\ Claim > 0
BY PersonaAssumption DEF PersonaTypeOK, AttemptType, ClaimType, Nobody, NoRow

LEMMA InitCovered == PersonaInit => Covered
BY DEF PersonaInit, Covered, Reads, Holds, At, Asleep

\* What a step does to the attempt of a worker that still reads after it: it
\* stands still, or gets as far as the next transaction.
ReadsOn(w) ==
  Reads(w)' => /\ Reads(w)
               /\ attempt'[w].age = attempt[w].age
               /\ attempt'[w].voided = attempt[w].voided

\* A worker whose attempt is at its end, or over, does not read.
LEMMA EndsReads ==
  ASSUME attempt \in [Workers -> AttemptType], NEW w \in Workers, NEW result, NEW pause,
         Ends(w, result, pause)
  PROVE  ~Reads(w)'
<1>1. attempt'[w].pc = "finish"
  BY DEF Ends, AttemptType
<1> QED  BY <1>1 DEF Reads, Holds, At

LEMMA AsleepReads ==
  ASSUME attempt \in [Workers -> AttemptType], NEW w \in Workers,
         attempt' = [attempt EXCEPT ![w] = Asleep]
  PROVE  ~Reads(w)'
<1>1. attempt'[w].pc = "idle"
  BY DEF Asleep
<1> QED  BY <1>1 DEF Reads, Holds, At

LEMMA CoverageKept ==
  ASSUME PersonaTypeOK, Covered, NEW w \in Workers, ReadsOn(w),
         claim.holder = w /\ claim.left > 0 => claim'.holder = w /\ claim'.left = claim.left
  PROVE  Reads(w)' /\ ~Expired(w)' => claim'.holder = w /\ claim'.left + attempt'[w].age = Claim
<1> SUFFICES ASSUME Reads(w)', ~Expired(w)'
             PROVE  claim'.holder = w /\ claim'.left + attempt'[w].age = Claim
  OBVIOUS
<1>1. Reads(w) /\ ~Expired(w) /\ attempt'[w].age = attempt[w].age
  BY DEF ReadsOn, Expired
<1>2. claim.holder = w /\ claim.left + attempt[w].age = Claim
  BY <1>1 DEF Covered
<1>3. claim.left > 0
  BY <1>1, <1>2, WorkerFacts DEF Expired
<1> QED  BY <1>1, <1>2, <1>3

\* No other worker's visit touches a claim that has not run out.
LEMMA VisitSparesClaims ==
  ASSUME PersonaTypeOK, NEW v \in Workers, PersonaStep(v) \/ FinishRaises(v),
         NEW w \in Workers, v # w, claim.holder = w, claim.left > 0
  PROVE  claim' = claim
<1>1. claim.holder \notin {NoRow, Nobody, v} /\ claim.left # 0
  BY WorkerFacts
<1>2. CASE TryClaim(v)
  BY <1>1, <1>2 DEF TryClaim, Claimable, Goto
<1>3. Finished(v) = claim
  BY <1>1 DEF Finished, MayFinish
<1>4. CASE Finish(v) \/ FinishRaises(v)
  BY <1>3, <1>4 DEF Finish, FinishRaises
<1>5. CASE \/ Sweep(v) \/ CheckOwner(v) \/ LookPending(v)
           \/ Read(v) \/ ReadStreak(v) \/ Raises(v)
  BY <1>5 DEF Sweep, CheckOwner, LookPending, Read, ReadStreak, Raises
<1> QED  BY <1>2, <1>4, <1>5 DEF PersonaStep

LEMMA OthersStandStill ==
  ASSUME PersonaTypeOK, NEW v \in Workers, PersonaStep(v) \/ FinishRaises(v) \/ Crash(v),
         NEW w \in Workers, v # w
  PROVE  attempt'[w] = attempt[w]
<1>1. attempt \in [Workers -> AttemptType]
  BY DEF PersonaTypeOK
<1>2. CASE Sweep(v) \/ CheckOwner(v) \/ LookPending(v) \/ TryClaim(v)
  BY <1>1, <1>2 DEF Sweep, CheckOwner, LookPending, TryClaim, Goto
<1>3. CASE Read(v) \/ ReadStreak(v) \/ Raises(v)
  BY <1>1, <1>3 DEF Read, ReadStreak, Raises, Ends
<1>4. CASE Finish(v) \/ FinishRaises(v) \/ Crash(v)
  BY <1>1, <1>4 DEF Finish, FinishRaises, Crash, Ends
<1> QED  BY <1>2, <1>3, <1>4 DEF PersonaStep

\* The worker whose visit it is: it has just claimed the server, or reads on, or
\* reads no more.
LEMMA VisitorCovered ==
  ASSUME PersonaTypeOK, Covered, NEW w \in Workers, PersonaStep(w) \/ FinishRaises(w)
  PROVE  Reads(w)' /\ ~Expired(w)' => claim'.holder = w /\ claim'.left + attempt'[w].age = Claim
<1>0. attempt \in [Workers -> AttemptType] /\ claim \in ClaimType
  BY DEF PersonaTypeOK
<1>1. CASE TryClaim(w) /\ Claimable(w)
  <2>1. attempt'[w].age = 0
    BY <1>0, <1>1 DEF TryClaim, Asleep
  <2>2. claim'.holder = w /\ claim'.left = Claim
    BY <1>0, <1>1 DEF TryClaim, ClaimType
  <2> QED  BY <2>1, <2>2, WorkerFacts
<1>2. CASE TryClaim(w) /\ ~Claimable(w)
  BY <1>0, <1>2 DEF TryClaim, Goto, Reads, Holds, At, AttemptType
<1>3. CASE Sweep(w) \/ CheckOwner(w) \/ LookPending(w)
  BY <1>0, <1>3 DEF Sweep, CheckOwner, LookPending, Goto, Reads, Holds, At, AttemptType
<1>4. CASE Read(w)
  <2>1. Reads(w) /\ claim' = claim
    BY <1>4 DEF Read, Reads, Holds, At
  <2>2. ReadsOn(w)
    <3>1. PICK result \in Outcomes :
            \/ attempt' = [attempt EXCEPT ![w].pc = "streak", ![w].result = result]
            \/ Ends(w, result, Pause(result))
      BY <1>4 DEF Read
    <3>2. CASE Ends(w, result, Pause(result))
      BY <1>0, <3>2, EndsReads DEF ReadsOn
    <3>3. CASE attempt' = [attempt EXCEPT ![w].pc = "streak", ![w].result = result]
      <4>1. /\ attempt'[w].age = attempt[w].age
            /\ attempt'[w].voided = attempt[w].voided
        BY <1>0, <3>3 DEF AttemptType
      <4> QED  BY <2>1, <4>1 DEF ReadsOn
    <3> QED  BY <3>1, <3>2, <3>3
  <2> QED  BY <2>1, <2>2, CoverageKept
<1>5. CASE ReadStreak(w) \/ Raises(w) \/ Finish(w) \/ FinishRaises(w)
  <2>1. CASE attempt' = [attempt EXCEPT ![w] = Asleep]
    BY <1>0, <2>1, AsleepReads
  <2>2. CASE \E result, pause : Ends(w, result, pause)
    BY <1>0, <2>2, EndsReads
  <2> QED  BY <1>5, <2>1, <2>2 DEF ReadStreak, Raises, Finish, FinishRaises
<1> QED  BY <1>1, <1>2, <1>3, <1>4, <1>5 DEF PersonaStep

LEMMA CoveredStep ==
  PersonaTypeOK /\ Covered /\ [PersonaNext]_personaVars => Covered'
<1> SUFFICES ASSUME PersonaTypeOK, Covered, [PersonaNext]_personaVars, NEW w \in Workers
             PROVE  Reads(w)' /\ ~Expired(w)' =>
                      claim'.holder = w /\ claim'.left + attempt'[w].age = Claim
  BY DEF Covered
<1>0. attempt \in [Workers -> AttemptType] /\ claim \in ClaimType
  BY DEF PersonaTypeOK
<1>1. ASSUME NEW v \in Workers, PersonaStep(v) \/ FinishRaises(v)
      PROVE  Reads(w)' /\ ~Expired(w)' =>
               claim'.holder = w /\ claim'.left + attempt'[w].age = Claim
  <2>1. CASE v = w
    BY <1>1, <2>1, VisitorCovered
  <2>2. CASE v # w
    <3>1. attempt'[w] = attempt[w]
      BY <1>1, <2>2, OthersStandStill
    <3>2. ReadsOn(w)
      BY <3>1 DEF ReadsOn, Reads, Holds, At
    <3>3. claim.holder = w /\ claim.left > 0 => claim' = claim
      BY <1>1, <2>2, VisitSparesClaims
    <3> QED  BY <3>2, <3>3, CoverageKept
  <2> QED  BY <2>1, <2>2
<1>2. CASE \E v \in Workers : Crash(v)
  <2>1. claim' = claim
    BY <1>2 DEF Crash
  <2>2. ReadsOn(w)
    <3>1. PICK v \in Workers : attempt' = [attempt EXCEPT ![v] = Asleep]
      BY <1>2 DEF Crash
    <3>2. CASE v = w
      BY <1>0, <3>1, <3>2, AsleepReads DEF ReadsOn
    <3>3. CASE v # w
      <4>1. attempt'[w] = attempt[w]
        BY <1>0, <3>1, <3>3
      <4> QED  BY <4>1 DEF ReadsOn, Reads, Holds, At
    <3> QED  BY <3>2, <3>3
  <2> QED  BY <2>1, <2>2, CoverageKept
<1>3. CASE \/ \E v \in Workers : Membership(v)
           \/ Fallback \/ SessionsChange \/ Switch \/ LeaderChange \/ Settle
           \/ UNCHANGED personaVars
  <2>1. claim' = claim /\ attempt' = attempt
    BY <1>3 DEF Membership, Fallback, Seed, Scan, FallbackRead, FallbackRaises,
                SessionsChange, Switch, LeaderChange, Settle, personaVars
  <2>2. ReadsOn(w)
    BY <2>1 DEF ReadsOn, Reads, Holds, At
  <2> QED  BY <2>1, <2>2, CoverageKept
<1>4. CASE ServerOffline
  <2>1. Reads(w)' => attempt'[w].voided
    BY <1>0, <1>4 DEF ServerOffline, Reads, Holds, At, AttemptType
  <2> QED  BY <2>1 DEF Expired
<1>5. CASE PersonaTick
  <2> SUFFICES ASSUME Reads(w)', ~Expired(w)'
               PROVE  claim'.holder = w /\ claim'.left + attempt'[w].age = Claim
    OBVIOUS
  <2>1. Reads(w) /\ attempt'[w].age = attempt[w].age + 1
        /\ attempt'[w].voided = attempt[w].voided
    BY <1>0, <1>5 DEF PersonaTick, Reads, Holds, At, AttemptType
  <2>2. ~Expired(w) /\ attempt[w].age + 1 < Claim
    BY <2>1, WorkerFacts DEF Expired
  <2>3. claim.holder = w /\ claim.left + attempt[w].age = Claim
    BY <2>1, <2>2 DEF Covered
  <2>4. claim.left \in Nat /\ claim.left > 0
    BY <2>2, <2>3, WorkerFacts
  <2>5. claim'.holder = w /\ claim'.left = claim.left - 1
    BY <1>0, <1>5, <2>3, <2>4, LessFacts DEF PersonaTick, ClaimType
  <2> QED  BY <2>1, <2>3, <2>5, WorkerFacts
<1> QED  BY <1>1, <1>2, <1>3, <1>4, <1>5 DEF PersonaNext

LEMMA CoverageHolds == PersonaSpec => [](PersonaTypeOK /\ Covered)
<1>1. PersonaInit => PersonaTypeOK /\ Covered
  BY InitPersonaTypes, InitCovered
<1>2. PersonaTypeOK /\ Covered /\ [PersonaNext]_personaVars => (PersonaTypeOK /\ Covered)'
  BY PersonaTypeStep, CoveredStep
<1> QED  BY <1>1, <1>2, PTL DEF PersonaSpec

\* For any number of workers and any claim, two of them read the page at once only
\* when one has outlived its claim or the server went offline meanwhile.
\* (_claim_persona_server, _finish_persona_attempt.)
THEOREM ReadersExclude == PersonaSpec => []OverlapNeedsExpiry
<1>1. PersonaTypeOK /\ Covered => OverlapNeedsExpiry
  BY DEF Covered, OverlapNeedsExpiry
<1> QED  BY <1>1, CoverageHolds, PTL

\* Whoever takes over or ends a claim that has not run out is its holder, or the
\* server went offline. (_claim_persona_server, _finish_persona_attempt.)
THEOREM ClaimsStand == PersonaSpec => LiveClaimStands
<1>1. ASSUME PersonaTypeOK, [PersonaNext]_personaVars, NEW w \in Workers,
             claim.holder = w, claim.left > 0, attempt'[w] = attempt[w]
      PROVE  claim'.holder \in {w, NoRow}
  <2>0. attempt \in [Workers -> AttemptType] /\ claim \in ClaimType
    BY <1>1 DEF PersonaTypeOK
  <2>1. ASSUME NEW v \in Workers, PersonaStep(v) \/ FinishRaises(v)
        PROVE  claim'.holder = w
    <3>1. CASE v # w
      BY <1>1, <2>1, <3>1, VisitSparesClaims
    <3>2. CASE v = w
      <4>1. ~Finish(w) /\ ~FinishRaises(w)
        BY <1>1, <2>0 DEF Finish, FinishRaises, Ends, Asleep, At, AttemptType
      <4>2. CASE TryClaim(w)
        BY <1>1, <2>0, <4>2 DEF TryClaim, ClaimType
      <4>3. CASE \/ Sweep(w) \/ CheckOwner(w) \/ LookPending(w)
                 \/ Read(w) \/ ReadStreak(w) \/ Raises(w)
        BY <1>1, <4>3 DEF Sweep, CheckOwner, LookPending, Read, ReadStreak, Raises
      <4> QED  BY <2>1, <3>2, <4>1, <4>2, <4>3 DEF PersonaStep
    <3> QED  BY <3>1, <3>2
  <2>2. CASE ServerOffline
    BY <2>2 DEF ServerOffline, Unclaimed
  <2>3. CASE PersonaTick
    BY <1>1, <2>0, <2>3 DEF PersonaTick, ClaimType
  <2>4. CASE \/ \E v \in Workers : Membership(v) \/ Crash(v)
             \/ Fallback \/ SessionsChange \/ Switch \/ LeaderChange \/ Settle
             \/ UNCHANGED personaVars
    BY <1>1, <2>4 DEF Membership, Crash, Fallback, Seed, Scan, FallbackRead, FallbackRaises,
                      SessionsChange, Switch, LeaderChange, Settle, personaVars
  <2> QED  BY <1>1, <2>1, <2>2, <2>3, <2>4 DEF PersonaNext
<1>2. PersonaTypeOK /\ [PersonaNext]_personaVars =>
        [\A w \in Workers : claim.holder = w /\ claim.left > 0 /\ attempt'[w] = attempt[w] =>
           claim'.holder \in {w, NoRow}]_personaVars
  BY <1>1
<1> QED  BY <1>2, PersonaTypesHold, PTL DEF PersonaSpec, LiveClaimStands
=============================================================================
