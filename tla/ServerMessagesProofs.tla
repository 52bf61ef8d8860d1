-------------------------- MODULE ServerMessagesProofs --------------------------
(***************************************************************************)
(* The messages about a server for any number of channels and faults: their *)
(* types; that the management role is mentioned once in an outage; that the *)
(* notices that the server is offline and that it is back never stand       *)
(* together; that no message is left behind that nobody remembers; and that *)
(* one undisturbed cycle puts right what is shown. Ids, a bound of the      *)
(* runs, is lifted: EnoughIds says that they do not run out, which every    *)
(* set of six ids satisfies as well as Nat.                                 *)
(***************************************************************************)
EXTENDS ServerMessagesInv, TLAPS, SequenceTheorems, WellFoundedInduction

EnoughIds ==
  \A v, w, x, y, z \in Nat : \E i \in Ids : i \notin {v, w, x, y, z}

-----------------------------------------------------------------------------
(* Numbers and sequences.                                                    *)

LEMMA Minimum ==
  ASSUME NEW T \in SUBSET Nat, T # {}
  PROVE  \E x \in T : \A y \in T : x <= y
<1> DEFINE Less == OpToRel(<, Nat)
<1>1. IsWellFoundedOn(Less, Nat)
  BY NatLessThanWellFounded
<1>2. \A x, y \in Nat : x < y => <<x, y>> \in Less
  BY DEF OpToRel
<1> HIDE DEF Less
<1>3. PICK x \in T : \A y \in T : <<y, x>> \notin Less
  BY <1>1, WFMin
<1>4. \A y \in T : ~(y < x)
  BY <1>2, <1>3
<1>5. \A y \in T : x <= y
  BY <1>4
<1> QED
  BY <1>5

LEMMA Sequence ==
  ASSUME NEW s \in Seq(Operation)
  PROVE  /\ Len(s) \in Nat /\ DOMAIN s = 1 .. Len(s)
         /\ \A i \in DOMAIN s : s[i] \in Operation
         /\ s # <<>> => Len(s) # 0 /\ Head(s) = s[1]
         /\ Len(s) = 0 => s = <<>>
BY LenProperties, EmptySeq, HeadTailProperties

LEMMA TailOf ==
  ASSUME NEW s \in Seq(Operation), s # <<>>
  PROVE  /\ Tail(s) \in Seq(Operation) /\ Len(Tail(s)) = Len(s) - 1
         /\ DOMAIN Tail(s) = 1 .. Len(s) - 1
         /\ \A i \in DOMAIN Tail(s) : Tail(s)[i] = s[i + 1] /\ i + 1 \in DOMAIN s
<1>1. /\ Tail(s) \in Seq(Operation) /\ Len(Tail(s)) = Len(s) - 1
      /\ \A i \in 1 .. Len(Tail(s)) : Tail(s)[i] = s[i + 1]
  BY HeadTailProperties
<1>2. DOMAIN Tail(s) = 1 .. Len(Tail(s)) /\ Len(s) \in Nat /\ DOMAIN s = 1 .. Len(s)
  BY <1>1, LenProperties
<1> QED
  BY <1>1, <1>2

LEMMA Joined ==
  ASSUME NEW r \in Seq(Operation), NEW s \in Seq(Operation)
  PROVE  /\ r \o s \in Seq(Operation) /\ Len(r \o s) = Len(r) + Len(s)
         /\ DOMAIN (r \o s) = 1 .. Len(r) + Len(s)
         /\ \A i \in DOMAIN (r \o s) :
              (r \o s)[i] = IF i <= Len(r) THEN r[i] ELSE s[i - Len(r)]
         /\ \A i \in DOMAIN r : i \in DOMAIN (r \o s) /\ (r \o s)[i] = r[i]
         /\ \A i \in DOMAIN s : i + Len(r) \in DOMAIN (r \o s) /\ (r \o s)[i + Len(r)] = s[i]
<1>1. /\ r \o s \in Seq(Operation) /\ Len(r \o s) = Len(r) + Len(s)
      /\ \A i \in 1 .. Len(r) + Len(s) :
           (r \o s)[i] = IF i <= Len(r) THEN r[i] ELSE s[i - Len(r)]
  BY ConcatProperties
<1>2. DOMAIN (r \o s) = 1 .. Len(r \o s) /\ DOMAIN r = 1 .. Len(r)
      /\ DOMAIN s = 1 .. Len(s) /\ Len(r) \in Nat /\ Len(s) \in Nat
  BY <1>1, LenProperties
<1> QED
  BY <1>1, <1>2

LEMMA Cut ==
  ASSUME NEW s \in Seq(Operation), NEW e \in DOMAIN s
  PROVE  LET c == SubSeq(s, 1 + e, Len(s))
         IN  /\ c \in Seq(Operation)
             /\ DOMAIN c = 1 .. Len(s) - e
             /\ \A i \in DOMAIN c : c[i] = s[i + e] /\ i + e \in DOMAIN s
<1> DEFINE c == SubSeq(s, 1 + e, Len(s))
<1>1. Len(s) \in Nat /\ DOMAIN s = 1 .. Len(s) /\ \A i \in DOMAIN s : s[i] \in Operation
  BY Sequence
<1>2. e \in 1 .. Len(s) /\ 1 + e \in Int /\ Len(s) \in Int
      /\ \A i \in 1 + e .. Len(s) : s[i] \in Operation
  BY <1>1
<1>3. /\ c \in Seq(Operation)
      /\ Len(c) = IF 1 + e <= Len(s) THEN Len(s) - (1 + e) + 1 ELSE 0
      /\ \A i \in 1 .. Len(s) - (1 + e) + 1 : c[i] = s[1 + e + i - 1]
  BY <1>2, SubSeqProperties
<1>4. DOMAIN c = 1 .. Len(c)
  BY <1>3, LenProperties
<1> HIDE DEF c
<1>5. Len(c) = Len(s) - e
  BY <1>1, <1>2, <1>3
<1>6. \A i \in DOMAIN c : c[i] = s[i + e] /\ i + e \in DOMAIN s
  <2> SUFFICES ASSUME NEW i \in DOMAIN c
               PROVE  c[i] = s[i + e] /\ i + e \in DOMAIN s
    OBVIOUS
  <2>1. i \in 1 .. Len(s) - e /\ e \in Nat /\ Len(s) \in Nat
    BY <1>1, <1>4, <1>5
  <2>2. i \in 1 .. Len(s) - (1 + e) + 1 /\ 1 + e + i - 1 = i + e
    BY <2>1
  <2>3. c[i] = s[i + e]
    BY <1>3, <2>2
  <2>4. i + e \in DOMAIN s
    BY <1>1, <2>1
  <2> QED
    BY <2>3, <2>4
<1> QED
  BY <1>3, <1>4, <1>5, <1>6 DEF c

-----------------------------------------------------------------------------
(* Plans.                                                                    *)

Silent(s) == \A i \in DOMAIN s : ~Notices(s[i]) /\ ~Bars(s[i])
Mild(s) == ~HasNotice(s) /\ ~HasRecovery(s)

\* The plan r follows from s without anything new about the notices.
Within(r, s) ==
  /\ Regular(r)
  /\ HasMention(r) => HasMention(s)
  /\ HasNotice(r) => HasNotice(s)
  /\ HasRecovery(r) => HasRecovery(s)
  /\ HasNotice(r) /\ ForgetsFirst(s) /\ ~Forgets(s[1]) => ForgetsFirst(r)

LEMMA MildPlan ==
  ASSUME NEW r, NEW s, ~HasNotice(r), HasRecovery(r) => HasRecovery(s)
  PROVE  Within(r, s)
BY DEF Within, Regular, HasNotice, HasMention, Notices

LEMMA NoPlan ==
  Regular(<<>>) /\ ~HasNotice(<<>>) /\ ~HasRecovery(<<>>) /\ ~HasMention(<<>>)
BY DEF Regular, HasNotice, HasRecovery, HasMention

LEMMA BarredPlan ==
  ASSUME NEW s \in Seq(Operation), Regular(s), NEW e \in DOMAIN s, Bars(s[e])
  PROVE  \A i \in DOMAIN s : Notices(s[i]) => i < e
<1> SUFFICES ASSUME NEW i \in DOMAIN s, Notices(s[i])
             PROVE  i < e
  OBVIOUS
<1>1. ~Notices(s[e])
  BY DEF Bars, Recovers, Notices, Mentions, Notes, Procedures
<1>2. ~(e < i)
  BY DEF Regular
<1>3. e \in Int /\ i \in Int /\ i # e
  BY <1>1, Sequence
<1> QED
  BY <1>2, <1>3

\* A procedure begins.
LEMMA Begins ==
  ASSUME NEW s \in Seq(Operation), s # <<>>, Regular(s), Bars(s[1])
  PROVE  /\ ~HasNotice(s) /\ ~HasNotice(Tail(s))
         /\ HasRecovery(Tail(s)) => HasRecovery(s)
<1>1. \A i \in DOMAIN s : i \in Nat \ {0}
  BY Sequence
<1>2. 1 \in DOMAIN s
  BY Sequence
<1>3. \A i \in DOMAIN s : ~Notices(s[i])
  BY <1>1, <1>2, BarredPlan
<1> QED
  BY <1>3, TailOf DEF HasNotice, HasRecovery

LEMMA Begun ==
  ASSUME NEW s \in Seq(Operation), s # <<>>, Regular(s), Bars(s[1]),
         NEW ops \in Seq(Operation), Mild(ops)
  PROVE  Within(ops \o Tail(s), s)
<1> DEFINE r == ops \o Tail(s)
<1>1. Tail(s) \in Seq(Operation) /\ Len(ops) \in Nat
  BY TailOf, Sequence
<1>2. \A i \in DOMAIN r : \/ \E j \in DOMAIN ops : r[i] = ops[j]
                          \/ \E j \in DOMAIN Tail(s) : r[i] = Tail(s)[j]
  <2> SUFFICES ASSUME NEW i \in DOMAIN r
               PROVE  \/ \E j \in DOMAIN ops : r[i] = ops[j]
                      \/ \E j \in DOMAIN Tail(s) : r[i] = Tail(s)[j]
    OBVIOUS
  <2>1. /\ i \in 1 .. Len(ops) + Len(Tail(s)) /\ Len(Tail(s)) \in Nat
        /\ r[i] = IF i <= Len(ops) THEN ops[i] ELSE Tail(s)[i - Len(ops)]
        /\ DOMAIN ops = 1 .. Len(ops) /\ DOMAIN Tail(s) = 1 .. Len(Tail(s))
    BY <1>1, Joined, Sequence
  <2> QED
    BY <1>1, <2>1
<1> HIDE DEF r
<1>3. ~HasNotice(r)
  BY <1>2, Begins DEF HasNotice, Mild
<1>4. HasRecovery(r) => HasRecovery(s)
  BY <1>2, Begins DEF HasRecovery, Mild
<1> QED
  BY <1>3, <1>4, MildPlan DEF r

HasForget(s) == \E i \in DOMAIN s : Forgets(s[i])

LEMMA Prefixed ==
  ASSUME NEW ops \in Seq(Operation), Silent(ops), NEW s \in Seq(Operation), Regular(s)
  PROVE  /\ Within(ops \o s, s)
         /\ ForgetsFirst(s) \/ HasForget(ops) => ForgetsFirst(ops \o s)
<1> DEFINE r == ops \o s
           n == Len(ops)
<1>1. n \in Nat /\ DOMAIN ops = 1 .. n /\ Len(s) \in Nat /\ DOMAIN s = 1 .. Len(s)
      /\ DOMAIN r = 1 .. n + Len(s)
  BY Sequence, Joined
<1>2. ASSUME NEW i \in DOMAIN r
      PROVE  \/ i \in DOMAIN ops /\ ~Notices(r[i]) /\ ~Bars(r[i])
             \/ i > n /\ i - n \in DOMAIN s /\ r[i] = s[i - n]
  <2>1. i \in 1 .. n + Len(s) /\ r[i] = IF i <= n THEN ops[i] ELSE s[i - n]
    BY <1>1, <1>2, Joined
  <2> QED
    BY <1>1, <2>1 DEF Silent
<1>3. /\ \A j \in DOMAIN s : j + n \in DOMAIN r /\ r[j + n] = s[j]
      /\ \A j \in DOMAIN ops : j \in DOMAIN r /\ r[j] = ops[j]
  BY Joined
<1> HIDE DEF r, n
<1>4. ASSUME NEW i \in DOMAIN r, Notices(r[i])
      PROVE  i > n /\ i - n \in DOMAIN s /\ r[i] = s[i - n] /\ i \in Nat
  BY <1>1, <1>2, <1>4
<1>5. \A i \in DOMAIN r : Mentions(r[i]) => i + 1 \in DOMAIN r /\ Notes(r[i + 1])
  <2> SUFFICES ASSUME NEW i \in DOMAIN r, Mentions(r[i])
               PROVE  i + 1 \in DOMAIN r /\ Notes(r[i + 1])
    OBVIOUS
  <2>1. i > n /\ i - n \in DOMAIN s /\ r[i] = s[i - n] /\ i \in Nat
    BY <1>4 DEF Notices
  <2>2. i - n + 1 \in DOMAIN s /\ Notes(s[i - n + 1])
    BY <2>1 DEF Regular
  <2>3. i - n + 1 + n = i + 1
    BY <1>1, <2>1
  <2> QED
    BY <1>3, <2>2, <2>3
<1>6. \A i, j \in DOMAIN r : Notes(r[i]) /\ Notes(r[j]) => i = j
  <2> SUFFICES ASSUME NEW i \in DOMAIN r, NEW j \in DOMAIN r, Notes(r[i]), Notes(r[j])
               PROVE  i = j
    OBVIOUS
  <2>1. i - n \in DOMAIN s /\ r[i] = s[i - n] /\ i \in Nat
    BY <1>4 DEF Notices
  <2>2. j - n \in DOMAIN s /\ r[j] = s[j - n] /\ j \in Nat
    BY <1>4 DEF Notices
  <2>3. i - n = j - n
    BY <2>1, <2>2 DEF Regular
  <2> QED
    BY <1>1, <2>1, <2>2, <2>3
<1>7. \A i, j \in DOMAIN r : Notices(r[i]) /\ j < i => ~Bars(r[j])
  <2> SUFFICES ASSUME NEW i \in DOMAIN r, NEW j \in DOMAIN r, Notices(r[i]), j < i, Bars(r[j])
               PROVE  FALSE
    OBVIOUS
  <2>1. i - n \in DOMAIN s /\ r[i] = s[i - n] /\ i \in Nat
    BY <1>4
  <2>2. j - n \in DOMAIN s /\ r[j] = s[j - n]
    BY <1>2
  <2>3. j - n < i - n
    BY <1>1, <2>1
  <2> QED
    BY <2>1, <2>2, <2>3 DEF Regular
<1>8. /\ HasMention(r) => HasMention(s)
      /\ HasNotice(r) => HasNotice(s)
      /\ HasRecovery(r) => HasRecovery(s)
  BY <1>2 DEF HasMention, HasNotice, HasRecovery, Notices, Bars
<1>9. ForgetsFirst(s) \/ HasForget(ops) => ForgetsFirst(r)
  <2> SUFFICES ASSUME ForgetsFirst(s) \/ HasForget(ops), NEW i \in DOMAIN r, Notices(r[i])
               PROVE  \E j \in DOMAIN r : j < i /\ Forgets(r[j])
    BY DEF ForgetsFirst
  <2>1. i > n /\ i - n \in DOMAIN s /\ r[i] = s[i - n] /\ i \in Nat
    BY <1>4
  <2>2. CASE HasForget(ops)
    <3>1. PICK j \in DOMAIN ops : Forgets(ops[j])
      BY <2>2 DEF HasForget
    <3>2. j < i
      BY <1>1, <2>1
    <3> QED
      BY <1>3, <3>1, <3>2
  <2>3. CASE ForgetsFirst(s)
    <3>1. PICK j \in DOMAIN s : j < i - n /\ Forgets(s[j])
      BY <2>1, <2>3 DEF ForgetsFirst
    <3>2. j + n < i
      BY <1>1, <2>1, <3>1
    <3> QED
      BY <1>3, <3>1, <3>2
  <2> QED
    BY <2>2, <2>3
<1> QED
  BY <1>5, <1>6, <1>7, <1>8, <1>9 DEF Within, Regular, r

LEMMA Shorter ==
  ASSUME NEW s \in Seq(Operation), s # <<>>, Regular(s)
  PROVE  Within(Tail(s), s)
<1> DEFINE c == Tail(s)
<1>1. /\ \A i \in DOMAIN c : c[i] = s[i + 1] /\ i + 1 \in DOMAIN s /\ i \in Nat \ {0}
      /\ \A j \in DOMAIN s : /\ j \in Nat \ {0}
                             /\ j # 1 => j - 1 \in DOMAIN c /\ c[j - 1] = s[j]
  <2>1. /\ DOMAIN c = 1 .. Len(s) - 1 /\ Len(s) \in Nat /\ DOMAIN s = 1 .. Len(s)
        /\ \A i \in DOMAIN c : c[i] = s[i + 1] /\ i + 1 \in DOMAIN s
    BY TailOf, Sequence
  <2> HIDE DEF c
  <2>2. \A j \in DOMAIN s : j # 1 => j - 1 \in DOMAIN c /\ j - 1 + 1 = j
    BY <2>1
  <2> QED
    BY <2>1, <2>2
<1> HIDE DEF c
<1>2. \A i \in DOMAIN c : Mentions(c[i]) => i + 1 \in DOMAIN c /\ Notes(c[i + 1])
  <2> SUFFICES ASSUME NEW i \in DOMAIN c, Mentions(c[i])
               PROVE  i + 1 \in DOMAIN c /\ Notes(c[i + 1])
    OBVIOUS
  <2>1. i + 1 + 1 \in DOMAIN s /\ Notes(s[i + 1 + 1])
    BY <1>1 DEF Regular
  <2>2. i + 1 + 1 # 1 /\ i + 1 + 1 - 1 = i + 1
    BY <1>1
  <2> QED
    BY <1>1, <2>1, <2>2
<1>3. \A i, j \in DOMAIN c : /\ Notes(c[i]) /\ Notes(c[j]) => i = j
                            /\ Notices(c[i]) /\ j < i => ~Bars(c[j])
  <2> SUFFICES ASSUME NEW i \in DOMAIN c, NEW j \in DOMAIN c
               PROVE  /\ Notes(c[i]) /\ Notes(c[j]) => i = j
                      /\ Notices(c[i]) /\ j < i => ~Bars(c[j])
    OBVIOUS
  <2>1. (i + 1 = j + 1 => i = j) /\ (j < i => j + 1 < i + 1)
    BY <1>1
  <2> QED
    BY <1>1, <2>1 DEF Regular
<1>4. ForgetsFirst(s) /\ ~Forgets(s[1]) => ForgetsFirst(c)
  <2> SUFFICES ASSUME ForgetsFirst(s), ~Forgets(s[1]), NEW i \in DOMAIN c, Notices(c[i])
               PROVE  \E j \in DOMAIN c : j < i /\ Forgets(c[j])
    BY DEF ForgetsFirst
  <2>1. PICK j \in DOMAIN s : j < i + 1 /\ Forgets(s[j])
    BY <1>1 DEF ForgetsFirst
  <2>2. j # 1 /\ j - 1 < i
    BY <1>1, <2>1
  <2> QED
    BY <1>1, <2>1, <2>2
<1>5. /\ HasMention(c) => HasMention(s)
      /\ HasNotice(c) => HasNotice(s)
      /\ HasRecovery(c) => HasRecovery(s)
  BY <1>1 DEF HasMention, HasNotice, HasRecovery
<1> QED
  BY <1>2, <1>3, <1>4, <1>5 DEF Within, Regular, c

\* A task goes on within a procedure.
LEMMA Continues ==
  ASSUME NEW s \in Seq(Operation), s # <<>>, Regular(s),
         NEW ops \in Seq(Operation), Silent(ops)
  PROVE  Within(ops \o Tail(s), s)
<1>1. Tail(s) \in Seq(Operation)
  BY TailOf
<1>2. Within(Tail(s), s)
  BY Shorter
<1>3. Within(ops \o Tail(s), Tail(s))
      /\ (ForgetsFirst(Tail(s)) => ForgetsFirst(ops \o Tail(s)))
  BY <1>1, <1>2, Prefixed DEF Within
<1> QED
  BY <1>2, <1>3 DEF Within

\* The first operation that mentions is replaced by another that does.
LEMMA MentionsAgain ==
  ASSUME NEW s \in Seq(Operation), s # <<>>, Regular(s), Mentions(s[1]),
         NEW op \in Operation, Mentions(op)
  PROVE  Within(<<op>> \o Tail(s), s)
<1> DEFINE r == <<op>> \o Tail(s)
<1>1. /\ Len(s) \in Nat /\ Len(s) # 0 /\ DOMAIN s = 1 .. Len(s) /\ Tail(s) \in Seq(Operation)
      /\ <<op>> \in Seq(Operation) /\ Len(<<op>>) = 1 /\ <<op>>[1] = op
  BY TailOf, Sequence
<1>2. DOMAIN r = DOMAIN s
  BY <1>1, TailOf, Joined
<1>3. \A i \in DOMAIN s : i # 1 => r[i] = s[i]
  <2> SUFFICES ASSUME NEW i \in DOMAIN s, i # 1
               PROVE  r[i] = s[i]
    OBVIOUS
  <2>1. i \in 2 .. Len(s) /\ i - 1 \in 1 .. Len(s) - 1 /\ i - 1 + 1 = i
    BY <1>1
  <2>2. Tail(s)[i - 1] = s[i]
    BY <2>1, TailOf
  <2> QED
    BY <1>1, <1>2, <2>1, <2>2, Joined
<1>4. r[1] = op /\ 1 \in DOMAIN s
  BY <1>1, <1>2, Joined
<1> HIDE DEF r
<1>5. \A i \in DOMAIN s : /\ Mentions(r[i]) <=> Mentions(s[i])
                          /\ Notes(r[i]) <=> Notes(s[i])
                          /\ Bars(r[i]) <=> Bars(s[i])
                          /\ Recovers(r[i]) <=> Recovers(s[i])
  BY <1>3, <1>4 DEF Mentions, Notes, Bars, Recovers, Procedures
<1>6. Regular(r)
  <2>1. \A i \in DOMAIN s : Notices(r[i]) <=> Notices(s[i])
    BY <1>5 DEF Notices
  <2> QED
    BY <1>2, <1>5, <2>1 DEF Regular
<1>7. ~ForgetsFirst(s)
  <2>1. \A j \in DOMAIN s : ~(j < 1)
    BY <1>1
  <2> QED
    BY <1>4, <2>1 DEF ForgetsFirst, Notices
<1>8. /\ HasMention(s) /\ HasNotice(s)
      /\ HasRecovery(r) => HasRecovery(s)
  BY <1>2, <1>4, <1>5 DEF HasMention, HasNotice, HasRecovery, Notices
<1> QED
  BY <1>6, <1>7, <1>8 DEF Within, r

\* A procedure about a notice is put before a plan without one.
LEMMA Procedure ==
  ASSUME NEW ops \in Seq(Operation), Regular(ops), NEW s \in Seq(Operation), ~HasNotice(s)
  PROVE  /\ Regular(ops \o s)
         /\ HasRecovery(ops \o s) => HasRecovery(ops) \/ HasRecovery(s)
         /\ HasNotice(ops \o s) => HasNotice(ops)
         /\ ForgetsFirst(ops) => ForgetsFirst(ops \o s)
<1> DEFINE r == ops \o s
           n == Len(ops)
<1>1. n \in Nat /\ DOMAIN ops = 1 .. n /\ Len(s) \in Nat /\ DOMAIN s = 1 .. Len(s)
      /\ DOMAIN r = 1 .. n + Len(s)
  BY Sequence, Joined
<1>2. ASSUME NEW i \in DOMAIN r
      PROVE  \/ i \in DOMAIN ops /\ r[i] = ops[i]
             \/ i > n /\ i - n \in DOMAIN s /\ r[i] = s[i - n]
  <2>1. i \in 1 .. n + Len(s) /\ r[i] = IF i <= n THEN ops[i] ELSE s[i - n]
    BY <1>1, <1>2, Joined
  <2> QED
    BY <1>1, <2>1
<1>3. \A i \in DOMAIN ops : i \in DOMAIN r /\ r[i] = ops[i]
  BY Joined
<1> HIDE DEF r, n
<1>4. \A i \in DOMAIN r : Notices(r[i]) => i \in DOMAIN ops /\ r[i] = ops[i]
  BY <1>2 DEF HasNotice
<1>5. \A i \in DOMAIN ops, j \in DOMAIN r : j < i => j \in DOMAIN ops
  BY <1>1
<1>6. Regular(r)
  <2>1. \A i \in DOMAIN r : Mentions(r[i]) => i + 1 \in DOMAIN r /\ Notes(r[i + 1])
    BY <1>3, <1>4 DEF Regular, Notices
  <2>2. \A i, j \in DOMAIN r : Notes(r[i]) /\ Notes(r[j]) => i = j
    BY <1>4 DEF Regular, Notices
  <2>3. \A i, j \in DOMAIN r : Notices(r[i]) /\ j < i => ~Bars(r[j])
    <3> SUFFICES ASSUME NEW i \in DOMAIN r, NEW j \in DOMAIN r, Notices(r[i]), j < i
                 PROVE  ~Bars(r[j])
      OBVIOUS
    <3>1. i \in DOMAIN ops /\ r[i] = ops[i] /\ j \in DOMAIN ops
      BY <1>4, <1>5
    <3>2. r[j] = ops[j]
      BY <1>3, <3>1
    <3> QED
      BY <3>1, <3>2 DEF Regular
  <2> QED
    BY <2>1, <2>2, <2>3 DEF Regular
<1>7. HasRecovery(r) => HasRecovery(ops) \/ HasRecovery(s)
  BY <1>2 DEF HasRecovery
<1>8. ForgetsFirst(ops) => ForgetsFirst(r)
  BY <1>3, <1>4 DEF ForgetsFirst
<1>9. HasNotice(r) => HasNotice(ops)
  BY <1>4 DEF HasNotice
<1> QED
  BY <1>6, <1>7, <1>8, <1>9 DEF r

\* What follows the end of a procedure has nothing to do with its notice.
LEMMA AfterEnd ==
  ASSUME NEW s \in Seq(Operation), Regular(s), NEW e \in DOMAIN s, s[e].do = "end"
  PROVE  Within(SubSeq(s, 1 + e, Len(s)), s) /\ ~HasNotice(SubSeq(s, 1 + e, Len(s)))
<1> DEFINE c == SubSeq(s, 1 + e, Len(s))
<1>1. \A i \in DOMAIN c : c[i] = s[i + e] /\ i + e \in DOMAIN s /\ ~(i + e < e)
  <2>1. /\ DOMAIN c = 1 .. Len(s) - e
        /\ \A i \in DOMAIN c : c[i] = s[i + e] /\ i + e \in DOMAIN s
    BY Cut
  <2>2. e \in Nat /\ Len(s) \in Nat
    BY Sequence
  <2> QED
    BY <2>1, <2>2
<1> HIDE DEF c
<1>2. Bars(s[e])
  BY DEF Bars, Procedures
<1>3. ~HasNotice(c)
  BY <1>1, <1>2, BarredPlan DEF HasNotice
<1>4. HasRecovery(c) => HasRecovery(s)
  BY <1>1 DEF HasRecovery
<1> QED
  BY <1>3, <1>4, MildPlan DEF c

SilentPlans == {s \in Seq(Operation) : Silent(s)}
MildPlans == {s \in Seq(Operation) : Mild(s)}

LEMMA Plans ==
  /\ SilentPlans \subseteq MildPlans /\ MildPlans \subseteq Seq(Operation)
  /\ \A r, s \in SilentPlans : r \o s \in SilentPlans
  /\ \A r, s \in MildPlans : r \o s \in MildPlans
  /\ <<>> \in SilentPlans
<1>1. ASSUME NEW r \in Seq(Operation), NEW s \in Seq(Operation), NEW i \in DOMAIN (r \o s)
      PROVE  \/ \E j \in DOMAIN r : (r \o s)[i] = r[j]
             \/ \E j \in DOMAIN s : (r \o s)[i] = s[j]
  <2>1. /\ i \in 1 .. Len(r) + Len(s) /\ Len(r) \in Nat /\ Len(s) \in Nat
        /\ (r \o s)[i] = IF i <= Len(r) THEN r[i] ELSE s[i - Len(r)]
        /\ DOMAIN r = 1 .. Len(r) /\ DOMAIN s = 1 .. Len(s)
    BY <1>1, Joined, Sequence
  <2> QED
    BY <2>1
<1>2. \A r, s \in Seq(Operation) : r \o s \in Seq(Operation)
  BY Joined
<1>3. ASSUME NEW r \in SilentPlans, NEW s \in SilentPlans
      PROVE  r \o s \in SilentPlans
  <2>1. r \in Seq(Operation) /\ s \in Seq(Operation) /\ Silent(r) /\ Silent(s)
    BY DEF SilentPlans
  <2>2. Silent(r \o s)
    BY <1>1, <2>1 DEF Silent
  <2> QED
    BY <1>2, <2>1, <2>2 DEF SilentPlans
<1>4. ASSUME NEW r \in MildPlans, NEW s \in MildPlans
      PROVE  r \o s \in MildPlans
  <2>1. r \in Seq(Operation) /\ s \in Seq(Operation) /\ Mild(r) /\ Mild(s)
    BY DEF MildPlans
  <2>2. Mild(r \o s)
    BY <1>1, <2>1 DEF Mild, HasNotice, HasRecovery
  <2> QED
    BY <1>2, <2>1, <2>2 DEF MildPlans
<1>5. <<>> \in SilentPlans
  BY EmptySeq DEF SilentPlans, Silent
<1>6. SilentPlans \subseteq MildPlans
  BY DEF SilentPlans, MildPlans, Silent, Mild, HasNotice, HasRecovery, Bars
<1>7. MildPlans \subseteq Seq(Operation)
  BY DEF MildPlans
<1> QED
  BY <1>3, <1>4, <1>5, <1>6, <1>7

LEMMA Single ==
  ASSUME NEW op \in Operation
  PROVE  /\ <<op>> \in Seq(Operation) /\ Len(<<op>>) = 1 /\ <<op>>[1] = op
         /\ ~Notices(op) /\ ~Bars(op) => <<op>> \in SilentPlans
         /\ ~Notices(op) /\ ~Recovers(op) => <<op>> \in MildPlans
<1>1. <<op>> \in Seq(Operation) /\ Len(<<op>>) = 1 /\ <<op>>[1] = op
  OBVIOUS
<1>2. \A i \in DOMAIN <<op>> : <<op>>[i] = op
  OBVIOUS
<1> QED
  BY <1>1, <1>2 DEF SilentPlans, Silent, MildPlans, Mild, HasNotice, HasRecovery

LEMMA Operations ==
  /\ \A do \in Deeds, k \in Kinds, fail \in Fates :
       /\ Op(do, k, fail) \in Operation
       /\ Op(do, k, fail).do = do /\ Op(do, k, fail).kind = k /\ Op(do, k, fail).fail = fail
  /\ \A do \in Deeds : Run(do) \in Operation /\ Run(do).do = do /\ Run(do).kind = "status"
  /\ End \in Operation /\ End.do = "end"
BY DEF Op, Run, End, Operation, Kinds, Fates, Deeds, Procedures

LEMMA Deletions ==
  ASSUME NEW k \in Kinds, NEW do \in {"delete", "forget"}, NEW fail \in Fates
  PROVE  <<Op(do, k, fail)>> \in SilentPlans /\ IfAny(k, do, fail) \in SilentPlans
<1>0. do \in Deeds
  BY DEF Deeds
<1>1. Op(do, k, fail) \in Operation /\ Op(do, k, fail).do = do
  BY <1>0, Operations
<1>2. ~Notices(Op(do, k, fail)) /\ ~Bars(Op(do, k, fail))
  BY <1>1 DEF Notices, Mentions, Notes, Bars, Recovers, Procedures
<1>3. <<Op(do, k, fail)>> \in SilentPlans
  BY <1>1, <1>2, Single
<1> QED
  BY <1>3, Plans DEF IfAny

\* An operation that runs something within a procedure, or is about another message.
LEMMA Aside ==
  /\ \A do \in {"clear eta", "clear lists", "compare", "build", "set", "remove"} :
       <<Run(do)>> \in SilentPlans
  /\ \A k \in Kinds, fail \in Fates : <<Op("check", k, fail)>> \in SilentPlans
  /\ \A do \in {"send", "edit"}, k \in Kinds \ {"notice"}, fail \in Fates :
       <<Op(do, k, fail)>> \in SilentPlans
  /\ \A k \in Kinds \ {"notice", "recovery"}, fail \in Fates :
       <<Op("record", k, fail)>> \in SilentPlans
  /\ \A do \in Procedures : <<Run(do)>> \in MildPlans
  /\ <<End>> \in MildPlans
<1>1. ASSUME NEW do \in {"clear eta", "clear lists", "compare", "build", "set", "remove"}
      PROVE  <<Run(do)>> \in SilentPlans
  <2>1. Run(do) \in Operation /\ Run(do).do = do
    BY Operations DEF Deeds
  <2>2. ~Notices(Run(do)) /\ ~Bars(Run(do))
    BY <2>1 DEF Notices, Mentions, Notes, Bars, Recovers, Procedures
  <2> QED
    BY <2>1, <2>2, Single
<1>2. ASSUME NEW do \in {"check", "send", "edit", "record"}, NEW k \in Kinds, NEW fail \in Fates,
             do # "check" => k # "notice", do = "record" => k # "recovery"
      PROVE  <<Op(do, k, fail)>> \in SilentPlans
  <2>0. do \in Deeds
    BY DEF Deeds
  <2>1. Op(do, k, fail) \in Operation /\ Op(do, k, fail).do = do /\ Op(do, k, fail).kind = k
    BY <2>0, Operations
  <2>2. ~Notices(Op(do, k, fail)) /\ ~Bars(Op(do, k, fail))
    BY <1>2, <2>1 DEF Notices, Mentions, Notes, Bars, Recovers, Procedures
  <2> QED
    BY <2>1, <2>2, Single
<1>3. ASSUME NEW do \in Procedures
      PROVE  <<Run(do)>> \in MildPlans
  <2>1. do \in Deeds
    BY DEF Procedures, Deeds
  <2>2. Run(do) \in Operation /\ Run(do).do = do
    BY <2>1, Operations
  <2>3. ~Notices(Run(do)) /\ ~Recovers(Run(do))
    BY <2>2 DEF Notices, Mentions, Notes, Recovers, Procedures
  <2> QED
    BY <2>2, <2>3, Single
<1>4. <<End>> \in MildPlans
  BY <1>3 DEF End, Procedures
<1> QED
  BY <1>1, <1>2, <1>3, <1>4

-----------------------------------------------------------------------------
(* Tasks.                                                                    *)

LEMMA FreeFields ==
  /\ None \notin Message /\ Nothing \in Known /\ \A k \in Kinds : Nothing[k] = None
  /\ Free \in TaskRecord /\ Free.todo = <<>> /\ Free.ping = FALSE
  /\ Free.made = Nothing /\ Free.old = Nothing
<1>1. None \notin Message /\ Nothing \in Known /\ \A k \in Kinds : Nothing[k] = None
  BY GuildAssumption DEF None, Message, Nothing, Known
<1>2. <<>> \in Seq(Operation)
  BY EmptySeq
<1> QED
  BY <1>1, <1>2 DEF Free, TaskRecord, Places

LEMMA OverFields ==
  ASSUME task \in [Tasks -> TaskRecord], NEW t \in Tasks, NEW c \in Seq(Operation)
  PROVE  /\ Over(t, c) \in TaskRecord /\ Over(t, c).todo = c /\ Over(t, c).ping = FALSE
         /\ Over(t, c).made = Nothing /\ (c = <<>> => Over(t, c) = Free)
<1>1. task[t].route \in Places /\ task[t].users \in BOOLEAN
  BY DEF TaskRecord
<1>2. Free \in TaskRecord /\ Free.ping = FALSE /\ Free.made = Nothing /\ Free.todo = <<>>
  BY FreeFields
<1>3. CASE c = <<>>
  BY <1>2, <1>3 DEF Over
<1>4. CASE c # <<>>
  <2>1. Over(t, c) = [Free EXCEPT !.todo = c, !.route = task[t].route, !.users = task[t].users]
    BY <1>4 DEF Over
  <2> QED
    BY <1>1, <1>2, <1>4, <2>1 DEF TaskRecord
<1> QED
  BY <1>3, <1>4

\* One task goes on without anything new about the notices.
Proceeds(t) ==
  /\ task' \in [Tasks -> TaskRecord]
  /\ \A u \in Tasks : u # t => task'[u] = task[u]
  /\ Within(task'[t].todo, task[t].todo)
  /\ Steady(task'[t])
  /\ task'[t].ping => task[t].ping

LEMMA OverNothing ==
  ASSUME NEW t
  PROVE  Over(t, <<>>) = Free
BY DEF Over

LEMMA GoesTo ==
  ASSUME task \in [Tasks -> TaskRecord], NEW t \in Tasks, NEW next \in TaskRecord,
         Regular(next.todo),
         next.made["notice"] # None => next.todo # <<>> /\ Notes(Head(next.todo)),
         Goes(t, next)
  PROVE  /\ task' \in [Tasks -> TaskRecord]
         /\ \A u \in Tasks : u # t => task'[u] = task[u]
         /\ Steady(task'[t])
         /\ \/ task'[t] = next
            \/ /\ next.todo = <<>> \/ Head(next.todo) = End
               /\ task'[t].made = Nothing /\ task'[t].ping = FALSE
               /\ ~HasNotice(task'[t].todo)
               /\ HasRecovery(task'[t].todo) => HasRecovery(next.todo)
<1> DEFINE Outcome ==
  /\ task' \in [Tasks -> TaskRecord]
  /\ \A u \in Tasks : u # t => task'[u] = task[u]
  /\ Steady(task'[t])
  /\ \/ task'[t] = next
     \/ /\ next.todo = <<>> \/ Head(next.todo) = End
        /\ task'[t].made = Nothing /\ task'[t].ping = FALSE
        /\ ~HasNotice(task'[t].todo)
        /\ HasRecovery(task'[t].todo) => HasRecovery(next.todo)
<1>0. next.todo \in Seq(Operation)
  BY DEF TaskRecord
<1>1. ASSUME NEW c \in Seq(Operation), ~HasNotice(c),
             HasRecovery(c) => HasRecovery(next.todo),
             next.todo = <<>> \/ Head(next.todo) = End,
             task' = [task EXCEPT ![t] = Over(t, c)]
      PROVE  Outcome
  <2>1. /\ Over(t, c) \in TaskRecord /\ Over(t, c).todo = c /\ Over(t, c).ping = FALSE
        /\ Over(t, c).made = Nothing /\ (c = <<>> => Over(t, c) = Free)
    BY OverFields
  <2>2. Regular(c) /\ Nothing["notice"] = None
    BY <1>1, MildPlan, FreeFields DEF Within, Kinds
  <2>3. Steady(Over(t, c))
    BY <2>1, <2>2 DEF Steady
  <2>4. task'[t] = Over(t, c) /\ \A u \in Tasks : u # t => task'[u] = task[u]
    BY <1>1
  <2> QED
    BY <1>1, <2>1, <2>3, <2>4
<1>2. CASE next.todo = <<>>
  <2>1. task' = [task EXCEPT ![t] = Over(t, <<>>)]
    BY <1>2, OverNothing DEF Goes
  <2>2. ~HasNotice(<<>>) /\ ~HasRecovery(<<>>) /\ <<>> \in Seq(Operation)
    BY NoPlan, EmptySeq
  <2> QED
    BY <1>1, <1>2, <2>1, <2>2
<1>3. CASE next.todo # <<>> /\ Head(next.todo) = End
  <2>1. next.todo[1] = End /\ Bars(End)
    BY <1>0, <1>3, Sequence, Operations DEF Bars, Procedures
  <2>2. ~HasNotice(Tail(next.todo)) /\ (HasRecovery(Tail(next.todo)) => HasRecovery(next.todo))
    BY <1>0, <1>3, <2>1, Begins
  <2>3. Tail(next.todo) \in Seq(Operation)
    BY <1>0, <1>3, TailOf
  <2>4. task' = [task EXCEPT ![t] = Over(t, Tail(next.todo))]
    BY <1>3 DEF Goes
  <2> QED
    BY <1>1, <1>3, <2>2, <2>3, <2>4
<1>4. CASE next.todo # <<>> /\ Head(next.todo) # End
  <2>1. task' = [task EXCEPT ![t] = next]
    BY <1>4 DEF Goes
  <2>2. task'[t] = next /\ \A u \in Tasks : u # t => task'[u] = task[u]
    BY <2>1
  <2>3. task' \in [Tasks -> TaskRecord]
    BY <2>1
  <2>4. Steady(next)
    BY <1>4 DEF Steady
  <2> QED
    BY <2>2, <2>3, <2>4
<1> QED
  BY <1>2, <1>3, <1>4

LEMMA GoesOn ==
  ASSUME task \in [Tasks -> TaskRecord], NEW t \in Tasks, NEW next \in TaskRecord,
         Within(next.todo, task[t].todo), next.ping => task[t].ping,
         next.made["notice"] # None => next.todo # <<>> /\ Notes(Head(next.todo)),
         Goes(t, next)
  PROVE  /\ Proceeds(t)
         /\ \/ task'[t] = next
            \/ task'[t].made = Nothing /\ (next.todo = <<>> \/ Head(next.todo) = End)
         /\ HasNotice(task'[t].todo) => HasNotice(next.todo)
<1>1. Regular(next.todo)
  BY DEF Within
<1>2. /\ task' \in [Tasks -> TaskRecord]
      /\ \A u \in Tasks : u # t => task'[u] = task[u]
      /\ Steady(task'[t])
      /\ \/ task'[t] = next
         \/ /\ next.todo = <<>> \/ Head(next.todo) = End
            /\ task'[t].made = Nothing /\ task'[t].ping = FALSE
            /\ ~HasNotice(task'[t].todo)
            /\ HasRecovery(task'[t].todo) => HasRecovery(next.todo)
  BY <1>1, GoesTo
<1>3. Within(task'[t].todo, task[t].todo)
  BY <1>2, MildPlan DEF Within
<1> QED
  BY <1>2, <1>3 DEF Proceeds

\* A procedure that stops.
LEMMA Stops ==
  ASSUME task \in [Tasks -> TaskRecord], NEW t \in Tasks, Regular(task[t].todo)
  PROVE  \E c \in Seq(Operation) :
           /\ Stopped(t) = Over(t, c) /\ ~HasNotice(c)
           /\ HasRecovery(c) => HasRecovery(task[t].todo)
<1> DEFINE todo == task[t].todo
           ends == {i \in DOMAIN todo : todo[i] = End}
<1>0. todo \in Seq(Operation)
  BY DEF TaskRecord
<1>1. CASE ends = {}
  <2>1. Stopped(t) = Over(t, <<>>)
    BY <1>1, OverNothing DEF Stopped
  <2> QED
    BY <2>1, NoPlan, EmptySeq
<1>2. CASE ends # {}
  <2> DEFINE e == CHOOSE i \in ends : \A j \in ends : i <= j
             c == SubSeq(todo, 1 + e, Len(todo))
  <2>1. ends \in SUBSET Nat
    BY <1>0, Sequence
  <2>2. e \in ends
    <3> HIDE DEF ends
    <3>1. \E i \in ends : \A j \in ends : i <= j
      BY <1>2, <2>1, Minimum
    <3> QED
      BY <3>1
  <2>3. Stopped(t) = Over(t, c)
    BY <1>2 DEF Stopped
  <2> HIDE DEF e
  <2>4. e \in DOMAIN todo /\ todo[e].do = "end"
    BY <2>2, Operations
  <2> HIDE DEF todo
  <2>5. Within(c, todo) /\ ~HasNotice(c) /\ c \in Seq(Operation)
    BY <1>0, <2>4, AfterEnd, Cut DEF todo
  <2> QED
    BY <2>3, <2>5 DEF Within, todo
<1> QED
  BY <1>1, <1>2

LEMMA ThenFields ==
  ASSUME task \in [Tasks -> TaskRecord], NEW t \in Tasks, Busy(t),
         NEW ops \in Seq(Operation)
  PROVE  /\ Then(t, ops) \in TaskRecord
         /\ Then(t, ops).todo = ops \o Tail(task[t].todo)
         /\ Then(t, ops).route = task[t].route /\ Then(t, ops).users = task[t].users
         /\ Then(t, ops).old = task[t].old /\ Then(t, ops).made = task[t].made
         /\ Then(t, ops).ping = task[t].ping /\ Then(t, ops).failed = task[t].failed
<1>1. task[t] \in TaskRecord /\ task[t].todo \in Seq(Operation) /\ task[t].todo # <<>>
  BY DEF TaskRecord, Busy
<1>2. ops \o Tail(task[t].todo) \in Seq(Operation)
  BY <1>1, TailOf, Joined
<1> DEFINE todo == ops \o Tail(task[t].todo)
<1>3. Then(t, ops) = [task[t] EXCEPT !.todo = todo]
  BY DEF Then
<1> HIDE DEF todo
<1> QED
  BY <1>1, <1>2, <1>3 DEF TaskRecord, todo

LEMMA HeadOf ==
  ASSUME task \in [Tasks -> TaskRecord], NEW t \in Tasks, Busy(t)
  PROVE  /\ task[t].todo \in Seq(Operation) /\ task[t].todo # <<>>
         /\ Head(task[t].todo) = task[t].todo[1] /\ Head(task[t].todo) \in Operation
         /\ Kind(t) \in Kinds /\ 1 \in DOMAIN task[t].todo
<1>1. task[t].todo \in Seq(Operation) /\ task[t].todo # <<>>
  BY DEF TaskRecord, Busy
<1>2. /\ Head(task[t].todo) = task[t].todo[1] /\ Head(task[t].todo) \in Operation
      /\ 1 \in DOMAIN task[t].todo
  BY <1>1, Sequence, HeadTailProperties
<1> QED
  BY <1>1, <1>2 DEF Kind, Operation

\* Nothing of the notice is unrecorded unless its record comes next.
LEMMA Unmade ==
  ASSUME task \in [Tasks -> TaskRecord], NEW t \in Tasks, Busy(t), Steady(task[t]),
         ~Notes(Head(task[t].todo))
  PROVE  task[t].made["notice"] = None
BY DEF Steady

LEMMA Follows ==
  ASSUME task \in [Tasks -> TaskRecord], NEW t \in Tasks, Busy(t), Steady(task[t]),
         NEW ops, \/ ops \in SilentPlans
                  \/ ops \in MildPlans /\ Bars(Head(task[t].todo))
  PROVE  Within(Then(t, ops).todo, task[t].todo) /\ ops \in Seq(Operation)
<1>1. ops \in Seq(Operation)
  BY Plans
<1>2. Then(t, ops).todo = ops \o Tail(task[t].todo)
  BY <1>1, ThenFields
<1>3. task[t].todo \in Seq(Operation) /\ task[t].todo # <<>>
      /\ Head(task[t].todo) = task[t].todo[1] /\ Regular(task[t].todo)
  BY HeadOf DEF Steady
<1>4. CASE ops \in SilentPlans
  BY <1>2, <1>3, <1>4, Continues DEF SilentPlans
<1>5. CASE ops \in MildPlans /\ Bars(Head(task[t].todo))
  BY <1>2, <1>3, <1>5, Begun DEF MildPlans
<1> QED
  BY <1>1, <1>4, <1>5

\* A task goes on with operations that are not about the notices.
LEMMA Carries ==
  ASSUME task \in [Tasks -> TaskRecord], NEW t \in Tasks, Busy(t), Steady(task[t]),
         ~Notes(Head(task[t].todo)),
         NEW ops, \/ ops \in SilentPlans
                  \/ ops \in MildPlans /\ Bars(Head(task[t].todo)),
         NEW next \in TaskRecord, next.todo = Then(t, ops).todo,
         next.made["notice"] = task[t].made["notice"], next.ping => task[t].ping,
         Goes(t, next)
  PROVE  Proceeds(t) /\ task[t].made["notice"] = None /\ task'[t].made["notice"] = None
<1>1. task[t].made["notice"] = None
  BY Unmade
<1>2. Within(next.todo, task[t].todo)
  BY Follows
<1>3. Proceeds(t) /\ (task'[t] = next \/ task'[t].made = Nothing)
  BY <1>1, <1>2, GoesOn
<1>4. Nothing["notice"] = None
  BY FreeFields DEF Kinds
<1> QED
  BY <1>1, <1>3, <1>4

-----------------------------------------------------------------------------
(* Types.                                                                    *)

LEMMA DiscordTypes ==
  ASSUME task' \in [Tasks -> TaskRecord], tracked' \in Known, abandoned \in BOOLEAN,
         NEW messages \in [Kinds -> SUBSET Message], Discord(messages)
  PROVE  /\ live' \in [Kinds -> SUBSET Message] /\ abandoned' \in BOOLEAN
         /\ \A k \in Kinds : live'[k] \subseteq Referred(k, tracked', task')
<1>1. live' = [k \in Kinds |-> messages[k] \cap Referred(k, tracked', task')]
  BY DEF Discord
<1>2. abandoned' \in BOOLEAN
  BY DEF Discord
<1> QED
  BY <1>1, <1>2

\* The types of a step that leaves Discord with these messages.
LEMMA TypesKept ==
  ASSUME TypesHold, task' \in [Tasks -> TaskRecord], tracked' \in Known,
         NEW messages \in [Kinds -> SUBSET Message], Discord(messages),
         lifecycle' \in {"confirmed", "grace", "offline"},
         map' \in {"none", "current", "old"}, GuildTypeOK', route' \in Places,
         users' \in BOOLEAN, pinged' \in BOOLEAN, pings' \in 0 .. 2,
         excuses' \subseteq {"unrecorded", "met", "partial"}, calm' \in BOOLEAN
  PROVE  TypesHold'
<1>1. /\ live' \in [Kinds -> SUBSET Message] /\ abandoned' \in BOOLEAN
      /\ \A k \in Kinds : live'[k] \subseteq Referred(k, tracked', task')
  BY DiscordTypes DEF TypesHold, MessagesTypeOK
<1>2. \A t \in Tasks :
        /\ task'[t].route \in Places /\ task'[t].users \in BOOLEAN
        /\ task'[t].old \in Known /\ task'[t].made \in Known
        /\ task'[t].ping \in BOOLEAN /\ task'[t].failed \in BOOLEAN
        /\ \A i \in DOMAIN task'[t].todo : task'[t].todo[i].kind \in Kinds
  <2> SUFFICES ASSUME NEW t \in Tasks
               PROVE  /\ task'[t].route \in Places /\ task'[t].users \in BOOLEAN
                      /\ task'[t].old \in Known /\ task'[t].made \in Known
                      /\ task'[t].ping \in BOOLEAN /\ task'[t].failed \in BOOLEAN
                      /\ \A i \in DOMAIN task'[t].todo : task'[t].todo[i].kind \in Kinds
    OBVIOUS
  <2>1. task'[t] \in TaskRecord /\ task'[t].todo \in Seq(Operation)
    BY DEF TaskRecord
  <2>2. \A i \in DOMAIN task'[t].todo : task'[t].todo[i] \in Operation
    BY <2>1, Sequence
  <2> QED
    BY <2>1, <2>2 DEF TaskRecord, Operation
<1> QED
  BY <1>1, <1>2 DEF TypesHold, MessagesTypeOK, Known, Places

LEMMA TypeFacts ==
  ASSUME TypesHold
  PROVE  /\ task \in [Tasks -> TaskRecord] /\ tracked \in Known
         /\ live \in [Kinds -> SUBSET Message]
         /\ lifecycle \in {"confirmed", "grace", "offline"}
         /\ map \in {"none", "current", "old"} /\ exists \in SUBSET Channels
         /\ faults \in 0 .. MaxFaults /\ route \in Places /\ users \in BOOLEAN
         /\ pinged \in BOOLEAN /\ pings \in 0 .. 2 /\ abandoned \in BOOLEAN
         /\ excuses \subseteq {"unrecorded", "met", "partial"} /\ calm \in BOOLEAN
         /\ \A t \in Tasks : /\ task[t] \in TaskRecord /\ task[t].old \in Known
                             /\ task[t].made \in Known /\ task[t].route \in Places
BY DEF TypesHold, MessagesTypeOK, GuildTypeOK, Known, Places, TaskRecord

LEMMA FaultTypes ==
  ASSUME TypesHold, exists' \in SUBSET Channels, UNCHANGED faults \/ Fault
  PROVE  GuildTypeOK'
BY GuildAssumption, TypeFacts DEF Fault, GuildTypeOK

\* There is a message that neither Discord nor anybody knows.
LEMMA NewMessage ==
  ASSUME EnoughIds, TypesHold, NEW k \in Kinds, NEW c \in Channels
  PROVE  /\ New(k, c) \in Message /\ New(k, c).channel = c
         /\ New(k, c) \notin live[k] \cup Referred(k, tracked, task)
<1> DEFINE refs == Referred(k, tracked, task)
           ids == {i \in Ids : [channel |-> c, id |-> i] \notin live[k] \cup refs}
<1>1. refs = {tracked[k], task["monitor"].old[k], task["monitor"].made[k],
              task["command"].old[k], task["command"].made[k]}
  BY DEF Referred, Tasks
<1>2. /\ tracked[k] \in Message \cup {None}
      /\ \A t \in Tasks : task[t].old[k] \in Message \cup {None}
                          /\ task[t].made[k] \in Message \cup {None}
  BY TypeFacts DEF Known
<1>3. \A m \in Message \cup {None} : m.id \in Nat
  <2>1. None.id = 0
    BY DEF None
  <2>2. \A m \in Message : m.id \in Ids
    BY DEF Message
  <2>3. \A m \in Message : m.id \in Nat
    BY <2>2, MessagesAssumption
  <2> QED
    BY <2>1, <2>3
<1>4. /\ tracked[k].id \in Nat
      /\ task["monitor"].old[k].id \in Nat /\ task["monitor"].made[k].id \in Nat
      /\ task["command"].old[k].id \in Nat /\ task["command"].made[k].id \in Nat
  BY <1>2, <1>3 DEF Tasks
<1>5. PICK i \in Ids : i \notin {tracked[k].id, task["monitor"].old[k].id,
                                 task["monitor"].made[k].id, task["command"].old[k].id,
                                 task["command"].made[k].id}
  BY <1>4 DEF EnoughIds
<1>6. [channel |-> c, id |-> i].id = i
  OBVIOUS
<1>7. [channel |-> c, id |-> i] \notin refs
  BY <1>1, <1>5, <1>6
<1>8. live[k] \subseteq refs
  BY DEF TypesHold
<1>9. i \in ids
  BY <1>7, <1>8
<1>10. ids \in SUBSET Nat /\ ids \subseteq Ids
  BY MessagesAssumption
<1>11. New(k, c) = [channel |-> c, id |-> CHOOSE j \in ids : \A n \in ids : j <= n]
  BY DEF New
<1> HIDE DEF ids, refs
<1> DEFINE least == CHOOSE j \in ids : \A n \in ids : j <= n
<1>12. least \in ids
  <2>1. \E j \in ids : \A n \in ids : j <= n
    BY <1>9, <1>10, Minimum
  <2> QED
    BY <2>1
<1>13. New(k, c) = [channel |-> c, id |-> least]
  BY <1>11
<1> HIDE DEF least
<1>14. /\ least \in Ids
       /\ [channel |-> c, id |-> least] \notin live[k] \cup Referred(k, tracked, task)
  BY <1>10, <1>12 DEF ids, refs
<1> QED
  BY <1>13, <1>14 DEF Message

-----------------------------------------------------------------------------
(* Steps that are not about the notices.                                     *)

LEMMA Keeps ==
  ASSUME NoticesInv, NEW t \in Tasks, Busy(t), Proceeds(t), TypesHold',
         lifecycle' = lifecycle, excuses \subseteq excuses',
         excuses' = {} =>
           /\ task[t].made["notice"] = None
           /\ pings' = 0 \/ (pings' = pings /\ (pinged => pinged'))
           /\ tracked'["recovery"] \in {tracked["recovery"], None}
           /\ tracked'["notice"] \in {tracked["notice"], None}
           /\ Forgets(task[t].todo[1]) =>
                tracked'["recovery"] = None \/ ~HasNotice(task'[t].todo)
  PROVE  NoticesInv'
<1>1. \A u \in Tasks : Steady(task'[u])
  BY DEF NoticesInv, Proceeds
<1>2. \A u \in Tasks : HasRecovery(task'[u].todo) => lifecycle' # "offline"
  BY DEF NoticesInv, Proceeds, Within
<1>3. ASSUME excuses' = {}
      PROVE  Undisturbed'
  <2>1. Undisturbed /\ excuses = {}
    BY <1>3 DEF NoticesInv
  <2>2. ~(Busy("monitor")' /\ Busy("command")')
    BY <2>1 DEF Undisturbed, Busy, Proceeds, Tasks
  <2>3. pings' <= 1 /\ Mentioned'
    BY <1>3, <2>1 DEF Undisturbed, Mentioned, Proceeds
  <2>4. \A u \in Tasks : task'[u].ping /\ HasMention(task'[u].todo) => pings' = 0
    BY <1>3, <2>1 DEF Undisturbed, Proceeds, Within
  <2>5. \A u \in Tasks : HasNotice(task'[u].todo) =>
          tracked'["recovery"] = None \/ ForgetsFirst(task'[u].todo)
    BY <1>3, <2>1 DEF Undisturbed, Proceeds, Within
  <2>6. tracked'["notice"] = None \/ tracked'["recovery"] = None
    BY <1>3, <2>1 DEF Undisturbed
  <2> QED
    BY <2>2, <2>3, <2>4, <2>5, <2>6 DEF Undisturbed
<1> QED
  BY <1>1, <1>2, <1>3 DEF NoticesInv

LEMMA ThinksTypes ==
  ASSUME TypesHold, task' \in [Tasks -> TaskRecord], OnlyThinks
  PROVE  TypesHold'
<1>1. Discord(live) /\ tracked' = tracked /\ exists' = exists /\ UNCHANGED faults
  BY DEF OnlyThinks, server
<1>2. GuildTypeOK'
  BY <1>1, FaultTypes, TypeFacts
<1> QED
  BY <1>1, <1>2, TypesKept, TypeFacts DEF OnlyThinks, server, config

LEMMA Thinks ==
  ASSUME NoticesInv, NEW t \in Tasks, NEW do \in Deeds \ {"record", "forget"}, Doing(t, do),
         NEW ops, ops \in SilentPlans \/ (ops \in MildPlans /\ do \in Procedures),
         NEW next \in TaskRecord, next.todo = Then(t, ops).todo,
         next.made = task[t].made, next.ping => task[t].ping,
         Goes(t, next), OnlyThinks
  PROVE  NoticesInv'
<1>1. task \in [Tasks -> TaskRecord] /\ Steady(task[t]) /\ TypesHold
  BY TypeFacts DEF NoticesInv
<1>2. Busy(t) /\ Head(task[t].todo).do = do
  BY DEF Doing
<1>3. ~Notes(Head(task[t].todo)) /\ ~Forgets(task[t].todo[1])
      /\ (do \in Procedures => Bars(Head(task[t].todo)))
  BY <1>1, <1>2, HeadOf DEF Notes, Forgets, Bars
<1>4. Proceeds(t) /\ task[t].made["notice"] = None
  BY <1>1, <1>2, <1>3, Carries
<1>5. TypesHold'
  BY <1>1, <1>4, ThinksTypes DEF Proceeds
<1> QED
  BY <1>2, <1>3, <1>4, <1>5, Keeps DEF OnlyThinks, server

\* A task that gives up its procedure, or all of its plan.
LEMMA GivesUp ==
  ASSUME NoticesInv, NEW t \in Tasks, Busy(t), NEW next \in {Stopped(t), Free},
         Goes(t, next)
  PROVE  Proceeds(t) /\ ~HasNotice(task'[t].todo)
<1>1. task \in [Tasks -> TaskRecord] /\ Regular(task[t].todo)
  BY TypeFacts DEF NoticesInv, Steady
<1>2. PICK c \in Seq(Operation) : /\ next = Over(t, c) /\ ~HasNotice(c)
                                  /\ HasRecovery(c) => HasRecovery(task[t].todo)
  BY <1>1, Stops, OverNothing, NoPlan, EmptySeq
<1>3. /\ next \in TaskRecord /\ next.todo = c /\ next.ping = FALSE
      /\ next.made = Nothing
  BY <1>1, <1>2, OverFields
<1>4. Within(next.todo, task[t].todo)
  BY <1>2, <1>3, MildPlan
<1>5. next.made["notice"] = None
  BY <1>3, FreeFields DEF Kinds
<1> QED
  BY <1>1, <1>2, <1>3, <1>4, <1>5, GoesOn

LEMMA ReadsType ==
  ASSUME TypesHold, NEW t \in Tasks, NEW kinds
  PROVE  Reads(t, kinds) \in Known
BY TypeFacts DEF Reads, Known

LEMMA Looks ==
  ASSUME NoticesInv, NEW t \in Tasks, NEW do \in Deeds \ {"record", "forget"},
         NEW kinds, NEW ops, ops \in SilentPlans \/ (ops \in MildPlans /\ do \in Procedures),
         Look(t, do, kinds, ops)
  PROVE  NoticesInv'
<1>1. TypesHold /\ task \in [Tasks -> TaskRecord] /\ ops \in Seq(Operation) /\ Busy(t)
  BY TypeFacts, Plans DEF NoticesInv, Look, Doing
<1> DEFINE then == Then(t, ops)
           next == [then EXCEPT !.old = Reads(t, kinds)]
<1>2. then \in TaskRecord /\ then.made = task[t].made /\ then.ping = task[t].ping
  BY <1>1, ThenFields
<1>3. Doing(t, do) /\ Goes(t, next) /\ OnlyThinks
  BY DEF Look
<1>4. Reads(t, kinds) \in Known
  BY <1>1, ReadsType
<1> HIDE DEF then
<1>5. next \in TaskRecord /\ next.todo = then.todo /\ next.made = then.made
      /\ next.ping = then.ping
  BY <1>2, <1>4 DEF TaskRecord
<1> HIDE DEF next
<1> QED
  BY <1>2, <1>3, <1>5, Thinks DEF then

LEMMA Pairs ==
  ASSUME NEW a \in Operation, NEW b \in Operation
  PROVE  /\ <<a, b>> \in Seq(Operation) /\ Len(<<a, b>>) = 2
         /\ <<a, b>>[1] = a /\ <<a, b>>[2] = b
         /\ <<a>> \in SilentPlans /\ <<b>> \in SilentPlans => <<a, b>> \in SilentPlans
         /\ <<a>> \in MildPlans /\ <<b>> \in MildPlans => <<a, b>> \in MildPlans
<1>1. <<a, b>> \in Seq(Operation) /\ Len(<<a, b>>) = 2 /\ <<a, b>>[1] = a /\ <<a, b>>[2] = b
  OBVIOUS
<1>2. <<a, b>> = <<a>> \o <<b>>
  <2>1. <<a>> \in Seq(Operation) /\ <<b>> \in Seq(Operation) /\ Len(<<a>>) = 1
        /\ Len(<<b>>) = 1 /\ <<a>>[1] = a /\ <<b>>[1] = b
    BY Single
  <2>2. /\ <<a>> \o <<b>> \in Seq(Operation) /\ Len(<<a>> \o <<b>>) = 2
        /\ (<<a>> \o <<b>>)[1] = a
    BY <2>1, Joined
  <2>3. (<<a>> \o <<b>>)[2] = b
    BY <2>1, Joined
  <2> DEFINE l == <<a, b>>
             r == <<a>> \o <<b>>
  <2>4. /\ l \in Seq(Operation) /\ r \in Seq(Operation) /\ Len(l) = 2 /\ Len(r) = 2
        /\ l[1] = r[1] /\ l[2] = r[2]
    BY <1>1, <2>2, <2>3
  <2> HIDE DEF l, r
  <2>5. \A i \in 1 .. Len(l) : l[i] = r[i]
    BY <2>4
  <2>6. l = r
    BY <2>4, <2>5, SeqEqual
  <2> QED
    BY <2>6 DEF l, r
<1> QED
  BY <1>1, <1>2, Plans

LEMMA Stacked ==
  Stack \in SilentPlans
<1>1. Run("clear eta") \in Operation /\ Run("clear lists") \in Operation
  <2>1. "clear eta" \in Deeds /\ "clear lists" \in Deeds
    BY DEF Deeds
  <2> QED
    BY <2>1, Operations
<1>2. <<Run("clear eta")>> \in SilentPlans /\ <<Run("clear lists")>> \in SilentPlans
  BY Aside
<1> QED
  BY <1>1, <1>2, Pairs DEF Stack

LEMMA RecordsAndEnds ==
  ASSUME NEW k \in Kinds \ {"notice", "recovery"}
  PROVE  <<Op("record", k, "stop"), End>> \in MildPlans
<1>1. Op("record", k, "stop") \in Operation /\ End \in Operation
  <2>1. "record" \in Deeds /\ "stop" \in Fates
    BY DEF Deeds, Fates
  <2> QED
    BY <2>1, Operations
<1>2. <<Op("record", k, "stop")>> \in MildPlans /\ <<End>> \in MildPlans
  BY Aside, Plans DEF Fates
<1> QED
  BY <1>1, <1>2, Pairs

LEMMA ClearKeeps ==
  ASSUME NoticesInv, NEW t \in Tasks, Clear(t)
  PROVE  NoticesInv'
<1>1. /\ IfAny("eta", "forget", "note") \in SilentPlans
      /\ IfAny("list1", "forget", "note") \in SilentPlans
      /\ IfAny("list2", "forget", "note") \in SilentPlans
  BY Deletions DEF Kinds, Fates
<1>2. IfAny("list1", "forget", "note") \o IfAny("list2", "forget", "note") \in SilentPlans
  BY <1>1, Plans
<1>3. CASE Look(t, "clear eta", {"eta"}, IfAny("eta", "forget", "note"))
  BY <1>1, <1>3, Looks DEF Deeds
<1>4. CASE Look(t, "clear lists", Listed,
                IfAny("list1", "forget", "note") \o IfAny("list2", "forget", "note"))
  BY <1>2, <1>4, Looks DEF Deeds
<1> QED
  BY <1>3, <1>4 DEF Clear

LEMMA AnnounceKeeps ==
  ASSUME NoticesInv, NEW t \in Tasks, NEW do \in {"announce", "post"}, Announce(t, do)
  PROVE  NoticesInv'
<1> DEFINE first == IF do = "announce" THEN IfAny("recovery", "forget", "stop") ELSE <<>>
           old == IfAny("status", "delete", "stop")
           send == <<Op("send", "status", "stop")>>
           stack == IF do = "announce" /\ task[t].users THEN Stack ELSE <<>>
           record == <<Op("record", "status", "stop"), End>>
           ops == IF ~Reach(task[t].route) THEN <<>>
                  ELSE first \o old \o send \o stack \o record
<1>1. first \in MildPlans /\ old \in MildPlans /\ stack \in MildPlans /\ <<>> \in MildPlans
  BY Deletions, Stacked, Plans DEF Kinds, Fates
<1>2. send \in MildPlans
  BY Aside, Plans DEF Kinds, Fates
<1>3. record \in MildPlans
  BY RecordsAndEnds DEF Kinds
<1>4. Look(t, do, {"status", "recovery"}, ops)
  BY DEF Announce
<1> HIDE DEF first, old, send, stack, record
<1>5. ops \in MildPlans
  BY <1>1, <1>2, <1>3, Plans
<1>6. do \in Deeds \ {"record", "forget"} /\ do \in Procedures
  BY DEF Deeds, Procedures
<1> HIDE DEF ops
<1> QED
  BY <1>4, <1>5, <1>6, Looks

LEMMA DisplayKeeps ==
  ASSUME NoticesInv, NEW t \in Tasks, NEW do \in {"refresh", "display"}, Display(t, do)
  PROVE  NoticesInv'
<1> DEFINE c == IF do = "refresh" THEN route ELSE task[t].route
           due == do = "refresh" => Listable
           eta == IF tracked["eta"] # None /\ tracked["eta"].channel = c
                  THEN <<Op("edit", "eta", "stop")>>
                  ELSE IfAny("eta", "delete", "stop")
                       \o <<Op("send", "eta", "stop"), Op("record", "eta", "stop")>>
           compare == <<Run("compare"), End>>
           ops == CASE ~due -> <<>>
                    [] due /\ ~Reach(c) ->
                         IF \A k \in Listed : tracked[k] = None THEN <<>> ELSE Stack
                    [] OTHER -> eta \o compare
           then == Then(t, ops)
           next == [then EXCEPT !.old = Reads(t, Listed \cup {"eta"}), !.route = c,
                                !.failed = FALSE]
<1>1. <<>> \in MildPlans /\ Stack \in MildPlans
  BY Stacked, Plans
<1>2. eta \in MildPlans
  <2>1. <<Op("edit", "eta", "stop")>> \in SilentPlans
        /\ IfAny("eta", "delete", "stop") \in SilentPlans
    BY Aside, Deletions DEF Kinds, Fates
  <2>2. Op("send", "eta", "stop") \in Operation /\ Op("record", "eta", "stop") \in Operation
    <3>1. "send" \in Deeds /\ "eta" \in Kinds /\ "stop" \in Fates /\ "record" \in Deeds
      BY DEF Deeds, Kinds, Fates
    <3> QED
      BY <3>1, Operations
  <2>3. <<Op("send", "eta", "stop")>> \in SilentPlans
        /\ <<Op("record", "eta", "stop")>> \in SilentPlans
    BY Aside DEF Kinds, Fates
  <2>4. <<Op("send", "eta", "stop"), Op("record", "eta", "stop")>> \in SilentPlans
    BY <2>2, <2>3, Pairs
  <2> QED
    BY <2>1, <2>4, Plans
<1>3. compare \in MildPlans
  <2>1. Run("compare") \in Operation /\ End \in Operation
    <3>1. "compare" \in Deeds
      BY DEF Deeds
    <3> QED
      BY <3>1, Operations
  <2>2. <<Run("compare")>> \in MildPlans /\ <<End>> \in MildPlans
    BY Aside, Plans
  <2> QED
    BY <2>1, <2>2, Pairs
<1> HIDE DEF eta, compare, due
<1>4. ops \in MildPlans
  BY <1>1, <1>2, <1>3, Plans
<1>5. Doing(t, do) /\ Goes(t, next) /\ OnlyThinks
  BY DEF Display, eta, compare, due
<1> HIDE DEF ops
<1>6. TypesHold /\ task \in [Tasks -> TaskRecord] /\ ops \in Seq(Operation) /\ Busy(t)
  BY <1>4, <1>5, TypeFacts, Plans DEF NoticesInv, Doing
<1>7. then \in TaskRecord /\ then.made = task[t].made /\ then.ping = task[t].ping
  BY <1>6, ThenFields
<1>8. Reads(t, Listed \cup {"eta"}) \in Known /\ c \in Places
  BY <1>6, ReadsType, TypeFacts
<1> HIDE DEF then, c
<1>9. next \in TaskRecord /\ next.todo = then.todo /\ next.made = then.made
      /\ next.ping = then.ping
  BY <1>7, <1>8 DEF TaskRecord
<1>10. do \in Deeds \ {"record", "forget"} /\ do \in Procedures
  BY DEF Deeds, Procedures
<1> HIDE DEF next
<1> QED
  BY <1>4, <1>5, <1>7, <1>9, <1>10, Thinks DEF then

-----------------------------------------------------------------------------
(* What failures leave, and the lists.                                       *)

LEMMA Failed ==
  ASSUME NoticesInv, NEW t \in Tasks, Busy(t), Goes(t, Failing(t))
  PROVE  Proceeds(t) /\ (Forgets(task[t].todo[1]) => ~HasNotice(task'[t].todo))
<1>1. task \in [Tasks -> TaskRecord] /\ Steady(task[t])
  BY TypeFacts DEF NoticesInv
<1>2. Head(task[t].todo) = task[t].todo[1] /\ Head(task[t].todo).fail \in Fates
  BY <1>1, HeadOf DEF Operation
<1>3. CASE Head(task[t].todo).fail = "stop" \/ Head(task[t].todo).fail = "abort"
  <2>1. Failing(t) \in {Stopped(t), Free}
    BY <1>3 DEF Failing
  <2> QED
    BY <2>1, GivesUp
<1>4. CASE Head(task[t].todo).fail = "go on" \/ Head(task[t].todo).fail = "note"
  <2>1. ~Notes(Head(task[t].todo)) /\ ~Forgets(task[t].todo[1])
    BY <1>2, <1>4 DEF Notes, Forgets
  <2> DEFINE then == Then(t, <<>>)
  <2>2. then \in TaskRecord /\ then.made = task[t].made /\ then.ping = task[t].ping
    BY <1>1, ThenFields, EmptySeq
  <2>3. Failing(t) = then \/ Failing(t) = [then EXCEPT !.failed = TRUE]
    BY <1>4 DEF Failing
  <2> HIDE DEF then
  <2>4. /\ Failing(t) \in TaskRecord /\ Failing(t).todo = then.todo
        /\ Failing(t).made = then.made /\ Failing(t).ping = then.ping
    BY <2>2, <2>3 DEF TaskRecord
  <2>5. Proceeds(t)
    BY <1>1, <2>1, <2>2, <2>4, Carries, Plans DEF then
  <2> QED
    BY <2>1, <2>5
<1> QED
  BY <1>2, <1>3, <1>4 DEF Fates

LEMMA CheckKeeps ==
  ASSUME NoticesInv, NEW t \in Tasks, Check(t)
  PROVE  NoticesInv'
<1>1. TypesHold /\ task \in [Tasks -> TaskRecord] /\ Steady(task[t])
  BY TypeFacts DEF NoticesInv
<1>2. Busy(t) /\ Head(task[t].todo).do = "check" /\ OnlyThinks
  BY DEF Check, Doing
<1>3. task[t].made["notice"] = None /\ ~Forgets(task[t].todo[1])
  BY <1>1, <1>2, Unmade, HeadOf DEF Notes, Forgets
<1>4. CASE task[t].failed
  <2>1. Goes(t, Failing(t))
    BY <1>4 DEF Check
  <2>2. Proceeds(t)
    BY <1>2, <2>1, Failed
  <2>3. TypesHold'
    BY <1>1, <1>2, <2>2, ThinksTypes DEF Proceeds
  <2> QED
    BY <1>2, <1>3, <2>2, <2>3, Keeps DEF OnlyThinks, server
<1>5. CASE ~task[t].failed
  <2>1. Goes(t, Then(t, <<>>)) /\ Doing(t, "check")
    BY <1>5 DEF Check
  <2>2. /\ Then(t, <<>>) \in TaskRecord /\ Then(t, <<>>).made = task[t].made
        /\ Then(t, <<>>).ping = task[t].ping
    BY <1>1, <1>2, ThenFields, EmptySeq
  <2>3. "check" \in Deeds \ {"record", "forget"} /\ <<>> \in SilentPlans
    BY Plans DEF Deeds
  <2> QED
    BY <1>2, <2>1, <2>2, <2>3, Thinks
<1> QED
  BY <1>4, <1>5

LEMMA BuildKeeps ==
  ASSUME NoticesInv, NEW t \in Tasks, Build(t)
  PROVE  NoticesInv'
<1>1. TypesHold /\ task \in [Tasks -> TaskRecord] /\ Doing(t, "build") /\ Busy(t) /\ OnlyThinks
  BY TypeFacts DEF NoticesInv, Build, Doing
<1> DEFINE op(k) == IF k \in InPlace(t) THEN Op("edit", k, "stop") ELSE Op("send", k, "stop")
           excess(k) == IF k \in InPlace(t) THEN <<Op("forget", k, "go on")>> ELSE <<>>
           ops(n) == (IF n = 1 THEN <<op("list1")>> \o excess("list2")
                      ELSE <<op("list1"), op("list2")>>) \o <<Op("record", "list1", "stop")>>
<1>2. PICK n \in DOMAIN Lists : Goes(t, Then(t, ops(n)))
  BY DEF Build
<1>3. \A k \in {"list1", "list2"} : op(k) \in Operation /\ <<op(k)>> \in SilentPlans
  <2> SUFFICES ASSUME NEW k \in {"list1", "list2"}
               PROVE  op(k) \in Operation /\ <<op(k)>> \in SilentPlans
    OBVIOUS
  <2>1. k \in Kinds \ {"notice"} /\ "stop" \in Fates /\ {"edit", "send"} \subseteq Deeds
    BY DEF Kinds, Fates, Deeds
  <2>2. /\ Op("edit", k, "stop") \in Operation /\ Op("send", k, "stop") \in Operation
        /\ <<Op("edit", k, "stop")>> \in SilentPlans
        /\ <<Op("send", k, "stop")>> \in SilentPlans
    BY <2>1, Operations, Aside
  <2> QED
    BY <2>2
<1>4. excess("list2") \in SilentPlans
  <2>1. "list2" \in Kinds /\ "go on" \in Fates
    BY DEF Kinds, Fates
  <2>2. <<Op("forget", "list2", "go on")>> \in SilentPlans
    BY <2>1, Deletions
  <2> QED
    BY <2>2, Plans
<1>5. <<Op("record", "list1", "stop")>> \in SilentPlans
  BY Aside DEF Kinds, Fates
<1>6. <<op("list1"), op("list2")>> \in SilentPlans
  BY <1>3, Pairs
<1> HIDE DEF op, excess
<1>7. ops(n) \in SilentPlans
  BY <1>3, <1>4, <1>5, <1>6, Plans
<1> DEFINE next == Then(t, ops(n))
<1>8. next \in TaskRecord /\ next.made = task[t].made /\ next.ping = task[t].ping
  BY <1>1, <1>7, ThenFields, Plans
<1>9. "build" \in Deeds \ {"record", "forget"}
  BY DEF Deeds
<1> QED
  BY <1>1, <1>2, <1>7, <1>8, <1>9, Thinks

LEMMA CompareKeeps ==
  ASSUME NoticesInv, NEW t \in Tasks, Compare(t)
  PROVE  NoticesInv'
<1>1. TypesHold /\ task \in [Tasks -> TaskRecord] /\ Steady(task[t])
  BY TypeFacts DEF NoticesInv
<1>2. /\ Busy(t) /\ Head(task[t].todo).do = "compare" /\ UNCHANGED <<tracked, excuses>>
      /\ Discord(live) /\ UNCHANGED <<server, config, pinged, pings>>
      /\ UNCHANGED faults \/ Fault
      /\ calm' = (calm /\ faults' = faults)
  BY DEF Compare, Doing
<1>3. ~Notes(Head(task[t].todo)) /\ ~Forgets(task[t].todo[1])
  BY <1>1, <1>2, HeadOf DEF Notes, Forgets
<1> DEFINE again == <<Run("clear lists"), Op("check", "list1", "stop"), Run("build")>>
<1>4. <<Run("build")>> \in SilentPlans /\ again \in SilentPlans
  <2>1. /\ Run("clear lists") \in Operation /\ Op("check", "list1", "stop") \in Operation
        /\ Run("build") \in Operation
    <3>1. /\ "check" \in Deeds /\ "list1" \in Kinds /\ "stop" \in Fates
          /\ "clear lists" \in Deeds /\ "build" \in Deeds
      BY DEF Deeds, Kinds, Fates
    <3> QED
      BY <3>1, Operations
  <2>2. /\ <<Run("clear lists")>> \in SilentPlans /\ <<Run("build")>> \in SilentPlans
        /\ <<Op("check", "list1", "stop")>> \in SilentPlans
    BY Aside DEF Kinds, Fates
  <2>3. <<Op("check", "list1", "stop"), Run("build")>> \in SilentPlans
    BY <2>1, <2>2, Pairs
  <2>4. again \in Seq(Operation) /\ again[1] = Run("clear lists") /\ Len(again) = 3
        /\ again[2] = Op("check", "list1", "stop") /\ again[3] = Run("build")
    <3>1. ASSUME NEW a \in Operation, NEW b \in Operation, NEW c \in Operation
          PROVE  /\ <<a, b, c>> \in Seq(Operation) /\ Len(<<a, b, c>>) = 3
                 /\ <<a, b, c>>[1] = a /\ <<a, b, c>>[2] = b /\ <<a, b, c>>[3] = c
      OBVIOUS
    <3> QED
      BY <2>1, <3>1
  <2>5. \A op \in Operation : <<op>> \in SilentPlans => ~Notices(op) /\ ~Bars(op)
    BY DEF SilentPlans, Silent
  <2>6. Silent(again)
    <3> HIDE DEF again
    <3>0. DOMAIN again = 1 .. 3
      BY <2>4, Sequence
    <3>1. \A i \in 1 .. 3 : i = 1 \/ i = 2 \/ i = 3
      OBVIOUS
    <3> QED
      BY <2>1, <2>2, <2>4, <2>5, <3>0, <3>1 DEF Silent
  <2> QED
    BY <2>2, <2>4, <2>6 DEF SilentPlans
<1>5. /\ Goes(t, Stopped(t)) \/ Goes(t, Then(t, <<Run("build")>>)) \/ Goes(t, Then(t, again))
  BY DEF Compare
<1>6. Proceeds(t)
  <2>1. CASE Goes(t, Stopped(t))
    BY <1>2, <2>1, GivesUp
  <2>2. ASSUME NEW ops \in SilentPlans, Goes(t, Then(t, ops))
        PROVE  Proceeds(t)
    <3>1. /\ Then(t, ops) \in TaskRecord /\ Then(t, ops).made = task[t].made
          /\ Then(t, ops).ping = task[t].ping
      BY <1>1, <1>2, ThenFields, Plans
    <3> QED
      BY <1>1, <1>2, <1>3, <2>2, <3>1, Carries
  <2> QED
    BY <1>4, <1>5, <2>1, <2>2
<1>7. task[t].made["notice"] = None
  BY <1>1, <1>2, <1>3, Unmade
<1>8. TypesHold'
  <2>1. GuildTypeOK'
    BY <1>1, <1>2, FaultTypes, TypeFacts DEF server
  <2>2. calm' \in BOOLEAN
    BY <1>2
  <2> QED
    BY <1>1, <1>2, <1>6, <2>1, <2>2, TypesKept, TypeFacts DEF Proceeds, server, config
<1> QED
  BY <1>2, <1>3, <1>6, <1>7, <1>8, Keeps DEF server

-----------------------------------------------------------------------------
(* Calls to Discord, and what is put on record.                              *)

LEMMA OldKnown ==
  ASSUME TypesHold, NEW t \in Tasks, Busy(t)
  PROVE  /\ task \in [Tasks -> TaskRecord] /\ Kind(t) \in Kinds
         /\ Old(t) \in Message \cup {None}
<1>1. task \in [Tasks -> TaskRecord] /\ task[t].old \in Known
  BY TypeFacts
<1>2. Kind(t) \in Kinds
  BY <1>1, HeadOf
<1> QED
  BY <1>1, <1>2 DEF Old, Known

LEMMA DeleteKeeps ==
  ASSUME NoticesInv, NEW t \in Tasks, Delete(t)
  PROVE  NoticesInv'
<1>1. TypesHold /\ Steady(task[t])
  BY DEF NoticesInv
<1>2. /\ Busy(t) /\ Head(task[t].todo).do \in {"delete", "forget"}
      /\ tracked' = IF Doing(t, "forget") THEN [tracked EXCEPT ![Kind(t)] = None] ELSE tracked
      /\ Goes(t, [Then(t, <<>>) EXCEPT !.old[Kind(t)] = None])
      /\ UNCHANGED <<server, config, pinged, faults, pings, excuses, calm>>
      /\ Discord([live EXCEPT ![Kind(t)] = @ \ {Old(t)}])
  BY DEF Delete, Doing
<1>3. task \in [Tasks -> TaskRecord] /\ Kind(t) \in Kinds
  BY <1>1, <1>2, OldKnown
<1> DEFINE then == Then(t, <<>>)
           next == [then EXCEPT !.old[Kind(t)] = None]
<1>4. /\ then \in TaskRecord /\ then.made = task[t].made /\ then.ping = task[t].ping
      /\ then.old = task[t].old
  BY <1>2, <1>3, ThenFields, EmptySeq
<1>5. [task[t].old EXCEPT ![Kind(t)] = None] \in Known
  BY <1>1, <1>3, TypeFacts DEF Known
<1> HIDE DEF then
<1>6. next \in TaskRecord /\ next.todo = then.todo /\ next.made = then.made
      /\ next.ping = then.ping
  BY <1>4, <1>5 DEF TaskRecord
<1>7. ~Notes(Head(task[t].todo))
  BY <1>2 DEF Notes
<1>8. Goes(t, next)
  BY <1>2 DEF then
<1> HIDE DEF next
<1>9. Proceeds(t) /\ task[t].made["notice"] = None
  BY <1>1, <1>2, <1>3, <1>4, <1>6, <1>7, <1>8, Carries, Plans DEF then
<1>10. tracked' \in Known /\ \A k \in Kinds : tracked'[k] \in {tracked[k], None}
  BY <1>1, <1>2, <1>3, TypeFacts DEF Known
<1>11. Forgets(task[t].todo[1]) => tracked'["recovery"] = None
  <2>1. SUFFICES ASSUME Forgets(Head(task[t].todo))
                 PROVE  tracked'["recovery"] = None
    BY <1>2, <1>3, HeadOf
  <2>2. Doing(t, "forget") /\ Kind(t) = "recovery"
    BY <1>2, <2>1 DEF Forgets, Doing, Kind, Delete
  <2> QED
    BY <1>1, <1>2, <2>2, TypeFacts DEF Known, Kinds
<1>12. TypesHold'
  <2>1. [live EXCEPT ![Kind(t)] = @ \ {Old(t)}] \in [Kinds -> SUBSET Message]
    BY <1>1, <1>3, TypeFacts
  <2>2. GuildTypeOK'
    BY <1>1, <1>2, FaultTypes, TypeFacts DEF server
  <2> QED
    BY <1>1, <1>2, <1>9, <1>10, <2>1, <2>2, TypesKept, TypeFacts DEF Proceeds, server, config
<1> QED
  BY <1>2, <1>9, <1>10, <1>11, <1>12, Keeps DEF server, Kinds

LEMMA FailsKeeps ==
  ASSUME NoticesInv, NEW t \in Tasks, Fails(t) \/ Unanswered(t)
  PROVE  NoticesInv'
<1>1. TypesHold /\ Steady(task[t]) /\ task \in [Tasks -> TaskRecord]
  BY TypeFacts DEF NoticesInv
<1>2. /\ Busy(t) /\ Goes(t, Failing(t)) /\ calm' = FALSE /\ UNCHANGED tracked
      /\ Discord(live) /\ UNCHANGED <<server, config, pinged>>
      /\ UNCHANGED faults \/ Fault
      /\ excuses \subseteq excuses' /\ (Doing(t, "record") => excuses' # {})
      /\ excuses' = {} => pings' = pings
  BY DEF Fails, Unanswered, Doing
<1>3. /\ excuses' \subseteq excuses \cup {"unrecorded", "partial"}
      /\ pings' = pings \/ (pings < 2 /\ pings' = pings + 1)
  BY DEF Fails, Unanswered, Mentioning, Half
<1>4. Proceeds(t) /\ (Forgets(task[t].todo[1]) => ~HasNotice(task'[t].todo))
  BY <1>2, Failed
<1>5. excuses' = {} => task[t].made["notice"] = None
  <2>1. Doing(t, "record") <=> Head(task[t].todo).do = "record"
    BY <1>2 DEF Fails, Unanswered, Doing
  <2> QED
    BY <1>1, <1>2, <2>1, Unmade DEF Notes
<1>6. TypesHold'
  <2>1. GuildTypeOK'
    BY <1>1, <1>2, FaultTypes, TypeFacts DEF server
  <2>2. pings' \in 0 .. 2
    BY <1>1, <1>3, TypeFacts
  <2> QED
    BY <1>1, <1>2, <1>3, <1>4, <2>1, <2>2, TypesKept, TypeFacts DEF Proceeds, server, config
<1> QED
  BY <1>2, <1>4, <1>5, <1>6, Keeps DEF server

\* The record follows the notice.
LEMMA RecordNext ==
  ASSUME NEW s \in Seq(Operation), s # <<>>, Regular(s), Mentions(s[1])
  PROVE  /\ Tail(s) # <<>> /\ Notes(Head(Tail(s))) /\ ~HasMention(Tail(s))
<1>1. /\ Tail(s) \in Seq(Operation) /\ DOMAIN s = 1 .. Len(s) /\ Len(s) \in Nat
      /\ 1 \in DOMAIN s
      /\ \A i \in DOMAIN Tail(s) : Tail(s)[i] = s[i + 1] /\ i + 1 \in DOMAIN s
      /\ \A i \in DOMAIN Tail(s) : i \in Nat \ {0}
  BY TailOf, Sequence
<1>2. 2 \in DOMAIN s /\ Notes(s[2])
  BY <1>1 DEF Regular
<1>3. 1 \in DOMAIN Tail(s) /\ Tail(s)[1] = s[2]
  BY <1>1, <1>2, TailOf
<1>4. Tail(s) # <<>> /\ Head(Tail(s)) = Tail(s)[1]
  BY <1>1, <1>3, Sequence, EmptySeq
<1>5. ASSUME NEW i \in DOMAIN Tail(s), Mentions(Tail(s)[i])
      PROVE  FALSE
  <2>1. Mentions(s[i + 1]) /\ i + 1 \in DOMAIN s
    BY <1>1, <1>5
  <2>2. i + 1 + 1 \in DOMAIN s /\ Notes(s[i + 1 + 1])
    BY <2>1 DEF Regular
  <2>3. i + 1 + 1 = 2
    BY <1>2, <2>2 DEF Regular
  <2> QED
    BY <1>1, <2>3
<1> QED
  BY <1>2, <1>3, <1>4, <1>5 DEF HasMention

\* A message of the kind was sent or edited.
LEMMA Makes ==
  ASSUME NoticesInv, NEW t \in Tasks, Busy(t),
         Head(task[t].todo).do \in {"send", "edit"}, NEW m \in Message \cup {None},
         Goes(t, [Then(t, <<>>) EXCEPT !.made[Kind(t)] = m])
  PROVE  /\ Proceeds(t) /\ task[t].made["notice"] = None
         /\ Kind(t) = "notice" =>
              /\ ~HasMention(task'[t].todo) /\ HasMention(task[t].todo)
              /\ task'[t].made["notice"] = m /\ task'[t].ping = task[t].ping
<1>1. TypesHold /\ Steady(task[t]) /\ task \in [Tasks -> TaskRecord]
  BY TypeFacts DEF NoticesInv
<1> DEFINE s == task[t].todo
           then == Then(t, <<>>)
           next == [then EXCEPT !.made[Kind(t)] = m]
<1>2. /\ then \in TaskRecord /\ then.made = task[t].made /\ then.ping = task[t].ping
      /\ then.todo = Tail(s) /\ then.made \in Known
  <2>1. <<>> \o Tail(s) = Tail(s)
    BY <1>1, HeadOf, TailOf, ConcatEmptySeq
  <2> QED
    BY <1>1, <2>1, ThenFields, EmptySeq DEF TaskRecord
<1>3. /\ s \in Seq(Operation) /\ s # <<>> /\ Head(s) = s[1] /\ Kind(t) \in Kinds
      /\ Regular(s) /\ 1 \in DOMAIN s
  BY <1>1, HeadOf DEF Steady
<1>4. [then.made EXCEPT ![Kind(t)] = m] \in Known
  BY <1>2, <1>3 DEF Known
<1>5. ~Notes(Head(s)) /\ task[t].made["notice"] = None
  <2>1. ~Notes(Head(s))
    BY DEF Notes
  <2> QED
    BY <1>1, <2>1, Unmade
<1> HIDE DEF then
<1>6. /\ next \in TaskRecord /\ next.todo = then.todo /\ next.ping = then.ping
      /\ next.made = [then.made EXCEPT ![Kind(t)] = m]
  BY <1>2, <1>4 DEF TaskRecord
<1>7. next.made["notice"] = IF Kind(t) = "notice" THEN m ELSE None
  BY <1>2, <1>3, <1>5, <1>6 DEF Known, Kinds
<1>8. Within(next.todo, s)
  BY <1>2, <1>3, <1>6, Shorter
<1>9. Goes(t, next)
  BY DEF then
<1> HIDE DEF next
<1>10. CASE Kind(t) # "notice"
  <2>1. Proceeds(t)
    BY <1>1, <1>2, <1>6, <1>7, <1>8, <1>9, <1>10, GoesOn
  <2> QED
    BY <1>5, <1>10, <2>1
<1>11. CASE Kind(t) = "notice"
  <2>1. Mentions(s[1]) /\ HasMention(s)
    BY <1>3, <1>11 DEF Mentions, Kind, HasMention
  <2>2. Tail(s) # <<>> /\ Notes(Head(Tail(s))) /\ ~HasMention(Tail(s))
    BY <1>3, <2>1, RecordNext
  <2>3. Head(next.todo) # End /\ next.todo # <<>>
    BY <1>2, <1>6, <2>2, Operations DEF Notes
  <2>4. Proceeds(t) /\ task'[t] = next
    BY <1>1, <1>2, <1>6, <1>8, <1>9, <2>2, <2>3, GoesOn
  <2> QED
    BY <1>2, <1>5, <1>6, <1>7, <1>11, <2>1, <2>2, <2>4
<1> QED
  BY <1>10, <1>11

LEMMA EditKeeps ==
  ASSUME NoticesInv, NEW t \in Tasks, Edit(t)
  PROVE  NoticesInv'
<1>1. TypesHold /\ Steady(task[t]) /\ task \in [Tasks -> TaskRecord]
  BY TypeFacts DEF NoticesInv
<1>2. /\ Busy(t) /\ Head(task[t].todo).do = "edit"
      /\ UNCHANGED <<server, config, tracked, pinged, faults, pings, calm>>
      /\ Discord(live) /\ excuses \subseteq excuses'
      /\ excuses' \subseteq excuses \cup {"partial"}
  BY DEF Edit, Doing, Half
<1>3. /\ Kind(t) \in Kinds /\ Old(t) \in Message \cup {None}
      /\ task[t].todo \in Seq(Operation) /\ task[t].todo # <<>>
      /\ Head(task[t].todo) = task[t].todo[1] /\ Regular(task[t].todo)
  BY <1>1, <1>2, OldKnown, HeadOf DEF Steady
<1>4. ~Notes(Head(task[t].todo)) /\ ~Forgets(task[t].todo[1])
  BY <1>2, <1>3 DEF Notes, Forgets
<1>5. task[t].made["notice"] = None
  BY <1>1, <1>2, <1>4, Unmade
<1>6. ASSUME Old(t) \in live[Kind(t)], Kind(t) = "eta"
      PROVE  Proceeds(t)
  <2> DEFINE then == Then(t, <<>>)
             next == [then EXCEPT !.old["eta"] = None]
  <2>1. Goes(t, next)
    BY <1>6 DEF Edit
  <2>2. /\ then \in TaskRecord /\ then.made = task[t].made /\ then.ping = task[t].ping
        /\ [then.old EXCEPT !["eta"] = None] \in Known
    <3>1. /\ then \in TaskRecord /\ then.made = task[t].made /\ then.ping = task[t].ping
          /\ then.old = task[t].old
      BY <1>1, <1>2, ThenFields, EmptySeq
    <3> QED
      BY <1>1, <3>1, TypeFacts DEF Known
  <2> HIDE DEF then
  <2>3. next \in TaskRecord /\ next.todo = then.todo /\ next.made = then.made
        /\ next.ping = then.ping
    BY <2>2 DEF TaskRecord
  <2> HIDE DEF next
  <2> QED
    BY <1>1, <1>2, <1>4, <2>1, <2>2, <2>3, Carries, Plans DEF then
<1>7. ASSUME Old(t) \in live[Kind(t)], Kind(t) # "eta"
      PROVE  Proceeds(t)
  <2>1. Goes(t, [Then(t, <<>>) EXCEPT !.made[Kind(t)] = Old(t)])
    BY <1>7 DEF Edit
  <2> QED
    BY <1>2, <1>3, <2>1, Makes
<1>8. ASSUME Old(t) \notin live[Kind(t)], Kind(t) \in Listed
      PROVE  Proceeds(t)
  <2>1. Goes(t, Stopped(t))
    BY <1>8 DEF Edit
  <2> QED
    BY <1>2, <2>1, GivesUp
<1>9. ASSUME Old(t) \notin live[Kind(t)], Kind(t) \notin Listed
      PROVE  Proceeds(t)
  <2> DEFINE send == <<Op("send", Kind(t), "stop")>>
             record == IF Kind(t) = "eta" THEN <<Op("record", "eta", "stop")>> ELSE <<>>
             ops == send \o record
  <2>1. Goes(t, Then(t, ops))
    BY <1>9 DEF Edit
  <2>2. CASE Kind(t) # "notice"
    <3>1. send \in SilentPlans /\ record \in SilentPlans
      BY <1>3, <2>2, Aside, Plans DEF Kinds, Fates
    <3> HIDE DEF send, record
    <3>2. ops \in SilentPlans
      BY <3>1, Plans
    <3>3. /\ Then(t, ops) \in TaskRecord /\ Then(t, ops).made = task[t].made
          /\ Then(t, ops).ping = task[t].ping
      BY <1>1, <1>2, <3>2, ThenFields, Plans
    <3> HIDE DEF ops
    <3> QED
      BY <1>1, <1>2, <1>4, <2>1, <3>2, <3>3, Carries
  <2>3. CASE Kind(t) = "notice"
    <3>1. /\ Op("send", "notice", "stop") \in Operation
          /\ Mentions(Op("send", "notice", "stop"))
      <4>1. "send" \in Deeds /\ "notice" \in Kinds /\ "stop" \in Fates
        BY DEF Kinds, Fates, Deeds
      <4>2. /\ Op("send", "notice", "stop") \in Operation
            /\ Op("send", "notice", "stop").do = "send"
            /\ Op("send", "notice", "stop").kind = "notice"
        BY <4>1, Operations
      <4> QED
        BY <4>2 DEF Mentions
    <3>2. ops = <<Op("send", "notice", "stop")>> /\ ops \in Seq(Operation)
      BY <2>3, <3>1, Single, ConcatEmptySeq
    <3>3. Mentions(task[t].todo[1])
      BY <1>2, <1>3, <2>3 DEF Mentions, Kind
    <3>4. /\ Then(t, ops) \in TaskRecord /\ Then(t, ops).made = task[t].made
          /\ Then(t, ops).ping = task[t].ping
          /\ Then(t, ops).todo = ops \o Tail(task[t].todo)
      BY <1>1, <1>2, <3>2, ThenFields
    <3>5. Within(Then(t, ops).todo, task[t].todo)
      BY <1>3, <3>1, <3>2, <3>3, <3>4, MentionsAgain
    <3> HIDE DEF ops
    <3> QED
      BY <1>1, <1>5, <2>1, <3>4, <3>5, GoesOn
  <2> QED
    BY <2>2, <2>3
<1>10. Proceeds(t)
  BY <1>6, <1>7, <1>8, <1>9
<1>11. TypesHold'
  <2>1. GuildTypeOK'
    BY <1>1, <1>2, FaultTypes, TypeFacts DEF server
  <2> QED
    BY <1>1, <1>2, <1>10, <2>1, TypesKept, TypeFacts DEF Proceeds, server, config
<1> QED
  BY <1>2, <1>4, <1>5, <1>10, <1>11, Keeps DEF server

LEMMA SendKeeps ==
  ASSUME EnoughIds, NoticesInv, NEW t \in Tasks, Send(t)
  PROVE  NoticesInv'
<1> DEFINE m == New(Kind(t), task[t].route)
<1>1. TypesHold /\ Steady(task[t]) /\ task \in [Tasks -> TaskRecord]
  BY TypeFacts DEF NoticesInv
<1>2. /\ Busy(t) /\ Head(task[t].todo).do = "send" /\ Reach(task[t].route)
      /\ Goes(t, [Then(t, <<>>) EXCEPT !.made[Kind(t)] = m])
      /\ UNCHANGED <<tracked, excuses>>
      /\ Discord([live EXCEPT ![Kind(t)] = @ \cup {m}])
      /\ pings' = IF Kind(t) = "notice" /\ task[t].ping /\ pings < 2
                  THEN pings + 1 ELSE pings
      /\ UNCHANGED <<server, config, pinged, faults, calm>>
  BY DEF Send, Mentioning, Doing
<1>3. /\ Kind(t) \in Kinds /\ task[t].route \in Channels
      /\ Head(task[t].todo) = task[t].todo[1]
  BY <1>1, <1>2, OldKnown, HeadOf, TypeFacts DEF Reach
<1>4. m \in Message
  BY <1>1, <1>3, NewMessage
<1> HIDE DEF m
<1>5. /\ Proceeds(t) /\ task[t].made["notice"] = None
      /\ Kind(t) = "notice" =>
           /\ ~HasMention(task'[t].todo) /\ HasMention(task[t].todo)
           /\ task'[t].made["notice"] = m /\ task'[t].ping = task[t].ping
  BY <1>2, <1>4, Makes
<1>6. ~Forgets(task[t].todo[1])
  BY <1>2, <1>3 DEF Forgets
<1>7. TypesHold'
  <2>1. [live EXCEPT ![Kind(t)] = @ \cup {m}] \in [Kinds -> SUBSET Message]
    BY <1>1, <1>3, <1>4, TypeFacts
  <2>2. GuildTypeOK'
    BY <1>1, <1>2, FaultTypes, TypeFacts DEF server
  <2>3. pings' \in 0 .. 2
    BY <1>1, <1>2, TypeFacts
  <2> QED
    BY <1>1, <1>2, <1>5, <2>1, <2>2, <2>3, TypesKept, TypeFacts DEF Proceeds, server, config
<1>8. CASE Kind(t) # "notice"
  BY <1>2, <1>5, <1>6, <1>7, <1>8, Keeps DEF server
<1>9. CASE Kind(t) = "notice"
  <2>1. \A u \in Tasks : Steady(task'[u])
    BY <1>5 DEF NoticesInv, Proceeds
  <2>2. \A u \in Tasks : HasRecovery(task'[u].todo) => lifecycle' # "offline"
    BY <1>2, <1>5 DEF NoticesInv, Proceeds, Within, server
  <2>3. ASSUME excuses' = {}
        PROVE  Undisturbed'
    <3>1. Undisturbed /\ excuses = {}
      BY <1>2, <2>3 DEF NoticesInv
    <3>2. ~(Busy("monitor")' /\ Busy("command")')
      BY <1>2, <1>5, <3>1 DEF Undisturbed, Busy, Proceeds, Tasks
    <3>3. /\ task[t].ping => pings = 0 /\ pings' = 1
          /\ ~task[t].ping => pings' = pings
      BY <1>2, <1>5, <1>9, <3>1 DEF Undisturbed
    <3>4. pings' <= 1
      BY <3>1, <3>3 DEF Undisturbed
    <3>5. Mentioned'
      <4>1. CASE task[t].ping
        <5>1. task'[t].ping /\ task'[t].made["notice"] # None
          BY <1>4, <1>5, <1>9, <4>1, FreeFields
        <5> QED
          BY <5>1 DEF Mentioned
      <4>2. CASE ~task[t].ping
        BY <1>2, <1>5, <3>1, <3>3, <4>2 DEF Undisturbed, Mentioned, Proceeds, server
      <4> QED
        BY <4>1, <4>2
    <3>6. \A u \in Tasks : u # t => task[u].todo = <<>> /\ task'[u] = task[u]
      BY <1>2, <1>5, <3>1 DEF Undisturbed, Busy, Proceeds, Tasks
    <3>7. \A u \in Tasks : task'[u].ping /\ HasMention(task'[u].todo) => pings' = 0
      BY <1>5, <1>9, <3>6, NoPlan
    <3>8. \A u \in Tasks : HasNotice(task'[u].todo) =>
            tracked'["recovery"] = None \/ ForgetsFirst(task'[u].todo)
      BY <1>2, <1>5, <1>6, <3>1 DEF Undisturbed, Proceeds, Within
    <3>9. tracked'["notice"] = None \/ tracked'["recovery"] = None
      BY <1>2, <3>1 DEF Undisturbed
    <3> QED
      BY <3>2, <3>4, <3>5, <3>7, <3>8, <3>9 DEF Undisturbed
  <2> QED
    BY <1>7, <2>1, <2>2, <2>3 DEF NoticesInv
<1> QED
  BY <1>8, <1>9

LEMMA RecordKeeps ==
  ASSUME NoticesInv, NEW t \in Tasks, Record(t)
  PROVE  NoticesInv'
<1> DEFINE ops == IF Kind(t) = "eta" /\ OldLists(t) # {}
                  THEN <<Run("clear lists"), Op("check", "list1", "stop")>> ELSE <<>>
           then == Then(t, ops)
           next == [then EXCEPT !.made = Nothing]
<1>1. TypesHold /\ Steady(task[t]) /\ task \in [Tasks -> TaskRecord]
  BY TypeFacts DEF NoticesInv
<1>2. /\ Busy(t) /\ Head(task[t].todo).do = "record" /\ Goes(t, next)
      /\ tracked' = [k \in Kinds |->
           CASE k = "notice" /\ Kind(t) = "recovery" -> None
             [] k \in Recorded(t) -> task[t].made[k]
             [] OTHER -> tracked[k]]
      /\ pinged' = CASE Kind(t) = "notice" -> pinged \/ task[t].ping
                     [] Kind(t) = "recovery" -> FALSE
                     [] OTHER -> pinged
      /\ map' = IF Kind(t) = "status" THEN "current" ELSE map
      /\ UNCHANGED <<lifecycle, exists, config, faults, pings, excuses, calm>>
      /\ Discord(live)
  BY DEF Record, Doing
<1>3. /\ task[t].todo \in Seq(Operation) /\ task[t].todo # <<>> /\ Kind(t) \in Kinds
      /\ Head(task[t].todo) = task[t].todo[1] /\ Regular(task[t].todo)
      /\ 1 \in DOMAIN task[t].todo
  BY <1>1, <1>2, HeadOf DEF Steady
<1>4. ops \in SilentPlans
  <2>1. Run("clear lists") \in Operation /\ Op("check", "list1", "stop") \in Operation
    <3>1. /\ "check" \in Deeds /\ "list1" \in Kinds /\ "stop" \in Fates
          /\ "clear lists" \in Deeds
      BY DEF Deeds, Kinds, Fates
    <3> QED
      BY <3>1, Operations
  <2>2. /\ <<Run("clear lists")>> \in SilentPlans
        /\ <<Op("check", "list1", "stop")>> \in SilentPlans
    BY Aside DEF Kinds, Fates
  <2> QED
    BY <2>1, <2>2, Pairs, Plans
<1> HIDE DEF ops
<1>5. then \in TaskRecord /\ then.ping = task[t].ping
  BY <1>1, <1>2, <1>4, ThenFields, Plans
<1>6. Within(then.todo, task[t].todo)
  BY <1>1, <1>2, <1>4, Follows
<1> HIDE DEF then
<1>7. /\ next \in TaskRecord /\ next.todo = then.todo /\ next.made = Nothing
      /\ next.ping = then.ping
  BY <1>5, FreeFields DEF TaskRecord
<1> HIDE DEF next
<1>8. Proceeds(t)
  BY <1>1, <1>2, <1>5, <1>6, <1>7, FreeFields, GoesOn DEF Kinds
<1>9. ~Forgets(task[t].todo[1])
  BY <1>2, <1>3 DEF Forgets
<1>10. TypesHold'
  <2>1. GuildTypeOK'
    BY <1>1, <1>2, FaultTypes, TypeFacts
  <2>2. tracked' \in Known
    BY <1>1, <1>2, TypeFacts DEF Known
  <2>3. pinged' \in BOOLEAN /\ map' \in {"none", "current", "old"}
    BY <1>1, <1>2, TypeFacts DEF TaskRecord
  <2> QED
    BY <1>1, <1>2, <1>8, <2>1, <2>2, <2>3, TypesKept, TypeFacts DEF Proceeds, config
<1>11. \A u \in Tasks : Steady(task'[u])
  BY <1>8 DEF NoticesInv, Proceeds
<1>12. \A u \in Tasks : HasRecovery(task'[u].todo) => lifecycle' # "offline"
  BY <1>2, <1>8 DEF NoticesInv, Proceeds, Within
<1>13. ASSUME excuses' = {}
       PROVE  Undisturbed'
  <2>1. Undisturbed /\ excuses = {}
    BY <1>2, <1>13 DEF NoticesInv
  <2>2. ~(Busy("monitor")' /\ Busy("command")')
    BY <1>2, <1>8, <2>1 DEF Undisturbed, Busy, Proceeds, Tasks
  <2>3. \A u \in Tasks : u # t => task[u].todo = <<>> /\ task'[u] = task[u]
    BY <1>2, <1>8, <2>1 DEF Undisturbed, Busy, Proceeds, Tasks
  <2>4. pings' <= 1 /\ \A u \in Tasks : task'[u].ping /\ HasMention(task'[u].todo) => pings' = 0
    BY <1>2, <1>8, <2>1 DEF Undisturbed, Proceeds, Within
  <2>5. Kind(t) = "notice" => task[t].made["notice"] = None \/ tracked["recovery"] = None
    <3> SUFFICES ASSUME Kind(t) = "notice", task[t].made["notice"] # None
                 PROVE  tracked["recovery"] = None
      OBVIOUS
    <3>1. Notes(task[t].todo[1])
      BY <1>1, <1>3 DEF Steady
    <3>2. HasNotice(task[t].todo) /\ ~ForgetsFirst(task[t].todo)
      <4>1. \A j \in DOMAIN task[t].todo : ~(j < 1)
        BY <1>3, Sequence
      <4> QED
        BY <1>3, <3>1, <4>1 DEF HasNotice, ForgetsFirst, Notices
    <3> QED
      BY <2>1, <3>2 DEF Undisturbed
  <2>6. CASE Kind(t) # "recovery"
    <3>1. tracked'["recovery"] = tracked["recovery"]
      BY <1>2, <2>6 DEF Recorded, Listed, Lists, Range, Kinds
    <3>2. tracked'["notice"] = tracked["notice"] \/ tracked["recovery"] = None
      BY <1>2, <2>5, <2>6 DEF Recorded, Listed, Lists, Range, Kinds
    <3>3. Mentioned'
      <4> SUFFICES ASSUME lifecycle' = "offline", pings' # 0
                   PROVE  pinged' \/ \E u \in Tasks :
                            task'[u].ping /\ task'[u].made["notice"] # None
        BY DEF Mentioned
      <4>1. pinged => pinged'
        BY <1>2, <2>6
      <4>2. task[t].ping /\ task[t].made["notice"] # None => pinged'
        <5> SUFFICES ASSUME task[t].ping, task[t].made["notice"] # None
                     PROVE  pinged'
          OBVIOUS
        <5>1. Kind(t) = "notice"
          BY <1>1 DEF Steady, Notes, Kind
        <5> QED
          BY <1>2, <5>1
      <4>3. pinged \/ \E u \in Tasks : task[u].ping /\ task[u].made["notice"] # None
        BY <1>2, <2>1 DEF Undisturbed, Mentioned
      <4> QED
        BY <2>3, <4>1, <4>2, <4>3
    <3>4. \A u \in Tasks : HasNotice(task'[u].todo) =>
            tracked'["recovery"] = None \/ ForgetsFirst(task'[u].todo)
      BY <1>8, <1>9, <2>1, <3>1 DEF Undisturbed, Proceeds, Within
    <3>5. tracked'["notice"] = None \/ tracked'["recovery"] = None
      BY <2>1, <3>1, <3>2 DEF Undisturbed
    <3> QED
      BY <2>2, <2>4, <3>3, <3>4, <3>5 DEF Undisturbed
  <2>7. CASE Kind(t) = "recovery"
    <3>1. Recovers(task[t].todo[1])
      BY <1>2, <1>3, <2>7 DEF Recovers, Kind
    <3>2. lifecycle # "offline"
      BY <1>3, <3>1 DEF NoticesInv, HasRecovery
    <3>3. Mentioned'
      BY <1>2, <3>2 DEF Mentioned
    <3>4. ~HasNotice(task[t].todo)
      BY <1>3, <3>1, Begins DEF Bars
    <3>5. \A u \in Tasks : ~HasNotice(task'[u].todo)
      BY <1>8, <2>3, <3>4, NoPlan DEF Proceeds, Within
    <3>6. tracked'["notice"] = None
      BY <1>2, <2>7 DEF Kinds, Recorded, Listed, Lists, Range
    <3> QED
      BY <2>2, <2>4, <3>3, <3>5, <3>6 DEF Undisturbed
  <2> QED
    BY <2>6, <2>7
<1> QED
  BY <1>10, <1>11, <1>12, <1>13 DEF NoticesInv

-----------------------------------------------------------------------------
(* The notices themselves.                                                   *)

LEMMA NoticePlan ==
  ASSUME NEW op \in Operation, Mentions(op)
  PROVE  LET c == <<op>> \o <<Op("record", "notice", "stop"), End>>
         IN  c \in Seq(Operation) /\ Regular(c) /\ ~HasRecovery(c)
<1> DEFINE record == Op("record", "notice", "stop")
           rest == <<record, End>>
           c == <<op>> \o rest
<1>1. /\ record \in Operation /\ record.do = "record" /\ record.kind = "notice"
      /\ record.fail = "stop"
  <2>1. "record" \in Deeds /\ "notice" \in Kinds /\ "stop" \in Fates
    BY DEF Deeds, Kinds, Fates
  <2> QED
    BY <2>1, Operations
<1> HIDE DEF record
<1>2. End \in Operation /\ End.do = "end"
  BY Operations
<1>3. rest \in Seq(Operation) /\ Len(rest) = 2 /\ rest[1] = record /\ rest[2] = End
  BY <1>1, <1>2, Pairs
<1>4. <<op>> \in Seq(Operation) /\ Len(<<op>>) = 1 /\ <<op>>[1] = op
  BY Single
<1> HIDE DEF rest
<1>5. c \in Seq(Operation) /\ DOMAIN c = 1 .. 3 /\ c[1] = op /\ c[2] = record /\ c[3] = End
  <2> DEFINE l == <<op>>
  <2>1. l \in Seq(Operation) /\ Len(l) = 1 /\ l[1] = op
    BY <1>4
  <2> HIDE DEF l
  <2>2. 1 \in DOMAIN l /\ 1 \in DOMAIN rest /\ 2 \in DOMAIN rest
    BY <1>3, <2>1, Sequence
  <2> DEFINE j == l \o rest
  <2>3. /\ j \in Seq(Operation) /\ DOMAIN j = 1 .. Len(l) + Len(rest) /\ j[1] = l[1]
        /\ j[1 + Len(l)] = rest[1] /\ j[2 + Len(l)] = rest[2]
    BY <1>3, <2>1, <2>2, Joined
  <2> HIDE DEF j
  <2>4. j \in Seq(Operation) /\ DOMAIN j = 1 .. 3 /\ j[1] = op /\ j[2] = record /\ j[3] = End
    BY <1>3, <2>1, <2>3
  <2> QED
    BY <2>4 DEF j, l
<1> HIDE DEF c
<1>6. /\ ~Notices(End) /\ Notes(record) /\ ~Mentions(record) /\ ~Notes(op)
      /\ ~Recovers(op) /\ ~Recovers(record) /\ ~Recovers(End) /\ ~Bars(op) /\ ~Bars(record)
  BY <1>1, <1>2 DEF Notices, Mentions, Notes, Recovers, Bars, Procedures
<1>7. \A i \in DOMAIN c : i = 1 \/ i = 2 \/ i = 3
  BY <1>5
<1>8. \A i \in DOMAIN c : Mentions(c[i]) => i + 1 \in DOMAIN c /\ Notes(c[i + 1])
  <2>1. \A i \in DOMAIN c : Mentions(c[i]) => i = 1
    BY <1>5, <1>6, <1>7 DEF Notices
  <2>2. 1 + 1 \in DOMAIN c /\ Notes(c[1 + 1])
    BY <1>5, <1>6
  <2> QED
    BY <2>1, <2>2
<1>9. \A i, j \in DOMAIN c : Notes(c[i]) /\ Notes(c[j]) => i = j
  BY <1>5, <1>6, <1>7 DEF Notices
<1>10. \A i, j \in DOMAIN c : Notices(c[i]) /\ j < i => ~Bars(c[j])
  <2> SUFFICES ASSUME NEW i \in DOMAIN c, NEW j \in DOMAIN c, Notices(c[i]), j < i
               PROVE  ~Bars(c[j])
    OBVIOUS
  <2>1. i = 1 \/ i = 2
    BY <1>5, <1>6, <1>7
  <2>2. j = 1
    BY <1>5, <1>7, <2>1
  <2> QED
    BY <1>5, <1>6, <2>2
<1>11. ~HasRecovery(c)
  BY <1>5, <1>6, <1>7 DEF HasRecovery
<1> QED
  BY <1>5, <1>8, <1>9, <1>10, <1>11 DEF Regular, c, rest, record

LEMMA Associates ==
  ASSUME NEW S, NEW r \in Seq(S), NEW s \in Seq(S), NEW t \in Seq(S)
  PROVE  (r \o s) \o t = r \o (s \o t)
BY ConcatAssociative

LEMMA OfflinePlan ==
  /\ ShowOffline \in Seq(Operation) /\ Regular(ShowOffline) /\ ~HasRecovery(ShowOffline)
  /\ tracked["recovery"] = None \/ ForgetsFirst(ShowOffline)
<1> DEFINE first == IfAny("status", "forget", "stop") \o Stack
                    \o <<Op("check", "status", "stop")>>
           forget == IfAny("recovery", "forget", "stop")
           all == first \o forget
           delete == IfAny("notice", "delete", "stop")
           edit == <<Op("edit", "notice", "stop")>>
           send == <<Op("send", "notice", "stop")>>
           rest == <<Op("record", "notice", "stop"), End>>
<1>1. first \in SilentPlans /\ forget \in SilentPlans /\ delete \in SilentPlans
  <2>1. /\ IfAny("status", "forget", "stop") \in SilentPlans
        /\ <<Op("check", "status", "stop")>> \in SilentPlans
        /\ forget \in SilentPlans /\ delete \in SilentPlans
    BY Deletions, Aside DEF Kinds, Fates
  <2> QED
    BY <2>1, Stacked, Plans
<1>2. all \in SilentPlans
  BY <1>1, Plans
<1>3. tracked["recovery"] # None => HasForget(all)
  <2> SUFFICES ASSUME tracked["recovery"] # None
               PROVE  HasForget(all)
    OBVIOUS
  <2> DEFINE op == Op("forget", "recovery", "stop")
  <2>1. op \in Operation /\ op.do = "forget" /\ op.kind = "recovery" /\ op.fail = "stop"
    <3>1. "forget" \in Deeds /\ "recovery" \in Kinds /\ "stop" \in Fates
      BY DEF Deeds, Kinds, Fates
    <3> QED
      BY <3>1, Operations
  <2>2. forget = <<op>>
    BY DEF IfAny
  <2> HIDE DEF op, forget, first
  <2>3. /\ forget \in Seq(Operation) /\ first \in Seq(Operation) /\ forget[1] = op
        /\ 1 \in DOMAIN forget
    <3>1. forget \in Seq(Operation) /\ first \in Seq(Operation)
      BY <1>1, Plans
    <3>2. forget[1] = op /\ Len(forget) = 1
      BY <2>1, <2>2, Single
    <3> QED
      BY <3>1, <3>2, Sequence
  <2>4. 1 + Len(first) \in DOMAIN all /\ all[1 + Len(first)] = op
    BY <2>3, Joined
  <2> HIDE DEF all
  <2> QED
    BY <2>1, <2>4 DEF HasForget, Forgets
<1>4. ASSUME NEW op \in {Op("edit", "notice", "stop"), Op("send", "notice", "stop")}
      PROVE  op \in Operation /\ Mentions(op) /\ <<op>> \in Seq(Operation)
  <2>1. "edit" \in Deeds /\ "send" \in Deeds /\ "notice" \in Kinds /\ "stop" \in Fates
    BY DEF Deeds, Kinds, Fates
  <2>2. op \in Operation /\ op.do \in {"edit", "send"} /\ op.kind = "notice"
    BY <1>4, <2>1, Operations
  <2> QED
    BY <2>2, Single DEF Mentions
<1>5. /\ edit \o rest \in Seq(Operation) /\ Regular(edit \o rest) /\ ~HasRecovery(edit \o rest)
      /\ send \o rest \in Seq(Operation) /\ Regular(send \o rest) /\ ~HasRecovery(send \o rest)
      /\ edit \in Seq(Operation) /\ send \in Seq(Operation)
  BY <1>4, NoticePlan
<1>6. rest \in Seq(Operation)
  <2>1. Op("record", "notice", "stop") \in Operation /\ End \in Operation
    <3>1. "record" \in Deeds /\ "notice" \in Kinds /\ "stop" \in Fates
      BY DEF Deeds, Kinds, Fates
    <3> QED
      BY <3>1, Operations
  <2> QED
    BY <2>1, Pairs
<1>7. ShowOffline = all \o (IF tracked["notice"] # None /\ tracked["notice"].channel = route
                            THEN edit ELSE delete \o send) \o rest
  BY DEF ShowOffline
<1>8. all \in Seq(Operation) /\ Silent(all) /\ delete \in Seq(Operation) /\ Silent(delete)
  BY <1>1, <1>2 DEF SilentPlans
<1> HIDE DEF all, delete, edit, send, rest
<1>9. \A s \in Seq(Operation) : (all \o s) \o rest = all \o (s \o rest)
  <2>1. all \in Seq(Operation) /\ rest \in Seq(Operation)
    BY <1>6, <1>8
  <2> QED
    BY <2>1, Associates
<1>10. \E c \in Seq(Operation) : Regular(c) /\ ~HasRecovery(c) /\ ShowOffline = all \o c
  <2>1. CASE tracked["notice"] # None /\ tracked["notice"].channel = route
    <3>1. ShowOffline = (all \o edit) \o rest
      BY <1>7, <2>1
    <3>2. (all \o edit) \o rest = all \o (edit \o rest)
      BY <1>5, <1>9
    <3> QED
      BY <1>5, <3>1, <3>2
  <2>2. CASE ~(tracked["notice"] # None /\ tracked["notice"].channel = route)
    <3>1. delete \o send \in Seq(Operation)
      BY <1>5, <1>8, Joined
    <3>2. ShowOffline = (all \o (delete \o send)) \o rest
      BY <1>7, <2>2
    <3>3. (all \o (delete \o send)) \o rest = all \o ((delete \o send) \o rest)
      BY <1>9, <3>1
    <3>4. (delete \o send) \o rest = delete \o (send \o rest)
      <4>1. delete \in Seq(Operation) /\ send \in Seq(Operation) /\ rest \in Seq(Operation)
        BY <1>5, <1>6, <1>8
      <4> QED
        BY <4>1, Associates
    <3>5. /\ delete \o (send \o rest) \in Seq(Operation)
          /\ Within(delete \o (send \o rest), send \o rest)
      BY <1>5, <1>8, Prefixed, Joined
    <3> QED
      BY <1>5, <3>2, <3>3, <3>4, <3>5 DEF Within
  <2> QED
    BY <2>1, <2>2
<1>11. PICK c \in Seq(Operation) : Regular(c) /\ ~HasRecovery(c) /\ ShowOffline = all \o c
  BY <1>10
<1>12. /\ all \o c \in Seq(Operation) /\ Within(all \o c, c)
       /\ HasForget(all) => ForgetsFirst(all \o c)
  BY <1>8, <1>11, Prefixed, Joined
<1> QED
  BY <1>3, <1>11, <1>12 DEF Within

LEMMA RecoveryPlan ==
  ShowRecovery \in Seq(Operation) /\ ~HasNotice(ShowRecovery)
<1> DEFINE a == Op("delete", "notice", "stop")
           b == Op("send", "recovery", "stop")
           c == Op("record", "recovery", "stop")
<1>1. /\ a \in Operation /\ a.do = "delete" /\ b \in Operation /\ b.kind = "recovery"
      /\ c \in Operation /\ c.kind = "recovery" /\ End \in Operation /\ End.do = "end"
  <2>1. /\ {"delete", "send", "record"} \subseteq Deeds /\ {"notice", "recovery"} \subseteq Kinds
        /\ "stop" \in Fates
    BY DEF Deeds, Kinds, Fates
  <2> QED
    BY <2>1, Operations
<1>2. ~Notices(a) /\ ~Notices(b) /\ ~Notices(c) /\ ~Notices(End)
  <2> HIDE DEF a, b, c
  <2> QED
    BY <1>1 DEF Notices, Mentions, Notes
<1>3. ShowRecovery = <<a, b, c, End>>
  BY DEF ShowRecovery
<1> HIDE DEF a, b, c
<1>4. /\ <<a, b, c, End>> \in Seq(Operation) /\ DOMAIN <<a, b, c, End>> = 1 .. 4
      /\ <<a, b, c, End>>[1] = a /\ <<a, b, c, End>>[2] = b
      /\ <<a, b, c, End>>[3] = c /\ <<a, b, c, End>>[4] = End
  BY <1>1
<1>5. \A i \in 1 .. 4 : i = 1 \/ i = 2 \/ i = 3 \/ i = 4
  OBVIOUS
<1> QED
  BY <1>2, <1>3, <1>4, <1>5 DEF HasNotice

LEMMA ReconcileKeeps ==
  ASSUME NoticesInv, NEW t \in Tasks, Reconcile(t)
  PROVE  NoticesInv'
<1> DEFINE s == task[t].todo
           ops == CASE ~Reach(route) -> <<>>
                    [] Reach(route) /\ lifecycle = "offline" -> ShowOffline
                    [] Reach(route) /\ lifecycle = "confirmed" /\ tracked["notice"] # None ->
                         ShowRecovery
                    [] OTHER -> <<>>
           then == Then(t, ops)
           next == [then EXCEPT !.old = Reads(t, {"status", "recovery", "notice"}),
                                !.route = route, !.ping = ShouldPing, !.failed = FALSE]
<1>1. TypesHold /\ Steady(task[t]) /\ task \in [Tasks -> TaskRecord]
  BY TypeFacts DEF NoticesInv
<1>2. Busy(t) /\ Head(s).do = "reconcile" /\ Goes(t, next) /\ OnlyThinks
  BY DEF Reconcile, Doing
<1>3. /\ s \in Seq(Operation) /\ s # <<>> /\ Head(s) = s[1] /\ Regular(s)
      /\ Tail(s) \in Seq(Operation)
  BY <1>1, <1>2, HeadOf, TailOf DEF Steady
<1>4. ~HasNotice(s) /\ ~HasNotice(Tail(s)) /\ (HasRecovery(Tail(s)) => HasRecovery(s))
  <2>1. Bars(s[1])
    BY <1>2, <1>3 DEF Bars, Procedures
  <2> QED
    BY <1>3, <2>1, Begins
<1>5. /\ ops \in Seq(Operation) /\ Regular(ops)
      /\ HasNotice(ops) => /\ lifecycle = "offline"
                           /\ tracked["recovery"] = None \/ ForgetsFirst(ops)
      /\ HasRecovery(ops) => lifecycle # "offline"
  <2>1. CASE ops = <<>>
    <3> HIDE DEF ops
    <3> QED
      BY <2>1, NoPlan, EmptySeq
  <2>2. CASE ops = ShowOffline /\ lifecycle = "offline"
    <3> HIDE DEF ops
    <3> QED
      BY <2>2, OfflinePlan
  <2>3. CASE ops = ShowRecovery /\ lifecycle = "confirmed"
    <3> HIDE DEF ops
    <3>1. Within(ops, ops)
      BY <2>3, RecoveryPlan, MildPlan
    <3> QED
      BY <2>3, <3>1, RecoveryPlan DEF Within
  <2> QED
    BY <2>1, <2>2, <2>3
<1> HIDE DEF ops
<1>6. /\ then \in TaskRecord /\ then.made = task[t].made /\ then.todo = ops \o Tail(s)
  BY <1>1, <1>2, <1>5, ThenFields
<1>7. Reads(t, {"status", "recovery", "notice"}) \in Known /\ route \in Places
  BY <1>1, ReadsType, TypeFacts
<1> HIDE DEF then
<1>8. /\ next \in TaskRecord /\ next.todo = then.todo /\ next.made = then.made
      /\ next.ping = ~pinged
  BY <1>1, <1>6, <1>7, TypeFacts DEF TaskRecord, ShouldPing
<1> HIDE DEF next
<1>9. /\ Regular(next.todo) /\ (HasNotice(next.todo) => HasNotice(ops))
      /\ HasRecovery(next.todo) => HasRecovery(ops) \/ HasRecovery(s)
      /\ ForgetsFirst(ops) => ForgetsFirst(next.todo)
  <2> DEFINE c == Tail(s)
             r == ops \o c
  <2>1. c \in Seq(Operation) /\ ~HasNotice(c) /\ (HasRecovery(c) => HasRecovery(s))
    BY <1>3, <1>4
  <2>2. next.todo = r
    BY <1>6, <1>8
  <2> HIDE DEF c
  <2>3. /\ Regular(r) /\ (HasNotice(r) => HasNotice(ops))
        /\ HasRecovery(r) => HasRecovery(ops) \/ HasRecovery(c)
        /\ ForgetsFirst(ops) => ForgetsFirst(r)
    BY <1>5, <2>1, Procedure
  <2> HIDE DEF r
  <2> QED
    BY <2>1, <2>2, <2>3
<1>10. task[t].made["notice"] = None
  <2>1. ~Notes(Head(s))
    BY <1>2 DEF Notes
  <2> QED
    BY <1>1, <1>2, <2>1, Unmade
<1>11. /\ task' \in [Tasks -> TaskRecord]
       /\ \A u \in Tasks : u # t => task'[u] = task[u]
       /\ Steady(task'[t])
       /\ \/ task'[t] = next
          \/ /\ task'[t].ping = FALSE /\ ~HasNotice(task'[t].todo)
             /\ HasRecovery(task'[t].todo) => HasRecovery(next.todo)
  BY <1>1, <1>2, <1>6, <1>8, <1>9, <1>10, GoesTo
<1>12. TypesHold'
  BY <1>1, <1>2, <1>11, ThinksTypes
<1>13. \A u \in Tasks : Steady(task'[u])
  BY <1>11 DEF NoticesInv
<1>14. UNCHANGED <<lifecycle, tracked, pinged, pings, excuses>>
  BY <1>2 DEF OnlyThinks, server
<1>15. \A u \in Tasks : HasRecovery(task'[u].todo) => lifecycle' # "offline"
  BY <1>5, <1>9, <1>11, <1>14 DEF NoticesInv
<1>16. ASSUME excuses' = {}
       PROVE  Undisturbed'
  <2>1. Undisturbed /\ excuses = {}
    BY <1>14, <1>16 DEF NoticesInv
  <2>2. ~(Busy("monitor")' /\ Busy("command")')
    BY <1>2, <1>11, <2>1 DEF Undisturbed, Busy, Tasks
  <2>3. \A u \in Tasks : u # t => task[u].todo = <<>>
    BY <1>2, <2>1 DEF Undisturbed, Busy, Tasks
  <2>4. \A u \in Tasks : task[u].made["notice"] = None
    BY <1>10, <2>3 DEF NoticesInv, Steady
  <2>5. lifecycle = "offline" /\ pings # 0 => pinged
    BY <2>1, <2>4 DEF Undisturbed, Mentioned
  <2>6. pings' <= 1 /\ Mentioned'
    BY <1>14, <2>1, <2>5 DEF Undisturbed, Mentioned
  <2>7. HasMention(task'[t].todo) => HasNotice(task'[t].todo)
    BY DEF HasMention, HasNotice, Notices
  <2>8. task'[t].ping /\ HasMention(task'[t].todo) => pings' = 0
    BY <1>5, <1>8, <1>9, <1>11, <1>14, <2>5, <2>7
  <2>9. HasNotice(task'[t].todo) =>
          tracked'["recovery"] = None \/ ForgetsFirst(task'[t].todo)
    BY <1>5, <1>9, <1>11, <1>14
  <2>10. \A u \in Tasks : u # t => ~HasMention(task'[u].todo) /\ ~HasNotice(task'[u].todo)
    BY <1>11, <2>3, NoPlan
  <2> QED
    BY <1>14, <2>1, <2>2, <2>6, <2>8, <2>9, <2>10 DEF Undisturbed
<1> QED
  BY <1>12, <1>13, <1>15, <1>16 DEF NoticesInv

-----------------------------------------------------------------------------
(* The commands, and the monitor's cycle.                                    *)

\* A task begins with a plan that has nothing about the notices.
LEMMA Starts ==
  ASSUME NoticesInv, NEW t \in Tasks, ~Busy(t), NEW next \in TaskRecord,
         next.todo # <<>>, next.todo \in MildPlans, next.made = Nothing,
         task' = [task EXCEPT ![t] = next], TypesHold', excuses \subseteq excuses',
         excuses' = {} => \A u \in Tasks : ~Busy(u),
         UNCHANGED <<lifecycle, tracked, pinged, pings>>
  PROVE  NoticesInv'
<1>1. task'[t] = next /\ \A u \in Tasks : u # t => task'[u] = task[u]
  BY TypeFacts DEF NoticesInv
<1>2. ~HasNotice(next.todo) /\ ~HasRecovery(next.todo)
  BY DEF MildPlans, Mild
<1>3. Steady(next)
  <2>1. Regular(next.todo) /\ Nothing["notice"] = None
    BY <1>2, MildPlan, FreeFields DEF Within, Kinds
  <2> QED
    BY <2>1 DEF Steady
<1>4. \A u \in Tasks : Steady(task'[u])
  BY <1>1, <1>3 DEF NoticesInv
<1>5. \A u \in Tasks : HasRecovery(task'[u].todo) => lifecycle' # "offline"
  BY <1>1, <1>2 DEF NoticesInv
<1>6. ASSUME excuses' = {}
      PROVE  Undisturbed'
  <2>1. Undisturbed /\ excuses = {} /\ \A u \in Tasks : task[u].todo = <<>>
    BY <1>6 DEF NoticesInv, Busy
  <2>2. \A u \in Tasks : task[u].made["notice"] = None
    BY <2>1 DEF NoticesInv, Steady
  <2>3. ~(Busy("monitor")' /\ Busy("command")')
    BY <1>1, <2>1 DEF Busy, Tasks
  <2>4. pings' <= 1 /\ Mentioned'
    BY <2>1, <2>2 DEF Undisturbed, Mentioned
  <2>5. \A u \in Tasks : ~HasNotice(task'[u].todo)
    BY <1>1, <1>2, <2>1, NoPlan
  <2>6. \A u \in Tasks : ~HasMention(task'[u].todo)
    BY <2>5 DEF HasMention, HasNotice, Notices
  <2> QED
    BY <2>1, <2>3, <2>4, <2>5, <2>6 DEF Undisturbed
<1> QED
  BY <1>4, <1>5, <1>6 DEF NoticesInv

LEMMA NotEmpty ==
  ASSUME NEW r \in Seq(Operation), NEW s \in Seq(Operation), r # <<>> \/ s # <<>>
  PROVE  r \o s # <<>>
<1>1. Len(r) \in Nat /\ Len(s) \in Nat /\ Len(r) + Len(s) # 0
  BY Sequence
<1>2. Len(r \o s) # 0
  BY <1>1, Joined
<1> QED
  BY <1>2, EmptySeq

LEMMA CommandsKeep ==
  ASSUME NoticesInv, NEW ops \in MildPlans, ops # <<>>, NEW c \in Places,
         NEW u \in BOOLEAN, Commands(ops, c, u)
  PROVE  NoticesInv'
<1> DEFINE next == [Free EXCEPT !.todo = ops, !.route = c, !.users = u, !.old = tracked]
<1>1. TypesHold /\ task \in [Tasks -> TaskRecord] /\ tracked \in Known
  BY TypeFacts DEF NoticesInv
<1>2. /\ ~Busy("command") /\ excuses = {} /\ task' = [task EXCEPT !["command"] = next]
      /\ calm' = FALSE /\ UNCHANGED tracked /\ Discord(live)
      /\ UNCHANGED <<server, config, pinged, pings>>
      /\ UNCHANGED faults \/ Fault
      /\ IF Busy("monitor") THEN excuses' = excuses \cup {"met"} ELSE UNCHANGED excuses
  BY DEF Commands, Meets
<1>3. next \in TaskRecord /\ next.todo = ops /\ next.made = Nothing
  BY <1>1, FreeFields, Plans DEF TaskRecord
<1> HIDE DEF next
<1>4. task' \in [Tasks -> TaskRecord]
  BY <1>1, <1>2, <1>3
<1>5. /\ excuses \subseteq excuses' /\ excuses' \subseteq {"unrecorded", "met", "partial"}
      /\ excuses' = {} => \A v \in Tasks : ~Busy(v)
  BY <1>1, <1>2, TypeFacts DEF Tasks
<1>6. TypesHold'
  <2>1. GuildTypeOK'
    BY <1>1, <1>2, FaultTypes, TypeFacts DEF server
  <2> QED
    BY <1>1, <1>2, <1>4, <1>5, <2>1, TypesKept, TypeFacts DEF server, config
<1> QED
  BY <1>2, <1>3, <1>5, <1>6, Starts DEF Tasks, server

\* Whatever is done first, the command goes on.
LEMMA Planned ==
  ASSUME NEW r \in MildPlans, NEW s \in MildPlans, s # <<>>
  PROVE  r \o s \in MildPlans /\ r \o s # <<>>
BY Plans, NotEmpty

LEMMA RunPlan ==
  ASSUME NEW do \in {"add", "set", "activate", "remove", "confirm", "post", "display",
                     "reconcile", "announce", "refresh"}
  PROVE  <<Run(do)>> \in MildPlans /\ <<Run(do)>> # <<>>
BY Aside, Plans DEF Procedures

LEMMA ClearedPlan ==
  Stack \o <<Op("check", "eta", "abort")>> \in MildPlans
BY Stacked, Aside, Plans DEF Kinds, Fates

LEMMA ShowsPlan ==
  ASSUME NEW u \in BOOLEAN
  PROVE  Shows(u) \in MildPlans /\ Shows(u) # <<>>
<1>1. /\ <<Run("post")>> \o <<Run("display")>> \in MildPlans
      /\ <<Run("post")>> \o <<Run("display")>> # <<>>
  BY RunPlan, Planned
<1>2. <<Run("post")>> \o <<>> = <<Run("post")>>
  BY RunPlan, Plans, ConcatEmptySeq
<1> QED
  BY <1>1, <1>2, RunPlan DEF Shows

LEMMA RequestsKeep ==
  ASSUME NoticesInv, NEW c \in Channels, NEW u \in BOOLEAN,
         DefaultAdd(c, u) \/ DefaultModify(c) \/ AddServer(c)
  PROVE  NoticesInv'
<1>1. c \in Places /\ users \in BOOLEAN
  BY TypeFacts DEF Places, NoticesInv
<1>2. CASE DefaultAdd(c, u)
  <2> DEFINE first == IF users /\ ~u THEN Stack \o <<Op("check", "eta", "abort")>> ELSE <<>>
             ops == first \o <<Run("add")>>
  <2>1. first \in MildPlans
    BY ClearedPlan, Plans
  <2>2. Commands(ops, c, u) \/ (first # <<>> /\ Commands(first, c, u))
    BY <1>2 DEF DefaultAdd
  <2> HIDE DEF first
  <2>3. ops \in MildPlans /\ ops # <<>>
    BY <2>1, RunPlan, Planned
  <2> HIDE DEF ops
  <2> QED
    BY <1>1, <2>1, <2>2, <2>3, CommandsKeep
<1>3. CASE DefaultModify(c)
  <2> DEFINE first == IF users THEN Stack \o <<Op("check", "eta", "abort")>> ELSE <<>>
             delete == IfAny("status", "delete", "abort")
             set == <<Run("set")>>
             shows == Shows(users)
             ops == first \o delete \o set \o shows
  <2>1. first \in MildPlans /\ delete \in MildPlans /\ set \in MildPlans
        /\ shows \in MildPlans /\ shows # <<>>
    BY <1>1, ClearedPlan, Deletions, RunPlan, ShowsPlan, Plans DEF Kinds, Fates
  <2>2. Commands(ops, c, users)
    BY <1>3 DEF DefaultModify
  <2> HIDE DEF first, delete, set, shows
  <2>3. first \o delete \o set \in MildPlans
    BY <2>1, Plans
  <2>4. ops \in MildPlans /\ ops # <<>>
    BY <2>1, <2>3, Planned
  <2> HIDE DEF ops
  <2> QED
    BY <1>1, <2>2, <2>4, CommandsKeep
<1>4. CASE AddServer(c)
  <2>1. Commands(<<Run("activate")>>, c, FALSE)
    BY <1>4 DEF AddServer
  <2> QED
    BY <1>1, <2>1, RunPlan, CommandsKeep
<1> QED
  BY <1>2, <1>3, <1>4

LEMMA RemovalsKeep ==
  ASSUME NoticesInv, DefaultRemove \/ DelServer
  PROVE  NoticesInv'
<1> DEFINE status == IfAny("status", "delete", "note")
           notice == IfAny("notice", "delete", "note")
           recovery == IfAny("recovery", "delete", "note")
           check == <<Op("check", "eta", "abort"), Run("remove")>>
<1>1. status \in MildPlans /\ notice \in MildPlans /\ recovery \in MildPlans
      /\ Stack \in MildPlans
  BY Deletions, Stacked, Plans DEF Kinds, Fates
<1>2. check \in MildPlans /\ check # <<>>
  <2>1. Op("check", "eta", "abort") \in Operation /\ Run("remove") \in Operation
    <3>1. "check" \in Deeds /\ "eta" \in Kinds /\ "abort" \in Fates /\ "remove" \in Deeds
      BY DEF Deeds, Kinds, Fates
    <3> QED
      BY <3>1, Operations
  <2>2. <<Op("check", "eta", "abort")>> \in MildPlans /\ <<Run("remove")>> \in MildPlans
    BY Aside, Plans DEF Kinds, Fates
  <2> QED
    BY <2>1, <2>2, Pairs
<1>3. Cleanup = status \o notice \o recovery \o Stack \o check
  BY DEF Cleanup
<1> HIDE DEF status, notice, recovery, check
<1>4. status \o notice \o recovery \o Stack \in MildPlans
  BY <1>1, Plans
<1>5. Cleanup \in MildPlans /\ Cleanup # <<>>
  BY <1>2, <1>3, <1>4, Planned
<1>6. NoChannel \in Places
  BY DEF Places
<1> QED
  BY <1>5, <1>6, CommandsKeep DEF DefaultRemove, DelServer

LEMMA SetsKeep ==
  ASSUME NoticesInv, NEW do \in {"set", "activate", "add"}, Doing("command", do),
         NEW ops, ops \in SilentPlans \/ (ops \in MildPlans /\ do \in Procedures), Sets(ops)
  PROVE  NoticesInv'
<1>1. TypesHold /\ task \in [Tasks -> TaskRecord] /\ Steady(task["command"])
      /\ "command" \in Tasks
  BY TypeFacts DEF NoticesInv, Tasks
<1>2. Busy("command") /\ Head(task["command"].todo).do = do
  BY DEF Doing
<1>3. ~Notes(Head(task["command"].todo)) /\ ~Forgets(task["command"].todo[1])
      /\ (do \in Procedures => Bars(Head(task["command"].todo)))
  BY <1>1, <1>2, HeadOf DEF Notes, Forgets, Bars
<1>4. /\ Then("command", ops) \in TaskRecord
      /\ Then("command", ops).made = task["command"].made
      /\ Then("command", ops).ping = task["command"].ping
  BY <1>1, <1>2, ThenFields, Plans
<1>5. /\ Goes("command", Then("command", ops))
      /\ route' = task["command"].route /\ users' = task["command"].users
      /\ UNCHANGED <<server, tracked, pinged, faults, pings, excuses, calm>>
      /\ Discord(live)
  BY DEF Sets
<1>6. Proceeds("command") /\ task["command"].made["notice"] = None
  BY <1>1, <1>2, <1>3, <1>4, <1>5, Carries
<1>7. TypesHold'
  <2>1. GuildTypeOK'
    BY <1>1, <1>5, FaultTypes, TypeFacts DEF server
  <2>2. route' \in Places /\ users' \in BOOLEAN
    BY <1>1, <1>5 DEF TaskRecord
  <2> QED
    BY <1>1, <1>5, <1>6, <2>1, <2>2, TypesKept, TypeFacts DEF Proceeds, server
<1> QED
  BY <1>1, <1>2, <1>3, <1>5, <1>6, <1>7, Keeps DEF server

LEMMA CommandKeeps ==
  ASSUME NoticesInv, Moved \/ Added \/ Activated \/ Confirmed
  PROVE  NoticesInv'
<1>1. TypesHold /\ task \in [Tasks -> TaskRecord] /\ Steady(task["command"])
      /\ "command" \in Tasks
  BY TypeFacts DEF NoticesInv, Tasks
<1>2. CASE Moved
  BY <1>2, SetsKeep, Plans DEF Moved
<1>3. CASE Activated
  BY <1>3, SetsKeep, RunPlan DEF Activated, Procedures
<1>4. CASE Added /\ lifecycle # "grace"
  <2>1. Shows(task["command"].users) \in MildPlans
    BY <1>1, ShowsPlan DEF TaskRecord
  <2> QED
    BY <1>4, <2>1, SetsKeep DEF Added, Procedures
<1>5. CASE Added /\ lifecycle = "grace"
  <2> DEFINE next == [task["command"] EXCEPT !.todo = <<>>]
  <2>1. Doing("command", "add") /\ Goes("command", next) /\ OnlyThinks
    BY <1>5 DEF Added
  <2>2. Busy("command") /\ Head(task["command"].todo).do = "add"
    BY <2>1 DEF Doing
  <2>3. task["command"].made["notice"] = None /\ ~Forgets(task["command"].todo[1])
    BY <1>1, <2>2, Unmade, HeadOf DEF Notes, Forgets
  <2>4. /\ next \in TaskRecord /\ next.todo = <<>> /\ next.made = task["command"].made
        /\ next.ping = task["command"].ping
    BY <1>1, EmptySeq DEF TaskRecord
  <2> HIDE DEF next
  <2>5. Within(next.todo, task["command"].todo)
    BY <2>4, NoPlan, MildPlan
  <2>6. Proceeds("command")
    BY <1>1, <2>1, <2>3, <2>4, <2>5, GoesOn
  <2>7. TypesHold'
    BY <1>1, <2>1, <2>6, ThinksTypes DEF Proceeds
  <2> QED
    BY <1>1, <2>1, <2>2, <2>3, <2>6, <2>7, Keeps DEF OnlyThinks, server
<1>6. CASE Confirmed
  <2>1. Doing("command", "confirm") /\ OnlyThinks
    BY <1>6 DEF Confirmed
  <2>2. PICK ops \in {<<>>, <<Run("post")>>} : Goes("command", Then("command", ops))
    BY <1>6 DEF Confirmed
  <2>3. ops \in MildPlans /\ "confirm" \in Deeds \ {"record", "forget"}
        /\ "confirm" \in Procedures
    BY RunPlan, Plans DEF Deeds, Procedures
  <2>4. /\ Then("command", ops) \in TaskRecord
        /\ Then("command", ops).made = task["command"].made
        /\ Then("command", ops).ping = task["command"].ping
    BY <1>1, <2>1, <2>3, ThenFields, Plans DEF Doing
  <2> QED
    BY <1>1, <2>1, <2>2, <2>3, <2>4, Thinks
<1> QED
  BY <1>2, <1>3, <1>4, <1>5, <1>6

LEMMA RemovedKeeps ==
  ASSUME NoticesInv, Removed
  PROVE  NoticesInv'
<1>1. TypesHold /\ task \in [Tasks -> TaskRecord] /\ Steady(task["command"])
      /\ "command" \in Tasks
  BY TypeFacts DEF NoticesInv, Tasks
<1>2. /\ Busy("command") /\ Head(task["command"].todo).do = "remove"
      /\ Goes("command", Then("command", <<>>))
      /\ route' = NoChannel /\ users' = FALSE /\ map' = "none" /\ pinged' = FALSE
      /\ tracked' = [k \in Kinds |-> IF k \in Listed THEN tracked[k] ELSE None]
      /\ pings' = 0 /\ UNCHANGED <<lifecycle, exists, faults, excuses, calm>>
      /\ Discord(live)
  BY DEF Removed, Doing
<1>3. ~Notes(Head(task["command"].todo)) /\ ~Forgets(task["command"].todo[1])
  BY <1>1, <1>2, HeadOf DEF Notes, Forgets
<1>4. /\ Then("command", <<>>) \in TaskRecord
      /\ Then("command", <<>>).made = task["command"].made
      /\ Then("command", <<>>).ping = task["command"].ping
  BY <1>1, <1>2, ThenFields, EmptySeq
<1>5. Proceeds("command") /\ task["command"].made["notice"] = None
  BY <1>1, <1>2, <1>3, <1>4, Carries, Plans
<1>6. tracked' \in Known /\ \A k \in Kinds : tracked'[k] \in {tracked[k], None}
  BY <1>1, <1>2, TypeFacts DEF Known
<1>7. TypesHold'
  <2>1. GuildTypeOK' /\ route' \in Places
    BY <1>1, <1>2, FaultTypes, TypeFacts DEF Places
  <2>0. pings' \in 0 .. 2
    BY <1>2
  <2>2. /\ users' \in BOOLEAN /\ pinged' \in BOOLEAN /\ calm' \in BOOLEAN
        /\ map' \in {"none", "current", "old"} /\ lifecycle' \in {"confirmed", "grace", "offline"}
        /\ excuses' \subseteq {"unrecorded", "met", "partial"}
    BY <1>1, <1>2, TypeFacts
  <2>3. task' \in [Tasks -> TaskRecord] /\ live \in [Kinds -> SUBSET Message]
    BY <1>1, <1>5, TypeFacts DEF Proceeds
  <2> QED
    BY <1>1, <1>2, <1>6, <2>0, <2>1, <2>2, <2>3, TypesKept
<1> QED
  BY <1>1, <1>2, <1>3, <1>5, <1>6, <1>7, Keeps DEF Kinds

LEMMA CycleKeeps ==
  ASSUME NoticesInv, Cycle
  PROVE  NoticesInv'
<1>1. TypesHold /\ task \in [Tasks -> TaskRecord] /\ "monitor" \in Tasks
  BY TypeFacts DEF NoticesInv, Tasks
<1>2. PICK fresh \in BOOLEAN, newMap \in BOOLEAN :
        LET seen == IF newMap /\ map = "current" THEN "old" ELSE map
            default == route # NoChannel
        IN  /\ map' = IF fresh /\ default /\ seen = "none" THEN "current" ELSE seen
            /\ task' = [task EXCEPT !["monitor"] =
                 [Free EXCEPT !.route = route, !.users = users,
                    !.todo = (IF default /\ seen = "old" /\ fresh THEN <<Run("announce")>>
                              ELSE <<>>)
                             \o <<Run("reconcile")>>
                             \o (IF fresh THEN <<Run("refresh")>> ELSE <<>>)]]
  BY DEF Cycle
<1> DEFINE seen == IF newMap /\ map = "current" THEN "old" ELSE map
           first == IF route # NoChannel /\ seen = "old" /\ fresh THEN <<Run("announce")>>
                    ELSE <<>>
           last == IF fresh THEN <<Run("refresh")>> ELSE <<>>
           todo == first \o <<Run("reconcile")>> \o last
           next == [Free EXCEPT !.route = route, !.users = users, !.todo = todo]
<1>3. /\ \A t \in Tasks : ~Busy(t)
      /\ calm' = TRUE /\ Discord(live)
      /\ UNCHANGED <<lifecycle, exists, config, tracked, pinged, faults, pings, excuses>>
  BY DEF Cycle
<1>4. task' = [task EXCEPT !["monitor"] = next] /\ map' \in {"none", "current", "old"}
  BY <1>1, <1>2, TypeFacts
<1>5. first \in MildPlans /\ last \in MildPlans /\ <<Run("reconcile")>> \in MildPlans
      /\ <<Run("reconcile")>> # <<>>
  BY RunPlan, Plans
<1> HIDE DEF first, last
<1>6. todo \in MildPlans /\ todo # <<>>
  <2>1. first \o <<Run("reconcile")>> \in MildPlans /\ first \o <<Run("reconcile")>> # <<>>
    BY <1>5, Planned
  <2> QED
    BY <1>5, <2>1, Plans, NotEmpty
<1> HIDE DEF todo
<1>7. next \in TaskRecord /\ next.todo = todo /\ next.made = Nothing
  BY <1>1, <1>6, FreeFields, Plans, TypeFacts DEF TaskRecord
<1> HIDE DEF next
<1>8. TypesHold'
  <2>1. GuildTypeOK'
    BY <1>1, <1>3, FaultTypes, TypeFacts
  <2>2. task' \in [Tasks -> TaskRecord]
    BY <1>1, <1>4, <1>7
  <2> QED
    BY <1>1, <1>3, <1>4, <2>1, <2>2, TypesKept, TypeFacts DEF config
<1> QED
  BY <1>1, <1>3, <1>4, <1>6, <1>7, <1>8, Starts

-----------------------------------------------------------------------------
(* What happens around them.                                                 *)

\* Messages go, and the tasks do not notice.
LEMMA SurroundingTypes ==
  ASSUME TypesHold, UNCHANGED <<map, config, tracked, pinged, task, excuses, abandoned>>,
         lifecycle' \in {"confirmed", "grace", "offline"}, GuildTypeOK',
         live' \in [Kinds -> SUBSET Message], \A k \in Kinds : live'[k] \subseteq live[k],
         pings' \in 0 .. 2, calm' \in BOOLEAN
  PROVE  TypesHold'
<1>1. \A k \in Kinds : live'[k] \subseteq Referred(k, tracked', task')
  BY DEF TypesHold
<1>2. \A t \in Tasks :
        /\ task'[t].route \in Places /\ task'[t].users \in BOOLEAN
        /\ task'[t].old \in Known /\ task'[t].made \in Known
        /\ task'[t].ping \in BOOLEAN /\ task'[t].failed \in BOOLEAN
        /\ \A i \in DOMAIN task'[t].todo : task'[t].todo[i].kind \in Kinds
  BY DEF TypesHold, MessagesTypeOK, Places, Known
<1> QED
  BY <1>1, <1>2 DEF TypesHold, MessagesTypeOK, Known, Places, config

LEMMA KeeperKeeps ==
  ASSUME NoticesInv, Keeper
  PROVE  NoticesInv'
<1>1. TypesHold
  BY DEF NoticesInv
<1>2. /\ lifecycle' = "offline" => \A t \in Tasks : ~Busy(t)
      /\ pings' = IF lifecycle' = "grace" THEN pings ELSE 0
      /\ calm' = FALSE
      /\ UNCHANGED <<map, exists, config, tracked, pinged, live, task, faults,
                     excuses, abandoned>>
  BY DEF Keeper
<1>3. lifecycle' \in {"confirmed", "grace", "offline"}
  BY <1>1, TypeFacts DEF Keeper
<1>4. TypesHold'
  <2>1. GuildTypeOK'
    BY <1>1, <1>2, FaultTypes, TypeFacts
  <2>0. pings' \in 0 .. 2
    <3>1. pings \in 0 .. 2
      BY <1>1, TypeFacts
    <3>2. pings' = pings \/ pings' = 0
      BY <1>2
    <3> QED
      BY <3>1, <3>2
  <2>2. calm' \in BOOLEAN
    BY <1>2
  <2>3. live' \in [Kinds -> SUBSET Message] /\ \A k \in Kinds : live'[k] \subseteq live[k]
    BY <1>1, <1>2, TypeFacts
  <2> QED
    BY <1>1, <1>2, <1>3, <2>0, <2>1, <2>2, <2>3, SurroundingTypes
<1>5. \A t \in Tasks : Steady(task'[t])
  BY <1>2 DEF NoticesInv
<1>6. \A t \in Tasks : HasRecovery(task'[t].todo) => lifecycle' # "offline"
  BY <1>2, NoPlan DEF Busy
<1>7. excuses' = {} => Undisturbed'
  BY <1>2 DEF NoticesInv, Undisturbed, Mentioned, Busy
<1> QED
  BY <1>4, <1>5, <1>6, <1>7 DEF NoticesInv

LEMMA LossesKeep ==
  ASSUME NoticesInv,
         (\E k \in Kinds : Vanish(k)) \/ (\E c \in Channels : ChannelDeleted(c))
  PROVE  NoticesInv'
<1>1. TypesHold
  BY DEF NoticesInv
<1>2. /\ Fault /\ calm' = FALSE
      /\ UNCHANGED <<lifecycle, map, config, tracked, pinged, task, pings, excuses, abandoned>>
      /\ exists' \subseteq exists
  BY DEF Vanish, ChannelDeleted, Trouble, server
<1>3. live' \in [Kinds -> SUBSET Message] /\ \A k \in Kinds : live'[k] \subseteq live[k]
  BY <1>1, TypeFacts DEF Vanish, ChannelDeleted
<1>4. TypesHold'
  <2>1. GuildTypeOK'
    BY <1>1, <1>2, FaultTypes, TypeFacts
  <2> QED
    BY <1>1, <1>2, <1>3, <2>1, SurroundingTypes, TypeFacts
<1> QED
  BY <1>2, <1>4 DEF NoticesInv, Undisturbed, Mentioned, Busy

LEMMA CrashKeeps ==
  ASSUME NoticesInv, Crash
  PROVE  NoticesInv'
<1>1. TypesHold
  BY DEF NoticesInv
<1>2. /\ Fault /\ calm' = FALSE /\ task' = [t \in Tasks |-> Free] /\ UNCHANGED tracked
      /\ excuses' = IF \E t \in Tasks : task[t].made # Nothing
                    THEN excuses \cup {"unrecorded"} ELSE excuses
      /\ Discord(live) /\ UNCHANGED <<server, config, pinged, pings>>
  BY DEF Crash, Trouble
<1>3. task' \in [Tasks -> TaskRecord] /\ \A t \in Tasks : task'[t] = Free
  BY <1>2, FreeFields
<1>4. TypesHold'
  <2>1. GuildTypeOK'
    BY <1>1, <1>2, FaultTypes, TypeFacts DEF server
  <2> QED
    BY <1>1, <1>2, <1>3, <2>1, TypesKept, TypeFacts DEF server, config
<1>5. Steady(Free) /\ ~HasRecovery(Free.todo) /\ ~HasNotice(Free.todo)
      /\ Free.made["notice"] = None /\ ~Free.ping
  BY FreeFields, NoPlan DEF Steady, Kinds
<1>6. ASSUME excuses' = {}
      PROVE  Undisturbed'
  <2>1. Undisturbed /\ \A t \in Tasks : task[t].made = Nothing
    BY <1>2, <1>6 DEF NoticesInv
  <2>2. \A t \in Tasks : task[t].made["notice"] = None
    BY <2>1, FreeFields DEF Kinds
  <2>3. pings' <= 1 /\ Mentioned'
    BY <1>2, <2>1, <2>2 DEF Undisturbed, Mentioned, server
  <2>4. ~(Busy("monitor")' /\ Busy("command")')
    BY <1>3, FreeFields DEF Busy, Tasks
  <2> QED
    BY <1>2, <1>3, <1>5, <2>1, <2>3, <2>4 DEF Undisturbed
<1> QED
  BY <1>3, <1>4, <1>5, <1>6 DEF NoticesInv

-----------------------------------------------------------------------------
(* The theorems.                                                             *)

LEMMA NoticesInit ==
  ASSUME MessagesInit
  PROVE  NoticesInv
<1>1. /\ lifecycle = "confirmed" /\ map = "none" /\ exists = Channels /\ faults = MaxFaults
      /\ route = NoChannel /\ users = FALSE /\ tracked = Nothing /\ pinged = FALSE
      /\ live = [k \in Kinds |-> {}] /\ task = [t \in Tasks |-> Free]
      /\ pings = 0 /\ excuses = {} /\ calm = FALSE /\ abandoned = FALSE
  BY DEF MessagesInit, GuildInit
<1>2. \A t \in Tasks : task[t] = Free /\ task[t].todo = <<>>
  BY <1>1, FreeFields
<1>3. TypesHold
  <2>1. task \in [Tasks -> TaskRecord] /\ tracked \in Known
    BY <1>1, FreeFields
  <2>2. \A k \in Kinds : live[k] \subseteq Referred(k, tracked, task)
    BY <1>1
  <2>3. \A t \in Tasks :
          /\ task[t].route \in Places /\ task[t].users \in BOOLEAN
          /\ task[t].old \in Known /\ task[t].made \in Known
          /\ task[t].ping \in BOOLEAN /\ task[t].failed \in BOOLEAN
          /\ \A i \in DOMAIN task[t].todo : task[t].todo[i].kind \in Kinds
    <3>1. DOMAIN <<>> = {}
      OBVIOUS
    <3> QED
      BY <1>2, <2>1, <3>1 DEF TaskRecord
  <2>4. GuildTypeOK /\ live \in [Kinds -> SUBSET Message] /\ route \in Places
    BY <1>1, GuildAssumption DEF GuildTypeOK, Places
  <2>5. /\ lifecycle \in {"confirmed", "grace", "offline"} /\ map \in {"none", "current", "old"}
        /\ excuses \subseteq {"unrecorded", "met", "partial"} /\ pings \in 0 .. 2
    BY <1>1
  <2>6. users \in BOOLEAN /\ pinged \in BOOLEAN /\ calm \in BOOLEAN /\ abandoned \in BOOLEAN
    BY <1>1
  <2> QED
    BY <2>1, <2>2, <2>3, <2>4, <2>5, <2>6 DEF TypesHold, MessagesTypeOK, Known, Places
<1>4. /\ Steady(Free) /\ ~HasRecovery(Free.todo) /\ ~HasNotice(Free.todo)
      /\ ~Free.ping
  BY FreeFields, NoPlan DEF Steady, Kinds
<1>5. Undisturbed
  <2>1. tracked["notice"] = None /\ ~Busy("monitor") /\ ~Busy("command")
    BY <1>1, <1>2, FreeFields DEF Kinds, Busy, Tasks
  <2> QED
    BY <1>1, <1>2, <1>4, <2>1 DEF Undisturbed, Mentioned
<1> QED
  BY <1>1, <1>2, <1>3, <1>4, <1>5 DEF NoticesInv

LEMMA DoesKeeps ==
  ASSUME EnoughIds, NoticesInv, NEW t \in Tasks, Does(t)
  PROVE  NoticesInv'
<1>1. CASE Delete(t) \/ Fails(t) \/ Unanswered(t)
  BY <1>1, DeleteKeeps, FailsKeeps
<1>2. CASE Edit(t) \/ Send(t)
  BY <1>2, EditKeeps, SendKeeps
<1>3. CASE Clear(t) \/ Check(t) \/ Compare(t) \/ Build(t)
  BY <1>3, ClearKeeps, CheckKeeps, CompareKeeps, BuildKeeps
<1>4. CASE Announce(t, "announce") \/ Announce(t, "post")
  BY <1>4, AnnounceKeeps
<1>5. CASE Display(t, "refresh") \/ Display(t, "display")
  BY <1>5, DisplayKeeps
<1>6. CASE Reconcile(t) \/ Record(t)
  BY <1>6, ReconcileKeeps, RecordKeeps
<1> QED
  BY <1>1, <1>2, <1>3, <1>4, <1>5, <1>6 DEF Does

LEMMA NoticesNext ==
  ASSUME EnoughIds, NoticesInv, [MessagesNext]_messagesVars
  PROVE  NoticesInv'
<1>1. CASE \E t \in Tasks : Does(t)
  BY <1>1, DoesKeeps
<1>2. CASE Added \/ Moved \/ Activated \/ Confirmed
  BY <1>2, CommandKeeps
<1>3. CASE Removed
  BY <1>3, RemovedKeeps
<1>4. CASE \/ DefaultRemove \/ DelServer
           \/ \E c \in Channels :
                \/ DefaultModify(c) \/ AddServer(c) \/ \E u \in BOOLEAN : DefaultAdd(c, u)
  <2>1. CASE \E c \in Channels :
               \/ DefaultModify(c) \/ AddServer(c) \/ \E u \in BOOLEAN : DefaultAdd(c, u)
    BY <2>1, RequestsKeep
  <2>2. CASE DefaultRemove \/ DelServer
    BY <2>2, RemovalsKeep
  <2> QED
    BY <1>4, <2>1, <2>2
<1>5. CASE Cycle
  BY <1>5, CycleKeeps
<1>6. CASE Keeper
  BY <1>6, KeeperKeeps
<1>7. CASE Crash
  BY <1>7, CrashKeeps
<1>8. CASE (\E k \in Kinds : Vanish(k)) \/ (\E c \in Channels : ChannelDeleted(c))
  BY <1>8, LossesKeep
<1>9. CASE UNCHANGED messagesVars
  <2>1. UNCHANGED <<lifecycle, map, exists, route, users, tracked, pinged, live, task, faults,
                    pings, excuses, calm, abandoned>>
    BY <1>9 DEF messagesVars, server, config, history
  <2>2. TypesHold'
    BY <2>1 DEF NoticesInv, TypesHold, MessagesTypeOK, GuildTypeOK
  <2> QED
    BY <2>1, <2>2 DEF NoticesInv, Undisturbed, Mentioned, Busy
<1> QED
  BY <1>1, <1>2, <1>3, <1>4, <1>5, <1>6, <1>7, <1>8, <1>9 DEF MessagesNext

\* The invariant behind the theorems: while nothing may explain it otherwise, at most one
\* coroutine is at work, a notice that was made is recorded by its very next operation, a
\* coroutine that may still mention the role finds no mention before it, and one that still
\* has a notice to show has the recovery notice forgotten first.
THEOREM NoticesHold ==
  ASSUME EnoughIds
  PROVE  MessagesSpec => []NoticesInv
<1>1. MessagesInit => NoticesInv
  BY NoticesInit
<1>2. NoticesInv /\ [MessagesNext]_messagesVars => NoticesInv'
  BY NoticesNext
<1> QED
  BY <1>1, <1>2, PTL DEF MessagesSpec

\* The state, the coroutines' memories and their plans keep their types, and Discord has
\* no message that something does not refer to but what was counted as abandoned: a
\* message that is sent is always a new one, in a channel. (serverwatcher.py.)
THEOREM MessagesTypesHold ==
  ASSUME EnoughIds
  PROVE  MessagesSpec => []MessagesTypeOK
<1>1. NoticesInv => MessagesTypeOK
  BY DEF NoticesInv, TypesHold
<1> QED
  BY <1>1, NoticesHold, PTL

\* The management role is mentioned once in an outage, whichever calls fail, channels and
\* messages go and processes crash, as long as no transaction after a notice failed and
\* no command met the monitor's cycle. (reconcile_server_lifecycle_discord: should_ping is
\* read with the rows and management_notified_at is set with the message.)
THEOREM RoleMentionedOnce ==
  ASSUME EnoughIds
  PROVE  MessagesSpec => []MentionedOnce
<1>1. NoticesInv => MentionedOnce
  <2> SUFFICES ASSUME NoticesInv, pings > 1, excuses = {}
               PROVE  FALSE
    BY DEF MentionedOnce
  <2>1. pings <= 1 /\ pings \in 0 .. 2
    BY TypeFacts DEF NoticesInv, Undisturbed
  <2> QED
    BY <2>1
<1> QED
  BY <1>1, NoticesHold, PTL

\* The database never has both notices, so that they never stand together, under the same
\* conditions. (reconcile_server_lifecycle_discord, post_automatic_announcement.)
THEOREM NoticesNeverContradict ==
  ASSUME EnoughIds
  PROVE  MessagesSpec => []NoContradiction
<1>1. NoticesInv => NoContradiction
  BY DEF NoticesInv, Undisturbed, NoContradiction, Stands
<1> QED
  BY <1>1, NoticesHold, PTL

-----------------------------------------------------------------------------
(* Plans in order.                                                           *)

LEMMA RangeFacts ==
  /\ Range(<<>>) = {} /\ Ordered(<<>>)
  /\ \A s \in Seq(Operation) :
       /\ Range(s) \subseteq Operation
       /\ Range(s) = {} => s = <<>>
       /\ s # <<>> => /\ Head(s) \in Range(s)
                      /\ Range(s) = {Head(s)} \cup Range(Tail(s))
       /\ \A i \in DOMAIN s : s[i] \in Range(s)
<1>1. Range(<<>>) = {} /\ Ordered(<<>>)
  BY DEF Range, Ordered
<1>2. ASSUME NEW s \in Seq(Operation)
      PROVE  /\ Range(s) \subseteq Operation
             /\ \A i \in DOMAIN s : s[i] \in Range(s)
             /\ Range(s) = {} => s = <<>>
  <2>1. /\ Len(s) \in Nat /\ DOMAIN s = 1 .. Len(s)
        /\ \A i \in DOMAIN s : s[i] \in Operation
        /\ Len(s) = 0 => s = <<>>
    BY Sequence
  <2>2. Range(s) = {} => Len(s) = 0
    <3> SUFFICES ASSUME Len(s) # 0
                 PROVE  s[1] \in Range(s)
      OBVIOUS
    <3>1. 1 \in DOMAIN s
      BY <2>1
    <3> QED
      BY <3>1 DEF Range
  <2> QED
    BY <2>1, <2>2 DEF Range
<1>3. ASSUME NEW s \in Seq(Operation), s # <<>>
      PROVE  Head(s) \in Range(s) /\ Range(s) = {Head(s)} \cup Range(Tail(s))
  <2> DEFINE c == Tail(s)
  <2>1. /\ DOMAIN c = 1 .. Len(s) - 1 /\ Len(s) \in Nat /\ DOMAIN s = 1 .. Len(s)
        /\ \A i \in DOMAIN c : c[i] = s[i + 1] /\ i + 1 \in DOMAIN s
        /\ Head(s) = s[1] /\ Len(s) # 0
    BY <1>3, TailOf, Sequence
  <2> HIDE DEF c
  <2>2. Head(s) \in Range(s)
    BY <2>1 DEF Range
  <2>3. Range(c) \subseteq Range(s)
    BY <2>1 DEF Range
  <2>4. ASSUME NEW i \in DOMAIN s
        PROVE  s[i] \in {Head(s)} \cup Range(c)
    <3>1. CASE i = 1
      BY <2>1, <3>1
    <3>2. CASE i # 1
      <4>1. i - 1 \in DOMAIN c /\ i - 1 + 1 = i
        BY <2>1, <3>2
      <4> QED
        BY <2>1, <4>1 DEF Range
    <3> QED
      BY <3>1, <3>2
  <2> QED
    BY <2>2, <2>3, <2>4 DEF Range, c
<1> QED
  BY <1>1, <1>2, <1>3

LEMMA OneOperation ==
  ASSUME NEW op \in Operation
  PROVE  <<op>> \in Seq(Operation) /\ Range(<<op>>) = {op} /\ Ordered(<<op>>)
<1>1. <<op>> \in Seq(Operation) /\ Len(<<op>>) = 1 /\ <<op>>[1] = op
  BY Single
<1> DEFINE s == <<op>>
<1>2. DOMAIN s = 1 .. 1 /\ s[1] = op
  BY <1>1, Sequence
<1> HIDE DEF s
<1>3. Range(s) = {op} /\ Ordered(s)
  BY <1>2 DEF Range, Ordered
<1> QED
  BY <1>1, <1>3 DEF s

LEMMA JoinedOrder ==
  ASSUME NEW r \in Seq(Operation), NEW s \in Seq(Operation)
  PROVE  /\ r \o s \in Seq(Operation) /\ Range(r \o s) = Range(r) \cup Range(s)
         /\ Ordered(r) /\ Ordered(s)
            /\ (\A a \in Range(r), b \in Range(s) : Precedes(a, b)) => Ordered(r \o s)
<1> DEFINE q == r \o s
           n == Len(r)
<1>1. /\ q \in Seq(Operation) /\ DOMAIN q = 1 .. n + Len(s) /\ n \in Nat /\ Len(s) \in Nat
      /\ DOMAIN r = 1 .. n /\ DOMAIN s = 1 .. Len(s)
      /\ \A i \in DOMAIN q : q[i] = IF i <= n THEN r[i] ELSE s[i - n]
      /\ \A i \in DOMAIN r : i \in DOMAIN q /\ q[i] = r[i]
      /\ \A i \in DOMAIN s : i + n \in DOMAIN q /\ q[i + n] = s[i]
  BY Joined, Sequence
<1> HIDE DEF q, n
<1>2. ASSUME NEW i \in DOMAIN q
      PROVE  \/ i \in DOMAIN r /\ q[i] = r[i]
             \/ i > n /\ i - n \in DOMAIN s /\ q[i] = s[i - n]
  BY <1>1
<1>3. Range(q) = Range(r) \cup Range(s)
  BY <1>1, <1>2 DEF Range
<1>4. ASSUME Ordered(r), Ordered(s), \A a \in Range(r), b \in Range(s) : Precedes(a, b),
             NEW i \in DOMAIN q, NEW j \in DOMAIN q, i < j
      PROVE  Precedes(q[i], q[j])
  <2>1. CASE j \in DOMAIN r /\ q[j] = r[j]
    <3>1. i \in DOMAIN r /\ q[i] = r[i]
      BY <1>1, <1>4, <2>1
    <3> QED
      BY <1>4, <2>1, <3>1 DEF Ordered
  <2>2. CASE j > n /\ j - n \in DOMAIN s /\ q[j] = s[j - n]
    <3>1. CASE i \in DOMAIN r /\ q[i] = r[i]
      BY <1>4, <2>2, <3>1 DEF Range
    <3>2. CASE i > n /\ i - n \in DOMAIN s /\ q[i] = s[i - n]
      <4>1. i - n < j - n
        BY <1>1, <1>4, <2>2, <3>2
      <4> QED
        BY <1>4, <2>2, <3>2, <4>1 DEF Ordered
    <3> QED
      BY <1>2, <3>1, <3>2
  <2> QED
    BY <1>2, <2>1, <2>2
<1>5. Ordered(r) /\ Ordered(s)
      /\ (\A a \in Range(r), b \in Range(s) : Precedes(a, b)) => Ordered(q)
  BY <1>4 DEF Ordered
<1> QED
  BY <1>1, <1>3, <1>5 DEF q

LEMMA TailOrder ==
  ASSUME NEW s \in Seq(Operation), s # <<>>, Ordered(s)
  PROVE  /\ Tail(s) \in Seq(Operation) /\ Ordered(Tail(s))
         /\ \A b \in Range(Tail(s)) : Precedes(Head(s), b)
<1> DEFINE c == Tail(s)
<1>1. /\ c \in Seq(Operation) /\ DOMAIN c = 1 .. Len(s) - 1 /\ Len(s) \in Nat
      /\ DOMAIN s = 1 .. Len(s) /\ Len(s) # 0 /\ Head(s) = s[1]
      /\ \A i \in DOMAIN c : c[i] = s[i + 1] /\ i + 1 \in DOMAIN s
  BY TailOf, Sequence
<1> HIDE DEF c
<1>2. \A i, j \in DOMAIN c : i < j => i + 1 < j + 1
  BY <1>1
<1>3. Ordered(c)
  BY <1>1, <1>2 DEF Ordered
<1>4. \A i \in DOMAIN c : 1 < i + 1 /\ 1 \in DOMAIN s
  BY <1>1
<1>5. \A b \in Range(c) : Precedes(Head(s), b)
  BY <1>1, <1>4 DEF Ordered, Range
<1> QED
  BY <1>1, <1>3, <1>5 DEF c

LEMMA CutOrder ==
  ASSUME NEW s \in Seq(Operation), Ordered(s), NEW e \in DOMAIN s
  PROVE  LET c == SubSeq(s, 1 + e, Len(s))
         IN  /\ c \in Seq(Operation) /\ Ordered(c) /\ Range(c) \subseteq Range(s)
             /\ \A b \in Range(c) : Precedes(s[e], b)
<1> DEFINE c == SubSeq(s, 1 + e, Len(s))
<1>1. /\ c \in Seq(Operation) /\ DOMAIN c = 1 .. Len(s) - e
      /\ \A i \in DOMAIN c : c[i] = s[i + e] /\ i + e \in DOMAIN s
  BY Cut
<1>2. Len(s) \in Nat /\ DOMAIN s = 1 .. Len(s)
  BY Sequence
<1> HIDE DEF c
<1>3. \A i, j \in DOMAIN c : i < j => i + e < j + e
  BY <1>1, <1>2
<1>4. Ordered(c)
  BY <1>1, <1>3 DEF Ordered
<1>5. \A i \in DOMAIN c : e < i + e
  BY <1>1, <1>2
<1>6. Range(c) \subseteq Range(s) /\ \A b \in Range(c) : Precedes(s[e], b)
  BY <1>1, <1>5 DEF Ordered, Range
<1> QED
  BY <1>1, <1>4, <1>6 DEF c

LEMMA SomeKinds ==
  /\ Listed = {"list1", "list2"} /\ Listed \subseteq Kinds /\ PlayerKinds \subseteq Kinds
  /\ PlayerKinds = {"list1", "list2", "eta"}
<1>1. Listed = {"list1", "list2"}
  BY DEF Listed, Lists, Range
<1> QED
  BY <1>1 DEF PlayerKinds, Kinds

\* What may come before anything else.
Gentle(op) ==
  \/ op.do \in {"delete", "forget", "clear eta", "clear lists"}
  \/ op.do = "check" /\ op.fail # "abort"

LEMMA GentleFirst ==
  ASSUME NEW a, NEW b, Gentle(a)
  PROVE  Precedes(a, b)
BY DEF Gentle, Precedes, Procedures, Closing, Posts, Guards

LEMMA GentlePlan ==
  ASSUME NEW r \in Seq(Operation), \A a \in Range(r) : Gentle(a)
  PROVE  Ordered(r)
BY RangeFacts, GentleFirst DEF Ordered

\* What may come before anything can be put before any plan.
LEMMA GentleJoin ==
  ASSUME NEW r \in Seq(Operation), NEW s \in Seq(Operation), Ordered(r), Ordered(s),
         \A a \in Range(r) : Gentle(a)
  PROVE  /\ r \o s \in Seq(Operation) /\ Ordered(r \o s)
         /\ Range(r \o s) = Range(r) \cup Range(s)
<1>1. \A a \in Range(r), b \in Range(s) : Precedes(a, b)
  BY GentleFirst
<1> QED
  BY <1>1, JoinedOrder

\* The plan of a task that is busy.
LEMMA PlanOf ==
  ASSUME task \in [Tasks -> TaskRecord], NEW t \in Tasks, Busy(t)
  PROVE  LET h == Head(task[t].todo)
             rest == Range(Tail(task[t].todo))
         IN  /\ h \in Operation /\ h \in Plan(task[t]) /\ rest \subseteq Operation
             /\ Tail(task[t].todo) \in Seq(Operation)
             /\ Plan(task[t]) = {h} \cup rest
             /\ Orderly(task[t]) => /\ Ordered(Tail(task[t].todo))
                                    /\ \A b \in rest : Precedes(h, b)
<1>1. task[t].todo \in Seq(Operation) /\ task[t].todo # <<>>
      /\ Head(task[t].todo) \in Operation
  BY HeadOf
<1>2. Tail(task[t].todo) \in Seq(Operation)
  BY <1>1, TailOf
<1>3. Orderly(task[t]) => Ordered(task[t].todo)
  BY DEF Orderly
<1> QED
  BY <1>1, <1>2, <1>3, RangeFacts, TailOrder DEF Plan

LEMMA ThenPlan ==
  ASSUME task \in [Tasks -> TaskRecord], NEW t \in Tasks, Busy(t),
         NEW ops \in Seq(Operation)
  PROVE  /\ ops \o Tail(task[t].todo) \in Seq(Operation)
         /\ Range(ops \o Tail(task[t].todo)) = Range(ops) \cup Range(Tail(task[t].todo))
BY PlanOf, JoinedOrder

\* A task whose next operation is replaced by these keeps its plan in order.
LEMMA Reorders ==
  ASSUME task \in [Tasks -> TaskRecord], NEW t \in Tasks, Busy(t), Orderly(task[t]),
         NEW ops \in Seq(Operation), NEW next \in TaskRecord,
         next.todo = ops \o Tail(task[t].todo), Ordered(ops),
         \A a \in Range(ops), b \in Range(Tail(task[t].todo)) : Precedes(a, b),
         \A a \in Range(ops) : Closes(a, Plan(next)) /\ ~Decides(a),
         \A k \in Kinds : next.made[k] # None =>
           /\ \E b \in Plan(next) : Records(b, k)
           /\ \A b \in Plan(next) : Allows(k, b)
  PROVE  Orderly(next)
<1> DEFINE h == Head(task[t].todo)
           rest == Range(Tail(task[t].todo))
<1>1. /\ Plan(task[t]) = {h} \cup rest /\ Ordered(Tail(task[t].todo))
      /\ \A b \in rest : Precedes(h, b)
      /\ Tail(task[t].todo) \in Seq(Operation)
  BY PlanOf
<1>2. Plan(next) = Range(ops) \cup rest
  BY ThenPlan DEF Plan
<1>3. Ordered(next.todo)
  BY <1>1, JoinedOrder
<1>4. \A a \in Plan(task[t]) : Closes(a, Plan(task[t]))
  BY DEF Orderly
<1> HIDE DEF rest, h
<1>5. ASSUME NEW a \in rest
      PROVE  Closes(a, Plan(next))
  <2>1. Closes(a, {h} \cup rest)
    BY <1>1, <1>4
  <2>2. h.do = "record" => ~Posts(a)
    BY <1>1 DEF Precedes, Posts, Routine, Procedures
  <2>3. \A b \in Plan(next) : Decides(b) => b \in rest
    BY <1>2
  <2>4. \A k : Records(h, k) => h.do = "record"
    BY DEF Records
  <2> QED
    BY <1>2, <2>1, <2>2, <2>3, <2>4 DEF Closes
<1>6. \A a \in Plan(next) : Closes(a, Plan(next))
  BY <1>2, <1>5
<1> QED
  BY <1>3, <1>6 DEF Orderly

\* A message that was made is not on record: what comes next is about it.
LEMMA MadeFacts ==
  ASSUME task \in [Tasks -> TaskRecord], NEW t \in Tasks, Busy(t), Orderly(task[t])
  PROVE  LET h == Head(task[t].todo)
             rest == Range(Tail(task[t].todo))
         IN  /\ \A k \in Kinds : task[t].made[k] # None =>
                  /\ Allows(k, h) /\ \A b \in rest : Allows(k, b)
                  /\ h.do # "record" => \E b \in rest : Records(b, k)
             /\ h.do \in Procedures \cup Closing \cup {"check", "delete"} =>
                  task[t].made = Nothing
             /\ h.do = "edit" /\ h.kind \notin Listed => task[t].made = Nothing
<1> DEFINE h == Head(task[t].todo)
           rest == Range(Tail(task[t].todo))
<1>1. /\ Plan(task[t]) = {h} \cup rest /\ \A b \in rest : Precedes(h, b)
  BY PlanOf
<1>2. task[t].made \in Known
  BY DEF TaskRecord
<1> HIDE DEF h, rest
<1>3. \A k \in Kinds : task[t].made[k] # None =>
        /\ Allows(k, h) /\ \A b \in rest : Allows(k, b)
        /\ h.do # "record" => \E b \in rest : Records(b, k)
  BY <1>1 DEF Orderly, Records
<1>4. ASSUME h.do \in Procedures \cup Closing \cup {"check", "delete"}
             \/ (h.do = "edit" /\ h.kind \notin Listed)
      PROVE  task[t].made = Nothing
  <2>1. ASSUME NEW k \in Kinds, task[t].made[k] # None
        PROVE  FALSE
    <3>1. CASE h.do \in Procedures \cup Closing
      <4>1. PICK b \in rest : Records(b, k)
        BY <1>3, <2>1, <3>1 DEF Procedures, Closing
      <4>2. Routine(b)
        BY <1>1, <3>1 DEF Precedes
      <4> QED
        BY <4>1, <4>2 DEF Records, Routine, Procedures
    <3>2. CASE h.do \in {"check", "delete"}
      BY <1>3, <2>1, <3>2 DEF Allows, Records, Routine, Procedures, Posts
    <3>3. CASE h.do = "edit" /\ h.kind \notin Listed
      BY <1>3, <2>1, <3>3 DEF Allows, Records, Routine, Procedures, Posts
    <3> QED
      BY <1>4, <3>1, <3>2, <3>3
  <2> QED
    BY <1>2, <2>1 DEF Known, Nothing
<1> QED
  BY <1>3, <1>4 DEF h, rest

LEMMA RoutineRest ==
  ASSUME task \in [Tasks -> TaskRecord], NEW t \in Tasks, Busy(t), Orderly(task[t]),
         Head(task[t].todo).do \in Procedures \cup Closing
  PROVE  \A b \in Range(Tail(task[t].todo)) : Routine(b)
BY PlanOf DEF Precedes

-----------------------------------------------------------------------------
(* What the rest of a plan still relies on.                                  *)

LEMMA RoutineFits ==
  ASSUME NEW tk, NEW trk, NEW msgs, NEW r, NEW u, NEW a, Routine(a),
         AtHome(tk, a, r, u)
  PROVE  Fits(tk, a, trk, msgs, r, u)
BY DEF Fits, Remembers, Replaces, Leaves, Routine, Procedures, Decides, Recovers

\* An operation that relies on nothing.
LEMMA GentleFits ==
  ASSUME NEW tk, NEW trk, NEW msgs, NEW r, NEW u, NEW a, Gentle(a),
         a.do = "forget" => Current(tk, a.kind, trk)
  PROVE  Fits(tk, a, trk, msgs, r, u)
BY DEF Fits, Remembers, Replaces, Leaves, AtHome, Gentle, Decides, Recovers, NeedsHome, Posts

\* One operation of a plan is replaced, and another still has what it relies on.
LEMMA Inherits ==
  ASSUME NEW tk, NEW next, NEW h, NEW rest, NEW a \in rest,
         Plan(tk) = {h} \cup rest, rest \subseteq Plan(next),
         NEW trk, NEW msgs, NEW trk2, NEW msgs2, NEW r, NEW u,
         Fits(tk, a, trk, msgs, r, u),
         a.kind \in Kinds,
         h.do # "set" /\ \A b \in Plan(next) : b.do = "set" => b \in rest,
         next.route = tk.route /\ next.users = tk.users /\ (tk.failed => next.failed),
         \A k \in Kinds :
           /\ Gone(k, trk, msgs) => Gone(k, trk2, msgs2)
           /\ trk[k] = None => trk2[k] = None
           /\ Current(tk, k, trk) =>
                \/ Current(next, k, trk2)
                \/ /\ k \notin Listed /\ Gone(k, trk2, msgs2)
                   /\ k = "eta" => ~Decides(a)
           /\ Removes(h, k) /\ h.fail = "stop" /\ Current(tk, k, trk) => Gone(k, trk2, msgs2)
           /\ WillClear(tk, h, k, trk) =>
                \/ next.failed \/ \E b \in Plan(next) : WillClear(next, b, k, trk2)
                \/ k \in PlayerKinds /\ trk2[k] = None
                \/ k \notin PlayerKinds /\ Gone(k, trk2, msgs2),
         Guards(h) => ~tk.failed /\ \A b \in rest, k \in Kinds : ~WillClear(tk, b, k, trk)
  PROVE  Fits(next, a, trk2, msgs2, r, u)
<1>1. Remembers(next, a, trk2, msgs2)
  <2>1. Remembers(tk, a, trk, msgs)
    BY DEF Fits
  <2>2. Listed \subseteq Kinds
    BY DEF Listed, Lists, Range, Kinds
  <2> QED
    BY <2>1, <2>2 DEF Remembers
<1>2. Replaces(next, a, trk2, msgs2)
  <2>1. ASSUME NEW k \in Kinds, Removal(tk, k, trk, msgs)
        PROVE  Removal(next, k, trk2, msgs2)
    <3>1. CASE Gone(k, trk, msgs)
      BY <3>1 DEF Removal
    <3>2. ASSUME Current(tk, k, trk), NEW b \in Plan(tk), Removes(b, k), b.fail = "stop"
          PROVE  Gone(k, trk2, msgs2) \/ (b \in Plan(next) /\ Current(next, k, trk2))
      <4>1. CASE b = h
        BY <3>2, <4>1
      <4>2. CASE b \in rest
        BY <3>2, <4>2
      <4> QED
        BY <3>2, <4>1, <4>2
    <3> QED
      BY <2>1, <3>1, <3>2 DEF Removal
  <2>2. Replaces(tk, a, trk, msgs) /\ "notice" \in Kinds
    BY DEF Fits, Kinds
  <2> QED
    BY <2>1, <2>2 DEF Replaces
<1>3. Leaves(next, a, trk2, msgs2, r)
  <2> SUFFICES ASSUME Decides(a), NEW k \in Kinds
               PROVE  \/ Settled(next, a, k, trk2, msgs2, r)
                      \/ /\ \E b \in Plan(next) : Guards(b)
                         /\ next.failed \/ \E b \in Plan(next) : WillClear(next, b, k, trk2)
    BY DEF Leaves
  <2>1. \/ Settled(tk, a, k, trk, msgs, r)
        \/ /\ \E b \in Plan(tk) : Guards(b)
           /\ tk.failed \/ \E b \in Plan(tk) : WillClear(tk, b, k, trk)
    BY DEF Fits, Leaves
  <2>2. Settled(tk, a, k, trk, msgs, r) => Settled(next, a, k, trk2, msgs2, r)
    BY DEF Settled
  <2>3. k \in PlayerKinds /\ trk2[k] = None => Settled(next, a, k, trk2, msgs2, r)
    BY DEF Settled
  <2>4. k \notin PlayerKinds /\ Gone(k, trk2, msgs2) => Settled(next, a, k, trk2, msgs2, r)
    BY DEF Settled
  <2>5. ASSUME NEW b \in rest, WillClear(tk, b, k, trk)
        PROVE  WillClear(next, b, k, trk2) \/ Settled(next, a, k, trk2, msgs2, r)
    <3>1. CASE Clears(b, k)
      BY <3>1 DEF WillClear
    <3>2. CASE ~Clears(b, k)
      <4>1. /\ Removes(b, k) /\ b.fail = "note" /\ Current(tk, k, trk)
            /\ k \in PlayerKinds => b.do = "forget"
        BY <2>5, <3>2 DEF WillClear
      <4>2. Current(next, k, trk2) => WillClear(next, b, k, trk2)
        BY <4>1 DEF WillClear
      <4>3. k \notin Listed /\ (k = "eta" => ~Decides(a)) => k \notin PlayerKinds
        BY DEF PlayerKinds
      <4> QED
        BY <2>4, <4>1, <4>2, <4>3
    <3> QED
      BY <3>1, <3>2
  <2>6. CASE Settled(tk, a, k, trk, msgs, r)
    BY <2>2, <2>6
  <2>7. CASE Guards(h) /\ ~Settled(tk, a, k, trk, msgs, r)
    <3>1. PICK b \in Plan(tk) : WillClear(tk, b, k, trk)
      BY <2>1, <2>7
    <3>2. b = h
      BY <2>7, <3>1
    <3>3. ~WillClear(tk, h, k, trk)
      BY <2>7 DEF WillClear, Guards, Clears, Removes
    <3> QED
      BY <3>1, <3>2, <3>3
  <2>8. CASE ~Guards(h) /\ ~Settled(tk, a, k, trk, msgs, r)
    <3>1. \E b \in Plan(next) : Guards(b)
      BY <2>1, <2>8
    <3>2. CASE tk.failed
      BY <3>1, <3>2
    <3>3. ASSUME NEW b \in Plan(tk), WillClear(tk, b, k, trk)
          PROVE  \/ Settled(next, a, k, trk2, msgs2, r) \/ next.failed
                 \/ \E d \in Plan(next) : WillClear(next, d, k, trk2)
      <4>1. CASE b \in rest
        BY <2>5, <3>3, <4>1
      <4>2. CASE b = h
        BY <2>3, <2>4, <3>3, <4>2
      <4> QED
        BY <3>3, <4>1, <4>2
    <3> QED
      BY <2>1, <2>8, <3>1, <3>2, <3>3
  <2> QED
    BY <2>6, <2>7, <2>8
<1>4. AtHome(next, a, r, u)
  <2>1. (\E b \in Plan(next) : b.do = "set") <=> \E b \in Plan(tk) : b.do = "set"
    OBVIOUS
  <2> QED
    BY <2>1 DEF Fits, AtHome
<1> QED
  BY <1>1, <1>2, <1>3, <1>4 DEF Fits

\* The same, where the step changes nothing else.
LEMMA InheritsHere ==
  ASSUME NEW tk, NEW next, NEW h, NEW rest, NEW a \in rest,
         Plan(tk) = {h} \cup rest, rest \subseteq Plan(next),
         NEW trk, NEW msgs, NEW r, NEW u, Fits(tk, a, trk, msgs, r, u), a.kind \in Kinds,
         h.do # "set", \A b \in Plan(next) : b.do = "set" => b \in rest,
         next.route = tk.route, next.users = tk.users, tk.failed => next.failed,
         \A k \in Kinds : Current(tk, k, trk) => Current(next, k, trk),
         \A k \in Kinds : Removes(h, k) => h.fail # "stop",
         \A k \in Kinds : WillClear(tk, h, k, trk) =>
           \/ next.failed \/ \E b \in Plan(next) : WillClear(next, b, k, trk)
           \/ k \in PlayerKinds /\ trk[k] = None,
         Guards(h) => ~tk.failed /\ \A b \in rest, k \in Kinds : ~WillClear(tk, b, k, trk)
  PROVE  Fits(next, a, trk, msgs, r, u)
<1>1. \A k \in Kinds :
        /\ Gone(k, trk, msgs) => Gone(k, trk, msgs)
        /\ trk[k] = None => trk[k] = None
        /\ Current(tk, k, trk) =>
             \/ Current(next, k, trk)
             \/ /\ k \notin Listed /\ Gone(k, trk, msgs)
                /\ k = "eta" => ~Decides(a)
        /\ Removes(h, k) /\ h.fail = "stop" /\ Current(tk, k, trk) => Gone(k, trk, msgs)
        /\ WillClear(tk, h, k, trk) =>
             \/ next.failed \/ \E b \in Plan(next) : WillClear(next, b, k, trk)
             \/ k \in PlayerKinds /\ trk[k] = None
             \/ k \notin PlayerKinds /\ Gone(k, trk, msgs)
  OBVIOUS
<1>2. h.do # "set" /\ \A b \in Plan(next) : b.do = "set" => b \in rest
  OBVIOUS
<1>3. next.route = tk.route /\ next.users = tk.users /\ (tk.failed => next.failed)
  OBVIOUS
<1> QED
  BY <1>1, <1>2, <1>3, Inherits

-----------------------------------------------------------------------------
(* A task and its next plan.                                                 *)

Displays(tk) == \E a \in Plan(tk) : a.do = "display"

LEMMA FreeKept ==
  ASSUME NEW trk, NEW msgs, NEW r, NEW u
  PROVE  Orderly(Free) /\ Faithful(Free, trk, msgs, r, u) /\ Plan(Free) = {}
<1>1. Plan(Free) = {} /\ Ordered(Free.todo) /\ \A k \in Kinds : Free.made[k] = None
  BY FreeFields, RangeFacts DEF Plan
<1> QED
  BY <1>1 DEF Orderly, Faithful, Held

\* A procedure that is over leaves procedures only.
LEMMA OverKept ==
  ASSUME task \in [Tasks -> TaskRecord], NEW t \in Tasks, NEW c \in Seq(Operation),
         Ordered(c), \A a \in Range(c) : Routine(a),
         NEW trk, NEW msgs, NEW r, NEW u
  PROVE  /\ Orderly(Over(t, c)) /\ Plan(Over(t, c)) = Range(c)
         /\ Displays(Over(t, c)) => Over(t, c).route = task[t].route
         /\ ((\E a \in Range(c) : a.do = "display") => u /\ task[t].route = r)
              => Faithful(Over(t, c), trk, msgs, r, u)
<1>1. /\ Over(t, c).todo = c /\ Over(t, c).made = Nothing
      /\ c = <<>> => Over(t, c) = Free
  BY OverFields
<1>2. \A k \in Kinds : Over(t, c).made[k] = None
  BY <1>1, FreeFields
<1>3. Plan(Over(t, c)) = Range(c)
  BY <1>1 DEF Plan
<1>4. \A a : Routine(a) => ~Posts(a) /\ a.do \notin {"record", "delete", "set"}
  BY DEF Routine, Procedures, Posts
<1>5. Orderly(Over(t, c))
  BY <1>1, <1>2, <1>3, <1>4 DEF Orderly, Closes
<1>6. c # <<>> => Over(t, c).route = task[t].route
  <2> SUFFICES ASSUME c # <<>>
               PROVE  Over(t, c).route = task[t].route
    OBVIOUS
  <2>1. Over(t, c) = [Free EXCEPT !.todo = c, !.route = task[t].route, !.users = task[t].users]
    BY DEF Over
  <2> QED
    BY <2>1, FreeFields DEF TaskRecord
<1>7. Range(c) # {} => c # <<>>
  BY RangeFacts
<1>8. Displays(Over(t, c)) => Over(t, c).route = task[t].route
  BY <1>3, <1>6, <1>7 DEF Displays
<1>9. ASSUME (\E a \in Range(c) : a.do = "display") => u /\ task[t].route = r
      PROVE  Faithful(Over(t, c), trk, msgs, r, u)
  <2>1. ASSUME NEW a \in Range(c)
        PROVE  AtHome(Over(t, c), a, r, u)
    <3>1. NeedsHome(a) => a.do = "display"
      BY <1>4 DEF NeedsHome, Routine, Procedures
    <3>2. ~\E b \in Plan(Over(t, c)) : b.do = "set"
      BY <1>3, <1>4
    <3> QED
      BY <1>6, <1>7, <1>9, <3>1, <3>2 DEF AtHome
  <2> QED
    BY <1>2, <1>3, <2>1, RoutineFits DEF Faithful, Held
<1> QED
  BY <1>3, <1>5, <1>8, <1>9

\* Where a task lands that goes to a plan in order.
LEMMA Lands ==
  ASSUME task \in [Tasks -> TaskRecord], NEW t \in Tasks, NEW next \in TaskRecord,
         Goes(t, next), Orderly(next), NEW trk, NEW msgs, NEW r, NEW u
  PROVE  /\ task' \in [Tasks -> TaskRecord] /\ \A v \in Tasks : v # t => task'[v] = task[v]
         /\ Orderly(task'[t]) /\ task'[t].made = next.made
         /\ Faithful(next, trk, msgs, r, u)
            /\ (Displays(next) => next.route = task[t].route)
              => Faithful(task'[t], trk, msgs, r, u)
<1>0. next.todo \in Seq(Operation) /\ next.made \in Known
  BY DEF TaskRecord
<1>1. CASE next.todo = <<>>
  <2>1. task' = [task EXCEPT ![t] = Free]
    BY <1>1 DEF Goes
  <2>2. Plan(next) = {}
    BY <1>1, RangeFacts DEF Plan
  <2>3. next.made = Nothing
    BY <1>0, <2>2 DEF Orderly, Known, Nothing
  <2> QED
    BY <2>1, <2>3, FreeFields, FreeKept
<1>2. CASE next.todo # <<>> /\ Head(next.todo) = End
  <2> DEFINE c == Tail(next.todo)
  <2>1. task' = [task EXCEPT ![t] = Over(t, c)]
    BY <1>2 DEF Goes
  <2>2. /\ c \in Seq(Operation) /\ Ordered(c) /\ \A b \in Range(c) : Precedes(End, b)
        /\ Plan(next) = {End} \cup Range(c)
    BY <1>0, <1>2, TailOrder, RangeFacts DEF Orderly, Plan
  <2> HIDE DEF c
  <2>3. \A b \in Range(c) : Routine(b)
    BY <2>2, Operations DEF Precedes, Procedures
  <2>4. \A b \in Plan(next) : b.do \in Procedures
    BY <2>2, <2>3, Operations DEF Routine, Procedures
  <2>5. \A b \in Plan(next), k \in Kinds : ~Records(b, k) /\ b.do # "set"
    BY <2>4 DEF Records, Procedures
  <2>6. next.made = Nothing
    BY <1>0, <2>5 DEF Orderly, Known, Nothing
  <2>7. Over(t, c) \in TaskRecord /\ Over(t, c).made = Nothing
    BY <2>2, OverFields
  <2>8. ASSUME Faithful(next, trk, msgs, r, u), Displays(next) => next.route = task[t].route
        PROVE  Faithful(Over(t, c), trk, msgs, r, u)
    <3>1. ASSUME NEW a \in Range(c), a.do = "display"
          PROVE  u /\ task[t].route = r
      <4>1. AtHome(next, a, r, u)
        BY <2>2, <2>8, <3>1 DEF Faithful, Fits
      <4>2. u /\ next.route = r
        BY <2>5, <3>1, <4>1 DEF AtHome, NeedsHome, Kinds
      <4> QED
        BY <2>2, <2>8, <3>1, <4>2 DEF Displays
    <3> QED
      BY <2>2, <2>3, <3>1, OverKept
  <2>9. Orderly(Over(t, c))
    BY <2>2, <2>3, OverKept
  <2> QED
    BY <2>1, <2>6, <2>7, <2>8, <2>9
<1>3. CASE next.todo # <<>> /\ Head(next.todo) # End
  <2>1. task' = [task EXCEPT ![t] = next]
    BY <1>3 DEF Goes
  <2> QED
    BY <2>1
<1> QED
  BY <1>1, <1>2, <1>3

\* The plan after a procedure that stopped.
LEMMA StoppedKept ==
  ASSUME task \in [Tasks -> TaskRecord], NEW t \in Tasks, Orderly(task[t]),
         NEW trk, NEW msgs, NEW r, NEW u
  PROVE  /\ Stopped(t) \in TaskRecord /\ Orderly(Stopped(t)) /\ Stopped(t).made = Nothing
         /\ Displays(Stopped(t)) => Stopped(t).route = task[t].route
         /\ Plan(Stopped(t)) \subseteq Plan(task[t])
         /\ Faithful(task[t], trk, msgs, r, u) => Faithful(Stopped(t), trk, msgs, r, u)
<1> DEFINE todo == task[t].todo
           ends == {i \in DOMAIN todo : todo[i] = End}
<1>0. todo \in Seq(Operation) /\ Ordered(todo)
  BY DEF TaskRecord, Orderly
<1>1. CASE ends = {}
  <2>1. Stopped(t) = Free
    BY <1>1 DEF Stopped
  <2>2. ~Displays(Free)
    BY FreeKept DEF Displays
  <2> QED
    BY <2>1, <2>2, FreeKept, FreeFields
<1>2. CASE ends # {}
  <2> DEFINE e == CHOOSE i \in ends : \A j \in ends : i <= j
             c == SubSeq(todo, 1 + e, Len(todo))
  <2>1. ends \in SUBSET Nat
    BY <1>0, Sequence
  <2>2. e \in ends
    <3> HIDE DEF ends
    <3>1. \E i \in ends : \A j \in ends : i <= j
      BY <1>2, <2>1, Minimum
    <3> QED
      BY <3>1
  <2>3. Stopped(t) = Over(t, c)
    BY <1>2 DEF Stopped
  <2> HIDE DEF e
  <2>4. e \in DOMAIN todo /\ todo[e] = End
    BY <2>2
  <2> HIDE DEF ends, todo
  <2>5. /\ c \in Seq(Operation) /\ Ordered(c) /\ Range(c) \subseteq Range(todo)
        /\ \A b \in Range(c) : Precedes(End, b)
    BY <1>0, <2>4, CutOrder
  <2> HIDE DEF c
  <2>6. \A b \in Range(c) : Routine(b)
    BY <2>5, Operations DEF Precedes, Procedures
  <2>7. \A b \in Range(todo) : b.do # "set"
    <3> SUFFICES ASSUME NEW i \in DOMAIN todo, todo[i].do = "set"
                 PROVE  FALSE
      BY DEF Range
    <3>1. End.do = "end" /\ i # e
      BY <2>4, Operations
    <3>2. i \in Nat /\ e \in Nat
      BY <1>0, <2>4, Sequence
    <3>3. CASE i < e
      BY <1>0, <2>4, <3>1, <3>3 DEF Ordered, Precedes
    <3>4. CASE e < i
      BY <1>0, <2>4, <3>1, <3>4 DEF Ordered, Precedes, Routine, Procedures
    <3> QED
      BY <3>1, <3>2, <3>3, <3>4
  <2>8. ASSUME Faithful(task[t], trk, msgs, r, u), NEW a \in Range(c), a.do = "display"
        PROVE  u /\ task[t].route = r
    <3>1. AtHome(task[t], a, r, u) /\ Plan(task[t]) = Range(todo)
      BY <2>5, <2>8 DEF Faithful, Fits, Plan, todo
    <3> QED
      BY <2>7, <2>8, <3>1 DEF AtHome, NeedsHome
  <2>9. /\ Over(t, c) \in TaskRecord /\ Over(t, c).made = Nothing /\ Orderly(Over(t, c))
        /\ Displays(Over(t, c)) => Over(t, c).route = task[t].route
        /\ Plan(Over(t, c)) = Range(c) /\ Plan(task[t]) = Range(todo)
        /\ ((\E a \in Range(c) : a.do = "display") => u /\ task[t].route = r)
             => Faithful(Over(t, c), trk, msgs, r, u)
    BY <2>5, <2>6, OverFields, OverKept DEF Plan, todo
  <2> QED
    BY <2>3, <2>5, <2>8, <2>9
<1> QED
  BY <1>1, <1>2

\* While nothing may explain it otherwise, a task that is busy is alone with its messages.
LEMMA Alone ==
  ASSUME NoticesInv, KeptInv, excuses = {}, NEW t \in Tasks, Busy(t)
  PROVE  /\ Kept /\ Faithful(task[t], tracked, live, route, users)
         /\ \A v \in Tasks : v # t => task[v] = Free
         /\ \A k \in Kinds : \A m \in live[k] : m = tracked[k] \/ m = task[t].made[k]
         /\ \A k \in Kinds : None \notin live[k]
<1>1. Kept /\ Undisturbed /\ TypesHold
  BY DEF KeptInv, NoticesInv
<1>2. \A v \in Tasks : v # t => task[v] = Free
  BY <1>1 DEF Undisturbed, Busy, Tasks, NoticesInv, Steady
<1>3. \A k \in Kinds : None \notin live[k]
  BY <1>1, TypeFacts, FreeFields
<1>4. ASSUME NEW k \in Kinds, NEW m \in live[k]
      PROVE  m = tracked[k] \/ m = task[t].made[k]
  <2>1. CASE m = tracked[k]
    BY <2>1
  <2>2. ASSUME NEW v \in Tasks, m = task[v].made[k]
        PROVE  m = task[t].made[k]
    <3>1. v # t => task[v].made[k] = None
      BY <1>2, FreeFields
    <3> QED
      BY <1>3, <2>2, <3>1
  <2> QED
    BY <1>1, <2>1, <2>2 DEF Kept, Accounted, MadeBy
<1> QED
  BY <1>1, <1>2, <1>3, <1>4 DEF Kept

\* A step of a task that leaves Discord with these messages.
LEMMA Keeping ==
  ASSUME NoticesInv, KeptInv, NEW t \in Tasks, Busy(t),
         NEW next \in TaskRecord, Goes(t, next), Orderly(next),
         NEW messages \in [Kinds -> SUBSET Message], Discord(messages),
         excuses \subseteq excuses',
         excuses' = {} =>
           /\ Displays(next) => next.route = task[t].route
           /\ Home(tracked', route', users')
           /\ Faithful(next, tracked', messages, route', users')
           /\ \A k \in Kinds : \A m \in messages[k] : m = tracked'[k] \/ m = next.made[k]
  PROVE  KeptInv'
<1>1. task \in [Tasks -> TaskRecord]
  BY TypeFacts DEF NoticesInv
<1>2. /\ \A v \in Tasks : v # t => task'[v] = task[v]
      /\ Orderly(task'[t]) /\ task'[t].made = next.made
  BY <1>1, Lands
<1>3. \A v \in Tasks : Orderly(task'[v])
  BY <1>2 DEF KeptInv
<1>4. ASSUME excuses' = {}
      PROVE  Kept'
  <2>1. excuses = {} /\ Kept /\ \A v \in Tasks : v # t => task[v] = Free
    BY <1>4, Alone
  <2>2. Faithful(task'[t], tracked', messages, route', users')
    BY <1>1, <1>4, Lands
  <2>3. \A v \in Tasks : Faithful(task'[v], tracked', messages, route', users')
    BY <1>2, <2>1, <2>2, FreeKept
  <2>4. \A k \in Kinds : messages[k] \subseteq Referred(k, tracked', task')
    BY <1>2, <1>4 DEF Referred
  <2>5. live' = messages
    <3>1. live' = [k \in Kinds |-> messages[k] \cap Referred(k, tracked', task')]
      BY DEF Discord
    <3>2. \A k \in Kinds : messages[k] \cap Referred(k, tracked', task') = messages[k]
      BY <2>4
    <3> QED
      BY <3>1, <3>2
  <2>6. ~abandoned'
    BY <2>1, <2>5 DEF Discord, Kept
  <2>7. Accounted(messages, tracked', MadeBy(task'))
    BY <1>2, <1>4 DEF Accounted, MadeBy
  <2> QED
    BY <1>4, <2>3, <2>5, <2>6, <2>7 DEF Kept
<1> QED
  BY <1>3, <1>4 DEF KeptInv

\* A task gives up a procedure, or all it does, with nothing that is not on record.
LEMMA GivingUp ==
  ASSUME NoticesInv, KeptInv, NEW t \in Tasks, Busy(t),
         NEW next \in {Stopped(t), Free}, Goes(t, next), Discord(live),
         UNCHANGED <<tracked, config>>, excuses \subseteq excuses',
         excuses' = {} => \A k \in Kinds : task[t].made[k] \in {None, tracked[k]}
  PROVE  KeptInv'
<1>1. task \in [Tasks -> TaskRecord] /\ live \in [Kinds -> SUBSET Message]
      /\ Orderly(task[t])
  BY TypeFacts DEF NoticesInv, KeptInv
<1>2. /\ next \in TaskRecord /\ Orderly(next)
      /\ Displays(next) => next.route = task[t].route
  BY <1>1, StoppedKept, FreeKept, FreeFields DEF Displays
<1>3. ASSUME excuses' = {}
      PROVE  /\ Home(tracked', route', users')
             /\ Faithful(next, tracked', live, route', users')
             /\ \A k \in Kinds : \A m \in live[k] : m = tracked'[k] \/ m = next.made[k]
  <2>1. /\ Kept /\ Faithful(task[t], tracked, live, route, users)
        /\ \A k \in Kinds : \A m \in live[k] : m = tracked[k] \/ m = task[t].made[k]
        /\ \A k \in Kinds : None \notin live[k]
    BY <1>3, Alone
  <2>2. Faithful(next, tracked, live, route, users)
    BY <1>1, <2>1, StoppedKept, FreeKept
  <2> QED
    BY <1>3, <2>1, <2>2 DEF Kept, config
<1> QED
  BY <1>1, <1>2, <1>3, Keeping

\* A step of a task that changes neither what is in Discord nor what is on record.
LEMMA Thinking ==
  ASSUME NoticesInv, KeptInv, NEW t \in Tasks, Busy(t),
         NEW next \in TaskRecord, Goes(t, next), Orderly(next), Discord(live),
         UNCHANGED <<tracked, config>>, excuses \subseteq excuses',
         excuses' = {} =>
           /\ Displays(next) => next.route = task[t].route
           /\ Faithful(next, tracked, live, route, users)
           /\ \A k \in Kinds : \/ next.made[k] = task[t].made[k]
                               \/ task[t].made[k] \in {None, tracked[k]}
  PROVE  KeptInv'
<1>1. live \in [Kinds -> SUBSET Message]
  BY TypeFacts DEF NoticesInv
<1>2. ASSUME excuses' = {}
      PROVE  /\ Home(tracked', route', users')
             /\ Faithful(next, tracked', live, route', users')
             /\ \A k \in Kinds : \A m \in live[k] : m = tracked'[k] \/ m = next.made[k]
  <2>1. /\ Kept
        /\ \A k \in Kinds : \A m \in live[k] : m = tracked[k] \/ m = task[t].made[k]
        /\ \A k \in Kinds : None \notin live[k]
    BY <1>2, Alone
  <2> QED
    BY <1>2, <2>1 DEF Kept, config
<1> QED
  BY <1>1, <1>2, Keeping

\* The task goes on with what it planned and what it looked up.
Found(t, ops, kinds) == [Then(t, ops) EXCEPT !.old = Reads(t, kinds)]

\* What a task knows that has looked at the database.
LEMMA Reading ==
  ASSUME TypesHold, NEW t \in Tasks, Busy(t), NEW ops \in Seq(Operation),
         NEW kinds \in SUBSET Kinds
  PROVE  LET next == Found(t, ops, kinds)
         IN  /\ next \in TaskRecord /\ next.todo = ops \o Tail(task[t].todo)
             /\ next.route = task[t].route /\ next.users = task[t].users
             /\ next.made = task[t].made /\ next.failed = task[t].failed
             /\ next.old = Reads(t, kinds)
             /\ Plan(next) = Range(ops) \cup Range(Tail(task[t].todo))
<1>1. task \in [Tasks -> TaskRecord] /\ Reads(t, kinds) \in Known
  BY TypeFacts, ReadsType
<1> DEFINE then == Then(t, ops)
           next == Found(t, ops, kinds)
<1>2. /\ then \in TaskRecord /\ then.todo = ops \o Tail(task[t].todo)
      /\ then.route = task[t].route /\ then.users = task[t].users
      /\ then.made = task[t].made /\ then.failed = task[t].failed
  BY <1>1, ThenFields
<1>n. next = [then EXCEPT !.old = Reads(t, kinds)]
  BY DEF Found
<1> HIDE DEF then, next
<1>3. /\ next \in TaskRecord /\ next.todo = then.todo
      /\ next.route = then.route /\ next.users = then.users
      /\ next.made = then.made /\ next.failed = then.failed
      /\ next.old = Reads(t, kinds)
  BY <1>1, <1>2, <1>n DEF TaskRecord
<1>4. Plan(next) = Range(ops) \cup Range(Tail(task[t].todo))
  BY <1>1, <1>2, <1>3, ThenPlan DEF Plan
<1> QED
  BY <1>2, <1>3, <1>4 DEF then, next

LEMMA ReadKinds ==
  ASSUME NEW t \in Tasks, NEW kinds
  PROVE  \A k \in Kinds : Reads(t, kinds)[k] = IF k \in kinds THEN tracked[k]
                                              ELSE task[t].old[k]
BY DEF Reads

\* Held messages stay so.
LEMMA StaysHeld ==
  ASSUME NEW tk, NEW next, NEW k \in Kinds, NEW trk, NEW msgs, NEW r,
         Held(tk, k, trk, msgs, r), next.made[k] = tk.made[k],
         k \in Listed => next.old[k] \in {tk.old[k], trk[k]}
  PROVE  Held(next, k, trk, msgs, r)
BY DEF Held

\* An operation looks up what it clears, and plans to forget what is on record.
ForgetsAll(t, do, kinds, ops) ==
  /\ Look(t, do, kinds, ops)
  /\ \A op \in Operation, k \in Kinds : op.do = do /\ Clears(op, k) => k \in kinds
  /\ \A a \in Range(ops) : a.do = "forget" /\ a.fail = "note" /\ a.kind \in kinds
  /\ \A k \in kinds : tracked[k] # None => \E a \in Range(ops) : a.kind = k

\* Stored messages are looked up, and each of them is to be forgotten.
LEMMA Forgetting ==
  ASSUME NoticesInv, KeptInv, NEW t \in Tasks,
         NEW do \in {"clear eta", "clear lists"}, NEW kinds \in SUBSET PlayerKinds,
         NEW ops \in Seq(Operation), ForgetsAll(t, do, kinds, ops)
  PROVE  KeptInv'
<1> DEFINE h == Head(task[t].todo)
           rest == Range(Tail(task[t].todo))
           next == Found(t, ops, kinds)
<1>0. /\ Look(t, do, kinds, ops)
      /\ \A op \in Operation, k \in Kinds : op.do = do /\ Clears(op, k) => k \in kinds
      /\ \A a \in Range(ops) : a.do = "forget" /\ a.fail = "note" /\ a.kind \in kinds
      /\ \A k \in kinds : tracked[k] # None => \E a \in Range(ops) : a.kind = k
  BY DEF ForgetsAll
<1>1. /\ task \in [Tasks -> TaskRecord] /\ TypesHold /\ Orderly(task[t])
      /\ kinds \in SUBSET Kinds
  BY TypeFacts, SomeKinds DEF NoticesInv, KeptInv
<1>2. /\ Busy(t) /\ h.do = do /\ Goes(t, next) /\ Discord(live)
      /\ UNCHANGED <<tracked, config, excuses>>
  BY <1>0 DEF Look, Doing, OnlyThinks, Found
<1>3. /\ next \in TaskRecord /\ next.todo = ops \o Tail(task[t].todo)
      /\ next.route = task[t].route /\ next.users = task[t].users
      /\ next.made = task[t].made /\ next.failed = task[t].failed
      /\ next.old = Reads(t, kinds) /\ Plan(next) = Range(ops) \cup rest
  <2>1. TypesHold /\ Busy(t) /\ kinds \in SUBSET Kinds
    BY <1>1, <1>2
  <2> QED
    BY <2>1, Reading
<1>4. /\ h \in Operation /\ rest \subseteq Operation /\ Plan(task[t]) = {h} \cup rest
      /\ \A b \in rest : Precedes(h, b)
  BY <1>1, <1>2, PlanOf
<1>5. \A k \in Kinds : Reads(t, kinds)[k] = IF k \in kinds THEN tracked[k]
                                           ELSE task[t].old[k]
  BY DEF Reads
<1>6. /\ \A k \in Kinds : task[t].made[k] # None =>
           /\ Allows(k, h) /\ \A b \in rest : Allows(k, b)
           /\ h.do # "record" => \E b \in rest : Records(b, k)
  BY <1>1, <1>2, MadeFacts
<1>7. \A a \in Range(ops) : Gentle(a) /\ ~Decides(a) /\ ~Posts(a) /\ a.do = "forget"
  BY <1>0 DEF Gentle, Decides, Posts
<1> HIDE DEF h, rest, next
<1>8. Orderly(next)
  <2>1. Ordered(ops) /\ \A a \in Range(ops), b \in rest : Precedes(a, b)
    BY <1>7, GentlePlan, GentleFirst
  <2>2. \A a \in Range(ops) : Closes(a, Plan(next)) /\ ~Decides(a)
    BY <1>7 DEF Closes
  <2>3. ASSUME NEW k \in Kinds, next.made[k] # None
        PROVE  /\ \E b \in Plan(next) : Records(b, k)
               /\ \A b \in Plan(next) : Allows(k, b)
    <3>1. /\ Allows(k, h) /\ \A b \in rest : Allows(k, b)
          /\ \E b \in rest : Records(b, k)
      BY <1>2, <1>3, <1>6, <2>3
    <3>2. k = "status"
      BY <1>2, <3>1 DEF Allows, Records, Routine, Procedures, Posts
    <3>3. \A a \in Range(ops) : Allows(k, a)
      BY <1>0, <1>7, <3>2 DEF Allows
    <3> QED
      BY <1>3, <3>1, <3>3
  <2> QED
    BY <1>1, <1>2, <1>3, <2>1, <2>2, <2>3, Reorders DEF rest
<1>9. ASSUME excuses' = {}
      PROVE  Faithful(next, tracked, live, route, users)
  <2>1. Faithful(task[t], tracked, live, route, users)
    BY <1>2, <1>9, Alone
  <2>2. ASSUME NEW a \in Range(ops)
        PROVE  Fits(next, a, tracked, live, route, users)
    <3>1. Current(next, a.kind, tracked)
      BY <1>0, <1>1, <1>3, <1>5, <2>2 DEF Current
    <3> QED
      BY <1>7, <2>2, <3>1, GentleFits
  <2>3. ASSUME NEW a \in rest
        PROVE  Fits(next, a, tracked, live, route, users)
    <3>1. Fits(task[t], a, tracked, live, route, users) /\ a.kind \in Kinds
      BY <1>4, <2>1, <2>3 DEF Faithful, Operation
    <3>2. h.do # "set" /\ ~Guards(h) /\ \A b \in Plan(next) : b.do = "set" => b \in rest
      BY <1>2, <1>3, <1>7 DEF Guards
    <3>3. ASSUME NEW k \in Kinds
          PROVE  /\ Current(task[t], k, tracked) => Current(next, k, tracked)
                 /\ ~Removes(h, k)
                 /\ WillClear(task[t], h, k, tracked) =>
                      \/ \E b \in Plan(next) : WillClear(next, b, k, tracked)
                      \/ k \in PlayerKinds /\ tracked[k] = None
      <4>1. Current(task[t], k, tracked) => Current(next, k, tracked)
        BY <1>3, <1>5 DEF Current
      <4>2. ~Removes(h, k)
        BY <1>2 DEF Removes
      <4>3. ASSUME WillClear(task[t], h, k, tracked), tracked[k] # None
            PROVE  \E b \in Plan(next) : WillClear(next, b, k, tracked)
        <5>1. k \in kinds
          BY <1>0, <1>2, <1>4, <4>2, <4>3 DEF WillClear
        <5>2. PICK b \in Range(ops) : b.kind = k /\ b.do = "forget" /\ b.fail = "note"
          BY <1>0, <4>3, <5>1
        <5>3. Current(next, k, tracked)
          BY <1>3, <1>5, <5>1 DEF Current
        <5> QED
          BY <1>3, <5>2, <5>3 DEF WillClear, Removes
      <4>4. WillClear(task[t], h, k, tracked) => k \in PlayerKinds
        BY <1>0, <1>2, <1>4, <4>2 DEF WillClear
      <4> QED
        BY <4>1, <4>2, <4>3, <4>4
    <3>4. /\ \A k \in Kinds : Current(task[t], k, tracked) => Current(next, k, tracked)
          /\ \A k \in Kinds : Removes(h, k) => h.fail # "stop"
          /\ \A k \in Kinds : WillClear(task[t], h, k, tracked) =>
               \/ next.failed \/ \E b \in Plan(next) : WillClear(next, b, k, tracked)
               \/ k \in PlayerKinds /\ tracked[k] = None
      BY <3>3
    <3>5. /\ Plan(task[t]) = {h} \cup rest /\ rest \subseteq Plan(next)
          /\ next.route = task[t].route /\ next.users = task[t].users
          /\ task[t].failed => next.failed
      BY <1>3, <1>4
    <3>6. Guards(h) => ~task[t].failed
                       /\ \A b \in rest, k \in Kinds : ~WillClear(task[t], b, k, tracked)
      BY <3>2
    <3> QED
      BY <3>1, <3>2, <3>4, <3>5, <3>6, InheritsHere
  <2>4. ASSUME NEW k \in Kinds
        PROVE  Held(next, k, tracked, live, route)
    BY <1>3, <1>5, <2>1, StaysHeld DEF Faithful
  <2> QED
    BY <1>3, <2>2, <2>3, <2>4 DEF Faithful
<1> QED
  BY <1>2, <1>3, <1>8, <1>9, Thinking

\* What is cleared is what the database has of the list of players.
LEMMA ClearPlan ==
  ASSUME NEW t \in Tasks, Clear(t)
  PROVE  \E do \in {"clear eta", "clear lists"}, kinds \in SUBSET PlayerKinds,
            ops \in Seq(Operation) :
           ForgetsAll(t, do, kinds, ops)
<1> DEFINE eta == Op("forget", "eta", "note")
           one == Op("forget", "list1", "note")
           two == Op("forget", "list2", "note")
<1>1. /\ eta \in Operation /\ eta.do = "forget" /\ eta.kind = "eta" /\ eta.fail = "note"
      /\ one \in Operation /\ one.do = "forget" /\ one.kind = "list1" /\ one.fail = "note"
      /\ two \in Operation /\ two.do = "forget" /\ two.kind = "list2" /\ two.fail = "note"
  BY DEF Op, Operation, Deeds, Kinds, Fates
<1>2. /\ IfAny("eta", "forget", "note") = IF tracked["eta"] = None THEN <<>> ELSE <<eta>>
      /\ IfAny("list1", "forget", "note") = IF tracked["list1"] = None THEN <<>> ELSE <<one>>
      /\ IfAny("list2", "forget", "note") = IF tracked["list2"] = None THEN <<>> ELSE <<two>>
  BY DEF IfAny
<1> HIDE DEF eta, one, two
<1>3. ASSUME NEW op \in Operation
      PROVE  LET s(k) == IF tracked[k] = None THEN <<>> ELSE <<op>>
             IN  \A k \in Kinds : /\ s(k) \in Seq(Operation) /\ Range(s(k)) \subseteq {op}
                                  /\ tracked[k] # None => Range(s(k)) = {op}
  <2>1. <<>> \in Seq(Operation) /\ Range(<<>>) = {}
    BY RangeFacts, EmptySeq
  <2>2. <<op>> \in Seq(Operation) /\ Range(<<op>>) = {op}
    BY OneOperation
  <2> QED
    BY <2>1, <2>2
<1> DEFINE e == IfAny("eta", "forget", "note")
           l1 == IfAny("list1", "forget", "note")
           l2 == IfAny("list2", "forget", "note")
<1>4. "eta" \in Kinds /\ "list1" \in Kinds /\ "list2" \in Kinds
  BY DEF Kinds
<1>5. /\ e \in Seq(Operation) /\ Range(e) \subseteq {eta}
      /\ tracked["eta"] # None => Range(e) = {eta}
      /\ l1 \in Seq(Operation) /\ Range(l1) \subseteq {one}
      /\ tracked["list1"] # None => Range(l1) = {one}
      /\ l2 \in Seq(Operation) /\ Range(l2) \subseteq {two}
      /\ tracked["list2"] # None => Range(l2) = {two}
  BY <1>1, <1>2, <1>3, <1>4
<1>6. CASE Look(t, "clear eta", {"eta"}, IfAny("eta", "forget", "note"))
  <2>1. Look(t, "clear eta", {"eta"}, e)
    BY <1>6
  <2> HIDE DEF e
  <2>2. \A op \in Operation, k \in Kinds : op.do = "clear eta" /\ Clears(op, k) => k \in {"eta"}
    BY DEF Clears
  <2>3. {"eta"} \in SUBSET PlayerKinds
    BY SomeKinds
  <2>4. /\ \A a \in Range(e) : a.do = "forget" /\ a.fail = "note" /\ a.kind \in {"eta"}
        /\ \A k \in {"eta"} : tracked[k] # None => \E a \in Range(e) : a.kind = k
    BY <1>1, <1>5
  <2> QED
    BY <1>5, <2>1, <2>2, <2>3, <2>4 DEF ForgetsAll
<1>7. CASE Look(t, "clear lists", Listed,
                IfAny("list1", "forget", "note") \o IfAny("list2", "forget", "note"))
  <2> DEFINE ops == l1 \o l2
  <2>1. Look(t, "clear lists", Listed, ops)
    BY <1>7
  <2> HIDE DEF l1, l2
  <2>2. ops \in Seq(Operation) /\ Range(ops) = Range(l1) \cup Range(l2)
    BY <1>5, JoinedOrder
  <2> HIDE DEF ops
  <2>3. \A op \in Operation, k \in Kinds : op.do = "clear lists" /\ Clears(op, k) => k \in Listed
    BY DEF Clears
  <2>4. Listed \in SUBSET PlayerKinds
    BY SomeKinds
  <2>5. /\ \A a \in Range(ops) : a.do = "forget" /\ a.fail = "note" /\ a.kind \in Listed
        /\ \A k \in Listed : tracked[k] # None => \E a \in Range(ops) : a.kind = k
    BY <1>1, <1>5, <2>2, SomeKinds
  <2> QED
    BY <2>1, <2>2, <2>3, <2>4, <2>5 DEF ForgetsAll
<1> QED
  BY <1>6, <1>7 DEF Clear

LEMMA ClearKept ==
  ASSUME NoticesInv, KeptInv, NEW t \in Tasks, Clear(t)
  PROVE  KeptInv'
<1>1. PICK do \in {"clear eta", "clear lists"}, kinds \in SUBSET PlayerKinds,
           ops \in Seq(Operation) :
        ForgetsAll(t, do, kinds, ops)
  BY ClearPlan
<1> QED
  BY <1>1, Forgetting

\* An operation of the plan is over, or failed without consequence.
LEMMA Dropping ==
  ASSUME NoticesInv, KeptInv, NEW t \in Tasks, Busy(t),
         NEW next \in {Then(t, <<>>), [Then(t, <<>>) EXCEPT !.failed = TRUE]},
         Goes(t, next), Discord(live), UNCHANGED <<tracked, config>>,
         excuses \subseteq excuses',
         Head(task[t].todo).do \in {"check", "delete", "forget", "edit", "send"},
         \A k \in Kinds : Removes(Head(task[t].todo), k) =>
           Head(task[t].todo).fail # "stop" /\ (Head(task[t].todo).fail = "note" => next.failed),
         Guards(Head(task[t].todo)) => ~task[t].failed
  PROVE  KeptInv'
<1> DEFINE h == Head(task[t].todo)
           rest == Range(Tail(task[t].todo))
           then == Then(t, <<>>)
<1>1. task \in [Tasks -> TaskRecord] /\ TypesHold /\ Orderly(task[t])
  BY TypeFacts DEF NoticesInv, KeptInv
<1>2. <<>> \in Seq(Operation) /\ Range(<<>>) = {} /\ Ordered(<<>>)
  BY RangeFacts, EmptySeq
<1>3. /\ then \in TaskRecord /\ then.todo = <<>> \o Tail(task[t].todo)
      /\ then.route = task[t].route /\ then.users = task[t].users
      /\ then.made = task[t].made /\ then.failed = task[t].failed
      /\ then.old = task[t].old
  BY <1>1, <1>2, ThenFields
<1>4. Range(<<>> \o Tail(task[t].todo)) = rest
  BY <1>1, <1>2, ThenPlan
<1>5. next \in {then, [then EXCEPT !.failed = TRUE]}
  OBVIOUS
<1> HIDE DEF then
<1>6. /\ next \in TaskRecord /\ next.todo = <<>> \o Tail(task[t].todo)
      /\ next.route = task[t].route /\ next.users = task[t].users
      /\ next.made = task[t].made /\ (task[t].failed => next.failed)
      /\ next.old = task[t].old
  BY <1>3, <1>5 DEF TaskRecord
<1>7. Plan(next) = rest
  BY <1>4, <1>6 DEF Plan
<1>8. /\ h \in Operation /\ rest \subseteq Operation /\ Plan(task[t]) = {h} \cup rest
      /\ \A b \in rest : Precedes(h, b)
  BY <1>1, PlanOf
<1>9. \A k \in Kinds : task[t].made[k] # None =>
        /\ \A b \in rest : Allows(k, b)
        /\ h.do # "record" => \E b \in rest : Records(b, k)
  BY <1>1, MadeFacts
<1>10. h.do \in {"check", "delete", "forget", "edit", "send"}
       /\ (\A k \in Kinds : Removes(h, k) =>
             h.fail # "stop" /\ (h.fail = "note" => next.failed))
       /\ (Guards(h) => ~task[t].failed)
  OBVIOUS
<1> HIDE DEF h, rest
<1>11. Orderly(next)
  <2>1. \A k \in Kinds : next.made[k] # None =>
          /\ \E b \in Plan(next) : Records(b, k)
          /\ \A b \in Plan(next) : Allows(k, b)
    BY <1>6, <1>7, <1>9, <1>10
  <2> QED
    BY <1>1, <1>2, <1>6, <2>1, Reorders
<1>12. ASSUME excuses' = {}
       PROVE  Faithful(next, tracked, live, route, users)
  <2>1. Faithful(task[t], tracked, live, route, users)
    BY <1>12, Alone
  <2>2. ASSUME NEW a \in rest
        PROVE  Fits(next, a, tracked, live, route, users)
    <3>1. Fits(task[t], a, tracked, live, route, users) /\ a.kind \in Kinds
      BY <1>8, <2>1, <2>2 DEF Faithful, Operation
    <3>2. h.do # "set" /\ \A b \in Plan(next) : b.do = "set" => b \in rest
      BY <1>7, <1>10
    <3>3. \A k \in Kinds : Current(task[t], k, tracked) => Current(next, k, tracked)
      BY <1>6 DEF Current
    <3>4. \A k \in Kinds : WillClear(task[t], h, k, tracked) => next.failed
      BY <1>10 DEF WillClear, Clears
    <3>5. Guards(h) => ~task[t].failed
                       /\ \A b \in rest, k \in Kinds : ~WillClear(task[t], b, k, tracked)
      BY <1>8, <1>10 DEF WillClear, Clears, Precedes
    <3>6. /\ Plan(task[t]) = {h} \cup rest /\ rest \subseteq Plan(next)
          /\ \A k \in Kinds : WillClear(task[t], h, k, tracked) =>
               \/ next.failed \/ \E b \in Plan(next) : WillClear(next, b, k, tracked)
               \/ k \in PlayerKinds /\ tracked[k] = None
      BY <1>7, <1>8, <3>4
    <3> QED
      BY <1>6, <1>10, <3>1, <3>2, <3>3, <3>5, <3>6, InheritsHere
  <2>3. ASSUME NEW k \in Kinds
        PROVE  Held(next, k, tracked, live, route)
    BY <1>6, <2>1, StaysHeld DEF Faithful
  <2> QED
    BY <1>7, <2>2, <2>3 DEF Faithful
<1> QED
  BY <1>6, <1>11, <1>12, Thinking

LEMMA CheckKept ==
  ASSUME NoticesInv, KeptInv, NEW t \in Tasks, Check(t)
  PROVE  KeptInv'
<1> DEFINE h == Head(task[t].todo)
<1>1. task \in [Tasks -> TaskRecord] /\ Orderly(task[t])
  BY TypeFacts DEF NoticesInv, KeptInv
<1>2. /\ Busy(t) /\ h.do = "check" /\ Discord(live) /\ UNCHANGED <<tracked, config>>
      /\ excuses \subseteq excuses'
      /\ Goes(t, IF task[t].failed THEN Failing(t) ELSE Then(t, <<>>))
  BY DEF Check, Doing, OnlyThinks
<1>3. h.fail \in Fates /\ ~\E k \in Kinds : Removes(h, k)
  BY <1>1, <1>2, HeadOf DEF Operation, Removes
<1>4. CASE task[t].failed /\ h.fail \in {"stop", "abort"}
  <2>1. Failing(t) \in {Stopped(t), Free}
    BY <1>4 DEF Failing
  <2>2. task[t].made = Nothing
    BY <1>1, <1>2, MadeFacts
  <2>3. \A k \in Kinds : task[t].made[k] \in {None, tracked[k]}
    BY <2>2, FreeFields
  <2> QED
    BY <1>2, <1>4, <2>1, <2>3, GivingUp
<1>5. CASE ~(task[t].failed /\ h.fail \in {"stop", "abort"})
  <2> DEFINE next == IF task[t].failed THEN Failing(t) ELSE Then(t, <<>>)
  <2>1. next \in {Then(t, <<>>), [Then(t, <<>>) EXCEPT !.failed = TRUE]}
    BY <1>3, <1>5 DEF Failing, Fates
  <2>2. Guards(h) => ~task[t].failed
    BY <1>5 DEF Guards
  <2> QED
    BY <1>2, <1>3, <2>1, <2>2, Dropping
<1> QED
  BY <1>4, <1>5

\* A post that fails leaves nothing that is not on record, unless half a list was sent.
LEMMA HalfLists ==
  ASSUME NoticesInv, KeptInv, NEW t \in Tasks, Busy(t), excuses = {}, Half(t) = {},
         Posts(Head(task[t].todo))
  PROVE  \A k \in Kinds : task[t].made[k] \in {None, tracked[k]}
<1>1. task \in [Tasks -> TaskRecord] /\ Orderly(task[t])
  BY TypeFacts DEF NoticesInv, KeptInv
<1>2. \A k \in Kinds : task[t].made[k] # None => Allows(k, Head(task[t].todo))
  BY <1>1, MadeFacts
<1>3. \A k \in Kinds : Held(task[t], k, tracked, live, route)
  BY Alone DEF Faithful
<1>4. \A k \in Listed : task[t].made[k] \in {None, task[t].old[k]}
  BY DEF Half
<1>5. \A k \in Kinds : task[t].made[k] # None => k \in Listed
  BY <1>2 DEF Allows, Records, Routine, Procedures, Posts
<1> QED
  BY <1>3, <1>4, <1>5 DEF Held

LEMMA FailsKept ==
  ASSUME NoticesInv, KeptInv, NEW t \in Tasks, Fails(t) \/ Unanswered(t)
  PROVE  KeptInv'
<1> DEFINE h == Head(task[t].todo)
<1>1. task \in [Tasks -> TaskRecord] /\ Orderly(task[t])
  BY TypeFacts DEF NoticesInv, KeptInv
<1>2. /\ Busy(t) /\ h.do \in {"delete", "forget", "edit", "send", "record"}
      /\ Goes(t, Failing(t)) /\ UNCHANGED <<tracked, config>> /\ Discord(live)
      /\ \/ excuses' = excuses \cup
              CASE Doing(t, "record") -> {"unrecorded"}
                [] Doing(t, "send") \/ Doing(t, "edit") -> Half(t)
                [] OTHER -> {}
         \/ excuses' = excuses \cup {"unrecorded"}
  BY DEF Fails, Unanswered, Doing
<1>3. \A do \in Deeds : Doing(t, do) <=> h.do = do
  BY <1>2 DEF Fails, Unanswered, Doing
<1>4. h.fail \in Fates /\ h \in Plan(task[t])
  BY <1>1, <1>2, PlanOf DEF Operation
<1>5. CASE h.fail \in {"stop", "abort"}
  <2>1. Failing(t) \in {Stopped(t), Free}
    BY <1>5 DEF Failing
  <2>2. ASSUME excuses' = {}
        PROVE  \A k \in Kinds : task[t].made[k] \in {None, tracked[k]}
    <3>0. {"record", "send", "edit"} \subseteq Deeds
      BY DEF Deeds
    <3>1. h.do # "record" /\ excuses = {} /\ (h.do \in {"send", "edit"} => Half(t) = {})
      BY <1>2, <1>3, <2>2, <3>0
    <3>2. CASE Posts(h)
      BY <1>2, <3>1, <3>2, HalfLists DEF Posts
    <3>3. CASE ~Posts(h)
      <4>1. \A k \in Kinds : task[t].made[k] # None => Allows(k, h)
        BY <1>1, <1>2, MadeFacts
      <4> QED
        BY <1>2, <1>5, <3>1, <3>3, <4>1 DEF Allows, Records, Routine, Procedures, Posts
    <3> QED
      BY <3>2, <3>3
  <2> QED
    BY <1>2, <2>1, <2>2, GivingUp
<1>6. CASE h.fail \in {"go on", "note"}
  <2>1. Closes(h, Plan(task[t]))
    BY <1>1, <1>4 DEF Orderly
  <2>2. h.do # "record"
    BY <1>6, <2>1 DEF Closes
  <2>3. /\ Failing(t) \in {Then(t, <<>>), [Then(t, <<>>) EXCEPT !.failed = TRUE]}
        /\ h.fail = "note" => Failing(t) = [Then(t, <<>>) EXCEPT !.failed = TRUE]
    BY <1>6 DEF Failing
  <2>4. h.fail = "note" => Failing(t).failed
    <3>1. Then(t, <<>>) \in TaskRecord
      BY <1>1, <1>2, ThenFields, EmptySeq
    <3> DEFINE then == Then(t, <<>>)
    <3> HIDE DEF then
    <3>2. then \in TaskRecord /\ (h.fail = "note" => Failing(t) = [then EXCEPT !.failed = TRUE])
      BY <2>3, <3>1 DEF then
    <3> QED
      BY <3>2 DEF TaskRecord
  <2>5. ~Guards(h) /\ excuses \subseteq excuses'
        /\ h.do \in {"check", "delete", "forget", "edit", "send"}
    BY <1>2, <2>2 DEF Guards
  <2> DEFINE next == Failing(t)
  <2>6. /\ next \in {Then(t, <<>>), [Then(t, <<>>) EXCEPT !.failed = TRUE]}
        /\ Goes(t, next) /\ (h.fail = "note" => next.failed)
    BY <1>2, <2>3, <2>4
  <2> HIDE DEF next
  <2> QED
    BY <1>2, <1>6, <2>5, <2>6, Dropping
<1> QED
  BY <1>4, <1>5, <1>6 DEF Fates

LEMMA DeleteKept ==
  ASSUME NoticesInv, KeptInv, NEW t \in Tasks, Delete(t)
  PROVE  KeptInv'
<1> DEFINE h == Head(task[t].todo)
           rest == Range(Tail(task[t].todo))
           K == Kind(t)
           then == Then(t, <<>>)
           next == [then EXCEPT !.old[K] = None]
           messages == [live EXCEPT ![K] = @ \ {Old(t)}]
<1>1. /\ task \in [Tasks -> TaskRecord] /\ TypesHold /\ Orderly(task[t])
      /\ tracked \in Known /\ live \in [Kinds -> SUBSET Message]
      /\ task[t].old \in Known
  BY TypeFacts DEF NoticesInv, KeptInv
<1>2. /\ Busy(t) /\ h.do \in {"delete", "forget"}
      /\ tracked' = IF h.do = "forget" THEN [tracked EXCEPT ![K] = None] ELSE tracked
      /\ Goes(t, next) /\ UNCHANGED <<config, excuses>> /\ Discord(messages)
  BY DEF Delete, Doing
<1>3. <<>> \in Seq(Operation) /\ Range(<<>>) = {} /\ Ordered(<<>>)
  BY RangeFacts, EmptySeq
<1>4. /\ then \in TaskRecord /\ then.todo = <<>> \o Tail(task[t].todo)
      /\ then.route = task[t].route /\ then.users = task[t].users
      /\ then.made = task[t].made /\ then.failed = task[t].failed
      /\ then.old = task[t].old
  BY <1>1, <1>2, <1>3, ThenFields
<1>5. Range(<<>> \o Tail(task[t].todo)) = rest
  BY <1>1, <1>2, <1>3, ThenPlan
<1>6. K \in Kinds /\ K = h.kind /\ Old(t) = task[t].old[K]
  BY <1>1, <1>2, OldKnown DEF Old, Kind
<1> HIDE DEF then, K
<1>7. [then.old EXCEPT ![K] = None] \in Known
  BY <1>1, <1>4, <1>6 DEF Known
<1>8. /\ next \in TaskRecord /\ next.todo = <<>> \o Tail(task[t].todo)
      /\ next.route = task[t].route /\ next.users = task[t].users
      /\ next.made = task[t].made /\ next.failed = task[t].failed
      /\ next.old = [task[t].old EXCEPT ![K] = None]
  BY <1>4, <1>7 DEF TaskRecord
<1>9. Plan(next) = rest
  BY <1>5, <1>8 DEF Plan
<1>10. /\ h \in Operation /\ rest \subseteq Operation /\ Plan(task[t]) = {h} \cup rest
       /\ h \in Plan(task[t])
  BY <1>1, <1>2, PlanOf
<1>11. \A k \in Kinds : task[t].made[k] # None =>
         /\ \A b \in rest : Allows(k, b)
         /\ h.do # "record" => \E b \in rest : Records(b, k)
  BY <1>1, <1>2, MadeFacts
<1>12. /\ messages \in [Kinds -> SUBSET Message]
       /\ \A k \in Kinds : messages[k] = IF k = K THEN live[K] \ {task[t].old[K]} ELSE live[k]
  BY <1>1, <1>6
<1> HIDE DEF h, rest, next, messages
<1>13. \A k \in Kinds : next.old[k] = IF k = K THEN None ELSE task[t].old[k]
  BY <1>1, <1>6, <1>8 DEF Known
<1>14. \A k \in Kinds : tracked'[k] = IF k = K /\ h.do = "forget" THEN None ELSE tracked[k]
  BY <1>1, <1>2, <1>6 DEF Known
<1>15. \A k \in Kinds : None \notin live[k]
  BY <1>1, FreeFields
<1>16. /\ messages \in [Kinds -> SUBSET Message]
       /\ \A k \in Kinds : messages[k] = IF k = K THEN live[K] \ {task[t].old[K]} ELSE live[k]
       /\ \A k \in Kinds : next.old[k] = IF k = K THEN None ELSE task[t].old[k]
       /\ \A k \in Kinds : tracked'[k] = IF k = K /\ h.do = "forget" THEN None ELSE tracked[k]
       /\ \A k \in Kinds : None \notin live[k]
  BY <1>12, <1>13, <1>14, <1>15
<1>17. Closes(h, Plan(task[t]))
  BY <1>1, <1>10 DEF Orderly
<1>18. Orderly(next)
  <2>1. \A k \in Kinds : next.made[k] # None =>
          /\ \E b \in Plan(next) : Records(b, k)
          /\ \A b \in Plan(next) : Allows(k, b)
    BY <1>2, <1>8, <1>9, <1>11
  <2> QED
    BY <1>1, <1>2, <1>3, <1>8, <2>1, Reorders
<1>19. ASSUME excuses' = {}
       PROVE  /\ Displays(next) => next.route = task[t].route
              /\ Home(tracked', route', users')
              /\ Faithful(next, tracked', messages, route', users')
              /\ \A k \in Kinds : \A m \in messages[k] : m = tracked'[k] \/ m = next.made[k]
  <2>1. /\ Kept /\ Faithful(task[t], tracked, live, route, users)
        /\ \A k \in Kinds : \A m \in live[k] : m = tracked[k] \/ m = task[t].made[k]
    BY <1>2, <1>19, Alone
  <2>2. Remembers(task[t], h, tracked, live)
    BY <1>10, <2>1 DEF Faithful, Fits
  <2>3. \A k \in Kinds : /\ Gone(k, tracked, live) => Gone(k, tracked', messages)
                         /\ tracked[k] = None => tracked'[k] = None
    BY <1>16 DEF Gone
  <2>4. Current(task[t], K, tracked) => Gone(K, tracked', messages)
    BY <1>6, <1>16 DEF Gone, Current
  <2>5. h.do = "forget" => Gone(K, tracked', messages) /\ Current(next, K, tracked')
    BY <1>6, <1>16 DEF Gone, Current
  <2>6. h.do = "delete" => K \notin Listed /\ (K = "eta" => \A b \in rest : ~Decides(b))
    BY <1>6, <1>10, <1>17 DEF Closes
  <2>7. ASSUME NEW a \in rest
        PROVE  Fits(next, a, tracked', messages, route, users)
    <3>1. Fits(task[t], a, tracked, live, route, users) /\ a.kind \in Kinds
      BY <1>10, <2>1, <2>7 DEF Faithful, Operation
    <3>2. h.do # "set" /\ \A b \in Plan(next) : b.do = "set" => b \in rest
      BY <1>2, <1>9
    <3>3. ASSUME NEW k \in Kinds
          PROVE  /\ Current(task[t], k, tracked) =>
                     \/ Current(next, k, tracked')
                     \/ /\ k \notin Listed /\ Gone(k, tracked', messages)
                        /\ k = "eta" => ~Decides(a)
                 /\ Removes(h, k) /\ h.fail = "stop" /\ Current(task[t], k, tracked) =>
                      Gone(k, tracked', messages)
                 /\ WillClear(task[t], h, k, tracked) =>
                      \/ k \in PlayerKinds /\ tracked'[k] = None
                      \/ k \notin PlayerKinds /\ Gone(k, tracked', messages)
      <4>1. CASE k # K
        <5>1. ~Removes(h, k) /\ ~WillClear(task[t], h, k, tracked)
          BY <1>2, <1>6, <4>1 DEF WillClear, Clears, Removes
        <5> QED
          BY <1>16, <4>1, <5>1 DEF Current
      <4>2. CASE k = K
        <5>1. Current(task[t], k, tracked) =>
                \/ Current(next, k, tracked')
                \/ /\ k \notin Listed /\ Gone(k, tracked', messages)
                   /\ k = "eta" => ~Decides(a)
          BY <1>2, <2>4, <2>5, <2>6, <2>7, <4>2
        <5>2. WillClear(task[t], h, k, tracked) =>
                Current(task[t], k, tracked) /\ (k \in PlayerKinds => h.do = "forget")
          BY <1>2 DEF WillClear, Clears
        <5> QED
          BY <1>16, <2>4, <4>2, <5>1, <5>2
      <4> QED
        BY <4>1, <4>2
    <3>4. \A k \in Kinds :
            /\ Gone(k, tracked, live) => Gone(k, tracked', messages)
            /\ tracked[k] = None => tracked'[k] = None
            /\ Current(task[t], k, tracked) =>
                 \/ Current(next, k, tracked')
                 \/ /\ k \notin Listed /\ Gone(k, tracked', messages)
                    /\ k = "eta" => ~Decides(a)
            /\ Removes(h, k) /\ h.fail = "stop" /\ Current(task[t], k, tracked) =>
                 Gone(k, tracked', messages)
            /\ WillClear(task[t], h, k, tracked) =>
                 \/ next.failed \/ \E b \in Plan(next) : WillClear(next, b, k, tracked')
                 \/ k \in PlayerKinds /\ tracked'[k] = None
                 \/ k \notin PlayerKinds /\ Gone(k, tracked', messages)
      BY <2>3, <3>3
    <3>5. ~Guards(h)
      BY <1>2 DEF Guards
    <3>6. /\ next.route = task[t].route /\ next.users = task[t].users
          /\ task[t].failed => next.failed
      BY <1>8
    <3>7. Plan(task[t]) = {h} \cup rest /\ rest \subseteq Plan(next)
      BY <1>9, <1>10
    <3>8. Guards(h) => ~task[t].failed
                       /\ \A b \in rest, k \in Kinds : ~WillClear(task[t], b, k, tracked)
      BY <3>5
    <3> QED
      BY <3>1, <3>2, <3>4, <3>6, <3>7, <3>8, Inherits
  <2>8. ASSUME NEW k \in Kinds
        PROVE  Held(next, k, tracked', messages, route)
    <3>1. Held(task[t], k, tracked, live, route)
      BY <2>1 DEF Faithful
    <3>2. tracked'[k] = tracked[k] \/ Gone(k, tracked', messages)
      BY <1>16, <2>5
    <3> QED
      BY <1>8, <1>16, <2>3, <3>1, <3>2 DEF Held
  <2>9. Faithful(next, tracked', messages, route, users)
    BY <1>9, <2>7, <2>8 DEF Faithful
  <2>10. Home(tracked', route, users)
    <3>1. PlayerKinds \subseteq Kinds
      BY SomeKinds
    <3> QED
      BY <1>16, <2>1, <3>1 DEF Kept, Home
  <2>11. \A k \in Kinds : \A m \in messages[k] : m = tracked'[k] \/ m = next.made[k]
    <3> SUFFICES ASSUME NEW k \in Kinds, NEW m \in messages[k], m # next.made[k]
                 PROVE  m = tracked'[k]
      OBVIOUS
    <3>1. m = tracked[k] /\ m \in live[k]
      BY <1>8, <1>16, <2>1
    <3>2. ~(k = K /\ h.do = "forget")
      <4> SUFFICES ASSUME k = K, h.do = "forget"
                   PROVE  FALSE
        OBVIOUS
      <4>1. Current(task[t], K, tracked) \/ Gone(K, tracked, live)
        BY <1>6, <2>2 DEF Remembers
      <4> QED
        BY <1>16, <3>1, <4>1 DEF Current, Gone
    <3> QED
      BY <1>16, <3>1, <3>2
  <2> QED
    BY <1>2, <1>8, <2>9, <2>10, <2>11 DEF config
<1> QED
  BY <1>2, <1>8, <1>16, <1>18, <1>19, Keeping

\* The task without its next operation.
LEMMA Dropped ==
  ASSUME task \in [Tasks -> TaskRecord], NEW t \in Tasks, Busy(t)
  PROVE  LET then == Then(t, <<>>)
         IN  /\ then \in TaskRecord /\ then.todo = <<>> \o Tail(task[t].todo)
             /\ then.route = task[t].route /\ then.users = task[t].users
             /\ then.made = task[t].made /\ then.failed = task[t].failed
             /\ then.old = task[t].old
             /\ Range(<<>> \o Tail(task[t].todo)) = Range(Tail(task[t].todo))
             /\ <<>> \in Seq(Operation) /\ Range(<<>>) = {} /\ Ordered(<<>>)
<1>1. <<>> \in Seq(Operation) /\ Range(<<>>) = {} /\ Ordered(<<>>)
  BY RangeFacts, EmptySeq
<1>2. Range(<<>> \o Tail(task[t].todo)) = Range(Tail(task[t].todo))
  BY <1>1, ThenPlan
<1> QED
  BY <1>1, <1>2, ThenFields

\* The same, where the step changes what is in Discord only.
LEMMA InheritsPosted ==
  ASSUME NEW tk, NEW next, NEW h, NEW rest, NEW a \in rest,
         Plan(tk) = {h} \cup rest, Plan(next) = rest,
         NEW trk, NEW msgs, NEW msgs2, NEW r, NEW u,
         Fits(tk, a, trk, msgs, r, u), a.kind \in Kinds, h.do # "set", ~Guards(h),
         next.route = tk.route, next.users = tk.users, next.failed = tk.failed,
         next.old = tk.old, \A k \in Kinds : Gone(k, trk, msgs) => Gone(k, trk, msgs2),
         \A k \in Kinds : ~Removes(h, k) /\ ~WillClear(tk, h, k, trk)
  PROVE  Fits(next, a, trk, msgs2, r, u)
<1>1. \A k \in Kinds :
        /\ Gone(k, trk, msgs) => Gone(k, trk, msgs2)
        /\ trk[k] = None => trk[k] = None
        /\ Current(tk, k, trk) =>
             \/ Current(next, k, trk)
             \/ /\ k \notin Listed /\ Gone(k, trk, msgs2)
                /\ k = "eta" => ~Decides(a)
        /\ Removes(h, k) /\ h.fail = "stop" /\ Current(tk, k, trk) => Gone(k, trk, msgs2)
        /\ WillClear(tk, h, k, trk) =>
             \/ next.failed \/ \E b \in Plan(next) : WillClear(next, b, k, trk)
             \/ k \in PlayerKinds /\ trk[k] = None
             \/ k \notin PlayerKinds /\ Gone(k, trk, msgs2)
  BY DEF Current
<1>2. h.do # "set" /\ \A b \in Plan(next) : b.do = "set" => b \in rest
  OBVIOUS
<1>3. next.route = tk.route /\ next.users = tk.users /\ (tk.failed => next.failed)
  OBVIOUS
<1>4. rest \subseteq Plan(next)
  OBVIOUS
<1>5. Guards(h) => ~tk.failed /\ \A b \in rest, k \in Kinds : ~WillClear(tk, b, k, trk)
  OBVIOUS
<1> QED
  BY <1>1, <1>2, <1>3, <1>4, <1>5, Inherits

LEMMA SendKept ==
  ASSUME EnoughIds, NoticesInv, KeptInv, NEW t \in Tasks, Send(t)
  PROVE  KeptInv'
<1> DEFINE h == Head(task[t].todo)
           rest == Range(Tail(task[t].todo))
           K == Kind(t)
           m == New(K, task[t].route)
           then == Then(t, <<>>)
           next == [then EXCEPT !.made[K] = m]
           messages == [live EXCEPT ![K] = @ \cup {m}]
<1>1. /\ task \in [Tasks -> TaskRecord] /\ TypesHold /\ Orderly(task[t])
      /\ live \in [Kinds -> SUBSET Message] /\ task[t].made \in Known
  BY TypeFacts DEF NoticesInv, KeptInv
<1>2. /\ Busy(t) /\ h.do = "send" /\ Reach(task[t].route) /\ Goes(t, next)
      /\ UNCHANGED <<tracked, config, excuses>> /\ Discord(messages)
  BY DEF Send, Doing
<1>3. /\ K \in Kinds /\ K = h.kind /\ task[t].route \in Channels
  BY <1>1, <1>2, HeadOf, TypeFacts DEF Kind, Reach
<1>4. /\ m \in Message /\ m.channel = task[t].route
      /\ m \notin live[K] \cup Referred(K, tracked, task)
  BY <1>1, <1>3, NewMessage
<1>5. m # tracked[K] /\ m # task[t].old[K]
  BY <1>4 DEF Referred
<1>6. /\ then \in TaskRecord /\ then.todo = <<>> \o Tail(task[t].todo)
      /\ then.route = task[t].route /\ then.users = task[t].users
      /\ then.made = task[t].made /\ then.failed = task[t].failed
      /\ then.old = task[t].old
      /\ Range(<<>> \o Tail(task[t].todo)) = rest
      /\ <<>> \in Seq(Operation) /\ Range(<<>>) = {} /\ Ordered(<<>>)
  BY <1>1, <1>2, Dropped
<1> HIDE DEF then, K, m
<1>7. [then.made EXCEPT ![K] = m] \in Known
  BY <1>1, <1>3, <1>4, <1>6 DEF Known
<1>8. /\ next \in TaskRecord /\ next.todo = <<>> \o Tail(task[t].todo)
      /\ next.route = task[t].route /\ next.users = task[t].users
      /\ next.old = task[t].old /\ next.failed = task[t].failed
      /\ next.made = [task[t].made EXCEPT ![K] = m]
  BY <1>6, <1>7 DEF TaskRecord
<1>9. Plan(next) = rest
  BY <1>6, <1>8 DEF Plan
<1>10. /\ h \in Operation /\ rest \subseteq Operation /\ Plan(task[t]) = {h} \cup rest
       /\ h \in Plan(task[t]) /\ \A b \in rest : Precedes(h, b)
  BY <1>1, <1>2, PlanOf
<1>11. \A k \in Kinds : task[t].made[k] # None =>
        /\ Allows(k, h) /\ \A b \in rest : Allows(k, b)
        /\ h.do # "record" => \E b \in rest : Records(b, k)
  BY <1>1, <1>2, MadeFacts
<1>12. /\ messages \in [Kinds -> SUBSET Message]
       /\ \A k \in Kinds : messages[k] = IF k = K THEN live[K] \cup {m} ELSE live[k]
  BY <1>1, <1>3, <1>4
<1> HIDE DEF h, rest, next, messages
<1>13. \A k \in Kinds : next.made[k] = IF k = K THEN m ELSE task[t].made[k]
  BY <1>1, <1>3, <1>8 DEF Known
<1>14. Closes(h, Plan(task[t])) /\ Posts(h) /\ ~Guards(h)
       /\ \A k \in Kinds : ~Removes(h, k) /\ ~WillClear(task[t], h, k, tracked)
  BY <1>1, <1>2, <1>10 DEF Orderly, Posts, Guards, Removes, WillClear, Clears
<1>15. (\E b \in rest : Records(b, K)) /\ \A b \in rest : Allows(K, b)
  BY <1>2, <1>3, <1>10, <1>14 DEF Closes, Records, Precedes
<1>16. Orderly(next)
  <2>1. ASSUME NEW k \in Kinds, next.made[k] # None
        PROVE  /\ \E b \in Plan(next) : Records(b, k)
               /\ \A b \in Plan(next) : Allows(k, b)
    <3>1. CASE k = K
      BY <1>9, <1>15, <3>1
    <3>2. CASE k # K
      BY <1>2, <1>9, <1>11, <1>13, <2>1, <3>2
    <3> QED
      BY <3>1, <3>2
  <2> QED
    BY <1>1, <1>2, <1>6, <1>8, <2>1, Reorders
<1>17. ASSUME excuses' = {}
       PROVE  /\ Displays(next) => next.route = task[t].route
              /\ Home(tracked', route', users')
              /\ Faithful(next, tracked', messages, route', users')
              /\ \A k \in Kinds : \A n \in messages[k] : n = tracked'[k] \/ n = next.made[k]
  <2>1. /\ Kept /\ Faithful(task[t], tracked, live, route, users)
        /\ \A k \in Kinds : \A n \in live[k] : n = tracked[k] \/ n = task[t].made[k]
        /\ \A k \in Kinds : None \notin live[k]
    BY <1>2, <1>17, Alone
  <2>2. task[t].made[K] = None
    <3>1. ~Allows(K, h)
      BY <1>2, <1>3 DEF Allows, Records, Routine, Procedures, Posts
    <3> QED
      BY <1>3, <1>11, <3>1
  <2>3. Gone(K, tracked, live)
    <3>1. Removal(task[t], K, tracked, live)
      BY <1>2, <1>3, <1>10, <2>1 DEF Faithful, Fits, Replaces
    <3>2. ASSUME NEW a \in rest, Removes(a, K), a.fail = "stop"
          PROVE  FALSE
      <4>1. Allows(K, a) /\ a.do \in {"delete", "forget"}
        BY <1>15, <3>2 DEF Removes
      <4> QED
        BY <3>2, <4>1 DEF Allows, Records, Routine, Procedures, Posts
    <3> QED
      BY <1>3, <1>10, <1>14, <3>1, <3>2 DEF Removal
  <2>4. \A k \in Kinds : Gone(k, tracked, live) => Gone(k, tracked, messages)
    BY <1>5, <1>12 DEF Gone
  <2>5. Gone(K, tracked, messages)
    BY <1>3, <2>3, <2>4
  <2>6. ASSUME NEW a \in rest
        PROVE  Fits(next, a, tracked, messages, route, users)
    <3>1. Fits(task[t], a, tracked, live, route, users) /\ a.kind \in Kinds
      BY <1>10, <2>1, <2>6 DEF Faithful, Operation
    <3>2. h.do # "set"
      BY <1>2
    <3> QED
      BY <1>8, <1>9, <1>10, <1>14, <2>4, <2>6, <3>1, <3>2, InheritsPosted
  <2>7. ASSUME NEW k \in Kinds
        PROVE  Held(next, k, tracked, messages, route)
    <3>1. CASE k = K
      <4>1. K \in PlayerKinds => task[t].route = route
        <5>1. K \in PlayerKinds => NeedsHome(h)
          BY <1>3, <1>14 DEF NeedsHome
        <5>2. \A b \in Plan(task[t]) : b.do # "set"
          BY <1>2, <1>10, <1>15 DEF Allows, Records, Routine, Procedures, Posts
        <5> QED
          BY <1>10, <2>1, <5>1, <5>2 DEF Faithful, Fits, AtHome
      <4> QED
        BY <1>4, <1>5, <1>8, <1>13, <2>5, <3>1, <4>1 DEF Held
    <3>2. CASE k # K
      <4>1. Held(task[t], k, tracked, live, route)
        BY <2>1 DEF Faithful
      <4> QED
        BY <1>8, <1>13, <2>4, <3>2, <4>1 DEF Held
    <3> QED
      BY <3>1, <3>2
  <2>8. Faithful(next, tracked, messages, route, users)
    BY <1>9, <2>6, <2>7 DEF Faithful
  <2>9. \A k \in Kinds : \A n \in messages[k] : n = tracked[k] \/ n = next.made[k]
    BY <1>12, <1>13, <2>1, <2>2
  <2> QED
    BY <1>2, <1>8, <2>1, <2>8, <2>9 DEF config, Kept
<1> QED
  BY <1>2, <1>8, <1>12, <1>16, <1>17, Keeping

\* What is known where a message is about to be sent or edited.
LEMMA Posting ==
  ASSUME NoticesInv, KeptInv, NEW t \in Tasks, Busy(t), Posts(Head(task[t].todo))
  PROVE  LET h == Head(task[t].todo)
             rest == Range(Tail(task[t].todo))
             K == Kind(t)
         IN  /\ K \in Kinds /\ K = h.kind /\ task[t].made[K] = None
             /\ h.do \in {"send", "edit"} /\ h.do # "set" /\ ~Guards(h)
             /\ \A k \in Kinds : ~Removes(h, k) /\ ~WillClear(task[t], h, k, tracked)
             /\ \A b \in rest : Allows(K, b) /\ b.do # "set" /\ Precedes(h, b)
             /\ \A b \in Plan(task[t]) : b.do # "set"
             /\ ~(h.do = "edit" /\ K = "eta") => \E b \in rest : Records(b, K)
<1> DEFINE h == Head(task[t].todo)
           rest == Range(Tail(task[t].todo))
           K == Kind(t)
<1>1. task \in [Tasks -> TaskRecord] /\ Orderly(task[t])
  BY TypeFacts DEF NoticesInv, KeptInv
<1>2. Posts(h) /\ h.do \in {"send", "edit"}
  BY DEF Posts
<1>3. K \in Kinds /\ K = h.kind
  BY <1>1, HeadOf DEF Kind
<1>4. /\ h \in Operation /\ Plan(task[t]) = {h} \cup rest
      /\ h \in Plan(task[t]) /\ \A b \in rest : Precedes(h, b)
  BY <1>1, PlanOf
<1>5. \A k \in Kinds : task[t].made[k] # None => Allows(k, h)
  BY <1>1, MadeFacts
<1> HIDE DEF h, rest, K
<1>6. ~Allows(K, h)
  BY <1>2, <1>3 DEF Allows, Records, Routine, Procedures, Posts
<1>7. ~Guards(h) /\ \A k \in Kinds : ~Removes(h, k) /\ ~WillClear(task[t], h, k, tracked)
  BY <1>2 DEF Guards, Removes, WillClear, Clears
<1>8. \A b \in rest : Allows(K, b)
  BY <1>2, <1>3, <1>4 DEF Precedes
<1>9. \A b \in rest : b.do # "set"
  BY <1>8 DEF Allows, Records, Routine, Procedures, Posts
<1>10. ~(h.do = "edit" /\ K = "eta") => \E b \in rest : Records(b, K)
  <2>1. Closes(h, Plan(task[t]))
    BY <1>1, <1>4 DEF Orderly
  <2>2. ~Records(h, K)
    BY <1>2 DEF Records
  <2> QED
    BY <1>2, <1>3, <1>4, <2>1, <2>2 DEF Closes
<1> QED
  BY <1>2, <1>3, <1>4, <1>5, <1>6, <1>7, <1>8, <1>9, <1>10 DEF h, rest, K

\* The time of the next update stands where it is, and is not put on record.
LEMMA EtaKept ==
  ASSUME NoticesInv, KeptInv, NEW t \in Tasks, Busy(t),
         Head(task[t].todo).do = "edit", Kind(t) = "eta",
         Goes(t, [Then(t, <<>>) EXCEPT !.old["eta"] = None]),
         Discord(live), UNCHANGED <<tracked, config>>, excuses \subseteq excuses'
  PROVE  KeptInv'
<1> DEFINE h == Head(task[t].todo)
           rest == Range(Tail(task[t].todo))
           then == Then(t, <<>>)
           next == [then EXCEPT !.old["eta"] = None]
<1>1. /\ task \in [Tasks -> TaskRecord] /\ Orderly(task[t]) /\ task[t].old \in Known
      /\ "eta" \in Kinds /\ Posts(h)
  BY TypeFacts DEF NoticesInv, KeptInv, Kinds, Posts
<1>2. /\ h.kind = "eta" /\ \A b \in rest : Allows("eta", b) /\ Precedes(h, b)
      /\ \A b \in Plan(task[t]) : b.do # "set"
  BY <1>1, Posting
<1>3. /\ then \in TaskRecord /\ then.todo = <<>> \o Tail(task[t].todo)
      /\ then.route = task[t].route /\ then.users = task[t].users
      /\ then.made = task[t].made /\ then.old = task[t].old
      /\ Range(<<>> \o Tail(task[t].todo)) = rest
      /\ <<>> \in Seq(Operation) /\ Range(<<>>) = {} /\ Ordered(<<>>)
  BY <1>1, Dropped
<1>4. Goes(t, next) /\ h.do = "edit"
  OBVIOUS
<1>5. /\ Plan(task[t]) = {h} \cup rest
  BY <1>1, PlanOf
<1>6. "eta" \notin Listed
  BY SomeKinds
<1>7. task[t].made = Nothing
  BY <1>1, <1>2, <1>4, <1>6, MadeFacts
<1> HIDE DEF then, h, rest
<1>8. [then.old EXCEPT !["eta"] = None] \in Known
  BY <1>1, <1>3 DEF Known
<1>9. /\ next \in TaskRecord /\ next.todo = <<>> \o Tail(task[t].todo)
      /\ next.route = task[t].route /\ next.users = task[t].users
      /\ next.made = Nothing /\ next.old = [task[t].old EXCEPT !["eta"] = None]
  BY <1>3, <1>7, <1>8 DEF TaskRecord
<1> HIDE DEF next
<1>10. Plan(next) = rest /\ \A k \in Kinds : next.made[k] = None
  BY <1>3, <1>9, FreeFields DEF Plan
<1>11. Orderly(next)
  BY <1>1, <1>3, <1>9, <1>10, Reorders
<1>12. \A b \in rest : Routine(b) \/ b.do = "compare"
  BY <1>2, <1>4, <1>6 DEF Precedes, Allows, Records
<1>13. ASSUME excuses' = {}
       PROVE  Faithful(next, tracked, live, route, users)
  <2>1. Faithful(task[t], tracked, live, route, users)
    BY <1>13, Alone
  <2>2. ASSUME NEW a \in rest
        PROVE  Fits(next, a, tracked, live, route, users)
    <3>1. Fits(task[t], a, tracked, live, route, users)
      BY <1>5, <2>1, <2>2 DEF Faithful
    <3>2. AtHome(next, a, route, users)
      BY <1>2, <1>5, <1>9, <1>10, <3>1 DEF AtHome, Fits
    <3>3. CASE Routine(a)
      BY <3>2, <3>3, RoutineFits
    <3>4. CASE a.do = "compare"
      <4>1. \A k \in Listed : next.old[k] = task[t].old[k]
        BY <1>1, <1>6, <1>9, SomeKinds DEF Known
      <4>2. Remembers(next, a, tracked, live)
        BY <3>1, <3>4, <4>1 DEF Fits, Remembers, Current
      <4> QED
        BY <3>2, <3>4, <4>2 DEF Fits, Replaces, Leaves, Recovers, Decides
    <3> QED
      BY <1>12, <2>2, <3>3, <3>4
  <2> QED
    BY <1>10, <2>2 DEF Faithful, Held
<1> QED
  BY <1>4, <1>7, <1>9, <1>10, <1>11, <1>13, Thinking

\* A message that was edited is about to be put on record again.
LEMMA EditedKept ==
  ASSUME NoticesInv, KeptInv, NEW t \in Tasks, Busy(t),
         Head(task[t].todo).do = "edit", Kind(t) # "eta", Old(t) \in live[Kind(t)],
         Goes(t, [Then(t, <<>>) EXCEPT !.made[Kind(t)] = Old(t)]),
         Discord(live), UNCHANGED <<tracked, config>>, excuses \subseteq excuses'
  PROVE  KeptInv'
<1> DEFINE h == Head(task[t].todo)
           rest == Range(Tail(task[t].todo))
           K == Kind(t)
           o == task[t].old[K]
           then == Then(t, <<>>)
           next == [then EXCEPT !.made[K] = o]
<1>1. /\ task \in [Tasks -> TaskRecord] /\ Orderly(task[t])
      /\ task[t].old \in Known /\ task[t].made \in Known /\ Posts(h) /\ h.do = "edit"
  BY TypeFacts DEF NoticesInv, KeptInv, Posts
<1>2. /\ K \in Kinds /\ K = h.kind /\ task[t].made[K] = None /\ ~Guards(h)
      /\ \A k \in Kinds : ~Removes(h, k) /\ ~WillClear(task[t], h, k, tracked)
      /\ \A b \in rest : Allows(K, b)
      /\ \A b \in Plan(task[t]) : b.do # "set"
      /\ K # "eta" => \E b \in rest : Records(b, K)
  BY <1>1, Posting
<1>3. /\ then \in TaskRecord /\ then.todo = <<>> \o Tail(task[t].todo)
      /\ then.route = task[t].route /\ then.users = task[t].users
      /\ then.made = task[t].made /\ then.old = task[t].old
      /\ then.failed = task[t].failed
      /\ Range(<<>> \o Tail(task[t].todo)) = rest
      /\ <<>> \in Seq(Operation) /\ Range(<<>>) = {} /\ Ordered(<<>>)
  BY <1>1, Dropped
<1>4. Goes(t, next) /\ o \in live[K] /\ K # "eta"
  BY DEF Old
<1>5. Plan(task[t]) = {h} \cup rest /\ rest \subseteq Operation /\ h \in Plan(task[t])
  BY <1>1, PlanOf
<1>6. \A k \in Kinds : task[t].made[k] # None =>
        /\ \A b \in rest : Allows(k, b)
        /\ h.do # "record" => \E b \in rest : Records(b, k)
  BY <1>1, MadeFacts
<1> HIDE DEF then, h, rest, K
<1>7. [then.made EXCEPT ![K] = o] \in Known
  BY <1>1, <1>2, <1>3 DEF Known
<1>8. /\ next \in TaskRecord /\ next.todo = <<>> \o Tail(task[t].todo)
      /\ next.route = task[t].route /\ next.users = task[t].users
      /\ next.old = task[t].old /\ next.failed = task[t].failed
      /\ next.made = [task[t].made EXCEPT ![K] = o]
  BY <1>3, <1>7 DEF TaskRecord
<1> HIDE DEF next
<1>9. /\ Plan(next) = rest
      /\ \A k \in Kinds : next.made[k] = IF k = K THEN o ELSE task[t].made[k]
  BY <1>1, <1>2, <1>3, <1>8 DEF Plan, Known
<1>10. Orderly(next)
  <2>1. ASSUME NEW k \in Kinds, next.made[k] # None
        PROVE  /\ \E b \in Plan(next) : Records(b, k)
               /\ \A b \in Plan(next) : Allows(k, b)
    <3>1. CASE k = K
      BY <1>2, <1>4, <1>9, <3>1
    <3>2. CASE k # K
      BY <1>1, <1>6, <1>9, <2>1, <3>2
    <3> QED
      BY <3>1, <3>2
  <2> QED
    BY <1>1, <1>3, <1>8, <2>1, Reorders
<1>11. ASSUME excuses' = {}
       PROVE  Faithful(next, tracked, live, route, users)
  <2>1. /\ Kept /\ Faithful(task[t], tracked, live, route, users)
        /\ \A k \in Kinds : None \notin live[k]
    BY <1>11, Alone
  <2>2. ASSUME NEW a \in rest
        PROVE  Fits(next, a, tracked, live, route, users)
    <3>1. Fits(task[t], a, tracked, live, route, users) /\ a.kind \in Kinds
      BY <1>5, <2>1, <2>2 DEF Faithful, Operation
    <3>2. h.do # "set" /\ \A k \in Kinds : Gone(k, tracked, live) => Gone(k, tracked, live)
      BY <1>1
    <3> QED
      BY <1>2, <1>5, <1>8, <1>9, <2>2, <3>1, <3>2, InheritsPosted
  <2>3. ASSUME NEW k \in Kinds
        PROVE  Held(next, k, tracked, live, route)
    <3>1. CASE k = K
      <4>1. Remembers(task[t], h, tracked, live)
        BY <1>5, <2>1 DEF Faithful, Fits
      <4>2. Current(task[t], K, tracked) \/ Gone(K, tracked, live)
        BY <1>1, <1>2, <4>1 DEF Remembers
      <4>3. K \in Listed => o = tracked[K]
        BY <1>1, <1>2, <4>1 DEF Remembers, Current
      <4>4. K \in PlayerKinds => K \in Listed
        BY <1>4 DEF PlayerKinds
      <4>5. K \in PlayerKinds => o.channel = route
        <5>1. o # None
          BY <1>2, <1>4, <2>1
        <5> QED
          BY <2>1, <4>3, <4>4, <5>1 DEF Kept, Home
      <4>6. o = tracked[K] \/ Gone(K, tracked, live)
        BY <4>2 DEF Current
      <4> QED
        BY <1>9, <3>1, <4>3, <4>5, <4>6 DEF Held
    <3>2. CASE k # K
      <4>1. Held(task[t], k, tracked, live, route)
        BY <2>1 DEF Faithful
      <4> QED
        BY <1>8, <1>9, <3>2, <4>1 DEF Held
    <3> QED
      BY <3>1, <3>2
  <2> QED
    BY <1>9, <2>2, <2>3 DEF Faithful
<1>12. \A k \in Kinds : \/ next.made[k] = task[t].made[k]
                        \/ task[t].made[k] \in {None, tracked[k]}
  BY <1>2, <1>9
<1> QED
  BY <1>4, <1>8, <1>10, <1>11, <1>12, Thinking

\* A message that is gone is sent again.
LEMMA ResentKept ==
  ASSUME NoticesInv, KeptInv, NEW t \in Tasks, Busy(t),
         Head(task[t].todo).do = "edit", Kind(t) \notin Listed, Old(t) \notin live[Kind(t)],
         Goes(t, Then(t, <<Op("send", Kind(t), "stop")>> \o
                IF Kind(t) = "eta" THEN <<Op("record", "eta", "stop")>> ELSE <<>>)),
         Discord(live), UNCHANGED <<tracked, config>>, excuses \subseteq excuses'
  PROVE  KeptInv'
<1> DEFINE h == Head(task[t].todo)
           rest == Range(Tail(task[t].todo))
           K == Kind(t)
           send == Op("send", K, "stop")
           record == Op("record", "eta", "stop")
           ops == <<send>> \o IF K = "eta" THEN <<record>> ELSE <<>>
           next == Then(t, ops)
<1>1. /\ task \in [Tasks -> TaskRecord] /\ Orderly(task[t])
      /\ Posts(h) /\ h.do = "edit" /\ Goes(t, next) /\ K \notin Listed
  BY TypeFacts DEF NoticesInv, KeptInv, Posts
<1>2. /\ K \in Kinds /\ K = h.kind /\ ~Guards(h)
      /\ \A k \in Kinds : ~Removes(h, k) /\ ~WillClear(task[t], h, k, tracked)
      /\ \A b \in rest : Allows(K, b) /\ Precedes(h, b)
      /\ \A b \in Plan(task[t]) : b.do # "set"
      /\ K # "eta" => \E b \in rest : Records(b, K)
  BY <1>1, Posting
<1>3. /\ send \in Operation /\ send.do = "send" /\ send.kind = K /\ send.fail = "stop"
      /\ record \in Operation /\ record.do = "record" /\ record.kind = "eta"
      /\ record.fail = "stop"
  BY <1>2 DEF Op, Operation, Deeds, Fates, Kinds
<1>4. /\ Plan(task[t]) = {h} \cup rest /\ rest \subseteq Operation /\ h \in Plan(task[t])
      /\ h \in Operation
  BY <1>1, PlanOf
<1>5. task[t].made = Nothing
  BY <1>1, <1>2, MadeFacts
<1>6. Old(t) = task[t].old[K] /\ Old(t) \notin live[K]
  BY DEF Old
<1> HIDE DEF send, record, h, rest, K
<1>7. /\ ops \in Seq(Operation) /\ Ordered(ops)
      /\ Range(ops) = {send} \cup IF K = "eta" THEN {record} ELSE {}
  <2>1. CASE K = "eta"
    <3>1. Precedes(send, record)
      BY <1>3, <2>1 DEF Precedes, Procedures, Closing, Posts, Allows, Records, Guards
    <3>2. /\ <<send>> \in Seq(Operation) /\ Range(<<send>>) = {send} /\ Ordered(<<send>>)
          /\ <<record>> \in Seq(Operation) /\ Range(<<record>>) = {record}
          /\ Ordered(<<record>>)
      BY <1>3, OneOperation
    <3> QED
      BY <2>1, <3>1, <3>2, JoinedOrder
  <2>2. CASE K # "eta"
    <3>1. /\ <<send>> \in Seq(Operation) /\ Range(<<send>>) = {send} /\ Ordered(<<send>>)
      BY <1>3, OneOperation
    <3>2. <<>> \in Seq(Operation) /\ Range(<<>>) = {} /\ Ordered(<<>>)
      BY RangeFacts, EmptySeq
    <3> QED
      BY <2>2, <3>1, <3>2, JoinedOrder
  <2> QED
    BY <2>1, <2>2
<1> HIDE DEF ops
<1>8. /\ next \in TaskRecord /\ next.todo = ops \o Tail(task[t].todo)
      /\ next.route = task[t].route /\ next.users = task[t].users
      /\ next.made = Nothing /\ next.old = task[t].old
      /\ next.failed = task[t].failed
      /\ Range(ops \o Tail(task[t].todo)) = Range(ops) \cup rest
  BY <1>1, <1>5, <1>7, ThenFields, ThenPlan DEF rest
<1> HIDE DEF next
<1>9. Plan(next) = Range(ops) \cup rest /\ \A k \in Kinds : next.made[k] = None
  BY <1>8, FreeFields DEF Plan
<1>10. Orderly(next)
  <2>1. ASSUME NEW a \in Range(ops), NEW b \in rest
        PROVE  Precedes(a, b)
    <3>1. Allows(K, b) /\ Precedes(h, b)
      BY <1>2, <2>1
    <3>2. CASE a = send
      BY <1>3, <3>1, <3>2 DEF Precedes, Procedures, Closing, Guards
    <3>3. CASE a = record /\ K = "eta"
      <4>1. b.do # "record"
        BY <1>1, <1>2, <3>1, <3>3 DEF Precedes
      <4>2. Routine(b) \/ b.do = "compare"
        BY <1>1, <3>1, <3>3, <4>1 DEF Allows, Records
      <4> QED
        BY <1>3, <3>3, <4>2 DEF Precedes, Procedures, Closing, Guards, Posts
    <3> QED
      BY <1>7, <2>1, <3>2, <3>3
  <2>2. \A a \in Range(ops) : Closes(a, Plan(next)) /\ ~Decides(a)
    <3>1. Closes(send, Plan(next))
      <4>1. \E b \in Plan(next) : Records(b, K)
        <5>1. CASE K = "eta"
          BY <1>3, <1>7, <1>9, <5>1 DEF Records
        <5>2. CASE K # "eta"
          BY <1>2, <1>9, <5>2
        <5> QED
          BY <5>1, <5>2
      <4> QED
        BY <1>3, <4>1 DEF Closes
    <3>2. Closes(record, Plan(next))
      BY <1>3 DEF Closes, Posts
    <3> QED
      BY <1>3, <1>7, <3>1, <3>2 DEF Decides
  <2> QED
    BY <1>1, <1>7, <1>8, <1>9, <2>1, <2>2, Reorders DEF rest
<1>11. ASSUME excuses' = {}
       PROVE  Faithful(next, tracked, live, route, users)
  <2>1. /\ Kept /\ Faithful(task[t], tracked, live, route, users)
        /\ \A k \in Kinds : None \notin live[k]
    BY <1>11, Alone
  <2>2. Fits(task[t], h, tracked, live, route, users)
    BY <1>4, <2>1 DEF Faithful
  <2>3. Gone(K, tracked, live)
    BY <1>1, <1>2, <1>6, <2>2 DEF Fits, Remembers, Current, Gone
  <2>4. \A b \in Plan(next) : b.do # "set"
    BY <1>3, <1>4, <1>7, <1>2, <1>9
  <2>5. K \in PlayerKinds => users /\ task[t].route = route
    <3>1. K \in PlayerKinds => NeedsHome(h)
      BY <1>1, <1>2 DEF NeedsHome
    <3> QED
      BY <1>2, <2>2, <3>1 DEF Fits, AtHome
  <2>6. Fits(next, send, tracked, live, route, users)
    BY <1>3, <1>8, <2>3, <2>4, <2>5 DEF Fits, Remembers, Replaces, Removal, Leaves,
       AtHome, Recovers, Decides, NeedsHome
  <2>7. K = "eta" => Fits(next, record, tracked, live, route, users)
    <3>1. "eta" \in PlayerKinds
      BY SomeKinds
    <3> QED
      BY <1>3, <1>8, <2>4, <2>5, <3>1 DEF Fits, Remembers, Replaces, Leaves,
         AtHome, Recovers, Decides, NeedsHome
  <2>8. ASSUME NEW a \in rest
        PROVE  Fits(next, a, tracked, live, route, users)
    <3>1. Fits(task[t], a, tracked, live, route, users) /\ a.kind \in Kinds
      BY <1>4, <2>1, <2>8 DEF Faithful, Operation
    <3>2. /\ h.do # "set" /\ \A b \in Plan(next) : b.do = "set" => b \in rest
          /\ Plan(task[t]) = {h} \cup rest /\ rest \subseteq Plan(next)
      BY <1>1, <1>4, <1>9, <2>4
    <3>3. /\ \A k \in Kinds : Current(task[t], k, tracked) => Current(next, k, tracked)
          /\ \A k \in Kinds : Removes(h, k) => h.fail # "stop"
          /\ \A k \in Kinds : WillClear(task[t], h, k, tracked) =>
               \/ next.failed \/ \E b \in Plan(next) : WillClear(next, b, k, tracked)
               \/ k \in PlayerKinds /\ tracked[k] = None
      BY <1>2, <1>8 DEF Current
    <3>4. Guards(h) => ~task[t].failed
                       /\ \A b \in rest, k \in Kinds : ~WillClear(task[t], b, k, tracked)
      BY <1>2
    <3>5. /\ next.route = task[t].route /\ next.users = task[t].users
          /\ task[t].failed => next.failed
      BY <1>8
    <3> QED
      BY <3>1, <3>2, <3>3, <3>4, <3>5, InheritsHere
  <2> QED
    BY <1>7, <1>9, <2>6, <2>7, <2>8 DEF Faithful, Held
<1>12. \A k \in Kinds : next.made[k] = task[t].made[k]
  BY <1>5, <1>8
<1> QED
  BY <1>1, <1>8, <1>10, <1>11, <1>12, Thinking

LEMMA EditKept ==
  ASSUME NoticesInv, KeptInv, NEW t \in Tasks, Edit(t)
  PROVE  KeptInv'
<1>1. /\ Busy(t) /\ Head(task[t].todo).do = "edit" /\ Discord(live)
      /\ UNCHANGED <<tracked, config>> /\ excuses \subseteq excuses'
      /\ excuses' = excuses \cup IF Old(t) \in live[Kind(t)] THEN {} ELSE Half(t)
  BY DEF Edit, Doing
<1>2. CASE Old(t) \in live[Kind(t)] /\ Kind(t) = "eta"
  <2>1. Goes(t, [Then(t, <<>>) EXCEPT !.old["eta"] = None])
    BY <1>2 DEF Edit
  <2> QED
    BY <1>1, <1>2, <2>1, EtaKept
<1>3. CASE Old(t) \in live[Kind(t)] /\ Kind(t) # "eta"
  <2>1. Goes(t, [Then(t, <<>>) EXCEPT !.made[Kind(t)] = Old(t)])
    BY <1>3 DEF Edit
  <2> QED
    BY <1>1, <1>3, <2>1, EditedKept
<1>4. CASE Old(t) \notin live[Kind(t)] /\ Kind(t) \in Listed
  <2>1. Goes(t, Stopped(t))
    BY <1>4 DEF Edit
  <2>2. excuses' = {} => excuses = {} /\ Half(t) = {}
    BY <1>1, <1>4
  <2>3. Posts(Head(task[t].todo))
    BY <1>1 DEF Posts
  <2>4. excuses' = {} => \A k \in Kinds : task[t].made[k] \in {None, tracked[k]}
    BY <1>1, <2>2, <2>3, HalfLists
  <2> QED
    BY <1>1, <2>1, <2>4, GivingUp
<1>5. CASE Old(t) \notin live[Kind(t)] /\ Kind(t) \notin Listed
  <2>1. Goes(t, Then(t, <<Op("send", Kind(t), "stop")>> \o
                IF Kind(t) = "eta" THEN <<Op("record", "eta", "stop")>> ELSE <<>>))
    BY <1>5 DEF Edit
  <2> QED
    BY <1>1, <1>5, <2>1, ResentKept
<1> QED
  BY <1>2, <1>3, <1>4, <1>5

-----------------------------------------------------------------------------
(* Procedures.                                                               *)

\* A procedure, or the comparison and the making of a list, goes on with operations
\* of its own before the procedures that follow it.
LEMMA Proceeding ==
  ASSUME NoticesInv, KeptInv, NEW t \in Tasks, Busy(t),
         Head(task[t].todo).do \in (Procedures \cup Closing) \
                                     {"add", "activate", "set", "remove"},
         NEW ops \in Seq(Operation), Ordered(ops),
         \A a \in Range(ops) :
           /\ Closes(a, Range(ops)) /\ ~Decides(a) /\ ~Guards(a)
           /\ a.do \notin {"display", "refresh"},
         NEW next \in TaskRecord, next.todo = ops \o Tail(task[t].todo),
         next.made = task[t].made, next.route \in {task[t].route, route},
         Goes(t, next), Discord(live), UNCHANGED <<tracked, config>>,
         excuses \subseteq excuses',
         excuses' = {} => \A a \in Range(ops) : Fits(next, a, tracked, live, route, users)
  PROVE  KeptInv'
<1> DEFINE h == Head(task[t].todo)
           rest == Range(Tail(task[t].todo))
<1>1. task \in [Tasks -> TaskRecord] /\ Orderly(task[t])
  BY TypeFacts DEF NoticesInv, KeptInv
<1>2. /\ Plan(task[t]) = {h} \cup rest /\ h.do # "set"
  BY <1>1, PlanOf
<1>3. \A b \in rest : Routine(b)
  BY <1>1, RoutineRest
<1>4. task[t].made = Nothing
  BY <1>1, MadeFacts
<1>5. /\ Plan(next) = Range(ops) \cup rest /\ \A k \in Kinds : next.made[k] = None
  BY <1>1, <1>4, ThenPlan, FreeFields DEF Plan
<1> HIDE DEF h, rest
<1>6. \A b \in rest : b.do # "set" /\ ~Decides(b)
  BY <1>3 DEF Routine, Procedures, Decides
<1>7. Orderly(next)
  <2>1. ASSUME NEW a \in Range(ops), NEW b \in rest
        PROVE  Precedes(a, b)
    <3>1. /\ a.do \notin {"remove", "add", "activate", "set", "refresh"}
          /\ ~Guards(a) /\ Routine(b)
      BY <1>3, <2>1 DEF Decides
    <3>2. b.do # "record"
      BY <3>1 DEF Routine, Procedures
    <3> QED
      BY <3>1, <3>2 DEF Precedes, Allows
  <2>2. \A a \in Range(ops) : Closes(a, Plan(next)) /\ ~Decides(a)
    BY <1>5, <1>6 DEF Closes
  <2> QED
    BY <1>1, <1>5, <2>1, <2>2, Reorders DEF rest
<1>8. ASSUME excuses' = {}
      PROVE  /\ Displays(next) => next.route = task[t].route
             /\ Faithful(next, tracked, live, route, users)
  <2>1. Faithful(task[t], tracked, live, route, users)
    BY <1>8, Alone
  <2>2. ASSUME NEW a \in rest, a.do = "display"
        PROVE  users /\ task[t].route = route
    <3>1. AtHome(task[t], a, route, users)
      BY <1>2, <2>1, <2>2 DEF Faithful, Fits
    <3> QED
      BY <1>2, <1>6, <2>2, <3>1 DEF AtHome, NeedsHome
  <2>3. ASSUME NEW a \in rest
        PROVE  Fits(next, a, tracked, live, route, users)
    <3>1. NeedsHome(a) => a.do = "display"
      BY <1>3, <2>3 DEF NeedsHome, Routine, Procedures, Posts
    <3>2. AtHome(next, a, route, users)
      BY <1>5, <1>6, <2>2, <2>3, <3>1 DEF AtHome, Decides
    <3> QED
      BY <1>3, <2>3, <3>2, RoutineFits
  <2>4. Displays(next) => next.route = task[t].route
    BY <1>5, <2>2 DEF Displays
  <2> QED
    BY <1>5, <1>8, <2>3, <2>4 DEF Faithful, Held
<1> QED
  BY <1>7, <1>8, Thinking

LEMMA TwoOperations ==
  ASSUME NEW a \in Operation, NEW b \in Operation
  PROVE  /\ <<a, b>> \in Seq(Operation) /\ Range(<<a, b>>) = {a, b}
         /\ Precedes(a, b) => Ordered(<<a, b>>)
<1> DEFINE s == <<a, b>>
<1>1. s \in Seq(Operation) /\ DOMAIN s = 1 .. 2 /\ s[1] = a /\ s[2] = b
  OBVIOUS
<1>2. \A i \in 1 .. 2 : i = 1 \/ i = 2
  OBVIOUS
<1> HIDE DEF s
<1>3. Range(s) = {a, b}
  <2>1. 1 \in DOMAIN s /\ 2 \in DOMAIN s
    BY <1>1
  <2>2. \A x : x \in Range(s) <=> x = a \/ x = b
    BY <1>1, <1>2, <2>1 DEF Range
  <2> QED
    BY <2>2
<1>4. ASSUME Precedes(a, b), NEW i \in DOMAIN s, NEW j \in DOMAIN s, i < j
      PROVE  Precedes(s[i], s[j])
  <2>1. i = 1 /\ j = 2
    BY <1>1, <1>4
  <2> QED
    BY <1>1, <1>4, <2>1
<1> QED
  BY <1>1, <1>3, <1>4 DEF Ordered, s

\* Whether a message is there to be removed.
LEMMA AnyKept ==
  ASSUME NEW k \in Kinds, NEW do \in {"delete", "forget"}, NEW fail \in Fates
  PROVE  /\ Op(do, k, fail) \in Operation /\ IfAny(k, do, fail) \in Seq(Operation)
         /\ Ordered(IfAny(k, do, fail))
         /\ \A a \in Range(IfAny(k, do, fail)) :
              a.do = do /\ a.kind = k /\ a.fail = fail /\ Gentle(a)
         /\ tracked[k] # None => Op(do, k, fail) \in Range(IfAny(k, do, fail))
         /\ tracked[k] = None => IfAny(k, do, fail) = <<>>
<1> DEFINE op == Op(do, k, fail)
<1>1. op \in Operation /\ op.do = do /\ op.kind = k /\ op.fail = fail
  BY DEF Op, Operation, Deeds
<1>2. IfAny(k, do, fail) = IF tracked[k] = None THEN <<>> ELSE <<op>>
  BY DEF IfAny
<1> HIDE DEF op
<1>3. Gentle(op)
  BY <1>1 DEF Gentle
<1>4. <<op>> \in Seq(Operation) /\ Range(<<op>>) = {op} /\ Ordered(<<op>>)
  BY <1>1, OneOperation
<1>5. <<>> \in Seq(Operation) /\ Range(<<>>) = {} /\ Ordered(<<>>)
  BY RangeFacts, EmptySeq
<1> QED
  BY <1>1, <1>2, <1>3, <1>4, <1>5 DEF op

LEMMA StackKept ==
  /\ Stack \in Seq(Operation) /\ Ordered(Stack)
  /\ \A a \in Range(Stack) : a.do \in {"clear eta", "clear lists"} /\ Gentle(a)
  /\ \E a \in Range(Stack) : a.do = "clear eta"
  /\ \E a \in Range(Stack) : a.do = "clear lists"
<1> DEFINE a == Run("clear eta")
           b == Run("clear lists")
<1>1. a \in Operation /\ a.do = "clear eta" /\ b \in Operation /\ b.do = "clear lists"
  <2>1. "clear eta" \in Deeds /\ "clear lists" \in Deeds
    BY DEF Deeds
  <2> QED
    BY <2>1, Operations
<1>2. Stack = <<a, b>>
  BY DEF Stack
<1> HIDE DEF a, b
<1>3. Gentle(a) /\ Gentle(b)
  BY <1>1 DEF Gentle
<1>4. Precedes(a, b)
  BY <1>3, GentleFirst
<1>5. Stack \in Seq(Operation) /\ Ordered(Stack) /\ Range(Stack) = {a, b}
  BY <1>1, <1>2, <1>4, TwoOperations
<1> QED
  BY <1>1, <1>3, <1>5

\* Operations that rely on nothing, or on one thing.
LEMMA PlainFits ==
  ASSUME NEW tk, NEW trk, NEW msgs, NEW r, NEW u, NEW a, AtHome(tk, a, r, u),
         \/ a.do = "end" \/ (a.do = "record" /\ a.kind # "recovery")
         \/ a.do = "send" /\ Removal(tk, a.kind, trk, msgs)
         \/ a.do = "record" /\ Removal(tk, "notice", trk, msgs)
         \/ a.do = "edit" /\ Current(tk, a.kind, trk)
         \/ a.do \in {"compare", "build"} /\ \A k \in Listed : Current(tk, k, trk)
  PROVE  Fits(tk, a, trk, msgs, r, u)
BY DEF Fits, Remembers, Replaces, Leaves, Decides, Recovers

LEMMA AwayFits ==
  ASSUME NEW tk, NEW r, NEW u, NEW a, a.do \in {"send", "edit", "record", "end"},
         a.do # "end" => a.kind \notin PlayerKinds
  PROVE  AtHome(tk, a, r, u)
BY DEF AtHome, NeedsHome, Posts

\* What is there is removed before it is sent again.
LEMMA RemovedFirst ==
  ASSUME NEW tk, NEW k \in Kinds, NEW do \in {"delete", "forget"}, NoticesInv,
         Current(tk, k, tracked),
         Range(IfAny(k, do, "stop")) \subseteq Plan(tk)
  PROVE  Removal(tk, k, tracked, live)
<1>1. None \notin live[k]
  BY TypeFacts, FreeFields DEF NoticesInv
<1>2. CASE tracked[k] = None
  BY <1>1, <1>2 DEF Removal, Gone
<1>3. CASE tracked[k] # None
  <2>1. "stop" \in Fates
    BY DEF Fates
  <2>2. /\ Op(do, k, "stop") \in Range(IfAny(k, do, "stop"))
        /\ \A a \in Range(IfAny(k, do, "stop")) : a.do = do /\ a.kind = k /\ a.fail = "stop"
    BY <1>3, <2>1, AnyKept
  <2> QED
    BY <2>2 DEF Removal, Removes
<1> QED
  BY <1>2, <1>3

LEMMA RecordEnd ==
  ASSUME NEW k \in Kinds
  PROVE  /\ Op("record", k, "stop") \in Operation /\ Op("record", k, "stop").do = "record"
         /\ Op("record", k, "stop").kind = k /\ Op("record", k, "stop").fail = "stop"
         /\ End \in Operation /\ End.do = "end"
         /\ <<Op("record", k, "stop"), End>> \in Seq(Operation)
         /\ Range(<<Op("record", k, "stop"), End>>) = {Op("record", k, "stop"), End}
         /\ Ordered(<<Op("record", k, "stop"), End>>)
<1> DEFINE op == Op("record", k, "stop")
<1>1. op \in Operation /\ op.do = "record" /\ op.kind = k /\ op.fail = "stop"
  BY DEF Op, Operation, Deeds, Fates
<1>2. End \in Operation /\ End.do = "end"
  BY Operations
<1> HIDE DEF op
<1>3. Precedes(op, End)
  BY <1>1, <1>2 DEF Precedes, Procedures, Closing, Routine, Posts, Guards
<1> QED
  BY <1>1, <1>2, <1>3, TwoOperations DEF op

LEMMA AnnounceKept ==
  ASSUME NoticesInv, KeptInv, NEW t \in Tasks, NEW do \in {"announce", "post"},
         Announce(t, do)
  PROVE  KeptInv'
<1> DEFINE first == IF do = "announce" THEN IfAny("recovery", "forget", "stop") ELSE <<>>
           old == IfAny("status", "delete", "stop")
           send == Op("send", "status", "stop")
           stack == IF do = "announce" /\ task[t].users THEN Stack ELSE <<>>
           record == Op("record", "status", "stop")
           all == first \o old \o <<send>> \o stack \o <<record, End>>
           ops == IF ~Reach(task[t].route) THEN <<>> ELSE all
           kinds == {"status", "recovery"}
           next == Found(t, ops, kinds)
<1>1. task \in [Tasks -> TaskRecord] /\ TypesHold /\ kinds \in SUBSET Kinds
      /\ "status" \in Kinds /\ "recovery" \in Kinds /\ "stop" \in Fates
  BY TypeFacts DEF NoticesInv, Kinds, Fates
<1>2. /\ Busy(t) /\ Head(task[t].todo).do = do /\ Goes(t, next) /\ Discord(live)
      /\ UNCHANGED <<tracked, config, excuses>>
  BY DEF Announce, Look, Doing, OnlyThinks, Found
<1>3. /\ send \in Operation /\ send.do = "send" /\ send.kind = "status"
      /\ send.fail = "stop"
  BY DEF Op, Operation, Deeds, Kinds, Fates
<1>4. /\ record \in Operation /\ record.do = "record" /\ record.kind = "status"
      /\ record.fail = "stop" /\ End \in Operation /\ End.do = "end"
      /\ <<record, End>> \in Seq(Operation) /\ Range(<<record, End>>) = {record, End}
      /\ Ordered(<<record, End>>)
  BY <1>1, RecordEnd
<1>5. <<>> \in Seq(Operation) /\ Range(<<>>) = {} /\ Ordered(<<>>)
  BY RangeFacts, EmptySeq
<1>6. /\ first \in Seq(Operation) /\ Ordered(first)
      /\ \A a \in Range(first) : a.do = "forget" /\ a.kind = "recovery" /\ Gentle(a)
  BY <1>1, <1>5, AnyKept
<1>7. /\ old \in Seq(Operation) /\ Ordered(old)
      /\ \A a \in Range(old) : a.do = "delete" /\ a.kind = "status" /\ Gentle(a)
  BY <1>1, <1>5, AnyKept
<1>8. /\ stack \in Seq(Operation) /\ Ordered(stack)
      /\ \A a \in Range(stack) : a.do \in {"clear eta", "clear lists"} /\ Gentle(a)
  BY <1>5, StackKept
<1>9. \A tk : Current(tk, "status", tracked) /\ Range(old) \subseteq Plan(tk) =>
        Removal(tk, "status", tracked, live)
  BY <1>1, RemovedFirst
<1>10. <<send>> \in Seq(Operation) /\ Range(<<send>>) = {send} /\ Ordered(<<send>>)
  BY <1>3, OneOperation
<1>11. ops \in {<<>>, all}
  OBVIOUS
<1> HIDE DEF first, old, send, stack, record
<1> DEFINE g1 == first \o old
           g2 == g1 \o <<send>>
           g3 == g2 \o stack
<1>12. /\ g1 \in Seq(Operation) /\ Ordered(g1) /\ Range(g1) = Range(first) \cup Range(old)
  BY <1>6, <1>7, GentleJoin
<1> HIDE DEF g1
<1>13. \A a \in Range(g1) : Gentle(a)
  BY <1>6, <1>7, <1>12
<1>14. g2 \in Seq(Operation) /\ Ordered(g2) /\ Range(g2) = Range(g1) \cup {send}
  BY <1>10, <1>12, <1>13, GentleJoin
<1> HIDE DEF g2
<1>15. g3 \in Seq(Operation) /\ Ordered(g3) /\ Range(g3) = Range(g2) \cup Range(stack)
  <2>1. ASSUME NEW a \in Range(g2), NEW b \in Range(stack)
        PROVE  Precedes(a, b)
    <3>1. CASE a \in Range(g1)
      BY <1>13, <3>1, GentleFirst
    <3>2. CASE a = send
      BY <1>3, <1>8, <2>1, <3>2 DEF Precedes, Procedures, Closing, Guards, Allows
    <3> QED
      BY <1>14, <2>1, <3>1, <3>2
  <2> QED
    BY <1>8, <1>14, <2>1, JoinedOrder
<1> HIDE DEF g3
<1>16. all = g3 \o <<record, End>>
  BY DEF g1, g2, g3
<1> HIDE DEF all
<1>17. all \in Seq(Operation) /\ Ordered(all) /\ Range(all) = Range(g3) \cup {record, End}
  <2>1. ASSUME NEW a \in Range(g3), NEW b \in {record, End}
        PROVE  Precedes(a, b)
    <3>1. CASE a \in Range(g1) \cup Range(stack)
      BY <1>8, <1>13, <3>1, GentleFirst
    <3>2. CASE a = send
      BY <1>3, <1>4, <2>1, <3>2 DEF Precedes, Procedures, Closing, Guards, Allows, Records,
         Routine
    <3> QED
      BY <1>14, <1>15, <2>1, <3>1, <3>2
  <2> QED
    BY <1>4, <1>15, <1>16, <2>1, JoinedOrder
<1>18. /\ ops \in Seq(Operation) /\ Ordered(ops)
       /\ Range(ops) \subseteq Range(first) \cup Range(old) \cup {send, record, End}
                                 \cup Range(stack)
       /\ Range(ops) # {} => Range(old) \cup {record} \subseteq Range(ops)
  BY <1>5, <1>11, <1>12, <1>14, <1>15, <1>17
<1> HIDE DEF ops, kinds
<1>19. /\ next \in TaskRecord /\ next.todo = ops \o Tail(task[t].todo)
       /\ next.route = task[t].route /\ next.made = task[t].made
       /\ next.old = Reads(t, kinds)
       /\ Plan(next) = Range(ops) \cup Range(Tail(task[t].todo))
  <2>1. TypesHold /\ Busy(t) /\ ops \in Seq(Operation) /\ kinds \in SUBSET Kinds
    BY <1>1, <1>2, <1>18
  <2> QED
    BY <2>1, Reading
<1>20. \A k \in kinds : Current(next, k, tracked)
  BY <1>1, <1>19, ReadKinds DEF Current
<1> HIDE DEF next
<1>21. \A a \in Range(ops) :
         Closes(a, Range(ops)) /\ ~Decides(a) /\ ~Guards(a) /\ a.do \notin {"display", "refresh"}
  <2>1. ASSUME NEW a \in Range(ops)
        PROVE  /\ Closes(a, Range(ops)) /\ ~Decides(a) /\ ~Guards(a)
               /\ a.do \notin {"display", "refresh"}
    <3>0. "status" \notin Listed /\ "status" # "eta"
      BY SomeKinds
    <3>1. CASE a \in Range(first) \cup Range(old) \cup Range(stack)
      BY <1>6, <1>7, <1>8, <3>0, <3>1 DEF Closes, Posts, Decides, Guards
    <3>2. CASE a = send
      <4>1. record \in Range(ops) /\ Records(record, "status")
        BY <1>4, <1>18, <2>1 DEF Records
      <4> QED
        BY <1>3, <3>2, <4>1 DEF Closes, Decides, Guards
    <3>3. CASE a \in {record, End}
      BY <1>4, <3>3 DEF Closes, Posts, Decides, Guards
    <3> QED
      BY <1>18, <2>1, <3>1, <3>2, <3>3
  <2> QED
    BY <2>1
<1>22. ASSUME NEW a \in Range(ops)
       PROVE  Fits(next, a, tracked, live, route, users)
  <2>0. "status" \notin PlayerKinds /\ kinds = {"status", "recovery"}
    BY SomeKinds DEF kinds
  <2>1. CASE a \in Range(first) \cup Range(old) \cup Range(stack)
    <3>1. a.do = "forget" => Current(next, a.kind, tracked)
      BY <1>6, <1>7, <1>8, <1>20, <2>0, <2>1
    <3>2. Gentle(a)
      BY <1>6, <1>7, <1>8, <2>1
    <3> QED
      BY <3>1, <3>2, GentleFits
  <2>2. CASE a \in {send, record, End}
    <3>1. AtHome(next, a, route, users)
      BY <1>3, <1>4, <2>0, <2>2, AwayFits
    <3>2. Range(old) \subseteq Plan(next)
      BY <1>18, <1>19, <1>22
    <3>3. Removal(next, "status", tracked, live)
      BY <1>9, <1>20, <2>0, <3>2
    <3> QED
      BY <1>3, <1>4, <2>2, <3>1, <3>3, PlainFits
  <2> QED
    BY <1>18, <1>22, <2>1, <2>2
<1>23. /\ Head(task[t].todo).do \in (Procedures \cup Closing) \
                                      {"add", "activate", "set", "remove"}
  BY <1>2 DEF Procedures
<1> QED
  BY <1>2, <1>18, <1>19, <1>21, <1>22, <1>23, Proceeding

\* What replaces an operation and follows the rules whatever is around it.
OwnRules(ops) ==
  /\ ops \in Seq(Operation) /\ Ordered(ops)
  /\ \A a \in Range(ops) :
       Closes(a, Range(ops)) /\ ~Decides(a) /\ ~Guards(a) /\ a.do \notin {"display", "refresh"}

LEMMA NoRules ==
  OwnRules(<<>>) /\ Range(<<>>) = {}
BY RangeFacts, EmptySeq DEF OwnRules

LEMMA OfflineKept ==
  ASSUME NoticesInv
  PROVE  /\ OwnRules(ShowOffline)
         /\ \A tk : /\ \A k \in {"status", "recovery", "notice"} : Current(tk, k, tracked)
                    /\ Range(ShowOffline) \subseteq Plan(tk)
                    => \A a \in Range(ShowOffline) : Fits(tk, a, tracked, live, route, users)
<1> DEFINE status == IfAny("status", "forget", "stop")
           check == Op("check", "status", "stop")
           recovery == IfAny("recovery", "forget", "stop")
           notice == IfAny("notice", "delete", "stop")
           edit == Op("edit", "notice", "stop")
           send == Op("send", "notice", "stop")
           record == Op("record", "notice", "stop")
           shown == IF tracked["notice"] # None /\ tracked["notice"].channel = route
                    THEN <<edit>> ELSE notice \o <<send>>
           all == ShowOffline
<1>0. {"status", "recovery", "notice"} \subseteq Kinds /\ "stop" \in Fates
  BY DEF Kinds, Fates
<1>1. /\ check \in Operation /\ Gentle(check) /\ check.do = "check"
      /\ edit \in Operation /\ edit.do = "edit" /\ edit.kind = "notice"
      /\ send \in Operation /\ send.do = "send" /\ send.kind = "notice"
  BY DEF Op, Operation, Deeds, Kinds, Fates, Gentle
<1>2. /\ record \in Operation /\ record.do = "record" /\ record.kind = "notice"
      /\ record.fail = "stop" /\ End \in Operation /\ End.do = "end"
      /\ <<record, End>> \in Seq(Operation) /\ Range(<<record, End>>) = {record, End}
      /\ Ordered(<<record, End>>)
  BY <1>0, RecordEnd
<1>3. /\ status \in Seq(Operation)
      /\ \A a \in Range(status) : a.do = "forget" /\ a.kind = "status" /\ Gentle(a)
      /\ recovery \in Seq(Operation)
      /\ \A a \in Range(recovery) : a.do = "forget" /\ a.kind = "recovery" /\ Gentle(a)
      /\ notice \in Seq(Operation)
      /\ \A a \in Range(notice) : a.do = "delete" /\ a.kind = "notice" /\ Gentle(a)
  BY <1>0, AnyKept
<1>4. \A tk : Current(tk, "notice", tracked) /\ Range(notice) \subseteq Plan(tk) =>
        Removal(tk, "notice", tracked, live)
  BY <1>0, RemovedFirst
<1>5. /\ Stack \in Seq(Operation)
      /\ \A a \in Range(Stack) : a.do \in {"clear eta", "clear lists"} /\ Gentle(a)
  BY StackKept
<1>6. /\ <<check>> \in Seq(Operation) /\ Range(<<check>>) = {check}
      /\ <<edit>> \in Seq(Operation) /\ Range(<<edit>>) = {edit} /\ Ordered(<<edit>>)
      /\ <<send>> \in Seq(Operation) /\ Range(<<send>>) = {send} /\ Ordered(<<send>>)
  BY <1>1, OneOperation
<1> DEFINE g1 == status \o Stack
           g2 == g1 \o <<check>>
           g3 == g2 \o recovery
           g4 == g3 \o shown
<1>7. all = g4 \o <<record, End>>
  BY DEF ShowOffline
<1> HIDE DEF status, check, recovery, notice, edit, send, record, all
<1>8. g1 \in Seq(Operation) /\ Range(g1) = Range(status) \cup Range(Stack)
  BY <1>3, <1>5, JoinedOrder
<1> HIDE DEF g1
<1>9. g2 \in Seq(Operation) /\ Range(g2) = Range(g1) \cup {check}
  BY <1>6, <1>8, JoinedOrder
<1> HIDE DEF g2
<1>10. g3 \in Seq(Operation) /\ Range(g3) = Range(g2) \cup Range(recovery)
  BY <1>3, <1>9, JoinedOrder
<1> HIDE DEF g3
<1>11. Ordered(g3) /\ \A a \in Range(g3) : Gentle(a)
  BY <1>1, <1>3, <1>5, <1>8, <1>9, <1>10, GentlePlan
<1>12. /\ shown \in Seq(Operation) /\ Ordered(shown)
       /\ \/ Range(shown) = {edit}
          \/ Range(shown) = Range(notice) \cup {send}
  <2>1. notice \o <<send>> \in Seq(Operation) /\ Ordered(notice \o <<send>>)
        /\ Range(notice \o <<send>>) = Range(notice) \cup {send}
    <3>1. /\ notice \in Seq(Operation) /\ Ordered(notice)
          /\ \A a \in Range(notice) : Gentle(a)
      BY <1>3, GentlePlan
    <3>2. <<send>> \in Seq(Operation) /\ Ordered(<<send>>) /\ Range(<<send>>) = {send}
      BY <1>6
    <3> QED
      BY <3>1, <3>2, GentleJoin
  <2> QED
    BY <1>6, <2>1
<1> HIDE DEF shown
<1>13. g4 \in Seq(Operation) /\ Ordered(g4) /\ Range(g4) = Range(g3) \cup Range(shown)
  BY <1>10, <1>11, <1>12, GentleJoin
<1> HIDE DEF g4
<1>14. all \in Seq(Operation) /\ Ordered(all) /\ Range(all) = Range(g4) \cup {record, End}
  <2>1. ASSUME NEW a \in Range(g4), NEW b \in {record, End}
        PROVE  Precedes(a, b)
    <3>1. CASE Gentle(a)
      BY <3>1, GentleFirst
    <3>2. CASE a \in {edit, send}
      BY <1>1, <1>2, <2>1, <3>2 DEF Precedes, Procedures, Closing, Guards, Allows, Records,
         Routine
    <3> QED
      BY <1>3, <1>11, <1>12, <1>13, <2>1, <3>1, <3>2
  <2> QED
    BY <1>2, <1>7, <1>13, <2>1, JoinedOrder
<1>15. ASSUME NEW a \in Range(all)
       PROVE  \/ a \in Range(status) \cup Range(Stack) \cup {check} \cup Range(recovery)
                         \cup Range(notice)
              \/ a = edit \/ (a = send /\ Range(notice) \subseteq Range(all))
              \/ a \in {record, End}
  BY <1>8, <1>9, <1>10, <1>12, <1>13, <1>14, <1>15
<1>16. ASSUME NEW a \in Range(all)
       PROVE  /\ Closes(a, Range(all)) /\ ~Decides(a) /\ ~Guards(a)
              /\ a.do \notin {"display", "refresh"}
  <2>0. "notice" \notin Listed
    BY SomeKinds
  <2>1. CASE a \in Range(status) \cup Range(Stack) \cup {check} \cup Range(recovery)
                         \cup Range(notice)
    BY <1>1, <1>3, <1>5, <2>0, <2>1 DEF Closes, Posts, Decides, Guards, Gentle
  <2>2. CASE a \in {edit, send}
    <3>1. record \in Range(all) /\ Records(record, "notice")
      BY <1>2, <1>14 DEF Records
    <3> QED
      BY <1>1, <2>2, <3>1 DEF Closes, Decides, Guards
  <2>3. CASE a \in {record, End}
    BY <1>2, <2>3 DEF Closes, Posts, Decides, Guards
  <2> QED
    BY <1>15, <2>1, <2>2, <2>3
<1>17. ASSUME NEW tk, \A k \in {"status", "recovery", "notice"} : Current(tk, k, tracked),
              Range(all) \subseteq Plan(tk), NEW a \in Range(all)
       PROVE  Fits(tk, a, tracked, live, route, users)
  <2>0. "notice" \notin PlayerKinds
    BY SomeKinds
  <2>1. CASE a \in Range(status) \cup Range(Stack) \cup {check} \cup Range(recovery)
                         \cup Range(notice)
    <3>1. Gentle(a) /\ (a.do = "forget" => a.kind \in {"status", "recovery", "notice"})
      BY <1>1, <1>3, <1>5, <2>1
    <3> QED
      BY <1>17, <3>1, GentleFits
  <2>2. CASE a \in {edit, send, record, End}
    <3>1. AtHome(tk, a, route, users)
      BY <1>1, <1>2, <2>0, <2>2, AwayFits
    <3>2. a = edit => Current(tk, "notice", tracked)
      BY <1>17
    <3>3. CASE a = send /\ Range(notice) \subseteq Range(all)
      <4>1. Removal(tk, "notice", tracked, live)
        BY <1>4, <1>17, <3>3
      <4> QED
        BY <1>1, <3>1, <3>3, <4>1, PlainFits
    <3>4. CASE a \in {edit, record, End}
      BY <1>1, <1>2, <3>1, <3>2, <3>4, PlainFits
    <3>5. a = send /\ ~(Range(notice) \subseteq Range(all)) =>
            a \in {edit, record, End} \cup Range(status) \cup Range(Stack) \cup {check}
                    \cup Range(recovery) \cup Range(notice)
      BY <1>15, <1>17
    <3> QED
      BY <2>1, <2>2, <3>3, <3>4, <3>5
  <2> QED
    BY <1>15, <1>17, <2>1, <2>2
<1> QED
  BY <1>14, <1>16, <1>17 DEF OwnRules, all

LEMMA RecoveryKept ==
  ASSUME NoticesInv
  PROVE  /\ OwnRules(ShowRecovery)
         /\ \A tk : /\ Current(tk, "notice", tracked) /\ Gone("recovery", tracked, live)
                    /\ Range(ShowRecovery) \subseteq Plan(tk)
                    => \A a \in Range(ShowRecovery) : Fits(tk, a, tracked, live, route, users)
<1> DEFINE delete == Op("delete", "notice", "stop")
           send == Op("send", "recovery", "stop")
           record == Op("record", "recovery", "stop")
           s == ShowRecovery
<1>1. /\ delete \in Operation /\ delete.do = "delete" /\ delete.kind = "notice"
      /\ delete.fail = "stop"
      /\ send \in Operation /\ send.do = "send" /\ send.kind = "recovery"
      /\ record \in Operation /\ record.do = "record" /\ record.kind = "recovery"
      /\ record.fail = "stop" /\ End \in Operation /\ End.do = "end"
  BY Operations DEF Op, Operation, Deeds, Kinds, Fates
<1>2. s = <<delete, send, record, End>>
  BY DEF ShowRecovery
<1> HIDE DEF delete, send, record, s
<1>3. /\ s \in Seq(Operation) /\ DOMAIN s = 1 .. 4
      /\ s[1] = delete /\ s[2] = send /\ s[3] = record /\ s[4] = End
  BY <1>1, <1>2
<1>4. \A i \in 1 .. 4 : i = 1 \/ i = 2 \/ i = 3 \/ i = 4
  OBVIOUS
<1>5. Range(s) = {delete, send, record, End}
  <2>1. 1 \in DOMAIN s /\ 2 \in DOMAIN s /\ 3 \in DOMAIN s /\ 4 \in DOMAIN s
    BY <1>3
  <2>2. \A x : x \in Range(s) <=> x \in {delete, send, record, End}
    BY <1>3, <1>4, <2>1 DEF Range
  <2> QED
    BY <2>2
<1>6. /\ \A b : Precedes(delete, b)
      /\ Precedes(send, record) /\ Precedes(send, End) /\ Precedes(record, End)
  BY <1>1 DEF Precedes, Procedures, Closing, Guards, Posts, Allows, Records, Routine
<1>7. ASSUME NEW i \in DOMAIN s, NEW j \in DOMAIN s, i < j
      PROVE  Precedes(s[i], s[j])
  <2>1. i \in 1 .. 4 /\ j \in 1 .. 4
    BY <1>3
  <2>2. CASE i = 1
    BY <1>3, <1>6, <2>2
  <2>3. CASE i = 2
    <3>1. j = 3 \/ j = 4
      BY <1>7, <2>1, <2>3
    <3> QED
      BY <1>3, <1>6, <2>3, <3>1
  <2>4. CASE i = 3
    <3>1. j = 4
      BY <1>7, <2>1, <2>4
    <3> QED
      BY <1>3, <1>6, <2>4, <3>1
  <2>5. i # 4
    BY <1>7, <2>1
  <2> QED
    BY <1>4, <2>1, <2>2, <2>3, <2>4, <2>5
<1>8. ASSUME NEW a \in Range(s)
      PROVE  Closes(a, Range(s)) /\ ~Decides(a) /\ ~Guards(a) /\ a.do \notin {"display", "refresh"}
  <2>0. "notice" \notin Listed
    BY SomeKinds
  <2>1. CASE a \in {delete, record, End}
    BY <1>1, <2>0, <2>1 DEF Closes, Posts, Decides, Guards
  <2>2. CASE a = send
    <3>1. record \in Range(s) /\ Records(record, "recovery")
      BY <1>1, <1>5 DEF Records
    <3> QED
      BY <1>1, <2>2, <3>1 DEF Closes, Decides, Guards
  <2> QED
    BY <1>5, <1>8, <2>1, <2>2
<1>9. ASSUME NEW tk, Current(tk, "notice", tracked), Gone("recovery", tracked, live),
             Range(s) \subseteq Plan(tk), NEW a \in Range(s)
      PROVE  Fits(tk, a, tracked, live, route, users)
  <2>1. CASE a = delete
    <3>1. Gentle(a) /\ a.do # "forget"
      BY <1>1, <2>1 DEF Gentle
    <3> QED
      BY <3>1, GentleFits
  <2>2. CASE a \in {send, record, End}
    <3>1. "recovery" \notin PlayerKinds
      BY SomeKinds
    <3>2. AtHome(tk, a, route, users)
      BY <1>1, <2>2, <3>1, AwayFits
    <3>3. Removal(tk, "recovery", tracked, live)
      BY <1>9 DEF Removal
    <3>4. Removal(tk, "notice", tracked, live)
      BY <1>1, <1>5, <1>9 DEF Removal, Removes
    <3> QED
      BY <1>1, <2>2, <3>2, <3>3, <3>4, PlainFits
  <2> QED
    BY <1>5, <1>9, <2>1, <2>2
<1>10. Ordered(s)
  BY <1>7 DEF Ordered
<1> QED
  BY <1>3, <1>8, <1>9, <1>10 DEF OwnRules, s

LEMMA ReconcileKept ==
  ASSUME NoticesInv, KeptInv, NEW t \in Tasks, Reconcile(t)
  PROVE  KeptInv'
<1> DEFINE kinds == {"status", "recovery", "notice"}
           ops == CASE ~Reach(route) -> <<>>
                    [] Reach(route) /\ lifecycle = "offline" -> ShowOffline
                    [] Reach(route) /\ lifecycle = "confirmed" /\ tracked["notice"] # None ->
                         ShowRecovery
                    [] OTHER -> <<>>
           then == Then(t, ops)
           next == [then EXCEPT !.old = Reads(t, kinds), !.route = route,
                                !.ping = ShouldPing, !.failed = FALSE]
<1>1. /\ TypesHold /\ task \in [Tasks -> TaskRecord] /\ kinds \in SUBSET Kinds
      /\ route \in Places /\ pinged \in BOOLEAN
  BY TypeFacts DEF NoticesInv, Kinds
<1>2. /\ Busy(t) /\ Head(task[t].todo).do = "reconcile" /\ Goes(t, next) /\ Discord(live)
      /\ UNCHANGED <<tracked, config, excuses>>
  BY DEF Reconcile, Doing, OnlyThinks
<1>3. \/ ops = <<>> \/ ops = ShowOffline
      \/ ops = ShowRecovery /\ tracked["notice"] # None
  OBVIOUS
<1> HIDE DEF ops
<1>4. OwnRules(ops)
  BY <1>3, NoRules, OfflineKept, RecoveryKept
<1>5. ops \in Seq(Operation)
  BY <1>4 DEF OwnRules
<1>6. /\ then \in TaskRecord /\ then.made = task[t].made
      /\ then.todo = ops \o Tail(task[t].todo)
  BY <1>1, <1>2, <1>5, ThenFields
<1>7. Reads(t, kinds) \in Known /\ \A k \in kinds : Reads(t, kinds)[k] = tracked[k]
  BY <1>1, ReadsType, ReadKinds
<1> HIDE DEF then, kinds
<1>8. /\ next \in TaskRecord /\ next.todo = then.todo /\ next.made = then.made
      /\ next.route = route /\ next.old = Reads(t, kinds)
  BY <1>1, <1>6, <1>7 DEF TaskRecord, ShouldPing
<1> HIDE DEF next
<1>9. \A k \in kinds : Current(next, k, tracked)
  BY <1>7, <1>8 DEF Current
<1>10. Range(ops) \subseteq Plan(next)
  BY <1>1, <1>2, <1>5, <1>6, <1>8, ThenPlan DEF Plan
<1>11. ASSUME excuses' = {}
       PROVE  \A a \in Range(ops) : Fits(next, a, tracked, live, route, users)
  <2>1. CASE ops = <<>>
    BY <2>1, NoRules
  <2>2. CASE ops = ShowOffline
    BY <1>9, <1>10, <2>2, OfflineKept DEF kinds
  <2>3. CASE ops = ShowRecovery /\ tracked["notice"] # None
    <3>1. tracked["recovery"] = None
      BY <1>2, <1>11, <2>3 DEF NoticesInv, Undisturbed
    <3>2. Gone("recovery", tracked, live)
      BY <1>1, <3>1, TypeFacts, FreeFields DEF Gone, Kinds
    <3> QED
      BY <1>9, <1>10, <2>3, <3>2, RecoveryKept DEF kinds
  <2> QED
    BY <1>3, <2>1, <2>2, <2>3
<1>12. /\ Head(task[t].todo).do \in (Procedures \cup Closing) \
                                      {"add", "activate", "set", "remove"}
  BY <1>2 DEF Procedures
<1>13. /\ Ordered(ops)
       /\ \A a \in Range(ops) :
            Closes(a, Range(ops)) /\ ~Decides(a) /\ ~Guards(a) /\ a.do \notin {"display", "refresh"}
  BY <1>4 DEF OwnRules
<1>14. next.todo = ops \o Tail(task[t].todo) /\ next.made = task[t].made
  BY <1>6, <1>8
<1> QED
  BY <1>2, <1>5, <1>8, <1>11, <1>12, <1>13, <1>14, Proceeding

\* The time of the next update, and the comparison of the list that follows it.
UpdatePlan(c) ==
  (IF tracked["eta"] # None /\ tracked["eta"].channel = c
   THEN <<Op("edit", "eta", "stop")>>
   ELSE IfAny("eta", "delete", "stop")
        \o <<Op("send", "eta", "stop"), Op("record", "eta", "stop")>>)
  \o <<Run("compare"), End>>

LEMMA UpdateKept ==
  ASSUME NoticesInv, NEW c
  PROVE  /\ OwnRules(UpdatePlan(c))
         /\ \A tk : /\ \A k \in Listed \cup {"eta"} : Current(tk, k, tracked)
                    /\ Range(UpdatePlan(c)) \subseteq Plan(tk)
                    /\ (\A b \in Plan(tk) : b.do # "set") /\ users /\ tk.route = route
                    => \A a \in Range(UpdatePlan(c)) :
                         Fits(tk, a, tracked, live, route, users)
<1> DEFINE eta == IfAny("eta", "delete", "stop")
           edit == Op("edit", "eta", "stop")
           send == Op("send", "eta", "stop")
           record == Op("record", "eta", "stop")
           compare == Run("compare")
           first == IF tracked["eta"] # None /\ tracked["eta"].channel = c
                    THEN <<edit>> ELSE eta \o <<send, record>>
           all == UpdatePlan(c)
<1>0. "eta" \in Kinds /\ "stop" \in Fates
  BY DEF Kinds, Fates
<1>1. /\ edit \in Operation /\ edit.do = "edit" /\ edit.kind = "eta"
      /\ send \in Operation /\ send.do = "send" /\ send.kind = "eta"
      /\ record \in Operation /\ record.do = "record" /\ record.kind = "eta"
      /\ record.fail = "stop"
  BY DEF Op, Operation, Deeds, Kinds, Fates
<1>2. compare \in Operation /\ compare.do = "compare" /\ End \in Operation /\ End.do = "end"
  <2>1. "compare" \in Deeds
    BY DEF Deeds
  <2> QED
    BY <2>1, Operations
<1>3. /\ eta \in Seq(Operation)
      /\ \A a \in Range(eta) : a.do = "delete" /\ a.kind = "eta" /\ Gentle(a)
  BY <1>0, AnyKept
<1>4. \A tk : Current(tk, "eta", tracked) /\ Range(eta) \subseteq Plan(tk) =>
        Removal(tk, "eta", tracked, live)
  BY <1>0, RemovedFirst
<1>5. all = first \o <<compare, End>>
  BY DEF UpdatePlan
<1> HIDE DEF eta, edit, send, record, compare, all
<1>6. /\ Precedes(send, record) /\ Precedes(compare, End)
      /\ Precedes(edit, compare) /\ Precedes(edit, End)
      /\ Precedes(send, compare) /\ Precedes(send, End)
      /\ Precedes(record, compare) /\ Precedes(record, End)
  BY <1>1, <1>2 DEF Precedes, Procedures, Closing, Guards, Posts, Allows, Records, Routine
<1>7. /\ <<edit>> \in Seq(Operation) /\ Range(<<edit>>) = {edit} /\ Ordered(<<edit>>)
      /\ <<send, record>> \in Seq(Operation) /\ Range(<<send, record>>) = {send, record}
      /\ Ordered(<<send, record>>)
      /\ <<compare, End>> \in Seq(Operation) /\ Range(<<compare, End>>) = {compare, End}
      /\ Ordered(<<compare, End>>)
  BY <1>1, <1>2, <1>6, OneOperation, TwoOperations
<1>8. /\ first \in Seq(Operation) /\ Ordered(first)
      /\ Range(first) = {edit} \/ Range(first) = Range(eta) \cup {send, record}
  <2> DEFINE pair == <<send, record>>
             new == eta \o pair
  <2>1. new \in Seq(Operation) /\ Ordered(new) /\ Range(new) = Range(eta) \cup {send, record}
    <3>1. pair \in Seq(Operation) /\ Ordered(pair) /\ Range(pair) = {send, record}
      BY <1>7
    <3> HIDE DEF pair
    <3>2. Ordered(eta) /\ \A a \in Range(eta), b \in Range(pair) : Precedes(a, b)
      BY <1>3, GentlePlan, GentleFirst
    <3> QED
      BY <1>3, <3>1, <3>2, JoinedOrder
  <2>2. first = <<edit>> \/ first = new
    OBVIOUS
  <2> HIDE DEF first, new
  <2> QED
    BY <1>7, <2>1, <2>2
<1> HIDE DEF first
<1>9. all \in Seq(Operation) /\ Ordered(all) /\ Range(all) = Range(first) \cup {compare, End}
  <2> DEFINE pair == <<compare, End>>
  <2>0. /\ pair \in Seq(Operation) /\ Ordered(pair) /\ Range(pair) = {compare, End}
        /\ all = first \o pair
    BY <1>5, <1>7
  <2> HIDE DEF pair
  <2>1. ASSUME NEW a \in Range(first), NEW b \in {compare, End}
        PROVE  Precedes(a, b)
    <3>1. CASE Gentle(a)
      BY <3>1, GentleFirst
    <3>2. CASE a \in {edit, send, record}
      BY <1>6, <2>1, <3>2
    <3> QED
      BY <1>3, <1>8, <2>1, <3>1, <3>2
  <2> QED
    BY <1>8, <2>0, <2>1, JoinedOrder
<1>10. ASSUME NEW a \in Range(all)
       PROVE  \/ a \in Range(eta) \cup {edit, compare, End}
              \/ a \in {send, record} /\ record \in Range(all) /\ Range(eta) \subseteq Range(all)
  BY <1>8, <1>9, <1>10
<1>11. "eta" \notin Listed /\ "eta" \in PlayerKinds
  BY SomeKinds
<1>12. \A a \in Range(all) : ~Decides(a) /\ ~Guards(a) /\ a.do \notin {"display", "refresh"}
  BY <1>1, <1>2, <1>3, <1>10 DEF Decides, Guards
<1>13. ASSUME NEW a \in Range(all)
       PROVE  Closes(a, Range(all))
  <2>1. CASE a \in Range(eta)
    BY <1>3, <1>11, <1>12, <2>1 DEF Closes, Posts
  <2>2. CASE a \in {edit, compare, End, record}
    BY <1>1, <1>2, <2>2 DEF Closes, Posts
  <2>3. CASE a = send /\ record \in Range(all)
    <3>1. Records(record, "eta")
      BY <1>1 DEF Records
    <3> QED
      BY <1>1, <2>3, <3>1 DEF Closes
  <2> QED
    BY <1>10, <1>13, <2>1, <2>2, <2>3
<1>14. ASSUME NEW tk, \A k \in Listed \cup {"eta"} : Current(tk, k, tracked),
              Range(all) \subseteq Plan(tk), \A b \in Plan(tk) : b.do # "set",
              users, tk.route = route, NEW a \in Range(all)
       PROVE  Fits(tk, a, tracked, live, route, users)
  <2>1. AtHome(tk, a, route, users)
    BY <1>14 DEF AtHome
  <2>2. CASE a \in Range(eta)
    <3>1. Gentle(a) /\ a.do # "forget"
      BY <1>3, <2>2
    <3> QED
      BY <3>1, GentleFits
  <2>3. CASE a \in {edit, compare, End, record}
    <3>1. Current(tk, "eta", tracked) /\ \A k \in Listed : Current(tk, k, tracked)
      BY <1>14
    <3> QED
      BY <1>1, <1>2, <2>1, <2>3, <3>1, PlainFits
  <2>4. CASE a = send /\ Range(eta) \subseteq Range(all)
    <3>1. Removal(tk, "eta", tracked, live)
      BY <1>4, <1>14, <2>4
    <3> QED
      BY <1>1, <2>1, <2>4, <3>1, PlainFits
  <2> QED
    BY <1>10, <1>14, <2>2, <2>3, <2>4
<1> QED
  BY <1>9, <1>12, <1>13, <1>14 DEF OwnRules, all

LEMMA StackRules ==
  /\ OwnRules(Stack)
  /\ \A tk : \A a \in Range(Stack) : Fits(tk, a, tracked, live, route, users)
<1>1. \A a \in Range(Stack) : a.do \in {"clear eta", "clear lists"} /\ Gentle(a)
  BY StackKept
<1>2. \A a \in Range(Stack) :
        Closes(a, Range(Stack)) /\ ~Decides(a) /\ ~Guards(a) /\ a.do \notin {"display", "refresh"}
  BY <1>1 DEF Closes, Posts, Decides, Guards
<1>3. \A tk : \A a \in Range(Stack) : Fits(tk, a, tracked, live, route, users)
  BY <1>1, GentleFits
<1> QED
  BY <1>2, <1>3, StackKept DEF OwnRules

LEMMA DisplayKept ==
  ASSUME NoticesInv, KeptInv, NEW t \in Tasks, NEW do \in {"refresh", "display"},
         Display(t, do)
  PROVE  KeptInv'
<1> DEFINE c == IF do = "refresh" THEN route ELSE task[t].route
           due == do = "refresh" => Listable
           kinds == Listed \cup {"eta"}
           ops == CASE ~due -> <<>>
                    [] due /\ ~Reach(c) ->
                         IF \A k \in Listed : tracked[k] = None THEN <<>> ELSE Stack
                    [] OTHER -> UpdatePlan(c)
           then == Then(t, ops)
           next == [then EXCEPT !.old = Reads(t, kinds), !.route = c, !.failed = FALSE]
           h == Head(task[t].todo)
           rest == Range(Tail(task[t].todo))
<1>1. /\ TypesHold /\ task \in [Tasks -> TaskRecord] /\ kinds \in SUBSET Kinds
      /\ route \in Places /\ task[t].route \in Places /\ Orderly(task[t])
  BY TypeFacts, SomeKinds DEF NoticesInv, KeptInv, Kinds
<1>2. /\ Busy(t) /\ h.do = do /\ Goes(t, next) /\ Discord(live)
      /\ UNCHANGED <<tracked, config, excuses>>
  BY DEF Display, Doing, OnlyThinks, UpdatePlan
<1>3. \/ ops = <<>> \/ ops = Stack
      \/ ops = UpdatePlan(c) /\ due
  OBVIOUS
<1>4. c \in Places /\ c \in {task[t].route, route}
  BY <1>1
<1>5. due /\ do = "refresh" => users /\ c = route
  BY DEF Listable
<1>6. do = "display" => c = task[t].route
  OBVIOUS
<1> HIDE DEF ops, h, rest, due, c
<1>7. OwnRules(ops)
  BY <1>3, NoRules, StackRules, UpdateKept
<1>8. ops \in Seq(Operation)
  BY <1>7 DEF OwnRules
<1>9. /\ then \in TaskRecord /\ then.made = task[t].made
      /\ then.todo = ops \o Tail(task[t].todo)
  BY <1>1, <1>2, <1>8, ThenFields
<1>10. Reads(t, kinds) \in Known /\ \A k \in kinds : Reads(t, kinds)[k] = tracked[k]
  BY <1>1, ReadsType, ReadKinds
<1> HIDE DEF then, kinds
<1>11. /\ next \in TaskRecord /\ next.todo = then.todo /\ next.made = then.made
       /\ next.route = c /\ next.old = Reads(t, kinds)
  BY <1>1, <1>4, <1>9, <1>10 DEF TaskRecord
<1> HIDE DEF next
<1>12. \A k \in kinds : Current(next, k, tracked)
  BY <1>10, <1>11 DEF Current
<1>13. Plan(next) = Range(ops) \cup rest
  BY <1>1, <1>2, <1>8, <1>9, <1>11, ThenPlan DEF Plan, rest
<1>14. /\ Plan(task[t]) = {h} \cup rest
  BY <1>1, <1>2, PlanOf DEF h, rest
<1>15. h.do \in (Procedures \cup Closing) \ {"add", "activate", "set", "remove"}
  BY <1>2 DEF Procedures
<1>16. \A b \in rest : Routine(b) /\ b.do # "set"
  <2>1. \A b \in rest : Routine(b)
    BY <1>1, <1>2, <1>15, RoutineRest DEF h, rest
  <2> QED
    BY <2>1 DEF Routine, Procedures
<1>17. ASSUME excuses' = {}
       PROVE  \A a \in Range(ops) : Fits(next, a, tracked, live, route, users)
  <2>1. CASE ops = <<>>
    BY <2>1, NoRules
  <2>2. CASE ops = Stack
    BY <2>2, StackRules
  <2>3. CASE ops = UpdatePlan(c) /\ due
    <3>1. users /\ c = route
      <4>1. CASE do = "display"
        <5>1. AtHome(task[t], h, route, users)
          <6>1. Faithful(task[t], tracked, live, route, users)
            BY <1>2, <1>17, Alone
          <6> QED
            BY <1>14, <6>1 DEF Faithful, Fits
        <5> QED
          BY <1>2, <1>6, <1>14, <1>16, <4>1, <5>1 DEF AtHome, NeedsHome
      <4>2. CASE do = "refresh"
        BY <1>5, <2>3, <4>2
      <4> QED
        BY <4>1, <4>2
    <3>2. \A b \in Plan(next) : b.do # "set"
      BY <1>7, <1>13, <1>16 DEF OwnRules, Decides
    <3> QED
      BY <1>11, <1>12, <1>13, <2>3, <3>1, <3>2, UpdateKept DEF kinds
  <2> QED
    BY <1>3, <2>1, <2>2, <2>3
<1>18. /\ Ordered(ops)
       /\ \A a \in Range(ops) :
            Closes(a, Range(ops)) /\ ~Decides(a) /\ ~Guards(a) /\ a.do \notin {"display", "refresh"}
  BY <1>7 DEF OwnRules
<1>19. /\ next.todo = ops \o Tail(task[t].todo) /\ next.made = task[t].made
       /\ next.route \in {task[t].route, route}
  BY <1>4, <1>9, <1>11
<1> QED
  BY <1>2, <1>8, <1>11, <1>15, <1>17, <1>18, <1>19, Proceeding DEF h

\* What is known where the list is compared, or made.
LEMMA Listing ==
  ASSUME NoticesInv, KeptInv, NEW t \in Tasks, Busy(t),
         Head(task[t].todo).do \in {"compare", "build"},
         NEW ops, OwnRules(ops), Goes(t, Then(t, ops)), Discord(live),
         UNCHANGED <<tracked, config>>, excuses \subseteq excuses',
         \A tk : /\ excuses' = {} /\ Range(ops) \subseteq Plan(tk)
                 /\ \A k \in Listed : Current(tk, k, tracked) /\ tk.old[k] = task[t].old[k]
                 /\ \A a : AtHome(tk, a, route, users)
                 /\ tk.route = task[t].route /\ users /\ tk.route = route
                 => \A a \in Range(ops) : Fits(tk, a, tracked, live, route, users)
  PROVE  KeptInv'
<1> DEFINE next == Then(t, ops)
           h == Head(task[t].todo)
           rest == Range(Tail(task[t].todo))
<1>1. task \in [Tasks -> TaskRecord] /\ Orderly(task[t]) /\ ops \in Seq(Operation)
  BY TypeFacts DEF NoticesInv, KeptInv, OwnRules
<1>2. /\ next \in TaskRecord /\ next.todo = ops \o Tail(task[t].todo)
      /\ next.route = task[t].route /\ next.made = task[t].made
      /\ next.old = task[t].old
      /\ Range(ops \o Tail(task[t].todo)) = Range(ops) \cup rest
  BY <1>1, ThenFields, ThenPlan
<1>3. Plan(task[t]) = {h} \cup rest
  BY <1>1, PlanOf
<1>4. h.do \in (Procedures \cup Closing) \ {"add", "activate", "set", "remove"}
      /\ h.do \in {"compare", "build"} /\ Goes(t, next)
  BY DEF Closing
<1>5. \A b \in rest : Routine(b)
  BY <1>1, <1>4, RoutineRest
<1> HIDE DEF next, h, rest
<1>6. \A b \in rest : b.do # "set"
  BY <1>5 DEF Routine, Procedures
<1>7. Plan(next) = Range(ops) \cup rest
  BY <1>2 DEF Plan
<1>8. ASSUME excuses' = {}
      PROVE  \A a \in Range(ops) : Fits(next, a, tracked, live, route, users)
  <2>1. Fits(task[t], h, tracked, live, route, users)
    <3>1. Faithful(task[t], tracked, live, route, users)
      BY <1>8, Alone
    <3> QED
      BY <1>3, <3>1 DEF Faithful
  <2>2. \A k \in Listed : Current(next, k, tracked) /\ next.old[k] = task[t].old[k]
    BY <1>2, <1>4, <2>1 DEF Fits, Remembers, Current
  <2>3. users /\ task[t].route = route
    BY <1>3, <1>4, <1>6, <2>1 DEF Fits, AtHome, NeedsHome
  <2>4. \A a : AtHome(next, a, route, users)
    <3>1. \A b \in Plan(next) : b.do # "set"
      BY <1>6, <1>7 DEF OwnRules, Decides
    <3> QED
      BY <1>2, <2>3, <3>1 DEF AtHome
  <2> QED
    BY <1>2, <1>7, <1>8, <2>2, <2>3, <2>4
<1>9. /\ Ordered(ops)
      /\ \A a \in Range(ops) :
           Closes(a, Range(ops)) /\ ~Decides(a) /\ ~Guards(a) /\ a.do \notin {"display", "refresh"}
  BY DEF OwnRules
<1> QED
  BY <1>1, <1>2, <1>4, <1>8, <1>9, Proceeding DEF h

LEMMA CompareKept ==
  ASSUME NoticesInv, KeptInv, NEW t \in Tasks, Compare(t)
  PROVE  KeptInv'
<1> DEFINE build == Run("build")
           clear == Run("clear lists")
           check == Op("check", "list1", "stop")
<1>1. /\ Busy(t) /\ Head(task[t].todo).do = "compare" /\ Discord(live)
      /\ UNCHANGED <<tracked, config>> /\ excuses \subseteq excuses'
      /\ \/ Goes(t, Stopped(t)) \/ Goes(t, Then(t, <<build>>))
         \/ Goes(t, Then(t, <<clear, check, build>>))
  BY DEF Compare, Doing
<1>2. task \in [Tasks -> TaskRecord] /\ Orderly(task[t])
  BY TypeFacts DEF NoticesInv, KeptInv
<1>3. build \in Operation /\ build.do = "build" /\ clear \in Operation
      /\ clear.do = "clear lists"
  <2>1. "build" \in Deeds /\ "clear lists" \in Deeds
    BY DEF Deeds
  <2> QED
    BY <2>1, Operations
<1>4. check \in Operation /\ check.do = "check" /\ check.fail = "stop"
  BY DEF Op, Operation, Deeds, Kinds, Fates
<1>5. CASE Goes(t, Stopped(t))
  <2>1. task[t].made = Nothing
    BY <1>1, <1>2, MadeFacts DEF Closing
  <2>2. \A k \in Kinds : task[t].made[k] \in {None, tracked[k]}
    BY <2>1, FreeFields
  <2> QED
    BY <1>1, <1>5, <2>2, GivingUp
<1> HIDE DEF build, clear, check
<1>6. ASSUME NEW ops \in Seq(Operation), Ordered(ops), Range(ops) \subseteq {build, clear, check},
             Goes(t, Then(t, ops))
      PROVE  KeptInv'
  <2>1. \A a \in Range(ops) :
          Closes(a, Range(ops)) /\ ~Decides(a) /\ ~Guards(a) /\ a.do \notin {"display", "refresh"}
    BY <1>3, <1>4, <1>6 DEF Closes, Posts, Decides, Guards
  <2>2. ASSUME NEW tk, \A k \in Listed : Current(tk, k, tracked),
               \A a : AtHome(tk, a, route, users), NEW a \in Range(ops)
        PROVE  Fits(tk, a, tracked, live, route, users)
    <3>1. CASE a = build
      BY <1>3, <2>2, <3>1, PlainFits
    <3>2. CASE a \in {clear, check}
      <4>1. Gentle(a) /\ a.do # "forget"
        BY <1>3, <1>4, <3>2 DEF Gentle
      <4> QED
        BY <4>1, GentleFits
    <3> QED
      BY <1>6, <2>2, <3>1, <3>2
  <2>3. OwnRules(ops)
    BY <1>6, <2>1 DEF OwnRules
  <2>4. Head(task[t].todo).do \in {"compare", "build"}
    BY <1>1
  <2> QED
    BY <1>1, <1>6, <2>2, <2>3, <2>4, Listing
<1>7. <<build>> \in Seq(Operation) /\ Range(<<build>>) = {build} /\ Ordered(<<build>>)
  BY <1>3, OneOperation
<1>8. /\ <<clear, check, build>> \in Seq(Operation) /\ Ordered(<<clear, check, build>>)
      /\ Range(<<clear, check, build>>) = {clear, check, build}
  <2> DEFINE s == <<clear, check, build>>
  <2>1. /\ s \in Seq(Operation) /\ DOMAIN s = 1 .. 3
        /\ s[1] = clear /\ s[2] = check /\ s[3] = build
    <3>1. clear \in Operation /\ check \in Operation /\ build \in Operation
      BY <1>3, <1>4
    <3> QED
      BY <3>1
  <2>2. \A i \in 1 .. 3 : i = 1 \/ i = 2 \/ i = 3
    OBVIOUS
  <2> HIDE DEF s
  <2>3. Range(s) = {clear, check, build}
    <3>1. 1 \in DOMAIN s /\ 2 \in DOMAIN s /\ 3 \in DOMAIN s
      BY <2>1
    <3>2. \A x : x \in Range(s) <=> x \in {clear, check, build}
      BY <2>1, <2>2, <3>1 DEF Range
    <3> QED
      BY <3>2
  <2>4. Gentle(clear) /\ Gentle(check)
    BY <1>3, <1>4 DEF Gentle
  <2>5. ASSUME NEW i \in DOMAIN s, NEW j \in DOMAIN s, i < j
        PROVE  Precedes(s[i], s[j])
    <3>1. i # 3
      BY <2>1, <2>2, <2>5
    <3>2. s[i] \in {clear, check}
      BY <2>1, <2>2, <3>1
    <3> QED
      BY <2>4, <3>2, GentleFirst
  <2>6. Ordered(s)
    BY <2>5 DEF Ordered
  <2> QED
    BY <2>1, <2>3, <2>6 DEF s
<1>9. CASE Goes(t, Then(t, <<build>>))
  BY <1>6, <1>7, <1>9
<1>10. CASE Goes(t, Then(t, <<clear, check, build>>))
  BY <1>6, <1>8, <1>10
<1> QED
  BY <1>1, <1>5, <1>9, <1>10 DEF build, clear, check

LEMMA BuildKept ==
  ASSUME NoticesInv, KeptInv, NEW t \in Tasks, Build(t)
  PROVE  KeptInv'
<1> DEFINE op(k) == IF k \in InPlace(t) THEN Op("edit", k, "stop") ELSE Op("send", k, "stop")
           one == op("list1")
           two == op("list2")
           excess == IF "list2" \in InPlace(t) THEN <<Op("forget", "list2", "go on")>> ELSE <<>>
           record == Op("record", "list1", "stop")
           short == <<one>> \o excess
           both == <<one, two>>
<1>1. Listed = {"list1", "list2"} /\ Listed \subseteq Kinds /\ Listed \subseteq PlayerKinds
  BY SomeKinds DEF PlayerKinds
<1>2. PICK n \in DOMAIN Lists :
        Goes(t, Then(t, (IF n = 1 THEN short ELSE both) \o <<record>>))
  BY DEF Build
<1>3. /\ Busy(t) /\ Head(task[t].todo).do = "build" /\ Discord(live)
      /\ UNCHANGED <<tracked, config, excuses>>
  BY DEF Build, Doing, OnlyThinks
<1> DEFINE first == IF n = 1 THEN short ELSE both
           ops == first \o <<record>>
<1>4. \A k \in Listed : /\ op(k) \in Operation /\ op(k).kind = k /\ op(k).fail = "stop"
                        /\ op(k).do = IF k \in InPlace(t) THEN "edit" ELSE "send"
  BY <1>1 DEF Op, Operation, Deeds, Kinds, Fates
<1>5. /\ one \in Operation /\ one.kind = "list1"
      /\ one.do = IF "list1" \in InPlace(t) THEN "edit" ELSE "send"
      /\ two \in Operation /\ two.kind = "list2"
      /\ two.do = IF "list2" \in InPlace(t) THEN "edit" ELSE "send"
  BY <1>1, <1>4
<1>6. /\ record \in Operation /\ record.do = "record" /\ record.kind = "list1"
      /\ record.fail = "stop"
  BY DEF Op, Operation, Deeds, Kinds, Fates
<1>7. /\ excess \in Seq(Operation) /\ Ordered(excess)
      /\ \A a \in Range(excess) :
           a.do = "forget" /\ a.kind = "list2" /\ a.fail = "go on" /\ Gentle(a)
  <2> DEFINE a == Op("forget", "list2", "go on")
  <2>1. /\ a \in Operation /\ a.do = "forget" /\ a.kind = "list2" /\ a.fail = "go on"
    BY DEF Op, Operation, Deeds, Kinds, Fates
  <2>2. excess = <<a>> \/ excess = <<>>
    OBVIOUS
  <2> HIDE DEF a, excess
  <2>3. Gentle(a)
    BY <2>1 DEF Gentle
  <2>4. <<a>> \in Seq(Operation) /\ Range(<<a>>) = {a} /\ Ordered(<<a>>)
    BY <2>1, OneOperation
  <2>5. <<>> \in Seq(Operation) /\ Range(<<>>) = {} /\ Ordered(<<>>)
    BY RangeFacts, EmptySeq
  <2> QED
    BY <2>1, <2>2, <2>3, <2>4, <2>5
<1> HIDE DEF one, two, excess, record, op
<1>8. /\ Posts(one) /\ Posts(two) /\ Records(record, "list1") /\ Records(record, "list2")
      /\ ~Guards(one) /\ ~Guards(two)
  BY <1>1, <1>5, <1>6 DEF Posts, Records, Guards
<1>9. Precedes(one, two) /\ Precedes(one, record) /\ Precedes(two, record)
      /\ \A a \in Range(excess) : Precedes(one, a)
  BY <1>1, <1>5, <1>7, <1>8 DEF Precedes, Procedures, Closing, Allows, Posts
<1>10. /\ first \in Seq(Operation) /\ Ordered(first)
       /\ Range(first) = {one} \cup Range(excess) \/ Range(first) = {one, two}
  <2>1. short \in Seq(Operation) /\ Ordered(short) /\ Range(short) = {one} \cup Range(excess)
    <3>1. <<one>> \in Seq(Operation) /\ Range(<<one>>) = {one} /\ Ordered(<<one>>)
      BY <1>5, OneOperation
    <3> QED
      BY <1>7, <1>9, <3>1, JoinedOrder
  <2>2. both \in Seq(Operation) /\ Ordered(both) /\ Range(both) = {one, two}
    BY <1>5, <1>9, TwoOperations
  <2> HIDE DEF short, both
  <2> QED
    BY <2>1, <2>2
<1> HIDE DEF first
<1>11. /\ ops \in Seq(Operation) /\ Ordered(ops) /\ Range(ops) = Range(first) \cup {record}
  <2>1. <<record>> \in Seq(Operation) /\ Range(<<record>>) = {record} /\ Ordered(<<record>>)
    BY <1>6, OneOperation
  <2>2. \A a \in Range(first) : Precedes(a, record)
    BY <1>7, <1>9, <1>10, GentleFirst
  <2> QED
    BY <1>10, <2>1, <2>2, JoinedOrder
<1> HIDE DEF ops
<1>12. \A a \in Range(ops) : a \in {one, two, record} \/ a \in Range(excess)
  BY <1>10, <1>11
<1>13. OwnRules(ops)
  <2>1. ASSUME NEW a \in Range(ops)
        PROVE  /\ Closes(a, Range(ops)) /\ ~Decides(a) /\ ~Guards(a)
               /\ a.do \notin {"display", "refresh"}
    <3>1. CASE a \in {one, two}
      BY <1>5, <1>8, <1>11, <3>1 DEF Closes, Decides
    <3>2. CASE a = record
      BY <1>6, <3>2 DEF Closes, Posts, Decides, Guards
    <3>3. CASE a \in Range(excess)
      BY <1>7, <3>3 DEF Closes, Posts, Decides, Guards
    <3> QED
      BY <1>12, <2>1, <3>1, <3>2, <3>3
  <2> QED
    BY <1>11, <2>1 DEF OwnRules
<1>14. ASSUME NEW tk, excuses' = {},
              \A k \in Listed : Current(tk, k, tracked) /\ tk.old[k] = task[t].old[k],
              \A a : AtHome(tk, a, route, users),
              tk.route = task[t].route, tk.route = route, NEW a \in Range(ops)
       PROVE  Fits(tk, a, tracked, live, route, users)
  <2>1. Kept /\ \A k \in Kinds : None \notin live[k]
    BY <1>3, <1>14, Alone
  <2>2. ASSUME NEW k \in Listed, k \notin InPlace(t)
        PROVE  Removal(tk, k, tracked, live)
    <3>1. task[t].old[k] = tracked[k]
      BY <1>14, <2>2 DEF Current
    <3>2. tracked[k] # None => tracked[k].channel = route
      BY <1>1, <2>1, <2>2 DEF Kept, Home
    <3>3. tracked[k] = None
      BY <1>14, <2>2, <3>1, <3>2 DEF InPlace, OldLists
    <3> QED
      BY <1>1, <2>1, <2>2, <3>3 DEF Removal, Gone
  <2>3. CASE a \in {one, two}
    <3>1. a.kind \in Listed /\ a.do = IF a.kind \in InPlace(t) THEN "edit" ELSE "send"
      BY <1>1, <1>5, <2>3
    <3>2. a.do = "send" => Removal(tk, a.kind, tracked, live)
      BY <2>2, <3>1
    <3>3. Current(tk, a.kind, tracked) /\ AtHome(tk, a, route, users)
      BY <1>14, <3>1
    <3> QED
      BY <3>1, <3>2, <3>3, PlainFits
  <2>4. CASE a = record
    <3>1. AtHome(tk, a, route, users)
      BY <1>14
    <3> QED
      BY <1>6, <2>4, <3>1, PlainFits
  <2>5. CASE a \in Range(excess)
    <3>1. Gentle(a) /\ Current(tk, a.kind, tracked)
      BY <1>1, <1>7, <1>14, <2>5
    <3> QED
      BY <3>1, GentleFits
  <2> QED
    BY <1>12, <1>14, <2>3, <2>4, <2>5
<1>15. /\ Goes(t, Then(t, ops)) /\ Head(task[t].todo).do \in {"compare", "build"}
       /\ excuses \subseteq excuses' /\ UNCHANGED <<tracked, config>> /\ Discord(live)
       /\ Busy(t)
  BY <1>2, <1>3 DEF ops, first
<1>16. \A tk : /\ excuses' = {} /\ Range(ops) \subseteq Plan(tk)
               /\ \A k \in Listed : Current(tk, k, tracked) /\ tk.old[k] = task[t].old[k]
               /\ \A a : AtHome(tk, a, route, users)
               /\ tk.route = task[t].route /\ users /\ tk.route = route
               => \A a \in Range(ops) : Fits(tk, a, tracked, live, route, users)
  BY <1>14
<1> QED
  BY <1>13, <1>15, <1>16, Listing

LEMMA RecordKept ==
  ASSUME NoticesInv, KeptInv, NEW t \in Tasks, Record(t)
  PROVE  KeptInv'
<1> DEFINE h == Head(task[t].todo)
           rest == Range(Tail(task[t].todo))
           K == Kind(t)
           clear == Run("clear lists")
           check == Op("check", "list1", "stop")
           ops == IF K = "eta" /\ OldLists(t) # {} THEN <<clear, check>> ELSE <<>>
           then == Then(t, ops)
           next == [then EXCEPT !.made = Nothing]
<1>1. /\ TypesHold /\ task \in [Tasks -> TaskRecord] /\ Orderly(task[t])
      /\ live \in [Kinds -> SUBSET Message]
  BY TypeFacts DEF NoticesInv, KeptInv
<1>2. /\ Busy(t) /\ h.do = "record" /\ Goes(t, next) /\ Discord(live)
      /\ UNCHANGED <<config, excuses>>
      /\ tracked' = [k \in Kinds |->
           CASE k = "notice" /\ K = "recovery" -> None
             [] k \in Recorded(t) -> task[t].made[k]
             [] OTHER -> tracked[k]]
  BY DEF Record, Doing
<1>3. K \in Kinds /\ K = h.kind
  BY <1>1, <1>2, HeadOf DEF Kind
<1>4. Recorded(t) = {k \in IF K = "list1" THEN Listed ELSE {K} : task[t].made[k] # None}
  BY DEF Recorded
<1>5. clear \in Operation /\ clear.do = "clear lists" /\ check \in Operation
      /\ check.do = "check" /\ check.fail = "stop"
  <2>1. "clear lists" \in Deeds
    BY DEF Deeds
  <2>2. clear \in Operation /\ clear.do = "clear lists"
    BY <2>1, Operations
  <2>3. check \in Operation /\ check.do = "check" /\ check.fail = "stop"
    BY DEF Op, Operation, Deeds, Kinds, Fates
  <2> QED
    BY <2>2, <2>3
<1>6. ops = <<clear, check>> \/ ops = <<>>
  OBVIOUS
<1> HIDE DEF K, clear, check, ops, h, rest
<1>7. Gentle(clear) /\ Gentle(check) /\ ~Guards(check)
  BY <1>5 DEF Gentle, Guards
<1>8. ops \in Seq(Operation) /\ Ordered(ops) /\ Range(ops) \subseteq {clear, check}
  <2>1. Precedes(clear, check)
    BY <1>7, GentleFirst
  <2>2. /\ <<clear, check>> \in Seq(Operation) /\ Ordered(<<clear, check>>)
        /\ Range(<<clear, check>>) = {clear, check}
    BY <1>5, <2>1, TwoOperations
  <2>3. <<>> \in Seq(Operation) /\ Ordered(<<>>) /\ Range(<<>>) = {}
    BY RangeFacts, EmptySeq
  <2>4. CASE ops = <<>>
    BY <2>3, <2>4
  <2>5. CASE ops = <<clear, check>>
    BY <2>2, <2>5
  <2> QED
    BY <1>6, <2>4, <2>5
<1>9. /\ then \in TaskRecord /\ then.todo = ops \o Tail(task[t].todo)
      /\ then.route = task[t].route /\ then.users = task[t].users
      /\ then.old = task[t].old
      /\ Range(ops \o Tail(task[t].todo)) = Range(ops) \cup rest
  BY <1>1, <1>2, <1>8, ThenFields, ThenPlan DEF rest
<1> HIDE DEF then
<1>10. /\ next \in TaskRecord /\ next.todo = ops \o Tail(task[t].todo)
       /\ next.route = task[t].route /\ next.users = task[t].users
       /\ next.old = task[t].old /\ next.made = Nothing
  BY <1>9, FreeFields DEF TaskRecord
<1> HIDE DEF next
<1>11. Plan(next) = Range(ops) \cup rest /\ \A k \in Kinds : next.made[k] = None
  BY <1>9, <1>10, FreeFields DEF Plan
<1>12. /\ Plan(task[t]) = {h} \cup rest /\ \A b \in rest : Precedes(h, b)
  BY <1>1, <1>2, PlanOf DEF h, rest
<1>13. \A b \in rest : Routine(b) \/ (K = "eta" /\ b.do = "compare")
  BY <1>2, <1>3, <1>12 DEF Precedes
<1>14. \A b \in rest :
         /\ b.do \notin {"record", "set", "delete", "forget"} /\ ~Decides(b)
  BY <1>13 DEF Routine, Procedures, Decides
<1>15. \A k \in Kinds : task[t].made[k] # None => Records(h, k)
  BY <1>1, <1>12, <1>14 DEF Orderly, Records
<1>16. Orderly(next)
  <2>1. \A a \in Range(ops), b \in rest : Precedes(a, b)
    BY <1>7, <1>8, GentleFirst
  <2>2. \A a \in Range(ops) : Closes(a, Plan(next)) /\ ~Decides(a)
    BY <1>5, <1>8 DEF Closes, Posts, Decides
  <2> QED
    BY <1>1, <1>2, <1>8, <1>10, <1>11, <2>1, <2>2, Reorders DEF rest
<1>17. ASSUME excuses' = {}
       PROVE  /\ Displays(next) => next.route = task[t].route
              /\ Home(tracked', route', users')
              /\ Faithful(next, tracked', live, route', users')
              /\ \A k \in Kinds : \A m \in live[k] : m = tracked'[k] \/ m = next.made[k]
  <2>1. /\ Kept /\ Faithful(task[t], tracked, live, route, users)
        /\ \A k \in Kinds : \A m \in live[k] : m = tracked[k] \/ m = task[t].made[k]
        /\ \A k \in Kinds : None \notin live[k]
    BY <1>2, <1>17, Alone
  <2>2. Fits(task[t], h, tracked, live, route, users)
    BY <1>12, <2>1 DEF Faithful
  <2>3. K = "recovery" => Gone("notice", tracked, live)
    <3>1. K = "recovery" => Removal(task[t], "notice", tracked, live)
      BY <1>2, <1>3, <2>2 DEF Fits, Replaces, Recovers
    <3>2. ~\E a \in Plan(task[t]) : Removes(a, "notice")
      BY <1>2, <1>12, <1>14 DEF Removes
    <3> QED
      BY <3>1, <3>2 DEF Removal
  <2>4. \A k \in Kinds : Held(task[t], k, tracked, live, route)
    BY <2>1 DEF Faithful
  <2>5. ASSUME NEW k \in Kinds
        PROVE  \/ tracked'[k] = tracked[k] /\ (task[t].made[k] = None \/ k \notin Recorded(t))
               \/ k = "notice" /\ K = "recovery" /\ tracked'[k] = None
               \/ k \in Recorded(t) /\ tracked'[k] = task[t].made[k]
    BY <1>2, <2>5
  <2>6. ASSUME NEW k \in Kinds, task[t].made[k] # None
        PROVE  k \in Recorded(t) /\ ~(k = "notice" /\ K = "recovery")
    <3>1. K = k \/ (K = "list1" /\ k \in Listed)
      BY <1>3, <1>15, <2>6 DEF Records
    <3>2. "list1" \in Listed /\ "notice" \notin Listed
      BY SomeKinds
    <3> QED
      BY <1>4, <2>6, <3>1, <3>2
  <2>7. ASSUME NEW k \in Kinds, NEW m \in live[k]
        PROVE  m = tracked'[k]
    <3>1. CASE m = task[t].made[k]
      <4>1. task[t].made[k] # None
        BY <2>1, <2>7, <3>1
      <4> QED
        BY <2>5, <2>6, <3>1, <4>1
    <3>2. CASE m = tracked[k]
      <4>1. ~Gone(k, tracked, live)
        BY <2>7, <3>2 DEF Gone
      <4>2. k \in Recorded(t) => task[t].made[k] = tracked[k]
        <5>1. k \in Recorded(t) => task[t].made[k] # None
          BY <1>4
        <5> QED
          BY <2>4, <4>1, <5>1 DEF Held
      <4> QED
        BY <2>3, <2>5, <3>2, <4>1, <4>2
    <3> QED
      BY <2>1, <2>7, <3>1, <3>2
  <2>8. \A b \in Plan(task[t]) : b.do # "set"
    BY <1>2, <1>12, <1>14
  <2>9. Home(tracked', route, users)
    <3> SUFFICES ASSUME NEW k \in PlayerKinds, tracked'[k] # None
                 PROVE  users /\ tracked'[k].channel = route
      BY DEF Home
    <3>0. k \in Kinds
      BY SomeKinds
    <3>1. CASE tracked'[k] = tracked[k]
      BY <2>1, <3>1 DEF Kept, Home
    <3>2. CASE k \in Recorded(t) /\ tracked'[k] = task[t].made[k]
      <4>1. tracked'[k].channel = route
        BY <2>4, <3>0, <3>2 DEF Held
      <4>2. K \in PlayerKinds
        <5>1. "list1" \in PlayerKinds
          BY SomeKinds
        <5> QED
          BY <1>4, <3>2, <5>1
      <4>3. users
        BY <1>2, <1>3, <2>2, <2>8, <4>2 DEF Fits, AtHome, NeedsHome
      <4> QED
        BY <4>1, <4>3
    <3> QED
      BY <2>5, <3>0, <3>1, <3>2
  <2>10. \A k \in Listed : K = "eta" => tracked'[k] = tracked[k]
    <3>1. Listed \subseteq Kinds /\ "eta" \notin Listed /\ "notice" \notin Listed
      BY SomeKinds
    <3> QED
      BY <1>2, <1>4, <3>1
  <2>11. ASSUME NEW a \in rest
         PROVE  Fits(next, a, tracked', live, route, users)
    <3>1. Fits(task[t], a, tracked, live, route, users)
      BY <1>12, <2>1, <2>11 DEF Faithful
    <3>2. \A b \in Plan(next) : b.do # "set"
      BY <1>5, <1>8, <1>11, <1>14
    <3>3. AtHome(next, a, route, users)
      BY <1>10, <2>8, <3>1, <3>2 DEF Fits, AtHome
    <3>4. CASE Routine(a)
      BY <3>3, <3>4, RoutineFits
    <3>5. CASE a.do = "compare" /\ K = "eta"
      <4>1. \A k \in Listed : Current(next, k, tracked')
        BY <1>10, <2>10, <3>1, <3>5 DEF Fits, Remembers, Current
      <4> QED
        BY <3>3, <3>5, <4>1, PlainFits
    <3> QED
      BY <1>13, <2>11, <3>4, <3>5
  <2>12. \A a \in Range(ops) : Fits(next, a, tracked', live, route, users)
    <3>1. \A a \in Range(ops) : Gentle(a) /\ a.do # "forget"
      BY <1>5, <1>7, <1>8
    <3> QED
      BY <3>1, GentleFits
  <2>13. Faithful(next, tracked', live, route, users)
    BY <1>11, <2>11, <2>12 DEF Faithful, Held
  <2> QED
    BY <1>2, <1>10, <2>7, <2>9, <2>13 DEF config
<1> QED
  BY <1>1, <1>2, <1>10, <1>16, <1>17, Keeping

-----------------------------------------------------------------------------
(* How the commands and the monitor's cycle begin.                           *)

LEMMA Beginning ==
  ASSUME NoticesInv, KeptInv, NEW t \in Tasks, NEW next \in TaskRecord,
         next.made = Nothing, Ordered(next.todo),
         \A a \in Plan(next) : Closes(a, Plan(next)),
         task' = [task EXCEPT ![t] = next], Discord(live), UNCHANGED <<tracked, config>>,
         excuses \subseteq excuses', excuses' = {} => \A v \in Tasks : ~Busy(v),
         excuses' = {} => \A a \in Plan(next) : Fits(next, a, tracked, live, route, users)
  PROVE  KeptInv'
<1>1. /\ TypesHold /\ task \in [Tasks -> TaskRecord] /\ live \in [Kinds -> SUBSET Message]
      /\ UNCHANGED <<route, users>>
  BY TypeFacts DEF NoticesInv, config
<1>2. task'[t] = next /\ \A v \in Tasks : v # t => task'[v] = task[v]
  BY <1>1
<1>3. \A k \in Kinds : next.made[k] = None
  BY FreeFields
<1>4. \A v \in Tasks : Orderly(task'[v])
  <2>1. Orderly(next)
    BY <1>3 DEF Orderly
  <2> QED
    BY <1>2, <2>1 DEF KeptInv
<1>5. ASSUME excuses' = {}
      PROVE  Kept'
  <2>1. Kept /\ excuses = {}
    BY <1>5 DEF KeptInv
  <2>2. \A v \in Tasks : task[v] = Free
    BY <1>5 DEF NoticesInv, Steady, Busy
  <2>3. \A k \in Kinds : None \notin live[k]
    BY <1>1, FreeFields
  <2>4. ASSUME NEW k \in Kinds, NEW m \in live[k]
        PROVE  m = tracked[k]
    <3>1. \A v \in Tasks : task[v].made[k] = None
      BY <2>2, FreeFields
    <3> QED
      BY <2>1, <2>3, <3>1 DEF Kept, Accounted, MadeBy
  <2>5. \A v \in Tasks : Faithful(task'[v], tracked', live, route', users')
    <3>1. Faithful(next, tracked, live, route, users)
      BY <1>3, <1>5 DEF Faithful, Held
    <3>2. \A v \in Tasks : v # t => task'[v] = Free
      BY <1>2, <2>2
    <3> QED
      BY <1>1, <1>2, <3>1, <3>2, FreeKept
  <2>6. live' = live /\ ~abandoned'
    <3>1. \A k \in Kinds : live[k] \cap Referred(k, tracked', task') = live[k]
      BY <2>4 DEF Referred
    <3>2. live' = live
      BY <1>1, <3>1 DEF Discord
    <3> QED
      BY <2>1, <3>2 DEF Discord, Kept
  <2>7. Accounted(live, tracked', MadeBy(task'))
    BY <2>4 DEF Accounted
  <2> QED
    BY <1>1, <2>1, <2>5, <2>6, <2>7 DEF Kept
<1> QED
  BY <1>4, <1>5 DEF KeptInv

LEMMA CommandKept ==
  ASSUME NoticesInv, KeptInv, NEW ops \in Seq(Operation), NEW c \in Places, NEW u \in BOOLEAN,
         Commands(ops, c, u), Ordered(ops), \A a \in Range(ops) : Closes(a, Range(ops)),
         \A tk : /\ Kept /\ Plan(tk) = Range(ops)
                 /\ tk.route = c /\ tk.users = u /\ tk.old = tracked
                 => \A a \in Range(ops) : Fits(tk, a, tracked, live, route, users)
  PROVE  KeptInv'
<1> DEFINE next == [Free EXCEPT !.todo = ops, !.route = c, !.users = u, !.old = tracked]
<1>1. TypesHold /\ tracked \in Known /\ "command" \in Tasks /\ "monitor" \in Tasks
  BY TypeFacts DEF NoticesInv, Tasks
<1>2. /\ ~Busy("command") /\ excuses = {} /\ task' = [task EXCEPT !["command"] = next]
      /\ UNCHANGED <<tracked, config>> /\ Discord(live)
      /\ IF Busy("monitor") THEN excuses' = excuses \cup {"met"} ELSE UNCHANGED excuses
  BY DEF Commands, Meets
<1>3. /\ next \in TaskRecord /\ next.todo = ops /\ next.made = Nothing
      /\ next.route = c /\ next.users = u /\ next.old = tracked
  BY <1>1, FreeFields DEF TaskRecord
<1> HIDE DEF next
<1>4. excuses \subseteq excuses' /\ (excuses' = {} => \A v \in Tasks : ~Busy(v))
  BY <1>2 DEF Tasks
<1>5. Plan(next) = Range(ops) /\ Kept
  BY <1>2, <1>3 DEF Plan, KeptInv
<1>6. \A a \in Plan(next) :
        Closes(a, Plan(next)) /\ Fits(next, a, tracked, live, route, users)
  BY <1>3, <1>5
<1> QED
  BY <1>1, <1>2, <1>3, <1>4, <1>6, Beginning

LEMMA RunFields ==
  ASSUME NEW do \in Procedures \cup Closing
  PROVE  /\ Run(do) \in Operation /\ Run(do).do = do /\ Run(do).fail = "go on"
         /\ <<Run(do)>> \in Seq(Operation) /\ Range(<<Run(do)>>) = {Run(do)}
         /\ Ordered(<<Run(do)>>)
<1>1. do \in Deeds
  BY DEF Closing, Procedures, Deeds
<1>2. Run(do) \in Operation /\ Run(do).do = do
  BY <1>1, Operations
<1>3. Run(do).fail = "go on"
  BY DEF Run, Op
<1> QED
  BY <1>2, <1>3, OneOperation

\* What a command that takes the list of players away begins with.
Guard == Op("check", "eta", "abort")
Cleared == Stack \o <<Guard>>

LEMMA ClearedRules ==
  /\ Guard \in Operation /\ Guard.do = "check" /\ Guards(Guard)
  /\ Cleared \in Seq(Operation) /\ Ordered(Cleared)
  /\ Range(Cleared) = Range(Stack) \cup {Guard}
  /\ \A a \in Range(Cleared) :
       /\ a.do \in {"clear eta", "clear lists", "check"}
       /\ \A b : b.do \notin {"clear eta", "clear lists"} /\ b.fail # "note" => Precedes(a, b)
<1>1. Guard \in Operation /\ Guard.do = "check" /\ Guards(Guard)
  BY DEF Guard, Op, Operation, Deeds, Kinds, Fates, Guards
<1>2. /\ <<Guard>> \in Seq(Operation) /\ Range(<<Guard>>) = {Guard} /\ Ordered(<<Guard>>)
  BY <1>1, OneOperation
<1>3. /\ Stack \in Seq(Operation) /\ Ordered(Stack)
      /\ \A a \in Range(Stack) : a.do \in {"clear eta", "clear lists"} /\ Gentle(a)
  BY StackKept
<1>4. \A a \in Range(Stack) : \A b : Precedes(a, b)
  BY <1>3, GentleFirst
<1>5. Cleared \in Seq(Operation) /\ Range(Cleared) = Range(Stack) \cup {Guard}
      /\ Ordered(Cleared)
  BY <1>2, <1>3, <1>4, JoinedOrder DEF Cleared
<1>6. \A b : b.do \notin {"clear eta", "clear lists"} /\ b.fail # "note" => Precedes(Guard, b)
  BY <1>1 DEF Precedes, Procedures, Closing, Posts
<1> QED
  BY <1>1, <1>3, <1>4, <1>5, <1>6

\* It fits any state, and what is on record of the list will be cleared.
LEMMA ClearedFits ==
  /\ \A a \in Range(Cleared) :
       /\ \A plan : Closes(a, plan)
       /\ \A tk : Fits(tk, a, tracked, live, route, users)
  /\ \A tk : Range(Cleared) \subseteq Plan(tk) =>
       /\ \E b \in Plan(tk) : Guards(b)
       /\ \A k \in PlayerKinds : \E b \in Plan(tk) : WillClear(tk, b, k, tracked)
<1>1. /\ Guard.do = "check" /\ Guards(Guard) /\ Range(Cleared) = Range(Stack) \cup {Guard}
      /\ \A a \in Range(Cleared) : a.do \in {"clear eta", "clear lists", "check"}
  BY ClearedRules
<1>2. ASSUME NEW a \in Range(Cleared)
      PROVE  /\ \A plan : Closes(a, plan)
             /\ \A tk : Fits(tk, a, tracked, live, route, users)
  <2>1. a.do \in {"clear eta", "clear lists", "check"}
    BY <1>1
  <2>2. \A plan : Closes(a, plan)
    BY <2>1 DEF Closes, Posts
  <2>3. \A tk : Fits(tk, a, tracked, live, route, users)
    BY <2>1 DEF Fits, Remembers, Replaces, Leaves, Decides, Recovers, AtHome, NeedsHome, Posts
  <2> QED
    BY <2>2, <2>3
<1>3. ASSUME NEW tk, Range(Cleared) \subseteq Plan(tk), NEW k \in PlayerKinds
      PROVE  \E b \in Plan(tk) : WillClear(tk, b, k, tracked)
  <2>1. PICK a \in Range(Stack) : a.do = "clear eta"
    BY StackKept
  <2>2. PICK b \in Range(Stack) : b.do = "clear lists"
    BY StackKept
  <2>3. Clears(a, k) \/ Clears(b, k)
    BY <2>1, <2>2 DEF Clears, PlayerKinds
  <2> QED
    BY <1>1, <1>3, <2>3 DEF WillClear
<1> QED
  BY <1>1, <1>2, <1>3

LEMMA AddKept ==
  ASSUME NoticesInv, KeptInv, NEW c \in Channels, NEW u \in BOOLEAN, DefaultAdd(c, u)
  PROVE  KeptInv'
<1> DEFINE first == IF users /\ ~u THEN Cleared ELSE <<>>
           add == Run("add")
           ops == first \o <<add>>
<1>1. /\ TypesHold /\ tracked \in Known /\ c \in Places /\ c # NoChannel /\ users \in BOOLEAN
  BY TypeFacts, GuildAssumption DEF NoticesInv, Places
<1>2. \/ route \in {NoChannel, c} /\ Commands(ops, c, u)
      \/ first # <<>> /\ Commands(first, c, u)
  BY DEF DefaultAdd, Cleared, Guard
<1>3. /\ add \in Operation /\ add.do = "add" /\ add.fail = "go on"
      /\ <<add>> \in Seq(Operation) /\ Range(<<add>>) = {add} /\ Ordered(<<add>>)
  BY RunFields DEF Procedures
<1> HIDE DEF add
<1>4. /\ first \in Seq(Operation) /\ Ordered(first)
      /\ users /\ ~u => Range(Cleared) \subseteq Range(first)
      /\ \A a \in Range(first) : a \in Range(Cleared)
      /\ first # <<>> => first = Cleared
  <2>1. CASE users /\ ~u
    BY <2>1, ClearedRules
  <2>2. CASE ~(users /\ ~u)
    <3>1. first = <<>>
      BY <2>2
    <3> QED
      BY <2>2, <3>1, RangeFacts, EmptySeq
  <2> QED
    BY <2>1, <2>2
<1> HIDE DEF first
<1>5. \A a \in Range(first) : Precedes(a, add)
  BY <1>3, <1>4, ClearedRules
<1>6. ops \in Seq(Operation) /\ Ordered(ops) /\ Range(ops) = Range(first) \cup {add}
  BY <1>3, <1>4, <1>5, JoinedOrder
<1> HIDE DEF ops
<1>7. \A a \in Range(ops) : Closes(a, Range(ops))
  <2>1. Closes(add, Range(ops))
    BY <1>3 DEF Closes, Posts
  <2> QED
    BY <1>4, <1>6, <2>1, ClearedFits
<1>8. ASSUME NEW tk, Kept, route \in {NoChannel, c}, Plan(tk) = Range(ops), tk.route = c, tk.users = u, tk.old = tracked
      PROVE  Fits(tk, add, tracked, live, route, users)
  <2>1. ASSUME NEW k \in PlayerKinds, tracked[k] # None
        PROVE  users /\ route = c
    <3>1. users /\ tracked[k].channel = route
      BY <1>8, <2>1 DEF Kept, Home
    <3>2. tracked[k] \in Message
      BY <1>1, <2>1, SomeKinds DEF Known
    <3>3. route # NoChannel
      BY <3>1, <3>2, GuildAssumption DEF Message
    <3> QED
      BY <1>8, <3>1, <3>3
  <2>2. ASSUME NEW k \in Kinds
        PROVE  \/ Settled(tk, add, k, tracked, live, route)
               \/ /\ \E b \in Plan(tk) : Guards(b)
                  /\ \E b \in Plan(tk) : WillClear(tk, b, k, tracked)
    <3>1. CASE k \notin PlayerKinds \/ tracked[k] = None
      BY <1>3, <3>1 DEF Settled
    <3>2. CASE k \in PlayerKinds /\ tracked[k] # None /\ u
      BY <1>3, <1>8, <2>1, <3>2 DEF Settled
    <3>3. CASE k \in PlayerKinds /\ tracked[k] # None /\ ~u
      <4>1. Range(Cleared) \subseteq Plan(tk)
        BY <1>4, <1>6, <1>8, <2>1, <3>3
      <4> QED
        BY <3>3, <4>1, ClearedFits
    <3> QED
      BY <3>1, <3>2, <3>3
  <2>3. Leaves(tk, add, tracked, live, route)
    BY <2>2 DEF Leaves
  <2> QED
    BY <1>3, <2>3 DEF Fits, Remembers, Replaces, Recovers, AtHome, NeedsHome, Posts
<1>9. ASSUME NEW tk, Kept, route \in {NoChannel, c}, Plan(tk) = Range(ops), tk.route = c, tk.users = u, tk.old = tracked
      PROVE  \A a \in Range(ops) : Fits(tk, a, tracked, live, route, users)
  <2>1. Fits(tk, add, tracked, live, route, users)
    BY <1>8, <1>9
  <2> QED
    BY <1>4, <1>6, <2>1, ClearedFits
<1>10. CASE first # <<>> /\ Commands(first, c, u)
  BY <1>1, <1>4, <1>10, ClearedFits, CommandKept
<1>11. CASE route \in {NoChannel, c} /\ Commands(ops, c, u)
  BY <1>1, <1>6, <1>7, <1>9, <1>11, CommandKept
<1> QED
  BY <1>2, <1>10, <1>11

LEMMA ShowsRules ==
  ASSUME NEW u \in BOOLEAN
  PROVE  /\ Shows(u) \in Seq(Operation) /\ Ordered(Shows(u))
         /\ \A a \in Range(Shows(u)) :
              /\ a.do \in {"reconcile", "post", "display"} /\ a.fail = "go on"
              /\ a.do = "display" => u
<1> DEFINE reconcile == Run("reconcile")
           post == Run("post")
           display == Run("display")
<1>1. /\ reconcile.do = "reconcile" /\ reconcile.fail = "go on"
      /\ <<reconcile>> \in Seq(Operation) /\ Range(<<reconcile>>) = {reconcile}
      /\ Ordered(<<reconcile>>)
  BY RunFields DEF Procedures
<1>2. /\ post.do = "post" /\ post.fail = "go on"
      /\ <<post>> \in Seq(Operation) /\ Range(<<post>>) = {post} /\ Ordered(<<post>>)
  BY RunFields DEF Procedures
<1>3. /\ display.do = "display" /\ display.fail = "go on"
      /\ <<display>> \in Seq(Operation) /\ Range(<<display>>) = {display}
      /\ Ordered(<<display>>)
  BY RunFields DEF Procedures
<1>4. Shows(u) = IF lifecycle = "offline" THEN <<reconcile>>
                 ELSE <<post>> \o IF u THEN <<display>> ELSE <<>>
  BY DEF Shows
<1> HIDE DEF reconcile, post, display
<1>5. Precedes(post, display)
  BY <1>2, <1>3 DEF Precedes, Posts, Guards, Routine, Procedures, Closing
<1>6. /\ <<post>> \o <<display>> \in Seq(Operation) /\ Ordered(<<post>> \o <<display>>)
      /\ Range(<<post>> \o <<display>>) = {post, display}
  BY <1>2, <1>3, <1>5, JoinedOrder
<1>7. <<post>> \o <<>> = <<post>>
  BY <1>2, ConcatEmptySeq
<1>8. CASE lifecycle = "offline"
  BY <1>1, <1>4, <1>8
<1>9. CASE lifecycle # "offline" /\ u
  BY <1>2, <1>3, <1>4, <1>6, <1>9
<1>10. CASE lifecycle # "offline" /\ ~u
  BY <1>2, <1>4, <1>7, <1>10
<1> QED
  BY <1>8, <1>9, <1>10

LEMMA ModifyKept ==
  ASSUME NoticesInv, KeptInv, NEW c \in Channels, DefaultModify(c)
  PROVE  KeptInv'
<1> DEFINE first == IF users THEN Cleared ELSE <<>>
           delete == IfAny("status", "delete", "abort")
           set == Run("set")
           shows == Shows(users)
           begin == first \o delete
           most == begin \o <<set>>
           ops == most \o shows
<1>1. /\ TypesHold /\ tracked \in Known /\ c \in Places /\ users \in BOOLEAN
      /\ "status" \in Kinds /\ "abort" \in Fates /\ "status" \notin PlayerKinds
      /\ "status" \notin Listed
  BY TypeFacts, SomeKinds DEF NoticesInv, Places, Kinds, Fates
<1>2. Commands(ops, c, users)
  BY DEF DefaultModify, Cleared, Guard
<1>3. /\ set \in Operation /\ set.do = "set" /\ set.fail = "go on"
      /\ <<set>> \in Seq(Operation) /\ Range(<<set>>) = {set} /\ Ordered(<<set>>)
  BY RunFields DEF Closing
<1> HIDE DEF set
<1>4. /\ first \in Seq(Operation) /\ Ordered(first)
      /\ users => Range(Cleared) \subseteq Range(first)
      /\ \A a \in Range(first) : a \in Range(Cleared)
  <2>1. CASE users
    BY <2>1, ClearedRules
  <2>2. CASE ~users
    <3>1. first = <<>>
      BY <2>2
    <3> QED
      BY <2>2, <3>1, RangeFacts, EmptySeq
  <2> QED
    BY <2>1, <2>2
<1> HIDE DEF first
<1>5. /\ delete \in Seq(Operation) /\ Ordered(delete)
      /\ \A a \in Range(delete) :
           a.do = "delete" /\ a.kind = "status" /\ a.fail = "abort" /\ Gentle(a)
  BY <1>1, AnyKept
<1>6. /\ shows \in Seq(Operation) /\ Ordered(shows)
      /\ \A a \in Range(shows) : /\ a.do \in {"reconcile", "post", "display"}
                                 /\ a.fail = "go on" /\ (a.do = "display" => users)
  BY <1>1, ShowsRules
<1> HIDE DEF delete, shows
<1>7. /\ \A a \in Range(first), b \in Range(delete) : Precedes(a, b)
      /\ \A a \in Range(first) : Precedes(a, set)
      /\ \A a \in Range(first), b \in Range(shows) : Precedes(a, b)
  BY <1>3, <1>4, <1>5, <1>6, ClearedRules
<1>8. /\ \A a \in Range(delete) : \A b : Precedes(a, b)
      /\ \A b \in Range(shows) : Precedes(set, b)
  <2>1. \A a \in Range(delete) : \A b : Precedes(a, b)
    BY <1>5, GentleFirst
  <2>2. \A b \in Range(shows) : Precedes(set, b)
    BY <1>3, <1>6 DEF Precedes, Posts, Guards, Routine, Procedures, Closing
  <2> QED
    BY <2>1, <2>2
<1>9. begin \in Seq(Operation) /\ Ordered(begin)
      /\ Range(begin) = Range(first) \cup Range(delete)
  BY <1>4, <1>5, <1>7, JoinedOrder
<1> HIDE DEF begin
<1>10. most \in Seq(Operation) /\ Ordered(most) /\ Range(most) = Range(begin) \cup {set}
  <2>1. \A a \in Range(begin), b \in Range(<<set>>) : Precedes(a, b)
    BY <1>3, <1>7, <1>8, <1>9
  <2>2. <<set>> \in Seq(Operation) /\ Ordered(<<set>>) /\ Range(<<set>>) = {set}
    BY <1>3
  <2> QED
    BY <1>9, <2>1, <2>2, JoinedOrder
<1> HIDE DEF most
<1>11. ops \in Seq(Operation) /\ Ordered(ops)
       /\ Range(ops) = Range(first) \cup Range(delete) \cup {set} \cup Range(shows)
  <2>1. \A a \in Range(most), b \in Range(shows) : Precedes(a, b)
    BY <1>7, <1>8, <1>9, <1>10
  <2>2. ops \in Seq(Operation) /\ Ordered(ops) /\ Range(ops) = Range(most) \cup Range(shows)
    BY <1>6, <1>10, <2>1, JoinedOrder
  <2> QED
    BY <1>9, <1>10, <2>2
<1> HIDE DEF ops
<1>12. \A a \in Range(ops) : Closes(a, Range(ops))
  <2>1. Closes(set, Range(ops))
    BY <1>3 DEF Closes, Posts
  <2>2. \A a \in Range(delete) : Closes(a, Range(ops))
    BY <1>1, <1>5 DEF Closes, Posts
  <2>3. \A a \in Range(shows) : Closes(a, Range(ops))
    BY <1>6 DEF Closes, Posts
  <2>4. \A a \in Range(first) : Closes(a, Range(ops))
    BY <1>4, ClearedFits
  <2> QED
    BY <1>11, <2>1, <2>2, <2>3, <2>4
<1>13. ASSUME NEW tk, Kept, Plan(tk) = Range(ops), tk.route = c, tk.users = users,
              tk.old = tracked
       PROVE  \A a \in Range(ops) : Fits(tk, a, tracked, live, route, users)
  <2>1. ASSUME NEW k \in Kinds
        PROVE  \/ Settled(tk, set, k, tracked, live, route)
               \/ /\ \E b \in Plan(tk) : Guards(b)
                  /\ \E b \in Plan(tk) : WillClear(tk, b, k, tracked)
    <3>1. CASE k \notin PlayerKinds \/ tracked[k] = None
      BY <1>3, <3>1 DEF Settled
    <3>2. CASE k \in PlayerKinds /\ tracked[k] # None
      <4>1. users
        BY <1>13, <3>2 DEF Kept, Home
      <4>2. Range(Cleared) \subseteq Plan(tk)
        BY <1>4, <1>11, <1>13, <4>1
      <4> QED
        BY <3>2, <4>2, ClearedFits
    <3> QED
      BY <3>1, <3>2
  <2>2. Fits(tk, set, tracked, live, route, users)
    <3>1. Leaves(tk, set, tracked, live, route)
      BY <2>1 DEF Leaves
    <3> QED
      BY <1>3, <3>1 DEF Fits, Remembers, Replaces, Recovers, AtHome, NeedsHome, Posts
  <2>3. \A a \in Range(delete) : Fits(tk, a, tracked, live, route, users)
    BY <1>5, GentleFits
  <2>4. ASSUME NEW a \in Range(shows)
        PROVE  Fits(tk, a, tracked, live, route, users)
    <3>1. Routine(a) /\ (NeedsHome(a) => users)
      BY <1>6 DEF Routine, Procedures, NeedsHome, Posts
    <3>2. \E b \in Plan(tk) : b.do = "set"
      BY <1>3, <1>11, <1>13
    <3>3. AtHome(tk, a, route, users)
      BY <1>13, <3>1, <3>2 DEF AtHome
    <3> QED
      BY <3>1, <3>3, RoutineFits
  <2>5. \A a \in Range(first) : Fits(tk, a, tracked, live, route, users)
    BY <1>4, ClearedFits
  <2> QED
    BY <1>11, <2>2, <2>3, <2>4, <2>5
<1> QED
  BY <1>1, <1>2, <1>11, <1>12, <1>13, CommandKept

LEMMA AddServerKept ==
  ASSUME NoticesInv, KeptInv, NEW c \in Channels, AddServer(c)
  PROVE  KeptInv'
<1> DEFINE activate == Run("activate")
           ops == <<activate>>
<1>1. TypesHold /\ tracked \in Known /\ c \in Places /\ FALSE \in BOOLEAN
  BY TypeFacts DEF NoticesInv, Places
<1>2. route = NoChannel /\ Commands(ops, c, FALSE)
  BY DEF AddServer
<1>3. /\ activate \in Operation /\ activate.do = "activate"
      /\ ops \in Seq(Operation) /\ Range(ops) = {activate} /\ Ordered(ops)
  BY RunFields DEF Procedures
<1> HIDE DEF activate, ops
<1>4. \A a \in Range(ops) : Closes(a, Range(ops))
  BY <1>3 DEF Closes, Posts
<1>5. ASSUME NEW tk, Kept, Plan(tk) = Range(ops), tk.route = c, tk.users = FALSE,
             tk.old = tracked
      PROVE  \A a \in Range(ops) : Fits(tk, a, tracked, live, route, users)
  <2>1. ASSUME NEW k \in PlayerKinds
        PROVE  tracked[k] = None
    <3>1. tracked[k] # None => tracked[k].channel = NoChannel /\ tracked[k] \in Message
      BY <1>1, <1>2, <1>5, SomeKinds DEF Kept, Home, Known
    <3> QED
      BY <3>1, GuildAssumption DEF Message
  <2>2. \A k \in Kinds : Settled(tk, activate, k, tracked, live, route)
    BY <1>3, <2>1 DEF Settled
  <2>3. Leaves(tk, activate, tracked, live, route)
    BY <2>2 DEF Leaves
  <2> QED
    BY <1>3, <2>3 DEF Fits, Remembers, Replaces, Recovers, AtHome, NeedsHome, Posts
<1> QED
  BY <1>1, <1>2, <1>3, <1>4, <1>5, CommandKept

LEMMA CleanupRules ==
  ASSUME NoticesInv
  PROVE  /\ Cleanup \in Seq(Operation) /\ Ordered(Cleanup)
         /\ \A a \in Range(Cleanup) : Closes(a, Range(Cleanup))
         /\ \A tk : Plan(tk) = Range(Cleanup) /\ tk.old = tracked =>
              \A a \in Range(Cleanup) : Fits(tk, a, tracked, live, route, users)
<1> DEFINE remove == Run("remove")
           status == IfAny("status", "delete", "note")
           notice == IfAny("notice", "delete", "note")
           recovery == IfAny("recovery", "delete", "note")
           s1 == status \o notice
           s2 == s1 \o recovery
           s3 == s2 \o Stack
           last == <<Guard, remove>>
           all == Cleanup
<1>1. /\ {"status", "notice", "recovery"} \subseteq Kinds /\ "note" \in Fates
      /\ Kinds \ PlayerKinds = {"status", "notice", "recovery"}
      /\ Listed \subseteq PlayerKinds
  BY SomeKinds DEF Kinds, Fates, PlayerKinds
<1>2. /\ remove \in Operation /\ remove.do = "remove" /\ remove.fail = "go on"
  BY RunFields DEF Closing
<1> HIDE DEF remove
<1>3. /\ last \in Seq(Operation) /\ Range(last) = {Guard, remove} /\ Ordered(last)
  <2>1. Precedes(Guard, remove)
    BY <1>2, ClearedRules DEF Precedes, Procedures, Closing, Posts
  <2> QED
    BY <1>2, <2>1, ClearedRules, TwoOperations
<1>4. /\ status \in Seq(Operation) /\ notice \in Seq(Operation) /\ recovery \in Seq(Operation)
      /\ \A a \in Range(status) :
           a.do = "delete" /\ a.kind = "status" /\ a.fail = "note" /\ Gentle(a)
      /\ \A a \in Range(notice) :
           a.do = "delete" /\ a.kind = "notice" /\ a.fail = "note" /\ Gentle(a)
      /\ \A a \in Range(recovery) :
           a.do = "delete" /\ a.kind = "recovery" /\ a.fail = "note" /\ Gentle(a)
  BY <1>1, AnyKept
<1>5. ASSUME NEW k \in Kinds \ PlayerKinds, tracked[k] # None
      PROVE  \E a \in Range(status) \cup Range(notice) \cup Range(recovery) :
               a.do = "delete" /\ a.kind = k /\ a.fail = "note"
  <2>1. Op("delete", k, "note") \in Range(IfAny(k, "delete", "note"))
    BY <1>1, <1>5, AnyKept
  <2>2. \A a \in Range(IfAny(k, "delete", "note")) :
          a.do = "delete" /\ a.kind = k /\ a.fail = "note"
    BY <1>1, AnyKept
  <2>3. Range(IfAny(k, "delete", "note")) \subseteq
          Range(status) \cup Range(notice) \cup Range(recovery)
    BY <1>1
  <2> QED
    BY <2>1, <2>2, <2>3
<1>6. all = s3 \o last
  BY DEF Cleanup, Guard, remove
<1> HIDE DEF status, notice, recovery, last, all
<1>7. s1 \in Seq(Operation) /\ Range(s1) = Range(status) \cup Range(notice)
  BY <1>4, JoinedOrder
<1> HIDE DEF s1
<1>8. s2 \in Seq(Operation) /\ Range(s2) = Range(s1) \cup Range(recovery)
  BY <1>4, <1>7, JoinedOrder
<1> HIDE DEF s2
<1>9. s3 \in Seq(Operation) /\ Range(s3) = Range(s2) \cup Range(Stack)
  BY <1>8, StackKept, JoinedOrder
<1> HIDE DEF s3
<1>10. \A a \in Range(s3) : Gentle(a) /\ a.do \in {"delete", "clear eta", "clear lists"}
                            /\ (a.do = "delete" => a.kind \notin PlayerKinds)
  BY <1>1, <1>4, <1>7, <1>8, <1>9, StackKept
<1>11. all \in Seq(Operation) /\ Ordered(all) /\ Range(all) = Range(s3) \cup {Guard, remove}
  <2>1. Ordered(s3) /\ \A a \in Range(s3), b \in Range(last) : Precedes(a, b)
    BY <1>9, <1>10, GentlePlan, GentleFirst
  <2> QED
    BY <1>3, <1>6, <1>9, <2>1, JoinedOrder
<1>12. \A a \in Range(all) : Closes(a, Range(all))
  <2>1. \A a \in Range(s3) : Closes(a, Range(all))
    BY <1>1, <1>10 DEF Closes, Posts, PlayerKinds
  <2>2. Closes(Guard, Range(all)) /\ Closes(remove, Range(all))
    BY <1>2, ClearedRules DEF Closes, Posts
  <2> QED
    BY <1>11, <2>1, <2>2
<1>13. ASSUME NEW tk, Plan(tk) = Range(all), tk.old = tracked
       PROVE  \A a \in Range(all) : Fits(tk, a, tracked, live, route, users)
  <2>1. Range(Cleared) \subseteq Plan(tk)
    BY <1>9, <1>11, <1>13, ClearedRules
  <2>2. ASSUME NEW k \in Kinds
        PROVE  \/ Settled(tk, remove, k, tracked, live, route)
               \/ /\ \E b \in Plan(tk) : Guards(b)
                  /\ \E b \in Plan(tk) : WillClear(tk, b, k, tracked)
    <3>1. CASE k \in PlayerKinds
      BY <2>1, <3>1, ClearedFits
    <3>2. CASE k \notin PlayerKinds /\ tracked[k] = None
      <4>1. None \notin live[k]
        BY TypeFacts, FreeFields DEF NoticesInv
      <4> QED
        BY <3>2, <4>1 DEF Settled, Gone
    <3>3. CASE k \notin PlayerKinds /\ tracked[k] # None
      <4>1. PICK a \in Plan(tk) : a.do = "delete" /\ a.kind = k /\ a.fail = "note"
        BY <1>5, <1>7, <1>8, <1>9, <1>11, <1>13, <3>3
      <4>2. WillClear(tk, a, k, tracked)
        BY <1>13, <3>3, <4>1 DEF WillClear, Removes, Current
      <4> QED
        BY <2>1, <4>2, ClearedFits
    <3> QED
      BY <3>1, <3>2, <3>3
  <2>3. Fits(tk, remove, tracked, live, route, users)
    <3>1. Leaves(tk, remove, tracked, live, route)
      BY <2>2 DEF Leaves
    <3> QED
      BY <1>2, <3>1 DEF Fits, Remembers, Replaces, Recovers, AtHome, NeedsHome, Posts
  <2>4. \A a \in Range(s3) : Fits(tk, a, tracked, live, route, users)
    BY <1>10, GentleFits
  <2>5. Guard \in Range(Cleared)
    BY ClearedRules
  <2> QED
    BY <1>11, <2>3, <2>4, <2>5, ClearedFits
<1> QED
  BY <1>11, <1>12, <1>13 DEF all

LEMMA RemoveKept ==
  ASSUME NoticesInv, KeptInv, DefaultRemove \/ DelServer
  PROVE  KeptInv'
<1>1. Commands(Cleanup, NoChannel, FALSE)
  BY DEF DelServer, DefaultRemove
<1>2. NoChannel \in Places /\ FALSE \in BOOLEAN
  BY DEF Places
<1> QED
  BY <1>1, <1>2, CleanupRules, CommandKept

LEMMA CycleKept ==
  ASSUME NoticesInv, KeptInv, Cycle
  PROVE  KeptInv'
<1>1. TypesHold /\ task \in [Tasks -> TaskRecord] /\ "monitor" \in Tasks
      /\ route \in Places /\ users \in BOOLEAN
  BY TypeFacts DEF NoticesInv, Tasks
<1>2. PICK fresh \in BOOLEAN, newMap \in BOOLEAN :
        LET seen == IF newMap /\ map = "current" THEN "old" ELSE map
            default == route # NoChannel
        IN  task' = [task EXCEPT !["monitor"] =
              [Free EXCEPT !.route = route, !.users = users,
                 !.todo = (IF default /\ seen = "old" /\ fresh THEN <<Run("announce")>>
                           ELSE <<>>)
                          \o <<Run("reconcile")>>
                          \o (IF fresh THEN <<Run("refresh")>> ELSE <<>>)]]
  BY DEF Cycle
<1> DEFINE seen == IF newMap /\ map = "current" THEN "old" ELSE map
           announce == Run("announce")
           reconcile == Run("reconcile")
           refresh == Run("refresh")
           first == IF route # NoChannel /\ seen = "old" /\ fresh THEN <<announce>> ELSE <<>>
           last == IF fresh THEN <<refresh>> ELSE <<>>
           most == first \o <<reconcile>>
           todo == most \o last
           next == [Free EXCEPT !.route = route, !.users = users, !.todo = todo]
<1>3. /\ \A t \in Tasks : ~Busy(t)
      /\ Discord(live) /\ UNCHANGED <<config, tracked, excuses>>
  BY DEF Cycle
<1>4. task' = [task EXCEPT !["monitor"] = next]
  BY <1>2
<1>5. /\ announce.do = "announce" /\ announce \in Operation
      /\ <<announce>> \in Seq(Operation) /\ Range(<<announce>>) = {announce}
      /\ reconcile.do = "reconcile" /\ reconcile \in Operation
      /\ <<reconcile>> \in Seq(Operation) /\ Range(<<reconcile>>) = {reconcile}
      /\ refresh.do = "refresh" /\ refresh \in Operation
      /\ <<refresh>> \in Seq(Operation) /\ Range(<<refresh>>) = {refresh}
  BY RunFields DEF Procedures
<1> HIDE DEF announce, reconcile, refresh
<1>6. /\ first \in Seq(Operation) /\ last \in Seq(Operation)
      /\ Range(first) \subseteq {announce} /\ Range(last) \subseteq {refresh}
  BY <1>5, RangeFacts, EmptySeq
<1> HIDE DEF first, last
<1>7. most \in Seq(Operation) /\ Range(most) = Range(first) \cup {reconcile}
  <2>1. <<reconcile>> \in Seq(Operation) /\ Range(<<reconcile>>) = {reconcile}
    BY <1>5
  <2>2. first \in Seq(Operation)
    BY <1>6
  <2> QED
    BY <2>1, <2>2, JoinedOrder
<1> HIDE DEF most
<1>8. todo \in Seq(Operation) /\ Range(todo) = Range(most) \cup Range(last)
  BY <1>6, <1>7, JoinedOrder
<1> HIDE DEF todo
<1>9. \A a \in Range(todo) : a.do \in {"announce", "reconcile", "refresh"}
  BY <1>5, <1>6, <1>7, <1>8
<1>10. next \in TaskRecord /\ next.todo = todo /\ next.made = Nothing
  BY <1>1, <1>8, FreeFields DEF TaskRecord
<1> HIDE DEF next
<1>11. Ordered(todo)
  <2>1. Precedes(announce, reconcile) /\ Precedes(announce, refresh)
        /\ Precedes(reconcile, refresh)
    BY <1>5 DEF Precedes, Routine, Procedures, Closing, Posts, Guards
  <2>2. Ordered(first) /\ Ordered(last) /\ Ordered(<<reconcile>>)
    BY <1>5, <1>6, OneOperation, RangeFacts DEF first, last
  <2>3. Ordered(most)
    <3>1. <<reconcile>> \in Seq(Operation) /\ Range(<<reconcile>>) = {reconcile}
      BY <1>5
    <3>2. \A a \in Range(first), b \in Range(<<reconcile>>) : Precedes(a, b)
      BY <1>6, <2>1, <3>1
    <3>3. Ordered(first \o <<reconcile>>)
      BY <1>6, <2>2, <3>1, <3>2, JoinedOrder
    <3> QED
      BY <3>3 DEF most
  <2>4. \A a \in Range(most), b \in Range(last) : Precedes(a, b)
    BY <1>6, <1>7, <2>1
  <2>5. Ordered(most \o last)
    BY <1>6, <1>7, <2>2, <2>3, <2>4, JoinedOrder
  <2> QED
    BY <2>5 DEF todo
<1>12. ASSUME NEW a \in Plan(next)
       PROVE  Closes(a, Plan(next)) /\ Fits(next, a, tracked, live, route, users)
  <2>1. a.do \in {"announce", "reconcile", "refresh"}
    BY <1>9, <1>10 DEF Plan
  <2>2. Routine(a) /\ AtHome(next, a, route, users)
    BY <2>1 DEF Routine, Procedures, AtHome, NeedsHome, Posts
  <2> QED
    BY <2>1, <2>2, RoutineFits DEF Closes, Posts
<1> QED
  BY <1>1, <1>3, <1>4, <1>10, <1>11, <1>12, Beginning

-----------------------------------------------------------------------------
(* What the commands decide.                                                 *)

\* Where nothing is left to check, all that the decision is about is settled.
LEMMA Deciding ==
  ASSUME NoticesInv, KeptInv, excuses = {}, NEW t \in Tasks, Busy(t),
         Decides(Head(task[t].todo))
  PROVE  /\ task[t].made = Nothing /\ Kept
         /\ \A k \in Kinds :
              /\ Settled(task[t], Head(task[t].todo), k, tracked, live, route)
              /\ None \notin live[k] /\ live[k] \subseteq {tracked[k]}
<1> DEFINE h == Head(task[t].todo)
           rest == Range(Tail(task[t].todo))
<1>1. task \in [Tasks -> TaskRecord] /\ Orderly(task[t])
  BY TypeFacts DEF NoticesInv, KeptInv
<1>2. h.do \in {"set", "add", "activate", "remove"}
  BY DEF Decides
<1>3. Plan(task[t]) = {h} \cup rest /\ h \in Plan(task[t]) /\ \A b \in rest : Precedes(h, b)
  BY <1>1, PlanOf
<1>4. task[t].made = Nothing
  <2>1. h.do \in Procedures \cup Closing \cup {"check", "delete"}
    BY <1>2 DEF Procedures, Closing
  <2> QED
    BY <1>1, <2>1, MadeFacts
<1> HIDE DEF rest, h
<1>5. \A b \in Plan(task[t]) : ~Guards(b)
  <2>1. ~Guards(h)
    BY <1>2 DEF Guards
  <2>2. \A b \in rest : Routine(b)
    BY <1>2, <1>3 DEF Precedes, Closing
  <2>3. \A b \in rest : ~Guards(b)
    BY <2>2 DEF Routine, Procedures, Guards
  <2> QED
    BY <1>3, <2>1, <2>3
<1>6. /\ Kept /\ Faithful(task[t], tracked, live, route, users)
      /\ \A k \in Kinds : \A m \in live[k] : m = tracked[k] \/ m = task[t].made[k]
      /\ \A k \in Kinds : None \notin live[k]
  BY Alone
<1>7. Decides(h) /\ Leaves(task[t], h, tracked, live, route)
  BY <1>3, <1>6 DEF Faithful, Fits, h
<1>8. \A k \in Kinds : Settled(task[t], h, k, tracked, live, route)
  BY <1>5, <1>7 DEF Leaves
<1>9. \A k \in Kinds : live[k] \subseteq {tracked[k]}
  BY <1>4, <1>6, FreeFields
<1> QED
  BY <1>4, <1>6, <1>8, <1>9 DEF h

LEMMA SetsKept ==
  ASSUME NoticesInv, KeptInv, NEW do \in {"set", "activate", "add"}, Doing("command", do),
         NEW ops \in Seq(Operation), Ordered(ops),
         \A a \in Range(ops) :
           Routine(a) /\ (a.do = "display" => task["command"].users) /\ do # "set",
         Sets(ops)
  PROVE  KeptInv'
<1> DEFINE t == "command"
           h == Head(task[t].todo)
           rest == Range(Tail(task[t].todo))
           next == Then(t, ops)
<1>1. /\ task \in [Tasks -> TaskRecord] /\ live \in [Kinds -> SUBSET Message]
      /\ t \in Tasks /\ Orderly(task[t])
  BY TypeFacts DEF NoticesInv, KeptInv, Tasks
<1>2. /\ Busy(t) /\ h.do = do /\ Goes(t, next) /\ Discord(live)
      /\ route' = task[t].route /\ users' = task[t].users
      /\ UNCHANGED <<tracked, excuses>>
  BY DEF Doing, Sets
<1>3. /\ next \in TaskRecord /\ next.todo = ops \o Tail(task[t].todo)
      /\ next.route = task[t].route /\ next.made = task[t].made
      /\ Plan(next) = Range(ops) \cup rest
  BY <1>1, <1>2, ThenFields, ThenPlan DEF Plan
<1>4. h \in Plan(task[t]) /\ rest \subseteq Plan(task[t]) /\ \A b \in rest : Precedes(h, b)
  BY <1>1, <1>2, PlanOf
<1>5. task[t].made = Nothing /\ \A k \in Kinds : next.made[k] = None
  <2>1. h.do \in Procedures \cup Closing \cup {"check", "delete"}
    BY <1>2 DEF Procedures, Closing
  <2> QED
    BY <1>1, <1>2, <1>3, <2>1, MadeFacts, FreeFields
<1>6. \A b \in rest : Routine(b) /\ do = "set"
  BY <1>2, <1>4 DEF Precedes, Closing
<1>7. ASSUME excuses' = {}
      PROVE  /\ Home(tracked', route', users')
             /\ Faithful(next, tracked', live, route', users')
             /\ \A k \in Kinds : \A m \in live[k] : m = tracked'[k] \/ m = next.made[k]
  <2>1. Decides(h) /\ excuses = {}
    BY <1>2, <1>7 DEF Decides
  <2>2. /\ Kept /\ Faithful(task[t], tracked, live, route, users)
        /\ \A k \in Kinds : /\ Settled(task[t], h, k, tracked, live, route)
                            /\ live[k] \subseteq {tracked[k]}
    BY <1>1, <1>2, <2>1, Deciding, Alone
  <2>3. Home(tracked', route', users')
    BY <1>2, <2>2, SomeKinds DEF Kept, Home, Settled
  <2>4. ASSUME NEW a \in Plan(next)
        PROVE  Fits(next, a, tracked', live, route', users')
    <3>1. Routine(a) /\ (NeedsHome(a) => a.do = "display")
      BY <1>3, <1>6 DEF Routine, Procedures, NeedsHome, Posts
    <3>2. ASSUME a.do = "display"
          PROVE  users'
      <4>1. CASE a \in Range(ops)
        BY <1>2, <3>2, <4>1
      <4>2. CASE a \in rest
        <5>1. AtHome(task[t], a, route, users)
          BY <1>4, <2>2, <4>2 DEF Faithful, Fits
        <5>2. \E b \in Plan(task[t]) : b.do = "set"
          BY <1>2, <1>4, <1>6, <4>2
        <5> QED
          BY <1>2, <3>2, <5>1, <5>2 DEF AtHome, NeedsHome
      <4> QED
        BY <1>3, <4>1, <4>2
    <3>3. ~\E b \in Plan(next) : b.do = "set"
      BY <1>3, <1>6 DEF Routine, Procedures
    <3>4. AtHome(next, a, route', users')
      BY <1>2, <1>3, <3>1, <3>2, <3>3 DEF AtHome
    <3> QED
      BY <3>1, <3>4, RoutineFits
  <2>5. Faithful(next, tracked', live, route', users')
    BY <1>5, <2>4 DEF Faithful, Held
  <2> QED
    BY <1>2, <2>2, <2>3, <2>5
<1>8. Orderly(next)
  <2>1. \A a \in Range(ops) : Closes(a, Plan(next)) /\ ~Decides(a)
    BY DEF Routine, Procedures, Closes, Posts, Decides
  <2>2. \A a \in Range(ops), b \in rest : Precedes(a, b)
    BY <1>6
  <2> HIDE DEF next, t
  <2> QED
    BY <1>1, <1>2, <1>3, <1>5, <2>1, <2>2, Reorders
<1>9. (Displays(next) => next.route = task[t].route) /\ excuses \subseteq excuses'
  BY <1>2, <1>3
<1> HIDE DEF next, t
<1> QED
  BY <1>1, <1>2, <1>3, <1>7, <1>8, <1>9, Keeping

LEMMA DecisionKept ==
  ASSUME NoticesInv, KeptInv, Moved \/ Added \/ Activated \/ Confirmed
  PROVE  KeptInv'
<1>1. /\ TypesHold /\ task \in [Tasks -> TaskRecord] /\ "command" \in Tasks
      /\ task["command"].users \in BOOLEAN /\ Orderly(task["command"])
  BY TypeFacts DEF NoticesInv, KeptInv, Tasks, TaskRecord
<1>2. CASE Moved
  BY <1>2, NoRules, SetsKept DEF Moved, OwnRules
<1>3. CASE Activated
  <2>1. /\ <<Run("confirm")>> \in Seq(Operation) /\ Ordered(<<Run("confirm")>>)
        /\ \A a \in Range(<<Run("confirm")>>) : a.do = "confirm"
    BY RunFields DEF Procedures
  <2>2. \A a \in Range(<<Run("confirm")>>) : Routine(a) /\ a.do # "display"
    BY <2>1 DEF Routine, Procedures
  <2> QED
    BY <1>3, <2>1, <2>2, SetsKept DEF Activated
<1>4. CASE Added /\ lifecycle # "grace"
  <2> DEFINE ops == Shows(task["command"].users)
  <2>1. /\ ops \in Seq(Operation) /\ Ordered(ops)
        /\ \A a \in Range(ops) : /\ a.do \in {"reconcile", "post", "display"}
                                 /\ a.do = "display" => task["command"].users
    BY <1>1, ShowsRules
  <2>2. Doing("command", "add") /\ Sets(ops)
    BY <1>4 DEF Added
  <2> HIDE DEF ops
  <2>3. \A a \in Range(ops) : Routine(a)
    BY <2>1 DEF Routine, Procedures
  <2> QED
    BY <2>1, <2>2, <2>3, SetsKept
<1>5. CASE Added /\ lifecycle = "grace"
  <2> DEFINE next == [task["command"] EXCEPT !.todo = <<>>]
  <2>1. Doing("command", "add") /\ Goes("command", next) /\ OnlyThinks
    BY <1>5 DEF Added
  <2>2. next.todo = <<>> /\ Free.todo = <<>>
    BY <1>1, FreeFields DEF TaskRecord
  <2>3. Goes("command", Free)
    BY <2>1, <2>2 DEF Goes
  <2>4. Busy("command") /\ Head(task["command"].todo).do = "add"
    BY <2>1 DEF Doing
  <2>5. task["command"].made = Nothing
    BY <1>1, <2>4, MadeFacts DEF Procedures
  <2>6. /\ UNCHANGED <<tracked, config>> /\ excuses \subseteq excuses' /\ Discord(live)
        /\ \A k \in Kinds : task["command"].made[k] \in {None, tracked[k]}
    BY <2>1, <2>5, FreeFields DEF OnlyThinks
  <2> QED
    BY <1>1, <2>3, <2>4, <2>6, GivingUp
<1>6. CASE Confirmed
  <2>1. PICK ops \in {<<>>, <<Run("post")>>} : Goes("command", Then("command", ops))
    BY <1>6 DEF Confirmed
  <2>2. /\ Busy("command") /\ Head(task["command"].todo).do = "confirm"
        /\ UNCHANGED <<tracked, config, excuses>> /\ Discord(live)
    BY <1>6 DEF Confirmed, Doing, OnlyThinks
  <2>3. ops \in Seq(Operation) /\ Ordered(ops) /\ \A a \in Range(ops) : a.do = "post"
    <3>1. CASE ops = <<>>
      BY <3>1, RangeFacts, EmptySeq
    <3>2. CASE ops = <<Run("post")>>
      BY <3>2, RunFields DEF Procedures
    <3> QED
      BY <3>1, <3>2
  <2> DEFINE next == Then("command", ops)
  <2>4. /\ next \in TaskRecord /\ next.todo = ops \o Tail(task["command"].todo)
        /\ next.route = task["command"].route /\ next.made = task["command"].made
    BY <1>1, <2>2, <2>3, ThenFields
  <2> HIDE DEF next
  <2>5. \A a \in Range(ops) :
          /\ Closes(a, Range(ops)) /\ ~Decides(a) /\ ~Guards(a)
          /\ a.do \notin {"display", "refresh"}
          /\ Fits(next, a, tracked, live, route, users)
    <3>1. \A a \in Range(ops) : Routine(a) /\ AtHome(next, a, route, users)
      BY <2>3 DEF Routine, Procedures, AtHome, NeedsHome, Posts
    <3> QED
      BY <2>3, <3>1, RoutineFits DEF Closes, Posts, Decides, Guards
  <2>6. /\ Head(task["command"].todo).do \in (Procedures \cup Closing) \
                                              {"add", "activate", "set", "remove"}
        /\ excuses \subseteq excuses' /\ Goes("command", next)
    BY <2>1, <2>2 DEF Procedures, next
  <2> QED
    BY <1>1, <2>2, <2>3, <2>4, <2>5, <2>6, Proceeding
<1> QED
  BY <1>2, <1>3, <1>4, <1>5, <1>6

LEMMA RemovedKept ==
  ASSUME NoticesInv, KeptInv, Removed
  PROVE  KeptInv'
<1> DEFINE t == "command"
           h == Head(task[t].todo)
           rest == Range(Tail(task[t].todo))
           next == Then(t, <<>>)
<1>1. /\ task \in [Tasks -> TaskRecord] /\ live \in [Kinds -> SUBSET Message]
      /\ t \in Tasks /\ Orderly(task[t])
  BY TypeFacts DEF NoticesInv, KeptInv, Tasks
<1>2. /\ Busy(t) /\ h.do = "remove" /\ Goes(t, next) /\ Discord(live)
      /\ route' = NoChannel /\ users' = FALSE
      /\ tracked' = [k \in Kinds |-> IF k \in Listed THEN tracked[k] ELSE None]
      /\ UNCHANGED excuses
  BY DEF Doing, Removed
<1>3. /\ next \in TaskRecord /\ next.todo = <<>> \o Tail(task[t].todo)
      /\ next.route = task[t].route /\ next.made = task[t].made
      /\ Plan(next) = rest
      /\ <<>> \in Seq(Operation) /\ Range(<<>>) = {} /\ Ordered(<<>>)
  BY <1>1, <1>2, Dropped DEF Plan
<1>4. h \in Plan(task[t]) /\ rest = {}
  BY <1>1, <1>2, PlanOf DEF Precedes
<1>5. \A k \in Kinds : next.made[k] = None
  <2>1. h.do \in Procedures \cup Closing \cup {"check", "delete"}
    BY <1>2 DEF Closing
  <2> QED
    BY <1>1, <1>2, <1>3, <2>1, MadeFacts, FreeFields
<1>6. ASSUME excuses' = {}
      PROVE  /\ Home(tracked', route', users')
             /\ Faithful(next, tracked', live, route', users')
             /\ \A k \in Kinds : \A m \in live[k] : m = tracked'[k] \/ m = next.made[k]
  <2>1. Decides(h) /\ excuses = {}
    BY <1>2, <1>6 DEF Decides
  <2>2. \A k \in Kinds : /\ Settled(task[t], h, k, tracked, live, route)
                         /\ None \notin live[k] /\ live[k] \subseteq {tracked[k]}
    BY <1>1, <1>2, <2>1, Deciding
  <2>3. \A k \in PlayerKinds : tracked[k] = None
    BY <1>2, <2>2, SomeKinds DEF Settled
  <2>4. Home(tracked', route', users')
    BY <1>2, <2>3, SomeKinds DEF Home
  <2>5. \A k \in Kinds : live[k] = {}
    BY <1>2, <2>2, <2>3 DEF Settled, Gone
  <2>6. Faithful(next, tracked', live, route', users')
    BY <1>3, <1>4, <1>5 DEF Faithful, Held
  <2> QED
    BY <2>4, <2>5, <2>6
<1>7. Orderly(next)
  <2>1. Plan(next) = {} /\ Range(<<>>) = {} /\ rest = {}
    BY <1>3, <1>4
  <2> HIDE DEF next, t
  <2> QED
    BY <1>1, <1>2, <1>3, <1>5, <2>1, Reorders
<1>8. (Displays(next) => next.route = task[t].route) /\ excuses \subseteq excuses'
  BY <1>2, <1>3
<1> HIDE DEF next, t
<1> QED
  BY <1>1, <1>2, <1>3, <1>6, <1>7, <1>8, Keeping

-----------------------------------------------------------------------------
(* What happens around them.                                                 *)

\* Messages that go from Discord take nothing away from what a plan relies on.
LEMMA FewerMessages ==
  ASSUME NEW tk, NEW trk, NEW msgs, NEW msgs2, NEW r, NEW u,
         \A a \in Plan(tk) : a.kind \in Kinds,
         \A k \in Kinds : msgs2[k] \subseteq msgs[k], Faithful(tk, trk, msgs, r, u)
  PROVE  Faithful(tk, trk, msgs2, r, u)
<1>1. \A k \in Kinds : Gone(k, trk, msgs) => Gone(k, trk, msgs2)
  BY DEF Gone
<1>2. "notice" \in Kinds
  BY DEF Kinds
<1>3. \A k \in Kinds : Removal(tk, k, trk, msgs) => Removal(tk, k, trk, msgs2)
  BY <1>1 DEF Removal
<1>4. \A a : \A k \in Kinds :
        Settled(tk, a, k, trk, msgs, r) => Settled(tk, a, k, trk, msgs2, r)
  BY <1>1 DEF Settled
<1>5. ASSUME NEW a \in Plan(tk)
      PROVE  Fits(tk, a, trk, msgs2, r, u)
  <2>1. Fits(tk, a, trk, msgs, r, u) /\ a.kind \in Kinds
    BY DEF Faithful
  <2>2. Remembers(tk, a, trk, msgs2)
    BY <1>1, <2>1 DEF Fits, Remembers
  <2>3. Replaces(tk, a, trk, msgs2)
    BY <1>2, <1>3, <2>1 DEF Fits, Replaces
  <2>4. Leaves(tk, a, trk, msgs2, r)
    BY <1>4, <2>1 DEF Fits, Leaves
  <2> QED
    BY <2>1, <2>2, <2>3, <2>4 DEF Fits
<1>6. \A k \in Kinds : Held(tk, k, trk, msgs2, r)
  BY <1>1 DEF Faithful, Held
<1> QED
  BY <1>5, <1>6 DEF Faithful

LEMMA LossesKept ==
  ASSUME NoticesInv, KeptInv,
         (\E k \in Kinds : Vanish(k)) \/ (\E c \in Channels : ChannelDeleted(c))
  PROVE  KeptInv'
<1>1. /\ TypesHold /\ task \in [Tasks -> TaskRecord] /\ live \in [Kinds -> SUBSET Message]
  BY TypeFacts DEF NoticesInv
<1>2. UNCHANGED <<route, users, tracked, task, excuses, abandoned>>
  BY DEF Vanish, ChannelDeleted, config
<1>3. \A k \in Kinds : live'[k] \subseteq live[k]
  BY <1>1 DEF Vanish, ChannelDeleted
<1>4. \A v \in Tasks : \A a \in Plan(task[v]) : a.kind \in Kinds
  <2>1. \A v \in Tasks : task[v].todo \in Seq(Operation)
    BY <1>1 DEF TaskRecord
  <2> QED
    BY <2>1, RangeFacts DEF Plan, Operation
<1>5. ASSUME excuses' = {}
      PROVE  Kept'
  <2>1. Kept
    BY <1>2, <1>5 DEF KeptInv
  <2>2. \A v \in Tasks : Faithful(task[v], tracked, live', route, users)
    BY <1>3, <1>4, <2>1, FewerMessages DEF Kept
  <2>3. Accounted(live', tracked, MadeBy(task))
    BY <1>3, <2>1 DEF Kept, Accounted
  <2> QED
    BY <1>2, <2>1, <2>2, <2>3 DEF Kept, MadeBy
<1> QED
  BY <1>2, <1>5 DEF KeptInv

LEMMA KeeperKept ==
  ASSUME NoticesInv, KeptInv, Keeper
  PROVE  KeptInv'
<1>1. UNCHANGED <<route, users, tracked, live, task, excuses, abandoned>>
  BY DEF Keeper, config
<1> QED
  BY <1>1 DEF KeptInv, Kept, MadeBy

LEMMA CrashKept ==
  ASSUME NoticesInv, KeptInv, Crash
  PROVE  KeptInv'
<1>1. /\ TypesHold /\ live \in [Kinds -> SUBSET Message]
  BY TypeFacts DEF NoticesInv
<1>2. /\ task' = [t \in Tasks |-> Free] /\ UNCHANGED <<route, users, tracked>>
      /\ excuses' = IF \E t \in Tasks : task[t].made # Nothing
                    THEN excuses \cup {"unrecorded"} ELSE excuses
      /\ Discord(live)
  BY DEF Crash, config
<1>3. \A v \in Tasks : task'[v] = Free
  BY <1>2
<1>4. \A v \in Tasks : /\ Orderly(task'[v])
                       /\ Faithful(task'[v], tracked', live, route', users')
  BY <1>3, FreeKept
<1>5. ASSUME excuses' = {}
      PROVE  Kept'
  <2>1. Kept /\ excuses = {} /\ \A v \in Tasks : task[v].made = Nothing
    BY <1>2, <1>5 DEF KeptInv
  <2>2. ASSUME NEW k \in Kinds, NEW m \in live[k]
        PROVE  m = tracked[k]
    <3>1. \A v \in Tasks : task[v].made[k] = None
      BY <2>1, FreeFields
    <3>2. m # None
      BY <1>1, FreeFields
    <3> QED
      BY <2>1, <3>1, <3>2 DEF Kept, Accounted, MadeBy
  <2>3. live' = live /\ ~abandoned'
    <3>1. \A k \in Kinds : live[k] \cap Referred(k, tracked', task') = live[k]
      BY <1>2, <2>2 DEF Referred
    <3>2. live' = live
      BY <1>1, <1>2, <3>1 DEF Discord
    <3> QED
      BY <1>2, <2>1, <3>2 DEF Discord, Kept
  <2>4. Accounted(live, tracked', MadeBy(task'))
    BY <1>2, <2>2 DEF Accounted
  <2> QED
    BY <1>2, <1>4, <2>1, <2>3, <2>4 DEF Kept
<1> QED
  BY <1>4, <1>5 DEF KeptInv

-----------------------------------------------------------------------------
(* The theorem about them.                                                   *)

LEMMA KeptInit ==
  ASSUME MessagesInit
  PROVE  KeptInv
<1>1. /\ route = NoChannel /\ users = FALSE /\ tracked = Nothing
      /\ live = [k \in Kinds |-> {}] /\ task = [t \in Tasks |-> Free] /\ abandoned = FALSE
  BY DEF MessagesInit
<1>2. \A t \in Tasks : Orderly(task[t]) /\ Faithful(task[t], tracked, live, route, users)
  BY <1>1, FreeKept
<1>3. Home(tracked, route, users) /\ Accounted(live, tracked, MadeBy(task))
  BY <1>1, FreeFields, SomeKinds DEF Home, Accounted
<1> QED
  BY <1>1, <1>2, <1>3 DEF KeptInv, Kept

LEMMA DoesKept ==
  ASSUME EnoughIds, NoticesInv, KeptInv, NEW t \in Tasks, Does(t)
  PROVE  KeptInv'
<1>1. CASE Delete(t) \/ Fails(t) \/ Unanswered(t)
  BY <1>1, DeleteKept, FailsKept
<1>2. CASE Edit(t) \/ Send(t)
  BY <1>2, EditKept, SendKept
<1>3. CASE Clear(t) \/ Check(t) \/ Compare(t) \/ Build(t)
  BY <1>3, ClearKept, CheckKept, CompareKept, BuildKept
<1>4. CASE Announce(t, "announce") \/ Announce(t, "post")
  BY <1>4, AnnounceKept
<1>5. CASE Display(t, "refresh") \/ Display(t, "display")
  BY <1>5, DisplayKept
<1>6. CASE Reconcile(t) \/ Record(t)
  BY <1>6, ReconcileKept, RecordKept
<1> QED
  BY <1>1, <1>2, <1>3, <1>4, <1>5, <1>6 DEF Does

LEMMA KeptNext ==
  ASSUME EnoughIds, NoticesInv, KeptInv, [MessagesNext]_messagesVars
  PROVE  KeptInv'
<1>1. CASE \E t \in Tasks : Does(t)
  BY <1>1, DoesKept
<1>2. CASE Added \/ Moved \/ Activated \/ Confirmed
  BY <1>2, DecisionKept
<1>3. CASE Removed
  BY <1>3, RemovedKept
<1>4. CASE \/ DefaultRemove \/ DelServer
           \/ \E c \in Channels :
                \/ DefaultModify(c) \/ AddServer(c) \/ \E u \in BOOLEAN : DefaultAdd(c, u)
  <2>1. CASE DefaultRemove \/ DelServer
    BY <2>1, RemoveKept
  <2>2. CASE \E c \in Channels :
               \/ DefaultModify(c) \/ AddServer(c) \/ \E u \in BOOLEAN : DefaultAdd(c, u)
    BY <2>2, ModifyKept, AddServerKept, AddKept
  <2> QED
    BY <1>4, <2>1, <2>2
<1>5. CASE Cycle \/ Keeper \/ Crash
  BY <1>5, CycleKept, KeeperKept, CrashKept
<1>6. CASE (\E k \in Kinds : Vanish(k)) \/ (\E c \in Channels : ChannelDeleted(c))
  BY <1>6, LossesKept
<1>7. CASE UNCHANGED messagesVars
  <2>1. UNCHANGED <<route, users, tracked, live, task, excuses, abandoned>>
    BY <1>7 DEF messagesVars, config, history
  <2> QED
    BY <2>1 DEF KeptInv, Kept, MadeBy
<1> QED
  BY <1>1, <1>2, <1>3, <1>4, <1>5, <1>6, <1>7 DEF MessagesNext

\* No message is left in Discord that nobody remembers, under the same conditions. What a
\* coroutine that is still to send, move or take away a message has read is what is on
\* record, or the message is gone: the other coroutine is not at work; what it made is put
\* on record by an operation still in its plan; and a message whose deletion failed stays
\* on record, where the next cycle finds it. (delete_discord_message's callers,
\* clear_persistent_player_stack, update_persistent_player_display, default_modify,
\* default_remove.)
THEOREM NothingIsAbandoned ==
  ASSUME EnoughIds
  PROVE  MessagesSpec => []NothingAbandoned
<1>1. MessagesInit => KeptInv
  BY KeptInit
<1>2. KeptInv /\ NoticesInv /\ [MessagesNext]_messagesVars => KeptInv'
  BY KeptNext
<1>3. KeptInv => NothingAbandoned
  BY DEF KeptInv, Kept, NothingAbandoned
<1> QED
  BY <1>1, <1>2, <1>3, NoticesHold, PTL DEF MessagesSpec

-----------------------------------------------------------------------------
(* One undisturbed cycle puts things right: while it runs, what is not right   *)
(* yet is what its plan will still do.                                        *)

\* The plan a step leaves is the plan it goes on with.
LEMMA HealLands ==
  ASSUME task \in [Tasks -> TaskRecord], NEW t \in Tasks, NEW next \in TaskRecord,
         Goes(t, next), NEW messages, Discord(messages),
         Restores(next, tracked', messages, route),
         lifecycle = "offline" => Ordered(next.todo)
  PROVE  Restores(task'[t], tracked', live', route)
<1>0. "notice" \in Kinds /\ next.todo \in Seq(Operation)
  BY DEF Kinds, TaskRecord
<1>1. \A k \in Kinds : live'[k] = messages[k] \cap Referred(k, tracked', task')
  BY DEF Discord
<1>2. Healed(tracked', messages, route) => Healed(tracked', live', route)
  BY <1>0, <1>1 DEF Healed, Referred
<1>3. CASE next.todo = <<>>
  <2>1. task'[t] = Free
    BY <1>3 DEF Goes
  <2>2. Plan(next) = {} /\ Plan(Free) = {} /\ ~Free.failed
    BY <1>3, RangeFacts, FreeFields DEF Plan, Free
  <2>3. ShowsOffline(next, tracked', messages, route) =>
          ShowsOffline(Free, tracked', live', route)
    BY <1>2, <2>2 DEF ShowsOffline, Quiet
  <2>4. ShowsBack(next, tracked') => ShowsBack(Free, tracked')
    BY <2>2 DEF ShowsBack
  <2> QED
    BY <2>1, <2>2, <2>3, <2>4 DEF Restores
<1>4. CASE next.todo # <<>> /\ Head(next.todo) = End
  <2> DEFINE c == Tail(next.todo)
  <2>1. /\ c \in Seq(Operation)
        /\ Ordered(next.todo) => \A b \in Range(c) : Precedes(End, b)
    BY <1>0, <1>4, TailOf, TailOrder
  <2>2. Plan(next) = {End} \cup Range(c) /\ End.do = "end"
    BY <1>0, <1>4, RangeFacts DEF Plan, End, Run, Op
  <2>3. task'[t] = Over(t, c)
    BY <1>4 DEF Goes
  <2>4. Over(t, c).todo = c /\ ~Over(t, c).failed
    <3>1. ~Over(t, c).failed
      BY DEF Over, Free
    <3> QED
      BY <2>1, <3>1, OverFields
  <2> HIDE DEF c
  <2>5. Plan(task'[t]) = Range(c) /\ ~task'[t].failed
    BY <2>3, <2>4 DEF Plan
  <2>6. ASSUME lifecycle = "offline"
        PROVE  ShowsOffline(task'[t], tracked', live', route)
    <3>1. ShowsOffline(next, tracked', messages, route)
      BY <2>6 DEF Restores
    <3>2. \A b \in Range(c) : b.do # "record"
      BY <2>1, <2>2, <2>6 DEF Precedes, Routine, Procedures
    <3>3. \A b \in Plan(next) : ~Records(b, "notice")
      BY <2>2, <3>2 DEF Records
    <3>4. Quiet(task'[t])
      BY <2>2, <2>5, <3>1 DEF ShowsOffline, Quiet
    <3> QED
      BY <1>2, <2>2, <2>5, <3>1, <3>3, <3>4 DEF ShowsOffline
  <2>7. ASSUME lifecycle = "confirmed"
        PROVE  ShowsBack(task'[t], tracked')
    <3>1. ShowsBack(next, tracked') /\ ~Recovers(End)
      BY <2>2, <2>7 DEF Restores, Recovers
    <3> QED
      BY <2>2, <2>5, <3>1 DEF ShowsBack
  <2> QED
    BY <2>5, <2>6, <2>7 DEF Restores
<1>5. CASE next.todo # <<>> /\ Head(next.todo) # End
  <2>1. task'[t] = next
    BY <1>5 DEF Goes
  <2>2. next.made["notice"] \in messages["notice"] => next.made["notice"] \in live'["notice"]
    BY <1>0, <1>1, <2>1 DEF Referred
  <2>3. Sends(next, messages, route) => Sends(next, live', route)
    BY <2>2 DEF Sends
  <2> QED
    BY <1>2, <2>1, <2>3 DEF Restores, ShowsOffline
<1> QED
  BY <1>3, <1>4, <1>5

LEMMA Heals ==
  ASSUME NoticesInv, KeptInv, NEW t \in Tasks, Busy(t), NEW ops \in Seq(Operation),
         NEW next \in TaskRecord, next.todo = ops \o Tail(task[t].todo), ~next.failed,
         Goes(t, next), NEW messages, Discord(messages),
         lifecycle = "offline" =>
           /\ ShowsOffline(next, tracked', messages, route) /\ Ordered(ops)
           /\ \A a \in Range(ops), b \in Range(Tail(task[t].todo)) : Precedes(a, b),
         lifecycle = "confirmed" => ShowsBack(next, tracked')
  PROVE  Restores(task'[t], tracked', live', route)
<1>1. task \in [Tasks -> TaskRecord] /\ Orderly(task[t])
  BY TypeFacts DEF NoticesInv, KeptInv
<1>2. Tail(task[t].todo) \in Seq(Operation) /\ Ordered(Tail(task[t].todo))
  BY <1>1, PlanOf
<1>3. lifecycle = "offline" => Ordered(next.todo)
  BY <1>2, JoinedOrder
<1>4. Restores(next, tracked', messages, route)
  BY DEF Restores
<1> QED
  BY <1>1, <1>3, <1>4, HealLands

\* What a step leaves of what is done for a server that is back.
LEMMA BackStep ==
  ASSUME NEW tk, NEW next, NEW h, NEW rest, NEW ops, ShowsBack(tk, tracked),
         Plan(tk) = {h} \cup rest, Plan(next) = Range(ops) \cup rest,
         \A a \in Range(ops) : ~Records(a, "notice"),
         tracked'["notice"] \in {None, tracked["notice"]},
         tracked'["notice"] # None /\ Leading(h) =>
           /\ \A a \in Range(ops) : Leading(a)
           /\ h.do = "reconcile" \/ Recovers(h) => \E a \in Range(ops) : Recovers(a)
  PROVE  ShowsBack(next, tracked')
<1>1. \A a \in Plan(next) : ~Records(a, "notice")
  BY DEF ShowsBack
<1>2. ASSUME tracked'["notice"] # None
      PROVE  /\ \A a \in Plan(next) : Leading(a)
             /\ \E a \in Plan(next) : a.do = "reconcile" \/ Recovers(a)
  <2>1. /\ Leading(h) /\ \A a \in rest : Leading(a)
        /\ \E a \in {h} \cup rest : a.do = "reconcile" \/ Recovers(a)
    BY <1>2 DEF ShowsBack
  <2> QED
    BY <1>2, <2>1
<1> QED
  BY <1>1, <1>2 DEF ShowsBack

\* A step plans no more than to forget messages other than the notice, and what
\* its operation withdraws of those is off the record or will be.
OnlyForgets(ops) == \A a \in Range(ops) : a.do = "forget" /\ a.kind # "notice"
Withdrew(h, ops) ==
  \A k \in Kinds \ {"notice"} :
    /\ tracked[k] = None => tracked'[k] = None
    /\ Withdrawn(h, k) =>
         tracked'[k] = None \/ \E a \in Range(ops) : a.do = "forget" /\ a.kind = k

\* What removes the rest leaves of what is done for one that is offline.
LEMMA OfflineStep ==
  ASSUME NEW tk, NEW next, NEW h, NEW rest, NEW ops, NEW messages,
         ShowsOffline(tk, tracked, live, route),
         Plan(tk) = {h} \cup rest, Plan(next) = Range(ops) \cup rest,
         h.do \in {"delete", "forget", "clear eta", "clear lists", "check"},
         next.route = tk.route,
         ~Removes(h, "notice") => next.old["notice"] = tk.old["notice"],
         tk.made["notice"] \notin live["notice"],
         OnlyForgets(ops), Withdrew(h, ops)
  PROVE  ShowsOffline(next, tracked', messages, route)
<1> USE DEF OnlyForgets, Withdrew
<1>1. Quiet(next)
  BY DEF Quiet, ShowsOffline, Posts
<1>2. CASE \E a \in Plan(tk) : a.do = "reconcile"
  BY <1>1, <1>2 DEF ShowsOffline
<1>3. CASE /\ Withdraws(tk, tracked) /\ tk.route = route /\ Sends(tk, live, route)
           /\ \E a \in Plan(tk) : Records(a, "notice")
  <2>1. \E a \in Plan(next) : Records(a, "notice")
    BY <1>3 DEF Records
  <2>2. ASSUME NEW k \in Kinds \ {"notice"}, tracked'[k] # None
        PROVE  \E a \in Plan(next) : Withdrawn(a, k)
    <3>1. PICK a \in Plan(tk) : Withdrawn(a, k)
      BY <1>3, <2>2 DEF Withdraws
    <3>2. CASE a = h
      BY <2>2, <3>1, <3>2 DEF Withdrawn
    <3>3. CASE a \in rest
      BY <3>1, <3>3
    <3> QED
      BY <3>2, <3>3
  <2>3. CASE \E a \in Plan(tk) : a.do = "send"
    BY <1>1, <1>3, <2>1, <2>2, <2>3 DEF ShowsOffline, Withdraws, Sends
  <2>4. CASE /\ \E a \in Plan(tk) : a.do = "edit"
             /\ tk.old["notice"].channel = route
             /\ \A a \in Plan(tk) : ~Removes(a, "notice")
    <3>1. \A a \in Plan(next) : ~Removes(a, "notice")
      BY <2>4 DEF Removes
    <3>2. Sends(next, messages, route)
      BY <2>4, <3>1 DEF Sends
    <3> QED
      BY <1>1, <1>3, <2>1, <2>2, <3>2 DEF ShowsOffline, Withdraws
  <2> QED
    BY <1>3, <2>3, <2>4 DEF Sends
<1>4. ~ \A a \in Plan(tk) : a.do = "end"
  OBVIOUS
<1> QED
  BY <1>2, <1>3, <1>4 DEF ShowsOffline

\* While it still has something to do but to record it, the notice is not made.
LEMMA NoticeUnmade ==
  ASSUME NoticesInv, KeptInv, NEW t \in Tasks, Busy(t),
         Head(task[t].todo).do \in {"delete", "forget", "edit", "send", "clear eta",
                                    "clear lists", "check"}
  PROVE  task[t].made["notice"] = None /\ None \notin live["notice"]
<1>1. task \in [Tasks -> TaskRecord] /\ Orderly(task[t]) /\ "notice" \in Kinds
  BY TypeFacts DEF NoticesInv, KeptInv, Kinds
<1>2. "notice" \notin Listed
  BY SomeKinds
<1>3. task[t].made["notice"] # None => Allows("notice", Head(task[t].todo))
  BY <1>1, MadeFacts
<1>4. ~Allows("notice", Head(task[t].todo))
  BY <1>2 DEF Allows, Records, Routine, Procedures
<1>5. None \notin live["notice"]
  BY <1>1, TypeFacts, FreeFields DEF NoticesInv
<1> QED
  BY <1>3, <1>4, <1>5

LEMMA DeleteHeals ==
  ASSUME NoticesInv, KeptInv, NEW t \in Tasks, Busy(t), Delete(t),
         Restores(task[t], tracked, live, route)
  PROVE  Restores(task'[t], tracked', live', route)
<1> DEFINE h == Head(task[t].todo)
           rest == Range(Tail(task[t].todo))
           K == Kind(t)
           ops == <<>>
           then == Then(t, ops)
           next == [then EXCEPT !.old[K] = None]
           messages == [live EXCEPT ![K] = @ \ {Old(t)}]
<1>1. /\ task \in [Tasks -> TaskRecord] /\ Orderly(task[t]) /\ tracked \in Known
      /\ ops \in Seq(Operation) /\ Range(ops) = {} /\ "notice" \in Kinds
      /\ Ordered(ops)
  BY TypeFacts, EmptySeq, RangeFacts DEF NoticesInv, KeptInv, Kinds
<1>2. /\ h.do \in {"delete", "forget"} /\ Goes(t, next) /\ Discord(messages)
      /\ tracked' = IF h.do = "forget" THEN [tracked EXCEPT ![K] = None] ELSE tracked
  BY DEF Delete, Doing
<1>3. K = h.kind /\ K \in Kinds /\ h \in Operation /\ Plan(task[t]) = {h} \cup rest
  BY <1>1, PlanOf DEF Kind, Operation
<1>4. task[t].made["notice"] \notin live["notice"]
  BY <1>2, NoticeUnmade
<1> HIDE DEF messages
<1>5. /\ then \in TaskRecord /\ then.todo = ops \o Tail(task[t].todo)
      /\ then.route = task[t].route /\ then.old = task[t].old
      /\ then.failed = task[t].failed
      /\ Range(then.todo) = Range(ops) \cup rest
  BY <1>1, ThenFields, ThenPlan
<1> HIDE DEF then, h, K, rest, ops
<1>6. /\ next \in TaskRecord /\ next.todo = then.todo /\ next.route = task[t].route
      /\ next.failed = task[t].failed
      /\ K # "notice" => next.old["notice"] = task[t].old["notice"]
  BY <1>1, <1>3, <1>5, FreeFields DEF TaskRecord, Known
<1> HIDE DEF next
<1>7. Plan(next) = Range(ops) \cup rest
  BY <1>5, <1>6 DEF Plan
<1>8. \A k \in Kinds : /\ tracked'[k] \in {None, tracked[k]}
                       /\ h.do = "forget" /\ k = K => tracked'[k] = None
  BY <1>1, <1>2 DEF Known
<1>9. ASSUME lifecycle = "offline"
      PROVE  ShowsOffline(next, tracked', messages, route)
  <2>0. ShowsOffline(task[t], tracked, live, route)
    BY <1>9 DEF Restores
  <2>1. ~Removes(h, "notice") => next.old["notice"] = task[t].old["notice"]
    BY <1>2, <1>3, <1>6 DEF Removes
  <2>2. \A k \in Kinds \ {"notice"} :
          /\ tracked[k] = None => tracked'[k] = None
          /\ Withdrawn(h, k) =>
               tracked'[k] = None \/ \E a \in Range(ops) : a.do = "forget" /\ a.kind = k
    BY <1>2, <1>3, <1>8 DEF Withdrawn, Clears
  <2>3. h.do \in {"delete", "forget", "clear eta", "clear lists", "check"}
        /\ \A a \in Range(ops) : a.do = "forget" /\ a.kind # "notice"
    BY <1>1, <1>2
  <2>5. OnlyForgets(ops) /\ Withdrew(h, ops)
    BY <2>2, <2>3 DEF OnlyForgets, Withdrew
  <2> DEFINE tk == task[t]
  <2>4. /\ ShowsOffline(tk, tracked, live, route)
        /\ Plan(tk) = {h} \cup rest /\ Plan(next) = Range(ops) \cup rest
        /\ h.do \in {"delete", "forget", "clear eta", "clear lists", "check"}
        /\ next.route = tk.route
        /\ ~Removes(h, "notice") => next.old["notice"] = tk.old["notice"]
        /\ tk.made["notice"] \notin live["notice"]
    BY <1>3, <1>4, <1>6, <1>7, <2>0, <2>1, <2>3
  <2> HIDE DEF tk
  <2> QED
    BY <2>4, <2>5, OfflineStep
<1>10. lifecycle = "confirmed" => ShowsBack(next, tracked')
  <2>1. h.do # "reconcile" /\ ~Recovers(h)
    BY <1>2 DEF Recovers
  <2> QED
    BY <1>1, <1>3, <1>7, <1>8, <2>1, BackStep DEF Restores
<1>11. ~next.failed
  BY <1>6 DEF Restores
<1> QED
  BY <1>1, <1>2, <1>5, <1>6, <1>9, <1>10, <1>11, Heals

LEMMA ClearHeals ==
  ASSUME NoticesInv, KeptInv, NEW t \in Tasks, Busy(t), Clear(t),
         Restores(task[t], tracked, live, route)
  PROVE  Restores(task'[t], tracked', live', route)
<1>0. PICK do \in {"clear eta", "clear lists"}, kinds \in SUBSET PlayerKinds,
           ops \in Seq(Operation) :
        ForgetsAll(t, do, kinds, ops)
  BY ClearPlan
<1>1. /\ Look(t, do, kinds, ops)
      /\ \A op \in Operation, k \in Kinds : op.do = do /\ Clears(op, k) => k \in kinds
      /\ \A a \in Range(ops) : a.do = "forget" /\ a.fail = "note" /\ a.kind \in kinds
      /\ \A k \in kinds : tracked[k] # None => \E a \in Range(ops) : a.kind = k
  BY <1>0 DEF ForgetsAll
<1> DEFINE h == Head(task[t].todo)
           rest == Range(Tail(task[t].todo))
           next == Found(t, ops, kinds)
           tk == task[t]
<1>2. /\ TypesHold /\ task \in [Tasks -> TaskRecord] /\ Orderly(task[t])
      /\ kinds \in SUBSET Kinds /\ "notice" \in Kinds /\ "notice" \notin kinds
  BY TypeFacts, SomeKinds DEF NoticesInv, KeptInv, Kinds
<1>3. h.do = do /\ Goes(t, next) /\ Discord(live) /\ tracked' = tracked
  BY <1>1 DEF Look, Doing, OnlyThinks, Found
<1>4. h \in Operation /\ Plan(tk) = {h} \cup rest
  BY <1>2, PlanOf
<1>5. tk.made["notice"] \notin live["notice"]
  BY <1>3, NoticeUnmade
<1>6. /\ next \in TaskRecord /\ next.todo = ops \o Tail(task[t].todo)
      /\ next.route = tk.route /\ next.failed = tk.failed
      /\ next.old = Reads(t, kinds) /\ Plan(next) = Range(ops) \cup rest
  <2>1. TypesHold /\ Busy(t) /\ ops \in Seq(Operation) /\ kinds \in SUBSET Kinds
    BY <1>2
  <2> QED
    BY <2>1, Reading
<1>7. next.old["notice"] = tk.old["notice"]
  BY <1>2, <1>6 DEF Reads
<1>8. \A a \in Range(ops) : /\ a.do = "forget" /\ a.kind # "notice" /\ Gentle(a)
                            /\ Leading(a) /\ ~Records(a, "notice")
  BY <1>1, <1>2 DEF Gentle, Leading, Records
<1> HIDE DEF next, h, rest
<1>9. ASSUME lifecycle = "offline"
      PROVE  ShowsOffline(next, tracked', live, route)
  <2>1. \A k \in Kinds \ {"notice"} :
          /\ tracked[k] = None => tracked'[k] = None
          /\ Withdrawn(h, k) =>
               tracked'[k] = None \/ \E a \in Range(ops) : a.do = "forget" /\ a.kind = k
    <3>1. \A k \in Kinds \ {"notice"} : Withdrawn(h, k) => k \in kinds
      BY <1>1, <1>3, <1>4 DEF Withdrawn
    <3> QED
      BY <1>1, <1>3, <3>1
  <2>2. /\ ShowsOffline(tk, tracked, live, route)
        /\ Plan(tk) = {h} \cup rest /\ Plan(next) = Range(ops) \cup rest
        /\ next.route = tk.route /\ tk.made["notice"] \notin live["notice"]
        /\ h.do \in {"delete", "forget", "clear eta", "clear lists", "check"}
        /\ ~Removes(h, "notice") => next.old["notice"] = tk.old["notice"]
        /\ \A a \in Range(ops) : a.do = "forget" /\ a.kind # "notice"
    BY <1>3, <1>4, <1>5, <1>6, <1>7, <1>8, <1>9 DEF Restores
  <2>3. OnlyForgets(ops) /\ Withdrew(h, ops)
    BY <2>1, <2>2 DEF OnlyForgets, Withdrew
  <2> HIDE DEF tk
  <2> QED
    BY <2>2, <2>3, OfflineStep
<1>10. ASSUME lifecycle = "confirmed"
       PROVE  ShowsBack(next, tracked')
  <2>1. /\ ShowsBack(tk, tracked) /\ h.do # "reconcile" /\ ~Recovers(h)
        /\ tracked'["notice"] \in {None, tracked["notice"]}
    BY <1>3, <1>10 DEF Restores, Recovers
  <2> HIDE DEF tk
  <2> QED
    BY <1>4, <1>6, <1>8, <2>1, BackStep
<1>11. Ordered(ops) /\ \A a \in Range(ops), b \in rest : Precedes(a, b)
  BY <1>8, GentlePlan, GentleFirst
<1>12. ~next.failed
  BY <1>6 DEF Restores
<1> QED
  BY <1>3, <1>6, <1>9, <1>10, <1>11, <1>12, Heals DEF rest

LEMMA CheckHeals ==
  ASSUME NoticesInv, KeptInv, NEW t \in Tasks, Busy(t), Check(t),
         Restores(task[t], tracked, live, route)
  PROVE  Restores(task'[t], tracked', live', route)
<1> DEFINE h == Head(task[t].todo)
           rest == Range(Tail(task[t].todo))
           ops == <<>>
           next == Then(t, ops)
           tk == task[t]
<1>1. /\ task \in [Tasks -> TaskRecord] /\ Orderly(task[t])
      /\ ops \in Seq(Operation) /\ Range(ops) = {} /\ Ordered(ops)
  BY TypeFacts, EmptySeq, RangeFacts DEF NoticesInv, KeptInv
<1>2. h.do = "check" /\ Goes(t, next) /\ Discord(live) /\ tracked' = tracked
  BY DEF Check, Doing, OnlyThinks, Restores
<1>3. Plan(tk) = {h} \cup rest
  BY <1>1, PlanOf
<1>4. tk.made["notice"] \notin live["notice"]
  BY <1>2, NoticeUnmade
<1>5. /\ next \in TaskRecord /\ next.todo = ops \o Tail(task[t].todo)
      /\ next.route = tk.route /\ next.old = tk.old /\ next.failed = tk.failed
      /\ Range(next.todo) = Range(ops) \cup rest
  BY <1>1, ThenFields, ThenPlan
<1> HIDE DEF next, h, rest, ops
<1>6. Plan(next) = Range(ops) \cup rest
  BY <1>5 DEF Plan
<1>7. ASSUME lifecycle = "offline"
      PROVE  ShowsOffline(next, tracked', live, route)
  <2>1. \A k \in Kinds \ {"notice"} :
          /\ tracked[k] = None => tracked'[k] = None
          /\ Withdrawn(h, k) =>
               tracked'[k] = None \/ \E a \in Range(ops) : a.do = "forget" /\ a.kind = k
    BY <1>2 DEF Withdrawn, Clears
  <2>2. /\ ShowsOffline(tk, tracked, live, route)
        /\ Plan(tk) = {h} \cup rest /\ Plan(next) = Range(ops) \cup rest
        /\ next.route = tk.route /\ tk.made["notice"] \notin live["notice"]
        /\ h.do \in {"delete", "forget", "clear eta", "clear lists", "check"}
        /\ ~Removes(h, "notice") => next.old["notice"] = tk.old["notice"]
        /\ \A a \in Range(ops) : a.do = "forget" /\ a.kind # "notice"
    BY <1>1, <1>2, <1>3, <1>4, <1>5, <1>6, <1>7 DEF Restores
  <2>3. OnlyForgets(ops) /\ Withdrew(h, ops)
    BY <2>1, <2>2 DEF OnlyForgets, Withdrew
  <2> HIDE DEF tk
  <2> QED
    BY <2>2, <2>3, OfflineStep
<1>8. ASSUME lifecycle = "confirmed"
      PROVE  ShowsBack(next, tracked')
  <2>1. /\ ShowsBack(tk, tracked) /\ ~Leading(h)
        /\ tracked'["notice"] \in {None, tracked["notice"]}
    BY <1>2, <1>8 DEF Restores, Leading
  <2> HIDE DEF tk
  <2> QED
    BY <1>1, <1>3, <1>6, <2>1, BackStep
<1>9. ~next.failed
  BY <1>5 DEF Restores
<1> QED
  BY <1>1, <1>2, <1>5, <1>7, <1>8, <1>9, Heals DEF rest

\* Once the notice is gone, the rest of a cycle does not bring it back.
LEMMA ListHeals ==
  ASSUME NoticesInv, KeptInv, NEW t \in Tasks, Busy(t),
         Restores(task[t], tracked, live, route), lifecycle # "offline",
         lifecycle = "confirmed" =>
           ~Leading(Head(task[t].todo)) \/ tracked["notice"] = None,
         NEW next \in TaskRecord, Goes(t, next), ~next.failed,
         NEW messages, Discord(messages), tracked'["notice"] = tracked["notice"],
         \A a \in Plan(next) : a \in Plan(task[t]) \/ ~Records(a, "notice")
  PROVE  Restores(task'[t], tracked', live', route)
<1>1. task \in [Tasks -> TaskRecord]
  BY TypeFacts DEF NoticesInv
<1>2. Head(task[t].todo) \in Plan(task[t])
  BY <1>1, PlanOf
<1>3. lifecycle = "confirmed" => ShowsBack(next, tracked')
  BY <1>2 DEF Restores, ShowsBack
<1>4. Restores(next, tracked', messages, route)
  BY <1>3 DEF Restores
<1> QED
  BY <1>1, <1>4, HealLands

LEMMA StoppedHeals ==
  ASSUME NoticesInv, KeptInv, NEW t \in Tasks, Busy(t),
         Restores(task[t], tracked, live, route), lifecycle # "offline",
         ~Leading(Head(task[t].todo)), Goes(t, Stopped(t)), Discord(live),
         tracked' = tracked
  PROVE  Restores(task'[t], tracked', live', route)
<1>1. task \in [Tasks -> TaskRecord] /\ Orderly(task[t])
  BY TypeFacts DEF NoticesInv, KeptInv
<1>2. Stopped(t) \in TaskRecord /\ Plan(Stopped(t)) \subseteq Plan(task[t])
  BY <1>1, StoppedKept
<1>3. ~Stopped(t).failed
  BY DEF Stopped, Over, Free
<1> QED
  BY <1>2, <1>3, ListHeals

\* What is left of a plan for a server that is offline when its notice is dealt with.
LEMMA OfflineRest ==
  ASSUME NEW tk, NEW next, NEW h, NEW rest, NEW ops, NEW messages,
         ShowsOffline(tk, tracked, live, route),
         Plan(tk) = {h} \cup rest, Plan(next) = Range(ops) \cup rest,
         h.do \in {"edit", "send"}, next.route = tk.route, tracked' = tracked,
         \A a \in Range(ops) : a.do = "send" /\ a.kind = "notice",
         tk.route = route /\ Sends(tk, live, route) => Sends(next, messages, route)
  PROVE  ShowsOffline(next, tracked', messages, route)
<1>1. Quiet(next)
  BY DEF Quiet, ShowsOffline, Posts
<1>2. ~(\A a \in Plan(tk) : a.do = "end") /\ ~Records(h, "notice")
      /\ h.do # "reconcile" /\ \A k \in Kinds : ~Withdrawn(h, k)
  BY DEF Records, Withdrawn, Clears
<1>3. CASE \E a \in Plan(tk) : a.do = "reconcile"
  BY <1>1, <1>2, <1>3 DEF ShowsOffline
<1>4. CASE /\ Withdraws(tk, tracked) /\ tk.route = route /\ Sends(tk, live, route)
           /\ \E a \in Plan(tk) : Records(a, "notice")
  <2>1. \E a \in Plan(next) : Records(a, "notice")
    BY <1>2, <1>4
  <2>2. Withdraws(next, tracked')
    BY <1>2, <1>4 DEF Withdraws
  <2> QED
    BY <1>1, <1>4, <2>1, <2>2 DEF ShowsOffline
<1> QED
  BY <1>2, <1>3, <1>4 DEF ShowsOffline

LEMMA SendHeals ==
  ASSUME EnoughIds, NoticesInv, KeptInv, NEW t \in Tasks, Busy(t), Send(t),
         Restores(task[t], tracked, live, route)
  PROVE  Restores(task'[t], tracked', live', route)
<1> DEFINE h == Head(task[t].todo)
           rest == Range(Tail(task[t].todo))
           K == Kind(t)
           m == New(K, task[t].route)
           ops == <<>>
           then == Then(t, ops)
           next == [then EXCEPT !.made[K] = m]
           messages == [live EXCEPT ![K] = @ \cup {m}]
           tk == task[t]
<1>1. /\ task \in [Tasks -> TaskRecord] /\ TypesHold /\ Orderly(task[t])
      /\ live \in [Kinds -> SUBSET Message] /\ task[t].made \in Known
      /\ ops \in Seq(Operation) /\ Range(ops) = {} /\ Ordered(ops) /\ "notice" \in Kinds
  BY TypeFacts, EmptySeq, RangeFacts DEF NoticesInv, KeptInv, Kinds
<1>2. /\ h.do = "send" /\ Reach(tk.route) /\ Goes(t, next)
      /\ tracked' = tracked /\ Discord(messages)
  BY DEF Send, Doing
<1>3. K \in Kinds /\ K = h.kind /\ tk.route \in Channels
  BY <1>1, <1>2, HeadOf, TypeFacts DEF Kind, Reach
<1>4. m \in Message /\ m.channel = tk.route
  BY <1>1, <1>3, NewMessage
<1>5. /\ then \in TaskRecord /\ then.todo = ops \o Tail(task[t].todo)
      /\ then.route = tk.route /\ then.failed = tk.failed /\ then.made = tk.made
      /\ Range(then.todo) = Range(ops) \cup rest
  BY <1>1, ThenFields, ThenPlan
<1> HIDE DEF then, K, m
<1>6. [then.made EXCEPT ![K] = m] \in Known
  BY <1>1, <1>3, <1>4, <1>5 DEF Known
<1>7. /\ next \in TaskRecord /\ next.todo = ops \o Tail(task[t].todo)
      /\ next.route = tk.route /\ next.failed = tk.failed
      /\ next.made = [tk.made EXCEPT ![K] = m]
  BY <1>5, <1>6 DEF TaskRecord
<1>8. Plan(next) = Range(ops) \cup rest
  BY <1>5, <1>7 DEF Plan
<1>9. Plan(tk) = {h} \cup rest
  BY <1>1, PlanOf
<1>10. K = "notice" => next.made["notice"] = m /\ m \in messages["notice"]
  BY <1>1, <1>7 DEF Known
<1> HIDE DEF h, rest, next, messages, ops
<1>11. ASSUME lifecycle = "offline"
       PROVE  ShowsOffline(next, tracked', messages, route)
  <2>1. ShowsOffline(tk, tracked, live, route)
    BY <1>11 DEF Restores
  <2>2. K = "notice"
    BY <1>2, <1>3, <1>9, <2>1 DEF ShowsOffline, Quiet, Posts
  <2>3. /\ ShowsOffline(tk, tracked, live, route)
        /\ Plan(tk) = {h} \cup rest /\ Plan(next) = Range(ops) \cup rest
        /\ h.do \in {"edit", "send"} /\ next.route = tk.route
        /\ \A a \in Range(ops) : a.do = "send" /\ a.kind = "notice"
        /\ tk.route = route /\ Sends(tk, live, route) => Sends(next, messages, route)
    BY <1>1, <1>2, <1>4, <1>7, <1>8, <1>9, <1>10, <2>1, <2>2 DEF Sends
  <2> HIDE DEF tk
  <2> QED
    BY <1>2, <2>3, OfflineRest
<1>12. ASSUME lifecycle = "confirmed"
       PROVE  ShowsBack(next, tracked')
  <2>1. /\ ShowsBack(tk, tracked) /\ ~Recovers(h) /\ h.do # "reconcile"
        /\ tracked'["notice"] \in {None, tracked["notice"]}
        /\ Plan(tk) = {h} \cup rest /\ Plan(next) = Range(ops) \cup rest
    BY <1>2, <1>8, <1>9, <1>12 DEF Restores, Recovers
  <2> HIDE DEF tk
  <2> QED
    BY <1>1, <2>1, BackStep
<1>13. ~next.failed
  BY <1>7 DEF Restores
<1> QED
  BY <1>1, <1>2, <1>7, <1>11, <1>12, <1>13, Heals DEF rest

LEMMA OfflineEdited ==
  ASSUME NoticesInv, KeptInv, NEW t \in Tasks, Busy(t),
         ShowsOffline(task[t], tracked, live, route), Restores(task[t], tracked, live, route),
         Head(task[t].todo).do = "edit", Kind(t) = "notice", Old(t) \in live["notice"],
         Goes(t, [Then(t, <<>>) EXCEPT !.made["notice"] = Old(t)]),
         Discord(live), tracked' = tracked, lifecycle = "offline"
  PROVE  Restores(task'[t], tracked', live', route)
<1> DEFINE h == Head(task[t].todo)
           rest == Range(Tail(task[t].todo))
           m == Old(t)
           ops == <<>>
           then == Then(t, ops)
           next == [then EXCEPT !.made["notice"] = m]
           tk == task[t]
<1>1. /\ task \in [Tasks -> TaskRecord] /\ Orderly(task[t]) /\ "notice" \in Kinds
      /\ live \in [Kinds -> SUBSET Message] /\ task[t].made \in Known
      /\ ops \in Seq(Operation) /\ Range(ops) = {} /\ Ordered(ops)
  BY TypeFacts, EmptySeq, RangeFacts DEF NoticesInv, KeptInv, Kinds
<1>2. m \in Message /\ m = tk.old["notice"] /\ m \in live["notice"]
  BY <1>1 DEF Old
<1>3. /\ then \in TaskRecord /\ then.todo = ops \o Tail(task[t].todo)
      /\ then.route = tk.route /\ then.failed = tk.failed /\ then.made = tk.made
      /\ Range(then.todo) = Range(ops) \cup rest
  BY <1>1, ThenFields, ThenPlan
<1>4. tk.made["notice"] \notin live["notice"]
  BY NoticeUnmade
<1>5. Plan(tk) = {h} \cup rest
  BY <1>1, PlanOf
<1> HIDE DEF then, m
<1>6. [then.made EXCEPT !["notice"] = m] \in Known
  BY <1>1, <1>2, <1>3 DEF Known
<1>7. /\ next \in TaskRecord /\ next.todo = ops \o Tail(task[t].todo)
      /\ next.route = tk.route /\ next.failed = tk.failed /\ next.made["notice"] = m
  BY <1>1, <1>3, <1>6 DEF TaskRecord, Known
<1>8. Plan(next) = Range(ops) \cup rest
  BY <1>3, <1>7 DEF Plan
<1>9. Goes(t, next)
  BY DEF m, then
<1> HIDE DEF h, rest, next, ops
<1>10. ShowsOffline(next, tracked', live, route)
  <2>1. ASSUME Sends(tk, live, route)
        PROVE  Sends(next, live, route)
    <3>1. CASE \E a \in Plan(tk) : a.do = "send"
      BY <1>1, <1>5, <1>8, <3>1 DEF Sends, h
    <3>2. CASE tk.old["notice"].channel = route
      BY <1>2, <1>7, <3>2 DEF Sends
    <3> QED
      BY <1>4, <2>1, <3>1, <3>2 DEF Sends
  <2>2. /\ ShowsOffline(tk, tracked, live, route)
        /\ Plan(tk) = {h} \cup rest /\ Plan(next) = Range(ops) \cup rest
        /\ h.do \in {"edit", "send"} /\ next.route = tk.route
        /\ \A a \in Range(ops) : a.do = "send" /\ a.kind = "notice"
        /\ tk.route = route /\ Sends(tk, live, route) => Sends(next, live, route)
    BY <1>1, <1>5, <1>7, <1>8, <2>1 DEF h
  <2> HIDE DEF tk
  <2> QED
    BY <2>2, OfflineRest
<1>11. ~next.failed
  BY <1>7 DEF Restores
<1> QED
  BY <1>1, <1>7, <1>9, <1>10, <1>11, Heals DEF rest

LEMMA OfflineResent ==
  ASSUME NoticesInv, KeptInv, NEW t \in Tasks, Busy(t),
         ShowsOffline(task[t], tracked, live, route), Restores(task[t], tracked, live, route),
         Head(task[t].todo).do = "edit", Kind(t) = "notice",
         Goes(t, Then(t, <<Op("send", "notice", "stop")>> \o <<>>)),
         Discord(live), tracked' = tracked, lifecycle = "offline"
  PROVE  Restores(task'[t], tracked', live', route)
<1> DEFINE h == Head(task[t].todo)
           rest == Range(Tail(task[t].todo))
           send == Op("send", "notice", "stop")
           ops == <<send>> \o <<>>
           next == Then(t, ops)
           tk == task[t]
<1>1. task \in [Tasks -> TaskRecord] /\ Orderly(task[t]) /\ Posts(h)
  BY TypeFacts DEF NoticesInv, KeptInv, Posts
<1>2. send \in Operation /\ send.do = "send" /\ send.kind = "notice" /\ send.fail = "stop"
  BY DEF Op, Operation, Deeds, Fates, Kinds
<1>3. \A b \in rest : Allows("notice", b)
  BY <1>1, Posting
<1>4. Goes(t, next)
  OBVIOUS
<1> HIDE DEF send
<1>5. ops \in Seq(Operation) /\ Range(ops) = {send} /\ Ordered(ops)
  <2>1. /\ <<send>> \in Seq(Operation) /\ Range(<<send>>) = {send} /\ Ordered(<<send>>)
    BY <1>2, OneOperation
  <2>2. <<>> \in Seq(Operation) /\ Range(<<>>) = {} /\ Ordered(<<>>)
    BY RangeFacts, EmptySeq
  <2> QED
    BY <2>1, <2>2, JoinedOrder
<1> HIDE DEF ops
<1>6. \A b \in rest : Precedes(send, b)
  BY <1>2, <1>3 DEF Precedes, Procedures, Closing, Guards
<1>7. /\ next \in TaskRecord /\ next.todo = ops \o Tail(task[t].todo)
      /\ next.route = tk.route /\ next.failed = tk.failed
      /\ Range(next.todo) = Range(ops) \cup rest
  BY <1>1, <1>5, ThenFields, ThenPlan
<1>8. Plan(tk) = {h} \cup rest
  BY <1>1, PlanOf
<1> HIDE DEF next
<1>9. Plan(next) = Range(ops) \cup rest
  BY <1>7 DEF Plan
<1>10. ShowsOffline(next, tracked', live, route)
  <2>1. Sends(next, live, route)
    BY <1>2, <1>5, <1>9 DEF Sends
  <2>2. /\ ShowsOffline(tk, tracked, live, route)
        /\ Plan(tk) = {h} \cup rest /\ Plan(next) = Range(ops) \cup rest
        /\ h.do \in {"edit", "send"} /\ next.route = tk.route
        /\ \A a \in Range(ops) : a.do = "send" /\ a.kind = "notice"
        /\ tk.route = route /\ Sends(tk, live, route) => Sends(next, live, route)
    BY <1>2, <1>5, <1>7, <1>8, <1>9, <2>1
  <2> HIDE DEF tk, h, rest
  <2> QED
    BY <2>2, OfflineRest
<1>11. ~next.failed
  BY <1>7 DEF Restores
<1>12. \A a \in Range(ops), b \in rest : Precedes(a, b)
  BY <1>5, <1>6
<1> QED
  BY <1>4, <1>5, <1>7, <1>10, <1>11, <1>12, Heals

LEMMA EditHeals ==
  ASSUME NoticesInv, KeptInv, NEW t \in Tasks, Busy(t), Edit(t),
         Restores(task[t], tracked, live, route)
  PROVE  Restores(task'[t], tracked', live', route)
<1> DEFINE h == Head(task[t].todo)
           K == Kind(t)
           gone == [Then(t, <<>>) EXCEPT !.old["eta"] = None]
           made == [Then(t, <<>>) EXCEPT !.made[K] = Old(t)]
           send == Op("send", K, "stop")
           record == Op("record", "eta", "stop")
           again == IF K = "eta" THEN <<record>> ELSE <<>>
           ops == <<send>> \o again
           sent == Then(t, ops)
<1>1. /\ task \in [Tasks -> TaskRecord] /\ TypesHold /\ task[t].old \in Known
      /\ task[t].made \in Known /\ <<>> \in Seq(Operation) /\ Range(<<>>) = {}
  BY TypeFacts, EmptySeq, RangeFacts DEF NoticesInv
<1>2. /\ h.do = "edit" /\ Discord(live) /\ tracked' = tracked
      /\ IF Old(t) \in live[K] THEN Goes(t, IF K = "eta" THEN gone ELSE made)
         ELSE Goes(t, IF K \in Listed THEN Stopped(t) ELSE sent)
  BY DEF Edit, Doing
<1>3. h \in Plan(task[t]) /\ K = h.kind /\ K \in Kinds /\ ~Leading(h)
  BY <1>1, <1>2, PlanOf DEF Kind, Operation, Leading
<1>4. CASE lifecycle = "offline"
  <2>1. ShowsOffline(task[t], tracked, live, route)
    BY <1>4 DEF Restores
  <2>2. K = "notice" /\ K \notin Listed
    BY <1>2, <1>3, <2>1, SomeKinds DEF ShowsOffline, Quiet, Posts
  <2>3. CASE Old(t) \in live[K]
    BY <1>2, <1>4, <2>1, <2>2, <2>3, OfflineEdited
  <2>4. CASE Old(t) \notin live[K]
    BY <1>2, <1>4, <2>1, <2>2, <2>4, OfflineResent
  <2> QED
    BY <2>3, <2>4
<1>5. CASE lifecycle # "offline"
  <2>1. CASE Goes(t, Stopped(t))
    BY <1>2, <1>3, <1>5, <2>1, StoppedHeals
  <2>2. /\ Then(t, <<>>) \in TaskRecord
        /\ Range(Then(t, <<>>).todo) \subseteq Plan(task[t])
        /\ Then(t, <<>>).failed = task[t].failed
        /\ Then(t, <<>>).old = task[t].old /\ Then(t, <<>>).made = task[t].made
    <3>1. Range(Tail(task[t].todo)) \subseteq Plan(task[t])
      BY <1>1, PlanOf
    <3> QED
      BY <1>1, <3>1, Dropped
  <2>3. CASE Goes(t, gone)
    <3>1. /\ gone \in TaskRecord /\ gone.todo = Then(t, <<>>).todo
          /\ gone.failed = task[t].failed
      BY <1>1, <2>2, FreeFields DEF TaskRecord, Known
    <3>2. Plan(gone) \subseteq Plan(task[t]) /\ ~gone.failed
      BY <2>2, <3>1 DEF Plan, Restores
    <3> HIDE DEF gone
    <3> QED
      BY <1>2, <1>3, <1>5, <2>3, <3>1, <3>2, ListHeals
  <2>4. CASE Goes(t, made)
    <3>1. Old(t) \in Message \cup {None}
      BY <1>1, <1>3 DEF Old, Known
    <3>2. [task[t].made EXCEPT ![K] = Old(t)] \in Known
      BY <1>1, <1>3, <3>1 DEF Known
    <3>3. /\ made \in TaskRecord /\ made.todo = Then(t, <<>>).todo
          /\ made.failed = task[t].failed
      BY <2>2, <3>2 DEF TaskRecord
    <3>4. Plan(made) \subseteq Plan(task[t]) /\ ~made.failed
      BY <2>2, <3>3 DEF Plan, Restores
    <3> HIDE DEF made
    <3> QED
      BY <1>2, <1>3, <1>5, <2>4, <3>3, <3>4, ListHeals
  <2>5. CASE Goes(t, sent)
    <3>1. /\ send \in Operation /\ record \in Operation
          /\ ~Records(send, "notice") /\ ~Records(record, "notice")
      BY <1>3, SomeKinds DEF Op, Operation, Deeds, Fates, Kinds, Records
    <3>2. again \in Seq(Operation) /\ Range(again) \subseteq {record}
      <4>1. <<record>> \in Seq(Operation) /\ Range(<<record>>) = {record}
        BY <3>1, OneOperation
      <4> QED
        BY <1>1, <4>1
    <3>3. <<send>> \in Seq(Operation) /\ Range(<<send>>) = {send}
      BY <3>1, OneOperation
    <3> HIDE DEF again, send, record
    <3>4. ops \in Seq(Operation) /\ Range(ops) \subseteq {send, record}
      BY <3>2, <3>3, JoinedOrder
    <3> HIDE DEF ops
    <3>5. /\ sent \in TaskRecord /\ sent.failed = task[t].failed
          /\ Range(sent.todo) \subseteq Range(ops) \cup Plan(task[t])
      <4>1. Range(Tail(task[t].todo)) \subseteq Plan(task[t])
        BY <1>1, PlanOf
      <4>2. /\ sent \in TaskRecord /\ sent.failed = task[t].failed
            /\ sent.todo = ops \o Tail(task[t].todo)
        BY <1>1, <3>4, ThenFields
      <4>3. Range(ops \o Tail(task[t].todo)) = Range(ops) \cup Range(Tail(task[t].todo))
        BY <1>1, <3>4, ThenPlan
      <4> QED
        BY <4>1, <4>2, <4>3
    <3> HIDE DEF sent
    <3>6. ~sent.failed /\ \A a \in Plan(sent) : a \in Plan(task[t]) \/ ~Records(a, "notice")
      BY <3>1, <3>4, <3>5 DEF Plan, Restores
    <3> QED
      BY <1>2, <1>3, <1>5, <2>5, <3>5, <3>6, ListHeals
  <2> QED
    BY <1>2, <2>1, <2>3, <2>4, <2>5
<1> QED
  BY <1>4, <1>5

\* What follows when a message is put on record.
LEMMA RecordStep ==
  ASSUME TypesHold, NEW t \in Tasks, Record(t)
  PROVE  \E ops \in Seq(Operation), next \in TaskRecord :
           /\ Goes(t, next) /\ next.todo = ops \o Tail(task[t].todo)
           /\ next.route = task[t].route /\ next.failed = task[t].failed
           /\ Plan(next) = Range(ops) \cup Range(Tail(task[t].todo))
           /\ Ordered(ops) /\ \A a \in Range(ops) : Gentle(a) /\ ~Records(a, "notice")
           /\ Kind(t) # "eta" => Range(ops) = {}
<1> DEFINE K == Kind(t)
           clear == Run("clear lists")
           check == Op("check", "list1", "stop")
           ops == IF K = "eta" /\ OldLists(t) # {} THEN <<clear, check>> ELSE <<>>
           then == Then(t, ops)
           next == [then EXCEPT !.made = Nothing]
<1>1. task \in [Tasks -> TaskRecord]
  BY TypeFacts
<1>2. Busy(t) /\ Goes(t, next)
  BY DEF Record, Doing
<1>3. /\ clear \in Operation /\ check \in Operation
      /\ Gentle(clear) /\ ~Records(clear, "notice")
      /\ Gentle(check) /\ ~Records(check, "notice")
  <2>1. "clear lists" \in Deeds
    BY DEF Deeds
  <2>2. clear \in Operation /\ clear.do = "clear lists"
    BY <2>1, Operations
  <2>3. check \in Operation /\ check.do = "check" /\ check.fail = "stop"
    BY DEF Op, Operation, Deeds, Kinds, Fates
  <2> QED
    BY <2>2, <2>3 DEF Gentle, Records
<1>4. /\ ops = <<clear, check>> \/ ops = <<>>
      /\ K # "eta" => ops = <<>>
  OBVIOUS
<1> HIDE DEF K, clear, check, ops
<1>5. /\ ops \in Seq(Operation) /\ Ordered(ops) /\ Range(ops) \subseteq {clear, check}
      /\ K # "eta" => Range(ops) = {}
  <2>1. Precedes(clear, check)
    BY <1>3, GentleFirst
  <2>2. /\ <<clear, check>> \in Seq(Operation) /\ Ordered(<<clear, check>>)
        /\ Range(<<clear, check>>) = {clear, check}
    BY <1>3, <2>1, TwoOperations
  <2>3. <<>> \in Seq(Operation) /\ Ordered(<<>>) /\ Range(<<>>) = {}
    BY RangeFacts, EmptySeq
  <2>4. CASE ops = <<>>
    BY <2>3, <2>4
  <2>5. CASE ops = <<clear, check>>
    BY <1>4, <2>2, <2>3, <2>5
  <2> QED
    BY <1>4, <2>4, <2>5
<1>6. /\ then \in TaskRecord /\ then.todo = ops \o Tail(task[t].todo)
      /\ then.route = task[t].route /\ then.failed = task[t].failed
  BY <1>1, <1>2, <1>5, ThenFields
<1>7. Range(ops \o Tail(task[t].todo)) = Range(ops) \cup Range(Tail(task[t].todo))
  BY <1>1, <1>2, <1>5, ThenPlan
<1> HIDE DEF then
<1>8. /\ next \in TaskRecord /\ next.todo = ops \o Tail(task[t].todo)
      /\ next.route = task[t].route /\ next.failed = task[t].failed
  BY <1>6, FreeFields DEF TaskRecord
<1> HIDE DEF next
<1>9. Plan(next) = Range(ops) \cup Range(Tail(task[t].todo))
  BY <1>7, <1>8 DEF Plan
<1> QED
  BY <1>2, <1>3, <1>5, <1>8, <1>9 DEF K

LEMMA RecordHeals ==
  ASSUME NoticesInv, KeptInv, NEW t \in Tasks, Busy(t), Record(t),
         Restores(task[t], tracked, live, route)
  PROVE  Restores(task'[t], tracked', live', route)
<1> DEFINE h == Head(task[t].todo)
           rest == Range(Tail(task[t].todo))
           K == Kind(t)
           tk == task[t]
<1>1. /\ TypesHold /\ task \in [Tasks -> TaskRecord] /\ Orderly(task[t])
      /\ "notice" \in Kinds /\ \A k \in Kinds : None \notin live[k]
  BY TypeFacts, FreeFields DEF NoticesInv, KeptInv, Kinds
<1>2. /\ h.do = "record" /\ Discord(live)
      /\ tracked' = [k \in Kinds |->
           CASE k = "notice" /\ K = "recovery" -> None
             [] k \in Recorded(t) -> tk.made[k]
             [] OTHER -> tracked[k]]
  BY DEF Record, Doing
<1>3. PICK ops \in Seq(Operation), next \in TaskRecord :
        /\ Goes(t, next) /\ next.todo = ops \o Tail(task[t].todo)
        /\ next.route = tk.route /\ next.failed = tk.failed
        /\ Plan(next) = Range(ops) \cup rest
        /\ Ordered(ops) /\ \A a \in Range(ops) : Gentle(a) /\ ~Records(a, "notice")
        /\ K # "eta" => Range(ops) = {}
  BY <1>1, RecordStep
<1>4. /\ K = h.kind /\ Plan(tk) = {h} \cup rest
      /\ \A b \in rest : Precedes(h, b)
  BY <1>1, PlanOf DEF Kind
<1>5. \A k \in Kinds :
        k \in Recorded(t) <=> (k = K \/ (K = "list1" /\ k \in Listed)) /\ tk.made[k] # None
  BY SomeKinds DEF Recorded
<1> HIDE DEF h, K
<1>6. ASSUME lifecycle = "offline"
      PROVE  ShowsOffline(next, tracked', live, route)
  <2>1. ShowsOffline(tk, tracked, live, route) /\ Quiet(tk)
    BY <1>6 DEF Restores, ShowsOffline
  <2>2. K = "notice" /\ Plan(next) = rest
    BY <1>2, <1>3, <1>4, <2>1 DEF Quiet
  <2>3. \A b \in rest : b.do \in {"reconcile", "end"}
    <3>1. \A b \in rest : Routine(b)
      BY <1>2, <1>4, <2>2 DEF Precedes
    <3> QED
      BY <1>4, <2>1, <3>1 DEF Quiet, Routine, Procedures
  <2>4. Quiet(next)
    BY <2>2, <2>3 DEF Quiet, Posts
  <2>5. CASE \E a \in rest : a.do = "reconcile"
    BY <2>2, <2>4, <2>5 DEF ShowsOffline
  <2>6. CASE \A a \in rest : a.do # "reconcile"
    <3>1. /\ \A a \in rest : a.do = "end"
          /\ \A a \in Plan(tk) : a.do \notin {"reconcile", "send", "edit"}
      BY <1>2, <1>4, <2>3, <2>6
    <3>2. ~ \A a \in Plan(tk) : a.do = "end"
      BY <1>2, <1>4
    <3>3. Withdraws(tk, tracked) /\ Sends(tk, live, route)
      BY <2>1, <3>1, <3>2 DEF ShowsOffline
    <3>4. tk.made["notice"] \in live["notice"] /\ tk.made["notice"].channel = route
      BY <3>1, <3>3 DEF Sends
    <3>5. tk.made["notice"] # None /\ "notice" \in Recorded(t)
      BY <1>1, <1>5, <2>2, <3>4
    <3>6. tracked'["notice"] = tk.made["notice"]
      BY <1>1, <1>2, <2>2, <3>5
    <3>7. ASSUME NEW k \in Kinds \ {"notice"}
          PROVE  tracked'[k] = None
      <4>1. \A a \in Plan(tk) : ~Withdrawn(a, k)
        BY <1>2, <1>4, <3>1 DEF Withdrawn, Clears
      <4>2. tracked[k] = None
        BY <3>3, <4>1 DEF Withdraws
      <4>3. k \notin Recorded(t)
        BY <1>5, <2>2
      <4> QED
        BY <1>2, <4>2, <4>3
    <3>8. Healed(tracked', live, route)
      BY <3>4, <3>5, <3>6, <3>7 DEF Healed
    <3> QED
      BY <2>2, <2>4, <3>1, <3>8 DEF ShowsOffline
  <2> QED
    BY <2>5, <2>6
<1>7. ASSUME lifecycle = "confirmed"
      PROVE  ShowsBack(next, tracked')
  <2>1. ShowsBack(tk, tracked) /\ K # "notice"
    BY <1>2, <1>4, <1>7 DEF Restores, ShowsBack, Records
  <2>2. "notice" \notin Recorded(t)
    BY <1>1, <1>5, <2>1, SomeKinds
  <2>3. /\ K = "recovery" => tracked'["notice"] = None
        /\ K # "recovery" => tracked'["notice"] = tracked["notice"]
    BY <1>1, <1>2, <2>2
  <2>4. ASSUME tracked'["notice"] # None /\ Leading(h)
        PROVE  /\ \A a \in Range(ops) : Leading(a)
               /\ h.do = "reconcile" \/ Recovers(h) => \E a \in Range(ops) : Recovers(a)
    BY <1>2, <1>3, <1>4, <2>3, <2>4 DEF Leading, Recovers
  <2>5. /\ tracked'["notice"] \in {None, tracked["notice"]}
        /\ \A a \in Range(ops) : ~Records(a, "notice")
        /\ Plan(tk) = {h} \cup rest /\ Plan(next) = Range(ops) \cup rest
    BY <1>3, <1>4, <2>3
  <2> HIDE DEF tk, rest
  <2> QED
    BY <2>1, <2>4, <2>5, BackStep
<1>8. ~next.failed
  BY <1>3 DEF Restores
<1>9. \A a \in Range(ops), b \in rest : Precedes(a, b)
  BY <1>3, GentleFirst
<1> QED
  BY <1>2, <1>3, <1>6, <1>7, <1>8, <1>9, Heals

\* Plans whose operations are all of some sort.
LEMMA PlansOf ==
  ASSUME NEW S \in SUBSET Operation
  PROVE  /\ \A s \in Seq(S) : s \in Seq(Operation) /\ Range(s) \subseteq S
         /\ \A r, s \in Seq(S) : r \o s \in Seq(S)
         /\ <<>> \in Seq(S) /\ \A a \in S : <<a>> \in Seq(S)
         /\ \A a, b \in S : <<a, b>> \in Seq(S)
         /\ \A a, b, c \in S : <<a, b, c>> \in Seq(S)
<1>1. ASSUME NEW s \in Seq(S)
      PROVE  s \in Seq(Operation) /\ Range(s) \subseteq S
  <2>1. s \in [1 .. Len(s) -> S] /\ Len(s) \in Nat /\ DOMAIN s = 1 .. Len(s)
    OBVIOUS
  <2> QED
    BY <2>1 DEF Range
<1>2. /\ \A r, s \in Seq(S) : r \o s \in Seq(S)
      /\ <<>> \in Seq(S) /\ \A a \in S : <<a>> \in Seq(S)
  OBVIOUS
<1>3. /\ \A a, b \in S : <<a, b>> \in Seq(S)
      /\ \A a, b, c \in S : <<a, b, c>> \in Seq(S)
  OBVIOUS
<1> QED
  BY <1>1, <1>2, <1>3

\* What is about another message than the notice, and what of it comes before the
\* notice is gone.
Elsewhere == {a \in Operation : a.kind # "notice"}
Before == {a \in Elsewhere : Leading(a)}

LEMMA ElsewhereOps ==
  /\ Elsewhere \in SUBSET Operation /\ Before \in SUBSET Operation
  /\ \A a \in Elsewhere : ~Records(a, "notice")
  /\ \A do \in Deeds, k \in Kinds \ {"notice"}, fail \in Fates :
       /\ Op(do, k, fail) \in Elsewhere
       /\ /\ do \notin {"check", "compare", "build", "edit", "display"}
          /\ do = "record" => k # "eta"
          => Op(do, k, fail) \in Before
  /\ \A do \in Deeds \ {"record"} :
       /\ Run(do) \in Elsewhere
       /\ do \notin {"check", "compare", "build", "edit", "display"} => Run(do) \in Before
<1>1. \A a \in Elsewhere : ~Records(a, "notice")
  BY SomeKinds DEF Elsewhere, Records
<1>2. \A do \in Deeds, k \in Kinds \ {"notice"}, fail \in Fates :
       /\ Op(do, k, fail) \in Elsewhere
       /\ /\ do \notin {"check", "compare", "build", "edit", "display"}
          /\ do = "record" => k # "eta"
          => Op(do, k, fail) \in Before
  BY Operations DEF Elsewhere, Before, Leading
<1>3. "status" \in Kinds \ {"notice"} /\ "go on" \in Fates
  BY DEF Kinds, Fates
<1> QED
  BY <1>1, <1>2, <1>3 DEF Elsewhere, Before, Run

\* The rest of a cycle after the notice is gone, or in a server that has none.
LEMMA ElsewhereHeals ==
  ASSUME NoticesInv, KeptInv, NEW t \in Tasks, Busy(t),
         Restores(task[t], tracked, live, route), lifecycle # "offline",
         lifecycle = "confirmed" =>
           ~Leading(Head(task[t].todo)) \/ tracked["notice"] = None,
         NEW ops \in Seq(Elsewhere), NEW next \in TaskRecord,
         next.todo = ops \o Tail(task[t].todo), Goes(t, next), ~next.failed,
         Discord(live), tracked' = tracked
  PROVE  Restores(task'[t], tracked', live', route)
<1>1. task \in [Tasks -> TaskRecord] /\ Elsewhere \in SUBSET Operation
  BY TypeFacts, ElsewhereOps DEF NoticesInv
<1>2. ops \in Seq(Operation) /\ Range(ops) \subseteq Elsewhere
  BY <1>1, PlansOf
<1>3. Plan(next) = Range(ops) \cup Range(Tail(task[t].todo))
  BY <1>1, <1>2, ThenPlan DEF Plan
<1>4. Range(Tail(task[t].todo)) \subseteq Plan(task[t])
  BY <1>1, PlanOf
<1>5. \A a \in Plan(next) : a \in Plan(task[t]) \/ ~Records(a, "notice")
  BY <1>2, <1>3, <1>4, ElsewhereOps
<1> QED
  BY <1>5, ListHeals

LEMMA CompareHeals ==
  ASSUME NoticesInv, KeptInv, NEW t \in Tasks, Busy(t), Compare(t),
         Restores(task[t], tracked, live, route)
  PROVE  Restores(task'[t], tracked', live', route)
<1> DEFINE h == Head(task[t].todo)
           build == Run("build")
           clear == Run("clear lists")
           check == Op("check", "list1", "stop")
<1>1. /\ h.do = "compare" /\ Discord(live) /\ tracked' = tracked
      /\ \/ Goes(t, Stopped(t)) \/ Goes(t, Then(t, <<build>>))
         \/ Goes(t, Then(t, <<clear, check, build>>))
  BY DEF Compare, Doing
<1>2. task \in [Tasks -> TaskRecord] /\ h \in Plan(task[t]) /\ ~Leading(h)
  BY <1>1, TypeFacts, PlanOf DEF NoticesInv, Leading
<1>3. lifecycle # "offline"
  BY <1>1, <1>2 DEF Restores, ShowsOffline, Quiet
<1>4. build \in Elsewhere /\ clear \in Elsewhere /\ check \in Elsewhere
  <2>1. /\ "build" \in Deeds \ {"record"} /\ "clear lists" \in Deeds \ {"record"}
        /\ "check" \in Deeds /\ "list1" \in Kinds \ {"notice"} /\ "stop" \in Fates
    BY DEF Deeds, Kinds, Fates
  <2> QED
    BY <2>1, ElsewhereOps
<1> HIDE DEF build, clear, check
<1>5. ASSUME NEW ops \in Seq(Elsewhere), Goes(t, Then(t, ops))
      PROVE  Restores(task'[t], tracked', live', route)
  <2>1. ops \in Seq(Operation)
    BY ElsewhereOps, PlansOf
  <2>2. /\ Then(t, ops) \in TaskRecord /\ Then(t, ops).todo = ops \o Tail(task[t].todo)
        /\ ~Then(t, ops).failed
    BY <1>2, <2>1, ThenFields DEF Restores
  <2> QED
    BY <1>1, <1>2, <1>3, <1>5, <2>2, ElsewhereHeals
<1>6. <<build>> \in Seq(Elsewhere) /\ <<clear, check, build>> \in Seq(Elsewhere)
  BY <1>4, ElsewhereOps, PlansOf
<1>7. CASE Goes(t, Stopped(t))
  BY <1>1, <1>2, <1>3, <1>7, StoppedHeals
<1> QED
  BY <1>1, <1>5, <1>6, <1>7

LEMMA BuildHeals ==
  ASSUME NoticesInv, KeptInv, NEW t \in Tasks, Busy(t), Build(t),
         Restores(task[t], tracked, live, route)
  PROVE  Restores(task'[t], tracked', live', route)
<1> DEFINE h == Head(task[t].todo)
           op(k) == IF k \in InPlace(t) THEN Op("edit", k, "stop") ELSE Op("send", k, "stop")
           one == op("list1")
           two == op("list2")
           forget == Op("forget", "list2", "go on")
           excess == IF "list2" \in InPlace(t) THEN <<forget>> ELSE <<>>
           record == Op("record", "list1", "stop")
           short == <<one>> \o excess
           both == <<one, two>>
<1>1. PICK n \in DOMAIN Lists :
        Goes(t, Then(t, (IF n = 1 THEN short ELSE both) \o <<record>>))
  BY DEF Build
<1> DEFINE first == IF n = 1 THEN short ELSE both
           ops == first \o <<record>>
<1>2. h.do = "build" /\ Discord(live) /\ tracked' = tracked
  BY DEF Build, Doing, OnlyThinks
<1>3. task \in [Tasks -> TaskRecord] /\ h \in Plan(task[t]) /\ ~Leading(h)
  BY <1>2, TypeFacts, PlanOf DEF NoticesInv, Leading
<1>4. lifecycle # "offline"
  BY <1>2, <1>3 DEF Restores, ShowsOffline, Quiet
<1>5. one \in Elsewhere /\ two \in Elsewhere /\ forget \in Elsewhere /\ record \in Elsewhere
  <2>1. /\ {"edit", "send", "forget", "record"} \subseteq Deeds
        /\ {"list1", "list2"} \subseteq Kinds \ {"notice"} /\ {"stop", "go on"} \subseteq Fates
    BY DEF Deeds, Kinds, Fates
  <2> QED
    BY <2>1, ElsewhereOps
<1>6. Goes(t, Then(t, ops))
  BY <1>1
<1> HIDE DEF one, two, forget, record
<1>7. excess \in Seq(Elsewhere) /\ <<one>> \in Seq(Elsewhere) /\ both \in Seq(Elsewhere)
      /\ <<record>> \in Seq(Elsewhere)
  BY <1>5, ElsewhereOps, PlansOf
<1> HIDE DEF excess, both
<1>8. short \in Seq(Elsewhere)
  BY <1>7, ElsewhereOps, PlansOf
<1> HIDE DEF short
<1>9. first \in Seq(Elsewhere)
  BY <1>7, <1>8
<1> HIDE DEF first
<1>10. ops \in Seq(Elsewhere) /\ ops \in Seq(Operation)
  BY <1>7, <1>9, ElsewhereOps, PlansOf
<1> HIDE DEF ops
<1>11. /\ Then(t, ops) \in TaskRecord /\ Then(t, ops).todo = ops \o Tail(task[t].todo)
       /\ ~Then(t, ops).failed
  BY <1>3, <1>10, ThenFields DEF Restores
<1> QED
  BY <1>2, <1>3, <1>4, <1>6, <1>10, <1>11, ElsewhereHeals

LEMMA AnnounceHeals ==
  ASSUME NoticesInv, KeptInv, NEW t \in Tasks, Busy(t), NEW do \in {"announce", "post"},
         Announce(t, do), Restores(task[t], tracked, live, route)
  PROVE  Restores(task'[t], tracked', live', route)
<1> DEFINE h == Head(task[t].todo)
           rest == Range(Tail(task[t].todo))
           recovery == IfAny("recovery", "forget", "stop")
           status == IfAny("status", "delete", "stop")
           send == Op("send", "status", "stop")
           record == Op("record", "status", "stop")
           first == IF do = "announce" THEN recovery ELSE <<>>
           stack == IF do = "announce" /\ task[t].users THEN Stack ELSE <<>>
           all == first \o status \o <<send>> \o stack \o <<record, End>>
           ops == IF ~Reach(task[t].route) THEN <<>> ELSE all
           kinds == {"status", "recovery"}
           next == Found(t, ops, kinds)
           tk == task[t]
<1>1. /\ TypesHold /\ task \in [Tasks -> TaskRecord] /\ Orderly(task[t])
      /\ kinds \in SUBSET Kinds
  BY TypeFacts DEF NoticesInv, KeptInv, Kinds
<1>2. h.do = do /\ Goes(t, next) /\ Discord(live) /\ tracked' = tracked
  BY DEF Announce, Look, Doing, OnlyThinks, Found
<1>3. h \in Plan(tk) /\ Plan(tk) = {h} \cup rest
  BY <1>1, PlanOf
<1>4. lifecycle # "offline"
  BY <1>2, <1>3 DEF Restores, ShowsOffline, Quiet
<1>5. /\ <<>> \in Seq(Before) /\ recovery \in Seq(Before) /\ status \in Seq(Before)
      /\ <<send>> \in Seq(Before) /\ Stack \in Seq(Before)
      /\ <<record, End>> \in Seq(Before)
  <2>1. /\ {"forget", "delete", "send", "record"} \subseteq Deeds
        /\ {"clear eta", "clear lists", "end"} \subseteq Deeds \ {"record"}
        /\ {"status", "recovery"} \subseteq Kinds \ {"notice"} /\ "stop" \in Fates
    BY DEF Deeds, Procedures, Kinds, Fates
  <2>2. /\ Op("forget", "recovery", "stop") \in Before
        /\ Op("delete", "status", "stop") \in Before
        /\ send \in Before /\ record \in Before /\ End \in Before
        /\ Run("clear eta") \in Before /\ Run("clear lists") \in Before
    BY <2>1, ElsewhereOps DEF End
  <2> HIDE DEF send, record
  <2>3. <<>> \in Seq(Before) /\ <<send>> \in Seq(Before) /\ <<record, End>> \in Seq(Before)
    BY <2>2, ElsewhereOps, PlansOf
  <2>4. recovery \in Seq(Before) /\ status \in Seq(Before) /\ Stack \in Seq(Before)
    BY <2>2, <2>3, ElsewhereOps, PlansOf DEF IfAny, Stack
  <2> QED
    BY <2>3, <2>4
<1> HIDE DEF recovery, status, send, record
<1>6. first \in Seq(Before) /\ stack \in Seq(Before)
  BY <1>5
<1> HIDE DEF first, stack
<1>7. ops \in Seq(Before) /\ ops \in Seq(Operation) /\ Range(ops) \subseteq Before
  <2>1. first \o status \in Seq(Before)
    BY <1>5, <1>6, ElsewhereOps, PlansOf
  <2>2. first \o status \o <<send>> \in Seq(Before)
    BY <1>5, <2>1, ElsewhereOps, PlansOf
  <2>3. first \o status \o <<send>> \o stack \in Seq(Before)
    BY <1>6, <2>2, ElsewhereOps, PlansOf
  <2>4. all \in Seq(Before)
    BY <1>5, <2>3, ElsewhereOps, PlansOf
  <2> HIDE DEF all
  <2>5. ops \in Seq(Before)
    BY <1>5, <2>4
  <2> QED
    BY <2>5, ElsewhereOps, PlansOf
<1> HIDE DEF all, ops
<1>8. /\ next \in TaskRecord /\ next.todo = ops \o Tail(task[t].todo)
      /\ next.failed = tk.failed /\ Plan(next) = Range(ops) \cup rest
  <2>1. TypesHold /\ Busy(t) /\ ops \in Seq(Operation) /\ kinds \in SUBSET Kinds
    BY <1>1, <1>7
  <2> HIDE DEF kinds
  <2> QED
    BY <2>1, Reading
<1>9. ASSUME lifecycle = "confirmed"
      PROVE  ShowsBack(next, tracked')
  <2>1. /\ ShowsBack(tk, tracked) /\ h.do # "reconcile" /\ ~Recovers(h)
        /\ tracked'["notice"] \in {None, tracked["notice"]}
        /\ Plan(tk) = {h} \cup rest /\ Plan(next) = Range(ops) \cup rest
    BY <1>2, <1>3, <1>8, <1>9 DEF Restores, Recovers
  <2>2. \A a \in Range(ops) : Leading(a) /\ ~Records(a, "notice")
    BY <1>7, ElsewhereOps DEF Before
  <2> HIDE DEF tk, rest, h
  <2> QED
    BY <2>1, <2>2, BackStep
<1>10. ~next.failed
  BY <1>8 DEF Restores
<1> QED
  BY <1>2, <1>4, <1>7, <1>8, <1>9, <1>10, Heals

LEMMA DisplayHeals ==
  ASSUME NoticesInv, KeptInv, NEW t \in Tasks, Busy(t), NEW do \in {"refresh", "display"},
         Display(t, do), Restores(task[t], tracked, live, route)
  PROVE  Restores(task'[t], tracked', live', route)
<1> DEFINE h == Head(task[t].todo)
           rest == Range(Tail(task[t].todo))
           c == IF do = "refresh" THEN route ELSE task[t].route
           due == do = "refresh" => Listable
           ops == CASE ~due -> <<>>
                    [] due /\ ~Reach(c) ->
                         IF \A k \in Listed : tracked[k] = None THEN <<>> ELSE Stack
                    [] OTHER -> UpdatePlan(c)
           then == Then(t, ops)
           next == [then EXCEPT !.old = Reads(t, Listed \cup {"eta"}), !.route = c,
                                !.failed = FALSE]
<1>1. /\ TypesHold /\ task \in [Tasks -> TaskRecord] /\ Orderly(task[t]) /\ c \in Places
      /\ Reads(t, Listed \cup {"eta"}) \in Known
  BY TypeFacts, ReadsType DEF NoticesInv, KeptInv
<1>2. h.do = do /\ Goes(t, next) /\ Discord(live) /\ tracked' = tracked
  BY DEF Display, Doing, OnlyThinks, UpdatePlan
<1>3. /\ h \in Plan(task[t]) /\ Plan(task[t]) = {h} \cup rest
      /\ \A b \in rest : Precedes(h, b)
  BY <1>1, PlanOf
<1>4. lifecycle # "offline"
  BY <1>2, <1>3 DEF Restores, ShowsOffline, Quiet
<1>5. ASSUME lifecycle = "confirmed"
      PROVE  ~Leading(h) \/ tracked["notice"] = None
  <2>1. CASE do = "display"
    BY <1>2, <2>1 DEF Leading
  <2>2. CASE do = "refresh"
    <3>1. \A b \in rest : Routine(b) /\ b.do # "reconcile"
      BY <1>2, <1>3, <2>2 DEF Precedes, Procedures
    <3>2. \A b \in Plan(task[t]) : b.do # "reconcile" /\ ~Recovers(b)
      BY <1>2, <1>3, <2>2, <3>1 DEF Recovers, Routine, Procedures
    <3> QED
      BY <1>5, <3>2 DEF Restores, ShowsBack
  <2> QED
    BY <2>1, <2>2
<1>6. ops = <<>> \/ ops = Stack \/ ops = UpdatePlan(c)
  OBVIOUS
<1> HIDE DEF ops, c
<1>7. <<>> \in Seq(Elsewhere) /\ Stack \in Seq(Elsewhere) /\ UpdatePlan(c) \in Seq(Elsewhere)
  <2> DEFINE edit == Op("edit", "eta", "stop")
             delete == Op("delete", "eta", "stop")
             send == Op("send", "eta", "stop")
             record == Op("record", "eta", "stop")
             compare == Run("compare")
             drop == IfAny("eta", "delete", "stop")
             shown == IF tracked["eta"] # None /\ tracked["eta"].channel = c THEN <<edit>>
                      ELSE drop \o <<send, record>>
  <2>1. /\ {"edit", "delete", "send", "record"} \subseteq Deeds
        /\ {"clear eta", "clear lists", "end", "compare"} \subseteq Deeds \ {"record"}
        /\ "eta" \in Kinds \ {"notice"} /\ "stop" \in Fates
    BY DEF Deeds, Procedures, Kinds, Fates
  <2>2. /\ edit \in Elsewhere /\ delete \in Elsewhere /\ send \in Elsewhere
        /\ record \in Elsewhere /\ compare \in Elsewhere /\ End \in Elsewhere
        /\ Run("clear eta") \in Elsewhere /\ Run("clear lists") \in Elsewhere
    BY <2>1, ElsewhereOps DEF End
  <2>3. UpdatePlan(c) = shown \o <<compare, End>>
    BY DEF UpdatePlan
  <2>4. drop = IF tracked["eta"] = None THEN <<>> ELSE <<delete>>
    BY DEF IfAny
  <2> HIDE DEF edit, delete, send, record, compare, drop
  <2>5. /\ <<>> \in Seq(Elsewhere) /\ <<edit>> \in Seq(Elsewhere)
        /\ <<delete>> \in Seq(Elsewhere) /\ <<send, record>> \in Seq(Elsewhere)
        /\ <<compare, End>> \in Seq(Elsewhere)
    BY <2>2, ElsewhereOps, PlansOf
  <2>6. drop \in Seq(Elsewhere)
    BY <2>4, <2>5
  <2>7. drop \o <<send, record>> \in Seq(Elsewhere)
    BY <2>5, <2>6, ElsewhereOps, PlansOf
  <2>8. shown \in Seq(Elsewhere)
    BY <2>5, <2>7
  <2> HIDE DEF shown
  <2>9. UpdatePlan(c) \in Seq(Elsewhere)
    BY <2>3, <2>5, <2>8, ElsewhereOps, PlansOf
  <2>10. Stack \in Seq(Elsewhere)
    BY <2>2, ElsewhereOps, PlansOf DEF Stack
  <2> QED
    BY <2>5, <2>9, <2>10
<1>8. ops \in Seq(Elsewhere) /\ ops \in Seq(Operation)
  <2>1. ops \in Seq(Elsewhere)
    BY <1>6, <1>7
  <2> QED
    BY <2>1, ElsewhereOps, PlansOf
<1>9. then \in TaskRecord /\ then.todo = ops \o Tail(task[t].todo)
  BY <1>1, <1>8, ThenFields
<1> HIDE DEF then
<1>10. next \in TaskRecord /\ next.todo = ops \o Tail(task[t].todo) /\ ~next.failed
  BY <1>1, <1>9 DEF TaskRecord
<1> HIDE DEF next
<1> QED
  BY <1>2, <1>4, <1>5, <1>8, <1>10, ElsewhereHeals

\* What is done for a server that is offline.
LEMMA OfflineDoes ==
  ASSUME NoticesInv
  PROVE  /\ \A a \in Range(ShowOffline) :
              /\ a.do \in {"end", "clear eta", "clear lists", "check", "delete", "forget",
                           "send", "edit", "record"}
              /\ Posts(a) \/ a.do = "record" => a.kind = "notice"
         /\ \A k \in Kinds \ {"notice"} :
              tracked[k] = None \/ \E a \in Range(ShowOffline) : Withdrawn(a, k)
         /\ \E a \in Range(ShowOffline) : Records(a, "notice")
         /\ \/ \E a \in Range(ShowOffline) : a.do = "send"
            \/ /\ \E a \in Range(ShowOffline) : a.do = "edit"
               /\ tracked["notice"].channel = route
               /\ \A a \in Range(ShowOffline) : ~Removes(a, "notice")
<1> DEFINE status == IfAny("status", "forget", "stop")
           check == Op("check", "status", "stop")
           recovery == IfAny("recovery", "forget", "stop")
           notice == IfAny("notice", "delete", "stop")
           edit == Op("edit", "notice", "stop")
           send == Op("send", "notice", "stop")
           record == Op("record", "notice", "stop")
           moved == notice \o <<send>>
           here == tracked["notice"] # None /\ tracked["notice"].channel = route
           shown == IF here THEN <<edit>> ELSE moved
           all == ShowOffline
<1>0. {"status", "recovery", "notice"} \subseteq Kinds /\ "stop" \in Fates
  BY DEF Kinds, Fates
<1>1. /\ check \in Operation /\ check.do = "check"
      /\ edit \in Operation /\ edit.do = "edit" /\ edit.kind = "notice"
      /\ send \in Operation /\ send.do = "send" /\ send.kind = "notice"
  BY DEF Op, Operation, Deeds, Kinds, Fates
<1>2. /\ record.do = "record" /\ record.kind = "notice" /\ End.do = "end"
      /\ <<record, End>> \in Seq(Operation) /\ Range(<<record, End>>) = {record, End}
  BY <1>0, RecordEnd
<1>3. /\ status \in Seq(Operation) /\ recovery \in Seq(Operation) /\ notice \in Seq(Operation)
      /\ \A a \in Range(status) : a.do = "forget" /\ a.kind = "status"
      /\ \A a \in Range(recovery) : a.do = "forget" /\ a.kind = "recovery"
      /\ \A a \in Range(notice) : a.do = "delete" /\ a.kind = "notice"
      /\ tracked["status"] # None => Op("forget", "status", "stop") \in Range(status)
      /\ tracked["recovery"] # None => Op("forget", "recovery", "stop") \in Range(recovery)
  BY <1>0, AnyKept
<1>4. /\ Stack \in Seq(Operation)
      /\ \A a \in Range(Stack) : a.do \in {"clear eta", "clear lists"}
      /\ \E a \in Range(Stack) : a.do = "clear eta"
      /\ \E a \in Range(Stack) : a.do = "clear lists"
  BY StackKept
<1>5. /\ <<check>> \in Seq(Operation) /\ Range(<<check>>) = {check}
      /\ <<edit>> \in Seq(Operation) /\ Range(<<edit>>) = {edit}
      /\ <<send>> \in Seq(Operation) /\ Range(<<send>>) = {send}
  BY <1>1, OneOperation
<1> DEFINE g1 == status \o Stack
           g2 == g1 \o <<check>>
           g3 == g2 \o recovery
           g4 == g3 \o shown
<1>6. all = g4 \o <<record, End>>
  BY DEF ShowOffline
<1> HIDE DEF status, check, recovery, notice, edit, send, record, all
<1>7. g1 \in Seq(Operation) /\ Range(g1) = Range(status) \cup Range(Stack)
  BY <1>3, <1>4, JoinedOrder
<1> HIDE DEF g1
<1>8. g2 \in Seq(Operation) /\ Range(g2) = Range(g1) \cup {check}
  BY <1>5, <1>7, JoinedOrder
<1> HIDE DEF g2
<1>9. g3 \in Seq(Operation) /\ Range(g3) = Range(g2) \cup Range(recovery)
  BY <1>3, <1>8, JoinedOrder
<1> HIDE DEF g3
<1>10. moved \in Seq(Operation) /\ Range(moved) = Range(notice) \cup {send}
  BY <1>3, <1>5, JoinedOrder
<1> HIDE DEF moved
<1>11. /\ shown \in Seq(Operation)
       /\ \/ Range(shown) = {edit} /\ tracked["notice"].channel = route
          \/ Range(shown) = Range(notice) \cup {send}
  BY <1>5, <1>10
<1> HIDE DEF shown
<1>12. g4 \in Seq(Operation) /\ Range(g4) = Range(g3) \cup Range(shown)
  BY <1>9, <1>11, JoinedOrder
<1> HIDE DEF g4
<1>13. Range(all) = Range(g4) \cup {record, End}
  BY <1>2, <1>6, <1>12, JoinedOrder
<1> DEFINE before == Range(status) \cup Range(Stack) \cup {check} \cup Range(recovery)
<1>14. \/ Range(all) = before \cup {edit, record, End} /\ tracked["notice"].channel = route
       \/ Range(all) = before \cup Range(notice) \cup {send, record, End}
  BY <1>7, <1>8, <1>9, <1>11, <1>12, <1>13
<1>15. \A a \in before : a.do \in {"forget", "clear eta", "clear lists", "check"}
                         /\ ~Removes(a, "notice")
  BY <1>1, <1>3, <1>4 DEF Removes
<1>16. before \subseteq Range(all) /\ record \in Range(all)
  BY <1>14
<1>17. ASSUME NEW k \in Kinds \ {"notice"}, tracked[k] # None
       PROVE  \E a \in Range(all) : Withdrawn(a, k)
  <2>1. CASE k = "status" \/ k = "recovery"
    <3>1. Op("forget", k, "stop") \in before
      BY <1>3, <1>17, <2>1
    <3>2. Withdrawn(Op("forget", k, "stop"), k)
      BY DEF Withdrawn, Op
    <3> QED
      BY <1>16, <3>1, <3>2
  <2>2. CASE k \in PlayerKinds
    <3>1. PICK a \in Range(Stack) : Clears(a, k)
      BY <1>4, <2>2 DEF PlayerKinds, Clears
    <3> QED
      BY <1>16, <3>1 DEF Withdrawn
  <2> QED
    BY <1>17, <2>1, <2>2, SomeKinds DEF Kinds
<1> HIDE DEF before
<1>18. /\ \A a \in Range(all) :
            /\ a.do \in {"end", "clear eta", "clear lists", "check", "delete", "forget",
                         "send", "edit", "record"}
            /\ Posts(a) \/ a.do = "record" => a.kind = "notice"
  BY <1>1, <1>2, <1>3, <1>14, <1>15 DEF Posts
<1>19. \/ \E a \in Range(all) : a.do = "send"
       \/ /\ \E a \in Range(all) : a.do = "edit"
          /\ tracked["notice"].channel = route
          /\ \A a \in Range(all) : ~Removes(a, "notice")
  <2>1. ~Removes(edit, "notice") /\ ~Removes(record, "notice") /\ ~Removes(End, "notice")
    BY <1>1, <1>2 DEF Removes
  <2> QED
    BY <1>1, <1>14, <1>15, <2>1
<1>20. Records(record, "notice")
  BY <1>2 DEF Records
<1> QED
  BY <1>16, <1>17, <1>18, <1>19, <1>20 DEF all

\* What is done for one that is back.
LEMMA RecoveryDoes ==
  /\ \A a \in Range(ShowRecovery) : Leading(a) /\ ~Records(a, "notice")
  /\ \E a \in Range(ShowRecovery) : Recovers(a)
<1> DEFINE delete == Op("delete", "notice", "stop")
           send == Op("send", "recovery", "stop")
           record == Op("record", "recovery", "stop")
           s == ShowRecovery
<1>1. /\ delete.do = "delete" /\ send.do = "send" /\ End.do = "end"
      /\ record.do = "record" /\ record.kind = "recovery"
  BY Operations DEF Op
<1>2. s = <<delete, send, record, End>>
  BY DEF ShowRecovery
<1> HIDE DEF delete, send, record, s
<1>3. /\ DOMAIN s = 1 .. 4
      /\ s[1] = delete /\ s[2] = send /\ s[3] = record /\ s[4] = End
  BY <1>2
<1>4. \A i \in 1 .. 4 : i = 1 \/ i = 2 \/ i = 3 \/ i = 4
  OBVIOUS
<1>5. Range(s) \subseteq {delete, send, record, End} /\ record \in Range(s)
  <2>1. 3 \in DOMAIN s
    BY <1>3
  <2> QED
    BY <1>3, <1>4, <2>1 DEF Range
<1>6. \A a \in {delete, send, record, End} : Leading(a) /\ ~Records(a, "notice")
  <2>1. "notice" \notin Listed
    BY SomeKinds
  <2> QED
    BY <1>1, <2>1 DEF Leading, Records
<1>7. Recovers(record)
  BY <1>1 DEF Recovers
<1> QED
  BY <1>5, <1>6, <1>7 DEF s

LEMMA ReconcileHeals ==
  ASSUME NoticesInv, KeptInv, NEW t \in Tasks, Busy(t), Reconcile(t), Reach(route),
         Restores(task[t], tracked, live, route)
  PROVE  Restores(task'[t], tracked', live', route)
<1> DEFINE h == Head(task[t].todo)
           rest == Range(Tail(task[t].todo))
           tk == task[t]
           kinds == {"status", "recovery", "notice"}
           ops == CASE ~Reach(route) -> <<>>
                    [] Reach(route) /\ lifecycle = "offline" -> ShowOffline
                    [] Reach(route) /\ lifecycle = "confirmed" /\ tracked["notice"] # None ->
                         ShowRecovery
                    [] OTHER -> <<>>
           then == Then(t, ops)
           next == [then EXCEPT !.old = Reads(t, kinds), !.route = route,
                                !.ping = ShouldPing, !.failed = FALSE]
<1>1. /\ TypesHold /\ task \in [Tasks -> TaskRecord] /\ kinds \in SUBSET Kinds
      /\ route \in Places /\ pinged \in BOOLEAN /\ Orderly(task[t]) /\ "notice" \in kinds
  BY TypeFacts DEF NoticesInv, KeptInv, Kinds
<1>2. h.do = "reconcile" /\ Goes(t, next) /\ Discord(live) /\ tracked' = tracked
  BY DEF Reconcile, Doing, OnlyThinks
<1>3. /\ lifecycle = "offline" => ops = ShowOffline
      /\ lifecycle = "confirmed" =>
           \/ ops = <<>> /\ tracked["notice"] = None
           \/ ops = ShowRecovery
      /\ ops = <<>> \/ ops = ShowOffline \/ ops = ShowRecovery
  OBVIOUS
<1> HIDE DEF ops
<1>4. OwnRules(ops)
  BY <1>3, NoRules, OfflineKept, RecoveryKept
<1>5. ops \in Seq(Operation) /\ Ordered(ops)
  BY <1>4 DEF OwnRules
<1>6. then \in TaskRecord /\ then.todo = ops \o Tail(task[t].todo)
      /\ Range(then.todo) = Range(ops) \cup rest
  BY <1>1, <1>5, ThenFields, ThenPlan
<1>7. Reads(t, kinds) \in Known /\ Reads(t, kinds)["notice"] = tracked["notice"]
  BY <1>1, ReadsType, ReadKinds
<1> HIDE DEF then, kinds
<1>8. /\ next \in TaskRecord /\ next.todo = ops \o Tail(task[t].todo)
      /\ Plan(next) = Range(ops) \cup rest /\ ~next.failed
      /\ next.route = route /\ next.old["notice"] = tracked["notice"]
  BY <1>1, <1>6, <1>7 DEF TaskRecord, ShouldPing, Plan
<1>9. Plan(tk) = {h} \cup rest /\ \A b \in rest : Routine(b)
  <2>1. h.do \in Procedures
    BY <1>2 DEF Procedures
  <2> QED
    BY <1>1, <2>1, PlanOf, RoutineRest
<1> HIDE DEF h, rest, next
<1>10. ASSUME lifecycle = "offline"
       PROVE  /\ ShowsOffline(next, tracked', live, route)
              /\ \A a \in Range(ops), b \in rest : Precedes(a, b)
  <2>1. Quiet(next)
    BY <1>3, <1>8, <1>9, <1>10, OfflineDoes DEF Restores, ShowsOffline, Quiet
  <2>2. \A a \in rest : ~Removes(a, "notice")
    BY <1>9 DEF Routine, Procedures, Removes
  <2>3. Withdraws(next, tracked') /\ \E a \in Plan(next) : Records(a, "notice")
    BY <1>2, <1>3, <1>8, <1>10, OfflineDoes DEF Withdraws
  <2>4. Sends(next, live, route)
    <3>1. CASE \E a \in Range(ops) : a.do = "send"
      BY <1>8, <3>1 DEF Sends
    <3>2. CASE /\ \E a \in Range(ops) : a.do = "edit"
               /\ tracked["notice"].channel = route
               /\ \A a \in Range(ops) : ~Removes(a, "notice")
      BY <1>8, <2>2, <3>2 DEF Sends
    <3> QED
      BY <1>3, <1>10, <3>1, <3>2, OfflineDoes
  <2>5. ASSUME NEW a \in Range(ops), NEW b \in rest
        PROVE  Precedes(a, b)
    <3>1. /\ a.do \notin {"remove", "add", "activate", "set", "refresh"}
          /\ ~Guards(a) /\ Routine(b)
      BY <1>4, <1>9, <2>5 DEF OwnRules, Decides
    <3>2. b.do # "record"
      BY <3>1 DEF Routine, Procedures
    <3> QED
      BY <3>1, <3>2 DEF Precedes, Allows
  <2> QED
    BY <1>8, <2>1, <2>3, <2>4, <2>5 DEF ShowsOffline
<1>11. ASSUME lifecycle = "confirmed"
       PROVE  ShowsBack(next, tracked')
  <2>1. /\ \A a \in Range(ops) : ~Records(a, "notice")
        /\ tracked["notice"] # None =>
             (\A a \in Range(ops) : Leading(a)) /\ \E a \in Range(ops) : Recovers(a)
    BY <1>3, <1>11, RecoveryDoes, NoRules
  <2>2. /\ ShowsBack(tk, tracked) /\ tracked'["notice"] \in {None, tracked["notice"]}
        /\ Plan(tk) = {h} \cup rest /\ Plan(next) = Range(ops) \cup rest
    BY <1>2, <1>8, <1>9, <1>11 DEF Restores
  <2> HIDE DEF tk
  <2> QED
    BY <1>2, <2>1, <2>2, BackStep
<1> QED
  BY <1>2, <1>5, <1>8, <1>10, <1>11, Heals DEF rest

\* What a step that leaves the cycle undisturbed is.
LEMMA CalmDoes ==
  ASSUME NEW t \in Tasks, Does(t), calm'
  PROVE  /\ UNCHANGED <<lifecycle, exists, route>> /\ calm /\ Busy(t) /\ ~(Fails(t) \/ Unanswered(t))
         /\ \E next : Goes(t, next)
<1>1. ~Fails(t) /\ ~Unanswered(t)
  BY DEF Fails, Unanswered
<1>2. CASE Delete(t) \/ Edit(t) \/ Send(t)
  <2>1. CASE Delete(t)
    BY <1>1, <2>1 DEF Delete, Doing, server, config
  <2>2. CASE Edit(t)
    <3>1. Busy(t) /\ \E next : Goes(t, next)
      BY <2>2 DEF Edit, Doing
    <3>2. UNCHANGED <<lifecycle, exists, route, calm>>
      BY <2>2 DEF Edit, server, config
    <3> QED
      BY <1>1, <3>1, <3>2
  <2>3. CASE Send(t)
    BY <1>1, <2>3 DEF Send, Doing, server, config
  <2> QED
    BY <1>2, <2>1, <2>2, <2>3
<1>3. CASE Clear(t) \/ Announce(t, "announce") \/ Announce(t, "post")
  <2>1. PICK do, kinds, ops : Look(t, do, kinds, ops)
    BY <1>3 DEF Clear, Announce
  <2> QED
    BY <1>1, <2>1 DEF Look, Doing, OnlyThinks, server, config
<1>4. CASE Check(t) \/ Reconcile(t) \/ Build(t)
  BY <1>1, <1>4 DEF Check, Reconcile, Build, Doing, OnlyThinks, server, config
<1>5. CASE Display(t, "refresh") \/ Display(t, "display")
  BY <1>1, <1>5 DEF Display, Doing, OnlyThinks, server, config
<1>6. CASE Compare(t)
  BY <1>1, <1>6 DEF Compare, Doing, server, config
<1>7. CASE Record(t)
  BY <1>1, <1>7 DEF Record, Doing, config
<1> QED
  BY <1>1, <1>2, <1>3, <1>4, <1>5, <1>6, <1>7 DEF Does

LEMMA CalmStep ==
  ASSUME HealInv, [MessagesNext]_messagesVars, calm'
  PROVE  /\ UNCHANGED <<lifecycle, exists, route>>
         /\ \/ Cycle
            \/ /\ calm /\ Busy("monitor") /\ ~Busy("command")
               /\ Does("monitor") /\ ~(Fails("monitor") \/ Unanswered("monitor"))
               /\ \E next : Goes("monitor", next)
            \/ calm /\ ~Busy("command") /\ UNCHANGED messagesVars
<1>1. calm => ~Busy("command")
  BY DEF HealInv
<1>2. CASE \E t \in Tasks : Does(t)
  <2>1. PICK t \in Tasks : Does(t)
    BY <1>2
  <2>2. /\ UNCHANGED <<lifecycle, exists, route>> /\ calm /\ Busy(t) /\ ~(Fails(t) \/ Unanswered(t))
        /\ \E next : Goes(t, next)
    BY <2>1, CalmDoes
  <2>3. t = "monitor"
    BY <1>1, <2>2 DEF Tasks
  <2> QED
    BY <1>1, <2>1, <2>2, <2>3
<1>3. ~(Added \/ Moved \/ Activated \/ Confirmed \/ Removed)
  <2>1. ~(Added \/ Moved \/ Activated)
    BY <1>1 DEF Added, Moved, Activated, Sets, OnlyThinks, Doing
  <2>2. ~(Confirmed \/ Removed)
    BY <1>1 DEF Confirmed, Removed, OnlyThinks, Doing
  <2> QED
    BY <2>1, <2>2
<1>4. \A ops, c, u : ~Commands(ops, c, u)
  BY DEF Commands
<1>5. /\ ~DefaultRemove /\ ~DelServer
      /\ \A c \in Channels : /\ ~DefaultModify(c) /\ ~AddServer(c) /\ ~ChannelDeleted(c)
                             /\ \A u \in BOOLEAN : ~DefaultAdd(c, u)
  BY <1>4 DEF DefaultRemove, DelServer, DefaultModify, AddServer, ChannelDeleted, Trouble,
     DefaultAdd
<1>6. ~Keeper /\ ~Crash /\ \A k \in Kinds : ~Vanish(k)
  BY DEF Keeper, Crash, Vanish, Trouble
<1>7. CASE Cycle
  BY <1>7 DEF Cycle, config
<1>8. CASE UNCHANGED messagesVars
  BY <1>1, <1>8 DEF messagesVars, server, config, history
<1> QED
  BY <1>2, <1>3, <1>5, <1>6, <1>7, <1>8 DEF MessagesNext

LEMMA HealDoes ==
  ASSUME EnoughIds, NoticesInv, KeptInv, Busy("monitor"), Does("monitor"),
         ~(Fails("monitor") \/ Unanswered("monitor")), Reach(route), Restores(task["monitor"], tracked, live, route)
  PROVE  Restores(task'["monitor"], tracked', live', route)
<1> DEFINE t == "monitor"
<1>1. t \in Tasks
  BY DEF Tasks
<1>2. /\ Busy(t) /\ Does(t) /\ ~(Fails(t) \/ Unanswered(t)) /\ Restores(task[t], tracked, live, route)
  OBVIOUS
<1> SUFFICES Restores(task'[t], tracked', live', route)
  OBVIOUS
<1> HIDE DEF t
<1>3. CASE Delete(t) \/ Edit(t) \/ Send(t)
  BY <1>1, <1>2, <1>3, DeleteHeals, EditHeals, SendHeals
<1>4. CASE Clear(t) \/ Check(t)
  BY <1>1, <1>2, <1>4, ClearHeals, CheckHeals
<1>5. CASE Compare(t) \/ Build(t)
  BY <1>1, <1>2, <1>5, CompareHeals, BuildHeals
<1>6. CASE Announce(t, "announce") \/ Announce(t, "post")
  BY <1>1, <1>2, <1>6, AnnounceHeals
<1>7. CASE Display(t, "refresh") \/ Display(t, "display")
  BY <1>1, <1>2, <1>7, DisplayHeals
<1>8. CASE Reconcile(t) \/ Record(t)
  BY <1>1, <1>2, <1>8, ReconcileHeals, RecordHeals
<1> QED
  BY <1>2, <1>3, <1>4, <1>5, <1>6, <1>7, <1>8 DEF Does

LEMMA CycleHealed ==
  ASSUME NoticesInv, Cycle
  PROVE  Restores(task'["monitor"], tracked', live', route) /\ ~Busy("command")'
<1>1. task \in [Tasks -> TaskRecord] /\ "monitor" \in Tasks /\ "command" \in Tasks
  BY TypeFacts DEF NoticesInv, Tasks
<1>2. PICK fresh \in BOOLEAN, newMap \in BOOLEAN :
        LET seen == IF newMap /\ map = "current" THEN "old" ELSE map
            default == route # NoChannel
        IN  /\ fresh => lifecycle = "confirmed"
            /\ task' = [task EXCEPT !["monitor"] =
                 [Free EXCEPT !.route = route, !.users = users,
                    !.todo = (IF default /\ seen = "old" /\ fresh THEN <<Run("announce")>>
                              ELSE <<>>)
                             \o <<Run("reconcile")>>
                             \o (IF fresh THEN <<Run("refresh")>> ELSE <<>>)]]
  BY DEF Cycle
<1> DEFINE seen == IF newMap /\ map = "current" THEN "old" ELSE map
           announce == Run("announce")
           reconcile == Run("reconcile")
           refresh == Run("refresh")
           first == IF route # NoChannel /\ seen = "old" /\ fresh THEN <<announce>> ELSE <<>>
           last == IF fresh THEN <<refresh>> ELSE <<>>
           most == first \o <<reconcile>>
           todo == most \o last
           next == [Free EXCEPT !.route = route, !.users = users, !.todo = todo]
<1>3. task' = [task EXCEPT !["monitor"] = next]
  BY <1>2
<1>4. /\ announce.do = "announce" /\ reconcile.do = "reconcile" /\ refresh.do = "refresh"
      /\ <<announce>> \in Seq(Operation) /\ Range(<<announce>>) = {announce}
      /\ <<reconcile>> \in Seq(Operation) /\ Range(<<reconcile>>) = {reconcile}
      /\ <<refresh>> \in Seq(Operation) /\ Range(<<refresh>>) = {refresh}
  BY RunFields DEF Procedures
<1> HIDE DEF announce, reconcile, refresh
<1>5. /\ first \in Seq(Operation) /\ last \in Seq(Operation)
      /\ Range(first) \subseteq {announce} /\ Range(last) \subseteq {refresh}
      /\ ~fresh => Range(first) = {} /\ Range(last) = {}
  BY <1>4, RangeFacts, EmptySeq
<1> HIDE DEF first, last
<1>6. most \in Seq(Operation) /\ Range(most) = Range(first) \cup {reconcile}
  <2>1. <<reconcile>> \in Seq(Operation) /\ Range(<<reconcile>>) = {reconcile}
    BY <1>4
  <2>2. first \in Seq(Operation)
    BY <1>5
  <2> QED
    BY <2>1, <2>2, JoinedOrder
<1> HIDE DEF most
<1>7. Range(todo) = Range(most) \cup Range(last)
  BY <1>5, <1>6, JoinedOrder
<1> HIDE DEF todo
<1>8. task'["monitor"] = next /\ task'["command"] = task["command"]
  BY <1>1, <1>3
<1>9. Plan(next) = Range(todo) /\ ~next.failed
  BY DEF Plan, Free
<1> HIDE DEF next
<1>10. lifecycle = "offline" => ShowsOffline(next, tracked', live', route)
  BY <1>2, <1>4, <1>5, <1>6, <1>7, <1>9 DEF ShowsOffline, Quiet, Posts
<1>11. ShowsBack(next, tracked')
  BY <1>4, <1>5, <1>6, <1>7, <1>9 DEF ShowsBack, Leading, Records
<1>12. ~Busy("command")'
  BY <1>1, <1>8 DEF Cycle, Busy
<1> QED
  BY <1>8, <1>9, <1>10, <1>11, <1>12 DEF Restores

LEMMA HealNext ==
  ASSUME EnoughIds, NoticesInv, KeptInv, HealInv, [MessagesNext]_messagesVars
  PROVE  HealInv'
<1> SUFFICES ASSUME calm'
             PROVE  /\ ~Busy("command")'
                    /\ route' # NoChannel /\ exists' = Channels =>
                         Restores(task["monitor"], tracked, live, route)'
  BY DEF HealInv
<1>1. UNCHANGED <<lifecycle, exists, route>>
  BY CalmStep
<1>2. Restores(task'["monitor"], tracked', live', route) =>
        Restores(task["monitor"], tracked, live, route)'
  BY <1>1 DEF Restores
<1>3. CASE Cycle
  BY <1>2, <1>3, CycleHealed
<1>4. CASE /\ calm /\ Busy("monitor") /\ ~Busy("command")
           /\ Does("monitor") /\ ~(Fails("monitor") \/ Unanswered("monitor")) /\ \E next : Goes("monitor", next)
  <2>1. ~Busy("command")'
    <3>1. "command" \in Tasks /\ "command" # "monitor" /\ task \in [Tasks -> TaskRecord]
      BY TypeFacts DEF NoticesInv, Tasks
    <3>2. task'["command"] = task["command"]
      BY <1>4, <3>1 DEF Goes
    <3> QED
      BY <1>4, <3>2 DEF Busy
  <2>2. ASSUME route # NoChannel, exists = Channels
        PROVE  Restores(task'["monitor"], tracked', live', route)
    <3>1. Restores(task["monitor"], tracked, live, route)
      BY <1>4, <2>2 DEF HealInv
    <3>2. Reach(route)
      BY <2>2, TypeFacts DEF NoticesInv, Reach, Places
    <3> QED
      BY <1>4, <3>1, <3>2, HealDoes
  <2> QED
    BY <1>1, <1>2, <2>1, <2>2
<1>5. CASE calm /\ ~Busy("command") /\ UNCHANGED messagesVars
  <2>1. UNCHANGED <<task, tracked, live, lifecycle>>
    BY <1>1, <1>5 DEF messagesVars
  <2>2. ~Busy("command")'
    BY <1>5, <2>1 DEF Busy
  <2>3. ASSUME route # NoChannel, exists = Channels
        PROVE  Restores(task'["monitor"], tracked', live', route)
    BY <1>5, <2>1, <2>3 DEF HealInv
  <2> QED
    BY <1>1, <1>2, <2>2, <2>3
<1> QED
  BY <1>3, <1>4, <1>5, CalmStep

\* A cycle that is over has left nothing to put right.
LEMMA HealShows ==
  ASSUME NoticesInv, KeptInv, HealInv, calm, ~Busy("monitor"), route # NoChannel,
         exists = Channels
  PROVE  Shown
<1>1. Restores(task["monitor"], tracked, live, route)
  BY DEF HealInv
<1>2. Plan(task["monitor"]) = {}
  BY RangeFacts DEF Busy, Plan
<1>3. lifecycle = "offline" => Healed(tracked, live, route)
  BY <1>1, <1>2 DEF Restores, ShowsOffline
<1>4. lifecycle = "confirmed" => tracked["notice"] = None
  BY <1>1, <1>2 DEF Restores, ShowsBack
<1>5. ASSUME excuses = {}
      PROVE  OnlyRecorded
  <2>1. Kept
    BY <1>5 DEF KeptInv
  <2>2. \A t \in Tasks : task[t] = Free
    BY DEF HealInv, Busy, NoticesInv, Steady, Tasks
  <2>3. \A k \in Kinds : None \notin live[k]
    BY TypeFacts, FreeFields DEF NoticesInv
  <2> QED
    BY <2>1, <2>2, <2>3, FreeFields DEF OnlyRecorded, Kept, Accounted, MadeBy
<1> QED
  BY <1>3, <1>4, <1>5 DEF Shown, Healed, Stands

\* One undisturbed cycle puts right what is on record of a server, from whatever state
\* its coroutines, failed calls and crashes have left: what is not right yet is what the
\* rest of the cycle's plan does. Of a server that is offline the plan takes away what
\* else is on record and then edits, moves or sends the notice and records it, of one
\* that is back it takes the notice from the record; and nothing in it undoes that.
\* Nothing else stands in Discord then, unless a message was not put on record, the two
\* coroutines had met or half a list was sent: a message that stands is on record, or
\* was made by a coroutine, and both are done.
\* (reconcile_server_lifecycle_discord, refresh_persistent_player_displays.)
THEOREM CyclesHeal ==
  ASSUME EnoughIds
  PROVE  MessagesSpec => CycleHeals
<1>1. MessagesInit => KeptInv
  BY KeptInit
<1>2. KeptInv /\ NoticesInv /\ [MessagesNext]_messagesVars => KeptInv'
  BY KeptNext
<1>3. MessagesInit => HealInv
  BY DEF MessagesInit, HealInv
<1>4. HealInv /\ KeptInv /\ NoticesInv /\ [MessagesNext]_messagesVars => HealInv'
  BY HealNext
<1>5. ASSUME HealInv, HealInv', NoticesInv', KeptInv', [MessagesNext]_messagesVars
      PROVE  [/\ calm' /\ Busy("monitor") /\ ~Busy("monitor")'
              /\ route # NoChannel /\ exists = Channels
              => Shown']_messagesVars
  <2> SUFFICES ASSUME calm', ~Busy("monitor")', route # NoChannel, exists = Channels
               PROVE  Shown'
    OBVIOUS
  <2>1. route' = route /\ exists' = exists
    BY <1>5, CalmStep
  <2>2. (NoticesInv /\ KeptInv /\ HealInv /\ calm /\ ~Busy("monitor")
           /\ route # NoChannel /\ exists = Channels => Shown)'
    BY HealShows, PTL
  <2> QED
    BY <1>5, <2>1, <2>2
<1> QED
  BY <1>1, <1>2, <1>3, <1>4, <1>5, NoticesHold, PTL DEF MessagesSpec, CycleHeals
=============================================================================
