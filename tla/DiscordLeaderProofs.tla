------------------------- MODULE DiscordLeaderProofs -------------------------
(***************************************************************************)
(* The supervisors, for any number of workers, any TTL and any delays:     *)
(* types, generations that are never shared, handoffs that complete only   *)
(* after their target connected under a later generation, and, when the    *)
(* lease calls are Bounded, that who acts as leader holds the lease.       *)
(***************************************************************************)
EXTENDS DiscordLeader, TLAPS

\* Whatever a lease call goes through, it stays a well-formed call.
LEMMA CallFacts ==
  /\ NoCall \in CallType
  /\ \A op \in {"none", "acquire", "renew", "release"} : Refusal(op) \in CallType
  /\ \A op \in {"acquire", "renew", "release"}, g \in Nat : NewCall(op, g) \in CallType
  /\ \A c \in CallType :
       /\ c.gen \in Nat /\ c.lag \in 0..TTL /\ c.age \in 0..TTL
       /\ c.op \in {"none", "acquire", "renew", "release"}
       /\ Remaining(c) \in 0..TTL
       /\ AgedCall(c) \in CallType
       /\ [c EXCEPT !.st = "begun"] \in CallType
       /\ [c EXCEPT !.age = 0] \in CallType
       /\ \A n \in 0..TTL : [c EXCEPT !.lag = n] \in CallType
       /\ \A g \in Nat : Grant(c, g) \in CallType
<1>1. NoCall \in CallType
  BY TTLAssumption DEF NoCall, CallType
<1>2. ASSUME NEW op \in {"none", "acquire", "renew", "release"}
      PROVE  Refusal(op) \in CallType
  BY TTLAssumption DEF Refusal, CallType
<1>3. ASSUME NEW op \in {"acquire", "renew", "release"}, NEW g \in Nat
      PROVE  NewCall(op, g) \in CallType
  BY TTLAssumption DEF NewCall, CallType
<1>4. ASSUME NEW c \in CallType
      PROVE  /\ c.gen \in Nat /\ c.lag \in 0..TTL /\ c.age \in 0..TTL
             /\ c.op \in {"none", "acquire", "renew", "release"}
             /\ Remaining(c) \in 0..TTL
             /\ [c EXCEPT !.st = "begun"] \in CallType
             /\ [c EXCEPT !.age = 0] \in CallType
  BY TTLAssumption DEF Remaining, CallType
<1>5. ASSUME NEW c \in CallType, NEW n \in 0..TTL
      PROVE  [c EXCEPT !.lag = n] \in CallType
  BY DEF CallType
<1>6. ASSUME NEW c \in CallType, NEW g \in Nat
      PROVE  Grant(c, g) \in CallType
  BY <1>4, TTLAssumption DEF Grant, CallType
<1>7. ASSUME NEW c \in CallType
      PROVE  AgedCall(c) \in CallType
  <2>1. \A n \in 0..TTL : Plus(n) \in 0..TTL
    BY TTLAssumption DEF Plus
  <2>2. QED
    BY <2>1 DEF AgedCall, CallType
<1>8. QED
  BY <1>1, <1>2, <1>3, <1>4, <1>5, <1>6, <1>7

\* The handoff transactions keep well-formed requests.
LEMMA RequestFacts ==
  ASSUME request \in [Requests -> RequestType]
  PROVE  /\ Swept \in [Requests -> RequestType]
         /\ \A r : Failed(r) \in [Requests -> RequestType]
         /\ \A r : Completed(r) \in [Requests -> RequestType]
         /\ \A r : Marked(r) \in [Requests -> RequestType]
         /\ \A r : [request EXCEPT ![r].lapsed = TRUE] \in [Requests -> RequestType]
         /\ \A w : Led(w) \in [Requests -> RequestType]
         /\ \A w : Abandons(w) => request' \in [Requests -> RequestType]
         /\ \A r \in Requests : \A u \in request[r].late :
              LateUpdate(r, u) => request' \in [Requests -> RequestType]
         /\ NoHandoff \in HandoffType
         /\ ActiveHandoff(Swept) \subseteq HandoffType
  <1>1. \A q \in RequestType :
          /\ [q EXCEPT !.status = "expired"] \in RequestType
          /\ [q EXCEPT !.status = "in_progress"] \in RequestType
          /\ [q EXCEPT !.status = "failed"] \in RequestType
          /\ [q EXCEPT !.status = "completed"] \in RequestType
          /\ [q EXCEPT !.lapsed = TRUE] \in RequestType
          /\ [q EXCEPT !.led = TRUE] \in RequestType
          /\ \A u \in {"start", "complete", "fail"} :
               /\ [q EXCEPT !.late = @ \cup {u}] \in RequestType
               /\ [q EXCEPT !.late = @ \ {u}] \in RequestType
    <2> SUFFICES ASSUME NEW q \in RequestType, NEW u \in {"start", "complete", "fail"}
                 PROVE  /\ \A st \in {"expired", "in_progress", "failed", "completed"} :
                             [q EXCEPT !.status = st] \in RequestType
                        /\ [q EXCEPT !.lapsed = TRUE] \in RequestType
                        /\ [q EXCEPT !.led = TRUE] \in RequestType
                        /\ [q EXCEPT !.late = @ \cup {u}] \in RequestType
                        /\ [q EXCEPT !.late = @ \ {u}] \in RequestType
      OBVIOUS
    <2>1. q.late \subseteq {"start", "complete", "fail"}
      BY DEF RequestType
    <2>2. ASSUME NEW late1 \in SUBSET {"start", "complete", "fail"}
          PROVE  [q EXCEPT !.late = late1] \in RequestType
      BY DEF RequestType
    <2>3. /\ [q EXCEPT !.late = @ \cup {u}] \in RequestType
          /\ [q EXCEPT !.late = @ \ {u}] \in RequestType
      <3>1. q.late \cup {u} \in SUBSET {"start", "complete", "fail"}
            /\ q.late \ {u} \in SUBSET {"start", "complete", "fail"}
        BY <2>1
      <3>2. QED
        BY <2>2, <3>1
    <2>4. QED
      BY <2>3 DEF RequestType, OpenStates, ClosedStates
  <1>2. Swept \in [Requests -> RequestType]
    BY <1>1 DEF Swept
  <1>3. ActiveHandoff(Swept) \subseteq HandoffType
    BY <1>2 DEF ActiveHandoff, HandoffType, NoHandoff, IsOpen
  <1>4. NoHandoff \in HandoffType
    BY DEF NoHandoff, HandoffType
  <1>5. \A r : /\ Failed(r) \in [Requests -> RequestType]
               /\ Completed(r) \in [Requests -> RequestType]
               /\ Marked(r) \in [Requests -> RequestType]
    BY <1>1 DEF Failed, Completed, Marked
  <1>6. \A r : [request EXCEPT ![r].lapsed = TRUE] \in [Requests -> RequestType]
    BY <1>1
  <1>7. \A w : Led(w) \in [Requests -> RequestType]
    BY <1>1 DEF Led
  <1>8. ASSUME NEW w, Abandons(w)
        PROVE  request' \in [Requests -> RequestType]
    <2>1. CASE request' = request
      BY <2>1
    <2>2. ASSUME NEW u \in Updates(w),
                 request' = [request EXCEPT ![handoff[w].id].late = @ \cup {u}]
          PROVE  request' \in [Requests -> RequestType]
      <3>1. u \in {"start", "complete", "fail"}
        BY DEF Updates
      <3>2. QED
        BY <1>1, <2>2, <3>1
    <2>3. QED
      BY <1>8, <2>1, <2>2 DEF Abandons
  <1>9. ASSUME NEW r \in Requests, NEW u \in request[r].late, LateUpdate(r, u)
        PROVE  request' \in [Requests -> RequestType]
    <2>1. u \in {"start", "complete", "fail"}
      BY DEF RequestType
    <2>2. PICK q \in [Requests -> RequestType] : request' = [q EXCEPT ![r].late = @ \ {u}]
      <3>1. CASE u = "start"
        BY <1>5, <1>9, <3>1 DEF LateUpdate
      <3>2. CASE u = "complete"
        BY <1>5, <1>9, <3>2 DEF LateUpdate
      <3>3. CASE u = "fail"
        BY <1>5, <1>9, <3>3 DEF LateUpdate
      <3>4. QED
        BY <2>1, <3>1, <3>2, <3>3
    <2>3. QED
      BY <1>1, <2>1, <2>2
  <1>10. QED
    BY <1>2, <1>3, <1>4, <1>5, <1>6, <1>7, <1>8, <1>9

\* The lease transactions write well-formed rows.
LEMMA LeaseFacts ==
  ASSUME NEW row \in LeaseRow, NEW w \in Workers, NEW g \in Nat, NEW lag \in 0..TTL
  PROVE  /\ row.owner \in Workers \cup {NoWorker}
         /\ row.generation \in Nat
         /\ Lease(w, g, lag) \in LeaseRow
         /\ AcquiredRow(row, w, lag) \in LeaseRow
         /\ RenewedRow(row, w, g, lag) \in LeaseRow
         /\ ReleasedRow(row, lag) \in LeaseRow
         /\ AgedRow(row) \in LeaseRow
  BY TTLAssumption DEF LeaseRow, Lease, AcquiredRow, RenewedRow, ReleasedRow, AgedRow

\* What a granted lease call writes is a well-formed row.
LEMMA WrittenFacts ==
  ASSUME lease \in LeaseRow, NEW w \in Workers, NEW c \in CallType, Granted(w, c)
  PROVE  /\ Written(w, c) \in LeaseRow
         /\ Written(w, c).generation \in Nat
  <1>1. c.gen \in Nat /\ c.lag \in 0..TTL
    BY CallFacts
  <1>2. CASE c.op = "acquire"
    BY <1>1, <1>2, LeaseFacts DEF Written
  <1>3. CASE c.op = "renew"
    BY <1>1, <1>3, LeaseFacts DEF Written
  <1>4. CASE c.op = "release"
    BY <1>1, <1>4, LeaseFacts DEF Written
  <1>5. QED
    BY <1>2, <1>3, <1>4 DEF Granted

\* A call nobody waits for any more is dropped or kept as it is.
LEMMA OrphanFacts ==
  ASSUME TypeOK, NEW w \in Workers, Orphaned(w)
  PROVE  late' \subseteq OrphanType
  <1>1. [call[w] EXCEPT !.age = 0] \in CallType
    BY CallFacts DEF TypeOK
  <1>2. [worker |-> w, call |-> [call[w] EXCEPT !.age = 0]] \in OrphanType
    BY <1>1 DEF OrphanType
  <1>3. QED
    BY <1>2 DEF Orphaned, TypeOK

\* The program starts well-typed.
LEMMA InitTypeOK == Init => TypeOK
  BY TTLAssumption, BoundsAssumption, CallFacts
  DEF Init, TypeOK, LeaseRow, NoLeaseRow, RequestType, Phases, HandoffType, NoHandoff

\* Every handler, and everything around it, keeps TypeOK.
LEMMA TypeStep ==
  ASSUME TypeOK, [Next]_vars
  PROVE  TypeOK'
<1> NoCall \in CallType /\ NoHandoff \in HandoffType
  BY CallFacts, RequestFacts DEF TypeOK
<1> USE DEF TypeOK, Phases
<1>1. ASSUME NEW w \in Workers, PollHandoff(w) PROVE TypeOK'
  BY <1>1, RequestFacts, BoundsAssumption DEF PollHandoff, At, ReadHandoff, Goto, supervisor
<1>2. ASSUME NEW w \in Workers, GiveUp(w) PROVE TypeOK'
  BY <1>2, RequestFacts, BoundsAssumption DEF GiveUp, At, Disturbed, Goto, supervisor
<1>3. ASSUME NEW w \in Workers, ElectOpenly(w) PROVE TypeOK'
  BY <1>3, CallFacts, BoundsAssumption DEF ElectOpenly, At, Send, Goto, supervisor, database, control
<1>4. ASSUME NEW w \in Workers, ElectTarget(w) PROVE TypeOK'
  BY <1>4, BoundsAssumption DEF ElectTarget, At, Goto, supervisor, database, control
<1>5. ASSUME NEW w \in Workers, RejectTarget(w) PROVE TypeOK'
  BY <1>5, RequestFacts, BoundsAssumption DEF RejectTarget, At, FailRequest, Goto, supervisor, Disturbed
<1>6. ASSUME NEW w \in Workers, AcceptTarget(w) PROVE TypeOK'
  <2>1. request' \in [Requests -> RequestType]
    BY <1>6, RequestFacts DEF AcceptTarget
  <2>2. call' \in [Workers -> CallType]
    BY <1>6, CallFacts DEF AcceptTarget, Send
  <2>3. QED
    BY <1>6, <2>1, <2>2 DEF AcceptTarget, Goto, supervisor
<1>7. ASSUME NEW w \in Workers, Acquired(w) PROVE TypeOK'
  BY <1>7, CallFacts, BoundsAssumption DEF Acquired, At, Goto, database, control
<1>8. ASSUME NEW w \in Workers, NotAcquired(w) PROVE TypeOK'
  BY <1>8, CallFacts, RequestFacts, BoundsAssumption DEF NotAcquired, At, Goto, supervisor, database
<1>9. ASSUME NEW w \in Workers, ConnectTooLate(w) PROVE TypeOK'
  BY <1>9, BoundsAssumption DEF ConnectTooLate, At, Relinquish, supervisor, database, Goto
<1>10. ASSUME NEW w \in Workers, StartSession(w) PROVE TypeOK'
  BY <1>10, BoundsAssumption DEF StartSession, At, Goto, Relinquish, database
<1>11. ASSUME NEW w \in Workers, RenewWhileConnecting(w) PROVE TypeOK'
  BY <1>11, CallFacts, BoundsAssumption DEF RenewWhileConnecting, At, Send, supervisor, database, control
<1>12. ASSUME NEW w \in Workers, RenewedWhileConnecting(w) PROVE TypeOK'
  BY <1>12, CallFacts, BoundsAssumption DEF RenewedWhileConnecting, At, database, control
<1>13. ASSUME NEW w \in Workers, ConnectLosesAuthority(w) PROVE TypeOK'
  BY <1>13, CallFacts, BoundsAssumption DEF ConnectLosesAuthority, At, Relinquish, supervisor, database, Goto
<1>14. ASSUME NEW w \in Workers, Connected(w) PROVE TypeOK'
  BY <1>14, RequestFacts, BoundsAssumption DEF Connected, At, Goto, supervisor, control
<1>15. ASSUME NEW w \in Workers, ClientExited(w) PROVE TypeOK'
  BY <1>15, BoundsAssumption DEF ClientExited, At, Relinquish, supervisor, database, Goto
<1>16. ASSUME NEW w \in Workers, CompleteHandoff(w) PROVE TypeOK'
  BY <1>16, RequestFacts, BoundsAssumption DEF CompleteHandoff, At, Goto, Disturbed, supervisor
<1>17. ASSUME NEW w \in Workers, Resume(w) PROVE TypeOK'
  BY <1>17, BoundsAssumption DEF Resume, At, Goto, supervisor, database, control
<1>18. ASSUME NEW w \in Workers, AuthorityExpired(w) PROVE TypeOK'
  BY <1>18, BoundsAssumption DEF AuthorityExpired, Relinquish, supervisor, database, Goto
<1>19. ASSUME NEW w \in Workers, BeginChecks(w) PROVE TypeOK'
  BY <1>19, RequestFacts, BoundsAssumption DEF BeginChecks, At, ReadHandoff, Goto, supervisor
<1>20. ASSUME NEW w \in Workers, KeepLeading(w) PROVE TypeOK'
  BY <1>20, RequestFacts, BoundsAssumption DEF KeepLeading, At, Goto, supervisor, database
<1>21. ASSUME NEW w \in Workers, RejectHandoff(w) PROVE TypeOK'
  BY <1>21, RequestFacts, BoundsAssumption DEF RejectHandoff, At, FailRequest, Goto, supervisor, Disturbed
<1>22. ASSUME NEW w \in Workers, HandOver(w) PROVE TypeOK'
  BY <1>22, RequestFacts, BoundsAssumption DEF HandOver, At, Relinquish, supervisor, database, Goto
<1>23. ASSUME NEW w \in Workers, AuditFails(w) PROVE TypeOK'
  BY <1>23, BoundsAssumption DEF AuditFails, At, Relinquish, supervisor, database, Goto
<1>24. ASSUME NEW w \in Workers, AuditPasses(w) PROVE TypeOK'
  BY <1>24, BoundsAssumption DEF AuditPasses, At, Goto, supervisor, database, control
<1>25. ASSUME NEW w \in Workers, Renew(w) PROVE TypeOK'
  BY <1>25, CallFacts, BoundsAssumption DEF Renew, At, Send, Goto, supervisor, database, control
<1>26. ASSUME NEW w \in Workers, Renewed(w) PROVE TypeOK'
  BY <1>26, CallFacts, BoundsAssumption DEF Renewed, At, Goto, database, control
<1>27. ASSUME NEW w \in Workers, AuthorityLost(w) PROVE TypeOK'
  BY <1>27, CallFacts, BoundsAssumption DEF AuthorityLost, At, Relinquish, supervisor, database, Goto
<1>28. ASSUME NEW w \in Workers, StopLeading(w) PROVE TypeOK'
  BY <1>28, BoundsAssumption DEF StopLeading, Goto, supervisor, database, control
<1>29. ASSUME NEW w \in Workers, CloseSession(w) PROVE TypeOK'
  BY <1>29, CallFacts, BoundsAssumption DEF CloseSession, At, Disconnected, Send, Goto, database, control
<1>30. ASSUME NEW w \in Workers, Released(w) PROVE TypeOK'
  BY <1>30, TTLAssumption DEF Released, ClearAuthority, database, Goto
<1>31. ASSUME NEW w \in Workers, FailConnectHandoff(w) PROVE TypeOK'
  BY <1>31, RequestFacts, BoundsAssumption DEF FailConnectHandoff, At, FailRequest, Goto, supervisor, Disturbed
<1>32. ASSUME NEW w \in Workers, Shutdown(w) PROVE TypeOK'
  <2>1. /\ pc' \in [Workers -> Phases] /\ origin' \in [Workers -> {"run", "check", "connect"}]
        /\ stopping' \in [Workers -> BOOLEAN]
    BY <1>32 DEF Shutdown, Relinquish, Goto
  <2>2. QED
    BY <1>32, <2>1 DEF Shutdown, database
<1>33. ASSUME NEW w \in Workers, Begin(w) PROVE TypeOK'
  <2>1. [call[w] EXCEPT !.st = "begun"] \in CallType /\ Refusal("acquire") \in CallType
    BY CallFacts
  <2>2. QED
    BY <1>33, <2>1 DEF Begin, supervisor, database, control
<1>34. ASSUME NEW w \in Workers, Commit(w) PROVE TypeOK'
  <2>1. call[w] \in CallType
    OBVIOUS
  <2>2. CASE Granted(w, call[w])
    <3>1. /\ lease' = Written(w, call[w])
          /\ call' = [call EXCEPT ![w] = Grant(call[w], lease'.generation)]
      BY <1>34, <2>2 DEF Commit
    <3>2. lease' \in LeaseRow /\ lease'.generation \in Nat
      BY <2>1, <2>2, <3>1, WrittenFacts
    <3>3. Grant(call[w], lease'.generation) \in CallType
      BY <2>1, <3>2, CallFacts
    <3>4. QED
      BY <1>34, <3>1, <3>2, <3>3 DEF Commit, supervisor, control
  <2>3. CASE ~Granted(w, call[w])
    <3>1. call' = [call EXCEPT ![w] = Refusal(call[w].op)] /\ UNCHANGED lease
      BY <1>34, <2>3 DEF Commit
    <3>2. Refusal(call[w].op) \in CallType
      BY <2>1, CallFacts
    <3>3. QED
      BY <1>34, <3>1, <3>2 DEF Commit, supervisor, control
  <2>4. QED
    BY <2>2, <2>3
<1>35. ASSUME NEW w \in Workers, AnnounceFails(w) PROVE TypeOK'
  BY <1>35, RequestFacts, BoundsAssumption DEF AnnounceFails, At, Disturbed, Goto, supervisor, database
<1>36. ASSUME NEW w \in Workers, ReadyFails(w) PROVE TypeOK'
  BY <1>36, BoundsAssumption DEF ReadyFails, At, Disturbed, Relinquish, supervisor, database, Goto
<1>37. ASSUME NEW w \in Workers, ChecksFail(w) PROVE TypeOK'
  BY <1>37, RequestFacts, BoundsAssumption DEF ChecksFail, Disturbed, Goto, supervisor
<1>38. ASSUME NEW w \in Workers, CloseRaises(w) PROVE TypeOK'
  BY <1>38, CallFacts, BoundsAssumption DEF CloseRaises, Left, At, Disturbed, Send, Goto, database, control
<1>39. ASSUME NEW w \in Workers, CloseCancelled(w) PROVE TypeOK'
  BY <1>39, BoundsAssumption DEF CloseCancelled, Left, At, Disturbed, Goto, database
<1>40. ASSUME NEW w \in Workers, CallFails(w) PROVE TypeOK'
  <2>1. late' \in SUBSET OrphanType
    BY <1>40, OrphanFacts DEF CallFails
  <2>2. QED
    BY <1>40, <2>1, TTLAssumption, BoundsAssumption DEF CallFails, Disturbed, Goto, supervisor, control, Relinquish,
                     ClearAuthority, database
<1>41. ASSUME NEW w \in Workers, ReleaseCancelled(w) PROVE TypeOK'
  <2>1. late' \in SUBSET OrphanType
    BY <1>41, OrphanFacts DEF ReleaseCancelled
  <2>2. QED
    BY <1>41, <2>1, TTLAssumption, BoundsAssumption DEF ReleaseCancelled, Disturbed, Goto, supervisor, database
<1>42. ASSUME NEW w \in Workers, Stop(w) PROVE TypeOK'
  BY <1>42, BoundsAssumption DEF Stop, Disturbed, database, control
<1>43. ASSUME NEW w \in Workers, Crash(w) PROVE TypeOK'
  <2>1. late' \in SUBSET OrphanType
    BY <1>43, OrphanFacts DEF Crash
  <2>2. request' \in [Requests -> RequestType]
    BY <1>43, RequestFacts DEF Crash
  <2>3. QED
    BY <1>43, <2>1, <2>2, TTLAssumption, BoundsAssumption DEF Crash, Disturbed, Goto
<1>44. ASSUME NEW w \in Workers, NEW h \in {"ok", "stale", "draining"}, SetHealth(w, h) PROVE TypeOK'
  BY <1>44, BoundsAssumption DEF SetHealth, Disturbed, supervisor, database, control
<1>45. ASSUME NEW w \in Workers, NEW s \in {"closed", "open", "broken"}, DropSession(w, s) PROVE TypeOK'
  BY <1>45, BoundsAssumption DEF DropSession, Disturbed, database, control
<1>46. ASSUME NEW w \in Workers, Start(w) PROVE TypeOK'
  BY <1>46, BoundsAssumption DEF Start, At, Goto, supervisor, database, control
<1>47. ASSUME NEW o \in late, LateBegin(o) PROVE TypeOK'
  <2>1. o.call \in CallType /\ o.worker \in Workers
    BY DEF OrphanType
  <2>2. [o EXCEPT !.call.st = "begun"] \in OrphanType
    BY <2>1, CallFacts DEF OrphanType
  <2>3. late' \in SUBSET OrphanType
    BY <1>47, <2>2 DEF LateBegin
  <2>4. QED
    BY <1>47, <2>3 DEF LateBegin, supervisor, database, control
<1>48. ASSUME NEW o \in late, LateCommit(o) PROVE TypeOK'
  <2>1. o.call \in CallType /\ o.worker \in Workers
    BY DEF OrphanType
  <2>2. lease' \in LeaseRow
    BY <1>48, <2>1, WrittenFacts DEF LateCommit
  <2>3. QED
    BY <1>48, <2>2 DEF LateCommit, supervisor, control
<1>49. ASSUME NEW r \in Requests, LapseRequest(r) PROVE TypeOK'
  BY <1>49, RequestFacts, BoundsAssumption DEF LapseRequest, supervisor, control
<1>50. ASSUME NEW r \in Requests, NEW t \in Workers, CreateRequest(r, t) PROVE TypeOK'
  <2>1. [status |-> "pending", source |-> lease.owner, target |-> t,
         expected |-> lease.generation, lapsed |-> FALSE,
         late |-> {}, led |-> FALSE] \in RequestType
    BY <1>50 DEF CreateRequest, RequestType, LeaseRow, OpenStates
  <2>2. request' \in [Requests -> RequestType]
    BY <1>50, <2>1, RequestFacts DEF CreateRequest
  <2>3. QED
    BY <1>50, <2>2 DEF CreateRequest, supervisor, control
<1>51. ASSUME Tick PROVE TypeOK'
  <2>1. lease' \in LeaseRow
    BY <1>51, TTLAssumption DEF Tick, LeaseRow, AgedRow
  <2>2. authority' \in [Workers -> 0..TTL]
    BY <1>51, TTLAssumption DEF Tick, Minus
  <2>3. call' \in [Workers -> CallType]
    BY <1>51, CallFacts DEF Tick
  <2>4. ASSUME NEW o \in late, NEW n \in 0..TTL
        PROVE  [o EXCEPT !.call.lag = n] \in OrphanType
    BY CallFacts DEF OrphanType
  <2>5. ASSUME NEW o \in late
        PROVE  o.call.lag \in 0..TTL /\ Plus(o.call.lag) \in 0..TTL
    <3>1. o.call \in CallType
      BY DEF OrphanType
    <3>2. o.call.lag \in 0..TTL
      BY <3>1, CallFacts
    <3>3. QED
      BY <3>2, TTLAssumption DEF Plus
  <2>6. late' \in SUBSET OrphanType
    BY <1>51, <2>4, <2>5 DEF Tick
  <2>7. QED
    BY <1>51, <2>1, <2>2, <2>3, <2>6 DEF Tick, control
<1>52. ASSUME UNCHANGED vars PROVE TypeOK'
  BY <1>52, BoundsAssumption DEF vars, supervisor, control, database
<1>53. ASSUME NEW r \in Requests, NEW u \in request[r].late, LateUpdate(r, u) PROVE TypeOK'
  <2>1. request' \in [Requests -> RequestType]
    BY <1>53, RequestFacts
  <2>2. QED
    BY <1>53, <2>1 DEF LateUpdate, supervisor, control
<1>54. QED BY <1>53, <1>1, <1>2, <1>3, <1>4, <1>5, <1>6, <1>7, <1>8, <1>9, <1>10, <1>11, <1>12, <1>13, <1>14, <1>15, <1>16, <1>17, <1>18, <1>19, <1>20, <1>21, <1>22, <1>23, <1>24, <1>25, <1>26, <1>27, <1>28, <1>29, <1>30, <1>31, <1>32, <1>33, <1>34, <1>35, <1>36, <1>37, <1>38, <1>39, <1>40, <1>41, <1>42, <1>43, <1>44, <1>45, <1>46, <1>47, <1>48, <1>49, <1>50, <1>51, <1>52 DEF Next, Step, Disturbance

\* Every behaviour of the supervisors, their lease calls and the handoffs
\* keeps TypeOK: among others, authority never falls below zero.
THEOREM TypeInvariant == Spec => []TypeOK
  BY InitTypeOK, TypeStep, PTL DEF Spec

-----------------------------------------------------------------------------
(* Where a supervisor awaits tells which lease call it made. *)

Placed ==
  \A w \in Workers :
    /\ call[w].op = "none" <=> call[w] = NoCall
    /\ call[w].op = "acquire" <=> At(w, "acquiring")
    /\ call[w].op = "release" <=> At(w, "releasing")
    /\ call[w].op = "renew" => pc[w] \in {"connecting", "renewing"}
    /\ At(w, "renewing") => call[w].op = "renew"

\* No lease call is outstanding at the start.
LEMMA InitPlaced == Init => Placed
<1> SUFFICES ASSUME Init, NEW w \in Workers
             PROVE  call[w] = NoCall /\ call[w].op = "none" /\ pc[w] = "idle"
  BY DEF Placed, At
<1> QED
  BY DEF Init, NoCall

\* No handler sends, drops or answers a lease call of another await.
LEMMA PlacedStep ==
  ASSUME TypeOK, Placed, [Next]_vars
  PROVE  Placed'
<1> pc \in [Workers -> Phases] /\ call \in [Workers -> CallType]
  BY DEF TypeOK
<1> USE DEF Placed, At
<1>1. ASSUME NEW w \in Workers, PollHandoff(w) PROVE Placed'
  BY <1>1 DEF PollHandoff, Goto, supervisor, NoCall
<1>2. ASSUME NEW w \in Workers, GiveUp(w) PROVE Placed'
  BY <1>2 DEF GiveUp, Goto, supervisor, NoCall
<1>3. ASSUME NEW w \in Workers, ElectOpenly(w) PROVE Placed'
  BY <1>3 DEF ElectOpenly, Send, Goto, supervisor, database, control, NewCall, NoCall
<1>4. ASSUME NEW w \in Workers, ElectTarget(w) PROVE Placed'
  BY <1>4 DEF ElectTarget, Goto, supervisor, database, control, NoCall
<1>5. ASSUME NEW w \in Workers, RejectTarget(w) PROVE Placed'
  BY <1>5 DEF RejectTarget, Goto, supervisor, NoCall
<1>6. ASSUME NEW w \in Workers, AcceptTarget(w) PROVE Placed'
  BY <1>6 DEF AcceptTarget, Send, Goto, supervisor, NewCall, NoCall
<1>7. ASSUME NEW w \in Workers, Acquired(w) PROVE Placed'
  BY <1>7 DEF Acquired, NoCall, Goto, database, control
<1>8. ASSUME NEW w \in Workers, NotAcquired(w) PROVE Placed'
  BY <1>8 DEF NotAcquired, NoCall, Goto, supervisor, database
<1>9. ASSUME NEW w \in Workers, ConnectTooLate(w) PROVE Placed'
  BY <1>9 DEF ConnectTooLate, Relinquish, supervisor, database, Goto, NoCall
<1>10. ASSUME NEW w \in Workers, StartSession(w) PROVE Placed'
  BY <1>10 DEF StartSession, Goto, Relinquish, database, NoCall
<1>11. ASSUME NEW w \in Workers, RenewWhileConnecting(w) PROVE Placed'
  BY <1>11 DEF RenewWhileConnecting, NoCall, Send, supervisor, database, control, NewCall
<1>12. ASSUME NEW w \in Workers, RenewedWhileConnecting(w) PROVE Placed'
  BY <1>12 DEF RenewedWhileConnecting, NoCall, database, control
<1>13. ASSUME NEW w \in Workers, ConnectLosesAuthority(w) PROVE Placed'
  BY <1>13 DEF ConnectLosesAuthority, NoCall, Relinquish, supervisor, database, Goto
<1>14. ASSUME NEW w \in Workers, Connected(w) PROVE Placed'
  BY <1>14 DEF Connected, NoCall, Goto, supervisor, database, control
<1>15. ASSUME NEW w \in Workers, ClientExited(w) PROVE Placed'
  BY <1>15 DEF ClientExited, NoCall, Relinquish, supervisor, database, Goto
<1>16. ASSUME NEW w \in Workers, CompleteHandoff(w) PROVE Placed'
  BY <1>16 DEF CompleteHandoff, Goto, supervisor, NoCall
<1>17. ASSUME NEW w \in Workers, Resume(w) PROVE Placed'
  BY <1>17 DEF Resume, Goto, supervisor, database, control, NoCall
<1>18. ASSUME NEW w \in Workers, AuthorityExpired(w) PROVE Placed'
  BY <1>18 DEF AuthorityExpired, Relinquish, supervisor, database, Goto, NoCall
<1>19. ASSUME NEW w \in Workers, BeginChecks(w) PROVE Placed'
  BY <1>19 DEF BeginChecks, Goto, supervisor, NoCall
<1>20. ASSUME NEW w \in Workers, KeepLeading(w) PROVE Placed'
  BY <1>20 DEF KeepLeading, Goto, supervisor, database, NoCall
<1>21. ASSUME NEW w \in Workers, RejectHandoff(w) PROVE Placed'
  BY <1>21 DEF RejectHandoff, Goto, supervisor, NoCall
<1>22. ASSUME NEW w \in Workers, HandOver(w) PROVE Placed'
  BY <1>22 DEF HandOver, Relinquish, supervisor, database, Goto, NoCall
<1>23. ASSUME NEW w \in Workers, AuditFails(w) PROVE Placed'
  BY <1>23 DEF AuditFails, Relinquish, supervisor, database, Goto, NoCall
<1>24. ASSUME NEW w \in Workers, AuditPasses(w) PROVE Placed'
  BY <1>24 DEF AuditPasses, Goto, supervisor, database, control, NoCall
<1>25. ASSUME NEW w \in Workers, Renew(w) PROVE Placed'
  BY <1>25 DEF Renew, Send, Goto, supervisor, database, control, NewCall, NoCall
<1>26. ASSUME NEW w \in Workers, Renewed(w) PROVE Placed'
  BY <1>26 DEF Renewed, NoCall, Goto, database, control
<1>27. ASSUME NEW w \in Workers, AuthorityLost(w) PROVE Placed'
  BY <1>27 DEF AuthorityLost, NoCall, Relinquish, supervisor, database, Goto
<1>28. ASSUME NEW w \in Workers, StopLeading(w) PROVE Placed'
  BY <1>28 DEF StopLeading, Goto, supervisor, database, control, NoCall
<1>29. ASSUME NEW w \in Workers, CloseSession(w) PROVE Placed'
  BY <1>29 DEF CloseSession, Send, Goto, database, control, NewCall, NoCall
<1>30. ASSUME NEW w \in Workers, Released(w) PROVE Placed'
  BY <1>30 DEF Released, ClearAuthority, database, NoCall, Goto
<1>31. ASSUME NEW w \in Workers, FailConnectHandoff(w) PROVE Placed'
  BY <1>31 DEF FailConnectHandoff, Goto, supervisor, NoCall
<1>32. ASSUME NEW w \in Workers, Shutdown(w) PROVE Placed'
  BY <1>32 DEF Shutdown, Relinquish, Goto, database, NoCall
<1>33. ASSUME NEW w \in Workers, Begin(w) PROVE Placed'
  BY <1>33 DEF Begin, Refusal, supervisor, database, control, CallType, NoCall
<1>34. ASSUME NEW w \in Workers, Commit(w) PROVE Placed'
  BY <1>34 DEF Commit, Grant, Refusal, supervisor, control, NoCall
<1>35. ASSUME NEW w \in Workers, AnnounceFails(w) PROVE Placed'
  BY <1>35 DEF AnnounceFails, Goto, supervisor, database, NoCall
<1>36. ASSUME NEW w \in Workers, ReadyFails(w) PROVE Placed'
  BY <1>36 DEF ReadyFails, NoCall, Relinquish, supervisor, database, Goto
<1>37. ASSUME NEW w \in Workers, ChecksFail(w) PROVE Placed'
  BY <1>37 DEF ChecksFail, Goto, supervisor, database, NoCall
<1>38. ASSUME NEW w \in Workers, CloseRaises(w) PROVE Placed'
  BY <1>38 DEF CloseRaises, Send, Goto, database, control, NewCall, NoCall
<1>39. ASSUME NEW w \in Workers, CloseCancelled(w) PROVE Placed'
  BY <1>39 DEF CloseCancelled, Goto, database, NoCall
<1>40. ASSUME NEW w \in Workers, CallFails(w) PROVE Placed'
  BY <1>40 DEF CallFails, NoCall, Goto, supervisor, control, Relinquish, ClearAuthority, database
<1>41. ASSUME NEW w \in Workers, ReleaseCancelled(w) PROVE Placed'
  BY <1>41 DEF ReleaseCancelled, NoCall, Goto, supervisor, database
<1>42. ASSUME NEW w \in Workers, Stop(w) PROVE Placed'
  BY <1>42 DEF Stop, database, control, NoCall
<1>43. ASSUME NEW w \in Workers, Crash(w) PROVE Placed'
  BY <1>43 DEF Crash, Goto, NoCall, database
<1>44. ASSUME NEW w \in Workers, NEW h \in {"ok", "stale", "draining"}, SetHealth(w, h) PROVE Placed'
  BY <1>44 DEF SetHealth, supervisor, database, control, NoCall
<1>45. ASSUME NEW w \in Workers, NEW s \in {"closed", "open", "broken"}, DropSession(w, s) PROVE Placed'
  BY <1>45 DEF DropSession, database, control, NoCall
<1>46. ASSUME NEW w \in Workers, Start(w) PROVE Placed'
  BY <1>46 DEF Start, Goto, supervisor, database, control, NoCall
<1>47. ASSUME NEW o \in late, LateBegin(o) PROVE Placed'
  BY <1>47 DEF LateBegin, supervisor, database, control, NoCall
<1>48. ASSUME NEW r \in Requests, LapseRequest(r) PROVE Placed'
  BY <1>48 DEF LapseRequest, supervisor, control, NoCall
<1>49. ASSUME NEW r \in Requests, NEW t \in Workers, CreateRequest(r, t) PROVE Placed'
  BY <1>49 DEF CreateRequest, supervisor, control, NoCall
<1>50. ASSUME Tick PROVE Placed'
  <2>1. ASSUME NEW v \in Workers
        PROVE  AgedCall(call[v]).op = call[v].op
               /\ (AgedCall(call[v]) = NoCall => call[v] = NoCall)
               /\ AgedCall(NoCall) = NoCall
    BY DEF AgedCall, CallType, NoCall
  <2>2. \A v \in Workers : call'[v] = AgedCall(call[v])
    BY <1>50 DEF Tick
  <2>3. QED
    BY <1>50, <2>1, <2>2 DEF Tick
<1>51. ASSUME NEW o \in late, LateCommit(o) PROVE Placed'
  BY <1>51 DEF LateCommit, supervisor, control, NoCall
<1>52. ASSUME UNCHANGED vars PROVE Placed'
  BY <1>52 DEF vars, control, NoCall
<1>53. ASSUME NEW r \in Requests, NEW u \in request[r].late, LateUpdate(r, u) PROVE Placed'
  BY <1>53 DEF LateUpdate, supervisor, control, NoCall
<1>54. QED
  BY <1>53, <1>1, <1>2, <1>3, <1>4, <1>5, <1>6, <1>7, <1>8, <1>9, <1>10, <1>11, <1>12, <1>13, <1>14, <1>15, <1>16, <1>17, <1>18, <1>19, <1>20, <1>21, <1>22, <1>23, <1>24, <1>25, <1>26, <1>27, <1>28, <1>29, <1>30, <1>31, <1>32, <1>33, <1>34, <1>35, <1>36, <1>37, <1>38, <1>39, <1>40, <1>41, <1>42, <1>43, <1>44, <1>45, <1>46, <1>47, <1>48, <1>49, <1>50, <1>51, <1>52 DEF Next, Step, Disturbance

-----------------------------------------------------------------------------
(* The generation is a fencing token. *)

\* Worker w believes in generation g, or is about to read it from a reply.
Knows(w, g) ==
  /\ g # 0
  /\ \/ generation[w] = g
     \/ call[w].op = "acquire" /\ call[w].st = "granted" /\ call[w].gen = g

\* Nobody knows a generation the row has not reached, no two workers know the
\* same, and who knows that of the row is its owner, or the row has none.
Generations ==
  /\ lease.owner # NoWorker => lease.generation # 0
  /\ \A w \in Workers, g \in Nat : Knows(w, g) =>
       /\ g <= lease.generation
       /\ g = lease.generation => lease.owner \in {w, NoWorker}
       /\ \A v \in Workers : Knows(v, g) => v = w

\* What every step but the commit of a lease call does: it leaves the owner
\* and the generation of the row alone, and nobody learns a generation.
Unlearned ==
  /\ lease'.owner = lease.owner
  /\ lease'.generation = lease.generation
  /\ \A w \in Workers, g \in Nat : Knows(w, g)' => Knows(w, g)

\* Only commits grant: no other step of any actor teaches a generation.
LEMMA OnlyCommitsTeach ==
  ASSUME TypeOK, Placed, [Next]_vars,
         ~ \E w \in Workers : Commit(w),
         ~ \E o \in late : LateCommit(o)
  PROVE  Unlearned
<1> generation \in [Workers -> Nat] /\ call \in [Workers -> CallType]
  BY DEF TypeOK
<1> USE DEF Unlearned, Knows
<1>1. ASSUME NEW w \in Workers, PollHandoff(w) PROVE Unlearned
  BY <1>1 DEF PollHandoff, supervisor
<1>2. ASSUME NEW w \in Workers, GiveUp(w) PROVE Unlearned
  BY <1>2 DEF GiveUp, supervisor
<1>3. ASSUME NEW w \in Workers, ElectOpenly(w) PROVE Unlearned
  BY <1>3 DEF ElectOpenly, Send, supervisor, database, control, NewCall
<1>4. ASSUME NEW w \in Workers, ElectTarget(w) PROVE Unlearned
  BY <1>4 DEF ElectTarget, supervisor, database, control
<1>5. ASSUME NEW w \in Workers, RejectTarget(w) PROVE Unlearned
  BY <1>5 DEF RejectTarget, supervisor
<1>6. ASSUME NEW w \in Workers, AcceptTarget(w) PROVE Unlearned
  BY <1>6 DEF AcceptTarget, Send, supervisor, NewCall
<1>7. ASSUME NEW w \in Workers, Acquired(w) PROVE Unlearned
  BY <1>7 DEF Acquired, NoCall, database, control, Placed, At
<1>8. ASSUME NEW w \in Workers, NotAcquired(w) PROVE Unlearned
  BY <1>8 DEF NotAcquired, NoCall, supervisor, database
<1>9. ASSUME NEW w \in Workers, ConnectTooLate(w) PROVE Unlearned
  BY <1>9 DEF ConnectTooLate, Relinquish, supervisor, database
<1>10. ASSUME NEW w \in Workers, StartSession(w) PROVE Unlearned
  BY <1>10 DEF StartSession, Relinquish, database
<1>11. ASSUME NEW w \in Workers, RenewWhileConnecting(w) PROVE Unlearned
  BY <1>11 DEF RenewWhileConnecting, NoCall, Send, supervisor, database, control, NewCall
<1>12. ASSUME NEW w \in Workers, RenewedWhileConnecting(w) PROVE Unlearned
  BY <1>12 DEF RenewedWhileConnecting, NoCall, database, control
<1>13. ASSUME NEW w \in Workers, ConnectLosesAuthority(w) PROVE Unlearned
  BY <1>13 DEF ConnectLosesAuthority, NoCall, Relinquish, supervisor, database
<1>14. ASSUME NEW w \in Workers, Connected(w) PROVE Unlearned
  BY <1>14 DEF Connected, NoCall, supervisor, database, control
<1>15. ASSUME NEW w \in Workers, ClientExited(w) PROVE Unlearned
  BY <1>15 DEF ClientExited, NoCall, Relinquish, supervisor, database
<1>16. ASSUME NEW w \in Workers, CompleteHandoff(w) PROVE Unlearned
  BY <1>16 DEF CompleteHandoff, supervisor
<1>17. ASSUME NEW w \in Workers, Resume(w) PROVE Unlearned
  BY <1>17 DEF Resume, supervisor, database, control
<1>18. ASSUME NEW w \in Workers, AuthorityExpired(w) PROVE Unlearned
  BY <1>18 DEF AuthorityExpired, Relinquish, supervisor, database
<1>19. ASSUME NEW w \in Workers, BeginChecks(w) PROVE Unlearned
  BY <1>19 DEF BeginChecks, supervisor
<1>20. ASSUME NEW w \in Workers, KeepLeading(w) PROVE Unlearned
  BY <1>20 DEF KeepLeading, supervisor, database
<1>21. ASSUME NEW w \in Workers, RejectHandoff(w) PROVE Unlearned
  BY <1>21 DEF RejectHandoff, supervisor
<1>22. ASSUME NEW w \in Workers, HandOver(w) PROVE Unlearned
  BY <1>22 DEF HandOver, Relinquish, supervisor, database
<1>23. ASSUME NEW w \in Workers, AuditFails(w) PROVE Unlearned
  BY <1>23 DEF AuditFails, Relinquish, supervisor, database
<1>24. ASSUME NEW w \in Workers, AuditPasses(w) PROVE Unlearned
  BY <1>24 DEF AuditPasses, supervisor, database, control
<1>25. ASSUME NEW w \in Workers, Renew(w) PROVE Unlearned
  BY <1>25 DEF Renew, Send, supervisor, database, control, NewCall
<1>26. ASSUME NEW w \in Workers, Renewed(w) PROVE Unlearned
  BY <1>26 DEF Renewed, NoCall, database, control
<1>27. ASSUME NEW w \in Workers, AuthorityLost(w) PROVE Unlearned
  BY <1>27 DEF AuthorityLost, NoCall, Relinquish, supervisor, database
<1>28. ASSUME NEW w \in Workers, StopLeading(w) PROVE Unlearned
  BY <1>28 DEF StopLeading, supervisor, database, control
<1>29. ASSUME NEW w \in Workers, CloseSession(w) PROVE Unlearned
  BY <1>29 DEF CloseSession, Send, database, control, NewCall
<1>30. ASSUME NEW w \in Workers, Released(w) PROVE Unlearned
  BY <1>30 DEF Released, ClearAuthority, database, NoCall
<1>31. ASSUME NEW w \in Workers, FailConnectHandoff(w) PROVE Unlearned
  BY <1>31 DEF FailConnectHandoff, supervisor
<1>32. ASSUME NEW w \in Workers, Shutdown(w) PROVE Unlearned
  BY <1>32 DEF Shutdown, Relinquish, database
<1>33. ASSUME NEW w \in Workers, Begin(w) PROVE Unlearned
  BY <1>33 DEF Begin, Refusal, supervisor, database, control, CallType
<1>34. ASSUME NEW w \in Workers, AnnounceFails(w) PROVE Unlearned
  BY <1>34 DEF AnnounceFails, supervisor, database
<1>35. ASSUME NEW w \in Workers, ReadyFails(w) PROVE Unlearned
  BY <1>35 DEF ReadyFails, NoCall, Relinquish, supervisor, database
<1>36. ASSUME NEW w \in Workers, ChecksFail(w) PROVE Unlearned
  BY <1>36 DEF ChecksFail, supervisor, database
<1>37. ASSUME NEW w \in Workers, CloseRaises(w) PROVE Unlearned
  BY <1>37 DEF CloseRaises, Send, database, control, NewCall
<1>38. ASSUME NEW w \in Workers, CloseCancelled(w) PROVE Unlearned
  BY <1>38 DEF CloseCancelled, database
<1>39. ASSUME NEW w \in Workers, CallFails(w) PROVE Unlearned
  BY <1>39 DEF CallFails, NoCall, supervisor, control, Relinquish, ClearAuthority, database
<1>40. ASSUME NEW w \in Workers, ReleaseCancelled(w) PROVE Unlearned
  BY <1>40 DEF ReleaseCancelled, NoCall, supervisor, database
<1>41. ASSUME NEW w \in Workers, Stop(w) PROVE Unlearned
  BY <1>41 DEF Stop, database, control
<1>42. ASSUME NEW w \in Workers, Crash(w) PROVE Unlearned
  BY <1>42 DEF Crash, NoCall, database
<1>43. ASSUME NEW w \in Workers, NEW h \in {"ok", "stale", "draining"}, SetHealth(w, h) PROVE Unlearned
  BY <1>43 DEF SetHealth, supervisor, database, control
<1>44. ASSUME NEW w \in Workers, NEW s \in {"closed", "open", "broken"}, DropSession(w, s) PROVE Unlearned
  BY <1>44 DEF DropSession, database, control
<1>45. ASSUME NEW w \in Workers, Start(w) PROVE Unlearned
  BY <1>45 DEF Start, supervisor, database, control
<1>46. ASSUME NEW o \in late, LateBegin(o) PROVE Unlearned
  BY <1>46 DEF LateBegin, supervisor, database, control
<1>47. ASSUME NEW r \in Requests, LapseRequest(r) PROVE Unlearned
  BY <1>47 DEF LapseRequest, supervisor, control
<1>48. ASSUME NEW r \in Requests, NEW t \in Workers, CreateRequest(r, t) PROVE Unlearned
  BY <1>48 DEF CreateRequest, supervisor, control
<1>49. ASSUME Tick PROVE Unlearned
  <2>1. ASSUME NEW v \in Workers
        PROVE  /\ AgedCall(call[v]).op = call[v].op
               /\ AgedCall(call[v]).st = call[v].st
               /\ AgedCall(call[v]).gen = call[v].gen
    BY DEF AgedCall, CallType
  <2>2. \A v \in Workers : call'[v] = AgedCall(call[v])
    BY <1>49 DEF Tick
  <2>3. generation' = generation /\ lease' = AgedRow(lease)
    BY <1>49 DEF Tick
  <2>4. lease'.owner = lease.owner /\ lease'.generation = lease.generation
    BY <2>3 DEF AgedRow, TypeOK, LeaseRow
  <2>5. QED
    BY <2>1, <2>2, <2>3, <2>4
<1>50. ASSUME UNCHANGED vars PROVE Unlearned
  BY <1>50 DEF vars
<1>51. ASSUME NEW r \in Requests, NEW u \in request[r].late, LateUpdate(r, u) PROVE Unlearned
  BY <1>51 DEF LateUpdate, supervisor, control
<1>52. QED
  BY <1>51, <1>1, <1>2, <1>3, <1>4, <1>5, <1>6, <1>7, <1>8, <1>9, <1>10, <1>11, <1>12, <1>13, <1>14, <1>15, <1>16, <1>17, <1>18, <1>19, <1>20, <1>21, <1>22, <1>23, <1>24, <1>25, <1>26, <1>27, <1>28, <1>29, <1>30, <1>31, <1>32, <1>33, <1>34, <1>35, <1>36, <1>37, <1>38, <1>39, <1>40, <1>41, <1>42, <1>43, <1>44, <1>45, <1>46, <1>47, <1>48, <1>49, <1>50 DEF Next, Step, Disturbance

\* At the start nobody knows any generation.
LEMMA InitGenerations == Init => Generations
  BY DEF Init, Generations, Knows, NoCall, NoLeaseRow

\* A grant opens a generation nobody knows, or renews that of the owner.
LEMMA GrantTeaches ==
  ASSUME NEW w \in Workers, NEW c \in CallType, lease \in LeaseRow,
         lease.owner # NoWorker => lease.generation # 0, Granted(w, c),
         lease' = Written(w, c)
  PROVE  /\ lease'.generation \in Nat /\ lease'.generation >= lease.generation
         /\ lease'.owner \in {w, NoWorker}
         /\ \/ lease'.generation > lease.generation
            \/ /\ lease'.generation = lease.generation
               /\ lease.owner = w
         /\ lease'.owner # NoWorker => lease'.generation # 0
         /\ c.op = "acquire" => lease'.owner = w
<1>1. c.gen \in Nat /\ c.lag \in 0..TTL /\ lease.generation \in Nat
  BY CallFacts DEF LeaseRow
<1>2. CASE c.op = "acquire"
  BY <1>1, <1>2, WorkersAssumption DEF Granted, Written, AcquireGranted, AcquiredRow, Lease
<1>3. CASE c.op = "renew"
  BY <1>1, <1>3 DEF Granted, Written, RenewGranted, RenewedRow, Lease
<1>4. CASE c.op = "release"
  BY <1>1, <1>4 DEF Granted, Written, ReleaseGranted, ReleasedRow
<1>5. QED
  BY <1>2, <1>3, <1>4 DEF Granted

\* Knowledge of generations stays exclusive.
LEMMA GenerationsStep ==
  ASSUME TypeOK, Placed, Generations, [Next]_vars
  PROVE  Generations'
<1>1. CASE Unlearned
  BY <1>1 DEF Unlearned, Generations
<1>2. ASSUME NEW w \in Workers, Commit(w), Granted(w, call[w])
      PROVE  Generations'
  <2>1. /\ lease' = Written(w, call[w]) /\ generation' = generation
        /\ call' = [call EXCEPT ![w] = Grant(call[w], lease'.generation)]
        /\ call[w] \in CallType /\ lease \in LeaseRow
    BY <1>2 DEF Commit, supervisor, TypeOK
  <2>2. lease.generation \in Nat
    BY <2>1 DEF LeaseRow
  <2>3. ASSUME NEW v \in Workers, NEW g \in Nat, Knows(v, g)'
        PROVE  Knows(v, g) \/ (v = w /\ g = lease'.generation /\ call[w].op = "acquire")
    BY <2>1, <2>3 DEF Knows, Grant, TypeOK
  <2>4. /\ lease'.generation \in Nat /\ lease'.generation >= lease.generation
        /\ lease'.owner \in {w, NoWorker}
        /\ \/ lease'.generation > lease.generation
           \/ lease'.generation = lease.generation /\ lease.owner = w
        /\ lease'.owner # NoWorker => lease'.generation # 0
        /\ call[w].op = "acquire" => lease'.owner = w
    BY <1>2, <2>1, GrantTeaches DEF Generations
  <2>5. QED
    BY <2>2, <2>3, <2>4, WorkersAssumption DEF Generations
<1>3. ASSUME NEW o \in late, LateCommit(o), Granted(o.worker, o.call)
      PROVE  Generations'
  <2>1. /\ lease' = Written(o.worker, o.call) /\ generation' = generation /\ call' = call
        /\ o.worker \in Workers /\ o.call \in CallType /\ lease \in LeaseRow
    BY <1>3 DEF LateCommit, supervisor, TypeOK, OrphanType
  <2>2. lease.generation \in Nat
    BY <2>1 DEF LeaseRow
  <2>3. \A v \in Workers, g \in Nat : Knows(v, g)' => Knows(v, g)
    BY <2>1 DEF Knows
  <2>4. /\ lease'.generation \in Nat /\ lease'.generation >= lease.generation
        /\ lease'.owner \in {o.worker, NoWorker}
        /\ \/ lease'.generation > lease.generation
           \/ lease'.generation = lease.generation /\ lease.owner = o.worker
        /\ lease'.owner # NoWorker => lease'.generation # 0
    BY <2>1, <1>3, GrantTeaches DEF Generations
  <2>5. QED
    BY <2>1, <2>2, <2>3, <2>4, WorkersAssumption DEF Generations
<1>4. ASSUME NEW w \in Workers, Commit(w), ~Granted(w, call[w])
      PROVE  Unlearned
  BY <1>4 DEF Commit, Unlearned, Knows, Refusal, supervisor, TypeOK
<1>5. ASSUME NEW o \in late, LateCommit(o), ~Granted(o.worker, o.call)
      PROVE  Unlearned
  BY <1>5 DEF LateCommit, Unlearned, Knows, supervisor
<1>6. QED
  BY <1>1, <1>2, <1>3, <1>4, <1>5, OnlyCommitsTeach

\* Two workers never believe in the same generation, for any number of
\* workers, faults, late calls and failed disconnects.
THEOREM GenerationsAreUnique == Spec => []UniqueGeneration
<1> DEFINE Inv == TypeOK /\ Placed /\ Generations
<1>1. Init => Inv
  BY InitTypeOK, InitPlaced, InitGenerations
<1>2. Inv /\ [Next]_vars => Inv'
  BY TypeStep, PlacedStep, GenerationsStep
<1>3. Inv => UniqueGeneration
  BY DEF TypeOK, Generations, Knows, UniqueGeneration
<1>4. QED
  BY <1>1, <1>2, <1>3, PTL DEF Spec

-----------------------------------------------------------------------------
(* A worker acts as leader only while it holds the lease.                    *)

\* What the program has no means to enforce and the proofs assume: a lease call does
\* not commit after its caller gave it up (the run late_release shows what happens
\* otherwise). Updates of handoff requests may, and disconnects may fail.
Bounded == LateOps \cap {"acquire", "renew", "release"} = {}

LeaderPhases == {"idle", "connecting", "completing", "leader", "checking",
                 "auditing", "waiting", "renewing", "closing"}

\* A client is known to the supervisor, which is past its announcement and
\* before its release, and has a generation.
Attended(w) ==
  /\ Controlled(w) => started[w]
  /\ started[w] => pc[w] \in LeaderPhases /\ generation[w] # 0
  /\ At(w, "announcing") => generation[w] # 0

\* A call's db_now is no older than the call; a renewal is one of the current
\* generation, and does not start later than the deadline was counted from.
Timed(w) ==
  LET c == call[w]
  IN /\ c.lag <= c.age
     /\ c.op = "acquire" /\ c.st = "granted" => c.gen # 0
     /\ c.op = "renew" /\ c.st # "refused" =>
          /\ c.gen = generation[w]
          /\ authority[w] > 0 => authority[w] + c.age <= TTL

\* The row belongs to w at generation g for at least n more ticks.
HeldFor(w, g, n) ==
  /\ lease.owner = w
  /\ lease.generation = g
  /\ n <= lease.left

\* The lease outlives the authority of a worker with a client, or about to
\* have one, and the authority that a reply on its way confers.
Backed(w) ==
  /\ authority[w] > 0 /\ (started[w] \/ At(w, "announcing")) =>
       HeldFor(w, generation[w], authority[w])
  /\ LET c == call[w]
     IN c.op \in {"acquire", "renew"} /\ c.st = "granted" /\ c.age < TTL =>
          HeldFor(w, c.gen, Remaining(c))

Fencing ==
  /\ late = {}
  /\ \A w \in Workers : Attended(w) /\ Timed(w) /\ Backed(w)

\* No step lets the authority of a worker with a client outlive its lease.
LEMMA FencingStep ==
  ASSUME Bounded, TypeOK, Placed, Generations, Fencing, [Next]_vars
  PROVE  Fencing'
<1> DEFINE Guarded(w) == Attended(w) /\ Timed(w) /\ Backed(w)
<1> pc \in [Workers -> Phases] /\ call \in [Workers -> CallType]
    /\ generation \in [Workers -> Nat] /\ authority \in [Workers -> 0..TTL]
    /\ session \in [Workers -> {"closed", "open", "broken", "left"}]
    /\ started \in [Workers -> BOOLEAN] /\ lease \in LeaseRow
  BY DEF TypeOK
<1> late = {} /\ \A w \in Workers : Guarded(w)
  BY DEF Fencing
<1> ASSUME NEW w \in Workers, Orphaned(w)
    PROVE  late' = late
  BY BoundsAssumption, CallFacts DEF Orphaned, Bounded, TypeOK
<1> \A w \in Workers : call[w].age \in 0..TTL /\ call[w].lag \in 0..TTL /\ call[w].gen \in Nat
                       /\ call[w].op \in {"none", "acquire", "renew", "release"}
  BY CallFacts
<1> lease.left \in -TTL..TTL
  BY DEF LeaseRow
<1> USE TTLAssumption DEF Placed, At, Attended, Timed, Backed, Controlled, LeaderPhases
<1>1. ASSUME NEW w \in Workers, PollHandoff(w) PROVE Fencing'
  BY <1>1 DEF PollHandoff, Goto, supervisor, NoCall, HeldFor, Fencing
<1>2. ASSUME NEW w \in Workers, GiveUp(w) PROVE Fencing'
  BY <1>2 DEF GiveUp, Goto, supervisor, NoCall, HeldFor, Fencing
<1>3. ASSUME NEW w \in Workers, ElectOpenly(w) PROVE Fencing'
  BY <1>3 DEF ElectOpenly, Send, Goto, supervisor, database, control, NewCall, NoCall, HeldFor, Fencing
<1>4. ASSUME NEW w \in Workers, ElectTarget(w) PROVE Fencing'
  BY <1>4 DEF ElectTarget, Goto, supervisor, database, control, NoCall, HeldFor, Fencing
<1>5. ASSUME NEW w \in Workers, RejectTarget(w) PROVE Fencing'
  BY <1>5 DEF RejectTarget, Goto, supervisor, NoCall, HeldFor, Fencing
<1>6. ASSUME NEW w \in Workers, AcceptTarget(w) PROVE Fencing'
  BY <1>6 DEF AcceptTarget, Send, Goto, supervisor, NewCall, NoCall, HeldFor, Fencing
<1>7. ASSUME NEW w \in Workers, Acquired(w) PROVE Fencing'
  BY <1>7 DEF Acquired, Remaining, NoCall, Goto, database, control, HeldFor, Fencing
<1>8. ASSUME NEW w \in Workers, NotAcquired(w) PROVE Fencing'
  BY <1>8 DEF NotAcquired, NoCall, Goto, supervisor, database, HeldFor, Fencing
<1>9. ASSUME NEW w \in Workers, ConnectTooLate(w) PROVE Fencing'
  BY <1>9 DEF ConnectTooLate, Relinquish, supervisor, database, Goto, NoCall, HeldFor, Fencing
<1>10. ASSUME NEW w \in Workers, StartSession(w) PROVE Fencing'
  BY <1>10 DEF StartSession, Goto, Relinquish, database, NoCall, HeldFor, Fencing
<1>11. ASSUME NEW w \in Workers, RenewWhileConnecting(w) PROVE Fencing'
  BY <1>11 DEF RenewWhileConnecting, NoCall, Send, supervisor, database, control, NewCall, HeldFor, Fencing
<1>12. ASSUME NEW w \in Workers, RenewedWhileConnecting(w) PROVE Fencing'
  <2>1. call[w].op = "renew" /\ call[w].st = "granted"
    BY <1>12 DEF RenewedWhileConnecting, NoCall
  <2>2. Remaining(call[w]) > 0 => HeldFor(w, generation[w], Remaining(call[w]))
    BY <2>1 DEF Remaining
  <2>3. QED
    BY <1>12, <2>1, <2>2 DEF RenewedWhileConnecting, Remaining, NoCall, database, control,
                           HeldFor, Fencing
<1>13. ASSUME NEW w \in Workers, ConnectLosesAuthority(w) PROVE Fencing'
  BY <1>13 DEF ConnectLosesAuthority, NoCall, Relinquish, supervisor, database, Goto, HeldFor, Fencing
<1>14. ASSUME NEW w \in Workers, Connected(w) PROVE Fencing'
  BY <1>14 DEF Connected, NoCall, Goto, supervisor, control, HeldFor, Fencing
<1>15. ASSUME NEW w \in Workers, ClientExited(w) PROVE Fencing'
  BY <1>15 DEF ClientExited, NoCall, Relinquish, supervisor, database, Goto, HeldFor, Fencing
<1>16. ASSUME NEW w \in Workers, CompleteHandoff(w) PROVE Fencing'
  BY <1>16 DEF CompleteHandoff, Goto, supervisor, NoCall, HeldFor, Fencing
<1>17. ASSUME NEW w \in Workers, Resume(w) PROVE Fencing'
  BY <1>17 DEF Resume, Goto, supervisor, database, control, NoCall, HeldFor, Fencing
<1>18. ASSUME NEW w \in Workers, AuthorityExpired(w) PROVE Fencing'
  BY <1>18 DEF AuthorityExpired, Relinquish, supervisor, database, Goto, NoCall, HeldFor, Fencing
<1>19. ASSUME NEW w \in Workers, BeginChecks(w) PROVE Fencing'
  BY <1>19 DEF BeginChecks, Goto, supervisor, NoCall, HeldFor, Fencing
<1>20. ASSUME NEW w \in Workers, KeepLeading(w) PROVE Fencing'
  BY <1>20 DEF KeepLeading, Goto, supervisor, database, NoCall, HeldFor, Fencing
<1>21. ASSUME NEW w \in Workers, RejectHandoff(w) PROVE Fencing'
  BY <1>21 DEF RejectHandoff, Goto, supervisor, NoCall, HeldFor, Fencing
<1>22. ASSUME NEW w \in Workers, HandOver(w) PROVE Fencing'
  BY <1>22 DEF HandOver, Relinquish, supervisor, database, Goto, NoCall, HeldFor, Fencing
<1>23. ASSUME NEW w \in Workers, AuditFails(w) PROVE Fencing'
  BY <1>23 DEF AuditFails, Relinquish, supervisor, database, Goto, NoCall, HeldFor, Fencing
<1>24. ASSUME NEW w \in Workers, AuditPasses(w) PROVE Fencing'
  BY <1>24 DEF AuditPasses, Goto, supervisor, database, control, NoCall, HeldFor, Fencing
<1>25. ASSUME NEW w \in Workers, Renew(w) PROVE Fencing'
  BY <1>25 DEF Renew, Send, Goto, supervisor, database, control, NewCall, NoCall, HeldFor, Fencing
<1>26. ASSUME NEW w \in Workers, Renewed(w) PROVE Fencing'
  BY <1>26 DEF Renewed, Remaining, NoCall, Goto, database, control, HeldFor, Fencing
<1>27. ASSUME NEW w \in Workers, AuthorityLost(w) PROVE Fencing'
  BY <1>27 DEF AuthorityLost, NoCall, Relinquish, supervisor, database, Goto, HeldFor, Fencing
<1>28. ASSUME NEW w \in Workers, StopLeading(w) PROVE Fencing'
  BY <1>28 DEF StopLeading, Goto, supervisor, database, control, NoCall, HeldFor, Fencing
<1>29. ASSUME NEW w \in Workers, CloseSession(w) PROVE Fencing'
  BY <1>29 DEF CloseSession, Send, Goto, database, control, NewCall, NoCall, Disconnected, HeldFor, Fencing
<1>30. ASSUME NEW w \in Workers, Released(w) PROVE Fencing'
  BY <1>30 DEF Released, ClearAuthority, database, NoCall, Goto, HeldFor, Fencing
<1>31. ASSUME NEW w \in Workers, FailConnectHandoff(w) PROVE Fencing'
  BY <1>31 DEF FailConnectHandoff, Goto, supervisor, NoCall, HeldFor, Fencing
<1>32. ASSUME NEW w \in Workers, Shutdown(w) PROVE Fencing'
  BY <1>32 DEF Shutdown, Relinquish, Goto, database, NoCall, HeldFor, Fencing
<1>33. ASSUME NEW w \in Workers, Begin(w) PROVE Fencing'
  <2>1. CASE call' = [call EXCEPT ![w] = Refusal("acquire")]
    BY <1>33, <2>1 DEF Begin, Refusal, supervisor, database, control, HeldFor, Fencing
  <2>2. CASE call' = [call EXCEPT ![w].st = "begun"]
    <3>1. /\ call'[w].op = call[w].op /\ call'[w].st = "begun"
          /\ call'[w].gen = call[w].gen /\ call'[w].age = call[w].age
          /\ call'[w].lag = call[w].lag
      BY <2>2 DEF CallType
    <3>2. call[w].st = "sent"
      BY <1>33 DEF Begin
    <3>3. QED
      BY <1>33, <2>2, <3>1, <3>2 DEF Begin, supervisor, database, control, HeldFor, Fencing
  <2>3. QED
    BY <1>33, <2>1, <2>2 DEF Begin
<1>34. ASSUME NEW w \in Workers, Commit(w) PROVE Fencing'
  <2>1. CASE ~Granted(w, call[w])
    BY <1>34, <2>1 DEF Commit, Refusal, supervisor, control, HeldFor, Fencing
  <2>2. CASE Granted(w, call[w])
    <3> DEFINE c == call[w]
    <3>1. /\ lease' = Written(w, c) /\ call' = [call EXCEPT ![w] = Grant(c, lease'.generation)]
          /\ c.st = "begun"
          /\ UNCHANGED <<pc, generation, authority, started, session, late>>
      BY <1>34, <2>2 DEF Commit, supervisor, control
    <3>2. ASSUME NEW v \in Workers \ {w}, NEW g \in Nat, NEW n \in 1..TTL, HeldFor(v, g, n)
          PROVE  HeldFor(v, g, n)'
      BY <2>2, <3>2, WorkersAssumption
      DEF HeldFor, Granted, AcquireGranted, RenewGranted, ReleaseGranted, Lapsed
    <3>3. ASSUME NEW v \in Workers \ {w}
          PROVE  Guarded(v)'
      <4>1. call'[v] = call[v]
        BY <3>1
      <4>2. Attended(v)' /\ Timed(v)'
        BY <3>1, <4>1
      <4>3. Backed(v)'
        BY <3>1, <3>2, <4>1 DEF Remaining
      <4>4. QED
        BY <4>2, <4>3
    <3>4. CASE c.op = "acquire"
      <4>1. lease'.owner = w /\ lease'.left = TTL - c.lag
        BY <2>2, <3>1, <3>4 DEF Written, AcquiredRow, Lease
      <4>2. lease'.generation # 0
        BY <2>2, <3>1, <4>1, GrantTeaches, WorkersAssumption DEF Generations
      <4>3. Guarded(w)'
        BY <3>1, <3>4, <4>1, <4>2 DEF Grant, HeldFor, Remaining
      <4>4. QED
        BY <3>1, <3>3, <4>3 DEF Fencing
    <3>5. CASE c.op = "renew"
      <4>1. lease' = Lease(w, c.gen, c.lag)
        BY <2>2, <3>1, <3>5 DEF Written, RenewedRow
      <4>2. Guarded(w)'
        BY <3>1, <3>5, <4>1 DEF Grant, HeldFor, Remaining, Lease
      <4>3. QED
        BY <3>1, <3>3, <4>2 DEF Fencing
    <3>6. CASE c.op = "release"
      <4>1. Guarded(w)'
        BY <3>1, <3>6 DEF Grant
      <4>2. QED
        BY <3>1, <3>3, <4>1 DEF Fencing
    <3>7. QED
      BY <2>2, <3>4, <3>5, <3>6 DEF Granted
  <2>3. QED
    BY <2>1, <2>2
<1>35. ASSUME NEW w \in Workers, AnnounceFails(w) PROVE Fencing'
  BY <1>35 DEF AnnounceFails, Goto, supervisor, database, NoCall, HeldFor, Fencing
<1>36. ASSUME NEW w \in Workers, ReadyFails(w) PROVE Fencing'
  BY <1>36 DEF ReadyFails, NoCall, Relinquish, supervisor, database, Goto, HeldFor, Fencing
<1>37. ASSUME NEW w \in Workers, ChecksFail(w) PROVE Fencing'
  BY <1>37 DEF ChecksFail, Goto, supervisor, NoCall, HeldFor, Fencing
<1>38. ASSUME NEW w \in Workers, CloseRaises(w) PROVE Fencing'
  BY <1>38 DEF CloseRaises, Left, Send, Goto, database, control, NewCall, NoCall, HeldFor, Fencing
<1>39. ASSUME NEW w \in Workers, CloseCancelled(w) PROVE Fencing'
  BY <1>39 DEF CloseCancelled, Left, Goto, database, NoCall, HeldFor, Fencing
<1>40. ASSUME NEW w \in Workers, CallFails(w) PROVE Fencing'
  <2>1. late' = late
    BY <1>40 DEF CallFails
  <2>2. QED
    BY <1>40, <2>1 DEF CallFails, Goto, Relinquish, ClearAuthority, supervisor, control, database, NoCall, HeldFor, Fencing
<1>41. ASSUME NEW w \in Workers, ReleaseCancelled(w) PROVE Fencing'
  <2>1. late' = late
    BY <1>41 DEF ReleaseCancelled
  <2>2. QED
    BY <1>41, <2>1 DEF ReleaseCancelled, Goto, supervisor, database, NoCall, HeldFor, Fencing
<1>42. ASSUME NEW w \in Workers, Stop(w) PROVE Fencing'
  BY <1>42 DEF Stop, database, control, NoCall, HeldFor, Fencing
<1>43. ASSUME NEW w \in Workers, Crash(w) PROVE Fencing'
  <2>1. late' = late
    BY <1>43 DEF Crash
  <2>2. QED
    BY <1>43, <2>1 DEF Crash, Goto, NoCall, HeldFor, Fencing
<1>44. ASSUME NEW w \in Workers, NEW h \in {"ok", "stale", "draining"}, SetHealth(w, h) PROVE Fencing'
  BY <1>44 DEF SetHealth, supervisor, database, control, NoCall, HeldFor, Fencing
<1>45. ASSUME NEW w \in Workers, NEW s \in {"closed", "open", "broken"}, DropSession(w, s) PROVE Fencing'
  BY <1>45 DEF DropSession, database, control, NoCall, HeldFor, Fencing
<1>46. ASSUME NEW w \in Workers, Start(w) PROVE Fencing'
  BY <1>46 DEF Start, Goto, supervisor, database, control, NoCall, HeldFor, Fencing
<1>47. ASSUME NEW o \in late, LateBegin(o) PROVE Fencing'
  BY <1>47
<1>48. ASSUME NEW r \in Requests, LapseRequest(r) PROVE Fencing'
  BY <1>48 DEF LapseRequest, supervisor, control, NoCall, HeldFor, Fencing
<1>49. ASSUME NEW r \in Requests, NEW t \in Workers, CreateRequest(r, t) PROVE Fencing'
  BY <1>49 DEF CreateRequest, supervisor, control, NoCall, HeldFor, Fencing
<1>50. ASSUME Tick PROVE Fencing'
  <2>1. ASSUME NEW v \in Workers
        PROVE  Guarded(v)'
    <3>1. /\ pc' = pc /\ generation' = generation /\ started' = started
          /\ session' = session /\ lease' = AgedRow(lease)
          /\ authority'[v] = Minus(authority[v]) /\ call'[v] = AgedCall(call[v])
      BY <1>50 DEF Tick, control
    <3>2. lease'.owner = lease.owner /\ lease'.generation = lease.generation
          /\ lease'.left \in Int /\ lease'.left >= lease.left - 1
      BY <3>1 DEF AgedRow, LeaseRow
    <3>3. /\ call'[v].op = call[v].op /\ call'[v].st = call[v].st
          /\ call'[v].gen = call[v].gen
      BY <3>1 DEF AgedCall, CallType
    <3>4. /\ call[v].st \in {"none", "refused"} =>
                 call'[v].age = call[v].age /\ call'[v].lag = call[v].lag
          /\ call[v].st \notin {"none", "refused"} =>
                 /\ call'[v].age = Plus(call[v].age)
                 /\ call'[v].lag \in {call[v].lag, Plus(call[v].lag)}
      BY <3>1 DEF AgedCall, CallType
    <3>5. call[v].lag <= call[v].age /\ call[v].age \in 0..TTL /\ call[v].lag \in 0..TTL
          /\ authority[v] \in 0..TTL /\ lease.left \in -TTL..TTL
      BY DEF LeaseRow
    <3>6. Attended(v)'
      BY <3>1
    <3>7. Timed(v)'
      BY <3>1, <3>3, <3>4, <3>5 DEF Plus, Minus, NoCall
    <3>8. Backed(v)'
      <4>1. authority'[v] > 0 => authority[v] > 0 /\ authority'[v] = authority[v] - 1
        BY <3>1, <3>5 DEF Minus
      <4>2. authority'[v] > 0 /\ (started[v] \/ pc[v] = "announcing") =>
              /\ lease'.owner = v /\ lease'.generation = generation[v]
              /\ authority'[v] <= lease'.left
        BY <3>2, <3>5, <4>1 DEF HeldFor
      <4>3. call[v].st = "granted" /\ call'[v].age < TTL =>
              call[v].age < TTL /\ call'[v].age = call[v].age + 1
        BY <3>4, <3>5 DEF Plus
      <4>4. call[v].op \in {"acquire", "renew"} /\ call[v].st = "granted"
              /\ call'[v].age < TTL =>
                /\ lease'.owner = v /\ lease'.generation = call[v].gen
                /\ TTL - call'[v].age <= lease'.left
        BY <3>2, <3>5, <4>3 DEF HeldFor, Remaining
      <4>5. QED
        BY <3>1, <3>3, <4>2, <4>4 DEF HeldFor, Remaining
    <3>9. QED
      BY <3>6, <3>7, <3>8
  <2>2. late' = {}
    BY <1>50 DEF Tick
  <2>3. QED
    BY <2>1, <2>2 DEF Fencing
<1>51. ASSUME NEW o \in late, LateCommit(o) PROVE Fencing'
  BY <1>51
<1>52. ASSUME UNCHANGED vars PROVE Fencing'
  BY <1>52 DEF vars, control, supervisor, NoCall, HeldFor, Fencing
<1>53. ASSUME NEW r \in Requests, NEW u \in request[r].late, LateUpdate(r, u) PROVE Fencing'
  BY <1>53 DEF LateUpdate, supervisor, control, NoCall, HeldFor, Fencing
<1>54. QED
  BY <1>53, <1>1, <1>2, <1>3, <1>4, <1>5, <1>6, <1>7, <1>8, <1>9, <1>10, <1>11, <1>12, <1>13, <1>14, <1>15, <1>16, <1>17, <1>18, <1>19, <1>20, <1>21, <1>22, <1>23, <1>24, <1>25, <1>26, <1>27, <1>28, <1>29, <1>30, <1>31, <1>32, <1>33, <1>34, <1>35, <1>36, <1>37, <1>38, <1>39, <1>40, <1>41, <1>42, <1>43, <1>44, <1>45, <1>46, <1>47, <1>48, <1>49, <1>50, <1>51, <1>52 DEF Next, Step, Disturbance

\* The inductive invariant of the fencing proofs holds in every behaviour.
THEOREM FencingInvariant ==
  ASSUME Bounded
  PROVE  Spec => [](TypeOK /\ Placed /\ Generations /\ Fencing)
<1> DEFINE Inv == TypeOK /\ Placed /\ Generations /\ Fencing
<1>1. Init => Inv
  <2>1. Init => Fencing
    BY TTLAssumption
    DEF Init, Fencing, Attended, Timed, Backed, Controlled, At, NoCall
  <2>2. QED
    BY <2>1, InitTypeOK, InitPlaced, InitGenerations
<1>2. Inv /\ [Next]_vars => Inv'
  BY TypeStep, PlacedStep, GenerationsStep, FencingStep
<1>3. QED
  BY <1>1, <1>2, PTL DEF Spec

\* What the invariant says of an acting worker.
LEMMA FencedWhileActing ==
  ASSUME Fencing, TypeOK
  PROVE  Fenced
  BY DEF Fencing, TypeOK, Attended, Backed, HeldFor, Fenced

\* Whatever is delayed, lost or crashed, a worker that believes in its
\* authority and controls a client holds the lease for as long as it believes.
THEOREM LeadershipIsFenced ==
  ASSUME Bounded
  PROVE  Spec => []Fenced
  BY FencingInvariant, FencedWhileActing, PTL

\* Hence no two workers act as leader at once.
THEOREM LeaderIsSingle ==
  ASSUME Bounded
  PROVE  Spec => []SingleWriter
<1>1. Fenced => SingleWriter
  BY DEF Fenced, SingleWriter, Leads, Controlled
<1>2. QED
  BY <1>1, LeadershipIsFenced, PTL

\* What a step does to the row: it stays with its owner and generation, or a
\* grant or a release of one worker changes it.
LEMMA RowChanges ==
  ASSUME TypeOK, Placed, Fencing, [Next]_vars
  PROVE  \/ lease'.owner = lease.owner /\ lease'.generation = lease.generation
         \/ \E w \in Workers :
              /\ UNCHANGED <<authority, session>>
              /\ \/ /\ lease'.owner = w
                    /\ lease'.generation = lease.generation + 1
                    /\ lease.owner = NoWorker \/ lease.left <= 0
                 \/ /\ lease'.owner = NoWorker
                    /\ lease'.generation = lease.generation
                    /\ lease.owner = w
                    /\ At(w, "releasing")
<1>1. ASSUME NEW w \in Workers, Commit(w), Granted(w, call[w])
      PROVE  \/ lease'.owner = lease.owner /\ lease'.generation = lease.generation
             \/ /\ UNCHANGED <<authority, session>>
                /\ \/ /\ lease'.owner = w
                      /\ lease'.generation = lease.generation + 1
                      /\ lease.owner = NoWorker \/ lease.left <= 0
                   \/ /\ lease'.owner = NoWorker
                      /\ lease'.generation = lease.generation
                      /\ lease.owner = w
                      /\ At(w, "releasing")
  <2>1. /\ lease' = Written(w, call[w]) /\ UNCHANGED <<authority, session>>
        /\ call[w].lag \in 0..TTL /\ lease.left \in Int
    <3>1. call[w] \in CallType /\ lease \in LeaseRow
      BY DEF TypeOK
    <3>2. call[w].lag \in 0..TTL
      BY <3>1, CallFacts
    <3>3. lease.left \in Int
      BY <3>1 DEF LeaseRow
    <3>4. QED
      BY <1>1, <3>2, <3>3 DEF Commit, supervisor
  <2>2. CASE call[w].op = "acquire"
    BY <1>1, <2>1, <2>2
    DEF Granted, Written, AcquireGranted, AcquiredRow, Lapsed, Lease
  <2>3. CASE call[w].op = "renew"
    BY <1>1, <2>1, <2>3 DEF Granted, Written, RenewGranted, RenewedRow, Lease
  <2>4. CASE call[w].op = "release"
    BY <1>1, <2>1, <2>4 DEF Granted, Written, ReleaseGranted, ReleasedRow, Placed
  <2>5. QED
    BY <1>1, <2>2, <2>3, <2>4 DEF Granted
<1>2. ASSUME NEW w \in Workers, Commit(w), ~Granted(w, call[w])
      PROVE  UNCHANGED lease
  BY <1>2 DEF Commit
<1>3. late = {}
  BY DEF Fencing
<1>4. QED
  BY <1>1, <1>2, <1>3, OnlyCommitsTeach DEF Unlearned

\* A row is released only by an owner whose disconnect is over: it controls no
\* client, and one that still runs is one whose disconnect failed.
THEOREM ReleaseComesLast ==
  ASSUME Bounded
  PROVE  Spec => ReleaseFollowsDisconnect
<1>1. ASSUME TypeOK, Placed, Fencing, [Next]_vars, NEW w \in Workers,
             lease.owner = w, lease'.owner = NoWorker
      PROVE  ~Controlled(w) /\ ~started[w]
  <2>1. At(w, "releasing")
    BY <1>1, RowChanges, WorkersAssumption
  <2>2. QED
    BY <1>1, <2>1 DEF Fencing, Attended, LeaderPhases, At
<1>2. TypeOK /\ Placed /\ Fencing /\ [Next]_vars =>
        [\A w \in Workers : lease.owner = w /\ lease'.owner = NoWorker =>
                              ~Controlled(w) /\ ~started[w]]_vars
  BY <1>1
<1>3. QED
  BY <1>2, FencingInvariant, PTL DEF Spec, ReleaseFollowsDisconnect

\* The supervisors and the lease row implement the abstract specification:
\* epochs are granted and given up only while nobody acts as leader.
THEOREM SupervisorsImplementFencedLeadership ==
  ASSUME Bounded
  PROVE  Spec => ImplementsFencedLeadership
<1>1. Init => Promise!Init
  BY DEF Init, Promise!Init, NoLeaseRow, Acting
<1>2. ASSUME TypeOK, Fencing, NEW w \in Acting
      PROVE  lease.owner = w /\ lease.left > 0 /\ ~At(w, "releasing")
  <2>1. /\ w \in Workers /\ authority[w] > 0 /\ Controlled(w)
        /\ authority[w] \in Nat /\ lease.left \in Int
    BY <1>2 DEF Acting, TypeOK, LeaseRow
  <2>2. lease.owner = w /\ lease.left > 0
    BY <1>2, <2>1, FencedWhileActing DEF Fenced
  <2>3. ~At(w, "releasing")
    BY <1>2, <2>1 DEF Fencing, Attended, LeaderPhases, At
  <2>4. QED
    BY <2>2, <2>3
<1>3. ASSUME TypeOK, Placed, Fencing, TypeOK', Fencing', [Next]_vars
      PROVE  [Promise!Next]_(Promise!vars)
  <2>1. \A w \in Acting' : lease'.owner = w
    BY <1>3, FencedWhileActing DEF TypeOK, Fenced, Acting, Controlled, Fencing, Attended, Backed, HeldFor
  <2>2. CASE lease'.owner = lease.owner /\ lease'.generation = lease.generation
    <3>1. CASE Acting' = {}
      BY <2>2, <3>1 DEF Promise!Next, Promise!Rest
    <3>2. ASSUME NEW w \in Acting'
          PROVE  Promise!Act(w) /\ w \in Workers
      BY <2>1, <2>2, <3>2 DEF Promise!Act, Acting
    <3>3. QED
      BY <3>1, <3>2 DEF Promise!Next
  <2>3. ASSUME NEW w \in Workers, UNCHANGED <<authority, session>>,
               lease'.owner = w, lease'.generation = lease.generation + 1,
               lease.owner = NoWorker \/ lease.left <= 0
        PROVE  Promise!Grant(w)
    <3>1. Acting = {}
      BY <1>2, <1>3, <2>3, WorkersAssumption DEF Acting, TypeOK, LeaseRow
    <3>2. QED
      BY <2>3, <3>1 DEF Promise!Grant, Acting, Controlled
  <2>4. ASSUME NEW w \in Workers, UNCHANGED <<authority, session>>,
               lease'.owner = NoWorker, lease'.generation = lease.generation,
               lease.owner = w, At(w, "releasing")
        PROVE  Promise!Yield
    <3>1. Acting = {}
      BY <1>2, <1>3, <2>4
    <3>2. QED
      BY <2>4, <3>1 DEF Promise!Yield, Acting, Controlled
  <2>5. QED
    BY <1>3, <2>2, <2>3, <2>4, RowChanges DEF Promise!Next
<1>4. QED
  BY <1>1, <1>3, FencingInvariant, PTL DEF Spec, ImplementsFencedLeadership, Promise!Spec
-----------------------------------------------------------------------------
(* A handoff completes only after its target led a later generation.         *)

\* Where a target is once it has seen that the request is meant for it, and
\* once the request was acknowledged.
Answering == {"preparing", "acquiring", "announcing", "connecting", "completing"}
Underway  == Answering \ {"preparing"}

\* A request that was acknowledged, settled or not.
Answered == {"in_progress"} \cup ClosedStates

\* The row has not been granted to the target of a request before it was made,
\* and who gave up a completion had been led and acknowledged.
Requested ==
  \A r \in Requests :
    /\ request[r].status # "none" =>
         /\ request[r].target \in Workers
         /\ request[r].expected <= lease.generation
         /\ lease.owner = request[r].target => request[r].expected < lease.generation
    /\ request[r].late # {} => request[r].status # "none"
    /\ "complete" \in request[r].late =>
         request[r].led /\ request[r].status \in Answered

\* How far a worker is with the request it has read: it is the target, the
\* request is acknowledged, and what it was granted came after the request.
Answers(w) ==
  LET r == handoff[w].id
  IN  /\ pc[w] \in {"connecting", "completing"} => started[w]
      /\ r # 0 =>
           /\ request[r].status # "none"
           /\ handoff[w].status = "in_progress" \/ pc[w] \in Underway =>
                request[r].status \in Answered
           /\ pc[w] \in Answering => request[r].target = w
           /\ At(w, "acquiring") /\ call[w].st = "granted" =>
                call[w].gen > request[r].expected
           /\ pc[w] \in {"announcing", "connecting", "completing"} =>
                generation[w] > request[r].expected
           /\ At(w, "completing") => request[r].led

Handoffs == Requested /\ \A w \in Workers : Answers(w)

\* A step leaves worker v alone, takes it out of its answer, or drops the request.
Undisturbed(v) ==
  /\ handoff'[v] \in {handoff[v], NoHandoff}
  /\ \/ pc'[v] \notin Answering
     \/ /\ pc'[v] = pc[v] /\ generation'[v] = generation[v] /\ started'[v] = started[v]
        /\ At(v, "acquiring") /\ call'[v].st = "granted" =>
             call[v].st = "granted" /\ call'[v].gen = call[v].gen

Quiet == request' = request /\ \A v \in Workers : Undisturbed(v)

\* The steps that change a request, or how far a worker is with one.
Serves(w) ==
  \/ PollHandoff(w) \/ GiveUp(w) \/ ElectOpenly(w) \/ ElectTarget(w)
  \/ RejectTarget(w) \/ AcceptTarget(w) \/ Acquired(w) \/ StartSession(w)
  \/ Connected(w) \/ CompleteHandoff(w) \/ BeginChecks(w) \/ RejectHandoff(w)
  \/ FailConnectHandoff(w) \/ Commit(w) \/ ChecksFail(w) \/ Crash(w)

\* No other handler, fault or late call touches a request or its answer.
LEMMA OthersAreQuiet ==
  ASSUME TypeOK, Placed, [Next]_vars,
         ~ \E w \in Workers : Serves(w),
         ~ \E r \in Requests :
             \/ LapseRequest(r) \/ \E t \in Workers : CreateRequest(r, t)
             \/ \E u \in request[r].late : LateUpdate(r, u)
  PROVE  Quiet
<1> /\ pc \in [Workers -> Phases] /\ call \in [Workers -> CallType]
    /\ generation \in [Workers -> Nat] /\ started \in [Workers -> BOOLEAN]
    /\ handoff \in [Workers -> HandoffType]
  BY DEF TypeOK
<1> USE DEF Quiet, Undisturbed, Answering, Placed, At
<1>1. ASSUME NEW w \in Workers, NotAcquired(w) PROVE Quiet
  BY <1>1 DEF NotAcquired, NoCall, Goto, supervisor, database
<1>2. ASSUME NEW w \in Workers, ConnectTooLate(w) PROVE Quiet
  BY <1>2 DEF ConnectTooLate, Relinquish, supervisor, database, Goto, NoCall
<1>3. ASSUME NEW w \in Workers, RenewWhileConnecting(w) PROVE Quiet
  BY <1>3 DEF RenewWhileConnecting, NoCall, Send, supervisor, database, control, NewCall
<1>4. ASSUME NEW w \in Workers, RenewedWhileConnecting(w) PROVE Quiet
  BY <1>4 DEF RenewedWhileConnecting, NoCall, database, control
<1>5. ASSUME NEW w \in Workers, ConnectLosesAuthority(w) PROVE Quiet
  BY <1>5 DEF ConnectLosesAuthority, NoCall, Relinquish, supervisor, database, Goto
<1>6. ASSUME NEW w \in Workers, ClientExited(w) PROVE Quiet
  BY <1>6 DEF ClientExited, NoCall, Relinquish, supervisor, database, Goto
<1>7. ASSUME NEW w \in Workers, Resume(w) PROVE Quiet
  BY <1>7 DEF Resume, Goto, supervisor, database, control, NoCall
<1>8. ASSUME NEW w \in Workers, AuthorityExpired(w) PROVE Quiet
  BY <1>8 DEF AuthorityExpired, Relinquish, supervisor, database, Goto, NoCall
<1>9. ASSUME NEW w \in Workers, KeepLeading(w) PROVE Quiet
  BY <1>9 DEF KeepLeading, Goto, supervisor, database, NoCall
<1>10. ASSUME NEW w \in Workers, HandOver(w) PROVE Quiet
  BY <1>10 DEF HandOver, Relinquish, supervisor, database, Goto, NoCall
<1>11. ASSUME NEW w \in Workers, AuditFails(w) PROVE Quiet
  BY <1>11 DEF AuditFails, Relinquish, supervisor, database, Goto, NoCall
<1>12. ASSUME NEW w \in Workers, AuditPasses(w) PROVE Quiet
  BY <1>12 DEF AuditPasses, Goto, supervisor, database, control, NoCall
<1>13. ASSUME NEW w \in Workers, Renew(w) PROVE Quiet
  BY <1>13 DEF Renew, Send, Goto, supervisor, database, control, NewCall, NoCall
<1>14. ASSUME NEW w \in Workers, Renewed(w) PROVE Quiet
  BY <1>14 DEF Renewed, NoCall, Goto, database, control
<1>15. ASSUME NEW w \in Workers, AuthorityLost(w) PROVE Quiet
  BY <1>15 DEF AuthorityLost, NoCall, Relinquish, supervisor, database, Goto
<1>16. ASSUME NEW w \in Workers, StopLeading(w) PROVE Quiet
  BY <1>16 DEF StopLeading, Goto, supervisor, database, control, NoCall
<1>17. ASSUME NEW w \in Workers, CloseSession(w) PROVE Quiet
  BY <1>17 DEF CloseSession, Send, Goto, database, control, NewCall, NoCall
<1>18. ASSUME NEW w \in Workers, Released(w) PROVE Quiet
  BY <1>18 DEF Released, ClearAuthority, database, NoCall, Goto
<1>19. ASSUME NEW w \in Workers, Shutdown(w) PROVE Quiet
  BY <1>19 DEF Shutdown, Relinquish, Goto, database, NoCall
<1>20. ASSUME NEW w \in Workers, Begin(w) PROVE Quiet
  BY <1>20 DEF Begin, Refusal, supervisor, database, control, CallType, NoCall
<1>21. ASSUME NEW w \in Workers, AnnounceFails(w) PROVE Quiet
  BY <1>21 DEF AnnounceFails, Goto, supervisor, database, NoCall
<1>22. ASSUME NEW w \in Workers, ReadyFails(w) PROVE Quiet
  BY <1>22 DEF ReadyFails, NoCall, Relinquish, supervisor, database, Goto
<1>24. ASSUME NEW w \in Workers, CloseRaises(w) PROVE Quiet
  BY <1>24 DEF CloseRaises, Send, Goto, database, control, NewCall, NoCall
<1>25. ASSUME NEW w \in Workers, CloseCancelled(w) PROVE Quiet
  BY <1>25 DEF CloseCancelled, Goto, database, NoCall
<1>26. ASSUME NEW w \in Workers, CallFails(w) PROVE Quiet
  BY <1>26 DEF CallFails, NoCall, Goto, supervisor, control, Relinquish, ClearAuthority, database
<1>27. ASSUME NEW w \in Workers, ReleaseCancelled(w) PROVE Quiet
  BY <1>27 DEF ReleaseCancelled, NoCall, Goto, supervisor, database
<1>28. ASSUME NEW w \in Workers, Stop(w) PROVE Quiet
  BY <1>28 DEF Stop, database, control, NoCall
<1>30. ASSUME NEW w \in Workers, NEW h \in {"ok", "stale", "draining"}, SetHealth(w, h) PROVE Quiet
  BY <1>30 DEF SetHealth, supervisor, database, control, NoCall
<1>31. ASSUME NEW w \in Workers, NEW s \in {"closed", "open", "broken"}, DropSession(w, s) PROVE Quiet
  BY <1>31 DEF DropSession, database, control, NoCall
<1>32. ASSUME NEW w \in Workers, Start(w) PROVE Quiet
  BY <1>32 DEF Start, Goto, supervisor, database, control, NoCall
<1>33. ASSUME NEW o \in late, LateBegin(o) PROVE Quiet
  BY <1>33 DEF LateBegin, supervisor, database, control, NoCall
<1>34. ASSUME Tick PROVE Quiet
  <2>1. ASSUME NEW v \in Workers
        PROVE  AgedCall(call[v]).st = call[v].st /\ AgedCall(call[v]).gen = call[v].gen
    BY DEF AgedCall, CallType
  <2>2. \A v \in Workers : call'[v] = AgedCall(call[v])
    BY <1>34 DEF Tick
  <2>3. QED
    BY <1>34, <2>1, <2>2 DEF Tick, control
<1>35. ASSUME NEW o \in late, LateCommit(o) PROVE Quiet
  BY <1>35 DEF LateCommit, supervisor, control, NoCall
<1>36. ASSUME UNCHANGED vars PROVE Quiet
  BY <1>36 DEF vars, control, NoCall
<1>37. QED
  BY <1>1, <1>2, <1>3, <1>4, <1>5, <1>6, <1>7, <1>8, <1>9, <1>10, <1>11, <1>12, <1>13, <1>14,
     <1>15, <1>16, <1>17, <1>18, <1>19, <1>20, <1>21, <1>22, <1>24, <1>25, <1>26,
     <1>27, <1>28, <1>30, <1>31, <1>32, <1>33, <1>34, <1>35, <1>36
  DEF Next, Step, Disturbance, Serves

\* What a step does to the requests: one that was made keeps its target and
\* generation, stays acknowledged and led, and is completed, now or later, only
\* by a worker that answers it; a new one names the generation of a row its
\* target does not own.
RequestsKept ==
  \A r \in Requests :
    /\ request[r].status # "none" =>
         /\ request'[r].status # "none"
         /\ request'[r].target = request[r].target
         /\ request'[r].expected = request[r].expected
         /\ request[r].status \in Answered => request'[r].status \in Answered
         /\ request[r].led => request'[r].led
    /\ request[r].status = "none" /\ request'[r].status # "none" =>
         /\ request'[r].target \in Workers
         /\ request'[r].expected = lease.generation
         /\ lease.owner # request'[r].target
         /\ lease' = lease
         /\ request'[r].late = {}
    /\ request'[r].late # {} => request[r].status # "none"
    /\ "complete" \in request'[r].late =>
         \/ "complete" \in request[r].late
         \/ \E w \in Workers : At(w, "completing") /\ handoff[w].id = r
    /\ request'[r].status = "completed" /\ request[r].status # "completed" =>
         /\ IsOpen(request[r])
         /\ \/ "complete" \in request[r].late
            \/ \E w \in Workers : At(w, "completing") /\ handoff[w].id = r

\* The sweep, the connection of a target and the updates by id keep the
\* requests, and settle none that was never made.
LEMMA UpdatesKeepRequests ==
  ASSUME request \in [Requests -> RequestType], Requested
  PROVE  /\ request' = request => RequestsKept
         /\ request' = Swept => RequestsKept
         /\ \A w : request' = Led(w) => RequestsKept
         /\ \A r : request' = Marked(r) => RequestsKept
         /\ \A r : request[r].status # "none" /\ request' = Failed(r) => RequestsKept
         /\ \A w \in Workers :
              At(w, "completing") /\ request' = Completed(handoff[w].id) => RequestsKept
<1>1. \A q \in RequestType : \A s \in {"expired", "in_progress", "failed", "completed"} :
        /\ [q EXCEPT !.status = s].status = s
        /\ [q EXCEPT !.status = s].target = q.target
        /\ [q EXCEPT !.status = s].expected = q.expected
        /\ [q EXCEPT !.status = s].late = q.late
        /\ [q EXCEPT !.status = s].led = q.led
  BY DEF RequestType
<1>2. \A q \in RequestType : q.status \in {"none"} \cup OpenStates \cup ClosedStates
  BY DEF RequestType
<1>3. \A r \in Requests : request[r].late # {} => request[r].status # "none"
  BY DEF Requested
<1> USE DEF RequestsKept, Answered, IsOpen, OpenStates, ClosedStates
<1>4. request' = request => RequestsKept
  BY <1>3
<1>5. request' = Swept => RequestsKept
  BY <1>1, <1>2, <1>3 DEF Swept
<1>6. ASSUME NEW w, request' = Led(w)
      PROVE  RequestsKept
  <2>1. \A q \in RequestType :
          /\ [q EXCEPT !.led = TRUE].status = q.status
          /\ [q EXCEPT !.led = TRUE].target = q.target
          /\ [q EXCEPT !.led = TRUE].expected = q.expected
          /\ [q EXCEPT !.led = TRUE].late = q.late
          /\ [q EXCEPT !.led = TRUE].led
    BY DEF RequestType
  <2>2. QED
    BY <1>3, <1>6, <2>1 DEF Led
<1>7. ASSUME NEW r, request' = Marked(r)
      PROVE  RequestsKept
  BY <1>1, <1>2, <1>3, <1>7 DEF Marked
<1>8. ASSUME NEW r, request[r].status # "none", request' = Failed(r)
      PROVE  RequestsKept
  BY <1>1, <1>2, <1>3, <1>8 DEF Failed
<1>9. ASSUME NEW w \in Workers, At(w, "completing"), request' = Completed(handoff[w].id)
      PROVE  RequestsKept
  BY <1>1, <1>2, <1>3, <1>9 DEF Completed
<1>10. QED
  BY <1>4, <1>5, <1>6, <1>7, <1>8, <1>9

\* An update that was given up leaves the requests as they are but for itself.
LEMMA AbandonedKeepsRequests ==
  ASSUME request \in [Requests -> RequestType], Requested, handoff \in [Workers -> HandoffType],
         NEW w \in Workers, Answers(w), Abandons(w)
  PROVE  RequestsKept
<1>1. CASE request' = request
  BY <1>1, UpdatesKeepRequests
<1>2. ASSUME NEW u \in Updates(w),
             request' = [request EXCEPT ![handoff[w].id].late = @ \cup {u}]
      PROVE  RequestsKept
  <2> DEFINE h == handoff[w].id
  <2>1. h # 0 /\ (u = "complete" => At(w, "completing"))
    BY DEF Updates
  <2>2. h \in Requests /\ request[h].status # "none"
    BY <2>1 DEF Answers, HandoffType
  <2>3. /\ request'[h].status = request[h].status /\ request'[h].target = request[h].target
        /\ request'[h].expected = request[h].expected /\ request'[h].led = request[h].led
        /\ request'[h].late = request[h].late \cup {u}
        /\ \A r \in Requests \ {h} : request'[r] = request[r]
    BY <1>2, <2>2 DEF RequestType
  <2>4. \A r \in Requests : request[r].late # {} => request[r].status # "none"
    BY DEF Requested
  <2>5. QED
    BY <2>1, <2>2, <2>3, <2>4 DEF RequestsKept
<1>3. QED
  BY <1>1, <1>2 DEF Abandons

\* The thread of an update that was given up treats the requests alike.
LEMMA LateUpdateKeepsRequests ==
  ASSUME request \in [Requests -> RequestType], Requested,
         NEW r \in Requests, NEW u \in request[r].late, LateUpdate(r, u)
  PROVE  RequestsKept
<1>1. \A q \in RequestType : \A s \in {"expired", "in_progress", "failed", "completed"} :
        /\ [q EXCEPT !.status = s].status = s
        /\ [q EXCEPT !.status = s].target = q.target
        /\ [q EXCEPT !.status = s].expected = q.expected
        /\ [q EXCEPT !.status = s].late = q.late
        /\ [q EXCEPT !.status = s].led = q.led
  BY DEF RequestType
<1>2. \A q \in RequestType :
        /\ q.status \in {"none"} \cup OpenStates \cup ClosedStates
        /\ q.late \subseteq {"start", "complete", "fail"}
        /\ [q EXCEPT !.late = @ \ {u}].status = q.status
        /\ [q EXCEPT !.late = @ \ {u}].target = q.target
        /\ [q EXCEPT !.late = @ \ {u}].expected = q.expected
        /\ [q EXCEPT !.late = @ \ {u}].late = q.late \ {u}
        /\ [q EXCEPT !.late = @ \ {u}].led = q.led
  BY DEF RequestType
<1>3. /\ \A s \in Requests : request[s].late # {} => request[s].status # "none"
      /\ request[r].status # "none"
  BY DEF Requested
<1>4. u \in {"start", "complete", "fail"}
  BY <1>2
<1> USE DEF RequestsKept, Answered, IsOpen, OpenStates, ClosedStates
<1>5. ASSUME NEW q \in [Requests -> RequestType], request' = [q EXCEPT ![r].late = @ \ {u}]
      PROVE  /\ request'[r].status = q[r].status /\ request'[r].target = q[r].target
             /\ request'[r].expected = q[r].expected /\ request'[r].led = q[r].led
             /\ request'[r].late = q[r].late \ {u}
             /\ \A s \in Requests \ {r} : request'[s] = q[s]
  BY <1>2, <1>5
<1>6. /\ Marked(r) \in [Requests -> RequestType]
      /\ Completed(r) \in [Requests -> RequestType]
      /\ Failed(r) \in [Requests -> RequestType]
  BY RequestFacts
<1>7. CASE u = "start"
  BY <1>1, <1>2, <1>3, <1>5, <1>6, <1>7 DEF LateUpdate, Marked
<1>8. CASE u = "complete"
  BY <1>1, <1>2, <1>3, <1>5, <1>6, <1>8 DEF LateUpdate, Completed
<1>9. CASE u = "fail"
  BY <1>1, <1>2, <1>3, <1>5, <1>6, <1>9 DEF LateUpdate, Failed
<1>10. QED
  BY <1>4, <1>7, <1>8, <1>9

\* No step of any actor treats the requests in another way.
LEMMA RequestsStep ==
  ASSUME TypeOK, Placed, Handoffs, [Next]_vars
  PROVE  RequestsKept
<1> /\ request \in [Requests -> RequestType] /\ lease \in LeaseRow
    /\ handoff \in [Workers -> HandoffType]
    /\ Requested /\ \A w \in Workers : Answers(w)
  BY DEF TypeOK, Handoffs
<1>1. CASE request' = request
  BY <1>1, UpdatesKeepRequests
<1>2. ASSUME NEW w \in Workers, PollHandoff(w) \/ BeginChecks(w) PROVE RequestsKept
  BY <1>2, UpdatesKeepRequests DEF PollHandoff, BeginChecks, ReadHandoff
<1>3. ASSUME NEW w \in Workers, GiveUp(w) \/ AcceptTarget(w) PROVE RequestsKept
  <2>1. request' = request \/ Abandons(w) \/ request' = Marked(handoff[w].id)
    BY <1>3 DEF GiveUp, AcceptTarget
  <2>2. QED
    BY <2>1, UpdatesKeepRequests, AbandonedKeepsRequests
<1>4. ASSUME NEW w \in Workers, RejectTarget(w) \/ RejectHandoff(w) \/ FailConnectHandoff(w)
      PROVE  RequestsKept
  <2>1. Abandons(w) \/ request' = Failed(handoff[w].id)
    BY <1>4 DEF RejectTarget, RejectHandoff, FailConnectHandoff, FailRequest
  <2>2. CASE handoff[w].id = 0
    <3>1. 0 \notin Requests
      BY BoundsAssumption DEF Requests
    <3>2. Failed(0) = request
      BY <3>1 DEF Failed
    <3>3. QED
      BY <1>1, <2>1, <2>2, <3>2, AbandonedKeepsRequests
  <2>3. CASE handoff[w].id # 0
    BY <2>1, <2>3, UpdatesKeepRequests, AbandonedKeepsRequests DEF Answers
  <2>4. QED
    BY <2>2, <2>3
<1>5. ASSUME NEW w \in Workers, CompleteHandoff(w) PROVE RequestsKept
  BY <1>5, UpdatesKeepRequests, AbandonedKeepsRequests DEF CompleteHandoff
<1>6. ASSUME NEW r \in Requests, LapseRequest(r) PROVE RequestsKept
  BY <1>6 DEF LapseRequest, RequestsKept, RequestType, Requested
<1>7. ASSUME NEW r \in Requests, NEW t \in Workers, CreateRequest(r, t) PROVE RequestsKept
  <2>1. \A q \in Requests :
          /\ Swept[q].target = request[q].target /\ Swept[q].expected = request[q].expected
          /\ Swept[q].late = request[q].late /\ Swept[q].led = request[q].led
          /\ \/ Swept[q].status = request[q].status
             \/ IsOpen(request[q]) /\ Swept[q].status = "expired"
    BY DEF Swept, RequestType
  <2>2. /\ request' = [Swept EXCEPT ![r] =
             [status |-> "pending", source |-> lease.owner, target |-> t,
              expected |-> lease.generation, lapsed |-> FALSE,
              late |-> {}, led |-> FALSE]]
        /\ request[r].status = "none" /\ lease.owner # t /\ lease' = lease
    BY <1>7 DEF CreateRequest
  <2>3. Swept \in [Requests -> RequestType]
    BY RequestFacts
  <2>4. \A q \in Requests : q # r => request'[q] = Swept[q]
    BY <2>2, <2>3
  <2>5. /\ request'[r].status = "pending" /\ request'[r].target = t
        /\ request'[r].expected = lease.generation /\ request'[r].late = {}
    BY <2>2, <2>3
  <2>6. QED
    BY <2>1, <2>2, <2>4, <2>5
    DEF RequestsKept, Requested, Answered, IsOpen, OpenStates, ClosedStates
<1>8. ASSUME NEW w \in Workers,
             \/ ElectOpenly(w) \/ ElectTarget(w) \/ Acquired(w)
             \/ StartSession(w) \/ Commit(w)
      PROVE  RequestsKept
  BY <1>1, <1>8
  DEF ElectOpenly, ElectTarget, Acquired, StartSession, Commit, database
<1>9. ASSUME NEW w \in Workers, Connected(w) \/ ChecksFail(w) \/ Crash(w)
      PROVE  RequestsKept
  BY <1>9, UpdatesKeepRequests, AbandonedKeepsRequests DEF Connected, ChecksFail, Crash
<1>10. ASSUME NEW r \in Requests, NEW u \in request[r].late, LateUpdate(r, u)
       PROVE  RequestsKept
  BY <1>10, LateUpdateKeepsRequests
<1>11. QED
  BY <1>1, <1>9, <1>10, <1>2, <1>3, <1>4, <1>5, <1>6, <1>7, <1>8, OthersAreQuiet DEF Quiet, Serves

\* Requests stay newer than the row until their target has been granted it.
LEMMA RequestedStep ==
  ASSUME TypeOK, Placed, Generations, Handoffs, RequestsKept, [Next]_vars
  PROVE  Requested'
<1>a. Requested /\ \A w \in Workers : Answers(w)
  BY DEF Handoffs
<1>b. ASSUME NEW r \in Requests
      PROVE  /\ request'[r].late # {} => request'[r].status # "none"
             /\ "complete" \in request'[r].late =>
                  request'[r].led /\ request'[r].status \in Answered
  <2>1. request'[r].late # {} => request'[r].status # "none" /\ request[r].status # "none"
    BY DEF RequestsKept
  <2>2. ASSUME "complete" \in request'[r].late
        PROVE  request[r].led /\ request[r].status \in Answered
    <3>1. CASE "complete" \in request[r].late
      BY <1>a, <3>1 DEF Requested
    <3>2. ASSUME NEW w \in Workers, At(w, "completing"), handoff[w].id = r
          PROVE  request[r].led /\ request[r].status \in Answered
      BY <1>a, <3>2, BoundsAssumption DEF Answers, Underway, Answering, At, Requests
    <3>3. QED
      BY <2>2, <3>1, <3>2 DEF RequestsKept
  <2>3. QED
    BY <2>1, <2>2 DEF RequestsKept
<1>1. /\ lease \in LeaseRow /\ request \in [Requests -> RequestType]
      /\ lease.generation \in Nat /\ lease'.generation \in Nat
      /\ \A r \in Requests : request[r].expected \in Nat
  <2>1. TypeOK'
    BY TypeStep
  <2>2. lease' \in LeaseRow
    BY <2>1 DEF TypeOK
  <2>3. lease \in LeaseRow /\ request \in [Requests -> RequestType]
    BY DEF TypeOK
  <2>4. QED
    BY <2>2, <2>3 DEF LeaseRow, RequestType
<1>2. CASE lease'.owner = lease.owner /\ lease'.generation = lease.generation
  BY <1>a, <1>1, <1>2, <1>b DEF Requested, RequestsKept
<1>3. ASSUME NEW w \in Workers, NEW c \in CallType, Granted(w, c),
             lease' = Written(w, c), request' = request
      PROVE  Requested'
  <2>1. /\ lease'.generation >= lease.generation
        /\ lease'.owner \in {w, NoWorker}
        /\ \/ lease'.generation > lease.generation
           \/ lease'.generation = lease.generation /\ lease.owner = w
    BY <1>1, <1>3, GrantTeaches DEF Generations
  <2>2. QED
    BY <1>a, <1>1, <1>3, <2>1, WorkersAssumption DEF Requested
<1>4. ASSUME NEW w \in Workers, Commit(w) PROVE Requested'
  <2>1. call[w] \in CallType /\ request' = request
    BY <1>4 DEF TypeOK, Commit
  <2>2. QED
    BY <1>2, <1>3, <1>4, <2>1 DEF Commit
<1>5. ASSUME NEW o \in late, LateCommit(o) PROVE Requested'
  <2>1. o.call \in CallType /\ o.worker \in Workers /\ request' = request
    BY <1>5 DEF TypeOK, OrphanType, LateCommit
  <2>2. QED
    BY <1>2, <1>3, <1>5, <2>1 DEF LateCommit
<1>6. QED
  BY <1>2, <1>4, <1>5, OnlyCommitsTeach DEF Unlearned

\* A worker the step leaves alone is as far with its request as before.
LEMMA UndisturbedAnswers ==
  ASSUME TypeOK, RequestsKept, NEW v \in Workers, Answers(v), Undisturbed(v)
  PROVE  Answers(v)'
<1>1. handoff[v].id \in {0} \cup Requests
  BY DEF TypeOK, HandoffType
<1>2. CASE handoff'[v].id = 0
  BY <1>2 DEF Answers, Undisturbed, Answering
<1>3. CASE handoff'[v].id # 0
  <2>1. handoff'[v] = handoff[v] /\ handoff[v].id \in Requests
    BY <1>1, <1>3 DEF Undisturbed, NoHandoff
  <2>2. CASE pc'[v] \notin Answering
    BY <2>1, <2>2 DEF Answers, RequestsKept, Answering, Underway, At
  <2>3. CASE pc'[v] \in Answering
    BY <2>1, <2>3 DEF Answers, RequestsKept, Undisturbed, Answering, Underway, At
  <2>4. QED
    BY <2>2, <2>3
<1>4. QED
  BY <1>2, <1>3

\* Reading the requests gives nothing, or a request that is still open.
LEMMA ReadsOpen ==
  ASSUME TypeOK, NEW w \in Workers, ReadHandoff(w)
  PROVE  LET r == handoff'[w].id
         IN r # 0 => /\ r \in Requests
                     /\ request'[r].status \in OpenStates
                     /\ handoff'[w].status = request'[r].status
<1>1. handoff \in [Workers -> HandoffType]
  BY DEF TypeOK
<1>2. PICK h \in ActiveHandoff(Swept) : handoff'[w] = h
  BY <1>1 DEF ReadHandoff
<1>3. request' = Swept
  BY DEF ReadHandoff
<1>4. QED
  BY <1>2, <1>3 DEF ActiveHandoff, NoHandoff, IsOpen

\* Every worker stays as far with its request as its await says.
LEMMA AnswersStep ==
  ASSUME TypeOK, Placed, Generations, Handoffs, Requested', RequestsKept, [Next]_vars
  PROVE  \A v \in Workers : Answers(v)'
<1> /\ pc \in [Workers -> Phases] /\ call \in [Workers -> CallType]
    /\ generation \in [Workers -> Nat] /\ started \in [Workers -> BOOLEAN]
    /\ handoff \in [Workers -> HandoffType] /\ request \in [Requests -> RequestType]
    /\ 0 \notin Requests
  BY BoundsAssumption DEF TypeOK, Requests
<1> \A v \in Workers : handoff[v].id \in {0} \cup Requests
  BY DEF HandoffType
<1> \A v \in Workers : Answers(v)
  BY DEF Handoffs
<1> USE DEF Answering, Underway, At
<1>1. ASSUME NEW w \in Workers, \A v \in Workers \ {w} : Undisturbed(v),
             Undisturbed(w) \/ Answers(w)'
      PROVE  \A v \in Workers : Answers(v)'
  BY <1>1, UndisturbedAnswers
<1>2. CASE Quiet
  BY <1>2, UndisturbedAnswers DEF Quiet
<1>3. ASSUME NEW w \in Workers, PollHandoff(w) \/ BeginChecks(w)
      PROVE  \A v \in Workers : Answers(v)'
  <2>1. ReadHandoff(w) /\ pc'[w] \in {"electing", "checking"}
    BY <1>3 DEF PollHandoff, BeginChecks, Goto
  <2>2. \A v \in Workers \ {w} : Undisturbed(v)
    BY <1>3, <2>1
    DEF PollHandoff, BeginChecks, Goto, ReadHandoff, supervisor, Undisturbed
  <2>3. Answers(w)'
    BY <2>1, ReadsOpen DEF Answers, Answered, OpenStates
  <2>4. QED
    BY <1>1, <2>2, <2>3
<1>4. ASSUME NEW w \in Workers,
             \/ GiveUp(w) \/ RejectTarget(w) \/ CompleteHandoff(w)
             \/ RejectHandoff(w) \/ FailConnectHandoff(w) \/ ChecksFail(w) \/ Crash(w)
      PROVE  \A v \in Workers : Answers(v)'
  <2>1. \A v \in Workers : Undisturbed(v)
    BY <1>4
    DEF GiveUp, RejectTarget, CompleteHandoff, RejectHandoff, FailConnectHandoff,
        ChecksFail, Crash, Goto, supervisor, Undisturbed
  <2>2. QED
    BY <2>1, UndisturbedAnswers
<1>5. ASSUME NEW w \in Workers, ElectOpenly(w)
      PROVE  \A v \in Workers : Answers(v)'
  <2>1. \A v \in Workers \ {w} : Undisturbed(v)
    BY <1>5 DEF ElectOpenly, Goto, Send, supervisor, control, Undisturbed
  <2>2. handoff'[w].id = 0 /\ pc'[w] = "acquiring"
    BY <1>5 DEF ElectOpenly, Goto, control
  <2>3. QED
    BY <1>1, <2>1, <2>2 DEF Answers
<1>6. ASSUME NEW w \in Workers, ElectTarget(w)
      PROVE  \A v \in Workers : Answers(v)'
  <2>1. \A v \in Workers \ {w} : Undisturbed(v)
    BY <1>6 DEF ElectTarget, Goto, supervisor, control, Undisturbed
  <2>2. /\ handoff' = handoff /\ pc'[w] = "preparing" /\ request' = request
        /\ request[handoff[w].id].target = w
    BY <1>6 DEF ElectTarget, Goto, control, database
  <2>3. Answers(w)'
    BY <2>2 DEF Answers
  <2>4. QED
    BY <1>1, <2>1, <2>3
<1>7. ASSUME NEW w \in Workers, AcceptTarget(w)
      PROVE  \A v \in Workers : Answers(v)'
  <2>1. \A v \in Workers \ {w} : Undisturbed(v)
    BY <1>7 DEF AcceptTarget, Goto, Send, supervisor, Undisturbed
  <2>2. CASE pc'[w] = "idle"
    <3>1. Undisturbed(w)
      BY <1>7, <2>2 DEF AcceptTarget, Goto, Undisturbed
    <3>2. QED
      BY <1>1, <2>1, <3>1
  <2>3. CASE pc'[w] # "idle"
    <3> DEFINE r == handoff[w].id
    <3>1. /\ handoff' = handoff /\ pc'[w] = "acquiring" /\ call'[w].st = "sent"
          /\ pc[w] = "preparing"
          /\ handoff[w].status = "in_progress" \/ request'[r].status = "in_progress"
      BY <1>7, <2>3 DEF AcceptTarget, Goto, Send, NewCall
    <3>2. ASSUME r # 0
          PROVE  /\ request'[r].status # "none" /\ request'[r].target = w
                 /\ request'[r].status \in Answered
      <4>1. r \in Requests
        BY <3>2
      <4>2. QED
        BY <3>1, <3>2, <4>1 DEF Answers, RequestsKept, Answered
    <3>3. Answers(w)'
      BY <3>1, <3>2 DEF Answers
    <3>4. QED
      BY <1>1, <2>1, <3>3
  <2>4. QED
    BY <2>2, <2>3
<1>8. ASSUME NEW w \in Workers, Acquired(w) \/ StartSession(w) \/ Connected(w)
      PROVE  \A v \in Workers : Answers(v)'
  <2>1. handoff' = handoff /\ (request' = request \/ Connected(w))
    BY <1>8 DEF Acquired, StartSession, Connected, database, control
  <2>2. \A v \in Workers \ {w} : Undisturbed(v)
    BY <1>8
    DEF Acquired, StartSession, Connected, Goto, Relinquish, supervisor, control, Undisturbed
  <2>3. CASE Acquired(w)
    <3>1. /\ pc[w] = "acquiring" /\ call[w].st = "granted" /\ pc'[w] = "announcing"
          /\ generation'[w] = call[w].gen /\ request' = request
      BY <2>3 DEF Acquired, Goto, database
    <3>2. Answers(w)'
      BY <2>1, <3>1 DEF Answers
    <3>3. QED
      BY <1>1, <2>2, <3>2
  <2>4. CASE StartSession(w)
    <3>1. /\ pc[w] = "announcing" /\ pc'[w] \in {"connecting", "closing"}
          /\ generation'[w] = generation[w] /\ started'[w] /\ request' = request
      BY <2>4 DEF StartSession, Goto, Relinquish, database
    <3>2. Answers(w)'
      BY <2>1, <3>1 DEF Answers
    <3>3. QED
      BY <1>1, <2>2, <3>2
  <2>5. CASE Connected(w)
    <3>1. /\ pc[w] = "connecting" /\ pc'[w] = "completing"
          /\ generation' = generation /\ started' = started /\ request' = Led(w)
      BY <2>5 DEF Connected, Goto, supervisor
    <3>2. ASSUME handoff[w].id # 0
          PROVE  LET r == handoff[w].id
                 IN /\ request'[r].led /\ request'[r].target = w
                    /\ request'[r].status = request[r].status
                    /\ request'[r].expected = request[r].expected
      <4> DEFINE r == handoff[w].id
      <4>1. /\ r \in Requests /\ request[r].status # "none" /\ request[r].target = w
            /\ generation[w] > request[r].expected
        BY <3>1, <3>2 DEF Answers
      <4>2. request'[r] = [request[r] EXCEPT !.led = TRUE]
        BY <3>1, <4>1 DEF Led
      <4>3. request[r] \in RequestType
        BY <4>1
      <4>4. QED
        BY <4>1, <4>2, <4>3 DEF RequestType
    <3>3. Answers(w)'
      BY <2>1, <3>1, <3>2 DEF Answers
    <3>4. QED
      BY <1>1, <2>2, <3>3
  <2>6. QED
    BY <1>8, <2>3, <2>4, <2>5
<1>9. ASSUME NEW w \in Workers, Commit(w)
      PROVE  \A v \in Workers : Answers(v)'
  <2>1. /\ request' = request /\ handoff' = handoff /\ pc' = pc
        /\ generation' = generation /\ started' = started
    BY <1>9 DEF Commit, supervisor, control
  <2>2. \A v \in Workers \ {w} : Undisturbed(v)
    BY <1>9, <2>1 DEF Commit, Undisturbed
  <2>3. CASE pc[w] # "acquiring" \/ ~Granted(w, call[w])
    <3>1. Undisturbed(w)
      BY <1>9, <2>1, <2>3 DEF Commit, Refusal, Undisturbed
    <3>2. QED
      BY <1>1, <2>2, <3>1
  <2>4. CASE pc[w] = "acquiring" /\ Granted(w, call[w])
    <3>1. /\ lease' = Written(w, call[w]) /\ call[w].op = "acquire"
          /\ call'[w].gen = lease'.generation /\ lease'.owner = w
      <4>1. /\ lease' = Written(w, call[w]) /\ call[w].op = "acquire"
            /\ call'[w].gen = lease'.generation
        BY <1>9, <2>4 DEF Commit, Grant, Placed
      <4>2. lease'.owner = w
        BY <2>4, <4>1, GrantTeaches DEF Generations, TypeOK
      <4>3. QED
        BY <4>1, <4>2
    <3>2. Answers(w)'
      BY <2>1, <2>4, <3>1 DEF Answers, Requested
    <3>3. QED
      BY <1>1, <2>2, <3>2
  <2>5. QED
    BY <2>3, <2>4
<1>10. ASSUME NEW r \in Requests,
              \/ LapseRequest(r) \/ \E t \in Workers : CreateRequest(r, t)
              \/ \E u \in request[r].late : LateUpdate(r, u)
       PROVE  \A v \in Workers : Answers(v)'
  <2>1. \A v \in Workers : Undisturbed(v)
    BY <1>10 DEF LapseRequest, CreateRequest, LateUpdate, supervisor, control, Undisturbed
  <2>2. QED
    BY <2>1, UndisturbedAnswers
<1>11. QED
  BY <1>2, <1>3, <1>4, <1>5, <1>6, <1>7, <1>8, <1>9, <1>10, OthersAreQuiet DEF Serves

\* A request is completed only after its target acknowledged it and, under a
\* generation granted later, connected to Discord: whatever is lost, late or
\* crashed, also the completion itself, and however many requests are made,
\* expire or fail.
THEOREM HandoffsMoveLeadership == Spec => CompletionMovesLeadership
<1> DEFINE Inv == TypeOK /\ Placed /\ Generations /\ Handoffs
<1>1. Init => Handoffs
  BY DEF Init, Handoffs, Requested, Answers, NoHandoff, At
<1>2. Init => Inv
  BY <1>1, InitTypeOK, InitPlaced, InitGenerations
<1>3. ASSUME Inv, [Next]_vars
      PROVE  Inv'
  <2>1. RequestsKept
    BY <1>3, RequestsStep
  <2>2. Requested'
    BY <1>3, <2>1, RequestedStep
  <2>3. \A v \in Workers : Answers(v)'
    BY <1>3, <2>1, <2>2, AnswersStep
  <2>4. QED
    BY <1>3, <2>2, <2>3, TypeStep, PlacedStep, GenerationsStep DEF Handoffs
<1>4. ASSUME Inv, [Next]_vars, NEW r \in Requests,
             request'[r].status = "completed", request[r].status # "completed"
      PROVE  /\ request[r].status = "in_progress" /\ request[r].led
             /\ \/ "complete" \in request[r].late
                \/ /\ generation[request[r].target] > request[r].expected
                   /\ started[request[r].target]
  <2>1. RequestsKept /\ r # 0
    BY <1>4, RequestsStep, BoundsAssumption DEF Requests
  <2>2. CASE "complete" \in request[r].late
    BY <1>4, <2>1, <2>2
    DEF RequestsKept, Handoffs, Requested, IsOpen, OpenStates, Answered, ClosedStates
  <2>3. ASSUME NEW w \in Workers, At(w, "completing"), handoff[w].id = r
        PROVE  /\ request[r].status = "in_progress" /\ request[r].led
               /\ generation[request[r].target] > request[r].expected
               /\ started[request[r].target]
    <3>1. Answers(w) /\ IsOpen(request[r])
      BY <1>4, <2>1 DEF Handoffs, RequestsKept
    <3>2. QED
      BY <2>1, <2>3, <3>1
      DEF Answers, Answering, Underway, At, IsOpen, OpenStates, Answered, ClosedStates
  <2>4. QED
    BY <1>4, <2>1, <2>2, <2>3 DEF RequestsKept
<1>5. Inv /\ [Next]_vars =>
        [\A r \in Requests :
           request'[r].status = "completed" /\ request[r].status # "completed" =>
             /\ request[r].status = "in_progress" /\ request[r].led
             /\ \/ "complete" \in request[r].late
                \/ /\ generation[request[r].target] > request[r].expected
                   /\ started[request[r].target]]_vars
  BY <1>4
<1>6. QED
  BY <1>2, <1>3, <1>5, PTL DEF Spec, CompletionMovesLeadership
=============================================================================
