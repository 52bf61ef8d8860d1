---------------------------- MODULE ClusterLease ----------------------------
(***************************************************************************)
(* One row of the cluster_leases table and the three transactions that     *)
(* change it: acquire_lease, renew_lease and release_lease.  Each locks    *)
(* the row (SELECT ... FOR UPDATE), so it is one atomic step.              *)
(*                                                                         *)
(* Times are relative to the present of the database: row.left is          *)
(* expires_at minus the real present, floored at -TTL.  A transaction      *)
(* does not use the real present: func.now() is the time its transaction   *)
(* BEGAN, which is lag ticks earlier when it had to wait for the row.      *)
(***************************************************************************)
EXTENDS Integers

CONSTANTS
  Workers,   \* worker ids of the cluster
  NoWorker,  \* a NULL owner_worker_id
  TTL        \* discord.lease_ttl_seconds, in ticks

ASSUME WorkersAssumption == NoWorker \notin Workers
ASSUME TTLAssumption == TTL \in Nat \ {0}

LeaseRow == [owner : Workers \cup {NoWorker}, generation : Nat, left : (-TTL)..TTL]

\* A generation of 0 is a row that was never inserted.
NoLeaseRow == [owner |-> NoWorker, generation |-> 0, left |-> -TTL]

\* expires_at <= db_now, where db_now is lag ticks before the present.
Lapsed(row, lag) == row.left <= -lag

\* The row a successful acquire or renew writes: expires_at = db_now + ttl.
Lease(w, g, lag) == [owner |-> w, generation |-> g, left |-> TTL - lag]

\* Mutant: a lease about to expire can be taken over.
AcquireGrantedEarly(row, w, lag) ==
  row.owner \in {w, NoWorker} \/ row.left <= 1 - lag

AcquireGranted(row, w, lag) == row.owner \in {w, NoWorker} \/ Lapsed(row, lag)

\* Mutant: a takeover keeps the generation of the owner it replaces.
AcquiredRowUnfenced(row, w, lag) ==
  Lease(w, IF row.generation = 0 THEN 1 ELSE row.generation, lag)

\* An owner that still holds the row renews it; everybody else opens a new
\* generation.
AcquiredRow(row, w, lag) ==
  IF row.owner = w /\ ~Lapsed(row, lag)
  THEN Lease(w, row.generation, lag)
  ELSE Lease(w, row.generation + 1, lag)

RenewGranted(row, w, g, lag) ==
  /\ row.owner = w
  /\ row.generation = g
  /\ ~Lapsed(row, lag)

RenewedRow(row, w, g, lag) == Lease(w, g, lag)

ReleaseGranted(row, w, g) == row.owner = w /\ row.generation = g

ReleasedRow(row, lag) ==
  [owner |-> NoWorker, generation |-> row.generation, left |-> -lag]

AgedRow(row) ==
  [row EXCEPT !.left = IF row.left > -TTL THEN row.left - 1 ELSE row.left]
=============================================================================
