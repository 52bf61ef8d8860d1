------------------------- MODULE MCServerLifecycle -------------------------
(* Model values and bounds for checking ServerLifecycle with TLC.            *)
EXTENDS ServerLifecycle

\* Every worker's clock agrees with the database, or the lanes' are
\* one tick behind and the commands' one ahead.
MCNoSkew == [f \in Tasks |-> 0]
MCSkew == [f \in Tasks |-> IF f \in Lanes THEN -1 ELSE IF f \in Commands THEN 1 ELSE 0]
=============================================================================
