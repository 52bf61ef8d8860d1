-------------------------- MODULE MCKeeperRateGate --------------------------
(* Model values and bounds for checking KeeperRateGate with TLC.             *)
EXTENDS KeeperRateGate

Row(lane, worker) == [lane |-> lane, worker |-> worker]

MCDirect     == {Row("bulk", 1), Row("bulk", 2), Row("direct", 1)}
MCLanes      == {Row("bulk", 1), Row("bulk", 2), Row("fast", 1), Row("lifecycle", 1)}

\* One tick is about one second: 0.33, 0.23, 0.10 and 0.23 requests a second.
MCGap == [k \in Gates |-> CASE k = "keeper" -> 3 [] k = "fast" -> 10 [] OTHER -> 4]
=============================================================================
