---------------------------- MODULE MCMonitorCycle ----------------------------
(* Model values and bounds for checking MonitorCycle with TLC.               *)
EXTENDS MonitorCycle

\* Every worker's clock agrees with the database.
MCNoSkew == [f \in Tasks |-> 0]

\* The probers' run one tick ahead.
MCSkew == [f \in Tasks |-> IF f \in Probers THEN 1 ELSE 0]

\* A console server differs in the probe of a retired row, which comes too late here.
PCInit == CycleInit /\ ~server.console
PCSpec == PCInit /\ [][CycleNext]_all
=============================================================================
