-------------------------- MODULE MCScheduledTask ---------------------------
(* Two agent processes, one of which runs two overlapping scans.            *)
EXTENDS ScheduledTask

CONSTANTS a1, a2, s1, s2, s3, t1, t2

MCNodeOf == [m \in Machines |-> IF m = a1 THEN 3 ELSE 4]
MCMachineOf == [s \in Scans |-> IF s = s3 THEN a2 ELSE a1]
=============================================================================
