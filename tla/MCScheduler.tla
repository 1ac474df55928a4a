---------------------------- MODULE MCScheduler ----------------------------
(* Small instances of Scheduler.  Jobs, workers, NoJob and NoPeer are model *)
(* values of the .cfg files; what the instances share is named here.        *)
EXTENDS Scheduler

AllFaults == {"db", "fs", "net", "master", "worker"}
NoFaults == {}
NoOne == {}
=============================================================================
