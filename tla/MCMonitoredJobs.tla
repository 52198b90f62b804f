--------------------------- MODULE MCMonitoredJobs ---------------------------
(* MonitoredJobs for TLC. *)
EXTENDS MonitoredJobs, TLC

Symmetry == Permutations(Job)
=============================================================================
