---------------------------- MODULE MC_JobPipeline ----------------------------
(***************************************************************************)
(* Instances of JobPipeline for TLC.                                        *)
(***************************************************************************)
EXTENDS JobPipeline, TLC

CONSTANTS d1, d2, c1

NoFaults == {}
CommitKillFaults == {"commit", "kill"}
BroadcastReportFaults == {"broadcast", "report"}
CommitFault == {"commit"}
=============================================================================
