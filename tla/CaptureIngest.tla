----------------------------- MODULE CaptureIngest -----------------------------
(***************************************************************************)
(* What the upload of capture bundles promises, however often a bundle is   *)
(* sent: its session is stored once, under one job and for good; fusion is  *)
(* asked for once, and only for a stored session; and a bundle is confirmed *)
(* to its user only when its session is stored under its own job.           *)
(***************************************************************************)
EXTENDS Naturals

CONSTANTS Uploads, SessionIds, JobOf, SessionOf, NoJob

VARIABLES
  row,       \* the job under which each session is stored
  enqueued,  \* FusionJobs asked for, of each session
  confirmed  \* bundles whose user knows that they arrived

Init ==
  /\ row = [s \in SessionIds |-> NoJob]
  /\ enqueued = [s \in SessionIds |-> 0]
  /\ confirmed = {}

Store(u) ==
  /\ row[SessionOf[u]] = NoJob
  /\ row' = [row EXCEPT ![SessionOf[u]] = JobOf[u]]
  /\ UNCHANGED <<enqueued, confirmed>>

AskForFusion(u) ==
  /\ row[SessionOf[u]] = JobOf[u] /\ enqueued[SessionOf[u]] = 0
  /\ enqueued' = [enqueued EXCEPT ![SessionOf[u]] = 1]
  /\ UNCHANGED <<row, confirmed>>

Confirm(u) ==
  /\ row[SessionOf[u]] = JobOf[u]
  /\ confirmed' = confirmed \cup {u}
  /\ UNCHANGED <<row, enqueued>>

Next == \E u \in Uploads : Store(u) \/ AskForFusion(u) \/ Confirm(u)

Spec == Init /\ [][Next]_<<row, enqueued, confirmed>>
=============================================================================
