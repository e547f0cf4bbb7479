----------------------------- MODULE CaptureFusion -----------------------------
(***************************************************************************)
(* FusionJob and FusionOrchestrator on one job: each capture session of the *)
(* job refines the latest measurement by a new, fused row.  Deliveries of   *)
(* FusionJob overlap, retry and are shut down like those of GeometryJob;    *)
(* the pipeline may commit its own rows at any time.                        *)
(*                                                                         *)
(* A delivery reads the latest measurement twice (the already-fused check,  *)
(* then the prior it refines), holds the prior across the sidecar call and  *)
(* writes the prior's warnings back from that copy.                         *)
(***************************************************************************)
EXTENDS Integers, Sequences, FiniteSets

CONSTANTS
  Deliveries,       \* deliveries of FusionJob for this job
  Sessions,         \* its capture sessions
  SessionOf,        \* the session each delivery is about
  NoSession,        \* of a pipeline row
  Rmses,            \* ICP residuals (mm) the instance considers
  PriorConfidence,  \* of a pipeline measurement, in 1/10000
  CaptureAnyTime,   \* a bundle may arrive before the first measurement
  MaxAttempts,      \* FusionJob::MAX_ATTEMPTS
  MaxPipelineRows,  \* bound: measurements the pipeline commits
  MaxReleases,      \* bound: graceful worker shutdowns
  Faults            \* which environment faults an instance considers

Confidences == 0..10000 \* a confidence in 1/10000

ASSUME SessionsAssumption ==
  /\ SessionOf \in [Deliveries -> Sessions]
  /\ NoSession \notin Sessions
ASSUME NumbersAssumption ==
  /\ Rmses \subseteq Nat
  /\ PriorConfidence \in Confidences
  /\ CaptureAnyTime \in BOOLEAN
ASSUME BoundsAssumption ==
  /\ MaxAttempts \in Nat \ {0}
  /\ MaxPipelineRows \in Nat
  /\ MaxReleases \in Nat
ASSUME FaultsAssumption == Faults \subseteq {"broadcast", "kill"}

VARIABLES
  rows,        \* measurements of the job, oldest generated_at first
  crashNote,   \* jobs.last_error holds a fusion crash
  shown,       \* state in the last fusion-status broadcast
  projections, \* ProjectionJobs enqueued
  releases,    \* graceful shutdowns so far
  pc,          \* where each delivery is
  prior,       \* index of the row it loaded to refine, 0 for none
  known,       \* that row's warnings as it loaded them
  attempts     \* executions recorded with the queued delivery

vars == <<rows, crashNote, shown, projections, releases, pc, prior, known, attempts>>

-----------------------------------------------------------------------------
IcpFailThreshold == 500  \* mm

Warnings == {"icp_skipped", "icp_alignment_failed", "fusion_failed", "fusion_job_exhausted"}
Row == [source : {"pipeline", "fused"}, lidar : BOOLEAN, confidence : Confidences,
        base : Nat, session : Sessions \cup {NoSession}, warnings : SUBSET Warnings]
Ended == {"done", "exhausted"}
Idle == {"none", "queued", "lost"} \cup Ended
PC == Idle \cup {"checked", "skipping", "fusing", "announcing", "enqueueing",
                 "rescue", "raised"}

TypeOK ==
  /\ rows \in Seq(Row)
  /\ crashNote \in BOOLEAN
  /\ shown \in {"nothing", "started", "failed", "complete"}
  /\ projections \in Nat
  /\ releases \in Nat
  /\ pc \in [Deliveries -> PC]
  /\ prior \in [Deliveries -> Nat]
  /\ known \in [Deliveries -> SUBSET Warnings]
  /\ attempts \in [Deliveries -> Nat]

Init ==
  /\ rows = << >> /\ crashNote = FALSE /\ shown = "nothing"
  /\ projections = 0 /\ releases = 0
  /\ pc = [d \in Deliveries |-> "none"]
  /\ prior = [d \in Deliveries |-> 0]
  /\ known = [d \in Deliveries |-> {}]
  /\ attempts = [d \in Deliveries |-> 0]

-----------------------------------------------------------------------------
Goto(d, p) == pc' = [pc EXCEPT ![d] = p]
Latest == rows[Len(rows)]
\* Faulty variant: the check is missing.
AlreadyFusedUnchecked == FALSE

AlreadyFused == rows # << >> /\ Latest.source = "fused"

\* A broadcast either reaches the stream or raises into FusionJob's rescue.
BroadcastThen(d, state, next) ==
  \/ shown' = state /\ Goto(d, next)
  \/ "broadcast" \in Faults /\ UNCHANGED shown /\ Goto(d, "rescue")

\* Faulty variant: the new warning takes the place of the old ones.
ReplaceWarnings(i, have, message) ==
  rows' = IF i = 0 \/ message \in have THEN rows
          ELSE [rows EXCEPT ![i].warnings = {message}]

\* Adds a warning to row i, whose warnings the caller last saw as have.
AppendFailureWarning(i, have, message) ==
  rows' = IF i = 0 \/ message \in have THEN rows
          ELSE [rows EXCEPT ![i].warnings = have \cup {message}]

\* Faulty variant: no clamp.
FusedConfidenceUnclamped(confidence, rmse) ==
  confidence + 500 + (IF rmse < 500 THEN 500 - rmse ELSE 0)

\* 0.05 for fusing, up to 0.05 more for a tight alignment, within [prior, 1].
FusedConfidence(confidence, rmse) ==
  LET bonus == IF rmse < 500 THEN 500 - rmse ELSE 0
      sum   == confidence + 500 + bonus
  IN  IF sum > 10000 THEN 10000 ELSE sum

\* Faulty variant: the latest row is read again after the sidecar call.
FusedRowOfLatest(d, rmse) ==
  [source |-> "fused", lidar |-> Latest.lidar,
   confidence |-> FusedConfidence(Latest.confidence, rmse),
   base |-> Len(rows), session |-> SessionOf[d], warnings |-> {}]

FusedRow(d, rmse) ==
  [source |-> "fused", lidar |-> rows[prior[d]].lidar,
   confidence |-> FusedConfidence(rows[prior[d]].confidence, rmse),
   base |-> prior[d], session |-> SessionOf[d], warnings |-> {}]

-----------------------------------------------------------------------------
(* FusionJob#perform and FusionOrchestrator#call. *)

Perform(d) ==
  /\ pc[d] = "queued"
  /\ Goto(d, IF AlreadyFused THEN "done" ELSE "checked")
  /\ UNCHANGED <<rows, crashNote, shown, projections, releases, prior, known, attempts>>

LoadPrior(d) ==
  /\ pc[d] = "checked"
  /\ prior' = [prior EXCEPT ![d] = Len(rows)]
  /\ known' = [known EXCEPT ![d] = IF rows = << >> THEN {} ELSE Latest.warnings]
  /\ IF rows # << >> /\ Latest.lidar
       THEN BroadcastThen(d, "started", "fusing")
       ELSE Goto(d, "skipping") /\ UNCHANGED shown
  /\ UNCHANGED <<rows, crashNote, projections, releases, attempts>>

\* Faulty variant: no warning.
SkipSilently(d) ==
  /\ pc[d] = "skipping"
  /\ BroadcastThen(d, "failed", "done")
  /\ UNCHANGED <<rows, crashNote, projections, releases, prior, known, attempts>>

\* Without a prior the warning goes to whatever row is the latest by now.
Skip(d) ==
  /\ pc[d] = "skipping"
  /\ IF prior[d] = 0 /\ rows # << >>
       THEN AppendFailureWarning(Len(rows), Latest.warnings, "icp_skipped")
       ELSE AppendFailureWarning(prior[d], known[d], "icp_skipped")
  /\ BroadcastThen(d, "failed", "done")
  /\ UNCHANGED <<crashNote, projections, releases, prior, known, attempts>>

\* No measurement, no residual, or one at the threshold.
Diverge(d) ==
  /\ pc[d] = "fusing"
  /\ AppendFailureWarning(prior[d], known[d], "icp_alignment_failed")
  /\ BroadcastThen(d, "failed", "done")
  /\ UNCHANGED <<crashNote, projections, releases, prior, known, attempts>>

SidecarError(d) ==
  /\ pc[d] = "fusing"
  /\ AppendFailureWarning(prior[d], known[d], "fusion_failed")
  /\ BroadcastThen(d, "failed", "rescue")
  /\ UNCHANGED <<crashNote, projections, releases, prior, known, attempts>>

PersistFused(d) ==
  /\ pc[d] = "fusing"
  /\ \E rmse \in Rmses :
       /\ rmse < IcpFailThreshold
       /\ rows' = Append(rows, FusedRow(d, rmse))
  /\ Goto(d, "announcing")
  /\ UNCHANGED <<crashNote, shown, projections, releases, prior, known, attempts>>

Announce(d) ==
  /\ pc[d] = "announcing"
  /\ BroadcastThen(d, "complete", "enqueueing")
  /\ UNCHANGED <<rows, crashNote, projections, releases, prior, known, attempts>>

EnqueueProjection(d) ==
  /\ pc[d] = "enqueueing"
  /\ projections' = projections + 1
  /\ Goto(d, "done")
  /\ UNCHANGED <<rows, crashNote, shown, releases, prior, known, attempts>>

-----------------------------------------------------------------------------
(* Failures: anything that is not a sidecar error skips the orchestrator's  *)
(* own rescue.                                                              *)

UnexpectedError(d) ==
  /\ pc[d] \in {"checked", "fusing"}
  /\ Goto(d, "rescue")
  /\ UNCHANGED <<rows, crashNote, shown, projections, releases, prior, known, attempts>>

LastAttempt(d) == attempts[d] + 1 >= MaxAttempts

Rescue(d) ==
  /\ pc[d] = "rescue"
  /\ IF LastAttempt(d)
       THEN /\ AppendFailureWarning(Len(rows), IF rows = << >> THEN {} ELSE Latest.warnings,
                                    "fusion_job_exhausted")
            /\ UNCHANGED crashNote
       ELSE crashNote' = TRUE /\ UNCHANGED rows
  /\ Goto(d, "raised")
  /\ UNCHANGED <<shown, projections, releases, prior, known, attempts>>

\* Faulty variant: the counter is not recorded with the queued delivery.
RetryForever(d) ==
  /\ pc[d] = "raised"
  /\ Goto(d, "queued")
  /\ UNCHANGED <<rows, crashNote, shown, projections, releases, prior, known, attempts>>

RetryOrGiveUp(d) ==
  /\ pc[d] = "raised"
  /\ IF LastAttempt(d)
       THEN Goto(d, "exhausted") /\ UNCHANGED attempts
       ELSE Goto(d, "queued") /\ attempts' = [attempts EXCEPT ![d] = @ + 1]
  /\ UNCHANGED <<rows, crashNote, shown, projections, releases, prior, known>>

-----------------------------------------------------------------------------
(* The environment. *)

\* The capture endpoint enqueues a FusionJob, or the queue repeats one.
Enqueue(d) ==
  /\ pc[d] = "none"
  /\ CaptureAnyTime \/ rows # << >>
  /\ Goto(d, "queued")
  /\ UNCHANGED <<rows, crashNote, shown, projections, releases, prior, known, attempts>>

PipelineCommits ==
  /\ Cardinality({i \in 1..Len(rows) : rows[i].source = "pipeline"}) < MaxPipelineRows
  /\ \E lidar \in BOOLEAN :
       rows' = Append(rows, [source |-> "pipeline", lidar |-> lidar,
                             confidence |-> PriorConfidence, base |-> 0,
                             session |-> NoSession, warnings |-> {}])
  /\ UNCHANGED <<crashNote, shown, projections, releases, pc, prior, known, attempts>>

Release(d) ==
  /\ pc[d] \notin Idle
  /\ releases < MaxReleases
  /\ releases' = releases + 1
  /\ Goto(d, "queued")
  /\ UNCHANGED <<rows, crashNote, shown, projections, prior, known, attempts>>

Kill(d) ==
  /\ "kill" \in Faults
  /\ pc[d] \notin Idle
  /\ Goto(d, "lost")
  /\ UNCHANGED <<rows, crashNote, shown, projections, releases, prior, known, attempts>>

-----------------------------------------------------------------------------
DeliveryStep(d) ==
  \/ Perform(d)      \/ LoadPrior(d)         \/ Skip(d)
  \/ Diverge(d)      \/ SidecarError(d)      \/ PersistFused(d)
  \/ Announce(d)     \/ EnqueueProjection(d)
  \/ UnexpectedError(d) \/ Rescue(d)         \/ RetryOrGiveUp(d)

Environment ==
  \/ PipelineCommits
  \/ \E d \in Deliveries : Enqueue(d) \/ Release(d) \/ Kill(d)

Next == (\E d \in Deliveries : DeliveryStep(d)) \/ Environment

Spec == Init /\ [][Next]_vars

\* fuse_capture has a client timeout, so a worker's delivery always goes on.
FairSpec == Spec /\ \A d \in Deliveries : WF_vars(DeliveryStep(d))
-----------------------------------------------------------------------------
(* Properties. *)

Fused(i) == rows[i].source = "fused"

\* A fused row refines an earlier row that has LiDAR, whatever became the
\* latest during the sidecar call, and is never less confident than it.
FusedRefinesLidar ==
  \A i \in 1..Len(rows) : Fused(i) =>
    /\ rows[i].base \in 1..(i - 1)
    /\ rows[rows[i].base].lidar
    /\ rows[rows[i].base].confidence <= rows[i].confidence

\* Retries and restarts do not fuse a session again, unless the pipeline
\* measured the roof anew in between (fusion_job.rb:29-31).
FusedOnce ==
  \A i, j \in 1..Len(rows) :
    i < j /\ Fused(i) /\ Fused(j) /\ rows[i].session = rows[j].session
      => \E k \in i..j : ~Fused(k)

\* A capture never vanishes: a delivery that ended left a fused measurement of
\* its session or a warning (fusion_orchestrator.rb:13-15).
EndsVisibly ==
  \A d \in Deliveries : pc[d] \in Ended =>
    \E i \in 1..Len(rows) :
      rows[i].warnings # {} \/ (Fused(i) /\ rows[i].session = SessionOf[d])

\* A delivery skipped because the newest row is fused has nothing left to do:
\* its own session is fused already (fusion_job.rb:29-30).
SkippedMeansDone ==
  [][\A d \in Deliveries : pc[d] = "queued" /\ pc'[d] = "done" =>
       \E i \in 1..Len(rows) : Fused(i) /\ rows[i].session = SessionOf[d]]_vars

\* The rows as MeasurementTable: whatever a delivery held across its sidecar call, it
\* adds a row or a warning, and with one delivery it takes no warning away.
Table == INSTANCE MeasurementTable WITH
  table       <- rows,
  Overlapping <- \E d, e \in Deliveries : d # e
ImplementsTable == Table!Spec

\* Every queued delivery ends, whatever fails.
EveryDeliveryEnds == \A d \in Deliveries : pc[d] = "queued" ~> pc[d] \in Ended
=============================================================================
