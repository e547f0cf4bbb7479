------------------------------ MODULE JobPipeline ------------------------------
(***************************************************************************)
(* One Job row driven by GeometryJob deliveries and the                     *)
(* MeasurementOrchestrator, on a queue that may deliver more than once.     *)
(*                                                                         *)
(* A run is one execution context: a delivery of GeometryJob on a worker    *)
(* thread, or a direct call of MeasurementOrchestrator.call (the validation *)
(* task, or a re-run after the inputs were edited).  Every run works on     *)
(* its own in-memory copy of the row (mem), loaded once by Job.find; the    *)
(* row itself (status) is shared.  An action ends where other runs can      *)
(* observe the row: at a committed write.                                   *)
(***************************************************************************)
EXTENDS Naturals, Sequences, FiniteSets

CONSTANTS
  Deliveries,   \* deliveries of GeometryJob for this job
  Original,     \* the delivery enqueued when the job was created
  Calls,        \* direct calls of MeasurementOrchestrator.call
  MaxRuns,      \* bound: how many of the runs take part in a behaviour
  MaxAttempts,  \* GeometryJob::MAX_ATTEMPTS
  MaxReleases,  \* bound: graceful worker shutdowns
  MaxEdits,     \* bound: edits of address / polygon_selection
  Faults        \* which environment faults an instance considers

Runs == Deliveries \cup Calls

ASSUME RunsAssumption ==
  /\ Original \in Deliveries
  /\ Deliveries \cap Calls = {}
ASSUME BoundsAssumption ==
  /\ MaxRuns \in Nat
  /\ MaxAttempts \in Nat \ {0}
  /\ MaxReleases \in Nat
  /\ MaxEdits \in Nat
ASSUME FaultsAssumption == Faults \subseteq {"broadcast", "commit", "report", "kill"}

VARIABLES
  status,       \* jobs.status
  lastError,    \* what kind of message jobs.last_error holds
  inputs,       \* version of jobs.address + jobs.polygon_selection
  measurements, \* measurements rows, oldest generated_at first
  recent,       \* the latest row is younger than IDEMPOTENCY_WINDOW
  report,       \* a reports row exists for the job
  shown,        \* status in the last Turbo broadcast
  releases,     \* graceful shutdowns so far
  pc,           \* where each run is; a stage name while its call is out
  mem,          \* status in the run's in-memory Job
  seen,         \* inputs version in the run's in-memory Job
  attempts,     \* executions recorded with the queued job
  lidar,        \* outcome of the run's ingest-lidar stage
  notes,        \* degradations the run will report as warnings
  vlm           \* the run's feature-detection thread, then its result

row    == <<status, lastError, inputs, measurements, recent, report>>
locals == <<seen, attempts, lidar, notes>>
vars   == <<row, shown, releases, pc, mem, locals, vlm>>

-----------------------------------------------------------------------------
Stages == {"resolving_address", "fetching_imagery", "detecting_features",
           "fetching_lidar", "refining_outline", "fitting_planes"}
Terminal == {"ready", "failed"}
Status == {"pending"} \cup Stages \cup Terminal
Idle == {"none", "queued", "done", "aborted", "exhausted", "lost"}
PC == Idle \cup Stages \cup
      {"lookup", "start", "joining", "persisting", "minting", "announcing",
       "rescue", "raised"}
Note == {"lidar", "outline", "vlm"}
Measurement == [inputs : Nat, source : {"fusion", "imagery"},
                notes : SUBSET Note, detected : BOOLEAN]

TypeOK ==
  /\ status \in Status
  /\ lastError \in {"none", "expected", "crashed", "gave_up"}
  /\ inputs \in Nat
  /\ measurements \in Seq(Measurement)
  /\ recent \in BOOLEAN
  /\ report \in BOOLEAN
  /\ shown \in Status
  /\ releases \in Nat
  /\ pc \in [Runs -> PC]
  /\ mem \in [Runs -> Status]
  /\ seen \in [Runs -> Nat]
  /\ attempts \in [Runs -> Nat]
  /\ lidar \in [Runs -> {"unknown", "available", "missing"}]
  /\ notes \in [Runs -> SUBSET Note]
  /\ vlm \in [Runs -> {"none", "running", "found", "failed"}]

\* The job was created and its GeometryJob enqueued.
Init ==
  /\ status = "pending" /\ lastError = "none" /\ inputs = 1
  /\ measurements = << >> /\ recent = FALSE /\ report = FALSE
  /\ shown = "pending" /\ releases = 0
  /\ pc = [r \in Runs |-> IF r = Original THEN "queued" ELSE "none"]
  /\ mem = [r \in Runs |-> "pending"]
  /\ seen = [r \in Runs |-> 1]
  /\ attempts = [r \in Runs |-> 0]
  /\ lidar = [r \in Runs |-> "unknown"]
  /\ notes = [r \in Runs |-> {}]
  /\ vlm = [r \in Runs |-> "none"]

-----------------------------------------------------------------------------
(* The Job model. *)

Goto(r, p) == pc' = [pc EXCEPT ![r] = p]

\* Active Record writes an attribute only when the in-memory copy changes.
UpdateStatus(r, s) ==
  /\ status' = IF mem[r] = s THEN status ELSE s
  /\ mem' = [mem EXCEPT ![r] = s]

\* The guard looks at the run's own copy, never at the row.
AdvanceTo(r, s) == mem[r] \notin Terminal /\ UpdateStatus(r, s)

\* Faulty variant: a status that is not in the enum.
FailWithUnknownStatus(r, message) == UpdateStatus(r, "error") /\ lastError' = message

FailWith(r, message) == UpdateStatus(r, "failed") /\ lastError' = message

BroadcastRaises == "broadcast" \in Faults /\ UNCHANGED shown

-----------------------------------------------------------------------------
(* Leaving the pipeline: run_pipeline's ensure kills the detection thread,  *)
(* then GeometryJob's rescue (or the direct caller) receives the error.     *)

\* Faulty variant: no ensure block.
CleanupForgotten(r) == UNCHANGED vlm

Cleanup(r) == vlm' = [vlm EXCEPT ![r] = "none"]

Unwind(r) ==
  /\ Goto(r, IF r \in Deliveries THEN "rescue" ELSE "aborted")
  /\ Cleanup(r)

EnterStage(r, s) ==
  /\ AdvanceTo(r, s)
  /\ \/ shown' = s /\ Goto(r, s) /\ UNCHANGED vlm
     \/ BroadcastRaises /\ Unwind(r)

-----------------------------------------------------------------------------
(* GeometryJob#perform and MeasurementOrchestrator#call, up to stage one.   *)

\* Faulty variant: the warnings buffer outlives the attempt.
FindJobKeepsWarnings(r) ==
  /\ mem' = [mem EXCEPT ![r] = status]
  /\ seen' = [seen EXCEPT ![r] = inputs]
  /\ lidar' = [lidar EXCEPT ![r] = "unknown"]
  /\ UNCHANGED <<row, shown, releases, attempts, vlm, notes>>

FindJob(r) ==
  /\ mem' = [mem EXCEPT ![r] = status]
  /\ seen' = [seen EXCEPT ![r] = inputs]
  /\ lidar' = [lidar EXCEPT ![r] = "unknown"]
  /\ notes' = [notes EXCEPT ![r] = {}]
  /\ UNCHANGED <<row, shown, releases, attempts, vlm>>

\* Faulty variant: no terminal guard.
PerformUnguarded(d) ==
  /\ d \in Deliveries /\ pc[d] = "queued"
  /\ FindJob(d)
  /\ Goto(d, "lookup")

Perform(d) ==
  /\ d \in Deliveries /\ pc[d] = "queued"
  /\ FindJob(d)
  /\ Goto(d, IF status \in Terminal THEN "done" ELSE "lookup")

\* Bound: another run may join those that did.
MayJoin(r) == pc[r] = "none" /\ Cardinality({q \in Runs : pc[q] # "none"}) < MaxRuns

CallDirectly(c) ==
  /\ c \in Calls /\ MayJoin(c)
  /\ FindJob(c)
  /\ Goto(c, "lookup")

\* Faulty variant: the fingerprint is not compared.
CacheHitAnyInputs(r) == measurements # << >> /\ recent

CacheHit(r) ==
  /\ measurements # << >>
  /\ recent
  /\ measurements[Len(measurements)].inputs = seen[r]

ReuseCached(r) ==
  /\ pc[r] = "lookup" /\ CacheHit(r)
  /\ \/ /\ mem[r] \in Terminal
        /\ Goto(r, "done")
        /\ UNCHANGED <<status, mem, shown, vlm>>
     \/ /\ AdvanceTo(r, "ready")
        /\ \/ shown' = "ready" /\ Goto(r, "done") /\ UNCHANGED vlm
           \/ BroadcastRaises /\ Unwind(r)
  /\ UNCHANGED <<lastError, inputs, measurements, recent, report, releases, locals>>

\* reset_for_rerun! is the one sanctioned way out of a terminal status.
StartPipeline(r) ==
  /\ pc[r] = "lookup" /\ ~CacheHit(r)
  /\ IF mem[r] \in Terminal
       THEN UpdateStatus(r, "pending")
       ELSE UNCHANGED <<status, mem>>
  /\ Goto(r, "start")
  /\ UNCHANGED <<lastError, inputs, measurements, recent, report, shown,
                 releases, locals, vlm>>

-----------------------------------------------------------------------------
(* The stages, in the order run_pipeline_stages calls them.  Each action    *)
(* takes the result of the call that is out and enters the next stage.      *)

UnchangedByStage == UNCHANGED <<lastError, inputs, measurements, recent, report,
                                releases, seen, attempts>>

ResolveAddress(r) ==
  /\ pc[r] = "start"
  /\ EnterStage(r, "resolving_address")
  /\ UnchangedByStage /\ UNCHANGED <<lidar, notes>>

RenderImagery(r) ==
  /\ pc[r] = "resolving_address"
  /\ EnterStage(r, "fetching_imagery")
  /\ UnchangedByStage /\ UNCHANGED <<lidar, notes>>

DetectFeatures(r) ==
  /\ pc[r] = "fetching_imagery"
  /\ EnterStage(r, "detecting_features")
  /\ UnchangedByStage /\ UNCHANGED <<lidar, notes>>

StartVlmAndIngestLidar(r) ==
  /\ pc[r] = "detecting_features"
  /\ AdvanceTo(r, "fetching_lidar")
  /\ \/ /\ shown' = "fetching_lidar"
        /\ Goto(r, "fetching_lidar")
        /\ vlm' = [vlm EXCEPT ![r] = "running"]
     \/ BroadcastRaises /\ Unwind(r)
  /\ UnchangedByStage /\ UNCHANGED <<lidar, notes>>

\* No coverage, a transport error and a timeout all count as missing.
RefineOutline(r) ==
  /\ pc[r] = "fetching_lidar"
  /\ \E outcome \in {"available", "missing"} :
       lidar' = [lidar EXCEPT ![r] = outcome]
  /\ EnterStage(r, "refining_outline")
  /\ UnchangedByStage /\ UNCHANGED notes

\* A failed refinement degrades to the prior outline; no LiDAR takes the
\* fallback measurement.  Either leaves a warning.
FitPlanes(r) ==
  /\ pc[r] = "refining_outline"
  /\ \E unrefined \in {{}, {"outline"}} :
       notes' = [notes EXCEPT ![r] = @ \cup unrefined \cup
                   (IF lidar[r] = "available" THEN {} ELSE {"lidar"})]
  /\ EnterStage(r, "fitting_planes")
  /\ UnchangedByStage /\ UNCHANGED lidar

GuardFacets(r) ==
  /\ pc[r] = "fitting_planes"
  /\ Goto(r, "joining")
  /\ UNCHANGED <<row, shown, releases, mem, locals, vlm>>

\* The detection thread returns or raises on its own time.
VlmReturns(r) ==
  /\ vlm[r] = "running"
  /\ \E result \in {"found", "failed"} : vlm' = [vlm EXCEPT ![r] = result]
  /\ UNCHANGED <<row, shown, releases, pc, mem, locals>>

\* A thread still running here is past its join timeout and is killed; only a
\* result that was found is kept.
JoinVlm(r) ==
  /\ pc[r] = "joining"
  /\ notes' = [notes EXCEPT ![r] = @ \cup (IF vlm[r] = "found" THEN {} ELSE {"vlm"})]
  /\ vlm' = [vlm EXCEPT ![r] = IF @ = "found" THEN "found" ELSE "none"]
  /\ Goto(r, "persisting")
  /\ UNCHANGED <<row, shown, releases, mem, seen, attempts, lidar>>

-----------------------------------------------------------------------------
(* persist: one transaction, then the report, then the broadcast.           *)

NewMeasurement(r) ==
  [inputs |-> seen[r],
   source |-> IF lidar[r] = "available" THEN "fusion" ELSE "imagery",
   notes |-> notes[r], detected |-> vlm[r] = "found"]

\* Faulty variants: the status without the row, and the row without the status.
PersistStatusOnly(r) ==
  /\ pc[r] = "persisting"
  /\ AdvanceTo(r, "ready")
  /\ Goto(r, "minting")
  /\ Cleanup(r)
  /\ UNCHANGED <<lastError, inputs, measurements, recent, report, shown, releases, locals>>

PersistNotAtomic(r) ==
  /\ pc[r] = "persisting"
  /\ measurements' = Append(measurements, NewMeasurement(r))
  /\ recent' = TRUE
  /\ \/ AdvanceTo(r, "ready") /\ Goto(r, "minting") /\ Cleanup(r)
     \/ Unwind(r) /\ UNCHANGED <<status, mem>>
  /\ UNCHANGED <<lastError, inputs, report, shown, releases, locals>>

Persist(r) ==
  /\ pc[r] = "persisting"
  /\ measurements' = Append(measurements, NewMeasurement(r))
  /\ recent' = TRUE
  /\ AdvanceTo(r, "ready")
  /\ Goto(r, "minting")
  /\ Cleanup(r)
  /\ UNCHANGED <<lastError, inputs, report, shown, releases, locals>>

\* The transaction rolls back; the assigned status stays in the copy.
PersistFails(r) ==
  /\ "commit" \in Faults
  /\ pc[r] = "persisting"
  /\ mem' = [mem EXCEPT ![r] = "ready"]
  /\ Unwind(r)
  /\ UNCHANGED <<row, shown, releases, locals>>

EnsureReport(r) ==
  /\ pc[r] = "minting"
  /\ report' = TRUE
  /\ Goto(r, "announcing")
  /\ UNCHANGED <<status, lastError, inputs, measurements, recent, shown, releases,
                 mem, locals, vlm>>

BroadcastReady(r) ==
  /\ pc[r] = "announcing"
  /\ \/ shown' = mem[r] /\ Goto(r, "done") /\ UNCHANGED vlm
     \/ BroadcastRaises /\ Unwind(r)
  /\ UNCHANGED <<row, releases, mem, locals>>

-----------------------------------------------------------------------------
(* Failures. *)

\* SchemaError, GeometricFailure, TimeoutError, Error: terminal, no retry.
ExpectedFailure(r) ==
  /\ pc[r] \in (Stages \ {"detecting_features"}) \cup {"persisting"}
  /\ FailWith(r, "expected")
  /\ \/ shown' = "failed" /\ Goto(r, "done") /\ Cleanup(r)
     \/ BroadcastRaises /\ Unwind(r)
  /\ UNCHANGED <<inputs, measurements, recent, report, releases, locals>>

\* Anything else escapes the orchestrator.
UnexpectedError(r) ==
  /\ \/ pc[r] \in Stages \cup {"lookup", "start", "joining", "persisting"}
     \/ pc[r] = "minting" /\ "report" \in Faults
  /\ Unwind(r)
  /\ UNCHANGED <<row, shown, releases, mem, locals>>

LastAttempt(d) == attempts[d] + 1 >= MaxAttempts

\* Faulty variant: terminal on the first crash, with retries still to come.
RescueFailsAtOnce(d) ==
  /\ pc[d] = "rescue"
  /\ \/ mem[d] \in Terminal /\ UNCHANGED <<status, mem, lastError, shown>>
     \/ /\ mem[d] \notin Terminal
        /\ FailWith(d, "gave_up")
        /\ shown' = "failed" \/ BroadcastRaises
  /\ Goto(d, "raised")
  /\ UNCHANGED <<inputs, measurements, recent, report, releases, locals, vlm>>

Rescue(d) ==
  /\ pc[d] = "rescue"
  /\ \/ /\ mem[d] \in Terminal
        /\ UNCHANGED <<status, mem, lastError, shown>>
     \/ /\ mem[d] \notin Terminal /\ LastAttempt(d)
        /\ FailWith(d, "gave_up")
        /\ shown' = "failed" \/ BroadcastRaises
     \/ /\ mem[d] \notin Terminal /\ ~LastAttempt(d)
        /\ lastError' = "crashed"
        /\ UNCHANGED <<status, mem, shown>>
  /\ Goto(d, "raised")
  /\ UNCHANGED <<inputs, measurements, recent, report, releases, locals, vlm>>

\* Faulty variant: retry_on allows one attempt fewer than the rescue counts on.
RetryOneFewer(d) ==
  /\ pc[d] = "raised"
  /\ IF attempts[d] + 2 >= MaxAttempts
       THEN Goto(d, "exhausted") /\ UNCHANGED attempts
       ELSE Goto(d, "queued") /\ attempts' = [attempts EXCEPT ![d] = @ + 1]
  /\ UNCHANGED <<row, shown, releases, mem, seen, lidar, notes, vlm>>

\* retry_on: enqueue again with the counter advanced, or give up.
RetryOrGiveUp(d) ==
  /\ pc[d] = "raised"
  /\ IF LastAttempt(d)
       THEN Goto(d, "exhausted") /\ UNCHANGED attempts
       ELSE Goto(d, "queued") /\ attempts' = [attempts EXCEPT ![d] = @ + 1]
  /\ UNCHANGED <<row, shown, releases, mem, seen, lidar, notes, vlm>>

-----------------------------------------------------------------------------
(* The environment: queue, processes, contractor, clock.                    *)

Duplicate(d) ==
  /\ d \in Deliveries /\ MayJoin(d)
  /\ Goto(d, "queued")
  /\ UNCHANGED <<row, shown, releases, mem, locals, vlm>>

\* Graceful shutdown: claimed jobs go back to the queue with their stored
\* counter; a direct call dies with its process.
Release(r) ==
  /\ pc[r] \notin Idle
  /\ releases < MaxReleases
  /\ releases' = releases + 1
  /\ Goto(r, IF r \in Deliveries THEN "queued" ELSE "lost")
  /\ Cleanup(r)
  /\ UNCHANGED <<row, shown, mem, locals>>

\* A killed process: its claimed jobs are marked failed, never run again.
Kill(r) ==
  /\ "kill" \in Faults
  /\ pc[r] \notin Idle
  /\ Goto(r, "lost")
  /\ Cleanup(r)
  /\ UNCHANGED <<row, shown, releases, mem, locals>>

\* The contractor opens /jobs/:id/report.
OpenReport ==
  /\ report' = TRUE
  /\ UNCHANGED <<status, lastError, inputs, measurements, recent, shown, releases,
                 pc, mem, locals, vlm>>

EditInputs ==
  /\ inputs <= MaxEdits
  /\ inputs' = inputs + 1
  /\ UNCHANGED <<status, lastError, measurements, recent, report, shown, releases,
                 pc, mem, locals, vlm>>

WindowPasses ==
  /\ recent
  /\ recent' = FALSE
  /\ UNCHANGED <<status, lastError, inputs, measurements, report, shown, releases,
                 pc, mem, locals, vlm>>

-----------------------------------------------------------------------------
RunStep(r) ==
  \/ Perform(r)         \/ ReuseCached(r)    \/ StartPipeline(r)
  \/ ResolveAddress(r)  \/ RenderImagery(r)  \/ DetectFeatures(r)
  \/ StartVlmAndIngestLidar(r)
  \/ RefineOutline(r)   \/ FitPlanes(r)      \/ GuardFacets(r)
  \/ JoinVlm(r)         \/ Persist(r)        \/ PersistFails(r)
  \/ EnsureReport(r)    \/ BroadcastReady(r)
  \/ ExpectedFailure(r) \/ UnexpectedError(r)
  \/ Rescue(r)          \/ RetryOrGiveUp(r)

Environment ==
  \/ \E r \in Runs :
       \/ CallDirectly(r) \/ VlmReturns(r) \/ Duplicate(r)
       \/ Release(r)      \/ Kill(r)
  \/ OpenReport \/ EditInputs \/ WindowPasses

Next == (\E r \in Runs : RunStep(r)) \/ Environment

Spec == Init /\ [][Next]_vars

\* A worker thread keeps executing its run: every sidecar call has a client
\* timeout and VlmRunner#join a deadline.  Nothing else is owed.
FairSpec == Spec /\ \A r \in Runs : WF_vars(RunStep(r))
-----------------------------------------------------------------------------
(* Properties. *)

\* A job is never ready without a measurement: the row and the status commit
\* together (measurement_orchestrator.rb:373-378), and the cache only advances
\* a job that has a row.
ReadyHasMeasurement == status = "ready" => measurements # << >>

\* The same from the other side: outside a sanctioned re-run a measurement
\* never exists while its job stays mid-pipeline or has failed.
CommittedTogether == measurements # << >> => status = "ready"

\* At-least-once delivery does not measure a roof twice: a redelivered
\* GeometryJob stops at the terminal guard, however old the row is.
MeasuredOnce == Len(measurements) <= 1

\* A terminal job is never resurrected (job.rb:67-68).
TerminalIsFinal == [][(status \in Terminal) => (status' = status)]_vars

\* No degraded stage is silent, and no warning outlives the attempt that
\* earned it: a measurement says imagery exactly when it warns about LiDAR,
\* and has no detector result exactly when it warns about the detector.
HonestMeasurements ==
  \A i \in 1..Len(measurements) :
    /\ measurements[i].source = "imagery" <=> "lidar" \in measurements[i].notes
    /\ measurements[i].detected <=> "vlm" \notin measurements[i].notes

\* The detection thread never outlives the pipeline that started it, on any
\* exit (measurement_orchestrator.rb:118-124).
NoOrphanVlm ==
  \A r \in Runs : vlm[r] = "running" =>
    pc[r] \in {"fetching_lidar", "refining_outline", "fitting_planes", "joining"}

\* A delivery whose attempts are used up has left the job terminal
\* (geometry_job.rb:46-49), so the status page does not wait for ever.
ExhaustedIsTerminal == \A d \in Deliveries : pc[d] = "exhausted" => status \in Terminal

\* The terminal "gave up" is recorded on the last attempt only: no retry that
\* is still queued is defeated by it (geometry_job.rb:14-20).
NoRetryDefeated ==
  lastError = "gave_up" =>
    \A d \in Deliveries : pc[d] \in {"queued", "raised"} => LastAttempt(d)

\* A direct call that ends with a ready copy leaves a measurement of the
\* inputs it read, cached or new, whatever ran beside it.
CallCoversItsInputs ==
  \A c \in Calls : pc[c] \in {"minting", "announcing"} \/ (pc[c] = "done" /\ mem[c] = "ready") =>
    \E i \in 1..Len(measurements) : measurements[i].inputs = seen[c]

\* A ready job always has a shareable Report (measurement_orchestrator.rb:401),
\* once nothing is left that could still mint it.
ReadyHasReport ==
  (status = "ready" /\ \A r \in Runs : pc[r] \in Idle \ {"queued"}) => report

\* Whatever fails and however often the workers restart, a queued job reaches
\* an end; nothing stays mid-pipeline for ever.
Settles == <>[](status \in Terminal)

\* The job as JobLifecycle: what matters to a watcher is whether it ended, how,
\* and with a measurement or without.
Lifecycle == INSTANCE JobLifecycle WITH
  phase    <- IF status \in Terminal THEN status ELSE "open",
  measured <- measurements # << >>
ImplementsLifecycle == Lifecycle!Spec
=============================================================================
