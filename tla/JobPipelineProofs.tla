--------------------------- MODULE JobPipelineProofs ---------------------------
(***************************************************************************)
(* Theorems about JobPipeline: for every set of deliveries and direct       *)
(* calls, every number of attempts and every choice of faults.              *)
(***************************************************************************)
EXTENDS JobPipeline, TLAPS

(* What the helpers of the Job model do to the types of the variables they  *)
(* write.                                                                   *)

\* Moving a run to a program point keeps pc a function into the points.
LEMMA GotoType ==
  ASSUME TypeOK, NEW r \in Runs, NEW p \in PC, Goto(r, p)
  PROVE  pc' \in [Runs -> PC]
  BY DEF TypeOK, Goto

\* UpdateStatus writes a status to the row and to the copy.
LEMMA UpdateStatusType ==
  ASSUME TypeOK, NEW r \in Runs, NEW s \in Status, UpdateStatus(r, s)
  PROVE  status' \in Status /\ mem' \in [Runs -> Status]
  BY DEF TypeOK, UpdateStatus

\* Cleanup leaves every thread in one of its four states.
LEMMA CleanupType ==
  ASSUME TypeOK, NEW r \in Runs, Cleanup(r)
  PROVE  vlm' \in [Runs -> {"none", "running", "found", "failed"}]
  BY DEF TypeOK, Cleanup

\* Unwinding cleans up and goes to a program point.
LEMMA UnwindType ==
  ASSUME TypeOK, NEW r \in Runs, Unwind(r)
  PROVE  pc' \in [Runs -> PC] /\ vlm' \in [Runs -> {"none", "running", "found", "failed"}]
<1>1. Goto(r, IF r \in Deliveries THEN "rescue" ELSE "aborted") /\ Cleanup(r)
  BY DEF Unwind
<1>2. (IF r \in Deliveries THEN "rescue" ELSE "aborted") \in PC
  BY DEF PC, Idle
<1>3. QED
  BY <1>1, <1>2, GotoType, CleanupType

\* Entering a stage writes the five variables of a transition, each in type.
LEMMA EnterStageType ==
  ASSUME TypeOK, NEW r \in Runs, NEW s \in Stages, EnterStage(r, s)
  PROVE  /\ status' \in Status /\ shown' \in Status
         /\ mem' \in [Runs -> Status] /\ pc' \in [Runs -> PC]
         /\ vlm' \in [Runs -> {"none", "running", "found", "failed"}]
<1>1. s \in Status /\ s \in PC
  BY DEF Status, PC
<1>2. status' \in Status /\ mem' \in [Runs -> Status]
  BY <1>1, UpdateStatusType DEF EnterStage, AdvanceTo
<1>3. CASE shown' = s /\ Goto(r, s) /\ UNCHANGED vlm
  BY <1>1, <1>2, <1>3, GotoType DEF TypeOK
<1>4. CASE BroadcastRaises /\ Unwind(r)
  BY <1>2, <1>4, UnwindType DEF BroadcastRaises, TypeOK
<1>5. QED
  BY <1>3, <1>4 DEF EnterStage

\* The variables only take the values their columns and locals can hold.
THEOREM TypeCorrect == Spec => []TypeOK
<1>1. Init => TypeOK
  <2> SUFFICES ASSUME Init PROVE TypeOK
    OBVIOUS
  <2>1. status \in Status /\ shown \in Status /\ mem \in [Runs -> Status]
    BY DEF Init, Status
  <2>2. pc \in [Runs -> PC]
    BY DEF Init, PC, Idle
  <2>3. measurements \in Seq(Measurement)
    BY DEF Init
  <2>4. notes \in [Runs -> SUBSET Note]
    BY DEF Init
  <2>5. QED
    BY <2>1, <2>2, <2>3, <2>4 DEF Init, TypeOK
<1>2. TypeOK /\ [Next]_vars => TypeOK'
  <2> SUFFICES ASSUME TypeOK, [Next]_vars PROVE TypeOK'
    OBVIOUS
  <2> USE DEF row, locals
  <2>p. /\ "ready" \in Status /\ "failed" \in Status /\ "pending" \in Status
        /\ Stages \subseteq Status /\ Stages \subseteq PC
        /\ {"done", "queued", "lookup", "start", "joining", "persisting", "minting",
            "announcing", "raised", "rescue", "exhausted", "aborted", "lost"} \subseteq PC
    BY DEF Status, Terminal, PC, Idle, Stages
  <2>1. ASSUME NEW r \in Runs, RunStep(r) PROVE TypeOK'
    <3>1. CASE Perform(r)
      BY <3>1, <2>p DEF Perform, FindJob, Goto, TypeOK
    <3>2. CASE ReuseCached(r)
      BY <3>2, <2>p, UpdateStatusType, UnwindType, GotoType
         DEF ReuseCached, AdvanceTo, BroadcastRaises, TypeOK
    <3>3. CASE StartPipeline(r)
      BY <3>3, <2>p, UpdateStatusType, GotoType DEF StartPipeline, TypeOK
    <3>4. CASE ResolveAddress(r)
      BY <3>4, <2>p, EnterStageType DEF ResolveAddress, UnchangedByStage, TypeOK, Stages
    <3>5. CASE RenderImagery(r)
      BY <3>5, <2>p, EnterStageType DEF RenderImagery, UnchangedByStage, TypeOK, Stages
    <3>6. CASE DetectFeatures(r)
      BY <3>6, <2>p, EnterStageType DEF DetectFeatures, UnchangedByStage, TypeOK, Stages
    <3>7. CASE StartVlmAndIngestLidar(r)
      <4>1. status' \in Status /\ mem' \in [Runs -> Status]
        BY <3>7, <2>p, UpdateStatusType DEF StartVlmAndIngestLidar, AdvanceTo, Stages
      <4>2. /\ shown' \in Status /\ pc' \in [Runs -> PC]
            /\ vlm' \in [Runs -> {"none", "running", "found", "failed"}]
        BY <3>7, <2>p, UnwindType, GotoType
           DEF StartVlmAndIngestLidar, BroadcastRaises, TypeOK, Stages
      <4>3. QED
        BY <3>7, <4>1, <4>2 DEF StartVlmAndIngestLidar, UnchangedByStage, TypeOK
    <3>8. CASE RefineOutline(r)
      BY <3>8, <2>p, EnterStageType DEF RefineOutline, UnchangedByStage, TypeOK, Stages
    <3>9. CASE FitPlanes(r)
      <4>1. notes' \in [Runs -> SUBSET Note]
        BY <3>9 DEF FitPlanes, TypeOK, Note
      <4>2. QED
        BY <3>9, <4>1, EnterStageType DEF FitPlanes, UnchangedByStage, TypeOK, Stages
    <3>10. CASE GuardFacets(r)
      BY <3>10, <2>p, GotoType DEF GuardFacets, TypeOK
    <3>11. CASE JoinVlm(r)
      <4>1. notes' \in [Runs -> SUBSET Note]
        BY <3>11 DEF JoinVlm, TypeOK, Note
      <4>2. QED
        BY <3>11, <4>1, <2>p, GotoType DEF JoinVlm, TypeOK
    <3>12. CASE Persist(r)
      <4>1. NewMeasurement(r) \in Measurement
        BY DEF NewMeasurement, Measurement, TypeOK
      <4>2. measurements' \in Seq(Measurement)
        BY <3>12, <4>1 DEF Persist, TypeOK
      <4>3. QED
        BY <3>12, <4>2, <2>p, UpdateStatusType, GotoType, CleanupType
           DEF Persist, AdvanceTo, TypeOK
    <3>13. CASE PersistFails(r)
      BY <3>13, <2>p, UnwindType DEF PersistFails, TypeOK
    <3>14. CASE EnsureReport(r)
      BY <3>14, <2>p, GotoType DEF EnsureReport, TypeOK
    <3>15. CASE BroadcastReady(r)
      BY <3>15, <2>p, GotoType, UnwindType DEF BroadcastReady, BroadcastRaises, TypeOK
    <3>16. CASE ExpectedFailure(r)
      BY <3>16, <2>p, UpdateStatusType, GotoType, UnwindType, CleanupType
         DEF ExpectedFailure, FailWith, BroadcastRaises, TypeOK
    <3>17. CASE UnexpectedError(r)
      BY <3>17, UnwindType DEF UnexpectedError, TypeOK
    <3>18. CASE Rescue(r)
      <4>1. /\ status' \in Status /\ mem' \in [Runs -> Status] /\ shown' \in Status
            /\ lastError' \in {"none", "expected", "crashed", "gave_up"}
        BY <3>18, <2>p, UpdateStatusType DEF Rescue, FailWith, BroadcastRaises, TypeOK
      <4>2. QED
        BY <3>18, <4>1, <2>p, GotoType DEF Rescue, TypeOK
    <3>19. CASE RetryOrGiveUp(r)
      <4>1. pc' \in [Runs -> PC]
        BY <3>19, <2>p, GotoType DEF RetryOrGiveUp
      <4>2. attempts' \in [Runs -> Nat]
        <5>1. attempts \in [Runs -> Nat] /\ attempts[r] + 1 \in Nat
          BY DEF TypeOK
        <5>2. attempts' = attempts \/ attempts' = [attempts EXCEPT ![r] = attempts[r] + 1]
          BY <3>19 DEF RetryOrGiveUp
        <5>3. QED
          BY <5>1, <5>2
      <4>3. QED
        BY <3>19, <4>1, <4>2 DEF RetryOrGiveUp, TypeOK
    <3>20. QED
      BY <2>1, <3>1, <3>2, <3>3, <3>4, <3>5, <3>6, <3>7, <3>8, <3>9, <3>10, <3>11,
         <3>12, <3>13, <3>14, <3>15, <3>16, <3>17, <3>18, <3>19 DEF RunStep
  <2>2. CASE Environment
    <3>1. ASSUME NEW r \in Runs, CallDirectly(r) PROVE TypeOK'
      BY <3>1, <2>p DEF CallDirectly, FindJob, Goto, TypeOK
    <3>2. ASSUME NEW r \in Runs, VlmReturns(r) PROVE TypeOK'
      BY <3>2 DEF VlmReturns, TypeOK
    <3>3. ASSUME NEW r \in Runs, Duplicate(r) PROVE TypeOK'
      BY <3>3, <2>p, GotoType DEF Duplicate, TypeOK
    <3>4. ASSUME NEW r \in Runs, Release(r) PROVE TypeOK'
      BY <3>4, <2>p, GotoType, CleanupType, BoundsAssumption DEF Release, TypeOK
    <3>5. ASSUME NEW r \in Runs, Kill(r) PROVE TypeOK'
      BY <3>5, <2>p, GotoType, CleanupType DEF Kill, TypeOK
    <3>6. CASE OpenReport
      BY <3>6 DEF OpenReport, TypeOK
    <3>7. CASE EditInputs
      BY <3>7 DEF EditInputs, TypeOK
    <3>8. CASE WindowPasses
      BY <3>8 DEF WindowPasses, TypeOK
    <3>9. QED
      BY <2>2, <3>1, <3>2, <3>3, <3>4, <3>5, <3>6, <3>7, <3>8 DEF Environment
  <2>3. CASE UNCHANGED vars
    BY <2>3 DEF vars, TypeOK
  <2>4. QED
    BY <2>1, <2>2, <2>3 DEF Next
<1>3. QED
  BY <1>1, <1>2, PTL DEF Spec

-----------------------------------------------------------------------------
(* What holds of every run on its own, whatever the others do: where its    *)
(* detection thread may be alive, and that its notes tell of its LiDAR.     *)

VlmPoints == {"fetching_lidar", "refining_outline", "fitting_planes", "joining"}
BeforeFit == {"lookup", "start", "resolving_address", "fetching_imagery",
              "detecting_features", "fetching_lidar", "refining_outline"}
AfterFit == {"fitting_planes", "joining", "persisting"}

HonestNotes(q) == ("lidar" \in notes[q]) <=> (lidar[q] # "available")

RunInv(q) ==
  /\ vlm[q] = "running" => pc[q] \in VlmPoints
  /\ pc[q] \in BeforeFit => notes[q] = {}
  /\ pc[q] \in AfterFit => HonestNotes(q)
  /\ pc[q] \in {"fitting_planes", "joining"} => "vlm" \notin notes[q]
  /\ pc[q] = "persisting" => ("vlm" \notin notes[q] <=> vlm[q] = "found")

\* What a step of the system can do to one run's invariant.
LEMMA RunInvStep ==
  ASSUME TypeOK, [Next]_vars, NEW q \in Runs, RunInv(q)
  PROVE  RunInv(q)'
<1> USE DEF row, locals, RunInv, HonestNotes, VlmPoints, BeforeFit, AfterFit, Goto
<1>1. ASSUME NEW r \in Runs, RunStep(r) PROVE RunInv(q)'
  <2> USE DEF Unwind, Cleanup, EnterStage, UnchangedByStage, TypeOK
  <2>1. CASE Perform(r)
    BY <2>1 DEF Perform, FindJob
  <2>2. CASE ReuseCached(r)
    BY <2>2 DEF ReuseCached
  <2>3. CASE StartPipeline(r)
    BY <2>3 DEF StartPipeline
  <2>4. CASE ResolveAddress(r)
    BY <2>4 DEF ResolveAddress
  <2>5. CASE RenderImagery(r)
    BY <2>5 DEF RenderImagery
  <2>6. CASE DetectFeatures(r)
    BY <2>6 DEF DetectFeatures
  <2>7. CASE StartVlmAndIngestLidar(r)
    BY <2>7 DEF StartVlmAndIngestLidar
  <2>8. CASE RefineOutline(r)
    BY <2>8 DEF RefineOutline
  <2>9. CASE FitPlanes(r)
    BY <2>9 DEF FitPlanes
  <2>10. CASE GuardFacets(r)
    BY <2>10 DEF GuardFacets
  <2>11. CASE JoinVlm(r)
    BY <2>11 DEF JoinVlm
  <2>12. CASE Persist(r)
    BY <2>12 DEF Persist
  <2>13. CASE PersistFails(r)
    BY <2>13 DEF PersistFails
  <2>14. CASE EnsureReport(r)
    BY <2>14 DEF EnsureReport
  <2>15. CASE BroadcastReady(r)
    BY <2>15 DEF BroadcastReady
  <2>16. CASE ExpectedFailure(r)
    BY <2>16 DEF ExpectedFailure
  <2>17. CASE UnexpectedError(r)
    BY <2>17 DEF UnexpectedError
  <2>18. CASE Rescue(r)
    BY <2>18 DEF Rescue
  <2>19. CASE RetryOrGiveUp(r)
    BY <2>19 DEF RetryOrGiveUp
  <2>20. QED
    BY <1>1, <2>1, <2>2, <2>3, <2>4, <2>5, <2>6, <2>7, <2>8, <2>9, <2>10, <2>11,
       <2>12, <2>13, <2>14, <2>15, <2>16, <2>17, <2>18, <2>19 DEF RunStep
<1>2. CASE Environment
  <2> USE DEF TypeOK
  <2>1. ASSUME NEW r \in Runs, CallDirectly(r) PROVE RunInv(q)'
    BY <2>1 DEF CallDirectly, FindJob, MayJoin
  <2>2. ASSUME NEW r \in Runs, VlmReturns(r) PROVE RunInv(q)'
    BY <2>2 DEF VlmReturns
  <2>3. ASSUME NEW r \in Runs, Duplicate(r) PROVE RunInv(q)'
    BY <2>3 DEF Duplicate, MayJoin
  <2>4. ASSUME NEW r \in Runs, Release(r) \/ Kill(r) PROVE RunInv(q)'
    BY <2>4 DEF Release, Kill, Cleanup
  <2>5. CASE OpenReport \/ EditInputs \/ WindowPasses
    BY <2>5 DEF OpenReport, EditInputs, WindowPasses
  <2>6. QED
    BY <1>2, <2>1, <2>2, <2>3, <2>4, <2>5 DEF Environment
<1>3. CASE UNCHANGED vars
  BY <1>3 DEF vars
<1>4. QED
  BY <1>1, <1>2, <1>3 DEF Next

\* Every run keeps its invariant in every behaviour.
LEMMA RunsKeepInvariant == Spec => [](\A q \in Runs : RunInv(q))
<1>1. Init => \A q \in Runs : RunInv(q)
  BY DEF Init, RunInv, BeforeFit, AfterFit
<1>2. TypeOK /\ (\A q \in Runs : RunInv(q)) /\ [Next]_vars => (\A q \in Runs : RunInv(q))'
  <2> SUFFICES ASSUME TypeOK, \A q \in Runs : RunInv(q), [Next]_vars, NEW q \in Runs
               PROVE  RunInv(q)'
    OBVIOUS
  <2>1. QED
    BY RunInvStep
<1>3. QED
  BY <1>1, <1>2, TypeCorrect, PTL DEF Spec

\* The detection thread never outlives the pipeline that started it, on any of
\* its exits: VlmRunner#join, the ensure of run_pipeline, or the process ending.
THEOREM VlmNeverOrphaned == Spec => []NoOrphanVlm
<1>1. (\A q \in Runs : RunInv(q)) => NoOrphanVlm
  BY DEF RunInv, NoOrphanVlm, VlmPoints
<1>2. QED
  BY <1>1, RunsKeepInvariant, PTL

-----------------------------------------------------------------------------
(* The measurements table.  Only two actions change it or are told by it:   *)
(* Persist appends, and everything else leaves it alone.                    *)

\* A step either leaves the table alone or is one run's persist.
LEMMA OnlyPersistWrites ==
  ASSUME [Next]_vars
  PROVE  measurements' = measurements \/ \E r \in Runs : Persist(r)
<1> USE DEF row, locals
<1>1. ASSUME NEW r \in Runs, RunStep(r), ~Persist(r) PROVE measurements' = measurements
  BY <1>1 DEF RunStep, Perform, FindJob, ReuseCached, StartPipeline, ResolveAddress,
     RenderImagery, DetectFeatures, StartVlmAndIngestLidar, RefineOutline, FitPlanes,
     GuardFacets, JoinVlm, PersistFails, EnsureReport, BroadcastReady, ExpectedFailure,
     UnexpectedError, Rescue, RetryOrGiveUp, UnchangedByStage
<1>2. CASE Environment
  BY <1>2 DEF Environment, CallDirectly, FindJob, VlmReturns, Duplicate, Release, Kill,
     OpenReport, EditInputs, WindowPasses
<1>3. CASE UNCHANGED vars
  BY <1>3 DEF vars
<1>4. QED
  BY <1>1, <1>2, <1>3 DEF Next

\* Every measurement, from every attempt of every run, tells the truth about
\* the LiDAR and the detector it was or was not built from.
THEOREM MeasurementsHonest == Spec => []HonestMeasurements
<1>1. Init => HonestMeasurements
  BY DEF Init, HonestMeasurements
<1>2. ASSUME TypeOK, \A q \in Runs : RunInv(q), HonestMeasurements, [Next]_vars
      PROVE  HonestMeasurements'
  <2>1. CASE measurements' = measurements
    BY <1>2, <2>1 DEF HonestMeasurements
  <2>2. ASSUME NEW r \in Runs, Persist(r) PROVE HonestMeasurements'
    <3>1. measurements' = Append(measurements, NewMeasurement(r)) /\ pc[r] = "persisting"
      BY <2>2 DEF Persist
    <3>2. measurements \in Seq(Measurement) /\ NewMeasurement(r) \in Measurement
      BY <1>2 DEF TypeOK, NewMeasurement, Measurement
    <3>3. HonestNotes(r) /\ ("vlm" \notin notes[r] <=> vlm[r] = "found")
      BY <1>2, <3>1 DEF RunInv, AfterFit
    <3>4. /\ NewMeasurement(r).source = "imagery" <=> "lidar" \in NewMeasurement(r).notes
          /\ NewMeasurement(r).detected <=> "vlm" \notin NewMeasurement(r).notes
      BY <3>3 DEF NewMeasurement, HonestNotes
    <3>5. SUFFICES ASSUME NEW i \in 1..Len(measurements')
                   PROVE  /\ measurements'[i].source = "imagery"
                               <=> "lidar" \in measurements'[i].notes
                          /\ measurements'[i].detected <=> "vlm" \notin measurements'[i].notes
      BY DEF HonestMeasurements
    <3>6. CASE i \in 1..Len(measurements)
      <4>1. measurements'[i] = measurements[i]
        BY <3>1, <3>2, <3>6
      <4>2. QED
        BY <1>2, <3>6, <4>1 DEF HonestMeasurements
    <3>7. CASE i = Len(measurements) + 1
      <4>1. measurements'[i] = NewMeasurement(r)
        BY <3>1, <3>2, <3>7
      <4>2. QED
        BY <3>4, <4>1
    <3>8. QED
      BY <3>1, <3>2, <3>6, <3>7
  <2>3. QED
    BY <1>2, <2>1, <2>2, OnlyPersistWrites
<1>3. QED
  BY <1>1, <1>2, TypeCorrect, RunsKeepInvariant, PTL DEF Spec

\* The table never loses a row.
LEMMA TableOnlyGrows ==
  ASSUME TypeOK, [Next]_vars, measurements # << >>
  PROVE  measurements' # << >>
<1>1. CASE measurements' = measurements
  BY <1>1
<1>2. ASSUME NEW r \in Runs, Persist(r) PROVE measurements' # << >>
  <2>1. measurements \in Seq(Measurement) /\ NewMeasurement(r) \in Measurement
    BY DEF TypeOK, NewMeasurement, Measurement
  <2>2. QED
    BY <1>2, <2>1 DEF Persist
<1>3. QED
  BY <1>1, <1>2, OnlyPersistWrites

\* Only the two ways to be ready write that status.
LEMMA OnlyTwoWriteReady ==
  ASSUME [Next]_vars, status' = "ready", status # "ready"
  PROVE  \E r \in Runs : Persist(r) \/ ReuseCached(r)
<1> USE DEF row, locals, Goto, UpdateStatus, AdvanceTo, EnterStage
<1>1. ASSUME NEW r \in Runs, RunStep(r), ~Persist(r), ~ReuseCached(r)
      PROVE  status' = status \/ status' # "ready"
  BY <1>1 DEF RunStep, Perform, FindJob, StartPipeline, ResolveAddress,
     RenderImagery, DetectFeatures, StartVlmAndIngestLidar, RefineOutline, FitPlanes,
     GuardFacets, JoinVlm, PersistFails, EnsureReport, BroadcastReady, ExpectedFailure,
     UnexpectedError, Rescue, RetryOrGiveUp, UnchangedByStage, FailWith
<1>2. CASE Environment
  BY <1>2 DEF Environment, CallDirectly, FindJob, VlmReturns, Duplicate, Release, Kill,
     OpenReport, EditInputs, WindowPasses
<1>3. CASE UNCHANGED vars
  BY <1>3 DEF vars
<1>4. QED
  BY <1>1, <1>2, <1>3 DEF Next

\* A ready job has a measurement, whatever is delivered twice, released,
\* killed, re-run or failing: the transaction and the cache lookup are the only
\* writers of ready.
THEOREM ReadyIsMeasured == Spec => []ReadyHasMeasurement
<1>1. Init => ReadyHasMeasurement
  BY DEF Init, ReadyHasMeasurement
<1>2. ASSUME TypeOK, ReadyHasMeasurement, [Next]_vars
      PROVE  ReadyHasMeasurement'
  <2>1. CASE status = "ready"
    BY <1>2, <2>1, TableOnlyGrows DEF ReadyHasMeasurement
  <2>2. CASE status # "ready"
    <3>1. SUFFICES ASSUME status' = "ready" PROVE measurements' # << >>
      BY DEF ReadyHasMeasurement
    <3>2. PICK r \in Runs : Persist(r) \/ ReuseCached(r)
      BY <1>2, <2>2, <3>1, OnlyTwoWriteReady
    <3>3. CASE Persist(r)
      <4>1. measurements \in Seq(Measurement) /\ NewMeasurement(r) \in Measurement
        BY <1>2 DEF TypeOK, NewMeasurement, Measurement
      <4>2. QED
        BY <3>3, <4>1 DEF Persist
    <3>4. CASE ReuseCached(r)
      BY <1>2, <3>4, TableOnlyGrows DEF ReuseCached, CacheHit
    <3>5. QED
      BY <3>2, <3>3, <3>4
  <2>3. QED
    BY <2>1, <2>2
<1>3. QED
  BY <1>1, <1>2, TypeCorrect, PTL DEF Spec

-----------------------------------------------------------------------------
(* Direct calls.  A call that ends well answers for the inputs it read,     *)
(* although the row, the table and the inputs may change under it.          *)

Ended(c) == pc[c] \in {"minting", "announcing"} \/ (pc[c] = "done" /\ mem[c] = "ready")
Covered(c) == \E i \in 1..Len(measurements) : measurements[i].inputs = seen[c]

\* A row of the table stays where and as it is.
LEMMA RowsStay ==
  ASSUME TypeOK, [Next]_vars, NEW i \in 1..Len(measurements)
  PROVE  i \in 1..Len(measurements') /\ measurements'[i] = measurements[i]
<1>1. measurements \in Seq(Measurement)
  BY DEF TypeOK
<1>2. ASSUME NEW r \in Runs, Persist(r)
      PROVE  i \in 1..Len(measurements') /\ measurements'[i] = measurements[i]
  <2>1. measurements' = Append(measurements, NewMeasurement(r))
    BY <1>2 DEF Persist
  <2> DEFINE m == NewMeasurement(r)
  <2>2. m \in Measurement
    BY DEF TypeOK, NewMeasurement, Measurement
  <2> HIDE DEF m
  <2>3. Len(measurements') = Len(measurements) + 1 /\ measurements'[i] = measurements[i]
    BY <1>1, <2>1, <2>2 DEF m
  <2>4. QED
    BY <1>1, <2>3
<1>3. QED
  BY <1>2, OnlyPersistWrites

\* How a call comes to its end: by its own row, or by a cached one.
LEMMA HowCallsEnd ==
  ASSUME TypeOK, [Next]_vars, NEW c \in Calls, Ended(c)'
  PROVE  \/ Ended(c) /\ seen'[c] = seen[c]
         \/ Persist(c)
         \/ ReuseCached(c)
<1> USE DEF row, locals, Ended, Goto
<1>0. c \in Runs /\ c \notin Deliveries
  BY RunsAssumption DEF Runs
<1>1. ASSUME NEW r \in Runs, RunStep(r), ~Persist(c), ~ReuseCached(c)
      PROVE  Ended(c) /\ seen'[c] = seen[c]
  <2> USE <1>0 DEF Unwind, EnterStage, UnchangedByStage, AdvanceTo, UpdateStatus, TypeOK
  <2>1. CASE Perform(r)
    BY <2>1 DEF Perform, FindJob
  <2>2. CASE ReuseCached(r)
    BY <1>1, <2>2 DEF ReuseCached
  <2>3. CASE StartPipeline(r)
    BY <2>3 DEF StartPipeline
  <2>4. CASE ResolveAddress(r) \/ RenderImagery(r) \/ DetectFeatures(r)
    BY <2>4 DEF ResolveAddress, RenderImagery, DetectFeatures
  <2>5. CASE StartVlmAndIngestLidar(r) \/ RefineOutline(r) \/ FitPlanes(r)
    BY <2>5 DEF StartVlmAndIngestLidar, RefineOutline, FitPlanes
  <2>6. CASE GuardFacets(r) \/ JoinVlm(r)
    BY <2>6 DEF GuardFacets, JoinVlm
  <2>7. CASE Persist(r) \/ PersistFails(r)
    BY <1>1, <2>7 DEF Persist, PersistFails
  <2>8. CASE EnsureReport(r) \/ BroadcastReady(r)
    BY <2>8 DEF EnsureReport, BroadcastReady
  <2>9. CASE ExpectedFailure(r)
    BY <2>9 DEF ExpectedFailure, FailWith
  <2>10. CASE UnexpectedError(r)
    BY <2>10 DEF UnexpectedError
  <2>11. CASE Rescue(r)
    BY <2>11 DEF Rescue, FailWith
  <2>12. CASE RetryOrGiveUp(r)
    BY <2>12 DEF RetryOrGiveUp
  <2>13. QED
    BY <1>1, <2>1, <2>2, <2>3, <2>4, <2>5, <2>6, <2>7, <2>8, <2>9, <2>10, <2>11, <2>12 DEF RunStep
<1>2. CASE Environment
  <2> USE <1>0 DEF TypeOK
  <2>1. ASSUME NEW r \in Runs, CallDirectly(r) \/ VlmReturns(r) \/ Duplicate(r)
        PROVE  Ended(c) /\ seen'[c] = seen[c]
    BY <2>1 DEF CallDirectly, FindJob, VlmReturns, Duplicate
  <2>2. ASSUME NEW r \in Runs, Release(r) \/ Kill(r)
        PROVE  Ended(c) /\ seen'[c] = seen[c]
    BY <2>2 DEF Release, Kill
  <2>3. CASE OpenReport \/ EditInputs \/ WindowPasses
    BY <2>3 DEF OpenReport, EditInputs, WindowPasses
  <2>4. QED
    BY <1>2, <2>1, <2>2, <2>3 DEF Environment
<1>3. CASE UNCHANGED vars
  BY <1>3 DEF vars
<1>4. QED
  BY <1>1, <1>2, <1>3 DEF Next

\* A direct call that ends with a ready copy leaves a measurement of the inputs it
\* read, whatever deliveries, other calls, edits and failures ran beside it
\* (measurement_idempotency_cache.rb:29, measurement_orchestrator.rb:380).
THEOREM CallsCoverTheirInputs == Spec => []CallCoversItsInputs
<1>1. Init => CallCoversItsInputs
  BY RunsAssumption DEF Init, CallCoversItsInputs, Runs
<1>2. ASSUME TypeOK, CallCoversItsInputs, [Next]_vars
      PROVE  CallCoversItsInputs'
  <2> SUFFICES ASSUME NEW c \in Calls, Ended(c)' PROVE Covered(c)'
    BY DEF CallCoversItsInputs, Ended, Covered
  <2>0. c \in Runs /\ measurements \in Seq(Measurement)
    BY <1>2 DEF Runs, TypeOK
  <2>1. ASSUME NEW i \in 1..Len(measurements), measurements[i].inputs = seen[c],
               seen'[c] = seen[c]
        PROVE  Covered(c)'
    BY <1>2, <2>1, RowsStay DEF Covered
  <2>2. CASE Ended(c) /\ seen'[c] = seen[c]
    BY <1>2, <2>1, <2>2 DEF CallCoversItsInputs, Ended
  <2>3. CASE Persist(c)
    <3> DEFINE m == NewMeasurement(c)
    <3>1. measurements' = Append(measurements, m) /\ seen' = seen
      BY <2>3 DEF Persist, locals
    <3>2. m \in Measurement /\ m.inputs = seen[c]
      BY <1>2, <2>0 DEF TypeOK, NewMeasurement, Measurement
    <3> HIDE DEF m
    <3>3. /\ Len(measurements) + 1 \in 1..Len(measurements')
          /\ measurements'[Len(measurements) + 1] = m
      BY <2>0, <3>1, <3>2
    <3>4. QED
      BY <3>1, <3>2, <3>3 DEF Covered
  <2>4. CASE ReuseCached(c)
    <3>1. /\ measurements # << >> /\ measurements[Len(measurements)].inputs = seen[c]
          /\ seen' = seen
      BY <2>4 DEF ReuseCached, CacheHit, locals
    <3>2. Len(measurements) \in 1..Len(measurements)
      BY <2>0, <3>1
    <3>3. QED
      BY <2>1, <3>1, <3>2
  <2>5. QED
    BY <1>2, <2>2, <2>3, <2>4, HowCallsEnd
<1>3. QED
  BY <1>1, <1>2, TypeCorrect, PTL DEF Spec

-----------------------------------------------------------------------------
(* The report.  Where no shutdown and no failing mint comes between, every  *)
(* run that committed a row goes on to mint.                                *)

Minted == measurements # << >> => report \/ \E r \in Runs : pc[r] = "minting"

\* A run that is about to mint does, and a report is never taken back.
LEMMA MintingStays ==
  ASSUME MaxReleases = 0, Faults \cap {"kill", "report"} = {}, TypeOK, [Next]_vars
  PROVE  /\ report => report'
         /\ \A q \in Runs : pc[q] = "minting" => report' \/ pc'[q] = "minting"
<1> USE DEF row, locals, Goto
<1> SUFFICES ASSUME NEW q \in Runs
             PROVE  (report => report') /\ (pc[q] = "minting" => report' \/ pc'[q] = "minting")
  BY RunsAssumption DEF Runs
<1>1. ASSUME NEW r \in Runs, RunStep(r)
      PROVE  (report => report') /\ (pc[q] = "minting" => report' \/ pc'[q] = "minting")
  <2> USE DEF Unwind, EnterStage, UnchangedByStage, TypeOK
  <2>1. CASE Perform(r) \/ ReuseCached(r) \/ StartPipeline(r)
    BY <2>1 DEF Perform, FindJob, ReuseCached, StartPipeline
  <2>2. CASE ResolveAddress(r) \/ RenderImagery(r) \/ DetectFeatures(r)
    BY <2>2 DEF ResolveAddress, RenderImagery, DetectFeatures
  <2>3. CASE StartVlmAndIngestLidar(r) \/ RefineOutline(r) \/ FitPlanes(r)
    BY <2>3 DEF StartVlmAndIngestLidar, RefineOutline, FitPlanes
  <2>4. CASE GuardFacets(r) \/ JoinVlm(r) \/ Persist(r) \/ PersistFails(r)
    BY <2>4 DEF GuardFacets, JoinVlm, Persist, PersistFails
  <2>5. CASE EnsureReport(r) \/ BroadcastReady(r)
    BY <2>5 DEF EnsureReport, BroadcastReady
  <2>6. CASE ExpectedFailure(r) \/ UnexpectedError(r)
    BY <2>6 DEF ExpectedFailure, UnexpectedError, Stages
  <2>7. CASE Rescue(r) \/ RetryOrGiveUp(r)
    BY <2>7 DEF Rescue, RetryOrGiveUp
  <2>8. QED
    BY <1>1, <2>1, <2>2, <2>3, <2>4, <2>5, <2>6, <2>7 DEF RunStep
<1>2. CASE Environment
  <2> USE DEF TypeOK
  <2>1. ASSUME NEW r \in Runs PROVE ~Release(r) /\ ~Kill(r)
    BY DEF Release, Kill
  <2>2. ASSUME NEW r \in Runs, CallDirectly(r) \/ VlmReturns(r) \/ Duplicate(r)
        PROVE  (report => report') /\ (pc[q] = "minting" => report' \/ pc'[q] = "minting")
    BY <2>2 DEF CallDirectly, FindJob, VlmReturns, Duplicate, MayJoin
  <2>3. CASE OpenReport \/ EditInputs \/ WindowPasses
    BY <2>3 DEF OpenReport, EditInputs, WindowPasses
  <2>4. QED
    BY <1>2, <2>1, <2>2, <2>3 DEF Environment
<1>3. CASE UNCHANGED vars
  BY <1>3 DEF vars
<1>4. QED
  BY <1>1, <1>2, <1>3 DEF Next

\* A ready job on which all work has ended has a report, however many deliveries and
\* calls overlap and whatever else fails, unless a worker went down or the mint itself
\* failed (measurement_orchestrator.rb:401-410).
THEOREM ReadyIsReported ==
  ASSUME MaxReleases = 0, Faults \cap {"kill", "report"} = {}
  PROVE  Spec => []ReadyHasReport
<1>1. Init => Minted
  BY DEF Init, Minted
<1>2. ASSUME TypeOK, Minted, [Next]_vars
      PROVE  Minted'
  <2>1. CASE measurements' = measurements
    BY <1>2, <2>1, MintingStays DEF Minted
  <2>2. ASSUME NEW r \in Runs, Persist(r) PROVE pc'[r] = "minting"
    BY <1>2, <2>2 DEF Persist, Goto, TypeOK
  <2>3. QED
    BY <1>2, <2>1, <2>2, OnlyPersistWrites DEF Minted
<1>3. Minted /\ ReadyHasMeasurement => ReadyHasReport
  BY DEF Minted, ReadyHasMeasurement, ReadyHasReport, Idle
<1>4. QED
  BY <1>1, <1>2, <1>3, TypeCorrect, ReadyIsMeasured, PTL DEF Spec

-----------------------------------------------------------------------------
(* One delivery, however often it is retried, released or killed.  Its      *)
(* in-memory status then agrees with the row wherever the code relies on    *)
(* it; with overlapping deliveries it does not, and neither theorem below   *)
(* holds.                                                                   *)

Working == BeforeFit \cup AfterFit

SoleInv ==
  /\ CommittedTogether
  /\ MeasuredOnce
  /\ pc[Original] \in Working => mem[Original] = status /\ status \notin Terminal
  /\ pc[Original] \in {"minting", "announcing"} =>
       mem[Original] = "ready" /\ status = "ready"
  /\ pc[Original] = "rescue" => mem[Original] \in Terminal \/ mem[Original] = status

\* What one step may do to the row's status and to the table.
SoleStep ==
  \/ status' = status /\ measurements' = measurements
  \/ status \notin Terminal /\ status' \notin Terminal /\ measurements' = measurements
  \/ /\ status \notin Terminal /\ status' = "ready"
     /\ measurements = << >> /\ Len(measurements') = 1 /\ measurements' # << >>
  \/ status \notin Terminal /\ status' = "failed" /\ measurements' = measurements

\* While the job is open the table is empty, so the cache cannot hit.
LEMMA OpenIsUnmeasured ==
  ASSUME SoleInv, status \notin Terminal
  PROVE  measurements = << >>
  BY DEF SoleInv, CommittedTogether, Terminal

\* The sole delivery's steps keep its invariant and move the row as SoleStep
\* allows.
LEMMA SoleRunStep ==
  ASSUME Deliveries = {Original}, Calls = {}, TypeOK, SoleInv, RunStep(Original)
  PROVE  SoleInv' /\ SoleStep
<1> DEFINE o == Original
<1> USE DEF row, locals, Goto, Terminal
<1>0. o \in Runs /\ o \in Deliveries
  BY DEF Runs
<1>f. pc \in [Runs -> PC] /\ mem \in [Runs -> Status] /\ measurements \in Seq(Measurement)
  BY DEF TypeOK
<1>w. Working = {"lookup", "start", "joining", "persisting"} \cup Stages
  BY DEF Working, BeforeFit, AfterFit, Stages
<1>t. \A s \in Stages : s \notin Terminal
  BY DEF Stages
<1> USE <1>0, <1>f, <1>w, <1>t
<1> USE DEF SoleStep, SoleInv, CommittedTogether, MeasuredOnce
<1>e. ASSUME NEW s \in Stages, EnterStage(o, s), pc[o] \in Working,
             measurements' = measurements
      PROVE  SoleInv' /\ SoleStep
  <2>1. /\ mem[o] = status /\ status \notin Terminal /\ measurements = << >>
    BY <1>e, OpenIsUnmeasured
  <2>2. status' = s /\ mem'[o] = s
    BY <1>e, <2>1 DEF EnterStage, AdvanceTo, UpdateStatus
  <2>3. pc'[o] = s \/ pc'[o] = "rescue"
    BY <1>e DEF EnterStage, Unwind
  <2>4. QED
    BY <1>e, <2>1, <2>2, <2>3 DEF Stages
<1>1. CASE Perform(o)
  BY <1>1 DEF Perform, FindJob, Stages
<1>2. CASE ReuseCached(o)
  BY <1>2, OpenIsUnmeasured DEF ReuseCached, CacheHit
<1>3. CASE StartPipeline(o)
  BY <1>3 DEF StartPipeline, UpdateStatus
<1>4. CASE ResolveAddress(o)
  BY <1>4, <1>e DEF ResolveAddress, UnchangedByStage, Stages
<1>5. CASE RenderImagery(o)
  BY <1>5, <1>e DEF RenderImagery, UnchangedByStage, Stages
<1>6. CASE DetectFeatures(o)
  BY <1>6, <1>e DEF DetectFeatures, UnchangedByStage, Stages
<1>7. CASE StartVlmAndIngestLidar(o)
  <2>1. mem[o] = status /\ status \notin Terminal /\ measurements = << >>
    BY <1>7, OpenIsUnmeasured DEF StartVlmAndIngestLidar, Stages
  <2>2. status' = "fetching_lidar" /\ mem'[o] = "fetching_lidar" /\ measurements' = measurements
    BY <1>7, <2>1 DEF StartVlmAndIngestLidar, AdvanceTo, UpdateStatus, UnchangedByStage
  <2>3. pc'[o] = "fetching_lidar" \/ pc'[o] = "rescue"
    BY <1>7 DEF StartVlmAndIngestLidar, Unwind
  <2>4. QED
    BY <2>1, <2>2, <2>3 DEF Stages
<1>8. CASE RefineOutline(o)
  BY <1>8, <1>e DEF RefineOutline, UnchangedByStage, Stages
<1>9. CASE FitPlanes(o)
  BY <1>9, <1>e DEF FitPlanes, UnchangedByStage, Stages
<1>10. CASE GuardFacets(o)
  BY <1>10 DEF GuardFacets, Stages
<1>11. CASE JoinVlm(o)
  BY <1>11 DEF JoinVlm, Stages
<1>12. CASE Persist(o)
  <2>1. mem[o] = status /\ status \notin Terminal /\ measurements = << >>
    BY <1>12, OpenIsUnmeasured DEF Persist
  <2>2. status' = "ready" /\ mem'[o] = "ready" /\ pc'[o] = "minting"
    BY <1>12, <2>1 DEF Persist, AdvanceTo, UpdateStatus
  <2>3. NewMeasurement(o) \in Measurement
    BY DEF TypeOK, NewMeasurement, Measurement
  <2>4. measurements' # << >> /\ Len(measurements') = 1
    BY <1>12, <2>1, <2>3 DEF Persist
  <2>5. QED
    BY <2>1, <2>2, <2>4 DEF Stages
<1>13. CASE PersistFails(o)
  BY <1>13 DEF PersistFails, Unwind, Stages
<1>14. CASE EnsureReport(o)
  BY <1>14 DEF EnsureReport, Stages
<1>15. CASE BroadcastReady(o)
  BY <1>15 DEF BroadcastReady, Unwind, Stages
<1>16. CASE ExpectedFailure(o)
  <2>1. mem[o] = status /\ status \notin Terminal /\ measurements = << >>
    BY <1>16, OpenIsUnmeasured DEF ExpectedFailure
  <2>2. status' = "failed" /\ mem'[o] = "failed" /\ measurements' = measurements
    BY <1>16, <2>1 DEF ExpectedFailure, FailWith, UpdateStatus
  <2>3. pc'[o] = "done" \/ pc'[o] = "rescue"
    BY <1>16 DEF ExpectedFailure, Unwind
  <2>4. QED
    BY <2>1, <2>2, <2>3 DEF Stages
<1>17. CASE UnexpectedError(o)
  BY <1>17 DEF UnexpectedError, Unwind, Stages
<1>18. CASE Rescue(o)
  <2>1. pc'[o] = "raised" /\ measurements' = measurements
    BY <1>18 DEF Rescue
  <2>2. CASE status' = status
    BY <2>1, <2>2 DEF Stages
  <2>3. CASE mem[o] \notin Terminal /\ FailWith(o, "gave_up")
    <3>1. mem[o] = status /\ status \notin Terminal /\ measurements = << >>
      BY <1>18, <2>3, OpenIsUnmeasured DEF Rescue
    <3>2. status' = "failed"
      BY <2>3, <3>1 DEF FailWith, UpdateStatus
    <3>3. QED
      BY <2>1, <3>1, <3>2 DEF Stages
  <2>4. QED
    BY <1>18, <2>2, <2>3 DEF Rescue
<1>19. CASE RetryOrGiveUp(o)
  BY <1>19 DEF RetryOrGiveUp, Stages
<1>20. QED
  BY <1>1, <1>2, <1>3, <1>4, <1>5, <1>6, <1>7, <1>8, <1>9, <1>10, <1>11, <1>12,
     <1>13, <1>14, <1>15, <1>16, <1>17, <1>18, <1>19 DEF RunStep

\* So does every step of the system around it.
LEMMA SoleNextStep ==
  ASSUME Deliveries = {Original}, Calls = {}, TypeOK, SoleInv, [Next]_vars
  PROVE  SoleInv' /\ SoleStep
<1>1. Runs = {Original}
  BY DEF Runs
<1>2. CASE RunStep(Original)
  BY <1>2, SoleRunStep
<1>3. CASE Environment
  <2> USE DEF row, locals, Goto, SoleStep, SoleInv, CommittedTogether, MeasuredOnce, TypeOK
  <2>1. CASE CallDirectly(Original)
    BY <2>1 DEF CallDirectly
  <2>2. CASE VlmReturns(Original)
    BY <2>2 DEF VlmReturns
  <2>3. CASE Duplicate(Original)
    BY <1>1, <2>3 DEF Duplicate, Working, BeforeFit, AfterFit
  <2>4. CASE Release(Original) \/ Kill(Original)
    BY <1>1, <2>4 DEF Release, Kill, Working, BeforeFit, AfterFit
  <2>5. CASE OpenReport \/ EditInputs \/ WindowPasses
    BY <2>5 DEF OpenReport, EditInputs, WindowPasses
  <2>6. QED
    BY <1>1, <1>3, <2>1, <2>2, <2>3, <2>4, <2>5 DEF Environment
<1>4. CASE UNCHANGED vars
  BY <1>4 DEF vars, row, SoleStep, SoleInv, CommittedTogether, MeasuredOnce
<1>5. QED
  BY <1>1, <1>2, <1>3, <1>4 DEF Next

\* The invariant of the sole delivery holds in every behaviour.
LEMMA SoleKeepsInvariant ==
  ASSUME Deliveries = {Original}, Calls = {}
  PROVE  Spec => []SoleInv
<1>1. Init => SoleInv
  BY RunsAssumption
     DEF Init, SoleInv, CommittedTogether, MeasuredOnce, Working, BeforeFit, AfterFit, Runs
<1>2. TypeOK /\ SoleInv /\ [Next]_vars => SoleInv'
  BY SoleNextStep
<1>3. QED
  BY <1>1, <1>2, TypeCorrect, PTL DEF Spec

\* A job delivered once is measured at most once, through any number of retries,
\* restarts and failed commits (measurement_orchestrator.rb:367-400).
THEOREM SoleMeasuresOnce ==
  ASSUME Deliveries = {Original}, Calls = {}
  PROVE  Spec => []MeasuredOnce
<1>1. SoleInv => MeasuredOnce
  BY DEF SoleInv
<1>2. QED
  BY <1>1, SoleKeepsInvariant, PTL

\* A job delivered once that holds a measurement is ready: the row and the status
\* are committed together, and nobody writes the status afterwards
\* (measurement_orchestrator.rb:367-400).
THEOREM SoleCommitsTogether ==
  ASSUME Deliveries = {Original}, Calls = {}
  PROVE  Spec => []CommittedTogether
<1>1. SoleInv => CommittedTogether
  BY DEF SoleInv
<1>2. QED
  BY <1>1, SoleKeepsInvariant, PTL

\* A job delivered once never leaves a terminal status.
THEOREM SoleTerminalIsFinal ==
  ASSUME Deliveries = {Original}, Calls = {}
  PROVE  Spec => TerminalIsFinal
<1>1. ASSUME TypeOK, SoleInv, [Next]_vars
      PROVE  [(status \in Terminal) => (status' = status)]_vars
  BY <1>1, SoleNextStep DEF SoleStep
<1>2. QED
  BY <1>1, TypeCorrect, SoleKeepsInvariant, PTL DEF Spec, TerminalIsFinal

\* A job delivered once implements JobLifecycle: every step of the pipeline is
\* a Complete, a Fail or invisible to a watcher.
THEOREM SoleImplementsLifecycle ==
  ASSUME Deliveries = {Original}, Calls = {}
  PROVE  Spec => ImplementsLifecycle
<1> DEFINE phase == IF status \in Terminal THEN status ELSE "open"
           measured == measurements # << >>
<1>1. Init => Lifecycle!Init
  BY DEF Init, Lifecycle!Init, Terminal
<1>2. ASSUME TypeOK, SoleInv, [Next]_vars
      PROVE  [Lifecycle!Next]_<<phase, measured>>
  <2>1. SoleStep
    BY <1>2, SoleNextStep
  <2>2. CASE \/ status' = status /\ measurements' = measurements
             \/ status \notin Terminal /\ status' \notin Terminal /\ measurements' = measurements
    BY <2>2
  <2>3. CASE /\ status \notin Terminal /\ status' = "ready"
             /\ measurements = << >> /\ Len(measurements') = 1 /\ measurements' # << >>
    BY <2>3 DEF Lifecycle!Next, Lifecycle!Complete, Terminal
  <2>4. CASE status \notin Terminal /\ status' = "failed" /\ measurements' = measurements
    BY <2>4 DEF Lifecycle!Next, Lifecycle!Fail, Terminal
  <2>5. QED
    BY <2>1, <2>2, <2>3, <2>4 DEF SoleStep
<1>3. QED
  BY <1>1, <1>2, TypeCorrect, SoleKeepsInvariant, PTL
     DEF Spec, ImplementsLifecycle, Lifecycle!Spec

-----------------------------------------------------------------------------
(* Giving up: without failing transactions the copy the rescue looks at is  *)
(* the row, so the last attempt ends the job.                               *)

GiveUpInv ==
  /\ lastError = "gave_up" => LastAttempt(Original)
  /\ pc[Original] = "rescue" => mem[Original] = status
  /\ pc[Original] = "raised" /\ LastAttempt(Original) => status \in Terminal
  /\ pc[Original] = "exhausted" => status \in Terminal

\* Only the rescue and retry_on bear on it; any other step has to keep the copy true.
LEMMA GiveUpQuiet ==
  ASSUME GiveUpInv, UNCHANGED attempts, lastError' = lastError \/ lastError' # "gave_up",
         pc'[Original] \notin {"raised", "exhausted"},
         pc'[Original] = "rescue" => mem'[Original] = status'
  PROVE  GiveUpInv'
BY DEF GiveUpInv, LastAttempt

LEMMA GiveUpRunStep ==
  ASSUME Deliveries = {Original}, Calls = {}, "commit" \notin Faults,
         TypeOK, SoleInv, GiveUpInv, RunStep(Original)
  PROVE  GiveUpInv'
<1> DEFINE o == Original
           Quiet == /\ UNCHANGED attempts /\ (lastError' = lastError \/ lastError' # "gave_up")
                    /\ pc'[o] \notin {"raised", "exhausted"}
                    /\ pc'[o] = "rescue" => mem'[o] = status'
<1>f. o \in Runs /\ pc \in [Runs -> PC] /\ mem \in [Runs -> Status]
  BY DEF TypeOK, Runs
<1>w. pc[o] \in Working => mem[o] = status /\ status \notin Terminal /\ measurements = << >>
  BY OpenIsUnmeasured DEF SoleInv
<1>v. Working = {"lookup", "start", "joining", "persisting"} \cup Stages
  BY DEF Working, BeforeFit, AfterFit, Stages
<1> USE <1>f, <1>w, <1>v DEF Goto, row, locals
<1>e. ASSUME NEW s \in Stages, EnterStage(o, s), pc[o] \in Working, UNCHANGED <<attempts, lastError>>
      PROVE  Quiet
  <2>1. status' = mem'[o] /\ pc'[o] \in {s, "rescue"}
    BY <1>e DEF EnterStage, AdvanceTo, UpdateStatus, Unwind
  <2>2. QED
    BY <1>e, <2>1 DEF Stages
<1>1. CASE Perform(o)
  BY <1>1, GiveUpQuiet DEF Perform, FindJob
<1>2. CASE ReuseCached(o)
  BY <1>2 DEF ReuseCached, CacheHit
<1>3. CASE StartPipeline(o)
  BY <1>3, GiveUpQuiet DEF StartPipeline
<1>4. CASE ResolveAddress(o) \/ RenderImagery(o) \/ DetectFeatures(o) \/ RefineOutline(o) \/ FitPlanes(o)
  <2>1. PICK s \in Stages : EnterStage(o, s)
    BY <1>4 DEF ResolveAddress, RenderImagery, DetectFeatures, RefineOutline, FitPlanes, Stages
  <2>2. pc[o] \in Working /\ UNCHANGED <<attempts, lastError>>
    BY <1>4 DEF ResolveAddress, RenderImagery, DetectFeatures, RefineOutline, FitPlanes,
       UnchangedByStage, Stages
  <2>3. Quiet
    BY <1>e, <2>1, <2>2
  <2>4. QED
    BY <2>3, GiveUpQuiet
<1>5. CASE StartVlmAndIngestLidar(o)
  <2>1. status' = mem'[o] /\ pc'[o] \in {"fetching_lidar", "rescue"} /\ UNCHANGED <<attempts, lastError>>
    BY <1>5 DEF StartVlmAndIngestLidar, AdvanceTo, UpdateStatus, Unwind, UnchangedByStage, Stages
  <2>2. QED
    BY <2>1, GiveUpQuiet
<1>6. CASE GuardFacets(o) \/ JoinVlm(o) \/ Persist(o) \/ EnsureReport(o)
  <2>1. pc'[o] \in {"joining", "persisting", "minting", "announcing"} /\ UNCHANGED <<attempts, lastError>>
    BY <1>6 DEF GuardFacets, JoinVlm, Persist, EnsureReport
  <2>2. QED
    BY <2>1, GiveUpQuiet
<1>7. CASE PersistFails(o)
  BY <1>7 DEF PersistFails
<1>8. CASE BroadcastReady(o)
  BY <1>8, GiveUpQuiet DEF BroadcastReady, Unwind, SoleInv
<1>9. CASE ExpectedFailure(o)
  <2>1. pc[o] \in Working
    BY <1>9 DEF ExpectedFailure
  <2>2. status' = mem'[o] /\ pc'[o] \in {"done", "rescue"} /\ lastError' = "expected" /\ UNCHANGED attempts
    BY <1>9, <2>1 DEF ExpectedFailure, FailWith, UpdateStatus, Unwind
  <2>3. QED
    BY <2>2, GiveUpQuiet
<1>10. CASE UnexpectedError(o)
  <2>1. mem[o] = status /\ pc'[o] = "rescue" /\ UNCHANGED <<mem, status, attempts, lastError>>
    BY <1>10 DEF UnexpectedError, Unwind, SoleInv
  <2>2. QED
    BY <2>1, GiveUpQuiet
<1>11. CASE Rescue(o)
  <2>1. pc[o] = "rescue" /\ mem[o] = status /\ pc'[o] = "raised" /\ UNCHANGED attempts
    BY <1>11 DEF Rescue, GiveUpInv
  <2>2. lastError' = "gave_up" => LastAttempt(o)
    BY <1>11, <2>1 DEF Rescue, GiveUpInv
  <2>3. LastAttempt(o) => status' \in Terminal
    BY <1>11, <2>1 DEF Rescue, FailWith, UpdateStatus, Terminal
  <2>4. QED
    BY <2>1, <2>2, <2>3 DEF GiveUpInv, LastAttempt
<1>12. CASE RetryOrGiveUp(o)
  BY <1>12 DEF RetryOrGiveUp, GiveUpInv, LastAttempt
<1>13. QED
  BY <1>1, <1>2, <1>3, <1>4, <1>5, <1>6, <1>7, <1>8, <1>9, <1>10, <1>11, <1>12 DEF RunStep

LEMMA GiveUpNext ==
  ASSUME Deliveries = {Original}, Calls = {}, "commit" \notin Faults,
         TypeOK, SoleInv, GiveUpInv, [Next]_vars
  PROVE  GiveUpInv'
<1>1. Runs = {Original}
  BY DEF Runs
<1>2. CASE Environment
  <2> USE DEF row, locals, Goto, TypeOK
  <2>1. CASE CallDirectly(Original)
    BY <2>1 DEF CallDirectly
  <2>2. CASE VlmReturns(Original) \/ OpenReport \/ EditInputs \/ WindowPasses
    BY <2>2 DEF VlmReturns, OpenReport, EditInputs, WindowPasses, GiveUpInv, LastAttempt
  <2>3. CASE Duplicate(Original) \/ Release(Original) \/ Kill(Original)
    <3>1. pc'[Original] \in {"queued", "lost"} /\ UNCHANGED <<attempts, lastError>>
      BY <1>1, <2>3 DEF Duplicate, Release, Kill
    <3>2. QED
      BY <3>1, GiveUpQuiet
  <2>4. QED
    BY <1>1, <1>2, <2>1, <2>2, <2>3 DEF Environment
<1>3. CASE UNCHANGED vars
  BY <1>3 DEF vars, row, locals, GiveUpInv, LastAttempt
<1>4. QED
  BY <1>1, <1>2, <1>3, GiveUpRunStep DEF Next

LEMMA SoleGivesUp ==
  ASSUME Deliveries = {Original}, Calls = {}, "commit" \notin Faults
  PROVE  Spec => []GiveUpInv
<1>1. Init => GiveUpInv
  BY RunsAssumption DEF Init, GiveUpInv, Runs
<1>2. TypeOK /\ SoleInv /\ GiveUpInv /\ [Next]_vars => GiveUpInv'
  BY GiveUpNext
<1>3. QED
  BY <1>1, <1>2, TypeCorrect, SoleKeepsInvariant, PTL DEF Spec

\* A job delivered once whose attempts are used up is ready or failed, whatever
\* crashed and whatever was released, unless a transaction failed
\* (geometry_job.rb:46-49).
THEOREM SoleExhaustedIsTerminal ==
  ASSUME Deliveries = {Original}, Calls = {}, "commit" \notin Faults
  PROVE  Spec => []ExhaustedIsTerminal
<1>1. GiveUpInv => ExhaustedIsTerminal
  BY DEF GiveUpInv, ExhaustedIsTerminal
<1>2. QED
  BY <1>1, SoleGivesUp, PTL

\* The terminal "gave up" of a job delivered once is never written while a retry
\* is still owed (geometry_job.rb:14-20).
THEOREM SoleNoRetryDefeated ==
  ASSUME Deliveries = {Original}, Calls = {}, "commit" \notin Faults
  PROVE  Spec => []NoRetryDefeated
<1>1. GiveUpInv => NoRetryDefeated
  BY DEF GiveUpInv, NoRetryDefeated
<1>2. QED
  BY <1>1, SoleGivesUp, PTL
=============================================================================
