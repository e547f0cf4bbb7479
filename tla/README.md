# RoofTrace in TLA+

RoofTrace measures roofs. A contractor submits an address; a Rails application
runs a pipeline of calls to a Python geometry service (the *sidecar*), stores a
measurement and publishes a report; an iOS application can add an on-site
capture that refines the measurement. This directory holds TLA+ models of the
parts of that program whose correctness depends on order, interleaving and
failure, the TLC configurations that check them, and proofs of the main results.

## The system

| Part | State it keeps | Operations | What is hard |
|---|---|---|---|
| Measurement pipeline (`GeometryJob`, `MeasurementOrchestrator`, `Job`, `VlmRunner`, `MeasurementIdempotencyCache`) | `jobs` row (status, last_error), `measurements` rows, `reports` row; per run: an in-memory copy of the row, a warnings buffer, a detection thread | create, perform, nine stages, persist, mint report, broadcast, fail, retry | at-least-once delivery, retries, shutdowns between steps, a thread beside the stages, a guard on an in-memory copy |
| Status page (Turbo stream, reconcile fetch) | what the browser shows | broadcast, connect, reconcile | broadcasts are not replayed; a fetch races a broadcast |
| Fusion and photo projection (`FusionJob`, `ProjectionJob` and their orchestrators) | fused `measurements` rows, warnings on older rows, `projected_overlays` | fuse, append warning, persist, enqueue projection, project one photo | several sessions of one job, two workers, crash between persist and enqueue |
| Capture ingest (`CaptureSessionsController`, `CaptureBundle::Uploader`, `CaptureSessionIngester`) | blobs under per-job keys, `capture_sessions` and `captures` rows | upload, persist, resolve duplicate, enqueue | retried uploads, concurrent uploads, crash between commit and enqueue |
| Report PDF (`ReportPdf`) | stored PDF and its time stamp | render, reuse | a measurement committed during a render |
| Feature detector (`FeatureDetector::OpenRouter`) | cached detections | detect, verify | partial failure of a batch of model calls |
| Sidecar: address resolution | three in-process caches with a time to live, the index of the footprint dataset and its lock | geocode, parcel, footprints | threads sharing caches and a lock, a dataset republished under its index, degraded answers that must not be remembered |
| Sidecar: LiDAR ingest | the boundaries index, arrays in object storage | coverage, resources, crop, extract, store | a gap in the data told from a read that failed |
| Sidecar: geometry stages (outline, plane fit, roof model, fusion, photo overlay) | none between calls | one HTTP handler each | the mask may be anything; loops that peel and merge; exact tests at thresholds; frames and zones |
| Sidecar: start-up and flags | the environment | boot checks, first call of each stage | two tables that must agree |
| Sidecar: imagery and report images | none | fetch a tile, render in a browser | I/O |
| iOS (capture flow, uploads, polling, typeahead) | view-model state | walk-around, upload and retry, poll, select | callbacks out of order, cancellation |
| Web typeahead | the suggestion list | type, answer, select | answers out of order |
| Deployment (`infra/deploy.sh`) | release directories, `current` link, containers | sync, swap, build, up, health gate, roll back, prune | failure at every step |

The parts meet in the database rows, in the job queue (Solid Queue: at least
once, retries with a stored counter), in the Turbo streams (at most once) and in
object storage. `PROJECT.json` lists every component with its status, and the
hazards with the line of code at which each one bites.

What makes each part correct:

- *Pipeline*: a job ends, once, ready with a measurement or failed with a
  reason; row and status commit together; the warnings of a measurement tell what
  it lacks; a retry does the work that is left, and the last one fails the job.
- *Status page*: whoever watches sees the final status in the end.
- *Fusion*: a capture only adds: no measurement is lost or altered but for its
  warnings, a session is fused once, and one that is not leaves a warning.
- *Projection*: every photo ends with a picture that passed the confidence gate
  or with a flag, and a retry loses no picture.
- *Capture ingest*: a stored session has its blobs and is fused once however often
  it is sent; the app says complete only of what is stored.
- *Report PDF*: the file served is of the newest measurement.
- *Feature detector*: a fallback is labelled as one, and a cached detection is of
  the inputs it is served for.
- *Address resolution*: an answer lists buildings of its own address, degrades with
  a warning, and never turns an upstream error into "no buildings"; one download
  of the index at a time, and no thread waits for it for ever.
- *LiDAR ingest*: "missing" means a gap in the data; read errors fail the stage, but
  for those whose text the code takes for a gap.
- *Geometry stages*: no roof area is lost or counted twice, the outline neither
  vanishes nor sprawls, a fused answer is placed, every facet of a photo is drawn
  or listed as hidden.
- *Start-up*: what starts can serve, and serves for real unless told otherwise.
  (It is not so: see the `boot` run.)
- *iOS, typeahead*: the view shows the answer to the last question asked, and no
  state is a dead end for the user.
- *Deployment*: the running release passed its health gate, and a failed deploy
  leaves the previous one running.

## Modules

| Module | Models |
|---|---|
| `JobLifecycle` | what a job promises: it ends once, ready with a measurement or failed without one |
| `JobPipeline` | the measurement pipeline, one action per stage or handler |
| `MeasurementTable` | what the measurements of a job promise: rows are only added, each capture refines an earlier LiDAR row, warnings are not withdrawn |
| `CaptureFusion` | `FusionJob` and `FusionOrchestrator` on one job |
| `PhotoProjection` | `ProjectionJob` and `ProjectionOrchestrator` on one job |
| `CaptureUpload` | the upload of capture bundles, from the app's button to the enqueue of `FusionJob` |
| `CaptureIngest` | what the upload promises: a bundle is stored once, under one job, fused on one request, and confirmed to the app only when it is stored |
| `SidecarWorld` | the constants the sidecar's modules share: callers, buildings |
| `AddressResolution` | `/pipeline/resolve-address`: threads, caches, index and lock |
| `LidarIngest` | `/pipeline/ingest-lidar`: coverage, resources, reads and the stored array |
| `OutlineRefinement` | `/pipeline/refine-outline`: SAM2's mask against the footprint |
| `RoofModel` | `build_roof_model`, as operators on a cross-section of a roof |
| `PlaneFit` | `/pipeline/fit-planes` and `/pipeline/fallback-measurement` |
| `FuseCapture` | `/pipeline/fuse-capture`: alignment, frame and the second fit |
| `PhotoOverlay` | `/pipeline/project-photo`: occlusion, drawing and labels |
| `SidecarBoot` | boot checks against what each stage uses |
| `Sidecar` | the process: all of the above composed, and their properties |
| `MC_...` | the instances of each for TLC |
| `JobPipelineProofs`, `CaptureFusionProofs`, `PhotoProjectionProofs`, `CaptureUploadProofs`, `SidecarProofs`, `GeometryProofs`, `SupportProofs` | the theorems |

The modules meet at the edges the program has: `CaptureUpload` ends where it
enqueues a `FusionJob`, `CaptureFusion` starts there (`Enqueue`) and takes the
pipeline's commits as an environment action (`PipelineCommits`, what
`JobPipeline!Persist` does); it ends with the enqueue of a `ProjectionJob`, where
`PhotoProjection` starts. Each environment may do more than the neighbouring
model does (a job is delivered twice, a measurement appears at any time); the
constants of an instance say how much of it the instance explores. `JobPipeline`
takes any outcome of a sidecar call; `Sidecar` is the other side of those calls,
with callers that send what `MeasurementOrchestrator` sends, an address first and
a building of the answer next, each again after a failure.

An operator whose comment starts with *Faulty variant* is not part of a model: it
is a plausible mistake in the definition after it, kept to see that the
properties tell the two apart (`mutants` in `PROJECT.json`).

### JobPipeline

A *run* is one execution context: a delivery of `GeometryJob` to a worker
thread, or a direct call of `MeasurementOrchestrator.call`. `status`,
`lastError`, `measurements`, `report` are the database; `mem` and `seen` are the
run's copy of the row, loaded once by `Job.find`. `pc` says where a run is; a
stage name means that stage's sidecar call is out. An action takes the result of
the call that is out and goes on up to the next committed write, because that is
what another run can observe.

| Action | Code |
|---|---|
| `Perform` | `GeometryJob#perform` up to the terminal guard |
| `CallDirectly` | `MeasurementOrchestrator.call` without a delivery (the validation task; a re-run) |
| `ReuseCached`, `StartPipeline` | `cached_measurement` hit; miss with `reset_for_rerun!` |
| `ResolveAddress` … `GuardFacets` | the stages of `run_pipeline_stages`, in the code's order |
| `VlmReturns`, `JoinVlm`, `Cleanup` | the detection thread |
| `Persist`, `PersistFails` | the transaction of row and status, committed or rolled back |
| `EnsureReport`, `BroadcastReady` | after the commit |
| `ExpectedFailure` | the four rescues of `call` (`fail_with!`, no retry) |
| `UnexpectedError`, `Rescue`, `RetryOrGiveUp` | any other error, `GeometryJob`'s rescue, `retry_on` |
| `Duplicate`, `Release`, `Kill` | the queue: a second delivery, a graceful shutdown, a killed process |
| `OpenReport`, `EditInputs`, `WindowPasses` | the report page, an edit of the inputs, the idempotency window running out |

Choices a reader should know:

- Active Record writes an attribute only if the in-memory value changes, so
  `UpdateStatus` leaves the row alone when the copy already has the status.
- After a rolled-back transaction Rails restores a new record's state but keeps
  the assigned attributes of an updated one: `PersistFails` leaves `mem` at
  `ready`.
- A graceful shutdown puts a claimed job back without advancing its counter; a
  process that is killed has its claimed jobs marked failed and nothing runs
  them again (`lost`).
- Stage results are abstracted to what the properties tell apart: LiDAR
  available or missing, outline refined or not, features found or not, and the
  warnings each leaves.
- Row order in `measurements` is commit order; the code orders by
  `generated_at`, taken inside the transaction.
- No code edits a job's address or selection yet. The cache's fingerprint and
  `reset_for_rerun!` are written for such an edit, so `EditInputs` and a direct
  call on an existing job stand for it; only `rerun` uses them.

### CaptureFusion

`rows` are the job's measurements, oldest first: the pipeline's and the fused
ones, each with its base (the row it refines), confidence and warnings. A
delivery's `prior` and `known` are the measurement it loaded and its warnings as
loaded; both are held across a sidecar call that takes minutes.

| Action | Code |
|---|---|
| `Perform` | `FusionJob#perform`: the already-fused check (the first read of the latest row) |
| `LoadPrior` | `FusionOrchestrator#call` up to the `started` broadcast (the second read) |
| `Skip`, `Diverge`, `SidecarError` | the three failures that leave a warning |
| `PersistFused`, `Announce`, `EnqueueProjection` | the fused row, then the broadcast, then the `ProjectionJob`: three separate effects |
| `UnexpectedError`, `Rescue`, `RetryOrGiveUp` | `FusionJob`'s rescue and `retry_on` |
| `Enqueue`, `Release`, `Kill`, `PipelineCommits` | the capture endpoint, the queue, the measurement pipeline |

`AppendFailureWarning(i, have, message)` is the code's read-modify-write of the
JSON array: it writes `have \cup {message}`, where `have` is what the caller saw,
not what the row holds. Seen through `MeasurementTable`, whose `table` are the rows,
`PersistFused` refines, `PipelineCommits` measures, the four steps that call
`AppendFailureWarning` warn, and the rest stutters; whether a job has more than one
delivery is the abstract module's `Overlapping`. Confidences are in 1/10000 and residuals in mm, so that
the clamp and the threshold of 0.5 m are exact.

### PhotoProjection

`overlays` is the `projected_overlays` table, one row per photo or `Absent`. A
delivery walks the photos (`photo`), computes what it will save (`next`), finds
the photo's row (`found`) and saves it.

| Action | Code |
|---|---|
| `Perform` | the guards of `ProjectionOrchestrator#call` |
| `ProjectOne` | `project_one` up to the sidecar call, or the low-confidence overlay without one |
| `SidecarAnswers`, `SidecarFails` | the call's outcomes, with the gate checked again on the narrowed score |
| `FindOverlay`, `SaveOverlay`, `InsertCollides` | `find_or_initialize_by` and `save!`, apart |
| `Broadcast` | the end of the loop, and the decision to raise so that the job is retried |
| `UnexpectedError`, `Rescue` | errors outside the sidecar; `ProjectionJob`'s rescue with `retry_on` |
| `Measure`, `Enqueue`, `Release` | a new latest measurement, a trigger, a worker shutdown |

`Changed` is Active Record's partial update: a save writes only the columns that
differ from the copy found, so the rows of overlapping deliveries may mix.
`FlagMatchesComposite` says which columns may disagree then: never the picture and
the flag, and the confidence only once a second delivery was enqueued.

### CaptureUpload

`client`, `attempt`, `sent` are the app; `request[u][n]` says where the n-th
request of bundle u is on the server, or its answer until the app takes it;
`blobs`, `row`, `enqueued` are storage, the `capture_sessions` table and the queue.

| Action | Code |
|---|---|
| `Start`, `RetryUpload`, `SaveBundleLocally` | the buttons of `CaptureViewModel` |
| `Succeeds`, `Unauthorized`, `OtherStatus`, `TransportFails` | the outcomes of one attempt in `MultipartUploader.upload` |
| `Authenticate` | the token check |
| `PutBlob`, `StorageFails` | `CaptureBundle::Uploader`, one blob per step |
| `Persist`, `ResolveDuplicate` | `CaptureSessionIngester`: the insert, or the row that is there already |
| `EnqueueFusion`, `EnqueueFails` | `FusionJob.perform_later` after the commit |
| `Crash` | a server process that dies with the request |

A request the app gave up on goes on running: that is what makes a retry race
its predecessor. Blob keys are per job (`UploadKey`), session ids are unique over
all jobs. `PutBlob` writes every part of the bundle: the code skips a part the request
does not carry, and the app sends all of them.

Seen through `CaptureIngest`, whose `row` and `enqueued` are the same and whose
`confirmed` are the bundles the app shows as complete, every action but three
is a stutter: `Persist` stores, `EnqueueFusion` asks for the fusion, and
`Succeeds` confirms.

### Sidecar

A *caller* `r` is a job's pipeline; FastAPI serves its calls on a thread. `req[r]`
and `ing[r]` are the local state of its address and ingest calls and, once `done`,
their answers. `geocodeCache`, `parcelCache`, `footprintCache`, `index`,
`indexLock` and `eptIndexLoaded` are the process's, and a restart empties them;
`blobs` is object storage and survives; `edition` is the publisher's. Each action
runs up to the next access of something shared or the next upstream call.

| Action | Code |
|---|---|
| `Resolve`/`Receive`, `IngestChosen`/`ReceiveIngest` | a call arrives |
| `Geocode`, `NominatimAnswers`, `NominatimFails` | cache lookup, then `nominatim.py` |
| `LookUpParcel`, `RegridAnswers`, `RegridDegrades` | cache lookup, then `regrid.py`; every failure degrades to a warning |
| `LookUpFootprints`, `TestIndex`, `LockIndex`, `IndexAnswers`, `IndexFails` | cache lookup, then the double-checked load of `_load_dataset_index` |
| `TileAnswers`, `TileFails` | one building tile; 404 means no buildings |
| `CheckCoverage`, `ResolveResources`, `IndexUnavailable` | WESM units, boundaries index, guesses from unit names |
| `Crop`, `CropAbsent`, `CropFails`, `NoResource` | the loop of `ingest_lidar` over `PdalCropper.crop`: the resource is read, its error is taken for an absence, or its error is retried and fails the stage |
| `Extract`, `Store`, `IngestFails` | what follows the loop; any other exception, not retried |
| `Restart`, `Republish` | the process dies; the dataset moves to new dated paths |
| `LoadTile`, `Rasterise`, `Infer`, `Compare`, `Vectorise` | `outline/router.py`, with IoU as cardinalities of pixel sets |
| `PeelPlane`, `StopPeeling`, `Merge`, `Measure`, `FallBack` | `plane_fit.py` and the router's choice of an answer |
| `ReadManifest` … `Refit`, `RefuseBlob`, `FuseRaises` | `fuse_capture/router.py`: refusals it foresees (413, 422) and exceptions it does not (500) |
| `LoadPhoto`, `LoadMeshFaces`, `Project`, `StorePhoto` | `project_photo/router.py` and the overlay it draws |
| `Boot`, `CallStage` | `boot_checks.py`; the first call of a stage |

Choices a reader should know:

- A time to live is left open: at any lookup an entry may be past it.
- The geometry stages share nothing and keep nothing between calls, so that
  interleaving them shows nothing new. `Next` makes one call of one of them in a
  process that serves nothing else (`NoStage`, `CallsInit`), which keeps the
  instance small without leaving out a behaviour of any call.
- Geometry is exact on a cross-section of a roof: a *place* is a strip of the plan
  1.25 m wide and 5 m deep, heights are multiples of 0.25 m, a plane is a line
  with slope -3, 0 or 3 of those per place. A plane's offset is kept as a sum and a
  count, so that every threshold (0.45 m to explain a return, 0.3 m to merge, 1 m of
  gap, 12 m² of facet) is an integer comparison. RANSAC samples at random;
  `PeelPlane` takes any plane the residual supports. The three-dimensional
  boundary work (concave hulls, valley and ridge seams that run obliquely, edges
  and their classification) has no counterpart in a cross-section.
- SAM2's mask is any set of pixels, ICP converges or not, ray casts and projection
  give any shape: what numerical code computes is an input, what the handler does
  with it is modelled.
- A resource is absent, for the code, when the text of the read error holds one of five
  markers (`404`, `Not Found`, `AccessDenied`, ...). A resource that does not exist is
  never read; an error of one that does may hold a marker if the resource is
  `Mistakable` (a tile of it answers 404 or 403), and then counts as absent without a
  retry, or may not, and is then retried.
- What a fix's longitude gives is any of `GpsCodes`: the zones, and the 61st (code
  32661) that the formula makes of 180° east, which the handler accepts.
- Nominatim answers a place for an address; the same address may be given
  different places at different times (`Geocodes`).

## Runs

| Run | Instance | Shows |
|---|---|---|
| `single` | one delivery, 3 attempts, 2 shutdowns, failing broadcasts and report mints | `TypeOK`, `MeasuredOnce`, `NoOrphanVlm`, `ExhaustedIsTerminal`, `NoRetryDefeated`; `ImplementsLifecycle` (every step is a step of `JobLifecycle`); `Settles` |
| `rerun` | a delivery beside a second one or beside a direct call, 2 attempts per delivery, one edit, failing commits, kills | `CallCoversItsInputs`: the caller gets a measurement of the inputs it read; what survives an overlap: `ReadyHasMeasurement`, `HonestMeasurements` |
| `fusion_single` | one delivery, 3 attempts, 2 shutdowns, 2 pipeline rows, failing broadcasts | `TypeOK`, `FusedOnce`, `EndsVisibly`, `EveryDeliveryEnds`; `ImplementsTable` (every step is a step of `MeasurementTable`: no warning is lost) |
| `fusion_sessions` | two sessions of one job side by side, captures before the first measurement, kills | `FusedRefinesLidar` |
| `projection` | two overlapping deliveries over two photos, residuals on both sides of the gate (250 and 251 mm), a narrowed score, a fault | `FlagMatchesComposite`, `EveryPhotoAccounted`, `RetryKeepsPictures`, `EveryDeliveryEnds` |
| `upload` | any two of three bundles (one session id under two jobs, two ids under two jobs, two ids under one job), timeouts, lost answers, a user's retry, a crash | `RefsResolve`, `FusesOwnBlobs`, `CompleteMeansFused`; `ImplementsIngest` (every step is a step of `CaptureIngest`); `UploadEnds` |
| `sidecar` | two callers over shared caches, a restart and a republished dataset at any time; one call of every geometry stage; every start-up environment that misses at most one part | `TypeOK`, `OneIndexDownload`, `AnswersItsAddress`, `ParcelIsHonest`, `MissingIsAGap`; `PlanesPartition`, `RoofIsDivided`, `SupportsKept`, `OutlineIsBounded`, `FusedIsPlaced`, `EveryFacetAccounted`; `BootCoversRuntime`; `EveryCallEnds` |
| `resurrect` | two deliveries | *violation* of `TerminalIsFinal` |
| `noreport` | one delivery, one shutdown | *violation* of `ReadyHasReport` |
| `commit` | one delivery, failing commits | *violation* of `ExhaustedIsTerminal` |
| `fusion_second` | two sessions, one after the other | *violation* of `SkippedMeansDone` |
| `boot` | the start-up environments of `sidecar` | *violation* of `StartedIsReal` |

### Bounds

- Three attempts is the code's own constant (`MAX_ATTEMPTS` of every job); two
  where two deliveries overlap, enough for a first attempt, a retry and the last
  one's different rescue. The app's two attempts per upload are its own constant.
- Two deliveries are the least that overlap, and every property relates at most
  two of them. `MaxRuns` (two) is how many deliveries and calls take part in one
  behaviour of `JobPipeline`: `rerun` has a second delivery and a call to choose from. Two shutdowns let one fall before and one after a commit.
- Two pipeline rows: one that a delivery holds as its prior and one that becomes
  the latest meanwhile. Two photos: one that succeeds and one that fails in the
  same attempt. Two blobs: one that is written when the second fails.
- Residuals and scores are the values around each threshold (499 and 500 mm; 250
  and 251 mm, whose scores are 0.7 and just below; 0.6999).
- `MaxUploads` (two) is how many of the three bundles are sent in one behaviour. Each
  pair is another case: `u1`, `u2` have one session id under two jobs (the duplicate of
  another job), `u1`, `u3` nothing in common (nothing of one may reach the other), `u2`,
  `u3` two ids under one job (they share their keys). One bundle is retried by the user.
- The user's retry waits until no earlier request of the bundle runs
  (`RetryUpload`); within one upload the second attempt races the first without
  such a bound.
- Sidecar: two callers, both of which may ask for one address, so that a cache hit,
  a lost lock and a stale index all happen between them. One address may be put at
  two places, one with a parcel and buildings and one on a tile without a row. One
  republication (`MaxEdition`) makes an index stale; more only repeat it. Of three
  resources one is gone, one holds a roof for one building only and its errors may be
  taken for an absence, one holds a roof for both; a read fails at most twice
  (`ReadAttempts` is the code's own constant). The parcel of one place leaves out one of
  the two buildings near it, so that an answer with the parcel and one without differ.
- Geometry: nine roofs (gable, valley, hip, hip with a gap, double gable, steps to
  be merged, shed dormer, two planes on one side of their seam, porch) and one with a wall, two sparse clouds, four
  outlines, one of them cutting the roof and one empty: 12 places, so that four
  facets of three places fit. Nine pixels and four footprints, one of two parts and
  one empty, against all 512 masks. Four EPSG codes: two zones, the 61st of 180° east and a native
  system. Eighteen facet shapes, two facets at a time: label order needs two.
- `CHECK_DEADLOCK FALSE` everywhere: a job that is done has no next step.

### Fairness

The fair specifications of the Rails side and the app ask weak fairness of each
delivery's own steps
(`DeliveryStep`, `RunStep`) or of the app's attempt, and of nothing else. A worker
thread goes on executing: every sidecar call carries a client timeout and the
join of the detection thread has a deadline (60 s, then 5 s of grace), so no step
waits for ever. An upload attempt ends because `URLSession` times it out; nothing
is asked of the server. No fairness is asked of the queue's duplicates, of
shutdowns, of the user or of the clock. Kills are left out of the fair runs: a
killed process's job is never run again, by design of the queue.

In the sidecar every upstream call carries a timeout, so a call that is served goes
on (`WF` of `Serve`); a thread that finds the index lock free again and again gets
it (`SF` of `LockIndex`: the operating system does not starve a thread waiting for
a `threading.Lock` that is released over and over); a geometry stage computes on
(`WF` of `StageStep`, for the steps that loop: the model itself is one computation
without a loop, and stated apart because its `ENABLED` is costly to evaluate). No
fairness is asked of callers, of upstream answers being good, or of restarts.

## What is proved

TLC checks the small instances above; the theorems hold for every number of
deliveries, sessions, bundles, blobs, retries and faults.

**JobPipeline.** `TypeCorrect`, `VlmNeverOrphaned`, `MeasurementsHonest` and
`ReadyIsMeasured` hold for any deliveries and calls. The inductive invariant of
the first three is per run (`RunInv`): where the run's thread may exist, and that
its notes agree with its LiDAR outcome once it is past the stage that decides
them. It is needed because `HonestMeasurements` speaks of rows, and a row is
honest because of what its run knew when it wrote it. `ReadyIsMeasured` rests on
two facts: no step shortens `measurements`, and only `Persist` and a cache hit
write `ready`, both with a row there. `CallsCoverTheirInputs` (a direct call that
returns a measurement returns one that covers the inputs it read, whatever else
writes to the job) rests on the same two: rows stay what they were (`RowsStay`),
and a call returns only the row it found or wrote (`HowCallsEnd`).

`ReadyIsReported` (a ready job has a report) assumes that no worker is shut down
or killed and no mint fails: then whoever writes `ready` mints before it is
anything else's turn to stop (`Minted`). The `noreport` run shows that the
assumption on shutdowns cannot be dropped.

For a job with a single delivery and no direct call (`SoleMeasuresOnce`,
`SoleCommitsTogether`, `SoleTerminalIsFinal`, `SoleImplementsLifecycle`): the run's copy agrees with
the row while it works, so the terminal guard means what its comment says. The
`resurrect` run shows that the assumption cannot be dropped. Where no transaction
fails either (`SoleExhaustedIsTerminal`, `SoleNoRetryDefeated`), the copy the rescue
looks at is the row (`GiveUpInv`), so the last attempt ends the job and no earlier
one does; the `commit` run shows that this assumption cannot be dropped either.

**CaptureFusion.** `FusionTypesHold` and `RefinesLidar`, for any deliveries, sessions
and faults. The inductive invariant `FusionInv` adds that a delivery about to fuse
holds the index of a row with LiDAR; every step keeps old rows in place and
changes at most their warnings (`RowsKept`), so the index still means that row
when the sidecar answers.

For a job with a single delivery (`SoleFusesOnce`; `SoleEndsVisibly` also assumes that
captures come after the first measurement): between the already-fused check and the
fused row only the pipeline writes rows (`NewestIsPlain`), and the copy of the
prior's warnings is never ahead of the row (`TraceInv`), so a warning that is
skipped as known really is there. With two deliveries neither holds.

`TableImplemented` is the refinement of `MeasurementTable`, for any deliveries: a row
once written keeps its source, confidence and lineage, whatever runs beside it; a
fused row is added behind a LiDAR row it was computed from; a warning only replaces
warnings. With one delivery it says more, and needs more: that no two fused rows are
neighbours (`NewestIsPlain` again) and that no warning is lost, because the copy a
delivery writes back after minutes has every warning the row has (`Held`, the
converse of what `TraceInv` says of the same copy).

**PhotoProjection.** `ProjectionTypesHold`, `FlagsMatch` and `PhotosAccounted`, for any
deliveries, photos, residuals, answers and faults. The inductive invariant
`ProjectionInv` says of each delivery that the photos before its own have an
overlay, and that the row it is about to save, like the copy it found, has either
a picture or the flag (`DeliveryInv`). The heart of `FlagsMatch` is `MixedMatches`:
of three rows that match, taking each column from the new row where it differs
from the copy, and from the stored row elsewhere, takes both columns from the same
row, because each is the other's negation.

The second half of the property needs an invariant of its own. `ScoreInv` says that
as long as one delivery has ever been enqueued every stored overlay, and every row
that delivery is about to save, is drawn exactly where its confidence is acceptable
(`Scored`), and that what it found is still what is stored, so that a save writes
the row decided on and no mixture. It survives every restart, retry and error of
that delivery: whatever it forgets, it never leaves half a row. `Sole` is needed: TLC
shows two deliveries, one that found the overlay before the other drew it, leave a
picture with no score.

`PicturesKept` adds `RetryInv`: as long as one delivery is alone and nothing crashed,
every picture is the current attempt's own and lies behind the photo it is at, an
attempt that is retried has drawn none, and what it found is still what is stored.

**CaptureUpload.** `UploadTypeCorrect`, `RefsAlwaysResolve`, `FusionEnqueuedOnce`
and `CompleteIsStored`, for any bundles, any collisions of session ids and keys,
any number of blobs, retries and crashes. The inductive invariant `UploadInv` adds
to the four properties what they rest on: a request writes its blobs in order
(`StoredInOrder`, so the rows come after the last blob whoever else writes the
same keys), the right to enqueue belongs to the one request that inserted the row
(`OneEnqueuer`), an ok is only answered about a row of the request's own job
(`OkMeansStored`), and the app's counters stay within what it may send
(`Counted`). Steps of the app and of the server are separate lemmas
(`AppKeeps`, `CreateKeeps`); what fails or dies goes through one lemma
(`QuietKeeps`): it leaves nothing behind. `OwnBlobsFused` and `CompleteIsFused` rest on
a second invariant, `FuseInv`, proved on top of the first: every blob is of a bundle
that was sent to the blob's job, and until a server fault a stored session is
enqueued or its enqueuer is still running. `UploadImplementsIngest` is the
refinement: of the app's steps only `Succeeds` is visible (`AppConfirms`), and the
row is there by `OkMeansStored`; of the server's only `Persist` and
`EnqueueFusion` (`CreateIngests`), and the second comes once by `OneEnqueuer`.
`FusionEnqueuedOnce` and `CompleteIsStored` are what the abstract specification says
as invariants.

**Sidecar.** The composition's step is a step of one component and leaves the others
alone (`ResolveMoves`, `IngestMoves`, `FitMoves`, `RefineMoves`, `FuseMoves`,
`PhotoMoves`, `BootMoves`), so that each invariant is proved from its own component's steps.

- `OneDownload`, `HonestParcel`, `AnswersOwnAddress` and `TypesHold`, for any
  callers, addresses, places, tiles, editions, restarts. The inductive invariant
  `ResolveInv` says what a request knows at each step (`Sound`) and what a cache
  entry means: for its key, only what the service behind it may give
  (`GeocodesMean`, `ParcelsMean`, `FootprintsMean`). It is needed because an answer
  is mostly copied from a cache that another caller filled, long before.
- `MissingRestsOnAGap`, for any lists of resources and any choice of those whose errors
  may read as an absence: while resources are tried, every other published one of the
  building is still to come (`NothingPassedOver`), so that an empty list is a gap, or
  stands on such errors alone. The code keeps no more than that: which errors hold a
  marker is PDAL's and the bucket's affair. `IngestMoves` rests on `ResolveInv`: a caller only
  ingests a building it was answered.
- `PlanesDivideTheCloud`, for any cloud and any number of planes: one lemma for a
  peel (`PeelDivides`), one for a merge (`MergeDivides`, which moves the later
  planes up), and the pair to merge exists (`FirstIsOne`).
- `OutlineBounded`, for any footprint and mask, from `PartIsBounded`: an overlap of at
  least one half bounds every part of the mask.
- `FusedPlaced`, for any EPSG codes, fixes and outlines: a fused answer has the transform
  and the work unit's code where there is one, and its facets lie in a northern zone and
  inside an outline that has an area; "not registered" is never said of a session with a
  fix or a code. Nothing is claimed of the calls that end in an exception.
- `BootCovers`, for any environments: what a stage that is not opted down uses, the boot
  checks demanded, but for the four parts of `Undemanded` (`Covered`), so that nothing
  else breaks a stage. `StartedIsReal`, which would allow no exception, is false: the
  `boot` run.
- `SeamsPartTheRoof` (`GeometryProofs`), for any cloud and any outline: every facet lies
  inside the outline, and two facets that are parted at a seam, each anchored on its
  own side, share nothing but the seam. The invariant `RoofInv` stands beside the
  fit's own and says that planes are fitted to finitely many returns and that a
  measured answer's facets are `RoofModel`'s. Each plane is cut without regard to how
  the other is cut, so the proof needs that both take the same decision: whether two
  planes are parted does not depend on which comes first (`NearTurns`, `OverTurns`,
  `PartitionTurns`), the cell is cut from the outline (`EnvelopeIsInside`,
  `LargestIsPart`), and all of it stays on the side of its anchor
  (`CellKeepsItsSide`).
- `SupportsAreKept` (`SupportProofs`), for any cloud and any outline: a candidate whose
  returns lie on its own plane and on its own side of every seam has all of its
  support in its own facet, so no slope vanishes and none is cut back from where it was
  seen. A cell is what is left after cutting an envelope at each seam and keeping the
  largest piece, twice; the proof is that in a cross-section none of these steps parts
  anything. Supports, their touching unions and the hull of a building mass have no
  gap (`SupportIsConnected`, `CoverageIsConnected`, `HullOfMass`), the envelope holds the
  support whichever of the two the code takes (`EnvelopeHolds`; for the mass, because
  each return on the plane belongs to a piece at distance zero, `EvidenceIsAttached`),
  a seam leaves a run of a run, because a line that is not below zero at two places is
  not below it between them (`LineKeepsItsSide`), and the largest piece of a run is the
  run (`LargestOfConnected`).
- `EveryFacetShown` (`GeometryProofs`), for whatever projection and ray casts give:
  every facet of a photo is drawn under its own label or listed as hidden. `PhotoInv`
  keeps this from `Project` on; that a set of positions has one ascending
  enumeration is `Enumerated`, for the two facets the model's photo has.

The assumptions are those on the constants, each named in its module: bounds are
naturals, maps of bundles, deliveries and places are functions, `NoSession`,
`NoJob` and `NoValue` are no values of the code, a bundle has at least one blob, a
tile has finitely many pixels, and a cloud has finitely many returns with integer
coordinates over footprints that are intervals.

Model-checked only: all liveness (`Settles`, `EveryDeliveryEnds`, `UploadEnds`,
`EveryCallEnds`), which is outside the prover's reach, as is everything about fairness
and `ENABLED`. Every safety property of a passing run has a theorem; some of them, named
`Sole...` or with their assumptions in the statement, under the conditions of the run.
`CommittedTogether` is proved and no longer run: `ImplementsLifecycle` implies it.

## What the models say about the code

Where the code disagrees with one of its comments, a run shows it and `findings`
in `PROJECT.json` quotes the comment:

- `resurrect`: a second run loaded the job before the first one ended it, and
  writes a stage status over `ready`; the terminal guard looks at a copy.
- `noreport`: a shutdown between the commit and the report leaves a ready job
  without one; the next delivery stops at the terminal guard.
- `commit`: a transaction that fails on the last attempt leaves the copy at
  `ready`, so the rescue takes the job for terminal and does not fail it.
- `boot`: a sidecar without `osgeo`, `boto3`, Pillow or the browser Playwright starts, and
  the stage that needs it fails on its first call; one whose `SAM2_BACKEND` is neither
  `modal` nor `local` starts and runs the segmenter's stub. `boot_checks.py` says that the
  sidecar never starts half-real, `flags.py` that there is no silent fallback to a fixture.
- `fusion_second`: the already-fused check does not look at the session, so a
  job's second capture is never fused.

Behaviour that no comment contradicts but that a maintainer should know, each
visible in the models as the reason for a precondition or a fault bound:

- Two `FusionJob`s of one job that both pass the check both persist a fused row
  (`FusedOnce` is checked for one delivery).
- A capture that arrives before the first measurement is dropped without a
  warning when the job has no row to carry it (`EndsVisibly` is checked with
  captures after the first measurement, and does not speak of this).
- Warnings are written back whole from a copy (`AppendFailureWarning`): two
  deliveries that fail side by side can erase each other's warning.
- A broadcast that raises after the fused row is persisted makes the retry
  machinery treat a fused job as failed; on the last attempt the fused row itself
  gets `fusion_job_exhausted`. A restart at the same place leaves a fused row whose
  photos are never projected, because the next delivery stops at the
  already-fused check.
- A projection that runs again (a restart, a database error, a second trigger)
  replaces a picture by a failed overlay if the sidecar then fails
  (`RetryKeepsPictures` is stated for the job's own retries).
- Two overlapping projections of a photo may leave the picture of one with the
  confidence of the other, or none (`FlagMatchesComposite` ties the two for the only
  delivery of a job).
- The transform of the newest fused session is applied to the photos of every
  session of the job.
- Sessions of one job share their blob keys: the second overwrites what the
  first one's `FusionJob` has still to read (`FusesOwnBlobs` is stated of sessions
  alone on their job).
- A crash or a failing queue between the commit of a session and the enqueue:
  the app's retry finds a duplicate, is answered ok, and nothing is ever fused
  (`CompleteMeansFused` is stated without such a fault).
- Storage errors the AWS client raises are no `SpacesUploader::Error`, so they
  are answered 500 instead of 503; the app treats both alike.
- The pipeline's stage order differs from that of the status enum
  (`measurement_orchestrator.rb:146`).

In the sidecar:

- A footprint index outlives the dataset it lists: after a republication every tile
  of it answers 404, which counts as a tile without buildings, and the empty answer
  is cached for 30 days (`AnswersItsAddress` allows it).
- The index and guesses are tried until one resource can be read; if that one holds
  no roof the answer is "missing", although the next may hold it.
- Cells of one plane are not divided from each other: a plane with a support on
  either side of another (a shed dormer) may have its area counted twice, though a
  comment says that areas are summed over a partition (`roof_model.py:527`).
  `RoofIsDivided` speaks of facets with a seam between them.
- Two planes may have both of their supports on one side of the seam where they meet
  (a valley slope that continues as a level roof below it, `seam beside both` of
  `MC_Sidecar`). Each then keeps the same side: the area is counted for both, and the
  places of the one that lie past the seam are lost. A plane merged from two is fitted
  anew and may no longer explain the returns of either, and a plane that lies on both
  sides of a seam loses the smaller part. The stronger statement that every support
  stays covered is therefore false; `SupportsKept` names the three exceptions.
- The largest piece of a mask that overlaps the footprint by half may lie outside
  the footprint; the outline is then of something else, without a warning.
- An error that reads a published resource and whose text holds an absence marker (a tile's
  404, a 403) is taken for a missing resource and not retried; Rails then measures from
  imagery for good (`MissingIsAGap` excepts exactly the `Mistakable`).
- `/pipeline/fuse-capture` answers 500, which Rails retries, where the comment at
  `fuse_capture/router.py:123` asks for a 422 of a bad coordinate "rather than an unhandled
  ValueError/pyproj error (=> 500 + retry loop)": for a work unit whose code is no northern
  UTM zone, because the zone is taken from the code by subtraction; for a fix at 180°
  east, whose zone is 61; and, of other inputs, for a refined polygon without an area
  (`roof_model.py:119`), a session manifest that is JSON but no object, or not UTF-8, and a
  blob the live store does not have. `Refit` and `FuseRaises` end there;
  `FusedIsPlaced` leaves open which calls do.
- A facet centred at a negative coordinate of the photo loses its label and shifts
  the labels after it, although `photo_overlay.py:160` says that the composite draws "the
  EXACT same primitives" (`EveryFacetAccounted` states the order where none is).

Met while reading and outside the models: the geocoder's rate limiter releases its
lock before the request (`nominatim.py:35`); a storage read raises the AWS client's
error where the docstring names another (`storage.py:113`); two ingests of one
polygon overwrite one array (`ingest.py:414`); a fused answer with no planes is an
empty measurement (`fuse_capture/router.py:245`); peeling stops at the first
unacceptable plane where the docstring skips it (`plane_fit.py`); the docstring of
the lifespan speaks of warnings where a failed check ends the process (`main.py:48`);
a LiDAR fixture without a WESM fixture is not checked at boot.

## Not modelled

`PROJECT.json` lists every component with its status and the reason. In short:
numerical code (RANSAC's sampling, ICP, ray casts, rasterisation, rendering) is out
of TLC's reach and its callers' models enumerate its outcomes; serializers,
presenters and views keep no state; wrappers around external services, imagery and
report images among them, are I/O. Within the modelled parts: database errors
outside the persist transaction, requests the capture endpoint refuses before it
stores anything (400, 411, 413), invalid rows (422), the pictures behind an
overlay's reference, the waiting of the rate limiter, the classification of roof
edges, and confidences of facets.

## Plan

What would come next, in order:

1. `CaptureFlow` (iOS): the prompts, the double-tap guards, the mesh export and
   how its failure meets retry and save; composed with `CaptureUpload`.
2. `Deploy`: every step of `deploy.sh`, failing anywhere; the abstract promise is
   that the linked release is one that passed its health gate.
3. `ReportPdfCache` and `StatusPage`: a cached PDF against a newer measurement; a
   terminal broadcast against the reconcile fetch.
4. `Typeahead` (web and iOS) and `StatusPoll` (iOS): answers out of order,
   cancellation, back-off.
5. `FeatureDetector`: partial failure of a batch of model calls.
6. Proofs: the safety properties of those modules as they come.
