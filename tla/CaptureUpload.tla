----------------------------- MODULE CaptureUpload -----------------------------
(***************************************************************************)
(* The upload of capture bundles: the app sends a bundle with one retry per *)
(* upload and further retries by the user; the endpoint writes the blobs,   *)
(* then the rows, then the FusionJob.  An attempt the app gave up on may    *)
(* still be running on the server while the next one is.                    *)
(*                                                                         *)
(* Blob keys are per job, session ids are unique over all jobs: sessions of *)
(* one job share their keys, and an id used under another job is refused.   *)
(***************************************************************************)
EXTENDS Integers, Sequences, FiniteSets

CONSTANTS
  Uploads,     \* bundles the app uploads
  Jobs,
  SessionIds,
  JobOf,       \* the job each bundle is sent to
  SessionOf,   \* its session_id, kept over all attempts
  Parts,       \* blobs of a bundle, in upload order
  NoSession,   \* of a blob that was never written
  NoJob,       \* of a session without a row
  MaxUploads,  \* bound: bundles the app starts to upload
  Retried,     \* bound: the bundles whose failed upload the user starts again, ...
  MaxRetries,  \* bound: ... and how often
  MaxFaults    \* bound: server crashes and failed enqueues

MaxAttempts == 2  \* requests of one upload
RequestNumbers == 1..(MaxAttempts * (MaxRetries + 1))

ASSUME UploadsAssumption ==
  /\ JobOf \in [Uploads -> Jobs]
  /\ SessionOf \in [Uploads -> SessionIds]
  /\ Retried \subseteq Uploads
  /\ NoSession \notin SessionIds /\ NoJob \notin Jobs
ASSUME PartsAssumption == Parts \in Seq(STRING) /\ Parts # << >>
ASSUME BoundsAssumption == {MaxUploads, MaxRetries, MaxFaults} \subseteq Nat

VARIABLES
  blobs,    \* the session whose blob is stored under each job's key
  row,      \* the job that has the CaptureSession with each id
  enqueued, \* FusionJobs enqueued for each session
  faults,   \* crashes and failed enqueues so far
  client,   \* what the app shows of each upload
  attempt,  \* its attempt within the upload under way
  sent,     \* requests it has sent
  request,  \* where the server is with each request, or its answer
  part      \* the blob it writes next

server == <<blobs, row, enqueued, faults>>
app == <<client, attempt, sent>>
vars == <<server, app, request, part>>

-----------------------------------------------------------------------------
Answers == {"ok", "unauthorized", "conflict", "unavailable"}
Running == {"sent", "storing", "persisting", "enqueueing"}

TypeOK ==
  /\ blobs \in [Jobs -> [1..Len(Parts) -> SessionIds \cup {NoSession}]]
  /\ row \in [SessionIds -> Jobs \cup {NoJob}]
  /\ enqueued \in [SessionIds -> Nat]
  /\ faults \in Nat
  /\ client \in [Uploads -> {"ready", "uploading", "failed", "complete", "saved"}]
  /\ attempt \in [Uploads -> 0..MaxAttempts]
  /\ sent \in [Uploads -> {0} \cup RequestNumbers]
  /\ request \in [Uploads -> [RequestNumbers -> Answers \cup Running \cup {"none", "gone"}]]
  /\ part \in [Uploads -> [RequestNumbers -> 0..Len(Parts)]]

Init ==
  /\ blobs = [j \in Jobs |-> [b \in 1..Len(Parts) |-> NoSession]]
  /\ row = [s \in SessionIds |-> NoJob]
  /\ enqueued = [s \in SessionIds |-> 0]
  /\ faults = 0
  /\ client = [u \in Uploads |-> "ready"]
  /\ attempt = [u \in Uploads |-> 0]
  /\ sent = [u \in Uploads |-> 0]
  /\ request = [u \in Uploads |-> [n \in RequestNumbers |-> "none"]]
  /\ part = [u \in Uploads |-> [n \in RequestNumbers |-> 0]]

-----------------------------------------------------------------------------
(* The app. *)

\* Sends request number n of u, the a-th attempt of the upload.
Send(u, n, a) ==
  /\ client' = [client EXCEPT ![u] = "uploading"]
  /\ attempt' = [attempt EXCEPT ![u] = a]
  /\ sent' = [sent EXCEPT ![u] = n]

Show(u, state) == client' = [client EXCEPT ![u] = state] /\ UNCHANGED <<attempt, sent>>

\* The request array when u's current request is in state old and a next one
\* is sent if again.
Sent(u, old, again) ==
  request' = [request EXCEPT ![u] =
    [n \in RequestNumbers |->
       IF n = sent[u] THEN old ELSE IF again /\ n = sent[u] + 1 THEN "sent" ELSE @[n]]]

Start(u) ==
  /\ client[u] = "ready"
  /\ Cardinality({v \in Uploads : sent[v] > 0}) < MaxUploads \* bound
  /\ Send(u, 1, 1)
  /\ request' = [request EXCEPT ![u][1] = "sent"]
  /\ UNCHANGED <<server, part>>

Succeeds(u) ==
  /\ client[u] = "uploading" /\ request[u][sent[u]] = "ok"
  /\ Show(u, "complete")
  /\ Sent(u, "gone", FALSE)
  /\ UNCHANGED <<server, part>>

Unauthorized(u) ==
  /\ client[u] = "uploading" /\ request[u][sent[u]] = "unauthorized"
  /\ Show(u, "failed")
  /\ Sent(u, "gone", FALSE)
  /\ UNCHANGED <<server, part>>

\* Faulty variant: a failed attempt is always followed by another.
FailAlwaysAgain(u, old) ==
  LET n == IF sent[u] + 1 \in RequestNumbers THEN sent[u] + 1 ELSE 1 IN
  /\ Send(u, n, 1)
  /\ request' = [request EXCEPT ![u][n] = "sent"]

\* Faulty variant: off by one.
FailOneMore(u, old) ==
  IF attempt[u] <= MaxAttempts
    THEN Send(u, sent[u] + 1, attempt[u] + 1) /\ Sent(u, old, TRUE)
    ELSE Show(u, "failed") /\ Sent(u, old, FALSE)

\* A failed attempt is repeated once.
Fail(u, old) ==
  IF attempt[u] < MaxAttempts
    THEN Send(u, sent[u] + 1, attempt[u] + 1) /\ Sent(u, old, TRUE)
    ELSE Show(u, "failed") /\ Sent(u, old, FALSE)

OtherStatus(u) ==
  /\ client[u] = "uploading" /\ request[u][sent[u]] \in {"conflict", "unavailable"}
  /\ Fail(u, "gone")
  /\ UNCHANGED <<server, part>>

\* A timeout or a lost connection: the request may never have arrived, may
\* still be running, or its answer is lost.
TransportFails(u) ==
  /\ client[u] = "uploading"
  /\ LET r == request[u][sent[u]] IN
     \/ Fail(u, IF r \in Running THEN r ELSE "gone")
     \/ r = "sent" /\ Fail(u, "gone")
  /\ UNCHANGED <<server, part>>

RetryUpload(u) ==
  /\ client[u] = "failed"
  /\ u \in Retried
  /\ \A n \in RequestNumbers : request[u][n] \notin Running \* bound
  /\ sent[u] + MaxAttempts \in RequestNumbers
  /\ Send(u, sent[u] + 1, 1)
  /\ request' = [request EXCEPT ![u][sent[u] + 1] = "sent"]
  /\ UNCHANGED <<server, part>>

SaveBundleLocally(u) ==
  /\ client[u] = "failed"
  /\ Show(u, "saved")
  /\ UNCHANGED <<server, request, part>>

-----------------------------------------------------------------------------
(* CaptureSessionsController#create, request n of u. *)

Goto(u, n, state) == request' = [request EXCEPT ![u][n] = state]

\* An answer reaches the app only while it waits for this request.
Answer(u, n, status) ==
  Goto(u, n, IF client[u] = "uploading" /\ n = sent[u] THEN status ELSE "gone")

\* The token may have expired, or a newer one replaced it.
Authenticate(u, n) ==
  /\ request[u][n] = "sent"
  /\ \/ Answer(u, n, "unauthorized") /\ UNCHANGED part
     \/ Goto(u, n, "storing") /\ part' = [part EXCEPT ![u][n] = 1]
  /\ UNCHANGED <<server, app>>

UploadKey(u) == JobOf[u]

\* Faulty variant: keys without the job, one set of blobs for all jobs.
PutBlobSharedKey(u, n) ==
  /\ request[u][n] = "storing"
  /\ blobs' = [j \in Jobs |-> [blobs[j] EXCEPT ![part[u][n]] = SessionOf[u]]]
  /\ IF part[u][n] < Len(Parts)
       THEN part' = [part EXCEPT ![u][n] = @ + 1] /\ UNCHANGED request
       ELSE Goto(u, n, "persisting") /\ part' = [part EXCEPT ![u][n] = 0]
  /\ UNCHANGED <<row, enqueued, faults, app>>

\* Faulty variant: the last blob is left to a background upload.
PutBlobButLast(u, n) ==
  /\ request[u][n] = "storing"
  /\ IF part[u][n] < Len(Parts)
       THEN /\ blobs' = [blobs EXCEPT ![UploadKey(u)][part[u][n]] = SessionOf[u]]
            /\ part' = [part EXCEPT ![u][n] = @ + 1]
            /\ UNCHANGED request
       ELSE Goto(u, n, "persisting") /\ UNCHANGED <<blobs, part>>
  /\ UNCHANGED <<row, enqueued, faults, app>>

PutBlob(u, n) ==
  /\ request[u][n] = "storing"
  /\ blobs' = [blobs EXCEPT ![UploadKey(u)][part[u][n]] = SessionOf[u]]
  /\ IF part[u][n] < Len(Parts)
       THEN part' = [part EXCEPT ![u][n] = @ + 1] /\ UNCHANGED request
       ELSE Goto(u, n, "persisting") /\ part' = [part EXCEPT ![u][n] = 0]
  /\ UNCHANGED <<row, enqueued, faults, app>>

StorageFails(u, n) ==
  /\ request[u][n] = "storing"
  /\ Answer(u, n, "unavailable")
  /\ part' = [part EXCEPT ![u][n] = 0]
  /\ UNCHANGED <<server, app>>

\* Faulty variant: a fresh row is reported as an existing one.
PersistNotNew(u, n) ==
  /\ request[u][n] = "persisting"
  /\ row[SessionOf[u]] = NoJob
  /\ row' = [row EXCEPT ![SessionOf[u]] = JobOf[u]]
  /\ Answer(u, n, "ok")
  /\ UNCHANGED <<blobs, enqueued, faults, app, part>>

Persist(u, n) ==
  /\ request[u][n] = "persisting"
  /\ row[SessionOf[u]] = NoJob
  /\ row' = [row EXCEPT ![SessionOf[u]] = JobOf[u]]
  /\ Goto(u, n, "enqueueing")
  /\ UNCHANGED <<blobs, enqueued, faults, app, part>>

\* Faulty variant: a retry enqueues again.
ResolveDuplicateAsNew(u, n) ==
  /\ request[u][n] = "persisting"
  /\ row[SessionOf[u]] # NoJob
  /\ IF row[SessionOf[u]] = JobOf[u] THEN Goto(u, n, "enqueueing") ELSE Answer(u, n, "conflict")
  /\ UNCHANGED <<server, app, part>>

\* The row exists: a retry if it is this job's, else a collision.
ResolveDuplicate(u, n) ==
  /\ request[u][n] = "persisting"
  /\ row[SessionOf[u]] # NoJob
  /\ Answer(u, n, IF row[SessionOf[u]] = JobOf[u] THEN "ok" ELSE "conflict")
  /\ UNCHANGED <<server, app, part>>

EnqueueFusion(u, n) ==
  /\ request[u][n] = "enqueueing"
  /\ enqueued' = [enqueued EXCEPT ![SessionOf[u]] = @ + 1]
  /\ Answer(u, n, "ok")
  /\ UNCHANGED <<blobs, row, faults, app, part>>

\* The enqueue raises, or the server goes down with the request.
EnqueueFails(u, n) ==
  /\ request[u][n] = "enqueueing"
  /\ faults < MaxFaults
  /\ faults' = faults + 1
  /\ Answer(u, n, "unavailable")
  /\ UNCHANGED <<blobs, row, enqueued, app, part>>

Crash(u, n) ==
  /\ request[u][n] \in Running
  /\ faults < MaxFaults
  /\ faults' = faults + 1
  /\ Goto(u, n, "gone")
  /\ part' = [part EXCEPT ![u][n] = 0]
  /\ UNCHANGED <<blobs, row, enqueued, app>>

-----------------------------------------------------------------------------
Attempt(u) ==
  Succeeds(u) \/ Unauthorized(u) \/ OtherStatus(u) \/ TransportFails(u)

User(u) == Start(u) \/ RetryUpload(u) \/ SaveBundleLocally(u)

Create(u, n) ==
  \/ Authenticate(u, n) \/ PutBlob(u, n) \/ StorageFails(u, n)
  \/ Persist(u, n) \/ ResolveDuplicate(u, n)
  \/ EnqueueFusion(u, n) \/ EnqueueFails(u, n) \/ Crash(u, n)

Next ==
  \E u \in Uploads :
    Attempt(u) \/ User(u) \/ \E n \in RequestNumbers : Create(u, n)

Spec == Init /\ [][Next]_vars

\* URLSession times a request out: an attempt ends with or without an answer.
FairSpec == Spec /\ \A u \in Uploads : WF_vars(Attempt(u))
-----------------------------------------------------------------------------
(* Properties. *)

\* The refs of a persisted session point at stored blobs, so fusion can fetch
\* them whenever it runs (uploader.rb:6-9).
RefsResolve ==
  \A s \in SessionIds : row[s] # NoJob => \A b \in 1..Len(Parts) : blobs[row[s]][b] # NoSession

\* A session that is the only one sent to its job fuses its own blobs: its own
\* retries and the sessions of other jobs, whose blobs are stored meanwhile,
\* neither replace one of them nor mix into them (uploader.rb:89-91).
FusesOwnBlobs ==
  \A s \in SessionIds :
    enqueued[s] > 0 /\ (\A u \in Uploads : JobOf[u] = row[s] /\ sent[u] > 0 => SessionOf[u] = s)
      => \A b \in 1..Len(Parts) : blobs[row[s]][b] = s

\* Attempts that race, or follow one whose answer was lost, enqueue one
\* FusionJob in all, for a session that is stored (capture_session_ingester.rb:6-8, :17-18).
EnqueuedOnce == \A s \in SessionIds : enqueued[s] <= (IF row[s] = NoJob THEN 0 ELSE 1)

\* The app says complete only of a bundle that is stored under its own job, whatever
\* bundle of another job has the same session id.
CompleteMeansStored ==
  \A u \in Uploads : client[u] = "complete" => row[SessionOf[u]] = JobOf[u]

\* ... and that fusion will see, unless the server failed between the commit
\* and the enqueue (capture_sessions_controller.rb:51-52).
CompleteMeansFused ==
  \A u \in Uploads : client[u] = "complete" /\ faults = 0 =>
    \/ enqueued[SessionOf[u]] = 1
    \/ \E v \in Uploads, n \in RequestNumbers :
         SessionOf[v] = SessionOf[u] /\ request[v][n] = "enqueueing"

\* The upload as CaptureIngest: a bundle is confirmed while the app shows it complete.
\* Retries, lost answers, colliding ids and crashes add no step a user could tell.
Ingest == INSTANCE CaptureIngest WITH
  confirmed <- {u \in Uploads : client[u] = "complete"}
ImplementsIngest == Ingest!Spec

\* An upload under way ends, complete or failed.
UploadEnds == \A u \in Uploads : client[u] = "uploading" ~> client[u] # "uploading"
=============================================================================
