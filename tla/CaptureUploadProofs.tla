-------------------------- MODULE CaptureUploadProofs --------------------------
(***************************************************************************)
(* Theorems about CaptureUpload: for any number of bundles, jobs, session   *)
(* ids, blobs, retries and crashes.                                         *)
(***************************************************************************)
EXTENDS CaptureUpload, TLAPS

\* What holds of the app's counters: an attempt under way has a number, and the
\* attempt that may follow it has one too.
Counted ==
  \A u \in Uploads : client[u] = "uploading" =>
    /\ sent[u] \in RequestNumbers
    /\ attempt[u] \in 1..MaxAttempts
    /\ attempt[u] < MaxAttempts => sent[u] + 1 \in RequestNumbers

\* A request writes its blobs in order, and asks for rows once all are written.
Stored(u, n) ==
  /\ request[u][n] = "storing" =>
       /\ part[u][n] \in 1..Len(Parts)
       /\ \A b \in 1..(part[u][n] - 1) : blobs[JobOf[u]][b] # NoSession
  /\ request[u][n] = "persisting" =>
       \A b \in 1..Len(Parts) : blobs[JobOf[u]][b] # NoSession
StoredInOrder == \A u \in Uploads, n \in RequestNumbers : Stored(u, n)

\* The right to enqueue belongs to the one request that inserted the row.
OneEnqueuer ==
  \A u \in Uploads, n \in RequestNumbers : request[u][n] = "enqueueing" =>
    /\ row[SessionOf[u]] = JobOf[u]
    /\ enqueued[SessionOf[u]] = 0
    /\ \A v \in Uploads, m \in RequestNumbers :
         request[v][m] = "enqueueing" /\ SessionOf[v] = SessionOf[u] => v = u /\ m = n

\* An ok is only answered about a row of the request's own job.
OkMeansStored ==
  \A u \in Uploads, n \in RequestNumbers : request[u][n] = "ok" => row[SessionOf[u]] = JobOf[u]

UploadInv ==
  /\ TypeOK /\ Counted /\ StoredInOrder /\ OneEnqueuer /\ OkMeansStored
  /\ RefsResolve /\ EnqueuedOnce /\ CompleteMeansStored

States == Answers \cup Running \cup {"none", "gone"}

-----------------------------------------------------------------------------
(* Steps of the app: requests are sent or forgotten, nothing else.          *)

\* The bounds make the request numbers an interval of naturals that starts at 1.
LEMMA Numbers == RequestNumbers \subseteq Nat /\ 1 \in RequestNumbers /\ 2 \in RequestNumbers
<1>1. MaxRetries \in Nat BY BoundsAssumption
<1>2. 2 * (MaxRetries + 1) \in Nat /\ 2 * (MaxRetries + 1) >= 2 BY <1>1
<1>3. QED BY <1>2 DEF RequestNumbers, MaxAttempts

\* Sent forgets the current request or leaves it, and may send the next.
LEMMA SentStep ==
  ASSUME TypeOK, NEW u \in Uploads, NEW old, old = "gone" \/ old = request[u][sent[u]],
         NEW again \in BOOLEAN, Sent(u, old, again)
  PROVE  /\ request' \in [Uploads -> [RequestNumbers -> States]]
         /\ \A v \in Uploads, m \in RequestNumbers :
              request'[v][m] \in {request[v][m], "gone", "sent"}
<1> DEFINE f == [n \in RequestNumbers |->
       IF n = sent[u] THEN old ELSE IF again /\ n = sent[u] + 1 THEN "sent" ELSE request[u][n]]
<1>1. request' = [request EXCEPT ![u] = f]
  BY DEF Sent, TypeOK
<1>2. \A n \in RequestNumbers : f[n] \in {request[u][n], "gone", "sent"}
  OBVIOUS
<1>3. \A n \in RequestNumbers : f[n] \in States
  BY <1>2 DEF TypeOK, States, Running
<1>4. f \in [RequestNumbers -> States]
  BY <1>3
<1>5. \A v \in Uploads : request'[v] = IF v = u THEN f ELSE request[v]
  BY <1>1 DEF TypeOK
<1>6. QED
  BY <1>1, <1>2, <1>4, <1>5 DEF TypeOK, States

\* A failed attempt keeps the counters in range and changes no other part of a
\* request's life.
LEMMA FailStep ==
  ASSUME TypeOK, Counted, NEW u \in Uploads, client[u] = "uploading",
         NEW old, old = "gone" \/ old = request[u][sent[u]], Fail(u, old)
  PROVE  /\ request' \in [Uploads -> [RequestNumbers -> States]]
         /\ \A v \in Uploads, m \in RequestNumbers :
              request'[v][m] \in {request[v][m], "gone", "sent"}
         /\ client' \in [Uploads -> {"ready", "uploading", "failed", "complete", "saved"}]
         /\ attempt' \in [Uploads -> 0..MaxAttempts]
         /\ sent' \in [Uploads -> {0} \cup RequestNumbers]
         /\ Counted'
         /\ \A v \in Uploads : client'[v] = "complete" => client[v] = "complete"
<1>1. CASE attempt[u] < MaxAttempts
  <2>1. Send(u, sent[u] + 1, attempt[u] + 1) /\ Sent(u, old, TRUE)
    BY <1>1 DEF Fail
  <2>2. sent[u] + 1 \in RequestNumbers
    BY <1>1 DEF Counted
  <2>3. attempt[u] = 1
    BY <1>1 DEF Counted, MaxAttempts
  <2>4. /\ client' = [client EXCEPT ![u] = "uploading"]
        /\ attempt' = [attempt EXCEPT ![u] = 2]
        /\ sent' = [sent EXCEPT ![u] = sent[u] + 1]
    BY <2>1, <2>3 DEF Send
  <2>5. Counted'
    BY <2>2, <2>4 DEF TypeOK, Counted, MaxAttempts
  <2>6. /\ request' \in [Uploads -> [RequestNumbers -> States]]
        /\ \A v \in Uploads, m \in RequestNumbers :
             request'[v][m] \in {request[v][m], "gone", "sent"}
    BY <2>1, SentStep
  <2>7. client' \in [Uploads -> {"ready", "uploading", "failed", "complete", "saved"}]
    BY <2>4 DEF TypeOK
  <2>8. attempt' \in [Uploads -> 0..MaxAttempts]
    BY <2>4 DEF TypeOK, MaxAttempts
  <2>9. sent' \in [Uploads -> {0} \cup RequestNumbers]
    BY <2>2, <2>4 DEF TypeOK
  <2>10. \A v \in Uploads : client'[v] = "complete" => client[v] = "complete"
    BY <2>4 DEF TypeOK
  <2>11. QED
    BY <2>5, <2>6, <2>7, <2>8, <2>9, <2>10
<1>2. CASE ~(attempt[u] < MaxAttempts)
  <2>1. Show(u, "failed") /\ Sent(u, old, FALSE)
    BY <1>2 DEF Fail
  <2>2. /\ client' = [client EXCEPT ![u] = "failed"]
        /\ UNCHANGED <<attempt, sent>>
    BY <2>1 DEF Show
  <2>3. Counted'
    BY <2>2 DEF TypeOK, Counted
  <2>4. /\ request' \in [Uploads -> [RequestNumbers -> States]]
        /\ \A v \in Uploads, m \in RequestNumbers :
             request'[v][m] \in {request[v][m], "gone", "sent"}
    BY <2>1, SentStep
  <2>5. QED
    BY <2>2, <2>3, <2>4 DEF TypeOK
<1>3. QED
  BY <1>1, <1>2

\* What a step of the app does: it leaves the server alone, keeps its counters in
\* range, and shows complete only of a stored bundle.
AppOnly ==
  /\ UNCHANGED <<server, part>>
  /\ request' \in [Uploads -> [RequestNumbers -> States]]
  /\ \A v \in Uploads, m \in RequestNumbers :
       request'[v][m] \in {request[v][m], "gone", "sent"}
  /\ client' \in [Uploads -> {"ready", "uploading", "failed", "complete", "saved"}]
  /\ attempt' \in [Uploads -> 0..MaxAttempts]
  /\ sent' \in [Uploads -> {0} \cup RequestNumbers]
  /\ Counted'
  /\ \A v \in Uploads : client'[v] = "complete" => row[SessionOf[v]] = JobOf[v]

\* Every step of the app is one of those.
LEMMA AppStep ==
  ASSUME UploadInv, NEW u \in Uploads, Attempt(u) \/ User(u)
  PROVE  AppOnly
<1> USE DEF UploadInv
<1>1. TypeOK /\ Counted /\ CompleteMeansStored
  OBVIOUS
<1>2. \A v \in Uploads : client[v] = "complete" => row[SessionOf[v]] = JobOf[v]
  BY DEF CompleteMeansStored
<1>3. ASSUME NEW n \in RequestNumbers, Send(u, n, 1), n + 1 \in RequestNumbers,
             request' = [request EXCEPT ![u][n] = "sent"], UNCHANGED <<server, part>>
      PROVE  AppOnly
  <2>1. /\ client' = [client EXCEPT ![u] = "uploading"]
        /\ attempt' = [attempt EXCEPT ![u] = 1]
        /\ sent' = [sent EXCEPT ![u] = n]
    BY <1>3 DEF Send
  <2>2. request' \in [Uploads -> [RequestNumbers -> States]]
    BY <1>3 DEF TypeOK, States, Running
  <2>3. \A v \in Uploads, m \in RequestNumbers : request'[v][m] \in {request[v][m], "gone", "sent"}
    BY <1>3 DEF TypeOK
  <2>4. client' \in [Uploads -> {"ready", "uploading", "failed", "complete", "saved"}]
    BY <2>1 DEF TypeOK
  <2>5. attempt' \in [Uploads -> 0..MaxAttempts]
    BY <2>1 DEF TypeOK, MaxAttempts
  <2>6. sent' \in [Uploads -> {0} \cup RequestNumbers]
    BY <1>3, <2>1 DEF TypeOK
  <2>7. Counted'
    BY <1>3, <2>1 DEF TypeOK, Counted, MaxAttempts
  <2>8. \A v \in Uploads : client'[v] = "complete" => client[v] = "complete"
    BY <2>1 DEF TypeOK
  <2>9. QED
    BY <1>2, <1>3, <2>2, <2>3, <2>4, <2>5, <2>6, <2>7, <2>8 DEF AppOnly
<1>4. ASSUME NEW state \in {"failed", "complete"}, Show(u, state), Sent(u, "gone", FALSE),
             state = "complete" => row[SessionOf[u]] = JobOf[u], UNCHANGED <<server, part>>
      PROVE  AppOnly
  <2>1. client' = [client EXCEPT ![u] = state] /\ UNCHANGED <<attempt, sent>>
    BY <1>4 DEF Show
  <2>2. /\ request' \in [Uploads -> [RequestNumbers -> States]]
        /\ \A v \in Uploads, m \in RequestNumbers :
             request'[v][m] \in {request[v][m], "gone", "sent"}
    BY <1>1, <1>4, SentStep
  <2>3. Counted'
    BY <1>4, <2>1 DEF TypeOK, Counted
  <2>4. client' \in [Uploads -> {"ready", "uploading", "failed", "complete", "saved"}]
    BY <2>1 DEF TypeOK
  <2>5. \A v \in Uploads : client'[v] = "complete" => row[SessionOf[v]] = JobOf[v]
    BY <1>2, <1>4, <2>1 DEF TypeOK
  <2>6. QED
    BY <1>4, <2>1, <2>2, <2>3, <2>4, <2>5 DEF TypeOK, AppOnly
<1>5. ASSUME client[u] = "uploading", NEW old, old = "gone" \/ old = request[u][sent[u]],
             Fail(u, old), UNCHANGED <<server, part>>
      PROVE  AppOnly
  BY <1>1, <1>2, <1>5, FailStep DEF AppOnly
<1>6. CASE Start(u)
  <2>1. 1 \in RequestNumbers /\ 1 + 1 \in RequestNumbers
    BY Numbers
  <2>2. Send(u, 1, 1) /\ request' = [request EXCEPT ![u][1] = "sent"] /\ UNCHANGED <<server, part>>
    BY <1>6 DEF Start
  <2>3. QED
    BY <1>3, <2>1, <2>2
<1>7. CASE RetryUpload(u)
  <2>1. sent[u] + 2 \in RequestNumbers
    BY <1>7 DEF RetryUpload, MaxAttempts
  <2>0. sent[u] \in Nat
    <3>1. sent[u] \in {0} \cup RequestNumbers
      BY DEF TypeOK
    <3>2. 0 \in Nat /\ RequestNumbers \subseteq Nat
      BY Numbers
    <3>3. QED
      BY <3>1, <3>2, Zenon
  <2>2. MaxRetries \in Nat
    BY BoundsAssumption
  <2>3. sent[u] + 1 \in RequestNumbers /\ (sent[u] + 1) + 1 \in RequestNumbers
    BY <2>1, <2>0, <2>2 DEF RequestNumbers, MaxAttempts
  <2>4. QED
    BY <1>3, <1>7, <2>3 DEF RetryUpload
<1>8. CASE SaveBundleLocally(u)
  <2>1. client' = [client EXCEPT ![u] = "saved"] /\ UNCHANGED <<attempt, sent, server, request, part>>
    BY <1>8 DEF SaveBundleLocally, Show
  <2>2. Counted'
    BY <2>1 DEF TypeOK, Counted
  <2>3. client' \in [Uploads -> {"ready", "uploading", "failed", "complete", "saved"}]
    BY <2>1 DEF TypeOK
  <2>4. \A v \in Uploads : client'[v] = "complete" => client[v] = "complete"
    BY <2>1 DEF TypeOK
  <2>5. QED
    BY <1>2, <2>1, <2>2, <2>3, <2>4 DEF TypeOK, States, AppOnly
<1>9. CASE Succeeds(u)
  <2>1. row[SessionOf[u]] = JobOf[u]
    BY <1>9 DEF Succeeds, Counted, OkMeansStored
  <2>2. QED
    BY <1>4, <1>9, <2>1 DEF Succeeds
<1>10. CASE Unauthorized(u)
  BY <1>4, <1>10 DEF Unauthorized
<1>11. CASE OtherStatus(u)
  BY <1>5, <1>11 DEF OtherStatus
<1>12. CASE TransportFails(u)
  BY <1>5, <1>12 DEF TransportFails
<1>13. QED
  BY <1>6, <1>7, <1>8, <1>9, <1>10, <1>11, <1>12 DEF Attempt, User

\* So it preserves the invariant.
LEMMA AppKeeps ==
  ASSUME UploadInv, NEW u \in Uploads, Attempt(u) \/ User(u)
  PROVE  UploadInv'
<1>1. UNCHANGED <<blobs, row, enqueued, faults, part>>
  BY AppStep DEF AppOnly, server
<1>2. \A v \in Uploads, m \in RequestNumbers :
        request'[v][m] \in {request[v][m], "gone", "sent"}
  BY AppStep DEF AppOnly
<1>3. TypeOK'
  BY <1>1, AppStep DEF AppOnly, UploadInv, TypeOK, States
<1>4. StoredInOrder'
  BY <1>1, <1>2 DEF UploadInv, StoredInOrder, Stored
<1>5. OneEnqueuer'
  BY <1>1, <1>2 DEF UploadInv, OneEnqueuer
<1>6. OkMeansStored'
  BY <1>1, <1>2 DEF UploadInv, OkMeansStored
<1>7. RefsResolve' /\ EnqueuedOnce'
  BY <1>1 DEF UploadInv, RefsResolve, EnqueuedOnce
<1>8. Counted' /\ CompleteMeansStored'
  BY <1>1, AppStep DEF AppOnly, CompleteMeansStored
<1>9. QED
  BY <1>3, <1>4, <1>5, <1>6, <1>7, <1>8 DEF UploadInv

-----------------------------------------------------------------------------
(* Steps of the server.                                                     *)

\* Goto moves one request and leaves the others where they are.
LEMMA GotoStep ==
  ASSUME TypeOK, NEW u \in Uploads, NEW n \in RequestNumbers, NEW x \in States, Goto(u, n, x)
  PROVE  /\ request' \in [Uploads -> [RequestNumbers -> States]]
         /\ \A v \in Uploads, m \in RequestNumbers :
              request'[v][m] = IF v = u /\ m = n THEN x ELSE request[v][m]
BY DEF TypeOK, States, Goto

\* The blob counters of the other requests stay.
OnlyPart(u, n) ==
  /\ part' \in [Uploads -> [RequestNumbers -> 0..Len(Parts)]]
  /\ \A v \in Uploads, m \in RequestNumbers :
       ~(v = u /\ m = n) => part'[v][m] = part[v][m]

\* There is at least one blob.
LEMMA SomeParts == Len(Parts) \in Nat /\ Len(Parts) >= 1
BY PartsAssumption

\* Writing one counter is such a change.
LEMMA PartStep ==
  ASSUME TypeOK, NEW u \in Uploads, NEW n \in RequestNumbers, NEW b \in 0..Len(Parts),
         part' = [part EXCEPT ![u][n] = b]
  PROVE  OnlyPart(u, n) /\ part'[u][n] = b
BY DEF TypeOK, OnlyPart

\* A request moves in the order of its blobs; the others keep theirs while no
\* blob is emptied.
LEMMA StoredStep ==
  ASSUME UploadInv, NEW u \in Uploads, NEW n \in RequestNumbers, OnlyPart(u, n),
         \A v \in Uploads, m \in RequestNumbers :
           ~(v = u /\ m = n) => request'[v][m] = request[v][m],
         \A j \in Jobs, b \in 1..Len(Parts) :
           blobs[j][b] # NoSession => blobs'[j][b] # NoSession,
         Stored(u, n)'
  PROVE  StoredInOrder'
<1> SUFFICES ASSUME NEW v \in Uploads, NEW m \in RequestNumbers PROVE Stored(v, m)'
  BY DEF StoredInOrder
<1>1. CASE v = u /\ m = n
  BY <1>1
<1>2. CASE ~(v = u /\ m = n)
  <2>1. request'[v][m] = request[v][m] /\ part'[v][m] = part[v][m] /\ Stored(v, m)
    BY <1>2 DEF OnlyPart, UploadInv, StoredInOrder
  <2>2. JobOf[v] \in Jobs
    BY UploadsAssumption
  <2>3. Len(Parts) \in Nat
    BY SomeParts
  <2>4. QED
    BY <2>1, <2>2, <2>3 DEF Stored
<1>3. QED
  BY <1>1, <1>2

\* What a request leaves behind that is refused, fails or dies: nothing.
LEMMA QuietKeeps ==
  ASSUME UploadInv, NEW u \in Uploads, NEW n \in RequestNumbers,
         NEW x \in {"unauthorized", "conflict", "unavailable", "gone"}, Goto(u, n, x),
         UNCHANGED <<blobs, row, enqueued, app>>, faults' \in Nat, OnlyPart(u, n)
  PROVE  UploadInv'
<1>1. TypeOK
  BY DEF UploadInv
<1>2. x \in States
  BY DEF States, Answers
<1>3. /\ request' \in [Uploads -> [RequestNumbers -> States]]
      /\ \A v \in Uploads, m \in RequestNumbers :
           request'[v][m] = IF v = u /\ m = n THEN x ELSE request[v][m]
  BY <1>1, <1>2, GotoStep
<1>4. TypeOK'
  BY <1>1, <1>3 DEF TypeOK, States, app, OnlyPart
<1>5. Counted' /\ CompleteMeansStored' /\ RefsResolve' /\ EnqueuedOnce'
  BY DEF UploadInv, app, Counted, CompleteMeansStored, RefsResolve, EnqueuedOnce
<1>6. StoredInOrder'
  <2>1. Stored(u, n)'
    BY <1>3 DEF Stored
  <2>2. QED
    BY <1>3, <2>1, StoredStep
<1>7. OneEnqueuer'
  BY <1>3 DEF UploadInv, OneEnqueuer
<1>8. OkMeansStored'
  BY <1>3 DEF UploadInv, OkMeansStored
<1>9. QED
  BY <1>4, <1>5, <1>6, <1>7, <1>8 DEF UploadInv

\* An answer that is not ok is either that answer or lost.
LEMMA AnswerKeeps ==
  ASSUME UploadInv, NEW u \in Uploads, NEW n \in RequestNumbers,
         NEW x \in {"unauthorized", "conflict", "unavailable"}, Answer(u, n, x),
         UNCHANGED <<blobs, row, enqueued, app>>, faults' \in Nat, OnlyPart(u, n)
  PROVE  UploadInv'
<1>1. PICK y \in {"unauthorized", "conflict", "unavailable", "gone"} : Goto(u, n, y)
  BY DEF Answer
<1>2. QED
  BY <1>1, QuietKeeps

\* A request that starts to store has written nothing yet.
LEMMA AuthenticateKeeps ==
  ASSUME UploadInv, NEW u \in Uploads, NEW n \in RequestNumbers, Authenticate(u, n)
  PROVE  UploadInv'
<1>1. TypeOK /\ UNCHANGED <<blobs, row, enqueued, faults, app>>
  BY DEF UploadInv, Authenticate, server
<1>2. CASE Answer(u, n, "unauthorized") /\ UNCHANGED part
  <2>1. OnlyPart(u, n) /\ faults' \in Nat
    BY <1>1, <1>2 DEF OnlyPart, TypeOK
  <2>2. QED
    BY <1>1, <1>2, <2>1, AnswerKeeps
<1>3. CASE Goto(u, n, "storing") /\ part' = [part EXCEPT ![u][n] = 1]
  <2>1. 1 \in 0..Len(Parts) /\ 1 \in 1..Len(Parts)
    BY SomeParts
  <2>2. OnlyPart(u, n) /\ part'[u][n] = 1
    BY <1>1, <1>3, <2>1, PartStep
  <2>3. "storing" \in States
    BY DEF States, Running
  <2>4. /\ request' \in [Uploads -> [RequestNumbers -> States]]
        /\ \A v \in Uploads, m \in RequestNumbers :
             request'[v][m] = IF v = u /\ m = n THEN "storing" ELSE request[v][m]
    BY <1>1, <1>3, <2>3, GotoStep
  <2>5. TypeOK'
    BY <1>1, <2>2, <2>4 DEF TypeOK, States, app, OnlyPart
  <2>6. Counted' /\ CompleteMeansStored' /\ RefsResolve' /\ EnqueuedOnce'
    BY <1>1 DEF UploadInv, app, Counted, CompleteMeansStored, RefsResolve, EnqueuedOnce
  <2>7. StoredInOrder'
    <3>1. Stored(u, n)'
      BY <2>1, <2>2, <2>4 DEF Stored
    <3>2. QED
      BY <1>1, <2>2, <2>4, <3>1, StoredStep
  <2>8. OneEnqueuer' /\ OkMeansStored'
    BY <1>1, <2>4 DEF UploadInv, OneEnqueuer, OkMeansStored
  <2>9. QED
    BY <2>5, <2>6, <2>7, <2>8 DEF UploadInv
<1>4. QED
  BY <1>2, <1>3 DEF Authenticate

\* Each blob is written after those before it; after the last, all are there.
LEMMA PutBlobKeeps ==
  ASSUME UploadInv, NEW u \in Uploads, NEW n \in RequestNumbers, PutBlob(u, n)
  PROVE  UploadInv'
<1> DEFINE j == JobOf[u]
           p == part[u][n]
<1>1. /\ TypeOK /\ request[u][n] = "storing"
      /\ UNCHANGED <<row, enqueued, faults, app>>
      /\ blobs' = [blobs EXCEPT ![j][p] = SessionOf[u]]
  BY DEF UploadInv, PutBlob, UploadKey
<1>2. p \in 1..Len(Parts) /\ \A b \in 1..(p - 1) : blobs[j][b] # NoSession
  BY <1>1 DEF UploadInv, StoredInOrder, Stored
<1>3. /\ j \in Jobs /\ SessionOf[u] \in SessionIds /\ SessionOf[u] # NoSession
      /\ Len(Parts) \in Nat
  BY UploadsAssumption, SomeParts
<1>4. /\ blobs' \in [Jobs -> [1..Len(Parts) -> SessionIds \cup {NoSession}]]
      /\ \A k \in Jobs, b \in 1..Len(Parts) :
           blobs'[k][b] = IF k = j /\ b = p THEN SessionOf[u] ELSE blobs[k][b]
  BY <1>1, <1>2, <1>3 DEF TypeOK
<1>5. \A k \in Jobs, b \in 1..Len(Parts) : blobs[k][b] # NoSession => blobs'[k][b] # NoSession
  BY <1>3, <1>4
<1>6. RefsResolve'
  BY <1>1, <1>5 DEF UploadInv, RefsResolve, TypeOK
<1>7. Counted' /\ CompleteMeansStored' /\ EnqueuedOnce'
  BY <1>1 DEF UploadInv, app, Counted, CompleteMeansStored, EnqueuedOnce
<1>8. CASE p < Len(Parts)
  <2>1. part' = [part EXCEPT ![u][n] = p + 1] /\ UNCHANGED request
    BY <1>8 DEF PutBlob
  <2>2. p + 1 \in 0..Len(Parts) /\ p + 1 \in 1..Len(Parts)
    BY <1>2, <1>3, <1>8
  <2>3. OnlyPart(u, n) /\ part'[u][n] = p + 1
    BY <1>1, <2>1, <2>2, PartStep
  <2>4. \A b \in 1..p : blobs'[j][b] # NoSession
    BY <1>2, <1>3, <1>4
  <2>5. Stored(u, n)'
    BY <1>1, <1>2, <1>3, <2>1, <2>2, <2>3, <2>4 DEF Stored
  <2>6. StoredInOrder'
    BY <1>5, <2>1, <2>3, <2>5, StoredStep
  <2>7. OneEnqueuer' /\ OkMeansStored'
    BY <1>1, <2>1 DEF UploadInv, OneEnqueuer, OkMeansStored
  <2>8. TypeOK'
    BY <1>1, <1>4, <2>1, <2>3 DEF TypeOK, app, OnlyPart
  <2>9. QED
    BY <1>6, <1>7, <2>6, <2>7, <2>8 DEF UploadInv
<1>9. CASE ~(p < Len(Parts))
  <2>1. Goto(u, n, "persisting") /\ part' = [part EXCEPT ![u][n] = 0]
    BY <1>9 DEF PutBlob
  <2>2. 0 \in 0..Len(Parts)
    BY <1>3
  <2>3. OnlyPart(u, n)
    BY <1>1, <2>1, <2>2, PartStep
  <2>4. "persisting" \in States
    BY DEF States, Running
  <2>5. /\ request' \in [Uploads -> [RequestNumbers -> States]]
        /\ \A v \in Uploads, m \in RequestNumbers :
             request'[v][m] = IF v = u /\ m = n THEN "persisting" ELSE request[v][m]
    BY <1>1, <2>1, <2>4, GotoStep
  <2>6. \A b \in 1..Len(Parts) : blobs'[j][b] # NoSession
    BY <1>2, <1>3, <1>4, <1>9
  <2>7. Stored(u, n)'
    BY <2>5, <2>6 DEF Stored
  <2>8. StoredInOrder'
    BY <1>5, <2>3, <2>5, <2>7, StoredStep
  <2>9. OneEnqueuer' /\ OkMeansStored'
    BY <1>1, <2>5 DEF UploadInv, OneEnqueuer, OkMeansStored
  <2>10. TypeOK'
    BY <1>1, <1>4, <2>3, <2>5 DEF TypeOK, app, OnlyPart, States
  <2>11. QED
    BY <1>6, <1>7, <2>8, <2>9, <2>10 DEF UploadInv
<1>10. QED
  BY <1>8, <1>9

\* A request goes on without touching storage, its counter or the app.
LEMMA MoveStep ==
  ASSUME UploadInv, NEW u \in Uploads, NEW n \in RequestNumbers,
         NEW x \in {"enqueueing", "ok", "gone"}, Goto(u, n, x), UNCHANGED <<blobs, part, faults, app>>,
         row' \in [SessionIds -> Jobs \cup {NoJob}], enqueued' \in [SessionIds -> Nat]
  PROVE  /\ TypeOK' /\ Counted' /\ StoredInOrder'
         /\ \A v \in Uploads, m \in RequestNumbers :
              request'[v][m] = IF v = u /\ m = n THEN x ELSE request[v][m]
<1>1. TypeOK /\ x \in States
  BY DEF UploadInv, States, Answers, Running
<1>2. /\ request' \in [Uploads -> [RequestNumbers -> States]]
      /\ \A v \in Uploads, m \in RequestNumbers :
           request'[v][m] = IF v = u /\ m = n THEN x ELSE request[v][m]
  BY <1>1, GotoStep
<1>3. OnlyPart(u, n)
  BY <1>1 DEF OnlyPart, TypeOK
<1>4. Stored(u, n)'
  BY <1>2 DEF Stored
<1>5. StoredInOrder'
  BY <1>2, <1>3, <1>4, StoredStep
<1>6. TypeOK'
  BY <1>1, <1>2 DEF TypeOK, app, States
<1>7. Counted'
  BY DEF UploadInv, app, Counted
<1>8. QED
  BY <1>2, <1>5, <1>6, <1>7

\* The first request of a session that persists inserts its row and alone may enqueue.
LEMMA PersistKeeps ==
  ASSUME UploadInv, NEW u \in Uploads, NEW n \in RequestNumbers, Persist(u, n)
  PROVE  UploadInv'
<1> DEFINE s == SessionOf[u]
<1>1. /\ TypeOK /\ request[u][n] = "persisting" /\ row[s] = NoJob
      /\ row' = [row EXCEPT ![s] = JobOf[u]] /\ Goto(u, n, "enqueueing")
      /\ UNCHANGED <<blobs, enqueued, faults, app, part>>
  BY DEF UploadInv, Persist
<1>2. s \in SessionIds /\ JobOf[u] \in Jobs /\ JobOf[u] # NoJob
  BY UploadsAssumption
<1>3. /\ row' \in [SessionIds -> Jobs \cup {NoJob}]
      /\ \A t \in SessionIds : row'[t] = IF t = s THEN JobOf[u] ELSE row[t]
      /\ enqueued' \in [SessionIds -> Nat]
  BY <1>1, <1>2 DEF TypeOK
<1>4. /\ TypeOK' /\ Counted' /\ StoredInOrder'
      /\ \A v \in Uploads, m \in RequestNumbers :
           request'[v][m] = IF v = u /\ m = n THEN "enqueueing" ELSE request[v][m]
  BY <1>1, <1>3, MoveStep
<1>5. \A v \in Uploads, m \in RequestNumbers :
        request[v][m] \in {"enqueueing", "ok"} => SessionOf[v] # s
  BY <1>1, <1>2, UploadsAssumption DEF UploadInv, OneEnqueuer, OkMeansStored
<1>6. \A v \in Uploads : SessionOf[v] \in SessionIds
  BY UploadsAssumption
<1>7. enqueued[s] = 0
  BY <1>1, <1>2 DEF UploadInv, EnqueuedOnce, TypeOK
<1>8. OneEnqueuer'
  BY <1>1, <1>3, <1>4, <1>5, <1>6, <1>7 DEF UploadInv, OneEnqueuer
<1>9. OkMeansStored'
  BY <1>3, <1>4, <1>5, <1>6 DEF UploadInv, OkMeansStored
<1>10. RefsResolve'
  <2>1. \A b \in 1..Len(Parts) : blobs[JobOf[u]][b] # NoSession
    BY <1>1 DEF UploadInv, StoredInOrder, Stored
  <2>2. QED
    BY <1>1, <1>3, <2>1 DEF UploadInv, RefsResolve
<1>11. EnqueuedOnce'
  BY <1>1, <1>2, <1>3, <1>7 DEF UploadInv, EnqueuedOnce
<1>12. CompleteMeansStored'
  BY <1>1, <1>2, <1>3, <1>6, UploadsAssumption DEF UploadInv, CompleteMeansStored, app
<1>13. QED
  BY <1>4, <1>8, <1>9, <1>10, <1>11, <1>12 DEF UploadInv

\* A row of the job itself is a retry that succeeds; one of another is refused.
LEMMA ResolveDuplicateKeeps ==
  ASSUME UploadInv, NEW u \in Uploads, NEW n \in RequestNumbers, ResolveDuplicate(u, n)
  PROVE  UploadInv'
<1>1. TypeOK /\ UNCHANGED <<blobs, row, enqueued, faults, app, part>>
  BY DEF UploadInv, ResolveDuplicate, server
<1>2. CASE row[SessionOf[u]] = JobOf[u]
  <2>1. PICK x \in {"ok", "gone"} : Goto(u, n, x)
    BY <1>2 DEF ResolveDuplicate, Answer
  <2>2. row' \in [SessionIds -> Jobs \cup {NoJob}] /\ enqueued' \in [SessionIds -> Nat]
    BY <1>1 DEF TypeOK
  <2>3. /\ TypeOK' /\ Counted' /\ StoredInOrder'
        /\ \A v \in Uploads, m \in RequestNumbers :
             request'[v][m] = IF v = u /\ m = n THEN x ELSE request[v][m]
    BY <1>1, <2>1, <2>2, MoveStep
  <2>4. OneEnqueuer'
    BY <1>1, <2>3 DEF UploadInv, OneEnqueuer
  <2>5. OkMeansStored'
    BY <1>1, <1>2, <2>3 DEF UploadInv, OkMeansStored
  <2>6. RefsResolve' /\ EnqueuedOnce' /\ CompleteMeansStored'
    BY <1>1 DEF UploadInv, RefsResolve, EnqueuedOnce, CompleteMeansStored, app
  <2>7. QED
    BY <2>3, <2>4, <2>5, <2>6 DEF UploadInv
<1>3. CASE row[SessionOf[u]] # JobOf[u]
  <2>1. Answer(u, n, "conflict")
    BY <1>3 DEF ResolveDuplicate
  <2>2. OnlyPart(u, n) /\ faults' \in Nat
    BY <1>1 DEF OnlyPart, TypeOK
  <2>3. QED
    BY <1>1, <2>1, <2>2, AnswerKeeps
<1>4. QED
  BY <1>2, <1>3

\* The enqueuer is alone, so its session's count goes from 0 to 1.
LEMMA EnqueueFusionKeeps ==
  ASSUME UploadInv, NEW u \in Uploads, NEW n \in RequestNumbers, EnqueueFusion(u, n)
  PROVE  UploadInv'
<1> DEFINE s == SessionOf[u]
<1>1. /\ TypeOK /\ request[u][n] = "enqueueing"
      /\ enqueued' = [enqueued EXCEPT ![s] = enqueued[s] + 1]
      /\ UNCHANGED <<blobs, row, faults, app, part>>
  BY DEF UploadInv, EnqueueFusion
<1>2. s \in SessionIds /\ JobOf[u] \in Jobs /\ JobOf[u] # NoJob
  BY UploadsAssumption
<1>3. /\ row[s] = JobOf[u] /\ enqueued[s] = 0
      /\ \A v \in Uploads, m \in RequestNumbers :
           request[v][m] = "enqueueing" /\ SessionOf[v] = s => v = u /\ m = n
  BY <1>1 DEF UploadInv, OneEnqueuer
<1>4. /\ enqueued' \in [SessionIds -> Nat]
      /\ \A t \in SessionIds : enqueued'[t] = IF t = s THEN 1 ELSE enqueued[t]
  BY <1>1, <1>2, <1>3 DEF TypeOK
<1>5. PICK x \in {"ok", "gone"} : Goto(u, n, x)
  BY DEF EnqueueFusion, Answer
<1>6. row' \in [SessionIds -> Jobs \cup {NoJob}]
  BY <1>1 DEF TypeOK
<1>7. /\ TypeOK' /\ Counted' /\ StoredInOrder'
      /\ \A v \in Uploads, m \in RequestNumbers :
           request'[v][m] = IF v = u /\ m = n THEN x ELSE request[v][m]
  BY <1>1, <1>4, <1>5, <1>6, MoveStep
<1>8. \A v \in Uploads : SessionOf[v] \in SessionIds
  BY UploadsAssumption
<1>9. OneEnqueuer'
  BY <1>1, <1>3, <1>4, <1>7, <1>8 DEF UploadInv, OneEnqueuer
<1>10. OkMeansStored'
  BY <1>1, <1>3, <1>7 DEF UploadInv, OkMeansStored
<1>11. EnqueuedOnce'
  BY <1>1, <1>2, <1>3, <1>4 DEF UploadInv, EnqueuedOnce
<1>12. RefsResolve' /\ CompleteMeansStored'
  BY <1>1 DEF UploadInv, RefsResolve, CompleteMeansStored, app
<1>13. QED
  BY <1>7, <1>9, <1>10, <1>11, <1>12 DEF UploadInv

\* Every step of a request preserves the invariant; what fails leaves nothing.
LEMMA CreateKeeps ==
  ASSUME UploadInv, NEW u \in Uploads, NEW n \in RequestNumbers, Create(u, n)
  PROVE  UploadInv'
<1>1. TypeOK
  BY DEF UploadInv
<1>2. 0 \in 0..Len(Parts)
  BY SomeParts
<1>3. CASE StorageFails(u, n)
  <2>1. /\ Answer(u, n, "unavailable") /\ part' = [part EXCEPT ![u][n] = 0]
        /\ UNCHANGED <<blobs, row, enqueued, faults, app>>
    BY <1>3 DEF StorageFails, server
  <2>2. OnlyPart(u, n)
    BY <1>1, <1>2, <2>1, PartStep
  <2>3. faults' \in Nat
    BY <1>1, <2>1 DEF TypeOK
  <2>4. QED
    BY <2>1, <2>2, <2>3, AnswerKeeps
<1>4. CASE EnqueueFails(u, n)
  <2>1. /\ Answer(u, n, "unavailable") /\ faults' = faults + 1
        /\ UNCHANGED <<blobs, row, enqueued, app, part>>
    BY <1>4 DEF EnqueueFails
  <2>2. OnlyPart(u, n) /\ faults' \in Nat
    BY <1>1, <2>1 DEF OnlyPart, TypeOK
  <2>3. QED
    BY <2>1, <2>2, AnswerKeeps
<1>5. CASE Crash(u, n)
  <2>1. /\ Goto(u, n, "gone") /\ faults' = faults + 1 /\ part' = [part EXCEPT ![u][n] = 0]
        /\ UNCHANGED <<blobs, row, enqueued, app>>
    BY <1>5 DEF Crash
  <2>2. OnlyPart(u, n)
    BY <1>1, <1>2, <2>1, PartStep
  <2>3. faults' \in Nat
    BY <1>1, <2>1 DEF TypeOK
  <2>4. QED
    BY <2>1, <2>2, <2>3, QuietKeeps
<1>6. CASE Authenticate(u, n)
  BY <1>6, AuthenticateKeeps
<1>7. CASE PutBlob(u, n)
  BY <1>7, PutBlobKeeps
<1>8. CASE Persist(u, n)
  BY <1>8, PersistKeeps
<1>9. CASE ResolveDuplicate(u, n)
  BY <1>9, ResolveDuplicateKeeps
<1>10. CASE EnqueueFusion(u, n)
  BY <1>10, EnqueueFusionKeeps
<1>11. QED
  BY <1>3, <1>4, <1>5, <1>6, <1>7, <1>8, <1>9, <1>10 DEF Create

-----------------------------------------------------------------------------
(* The theorems.                                                            *)

\* Nothing is uploaded at first.
LEMMA InitKeeps == Init => UploadInv
<1> SUFFICES ASSUME Init PROVE UploadInv
  OBVIOUS
<1>1. Len(Parts) \in Nat /\ 0 \in 0..Len(Parts)
  BY SomeParts
<1>2. TypeOK
  <2>1. /\ blobs \in [Jobs -> [1..Len(Parts) -> SessionIds \cup {NoSession}]]
        /\ row \in [SessionIds -> Jobs \cup {NoJob}]
        /\ enqueued \in [SessionIds -> Nat]
        /\ faults \in Nat
    BY DEF Init
  <2>2. /\ client \in [Uploads -> {"ready", "uploading", "failed", "complete", "saved"}]
        /\ sent \in [Uploads -> {0} \cup RequestNumbers]
        /\ request \in [Uploads -> [RequestNumbers -> Answers \cup Running \cup {"none", "gone"}]]
    BY DEF Init
  <2>3. attempt \in [Uploads -> 0..MaxAttempts]
    BY DEF Init, MaxAttempts
  <2>4. part \in [Uploads -> [RequestNumbers -> 0..Len(Parts)]]
    BY <1>1 DEF Init
  <2>5. QED
    BY <2>1, <2>2, <2>3, <2>4 DEF TypeOK
<1>3. Counted /\ CompleteMeansStored
  BY DEF Init, Counted, CompleteMeansStored
<1>4. StoredInOrder /\ OneEnqueuer /\ OkMeansStored
  BY DEF Init, StoredInOrder, Stored, OneEnqueuer, OkMeansStored
<1>5. RefsResolve /\ EnqueuedOnce
  BY DEF Init, RefsResolve, EnqueuedOnce
<1>6. QED
  BY <1>2, <1>3, <1>4, <1>5 DEF UploadInv

\* The invariant is inductive.
LEMMA Inductive == Spec => []UploadInv
<1>1. UploadInv /\ [Next]_vars => UploadInv'
  <2> SUFFICES ASSUME UploadInv, [Next]_vars PROVE UploadInv'
    OBVIOUS
  <2>1. CASE Next
    <3>1. PICK u \in Uploads : Attempt(u) \/ User(u) \/ \E n \in RequestNumbers : Create(u, n)
      BY <2>1 DEF Next
    <3>2. QED
      BY <3>1, AppKeeps, CreateKeeps
  <2>2. CASE UNCHANGED vars
    <3>1. UNCHANGED <<blobs, row, enqueued, faults, client, attempt, sent, request, part>>
      BY <2>2 DEF vars, server, app
    <3>2. TypeOK' /\ Counted' /\ CompleteMeansStored'
      BY <3>1 DEF UploadInv, TypeOK, Counted, CompleteMeansStored
    <3>3. StoredInOrder' /\ OneEnqueuer' /\ OkMeansStored'
      BY <3>1 DEF UploadInv, StoredInOrder, Stored, OneEnqueuer, OkMeansStored
    <3>4. RefsResolve' /\ EnqueuedOnce'
      BY <3>1 DEF UploadInv, RefsResolve, EnqueuedOnce
    <3>5. QED
      BY <3>2, <3>3, <3>4 DEF UploadInv
  <2>3. QED
    BY <2>1, <2>2
<1>2. QED
  BY <1>1, InitKeeps, PTL DEF Spec

\* The variables keep their types: in particular an attempt never runs past the
\* client's limit, and a request never past its blobs.
THEOREM UploadTypeCorrect == Spec => []TypeOK
<1>1. UploadInv => TypeOK
  BY DEF UploadInv
<1>2. QED
  BY <1>1, Inductive, PTL

\* The rows are written after the blobs, in every interleaving of requests that
\* share their keys: the refs of a stored session always resolve.
THEOREM RefsAlwaysResolve == Spec => []RefsResolve
<1>1. UploadInv => RefsResolve
  BY DEF UploadInv
<1>2. QED
  BY <1>1, Inductive, PTL

\* Only the request that inserted the row enqueues, however many retries race it
\* and whatever answers are lost: one FusionJob per session.
THEOREM FusionEnqueuedOnce == Spec => []EnqueuedOnce
<1>1. UploadInv => EnqueuedOnce
  BY DEF UploadInv
<1>2. QED
  BY <1>1, Inductive, PTL

\* Complete in the app means stored under the bundle's own job, even where
\* session ids collide between jobs.
THEOREM CompleteIsStored == Spec => []CompleteMeansStored
<1>1. UploadInv => CompleteMeansStored
  BY DEF UploadInv
<1>2. QED
  BY <1>1, Inductive, PTL

-----------------------------------------------------------------------------
(* What reaches fusion.                                                     *)

\* A request that was not sent has not begun.
Unsent ==
  \A u \in Uploads :
    /\ client[u] = "ready" => sent[u] = 0
    /\ \A n \in RequestNumbers : n > sent[u] => request[u][n] = "none"

\* Every blob is of a bundle that was sent to the blob's job.
BlobsAreSent ==
  \A j \in Jobs, b \in 1..Len(Parts) : blobs[j][b] # NoSession =>
    \E u \in Uploads : JobOf[u] = j /\ SessionOf[u] = blobs[j][b] /\ sent[u] > 0

Enqueueing(s) ==
  \E v \in Uploads, n \in RequestNumbers : SessionOf[v] = s /\ request[v][n] = "enqueueing"

\* Without a crash, a stored session is enqueued or will be by the request that stored it.
StoredIsFused ==
  faults = 0 => \A s \in SessionIds : row[s] # NoJob => enqueued[s] = 1 \/ Enqueueing(s)

FuseInv == Unsent /\ BlobsAreSent /\ StoredIsFused

\* What the app's steps leave alone: requests on the server's hands stay there,
\* unsent ones stay unsent, and what was sent was sent.
LEMMA AppSends ==
  ASSUME UploadInv, Unsent, NEW u \in Uploads, Attempt(u) \/ User(u)
  PROVE  /\ UNCHANGED server
         /\ Unsent'
         /\ \A v \in Uploads : sent[v] > 0 => sent'[v] > 0
         /\ \A v \in Uploads, m \in RequestNumbers :
              request[v][m] = "enqueueing" => request'[v][m] = "enqueueing"
<1> DEFINE Kept == /\ Unsent'
                   /\ \A v \in Uploads : sent[v] > 0 => sent'[v] > 0
                   /\ \A v \in Uploads, m \in RequestNumbers :
                        request[v][m] = "enqueueing" => request'[v][m] = "enqueueing"
<1>1. TypeOK /\ Counted
  BY DEF UploadInv
<1>2. \A v \in Uploads : sent[v] \in Nat
  <2>1. \A v \in Uploads : sent[v] \in {0} \cup RequestNumbers
    BY <1>1 DEF TypeOK
  <2>2. 0 \in Nat /\ RequestNumbers \subseteq Nat
    BY Numbers
  <2>3. QED
    BY <2>1, <2>2, Zenon
<1>3. \A n \in RequestNumbers : n \in Nat
  BY Numbers
<1>4. ASSUME NEW n \in RequestNumbers, n = sent[u] + 1, Send(u, n, 1),
             request' = [request EXCEPT ![u][n] = "sent"]
      PROVE  Kept
  <2>1. client' = [client EXCEPT ![u] = "uploading"] /\ sent' = [sent EXCEPT ![u] = n]
    BY <1>4 DEF Send
  <2>2. request[u][n] = "none"
    BY <1>2, <1>4 DEF Unsent
  <2>3. \A v \in Uploads, m \in RequestNumbers :
          request'[v][m] = IF v = u /\ m = n THEN "sent" ELSE request[v][m]
    BY <1>1, <1>4 DEF TypeOK
  <2>4. \A v \in Uploads : sent'[v] = (IF v = u THEN n ELSE sent[v])
                         /\ client'[v] = (IF v = u THEN "uploading" ELSE client[v])
    BY <1>1, <2>1 DEF TypeOK
  <2>5. \A v \in Uploads : sent[v] > 0 => sent'[v] > 0
    BY <1>2, <1>4, <2>4
  <2>6. Unsent'
    BY <1>2, <1>3, <1>4, <2>3, <2>4 DEF Unsent
  <2>7. QED
    BY <2>2, <2>3, <2>5, <2>6
<1>5. ASSUME NEW state \in {"failed", "complete", "saved"}, Show(u, state),
             \A v \in Uploads, m \in RequestNumbers :
               request'[v][m] = request[v][m] \/ (v = u /\ m = sent[u] /\ request[v][m] # "enqueueing")
      PROVE  Kept
  <2>1. client' = [client EXCEPT ![u] = state] /\ UNCHANGED sent
    BY <1>5 DEF Show
  <2>2. \A v \in Uploads : client'[v] = IF v = u THEN state ELSE client[v]
    BY <1>1, <2>1 DEF TypeOK
  <2>3. Unsent'
    BY <1>2, <1>3, <1>5, <2>1, <2>2 DEF Unsent
  <2>4. QED
    BY <1>5, <2>1, <2>3
<1>6. ASSUME NEW old, client[u] = "uploading", Fail(u, old),
             request[u][sent[u]] = "enqueueing" => old = "enqueueing"
      PROVE  Kept
  <2>1. CASE attempt[u] < MaxAttempts
    <3>1. Send(u, sent[u] + 1, attempt[u] + 1) /\ Sent(u, old, TRUE) /\ sent[u] + 1 \in RequestNumbers
      BY <1>1, <1>6, <2>1 DEF Fail, Counted
    <3>2. client' = [client EXCEPT ![u] = "uploading"] /\ sent' = [sent EXCEPT ![u] = sent[u] + 1]
      BY <3>1 DEF Send
    <3>3. \A v \in Uploads : sent'[v] = (IF v = u THEN sent[u] + 1 ELSE sent[v])
                           /\ client'[v] = (IF v = u THEN "uploading" ELSE client[v])
      BY <1>1, <3>2 DEF TypeOK
    <3>4. \A v \in Uploads, m \in RequestNumbers :
            request'[v][m] = IF v = u /\ m = sent[u] THEN old
                             ELSE IF v = u /\ m = sent[u] + 1 THEN "sent"
                             ELSE request[v][m]
      BY <1>1, <3>1 DEF Sent, TypeOK
    <3>5. request[u][sent[u] + 1] = "none"
      BY <1>2, <3>1 DEF Unsent
    <3>6. Unsent'
      BY <1>2, <1>3, <3>3, <3>4 DEF Unsent
    <3>7. \A v \in Uploads : sent[v] > 0 => sent'[v] > 0
      BY <1>2, <3>3
    <3>8. QED
      BY <1>6, <3>4, <3>5, <3>6, <3>7
  <2>2. CASE ~(attempt[u] < MaxAttempts)
    <3>1. Show(u, "failed") /\ Sent(u, old, FALSE)
      BY <1>6, <2>2 DEF Fail
    <3>2. \A v \in Uploads, m \in RequestNumbers :
            request'[v][m] = IF v = u /\ m = sent[u] THEN old ELSE request[v][m]
      BY <1>1, <3>1 DEF Sent, TypeOK
    <3>3. client' = [client EXCEPT ![u] = "failed"] /\ UNCHANGED sent
      BY <3>1 DEF Show
    <3>4. \A v \in Uploads : client'[v] = IF v = u THEN "failed" ELSE client[v]
      BY <1>1, <3>3 DEF TypeOK
    <3>5. Unsent'
      BY <1>2, <1>3, <3>2, <3>3, <3>4 DEF Unsent
    <3>6. QED
      BY <1>6, <3>2, <3>3, <3>5
  <2>3. QED
    BY <2>1, <2>2
<1>7. UNCHANGED server
  BY DEF Attempt, User, Start, RetryUpload, SaveBundleLocally, Succeeds, Unauthorized,
     OtherStatus, TransportFails
<1>8. CASE Start(u)
  <2>1. 1 \in RequestNumbers /\ 1 = sent[u] + 1
    BY <1>8, Numbers DEF Start, Unsent
  <2>2. Send(u, 1, 1) /\ request' = [request EXCEPT ![u][1] = "sent"]
    BY <1>8 DEF Start
  <2>3. QED
    BY <1>4, <1>7, <2>1, <2>2
<1>9. CASE RetryUpload(u)
  <2>1. MaxRetries \in Nat /\ sent[u] + 2 \in RequestNumbers
    BY <1>9, BoundsAssumption DEF RetryUpload, MaxAttempts
  <2>2. sent[u] + 1 \in RequestNumbers
    BY <1>2, <2>1 DEF RequestNumbers, MaxAttempts
  <2>3. QED
    BY <1>4, <1>7, <1>9, <2>2 DEF RetryUpload
<1>10. CASE SaveBundleLocally(u)
  BY <1>5, <1>7, <1>10 DEF SaveBundleLocally
<1>11. CASE Succeeds(u) \/ Unauthorized(u)
  <2>1. PICK state \in {"failed", "complete"} : Show(u, state)
    BY <1>11 DEF Succeeds, Unauthorized
  <2>2. Sent(u, "gone", FALSE) /\ request[u][sent[u]] # "enqueueing"
    BY <1>11 DEF Succeeds, Unauthorized
  <2>3. \A v \in Uploads, m \in RequestNumbers :
          request'[v][m] = IF v = u /\ m = sent[u] THEN "gone" ELSE request[v][m]
    BY <1>1, <2>2 DEF Sent, TypeOK
  <2>4. QED
    BY <1>5, <1>7, <2>1, <2>2, <2>3
<1>12. CASE OtherStatus(u)
  BY <1>6, <1>7, <1>12 DEF OtherStatus
<1>13. CASE TransportFails(u)
  BY <1>6, <1>7, <1>13 DEF TransportFails, Running
<1>14. QED
  BY <1>8, <1>9, <1>10, <1>11, <1>12, <1>13 DEF Attempt, User


\* Where a request of the server's goes: nothing is sent, and only the request
\* at hand moves.
LEMMA CreateMoves ==
  ASSUME TypeOK, NEW u \in Uploads, NEW n \in RequestNumbers, Create(u, n)
  PROVE  /\ UNCHANGED <<client, sent>>
         /\ request[u][n] # "none"
         /\ \A v \in Uploads, m \in RequestNumbers : v # u \/ m # n => request'[v][m] = request[v][m]
<1>1. request[u][n] \in Running /\ UNCHANGED <<client, sent>>
  BY DEF Create, Authenticate, PutBlob, StorageFails, Persist, ResolveDuplicate, EnqueueFusion,
     EnqueueFails, Crash, Running, app
<1>2. (\E x \in States : request' = [request EXCEPT ![u][n] = x]) \/ UNCHANGED request
  BY DEF Create, Authenticate, PutBlob, StorageFails, Persist, ResolveDuplicate, EnqueueFusion,
     EnqueueFails, Crash, Running, app, Goto, Answer, States, Answers
<1>3. \A v \in Uploads, m \in RequestNumbers : v # u \/ m # n => request'[v][m] = request[v][m]
  BY <1>2 DEF TypeOK
<1>4. QED
  BY <1>1, <1>3 DEF Running

\* A step of a request: blobs are of what was sent, and the right to enqueue is
\* used or lost to a fault.
LEMMA CreateFuses ==
  ASSUME UploadInv, UploadInv', FuseInv, NEW u \in Uploads, NEW n \in RequestNumbers, Create(u, n)
  PROVE  FuseInv'
<1>1. /\ TypeOK /\ Unsent /\ BlobsAreSent /\ StoredIsFused
      /\ JobOf[u] \in Jobs /\ SessionOf[u] \in SessionIds
  BY UploadsAssumption DEF UploadInv, FuseInv
<1>2. /\ UNCHANGED <<client, sent>>
      /\ request[u][n] # "none"
      /\ \A v \in Uploads, m \in RequestNumbers : v # u \/ m # n => request'[v][m] = request[v][m]
  BY <1>1, CreateMoves
<1>3. n \in Nat /\ sent[u] \in Nat
  <2>1. sent[u] \in {0} \cup RequestNumbers
    BY <1>1 DEF TypeOK
  <2>2. 0 \in Nat /\ RequestNumbers \subseteq Nat
    BY Numbers
  <2>3. QED
    BY <2>1, <2>2, Zenon
<1>4. n <= sent[u] /\ sent[u] > 0
  <2>1. ~(n > sent[u])
    BY <1>1, <1>2 DEF Unsent
  <2>2. n >= 1
    BY BoundsAssumption DEF RequestNumbers, MaxAttempts
  <2>3. QED
    BY <1>3, <2>1, <2>2
<1>5. Unsent'
  BY <1>1, <1>2, <1>4, <1>3 DEF Unsent
<1>6. BlobsAreSent'
  <2>1. CASE PutBlob(u, n)
    <3>1. blobs' = [blobs EXCEPT ![JobOf[u]][part[u][n]] = SessionOf[u]]
      BY <2>1 DEF PutBlob, UploadKey
    <3>2. \A j \in Jobs, b \in 1..Len(Parts) :
            blobs'[j][b] = blobs[j][b] \/ (j = JobOf[u] /\ blobs'[j][b] = SessionOf[u])
      BY <1>1, <3>1 DEF TypeOK
    <3>3. ASSUME NEW j \in Jobs, NEW b \in 1..Len(Parts), blobs'[j][b] # NoSession
          PROVE  \E v \in Uploads : JobOf[v] = j /\ SessionOf[v] = blobs'[j][b] /\ sent'[v] > 0
      BY <1>1, <1>2, <1>4, <3>2, <3>3 DEF BlobsAreSent
    <3>4. QED
      BY <3>3 DEF BlobsAreSent
  <2>2. CASE UNCHANGED blobs
    BY <1>1, <1>2, <2>2 DEF BlobsAreSent
  <2>3. QED
    BY <2>1, <2>2 DEF Create, Authenticate, StorageFails, Persist, ResolveDuplicate,
       EnqueueFusion, EnqueueFails, Crash, server
<1>7. StoredIsFused'
  <2> SUFFICES ASSUME faults' = 0, NEW s \in SessionIds, row'[s] # NoJob
               PROVE  enqueued'[s] = 1 \/ Enqueueing(s)'
    BY DEF StoredIsFused
  <2>1. faults = 0 /\ ~EnqueueFails(u, n) /\ ~Crash(u, n)
    BY <1>1 DEF TypeOK, Create, Authenticate, PutBlob, StorageFails, Persist, ResolveDuplicate,
       EnqueueFusion, EnqueueFails, Crash, server
  <2>2. CASE Persist(u, n)
    <3>1. /\ row' = [row EXCEPT ![SessionOf[u]] = JobOf[u]]
          /\ request' = [request EXCEPT ![u][n] = "enqueueing"]
          /\ request[u][n] = "persisting" /\ UNCHANGED enqueued
      BY <2>2 DEF Persist, Goto
    <3>2. request'[u][n] = "enqueueing"
      BY <1>1, <3>1 DEF TypeOK
    <3>3. CASE s = SessionOf[u]
      BY <3>2, <3>3 DEF Enqueueing
    <3>4. CASE s # SessionOf[u]
      <4>1. enqueued[s] = 1 \/ Enqueueing(s)
        BY <1>1, <2>1, <3>1, <3>4 DEF TypeOK, StoredIsFused
      <4>2. CASE Enqueueing(s)
        <5>1. PICK v \in Uploads, m \in RequestNumbers :
                SessionOf[v] = s /\ request[v][m] = "enqueueing"
          BY <4>2 DEF Enqueueing
        <5>2. request'[v][m] = "enqueueing"
          BY <1>2, <3>2, <5>1
        <5>3. QED
          BY <5>1, <5>2 DEF Enqueueing
      <4>3. QED
        BY <3>1, <4>1, <4>2
    <3>5. QED
      BY <3>3, <3>4
  <2>3. CASE EnqueueFusion(u, n)
    <3>1. /\ enqueued' = [enqueued EXCEPT ![SessionOf[u]] = @ + 1]
          /\ request[u][n] = "enqueueing" /\ UNCHANGED row
      BY <2>3 DEF EnqueueFusion
    <3>2. enqueued[SessionOf[u]] = 0
      BY <3>1 DEF UploadInv, OneEnqueuer
    <3>3. CASE s = SessionOf[u]
      BY <1>1, <3>1, <3>2, <3>3 DEF TypeOK
    <3>4. CASE s # SessionOf[u]
      <4>1. enqueued'[s] = enqueued[s] /\ (enqueued[s] = 1 \/ Enqueueing(s))
        BY <1>1, <2>1, <3>1, <3>4 DEF TypeOK, StoredIsFused
      <4>2. CASE Enqueueing(s)
        <5>1. PICK v \in Uploads, m \in RequestNumbers :
                SessionOf[v] = s /\ request[v][m] = "enqueueing"
          BY <4>2 DEF Enqueueing
        <5>2. request'[v][m] = "enqueueing"
          BY <1>2, <3>4, <5>1
        <5>3. QED
          BY <5>1, <5>2 DEF Enqueueing
      <4>3. QED
        BY <4>1, <4>2
    <3>5. QED
      BY <3>3, <3>4
  <2>4. CASE Authenticate(u, n) \/ PutBlob(u, n) \/ StorageFails(u, n) \/ ResolveDuplicate(u, n)
    <3>1. UNCHANGED <<row, enqueued>> /\ request[u][n] # "enqueueing"
      BY <2>4 DEF Authenticate, PutBlob, StorageFails, ResolveDuplicate, server
    <3>2. enqueued[s] = 1 \/ Enqueueing(s)
      BY <1>1, <2>1, <3>1 DEF StoredIsFused
    <3>3. CASE Enqueueing(s)
      <4>1. PICK v \in Uploads, m \in RequestNumbers :
              SessionOf[v] = s /\ request[v][m] = "enqueueing"
        BY <3>3 DEF Enqueueing
      <4>2. request'[v][m] = "enqueueing"
        BY <1>2, <3>1, <4>1
      <4>3. QED
        BY <4>1, <4>2 DEF Enqueueing
    <3>4. QED
      BY <3>1, <3>2, <3>3
  <2>5. QED
    BY <2>1, <2>2, <2>3, <2>4 DEF Create
<1>8. QED
  BY <1>5, <1>6, <1>7 DEF FuseInv

\* A step of the app: what is on the server's hands stays there.
LEMMA AppFuses ==
  ASSUME UploadInv, FuseInv, NEW u \in Uploads, Attempt(u) \/ User(u)
  PROVE  FuseInv'
<1>1. Unsent /\ BlobsAreSent /\ StoredIsFused
  BY DEF FuseInv
<1>2. /\ UNCHANGED <<blobs, row, enqueued, faults>>
      /\ Unsent'
      /\ \A v \in Uploads : sent[v] > 0 => sent'[v] > 0
      /\ \A v \in Uploads, m \in RequestNumbers :
           request[v][m] = "enqueueing" => request'[v][m] = "enqueueing"
  BY <1>1, AppSends DEF server
<1>3. BlobsAreSent'
  BY <1>1, <1>2 DEF BlobsAreSent
<1>4. ASSUME NEW s \in SessionIds, Enqueueing(s)
      PROVE  Enqueueing(s)'
  BY <1>2, <1>4 DEF Enqueueing
<1>5. StoredIsFused'
  BY <1>1, <1>2, <1>4 DEF StoredIsFused
<1>6. QED
  BY <1>2, <1>3, <1>5 DEF FuseInv

LEMMA Fuses == Spec => []FuseInv
<1>1. Init => FuseInv
  <2> SUFFICES ASSUME Init PROVE FuseInv
    OBVIOUS
  <2>1. Unsent
    BY DEF Init, Unsent
  <2>2. BlobsAreSent /\ StoredIsFused
    BY DEF Init, BlobsAreSent, StoredIsFused
  <2>3. QED
    BY <2>1, <2>2 DEF FuseInv
<1>2. UploadInv /\ UploadInv' /\ FuseInv /\ [Next]_vars => FuseInv'
  <2> SUFFICES ASSUME UploadInv, UploadInv', FuseInv, [Next]_vars PROVE FuseInv'
    OBVIOUS
  <2>1. CASE Next
    <3>1. PICK u \in Uploads : Attempt(u) \/ User(u) \/ \E n \in RequestNumbers : Create(u, n)
      BY <2>1 DEF Next
    <3>2. QED
      BY <3>1, AppFuses, CreateFuses
  <2>2. CASE UNCHANGED vars
    <3>1. UNCHANGED <<blobs, row, enqueued, faults, client, sent, request>>
      BY <2>2 DEF vars, server, app
    <3>2. Unsent' /\ BlobsAreSent'
      BY <3>1 DEF FuseInv, Unsent, BlobsAreSent
    <3>3. StoredIsFused'
      BY <3>1 DEF FuseInv, StoredIsFused, Enqueueing
    <3>4. QED
      BY <3>2, <3>3 DEF FuseInv
  <2>3. QED
    BY <2>1, <2>2
<1>3. QED
  BY <1>1, <1>2, Inductive, PTL DEF Spec

\* A session that is alone under its job fuses its own blobs, whatever retries
\* and bundles of other jobs do: each blob there is of a bundle that was sent
\* there.
THEOREM OwnBlobsFused == Spec => []FusesOwnBlobs
<1>1. UploadInv /\ FuseInv => FusesOwnBlobs
  <2> SUFFICES ASSUME UploadInv, FuseInv, NEW s \in SessionIds, enqueued[s] > 0,
                      \A u \in Uploads : JobOf[u] = row[s] /\ sent[u] > 0 => SessionOf[u] = s,
                      NEW b \in 1..Len(Parts)
               PROVE  blobs[row[s]][b] = s
    BY DEF FusesOwnBlobs
  <2>1. row[s] # NoJob
    BY DEF UploadInv, TypeOK, EnqueuedOnce
  <2>2. row[s] \in Jobs /\ blobs[row[s]][b] # NoSession
    BY <2>1 DEF UploadInv, TypeOK, RefsResolve
  <2>3. PICK u \in Uploads : JobOf[u] = row[s] /\ SessionOf[u] = blobs[row[s]][b] /\ sent[u] > 0
    BY <2>2 DEF FuseInv, BlobsAreSent
  <2>4. QED
    BY <2>3
<1>2. QED
  BY <1>1, Inductive, Fuses, PTL

\* Where the server did not fail, a bundle the app calls complete was enqueued
\* for fusion, or the request that stored it is about to.
THEOREM CompleteIsFused == Spec => []CompleteMeansFused
<1>1. UploadInv /\ FuseInv => CompleteMeansFused
  <2> SUFFICES ASSUME UploadInv, FuseInv, NEW u \in Uploads, client[u] = "complete", faults = 0
               PROVE  enqueued[SessionOf[u]] = 1 \/ Enqueueing(SessionOf[u])
    BY DEF CompleteMeansFused, Enqueueing
  <2>1. SessionOf[u] \in SessionIds /\ JobOf[u] # NoJob
    BY UploadsAssumption
  <2>2. row[SessionOf[u]] = JobOf[u]
    BY DEF UploadInv, CompleteMeansStored
  <2>3. QED
    BY <2>1, <2>2 DEF FuseInv, StoredIsFused
<1>2. QED
  BY <1>1, Inductive, Fuses, PTL

-----------------------------------------------------------------------------
(* The promise of the upload.                                               *)

Confirmed == {u \in Uploads : client[u] = "complete"}

\* A step of the app shows its own bundle only, and takes no completion back.
LEMMA AppShowsOne ==
  ASSUME TypeOK, NEW u \in Uploads, Attempt(u) \/ User(u)
  PROVE  client[u] # "complete" /\ \A v \in Uploads \ {u} : client'[v] = client[v]
<1>1. client[u] \in {"ready", "uploading", "failed"}
  BY DEF Attempt, User, Succeeds, Unauthorized, OtherStatus, TransportFails, Start,
     RetryUpload, SaveBundleLocally
<1>2. \E x : client' = [client EXCEPT ![u] = x]
  BY DEF Attempt, User, Succeeds, Unauthorized, OtherStatus, TransportFails, Start,
     RetryUpload, SaveBundleLocally, Fail, Send, Show
<1>3. QED
  BY <1>1, <1>2 DEF TypeOK

\* To a watcher the app confirms a stored bundle or does nothing.
LEMMA AppConfirms ==
  ASSUME UploadInv, NEW u \in Uploads, Attempt(u) \/ User(u)
  PROVE  [Ingest!Next]_<<row, enqueued, Confirmed>>
<1>1. AppOnly
  BY AppStep
<1>2. UNCHANGED <<row, enqueued>>
  BY <1>1 DEF AppOnly, server
<1>3. client[u] # "complete" /\ \A v \in Uploads \ {u} : client'[v] = client[v]
  BY AppShowsOne DEF UploadInv
<1>4. CASE client'[u] = "complete"
  <2>1. row[SessionOf[u]] = JobOf[u]
    BY <1>1, <1>4 DEF AppOnly
  <2>2. Confirmed' = Confirmed \cup {u}
    BY <1>3, <1>4 DEF Confirmed
  <2>3. Ingest!Confirm(u)
    BY <1>2, <2>1, <2>2 DEF Ingest!Confirm, Confirmed
  <2>4. QED
    BY <2>3 DEF Ingest!Next
<1>5. CASE client'[u] # "complete"
  <2>1. Confirmed' = Confirmed
    BY <1>3, <1>5 DEF Confirmed
  <2>2. QED
    BY <1>2, <2>1
<1>6. QED
  BY <1>4, <1>5

\* The server stores a session that has no row, asks for fusion of one it stored and
\* nobody asked for yet, or does nothing that shows.
LEMMA CreateIngests ==
  ASSUME UploadInv, NEW u \in Uploads, NEW n \in RequestNumbers, Create(u, n)
  PROVE  [Ingest!Next]_<<row, enqueued, Confirmed>>
<1>1. UNCHANGED client
  BY CreateMoves DEF UploadInv
<1>2. Confirmed' = Confirmed
  BY <1>1 DEF Confirmed
<1>3. CASE Persist(u, n)
  <2>1. Ingest!Store(u)
    BY <1>2, <1>3 DEF Persist, Ingest!Store, Confirmed
  <2>2. QED
    BY <2>1 DEF Ingest!Next
<1>4. CASE EnqueueFusion(u, n)
  <2>1. row[SessionOf[u]] = JobOf[u] /\ enqueued[SessionOf[u]] = 0
    BY <1>4 DEF EnqueueFusion, UploadInv, OneEnqueuer
  <2>2. enqueued' = [enqueued EXCEPT ![SessionOf[u]] = 1] /\ UNCHANGED row
    BY <1>4, <2>1 DEF EnqueueFusion
  <2>3. Ingest!AskForFusion(u)
    BY <1>2, <2>1, <2>2 DEF Ingest!AskForFusion, Confirmed
  <2>4. QED
    BY <2>3 DEF Ingest!Next
<1>5. CASE ~Persist(u, n) /\ ~EnqueueFusion(u, n)
  <2>1. UNCHANGED <<row, enqueued>>
    BY <1>5 DEF Create, Authenticate, PutBlob, StorageFails, ResolveDuplicate, EnqueueFails,
       Crash, server
  <2>2. QED
    BY <1>2, <2>1
<1>6. QED
  BY <1>3, <1>4, <1>5

\* Every step of app and server is a Store, an AskForFusion, a Confirm of CaptureIngest or
\* does not show: a session is stored once and for good, asked for once, and confirmed
\* only when stored, however often bundles are sent, answers lost and servers restarted.
THEOREM UploadImplementsIngest == Spec => ImplementsIngest
<1>1. Init => Ingest!Init
  BY DEF Init, Ingest!Init
<1>2. ASSUME UploadInv, [Next]_vars
      PROVE  [Ingest!Next]_<<row, enqueued, Confirmed>>
  <2>1. CASE Next
    <3>1. PICK u \in Uploads : Attempt(u) \/ User(u) \/ \E n \in RequestNumbers : Create(u, n)
      BY <2>1 DEF Next
    <3>2. QED
      BY <1>2, <3>1, AppConfirms, CreateIngests
  <2>2. CASE UNCHANGED vars
    BY <2>2 DEF vars, server, app, Confirmed
  <2>3. QED
    BY <1>2, <2>1, <2>2
<1>3. QED
  BY <1>1, <1>2, Inductive, PTL DEF Spec, ImplementsIngest, Ingest!Spec, Confirmed
=============================================================================
