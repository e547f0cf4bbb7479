---------------------------- MODULE PhotoProjection ----------------------------
(***************************************************************************)
(* ProjectionJob and ProjectionOrchestrator on one job: every photo of the  *)
(* job gets one ProjectedOverlay, drawn from the latest fused measurement,  *)
(* or a low-confidence one that makes the surfaces warn.                    *)
(*                                                                         *)
(* A delivery walks the photos in order.  It finds a photo's overlay and    *)
(* saves it in two steps; a save updates only the columns that differ from  *)
(* the copy it found, so the rows two overlapping deliveries leave may mix  *)
(* both, and an insert may meet the unique index on capture_id.             *)
(***************************************************************************)
EXTENDS Integers

CONSTANTS
  Deliveries,      \* deliveries of ProjectionJob for this job
  NumPhotos,       \* captures with a photo, in sequence order
  SanePhotos,      \* those whose camera extrinsics pass the sanity gate
  Rmses,           \* ICP residuals (mm) of the fused measurements
  Narrowed,        \* confidences the sidecar may answer, NoScore for none
  Absent,          \* no overlay yet
  MaxAttempts,     \* ProjectionJob::MAX_ATTEMPTS
  MaxFaults        \* bound: worker shutdowns and errors other than the sidecar's

NoScore == -1  \* nil
Confidences == 0..10000 \* a pose confidence in 1/10000
Unsolved == -1 \* of a latest measurement that is missing or has no solved transform
Photos == 1..NumPhotos

ASSUME PhotosAssumption ==
  /\ NumPhotos \in Nat
  /\ SanePhotos \subseteq Photos
ASSUME NumbersAssumption ==
  /\ Rmses \subseteq Nat
  /\ Narrowed \subseteq Confidences \cup {NoScore}
ASSUME BoundsAssumption ==
  /\ MaxAttempts \in Nat \ {0}
  /\ MaxFaults \in Nat

Overlay == [composite : BOOLEAN, low : BOOLEAN, confidence : Confidences \cup {NoScore}]
ASSUME AbsentAssumption == Absent \notin Overlay

VARIABLES
  latest,       \* the ICP residual of the latest measurement, or Unsolved
  overlays,     \* the ProjectedOverlay of each photo
  lastError,    \* what jobs.last_error says of the projection
  faults,       \* shutdowns and unexpected errors so far
  pc,           \* where each delivery is
  seen,         \* the residual of the measurement it projects
  photo,        \* the photo it is at
  found,        \* the overlay it found for that photo
  next,         \* what it is about to save
  outcomes,     \* what became of the photos in this attempt
  attempts      \* executions recorded with the queued delivery

store == <<latest, overlays, lastError, faults>>
vars == <<store, pc, seen, photo, found, next, outcomes, attempts>>

-----------------------------------------------------------------------------
Ended == {"skipped", "done", "exhausted"}
Idle == {"none", "queued"} \cup Ended
PC == Idle \cup {"photo", "calling", "find", "save", "rescue"}

TypeOK ==
  /\ latest \in Rmses \cup {Unsolved}
  /\ overlays \in [Photos -> Overlay \cup {Absent}]
  /\ lastError \in {"none", "crashed", "failed"}
  /\ faults \in Nat
  /\ pc \in [Deliveries -> PC]
  /\ seen \in [Deliveries -> Rmses \cup {Unsolved}]
  /\ photo \in [Deliveries -> Nat]
  /\ found \in [Deliveries -> Overlay \cup {Absent}]
  /\ next \in [Deliveries -> Overlay \cup {Absent}]
  /\ outcomes \in [Deliveries -> SUBSET {"ok", "transient", "permanent"}]
  /\ attempts \in [Deliveries -> Nat]

Init ==
  /\ latest = Unsolved
  /\ overlays = [c \in Photos |-> Absent]
  /\ lastError = "none" /\ faults = 0
  /\ pc = [d \in Deliveries |-> "none"]
  /\ seen = [d \in Deliveries |-> Unsolved]
  /\ photo = [d \in Deliveries |-> 0]
  /\ found = [d \in Deliveries |-> Absent]
  /\ next = [d \in Deliveries |-> Absent]
  /\ outcomes = [d \in Deliveries |-> {}]
  /\ attempts = [d \in Deliveries |-> 0]

-----------------------------------------------------------------------------
Goto(d, p) == pc' = [pc EXCEPT ![d] = p]

\* The orchestrator and its variables are gone.
Leave(d) ==
  /\ seen' = [seen EXCEPT ![d] = Unsolved]
  /\ photo' = [photo EXCEPT ![d] = 0]
  /\ found' = [found EXCEPT ![d] = Absent]
  /\ next' = [next EXCEPT ![d] = Absent]
  /\ outcomes' = [outcomes EXCEPT ![d] = {}]

\* ProjectionPoseConfidence.score in 1/10000: 1 at 0 mm, 0.4 from 500 mm on.
Score(rmse, c) ==
  IF c \notin SanePhotos THEN 0
  ELSE IF rmse > 500 THEN 4000 ELSE 10000 - 12 * rmse

Acceptable(confidence) == confidence >= 7000

\* Faulty variant: what the sidecar answers is added.
EffectiveConfidenceRaised(score, answer) ==
  IF answer = NoScore THEN score ELSE score + answer

\* The sidecar may narrow the score, never raise it.
EffectiveConfidence(score, answer) ==
  IF answer = NoScore \/ answer > score THEN score ELSE answer

LowConfidenceOverlay(confidence) ==
  [composite |-> FALSE, low |-> TRUE, confidence |-> confidence]
DrawnOverlay(confidence) ==
  [composite |-> TRUE, low |-> FALSE, confidence |-> confidence]

OverlayFor(confidence) ==
  IF Acceptable(confidence) THEN DrawnOverlay(confidence) ELSE LowConfidenceOverlay(confidence)

MyScore(d) == Score(seen[d], photo[d])

-----------------------------------------------------------------------------
(* ProjectionOrchestrator#call. *)

\* Without a measurement, or a solved transform of the latest, there is nothing to do.
Perform(d) ==
  /\ pc[d] = "queued"
  /\ IF latest # Unsolved
       THEN /\ seen' = [seen EXCEPT ![d] = latest]
            /\ photo' = [photo EXCEPT ![d] = 1]
            /\ Goto(d, "photo")
       ELSE Goto(d, "skipped") /\ UNCHANGED <<seen, photo>>
  /\ UNCHANGED <<store, found, next, outcomes, attempts>>

\* Leads to the save of row; outcome counts once the save succeeded, or, of a
\* failed photo, before it.
Keep(d, row, outcome) ==
  /\ next' = [next EXCEPT ![d] = row]
  /\ outcomes' = [outcomes EXCEPT ![d] = @ \cup {outcome}]
  /\ Goto(d, "find")

\* Below the threshold no sidecar call is made.
ProjectOne(d) ==
  /\ pc[d] = "photo"
  /\ photo[d] <= NumPhotos
  /\ IF Acceptable(MyScore(d))
       THEN Goto(d, "calling") /\ UNCHANGED <<next, outcomes>>
       ELSE Keep(d, LowConfidenceOverlay(MyScore(d)), "ok")
  /\ UNCHANGED <<store, seen, photo, found, attempts>>

SidecarAnswers(d) ==
  /\ pc[d] = "calling"
  /\ \E answer \in Narrowed :
       Keep(d, OverlayFor(EffectiveConfidence(MyScore(d), answer)), "ok")
  /\ UNCHANGED <<store, seen, photo, found, attempts>>

\* Faulty variant: a failed photo is logged and left without an overlay.
SidecarFailsSilently(d) ==
  /\ pc[d] = "calling"
  /\ \E outcome \in {"transient", "permanent"} :
       outcomes' = [outcomes EXCEPT ![d] = @ \cup {outcome}]
  /\ photo' = [photo EXCEPT ![d] = @ + 1]
  /\ Goto(d, "photo")
  /\ UNCHANGED <<store, seen, found, next, attempts>>

\* A timeout is transient, every other sidecar error permanent; the photo gets
\* an overlay without a score.
SidecarFails(d) ==
  /\ pc[d] = "calling"
  /\ \E outcome \in {"transient", "permanent"} :
       Keep(d, LowConfidenceOverlay(NoScore), outcome)
  /\ UNCHANGED <<store, seen, photo, found, attempts>>

FindOverlay(d) ==
  /\ pc[d] = "find"
  /\ found' = [found EXCEPT ![d] = overlays[photo[d]]]
  /\ Goto(d, "save")
  /\ UNCHANGED <<store, seen, photo, next, outcomes, attempts>>

\* Faulty variant: of an existing overlay only the flag and the score are saved.
ChangedKeepingComposite(d) ==
  LET c == photo[d] IN
  IF found[d] = Absent THEN next[d]
  ELSE [overlays[c] EXCEPT !.low = next[d].low, !.confidence = next[d].confidence]

\* The columns that differ from the copy found.
Changed(d) ==
  LET row == next[d]
      copy == found[d]
      stored == overlays[photo[d]]
      Column(new, old, kept) == IF new # old THEN new ELSE kept
  IN  IF copy = Absent THEN row
      ELSE [composite |-> Column(row.composite, copy.composite, stored.composite),
            low |-> Column(row.low, copy.low, stored.low),
            confidence |-> Column(row.confidence, copy.confidence, stored.confidence)]

SaveOverlay(d) ==
  /\ pc[d] = "save"
  /\ found[d] # Absent \/ overlays[photo[d]] = Absent
  /\ overlays' = [overlays EXCEPT ![photo[d]] = Changed(d)]
  /\ photo' = [photo EXCEPT ![d] = @ + 1]
  /\ found' = [found EXCEPT ![d] = Absent]
  /\ next' = [next EXCEPT ![d] = Absent]
  /\ Goto(d, "photo")
  /\ UNCHANGED <<latest, lastError, faults, seen, outcomes, attempts>>

\* The other delivery's insert came first: no sidecar error, so it leaves the loop.
InsertCollides(d) ==
  /\ pc[d] = "save"
  /\ found[d] = Absent /\ overlays[photo[d]] # Absent
  /\ Goto(d, "rescue") /\ Leave(d)
  /\ UNCHANGED <<store, attempts>>

\* Faulty variant: any transient failure is retried.
BroadcastRetriesAny(d) ==
  /\ pc[d] = "photo" /\ photo[d] > NumPhotos
  /\ Goto(d, IF "transient" \in outcomes[d] THEN "rescue" ELSE "done") /\ Leave(d)
  /\ UNCHANGED <<store, attempts>>

\* A failing broadcast is logged.  Only when every photo failed transiently
\* does the job try again.
Broadcast(d) ==
  /\ pc[d] = "photo" /\ photo[d] > NumPhotos
  /\ Goto(d, IF outcomes[d] = {"transient"} THEN "rescue" ELSE "done") /\ Leave(d)
  /\ UNCHANGED <<store, attempts>>

-----------------------------------------------------------------------------
(* ProjectionJob. *)

\* A database error, or anything else the loop does not rescue.
UnexpectedError(d) ==
  /\ pc[d] \in {"calling", "find", "save"}
  /\ faults < MaxFaults
  /\ faults' = faults + 1
  /\ Goto(d, "rescue") /\ Leave(d)
  /\ UNCHANGED <<latest, overlays, lastError, attempts>>

LastAttempt(d) == attempts[d] + 1 >= MaxAttempts

\* Faulty variant: the counter is not recorded with the queued delivery.
RescueForever(d) ==
  /\ pc[d] = "rescue"
  /\ lastError' = "crashed"
  /\ Goto(d, "queued")
  /\ UNCHANGED <<latest, overlays, faults, seen, photo, found, next, outcomes, attempts>>

\* Records the error and raises it again, for retry_on to queue another attempt or give up.
Rescue(d) ==
  /\ pc[d] = "rescue"
  /\ IF LastAttempt(d)
       THEN lastError' = "failed" /\ Goto(d, "exhausted") /\ UNCHANGED attempts
       ELSE lastError' = "crashed" /\ Goto(d, "queued") /\ attempts' = [attempts EXCEPT ![d] = @ + 1]
  /\ UNCHANGED <<latest, overlays, faults, seen, photo, found, next, outcomes>>

-----------------------------------------------------------------------------
(* The environment. *)

\* Fusion enqueues one ProjectionJob per fused row, or someone triggers it again.
Enqueue(d) ==
  /\ pc[d] = "none"
  /\ latest # Unsolved
  /\ Goto(d, "queued")
  /\ UNCHANGED <<store, seen, photo, found, next, outcomes, attempts>>

\* A fused row, or a re-run's, becomes the latest.
Measure ==
  /\ \E m \in Rmses \cup {Unsolved} : latest' = m
  /\ UNCHANGED <<overlays, lastError, faults, pc, seen, photo, found, next,
                 outcomes, attempts>>

Release(d) ==
  /\ pc[d] \notin Idle
  /\ faults < MaxFaults
  /\ faults' = faults + 1
  /\ Goto(d, "queued") /\ Leave(d)
  /\ UNCHANGED <<latest, overlays, lastError, attempts>>

-----------------------------------------------------------------------------
DeliveryStep(d) ==
  \/ Perform(d)         \/ ProjectOne(d)  \/ SidecarAnswers(d)
  \/ SidecarFails(d)    \/ FindOverlay(d) \/ SaveOverlay(d)
  \/ InsertCollides(d)  \/ Broadcast(d)   \/ UnexpectedError(d)
  \/ Rescue(d)

Next ==
  \/ \E d \in Deliveries : DeliveryStep(d) \/ Enqueue(d) \/ Release(d)
  \/ Measure

Spec == Init /\ [][Next]_vars

\* project_photo has a client timeout, so a worker's delivery always goes on.
FairSpec == Spec /\ \A d \in Deliveries : WF_vars(DeliveryStep(d))
-----------------------------------------------------------------------------
(* Properties. *)

Exists(c) == overlays[c] # Absent
Drawn(c) == Exists(c) /\ overlays[c].composite
\* Only one delivery has ever been enqueued.
Sole == \A d, e \in Deliveries : pc[d] # "none" /\ pc[e] # "none" => d = e

\* However the saves of overlapping deliveries mix, an overlay has a picture
\* exactly when it is not flagged low (projection_orchestrator.rb:147-166): the
\* surfaces never show a flagged picture nor miss a warning.  The only delivery
\* of a job draws, moreover, exactly the photos whose confidence is acceptable,
\* restarts and retries included; the saves of two may leave a picture with the
\* other's confidence.
FlagMatchesComposite ==
  \A c \in Photos : Exists(c) =>
    /\ overlays[c].low <=> ~overlays[c].composite
    /\ Sole => (overlays[c].composite <=> Acceptable(overlays[c].confidence))

\* No silent gap: a delivery that projected and ended left an overlay on every
\* photo; one that gave up left its reason (projection_orchestrator.rb:45-49,
\* projection_job.rb:23-26).
EveryPhotoAccounted ==
  \A d \in Deliveries :
    /\ pc[d] = "done" => \A c \in Photos : Exists(c)
    /\ pc[d] = "exhausted" => lastError # "none"

\* The job's own retries never replace a picture by a failed overlay: it tries
\* again only if no photo succeeded (projection_orchestrator.rb:51-58).  A
\* restart, an unexpected error or a second delivery may.
RetryKeepsPictures ==
  [][Sole /\ faults = 0 =>
       \A c \in Photos : Drawn(c) => overlays'[c].confidence # NoScore]_vars

\* Every delivery ends, with collisions, restarts and retries.
EveryDeliveryEnds == \A d \in Deliveries : pc[d] = "queued" ~> pc[d] \in Ended
=============================================================================
