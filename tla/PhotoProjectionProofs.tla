------------------------ MODULE PhotoProjectionProofs ------------------------
(***************************************************************************)
(* Theorems about PhotoProjection: for any deliveries, photos, residuals,   *)
(* scores, retries and faults.                                              *)
(***************************************************************************)
EXTENDS PhotoProjection, TLAPS

\* An overlay has a picture or the flag.
Matched(row) == row \in Overlay /\ row.low # row.composite
Walking == {"photo", "calling", "find", "save"}

\* What a delivery knows of the photo it is at.
DeliveryInv(d) ==
  /\ pc[d] \in Walking => seen[d] \in Rmses
  /\ pc[d] \in Walking => photo[d] \in Nat \ {0} /\ \A c \in Photos : c < photo[d] => Exists(c)
  /\ pc[d] \in {"calling", "find", "save"} => photo[d] \in Photos
  /\ pc[d] \in {"find", "save"} => Matched(next[d])
  /\ pc[d] = "save" /\ found[d] # Absent => Matched(found[d]) /\ Exists(photo[d])

OverlaysMatch == \A c \in Photos : Exists(c) => Matched(overlays[c])

ProjectionInv ==
  /\ TypeOK
  /\ OverlaysMatch
  /\ EveryPhotoAccounted
  /\ \A d \in Deliveries : DeliveryInv(d)

-----------------------------------------------------------------------------
LEMMA ScoreType ==
  ASSUME NEW rmse \in Nat, NEW c PROVE Score(rmse, c) \in Confidences
BY DEF Score, Confidences

LEMMA EffectiveType ==
  ASSUME NEW score \in Confidences, NEW answer \in Narrowed
  PROVE  EffectiveConfidence(score, answer) \in Confidences
BY NumbersAssumption DEF EffectiveConfidence, Confidences, NoScore

LEMMA LowMatches ==
  ASSUME NEW confidence \in Confidences \cup {NoScore}
  PROVE  Matched(LowConfidenceOverlay(confidence))
BY DEF Matched, Overlay, LowConfidenceOverlay

LEMMA OverlayForMatches ==
  ASSUME NEW confidence \in Confidences
  PROVE  /\ Matched(OverlayFor(confidence))
         /\ OverlayFor(confidence).composite => OverlayFor(confidence).confidence # NoScore
BY DEF Matched, Overlay, OverlayFor, Acceptable, DrawnOverlay, LowConfidenceOverlay, Confidences, NoScore

\* Of three rows that match, the flag and the picture come from the same one.
LEMMA MixedMatches ==
  ASSUME NEW r, NEW o, NEW s, Matched(r), Matched(o), Matched(s)
  PROVE  LET Column(new, old, kept) == IF new # old THEN new ELSE kept
             mixed == [composite |-> Column(r.composite, o.composite, s.composite),
                       low |-> Column(r.low, o.low, s.low),
                       confidence |-> Column(r.confidence, o.confidence, s.confidence)]
         IN  Matched(mixed) /\ (o = s => mixed = r)
<1> DEFINE composite == IF r.composite # o.composite THEN r.composite ELSE s.composite
           low == IF r.low # o.low THEN r.low ELSE s.low
           confidence == IF r.confidence # o.confidence THEN r.confidence ELSE s.confidence
           mixed == [composite |-> composite, low |-> low, confidence |-> confidence]
<1>1. /\ r.composite \in BOOLEAN /\ o.composite \in BOOLEAN /\ s.composite \in BOOLEAN
      /\ r.low \in BOOLEAN /\ o.low \in BOOLEAN /\ s.low \in BOOLEAN
      /\ r.confidence \in Confidences \cup {NoScore}
      /\ s.confidence \in Confidences \cup {NoScore}
      /\ r.low # r.composite /\ o.low # o.composite /\ s.low # s.composite
  BY DEF Matched, Overlay
<1>2. composite \in BOOLEAN /\ low \in BOOLEAN /\ low # composite
  BY <1>1
<1>3. confidence \in Confidences \cup {NoScore}
  BY <1>1
<1>4. o = s => composite = r.composite /\ low = r.low /\ confidence = r.confidence
  OBVIOUS
<1>5. r = [composite |-> r.composite, low |-> r.low, confidence |-> r.confidence]
  BY DEF Matched, Overlay
<1> HIDE DEF composite, low, confidence
<1>6. o = s => mixed = r
  BY <1>4, <1>5
<1>7. Matched(mixed)
  BY <1>2, <1>3 DEF Matched, Overlay
<1>8. QED
  BY <1>6, <1>7 DEF composite, low, confidence

\* What is saved matches, and is the row itself if nobody wrote meanwhile.
LEMMA ChangedMatches ==
  ASSUME NEW d \in Deliveries, Matched(next[d]),
         found[d] # Absent => Matched(found[d]) /\ Matched(overlays[photo[d]])
  PROVE  /\ Matched(Changed(d))
         /\ found[d] = overlays[photo[d]] => Changed(d) = next[d]
<1>1. CASE found[d] = Absent
  BY <1>1 DEF Changed
<1>2. CASE found[d] # Absent
  BY <1>2, MixedMatches DEF Changed
<1>3. QED
  BY <1>1, <1>2

-----------------------------------------------------------------------------
(* The inductive step. *)

Accounted(d) ==
  /\ pc[d] = "done" => \A c \in Photos : Exists(c)
  /\ pc[d] = "exhausted" => lastError # "none"

\* What the other deliveries know stays true: no overlay is deleted, no error forgotten.
LEMMA OthersStay ==
  ASSUME ProjectionInv, NEW d \in Deliveries,
         TypeOK', OverlaysMatch', DeliveryInv(d)', Accounted(d)',
         \A c \in Photos : Exists(c) => overlays'[c] # Absent,
         lastError # "none" => lastError' # "none",
         \A e \in Deliveries \ {d} :
           pc'[e] = pc[e] /\ seen'[e] = seen[e] /\ photo'[e] = photo[e] /\ next'[e] = next[e] /\ found'[e] = found[e]
  PROVE  ProjectionInv'
<1>1. ASSUME NEW e \in Deliveries PROVE DeliveryInv(e)' /\ Accounted(e)'
  <2>1. CASE e = d
    BY <2>1
  <2>2. CASE e # d
    <3>1. DeliveryInv(e) /\ Accounted(e)
      BY DEF ProjectionInv, EveryPhotoAccounted, Accounted
    <3>2. e \in Deliveries \ {d}
      BY <2>2
    <3>3. DeliveryInv(e)'
      BY <3>1, <3>2 DEF DeliveryInv, Exists
    <3>4. Accounted(e)'
      BY <3>1, <3>2 DEF Accounted, Exists
    <3>5. QED
      BY <3>3, <3>4
  <2>3. QED
    BY <2>1, <2>2
<1>2. EveryPhotoAccounted'
  BY <1>1 DEF EveryPhotoAccounted, Accounted
<1>3. QED
  BY <1>1, <1>2 DEF ProjectionInv

\* A step that moves one delivery and writes no overlay.
LEMMA NoOverlayStep ==
  ASSUME ProjectionInv, NEW d \in Deliveries,
         TypeOK', DeliveryInv(d)', Accounted(d)',
         UNCHANGED overlays,
         lastError # "none" => lastError' # "none",
         \A e \in Deliveries \ {d} :
           pc'[e] = pc[e] /\ seen'[e] = seen[e] /\ photo'[e] = photo[e] /\ next'[e] = next[e] /\ found'[e] = found[e]
  PROVE  ProjectionInv'
<1>1. OverlaysMatch' /\ \A c \in Photos : Exists(c) => overlays'[c] # Absent
  BY DEF ProjectionInv, OverlaysMatch, Exists
<1>2. QED
  BY <1>1, OthersStay

\* The score of a walking delivery's photo.
LEMMA MyScoreType ==
  ASSUME ProjectionInv, NEW d \in Deliveries, pc[d] \in Walking
  PROVE  MyScore(d) \in Confidences
<1>1. DeliveryInv(d)
  BY DEF ProjectionInv
<1>2. seen[d] \in Rmses /\ Rmses \subseteq Nat
  BY <1>1, NumbersAssumption DEF DeliveryInv
<1>3. Score(seen[d], photo[d]) \in Confidences
  BY <1>2, ScoreType, Zenon
<1>4. QED
  BY <1>3, Zenon DEF MyScore

\* A delivery that is to save a row that matches.
LEMMA KeepStep ==
  ASSUME ProjectionInv, NEW d \in Deliveries, pc[d] \in {"photo", "calling"}, photo[d] \in Photos,
         NEW row, Matched(row), NEW outcome \in {"ok", "transient", "permanent"},
         Keep(d, row, outcome), UNCHANGED <<store, seen, photo, found, attempts>>
  PROVE  ProjectionInv'
<1>1. TypeOK'
  BY DEF Keep, Goto, store, ProjectionInv, TypeOK, Matched, PC, Idle, Ended
<1>2. pc' = [pc EXCEPT ![d] = "find"] /\ next' = [next EXCEPT ![d] = row]
  BY DEF Keep, Goto
<1>3. pc'[d] = "find" /\ next'[d] = row
  BY <1>2 DEF ProjectionInv, TypeOK
<1>4. DeliveryInv(d)' /\ Accounted(d)'
  BY <1>3 DEF store, ProjectionInv, DeliveryInv, Accounted, Exists, Walking
<1>5. \A e \in Deliveries \ {d} :
        pc'[e] = pc[e] /\ seen'[e] = seen[e] /\ photo'[e] = photo[e] /\ next'[e] = next[e] /\ found'[e] = found[e]
  BY <1>2 DEF ProjectionInv, TypeOK
<1>6. QED
  BY <1>1, <1>4, <1>5, NoOverlayStep DEF store

\* A delivery that leaves the orchestrator without having projected all.
LEMMA LeaveStep ==
  ASSUME ProjectionInv, NEW d \in Deliveries, NEW p \in PC \ Walking,
         p = "done" => \A c \in Photos : Exists(c), p # "exhausted",
         Goto(d, p), Leave(d), faults' \in Nat, UNCHANGED <<latest, overlays, lastError, attempts>>
  PROVE  ProjectionInv'
<1>1. TypeOK'
  BY DEF Goto, Leave, ProjectionInv, TypeOK, Unsolved
<1>2. pc'[d] = p
  BY DEF Goto, ProjectionInv, TypeOK
<1>3. DeliveryInv(d)' /\ Accounted(d)'
  BY <1>2 DEF DeliveryInv, Accounted, Exists, Walking
<1>4. \A e \in Deliveries \ {d} :
        pc'[e] = pc[e] /\ seen'[e] = seen[e] /\ photo'[e] = photo[e] /\ next'[e] = next[e] /\ found'[e] = found[e]
  BY DEF Goto, Leave, ProjectionInv, TypeOK
<1>5. QED
  BY <1>1, <1>3, <1>4, NoOverlayStep

LEMMA PerformInv ==
  ASSUME ProjectionInv, NEW d \in Deliveries, Perform(d)
  PROVE  ProjectionInv'
<1> USE DEF Perform, store, Goto
<1>1. TypeOK'
  BY DEF ProjectionInv, TypeOK, PC, Idle, Ended
<1>2. \/ pc'[d] = "photo" /\ seen'[d] \in Rmses /\ photo'[d] = 1
      \/ pc'[d] = "skipped"
  BY DEF ProjectionInv, TypeOK
<1>3. DeliveryInv(d)' /\ Accounted(d)'
  <2>1. \A c \in Photos : ~(c < 1)
    BY PhotosAssumption DEF Photos
  <2>2. QED
    BY <1>2, <2>1 DEF DeliveryInv, Accounted, Walking
<1>4. \A e \in Deliveries \ {d} :
        pc'[e] = pc[e] /\ seen'[e] = seen[e] /\ photo'[e] = photo[e] /\ next'[e] = next[e] /\ found'[e] = found[e]
  BY DEF ProjectionInv, TypeOK
<1>5. QED
  BY <1>1, <1>3, <1>4, NoOverlayStep

LEMMA ProjectOneInv ==
  ASSUME ProjectionInv, NEW d \in Deliveries, ProjectOne(d)
  PROVE  ProjectionInv'
<1>1. photo[d] \in Photos
  BY PhotosAssumption DEF ProjectOne, ProjectionInv, DeliveryInv, Walking, Photos
<1>2. CASE Acceptable(MyScore(d))
  <2>1. /\ Goto(d, "calling")
        /\ UNCHANGED <<store, seen, photo, found, next, outcomes, attempts>>
    BY <1>2 DEF ProjectOne
  <2>2. TypeOK'
    BY <2>1 DEF Goto, store, ProjectionInv, TypeOK, PC
  <2>3. pc'[d] = "calling"
    BY <2>1 DEF Goto, ProjectionInv, TypeOK
  <2>4. DeliveryInv(d)' /\ Accounted(d)'
    BY <1>1, <2>1, <2>3 DEF ProjectOne, store, ProjectionInv, DeliveryInv, Accounted, Exists, Walking
  <2>5. \A e \in Deliveries \ {d} :
          pc'[e] = pc[e] /\ seen'[e] = seen[e] /\ photo'[e] = photo[e] /\ next'[e] = next[e] /\ found'[e] = found[e]
    BY <2>1 DEF Goto, ProjectionInv, TypeOK
  <2>6. QED
    BY <2>1, <2>2, <2>4, <2>5, NoOverlayStep DEF store
<1>3. CASE ~Acceptable(MyScore(d))
  <2>1. MyScore(d) \in Confidences
    BY MyScoreType DEF ProjectOne, Walking
  <2>2. MyScore(d) \in Confidences \cup {NoScore}
    BY <2>1
  <2>3. Matched(LowConfidenceOverlay(MyScore(d)))
    BY <2>2, LowMatches, Zenon
  <2>4. QED
    BY <1>1, <1>3, <2>3, KeepStep DEF ProjectOne
<1>4. QED
  BY <1>2, <1>3

LEMMA SidecarAnswersInv ==
  ASSUME ProjectionInv, NEW d \in Deliveries, SidecarAnswers(d)
  PROVE  ProjectionInv'
<1>1. photo[d] \in Photos
  BY DEF SidecarAnswers, ProjectionInv, DeliveryInv
<1>2. PICK answer \in Narrowed : Keep(d, OverlayFor(EffectiveConfidence(MyScore(d), answer)), "ok")
  BY DEF SidecarAnswers
<1>3. MyScore(d) \in Confidences
  BY MyScoreType DEF SidecarAnswers, Walking
<1>4. EffectiveConfidence(MyScore(d), answer) \in Confidences
  BY <1>3, EffectiveType, Zenon
<1>5. Matched(OverlayFor(EffectiveConfidence(MyScore(d), answer)))
  BY <1>4, OverlayForMatches, Zenon
<1>6. QED
  BY <1>1, <1>2, <1>5, KeepStep DEF SidecarAnswers

LEMMA SidecarFailsInv ==
  ASSUME ProjectionInv, NEW d \in Deliveries, SidecarFails(d)
  PROVE  ProjectionInv'
<1>1. photo[d] \in Photos
  BY DEF SidecarFails, ProjectionInv, DeliveryInv
<1>2. NoScore \in Confidences \cup {NoScore}
  OBVIOUS
<1>3. Matched(LowConfidenceOverlay(NoScore))
  BY <1>2, LowMatches, Zenon
<1>4. QED
  BY <1>1, <1>3, KeepStep DEF SidecarFails

LEMMA FindOverlayInv ==
  ASSUME ProjectionInv, NEW d \in Deliveries, FindOverlay(d)
  PROVE  ProjectionInv'
<1>1. photo[d] \in Photos
  BY DEF FindOverlay, ProjectionInv, DeliveryInv
<1>2. TypeOK'
  BY <1>1 DEF FindOverlay, Goto, store, ProjectionInv, TypeOK, PC
<1>3. pc'[d] = "save" /\ found'[d] = overlays[photo[d]]
  BY DEF FindOverlay, Goto, ProjectionInv, TypeOK
<1>4. DeliveryInv(d)' /\ Accounted(d)'
  BY <1>1, <1>3 DEF FindOverlay, store, ProjectionInv, OverlaysMatch, DeliveryInv, Accounted, Exists, Walking
<1>5. \A e \in Deliveries \ {d} :
        pc'[e] = pc[e] /\ seen'[e] = seen[e] /\ photo'[e] = photo[e] /\ next'[e] = next[e] /\ found'[e] = found[e]
  BY DEF FindOverlay, Goto, ProjectionInv, TypeOK
<1>6. QED
  BY <1>2, <1>4, <1>5, NoOverlayStep DEF FindOverlay, store

\* What SaveOverlay is about to write.
LEMMA SavedMatches ==
  ASSUME ProjectionInv, NEW d \in Deliveries, pc[d] = "save"
  PROVE  /\ photo[d] \in Photos
         /\ Matched(Changed(d))
         /\ found[d] = overlays[photo[d]] => Changed(d) = next[d]
<1>1. DeliveryInv(d) /\ photo[d] \in Photos
  BY DEF ProjectionInv, DeliveryInv
<1>2. Matched(next[d]) /\ (found[d] # Absent => Matched(found[d]) /\ Matched(overlays[photo[d]]))
  BY <1>1 DEF DeliveryInv, ProjectionInv, OverlaysMatch
<1>3. QED
  BY <1>1, <1>2, ChangedMatches

LEMMA SaveOverlayInv ==
  ASSUME ProjectionInv, NEW d \in Deliveries, SaveOverlay(d)
  PROVE  ProjectionInv'
<1>1. photo[d] \in Photos /\ Matched(Changed(d))
  BY SavedMatches DEF SaveOverlay
<1> DEFINE row == Changed(d)
<1>2. row \in Overlay /\ row # Absent
  BY <1>1, AbsentAssumption DEF Matched
<1>3. overlays' = [overlays EXCEPT ![photo[d]] = row]
  BY DEF SaveOverlay
<1>4. Matched(row)
  BY <1>1
<1> HIDE DEF row
<1>5. TypeOK'
  BY <1>1, <1>2, <1>3 DEF SaveOverlay, Goto, ProjectionInv, TypeOK, PC
<1>6. \A c \in Photos : overlays'[c] = IF c = photo[d] THEN row ELSE overlays[c]
  BY <1>1, <1>3 DEF ProjectionInv, TypeOK
<1>7. OverlaysMatch'
  BY <1>4, <1>6 DEF ProjectionInv, OverlaysMatch, Exists
<1>8. pc'[d] = "photo" /\ photo'[d] = photo[d] + 1 /\ seen'[d] = seen[d]
  BY DEF SaveOverlay, Goto, ProjectionInv, TypeOK
<1>9. photo[d] \in Nat /\ \A c \in Photos : c \in Nat
  BY DEF ProjectionInv, TypeOK, Photos
<1>10. \A c \in Photos : c < photo[d] => Exists(c)
  BY DEF SaveOverlay, ProjectionInv, DeliveryInv, Walking
<1>11. \A c \in Photos : c < photo[d] + 1 => overlays'[c] # Absent
  <2>1. SUFFICES ASSUME NEW c \in Photos, c < photo[d] + 1 PROVE overlays'[c] # Absent
    OBVIOUS
  <2>2. c = photo[d] \/ c < photo[d]
    BY <1>9, <2>1
  <2>3. QED
    BY <1>2, <1>6, <1>10, <2>2 DEF Exists
<1>12. DeliveryInv(d)' /\ Accounted(d)'
  BY <1>8, <1>9, <1>11 DEF SaveOverlay, ProjectionInv, DeliveryInv, Accounted, Exists, Walking
<1>13. \A e \in Deliveries \ {d} :
         pc'[e] = pc[e] /\ seen'[e] = seen[e] /\ photo'[e] = photo[e] /\ next'[e] = next[e] /\ found'[e] = found[e]
  BY DEF SaveOverlay, Goto, ProjectionInv, TypeOK
<1>14. \A c \in Photos : Exists(c) => overlays'[c] # Absent
  BY <1>2, <1>6 DEF Exists
<1>15. QED
  BY <1>5, <1>7, <1>12, <1>13, <1>14, OthersStay DEF SaveOverlay

LEMMA InsertCollidesInv ==
  ASSUME ProjectionInv, NEW d \in Deliveries, InsertCollides(d)
  PROVE  ProjectionInv'
<1>1. "rescue" \in PC \ Walking
  BY DEF PC, Walking
<1>2. faults' \in Nat /\ UNCHANGED <<latest, overlays, lastError, attempts>>
  BY DEF InsertCollides, store, ProjectionInv, TypeOK
<1>3. Goto(d, "rescue") /\ Leave(d)
  BY DEF InsertCollides
<1>4. QED
  BY <1>1, <1>2, <1>3, LeaveStep

\* A delivery that passed the last photo has left an overlay on every one.
LEMMA BroadcastInv ==
  ASSUME ProjectionInv, NEW d \in Deliveries, Broadcast(d)
  PROVE  ProjectionInv'
<1>1. \A c \in Photos : Exists(c)
  <2>1. \A c \in Photos : c < photo[d]
    BY PhotosAssumption DEF Broadcast, ProjectionInv, TypeOK, Photos
  <2>2. QED
    BY <2>1 DEF Broadcast, ProjectionInv, DeliveryInv, Walking
<1>2. PICK p \in {"rescue", "done"} : Goto(d, p) /\ Leave(d)
  BY DEF Broadcast
<1>3. p \in PC \ Walking /\ p # "exhausted"
  BY DEF PC, Idle, Ended, Walking
<1>4. faults' \in Nat /\ UNCHANGED <<latest, overlays, lastError, attempts>>
  BY DEF Broadcast, store, ProjectionInv, TypeOK
<1>5. QED
  BY <1>1, <1>2, <1>3, <1>4, LeaveStep

LEMMA UnexpectedErrorInv ==
  ASSUME ProjectionInv, NEW d \in Deliveries, UnexpectedError(d)
  PROVE  ProjectionInv'
<1>1. "rescue" \in PC \ Walking
  BY DEF PC, Walking
<1>2. faults' \in Nat /\ UNCHANGED <<latest, overlays, lastError, attempts>>
  BY DEF UnexpectedError, ProjectionInv, TypeOK
<1>3. Goto(d, "rescue") /\ Leave(d)
  BY DEF UnexpectedError
<1>4. QED
  BY <1>1, <1>2, <1>3, LeaveStep

LEMMA ReleaseInv ==
  ASSUME ProjectionInv, NEW d \in Deliveries, Release(d)
  PROVE  ProjectionInv'
<1>1. "queued" \in PC \ Walking
  BY DEF PC, Idle, Walking
<1>2. faults' \in Nat /\ UNCHANGED <<latest, overlays, lastError, attempts>>
  BY DEF Release, ProjectionInv, TypeOK
<1>3. Goto(d, "queued") /\ Leave(d)
  BY DEF Release
<1>4. QED
  BY <1>1, <1>2, <1>3, LeaveStep

LEMMA RescueInv ==
  ASSUME ProjectionInv, NEW d \in Deliveries, Rescue(d)
  PROVE  ProjectionInv'
<1>1. TypeOK'
  BY DEF Rescue, Goto, ProjectionInv, TypeOK, PC, Idle, Ended
<1>2. pc'[d] \in {"queued", "exhausted"} /\ lastError' # "none"
  BY DEF Rescue, Goto, ProjectionInv, TypeOK
<1>3. DeliveryInv(d)' /\ Accounted(d)'
  BY <1>2 DEF DeliveryInv, Accounted, Walking
<1>4. \A e \in Deliveries \ {d} :
        pc'[e] = pc[e] /\ seen'[e] = seen[e] /\ photo'[e] = photo[e] /\ next'[e] = next[e] /\ found'[e] = found[e]
  BY DEF Rescue, Goto, ProjectionInv, TypeOK
<1>5. UNCHANGED overlays
  BY DEF Rescue
<1>6. QED
  BY <1>1, <1>2, <1>3, <1>4, <1>5, NoOverlayStep

LEMMA EnqueueInv ==
  ASSUME ProjectionInv, NEW d \in Deliveries, Enqueue(d)
  PROVE  ProjectionInv'
<1> USE DEF Enqueue, Goto, store
<1>1. TypeOK'
  BY DEF ProjectionInv, TypeOK, PC, Idle
<1>2. pc'[d] = "queued"
  BY DEF ProjectionInv, TypeOK
<1>3. DeliveryInv(d)' /\ Accounted(d)'
  BY <1>2 DEF DeliveryInv, Accounted, Walking
<1>4. \A e \in Deliveries \ {d} :
        pc'[e] = pc[e] /\ seen'[e] = seen[e] /\ photo'[e] = photo[e] /\ next'[e] = next[e] /\ found'[e] = found[e]
  BY DEF ProjectionInv, TypeOK
<1>5. QED
  BY <1>1, <1>3, <1>4, NoOverlayStep

LEMMA MeasureInv ==
  ASSUME ProjectionInv, Measure
  PROVE  ProjectionInv'
BY DEF Measure, ProjectionInv, TypeOK, OverlaysMatch, EveryPhotoAccounted, DeliveryInv, Exists

LEMMA InitInv == Init => ProjectionInv
<1> SUFFICES ASSUME Init PROVE ProjectionInv
  OBVIOUS
<1>1. TypeOK
  BY DEF Init, TypeOK, PC, Idle, Unsolved
<1>2. OverlaysMatch
  BY DEF Init, OverlaysMatch, Exists
<1>3. EveryPhotoAccounted
  BY DEF Init, EveryPhotoAccounted
<1>4. \A d \in Deliveries : DeliveryInv(d)
  BY DEF Init, DeliveryInv, Walking
<1>5. QED
  BY <1>1, <1>2, <1>3, <1>4 DEF ProjectionInv

LEMMA NextInv ==
  ASSUME ProjectionInv, [Next]_vars
  PROVE  ProjectionInv'
<1>1. ASSUME NEW d \in Deliveries, DeliveryStep(d) PROVE ProjectionInv'
  BY <1>1, PerformInv, ProjectOneInv, SidecarAnswersInv, SidecarFailsInv, FindOverlayInv,
     SaveOverlayInv, InsertCollidesInv, BroadcastInv, UnexpectedErrorInv, RescueInv
     DEF DeliveryStep
<1>2. CASE UNCHANGED vars
  BY <1>2 DEF vars, store, ProjectionInv, TypeOK, OverlaysMatch, EveryPhotoAccounted, DeliveryInv, Exists
<1>3. QED
  BY <1>1, <1>2, EnqueueInv, ReleaseInv, MeasureInv DEF Next

\* Every overlay, every delivery and every row about to be saved is of its type
\* in every reachable state; above all no confidence leaves 0..1, whatever the
\* residual and whatever the sidecar answers (projection_pose_confidence.rb:58-77,
\* projection_orchestrator.rb:127-133).
THEOREM ProjectionTypesHold == Spec => []TypeOK
<1>1. ProjectionInv => TypeOK
  BY DEF ProjectionInv
<1>2. QED
  BY <1>1, InitInv, NextInv, PTL DEF Spec

\* A delivery that projected and ended left an overlay on every photo, and one
\* that gave up left its reason, whatever failed in between
\* (projection_orchestrator.rb:65-86, projection_job.rb:23-26).
THEOREM PhotosAccounted == Spec => []EveryPhotoAccounted
<1>1. ProjectionInv => EveryPhotoAccounted
  BY DEF ProjectionInv
<1>2. QED
  BY <1>1, InitInv, NextInv, PTL DEF Spec

-----------------------------------------------------------------------------
(* The score of what the only delivery draws. *)

\* A picture exactly where the confidence is acceptable.
Scored(row) == row.composite <=> Acceptable(row.confidence)
OverlaysScored == \A c \in Photos : Exists(c) => Scored(overlays[c])

\* What it is about to save, and that nobody wrote since it looked.
DecisionInv(d) ==
  /\ pc[d] \in {"find", "save"} => Scored(next[d])
  /\ pc[d] = "save" => found[d] = overlays[photo[d]]

ScoreInv == Sole => OverlaysScored /\ \A d \in Deliveries : DecisionInv(d)

\* Unlike what RetryInv promises, this holds through restarts and errors too.
LEMMA OnlyStep ==
  ASSUME ProjectionInv, ScoreInv, NEW d \in Deliveries, pc[d] # "none",
         NEW p, p # "none", Goto(d, p),
         Sole => DecisionInv(d)' /\ OverlaysScored'
  PROVE  ScoreInv'
<1>1. SUFFICES ASSUME Sole' PROVE OverlaysScored' /\ \A e \in Deliveries : DecisionInv(e)'
  BY DEF ScoreInv
<1>2. pc'[d] = p /\ \A e \in Deliveries \ {d} : pc'[e] = pc[e]
  BY DEF Goto, ProjectionInv, TypeOK
<1>3. \A e \in Deliveries \ {d} : pc'[e] = "none"
  BY <1>1, <1>2 DEF Sole
<1>4. Sole
  BY <1>2, <1>3 DEF Sole
<1>5. ASSUME NEW e \in Deliveries PROVE DecisionInv(e)'
  BY <1>3, <1>4 DEF DecisionInv
<1>6. QED
  BY <1>4, <1>5

\* A step that writes no overlay and decides nothing.
LEMMA OnlyReadStep ==
  ASSUME ProjectionInv, ScoreInv, NEW d \in Deliveries, pc[d] # "none",
         NEW p \in PC \ {"none", "find", "save"}, Goto(d, p), UNCHANGED overlays
  PROVE  ScoreInv'
<1>1. pc'[d] = p
  BY DEF Goto, ProjectionInv, TypeOK
<1>2. Sole => DecisionInv(d)' /\ OverlaysScored'
  BY <1>1 DEF DecisionInv, ScoreInv, OverlaysScored, Exists
<1>3. QED
  BY <1>2, OnlyStep

LEMMA KeepScored ==
  ASSUME ProjectionInv, ScoreInv, NEW d \in Deliveries, pc[d] \in {"photo", "calling"},
         NEW row, NEW outcome, Scored(row), Keep(d, row, outcome), UNCHANGED overlays
  PROVE  ScoreInv'
<1>1. Goto(d, "find") /\ next' = [next EXCEPT ![d] = row]
  BY DEF Keep
<1>2. pc'[d] = "find" /\ next'[d] = row
  BY <1>1 DEF Goto, ProjectionInv, TypeOK
<1>3. Sole => DecisionInv(d)' /\ OverlaysScored'
  BY <1>2 DEF DecisionInv, ScoreInv, OverlaysScored, Exists
<1>4. QED
  BY <1>1, <1>3, OnlyStep

LEMMA LowScored ==
  ASSUME NEW confidence, ~Acceptable(confidence) PROVE Scored(LowConfidenceOverlay(confidence))
BY DEF Scored, LowConfidenceOverlay

LEMMA OverlayForScored ==
  ASSUME NEW confidence PROVE Scored(OverlayFor(confidence))
BY DEF Scored, OverlayFor, LowConfidenceOverlay, DrawnOverlay

LEMMA ProjectOneScored ==
  ASSUME ProjectionInv, ScoreInv, NEW d \in Deliveries, ProjectOne(d)
  PROVE  ScoreInv'
<1>1. pc[d] = "photo" /\ UNCHANGED overlays
  BY DEF ProjectOne, store
<1>2. CASE Acceptable(MyScore(d))
  <2>1. Goto(d, "calling") /\ "calling" \in PC \ {"none", "find", "save"}
    BY <1>2 DEF ProjectOne, PC
  <2>2. QED
    BY <1>1, <2>1, OnlyReadStep
<1>3. CASE ~Acceptable(MyScore(d))
  <2>1. Scored(LowConfidenceOverlay(MyScore(d)))
    BY <1>3, LowScored, Zenon
  <2>2. Keep(d, LowConfidenceOverlay(MyScore(d)), "ok")
    BY <1>3 DEF ProjectOne
  <2>3. QED
    BY <1>1, <2>1, <2>2, KeepScored
<1>4. QED
  BY <1>2, <1>3

LEMMA SidecarScored ==
  ASSUME ProjectionInv, ScoreInv, NEW d \in Deliveries, SidecarAnswers(d) \/ SidecarFails(d)
  PROVE  ScoreInv'
<1>1. pc[d] = "calling" /\ UNCHANGED overlays
  BY DEF SidecarAnswers, SidecarFails, store
<1>2. CASE SidecarAnswers(d)
  <2>1. PICK answer \in Narrowed : Keep(d, OverlayFor(EffectiveConfidence(MyScore(d), answer)), "ok")
    BY <1>2 DEF SidecarAnswers
  <2>2. Scored(OverlayFor(EffectiveConfidence(MyScore(d), answer)))
    BY OverlayForScored, Zenon
  <2>3. QED
    BY <1>1, <2>1, <2>2, KeepScored
<1>3. CASE SidecarFails(d)
  <2>1. PICK outcome \in {"transient", "permanent"} : Keep(d, LowConfidenceOverlay(NoScore), outcome)
    BY <1>3 DEF SidecarFails
  <2>2. ~Acceptable(NoScore)
    BY DEF Acceptable, NoScore
  <2>3. Scored(LowConfidenceOverlay(NoScore))
    BY <2>2, LowScored, Zenon
  <2>4. QED
    BY <1>1, <2>1, <2>3, KeepScored
<1>4. QED
  BY <1>2, <1>3

LEMMA FindOverlayScored ==
  ASSUME ProjectionInv, ScoreInv, NEW d \in Deliveries, FindOverlay(d)
  PROVE  ScoreInv'
<1>1. pc[d] = "find" /\ Goto(d, "save") /\ UNCHANGED <<overlays, photo, next>>
  BY DEF FindOverlay, store
<1>2. found'[d] = overlays[photo[d]]
  BY DEF FindOverlay, ProjectionInv, TypeOK
<1>3. Sole => DecisionInv(d)' /\ OverlaysScored'
  BY <1>1, <1>2 DEF DecisionInv, ScoreInv, OverlaysScored, Exists
<1>4. QED
  BY <1>1, <1>3, OnlyStep

\* The only delivery saves the row it decided on, no mixture.
LEMMA SaveOverlayScored ==
  ASSUME ProjectionInv, ScoreInv, NEW d \in Deliveries, SaveOverlay(d)
  PROVE  ScoreInv'
<1>1. pc[d] = "save" /\ photo[d] \in Photos /\ Goto(d, "photo")
  BY SavedMatches DEF SaveOverlay
<1>2. ASSUME Sole PROVE DecisionInv(d)' /\ OverlaysScored'
  <2>1. DecisionInv(d) /\ OverlaysScored
    BY <1>2 DEF ScoreInv
  <2>2. Changed(d) = next[d] /\ Scored(next[d])
    BY <1>1, <2>1, SavedMatches DEF DecisionInv
  <2>3. \A c \in Photos : overlays'[c] = IF c = photo[d] THEN next[d] ELSE overlays[c]
    BY <1>1, <2>2 DEF SaveOverlay, ProjectionInv, TypeOK
  <2>4. OverlaysScored'
    BY <2>1, <2>2, <2>3 DEF OverlaysScored, Exists
  <2>5. pc'[d] = "photo"
    BY <1>1 DEF Goto, ProjectionInv, TypeOK
  <2>6. QED
    BY <2>4, <2>5 DEF DecisionInv
<1>3. QED
  BY <1>1, <1>2, OnlyStep

\* Every other step of an enqueued delivery.
LEMMA OtherScored ==
  ASSUME ProjectionInv, ScoreInv, NEW d \in Deliveries,
         \/ Perform(d)         \/ InsertCollides(d) \/ Broadcast(d)
         \/ UnexpectedError(d) \/ Rescue(d)         \/ Release(d)
  PROVE  ScoreInv'
<1>1. \E p \in {"photo", "skipped", "rescue", "done", "queued", "exhausted"} : Goto(d, p)
  BY DEF Perform, InsertCollides, Broadcast, UnexpectedError, Rescue, Release
<1>2. pc[d] # "none" /\ UNCHANGED overlays
  BY DEF Perform, InsertCollides, Broadcast, UnexpectedError, Rescue, Release, Idle, store
<1>3. {"photo", "skipped", "rescue", "done", "queued", "exhausted"} \subseteq PC \ {"none", "find", "save"}
  BY DEF PC, Idle, Ended
<1>4. QED
  BY <1>1, <1>2, <1>3, OnlyReadStep

\* The first delivery to be enqueued finds every overlay scored; with a second
\* one nothing more is promised.
LEMMA EnqueueScored ==
  ASSUME ProjectionInv, ScoreInv, NEW d \in Deliveries, Enqueue(d)
  PROVE  ScoreInv'
<1>1. SUFFICES ASSUME Sole' PROVE OverlaysScored' /\ \A e \in Deliveries : DecisionInv(e)'
  BY DEF ScoreInv
<1>2. pc'[d] = "queued" /\ (\A e \in Deliveries \ {d} : pc'[e] = pc[e]) /\ pc[d] = "none"
  BY DEF Enqueue, Goto, ProjectionInv, TypeOK
<1>3. \A e \in Deliveries : pc[e] = "none"
  BY <1>1, <1>2 DEF Sole
<1>4. OverlaysScored'
  BY <1>3 DEF ScoreInv, Sole, OverlaysScored, Exists, Enqueue, store
<1>5. ASSUME NEW e \in Deliveries PROVE DecisionInv(e)'
  BY <1>2, <1>3 DEF DecisionInv
<1>6. QED
  BY <1>4, <1>5

LEMMA NextScored ==
  ASSUME ProjectionInv, ScoreInv, [Next]_vars
  PROVE  ScoreInv'
<1>1. ASSUME NEW d \in Deliveries, DeliveryStep(d) PROVE ScoreInv'
  BY <1>1, ProjectOneScored, SidecarScored, FindOverlayScored, SaveOverlayScored, OtherScored
     DEF DeliveryStep
<1>2. CASE Measure \/ UNCHANGED vars
  BY <1>2 DEF Measure, vars, store, ScoreInv, Sole, OverlaysScored, DecisionInv, Exists
<1>3. QED
  BY <1>1, <1>2, EnqueueScored, OtherScored DEF Next

\* However many deliveries interleave their finds and saves, the picture and the
\* low-confidence flag of a row come from the same side: Rails saves only the
\* columns that differ from the copy found (projection_orchestrator.rb:147-166).
\* What the only delivery of a job leaves is drawn exactly where the confidence
\* stored with it is acceptable, after any number of restarts, retries and errors.
THEOREM FlagsMatch == Spec => []FlagMatchesComposite
<1>1. Init => ScoreInv
  BY DEF Init, ScoreInv, OverlaysScored, Exists, DecisionInv
<1>2. ASSUME ProjectionInv, ScoreInv PROVE FlagMatchesComposite
  BY <1>2 DEF ProjectionInv, OverlaysMatch, ScoreInv, OverlaysScored, Scored, FlagMatchesComposite,
     Matched, Overlay
<1>3. QED
  BY <1>1, <1>2, InitInv, NextInv, NextScored, PTL DEF Spec

-----------------------------------------------------------------------------
(* Retries of the only delivery. *)

Undisturbed == Sole /\ faults = 0

\* What the only delivery knows of the pictures: all are its own attempt's, and
\* none is left when it tries again.
Attempt(d) ==
  /\ pc[d] \in {"queued", "rescue"} => \A c \in Photos : ~Drawn(c)
  /\ pc[d] \in Walking => \A c \in Photos : Drawn(c) => c < photo[d] /\ "ok" \in outcomes[d]
  /\ pc[d] \in {"find", "save"} /\ next[d].composite =>
       "ok" \in outcomes[d] /\ next[d].confidence # NoScore
  /\ pc[d] = "save" => found[d] = overlays[photo[d]]

PicturesScored == \A c \in Photos : Drawn(c) => overlays[c].confidence # NoScore

RetryInv ==
  Undisturbed =>
    /\ PicturesScored
    /\ (\A d \in Deliveries : pc[d] = "none") => \A c \in Photos : ~Drawn(c)
    /\ \A d \in Deliveries : Attempt(d)

\* A step of an enqueued delivery: the others wait outside, if it is the only one.
LEMMA SoleStep ==
  ASSUME ProjectionInv, RetryInv, NEW d \in Deliveries, pc[d] # "none",
         NEW p, p # "none", pc' = [pc EXCEPT ![d] = p], faults' = faults \/ faults' = faults + 1,
         Undisturbed /\ faults' = 0 => Attempt(d)' /\ PicturesScored'
  PROVE  RetryInv'
<1>1. SUFFICES ASSUME Undisturbed'
               PROVE  /\ PicturesScored'
                      /\ \E e \in Deliveries : pc'[e] # "none"
                      /\ \A e \in Deliveries : Attempt(e)'
  BY DEF RetryInv
<1>2. pc'[d] = p /\ \A e \in Deliveries \ {d} : pc'[e] = pc[e]
  BY DEF ProjectionInv, TypeOK
<1>3. \A e \in Deliveries : pc[e] # "none" => pc'[e] # "none"
  BY <1>2
<1>4. \A e \in Deliveries \ {d} : pc'[e] = "none"
  BY <1>1, <1>2 DEF Undisturbed, Sole
<1>5. Undisturbed /\ faults' = 0
  BY <1>1, <1>3 DEF Undisturbed, Sole, ProjectionInv, TypeOK
<1>6. ASSUME NEW e \in Deliveries PROVE Attempt(e)'
  BY <1>4, <1>5 DEF Attempt, Walking
<1>7. QED
  BY <1>2, <1>5, <1>6

\* A step of it that writes no overlay.
LEMMA SoleReadStep ==
  ASSUME ProjectionInv, RetryInv, NEW d \in Deliveries, pc[d] # "none",
         NEW p, p # "none", Goto(d, p), UNCHANGED <<overlays, faults>>,
         Undisturbed /\ Attempt(d) => Attempt(d)'
  PROVE  RetryInv'
<1>1. Undisturbed => Attempt(d)' /\ PicturesScored'
  BY DEF RetryInv, PicturesScored, Drawn, Exists
<1>2. QED
  BY <1>1, SoleStep DEF Goto

LEMMA KeepRetry ==
  ASSUME ProjectionInv, RetryInv, NEW d \in Deliveries, pc[d] \in {"photo", "calling"},
         NEW row, NEW outcome \in {"ok", "transient", "permanent"},
         row.composite => row.confidence # NoScore /\ outcome = "ok",
         Keep(d, row, outcome), UNCHANGED <<store, seen, photo, found, attempts>>
  PROVE  RetryInv'
<1>1. Goto(d, "find") /\ UNCHANGED <<overlays, faults>>
  BY DEF Keep, store
<1>2. /\ pc'[d] = "find" /\ next'[d] = row /\ photo'[d] = photo[d]
      /\ outcomes'[d] = outcomes[d] \cup {outcome}
  BY DEF Keep, Goto, ProjectionInv, TypeOK
<1>3. Attempt(d) => Attempt(d)'
  BY <1>1, <1>2 DEF Attempt, Walking, Drawn, Exists
<1>4. QED
  BY <1>1, <1>3, SoleReadStep

LEMMA PerformRetry ==
  ASSUME ProjectionInv, RetryInv, NEW d \in Deliveries, Perform(d)
  PROVE  RetryInv'
<1>1. PICK p \in {"photo", "skipped"} : Goto(d, p)
  BY DEF Perform
<1>2. pc[d] = "queued" /\ UNCHANGED <<overlays, faults>>
  BY DEF Perform, store
<1>3. pc'[d] = p
  BY <1>1 DEF Goto, ProjectionInv, TypeOK
<1>4. Attempt(d) => Attempt(d)'
  BY <1>1, <1>2, <1>3 DEF Attempt, Walking, Drawn, Exists
<1>5. QED
  BY <1>1, <1>2, <1>4, SoleReadStep

LEMMA ProjectOneRetry ==
  ASSUME ProjectionInv, RetryInv, NEW d \in Deliveries, ProjectOne(d)
  PROVE  RetryInv'
<1>1. CASE Acceptable(MyScore(d))
  <2>1. /\ pc[d] = "photo" /\ Goto(d, "calling")
        /\ UNCHANGED <<overlays, faults, photo, outcomes>>
    BY <1>1 DEF ProjectOne, store
  <2>2. pc'[d] = "calling"
    BY <2>1 DEF Goto, ProjectionInv, TypeOK
  <2>3. Attempt(d) => Attempt(d)'
    BY <2>1, <2>2 DEF Attempt, Walking, Drawn, Exists
  <2>4. QED
    BY <2>1, <2>3, SoleReadStep
<1>2. CASE ~Acceptable(MyScore(d))
  <2>1. ~LowConfidenceOverlay(MyScore(d)).composite
    BY DEF LowConfidenceOverlay
  <2>2. QED
    BY <1>2, <2>1, KeepRetry DEF ProjectOne
<1>3. QED
  BY <1>1, <1>2

LEMMA SidecarAnswersRetry ==
  ASSUME ProjectionInv, RetryInv, NEW d \in Deliveries, SidecarAnswers(d)
  PROVE  RetryInv'
<1>1. PICK answer \in Narrowed : Keep(d, OverlayFor(EffectiveConfidence(MyScore(d), answer)), "ok")
  BY DEF SidecarAnswers
<1> DEFINE row == OverlayFor(EffectiveConfidence(MyScore(d), answer))
<1>2. MyScore(d) \in Confidences
  BY MyScoreType DEF SidecarAnswers, Walking
<1>3. EffectiveConfidence(MyScore(d), answer) \in Confidences
  BY <1>2, EffectiveType, Zenon
<1>4. row.composite => row.confidence # NoScore
  BY <1>3, OverlayForMatches, Zenon
<1>5. Keep(d, row, "ok")
  BY <1>1
<1> HIDE DEF row
<1>6. QED
  BY <1>4, <1>5, KeepRetry DEF SidecarAnswers

LEMMA SidecarFailsRetry ==
  ASSUME ProjectionInv, RetryInv, NEW d \in Deliveries, SidecarFails(d)
  PROVE  RetryInv'
<1>1. ~LowConfidenceOverlay(NoScore).composite
  BY DEF LowConfidenceOverlay
<1>2. QED
  BY <1>1, KeepRetry DEF SidecarFails

LEMMA FindOverlayRetry ==
  ASSUME ProjectionInv, RetryInv, NEW d \in Deliveries, FindOverlay(d)
  PROVE  RetryInv'
<1>1. /\ pc[d] = "find" /\ Goto(d, "save")
      /\ UNCHANGED <<overlays, faults, photo, next, outcomes>>
  BY DEF FindOverlay, store
<1>2. pc'[d] = "save" /\ found'[d] = overlays[photo[d]]
  BY DEF FindOverlay, Goto, ProjectionInv, TypeOK
<1>3. Attempt(d) => Attempt(d)'
  BY <1>1, <1>2 DEF Attempt, Walking, Drawn, Exists
<1>4. QED
  BY <1>1, <1>3, SoleReadStep

\* The only delivery saves what it decided, to a photo that has no picture yet.
LEMMA SaveOverlayRetry ==
  ASSUME ProjectionInv, RetryInv, NEW d \in Deliveries, SaveOverlay(d)
  PROVE  RetryInv'
<1>1. pc[d] = "save" /\ photo[d] \in Photos
  BY SavedMatches DEF SaveOverlay
<1>2. SUFFICES ASSUME Undisturbed
               PROVE  Attempt(d)' /\ PicturesScored'
  BY <1>1, SoleStep DEF SaveOverlay, Goto
<1>3. Attempt(d) /\ PicturesScored
  BY <1>2 DEF RetryInv
<1>4. Changed(d) = next[d]
  BY <1>1, <1>3, SavedMatches DEF Attempt
<1>5. \A c \in Photos : overlays'[c] = IF c = photo[d] THEN next[d] ELSE overlays[c]
  BY <1>1, <1>4 DEF SaveOverlay, ProjectionInv, TypeOK
<1>6. \A c \in Photos : c # photo[d] => (Drawn(c)' => Drawn(c))
  BY <1>5 DEF Drawn, Exists
<1>7. \A c \in Photos : c = photo[d] /\ Drawn(c)' => next[d].composite
  BY <1>5 DEF Drawn
<1>8. PicturesScored'
  BY <1>1, <1>3, <1>5, <1>6, <1>7 DEF PicturesScored, Attempt
<1>9. pc'[d] = "photo" /\ photo'[d] = photo[d] + 1 /\ outcomes'[d] = outcomes[d]
  BY DEF SaveOverlay, Goto, ProjectionInv, TypeOK
<1>10. photo[d] \in Nat /\ \A c \in Photos : c \in Nat
  BY DEF ProjectionInv, TypeOK, Photos
<1>11. \A c \in Photos : Drawn(c)' => c < photo[d] + 1 /\ "ok" \in outcomes[d]
  <2>1. SUFFICES ASSUME NEW c \in Photos, Drawn(c)' PROVE c < photo[d] + 1 /\ "ok" \in outcomes[d]
    OBVIOUS
  <2>2. CASE c = photo[d]
    BY <1>1, <1>3, <1>7, <1>10, <2>1, <2>2 DEF Attempt
  <2>3. CASE c # photo[d]
    <3>1. c < photo[d] /\ "ok" \in outcomes[d]
      BY <1>1, <1>3, <1>6, <2>1, <2>3 DEF Attempt, Walking
    <3>2. QED
      BY <1>10, <3>1
  <2>4. QED
    BY <2>2, <2>3
<1>12. Attempt(d)'
  BY <1>9, <1>11 DEF Attempt, Walking
<1>13. QED
  BY <1>8, <1>12

\* The only delivery never meets its own insert.
LEMMA InsertCollidesRetry ==
  ASSUME ProjectionInv, RetryInv, NEW d \in Deliveries, InsertCollides(d)
  PROVE  RetryInv'
<1>1. pc[d] = "save" /\ Goto(d, "rescue") /\ UNCHANGED <<overlays, faults>>
  BY DEF InsertCollides, store
<1>2. ~Attempt(d)
  BY DEF InsertCollides, Attempt
<1>3. QED
  BY <1>1, <1>2, SoleReadStep

\* It tries again only if no photo succeeded, so none has a picture.
LEMMA BroadcastRetry ==
  ASSUME ProjectionInv, RetryInv, NEW d \in Deliveries, Broadcast(d)
  PROVE  RetryInv'
<1>1. PICK p \in {"rescue", "done"} : Goto(d, p) /\ (p = "rescue" => outcomes[d] = {"transient"})
  BY DEF Broadcast
<1>2. pc[d] = "photo" /\ UNCHANGED <<overlays, faults>>
  BY DEF Broadcast, store
<1>3. pc'[d] = p
  BY <1>1 DEF Goto, ProjectionInv, TypeOK
<1>4. Attempt(d) => Attempt(d)'
  BY <1>1, <1>2, <1>3 DEF Attempt, Walking, Drawn, Exists
<1>5. QED
  BY <1>1, <1>2, <1>4, SoleReadStep

LEMMA RescueRetry ==
  ASSUME ProjectionInv, RetryInv, NEW d \in Deliveries, Rescue(d)
  PROVE  RetryInv'
<1>1. PICK p \in {"queued", "exhausted"} : Goto(d, p)
  BY DEF Rescue
<1>2. pc[d] = "rescue" /\ UNCHANGED <<overlays, faults>>
  BY DEF Rescue
<1>3. pc'[d] = p
  BY <1>1 DEF Goto, ProjectionInv, TypeOK
<1>4. Attempt(d) => Attempt(d)'
  BY <1>1, <1>2, <1>3 DEF Attempt, Walking, Drawn, Exists
<1>5. QED
  BY <1>1, <1>2, <1>4, SoleReadStep

\* After a fault nothing is promised.
LEMMA FaultRetry ==
  ASSUME ProjectionInv, NEW d \in Deliveries, UnexpectedError(d) \/ Release(d)
  PROVE  RetryInv'
<1>1. faults' = faults + 1 /\ faults \in Nat
  BY DEF UnexpectedError, Release, ProjectionInv, TypeOK
<1>2. faults' # 0
  BY <1>1
<1>3. QED
  BY <1>2 DEF RetryInv, Undisturbed

\* The first delivery to be enqueued finds no picture.
LEMMA EnqueueRetry ==
  ASSUME ProjectionInv, RetryInv, NEW d \in Deliveries, Enqueue(d)
  PROVE  RetryInv'
<1>1. SUFFICES ASSUME Undisturbed'
               PROVE  /\ PicturesScored'
                      /\ \E e \in Deliveries : pc'[e] # "none"
                      /\ \A e \in Deliveries : Attempt(e)'
  BY DEF RetryInv
<1>2. pc[d] = "none" /\ pc'[d] = "queued" /\ (\A e \in Deliveries \ {d} : pc'[e] = pc[e])
  BY DEF Enqueue, Goto, ProjectionInv, TypeOK
<1>3. \A e \in Deliveries : pc[e] = "none"
  BY <1>1, <1>2 DEF Undisturbed, Sole
<1>4. Undisturbed
  BY <1>1, <1>3 DEF Undisturbed, Sole, Enqueue, store
<1>5. \A c \in Photos : ~Drawn(c) /\ ~Drawn(c)'
  BY <1>3, <1>4 DEF RetryInv, Enqueue, store, Drawn, Exists
<1>6. ASSUME NEW e \in Deliveries PROVE Attempt(e)'
  BY <1>2, <1>3, <1>5 DEF Attempt, Walking
<1>7. QED
  BY <1>2, <1>5, <1>6 DEF PicturesScored

LEMMA MeasureRetry ==
  ASSUME RetryInv, Measure \/ UNCHANGED vars
  PROVE  RetryInv'
BY DEF Measure, vars, store, RetryInv, Undisturbed, Sole, PicturesScored, Attempt, Drawn, Exists

LEMMA NextRetry ==
  ASSUME ProjectionInv, RetryInv, [Next]_vars
  PROVE  RetryInv'
<1>1. ASSUME NEW d \in Deliveries, DeliveryStep(d) PROVE RetryInv'
  BY <1>1, PerformRetry, ProjectOneRetry, SidecarAnswersRetry, SidecarFailsRetry, FindOverlayRetry,
     SaveOverlayRetry, InsertCollidesRetry, BroadcastRetry, FaultRetry, RescueRetry
     DEF DeliveryStep
<1>2. QED
  BY <1>1, EnqueueRetry, FaultRetry, MeasureRetry DEF Next

\* No step of the only delivery, before any restart or unexpected error, puts a
\* failed overlay in the place of a picture: it tries again only if all photos
\* failed (projection_orchestrator.rb:51-58, 82).
THEOREM PicturesKept == Spec => RetryKeepsPictures
<1> DEFINE Kept == Undisturbed => \A c \in Photos : Drawn(c) => overlays'[c].confidence # NoScore
<1>1. Init => RetryInv
  <2>1. SUFFICES ASSUME Init PROVE RetryInv
    OBVIOUS
  <2>2. \A c \in Photos : ~Drawn(c)
    BY <2>1 DEF Init, Drawn, Exists
  <2>3. \A d \in Deliveries : Attempt(d)
    BY <2>1, <2>2 DEF Init, Attempt, Walking
  <2>4. QED
    BY <2>2, <2>3 DEF RetryInv, PicturesScored
<1>2. ASSUME ProjectionInv, RetryInv, [Next]_vars PROVE [Kept]_vars
  <2>1. SUFFICES ASSUME Undisturbed, NEW c \in Photos, Drawn(c)
                 PROVE  overlays'[c].confidence # NoScore
    BY DEF Kept
  <2>2. overlays[c].confidence # NoScore
    BY <1>2, <2>1 DEF RetryInv, PicturesScored
  <2>3. CASE UNCHANGED overlays
    BY <2>2, <2>3
  <2>4. ASSUME NEW d \in Deliveries, SaveOverlay(d) PROVE overlays'[c].confidence # NoScore
    <3>1. photo[d] \in Photos /\ photo[d] \in Nat
      BY <1>2, <2>4, SavedMatches DEF SaveOverlay, ProjectionInv, TypeOK
    <3>2. c < photo[d]
      BY <1>2, <2>1, <2>4 DEF RetryInv, Attempt, Walking, SaveOverlay
    <3>3. c # photo[d]
      BY <3>1, <3>2
    <3>4. overlays'[c] = overlays[c]
      BY <1>2, <2>4, <3>1, <3>3 DEF SaveOverlay, ProjectionInv, TypeOK
    <3>5. QED
      BY <2>2, <3>4
  <2>5. ASSUME NEW d \in Deliveries, DeliveryStep(d), ~SaveOverlay(d) PROVE UNCHANGED overlays
    BY <2>5 DEF DeliveryStep, Perform, ProjectOne, SidecarAnswers, SidecarFails, FindOverlay,
       InsertCollides, Broadcast, UnexpectedError, Rescue, store
  <2>6. (\E d \in Deliveries : SaveOverlay(d)) \/ UNCHANGED overlays
    BY <1>2, <2>5 DEF Next, Enqueue, Release, Measure, vars, store
  <2>7. QED
    BY <2>3, <2>4, <2>6
<1>3. Kept <=> (Sole /\ faults = 0 => \A c \in Photos : Drawn(c) => overlays'[c].confidence # NoScore)
  BY DEF Undisturbed
<1> HIDE DEF Kept
<1>4. Spec => [][Kept]_vars
  BY <1>1, <1>2, InitInv, NextInv, NextRetry, PTL DEF Spec
<1>5. QED
  BY <1>3, <1>4, PTL DEF RetryKeepsPictures
=============================================================================
