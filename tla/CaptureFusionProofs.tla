-------------------------- MODULE CaptureFusionProofs --------------------------
(***************************************************************************)
(* Theorems about CaptureFusion: for any deliveries, sessions, residuals,   *)
(* retries, restarts and faults; those about a single delivery say so.      *)
(***************************************************************************)
EXTENDS CaptureFusion, TLAPS

\* What a delivery holds of the row it refines.
PriorInv(d) ==
  /\ prior[d] \in 0..Len(rows)
  /\ pc[d] = "fusing" => prior[d] # 0 /\ rows[prior[d]].lidar

FusionInv ==
  /\ TypeOK
  /\ FusedRefinesLidar
  /\ \A d \in Deliveries : PriorInv(d)

\* No row is deleted, and of an old one nothing but its warnings changes.
RowsKept ==
  /\ rows' \in Seq(Row)
  /\ Len(rows) <= Len(rows')
  /\ \A i \in 1..Len(rows) :
       /\ rows'[i].source = rows[i].source
       /\ rows'[i].lidar = rows[i].lidar
       /\ rows'[i].confidence = rows[i].confidence
       /\ rows'[i].base = rows[i].base
       /\ rows'[i].session = rows[i].session

-----------------------------------------------------------------------------
LEMMA FusedConfidenceBounds ==
  ASSUME NEW confidence \in Confidences, NEW rmse \in Nat
  PROVE  FusedConfidence(confidence, rmse) \in Confidences /\ confidence <= FusedConfidence(confidence, rmse)
<1> DEFINE bonus == IF rmse < 500 THEN 500 - rmse ELSE 0
           sum == confidence + 500 + bonus
<1>1. confidence \in 0..10000 /\ bonus \in 0..500
  BY DEF Confidences
<1>2. sum \in Nat /\ confidence <= sum
  BY <1>1
<1>3. FusedConfidence(confidence, rmse) = IF sum > 10000 THEN 10000 ELSE sum
  BY DEF FusedConfidence
<1> HIDE DEF sum
<1>4. QED
  BY <1>1, <1>2, <1>3 DEF Confidences

LEMMA RowFields ==
  ASSUME rows \in Seq(Row), NEW i \in 1..Len(rows)
  PROVE  /\ rows[i] \in Row
         /\ rows[i].warnings \subseteq Warnings
         /\ rows[i].confidence \in Confidences
         /\ rows[i].lidar \in BOOLEAN
<1>1. rows[i] \in Row
  OBVIOUS
<1>2. QED
  BY <1>1 DEF Row

\* A warning changes nothing else, and leaves at least one on the row.
LEMMA Warned ==
  ASSUME rows \in Seq(Row), NEW i \in 0..Len(rows), NEW have \in SUBSET Warnings,
         NEW message \in Warnings, AppendFailureWarning(i, have, message)
  PROVE  /\ RowsKept
         /\ Len(rows') = Len(rows)
         /\ \A k \in 1..Len(rows) : rows'[k].warnings = rows[k].warnings \/ rows'[k].warnings # {}
         /\ i # 0 /\ message \notin have => rows'[i].warnings # {}
         /\ i = 0 \/ message \in have => UNCHANGED rows
<1>1. CASE i = 0 \/ message \in have
  BY <1>1 DEF AppendFailureWarning, RowsKept
<1>2. CASE i # 0 /\ message \notin have
  <2> DEFINE ws == have \cup {message}
  <2>1. rows' = [rows EXCEPT ![i].warnings = ws]
    BY <1>2 DEF AppendFailureWarning
  <2>2. i \in 1..Len(rows) /\ ws \in SUBSET Warnings /\ ws # {}
    BY <1>2
  <2> HIDE DEF ws
  <2>3. Len(rows') = Len(rows) /\ \A k \in 1..Len(rows) :
          rows'[k] = IF k = i THEN [rows[i] EXCEPT !.warnings = ws] ELSE rows[k]
    BY <2>1, <2>2
  <2>4. rows[i] \in Row /\ [rows[i] EXCEPT !.warnings = ws] \in Row
    BY <2>2, RowFields DEF Row
  <2>5. rows' \in Seq(Row)
    BY <2>1, <2>2, <2>4
  <2>6. /\ rows'[i].source = rows[i].source /\ rows'[i].lidar = rows[i].lidar
        /\ rows'[i].confidence = rows[i].confidence /\ rows'[i].base = rows[i].base
        /\ rows'[i].session = rows[i].session /\ rows'[i].warnings = ws
    BY <2>2, <2>3, <2>4 DEF Row
  <2>7. RowsKept
    BY <2>2, <2>3, <2>5, <2>6 DEF RowsKept
  <2>8. QED
    BY <1>2, <2>2, <2>3, <2>6, <2>7
<1>3. QED
  BY <1>1, <1>2

LEMMA Appended ==
  ASSUME rows \in Seq(Row), NEW row \in Row, rows' = Append(rows, row)
  PROVE  /\ RowsKept
         /\ Len(rows') = Len(rows) + 1
         /\ \A i \in 1..Len(rows) : rows'[i] = rows[i]
         /\ rows'[Len(rows) + 1] = row
BY DEF RowsKept

\* What holds of the rows goes on holding of the old ones.
LEMMA OldRowsRefine ==
  ASSUME rows \in Seq(Row), FusedRefinesLidar, RowsKept, NEW i \in 1..Len(rows), Fused(i)'
  PROVE  /\ rows'[i].base \in 1..(i - 1)
         /\ rows'[rows'[i].base].lidar
         /\ rows'[rows'[i].base].confidence <= rows'[i].confidence
<1>1. /\ rows[i].base \in 1..(i - 1)
      /\ rows[rows[i].base].lidar
      /\ rows[rows[i].base].confidence <= rows[i].confidence
  BY DEF FusedRefinesLidar, RowsKept, Fused
<1>2. rows[i].base \in 1..Len(rows)
  BY <1>1
<1>3. QED
  BY <1>1, <1>2 DEF RowsKept

\* A step that appends no row.
LEMMA QuietStep ==
  ASSUME FusionInv, NEW d \in Deliveries, TypeOK', RowsKept, Len(rows') = Len(rows), PriorInv(d)',
         \A e \in Deliveries \ {d} : pc'[e] = pc[e] /\ prior'[e] = prior[e]
  PROVE  FusionInv'
<1>1. FusedRefinesLidar'
  <2>1. rows \in Seq(Row) /\ FusedRefinesLidar
    BY DEF FusionInv, TypeOK
  <2>2. QED
    BY <2>1, OldRowsRefine DEF FusedRefinesLidar
<1>2. ASSUME NEW e \in Deliveries PROVE PriorInv(e)'
  <2>1. CASE e = d
    BY <2>1
  <2>2. CASE e # d
    <3>1. e \in Deliveries \ {d} /\ PriorInv(e)
      BY <2>2 DEF FusionInv
    <3>2. QED
      BY <3>1 DEF PriorInv, RowsKept
  <2>3. QED
    BY <2>1, <2>2
<1>3. QED
  BY <1>1, <1>2 DEF FusionInv

-----------------------------------------------------------------------------
(* The inductive step. *)

Shown == {"nothing", "started", "failed", "complete"}

\* The delivery moves to one of ps, the others stay.
Moves(d, ps) ==
  /\ pc' \in [Deliveries -> PC]
  /\ pc'[d] \in ps
  /\ \A e \in Deliveries \ {d} : pc'[e] = pc[e]

LEMMA GotoMoves ==
  ASSUME TypeOK, NEW d \in Deliveries, NEW p \in PC, Goto(d, p)
  PROVE  Moves(d, {p})
BY DEF TypeOK, Goto, Moves

LEMMA BroadcastMoves ==
  ASSUME TypeOK, NEW d \in Deliveries, NEW state \in Shown, NEW p \in PC, BroadcastThen(d, state, p)
  PROVE  Moves(d, {p, "rescue"}) /\ shown' \in Shown
<1>1. "rescue" \in PC
  BY DEF PC
<1>2. QED
  BY <1>1 DEF TypeOK, Goto, Moves, BroadcastThen, Shown

\* A step that touches no row and no prior.
LEMMA MoveStep ==
  ASSUME FusionInv, NEW d \in Deliveries, Moves(d, PC \ {"fusing"}),
         UNCHANGED <<rows, prior, known>>, crashNote' \in BOOLEAN, shown' \in Shown,
         projections' \in Nat, releases' \in Nat, attempts' \in [Deliveries -> Nat]
  PROVE  FusionInv'
<1>1. TypeOK'
  BY DEF FusionInv, TypeOK, Moves, Shown
<1>2. PriorInv(d)'
  BY DEF FusionInv, PriorInv, Moves
<1>3. RowsKept /\ Len(rows') = Len(rows)
  BY DEF FusionInv, TypeOK, RowsKept
<1>4. QED
  BY <1>1, <1>2, <1>3, QuietStep DEF Moves

\* A step that leaves a warning on a row.
LEMMA WarnStep ==
  ASSUME FusionInv, NEW d \in Deliveries, Moves(d, PC \ {"fusing"}),
         NEW i \in 0..Len(rows), NEW have \in SUBSET Warnings, NEW message \in Warnings,
         AppendFailureWarning(i, have, message), shown' \in Shown,
         UNCHANGED <<prior, known, crashNote, projections, releases, attempts>>
  PROVE  FusionInv'
<1>1. RowsKept /\ Len(rows') = Len(rows)
  BY Warned DEF FusionInv, TypeOK
<1>2. TypeOK'
  BY <1>1 DEF FusionInv, TypeOK, Moves, Shown, RowsKept
<1>3. PriorInv(d)'
  BY <1>1 DEF FusionInv, PriorInv, Moves
<1>4. QED
  BY <1>1, <1>2, <1>3, QuietStep DEF Moves

LEMMA LatestWarnings ==
  ASSUME TypeOK
  PROVE  /\ Len(rows) \in 0..Len(rows)
         /\ (IF rows = << >> THEN {} ELSE Latest.warnings) \in SUBSET Warnings
         /\ rows # << >> => Len(rows) \in 1..Len(rows)
<1>1. rows # << >> => Len(rows) \in 1..Len(rows)
  BY DEF TypeOK
<1>2. rows # << >> => Latest.warnings \in SUBSET Warnings
  BY <1>1, RowFields DEF TypeOK, Latest
<1>3. QED
  BY <1>1, <1>2 DEF TypeOK

LEMMA PerformInv ==
  ASSUME FusionInv, NEW d \in Deliveries, Perform(d)
  PROVE  FusionInv'
<1>1. PICK p \in {"done", "checked"} : Goto(d, p)
  BY DEF Perform
<1>2. p \in PC \ {"fusing"}
  BY DEF PC, Idle, Ended
<1>3. Moves(d, PC \ {"fusing"})
  BY <1>1, <1>2, GotoMoves DEF FusionInv, Moves
<1>4. QED
  BY <1>3, MoveStep DEF Perform, FusionInv, TypeOK, Shown

LEMMA LoadPriorInv ==
  ASSUME FusionInv, NEW d \in Deliveries, LoadPrior(d)
  PROVE  FusionInv'
<1>1. TypeOK
  BY DEF FusionInv
<1>2. Moves(d, PC) /\ shown' \in Shown /\ (pc'[d] = "fusing" => rows # << >> /\ Latest.lidar)
  <2>1. CASE rows # << >> /\ Latest.lidar
    <3>1. BroadcastThen(d, "started", "fusing")
      BY <2>1 DEF LoadPrior
    <3>2. "fusing" \in PC /\ "rescue" \in PC /\ "started" \in Shown
      BY DEF PC, Shown
    <3>3. QED
      BY <1>1, <2>1, <3>1, <3>2, BroadcastMoves DEF Moves
  <2>2. CASE ~(rows # << >> /\ Latest.lidar)
    <3>1. Goto(d, "skipping") /\ UNCHANGED shown
      BY <2>2 DEF LoadPrior
    <3>2. "skipping" \in PC
      BY DEF PC
    <3>3. QED
      BY <1>1, <3>1, <3>2, GotoMoves DEF Moves, TypeOK, Shown
  <2>3. QED
    BY <2>1, <2>2
<1>3. TypeOK'
  <2>1. prior' \in [Deliveries -> Nat]
    BY <1>1 DEF LoadPrior, TypeOK
  <2>2. known' \in [Deliveries -> SUBSET Warnings]
    BY <1>1, LatestWarnings DEF LoadPrior, TypeOK
  <2>3. QED
    BY <1>1, <1>2, <2>1, <2>2 DEF LoadPrior, TypeOK, Moves, Shown
<1>4. prior'[d] = Len(rows) /\ \A e \in Deliveries \ {d} : prior'[e] = prior[e]
  BY <1>1 DEF LoadPrior, TypeOK
<1>5. PriorInv(d)'
  BY <1>1, <1>2, <1>4 DEF LoadPrior, PriorInv, Latest, TypeOK
<1>6. RowsKept /\ Len(rows') = Len(rows)
  BY <1>1 DEF LoadPrior, RowsKept, TypeOK
<1>7. QED
  BY <1>2, <1>3, <1>4, <1>5, <1>6, QuietStep DEF Moves

LEMMA FailedMoves ==
  ASSUME FusionInv, NEW d \in Deliveries, NEW p \in {"done", "rescue"}, BroadcastThen(d, "failed", p)
  PROVE  Moves(d, PC \ {"fusing"}) /\ shown' \in Shown
<1>1. p \in PC /\ "rescue" \in PC /\ "failed" \in Shown /\ p # "fusing"
  BY DEF PC, Idle, Ended, Shown
<1>2. QED
  BY <1>1, BroadcastMoves DEF FusionInv, Moves

LEMMA SkipInv ==
  ASSUME FusionInv, NEW d \in Deliveries, Skip(d)
  PROVE  FusionInv'
<1>1. Moves(d, PC \ {"fusing"}) /\ shown' \in Shown
  BY FailedMoves DEF Skip
<1>2. "icp_skipped" \in Warnings /\ prior[d] \in 0..Len(rows) /\ known[d] \in SUBSET Warnings
  BY DEF Warnings, FusionInv, PriorInv, TypeOK
<1>3. CASE prior[d] = 0 /\ rows # << >>
  <2>1. Len(rows) \in 0..Len(rows) /\ Latest.warnings \in SUBSET Warnings
    BY <1>3, LatestWarnings DEF FusionInv
  <2>2. AppendFailureWarning(Len(rows), Latest.warnings, "icp_skipped")
    BY <1>3 DEF Skip
  <2>3. QED
    BY <1>1, <1>2, <2>1, <2>2, WarnStep DEF Skip
<1>4. CASE ~(prior[d] = 0 /\ rows # << >>)
  <2>1. AppendFailureWarning(prior[d], known[d], "icp_skipped")
    BY <1>4 DEF Skip
  <2>2. QED
    BY <1>1, <1>2, <2>1, WarnStep DEF Skip
<1>5. QED
  BY <1>3, <1>4

LEMMA DivergeInv ==
  ASSUME FusionInv, NEW d \in Deliveries, Diverge(d)
  PROVE  FusionInv'
<1>1. Moves(d, PC \ {"fusing"}) /\ shown' \in Shown
  BY FailedMoves DEF Diverge
<1>2. "icp_alignment_failed" \in Warnings /\ prior[d] \in 0..Len(rows) /\ known[d] \in SUBSET Warnings
  BY DEF Warnings, FusionInv, PriorInv, TypeOK
<1>3. QED
  BY <1>1, <1>2, WarnStep DEF Diverge

LEMMA SidecarErrorInv ==
  ASSUME FusionInv, NEW d \in Deliveries, SidecarError(d)
  PROVE  FusionInv'
<1>1. Moves(d, PC \ {"fusing"}) /\ shown' \in Shown
  BY FailedMoves DEF SidecarError
<1>2. "fusion_failed" \in Warnings /\ prior[d] \in 0..Len(rows) /\ known[d] \in SUBSET Warnings
  BY DEF Warnings, FusionInv, PriorInv, TypeOK
<1>3. QED
  BY <1>1, <1>2, WarnStep DEF SidecarError

\* A row appended behind the others, which every prior still finds in its place.
LEMMA AppendStep ==
  ASSUME FusionInv, NEW row \in Row, rows' = Append(rows, row), UNCHANGED prior, TypeOK',
         \A d \in Deliveries : pc'[d] = "fusing" => pc[d] = "fusing",
         row.source = "fused" =>
           /\ row.base \in 1..Len(rows)
           /\ rows[row.base].lidar
           /\ rows[row.base].confidence <= row.confidence
  PROVE  FusionInv'
<1>1. rows \in Seq(Row) /\ FusedRefinesLidar
  BY DEF FusionInv, TypeOK
<1>2. /\ RowsKept /\ Len(rows') = Len(rows) + 1
      /\ \A i \in 1..Len(rows) : rows'[i] = rows[i]
      /\ rows'[Len(rows) + 1] = row
  BY <1>1, Appended
<1>3. FusedRefinesLidar'
  <2>1. SUFFICES ASSUME NEW i \in 1..Len(rows'), Fused(i)'
                 PROVE  /\ rows'[i].base \in 1..(i - 1)
                        /\ rows'[rows'[i].base].lidar
                        /\ rows'[rows'[i].base].confidence <= rows'[i].confidence
    BY DEF FusedRefinesLidar
  <2>2. CASE i \in 1..Len(rows)
    BY <1>1, <1>2, <2>1, <2>2, OldRowsRefine
  <2>3. CASE i = Len(rows) + 1
    BY <1>1, <1>2, <2>1, <2>3 DEF Fused
  <2>4. QED
    BY <1>1, <1>2, <2>2, <2>3
<1>4. ASSUME NEW e \in Deliveries PROVE PriorInv(e)'
  <2>1. PriorInv(e)
    BY DEF FusionInv
  <2>2. QED
    BY <1>1, <1>2, <2>1 DEF PriorInv
<1>5. QED
  BY <1>3, <1>4 DEF FusionInv

\* The fused row refines the row its delivery loaded.
LEMMA FusedRowRefines ==
  ASSUME FusionInv, NEW d \in Deliveries, pc[d] = "fusing", NEW rmse \in Rmses
  PROVE  /\ FusedRow(d, rmse) \in Row
         /\ FusedRow(d, rmse).base \in 1..Len(rows)
         /\ rows[FusedRow(d, rmse).base].lidar
         /\ rows[FusedRow(d, rmse).base].confidence <= FusedRow(d, rmse).confidence
         /\ FusedRow(d, rmse).session = SessionOf[d]
         /\ FusedRow(d, rmse).source = "fused"
<1> DEFINE old == rows[prior[d]]
           confidence == FusedConfidence(old.confidence, rmse)
<1>1. prior[d] \in 1..Len(rows) /\ old.lidar
  BY DEF FusionInv, PriorInv, TypeOK
<1>2. old.confidence \in Confidences /\ old.lidar \in BOOLEAN
  BY <1>1, RowFields DEF FusionInv, TypeOK
<1>3. rmse \in Nat /\ SessionOf[d] \in Sessions
  BY NumbersAssumption, SessionsAssumption
<1>4. confidence \in Confidences /\ old.confidence <= confidence
  BY <1>2, <1>3, FusedConfidenceBounds
<1>5. FusedRow(d, rmse) = [source |-> "fused", lidar |-> old.lidar, confidence |-> confidence,
                          base |-> prior[d], session |-> SessionOf[d], warnings |-> {}]
  BY DEF FusedRow
<1>6. prior[d] \in Nat
  BY DEF FusionInv, TypeOK
<1> HIDE DEF confidence
<1>7. QED
  BY <1>1, <1>2, <1>3, <1>4, <1>5, <1>6 DEF Row

LEMMA PersistFusedInv ==
  ASSUME FusionInv, NEW d \in Deliveries, PersistFused(d)
  PROVE  FusionInv'
<1>1. PICK rmse \in Rmses : rows' = Append(rows, FusedRow(d, rmse))
  BY DEF PersistFused
<1> DEFINE row == FusedRow(d, rmse)
<1>2. /\ row \in Row /\ row.base \in 1..Len(rows) /\ rows[row.base].lidar
      /\ rows[row.base].confidence <= row.confidence
  BY FusedRowRefines DEF PersistFused
<1>3. rows' = Append(rows, row)
  BY <1>1
<1> HIDE DEF row
<1>4. "announcing" \in PC
  BY DEF PC
<1>5. Moves(d, {"announcing"})
  BY <1>4, GotoMoves DEF PersistFused, FusionInv
<1>6. TypeOK'
  BY <1>2, <1>3, <1>5 DEF PersistFused, FusionInv, TypeOK, Moves
<1>7. \A e \in Deliveries : pc'[e] = "fusing" => pc[e] = "fusing"
  BY <1>5 DEF Moves
<1>8. QED
  BY <1>2, <1>3, <1>6, <1>7, AppendStep DEF PersistFused

LEMMA PipelineCommitsInv ==
  ASSUME FusionInv, PipelineCommits
  PROVE  FusionInv'
<1>1. PICK lidar \in BOOLEAN :
        rows' = Append(rows, [source |-> "pipeline", lidar |-> lidar,
                              confidence |-> PriorConfidence, base |-> 0,
                              session |-> NoSession, warnings |-> {}])
  BY DEF PipelineCommits
<1> DEFINE row == [source |-> "pipeline", lidar |-> lidar, confidence |-> PriorConfidence,
                   base |-> 0, session |-> NoSession, warnings |-> {}]
<1>2. row \in Row /\ row.source # "fused"
  BY NumbersAssumption DEF Row
<1>3. rows' = Append(rows, row)
  BY <1>1
<1> HIDE DEF row
<1>4. TypeOK'
  BY <1>2, <1>3 DEF PipelineCommits, FusionInv, TypeOK
<1>5. QED
  BY <1>2, <1>3, <1>4, AppendStep DEF PipelineCommits

LEMMA AnnounceInv ==
  ASSUME FusionInv, NEW d \in Deliveries, Announce(d)
  PROVE  FusionInv'
<1>1. "enqueueing" \in PC /\ "rescue" \in PC /\ "complete" \in Shown
  BY DEF PC, Shown
<1>2. Moves(d, PC \ {"fusing"}) /\ shown' \in Shown
  BY <1>1, BroadcastMoves DEF Announce, FusionInv, Moves
<1>3. QED
  BY <1>2, MoveStep DEF Announce, FusionInv, TypeOK

\* Steps that go to one place and touch no row.
LEMMA PlainInv ==
  ASSUME FusionInv, NEW d \in Deliveries,
         EnqueueProjection(d) \/ UnexpectedError(d) \/ RetryOrGiveUp(d) \/ Enqueue(d) \/ Release(d) \/ Kill(d)
  PROVE  FusionInv'
<1>1. PICK p \in {"done", "rescue", "exhausted", "queued", "lost"} : Goto(d, p)
  BY DEF EnqueueProjection, UnexpectedError, RetryOrGiveUp, Enqueue, Release, Kill
<1>2. p \in PC \ {"fusing"}
  BY DEF PC, Idle, Ended
<1>3. Moves(d, PC \ {"fusing"})
  BY <1>1, <1>2, GotoMoves DEF FusionInv, Moves
<1>4. /\ UNCHANGED <<rows, prior, known, crashNote, shown>>
      /\ projections' \in Nat /\ releases' \in Nat /\ attempts' \in [Deliveries -> Nat]
  BY DEF EnqueueProjection, UnexpectedError, RetryOrGiveUp, Enqueue, Release, Kill, FusionInv, TypeOK
<1>5. QED
  BY <1>3, <1>4, MoveStep DEF FusionInv, TypeOK, Shown

LEMMA RescueInv ==
  ASSUME FusionInv, NEW d \in Deliveries, Rescue(d)
  PROVE  FusionInv'
<1>1. "raised" \in PC \ {"fusing"}
  BY DEF PC
<1>2. Moves(d, PC \ {"fusing"}) /\ shown' \in Shown
  BY <1>1, GotoMoves DEF Rescue, FusionInv, Moves, TypeOK, Shown
<1>3. CASE LastAttempt(d)
  <2> DEFINE have == IF rows = << >> THEN {} ELSE Latest.warnings
  <2>1. Len(rows) \in 0..Len(rows) /\ have \in SUBSET Warnings /\ "fusion_job_exhausted" \in Warnings
    BY LatestWarnings DEF FusionInv, Warnings
  <2>2. AppendFailureWarning(Len(rows), have, "fusion_job_exhausted") /\ UNCHANGED crashNote
    BY <1>3 DEF Rescue
  <2> HIDE DEF have
  <2>3. QED
    BY <1>2, <2>1, <2>2, WarnStep DEF Rescue
<1>4. CASE ~LastAttempt(d)
  BY <1>2, <1>4, MoveStep DEF Rescue, FusionInv, TypeOK
<1>5. QED
  BY <1>3, <1>4

LEMMA InitInv == Init => FusionInv
<1> SUFFICES ASSUME Init PROVE FusionInv
  OBVIOUS
<1>1. TypeOK
  <2>1. rows \in Seq(Row)
    BY DEF Init
  <2>2. crashNote \in BOOLEAN
    BY DEF Init
  <2>3. "none" \in PC
    BY DEF PC, Idle
  <2>4. QED
    BY <2>1, <2>2, <2>3 DEF Init, TypeOK
<1>2. FusedRefinesLidar
  BY DEF Init, FusedRefinesLidar
<1>3. \A d \in Deliveries : PriorInv(d)
  BY DEF Init, PriorInv
<1>4. QED
  BY <1>1, <1>2, <1>3 DEF FusionInv

LEMMA NextInv ==
  ASSUME FusionInv, [Next]_vars
  PROVE  FusionInv'
<1>1. ASSUME NEW d \in Deliveries, DeliveryStep(d) PROVE FusionInv'
  BY <1>1, PerformInv, LoadPriorInv, SkipInv, DivergeInv, SidecarErrorInv, PersistFusedInv,
     AnnounceInv, PlainInv, RescueInv DEF DeliveryStep
<1>2. CASE UNCHANGED vars
  BY <1>2 DEF vars, FusionInv, TypeOK, FusedRefinesLidar, Fused, PriorInv
<1>3. QED
  BY <1>1, <1>2, PipelineCommitsInv, PlainInv DEF Next, Environment

\* Rows, deliveries and what they hold keep their types; above all no confidence
\* passes 1, however many sessions refine one another's rows
\* (fusion_orchestrator.rb:137-144).
THEOREM FusionTypesHold == Spec => []TypeOK
<1>1. FusionInv => TypeOK
  BY DEF FusionInv
<1>2. QED
  BY <1>1, InitInv, NextInv, PTL DEF Spec

\* However many deliveries and pipeline runs write rows during a sidecar call,
\* a fused row refines an earlier row with LiDAR and is no less confident
\* (fusion_orchestrator.rb:46-63, 108-144).
THEOREM RefinesLidar == Spec => []FusedRefinesLidar
<1>1. FusionInv => FusedRefinesLidar
  BY DEF FusionInv
<1>2. QED
  BY <1>1, InitInv, NextInv, PTL DEF Spec

-----------------------------------------------------------------------------
(* One delivery, however often it is retried or released.  What it checked  *)
(* of the latest row stays true until it writes, which it does not beside   *)
(* another delivery.                                                        *)

Alone == Deliveries # {} /\ \A d, e \in Deliveries : d = e

Traced(d) ==
  \E i \in 1..Len(rows) : rows[i].warnings # {} \/ (Fused(i) /\ rows[i].session = SessionOf[d])

NewestIsPlain == rows # << >> => Latest.source # "fused"
OwnRows(d) == \A i \in 1..Len(rows) : Fused(i) => rows[i].session = SessionOf[d]

\* Where a warning will go, and that the copy of its warnings is not ahead of the row.
TraceInv(d) ==
  /\ pc[d] # "none" => rows # << >>
  /\ pc[d] \in {"skipping", "fusing"} => prior[d] # 0 /\ known[d] \subseteq rows[prior[d]].warnings
  /\ pc[d] \in Ended \cup {"announcing", "enqueueing"} => Traced(d)
  /\ pc[d] = "raised" /\ LastAttempt(d) => Traced(d)

SoleInv ==
  /\ FusedOnce
  /\ \A d \in Deliveries :
       /\ pc[d] \in {"checked", "fusing"} => NewestIsPlain
       /\ OwnRows(d)
       /\ ~CaptureAnyTime => TraceInv(d)

\* To show SoleInv it is enough to look at one delivery.
LEMMA SoleStep ==
  ASSUME Alone, NEW d \in Deliveries, FusedOnce',
         pc'[d] \in {"checked", "fusing"} => NewestIsPlain',
         OwnRows(d)', ~CaptureAnyTime => TraceInv(d)'
  PROVE  SoleInv'
BY DEF Alone, SoleInv

LEMMA OldRowsOnce ==
  ASSUME FusionInv, SoleInv, RowsKept, Len(rows') = Len(rows), NEW d \in Deliveries
  PROVE  FusedOnce' /\ OwnRows(d)'
<1>1. \A i \in 1..Len(rows) : /\ rows'[i].source = rows[i].source
                              /\ rows'[i].session = rows[i].session
  BY DEF RowsKept
<1>2. Len(rows) \in Nat
  BY DEF FusionInv, TypeOK
<1>3. OwnRows(d)'
  BY <1>1 DEF SoleInv, OwnRows, Fused
<1>4. FusedOnce'
  <2>1. SUFFICES ASSUME NEW i \in 1..Len(rows), NEW j \in 1..Len(rows), i < j, Fused(i)', Fused(j)',
                        rows'[i].session = rows'[j].session
                 PROVE  \E k \in i..j : ~(rows'[k].source = "fused")
    BY DEF FusedOnce, Fused
  <2>2. PICK k \in i..j : ~Fused(k)
    BY <1>1, <2>1 DEF SoleInv, FusedOnce, Fused
  <2>3. k \in 1..Len(rows)
    BY <1>2, <2>1, <2>2
  <2>4. QED
    BY <1>1, <2>2, <2>3 DEF Fused
<1>5. QED
  BY <1>3, <1>4

\* A step that touches no row.
LEMMA SoleMove ==
  ASSUME Alone, FusionInv, SoleInv, NEW d \in Deliveries, UNCHANGED rows,
         pc'[d] \in {"checked", "fusing"} => NewestIsPlain,
         ~CaptureAnyTime /\ TraceInv(d) => TraceInv(d)'
  PROVE  SoleInv'
<1>1. RowsKept /\ Len(rows') = Len(rows)
  BY DEF FusionInv, TypeOK, RowsKept
<1>2. FusedOnce' /\ OwnRows(d)'
  BY <1>1, OldRowsOnce
<1>3. (pc'[d] \in {"checked", "fusing"} => NewestIsPlain') /\ (~CaptureAnyTime => TraceInv(d)')
  BY DEF SoleInv, NewestIsPlain, Latest
<1>4. QED
  BY <1>2, <1>3, SoleStep

\* A step that leaves a warning.
LEMMA SoleWarn ==
  ASSUME Alone, FusionInv, SoleInv, NEW d \in Deliveries, pc'[d] \in {"done", "rescue", "raised"},
         NEW i \in 0..Len(rows), NEW have \in SUBSET Warnings, NEW message \in Warnings,
         AppendFailureWarning(i, have, message),
         ~CaptureAnyTime => i # 0 /\ have \subseteq rows[i].warnings
  PROVE  SoleInv'
<1>1. /\ RowsKept /\ Len(rows') = Len(rows)
      /\ i # 0 /\ message \notin have => rows'[i].warnings # {}
      /\ i = 0 \/ message \in have => UNCHANGED rows
  BY Warned DEF FusionInv, TypeOK
<1>2. FusedOnce' /\ OwnRows(d)'
  BY <1>1, OldRowsOnce
<1>3. ASSUME ~CaptureAnyTime PROVE TraceInv(d)'
  <2>1. i \in 1..Len(rows') /\ rows'[i].warnings # {}
    BY <1>1, <1>3
  <2>2. Traced(d)'
    BY <2>1 DEF Traced
  <2>3. rows' # << >>
    BY <1>1, <2>1 DEF RowsKept
  <2>4. QED
    BY <2>2, <2>3 DEF TraceInv
<1>4. QED
  BY <1>2, <1>3, SoleStep

LEMMA PerformSole ==
  ASSUME Alone, FusionInv, SoleInv, NEW d \in Deliveries, Perform(d)
  PROVE  SoleInv'
<1>1. CASE AlreadyFused
  <2>1. pc'[d] = "done" /\ UNCHANGED <<rows, prior, known, attempts>>
    BY <1>1 DEF Perform, Goto, FusionInv, TypeOK
  <2>2. Len(rows) \in 1..Len(rows)
    BY <1>1, LatestWarnings DEF AlreadyFused, FusionInv
  <2>3. Fused(Len(rows)) /\ rows[Len(rows)].session = SessionOf[d]
    BY <1>1, <2>2 DEF AlreadyFused, Latest, Fused, SoleInv, OwnRows
  <2>4. Traced(d)'
    BY <2>1, <2>2, <2>3 DEF Traced, Fused
  <2>5. TraceInv(d) => TraceInv(d)'
    BY <2>1, <2>4 DEF Perform, TraceInv
  <2>6. QED
    BY <2>1, <2>5, SoleMove
<1>2. CASE ~AlreadyFused
  <2>1. pc'[d] = "checked" /\ UNCHANGED <<rows, prior, known, attempts>>
    BY <1>2 DEF Perform, Goto, FusionInv, TypeOK
  <2>2. TraceInv(d) => TraceInv(d)'
    BY <2>1 DEF Perform, TraceInv, Ended
  <2>3. NewestIsPlain
    BY <1>2 DEF AlreadyFused, NewestIsPlain
  <2>4. QED
    BY <2>1, <2>2, <2>3, SoleMove
<1>3. QED
  BY <1>1, <1>2

LEMMA LoadPriorSole ==
  ASSUME Alone, FusionInv, SoleInv, NEW d \in Deliveries, LoadPrior(d)
  PROVE  SoleInv'
<1>1. /\ pc[d] = "checked" /\ pc'[d] \in {"fusing", "skipping", "rescue"} /\ UNCHANGED rows
      /\ prior'[d] = Len(rows) /\ known'[d] = (IF rows = << >> THEN {} ELSE Latest.warnings)
  BY DEF LoadPrior, BroadcastThen, Goto, FusionInv, TypeOK
<1>2. TraceInv(d) => TraceInv(d)'
  <2>1. rows # << >> => prior'[d] # 0 /\ known'[d] \subseteq rows[prior'[d]].warnings
    BY <1>1, LatestWarnings DEF Latest, FusionInv
  <2>2. QED
    BY <1>1, <2>1 DEF TraceInv, Ended
<1>3. NewestIsPlain
  BY <1>1 DEF SoleInv
<1>4. QED
  BY <1>1, <1>2, <1>3, SoleMove

\* Steps after which a failed capture has its warning.
LEMMA FailSole ==
  ASSUME Alone, FusionInv, SoleInv, NEW d \in Deliveries, Skip(d) \/ Diverge(d) \/ SidecarError(d)
  PROVE  SoleInv'
<1>1. pc'[d] \in {"done", "rescue"}
  BY DEF Skip, Diverge, SidecarError, BroadcastThen, Goto, FusionInv, TypeOK
<1>2. prior[d] \in 0..Len(rows) /\ known[d] \in SUBSET Warnings
  BY DEF FusionInv, PriorInv, TypeOK
<1>3. ~CaptureAnyTime => prior[d] # 0 /\ known[d] \subseteq rows[prior[d]].warnings
  BY DEF SoleInv, TraceInv, Skip, Diverge, SidecarError
<1>4. {"icp_skipped", "icp_alignment_failed", "fusion_failed"} \subseteq Warnings
  BY DEF Warnings
<1>5. CASE Skip(d) /\ prior[d] = 0 /\ rows # << >>
  <2>1. Len(rows) \in 0..Len(rows) /\ Latest.warnings \in SUBSET Warnings
    BY <1>5, LatestWarnings DEF FusionInv
  <2>2. AppendFailureWarning(Len(rows), Latest.warnings, "icp_skipped")
    BY <1>5 DEF Skip
  <2>3. QED
    BY <1>1, <1>3, <1>4, <1>5, <2>1, <2>2, SoleWarn
<1>6. CASE ~(Skip(d) /\ prior[d] = 0 /\ rows # << >>)
  <2>1. PICK message \in Warnings : AppendFailureWarning(prior[d], known[d], message)
    BY <1>4, <1>6 DEF Skip, Diverge, SidecarError
  <2>2. QED
    BY <1>1, <1>2, <1>3, <2>1, SoleWarn
<1>7. QED
  BY <1>5, <1>6

\* A row appended behind the others.
LEMMA SoleAppend ==
  ASSUME Alone, FusionInv, SoleInv, NEW d \in Deliveries, NEW row \in Row, rows' = Append(rows, row),
         row.source = "fused" => NewestIsPlain /\ row.session = SessionOf[d],
         pc'[d] \in {"checked", "fusing"} => row.source # "fused",
         ~CaptureAnyTime /\ TraceInv(d) => TraceInv(d)'
  PROVE  SoleInv'
<1>1. /\ Len(rows') = Len(rows) + 1 /\ Len(rows) \in Nat
      /\ \A i \in 1..Len(rows) : rows'[i] = rows[i]
      /\ rows'[Len(rows) + 1] = row
  BY Appended DEF FusionInv, TypeOK
<1>2. OwnRows(d)'
  BY <1>1 DEF SoleInv, OwnRows, Fused
<1>3. FusedOnce'
  <2>1. SUFFICES ASSUME NEW i \in 1..Len(rows'), NEW j \in 1..Len(rows'), i < j, Fused(i)', Fused(j)',
                        rows'[i].session = rows'[j].session
                 PROVE  \E k \in i..j : ~(rows'[k].source = "fused")
    BY DEF FusedOnce, Fused
  <2>2. CASE j \in 1..Len(rows)
    <3>1. i \in 1..Len(rows)
      BY <1>1, <2>1, <2>2
    <3>2. PICK k \in i..j : ~Fused(k)
      BY <1>1, <2>1, <2>2, <3>1 DEF SoleInv, FusedOnce, Fused
    <3>3. k \in 1..Len(rows)
      BY <1>1, <2>2, <3>1, <3>2
    <3>4. QED
      BY <1>1, <3>2, <3>3 DEF Fused
  <2>3. CASE j = Len(rows) + 1
    <3>1. Len(rows) \in i..j /\ Len(rows) \in 1..Len(rows)
      BY <1>1, <2>1, <2>3
    <3>2. rows # << >> /\ rows[Len(rows)].source # "fused"
      BY <1>1, <2>1, <2>3, <3>1 DEF NewestIsPlain, Latest, Fused
    <3>3. QED
      BY <1>1, <3>1, <3>2
  <2>4. QED
    BY <1>1, <2>2, <2>3
<1>4. pc'[d] \in {"checked", "fusing"} => NewestIsPlain'
  BY <1>1 DEF NewestIsPlain, Latest
<1>5. ~CaptureAnyTime => TraceInv(d)'
  BY DEF SoleInv
<1>6. QED
  BY <1>2, <1>3, <1>4, <1>5, SoleStep

LEMMA PersistFusedSole ==
  ASSUME Alone, FusionInv, SoleInv, NEW d \in Deliveries, PersistFused(d)
  PROVE  SoleInv'
<1>1. PICK rmse \in Rmses : rows' = Append(rows, FusedRow(d, rmse))
  BY DEF PersistFused
<1> DEFINE row == FusedRow(d, rmse)
<1>2. row \in Row /\ row.source = "fused" /\ row.session = SessionOf[d]
  BY FusedRowRefines DEF PersistFused
<1>3. rows' = Append(rows, row)
  BY <1>1
<1> HIDE DEF row
<1>4. pc'[d] = "announcing"
  BY DEF PersistFused, Goto, FusionInv, TypeOK
<1>5. /\ Len(rows') = Len(rows) + 1 /\ Len(rows) \in Nat /\ rows' \in Seq(Row)
      /\ rows'[Len(rows) + 1] = row
  BY <1>2, <1>3, Appended DEF FusionInv, TypeOK, RowsKept
<1>6. Traced(d)'
  BY <1>2, <1>5 DEF Traced, Fused
<1>7. TraceInv(d)'
  BY <1>4, <1>5, <1>6 DEF TraceInv
<1>8. NewestIsPlain
  BY DEF PersistFused, SoleInv
<1>9. QED
  BY <1>2, <1>3, <1>4, <1>7, <1>8, SoleAppend

LEMMA PipelineCommitsSole ==
  ASSUME Alone, FusionInv, SoleInv, NEW d \in Deliveries, PipelineCommits
  PROVE  SoleInv'
<1>1. PICK lidar \in BOOLEAN :
        rows' = Append(rows, [source |-> "pipeline", lidar |-> lidar,
                              confidence |-> PriorConfidence, base |-> 0,
                              session |-> NoSession, warnings |-> {}])
  BY DEF PipelineCommits
<1> DEFINE row == [source |-> "pipeline", lidar |-> lidar, confidence |-> PriorConfidence,
                   base |-> 0, session |-> NoSession, warnings |-> {}]
<1>2. row \in Row /\ row.source # "fused"
  BY NumbersAssumption DEF Row
<1>3. rows' = Append(rows, row)
  BY <1>1
<1> HIDE DEF row
<1>4. /\ Len(rows') = Len(rows) + 1 /\ Len(rows) \in Nat /\ rows' \in Seq(Row)
      /\ \A i \in 1..Len(rows) : rows'[i] = rows[i]
  BY <1>2, <1>3, Appended DEF FusionInv, TypeOK, RowsKept
<1>5. prior[d] \in 0..Len(rows) /\ UNCHANGED <<pc, prior, known, attempts>>
  BY DEF FusionInv, PriorInv, PipelineCommits
<1>6. Traced(d) => Traced(d)'
  BY <1>4 DEF Traced, Fused
<1>7. TraceInv(d) => TraceInv(d)'
  BY <1>4, <1>5, <1>6 DEF TraceInv, LastAttempt
<1>8. QED
  BY <1>2, <1>3, <1>7, SoleAppend

LEMMA RescueSole ==
  ASSUME Alone, FusionInv, SoleInv, NEW d \in Deliveries, Rescue(d)
  PROVE  SoleInv'
<1>1. pc[d] = "rescue" /\ pc'[d] = "raised" /\ UNCHANGED attempts
  BY DEF Rescue, Goto, FusionInv, TypeOK
<1>2. CASE LastAttempt(d)
  <2> DEFINE have == IF rows = << >> THEN {} ELSE Latest.warnings
  <2>1. Len(rows) \in 0..Len(rows) /\ have \in SUBSET Warnings /\ "fusion_job_exhausted" \in Warnings
    BY LatestWarnings DEF FusionInv, Warnings
  <2>2. AppendFailureWarning(Len(rows), have, "fusion_job_exhausted")
    BY <1>2 DEF Rescue
  <2>3. rows # << >> => Len(rows) # 0 /\ have \subseteq rows[Len(rows)].warnings
    BY LatestWarnings DEF Latest, FusionInv
  <2>4. ~CaptureAnyTime => rows # << >>
    BY <1>1 DEF SoleInv, TraceInv
  <2> HIDE DEF have
  <2>5. QED
    BY <1>1, <2>1, <2>2, <2>3, <2>4, SoleWarn
<1>3. CASE ~LastAttempt(d)
  <2>1. UNCHANGED rows
    BY <1>3 DEF Rescue
  <2>2. TraceInv(d) => TraceInv(d)'
    BY <1>1, <1>3, <2>1 DEF TraceInv, LastAttempt, Ended
  <2>3. QED
    BY <1>1, <2>1, <2>2, SoleMove
<1>4. QED
  BY <1>2, <1>3

\* Steps that touch no row.
LEMMA PlainSole ==
  ASSUME Alone, FusionInv, SoleInv, NEW d \in Deliveries,
         \/ Announce(d) \/ EnqueueProjection(d) \/ UnexpectedError(d)
         \/ RetryOrGiveUp(d) \/ Enqueue(d) \/ Release(d) \/ Kill(d)
  PROVE  SoleInv'
<1>1. UNCHANGED <<rows, prior, known>>
  BY DEF Announce, EnqueueProjection, UnexpectedError, RetryOrGiveUp, Enqueue, Release, Kill
<1>2. \/ pc[d] = "announcing" /\ pc'[d] \in {"enqueueing", "rescue"}
      \/ pc[d] = "enqueueing" /\ pc'[d] = "done"
      \/ pc[d] = "raised" /\ LastAttempt(d) /\ pc'[d] = "exhausted"
      \/ pc[d] = "none" /\ (CaptureAnyTime \/ rows # << >>) /\ pc'[d] = "queued"
      \/ pc[d] # "none" /\ pc'[d] \in {"rescue", "queued", "lost"}
  BY DEF Announce, EnqueueProjection, UnexpectedError, RetryOrGiveUp, Enqueue, Release, Kill,
     BroadcastThen, Goto, FusionInv, TypeOK, Idle
<1>3. Traced(d) => Traced(d)'
  BY <1>1 DEF Traced, Fused
<1>4. ~CaptureAnyTime /\ TraceInv(d) => TraceInv(d)'
  BY <1>1, <1>2, <1>3 DEF TraceInv, Ended
<1>5. QED
  BY <1>1, <1>2, <1>4, SoleMove

LEMMA NextSole ==
  ASSUME Alone, FusionInv, SoleInv, [Next]_vars
  PROVE  SoleInv'
<1>1. ASSUME NEW d \in Deliveries, DeliveryStep(d) PROVE SoleInv'
  BY <1>1, PerformSole, LoadPriorSole, FailSole, PersistFusedSole, PlainSole, RescueSole
     DEF DeliveryStep
<1>2. CASE UNCHANGED vars
  BY <1>2 DEF vars, SoleInv, FusedOnce, Fused, OwnRows, NewestIsPlain, Latest, TraceInv, Traced, LastAttempt
<1>3. CASE PipelineCommits
  BY <1>3, PipelineCommitsSole DEF Alone
<1>4. QED
  BY <1>1, <1>2, <1>3, PlainSole DEF Next, Environment

LEMMA SoleKeepsInvariant == Alone => (Spec => []SoleInv)
<1> SUFFICES ASSUME Alone PROVE Spec => []SoleInv
  OBVIOUS
<1>1. Init => SoleInv
  BY DEF Init, SoleInv, FusedOnce, OwnRows, TraceInv, NewestIsPlain, Ended
<1>2. QED
  BY <1>1, InitInv, NextInv, NextSole, PTL DEF Spec

\* One delivery never fuses its session twice without a new pipeline measurement
\* in between, through any number of retries, restarts and failing broadcasts
\* (fusion_job.rb:29-31).
THEOREM SoleFusesOnce == ASSUME Alone PROVE Spec => []FusedOnce
<1>1. SoleInv => FusedOnce
  BY DEF SoleInv
<1>2. QED
  BY <1>1, SoleKeepsInvariant, PTL

\* One delivery of a capture taken after the first measurement leaves a fused
\* measurement or a warning when it ends (fusion_orchestrator.rb:13-15).
THEOREM SoleEndsVisibly == ASSUME Alone, ~CaptureAnyTime PROVE Spec => []EndsVisibly
<1>1. SoleInv => EndsVisibly
  BY DEF SoleInv, EndsVisibly, TraceInv, Traced
<1>2. QED
  BY <1>1, SoleKeepsInvariant, PTL

-----------------------------------------------------------------------------
(* The rows as MeasurementTable.  A warning is written from a copy that is  *)
(* as old as the sidecar call: with one delivery it is not behind the row.  *)

Held ==
  \A d \in Deliveries :
    pc[d] \in {"skipping", "fusing"} /\ prior[d] # 0 => rows[prior[d]].warnings \subseteq known[d]

\* What holds of the rows alone, and, with one delivery, of what it holds.
TableInv == FusionInv /\ (Alone => SoleInv /\ Held)

LEMMA HeldByOne ==
  ASSUME Alone, NEW d \in Deliveries,
         pc'[d] \in {"skipping", "fusing"} /\ prior'[d] # 0
           => rows'[prior'[d]].warnings \subseteq known'[d]
  PROVE  Held'
BY DEF Alone, Held

LEMMA DeliveryHolds ==
  ASSUME Alone, FusionInv, Held, NEW d \in Deliveries, DeliveryStep(d)
  PROVE  Held'
<1>1. CASE LoadPrior(d)
  <2>1. /\ prior'[d] = Len(rows) /\ UNCHANGED rows
        /\ known'[d] = (IF rows = << >> THEN {} ELSE Latest.warnings)
    BY <1>1 DEF LoadPrior, FusionInv, TypeOK
  <2>2. Len(rows) # 0 => rows # << >>
    OBVIOUS
  <2>3. prior'[d] # 0 => rows'[prior'[d]].warnings \subseteq known'[d]
    BY <2>1, <2>2 DEF Latest
  <2>4. QED
    BY <2>3, HeldByOne
<1>2. CASE ~LoadPrior(d)
  <2>1. pc'[d] \notin {"skipping", "fusing"}
    BY <1>2 DEF DeliveryStep, Perform, Skip, Diverge, SidecarError, PersistFused, Announce,
       EnqueueProjection, UnexpectedError, Rescue, RetryOrGiveUp, BroadcastThen, Goto, FusionInv,
       TypeOK
  <2>2. QED
    BY <2>1, HeldByOne
<1>3. QED
  BY <1>1, <1>2

LEMMA NextHolds ==
  ASSUME Alone, FusionInv, Held, [Next]_vars
  PROVE  Held'
<1>1. CASE PipelineCommits
  <2>1. /\ \A i \in 1..Len(rows) : rows'[i] = rows[i]
        /\ UNCHANGED <<pc, prior, known>>
    BY <1>1 DEF PipelineCommits, FusionInv, TypeOK
  <2>2. \A d \in Deliveries : prior[d] \in 0..Len(rows)
    BY DEF FusionInv, PriorInv
  <2>3. QED
    BY <2>1, <2>2 DEF Held
<1>2. ASSUME NEW d \in Deliveries, Enqueue(d) \/ Release(d) \/ Kill(d)
      PROVE  Held'
  <2>1. pc'[d] \in {"queued", "lost"}
    BY <1>2 DEF Enqueue, Release, Kill, Goto, FusionInv, TypeOK
  <2>2. QED
    BY <2>1, HeldByOne
<1>3. CASE UNCHANGED vars
  BY <1>3 DEF vars, Held
<1>4. QED
  BY <1>1, <1>2, <1>3, DeliveryHolds DEF Next, Environment

LEMMA TableInductive == TableInv /\ [Next]_vars => TableInv'
<1>1. Alone' = Alone
  BY DEF Alone
<1>2. QED
  BY <1>1, NextInv, NextSole, NextHolds DEF TableInv

\* A warning on a row of the table.
LEMMA WarningIsTableStep ==
  ASSUME FusionInv, NEW i \in 0..Len(rows), NEW have \in SUBSET Warnings, NEW message \in Warnings,
         AppendFailureWarning(i, have, message),
         i # 0 /\ ~(\E d, e \in Deliveries : d # e) => rows[i].warnings \subseteq have
  PROVE  [Table!Next]_rows
<1>1. CASE i = 0 \/ message \in have
  BY <1>1 DEF AppendFailureWarning
<1>2. CASE i # 0 /\ message \notin have
  <2> DEFINE ws == have \cup {message}
  <2>1. i \in 1..Len(rows) /\ rows \in Seq(Row) /\ rows[i] \in Row
    BY <1>2, RowFields DEF FusionInv, TypeOK
  <2>2. rows' = [rows EXCEPT ![i].warnings = ws]
    BY <1>2 DEF AppendFailureWarning
  <2>3. ws # {} /\ have \subseteq ws
    OBVIOUS
  <2> HIDE DEF ws
  <2>4. rows'[i].warnings = ws
    BY <2>1, <2>2 DEF Row
  <2>5. Table!Warn
    BY <1>2, <2>1, <2>2, <2>3, <2>4 DEF Table!Warn
  <2>6. QED
    BY <2>5 DEF Table!Next
<1>3. QED
  BY <1>1, <1>2

LEMMA AppendedToTable ==
  ASSUME rows \in Seq(Row), NEW row \in Row, rows' = Append(rows, row)
  PROVE  Table!Added /\ Table!Newest' = row
<1>1. /\ Len(rows') = Len(rows) + 1 /\ \A i \in 1..Len(rows) : rows'[i] = rows[i]
      /\ rows'[Len(rows) + 1] = row
  BY Appended
<1>2. QED
  BY <1>1 DEF Table!Added, Table!Newest

LEMMA CommitIsTableStep ==
  ASSUME FusionInv, PipelineCommits
  PROVE  Table!Measure
<1>1. PICK lidar \in BOOLEAN :
        rows' = Append(rows, [source |-> "pipeline", lidar |-> lidar,
                              confidence |-> PriorConfidence, base |-> 0,
                              session |-> NoSession, warnings |-> {}])
  BY DEF PipelineCommits
<1> DEFINE row == [source |-> "pipeline", lidar |-> lidar, confidence |-> PriorConfidence,
                   base |-> 0, session |-> NoSession, warnings |-> {}]
<1>2. row \in Row /\ row.source = "pipeline"
  BY NumbersAssumption DEF Row
<1>3. rows' = Append(rows, row)
  BY <1>1
<1> HIDE DEF row
<1>4. Table!Added /\ Table!Newest' = row
  BY <1>2, <1>3, AppendedToTable DEF FusionInv, TypeOK
<1>5. QED
  BY <1>2, <1>4 DEF Table!Measure

LEMMA RefinementIsTableStep ==
  ASSUME TableInv, NEW d \in Deliveries, PersistFused(d)
  PROVE  Table!Refine
<1>1. PICK rmse \in Rmses : rows' = Append(rows, FusedRow(d, rmse))
  BY DEF PersistFused
<1> DEFINE row == FusedRow(d, rmse)
<1>2. /\ row \in Row /\ row.source = "fused" /\ row.base \in 1..Len(rows)
      /\ rows[row.base].lidar /\ rows[row.base].confidence <= row.confidence
  BY FusedRowRefines DEF PersistFused, TableInv
<1>3. rows' = Append(rows, row)
  BY <1>1
<1> HIDE DEF row
<1>4. Table!Added /\ Table!Newest' = row
  BY <1>2, <1>3, AppendedToTable DEF TableInv, FusionInv, TypeOK
<1>5. ASSUME ~(\E a, b \in Deliveries : a # b)
      PROVE  Table!Newest.source = "pipeline"
  <2>1. Alone
    BY <1>5 DEF Alone
  <2>2. NewestIsPlain
    BY <2>1 DEF TableInv, SoleInv, PersistFused
  <2>3. rows \in Seq(Row) /\ Len(rows) \in 1..Len(rows)
    BY <1>2 DEF TableInv, FusionInv, TypeOK
  <2>4. rows[Len(rows)] \in Row /\ rows # << >>
    BY <2>3
  <2>5. rows[Len(rows)].source \in {"pipeline", "fused"}
    BY <2>4 DEF Row
  <2>6. QED
    BY <2>2, <2>4, <2>5 DEF NewestIsPlain, Latest, Table!Newest
<1>6. QED
  BY <1>2, <1>4, <1>5 DEF Table!Refine

\* A failed delivery warns on the row it loaded, or on the newest.
LEMMA FailureIsTableStep ==
  ASSUME TableInv, NEW d \in Deliveries, Skip(d) \/ Diverge(d) \/ SidecarError(d)
  PROVE  [Table!Next]_rows
<1>1. /\ prior[d] \in 0..Len(rows) /\ known[d] \in SUBSET Warnings
      /\ {"icp_skipped", "icp_alignment_failed", "fusion_failed"} \subseteq Warnings /\ FusionInv
  BY DEF TableInv, FusionInv, PriorInv, TypeOK, Warnings
<1>2. ASSUME prior[d] # 0, ~(\E a, b \in Deliveries : a # b)
      PROVE  rows[prior[d]].warnings \subseteq known[d]
  <2>1. Alone
    BY <1>2 DEF Alone
  <2>2. QED
    BY <1>2, <2>1 DEF TableInv, Held, Skip, Diverge, SidecarError
<1>3. CASE Skip(d) /\ prior[d] = 0 /\ rows # << >>
  <2>1. Len(rows) \in 0..Len(rows) /\ Latest.warnings \in SUBSET Warnings
    BY <1>1, <1>3, LatestWarnings DEF FusionInv
  <2>2. AppendFailureWarning(Len(rows), Latest.warnings, "icp_skipped")
    BY <1>3 DEF Skip
  <2>3. rows[Len(rows)].warnings \subseteq Latest.warnings
    BY DEF Latest
  <2>4. QED
    BY <1>1, <2>1, <2>2, <2>3, WarningIsTableStep
<1>4. CASE ~(Skip(d) /\ prior[d] = 0 /\ rows # << >>)
  <2>1. PICK message \in Warnings : AppendFailureWarning(prior[d], known[d], message)
    BY <1>1, <1>4 DEF Skip, Diverge, SidecarError
  <2>2. QED
    BY <1>1, <1>2, <2>1, WarningIsTableStep
<1>5. QED
  BY <1>3, <1>4

LEMMA RescueIsTableStep ==
  ASSUME TableInv, NEW d \in Deliveries, Rescue(d)
  PROVE  [Table!Next]_rows
<1>1. CASE LastAttempt(d)
  <2> DEFINE have == IF rows = << >> THEN {} ELSE Latest.warnings
  <2>1. /\ Len(rows) \in 0..Len(rows) /\ have \in SUBSET Warnings
        /\ "fusion_job_exhausted" \in Warnings /\ FusionInv
    BY LatestWarnings DEF TableInv, FusionInv, Warnings
  <2>2. AppendFailureWarning(Len(rows), have, "fusion_job_exhausted")
    BY <1>1 DEF Rescue
  <2>3. Len(rows) # 0 => rows[Len(rows)].warnings \subseteq have
    BY DEF Latest
  <2> HIDE DEF have
  <2>4. QED
    BY <2>1, <2>2, <2>3, WarningIsTableStep
<1>2. CASE ~LastAttempt(d)
  BY <1>2 DEF Rescue
<1>3. QED
  BY <1>1, <1>2

LEMMA NextIsTableStep == TableInv /\ [Next]_vars => [Table!Next]_rows
<1> SUFFICES ASSUME TableInv, [Next]_vars PROVE [Table!Next]_rows
  OBVIOUS
<1>1. ASSUME NEW d \in Deliveries, DeliveryStep(d)
      PROVE  [Table!Next]_rows
  <2>1. CASE PersistFused(d)
    BY <2>1, RefinementIsTableStep DEF Table!Next
  <2>2. CASE Perform(d) \/ LoadPrior(d) \/ Announce(d) \/ EnqueueProjection(d)
             \/ UnexpectedError(d) \/ RetryOrGiveUp(d)
    BY <2>2 DEF Perform, LoadPrior, Announce, EnqueueProjection, UnexpectedError, RetryOrGiveUp
  <2>3. QED
    BY <1>1, <2>1, <2>2, FailureIsTableStep, RescueIsTableStep DEF DeliveryStep
<1>2. CASE PipelineCommits
  BY <1>2, CommitIsTableStep DEF TableInv, Table!Next
<1>3. ASSUME NEW d \in Deliveries, Enqueue(d) \/ Release(d) \/ Kill(d)
      PROVE  [Table!Next]_rows
  BY <1>3 DEF Enqueue, Release, Kill
<1>4. CASE UNCHANGED vars
  BY <1>4 DEF vars
<1>5. QED
  BY <1>1, <1>2, <1>3, <1>4 DEF Next, Environment

\* For any deliveries the table only grows: each step adds a row, by a refinement or by
\* the pipeline, or warns on one, and with a single delivery no warning is lost, whatever
\* was held across a sidecar call (fusion_orchestrator.rb:31-37, 46-94).
THEOREM TableImplemented == Spec => ImplementsTable
<1>1. Init => TableInv
  <2>1. Init => FusionInv
    BY InitInv
  <2>2. Init => SoleInv
    BY DEF Init, SoleInv, FusedOnce, OwnRows, TraceInv, NewestIsPlain, Ended
  <2>3. Init => Held
    BY DEF Init, Held
  <2>4. QED
    BY <2>1, <2>2, <2>3 DEF TableInv
<1>2. Init => Table!Init
  BY DEF Init, Table!Init
<1>3. QED
  BY <1>1, <1>2, TableInductive, NextIsTableStep, PTL DEF Spec, ImplementsTable, Table!Spec
=============================================================================
