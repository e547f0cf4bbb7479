------------------------- MODULE OutlineRefinement -------------------------
(***************************************************************************)
(* POST /pipeline/refine-outline of the geometry sidecar: the footprint is *)
(* rasterised on the satellite tile, SAM2 segments the roof, and the mask  *)
(* replaces the footprint unless it strays too far from it.  A mask is a   *)
(* set of pixels of one row of the tile; SAM2 may give any.                *)
(***************************************************************************)
EXTENDS Integers, FiniteSets, FiniteSetsExt

CONSTANTS
  Priors,   \* footprints as rasterised, the empty one outside the tile
  Pixels    \* the pixels of the row

ASSUME OutlineAssumption ==
  Pixels \subseteq Int /\ IsFiniteSet(Pixels) /\ Priors \subseteq SUBSET Pixels

VARIABLE refine   \* the local state of one call

RefineIdle ==
  [step |-> "idle", prior |-> {}, mask |-> {}, outline |-> {}, warned |-> FALSE,
   answer |-> "none"]

RefineInit == refine = RefineIdle
RefineAnswer(answer) == refine' = [refine EXCEPT !.step = "done", !.answer = answer]

StartRefine ==
  /\ refine.step = "idle"
  /\ refine' = [RefineIdle EXCEPT !.step = "tile"]

\* The tile is gone or unreadable, its bounds have no width: 422.
LoadTile ==
  /\ refine.step = "tile"
  /\ \/ refine' = [refine EXCEPT !.step = "rasterise"]
     \/ RefineAnswer("invalid")

\* The prior is drawn on the tile; one that cannot be drawn is refused.
Rasterise ==
  /\ refine.step = "rasterise"
  /\ \/ \E p \in Priors : refine' = [refine EXCEPT !.step = "infer", !.prior = p]
     \/ RefineAnswer("invalid")

\* Modal answers with a mask, or the stage fails: no stub takes its place.
Infer ==
  /\ refine.step = "infer"
  /\ \/ \E mask \in SUBSET Pixels :
          refine' = [refine EXCEPT !.step = "compare", !.mask = mask]
     \/ RefineAnswer("unavailable")

\* Faulty variant: the overlap is measured against the prior alone.
StraysFromPrior(mask, prior) ==
  2 * Cardinality(mask \cap prior) < Cardinality(prior)

\* IoU below one half; two empty masks count as identical.
Strays(mask, prior) ==
  /\ mask \cup prior # {}
  /\ 2 * Cardinality(mask \cap prior) < Cardinality(mask \cup prior)

KeepPrior ==
  refine' = [refine EXCEPT !.step = "done", !.outline = refine.prior, !.warned = TRUE,
                           !.answer = "refined"]

Compare ==
  /\ refine.step = "compare"
  /\ IF Strays(refine.mask, refine.prior) \/ refine.mask = {} THEN KeepPrior
     ELSE refine' = [refine EXCEPT !.step = "vectorise"]

\* Runs of neighbouring pixels; the outline is a largest one.
Runs(mask) == {R \in (SUBSET mask) \ {{}} : R = Min(R)..Max(R)}
LargestRuns(mask) == {R \in Runs(mask) : \A Q \in Runs(mask) : Cardinality(Q) <= Cardinality(R)}

Vectorise ==
  /\ refine.step = "vectorise"
  /\ \/ \E R \in LargestRuns(refine.mask) :
          refine' = [refine EXCEPT !.step = "done", !.outline = R, !.answer = "refined"]
     \/ KeepPrior   \* no polygon can be made of the mask

RefineStep == LoadTile \/ Rasterise \/ Infer \/ Compare \/ Vectorise
RefineBusy == refine.step \notin {"idle", "done"}

\* The outline clips the planes, so it must not vanish or sprawl whatever SAM2 gives:
\* without a warning it is a piece of the mask and at most twice the footprint, with
\* one it is the footprint, also where both masks are empty and count as identical.
OutlineIsBounded ==
  refine.answer = "refined" =>
    IF refine.warned THEN refine.outline = refine.prior
    ELSE /\ refine.outline \subseteq refine.mask /\ refine.outline # {}
         /\ Cardinality(refine.outline) <= 2 * Cardinality(refine.prior)
=============================================================================
