------------------------------ MODULE PlaneFit ------------------------------
(***************************************************************************)
(* POST /pipeline/fit-planes of the geometry sidecar: planes are peeled    *)
(* off the cloud one at a time, merged while two of them nearly coincide,  *)
(* and turned into the facets of a roof model, or into one facet each      *)
(* where the cloud is sparse.  RANSAC samples at random: a peel takes any  *)
(* plane the residual cloud supports.  /pipeline/fallback-measurement      *)
(* makes one facet of the outline.                                         *)
(***************************************************************************)
EXTENDS RoofModel, SequencesExt

CONSTANTS
  Clouds,    \* stored arrays: their returns, and whether they are sparse
  Outlines   \* refined outlines: intervals of places, {} a degenerate one

ASSUME FitAssumption ==
  /\ \A c \in Clouds :
       /\ c.returns \in SUBSET [x: Int, z: Int] /\ IsFiniteSet(c.returns)
       /\ c.sparse \in BOOLEAN
  /\ \A o \in Outlines : o = {} \/ \E a, b \in o : a \in Int /\ b \in Int /\ o = a..b

VARIABLE fit   \* the local state of one call

MinReturns == 3   \* strips a plane must pass through to be sampled

Slopes == {-3, 0, 3}   \* 0.6 m per metre, or level

FitIdle ==
  [step |-> "idle", cloud |-> {}, sparse |-> FALSE, outline |-> {}, residual |-> {},
   planes |-> <<>>, facets |-> {}, answer |-> "none"]

FitInit == fit = FitIdle
FitAnswer(answer) == fit' = [fit EXCEPT !.step = "done", !.answer = answer]

StartFit ==
  /\ fit.step = "idle"
  /\ \E c \in Clouds, o \in Outlines :
       fit' = [FitIdle EXCEPT !.step = "peel", !.cloud = c.returns, !.sparse = c.sparse,
                              !.outline = o, !.residual = c.returns]

\* The reference does not resolve, or what it names is no array of points.
RefuseFit == fit.step = "idle" /\ FitAnswer("invalid")

\* What three returns may span: a roof plane with all its inliers, or a wall.
Through(r, slope) == {q \in fit.residual : q.z - slope * q.x = r.z - slope * r.x}
RoofPlanes ==
  {[slope |-> s, moment |-> (r.z - s * r.x) * Cardinality(Through(r, s)),
    inliers |-> Through(r, s),
    ratio |-> (100 * Cardinality(Through(r, s))) \div Cardinality(fit.residual)] :
     s \in Slopes, r \in fit.residual}
Sampled == {p \in RoofPlanes : Weight(p) >= MinReturns}
WallSampled ==
  \E r \in fit.residual : Cardinality({q \in fit.residual : q.x = r.x}) >= MinReturns
Acceptable(p) == p.ratio >= 8

\* Faulty variant: the inliers stay in the residual cloud.
PeelPlaneKept ==
  /\ fit.step = "peel"
  /\ Len(fit.planes) < 3
  /\ \E p \in Sampled : Acceptable(p) /\ fit' = [fit EXCEPT !.planes = Append(@, p)]

PeelPlane ==
  /\ fit.step = "peel"
  /\ \E p \in Sampled :
       /\ Acceptable(p)
       /\ fit' = [fit EXCEPT !.planes = Append(@, p), !.residual = @ \ p.inliers]

\* Too few returns are left, or the plane found is no roof plane.
StopPeeling ==
  /\ fit.step = "peel"
  /\ WallSampled \/ \A p \in Sampled : ~Acceptable(p)
  /\ fit' = [fit EXCEPT !.step = IF fit.planes = <<>> THEN "model" ELSE "merge"]

\* Nearly parallel, and one plane less than 0.3 m from the other's centroid; along
\* the normal that is 1.2 height steps, 1.4 of them upright on a slope.
MergeReach(slope) == IF slope = 0 THEN 6 ELSE 7
ShouldMerge(p, q) ==
  /\ p.slope = q.slope
  /\ 5 * Abs(p.moment * Weight(q) - q.moment * Weight(p))
       < MergeReach(p.slope) * Weight(p) * Weight(q)

MergeTwo(p, q) ==
  [slope |-> p.slope, moment |-> p.moment + q.moment, inliers |-> p.inliers \cup q.inliers,
   ratio |-> (p.ratio * Weight(p) + q.ratio * Weight(q)) \div (Weight(p) + Weight(q))]

Mergeable(planes) ==
  {p \in (DOMAIN planes) \X (DOMAIN planes) :
     p[1] < p[2] /\ ShouldMerge(planes[p[1]], planes[p[2]])}
First(pairs) ==
  CHOOSE p \in pairs : \A q \in pairs : p[1] < q[1] \/ (p[1] = q[1] /\ p[2] <= q[2])
Merged(planes, pair) ==
  RemoveAt([planes EXCEPT ![pair[1]] = MergeTwo(planes[pair[1]], planes[pair[2]])], pair[2])

\* The pass starts again after every merge, until none is possible.
Merge ==
  /\ fit.step = "merge"
  /\ IF Mergeable(fit.planes) = {} THEN fit' = [fit EXCEPT !.step = "model"]
     ELSE fit' = [fit EXCEPT !.planes = Merged(@, First(Mergeable(@)))]

\* A sparse cloud needs no outline: each plane is a facet, the junk dropped.
SparseFacets ==
  {[index |-> i, cell |-> Hull(Places(fit.planes[i].inliers))] :
     i \in {k \in DOMAIN fit.planes : 3 * fit.planes[k].ratio >= 200}}
ModelFacets ==
  {[index |-> f.candidate.index, cell |-> f.cell] :
     f \in Facets(fit.planes, fit.cloud, fit.outline)}

\* A zero-facet answer passes only for a sparse cloud.
Measure ==
  /\ fit.step = "model"
  /\ \/ fit.sparse
        /\ fit' = [fit EXCEPT !.step = "done", !.facets = SparseFacets, !.answer = "sparse"]
     \/ ~fit.sparse /\ fit.planes # <<>> /\ fit.outline = {} /\ FitAnswer("invalid")
     \/ ~fit.sparse /\ ModelFacets = {} /\ (fit.planes # <<>> => fit.outline # {})
        /\ FitAnswer("no_planes_found")
     \/ ~fit.sparse /\ ModelFacets # {}
        /\ fit' = [fit EXCEPT !.step = "done", !.facets = ModelFacets, !.answer = "measured"]

\* Without LiDAR the outline is the one facet; a degenerate one is refused.
FallBack ==
  /\ fit.step = "idle"
  /\ \E o \in Outlines :
       fit' = IF o = {} THEN [FitIdle EXCEPT !.step = "done", !.answer = "invalid"]
              ELSE [FitIdle EXCEPT !.step = "done", !.outline = o, !.answer = "fallback",
                                   !.facets = {[index |-> 0, cell |-> o]}]

FitArrives == StartFit \/ RefuseFit \/ FallBack
FitStep == PeelPlane \/ StopPeeling \/ Merge \/ Measure
FitLoops == fit.step \in {"peel", "merge"}

\* Every return of the cloud is left over or belongs to exactly one plane, through every
\* peel and every merge, and no two planes of an answer could still be merged: else an
\* area is counted twice, or one roof plane is answered as two.
PlanesPartition ==
  LET planes == fit.planes IN
  /\ \A i, j \in DOMAIN planes : i # j => planes[i].inliers \cap planes[j].inliers = {}
  /\ \A i \in DOMAIN planes : planes[i].inliers \cap fit.residual = {}
  /\ fit.cloud = fit.residual \cup UNION {planes[i].inliers : i \in DOMAIN planes}
  /\ fit.step = "done" => Mergeable(planes) = {}

\* Each of two candidates lies on its own side of their seam.
Opposite(c, d) == AnchorSide(c, d) # 0 /\ AnchorSide(c, d) = AnchorSide(d, c)

\* No facet reaches beyond the outline, or there is an area that is not the roof's.
FacetsFit ==
  fit.answer \in {"measured", "fallback"} => \A f \in fit.facets : f.cell \subseteq fit.outline

\* Two facets that meet at a seam share nothing but the seam.
SeamsDivide ==
  fit.answer = "measured" =>
    \A f, g \in Facets(fit.planes, fit.cloud, fit.outline) :
      LET c == f.candidate
          d == g.candidate
      IN  ShouldPartition(c, d) /\ Opposite(c, d) =>
            \A x \in f.cell \cap g.cell : Over(c.plane, d.plane, 2 * x) = 0

\* A roof is divided: its facets lie inside the outline, and no area on either side of a
\* seam is counted for both planes.  (Facets without a seam between them may overlap,
\* see the README.)
RoofIsDivided == FacetsFit /\ SeamsDivide

\* All of a candidate's support is on its own side of the seams it shares.
KeepsItsSides(c, candidates) ==
  \A d \in candidates : ShouldPartition(c, d) =>
    \A x \in c.support : AnchorSide(c, d) * Over(c.plane, d.plane, 2 * x) >= 0

\* Parting the planes takes nothing from one that reaches across no seam: its whole
\* support is in its own facet, or a slope with returns on it is missing or too small.
\* (Where a plane is merged from returns it no longer explains, or lies on both sides of
\* a seam, the code may lose some of it, see the README.)
SupportsKept ==
  fit.answer = "measured" =>
    LET candidates == RoofCandidates(fit.planes, fit.outline) IN
    \A c \in candidates :
      KeepsItsSides(c, candidates) /\ (\A r \in c.returns : Explains(c.plane, r)) =>
        \E f \in fit.facets : f.index = c.index /\ c.support \subseteq f.cell
=============================================================================
