----------------------------- MODULE RoofModel -----------------------------
(***************************************************************************)
(* build_roof_model of the sidecar, on a cross-section of a roof.  A place *)
(* is a strip of the plan, 1.25 metres wide and five deep, a polygon a set *)
(* of places, and a return a record of a place and a height in steps of    *)
(* 0.25 metres that stands for the points of a strip.  A plane is the      *)
(* line z = slope * x + offset through its returns; the offset is kept     *)
(* exactly, as the sum of its returns' offsets (moment) over their number. *)
(* A place lies on the side of a seam that its centre lies on.             *)
(***************************************************************************)
EXTENDS Integers, Sequences, FiniteSets, FiniteSetsExt

Weight(p) == Cardinality(p.inliers)
Abs(n) == IF n < 0 THEN -n ELSE n
Sign(n) == IF n < 0 THEN -1 ELSE IF n > 0 THEN 1 ELSE 0
Places(returns) == {r.x : r \in returns}
Hull(S) == IF S = {} THEN {} ELSE Min(S)..Max(S)

\* Regions of places whose buffered points touch across fewer than k missing places.
Regions(S, k) ==
  {{y \in S : \A z \in Min({x, y})..(Max({x, y}) - k + 1) : z..(z + k - 1) \cap S # {}} : x \in S}
\* The connected part that _largest_polygon keeps.
Largest(S) ==
  IF S = {} THEN {}
  ELSE CHOOSE R \in Regions(S, 1) : \A Q \in Regions(S, 1) : Cardinality(Q) <= Cardinality(R)

Apart(S, T) == Min({Abs(x - y) : x \in S, y \in T})

\* Twice z_p - z_q at the place h / 2, times both weights: no division is needed.
Over(p, q, h) ==
  (p.slope - q.slope) * h * Weight(p) * Weight(q)
    + 2 * (p.moment * Weight(q) - q.moment * Weight(p))
\* |z_p - z_q| at h / 2 is at most n height steps.
Within(p, q, h, n) == Abs(Over(p, q, h)) <= 2 * n * Weight(p) * Weight(q)

\* The plane passes within 0.45 m of the return.
Explains(p, r) ==
  5 * Abs((r.z - p.slope * r.x) * Weight(p) - p.moment) <= 9 * Weight(p)

-----------------------------------------------------------------------------
(* Candidates: the connected supports of each plane, clipped to the outline. *)

MinFacetPlaces == 2    \* at least 12 square metres

\* The points of one strip are enough to make a region of its own.
Supports(returns) == Regions(Places(returns), 1)

\* 0.6 * inlier ratio + 0.4 * density score >= 0.5, where the points are dense.
Confident(p) == 6 * p.ratio >= 100

Candidate(planes, i, region, outline) ==
  LET support == Largest(region \cap outline)
  IN  [index |-> i, plane |-> planes[i], support |-> support,
       returns |-> {r \in planes[i].inliers : r.x \in support}]

RoofCandidates(planes, outline) ==
  {c \in UNION {{Candidate(planes, i, region, outline) :
                   region \in Supports(planes[i].inliers)} : i \in DOMAIN planes} :
     Cardinality(c.support) >= MinFacetPlaces /\ Confident(c.plane)}

-----------------------------------------------------------------------------
(* Which candidates share a roof feature, and who owns what of it. *)

\* The planes are more than 1 m apart where the supports are nearest.
GapIsWide(a, b) ==
  LET x == Min({v \in a.support : \E y \in b.support : Abs(v - y) = Apart(a.support, b.support)})
      y == Min({w \in b.support : Abs(x - w) = Apart(a.support, b.support)})
  IN  ~Within(a.plane, b.plane, x + y, 4)

Heights(c) == {r.z : r \in c.returns}
HeightsOverlap(a, b) ==
  Max({Min(Heights(a)), Min(Heights(b))}) <= Min({Max(Heights(a)), Max(Heights(b))})

\* The planes meet within the region, give or take 0.25 m.
SeamCrosses(a, b, region) ==
  LET probes == {2 * Min(region) - 1, Min(region) + Max(region), 2 * Max(region) + 1}
      tolerance == 2 * Weight(a.plane) * Weight(b.plane)
  IN  /\ \E h \in probes : Over(a.plane, b.plane, h) <= tolerance
      /\ \E h \in probes : Over(a.plane, b.plane, h) >= -tolerance

ShouldPartition(a, b) ==
  /\ a.index # b.index
  /\ Apart(a.support, b.support) <= 1
  /\ a.plane.slope # b.plane.slope
  /\ ~(GapIsWide(a, b) /\ ~HeightsOverlap(a, b))
  /\ SeamCrosses(a, b, Hull(a.support \cup b.support))

\* The supports, or the larger region that the returns near the planes show.
MassEnvelope(group, cloud, outline) ==
  LET coverage == UNION {c.support : c \in group}
      evidence == {r \in cloud : r.x \in outline /\ \E c \in group : Explains(c.plane, r)}
      attached == {R \in Regions(Places(evidence), 2) : Apart(R, coverage) <= 2}
      mass == Largest(Hull(UNION attached) \cap outline)
  IN  IF \/ Cardinality(mass) <= Cardinality(coverage)
         \/ 4 * Cardinality(mass) > 7 * Cardinality(Hull(coverage))
      THEN coverage ELSE mass

\* The sign of z_a - z_b at the mean place of a's returns.
AnchorSide(a, b) ==
  Sign((a.plane.slope - b.plane.slope) * MapThenSumSet(LAMBDA r : r.x, a.returns)
          * Weight(a.plane) * Weight(b.plane)
        + Cardinality(a.returns)
            * (a.plane.moment * Weight(b.plane) - b.plane.moment * Weight(a.plane)))

\* Faulty variant: the upper plane is kept, on whichever side the points lie.
KeptSideUpper(a, b, region) == {x \in region : Over(a.plane, b.plane, 2 * x) >= 0}

\* Faulty variant: the seam is taken as widely as SeamCrosses takes it.
KeptSideLoose(a, b, region) ==
  {x \in region : AnchorSide(a, b) * Over(a.plane, b.plane, 2 * x)
                    >= -2 * Weight(a.plane) * Weight(b.plane)}

\* The places where a keeps the side of the seam that its own returns are on: all of
\* them where the returns are on neither.
KeptSide(a, b, region) ==
  {x \in region : AnchorSide(a, b) * Over(a.plane, b.plane, 2 * x) >= 0}

Cell(c, candidates, cloud, outline) ==
  LET others == {d \in candidates : ShouldPartition(c, d)}
      coverage == MassEnvelope({c} \cup others, cloud, outline)
      kept == Largest({x \in coverage : \A d \in others : x \in KeptSide(c, d, coverage)})
  IN  Largest(kept \cap outline)

Facets(planes, cloud, outline) ==
  LET candidates == RoofCandidates(planes, outline)
  IN  {f \in {[candidate |-> c, cell |-> Cell(c, candidates, cloud, outline)] : c \in candidates} :
         Cardinality(f.cell) >= MinFacetPlaces /\ f.cell \cap f.candidate.support # {}}
=============================================================================
