---------------------------- MODULE SupportProofs ----------------------------
(***************************************************************************)
(* Parting the planes of a roof takes no support from a plane that reaches *)
(* across no seam.  In a cross-section this is a matter of intervals: what *)
(* a cell is cut from is one, and so is what each seam leaves of it, so    *)
(* that keeping the largest connected part keeps everything.               *)
(***************************************************************************)
EXTENDS GeometryProofs

\* Places without a gap.
Connected(S) ==
  S \in SUBSET Int /\ \A x, y \in S, z \in Int : x <= z /\ z <= y => z \in S

LEMMA Between ==
  ASSUME NEW S, Connected(S), NEW x \in S, NEW y \in S, NEW z \in Int, x <= z, z <= y
  PROVE  z \in S
BY DEF Connected

LEMMA EndsOfTwo ==
  ASSUME NEW x \in Int, NEW y \in Int
  PROVE  Min({x, y}) = (IF x <= y THEN x ELSE y) /\ Max({x, y}) = (IF x <= y THEN y ELSE x)
<1>1. CASE x <= y
  <2>1. {x, y} \in SUBSET (x..y) /\ {x, y} # {}
    BY <1>1
  <2> DEFINE T == {x, y}
  <2>2. Min(T) \in T /\ Max(T) \in T /\ \A v \in T : Min(T) <= v /\ v <= Max(T)
    BY <2>1, Ends
  <2>3. QED
    BY <1>1, <2>2
<1>2. CASE ~(x <= y)
  <2>1. {x, y} \in SUBSET (y..x) /\ {x, y} # {}
    BY <1>2
  <2> DEFINE T == {x, y}
  <2>2. Min(T) \in T /\ Max(T) \in T /\ \A v \in T : Min(T) <= v /\ v <= Max(T)
    BY <2>1, Ends
  <2>3. QED
    BY <1>2, <2>2
<1>3. QED
  BY <1>1, <1>2

-----------------------------------------------------------------------------
(* Regions.                                                                 *)

\* The region of a place: what can be reached from it without leaving S.
LEMMA RegionOf ==
  ASSUME NEW S \in SUBSET Int, NEW x \in S, NEW y \in S
  PROVE  (\A z \in Min({x, y})..(Max({x, y}) - 1 + 1) : z..(z + 1 - 1) \cap S # {})
           <=> \A z \in Int : (x <= z /\ z <= y) \/ (y <= z /\ z <= x) => z \in S
<1>0. x \in Int /\ y \in Int
  OBVIOUS
<1>1. \A z \in Int : z..(z + 1 - 1) \cap S # {} <=> z \in S
  <2> SUFFICES ASSUME NEW z \in Int PROVE z..(z + 1 - 1) \cap S # {} <=> z \in S
    OBVIOUS
  <2>1. z..(z + 1 - 1) = {z}
    OBVIOUS
  <2>2. QED
    BY <2>1
<1> DEFINE between == Min({x, y})..(Max({x, y}) - 1 + 1)
           reached(z) == z..(z + 1 - 1) \cap S # {}
<1>2. \A z \in Int : z \in between <=> (x <= z /\ z <= y) \/ (y <= z /\ z <= x)
  <2> DEFINE lo == Min({x, y})
             hi == Max({x, y})
  <2>1. lo = (IF x <= y THEN x ELSE y) /\ hi = (IF x <= y THEN y ELSE x)
    BY <1>0, EndsOfTwo
  <2>2. between = lo..(hi - 1 + 1)
    OBVIOUS
  <2> HIDE DEF lo, hi, between
  <2>3. QED
    BY <1>0, <2>1, <2>2
<1>3. \A z \in between : z \in Int
  OBVIOUS
<1>4. \A z \in Int : reached(z) <=> z \in S
  BY <1>1
<1> HIDE DEF between, reached
<1>5. (\A z \in between : reached(z))
        <=> \A z \in Int : (x <= z /\ z <= y) \/ (y <= z /\ z <= x) => z \in S
  <2>1. ASSUME \A z \in between : reached(z),
               NEW z \in Int, (x <= z /\ z <= y) \/ (y <= z /\ z <= x)
        PROVE  z \in S
    BY <1>2, <1>4, <2>1
  <2>2. ASSUME \A z \in Int : (x <= z /\ z <= y) \/ (y <= z /\ z <= x) => z \in S,
               NEW z \in between
        PROVE  reached(z)
    BY <1>2, <1>3, <1>4, <2>2
  <2>3. QED
    BY <2>1, <2>2
<1>6. QED
  BY <1>5 DEF between, reached

LEMMA RegionIsConnected ==
  ASSUME NEW S \in SUBSET Int, NEW R \in Regions(S, 1)
  PROVE  Connected(R) /\ R \subseteq S
<1>1. PICK x \in S :
        R = {y \in S : \A z \in Min({x, y})..(Max({x, y}) - 1 + 1) : z..(z + 1 - 1) \cap S # {}}
  BY DEF Regions
<1>2. \A y : y \in R <=>
        y \in S /\ \A z \in Int : (x <= z /\ z <= y) \/ (y <= z /\ z <= x) => z \in S
  BY <1>1, RegionOf
<1>3. R \subseteq S /\ x \in Int
  BY <1>2
<1>4. ASSUME NEW u \in R, NEW w \in R, NEW z \in Int, u <= z, z <= w
      PROVE  z \in R
  <2>0. u \in Int /\ w \in Int
    BY <1>3
  <2>1. ASSUME NEW v \in Int, (x <= v /\ v <= z) \/ (z <= v /\ v <= x)
        PROVE  v \in S
    <3>1. CASE x <= v /\ v <= z
      <4>1. x <= v /\ v <= w
        BY <1>3, <1>4, <2>0, <3>1
      <4>2. QED
        BY <1>2, <4>1
    <3>2. CASE z <= v /\ v <= x
      <4>1. u <= v /\ v <= x
        BY <1>3, <1>4, <2>0, <3>2
      <4>2. QED
        BY <1>2, <4>1
    <3>3. QED
      BY <2>1, <3>1, <3>2
  <2>2. z \in S
    <3>1. (x <= z /\ z <= z) \/ (z <= z /\ z <= x)
      BY <1>3
    <3>2. QED
      BY <2>1, <3>1
  <2>3. QED
    BY <1>2, <2>1, <2>2
<1>5. QED
  BY <1>3, <1>4 DEF Connected

\* What is connected is kept whole.
LEMMA LargestOfConnected ==
  ASSUME NEW S, Connected(S), IsFiniteSet(S)
  PROVE  Largest(S) = S
<1>1. CASE S = {}
  BY <1>1 DEF Largest
<1>2. CASE S # {}
  <2>1. S \in SUBSET Int
    BY DEF Connected
  <2>2. ASSUME NEW x \in S
        PROVE  {y \in S : \A z \in Min({x, y})..(Max({x, y}) - 1 + 1) :
                            z..(z + 1 - 1) \cap S # {}} = S
    <3>1. \A y \in S, z \in Int : (x <= z /\ z <= y) \/ (y <= z /\ z <= x) => z \in S
      BY DEF Connected
    <3>2. QED
      BY <2>1, <3>1, RegionOf
  <2>3. Regions(S, 1) = {S}
    <3>1. Regions(S, 1) =
            {{y \in S : \A z \in Min({x, y})..(Max({x, y}) - 1 + 1) :
                          z..(z + 1 - 1) \cap S # {}} : x \in S}
      BY DEF Regions
    <3>2. QED
      BY <1>2, <2>2, <3>1
  <2>4. Cardinality(S) <= Cardinality(S)
    BY FS_CardinalityType
  <2>5. Largest(S) = CHOOSE R \in {S} : \A Q \in {S} : Cardinality(Q) <= Cardinality(R)
    BY <1>2, <2>3 DEF Largest
  <2>6. QED
    BY <2>4, <2>5
<1>3. QED
  BY <1>1, <1>2

-----------------------------------------------------------------------------
(* Supports.                                                                *)

\* A candidate's support is one run of places, each with a return of its plane.
LEMMA SupportIsConnected ==
  ASSUME NEW planes, PlanesFitted(planes), NEW o, IsOutline(o),
         \A i \in DOMAIN planes : planes[i].inliers \in SUBSET [x: Int, z: Int],
         NEW c \in RoofCandidates(planes, o)
  PROVE  /\ Connected(c.support) /\ c.support \subseteq o /\ c.support # {}
         /\ Cardinality(c.support) >= MinFacetPlaces
         /\ \E i \in DOMAIN planes : c.returns \subseteq planes[i].inliers
         /\ \A x \in c.support : \E r \in c.returns : r.x = x
<1>1. PICK i \in DOMAIN planes :
        \E region \in Supports(planes[i].inliers) : c = Candidate(planes, i, region, o)
  BY DEF RoofCandidates
<1>2. PICK region \in Supports(planes[i].inliers) : c = Candidate(planes, i, region, o)
  BY <1>1
<1> DEFINE support == Largest(region \cap o)
           returns == {r \in planes[i].inliers : r.x \in support}
<1>3. c.support = support /\ c.returns = returns
  <2>1. Candidate(planes, i, region, o) =
          [index |-> i, plane |-> planes[i], support |-> support, returns |-> returns]
    BY DEF Candidate
  <2> HIDE DEF support, returns
  <2>2. QED
    BY <1>2, <2>1
<1>4. Places(planes[i].inliers) \in SUBSET Int
  <2>1. planes[i].inliers \in SUBSET [x: Int, z: Int]
    OBVIOUS
  <2>2. QED
    BY <2>1 DEF Places
<1>5. Connected(region) /\ region \subseteq Places(planes[i].inliers)
  BY <1>4, RegionIsConnected DEF Supports
<1>6. Connected(o)
  <2>1. CASE o = {}
    BY <2>1 DEF Connected
  <2>2. ASSUME NEW a \in Int, NEW b \in Int, o = a..b
        PROVE  Connected(o)
    BY <2>2 DEF Connected
  <2>3. QED
    BY <2>1, <2>2 DEF IsOutline
<1>7. Connected(region \cap o) /\ IsFiniteSet(region \cap o)
  <2>1. Connected(region \cap o)
    BY <1>5, <1>6 DEF Connected
  <2>2. QED
    BY <2>1, OutlineIsFinite, FS_Subset
<1>8. support = region \cap o
  BY <1>7, LargestOfConnected
<1>9. \A x \in support : \E r \in returns : r.x = x
  <2> SUFFICES ASSUME NEW x \in support PROVE \E r \in returns : r.x = x
    OBVIOUS
  <2>1. PICK r \in planes[i].inliers : r.x = x
    BY <1>5, <1>8 DEF Places
  <2>2. r \in returns
    BY <2>1
  <2>3. QED
    BY <2>1, <2>2
<1>10. returns \subseteq planes[i].inliers
  OBVIOUS
<1> HIDE DEF support, returns
<1>11. c.support # {}
  BY CandidatesWellFormed DEF WellFormed
<1>12. Cardinality(c.support) >= MinFacetPlaces
  BY DEF RoofCandidates
<1>13. QED
  BY <1>3, <1>7, <1>8, <1>9, <1>10, <1>11, <1>12

\* Two runs that touch are one.
LEMMA TouchingIsConnected ==
  ASSUME NEW S, NEW T, Connected(S), Connected(T), S # {}, T # {}, Apart(S, T) <= 1
  PROVE  Connected(S \cup T)
<1>1. S \in SUBSET Int /\ T \in SUBSET Int
  BY DEF Connected
<1>2. PICK p \in S, q \in T : Abs(p - q) <= 1
  BY <1>1, ApartIsReached
<1>3. p \in Int /\ q \in Int /\ p - q <= 1 /\ q - p <= 1
  BY <1>1, <1>2 DEF Abs
<1>4. ASSUME NEW x \in S \cup T, NEW y \in S \cup T, NEW z \in Int, x <= z, z <= y
      PROVE  z \in S \cup T
  <2>0. x \in Int /\ y \in Int
    BY <1>1
  <2>1. CASE (x \in S /\ y \in S) \/ (x \in T /\ y \in T)
    BY <1>4, <2>1 DEF Connected
  <2>2. CASE x \in S /\ y \in T
    <3>1. CASE z <= p
      BY <1>4, <2>2, <3>1, Between
    <3>2. CASE q <= z
      BY <1>4, <2>2, <3>2, Between
    <3>3. QED
      BY <1>3, <3>1, <3>2
  <2>3. CASE x \in T /\ y \in S
    <3>1. CASE z <= q
      BY <1>4, <2>3, <3>1, Between
    <3>2. CASE p <= z
      BY <1>4, <2>3, <3>2, Between
    <3>3. QED
      BY <1>3, <3>1, <3>2
  <2>4. QED
    BY <2>1, <2>2, <2>3
<1>5. QED
  BY <1>1, <1>4 DEF Connected

\* A group around c: candidates whose supports touch that of c.
Around(c, group) ==
  /\ c \in group
  /\ \A d \in group : /\ Connected(d.support) /\ d.support # {}
                      /\ (d = c \/ Apart(c.support, d.support) <= 1)

LEMMA CoverageIsConnected ==
  ASSUME NEW c, NEW group, Around(c, group)
  PROVE  Connected(UNION {d.support : d \in group})
<1> DEFINE coverage == UNION {d.support : d \in group}
<1>1. coverage \in SUBSET Int /\ c.support # {} /\ c.support \in SUBSET Int
  BY DEF Around, Connected
<1>2. PICK q \in c.support : q \in Int
  BY <1>1
<1>3. \A d \in group : Connected(c.support \cup d.support)
  BY TouchingIsConnected DEF Around
<1>4. ASSUME NEW x \in coverage, NEW y \in coverage, NEW z \in Int, x <= z, z <= y
      PROVE  z \in coverage
  <2>1. PICK d \in group : x \in d.support
    OBVIOUS
  <2>2. PICK e \in group : y \in e.support
    OBVIOUS
  <2>3. CASE z <= q
    <3>1. z \in c.support \cup d.support
      BY <1>2, <1>3, <1>4, <2>1, <2>3 DEF Connected
    <3>2. QED
      BY <3>1 DEF Around
  <2>4. CASE q <= z
    <3>1. z \in c.support \cup e.support
      BY <1>2, <1>3, <1>4, <2>2, <2>4 DEF Connected
    <3>2. QED
      BY <3>1 DEF Around
  <2>5. QED
    BY <1>2, <2>3, <2>4
<1>5. QED
  BY <1>1, <1>4 DEF Connected

-----------------------------------------------------------------------------
(* The envelope.                                                            *)

LEMMA PlaceIsInARegion ==
  ASSUME NEW S \in SUBSET Int, NEW x \in S
  PROVE  \E R \in Regions(S, 2) : x \in R
<1> DEFINE R == {y \in S : \A z \in Min({x, y})..(Max({x, y}) - 2 + 1) :
                           z..(z + 2 - 1) \cap S # {}}
<1>1. R \in Regions(S, 2)
  BY DEF Regions
<1>2. x \in Int
  OBVIOUS
<1>3. Min({x, x}) = x /\ Max({x, x}) = x
  BY <1>2, EndsOfTwo
<1>4. Min({x, x})..(Max({x, x}) - 2 + 1) = {}
  <2>1. \A n \in Int : n..(n - 2 + 1) = {}
    OBVIOUS
  <2>2. QED
    BY <1>2, <1>3, <2>1
<1>5. x \in R
  BY <1>4
<1>6. QED
  BY <1>1, <1>5

LEMMA RegionsArePart ==
  ASSUME NEW S, NEW k, NEW R \in Regions(S, k)
  PROVE  R \subseteq S
BY DEF Regions

\* The returns on a candidate's plane are a part of the building mass.
LEMMA EvidenceIsAttached ==
  ASSUME NEW P \in SUBSET Int, NEW coverage \in SUBSET Int, NEW support \in SUBSET P,
         support \subseteq coverage
  PROVE  support \subseteq UNION {R \in Regions(P, 2) : Apart(R, coverage) <= 2}
<1> SUFFICES ASSUME NEW x \in support
             PROVE  \E R \in Regions(P, 2) : x \in R /\ Apart(R, coverage) <= 2
  OBVIOUS
<1>1. x \in P /\ x \in coverage /\ x \in Int
  OBVIOUS
<1>2. PICK R \in Regions(P, 2) : x \in R
  BY <1>1, PlaceIsInARegion
<1>3. R \in SUBSET Int
  BY RegionsArePart
<1>4. Apart(R, coverage) \in Nat /\ Apart(R, coverage) <= Abs(x - x)
  BY <1>1, <1>2, <1>3, ApartIsReached
<1>5. Abs(x - x) = 0
  BY <1>1 DEF Abs
<1>6. QED
  BY <1>2, <1>4, <1>5

LEMMA HullOfMass ==
  ASSUME NEW lo \in Int, NEW hi \in Int, NEW U \in SUBSET (lo..hi), U # {}
  PROVE  LET mass == Largest(Hull(U) \cap (lo..hi))
         IN  Connected(mass) /\ U \subseteq mass
<1> DEFINE m == Min(U)
           n == Max(U)
           hull == Hull(U) \cap (lo..hi)
<1>1. m \in U /\ n \in U /\ \A x \in U : m <= x /\ x <= n
  BY Ends
<1>2. m \in Int /\ n \in Int
  <2>1. U \in SUBSET Int
    OBVIOUS
  <2> HIDE DEF m, n
  <2>2. QED
    BY <1>1, <2>1, Zenon
<1>3. hull = (m..n) \cap (lo..hi)
  BY DEF Hull
<1> HIDE DEF m, n, hull
<1>4. \A x : x \in hull <=> x \in Int /\ m <= x /\ x <= n /\ lo <= x /\ x <= hi
  BY <1>2, <1>3
<1>5. Connected(hull)
  <2>1. hull \in SUBSET Int
    BY <1>4
  <2>2. ASSUME NEW x \in hull, NEW y \in hull, NEW z \in Int, x <= z, z <= y
        PROVE  z \in hull
    <3>1. x \in Int /\ m <= x /\ lo <= x /\ y \in Int /\ y <= n /\ y <= hi
      BY <1>4
    <3>2. m <= z /\ z <= n /\ lo <= z /\ z <= hi
      BY <1>2, <2>2, <3>1
    <3>3. QED
      BY <1>4, <3>2
  <2>3. QED
    BY <2>1, <2>2 DEF Connected
<1>6. IsFiniteSet(hull)
  <2>1. hull \in SUBSET (lo..hi)
    BY <1>3
  <2>2. QED
    BY <2>1, FS_Interval, FS_Subset
<1>7. Largest(hull) = hull
  BY <1>5, <1>6, LargestOfConnected
<1>8. U \subseteq hull
  BY <1>1, <1>4
<1>9. QED
  BY <1>5, <1>7, <1>8 DEF hull

\* The envelope of a group has no gap and holds the support in its middle, whichever of
\* the two the code chooses.
LEMMA EnvelopeHolds ==
  ASSUME NEW o, IsOutline(o), NEW c, NEW group, Around(c, group),
         \A d \in group : d.support \subseteq o,
         NEW cloud \in SUBSET [x: Int, z: Int], c.returns \subseteq cloud,
         \A x \in c.support : \E r \in c.returns : r.x = x,
         \A r \in c.returns : Explains(c.plane, r)
  PROVE  LET envelope == MassEnvelope(group, cloud, o)
         IN  Connected(envelope) /\ c.support \subseteq envelope
<1> DEFINE coverage == UNION {d.support : d \in group}
           evidence == {r \in cloud : r.x \in o /\ \E d \in group : Explains(d.plane, r)}
           attached == {R \in Regions(Places(evidence), 2) : Apart(R, coverage) <= 2}
           mass == Largest(Hull(UNION attached) \cap o)
<1>1. MassEnvelope(group, cloud, o) \in {coverage, mass}
  BY DEF MassEnvelope
<1>2. Connected(coverage) /\ c.support \subseteq coverage
  BY CoverageIsConnected DEF Around
<1>3. c.support \subseteq Places(evidence)
  <2> SUFFICES ASSUME NEW x \in c.support PROVE x \in Places(evidence)
    OBVIOUS
  <2>1. PICK r \in c.returns : r.x = x
    OBVIOUS
  <2>2. r \in cloud /\ x \in o /\ Explains(c.plane, r) /\ c \in group
    BY DEF Around
  <2>3. r \in evidence
    BY <2>1, <2>2
  <2> HIDE DEF evidence
  <2>4. QED
    BY <2>1, <2>3 DEF Places
<1>4. Places(evidence) \in SUBSET Int /\ Places(evidence) \subseteq o
  <2>1. \A r \in evidence : r.x \in Int /\ r.x \in o
    OBVIOUS
  <2> HIDE DEF evidence
  <2>2. QED
    BY <2>1 DEF Places
<1>5. coverage \in SUBSET Int
  BY <1>2 DEF Connected
<1>6. c.support \subseteq UNION attached /\ c.support # {}
  <2> DEFINE P == Places(evidence)
  <2>1. P \in SUBSET Int /\ c.support \in SUBSET P
    BY <1>3, <1>4
  <2>2. c.support # {}
    BY DEF Around
  <2> HIDE DEF P, coverage
  <2>3. c.support \subseteq UNION {R \in Regions(P, 2) : Apart(R, coverage) <= 2}
    BY <1>2, <1>5, <2>1, EvidenceIsAttached
  <2>4. QED
    BY <2>2, <2>3 DEF P
<1>7. UNION attached \subseteq o /\ o # {}
  <2>1. \A R \in attached : R \subseteq Places(evidence)
    BY RegionsArePart
  <2> HIDE DEF attached, evidence
  <2>2. UNION attached \subseteq o
    BY <1>4, <2>1
  <2>3. QED
    BY <1>6, <2>2
<1>8. Connected(mass) /\ c.support \subseteq mass
  <2>1. PICK lo \in Int, hi \in Int : o = lo..hi
    BY <1>7 DEF IsOutline
  <2> DEFINE U == UNION attached
  <2>2. U \in SUBSET (lo..hi) /\ U # {}
    BY <1>6, <1>7, <2>1
  <2>3. mass = Largest(Hull(U) \cap (lo..hi))
    BY <2>1
  <2>4. c.support \subseteq U
    BY <1>6
  <2> HIDE DEF U, mass
  <2>5. Connected(mass) /\ U \subseteq mass
    BY <2>2, <2>3, HullOfMass
  <2>6. QED
    BY <2>4, <2>5
<1> HIDE DEF coverage, mass
<1>9. QED
  BY <1>1, <1>2, <1>8

-----------------------------------------------------------------------------
(* A seam leaves a run.                                                     *)

LEMMA Grows ==
  ASSUME NEW k \in Int, NEW m \in Int, NEW x \in Int, NEW y \in Int, NEW z \in Int,
         x <= z, z <= y, k * x + m >= 0, k * y + m >= 0
  PROVE  k * z + m >= 0
<1>1. CASE k >= 0
  <2>1. k * (z - x) >= 0
    BY <1>1
  <2>2. QED
    BY <2>1
<1>2. CASE k < 0
  <2>1. (-k) * (y - z) >= 0
    BY <1>2
  <2>2. QED
    BY <2>1
<1>3. QED
  BY <1>1, <1>2

\* A line that is not below zero at two places is not below it between them.
LEMMA LineKeepsItsSide ==
  ASSUME NEW p, Measured(p), NEW q, Measured(q), NEW side \in {-1, 0, 1},
         NEW x \in Int, NEW y \in Int, NEW z \in Int, x <= z, z <= y,
         side * Over(p, q, 2 * x) >= 0, side * Over(p, q, 2 * y) >= 0
  PROVE  side * Over(p, q, 2 * z) >= 0
<1> DEFINE a == (p.slope - q.slope) * Weight(p) * Weight(q)
           k == 2 * a
           m == 2 * (p.moment * Weight(q) - q.moment * Weight(p))
<1>1. a \in Int /\ k \in Int /\ m \in Int
  BY DEF Measured
<1>2. \A v \in Int : Over(p, q, 2 * v) = k * v + m
  <2> SUFFICES ASSUME NEW v \in Int PROVE Over(p, q, 2 * v) = k * v + m
    OBVIOUS
  <2>1. Over(p, q, 2 * v) = (p.slope - q.slope) * (2 * v) * Weight(p) * Weight(q) + m
    BY DEF Over
  <2>2. \A s, u, w \in Int : s * (2 * v) * u * w = (2 * (s * u * w)) * v
    OBVIOUS
  <2>3. p.slope - q.slope \in Int /\ Weight(p) \in Int /\ Weight(q) \in Int
    BY DEF Measured
  <2> HIDE DEF m
  <2>4. QED
    BY <2>1, <2>2, <2>3
<1> HIDE DEF a, k, m
<1>3. CASE side = 1
  <2>1. k * x + m >= 0 /\ k * y + m >= 0
    BY <1>1, <1>2, <1>3
  <2>2. k * z + m >= 0
    BY <1>1, <2>1, Grows
  <2>3. QED
    BY <1>1, <1>2, <1>3, <2>2
<1>4. CASE side = -1
  <2>1. (-k) * x + (-m) >= 0 /\ (-k) * y + (-m) >= 0
    BY <1>1, <1>2, <1>4
  <2>2. -k \in Int /\ -m \in Int
    BY <1>1
  <2>3. (-k) * z + (-m) >= 0
    BY <2>1, <2>2, Grows
  <2>4. QED
    BY <1>1, <1>2, <1>4, <2>3
<1>5. CASE side = 0
  <2>1. Over(p, q, 2 * z) \in Int
    BY OverTurns
  <2>2. QED
    BY <1>5, <2>1
<1>6. QED
  BY <1>3, <1>4, <1>5

LEMMA SidesLeaveARun ==
  ASSUME NEW c, Measured(c.plane), NEW others, \A d \in others : Measured(d.plane),
         NEW S, Connected(S)
  PROVE  Connected({x \in S : \A d \in others : x \in KeptSide(c, d, S)})
<1> DEFINE On(d, x) == AnchorSide(c, d) * Over(c.plane, d.plane, 2 * x) >= 0
           sided == {x \in S : \A d \in others : x \in KeptSide(c, d, S)}
<1>1. \A x : x \in sided <=> x \in S /\ \A d \in others : On(d, x)
  BY DEF KeptSide
<1>2. S \in SUBSET Int
  BY DEF Connected
<1>3. ASSUME NEW d \in others, NEW x \in Int, NEW y \in Int, NEW z \in Int, x <= z, z <= y,
             On(d, x), On(d, y)
      PROVE  On(d, z)
  BY <1>3, AnchorIsASign, LineKeepsItsSide
<1> HIDE DEF On, sided
<1>4. ASSUME NEW x \in sided, NEW y \in sided, NEW z \in Int, x <= z, z <= y
      PROVE  z \in sided
  <2>1. x \in S /\ y \in S /\ x \in Int /\ y \in Int
    BY <1>1, <1>2
  <2>2. z \in S
    BY <1>4, <2>1, Between
  <2>3. \A d \in others : On(d, z)
    BY <1>1, <1>3, <1>4, <2>1
  <2>4. QED
    BY <1>1, <2>2, <2>3
<1>5. sided \in SUBSET Int
  BY <1>1, <1>2
<1>6. Connected(sided)
  BY <1>4, <1>5 DEF Connected
<1>7. QED
  BY <1>6 DEF sided

-----------------------------------------------------------------------------
(* The cell of a candidate that reaches across no seam.                     *)

LEMMA SharersAreAround ==
  ASSUME NEW planes, PlanesFitted(planes), NEW o, IsOutline(o),
         \A i \in DOMAIN planes : planes[i].inliers \in SUBSET [x: Int, z: Int],
         NEW c \in RoofCandidates(planes, o)
  PROVE  Around(c, {c} \cup {d \in RoofCandidates(planes, o) : ShouldPartition(c, d)})
<1>1. \A d \in RoofCandidates(planes, o) : Connected(d.support) /\ d.support # {}
  BY SupportIsConnected
<1>2. \A d : ShouldPartition(c, d) => Apart(c.support, d.support) <= 1
  BY DEF ShouldPartition
<1>3. QED
  BY <1>1, <1>2 DEF Around

LEMMA CellHoldsSupport ==
  ASSUME NEW planes, PlanesFitted(planes), NEW o, IsOutline(o),
         NEW cloud \in SUBSET [x: Int, z: Int],
         \A i \in DOMAIN planes : planes[i].inliers \subseteq cloud,
         NEW c \in RoofCandidates(planes, o), KeepsItsSides(c, RoofCandidates(planes, o)),
         \A r \in c.returns : Explains(c.plane, r)
  PROVE  c.support \subseteq Cell(c, RoofCandidates(planes, o), cloud, o)
<1> DEFINE candidates == RoofCandidates(planes, o)
           others == {d \in candidates : ShouldPartition(c, d)}
           coverage == MassEnvelope({c} \cup others, cloud, o)
           sided == {x \in coverage : \A d \in others : x \in KeptSide(c, d, coverage)}
<1>0. \A i \in DOMAIN planes : planes[i].inliers \in SUBSET [x: Int, z: Int]
  OBVIOUS
<1>1. /\ c.support \subseteq o /\ c.returns \subseteq cloud
      /\ \A x \in c.support : \E r \in c.returns : r.x = x
  BY <1>0, SupportIsConnected
<1>2. \A d \in candidates : d.support \in SUBSET o /\ Measured(d.plane)
  BY CandidatesWellFormed DEF WellFormed
<1>3. Connected(coverage) /\ c.support \subseteq coverage /\ coverage \in SUBSET o
  <2> DEFINE group == {c} \cup others
  <2>1. Around(c, group)
    BY <1>0, SharersAreAround
  <2>2. \A d \in group : d.support \subseteq o /\ d.support \in SUBSET o
    BY <1>2
  <2>3. coverage = MassEnvelope(group, cloud, o)
    OBVIOUS
  <2> HIDE DEF coverage, group
  <2>4. Connected(coverage) /\ c.support \subseteq coverage
    BY <1>1, <2>1, <2>2, <2>3, EnvelopeHolds
  <2>5. coverage \in SUBSET o
    BY <2>2, <2>3, EnvelopeIsInside
  <2>6. QED
    BY <2>4, <2>5
<1>4. Connected(sided)
  <2>1. \A d \in others : Measured(d.plane)
    BY <1>2
  <2>2. Measured(c.plane)
    BY <1>2
  <2> HIDE DEF coverage, others
  <2>3. QED
    BY <1>3, <2>1, <2>2, SidesLeaveARun
<1>5. c.support \subseteq sided
  <2>1. \A d \in others, x \in c.support :
          AnchorSide(c, d) * Over(c.plane, d.plane, 2 * x) >= 0
    BY DEF KeepsItsSides
  <2> HIDE DEF coverage, others
  <2>2. QED
    BY <1>3, <2>1 DEF KeptSide
<1>6. sided \subseteq o /\ IsFiniteSet(sided)
  <2>1. sided \in SUBSET o
    BY <1>3
  <2> HIDE DEF sided
  <2>2. QED
    BY <2>1, OutlineIsFinite, FS_Subset
<1>7. Cell(c, candidates, cloud, o) = Largest(Largest(sided) \cap o)
  BY DEF Cell
<1> HIDE DEF sided, candidates
<1>8. Largest(sided) = sided
  BY <1>4, <1>6, LargestOfConnected
<1>9. sided \cap o = sided
  BY <1>6
<1>10. Cell(c, candidates, cloud, o) = sided
  BY <1>7, <1>8, <1>9
<1>11. QED
  BY <1>5, <1>10 DEF candidates

\* Such a cell is large enough to be a facet.
LEMMA SupportIsInAFacet ==
  ASSUME NEW planes, PlanesFitted(planes), NEW o, IsOutline(o),
         NEW cloud \in SUBSET [x: Int, z: Int],
         \A i \in DOMAIN planes : planes[i].inliers \subseteq cloud,
         NEW c \in RoofCandidates(planes, o), KeepsItsSides(c, RoofCandidates(planes, o)),
         \A r \in c.returns : Explains(c.plane, r)
  PROVE  \E f \in Facets(planes, cloud, o) : f.candidate = c /\ c.support \subseteq f.cell
<1> DEFINE candidates == RoofCandidates(planes, o)
           cell == Cell(c, candidates, cloud, o)
           f == [candidate |-> c, cell |-> cell]
<1>1. c.support \subseteq cell
  BY CellHoldsSupport
<1>2. cell \in SUBSET o
  BY CellKeepsItsSide
<1>3. IsFiniteSet(cell) /\ IsFiniteSet(c.support)
  <2> HIDE DEF cell
  <2>1. QED
    BY <1>1, <1>2, OutlineIsFinite, FS_Subset
<1>4. c.support # {} /\ Cardinality(c.support) >= MinFacetPlaces
  <2>1. \A i \in DOMAIN planes : planes[i].inliers \in SUBSET [x: Int, z: Int]
    OBVIOUS
  <2>2. QED
    BY <2>1, SupportIsConnected
<1> HIDE DEF cell
<1>5. Cardinality(cell) >= MinFacetPlaces
  <2>1. /\ Cardinality(c.support) \in Int /\ Cardinality(cell) \in Int
        /\ Cardinality(c.support) <= Cardinality(cell)
    BY <1>1, <1>3, FS_Subset, FS_CardinalityType
  <2>2. QED
    BY <1>4, <2>1 DEF MinFacetPlaces
<1>6. cell \cap c.support # {}
  BY <1>1, <1>4
<1>7. f.candidate = c /\ f.cell = cell
  OBVIOUS
<1>8. f \in {[candidate |-> d, cell |-> Cell(d, candidates, cloud, o)] : d \in candidates}
  BY DEF cell
<1>9. f \in Facets(planes, cloud, o)
  <2> HIDE DEF f
  <2>1. QED
    BY <1>5, <1>6, <1>7, <1>8 DEF Facets
<1>10. QED
  BY <1>1, <1>7, <1>9

-----------------------------------------------------------------------------
(* The returns of a call.                                                   *)

CloudInv == fit.cloud \in SUBSET [x: Int, z: Int]

LEMMA CloudInductive == FitInv /\ CloudInv /\ [FitArrives \/ FitStep]_fit => CloudInv'
<1> SUFFICES ASSUME FitInv, CloudInv, [FitArrives \/ FitStep]_fit PROVE CloudInv'
  OBVIOUS
<1>1. FitIdle.cloud = {}
  BY DEF FitIdle
<1>2. CASE StartFit
  <2>1. PICK c \in Clouds, o \in Outlines :
          fit' = [FitIdle EXCEPT !.step = "peel", !.cloud = c.returns, !.sparse = c.sparse,
                                 !.outline = o, !.residual = c.returns]
    BY <1>2 DEF StartFit
  <2>2. fit'.cloud = c.returns
    BY <2>1 DEF FitIdle
  <2>3. QED
    BY <2>2, FitAssumption DEF CloudInv
<1>3. CASE FallBack
  <2>1. fit'.cloud = {}
    BY <1>3 DEF FallBack, FitIdle
  <2>2. QED
    BY <2>1 DEF CloudInv
<1>4. CASE RefuseFit \/ FitStep \/ UNCHANGED fit
  <2>1. fit'.cloud = fit.cloud
    BY <1>4 DEF FitInv, RefuseFit, FitStep, PeelPlane, StopPeeling, Merge, Measure, FitAnswer
  <2>2. QED
    BY <2>1 DEF CloudInv
<1>5. QED
  BY <1>2, <1>3, <1>4 DEF FitArrives

\* A measured roof loses nothing of a plane that reaches across no seam, however the
\* other planes of the roof lie: a slope with returns on it is never missing from the
\* report, nor smaller than where they are.
THEOREM SupportsAreKept == Spec => []SupportsKept
<1>1. Init => FitInv /\ RoofInv /\ CloudInv
  <2>1. Init => FitInv
    BY NoneDivides DEF Init, NoStage, FitInit, FitIdle, FitInv
  <2>2. Init => RoofInv
    BY NoneFitted, FS_EmptySet
       DEF Init, NoStage, FitInit, FitIdle, RoofInv, IsOutline
  <2>3. Init => CloudInv
    BY DEF Init, NoStage, FitInit, FitIdle, CloudInv
  <2>4. QED
    BY <2>1, <2>2, <2>3
<1>2. FitInv /\ RoofInv /\ CloudInv /\ [Next]_vars => (FitInv /\ RoofInv /\ CloudInv)'
  BY FitMoves, FitInductive, RoofInductive, CloudInductive
<1>3. FitInv /\ RoofInv /\ CloudInv => SupportsKept
  <2> DEFINE candidates == RoofCandidates(fit.planes, fit.outline)
  <2> SUFFICES ASSUME FitInv, RoofInv, CloudInv, fit.answer = "measured", NEW c \in candidates,
                      KeepsItsSides(c, candidates), \A r \in c.returns : Explains(c.plane, r)
               PROVE  \E f \in fit.facets : f.index = c.index /\ c.support \subseteq f.cell
    BY DEF SupportsKept
  <2>1. /\ PlanesFitted(fit.planes) /\ IsOutline(fit.outline)
        /\ fit.cloud \in SUBSET [x: Int, z: Int] /\ fit.facets = ModelFacets
    BY DEF RoofInv, CloudInv
  <2>2. \A i \in DOMAIN fit.planes : fit.planes[i].inliers \subseteq fit.cloud
    BY DEF FitInv, Divided
  <2>3. PICK f \in Facets(fit.planes, fit.cloud, fit.outline) :
          f.candidate = c /\ c.support \subseteq f.cell
    BY <2>1, <2>2, SupportIsInAFacet
  <2>4. [index |-> f.candidate.index, cell |-> f.cell] \in fit.facets
    BY <2>1 DEF ModelFacets
  <2>5. QED
    BY <2>3, <2>4
<1>4. QED
  BY <1>1, <1>2, <1>3, PTL DEF Spec
=============================================================================
