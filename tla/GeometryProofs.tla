--------------------------- MODULE GeometryProofs ---------------------------
(***************************************************************************)
(* Theorems about what the geometry stages of Sidecar answer: which facets *)
(* a photo shows, and how the facets of a measured roof divide it.         *)
(***************************************************************************)
EXTENDS SidecarProofs

-----------------------------------------------------------------------------
(* Photo projection.                                                        *)

LEMMA PhotoMoves == [Next]_vars => [StartPhoto \/ PhotoStep]_photo
BY DEF Next, Calls, StageArrives, StageStep, vars, stageVars

\* The enumeration of a set of facet positions has every member, each once.
LEMMA Enumerated ==
  ASSUME NEW S \in SUBSET {1, 2}
  PROVE  /\ Positions(S) \in [1..Cardinality(S) -> S]
         /\ {Positions(S)[k] : k \in DOMAIN Positions(S)} = S
<1> DEFINE Ascending(s) ==
      /\ s \in [1..Cardinality(S) -> S]
      /\ \A j, k \in 1..Cardinality(S) : j < k => s[j] < s[k]
<1>1. ASSUME NEW s, Ascending(s) PROVE Ascending(Positions(S))
  BY <1>1 DEF Positions
<1> HIDE DEF Ascending
<1>2. CASE S = {}
  <2>1. Cardinality(S) = 0
    BY <1>2, FS_EmptySet
  <2>2. Ascending([k \in {} |-> k])
    BY <1>2, <2>1 DEF Ascending
  <2>3. QED
    BY <1>1, <1>2, <2>1, <2>2 DEF Ascending
<1>3. ASSUME NEW i \in {1, 2}, S = {i}
      PROVE  Positions(S) \in [1..Cardinality(S) -> S]
             /\ {Positions(S)[k] : k \in DOMAIN Positions(S)} = S
  <2>1. Cardinality(S) = 1
    BY <1>3, FS_Singleton
  <2>2. Ascending([k \in {1} |-> i])
    BY <1>3, <2>1 DEF Ascending
  <2>3. Positions(S) \in [{1} -> {i}]
    BY <1>1, <1>3, <2>1, <2>2 DEF Ascending
  <2>4. QED
    BY <1>3, <2>1, <2>3
<1>4. CASE S = {1, 2}
  <2>1. Cardinality(S) = 2
    <3>1. IsFiniteSet({1}) /\ Cardinality({1}) = 1
      BY FS_Singleton
    <3>2. S = {1} \cup {2}
      BY <1>4
    <3>3. QED
      BY <3>1, <3>2, FS_AddElement
  <2>2. Ascending([k \in {1, 2} |-> k])
    BY <1>4, <2>1 DEF Ascending
  <2>3. Ascending(Positions(S))
    BY <1>1, <2>2
  <2>4. Positions(S) \in [{1, 2} -> {1, 2}] /\ Positions(S)[1] < Positions(S)[2]
    BY <1>4, <2>1, <2>3 DEF Ascending
  <2>5. Positions(S)[1] = 1 /\ Positions(S)[2] = 2
    BY <2>4
  <2>6. QED
    BY <1>4, <2>1, <2>4, <2>5
<1>5. QED
  BY <1>2, <1>3, <1>4

\* The facets a photo shows and those it lists, as EveryFacetAccounted has them.
Shown == {photo.drawn[k] : k \in DOMAIN photo.drawn}
Accounted ==
  /\ Shown \cup photo.occluded = DOMAIN photo.facets
  /\ Shown \cap photo.occluded = {}
  /\ (\A i \in Shown : photo.facets[i].inView) => photo.labels = photo.drawn

\* Once projected the facets stay divided, and nothing is answered before both files
\* are stored.
PhotoInv ==
  /\ photo = [step |-> photo.step, registered |-> photo.registered, mesh |-> photo.mesh,
              facets |-> photo.facets, occluded |-> photo.occluded, drawn |-> photo.drawn,
              labels |-> photo.labels, stored |-> photo.stored, answer |-> photo.answer]
  /\ photo.step \in {"load", "mesh", "project"} => DOMAIN photo.facets = {1, 2}
  /\ photo.step # "done" => photo.answer = "none"
  /\ photo.step \in {"load", "mesh", "project"} => photo.stored = {}
  /\ photo.step = "store" => photo.stored \in {{}, {"composite"}}
  /\ photo.step = "store" \/ photo.answer = "drawn" => Accounted
  /\ photo.answer = "drawn" => photo.stored = {"composite", "svg"}

\* A refusal or a failure shows nothing.
LEMMA PhotoEnds ==
  ASSUME PhotoInv, NEW answer \in {"refused", "failed"}, PhotoAnswer(answer)
  PROVE  PhotoInv'
<1>1. photo' = [step |-> "done", registered |-> photo.registered, mesh |-> photo.mesh,
                facets |-> photo.facets, occluded |-> photo.occluded, drawn |-> photo.drawn,
                labels |-> photo.labels, stored |-> photo.stored, answer |-> answer]
  BY DEF PhotoInv, PhotoAnswer
<1>2. QED
  BY <1>1 DEF PhotoInv

LEMMA PhotoGoesOn ==
  ASSUME PhotoInv, photo.step \in {"load", "mesh"}, NEW step \in {"mesh", "project"},
         photo' = [photo EXCEPT !.step = step]
  PROVE  PhotoInv'
<1>1. photo' = [step |-> step, registered |-> photo.registered, mesh |-> photo.mesh,
                facets |-> photo.facets, occluded |-> photo.occluded, drawn |-> photo.drawn,
                labels |-> photo.labels, stored |-> photo.stored, answer |-> photo.answer]
  BY DEF PhotoInv
<1>2. QED
  BY <1>1 DEF PhotoInv

\* A facet is drawn or listed; the labels follow the drawn facets when each is read back.
LEMMA ProjectKeeps == PhotoInv /\ Project => PhotoInv'
<1> SUFFICES ASSUME PhotoInv, Project PROVE PhotoInv'
  OBVIOUS
<1> DEFINE drawn == {i \in {1, 2} : Drawable(photo.facets[i])}
           listed == {i \in {1, 2} : Listed(photo.facets[i])}
<1>1. photo.step = "project" /\ DOMAIN photo.facets = {1, 2} /\ photo.answer = "none"
      /\ photo.stored = {}
  BY DEF Project, PhotoInv
<1>2. photo' = [photo EXCEPT !.step = "store", !.drawn = Positions(drawn),
                             !.labels = Labels(drawn), !.occluded = listed]
  BY <1>1 DEF Project
<1>3. drawn \cup listed = {1, 2} /\ drawn \cap listed = {}
  BY DEF Drawable, Listed
<1>4. drawn \in SUBSET {1, 2}
  OBVIOUS
<1> HIDE DEF drawn, listed
<1>5. photo' = [step |-> "store", registered |-> photo.registered, mesh |-> photo.mesh,
                facets |-> photo.facets, occluded |-> listed, drawn |-> Positions(drawn),
                labels |-> Labels(drawn), stored |-> {}, answer |-> "none"]
  BY <1>1, <1>2 DEF PhotoInv
<1>6. Positions(drawn) \in [1..Cardinality(drawn) -> drawn]
      /\ {Positions(drawn)[k] : k \in DOMAIN Positions(drawn)} = drawn
  BY <1>4, Enumerated
<1>7. ASSUME \A i \in drawn : photo.facets[i].inView PROVE Labels(drawn) = Positions(drawn)
  <2>1. {i \in drawn : photo.facets[i].inView} = drawn
    BY <1>7
  <2>2. Cardinality(drawn) \in Nat
    <3>1. IsFiniteSet({1} \cup {2}) /\ {1} \cup {2} = {1, 2}
      BY FS_Singleton, FS_AddElement
    <3>2. QED
      BY <1>4, <3>1, FS_Subset, FS_CardinalityType
  <2>3. Labels(drawn) = [k \in 1..Cardinality(drawn) |->
          IF k <= Cardinality(drawn) THEN Positions(drawn)[k] ELSE 0]
    BY <2>1 DEF Labels
  <2>4. \A k \in 1..Cardinality(drawn) : k <= Cardinality(drawn)
    BY <2>2
  <2>5. Labels(drawn) = [k \in 1..Cardinality(drawn) |-> Positions(drawn)[k]]
    BY <2>3, <2>4
  <2>6. QED
    BY <1>6, <2>5
<1>8. Shown' = drawn
  BY <1>5, <1>6 DEF Shown
<1>9. Accounted'
  <2>1. photo'.occluded = listed /\ photo'.facets = photo.facets
        /\ photo'.labels = Labels(drawn) /\ photo'.drawn = Positions(drawn)
    BY <1>5
  <2>2. QED
    BY <1>1, <1>3, <1>7, <1>8, <2>1 DEF Accounted
<1>10. QED
  BY <1>5, <1>9 DEF PhotoInv

LEMMA StorePhotoKeeps == PhotoInv /\ StorePhoto => PhotoInv'
<1> SUFFICES ASSUME PhotoInv, StorePhoto PROVE PhotoInv'
  OBVIOUS
<1>1. photo.step = "store" /\ Accounted /\ photo.stored \in {{}, {"composite"}}
      /\ photo.answer = "none"
  BY DEF StorePhoto, PhotoInv
<1>2. ASSUME NEW step, NEW stored, NEW answer,
             photo' = [step |-> step, registered |-> photo.registered, mesh |-> photo.mesh,
                       facets |-> photo.facets, occluded |-> photo.occluded,
                       drawn |-> photo.drawn, labels |-> photo.labels, stored |-> stored,
                       answer |-> answer]
      PROVE  Accounted'
  BY <1>1, <1>2 DEF Accounted, Shown
<1>3. CASE photo.stored = {} /\ photo' = [photo EXCEPT !.stored = {"composite"}]
  <2>1. photo' = [step |-> "store", registered |-> photo.registered, mesh |-> photo.mesh,
                  facets |-> photo.facets, occluded |-> photo.occluded, drawn |-> photo.drawn,
                  labels |-> photo.labels, stored |-> {"composite"}, answer |-> "none"]
    BY <1>1, <1>3 DEF PhotoInv
  <2>2. Accounted'
    BY <1>2, <2>1
  <2>3. QED
    BY <2>1, <2>2 DEF PhotoInv
<1>4. CASE /\ photo.stored # {}
           /\ photo' = [photo EXCEPT !.stored = @ \cup {"svg"}, !.step = "done",
                                     !.answer = "drawn"]
  <2>1. photo.stored \cup {"svg"} = {"composite", "svg"}
    BY <1>1, <1>4
  <2>2. photo' = [step |-> "done", registered |-> photo.registered, mesh |-> photo.mesh,
                  facets |-> photo.facets, occluded |-> photo.occluded, drawn |-> photo.drawn,
                  labels |-> photo.labels, stored |-> {"composite", "svg"},
                  answer |-> "drawn"]
    BY <1>1, <1>4, <2>1 DEF PhotoInv
  <2>3. Accounted'
    BY <1>2, <2>2
  <2>4. QED
    BY <2>2, <2>3 DEF PhotoInv
<1>5. QED
  BY <1>3, <1>4, PhotoEnds DEF StorePhoto

LEMMA PhotoInductive == PhotoInv /\ [StartPhoto \/ PhotoStep]_photo => PhotoInv'
<1> SUFFICES ASSUME PhotoInv, [StartPhoto \/ PhotoStep]_photo PROVE PhotoInv'
  OBVIOUS
<1>1. CASE StartPhoto
  <2>1. PICK registered \in BOOLEAN, mesh \in {"absent", "unreadable", "missing", "read"},
             f \in Shapes, g \in Shapes :
          photo' = [PhotoIdle EXCEPT !.step = "load", !.registered = registered,
                                     !.mesh = mesh, !.facets = <<f, g>>]
    BY <1>1 DEF StartPhoto
  <2>2. photo' = [step |-> "load", registered |-> registered, mesh |-> mesh,
                  facets |-> <<f, g>>, occluded |-> {}, drawn |-> <<>>, labels |-> <<>>,
                  stored |-> {}, answer |-> "none"]
    BY <2>1 DEF PhotoIdle
  <2>3. QED
    BY <2>2 DEF PhotoInv
<1>2. CASE LoadPhoto
  BY <1>2, PhotoEnds, PhotoGoesOn DEF LoadPhoto
<1>3. CASE LoadMeshFaces
  BY <1>3, PhotoEnds, PhotoGoesOn DEF LoadMeshFaces
<1>4. CASE Project
  BY <1>4, ProjectKeeps
<1>5. CASE StorePhoto
  BY <1>5, StorePhotoKeeps
<1>6. CASE UNCHANGED photo
  BY <1>6 DEF PhotoInv, Accounted, Shown
<1>7. QED
  BY <1>1, <1>2, <1>3, <1>4, <1>5, <1>6 DEF PhotoStep

\* Beside the composite of a photo Rails shows the list of hidden facets: every facet of
\* the roof is in exactly one of them, a drawn one bears its own label as long as none
\* is centred outside the photo, and both files of an answer are stored, whatever the
\* projection and the mesh give for the facets.
THEOREM EveryFacetShown == Spec => []EveryFacetAccounted
<1>1. Init => PhotoInv
  BY DEF Init, NoStage, PhotoInit, PhotoIdle, PhotoInv
<1>2. PhotoInv /\ [Next]_vars => PhotoInv'
  BY PhotoMoves, PhotoInductive
<1>3. PhotoInv => EveryFacetAccounted
  BY DEF PhotoInv, Accounted, Shown, EveryFacetAccounted
<1>4. QED
  BY <1>1, <1>2, <1>3, PTL DEF Spec

-----------------------------------------------------------------------------
(* Arithmetic of two planes.                                                *)

Measured(p) == p.slope \in Int /\ p.moment \in Int /\ Weight(p) \in Nat

\* Seen from the other plane, a difference of heights changes its sign.
LEMMA OverTurns ==
  ASSUME NEW p, Measured(p), NEW q, Measured(q), NEW h \in Int
  PROVE  Over(p, q, h) \in Int /\ Over(q, p, h) = -Over(p, q, h)
<1> DEFINE s == p.slope
           t == q.slope
           m == p.moment
           n == q.moment
           v == Weight(p)
           w == Weight(q)
<1>1. s \in Int /\ t \in Int /\ m \in Int /\ n \in Int /\ v \in Int /\ w \in Int
  BY DEF Measured
<1>2. /\ Over(p, q, h) = (s - t) * h * v * w + 2 * (m * w - n * v)
      /\ Over(q, p, h) = (t - s) * h * w * v + 2 * (n * v - m * w)
  BY DEF Over
<1> HIDE DEF s, t, m, n, v, w
<1>3. h * v * w \in Int /\ m * w \in Int /\ n * v \in Int
  BY <1>1
<1>4. (s - t) * h * v * w = (s - t) * (h * v * w) /\ (t - s) * h * w * v = (t - s) * (h * v * w)
  BY <1>1
<1>5. (t - s) * (h * v * w) = -((s - t) * (h * v * w)) /\ (s - t) * (h * v * w) \in Int
  BY <1>1, <1>3
<1>6. QED
  BY <1>2, <1>3, <1>4, <1>5

LEMMA AbsTurns == \A n \in Int : Abs(-n) = Abs(n) /\ Abs(n) \in Nat
BY DEF Abs

LEMMA WithinTurns ==
  ASSUME NEW p, Measured(p), NEW q, Measured(q), NEW h \in Int, NEW n \in Nat
  PROVE  Within(p, q, h, n) = Within(q, p, h, n)
<1>1. Abs(Over(p, q, h)) = Abs(Over(q, p, h))
  BY OverTurns, AbsTurns
<1>2. 2 * n * Weight(p) * Weight(q) = 2 * n * Weight(q) * Weight(p)
  BY DEF Measured
<1>3. QED
  BY <1>1, <1>2 DEF Within

LEMMA AnchorIsASign == \A a, b : AnchorSide(a, b) \in {-1, 0, 1}
BY DEF AnchorSide, Sign

-----------------------------------------------------------------------------
(* Sets of places.                                                          *)

\* A set of places within an interval has a first and a last one.
LEMMA Ends ==
  ASSUME NEW a \in Int, NEW b \in Int, NEW T \in SUBSET (a..b), T # {}
  PROVE  /\ Min(T) \in T /\ \A y \in T : Min(T) <= y
         /\ Max(T) \in T /\ \A y \in T : y <= Max(T)
<1>1. \E x \in T : \A y \in T : x <= y
  <2> DEFINE A == {y - a : y \in T}
  <2>1. A \in SUBSET Nat /\ A # {}
    <3>1. \A y \in T : y - a \in Nat
      OBVIOUS
    <3>2. QED
      BY <3>1, T # {}
  <2>2. PICK d \in A : \A e \in A : d <= e
    BY <2>1, LeastNatural
  <2>3. PICK x \in T : d = x - a
    OBVIOUS
  <2>4. \A y \in T : x - a <= y - a
    BY <2>2, <2>3
  <2>5. QED
    BY <2>4
<1>2. \E x \in T : \A y \in T : x >= y
  <2> DEFINE A == {b - y : y \in T}
  <2>1. A \in SUBSET Nat /\ A # {}
    <3>1. \A y \in T : b - y \in Nat
      OBVIOUS
    <3>2. QED
      BY <3>1, T # {}
  <2>2. PICK d \in A : \A e \in A : d <= e
    BY <2>1, LeastNatural
  <2>3. PICK x \in T : d = b - x
    OBVIOUS
  <2>4. \A y \in T : b - x <= b - y
    BY <2>2, <2>3
  <2>5. QED
    BY <2>4
<1>3. Min(T) \in T /\ \A y \in T : Min(T) <= y
  BY <1>1 DEF Min
<1>4. Max(T) \in T /\ \A y \in T : Max(T) >= y
  BY <1>2 DEF Max
<1>5. QED
  BY <1>3, <1>4

\* The connected part that is kept of a region is a part of it.
LEMMA LargestIsPart ==
  ASSUME NEW S, IsFiniteSet(S)
  PROVE  Largest(S) \subseteq S
<1>1. CASE S = {}
  BY <1>1 DEF Largest
<1>2. CASE S # {}
  <2> DEFINE parts == Regions(S, 1)
             n == Cardinality(S)
             left == {n - Cardinality(R) : R \in parts}
  <2>1. \A R \in parts : R \subseteq S
    BY DEF Regions
  <2>2. parts # {}
    <3>1. PICK x \in S : TRUE
      BY <1>2
    <3>2. PICK R : R = {y \in S : \A z \in Min({x, y})..(Max({x, y}) - 1 + 1) :
                                    z..(z + 1 - 1) \cap S # {}}
      OBVIOUS
    <3>3. R \in parts
      BY <3>2 DEF Regions
    <3>4. QED
      BY <3>3
  <2> HIDE DEF parts
  <2>3. n \in Nat /\ \A R \in parts : Cardinality(R) \in Nat /\ Cardinality(R) <= n
    BY <2>1, FS_Subset, FS_CardinalityType
  <2> HIDE DEF n
  <2>4. left \in SUBSET Nat /\ left # {}
    BY <2>2, <2>3
  <2>5. PICK d \in left : \A e \in left : d <= e
    BY <2>4, LeastNatural
  <2>6. PICK R \in parts : d = n - Cardinality(R)
    OBVIOUS
  <2>7. \A Q \in parts : Cardinality(Q) <= Cardinality(R)
    BY <2>3, <2>5, <2>6
  <2>8. Largest(S) \in parts
    <3>1. Largest(S) = CHOOSE P \in parts : \A Q \in parts : Cardinality(Q) <= Cardinality(P)
      BY <1>2 DEF Largest, parts
    <3>2. QED
      BY <2>7, <3>1
  <2>9. QED
    BY <2>1, <2>8
<1>3. QED
  BY <1>1, <1>2

\* How far apart two sets are does not depend on which is named first.
LEMMA ApartTurns ==
  ASSUME NEW S \in SUBSET Int, NEW T \in SUBSET Int
  PROVE  Apart(S, T) = Apart(T, S)
<1>1. \A x, y \in Int : Abs(x - y) = Abs(y - x)
  BY DEF Abs
<1> DEFINE A == {Abs(x - y) : x \in S, y \in T}
           B == {Abs(x - y) : x \in T, y \in S}
<1>2. \A d : d \in A => d \in B
  BY <1>1
<1>3. \A d : d \in B => d \in A
  BY <1>1
<1>4. Apart(S, T) = Min(A) /\ Apart(T, S) = Min(B)
  BY DEF Apart
<1> HIDE DEF A, B
<1>5. A = B
  BY <1>2, <1>3
<1>6. QED
  BY <1>4, <1>5

LEMMA LeastIsOne ==
  ASSUME NEW T \in SUBSET Nat, T # {}
  PROVE  Min(T) \in T /\ \A y \in T : Min(T) <= y
<1>1. \E x \in T : \A y \in T : x <= y
  BY LeastNatural
<1>2. QED
  BY <1>1 DEF Min

LEMMA ApartIsReached ==
  ASSUME NEW S \in SUBSET Int, NEW T \in SUBSET Int, S # {}, T # {}
  PROVE  /\ Apart(S, T) \in Nat
         /\ \E x \in S, y \in T : Abs(x - y) = Apart(S, T)
         /\ \A x \in S, y \in T : Apart(S, T) <= Abs(x - y)
<1> DEFINE gaps == {Abs(x - y) : x \in S, y \in T}
<1>1. gaps \in SUBSET Nat
  <2> SUFFICES ASSUME NEW d \in gaps PROVE d \in Nat
    OBVIOUS
  <2>1. PICK x \in S, y \in T : d = Abs(x - y)
    OBVIOUS
  <2>2. x - y \in Int
    OBVIOUS
  <2>3. QED
    BY <2>1, <2>2 DEF Abs
<1>2. gaps # {} /\ \A x \in S, y \in T : Abs(x - y) \in gaps
  <2>1. PICK x \in S, y \in T : TRUE
    OBVIOUS
  <2>2. Abs(x - y) \in gaps
    OBVIOUS
  <2>3. QED
    BY <2>2
<1>3. \A d \in gaps : \E x \in S, y \in T : Abs(x - y) = d
  OBVIOUS
<1>4. Apart(S, T) = Min(gaps)
  BY DEF Apart
<1> HIDE DEF gaps
<1>5. Min(gaps) \in gaps /\ \A d \in gaps : Min(gaps) <= d
  BY <1>1, <1>2, LeastIsOne
<1>6. QED
  BY <1>1, <1>2, <1>3, <1>4, <1>5

\* The places at which GapIsWide compares the heights of two planes.
NearPlace(S, T) == Min({v \in S : \E y \in T : Abs(v - y) = Apart(S, T)})
FacingPlace(S, T) == Min({w \in T : Abs(NearPlace(S, T) - w) = Apart(S, T)})

LEMMA NearestPlaces ==
  ASSUME NEW a \in Int, NEW b \in Int, NEW S \in SUBSET (a..b), NEW T \in SUBSET (a..b),
         S # {}, T # {}
  PROVE  /\ NearPlace(S, T) \in S
         /\ \A v \in S : (\E y \in T : Abs(v - y) = Apart(S, T)) => NearPlace(S, T) <= v
         /\ FacingPlace(S, T) \in T
         /\ Abs(NearPlace(S, T) - FacingPlace(S, T)) = Apart(S, T)
         /\ \A w \in T : Abs(NearPlace(S, T) - w) = Apart(S, T) => FacingPlace(S, T) <= w
<1> DEFINE n == Apart(S, T)
           V == {v \in S : \E y \in T : Abs(v - y) = n}
           x == NearPlace(S, T)
           W == {w \in T : Abs(x - w) = n}
<1>1. \E v \in S, y \in T : Abs(v - y) = n
  <2>1. S \in SUBSET Int /\ T \in SUBSET Int
    OBVIOUS
  <2>2. QED
    BY <2>1, ApartIsReached
<1>2. V \in SUBSET (a..b) /\ V # {}
  BY <1>1
<1>3. x \in V /\ \A v \in V : x <= v
  BY <1>2, Ends DEF NearPlace
<1>4. W \in SUBSET (a..b) /\ W # {}
  BY <1>3
<1>5. FacingPlace(S, T) \in W /\ \A w \in W : FacingPlace(S, T) <= w
  BY <1>4, Ends DEF FacingPlace
<1>6. QED
  BY <1>3, <1>5

\* They are places of the two supports.
LEMMA NearestPlacesLie ==
  ASSUME NEW a \in Int, NEW b \in Int, NEW S \in SUBSET (a..b), NEW T \in SUBSET (a..b),
         S # {}, T # {}
  PROVE  NearPlace(S, T) + FacingPlace(S, T) \in Int
<1>1. NearPlace(S, T) \in S /\ FacingPlace(S, T) \in T
  BY NearestPlaces
<1>2. S \in SUBSET Int /\ T \in SUBSET Int
  OBVIOUS
<1>3. NearPlace(S, T) \in Int
  BY <1>1, <1>2, Zenon
<1>4. FacingPlace(S, T) \in Int
  BY <1>1, <1>2, Zenon
<1>5. QED
  BY <1>3, <1>4

\* Where two supports touch, the places compared are the same from either side.
LEMMA NearTurns ==
  ASSUME NEW a \in Int, NEW b \in Int, NEW S \in SUBSET (a..b), NEW T \in SUBSET (a..b),
         S # {}, T # {}, Apart(S, T) <= 1
  PROVE  NearPlace(S, T) + FacingPlace(S, T) = NearPlace(T, S) + FacingPlace(T, S)
<1> DEFINE n == Apart(S, T)
           x == NearPlace(S, T)
           y == FacingPlace(S, T)
           u == NearPlace(T, S)
           v == FacingPlace(T, S)
<1>1. S \in SUBSET Int /\ T \in SUBSET Int
  OBVIOUS
<1>2. n \in {0, 1} /\ Apart(T, S) = n /\ \A s \in S, t \in T : n <= Abs(s - t)
  BY <1>1, ApartIsReached, ApartTurns
<1>3. /\ x \in S /\ y \in T /\ Abs(x - y) = n
      /\ \A s \in S : (\E t \in T : Abs(s - t) = n) => x <= s
      /\ \A t \in T : Abs(x - t) = n => y <= t
  BY NearestPlaces
<1>4. /\ u \in T /\ v \in S /\ Abs(u - v) = n
      /\ \A t \in T : (\E s \in S : Abs(t - s) = n) => u <= t
      /\ \A s \in S : Abs(u - s) = n => v <= s
  <2>1. /\ u \in T /\ v \in S /\ Abs(u - v) = Apart(T, S)
        /\ \A t \in T : (\E s \in S : Abs(t - s) = Apart(T, S)) => u <= t
        /\ \A s \in S : Abs(u - s) = Apart(T, S) => v <= s
    BY NearestPlaces
  <2>2. QED
    BY <1>2, <2>1
<1> HIDE DEF n, x, y, u, v
<1>5. x \in Int /\ y \in Int /\ u \in Int /\ v \in Int
  BY <1>1, <1>3, <1>4
<1>6. CASE n = 0
  <2>1. x = y /\ u = v
    BY <1>3, <1>4, <1>5, <1>6 DEF Abs
  <2>2. x <= u /\ u <= x
    BY <1>3, <1>4, <1>5, <1>6, <2>1
  <2>3. x + y = u + v
    BY <1>5, <2>1, <2>2
  <2>4. QED
    BY <2>3 DEF x, y, u, v
<1>7. CASE n = 1
  <2>1. x = y - 1 \/ x = y + 1
    BY <1>3, <1>5, <1>7 DEF Abs
  <2>2. u = v - 1 \/ u = v + 1
    BY <1>4, <1>5, <1>7 DEF Abs
  <2>3. x <= v /\ u <= y
    <3>1. Abs(v - u) = 1 /\ Abs(y - x) = 1
      BY <1>5, <2>1, <2>2 DEF Abs
    <3>2. QED
      BY <1>3, <1>4, <1>7, <3>1
  <2>4. x # u
    <3>1. Abs(x - x) = 0
      BY <1>5 DEF Abs
    <3>2. QED
      BY <1>2, <1>3, <1>4, <1>7, <3>1
  <2>5. y = u
    <3>1. Abs(x - u) = 1 => y <= u
      BY <1>3, <1>4, <1>7
    <3>2. Abs(u - x) = 1 => v <= x
      BY <1>3, <1>4, <1>7
    <3>3. QED
      BY <1>5, <2>1, <2>2, <2>3, <2>4, <3>1, <3>2 DEF Abs
  <2>6. x = v
    <3>1. Abs(u - x) = 1
      BY <1>5, <2>1, <2>5 DEF Abs
    <3>2. v <= x
      BY <1>3, <1>4, <1>7, <3>1
    <3>3. QED
      BY <1>5, <2>3, <3>2
  <2>7. x + y = u + v
    BY <1>5, <2>5, <2>6
  <2>8. QED
    BY <2>7 DEF x, y, u, v
<1>8. QED
  BY <1>2, <1>6, <1>7

-----------------------------------------------------------------------------
(* Whether two candidates share a feature does not depend on the order.     *)

\* A candidate lies in the outline and its plane has numbers.
WellFormed(c, outline) ==
  Measured(c.plane) /\ c.support \in SUBSET outline /\ c.support # {}

LEMMA GapTurns ==
  ASSUME NEW lo \in Int, NEW hi \in Int, NEW c, WellFormed(c, lo..hi),
         NEW d, WellFormed(d, lo..hi), Apart(c.support, d.support) <= 1
  PROVE  GapIsWide(c, d) = GapIsWide(d, c)
<1> DEFINE h == NearPlace(c.support, d.support) + FacingPlace(c.support, d.support)
<1>0. /\ c.support \in SUBSET (lo..hi) /\ c.support # {}
      /\ d.support \in SUBSET (lo..hi) /\ d.support # {}
  BY DEF WellFormed
<1>1. h \in Int
  BY <1>0, NearestPlacesLie
<1>2. h = NearPlace(d.support, c.support) + FacingPlace(d.support, c.support)
  BY <1>0, NearTurns
<1>3. /\ GapIsWide(c, d) = ~Within(c.plane, d.plane, h, 4)
      /\ GapIsWide(d, c) = ~Within(d.plane, c.plane,
           NearPlace(d.support, c.support) + FacingPlace(d.support, c.support), 4)
  BY DEF GapIsWide, NearPlace, FacingPlace
<1> HIDE DEF h
<1>4. Within(c.plane, d.plane, h, 4) = Within(d.plane, c.plane, h, 4)
  BY <1>1, WithinTurns DEF WellFormed
<1>5. QED
  BY <1>2, <1>3, <1>4

LEMMA HeightsTurn == \A c, d : HeightsOverlap(c, d) = HeightsOverlap(d, c)
<1> SUFFICES ASSUME NEW c, NEW d PROVE HeightsOverlap(c, d) = HeightsOverlap(d, c)
  OBVIOUS
<1>1. /\ {Min(Heights(c)), Min(Heights(d))} = {Min(Heights(d)), Min(Heights(c))}
      /\ {Max(Heights(c)), Max(Heights(d))} = {Max(Heights(d)), Max(Heights(c))}
  OBVIOUS
<1>2. QED
  BY <1>1 DEF HeightsOverlap

LEMMA HullIsWithin ==
  ASSUME NEW lo \in Int, NEW hi \in Int, NEW S \in SUBSET (lo..hi), S # {}
  PROVE  Hull(S) \in SUBSET (lo..hi) /\ Hull(S) # {}
<1>1. Min(S) \in S /\ Max(S) \in S /\ Min(S) <= Max(S)
  BY Ends
<1>2. Hull(S) = Min(S)..Max(S)
  BY DEF Hull
<1>3. Min(S) \in lo..hi /\ Max(S) \in lo..hi
  BY <1>1
<1>4. ASSUME NEW m \in lo..hi, NEW n \in lo..hi, m <= n
      PROVE  m..n \in SUBSET (lo..hi) /\ m..n # {}
  <2>1. m \in m..n
    BY <1>4
  <2>2. QED
    BY <1>4, <2>1
<1>5. QED
  BY <1>1, <1>2, <1>3, <1>4

LEMMA SeamTurns ==
  ASSUME NEW lo \in Int, NEW hi \in Int, NEW c, WellFormed(c, lo..hi),
         NEW d, WellFormed(d, lo..hi), NEW region \in SUBSET (lo..hi), region # {},
         SeamCrosses(c, d, region)
  PROVE  SeamCrosses(d, c, region)
<1> DEFINE probes == {2 * Min(region) - 1, Min(region) + Max(region), 2 * Max(region) + 1}
           w == 2 * Weight(c.plane) * Weight(d.plane)
<1>1. probes \in SUBSET Int
  <2>1. Min(region) \in region /\ Max(region) \in region
    BY Ends
  <2>2. region \subseteq Int
    OBVIOUS
  <2>3. Min(region) \in Int /\ Max(region) \in Int
    BY <2>1, <2>2
  <2>4. QED
    BY <2>3
<1>2. w \in Int /\ 2 * Weight(d.plane) * Weight(c.plane) = w
  BY DEF WellFormed, Measured
<1>3. /\ \E h \in probes : Over(c.plane, d.plane, h) <= w
      /\ \E h \in probes : Over(c.plane, d.plane, h) >= -w
  BY DEF SeamCrosses
<1>4. SeamCrosses(d, c, region) =
        /\ \E h \in probes : Over(d.plane, c.plane, h) <= 2 * Weight(d.plane) * Weight(c.plane)
        /\ \E h \in probes : Over(d.plane, c.plane, h) >= -(2 * Weight(d.plane) * Weight(c.plane))
  BY DEF SeamCrosses
<1> HIDE DEF probes, w
<1>5. \A h \in probes : /\ Over(c.plane, d.plane, h) \in Int
                        /\ Over(d.plane, c.plane, h) = -Over(c.plane, d.plane, h)
  BY <1>1, OverTurns DEF WellFormed
<1>6. \E h \in probes : Over(d.plane, c.plane, h) >= -w
  BY <1>2, <1>3, <1>5
<1>7. \E h \in probes : Over(d.plane, c.plane, h) <= w
  BY <1>2, <1>3, <1>5
<1>8. QED
  BY <1>2, <1>4, <1>6, <1>7

LEMMA PartitionTurns ==
  ASSUME NEW lo \in Int, NEW hi \in Int, NEW c, WellFormed(c, lo..hi),
         NEW d, WellFormed(d, lo..hi), ShouldPartition(c, d)
  PROVE  ShouldPartition(d, c)
<1> DEFINE region == Hull(c.support \cup d.support)
<1>1. c.index # d.index /\ c.plane.slope # d.plane.slope
  BY DEF ShouldPartition
<1>2. Apart(c.support, d.support) <= 1 /\ Apart(d.support, c.support) <= 1
  <2>1. c.support \in SUBSET Int /\ d.support \in SUBSET Int
    BY DEF WellFormed
  <2>2. QED
    BY <2>1, ApartTurns DEF ShouldPartition
<1>3. ~(GapIsWide(d, c) /\ ~HeightsOverlap(d, c))
  BY <1>2, GapTurns, HeightsTurn DEF ShouldPartition
<1>4. SeamCrosses(c, d, region)
  BY DEF ShouldPartition
<1>5. region \in SUBSET (lo..hi) /\ region # {}
  <2>1. c.support \cup d.support \in SUBSET (lo..hi) /\ c.support \cup d.support # {}
    BY DEF WellFormed
  <2>2. QED
    BY <2>1, HullIsWithin
<1>6. SeamCrosses(d, c, region)
  BY <1>4, <1>5, SeamTurns
<1>7. d.support \cup c.support = c.support \cup d.support
  OBVIOUS
<1>8. QED
  BY <1>1, <1>2, <1>3, <1>6, <1>7 DEF ShouldPartition

-----------------------------------------------------------------------------
(* What the model of a roof is made of.                                     *)

\* A plane as the peeling and the merging leave it.
Fitted(p) == p.slope \in Int /\ p.moment \in Int /\ IsFiniteSet(p.inliers)
PlanesFitted(planes) == \A i \in DOMAIN planes : Fitted(planes[i])

LEMMA FittedIsMeasured == \A p : Fitted(p) => Measured(p)
BY FS_CardinalityType DEF Fitted, Measured, Weight

IsOutline(o) == o = {} \/ \E a, b \in o : a \in Int /\ b \in Int /\ o = a..b

LEMMA OutlineIsFinite ==
  ASSUME NEW o, IsOutline(o)
  PROVE  IsFiniteSet(o) /\ o \in SUBSET Int
<1>1. CASE o = {}
  BY <1>1, FS_EmptySet
<1>2. ASSUME NEW a \in Int, NEW b \in Int, o = a..b
      PROVE  IsFiniteSet(o) /\ o \in SUBSET Int
  BY <1>2, FS_Interval
<1>3. QED
  BY <1>1, <1>2 DEF IsOutline

LEMMA CandidatesWellFormed ==
  ASSUME NEW planes, PlanesFitted(planes), NEW o, IsOutline(o),
         NEW c \in RoofCandidates(planes, o)
  PROVE  WellFormed(c, o)
<1>1. PICK i \in DOMAIN planes :
        \E region \in Supports(planes[i].inliers) : c = Candidate(planes, i, region, o)
  BY DEF RoofCandidates
<1>2. PICK region \in Supports(planes[i].inliers) : c = Candidate(planes, i, region, o)
  BY <1>1
<1> DEFINE support == Largest(region \cap o)
<1>3. c.plane = planes[i] /\ c.support = support
  <2>1. Candidate(planes, i, region, o) =
          [index |-> i, plane |-> planes[i], support |-> support,
           returns |-> {r \in planes[i].inliers : r.x \in support}]
    BY DEF Candidate
  <2> HIDE DEF support
  <2>2. QED
    BY <1>2, <2>1
<1>4. c.support \in SUBSET o
  <2>1. IsFiniteSet(region \cap o)
    BY OutlineIsFinite, FS_Subset
  <2>2. QED
    BY <1>3, <2>1, LargestIsPart
<1>5. c.support # {}
  <2>1. Cardinality(c.support) >= 2
    BY DEF RoofCandidates, MinFacetPlaces
  <2>2. Cardinality({}) = 0
    BY FS_EmptySet
  <2>3. QED
    BY <2>1, <2>2
<1>6. QED
  BY <1>3, <1>4, <1>5, FittedIsMeasured DEF WellFormed, PlanesFitted

LEMMA EnvelopeIsInside ==
  ASSUME NEW o, IsOutline(o), NEW cloud, NEW group, \A c \in group : c.support \in SUBSET o
  PROVE  MassEnvelope(group, cloud, o) \in SUBSET o
<1>1. UNION {c.support : c \in group} \in SUBSET o
  OBVIOUS
<1>2. \A S : Largest(S \cap o) \in SUBSET o
  <2> SUFFICES ASSUME NEW S PROVE Largest(S \cap o) \in SUBSET o
    OBVIOUS
  <2>1. IsFiniteSet(S \cap o)
    BY OutlineIsFinite, FS_Subset
  <2>2. QED
    BY <2>1, LargestIsPart
<1>3. QED
  BY <1>1, <1>2 DEF MassEnvelope

\* A cell lies in the outline, on its candidate's side of every seam.
LEMMA CellKeepsItsSide ==
  ASSUME NEW planes, PlanesFitted(planes), NEW cloud, NEW o, IsOutline(o),
         NEW c \in RoofCandidates(planes, o)
  PROVE  LET candidates == RoofCandidates(planes, o)
             cell == Cell(c, candidates, cloud, o)
         IN  /\ cell \subseteq o
             /\ \A d \in candidates : ShouldPartition(c, d) =>
                  \A x \in cell : AnchorSide(c, d) * Over(c.plane, d.plane, 2 * x) >= 0
<1> DEFINE candidates == RoofCandidates(planes, o)
           others == {d \in candidates : ShouldPartition(c, d)}
           coverage == MassEnvelope({c} \cup others, cloud, o)
           sided == {x \in coverage : \A d \in others : x \in KeptSide(c, d, coverage)}
           kept == Largest(sided)
<1>1. Cell(c, candidates, cloud, o) = Largest(kept \cap o)
  BY DEF Cell
<1>2. coverage \in SUBSET o
  <2>1. \A d \in {c} \cup others : d.support \in SUBSET o
    BY CandidatesWellFormed DEF WellFormed
  <2> HIDE DEF others
  <2>2. QED
    BY <2>1, EnvelopeIsInside
<1>3. IsFiniteSet(sided) /\ IsFiniteSet(kept \cap o)
  <2>1. sided \in SUBSET o /\ kept \cap o \in SUBSET o
    BY <1>2
  <2> HIDE DEF sided, kept
  <2>2. QED
    BY <2>1, OutlineIsFinite, FS_Subset
<1>4. kept \subseteq sided
  <2> HIDE DEF sided
  <2>1. QED
    BY <1>3, LargestIsPart
<1>5. Largest(kept \cap o) \subseteq kept \cap o
  <2> HIDE DEF kept
  <2>1. QED
    BY <1>3, LargestIsPart
<1>6. ASSUME NEW x \in sided, NEW d \in others
      PROVE  AnchorSide(c, d) * Over(c.plane, d.plane, 2 * x) >= 0
  BY <1>6 DEF KeptSide
<1> HIDE DEF sided, kept, coverage
<1>7. QED
  BY <1>1, <1>4, <1>5, <1>6

-----------------------------------------------------------------------------
(* The planes stay fitted.                                                  *)

LEMMA SampledIsFitted ==
  ASSUME IsFiniteSet(fit.residual), fit.residual \in SUBSET [x: Int, z: Int],
         NEW p \in Sampled
  PROVE  Fitted(p)
<1>1. PICK s \in Slopes, r \in fit.residual :
        p = [slope |-> s, moment |-> (r.z - s * r.x) * Cardinality(Through(r, s)),
             inliers |-> Through(r, s),
             ratio |-> (100 * Cardinality(Through(r, s))) \div Cardinality(fit.residual)]
  BY DEF Sampled, RoofPlanes
<1> DEFINE on == Through(r, s)
<1>2. IsFiniteSet(on) /\ Cardinality(on) \in Nat
  <2>1. on \in SUBSET fit.residual
    BY DEF Through
  <2> HIDE DEF on
  <2>2. QED
    BY <2>1, FS_Subset, FS_CardinalityType
<1>3. s \in Int /\ r.x \in Int /\ r.z \in Int
  BY DEF Slopes
<1>4. p.slope = s /\ p.moment = (r.z - s * r.x) * Cardinality(on) /\ p.inliers = on
  BY <1>1
<1> HIDE DEF on
<1>5. QED
  BY <1>2, <1>3, <1>4 DEF Fitted

LEMMA MergedIsFitted ==
  ASSUME NEW S, NEW planes \in Seq(S), PlanesFitted(planes),
         NEW a \in DOMAIN planes, NEW b \in DOMAIN planes
  PROVE  PlanesFitted(Merged(planes, <<a, b>>))
<1> DEFINE m == MergeTwo(planes[a], planes[b])
           two == [planes EXCEPT ![a] = m]
           one == RemoveAt(two, b)
<1>1. Fitted(m)
  <2>1. /\ m.slope = planes[a].slope /\ m.moment = planes[a].moment + planes[b].moment
        /\ m.inliers = planes[a].inliers \cup planes[b].inliers
    BY DEF MergeTwo
  <2> HIDE DEF m
  <2>2. Fitted(planes[a]) /\ Fitted(planes[b])
    BY DEF PlanesFitted
  <2>3. IsFiniteSet(planes[a].inliers \cup planes[b].inliers)
    BY <2>2, FS_Union DEF Fitted
  <2>4. QED
    BY <2>1, <2>2, <2>3 DEF Fitted
<1> HIDE DEF m
<1>2. /\ two \in Seq(S \cup {m}) /\ DOMAIN two = DOMAIN planes
      /\ \A i \in DOMAIN planes : two[i] = m \/ two[i] = planes[i]
  OBVIOUS
<1> HIDE DEF two
<1>3. Len(one) = Len(two) - 1 /\ one \in Seq(S \cup {m})
      /\ \A i \in DOMAIN one : one[i] = two[IF i < b THEN i ELSE i + 1]
  BY <1>2, RemoveAtElements
<1>4. \A i \in DOMAIN one : (IF i < b THEN i ELSE i + 1) \in DOMAIN planes
  <2>1. DOMAIN one = 1..(Len(two) - 1) /\ DOMAIN planes = 1..Len(two) /\ Len(two) \in Nat
    BY <1>2, <1>3
  <2>2. b \in Nat
    BY <2>1
  <2>3. QED
    BY <2>1, <2>2
<1> HIDE DEF one
<1>5. \A i \in DOMAIN one : Fitted(one[i])
  BY <1>1, <1>2, <1>3, <1>4 DEF PlanesFitted
<1>6. Merged(planes, <<a, b>>) = one
  BY DEF Merged, one, two, m
<1>7. QED
  BY <1>5, <1>6 DEF PlanesFitted

LEMMA AppendIsFitted ==
  ASSUME NEW S, NEW planes \in Seq(S), PlanesFitted(planes), NEW p, Fitted(p)
  PROVE  PlanesFitted(Append(planes, p))
<1>1. planes \in Seq(S \cup {p})
  OBVIOUS
<1>2. DOMAIN Append(planes, p) = 1..(Len(planes) + 1) /\ DOMAIN planes = 1..Len(planes)
      /\ Append(planes, p)[Len(planes) + 1] = p
      /\ \A i \in 1..Len(planes) : Append(planes, p)[i] = planes[i]
      /\ Len(planes) \in Nat
  BY <1>1
<1>3. QED
  BY <1>2 DEF PlanesFitted

\* The planes, the returns and the outline are numbers that the geometry can be done on,
\* and an answer has the facets of its model.  With FitInv this is inductive.
RoofInv ==
  /\ IsOutline(fit.outline)
  /\ IsFiniteSet(fit.residual) /\ fit.residual \in SUBSET [x: Int, z: Int]
  /\ PlanesFitted(fit.planes)
  /\ fit.step # "done" => fit.answer = "none"
  /\ fit.answer = "measured" => fit.facets = ModelFacets
  /\ fit.answer = "fallback" => \A f \in fit.facets : f.cell \subseteq fit.outline

LEMMA NoneFitted == PlanesFitted(<<>>)
<1>1. DOMAIN <<>> = {}
  OBVIOUS
<1>2. QED
  BY <1>1 DEF PlanesFitted

LEMMA OutlinesAreOutlines == \A o \in Outlines : IsOutline(o)
BY FitAssumption DEF IsOutline

\* The planes change, the rest of a call in progress does not.
LEMMA PlanesChange ==
  ASSUME FitInv, RoofInv, fit.step # "done", NEW step \in {"peel", "merge", "model"},
         NEW planes, PlanesFitted(planes), NEW residual \in SUBSET fit.residual,
         fit' = [fit EXCEPT !.step = step, !.planes = planes, !.residual = residual]
  PROVE  RoofInv'
<1>1. fit' = [step |-> step, cloud |-> fit.cloud, sparse |-> fit.sparse,
              outline |-> fit.outline, residual |-> residual, planes |-> planes,
              facets |-> fit.facets, answer |-> fit.answer]
  BY DEF FitInv
<1>2. IsFiniteSet(residual) /\ residual \in SUBSET [x: Int, z: Int]
  BY FS_Subset DEF RoofInv
<1>3. fit.answer = "none"
  BY DEF RoofInv
<1>4. fit'.outline = fit.outline /\ fit'.residual = residual /\ fit'.planes = planes
      /\ fit'.step = step /\ fit'.answer = "none"
  BY <1>1, <1>3
<1>5. QED
  BY <1>2, <1>4 DEF RoofInv

LEMMA RoofInductive == FitInv /\ RoofInv /\ [FitArrives \/ FitStep]_fit => RoofInv'
<1> SUFFICES ASSUME FitInv, RoofInv, [FitArrives \/ FitStep]_fit PROVE RoofInv'
  OBVIOUS
<1>1. CASE StartFit
  <2>1. PICK c \in Clouds, o \in Outlines :
          fit' = [FitIdle EXCEPT !.step = "peel", !.cloud = c.returns, !.sparse = c.sparse,
                                 !.outline = o, !.residual = c.returns]
    BY <1>1 DEF StartFit
  <2>2. fit' = [step |-> "peel", cloud |-> c.returns, sparse |-> c.sparse, outline |-> o,
                residual |-> c.returns, planes |-> <<>>, facets |-> {}, answer |-> "none"]
    BY <2>1 DEF FitIdle
  <2>3. IsOutline(o) /\ IsFiniteSet(c.returns) /\ c.returns \in SUBSET [x: Int, z: Int]
    BY OutlinesAreOutlines, FitAssumption
  <2>4. QED
    BY <2>2, <2>3, NoneFitted DEF RoofInv
<1>2. CASE RefuseFit
  <2>1. fit' = [step |-> "done", cloud |-> fit.cloud, sparse |-> fit.sparse,
                outline |-> fit.outline, residual |-> fit.residual, planes |-> fit.planes,
                facets |-> fit.facets, answer |-> "invalid"]
    BY <1>2 DEF FitInv, RefuseFit, FitAnswer
  <2>2. QED
    BY <2>1 DEF RoofInv
<1>3. CASE FallBack
  <2>1. PICK o \in Outlines :
          fit' = IF o = {} THEN [FitIdle EXCEPT !.step = "done", !.answer = "invalid"]
                 ELSE [FitIdle EXCEPT !.step = "done", !.outline = o, !.answer = "fallback",
                                      !.facets = {[index |-> 0, cell |-> o]}]
    BY <1>3 DEF FallBack
  <2>2. IsOutline(o) /\ IsOutline({}) /\ IsFiniteSet({})
    BY OutlinesAreOutlines, FS_EmptySet DEF IsOutline
  <2>3. CASE o = {}
    <3>1. fit' = [step |-> "done", cloud |-> {}, sparse |-> FALSE, outline |-> {},
                  residual |-> {}, planes |-> <<>>, facets |-> {}, answer |-> "invalid"]
      BY <2>1, <2>3 DEF FitIdle
    <3>2. QED
      BY <2>2, <3>1, NoneFitted DEF RoofInv
  <2>4. CASE o # {}
    <3> DEFINE facets == {[index |-> 0, cell |-> o]}
    <3>1. fit' = [step |-> "done", cloud |-> {}, sparse |-> FALSE, outline |-> o,
                  residual |-> {}, planes |-> <<>>, facets |-> facets,
                  answer |-> "fallback"]
      BY <2>1, <2>4 DEF FitIdle
    <3>2. \A f \in facets : f.cell \subseteq o
      OBVIOUS
    <3> HIDE DEF facets
    <3>3. QED
      BY <2>2, <3>1, <3>2, NoneFitted DEF RoofInv
  <2>5. QED
    BY <2>3, <2>4
<1>4. CASE PeelPlane
  <2>1. PICK p \in Sampled :
          fit' = [fit EXCEPT !.planes = Append(@, p), !.residual = @ \ p.inliers]
    BY <1>4 DEF PeelPlane
  <2>2. fit.step = "peel"
    BY <1>4 DEF PeelPlane
  <2>3. PlanesFitted(Append(fit.planes, p))
    <3>1. Fitted(p)
      BY SampledIsFitted DEF RoofInv
    <3>2. QED
      BY <3>1, AppendIsFitted DEF FitInv, Divided, RoofInv
  <2>4. fit' = [fit EXCEPT !.step = "peel", !.planes = Append(fit.planes, p),
                           !.residual = fit.residual \ p.inliers]
    BY <2>1, <2>2 DEF FitInv
  <2> DEFINE planes == Append(fit.planes, p)
             residual == fit.residual \ p.inliers
  <2>5. residual \in SUBSET fit.residual
    OBVIOUS
  <2>6. fit' = [fit EXCEPT !.step = "peel", !.planes = planes, !.residual = residual]
        /\ PlanesFitted(planes)
    BY <2>3, <2>4
  <2> HIDE DEF planes, residual
  <2>7. QED
    BY <2>2, <2>5, <2>6, PlanesChange
<1>5. CASE StopPeeling
  <2>1. PICK step \in {"model", "merge"} : fit' = [fit EXCEPT !.step = step]
    BY <1>5 DEF StopPeeling
  <2>2. fit' = [fit EXCEPT !.step = step, !.planes = fit.planes, !.residual = fit.residual]
    BY <2>1 DEF FitInv
  <2>3. fit.step # "done" /\ PlanesFitted(fit.planes)
    BY <1>5 DEF StopPeeling, RoofInv
  <2>4. QED
    BY <2>2, <2>3, PlanesChange
<1>6. CASE Merge
  <2>1. fit.step = "merge"
    BY <1>6 DEF Merge
  <2>2. CASE Mergeable(fit.planes) = {}
    <3>1. fit' = [fit EXCEPT !.step = "model", !.planes = fit.planes,
                             !.residual = fit.residual]
      BY <1>6, <2>2 DEF FitInv, Merge
    <3>2. QED
      BY <2>1, <3>1, PlanesChange DEF RoofInv
  <2>3. CASE Mergeable(fit.planes) # {}
    <3> DEFINE pair == First(Mergeable(fit.planes))
    <3>1. PICK S : fit.planes \in Seq(S)
      BY DEF FitInv, Divided
    <3>2. Mergeable(fit.planes) \in SUBSET (Nat \X Nat)
      <4>1. DOMAIN fit.planes \subseteq Nat
        BY <3>1
      <4>2. QED
        BY <4>1 DEF Mergeable
    <3>3. pair \in Mergeable(fit.planes)
      BY <2>3, <3>2, FirstIsOne
    <3> HIDE DEF pair
    <3>4. PICK a \in DOMAIN fit.planes, b \in DOMAIN fit.planes : pair = <<a, b>>
      BY <3>3 DEF Mergeable
    <3>5. PlanesFitted(Merged(fit.planes, <<a, b>>))
      BY <3>1, MergedIsFitted DEF RoofInv
    <3>6. fit' = [fit EXCEPT !.planes = Merged(@, <<a, b>>)]
      BY <1>6, <2>3, <3>4 DEF Merge, pair
    <3>7. fit' = [fit EXCEPT !.step = "merge", !.planes = Merged(fit.planes, <<a, b>>),
                             !.residual = fit.residual]
      BY <2>1, <3>6 DEF FitInv
    <3>8. QED
      BY <2>1, <3>5, <3>7, PlanesChange
  <2>4. QED
    BY <2>2, <2>3
<1>7. CASE Measure
  <2> DEFINE Ended == [step |-> "done", cloud |-> fit.cloud, sparse |-> fit.sparse,
                       outline |-> fit.outline, residual |-> fit.residual,
                       planes |-> fit.planes, facets |-> fit'.facets,
                       answer |-> fit'.answer]
  <2>1. ASSUME fit' = Ended, fit'.answer # "fallback",
               fit'.answer = "measured" => fit'.facets = ModelFacets
        PROVE  RoofInv'
    <3>1. fit'.planes = fit.planes /\ fit'.cloud = fit.cloud /\ fit'.outline = fit.outline
          /\ fit'.residual = fit.residual /\ fit'.step = "done"
      BY <2>1
    <3>2. ModelFacets' = ModelFacets
      BY <3>1 DEF ModelFacets
    <3>3. QED
      BY <2>1, <3>1, <3>2 DEF RoofInv
  <2>2. CASE fit' = [fit EXCEPT !.step = "done", !.facets = SparseFacets, !.answer = "sparse"]
    <3>1. fit' = Ended /\ fit'.answer = "sparse"
      BY <2>2 DEF FitInv
    <3>2. QED
      BY <2>1, <3>1
  <2>3. CASE FitAnswer("invalid") \/ FitAnswer("no_planes_found")
    <3>1. fit' = Ended /\ fit'.answer \in {"invalid", "no_planes_found"}
      BY <2>3 DEF FitInv, FitAnswer
    <3>2. QED
      BY <2>1, <3>1
  <2>4. CASE fit' = [fit EXCEPT !.step = "done", !.facets = ModelFacets, !.answer = "measured"]
    <3>1. fit' = Ended /\ fit'.answer = "measured" /\ fit'.facets = ModelFacets
      BY <2>4 DEF FitInv
    <3>2. QED
      BY <2>1, <3>1
  <2>5. QED
    BY <1>7, <2>2, <2>3, <2>4 DEF Measure
<1>8. CASE UNCHANGED fit
  BY <1>8 DEF RoofInv, ModelFacets
<1>9. QED
  BY <1>1, <1>2, <1>3, <1>4, <1>5, <1>6, <1>7, <1>8 DEF FitArrives, FitStep

-----------------------------------------------------------------------------
(* A measured roof.                                                         *)

LEMMA FacetCells ==
  ASSUME NEW planes, PlanesFitted(planes), NEW cloud, NEW o, IsOutline(o),
         NEW f \in Facets(planes, cloud, o)
  PROVE  /\ f.candidate \in RoofCandidates(planes, o)
         /\ f.cell \subseteq o
         /\ \A d \in RoofCandidates(planes, o) : ShouldPartition(f.candidate, d) =>
              \A x \in f.cell :
                AnchorSide(f.candidate, d) * Over(f.candidate.plane, d.plane, 2 * x) >= 0
<1> DEFINE candidates == RoofCandidates(planes, o)
<1>1. PICK c \in candidates : f = [candidate |-> c, cell |-> Cell(c, candidates, cloud, o)]
  BY DEF Facets
<1>2. f.candidate = c /\ f.cell = Cell(c, candidates, cloud, o)
  BY <1>1
<1>3. QED
  BY <1>2, CellKeepsItsSide

\* Two planes of which each is the upper one, or each the lower, are level.
LEMMA NeitherIsOver ==
  ASSUME NEW side \in {-1, 1}, NEW n \in Int, side * n >= 0, side * (-n) >= 0
  PROVE  n = 0
OBVIOUS

LEMMA FacetsMeetAtTheSeam ==
  ASSUME NEW planes, PlanesFitted(planes), NEW cloud, NEW o, IsOutline(o),
         NEW f \in Facets(planes, cloud, o), NEW g \in Facets(planes, cloud, o),
         ShouldPartition(f.candidate, g.candidate), Opposite(f.candidate, g.candidate),
         NEW x \in f.cell \cap g.cell
  PROVE  Over(f.candidate.plane, g.candidate.plane, 2 * x) = 0
<1> DEFINE c == f.candidate
           d == g.candidate
<1>1. /\ c \in RoofCandidates(planes, o) /\ d \in RoofCandidates(planes, o)
      /\ x \in o
  BY FacetCells
<1>2. WellFormed(c, o) /\ WellFormed(d, o)
  BY <1>1, CandidatesWellFormed
<1>3. PICK lo \in Int, hi \in Int : o = lo..hi
  BY <1>1 DEF IsOutline
<1>4. ShouldPartition(c, d) /\ ShouldPartition(d, c)
  BY <1>2, <1>3, PartitionTurns
<1>5. /\ AnchorSide(c, d) * Over(c.plane, d.plane, 2 * x) >= 0
      /\ AnchorSide(d, c) * Over(d.plane, c.plane, 2 * x) >= 0
  BY <1>1, <1>4, FacetCells
<1>6. AnchorSide(c, d) \in {-1, 1} /\ AnchorSide(d, c) = AnchorSide(c, d)
  BY AnchorIsASign DEF Opposite
<1>7. /\ Over(c.plane, d.plane, 2 * x) \in Int
      /\ Over(d.plane, c.plane, 2 * x) = -Over(c.plane, d.plane, 2 * x)
  <2>1. 2 * x \in Int
    BY <1>1, <1>3
  <2>2. QED
    BY <1>2, <2>1, OverTurns DEF WellFormed
<1> HIDE DEF c, d
<1>8. Over(c.plane, d.plane, 2 * x) = 0
  BY <1>5, <1>6, <1>7, NeitherIsOver
<1>9. QED
  BY <1>8 DEF c, d

\* Whatever the cloud, the planes found in it and the outline, no facet of an answer
\* reaches beyond the outline, and two facets that the code parts at a seam, each with its
\* returns on its own side, share at most the seam itself: no area of a roof is counted
\* for both slopes of a ridge, a hip or a valley.
THEOREM SeamsPartTheRoof == Spec => []RoofIsDivided
<1>1. Init => FitInv /\ RoofInv
  <2>1. Init => FitInv
    BY NoneDivides DEF Init, NoStage, FitInit, FitIdle, FitInv
  <2>2. Init => RoofInv
    BY NoneFitted, FS_EmptySet
       DEF Init, NoStage, FitInit, FitIdle, RoofInv, IsOutline
  <2>3. QED
    BY <2>1, <2>2
<1>2. FitInv /\ RoofInv /\ [Next]_vars => (FitInv /\ RoofInv)'
  BY FitMoves, FitInductive, RoofInductive
<1>3. RoofInv => FacetsFit
  <2> SUFFICES ASSUME RoofInv, fit.answer \in {"measured", "fallback"}, NEW f \in fit.facets
               PROVE  f.cell \subseteq fit.outline
    BY DEF FacetsFit
  <2>1. CASE fit.answer = "fallback"
    BY <2>1 DEF RoofInv
  <2>2. CASE fit.answer = "measured"
    <3>1. PICK g \in Facets(fit.planes, fit.cloud, fit.outline) : f.cell = g.cell
      BY <2>2 DEF RoofInv, ModelFacets
    <3>2. QED
      BY <3>1, FacetCells DEF RoofInv
  <2>3. QED
    BY <2>1, <2>2
<1>4. RoofInv => SeamsDivide
  BY FacetsMeetAtTheSeam DEF RoofInv, SeamsDivide
<1>5. FitInv /\ RoofInv => RoofIsDivided
  BY <1>3, <1>4 DEF RoofIsDivided
<1>6. QED
  BY <1>1, <1>2, <1>5, PTL DEF Spec
=============================================================================
