----------------------------- MODULE MC_Sidecar -----------------------------
EXTENDS Sidecar, TLC

CONSTANTS r1, r2, a1, a2, p1, p2, p3, t1, t2, b1, b2, u1, u2, x1, x2, x3

\* Both callers may ask for a2, one of them for a1.
TheAddresses == (r1 :> {a1, a2}) @@ (r2 :> {a2})

\* a2 may be put next to a1 or on a tile without a row.  The parcel of a1 leaves a
\* building of its neighbourhood out.
TheGeocodes == (a1 :> {p1}) @@ (a2 :> {p2, p3})
TheTiles == (p1 :> t1) @@ (p2 :> t1) @@ (p3 :> t2)
TheBuildings == (t1 :> {b1, b2}) @@ (t2 :> {})
TheParcels == (p1 :> {b1}) @@ (p2 :> {b2}) @@ (p3 :> {})
TheNeighbours == (p1 :> {b1, b2}) @@ (p2 :> {b2}) @@ (p3 :> {})

\* The best-fitting resource of b1 is gone, the next has its roof unclassified.  The
\* resource listed for b2 holds no roof; the one its unit's name suggests does.  A read error of
\* x2 may pass for an absence.
TheUnits == (b1 :> <<u1>>) @@ (b2 :> <<u2>>)
TheResources == (b1 :> <<x1, x2>>) @@ (b2 :> <<x2>>)
TheGuesses == (u1 :> x1) @@ (u2 :> x3)
NoRoof == [class6 |-> 0, elevated |-> 0]
TheClouds ==
  (x1 :> [b \in Buildings |-> NoRoof])
  @@ (x2 :> ((b1 :> [class6 |-> 0, elevated |-> 3]) @@ (b2 :> NoRoof)))
  @@ (x3 :> [b \in Buildings |-> [class6 |-> 2, elevated |-> 3]])

\* Cross-sections of roofs: level pieces, rising and falling ones, and walls.
Return(x, z) == [x |-> x, z |-> z]
Level(a, b, z) == {Return(x, z) : x \in a..b}
Up(a, b, z) == {Return(x, z + 3 * (x - a)) : x \in a..b}
Down(a, b, z) == {Return(x, z - 3 * (x - a)) : x \in a..b}
Wall(x, a, b) == {Return(x, z) : z \in a..b}
Gable == Up(0, 3, 0) \cup Down(4, 7, 9)
Roofs ==
  {Gable,
   Down(0, 3, 9) \cup Up(4, 7, 0),                                 \* valley
   Up(0, 2, 0) \cup Level(3, 5, 7) \cup Down(6, 8, 6),             \* hip
   Up(0, 2, 0) \cup Level(3, 5, 7) \cup Down(7, 9, 3),             \* with a gap
   Up(0, 2, 0) \cup Down(3, 5, 6) \cup Up(6, 8, 0) \cup Down(9, 11, 6),
   Level(0, 2, 0) \cup Level(3, 6, 1) \cup Level(7, 9, 2),         \* to be merged
   Level(0, 2, 0) \cup Up(3, 5, 0) \cup Level(6, 8, 0),            \* shed dormer
   Down(0, 2, 0) \cup Up(3, 5, -8) \cup Level(6, 8, -6),           \* seam beside both
   Gable \cup Level(8, 10, -8),                                    \* porch
   Gable \cup Wall(8, -3, 0)}
Dense(S) == [returns |-> S, sparse |-> FALSE]
Sparse(S) == [returns |-> S, sparse |-> TRUE]
TheScans ==
  {Dense(S) : S \in Roofs} \cup {Sparse(Level(0, 3, 0)), Sparse(Level(0, 2, 0) \cup Up(3, 4, 5))}
TheOutlines == {0..11, 0..8, 1..6, {}}

ThePixels == 1..9
ThePriors == {1..5, {3, 4}, {2, 3, 4, 7}, {}}

\* A code of the native system of a survey, two zones, and the code of longitude 180.
TheCodes == {4326, 32616, 32617, 32661}

Facet(behind, hidden, inView) == [behind |-> behind, hidden |-> hidden, inView |-> inView]
TheShapes ==
  {Facet(b, h, v) : b \in {0, 1, 3}, h \in {0, 1, 3}, v \in BOOLEAN}

\* An environment lacks at most one part.
TheEnvironments ==
  {[flags |-> F, sam2 |-> b, has |-> Parts \ missing] :
     F \in {{}, {"lidar"}, {"storage", "imagery"}, {"render_images"}, {"project_photo"},
            {"ept_index"}},
     b \in Backends, missing \in {{}} \cup {{p} : p \in Parts}}
=============================================================================
