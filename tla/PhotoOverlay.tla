---------------------------- MODULE PhotoOverlay ----------------------------
(***************************************************************************)
(* POST /pipeline/project-photo of the geometry sidecar: the facets are    *)
(* brought into the frame of the phone, projected onto one photo, tested   *)
(* for occlusion by the mesh of the session and drawn.  A facet is three   *)
(* sample points; what the geometry gives for each is an input.            *)
(***************************************************************************)
EXTENDS Integers, Sequences, FiniteSets

CONSTANT Shapes   \* what projection and ray casts may give for a facet

\* Points behind the image plane and points the mesh hides, of three, and whether
\* the mean of the projected points has no negative coordinate.
Shape == [behind: 0..3, hidden: 0..3, inView: BOOLEAN]
ASSUME ShapeAssumption == Shapes \subseteq Shape

VARIABLE photo   \* the local state of one call

PhotoIdle ==
  [step |-> "idle", registered |-> TRUE, mesh |-> "absent", facets |-> <<>>,
   occluded |-> {}, drawn |-> <<>>, labels |-> <<>>, stored |-> {}, answer |-> "none"]

PhotoInit == photo = PhotoIdle
PhotoAnswer(answer) == photo' = [photo EXCEPT !.step = "done", !.answer = answer]

StartPhoto ==
  /\ photo.step = "idle"
  /\ \E registered \in BOOLEAN, mesh \in {"absent", "unreadable", "missing", "read"},
        f \in Shapes, g \in Shapes :
       photo' = [PhotoIdle EXCEPT !.step = "load", !.registered = registered,
                                  !.mesh = mesh, !.facets = <<f, g>>]

\* Without the transform the facets cannot be placed: 422, before anything is read.
LoadPhoto ==
  /\ photo.step = "load"
  /\ \/ ~photo.registered /\ PhotoAnswer("refused")
     \/ photo.registered /\ photo' = [photo EXCEPT !.step = "mesh"]
     \/ photo.registered /\ PhotoAnswer("refused")   \* no readable image

\* A mesh that does not parse only costs the occlusion; one that is not there refuses.
LoadMeshFaces ==
  /\ photo.step = "mesh"
  /\ IF photo.mesh = "missing" THEN PhotoAnswer("refused")
     ELSE photo' = [photo EXCEPT !.step = "project"]

\* classify_facet_occlusion: no mesh hides nothing.
Occlusion(f) ==
  CASE photo.mesh # "read" \/ f.hidden = 0 -> "visible"
    [] photo.mesh = "read" /\ f.hidden = 3 -> "occluded"
    [] OTHER -> "partial"

\* A facet counts as in front when every point of it is.
InFront(f) == f.behind = 0
\* Faulty variant: a facet behind the camera is drawn.
DrawableBehind(f) == Occlusion(f) # "occluded"
Drawable(f) == InFront(f) /\ Occlusion(f) # "occluded"
Listed(f) == Occlusion(f) = "occluded" \/ ~InFront(f)

\* The positions of S in the order of the facets.
Positions(S) ==
  CHOOSE s \in [1..Cardinality(S) -> S] :
    \A j, k \in 1..Cardinality(S) : j < k => s[j] < s[k]

\* composite_png reads its labels back from the SVG by a pattern without a sign: it
\* misses a label at a negative coordinate, and the polygons take theirs in order.
Labels(drawn) ==
  LET read == {i \in drawn : photo.facets[i].inView}
  IN  [k \in 1..Cardinality(drawn) |->
         IF k <= Cardinality(read) THEN Positions(read)[k] ELSE 0]

Project ==
  /\ photo.step = "project"
  /\ LET facets == DOMAIN photo.facets
         drawn == {i \in facets : Drawable(photo.facets[i])} IN
     photo' = [photo EXCEPT !.step = "store", !.drawn = Positions(drawn),
                            !.labels = Labels(drawn),
                            !.occluded = {i \in facets : Listed(photo.facets[i])}]

\* The composite is stored first, the SVG next, under the photo's own token.
StorePhoto ==
  /\ photo.step = "store"
  /\ \/ photo.stored = {} /\ photo' = [photo EXCEPT !.stored = {"composite"}]
     \/ photo.stored # {}
        /\ photo' = [photo EXCEPT !.stored = @ \cup {"svg"}, !.step = "done", !.answer = "drawn"]
     \/ PhotoAnswer("failed")

PhotoStep == LoadPhoto \/ LoadMeshFaces \/ Project \/ StorePhoto
PhotoBusy == photo.step \notin {"idle", "done"}

\* Rails shows the composite beside the list of hidden facets: every facet is in
\* exactly one of them, and a drawn one bears its own label as long as no drawn facet
\* is centred outside the photo.  Both files of an answer are stored.
EveryFacetAccounted ==
  photo.answer = "drawn" =>
    LET drawn == {photo.drawn[k] : k \in DOMAIN photo.drawn} IN
    /\ drawn \cup photo.occluded = DOMAIN photo.facets
    /\ drawn \cap photo.occluded = {}
    /\ (\A i \in drawn : photo.facets[i].inView) => photo.labels = photo.drawn
    /\ photo.stored = {"composite", "svg"}
=============================================================================
