---------------------------- MODULE LidarIngest ----------------------------
(***************************************************************************)
(* POST /pipeline/ingest-lidar of the geometry sidecar.  A coverage lookup *)
(* gives the survey units over a building, the process-cached index of     *)
(* published point clouds gives the resources to read, each is cropped in  *)
(* turn with one retry, and the roof points are stored under a key made    *)
(* from the polygon, which the later stages and the report overlay read.   *)
(***************************************************************************)
EXTENDS SidecarWorld, Integers, Sequences

CONSTANTS
  Units,          \* WESM work units
  Covering,       \* building -> its units, most recent first
  Resources,      \* keys of point clouds (EPT resources)
  Resolved,       \* building -> resources the index lists for it, best fit first
  NameGuess,      \* unit -> the resource its name suggests
  Published,      \* resources that exist in the bucket
  Mistakable,     \* those a read error of which may hold an absence marker: a 403, a
                  \* tile's 404, a 404 in the resource's own name
  Cloud,          \* resource -> building -> its returns
  ReadAttempts    \* reads of one resource before the stage fails

ASSUME IngestAssumption ==
  /\ Covering \in [Buildings -> Seq(Units)]
  /\ Resolved \in [Buildings -> Seq(Resources)]
  /\ NameGuess \in [Units -> Resources]
  /\ Published \subseteq Resources
  /\ Mistakable \subseteq Published
  /\ Cloud \in [Resources -> [Buildings -> [class6: Nat, elevated: Nat]]]
  /\ ReadAttempts \in Nat \ {0}

VARIABLES
  eptIndexLoaded,  \* _cached_index holds the boundaries index
  blobs,           \* building -> number of roof points stored under its key
  ing              \* request -> its local state and answer

ingestVars == <<eptIndexLoaded, blobs, ing>>

IngestSteps == {"idle", "coverage", "index", "crop", "extract", "store", "done"}
IngestAnswers == {"none", "available", "missing", "failed", "lost"}
Reasons == {"none", "no_coverage", "no_ept_resource", "no_building_points"}
IngestWarnings == {"ept_index_unavailable", "lidar_height_extracted"}

Candidates == [resource: Resources, unit: Units]
Ingest ==
  [step: IngestSteps, building: Buildings \cup {NoValue}, todo: Seq(Candidates),
   reads: 0..(ReadAttempts - 1), unit: Units \cup {NoValue}, resource: Resources \cup {NoValue},
   warnings: SUBSET IngestWarnings, answer: IngestAnswers, reason: Reasons, count: Nat]

NewIngest(step, b) ==
  [step |-> step, building |-> b, todo |-> <<>>, reads |-> 0, unit |-> NoValue,
   resource |-> NoValue, warnings |-> {}, answer |-> "none", reason |-> "none", count |-> 0]

IngestInit ==
  /\ eptIndexLoaded = FALSE
  /\ blobs = [b \in Buildings |-> NoValue]
  /\ ing = [r \in Requests |-> NewIngest("idle", NoValue)]

IngestIdle(r) == ing[r].step \in {"idle", "done"}

\* Class 6 is trusted where the collection has it, height above ground otherwise.
RoofPoints(cloud) == IF cloud.class6 > 0 THEN cloud.class6 ELSE cloud.elevated
ByHeight(cloud) == cloud.class6 = 0

\* The answer keeps the unit and the warnings, not the locals of the loop.
Answered(q, answer, reason) ==
  [q EXCEPT !.step = "done", !.todo = <<>>, !.reads = 0, !.answer = answer, !.reason = reason]
Missing(r, reason) == ing' = [ing EXCEPT ![r] = Answered(@, "missing", reason)]

Refusal(answer) == [NewIngest("done", NoValue) EXCEPT !.answer = answer]

\* Any exception of the ingest core is a 502.
BadGateway(r) == ing' = [ing EXCEPT ![r] = Refusal("failed")]

ReceiveIngest(r, b) ==
  /\ IngestIdle(r)
  /\ ing' = [ing EXCEPT ![r] = NewIngest("coverage", b)]
  /\ UNCHANGED <<eptIndexLoaded, blobs>>

CheckCoverage(r) ==
  /\ ing[r].step = "coverage"
  /\ LET units == Covering[ing[r].building] IN
     IF units = <<>> THEN Missing(r, "no_coverage")
     ELSE ing' = [ing EXCEPT ![r].step = "index", ![r].unit = Head(units)]
  /\ UNCHANGED <<eptIndexLoaded, blobs>>

\* The resources of the index carry the most recent unit; the guesses their own.
Indexed(q) ==
  [i \in DOMAIN Resolved[q.building] |-> [resource |-> Resolved[q.building][i], unit |-> q.unit]]
Guesses(q) ==
  [i \in DOMAIN Covering[q.building] |->
     [resource |-> NameGuess[Covering[q.building][i]], unit |-> Covering[q.building][i]]]

ResolveResources(r) ==
  /\ ing[r].step = "index"
  /\ eptIndexLoaded' = TRUE
  /\ ing' = [ing EXCEPT ![r].step = "crop", ![r].todo = Indexed(ing[r]) \o Guesses(ing[r])]
  /\ UNCHANGED blobs

\* A failed download is not remembered; only the guesses are left to try.
IndexUnavailable(r) ==
  /\ ing[r].step = "index"
  /\ ~eptIndexLoaded
  /\ ing' = [ing EXCEPT ![r].step = "crop", ![r].todo = Guesses(ing[r]),
                        ![r].warnings = @ \cup {"ept_index_unavailable"}]
  /\ UNCHANGED <<eptIndexLoaded, blobs>>

Reading(r) == ing[r].step = "crop" /\ ing[r].todo # <<>>
NextCandidate(r) == Head(ing[r].todo)

Crop(r) ==
  /\ Reading(r)
  /\ NextCandidate(r).resource \in Published
  /\ ing' = [ing EXCEPT ![r].step = "extract", ![r].resource = NextCandidate(r).resource,
                        ![r].unit = NextCandidate(r).unit]
  /\ UNCHANGED <<eptIndexLoaded, blobs>>

\* EptNotFound: the text of the read error holds one of _EPT_ABSENT_MARKERS.  That is
\* how an absent resource shows, and how an error of a published one may read.
CropAbsent(r) ==
  /\ Reading(r)
  /\ NextCandidate(r).resource \notin Published \ Mistakable
  /\ ing' = [ing EXCEPT ![r].todo = Tail(@), ![r].reads = 0]
  /\ UNCHANGED <<eptIndexLoaded, blobs>>

\* Faulty variants: one read too many, and a read error that passes for a resource
\* that does not exist.
CropFailsLate(r) ==
  /\ Reading(r)
  /\ IF ing[r].reads + 1 <= ReadAttempts
     THEN ing' = [ing EXCEPT ![r].reads = @ + 1]
     ELSE BadGateway(r)
  /\ UNCHANGED <<eptIndexLoaded, blobs>>

CropFailsAsGap(r) ==
  /\ Reading(r)
  /\ IF ing[r].reads + 1 < ReadAttempts
     THEN ing' = [ing EXCEPT ![r].reads = @ + 1]
     ELSE ing' = [ing EXCEPT ![r].todo = Tail(@), ![r].reads = 0]
  /\ UNCHANGED <<eptIndexLoaded, blobs>>

\* A RuntimeError without a marker is retried, then fails the stage.
CropFails(r) ==
  /\ Reading(r)
  /\ IF ing[r].reads + 1 < ReadAttempts
     THEN ing' = [ing EXCEPT ![r].reads = @ + 1]
     ELSE BadGateway(r)
  /\ UNCHANGED <<eptIndexLoaded, blobs>>

NoResource(r) ==
  /\ ing[r].step = "crop"
  /\ ing[r].todo = <<>>
  /\ Missing(r, "no_ept_resource")
  /\ UNCHANGED <<eptIndexLoaded, blobs>>

Extract(r) ==
  /\ ing[r].step = "extract"
  /\ LET cloud == Cloud[ing[r].resource][ing[r].building] IN
     IF RoofPoints(cloud) = 0 THEN Missing(r, "no_building_points")
     ELSE ing' = [ing EXCEPT ![r].step = "store", ![r].count = RoofPoints(cloud),
                    ![r].warnings = @ \cup IF ByHeight(cloud) THEN {"lidar_height_extracted"}
                                                              ELSE {}]
  /\ UNCHANGED <<eptIndexLoaded, blobs>>

\* The array is stored before the reference to it is answered.
Store(r) ==
  /\ ing[r].step = "store"
  /\ blobs' = [blobs EXCEPT ![ing[r].building] = ing[r].count]
  /\ ing' = [ing EXCEPT ![r] = Answered(@, "available", "none")]
  /\ UNCHANGED eptIndexLoaded

\* Any other exception, of the WESM file, the reader, the reprojection or the store, is
\* not retried.  (One of the index is IndexUnavailable.)
IngestFails(r) ==
  /\ ing[r].step \in {"coverage", "extract", "store"} \/ Reading(r)
  /\ BadGateway(r)
  /\ UNCHANGED <<eptIndexLoaded, blobs>>

\* The process dies: the index is forgotten, the stored arrays are not.
IngestRestart ==
  /\ eptIndexLoaded' = FALSE
  /\ ing' = [r \in Requests |->
               IF IngestIdle(r) THEN ing[r]
               ELSE Refusal("lost")]
  /\ UNCHANGED blobs

IngestStep(r) ==
  \/ CheckCoverage(r) \/ ResolveResources(r) \/ IndexUnavailable(r) \/ Crop(r)
  \/ CropAbsent(r) \/ CropFails(r) \/ NoResource(r) \/ Extract(r) \/ Store(r) \/ IngestFails(r)
=============================================================================
