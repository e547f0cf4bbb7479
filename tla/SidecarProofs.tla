--------------------------- MODULE SidecarProofs ---------------------------
(***************************************************************************)
(* Theorems about Sidecar: for any callers, addresses, point clouds, frames, *)
(* masks and start-up environments.  A step of the composition is a step of *)
(* one component and leaves the others alone, so that each invariant is     *)
(* proved from the steps of its own component.                              *)
(***************************************************************************)
EXTENDS Sidecar, FiniteSetTheorems, WellFoundedInduction, TLAPS

-----------------------------------------------------------------------------
(* What a step of the composition is to one component.                      *)

LEMMA FuseMoves == [Next]_vars => [StartFuse \/ FuseStep]_fuse
BY DEF Next, Calls, StageArrives, StageStep, vars, stageVars

LEMMA RefineMoves == [Next]_vars => [StartRefine \/ RefineStep]_refine
BY DEF Next, Calls, StageArrives, StageStep, vars, stageVars

LEMMA BootMoves == [Next]_vars => [BootStep]_boot
BY DEF Next, Calls, StageArrives, StageStep, BootStep, vars, stageVars

ResolveMove ==
  \/ \E r \in Requests : ResolveStep(r) \/ \E a \in Addresses : Receive(r, a)
  \/ ResolveRestart
  \/ Republish

LEMMA ResolveMoves == [Next]_vars => [ResolveMove]_resolveVars
<1> SUFFICES ASSUME [Next]_vars PROVE [ResolveMove]_resolveVars
  OBVIOUS
<1>1. CASE Calls
  <2>1. ASSUME NEW r \in Requests, Resolve(r) PROVE ResolveMove
    BY <2>1, CallerAssumption DEF Resolve, ResolveMove
  <2>2. ASSUME NEW r \in Requests, IngestChosen(r) PROVE UNCHANGED resolveVars
    BY <2>2 DEF IngestChosen
  <2>3. ASSUME NEW r \in Requests, Serve(r) PROVE [ResolveMove]_resolveVars
    BY <2>3 DEF Serve, ResolveMove
  <2>4. QED
    BY <1>1, <2>1, <2>2, <2>3 DEF Calls, Restart, World, ResolveMove
<1>2. CASE StageArrives \/ StageStep \/ UNCHANGED vars
  BY <1>2 DEF StageArrives, StageStep, vars, callVars
<1>3. QED
  BY <1>1, <1>2 DEF Next

-----------------------------------------------------------------------------
(* Fusion.                                                                   *)

\* Past the manifest the frame is one the fix and the unit give, and the fix is not
\* malformed; the planes are fitted again only in a frame; a call has no result before it ends.
Framed == fuse.frame \in Frames(fuse.gps, fuse.unit) /\ fuse.gps # "malformed"
FuseInv ==
  /\ fuse = [step |-> fuse.step, gps |-> fuse.gps, unit |-> fuse.unit,
             outline |-> fuse.outline, frame |-> fuse.frame, facets |-> fuse.facets,
             transform |-> fuse.transform, answer |-> fuse.answer]
  /\ fuse.gps \in {"absent", "fix", "malformed"} /\ fuse.unit \in Codes \cup {NoCode}
  /\ fuse.step \in {"mesh", "cloud", "align", "register", "refit"} => Framed
  /\ fuse.step = "refit" => fuse.frame # NoCode
  /\ fuse.step # "done" => fuse.answer = "none" /\ ~fuse.facets
  /\ FusedIsPlaced

\* Where there is no frame there is neither a fix nor a code.
LEMMA NoFrame ==
  ASSUME FuseInv, Framed, fuse.frame = NoCode
  PROVE  fuse.gps = "absent" /\ fuse.unit = NoCode
BY FrameAssumption DEF FuseInv, Framed, Frames

\* A call may end in a refusal, an exception or without convergence anywhere, and
\* unregistered when it has no frame.
LEMMA FuseEnds ==
  ASSUME FuseInv, fuse.step # "done",
         NEW answer \in {"refused", "crashed", "not_converged", "not_registered"},
         FuseAnswer(answer),
         answer = "not_registered" => Framed /\ fuse.frame = NoCode
  PROVE  FuseInv'
<1>1. fuse' = [step |-> "done", gps |-> fuse.gps, unit |-> fuse.unit,
               outline |-> fuse.outline, frame |-> fuse.frame, facets |-> fuse.facets,
               transform |-> fuse.transform, answer |-> answer]
  BY DEF FuseInv, FuseAnswer
<1>2. answer = "not_registered" => fuse.gps = "absent" /\ fuse.unit = NoCode
  BY NoFrame
<1>3. QED
  BY <1>1, <1>2 DEF FuseInv, FusedIsPlaced

\* A call that goes on has no result yet.
LEMMA FuseGoesOn ==
  ASSUME FuseInv, fuse.step # "done", fuse.gps # "malformed",
         NEW step \in {"mesh", "cloud", "align", "register", "refit"},
         NEW frame \in Frames(fuse.gps, fuse.unit), step = "refit" => frame # NoCode,
         fuse' = [fuse EXCEPT !.step = step, !.frame = frame]
  PROVE  FuseInv'
<1>1. fuse' = [step |-> step, gps |-> fuse.gps, unit |-> fuse.unit,
               outline |-> fuse.outline, frame |-> frame, facets |-> fuse.facets,
               transform |-> fuse.transform, answer |-> fuse.answer]
  BY DEF FuseInv
<1>2. QED
  BY <1>1 DEF FuseInv, Framed, FusedIsPlaced

\* The planes fitted again: facets in a northern zone and inside a proper outline only.
LEMMA RefitKeeps == FuseInv /\ Refit => FuseInv'
<1> SUFFICES ASSUME FuseInv, Refit PROVE FuseInv'
  OBVIOUS
<1>1. fuse.step = "refit" /\ fuse.frame # NoCode /\ Framed
  BY DEF Refit, FuseInv
<1>2. PICK planes \in BOOLEAN, facets \in BOOLEAN :
        IF planes /\ ~Placeable THEN FuseAnswer("crashed")
        ELSE fuse' = [fuse EXCEPT !.step = "done", !.facets = planes /\ facets,
                                  !.transform = TRUE, !.answer = "fused"]
  BY DEF Refit
<1>3. CASE planes /\ ~Placeable
  BY <1>1, <1>2, <1>3, FuseEnds
<1>4. CASE ~(planes /\ ~Placeable)
  <2> DEFINE found == planes /\ facets
  <2>1. found => fuse.frame \in NorthUtm /\ fuse.outline # "degenerate"
    BY <1>4 DEF Placeable
  <2>2. fuse' = [step |-> "done", gps |-> fuse.gps, unit |-> fuse.unit,
                 outline |-> fuse.outline, frame |-> fuse.frame, facets |-> found,
                 transform |-> TRUE, answer |-> "fused"]
    BY <1>2, <1>4 DEF FuseInv
  <2> HIDE DEF found
  <2>3. fuse.unit # NoCode => fuse.frame = fuse.unit
    BY <1>1 DEF Framed, Frames
  <2>4. QED
    BY <1>1, <2>1, <2>2, <2>3 DEF FuseInv, Framed, FusedIsPlaced
<1>5. QED
  BY <1>3, <1>4

LEMMA FuseInductive == FuseInv /\ [StartFuse \/ FuseStep]_fuse => FuseInv'
<1> SUFFICES ASSUME FuseInv, [StartFuse \/ FuseStep]_fuse PROVE FuseInv'
  OBVIOUS
<1>1. CASE StartFuse
  <2>1. PICK gps \in {"absent", "fix", "malformed"}, unit \in Codes \cup {NoCode},
             outline \in {"none", "roof", "degenerate"} :
          fuse' = [FuseIdle EXCEPT !.step = "manifest", !.gps = gps, !.unit = unit,
                                   !.outline = outline]
    BY <1>1 DEF StartFuse
  <2>2. fuse' = [step |-> "manifest", gps |-> gps, unit |-> unit, outline |-> outline,
                 frame |-> NoCode, facets |-> FALSE, transform |-> FALSE, answer |-> "none"]
    BY <2>1 DEF FuseIdle
  <2>3. QED
    BY <2>2 DEF FuseInv, FusedIsPlaced
<1>2. CASE ReadManifest
  <2>1. CASE fuse.gps = "malformed"
    BY <1>2, <2>1, FuseEnds DEF ReadManifest
  <2>2. CASE fuse.gps # "malformed"
    <3>1. PICK frame \in Frames(fuse.gps, fuse.unit) :
            fuse' = [fuse EXCEPT !.step = "mesh", !.frame = frame]
      BY <1>2, <2>2 DEF ReadManifest
    <3>2. QED
      BY <1>2, <2>2, <3>1, FuseGoesOn DEF ReadManifest
  <2>3. QED
    BY <2>1, <2>2
<1>3. ASSUME NEW step \in {"mesh", "cloud", "align", "register", "refit"},
             step = "refit" => fuse.frame # NoCode,
             fuse.step \in {"mesh", "cloud", "align", "register"},
             fuse' = [fuse EXCEPT !.step = step]
      PROVE  FuseInv'
  <2>1. Framed /\ fuse' = [fuse EXCEPT !.step = step, !.frame = fuse.frame]
    BY <1>3 DEF FuseInv
  <2>2. QED
    BY <1>3, <2>1, FuseGoesOn DEF Framed
<1>4. CASE LoadMesh \/ LoadCloud
  BY <1>3, <1>4 DEF LoadMesh, LoadCloud
<1>5. CASE RefuseBlob \/ FuseRaises
  BY <1>5, FuseEnds DEF RefuseBlob, FuseRaises
<1>6. CASE Align
  <2>1. CASE FuseAnswer("not_converged")
    BY <1>6, <2>1, FuseEnds DEF Align
  <2>2. CASE fuse' = [fuse EXCEPT !.step = "register"]
    BY <1>3, <1>6, <2>2 DEF Align
  <2>3. QED
    BY <1>6, <2>1, <2>2 DEF Align
<1>7. CASE Register
  <2>1. CASE fuse.frame = NoCode
    BY <1>7, <2>1, FuseEnds DEF Register, FuseInv
  <2>2. CASE fuse.frame # NoCode
    BY <1>3, <1>7, <2>2 DEF Register
  <2>3. QED
    BY <2>1, <2>2
<1>8. CASE Refit
  BY <1>8, RefitKeeps
<1>9. CASE UNCHANGED fuse
  BY <1>9 DEF FuseInv, Framed, FusedIsPlaced
<1>10. QED
  BY <1>1, <1>2, <1>4, <1>5, <1>6, <1>7, <1>8, <1>9 DEF FuseStep

\* A fused answer has a transform and a frame, the work unit's where that has a code, and
\* facets only in a zone and inside an outline with an area; what is not registered had
\* nothing to register by (fuse_capture/router.py:127-158, :226-296).
THEOREM FusedPlaced == Spec => []FusedIsPlaced
<1>1. Init => FuseInv
  BY FrameAssumption DEF Init, NoStage, FuseInit, FuseIdle, FuseInv, FusedIsPlaced
<1>2. FuseInv /\ [Next]_vars => FuseInv'
  BY FuseMoves, FuseInductive
<1>3. FuseInv => FusedIsPlaced
  BY DEF FuseInv
<1>4. QED
  BY <1>1, <1>2, <1>3, PTL DEF Spec

-----------------------------------------------------------------------------
(* Start-up.                                                                 *)

\* A process that is up was started in an environment the checks found nothing in.
BootInv ==
  /\ boot.step \in {"down", "up", "dead", "called"}
  /\ boot = [step |-> boot.step, env |-> boot.env, stage |-> boot.stage, ran |-> boot.ran]
  /\ boot.step # "called" => boot.ran = "none"
  /\ boot.step = "up" => boot.env \in Environments /\ Problems(boot.env) = {}
  /\ BootCoversRuntime

\* The checks demand all that a stage which runs for real uses, but for the undemanded parts.
LEMMA Covered ==
  ASSUME NEW env \in Environments, NEW s \in Stages \ {"ept_index"}, Problems(env) = {},
         ~Stubbed(s, env)
  PROVE  Used(s) \ env.has \subseteq Undemanded
<1>1. Checked(s, env)
  BY DEF Stages, Stubbed, Checked
<1>2. Demanded(s) \subseteq env.has
  BY <1>1 DEF Problems
<1>3. Used(s) \subseteq Demanded(s) \cup Undemanded
  BY DEF Stages, Used, Demanded, Undemanded
<1>4. QED
  BY <1>2, <1>3

LEMMA BootInductive == BootInv /\ [BootStep]_boot => BootInv'
<1> SUFFICES ASSUME BootInv, [BootStep]_boot PROVE BootInv'
  OBVIOUS
<1>1. CASE Boot
  BY <1>1 DEF BootInv, BootCoversRuntime, Boot
<1>2. CASE CallStage
  <2>1. PICK s \in Stages \ {"ept_index"} :
          boot' = [boot EXCEPT !.step = "called", !.stage = s,
                     !.ran = CASE Stubbed(s, boot.env) -> "stub"
                               [] ~Stubbed(s, boot.env) /\ Used(s) \subseteq boot.env.has -> "real"
                               [] OTHER -> "broken"]
    BY <1>2 DEF CallStage
  <2>2. boot.env \in Environments /\ Problems(boot.env) = {}
    BY <1>2 DEF CallStage, BootInv
  <2>3. CASE Stubbed(s, boot.env)
    <3>1. boot' = [boot EXCEPT !.step = "called", !.stage = s, !.ran = "stub"]
      BY <2>1, <2>3
    <3>2. IF s = "sam2" THEN boot.env.sam2 # "modal" ELSE s \in boot.env.flags
      BY <2>3 DEF Stubbed
    <3>3. boot' = [step |-> "called", env |-> boot.env, stage |-> s, ran |-> "stub"]
      BY <3>1 DEF BootInv
    <3>4. QED
      BY <3>2, <3>3 DEF BootInv, BootCoversRuntime
  <2>4. CASE ~Stubbed(s, boot.env)
    <3>1. Used(s) \ boot.env.has \subseteq Undemanded
      BY <2>2, <2>4, Covered
    <3>2. PICK ran \in {"real", "broken"} :
            boot' = [boot EXCEPT !.step = "called", !.stage = s, !.ran = ran]
      BY <2>1, <2>4
    <3>3. boot' = [step |-> "called", env |-> boot.env, stage |-> s, ran |-> ran]
      BY <3>2 DEF BootInv
    <3>4. QED
      BY <2>4, <3>1, <3>3 DEF BootInv, BootCoversRuntime
  <2>5. QED
    BY <2>3, <2>4
<1>3. CASE UNCHANGED boot
  BY <1>3 DEF BootInv, BootCoversRuntime
<1>4. QED
  BY <1>1, <1>2, <1>3 DEF BootStep

\* A stage of a process that started fails only for want of a part no check demands, and
\* runs a stub only where a flag or the name of the segmenter takes it there
\* (boot_checks.py:214-267 against the stages' own code).
THEOREM BootCovers == Spec => []BootCoversRuntime
<1>1. Init => BootInv
  BY DEF Init, NoStage, BootInit, BootIdle, BootInv, BootCoversRuntime
<1>2. BootInv /\ [Next]_vars => BootInv'
  BY BootMoves, BootInductive
<1>3. BootInv => BootCoversRuntime
  BY DEF BootInv
<1>4. QED
  BY <1>1, <1>2, <1>3, PTL DEF Spec

-----------------------------------------------------------------------------
(* Outline refinement.                                                       *)

\* A mask goes on to be vectorised only when it overlaps the prior enough.
RefineInv ==
  /\ refine.prior \in SUBSET Pixels /\ refine.mask \in SUBSET Pixels
  /\ refine = [step |-> refine.step, prior |-> refine.prior, mask |-> refine.mask,
               outline |-> refine.outline, warned |-> refine.warned, answer |-> refine.answer]
  /\ refine.step # "done" => refine.answer = "none" /\ ~refine.warned
  /\ refine.step = "vectorise" => refine.mask # {} /\ ~Strays(refine.mask, refine.prior)
  /\ OutlineIsBounded

\* An overlap of at least one half bounds all parts of the mask by twice the prior.
LEMMA PartIsBounded ==
  ASSUME NEW prior \in SUBSET Pixels, NEW mask \in SUBSET Pixels, mask # {},
         ~Strays(mask, prior), NEW part \in SUBSET mask
  PROVE  Cardinality(part) <= 2 * Cardinality(prior)
<1>1. IsFiniteSet(mask \cup prior) /\ IsFiniteSet(prior)
  BY OutlineAssumption, FS_Subset, mask \cup prior \subseteq Pixels
<1>2. Cardinality(part) <= Cardinality(mask \cup prior) /\ IsFiniteSet(part)
  BY <1>1, FS_Subset, part \subseteq mask \cup prior
<1>3. Cardinality(mask \cap prior) <= Cardinality(prior) /\ IsFiniteSet(mask \cap prior)
  BY <1>1, FS_Subset, mask \cap prior \subseteq prior
<1>4. ~(2 * Cardinality(mask \cap prior) < Cardinality(mask \cup prior))
  BY DEF Strays
<1>5. /\ Cardinality(part) \in Nat /\ Cardinality(prior) \in Nat
      /\ Cardinality(mask \cap prior) \in Nat /\ Cardinality(mask \cup prior) \in Nat
  BY <1>1, <1>2, <1>3, FS_CardinalityType
<1>6. QED
  BY <1>2, <1>3, <1>4, <1>5

LEMMA KeepPriorBounds == RefineInv /\ KeepPrior => RefineInv'
BY DEF RefineInv, KeepPrior, OutlineIsBounded

LEMMA RefineInductive == RefineInv /\ [StartRefine \/ RefineStep]_refine => RefineInv'
<1> SUFFICES ASSUME RefineInv, [StartRefine \/ RefineStep]_refine PROVE RefineInv'
  OBVIOUS
<1>1. CASE StartRefine
  BY <1>1 DEF RefineInv, OutlineIsBounded, StartRefine, RefineIdle
<1>2. CASE LoadTile
  BY <1>2 DEF RefineInv, OutlineIsBounded, LoadTile, RefineAnswer
<1>3. CASE Rasterise
  <2>1. ASSUME NEW p \in Priors,
               refine' = [refine EXCEPT !.step = "infer", !.prior = p]
        PROVE  RefineInv'
    <3>1. p \in SUBSET Pixels
      BY OutlineAssumption
    <3>2. QED
      BY <1>3, <2>1, <3>1 DEF RefineInv, OutlineIsBounded, Rasterise
  <2>2. CASE RefineAnswer("invalid")
    BY <1>3, <2>2 DEF RefineInv, OutlineIsBounded, Rasterise, RefineAnswer
  <2>3. QED
    BY <1>3, <2>1, <2>2 DEF Rasterise
<1>4. CASE Infer
  BY <1>4 DEF RefineInv, OutlineIsBounded, Infer, RefineAnswer
<1>5. CASE Compare
  <2>1. CASE Strays(refine.mask, refine.prior) \/ refine.mask = {}
    BY <1>5, <2>1, KeepPriorBounds DEF Compare
  <2>2. CASE ~Strays(refine.mask, refine.prior) /\ refine.mask # {}
    BY <1>5, <2>2 DEF RefineInv, OutlineIsBounded, Compare
  <2>3. QED
    BY <2>1, <2>2
<1>6. CASE Vectorise
  <2>1. ASSUME NEW R \in LargestRuns(refine.mask),
               refine' = [refine EXCEPT !.step = "done", !.outline = R, !.answer = "refined"]
        PROVE  RefineInv'
    <3>1. R \in SUBSET refine.mask /\ R # {}
      BY <2>1 DEF LargestRuns, Runs
    <3>2. Cardinality(R) <= 2 * Cardinality(refine.prior)
      BY <1>6, <3>1, PartIsBounded DEF RefineInv, Vectorise
    <3>3. ~refine.warned
      BY <1>6 DEF RefineInv, Vectorise
    <3>4. QED
      BY <2>1, <3>1, <3>2, <3>3 DEF RefineInv, OutlineIsBounded
  <2>2. QED
    BY <1>6, <2>1, KeepPriorBounds DEF Vectorise
<1>7. CASE UNCHANGED refine
  BY <1>7 DEF RefineInv, OutlineIsBounded
<1>8. QED
  BY <1>1, <1>2, <1>3, <1>4, <1>5, <1>6, <1>7 DEF RefineStep

\* Whatever mask SAM2 gives, the outline is the footprint with a warning, or a piece of
\* the mask of at most twice its size (outline/router.py's IoU test and fallbacks).
THEOREM OutlineBounded == Spec => []OutlineIsBounded
<1>1. Init => RefineInv
  BY DEF Init, NoStage, RefineInit, RefineIdle, RefineInv, OutlineIsBounded
<1>2. RefineInv /\ [Next]_vars => RefineInv'
  BY RefineMoves, RefineInductive
<1>3. RefineInv => OutlineIsBounded
  BY DEF RefineInv
<1>4. QED
  BY <1>1, <1>2, <1>3, PTL DEF Spec

-----------------------------------------------------------------------------
(* Address resolution.                                                       *)

BeforeParcel == {"geocode", "nominatim", "parcel", "regrid"}
AfterParcel == {"footprints", "resolve_tile", "lock", "index", "tile"}
Delivered(q) == q.answer \in {"ok", "no_buildings"}
\* Why an address may truthfully have no buildings.
Empties(a) ==
  \/ {} \in Selections(a)
  \/ \E l \in Geocodes[a] : TileOf[l] \notin PublishedTiles
  \/ edition > 0

\* What a request knows at each step, by the constants alone.
Sound(q) ==
  /\ q \in Request
  /\ q.step \in BeforeParcel \cup AfterParcel => q.address \in Addresses /\ q.answer = "none"
  /\ q.step \in {"parcel", "regrid"} \cup AfterParcel => q.geo \in Geocodes[q.address]
  /\ q.step \in BeforeParcel => ~q.parcel /\ ~q.parcelWarning
  /\ q.step \in AfterParcel \/ Delivered(q) =>
       /\ q.parcel # q.parcelWarning
       /\ q.parcel => HasRegridKey /\ q.geo \in ParcelKnown
  /\ q.answer = "ok" => q.buildings \in Selections(q.address) \ {{}}

Sounds == req \in [Requests -> Request] /\ \A r \in Requests : Sound(req[r])

\* A cache holds, for its key, only what the service behind it may give.
GeocodesMean ==
  /\ geocodeCache \in Cache(Addresses, Locations)
  /\ \A a \in Addresses : Hit(geocodeCache, a) => geocodeCache[a] \in Geocodes[a]
ParcelsMean ==
  /\ parcelCache \in Cache(Locations, {TRUE})
  /\ \A l \in Locations : Hit(parcelCache, l) => HasRegridKey /\ l \in ParcelKnown
FootprintsMean ==
  /\ footprintCache \in Cache(Addresses, SUBSET Buildings)
  /\ \A a \in Addresses : Hit(footprintCache, a) =>
       /\ footprintCache[a] \in Selections(a) \cup {{}}
       /\ footprintCache[a] = {} => Empties(a)
IndexMeans ==
  /\ edition \in 0..MaxEdition
  /\ index \in 0..edition \cup {NoValue}
  /\ indexLock \in Requests \cup {NoValue}
  /\ OneIndexDownload
  /\ \A r \in Requests : req[r].step = "tile" => index # NoValue
EmptiesMean == \A r \in Requests : req[r].answer = "no_buildings" => Empties(req[r].address)

ResolveInv ==
  /\ Sounds
  /\ GeocodesMean
  /\ ParcelsMean
  /\ FootprintsMean
  /\ IndexMeans
  /\ EmptiesMean

LEMMA GeocodesAreLocations ==
  ASSUME NEW a \in Addresses PROVE Geocodes[a] \subseteq Locations
BY ResolveAssumption

LEMMA SelectType ==
  ASSUME NEW l \in Locations, NEW p \in BOOLEAN
  PROVE  Select(l, p) \in SUBSET Buildings
BY ResolveAssumption DEF Select

LEMMA RefusedIsSound ==
  ASSUME NEW answer \in {"geocode_failed", "fetch_failed", "lost"}
  PROVE  Sound(Refused(answer)) /\ Refused(answer).answer = answer
                                /\ Refused(answer).step = "done"
BY DEF Sound, Refused, NewRequest, Request, Steps, Answers, Delivered, BeforeParcel, AfterParcel

LEMMA AssembledIsSound ==
  ASSUME NEW q, Sound(q), q.step \in AfterParcel,
         NEW bs \in SUBSET Buildings, bs \in Selections(q.address) \cup {{}}
  PROVE  /\ Sound(Assembled(q, bs))
         /\ Assembled(q, bs).step = "done" /\ Assembled(q, bs).address = q.address
         /\ Assembled(q, bs).answer = "no_buildings" => bs = {}
<1> DEFINE p == [q EXCEPT !.step = "done", !.buildings = bs,
                          !.answer = IF bs = {} THEN "no_buildings" ELSE "ok"]
<1>1. p \in Request /\ p.step = "done" /\ p.address = q.address /\ p.buildings = bs
        /\ p.answer = (IF bs = {} THEN "no_buildings" ELSE "ok")
        /\ p.parcel = q.parcel /\ p.parcelWarning = q.parcelWarning /\ p.geo = q.geo
  BY DEF Sound, Request, Steps, Answers
<1>2. Sound(p)
  BY <1>1 DEF Sound, Delivered, BeforeParcel, AfterParcel
<1>3. QED
  BY <1>1, <1>2 DEF Assembled

\* A step of one request that leaves it sound leaves all of them sound.
LEMMA OneRequestMoves ==
  ASSUME Sounds, NEW r \in Requests, NEW q, Sound(q), req' = [req EXCEPT ![r] = q]
  PROVE  /\ Sounds'
         /\ req'[r] = q
         /\ \A p \in Requests \ {r} : req'[p] = req[p]
BY DEF Sounds, Sound

\* What the other requests were answered stays true: the edition only grows.
LEMMA EmptiesStay ==
  ASSUME NEW r \in Requests, EmptiesMean, IndexMeans, edition' \in Nat, edition' >= edition,
         \A p \in Requests \ {r} : req'[p] = req[p],
         (req[r].answer = "no_buildings" => Empties(req[r].address))'
  PROVE  EmptiesMean'
<1>1. \A a : Empties(a) => Empties(a)'
  BY DEF Empties, IndexMeans
<1>2. QED
  BY <1>1 DEF EmptiesMean

\* A step that is none of the index's leaves the lock as it is.
LEMMA IndexStays ==
  ASSUME NEW r \in Requests, IndexMeans, UNCHANGED <<edition, index, indexLock>>,
         \A p \in Requests \ {r} : req'[p] = req[p],
         req[r].step # "index", req'[r].step \notin {"index", "tile"}
  PROVE  IndexMeans'
BY DEF IndexMeans, OneIndexDownload

\* A request that is refused, by a step that leaves the caches and the index alone.
LEMMA RefusedKeeps ==
  ASSUME ResolveInv, NEW r \in Requests,
         NEW answer \in {"geocode_failed", "fetch_failed"}, Finish(r, answer),
         UNCHANGED <<geocodeCache, parcelCache, footprintCache, edition, index>>
  PROVE  /\ Sounds' /\ GeocodesMean' /\ ParcelsMean' /\ FootprintsMean' /\ EmptiesMean'
         /\ req'[r].step = "done"
         /\ \A p \in Requests \ {r} : req'[p] = req[p]
<1>1. Sound(Refused(answer)) /\ Refused(answer).answer = answer
                             /\ Refused(answer).step = "done"
  BY RefusedIsSound
<1>2. /\ Sounds' /\ req'[r] = Refused(answer)
      /\ \A p \in Requests \ {r} : req'[p] = req[p]
  <2>1. Sounds /\ req' = [req EXCEPT ![r] = Refused(answer)]
    BY DEF ResolveInv, Finish
  <2>2. QED
    BY <1>1, <2>1, OneRequestMoves
<1>3. EmptiesMean'
  <2>1. EmptiesMean /\ IndexMeans /\ edition \in Nat
    BY ResolveAssumption DEF ResolveInv, IndexMeans
  <2>2. QED
    BY <1>1, <1>2, <2>1, EmptiesStay
<1>4. GeocodesMean' /\ ParcelsMean' /\ FootprintsMean'
  BY DEF ResolveInv, GeocodesMean, ParcelsMean, FootprintsMean, Empties
<1>5. QED
  BY <1>1, <1>2, <1>3, <1>4

\* The buildings a tile yields are a selection for the address, or truthfully none.
LEMMA FetchedIsASelection ==
  ASSUME ResolveInv, NEW r \in Requests, req[r].step = "tile"
  PROVE  LET q == req[r] IN
         /\ Fetched(q) \in SUBSET Buildings
         /\ Fetched(q) \in Selections(q.address) \cup {{}}
         /\ Fetched(q) = {} => Empties(q.address)
<1> DEFINE q == req[r]
<1>1. /\ q.address \in Addresses /\ q.geo \in Geocodes[q.address] /\ q.parcel \in BOOLEAN
      /\ index \in Nat /\ edition \in Nat /\ index <= edition
  BY ResolveAssumption
     DEF ResolveInv, Sounds, Sound, Request, AfterParcel, IndexMeans
<1>2. q.geo \in Locations
  BY <1>1, GeocodesAreLocations
<1>3. CASE TileOf[q.geo] \in PublishedTiles /\ index = edition
  <2>1. Fetched(q) = Select(q.geo, q.parcel)
    BY <1>3 DEF Fetched
  <2>2. Select(q.geo, q.parcel) \in Selections(q.address)
    BY <1>1, <1>3 DEF Selections
  <2>3. QED
    BY <1>1, <1>2, <2>1, <2>2, SelectType DEF Empties
<1>4. CASE TileOf[q.geo] \notin PublishedTiles
  BY <1>1, <1>4 DEF Fetched, Empties
<1>5. CASE index # edition
  BY <1>1, <1>5 DEF Fetched, Empties
<1>6. QED
  BY <1>3, <1>4, <1>5

\* What a request goes on with when it has passed one lookup.
LEMMA GoneOn ==
  ASSUME ResolveInv, NEW r \in Requests, NEW q, Sound(q), q.answer # "no_buildings",
         req' = [req EXCEPT ![r] = q], UNCHANGED edition
  PROVE  /\ Sounds' /\ EmptiesMean' /\ req'[r] = q
         /\ \A p \in Requests \ {r} : req'[p] = req[p]
<1>1. /\ Sounds' /\ req'[r] = q
      /\ \A p \in Requests \ {r} : req'[p] = req[p]
  <2>1. Sounds
    BY DEF ResolveInv
  <2>2. QED
    BY <2>1, OneRequestMoves
<1>2. EmptiesMean'
  <2>1. EmptiesMean /\ IndexMeans /\ edition \in Nat
    BY ResolveAssumption DEF ResolveInv, IndexMeans
  <2>2. QED
    BY <1>1, <2>1, EmptiesStay
<1>3. QED
  BY <1>1, <1>2

\* The same of a step outside the index and the tile.
LEMMA LookedUp ==
  ASSUME ResolveInv, NEW r \in Requests, NEW q, Sound(q), q.answer # "no_buildings",
         q.step \notin {"index", "tile"}, req[r].step # "index",
         req' = [req EXCEPT ![r] = q], UNCHANGED <<edition, index, indexLock>>
  PROVE  Sounds' /\ EmptiesMean' /\ IndexMeans'
<1>1. /\ Sounds' /\ EmptiesMean' /\ req'[r] = q
      /\ \A p \in Requests \ {r} : req'[p] = req[p]
  BY GoneOn
<1>2. IndexMeans'
  <2>1. IndexMeans
    BY DEF ResolveInv
  <2>2. QED
    BY <1>1, <2>1, IndexStays
<1>3. QED
  BY <1>1, <1>2

LEMMA ReceiveKeeps ==
  ASSUME ResolveInv, NEW r \in Requests, NEW a \in Addresses, Receive(r, a)
  PROVE  ResolveInv'
<1> DEFINE q == NewRequest("geocode", a)
<1>1. Sound(q) /\ q.answer = "none" /\ q.step = "geocode"
  BY DEF Sound, NewRequest, Request, Steps, Answers, Delivered, BeforeParcel, AfterParcel
<1>2. req' = [req EXCEPT ![r] = q]
  BY DEF Receive
<1>3. Sounds' /\ EmptiesMean' /\ IndexMeans'
  <2> HIDE DEF q
  <2>1. req[r].step # "index" /\ UNCHANGED <<edition, index, indexLock>>
    BY DEF Receive, Idle
  <2>2. QED
    BY <1>1, <1>2, <2>1, LookedUp
<1>4. GeocodesMean' /\ ParcelsMean' /\ FootprintsMean'
  BY DEF ResolveInv, Receive, GeocodesMean, ParcelsMean, FootprintsMean, Empties
<1>5. QED
  BY <1>3, <1>4 DEF ResolveInv

LEMMA GeocodeKeeps ==
  ASSUME ResolveInv, NEW r \in Requests, Geocode(r)
  PROVE  ResolveInv'
<1> DEFINE a == req[r].address
<1>1. Sound(req[r]) /\ a \in Addresses /\ req \in [Requests -> Request]
  BY DEF ResolveInv, Sounds, Sound, Geocode, BeforeParcel
<1>2. PICK q : /\ req' = [req EXCEPT ![r] = q] /\ Sound(q) /\ q.answer = "none"
               /\ q.step \in {"parcel", "nominatim"}
  <2>1. CASE Hit(geocodeCache, a) /\
             req' = [req EXCEPT ![r].step = "parcel", ![r].geo = geocodeCache[a]]
    <3> DEFINE p == [req[r] EXCEPT !.step = "parcel", !.geo = geocodeCache[a]]
    <3>1. geocodeCache[a] \in Geocodes[a] /\ geocodeCache[a] \in Locations
      BY <1>1, <2>1, GeocodesAreLocations DEF ResolveInv, GeocodesMean
    <3>2. p \in Request /\ p.step = "parcel" /\ p.geo = geocodeCache[a] /\ p.address = a
            /\ p.answer = "none" /\ ~p.parcel /\ ~p.parcelWarning
      BY <1>1, <3>1 DEF Geocode, Sound, Request, Steps, BeforeParcel
    <3>3. Sound(p)
      BY <1>1, <3>1, <3>2 DEF Sound, Delivered, AfterParcel
    <3>4. req' = [req EXCEPT ![r] = p]
      BY <2>1
    <3>5. QED
      BY <3>2, <3>3, <3>4
  <2>2. CASE Goto(r, "nominatim")
    <3> DEFINE p == [req[r] EXCEPT !.step = "nominatim"]
    <3>1. p \in Request /\ p.step = "nominatim" /\ p.address = a
            /\ p.answer = "none" /\ ~p.parcel /\ ~p.parcelWarning
      BY <1>1 DEF Geocode, Sound, Request, Steps, BeforeParcel
    <3>2. Sound(p)
      BY <1>1, <3>1 DEF Sound, Delivered, AfterParcel
    <3>3. req' = [req EXCEPT ![r] = p]
      BY <2>2 DEF Goto
    <3>4. QED
      BY <3>1, <3>2, <3>3
  <2>3. QED
    BY <2>1, <2>2 DEF Geocode
<1>3. Sounds' /\ EmptiesMean' /\ IndexMeans'
  <2>1. req[r].step # "index" /\ UNCHANGED <<edition, index, indexLock>>
    BY DEF Geocode
  <2>2. QED
    BY <1>2, <2>1, LookedUp
<1>4. GeocodesMean'
  BY <1>1 DEF ResolveInv, Geocode, GeocodesMean, Cache, Drop, Hit
<1>5. ParcelsMean' /\ FootprintsMean'
  BY DEF ResolveInv, Geocode, ParcelsMean, FootprintsMean, Empties
<1>6. QED
  BY <1>3, <1>4, <1>5 DEF ResolveInv

LEMMA NominatimAnswersKeeps ==
  ASSUME ResolveInv, NEW r \in Requests, NominatimAnswers(r)
  PROVE  ResolveInv'
<1> DEFINE a == req[r].address
<1>1. Sound(req[r]) /\ a \in Addresses /\ req \in [Requests -> Request]
  BY DEF ResolveInv, Sounds, Sound, NominatimAnswers, BeforeParcel
<1>2. PICK l \in Geocodes[a] :
        /\ req' = [req EXCEPT ![r].step = "parcel", ![r].geo = l]
        /\ geocodeCache' = Put(geocodeCache, a, l)
  BY DEF NominatimAnswers
<1>3. l \in Locations
  BY <1>1, GeocodesAreLocations
<1> DEFINE q == [req[r] EXCEPT !.step = "parcel", !.geo = l]
<1>4. Sound(q) /\ q.answer = "none" /\ q.step = "parcel"
  <2>1. q \in Request /\ q.step = "parcel" /\ q.geo = l /\ q.address = a
          /\ q.answer = "none" /\ ~q.parcel /\ ~q.parcelWarning
    BY <1>1, <1>3 DEF NominatimAnswers, Sound, Request, Steps, BeforeParcel
  <2>2. QED
    BY <1>1, <2>1 DEF Sound, Delivered, AfterParcel
<1>5. req' = [req EXCEPT ![r] = q]
  BY <1>2
<1>6. Sounds' /\ EmptiesMean' /\ IndexMeans'
  <2> HIDE DEF q
  <2>1. req[r].step # "index" /\ UNCHANGED <<edition, index, indexLock>>
    BY DEF NominatimAnswers
  <2>2. QED
    BY <1>4, <1>5, <2>1, LookedUp
<1>7. GeocodesMean'
  BY <1>1, <1>2, <1>3 DEF ResolveInv, GeocodesMean, Cache, Put, Hit
<1>8. ParcelsMean' /\ FootprintsMean'
  BY DEF ResolveInv, NominatimAnswers, ParcelsMean, FootprintsMean, Empties
<1>9. QED
  BY <1>6, <1>7, <1>8 DEF ResolveInv

LEMMA NominatimFailsKeeps ==
  ASSUME ResolveInv, NEW r \in Requests, NominatimFails(r)
  PROVE  ResolveInv'
<1> DEFINE q == Refused("geocode_failed")
<1>1. Sound(q) /\ q.answer = "geocode_failed" /\ q.step = "done"
  BY RefusedIsSound
<1>2. Sounds' /\ EmptiesMean' /\ IndexMeans'
  <2> HIDE DEF q
  <2>1. /\ req' = [req EXCEPT ![r] = q] /\ req[r].step # "index"
        /\ UNCHANGED <<edition, index, indexLock>>
    BY DEF NominatimFails, Finish, q
  <2>2. QED
    BY <1>1, <2>1, LookedUp
<1>3. GeocodesMean' /\ ParcelsMean' /\ FootprintsMean'
  BY DEF ResolveInv, NominatimFails, GeocodesMean, ParcelsMean, FootprintsMean, Empties
<1>4. QED
  BY <1>2, <1>3 DEF ResolveInv

\* A request past the parcel step, with a parcel Regrid has or with the warning.
LEMMA ParcelPassed ==
  ASSUME NEW q, Sound(q), q.step \in {"parcel", "regrid"},
         NEW parcel \in BOOLEAN, parcel => HasRegridKey /\ q.geo \in ParcelKnown
  PROVE  LET p == [q EXCEPT !.step = "footprints", !.parcel = parcel,
                            !.parcelWarning = ~parcel]
         IN Sound(p) /\ p.answer = "none" /\ p.step = "footprints"
<1> DEFINE p == [q EXCEPT !.step = "footprints", !.parcel = parcel, !.parcelWarning = ~parcel]
<1>1. p \in Request /\ p.step = "footprints" /\ p.geo = q.geo /\ p.address = q.address
        /\ p.answer = "none" /\ p.parcel = parcel /\ p.parcelWarning = ~parcel
  BY DEF Sound, Request, Steps, BeforeParcel
<1>2. Sound(p)
  BY <1>1 DEF Sound, BeforeParcel
<1>3. QED
  BY <1>1, <1>2

LEMMA LookUpParcelKeeps ==
  ASSUME ResolveInv, NEW r \in Requests, LookUpParcel(r)
  PROVE  ResolveInv'
<1> DEFINE l == req[r].geo
<1>1. /\ Sound(req[r]) /\ l \in Locations /\ req \in [Requests -> Request]
      /\ req[r].step = "parcel" /\ ~req[r].parcel /\ ~req[r].parcelWarning
  BY GeocodesAreLocations
     DEF ResolveInv, Sounds, Sound, LookUpParcel, BeforeParcel, AfterParcel
<1>2. PICK q : /\ req' = [req EXCEPT ![r] = q] /\ Sound(q) /\ q.answer = "none"
               /\ q.step \in {"footprints", "regrid"}
  <2>1. CASE Hit(parcelCache, l) /\
             req' = [req EXCEPT ![r].step = "footprints", ![r].parcel = TRUE]
    <3> DEFINE p == [req[r] EXCEPT !.step = "footprints", !.parcel = TRUE,
                                   !.parcelWarning = ~TRUE]
    <3>1. HasRegridKey /\ l \in ParcelKnown
      BY <1>1, <2>1 DEF ResolveInv, ParcelsMean
    <3>2. Sound(p) /\ p.answer = "none" /\ p.step = "footprints"
      BY <1>1, <3>1, ParcelPassed
    <3>3. req' = [req EXCEPT ![r] = p]
      BY <1>1, <2>1 DEF Request
    <3>4. QED
      BY <3>2, <3>3
  <2>2. CASE Goto(r, "regrid")
    <3> DEFINE p == [req[r] EXCEPT !.step = "regrid"]
    <3>1. /\ p \in Request /\ p.step = "regrid" /\ p.address = req[r].address
          /\ p.geo = l /\ p.answer = "none" /\ ~p.parcel /\ ~p.parcelWarning
      BY <1>1 DEF Sound, Request, Steps, BeforeParcel
    <3>2. Sound(p)
      BY <1>1, <3>1 DEF Sound, Delivered, BeforeParcel, AfterParcel
    <3>3. req' = [req EXCEPT ![r] = p]
      BY <2>2 DEF Goto
    <3>4. QED
      BY <3>1, <3>2, <3>3
  <2>3. QED
    BY <2>1, <2>2 DEF LookUpParcel
<1>3. Sounds' /\ EmptiesMean' /\ IndexMeans'
  <2>1. req[r].step # "index" /\ UNCHANGED <<edition, index, indexLock>>
    BY DEF LookUpParcel
  <2>2. QED
    BY <1>2, <2>1, LookedUp
<1>4. ParcelsMean'
  BY <1>1 DEF ResolveInv, LookUpParcel, ParcelsMean, Cache, Drop, Hit
<1>5. GeocodesMean' /\ FootprintsMean'
  BY DEF ResolveInv, LookUpParcel, GeocodesMean, FootprintsMean, Empties
<1>6. QED
  BY <1>3, <1>4, <1>5 DEF ResolveInv

LEMMA RegridAnswersKeeps ==
  ASSUME ResolveInv, NEW r \in Requests, RegridAnswers(r)
  PROVE  ResolveInv'
<1>1. /\ Sound(req[r]) /\ req[r].geo \in Locations /\ req \in [Requests -> Request]
      /\ req[r].step = "regrid" /\ ~req[r].parcel /\ ~req[r].parcelWarning
  BY GeocodesAreLocations
     DEF ResolveInv, Sounds, Sound, RegridAnswers, BeforeParcel, AfterParcel
<1> DEFINE q == [req[r] EXCEPT !.step = "footprints", !.parcel = TRUE,
                               !.parcelWarning = ~TRUE]
<1>2. Sound(q) /\ q.answer = "none" /\ q.step = "footprints"
  BY <1>1, ParcelPassed DEF RegridAnswers
<1>3. req' = [req EXCEPT ![r] = q]
  BY <1>1 DEF RegridAnswers, Request
<1>4. Sounds' /\ EmptiesMean' /\ IndexMeans'
  <2> HIDE DEF q
  <2>1. req[r].step # "index" /\ UNCHANGED <<edition, index, indexLock>>
    BY DEF RegridAnswers
  <2>2. QED
    BY <1>2, <1>3, <2>1, LookedUp
<1>5. ParcelsMean'
  BY <1>1 DEF ResolveInv, RegridAnswers, ParcelsMean, Cache, Put, Hit
<1>6. GeocodesMean' /\ FootprintsMean'
  BY DEF ResolveInv, RegridAnswers, GeocodesMean, FootprintsMean, Empties
<1>7. QED
  BY <1>4, <1>5, <1>6 DEF ResolveInv

LEMMA RegridDegradesKeeps ==
  ASSUME ResolveInv, NEW r \in Requests, RegridDegrades(r)
  PROVE  ResolveInv'
<1>1. /\ Sound(req[r]) /\ req \in [Requests -> Request]
      /\ req[r].step = "regrid" /\ ~req[r].parcel /\ ~req[r].parcelWarning
  BY DEF ResolveInv, Sounds, Sound, RegridDegrades, BeforeParcel
<1> DEFINE q == [req[r] EXCEPT !.step = "footprints", !.parcel = FALSE,
                               !.parcelWarning = ~FALSE]
<1>2. Sound(q) /\ q.answer = "none" /\ q.step = "footprints"
  BY <1>1, ParcelPassed
<1>3. req' = [req EXCEPT ![r] = q]
  BY <1>1 DEF RegridDegrades, Request
<1>4. Sounds' /\ EmptiesMean' /\ IndexMeans'
  <2> HIDE DEF q
  <2>1. req[r].step # "index" /\ UNCHANGED <<edition, index, indexLock>>
    BY DEF RegridDegrades
  <2>2. QED
    BY <1>2, <1>3, <2>1, LookedUp
<1>5. GeocodesMean' /\ ParcelsMean' /\ FootprintsMean'
  BY DEF ResolveInv, RegridDegrades, GeocodesMean, ParcelsMean, FootprintsMean, Empties
<1>6. QED
  BY <1>4, <1>5 DEF ResolveInv

LEMMA LookUpFootprintsKeeps ==
  ASSUME ResolveInv, NEW r \in Requests, LookUpFootprints(r)
  PROVE  ResolveInv'
<1> DEFINE a == req[r].address
<1>1. /\ Sound(req[r]) /\ a \in Addresses /\ req \in [Requests -> Request]
      /\ req[r].step = "footprints"
  BY DEF ResolveInv, Sounds, Sound, LookUpFootprints, AfterParcel
<1>2. GeocodesMean' /\ ParcelsMean'
  BY DEF ResolveInv, LookUpFootprints, GeocodesMean, ParcelsMean
<1>3. FootprintsMean'
  BY <1>1 DEF ResolveInv, LookUpFootprints, FootprintsMean, Cache, Drop, Hit, Empties
<1>4. UNCHANGED <<edition, index, indexLock>>
  BY DEF LookUpFootprints
<1>5. CASE Hit(footprintCache, a) /\ req' = [req EXCEPT ![r] = Assembled(@, footprintCache[a])]
  <2> DEFINE q == Assembled(req[r], footprintCache[a])
  <2>1. /\ footprintCache[a] \in SUBSET Buildings
        /\ footprintCache[a] \in Selections(a) \cup {{}}
        /\ footprintCache[a] = {} => Empties(a)
    BY <1>1, <1>5 DEF ResolveInv, FootprintsMean, Cache, Hit
  <2>2. /\ Sound(q) /\ q.step = "done" /\ q.address = a
        /\ q.answer = "no_buildings" => Empties(a)
    BY <1>1, <2>1, AssembledIsSound DEF AfterParcel
  <2>3. req' = [req EXCEPT ![r] = q]
    BY <1>5
  <2> HIDE DEF q
  <2>4. /\ Sounds' /\ req'[r] = q
        /\ \A p \in Requests \ {r} : req'[p] = req[p]
    BY <2>2, <2>3, OneRequestMoves DEF ResolveInv
  <2>5. IndexMeans'
    <3>1. IndexMeans
      BY DEF ResolveInv
    <3>2. QED
      BY <1>1, <1>4, <2>2, <2>4, <3>1, IndexStays
  <2>6. EmptiesMean'
    <3>1. EmptiesMean /\ IndexMeans /\ edition \in Nat /\ edition' = edition
      BY <1>4, ResolveAssumption DEF ResolveInv, IndexMeans
    <3>2. (req[r].answer = "no_buildings" => Empties(req[r].address))'
      BY <1>4, <2>2, <2>4 DEF Empties
    <3>3. QED
      BY <2>4, <3>1, <3>2, EmptiesStay
  <2>7. QED
    BY <1>2, <1>3, <2>4, <2>5, <2>6 DEF ResolveInv
<1>6. CASE Goto(r, "resolve_tile")
  <2> DEFINE q == [req[r] EXCEPT !.step = "resolve_tile"]
  <2>1. Sound(q) /\ q.answer = "none" /\ q.step = "resolve_tile"
    <3>1. /\ q \in Request /\ q.step = "resolve_tile" /\ q.address = a
          /\ q.geo = req[r].geo /\ q.answer = "none" /\ q.parcel = req[r].parcel
          /\ q.parcelWarning = req[r].parcelWarning
      BY <1>1 DEF Sound, Request, Steps, AfterParcel
    <3>2. QED
      BY <1>1, <3>1 DEF Sound, Delivered, BeforeParcel, AfterParcel
  <2>2. req' = [req EXCEPT ![r] = q]
    BY <1>6 DEF Goto
  <2> HIDE DEF q
  <2>3. QED
    BY <1>1, <1>2, <1>3, <1>4, <2>1, <2>2, LookedUp DEF ResolveInv
<1>7. QED
  BY <1>5, <1>6 DEF LookUpFootprints

\* A request that only goes on to another step after the parcel's is as sound as before.
LEMMA WentOn ==
  ASSUME ResolveInv, NEW r \in Requests, req[r].step \in AfterParcel,
         NEW step \in AfterParcel, Goto(r, step),
         UNCHANGED <<geocodeCache, parcelCache, footprintCache, edition>>
  PROVE  /\ Sounds' /\ EmptiesMean' /\ GeocodesMean' /\ ParcelsMean' /\ FootprintsMean'
         /\ req'[r].step = step
         /\ \A p \in Requests \ {r} : req'[p] = req[p]
<1> DEFINE q == [req[r] EXCEPT !.step = step]
<1>1. Sound(req[r]) /\ req \in [Requests -> Request]
  BY DEF ResolveInv, Sounds
<1>2. Sound(q) /\ q.answer = "none" /\ q.step = step
  <2>1. /\ q \in Request /\ q.step = step /\ q.address = req[r].address
        /\ q.geo = req[r].geo /\ q.answer = "none" /\ q.parcel = req[r].parcel
        /\ q.parcelWarning = req[r].parcelWarning
    BY <1>1 DEF Sound, Request, Steps, AfterParcel
  <2>2. QED
    BY <1>1, <2>1 DEF Sound, Delivered, BeforeParcel, AfterParcel
<1>3. req' = [req EXCEPT ![r] = q]
  BY DEF Goto
<1>4. GeocodesMean' /\ ParcelsMean' /\ FootprintsMean'
  BY DEF ResolveInv, GeocodesMean, ParcelsMean, FootprintsMean, Empties
<1> HIDE DEF q
<1>5. QED
  BY <1>2, <1>3, <1>4, GoneOn

LEMMA TestIndexKeeps ==
  ASSUME ResolveInv, NEW r \in Requests, TestIndex(r)
  PROVE  ResolveInv'
<1>1. PICK step \in {"tile", "lock"} :
        Goto(r, step) /\ (step = "tile" => index # NoValue)
  BY DEF TestIndex
<1>2. /\ Sounds' /\ EmptiesMean' /\ GeocodesMean' /\ ParcelsMean' /\ FootprintsMean'
      /\ req'[r].step = step
      /\ \A p \in Requests \ {r} : req'[p] = req[p]
  BY <1>1, WentOn DEF TestIndex, AfterParcel
<1>3. IndexMeans'
  BY <1>1, <1>2 DEF ResolveInv, TestIndex, IndexMeans, OneIndexDownload
<1>4. QED
  BY <1>2, <1>3 DEF ResolveInv

LEMMA LockIndexKeeps ==
  ASSUME ResolveInv, NEW r \in Requests, LockIndex(r)
  PROVE  ResolveInv'
<1>1. PICK step \in {"tile", "index"} :
        /\ Goto(r, step)
        /\ step = "tile" => index # NoValue /\ UNCHANGED indexLock
        /\ step = "index" => index = NoValue /\ indexLock' = r
  BY DEF LockIndex
<1>2. /\ Sounds' /\ EmptiesMean' /\ GeocodesMean' /\ ParcelsMean' /\ FootprintsMean'
      /\ req'[r].step = step
      /\ \A p \in Requests \ {r} : req'[p] = req[p]
  BY <1>1, WentOn DEF LockIndex, AfterParcel
<1>3. IndexMeans'
  BY <1>1, <1>2, ResolveAssumption DEF ResolveInv, LockIndex, IndexMeans, OneIndexDownload
<1>4. QED
  BY <1>2, <1>3 DEF ResolveInv

LEMMA IndexAnswersKeeps ==
  ASSUME ResolveInv, NEW r \in Requests, IndexAnswers(r)
  PROVE  ResolveInv'
<1>1. /\ Sounds' /\ EmptiesMean' /\ GeocodesMean' /\ ParcelsMean' /\ FootprintsMean'
      /\ req'[r].step = "tile"
      /\ \A p \in Requests \ {r} : req'[p] = req[p]
  BY WentOn DEF IndexAnswers, AfterParcel
<1>2. IndexMeans'
  BY <1>1, ResolveAssumption DEF ResolveInv, IndexAnswers, IndexMeans, OneIndexDownload
<1>3. QED
  BY <1>1, <1>2 DEF ResolveInv

LEMMA IndexFailsKeeps ==
  ASSUME ResolveInv, NEW r \in Requests, IndexFails(r)
  PROVE  ResolveInv'
<1>1. /\ Sounds' /\ GeocodesMean' /\ ParcelsMean' /\ FootprintsMean' /\ EmptiesMean'
      /\ req'[r].step = "done"
      /\ \A p \in Requests \ {r} : req'[p] = req[p]
  BY RefusedKeeps DEF IndexFails
<1>2. IndexMeans'
  BY <1>1, ResolveAssumption DEF ResolveInv, IndexFails, IndexMeans, OneIndexDownload
<1>3. QED
  BY <1>1, <1>2 DEF ResolveInv

LEMMA TileAnswersKeeps ==
  ASSUME ResolveInv, NEW r \in Requests, TileAnswers(r)
  PROVE  ResolveInv'
<1> DEFINE a == req[r].address
           bs == Fetched(req[r])
           q == Assembled(req[r], bs)
<1>1. /\ Sound(req[r]) /\ a \in Addresses /\ req \in [Requests -> Request]
      /\ req[r].step = "tile"
  BY DEF ResolveInv, Sounds, Sound, TileAnswers, AfterParcel
<1>2. bs \in SUBSET Buildings /\ bs \in Selections(a) \cup {{}} /\ (bs = {} => Empties(a))
  BY <1>1, FetchedIsASelection
<1>3. /\ UNCHANGED <<geocodeCache, parcelCache, edition, index, indexLock>>
      /\ footprintCache' = Put(footprintCache, a, bs)
      /\ req' = [req EXCEPT ![r] = q]
  BY DEF TileAnswers, Footprints
<1> HIDE DEF bs
<1>4. /\ Sound(q) /\ q.step = "done" /\ q.address = a
      /\ q.answer = "no_buildings" => Empties(a)
  BY <1>1, <1>2, AssembledIsSound DEF AfterParcel
<1> HIDE DEF q
<1>5. /\ Sounds' /\ req'[r] = q
      /\ \A p \in Requests \ {r} : req'[p] = req[p]
  BY <1>3, <1>4, OneRequestMoves DEF ResolveInv
<1>6. IndexMeans'
  <2>1. IndexMeans
    BY DEF ResolveInv
  <2>2. QED
    BY <1>1, <1>3, <1>4, <1>5, <2>1, IndexStays
<1>7. EmptiesMean'
  <2>1. EmptiesMean /\ IndexMeans /\ edition \in Nat /\ edition' = edition
    BY <1>3, ResolveAssumption DEF ResolveInv, IndexMeans
  <2>2. (req[r].answer = "no_buildings" => Empties(req[r].address))'
    BY <1>3, <1>4, <1>5 DEF Empties
  <2>3. QED
    BY <1>5, <2>1, <2>2, EmptiesStay
<1>8. GeocodesMean' /\ ParcelsMean'
  BY <1>3 DEF ResolveInv, GeocodesMean, ParcelsMean
<1>9. FootprintsMean'
  BY <1>1, <1>2, <1>3 DEF ResolveInv, FootprintsMean, Cache, Put, Hit, Empties
<1>10. QED
  BY <1>5, <1>6, <1>7, <1>8, <1>9 DEF ResolveInv

LEMMA TileFailsKeeps ==
  ASSUME ResolveInv, NEW r \in Requests, TileFails(r)
  PROVE  ResolveInv'
<1>1. /\ Sounds' /\ GeocodesMean' /\ ParcelsMean' /\ FootprintsMean' /\ EmptiesMean'
      /\ req'[r].step = "done"
      /\ \A p \in Requests \ {r} : req'[p] = req[p]
  BY RefusedKeeps DEF TileFails
<1>2. IndexMeans'
  BY <1>1 DEF ResolveInv, TileFails, IndexMeans, OneIndexDownload
<1>3. QED
  BY <1>1, <1>2 DEF ResolveInv

LEMMA RepublishKeeps == ResolveInv /\ Republish => ResolveInv'
<1> SUFFICES ASSUME ResolveInv, Republish PROVE ResolveInv'
  OBVIOUS
<1>1. edition \in Nat /\ edition' = edition + 1 /\ edition' \in 0..MaxEdition
  BY ResolveAssumption DEF ResolveInv, IndexMeans, Republish
<1>2. \A a : Empties(a) => Empties(a)'
  BY <1>1 DEF Empties
<1>3. Sounds' /\ GeocodesMean' /\ ParcelsMean' /\ EmptiesMean'
  BY <1>2 DEF ResolveInv, Republish, Sounds, GeocodesMean, ParcelsMean, EmptiesMean
<1>4. FootprintsMean'
  BY <1>2 DEF ResolveInv, Republish, FootprintsMean
<1>5. IndexMeans'
  BY <1>1, ResolveAssumption DEF ResolveInv, Republish, IndexMeans, OneIndexDownload
<1>6. QED
  BY <1>3, <1>4, <1>5 DEF ResolveInv

LEMMA ResolveRestartKeeps == ResolveInv /\ ResolveRestart => ResolveInv'
<1> SUFFICES ASSUME ResolveInv, ResolveRestart PROVE ResolveInv'
  OBVIOUS
<1>1. Sound(Refused("lost")) /\ Refused("lost").answer = "lost" /\ Refused("lost").step = "done"
  BY RefusedIsSound
<1>2. \A r \in Requests : (req'[r] = req[r] /\ Idle(r)) \/ req'[r] = Refused("lost")
  BY DEF ResolveRestart
<1>3. Sounds'
  <2>1. \A r \in Requests : Sound(req'[r]) /\ req'[r] \in Request
    BY <1>1, <1>2 DEF ResolveInv, Sounds, Sound
  <2>2. req' \in [Requests -> Request]
    BY <2>1 DEF ResolveRestart
  <2>3. QED
    BY <2>1, <2>2 DEF Sounds
<1>4. EmptiesMean'
  BY <1>1, <1>2 DEF ResolveInv, ResolveRestart, EmptiesMean, Empties
<1>5. GeocodesMean' /\ ParcelsMean' /\ FootprintsMean'
  BY DEF ResolveRestart, GeocodesMean, ParcelsMean, FootprintsMean, Cache, Empty, Hit
<1>6. IndexMeans'
  <2>1. \A r \in Requests : req'[r].step \in {"idle", "done"}
    BY <1>1, <1>2 DEF Idle
  <2>2. QED
    BY <2>1, ResolveAssumption
       DEF ResolveInv, ResolveRestart, IndexMeans, OneIndexDownload
<1>7. QED
  BY <1>3, <1>4, <1>5, <1>6 DEF ResolveInv

LEMMA ResolveInductive == ResolveInv /\ [ResolveMove]_resolveVars => ResolveInv'
<1> SUFFICES ASSUME ResolveInv, [ResolveMove]_resolveVars PROVE ResolveInv'
  OBVIOUS
<1>1. ASSUME NEW r \in Requests, ResolveStep(r) PROVE ResolveInv'
  BY <1>1, GeocodeKeeps, NominatimAnswersKeeps, NominatimFailsKeeps, LookUpParcelKeeps,
     RegridAnswersKeeps, RegridDegradesKeeps, LookUpFootprintsKeeps, TestIndexKeeps,
     LockIndexKeeps, IndexAnswersKeeps, IndexFailsKeeps, TileAnswersKeeps, TileFailsKeeps
     DEF ResolveStep
<1>2. CASE UNCHANGED resolveVars
  BY <1>2 DEF resolveVars, ResolveInv, Sounds, GeocodesMean, ParcelsMean, FootprintsMean,
     IndexMeans, OneIndexDownload, EmptiesMean, Empties
<1>3. QED
  BY <1>1, <1>2, ReceiveKeeps, ResolveRestartKeeps, RepublishKeeps DEF ResolveMove

LEMMA ResolveStarts == Init => ResolveInv
<1> SUFFICES ASSUME Init PROVE ResolveInv
  OBVIOUS
<1>1. Sounds
  BY DEF Init, CallsInit, ResolveInit, Sounds, Sound, NewRequest, Request, Steps, Answers,
     Delivered, BeforeParcel, AfterParcel
<1>2. GeocodesMean /\ ParcelsMean /\ FootprintsMean
  BY DEF Init, CallsInit, ResolveInit, GeocodesMean, ParcelsMean, FootprintsMean, Cache,
     Empty, Hit
<1>3. IndexMeans /\ EmptiesMean
  BY ResolveAssumption DEF Init, CallsInit, ResolveInit, NewRequest, IndexMeans,
     OneIndexDownload, EmptiesMean
<1>4. QED
  BY <1>1, <1>2, <1>3 DEF ResolveInv

\* Requests, caches and index stay as ResolveInv says for any number of callers: a cache
\* entry is always one its service may give for its key (InMemoryTTLCache of cache.py).
THEOREM ResolveIsSound == Spec => []ResolveInv
<1>1. Init => ResolveInv
  BY ResolveStarts
<1>2. ResolveInv /\ [Next]_vars => ResolveInv'
  BY ResolveMoves, ResolveInductive
<1>3. QED
  BY <1>1, <1>2, PTL DEF Spec

\* The index is downloaded by one thread at a time, never again while the process has
\* it, and the lock is held by nobody else (_load_dataset_index of ms_footprints.py).
THEOREM OneDownload == Spec => []OneIndexDownload
<1>1. ResolveInv => OneIndexDownload
  BY DEF ResolveInv, IndexMeans
<1>2. QED
  BY <1>1, ResolveIsSound, PTL

\* A parcel is Regrid's own for the point answered, or the warning is there; a failure
\* of Regrid is never remembered (fetch_parcel and its cache).
THEOREM HonestParcel == Spec => []ParcelIsHonest
<1>1. ResolveInv => ParcelIsHonest
  BY DEF ResolveInv, Sounds, Sound, Delivered, ParcelIsHonest
<1>2. QED
  BY <1>1, ResolveIsSound, PTL

\* The buildings answered are the address's own, and "no buildings" is never an upstream
\* error, whatever the caches, the restarts and the other callers do.
THEOREM AnswersOwnAddress == Spec => []AnswersItsAddress
<1>1. ResolveInv => AnswersItsAddress
  <2> SUFFICES ASSUME ResolveInv, NEW r \in Requests
               PROVE  LET a == req[r].address IN
                      /\ req[r].answer = "ok" => req[r].buildings \in Selections(a) \ {{}}
                      /\ req[r].answer = "no_buildings" =>
                           \/ {} \in Selections(a)
                           \/ \E l \in Geocodes[a] : TileOf[l] \notin PublishedTiles
                           \/ edition > 0
    BY DEF AnswersItsAddress
  <2>1. Sound(req[r]) /\ (req[r].answer = "no_buildings" => Empties(req[r].address))
    BY DEF ResolveInv, Sounds, EmptiesMean
  <2>2. QED
    BY <2>1 DEF Sound, Empties
<1>2. QED
  BY <1>1, ResolveIsSound, PTL

-----------------------------------------------------------------------------
(* LiDAR ingest.                                                             *)

IngestMove ==
  \/ \E r \in Requests : IngestStep(r) \/ \E b \in Buildings : ReceiveIngest(r, b)
  \/ IngestRestart

\* The building a caller sends is one it was answered, so that it is a building.
LEMMA IngestMoves == ResolveInv /\ [Next]_vars => [IngestMove]_ingestVars
<1> SUFFICES ASSUME ResolveInv, [Next]_vars PROVE [IngestMove]_ingestVars
  OBVIOUS
<1>1. CASE Calls
  <2>1. ASSUME NEW r \in Requests, Resolve(r) PROVE UNCHANGED ingestVars
    BY <2>1 DEF Resolve
  <2>2. ASSUME NEW r \in Requests, IngestChosen(r) PROVE IngestMove
    <3>1. PICK b \in req[r].buildings : ReceiveIngest(r, b)
      BY <2>2 DEF IngestChosen
    <3>2. b \in Buildings
      BY DEF ResolveInv, Sounds, Request
    <3>3. QED
      BY <3>1, <3>2 DEF IngestMove
  <2>3. ASSUME NEW r \in Requests, Serve(r) PROVE [IngestMove]_ingestVars
    BY <2>3 DEF Serve, IngestMove
  <2>4. QED
    BY <1>1, <2>1, <2>2, <2>3 DEF Calls, Restart, World, IngestMove
<1>2. CASE StageArrives \/ StageStep \/ UNCHANGED vars
  BY <1>2 DEF StageArrives, StageStep, vars, callVars
<1>3. QED
  BY <1>1, <1>2 DEF Next

\* What an answer "missing" has to rest on, by the constants alone.
Unmistakable == Published \ Mistakable
Gap(q) ==
  LET b == q.building IN
  \/ Covering[b] = <<>>
  \/ /\ \A i \in DOMAIN Covering[b] : NameGuess[Covering[b][i]] \notin Unmistakable
     /\ \/ "ept_index_unavailable" \in q.warnings
        \/ \A i \in DOMAIN Resolved[b] : Resolved[b][i] \notin Unmistakable
  \/ \E x \in Published : RoofPoints(Cloud[x][b]) = 0 /\ q.resource = x

\* A published resource of the building, other than one taken for absent, is still to be tried.
Pending(q, x) == x \in Unmistakable => \E j \in DOMAIN q.todo : q.todo[j].resource = x
NothingPassedOver(q) ==
  LET b == q.building IN
  /\ \A i \in DOMAIN Covering[b] : Pending(q, NameGuess[Covering[b][i]])
  /\ \/ "ept_index_unavailable" \in q.warnings
     \/ \A i \in DOMAIN Resolved[b] : Pending(q, Resolved[b][i])

SoundIngest(q) ==
  /\ q \in Ingest
  /\ q.step \notin {"idle", "done"} => q.building \in Buildings /\ q.answer = "none"
  /\ q.step = "index" => q.unit \in Units
  /\ q.step = "crop" => NothingPassedOver(q)
  /\ q.step = "extract" => q.resource \in Published
  /\ q.answer = "missing" => Gap(q)

IngestInv ==
  /\ eptIndexLoaded \in BOOLEAN
  /\ blobs \in [Buildings -> Nat \cup {NoValue}]
  /\ ing \in [Requests -> Ingest]
  /\ \A r \in Requests : SoundIngest(ing[r])

LEMMA OneIngestMoves ==
  ASSUME IngestInv, NEW r \in Requests, NEW q, SoundIngest(q), ing' = [ing EXCEPT ![r] = q],
         eptIndexLoaded' \in BOOLEAN, blobs' \in [Buildings -> Nat \cup {NoValue}]
  PROVE  IngestInv'
BY DEF IngestInv, SoundIngest

LEMMA RefusalIsSound ==
  ASSUME NEW answer \in {"failed", "lost"}
  PROVE  SoundIngest(Refusal(answer))
<1> DEFINE q == [NewIngest("done", NoValue) EXCEPT !.answer = answer]
<1>1. <<>> \in Seq(Candidates) /\ 0 \in 0..(ReadAttempts - 1)
  BY IngestAssumption
<1>2. q \in Ingest /\ q.step = "done" /\ q.answer = answer
  BY <1>1 DEF NewIngest, Ingest, IngestSteps, IngestAnswers, Reasons
<1>3. QED
  BY <1>2 DEF SoundIngest, Refusal

LEMMA NewIsSound ==
  ASSUME NEW b \in Buildings
  PROVE  SoundIngest(NewIngest("coverage", b))
<1>1. <<>> \in Seq(Candidates) /\ 0 \in 0..(ReadAttempts - 1)
  BY IngestAssumption
<1>2. QED
  BY <1>1 DEF SoundIngest, NewIngest, Ingest, IngestSteps, IngestAnswers, Reasons

\* A request that ends with a gap it rests on.
LEMMA MissingIsSound ==
  ASSUME NEW q, SoundIngest(q), Gap(q), NEW reason \in Reasons
  PROVE  SoundIngest(Answered(q, "missing", reason))
<1> DEFINE p == [q EXCEPT !.step = "done", !.todo = <<>>, !.reads = 0, !.answer = "missing",
                          !.reason = reason]
<1>1. <<>> \in Seq(Candidates) /\ 0 \in 0..(ReadAttempts - 1)
  BY IngestAssumption
<1>2. /\ p \in Ingest /\ p.step = "done" /\ p.building = q.building
      /\ p.warnings = q.warnings /\ p.resource = q.resource
  BY <1>1 DEF SoundIngest, Ingest, IngestSteps, IngestAnswers
<1>3. QED
  BY <1>2 DEF SoundIngest, Gap, Answered

LEMMA CoverageTypes ==
  ASSUME NEW b \in Buildings
  PROVE  /\ Covering[b] \in Seq(Units) /\ Resolved[b] \in Seq(Resources)
         /\ \A x \in Resources : RoofPoints(Cloud[x][b]) \in Nat
BY IngestAssumption DEF RoofPoints

LEMMA CheckCoverageKeeps ==
  ASSUME IngestInv, NEW r \in Requests, CheckCoverage(r) PROVE IngestInv'
<1> DEFINE units == Covering[ing[r].building]
<1>1. SoundIngest(ing[r]) /\ ing[r].building \in Buildings /\ ing[r].step = "coverage"
  BY DEF IngestInv, SoundIngest, CheckCoverage
<1>2. units \in Seq(Units)
  BY <1>1, CoverageTypes
<1>3. eptIndexLoaded' \in BOOLEAN /\ blobs' \in [Buildings -> Nat \cup {NoValue}]
  BY DEF IngestInv, CheckCoverage
<1>4. CASE units = <<>>
  <2>1. SoundIngest(Answered(ing[r], "missing", "no_coverage"))
    BY <1>1, <1>4, MissingIsSound DEF Gap, Reasons
  <2>2. ing' = [ing EXCEPT ![r] = Answered(ing[r], "missing", "no_coverage")]
    BY <1>4 DEF CheckCoverage, Missing
  <2>3. QED
    BY <1>3, <2>1, <2>2, OneIngestMoves
<1>5. CASE units # <<>>
  <2> DEFINE q == [ing[r] EXCEPT !.step = "index", !.unit = Head(units)]
  <2>1. Head(units) \in Units
    BY <1>2, <1>5
  <2>2. /\ q \in Ingest /\ q.step = "index" /\ q.unit \in Units /\ q.answer = "none"
        /\ q.building \in Buildings
    BY <1>1, <2>1 DEF SoundIngest, Ingest, IngestSteps
  <2>3. ing' = [ing EXCEPT ![r] = q]
    BY <1>5 DEF CheckCoverage
  <2>4. SoundIngest(q)
    BY <2>2 DEF SoundIngest
  <2>5. QED
    BY <1>3, <2>3, <2>4, OneIngestMoves
<1>6. QED
  BY <1>4, <1>5

LEMMA RefusalKeeps ==
  ASSUME IngestInv, NEW r \in Requests, BadGateway(r), UNCHANGED <<eptIndexLoaded, blobs>>
  PROVE  IngestInv'
<1>1. ing' = [ing EXCEPT ![r] = Refusal("failed")] /\ SoundIngest(Refusal("failed"))
  BY RefusalIsSound DEF BadGateway
<1>2. eptIndexLoaded' \in BOOLEAN /\ blobs' \in [Buildings -> Nat \cup {NoValue}]
  BY DEF IngestInv
<1>3. QED
  BY <1>1, <1>2, OneIngestMoves

LEMMA CandidateTypes ==
  ASSUME NEW q, q \in Ingest, q.building \in Buildings, q.unit \in Units
  PROVE  Indexed(q) \in Seq(Candidates) /\ Guesses(q) \in Seq(Candidates)
<1> DEFINE b == q.building
<1>1. Covering[b] \in Seq(Units) /\ Resolved[b] \in Seq(Resources)
  BY CoverageTypes
<1>2. /\ DOMAIN Resolved[b] = 1..Len(Resolved[b]) /\ Len(Resolved[b]) \in Nat
      /\ DOMAIN Covering[b] = 1..Len(Covering[b]) /\ Len(Covering[b]) \in Nat
  BY <1>1
<1>3. \A i \in DOMAIN Resolved[b] :
        [resource |-> Resolved[b][i], unit |-> q.unit] \in Candidates
  BY <1>1 DEF Candidates
<1>4. \A i \in DOMAIN Covering[b] :
        [resource |-> NameGuess[Covering[b][i]], unit |-> Covering[b][i]] \in Candidates
  BY <1>1, IngestAssumption DEF Candidates
<1>5. \A n \in Nat : \A f \in [1..n -> Candidates] : f \in Seq(Candidates)
  OBVIOUS
<1>6. Indexed(q) \in [1..Len(Resolved[b]) -> Candidates]
  BY <1>2, <1>3 DEF Indexed
<1>7. Guesses(q) \in [1..Len(Covering[b]) -> Candidates]
  BY <1>2, <1>4 DEF Guesses
<1>8. QED
  BY <1>2, <1>5, <1>6, <1>7

\* Where the elements of a concatenation are.
LEMMA ConcatElements ==
  ASSUME NEW s \in Seq(Candidates), NEW t \in Seq(Candidates)
  PROVE  /\ s \o t \in Seq(Candidates)
         /\ \A i \in DOMAIN s : i \in DOMAIN (s \o t) /\ (s \o t)[i] = s[i]
         /\ \A i \in DOMAIN t :
              Len(s) + i \in DOMAIN (s \o t) /\ (s \o t)[Len(s) + i] = t[i]
OBVIOUS

LEMMA ResolveResourcesKeeps ==
  ASSUME IngestInv, NEW r \in Requests, ResolveResources(r) PROVE IngestInv'
<1> DEFINE b == ing[r].building
           todo == Indexed(ing[r]) \o Guesses(ing[r])
           q == [ing[r] EXCEPT !.step = "crop", !.todo = todo]
<1>1. SoundIngest(ing[r]) /\ b \in Buildings /\ ing[r].unit \in Units
  BY DEF IngestInv, SoundIngest, ResolveResources
<1>2. /\ Indexed(ing[r]) \in Seq(Candidates) /\ Guesses(ing[r]) \in Seq(Candidates)
      /\ Covering[b] \in Seq(Units) /\ Resolved[b] \in Seq(Resources)
  BY <1>1, CandidateTypes, CoverageTypes DEF SoundIngest
<1>3. /\ \A i \in DOMAIN Resolved[b] : Indexed(ing[r])[i].resource = Resolved[b][i]
      /\ \A i \in DOMAIN Covering[b] :
           Guesses(ing[r])[i].resource = NameGuess[Covering[b][i]]
  <2>1. \A i \in DOMAIN Resolved[b] : Indexed(ing[r])[i].resource = Resolved[b][i]
    BY DEF Indexed
  <2>2. \A i \in DOMAIN Covering[b] : Guesses(ing[r])[i].resource = NameGuess[Covering[b][i]]
    BY DEF Guesses
  <2>3. QED
    BY <2>1, <2>2
<1>4. /\ todo \in Seq(Candidates)
      /\ \A i \in DOMAIN Indexed(ing[r]) :
           i \in DOMAIN todo /\ todo[i] = Indexed(ing[r])[i]
      /\ \A i \in DOMAIN Guesses(ing[r]) :
           LET j == Len(Indexed(ing[r])) + i IN
           j \in DOMAIN todo /\ todo[j] = Guesses(ing[r])[i]
  BY <1>2, ConcatElements
<1>5. \A i \in DOMAIN Resolved[b] :
        \E j \in DOMAIN todo : todo[j].resource = Resolved[b][i]
  <2> SUFFICES ASSUME NEW i \in DOMAIN Resolved[b]
               PROVE  \E j \in DOMAIN todo : todo[j].resource = Resolved[b][i]
    OBVIOUS
  <2>1. i \in DOMAIN Indexed(ing[r]) /\ Indexed(ing[r])[i].resource = Resolved[b][i]
    BY <1>3 DEF Indexed
  <2>2. i \in DOMAIN todo /\ todo[i] = Indexed(ing[r])[i]
    BY <1>4, <2>1
  <2> HIDE DEF todo
  <2>3. QED
    BY <2>1, <2>2
<1>6. \A i \in DOMAIN Covering[b] :
        \E j \in DOMAIN todo : todo[j].resource = NameGuess[Covering[b][i]]
  <2> SUFFICES ASSUME NEW i \in DOMAIN Covering[b]
               PROVE  \E j \in DOMAIN todo : todo[j].resource = NameGuess[Covering[b][i]]
    OBVIOUS
  <2>1. i \in DOMAIN Guesses(ing[r])
    BY DEF Guesses
  <2> DEFINE k == Len(Indexed(ing[r])) + i
  <2>2. k \in DOMAIN todo /\ todo[k] = Guesses(ing[r])[i]
    BY <1>4, <2>1
  <2>3. Guesses(ing[r])[i].resource = NameGuess[Covering[b][i]]
    BY <1>3
  <2> HIDE DEF todo, k
  <2>4. QED
    BY <2>2, <2>3
<1> HIDE DEF todo
<1>7. /\ q \in Ingest /\ q.step = "crop" /\ q.todo = todo /\ q.building = b
      /\ q.answer = "none" /\ q.warnings = ing[r].warnings
  BY <1>1, <1>4 DEF ResolveResources, SoundIngest, Ingest, IngestSteps
<1> HIDE DEF q
<1>8. NothingPassedOver(q)
  BY <1>5, <1>6, <1>7 DEF NothingPassedOver, Pending
<1>9. SoundIngest(q)
  BY <1>1, <1>7, <1>8 DEF SoundIngest
<1>10. ing' = [ing EXCEPT ![r] = q]
  BY DEF ResolveResources, q, todo
<1>11. eptIndexLoaded' \in BOOLEAN /\ blobs' \in [Buildings -> Nat \cup {NoValue}]
  BY DEF IngestInv, ResolveResources
<1>12. QED
  BY <1>9, <1>10, <1>11, OneIngestMoves

LEMMA IndexUnavailableKeeps ==
  ASSUME IngestInv, NEW r \in Requests, IndexUnavailable(r) PROVE IngestInv'
<1> DEFINE b == ing[r].building
           todo == Guesses(ing[r])
           q == [ing[r] EXCEPT !.step = "crop", !.todo = todo,
                               !.warnings = @ \cup {"ept_index_unavailable"}]
<1>1. SoundIngest(ing[r]) /\ b \in Buildings /\ ing[r].unit \in Units
  BY DEF IngestInv, SoundIngest, IndexUnavailable
<1>2. todo \in Seq(Candidates) /\ Covering[b] \in Seq(Units)
  BY <1>1, CandidateTypes, CoverageTypes DEF SoundIngest
<1>3. \A i \in DOMAIN Covering[b] :
        i \in DOMAIN todo /\ todo[i].resource = NameGuess[Covering[b][i]]
  BY <1>2 DEF Guesses
<1> HIDE DEF todo
<1>4. /\ q \in Ingest /\ q.step = "crop" /\ q.todo = todo /\ q.building = b
      /\ q.answer = "none" /\ "ept_index_unavailable" \in q.warnings
  BY <1>1, <1>2 DEF IndexUnavailable, SoundIngest, Ingest, IngestSteps, IngestWarnings
<1> HIDE DEF q
<1>5. NothingPassedOver(q)
  BY <1>3, <1>4 DEF NothingPassedOver, Pending
<1>6. SoundIngest(q)
  BY <1>1, <1>4, <1>5 DEF SoundIngest
<1>7. ing' = [ing EXCEPT ![r] = q]
  BY DEF IndexUnavailable, q, todo
<1>8. eptIndexLoaded' \in BOOLEAN /\ blobs' \in [Buildings -> Nat \cup {NoValue}]
  BY DEF IngestInv, IndexUnavailable
<1>9. QED
  BY <1>6, <1>7, <1>8, OneIngestMoves

LEMMA CropKeeps ==
  ASSUME IngestInv, NEW r \in Requests, Crop(r) PROVE IngestInv'
<1> DEFINE c == Head(ing[r].todo)
           q == [ing[r] EXCEPT !.step = "extract", !.resource = c.resource, !.unit = c.unit]
<1>1. /\ SoundIngest(ing[r]) /\ ing[r].building \in Buildings /\ ing[r].step = "crop"
      /\ ing[r].todo \in Seq(Candidates) /\ ing[r].todo # <<>>
  BY DEF IngestInv, SoundIngest, Ingest, Crop, Reading
<1>2. c \in Candidates /\ c.resource \in Published
  BY <1>1 DEF Crop, NextCandidate
<1>3. /\ q \in Ingest /\ q.step = "extract" /\ q.building = ing[r].building
      /\ q.answer = "none" /\ q.resource = c.resource
  BY <1>1, <1>2 DEF SoundIngest, Ingest, IngestSteps, Candidates
<1>4. SoundIngest(q)
  BY <1>1, <1>2, <1>3 DEF SoundIngest
<1>5. /\ ing' = [ing EXCEPT ![r] = q]
      /\ eptIndexLoaded' \in BOOLEAN /\ blobs' \in [Buildings -> Nat \cup {NoValue}]
  BY DEF IngestInv, Crop, NextCandidate
<1>6. QED
  BY <1>4, <1>5, OneIngestMoves

LEMMA CropAbsentKeeps ==
  ASSUME IngestInv, NEW r \in Requests, CropAbsent(r) PROVE IngestInv'
<1> DEFINE q == [ing[r] EXCEPT !.todo = Tail(ing[r].todo), !.reads = 0]
<1>1. /\ SoundIngest(ing[r]) /\ ing[r].building \in Buildings /\ ing[r].step = "crop"
      /\ ing[r].todo \in Seq(Candidates) /\ ing[r].todo # <<>>
      /\ NothingPassedOver(ing[r])
  BY DEF IngestInv, SoundIngest, Ingest, CropAbsent, Reading
<1>2. ing[r].todo[1].resource \notin Unmistakable
  BY <1>1 DEF CropAbsent, NextCandidate, Unmistakable
<1>3. Tail(ing[r].todo) \in Seq(Candidates) /\ 0 \in 0..(ReadAttempts - 1)
  BY <1>1, IngestAssumption
<1>4. \A j \in DOMAIN ing[r].todo \ {1} :
        /\ j - 1 \in DOMAIN Tail(ing[r].todo)
        /\ Tail(ing[r].todo)[j - 1] = ing[r].todo[j]
  BY <1>1
<1>5. /\ q \in Ingest /\ q.step = "crop" /\ q.building = ing[r].building
      /\ q.answer = "none" /\ q.todo = Tail(ing[r].todo)
      /\ q.warnings = ing[r].warnings
  BY <1>1, <1>3 DEF SoundIngest, Ingest
<1>6. \A x : Pending(ing[r], x) => Pending(q, x)
  <2> SUFFICES ASSUME NEW x, Pending(ing[r], x), x \in Unmistakable
               PROVE  \E j \in DOMAIN q.todo : q.todo[j].resource = x
    BY DEF Pending
  <2>1. PICK j \in DOMAIN ing[r].todo : ing[r].todo[j].resource = x
    BY DEF Pending
  <2>2. j # 1
    BY <1>2, <2>1
  <2>3. QED
    BY <1>4, <1>5, <2>1, <2>2
<1>7. NothingPassedOver(q)
  BY <1>1, <1>5, <1>6 DEF NothingPassedOver
<1>8. SoundIngest(q)
  BY <1>1, <1>5, <1>7 DEF SoundIngest
<1>9. /\ ing' = [ing EXCEPT ![r] = q]
      /\ eptIndexLoaded' \in BOOLEAN /\ blobs' \in [Buildings -> Nat \cup {NoValue}]
  BY DEF IngestInv, CropAbsent
<1>10. QED
  BY <1>8, <1>9, OneIngestMoves

LEMMA CropFailsKeeps ==
  ASSUME IngestInv, NEW r \in Requests, CropFails(r) PROVE IngestInv'
<1>1. CASE BadGateway(r)
  BY <1>1, RefusalKeeps DEF CropFails
<1>2. CASE ing[r].reads + 1 < ReadAttempts /\ ing' = [ing EXCEPT ![r].reads = @ + 1]
  <2> DEFINE q == [ing[r] EXCEPT !.reads = ing[r].reads + 1]
  <2>1. SoundIngest(ing[r]) /\ ing[r].step = "crop"
    BY DEF IngestInv, CropFails, Reading
  <2>2. /\ q \in Ingest /\ q.step = "crop" /\ q.building = ing[r].building
        /\ q.answer = ing[r].answer /\ q.todo = ing[r].todo
        /\ q.warnings = ing[r].warnings
    <3>1. ing[r] \in Ingest
      BY <2>1 DEF SoundIngest
    <3>2. ing[r].reads + 1 \in 0..(ReadAttempts - 1)
      BY <1>2, <3>1, IngestAssumption DEF Ingest
    <3>3. QED
      BY <2>1, <3>1, <3>2 DEF Ingest
  <2>3. SoundIngest(q)
    BY <2>1, <2>2 DEF SoundIngest, NothingPassedOver, Pending
  <2>4. ing' = [ing EXCEPT ![r] = q]
    BY <1>2
  <2>5. eptIndexLoaded' \in BOOLEAN /\ blobs' \in [Buildings -> Nat \cup {NoValue}]
    BY DEF IngestInv, CropFails
  <2>6. QED
    BY <2>3, <2>4, <2>5, OneIngestMoves
<1>3. QED
  BY <1>1, <1>2 DEF CropFails

LEMMA NoResourceKeeps ==
  ASSUME IngestInv, NEW r \in Requests, NoResource(r) PROVE IngestInv'
<1>1. SoundIngest(ing[r]) /\ NothingPassedOver(ing[r]) /\ ing[r].todo = <<>>
  BY DEF IngestInv, SoundIngest, NoResource
<1>2. Gap(ing[r])
  BY <1>1 DEF NothingPassedOver, Pending, Gap
<1>3. SoundIngest(Answered(ing[r], "missing", "no_ept_resource"))
  BY <1>1, <1>2, MissingIsSound DEF Reasons
<1>4. /\ ing' = [ing EXCEPT ![r] = Answered(ing[r], "missing", "no_ept_resource")]
      /\ eptIndexLoaded' \in BOOLEAN /\ blobs' \in [Buildings -> Nat \cup {NoValue}]
  BY DEF IngestInv, NoResource, Missing
<1>5. QED
  BY <1>3, <1>4, OneIngestMoves

LEMMA ExtractKeeps ==
  ASSUME IngestInv, NEW r \in Requests, Extract(r) PROVE IngestInv'
<1> DEFINE cloud == Cloud[ing[r].resource][ing[r].building]
<1>1. /\ SoundIngest(ing[r]) /\ ing[r].building \in Buildings /\ ing[r].step = "extract"
      /\ ing[r].resource \in Published
  BY DEF IngestInv, SoundIngest, Extract
<1>2. RoofPoints(cloud) \in Nat
  BY <1>1, CoverageTypes, IngestAssumption
<1>3. eptIndexLoaded' \in BOOLEAN /\ blobs' \in [Buildings -> Nat \cup {NoValue}]
  BY DEF IngestInv, Extract
<1>4. CASE RoofPoints(cloud) = 0
  <2>1. SoundIngest(Answered(ing[r], "missing", "no_building_points"))
    BY <1>1, <1>4, MissingIsSound DEF Gap, Reasons
  <2>2. ing' = [ing EXCEPT ![r] = Answered(ing[r], "missing", "no_building_points")]
    BY <1>4 DEF Extract, Missing
  <2>3. QED
    BY <1>3, <2>1, <2>2, OneIngestMoves
<1>5. CASE RoofPoints(cloud) # 0
  <2> DEFINE warned == ing[r].warnings \cup IF ByHeight(cloud) THEN {"lidar_height_extracted"}
                                            ELSE {}
             q == [ing[r] EXCEPT !.step = "store", !.count = RoofPoints(cloud),
                                 !.warnings = warned]
  <2>1. warned \in SUBSET IngestWarnings
    BY <1>1 DEF SoundIngest, Ingest, IngestWarnings
  <2> HIDE DEF warned
  <2>2. /\ q \in Ingest /\ q.step = "store" /\ q.building = ing[r].building
        /\ q.answer = "none"
    BY <1>1, <1>2, <2>1 DEF SoundIngest, Ingest, IngestSteps
  <2>3. SoundIngest(q)
    BY <1>1, <2>2 DEF SoundIngest
  <2>4. ing' = [ing EXCEPT ![r] = q]
    BY <1>5 DEF Extract, warned
  <2>5. QED
    BY <1>3, <2>3, <2>4, OneIngestMoves
<1>6. QED
  BY <1>4, <1>5

LEMMA StoreKeeps ==
  ASSUME IngestInv, NEW r \in Requests, Store(r) PROVE IngestInv'
<1> DEFINE q == [ing[r] EXCEPT !.step = "done", !.todo = <<>>, !.reads = 0,
                               !.answer = "available", !.reason = "none"]
<1>1. SoundIngest(ing[r]) /\ ing[r].building \in Buildings /\ ing[r].count \in Nat
  BY DEF IngestInv, SoundIngest, Ingest, Store
<1>2. <<>> \in Seq(Candidates) /\ 0 \in 0..(ReadAttempts - 1)
  BY IngestAssumption
<1>3. q \in Ingest /\ q.step = "done" /\ q.answer = "available"
  BY <1>1, <1>2 DEF SoundIngest, Ingest, IngestSteps, IngestAnswers, Reasons
<1>4. SoundIngest(q)
  BY <1>3 DEF SoundIngest
<1>5. ing' = [ing EXCEPT ![r] = q]
  BY DEF Store, Answered
<1>6. eptIndexLoaded' \in BOOLEAN /\ blobs' \in [Buildings -> Nat \cup {NoValue}]
  BY <1>1 DEF IngestInv, Store
<1>7. QED
  BY <1>4, <1>5, <1>6, OneIngestMoves

LEMMA ReceiveIngestKeeps ==
  ASSUME IngestInv, NEW r \in Requests, NEW b \in Buildings, ReceiveIngest(r, b)
  PROVE  IngestInv'
<1>1. ing' = [ing EXCEPT ![r] = NewIngest("coverage", b)]
  BY DEF ReceiveIngest
<1>2. eptIndexLoaded' \in BOOLEAN /\ blobs' \in [Buildings -> Nat \cup {NoValue}]
  BY DEF IngestInv, ReceiveIngest
<1>3. QED
  BY <1>1, <1>2, NewIsSound, OneIngestMoves

LEMMA IngestRestartKeeps == IngestInv /\ IngestRestart => IngestInv'
<1> SUFFICES ASSUME IngestInv, IngestRestart PROVE IngestInv'
  OBVIOUS
<1>1. \A r \in Requests : SoundIngest(ing'[r]) /\ ing'[r] \in Ingest
  BY RefusalIsSound DEF IngestInv, IngestRestart, SoundIngest
<1>2. ing' \in [Requests -> Ingest]
  BY <1>1 DEF IngestRestart
<1>3. QED
  BY <1>1, <1>2 DEF IngestInv, IngestRestart

LEMMA IngestInductive == IngestInv /\ [IngestMove]_ingestVars => IngestInv'
<1> SUFFICES ASSUME IngestInv, [IngestMove]_ingestVars PROVE IngestInv'
  OBVIOUS
<1>1. ASSUME NEW r \in Requests, IngestStep(r) PROVE IngestInv'
  <2>1. IngestFails(r) => IngestInv'
    BY RefusalKeeps DEF IngestFails
  <2>2. QED
    BY <1>1, <2>1, CheckCoverageKeeps, ResolveResourcesKeeps, IndexUnavailableKeeps,
       CropKeeps, CropAbsentKeeps, CropFailsKeeps, NoResourceKeeps, ExtractKeeps, StoreKeeps DEF IngestStep
<1>2. CASE UNCHANGED ingestVars
  BY <1>2 DEF ingestVars, IngestInv
<1>3. QED
  BY <1>1, <1>2, ReceiveIngestKeeps, IngestRestartKeeps DEF IngestMove

LEMMA IngestStarts == Init => IngestInv
<1> SUFFICES ASSUME Init PROVE IngestInv
  OBVIOUS
<1>1. <<>> \in Seq(Candidates) /\ 0 \in 0..(ReadAttempts - 1)
  BY IngestAssumption
<1>2. SoundIngest(NewIngest("idle", NoValue))
  BY <1>1 DEF SoundIngest, NewIngest, Ingest, IngestSteps, IngestAnswers, Reasons
<1>3. QED
  BY <1>2 DEF Init, CallsInit, IngestInit, IngestInv, SoundIngest

\* An ingest never passes over a resource it should have tried, and only works on a
\* building its caller was answered (ingest_lidar of lidar/ingest.py).
THEOREM IngestIsSound == Spec => [](ResolveInv /\ IngestInv)
<1>1. Init => ResolveInv /\ IngestInv
  BY ResolveStarts, IngestStarts
<1>2. ResolveInv /\ IngestInv /\ [Next]_vars => ResolveInv' /\ IngestInv'
  BY ResolveMoves, ResolveInductive, IngestMoves, IngestInductive
<1>3. QED
  BY <1>1, <1>2, PTL DEF Spec

\* Every caller's requests, the caches, the lock and the stored arrays keep their types.
THEOREM TypesHold == Spec => []TypeOK
<1>1. ResolveInv /\ IngestInv => TypeOK
  BY DEF ResolveInv, Sounds, GeocodesMean, ParcelsMean, FootprintsMean, IndexMeans,
     IngestInv, TypeOK
<1>2. QED
  BY <1>1, IngestIsSound, PTL

\* "LiDAR is missing" rests on a gap in the data: no unit, a cloud without a roof, or
\* resources that are all absent or may have been taken for absent by the text of a read
\* error (lidar/ingest.py:76, :169).  No other published resource is ever passed over.
THEOREM MissingRestsOnAGap == Spec => []MissingIsAGap
<1>1. IngestInv => MissingIsAGap
  BY DEF IngestInv, SoundIngest, Gap, Unmistakable, MissingIsAGap
<1>2. QED
  BY <1>1, IngestIsSound, PTL

-----------------------------------------------------------------------------
(* Plane fitting.                                                            *)

LEMMA FitMoves == [Next]_vars => [FitArrives \/ FitStep]_fit
BY DEF Next, Calls, StageArrives, StageStep, vars, stageVars

LEMMA LeastNatural ==
  ASSUME NEW T \in SUBSET Nat, T # {}
  PROVE  \E x \in T : \A y \in T : x <= y
<1>1. PICK x \in T : \A y \in T : ~(<<y, x>> \in OpToRel(<, Nat))
  BY NatLessThanWellFounded, WFMin
<1>2. \A y \in T : ~(y < x)
  BY <1>1 DEF OpToRel
<1>3. QED
  BY <1>2

\* There is a first of the pairs that may be merged.
LEMMA FirstIsOne ==
  ASSUME NEW pairs \in SUBSET (Nat \X Nat), pairs # {}
  PROVE  First(pairs) \in pairs
<1> DEFINE A == {p[1] : p \in pairs}
<1>1. PICK a \in A : \A y \in A : a <= y
  <2>1. A \in SUBSET Nat /\ A # {}
    OBVIOUS
  <2>2. QED
    BY <2>1, LeastNatural
<1> DEFINE B == {p[2] : p \in {q \in pairs : q[1] = a}}
<1>2. PICK b \in B : \A y \in B : b <= y
  <2>1. B \in SUBSET Nat /\ B # {}
    OBVIOUS
  <2>2. QED
    BY <2>1, LeastNatural
<1>3. PICK p \in pairs : p[1] = a /\ p[2] = b
  BY <1>2
<1>4. \A q \in pairs : p[1] < q[1] \/ (p[1] = q[1] /\ p[2] <= q[2])
  <2> SUFFICES ASSUME NEW q \in pairs PROVE a < q[1] \/ (a = q[1] /\ b <= q[2])
    BY <1>3
  <2>1. a <= q[1] /\ a \in Nat /\ q[1] \in Nat
    BY <1>1
  <2>2. q[1] = a => b <= q[2]
    BY <1>2
  <2>3. QED
    BY <2>1, <2>2
<1>5. QED
  BY <1>3, <1>4 DEF First

LEMMA ConcatIndexes ==
  ASSUME NEW S, NEW u \in Seq(S), NEW v \in Seq(S)
  PROVE  /\ u \o v \in Seq(S) /\ Len(u \o v) = Len(u) + Len(v)
         /\ \A i \in 1..(Len(u) + Len(v)) :
              (u \o v)[i] = IF i <= Len(u) THEN u[i] ELSE v[i - Len(u)]
OBVIOUS

\* A list is the same without one of its elements, the later ones moved up.
LEMMA RemoveAtElements ==
  ASSUME NEW S, NEW s \in Seq(S), NEW k \in DOMAIN s
  PROVE  /\ RemoveAt(s, k) \in Seq(S)
         /\ Len(RemoveAt(s, k)) = Len(s) - 1
         /\ \A i \in DOMAIN RemoveAt(s, k) :
              RemoveAt(s, k)[i] = s[IF i < k THEN i ELSE i + 1]
<1> DEFINE u == SubSeq(s, 1, k - 1)
           v == SubSeq(s, k + 1, Len(s))
<1>1. u \in Seq(S) /\ Len(u) = k - 1 /\ \A i \in 1..(k - 1) : u[i] = s[i]
  OBVIOUS
<1>2. v \in Seq(S) /\ Len(v) = Len(s) - k /\ \A i \in 1..(Len(s) - k) : v[i] = s[k + i]
  OBVIOUS
<1> HIDE DEF u, v
<1>3. /\ u \o v \in Seq(S) /\ Len(u \o v) = Len(s) - 1
      /\ \A i \in 1..(Len(s) - 1) : (u \o v)[i] = s[IF i < k THEN i ELSE i + 1]
  <2>1. /\ u \o v \in Seq(S) /\ Len(u \o v) = Len(u) + Len(v)
        /\ \A i \in 1..(Len(u) + Len(v)) :
             (u \o v)[i] = IF i <= Len(u) THEN u[i] ELSE v[i - Len(u)]
    BY <1>1, <1>2, ConcatIndexes
  <2>2. Len(u) + Len(v) = Len(s) - 1
    BY <1>1, <1>2
  <2>3. \A i \in 1..(Len(s) - 1) :
          (u \o v)[i] = IF i <= Len(u) THEN u[i] ELSE v[i - Len(u)]
    BY <2>1, <2>2
  <2>4. ASSUME NEW i \in 1..(Len(s) - 1)
        PROVE  (u \o v)[i] = s[IF i < k THEN i ELSE i + 1]
    <3>1. CASE i < k
      BY <1>1, <2>2, <2>3, <3>1
    <3>2. CASE ~(i < k)
      <4>1. v[i - Len(u)] = s[k + (i - Len(u))]
        BY <1>1, <1>2, <3>2
      <4>2. QED
        BY <1>1, <2>2, <2>3, <3>2, <4>1
    <3>3. QED
      BY <3>1, <3>2
  <2>5. QED
    BY <2>1, <2>2, <2>4
<1>4. RemoveAt(s, k) = u \o v
  BY DEF RemoveAt, u, v
<1>5. DOMAIN (u \o v) = 1..(Len(s) - 1)
  BY <1>3
<1>6. QED
  BY <1>3, <1>4, <1>5, Zenon

\* Returns that are divided among a residual and planes.
Divided(cloud, residual, planes) ==
  /\ \E S : planes \in Seq(S)
  /\ \A i, j \in DOMAIN planes : i # j => planes[i].inliers \cap planes[j].inliers = {}
  /\ \A i \in DOMAIN planes : planes[i].inliers \cap residual = {}
  /\ cloud = residual \cup UNION {planes[i].inliers : i \in DOMAIN planes}

LEMMA PeelDivides ==
  ASSUME NEW cloud, NEW residual, NEW planes, NEW p, Divided(cloud, residual, planes),
         p.inliers \subseteq residual
  PROVE  Divided(cloud, residual \ p.inliers, Append(planes, p))
<1>1. PICK S : planes \in Seq(S)
  BY DEF Divided
<1> DEFINE more == Append(planes, p)
           n == Len(planes)
<1>2. more \in Seq(S \cup {p}) /\ Len(more) = n + 1 /\ n \in Nat
  <2>1. planes \in Seq(S \cup {p})
    BY <1>1
  <2>2. QED
    BY <2>1
<1>3. more[n + 1] = p /\ \A i \in 1..n : more[i] = planes[i]
  <2>1. planes \in Seq(S \cup {p})
    BY <1>1
  <2>2. QED
    BY <2>1
<1>4. DOMAIN planes = 1..n /\ DOMAIN more = 1..(n + 1)
  BY <1>1, <1>2
<1> HIDE DEF more, n
<1>5. \A i \in DOMAIN more : (i \in DOMAIN planes /\ more[i] = planes[i]) \/ (i = n + 1 /\ more[i] = p)
  BY <1>2, <1>3, <1>4
<1>6. \A i, j \in DOMAIN more : i # j => more[i].inliers \cap more[j].inliers = {}
  BY <1>5 DEF Divided
<1>7. \A i \in DOMAIN more : more[i].inliers \cap (residual \ p.inliers) = {}
  BY <1>5 DEF Divided
<1>8. UNION {more[i].inliers : i \in DOMAIN more}
        = p.inliers \cup UNION {planes[i].inliers : i \in DOMAIN planes}
  BY <1>2, <1>3, <1>4, <1>5
<1>9. cloud = (residual \ p.inliers) \cup UNION {more[i].inliers : i \in DOMAIN more}
  BY <1>8 DEF Divided
<1>10. QED
  BY <1>2, <1>6, <1>7, <1>9 DEF Divided, more

LEMMA MergeDivides ==
  ASSUME NEW cloud, NEW residual, NEW planes, Divided(cloud, residual, planes),
         NEW a \in DOMAIN planes, NEW b \in DOMAIN planes, a < b
  PROVE  Divided(cloud, residual, Merged(planes, <<a, b>>))
<1>1. PICK S : planes \in Seq(S)
  BY DEF Divided
<1> DEFINE n == Len(planes)
           m == MergeTwo(planes[a], planes[b])
           two == [planes EXCEPT ![a] = m]
           one == RemoveAt(two, b)
           from(i) == IF i < b THEN i ELSE i + 1
<1>2. n \in Nat /\ DOMAIN planes = 1..n /\ a \in 1..n /\ b \in 1..n
  BY <1>1
<1>3. m.inliers = planes[a].inliers \cup planes[b].inliers
  BY DEF MergeTwo
<1> HIDE DEF m
<1>4. /\ two \in Seq(S \cup {m}) /\ Len(two) = n /\ DOMAIN two = 1..n
      /\ two[a] = m /\ \A i \in (1..n) \ {a} : two[i] = planes[i]
  BY <1>1, <1>2
<1> HIDE DEF two, n
<1>5. /\ one \in Seq(S \cup {m}) /\ Len(one) = n - 1
      /\ \A i \in DOMAIN one : one[i] = two[IF i < b THEN i ELSE i + 1]
  BY <1>2, <1>4, RemoveAtElements
<1>6. DOMAIN one = 1..(n - 1)
  BY <1>5
<1> HIDE DEF one
<1>7. \A i \in 1..(n - 1) : from(i) \in (1..n) \ {b} /\ one[i] = two[from(i)]
  <2> SUFFICES ASSUME NEW i \in 1..(n - 1)
               PROVE  from(i) \in (1..n) \ {b} /\ one[i] = two[from(i)]
    OBVIOUS
  <2>1. from(i) \in (1..n) \ {b}
    BY <1>2
  <2>2. one[i] = two[from(i)]
    BY <1>5, <1>6
  <2>3. QED
    BY <2>1, <2>2
<1>8. \A i, j \in 1..(n - 1) : i # j => from(i) # from(j)
  BY <1>2
<1>9. \A k \in (1..n) \ {b} : \E i \in 1..(n - 1) : from(i) = k
  <2> SUFFICES ASSUME NEW k \in (1..n) \ {b} PROVE \E i \in 1..(n - 1) : from(i) = k
    OBVIOUS
  <2>1. CASE k < b
    BY <1>2, <2>1
  <2>2. CASE k > b
    <3>1. k - 1 \in 1..(n - 1) /\ from(k - 1) = k
      BY <1>2, <2>2
    <3>2. QED
      BY <3>1
  <2>3. QED
    BY <1>2, <2>1, <2>2
<1> HIDE DEF from
<1>10. \A i \in 1..(n - 1) :
         one[i].inliers = IF from(i) = a THEN planes[a].inliers \cup planes[b].inliers
                          ELSE planes[from(i)].inliers
  BY <1>3, <1>4, <1>7
<1>11. \A i, j \in 1..(n - 1) : i # j => one[i].inliers \cap one[j].inliers = {}
  <2> SUFFICES ASSUME NEW i \in 1..(n - 1), NEW j \in 1..(n - 1), i # j
               PROVE  one[i].inliers \cap one[j].inliers = {}
    OBVIOUS
  <2>1. /\ from(i) \in 1..n /\ from(j) \in 1..n /\ from(i) # from(j)
        /\ from(i) # b /\ from(j) # b
    BY <1>7, <1>8
  <2>2. \A k, l \in 1..n : k # l => planes[k].inliers \cap planes[l].inliers = {}
    BY <1>2 DEF Divided
  <2>3. QED
    BY <1>2, <1>10, <2>1, <2>2
<1>12. \A i \in 1..(n - 1) : one[i].inliers \cap residual = {}
  BY <1>2, <1>7, <1>10 DEF Divided
<1>13. UNION {one[i].inliers : i \in 1..(n - 1)} = UNION {planes[i].inliers : i \in 1..n}
  <2>1. ASSUME NEW i \in 1..(n - 1)
        PROVE  one[i].inliers \subseteq UNION {planes[k].inliers : k \in 1..n}
    BY <1>2, <1>7, <1>10
  <2>2. ASSUME NEW k \in 1..n
        PROVE  planes[k].inliers \subseteq UNION {one[i].inliers : i \in 1..(n - 1)}
    <3>1. PICK l \in (1..n) \ {b} : l = IF k = b THEN a ELSE k
      BY <1>2
    <3>2. PICK i \in 1..(n - 1) : from(i) = l
      BY <1>9
    <3>3. planes[k].inliers \subseteq one[i].inliers
      BY <1>10, <3>1, <3>2
    <3>4. QED
      BY <3>3
  <2>3. QED
    BY <2>1, <2>2
<1>14. cloud = residual \cup UNION {one[i].inliers : i \in 1..(n - 1)}
  BY <1>2, <1>13 DEF Divided
<1>15. Divided(cloud, residual, one)
  BY <1>5, <1>6, <1>11, <1>12, <1>14 DEF Divided
<1>16. Merged(planes, <<a, b>>) = one
  BY DEF Merged, one, two, m
<1>17. QED
  BY <1>15, <1>16

\* The returns are divided, and when the merging ends no two planes can be merged.
FitInv ==
  /\ fit = [step |-> fit.step, cloud |-> fit.cloud, sparse |-> fit.sparse,
            outline |-> fit.outline, residual |-> fit.residual, planes |-> fit.planes,
            facets |-> fit.facets, answer |-> fit.answer]
  /\ Divided(fit.cloud, fit.residual, fit.planes)
  /\ fit.step = "idle" => fit.planes = <<>>
  /\ fit.step \in {"model", "done"} => Mergeable(fit.planes) = {}

LEMMA NoneDivides == \A cloud : Divided(cloud, cloud, <<>>)
<1>1. <<>> \in Seq({}) /\ DOMAIN <<>> = {}
  OBVIOUS
<1>2. QED
  BY <1>1 DEF Divided

LEMMA NoneMergeable == Mergeable(<<>>) = {}
<1>1. DOMAIN <<>> = {}
  OBVIOUS
<1>2. QED
  BY <1>1 DEF Mergeable

LEMMA FitInductive == FitInv /\ [FitArrives \/ FitStep]_fit => FitInv'
<1> SUFFICES ASSUME FitInv, [FitArrives \/ FitStep]_fit PROVE FitInv'
  OBVIOUS
<1>1. CASE StartFit
  <2>1. PICK c \in Clouds, o \in Outlines :
          fit' = [FitIdle EXCEPT !.step = "peel", !.cloud = c.returns, !.sparse = c.sparse,
                                 !.outline = o, !.residual = c.returns]
    BY <1>1 DEF StartFit
  <2>2. Divided(c.returns, c.returns, <<>>)
    BY NoneDivides
  <2>3. fit' = [step |-> "peel", cloud |-> c.returns, sparse |-> c.sparse, outline |-> o,
                residual |-> c.returns, planes |-> <<>>, facets |-> {}, answer |-> "none"]
    BY <2>1 DEF FitIdle
  <2>4. QED
    BY <2>2, <2>3 DEF FitInv
<1>2. CASE RefuseFit
  BY <1>2, NoneMergeable DEF FitInv, RefuseFit, FitAnswer
<1>3. CASE FallBack
  <2>1. PICK o \in Outlines :
          fit' = IF o = {} THEN [FitIdle EXCEPT !.step = "done", !.answer = "invalid"]
                 ELSE [FitIdle EXCEPT !.step = "done", !.outline = o, !.answer = "fallback",
                                      !.facets = {[index |-> 0, cell |-> o]}]
    BY <1>3 DEF FallBack
  <2>2. CASE o = {}
    <3>1. fit' = [step |-> "done", cloud |-> {}, sparse |-> FALSE, outline |-> {}, residual |-> {},
                  planes |-> <<>>, facets |-> {}, answer |-> "invalid"]
      BY <2>1, <2>2 DEF FitIdle
    <3>2. QED
      BY <3>1, NoneDivides, NoneMergeable DEF FitInv
  <2>3. CASE o # {}
    <3> DEFINE facets == {[index |-> 0, cell |-> o]}
    <3>1. fit' = [step |-> "done", cloud |-> {}, sparse |-> FALSE, outline |-> o, residual |-> {},
                  planes |-> <<>>, facets |-> facets, answer |-> "fallback"]
      BY <2>1, <2>3 DEF FitIdle
    <3> HIDE DEF facets
    <3>2. QED
      BY <3>1, NoneDivides, NoneMergeable DEF FitInv
  <2>4. QED
    BY <2>2, <2>3
<1>4. CASE PeelPlane
  <2>1. PICK p \in Sampled :
          fit' = [fit EXCEPT !.planes = Append(@, p), !.residual = @ \ p.inliers]
    BY <1>4 DEF PeelPlane
  <2>2. p.inliers \subseteq fit.residual
    <3>1. PICK slope \in Slopes, r \in fit.residual : p.inliers = Through(r, slope)
      <4>1. p \in RoofPlanes
        BY DEF Sampled
      <4>2. QED
        BY <4>1 DEF RoofPlanes
    <3>2. QED
      BY <3>1 DEF Through
  <2>3. Divided(fit.cloud, fit.residual \ p.inliers, Append(fit.planes, p))
    BY <2>2, PeelDivides DEF FitInv
  <2>4. fit.step = "peel"
    BY <1>4 DEF PeelPlane
  <2>5. QED
    BY <2>1, <2>3, <2>4 DEF FitInv
<1>5. CASE StopPeeling
  BY <1>5, NoneMergeable DEF FitInv, StopPeeling
<1>6. CASE Merge
  <2>1. CASE Mergeable(fit.planes) = {}
    BY <1>6, <2>1 DEF FitInv, Merge
  <2>2. CASE Mergeable(fit.planes) # {}
    <3> DEFINE pair == First(Mergeable(fit.planes))
    <3>1. Mergeable(fit.planes) \in SUBSET (Nat \X Nat)
      <4>1. PICK S : fit.planes \in Seq(S)
        BY DEF FitInv, Divided
      <4>2. DOMAIN fit.planes \subseteq Nat
        BY <4>1
      <4>3. QED
        BY <4>2 DEF Mergeable
    <3>2. pair \in Mergeable(fit.planes)
      BY <2>2, <3>1, FirstIsOne
    <3> HIDE DEF pair
    <3>3. PICK a \in DOMAIN fit.planes, b \in DOMAIN fit.planes : a < b /\ pair = <<a, b>>
      BY <3>2 DEF Mergeable
    <3>4. Divided(fit.cloud, fit.residual, Merged(fit.planes, <<a, b>>))
      BY <3>3, MergeDivides DEF FitInv
    <3>5. fit' = [fit EXCEPT !.planes = Merged(@, <<a, b>>)] /\ fit.step = "merge"
      BY <1>6, <2>2, <3>3 DEF Merge, pair
    <3>6. QED
      BY <3>4, <3>5 DEF FitInv
  <2>3. QED
    BY <2>1, <2>2
<1>7. CASE Measure
  BY <1>7 DEF FitInv, Measure, FitAnswer
<1>8. CASE UNCHANGED fit
  BY <1>8 DEF FitInv
<1>9. QED
  BY <1>1, <1>2, <1>3, <1>4, <1>5, <1>6, <1>7, <1>8 DEF FitArrives, FitStep

\* No return is counted for two planes and none is lost, however the planes are peeled
\* and merged, and the merging ends only when nothing is left to merge (plane_fit.py).
THEOREM PlanesDivideTheCloud == Spec => []PlanesPartition
<1>1. Init => FitInv
  BY NoneDivides DEF Init, NoStage, FitInit, FitIdle, FitInv
<1>2. FitInv /\ [Next]_vars => FitInv'
  BY FitMoves, FitInductive
<1>3. FitInv => PlanesPartition
  BY DEF FitInv, Divided, PlanesPartition
<1>4. QED
  BY <1>1, <1>2, <1>3, PTL DEF Spec
=============================================================================
