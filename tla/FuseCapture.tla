---------------------------- MODULE FuseCapture ----------------------------
(***************************************************************************)
(* POST /pipeline/fuse-capture of the geometry sidecar: the session's mesh *)
(* is aligned to the stored LiDAR cloud by ICP and the planes are fitted   *)
(* again to both.  The frame of the result is the EPSG code of the LiDAR   *)
(* work unit, or the UTM zone of the phone's GPS fix, or none.             *)
(***************************************************************************)
EXTENDS Integers

CONSTANTS
  Codes,       \* EPSG codes of work units and fixes
  NorthUtm,    \* those of the northern WGS84/UTM zones, 32601..32660
  GpsCodes,    \* what the zone formula makes of a longitude: these, and 32661 of 180 east
  NoCode       \* no EPSG code

ASSUME FrameAssumption ==
  /\ NorthUtm \subseteq Codes /\ GpsCodes \subseteq Codes
  /\ NoCode \notin Codes

VARIABLE fuse   \* the local state of one call

FuseIdle ==
  [step |-> "idle", gps |-> "absent", unit |-> NoCode, outline |-> "none", frame |-> NoCode,
   facets |-> FALSE, transform |-> FALSE, answer |-> "none"]

FuseInit == fuse = FuseIdle
FuseAnswer(answer) == fuse' = [fuse EXCEPT !.step = "done", !.answer = answer]

\* gps_origin of session.json is absent without a fix; the unit is the prior answer's, and
\* so is the refined outline, which may be one without an area.
StartFuse ==
  /\ fuse.step = "idle"
  /\ \E gps \in {"absent", "fix", "malformed"}, unit \in Codes \cup {NoCode},
        outline \in {"none", "roof", "degenerate"} :
       fuse' = [FuseIdle EXCEPT !.step = "manifest", !.gps = gps, !.unit = unit,
                                !.outline = outline]

\* The unit's code first, the zone of a fix next; neither is no error.
Frames(gps, unit) ==
  IF unit # NoCode THEN {unit} ELSE IF gps = "fix" THEN GpsCodes ELSE {NoCode}

ReadManifest ==
  /\ fuse.step = "manifest"
  /\ IF fuse.gps = "malformed" THEN FuseAnswer("refused")
     ELSE \E frame \in Frames(fuse.gps, fuse.unit) :
            fuse' = [fuse EXCEPT !.step = "mesh", !.frame = frame]

LoadMesh == fuse.step = "mesh" /\ fuse' = [fuse EXCEPT !.step = "cloud"]
LoadCloud == fuse.step = "cloud" /\ fuse' = [fuse EXCEPT !.step = "align"]

\* A blob that is foreseen to be missing, too large, too small or malformed: 413 or 422.
RefuseBlob == fuse.step \in {"manifest", "mesh", "cloud"} /\ FuseAnswer("refused")

\* An exception that is not foreseen, a 500: of a manifest that is not UTF-8 or no object,
\* of a blob the live store does not have, of an odd array, of a mesh that is not finite
\* under the ICP, of a work unit's code that PROJ does not know under its seed.
FuseRaises == fuse.step \in {"manifest", "mesh", "cloud", "align"} /\ FuseAnswer("crashed")

\* Two passes of ICP: enough correspondences, and a small residual.  Without the
\* former the residual is taken over the whole cloud, whatever the latter says.
Converged(fit, tight) == fit /\ tight

Align ==
  /\ fuse.step = "align"
  /\ \E fit, tight \in BOOLEAN :
       IF ~Converged(fit, tight) THEN FuseAnswer("not_converged")
       ELSE fuse' = [fuse EXCEPT !.step = "register"]

\* Faulty variant: the planes are fitted whatever the frame.
RegisterAnyway ==
  /\ fuse.step = "register"
  /\ fuse' = [fuse EXCEPT !.step = "refit"]

\* Without a frame the facets cannot be placed; the LiDAR measurement stays.
Register ==
  /\ fuse.step = "register"
  /\ IF fuse.frame = NoCode THEN FuseAnswer("not_registered")
     ELSE fuse' = [fuse EXCEPT !.step = "refit"]

\* _utm_epsg takes a zone of 1..60 or a UTM code.  It is given the frame less 32600,
\* which only the northern UTM codes turn into a zone.  Its ValueError is not caught, nor
\* that of a refined outline without an area.
Placeable == fuse.frame \in NorthUtm /\ fuse.outline # "degenerate"

Refit ==
  /\ fuse.step = "refit"
  /\ \E planes, facets \in BOOLEAN :
       IF planes /\ ~Placeable THEN FuseAnswer("crashed")
       ELSE fuse' = [fuse EXCEPT !.step = "done", !.facets = planes /\ facets,
                                 !.transform = TRUE, !.answer = "fused"]

FuseStep ==
  \/ ReadManifest \/ LoadMesh \/ LoadCloud \/ RefuseBlob \/ FuseRaises
  \/ Align \/ Register \/ Refit
FuseBusy == fuse.step \notin {"idle", "done"}

\* A fused answer is placed: it has the transform and a code, the work unit's where that
\* has one, and its facets lie in a zone, inside an outline that has an area if there is
\* one.  "Not registered" is answered where there is nothing to register by, never of a
\* session with a fix, good or malformed, or a code (fuse_capture/router.py:127-158,
\* :226-238).  Which calls end in an exception is left open.
FusedIsPlaced ==
  /\ fuse.answer = "fused" =>
       /\ fuse.transform /\ fuse.frame # NoCode
       /\ fuse.gps # "malformed"
       /\ fuse.unit # NoCode => fuse.frame = fuse.unit
  /\ fuse.facets => fuse.frame \in NorthUtm /\ fuse.outline # "degenerate"
  /\ fuse.answer = "not_registered" => fuse.gps = "absent" /\ fuse.unit = NoCode
=============================================================================
