---------------------------- MODULE SidecarBoot ----------------------------
(***************************************************************************)
(* How the geometry sidecar starts.  The table of boot checks is to demand *)
(* what each stage will want once it is called, and both are to read the   *)
(* same opt-down flags, or a stage fails on its first call, or runs a stub *)
(* in a process that was meant to be real.  Both do happen: the models say *)
(* for want of which parts, and of which flags.                            *)
(***************************************************************************)
EXTENDS Integers, FiniteSets

CONSTANT Environments   \* environments the process may be started in

Stages ==
  {"lidar", "storage", "sam2", "imagery", "render_images", "fuse_capture",
   "project_photo", "ept_index"}
\* Settings, packages and programs an environment may have.  What is imported as the app
\* is loaded is not listed: without it no process starts.
Parts ==
  {"secret", "wesm", "pdal", "spaces", "modal_token", "modal_secret", "modal", "mapbox",
   "playwright", "chromium", "open3d", "trimesh", "rtree", "svgwrite", "boundaries",
   "osgeo", "boto3", "PIL"}
\* The flags that opt a stage down, and the name of the segmenter.
Flags == {"lidar", "storage", "imagery", "render_images", "project_photo", "ept_index"}
Backends == {"modal", "local", "misspelt"}

ASSUME BootAssumption ==
  Environments \subseteq [flags: SUBSET Flags, sam2: Backends, has: SUBSET Parts]

VARIABLE boot   \* the process: its environment, and how a stage called first ran

BootIdle == [step |-> "down", env |-> {}, stage |-> "none", ran |-> "none"]
BootInit == boot = BootIdle

\* sam2_is_fixture asks for "local", the boundaries are read from a file only when
\* opted down, fusion has no fixture.
Checked(stage, env) ==
  CASE stage = "sam2" -> env.sam2 # "local"
    [] stage = "ept_index" -> "ept_index" \in env.flags
    [] OTHER -> stage \notin env.flags

\* Faulty variant: the render's own check is taken to cover the imagery token.
DemandedElsewhere(stage) ==
  CASE stage = "lidar" -> {"wesm", "pdal"}
    [] stage = "storage" -> {"spaces"}
    [] stage = "sam2" -> {"modal_token", "modal_secret", "modal"}
    [] stage = "render_images" -> {"mapbox", "playwright"}
    [] stage = "fuse_capture" -> {"open3d"}
    [] stage = "project_photo" -> {"trimesh", "rtree", "svgwrite"}
    [] stage = "ept_index" -> {"boundaries"}
    [] OTHER -> {}

\* required_vars of the rows of _CHECKS.
Demanded(stage) ==
  CASE stage = "lidar" -> {"wesm", "pdal"}
    [] stage = "storage" -> {"spaces"}
    [] stage = "sam2" -> {"modal_token", "modal_secret", "modal"}
    [] stage = "imagery" -> {"mapbox"}
    [] stage = "render_images" -> {"mapbox", "playwright"}
    [] stage = "fuse_capture" -> {"open3d"}
    [] stage = "project_photo" -> {"trimesh", "rtree", "svgwrite"}
    [] stage = "ept_index" -> {"boundaries"}

Problems(env) ==
  {s \in Stages : Checked(s, env) /\ ~(Demanded(s) \subseteq env.has)}

\* Importing auth.py needs the shared secret; the checks run before the first request.
Boot ==
  /\ boot.step = "down"
  /\ \E env \in Environments :
       boot' = [boot EXCEPT !.env = env,
                  !.step = IF "secret" \in env.has /\ Problems(env) = {} THEN "up" ELSE "dead"]

\* The gates of the stages, and what the real path of each reads, starts or imports on
\* its first call.
Stubbed(stage, env) == IF stage = "sam2" THEN env.sam2 # "modal" ELSE stage \in env.flags
Used(stage) ==
  CASE stage = "lidar" -> {"wesm", "osgeo", "pdal"}
    [] stage = "storage" -> {"spaces", "boto3"}
    [] stage = "sam2" -> {"PIL", "modal_token", "modal_secret", "modal"}
    [] stage = "imagery" -> {"mapbox", "PIL"}
    [] stage = "render_images" -> {"mapbox", "PIL", "playwright", "chromium"}
    [] stage = "fuse_capture" -> {"open3d"}
    [] stage = "project_photo" -> {"PIL", "trimesh", "rtree"}

CallStage ==
  /\ boot.step = "up"
  /\ \E s \in Stages \ {"ept_index"} :
       boot' = [boot EXCEPT !.step = "called", !.stage = s,
                  !.ran = CASE Stubbed(s, boot.env) -> "stub"
                            [] ~Stubbed(s, boot.env) /\ Used(s) \subseteq boot.env.has -> "real"
                            [] OTHER -> "broken"]

BootStep == Boot \/ CallStage

\* What stages use and no row of _CHECKS demands.
Undemanded == {"osgeo", "boto3", "PIL", "chromium"}

\* A stage of a process that started is broken for want of an undemanded part and of
\* nothing else, and is a stub only where its own flag is set or SAM2_BACKEND names
\* something other than Modal (boot_checks.py:214-223 against the stages' own code).
BootCoversRuntime ==
  /\ boot.ran = "broken" =>
       /\ ~Stubbed(boot.stage, boot.env)
       /\ Used(boot.stage) \ boot.env.has \subseteq Undemanded
  /\ boot.ran = "stub" =>
       IF boot.stage = "sam2" THEN boot.env.sam2 # "modal" ELSE boot.stage \in boot.env.flags

\* "A missing real-path prerequisite RAISES at boot -- the sidecar never starts half-real"
\* (boot_checks.py:252-253): where no test suite opts a stage down, every stage of a
\* process that started runs for real.
StartedIsReal ==
  boot.step = "called" /\ boot.env.flags = {} /\ boot.env.sam2 # "local" => boot.ran = "real"
=============================================================================
