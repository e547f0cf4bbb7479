---------------------------- MODULE SidecarWorld ----------------------------
(***************************************************************************)
(* What the stages of the sidecar share: the callers and the buildings.    *)
(***************************************************************************)
CONSTANTS
  Requests,    \* callers (Rails jobs); each has one call under way at a time
  Buildings,   \* building polygons
  NoValue      \* Python's None
=============================================================================
