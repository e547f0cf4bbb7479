---------------------------- MODULE MC_CaptureUpload ----------------------------
(***************************************************************************)
(* Instances of CaptureUpload for TLC.                                      *)
(***************************************************************************)
EXTENDS CaptureUpload, TLC

CONSTANTS u1, u2, u3, j1, j2, s1, s2

\* Any two of three bundles: u1 and u2 have one session id under two jobs, u1
\* and u3 two sessions under two jobs, u2 and u3 two sessions under one job.
BundleJobs == u1 :> j1 @@ u2 :> j2 @@ u3 :> j2
BundleIds == u1 :> s1 @@ u2 :> s1 @@ u3 :> s2

MeshAndPhotos == <<"mesh", "photos">>

=============================================================================
