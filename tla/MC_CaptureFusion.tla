---------------------------- MODULE MC_CaptureFusion ----------------------------
(***************************************************************************)
(* Instances of CaptureFusion for TLC.                                      *)
(***************************************************************************)
EXTENDS CaptureFusion, TLC

CONSTANTS d1, d2, s1, s2

OneDelivery == d1 :> s1
TwoSessions == d1 :> s1 @@ d2 :> s2

NoFaults == {}
BroadcastFault == {"broadcast"}
KillFault == {"kill"}

=============================================================================
