--------------------------- MODULE MC_PhotoProjection ---------------------------
(***************************************************************************)
(* Instances of PhotoProjection for TLC.                                    *)
(***************************************************************************)
EXTENDS PhotoProjection, TLC

CONSTANTS p1, p2

\* No answer, and one just below the threshold.
NarrowedValues == {NoScore, 6999}

=============================================================================
