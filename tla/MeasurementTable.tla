--------------------------- MODULE MeasurementTable ---------------------------
(***************************************************************************)
(* What the measurements of a job promise to whoever reads them: a row is   *)
(* only ever added, by the pipeline or by a capture that refines an earlier *)
(* row with LiDAR, and of a row that is there nothing changes but its       *)
(* warnings, which are never all withdrawn.  Where no two captures are      *)
(* processed at once, a capture refines no capture, and no warning is lost. *)
(***************************************************************************)
EXTENDS Naturals, Sequences

CONSTANT Overlapping   \* two captures of the job may be processed at once

VARIABLE table   \* oldest first

Init == table = << >>

Newest == table[Len(table)]

Added ==
  /\ Len(table') = Len(table) + 1
  /\ \A i \in 1..Len(table) : table'[i] = table[i]

Measure == Added /\ Newest'.source = "pipeline"

Refine ==
  /\ Added /\ Newest'.source = "fused"
  /\ \E i \in 1..Len(table) :
       Newest'.base = i /\ table[i].lidar /\ table[i].confidence <= Newest'.confidence
  /\ Overlapping \/ Newest.source = "pipeline"

Warn ==
  \E i \in 1..Len(table) :
    /\ table' = [table EXCEPT ![i].warnings = table'[i].warnings]
    /\ table'[i].warnings # {}
    /\ Overlapping \/ table[i].warnings \subseteq table'[i].warnings

Next == Measure \/ Refine \/ Warn

Spec == Init /\ [][Next]_table
=============================================================================
