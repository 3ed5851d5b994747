--------------------------- MODULE MCReportCache ---------------------------
(* Instance of ReportCache for TLC: its liveness, with the keys in the map. *)
EXTENDS ReportCache

\* The cache switched off (a .cfg has no negative numbers), and on.
OffAndOn == {-1, 1}
=============================================================================
