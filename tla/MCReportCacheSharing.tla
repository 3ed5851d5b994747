------------------------ MODULE MCReportCacheSharing ------------------------
(* Instance of ReportCacheSharing, and of ReportCache, for TLC.             *)
EXTENDS ReportCacheSharing, TLC

\* Callers and flights are interchangeable, and so are the keys.
CacheSymmetry == Permutations(Callers) \cup Permutations(Keys) \cup Permutations(Flights)

\* The cache switched off (a .cfg has no negative numbers), and on.
OffAndOn == {-1, 2}
=============================================================================
