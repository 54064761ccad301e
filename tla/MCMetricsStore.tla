--------------------------- MODULE MCMetricsStore ---------------------------
(* A few requests over one candidate with two profiles and one crash. *)
EXTENDS MetricsStore, TLC

MCSymmetry == Permutations(Tracked) \cup Permutations(Profile)
=============================================================================
