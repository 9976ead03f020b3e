--------------------------- MODULE MCProcessJobs ---------------------------
(***************************************************************************)
(* Small instances of ProcessJobs for TLC.                                 *)
(***************************************************************************)
EXTENDS ProcessJobs, TLC

Symmetry == Permutations(Instances) \cup Permutations(Jobs) \cup Permutations(Keys)
=============================================================================
