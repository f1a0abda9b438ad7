---------------------------- MODULE MCRemoteJobs ----------------------------
(* RemoteJobs on a few jobs and keys.                                       *)
EXTENDS RemoteJobs, TLC

Symmetry == Permutations(Jobs) \cup Permutations(Keys)
=============================================================================
