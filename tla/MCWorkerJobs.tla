---------------------------- MODULE MCWorkerJobs ----------------------------
(* WorkerJobs on two identities. *)
EXTENDS WorkerJobsService, TLC

Symmetry == Permutations(Jobs) \cup Permutations(Keys)
=============================================================================
