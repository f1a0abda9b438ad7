-------------------------- MODULE MCResumeDownload --------------------------
(* Two calls; three generations of one file, the first two of which the    *)
(* listing cannot tell apart: g1 and g2 share their prefix, not the rest.  *)
EXTENDS ResumeDownload, TLC

CONSTANTS c1, c2, g1, g2, g3

MCSourceOf == [g \in Gens |-> IF g = g3 THEN "t" ELSE "s"]
MCPrefix   == [g \in Gens |-> IF g = g3 THEN "q" ELSE "p"]
MCOverlap  == [g \in Gens |-> IF g = g1 THEN "v" ELSE "w"]
Symmetry   == Permutations({c1, c2})
=============================================================================
