--------------------------- MODULE MCRepoLock ----------------------------
(* Two runs on two files.  Runs and files are interchangeable, so the runs *)
(* that check no liveness use symmetry.                                    *)
EXTENDS RepoLock, TLC

CONSTANTS r1, r2, f1, f2

Symmetric == Permutations(Runs) \cup Permutations(Files)
==========================================================================
