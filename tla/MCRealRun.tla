---------------------------- MODULE MCRealRun -----------------------------
(* A play that matches nothing, one that matches by one of its two entries, *)
(* and one that asks for two things that are gone.                         *)
EXTENDS RealRun, TLC

CONSTANTS p1, p2, p3, stale, gone, web, h1, h2, t1, v1, docker

AsksOfPlays == p1 :> {stale} @@ p2 :> {web, gone} @@ p3 :> {stale, gone}
============================================================================
