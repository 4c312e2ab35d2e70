-------------------------- MODULE MC_SystemPages --------------------------
(* Two regions besides the empty first one, of one and of two pages.       *)
EXTENDS SystemPageManager, TLC

CONSTANTS r1, r2

RegionPages == FirstRegion :> 0 @@ r1 :> 1 @@ r2 :> 2
Symmetry == Permutations(Threads)
==========================================================================
