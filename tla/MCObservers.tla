---------------------------- MODULE MCObservers ----------------------------
(***************************************************************************)
(* Two keys in two shards, and goroutines that are alike, for TLC.         *)
(***************************************************************************)
EXTENDS Observers, TLC

TwoShards == 1..2

OneEach == ("k1" :> 1) @@ ("k2" :> 2)

Symmetry == Permutations(Goroutines)

=============================================================================
