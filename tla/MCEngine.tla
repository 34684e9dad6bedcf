------------------------------ MODULE MCEngine ------------------------------
(***************************************************************************)
(* Policies for TLC to run Engine with.                                    *)
(***************************************************************************)
EXTENDS Engine, TLC

\* A token in two ticks and one at once; an event in two ticks.
Rate == [num |-> 2, den |-> 1, burst |-> 1]

Window == [size |-> 2, limit |-> 1, buckets |-> 0]

Gates ==
  { [algo |-> "", rate |-> Rate, window |-> NIL],
    [algo |-> "gcra", rate |-> Rate, window |-> NIL],
    [algo |-> "", rate |-> NIL, window |-> Window] }

GcraOnly == { [algo |-> "gcra", rate |-> Rate, window |-> NIL] }

GcraAndLog == GcraOnly \cup { [algo |-> "", rate |-> NIL, window |-> Window] }

OneShard == [k \in Keys |-> 0]

Symmetry == Permutations(Goroutines)

=============================================================================
