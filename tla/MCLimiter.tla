----------------------------- MODULE MCLimiter -----------------------------
(***************************************************************************)
(* Policies for TLC to run Limiter with.                                   *)
(***************************************************************************)
EXTENDS Limiter

\* One and a half tokens a second, two at once; two events in three ticks.
Rate == [num |-> 3, den |-> 2, burst |-> 2]

Window(size, buckets) == [size |-> size, limit |-> 2, buckets |-> buckets]

\* Each algorithm alone, and each rate gate in front of each kind of window.
AllSpecs ==
  { [algo |-> "", rate |-> Rate, window |-> NIL],
    [algo |-> "gcra", rate |-> Rate, window |-> NIL],
    [algo |-> "", rate |-> NIL, window |-> Window(3, 0)],
    [algo |-> "slidingcounter", rate |-> NIL, window |-> Window(4, 2)],
    [algo |-> "", rate |-> Rate, window |-> Window(3, 0)],
    [algo |-> "gcra", rate |-> Rate, window |-> Window(3, 0)],
    [algo |-> "slidingcounter", rate |-> Rate, window |-> Window(4, 2)] }

\* A counter of one-tick buckets.
FineCounter == { [algo |-> "slidingcounter", rate |-> NIL, window |-> Window(6, 6)] }

LogOnly == { [algo |-> "slidinglog", rate |-> NIL, window |-> Window(4, 0)] }

BucketOnly == { [algo |-> "tokenbucket", rate |-> Rate, window |-> NIL] }

\* So fast that a long idle spell earns more grains than a word holds.
FastBucket == { [algo |-> "tokenbucket",
                 rate |-> [num |-> 60, den |-> 1, burst |-> 2], window |-> NIL] }

=============================================================================
