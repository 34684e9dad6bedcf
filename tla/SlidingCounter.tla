--------------------------- MODULE SlidingCounter ---------------------------
(***************************************************************************)
(* internal/slidingwin/counter.go: the approximate sliding window.  The    *)
(* estimate previous*(1-t)+current is a float in the code; here it is kept *)
(* exact, multiplied by the bucket width.                                  *)
(***************************************************************************)
EXTENDS Arith, Sequences, Result

States == [size: Nat, limit: Nat, buckets: Nat, width: Nat,
           counts: Seq(Nat), start: Int, init: BOOLEAN]

NewCounter(size, limit, asked) ==
  LET wanted == IF asked < 2 THEN 10 ELSE asked
      narrow == size \div wanted = 0
      width == IF narrow THEN 1 ELSE size \div wanted
      buckets == IF narrow THEN MaxI(2, size) ELSE wanted
  IN [size |-> size, limit |-> limit, buckets |-> buckets, width |-> width,
      counts |-> [i \in 1..buckets |-> 0], start |-> 0, init |-> FALSE]

BucketStart(c, now) == now - GoRem(now, c.width)

\* Start of the newest bucket.
End(c) == c.start + c.width * (c.buckets - 1)

\* Slide the buckets so that the newest one holds now.  A clock before the
\* newest bucket moves nothing.
Advance(c, now) ==
  LET cur == BucketStart(c, now)
      steps == (cur - End(c)) \div c.width
      newStart == cur - c.width * (c.buckets - 1)
  IN IF ~c.init THEN [c EXCEPT !.start = newStart, !.init = TRUE]
     ELSE IF cur <= End(c) THEN c
     ELSE [c EXCEPT
             !.counts = [i \in 1..c.buckets |->
                           IF i + steps <= c.buckets THEN @[i + steps] ELSE 0],
             !.start = newStart]

\* width times the estimate: only the two newest buckets are weighed.
Estimate(c, now) ==
  LET elapsed == MinU64(MaxI(now - End(c), 0), c.width)
  IN c.counts[c.buckets - 1] * (c.width - elapsed) + c.counts[c.buckets] * c.width

\* Rough by the code's own account: need/est of the window, at least a bucket.
Wait(c, need, est) ==
  IF est <= 0 THEN 0
  ELSE MaxI(c.width, MinU64((need * c.size) \div est, c.size))

\* over is how much an estimate with n more would exceed the limit.
Allow(c, n, now) ==
  LET a == Advance(c, now)
      est == Estimate(a, now)
      over == est + (n - c.limit) * c.width
  IN IF n <= 0 THEN Refuse(c, 0)
     ELSE IF n > c.limit THEN Impossible(c)
     ELSE IF over <= 0 THEN Accept([a EXCEPT !.counts[c.buckets] = @ + n])
     ELSE Refuse(a, Wait(a, over, est))

\* Mutant of Peek: the buckets are looked at where they stand.
PeekUnslid(c, n, now) ==
  LET est == Estimate(c, now)
      over == est + (n - c.limit) * c.width
  IN IF n <= 0 THEN Refuse(c, 0)
     ELSE IF n > c.limit THEN Impossible(c)
     ELSE IF over <= 0 THEN Accept(c)
     ELSE Refuse(c, Wait(c, over, est))

\* Peek slides the buckets too, but adds nothing.
Peek(c, n, now) ==
  LET a == Advance(c, now)
      est == Estimate(a, now)
      over == est + (n - c.limit) * c.width
  IN IF n <= 0 THEN Refuse(c, 0)
     ELSE IF n > c.limit THEN Impossible(c)
     ELSE IF over <= 0 THEN Accept(a)
     ELSE Refuse(a, Wait(a, over, est))

\* Mutant of Restore: if the newest bucket is empty, the one before is freed.
RestoreOlder(c, n) ==
  LET i == IF c.counts[c.buckets] > 0 THEN c.buckets ELSE c.buckets - 1
  IN IF n <= 0 THEN c ELSE [c EXCEPT !.counts[i] = MaxI(@ - n, 0)]

\* Restore subtracts from the newest bucket, whichever bucket n was counted in.
Restore(c, n) ==
  IF n <= 0 THEN c ELSE [c EXCEPT !.counts[c.buckets] = MaxI(@ - n, 0)]

=============================================================================
