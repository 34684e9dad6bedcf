---------------------------- MODULE TokenBucket ----------------------------
(***************************************************************************)
(* internal/tokenbucket/bucket.go: the classic token bucket, counted in    *)
(* integer grains.  A configuration is [num, den, burst]: PerSecond is     *)
(* num/den tokens per second.                                              *)
(***************************************************************************)
EXTENDS Arith, Result

CONSTANTS Second,      \* nanoseconds in a second
          Grain,       \* grains in a token
          MaxTokens,   \* largest burst, and largest n that is charged in full
          MaxWait      \* 365 days, the longest wait ever suggested

States == [grains: Nat, last: Int, rate: Nat, burst: Nat]

\* Rounded to the nearest grain, at least one, at most MaxI64.
GrainsPerSecond(num, den) ==
  IF num * Grain >= MaxI64 * den
    THEN MaxI64
    ELSE MaxI(1, (2 * num * Grain + den) \div (2 * den))

Need(n) == IF n <= 0 THEN 0 ELSE MinU64(n, MaxTokens) * Grain

BurstGrains(burst) == Need(burst)

NewState(cfg, now) ==
  [grains |-> BurstGrains(cfg.burst),
   last   |-> now,
   rate   |-> GrainsPerSecond(cfg.num, cfg.den),
   burst  |-> BurstGrains(cfg.burst)]

Stopped(s) == s.rate = 0 \/ s.burst = 0

RefillPanics(s, now) ==
  ~Stopped(s) /\ now > s.last /\ MulDivPanics(s.rate, now - s.last, Second)

\* Mutant of Refill: idle time is not capped at the burst.
RefillUncapped(s, now) ==
  IF Stopped(s) THEN s
  ELSE IF now <= s.last THEN [s EXCEPT !.last = now]
  ELSE [s EXCEPT !.grains = s.grains + MulDiv(s.rate, now - s.last, Second), !.last = now]

\* Mutant of Refill: the fraction of a grain is rounded up.
RefillRoundsUp(s, now) ==
  IF Stopped(s) THEN s
  ELSE IF now <= s.last THEN [s EXCEPT !.last = now]
  ELSE [s EXCEPT
          !.grains = MinU64(s.burst, s.grains + MulDivRoundUp(s.rate, now - s.last, Second)),
          !.last = now]

\* The division is floored and last moves to now: the fraction of a grain
\* earned since last is forgotten.
Refill(s, now) ==
  IF Stopped(s) THEN s
  ELSE IF now <= s.last THEN [s EXCEPT !.last = now]
  ELSE [s EXCEPT
          !.grains = MinU64(s.burst,
                       SaturatingAddU64(s.grains, MulDiv(s.rate, now - s.last, Second))),
          !.last = now]

WaitPanics(s, need) == MulDivPanics(need - s.grains, Second, s.rate)

\* Mutant of WaitFor: the wait is rounded down.
WaitForRoundsDown(s, need) ==
  IF s.rate = 0 THEN -1
  ELSE MinU64(MulDiv(need - s.grains, Second, s.rate), MaxWait)

WaitFor(s, need) ==
  IF s.rate = 0 THEN -1
  ELSE MinU64(MulDivRoundUp(need - s.grains, Second, s.rate), MaxWait)

Allow(s, n, now) ==
  LET need == Need(n)
      r == Refill(s, now)
  IN IF n <= 0 THEN Refuse(s, 0)
     ELSE IF need > s.burst THEN Impossible(s)
     ELSE IF RefillPanics(s, now) THEN Panic(s)
     ELSE IF r.grains >= need THEN Accept([r EXCEPT !.grains = @ - need])
     ELSE IF WaitPanics(r, need) THEN Panic(r)
     ELSE Refuse(r, WaitFor(r, need))

\* Peek refills in place but takes nothing.
Peek(s, n, now) ==
  LET need == Need(n)
      r == Refill(s, now)
  IN IF n <= 0 THEN Refuse(s, 0)
     ELSE IF need > s.burst THEN Impossible(s)
     ELSE IF RefillPanics(s, now) THEN Panic(s)
     ELSE IF r.grains >= need THEN Accept(r)
     ELSE IF WaitPanics(r, need) THEN Panic(r)
     ELSE Refuse(r, WaitFor(r, need))

\* A refill that panics leaves the bucket as it was: nothing is given back.
Restore(s, n, now) ==
  IF n <= 0 \/ RefillPanics(s, now) THEN s
  ELSE LET r == Refill(s, now)
       IN [r EXCEPT !.grains = MinU64(r.burst, SaturatingAddU64(@, Need(n)))]

=============================================================================
