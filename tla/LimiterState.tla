---------------------------- MODULE LimiterState ----------------------------
(***************************************************************************)
(* state.go: the algorithm state a policy gives a key, and the two gates   *)
(* (rate, then window) a call has to pass.                                 *)
(***************************************************************************)
EXTENDS Arith, Sequences, Result, PolicySpec

CONSTANTS Second, Grain, MaxTokens, MaxWait    \* see TokenBucket

TB  == INSTANCE TokenBucket
GC  == INSTANCE GCRA
Log == INSTANCE SlidingLog
Ctr == INSTANCE SlidingCounter

ASSUME ScaleAssumption ==
  /\ Second \in Nat \ {0} /\ Grain \in Nat \ {0}
  /\ MaxTokens \in Nat \ {0} /\ MaxWait \in Nat

\* "The ceiling on Burst and on n, so that grains do not overflow"
\* (bucket.go:12, with 10^9 tokens of 10^6 grains in a 64-bit word).
ASSUME GrainsAssumption == MaxTokens * Grain <= MaxU64

\* nil is not a pointer to anything.
ASSUME NilAssumption ==
  NIL \notin TB!States \cup GC!States \cup Log!States \cup Ctr!States

-----------------------------------------------------------------------------
(* The state of one key.  At most one of tb and gcra, and one of log and   *)
(* ctr, exists.                                                            *)

NewLimiterState(spec, now) ==
  LET algo == InferAlgo(spec)
      rate == spec.rate
      window == spec.window
  IN [tb   |-> IF rate # NIL /\ algo # "gcra" THEN TB!NewState(rate, now) ELSE NIL,
      gcra |-> IF rate # NIL /\ algo = "gcra" THEN GC!NewGCRA(rate, now) ELSE NIL,
      log  |-> IF window # NIL /\ algo # "slidingcounter"
                 THEN Log!NewLog(window.size, window.limit) ELSE NIL,
      ctr  |-> IF window # NIL /\ algo = "slidingcounter"
                 THEN Ctr!NewCounter(window.size, window.limit, window.buckets) ELSE NIL]

LimiterStates == [tb: TB!States \cup {NIL}, gcra: GC!States \cup {NIL},
                  log: Log!States \cup {NIL}, ctr: Ctr!States \cup {NIL}]

\* The verdict r of one gate, seen as the verdict of the limiter in state s.
Step(s, r, reason) ==
  [st |-> s, out |-> r.out, wait |-> r.wait,
   reason |-> CASE r.out = "deny" -> reason
                [] r.out = "impossible" -> "impossible"
                [] OTHER -> ""]

AllowRate(s, n, now) ==
  LET t == TB!Allow(s.tb, n, now)
      g == GC!Allow(s.gcra, n, now)
  IN IF s.tb # NIL THEN Step([s EXCEPT !.tb = t.st], t, "rate")
     ELSE IF s.gcra # NIL THEN Step([s EXCEPT !.gcra = g.st], g, "rate")
     ELSE Step(s, Accept(s), "")

AllowWindow(s, n, now) ==
  LET l == Log!Allow(s.log, n, now)
      c == Ctr!Allow(s.ctr, n, now)
  IN IF s.log # NIL THEN Step([s EXCEPT !.log = l.st], l, "window")
     ELSE IF s.ctr # NIL THEN Step([s EXCEPT !.ctr = c.st], c, "window")
     ELSE Step(s, Accept(s), "")

\* Mutant of RestoreRate: only the token bucket is given back.
RestoreRateBucketOnly(s, n, now) ==
  [s EXCEPT !.tb = IF @ = NIL THEN NIL ELSE TB!Restore(@, n, now)]

RestoreRate(s, n, now) ==
  [s EXCEPT !.tb = IF @ = NIL THEN NIL ELSE TB!Restore(@, n, now),
            !.gcra = IF @ = NIL THEN NIL ELSE GC!Restore(@, n, now)]

\* A refusal by the window gives the rate gate back what it took.
Allow(s, n, now) ==
  LET r == AllowRate(s, n, now)
      w == AllowWindow(r.st, n, now)
  IN IF r.out # "ok" THEN r
     ELSE IF w.out = "ok" THEN w
     ELSE [w EXCEPT !.st = RestoreRate(@, n, now)]

PeekRate(s, n, now) ==
  LET t == TB!Peek(s.tb, n, now)
      g == GC!Peek(s.gcra, n, now)
  IN IF s.tb # NIL THEN Step([s EXCEPT !.tb = t.st], t, "rate")
     ELSE IF s.gcra # NIL THEN Step(s, g, "rate")
     ELSE Step(s, Accept(s), "")

PeekWindow(s, n, now) ==
  LET l == Log!Peek(s.log, n, now)
      c == Ctr!Peek(s.ctr, n, now)
  IN IF s.log # NIL THEN Step(s, l, "window")
     ELSE IF s.ctr # NIL THEN Step([s EXCEPT !.ctr = c.st], c, "window")
     ELSE Step(s, Accept(s), "")

Peek(s, n, now) ==
  LET r == PeekRate(s, n, now)
  IN IF r.out # "ok" THEN r ELSE PeekWindow(r.st, n, now)

\* Give n units back to every gate: a cancelled reservation.
Restore(s, n, now) ==
  RestoreRate([s EXCEPT !.log = IF @ = NIL THEN NIL ELSE Log!Restore(@, n),
                        !.ctr = IF @ = NIL THEN NIL ELSE Ctr!Restore(@, n)],
              n, now)

=============================================================================
