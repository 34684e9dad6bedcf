------------------------------ MODULE Limiter ------------------------------
(***************************************************************************)
(* One key of the engine under one policy: callers allow, peek and cancel, *)
(* one at a time as the key's lock makes them, while the clock they read   *)
(* runs forward and is sometimes set back.                                 *)
(***************************************************************************)
EXTENDS LimiterState, FiniteSetsExt

CONSTANTS
  Specs,        \* the policies to try, one of which Init picks
  StartTimes,   \* readings of the clock at which the key may first be used
  MaxN,         \* bound: the largest n a caller asks for
  Steps,        \* amounts by which the clock moves
  MaxTime,      \* bound: the clock stops here
  MaxBack,      \* bound: how far the clock is set back in all
  MaxCalls      \* bound: admitted calls

ASSUME SpecsAssumption ==
  \A s \in Specs : s \in SpecRecords /\ Validate(s) /\ HasLimiter(s)

ASSUME BoundsAssumption ==
  /\ MaxTime \in Nat /\ StartTimes \subseteq 0..MaxTime
  /\ Steps \subseteq Nat \ {0}
  /\ MaxBack \in Nat /\ MaxCalls \in Nat

\* Above MaxTokens a call would be charged less than it is granted.
ASSUME MaxNAssumption == MaxN \in 1..MaxTokens

\* The clock plus twice the GCRA allowance fits an int64: with nanoseconds
\* since 1970, an allowance burst/PerSecond of up to a century.
ASSUME GcraFitsAssumption ==
  \A s \in Specs :
    InferAlgo(s) = "gcra" =>
      LET interval == MaxI(1, (Second * s.rate.den) \div s.rate.num)
      IN MaxTime + 2 * interval * s.rate.burst <= MaxI64

VARIABLES
  spec,     \* the policy of the key; never changes
  st,       \* its limiterState
  now,      \* the clock
  \* History, read by the properties and by no action:
  calls,    \* the admitted calls: units, time, and whether not cancelled
  net,      \* units admitted and not cancelled
  t0,       \* the clock when the key was first used
  hw,       \* the highest reading of the clock
  fwd,      \* the sum of the forward moves of the clock
  stolen,   \* a cancellation took a window slot that another call recorded
  slots     \* the calls that weigh on the sliding counter, each with the
            \* start of the bucket it was counted in

vars == <<spec, st, now, calls, net, t0, hw, fwd, stolen, slots>>

-----------------------------------------------------------------------------

\* The first decide of a key creates its state (GetOrCreate) before using it.
Init ==
  /\ spec \in Specs
  /\ now \in StartTimes
  /\ st = NewLimiterState(spec, now)
  /\ calls = <<>>
  /\ net = 0
  /\ t0 = now
  /\ hw = now
  /\ fwd = 0
  /\ stolen = FALSE
  /\ slots = <<>>

\* The next call is counted in what is then the newest bucket.
Slotted(s) ==
  IF s.ctr = NIL THEN slots
  ELSE [j \in DOMAIN slots \cup {Len(calls) + 1} |->
          IF j \in DOMAIN slots THEN slots[j] ELSE Ctr!End(s.ctr)]

\* Allow, AllowN or Reserve of n units: the consuming half of decide.
AllowN(n) ==
  LET r == Allow(st, n, now) IN
  /\ st' = r.st
  /\ \/ /\ r.out = "ok"
        /\ Len(calls) < MaxCalls
        /\ calls' = Append(calls, [n |-> n, at |-> now, live |-> TRUE])
        /\ net' = net + n
        /\ slots' = Slotted(r.st)
     \/ /\ r.out # "ok"
        /\ UNCHANGED <<calls, net, slots>>
  /\ UNCHANGED <<spec, now, t0, hw, fwd, stolen>>

\* Engine.Peek asks about a single unit, and keeps what the gates did.
PeekKey ==
  /\ st' = Peek(st, 1, now).st
  /\ UNCHANGED <<spec, now, calls, net, t0, hw, fwd, stolen, slots>>

\* Is call i counted in the newest bucket, which Restore subtracts from?
InNewest(i) == i \in DOMAIN slots /\ slots[i] = Ctr!End(st.ctr)

\* Would restoring call i remove from the window what another call recorded?
Steals(i) ==
  \/ /\ st.log # NIL
     /\ \E j \in 1..Len(st.log.ring) :
          /\ j > Len(st.log.ring) - calls[i].n
          /\ st.log.ring[j] # calls[i].at
  \/ /\ st.ctr # NIL
     /\ st.ctr.counts[st.ctr.buckets] > 0
     /\ ~InNewest(i)

\* Only a call counted in the newest bucket no longer weighs: the bucket of
\* any other keeps its units, cancelled or not.
Freed(i) ==
  IF st.ctr = NIL \/ ~InNewest(i) THEN slots
  ELSE [j \in DOMAIN slots \ {i} |-> slots[j]]

\* Reservation.Cancel of call i, the first time it is called.
Cancel(i) ==
  /\ calls[i].live
  /\ st' = Restore(st, calls[i].n, now)
  /\ calls' = [calls EXCEPT ![i].live = FALSE]
  /\ net' = net - calls[i].n
  /\ stolen' = (stolen \/ Steals(i))
  /\ slots' = Freed(i)
  /\ UNCHANGED <<spec, now, t0, hw, fwd>>

AdvanceClock(d) ==
  /\ now + d <= MaxTime
  /\ now' = now + d
  /\ fwd' = fwd + d
  /\ hw' = MaxI(hw, now')
  /\ UNCHANGED <<spec, st, calls, net, t0, stolen, slots>>

\* Clock rollback, which every algorithm is meant to survive.  The clock
\* stays after the epoch.
RewindClock(d) ==
  /\ now - d >= 0
  /\ fwd - (now - d - t0) <= MaxBack
  /\ now' = now - d
  /\ UNCHANGED <<spec, st, calls, net, t0, hw, fwd, stolen, slots>>

Next ==
  \/ \E n \in 1..MaxN : AllowN(n)
  \/ PeekKey
  \/ \E i \in 1..Len(calls) : Cancel(i)
  \/ \E d \in Steps : AdvanceClock(d)
  \/ \E d \in Steps : RewindClock(d)

Spec == Init /\ [][Next]_vars

-----------------------------------------------------------------------------
(* Vocabulary of the properties.                                           *)

Units(I) == MapThenSumSet(LAMBDA i : calls[i].n, I)

Live == {i \in 1..Len(calls) : calls[i].live}

NoCancel == Live = 1..Len(calls)

Rewound == fwd # now - t0

SingleGate == spec.rate = NIL \/ spec.window = NIL

Admits(s, n, t) == Allow(s, n, t).out = "ok"

-----------------------------------------------------------------------------

BucketOK(b) == b.grains <= b.burst

LogOK(l) == Len(l.ring) <= l.limit

CounterOK(c) == Len(c.counts) = c.buckets /\ c.buckets >= 2 /\ c.width >= 1

\* Type correctness: the gates are the ones the policy asks for, a bucket
\* never holds more than its burst (bucket.go:85), a ring never more than its
\* capacity (log.go:57) and a counter always has its buckets (counter.go:79).
TypeOK ==
  /\ spec \in Specs
  /\ st \in LimiterStates
  /\ st.tb # NIL => BucketOK(st.tb)
  /\ st.log # NIL => LogOK(st.log)
  /\ st.ctr # NIL => CounterOK(st.ctr)
  /\ spec.rate # NIL <=> (st.tb # NIL \/ st.gcra # NIL)
  /\ spec.window # NIL <=> (st.log # NIL \/ st.ctr # NIL)
  /\ st.tb = NIL \/ st.gcra = NIL
  /\ st.log = NIL \/ st.ctr = NIL
  /\ now \in Nat /\ t0 \in Nat /\ hw \in Nat /\ fwd \in Nat
  /\ net \in Int
  /\ calls \in Seq([n: 1..MaxN, at: Nat, live: BOOLEAN])
  /\ stolen \in BOOLEAN
  /\ DOMAIN slots \subseteq 1..Len(calls) /\ slots \in [DOMAIN slots -> Int]

\* The token bucket under any clock: what was admitted and not cancelled never
\* exceeds the burst plus the rate times the forward motion of the clock.  A
\* clock set back is not an error (bucket.go:73) but the time that runs twice
\* is credited twice, and no more than twice.
BucketBound ==
  st.tb # NIL =>
    Second * Grain * net <= Second * st.tb.burst + st.tb.rate * fwd

\* The formula of doc.go:11 for the token bucket, for every interval between
\* two admitted calls: at most the burst plus what the interval earns.
BucketFormula ==
  st.tb # NIL /\ ~Rewound /\ NoCancel =>
    \A i, j \in 1..Len(calls) : i <= j =>
      Second * Grain * Units(i..j)
        <= Second * st.tb.burst + st.tb.rate * (calls[j].at - calls[i].at)

\* GCRA under any clock: unlike the bucket it never credits the same time
\* twice, and cancelling (gcra.go:101) never gives back more than was taken.
GcraBound ==
  st.gcra # NIL =>
    st.gcra.interval * net <= (hw - t0) + st.gcra.limit

\* The formula of doc.go:11 for GCRA, "equivalent to a leaky bucket"
\* (doc.go:5), for every interval between two admitted calls.
GcraFormula ==
  st.gcra # NIL /\ NoCancel =>
    \A i, j \in 1..Len(calls) : i <= j =>
      st.gcra.interval * Units(i..j)
        <= st.gcra.limit + (calls[j].at - calls[i].at)

\* GCRA as its leaky bucket: the level is how far tat is ahead of the clock.
HasGcra == st.gcra # NIL

Leaky == INSTANCE LeakyBucket WITH
  cost <- IF HasGcra THEN st.gcra.interval ELSE 0,
  capacity <- IF HasGcra THEN st.gcra.limit ELSE 0,
  level <- IF HasGcra THEN MaxI(st.gcra.tat - now, 0) ELSE 0,
  held <- IF HasGcra THEN net ELSE 0,
  clock <- now

\* "GCRA (equivalent to a leaky bucket)" (doc.go:5), step by step: what is let
\* in fits above the level, a refusal by either gate adds nothing, time drains
\* one for one, a cancellation takes back what it added and no more, and a
\* clock set back never empties the bucket.
ImplementsLeaky == Leaky!Spec

\* The sliding log (window.go:5): the live events in the window that ends at
\* the highest time read so far are never more than the limit, whatever the
\* clock does, as long as every cancellation removed its own events.
LogWindow ==
  st.log # NIL /\ ~stolen =>
    Units({i \in Live : calls[i].at > hw - st.log.size}) <= st.log.limit

\* The sliding counter (counter.go:5-7), told from the calls it counts, under
\* any clock: each was let in when its bucket in full, and the one before by
\* what of it had not slid out, stayed within the limit.  A call is counted in
\* the bucket of its time, or after the clock was set back in a later one
\* (counter.go:66).  It weighs until its bucket is no longer one of the two,
\* also when it is cancelled: a cancellation gives back only what the newest
\* bucket holds of its own call.  Left out are the histories in which one took
\* from the newest bucket what another call had counted there (counter.go:150).
CounterWeighs ==
  st.ctr # NIL /\ ~stolen =>
    \A j \in DOMAIN slots :
      LET w == st.ctr.width
          passed == MaxI(calls[j].at - slots[j], 0)
          counted(start) == {i \in DOMAIN slots : i <= j /\ slots[i] = start}
      IN /\ w * Units(counted(slots[j])) + (w - passed) * Units(counted(slots[j] - w))
              <= st.ctr.limit * w
         /\ slots[j] >= Ctr!BucketStart(st.ctr, calls[j].at)
         /\ slots[j] = Ctr!BucketStart(st.ctr, calls[j].at) \/ Rewound

\* The suggested wait is exact (Allow's doc, allow.go:10): no retry before it
\* is over is let in, and with a single gate the retry at its end is.  The
\* sliding counter only promises an approximation (counter.go:157).
WaitExact ==
  st.ctr = NIL /\ (st.log # NIL => ~Rewound) =>
    \A n \in 1..MaxN :
      LET r == Allow(st, n, now) IN
      r.out = "deny" =>
        /\ \A d \in 0..(r.wait - 1) : ~Admits(r.st, n, now + d)
        /\ SingleGate => Admits(r.st, n, now + r.wait)

\* What a limiter that has let nothing in at this instant looks like.
Settled ==
  [tb |-> IF st.tb = NIL THEN NIL ELSE TB!Refill(st.tb, now),
   gcra |-> IF st.gcra = NIL THEN NIL
            ELSE [st.gcra EXCEPT !.tat = MaxI(@, now)],
   log |-> IF st.log = NIL THEN NIL
           ELSE [st.log EXCEPT !.ring = Log!Prune(@, now - st.log.size)],
   ctr |-> IF st.ctr = NIL THEN NIL ELSE Ctr!Advance(st.ctr, now)]

\* A grant cancelled at once, and a rate grant undone because the window
\* refused (state.go:62-66), leave no trace on either gate.
RollsBack ==
  \A n \in 1..MaxN :
    LET r == Allow(st, n, now) IN
    /\ r.out = "ok" => Restore(r.st, n, now) = Settled
    /\ r.out = "deny" /\ r.reason = "window" => r.st = Settled

\* An event that has left the window lies in the log behind one that has not.
Hides ==
  /\ st.log # NIL
  /\ \E i, j \in 1..Len(st.log.ring) :
       /\ i < j
       /\ st.log.ring[i] > Log!Cutoff(st.log, now)
       /\ st.log.ring[j] <= Log!Cutoff(st.log, now)

\* Peek (allow.go:28) gives the verdict, the wait and the reason that Allow
\* would give, for any n, although each algorithm has its own code for the two
\* (bucket.go:140, gcra.go:73, window.go:56, counter.go:130).  One difference
\* remains: Peek does not count an expired event that Allow's pruning, which
\* stops at the first valid one, leaves in the log.  That takes a clock that
\* was set back, and then Allow refuses where Peek may promise a place.
PeekAgrees ==
  /\ Hides => Rewound
  /\ \A n \in 1..MaxN :
       LET p == Peek(st, n, now)
           a == Allow(st, n, now)
       IN \/ p.out = a.out /\ p.wait = a.wait /\ p.reason = a.reason
          \/ Hides /\ a.out = "deny" /\ a.reason = "window"

R == INSTANCE Ring

\* The ways a ring of c places may hold the events of the log: it starts
\* anywhere, and its other places keep what was there.
HeldBy(c) ==
  LET len == Len(st.log.ring)
  IN {[start |-> s, len |-> len, cap |-> c,
       times |-> [p \in 0..(c - 1) |->
                    LET i == ((p - s + c) % c) + 1
                    IN IF i <= len THEN st.log.ring[i] ELSE now]] :
        s \in 0..(c - 1)}

\* The circular buffer of log.go, on which window.go works, is the sequence of
\* timestamps that all properties of the sliding log are about: wherever the
\* log stands, in a ring just large enough or larger, at any start.
RingImplements ==
  st.log # NIL /\ spec.rate = NIL =>
    \A c \in st.log.limit..(st.log.limit + 1) :
      \A r \in HeldBy(c), n \in 1..MaxN :
        R!Implements([ring |-> r, size |-> st.log.size, limit |-> c], n, now)

-----------------------------------------------------------------------------
(* What the documentation says and the code does not do.                   *)

\* Window.Limit is "the number of events allowed in the window" (types.go:27).
\* Even twice that many is exceeded by the sliding counter: it weighs only the
\* two newest of its buckets, so a window of many buckets forgets its events.
CounterWindow ==
  st.ctr # NIL /\ ~Rewound =>
    Units({i \in Live : calls[i].at > now - st.ctr.size}) <= 2 * st.ctr.limit

\* "The timestamps in the window are never more than Limit" (window.go:5), for
\* the events whose reservations were not cancelled: Cancel pops the newest
\* timestamps instead of its own.
LogLiveWindow ==
  st.log # NIL /\ ~Rewound =>
    Units({i \in Live : calls[i].at > now - st.log.size}) <= st.log.limit

\* MulDiv "uses a 128-bit intermediate result to avoid overflow" (arith.go:5):
\* no decision of any size at any later time overflows.
NeverPanics ==
  \A n \in 1..MaxN : Allow(st, n, now).out # "panic"

=============================================================================
