--------------------------- MODULE LimiterProofs ---------------------------
(***************************************************************************)
(* Theorems about Limiter: its type invariant, what each of the algorithms *)
(* lets through in all, over every interval and in its window, that a call *)
(* undone leaves no trace, that Peek agrees with Allow, and that suggested *)
(* waits are exact.                                                        *)
(***************************************************************************)
EXTENDS Limiter, GateProofs

-----------------------------------------------------------------------------
(* The inductive invariant.  Each gate keeps an account of what it let     *)
(* through (net) against what its clock has earned.                        *)

Shape ==
  /\ spec \in Specs
  /\ st \in GoodStates
  /\ spec.rate # NIL <=> (st.tb # NIL \/ st.gcra # NIL)
  /\ spec.window # NIL <=> (st.log # NIL \/ st.ctr # NIL)

Clocks ==
  /\ now \in Nat /\ t0 \in Nat /\ hw \in Nat /\ fwd \in Nat
  /\ now <= hw /\ t0 <= hw /\ hw <= MaxTime

CallRecords == [n: 1..MaxN, at: Nat, live: BOOLEAN]

SlotsOK == DOMAIN slots \subseteq 1..Len(calls) /\ slots \in [DOMAIN slots -> Int]

History ==
  /\ net \in Int
  /\ calls \in Seq(CallRecords)
  /\ stolen \in BOOLEAN
  /\ SlotsOK

\* The time since the last refill is still to be credited.
Pending(b, t) == MaxI(t - b.last, 0)

\* At time t the grains in the bucket and the m tokens it let through are paid
\* for by the burst and by what f ticks of forward motion have earned.
Paid(b, m, f, t) ==
  /\ b.burst > 0
  /\ Pending(b, t) <= f
  /\ Second * (b.grains + Grain * m)
       <= Second * b.burst + b.rate * (f - Pending(b, t))

\* tat is ahead of the first reading z by the m units let through, and of the
\* highest reading w by no more than the allowance.
Metered(g, m, z, w) ==
  /\ MaxTime + 2 * g.limit <= MaxI64
  /\ g.tat <= w + g.limit
  /\ g.interval = 0 \/ g.interval * m <= g.tat - z

BucketAccount == st.tb # NIL => Paid(st.tb, net, fwd, now)

MeterAccount ==
  st.gcra # NIL =>
    /\ Metered(st.gcra, net, t0, hw)
    /\ \A i \in 1..Len(calls) : calls[i].n <= st.gcra.burst

IInv == Shape /\ Clocks /\ History /\ BucketAccount /\ MeterAccount

\* Spending k tokens keeps the bucket paid for.
LEMMA PaidSpend ==
  ASSUME NEW b \in Buckets, NEW c, NEW k \in Int, NEW t \in Nat,
         NEW m \in Int, NEW f \in Nat,
         Spends(b, c, k, t), Paid(b, m, f, t)
  PROVE  Paid(c, m + k, f, t)
  <1> DEFINE e == Pending(b, t)
  <1>1. /\ b.grains \in Nat /\ b.rate \in Nat /\ b.burst \in Nat /\ b.last \in Int
        /\ c.grains \in Nat /\ c.last \in Int
        /\ c.rate = b.rate /\ c.burst = b.burst
    BY DEF Spends, Buckets, TB!States
  <1>2. e \in Nat /\ e <= f /\ b.burst > 0
    BY <1>1 DEF Pending, MaxI, Paid
  <1>3. /\ Second * (c.grains + Grain * k) <= Second * b.grains + b.rate * e
        /\ Second * (b.grains + Grain * m) <= Second * b.burst + b.rate * (f - e)
    BY DEF Spends, Pending, Paid
  <1>4. Pending(c, t) = IF b.rate = 0 THEN e ELSE 0
    BY <1>1, <1>2 DEF Spends, Pending, MaxI
  <1> HIDE DEF e
  <1>5. Second * (c.grains + Grain * (m + k)) <= Second * b.burst + b.rate * f
    BY <1>1, <1>2, <1>3, ScaleAssumption
  <1>6. CASE b.rate = 0
    BY <1>1, <1>2, <1>4, <1>5, <1>6 DEF Paid
  <1>7. CASE b.rate # 0
    BY <1>1, <1>2, <1>4, <1>5, <1>7 DEF Paid
  <1> QED
    BY <1>6, <1>7

\* So does the clock, moved to u, as long as its forward motion is counted.
LEMMA PaidClock ==
  ASSUME NEW b \in Buckets, NEW t \in Nat, NEW u \in Nat,
         NEW m \in Int, NEW f \in Nat, NEW d \in Nat,
         u <= t + d, Paid(b, m, f, t)
  PROVE  Paid(b, m, f + d, u)
  <1> DEFINE e == Pending(b, t)
             p == Pending(b, u)
             x == Second * (b.grains + Grain * m)
             y == Second * b.burst
  <1>1. /\ b.grains \in Nat /\ b.rate \in Nat /\ b.burst \in Nat /\ b.last \in Int
    BY DEF Buckets, TB!States
  <1>2. e \in Nat /\ p \in Nat /\ e <= f /\ p <= e + d
    BY <1>1 DEF Pending, MaxI, Paid
  <1>3. x \in Int /\ y \in Int /\ x <= y + b.rate * (f - e)
    BY <1>1, ScaleAssumption DEF Paid
  <1> HIDE DEF e, p, x, y
  <1>4. b.rate * (f - e) <= b.rate * (f + d - p)
    BY <1>1, <1>2, ProductGrows
  <1>5. b.rate * (f - e) \in Int /\ b.rate * (f + d - p) \in Int
    BY <1>1, <1>2
  <1>6. x <= y + b.rate * (f + d - p)
    BY <1>3, <1>4, <1>5
  <1> QED
    BY <1>2, <1>6 DEF Paid, e, p, x, y

\* Letting k units through keeps the meter's account.
LEMMA MeteredMove ==
  ASSUME NEW g \in Meters, NEW h, NEW k \in Int, NEW t \in Nat,
         NEW m \in Int, NEW z \in Nat, NEW w \in Nat, t <= w,
         Moves(g, h, k, t), Metered(g, m, z, w)
  PROVE  Metered(h, m + k, z, w)
  <1>1. /\ h.interval = g.interval /\ h.limit = g.limit
        /\ h.tat >= g.tat + g.interval * k
        /\ h.tat <= MaxI(g.tat, t + g.limit)
        /\ g.interval \in Nat /\ g.tat \in Int /\ g.limit \in Nat /\ h.tat \in Int
    BY DEF Moves, Meters, GC!States
  <1>2. h.tat <= w + h.limit
    BY <1>1 DEF MaxI, Metered
  <1>3. g.interval * (m + k) = g.interval * m + g.interval * k
    BY <1>1
  <1>4. g.interval * m \in Int /\ g.interval * k \in Int
    BY <1>1
  <1>5. h.interval = 0 \/ h.interval * (m + k) <= h.tat - z
    BY <1>1, <1>3, <1>4 DEF Metered
  <1> QED
    BY <1>1, <1>2, <1>5 DEF Metered

\* An operation on the key that lets k units through keeps the accounts.
LEMMA StepKeeps ==
  ASSUME IInv, NEW k \in Int, Effect(st, st', k, now), net' = net + k,
         spec' = spec, now' = now, t0' = t0, hw' = hw, fwd' = fwd,
         calls' \in Seq(CallRecords), stolen' \in BOOLEAN, SlotsOK',
         st.gcra # NIL => \A i \in 1..Len(calls') : calls'[i].n <= st.gcra.burst
  PROVE  IInv'
  <1>1. Shape'
    BY DEF IInv, Shape, Effect, SameGates
  <1>2. Clocks' /\ History'
    BY DEF IInv, Clocks, History, CallRecords
  <1>3. net \in Int /\ now \in Nat /\ fwd \in Nat /\ hw \in Nat /\ t0 \in Nat
        /\ now <= hw
    BY DEF IInv, Clocks, History
  <1>4. BucketAccount'
    <2> SUFFICES ASSUME st'.tb # NIL
                 PROVE  Paid(st'.tb, net + k, fwd, now)
      BY DEF BucketAccount
    <2>1. st.tb \in Buckets /\ Paid(st.tb, net, fwd, now)
      BY GoodFields DEF IInv, Shape, BucketAccount, Effect, SameGates
    <2>2. CASE k <= 0 /\ st'.tb = st.tb
      <3>1. \A q \in Nat, x, y \in Int : x <= y => q * x <= q * y
        <4> SUFFICES ASSUME NEW q \in Nat, NEW x \in Int, NEW y \in Int, x <= y
                     PROVE  q * x <= q * y
          OBVIOUS
        <4>1. q * (y - x) \in Nat
          BY NatProduct
        <4>2. q * y = q * x + q * (y - x)
          OBVIOUS
        <4> QED
          BY <4>1, <4>2
      <3>2. /\ Grain * (net + k) \in Int /\ Grain * net \in Int
            /\ Grain * (net + k) <= Grain * net
        BY <1>3, <2>2, <3>1, ScaleAssumption
      <3>3. st.tb.grains \in Nat /\ st.tb.burst \in Nat /\ st.tb.rate \in Nat
        BY <2>1 DEF Buckets, TB!States
      <3>4. /\ st.tb.grains + Grain * (net + k) \in Int
            /\ st.tb.grains + Grain * net \in Int
            /\ st.tb.grains + Grain * (net + k) <= st.tb.grains + Grain * net
        BY <3>2, <3>3
      <3>5. Second * (st.tb.grains + Grain * (net + k)) <= Second * (st.tb.grains + Grain * net)
        BY <3>1, <3>4, ScaleAssumption
      <3>6. /\ Second * (st.tb.grains + Grain * (net + k)) \in Int
            /\ Second * (st.tb.grains + Grain * net) \in Int
            /\ Second * st.tb.burst \in Int
            /\ st.tb.rate * (fwd - Pending(st.tb, now)) \in Int
        <4>1. \A q \in Nat, x \in Int : q * x \in Int
          OBVIOUS
        <4>2. fwd - Pending(st.tb, now) \in Int
          BY <1>3, <2>1 DEF Pending, MaxI, Buckets, TB!States
        <4>3. Second \in Nat
          BY ScaleAssumption
        <4>4. Second * (st.tb.grains + Grain * (net + k)) \in Int
          BY <3>4, <4>1, <4>3
        <4>5. Second * (st.tb.grains + Grain * net) \in Int
          BY <3>4, <4>1, <4>3
        <4>6. Second * st.tb.burst \in Int
          <5>1. st.tb.burst \in Int /\ Second \in Nat
            BY <3>3, <4>3
          <5> QED
            BY <4>1, <5>1
        <4>7. st.tb.rate * (fwd - Pending(st.tb, now)) \in Int
          BY <3>3, <4>1, <4>2
        <4> QED
          BY <4>4, <4>5, <4>6, <4>7
      <3>7. Second * (st.tb.grains + Grain * net)
              <= Second * st.tb.burst + st.tb.rate * (fwd - Pending(st.tb, now))
        BY <2>1 DEF Paid
      <3>8. Second * (st.tb.grains + Grain * (net + k))
              <= Second * st.tb.burst + st.tb.rate * (fwd - Pending(st.tb, now))
        <4>1. \A x, y, u, v \in Int : x <= y /\ y <= u + v => x <= u + v
          OBVIOUS
        <4> QED
          BY <3>5, <3>6, <3>7, <4>1
      <3> QED
        BY <2>1, <2>2, <3>8 DEF Paid
    <2>3. CASE Spends(st.tb, st'.tb, k, now)
      BY <1>3, <2>1, <2>3, PaidSpend
    <2> QED
      BY <2>2, <2>3 DEF Effect, SameGates
  <1>5. MeterAccount'
    <2> SUFFICES ASSUME st'.gcra # NIL
                 PROVE  /\ Metered(st'.gcra, net + k, t0, hw)
                        /\ \A i \in 1..Len(calls') : calls'[i].n <= st'.gcra.burst
      BY DEF MeterAccount
    <2>1. st.gcra # NIL /\ st.gcra \in Meters /\ Metered(st.gcra, net, t0, hw)
      BY GoodFields DEF IInv, Shape, MeterAccount, Effect, SameGates
    <2>2. Moves(st.gcra, st'.gcra, k, now)
      BY <2>1 DEF Effect
    <2>3. Metered(st'.gcra, net + k, t0, hw)
      BY <1>3, <2>1, <2>2, MeteredMove
    <2> QED
      BY <2>1, <2>2, <2>3 DEF Moves
  <1> QED
    BY <1>1, <1>2, <1>4, <1>5 DEF IInv

\* Under the invariant the arithmetic of GCRA stays within an int64.
LEMMA MeterFits ==
  ASSUME IInv, st.gcra # NIL
  PROVE  Fits(st.gcra, now) /\ st.gcra.limit <= MaxI64
  <1>1. st.gcra \in Meters
    BY GoodFields DEF IInv, Shape
  <1>2. st.gcra.limit \in Nat /\ st.gcra.tat \in Int
    BY <1>1 DEF Meters, GC!States
  <1>3. /\ now \in Nat /\ hw \in Nat /\ now <= hw /\ hw <= MaxTime /\ MaxTime \in Nat
        /\ MaxTime + 2 * st.gcra.limit <= MaxI64 /\ st.gcra.tat <= hw + st.gcra.limit
    BY BoundsAssumption DEF IInv, Clocks, MeterAccount, Metered
  <1>4. MaxI64 \in Int
    BY MaxI64Fits
  <1> QED
    BY <1>2, <1>3, <1>4 DEF Fits, MaxI

LEMMA UnitsFit == 1..MaxN \subseteq 1..MaxTokens /\ 1..MaxN \subseteq Nat
  BY MaxNAssumption, ScaleAssumption

\* A counter's newest bucket has a beginning.
LEMMA EndInt ==
  ASSUME NEW s \in GoodStates, s.ctr # NIL
  PROVE  Ctr!End(s.ctr) \in Int
  <1>1. s.ctr.start \in Int /\ s.ctr.width \in Int /\ s.ctr.buckets \in Int
    BY GoodFields DEF Counters, Ctr!States
  <1> QED
    BY <1>1 DEF Ctr!End

\* The bucket a grant is counted in is put with the others.
LEMMA SlottedOK ==
  ASSUME NEW s \in GoodStates, SlotsOK, slots' = Slotted(s),
         Len(calls) \in Nat, Len(calls') = Len(calls) + 1
  PROVE  SlotsOK'
  <1>1. CASE s.ctr = NIL
    BY <1>1 DEF SlotsOK, Slotted
  <1>2. CASE s.ctr # NIL
    <2>1. PICK d, x, e : d = DOMAIN slots /\ x = Len(calls) + 1 /\ e = Ctr!End(s.ctr)
      OBVIOUS
    <2>2. /\ slots' = [j \in d \cup {x} |-> IF j \in d THEN slots[j] ELSE e]
          /\ e \in Int /\ \A j \in d : slots[j] \in Int
      BY <1>2, <2>1, EndInt DEF Slotted, SlotsOK
    <2>3. d \subseteq 1..x
      BY <2>1 DEF SlotsOK
    <2>4. DOMAIN slots' = d \cup {x} /\ slots' \in [d \cup {x} -> Int]
      BY <2>2
    <2> QED
      BY <2>1, <2>3, <2>4 DEF SlotsOK
  <1> QED
    BY <1>1, <1>2

LEMMA AllowKeeps ==
  ASSUME IInv, NEW n \in 1..MaxN, AllowN(n)
  PROVE  IInv'
  <1> DEFINE r == Allow(st, n, now)
  <1>1. /\ n \in 1..MaxTokens /\ st \in GoodStates /\ now \in Nat /\ net \in Int
        /\ calls \in Seq(CallRecords) /\ stolen \in BOOLEAN
    BY UnitsFit DEF IInv, Shape, Clocks, History
  <1>2. /\ Effect(st, r.st, IF r.out = "ok" THEN n ELSE 0, now)
        /\ st.gcra # NIL /\ r.out = "ok" => n <= st.gcra.burst
    BY <1>1, MeterFits, AllowEffect
  <1>3. /\ st' = r.st /\ spec' = spec /\ now' = now /\ t0' = t0 /\ hw' = hw
        /\ fwd' = fwd /\ stolen' = stolen
    BY DEF AllowN
  <1> HIDE DEF r
  <1>4. CASE /\ r.out = "ok" /\ net' = net + n
             /\ calls' = Append(calls, [n |-> n, at |-> now, live |-> TRUE])
             /\ slots' = Slotted(st')
    <2> DEFINE call == [n |-> n, at |-> now, live |-> TRUE]
    <2>1. call \in CallRecords
      BY <1>1 DEF CallRecords
    <2>2. calls' \in Seq(CallRecords)
      BY <1>1, <1>4, <2>1
    <2>3. st.gcra # NIL => \A i \in 1..Len(calls') : calls'[i].n <= st.gcra.burst
      <3> SUFFICES ASSUME st.gcra # NIL, NEW i \in 1..Len(calls')
                   PROVE  calls'[i].n <= st.gcra.burst
        OBVIOUS
      <3>1. CASE i = Len(calls) + 1
        BY <1>1, <1>2, <1>4, <3>1
      <3>2. CASE i # Len(calls) + 1
        <4>1. i \in 1..Len(calls) /\ calls'[i] = calls[i]
          BY <1>1, <1>4, <3>2
        <4> QED
          BY <4>1 DEF IInv, MeterAccount
      <3> QED
        BY <3>1, <3>2
    <2>4. n \in Int /\ Effect(st, st', n, now)
      BY <1>1, <1>2, <1>3, <1>4
    <2>5. SlotsOK'
      <3>1. st' \in GoodStates
        BY <2>4 DEF Effect
      <3>2. SlotsOK /\ Len(calls') = Len(calls) + 1
        BY <1>1, <1>4 DEF IInv, History
      <3> QED
        BY <1>1, <1>4, <3>1, <3>2, SlottedOK
    <2> QED
      BY <1>1, <1>3, <1>4, <2>2, <2>3, <2>4, <2>5, StepKeeps
  <1>5. CASE r.out # "ok" /\ UNCHANGED <<calls, net, slots>>
    <2>1. st.gcra # NIL => \A i \in 1..Len(calls') : calls'[i].n <= st.gcra.burst
      BY <1>5 DEF IInv, MeterAccount
    <2>2. 0 \in Int /\ net' = net + 0 /\ Effect(st, st', 0, now)
      BY <1>1, <1>2, <1>3, <1>5
    <2>3. SlotsOK'
      BY <1>5 DEF IInv, History, SlotsOK
    <2> QED
      BY <1>1, <1>3, <1>5, <2>1, <2>2, <2>3, StepKeeps
  <1> QED
    BY <1>3, <1>4, <1>5 DEF AllowN, r

LEMMA PeekKeeps ==
  ASSUME IInv, PeekKey
  PROVE  IInv'
  <1>1. /\ st \in GoodStates /\ now \in Nat /\ net \in Int /\ 1 \in 1..MaxTokens
        /\ calls \in Seq(CallRecords) /\ stolen \in BOOLEAN
    BY ScaleAssumption DEF IInv, Shape, Clocks, History
  <1>2. Effect(st, st', 0, now)
    BY <1>1, PeekEffect DEF PeekKey
  <1>3. st.gcra # NIL => \A i \in 1..Len(calls') : calls'[i].n <= st.gcra.burst
    BY DEF IInv, MeterAccount, PeekKey
  <1>4. SlotsOK'
    BY DEF IInv, History, SlotsOK, PeekKey
  <1> QED
    BY <1>1, <1>2, <1>3, <1>4, StepKeeps DEF PeekKey

LEMMA CancelKeeps ==
  ASSUME IInv, NEW i \in 1..Len(calls), Cancel(i)
  PROVE  IInv'
  <1>1. /\ st \in GoodStates /\ now \in Nat /\ net \in Int
        /\ calls \in Seq(CallRecords) /\ stolen \in BOOLEAN
    BY DEF IInv, Shape, Clocks, History
  <1>2. calls[i] \in CallRecords /\ calls[i].n \in 1..MaxN /\ calls[i].n \in 1..MaxTokens
    <2>1. calls[i] \in CallRecords
      BY <1>1
    <2> QED
      BY <2>1, UnitsFit DEF CallRecords
  <1>3. Effect(st, st', -calls[i].n, now)
    <2>1. st.gcra # NIL => calls[i].n <= st.gcra.burst /\ st.gcra.limit <= MaxI64
      BY MeterFits DEF IInv, MeterAccount
    <2> QED
      BY <1>1, <1>2, <2>1, RestoreEffect DEF Cancel
  <1>4. calls' = [calls EXCEPT ![i].live = FALSE]
    BY DEF Cancel
  <1>5. [calls[i] EXCEPT !.live = FALSE] \in CallRecords
        /\ [calls[i] EXCEPT !.live = FALSE].n = calls[i].n
    BY <1>2 DEF CallRecords
  <1>6. /\ calls' \in Seq(CallRecords) /\ Len(calls') = Len(calls)
        /\ \A j \in 1..Len(calls) : calls'[j].n = calls[j].n
    BY <1>1, <1>4, <1>5
  <1>7. st.gcra # NIL => \A j \in 1..Len(calls') : calls'[j].n <= st.gcra.burst
    BY <1>6 DEF IInv, MeterAccount
  <1>8. -calls[i].n \in Int /\ net' = net + -calls[i].n
    BY <1>1, <1>2 DEF Cancel
  <1>9. stolen' \in BOOLEAN
    BY <1>1 DEF Cancel, Steals
  <1>10. SlotsOK'
    <2>1. SlotsOK /\ slots' = Freed(i)
      BY DEF IInv, History, Cancel
    <2> QED
      BY <1>6, <2>1 DEF SlotsOK, Freed
  <1> QED
    BY <1>3, <1>6, <1>7, <1>8, <1>9, <1>10, StepKeeps DEF Cancel

\* The clock moves either way: the gates are untouched.
LEMMA ClockKeeps ==
  ASSUME IInv, NEW d \in Steps, AdvanceClock(d) \/ RewindClock(d)
  PROVE  IInv'
  <1>1. /\ now \in Nat /\ t0 \in Nat /\ hw \in Nat /\ fwd \in Nat
        /\ now <= hw /\ t0 <= hw /\ hw <= MaxTime /\ net \in Int
        /\ d \in Nat \ {0} /\ MaxTime \in Nat
    BY BoundsAssumption DEF IInv, Clocks, History
  <1>2. /\ st' = st /\ spec' = spec /\ calls' = calls /\ net' = net /\ t0' = t0
        /\ stolen' = stolen /\ slots' = slots
    BY DEF AdvanceClock, RewindClock
  <1>3. PICK e \in Nat : /\ now' \in Nat /\ now' <= now + e /\ fwd' = fwd + e
                         /\ now' <= hw' /\ hw <= hw' /\ hw' <= MaxTime /\ hw' \in Nat
    <2>1. CASE AdvanceClock(d)
      BY <1>1, <2>1 DEF AdvanceClock, MaxI
    <2>2. CASE RewindClock(d)
      <3>1. /\ 0 \in Nat /\ now' \in Nat /\ now' <= now + 0 /\ fwd' = fwd + 0
            /\ now' <= hw' /\ hw <= hw' /\ hw' <= MaxTime /\ hw' \in Nat
        BY <1>1, <2>2 DEF RewindClock
      <3> QED
        BY <3>1
    <2> QED
      BY <2>1, <2>2
  <1>4. Shape' /\ Clocks' /\ History'
    <2>1. Shape'
      BY <1>2 DEF IInv, Shape
    <2>2. Clocks'
      BY <1>1, <1>2, <1>3 DEF Clocks
    <2>3. SlotsOK'
      BY <1>2 DEF IInv, History, SlotsOK
    <2> QED
      BY <1>2, <2>1, <2>2, <2>3 DEF IInv, History, CallRecords
  <1>5. BucketAccount'
    <2> SUFFICES ASSUME st.tb # NIL
                 PROVE  Paid(st.tb, net, fwd + e, now')
      BY <1>2, <1>3 DEF BucketAccount
    <2>1. st.tb \in Buckets /\ Paid(st.tb, net, fwd, now)
      BY GoodFields DEF IInv, Shape, BucketAccount
    <2> QED
      BY <1>1, <1>3, <2>1, PaidClock
  <1>6. MeterAccount'
    <2> SUFFICES ASSUME st.gcra # NIL
                 PROVE  Metered(st.gcra, net, t0, hw')
      BY <1>2 DEF IInv, MeterAccount
    <2>1. st.gcra.limit \in Nat /\ st.gcra.tat \in Int
      BY GoodFields DEF IInv, Shape, Meters, GC!States
    <2> QED
      BY SMTT(30), <1>1, <1>3, <2>1 DEF IInv, MeterAccount, Metered
  <1> QED
    BY <1>4, <1>5, <1>6 DEF IInv

LEMMA InitHolds == Init => IInv
  <1> SUFFICES ASSUME Init PROVE IInv
    OBVIOUS
  <1> DEFINE rate == spec.rate
             window == spec.window
             algo == InferAlgo(spec)
  <1>1. /\ spec \in Specs /\ spec \in SpecRecords /\ Validate(spec)
        /\ now \in 0..MaxTime /\ now \in Nat /\ MaxTime \in Nat
        /\ net = 0 /\ t0 = now /\ hw = now /\ fwd = 0 /\ calls = <<>> /\ stolen = FALSE
        /\ st = NewLimiterState(spec, now)
    BY SpecsAssumption, BoundsAssumption DEF Init
  <1>2. /\ rate # NIL => rate \in Rates /\ rate.num > 0 /\ rate.burst >= 1
        /\ window # NIL => window \in Windows /\ window.size > 0
        /\ algo = "gcra" => rate # NIL
        /\ algo = "slidingcounter" => window # NIL
    BY <1>1 DEF SpecRecords, Validate
  <1>3. /\ st = [tb |-> st.tb, gcra |-> st.gcra, log |-> st.log, ctr |-> st.ctr]
        /\ st.tb = IF rate # NIL /\ algo # "gcra" THEN TB!NewState(rate, now) ELSE NIL
        /\ st.gcra = IF rate # NIL /\ algo = "gcra" THEN GC!NewGCRA(rate, now) ELSE NIL
        /\ st.log = IF window # NIL /\ algo # "slidingcounter"
                      THEN Log!NewLog(window.size, window.limit) ELSE NIL
        /\ st.ctr = IF window # NIL /\ algo = "slidingcounter"
                      THEN Ctr!NewCounter(window.size, window.limit, window.buckets)
                      ELSE NIL
    BY <1>1 DEF NewLimiterState
  <1> HIDE DEF rate, window, algo
  <1>4. ASSUME rate # NIL /\ algo # "gcra"
        PROVE  /\ st.tb \in Buckets /\ st.tb.grains = st.tb.burst
               /\ st.tb.burst > 0 /\ st.tb.last = now
    BY <1>1, <1>2, <1>3, <1>4, BucketNew
  <1>5. ASSUME rate # NIL /\ algo = "gcra"
        PROVE  st.gcra \in Meters /\ Metered(st.gcra, 0, now, now)
    <2> DEFINE i == MaxI(1, (Second * rate.den) \div rate.num)
    <2>1. MaxTime + 2 * i * rate.burst <= MaxI64
      BY <1>1, <1>5, GcraFitsAssumption DEF rate, algo
    <2>2. i \in Nat /\ rate.burst \in Nat
      <3>1. (Second * rate.den) \div rate.num \in Nat
        BY <1>2, <1>5, ScaleAssumption, NatProduct, NatQuotient DEF Rates
      <3> QED
        BY <1>2, <1>5, <3>1 DEF MaxI, Rates
    <2>3. i * rate.burst \in Nat /\ 2 * i * rate.burst = 2 * (i * rate.burst)
      BY <2>2, NatProduct
    <2>4. MaxTime + 2 * (i * rate.burst) <= MaxI64 /\ i * rate.burst <= MaxI64
      BY <1>1, <2>1, <2>3, MaxI64Fits
    <2>5. /\ st.gcra \in Meters
          /\ st.gcra.interval = 0 \/ st.gcra.tat = now
          /\ st.gcra.tat <= now
          /\ st.gcra.limit = 0 \/ st.gcra.limit = i * rate.burst
      BY <1>1, <1>2, <1>3, <1>5, <2>4, MeterNew
    <2> HIDE DEF i
    <2>6. /\ st.gcra.tat \in Int /\ st.gcra.limit \in Nat /\ st.gcra.interval \in Nat
      BY <2>5 DEF Meters, GC!States
    <2>7. MaxTime + 2 * st.gcra.limit <= MaxI64
      <3>1. MaxI64 \in Int /\ MaxTime \in Nat
        BY <1>1, MaxI64Fits
      <3>2. CASE st.gcra.limit = 0
        BY <2>3, <2>4, <3>1, <3>2
      <3>3. CASE st.gcra.limit = i * rate.burst
        BY <2>4, <3>3
      <3> QED
        BY <2>5, <3>2, <3>3
    <2>8. st.gcra.interval = 0 \/ st.gcra.interval * 0 <= st.gcra.tat - now
      BY <1>1, <2>5, <2>6
    <2>9. st.gcra.tat <= now + st.gcra.limit
      <3>1. now \in Nat
        BY <1>1
      <3> QED
        BY <2>5, <2>6, <3>1
    <2> QED
      BY <2>5, <2>7, <2>8, <2>9 DEF Metered
  <1>6. ASSUME window # NIL /\ algo # "slidingcounter"
        PROVE  st.log \in Logs
    BY <1>2, <1>3, <1>6, LogNew DEF Windows
  <1>7. ASSUME window # NIL /\ algo = "slidingcounter"
        PROVE  st.ctr \in Counters
    BY <1>2, <1>3, <1>7, CounterNew DEF Windows
  <1>8. st \in GoodStates
    BY <1>3, <1>4, <1>5, <1>6, <1>7 DEF GoodStates
  <1>9. Shape
    BY <1>1, <1>3, <1>4, <1>5, <1>6, <1>7, <1>8, NilIsNoState DEF Shape, rate, window
  <1>10. Clocks /\ History
    <2>1. Clocks
      BY <1>1 DEF Clocks
    <2>2. <<>> \in Seq(CallRecords)
      OBVIOUS
    <2>3. calls \in Seq(CallRecords)
      BY <1>1, <2>2
    <2>4. net \in Int
      BY <1>1
    <2>5. stolen \in BOOLEAN
      BY Zenon DEF Init
    <2>6. SlotsOK
      <3>1. slots = <<>>
        BY DEF Init
      <3>2. DOMAIN <<>> = {} /\ <<>> \in [{} -> Int]
        OBVIOUS
      <3> QED
        BY <3>1, <3>2 DEF SlotsOK
    <2> QED
      BY <2>1, <2>3, <2>4, <2>5, <2>6 DEF History
  <1>11. BucketAccount
    <2> SUFFICES ASSUME st.tb # NIL PROVE Paid(st.tb, 0, 0, now)
      BY <1>1 DEF BucketAccount
    <2>1. rate # NIL /\ algo # "gcra"
      BY <1>3
    <2>2. st.tb.burst \in Nat /\ st.tb.rate \in Nat
      BY <1>4, <2>1 DEF Buckets, TB!States
    <2>3. Pending(st.tb, now) = 0
      BY <1>1, <1>4, <2>1 DEF Pending, MaxI
    <2> QED
      BY <1>4, <2>1, <2>2, <2>3, ScaleAssumption DEF Paid
  <1>12. MeterAccount
    BY <1>1, <1>3, <1>5 DEF MeterAccount
  <1> QED
    BY <1>8, <1>9, <1>10, <1>11, <1>12 DEF IInv

LEMMA NextKeeps == IInv /\ [Next]_vars => IInv'
  <1> SUFFICES ASSUME IInv, [Next]_vars PROVE IInv'
    OBVIOUS
  <1>1. ASSUME NEW n \in 1..MaxN, AllowN(n) PROVE IInv'
    BY <1>1, AllowKeeps
  <1>2. CASE PeekKey
    BY <1>2, PeekKeeps
  <1>3. ASSUME NEW i \in 1..Len(calls), Cancel(i) PROVE IInv'
    BY <1>3, CancelKeeps
  <1>4. ASSUME NEW d \in Steps, AdvanceClock(d) PROVE IInv'
    BY <1>4, ClockKeeps
  <1>5. ASSUME NEW d \in Steps, RewindClock(d) PROVE IInv'
    BY <1>5, ClockKeeps
  <1>6. CASE UNCHANGED vars
    BY <1>6
    DEF vars, IInv, Shape, Clocks, History, SlotsOK, BucketAccount, MeterAccount, CallRecords
  <1> QED
    BY <1>1, <1>2, <1>3, <1>4, <1>5, <1>6 DEF Next

\* The accounts balance in every reachable state.
THEOREM Inductive == Spec => []IInv
  BY InitHolds, NextKeeps, PTL DEF Spec

-----------------------------------------------------------------------------
(* What follows from the accounts.                                         *)

\* Type correctness, for every set of valid policies and every clock: the
\* gates a key has are those its policy asks for and each stays well formed,
\* a bucket within its burst, a ring within its capacity, a counter with all
\* its buckets, through every path of state.go, rollback and cancel included.
THEOREM TypeCorrect == Spec => []TypeOK
  <1>1. IInv => TypeOK
    <2> SUFFICES ASSUME IInv PROVE TypeOK
      OBVIOUS
    <2>1. st \in LimiterStates
      BY GoodFields
      DEF IInv, Shape, GoodStates, LimiterStates, Buckets, Meters, Logs, Counters
    <2>2. /\ st.tb # NIL => BucketOK(st.tb)
          /\ st.log # NIL => LogOK(st.log)
          /\ st.ctr # NIL => CounterOK(st.ctr)
      BY GoodFields
      DEF IInv, Shape, Buckets, Logs, Counters, BucketOK, LogOK, CounterOK
    <2> QED
      BY <2>1, <2>2, GoodFields
      DEF IInv, Shape, Clocks, History, SlotsOK, CallRecords, TypeOK
  <1> QED
    BY <1>1, Inductive, PTL

\* Whatever the rate, the burst, the callers and the clock do, a token bucket
\* (bucket.go:73-137) lets through at most the burst and what the forward
\* motion of its clock earns.
THEOREM BucketBoundHolds == Spec => []BucketBound
  <1>1. IInv => BucketBound
    <2> SUFFICES ASSUME IInv, st.tb # NIL
                 PROVE  Second * Grain * net <= Second * st.tb.burst + st.tb.rate * fwd
      BY DEF BucketBound
    <2> DEFINE b == st.tb
               p == Pending(b, now)
    <2>1. b \in Buckets /\ Paid(b, net, fwd, now) /\ net \in Int /\ fwd \in Nat /\ now \in Nat
      BY GoodFields DEF IInv, Shape, Clocks, History, BucketAccount
    <2>2. /\ b.grains \in Nat /\ b.rate \in Nat /\ b.burst \in Nat /\ b.last \in Int
      BY <2>1 DEF Buckets, TB!States
    <2>3. p \in Nat /\ p <= fwd
      BY <2>1, <2>2 DEF Pending, MaxI, Paid
    <2>4. Second * (b.grains + Grain * net) <= Second * b.burst + b.rate * (fwd - p)
      BY <2>1 DEF Paid
    <2> HIDE DEF b, p
    <2>5. b.rate * (fwd - p) <= b.rate * fwd /\ b.rate * (fwd - p) \in Nat
      BY <2>1, <2>2, <2>3, ProductGrows, NatProduct
    <2>6. Second * (b.grains + Grain * net) = Second * b.grains + Second * Grain * net
      BY <2>1, <2>2, ScaleAssumption
    <2>7. Second * b.grains \in Nat /\ Second * Grain * net \in Int
          /\ Second * b.burst \in Nat /\ b.rate * fwd \in Nat
      BY <2>1, <2>2, ScaleAssumption, NatProduct
    <2>8. Second * Grain * net <= Second * b.burst + b.rate * fwd
      BY <2>4, <2>5, <2>6, <2>7
    <2> QED
      BY <2>8 DEF b
  <1> QED
    BY <1>1, Inductive, PTL

\* GCRA (gcra.go:39-111) never credits the same time twice, even for a clock
\* that is set back, and no cancellation gives back more than was taken: what
\* is let through fits between the first and the highest reading of the clock.
THEOREM GcraBoundHolds == Spec => []GcraBound
  <1>1. IInv => GcraBound
    <2> SUFFICES ASSUME IInv, st.gcra # NIL
                 PROVE  st.gcra.interval * net <= (hw - t0) + st.gcra.limit
      BY DEF GcraBound
    <2>1. /\ st.gcra \in Meters /\ Metered(st.gcra, net, t0, hw) /\ net \in Int
          /\ hw \in Nat /\ t0 \in Nat /\ t0 <= hw
      BY GoodFields DEF IInv, Shape, Clocks, History, MeterAccount
    <2>2. st.gcra.limit \in Nat /\ st.gcra.tat \in Int /\ st.gcra.interval \in Nat
      BY <2>1 DEF Meters, GC!States
    <2>3. st.gcra.interval * net \in Int
      BY <2>1, <2>2
    <2> QED
      BY <2>1, <2>2, <2>3 DEF Metered
  <1> QED
    BY <1>1, Inductive, PTL

-----------------------------------------------------------------------------
(* The history of the calls.                                               *)

\* The units of some calls are the total of their weights.
Weights == [i \in 1..Len(calls) |-> calls[i].n]

LEMMA UnitsTotal ==
  ASSUME NEW I, IsFiniteSet(I), NEW w, \A i \in I : w[i] = calls[i].n
  PROVE  Units(I) = Total(w, I)
  <1>1. PICK f : Folded(f, w, I)
    BY FoldExists
  <1> DEFINE Step1(h, s) ==
        IF s = {} THEN 0 ELSE LET x == CHOOSE x \in s : TRUE IN calls[x].n + h[s \ {x}]
  <1>2. \A s \in SUBSET I : f[s] = Step1(f, s)
    <2> SUFFICES ASSUME NEW s \in SUBSET I PROVE f[s] = Step1(f, s)
      OBVIOUS
    <2>1. f[s] = FoldStep(f, w, s)
      BY <1>1, FoldAt
    <2>2. CASE s = {}
      BY <2>1, <2>2 DEF FoldStep
    <2>3. CASE s # {}
      <3>1. PICK x \in s : x = CHOOSE y \in s : TRUE
        BY <2>3
      <3>2. w[x] = calls[x].n
        OBVIOUS
      <3> QED
        BY <2>1, <2>3, <3>1, <3>2 DEF FoldStep
    <2> QED
      BY <2>2, <2>3
  <1>3. f = [s \in SUBSET I |-> f[s]]
    BY <1>1 DEF Folded
  <1>4. f = [s \in SUBSET I |-> Step1(f, s)]
    BY <1>2, <1>3
  <1>5. \E g : /\ g = [s \in SUBSET I |-> Step1(g, s)]
               /\ Units(I) = g[I]
    BY ZenonT(60), <1>4 DEF Units, MapThenSumSet, MapThenFoldSet
  <1>6. PICK g : g = [s \in SUBSET I |-> Step1(g, s)] /\ Units(I) = g[I]
    BY <1>5
  <1>7. \A s \in SUBSET I : g[s] = FoldStep(g, w, s)
    <2> SUFFICES ASSUME NEW s \in SUBSET I PROVE g[s] = FoldStep(g, w, s)
      OBVIOUS
    <2>1. g[s] = Step1(g, s)
      BY <1>6
    <2>2. CASE s = {}
      BY <2>1, <2>2 DEF FoldStep
    <2>3. CASE s # {}
      <3>1. PICK x \in s : x = CHOOSE y \in s : TRUE
        BY <2>3
      <3>2. w[x] = calls[x].n
        OBVIOUS
      <3> QED
        BY <2>1, <2>3, <3>1, <3>2 DEF FoldStep
    <2> QED
      BY <2>2, <2>3
  <1>8. g = [s \in SUBSET I |-> g[s]]
    BY <1>6
  <1>9. g = [s \in SUBSET I |-> FoldStep(g, w, s)]
    BY <1>7, <1>8
  <1>10. Folded(g, w, I)
    BY <1>9 DEF Folded, FoldStep
  <1> QED
    BY <1>6, <1>10, TotalIs

\* What is recorded of each call.
LEMMA CallFields ==
  ASSUME IInv
  PROVE  /\ Len(calls) \in Nat
         /\ \A i \in 1..Len(calls) : /\ calls[i] \in CallRecords
                                     /\ calls[i].n \in 1..MaxN /\ calls[i].at \in Nat
                                     /\ Weights[i] = calls[i].n /\ Weights[i] \in Nat
                                     /\ Weights[i] \in Int
  <1>1. calls \in Seq(CallRecords)
    BY DEF IInv, History
  <1>2. \A i \in 1..Len(calls) : calls[i] \in CallRecords
    BY <1>1
  <1>3. \A i \in 1..Len(calls) : calls[i].n \in 1..MaxN /\ calls[i].at \in Nat
    BY <1>2 DEF CallRecords
  <1> QED
    BY <1>1, <1>2, <1>3, UnitsFit DEF Weights

\* The units of the calls from i to j.
LEMMA SpanUnits ==
  ASSUME IInv, NEW i \in 1..Len(calls), NEW j \in 1..Len(calls)
  PROVE  Units(i..j) = Total(Weights, i..j) /\ Total(Weights, i..j) \in Int
  <1>1. PICK S, w : S = i..j /\ w = Weights
    OBVIOUS
  <1>2. Len(calls) \in Int /\ IsFiniteSet(S)
    BY <1>1, CallFields, FS_Interval
  <1>3. \A x \in S : x \in 1..Len(calls)
    BY <1>1, <1>2
  <1>4. \A x \in S : w[x] = calls[x].n /\ w[x] \in Int
    BY <1>1, <1>3, CallFields
  <1>5. Units(S) = Total(w, S) /\ Total(w, S) \in Int
    BY <1>2, <1>4, UnitsTotal, TotalType
  <1> QED
    BY <1>1, <1>5

\* What a grant adds to the history.
Records(n) == calls' = Append(calls, [n |-> n, at |-> now, live |-> TRUE])

\* A grant leaves every span of earlier calls what it was, and puts its units on
\* every span that reaches to it.
LEMMA CallsMore ==
  ASSUME IInv, NEW n \in 1..MaxN, Records(n)
  PROVE  LET m == Len(calls) IN
         /\ Len(calls') = m + 1
         /\ \A i \in 1..m : calls'[i] = calls[i]
         /\ calls'[m + 1] = [n |-> n, at |-> now, live |-> TRUE]
         /\ \A i, j \in 1..m : Total(Weights', i..j) = Total(Weights, i..j)
         /\ \A i \in 1..(m + 1) : Total(Weights', i..(m + 1)) = Total(Weights, i..m) + n
         /\ \A i \in 1..(m + 1) : Total(Weights, i..m) \in Int
         /\ Total(Weights, (m + 1)..m) = 0
         /\ NoCancel' => NoCancel
  <1> DEFINE m == Len(calls)
             call == [n |-> n, at |-> now, live |-> TRUE]
  <1>1. /\ calls \in Seq(CallRecords) /\ m \in Nat /\ n \in Int
        /\ \A i \in 1..m : Weights[i] \in Int /\ Weights[i] = calls[i].n
    BY CallFields, UnitsFit DEF IInv, History
  <1>2. /\ Len(calls') = m + 1
        /\ \A i \in 1..m : calls'[i] = calls[i]
        /\ calls'[m + 1] = call
    BY <1>1 DEF Records
  <1> HIDE DEF m
  <1>3. Weights' = [i \in 1..(m + 1) |-> calls'[i].n]
    BY <1>2 DEF Weights
  <1>4. PICK v, w, k : v = Weights' /\ w = Weights /\ k = m
    OBVIOUS
  <1>5. /\ k \in Nat /\ n \in Int /\ v[k + 1] = n
        /\ \A i \in 1..k : w[i] \in Int /\ v[i] = w[i]
    BY <1>1, <1>2, <1>3, <1>4
  <1>6. /\ \A i, j \in 1..k : Total(v, i..j) = Total(w, i..j)
        /\ \A i \in 1..(k + 1) : /\ Total(v, i..(k + 1)) = Total(w, i..k) + n
                                 /\ Total(w, i..k) \in Int
    <2>1. ASSUME NEW i \in 1..k, NEW j \in 1..k
          PROVE  Total(v, i..j) = Total(w, i..j)
      <3>1. i \in Int /\ j \in Int /\ \A x \in i..j : v[x] = w[x]
        BY <1>5
      <3> QED
        BY <3>1, SpanSame
    <2>2. ASSUME NEW i \in 1..(k + 1)
          PROVE  Total(v, i..(k + 1)) = Total(w, i..k) + n /\ Total(w, i..k) \in Int
      <3>1. PICK x : x = k + 1
        OBVIOUS
      <3>2. /\ i \in Int /\ k \in Int /\ x \in Int /\ i <= x /\ v[x] = n /\ v[x] \in Int
        BY <1>5, <3>1
      <3>3. \A y \in i..k : w[y] \in Int /\ v[y] = w[y]
        BY <1>5
      <3>4. Total(v, i..x) = Total(w, i..k) + v[x] /\ Total(w, i..k) \in Int
        BY <3>1, <3>2, <3>3, SpanMore
      <3> QED
        BY <3>1, <3>2, <3>4
    <2> QED
      BY <2>1, <2>2
  <1>7. Total(Weights, (m + 1)..m) = 0
    <2>1. PICK S : S = (m + 1)..m
      OBVIOUS
    <2>2. S = {}
      BY <1>1, <2>1
    <2> QED
      BY <2>1, <2>2, TotalNone
  <1>8. NoCancel' => NoCancel
    <2>1. ASSUME NoCancel', NEW i \in 1..m
          PROVE  calls[i].live
      <3>1. i \in Live'
        BY <1>1, <1>2, <2>1 DEF NoCancel
      <3> QED
        BY <1>1, <1>2, <3>1 DEF Live
    <2> QED
      BY <2>1 DEF NoCancel, Live, m
  <1> QED
    BY <1>2, <1>4, <1>6, <1>7, <1>8 DEF m

\* The same, as the accounts of the gates use it.
LEMMA GrantFacts ==
  ASSUME IInv, NEW n \in 1..MaxN, Records(n)
  PROVE  LET m == Len(calls) IN
         /\ m \in Nat /\ Len(calls') = m + 1 /\ n \in Nat \ {0}
         /\ \A i \in 1..m : calls'[i] = calls[i] /\ calls[i].at \in Nat
         /\ calls'[m + 1].at = now /\ now \in Nat
         /\ \A i, j \in 1..m : Total(Weights', i..j) = Total(Weights, i..j)
         /\ \A i \in 1..(m + 1) : Total(Weights', i..(m + 1)) = Total(Weights, i..m) + n
         /\ \A i \in 1..(m + 1) : Total(Weights, i..m) \in Int
         /\ Total(Weights, (m + 1)..m) = 0
         /\ NoCancel' => NoCancel
  <1> DEFINE m == Len(calls)
  <1>1. /\ m \in Nat /\ n \in Nat \ {0} /\ now \in Nat
        /\ \A i \in 1..m : calls[i].at \in Nat
    BY CallFields, UnitsFit DEF IInv, Clocks
  <1>2. calls'[m + 1].at = now
    <2>1. calls'[m + 1] = [n |-> n, at |-> now, live |-> TRUE]
      BY CallsMore
    <2> HIDE DEF m
    <2> QED
      BY <2>1
  <1> QED
    BY <1>1, <1>2, CallsMore

-----------------------------------------------------------------------------
(* The rate formula, for GCRA.                                             *)

\* The meter's account of the calls since call i, and the formula of doc.go:11
\* for the calls from i to j.
MeterSince(g, i) ==
  calls[i].at + g.interval * Total(Weights, i..Len(calls)) <= g.tat

MeterSpan(g, i, j) ==
  g.interval * Total(Weights, i..j) <= g.limit + (calls[j].at - calls[i].at)

MeterStory ==
  st.gcra # NIL /\ NoCancel =>
    /\ \A i \in 1..Len(calls) : MeterSince(st.gcra, i)
    /\ \A i, j \in 1..Len(calls) : i <= j => MeterSpan(st.gcra, i, j)

\* No operation but a grant or a cancellation lets tat fall behind.
LEMMA MeterStays ==
  ASSUME IInv, MeterStory, calls' = calls,
         Effect(st, st', 0, now) \/ st' = st
  PROVE  MeterStory'
  <1> SUFFICES ASSUME st'.gcra # NIL, NoCancel
               PROVE  /\ \A i \in 1..Len(calls) : MeterSince(st'.gcra, i)
                      /\ \A i, j \in 1..Len(calls) : i <= j => MeterSpan(st'.gcra, i, j)
    BY ZenonT(30) DEF MeterStory, MeterSince, MeterSpan, Weights, NoCancel, Live
  <1>1. st.gcra # NIL /\ st.gcra \in Meters
    BY GoodFields DEF IInv, Shape, Effect, SameGates
  <1>2. st' = st \/ Moves(st.gcra, st'.gcra, 0, now)
    BY <1>1 DEF Effect
  <1>3. /\ st'.gcra.interval = st.gcra.interval /\ st'.gcra.limit = st.gcra.limit
        /\ st.gcra.tat <= st'.gcra.tat /\ st'.gcra.tat \in Int
        /\ st.gcra.tat \in Int /\ st.gcra.interval \in Nat /\ st.gcra.limit \in Nat
    BY <1>1, <1>2 DEF Moves, Meters, GC!States
  <1>4. ASSUME NEW i \in 1..Len(calls)
        PROVE  MeterSince(st'.gcra, i)
    <2>1. MeterSince(st.gcra, i)
      BY <1>1 DEF MeterStory
    <2>2. Total(Weights, i..Len(calls)) \in Int
      <3>1. PICK S : S = i..Len(calls)
        OBVIOUS
      <3>2. IsFiniteSet(S) /\ \A x \in S : Weights[x] \in Int
        BY <3>1, CallFields, FS_Interval
      <3>3. Total(Weights, S) \in Int
        BY <3>2, TotalType
      <3> QED
        BY <3>1, <3>3
    <2>3. calls[i].at \in Int
      BY CallFields
    <2> QED
      BY <1>3, <2>1, <2>2, <2>3 DEF MeterSince
  <1>5. ASSUME NEW i \in 1..Len(calls), NEW j \in 1..Len(calls), i <= j
        PROVE  MeterSpan(st'.gcra, i, j)
    BY <1>1, <1>3, <1>5 DEF MeterStory, MeterSpan
  <1> QED
    BY <1>4, <1>5

\* k more units at p each, of an account that stood at q units.
LEMMA AccountGrows ==
  ASSUME NEW p \in Nat, NEW q \in Int, NEW k \in Int, NEW a \in Int, NEW x \in Int,
         NEW y \in Int, a + p * q <= x, x + p * k <= y
  PROVE  a + p * (q + k) <= y
  <1>1. p * (q + k) = p * q + p * k /\ p * q \in Int /\ p * k \in Int
    OBVIOUS
  <1> QED
    BY <1>1

\* A grant starts an account of its own and adds to those before it.
LEMMA MeterGrows ==
  ASSUME IInv, MeterStory, NEW n \in 1..MaxN, Records(n),
         st' = Allow(st, n, now).st, Allow(st, n, now).out = "ok"
  PROVE  MeterStory'
  <1> DEFINE m == Len(calls)
             h == st'.gcra
  <1>1. /\ m \in Nat /\ Len(calls') = m + 1 /\ n \in Nat \ {0}
        /\ \A i \in 1..m : calls'[i] = calls[i] /\ calls[i].at \in Nat
        /\ calls'[m + 1].at = now /\ now \in Nat
        /\ \A i, j \in 1..m : Total(Weights', i..j) = Total(Weights, i..j)
        /\ \A i \in 1..(m + 1) : Total(Weights', i..(m + 1)) = Total(Weights, i..m) + n
        /\ \A i \in 1..(m + 1) : Total(Weights, i..m) \in Int
        /\ Total(Weights, (m + 1)..m) = 0
        /\ NoCancel' => NoCancel
    BY GrantFacts
  <1> HIDE DEF m
  <1> SUFFICES ASSUME st'.gcra # NIL, NoCancel
               PROVE  /\ \A i \in 1..(m + 1) : MeterSince(st.gcra, i)'
                      /\ \A i, j \in 1..(m + 1) : i <= j => MeterSpan(st.gcra, i, j)'
    BY <1>1 DEF MeterStory
  <1>2. /\ st \in GoodStates /\ n \in 1..MaxTokens
        /\ st.gcra # NIL => Fits(st.gcra, now)
    BY UnitsFit, MeterFits DEF IInv, Shape
  <1>3. Effect(st, st', n, now)
    BY <1>1, <1>2, AllowEffect
  <1>4. st.gcra # NIL /\ st.gcra \in Meters
    BY <1>2, <1>3, GoodFields DEF Effect, SameGates
  <1>5. h = GC!Allow(st.gcra, n, now).st /\ GC!Allow(st.gcra, n, now).out = "ok"
    BY <1>1, <1>2, <1>4, AllowGates
  <1>6. /\ now + st.gcra.interval * n <= h.tat
        /\ h.tat <= now + st.gcra.limit
    BY <1>1, <1>2, <1>4, <1>5, MeterGrant
  <1>7. Moves(st.gcra, h, n, now)
    BY <1>3, <1>4 DEF Effect
  <1>8. /\ h.interval = st.gcra.interval /\ h.limit = st.gcra.limit
        /\ st.gcra.tat + h.interval * n <= h.tat
        /\ h.tat \in Int /\ st.gcra.tat \in Int /\ h.interval \in Nat /\ h.limit \in Nat
        /\ h.interval * n \in Int
    <2>1. /\ h.interval = st.gcra.interval /\ h.limit = st.gcra.limit
          /\ h.tat >= st.gcra.tat + st.gcra.interval * n /\ h \in Meters
      BY <1>7 DEF Moves
    <2>2. /\ h.tat \in Int /\ h.interval \in Nat /\ h.limit \in Nat /\ st.gcra.tat \in Int
      BY <1>4, <2>1 DEF Meters, GC!States
    <2>3. h.interval * n \in Int
      BY <1>1, <2>2
    <2> HIDE DEF h
    <2> QED
      BY <2>1, <2>2, <2>3
  <1> HIDE DEF h
  <1>9. ASSUME NEW i \in 1..(m + 1)
        PROVE  /\ calls'[i].at \in Int
               /\ h.interval * Total(Weights', i..(m + 1)) \in Int
               /\ calls'[i].at + h.interval * Total(Weights', i..(m + 1)) <= h.tat
    <2>1. PICK q \in Int : q = Total(Weights, i..m)
      BY <1>1
    <2>2. Total(Weights', i..(m + 1)) = q + n
      BY <1>1, <2>1
    <2>3. PICK a : a = calls'[i].at
      OBVIOUS
    <2>4. a \in Int /\ a + h.interval * (q + n) <= h.tat
      <3>1. CASE i = m + 1
        <4>1. q = 0 /\ a = now
          BY <1>1, <2>1, <2>3, <3>1
        <4>2. q + n = n /\ now + h.interval * n <= h.tat
          BY <1>1, <1>6, <1>8, <4>1
        <4> QED
          BY <1>1, <4>1, <4>2
      <3>2. CASE i # m + 1
        <4>1. i \in 1..m
          BY <1>1, <3>2
        <4>2. MeterSince(st.gcra, i)
          BY <1>4, <4>1 DEF MeterStory, m
        <4>3. a = calls[i].at /\ a \in Int
          BY <1>1, <2>3, <4>1
        <4>4. a + h.interval * q <= st.gcra.tat
          BY <1>8, <2>1, <4>2, <4>3 DEF MeterSince, m
        <4>5. PICK p, x, y : p = h.interval /\ x = st.gcra.tat /\ y = h.tat
          OBVIOUS
        <4>6. /\ p \in Nat /\ x \in Int /\ y \in Int /\ n \in Int
              /\ a + p * q <= x /\ x + p * n <= y
          BY <1>1, <1>8, <4>4, <4>5
        <4>7. a + p * (q + n) <= y
          BY <4>3, <4>6, AccountGrows
        <4> QED
          BY <4>3, <4>5, <4>7
      <3> QED
        BY <3>1, <3>2
    <2>5. h.interval * (q + n) \in Int
      BY <1>1, <1>8
    <2> QED
      BY <2>2, <2>3, <2>4, <2>5
  <1>10. ASSUME NEW i \in 1..(m + 1)
         PROVE  MeterSince(st.gcra, i)'
    BY <1>1, <1>9 DEF MeterSince, h
  <1>11. ASSUME NEW i \in 1..(m + 1), NEW j \in 1..(m + 1), i <= j
         PROVE  MeterSpan(st.gcra, i, j)'
    <2>1. CASE j = m + 1
      <3>1. /\ calls'[i].at + h.interval * Total(Weights', i..j) <= h.tat
            /\ h.interval * Total(Weights', i..j) \in Int /\ calls'[i].at \in Int
        BY <1>9, <2>1
      <3>2. calls'[j].at = now /\ h.tat <= now + h.limit
        BY <1>1, <1>6, <1>8, <2>1
      <3>3. PICK x, a : x = h.interval * Total(Weights', i..j) /\ a = calls'[i].at
        OBVIOUS
      <3>4. PICK u, v : u = h.tat /\ v = h.limit
        OBVIOUS
      <3>5. /\ x \in Int /\ a \in Int /\ u \in Int /\ v \in Int /\ now \in Int
            /\ a + x <= u /\ u <= now + v
        BY SMTT(30), <1>1, <1>8, <3>1, <3>2, <3>3, <3>4
      <3>6. x <= v + (now - a)
        BY <3>5
      <3>7. h.interval * Total(Weights', i..j) <= h.limit + (calls'[j].at - calls'[i].at)
        BY <3>2, <3>3, <3>4, <3>6
      <3> QED
        BY <3>7 DEF MeterSpan, h
    <2>2. CASE j # m + 1
      <3>1. i \in 1..m /\ j \in 1..m
        <4>1. m \in Nat
          BY <1>1
        <4> QED
          BY <1>11, <2>2, <4>1
      <3>2. MeterSpan(st.gcra, i, j)
        BY <1>4, <1>11, <3>1 DEF MeterStory, m
      <3> QED
        BY <1>1, <1>8, <3>1, <3>2 DEF MeterSpan, h
    <2> QED
      BY <2>1, <2>2
  <1> QED
    BY <1>10, <1>11

\* What a cancellation changes in the history.
LEMMA CancelMarks ==
  ASSUME IInv, NEW i \in 1..Len(calls), Cancel(i)
  PROVE  /\ Len(calls') = Len(calls)
         /\ \A j \in 1..Len(calls) : /\ calls'[j].n = calls[j].n
                                     /\ calls'[j].at = calls[j].at
                                     /\ calls'[j].live <=> (calls[j].live /\ j # i)
         /\ Live' = Live \ {i}
         /\ i \in Live
         /\ ~NoCancel'
  <1>1. /\ calls \in Seq(CallRecords) /\ calls[i].live
        /\ calls' = [calls EXCEPT ![i].live = FALSE]
    BY DEF IInv, History, Cancel
  <1>2. PICK c : c = [calls[i] EXCEPT !.live = FALSE]
    OBVIOUS
  <1>3. calls[i] \in CallRecords
    BY <1>1
  <1>4. c.n = calls[i].n /\ c.at = calls[i].at /\ c.live = FALSE /\ c \in CallRecords
    BY <1>2, <1>3 DEF CallRecords
  <1>5. calls' = [calls EXCEPT ![i] = c]
    BY <1>1, <1>2
  <1>6. /\ Len(calls') = Len(calls)
        /\ calls'[i] = c /\ \A j \in 1..Len(calls) : j # i => calls'[j] = calls[j]
    BY <1>1, <1>4, <1>5
  <1>7. \A j \in 1..Len(calls) : /\ calls'[j].n = calls[j].n
                                 /\ calls'[j].at = calls[j].at
                                 /\ calls'[j].live <=> (calls[j].live /\ j # i)
    BY <1>4, <1>6
  <1>8. i \in Live /\ Live' = Live \ {i}
    BY <1>1, <1>6, <1>7 DEF Live
  <1> QED
    BY <1>6, <1>7, <1>8 DEF NoCancel

\* Every step keeps the accounts of the meter.
LEMMA MeterNext ==
  ASSUME IInv, MeterStory, [Next]_vars
  PROVE  MeterStory'
  <1>1. ASSUME NEW n \in 1..MaxN, AllowN(n)
        PROVE  MeterStory'
    <2>1. st' = Allow(st, n, now).st
      BY <1>1 DEF AllowN
    <2>2. CASE Allow(st, n, now).out = "ok" /\ Records(n)
      BY <2>1, <2>2, MeterGrows
    <2>3. CASE Allow(st, n, now).out # "ok" /\ calls' = calls
      <3>1. Effect(st, st', 0, now)
        BY <2>1, <2>3, UnitsFit, MeterFits, AllowEffect DEF IInv, Shape, Clocks
      <3> QED
        BY <2>3, <3>1, MeterStays
    <2> QED
      BY <1>1, <2>2, <2>3 DEF AllowN, Records
  <1>2. CASE PeekKey
    <2>1. st \in GoodStates /\ now \in Nat /\ 1 \in 1..MaxTokens
      BY ScaleAssumption DEF IInv, Shape, Clocks
    <2>2. Effect(st, st', 0, now) /\ calls' = calls
      BY <1>2, <2>1, PeekEffect DEF PeekKey
    <2> QED
      BY <2>2, MeterStays
  <1>3. ASSUME NEW i \in 1..Len(calls), Cancel(i)
        PROVE  MeterStory'
    BY <1>3, CancelMarks DEF MeterStory
  <1>4. ASSUME st' = st, calls' = calls
        PROVE  MeterStory'
    BY <1>4, MeterStays
  <1>5. ASSUME NEW d \in Steps, AdvanceClock(d) \/ RewindClock(d)
        PROVE  MeterStory'
    BY <1>4, <1>5 DEF AdvanceClock, RewindClock
  <1>6. CASE UNCHANGED vars
    BY <1>4, <1>6 DEF vars
  <1> QED
    BY <1>1, <1>2, <1>3, <1>5, <1>6 DEF Next

\* The formula of doc.go:11 for GCRA: between any two admitted calls, at most
\* the allowance and one unit for every interval that passed, even for a clock
\* that is set back in between.
THEOREM GcraFormulaHolds == Spec => []GcraFormula
  <1>1. Init => MeterStory
    BY DEF Init, MeterStory
  <1>2. IInv /\ MeterStory => GcraFormula
    <2> SUFFICES ASSUME IInv, MeterStory, st.gcra # NIL, NoCancel,
                        NEW i \in 1..Len(calls), NEW j \in 1..Len(calls), i <= j
                 PROVE  st.gcra.interval * Units(i..j)
                          <= st.gcra.limit + (calls[j].at - calls[i].at)
      BY DEF GcraFormula
    <2>1. MeterSpan(st.gcra, i, j)
      BY DEF MeterStory
    <2>2. Units(i..j) = Total(Weights, i..j)
      BY SpanUnits
    <2> QED
      BY <2>1, <2>2 DEF MeterSpan
  <1> QED
    BY <1>1, <1>2, MeterNext, Inductive, PTL DEF Spec

-----------------------------------------------------------------------------
(* The token bucket and the formula.                                       *)

\* Every call opens an account of its own: the ticks f it counts are those
\* since the call (any number will do for a bucket that earns nothing).
BucketSince(b, i, t) ==
  \E f \in Nat : /\ Paid(b, Total(Weights, i..Len(calls)), f, t)
                 /\ b.rate * f = b.rate * (t - calls[i].at)

BucketSpan(b, i, j) ==
  Second * Grain * Total(Weights, i..j)
    <= Second * b.burst + b.rate * (calls[j].at - calls[i].at)

BucketStory ==
  st.tb # NIL /\ ~Rewound /\ NoCancel =>
    /\ \A i \in 1..Len(calls) : BucketSince(st.tb, i, now)
    /\ \A i, j \in 1..Len(calls) : i <= j => BucketSpan(st.tb, i, j)

\* Every forward move of the clock has been counted.
Forward == now - t0 <= fwd

\* No operation but a grant or a cancellation takes grains that no call paid for.
LEMMA BucketStays ==
  ASSUME IInv, BucketStory, calls' = calls, now' = now, t0' = t0, fwd' = fwd,
         Effect(st, st', 0, now) \/ st' = st
  PROVE  BucketStory'
  <1>0. /\ Weights' = Weights /\ (NoCancel' <=> NoCancel) /\ Len(calls') = Len(calls)
        /\ Rewound' <=> Rewound
    BY DEF Weights, NoCancel, Live, Rewound
  <1> SUFFICES ASSUME st'.tb # NIL, ~Rewound, NoCancel
               PROVE  /\ \A i \in 1..Len(calls) : BucketSince(st'.tb, i, now)
                      /\ \A i, j \in 1..Len(calls) : i <= j => BucketSpan(st'.tb, i, j)
    BY <1>0, Zenon DEF BucketStory, BucketSince, BucketSpan
  <1>1. st.tb # NIL /\ st.tb \in Buckets /\ now \in Nat
    BY GoodFields DEF IInv, Shape, Clocks, Effect, SameGates
  <1>2. st'.tb = st.tb \/ Spends(st.tb, st'.tb, 0, now)
    BY <1>1 DEF Effect
  <1>3. st'.tb.rate = st.tb.rate /\ st'.tb.burst = st.tb.burst
    BY <1>2 DEF Spends
  <1>4. ASSUME NEW i \in 1..Len(calls)
        PROVE  BucketSince(st'.tb, i, now)
    <2>1. PICK T : T = Total(Weights, i..Len(calls))
      OBVIOUS
    <2>2. T \in Int
      BY <2>1, SpanUnits, CallFields
    <2>3. PICK f \in Nat : Paid(st.tb, T, f, now)
                           /\ st.tb.rate * f = st.tb.rate * (now - calls[i].at)
      BY <1>1, <2>1 DEF BucketStory, BucketSince
    <2>4. Paid(st'.tb, T, f, now)
      <3>1. CASE Spends(st.tb, st'.tb, 0, now)
        <4>1. Paid(st'.tb, T + 0, f, now)
          BY <1>1, <2>2, <2>3, <3>1, PaidSpend
        <4>2. T + 0 = T
          BY <2>2
        <4> QED
          BY <4>1, <4>2
      <3> QED
        BY <1>2, <2>3, <3>1
    <2> QED
      BY <1>3, <2>1, <2>3, <2>4 DEF BucketSince
  <1>5. ASSUME NEW i \in 1..Len(calls), NEW j \in 1..Len(calls), i <= j
        PROVE  BucketSpan(st'.tb, i, j)
    BY <1>1, <1>3, <1>5 DEF BucketStory, BucketSpan
  <1> QED
    BY <1>4, <1>5

\* The clock moves: only forward counts.
LEMMA BucketWaits ==
  ASSUME IInv, BucketStory, Forward, NEW d \in Steps, AdvanceClock(d) \/ RewindClock(d)
  PROVE  BucketStory' /\ Forward'
  <1>1. /\ now \in Nat /\ t0 \in Nat /\ fwd \in Nat /\ d \in Nat \ {0}
        /\ st' = st /\ calls' = calls /\ t0' = t0
    BY BoundsAssumption DEF IInv, Clocks, AdvanceClock, RewindClock
  <1>2. CASE RewindClock(d)
    <2>1. now' = now - d /\ fwd' = fwd
      BY <1>2 DEF RewindClock
    <2>2. fwd' # now' - t0'
      BY <1>1, <2>1 DEF Forward
    <2> QED
      BY <1>1, <2>1, <2>2 DEF BucketStory, Forward, Rewound
  <1>3. CASE AdvanceClock(d)
    <2>1. now' = now + d /\ fwd' = fwd + d
      BY <1>3 DEF AdvanceClock
    <2>2. Rewound' <=> Rewound
      BY <1>1, <2>1 DEF Rewound
    <2>3. Forward'
      BY <1>1, <2>1 DEF Forward
    <2>6. Weights' = Weights /\ (NoCancel' <=> NoCancel) /\ Len(calls') = Len(calls)
      BY <1>1 DEF Weights, NoCancel, Live
    <2> SUFFICES ASSUME st.tb # NIL, ~Rewound, NoCancel
                 PROVE  /\ \A i \in 1..Len(calls) : BucketSince(st.tb, i, now')
                        /\ \A i, j \in 1..Len(calls) : i <= j => BucketSpan(st.tb, i, j)
      BY <1>1, <2>2, <2>3, <2>6, Zenon DEF BucketStory, BucketSince, BucketSpan
    <2>4. st.tb \in Buckets /\ st.tb.rate \in Nat
      BY GoodFields DEF IInv, Shape, Buckets, TB!States
    <2>5. ASSUME NEW i \in 1..Len(calls)
          PROVE  BucketSince(st.tb, i, now')
      <3>1. PICK T : T = Total(Weights, i..Len(calls))
        OBVIOUS
      <3>2. T \in Int /\ calls[i].at \in Int
        BY <3>1, SpanUnits, CallFields
      <3>3. PICK f \in Nat : Paid(st.tb, T, f, now)
                             /\ st.tb.rate * f = st.tb.rate * (now - calls[i].at)
        BY <3>1 DEF BucketStory, BucketSince
      <3>4. PICK u : u = now + d
        OBVIOUS
      <3>5. u \in Nat /\ d \in Nat /\ u <= now + d
        BY <1>1, <3>4
      <3>6. Paid(st.tb, T, f + d, u)
        BY <1>1, <2>4, <3>2, <3>3, <3>5, PaidClock
      <3>7. st.tb.rate * (f + d) = st.tb.rate * (u - calls[i].at)
        <4>1. PICK r, a : r = st.tb.rate /\ a = calls[i].at
          OBVIOUS
        <4>2. r \in Int /\ a \in Int /\ d \in Int /\ now \in Int /\ f \in Int
              /\ r * f = r * (now - a) /\ u = now + d
          BY <1>1, <2>4, <3>2, <3>3, <3>4, <4>1
        <4>3. r * (f + d) = r * f + r * d
          BY <4>2
        <4>4. r * (u - a) = r * (now - a) + r * d
          BY <4>2
        <4> QED
          BY <4>1, <4>2, <4>3, <4>4
      <3>8. f + d \in Nat /\ u = now'
        BY <1>1, <2>1, <3>4
      <3> QED
        BY <3>1, <3>6, <3>7, <3>8 DEF BucketSince
    <2> QED
      BY <2>5 DEF BucketStory
  <1> QED
    BY <1>2, <1>3

\* Whatever of the credit is still to come.
LEMMA PaidInFull ==
  ASSUME NEW b \in Buckets, NEW m \in Int, NEW f \in Nat, NEW t \in Nat, Paid(b, m, f, t)
  PROVE  Second * Grain * m <= Second * b.burst + b.rate * f
  <1> DEFINE p == Pending(b, t)
  <1>1. b.grains \in Nat /\ b.rate \in Nat /\ b.burst \in Nat /\ b.last \in Int
    BY DEF Buckets, TB!States
  <1>2. /\ p \in Nat /\ p <= f
        /\ Second * (b.grains + Grain * m) <= Second * b.burst + b.rate * (f - p)
    BY <1>1 DEF Pending, MaxI, Paid
  <1> HIDE DEF p
  <1>3. b.rate * (f - p) <= b.rate * f /\ b.rate * (f - p) \in Nat
    BY <1>1, <1>2, ProductGrows, NatProduct
  <1>4. Second * (b.grains + Grain * m) = Second * b.grains + Second * Grain * m
    BY <1>1, ScaleAssumption
  <1>5. Second * b.grains \in Nat /\ Second * Grain * m \in Int
        /\ Second * b.burst \in Nat /\ b.rate * f \in Nat
    BY <1>1, ScaleAssumption, NatProduct
  <1> QED
    BY <1>2, <1>3, <1>4, <1>5

\* A grant opens an account and is put on those before it.
LEMMA BucketGrows ==
  ASSUME IInv, BucketStory, NEW n \in 1..MaxN, Records(n),
         st' = Allow(st, n, now).st, Allow(st, n, now).out = "ok",
         now' = now, t0' = t0, fwd' = fwd
  PROVE  BucketStory'
  <1> DEFINE m == Len(calls)
             c == st'.tb
  <1>1. /\ m \in Nat /\ Len(calls') = m + 1 /\ n \in Nat \ {0}
        /\ \A i \in 1..m : calls'[i] = calls[i] /\ calls[i].at \in Nat
        /\ calls'[m + 1].at = now /\ now \in Nat
        /\ \A i, j \in 1..m : Total(Weights', i..j) = Total(Weights, i..j)
        /\ \A i \in 1..(m + 1) : Total(Weights', i..(m + 1)) = Total(Weights, i..m) + n
        /\ \A i \in 1..(m + 1) : Total(Weights, i..m) \in Int
        /\ Total(Weights, (m + 1)..m) = 0
        /\ NoCancel' => NoCancel
    BY GrantFacts
  <1> HIDE DEF m
  <1>0. Rewound' <=> Rewound
    BY DEF Rewound
  <1> SUFFICES ASSUME st'.tb # NIL, NoCancel, ~Rewound
               PROVE  /\ \A i \in 1..(m + 1) : BucketSince(st.tb, i, now)'
                      /\ \A i, j \in 1..(m + 1) : i <= j => BucketSpan(st.tb, i, j)'
    BY <1>0, <1>1 DEF BucketStory
  <1>2. /\ st \in GoodStates /\ n \in 1..MaxTokens
        /\ st.gcra # NIL => Fits(st.gcra, now)
    BY UnitsFit, MeterFits DEF IInv, Shape
  <1>3. Effect(st, st', n, now)
    BY <1>1, <1>2, AllowEffect
  <1>4. st.tb # NIL /\ st.tb \in Buckets
    BY <1>2, <1>3, GoodFields DEF Effect, SameGates
  <1>5. c = TB!Allow(st.tb, n, now).st /\ TB!Allow(st.tb, n, now).out = "ok"
    BY <1>1, <1>2, <1>4, AllowGates
  <1>6. c.grains + Grain * n <= st.tb.burst /\ st.tb.burst > 0
    BY <1>1, <1>2, <1>4, <1>5, BucketGrant
  <1>7. Spends(st.tb, c, n, now)
    BY <1>1, <1>3, <1>4 DEF Effect
  <1>8. /\ c.rate = st.tb.rate /\ c.burst = st.tb.burst
        /\ c.rate \in Nat /\ c.burst \in Nat /\ c.grains \in Nat /\ c.last \in Int
    BY <1>7 DEF Spends, Buckets, TB!States
  <1>9. Pending(c, now) \in Nat /\ c.rate * Pending(c, now) = 0
    <2>1. Pending(c, now) \in Nat
      <3>1. PICK x : x = c.last
        OBVIOUS
      <3>2. now \in Int /\ x \in Int
        BY <1>1, <1>8, <3>1
      <3>3. MaxI(now - x, 0) \in Nat
        BY <3>2 DEF MaxI
      <3> QED
        BY <3>1, <3>3 DEF Pending
    <2>2. c.rate = 0 \/ Pending(c, now) = 0
      <3>1. c.rate = 0 \/ c.last = now
        BY <1>6, <1>7, <1>8 DEF Spends
      <3> QED
        BY <1>1, <1>8, <3>1 DEF Pending, MaxI
    <2> HIDE DEF c
    <2> QED
      BY <1>8, <2>1, <2>2
  <1> HIDE DEF c
  <1>10. ASSUME NEW i \in 1..(m + 1)
         PROVE  \E f \in Nat : /\ Paid(c, Total(Weights', i..(m + 1)), f, now)
                               /\ c.rate * f = c.rate * (now - calls'[i].at)
    <2>1. PICK q \in Int : q = Total(Weights, i..m)
      BY <1>1
    <2>2. Total(Weights', i..(m + 1)) = q + n
      BY <1>1, <2>1
    <2>3. CASE i = m + 1
      <3>1. PICK f \in Nat : f = Pending(c, now)
        BY <1>9
      <3>2. q = 0 /\ q + n = n /\ calls'[i].at = now
        BY <1>1, <2>1, <2>3
      <3>3. Paid(c, n, f, now)
        <4>1. Second * (c.grains + Grain * n) <= Second * c.burst
          <5>1. c.grains + Grain * n \in Int /\ c.grains + Grain * n <= c.burst
            BY <1>1, <1>6, <1>8, ScaleAssumption
          <5> QED
            BY <1>8, <5>1, IntProductGrows, ScaleAssumption
        <4>2. c.rate * (f - Pending(c, now)) = 0
          BY <1>8, <3>1
        <4>3. Second * c.burst \in Int
          BY <1>8, ScaleAssumption
        <4>4. c.burst > 0
          BY <1>6, <1>8
        <4> QED
          BY <3>1, <4>1, <4>2, <4>3, <4>4 DEF Paid
      <3>4. c.rate * f = c.rate * (now - calls'[i].at)
        BY <1>1, <1>8, <1>9, <3>1, <3>2
      <3> QED
        BY <2>2, <3>2, <3>3, <3>4
    <2>4. CASE i # m + 1
      <3>1. i \in 1..m
        BY <1>1, <2>4
      <3>2. BucketSince(st.tb, i, now)
        BY <1>4, <3>1 DEF BucketStory, m
      <3>3. PICK f \in Nat : Paid(st.tb, q, f, now)
                             /\ st.tb.rate * f = st.tb.rate * (now - calls[i].at)
        BY <2>1, <3>2 DEF BucketSince, m
      <3>4. n \in Int /\ now \in Nat
        BY <1>1
      <3>5. Paid(c, q + n, f, now)
        BY <1>4, <1>7, <3>3, <3>4, PaidSpend
      <3>6. calls'[i].at = calls[i].at
        BY <1>1, <3>1
      <3> QED
        BY <1>8, <2>2, <3>3, <3>5, <3>6
    <2> QED
      BY <2>3, <2>4
  <1>11. ASSUME NEW i \in 1..(m + 1)
         PROVE  BucketSince(st.tb, i, now)'
    BY <1>1, <1>10 DEF BucketSince, c
  <1>12. ASSUME NEW i \in 1..(m + 1), NEW j \in 1..(m + 1), i <= j
         PROVE  BucketSpan(st.tb, i, j)'
    <2>1. CASE j = m + 1
      <3>1. PICK T, a : T = Total(Weights', i..j) /\ a = calls'[i].at
        OBVIOUS
      <3>2. PICK f \in Nat : Paid(c, T, f, now) /\ c.rate * f = c.rate * (now - a)
        BY <1>10, <2>1, <3>1
      <3>3. T \in Int
        BY <1>1, <2>1, <3>1
      <3>4. Second * Grain * T <= Second * c.burst + c.rate * f
        BY <1>1, <1>7, <1>8, <3>2, <3>3, PaidInFull DEF Spends
      <3>5. calls'[j].at = now
        BY <1>1, <2>1
      <3> QED
        BY <3>1, <3>2, <3>4, <3>5 DEF BucketSpan, c
    <2>2. CASE j # m + 1
      <3>1. i \in 1..m /\ j \in 1..m
        <4>1. m \in Nat
          BY <1>1
        <4> QED
          BY <1>12, <2>2, <4>1
      <3>2. BucketSpan(st.tb, i, j)
        BY <1>4, <1>12, <3>1 DEF BucketStory, m
      <3> QED
        BY <1>1, <1>8, <3>1, <3>2 DEF BucketSpan, c
    <2> QED
      BY <2>1, <2>2
  <1> QED
    BY <1>11, <1>12

\* Every step keeps the accounts of the bucket.
LEMMA BucketNext ==
  ASSUME IInv, BucketStory, Forward, [Next]_vars
  PROVE  BucketStory' /\ Forward'
  <1>1. ASSUME NEW n \in 1..MaxN, AllowN(n)
        PROVE  BucketStory' /\ Forward'
    <2>1. /\ st' = Allow(st, n, now).st
          /\ now' = now /\ t0' = t0 /\ fwd' = fwd
      BY <1>1 DEF AllowN
    <2>2. CASE Allow(st, n, now).out = "ok" /\ Records(n)
      BY <2>1, <2>2, BucketGrows DEF Forward
    <2>3. CASE Allow(st, n, now).out # "ok" /\ calls' = calls
      <3>1. Effect(st, st', 0, now)
        BY <2>1, <2>3, UnitsFit, MeterFits, AllowEffect DEF IInv, Shape, Clocks
      <3> QED
        BY <2>1, <2>3, <3>1, BucketStays DEF Forward
    <2> QED
      BY <1>1, <2>2, <2>3 DEF AllowN, Records
  <1>2. CASE PeekKey
    <2>1. st \in GoodStates /\ now \in Nat /\ 1 \in 1..MaxTokens
      BY ScaleAssumption DEF IInv, Shape, Clocks
    <2>2. /\ Effect(st, st', 0, now) /\ calls' = calls
          /\ now' = now /\ t0' = t0 /\ fwd' = fwd
      BY <1>2, <2>1, PeekEffect DEF PeekKey
    <2> QED
      BY <2>2, BucketStays DEF Forward
  <1>3. ASSUME NEW i \in 1..Len(calls), Cancel(i)
        PROVE  BucketStory' /\ Forward'
    BY <1>3, CancelMarks DEF BucketStory, Forward, Cancel
  <1>4. ASSUME NEW d \in Steps, AdvanceClock(d) \/ RewindClock(d)
        PROVE  BucketStory' /\ Forward'
    BY <1>4, BucketWaits
  <1>5. CASE UNCHANGED vars
    BY <1>5, BucketStays DEF vars, Forward
  <1> QED
    BY <1>1, <1>2, <1>3, <1>4, <1>5 DEF Next

\* The formula of doc.go:11 for the token bucket: as long as the clock only
\* ran forward, what is let in between any two calls is at most the burst and
\* what the rate earns in between, whatever the rate, the burst and the calls.
THEOREM BucketFormulaHolds == Spec => []BucketFormula
  <1>1. Init => BucketStory /\ Forward
    <2> SUFFICES ASSUME Init PROVE BucketStory /\ Forward
      OBVIOUS
    <2>1. now \in Nat
      BY InitHolds DEF IInv, Clocks
    <2> QED
      BY <2>1 DEF Init, BucketStory, Forward
  <1>2. IInv /\ BucketStory => BucketFormula
    <2> SUFFICES ASSUME IInv, BucketStory, st.tb # NIL, ~Rewound, NoCancel,
                        NEW i \in 1..Len(calls), NEW j \in 1..Len(calls), i <= j
                 PROVE  Second * Grain * Units(i..j)
                          <= Second * st.tb.burst + st.tb.rate * (calls[j].at - calls[i].at)
      BY DEF BucketFormula
    <2>1. BucketSpan(st.tb, i, j)
      BY DEF BucketStory
    <2>2. Units(i..j) = Total(Weights, i..j)
      BY SpanUnits
    <2> QED
      BY <2>1, <2>2 DEF BucketSpan
  <1> QED
    BY <1>1, <1>2, BucketNext, Inductive, PTL DEF Spec

-----------------------------------------------------------------------------
(* The sliding log and its window.                                         *)

\* The live calls after T, and the events of the ring after T.
LiveAfter(T) == {i \in Live : calls[i].at > T}

LogStory ==
  st.log # NIL /\ ~stolen =>
    \A T \in Int : hw - st.log.size <= T =>
      Total(Weights, LiveAfter(T)) <= Cardinality(Newer(st.log.ring, T))

\* The units of a set of calls are a natural number of them.
LEMMA HistoryType ==
  ASSUME IInv, NEW S \in SUBSET (1..Len(calls))
  PROVE  IsFiniteSet(S) /\ Total(Weights, S) \in Nat
  <1>1. Len(calls) \in Nat /\ \A i \in 1..Len(calls) : Weights[i] \in Nat
    BY CallFields
  <1>2. PICK w : w = Weights
    OBVIOUS
  <1>3. IsFiniteSet(1..Len(calls))
    BY <1>1, FS_Interval
  <1>4. IsFiniteSet(S)
    BY <1>3, FS_Subset
  <1>5. \A i \in S : w[i] \in Nat
    BY <1>1, <1>2
  <1>6. Total(w, S) \in Nat
    BY <1>4, <1>5, TotalType
  <1> QED
    BY <1>2, <1>4, <1>6

\* A grant adds its units to the total of whatever it is put with.
LEMMA HistoryMore ==
  ASSUME IInv, NEW n \in 1..MaxN, Records(n)
  PROVE  LET m == Len(calls) IN
         /\ Live' = Live \cup {m + 1} /\ m + 1 \notin 1..m
         /\ \A S \in SUBSET (1..m) :
              /\ Total(Weights, S) \in Nat
              /\ Total(Weights', S) = Total(Weights, S)
              /\ Total(Weights', S \cup {m + 1}) = Total(Weights, S) + n
  <1> DEFINE m == Len(calls)
  <1>1. /\ calls \in Seq(CallRecords) /\ m \in Nat /\ n \in Nat
        /\ \A i \in 1..m : Weights[i] \in Nat /\ Weights[i] = calls[i].n
    BY CallFields, UnitsFit DEF IInv, History
  <1>2. /\ Len(calls') = m + 1
        /\ \A i \in 1..m : calls'[i] = calls[i]
        /\ calls'[m + 1] = [n |-> n, at |-> now, live |-> TRUE]
    BY <1>1 DEF Records
  <1> HIDE DEF m
  <1>3. Live' = Live \cup {m + 1} /\ m + 1 \notin 1..m
    <2>1. Live' = {i \in 1..(m + 1) : calls'[i].live}
      BY <1>2 DEF Live
    <2>2. calls'[m + 1].live
      BY <1>2
    <2>3. 1..(m + 1) = (1..m) \cup {m + 1} /\ m + 1 \notin 1..m
      BY <1>1
    <2>4. Live = {i \in 1..m : calls[i].live}
      BY DEF Live, m
    <2> QED
      BY <1>2, <2>1, <2>2, <2>3, <2>4
  <1>4. Weights' = [i \in 1..(m + 1) |-> calls'[i].n]
    BY <1>2 DEF Weights
  <1>5. PICK v, w, x : v = Weights' /\ w = Weights /\ x = m + 1
    OBVIOUS
  <1>6. v[x] = n /\ \A i \in 1..m : v[i] = w[i] /\ w[i] \in Nat
    BY <1>1, <1>2, <1>4, <1>5
  <1>7. ASSUME NEW S \in SUBSET (1..m)
        PROVE  /\ Total(w, S) \in Nat
               /\ Total(v, S) = Total(w, S)
               /\ Total(v, S \cup {x}) = Total(w, S) + n
    <2>1. IsFiniteSet(1..m)
      BY <1>1, FS_Interval
    <2>2. IsFiniteSet(S)
      BY <2>1, FS_Subset
    <2>a. x \notin 1..m
      BY <1>3, <1>5
    <2>b. v[x] \in Int
      BY <1>1, <1>6
    <2>c. \A i \in 1..m : v[i] = w[i] /\ w[i] \in Nat
      BY <1>6
    <2>d. Nat \subseteq Int
      OBVIOUS
    <2>3. /\ \A i \in S : v[i] = w[i] /\ w[i] \in Nat /\ v[i] \in Int
          /\ x \notin S /\ v[x] \in Int
      BY <2>a, <2>b, <2>c, <2>d, Zenon
    <2>4. Total(w, S) \in Nat
      BY <2>2, <2>3, TotalType
    <2>5. Total(v, S) = Total(w, S)
      BY <2>2, <2>3, TotalSame
    <2>6. Total(v, S \cup {x}) = Total(v, S) + v[x]
      BY <2>2, <2>3, TotalMore
    <2> QED
      BY <1>6, <2>4, <2>5, <2>6
  <1> QED
    BY <1>3, <1>5, <1>7 DEF m

\* A cancellation takes its units out of it.
LEMMA HistoryLess ==
  ASSUME IInv, NEW i \in 1..Len(calls), Cancel(i)
  PROVE  /\ Weights' = Weights
         /\ Live' = Live \ {i}
         /\ \A S \in SUBSET (1..Len(calls)) :
              /\ Total(Weights, S) \in Nat
              /\ i \in S => Total(Weights, S) = Total(Weights, S \ {i}) + calls[i].n
  <1>1. /\ Len(calls') = Len(calls) /\ Len(calls) \in Nat /\ Live' = Live \ {i}
        /\ \A j \in 1..Len(calls) : calls'[j].n = calls[j].n
        /\ \A j \in 1..Len(calls) : Weights[j] \in Nat /\ Weights[j] = calls[j].n
    BY CancelMarks, CallFields
  <1>2. Weights' = Weights
    BY <1>1 DEF Weights
  <1>3. PICK w : w = Weights
    OBVIOUS
  <1>4. ASSUME NEW S \in SUBSET (1..Len(calls))
        PROVE  /\ Total(w, S) \in Nat
               /\ i \in S => Total(w, S) = Total(w, S \ {i}) + calls[i].n
    <2>1. IsFiniteSet(1..Len(calls))
      BY <1>1, FS_Interval
    <2>2. IsFiniteSet(S)
      BY <2>1, FS_Subset
    <2>3. \A j \in S : w[j] \in Nat /\ w[j] \in Int
      BY <1>1, <1>3
    <2>4. Total(w, S) \in Nat
      BY <2>2, <2>3, TotalType
    <2>5. i \in S => Total(w, S) = Total(w, S \ {i}) + w[i]
      BY <2>2, <2>3, TotalLess
    <2> QED
      BY <1>1, <1>3, <2>4, <2>5
  <1> QED
    BY <1>1, <1>2, <1>3, <1>4

\* The story survives whatever refuses, looks, or moves the clock.
LEMMA LogStays ==
  ASSUME IInv, LogStory, calls' = calls, stolen' = stolen, hw' \in Nat, hw <= hw',
         NEW n \in Nat \ {0},
         \/ st'.log = st.log
         \/ /\ st.log # NIL /\ st'.log = Log!Allow(st.log, n, now).st
            /\ Log!Allow(st.log, n, now).out # "ok"
  PROVE  LogStory'
  <1>1. Weights' = Weights /\ Live' = Live
    BY DEF Weights, Live
  <1>2. ASSUME NEW T \in Int
        PROVE  LiveAfter(T)' = LiveAfter(T)
    BY <1>1 DEF LiveAfter
  <1>3. SUFFICES ASSUME st'.log # NIL, ~stolen, NEW T \in Int, hw' - st'.log.size <= T
                 PROVE  Total(Weights, LiveAfter(T)) <= Cardinality(Newer(st'.log.ring, T))
    BY <1>1, <1>2 DEF LogStory
  <1>4. now \in Nat /\ hw \in Nat /\ now <= hw
    BY DEF IInv, Clocks
  <1>5. CASE st'.log = st.log
    <2>1. st.log.size \in Nat
      BY <1>3, <1>5, GoodFields DEF IInv, Shape, Logs, Log!States
    <2> QED
      BY <1>3, <1>4, <1>5, <2>1 DEF LogStory
  <1>6. CASE /\ st.log # NIL /\ st'.log = Log!Allow(st.log, n, now).st
             /\ Log!Allow(st.log, n, now).out # "ok"
    <2>1. st.log \in Logs
      BY <1>6, GoodFields DEF IInv, Shape
    <2>2. st.log.size \in Nat /\ st.log.ring \in Seq(Int)
      BY <2>1 DEF Logs, Log!States
    <2>3. PICK r : r = Log!Allow(st.log, n, now)
      OBVIOUS
    <2>4. now \in Int
      BY <1>4
    <2>5. ASSUME NEW U \in Int, now - st.log.size <= U
          PROVE  /\ r.st.size = st.log.size
                 /\ Cardinality(Newer(st.log.ring, U)) + 0 <= Cardinality(Newer(r.st.ring, U))
      <3>1. ~(r.out = "ok" /\ now > U)
        BY <1>6, <2>3
      <3>2. /\ r.st.size = st.log.size
            /\ Cardinality(Newer(st.log.ring, U)) + (IF r.out = "ok" /\ now > U THEN n ELSE 0)
                 <= Cardinality(Newer(r.st.ring, U))
        BY <2>1, <2>3, <2>4, <2>5, LogDecides
      <3> QED
        BY <3>1, <3>2
    <2>6. st'.log.size = st.log.size
      <3>1. now - st.log.size \in Int /\ now - st.log.size <= now - st.log.size
        BY <2>2, <2>4
      <3>2. r.st.size = st.log.size
        BY <2>5, <3>1
      <3> QED
        BY <1>6, <2>3, <3>2
    <2>7. now - st.log.size <= T /\ hw - st.log.size <= T
      BY <1>3, <1>4, <2>2, <2>6
    <2>8. Cardinality(Newer(st.log.ring, T)) + 0 <= Cardinality(Newer(st'.log.ring, T))
      BY <1>6, <2>3, <2>5, <2>7
    <2>9. Total(Weights, LiveAfter(T)) <= Cardinality(Newer(st.log.ring, T))
      BY <1>3, <1>6, <2>7 DEF LogStory
    <2>10. /\ Total(Weights, LiveAfter(T)) \in Int
           /\ Cardinality(Newer(st.log.ring, T)) \in Int
           /\ Cardinality(Newer(st'.log.ring, T)) \in Int
      <3>1. st'.log.ring \in Seq(Int)
        BY <1>6, <1>4, <2>1, LogAllow DEF Logs, Log!States
      <3>2. LiveAfter(T) \in SUBSET (1..Len(calls))
        BY DEF LiveAfter, Live
      <3>3. Total(Weights, LiveAfter(T)) \in Nat
        BY <3>2, HistoryType
      <3>4. /\ Cardinality(Newer(st.log.ring, T)) \in Nat
            /\ Cardinality(Newer(st'.log.ring, T)) \in Nat
        BY <2>2, <3>1, NewerFinite
      <3> QED
        BY <3>3, <3>4
    <2> QED
      BY <2>8, <2>9, <2>10
  <1> QED
    BY <1>5, <1>6

\* A grant puts as many timestamps into the ring as units into the window.
LEMMA LogGrows ==
  ASSUME IInv, LogStory, NEW n \in 1..MaxN, Records(n), hw' = hw, stolen' = stolen,
         st.log # NIL /\ Log!Allow(st.log, n, now).out = "ok"
           /\ st'.log = Log!Allow(st.log, n, now).st
  PROVE  LogStory'
  <1>1. now \in Nat /\ now \in Int /\ hw \in Nat /\ now <= hw
        /\ n \in Nat \ {0} /\ Len(calls) \in Nat /\ st.log \in Logs
    BY UnitsFit, CallFields, GoodFields DEF IInv, Shape, Clocks
  <1>2. PICK r : r = Log!Allow(st.log, n, now)
    OBVIOUS
  <1>3. st.log.size \in Nat
    BY <1>1 DEF Logs, Log!States
  <1>4. ASSUME NEW U \in Int, now - st.log.size <= U
        PROVE  /\ r.st.size = st.log.size
               /\ Cardinality(Newer(st.log.ring, U)) + (IF now > U THEN n ELSE 0)
                    <= Cardinality(Newer(r.st.ring, U))
    <2>1. r.out = "ok"
      BY <1>2
    <2>2. /\ r.st.size = st.log.size
          /\ Cardinality(Newer(st.log.ring, U)) + (IF r.out = "ok" /\ now > U THEN n ELSE 0)
               <= Cardinality(Newer(r.st.ring, U))
      BY <1>1, <1>2, <1>4, LogDecides
    <2> QED
      BY <2>1, <2>2
  <1>5. st'.log = r.st /\ st'.log.size = st.log.size
    <2>1. now - st.log.size \in Int /\ now - st.log.size <= now - st.log.size
      BY <1>1, <1>3
    <2> QED
      BY <1>2, <1>4, <2>1
  <1>6. PICK x : x = Len(calls) + 1
    OBVIOUS
  <1>7. /\ Live' = Live \cup {x} /\ x \notin 1..Len(calls)
        /\ \A S \in SUBSET (1..Len(calls)) :
             /\ Total(Weights, S) \in Nat
             /\ Total(Weights', S) = Total(Weights, S)
             /\ Total(Weights', S \cup {x}) = Total(Weights, S) + n
    BY <1>6, HistoryMore
  <1>8. /\ \A i \in 1..Len(calls) : calls'[i] = calls[i]
        /\ calls'[x].at = now
    BY <1>6, GrantFacts
  <1>9. SUFFICES ASSUME ~stolen, NEW T \in Int, hw - st'.log.size <= T
                 PROVE  Total(Weights', LiveAfter(T)') <= Cardinality(Newer(st'.log.ring, T))
    BY DEF LogStory
  <1>10. hw - st.log.size <= T /\ now - st.log.size <= T
    BY <1>1, <1>3, <1>5, <1>9
  <1>11. PICK p : p = LiveAfter(T)
    OBVIOUS
  <1>12. p \in SUBSET (1..Len(calls))
    BY <1>11 DEF LiveAfter, Live
  <1>13. LiveAfter(T)' = IF now > T THEN p \cup {x} ELSE p
    <2>1. LiveAfter(T)' = {i \in Live' : calls'[i].at > T}
      BY DEF LiveAfter
    <2>2. LiveAfter(T)' = {i \in Live \cup {x} : calls'[i].at > T}
      BY <1>7, <2>1
    <2>3. p = {i \in Live : calls[i].at > T} /\ Live \subseteq 1..Len(calls)
      BY <1>11 DEF LiveAfter, Live
    <2> QED
      BY <1>8, <2>2, <2>3
  <1>14. Total(Weights', LiveAfter(T)') = Total(Weights, p) + (IF now > T THEN n ELSE 0)
    <2>1. /\ Total(Weights, p) \in Nat
          /\ Total(Weights', p) = Total(Weights, p)
          /\ Total(Weights', p \cup {x}) = Total(Weights, p) + n
      BY <1>7, <1>12
    <2>2. CASE now > T
      BY <1>13, <2>1, <2>2
    <2>3. CASE ~(now > T)
      <3>1. LiveAfter(T)' = p
        BY <1>13, <2>3
      <3>2. Total(Weights', LiveAfter(T)') = Total(Weights, p)
        BY <2>1, <3>1
      <3> QED
        BY <2>1, <2>3, <3>2
    <2> QED
      BY <2>2, <2>3
  <1>15. Total(Weights, p) \in Nat /\ Total(Weights, p) <= Cardinality(Newer(st.log.ring, T))
    BY <1>7, <1>9, <1>10, <1>11, <1>12 DEF LogStory
  <1>16. PICK a, c, d, e : /\ a = Total(Weights, p) /\ c = Cardinality(Newer(st.log.ring, T))
                           /\ d = Cardinality(Newer(st'.log.ring, T))
                           /\ e = IF now > T THEN n ELSE 0
    OBVIOUS
  <1>17. a \in Int /\ c \in Int /\ d \in Int /\ e \in Int
    <2>1. st.log.ring \in Seq(Int) /\ st'.log.ring \in Seq(Int)
      BY <1>1, <1>2, <1>5, LogAllow DEF Logs, Log!States
    <2>2. c \in Nat /\ d \in Nat
      BY <1>16, <2>1, NewerFinite
    <2> QED
      BY <1>1, <1>15, <1>16, <2>2
  <1>18. c + e <= d
    BY <1>4, <1>5, <1>10, <1>16
  <1>19. a + e <= d
    BY <1>15, <1>16, <1>17, <1>18
  <1> QED
    BY <1>14, <1>16, <1>19

\* A cancellation that steals from nobody takes as many timestamps out of the
\* ring as units out of the window, or older ones than it asks about.
LEMMA LogFrees ==
  ASSUME IInv, LogStory, NEW i \in 1..Len(calls), Cancel(i)
  PROVE  LogStory'
  <1>1. SUFFICES ASSUME st'.log # NIL, ~stolen', NEW T \in Int, hw - st'.log.size <= T
                 PROVE  Total(Weights', LiveAfter(T)') <= Cardinality(Newer(st'.log.ring, T))
    BY DEF LogStory, Cancel
  <1>2. /\ st \in GoodStates /\ calls[i].n \in Nat /\ calls[i].at \in Nat
    BY CallFields, UnitsFit DEF IInv, Shape
  <1>3. st' = Restore(st, calls[i].n, now) /\ ~stolen /\ ~Steals(i)
    BY <1>1 DEF Cancel
  <1>4. st.log # NIL /\ st'.log = Log!Restore(st.log, calls[i].n)
    <2>1. st'.log = IF st.log = NIL THEN NIL ELSE Log!Restore(st.log, calls[i].n)
      BY <1>2, <1>3, RestoreIs
    <2> QED
      BY <1>1, <2>1
  <1>5. st.log \in Logs /\ st.log.ring \in Seq(Int) /\ st.log.size \in Nat
    <2>1. st.log \in Logs
      BY <1>2, <1>4, GoodFields
    <2> QED
      BY <2>1 DEF Logs, Log!States
  <1>6. PICK ring : ring = st.log.ring
    OBVIOUS
  <1>7. PICK short : short = Log!PopNewestN(ring, calls[i].n)
    OBVIOUS
  <1>8. st'.log.ring = short /\ st'.log.size = st.log.size
    BY <1>4, <1>5, <1>6, <1>7 DEF Log!Restore, Logs, Log!States
  <1>9. short \in Seq(Int)
    BY <1>2, <1>4, <1>5, <1>8, LogRestore DEF Logs, Log!States
  <1>10. /\ Cardinality(Newer(ring, T)) <= Cardinality(Newer(short, T)) + calls[i].n
         /\ (\A j \in 1..Len(ring) : j > Len(ring) - calls[i].n => ring[j] <= T)
              => Cardinality(Newer(ring, T)) <= Cardinality(Newer(short, T))
    BY <1>2, <1>5, <1>6, <1>7, NewerPopped
  <1>11. \A j \in 1..Len(ring) : j > Len(ring) - calls[i].n => ring[j] = calls[i].at
    BY <1>3, <1>4, <1>6 DEF Steals
  <1>12. /\ Weights' = Weights
         /\ Live' = Live \ {i} /\ i \in Live
         /\ \A S \in SUBSET (1..Len(calls)) :
              /\ Total(Weights, S) \in Nat
              /\ i \in S => Total(Weights, S) = Total(Weights, S \ {i}) + calls[i].n
    BY HistoryLess, CancelMarks
  <1>13. PICK p : p = LiveAfter(T)
    OBVIOUS
  <1>14. p \in SUBSET (1..Len(calls)) /\ p \ {i} \in SUBSET (1..Len(calls))
    BY <1>13 DEF LiveAfter, Live
  <1>15. LiveAfter(T)' = p \ {i} /\ (i \in p <=> calls[i].at > T)
    <2>1. \A j \in 1..Len(calls) : calls'[j].at = calls[j].at
      BY CancelMarks
    <2>2. Live \subseteq 1..Len(calls)
      BY DEF Live
    <2> QED
      BY <1>12, <1>13, <2>1, <2>2 DEF LiveAfter
  <1>16. Total(Weights, p) <= Cardinality(Newer(ring, T))
    BY <1>1, <1>3, <1>4, <1>6, <1>8, <1>13 DEF LogStory
  <1>17. PICK a, b, c, d, n : /\ a = Total(Weights, p) /\ b = Total(Weights, p \ {i})
                              /\ c = Cardinality(Newer(ring, T))
                              /\ d = Cardinality(Newer(short, T)) /\ n = calls[i].n
    OBVIOUS
  <1>18. a \in Int /\ b \in Int /\ c \in Int /\ d \in Int /\ n \in Int
    <2>1. c \in Nat /\ d \in Nat
      BY <1>5, <1>6, <1>9, <1>17, NewerFinite
    <2> QED
      BY <1>2, <1>12, <1>14, <1>17, <2>1
  <1>19. CASE i \in p
    <2>1. a = b + n
      BY <1>12, <1>14, <1>17, <1>19
    <2>2. a <= c /\ c <= d + n
      BY <1>10, <1>16, <1>17
    <2>3. b <= d
      BY <1>18, <2>1, <2>2
    <2> QED
      BY <1>8, <1>12, <1>15, <1>17, <2>3
  <1>20. CASE i \notin p
    <2>1. p \ {i} = p
      BY <1>20
    <2>2. calls[i].at <= T
      BY <1>2, <1>15, <1>20
    <2>3. c <= d
      BY <1>10, <1>11, <1>17, <2>2
    <2>4. a = b /\ a <= c
      BY <1>16, <1>17, <2>1
    <2>5. b <= d
      BY <1>18, <2>3, <2>4
    <2> QED
      BY <1>8, <1>12, <1>15, <1>17, <2>5
  <1> QED
    BY <1>19, <1>20

\* Every step keeps the story of the log.
LEMMA LogNext ==
  ASSUME IInv, LogStory, [Next]_vars
  PROVE  LogStory'
  <1>1. hw \in Nat /\ now \in Nat /\ 1 \in Nat \ {0} /\ hw <= hw
    BY DEF IInv, Clocks
  <1>2. ASSUME NEW n \in 1..MaxN, AllowN(n)
        PROVE  LogStory'
    <2>1. /\ st' = Allow(st, n, now).st /\ hw' = hw /\ stolen' = stolen
          /\ n \in Nat \ {0} /\ n \in 1..MaxTokens /\ st \in GoodStates
      BY <1>2, UnitsFit DEF AllowN, IInv, Shape
    <2>2. /\ Allow(st, n, now).out = "ok" =>
               (st.log # NIL => /\ Log!Allow(st.log, n, now).out = "ok"
                                /\ st'.log = Log!Allow(st.log, n, now).st)
          /\ Allow(st, n, now).out # "ok" =>
               \/ st'.log = st.log
               \/ /\ Log!Allow(st.log, n, now).out # "ok"
                  /\ st'.log = Log!Allow(st.log, n, now).st
      BY <1>1, <2>1, MeterFits, AllowGates
    <2>3. st'.log # NIL <=> st.log # NIL
      BY <1>1, <2>1, MeterFits, AllowEffect DEF Effect, SameGates
    <2>4. CASE st.log = NIL
      BY <2>3, <2>4 DEF LogStory
    <2>5. CASE st.log # NIL /\ Allow(st, n, now).out = "ok" /\ Records(n)
      BY <2>1, <2>2, <2>5, LogGrows
    <2>6. CASE st.log # NIL /\ Allow(st, n, now).out # "ok" /\ calls' = calls
      BY <1>1, <2>1, <2>2, <2>6, LogStays
    <2> QED
      BY <1>2, <2>4, <2>5, <2>6 DEF AllowN, Records
  <1>3. CASE PeekKey
    <2>1. st \in GoodStates /\ 1 \in 1..MaxTokens
      BY ScaleAssumption DEF IInv, Shape
    <2>2. st'.log = st.log /\ calls' = calls /\ stolen' = stolen /\ hw' = hw
      BY <1>1, <1>3, <2>1, PeekGates DEF PeekKey
    <2> QED
      BY <1>1, <2>2, LogStays
  <1>4. ASSUME NEW i \in 1..Len(calls), Cancel(i)
        PROVE  LogStory'
    BY <1>4, LogFrees
  <1>5. ASSUME NEW d \in Steps, AdvanceClock(d) \/ RewindClock(d)
        PROVE  LogStory'
    <2>1. d \in Nat
      BY BoundsAssumption
    <2>2. st' = st /\ calls' = calls /\ stolen' = stolen /\ hw' \in Nat /\ hw <= hw'
      BY <1>1, <1>5, <2>1 DEF AdvanceClock, RewindClock, MaxI
    <2> QED
      BY <1>1, <2>2, LogStays
  <1>6. CASE UNCHANGED vars
    BY <1>1, <1>6, LogStays DEF vars
  <1> QED
    BY <1>2, <1>3, <1>4, <1>5, <1>6 DEF Next

\* window.go:5: whatever the clock does, the events let in and not cancelled
\* within the window that ends at the highest time read are never more than
\* the limit, as long as no cancellation took another call's timestamps.
THEOREM LogWindowHolds == Spec => []LogWindow
  <1>1. Init => LogStory
    <2> SUFFICES ASSUME Init, st.log # NIL, NEW T \in Int
                 PROVE  Total(Weights, LiveAfter(T)) <= Cardinality(Newer(st.log.ring, T))
      BY DEF LogStory
    <2>1. st.log.ring \in Seq(Int)
      BY InitHolds, GoodFields DEF IInv, Shape, Logs, Log!States
    <2>4. Cardinality(Newer(st.log.ring, T)) \in Nat
      BY <2>1, NewerFinite
    <2>2. LiveAfter(T) = {}
      BY DEF Init, LiveAfter, Live
    <2>3. Total(Weights, LiveAfter(T)) = 0
      BY <2>2, TotalNone
    <2> QED
      BY <2>3, <2>4
  <1>2. IInv /\ LogStory => LogWindow
    <2> SUFFICES ASSUME IInv, LogStory, st.log # NIL, ~stolen
                 PROVE  Units({i \in Live : calls[i].at > hw - st.log.size}) <= st.log.limit
      BY DEF LogWindow
    <2>1. st.log \in Logs /\ hw \in Nat
      BY GoodFields DEF IInv, Shape, Clocks
    <2>2. st.log.ring \in Seq(Int) /\ Len(st.log.ring) <= st.log.limit
          /\ st.log.limit \in Nat /\ st.log.size \in Nat
      BY <2>1 DEF Logs, Log!States
    <2>3. PICK T : T = hw - st.log.size
      OBVIOUS
    <2>4. T \in Int /\ hw - st.log.size <= T
      BY <2>1, <2>2, <2>3
    <2>5. Total(Weights, LiveAfter(T)) <= Cardinality(Newer(st.log.ring, T))
      BY <2>4 DEF LogStory
    <2>6. Cardinality(Newer(st.log.ring, T)) \in Nat
          /\ Cardinality(Newer(st.log.ring, T)) <= Len(st.log.ring)
      BY <2>2, <2>4, NewerFinite
    <2>7. LiveAfter(T) \in SUBSET (1..Len(calls))
      BY DEF LiveAfter, Live
    <2>8. IsFiniteSet(LiveAfter(T)) /\ Total(Weights, LiveAfter(T)) \in Nat
      BY <2>7, HistoryType
    <2>9. \A i \in LiveAfter(T) : Weights[i] = calls[i].n
      BY <2>7, CallFields
    <2>10. Units(LiveAfter(T)) = Total(Weights, LiveAfter(T))
      BY <2>8, <2>9, UnitsTotal
    <2>11. Units(LiveAfter(T)) <= st.log.limit
      BY <2>2, <2>5, <2>6, <2>8, <2>10
    <2> QED
      BY <2>3, <2>11 DEF LiveAfter
  <1> QED
    BY <1>1, <1>2, LogNext, Inductive, PTL DEF Spec

-----------------------------------------------------------------------------
(* Taking back at once, on the key.                                        *)

\* The grains of a full bucket fit their word.
WordsFit == st.tb # NIL => st.tb.burst <= MaxU64

\* Whatever happens, the gates stay what they are.
LEMMA EffectNext ==
  ASSUME IInv, [Next]_vars
  PROVE  \/ st' = st
         \/ \E k \in Int : Effect(st, st', k, now)
  <1>1. ASSUME NEW n \in 1..MaxN, AllowN(n)
        PROVE  \E k \in Int : Effect(st, st', k, now)
    <2>1. st \in GoodStates /\ now \in Nat /\ n \in 1..MaxTokens /\ n \in Int /\ 0 \in Int
      BY UnitsFit DEF IInv, Shape, Clocks
    <2>2. Effect(st, st', IF Allow(st, n, now).out = "ok" THEN n ELSE 0, now)
      BY <1>1, <2>1, MeterFits, AllowEffect DEF AllowN
    <2> QED
      BY <2>1, <2>2
  <1>2. ASSUME PeekKey
        PROVE  \E k \in Int : Effect(st, st', k, now)
    <2>1. st \in GoodStates /\ now \in Nat /\ 1 \in 1..MaxTokens /\ 0 \in Int
      BY ScaleAssumption DEF IInv, Shape, Clocks
    <2>2. Effect(st, st', 0, now)
      BY <1>2, <2>1, PeekEffect DEF PeekKey
    <2> QED
      BY <2>1, <2>2
  <1>3. ASSUME NEW i \in 1..Len(calls), Cancel(i)
        PROVE  \E k \in Int : Effect(st, st', k, now)
    <2>1. /\ st \in GoodStates /\ now \in Nat
          /\ calls[i].n \in 1..MaxTokens /\ -calls[i].n \in Int
      BY CallFields, UnitsFit DEF IInv, Shape, Clocks
    <2>2. st.gcra # NIL => calls[i].n <= st.gcra.burst /\ st.gcra.limit <= MaxI64
      BY MeterFits DEF IInv, MeterAccount
    <2>3. Effect(st, st', -calls[i].n, now)
      BY <1>3, <2>1, <2>2, RestoreEffect DEF Cancel
    <2> QED
      BY <2>1, <2>3
  <1> QED
    BY <1>1, <1>2, <1>3 DEF Next, vars, AdvanceClock, RewindClock

\* A bucket stays within a word.
LEMMA WordsNext ==
  ASSUME IInv, WordsFit, [Next]_vars
  PROVE  WordsFit'
  <1>1. \/ st' = st
        \/ \E k \in Int : Effect(st, st', k, now)
    BY EffectNext
  <1>2. SUFFICES ASSUME st'.tb # NIL, NEW k \in Int, Effect(st, st', k, now)
                 PROVE  st'.tb.burst <= MaxU64
    BY <1>1 DEF WordsFit
  <1>3. st.tb # NIL /\ st.tb.burst <= MaxU64
    BY <1>2 DEF WordsFit, Effect, SameGates
  <1>4. st'.tb = st.tb \/ st'.tb.burst = st.tb.burst
    BY <1>2, <1>3 DEF Effect, Spends
  <1> QED
    BY <1>3, <1>4

\* The model's settled state is that of the gates.
LEMMA SettledIs == Settled = SettledAt(st, now)
  BY DEF Settled, SettledAt

\* A grant cancelled at once and a refusal by the window (state.go:62-66)
\* leave no trace on any gate, whatever the state they find it in.
THEOREM RollsBackHolds == Spec => []RollsBack
  <1>1. Init => WordsFit
    <2> SUFFICES ASSUME Init, st.tb # NIL PROVE st.tb.burst <= MaxU64
      BY DEF WordsFit
    <2>1. st.tb = TB!NewState(spec.rate, now) /\ spec.rate # NIL /\ spec \in SpecRecords
      BY SpecsAssumption DEF Init, NewLimiterState
    <2>2. spec.rate.burst \in Nat
      BY <2>1 DEF SpecRecords, Rates
    <2>3. PICK n : n = spec.rate.burst
      OBVIOUS
    <2>4. st.tb.burst = TB!Need(n) /\ n \in Nat
      BY <2>1, <2>2, <2>3 DEF TB!NewState, TB!BurstGrains
    <2>5. TB!Need(n) <= MaxTokens * Grain
      <3>1. PICK m : m = TB!MinU64(n, MaxTokens)
        OBVIOUS
      <3>2. m \in Nat /\ m <= MaxTokens /\ MaxTokens \in Nat /\ Grain \in Nat
        BY <2>4, <3>1, ScaleAssumption DEF TB!MinU64
      <3>3. Grain * m <= Grain * MaxTokens
        BY <3>2, ProductGrows
      <3>4. m * Grain <= MaxTokens * Grain /\ 0 <= MaxTokens * Grain
        BY <3>2, <3>3, NatProduct
      <3> QED
        BY <3>1, <3>4 DEF TB!Need
    <2>6. /\ TB!Need(n) \in Int /\ MaxTokens * Grain \in Int /\ MaxU64 \in Int
          /\ MaxTokens * Grain <= MaxU64
      BY <2>4, ScaleAssumption, WidthAssumption, GrainsAssumption DEF TB!Need, TB!MinU64
    <2> QED
      BY <2>4, <2>5, <2>6
  <1>2. IInv /\ WordsFit => RollsBack
    <2> SUFFICES ASSUME IInv, WordsFit, NEW n \in 1..MaxN
                 PROVE  LET r == Allow(st, n, now) IN
                        /\ r.out = "ok" => Restore(r.st, n, now) = Settled
                        /\ r.out = "deny" /\ r.reason = "window" => r.st = Settled
      BY DEF RollsBack
    <2>1. st \in GoodStates /\ now \in Nat /\ n \in 1..MaxTokens
      BY UnitsFit DEF IInv, Shape, Clocks
    <2>2. st.gcra # NIL => Fits(st.gcra, now)
      BY MeterFits
    <2>3. st.tb # NIL => st.tb.burst <= MaxU64
      BY DEF WordsFit
    <2> QED
      BY <2>1, <2>2, <2>3, DecisionRollback, SettledIs
  <1> QED
    BY <1>1, <1>2, WordsNext, Inductive, PTL DEF Spec

-----------------------------------------------------------------------------
(* The sliding counter and what it weighs.                                 *)

\* The calls that weigh and were counted in the bucket that begins at e.
BegunAt(e) == {i \in DOMAIN slots : slots[i] = e}

\* The two newest buckets count every call that weighs and belongs to them.
Covers(c) ==
  /\ ~c.init => DOMAIN slots = {}
  /\ c.init =>
       /\ Aligned(c)
       /\ \A i \in DOMAIN slots : slots[i] <= Ctr!End(c)
       /\ Total(Weights, BegunAt(Ctr!End(c))) <= c.counts[c.buckets]
       /\ Total(Weights, BegunAt(Ctr!End(c) - c.width)) <= c.counts[c.buckets - 1]

\* What call j found when it was let in, less what was given back since.
Weighed(c, j) ==
  c.width * Total(Weights, {i \in BegunAt(slots[j]) : i <= j})
    + (c.width - MaxI(calls[j].at - slots[j], 0))
        * Total(Weights, {i \in BegunAt(slots[j] - c.width) : i <= j})
    <= c.limit * c.width

\* Call j is counted in the bucket of its time, or in a later one.
InPlace(c, j) ==
  /\ slots[j] >= Ctr!BucketStart(c, calls[j].at)
  /\ slots[j] = Ctr!BucketStart(c, calls[j].at) \/ Rewound

\* Only a clock set back reads less than the newest bucket.
Reached(c) == c.init /\ ~Rewound => Ctr!End(c) <= now

CounterStory ==
  st.ctr # NIL /\ ~stolen =>
    /\ Covers(st.ctr)
    /\ Reached(st.ctr)
    /\ \A j \in DOMAIN slots : Weighed(st.ctr, j) /\ InPlace(st.ctr, j)

\* The slots are of calls, and whole numbers.
LEMMA SlotFields ==
  ASSUME IInv
  PROVE  /\ DOMAIN slots \subseteq 1..Len(calls)
         /\ \A i \in DOMAIN slots : slots[i] \in Int
         /\ \A e : BegunAt(e) \in SUBSET (1..Len(calls))
         /\ slots \in [DOMAIN slots -> Int]
  BY DEF IInv, History, SlotsOK, BegunAt

\* A newest bucket that the clock has reached and not passed is the clock's.
LEMMA AlignedHere ==
  ASSUME NEW c \in Counters, NEW t \in Nat, Aligned(c),
         Ctr!BucketStart(c, t) <= Ctr!End(c), Ctr!End(c) <= t
  PROVE  Ctr!End(c) = Ctr!BucketStart(c, t)
  <1>1. PICK b, e, w : b = Ctr!BucketStart(c, t) /\ e = Ctr!End(c) /\ w = c.width
    OBVIOUS
  <1>2. PICK q \in Nat : b = w * q /\ b \in Nat /\ b <= t /\ t < b + w
    BY <1>1, StartOf
  <1>3. PICK x \in Int : e = w * x /\ e \in Int
    BY <1>1 DEF Aligned
  <1>4. w \in Nat
    BY <1>1 DEF Counters, Ctr!States
  <1>5. CASE x <= q
    <2>1. w * x <= w * q
      BY <1>4, <1>5, IntProductGrows
    <2> QED
      BY <1>1, <1>2, <1>3, <2>1
  <1>6. CASE q + 1 <= x
    <2>1. w * (q + 1) <= w * x
      BY <1>4, <1>6, IntProductGrows
    <2>2. w * (q + 1) = b + w
      BY <1>2, <1>4
    <2>3. b + w <= e
      BY <1>2, <1>3, <1>4, <2>1, <2>2
    <2> QED
      BY <1>1, <1>2, <1>3, <1>4, <2>3
  <1> QED
    BY <1>2, <1>3, <1>5, <1>6

\* Advancing to the clock keeps the two newest buckets covered.
LEMMA AdvanceCovers ==
  ASSUME IInv, NEW c \in Counters, Covers(c)
  PROVE  /\ Covers(Ctr!Advance(c, now))
         /\ Reached(c) => Reached(Ctr!Advance(c, now))
  <1>1. PICK a, b, k, w, e : /\ a = Ctr!Advance(c, now) /\ b = Ctr!BucketStart(c, now)
                             /\ k = c.buckets /\ w = c.width /\ e = Ctr!End(c)
    OBVIOUS
  <1>2. now \in Nat /\ (c.init => Aligned(c))
    BY DEF IInv, Clocks, Covers
  <1>3. /\ a \in Counters /\ a.init /\ a.width = w /\ a.buckets = k /\ Aligned(a)
        /\ ~c.init => Ctr!End(a) = b
        /\ c.init => \/ a = c
                     \/ /\ e + w <= b /\ Ctr!End(a) = b
                        /\ a.counts[k] = 0
                        /\ a.counts[k - 1] = IF b = e + w THEN c.counts[k] ELSE 0
    BY <1>1, <1>2, CounterSlides
  <1>4. w \in Nat /\ w >= 1 /\ k \in Nat /\ k >= 2 /\ b \in Nat /\ b <= now
        /\ a.counts[k] \in Nat /\ a.counts[k - 1] \in Nat /\ c.init \in BOOLEAN
    <2>1. w \in Nat /\ w >= 1 /\ k \in Nat /\ k >= 2 /\ c.init \in BOOLEAN
      BY <1>1 DEF Counters, Ctr!States
    <2>2. a.counts \in Seq(Nat) /\ Len(a.counts) = k
      BY <1>3 DEF Counters, Ctr!States
    <2>3. a.counts[k] \in Nat /\ a.counts[k - 1] \in Nat
      BY <2>1, <2>2
    <2> QED
      BY <1>1, <1>2, <2>1, <2>3, StartOf
  <1>5. Total(Weights, {}) = 0
    BY TotalNone
  <1>6. CASE ~c.init
    <2>1. DOMAIN slots = {}
      BY <1>6 DEF Covers
    <2>2. BegunAt(Ctr!End(a)) = {} /\ BegunAt(Ctr!End(a) - w) = {}
      BY <2>1 DEF BegunAt
    <2>3. 0 <= a.counts[k] /\ 0 <= a.counts[k - 1]
      BY <1>4
    <2>4. Covers(a)
      BY <1>3, <1>5, <2>1, <2>2, <2>3 DEF Covers
    <2>5. Reached(a)
      BY <1>3, <1>4, <1>6 DEF Reached
    <2> QED
      BY <1>1, <2>4, <2>5
  <1>7. CASE c.init /\ a = c
    BY <1>1, <1>7
  <1>8. CASE /\ c.init /\ e + w <= b /\ Ctr!End(a) = b /\ a.counts[k] = 0
             /\ a.counts[k - 1] = IF b = e + w THEN c.counts[k] ELSE 0
    <2>1. e \in Int
      BY <1>1, <1>2, <1>8 DEF Aligned
    <2>2. \A i \in DOMAIN slots : slots[i] <= e /\ slots[i] \in Int
      BY <1>1, <1>8, SlotFields DEF Covers
    <2>3. \A i \in DOMAIN slots : slots[i] <= b /\ slots[i] # b
      BY <1>4, <1>8, <2>1, <2>2
    <2>4. BegunAt(b) = {}
      BY <2>3 DEF BegunAt
    <2>5. Total(Weights, BegunAt(b - w)) <= a.counts[k - 1]
      <3>1. CASE b = e + w
        <4>1. b - w = e /\ a.counts[k - 1] = c.counts[k]
          BY <1>4, <1>8, <2>1, <3>1
        <4>2. Total(Weights, BegunAt(e)) <= c.counts[k]
          BY <1>1, <1>8 DEF Covers
        <4> QED
          BY <4>1, <4>2
      <3>2. CASE b # e + w
        <4>1. e < b - w /\ b - w \in Int
          BY <1>4, <1>8, <2>1, <3>2
        <4>2. \A i \in DOMAIN slots : slots[i] # b - w
          BY <2>1, <2>2, <4>1
        <4>3. BegunAt(b - w) = {}
          BY <4>2 DEF BegunAt
        <4>4. a.counts[k - 1] = 0 /\ 0 <= 0
          BY <1>8, <3>2
        <4> QED
          BY <1>5, <4>3, <4>4
      <3> QED
        BY <3>1, <3>2
    <2>6. Total(Weights, BegunAt(b)) <= a.counts[k]
      BY <1>4, <1>5, <1>8, <2>4
    <2>7. Covers(a)
      BY <1>3, <1>8, <2>3, <2>5, <2>6 DEF Covers
    <2>8. Reached(a)
      BY <1>4, <1>8 DEF Reached
    <2> QED
      BY <1>1, <2>7, <2>8
  <1> QED
    BY <1>3, <1>4, <1>6, <1>7, <1>8

\* The story survives whatever refuses or looks, and the clock's moves.
LEMMA CounterStays ==
  ASSUME IInv, CounterStory, calls' = calls, slots' = slots, stolen' = stolen,
         Rewound => Rewound', now' \in Nat, ~Rewound' => now <= now',
         \/ st'.ctr = st.ctr
         \/ st.ctr # NIL /\ now' = now /\ st'.ctr = Ctr!Advance(st.ctr, now)
  PROVE  CounterStory'
  <1>1. SUFFICES ASSUME st'.ctr # NIL, ~stolen
                 PROVE  /\ Covers(st.ctr)' /\ Reached(st.ctr)'
                        /\ \A j \in DOMAIN slots' : Weighed(st.ctr, j)' /\ InPlace(st.ctr, j)'
    BY DEF CounterStory
  <1>2. PICK c, d : c = st.ctr /\ d = st'.ctr
    OBVIOUS
  <1>3. st.ctr # NIL /\ c \in Counters
    BY <1>1, <1>2, GoodFields DEF IInv, Shape
  <1>4. /\ Covers(c) /\ Reached(c)
        /\ \A j \in DOMAIN slots : Weighed(c, j) /\ InPlace(c, j)
    BY <1>1, <1>2, <1>3 DEF CounterStory
  <1>5. now \in Nat /\ (c.init => Aligned(c))
    BY <1>4 DEF IInv, Clocks, Covers
  <1>6. d.width = c.width /\ d.limit = c.limit /\ Covers(d) /\ Reached(d)
        /\ (d.init => Ctr!End(d) \in Int)
    <2>1. CASE d = c
      BY <1>4, <1>5, <2>1 DEF Aligned
    <2>2. CASE d = Ctr!Advance(c, now)
      BY <1>3, <1>4, <1>5, <2>2, AdvanceCovers, CounterSlides DEF Aligned
    <2> QED
      BY <1>2, <2>1, <2>2
  <1>7. Weights' = Weights /\ \A e : BegunAt(e)' = BegunAt(e)
    BY DEF Weights, BegunAt
  <1>8. Covers(st.ctr)'
    <2>1. /\ Total(Weights, BegunAt(Ctr!End(d)))'
               = Total(Weights, BegunAt(Ctr!End(d)))
          /\ Total(Weights, BegunAt(Ctr!End(d) - d.width))'
               = Total(Weights, BegunAt(Ctr!End(d) - d.width))
      BY <1>7
    <2>2. Covers(d)'
      BY <1>6, <2>1 DEF Covers
    <2> QED
      BY <1>2, <2>2 DEF Covers, BegunAt
  <1>9. Reached(st.ctr)'
    <2>1. d.init /\ ~Rewound' => Ctr!End(d) <= now'
      BY <1>5, <1>6 DEF Reached
    <2> QED
      BY <1>2, <2>1 DEF Reached
  <1>10. ASSUME NEW j \in DOMAIN slots'
         PROVE  Weighed(st.ctr, j)' /\ InPlace(st.ctr, j)'
    <2>1. Weighed(c, j) /\ InPlace(c, j) /\ slots'[j] = slots[j] /\ calls'[j].at = calls[j].at
      BY <1>4
    <2>2. PICK y, z : y = slots[j] /\ z = calls[j].at
      OBVIOUS
    <2>3. /\ BegunAt(y)' = BegunAt(y)
          /\ BegunAt(y - c.width)' = BegunAt(y - c.width)
      BY <1>7
    <2>4. d.width * Total(Weights', {i \in BegunAt(y)' : i <= j})
            + (d.width - MaxI(z - y, 0))
                * Total(Weights', {i \in BegunAt(y - d.width)' : i <= j})
            <= d.limit * d.width
      BY <1>6, <1>7, <2>1, <2>2, <2>3 DEF Weighed
    <2>5. Weighed(st.ctr, j)'
      BY <1>2, <2>1, <2>2, <2>4 DEF Weighed, BegunAt
    <2>6. Ctr!BucketStart(d, z) = Ctr!BucketStart(c, z)
      BY <1>6 DEF Ctr!BucketStart
    <2>7. InPlace(st.ctr, j)'
      BY <1>2, <2>1, <2>2, <2>6 DEF InPlace
    <2> QED
      BY <2>5, <2>7
  <1> QED
    BY <1>8, <1>9, <1>10

\* The sum a grant was measured by bounds the one told from the calls.
LEMMA WeightsFit ==
  ASSUME NEW w \in Nat, NEW v \in Nat, NEW x \in Nat, NEW y \in Nat, NEW n \in Nat,
         NEW p \in Nat, NEW q \in Nat, NEW k \in Nat,
         x <= p, y <= q, q * v + p * w + (n - k) * w <= 0
  PROVE  w * (x + n) + v * y <= k * w
  <1>1. w * x <= w * p /\ v * y <= v * q
    BY ProductGrows
  <1>2. /\ w * (x + n) = w * x + w * n /\ q * v = v * q /\ p * w = w * p
        /\ (n - k) * w = w * n - k * w
    OBVIOUS
  <1>3. w * x \in Int /\ w * p \in Int /\ v * y \in Int /\ v * q \in Int
        /\ w * n \in Int /\ k * w \in Int
    OBVIOUS
  <1> QED
    BY <1>1, <1>2, <1>3

\* A grant is counted in the newest bucket, and it was weighed.
LEMMA CounterGrows ==
  ASSUME IInv, CounterStory, NEW n \in 1..MaxN, Records(n), stolen' = stolen,
         Rewound' <=> Rewound, now' = now, st.ctr # NIL, st'.ctr # NIL,
         Ctr!Allow(st.ctr, n, now).out = "ok", st'.ctr = Ctr!Allow(st.ctr, n, now).st,
         slots' = Slotted(st')
  PROVE  CounterStory'
  <1>1. SUFFICES ASSUME ~stolen
                 PROVE  /\ Covers(st.ctr)' /\ Reached(st.ctr)'
                        /\ \A j \in DOMAIN slots' : Weighed(st.ctr, j)' /\ InPlace(st.ctr, j)'
    BY DEF CounterStory
  <1>2. /\ Covers(st.ctr) /\ Reached(st.ctr)
        /\ \A j \in DOMAIN slots : Weighed(st.ctr, j) /\ InPlace(st.ctr, j)
    BY <1>1 DEF CounterStory
  <1>3. PICK c, a, d, b, k, w, m, x, e, D :
          /\ c = st.ctr /\ a = Ctr!Advance(c, now) /\ d = st'.ctr
          /\ b = Ctr!BucketStart(c, now) /\ k = c.buckets /\ w = c.width
          /\ m = Len(calls) /\ x = m + 1 /\ e = Ctr!End(a) /\ D = DOMAIN slots
    OBVIOUS
  <1>4. c \in Counters /\ now \in Nat /\ n \in Nat \ {0} /\ n \in Nat /\ m \in Nat
    BY <1>3, GoodFields, UnitsFit, CallFields DEF IInv, Shape, Clocks
  <1>5. c.init => Aligned(c)
    BY <1>2, <1>3 DEF Covers
  <1>6. /\ a \in Counters /\ a.init /\ a.width = w /\ a.buckets = k /\ a.limit = c.limit
        /\ b <= e /\ e \in Int /\ Aligned(a)
    BY <1>3, <1>4, <1>5, CounterSlides DEF Aligned
  <1>7. Covers(a) /\ (~Rewound => e <= now)
    <2>1. Covers(a) /\ Reached(a)
      BY <1>2, <1>3, <1>4, AdvanceCovers
    <2> QED
      BY <1>3, <1>6, <2>1 DEF Reached
  <1>8. PICK f : f = [a.counts EXCEPT ![k] = a.counts[k] + n]
    OBVIOUS
  <1>9. PICK z : z = w - MaxI(now - e, 0)
    OBVIOUS
  <1>10. /\ d = [a EXCEPT !.counts = f]
         /\ a.counts[k - 1] * z + a.counts[k] * w + (n - c.limit) * w <= 0
    <2>1. LET r == Ctr!Allow(c, n, now)
              A == Ctr!Advance(c, now)
              K == c.buckets
              W == c.width
              late == MaxI(now - Ctr!End(A), 0)
          IN r.out = "ok" =>
               /\ r.st = [A EXCEPT !.counts = [A.counts EXCEPT ![K] = A.counts[K] + n]]
               /\ A.counts[K - 1] * (W - late) + A.counts[K] * W + (n - c.limit) * W <= 0
      BY <1>4, <1>5, CounterDecides
    <2> QED
      BY <1>3, <1>8, <1>9, <2>1
  <1>11. PICK p, q : p = a.counts[k] /\ q = a.counts[k - 1]
    OBVIOUS
  <1>12. /\ w \in Nat /\ w >= 1 /\ k \in Nat /\ k >= 2 /\ p \in Nat /\ q \in Nat
         /\ c.limit \in Nat /\ b \in Nat /\ b <= now /\ now < b + w
    <2>1. /\ w \in Nat /\ w >= 1 /\ k \in Nat /\ k >= 2 /\ c.limit \in Nat
      BY <1>3, <1>4 DEF Counters, Ctr!States
    <2>2. a.counts \in Seq(Nat) /\ Len(a.counts) = k
      BY <1>6 DEF Counters, Ctr!States
    <2>3. p \in Nat /\ q \in Nat
      BY <1>11, <2>1, <2>2
    <2> QED
      BY <1>3, <1>4, <2>1, <2>3, StartOf
  <1>13. z \in Nat
    BY <1>4, <1>6, <1>9, <1>12 DEF MaxI
  <1>14. /\ d.init /\ d.width = w /\ d.buckets = k /\ d.limit = c.limit
         /\ d.counts[k] = p + n /\ d.counts[k - 1] = q
         /\ Ctr!End(d) = e /\ Aligned(d)
    <2>1. a = [size |-> a.size, limit |-> a.limit, buckets |-> k, width |-> w,
               counts |-> a.counts, start |-> a.start, init |-> a.init]
          /\ a.counts \in Seq(Nat) /\ Len(a.counts) = k
      BY <1>6 DEF Counters, Ctr!States
    <2>2. /\ d.init /\ d.width = w /\ d.buckets = k /\ d.limit = c.limit
          /\ d.counts = f /\ d.start = a.start
      BY <1>6, <1>10, <2>1
    <2>3. f[k] = p + n /\ f[k - 1] = q
      <3>1. PICK g : g = a.counts
        OBVIOUS
      <3>2. g \in [1..k -> Nat]
        BY <2>1, <3>1
      <3>3. k \in 1..k /\ k - 1 \in 1..k /\ k - 1 # k
        BY <1>12
      <3>4. f[k] = g[k] + n /\ f[k - 1] = g[k - 1]
        BY <1>8, <3>1, <3>2, <3>3
      <3> QED
        BY <1>11, <3>1, <3>4
    <2>4. Ctr!End(d) = Ctr!End(a)
      BY <1>6, <2>2 DEF Ctr!End
    <2> QED
      BY <1>3, <1>6, <2>2, <2>3, <2>4 DEF Aligned
  <1>15. /\ x \notin 1..m
         /\ \A S \in SUBSET (1..m) :
              /\ Total(Weights, S) \in Nat
              /\ Total(Weights', S) = Total(Weights, S)
              /\ Total(Weights', S \cup {x}) = Total(Weights, S) + n
    BY <1>3, HistoryMore
  <1>16. /\ \A i \in 1..m : calls'[i] = calls[i]
         /\ calls'[x].at = now
    BY <1>3, GrantFacts
  <1>17. /\ DOMAIN slots' = D \cup {x} /\ D \subseteq 1..m /\ x \notin D
         /\ \A j \in D : slots'[j] = slots[j] /\ slots[j] \in Int
         /\ slots'[x] = e
    <2>1. D \subseteq 1..m /\ \A j \in D : slots[j] \in Int
      BY <1>3, SlotFields
    <2>2. slots' = [j \in D \cup {x} |-> IF j \in D THEN slots[j] ELSE e]
      BY <1>3, <1>14 DEF Slotted
    <2> QED
      BY <1>15, <2>1, <2>2
  <1>18. \A y : /\ BegunAt(y)' = IF y = e THEN BegunAt(y) \cup {x} ELSE BegunAt(y)
                /\ BegunAt(y) \in SUBSET (1..m)
    BY <1>3, <1>17 DEF BegunAt
  <1>19. PICK X, Y : X = BegunAt(e) /\ Y = BegunAt(e - w)
    OBVIOUS
  <1>20. X \in SUBSET (1..m) /\ Y \in SUBSET (1..m)
    BY <1>18, <1>19
  <1>21. BegunAt(e)' = X \cup {x} /\ BegunAt(e - w)' = Y
    <2>1. e - w # e
      BY <1>6, <1>12
    <2> QED
      BY <1>18, <1>19, <2>1
  <1>22. PICK u, v : u = Total(Weights, X) /\ v = Total(Weights, Y)
    OBVIOUS
  <1>23. /\ u \in Nat /\ v \in Nat /\ u <= p /\ v <= q
         /\ Total(Weights', X \cup {x}) = u + n /\ Total(Weights', Y) = v
    <2>1. u <= p /\ v <= q
      BY <1>3, <1>6, <1>7, <1>11, <1>19, <1>22 DEF Covers
    <2> QED
      BY <1>15, <1>20, <1>22, <2>1
  <1>24. Covers(st.ctr)'
    <2>1. \A i \in DOMAIN slots' : slots'[i] <= e
      <3>1. \A i \in D : slots[i] <= e
        BY <1>3, <1>6, <1>7 DEF Covers
      <3>2. e <= e
        BY <1>6
      <3> QED
        BY <1>17, <3>1, <3>2
    <2>2. u + n <= p + n
      BY <1>4, <1>12, <1>23
    <2>3. /\ Total(Weights', BegunAt(e)') <= d.counts[d.buckets]
          /\ Total(Weights', BegunAt(e - w)') <= d.counts[d.buckets - 1]
      BY <1>14, <1>21, <1>23, <2>2
    <2> QED
      BY <1>3, <1>14, <2>1, <2>3 DEF Covers, BegunAt
  <1>25. Reached(st.ctr)'
    BY <1>3, <1>7, <1>14 DEF Reached
  <1>26. ASSUME NEW j \in DOMAIN slots'
         PROVE  Weighed(st.ctr, j)' /\ InPlace(st.ctr, j)'
    <2>1. CASE j = x
      <3>1. /\ {i \in X \cup {x} : i <= x} = X \cup {x}
            /\ {i \in Y : i <= x} = Y
        <4>1. \A i \in 1..m : i <= x
          BY <1>3, <1>4
        <4>2. x <= x
          BY <1>3, <1>4
        <4> QED
          BY <1>20, <4>1, <4>2
      <3>2. q * z + p * w + (n - c.limit) * w <= 0
        BY <1>10, <1>11
      <3>3. w * (u + n) + z * v <= c.limit * w
        BY <1>4, <1>12, <1>13, <1>23, <3>2, WeightsFit
      <3>4. d.width * Total(Weights', {i \in BegunAt(e)' : i <= x})
              + (d.width - MaxI(now - e, 0))
                  * Total(Weights', {i \in BegunAt(e - d.width)' : i <= x})
              <= d.limit * d.width
        BY <1>9, <1>14, <1>21, <1>23, <3>1, <3>3
      <3>5. Weighed(st.ctr, j)'
        BY <1>3, <1>16, <1>17, <2>1, <3>4 DEF Weighed, BegunAt
      <3>6. Ctr!BucketStart(d, now) = b
        BY <1>3, <1>14 DEF Ctr!BucketStart
      <3>7. b = e \/ Rewound
        <4>1. Ctr!BucketStart(a, now) = b
          BY <1>3, <1>6 DEF Ctr!BucketStart
        <4> QED
          BY <1>3, <1>4, <1>6, <1>7, <4>1, AlignedHere
      <3>8. InPlace(st.ctr, j)'
        BY <1>3, <1>6, <1>16, <1>17, <2>1, <3>6, <3>7 DEF InPlace
      <3> QED
        BY <3>5, <3>8
    <2>2. CASE j # x
      <3>1. j \in D /\ j \in 1..m /\ ~(x <= j)
        BY <1>3, <1>4, <1>17, <2>2
      <3>2. PICK y, h : y = slots[j] /\ h = calls[j].at
        OBVIOUS
      <3>3. slots'[j] = y /\ calls'[j].at = h
        BY <1>16, <1>17, <3>1, <3>2
      <3>4. ASSUME NEW s
            PROVE  Total(Weights', {i \in BegunAt(s)' : i <= j})
                     = Total(Weights, {i \in BegunAt(s) : i <= j})
        <4>1. {i \in BegunAt(s)' : i <= j} = {i \in BegunAt(s) : i <= j}
          BY <1>18, <3>1
        <4>2. {i \in BegunAt(s) : i <= j} \in SUBSET (1..m)
          BY <1>18
        <4> QED
          BY <1>15, <4>1, <4>2
      <3>5. Weighed(c, j) /\ InPlace(c, j)
        BY <1>2, <1>3, <3>1
      <3>6. /\ Total(Weights', {i \in BegunAt(y)' : i <= j})
                 = Total(Weights, {i \in BegunAt(y) : i <= j})
            /\ Total(Weights', {i \in BegunAt(y - w)' : i <= j})
                 = Total(Weights, {i \in BegunAt(y - w) : i <= j})
        BY <3>4
      <3>7. d.width * Total(Weights', {i \in BegunAt(y)' : i <= j})
              + (d.width - MaxI(h - y, 0))
                  * Total(Weights', {i \in BegunAt(y - d.width)' : i <= j})
              <= d.limit * d.width
        BY <1>3, <1>14, <3>2, <3>5, <3>6 DEF Weighed
      <3>8. Weighed(st.ctr, j)'
        BY <1>3, <3>3, <3>7 DEF Weighed, BegunAt
      <3>9. Ctr!BucketStart(d, h) = Ctr!BucketStart(c, h)
        BY <1>3, <1>14 DEF Ctr!BucketStart
      <3>10. InPlace(st.ctr, j)'
        BY <1>3, <3>2, <3>3, <3>5, <3>9 DEF InPlace
      <3> QED
        BY <3>8, <3>10
    <2> QED
      BY <2>1, <2>2
  <1> QED
    BY <1>24, <1>25, <1>26

\* A cancellation that steals from nobody takes out of the newest bucket what
\* that call put in, or what is not there, and then the call weighs on.
LEMMA CounterFrees ==
  ASSUME IInv, CounterStory, NEW i \in 1..Len(calls), Cancel(i)
  PROVE  CounterStory'
  <1>1. SUFFICES ASSUME st'.ctr # NIL, ~stolen'
                 PROVE  /\ Covers(st.ctr)' /\ Reached(st.ctr)'
                        /\ \A j \in DOMAIN slots' : Weighed(st.ctr, j)' /\ InPlace(st.ctr, j)'
    BY DEF CounterStory
  <1>2. /\ st \in GoodStates /\ calls[i].n \in Nat \ {0} /\ now \in Nat
    BY CallFields, UnitsFit DEF IInv, Shape, Clocks
  <1>3. /\ st' = Restore(st, calls[i].n, now) /\ ~stolen /\ ~Steals(i) /\ now' = now
        /\ slots' = Freed(i) /\ (Rewound' <=> Rewound)
    BY <1>1 DEF Cancel, Rewound
  <1>4. st.ctr # NIL /\ st'.ctr = Ctr!Restore(st.ctr, calls[i].n)
    <2>1. st'.ctr = IF st.ctr = NIL THEN NIL ELSE Ctr!Restore(st.ctr, calls[i].n)
      BY <1>2, <1>3, RestoreIs
    <2> QED
      BY <1>1, <2>1
  <1>5. /\ Covers(st.ctr) /\ Reached(st.ctr)
        /\ \A j \in DOMAIN slots : Weighed(st.ctr, j) /\ InPlace(st.ctr, j)
    BY <1>3, <1>4 DEF CounterStory
  <1>6. PICK c, d, e, k, w, n, m, D :
          /\ c = st.ctr /\ d = st'.ctr /\ e = Ctr!End(c) /\ k = c.buckets /\ w = c.width
          /\ n = calls[i].n /\ m = Len(calls) /\ D = DOMAIN slots
    OBVIOUS
  <1>7. c \in Counters
    BY <1>2, <1>4, <1>6, GoodFields
  <1>8. PICK p, q, r : p = c.counts[k] /\ q = c.counts[k - 1] /\ r = MaxI(p - n, 0)
    OBVIOUS
  <1>9. PICK g, f : g = c.counts /\ f = [g EXCEPT ![k] = r]
    OBVIOUS
  <1>10. /\ w \in Nat /\ k \in Nat /\ k >= 2 /\ p \in Nat /\ q \in Nat /\ n \in Nat
         /\ n >= 1 /\ m \in Nat /\ i \in 1..m /\ c.limit \in Nat /\ c.init \in BOOLEAN
         /\ g \in [1..k -> Nat] /\ k \in 1..k /\ k - 1 \in 1..k /\ k - 1 # k
    <2>1. /\ w \in Nat /\ k \in Nat /\ k >= 2 /\ c.limit \in Nat /\ c.init \in BOOLEAN
      BY <1>6, <1>7 DEF Counters, Ctr!States
    <2>2. g \in [1..k -> Nat]
      <3>1. g \in Seq(Nat) /\ Len(g) = k
        BY <1>6, <1>7, <1>9 DEF Counters, Ctr!States
      <3> QED
        BY <3>1
    <2>3. k \in 1..k /\ k - 1 \in 1..k /\ k - 1 # k
      BY <2>1
    <2>4. p \in Nat /\ q \in Nat
      BY <1>8, <1>9, <2>2, <2>3
    <2>5. m \in Nat
      BY <1>6, CallFields
    <2> QED
      BY <1>2, <1>6, <2>1, <2>2, <2>3, <2>4, <2>5
  <1>11. /\ d.init = c.init /\ d.width = w /\ d.buckets = k /\ d.limit = c.limit
         /\ d.counts[k] = r /\ d.counts[k - 1] = q /\ Ctr!End(d) = e
    <2>1. c = [size |-> c.size, limit |-> c.limit, buckets |-> k, width |-> w,
               counts |-> g, start |-> c.start, init |-> c.init]
      BY <1>6, <1>7, <1>9 DEF Counters, Ctr!States
    <2>2. ~(n <= 0) /\ r = Ctr!MaxI(p - n, 0)
      BY <1>8, <1>10 DEF Ctr!MaxI, MaxI
    <2>3. d = [c EXCEPT !.counts = f]
      BY <1>4, <1>6, <1>8, <1>9, <2>2 DEF Ctr!Restore
    <2>4. /\ d.init = c.init /\ d.width = w /\ d.buckets = k /\ d.limit = c.limit
          /\ d.counts = f /\ d.start = c.start
      BY <2>1, <2>3
    <2>5. f[k] = r /\ f[k - 1] = g[k - 1]
      BY <1>9, <1>10
    <2>6. Ctr!End(d) = e
      BY <1>6, <2>4 DEF Ctr!End
    <2> QED
      BY <1>8, <1>9, <2>4, <2>5, <2>6
  <1>12. /\ Weights' = Weights
         /\ \A j \in 1..m : calls'[j].at = calls[j].at
         /\ \A S \in SUBSET (1..m) :
              /\ Total(Weights, S) \in Nat
              /\ i \in S => Total(Weights, S) = Total(Weights, S \ {i}) + n
    BY <1>6, HistoryLess, CancelMarks
  <1>13. PICK I : I = IF InNewest(i) THEN {i} ELSE {}
    OBVIOUS
  <1>14. /\ DOMAIN slots' = D \ I /\ D \in SUBSET (1..m)
         /\ \A j \in D \ I : slots'[j] = slots[j]
         /\ \A j \in D : slots[j] \in Int
    <2>1. D \in SUBSET (1..m) /\ \A j \in D : slots[j] \in Int
      BY <1>6, SlotFields
    <2>2. slots' = [j \in D \ I |-> slots[j]]
      <3>1. CASE InNewest(i)
        BY <1>3, <1>4, <1>6, <1>13, <3>1 DEF Freed
      <3>2. CASE ~InNewest(i)
        <4>1. slots' = slots /\ D \ I = D
          BY <1>3, <1>13, <3>2 DEF Freed
        <4>2. slots \in [D -> Int]
          BY <1>6, SlotFields
        <4> QED
          BY <4>1, <4>2
      <3> QED
        BY <3>1, <3>2
    <2> QED
      BY <2>1, <2>2
  <1>15. \A x : BegunAt(x)' = BegunAt(x) \ I /\ BegunAt(x) \in SUBSET (1..m)
    BY <1>6, <1>14 DEF BegunAt
  <1>16. ASSUME NEW S \in SUBSET (1..m)
         PROVE  /\ Total(Weights, S) \in Nat /\ Total(Weights, S \ I) \in Nat
                /\ Total(Weights, S \ I) <= Total(Weights, S)
                /\ i \in S /\ InNewest(i) => Total(Weights, S) = Total(Weights, S \ I) + n
    <2>1. S \ I \in SUBSET (1..m)
      OBVIOUS
    <2>2. Total(Weights, S) \in Nat /\ Total(Weights, S \ I) \in Nat
      BY <1>12, <2>1
    <2>3. CASE i \in S /\ InNewest(i)
      <3>1. PICK x, y : x = Total(Weights, S) /\ y = Total(Weights, S \ I)
        OBVIOUS
      <3>2. x = y + n
        BY <1>12, <1>13, <2>3, <3>1
      <3>3. y <= x
        BY <1>10, <2>2, <3>1, <3>2
      <3> QED
        BY <2>2, <3>1, <3>2, <3>3
    <2>4. CASE ~(i \in S /\ InNewest(i))
      <3>1. S \ I = S
        BY <1>13, <2>4
      <3>2. Total(Weights, S) <= Total(Weights, S)
        BY <2>2
      <3> QED
        BY <2>2, <2>4, <3>1, <3>2
    <2> QED
      BY <2>3, <2>4
  <1>17. Covers(st.ctr)'
    <2>1. CASE ~c.init
      <3>1. D = {}
        BY <1>5, <1>6, <2>1 DEF Covers
      <3>2. DOMAIN slots' = {} /\ ~d.init
        BY <1>11, <1>14, <2>1, <3>1
      <3> QED
        BY <1>6, <3>2 DEF Covers
    <2>2. CASE c.init
      <3>1. /\ Aligned(c) /\ \A j \in D : slots[j] <= e
            /\ Total(Weights, BegunAt(e)) <= p
            /\ Total(Weights, BegunAt(e - w)) <= q
        BY <1>5, <1>6, <1>8, <2>2 DEF Covers
      <3>2. PICK X, Y : X = BegunAt(e) /\ Y = BegunAt(e - w)
        OBVIOUS
      <3>3. PICK u, v, x, y : /\ u = Total(Weights, X \ I) /\ v = Total(Weights, Y \ I)
                              /\ x = Total(Weights, X) /\ y = Total(Weights, Y)
        OBVIOUS
      <3>4. X \in SUBSET (1..m) /\ Y \in SUBSET (1..m)
        BY <1>15, <3>2
      <3>5. /\ u \in Nat /\ v \in Nat /\ x \in Nat /\ y \in Nat
            /\ u <= x /\ v <= y /\ x <= p /\ y <= q
        BY <1>16, <3>1, <3>2, <3>3, <3>4
      <3>6. v <= q
        BY <1>10, <3>5
      <3>7. u <= r
        <4>1. CASE InNewest(i)
          <5>1. i \in X
            BY <1>6, <3>2, <4>1 DEF InNewest, BegunAt
          <5>2. x = u + n
            BY <1>16, <3>3, <3>4, <4>1, <5>1
          <5> QED
            BY SMTT(30), <1>8, <1>10, <3>5, <5>2 DEF MaxI
        <4>2. CASE ~InNewest(i)
          <5>1. ~(p > 0)
            BY <1>3, <1>4, <1>6, <1>8, <4>2 DEF Steals
          <5> QED
            BY SMTT(30), <1>8, <1>10, <3>5, <5>1 DEF MaxI
        <4> QED
          BY <4>1, <4>2
      <3>8. BegunAt(e)' = X \ I /\ BegunAt(e - w)' = Y \ I
        BY <1>15, <3>2
      <3>9. /\ Total(Weights', BegunAt(e)') <= d.counts[d.buckets]
            /\ Total(Weights', BegunAt(e - w)') <= d.counts[d.buckets - 1]
        BY <1>11, <1>12, <3>3, <3>6, <3>7, <3>8
      <3>10. Aligned(d)
        BY <1>6, <1>11, <3>1 DEF Aligned
      <3>11. \A j \in DOMAIN slots' : slots'[j] <= e
        BY <1>14, <3>1
      <3> QED
        BY <1>6, <1>11, <2>2, <3>9, <3>10, <3>11 DEF Covers, BegunAt
    <2> QED
      BY <2>1, <2>2
  <1>18. Reached(st.ctr)'
    BY <1>3, <1>5, <1>6, <1>11 DEF Reached
  <1>19. ASSUME NEW j \in DOMAIN slots'
         PROVE  Weighed(st.ctr, j)' /\ InPlace(st.ctr, j)'
    <2>1. PICK y, h, z : /\ y = slots[j] /\ h = calls[j].at
                         /\ z = w - MaxI(h - y, 0)
      OBVIOUS
    <2>2. /\ j \in D /\ j \in 1..m /\ slots'[j] = y /\ calls'[j].at = h
          /\ y \in Int /\ h \in Nat
      <3>1. j \in D /\ j \in 1..m /\ slots'[j] = slots[j] /\ slots[j] \in Int
        BY <1>14
      <3> QED
        BY <1>6, <1>12, <2>1, <3>1, CallFields
    <2>3. Weighed(c, j) /\ InPlace(c, j)
      BY <1>5, <1>6, <2>2
    <2>4. z \in Nat
      <3>1. PICK b : b = Ctr!BucketStart(c, h)
        OBVIOUS
      <3>2. b \in Nat /\ b <= h /\ h < b + w /\ y >= b
        BY <1>6, <1>7, <2>1, <2>2, <2>3, <3>1, StartOf DEF InPlace
      <3> QED
        BY SMTT(30), <1>10, <2>1, <2>2, <3>2 DEF MaxI
    <2>5. PICK X, Y : /\ X = {l \in BegunAt(y) : l <= j}
                      /\ Y = {l \in BegunAt(y - w) : l <= j}
      OBVIOUS
    <2>6. X \in SUBSET (1..m) /\ Y \in SUBSET (1..m)
      BY <1>15, <2>5
    <2>7. /\ {l \in BegunAt(y)' : l <= j} = X \ I
          /\ {l \in BegunAt(y - w)' : l <= j} = Y \ I
      BY <1>15, <2>5
    <2>8. PICK x, u, t, v : /\ x = Total(Weights, X) /\ u = Total(Weights, X \ I)
                            /\ t = Total(Weights, Y) /\ v = Total(Weights, Y \ I)
      OBVIOUS
    <2>9. x \in Nat /\ u \in Nat /\ t \in Nat /\ v \in Nat /\ u <= x /\ v <= t
      BY <1>16, <2>6, <2>8
    <2>10. w * x + z * t <= c.limit * w
      BY <1>6, <2>1, <2>3, <2>5, <2>8 DEF Weighed
    <2>11. w * u + z * v <= c.limit * w
      <3>1. w * u <= w * x /\ z * v <= z * t
        BY <1>10, <2>4, <2>9, ProductGrows
      <3>2. /\ w * u \in Int /\ w * x \in Int /\ z * v \in Int /\ z * t \in Int
            /\ c.limit * w \in Int
        BY <1>10, <2>4, <2>9
      <3> QED
        BY <2>10, <3>1, <3>2
    <2>12. d.width * Total(Weights', {l \in BegunAt(y)' : l <= j})
             + (d.width - MaxI(h - y, 0))
                 * Total(Weights', {l \in BegunAt(y - d.width)' : l <= j})
             <= d.limit * d.width
      BY <1>11, <1>12, <2>1, <2>7, <2>8, <2>11
    <2>13. Weighed(st.ctr, j)'
      BY <1>6, <2>2, <2>12 DEF Weighed, BegunAt
    <2>14. Ctr!BucketStart(d, h) = Ctr!BucketStart(c, h)
      BY <1>6, <1>11 DEF Ctr!BucketStart
    <2>15. InPlace(st.ctr, j)'
      BY <1>3, <1>6, <2>1, <2>2, <2>3, <2>14 DEF InPlace
    <2> QED
      BY <2>13, <2>15
  <1> QED
    BY <1>17, <1>18, <1>19

\* A call that is refused, or only asked about, moves the buckets up to the
\* clock or not at all.
LEMMA CounterTried ==
  ASSUME IInv, CounterStory, NEW n \in Nat \ {0}, st.ctr # NIL, slots' = slots,
         calls' = calls, stolen' = stolen, now' = now, Rewound' <=> Rewound,
         LET r == Ctr!Allow(st.ctr, n, now) IN
           \/ st'.ctr = st.ctr
           \/ r.out # "ok" /\ st'.ctr = r.st
           \/ st'.ctr = Ctr!Peek(st.ctr, n, now).st
  PROVE  CounterStory'
  <1>1. now \in Nat /\ now <= now'
    BY DEF IInv, Clocks
  <1>2. CASE stolen
    BY <1>2 DEF CounterStory
  <1>3. CASE ~stolen
    <2>1. st.ctr \in Counters /\ Covers(st.ctr)
      BY <1>3, GoodFields DEF IInv, Shape, CounterStory
    <2>2. st.ctr.init => Aligned(st.ctr)
      BY <2>1 DEF Covers
    <2>3. st'.ctr = st.ctr \/ st'.ctr = Ctr!Advance(st.ctr, now)
      BY ZenonT(60), <1>1, <2>1, <2>2, CounterDecides
    <2> QED
      BY <1>1, <2>3, CounterStays
  <1> QED
    BY <1>2, <1>3

\* Every step keeps the story of the counter.
LEMMA CounterNext ==
  ASSUME IInv, CounterStory, Forward, [Next]_vars
  PROVE  CounterStory' /\ Forward'
  <1>1. now \in Nat /\ t0 \in Nat /\ fwd \in Nat /\ st \in GoodStates
    BY DEF IInv, Clocks, Shape
  <1>2. ASSUME NEW n \in 1..MaxN, AllowN(n)
        PROVE  CounterStory' /\ Forward'
    <2>1. /\ st' = Allow(st, n, now).st
          /\ now' = now /\ t0' = t0 /\ fwd' = fwd /\ stolen' = stolen
          /\ n \in Nat \ {0} /\ n \in 1..MaxTokens
      BY <1>2, UnitsFit DEF AllowN
    <2>2. Forward' /\ (Rewound' <=> Rewound)
      BY <2>1 DEF Forward, Rewound
    <2>3. /\ Allow(st, n, now).out = "ok" =>
               (st.ctr # NIL => /\ Ctr!Allow(st.ctr, n, now).out = "ok"
                                /\ st'.ctr = Ctr!Allow(st.ctr, n, now).st)
          /\ Allow(st, n, now).out # "ok" =>
               \/ st'.ctr = st.ctr
               \/ /\ Ctr!Allow(st.ctr, n, now).out # "ok"
                  /\ st'.ctr = Ctr!Allow(st.ctr, n, now).st
      BY <1>1, <2>1, MeterFits, AllowGates
    <2>4. (st'.ctr # NIL <=> st.ctr # NIL) /\ st' \in GoodStates
      BY <1>1, <2>1, MeterFits, AllowEffect DEF Effect, SameGates
    <2>5. CASE st.ctr = NIL
      BY <2>2, <2>4, <2>5 DEF CounterStory
    <2>6. CASE /\ st.ctr # NIL /\ Allow(st, n, now).out = "ok" /\ Records(n)
               /\ slots' = Slotted(st')
      BY <2>1, <2>2, <2>3, <2>4, <2>6, CounterGrows
    <2>7. CASE /\ st.ctr # NIL /\ Allow(st, n, now).out # "ok" /\ calls' = calls
               /\ slots' = slots
      BY <2>1, <2>2, <2>3, <2>7, CounterTried
    <2>8. \/ /\ Allow(st, n, now).out = "ok" /\ Records(n) /\ slots' = Slotted(st')
          \/ /\ Allow(st, n, now).out # "ok" /\ calls' = calls /\ slots' = slots
      BY <1>2, <2>1 DEF AllowN, Records
    <2> QED
      BY <2>2, <2>5, <2>6, <2>7, <2>8
  <1>3. CASE PeekKey
    <2>1. 1 \in 1..MaxTokens /\ 1 \in Nat \ {0}
      BY ScaleAssumption
    <2>2. /\ st' = Peek(st, 1, now).st /\ calls' = calls /\ stolen' = stolen
          /\ now' = now /\ t0' = t0 /\ fwd' = fwd /\ slots' = slots
      BY <1>3 DEF PeekKey
    <2>3. Forward' /\ (Rewound' <=> Rewound)
      BY <2>2 DEF Forward, Rewound
    <2>4. st'.ctr = st.ctr \/ st'.ctr = Ctr!Peek(st.ctr, 1, now).st
      BY <1>1, <2>1, <2>2, PeekGates
    <2>5. st'.ctr # NIL <=> st.ctr # NIL
      BY <1>1, <2>1, <2>2, PeekEffect DEF Effect, SameGates
    <2>6. CASE st.ctr = NIL
      BY <2>3, <2>5, <2>6 DEF CounterStory
    <2>7. CASE st.ctr # NIL
      BY <2>1, <2>2, <2>3, <2>4, <2>7, CounterTried
    <2> QED
      BY <2>3, <2>6, <2>7
  <1>4. ASSUME NEW i \in 1..Len(calls), Cancel(i)
        PROVE  CounterStory' /\ Forward'
    BY <1>4, CounterFrees DEF Cancel, Forward
  <1>5. ASSUME NEW d \in Steps, AdvanceClock(d)
        PROVE  CounterStory' /\ Forward'
    <2>1. /\ d \in Nat /\ now' = now + d /\ fwd' = fwd + d /\ t0' = t0
          /\ st' = st /\ calls' = calls /\ stolen' = stolen /\ slots' = slots
      BY <1>5, BoundsAssumption DEF AdvanceClock
    <2>2. now' \in Nat /\ now <= now' /\ (Rewound' <=> Rewound) /\ Forward'
      BY <1>1, <2>1 DEF Rewound, Forward
    <2> QED
      BY <2>1, <2>2, CounterStays
  <1>6. ASSUME NEW d \in Steps, RewindClock(d)
        PROVE  CounterStory' /\ Forward'
    <2>1. /\ d \in Nat \ {0} /\ now' = now - d /\ now' \in Nat /\ fwd' = fwd /\ t0' = t0
          /\ st' = st /\ calls' = calls /\ stolen' = stolen /\ slots' = slots
      BY <1>1, <1>6, BoundsAssumption DEF RewindClock
    <2>2. Rewound' /\ Forward'
      BY <1>1, <2>1 DEF Rewound, Forward
    <2> QED
      BY <2>1, <2>2, CounterStays
  <1>7. CASE UNCHANGED vars
    <2>1. /\ st' = st /\ calls' = calls /\ stolen' = stolen
          /\ now' = now /\ t0' = t0 /\ fwd' = fwd /\ slots' = slots
      BY <1>7 DEF vars
    <2>2. now' \in Nat /\ now <= now' /\ (Rewound' <=> Rewound) /\ Forward'
      BY <1>1, <2>1 DEF Rewound, Forward
    <2> QED
      BY <2>1, <2>2, CounterStays
  <1> QED
    BY <1>2, <1>3, <1>4, <1>5, <1>6, <1>7 DEF Next

\* counter.go:5: whenever a call was let in, its bucket in full and the one
\* before by what of it had not slid out stayed within the limit, whatever the
\* limit, the buckets, the calls and the clock.  Every admitted call weighs,
\* also one cancelled when its bucket was no longer the newest; only
\* histories are left out in which a cancellation took from the newest bucket
\* what another call had counted there.
THEOREM CounterWeighsHolds == Spec => []CounterWeighs
  <1>1. Init => CounterStory /\ Forward
    <2> SUFFICES ASSUME Init PROVE CounterStory /\ Forward
      OBVIOUS
    <2>1. now \in Nat /\ t0 = now /\ fwd = 0 /\ slots = <<>>
      BY InitHolds DEF IInv, Clocks, Init
    <2>2. Forward
      BY <2>1 DEF Forward
    <2>3. ASSUME st.ctr # NIL
          PROVE  ~st.ctr.init /\ DOMAIN slots = {}
      BY <2>1, <2>3 DEF Init, NewLimiterState, Ctr!NewCounter
    <2> QED
      BY <2>2, <2>3 DEF CounterStory, Covers, Reached
  <1>2. IInv /\ CounterStory => CounterWeighs
    <2> SUFFICES ASSUME IInv, CounterStory, st.ctr # NIL, ~stolen, NEW j \in DOMAIN slots
                 PROVE  LET w == st.ctr.width
                            passed == MaxI(calls[j].at - slots[j], 0)
                            counted(start) == {i \in DOMAIN slots : i <= j /\ slots[i] = start}
                        IN /\ w * Units(counted(slots[j]))
                                + (w - passed) * Units(counted(slots[j] - w))
                                <= st.ctr.limit * w
                           /\ slots[j] >= Ctr!BucketStart(st.ctr, calls[j].at)
                           /\ slots[j] = Ctr!BucketStart(st.ctr, calls[j].at) \/ Rewound
      BY DEF CounterWeighs
    <2>1. Weighed(st.ctr, j) /\ InPlace(st.ctr, j)
      BY DEF CounterStory
    <2>2. ASSUME NEW x
          PROVE  Units({i \in DOMAIN slots : i <= j /\ slots[i] = x})
                   = Total(Weights, {i \in BegunAt(x) : i <= j})
      <3>1. PICK I : I = {i \in DOMAIN slots : i <= j /\ slots[i] = x}
        OBVIOUS
      <3>2. I = {i \in BegunAt(x) : i <= j} /\ I \in SUBSET (1..Len(calls))
        BY <3>1, SlotFields DEF BegunAt
      <3>3. IsFiniteSet(I) /\ \A i \in I : Weights[i] = calls[i].n
        BY <3>2, HistoryType, CallFields
      <3> QED
        BY <3>1, <3>2, <3>3, UnitsTotal
    <2>3. PICK w, y, z : /\ w = st.ctr.width /\ y = slots[j]
                         /\ z = w - MaxI(calls[j].at - slots[j], 0)
      OBVIOUS
    <2>4. w * Total(Weights, {i \in BegunAt(y) : i <= j})
            + z * Total(Weights, {i \in BegunAt(y - w) : i <= j}) <= st.ctr.limit * w
      BY <2>1, <2>3 DEF Weighed
    <2>5. w * Units({i \in DOMAIN slots : i <= j /\ slots[i] = y})
            + z * Units({i \in DOMAIN slots : i <= j /\ slots[i] = y - w})
            <= st.ctr.limit * w
      BY <2>2, <2>4
    <2> QED
      BY <2>1, <2>3, <2>5 DEF InPlace
  <1> QED
    BY <1>1, <1>2, CounterNext, Inductive, PTL DEF Spec

-----------------------------------------------------------------------------
(* The timestamps of a clock that only ran forward are in order.           *)

RingStory ==
  st.log # NIL /\ ~Rewound =>
    /\ Ascending(st.log.ring)
    /\ \A i \in 1..Len(st.log.ring) : st.log.ring[i] <= now

\* A story of the ring that goes on: what it held, pruned or popped, and what
\* was let in at the time of the clock.
LEMMA RingGoesOn ==
  ASSUME IInv, RingStory, Forward, st'.log # NIL, ~Rewound', Rewound' <=> Rewound,
         now' \in Nat, now <= now', st.log # NIL,
         \/ st'.log = st.log
         \/ /\ now' = now
            /\ \E n \in Nat \ {0} :
                 \/ st'.log = Log!Allow(st.log, n, now).st
                 \/ st'.log = Log!Restore(st.log, n)
  PROVE  /\ Ascending(st'.log.ring)
         /\ \A i \in 1..Len(st'.log.ring) : st'.log.ring[i] <= now'
  <1>1. /\ st.log \in Logs /\ now \in Int /\ now \in Nat
        /\ Ascending(st.log.ring) /\ \A i \in 1..Len(st.log.ring) : st.log.ring[i] <= now
    BY GoodFields DEF IInv, Shape, Clocks, RingStory
  <1>2. st.log.ring \in Seq(Int)
    BY <1>1 DEF Logs, Log!States
  <1>3. CASE st'.log = st.log
    <2>1. \A i \in 1..Len(st.log.ring) : st.log.ring[i] \in Int
      BY <1>2
    <2> QED
      BY <1>1, <1>3, <2>1
  <1>4. ASSUME NEW n \in Nat \ {0}, st'.log = Log!Allow(st.log, n, now).st, now' = now
        PROVE  /\ Ascending(st'.log.ring)
               /\ \A i \in 1..Len(st'.log.ring) : st'.log.ring[i] <= now'
    BY <1>1, <1>4, DecisionAscends
  <1>5. ASSUME NEW n \in Nat \ {0}, st'.log = Log!Restore(st.log, n), now' = now
        PROVE  /\ Ascending(st'.log.ring)
               /\ \A i \in 1..Len(st'.log.ring) : st'.log.ring[i] <= now'
    <2>1. PICK ring, m : ring = st.log.ring /\ m = Len(ring) - n
      OBVIOUS
    <2>2. m \in Int /\ m <= Len(ring) /\ 0 \in Int /\ 0 <= 0 /\ 0 + 1 = 1
      BY <1>2, <2>1
    <2>3. st'.log.ring = SubSeq(ring, 0 + 1, m)
      BY <1>1, <1>5, <2>1, <2>2 DEF Log!Restore, Log!PopNewestN, Logs, Log!States
    <2> QED
      BY ZenonT(60), <1>1, <1>2, <1>5, <2>1, <2>2, <2>3, PartAscends
  <1> QED
    BY <1>3, <1>4, <1>5

\* Every step keeps the ring in order, until the clock is set back.
LEMMA RingNext ==
  ASSUME IInv, RingStory, Forward, [Next]_vars
  PROVE  RingStory' /\ Forward'
  <1>1. now \in Nat /\ t0 \in Nat /\ fwd \in Nat /\ st \in GoodStates /\ now <= now
    BY DEF IInv, Clocks, Shape
  <1>2. ASSUME NEW n \in 1..MaxN, AllowN(n)
        PROVE  RingStory' /\ Forward'
    <2>1. /\ st' = Allow(st, n, now).st
          /\ now' = now /\ t0' = t0 /\ fwd' = fwd
          /\ n \in Nat \ {0} /\ n \in 1..MaxTokens
      BY <1>2, UnitsFit DEF AllowN
    <2>2. Forward' /\ (Rewound' <=> Rewound) /\ now' \in Nat /\ now <= now'
      BY <1>1, <2>1 DEF Forward, Rewound
    <2>3. st'.log # NIL <=> st.log # NIL
      BY <1>1, <2>1, MeterFits, AllowEffect DEF Effect, SameGates
    <2>4. st.log # NIL => \/ st'.log = st.log
                          \/ st'.log = Log!Allow(st.log, n, now).st
      BY <1>1, <2>1, MeterFits, AllowGates
    <2> QED
      BY <2>1, <2>2, <2>3, <2>4, RingGoesOn DEF RingStory
  <1>3. CASE PeekKey
    <2>1. 1 \in 1..MaxTokens /\ 1 \in Nat \ {0}
      BY ScaleAssumption
    <2>2. st' = Peek(st, 1, now).st /\ now' = now /\ t0' = t0 /\ fwd' = fwd
      BY <1>3 DEF PeekKey
    <2>3. Forward' /\ (Rewound' <=> Rewound) /\ now' \in Nat /\ now <= now'
      BY <1>1, <2>2 DEF Forward, Rewound
    <2>4. st'.log = st.log
      BY <1>1, <2>1, <2>2, PeekGates
    <2> QED
      BY <2>3, <2>4, RingGoesOn DEF RingStory
  <1>4. ASSUME NEW i \in 1..Len(calls), Cancel(i)
        PROVE  RingStory' /\ Forward'
    <2>1. calls[i].n \in Nat \ {0}
      BY CallFields
    <2>2. /\ st' = Restore(st, calls[i].n, now) /\ now' = now /\ t0' = t0 /\ fwd' = fwd
      BY <1>4 DEF Cancel
    <2>3. Forward' /\ (Rewound' <=> Rewound) /\ now' \in Nat /\ now <= now'
      BY <1>1, <2>2 DEF Forward, Rewound
    <2>4. st'.log = IF st.log = NIL THEN NIL ELSE Log!Restore(st.log, calls[i].n)
      BY <1>1, <2>1, <2>2, RestoreIs
    <2> QED
      BY <2>1, <2>2, <2>3, <2>4, RingGoesOn DEF RingStory
  <1>5. ASSUME NEW d \in Steps, AdvanceClock(d)
        PROVE  RingStory' /\ Forward'
    <2>1. d \in Nat /\ now' = now + d /\ fwd' = fwd + d /\ t0' = t0 /\ st' = st
      BY <1>5, BoundsAssumption DEF AdvanceClock
    <2>2. now' \in Nat /\ now <= now' /\ (Rewound' <=> Rewound) /\ Forward'
      BY <1>1, <2>1 DEF Rewound, Forward
    <2> QED
      BY <2>1, <2>2, RingGoesOn DEF RingStory
  <1>6. ASSUME NEW d \in Steps, RewindClock(d)
        PROVE  RingStory' /\ Forward'
    <2>1. d \in Nat \ {0} /\ now' = now - d /\ fwd' = fwd /\ t0' = t0
      BY <1>6, BoundsAssumption DEF RewindClock
    <2>2. Rewound' /\ Forward'
      BY <1>1, <2>1 DEF Rewound, Forward
    <2> QED
      BY <2>2 DEF RingStory
  <1>7. CASE UNCHANGED vars
    <2>1. st' = st /\ now' = now /\ t0' = t0 /\ fwd' = fwd
      BY <1>7 DEF vars
    <2> QED
      BY <1>1, <2>1 DEF RingStory, Rewound, Forward
  <1> QED
    BY <1>2, <1>3, <1>4, <1>5, <1>6, <1>7 DEF Next

\* An empty ring is in order.
LEMMA RingInit == Init => RingStory /\ Forward
  <1> SUFFICES ASSUME Init PROVE RingStory /\ Forward
    OBVIOUS
  <1>1. now \in Nat /\ t0 = now /\ fwd = 0
    BY InitHolds DEF IInv, Clocks, Init
  <1>2. Forward
    BY <1>1 DEF Forward
  <1>3. ASSUME st.log # NIL
        PROVE  Len(st.log.ring) = 0
    BY <1>3 DEF Init, NewLimiterState, Log!NewLog
  <1> QED
    BY <1>2, <1>3 DEF RingStory, Ascending

\* Events are hidden in the log exactly if some expired one is behind a valid one.
LEMMA HidesIs ==
  ASSUME IInv
  PROVE  Hides <=> st.log # NIL /\ ~Unhidden(st.log.ring, now - st.log.size)
  <1>1. CASE st.log = NIL
    BY <1>1 DEF Hides
  <1>2. CASE st.log # NIL
    <2>1. PICK ring, cut : ring = st.log.ring /\ cut = now - st.log.size
      OBVIOUS
    <2>2. ring \in Seq(Int) /\ cut \in Int
      <3>1. st.log \in Logs /\ now \in Nat
        BY <1>2, GoodFields DEF IInv, Shape, Clocks
      <3> QED
        BY <2>1, <3>1 DEF Logs, Log!States
    <2>3. \A i \in 1..Len(ring) : ring[i] <= cut <=> ~(ring[i] > cut)
      <3>1. \A i \in 1..Len(ring) : ring[i] \in Int
        BY <2>2
      <3> QED
        BY <2>2, <3>1
    <2>4. Hides <=> \E i, j \in 1..Len(ring) : i < j /\ ring[i] > cut /\ ring[j] <= cut
      BY <1>2, <2>1 DEF Hides, Log!Cutoff
    <2>5. Unhidden(ring, cut)
            <=> \A i, j \in 1..Len(ring) : i < j /\ ring[i] > cut => ring[j] > cut
      BY DEF Unhidden
    <2> QED
      BY <1>2, <2>1, <2>3, <2>4, <2>5
  <1> QED
    BY <1>1, <1>2

\* allow.go:28: for every policy, in every state the calls, the cancellations
\* and the clock can lead to, and for any n, Peek gives the verdict, the wait
\* and the reason that Allow would give; except that, where an expired event
\* hides behind a valid one, which takes a clock set back, Allow may refuse by
\* the window whatever Peek says.
THEOREM PeekAgreesHolds == Spec => []PeekAgrees
  <1>1. Init => RingStory /\ Forward
    BY RingInit
  <1>2. IInv /\ RingStory => PeekAgrees
    <2> SUFFICES ASSUME IInv, RingStory
                 PROVE  PeekAgrees
      OBVIOUS
    <2>1. st \in GoodStates /\ now \in Nat
      BY DEF IInv, Shape, Clocks
    <2>2. Hides => Rewound
      <3> SUFFICES ASSUME st.log # NIL, ~Rewound
                   PROVE  Unhidden(st.log.ring, now - st.log.size)
        BY HidesIs
      <3>1. Ascending(st.log.ring)
        BY DEF RingStory
      <3>2. st.log.ring \in Seq(Int) /\ now - st.log.size \in Int
        BY <2>1, GoodFields DEF Logs, Log!States
      <3> QED
        BY <3>1, <3>2, AscendingHidesNone
    <2>3. ASSUME NEW n \in 1..MaxN
          PROVE  \/ AgreeWhy(Peek(st, n, now), Allow(st, n, now))
                 \/ /\ Hides /\ Allow(st, n, now).out = "deny"
                    /\ Allow(st, n, now).reason = "window"
      BY <2>1, HidesIs, UnitsFit, PeekVerdict
    <2> QED
      BY <2>2, <2>3 DEF PeekAgrees, AgreeWhy, Agree
  <1> QED
    BY <1>1, <1>2, RingNext, Inductive, PTL DEF Spec

-----------------------------------------------------------------------------
(* Every suggested wait.                                                   *)

\* Every bucket refills within the longest wait the code suggests, a year
\* (bucket.go:15), and no refill in that time overflows.
WaitsFit ==
  \A s \in Specs :
    s.rate # NIL /\ InferAlgo(s) # "gcra" => Refills(TB!NewState(s.rate, 0))

Timely == st.tb # NIL => Refills(st.tb)

\* A bucket keeps its rate and its burst.
LEMMA TimelyNext ==
  ASSUME IInv, Timely, [Next]_vars
  PROVE  Timely'
  <1>1. \/ st' = st
        \/ \E k \in Int : Effect(st, st', k, now)
    BY EffectNext
  <1>2. SUFFICES ASSUME st'.tb # NIL, NEW k \in Int, Effect(st, st', k, now)
                 PROVE  Refills(st'.tb)
    BY <1>1 DEF Timely
  <1>3. st.tb # NIL /\ Refills(st.tb)
    BY <1>2 DEF Timely, Effect, SameGates
  <1>4. st'.tb = st.tb \/ (st'.tb.rate = st.tb.rate /\ st'.tb.burst = st.tb.burst)
    BY <1>2, <1>3 DEF Effect, Spends
  <1> QED
    BY <1>3, <1>4 DEF Refills

\* allow.go:10: no retry before the suggested wait is over is let in, and with
\* a single gate the retry at its end is, for every policy whose bucket
\* refills within the longest wait.
THEOREM WaitExactHolds ==
  ASSUME WaitsFit
  PROVE  Spec => []WaitExact
  <1>1. Init => RingStory /\ Forward /\ Timely
    <2> SUFFICES ASSUME Init PROVE RingStory /\ Forward /\ Timely
      OBVIOUS
    <2>1. RingStory /\ Forward
      BY RingInit
    <2>2. ASSUME st.tb # NIL
          PROVE  Refills(st.tb)
      <3>1. /\ st.tb = TB!NewState(spec.rate, now) /\ spec.rate # NIL
            /\ InferAlgo(spec) # "gcra" /\ spec \in Specs
        BY <2>2 DEF Init, NewLimiterState
      <3>2. Refills(TB!NewState(spec.rate, 0))
        BY <3>1 DEF WaitsFit
      <3>3. /\ st.tb.rate = TB!NewState(spec.rate, 0).rate
            /\ st.tb.burst = TB!NewState(spec.rate, 0).burst
        BY <3>1 DEF TB!NewState
      <3> QED
        BY <3>2, <3>3 DEF Refills
    <2> QED
      BY <2>1, <2>2 DEF Timely
  <1>2. IInv /\ RingStory /\ Timely => WaitExact
    <2> SUFFICES ASSUME IInv, RingStory, Timely, st.ctr = NIL, st.log # NIL => ~Rewound,
                        NEW n \in 1..MaxN, Allow(st, n, now).out = "deny"
                 PROVE  LET r == Allow(st, n, now) IN
                        /\ \A d \in 0..(r.wait - 1) : ~Admits(r.st, n, now + d)
                        /\ SingleGate => Admits(r.st, n, now + r.wait)
      BY DEF WaitExact
    <2>1. st \in GoodStates /\ now \in Nat /\ n \in 1..MaxTokens
      BY UnitsFit DEF IInv, Shape, Clocks
    <2>2. st.gcra # NIL => Fits(st.gcra, now)
      BY MeterFits
    <2>3. st.log # NIL => Ascending(st.log.ring)
      BY DEF RingStory
    <2>4. SingleGate => OneGate(st)
      BY DEF SingleGate, OneGate, IInv, Shape
    <2>5. st.tb # NIL => Refills(st.tb)
      BY DEF Timely
    <2> QED
      BY <2>1, <2>2, <2>3, <2>4, <2>5, RetryVerdict DEF Admits
  <1> QED
    BY <1>1, <1>2, RingNext, TimelyNext, Inductive, PTL DEF Spec

=============================================================================
