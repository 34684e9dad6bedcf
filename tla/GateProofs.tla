----------------------------- MODULE GateProofs -----------------------------
(***************************************************************************)
(* What one operation of a gate does to its state, and one decision to the *)
(* gates of a key, for every value of the constants: the lemmas under the  *)
(* invariants of Limiter and Engine.                                       *)
(***************************************************************************)
EXTENDS LimiterState, ArithProofs, SequenceTheorems, FiniteSetTheorems

-----------------------------------------------------------------------------
(* The token bucket.                                                       *)

Buckets == {b \in TB!States : b.grains <= b.burst}

\* c is what is left of bucket b when, at time t, it was refilled and then
\* gave away k tokens (took back -k): never more grains than that.
Spends(b, c, k, t) ==
  /\ c \in Buckets
  /\ c.rate = b.rate /\ c.burst = b.burst
  /\ b.rate = 0 \/ b.burst = 0 => c.last = b.last
  /\ ~(b.rate = 0 \/ b.burst = 0) => c.last = t
  /\ Second * (c.grains + Grain * k)
       <= Second * b.grains + b.rate * MaxI(t - b.last, 0)

LEMMA BucketNew ==
  ASSUME NEW cfg \in Rates, cfg.num > 0, cfg.burst >= 1, NEW t \in Int
  PROVE  LET b == TB!NewState(cfg, t) IN
         b \in Buckets /\ b.grains = b.burst /\ b.burst > 0 /\ b.last = t
  <1> DEFINE g == 2 * cfg.num * Grain + cfg.den
  <1>1. g \in Nat /\ 2 * cfg.den \in Nat \ {0}
    BY ScaleAssumption DEF Rates
  <1>2. g \div (2 * cfg.den) \in Nat
    BY <1>1, NatQuotient
  <1>3. TB!GrainsPerSecond(cfg.num, cfg.den) \in Nat
    BY <1>2, MaxI64Fits DEF TB!GrainsPerSecond, TB!MaxI64, MaxI64, TB!MaxI
  <1>4. TB!BurstGrains(cfg.burst) \in Nat /\ TB!BurstGrains(cfg.burst) > 0
    BY ScaleAssumption DEF TB!BurstGrains, TB!Need, TB!MinU64, Rates
  <1> QED
    BY <1>3, <1>4 DEF TB!NewState, TB!States, Buckets

LEMMA BucketRefill ==
  ASSUME NEW b \in Buckets, NEW t \in Int
  PROVE  Spends(b, TB!Refill(b, t), 0, t)
  <1> USE ScaleAssumption
  <1>0. /\ b.grains \in Nat /\ b.rate \in Nat /\ b.burst \in Nat /\ b.last \in Int
        /\ b = [grains |-> b.grains, last |-> b.last, rate |-> b.rate, burst |-> b.burst]
        /\ b.grains <= b.burst
    BY DEF Buckets, TB!States
  <1>1. b.rate * MaxI(t - b.last, 0) \in Nat
    BY <1>0, NatProduct DEF MaxI
  <1>2. CASE TB!Stopped(b)
    BY <1>0, <1>1, <1>2 DEF TB!Stopped, TB!Refill, Spends
  <1>3. CASE ~TB!Stopped(b) /\ t <= b.last
    BY <1>0, <1>1, <1>3 DEF TB!Stopped, TB!Refill, Spends, Buckets, TB!States
  <1>4. CASE ~TB!Stopped(b) /\ t > b.last
    <2> DEFINE e == t - b.last
               add == TB!MulDiv(b.rate, e, Second)
               sum == TB!SaturatingAddU64(b.grains, add)
    <2>1. e \in Nat /\ MaxI(t - b.last, 0) = e
      BY <1>0, <1>4 DEF MaxI
    <2>2. add \in Nat /\ Second * add <= b.rate * e
      BY <1>0, <2>1, MulDivFloor DEF TB!MulDiv, MulDiv
    <2>3. sum \in Nat /\ sum <= b.grains + add
      BY <1>0, <2>2, SaturatingSum
      DEF TB!SaturatingAddU64, SaturatingAddU64, TB!MinU64, MinU64
    <2> DEFINE g == TB!MinU64(b.burst, sum)
    <2>4. g \in Nat /\ g <= b.burst /\ g <= b.grains + add
      BY <1>0, <2>2, <2>3 DEF TB!MinU64
    <2>5. TB!Refill(b, t) = [b EXCEPT !.grains = g, !.last = t]
      BY <1>0, <1>4 DEF TB!Refill
    <2>6. Second * (g + Grain * 0) <= Second * b.grains + b.rate * e
      BY <1>0, <2>1, <2>2, <2>4
    <2> HIDE DEF g, e
    <2> QED
      BY <1>0, <1>4, <2>1, <2>4, <2>5, <2>6
      DEF TB!Stopped, Spends, Buckets, TB!States
  <1> QED
    BY <1>0, <1>2, <1>3, <1>4

\* Spending k and then spending -k at the same instant spends nothing.
LEMMA SpendBack ==
  ASSUME NEW b \in Buckets, NEW c \in Buckets, NEW d \in Buckets,
         NEW k \in Int, NEW t \in Int,
         Spends(b, c, k, t), Spends(c, d, -k, t)
  PROVE  Spends(b, d, 0, t)
  <1> USE ScaleAssumption
  <1>1. /\ b.grains \in Nat /\ b.rate \in Nat /\ b.burst \in Nat /\ b.last \in Int
        /\ c.grains \in Nat /\ c.last \in Int
        /\ d.grains \in Nat /\ d.grains <= d.burst
    BY DEF Buckets, TB!States
  <1>2. /\ c.rate = b.rate /\ c.burst = b.burst
        /\ d.rate = b.rate /\ d.burst = b.burst
    BY DEF Spends
  <1>3. b.rate * MaxI(t - b.last, 0) \in Nat
    BY <1>1, NatProduct DEF MaxI
  <1>4. CASE b.burst = 0
    BY <1>1, <1>2, <1>3, <1>4 DEF Spends
  <1>5. CASE b.rate = 0
    BY <1>1, <1>2, <1>5 DEF Spends, MaxI
  <1>6. CASE b.rate # 0 /\ b.burst # 0
    <2>1. c.last = t /\ MaxI(t - c.last, 0) = 0
      BY <1>1, <1>6 DEF Spends, MaxI
    <2>2. Second * (d.grains + Grain * (-k)) <= Second * c.grains
      BY <1>1, <1>2, <2>1 DEF Spends
    <2>3. Second * (c.grains + Grain * k)
            <= Second * b.grains + b.rate * MaxI(t - b.last, 0)
      BY DEF Spends
    <2>4. Second * (d.grains + Grain * 0)
            <= Second * b.grains + b.rate * MaxI(t - b.last, 0)
      BY <1>1, <1>3, <2>2, <2>3
    <2> QED
      BY <1>1, <1>2, <1>6, <2>4 DEF Spends
  <1> QED
    BY <1>4, <1>5, <1>6

\* A refilled bucket that gives k tokens' worth of grains away, or takes them
\* back, stays within the account Spends keeps.
LEMMA SpendFromRefilled ==
  ASSUME NEW b \in Buckets, NEW t \in Int, NEW k \in Int, NEW g \in Nat,
         g <= b.burst, g <= TB!Refill(b, t).grains - Grain * k
  PROVE  Spends(b, [TB!Refill(b, t) EXCEPT !.grains = g], k, t)
  <1> USE ScaleAssumption
  <1> DEFINE r == TB!Refill(b, t)
  <1>1. Spends(b, r, 0, t)
    BY BucketRefill
  <1> HIDE DEF r
  <1>2. /\ r.grains \in Nat /\ r.burst = b.burst /\ r \in TB!States
        /\ b.rate * MaxI(t - b.last, 0) \in Int /\ b.grains \in Nat
    BY <1>1 DEF Spends, Buckets, TB!States, MaxI
  <1>3. Second * (g + Grain * k) <= Second * r.grains
    BY <1>2 DEF r
  <1>4. Second * r.grains <= Second * b.grains + b.rate * MaxI(t - b.last, 0)
    BY <1>1, <1>2 DEF Spends
  <1>5. Second * (g + Grain * k) <= Second * b.grains + b.rate * MaxI(t - b.last, 0)
    BY <1>2, <1>3, <1>4
  <1>6. Spends(b, [r EXCEPT !.grains = g], k, t)
    BY <1>1, <1>2, <1>5 DEF Spends, Buckets, TB!States
  <1> QED
    BY <1>6 DEF r

LEMMA NeedIs ==
  ASSUME NEW n \in 1..MaxTokens
  PROVE  TB!Need(n) = Grain * n /\ TB!Need(n) \in Nat
  BY ScaleAssumption DEF TB!Need, TB!MinU64

LEMMA BucketAllow ==
  ASSUME NEW b \in Buckets, NEW n \in 1..MaxTokens, NEW t \in Int
  PROVE  LET r == TB!Allow(b, n, t) IN
         /\ r.out = "ok" => Spends(b, r.st, n, t)
         /\ r.out # "ok" => r.st = b \/ Spends(b, r.st, 0, t)
  <1> DEFINE r == TB!Refill(b, t)
             need == TB!Need(n)
  <1>1. need = Grain * n /\ need \in Nat
    BY NeedIs
  <1>2. Spends(b, r, 0, t)
    BY BucketRefill
  <1>3. CASE r.grains >= need
    <2>1. r.grains - need \in Nat /\ r.grains - need <= b.burst
      BY <1>1, <1>2, <1>3 DEF Spends, Buckets, TB!States
    <2>2. r.grains - need <= r.grains - Grain * n
      BY <1>1, <1>2 DEF Spends, Buckets, TB!States
    <2>3. Spends(b, [r EXCEPT !.grains = r.grains - need], n, t)
      BY <2>1, <2>2, SpendFromRefilled
    <2> QED
      BY <1>2, <1>3, <2>3
      DEF TB!Allow, TB!Accept, TB!Refuse, TB!Impossible, TB!Panic
  <1>4. CASE ~(r.grains >= need)
    BY <1>2, <1>4
    DEF TB!Allow, TB!Accept, TB!Refuse, TB!Impossible, TB!Panic
  <1> QED
    BY <1>3, <1>4

LEMMA BucketPeek ==
  ASSUME NEW b \in Buckets, NEW n \in 1..MaxTokens, NEW t \in Int
  PROVE  LET c == TB!Peek(b, n, t).st IN c = b \/ Spends(b, c, 0, t)
  <1>1. PICK r : r = TB!Refill(b, t)
    OBVIOUS
  <1>2. Spends(b, r, 0, t)
    BY <1>1, BucketRefill
  <1>3. TB!Peek(b, n, t).st \in {b, r}
    BY <1>1 DEF TB!Peek, TB!Accept, TB!Refuse, TB!Impossible, TB!Panic
  <1> QED
    BY <1>2, <1>3

LEMMA BucketRestore ==
  ASSUME NEW b \in Buckets, NEW n \in 1..MaxTokens, NEW t \in Int
  PROVE  IF TB!RefillPanics(b, t) THEN TB!Restore(b, n, t) = b
         ELSE Spends(b, TB!Restore(b, n, t), -n, t)
  <1> DEFINE r == TB!Refill(b, t)
             sum == TB!SaturatingAddU64(r.grains, TB!Need(n))
             g == TB!MinU64(r.burst, sum)
  <1>1. /\ r.grains \in Nat /\ r.burst \in Nat /\ r.burst = b.burst
    BY BucketRefill DEF Spends, Buckets, TB!States
  <1>2. sum \in Nat /\ sum <= r.grains + Grain * n
    BY <1>1, NeedIs, SaturatingSum
    DEF TB!SaturatingAddU64, SaturatingAddU64, TB!MinU64, MinU64
  <1>3. /\ g \in Nat /\ g <= b.burst /\ g <= r.grains - Grain * (-n)
    BY <1>1, <1>2, ScaleAssumption DEF TB!MinU64
  <1>4. Spends(b, [r EXCEPT !.grains = g], -n, t)
    BY <1>3, SpendFromRefilled
  <1> QED
    BY <1>1, <1>4 DEF TB!Restore

-----------------------------------------------------------------------------
(* GCRA.                                                                   *)

\* An allowance of burst emission intervals that a word holds.
Meters == {g \in GC!States : g.limit = g.interval * g.burst}

\* The arithmetic of a call at time t stays within an int64.
Fits(g, t) == MaxI(g.tat, t) + g.limit <= MaxI64

\* h is meter g after it let k more units through at time t: they are all on
\* the account, and the account is never further ahead than the allowance.
Moves(g, h, k, t) ==
  /\ h \in Meters
  /\ h.interval = g.interval /\ h.limit = g.limit /\ h.burst = g.burst
  /\ h.tat >= g.tat + g.interval * k
  /\ h.tat <= MaxI(g.tat, t + g.limit)

LEMMA MeterNew ==
  ASSUME NEW cfg \in Rates, cfg.num > 0, NEW t \in Nat,
         MaxI(1, (Second * cfg.den) \div cfg.num) * cfg.burst <= MaxI64
  PROVE  LET g == GC!NewGCRA(cfg, t) IN
         /\ g \in Meters
         /\ g.interval = 0 \/ g.tat = t
         /\ g.tat <= t
         /\ g.limit <= MaxI64
         /\ g.limit = 0 \/
              g.limit = MaxI(1, (Second * cfg.den) \div cfg.num) * cfg.burst
  <1> DEFINE q == (Second * cfg.den) \div cfg.num
             i == MaxI(1, q)
  <1>1. q \in Nat
    BY ScaleAssumption, NatQuotient, NatProduct DEF Rates
  <1>2. i \in Nat /\ cfg.burst \in Nat /\ i = GC!MaxI(1, q)
    BY <1>1 DEF MaxI, GC!MaxI, Rates
  <1>3. i * cfg.burst \in Nat /\ i * cfg.burst <= MaxU64
    BY <1>2, NatProduct, MaxI64Fits, WidthAssumption
  <1>4. GC!U64(i * cfg.burst) = i * cfg.burst
    BY <1>3, WordFits DEF GC!U64, U64
  <1> HIDE DEF i, q
  <1>5. CASE cfg.num <= 0 \/ cfg.burst \notin 1..MaxTokens
    BY <1>5, MaxI64Fits
    DEF GC!NewGCRA, GC!ZeroState, GC!States, Meters
  <1>6. CASE ~(cfg.num <= 0 \/ cfg.burst \notin 1..MaxTokens)
    <2>1. GC!NewGCRA(cfg, t) = [tat |-> t, interval |-> i, limit |-> i * cfg.burst,
                               burst |-> cfg.burst]
      BY <1>2, <1>4, <1>6 DEF GC!NewGCRA, q
    <2> QED
      BY <2>1, <1>2, <1>3 DEF GC!States, Meters, i, q
  <1> QED
    BY <1>5, <1>6

LEMMA MeterWord ==
  ASSUME NEW x \in Nat, x <= MaxI64
  PROVE  GC!U64(x) = x /\ GC!I64(x) = x
  <1>1. GC!MaxI64 = MaxI64 /\ x <= MaxU64
    BY MaxI64Fits, WidthAssumption DEF GC!MaxI64, MaxI64
  <1> QED
    BY <1>1, WordFits, SignedWordFits DEF GC!U64, U64, GC!I64, I64

LEMMA MeterInc ==
  ASSUME NEW g \in Meters, NEW n \in Nat, n <= g.burst, g.limit <= MaxI64
  PROVE  /\ GC!Inc(g, n) = g.interval * n
         /\ g.interval * n \in 0..g.limit
         /\ GC!I64(GC!Inc(g, n)) = g.interval * n
         /\ GC!I64(g.limit) = g.limit
  <1>1. /\ g.interval \in Nat /\ g.burst \in Nat /\ g.limit \in Nat
        /\ g.limit = g.interval * g.burst
    BY DEF Meters, GC!States
  <1>2. g.interval * n \in 0..g.limit
    BY <1>1, NatProduct, ProductGrows
  <1>3. MaxI64 \in Nat
    BY MaxI64Fits
  <1> QED
    BY <1>1, <1>2, <1>3, MeterWord DEF GC!Inc

\* Without wrapping, a grant adds n intervals to the later of tat and the clock.
LEMMA MeterAllow ==
  ASSUME NEW g \in Meters, NEW n \in Nat \ {0}, NEW t \in Nat, Fits(g, t)
  PROVE  LET r == GC!Allow(g, n, t) IN
         /\ r.out = "ok" =>
              /\ n <= g.burst
              /\ r.st = [g EXCEPT !.tat = MaxI(g.tat, t) + g.interval * n]
              /\ Moves(g, r.st, n, t)
         /\ r.out # "ok" => r.st = g
  <1> DEFINE top == MaxI(g.tat, t)
             inc == g.interval * n
             r == GC!Allow(g, n, t)
  <1>1. /\ g.tat \in Int /\ g.interval \in Nat /\ g.burst \in Nat /\ g.limit \in Nat
        /\ top \in Nat /\ t <= top /\ g.tat <= top /\ top = GC!MaxI(g.tat, t)
        /\ top + g.limit <= MaxI64
    BY DEF Meters, GC!States, MaxI, GC!MaxI, Fits
  <1>2. MaxI64 \in Nat /\ MaxI64 <= MaxU64 /\ MaxU64 \in Nat
    BY MaxI64Fits, WidthAssumption
  <1>3. CASE g.interval = 0 \/ g.limit = 0 \/ n > g.burst
    BY <1>3 DEF GC!Allow, GC!Impossible, GC!Refuse
  <1>4. CASE ~(g.interval = 0 \/ g.limit = 0 \/ n > g.burst)
    <2>1. /\ GC!Inc(g, n) = inc /\ inc \in 0..g.limit /\ g.limit <= MaxI64
      BY <1>1, <1>2, <1>4, MeterInc
    <2> HIDE DEF top, inc
    <2>2. /\ GC!U64(top) = top /\ GC!U64(t) = t /\ GC!U64(top + inc) = top + inc
          /\ GC!I64(top + inc) = top + inc
      BY <1>1, <1>2, <2>1, MeterWord
    <2>3. GC!NewTAT(g, n, t) = top + inc
      BY <1>1, <2>1, <2>2 DEF GC!NewTAT
    <2>4. ~(top + inc < t)
      BY <1>1, <2>1
    <2>5. CASE top + inc - t <= g.limit
      <3>1. r = GC!Accept([g EXCEPT !.tat = top + inc])
        BY <1>1, <1>4, <2>1, <2>2, <2>3, <2>4, <2>5 DEF GC!Allow
      <3>2. Moves(g, [g EXCEPT !.tat = top + inc], n, t)
        BY <1>1, <2>1, <2>5 DEF Moves, Meters, GC!States, MaxI, inc
      <3> QED
        BY <1>1, <1>4, <3>1, <3>2 DEF GC!Accept, top, inc
    <2>6. CASE ~(top + inc - t <= g.limit)
      BY <1>1, <1>4, <2>1, <2>2, <2>3, <2>4, <2>6 DEF GC!Allow, GC!Refuse
    <2> QED
      BY <2>5, <2>6
  <1> QED
    BY <1>3, <1>4

LEMMA MeterRestore ==
  ASSUME NEW g \in Meters, NEW n \in Nat \ {0}, NEW t \in Nat,
         n <= g.burst, g.limit <= MaxI64
  PROVE  Moves(g, GC!Restore(g, n, t), -n, t)
  <1> DEFINE inc == g.interval * n
  <1>1. /\ g.tat \in Int /\ g.interval \in Nat /\ g.limit \in Nat
        /\ inc \in 0..g.limit
        /\ GC!I64(GC!Inc(g, n)) = inc /\ GC!I64(g.limit) = g.limit
    BY MeterInc DEF Meters, GC!States
  <1>2. g.interval * (-n) = -inc
    BY <1>1
  <1>3. CASE g.interval = 0
    BY <1>1, <1>2, <1>3 DEF GC!Restore, Moves, MaxI
  <1>4. CASE g.interval # 0
    <2> DEFINE tat == MaxI(g.tat - inc, t - g.limit)
    <2>1. GC!Restore(g, n, t) = [g EXCEPT !.tat = tat]
      BY <1>1, <1>4 DEF GC!Restore, GC!MaxI, MaxI
    <2> HIDE DEF inc
    <2>2. tat \in Int /\ tat >= g.tat - inc /\ tat <= MaxI(g.tat, t + g.limit)
      BY <1>1 DEF MaxI
    <2> HIDE DEF tat
    <2> QED
      BY <1>1, <1>2, <2>1, <2>2 DEF Moves, Meters, GC!States
  <1> QED
    BY <1>3, <1>4

\* A grant that is taken back at the same instant only brings tat to the clock.
LEMMA MeterRollback ==
  ASSUME NEW g \in Meters, NEW n \in Nat \ {0}, NEW t \in Nat, Fits(g, t),
         GC!Allow(g, n, t).out = "ok"
  PROVE  LET h == GC!Restore(GC!Allow(g, n, t).st, n, t) IN
         h = [g EXCEPT !.tat = MaxI(g.tat, t)] /\ Moves(g, h, 0, t)
  <1> DEFINE inc == g.interval * n
             top == MaxI(g.tat, t)
             h == [g EXCEPT !.tat = top + inc]
  <1>1. GC!Allow(g, n, t).st = h /\ n <= g.burst /\ h \in Meters
    BY MeterAllow DEF Moves
  <1>2. /\ g.tat \in Int /\ g.interval \in Nat /\ g.limit \in Nat
        /\ top \in Nat /\ top + g.limit <= MaxI64
        /\ h.interval = g.interval /\ h.limit = g.limit /\ h.burst = g.burst
        /\ inc \in Int /\ h.tat = top + inc
    BY DEF Meters, GC!States, MaxI, Fits
  <1>3. g.limit <= MaxI64
    BY <1>2, MaxI64Fits
  <1>4. /\ GC!I64(GC!Inc(h, n)) = inc /\ GC!I64(h.limit) = g.limit
    BY <1>1, <1>2, <1>3, MeterInc
  <1> HIDE DEF inc
  <1>5. GC!MaxI(top + inc - inc, t - g.limit) = top
    BY <1>2 DEF GC!MaxI, top, MaxI
  <1>6. [h EXCEPT !.tat = top] = [g EXCEPT !.tat = top]
    BY DEF Meters, GC!States
  <1>7. g.interval = 0 => inc = 0
    BY DEF inc
  <1>8. Moves(g, [g EXCEPT !.tat = top], 0, t)
    BY <1>2 DEF Moves, Meters, GC!States, MaxI
  <1>9. g.interval = 0 => h = [g EXCEPT !.tat = top]
    BY <1>2, <1>7
  <1> HIDE DEF h, top
  <1>10. GC!Restore(h, n, t) = [g EXCEPT !.tat = top]
    BY <1>2, <1>4, <1>5, <1>6, <1>9 DEF GC!Restore
  <1> QED
    BY <1>1, <1>8, <1>10 DEF top

-----------------------------------------------------------------------------
(* The sliding log.                                                        *)

Logs == {l \in Log!States : Len(l.ring) <= l.limit}

\* The cardinality SlidingLog uses is the one the library's theorems are about.
LEMMA LogCardinality ==
  ASSUME NEW S
  PROVE  Log!Cardinality(S) = Cardinality(S)
  BY Zenon DEF Log!Cardinality, Cardinality

LEMMA LogPrune ==
  ASSUME NEW ring \in Seq(Int), NEW cut \in Int
  PROVE  /\ Log!Prune(ring, cut) \in Seq(Int)
         /\ Len(Log!Prune(ring, cut)) <= Len(ring)
  <1> DEFINE gone == {i \in 1..Len(ring) : \A j \in 1..i : ring[j] <= cut}
             k == Cardinality(gone)
  <1>1. IsFiniteSet(1..Len(ring))
    <2>1. Len(ring) \in Int
      OBVIOUS
    <2> QED
      BY <2>1, FS_Interval
  <1>2. gone \in SUBSET (1..Len(ring))
    OBVIOUS
  <1>3. k \in Nat
    BY <1>1, <1>2, FS_Subset, FS_CardinalityType
  <1> HIDE DEF gone, k
  <1>4. \A i \in (k + 1)..Len(ring) : ring[i] \in Int
    BY <1>3
  <1>5. /\ SubSeq(ring, k + 1, Len(ring)) \in Seq(Int)
        /\ Len(SubSeq(ring, k + 1, Len(ring))) <= Len(ring)
    BY <1>3, <1>4, SubSeqProperties
  <1> QED
    BY <1>5, LogCardinality DEF Log!Prune, gone, k

LEMMA LogNew ==
  ASSUME NEW size \in Nat, NEW limit \in Nat
  PROVE  Log!NewLog(size, limit) \in Logs
  BY DEF Log!NewLog, Log!States, Logs

LEMMA LogAllow ==
  ASSUME NEW l \in Logs, NEW n \in Nat, NEW t \in Int
  PROVE  Log!Allow(l, n, t).st \in Logs
  <1> DEFINE ring == Log!Prune(l.ring, Log!Cutoff(l, t))
             pushed == [i \in 1..n |-> t]
  <1>1. /\ l.ring \in Seq(Int) /\ l.size \in Nat /\ l.limit \in Nat
        /\ Len(l.ring) <= l.limit
    BY DEF Logs, Log!States
  <1>2. ring \in Seq(Int) /\ Len(ring) <= Len(l.ring)
    BY <1>1, LogPrune DEF Log!Cutoff
  <1>3. pushed \in Seq(Int) /\ Len(pushed) = n
    OBVIOUS
  <1>4. /\ Log!PushN(ring, t, n) \in Seq(Int)
        /\ Len(Log!PushN(ring, t, n)) = Len(ring) + n
    BY <1>2, <1>3, ConcatProperties DEF Log!PushN
  <1> DEFINE grown == Log!PushN(ring, t, n)
  <1> HIDE DEF ring, pushed, grown
  <1>5. [l EXCEPT !.ring = ring] \in Logs
    BY SMTT(30), <1>1, <1>2 DEF Logs, Log!States
  <1>6. ASSUME Len(ring) + n - l.limit <= 0
        PROVE  [l EXCEPT !.ring = grown] \in Logs
    <2>1. grown \in Seq(Int) /\ Len(grown) = Len(ring) + n
      BY <1>4 DEF grown
    <2>2. Len(grown) <= l.limit
      BY <1>1, <1>2, <1>6, <2>1
    <2> QED
      BY <1>1, <2>1, <2>2 DEF Logs, Log!States
  <1> QED
    BY <1>5, <1>6
    DEF Log!Allow, Log!Accept, Log!Refuse, Log!Impossible, ring, grown

LEMMA LogRestore ==
  ASSUME NEW l \in Logs, NEW n \in Nat
  PROVE  Log!Restore(l, n) \in Logs
  <1> DEFINE m == Len(l.ring) - n
  <1>1. l.ring \in Seq(Int) /\ l.limit \in Nat /\ Len(l.ring) <= l.limit /\ m \in Int
    BY DEF Logs, Log!States
  <1>2. \A i \in 1..m : l.ring[i] \in Int
    BY <1>1
  <1>3. /\ SubSeq(l.ring, 1, m) \in Seq(Int)
        /\ Len(SubSeq(l.ring, 1, m)) <= l.limit
    BY <1>1, <1>2, SubSeqProperties
  <1> QED
    BY <1>1, <1>3 DEF Log!Restore, Log!PopNewestN, Logs, Log!States

-----------------------------------------------------------------------------
(* The sliding counter.                                                    *)

Counters == {c \in Ctr!States : /\ Len(c.counts) = c.buckets
                               /\ c.buckets >= 2 /\ c.width >= 1}

LEMMA FunctionIsSeq ==
  ASSUME NEW S, NEW m \in Nat, NEW f \in [1..m -> S]
  PROVE  f \in Seq(S) /\ Len(f) = m
  OBVIOUS

LEMMA CounterNew ==
  ASSUME NEW size \in Nat \ {0}, NEW limit \in Nat, NEW asked \in Nat
  PROVE  Ctr!NewCounter(size, limit, asked) \in Counters
  <1> DEFINE wanted == IF asked < 2 THEN 10 ELSE asked
             quotient == size \div wanted
             width == IF quotient = 0 THEN 1 ELSE quotient
             buckets == IF quotient = 0 THEN Ctr!MaxI(2, size) ELSE wanted
             zeroes == [i \in 1..buckets |-> 0]
  <1>1. wanted \in Nat /\ wanted >= 2
    OBVIOUS
  <1>2. quotient \in Nat
    BY <1>1, NatQuotient
  <1>3. width \in Nat /\ width >= 1 /\ buckets \in Nat /\ buckets >= 2
    BY <1>1, <1>2 DEF Ctr!MaxI
  <1> HIDE DEF wanted, quotient, width, buckets
  <1>4. zeroes \in Seq(Nat) /\ Len(zeroes) = buckets
    BY <1>3
  <1>5. Ctr!NewCounter(size, limit, asked)
          = [size |-> size, limit |-> limit, buckets |-> buckets, width |-> width,
             counts |-> zeroes, start |-> 0, init |-> FALSE]
    BY DEF Ctr!NewCounter, wanted, quotient, width, buckets
  <1> HIDE DEF zeroes
  <1> QED
    BY <1>3, <1>4, <1>5 DEF Counters, Ctr!States

LEMMA CounterAdvance ==
  ASSUME NEW c \in Counters, NEW t \in Int
  PROVE  /\ Ctr!Advance(c, t) \in Counters
         /\ Ctr!Advance(c, t).buckets = c.buckets
  <1> DEFINE cur == Ctr!BucketStart(c, t)
             steps == (cur - Ctr!End(c)) \div c.width
             newStart == cur - c.width * (c.buckets - 1)
             slid == [i \in 1..c.buckets |->
                        IF i + steps <= c.buckets THEN c.counts[i + steps] ELSE 0]
  <1>1. /\ c.size \in Nat /\ c.limit \in Nat /\ c.buckets \in Nat /\ c.width \in Nat
        /\ c.counts \in Seq(Nat) /\ c.start \in Int /\ c.init \in BOOLEAN
        /\ Len(c.counts) = c.buckets /\ c.buckets >= 2 /\ c.width >= 1
    BY DEF Counters, Ctr!States
  <1>2. cur \in Int
    <2>1. Ctr!GoRem(t, c.width) \in Int
      BY <1>1, GoRemType DEF Ctr!GoRem, GoRem
    <2> QED
      BY <2>1 DEF Ctr!BucketStart
  <1> HIDE DEF cur
  <1>3. Ctr!End(c) \in Int /\ newStart \in Int
    <2>1. c.buckets - 1 \in Nat
      BY <1>1
    <2>2. c.width * (c.buckets - 1) \in Nat
      BY <1>1, <2>1, NatProduct
    <2>3. Ctr!End(c) \in Int
      BY <1>1, <2>2 DEF Ctr!End
    <2>4. newStart \in Int
      BY <1>2, <2>2
    <2> QED
      BY <2>3, <2>4
  <1> HIDE DEF newStart
  <1>4. [c EXCEPT !.start = newStart, !.init = TRUE] \in Counters
    BY <1>1, <1>3 DEF Counters, Ctr!States
  <1>5. ASSUME ~(cur <= Ctr!End(c))
        PROVE  [c EXCEPT !.counts = slid, !.start = newStart] \in Counters
    <2>1. steps \in Nat
      BY <1>1, <1>2, <1>3, <1>5, NatQuotient
    <2> HIDE DEF steps
    <2>2. \A i \in 1..c.buckets :
            (IF i + steps <= c.buckets THEN c.counts[i + steps] ELSE 0) \in Nat
      BY <1>1, <2>1
    <2>3. slid \in Seq(Nat) /\ Len(slid) = c.buckets
      <3>1. slid \in [1..c.buckets -> Nat]
        BY <2>2
      <3> HIDE DEF slid
      <3> QED
        BY <1>1, <3>1, FunctionIsSeq
    <2> HIDE DEF slid
    <2> QED
      BY <1>1, <1>3, <2>3 DEF Counters, Ctr!States
  <1> QED
    BY <1>1, <1>2, <1>3, <1>4, <1>5 DEF Ctr!Advance, cur, newStart

LEMMA CounterTyped ==
  ASSUME NEW c \in Counters, NEW n \in Nat, NEW t \in Int
  PROVE  Ctr!Allow(c, n, t).st \in Counters /\ Ctr!Peek(c, n, t).st \in Counters
  <1> DEFINE a == Ctr!Advance(c, t)
             b == [a EXCEPT !.counts[c.buckets] = @ + n]
  <1>1. a \in Counters /\ a.buckets = c.buckets
    BY CounterAdvance
  <1> HIDE DEF a
  <1>2. /\ a.counts \in Seq(Nat) /\ Len(a.counts) = c.buckets
        /\ a.buckets \in Nat /\ a.buckets >= 2
        /\ a.counts[c.buckets] + n \in Nat
    <2>1. /\ a.counts \in Seq(Nat) /\ Len(a.counts) = c.buckets
          /\ a.buckets \in Nat /\ a.buckets >= 2
      BY <1>1 DEF Counters, Ctr!States
    <2>2. a.counts[c.buckets] \in Nat
      BY <1>1, <2>1
    <2> QED
      BY <2>1, <2>2
  <1>3. /\ [a.counts EXCEPT ![c.buckets] = @ + n] \in Seq(Nat)
        /\ Len([a.counts EXCEPT ![c.buckets] = @ + n]) = c.buckets
    BY <1>1, <1>2
  <1>4. b \in Counters
    BY <1>1, <1>2, <1>3 DEF Counters, Ctr!States
  <1> QED
    BY <1>1, <1>4 DEF Ctr!Allow, Ctr!Peek, Ctr!Accept, Ctr!Refuse, Ctr!Impossible, a

LEMMA CounterRestore ==
  ASSUME NEW c \in Counters, NEW n \in Nat
  PROVE  Ctr!Restore(c, n) \in Counters
  <1> DEFINE left == Ctr!MaxI(c.counts[c.buckets] - n, 0)
  <1>1. /\ c.counts \in Seq(Nat) /\ Len(c.counts) = c.buckets
        /\ c.buckets \in Nat /\ c.buckets >= 2
    BY DEF Counters, Ctr!States
  <1>2. left \in Nat
    BY <1>1 DEF Ctr!MaxI
  <1> HIDE DEF left
  <1>3. /\ [c.counts EXCEPT ![c.buckets] = left] \in Seq(Nat)
        /\ Len([c.counts EXCEPT ![c.buckets] = left]) = c.buckets
    BY <1>1, <1>2
  <1>4. [c EXCEPT !.counts[c.buckets] = left] \in Counters
    BY <1>1, <1>2, <1>3 DEF Counters, Ctr!States
  <1> QED
    BY <1>4 DEF Ctr!Restore, left

-----------------------------------------------------------------------------
(* The four gates of a key together.                                       *)

GoodStates ==
  {s \in [tb: Buckets \cup {NIL}, gcra: Meters \cup {NIL},
          log: Logs \cup {NIL}, ctr: Counters \cup {NIL}] :
     /\ s.tb = NIL \/ s.gcra = NIL
     /\ s.log = NIL \/ s.ctr = NIL}

SameGates(s, u) ==
  /\ u.tb = NIL <=> s.tb = NIL
  /\ u.gcra = NIL <=> s.gcra = NIL
  /\ u.log = NIL <=> s.log = NIL
  /\ u.ctr = NIL <=> s.ctr = NIL

\* u is what an operation at time t that lets k units through makes of s.
Effect(s, u, k, t) ==
  /\ u \in GoodStates
  /\ SameGates(s, u)
  /\ s.tb # NIL => (k <= 0 /\ u.tb = s.tb) \/ Spends(s.tb, u.tb, k, t)
  /\ s.gcra # NIL => Moves(s.gcra, u.gcra, k, t)

LEMMA NilIsNoState ==
  NIL \notin Buckets /\ NIL \notin Meters /\ NIL \notin Logs /\ NIL \notin Counters
  BY NilAssumption DEF Buckets, Meters, Logs, Counters

LEMMA StayPut ==
  ASSUME NEW g \in Meters, NEW t \in Nat
  PROVE  Moves(g, g, 0, t)
  BY DEF Moves, Meters, GC!States, MaxI

LEMMA NoEffect ==
  ASSUME NEW s \in GoodStates, NEW t \in Nat
  PROVE  Effect(s, s, 0, t)
  BY StayPut DEF Effect, GoodStates, SameGates

\* What the rate gate does: AllowRate (state.go:119).
LEMMA RateEffect ==
  ASSUME NEW s \in GoodStates, NEW n \in 1..MaxTokens, NEW t \in Nat,
         s.gcra # NIL => Fits(s.gcra, t)
  PROVE  LET r == AllowRate(s, n, t) IN
         /\ Effect(s, r.st, IF r.out = "ok" THEN n ELSE 0, t)
         /\ r.st.log = s.log /\ r.st.ctr = s.ctr
         /\ s.gcra # NIL /\ r.out = "ok" => n <= s.gcra.burst
  <1> DEFINE r == AllowRate(s, n, t)
             b == TB!Allow(s.tb, n, t)
             g == GC!Allow(s.gcra, n, t)
  <1>0. /\ s = [tb |-> s.tb, gcra |-> s.gcra, log |-> s.log, ctr |-> s.ctr]
        /\ s.tb \in Buckets \cup {NIL} /\ s.gcra \in Meters \cup {NIL}
        /\ s.log \in Logs \cup {NIL} /\ s.ctr \in Counters \cup {NIL}
        /\ s.tb = NIL \/ s.gcra = NIL
        /\ s.log = NIL \/ s.ctr = NIL
    BY DEF GoodStates
  <1>1. CASE s.tb # NIL
    <2>1. /\ b.out = "ok" => Spends(s.tb, b.st, n, t)
          /\ b.out # "ok" => b.st = s.tb \/ Spends(s.tb, b.st, 0, t)
      BY <1>0, <1>1, BucketAllow
    <2>2. b.st \in Buckets
      BY <1>0, <1>1, <2>1 DEF Spends
    <2>3. r.st = [s EXCEPT !.tb = b.st] /\ r.out = b.out
      BY <1>1 DEF AllowRate, Step
    <2> HIDE DEF b, r
    <2>4. Effect(s, r.st, IF r.out = "ok" THEN n ELSE 0, t)
      BY <1>0, <1>1, <2>1, <2>2, <2>3, NilIsNoState
      DEF Effect, GoodStates, SameGates
    <2> QED
      BY <1>0, <1>1, <2>3, <2>4 DEF r
  <1>2. CASE s.tb = NIL /\ s.gcra # NIL
    <2>0. s.gcra \in Meters /\ Fits(s.gcra, t) /\ n \in Nat \ {0}
      BY <1>0, <1>2
    <2>1. /\ Moves(s.gcra, g.st, IF g.out = "ok" THEN n ELSE 0, t)
          /\ g.out = "ok" => n <= s.gcra.burst
      BY <2>0, MeterAllow, StayPut
    <2>2. g.st \in Meters
      BY <2>1 DEF Moves
    <2>3. r.st = [s EXCEPT !.gcra = g.st] /\ r.out = g.out
      BY <1>2 DEF AllowRate, Step
    <2> HIDE DEF g, r
    <2>4. Effect(s, r.st, IF r.out = "ok" THEN n ELSE 0, t)
      BY <1>0, <1>2, <2>1, <2>2, <2>3, NilIsNoState
      DEF Effect, GoodStates, SameGates
    <2> QED
      BY <1>0, <1>2, <2>1, <2>3, <2>4 DEF r
  <1>3. CASE s.tb = NIL /\ s.gcra = NIL
    <2>1. r.st = s
      BY <1>3 DEF AllowRate, Step, Accept
    <2> HIDE DEF r
    <2>2. Effect(s, r.st, IF r.out = "ok" THEN n ELSE 0, t)
      BY <1>0, <1>3, <2>1 DEF Effect, GoodStates, SameGates
    <2> QED
      BY <1>3, <2>1, <2>2 DEF r
  <1> QED
    BY <1>1, <1>2, <1>3

\* The window gate (state.go:129) leaves the rate gate alone.
LEMMA WindowEffect ==
  ASSUME NEW s \in GoodStates, NEW n \in Nat, NEW t \in Int
  PROVE  LET u == AllowWindow(s, n, t).st IN
         /\ u \in GoodStates
         /\ SameGates(s, u)
         /\ u.tb = s.tb /\ u.gcra = s.gcra
  <1> DEFINE u == AllowWindow(s, n, t).st
  <1>0. /\ s = [tb |-> s.tb, gcra |-> s.gcra, log |-> s.log, ctr |-> s.ctr]
        /\ s.tb \in Buckets \cup {NIL} /\ s.gcra \in Meters \cup {NIL}
        /\ s.log \in Logs \cup {NIL} /\ s.ctr \in Counters \cup {NIL}
        /\ s.tb = NIL \/ s.gcra = NIL
        /\ s.log = NIL \/ s.ctr = NIL
    BY DEF GoodStates
  <1>1. CASE s.log # NIL
    <2>1. Log!Allow(s.log, n, t).st \in Logs
      BY <1>0, <1>1, LogAllow
    <2>2. u = [s EXCEPT !.log = Log!Allow(s.log, n, t).st]
      BY <1>1 DEF AllowWindow, Step
    <2> HIDE DEF u
    <2>3. u \in GoodStates /\ SameGates(s, u) /\ u.tb = s.tb /\ u.gcra = s.gcra
      BY <1>0, <1>1, <2>1, <2>2, NilIsNoState DEF GoodStates, SameGates
    <2> QED
      BY <2>3 DEF u
  <1>2. CASE s.log = NIL /\ s.ctr # NIL
    <2>1. Ctr!Allow(s.ctr, n, t).st \in Counters
      BY <1>0, <1>2, CounterTyped
    <2>2. u = [s EXCEPT !.ctr = Ctr!Allow(s.ctr, n, t).st]
      BY <1>2 DEF AllowWindow, Step
    <2> HIDE DEF u
    <2>3. u \in GoodStates /\ SameGates(s, u) /\ u.tb = s.tb /\ u.gcra = s.gcra
      BY <1>0, <1>2, <2>1, <2>2, NilIsNoState DEF GoodStates, SameGates
    <2> QED
      BY <2>3 DEF u
  <1>3. CASE s.log = NIL /\ s.ctr = NIL
    BY <1>0, <1>3 DEF AllowWindow, Step, Accept, GoodStates, SameGates
  <1> QED
    BY <1>1, <1>2, <1>3

LEMMA GoodFields ==
  ASSUME NEW s \in GoodStates
  PROVE  /\ s = [tb |-> s.tb, gcra |-> s.gcra, log |-> s.log, ctr |-> s.ctr]
         /\ s.tb \in Buckets \cup {NIL} /\ s.gcra \in Meters \cup {NIL}
         /\ s.log \in Logs \cup {NIL} /\ s.ctr \in Counters \cup {NIL}
         /\ s.tb = NIL \/ s.gcra = NIL
         /\ s.log = NIL \/ s.ctr = NIL
  BY DEF GoodStates

\* Assigning to two fields of a state changes those two and no other.
LEMMA RateFields ==
  ASSUME NEW A, NEW B, NEW C, NEW D, NEW s \in [tb: A, gcra: B, log: C, ctr: D],
         NEW x, NEW y
  PROVE  [s EXCEPT !.tb = x, !.gcra = y]
           = [tb |-> x, gcra |-> y, log |-> s.log, ctr |-> s.ctr]
  <1>1. [s EXCEPT !.tb = x, !.gcra = y] = [[s EXCEPT !.tb = x] EXCEPT !.gcra = y]
    OBVIOUS
  <1>2. [s EXCEPT !.tb = x] = [tb |-> x, gcra |-> s.gcra, log |-> s.log, ctr |-> s.ctr]
    OBVIOUS
  <1>3. [[tb |-> x, gcra |-> s.gcra, log |-> s.log, ctr |-> s.ctr] EXCEPT !.gcra = y]
          = [tb |-> x, gcra |-> y, log |-> s.log, ctr |-> s.ctr]
    OBVIOUS
  <1> QED
    BY <1>1, <1>2, <1>3

LEMMA WindowFields ==
  ASSUME NEW A, NEW B, NEW C, NEW D, NEW s \in [tb: A, gcra: B, log: C, ctr: D],
         NEW x, NEW y
  PROVE  [s EXCEPT !.log = x, !.ctr = y]
           = [tb |-> s.tb, gcra |-> s.gcra, log |-> x, ctr |-> y]
  <1>1. [s EXCEPT !.log = x, !.ctr = y] = [[s EXCEPT !.log = x] EXCEPT !.ctr = y]
    OBVIOUS
  <1>2. [s EXCEPT !.log = x] = [tb |-> s.tb, gcra |-> s.gcra, log |-> x, ctr |-> s.ctr]
    OBVIOUS
  <1>3. [[tb |-> s.tb, gcra |-> s.gcra, log |-> x, ctr |-> s.ctr] EXCEPT !.ctr = y]
          = [tb |-> s.tb, gcra |-> s.gcra, log |-> x, ctr |-> y]
    OBVIOUS
  <1> QED
    BY <1>1, <1>2, <1>3

\* A rate grant given back because the window refused (state.go:62-66).
LEMMA RollbackEffect ==
  ASSUME NEW s \in GoodStates, NEW n \in 1..MaxTokens, NEW t \in Nat,
         s.gcra # NIL => Fits(s.gcra, t),
         AllowRate(s, n, t).out = "ok",
         NEW v \in GoodStates, SameGates(AllowRate(s, n, t).st, v),
         v.tb = AllowRate(s, n, t).st.tb, v.gcra = AllowRate(s, n, t).st.gcra
  PROVE  Effect(s, RestoreRate(v, n, t), 0, t)
  <1> DEFINE r == AllowRate(s, n, t)
             u == RestoreRate(v, n, t)
  <1>1. Effect(s, r.st, n, t)
    BY RateEffect
  <1>2. /\ u = [tb |-> IF v.tb = NIL THEN NIL ELSE TB!Restore(v.tb, n, t),
                gcra |-> IF v.gcra = NIL THEN NIL ELSE GC!Restore(v.gcra, n, t),
                log |-> v.log, ctr |-> v.ctr]
    <2> DEFINE x == IF v.tb = NIL THEN NIL ELSE TB!Restore(v.tb, n, t)
               y == IF v.gcra = NIL THEN NIL ELSE GC!Restore(v.gcra, n, t)
    <2>1. v \in [tb: Buckets \cup {NIL}, gcra: Meters \cup {NIL},
                 log: Logs \cup {NIL}, ctr: Counters \cup {NIL}]
      BY DEF GoodStates
    <2>2. u = [v EXCEPT !.tb = x, !.gcra = y]
      BY DEF RestoreRate
    <2> HIDE DEF u, x, y
    <2>3. u = [tb |-> x, gcra |-> y, log |-> v.log, ctr |-> v.ctr]
      BY <2>1, <2>2, RateFields
    <2> QED
      BY <2>3 DEF x, y
  <1>3. s.tb # NIL => u.tb \in Buckets /\ Spends(s.tb, u.tb, 0, t)
    <2> SUFFICES ASSUME s.tb # NIL
                 PROVE  u.tb \in Buckets /\ Spends(s.tb, u.tb, 0, t)
      OBVIOUS
    <2>1. s.tb \in Buckets /\ v.tb \in Buckets /\ v.tb # NIL
      BY <1>1, GoodFields DEF Effect, SameGates
    <2>2. Spends(s.tb, v.tb, n, t)
      BY <1>1 DEF Effect
    <2>3. Spends(v.tb, u.tb, -n, t)
      <3>1. ~TB!RefillPanics(v.tb, t)
        BY <2>2 DEF Spends, TB!RefillPanics, TB!Stopped
      <3> QED
        BY <1>2, <2>1, <3>1, BucketRestore
    <2>4. u.tb \in Buckets /\ n \in Int /\ t \in Int
      BY <2>3 DEF Spends
    <2> QED
      BY <2>1, <2>2, <2>3, <2>4, SpendBack
  <1>4. s.gcra # NIL => u.gcra \in Meters /\ Moves(s.gcra, u.gcra, 0, t)
    <2> SUFFICES ASSUME s.gcra # NIL
                 PROVE  u.gcra \in Meters /\ Moves(s.gcra, u.gcra, 0, t)
      OBVIOUS
    <2>1. s.gcra \in Meters /\ s.tb = NIL /\ v.gcra # NIL
      BY <1>1, GoodFields DEF Effect, SameGates
    <2>2. r.st.gcra = GC!Allow(s.gcra, n, t).st /\ GC!Allow(s.gcra, n, t).out = "ok"
      BY <2>1, GoodFields DEF AllowRate, Step
    <2>3. Moves(s.gcra, GC!Restore(v.gcra, n, t), 0, t)
      <3>1. v.gcra = GC!Allow(s.gcra, n, t).st /\ Fits(s.gcra, t) /\ n \in Nat \ {0}
        BY <2>1, <2>2, ScaleAssumption
      <3> QED
        BY <2>1, <2>2, <3>1, MeterRollback
    <2> QED
      BY <1>2, <2>1, <2>3 DEF Moves
  <1> HIDE DEF u
  <1>5. u \in GoodStates /\ SameGates(s, u)
    <2>1. SameGates(s, v)
      BY <1>1 DEF Effect, SameGates
    <2> QED
      BY <1>2, <1>3, <1>4, <2>1, GoodFields, NilIsNoState DEF GoodStates, SameGates
  <1>6. Effect(s, u, 0, t)
    BY <1>3, <1>4, <1>5 DEF Effect
  <1> QED
    BY <1>6 DEF u

\* A whole decision: limiterState.allow (state.go:56).
LEMMA AllowEffect ==
  ASSUME NEW s \in GoodStates, NEW n \in 1..MaxTokens, NEW t \in Nat,
         s.gcra # NIL => Fits(s.gcra, t)
  PROVE  LET r == Allow(s, n, t) IN
         /\ Effect(s, r.st, IF r.out = "ok" THEN n ELSE 0, t)
         /\ s.gcra # NIL /\ r.out = "ok" => n <= s.gcra.burst
  <1> DEFINE r == AllowRate(s, n, t)
             w == AllowWindow(r.st, n, t)
             a == Allow(s, n, t)
  <1>1. /\ Effect(s, r.st, IF r.out = "ok" THEN n ELSE 0, t)
        /\ s.gcra # NIL /\ r.out = "ok" => n <= s.gcra.burst
    BY RateEffect
  <1>2. /\ w.st \in GoodStates /\ SameGates(r.st, w.st)
        /\ w.st.tb = r.st.tb /\ w.st.gcra = r.st.gcra
    BY <1>1, WindowEffect DEF Effect
  <1>3. CASE r.out # "ok"
    BY <1>1, <1>3 DEF Allow
  <1>4. CASE r.out = "ok" /\ w.out = "ok"
    <2>1. a = w
      BY <1>4 DEF Allow
    <2> HIDE DEF a, r, w
    <2>2. Effect(s, w.st, n, t)
      BY <1>1, <1>2, <1>4 DEF Effect, SameGates
    <2>3. /\ Effect(s, a.st, IF a.out = "ok" THEN n ELSE 0, t)
          /\ s.gcra # NIL /\ a.out = "ok" => n <= s.gcra.burst
      BY <1>1, <1>4, <2>1, <2>2
    <2> QED
      BY <2>3 DEF a
  <1>5. CASE r.out = "ok" /\ w.out # "ok"
    <2>1. a.st = RestoreRate(w.st, n, t) /\ a.out = w.out
      BY <1>5 DEF Allow, AllowWindow, Step
    <2>2. Effect(s, RestoreRate(w.st, n, t), 0, t)
      BY <1>2, <1>5, RollbackEffect
    <2> QED
      BY <1>5, <2>1, <2>2
  <1> QED
    BY <1>3, <1>4, <1>5

\* limiterState.peek (state.go:77).
LEMMA PeekEffect ==
  ASSUME NEW s \in GoodStates, NEW n \in 1..MaxTokens, NEW t \in Nat
  PROVE  Effect(s, Peek(s, n, t).st, 0, t)
  <1> DEFINE p == PeekRate(s, n, t)
             q == PeekWindow(p.st, n, t)
             b == TB!Peek(s.tb, n, t)
  <1>1. Effect(s, p.st, 0, t)
    <2>1. CASE s.tb # NIL
      <3>1. b.st = s.tb \/ Spends(s.tb, b.st, 0, t)
        BY <2>1, GoodFields, BucketPeek
      <3>2. b.st \in Buckets
        BY <2>1, <3>1, GoodFields DEF Spends
      <3>3. p.st = [s EXCEPT !.tb = b.st]
        BY <2>1 DEF PeekRate, Step
      <3> HIDE DEF b, p
      <3> QED
        BY <2>1, <3>1, <3>2, <3>3, GoodFields, NilIsNoState
        DEF Effect, GoodStates, SameGates
    <2>2. CASE s.tb = NIL
      <3>1. p.st = s
        BY <2>2 DEF PeekRate, Step, Accept
      <3> QED
        BY <3>1, NoEffect
    <2> QED
      BY <2>1, <2>2
  <1>2. /\ q.st \in GoodStates /\ SameGates(p.st, q.st)
        /\ q.st.tb = p.st.tb /\ q.st.gcra = p.st.gcra
    <2> DEFINE c == Ctr!Peek(p.st.ctr, n, t).st
    <2>1. p.st \in GoodStates
      BY <1>1 DEF Effect
    <2> HIDE DEF p
    <2>2. CASE p.st.log = NIL /\ p.st.ctr # NIL
      <3>1. c \in Counters
        <4>1. p.st.ctr \in Counters
          BY <2>1, <2>2, GoodFields
        <4>2. n \in Nat /\ t \in Int
          OBVIOUS
        <4> QED
          BY <4>1, <4>2, CounterTyped
      <3>2. q.st = [p.st EXCEPT !.ctr = c]
        BY <2>2 DEF PeekWindow, Step
      <3> HIDE DEF c, q
      <3> QED
        BY <2>1, <2>2, <3>1, <3>2, GoodFields, NilIsNoState DEF GoodStates, SameGates
    <2>3. CASE ~(p.st.log = NIL /\ p.st.ctr # NIL)
      <3>1. q.st = p.st
        BY <2>3 DEF PeekWindow, Step, Accept
      <3> QED
        BY <2>1, <3>1 DEF SameGates
    <2> QED
      BY <2>2, <2>3
  <1>3. Effect(s, q.st, 0, t)
    <2> HIDE DEF p, q
    <2> QED
      BY <1>1, <1>2 DEF Effect, SameGates
  <1> QED
    BY <1>1, <1>3 DEF Peek

\* limiterState.restore (state.go:148): a cancelled reservation.
LEMMA RestoreEffect ==
  ASSUME NEW s \in GoodStates, NEW n \in 1..MaxTokens, NEW t \in Nat,
         s.gcra # NIL => n <= s.gcra.burst /\ s.gcra.limit <= MaxI64
  PROVE  Effect(s, Restore(s, n, t), -n, t)
  <1> DEFINE u == Restore(s, n, t)
  <1>1. u = [tb |-> IF s.tb = NIL THEN NIL ELSE TB!Restore(s.tb, n, t),
             gcra |-> IF s.gcra = NIL THEN NIL ELSE GC!Restore(s.gcra, n, t),
             log |-> IF s.log = NIL THEN NIL ELSE Log!Restore(s.log, n),
             ctr |-> IF s.ctr = NIL THEN NIL ELSE Ctr!Restore(s.ctr, n)]
    <2>1. PICK l : l = IF s.log = NIL THEN NIL ELSE Log!Restore(s.log, n)
      OBVIOUS
    <2>2. PICK c : c = IF s.ctr = NIL THEN NIL ELSE Ctr!Restore(s.ctr, n)
      OBVIOUS
    <2>3. PICK x : x = IF s.tb = NIL THEN NIL ELSE TB!Restore(s.tb, n, t)
      OBVIOUS
    <2>4. PICK y : y = IF s.gcra = NIL THEN NIL ELSE GC!Restore(s.gcra, n, t)
      OBVIOUS
    <2>5. PICK v : v = [s EXCEPT !.log = l, !.ctr = c]
      OBVIOUS
    <2>6. s \in [tb: Buckets \cup {NIL}, gcra: Meters \cup {NIL},
                 log: Logs \cup {NIL}, ctr: Counters \cup {NIL}]
      BY DEF GoodStates
    <2>7. v = [tb |-> s.tb, gcra |-> s.gcra, log |-> l, ctr |-> c]
      BY <2>5, <2>6, WindowFields
    <2>8. u = [v EXCEPT !.tb = x, !.gcra = y]
      <3>1. v.tb = s.tb /\ v.gcra = s.gcra
        BY <2>7
      <3>2. u = RestoreRate(v, n, t)
        BY <2>1, <2>2, <2>5 DEF Restore
      <3> HIDE DEF u
      <3> QED
        BY <2>3, <2>4, <3>1, <3>2 DEF RestoreRate
    <2>9. PICK A, B, C, D : v \in [tb: A, gcra: B, log: C, ctr: D]
      <3>1. v \in [tb: {s.tb}, gcra: {s.gcra}, log: {l}, ctr: {c}]
        BY <2>7
      <3> QED
        BY <3>1
    <2>10. [v EXCEPT !.tb = x, !.gcra = y]
             = [tb |-> x, gcra |-> y, log |-> v.log, ctr |-> v.ctr]
      <3>1. [v EXCEPT !.tb = x, !.gcra = y] = [[v EXCEPT !.tb = x] EXCEPT !.gcra = y]
        BY <2>9
      <3>2. [v EXCEPT !.tb = x]
              = [tb |-> x, gcra |-> v.gcra, log |-> v.log, ctr |-> v.ctr]
        BY <2>9
      <3>3. [[tb |-> x, gcra |-> v.gcra, log |-> v.log, ctr |-> v.ctr] EXCEPT !.gcra = y]
              = [tb |-> x, gcra |-> y, log |-> v.log, ctr |-> v.ctr]
        OBVIOUS
      <3> QED
        BY <3>1, <3>2, <3>3
    <2>11. v.log = l /\ v.ctr = c
      BY <2>7
    <2> HIDE DEF u
    <2> QED
      BY <2>1, <2>2, <2>3, <2>4, <2>8, <2>10, <2>11
  <1>2. s.tb # NIL => u.tb = s.tb \/ Spends(s.tb, u.tb, -n, t)
    BY <1>1, GoodFields, BucketRestore
  <1>3. s.gcra # NIL => Moves(s.gcra, u.gcra, -n, t)
    BY <1>1, GoodFields, MeterRestore
  <1>4. s.log # NIL => u.log \in Logs
    BY <1>1, GoodFields, LogRestore
  <1>5. s.ctr # NIL => u.ctr \in Counters
    BY <1>1, GoodFields, CounterRestore
  <1>6. u \in GoodStates /\ SameGates(s, u)
    BY <1>1, <1>2, <1>3, <1>4, <1>5, GoodFields, NilIsNoState
    DEF GoodStates, SameGates, Spends, Moves
  <1> QED
    BY <1>2, <1>3, <1>6 DEF Effect

-----------------------------------------------------------------------------
(* Well-formed states stay so, whatever is asked of them: without a bound  *)
(* on the amounts, and whether or not the words of GCRA wrap.              *)

WellFormed == [tb: Buckets \cup {NIL}, gcra: GC!States \cup {NIL},
               log: Logs \cup {NIL}, ctr: Counters \cup {NIL}]

LEMMA NeedType ==
  ASSUME NEW n \in Nat
  PROVE  TB!Need(n) \in Nat
  BY ScaleAssumption DEF TB!Need, TB!MinU64

LEMMA BucketTyped ==
  ASSUME NEW b \in Buckets, NEW n \in Nat, NEW t \in Int
  PROVE  /\ TB!Allow(b, n, t).st \in Buckets
         /\ TB!Peek(b, n, t).st \in Buckets
         /\ TB!Restore(b, n, t) \in Buckets
  <1> DEFINE r == TB!Refill(b, t)
  <1>1. r \in Buckets
    BY BucketRefill DEF Spends
  <1>2. TB!Need(n) \in Nat
    BY NeedType
  <1>3. TB!Allow(b, n, t).st \in Buckets
    <2>1. ASSUME r.grains >= TB!Need(n)
          PROVE  [r EXCEPT !.grains = r.grains - TB!Need(n)] \in Buckets
      <3> HIDE DEF r
      <3>1. r.grains - TB!Need(n) \in Nat /\ r.grains - TB!Need(n) <= r.grains
        BY <1>1, <1>2, <2>1 DEF Buckets, TB!States
      <3> QED
        BY <1>1, <3>1 DEF Buckets, TB!States
    <2> HIDE DEF r
    <2>2. \/ TB!Allow(b, n, t).st \in {b, r}
          \/ /\ r.grains >= TB!Need(n)
             /\ TB!Allow(b, n, t).st = [r EXCEPT !.grains = r.grains - TB!Need(n)]
      BY DEF TB!Allow, TB!Accept, TB!Refuse, TB!Impossible, TB!Panic, r
    <2> QED
      BY <1>1, <2>1, <2>2
  <1>4. TB!Restore(b, n, t) \in Buckets
    <2> DEFINE sum == TB!SaturatingAddU64(r.grains, TB!Need(n))
               g == TB!MinU64(r.burst, sum)
    <2>0. r.grains \in Nat /\ r.burst \in Nat
      BY <1>1 DEF Buckets, TB!States
    <2>1. sum \in Nat
      BY <1>2, <2>0, SaturatingSum
      DEF TB!SaturatingAddU64, SaturatingAddU64, TB!MinU64, MinU64
    <2> HIDE DEF sum
    <2>2. g \in Nat /\ g <= r.burst
      BY <2>0, <2>1 DEF TB!MinU64
    <2>3. \/ TB!Restore(b, n, t) = b
          \/ TB!Restore(b, n, t) = [r EXCEPT !.grains = g]
      BY DEF TB!Restore, sum
    <2> HIDE DEF r, g
    <2>4. [r EXCEPT !.grains = g] \in Buckets
      BY <1>1, <2>2 DEF Buckets, TB!States
    <2> QED
      BY <2>3, <2>4
  <1>5. TB!Peek(b, n, t).st \in Buckets
    <2> HIDE DEF r
    <2>1. TB!Peek(b, n, t).st \in {b, r}
      BY DEF TB!Peek, TB!Accept, TB!Refuse, TB!Impossible, TB!Panic, r
    <2> QED
      BY <1>1, <2>1
  <1> QED
    BY <1>3, <1>4, <1>5

LEMMA MeterTyped ==
  ASSUME NEW g \in GC!States, NEW n \in Nat, NEW t \in Nat
  PROVE  /\ GC!Allow(g, n, t).st \in GC!States
         /\ GC!Restore(g, n, t) \in GC!States
  <1>1. /\ g.tat \in Int /\ g.interval \in Nat /\ g.limit \in Nat
        /\ \A x \in Int : [g EXCEPT !.tat = x] \in GC!States
    BY DEF GC!States
  <1>2. \A x \in Int : GC!U64(x) \in Int /\ GC!I64(GC!U64(x)) \in Int
    BY WordType, MaxI64Fits DEF GC!U64, GC!I64, U64, I64, GC!MaxI64, MaxI64
  <1>3. GC!Inc(g, n) \in Int /\ GC!I64(GC!Inc(g, n)) \in Int
    <2>1. g.interval * n \in Int
      BY <1>1, NatProduct
    <2> QED
      BY <1>2, <2>1 DEF GC!Inc
  <1>4. GC!I64(GC!NewTAT(g, n, t)) \in Int
    <2>1. GC!U64(GC!MaxI(g.tat, t)) + GC!Inc(g, n) \in Int
      BY <1>1, <1>2, <1>3 DEF GC!MaxI
    <2> QED
      BY <1>2, <2>1 DEF GC!NewTAT
  <1>5. GC!I64(GC!U64(GC!U64(t) + GC!Inc(g, n))) \in Int
    BY <1>2, <1>3
  <1>6. \/ GC!Allow(g, n, t).st = g
        \/ GC!Allow(g, n, t).st = [g EXCEPT !.tat = GC!I64(GC!NewTAT(g, n, t))]
        \/ GC!Allow(g, n, t).st
             = [g EXCEPT !.tat = GC!I64(GC!U64(GC!U64(t) + GC!Inc(g, n)))]
    BY DEF GC!Allow, GC!Accept, GC!Refuse, GC!Impossible
  <1>7. GC!MaxI(g.tat - GC!I64(GC!Inc(g, n)), t - GC!I64(g.limit)) \in Int
    <2>1. GC!I64(g.limit) \in Int
      BY <1>1, MaxI64Fits, WidthAssumption DEF GC!I64
    <2> QED
      BY <1>1, <1>3, <2>1 DEF GC!MaxI
  <1>8. GC!Restore(g, n, t) \in GC!States
    BY <1>1, <1>7 DEF GC!Restore
  <1>9. GC!Allow(g, n, t).st \in GC!States
    BY <1>1, <1>4, <1>5, <1>6
  <1> QED
    BY <1>8, <1>9

\* A new meter, whether or not its allowance fits a word.
LEMMA MeterFresh ==
  ASSUME NEW cfg \in Rates, cfg.num > 0, NEW t \in Nat
  PROVE  GC!NewGCRA(cfg, t) \in GC!States
  <1> DEFINE i == GC!MaxI(1, (Second * cfg.den) \div cfg.num)
  <1>1. (Second * cfg.den) \div cfg.num \in Nat
    BY ScaleAssumption, NatProduct, NatQuotient DEF Rates
  <1>2. i \in Nat /\ cfg.burst \in Nat
    BY <1>1 DEF GC!MaxI, Rates
  <1>3. GC!U64(i * cfg.burst) \in Nat
    <2>1. i * cfg.burst \in Nat
      BY <1>2, NatProduct
    <2> QED
      BY <2>1, WordType DEF GC!U64, U64
  <1>4. GC!NewGCRA(cfg, t) \in
          {GC!ZeroState, [tat |-> t, interval |-> i, limit |-> GC!U64(i * cfg.burst),
                          burst |-> cfg.burst]}
    BY DEF GC!NewGCRA
  <1> HIDE DEF i
  <1> QED
    BY <1>2, <1>3, <1>4 DEF GC!ZeroState, GC!States

LEMMA FormedFields ==
  ASSUME NEW s \in WellFormed
  PROVE  /\ s.tb \in Buckets \cup {NIL} /\ s.gcra \in GC!States \cup {NIL}
         /\ s.log \in Logs \cup {NIL} /\ s.ctr \in Counters \cup {NIL}
         /\ \A x \in Buckets \cup {NIL} : [s EXCEPT !.tb = x] \in WellFormed
         /\ \A x \in GC!States \cup {NIL} : [s EXCEPT !.gcra = x] \in WellFormed
         /\ \A x \in Logs \cup {NIL} : [s EXCEPT !.log = x] \in WellFormed
         /\ \A x \in Counters \cup {NIL} : [s EXCEPT !.ctr = x] \in WellFormed
  BY DEF WellFormed

LEMMA RateTyped ==
  ASSUME NEW s \in WellFormed, NEW n \in Nat, NEW t \in Nat
  PROVE  /\ AllowRate(s, n, t).st \in WellFormed
         /\ PeekRate(s, n, t).st \in WellFormed
  <1>1. /\ s.tb # NIL => TB!Allow(s.tb, n, t).st \in Buckets /\ TB!Peek(s.tb, n, t).st \in Buckets
        /\ s.gcra # NIL => GC!Allow(s.gcra, n, t).st \in GC!States
    BY FormedFields, BucketTyped, MeterTyped
  <1>2. /\ s.tb # NIL => AllowRate(s, n, t).st = [s EXCEPT !.tb = TB!Allow(s.tb, n, t).st]
        /\ s.tb = NIL /\ s.gcra # NIL =>
             AllowRate(s, n, t).st = [s EXCEPT !.gcra = GC!Allow(s.gcra, n, t).st]
        /\ s.tb = NIL /\ s.gcra = NIL => AllowRate(s, n, t).st = s
    BY DEF AllowRate, Step, Accept
  <1>3. /\ s.tb # NIL => PeekRate(s, n, t).st = [s EXCEPT !.tb = TB!Peek(s.tb, n, t).st]
        /\ s.tb = NIL => PeekRate(s, n, t).st = s
    BY DEF PeekRate, Step, Accept
  <1> QED
    BY <1>1, <1>2, <1>3, FormedFields

LEMMA WindowTyped ==
  ASSUME NEW s \in WellFormed, NEW n \in Nat, NEW t \in Nat
  PROVE  /\ AllowWindow(s, n, t).st \in WellFormed
         /\ PeekWindow(s, n, t).st \in WellFormed
  <1>1. /\ s.log # NIL => Log!Allow(s.log, n, t).st \in Logs
        /\ s.ctr # NIL => /\ Ctr!Allow(s.ctr, n, t).st \in Counters
                          /\ Ctr!Peek(s.ctr, n, t).st \in Counters
    <2>2. \A c \in Counters : Ctr!Allow(c, n, t).st \in Counters /\ Ctr!Peek(c, n, t).st \in Counters
      BY CounterTyped
    <2>3. \A l \in Logs : Log!Allow(l, n, t).st \in Logs
      BY LogAllow
    <2> QED
      BY <2>2, <2>3, FormedFields
  <1>2. /\ s.log # NIL => AllowWindow(s, n, t).st = [s EXCEPT !.log = Log!Allow(s.log, n, t).st]
        /\ s.log = NIL /\ s.ctr # NIL =>
             AllowWindow(s, n, t).st = [s EXCEPT !.ctr = Ctr!Allow(s.ctr, n, t).st]
        /\ s.log = NIL /\ s.ctr = NIL => AllowWindow(s, n, t).st = s
    BY DEF AllowWindow, Step, Accept
  <1>3. /\ s.log = NIL /\ s.ctr # NIL =>
             PeekWindow(s, n, t).st = [s EXCEPT !.ctr = Ctr!Peek(s.ctr, n, t).st]
        /\ s.log # NIL \/ s.ctr = NIL => PeekWindow(s, n, t).st = s
    BY DEF PeekWindow, Step, Accept
  <1> QED
    BY <1>1, <1>2, <1>3, FormedFields

LEMMA RestoreTyped ==
  ASSUME NEW s \in WellFormed, NEW n \in Nat, NEW t \in Nat
  PROVE  RestoreRate(s, n, t) \in WellFormed /\ Restore(s, n, t) \in WellFormed
  <1>1. ASSUME NEW v \in WellFormed
        PROVE  RestoreRate(v, n, t) \in WellFormed
    <2>1. PICK x, y : /\ x = IF v.tb = NIL THEN NIL ELSE TB!Restore(v.tb, n, t)
                      /\ y = IF v.gcra = NIL THEN NIL ELSE GC!Restore(v.gcra, n, t)
      OBVIOUS
    <2>2. x \in Buckets \cup {NIL} /\ y \in GC!States \cup {NIL}
      BY SMTT(30), <2>1, FormedFields, BucketTyped, MeterTyped
    <2>3. RestoreRate(v, n, t) = [v EXCEPT !.tb = x, !.gcra = y]
      BY <2>1 DEF RestoreRate
    <2>4. RestoreRate(v, n, t) = [tb |-> x, gcra |-> y, log |-> v.log, ctr |-> v.ctr]
      BY <2>3, RateFields DEF WellFormed
    <2> QED
      BY <2>2, <2>4, FormedFields DEF WellFormed
  <1>2. PICK l, c : /\ l = IF s.log = NIL THEN NIL ELSE Log!Restore(s.log, n)
                    /\ c = IF s.ctr = NIL THEN NIL ELSE Ctr!Restore(s.ctr, n)
    OBVIOUS
  <1>3. l \in Logs \cup {NIL} /\ c \in Counters \cup {NIL}
    BY <1>2, FormedFields, LogRestore, CounterRestore
  <1>4. PICK v : v = [s EXCEPT !.log = l, !.ctr = c]
    OBVIOUS
  <1>5. v = [tb |-> s.tb, gcra |-> s.gcra, log |-> l, ctr |-> c]
    BY <1>4, WindowFields DEF WellFormed
  <1>6. v \in WellFormed
    BY <1>3, <1>5, FormedFields DEF WellFormed
  <1>7. Restore(s, n, t) = RestoreRate(v, n, t)
    BY <1>2, <1>4 DEF Restore
  <1> QED
    BY <1>1, <1>6, <1>7

\* Every operation of state.go leaves a well-formed state well formed.
LEMMA StateTyped ==
  ASSUME NEW s \in WellFormed, NEW n \in Nat, NEW t \in Nat
  PROVE  /\ Allow(s, n, t).st \in WellFormed
         /\ Peek(s, n, t).st \in WellFormed
         /\ Restore(s, n, t) \in WellFormed
  <1> DEFINE r == AllowRate(s, n, t)
             w == AllowWindow(r.st, n, t)
             p == PeekRate(s, n, t)
  <1>1. r.st \in WellFormed /\ p.st \in WellFormed
    BY RateTyped
  <1>2. w.st \in WellFormed /\ PeekWindow(p.st, n, t).st \in WellFormed
    <2> HIDE DEF r, p
    <2> QED
      BY <1>1, WindowTyped
  <1>3. RestoreRate(w.st, n, t) \in WellFormed
    <2> HIDE DEF w
    <2> QED
      BY <1>2, RestoreTyped
  <1>4. Allow(s, n, t).st \in {r.st, w.st, RestoreRate(w.st, n, t)}
    <2>1. [w EXCEPT !.st = RestoreRate(@, n, t)].st = RestoreRate(w.st, n, t)
      BY DEF AllowWindow, Step
    <2> QED
      BY <2>1 DEF Allow
  <1>5. Peek(s, n, t).st \in {p.st, PeekWindow(p.st, n, t).st}
    BY DEF Peek
  <1> HIDE DEF r, w, p
  <1> QED
    BY <1>1, <1>2, <1>3, <1>4, <1>5, RestoreTyped

\* So is a new one, for every policy that Validate lets through.
LEMMA NewTyped ==
  ASSUME NEW p \in SpecRecords, Validate(p), NEW t \in Nat
  PROVE  NewLimiterState(p, t) \in WellFormed
  <1> DEFINE rate == p.rate
             window == p.window
             algo == InferAlgo(p)
  <1>1. /\ rate # NIL => rate \in Rates /\ rate.num > 0 /\ rate.burst >= 1
        /\ window # NIL => window \in Windows /\ window.size > 0
    BY DEF SpecRecords, Validate
  <1>2. PICK b, g, l, c :
          /\ b = IF rate # NIL /\ algo # "gcra" THEN TB!NewState(rate, t) ELSE NIL
          /\ g = IF rate # NIL /\ algo = "gcra" THEN GC!NewGCRA(rate, t) ELSE NIL
          /\ l = IF window # NIL /\ algo # "slidingcounter"
                 THEN Log!NewLog(window.size, window.limit) ELSE NIL
          /\ c = IF window # NIL /\ algo = "slidingcounter"
                 THEN Ctr!NewCounter(window.size, window.limit, window.buckets) ELSE NIL
    OBVIOUS
  <1>3. NewLimiterState(p, t) = [tb |-> b, gcra |-> g, log |-> l, ctr |-> c]
    BY <1>2 DEF NewLimiterState
  <1> HIDE DEF rate, window, algo
  <1>4. b \in Buckets \cup {NIL}
    BY <1>1, <1>2, BucketNew
  <1>5. g \in GC!States \cup {NIL}
    BY <1>1, <1>2, MeterFresh
  <1>6. l \in Logs \cup {NIL}
    BY <1>1, <1>2, LogNew DEF Windows
  <1>7. c \in Counters \cup {NIL}
    BY <1>1, <1>2, CounterNew DEF Windows
  <1> QED
    BY <1>3, <1>4, <1>5, <1>6, <1>7 DEF WellFormed

-----------------------------------------------------------------------------
(* What a grant takes from each gate.                                      *)

\* What is granted was in the refilled bucket.
LEMMA BucketGrant ==
  ASSUME NEW b \in Buckets, NEW n \in 1..MaxTokens, NEW t \in Int,
         TB!Allow(b, n, t).out = "ok"
  PROVE  LET c == TB!Allow(b, n, t).st IN
         /\ c.grains + Grain * n <= b.burst
         /\ b.burst > 0
  <1> DEFINE r == TB!Refill(b, t)
  <1>1. Spends(b, r, 0, t)
    BY BucketRefill
  <1>2. /\ r.grains \in Nat /\ b.burst \in Nat /\ r.burst = b.burst /\ r.grains <= r.burst
        /\ r \in TB!States
    BY <1>1 DEF Spends, Buckets, TB!States
  <1>3. TB!Need(n) = Grain * n /\ TB!Need(n) \in Nat /\ Grain * n > 0
    BY NeedIs, ScaleAssumption
  <1> HIDE DEF r
  <1>4. /\ TB!Allow(b, n, t).st = [r EXCEPT !.grains = r.grains - TB!Need(n)]
        /\ TB!Need(n) <= r.grains
    BY <1>2 DEF TB!Allow, TB!Accept, TB!Refuse, TB!Impossible, TB!Panic, r
  <1>5. TB!Allow(b, n, t).st.grains = r.grains - TB!Need(n)
    BY <1>2, <1>4 DEF TB!States
  <1> QED
    BY <1>2, <1>3, <1>4, <1>5

\* What is granted fits between the clock and the allowance.
LEMMA MeterGrant ==
  ASSUME NEW g \in Meters, NEW n \in Nat \ {0}, NEW t \in Nat, Fits(g, t),
         GC!Allow(g, n, t).out = "ok"
  PROVE  LET h == GC!Allow(g, n, t).st IN
         /\ t + g.interval * n <= h.tat
         /\ h.tat <= t + g.limit
  <1>1. /\ g.tat \in Int /\ g.interval \in Nat /\ g.burst \in Nat /\ g.limit \in Nat
        /\ g.interval * n \in Int
    BY DEF Meters, GC!States
  <1>2. ~(g.interval = 0)
    BY DEF GC!Allow, GC!Impossible, GC!Refuse
  <1>3. g.interval * n > 0
    BY <1>1, <1>2
  <1>4. /\ GC!Allow(g, n, t).st = [g EXCEPT !.tat = MaxI(g.tat, t) + g.interval * n]
        /\ Moves(g, GC!Allow(g, n, t).st, n, t)
    BY MeterAllow
  <1>5. GC!Allow(g, n, t).st.tat = MaxI(g.tat, t) + g.interval * n
    BY <1>4 DEF Meters, GC!States
  <1>6. GC!Allow(g, n, t).st.tat <= MaxI(g.tat, t + g.limit)
    BY <1>4 DEF Moves
  <1> QED
    BY <1>1, <1>3, <1>5, <1>6 DEF MaxI

\* What a decision does to each gate: a grant passed them all, and a refusal
\* leaves at most the traces of a refusing window (state.go:56-69).
LEMMA AllowGates ==
  ASSUME NEW s \in GoodStates, NEW n \in 1..MaxTokens, NEW t \in Nat,
         s.gcra # NIL => Fits(s.gcra, t)
  PROVE  LET a == Allow(s, n, t)
             b == TB!Allow(s.tb, n, t)
             g == GC!Allow(s.gcra, n, t)
             l == Log!Allow(s.log, n, t)
             c == Ctr!Allow(s.ctr, n, t)
         IN /\ a.out = "ok" =>
                 /\ s.tb # NIL => b.out = "ok" /\ a.st.tb = b.st
                 /\ s.gcra # NIL => g.out = "ok" /\ a.st.gcra = g.st
                 /\ s.log # NIL => l.out = "ok" /\ a.st.log = l.st
                 /\ s.ctr # NIL => c.out = "ok" /\ a.st.ctr = c.st
            /\ a.out # "ok" =>
                 /\ a.st.log = s.log \/ (l.out # "ok" /\ a.st.log = l.st)
                 /\ a.st.ctr = s.ctr \/ (c.out # "ok" /\ a.st.ctr = c.st)
            /\ a.out = "deny" /\ a.reason = "window" =>
                 /\ s.tb # NIL => b.out = "ok" /\ a.st.tb = TB!Restore(b.st, n, t)
                 /\ s.gcra # NIL => g.out = "ok" /\ a.st.gcra = GC!Restore(g.st, n, t)
                 /\ s.log # NIL => l.out = "deny" /\ a.st.log = l.st
                 /\ s.ctr # NIL => c.out = "deny" /\ a.st.ctr = c.st
  <1> DEFINE r == AllowRate(s, n, t)
             w == AllowWindow(r.st, n, t)
             a == Allow(s, n, t)
             b == TB!Allow(s.tb, n, t)
             g == GC!Allow(s.gcra, n, t)
             l == Log!Allow(s.log, n, t)
             c == Ctr!Allow(s.ctr, n, t)
  <1>1. /\ Effect(s, r.st, IF r.out = "ok" THEN n ELSE 0, t)
        /\ r.st.log = s.log /\ r.st.ctr = s.ctr
    BY RateEffect
  <1>2. r.st \in GoodStates /\ SameGates(s, r.st)
    BY <1>1 DEF Effect
  <1>3. w.st \in GoodStates /\ w.st.tb = r.st.tb /\ w.st.gcra = r.st.gcra
    BY <1>2, WindowEffect
  <1>4. /\ s.tb # NIL => r.out = b.out /\ r.st = [s EXCEPT !.tb = b.st]
        /\ s.tb = NIL /\ s.gcra # NIL => r.out = g.out /\ r.st = [s EXCEPT !.gcra = g.st]
    BY DEF AllowRate, Step
  <1>5. /\ s.tb # NIL => r.out = b.out /\ r.st.tb = b.st
        /\ s.gcra # NIL => r.out = g.out /\ r.st.gcra = g.st
    BY <1>4, GoodFields
  <1>6. /\ s.log # NIL => w.out = l.out /\ w.st = [r.st EXCEPT !.log = l.st]
        /\ s.log = NIL /\ s.ctr # NIL => w.out = c.out /\ w.st = [r.st EXCEPT !.ctr = c.st]
        /\ s.log = NIL /\ s.ctr = NIL => w.st = r.st
    BY <1>1 DEF AllowWindow, Step, Accept
  <1> HIDE DEF r, b, g, l, c
  <1>7. /\ s.log # NIL => w.out = l.out /\ w.st.log = l.st /\ w.st.ctr = s.ctr
        /\ s.ctr # NIL => w.out = c.out /\ w.st.ctr = c.st /\ w.st.log = s.log
        /\ s.log = NIL => w.st.log = s.log
        /\ s.ctr = NIL => w.st.ctr = s.ctr
    BY <1>1, <1>2, <1>6, GoodFields
  <1> HIDE DEF w
  <1>8. CASE r.out # "ok"
    <2>1. a = r
      BY <1>8 DEF Allow, r
    <2>2. r.reason \in {"rate", "impossible", ""}
      BY DEF AllowRate, Step, r
    <2> HIDE DEF a
    <2>3. a.out # "ok" /\ a.reason # "window" /\ a.st.log = s.log /\ a.st.ctr = s.ctr
      BY <1>1, <1>8, <2>1, <2>2
    <2> QED
      BY <2>3 DEF a, b, g, l, c
  <1>9. CASE r.out = "ok" /\ w.out = "ok"
    <2>1. a = w
      BY <1>9 DEF Allow, r, w
    <2> HIDE DEF a
    <2> QED
      BY <1>3, <1>5, <1>7, <1>9, <2>1 DEF a, b, g, l, c
  <1>10. CASE r.out = "ok" /\ w.out # "ok"
    <2>1. a.st = RestoreRate(w.st, n, t) /\ a.out = w.out
      BY <1>10 DEF Allow, AllowWindow, Step, r, w
    <2>2. w.st \in [tb: Buckets \cup {NIL}, gcra: Meters \cup {NIL},
                    log: Logs \cup {NIL}, ctr: Counters \cup {NIL}]
      BY <1>3 DEF GoodStates
    <2>3. PICK x, y : /\ x = IF w.st.tb = NIL THEN NIL ELSE TB!Restore(w.st.tb, n, t)
                      /\ y = IF w.st.gcra = NIL THEN NIL ELSE GC!Restore(w.st.gcra, n, t)
      OBVIOUS
    <2>4. RestoreRate(w.st, n, t) = [w.st EXCEPT !.tb = x, !.gcra = y]
      BY <2>3 DEF RestoreRate
    <2> HIDE DEF a
    <2>5. a.st = [tb |-> x, gcra |-> y, log |-> w.st.log, ctr |-> w.st.ctr]
      BY <2>1, <2>2, <2>4, RateFields
    <2>6. a.st.log = w.st.log /\ a.st.ctr = w.st.ctr /\ a.st.tb = x /\ a.st.gcra = y
      BY <2>5
    <2>7. /\ s.tb # NIL => b.out = "ok" /\ a.st.tb = TB!Restore(b.st, n, t)
          /\ s.gcra # NIL => g.out = "ok" /\ a.st.gcra = GC!Restore(g.st, n, t)
      <3>1. /\ s.tb # NIL => w.st.tb = b.st /\ w.st.tb # NIL /\ b.out = "ok"
            /\ s.gcra # NIL => w.st.gcra = g.st /\ w.st.gcra # NIL /\ g.out = "ok"
        BY <1>2, <1>3, <1>5, <1>10 DEF SameGates
      <3> QED
        BY <2>3, <2>6, <3>1
    <2>8. a.out = "deny" =>
            /\ s.log # NIL => l.out = "deny" /\ a.st.log = l.st
            /\ s.ctr # NIL => c.out = "deny" /\ a.st.ctr = c.st
      BY <1>7, <2>1, <2>6
    <2>9. /\ a.out # "ok"
          /\ a.st.log = s.log \/ (l.out # "ok" /\ a.st.log = l.st)
          /\ a.st.ctr = s.ctr \/ (c.out # "ok" /\ a.st.ctr = c.st)
      BY <1>7, <1>10, <2>1, <2>6
    <2> HIDE DEF a
    <2> QED
      BY <2>7, <2>8, <2>9 DEF a, b, g, l, c
  <1> QED
    BY <1>8, <1>9, <1>10

-----------------------------------------------------------------------------
(* How many timestamps of a ring lie after a given time.                   *)

Newer(ring, T) == {p \in 1..Len(ring) : ring[p] > T}

\* Newer events are finitely many.
LEMMA NewerFinite ==
  ASSUME NEW ring \in Seq(Int), NEW T \in Int
  PROVE  /\ IsFiniteSet(Newer(ring, T))
         /\ Cardinality(Newer(ring, T)) \in Nat
         /\ Cardinality(Newer(ring, T)) <= Len(ring)
  <1>1. PICK S : S = 1..Len(ring)
    OBVIOUS
  <1>2. Len(ring) \in Nat
    OBVIOUS
  <1>3. IsFiniteSet(S) /\ Cardinality(S) = Len(ring)
    BY SMTT(30), <1>1, <1>2, FS_Interval
  <1>4. Newer(ring, T) \in SUBSET S
    BY <1>1 DEF Newer
  <1> QED
    BY <1>3, <1>4, FS_Subset, FS_CardinalityType

\* Pruning drops the longest prefix that lies before the cutoff, and no more.
LEMMA PruneDrops ==
  ASSUME NEW ring \in Seq(Int), NEW cut \in Int
  PROVE  \E k \in 0..Len(ring) :
           /\ Log!Prune(ring, cut) = SubSeq(ring, k + 1, Len(ring))
           /\ \A p \in 1..k : ring[p] <= cut
           /\ k < Len(ring) => ring[k + 1] > cut
  <1> DEFINE gone == {i \in 1..Len(ring) : \A j \in 1..i : ring[j] <= cut}
             kept == {i \in 1..(Len(ring) + 1) : i \notin gone}
  <1>1. Len(ring) \in Nat /\ \A p \in 1..Len(ring) : ring[p] \in Int
    OBVIOUS
  <1>2. kept \in SUBSET Nat /\ Len(ring) + 1 \in kept
    BY <1>1
  <1>3. PICK x \in kept : \A y \in kept : x <= y
    <2> HIDE DEF kept
    <2> QED
      BY <1>2, LeastNumber
  <1>4. PICK k : k = x - 1
    OBVIOUS
  <1>5. k \in 0..Len(ring) /\ x = k + 1
    BY <1>1, <1>3, <1>4
  <1>6. \A p \in 1..k : p \in gone
    BY <1>1, <1>3, <1>5
  <1>7. \A p \in 1..k : ring[p] <= cut
    BY <1>1, <1>5, <1>6
  <1>8. k < Len(ring) => ring[k + 1] > cut
    <2> SUFFICES ASSUME k < Len(ring), ~(ring[k + 1] > cut)
                 PROVE  FALSE
      OBVIOUS
    <2>1. k + 1 \in 1..Len(ring) /\ ring[k + 1] <= cut
      BY <1>1, <1>5
    <2>2. \A j \in 1..(k + 1) : ring[j] <= cut
      BY <1>5, <1>7, <2>1
    <2> QED
      BY <1>3, <1>5, <2>1, <2>2
  <1>9. gone = 1..k
    <2>1. ASSUME NEW p \in gone
          PROVE  p \in 1..k
      <3>1. p \in 1..Len(ring) /\ \A j \in 1..p : ring[j] <= cut
        OBVIOUS
      <3> HIDE DEF gone
      <3> QED
        BY <1>1, <1>5, <1>8, <3>1
    <2> QED
      BY <1>6, <2>1
  <1> HIDE DEF gone
  <1>10. Cardinality(1..k) = k
    BY <1>5, FS_Interval
  <1>11. Log!Prune(ring, cut) = SubSeq(ring, k + 1, Len(ring))
    <2>1. Log!Cardinality(gone) = k
      BY <1>9, <1>10, LogCardinality
    <2> QED
      BY <2>1 DEF Log!Prune, gone
  <1> QED
    BY <1>5, <1>7, <1>8, <1>11

\* Pruning before T takes no event later than T.
LEMMA NewerPruned ==
  ASSUME NEW ring \in Seq(Int), NEW cut \in Int, NEW T \in Int, cut <= T
  PROVE  Cardinality(Newer(ring, T)) <= Cardinality(Newer(Log!Prune(ring, cut), T))
  <1>1. PICK k \in 0..Len(ring) : /\ Log!Prune(ring, cut) = SubSeq(ring, k + 1, Len(ring))
                                  /\ \A p \in 1..k : ring[p] <= cut
    BY PruneDrops
  <1>2. PICK kept : kept = SubSeq(ring, k + 1, Len(ring))
    OBVIOUS
  <1>3. /\ Len(ring) \in Nat /\ \A p \in 1..Len(ring) : ring[p] \in Int
        /\ \A p \in (k + 1)..Len(ring) : ring[p] \in Int
    OBVIOUS
  <1>4. /\ kept \in Seq(Int) /\ Len(kept) = Len(ring) - k
        /\ \A p \in 1..(Len(ring) - k) : kept[p] = ring[k + p]
    <2>1. k + 1 \in 1..(Len(ring) + 1) /\ Len(ring) \in k..Len(ring)
      BY <1>3
    <2>2. /\ kept \in Seq(Int)
          /\ Len(kept) = IF k + 1 <= Len(ring) THEN Len(ring) - (k + 1) + 1 ELSE 0
          /\ \A p \in 1..(Len(ring) - (k + 1) + 1) : kept[p] = ring[k + 1 + p - 1]
      BY <1>2, <1>3, SubSeqProperties
    <2> QED
      BY <1>3, <2>2
  <1>5. PICK A, B : A = Newer(ring, T) /\ B = Newer(kept, T)
    OBVIOUS
  <1> DEFINE f == [p \in A |-> p - k]
  <1>6. ASSUME NEW p \in A
        PROVE  p - k \in B
    <2>1. p \in 1..Len(ring) /\ ring[p] > T
      BY <1>5 DEF Newer
    <2>2. p > k
      BY <1>1, <1>3, <2>1
    <2>3. p - k \in 1..Len(kept) /\ kept[p - k] = ring[p]
      BY <1>3, <1>4, <2>1, <2>2
    <2> QED
      BY <1>5, <2>1, <2>3 DEF Newer
  <1>7. \A p, q \in A : f[p] = f[q] => p = q
    BY <1>5 DEF Newer
  <1>8. f \in Injection(A, B)
    BY <1>6, <1>7 DEF Injection, IsInjective
  <1>9. IsFiniteSet(B)
    BY <1>4, <1>5, NewerFinite
  <1>10. Cardinality(A) <= Cardinality(B)
    BY <1>8, <1>9, FS_Injection
  <1> QED
    BY <1>1, <1>2, <1>5, <1>10

\* n events pushed at t are n more than were newer, or none if t is not.
LEMMA NewerPushed ==
  ASSUME NEW ring \in Seq(Int), NEW t \in Int, NEW n \in Nat, NEW T \in Int
  PROVE  Cardinality(Newer(ring, T)) + (IF t > T THEN n ELSE 0)
           <= Cardinality(Newer(Log!PushN(ring, t, n), T))
  <1>1. PICK m, more, grown : /\ m = Len(ring) /\ more = [i \in 1..n |-> t]
                              /\ grown = ring \o more
    OBVIOUS
  <1>2. m \in Nat /\ more \in Seq(Int) /\ Len(more) = n
    BY <1>1
  <1>3. /\ grown \in Seq(Int) /\ Len(grown) = m + n
        /\ \A p \in 1..m : grown[p] = ring[p]
        /\ \A p \in (m + 1)..(m + n) : grown[p] = t
    BY <1>1, <1>2
  <1>4. PICK A, B, C : /\ A = Newer(ring, T) /\ B = Newer(grown, T)
                       /\ C = (m + 1)..(m + n)
    OBVIOUS
  <1>5. A \subseteq B /\ A \cap C = {}
    BY <1>1, <1>2, <1>3, <1>4 DEF Newer
  <1>6. /\ IsFiniteSet(A) /\ IsFiniteSet(B) /\ IsFiniteSet(C)
        /\ Cardinality(A) \in Nat /\ Cardinality(B) \in Nat /\ Cardinality(C) = n
    <2>1. m + 1 \in Int /\ m + n \in Int
      BY <1>2
    <2>2. IsFiniteSet(C) /\ Cardinality(C) = n
      BY <1>2, <1>4, <2>1, FS_Interval
    <2> QED
      BY <1>3, <1>4, <2>2, NewerFinite
  <1>7. CASE t > T
    <2>1. C \subseteq B
      BY <1>2, <1>3, <1>4, <1>7 DEF Newer
    <2>2. PICK D : D = A \cup C
      OBVIOUS
    <2>3. D \in SUBSET B /\ Cardinality(D) = Cardinality(A) + n
      <3>1. Cardinality(A \cap C) = 0
        BY <1>5, FS_EmptySet
      <3>2. Cardinality(D) = Cardinality(A) + Cardinality(C) - Cardinality(A \cap C)
        BY <1>6, <2>2, FS_Union
      <3>3. D \in SUBSET B
        BY <1>5, <2>1, <2>2
      <3> QED
        BY <1>6, <3>1, <3>2, <3>3
    <2>4. Cardinality(D) <= Cardinality(B)
      BY <1>6, <2>3, FS_Subset
    <2> QED
      BY <1>1, <1>4, <1>7, <2>3, <2>4 DEF Log!PushN
  <1>8. CASE ~(t > T)
    <2>1. Cardinality(A) <= Cardinality(B)
      BY <1>5, <1>6, FS_Subset
    <2> QED
      BY <1>1, <1>4, <1>6, <1>8, <2>1 DEF Log!PushN
  <1> QED
    BY <1>7, <1>8

\* Popping the newest n takes no more than n, and nothing of what lies after
\* T if the ones popped do not.
LEMMA NewerPopped ==
  ASSUME NEW ring \in Seq(Int), NEW n \in Nat, NEW T \in Int
  PROVE  LET left == Cardinality(Newer(Log!PopNewestN(ring, n), T)) IN
         /\ Cardinality(Newer(ring, T)) <= left + n
         /\ (\A j \in 1..Len(ring) : j > Len(ring) - n => ring[j] <= T)
              => Cardinality(Newer(ring, T)) <= left
  <1>1. PICK m, k, short : /\ m = Len(ring) /\ k = Len(ring) - n
                           /\ short = SubSeq(ring, 1, k)
    OBVIOUS
  <1>2. m \in Nat /\ k \in Int /\ k = m - n /\ \A p \in 1..k : ring[p] \in Int
    BY <1>1
  <1>3. /\ short \in Seq(Int)
        /\ Len(short) = IF 1 <= k THEN k ELSE 0
        /\ \A p \in 1..k : short[p] = ring[p]
    <2>1. /\ short \in Seq(Int)
          /\ Len(short) = IF 1 <= k THEN k - 1 + 1 ELSE 0
          /\ \A p \in 1..(k - 1 + 1) : short[p] = ring[1 + p - 1]
      BY <1>1, <1>2, SubSeqProperties
    <2> QED
      BY <1>2, <2>1
  <1>4. PICK A, B, C : /\ A = Newer(ring, T) /\ B = Newer(short, T)
                       /\ C = (k + 1)..m
    OBVIOUS
  <1>5. /\ IsFiniteSet(A) /\ IsFiniteSet(B) /\ IsFiniteSet(C)
        /\ Cardinality(A) \in Nat /\ Cardinality(B) \in Nat
        /\ Cardinality(C) \in Nat /\ Cardinality(C) <= n
    <2>1. k + 1 \in Int /\ m \in Int
      BY <1>2
    <2>2. IsFiniteSet(C) /\ Cardinality(C) = IF k + 1 > m THEN 0 ELSE m - (k + 1) + 1
      BY <1>4, <2>1, FS_Interval
    <2>3. Cardinality(C) \in Nat /\ Cardinality(C) <= n
      BY <1>2, <2>2
    <2> QED
      BY <1>3, <1>4, <2>2, <2>3, NewerFinite
  <1>6. A \in SUBSET (B \cup C)
    BY <1>1, <1>2, <1>3, <1>4 DEF Newer
  <1>7. Cardinality(A) <= Cardinality(B) + n
    <2>1. PICK D : D = B \cup C
      OBVIOUS
    <2>2. /\ IsFiniteSet(D)
          /\ Cardinality(D) = Cardinality(B) + Cardinality(C) - Cardinality(B \cap C)
      BY <1>5, <2>1, FS_Union
    <2>3. Cardinality(B \cap C) \in Nat
      BY <1>5, FS_Intersection, FS_CardinalityType
    <2>4. Cardinality(A) <= Cardinality(D)
      BY <1>6, <2>1, <2>2, FS_Subset
    <2> QED
      BY <1>5, <2>2, <2>3, <2>4
  <1>8. ASSUME \A j \in 1..Len(ring) : j > Len(ring) - n => ring[j] <= T
        PROVE  Cardinality(A) <= Cardinality(B)
    <2>1. A \in SUBSET B
      <3>1. ASSUME NEW p \in A
            PROVE  p \in B
        <4>1. p \in 1..m /\ ring[p] > T /\ ring[p] \in Int /\ T \in Int
          BY <1>1, <1>4 DEF Newer
        <4>2. ~(p > m - n)
          BY <1>1, <1>8, <4>1
        <4>3. p \in 1..k
          BY <1>2, <4>1, <4>2
        <4>4. p \in 1..Len(short) /\ short[p] = ring[p]
          BY <1>2, <1>3, <4>3
        <4> QED
          BY <1>4, <4>1, <4>4 DEF Newer
      <3> QED
        BY <3>1
    <2> QED
      BY <1>5, <2>1, FS_Subset
  <1> QED
    BY <1>1, <1>4, <1>7, <1>8 DEF Log!PopNewestN

\* One decision of the log, as the events later than T see it.
LEMMA LogDecides ==
  ASSUME NEW l \in Logs, NEW n \in Nat \ {0}, NEW t \in Int, NEW T \in Int,
         t - l.size <= T
  PROVE  LET r == Log!Allow(l, n, t) IN
         /\ r.st.size = l.size /\ r.st.limit = l.limit
         /\ Cardinality(Newer(l.ring, T)) + (IF r.out = "ok" /\ t > T THEN n ELSE 0)
              <= Cardinality(Newer(r.st.ring, T))
  <1> DEFINE r == Log!Allow(l, n, t)
             cut == Log!Cutoff(l, t)
             ring == Log!Prune(l.ring, cut)
             grown == Log!PushN(ring, t, n)
  <1>1. /\ l.ring \in Seq(Int) /\ l.size \in Nat /\ l.limit \in Nat /\ cut \in Int /\ cut <= T
        /\ l \in Log!States
    BY DEF Logs, Log!States, Log!Cutoff
  <1>2. ring \in Seq(Int) /\ Cardinality(Newer(l.ring, T)) <= Cardinality(Newer(ring, T))
    BY <1>1, LogPrune, NewerPruned
  <1>3. Cardinality(Newer(l.ring, T)) \in Nat /\ Cardinality(Newer(ring, T)) \in Nat
    BY <1>1, <1>2, NewerFinite
  <1>4. Cardinality(Newer(ring, T)) + (IF t > T THEN n ELSE 0) <= Cardinality(Newer(grown, T))
    BY <1>2, NewerPushed
  <1>5. /\ grown \in Seq(Int) /\ Cardinality(Newer(grown, T)) \in Nat
    <2>1. grown \in Seq(Int)
      <3>1. PICK more : more = [i \in 1..n |-> t]
        OBVIOUS
      <3>2. more \in Seq(Int)
        BY <3>1
      <3>3. ring \o more \in Seq(Int)
        BY <1>2, <3>2, ConcatProperties
      <3> QED
        BY <3>1, <3>3 DEF Log!PushN
    <2> QED
      BY <2>1, NewerFinite
  <1>6. \/ r = Log!Impossible(l)
        \/ r = Log!Accept([l EXCEPT !.ring = grown])
        \/ r = Log!Refuse([l EXCEPT !.ring = ring],
                          Log!Wait(l, ring, Len(ring) + n - l.limit, t))
    BY DEF Log!Allow
  <1> HIDE DEF r, ring, grown, cut
  <1>7. \/ r.out # "ok" /\ r.st = l
        \/ r.out = "ok" /\ r.st = [l EXCEPT !.ring = grown]
        \/ r.out # "ok" /\ r.st = [l EXCEPT !.ring = ring]
    BY <1>6 DEF Log!Accept, Log!Refuse, Log!Impossible
  <1>8. /\ [l EXCEPT !.ring = grown].ring = grown /\ [l EXCEPT !.ring = ring].ring = ring
        /\ [l EXCEPT !.ring = grown].size = l.size /\ [l EXCEPT !.ring = ring].size = l.size
        /\ [l EXCEPT !.ring = grown].limit = l.limit /\ [l EXCEPT !.ring = ring].limit = l.limit
    BY <1>1 DEF Log!States
  <1>9. Cardinality(Newer(l.ring, T)) + (IF r.out = "ok" /\ t > T THEN n ELSE 0)
          <= Cardinality(Newer(r.st.ring, T))
    <2>1. PICK a, b, c \in Nat : /\ a = Cardinality(Newer(l.ring, T))
                                 /\ b = Cardinality(Newer(ring, T))
                                 /\ c = Cardinality(Newer(grown, T))
      BY <1>3, <1>5
    <2>2. a <= b /\ b + (IF t > T THEN n ELSE 0) <= c
      BY <1>2, <1>4, <2>1
    <2>3. CASE r.out # "ok" /\ r.st = l
      BY <2>1, <2>3
    <2>4. CASE r.out = "ok" /\ r.st = [l EXCEPT !.ring = grown]
      <3>1. r.st.ring = grown
        BY <1>8, <2>4
      <3>2. a + (IF t > T THEN n ELSE 0) <= c
        BY <2>2
      <3> QED
        BY <2>1, <2>4, <3>1, <3>2
    <2>5. CASE r.out # "ok" /\ r.st = [l EXCEPT !.ring = ring]
      <3>1. r.st.ring = ring
        BY <1>8, <2>5
      <3> QED
        BY <2>1, <2>2, <2>5, <3>1
    <2> QED
      BY <1>7, <2>3, <2>4, <2>5
  <1> QED
    BY <1>7, <1>8, <1>9 DEF r

\* Peeking leaves the log as it is, and of the counter at most advances it.
LEMMA PeekGates ==
  ASSUME NEW s \in GoodStates, NEW n \in 1..MaxTokens, NEW t \in Nat
  PROVE  LET u == Peek(s, n, t).st IN
         /\ u.log = s.log
         /\ u.ctr = s.ctr \/ u.ctr = Ctr!Peek(s.ctr, n, t).st
  <1> DEFINE r == PeekRate(s, n, t)
             w == PeekWindow(r.st, n, t)
             b == TB!Peek(s.tb, n, t).st
  <1>1. r.st = s \/ r.st = [s EXCEPT !.tb = b]
    BY DEF PeekRate, Step, Accept
  <1>2. s = [tb |-> s.tb, gcra |-> s.gcra, log |-> s.log, ctr |-> s.ctr]
    BY GoodFields
  <1> HIDE DEF r, b
  <1>3. /\ r.st.log = s.log /\ r.st.ctr = s.ctr
        /\ r.st = [tb |-> r.st.tb, gcra |-> r.st.gcra, log |-> s.log, ctr |-> s.ctr]
    BY <1>1, <1>2
  <1>4. w.st = r.st \/ w.st = [r.st EXCEPT !.ctr = Ctr!Peek(s.ctr, n, t).st]
    BY <1>3 DEF PeekWindow, Step, Accept
  <1> HIDE DEF w
  <1>5. Peek(s, n, t) \in {r, w}
    BY DEF Peek, r, w
  <1>6. /\ w.st.log = s.log
        /\ w.st.ctr = s.ctr \/ w.st.ctr = Ctr!Peek(s.ctr, n, t).st
    BY <1>3, <1>4
  <1> QED
    BY <1>3, <1>5, <1>6

\* What a restore makes of each gate (state.go:148).
LEMMA RestoreIs ==
  ASSUME NEW s \in GoodStates, NEW n, NEW t
  PROVE  Restore(s, n, t)
           = [tb |-> IF s.tb = NIL THEN NIL ELSE TB!Restore(s.tb, n, t),
              gcra |-> IF s.gcra = NIL THEN NIL ELSE GC!Restore(s.gcra, n, t),
              log |-> IF s.log = NIL THEN NIL ELSE Log!Restore(s.log, n),
              ctr |-> IF s.ctr = NIL THEN NIL ELSE Ctr!Restore(s.ctr, n)]
  <1> DEFINE u == Restore(s, n, t)
  <1>1. PICK l : l = IF s.log = NIL THEN NIL ELSE Log!Restore(s.log, n)
    OBVIOUS
  <1>2. PICK c : c = IF s.ctr = NIL THEN NIL ELSE Ctr!Restore(s.ctr, n)
    OBVIOUS
  <1>3. PICK x : x = IF s.tb = NIL THEN NIL ELSE TB!Restore(s.tb, n, t)
    OBVIOUS
  <1>4. PICK y : y = IF s.gcra = NIL THEN NIL ELSE GC!Restore(s.gcra, n, t)
    OBVIOUS
  <1>5. PICK v : v = [s EXCEPT !.log = l, !.ctr = c]
    OBVIOUS
  <1>6. s \in [tb: Buckets \cup {NIL}, gcra: Meters \cup {NIL},
               log: Logs \cup {NIL}, ctr: Counters \cup {NIL}]
    BY DEF GoodStates
  <1>7. v = [tb |-> s.tb, gcra |-> s.gcra, log |-> l, ctr |-> c]
    BY <1>5, <1>6, WindowFields
  <1>8. u = [v EXCEPT !.tb = x, !.gcra = y]
    <2>1. v.tb = s.tb /\ v.gcra = s.gcra
      BY <1>7
    <2>2. u = RestoreRate(v, n, t)
      BY <1>1, <1>2, <1>5 DEF Restore
    <2> HIDE DEF u
    <2> QED
      BY <1>3, <1>4, <2>1, <2>2 DEF RestoreRate
  <1>9. PICK A, B, C, D : v \in [tb: A, gcra: B, log: C, ctr: D]
    <2>1. v \in [tb: {s.tb}, gcra: {s.gcra}, log: {l}, ctr: {c}]
      BY <1>7
    <2> QED
      BY <2>1
  <1>10. [v EXCEPT !.tb = x, !.gcra = y]
           = [tb |-> x, gcra |-> y, log |-> v.log, ctr |-> v.ctr]
    <2>1. [v EXCEPT !.tb = x, !.gcra = y] = [[v EXCEPT !.tb = x] EXCEPT !.gcra = y]
      BY <1>9
    <2>2. [v EXCEPT !.tb = x]
            = [tb |-> x, gcra |-> v.gcra, log |-> v.log, ctr |-> v.ctr]
      BY <1>9
    <2>3. [[tb |-> x, gcra |-> v.gcra, log |-> v.log, ctr |-> v.ctr] EXCEPT !.gcra = y]
            = [tb |-> x, gcra |-> y, log |-> v.log, ctr |-> v.ctr]
      OBVIOUS
    <2> QED
      BY <2>1, <2>2, <2>3
  <1>11. v.log = l /\ v.ctr = c
    BY <1>7
  <1>12. u = [tb |-> x, gcra |-> y, log |-> l, ctr |-> c]
    <2> HIDE DEF u
    <2> QED
      BY <1>8, <1>10, <1>11
  <1>13. u = Restore(s, n, t)
    OBVIOUS
  <1> HIDE DEF u
  <1> QED
    BY <1>1, <1>2, <1>3, <1>4, <1>12, <1>13

-----------------------------------------------------------------------------
(* What is taken and given back at the same instant.                       *)

\* A bucket gets back exactly what a grant took.
LEMMA BucketRollback ==
  ASSUME NEW b \in Buckets, b.burst <= MaxU64, NEW n \in 1..MaxTokens, NEW t \in Int,
         TB!Allow(b, n, t).out = "ok"
  PROVE  TB!Restore(TB!Allow(b, n, t).st, n, t) = TB!Refill(b, t)
  <1>1. PICK r : r = TB!Refill(b, t)
    OBVIOUS
  <1>2. PICK need : need = TB!Need(n) /\ need \in Nat
    BY NeedIs
  <1>3. PICK c : c = [r EXCEPT !.grains = r.grains - need]
    OBVIOUS
  <1>4. Spends(b, r, 0, t)
    BY <1>1, BucketRefill
  <1>5. /\ r.grains \in Nat /\ r.rate \in Nat /\ r.burst \in Nat /\ r.last \in Int
        /\ r = [grains |-> r.grains, last |-> r.last, rate |-> r.rate, burst |-> r.burst]
        /\ r.grains <= r.burst /\ r.burst <= MaxU64 /\ MaxU64 \in Nat
        /\ TB!Stopped(r) \/ r.last = t
    BY <1>4, WidthAssumption DEF Spends, Buckets, TB!States, TB!Stopped
  <1>6. TB!Allow(b, n, t).st = c /\ r.grains >= need
    BY <1>1, <1>2, <1>3 DEF TB!Allow, TB!Accept, TB!Refuse, TB!Impossible, TB!Panic
  <1>7. c = [grains |-> r.grains - need, last |-> r.last, rate |-> r.rate, burst |-> r.burst]
    BY <1>3, <1>5
  <1>8. ~TB!RefillPanics(c, t) /\ TB!Refill(c, t) = c
    <2>1. TB!Stopped(c) \/ (~TB!Stopped(c) /\ c.last = t)
      BY <1>5, <1>7 DEF TB!Stopped
    <2>2. CASE TB!Stopped(c)
      BY <2>2 DEF TB!RefillPanics, TB!Refill
    <2>3. CASE ~TB!Stopped(c) /\ c.last = t
      <3>1. t <= c.last /\ ~(t > c.last)
        BY <2>3
      <3>2. [c EXCEPT !.last = t] = c
        BY <1>7, <2>3
      <3> QED
        BY <2>3, <3>1, <3>2 DEF TB!RefillPanics, TB!Refill
    <2> QED
      BY <2>1, <2>2, <2>3
  <1>9. TB!MinU64(c.burst, TB!SaturatingAddU64(c.grains, need)) = r.grains
    <2>1. c.burst = r.burst /\ c.grains = r.grains - need
      BY <1>7
    <2> QED
      BY <1>2, <1>5, <1>6, <2>1 DEF TB!MinU64, TB!SaturatingAddU64
  <1>10. TB!Restore(c, n, t) = [c EXCEPT !.grains = r.grains]
    BY <1>2, <1>8, <1>9 DEF TB!Restore
  <1>11. [c EXCEPT !.grains = r.grains] = r
    BY <1>5, <1>7
  <1> QED
    BY <1>1, <1>6, <1>10, <1>11

\* A log gets rid of exactly what a grant put in; a refusal only prunes.
LEMMA LogRollback ==
  ASSUME NEW l \in Logs, NEW n \in Nat \ {0}, NEW t \in Int
  PROVE  LET r == Log!Allow(l, n, t)
             settled == [l EXCEPT !.ring = Log!Prune(l.ring, t - l.size)]
         IN /\ r.out = "ok" => Log!Restore(r.st, n) = settled
            /\ r.out = "deny" => r.st = settled
  <1>1. PICK ring : ring = Log!Prune(l.ring, t - l.size)
    OBVIOUS
  <1>2. PICK grown : grown = Log!PushN(ring, t, n)
    OBVIOUS
  <1>3. PICK r : r = Log!Allow(l, n, t)
    OBVIOUS
  <1>4. /\ l = [ring |-> l.ring, size |-> l.size, limit |-> l.limit]
        /\ l.ring \in Seq(Int) /\ l.size \in Nat
    BY DEF Logs, Log!States
  <1>5. ring \in Seq(Int)
    BY <1>1, <1>4, LogPrune
  <1>6. /\ r.out = "ok" => r.st = [l EXCEPT !.ring = grown]
        /\ r.out = "deny" => r.st = [l EXCEPT !.ring = ring]
    BY <1>1, <1>2, <1>3
    DEF Log!Allow, Log!Accept, Log!Refuse, Log!Impossible, Log!Cutoff
  <1>7. Log!PopNewestN(grown, n) = ring
    <2>1. PICK more : more = [i \in 1..n |-> t]
      OBVIOUS
    <2>2. more \in Seq(Int) /\ Len(more) = n
      BY <2>1
    <2>3. grown = ring \o more
      BY <1>2, <2>1 DEF Log!PushN
    <2>4. Len(grown) = Len(ring) + n /\ Len(ring) \in Nat
      <3>1. Len(ring \o more) = Len(ring) + Len(more) /\ Len(ring) \in Nat
        BY <1>5, <2>2
      <3> QED
        BY <2>2, <2>3, <3>1
    <2>5. SubSeq(ring \o more, 1, Len(ring)) = ring
      <3>1. /\ Len(ring \o more) = Len(ring) + Len(more) /\ ring \o more \in Seq(Int)
            /\ \A i \in 1..Len(ring) : (ring \o more)[i] = ring[i]
        BY <1>5, <2>2
      <3>2. PICK u : u = SubSeq(ring \o more, 1, Len(ring))
        OBVIOUS
      <3>3. /\ u \in Seq(Int) /\ Len(u) = Len(ring)
            /\ \A i \in 1..Len(ring) : u[i] = ring[i]
        BY <1>5, <2>2, <2>4, <3>1, <3>2
      <3> QED
        BY <1>5, <3>2, <3>3
    <2>6. Len(grown) - n = Len(ring)
      BY <2>4
    <2> QED
      BY <2>3, <2>5, <2>6 DEF Log!PopNewestN
  <1>8. Log!Restore([l EXCEPT !.ring = grown], n) = [l EXCEPT !.ring = ring]
    BY <1>4, <1>7 DEF Log!Restore
  <1> QED
    BY <1>1, <1>3, <1>6, <1>8

\* So does a counter, whose refusal only brings it to the clock.
LEMMA CounterRollback ==
  ASSUME NEW c \in Counters, NEW n \in Nat \ {0}, NEW t \in Int
  PROVE  LET r == Ctr!Allow(c, n, t) IN
         /\ r.out = "ok" => Ctr!Restore(r.st, n) = Ctr!Advance(c, t)
         /\ r.out = "deny" => r.st = Ctr!Advance(c, t)
  <1>1. PICK a : a = Ctr!Advance(c, t)
    OBVIOUS
  <1>2. PICK k : k = c.buckets
    OBVIOUS
  <1>3. PICK r : r = Ctr!Allow(c, n, t)
    OBVIOUS
  <1>4. a \in Counters /\ a.buckets = k
    BY <1>1, <1>2, CounterAdvance
  <1>5. /\ a.counts \in Seq(Nat) /\ Len(a.counts) = k /\ k \in 1..k
        /\ a = [size |-> a.size, limit |-> a.limit, buckets |-> k, width |-> a.width,
                counts |-> a.counts, start |-> a.start, init |-> a.init]
    BY SMTT(30), <1>4 DEF Counters, Ctr!States
  <1>6. PICK f : f = [a.counts EXCEPT ![k] = a.counts[k] + n]
    OBVIOUS
  <1>7. PICK b : b = [a EXCEPT !.counts = f]
    OBVIOUS
  <1>8. /\ r.out = "ok" => r.st = b
        /\ r.out = "deny" => r.st = a
    BY <1>1, <1>2, <1>3, <1>6, <1>7
    DEF Ctr!Allow, Ctr!Accept, Ctr!Refuse, Ctr!Impossible
  <1>9. b = [size |-> a.size, limit |-> a.limit, buckets |-> k, width |-> a.width,
             counts |-> f, start |-> a.start, init |-> a.init]
    BY SMTT(30), <1>5, <1>7
  <1>10. a.counts[k] \in Nat /\ f[k] = a.counts[k] + n
    BY <1>5, <1>6
  <1>11. [f EXCEPT ![k] = Ctr!MaxI(f[k] - n, 0)] = a.counts
    <2>1. Ctr!MaxI(f[k] - n, 0) = a.counts[k]
      BY <1>10 DEF Ctr!MaxI
    <2>2. [f EXCEPT ![k] = a.counts[k]] = a.counts
      <3>1. PICK s : s = a.counts
        OBVIOUS
      <3>2. s \in [1..k -> Nat] /\ k \in 1..k
        BY <1>5, <3>1
      <3>3. PICK x : x = s[k] + n
        OBVIOUS
      <3>4. [[s EXCEPT ![k] = x] EXCEPT ![k] = s[k]] = s
        BY <3>2
      <3> QED
        BY <1>6, <3>1, <3>3, <3>4
    <2> QED
      BY <2>1, <2>2
  <1>12. Ctr!Restore(b, n) = a
    <2>1. b.buckets = k /\ b.counts = f
      BY <1>9
    <2>2. Ctr!Restore(b, n) = [b EXCEPT !.counts = [f EXCEPT ![k] = Ctr!MaxI(f[k] - n, 0)]]
      BY <2>1 DEF Ctr!Restore
    <2>3. [b EXCEPT !.counts = a.counts] = a
      BY <1>5, <1>9
    <2> QED
      BY <1>11, <2>2, <2>3
  <1> QED
    BY <1>1, <1>3, <1>8, <1>12

\* The state of a limiter that has let nothing in at time t.
SettledAt(s, t) ==
  [tb |-> IF s.tb = NIL THEN NIL ELSE TB!Refill(s.tb, t),
   gcra |-> IF s.gcra = NIL THEN NIL ELSE [s.gcra EXCEPT !.tat = MaxI(s.gcra.tat, t)],
   log |-> IF s.log = NIL THEN NIL
           ELSE [s.log EXCEPT !.ring = Log!Prune(s.log.ring, t - s.log.size)],
   ctr |-> IF s.ctr = NIL THEN NIL ELSE Ctr!Advance(s.ctr, t)]

\* A grant given back at once, and a refusal by the window, settle the state.
LEMMA DecisionRollback ==
  ASSUME NEW s \in GoodStates, NEW n \in 1..MaxTokens, NEW t \in Nat,
         s.gcra # NIL => Fits(s.gcra, t), s.tb # NIL => s.tb.burst <= MaxU64
  PROVE  LET a == Allow(s, n, t) IN
         /\ a.out = "ok" => Restore(a.st, n, t) = SettledAt(s, t)
         /\ a.out = "deny" /\ a.reason = "window" => a.st = SettledAt(s, t)
  <1>1. PICK a : a = Allow(s, n, t)
    OBVIOUS
  <1>2. PICK b, g, l, c : /\ b = TB!Allow(s.tb, n, t) /\ g = GC!Allow(s.gcra, n, t)
                          /\ l = Log!Allow(s.log, n, t) /\ c = Ctr!Allow(s.ctr, n, t)
    OBVIOUS
  <1>3. n \in Nat \ {0} /\ t \in Int
    BY ScaleAssumption
  <1>4. /\ s.tb # NIL => s.tb \in Buckets
        /\ s.gcra # NIL => s.gcra \in Meters
        /\ s.log # NIL => s.log \in Logs
        /\ s.ctr # NIL => s.ctr \in Counters
    BY GoodFields
  <1>5. PICK tb, gcra, log, ctr :
          /\ tb = IF s.tb = NIL THEN NIL ELSE TB!Refill(s.tb, t)
          /\ gcra = IF s.gcra = NIL THEN NIL ELSE [s.gcra EXCEPT !.tat = MaxI(s.gcra.tat, t)]
          /\ log = IF s.log = NIL THEN NIL
                   ELSE [s.log EXCEPT !.ring = Log!Prune(s.log.ring, t - s.log.size)]
          /\ ctr = IF s.ctr = NIL THEN NIL ELSE Ctr!Advance(s.ctr, t)
    OBVIOUS
  <1>6. SettledAt(s, t) = [tb |-> tb, gcra |-> gcra, log |-> log, ctr |-> ctr]
    BY <1>5 DEF SettledAt
  <1>7. s.tb # NIL /\ b.out = "ok" => TB!Restore(b.st, n, t) = tb
    BY <1>2, <1>3, <1>4, <1>5, BucketRollback
  <1>8. s.gcra # NIL /\ g.out = "ok" => GC!Restore(g.st, n, t) = gcra
    BY <1>2, <1>3, <1>4, <1>5, MeterRollback
  <1>9. s.log # NIL => /\ l.out = "ok" => Log!Restore(l.st, n) = log
                       /\ l.out = "deny" => l.st = log
    BY <1>2, <1>3, <1>4, <1>5, LogRollback
  <1>10. s.ctr # NIL => /\ c.out = "ok" => Ctr!Restore(c.st, n) = ctr
                        /\ c.out = "deny" => c.st = ctr
    BY <1>2, <1>3, <1>4, <1>5, CounterRollback
  <1>11. /\ a.st \in GoodStates
         /\ (a.st.tb = NIL <=> s.tb = NIL) /\ (a.st.gcra = NIL <=> s.gcra = NIL)
         /\ (a.st.log = NIL <=> s.log = NIL) /\ (a.st.ctr = NIL <=> s.ctr = NIL)
    BY <1>1, AllowEffect DEF Effect, SameGates
  <1>12. /\ a.out = "ok" =>
              /\ s.tb # NIL => b.out = "ok" /\ a.st.tb = b.st
              /\ s.gcra # NIL => g.out = "ok" /\ a.st.gcra = g.st
              /\ s.log # NIL => l.out = "ok" /\ a.st.log = l.st
              /\ s.ctr # NIL => c.out = "ok" /\ a.st.ctr = c.st
         /\ a.out = "deny" /\ a.reason = "window" =>
              /\ s.tb # NIL => b.out = "ok" /\ a.st.tb = TB!Restore(b.st, n, t)
              /\ s.gcra # NIL => g.out = "ok" /\ a.st.gcra = GC!Restore(g.st, n, t)
              /\ s.log # NIL => l.out = "deny" /\ a.st.log = l.st
              /\ s.ctr # NIL => c.out = "deny" /\ a.st.ctr = c.st
    BY <1>1, <1>2, AllowGates
  <1>13. ASSUME a.out = "ok"
         PROVE  Restore(a.st, n, t) = SettledAt(s, t)
    <2>1. Restore(a.st, n, t)
            = [tb |-> IF a.st.tb = NIL THEN NIL ELSE TB!Restore(a.st.tb, n, t),
               gcra |-> IF a.st.gcra = NIL THEN NIL ELSE GC!Restore(a.st.gcra, n, t),
               log |-> IF a.st.log = NIL THEN NIL ELSE Log!Restore(a.st.log, n),
               ctr |-> IF a.st.ctr = NIL THEN NIL ELSE Ctr!Restore(a.st.ctr, n)]
      BY <1>11, RestoreIs
    <2>2. (IF a.st.tb = NIL THEN NIL ELSE TB!Restore(a.st.tb, n, t)) = tb
      BY <1>5, <1>7, <1>11, <1>12, <1>13
    <2>3. (IF a.st.gcra = NIL THEN NIL ELSE GC!Restore(a.st.gcra, n, t)) = gcra
      BY <1>5, <1>8, <1>11, <1>12, <1>13
    <2>4. (IF a.st.log = NIL THEN NIL ELSE Log!Restore(a.st.log, n)) = log
      BY <1>5, <1>9, <1>11, <1>12, <1>13
    <2>5. (IF a.st.ctr = NIL THEN NIL ELSE Ctr!Restore(a.st.ctr, n)) = ctr
      BY <1>5, <1>10, <1>11, <1>12, <1>13
    <2> QED
      BY <1>6, <2>1, <2>2, <2>3, <2>4, <2>5
  <1>14. ASSUME a.out = "deny", a.reason = "window"
         PROVE  a.st = SettledAt(s, t)
    <2>1. a.st = [tb |-> a.st.tb, gcra |-> a.st.gcra, log |-> a.st.log, ctr |-> a.st.ctr]
      BY <1>11, GoodFields
    <2>2. a.st.tb = tb
      BY <1>5, <1>7, <1>11, <1>12, <1>14
    <2>3. a.st.gcra = gcra
      BY <1>5, <1>8, <1>11, <1>12, <1>14
    <2>4. a.st.log = log
      BY <1>5, <1>9, <1>11, <1>12, <1>14
    <2>5. a.st.ctr = ctr
      BY <1>5, <1>10, <1>11, <1>12, <1>14
    <2> QED
      BY <1>6, <2>1, <2>2, <2>3, <2>4, <2>5
  <1> QED
    BY <1>1, <1>13, <1>14

-----------------------------------------------------------------------------
(* The buckets of the sliding counter on the axis of time.                 *)

\* The bucket of a time begins at a multiple of the width and holds it.
LEMMA StartOf ==
  ASSUME NEW c \in Counters, NEW t \in Nat
  PROVE  LET b == Ctr!BucketStart(c, t) IN
         /\ b \in Nat /\ b <= t /\ t < b + c.width
         /\ \E q \in Nat : b = c.width * q
  <1>1. PICK w : w = c.width
    OBVIOUS
  <1>2. w \in Nat \ {0}
    BY <1>1 DEF Counters, Ctr!States
  <1>3. PICK q, r : q = t \div w /\ r = t % w
    OBVIOUS
  <1>4. q \in Nat /\ r \in 0..(w - 1) /\ t = w * q + r
    BY <1>2, <1>3
  <1>5. Ctr!BucketStart(c, t) = t - r
    BY <1>1, <1>3 DEF Ctr!BucketStart, Ctr!GoRem
  <1>6. w * q \in Nat
    BY <1>2, <1>4, NatProduct
  <1>7. t - r = w * q /\ w * q <= t /\ t < w * q + w
    BY <1>2, <1>4, <1>6
  <1> QED
    BY <1>1, <1>4, <1>5, <1>6, <1>7

\* The newest bucket begins at a multiple of the width.
Aligned(c) ==
  /\ \E q \in Int : Ctr!End(c) = c.width * q
  /\ Ctr!End(c) \in Int

\* Unless the clock is set back, advancing makes the newest bucket the one of
\* the clock; the one before it holds what was newest if that is its place, and
\* else nothing (counter.go:75).
LEMMA CounterSlides ==
  ASSUME NEW c \in Counters, NEW t \in Nat, c.init => Aligned(c)
  PROVE  LET a == Ctr!Advance(c, t)
             b == Ctr!BucketStart(c, t)
             k == c.buckets
         IN /\ a \in Counters /\ a.init
            /\ a.width = c.width /\ a.limit = c.limit /\ a.buckets = k
            /\ b <= Ctr!End(a) /\ Aligned(a)
            /\ ~c.init => Ctr!End(a) = b
            /\ c.init => \/ a = c
                         \/ /\ Ctr!End(c) + c.width <= b
                            /\ Ctr!End(a) = b
                            /\ a.counts[k] = 0
                            /\ a.counts[k - 1] = IF b = Ctr!End(c) + c.width
                                                 THEN c.counts[k] ELSE 0
  <1>1. PICK b, k, w, e : /\ b = Ctr!BucketStart(c, t) /\ k = c.buckets /\ w = c.width
                          /\ e = Ctr!End(c)
    OBVIOUS
  <1>2. PICK p : p = w * (k - 1)
    OBVIOUS
  <1>3. PICK q \in Nat : b = w * q /\ b \in Nat /\ b <= t /\ t < b + w
    BY <1>1, StartOf
  <1>a. /\ w \in Nat /\ w \in Nat \ {0} /\ w \in Int /\ k \in Nat /\ k >= 2
        /\ c.start \in Int
    BY <1>1 DEF Counters, Ctr!States
  <1>b. p \in Int
    <2>1. k - 1 \in Nat
      BY <1>a
    <2> QED
      BY <1>2, <1>a, <2>1, NatProduct
  <1>c. e = c.start + p /\ e \in Int
    <2>1. e = c.start + p
      BY <1>1, <1>2 DEF Ctr!End
    <2> QED
      BY <1>a, <1>b, <2>1
  <1>4. /\ c.init \in BOOLEAN
        /\ c = [size |-> c.size, limit |-> c.limit, buckets |-> k, width |-> w,
                counts |-> c.counts, start |-> c.start, init |-> c.init]
    BY <1>1 DEF Counters, Ctr!States
  <1>5. PICK a : a = Ctr!Advance(c, t)
    OBVIOUS
  <1>6. a \in Counters
    BY <1>5, CounterAdvance
  <1>7. Aligned([c EXCEPT !.start = b - p, !.init = TRUE])
    <2>1. PICK d : d = [c EXCEPT !.start = b - p, !.init = TRUE]
      OBVIOUS
    <2>2. d.start = b - p /\ d.width = w /\ d.buckets = k
      BY <1>4, <2>1
    <2>3. Ctr!End(d) = b
      BY <1>2, <1>3, <1>a, <1>b, <1>c, <2>2 DEF Ctr!End
    <2> QED
      BY <1>3, <2>1, <2>2, <2>3 DEF Aligned
  <1>8. CASE ~c.init
    <2>1. a = [c EXCEPT !.start = b - p, !.init = TRUE]
      BY <1>1, <1>2, <1>5, <1>8 DEF Ctr!Advance
    <2>2. /\ a.start = b - p /\ a.width = w /\ a.buckets = k /\ a.init
          /\ a.limit = c.limit
      BY <1>4, <2>1
    <2>3. Ctr!End(a) = b
      BY <1>2, <1>3, <1>a, <1>b, <1>c, <2>2 DEF Ctr!End
    <2> QED
      BY <1>1, <1>3, <1>5, <1>6, <1>7, <1>8, <2>1, <2>2, <2>3
  <1>9. CASE c.init
    <2>1. PICK x \in Int : e = w * x
      BY <1>1, <1>9 DEF Aligned
    <2>3. CASE q <= x
      <3>1. w * q <= w * x
        BY <1>a, <2>1, <2>3, IntProductGrows
      <3>2. b <= e
        BY <1>3, <2>1, <3>1
      <3>3. a = c
        BY <1>1, <1>5, <1>9, <3>2 DEF Ctr!Advance
      <3> QED
        BY <1>1, <1>5, <1>6, <1>9, <3>2, <3>3
    <2>4. CASE x < q
      <3>1. PICK s : s = q - x
        OBVIOUS
      <3>2. s \in Nat /\ s >= 1
        BY <1>3, <2>1, <2>4, <3>1
      <3>3. b - e = w * s /\ w * s >= w /\ (s = 1 <=> b = e + w)
        <4>1. w * q = w * x + w * s
          BY <1>3, <1>a, <1>b, <1>c, <2>1, <3>1, <3>2
        <4>2. w * 1 <= w * s
          BY <1>a, <1>b, <1>c, <3>2, ProductGrows
        <4>3. s >= 2 => w * 2 <= w * s
          BY <1>a, <1>b, <1>c, <3>2, ProductGrows
        <4>4. w * s \in Nat
          BY <1>a, <1>b, <1>c, <3>2, NatProduct
        <4>5. PICK z : z = w * s
          OBVIOUS
        <4>6. b = e + z /\ z \in Nat /\ z >= w /\ (s >= 2 => z >= 2 * w) /\ (s = 1 => z = w)
          BY <1>3, <1>a, <1>c, <2>1, <3>2, <4>1, <4>2, <4>3, <4>4, <4>5
        <4> QED
          BY <1>a, <1>c, <3>2, <4>5, <4>6
      <3>4. (b - e) \div w = s
        BY <1>a, <1>b, <1>c, <3>2, <3>3, ExactQuotient
      <3>5. ~(b <= e) /\ e + w <= b
        <4>1. w * s \in Int
          BY <1>a, <1>b, <1>c, <3>2
        <4> QED
          BY <1>3, <1>a, <1>b, <1>c, <3>3, <4>1
      <3>6. PICK f : f = [i \in 1..k |-> IF i + s <= k THEN c.counts[i + s] ELSE 0]
        OBVIOUS
      <3>7. a = [c EXCEPT !.counts = f, !.start = b - p]
        BY <1>1, <1>2, <1>5, <1>9, <3>4, <3>5, <3>6 DEF Ctr!Advance
      <3>8. /\ a.start = b - p /\ a.width = w /\ a.buckets = k /\ a.init
            /\ a.limit = c.limit /\ a.counts = f
        BY <1>4, <1>9, <3>7
      <3>9. Ctr!End(a) = b
        BY <1>2, <1>3, <1>a, <1>b, <1>c, <3>8 DEF Ctr!End
      <3>10. f[k] = 0 /\ f[k - 1] = IF s = 1 THEN c.counts[k] ELSE 0
        <4>1. /\ f[k] = IF k + s <= k THEN c.counts[k + s] ELSE 0
              /\ f[k - 1] = IF (k - 1) + s <= k THEN c.counts[(k - 1) + s] ELSE 0
          BY <1>a, <1>b, <1>c, <3>6
        <4>2. ~(k + s <= k) /\ (s = 1 => (k - 1) + s = k) /\ ((k - 1) + s <= k <=> s = 1)
              /\ k <= k
          BY <1>a, <1>b, <1>c, <3>2
        <4>3. CASE s = 1
          BY <4>1, <4>2, <4>3
        <4>4. CASE s # 1
          BY <4>1, <4>2, <4>4
        <4> QED
          BY <4>3, <4>4
      <3>11. Aligned(a) /\ b <= b
        BY <1>3, <3>8, <3>9 DEF Aligned
      <3> QED
        BY <1>1, <1>5, <1>6, <1>9, <3>3, <3>5, <3>8, <3>9, <3>10, <3>11
    <2> QED
      BY <1>3, <2>1, <2>3, <2>4
  <1> QED
    BY <1>4, <1>8, <1>9

\* A grant counts in the newest bucket and fits the estimate; what does not
\* grant at most advances.
LEMMA CounterDecides ==
  ASSUME NEW c \in Counters, NEW n \in Nat \ {0}, NEW t \in Nat, c.init => Aligned(c)
  PROVE  LET r == Ctr!Allow(c, n, t)
             a == Ctr!Advance(c, t)
             k == c.buckets
             w == c.width
             late == MaxI(t - Ctr!End(a), 0)
         IN /\ r.out = "ok" =>
                 /\ r.st = [a EXCEPT !.counts = [a.counts EXCEPT ![k] = a.counts[k] + n]]
                 /\ a.counts[k - 1] * (w - late) + a.counts[k] * w + (n - c.limit) * w <= 0
            /\ r.out # "ok" => r.st = c \/ r.st = a
            /\ Ctr!Peek(c, n, t).st = c \/ Ctr!Peek(c, n, t).st = a
  <1>1. PICK b, k, w, a, f : /\ b = Ctr!BucketStart(c, t) /\ k = c.buckets /\ w = c.width
                             /\ a = Ctr!Advance(c, t)
                             /\ f = [a.counts EXCEPT ![k] = a.counts[k] + n]
    OBVIOUS
  <1>a. PICK e, late : e = Ctr!End(a) /\ late = MaxI(t - e, 0)
    OBVIOUS
  <1>2. /\ a \in Counters /\ a.width = w /\ a.limit = c.limit /\ a.buckets = k
        /\ b <= e /\ e \in Int
    BY <1>1, <1>a, CounterSlides DEF Aligned
  <1>3. b \in Nat /\ b <= t /\ t < b + w
    BY <1>1, StartOf
  <1>4. w \in Nat
    BY <1>1 DEF Counters, Ctr!States
  <1>5. Ctr!Estimate(a, t) = a.counts[k - 1] * (w - late) + a.counts[k] * w
    <2>1. Ctr!MinU64(Ctr!MaxI(t - e, 0), w) = late
      BY <1>a, <1>2, <1>3, <1>4 DEF Ctr!MinU64, Ctr!MaxI, MaxI
    <2> QED
      BY <1>a, <1>2, <2>1 DEF Ctr!Estimate
  <1>6. PICK est : est = a.counts[k - 1] * (w - late) + a.counts[k] * w
    OBVIOUS
  <1>7. PICK r : r = Ctr!Allow(c, n, t)
    OBVIOUS
  <1>8. ~(n <= 0)
    OBVIOUS
  <1>9. /\ r.out = "ok" => /\ r.st = [a EXCEPT !.counts = f]
                           /\ est + (n - c.limit) * w <= 0
        /\ r.out # "ok" => r.st = c \/ r.st = a
    BY <1>1, <1>5, <1>6, <1>7, <1>8
    DEF Ctr!Allow, Ctr!Accept, Ctr!Refuse, Ctr!Impossible
  <1>10. Ctr!Peek(c, n, t).st = c \/ Ctr!Peek(c, n, t).st = a
    BY <1>1 DEF Ctr!Peek, Ctr!Accept, Ctr!Refuse, Ctr!Impossible
  <1> QED
    BY <1>1, <1>a, <1>6, <1>7, <1>9, <1>10

-----------------------------------------------------------------------------
(* What is asked and what is granted.                                      *)

\* Among consecutive places, the extra-th is extra places on.
LEMMA ReachedAt ==
  ASSUME NEW k \in Nat, NEW m \in Nat, k <= m, NEW extra \in Int
  PROVE  Log!Reached((k + 1)..m, extra) = {i \in {k + extra} : extra \in 1..(m - k)}
  <1> DEFINE valid == (k + 1)..m
  <1>1. ASSUME NEW i \in valid
        PROVE  Log!Cardinality({j \in valid : j <= i}) = i - k
    <2>1. {j \in valid : j <= i} = (k + 1)..i
      OBVIOUS
    <2>2. k + 1 \in Int /\ i \in Int /\ k + 1 <= i
      OBVIOUS
    <2>3. Cardinality((k + 1)..i) = i - k
      BY <2>2, FS_Interval
    <2> HIDE DEF valid
    <2> QED
      BY <2>1, <2>3, LogCardinality
  <1>2. Log!Reached(valid, extra) = {i \in valid : i - k = extra}
    <2> HIDE DEF valid
    <2> QED
      BY <1>1 DEF Log!Reached
  <1>3. {i \in valid : i - k = extra} = {i \in {k + extra} : extra \in 1..(m - k)}
    OBVIOUS
  <1> QED
    BY <1>2, <1>3

\* The wait, where the valid events are the last ones of the ring.
LEMMA WaitIs ==
  ASSUME NEW l \in Logs, NEW ring \in Seq(Int), NEW t \in Int, NEW extra \in Int,
         NEW k \in 0..Len(ring), Log!After(ring, t - l.size) = (k + 1)..Len(ring)
  PROVE  Log!Wait(l, ring, extra, t)
           = IF extra \in 1..(Len(ring) - k) /\ ~(ring[k + extra] + l.size - t < 0)
               THEN ring[k + extra] + l.size - t ELSE 0
  <1>1. PICK hits : hits = Log!Reached(Log!After(ring, t - l.size), extra)
    OBVIOUS
  <1>2. hits = {i \in {k + extra} : extra \in 1..(Len(ring) - k)}
    <2>1. k \in Nat /\ Len(ring) \in Nat /\ k <= Len(ring)
      OBVIOUS
    <2> QED
      BY <1>1, <2>1, ReachedAt
  <1>3. PICK left : left = ring[CHOOSE i \in hits : TRUE] + l.size - t
    OBVIOUS
  <1>4. Log!Wait(l, ring, extra, t) = IF hits = {} \/ left < 0 THEN 0 ELSE left
    BY <1>1, <1>3 DEF Log!Wait, Log!Cutoff
  <1>5. CASE extra \in 1..(Len(ring) - k)
    <2>1. hits = {k + extra}
      BY <1>2, <1>5
    <2>2. left = ring[k + extra] + l.size - t
      BY <1>3, <2>1
    <2> QED
      BY <1>4, <1>5, <2>1, <2>2
  <1>6. CASE extra \notin 1..(Len(ring) - k)
    <2>1. hits = {}
      BY <1>2, <1>6
    <2> QED
      BY <1>4, <1>6, <2>1
  <1> QED
    BY <1>5, <1>6

\* Timestamps in the order of time.
Ascending(ring) == \A i, j \in 1..Len(ring) : i <= j => ring[i] <= ring[j]

\* No event at or before the cutoff behind one after it.
Unhidden(ring, cut) ==
  \A i, j \in 1..Len(ring) : i < j /\ ring[i] > cut => ring[j] > cut

LEMMA AscendingHidesNone ==
  ASSUME NEW ring \in Seq(Int), NEW cut \in Int, Ascending(ring)
  PROVE  Unhidden(ring, cut)
  <1> SUFFICES ASSUME NEW i \in 1..Len(ring), NEW j \in 1..Len(ring), i < j, ring[i] > cut
               PROVE  ring[j] > cut
    BY DEF Unhidden
  <1>1. ring[i] <= ring[j] /\ ring[i] \in Int /\ ring[j] \in Int
    BY DEF Ascending
  <1> QED
    BY <1>1

\* If no expired event hides behind a valid one, counting the valid events
\* where they are finds what pruning first and counting then finds, and so
\* does the search for the event to wait for.
LEMMA LogPeekAgrees ==
  ASSUME NEW l \in Logs, NEW n \in Nat \ {0}, NEW t \in Int,
         Unhidden(l.ring, t - l.size)
  PROVE  LET a == Log!Allow(l, n, t)
             p == Log!Peek(l, n, t)
         IN p.out = a.out /\ p.wait = a.wait
  <1>1. PICK ring, cut, m, limit :
          ring = l.ring /\ cut = t - l.size /\ m = Len(ring) /\ limit = l.limit
    OBVIOUS
  <1>2. /\ ring \in Seq(Int) /\ cut \in Int /\ m \in Nat /\ limit \in Nat /\ l.size \in Nat
        /\ \A i \in 1..m : ring[i] \in Int
    BY <1>1 DEF Logs, Log!States
  <1>3. PICK k \in 0..m : /\ Log!Prune(ring, cut) = SubSeq(ring, k + 1, m)
                          /\ \A p \in 1..k : ring[p] <= cut
                          /\ k < m => ring[k + 1] > cut
    BY <1>1, <1>2, PruneDrops
  <1>4. PICK kept : kept = SubSeq(ring, k + 1, m)
    OBVIOUS
  <1>5. /\ kept \in Seq(Int) /\ Len(kept) = m - k
        /\ \A p \in 1..(m - k) : kept[p] = ring[k + p]
    <2>1. /\ kept \in Seq(Int)
          /\ Len(kept) = IF k + 1 <= m THEN m - (k + 1) + 1 ELSE 0
          /\ \A p \in 1..(m - (k + 1) + 1) : kept[p] = ring[k + 1 + p - 1]
      <3>1. k + 1 \in Int /\ m \in Int /\ \A p \in (k + 1)..m : ring[p] \in Int
        BY <1>2
      <3> QED
        BY <1>4, <3>1, SubSeqProperties
    <2> QED
      BY <1>2, <2>1
  <1>6. \A p \in (k + 1)..m : ring[p] > cut
    <2> SUFFICES ASSUME NEW p \in (k + 1)..m PROVE ring[p] > cut
      OBVIOUS
    <2>1. k + 1 \in 1..m /\ p \in 1..m /\ (p = k + 1 \/ k + 1 < p) /\ k < m
      BY <1>2
    <2>2. ring[k + 1] > cut
      BY <1>3, <2>1
    <2>3. k + 1 < p => ring[p] > cut
      BY <1>1, <2>1, <2>2 DEF Unhidden
    <2> QED
      BY <2>1, <2>2, <2>3
  <1>7. Log!After(ring, cut) = (k + 1)..m
    <2>1. ASSUME NEW i \in 1..m
          PROVE  ring[i] > cut <=> i \in (k + 1)..m
      <3>1. i \in 1..k \/ i \in (k + 1)..m
        BY <1>2, <1>3
      <3>2. i \in 1..k => ~(ring[i] > cut) /\ i \notin (k + 1)..m
        BY <1>2, <1>3
      <3> QED
        BY <1>6, <3>1, <3>2
    <2>2. (k + 1)..m \subseteq 1..m
      BY <1>2, <1>3
    <2> QED
      BY <1>1, <2>1, <2>2 DEF Log!After
  <1>8. Log!After(kept, cut) = (0 + 1)..(m - k)
    <2>1. ASSUME NEW p \in 1..(m - k)
          PROVE  kept[p] > cut
      <3>1. k + p \in (k + 1)..m
        BY <1>2, <1>3
      <3> QED
        BY <1>5, <1>6, <3>1
    <2> QED
      BY <1>5, <2>1 DEF Log!After
  <1>9. Log!Cardinality(Log!After(ring, cut)) = m - k
    <2>1. PICK x : x = k + 1
      OBVIOUS
    <2>2. x \in Int /\ m \in Int /\ (x > m => m = k) /\ m - x + 1 = m - k
      BY <1>2, <2>1
    <2>3. Cardinality(x..m) = IF x > m THEN 0 ELSE m - x + 1
      BY <2>2, FS_Interval
    <2>4. m = k => m - k = 0
      BY <1>2
    <2>5. Cardinality((k + 1)..m) = m - k
      BY <2>1, <2>2, <2>3, <2>4
    <2> QED
      BY <1>7, <2>5, LogCardinality
  <1>10. PICK extra : extra = m - k + n - limit
    OBVIOUS
  <1>11. extra \in Int
    BY <1>2, <1>10
  <1>12. Log!Wait(l, ring, extra, t) = Log!Wait(l, kept, extra, t)
    <2>1. Log!Wait(l, ring, extra, t)
            = IF extra \in 1..(m - k) /\ ~(ring[k + extra] + l.size - t < 0)
                THEN ring[k + extra] + l.size - t ELSE 0
      BY <1>1, <1>2, <1>7, <1>11, WaitIs
    <2>2. Log!Wait(l, kept, extra, t)
            = IF extra \in 1..(m - k - 0) /\ ~(kept[0 + extra] + l.size - t < 0)
                THEN kept[0 + extra] + l.size - t ELSE 0
      <3>1. 0 \in 0..Len(kept) /\ Log!After(kept, t - l.size) = (0 + 1)..Len(kept)
        BY <1>1, <1>2, <1>5, <1>8
      <3> QED
        BY <1>5, <1>11, <3>1, WaitIs
    <2>3. m - k - 0 = m - k /\ 0 + extra = extra
      BY <1>2, <1>11
    <2> QED
      BY <1>5, <2>1, <2>2, <2>3
  <1>13. Log!Allow(l, n, t)
           = IF n > limit THEN Impossible(l)
             ELSE IF extra <= 0 THEN Accept([l EXCEPT !.ring = Log!PushN(kept, t, n)])
             ELSE Refuse([l EXCEPT !.ring = kept], Log!Wait(l, kept, extra, t))
    <2>1. ~(n <= 0)
      OBVIOUS
    <2>2. Log!Prune(l.ring, Log!Cutoff(l, t)) = kept
      BY <1>1, <1>3, <1>4 DEF Log!Cutoff
    <2> QED
      BY <1>1, <1>5, <1>10, <2>1, <2>2 DEF Log!Allow, Log!Impossible, Log!Accept,
        Log!Refuse, Impossible, Accept, Refuse
  <1>14. Log!Peek(l, n, t)
           = IF n > limit THEN Impossible(l)
             ELSE IF extra <= 0 THEN Accept(l)
             ELSE Refuse(l, Log!Wait(l, ring, extra, t))
    <2>1. ~(n <= 0)
      OBVIOUS
    <2>2. Log!After(l.ring, Log!Cutoff(l, t)) = Log!After(ring, cut)
      BY <1>1 DEF Log!Cutoff
    <2> QED
      BY <1>1, <1>9, <1>10, <2>1, <2>2 DEF Log!Peek, Log!Impossible, Log!Accept,
        Log!Refuse, Impossible, Accept, Refuse
  <1> QED
    BY <1>12, <1>13, <1>14 DEF Impossible, Accept, Refuse

\* Whatever order the timestamps are in, Allow lets in nothing and calls
\* nothing impossible that Peek answers otherwise: pruning leaves all the valid
\* events, and perhaps more.
LEMMA LogPeekPromises ==
  ASSUME NEW l \in Logs, NEW n \in Nat \ {0}, NEW t \in Int
  PROVE  LET a == Log!Allow(l, n, t)
             p == Log!Peek(l, n, t)
         IN a.out = "deny" \/ (p.out = a.out /\ p.wait = a.wait)
  <1>1. PICK ring, cut, m, limit :
          ring = l.ring /\ cut = t - l.size /\ m = Len(ring) /\ limit = l.limit
    OBVIOUS
  <1>2. /\ ring \in Seq(Int) /\ cut \in Int /\ m \in Nat /\ limit \in Nat
        /\ \A i \in 1..m : ring[i] \in Int
    BY <1>1 DEF Logs, Log!States
  <1>3. PICK k \in 0..m : /\ Log!Prune(ring, cut) = SubSeq(ring, k + 1, m)
                          /\ \A p \in 1..k : ring[p] <= cut
    BY <1>1, <1>2, PruneDrops
  <1>4. PICK kept : kept = SubSeq(ring, k + 1, m)
    OBVIOUS
  <1>5. Len(kept) = m - k
    <2>1. Len(kept) = IF k + 1 <= m THEN m - (k + 1) + 1 ELSE 0
      <3>1. k + 1 \in Int /\ m \in Int /\ \A p \in (k + 1)..m : ring[p] \in Int
        BY <1>2
      <3> QED
        BY <1>4, <3>1, SubSeqProperties
    <2> QED
      BY <1>2, <2>1
  <1>6. PICK c : c = Log!Cardinality(Log!After(ring, cut))
    OBVIOUS
  <1>7. c \in Nat /\ c <= m - k
    <2>1. Log!After(ring, cut) \subseteq (k + 1)..m
      <3> SUFFICES ASSUME NEW i \in 1..m, ring[i] > cut
                   PROVE  i \in (k + 1)..m
        BY <1>1 DEF Log!After
      <3>1. i \notin 1..k
        BY <1>2, <1>3
      <3> QED
        BY <1>2, <3>1
    <2>2. IsFiniteSet((k + 1)..m) /\ Cardinality((k + 1)..m) = m - k
      <3>1. PICK x : x = k + 1
        OBVIOUS
      <3>2. x \in Int /\ m \in Int /\ (x > m => m - k = 0) /\ m - x + 1 = m - k
        BY <1>2, <3>1
      <3>3. IsFiniteSet(x..m) /\ Cardinality(x..m) = IF x > m THEN 0 ELSE m - x + 1
        BY <3>2, FS_Interval
      <3> QED
        BY <3>1, <3>2, <3>3
    <2>3. /\ Cardinality(Log!After(ring, cut)) <= m - k
          /\ Cardinality(Log!After(ring, cut)) \in Nat
      BY <2>1, <2>2, FS_Subset, FS_CardinalityType
    <2> QED
      BY <1>6, <2>3, LogCardinality
  <1>8. Log!Allow(l, n, t)
          = IF n > limit THEN Impossible(l)
            ELSE IF m - k + n - limit <= 0 THEN Accept([l EXCEPT !.ring = Log!PushN(kept, t, n)])
            ELSE Refuse([l EXCEPT !.ring = kept], Log!Wait(l, kept, m - k + n - limit, t))
    <2>1. ~(n <= 0)
      OBVIOUS
    <2>2. Log!Prune(l.ring, Log!Cutoff(l, t)) = kept
      BY <1>1, <1>3, <1>4 DEF Log!Cutoff
    <2> QED
      BY <1>1, <1>5, <2>1, <2>2 DEF Log!Allow, Log!Impossible, Log!Accept,
        Log!Refuse, Impossible, Accept, Refuse
  <1>9. Log!Peek(l, n, t)
          = IF n > limit THEN Impossible(l)
            ELSE IF c + n - limit <= 0 THEN Accept(l)
            ELSE Refuse(l, Log!Wait(l, ring, c + n - limit, t))
    <2>1. ~(n <= 0)
      OBVIOUS
    <2>2. Log!After(l.ring, Log!Cutoff(l, t)) = Log!After(ring, cut)
      BY <1>1 DEF Log!Cutoff
    <2> QED
      BY <1>1, <1>6, <2>1, <2>2 DEF Log!Peek, Log!Impossible, Log!Accept,
        Log!Refuse, Impossible, Accept, Refuse
  <1>10. m - k + n - limit <= 0 => c + n - limit <= 0
    BY <1>2, <1>7
  <1> QED
    BY <1>8, <1>9, <1>10 DEF Impossible, Accept, Refuse

\* Two results that say the same, whatever state they leave.
Agree(p, a) == p.out = a.out /\ p.wait = a.wait

AgreeWhy(p, a) == Agree(p, a) /\ p.reason = a.reason

\* The state a gate is put into changes nothing of what it says.
LEMMA StepsAgree ==
  ASSUME NEW u, NEW v, NEW p, NEW a, NEW why, Agree(p, a)
  PROVE  AgreeWhy(Step(u, p, why), Step(v, a, why))
  BY DEF Agree, AgreeWhy, Step

\* Peek and Allow of each kind of gate.
LEMMA BucketPeekAgrees ==
  ASSUME NEW b, NEW n, NEW t
  PROVE  Agree(TB!Peek(b, n, t), TB!Allow(b, n, t))
  BY DEF Agree, TB!Peek, TB!Allow, TB!Accept, TB!Refuse, TB!Impossible, TB!Panic

LEMMA MeterPeekAgrees ==
  ASSUME NEW g \in GC!States, NEW n \in Nat, NEW t \in Nat
  PROVE  Agree(GC!Peek(g, n, t), GC!Allow(g, n, t))
  <1>1. PICK w : w = GC!NewTAT(g, n, t)
    OBVIOUS
  <1>2. w = GC!U64((IF t > g.tat THEN GC!U64(t) ELSE GC!U64(g.tat)) + GC!Inc(g, n))
    <2>1. g.tat \in Int
      BY DEF GC!States
    <2>2. GC!MaxI(g.tat, t) = IF t > g.tat THEN t ELSE g.tat
      BY <2>1 DEF GC!MaxI
    <2> QED
      BY <1>1, <2>2 DEF GC!NewTAT
  <1>3. PICK x : x = GC!U64(t)
    OBVIOUS
  <1> QED
    BY <1>1, <1>2, <1>3
    DEF Agree, GC!Peek, GC!Allow, GC!Accept, GC!Refuse, GC!Impossible

LEMMA CounterPeekAgrees ==
  ASSUME NEW c, NEW n, NEW t
  PROVE  Agree(Ctr!Peek(c, n, t), Ctr!Allow(c, n, t))
  BY DEF Agree, Ctr!Peek, Ctr!Allow, Ctr!Accept, Ctr!Refuse, Ctr!Impossible

\* Asking gives the answer that trying would give: state.go's peek runs the
\* gates in the order of allow, and no gate's query differs from its decision,
\* except that a log with a hidden event may refuse what its query promised.
LEMMA PeekVerdict ==
  ASSUME NEW s \in GoodStates, NEW n \in 1..MaxTokens, NEW t \in Nat
  PROVE  LET a == Allow(s, n, t) IN
         \/ AgreeWhy(Peek(s, n, t), a)
         \/ /\ s.log # NIL /\ ~Unhidden(s.log.ring, t - s.log.size)
            /\ a.out = "deny" /\ a.reason = "window"
  <1>1. n \in Nat \ {0} /\ t \in Int
    BY ScaleAssumption
  <1>2. PICK p, a : p = PeekRate(s, n, t) /\ a = AllowRate(s, n, t)
    OBVIOUS
  <1>3. /\ AgreeWhy(p, a)
        /\ p.st.log = s.log /\ a.st.log = s.log /\ p.st.ctr = s.ctr /\ a.st.ctr = s.ctr
    <2>1. CASE s.tb # NIL
      <3>1. /\ p = Step([s EXCEPT !.tb = TB!Peek(s.tb, n, t).st], TB!Peek(s.tb, n, t), "rate")
            /\ a = Step([s EXCEPT !.tb = TB!Allow(s.tb, n, t).st], TB!Allow(s.tb, n, t), "rate")
        BY <1>2, <2>1 DEF PeekRate, AllowRate
      <3>2. AgreeWhy(p, a)
        BY <3>1, BucketPeekAgrees, StepsAgree
      <3> QED
        BY <3>1, <3>2, RateFields DEF Step, GoodStates
    <2>2. CASE s.tb = NIL /\ s.gcra # NIL
      <3>1. /\ p = Step(s, GC!Peek(s.gcra, n, t), "rate")
            /\ a = Step([s EXCEPT !.gcra = GC!Allow(s.gcra, n, t).st],
                        GC!Allow(s.gcra, n, t), "rate")
        BY <1>2, <2>2 DEF PeekRate, AllowRate
      <3>2. AgreeWhy(p, a)
        <4>1. s.gcra \in GC!States
          BY <2>2, GoodFields DEF Meters
        <4>2. Agree(GC!Peek(s.gcra, n, t), GC!Allow(s.gcra, n, t))
          BY <1>1, <4>1, MeterPeekAgrees
        <4> QED
          BY <3>1, <4>2, StepsAgree
      <3> QED
        BY <3>1, <3>2 DEF Step, GoodStates
    <2>3. CASE s.tb = NIL /\ s.gcra = NIL
      <3>1. p = Step(s, Accept(s), "") /\ a = p
        BY <1>2, <2>3 DEF PeekRate, AllowRate
      <3> QED
        BY <3>1 DEF Step, AgreeWhy, Agree
    <2> QED
      BY <2>1, <2>2, <2>3
  <1>4. PICK q, w : q = PeekWindow(p.st, n, t) /\ w = AllowWindow(a.st, n, t)
    OBVIOUS
  <1>5. /\ \/ AgreeWhy(q, w)
           \/ /\ s.log # NIL /\ ~Unhidden(s.log.ring, t - s.log.size)
              /\ w.out = "deny" /\ w.reason = "window"
        /\ \E u, o, d, y : w = [st |-> u, out |-> o, wait |-> d, reason |-> y]
    <2>1. PICK u, v : u = p.st /\ v = a.st
      OBVIOUS
    <2>2. /\ u.log = s.log /\ v.log = s.log /\ u.ctr = s.ctr /\ v.ctr = s.ctr
          /\ q = PeekWindow(u, n, t) /\ w = AllowWindow(v, n, t)
      BY <1>3, <1>4, <2>1
    <2>3. \E y, o, d, z : w = [st |-> y, out |-> o, wait |-> d, reason |-> z]
      BY <2>2 DEF AllowWindow, Step
    <2>4. CASE s.log # NIL
      <3>1. /\ q = Step(u, Log!Peek(s.log, n, t), "window")
            /\ w = Step([v EXCEPT !.log = Log!Allow(s.log, n, t).st],
                        Log!Allow(s.log, n, t), "window")
        BY <2>2, <2>4 DEF PeekWindow, AllowWindow
      <3>2. CASE Agree(Log!Peek(s.log, n, t), Log!Allow(s.log, n, t))
        BY <2>3, <3>1, <3>2, StepsAgree
      <3>3. CASE ~Agree(Log!Peek(s.log, n, t), Log!Allow(s.log, n, t))
        <4>1. s.log \in Logs
          BY <2>4, GoodFields
        <4>2. ~Unhidden(s.log.ring, t - s.log.size)
          BY <1>1, <3>3, <4>1, LogPeekAgrees DEF Agree
        <4>3. Log!Allow(s.log, n, t).out = "deny"
          BY <1>1, <3>3, <4>1, LogPeekPromises DEF Agree
        <4>4. w.out = "deny" /\ w.reason = "window"
          BY <3>1, <4>3 DEF Step
        <4> QED
          BY <2>3, <2>4, <4>2, <4>4
      <3> QED
        BY <3>2, <3>3
    <2>5. CASE s.log = NIL /\ s.ctr # NIL
      <3>1. /\ q = Step([u EXCEPT !.ctr = Ctr!Peek(s.ctr, n, t).st],
                        Ctr!Peek(s.ctr, n, t), "window")
            /\ w = Step([v EXCEPT !.ctr = Ctr!Allow(s.ctr, n, t).st],
                        Ctr!Allow(s.ctr, n, t), "window")
        BY <2>2, <2>5 DEF PeekWindow, AllowWindow
      <3> QED
        BY <2>3, <3>1, CounterPeekAgrees, StepsAgree
    <2>6. CASE s.log = NIL /\ s.ctr = NIL
      <3>1. q = Step(u, Accept(u), "") /\ w = Step(v, Accept(v), "")
        BY <2>2, <2>6 DEF PeekWindow, AllowWindow
      <3>2. Agree(Accept(u), Accept(v))
        BY DEF Agree, Accept
      <3> QED
        BY <2>3, <3>1, <3>2, StepsAgree
    <2> QED
      BY <2>4, <2>5, <2>6
  <1>6. CASE p.out # "ok"
    <2>1. a.out # "ok"
      BY <1>3, <1>6 DEF AgreeWhy, Agree
    <2>2. Peek(s, n, t) = p /\ Allow(s, n, t) = a
      BY <1>2, <1>6, <2>1 DEF Peek, Allow
    <2> QED
      BY <1>3, <2>2
  <1>7. CASE p.out = "ok"
    <2>1. a.out = "ok"
      BY <1>3, <1>7 DEF AgreeWhy, Agree
    <2>2. Peek(s, n, t) = q
      BY <1>2, <1>4, <1>7 DEF Peek
    <2>3. Allow(s, n, t) = w \/ \E u : Allow(s, n, t) = [w EXCEPT !.st = u]
      BY <1>2, <1>4, <2>1 DEF Allow
    <2>4. AgreeWhy(w, Allow(s, n, t))
      BY <1>5, <2>3 DEF AgreeWhy, Agree
    <2>5. CASE AgreeWhy(q, w)
      BY <2>2, <2>4, <2>5 DEF AgreeWhy, Agree
    <2>6. CASE ~AgreeWhy(q, w)
      BY <1>5, <2>4, <2>6 DEF AgreeWhy, Agree
    <2> QED
      BY <2>5, <2>6
  <1> QED
    BY <1>6, <1>7

\* A part of a ring in order is in order.
LEMMA PartAscends ==
  ASSUME NEW ring \in Seq(Int), NEW T \in Int, NEW k \in Int, NEW m \in Int,
         0 <= k, m <= Len(ring),
         Ascending(ring), \A i \in 1..Len(ring) : ring[i] <= T
  PROVE  LET part == SubSeq(ring, k + 1, m) IN
         Ascending(part) /\ \A i \in 1..Len(part) : part[i] <= T
  <1>1. PICK part : part = SubSeq(ring, k + 1, m)
    OBVIOUS
  <1>2. Len(ring) \in Nat /\ \A i \in 1..Len(ring) : ring[i] \in Int
    OBVIOUS
  <1>3. /\ Len(part) = IF k + 1 <= m THEN m - k ELSE 0
        /\ \A i \in 1..(m - k) : part[i] = ring[k + i]
    <2>1. /\ Len(part) = IF k + 1 <= m THEN m - (k + 1) + 1 ELSE 0
          /\ \A i \in 1..(m - (k + 1) + 1) : part[i] = ring[k + 1 + i - 1]
      <3>1. PICK x : x = k + 1
        OBVIOUS
      <3>2. x \in Int /\ m \in Int /\ \A i \in x..m : ring[i] \in Int
        BY <1>2, <3>1
      <3>3. /\ Len(part) = IF x <= m THEN m - x + 1 ELSE 0
            /\ \A i \in 1..(m - x + 1) : part[i] = ring[x + i - 1]
        BY <1>1, <3>1, <3>2, SubSeqProperties
      <3> QED
        BY <3>1, <3>3
    <2> QED
      BY <2>1
  <1>4. \A i \in 1..Len(part) : i \in 1..(m - k) /\ k + i \in 1..Len(ring)
    BY <1>2, <1>3
  <1>5. Ascending(part)
    <2> SUFFICES ASSUME NEW i \in 1..Len(part), NEW j \in 1..Len(part), i <= j
                 PROVE  part[i] <= part[j]
      BY DEF Ascending
    <2>1. Len(part) \in Int
      BY <1>3
    <2>2. k + i \in 1..Len(ring) /\ k + j \in 1..Len(ring) /\ k + i <= k + j
      BY <1>4, <2>1
    <2>3. ring[k + i] <= ring[k + j]
      BY <2>2 DEF Ascending
    <2> QED
      BY <1>3, <1>4, <2>3
  <1> QED
    BY <1>1, <1>3, <1>4, <1>5

\* So is one that ends with the time of the clock.
LEMMA PushAscends ==
  ASSUME NEW ring \in Seq(Int), NEW T \in Int, NEW n \in Nat,
         Ascending(ring), \A i \in 1..Len(ring) : ring[i] <= T
  PROVE  LET grown == Log!PushN(ring, T, n) IN
         Ascending(grown) /\ \A i \in 1..Len(grown) : grown[i] <= T
  <1>1. PICK m, more, grown : /\ m = Len(ring) /\ more = [i \in 1..n |-> T]
                              /\ grown = ring \o more
    OBVIOUS
  <1>2. m \in Nat /\ more \in Seq(Int) /\ Len(more) = n
    BY <1>1
  <1>3. /\ Len(grown) = m + n
        /\ \A i \in 1..m : grown[i] = ring[i]
        /\ \A i \in (m + 1)..(m + n) : grown[i] = T
    BY <1>1, <1>2
  <1>4. \A i \in 1..(m + n) : i \in 1..m \/ i \in (m + 1)..(m + n)
    BY <1>2
  <1>5. \A i \in 1..(m + n) : grown[i] <= T /\ (i \in (m + 1)..(m + n) => grown[i] = T)
    BY <1>1, <1>3, <1>4
  <1>6. ASSUME NEW i \in 1..(m + n), NEW j \in 1..(m + n), i <= j
        PROVE  grown[i] <= grown[j]
    <2>1. CASE j \in (m + 1)..(m + n)
      BY <1>5, <2>1
    <2>2. CASE j \in 1..m
      <3>1. i \in 1..m
        BY <1>2, <1>6, <2>2
      <3> QED
        BY <1>1, <1>3, <1>6, <2>2, <3>1 DEF Ascending
    <2> QED
      BY <1>4, <2>1, <2>2
  <1>7. grown = Log!PushN(ring, T, n)
    BY <1>1 DEF Log!PushN
  <1> QED
    BY <1>3, <1>5, <1>6, <1>7 DEF Ascending

\* So the ring stays in order through a decision of the log, and no timestamp is
\* later than it.
LEMMA DecisionAscends ==
  ASSUME NEW l \in Logs, NEW n \in Nat \ {0}, NEW t \in Int,
         Ascending(l.ring), \A i \in 1..Len(l.ring) : l.ring[i] <= t
  PROVE  LET ring == Log!Allow(l, n, t).st.ring IN
         Ascending(ring) /\ \A i \in 1..Len(ring) : ring[i] <= t
  <1>1. PICK ring, cut : ring = l.ring /\ cut = t - l.size
    OBVIOUS
  <1>2. ring \in Seq(Int) /\ cut \in Int
    BY <1>1 DEF Logs, Log!States
  <1>3. PICK kept : kept = Log!Prune(ring, cut)
    OBVIOUS
  <1>4. kept \in Seq(Int) /\ Ascending(kept) /\ \A i \in 1..Len(kept) : kept[i] <= t
    <2>1. PICK k \in 0..Len(ring) : kept = SubSeq(ring, k + 1, Len(ring))
      BY <1>2, <1>3, PruneDrops
    <2>2. Ascending(kept) /\ \A i \in 1..Len(kept) : kept[i] <= t
      <3>1. Len(ring) \in Int /\ Len(ring) <= Len(ring) /\ k \in Int /\ 0 <= k
        BY <1>2
      <3> QED
        BY <1>1, <1>2, <2>1, <3>1, PartAscends
    <2> QED
      BY <1>2, <1>3, <2>2, LogPrune
  <1>5. PICK grown : grown = Log!PushN(kept, t, n)
    OBVIOUS
  <1>6. Ascending(grown) /\ \A i \in 1..Len(grown) : grown[i] <= t
    BY <1>4, <1>5, PushAscends
  <1>7. Log!Allow(l, n, t).st.ring \in {ring, kept, grown}
    <2>1. Log!Prune(l.ring, Log!Cutoff(l, t)) = kept
      BY <1>1, <1>3 DEF Log!Cutoff
    <2>2. Log!Allow(l, n, t).st \in {l, [l EXCEPT !.ring = kept], [l EXCEPT !.ring = grown]}
      BY <1>5, <2>1 DEF Log!Allow, Log!Accept, Log!Refuse, Log!Impossible
    <2> QED
      BY <1>1, <2>2 DEF Logs, Log!States
  <1> QED
    BY <1>1, <1>4, <1>6, <1>7

-----------------------------------------------------------------------------
(* The wait each gate suggests with a refusal.                             *)

\* The time x units of work take at r per second, rounded up: no time short of
\* it does them, it does them, and it overshoots by less than a second's work.
LEMMA RefillTime ==
  ASSUME NEW x \in Nat \ {0}, NEW r \in Nat \ {0}, NEW v, v = (x * Second + r - 1) \div r
  PROVE  /\ v \in Nat
         /\ \A d \in Nat : d < v => (r * d) \div Second < x
         /\ (r * v) \div Second >= x
         /\ (r * v) \div Second <= x + (r \div Second)
  <1>1. PICK S, y, q : S = Second /\ y = x * S /\ q = r \div S
    OBVIOUS
  <1>2. S \in Nat \ {0} /\ y \in Nat
    BY <1>1, ScaleAssumption, NatProduct
  <1>3. v = (y + r - 1) \div r /\ y + r - 1 \in Nat
    BY <1>1, <1>2
  <1>4. v \in Nat /\ r * v <= y + r - 1 /\ y + r - 1 < r * v + r
    BY <1>3
  <1>5. q \in Nat /\ S * q <= r /\ r < S * q + S
    BY <1>1, <1>2
  <1>6. ASSUME NEW d \in Nat, d < v
        PROVE  (r * d) \div Second < x
    <2>1. r * (d + 1) <= r * v /\ r * (d + 1) = r * d + r
      BY <1>4, <1>6, ProductGrows
    <2>2. PICK a, p : a = r * d /\ p = a \div S
      OBVIOUS
    <2>3. a \in Nat /\ p \in Nat /\ S * p <= a
      BY <1>2, <2>2, NatProduct
    <2>4. a < y
      BY <1>2, <1>4, <2>1, <2>2, <2>3
    <2>5. p < x
      <3>1. CASE p >= x
        <4>1. S * x <= S * p /\ S * x = y
          BY <1>1, <1>2, <2>3, <3>1, ProductGrows
        <4> QED
          BY <1>2, <2>3, <2>4, <4>1
      <3> QED
        BY <2>3, <3>1
    <2> QED
      BY <1>1, <2>2, <2>5
  <1>7. PICK a, p : a = r * v /\ p = a \div S
    OBVIOUS
  <1>8. a \in Nat /\ p \in Nat /\ S * p <= a /\ a < S * p + S
    <2>1. a \in Nat
      BY <1>4, <1>7, NatProduct
    <2> QED
      BY <1>2, <1>7, <2>1
  <1>9. p >= x
    <2>1. CASE p < x
      <3>1. S * (p + 1) <= S * x /\ S * (p + 1) = S * p + S /\ S * x = y
        BY <1>1, <1>2, <1>8, <2>1, ProductGrows
      <3>2. a < y /\ y <= a
        BY <1>2, <1>4, <1>7, <1>8, <3>1
      <3> QED
        BY <1>2, <1>8, <3>2
    <2> QED
      BY <1>8, <2>1
  <1>10. p <= x + q
    <2>1. CASE p > x + q
      <3>1. S * (x + q + 1) <= S * p
        BY <1>2, <1>5, <1>8, <2>1, ProductGrows
      <3>2. S * (x + q + 1) = y + S * q + S
        BY <1>1, <1>2, <1>5
      <3>3. y + S * q + S <= a
        BY <1>2, <1>5, <1>8, <3>1, <3>2
      <3>4. a <= y + r - 1
        BY <1>4, <1>7
      <3> QED
        BY <1>2, <1>5, <1>8, <3>3, <3>4
    <2> QED
      BY <1>5, <1>8, <2>1
  <1> QED
    BY <1>1, <1>4, <1>6, <1>7, <1>9, <1>10

\* A bucket that fills, from empty, before the longest wait ever suggested,
\* and in so doing earns no more grains than a word holds.
Refills(b) ==
  /\ b.rate \in Nat \ {0}
  /\ (b.burst * Second + b.rate - 1) \div b.rate <= MaxWait
  /\ MaxWait <= MaxU64
  /\ b.burst + (b.rate \div Second) <= MaxU64

\* What a bucket that was refilled at time t holds d later.
LEMMA RefillsBy ==
  ASSUME NEW c \in Buckets, c.rate # 0, c.burst # 0, NEW d \in Nat, NEW q,
         q = (c.rate * d) \div Second
  PROVE  /\ q \in Nat
         /\ TB!Refill(c, c.last + d).grains <= c.grains + q
         /\ c.burst <= MaxU64 =>
              TB!Refill(c, c.last + d).grains = MinU64(c.burst, c.grains + q)
         /\ q <= MaxU64 => ~TB!RefillPanics(c, c.last + d)
  <1>1. /\ c.grains \in Nat /\ c.rate \in Nat \ {0} /\ c.burst \in Nat \ {0} /\ c.last \in Int
        /\ c = [grains |-> c.grains, last |-> c.last, rate |-> c.rate, burst |-> c.burst]
        /\ c.grains <= c.burst
    BY DEF Buckets, TB!States
  <1>2. PICK u, g, m : u = c.last + d /\ g = c.grains /\ m = MaxU64
    OBVIOUS
  <1>3. u \in Int /\ u - c.last = d /\ g \in Nat /\ m \in Nat /\ g <= c.burst
    BY <1>1, <1>2, WidthAssumption
  <1>4. q \in Nat
    BY <1>1, ScaleAssumption, NatProduct, NatQuotient
  <1>5. ~TB!Stopped(c)
    BY <1>1 DEF TB!Stopped
  <1>6. CASE d = 0
    <2>1. q = 0
      BY <1>1, <1>6, ScaleAssumption
    <2>2. TB!Refill(c, u) = [c EXCEPT !.last = u] /\ ~TB!RefillPanics(c, u)
      BY <1>1, <1>2, <1>5, <1>6 DEF TB!Refill, TB!RefillPanics
    <2>3. TB!Refill(c, u).grains = g
      BY <1>1, <1>2, <2>2
    <2>4. MinU64(c.burst, g + q) = g
      BY <1>1, <1>3, <2>1 DEF MinU64
    <2> QED
      BY <1>2, <1>3, <1>4, <2>1, <2>2, <2>3, <2>4
  <1>7. CASE d # 0
    <2>1. u > c.last /\ ~(u <= c.last)
      BY <1>1, <1>2, <1>7
    <2>2. TB!MulDiv(c.rate, u - c.last, Second) = q
      BY <1>3, ScaleAssumption DEF TB!MulDiv
    <2>3. TB!Refill(c, u).grains = MinU64(c.burst, MinU64(g + q, m))
      BY <1>1, <1>2, <1>5, <2>1, <2>2
      DEF TB!Refill, TB!SaturatingAddU64, TB!MinU64, MinU64
    <2>4. MinU64(c.burst, MinU64(g + q, m)) <= g + q
      BY <1>1, <1>3, <1>4 DEF MinU64
    <2>5. c.burst <= m => MinU64(c.burst, MinU64(g + q, m)) = MinU64(c.burst, g + q)
      BY <1>1, <1>3, <1>4 DEF MinU64
    <2>6. q <= m => ~TB!RefillPanics(c, u)
      BY <1>2, <1>3, <1>4 DEF TB!RefillPanics, TB!MulDivPanics
    <2> QED
      BY <1>2, <1>4, <2>3, <2>4, <2>5, <2>6
  <1> QED
    BY <1>6, <1>7

\* The wait of the token bucket: no earlier retry is let in, and with a full
\* refill inside the longest wait the retry at its end is.
LEMMA BucketRetry ==
  ASSUME NEW b \in Buckets, NEW n \in 1..MaxTokens, NEW t \in Nat,
         TB!Allow(b, n, t).out = "deny"
  PROVE  LET r == TB!Allow(b, n, t) IN
         /\ \A d \in 0..(r.wait - 1) : TB!Allow(r.st, n, t + d).out # "ok"
         /\ Refills(b) => r.wait \in Nat /\ TB!Allow(r.st, n, t + r.wait).out = "ok"
  <1>1. PICK r, need, c : /\ r = TB!Allow(b, n, t) /\ need = TB!Need(n)
                          /\ c = TB!Refill(b, t)
    OBVIOUS
  <1>2. need \in Nat \ {0}
    <2>1. need = Grain * n /\ need \in Nat
      BY <1>1, NeedIs
    <2> QED
      BY <2>1, ScaleAssumption
  <1>3. /\ ~(n <= 0) /\ need <= b.burst /\ c.grains < need
        /\ r.st = c /\ r.wait = TB!WaitFor(c, need)
    <2>1. ~(n <= 0)
      OBVIOUS
    <2>2. r.out = "deny"
      BY <1>1
    <2>3. Spends(b, c, 0, t)
      BY <1>1, BucketRefill
    <2>4. c.grains \in Nat /\ b.burst \in Nat
      BY <2>3 DEF Spends, Buckets, TB!States
    <2> QED
      BY <1>1, <1>2, <2>1, <2>2, <2>4
      DEF TB!Allow, TB!Accept, TB!Refuse, TB!Impossible, TB!Panic
  <1>4. /\ c \in Buckets /\ c.rate = b.rate /\ c.burst = b.burst
        /\ b.burst # 0 /\ (b.rate # 0 => c.last = t)
    <2>1. Spends(b, c, 0, t)
      BY <1>1, BucketRefill
    <2>2. b.burst # 0
      BY <1>2, <1>3 DEF Buckets, TB!States
    <2> QED
      BY <2>1, <2>2 DEF Spends
  <1>5. /\ c.grains \in Nat /\ c.rate \in Nat /\ c.burst \in Nat /\ MaxU64 \in Nat
        /\ MaxWait \in Nat
    BY <1>4, WidthAssumption, ScaleAssumption DEF Buckets, TB!States
  <1>6. CASE b.rate = 0
    <2>1. r.wait = -1
      BY <1>3, <1>4, <1>6 DEF TB!WaitFor
    <2>2. ~Refills(b)
      BY <1>6 DEF Refills
    <2>3. 0..(r.wait - 1) = {}
      BY <2>1
    <2> QED
      BY <1>1, <2>2, <2>3
  <1>7. CASE b.rate # 0
    <2>1. PICK x, v, w : /\ x = need - c.grains
                         /\ v = (x * Second + c.rate - 1) \div c.rate
                         /\ w = r.wait
      OBVIOUS
    <2>2. x \in Nat \ {0} /\ x <= need /\ c.rate \in Nat \ {0} /\ need = c.grains + x
      BY <1>2, <1>3, <1>4, <1>5, <1>7, <2>1
    <2>3. /\ v \in Nat
          /\ \A d \in Nat : d < v => (c.rate * d) \div Second < x
          /\ (c.rate * v) \div Second >= x
          /\ (c.rate * v) \div Second <= x + (c.rate \div Second)
      <3>1. PICK s : s = c.rate
        OBVIOUS
      <3>2. s \in Nat \ {0} /\ v = (x * Second + s - 1) \div s
        BY <2>1, <2>2, <3>1
      <3>3. /\ v \in Nat
            /\ \A d \in Nat : d < v => (s * d) \div Second < x
            /\ (s * v) \div Second >= x
            /\ (s * v) \div Second <= x + (s \div Second)
        BY <2>2, <3>2, RefillTime
      <3> QED
        BY <3>1, <3>3
    <2>4. w = MinU64(MinU64(v, MaxU64), MaxWait)
      <3>1. w = TB!WaitFor(c, need) /\ c.rate # 0
        BY <1>3, <1>4, <1>7, <2>1
      <3> QED
        BY <2>1, <2>2, <3>1 DEF TB!WaitFor, TB!MulDivRoundUp, TB!MinU64, MinU64
    <2>5. w \in Nat /\ w <= v
      BY <1>5, <2>3, <2>4 DEF MinU64
    <2>6. ASSUME NEW d \in Nat
          PROVE  TB!Allow(c, n, t + d).out
                   = IF TB!RefillPanics(c, t + d) THEN "panic"
                     ELSE IF TB!Refill(c, t + d).grains >= need THEN "ok"
                     ELSE IF TB!WaitPanics(TB!Refill(c, t + d), need) THEN "panic" ELSE "deny"
      BY <1>1, <1>2, <1>3, <1>4, <1>5
      DEF TB!Allow, TB!Accept, TB!Refuse, TB!Impossible, TB!Panic
    <2>7. ASSUME NEW d \in 0..(w - 1)
          PROVE  TB!Allow(c, n, t + d).out # "ok"
      <3>1. PICK q, g : q = (c.rate * d) \div Second /\ g = TB!Refill(c, t + d).grains
        OBVIOUS
      <3>2. d \in Nat /\ d < v
        BY <2>3, <2>5
      <3>3. q \in Nat /\ q < x /\ g <= c.grains + q
        BY <1>4, <1>5, <1>7, <2>3, <3>1, <3>2, RefillsBy
      <3>4. g \in Nat
        <4>1. Spends(c, TB!Refill(c, t + d), 0, t + d)
          BY <1>4, <3>2, BucketRefill
        <4> QED
          BY <3>1, <4>1 DEF Spends, Buckets, TB!States
      <3>5. ~(g >= need)
        BY <1>2, <1>5, <2>2, <3>3, <3>4
      <3> QED
        BY <2>6, <3>1, <3>2, <3>5
    <2>8. ASSUME Refills(b)
          PROVE  TB!Allow(c, n, t + w).out = "ok"
      <3>1. /\ (b.burst * Second + b.rate - 1) \div b.rate <= MaxWait
            /\ MaxWait <= MaxU64 /\ b.burst + (b.rate \div Second) <= MaxU64
        BY <2>8 DEF Refills
      <3>2. PICK y, z, e, m : /\ y = x * Second + c.rate - 1
                           /\ z = c.burst * Second + c.rate - 1
                           /\ e = z \div c.rate /\ m = c.rate
        OBVIOUS
      <3>3. y \in Nat /\ z \in Nat /\ y <= z /\ e <= MaxWait /\ m \in Nat \ {0}
        <4>1. Second * x <= Second * c.burst
          BY <1>3, <1>4, <1>5, <2>2, ScaleAssumption, ProductGrows
        <4>2. PICK i, j : i = x * Second /\ j = c.burst * Second
          OBVIOUS
        <4>3. i \in Nat /\ j \in Nat /\ i <= j
          BY <1>5, <2>2, <4>1, <4>2, ScaleAssumption, NatProduct
        <4> QED
          BY <1>4, <2>2, <3>1, <3>2, <4>2, <4>3
      <3>4. v <= e
        <4>1. /\ v \in Nat /\ m * v <= y
              /\ e \in Nat /\ z < m * e + m
          BY <2>1, <2>3, <3>2, <3>3
        <4>2. CASE v > e
          <5>1. m * (e + 1) <= m * v /\ m * (e + 1) = m * e + m
            BY <3>3, <4>1, <4>2, ProductGrows
          <5> QED
            BY <3>3, <4>1, <5>1
        <4> QED
          BY <2>3, <4>1, <4>2
      <3>5. w = v
        <4>1. e \in Nat
          BY <3>2, <3>3
        <4> QED
          BY <1>5, <2>3, <2>4, <3>1, <3>3, <3>4, <4>1 DEF MinU64
      <3>6. PICK q, k : q = (c.rate * v) \div Second /\ k = c.rate \div Second
        OBVIOUS
      <3>7. k \in Nat /\ b.burst + k <= MaxU64 /\ q >= x /\ q <= x + k
        BY <1>4, <1>5, <2>3, <3>1, <3>6, ScaleAssumption, NatQuotient
      <3>8. /\ q \in Nat
            /\ c.burst <= MaxU64 =>
                 TB!Refill(c, t + v).grains = MinU64(c.burst, c.grains + q)
            /\ q <= MaxU64 => ~TB!RefillPanics(c, t + v)
        <4>1. c \in Buckets /\ c.rate # 0 /\ c.burst # 0 /\ c.last = t /\ v \in Nat
          BY <1>4, <1>7, <2>3
        <4>2. /\ q \in Nat
              /\ c.burst <= MaxU64 =>
                   TB!Refill(c, c.last + v).grains = MinU64(c.burst, c.grains + q)
              /\ q <= MaxU64 => ~TB!RefillPanics(c, c.last + v)
          BY <3>6, <4>1, RefillsBy
        <4> QED
          BY <4>1, <4>2
      <3>9. c.burst <= MaxU64 /\ q <= MaxU64
        BY <1>2, <1>3, <1>4, <1>5, <2>2, <3>7, <3>8
      <3>10. MinU64(c.burst, c.grains + q) >= need
        BY <1>2, <1>3, <1>4, <1>5, <2>2, <3>7, <3>8 DEF MinU64
      <3> QED
        BY <2>3, <2>6, <3>5, <3>8, <3>9, <3>10
    <2> QED
      BY <1>1, <1>3, <2>1, <2>5, <2>7, <2>8
  <1> QED
    BY <1>6, <1>7

\* The verdict of GCRA without wrapping, and the wait with a refusal.
LEMMA MeterRule ==
  ASSUME NEW g \in Meters, NEW n \in Nat \ {0}, NEW t \in Nat, Fits(g, t),
         n <= g.burst, g.interval # 0, g.limit # 0
  PROVE  LET r == GC!Allow(g, n, t)
             over == MaxI(g.tat, t) + g.interval * n - t - g.limit
         IN /\ over <= 0 => r.out = "ok"
            /\ over > 0 => r.out = "deny" /\ r.wait = over /\ r.st = g
  <1>1. PICK top, inc : top = MaxI(g.tat, t) /\ inc = g.interval * n
    OBVIOUS
  <1>2. /\ g.tat \in Int /\ g.interval \in Nat /\ g.burst \in Nat /\ g.limit \in Nat
        /\ top \in Nat /\ t <= top /\ g.tat <= top /\ top = GC!MaxI(g.tat, t)
        /\ top + g.limit <= MaxI64
    BY <1>1 DEF Meters, GC!States, MaxI, GC!MaxI, Fits
  <1>3. MaxI64 \in Nat /\ MaxI64 <= MaxU64 /\ MaxU64 \in Nat
    BY MaxI64Fits, WidthAssumption
  <1>4. GC!Inc(g, n) = inc /\ inc \in 0..g.limit /\ g.limit <= MaxI64
    BY <1>1, <1>2, <1>3, MeterInc
  <1>5. /\ GC!U64(top) = top /\ GC!U64(t) = t /\ GC!U64(top + inc) = top + inc
    BY <1>2, <1>3, <1>4, MeterWord
  <1>6. GC!NewTAT(g, n, t) = top + inc
    BY <1>2, <1>4, <1>5 DEF GC!NewTAT
  <1>7. ~(top + inc < t) /\ ~(n <= 0)
    BY <1>2, <1>4
  <1>8. PICK over : over = top + inc - t - g.limit
    OBVIOUS
  <1>9. CASE over <= 0
    <2>1. top + inc - t <= g.limit
      BY <1>2, <1>4, <1>8, <1>9
    <2> QED
      BY <1>1, <1>2, <1>5, <1>6, <1>7, <1>8, <1>9, <2>1 DEF GC!Allow, GC!Accept
  <1>10. CASE over > 0
    <2>1. ~(top + inc - t <= g.limit)
      BY <1>2, <1>4, <1>8, <1>10
    <2>2. over \in Nat /\ over <= MaxI64 /\ top + inc - t - g.limit = over
      BY <1>2, <1>3, <1>4, <1>8, <1>10
    <2>3. GC!I64(over) = over
      BY <2>2, MeterWord
    <2>4. GC!Allow(g, n, t) = GC!Refuse(g, GC!I64(top + inc - t - g.limit))
      <3>1. PICK x : x = top + inc
        OBVIOUS
      <3>2. /\ GC!NewTAT(g, n, t) = x /\ GC!U64(t) = t /\ ~(x < t)
            /\ ~(n <= 0) /\ ~(n > g.burst) /\ ~(x - t <= g.limit)
        BY <1>2, <1>4, <1>5, <1>6, <1>7, <2>1, <3>1
      <3>3. GC!Allow(g, n, t) = GC!Refuse(g, GC!I64(x - t - g.limit))
        BY <3>2 DEF GC!Allow
      <3> QED
        BY <1>2, <1>4, <3>1, <3>3
    <2> QED
      BY <1>1, <1>8, <1>10, <2>2, <2>3, <2>4 DEF GC!Refuse
  <1> QED
    BY <1>2, <1>4, <1>8, <1>9, <1>10

\* The wait of GCRA: what its clock is ahead by, to the nanosecond.
LEMMA MeterRetry ==
  ASSUME NEW g \in Meters, NEW n \in Nat \ {0}, NEW t \in Nat, Fits(g, t),
         GC!Allow(g, n, t).out = "deny"
  PROVE  LET r == GC!Allow(g, n, t) IN
         /\ \A d \in 0..(r.wait - 1) : GC!Allow(r.st, n, t + d).out # "ok"
         /\ r.wait \in Nat /\ GC!Allow(r.st, n, t + r.wait).out = "ok"
  <1>1. PICK r, top, inc : /\ r = GC!Allow(g, n, t) /\ top = MaxI(g.tat, t)
                           /\ inc = g.interval * n
    OBVIOUS
  <1>2. n <= g.burst /\ g.interval # 0 /\ g.limit # 0
    <2>1. ~(n <= 0)
      OBVIOUS
    <2>2. ~(g.interval = 0 \/ g.limit = 0 \/ n > g.burst)
      BY <2>1 DEF GC!Allow, GC!Impossible
    <2> QED
      BY <2>2 DEF Meters, GC!States
  <1>3. /\ g.tat \in Int /\ g.interval \in Nat /\ g.burst \in Nat /\ g.limit \in Nat
        /\ top \in Nat /\ top + g.limit <= MaxI64 /\ MaxI64 \in Nat
    BY <1>1, MaxI64Fits DEF Meters, GC!States, MaxI, Fits
  <1>4. inc \in Nat /\ inc <= g.limit
    <2>1. g.limit <= MaxI64
      BY <1>3
    <2> QED
      BY <1>1, <1>2, <1>3, <2>1, MeterInc
  <1>5. PICK over : over = top + inc - t - g.limit
    OBVIOUS
  <1>6. over > 0 /\ r.wait = over /\ r.st = g
    <2>1. /\ over <= 0 => r.out = "ok"
          /\ over > 0 => r.out = "deny" /\ r.wait = over /\ r.st = g
      BY <1>1, <1>2, <1>5, MeterRule
    <2> QED
      BY <1>1, <1>3, <1>4, <1>5, <2>1
  <1>7. top = g.tat /\ g.tat >= t + over
    BY <1>1, <1>3, <1>4, <1>5, <1>6 DEF MaxI
  <1>8. ASSUME NEW d \in 0..over
        PROVE  GC!Allow(g, n, t + d).out = IF d < over THEN "deny" ELSE "ok"
    <2>1. PICK u : u = t + d
      OBVIOUS
    <2>2. u \in Nat /\ MaxI(g.tat, u) = g.tat
      BY <1>3, <1>5, <1>7, <2>1 DEF MaxI
    <2>3. Fits(g, u)
      BY <1>3, <1>7, <2>2 DEF Fits
    <2>4. PICK left : left = MaxI(g.tat, u) + g.interval * n - u - g.limit
      OBVIOUS
    <2>5. /\ left <= 0 => GC!Allow(g, n, u).out = "ok"
          /\ left > 0 => GC!Allow(g, n, u).out = "deny"
      BY <1>2, <2>2, <2>3, <2>4, MeterRule
    <2>6. left = over - d /\ left \in Int
      BY <1>1, <1>3, <1>4, <1>5, <1>7, <2>1, <2>2, <2>4
    <2> QED
      BY <1>3, <1>4, <1>5, <2>1, <2>5, <2>6
  <1> QED
    <2>1. over \in Nat /\ over \in 0..over
      BY <1>3, <1>4, <1>5, <1>6
    <2>2. \A d \in 0..(over - 1) : d \in 0..over /\ d < over
      BY <2>1
    <2> QED
      BY <1>1, <1>6, <1>8, <2>1, <2>2

\* A ring in order, pruned, is in order and holds valid events only.
LEMMA PrunedIsValid ==
  ASSUME NEW ring \in Seq(Int), NEW cut \in Int, Ascending(ring)
  PROVE  LET kept == Log!Prune(ring, cut) IN
         /\ kept \in Seq(Int) /\ Ascending(kept)
         /\ \A p \in 1..Len(kept) : kept[p] > cut
         /\ Log!After(kept, cut) = (0 + 1)..Len(kept)
  <1>1. PICK m : m = Len(ring)
    OBVIOUS
  <1>2. m \in Nat /\ \A p \in 1..m : ring[p] \in Int
    BY <1>1
  <1>3. PICK k \in 0..m : /\ Log!Prune(ring, cut) = SubSeq(ring, k + 1, m)
                          /\ k < m => ring[k + 1] > cut
    BY <1>1, PruneDrops
  <1>4. PICK kept : kept = SubSeq(ring, k + 1, m)
    OBVIOUS
  <1>5. /\ kept \in Seq(Int) /\ Len(kept) = m - k
        /\ \A p \in 1..(m - k) : kept[p] = ring[k + p]
    <2>1. /\ kept \in Seq(Int)
          /\ Len(kept) = IF k + 1 <= m THEN m - (k + 1) + 1 ELSE 0
          /\ \A p \in 1..(m - (k + 1) + 1) : kept[p] = ring[k + 1 + p - 1]
      <3>1. k + 1 \in Int /\ m \in Int /\ \A p \in (k + 1)..m : ring[p] \in Int
        BY <1>2, <1>3
      <3> QED
        BY <1>4, <3>1, SubSeqProperties
    <2> QED
      BY <1>2, <1>3, <2>1
  <1>6. ASSUME NEW p \in 1..Len(kept)
        PROVE  kept[p] > cut
    <2>1. k + 1 \in 1..m /\ k + p \in 1..m /\ k + 1 <= k + p /\ k < m /\ p \in 1..(m - k)
      BY <1>2, <1>3, <1>5
    <2>2. ring[k + 1] <= ring[k + p] /\ ring[k + 1] \in Int /\ ring[k + p] \in Int
      BY <1>1, <1>2, <2>1 DEF Ascending
    <2> QED
      BY SMTT(30), <1>3, <1>5, <2>1, <2>2
  <1>7. ASSUME NEW i \in 1..Len(kept), NEW j \in 1..Len(kept), i <= j
        PROVE  kept[i] <= kept[j]
    <2>1. /\ k + i \in 1..m /\ k + j \in 1..m /\ k + i <= k + j
          /\ i \in 1..(m - k) /\ j \in 1..(m - k)
      BY <1>2, <1>3, <1>5, <1>7
    <2>2. ring[k + i] <= ring[k + j]
      BY <1>1, <2>1 DEF Ascending
    <2> QED
      BY <1>5, <2>1, <2>2
  <1>8. Log!After(kept, cut) = (0 + 1)..Len(kept)
    BY <1>5, <1>6 DEF Log!After
  <1> QED
    BY <1>3, <1>4, <1>5, <1>6, <1>7, <1>8 DEF Ascending

\* The wait of the sliding log: as many of the oldest events as it takes leave
\* the window at its end, and not all of them before.
LEMMA LogRetry ==
  ASSUME NEW l \in Logs, NEW n \in Nat \ {0}, NEW t \in Nat,
         Ascending(l.ring), Log!Allow(l, n, t).out = "deny"
  PROVE  LET r == Log!Allow(l, n, t) IN
         /\ \A d \in 0..(r.wait - 1) : Log!Allow(r.st, n, t + d).out # "ok"
         /\ r.wait \in Nat /\ Log!Allow(r.st, n, t + r.wait).out = "ok"
  <1>1. PICK r, size, limit, cut, kept, m, extra :
          /\ r = Log!Allow(l, n, t) /\ size = l.size /\ limit = l.limit
          /\ cut = t - size /\ kept = Log!Prune(l.ring, cut) /\ m = Len(kept)
          /\ extra = m + n - limit
    OBVIOUS
  <1>2. l.ring \in Seq(Int) /\ size \in Nat /\ limit \in Nat /\ cut \in Int
    BY <1>1 DEF Logs, Log!States
  <1>3. /\ kept \in Seq(Int) /\ Ascending(kept) /\ m \in Nat
        /\ \A p \in 1..m : kept[p] > cut /\ kept[p] \in Int
        /\ Log!After(kept, cut) = (0 + 1)..m
    <2>1. /\ kept \in Seq(Int) /\ Ascending(kept)
          /\ \A p \in 1..Len(kept) : kept[p] > cut
          /\ Log!After(kept, cut) = (0 + 1)..Len(kept)
      BY <1>1, <1>2, PrunedIsValid
    <2> QED
      BY <1>1, <2>1
  <1>4. /\ n <= limit /\ extra > 0
        /\ r = Log!Refuse([l EXCEPT !.ring = kept], Log!Wait(l, kept, extra, t))
    <2>1. ~(n <= 0) /\ Log!Cutoff(l, t) = cut
      BY <1>1 DEF Log!Cutoff
    <2>2. ~(n > limit) /\ ~(extra <= 0)
          /\ r = Log!Refuse([l EXCEPT !.ring = kept], Log!Wait(l, kept, extra, t))
      BY <1>1, <2>1 DEF Log!Allow, Log!Accept, Log!Impossible
    <2> QED
      BY <1>1, <1>2, <1>3, <2>2
  <1>5. extra \in 1..m
    BY <1>1, <1>2, <1>3, <1>4
  <1>6. PICK u, e, w : u = r.st /\ e = kept[extra] /\ w = e + size - t
    OBVIOUS
  <1>7. e \in Int /\ e > cut /\ w \in Nat /\ w >= 1
    <2>1. e \in Int /\ e > cut
      BY <1>3, <1>5, <1>6
    <2>2. cut = t - size /\ w = e + size - t
      BY <1>1, <1>6
    <2> QED
      BY <1>2, <2>1, <2>2
  <1>8. r.wait = w
    <2>1. Log!Wait(l, kept, extra, t)
            = IF extra \in 1..(Len(kept) - 0) /\ ~(kept[0 + extra] + l.size - t < 0)
                THEN kept[0 + extra] + l.size - t ELSE 0
      <3>1. 0 \in 0..Len(kept) /\ Log!After(kept, t - l.size) = (0 + 1)..Len(kept)
        BY <1>1, <1>3
      <3> QED
        BY <1>3, <1>5, <3>1, WaitIs
    <2>2. Log!Wait(l, kept, extra, t) = w
      BY <1>1, <1>3, <1>5, <1>6, <1>7, <2>1
    <2> QED
      BY <1>4, <2>2 DEF Log!Refuse
  <1>9. u.ring = kept /\ u.size = size /\ u.limit = limit
    <2>1. u = [l EXCEPT !.ring = kept]
      BY <1>4, <1>6 DEF Log!Refuse
    <2> QED
      BY <1>1, <2>1 DEF Logs, Log!States
  <1>10. ASSUME NEW d \in 0..w
         PROVE  Log!Allow(u, n, t + d).out = IF d < w THEN "deny" ELSE "ok"
    <2>1. PICK later : later = t + d - size
      OBVIOUS
    <2>2. later \in Int
      BY <1>2, <2>1
    <2>3. PICK k \in 0..m : /\ Log!Prune(kept, later) = SubSeq(kept, k + 1, m)
                            /\ \A p \in 1..k : kept[p] <= later
                            /\ k < m => kept[k + 1] > later
      BY <1>1, <1>3, <2>2, PruneDrops
    <2>4. Len(SubSeq(kept, k + 1, m)) = m - k
      <3>1. Len(SubSeq(kept, k + 1, m)) = IF k + 1 <= m THEN m - (k + 1) + 1 ELSE 0
        <4>1. k \in Nat /\ m \in Int /\ \A p \in 1..m : kept[p] \in Int
          BY <1>3
        <4>2. k + 1 \in Int /\ \A p \in (k + 1)..m : kept[p] \in Int
          BY <4>1
        <4> QED
          BY <4>1, <4>2, SubSeqProperties
      <3> QED
        BY <1>3, <2>3, <3>1
    <2>5. Log!Allow(u, n, t + d).out = IF m - k + n - limit <= 0 THEN "ok" ELSE "deny"
      <3>1. ~(n <= 0) /\ ~(n > u.limit) /\ Log!Prune(u.ring, Log!Cutoff(u, t + d))
              = SubSeq(kept, k + 1, m)
        BY SMTT(30), <1>2, <1>4, <1>9, <2>1, <2>3 DEF Log!Cutoff
      <3> QED
        BY <1>9, <2>4, <3>1 DEF Log!Allow, Log!Accept, Log!Refuse
    <2>6. m - k + n - limit <= 0 <=> k >= extra
      BY SMTT(30), <1>1, <1>2, <1>3, <2>3
    <2>7. CASE d < w
      <3>1. e > later
        BY <1>2, <1>6, <1>7, <2>1, <2>7
      <3>2. ~(k >= extra)
        <4>1. SUFFICES ASSUME k >= extra PROVE FALSE
          OBVIOUS
        <4>2. extra \in 1..k
          BY <1>3, <1>5, <2>3, <4>1
        <4> QED
          BY <1>6, <1>7, <2>2, <2>3, <3>1, <4>2
      <3> QED
        BY <2>5, <2>6, <2>7, <3>2
    <2>8. CASE ~(d < w)
      <3>1. d = w /\ e = later
        <4>1. d = w
          BY <1>7, <2>8
        <4>2. w = e + size - t
          BY <1>6
        <4> QED
          BY <1>2, <1>7, <2>1, <4>1, <4>2
      <3>2. k >= extra
        <4>1. SUFFICES ASSUME k < extra PROVE FALSE
          BY <1>3, <1>5, <2>3
        <4>2. k < m /\ k + 1 \in 1..m /\ k + 1 <= extra
          BY <1>3, <1>5, <2>3, <4>1
        <4>3. kept[k + 1] <= kept[extra]
          BY <1>1, <1>3, <1>5, <4>2 DEF Ascending
        <4> QED
          BY <1>3, <1>6, <1>7, <2>3, <3>1, <4>2, <4>3
      <3> QED
        BY <2>5, <2>6, <2>8, <3>2
    <2> QED
      BY <2>7, <2>8
  <1> QED
    <2>1. w \in 0..w /\ \A d \in 0..(w - 1) : d \in 0..w /\ d < w
      BY <1>7
    <2> QED
      BY SMTT(30), <1>1, <1>6, <1>7, <1>8, <1>10, <2>1

-----------------------------------------------------------------------------
(* The wait of the two gates of a key.                                     *)

\* What the gates of a key say, each for itself.
RateSays(s, n, t) ==
  IF s.tb # NIL THEN TB!Allow(s.tb, n, t).out
  ELSE IF s.gcra # NIL THEN GC!Allow(s.gcra, n, t).out
  ELSE "ok"

WindowSays(s, n, t) ==
  IF s.log # NIL THEN Log!Allow(s.log, n, t).out
  ELSE IF s.ctr # NIL THEN Ctr!Allow(s.ctr, n, t).out
  ELSE "ok"

\* The verdict is the first refusal, if there is one.
LEMMA BothSay ==
  ASSUME NEW a, NEW b, NEW c, NEW d, NEW n, NEW t, NEW s,
         s = [tb |-> a, gcra |-> b, log |-> c, ctr |-> d]
  PROVE  /\ AllowRate(s, n, t).out = RateSays(s, n, t)
         /\ AllowRate(s, n, t).st.log = s.log /\ AllowRate(s, n, t).st.ctr = s.ctr
         /\ Allow(s, n, t).out = IF RateSays(s, n, t) # "ok" THEN RateSays(s, n, t)
                                 ELSE WindowSays(s, n, t)
  <1>1. PICK r : r = AllowRate(s, n, t)
    OBVIOUS
  <1>2. r.out = RateSays(s, n, t) /\ r.st.log = s.log /\ r.st.ctr = s.ctr
    BY <1>1 DEF AllowRate, RateSays, Step, Accept
  <1>3. PICK w : w = AllowWindow(r.st, n, t)
    OBVIOUS
  <1>4. w.out = WindowSays(s, n, t)
    BY <1>2, <1>3 DEF AllowWindow, WindowSays, Step, Accept
  <1>5. [w EXCEPT !.st = RestoreRate(w.st, n, t)].out = w.out
    <2>1. \E y, o, z, x : w = [st |-> y, out |-> o, wait |-> z, reason |-> x]
      BY <1>3 DEF AllowWindow, Step
    <2> QED
      BY <2>1
  <1>6. Allow(s, n, t).out = IF r.out # "ok" THEN r.out ELSE w.out
    BY <1>1, <1>3, <1>5 DEF Allow
  <1> QED
    BY <1>1, <1>2, <1>4, <1>6

\* The fields of a step.
LEMMA StepFields ==
  ASSUME NEW s, NEW r, NEW why
  PROVE  LET p == Step(s, r, why) IN p.st = s /\ p.out = r.out /\ p.wait = r.wait
  BY DEF Step

\* A key with only a rate, or only a window.
OneGate(s) == (s.tb = NIL /\ s.gcra = NIL) \/ (s.log = NIL /\ s.ctr = NIL)

\* No retry before the wait is over is let in; with a single gate, that can
\* refill in time, the retry at its end is.
LEMMA RetryVerdict ==
  ASSUME NEW s \in GoodStates, NEW n \in 1..MaxTokens, NEW t \in Nat,
         s.gcra # NIL => Fits(s.gcra, t), s.ctr = NIL,
         s.log # NIL => Ascending(s.log.ring),
         Allow(s, n, t).out = "deny"
  PROVE  LET r == Allow(s, n, t) IN
         /\ \A d \in 0..(r.wait - 1) : Allow(r.st, n, t + d).out # "ok"
         /\ OneGate(s) /\ (s.tb # NIL => Refills(s.tb)) =>
              Allow(r.st, n, t + r.wait).out = "ok"
  <1>1. PICK r, a, w : /\ r = Allow(s, n, t) /\ a = AllowRate(s, n, t)
                       /\ w = AllowWindow(a.st, n, t)
    OBVIOUS
  <1>2. n \in Nat \ {0} /\ t \in Nat
    BY ScaleAssumption
  <1>3. /\ s = [tb |-> s.tb, gcra |-> s.gcra, log |-> s.log, ctr |-> NIL]
        /\ s.tb \in Buckets \cup {NIL} /\ s.gcra \in Meters \cup {NIL}
        /\ s.log \in Logs \cup {NIL} /\ (s.tb = NIL \/ s.gcra = NIL)
    BY GoodFields
  <1>4. /\ a.out = RateSays(s, n, t)
        /\ r.out = IF a.out # "ok" THEN a.out ELSE WindowSays(s, n, t)
    BY <1>1, <1>3, BothSay
  <1>5. CASE a.out # "ok"
    <2>1. r = a /\ a.out = "deny"
      BY <1>1, <1>5 DEF Allow
    <2>2. s.tb # NIL \/ s.gcra # NIL
      BY <1>4, <1>5 DEF RateSays
    <2>3. CASE s.tb # NIL
      <3>1. PICK b : b = TB!Allow(s.tb, n, t)
        OBVIOUS
      <3>2. /\ r.st = [tb |-> b.st, gcra |-> NIL, log |-> s.log, ctr |-> NIL]
            /\ r.wait = b.wait /\ b.out = "deny"
        <4>1. r = Step([s EXCEPT !.tb = b.st], b, "rate")
          BY <1>1, <2>1, <2>3, <3>1 DEF AllowRate
        <4>2. [s EXCEPT !.tb = b.st] = [tb |-> b.st, gcra |-> NIL, log |-> s.log, ctr |-> NIL]
          BY <1>3, <2>3
        <4>3. PICK u : u = [s EXCEPT !.tb = b.st]
          OBVIOUS
        <4>4. r.st = u /\ r.out = b.out /\ r.wait = b.wait
          BY <4>1, <4>3, StepFields
        <4> QED
          BY <2>1, <4>2, <4>3, <4>4
      <3>3. b.st # NIL
        <4>1. b.st = s.tb \/ Spends(s.tb, b.st, 0, t)
          BY <1>3, <2>3, <3>1, <3>2, BucketAllow
        <4> QED
          BY <1>3, <2>3, <4>1, NilIsNoState DEF Spends
      <3>4. \A d : RateSays(r.st, n, t + d) = TB!Allow(b.st, n, t + d).out
        BY <3>2, <3>3 DEF RateSays
      <3>5. /\ \A d \in 0..(b.wait - 1) : TB!Allow(b.st, n, t + d).out # "ok"
            /\ Refills(s.tb) => TB!Allow(b.st, n, t + b.wait).out = "ok"
        BY <1>3, <2>3, <3>1, <3>2, BucketRetry
      <3>6. OneGate(s) => \A d : WindowSays(r.st, n, t + d) = "ok"
        BY <2>3, <3>2 DEF OneGate, WindowSays
      <3>7. \A d : Allow(r.st, n, t + d).out
                     = IF RateSays(r.st, n, t + d) # "ok" THEN RateSays(r.st, n, t + d)
                       ELSE WindowSays(r.st, n, t + d)
        BY <3>2, BothSay
      <3>8. ASSUME NEW d \in 0..(r.wait - 1)
            PROVE  Allow(r.st, n, t + d).out # "ok"
        <4>1. TB!Allow(b.st, n, t + d).out # "ok"
          BY <3>2, <3>5
        <4>2. RateSays(r.st, n, t + d) # "ok"
          BY <3>4, <4>1
        <4> QED
          BY <3>7, <4>2
      <3>9. ASSUME OneGate(s), Refills(s.tb)
            PROVE  Allow(r.st, n, t + r.wait).out = "ok"
        <4>1. TB!Allow(b.st, n, t + r.wait).out = "ok"
          BY <3>2, <3>5, <3>9
        <4>2. RateSays(r.st, n, t + r.wait) = "ok" /\ WindowSays(r.st, n, t + r.wait) = "ok"
          BY <3>4, <3>6, <3>9, <4>1
        <4> QED
          BY <3>7, <4>2
      <3> QED
        BY <1>1, <2>3, <3>8, <3>9
    <2>4. CASE s.gcra # NIL
      <3>1. PICK g : g = GC!Allow(s.gcra, n, t)
        OBVIOUS
      <3>2. /\ r.st = [tb |-> NIL, gcra |-> g.st, log |-> s.log, ctr |-> NIL]
            /\ r.wait = g.wait /\ g.out = "deny"
        <4>1. r = Step([s EXCEPT !.gcra = g.st], g, "rate")
          <5>1. s.tb = NIL
            BY <1>3, <2>4
          <5> QED
            BY <1>1, <2>1, <2>4, <3>1, <5>1 DEF AllowRate
        <4>2. [s EXCEPT !.gcra = g.st] = [tb |-> NIL, gcra |-> g.st, log |-> s.log, ctr |-> NIL]
          BY <1>3, <2>4
        <4>3. PICK u : u = [s EXCEPT !.gcra = g.st]
          OBVIOUS
        <4>4. r.st = u /\ r.out = g.out /\ r.wait = g.wait
          BY <4>1, <4>3, StepFields
        <4> QED
          BY <2>1, <4>2, <4>3, <4>4
      <3>3. g.st # NIL
        <4>1. s.gcra \in Meters /\ Fits(s.gcra, t) /\ g.out # "ok"
          BY <1>3, <2>4, <3>2
        <4>2. g.st = s.gcra
          <5>1. GC!Allow(s.gcra, n, t).out # "ok" => GC!Allow(s.gcra, n, t).st = s.gcra
            BY DEF GC!Allow, GC!Accept, GC!Refuse, GC!Impossible
          <5> QED
            BY <3>1, <4>1, <5>1
        <4> QED
          BY <2>4, <4>2
      <3>4. \A d : RateSays(r.st, n, t + d) = GC!Allow(g.st, n, t + d).out
        BY <3>2, <3>3 DEF RateSays
      <3>5. /\ \A d \in 0..(g.wait - 1) : GC!Allow(g.st, n, t + d).out # "ok"
            /\ GC!Allow(g.st, n, t + g.wait).out = "ok"
        BY <1>2, <1>3, <2>4, <3>1, <3>2, MeterRetry
      <3>6. OneGate(s) => \A d : WindowSays(r.st, n, t + d) = "ok"
        BY <2>4, <3>2 DEF OneGate, WindowSays
      <3>7. \A d : Allow(r.st, n, t + d).out
                     = IF RateSays(r.st, n, t + d) # "ok" THEN RateSays(r.st, n, t + d)
                       ELSE WindowSays(r.st, n, t + d)
        BY <3>2, BothSay
      <3>8. ASSUME NEW d \in 0..(r.wait - 1)
            PROVE  Allow(r.st, n, t + d).out # "ok"
        <4>1. GC!Allow(g.st, n, t + d).out # "ok"
          BY <3>2, <3>5
        <4>2. RateSays(r.st, n, t + d) # "ok"
          BY <3>4, <4>1
        <4> QED
          BY <3>7, <4>2
      <3>9. ASSUME OneGate(s)
            PROVE  Allow(r.st, n, t + r.wait).out = "ok"
        <4>1. GC!Allow(g.st, n, t + r.wait).out = "ok"
          BY <3>2, <3>5
        <4>2. RateSays(r.st, n, t + r.wait) = "ok" /\ WindowSays(r.st, n, t + r.wait) = "ok"
          BY <3>4, <3>6, <3>9, <4>1
        <4> QED
          BY <3>7, <4>2
      <3> QED
        BY <1>1, <3>8, <3>9
    <2> QED
      BY <2>2, <2>3, <2>4
  <1>6. CASE a.out = "ok"
    <2>1. s.log # NIL /\ Log!Allow(s.log, n, t).out = "deny"
      BY <1>1, <1>4, <1>6 DEF WindowSays
    <2>2. PICK l : l = Log!Allow(s.log, n, t)
      OBVIOUS
    <2>3. PICK x, y : a.st = [tb |-> x, gcra |-> y, log |-> s.log, ctr |-> NIL]
      BY <1>1, <1>3 DEF AllowRate, Step, Accept
    <2>4. w = Step([a.st EXCEPT !.log = l.st], l, "window")
      <3>1. a.st.log = s.log
        BY <2>3
      <3> QED
        BY <1>1, <2>1, <2>2, <3>1 DEF AllowWindow
    <2>5. w = Step([tb |-> x, gcra |-> y, log |-> l.st, ctr |-> NIL], l, "window")
      BY <2>3, <2>4
    <2>6. PICK u : u = [tb |-> x, gcra |-> y, log |-> l.st, ctr |-> NIL]
      OBVIOUS
    <2>7. r = [w EXCEPT !.st = RestoreRate(u, n, t)]
      <3>1. w.out # "ok" /\ w.st = u
        BY <2>1, <2>2, <2>5, <2>6, StepFields
      <3> QED
        BY <1>1, <1>6, <3>1 DEF Allow
    <2>8. r.st = RestoreRate(u, n, t) /\ r.wait = l.wait
      BY <2>5, <2>7 DEF Step
    <2>9. PICK p, q : /\ r.st = [tb |-> p, gcra |-> q, log |-> l.st, ctr |-> NIL]
                      /\ x = NIL => p = NIL
                      /\ y = NIL => q = NIL
      <3>1. u \in [tb: {x}, gcra: {y}, log: {l.st}, ctr: {NIL}]
        BY <2>6
      <3>2. PICK p, q : /\ p = IF u.tb = NIL THEN NIL ELSE TB!Restore(u.tb, n, t)
                        /\ q = IF u.gcra = NIL THEN NIL ELSE GC!Restore(u.gcra, n, t)
        OBVIOUS
      <3>3. [u EXCEPT !.tb = p, !.gcra = q]
              = [tb |-> p, gcra |-> q, log |-> u.log, ctr |-> u.ctr]
        <4>1. [u EXCEPT !.tb = p, !.gcra = q] = [[u EXCEPT !.tb = p] EXCEPT !.gcra = q]
          BY <3>1
        <4>2. [u EXCEPT !.tb = p] = [tb |-> p, gcra |-> u.gcra, log |-> u.log, ctr |-> u.ctr]
          BY <3>1
        <4>3. [[tb |-> p, gcra |-> u.gcra, log |-> u.log, ctr |-> u.ctr] EXCEPT !.gcra = q]
                = [tb |-> p, gcra |-> q, log |-> u.log, ctr |-> u.ctr]
          OBVIOUS
        <4> QED
          BY <4>1, <4>2, <4>3
      <3>4. RestoreRate(u, n, t) = [u EXCEPT !.tb = p, !.gcra = q]
        BY <3>2 DEF RestoreRate
      <3>5. u.tb = x /\ u.gcra = y /\ u.log = l.st /\ u.ctr = NIL
        BY <2>6
      <3>6. r.st = [tb |-> p, gcra |-> q, log |-> l.st, ctr |-> NIL]
        BY <2>8, <3>3, <3>4, <3>5
      <3>7. (x = NIL => p = NIL) /\ (y = NIL => q = NIL)
        BY <3>2, <3>5
      <3> QED
        BY <3>6, <3>7
    <2>10. l.st # NIL
      BY <1>2, <1>3, <2>1, <2>2, LogAllow, NilIsNoState
    <2>11. \A d : WindowSays(r.st, n, t + d) = Log!Allow(l.st, n, t + d).out
      BY <2>9, <2>10 DEF WindowSays
    <2>12. /\ \A d \in 0..(l.wait - 1) : Log!Allow(l.st, n, t + d).out # "ok"
           /\ Log!Allow(l.st, n, t + l.wait).out = "ok"
      BY <1>2, <1>3, <2>1, <2>2, LogRetry
    <2>13. OneGate(s) => \A d : RateSays(r.st, n, t + d) = "ok"
      <3>1. OneGate(s) => s.tb = NIL /\ s.gcra = NIL
        BY <2>1 DEF OneGate
      <3>2. s.tb = NIL /\ s.gcra = NIL => x = NIL /\ y = NIL
        <4>1. SUFFICES ASSUME s.tb = NIL, s.gcra = NIL PROVE x = NIL /\ y = NIL
          OBVIOUS
        <4>2. PICK v : v = Accept(s)
          OBVIOUS
        <4>3. a.st = s
          <5>1. a = Step(s, v, "")
            BY <1>1, <4>1, <4>2 DEF AllowRate
          <5> QED
            BY <5>1 DEF Step
        <4>4. a.st.tb = x /\ a.st.gcra = y
          BY <2>3
        <4> QED
          BY <4>1, <4>3, <4>4
      <3> QED
        BY <2>9, <3>1, <3>2 DEF RateSays
    <2>14. \A d : Allow(r.st, n, t + d).out
                    = IF RateSays(r.st, n, t + d) # "ok" THEN RateSays(r.st, n, t + d)
                      ELSE WindowSays(r.st, n, t + d)
      BY <2>9, BothSay
    <2>15. ASSUME NEW d \in 0..(r.wait - 1)
           PROVE  Allow(r.st, n, t + d).out # "ok"
      BY <2>8, <2>11, <2>12, <2>14
    <2> QED
      BY <1>1, <2>8, <2>11, <2>12, <2>13, <2>14, <2>15
  <1> QED
    BY <1>5, <1>6

=============================================================================
