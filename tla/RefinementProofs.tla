-------------------------- MODULE RefinementProofs --------------------------
(***************************************************************************)
(* Two refinements of one key: Limiter implements LeakyBucket (a key       *)
(* limited by GCRA is a leaky bucket in every step, its window,            *)
(* cancellations and clock set back included), and the circular buffer the *)
(* sliding log is stored in implements the sequence Limiter uses for it.   *)
(***************************************************************************)
EXTENDS LimiterProofs

-----------------------------------------------------------------------------
(* What a call does to the meter, exactly.                                 *)

\* A decision that lets the call through puts n intervals on top of the later
\* of tat and the clock; a refusal at most brings tat to the clock, when the
\* window refused what the meter had granted (state.go:62).
LEMMA AllowMeter ==
  ASSUME NEW s \in GoodStates, NEW n \in 1..MaxTokens, NEW t \in Nat,
         s.gcra # NIL, Fits(s.gcra, t)
  PROVE  LET r == Allow(s, n, t)
             g == s.gcra
         IN /\ r.out = "ok" =>
                 /\ r.st.gcra = [g EXCEPT !.tat = MaxI(g.tat, t) + g.interval * n]
                 /\ g.interval # 0
                 /\ MaxI(g.tat, t) + g.interval * n <= t + g.limit
            /\ r.out # "ok" =>
                 r.st.gcra = g \/ r.st.gcra = [g EXCEPT !.tat = MaxI(g.tat, t)]
  <1> DEFINE g == s.gcra
             a == GC!Allow(g, n, t)
             r == AllowRate(s, n, t)
             w == AllowWindow(r.st, n, t)
             full == MaxI(g.tat, t) + g.interval * n
  <1>0. /\ g \in Meters /\ s.tb = NIL /\ n \in Nat \ {0}
        /\ s \in [tb: Buckets \cup {NIL}, gcra: Meters \cup {NIL},
                  log: Logs \cup {NIL}, ctr: Counters \cup {NIL}]
    BY GoodFields DEF GoodStates
  <1>1. /\ a.out = "ok" => a.st = [g EXCEPT !.tat = full] /\ Moves(g, a.st, n, t)
                           /\ n <= g.burst
        /\ a.out # "ok" => a.st = g
    BY <1>0, MeterAllow
  <1>2. /\ g.tat \in Int /\ g.interval \in Nat /\ g.limit \in Nat /\ g.burst \in Nat
        /\ g.interval * n \in Nat /\ full \in Int /\ MaxI(g.tat, t) \in Int
    BY <1>0, NatProduct DEF Meters, GC!States, MaxI
  <1>3. a.out = "ok" => g.interval # 0
    BY <1>0 DEF GC!Allow, GC!Impossible, GC!Refuse
  <1>4. a.out = "ok" => full <= t + g.limit
    <2> SUFFICES ASSUME a.out = "ok" PROVE full <= t + g.limit
      OBVIOUS
    <2>1. a.st.tat <= MaxI(g.tat, t + g.limit) /\ a.st.tat = full
      BY <1>0, <1>1 DEF Moves, Meters, GC!States
    <2>2. g.interval * n >= 1
      <3>1. \A x, y \in Nat \ {0} : x * y \in Nat \ {0}
        OBVIOUS
      <3> QED
        BY <1>0, <1>2, <1>3, <3>1
    <2> QED
      BY <1>2, <2>1, <2>2 DEF MaxI
  <1>5. r.st = [s EXCEPT !.gcra = a.st] /\ r.out = a.out
    BY <1>0 DEF AllowRate, Step
  <1> HIDE DEF a, full
  <1>6. r.st.gcra = a.st
    BY <1>0, <1>5
  <1>7. /\ w.st \in GoodStates /\ w.st.gcra = r.st.gcra
    <2>1. r.st \in GoodStates
      BY RateEffect DEF Effect
    <2> QED
      BY <1>0, <2>1, WindowEffect
  <1>8. CASE r.out # "ok"
    BY <1>1, <1>5, <1>6, <1>8 DEF Allow
  <1>9. CASE r.out = "ok" /\ w.out = "ok"
    <2>1. Allow(s, n, t) = w
      BY <1>9 DEF Allow
    <2> HIDE DEF w, r
    <2> QED
      BY <1>1, <1>3, <1>4, <1>5, <1>6, <1>7, <1>9, <2>1 DEF full
  <1>10. CASE r.out = "ok" /\ w.out # "ok"
    <2> DEFINE v == w.st
               u == RestoreRate(v, n, t)
    <2>1. Allow(s, n, t).st = u /\ Allow(s, n, t).out = w.out
      BY <1>10 DEF Allow, AllowWindow, Step
    <2>2. v.gcra = [g EXCEPT !.tat = full] /\ n <= g.burst
      BY <1>1, <1>5, <1>6, <1>7, <1>10
    <2> HIDE DEF v, w, r
    <2>3. v.gcra # NIL
      <3>1. v.gcra \in Meters
        BY <1>0, <1>2, <2>2 DEF Meters, GC!States
      <3> QED
        BY <3>1, NilIsNoState
    <2>4. u.gcra = GC!Restore(v.gcra, n, t)
      <3> DEFINE x == IF v.tb = NIL THEN NIL ELSE TB!Restore(v.tb, n, t)
                 y == GC!Restore(v.gcra, n, t)
      <3>1. v \in [tb: Buckets \cup {NIL}, gcra: Meters \cup {NIL},
                   log: Logs \cup {NIL}, ctr: Counters \cup {NIL}]
        BY <1>7 DEF GoodStates, v
      <3>2. u = [v EXCEPT !.tb = x, !.gcra = y]
        BY <2>3 DEF RestoreRate
      <3> HIDE DEF u, x, y
      <3>3. u = [tb |-> x, gcra |-> y, log |-> v.log, ctr |-> v.ctr]
        BY <3>1, <3>2, RateFields
      <3> QED
        BY <3>3 DEF y
    <2>5. GC!Restore(v.gcra, n, t) = [g EXCEPT !.tat = MaxI(g.tat, t)]
      <3> DEFINE top == MaxI(g.tat, t)
                 inc == g.interval * n
                 h == [g EXCEPT !.tat = top + inc]
      <3>1. /\ h \in Meters /\ h.interval = g.interval /\ h.limit = g.limit
            /\ h.burst = g.burst /\ h.tat = top + inc
        BY <1>0, <1>2 DEF Meters, GC!States, full
      <3>2. g.limit <= MaxI64
        BY <1>2, MaxI64Fits DEF Fits, MaxI
      <3>3. GC!I64(GC!Inc(h, n)) = inc /\ GC!I64(h.limit) = g.limit
        BY <1>0, <2>2, <3>1, <3>2, MeterInc
      <3>4. top \in Int /\ inc \in Int /\ top >= t
        BY <1>2 DEF MaxI
      <3>5. v.gcra = h
        BY <2>2 DEF full
      <3>6. g.interval # 0
        BY <1>3, <1>5, <1>10
      <3> HIDE DEF h, inc, top
      <3>7. GC!MaxI(h.tat - inc, t - g.limit) = top
        BY <1>2, <3>1, <3>4 DEF GC!MaxI
      <3>8. GC!Restore(h, n, t) = [h EXCEPT !.tat = top]
        BY <1>0, <3>1, <3>3, <3>6, <3>7 DEF GC!Restore
      <3>9. [h EXCEPT !.tat = top] = [g EXCEPT !.tat = top]
        BY <1>0 DEF h, Meters, GC!States
      <3> QED
        BY <3>5, <3>8, <3>9 DEF top
    <2> QED
      BY <1>10, <2>1, <2>4, <2>5
  <1> QED
    BY <1>8, <1>9, <1>10

\* A query leaves the meter as it is.
LEMMA PeekMeter ==
  ASSUME NEW s \in GoodStates, NEW n \in 1..MaxTokens, NEW t \in Nat, s.gcra # NIL
  PROVE  Peek(s, n, t).st.gcra = s.gcra
  <1> DEFINE p == PeekRate(s, n, t)
             q == PeekWindow(p.st, n, t)
  <1>1. s.tb = NIL
    BY GoodFields
  <1>2. p.st = s
    BY <1>1 DEF PeekRate, Step
  <1>3. q.st.gcra = s.gcra
    <2>1. s \in [tb: Buckets \cup {NIL}, gcra: Meters \cup {NIL},
                 log: Logs \cup {NIL}, ctr: Counters \cup {NIL}]
      BY DEF GoodStates
    <2>2. q.st = s \/ \E c : q.st = [s EXCEPT !.ctr = c]
      BY <1>2 DEF PeekWindow, Step, Accept
    <2> HIDE DEF q
    <2> QED
      BY <2>1, <2>2
  <1> QED
    BY <1>2, <1>3 DEF Peek

\* A cancellation takes n intervals back, down to where the allowance begins.
LEMMA RestoreMeter ==
  ASSUME NEW s \in GoodStates, NEW n \in 1..MaxTokens, NEW t \in Nat,
         s.gcra # NIL, n <= s.gcra.burst, s.gcra.limit <= MaxI64, s.gcra.interval # 0
  PROVE  LET g == s.gcra IN
         Restore(s, n, t).gcra
           = [g EXCEPT !.tat = MaxI(g.tat - g.interval * n, t - g.limit)]
  <1> DEFINE g == s.gcra
  <1>1. g \in Meters
    BY GoodFields
  <1>2. Restore(s, n, t).gcra = GC!Restore(g, n, t)
    <2>1. PICK l : l = IF s.log = NIL THEN NIL ELSE Log!Restore(s.log, n)
      OBVIOUS
    <2>2. PICK c : c = IF s.ctr = NIL THEN NIL ELSE Ctr!Restore(s.ctr, n)
      OBVIOUS
    <2>3. PICK v : v = [s EXCEPT !.log = l, !.ctr = c]
      OBVIOUS
    <2>4. s \in [tb: Buckets \cup {NIL}, gcra: Meters \cup {NIL},
                 log: Logs \cup {NIL}, ctr: Counters \cup {NIL}]
      BY DEF GoodStates
    <2>5. Restore(s, n, t) = RestoreRate(v, n, t)
      BY <2>1, <2>2, <2>3 DEF Restore
    <2>6. v = [tb |-> s.tb, gcra |-> s.gcra, log |-> l, ctr |-> c]
      BY <2>4, <2>3, WindowFields
    <2>7. v.tb = s.tb /\ v.gcra = s.gcra
      BY <2>6
    <2> DEFINE x == IF v.tb = NIL THEN NIL ELSE TB!Restore(v.tb, n, t)
               y == GC!Restore(v.gcra, n, t)
               u == RestoreRate(v, n, t)
    <2>8. u = [v EXCEPT !.tb = x, !.gcra = y]
      BY <2>7 DEF RestoreRate
    <2>9. v \in [tb: {s.tb}, gcra: {s.gcra}, log: {l}, ctr: {c}]
      BY <2>6
    <2> HIDE DEF u, x, y
    <2>10. u = [tb |-> x, gcra |-> y, log |-> v.log, ctr |-> v.ctr]
      BY <2>8, <2>9, RateFields
    <2> QED
      BY <2>5, <2>7, <2>10 DEF u, y
  <1>3. /\ GC!I64(GC!Inc(g, n)) = g.interval * n /\ GC!I64(g.limit) = g.limit
    BY <1>1, MeterInc
  <1>4. GC!Restore(g, n, t) = [g EXCEPT !.tat = MaxI(g.tat - g.interval * n, t - g.limit)]
    BY <1>3 DEF GC!Restore, GC!MaxI, MaxI
  <1> QED
    BY <1>2, <1>4

-----------------------------------------------------------------------------
(* What is held.                                                           *)

\* What is still held of each call.
HeldOf(cs) == [i \in 1..Len(cs) |-> IF cs[i].live THEN cs[i].n ELSE 0]

\* The calls not cancelled are of m units in all.
NetOf(cs, m) == AddsUp(HeldOf(cs), Len(cs), m)

LEMMA NetOfNone == NetOf(<<>>, 0)
  <1>1. Len(<<>>) = 0
    OBVIOUS
  <1> QED
    BY <1>1, AddsUpNone DEF NetOf

LEMMA NetOfCall ==
  ASSUME NEW cs \in Seq(CallRecords), NEW m, NetOf(cs, m), NEW c \in CallRecords, c.live
  PROVE  NetOf(Append(cs, c), m + c.n)
  <1> DEFINE ds == Append(cs, c)
  <1>1. /\ Len(cs) \in Nat /\ Len(ds) = Len(cs) + 1
        /\ ds[Len(cs) + 1] = c
        /\ \A i \in 1..Len(cs) : ds[i] = cs[i]
    OBVIOUS
  <1>2. c.n \in Nat
    BY UnitsFit DEF CallRecords
  <1> HIDE DEF ds
  <1>3. /\ HeldOf(ds)[Len(cs) + 1] = c.n
        /\ \A i \in 1..Len(cs) : HeldOf(ds)[i] = HeldOf(cs)[i]
    BY <1>1 DEF HeldOf
  <1> QED
    BY <1>1, <1>2, <1>3, AddsUpMore DEF NetOf, ds

\* A call that is cancelled was held, and the others still are.
LEMMA NetOfCancel ==
  ASSUME NEW cs \in Seq(CallRecords), NEW m, NetOf(cs, m),
         NEW k \in 1..Len(cs), cs[k].live
  PROVE  /\ cs[k].n <= m
         /\ NetOf([cs EXCEPT ![k].live = FALSE], m - cs[k].n)
  <1> DEFINE ds == [cs EXCEPT ![k].live = FALSE]
  <1>1. /\ Len(cs) \in Nat /\ Len(ds) = Len(cs)
        /\ ~ds[k].live
        /\ \A i \in 1..Len(cs) : i # k => ds[i] = cs[i]
    <2>1. cs[k] \in CallRecords
      OBVIOUS
    <2> QED
      BY <2>1 DEF CallRecords
  <1>2. \A i \in 1..Len(cs) : cs[i].n \in Nat
    <2> SUFFICES ASSUME NEW i \in 1..Len(cs) PROVE cs[i].n \in Nat
      OBVIOUS
    <2>1. cs[i] \in CallRecords
      OBVIOUS
    <2> QED
      BY <2>1, UnitsFit DEF CallRecords
  <1> HIDE DEF ds
  <1>3. /\ HeldOf(cs)[k] = cs[k].n /\ HeldOf(ds)[k] = 0
        /\ \A i \in 1..Len(cs) : HeldOf(cs)[i] \in Nat
        /\ \A i \in 1..Len(cs) : i # k => HeldOf(ds)[i] = HeldOf(cs)[i]
    BY <1>1, <1>2 DEF HeldOf
  <1>4. cs[k].n <= m /\ AddsUp(HeldOf(ds), Len(cs), m - cs[k].n)
    <2> DEFINE w == HeldOf(cs)
               v == HeldOf(ds)
    <2>1. AddsUp(w, Len(cs), m)
      BY DEF NetOf
    <2> HIDE DEF w, v
    <2> QED
      BY <1>1, <1>2, <1>3, <2>1, AddsUpLess DEF w, v
  <1> QED
    BY <1>1, <1>4 DEF NetOf, ds

-----------------------------------------------------------------------------
(* The refinement.                                                         *)

\* A meter that meters nothing lets nothing in.
MeterRuns == st.gcra # NIL => st.gcra.interval # 0 \/ st.gcra.burst = 0

LInv == IInv /\ NetOf(calls, net) /\ MeterRuns

\* What a meter looks like as a bucket.
LEMMA LeakyMeter ==
  ASSUME LInv, st.gcra # NIL
  PROVE  /\ HasGcra /\ st.gcra \in Meters /\ Fits(st.gcra, now)
         /\ st.gcra.tat \in Int /\ st.gcra.interval \in Nat /\ st.gcra.limit \in Nat
         /\ st.gcra.burst \in Nat /\ st.gcra.limit <= MaxI64
         /\ st.gcra.limit = st.gcra.interval * st.gcra.burst
         /\ st \in GoodStates /\ now \in Nat /\ net \in Int
  <1>1. /\ st \in GoodStates /\ now \in Nat /\ net \in Int
        /\ Fits(st.gcra, now) /\ st.gcra.limit <= MaxI64
    BY MeterFits DEF LInv, IInv, Shape, Clocks, History
  <1>2. st.gcra \in Meters
    BY <1>1, GoodFields
  <1> QED
    BY <1>1, <1>2 DEF HasGcra, Meters, GC!States

\* As many units as intervals fit the allowance.
LEMMA UnitsInCapacity ==
  ASSUME LInv, st.gcra # NIL, st.gcra.interval # 0,
         NEW n \in 1..MaxTokens, n <= st.gcra.burst
  PROVE  n \in 1..st.gcra.limit
  <1>1. /\ st.gcra.interval \in Nat \ {0} /\ st.gcra.burst \in Nat
        /\ st.gcra.limit = st.gcra.interval * st.gcra.burst
    BY LeakyMeter
  <1>2. \A x \in Nat \ {0}, y \in Nat : y <= x * y
    <2> SUFFICES ASSUME NEW x \in Nat \ {0}, NEW y \in Nat PROVE y <= x * y
      OBVIOUS
    <2>1. (x - 1) * y \in Nat /\ x * y = (x - 1) * y + y
      BY NatProduct
    <2> QED
      BY <2>1
  <1> QED
    BY <1>1, <1>2

\* The level is what tat is ahead of the clock: what is put on tat when it is
\* brought to the clock first raises the level by as much, and what is taken
\* off it lowers the level by as much, as far as there is any.
LEMMA LevelRises ==
  ASSUME NEW a \in Int, NEW t \in Int, NEW inc \in Nat
  PROVE  MaxI((MaxI(a, t) + inc) - t, 0) = MaxI(a - t, 0) + inc
  BY DEF MaxI

LEMMA LevelFits ==
  ASSUME NEW a \in Int, NEW t \in Int, NEW inc \in Nat, NEW top \in Nat,
         MaxI(a, t) + inc <= t + top
  PROVE  MaxI(a - t, 0) + inc <= top
  BY DEF MaxI

LEMMA LevelFalls ==
  ASSUME NEW a \in Int, NEW t \in Int, NEW inc \in Nat, NEW top \in Nat
  PROVE  MaxI(MaxI(a - inc, t - top) - t, 0)
           = IF MaxI(a - t, 0) > inc THEN MaxI(a - t, 0) - inc ELSE 0
  BY DEF MaxI

LEMMA NatCommutes ==
  ASSUME NEW a \in Nat, NEW b \in Nat
  PROVE  a * b = b * a
  OBVIOUS

LEMMA LeakyInit == Init => LInv /\ Leaky!Init
  <1> SUFFICES ASSUME Init PROVE LInv /\ Leaky!Init
    OBVIOUS
  <1>1. IInv /\ now \in Nat /\ st \in GoodStates /\ net = 0 /\ calls = <<>>
    BY InitHolds DEF Init, IInv, Shape, Clocks
  <1>2. NetOf(calls, net)
    BY <1>1, NetOfNone
  <1>3. st.gcra # NIL =>
          /\ st.gcra.tat \in {0, now}
          /\ st.gcra.interval # 0 \/ st.gcra.burst = 0
    <2> SUFFICES ASSUME st.gcra # NIL
                 PROVE  /\ st.gcra.tat \in {0, now}
                        /\ st.gcra.interval # 0 \/ st.gcra.burst = 0
      OBVIOUS
    <2>1. st.gcra = GC!NewGCRA(spec.rate, now)
      BY DEF Init, NewLimiterState
    <2>2. CASE st.gcra = GC!ZeroState
      BY <2>2 DEF GC!ZeroState
    <2>3. CASE st.gcra # GC!ZeroState
      <3> DEFINE q == (Second * spec.rate.den) \div spec.rate.num
      <3>1. st.gcra = [tat |-> now, interval |-> GC!MaxI(1, q),
                       limit |-> GC!U64(GC!MaxI(1, q) * spec.rate.burst),
                       burst |-> spec.rate.burst]
        BY <2>1, <2>3 DEF GC!NewGCRA
      <3>2. st.gcra.interval \in Nat
        BY <1>1, GoodFields DEF Meters, GC!States
      <3> HIDE DEF q
      <3>3. st.gcra.tat = now /\ st.gcra.interval = GC!MaxI(1, q)
        BY <3>1
      <3> QED
        BY <3>2, <3>3 DEF GC!MaxI
    <2> QED
      BY <2>2, <2>3
  <1>4. LInv
    BY <1>1, <1>2, <1>3 DEF LInv, MeterRuns
  <1>5. CASE st.gcra = NIL
    BY <1>1, <1>4, <1>5 DEF Leaky!Init, HasGcra
  <1>6. CASE st.gcra # NIL
    <2>1. MaxI(st.gcra.tat - now, 0) = 0
      BY <1>1, <1>3, <1>6 DEF MaxI
    <2> QED
      BY <1>1, <1>4, <1>6, <2>1, LeakyMeter DEF Leaky!Init, HasGcra
  <1> QED
    BY <1>4, <1>5, <1>6

\* A limiter without a meter is an empty bucket that takes nothing.
LEMMA NoMeter ==
  ASSUME st.gcra = NIL, st'.gcra = NIL, now' = now
  PROVE  UNCHANGED Leaky!vars
  BY DEF Leaky!vars, HasGcra

\* An operation on the key leaves the gates what they were.
LEMMA GateStays ==
  ASSUME LInv, NEW k \in Int, Effect(st, st', k, now)
  PROVE  /\ MeterRuns'
         /\ st'.gcra = NIL <=> st.gcra = NIL
         /\ st.gcra # NIL => /\ st'.gcra.interval = st.gcra.interval
                             /\ st'.gcra.limit = st.gcra.limit
  BY DEF LInv, MeterRuns, Effect, SameGates, Moves

\* A call let in is poured in; one that is refused adds nothing.
LEMMA LeakyAllow ==
  ASSUME LInv, NEW n \in 1..MaxN, AllowN(n)
  PROVE  /\ NetOf(calls, net)' /\ MeterRuns'
         /\ [Leaky!Next]_Leaky!vars
  <1> DEFINE r == Allow(st, n, now)
             g == st.gcra
             full == MaxI(g.tat, now) + g.interval * n
  <1>1. /\ n \in 1..MaxTokens /\ n \in Nat /\ st \in GoodStates /\ now \in Nat
        /\ net \in Int /\ calls \in Seq(CallRecords) /\ NetOf(calls, net)
    BY UnitsFit DEF LInv, IInv, Shape, Clocks, History
  <1>2. Effect(st, st', IF r.out = "ok" THEN n ELSE 0, now) /\ st' = r.st /\ now' = now
    BY <1>1, MeterFits, AllowEffect DEF AllowN, LInv
  <1>3. (IF r.out = "ok" THEN n ELSE 0) \in Int
    BY <1>1
  <1>4. g # NIL =>
          /\ r.out = "ok" => /\ st'.gcra = [g EXCEPT !.tat = full]
                             /\ g.interval # 0 /\ full <= now + g.limit
                             /\ n <= g.burst
          /\ r.out # "ok" => st'.gcra = g \/ st'.gcra = [g EXCEPT !.tat = MaxI(g.tat, now)]
    <2> SUFFICES ASSUME g # NIL
                 PROVE  /\ r.out = "ok" => /\ st'.gcra = [g EXCEPT !.tat = full]
                                           /\ g.interval # 0 /\ full <= now + g.limit
                                           /\ n <= g.burst
                        /\ r.out # "ok" => \/ st'.gcra = g
                                           \/ st'.gcra = [g EXCEPT !.tat = MaxI(g.tat, now)]
      OBVIOUS
    <2>1. Fits(g, now)
      BY LeakyMeter
    <2>2. r.out = "ok" => n <= g.burst
      BY <1>1, <2>1, AllowEffect
    <2>3. /\ r.out = "ok" => /\ r.st.gcra = [g EXCEPT !.tat = full]
                             /\ g.interval # 0 /\ full <= now + g.limit
          /\ r.out # "ok" => \/ r.st.gcra = g
                             \/ r.st.gcra = [g EXCEPT !.tat = MaxI(g.tat, now)]
      BY <1>1, <2>1, AllowMeter
    <2> HIDE DEF r, full
    <2> QED
      BY <1>2, <2>2, <2>3
  <1> HIDE DEF r
  <1>5. /\ MeterRuns'
        /\ st'.gcra = NIL <=> g = NIL
        /\ g # NIL => st'.gcra.interval = g.interval /\ st'.gcra.limit = g.limit
    BY <1>2, <1>3, GateStays
  <1>6. CASE /\ r.out = "ok" /\ net' = net + n
             /\ calls' = Append(calls, [n |-> n, at |-> now, live |-> TRUE])
    <2>1. NetOf(calls, net)'
      <3>1. [n |-> n, at |-> now, live |-> TRUE] \in CallRecords
        BY <1>1 DEF CallRecords
      <3> QED
        BY <1>1, <1>6, <3>1, NetOfCall
    <2>2. CASE g = NIL
      BY <1>2, <1>5, <2>1, <2>2, NoMeter
    <2>3. CASE g # NIL
      <3>1. /\ g \in Meters /\ g.tat \in Int /\ g.interval \in Nat /\ g.limit \in Nat
            /\ g.interval * n \in Nat
        BY <1>1, <2>3, LeakyMeter, NatProduct
      <3>2. st'.gcra.tat = full /\ full <= now + g.limit
        BY <1>4, <1>6, <2>3, <3>1 DEF Meters, GC!States
      <3>3. n \in 1..g.limit
        BY <1>1, <1>4, <1>6, <2>3, UnitsInCapacity
      <3> DEFINE inc == g.interval * n
      <3>4. /\ inc \in Nat /\ inc = n * g.interval /\ now \in Int
            /\ full = MaxI(g.tat, now) + inc
        BY <1>1, <3>1, NatCommutes
      <3> HIDE DEF inc, full
      <3>5. /\ MaxI(g.tat - now, 0) + n * g.interval <= g.limit
            /\ MaxI(st'.gcra.tat - now', 0) = MaxI(g.tat - now, 0) + n * g.interval
        <4> HIDE DEF g
        <4>1. MaxI(g.tat - now, 0) + inc <= g.limit
          BY <3>1, <3>2, <3>4, LevelFits
        <4>2. MaxI((MaxI(g.tat, now) + inc) - now, 0) = MaxI(g.tat - now, 0) + inc
          BY <3>1, <3>4, LevelRises
        <4>3. now' = now /\ st'.gcra.tat = MaxI(g.tat, now) + inc
          BY <1>2, <3>2, <3>4
        <4>4. MaxI(st'.gcra.tat - now', 0) = MaxI(g.tat - now, 0) + inc
          BY <4>2, <4>3, Zenon
        <4> QED
          BY <3>4, <4>1, <4>4, Zenon
      <3> HIDE DEF g
      <3>6. Leaky!Pour(n)
        BY <1>2, <1>5, <1>6, <2>3, <3>5 DEF Leaky!Pour, HasGcra, g
      <3> QED
        BY <1>5, <2>1, <2>3, <3>3, <3>6 DEF Leaky!Next, HasGcra, g
    <2> QED
      BY <2>2, <2>3
  <1>7. CASE r.out # "ok" /\ UNCHANGED <<calls, net>>
    <2>1. NetOf(calls, net)'
      BY <1>1, <1>7
    <2>2. CASE g = NIL
      BY <1>2, <1>5, <2>1, <2>2, NoMeter
    <2>3. CASE g # NIL
      <3>1. g \in Meters /\ g.tat \in Int
        BY <2>3, LeakyMeter
      <3>2. st'.gcra.tat = g.tat \/ st'.gcra.tat = MaxI(g.tat, now)
        BY <1>4, <1>7, <2>3, <3>1 DEF Meters, GC!States
      <3>3. MaxI(st'.gcra.tat - now', 0) = MaxI(g.tat - now, 0)
        BY <1>1, <1>2, <3>1, <3>2 DEF MaxI
      <3> HIDE DEF g
      <3>4. UNCHANGED Leaky!vars
        BY <1>2, <1>5, <1>7, <2>3, <3>3 DEF Leaky!vars, HasGcra, g
      <3> QED
        BY <1>5, <2>1, <3>4
    <2> QED
      BY <2>2, <2>3
  <1> QED
    BY <1>6, <1>7 DEF AllowN, r

\* A query is none of the bucket's business.
LEMMA LeakyPeek ==
  ASSUME LInv, PeekKey
  PROVE  /\ NetOf(calls, net)' /\ MeterRuns'
         /\ UNCHANGED Leaky!vars
  <1>1. /\ st \in GoodStates /\ now \in Nat /\ 1 \in 1..MaxTokens
        /\ now' = now /\ net' = net /\ calls' = calls /\ NetOf(calls, net)
        /\ st' = Peek(st, 1, now).st
    BY ScaleAssumption DEF LInv, IInv, Shape, Clocks, PeekKey
  <1>2. Effect(st, st', 0, now)
    BY <1>1, PeekEffect
  <1>3. MeterRuns' /\ (st'.gcra = NIL <=> st.gcra = NIL)
    BY <1>2, GateStays
  <1>4. st'.gcra = st.gcra
    BY <1>1, <1>3, PeekMeter
  <1>5. UNCHANGED Leaky!vars
    BY <1>1, <1>4 DEF Leaky!vars, HasGcra
  <1> QED
    BY <1>1, <1>3, <1>5

\* A cancellation takes back what is left of what its call poured in.
LEMMA LeakyCancel ==
  ASSUME LInv, NEW i \in 1..Len(calls), Cancel(i)
  PROVE  /\ NetOf(calls, net)' /\ MeterRuns'
         /\ [Leaky!Next]_Leaky!vars
  <1> DEFINE g == st.gcra
             n == calls[i].n
  <1>1. /\ st \in GoodStates /\ now \in Nat /\ net \in Int
        /\ calls \in Seq(CallRecords) /\ NetOf(calls, net)
    BY DEF LInv, IInv, Shape, Clocks, History
  <1>2. n \in 1..MaxTokens /\ n \in Nat
    <2>1. calls[i] \in CallRecords
      BY <1>1
    <2> QED
      BY <2>1, UnitsFit DEF CallRecords
  <1>3. /\ calls[i].live /\ st' = Restore(st, n, now) /\ now' = now
        /\ calls' = [calls EXCEPT ![i].live = FALSE] /\ net' = net - n
    BY DEF Cancel
  <1>4. g # NIL => n <= g.burst /\ g.limit <= MaxI64 /\ g.interval # 0
    <2> SUFFICES ASSUME g # NIL
                 PROVE  n <= g.burst /\ g.limit <= MaxI64 /\ g.interval # 0
      OBVIOUS
    <2>1. n <= g.burst
      BY DEF LInv, IInv, MeterAccount
    <2>2. g.limit <= MaxI64 /\ g.burst \in Nat
      BY LeakyMeter
    <2> QED
      BY <1>2, <2>1, <2>2 DEF LInv, MeterRuns
  <1>5. Effect(st, st', -n, now)
    BY <1>1, <1>2, <1>3, <1>4, RestoreEffect
  <1>6. /\ MeterRuns'
        /\ st'.gcra = NIL <=> g = NIL
        /\ g # NIL => st'.gcra.interval = g.interval /\ st'.gcra.limit = g.limit
    <2>1. -n \in Int
      BY <1>2
    <2> QED
      BY <1>5, <2>1, GateStays
  <1>7. n <= net /\ NetOf(calls, net)'
    BY <1>1, <1>3, NetOfCancel
  <1>8. CASE g = NIL
    BY <1>3, <1>6, <1>7, <1>8, NoMeter
  <1>9. CASE g # NIL
    <2>1. /\ g \in Meters /\ g.tat \in Int /\ g.interval \in Nat /\ g.limit \in Nat
          /\ g.interval * n \in Nat
      BY <1>2, <1>9, LeakyMeter, NatProduct
    <2>2. st'.gcra.tat = MaxI(g.tat - g.interval * n, now - g.limit)
      <3>1. st'.gcra = [g EXCEPT !.tat = MaxI(g.tat - g.interval * n, now - g.limit)]
        BY <1>1, <1>2, <1>3, <1>4, <1>9, RestoreMeter
      <3> QED
        BY <2>1, <3>1 DEF Meters, GC!States
    <2>3. n \in 1..g.limit
      BY <1>2, <1>4, <1>9, UnitsInCapacity
    <2> DEFINE level == MaxI(g.tat - now, 0)
    <2>4. MaxI(st'.gcra.tat - now', 0)
            = IF level > n * g.interval THEN level - n * g.interval ELSE 0
      <3> DEFINE inc == g.interval * n
      <3>1. inc \in Nat /\ inc = n * g.interval /\ now \in Int
        BY <1>1, <1>2, <2>1, NatCommutes
      <3>2. st'.gcra.tat = MaxI(g.tat - inc, now - g.limit) /\ now' = now
        BY <1>3, <2>2
      <3> HIDE DEF inc, g, n
      <3>3. MaxI(MaxI(g.tat - inc, now - g.limit) - now, 0)
              = IF MaxI(g.tat - now, 0) > inc THEN MaxI(g.tat - now, 0) - inc ELSE 0
        BY <2>1, <3>1, LevelFalls
      <3>4. MaxI(st'.gcra.tat - now', 0)
              = IF MaxI(g.tat - now, 0) > inc THEN MaxI(g.tat - now, 0) - inc ELSE 0
        BY <3>2, <3>3, Zenon
      <3> QED
        BY <3>1, <3>4, Zenon
    <2> HIDE DEF g, n
    <2>5. Leaky!TakeBack(n)
      BY <1>3, <1>6, <1>7, <1>9, <2>4 DEF Leaky!TakeBack, Leaky!Drained, HasGcra, g
    <2> QED
      BY <1>6, <1>7, <1>9, <2>3, <2>5 DEF Leaky!Next, HasGcra, g
  <1> QED
    BY <1>8, <1>9

\* Time drains the bucket, and a clock set back fills it.
LEMMA LeakyClock ==
  ASSUME LInv, NEW d \in Steps, AdvanceClock(d) \/ RewindClock(d)
  PROVE  /\ NetOf(calls, net)' /\ MeterRuns'
         /\ [Leaky!Next]_Leaky!vars
  <1>1. /\ now \in Nat /\ d \in Nat \ {0}
        /\ st' = st /\ calls' = calls /\ net' = net
        /\ NetOf(calls, net) /\ MeterRuns
    BY BoundsAssumption DEF LInv, IInv, Clocks, AdvanceClock, RewindClock
  <1>2. NetOf(calls, net)' /\ MeterRuns'
    BY <1>1 DEF MeterRuns
  <1> DEFINE level == IF HasGcra THEN MaxI(st.gcra.tat - now, 0) ELSE 0
             next == IF HasGcra THEN MaxI(st.gcra.tat - now', 0) ELSE 0
  <1>3. HasGcra => st.gcra.tat \in Int
    BY LeakyMeter DEF HasGcra
  <1>4. CASE AdvanceClock(d)
    <2>1. now' = now + d
      BY <1>4 DEF AdvanceClock
    <2>2. next = IF level > now' - now THEN level - (now' - now) ELSE 0
      BY <1>1, <1>3, <2>1 DEF MaxI
    <2>3. now' > now
      BY <1>1, <2>1
    <2>4. Leaky!Drain
      BY <1>1, <2>2, <2>3 DEF Leaky!Drain, Leaky!Drained, HasGcra
    <2> QED
      BY <1>2, <2>4 DEF Leaky!Next
  <1>5. CASE RewindClock(d)
    <2>1. now' = now - d
      BY <1>5 DEF RewindClock
    <2>2. next \in level..(level + (now - now')) /\ now' < now
      BY <1>1, <1>3, <2>1 DEF MaxI
    <2>3. Leaky!Refill
      BY <1>1, <2>2 DEF Leaky!Refill, HasGcra
    <2> QED
      BY <1>2, <2>3 DEF Leaky!Next
  <1> QED
    BY <1>4, <1>5

LEMMA LeakyStep == LInv /\ [Next]_vars => LInv' /\ [Leaky!Next]_Leaky!vars
  <1> SUFFICES ASSUME LInv, [Next]_vars
               PROVE  /\ NetOf(calls, net)' /\ MeterRuns'
                      /\ [Leaky!Next]_Leaky!vars
    BY NextKeeps DEF LInv
  <1>1. ASSUME NEW n \in 1..MaxN, AllowN(n)
        PROVE  NetOf(calls, net)' /\ MeterRuns' /\ [Leaky!Next]_Leaky!vars
    BY <1>1, LeakyAllow
  <1>2. CASE PeekKey
    BY <1>2, LeakyPeek
  <1>3. ASSUME NEW i \in 1..Len(calls), Cancel(i)
        PROVE  NetOf(calls, net)' /\ MeterRuns' /\ [Leaky!Next]_Leaky!vars
    BY <1>3, LeakyCancel
  <1>4. ASSUME NEW d \in Steps, AdvanceClock(d) \/ RewindClock(d)
        PROVE  NetOf(calls, net)' /\ MeterRuns' /\ [Leaky!Next]_Leaky!vars
    BY <1>4, LeakyClock
  <1>5. CASE UNCHANGED vars
    BY <1>5 DEF vars, LInv, MeterRuns, Leaky!vars, HasGcra
  <1> QED
    BY <1>1, <1>2, <1>3, <1>4, <1>5 DEF Next

\* GCRA (gcra.go:39-111) is the leaky bucket doc.go:5 says it is, whatever is
\* called, refused by a window, cancelled, and whichever way the clock moves.
THEOREM ImplementsLeakyHolds == Spec => ImplementsLeaky
  BY LeakyInit, LeakyStep, PTL DEF Spec, ImplementsLeaky, Leaky!Spec

-----------------------------------------------------------------------------
(* The circular buffer of the sliding log.                                 *)

\* A circular buffer of c places as the code keeps it.
Rings(c) ==
  [times: [0..(c - 1) -> Int], start: 0..(c - 1), len: 0..c, cap: {c}]

\* The place of its i-th event, counted from 0.
Spot(r, i) == IF r.start + i < r.cap THEN r.start + i ELSE r.start + i - r.cap

LEMMA Wrapped ==
  ASSUME NEW c \in Nat \ {0}, NEW x \in 0..(2 * c - 1)
  PROVE  x % c = IF x < c THEN x ELSE x - c
  <1>1. CASE x < c
    BY <1>1
  <1>2. CASE x >= c
    <2>1. PICK q : q = x \div c
      OBVIOUS
    <2>2. q \in Nat /\ c * q <= x /\ x < c * q + c /\ x % c = x - c * q
      BY <2>1
    <2>3. q = 1
      <3>1. CASE q = 0
        BY <1>2, <2>2, <3>1
      <3>2. CASE q >= 2
        <4>1. c * 2 <= c * q
          BY <2>2, <3>2, ProductGrows
        <4> QED
          BY <2>2, <4>1
      <3> QED
        BY <2>2, <3>1, <3>2
    <2> QED
      BY <1>2, <2>2, <2>3
  <1> QED
    BY <1>1, <1>2

\* The events of a ring, oldest first.
LEMMA RingTimes ==
  ASSUME NEW c \in Nat \ {0}, NEW r \in Rings(c)
  PROVE  /\ R!Times(r) \in Seq(Int)
         /\ Len(R!Times(r)) = r.len
         /\ \A i \in 0..(r.len - 1) :
              /\ R!Times(r)[i + 1] = r.times[Spot(r, i)]
              /\ R!Times(r)[i + 1] = R!At(r, i)
              /\ Spot(r, i) \in 0..(c - 1)
  <1>1. /\ r.cap = c /\ r.start \in 0..(c - 1) /\ r.len \in 0..c
        /\ r.times \in [0..(c - 1) -> Int]
    BY DEF Rings
  <1>2. ASSUME NEW i \in 0..(r.len - 1)
        PROVE  /\ R!At(r, i) = r.times[Spot(r, i)] /\ r.times[Spot(r, i)] \in Int
               /\ Spot(r, i) \in 0..(c - 1)
    <2>1. r.start + i \in 0..(2 * c - 1)
      BY <1>1
    <2>2. (r.start + i) % r.cap = Spot(r, i)
      <3>1. PICK x : x = r.start + i
        OBVIOUS
      <3>2. x % c = IF x < c THEN x ELSE x - c
        BY <2>1, <3>1, Wrapped
      <3> QED
        BY <1>1, <3>1, <3>2 DEF Spot
    <2>3. Spot(r, i) \in 0..(c - 1)
      BY SMTT(30), <1>1 DEF Spot
    <2> QED
      BY <1>1, <2>2, <2>3 DEF R!At
  <1>3. R!Times(r) = [i \in 1..r.len |-> R!At(r, i - 1)]
    BY DEF R!Times
  <1>4. \A i \in 1..r.len : i - 1 \in 0..(r.len - 1)
    BY <1>1
  <1>5. R!Times(r) \in [1..r.len -> Int]
    BY <1>2, <1>3, <1>4
  <1>6. R!Times(r) \in Seq(Int) /\ Len(R!Times(r)) = r.len
    <2>1. r.len \in Nat
      BY <1>1
    <2> QED
      BY <1>5, <2>1
  <1>7. \A i \in 0..(r.len - 1) : i + 1 \in 1..r.len /\ (i + 1) - 1 = i
    BY <1>1
  <1> QED
    BY <1>2, <1>3, <1>6, <1>7

\* Two rings' sequences, place by place.
LEMMA SameTimes ==
  ASSUME NEW s \in Seq(Int), NEW z \in Seq(Int), Len(s) = Len(z),
         \A i \in 1..Len(s) : s[i] = z[i]
  PROVE  s = z
  OBVIOUS

\* A push where there is room, and one where there is none.
LEMMA RingPush ==
  ASSUME NEW c \in Nat \ {0}, NEW r \in Rings(c), NEW t \in Int
  PROVE  /\ R!Push(r, t) \in Rings(c)
         /\ R!Push(r, t).len = IF r.len < c THEN r.len + 1 ELSE c
         /\ R!Times(R!Push(r, t))
              = Append(IF r.len < c THEN R!Times(r) ELSE Tail(R!Times(r)), t)
  <1>1. /\ r.cap = c /\ r.start \in 0..(c - 1) /\ r.len \in 0..c
        /\ r.times \in [0..(c - 1) -> Int]
        /\ r = [times |-> r.times, start |-> r.start, len |-> r.len, cap |-> c]
    BY DEF Rings
  <1>2. PICK s, p, z : s = R!Times(r) /\ p = R!Push(r, t) /\ z = R!Times(p)
    OBVIOUS
  <1>3. /\ s \in Seq(Int) /\ Len(s) = r.len
        /\ \A i \in 0..(r.len - 1) : s[i + 1] = r.times[Spot(r, i)]
    BY <1>2, RingTimes
  <1>4. CASE r.len < c
    <2>1. PICK q : q = Spot(r, r.len)
      OBVIOUS
    <2>2. (r.start + r.len) % r.cap = q /\ q \in 0..(c - 1)
      <3>1. PICK x : x = r.start + r.len
        OBVIOUS
      <3>2. x \in 0..(2 * c - 1)
        BY <1>1, <1>4, <3>1
      <3>3. x % c = IF x < c THEN x ELSE x - c
        BY <3>2, Wrapped
      <3>4. q = IF x < c THEN x ELSE x - c
        BY <1>1, <2>1, <3>1 DEF Spot
      <3> QED
        BY <1>1, <3>1, <3>2, <3>3, <3>4
    <2>3. p = [times |-> [r.times EXCEPT ![q] = t], start |-> r.start,
               len |-> r.len + 1, cap |-> c]
      <3>1. p = [r EXCEPT !.times[(r.start + r.len) % r.cap] = t, !.len = r.len + 1]
        BY <1>1, <1>2, <1>4 DEF R!Push
      <3>2. p = [r EXCEPT !.times[q] = t, !.len = r.len + 1]
        BY <2>2, <3>1
      <3> QED
        BY <1>1, <3>2
    <2>4. p \in Rings(c) /\ p.len = r.len + 1 /\ p.start = r.start /\ p.cap = c
          /\ p.times = [r.times EXCEPT ![q] = t]
      <3>1. [r.times EXCEPT ![q] = t] \in [0..(c - 1) -> Int] /\ r.len + 1 \in 0..c
        BY <1>1, <1>4, <2>2
      <3> QED
        BY <1>1, <2>3, <3>1 DEF Rings
    <2>5. /\ z \in Seq(Int) /\ Len(z) = r.len + 1
          /\ \A i \in 0..r.len : z[i + 1] = p.times[Spot(p, i)]
      <3>1. /\ z \in Seq(Int) /\ Len(z) = p.len
            /\ \A i \in 0..(p.len - 1) : z[i + 1] = p.times[Spot(p, i)]
        <4>1. p \in Rings(c) /\ z = R!Times(p)
          BY <1>2, <2>4
        <4> QED
          BY <4>1, RingTimes
      <3> QED
        BY <1>1, <2>4, <3>1
    <2>6. \A i \in 0..r.len : Spot(p, i) = Spot(r, i)
      BY <1>1, <2>4 DEF Spot
    <2>7. \A i \in 0..(r.len - 1) : Spot(r, i) # q /\ Spot(r, i) \in 0..(c - 1)
      BY SMTT(30), <1>1, <1>4, <2>1 DEF Spot
    <2>8. z[r.len + 1] = t
      <3>1. r.len \in 0..r.len /\ z[r.len + 1] = p.times[Spot(p, r.len)] /\ Spot(p, r.len) = q
        BY <1>1, <2>1, <2>5, <2>6
      <3> QED
        BY <1>1, <2>2, <2>4, <3>1
    <2>9. ASSUME NEW i \in 0..(r.len - 1)
          PROVE  z[i + 1] = s[i + 1]
      <3>1. i \in 0..r.len
        BY <1>1
      <3>2. z[i + 1] = p.times[Spot(r, i)] /\ s[i + 1] = r.times[Spot(r, i)]
        BY <1>3, <2>5, <2>6, <3>1
      <3> QED
        BY <1>1, <2>4, <2>7, <3>2
    <2>10. PICK y : y = Append(s, t)
      OBVIOUS
    <2>11. /\ y \in Seq(Int) /\ Len(y) = r.len + 1 /\ y[r.len + 1] = t
           /\ \A i \in 1..r.len : y[i] = s[i]
      BY <1>1, <1>3, <2>10
    <2>12. \A i \in 1..(r.len + 1) : z[i] = y[i]
      <3>1. \A i \in 1..r.len : i - 1 \in 0..(r.len - 1) /\ (i - 1) + 1 = i
        BY <1>1
      <3>2. \A i \in 1..r.len : z[i] = s[i]
        BY <2>9, <3>1
      <3>3. \A i \in 1..(r.len + 1) : i \in 1..r.len \/ i = r.len + 1
        BY <1>1
      <3> QED
        BY <2>8, <2>11, <3>2, <3>3
    <2>13. z = y
      BY <2>5, <2>11, <2>12, SameTimes
    <2> QED
      BY <1>2, <1>4, <2>4, <2>10, <2>13
  <1>5. CASE ~(r.len < c)
    <2>1. r.len = c
      BY <1>1, <1>5
    <2>2. PICK b : b = IF r.start + 1 < c THEN r.start + 1 ELSE 0
      OBVIOUS
    <2>3. (r.start + 1) % r.cap = b /\ b \in 0..(c - 1)
      <3>1. PICK x : x = r.start + 1
        OBVIOUS
      <3>2. x \in 0..(2 * c - 1)
        BY <1>1, <3>1
      <3> QED
        BY <1>1, <2>2, <3>1, <3>2, Wrapped
    <2>4. p = [times |-> [r.times EXCEPT ![r.start] = t], start |-> b,
               len |-> c, cap |-> c]
      <3>1. p = [r EXCEPT !.times[r.start] = t, !.start = (r.start + 1) % r.cap]
        BY <1>1, <1>2, <1>5 DEF R!Push
      <3>2. p = [r EXCEPT !.times[r.start] = t, !.start = b]
        BY <2>3, <3>1
      <3> QED
        BY <1>1, <2>1, <3>2
    <2>5. p \in Rings(c) /\ p.len = c /\ p.start = b /\ p.cap = c
          /\ p.times = [r.times EXCEPT ![r.start] = t]
      <3>1. [r.times EXCEPT ![r.start] = t] \in [0..(c - 1) -> Int] /\ c \in 0..c
        BY <1>1
      <3> QED
        BY <1>1, <2>3, <2>4, <3>1 DEF Rings
    <2>6. /\ z \in Seq(Int) /\ Len(z) = c
          /\ \A i \in 0..(c - 1) : z[i + 1] = p.times[Spot(p, i)]
      <3>1. /\ z \in Seq(Int) /\ Len(z) = p.len
            /\ \A i \in 0..(p.len - 1) : z[i + 1] = p.times[Spot(p, i)]
        <4>1. p \in Rings(c) /\ z = R!Times(p)
          BY <1>2, <2>5
        <4> QED
          BY <4>1, RingTimes
      <3> QED
        BY <2>5, <3>1
    <2>7. /\ \A i \in 0..(c - 2) : /\ Spot(p, i) = Spot(r, i + 1)
                                   /\ Spot(r, i + 1) # r.start
                                   /\ Spot(r, i + 1) \in 0..(c - 1)
          /\ Spot(p, c - 1) = r.start
      <3>1. PICK a : a = r.start
        OBVIOUS
      <3>2. /\ a \in 0..(c - 1)
            /\ \A i : Spot(r, i) = IF a + i < c THEN a + i ELSE a + i - c
            /\ \A i : Spot(p, i) = IF b + i < c THEN b + i ELSE b + i - c
            /\ b = IF a + 1 < c THEN a + 1 ELSE 0
        BY <1>1, <2>2, <2>5, <3>1 DEF Spot
      <3>3. ASSUME NEW i \in 0..(c - 2)
            PROVE  /\ Spot(p, i) = Spot(r, i + 1) /\ Spot(r, i + 1) # a
                   /\ Spot(r, i + 1) \in 0..(c - 1)
        BY <3>2
      <3>4. Spot(p, c - 1) = a
        BY <3>2
      <3> QED
        BY <3>1, <3>3, <3>4
    <2>8. z[c] = t
      <3>1. c - 1 \in 0..(c - 1) /\ (c - 1) + 1 = c
        OBVIOUS
      <3>2. z[c] = p.times[Spot(p, c - 1)]
        BY <2>6, <3>1
      <3> QED
        BY <1>1, <2>5, <2>7, <3>2
    <2>9. \A i \in 0..(c - 2) : z[i + 1] = s[i + 2]
      <3> SUFFICES ASSUME NEW i \in 0..(c - 2) PROVE z[i + 1] = s[i + 2]
        OBVIOUS
      <3>1. i \in 0..(c - 1) /\ i + 1 \in 0..(r.len - 1) /\ (i + 1) + 1 = i + 2
        BY <2>1
      <3>2. s[i + 2] = r.times[Spot(r, i + 1)]
        BY <1>3, <3>1
      <3>3. z[i + 1] = p.times[Spot(p, i)]
        BY <2>6, <3>1
      <3> QED
        BY <1>1, <2>5, <2>7, <3>2, <3>3
    <2>10. PICK y : y = Append(Tail(s), t)
      OBVIOUS
    <2>11. /\ y \in Seq(Int) /\ Len(y) = c /\ y[c] = t
           /\ \A i \in 1..(c - 1) : y[i] = s[i + 1]
      <3>1. s # <<>>
        BY <1>3, <2>1
      <3>2. /\ Tail(s) \in Seq(Int) /\ Len(Tail(s)) = c - 1
            /\ \A i \in 1..(c - 1) : Tail(s)[i] = s[i + 1]
        BY <1>3, <2>1, <3>1
      <3> QED
        BY <2>10, <3>2
    <2>12. \A i \in 1..c : z[i] = y[i]
      <3>1. \A i \in 1..(c - 1) : i - 1 \in 0..(c - 2) /\ (i - 1) + 1 = i /\ (i - 1) + 2 = i + 1
        OBVIOUS
      <3>2. \A i \in 1..(c - 1) : z[i] = s[i + 1]
        BY <2>9, <3>1
      <3> QED
        BY <2>8, <2>11, <3>2
    <2>13. z = y
      BY <2>6, <2>11, <2>12, SameTimes
    <2> QED
      BY <1>2, <1>5, <2>5, <2>10, <2>13
  <1> QED
    BY <1>4, <1>5

\* h starts at a and takes the step f, n times.
Iterates(h, n, S, a, f) ==
  /\ h \in [0..n -> S]
  /\ h[0] = a /\ \A i \in 1..n : h[i] = f[h[i - 1]]

\* A step can be repeated any number of times.
LEMMA Repeats ==
  ASSUME NEW n \in Nat, NEW S, NEW a \in S, NEW f \in [S -> S]
  PROVE  \E h : Iterates(h, n, S, a, f)
  <1> DEFINE Goes == {k \in Nat : \E h \in [0..k -> S] :
                        /\ h[0] = a
                        /\ \A i \in 1..k : h[i] = f[h[i - 1]]}
  <1>1. 0 \in Goes
    <2>1. PICK h : h = [i \in 0..0 |-> a]
      OBVIOUS
    <2>2. h \in [0..0 -> S] /\ h[0] = a /\ \A i \in 1..0 : h[i] = f[h[i - 1]]
      BY <2>1
    <2> QED
      BY <2>2
  <1>2. ASSUME NEW k \in Nat, k \in Goes
        PROVE  k + 1 \in Goes
    <2>1. PICK h \in [0..k -> S] : h[0] = a /\ \A i \in 1..k : h[i] = f[h[i - 1]]
      BY <1>2
    <2>2. PICK g : g = [i \in 0..(k + 1) |-> IF i = k + 1 THEN f[h[k]] ELSE h[i]]
      OBVIOUS
    <2>3. \A i \in 0..(k + 1) : i = k + 1 \/ i \in 0..k
      OBVIOUS
    <2>4. /\ g \in [0..(k + 1) -> S]
          /\ g[k + 1] = f[h[k]] /\ \A i \in 0..k : g[i] = h[i]
      BY <2>2, <2>3
    <2>5. ASSUME NEW i \in 1..(k + 1)
          PROVE  g[i] = f[g[i - 1]]
      <3>1. i - 1 \in 0..k /\ (i = k + 1 \/ i \in 1..k) /\ (i = k + 1 => i - 1 = k)
        OBVIOUS
      <3>2. g[i - 1] = h[i - 1]
        BY <2>4, <3>1
      <3>3. CASE i = k + 1
        BY <2>4, <3>1, <3>2, <3>3
      <3>4. CASE i \in 1..k
        <4>1. i \in 0..k
          BY <3>4
        <4> QED
          BY <2>1, <2>4, <3>2, <3>4, <4>1
      <3> QED
        BY <3>1, <3>3, <3>4
    <2>6. 0 \in 0..k /\ g[0] = a
      BY <2>1, <2>4
    <2> QED
      BY <2>4, <2>5, <2>6
  <1>3. n \in Goes
    <2>1. \A k \in Nat : k \in Goes => k + 1 \in Goes
      BY <1>2
    <2> HIDE DEF Goes
    <2> QED
      BY <1>1, <2>1, NatInduct
  <1> QED
    BY <1>3 DEF Iterates

\* What n pushes do to a ring with room for them.
LEMMA RingPushN ==
  ASSUME NEW c \in Nat \ {0}, NEW r \in Rings(c), NEW t \in Int, NEW n \in Nat,
         r.len + n <= c
  PROVE  /\ R!PushN(r, t, n) \in Rings(c)
         /\ R!Times(R!PushN(r, t, n)) = Log!PushN(R!Times(r), t, n)
  <1>1. PICK S, f : S = Rings(c) /\ f = [p \in S |-> R!Push(p, t)]
    OBVIOUS
  <1>2. f \in [S -> S]
    BY <1>1, RingPush
  <1>3. PICK h : Iterates(h, n, S, r, f)
    BY <1>1, <1>2, Repeats
  <1>5. h = [i \in 0..n |-> IF i = 0 THEN r ELSE R!Push(h[i - 1], t)]
    <2>1. \A i \in 0..n : i = 0 \/ (i # 0 /\ i \in 1..n /\ i - 1 \in 0..n)
      OBVIOUS
    <2>2. \A i \in 0..n : h[i] = IF i = 0 THEN r ELSE R!Push(h[i - 1], t)
      BY <1>1, <1>3, <2>1 DEF Iterates
    <2> QED
      BY <1>3, <2>2 DEF Iterates
  <1>6. PICK g : /\ g = [i \in 0..n |-> IF i = 0 THEN r ELSE R!Push(g[i - 1], t)]
                 /\ R!PushN(r, t, n) = g[n]
    <2>1. \E g : /\ g = [i \in 0..n |-> IF i = 0 THEN r ELSE R!Push(g[i - 1], t)]
                 /\ R!PushN(r, t, n) = g[n]
      BY <1>5 DEF R!PushN
    <2> QED
      BY <2>1
  <1>7. g[0] = r /\ \A i \in 0..(n - 1) : g[i + 1] = R!Push(g[i], t)
    <2>1. g[0] = r
      BY <1>6
    <2>2. ASSUME NEW i \in 0..(n - 1)
          PROVE  g[i + 1] = R!Push(g[i], t)
      <3>1. i + 1 \in 0..n /\ i + 1 # 0 /\ (i + 1) - 1 = i
        OBVIOUS
      <3> QED
        BY <1>6, <3>1
    <2> QED
      BY <2>1, <2>2
  <1> DEFINE Holds == {i \in Nat : i <= n => /\ g[i] \in Rings(c) /\ g[i].len = r.len + i
                                             /\ R!Times(g[i]) = Log!PushN(R!Times(r), t, i)}
  <1>8. r.len \in Nat /\ R!Times(r) \in Seq(Int)
    BY RingTimes DEF Rings
  <1>9. 0 \in Holds
    <2>1. Log!PushN(R!Times(r), t, 0) = R!Times(r)
      <3>1. PICK s, none : s = R!Times(r) /\ none = [i \in 1..0 |-> t]
        OBVIOUS
      <3>2. none \in Seq(Int) /\ Len(none) = 0
        BY <3>1
      <3>3. s \o none = s
        BY <1>8, <3>1, <3>2
      <3> QED
        BY <3>1, <3>3 DEF Log!PushN
    <2> QED
      BY <1>7, <1>8, <2>1
  <1>10. ASSUME NEW i \in Nat, i \in Holds
         PROVE  i + 1 \in Holds
    <2> SUFFICES ASSUME i + 1 <= n
                 PROVE  /\ g[i + 1] \in Rings(c) /\ g[i + 1].len = r.len + (i + 1)
                        /\ R!Times(g[i + 1]) = Log!PushN(R!Times(r), t, i + 1)
      OBVIOUS
    <2>1. PICK p, s : p = g[i] /\ s = R!Times(r)
      OBVIOUS
    <2>2. p \in Rings(c) /\ p.len = r.len + i /\ R!Times(p) = Log!PushN(s, t, i)
      BY <1>10, <2>1
    <2>3. p.len < c
      BY <1>8, <2>2
    <2>4. g[i + 1] = R!Push(p, t)
      <3>1. i \in 0..(n - 1)
        OBVIOUS
      <3> QED
        BY <1>7, <2>1, <3>1
    <2>5. /\ g[i + 1] \in Rings(c) /\ g[i + 1].len = p.len + 1
          /\ R!Times(g[i + 1]) = Append(R!Times(p), t)
      <3>1. PICK q : q = R!Push(p, t)
        OBVIOUS
      <3>2. /\ q \in Rings(c) /\ q.len = IF p.len < c THEN p.len + 1 ELSE c
            /\ R!Times(q) = Append(IF p.len < c THEN R!Times(p) ELSE Tail(R!Times(p)), t)
        BY <2>2, <3>1, RingPush
      <3> QED
        BY <2>3, <2>4, <3>1, <3>2
    <2>6. Append(Log!PushN(s, t, i), t) = Log!PushN(s, t, i + 1)
      <3>1. PICK m, a, b, x, y : /\ m = Len(s) /\ a = [j \in 1..i |-> t]
                                 /\ b = [j \in 1..(i + 1) |-> t]
                                 /\ x = Append(s \o a, t) /\ y = s \o b
        OBVIOUS
      <3>2. /\ m \in Nat /\ a \in Seq(Int) /\ Len(a) = i /\ b \in Seq(Int) /\ Len(b) = i + 1
            /\ s \in Seq(Int)
        BY <1>8, <2>1, <3>1
      <3>3. /\ y \in Seq(Int) /\ Len(y) = m + (i + 1)
            /\ \A j \in 1..m : y[j] = s[j]
            /\ \A j \in (m + 1)..(m + (i + 1)) : y[j] = t
        BY <3>1, <3>2
      <3>4. /\ x \in Seq(Int) /\ Len(x) = m + i + 1 /\ x[m + i + 1] = t
            /\ \A j \in 1..m : x[j] = s[j]
            /\ \A j \in (m + 1)..(m + i) : x[j] = t
        BY <3>1, <3>2
      <3>5. \A j \in 1..(m + i + 1) : j \in 1..m \/ j \in (m + 1)..(m + i) \/ j = m + i + 1
        BY <3>2
      <3>6. Len(x) = Len(y) /\ \A j \in 1..Len(x) : x[j] = y[j]
        <4>1. Len(x) = m + i + 1 /\ Len(y) = m + i + 1
          BY <3>2, <3>3, <3>4
        <4>2. ASSUME NEW j \in 1..(m + i + 1)
              PROVE  x[j] = y[j]
          <5>1. CASE j \in 1..m
            BY <3>3, <3>4, <5>1
          <5>2. CASE j \in (m + 1)..(m + i + 1)
            <6>1. j \in (m + 1)..(m + (i + 1)) /\ (j \in (m + 1)..(m + i) \/ j = m + i + 1)
              BY <3>2, <5>2
            <6> QED
              BY <3>3, <3>4, <6>1
          <5> QED
            BY <3>2, <5>1, <5>2
        <4> QED
          BY <4>1, <4>2
      <3>7. x = y
        BY <3>3, <3>4, <3>6, SameTimes
      <3> QED
        BY <3>1, <3>7 DEF Log!PushN
    <2>7. R!Times(g[i + 1]) = Log!PushN(s, t, i + 1)
      BY <2>2, <2>5, <2>6
    <2>8. g[i + 1].len = r.len + (i + 1)
      <3>1. PICK x, y : x = p.len /\ y = r.len
        OBVIOUS
      <3>2. y \in Nat /\ x = y + i /\ g[i + 1].len = x + 1
        BY <1>8, <2>2, <2>5, <3>1
      <3>3. x + 1 = y + (i + 1)
        BY <3>2
      <3> QED
        BY <3>1, <3>2, <3>3
    <2> QED
      BY <2>1, <2>5, <2>7, <2>8
  <1>11. n \in Holds
    <2>1. \A i \in Nat : i \in Holds => i + 1 \in Holds
      BY <1>10
    <2> HIDE DEF Holds
    <2> QED
      BY <1>9, <2>1, NatInduct
  <1> QED
    BY <1>6, <1>11

\* Dropping the oldest event leaves the others.
LEMMA RingDrop ==
  ASSUME NEW c \in Nat \ {0}, NEW r \in Rings(c), r.len > 0
  PROVE  LET p == R!DropOldest(r) IN
         /\ p \in Rings(c) /\ p.len = r.len - 1
         /\ \A j \in 1..(r.len - 1) : R!Times(p)[j] = R!Times(r)[j + 1]
  <1>1. /\ r.cap = c /\ r.start \in 0..(c - 1) /\ r.len \in 1..c
        /\ r.times \in [0..(c - 1) -> Int]
        /\ r = [times |-> r.times, start |-> r.start, len |-> r.len, cap |-> c]
    BY DEF Rings
  <1>2. PICK p, b : p = R!DropOldest(r) /\ b = IF r.start + 1 < c THEN r.start + 1 ELSE 0
    OBVIOUS
  <1>3. (r.start + 1) % r.cap = b /\ b \in 0..(c - 1)
    <2>1. PICK x : x = r.start + 1
      OBVIOUS
    <2>2. x \in 0..(2 * c - 1)
      BY <1>1, <2>1
    <2>3. x % c = IF x < c THEN x ELSE x - c
      BY <2>2, Wrapped
    <2> QED
      BY <1>1, <1>2, <2>1, <2>3
  <1>4. p = [times |-> r.times, start |-> b, len |-> r.len - 1, cap |-> c]
    <2>1. p = [r EXCEPT !.start = (r.start + 1) % r.cap, !.len = r.len - 1]
      BY <1>2 DEF R!DropOldest
    <2>2. p = [r EXCEPT !.start = b, !.len = r.len - 1]
      BY <1>3, <2>1
    <2> QED
      BY <1>1, <2>2
  <1>5. /\ p \in Rings(c) /\ p.len = r.len - 1 /\ p.start = b /\ p.cap = c
        /\ p.times = r.times
    <2>1. r.len - 1 \in 0..c
      BY <1>1
    <2> QED
      BY <1>1, <1>3, <1>4, <2>1 DEF Rings
  <1>6. ASSUME NEW j \in 1..(r.len - 1)
        PROVE  R!Times(p)[j] = R!Times(r)[j + 1]
    <2>1. PICK i : i = j - 1
      OBVIOUS
    <2>2. i \in 0..(p.len - 1) /\ i + 1 \in 0..(r.len - 1) /\ i + 1 = j
      BY <1>1, <1>5, <2>1
    <2>3. R!Times(p)[i + 1] = p.times[Spot(p, i)]
      BY <1>5, <2>2, RingTimes
    <2>4. R!Times(r)[(i + 1) + 1] = r.times[Spot(r, i + 1)]
      BY <2>2, RingTimes
    <2>5. Spot(p, i) = Spot(r, i + 1)
      <3>1. PICK a : a = r.start
        OBVIOUS
      <3>2. a \in 0..(c - 1) /\ b = (IF a + 1 < c THEN a + 1 ELSE 0) /\ i \in 0..(c - 2)
        BY <1>1, <1>2, <1>5, <2>2, <3>1
      <3>3. /\ Spot(p, i) = IF b + i < c THEN b + i ELSE b + i - c
            /\ Spot(r, i + 1) = IF a + (i + 1) < c THEN a + (i + 1) ELSE a + (i + 1) - c
        BY <1>1, <1>5, <3>1 DEF Spot
      <3> QED
        BY <3>2, <3>3
    <2> QED
      BY <1>5, <2>2, <2>3, <2>4, <2>5
  <1> QED
    BY <1>2, <1>5, <1>6

\* So pruning a ring prunes its events.
LEMMA RingPrune ==
  ASSUME NEW c \in Nat \ {0}, NEW r \in Rings(c), NEW cut \in Int
  PROVE  /\ R!Prune(r, cut) \in Rings(c)
         /\ R!Times(R!Prune(r, cut)) = Log!Prune(R!Times(r), cut)
  <1> DEFINE F(p) == IF p.len > 0 /\ R!At(p, 0) <= cut THEN R!DropOldest(p) ELSE p
  <1>1. PICK m, s : m = r.len /\ s = R!Times(r)
    OBVIOUS
  <1>2. m \in Nat /\ s \in Seq(Int) /\ Len(s) = m
    BY <1>1, RingTimes DEF Rings
  <1>3. PICK k \in 0..m : /\ Log!Prune(s, cut) = SubSeq(s, k + 1, m)
                          /\ \A p \in 1..k : s[p] <= cut
                          /\ k < m => s[k + 1] > cut
    BY <1>2, PruneDrops
  <1>4. PICK S, f : S = Rings(c) /\ f = [p \in S |-> F(p)]
    OBVIOUS
  <1>5. f \in [S -> S]
    <2> SUFFICES ASSUME NEW p \in S PROVE F(p) \in S
      BY <1>4
    <2> QED
      BY <1>4, RingDrop DEF Rings
  <1>6. PICK h : Iterates(h, m, S, r, f)
    BY <1>2, <1>4, <1>5, Repeats
  <1>7. h = [i \in 0..m |-> IF i = 0 THEN r ELSE F(h[i - 1])]
    <2>1. \A i \in 0..m : i = 0 \/ (i # 0 /\ i \in 1..m /\ i - 1 \in 0..m)
      BY <1>2
    <2>2. \A i \in 0..m : h[i] = IF i = 0 THEN r ELSE F(h[i - 1])
      <3> HIDE DEF F
      <3> QED
        BY <1>4, <1>6, <2>1 DEF Iterates
    <2> HIDE DEF F
    <2> QED
      BY <1>6, <2>2 DEF Iterates
  <1>8. PICK g : /\ g = [i \in 0..m |-> IF i = 0 THEN r ELSE F(g[i - 1])]
                 /\ R!Prune(r, cut) = g[m]
    <2>1. \E g : /\ g = [i \in 0..r.len |-> IF i = 0 THEN r ELSE F(g[i - 1])]
                 /\ R!Prune(r, cut) = g[r.len]
      BY <1>1, <1>7 DEF R!Prune
    <2> QED
      BY <1>1, <2>1
  <1>9. g[0] = r /\ \A i \in 0..(m - 1) : g[i + 1] = F(g[i])
    <2> HIDE DEF F
    <2>1. g[0] = r
      BY <1>2, <1>8
    <2>2. ASSUME NEW i \in 0..(m - 1)
          PROVE  g[i + 1] = F(g[i])
      <3>1. i + 1 \in 0..m /\ i + 1 # 0 /\ (i + 1) - 1 = i
        BY <1>2
      <3> QED
        BY <1>8, <3>1
    <2> QED
      BY <2>1, <2>2
  <1> DEFINE Left(i) == IF i < k THEN i ELSE k
             Holds == {i \in Nat : i <= m =>
                         /\ g[i] \in Rings(c) /\ g[i].len = m - Left(i)
                         /\ \A j \in 1..(m - Left(i)) : R!Times(g[i])[j] = s[Left(i) + j]}
  <1>10. 0 \in Holds
    BY <1>1, <1>2, <1>9
  <1>11. ASSUME NEW i \in Nat, i \in Holds
         PROVE  i + 1 \in Holds
    <2> SUFFICES ASSUME i + 1 <= m
                 PROVE  /\ g[i + 1] \in Rings(c) /\ g[i + 1].len = m - Left(i + 1)
                        /\ \A j \in 1..(m - Left(i + 1)) :
                             R!Times(g[i + 1])[j] = s[Left(i + 1) + j]
      OBVIOUS
    <2>1. PICK p, d : p = g[i] /\ d = Left(i)
      OBVIOUS
    <2>2. /\ p \in Rings(c) /\ p.len = m - d
          /\ \A j \in 1..(m - d) : R!Times(p)[j] = s[d + j]
          /\ d \in 0..k /\ (i < k => d = i) /\ (~(i < k) => d = k)
      <3>1. /\ g[i] \in Rings(c) /\ g[i].len = m - Left(i)
            /\ \A j \in 1..(m - Left(i)) : R!Times(g[i])[j] = s[Left(i) + j]
        <4>1. i <= m
          BY <1>2
        <4> HIDE DEF Left
        <4> QED
          BY <1>11, <4>1
      <3>2. d \in 0..k /\ (i < k => d = i) /\ (~(i < k) => d = k)
        BY <2>1
      <3> HIDE DEF Left
      <3> QED
        BY <2>1, <3>1, <3>2
    <2>3. g[i + 1] = F(p)
      <3>1. i \in 0..(m - 1)
        BY <1>2
      <3> QED
        BY <1>9, <2>1, <3>1
    <2>4. d < m => R!At(p, 0) = s[d + 1]
      <3> SUFFICES ASSUME d < m PROVE R!At(p, 0) = s[d + 1]
        OBVIOUS
      <3>1. 0 \in 0..(p.len - 1) /\ 1 \in 1..(m - d) /\ 0 + 1 = 1
        BY <1>2, <2>2
      <3>2. R!Times(p)[0 + 1] = R!At(p, 0)
        BY <2>2, <3>1, RingTimes
      <3> QED
        BY <2>2, <3>1, <3>2
    <2>5. CASE i < k
      <3>1. d = i /\ d < m /\ Left(i + 1) = d + 1 /\ p.len > 0
        BY <1>2, <2>2, <2>5
      <3>2. R!At(p, 0) <= cut
        <4>1. i + 1 \in 1..k
          BY <2>5
        <4> QED
          BY <1>3, <2>4, <3>1, <4>1
      <3>3. PICK q : q = R!DropOldest(p)
        OBVIOUS
      <3>4. /\ q \in Rings(c) /\ q.len = p.len - 1
            /\ \A j \in 1..(p.len - 1) : R!Times(q)[j] = R!Times(p)[j + 1]
        BY <2>2, <3>1, <3>3, RingDrop
      <3>5. g[i + 1] = q
        BY <2>3, <3>1, <3>2, <3>3
      <3>6. ASSUME NEW j \in 1..(m - (d + 1))
            PROVE  R!Times(q)[j] = s[(d + 1) + j]
        <4>1. j \in 1..(p.len - 1) /\ j + 1 \in 1..(m - d) /\ d + (j + 1) = (d + 1) + j
          <5>1. PICK e : e = p.len
            OBVIOUS
          <5>2. m \in Nat /\ d \in Nat /\ e = m - d
            BY <1>2, <2>2, <5>1
          <5> QED
            BY <5>1, <5>2
        <4> QED
          BY <2>2, <3>4, <4>1
      <3>7. q.len = m - (d + 1)
        BY <1>2, <2>2, <3>4
      <3> QED
        BY <3>1, <3>4, <3>5, <3>6, <3>7
    <2>6. CASE ~(i < k)
      <3>1. d = k /\ Left(i + 1) = d
        BY <2>2, <2>6
      <3>2. g[i + 1] = p
        <4>1. p.len > 0 => ~(R!At(p, 0) <= cut)
          <5>1. p.len > 0 => d < m /\ k < m
            BY <1>2, <2>2, <3>1
          <5>2. k < m => s[k + 1] \in Int /\ s[k + 1] > cut
            BY <1>2, <1>3
          <5> QED
            BY <2>4, <3>1, <5>1, <5>2
        <4> QED
          BY <2>3, <4>1
      <3> QED
        BY <2>2, <3>1, <3>2
    <2> QED
      BY <2>5, <2>6
  <1>12. m \in Holds
    <2>1. \A i \in Nat : i \in Holds => i + 1 \in Holds
      BY <1>11
    <2> HIDE DEF Holds
    <2> QED
      BY <1>2, <1>10, <2>1, NatInduct
  <1>13. /\ g[m] \in Rings(c) /\ g[m].len = m - k
         /\ \A j \in 1..(m - k) : R!Times(g[m])[j] = s[k + j]
    BY SMTT(30), <1>2, <1>12
  <1>14. R!Times(g[m]) = SubSeq(s, k + 1, m)
    <2>1. PICK x, y : x = R!Times(g[m]) /\ y = SubSeq(s, k + 1, m)
      OBVIOUS
    <2>2. x \in Seq(Int) /\ Len(x) = m - k
      BY <1>13, <2>1, RingTimes
    <2>3. /\ y \in Seq(Int) /\ Len(y) = m - k
          /\ \A j \in 1..(m - k) : y[j] = s[k + j]
      BY <1>2, <2>1
    <2> QED
      BY <1>13, <2>1, <2>2, <2>3, SameTimes
  <1> QED
    BY <1>1, <1>3, <1>8, <1>13, <1>14

\* Popping the newest n leaves the others, where there are that many.
LEMMA RingPopN ==
  ASSUME NEW c \in Nat \ {0}, NEW r \in Rings(c), NEW n \in Nat, n <= r.len
  PROVE  /\ R!PopNewestN(r, n) \in Rings(c)
         /\ R!Times(R!PopNewestN(r, n)) = Log!PopNewestN(R!Times(r), n)
  <1>1. PICK m, s : m = r.len /\ s = R!Times(r)
    OBVIOUS
  <1>2. m \in Nat /\ m <= c /\ n <= m /\ s \in Seq(Int) /\ Len(s) = m
    BY <1>1, RingTimes DEF Rings
  <1>3. ASSUME NEW p \in Rings(c)
        PROVE  /\ R!PopNewest(p) \in Rings(c)
               /\ p.len > 0 => R!PopNewest(p) = [p EXCEPT !.len = p.len - 1]
    <2>1. p.len \in 0..c
      BY DEF Rings
    <2>2. R!MaxI(p.len - 1, 0) \in 0..c /\ (p.len > 0 => R!MaxI(p.len - 1, 0) = p.len - 1)
      BY <2>1 DEF R!MaxI
    <2>3. PICK x : x = R!MaxI(p.len - 1, 0)
      OBVIOUS
    <2>4. R!PopNewest(p) = [p EXCEPT !.len = x]
      BY <2>3 DEF R!PopNewest
    <2> QED
      BY <2>2, <2>3, <2>4 DEF Rings
  <1>4. PICK S, f : S = Rings(c) /\ f = [p \in S |-> R!PopNewest(p)]
    OBVIOUS
  <1>5. f \in [S -> S]
    BY <1>3, <1>4
  <1>6. PICK h : Iterates(h, n, S, r, f)
    BY <1>4, <1>5, Repeats
  <1>7. h = [i \in 0..n |-> IF i = 0 THEN r ELSE R!PopNewest(h[i - 1])]
    <2>1. \A i \in 0..n : i = 0 \/ (i # 0 /\ i \in 1..n /\ i - 1 \in 0..n)
      OBVIOUS
    <2>2. \A i \in 0..n : h[i] = IF i = 0 THEN r ELSE R!PopNewest(h[i - 1])
      BY <1>4, <1>6, <2>1 DEF Iterates
    <2> QED
      BY <1>6, <2>2 DEF Iterates
  <1>8. PICK g : /\ g = [i \in 0..n |-> IF i = 0 THEN r ELSE R!PopNewest(g[i - 1])]
                 /\ R!PopNewestN(r, n) = g[n]
    <2>1. \E g : /\ g = [i \in 0..n |-> IF i = 0 THEN r ELSE R!PopNewest(g[i - 1])]
                 /\ R!PopNewestN(r, n) = g[n]
      BY <1>7 DEF R!PopNewestN
    <2> QED
      BY <2>1
  <1>9. g[0] = r /\ \A i \in 0..(n - 1) : g[i + 1] = R!PopNewest(g[i])
    <2>1. g[0] = r
      BY <1>8
    <2>2. ASSUME NEW i \in 0..(n - 1)
          PROVE  g[i + 1] = R!PopNewest(g[i])
      <3>1. i + 1 \in 0..n /\ i + 1 # 0 /\ (i + 1) - 1 = i
        OBVIOUS
      <3> QED
        BY <1>8, <3>1
    <2> QED
      BY <2>1, <2>2
  <1> DEFINE Holds == {i \in Nat : i <= n => g[i] \in Rings(c) /\ g[i] = [r EXCEPT !.len = m - i]}
  <1>10. 0 \in Holds
    <2>1. r = [r EXCEPT !.len = m - 0]
      <3>1. m - 0 = r.len
        BY <1>1, <1>2
      <3> QED
        BY <3>1 DEF Rings
    <2> QED
      BY <1>9, <2>1
  <1>11. ASSUME NEW i \in Nat, i \in Holds
         PROVE  i + 1 \in Holds
    <2> SUFFICES ASSUME i + 1 <= n
                 PROVE  g[i + 1] \in Rings(c) /\ g[i + 1] = [r EXCEPT !.len = m - (i + 1)]
      OBVIOUS
    <2>1. PICK p, x, y : p = g[i] /\ x = m - i /\ y = m - (i + 1)
      OBVIOUS
    <2>2. /\ p \in Rings(c) /\ p = [r EXCEPT !.len = x]
          /\ x > 0 /\ y = x - 1
      BY <1>2, <1>11, <2>1
    <2>3. p.len = x
      BY <2>2 DEF Rings
    <2>4. g[i + 1] = R!PopNewest(p)
      <3>1. i \in 0..(n - 1)
        OBVIOUS
      <3> QED
        BY <1>9, <2>1, <3>1
    <2>5. g[i + 1] \in Rings(c) /\ g[i + 1] = [p EXCEPT !.len = y]
      BY <1>3, <2>2, <2>3, <2>4
    <2>6. [p EXCEPT !.len = y] = [r EXCEPT !.len = y]
      BY <2>2 DEF Rings
    <2> QED
      BY <2>1, <2>5, <2>6
  <1>12. n \in Holds
    <2>1. \A i \in Nat : i \in Holds => i + 1 \in Holds
      BY <1>11
    <2> HIDE DEF Holds
    <2> QED
      BY <1>10, <2>1, NatInduct
  <1>13. PICK p : /\ p = R!PopNewestN(r, n) /\ p \in Rings(c)
                  /\ p = [r EXCEPT !.len = m - n]
    BY <1>8, <1>12
  <1>14. p.len = m - n /\ p.start = r.start /\ p.times = r.times /\ p.cap = r.cap
    BY <1>13 DEF Rings
  <1>15. R!Times(p) = SubSeq(s, 1, m - n)
    <2>1. PICK x, y, e : x = R!Times(p) /\ y = SubSeq(s, 1, e) /\ e = m - n
      OBVIOUS
    <2>2. e \in 0..m
      BY <1>2, <2>1
    <2>3. x \in Seq(Int) /\ Len(x) = e
      BY <1>13, <1>14, <2>1, RingTimes
    <2>4. y \in Seq(Int) /\ Len(y) = e /\ \A j \in 1..e : y[j] = s[j]
      BY <1>2, <2>1, <2>2
    <2>5. ASSUME NEW j \in 1..e
          PROVE  x[j] = s[j]
      <3>1. PICK i : i = j - 1
        OBVIOUS
      <3>2. i \in 0..(p.len - 1) /\ i \in 0..(r.len - 1) /\ i + 1 = j
        BY SMTT(30), <1>1, <1>2, <1>14, <2>1, <2>2, <3>1
      <3>3. R!Times(p)[i + 1] = p.times[Spot(p, i)] /\ R!Times(r)[i + 1] = r.times[Spot(r, i)]
        BY <1>13, <3>2, RingTimes
      <3>4. Spot(p, i) = Spot(r, i)
        BY <1>14 DEF Spot
      <3> QED
        BY <1>1, <1>14, <2>1, <3>2, <3>3, <3>4
    <2> QED
      BY <2>1, <2>3, <2>4, <2>5, SameTimes
  <1> QED
    BY <1>1, <1>2, <1>13, <1>15 DEF Log!PopNewestN

\* As many numbers, all one higher.
Shifted(T) == {i + 1 : i \in T}

LEMMA ShiftedSize ==
  ASSUME NEW T \in SUBSET Int, IsFiniteSet(T)
  PROVE  IsFiniteSet(Shifted(T)) /\ Cardinality(Shifted(T)) = Cardinality(T)
  <1>1. PICK U : U = Shifted(T)
    OBVIOUS
  <1>2. PICK f : f = [i \in T |-> i + 1]
    OBVIOUS
  <1>3. f \in Bijection(T, U)
    <2>1. f \in [T -> U]
      BY <1>1, <1>2 DEF Shifted
    <2>2. \A x, y \in T : f[x] = f[y] => x = y
      BY <1>2
    <2>3. \A u \in U : \E x \in T : f[x] = u
      BY <1>1, <1>2 DEF Shifted
    <2> QED
      BY <2>1, <2>2, <2>3 DEF Bijection, Injection, Surjection, IsInjective
  <1>4. ExistsBijection(T, U)
    BY <1>3 DEF ExistsBijection
  <1> QED
    BY <1>1, <1>4, FS_Bijection

\* The valid events of a ring, by their places in it and in the sequence.
LEMMA RingValid ==
  ASSUME NEW c \in Nat \ {0}, NEW r \in Rings(c), NEW cut \in Int
  PROVE  LET T == R!ValidAt(r, cut)
             U == Log!After(R!Times(r), cut)
         IN /\ T \in SUBSET (0..(r.len - 1))
            /\ U = Shifted(T)
            /\ IsFiniteSet(T) /\ IsFiniteSet(U)
            /\ R!CountAfter(r, cut) = Cardinality(U)
            /\ Log!Cardinality(U) = Cardinality(U)
  <1>1. PICK T, U, s : /\ T = R!ValidAt(r, cut) /\ s = R!Times(r)
                       /\ U = Log!After(s, cut)
    OBVIOUS
  <1>2. r.len \in Nat /\ Len(s) = r.len
    BY <1>1, RingTimes DEF Rings
  <1>3. T = {i \in 0..(r.len - 1) : s[i + 1] > cut}
    <2>1. \A i \in 0..(r.len - 1) : R!At(r, i) = s[i + 1]
      BY <1>1, RingTimes
    <2> QED
      BY <1>1, <2>1 DEF R!ValidAt
  <1>4. U = {i \in 1..r.len : s[i] > cut}
    BY <1>1, <1>2 DEF Log!After
  <1>5. U = Shifted(T)
    <2>1. \A i \in 1..r.len : i - 1 \in 0..(r.len - 1) /\ (i - 1) + 1 = i
      BY <1>2
    <2>2. \A i \in 0..(r.len - 1) : i + 1 \in 1..r.len
      BY <1>2
    <2>3. ASSUME NEW u \in U
          PROVE  u \in Shifted(T)
      BY <1>3, <1>4, <2>1, <2>3 DEF Shifted
    <2>4. ASSUME NEW i \in T
          PROVE  i + 1 \in U
      BY <1>3, <1>4, <2>2, <2>4
    <2> QED
      BY <2>3, <2>4 DEF Shifted
  <1>6. T \in SUBSET (0..(r.len - 1)) /\ T \in SUBSET Int /\ IsFiniteSet(T)
    <2>1. PICK m : m = r.len - 1
      OBVIOUS
    <2>2. 0 \in Int /\ m \in Int /\ T \in SUBSET (0..m)
      BY <1>2, <1>3, <2>1
    <2>3. IsFiniteSet(0..m)
      BY <2>2, FS_Interval
    <2>4. IsFiniteSet(T)
      BY <2>2, <2>3, FS_Subset
    <2>5. T \in SUBSET Int
      BY <2>2
    <2> QED
      BY <2>1, <2>2, <2>4, <2>5
  <1>7. IsFiniteSet(U) /\ Cardinality(U) = Cardinality(T)
    BY <1>5, <1>6, ShiftedSize
  <1>8. R!Cardinality(T) = Cardinality(T)
    BY Zenon DEF R!Cardinality, Cardinality
  <1>9. R!CountAfter(r, cut) = R!Cardinality(T)
    BY <1>1 DEF R!CountAfter
  <1> QED
    BY <1>1, <1>5, <1>6, <1>7, <1>8, <1>9, LogCardinality

\* There is one place at most that is the extra-th of some places.
LEMMA OnePlace ==
  ASSUME NEW U \in SUBSET Int, IsFiniteSet(U), NEW extra,
         NEW x \in Log!Reached(U, extra), NEW y \in Log!Reached(U, extra)
  PROVE  x = y
  <1>1. \A i \in Log!Reached(U, extra) :
          i \in U /\ Cardinality({j \in U : j <= i}) = extra
    BY LogCardinality DEF Log!Reached
  <1>2. ASSUME NEW a \in U, NEW b \in U, a < b
        PROVE  Cardinality({j \in U : j <= a}) # Cardinality({j \in U : j <= b})
    <2>1. PICK A, B : A = {j \in U : j <= a} /\ B = {j \in U : j <= b}
      OBVIOUS
    <2>2. IsFiniteSet(B) /\ A \in SUBSET B
      <3>1. B \in SUBSET U
        BY <2>1
      <3>2. a \in Int /\ b \in Int /\ \A j \in U : j \in Int
        OBVIOUS
      <3>3. IsFiniteSet(B)
        BY <3>1, FS_Subset
      <3>4. \A j \in U : j <= a => j <= b
        BY <1>2, <3>2
      <3> QED
        BY <2>1, <3>3, <3>4
    <2>3. b \in B /\ b \notin A
      BY <1>2, <2>1
    <2> QED
      BY <2>1, <2>2, <2>3, FS_Subset
  <1>3. x \in Int /\ y \in Int
    BY <1>1
  <1>4. PICK S : S = Log!Reached(U, extra)
    OBVIOUS
  <1>5. /\ x \in U /\ Cardinality({j \in U : j <= x}) = extra
        /\ y \in U /\ Cardinality({j \in U : j <= y}) = extra
    BY <1>1, <1>4
  <1> QED
    BY <1>2, <1>3, <1>5

\* So the two scans for the extra-th valid event find the same one.
LEMMA RingWait ==
  ASSUME NEW c \in Nat \ {0}, NEW r \in Rings(c), NEW t \in Int, NEW extra,
         NEW l, NEW k, l.size \in Int, k.size = l.size
  PROVE  R!Wait(l, r, extra, t) = Log!Wait(k, R!Times(r), extra, t)
  <1>1. PICK cut, s, size : cut = t - l.size /\ s = R!Times(r) /\ size = l.size
    OBVIOUS
  <1>2. PICK T, U : T = R!ValidAt(r, cut) /\ U = Log!After(s, cut)
    OBVIOUS
  <1>3. cut \in Int /\ size \in Int /\ r.len \in Nat /\ s \in Seq(Int) /\ Len(s) = r.len
    BY SMTT(30), <1>1, RingTimes DEF Rings
  <1>4. /\ T \in SUBSET (0..(r.len - 1)) /\ U = Shifted(T) /\ IsFiniteSet(U)
        /\ IsFiniteSet(T) /\ T \in SUBSET Int
    BY <1>1, <1>2, <1>3, RingValid
  <1>5. PICK hits, seen : /\ hits = {i \in T : R!Cardinality({j \in T : j <= i}) = extra}
                          /\ seen = Log!Reached(U, extra)
    OBVIOUS
  <1>6. ASSUME NEW i \in T
        PROVE  Log!Cardinality({j \in U : j <= i + 1}) = R!Cardinality({j \in T : j <= i})
    <2>1. PICK A, B : A = {j \in T : j <= i} /\ B = {j \in U : j <= i + 1}
      OBVIOUS
    <2>2. i \in Int /\ \A j \in T : j \in Int
      BY <1>3, <1>4
    <2>3. B = Shifted(A)
      <3>1. \A j \in T : j + 1 <= i + 1 <=> j <= i
        BY <2>2
      <3>2. ASSUME NEW b \in B
            PROVE  b \in Shifted(A)
        BY <1>4, <2>1, <3>1, <3>2 DEF Shifted
      <3>3. ASSUME NEW j \in A
            PROVE  j + 1 \in B
        BY <1>4, <2>1, <3>1, <3>3 DEF Shifted
      <3> QED
        BY <3>2, <3>3 DEF Shifted
    <2>4. A \in SUBSET Int /\ IsFiniteSet(A)
      <3>1. A \in SUBSET T
        BY <2>1
      <3> QED
        BY <1>4, <3>1, FS_Subset
    <2>5. Cardinality(B) = Cardinality(A)
      BY <2>3, <2>4, ShiftedSize
    <2>6. R!Cardinality(A) = Cardinality(A)
      BY Zenon DEF R!Cardinality, Cardinality
    <2> QED
      BY <2>1, <2>5, <2>6, LogCardinality
  <1>7. seen = Shifted(hits)
    <2>1. ASSUME NEW u \in seen
          PROVE  u \in Shifted(hits)
      <3>1. u \in U /\ Log!Cardinality({j \in U : j <= u}) = extra
        BY <1>5, <2>1 DEF Log!Reached
      <3>2. PICK i \in T : u = i + 1
        BY <1>4, <3>1 DEF Shifted
      <3> QED
        BY <1>5, <1>6, <3>1, <3>2 DEF Shifted
    <2>2. ASSUME NEW i \in hits
          PROVE  i + 1 \in seen
      <3>1. i \in T /\ R!Cardinality({j \in T : j <= i}) = extra
        BY <1>5, <2>2
      <3>2. i + 1 \in U
        BY <1>4, <3>1 DEF Shifted
      <3> QED
        BY <1>5, <1>6, <3>1, <3>2 DEF Log!Reached
    <2> QED
      BY <2>1, <2>2 DEF Shifted
  <1>8. PICK x, y : x = (CHOOSE i \in hits : TRUE) /\ y = (CHOOSE i \in seen : TRUE)
    OBVIOUS
  <1>9. /\ R!Wait(l, r, extra, t) = IF hits = {} THEN 0 ELSE R!MaxI(R!At(r, x) + size - t, 0)
        /\ Log!Wait(k, s, extra, t)
             = IF seen = {} \/ s[y] + size - t < 0 THEN 0 ELSE s[y] + size - t
    BY <1>1, <1>2, <1>5, <1>8 DEF R!Wait, Log!Wait, Log!Cutoff
  <1>10. CASE hits = {}
    BY <1>1, <1>7, <1>9, <1>10 DEF Shifted
  <1>11. CASE hits # {}
    <2>1. x \in hits /\ seen # {} /\ y \in seen
      BY <1>7, <1>8, <1>11 DEF Shifted
    <2>2. x + 1 \in seen
      BY <1>7, <2>1 DEF Shifted
    <2>3. y = x + 1
      <3>1. U \in SUBSET Int
        BY <1>4 DEF Shifted
      <3> QED
        BY <1>4, <1>5, <2>1, <2>2, <3>1, OnePlace
    <2>4. x \in 0..(r.len - 1)
      BY <1>4, <1>5, <2>1
    <2>5. s[x + 1] = R!At(r, x)
      BY <1>1, <2>4, RingTimes
    <2>6. s[x + 1] \in Int
      BY <1>3, <2>4
    <2>7. R!MaxI(R!At(r, x) + size - t, 0)
            = IF s[y] + size - t < 0 THEN 0 ELSE s[y] + size - t
      <3>1. PICK a : a = s[x + 1] + size - t
        OBVIOUS
      <3>2. a \in Int
        BY <1>3, <2>6, <3>1
      <3>3. R!MaxI(a, 0) = IF a < 0 THEN 0 ELSE a
        BY <3>2 DEF R!MaxI
      <3> QED
        BY <2>3, <2>5, <3>1, <3>3
    <2> QED
      BY <1>1, <1>9, <1>11, <2>1, <2>7
  <1> QED
    BY <1>10, <1>11

\* The log that Ring is measured by is the one of the limiter.
LEMMA AbstractIsLog ==
  ASSUME NEW l, NEW n, NEW t
  PROVE  /\ R!Abstract!Allow(l, n, t) = Log!Allow(l, n, t)
         /\ R!Abstract!Peek(l, n, t) = Log!Peek(l, n, t)
         /\ R!Abstract!Restore(l, n) = Log!Restore(l, n)
  <1>1. \A S : R!Abstract!Cardinality(S) = Log!Cardinality(S)
    BY Zenon DEF R!Abstract!Cardinality, Log!Cardinality
  <1>2. \A ring, cut : R!Abstract!Prune(ring, cut) = Log!Prune(ring, cut)
    BY <1>1, Zenon DEF R!Abstract!Prune, Log!Prune
  <1>3. \A ring, cut : R!Abstract!After(ring, cut) = Log!After(ring, cut)
    BY DEF R!Abstract!After, Log!After
  <1>4. \A valid, x : R!Abstract!Reached(valid, x) = Log!Reached(valid, x)
    BY <1>1, Zenon DEF R!Abstract!Reached, Log!Reached
  <1>5. \A ring, x : R!Abstract!Wait(l, ring, x, t) = Log!Wait(l, ring, x, t)
    <2> SUFFICES ASSUME NEW ring, NEW x
                 PROVE  R!Abstract!Wait(l, ring, x, t) = Log!Wait(l, ring, x, t)
      OBVIOUS
    <2>1. PICK hits, y : /\ hits = Log!Reached(Log!After(ring, t - l.size), x)
                         /\ y = ring[CHOOSE i \in hits : TRUE] + l.size - t
      OBVIOUS
    <2>2. hits = R!Abstract!Reached(R!Abstract!After(ring, t - l.size), x)
      BY <1>3, <1>4, <2>1
    <2>3. R!Abstract!Wait(l, ring, x, t) = IF hits = {} \/ y < 0 THEN 0 ELSE y
      <3>1. PICK seen, z : /\ seen = R!Abstract!Reached(R!Abstract!After(ring, t - l.size), x)
                           /\ z = ring[CHOOSE i \in seen : TRUE] + l.size - t
        OBVIOUS
      <3>2. R!Abstract!Wait(l, ring, x, t) = IF seen = {} \/ z < 0 THEN 0 ELSE z
        BY <3>1 DEF R!Abstract!Wait, R!Abstract!Cutoff
      <3>3. seen = hits
        BY <2>2, <3>1
      <3> QED
        BY <2>1, <3>1, <3>2, <3>3
    <2>4. Log!Wait(l, ring, x, t) = IF hits = {} \/ y < 0 THEN 0 ELSE y
      BY <2>1 DEF Log!Wait, Log!Cutoff
    <2> QED
      BY <2>3, <2>4
  <1>6. \A ring : R!Abstract!PushN(ring, t, n) = Log!PushN(ring, t, n)
    BY DEF R!Abstract!PushN, Log!PushN
  <1>7. R!Abstract!Allow(l, n, t) = Log!Allow(l, n, t)
    BY <1>2, <1>5, <1>6, Zenon
    DEF R!Abstract!Allow, Log!Allow, R!Abstract!Cutoff, Log!Cutoff, R!Abstract!Accept,
        R!Abstract!Refuse, R!Abstract!Impossible, Log!Accept, Log!Refuse, Log!Impossible
  <1>8. R!Abstract!Peek(l, n, t) = Log!Peek(l, n, t)
    BY <1>1, <1>3, <1>5, Zenon
    DEF R!Abstract!Peek, Log!Peek, R!Abstract!Cutoff, Log!Cutoff, R!Abstract!Accept,
        R!Abstract!Refuse, R!Abstract!Impossible, Log!Accept, Log!Refuse, Log!Impossible
  <1>9. R!Abstract!Restore(l, n) = Log!Restore(l, n)
    BY DEF R!Abstract!Restore, Log!Restore, R!Abstract!PopNewestN, Log!PopNewestN
  <1> QED
    BY <1>7, <1>8, <1>9

\* Every method of window.go on the circular buffer of log.go does what it does
\* on the sequence of its events, whatever the capacity, wherever the events lie
\* and whatever is left in the places they do not take.
THEOREM RingIsLog ==
  ASSUME NEW c \in Nat \ {0}, NEW r \in Rings(c), NEW size \in Nat, NEW limit \in 0..c,
         NEW n \in Nat \ {0}, NEW t \in Int
  PROVE  R!Implements([ring |-> r, size |-> size, limit |-> limit], n, t)
  <1>1. PICK l, s, k, cut : /\ l = [ring |-> r, size |-> size, limit |-> limit]
                            /\ s = R!Times(r) /\ cut = t - size
                            /\ k = [ring |-> s, size |-> size, limit |-> limit]
    OBVIOUS
  <1>2. /\ l.ring = r /\ l.size = size /\ l.limit = limit
        /\ k.ring = s /\ k.size = size /\ k.limit = limit
        /\ size \in Int /\ limit \in Nat /\ limit <= c /\ cut \in Int /\ Log!Cutoff(k, t) = cut
    BY <1>1 DEF Log!Cutoff
  <1>3. r.len \in Nat /\ s \in Seq(Int) /\ Len(s) = r.len
    BY <1>1, RingTimes DEF Rings
  <1>4. \A q : R!Mapped([l EXCEPT !.ring = q]) = [k EXCEPT !.ring = R!Times(q)]
    <2> SUFFICES ASSUME NEW q
                 PROVE  R!Mapped([l EXCEPT !.ring = q]) = [k EXCEPT !.ring = R!Times(q)]
      OBVIOUS
    <2>1. PICK u, x : u = [ring |-> q, size |-> size, limit |-> limit] /\ x = R!Times(q)
      OBVIOUS
    <2>2. u = [l EXCEPT !.ring = q] /\ u.ring = q
      BY <1>1, <2>1
    <2>3. R!Mapped(u) = [u EXCEPT !.ring = x]
      BY <2>1, <2>2 DEF R!Mapped
    <2>4. [u EXCEPT !.ring = x] = [k EXCEPT !.ring = x]
      BY <1>1, <2>1
    <2> QED
      BY <2>1, <2>2, <2>3, <2>4
  <1>5. R!Mapped(l) = k
    BY <1>1 DEF R!Mapped
  <1>6. PICK p, kept : p = R!Prune(r, cut) /\ kept = Log!Prune(s, cut)
    OBVIOUS
  <1>7. p \in Rings(c) /\ R!Times(p) = kept /\ p.len \in Nat /\ Len(kept) = p.len
    <2>1. p \in Rings(c) /\ R!Times(p) = kept
      BY <1>1, <1>2, <1>6, RingPrune
    <2> QED
      BY SMTT(30), <2>1, RingTimes DEF Rings
  <1>8. PICK extra : extra = p.len + n - limit
    OBVIOUS
  <1>9. PICK w : w = R!Wait(l, p, extra, t)
    OBVIOUS
  <1>10. w = Log!Wait(k, kept, extra, t)
    BY <1>2, <1>7, <1>9, RingWait
  <1>11. R!MappedResult(R!Allow(l, n, t)) = Log!Allow(k, n, t)
    <2>1. ~(n <= 0) /\ extra \in Int /\ extra = Len(kept) + n - limit
      BY <1>2, <1>7, <1>8
    <2>2. CASE n > limit
      <3>1. R!Allow(l, n, t) = R!Impossible(l) /\ Log!Allow(k, n, t) = Log!Impossible(k)
        BY <1>2, <2>1, <2>2 DEF R!Allow, Log!Allow
      <3> QED
        BY <1>5, <3>1 DEF R!MappedResult, R!Impossible, Log!Impossible
    <2>3. CASE n <= limit /\ extra <= 0
      <3>1. PICK q, u : q = R!PushN(p, t, n) /\ u = Log!PushN(kept, t, n)
        OBVIOUS
      <3>2. R!Times(q) = u
        <4>1. p.len + n <= c
          BY <1>2, <1>7, <1>8, <2>3
        <4> QED
          BY <1>7, <3>1, <4>1, RingPushN
      <3>3. R!Allow(l, n, t) = R!Accept([l EXCEPT !.ring = q])
        <4>1. p.len + n <= limit /\ ~(n > limit)
          BY <1>2, <1>7, <1>8, <2>3
        <4> QED
          BY <1>1, <1>2, <1>6, <2>1, <3>1, <4>1 DEF R!Allow
      <3>4. Log!Allow(k, n, t) = Log!Accept([k EXCEPT !.ring = u])
        BY <1>2, <1>6, <2>1, <2>3, <3>1 DEF Log!Allow
      <3> QED
        BY <1>4, <3>2, <3>3, <3>4 DEF R!MappedResult, R!Accept, Log!Accept
    <2>4. CASE n <= limit /\ ~(extra <= 0)
      <3>1. R!Allow(l, n, t) = R!Refuse([l EXCEPT !.ring = p], w)
        <4>1. ~(p.len + n <= limit) /\ ~(n > limit)
          BY <1>2, <1>7, <1>8, <2>4
        <4> QED
          BY <1>1, <1>2, <1>6, <1>8, <1>9, <2>1, <2>4, <4>1 DEF R!Allow
      <3>2. Log!Allow(k, n, t) = Log!Refuse([k EXCEPT !.ring = kept], w)
        BY <1>2, <1>6, <1>10, <2>1, <2>4 DEF Log!Allow
      <3> QED
        BY <1>4, <1>7, <3>1, <3>2 DEF R!MappedResult, R!Refuse, Log!Refuse
    <2> QED
      BY <1>2, <2>1, <2>2, <2>3, <2>4
  <1>12. R!MappedResult(R!Peek(l, n, t)) = Log!Peek(k, n, t)
    <2>1. PICK in, x : in = R!CountAfter(r, cut) /\ x = in + n - limit
      OBVIOUS
    <2>2. in = Log!Cardinality(Log!After(s, cut)) /\ in \in Nat
      BY <1>1, <1>2, <2>1, RingValid, FS_CardinalityType
    <2>3. PICK v : v = R!Wait(l, r, x, t)
      OBVIOUS
    <2>4. v = Log!Wait(k, s, x, t)
      BY <1>1, <1>2, <2>3, RingWait
    <2>5. ~(n <= 0) /\ (in + n <= limit <=> x <= 0)
      BY <1>2, <2>1, <2>2
    <2>6. R!Peek(l, n, t) = IF n > limit THEN R!Impossible(l)
                            ELSE IF x <= 0 THEN R!Accept(l) ELSE R!Refuse(l, v)
      BY <1>1, <1>2, <2>1, <2>3, <2>5 DEF R!Peek
    <2>7. Log!Peek(k, n, t) = IF n > limit THEN Log!Impossible(k)
                              ELSE IF x <= 0 THEN Log!Accept(k) ELSE Log!Refuse(k, v)
      BY <1>2, <2>1, <2>2, <2>4, <2>5 DEF Log!Peek
    <2> QED
      BY <1>5, <2>6, <2>7 DEF R!MappedResult, R!Impossible, R!Accept, R!Refuse,
                              Log!Impossible, Log!Accept, Log!Refuse
  <1>13. n <= r.len => R!Mapped(R!Restore(l, n)) = Log!Restore(k, n)
    <2> SUFFICES ASSUME n <= r.len PROVE R!Mapped(R!Restore(l, n)) = Log!Restore(k, n)
      OBVIOUS
    <2>1. PICK q, u : q = R!PopNewestN(r, n) /\ u = Log!PopNewestN(s, n)
      OBVIOUS
    <2>2. R!Times(q) = u
      BY <1>1, <2>1, RingPopN
    <2>3. R!Restore(l, n) = [l EXCEPT !.ring = q] /\ Log!Restore(k, n) = [k EXCEPT !.ring = u]
      BY <1>2, <2>1 DEF R!Restore, Log!Restore
    <2> QED
      BY <1>4, <2>2, <2>3
  <1>14. R!Times(R!Push(r, t)) = Append(IF r.len < r.cap THEN s ELSE Tail(s), t)
    <2>1. r.cap = c
      BY DEF Rings
    <2>2. R!Times(R!Push(r, t))
            = Append(IF r.len < c THEN R!Times(r) ELSE Tail(R!Times(r)), t)
      BY RingPush
    <2> QED
      BY <1>1, <2>1, <2>2
  <1>15. /\ R!Abstract!Allow(k, n, t) = Log!Allow(k, n, t)
         /\ R!Abstract!Peek(k, n, t) = Log!Peek(k, n, t)
         /\ R!Abstract!Restore(k, n) = Log!Restore(k, n)
    BY AbstractIsLog
  <1>16. R!Implements(l, n, t)
    BY <1>1, <1>2, <1>5, <1>11, <1>12, <1>13, <1>14, <1>15 DEF R!Implements
  <1> QED
    BY <1>1, <1>16

\* What HeldBy(c) holds are circular buffers whose events are those of the log.
LEMMA HeldByHolds ==
  ASSUME IInv, st.log # NIL, NEW c \in st.log.limit..(st.log.limit + 1), NEW r \in HeldBy(c)
  PROVE  c \in Nat \ {0} /\ r \in Rings(c) /\ R!Times(r) = st.log.ring
  <1>1. PICK ring, len : ring = st.log.ring /\ len = Len(ring)
    OBVIOUS
  <1>2. /\ ring \in Seq(Int) /\ len \in Nat /\ len <= st.log.limit
        /\ st.log.limit \in Nat /\ st.log.size \in Nat /\ now \in Int
    BY <1>1, GoodFields DEF IInv, Shape, Clocks, Logs, Log!States
  <1>3. PICK b \in 0..(c - 1) :
          r = [start |-> b, len |-> len, cap |-> c,
               times |-> [p \in 0..(c - 1) |->
                            LET i == ((p - b + c) % c) + 1
                            IN IF i <= len THEN ring[i] ELSE now]]
    BY <1>1 DEF HeldBy
  <1>4. c \in Nat \ {0} /\ len \in 0..c /\ c \in 0..c
    BY <1>2
  <1>5. \A p \in 0..(c - 1) :
          LET i == ((p - b + c) % c) + 1
          IN (IF i <= len THEN ring[i] ELSE now) \in Int
    <2> SUFFICES ASSUME NEW p \in 0..(c - 1), NEW i, i = ((p - b + c) % c) + 1
                 PROVE  (IF i <= len THEN ring[i] ELSE now) \in Int
      OBVIOUS
    <2>1. PICK x : x = p - b + c
      OBVIOUS
    <2>2. x \in 0..(2 * c - 1)
      BY <1>4, <2>1
    <2>3. x % c = IF x < c THEN x ELSE x - c
      BY <1>4, <2>2, Wrapped
    <2>4. i \in Nat \ {0}
      BY <1>4, <2>1, <2>2, <2>3
    <2>5. i <= len => ring[i] \in Int
      BY <1>1, <1>2, <2>4
    <2> QED
      BY <1>2, <2>5
  <1>6. r \in Rings(c)
    <2>1. PICK f : f = [p \in 0..(c - 1) |->
                            LET i == ((p - b + c) % c) + 1
                            IN IF i <= len THEN ring[i] ELSE now]
      OBVIOUS
    <2>2. f \in [0..(c - 1) -> Int]
      BY <1>5, <2>1
    <2>3. r = [start |-> b, len |-> len, cap |-> c, times |-> f]
      BY <1>3, <2>1
    <2> QED
      BY <1>4, <2>2, <2>3 DEF Rings
  <1>7. ASSUME NEW j \in 1..len
        PROVE  R!Times(r)[j] = ring[j]
    <2>1. PICK i, p : i = j - 1 /\ p = Spot(r, i)
      OBVIOUS
    <2>2. r.len = len /\ r.start = b /\ r.cap = c /\ i \in 0..(len - 1) /\ i + 1 = j
      BY <1>2, <1>3, <2>1
    <2>3. p = (IF b + i < c THEN b + i ELSE b + i - c) /\ p \in 0..(c - 1)
      BY <1>2, <1>4, <2>1, <2>2 DEF Spot
    <2>4. R!Times(r)[j] = r.times[p]
      BY <1>4, <1>6, <2>1, <2>2, RingTimes
    <2>5. PICK x : x = p - b + c
      OBVIOUS
    <2>6. x \in 0..(2 * c - 1) /\ (IF x < c THEN x ELSE x - c) = i
      BY <1>2, <1>4, <2>2, <2>3, <2>5
    <2>7. x % c = i
      BY <1>4, <2>6, Wrapped
    <2>8. r.times[p] = ring[i + 1]
      <3>1. r.times[p] = IF (x % c) + 1 <= len THEN ring[(x % c) + 1] ELSE now
        BY <1>3, <2>3, <2>5
      <3>2. i + 1 <= len
        BY <1>2, <2>2
      <3> QED
        BY <2>7, <3>1, <3>2
    <2> QED
      BY <2>2, <2>4, <2>8
  <1>8. R!Times(r) = ring
    <2>1. R!Times(r) \in Seq(Int) /\ Len(R!Times(r)) = r.len /\ r.len = len
      BY <1>3, <1>4, <1>6, RingTimes
    <2> QED
      BY <1>1, <1>2, <1>7, <2>1, SameTimes
  <1> QED
    BY <1>1, <1>4, <1>6, <1>8

\* log.go:7, window.go:37: wherever the log of a key stands, and wherever in a
\* ring large enough its timestamps lie, the code on the ring does what the
\* log on the sequence of its events does.
THEOREM RingImplementsHolds == Spec => []RingImplements
  <1>1. IInv => RingImplements
    <2> SUFFICES ASSUME IInv, st.log # NIL,
                        NEW c \in st.log.limit..(st.log.limit + 1),
                        NEW r \in HeldBy(c), NEW n \in 1..MaxN
                 PROVE  R!Implements([ring |-> r, size |-> st.log.size, limit |-> c], n, now)
      BY DEF RingImplements
    <2>1. r \in Rings(c) /\ c \in Nat \ {0}
      BY HeldByHolds
    <2>2. st.log.limit \in Nat /\ st.log.size \in Nat /\ now \in Int /\ n \in Nat \ {0}
      BY GoodFields, UnitsFit DEF IInv, Shape, Clocks, Logs, Log!States
    <2>3. c \in 0..c
      BY <2>1
    <2> QED
      BY <2>1, <2>2, <2>3, RingIsLog
  <1> QED
    BY <1>1, Inductive, PTL

=============================================================================
