---------------------------- MODULE LedgerProofs ----------------------------
(***************************************************************************)
(* Theorems about Ledger: its type invariant, the hard limit, the balance  *)
(* of lines and receipts, what callers are told and what refunds may free, *)
(* for any tenants, plans, amounts and clock.                              *)
(***************************************************************************)
EXTENDS Ledger, ArithProofs, FiniteSetTheorems

\* No charge is so large that a line's account wraps: without this the hard
\* limit can be passed (account.go:65).
UnitsFit == \A p \in Plans, u \in Units : p.hard + u <= MaxI64

-----------------------------------------------------------------------------
(* Lines of the ledger.                                                    *)

LEMMA RemBounds ==
  ASSUME NEW t \in Nat, NEW d \in Nat \ {0}
  PROVE  t % d \in 0..t
  OBVIOUS

LEMMA AlignFits ==
  ASSUME NEW t \in Nat, NEW d \in Nat \ {0}
  PROVE  Align(t, d) \in 0..t /\ Align(t, d) % d = 0
  <1>1. Align(t, d) = t - (t % d)
    BY DEF Align, GoRem
  <1>2. t % d \in 0..t
    BY RemBounds
  <1>3. (t - (t % d)) % d = 0
    <2>1. t - (t % d) = d * (t \div d) /\ t \div d \in Nat
      OBVIOUS
    <2>2. \A q \in Nat : (d * q) % d = 0
      OBVIOUS
    <2> QED
      BY <2>1, <2>2
  <1> QED
    BY <1>1, <1>2, <1>3

LEMMA WrapType ==
  ASSUME NEW x \in Int
  PROVE  Wrap(x) \in Amounts
  BY WrappedType DEF Wrap, Amounts, MinI64

LEMMA WrapFits ==
  ASSUME NEW x \in 0..MaxI64
  PROVE  Wrap(x) = x
  BY WrappedFits DEF Wrap

\* A small difference wraps to itself, or to something negative.
LEMMA WrapDifference ==
  ASSUME NEW x \in 0..MaxI64, NEW y \in 0..MaxI64
  PROVE  Wrap(x - y) = x - y
  BY WrappedDifference DEF Wrap

LEMMA OpenLine ==
  ASSUME NEW p \in Plans, NEW t \in Nat
  PROVE  /\ Open(p, t) \in States
         /\ Open(p, t).used = 0 /\ Open(p, t).debt = p.debt /\ Open(p, t).hard = p.hard
         /\ Open(p, t).start = Align(t, p.period)
  <1>1. p \in Plans64
    BY PlansAssumption
  <1>2. Align(t, p.period) \in Int
    BY <1>1, AlignFits DEF Plans64
  <1>3. 0 \in Amounts
    BY MaxI64Fits DEF Amounts, MinI64
  <1> QED
    BY <1>1, <1>2, <1>3 DEF Open, States, Plans64

LEMMA RefreshLine ==
  ASSUME NEW p \in Plans, NEW t \in Nat, NEW a \in States
  PROVE  LET b == Refresh(a, p, t) IN
         /\ b \in States /\ b.debt = p.debt /\ b.hard = p.hard
         /\ b.start = Align(t, p.period)
         /\ b.used = IF a.start = b.start THEN a.used ELSE 0
  BY OpenLine DEF Refresh, States

LEMMA ChargeLine ==
  ASSUME NEW a \in States, NEW u \in Units
  PROVE  /\ ApplyCharge(a, u) \in States
         /\ ApplyCharge(a, u).start = a.start /\ ApplyCharge(a, u).hard = a.hard
         /\ ~a.debt /\ a.used \in 0..a.hard /\ a.hard + u <= MaxI64
              /\ ~WouldExceed(a, u)
              => /\ ApplyCharge(a, u).used = a.used + u
                 /\ a.used + u <= a.hard
  <1>1. /\ a.used \in Int /\ a.hard \in 0..MaxI64 /\ u \in 1..MaxI64 /\ MaxI64 \in Nat
    BY InputsAssumption, MaxI64Fits DEF States, Amounts, MinI64
  <1>2. Wrap(a.used + u) \in Amounts
    BY <1>1, WrapType
  <1>3. ApplyCharge(a, u) = [a EXCEPT !.used = Wrap(a.used + u)]
    BY DEF ApplyCharge
  <1>4. ASSUME ~a.debt, a.used \in 0..a.hard, a.hard + u <= MaxI64, ~WouldExceed(a, u)
        PROVE  ApplyCharge(a, u).used = a.used + u /\ a.used + u <= a.hard
    <2>1. a.used + u \in 0..MaxI64
      BY <1>1, <1>4
    <2>2. Wrap(a.used + u) = a.used + u
      BY <2>1, WrapFits
    <2>3. ~(Wrap(a.used + u) > a.hard)
      BY <1>4 DEF WouldExceed
    <2> QED
      BY <1>1, <1>3, <2>2, <2>3 DEF States
  <1> QED
    BY <1>2, <1>3, <1>4 DEF States

LEMMA RefundLine ==
  ASSUME NEW a \in States, NEW u \in Units, NEW debt \in BOOLEAN
  PROVE  LET b == ApplyRefund(a, u, debt) IN
         /\ b \in States /\ b.start = a.start /\ b.hard = a.hard
         /\ ~debt /\ a.used \in 0..a.hard =>
              b.used \in 0..a.hard /\ b.used >= a.used - u
  <1> DEFINE left == Wrap(a.used - u)
             left0 == IF ~debt /\ left < 0 THEN 0 ELSE left
             b == ApplyRefund(a, u, debt)
  <1>1. /\ a.used \in Int /\ a.hard \in 0..MaxI64 /\ u \in 1..MaxI64 /\ MaxI64 \in Nat
    BY InputsAssumption, MaxI64Fits DEF States, Amounts, MinI64
  <1>2. left \in Amounts
    BY <1>1, WrapType
  <1>3. left0 \in Amounts /\ b = [a EXCEPT !.used = left0]
    BY <1>1, <1>2 DEF ApplyRefund, Amounts, MinI64
  <1>4. ASSUME ~debt, a.used \in 0..a.hard
        PROVE  left0 \in 0..a.hard /\ left0 >= a.used - u
    <2>1. a.used \in 0..MaxI64 /\ u \in 0..MaxI64
      BY <1>1, <1>4
    <2>2. left = a.used - u
      BY <2>1, WrapDifference
    <2> HIDE DEF left
    <2> QED
      BY <1>1, <1>4, <2>2
  <1> HIDE DEF left0, b
  <1>5. b \in States /\ b.start = a.start /\ b.hard = a.hard /\ b.used = left0
    BY <1>3 DEF States
  <1> QED
    BY <1>4, <1>5 DEF b

-----------------------------------------------------------------------------
(* Type correctness.                                                       *)

LinesOK ==
  \A t \in Tenants :
    accounts[t] # NIL =>
      /\ accounts[t].start \in Periods
      /\ replans = 0 => accounts[t].start % plan.period = 0

\* What every operation finds: the tenant's line, on the current period.
LEMMA Located ==
  ASSUME TypeOK, NEW t \in Tenants
  PROVE  LET a == AccountLocked(t) IN
         /\ a \in States /\ a.debt = plan.debt /\ a.hard = plan.hard
         /\ a.start = Period(now)
         /\ a.used = IF Opens(t) THEN 0 ELSE accounts[t].used
         /\ Period(now) \in Periods /\ Period(now) % plan.period = 0
  <1>1. /\ plan \in Plans /\ plan.period \in Nat \ {0} /\ now \in Nat /\ now <= MaxTime
        /\ MaxTime \in Nat
    BY PlansAssumption, InputsAssumption DEF TypeOK, Times, Plans64
  <1>2. Period(now) \in Periods /\ Period(now) % plan.period = 0
    BY <1>1, AlignFits DEF Period, Periods
  <1>3. CASE accounts[t] = NIL
    BY <1>1, <1>2, <1>3, OpenLine DEF AccountLocked, Opens, Period
  <1>4. CASE accounts[t] # NIL
    <2>1. accounts[t] \in States
      BY <1>4 DEF TypeOK
    <2> QED
      BY <1>1, <1>2, <1>4, <2>1, RefreshLine DEF AccountLocked, Opens, Period
  <1> QED
    BY <1>3, <1>4

\* Adding to one entry of a table of amounts.
LEMMA TableEntry ==
  ASSUME NEW S, S \in {Nat, Int}, NEW table \in [Tenants -> [Periods -> S]],
         NEW t \in Tenants, NEW p \in Periods, NEW x \in S
  PROVE  [table EXCEPT ![t][p] = x] \in [Tenants -> [Periods -> S]]
  <1>1. [table[t] EXCEPT ![p] = x] \in [Periods -> S]
    OBVIOUS
  <1> QED
    BY <1>1

LEMMA StoreTyped ==
  ASSUME TypeOK, NEW t \in Tenants, NEW a \in States, a.start = Period(now), Store(t, a)
  PROVE  /\ plan' \in Plans /\ now' \in Times /\ replans' \in Nat
         /\ accounts' \in [Tenants -> States \cup {NIL}]
         /\ opened' \in Nat /\ visits' \in [Tenants -> [Periods -> Nat]]
         /\ LinesOK'
  <1>1. Period(now) \in Periods /\ Period(now) % plan.period = 0
    BY Located
  <1>2. /\ plan \in Plans /\ now \in Times /\ replans \in Nat /\ opened \in Nat
        /\ accounts \in [Tenants -> States \cup {NIL}]
        /\ visits \in [Tenants -> [Periods -> Nat]]
        /\ LinesOK
    BY DEF TypeOK, LinesOK
  <1>3. /\ plan' = plan /\ now' = now /\ replans' = replans
        /\ accounts' = [accounts EXCEPT ![t] = a]
        /\ opened' \in {opened, opened + 1}
    BY DEF Store
  <1>4. opened' \in Nat
    BY <1>2, <1>3
  <1>5. visits' \in [Tenants -> [Periods -> Nat]]
    <2> DEFINE v == IF Opens(t) THEN visits[t][Period(now)] + 1 ELSE visits[t][Period(now)]
    <2>1. visits[t][Period(now)] \in Nat
      BY <1>1, <1>2
    <2>2. v \in Nat
      BY <2>1
    <2>3. visits' = [visits EXCEPT ![t][Period(now)] = v]
      BY DEF Store
    <2> HIDE DEF v
    <2> QED
      BY <1>1, <1>2, <2>2, <2>3, TableEntry
  <1>6. LinesOK'
    BY <1>1, <1>2, <1>3 DEF LinesOK
  <1> QED
    BY <1>2, <1>3, <1>4, <1>5, <1>6

LEMMA ReceiptTyped ==
  ASSUME TypeOK, NEW id \in 1..Len(receipts)
  PROVE  LET r == receipts[id] IN
         /\ r \in Receipts /\ r.tenant \in Tenants /\ r.units \in Units
         /\ r.units \in Nat /\ Period(r.at) \in Periods
  <1>1. receipts[id] \in Receipts
    BY DEF TypeOK
  <1>2. /\ receipts[id].tenant \in Tenants /\ receipts[id].units \in Units
        /\ receipts[id].at \in Times
    BY <1>1 DEF Receipts
  <1>3. receipts[id].units \in Nat
    <2>1. receipts[id].units \in 1..MaxI64
      BY <1>2, InputsAssumption
    <2> QED
      BY <2>1, MaxI64Fits
  <1>4. /\ receipts[id].at \in Nat /\ receipts[id].at <= MaxTime /\ MaxTime \in Nat
        /\ plan.period \in Nat \ {0}
    <2>1. MinTime \in Nat /\ MaxTime \in Nat
      BY InputsAssumption
    <2>2. plan.period \in Nat \ {0}
      BY PlansAssumption DEF TypeOK, Plans64
    <2> QED
      BY <1>2, <2>1, <2>2 DEF Times
  <1>5. Period(receipts[id].at) \in Periods
    <2> DEFINE x == receipts[id].at
    <2>1. x \in Nat /\ x <= MaxTime
      BY <1>4
    <2> HIDE DEF x
    <2>2. Align(x, plan.period) \in 0..x
      BY <1>4, <2>1, AlignFits
    <2>3. Align(x, plan.period) \in 0..MaxTime
      BY <1>4, <2>1, <2>2
    <2> QED
      BY <2>3 DEF Period, Periods, x
  <1> QED
    BY <1>1, <1>2, <1>3, <1>5

LEMMA ChargeTyped ==
  ASSUME TypeOK, NEW t \in Tenants, NEW u \in Units, Charge(t, u)
  PROVE  TypeOK'
  <1> DEFINE a == AccountLocked(t)
  <1>1. a \in States /\ a.start = Period(now) /\ Period(now) \in Periods
    BY Located
  <1>2. ApplyCharge(a, u) \in States /\ ApplyCharge(a, u).start = Period(now)
    BY <1>1, ChargeLine
  <1>3. /\ receipts \in Seq(Receipts) /\ live \in [Tenants -> [Periods -> Int]]
        /\ foreign \in [Tenants -> [Periods -> Nat]] /\ now \in Times /\ u \in Nat
    BY InputsAssumption, MaxI64Fits DEF TypeOK
  <1> HIDE DEF a
  <1>4. CASE Store(t, a) /\ UNCHANGED <<receipts, live, foreign>>
    BY <1>1, <1>3, <1>4, StoreTyped DEF TypeOK, LinesOK
  <1>5. CASE /\ Store(t, ApplyCharge(a, u))
             /\ receipts' = Append(receipts, [tenant |-> t, units |-> u, at |-> now,
                                              refunded |-> FALSE])
             /\ live' = [live EXCEPT ![t][Period(now)] = @ + u]
             /\ UNCHANGED foreign
    <2>1. [tenant |-> t, units |-> u, at |-> now, refunded |-> FALSE] \in Receipts
      BY <1>3 DEF Receipts
    <2>2. receipts' \in Seq(Receipts)
      BY <1>3, <1>5, <2>1
    <2>3. live' \in [Tenants -> [Periods -> Int]]
      <3>1. live[t][Period(now)] + u \in Int
        BY <1>1, <1>3
      <3> QED
        BY <1>1, <1>3, <1>5, <3>1, TableEntry
    <2> QED
      BY <1>2, <1>3, <1>5, <2>2, <2>3, StoreTyped DEF TypeOK, LinesOK
  <1> QED
    BY <1>4, <1>5 DEF Charge, a

LEMMA RefundTyped ==
  ASSUME TypeOK, NEW id \in 1..Len(receipts), Refund(id)
  PROVE  TypeOK'
  <1> DEFINE r == receipts[id]
             t == r.tenant
             a == AccountLocked(t)
             q == Period(r.at)
  <1>1. /\ r \in Receipts /\ t \in Tenants /\ r.units \in Units /\ r.units \in Nat
        /\ q \in Periods
    BY ReceiptTyped
  <1>2. a \in States /\ a.start = Period(now) /\ Period(now) \in Periods
    BY <1>1, Located
  <1>3. plan.debt \in BOOLEAN
    BY PlansAssumption DEF TypeOK, Plans64
  <1>4. ApplyRefund(a, r.units, plan.debt) \in States
        /\ ApplyRefund(a, r.units, plan.debt).start = Period(now)
    BY <1>1, <1>2, <1>3, RefundLine
  <1>5. /\ receipts \in Seq(Receipts) /\ live \in [Tenants -> [Periods -> Int]]
        /\ foreign \in [Tenants -> [Periods -> Nat]]
    BY DEF TypeOK
  <1>6. CASE Store(t, a) /\ UNCHANGED <<receipts, live, foreign>>
    <2> HIDE DEF a, t
    <2> QED
      BY <1>1, <1>2, <1>5, <1>6, StoreTyped DEF TypeOK, LinesOK
  <1>7. CASE /\ Store(t, ApplyRefund(a, r.units, plan.debt))
             /\ receipts' = [receipts EXCEPT ![id].refunded = TRUE]
             /\ live' = [live EXCEPT ![t][q] = IF r.refunded THEN @ ELSE @ - r.units]
             /\ foreign' = [foreign EXCEPT ![t][Period(now)] =
                              IF r.refunded \/ q = Period(now) THEN @ ELSE @ + r.units]
    <2>1. receipts' \in Seq(Receipts)
      <3>1. [r EXCEPT !.refunded = TRUE] \in Receipts
        BY <1>1 DEF Receipts
      <3> QED
        BY <1>5, <1>7, <3>1
    <2> HIDE DEF a, t, q
    <2>2. live' \in [Tenants -> [Periods -> Int]]
      <3>1. (IF r.refunded THEN live[t][q] ELSE live[t][q] - r.units) \in Int
        BY <1>1, <1>5
      <3> QED
        BY <1>1, <1>5, <1>7, <3>1, TableEntry
    <2>3. foreign' \in [Tenants -> [Periods -> Nat]]
      <3>1. (IF r.refunded \/ q = Period(now) THEN foreign[t][Period(now)]
             ELSE foreign[t][Period(now)] + r.units) \in Nat
        BY <1>1, <1>2, <1>5
      <3> QED
        BY <1>1, <1>2, <1>5, <1>7, <3>1, TableEntry
    <2> QED
      BY <1>1, <1>4, <1>7, <2>1, <2>2, <2>3, StoreTyped DEF TypeOK, LinesOK
  <1> QED
    BY <1>6, <1>7 DEF Refund

LEMMA NextTyped == TypeOK /\ [Next]_vars => TypeOK'
  <1> SUFFICES ASSUME TypeOK, [Next]_vars PROVE TypeOK'
    OBVIOUS
  <1>1. ASSUME NEW t \in Tenants, NEW u \in Units, Charge(t, u) PROVE TypeOK'
    BY <1>1, ChargeTyped
  <1>2. ASSUME NEW id \in 1..Len(receipts), Refund(id) PROVE TypeOK'
    BY <1>2, RefundTyped
  <1>3. ASSUME NEW t \in Tenants, Peek(t) PROVE TypeOK'
    <2>1. AccountLocked(t) \in States /\ AccountLocked(t).start = Period(now)
      BY Located
    <2>2. Store(t, AccountLocked(t))
      BY <1>3 DEF Peek
    <2> QED
      BY <1>3, <2>1, <2>2, StoreTyped DEF Peek, TypeOK, LinesOK
  <1>4. ASSUME NEW t \in Tenants, Reset(t) PROVE TypeOK'
    BY <1>4 DEF Reset, TypeOK
  <1>5. ASSUME NEW p \in Plans, SetPlan(p) PROVE TypeOK'
    <2>1. replans \in Nat /\ replans' = replans + 1
      BY <1>5 DEF SetPlan, TypeOK
    <2>2. replans' \in Nat /\ replans' # 0
      BY <2>1
    <2> QED
      BY <1>5, <2>2 DEF SetPlan, TypeOK
  <1>6. ASSUME NEW time, MoveClock(time) PROVE TypeOK'
    BY <1>6 DEF MoveClock, TypeOK
  <1>7. CASE UNCHANGED vars
    BY <1>7 DEF vars, TypeOK
  <1> QED
    BY <1>1, <1>2, <1>3, <1>4, <1>5, <1>6, <1>7 DEF Next

LEMMA InitTyped == Init => TypeOK
  <1> SUFFICES ASSUME Init PROVE TypeOK
    OBVIOUS
  <1>1. receipts \in Seq(Receipts)
    <2>1. <<>> \in Seq(Receipts)
      OBVIOUS
    <2> QED
      BY <2>1 DEF Init
  <1>2. [t \in Tenants |-> [p \in Periods |-> 0]] \in [Tenants -> [Periods -> Nat]]
    OBVIOUS
  <1>3. [t \in Tenants |-> [p \in Periods |-> 0]] \in [Tenants -> [Periods -> Int]]
    OBVIOUS
  <1> QED
    BY <1>1, <1>2, <1>3 DEF Init, TypeOK

\* Type correctness, for any tenants, plans, amounts and clock: no amount is
\* ever outside an int64 and every line starts where a period does.
THEOREM TypeCorrect == Spec => []TypeOK
  BY InitTyped, NextTyped, PTL DEF Spec

-----------------------------------------------------------------------------
(* The hard limit.  A line on period p has paid for what is held of p: its *)
(* own use, and a full limit for each earlier time it was on p.            *)

Held(t, p) ==
  LET owed == plan.hard * visits[t][p] + foreign[t][p] - live[t][p] IN
  IF accounts[t] # NIL /\ accounts[t].start = p
  THEN owed >= plan.hard - accounts[t].used
  ELSE owed >= 0

Books ==
  ~plan.debt /\ replans = 0 =>
    /\ \A t \in Tenants : accounts[t] # NIL => accounts[t].used \in 0..plan.hard
    /\ \A t \in Tenants, p \in Periods : Held(t, p)

IInv == TypeOK /\ Books

LEMMA TableAt ==
  ASSUME NEW S, NEW table \in [Tenants -> [Periods -> S]],
         NEW t \in Tenants, NEW p \in Periods, NEW x,
         NEW u \in Tenants, NEW q \in Periods
  PROVE  [table EXCEPT ![t][p] = x][u][q] = IF u = t /\ q = p THEN x ELSE table[u][q]
  OBVIOUS

\* What an operation may do to what is held: to leave the line a it must not
\* raise what is held of a period by more than it charges that line.
Pays(t, a) ==
  /\ live' \in [Tenants -> [Periods -> Int]] /\ foreign' \in [Tenants -> [Periods -> Nat]]
  /\ \A u \in Tenants, p \in Periods :
       u # t \/ p # Period(now) =>
         live'[u][p] - foreign'[u][p] <= live[u][p] - foreign[u][p]
  /\ live'[t][Period(now)] - foreign'[t][Period(now)] - a.used
       <= live[t][Period(now)] - foreign[t][Period(now)] - AccountLocked(t).used

LEMMA StoreBalanced ==
  ASSUME IInv, ~plan.debt, replans = 0, NEW t \in Tenants, NEW a \in States,
         a.start = Period(now), a.used \in 0..plan.hard, Store(t, a), Pays(t, a)
  PROVE  /\ \A u \in Tenants : accounts'[u] # NIL => accounts'[u].used \in 0..plan'.hard
         /\ \A u \in Tenants, p \in Periods : Held(u, p)'
  <1>0. PICK P \in Periods : P = Period(now)
    BY Located DEF IInv
  <1> DEFINE hard == plan.hard
             was == AccountLocked(t).used
             more == IF Opens(t) THEN visits[t][P] + 1 ELSE visits[t][P]
  <1>1. P \in Periods /\ was = (IF Opens(t) THEN 0 ELSE accounts[t].used)
    BY Located DEF IInv
  <1>2. /\ accounts \in [Tenants -> States \cup {NIL}]
        /\ visits \in [Tenants -> [Periods -> Nat]]
        /\ live \in [Tenants -> [Periods -> Int]]
        /\ foreign \in [Tenants -> [Periods -> Nat]]
        /\ hard \in Nat
    BY PlansAssumption, MaxI64Fits DEF IInv, TypeOK, Plans64
  <1>3. /\ \A u \in Tenants : accounts[u] # NIL => accounts[u].used \in 0..hard
        /\ \A u \in Tenants, p \in Periods : Held(u, p)
    BY DEF IInv, Books
  <1>4. /\ plan' = plan /\ accounts' = [accounts EXCEPT ![t] = a]
        /\ visits' = [visits EXCEPT ![t][P] = more]
    BY <1>0 DEF Store
  <1>5. a # NIL
    BY LineAssumption
  <1>6. \A u \in Tenants : accounts'[u] = IF u = t THEN a ELSE accounts[u]
    BY <1>2, <1>4
  <1>7. \A u \in Tenants, p \in Periods :
          visits'[u][p] = IF u = t /\ p = P THEN more ELSE visits[u][p]
    BY <1>1, <1>2, <1>4, TableAt
  <1>8. \A u \in Tenants : accounts'[u] # NIL => accounts'[u].used \in 0..plan'.hard
    BY <1>3, <1>4, <1>6
  <1>9. Held(t, P)'
    <2>1. /\ visits[t][P] \in Nat /\ live[t][P] \in Int /\ foreign[t][P] \in Nat
          /\ live'[t][P] \in Int /\ foreign'[t][P] \in Nat /\ a.used \in Int
      BY <1>0, <1>1, <1>2 DEF Pays
    <2>2. live'[t][P] - foreign'[t][P] - a.used <= live[t][P] - foreign[t][P] - was
      BY <1>0 DEF Pays
    <2>3. hard * more + foreign[t][P] - live[t][P] >= hard - was
      <3>1. CASE Opens(t)
        <4>1. hard * visits[t][P] + foreign[t][P] - live[t][P] >= 0
          BY <1>0, <1>1, <1>3, <3>1 DEF Held, Opens
        <4>2. hard * (visits[t][P] + 1) = hard * visits[t][P] + hard
          <5>1. \A h, v \in Nat : h * (v + 1) = h * v + h
            OBVIOUS
          <5> QED
            BY <1>2, <2>1, <5>1
        <4>3. hard * visits[t][P] \in Nat
          BY <1>2, <2>1, NatProduct
        <4> QED
          BY <1>1, <1>2, <2>1, <3>1, <4>1, <4>2, <4>3
      <3>2. CASE ~Opens(t)
        BY <1>0, <1>1, <1>3, <3>2 DEF Held, Opens
      <3> QED
        BY <3>1, <3>2
    <2>4. hard * more \in Nat
      <3>1. more \in Nat
        BY <2>1
      <3> HIDE DEF more
      <3> QED
        BY <1>2, <3>1, NatProduct
    <2>5. was \in Int
      BY <1>0, <1>1, <1>3 DEF Opens
    <2> HIDE DEF was, more
    <2>6. hard * more + foreign'[t][P] - live'[t][P] >= hard - a.used
      BY <1>2, <2>1, <2>2, <2>3, <2>4, <2>5
    <2>7. accounts'[t] = a /\ visits'[t][P] = more /\ plan'.hard = hard
      BY <1>1, <1>4, <1>6, <1>7
    <2>8. accounts'[t] # NIL /\ accounts'[t].start = P /\ accounts'[t].used = a.used
      BY <1>0, <1>5, <2>7
    <2>9. plan'.hard * visits'[t][P] + foreign'[t][P] - live'[t][P]
            >= plan'.hard - accounts'[t].used
      BY <2>6, <2>7, <2>8
    <2> QED
      BY <2>8, <2>9 DEF Held
  <1>10. ASSUME NEW u \in Tenants, NEW p \in Periods, u # t \/ p # P
         PROVE  Held(u, p)'
    <2>1. /\ visits[u][p] \in Nat /\ live[u][p] \in Int /\ foreign[u][p] \in Nat
          /\ live'[u][p] \in Int /\ foreign'[u][p] \in Nat
      BY <1>2 DEF Pays
    <2>2. live'[u][p] - foreign'[u][p] <= live[u][p] - foreign[u][p]
      BY <1>0, <1>10 DEF Pays
    <2>3. hard * visits[u][p] \in Nat /\ visits'[u][p] = visits[u][p] /\ plan'.hard = hard
      BY <1>2, <1>4, <1>7, <1>10, <2>1, NatProduct
    <2>4. CASE u = t
      <3>1. accounts'[u] = a /\ a.start # p
        BY <1>0, <1>6, <1>10, <2>4
      <3>2. hard * visits[u][p] + foreign[u][p] - live[u][p] >= 0
        <4>1. accounts[u] # NIL => accounts[u].used \in 0..hard
          BY <1>3
        <4> QED
          BY <1>2, <1>3, <2>1, <2>3, <4>1 DEF Held
      <3> QED
        BY <2>1, <2>2, <2>3, <3>1, <3>2 DEF Held
    <2>5. CASE u # t
      <3>1. accounts'[u] = accounts[u] /\ Held(u, p)
        BY <1>3, <1>6, <2>5
      <3>2. accounts[u] # NIL => accounts[u].used \in 0..hard
        BY <1>3
      <3> QED
        BY <1>2, <2>1, <2>2, <2>3, <3>1, <3>2 DEF Held
    <2> QED
      BY <2>4, <2>5
  <1>11. ASSUME NEW u \in Tenants, NEW p \in Periods
         PROVE  Held(u, p)'
    <2>1. CASE u = t /\ p = P
      BY <1>9, <2>1
    <2>2. CASE u # t \/ p # P
      BY <1>10, <2>2
    <2> QED
      BY <2>1, <2>2
  <1> QED
    BY <1>8, <1>11

\* A line that is only looked at, by a query or a refusal, pays for itself.
LEMMA LookBalanced ==
  ASSUME IInv, ~plan.debt, replans = 0, NEW t \in Tenants
  PROVE  /\ AccountLocked(t) \in States /\ AccountLocked(t).start = Period(now)
         /\ AccountLocked(t).used \in 0..plan.hard
         /\ UNCHANGED <<live, foreign>> => Pays(t, AccountLocked(t))
  <1> DEFINE a == AccountLocked(t)
  <1>1. /\ a \in States /\ a.start = Period(now) /\ Period(now) \in Periods
        /\ a.used = IF Opens(t) THEN 0 ELSE accounts[t].used
    BY Located DEF IInv
  <1>2. plan.hard \in Nat
    BY PlansAssumption, MaxI64Fits DEF IInv, TypeOK, Plans64
  <1>3. a.used \in 0..plan.hard
    BY <1>1, <1>2 DEF IInv, Books, Opens
  <1>4. /\ live \in [Tenants -> [Periods -> Int]]
        /\ foreign \in [Tenants -> [Periods -> Nat]]
    BY DEF IInv, TypeOK
  <1>5. a.used \in Int
    BY <1>2, <1>3
  <1> HIDE DEF a
  <1>6. ASSUME UNCHANGED <<live, foreign>> PROVE Pays(t, a)
    <2>1. \A u \in Tenants, p \in Periods : live[u][p] \in Int /\ foreign[u][p] \in Nat
      BY <1>4
    <2>2. AccountLocked(t) = a
      BY DEF a
    <2> QED
      BY <1>1, <1>4, <1>5, <1>6, <2>1, <2>2 DEF Pays
  <1> QED
    BY <1>1, <1>3, <1>6 DEF a

LEMMA ChargeBalanced ==
  ASSUME UnitsFit, IInv, NEW t \in Tenants, NEW u \in Units, Charge(t, u)
  PROVE  Books'
  <1> SUFFICES ASSUME ~plan'.debt, replans' = 0
               PROVE  /\ \A v \in Tenants :
                           accounts'[v] # NIL => accounts'[v].used \in 0..plan'.hard
                      /\ \A v \in Tenants, p \in Periods : Held(v, p)'
    BY DEF Books
  <1> DEFINE a == AccountLocked(t)
             b == ApplyCharge(a, u)
  <1>1. ~plan.debt /\ replans = 0
    BY DEF Charge, Store
  <1>2. CASE Store(t, a) /\ UNCHANGED <<receipts, live, foreign>>
    BY <1>1, <1>2, LookBalanced, StoreBalanced
  <1>3. CASE /\ ~WouldExceed(a, u) /\ Store(t, b)
             /\ live' = [live EXCEPT ![t][Period(now)] = @ + u]
             /\ UNCHANGED foreign
    <2>1. /\ a \in States /\ ~a.debt /\ a.hard = plan.hard /\ a.start = Period(now)
          /\ Period(now) \in Periods
      BY <1>1, Located DEF IInv
    <2>2. a.used \in 0..a.hard
      BY <1>1, <2>1, LookBalanced
    <2>3. plan.hard + u <= MaxI64 /\ u \in Nat /\ plan.hard \in Nat
      BY PlansAssumption, InputsAssumption, MaxI64Fits DEF UnitsFit, IInv, TypeOK, Plans64
    <2>4. b \in States /\ b.start = Period(now) /\ b.used = a.used + u /\ b.used <= plan.hard
      BY <1>3, <2>1, <2>2, <2>3, ChargeLine
    <2>5. b.used \in 0..plan.hard /\ a.used \in Nat
      BY <2>1, <2>2, <2>3, <2>4
    <2>6. /\ live \in [Tenants -> [Periods -> Int]]
          /\ foreign \in [Tenants -> [Periods -> Nat]]
      BY DEF IInv, TypeOK
    <2> HIDE DEF b, a
    <2>7. \A v \in Tenants, p \in Periods :
            live'[v][p] = IF v = t /\ p = Period(now) THEN live[v][p] + u ELSE live[v][p]
      BY <1>3, <2>1, <2>6, TableAt
    <2>8. live' \in [Tenants -> [Periods -> Int]]
      <3>1. live[t][Period(now)] + u \in Int
        BY <2>1, <2>3, <2>6
      <3> QED
        BY <1>3, <2>1, <2>6, <3>1, TableEntry
    <2>9. Pays(t, b)
      <3>1. \A v \in Tenants, p \in Periods : live[v][p] \in Int /\ foreign[v][p] \in Nat
        BY <2>6
      <3>2. AccountLocked(t) = a
        BY DEF a
      <3> QED
        BY <1>3, <2>1, <2>3, <2>4, <2>5, <2>6, <2>7, <2>8, <3>1, <3>2 DEF Pays
    <2> QED
      BY <1>1, <1>3, <2>4, <2>5, <2>9, StoreBalanced
  <1> QED
    BY <1>2, <1>3 DEF Charge

LEMMA RefundBalanced ==
  ASSUME IInv, NEW id \in 1..Len(receipts), Refund(id)
  PROVE  Books'
  <1> SUFFICES ASSUME ~plan'.debt, replans' = 0
               PROVE  /\ \A v \in Tenants :
                           accounts'[v] # NIL => accounts'[v].used \in 0..plan'.hard
                      /\ \A v \in Tenants, p \in Periods : Held(v, p)'
    BY DEF Books
  <1> DEFINE r == receipts[id]
             t == r.tenant
             q == Period(r.at)
             a == AccountLocked(t)
             b == ApplyRefund(a, r.units, plan.debt)
  <1>1. ~plan.debt /\ replans = 0
    BY DEF Refund, Store
  <1>2. t \in Tenants /\ r.units \in Units /\ r.units \in Nat /\ q \in Periods
    BY ReceiptTyped DEF IInv
  <1>3. CASE Store(t, a) /\ UNCHANGED <<receipts, live, foreign>>
    BY <1>1, <1>2, <1>3, LookBalanced, StoreBalanced
  <1>4. CASE /\ Refundable(r) /\ Store(t, b)
             /\ live' = [live EXCEPT ![t][q] = IF r.refunded THEN @ ELSE @ - r.units]
             /\ foreign' = [foreign EXCEPT ![t][Period(now)] =
                              IF r.refunded \/ q = Period(now) THEN @ ELSE @ + r.units]
    <2>1. /\ a \in States /\ a.hard = plan.hard /\ a.start = Period(now)
          /\ Period(now) \in Periods
      BY <1>1, <1>2, Located DEF IInv
    <2>2. a.used \in 0..a.hard /\ plan.debt \in BOOLEAN /\ plan.hard \in Nat
      BY <1>1, <1>2, <2>1, LookBalanced, PlansAssumption, MaxI64Fits
         DEF IInv, TypeOK, Plans64
    <2>3. /\ b \in States /\ b.start = Period(now) /\ b.used \in 0..plan.hard
          /\ b.used >= a.used - r.units
      BY <1>1, <1>2, <2>1, <2>2, RefundLine
    <2>4. /\ live \in [Tenants -> [Periods -> Int]]
          /\ foreign \in [Tenants -> [Periods -> Nat]]
      BY DEF IInv, TypeOK
    <2>5. PICK x \in Nat : x = r.units
      BY <1>2
    <2>6. /\ a.used \in Nat /\ b.used \in Nat
      BY <2>1, <2>2, <2>3
    <2>7. AccountLocked(t) = a /\ ~r.refunded
      BY <1>4 DEF Refundable
    <2> HIDE DEF a, b, t, q
    <2>8. /\ live' = [live EXCEPT ![t][q] = live[t][q] - x]
          /\ foreign' = [foreign EXCEPT ![t][Period(now)] =
               IF q = Period(now) THEN foreign[t][Period(now)]
               ELSE foreign[t][Period(now)] + x]
      BY <1>4, <2>5, <2>7
    <2>9. \A v \in Tenants, p \in Periods :
            /\ live'[v][p] = IF v = t /\ p = q THEN live[t][q] - x ELSE live[v][p]
            /\ foreign'[v][p] = IF v = t /\ p = Period(now) /\ p # q
                                THEN foreign[v][p] + x ELSE foreign[v][p]
      BY SMTT(30), <1>2, <2>1, <2>4, <2>8, TableAt
    <2>10. live' \in [Tenants -> [Periods -> Int]]
      <3>1. live[t][q] - x \in Int
        BY <1>2, <2>4
      <3> QED
        BY <1>2, <2>4, <2>8, <3>1, TableEntry
    <2>11. foreign' \in [Tenants -> [Periods -> Nat]]
      <3>1. (IF q = Period(now) THEN foreign[t][Period(now)]
             ELSE foreign[t][Period(now)] + x) \in Nat
        BY <1>2, <2>1, <2>4
      <3> QED
        BY <1>2, <2>1, <2>4, <2>8, <3>1, TableEntry
    <2>12. Pays(t, b)
      <3>1. \A v \in Tenants, p \in Periods : live[v][p] \in Int /\ foreign[v][p] \in Nat
        BY <2>4
      <3>2. ASSUME NEW v \in Tenants, NEW p \in Periods, v # t \/ p # Period(now)
            PROVE  live'[v][p] - foreign'[v][p] <= live[v][p] - foreign[v][p]
        BY <2>9, <3>1, <3>2
      <3>3. live'[t][Period(now)] - foreign'[t][Period(now)] - b.used
              <= live[t][Period(now)] - foreign[t][Period(now)] - a.used
        <4>1. b.used >= a.used - x
          BY <2>3, <2>5
        <4>2. PICK w \in Periods : w = Period(now)
          BY <2>1
        <4>3. /\ live[t][w] \in Int /\ foreign[t][w] \in Nat
          BY <1>2, <3>1
        <4>4. /\ live'[t][w] = IF w = q THEN live[t][w] - x ELSE live[t][w]
              /\ foreign'[t][w] = IF w # q THEN foreign[t][w] + x ELSE foreign[t][w]
          BY <1>2, <2>9, <4>2
        <4>5. live'[t][w] - foreign'[t][w] - b.used <= live[t][w] - foreign[t][w] - a.used
          <5>1. CASE w = q
            <6>1. live'[t][w] = live[t][w] - x /\ foreign'[t][w] = foreign[t][w]
              BY <4>4, <5>1
            <6> QED
              BY SMTT(30), <2>6, <4>1, <4>3, <6>1
          <5>2. CASE w # q
            <6>1. live'[t][w] = live[t][w] /\ foreign'[t][w] = foreign[t][w] + x
              BY <4>4, <5>2
            <6>2. \A l \in Int, f, m, n \in Nat :
                    n >= m - x => l - (f + x) - n <= l - f - m
              OBVIOUS
            <6> QED
              BY <2>6, <4>1, <4>3, <6>1, <6>2
          <5> QED
            BY <5>1, <5>2
        <4> QED
          BY <4>2, <4>5
      <3> QED
        BY <2>7, <2>10, <2>11, <3>2, <3>3 DEF Pays
    <2> QED
      BY <1>1, <1>2, <1>4, <2>3, <2>12, StoreBalanced
  <1> QED
    BY <1>3, <1>4 DEF Refund

LEMMA NextBalanced ==
  ASSUME UnitsFit, IInv, [Next]_vars
  PROVE  IInv'
  <1> SUFFICES Books'
    BY NextTyped DEF IInv
  <1>1. ASSUME NEW t \in Tenants, NEW u \in Units, Charge(t, u) PROVE Books'
    BY <1>1, ChargeBalanced
  <1>2. ASSUME NEW id \in 1..Len(receipts), Refund(id) PROVE Books'
    BY <1>2, RefundBalanced
  <1>3. ASSUME NEW t \in Tenants, Peek(t) PROVE Books'
    <2> SUFFICES ASSUME ~plan'.debt, replans' = 0
                 PROVE  /\ \A v \in Tenants :
                             accounts'[v] # NIL => accounts'[v].used \in 0..plan'.hard
                        /\ \A v \in Tenants, p \in Periods : Held(v, p)'
      BY DEF Books
    <2>1. ~plan.debt /\ replans = 0 /\ Store(t, AccountLocked(t))
          /\ UNCHANGED <<live, foreign>>
      BY <1>3 DEF Peek, Store
    <2> QED
      BY <2>1, LookBalanced, StoreBalanced
  <1>4. ASSUME NEW t \in Tenants, Reset(t) PROVE Books'
    <2> SUFFICES ASSUME ~plan.debt, replans = 0
                 PROVE  /\ \A v \in Tenants :
                             accounts'[v] # NIL => accounts'[v].used \in 0..plan.hard
                        /\ \A v \in Tenants, p \in Periods : Held(v, p)'
      BY <1>4 DEF Books, Reset
    <2>1. /\ accounts \in [Tenants -> States \cup {NIL}]
          /\ visits \in [Tenants -> [Periods -> Nat]]
          /\ live \in [Tenants -> [Periods -> Int]]
          /\ foreign \in [Tenants -> [Periods -> Nat]]
          /\ plan.hard \in Nat
      BY PlansAssumption, MaxI64Fits DEF IInv, TypeOK, Plans64
    <2>2. /\ UNCHANGED <<plan, visits, live, foreign>>
          /\ \A v \in Tenants : accounts'[v] = IF v = t THEN NIL ELSE accounts[v]
      BY <1>4, <2>1 DEF Reset
    <2>3. ASSUME NEW v \in Tenants, NEW p \in Periods PROVE Held(v, p)'
      <3>1. /\ visits[v][p] \in Nat /\ live[v][p] \in Int /\ foreign[v][p] \in Nat
            /\ plan.hard * visits[v][p] \in Nat
        BY <2>1, NatProduct
      <3>2. Held(v, p) /\ (accounts[v] # NIL => accounts[v].used \in 0..plan.hard)
        BY DEF IInv, Books
      <3> QED
        BY <2>1, <2>2, <3>1, <3>2 DEF Held
    <2>4. \A v \in Tenants : accounts'[v] # NIL => accounts'[v].used \in 0..plan.hard
      BY <2>2 DEF IInv, Books
    <2> QED
      BY <2>3, <2>4
  <1>5. ASSUME NEW p \in Plans, SetPlan(p) PROVE Books'
    <2>1. replans' # 0
      BY <1>5 DEF SetPlan, IInv, TypeOK
    <2> QED
      BY <2>1 DEF Books
  <1>6. ASSUME NEW time, MoveClock(time) PROVE Books'
    BY <1>6 DEF MoveClock, IInv, Books, Held
  <1>7. CASE UNCHANGED vars
    BY <1>7 DEF vars, IInv, Books, Held
  <1> QED
    BY <1>1, <1>2, <1>3, <1>4, <1>5, <1>6, <1>7 DEF Next

LEMMA InitBalanced == Init => IInv
  <1> SUFFICES ASSUME Init PROVE Books
    BY InitTyped DEF IInv
  <1>1. plan.hard \in Nat
    BY PlansAssumption, MaxI64Fits DEF Init, Plans64
  <1>2. ASSUME NEW t \in Tenants, NEW p \in Periods PROVE Held(t, p)
    <2>1. accounts[t] = NIL /\ visits[t][p] = 0 /\ live[t][p] = 0 /\ foreign[t][p] = 0
      BY DEF Init
    <2> QED
      BY <1>1, <2>1 DEF Held
  <1> QED
    BY <1>2 DEF Init, Books

LEMMA BooksLimit == IInv => WithinHard /\ HardPerPeriod
  <1> SUFFICES ASSUME IInv, ~plan.debt, replans = 0
               PROVE  /\ \A t \in Tenants :
                           accounts[t] # NIL => accounts[t].used \in 0..plan.hard
                      /\ \A t \in Tenants, p \in Periods :
                           live[t][p] <= plan.hard * visits[t][p] + foreign[t][p]
    BY DEF WithinHard, HardPerPeriod
  <1>1. \A t \in Tenants : accounts[t] # NIL => accounts[t].used \in 0..plan.hard
    BY DEF IInv, Books
  <1>2. ASSUME NEW t \in Tenants, NEW p \in Periods
        PROVE  live[t][p] <= plan.hard * visits[t][p] + foreign[t][p]
    <2>1. plan.hard \in Nat
      BY PlansAssumption, MaxI64Fits DEF IInv, TypeOK, Plans64
    <2>2. visits[t][p] \in Nat /\ live[t][p] \in Int /\ foreign[t][p] \in Nat
      BY DEF IInv, TypeOK
    <2>3. plan.hard * visits[t][p] \in Nat
      BY <2>1, <2>2, NatProduct
    <2>4. Held(t, p) /\ (accounts[t] # NIL => accounts[t].used \in 0..plan.hard)
      BY DEF IInv, Books
    <2> QED
      BY <2>1, <2>2, <2>3, <2>4 DEF Held
  <1> QED
    BY <1>1, <1>2

\* The invariant is inductive for amounts that do not wrap a line's account.
THEOREM Inductive ==
  ASSUME UnitsFit
  PROVE  Spec => []IInv
  <1>1. IInv /\ [Next]_vars => IInv'
    BY NextBalanced
  <1> QED
    BY InitBalanced, <1>1, PTL DEF Spec

\* Without debt a tenant's use is never negative nor above the hard limit,
\* whatever is charged, refunded, reset or met by a clock that is set back.
THEOREM WithinHardHolds ==
  ASSUME UnitsFit
  PROVE  Spec => []WithinHard
  BY Inductive, BooksLimit, PTL

\* What is held of a period is bounded by the hard limit times the openings
\* of the line on it, plus what other periods' receipts freed in it.
THEOREM HardPerPeriodHolds ==
  ASSUME UnitsFit
  PROVE  Spec => []HardPerPeriod
  BY Inductive, BooksLimit, PTL

-----------------------------------------------------------------------------
(* Amounts that do not wrap.  A line is between what all charges together  *)
(* may add to it and what all refunds may take off.                        *)

\* All charges of a ledger's life, each of at most k units, on top of a hard
\* limit, fit an int64.
FitTogether(k) ==
  /\ \A u \in Units : u <= k
  /\ \A p \in Plans : p.hard + k * (MaxReceipts + 1) <= MaxI64

ChargesFit == \E k \in Nat : FitTogether(k)

PaidBack == {i \in 1..Len(receipts) : receipts[i].refunded}

InRange(k) ==
  /\ Len(receipts) <= MaxReceipts
  /\ \A t \in Tenants :
       accounts[t] # NIL =>
         accounts[t].used \in (-(k * Cardinality(PaidBack)))..(k * Len(receipts))

RInv(k) == TypeOK /\ InRange(k)

LEMMA WrapSmall ==
  ASSUME NEW x \in Int, -MaxI64 <= x, x <= MaxI64
  PROVE  Wrap(x) = x
  <1>1. MaxI64 \in Nat
    BY MaxI64Fits
  <1>2. CASE x >= 0
    <2>1. x \in 0..MaxI64
      BY <1>1, <1>2
    <2> QED
      BY <2>1, WrapFits
  <1>3. CASE x < 0
    <2>1. 0 \in 0..MaxI64 /\ -x \in 0..MaxI64 /\ 0 - (-x) = x
      BY <1>1, <1>3
    <2> QED
      BY <2>1, WrapDifference
  <1> QED
    BY <1>2, <1>3

LEMMA Counted ==
  ASSUME TypeOK
  PROVE  /\ IsFiniteSet(PaidBack) /\ Cardinality(PaidBack) \in Nat
         /\ Len(receipts) \in Nat /\ Cardinality(PaidBack) <= Len(receipts)
  <1>1. Len(receipts) \in Nat
    BY DEF TypeOK
  <1>2. IsFiniteSet(1..Len(receipts)) /\ Cardinality(1..Len(receipts)) = Len(receipts)
    <2> DEFINE n == Len(receipts)
    <2>1. /\ IsFiniteSet(1..n)
          /\ Cardinality(1..n) = IF 1 > n THEN 0 ELSE (n - 1) + 1
      BY <1>1, FS_Interval
    <2> HIDE DEF n
    <2>2. (IF 1 > n THEN 0 ELSE (n - 1) + 1) = n
      BY <1>1 DEF n
    <2> QED
      BY <2>1, <2>2 DEF n
  <1>3. PaidBack \in SUBSET (1..Len(receipts))
    BY DEF PaidBack
  <1>4. IsFiniteSet(PaidBack) /\ Cardinality(PaidBack) <= Len(receipts)
    BY <1>2, <1>3, FS_Subset
  <1> QED
    BY <1>1, <1>4, FS_CardinalityType

\* What every operation finds is far from the ends of the word.
LEMMA RangeLocated ==
  ASSUME NEW k \in Nat, FitTogether(k), RInv(k), NEW t \in Tenants
  PROVE  LET a == AccountLocked(t)
             low == k * Cardinality(PaidBack)
             high == k * Len(receipts)
         IN /\ a \in States /\ a.hard = plan.hard /\ a.debt = plan.debt
            /\ a.used \in Int /\ -low <= a.used /\ a.used <= high
            /\ low \in Nat /\ high \in Nat /\ low <= high
            /\ plan.hard \in Nat /\ plan.hard + high + k <= MaxI64
            /\ MaxI64 \in Nat
  <1> DEFINE a == AccountLocked(t)
             low == k * Cardinality(PaidBack)
             high == k * Len(receipts)
  <1>1. /\ Cardinality(PaidBack) \in Nat /\ Len(receipts) \in Nat
        /\ Cardinality(PaidBack) <= Len(receipts) /\ Len(receipts) <= MaxReceipts
    BY Counted DEF RInv, InRange
  <1>2. low \in Nat /\ high \in Nat /\ low <= high
    BY <1>1, NatProduct, ProductGrows
  <1>3. /\ a \in States /\ a.hard = plan.hard /\ a.debt = plan.debt
        /\ a.used = IF Opens(t) THEN 0 ELSE accounts[t].used
    BY Located DEF RInv
  <1>4. accounts[t] # NIL => accounts[t].used \in (-low)..high
    BY DEF RInv, InRange
  <1> HIDE DEF a, low
  <1>5. a.used \in Int /\ -low <= a.used /\ a.used <= high
    BY <1>2, <1>3, <1>4 DEF Opens
  <1>6. plan.hard \in Nat /\ MaxI64 \in Nat
    BY PlansAssumption, MaxI64Fits DEF RInv, TypeOK, Plans64
  <1>7. plan.hard + high + k <= MaxI64
    <2>1. plan.hard + k * (MaxReceipts + 1) <= MaxI64
      BY DEF FitTogether, RInv, TypeOK
    <2>2. MaxReceipts \in Nat
      BY InputsAssumption
    <2>3. k * (MaxReceipts + 1) = k * MaxReceipts + k /\ k * MaxReceipts \in Nat
      <3>1. \A x, y \in Nat : x * (y + 1) = x * y + x /\ x * y \in Nat
        OBVIOUS
      <3> QED
        BY <2>2, <3>1
    <2>4. high <= k * MaxReceipts
      BY <1>1, <2>2, ProductGrows
    <2> HIDE DEF high
    <2> QED
      BY <1>2, <1>6, <2>1, <2>3, <2>4
  <1> QED
    BY <1>2, <1>3, <1>5, <1>6, <1>7 DEF a, low

\* A charge adds, a refund takes off, and neither wraps.
LEMMA RangeCharge ==
  ASSUME NEW k \in Nat, FitTogether(k), RInv(k), NEW t \in Tenants, NEW u \in Units
  PROVE  LET a == AccountLocked(t) IN
         /\ u \in 1..k
         /\ ApplyCharge(a, u) = [a EXCEPT !.used = a.used + u]
         /\ WouldExceed(a, u) <=> ~plan.debt /\ a.used + u > a.hard
  <1> DEFINE a == AccountLocked(t)
  <1>1. u \in 1..k /\ u \in Nat
    BY InputsAssumption, MaxI64Fits DEF FitTogether
  <1>2. /\ a.used \in Int /\ -MaxI64 <= a.used + u /\ a.used + u <= MaxI64
        /\ a.debt = plan.debt
    <2>1. PICK low \in Nat, high \in Nat :
            /\ -low <= a.used /\ a.used <= high /\ low <= high
            /\ plan.hard + high + k <= MaxI64
      BY RangeLocated
    <2>2. a.used \in Int /\ plan.hard \in Nat /\ MaxI64 \in Nat /\ a.debt = plan.debt
      BY RangeLocated
    <2> HIDE DEF a
    <2> QED
      BY <1>1, <2>1, <2>2
  <1>3. Wrap(a.used + u) = a.used + u
    <2>1. a.used + u \in Int
      BY <1>1, <1>2
    <2> HIDE DEF a
    <2> QED
      BY <1>2, <2>1, WrapSmall
  <1> QED
    BY <1>1, <1>2, <1>3 DEF ApplyCharge, WouldExceed

LEMMA RangeRefund ==
  ASSUME NEW k \in Nat, FitTogether(k), RInv(k), NEW t \in Tenants, NEW u \in Units
  PROVE  LET a == AccountLocked(t) IN
         ApplyRefund(a, u, plan.debt)
           = [a EXCEPT !.used = IF ~plan.debt /\ a.used < u THEN 0 ELSE a.used - u]
  <1> DEFINE a == AccountLocked(t)
  <1>1. u \in 1..k /\ u \in Nat
    BY InputsAssumption, MaxI64Fits DEF FitTogether
  <1>2. /\ a.used \in Int /\ -MaxI64 <= a.used - u /\ a.used - u <= MaxI64
    <2>1. PICK low \in Nat, high \in Nat :
            /\ -low <= a.used /\ a.used <= high /\ low <= high
            /\ plan.hard + high + k <= MaxI64
      BY RangeLocated
    <2>2. a.used \in Int /\ plan.hard \in Nat /\ MaxI64 \in Nat
      BY RangeLocated
    <2> HIDE DEF a
    <2> QED
      BY <1>1, <2>1, <2>2
  <1> HIDE DEF a
  <1>3. Wrap(a.used - u) = a.used - u
    <2>1. a.used - u \in Int
      BY <1>1, <1>2
    <2> QED
      BY <1>2, <2>1, WrapSmall
  <1>4. a.used - u < 0 <=> a.used < u
    BY <1>1, <1>2
  <1> QED
    BY <1>3, <1>4 DEF ApplyRefund, a

LEMMA StoreInRange ==
  ASSUME NEW k \in Nat, FitTogether(k), RInv(k), NEW t \in Tenants, NEW a \in States,
         Store(t, a), NEW low \in Nat, NEW high \in Nat,
         -low <= a.used, a.used <= high,
         k * Cardinality(PaidBack) <= low, k * Len(receipts) <= high
  PROVE  \A v \in Tenants : accounts'[v] # NIL => accounts'[v].used \in (-low)..high
  <1>1. /\ accounts \in [Tenants -> States \cup {NIL}]
        /\ accounts' = [accounts EXCEPT ![t] = a] /\ a.used \in Int
    BY MaxI64Fits DEF RInv, TypeOK, Store, States, Amounts, MinI64
  <1>2. k * Cardinality(PaidBack) \in Nat /\ k * Len(receipts) \in Nat
    BY RangeLocated
  <1>3. \A v \in Tenants : accounts[v] # NIL =>
          accounts[v].used \in (-(k * Cardinality(PaidBack)))..(k * Len(receipts))
    BY DEF RInv, InRange
  <1> DEFINE l == k * Cardinality(PaidBack)
             h == k * Len(receipts)
  <1> HIDE DEF l, h
  <1>4. \A x : x \in (-l)..h => x \in (-low)..high
    BY <1>2 DEF l, h
  <1>5. ASSUME NEW v \in Tenants, accounts'[v] # NIL
        PROVE  accounts'[v].used \in (-low)..high
    <2>1. CASE v = t
      BY <1>1, <2>1
    <2>2. CASE v # t
      BY <1>1, <1>3, <1>4, <1>5, <2>2 DEF l, h
    <2> QED
      BY <2>1, <2>2
  <1> QED
    BY <1>5

LEMMA ChargeInRange ==
  ASSUME NEW k \in Nat, FitTogether(k), RInv(k),
         NEW t \in Tenants, NEW u \in Units, Charge(t, u)
  PROVE  InRange(k)'
  <1> DEFINE a == AccountLocked(t)
             b == ApplyCharge(a, u)
             l == k * Cardinality(PaidBack)
             h == k * Len(receipts)
  <1>1. /\ a \in States /\ a.used \in Int /\ -l <= a.used /\ a.used <= h
        /\ l \in Nat /\ h \in Nat
    BY RangeLocated
  <1>2. /\ receipts \in Seq(Receipts) /\ Len(receipts) \in Nat
        /\ Len(receipts) <= MaxReceipts /\ MaxReceipts \in Nat
    BY InputsAssumption DEF RInv, TypeOK, InRange
  <1>3. CASE Store(t, a) /\ receipts' = receipts
    <2>1. PaidBack' = PaidBack
      BY <1>3 DEF PaidBack
    <2>2. \A v \in Tenants : accounts'[v] # NIL => accounts'[v].used \in (-l)..h
      <3> HIDE DEF a, l, h
      <3>1. l <= l /\ h <= h
        BY <1>1
      <3> QED
        BY <1>1, <1>3, <3>1, StoreInRange DEF l, h
    <2> QED
      BY <1>2, <1>3, <2>1, <2>2 DEF InRange
  <1>4. CASE /\ Len(receipts) < MaxReceipts /\ Store(t, b)
             /\ receipts' = Append(receipts, [tenant |-> t, units |-> u, at |-> now,
                                              refunded |-> FALSE])
    <2>1. u \in 1..k /\ b = [a EXCEPT !.used = a.used + u]
      BY RangeCharge
    <2>2. b \in States
      BY <1>1, ChargeLine
    <2>3. b.used = a.used + u
      BY <1>1, <2>1 DEF States
    <2>4. /\ Len(receipts') = Len(receipts) + 1
          /\ \A i \in 1..Len(receipts) : receipts'[i] = receipts[i]
          /\ ~receipts'[Len(receipts) + 1].refunded
      BY <1>2, <1>4
    <2>5. PaidBack' = PaidBack
      BY <1>2, <2>4 DEF PaidBack
    <2> DEFINE h2 == k * (Len(receipts) + 1)
    <2>6. h2 = h + k /\ h2 \in Nat
      <3>1. \A x, y \in Nat : x * (y + 1) = x * y + x /\ x * y \in Nat
        OBVIOUS
      <3> QED
        BY <1>2, <3>1
    <2>7. \A v \in Tenants : accounts'[v] # NIL => accounts'[v].used \in (-l)..h2
      <3> HIDE DEF a, b, l, h, h2
      <3>1. -l <= b.used /\ b.used <= h2 /\ l <= l /\ h <= h2
        BY <1>1, <2>1, <2>3, <2>6
      <3> QED
        BY <1>1, <1>4, <2>2, <2>6, <3>1, StoreInRange DEF l, h
    <2> QED
      BY <1>2, <1>4, <2>4, <2>5, <2>7 DEF InRange
  <1> QED
    BY <1>3, <1>4 DEF Charge

LEMMA RefundInRange ==
  ASSUME NEW k \in Nat, FitTogether(k), RInv(k), NEW id \in 1..Len(receipts), Refund(id)
  PROVE  InRange(k)'
  <1> DEFINE r == receipts[id]
             t == r.tenant
             a == AccountLocked(t)
             b == ApplyRefund(a, r.units, plan.debt)
             l == k * Cardinality(PaidBack)
             h == k * Len(receipts)
  <1>1. t \in Tenants /\ r.units \in Units
    BY ReceiptTyped DEF RInv
  <1>2. /\ a \in States /\ a.used \in Int /\ -l <= a.used /\ a.used <= h
        /\ l \in Nat /\ h \in Nat
    BY <1>1, RangeLocated
  <1>3. receipts \in Seq(Receipts) /\ Len(receipts) \in Nat /\ Len(receipts) <= MaxReceipts
    BY DEF RInv, TypeOK, InRange
  <1>4. CASE Store(t, a) /\ receipts' = receipts
    <2>1. PaidBack' = PaidBack
      BY <1>4 DEF PaidBack
    <2>2. \A v \in Tenants : accounts'[v] # NIL => accounts'[v].used \in (-l)..h
      <3> HIDE DEF a, l, h, t
      <3>1. l <= l /\ h <= h
        BY <1>2
      <3> QED
        BY <1>1, <1>2, <1>4, <3>1, StoreInRange DEF l, h
    <2> QED
      BY <1>3, <1>4, <2>1, <2>2 DEF InRange
  <1>5. CASE /\ ~r.refunded /\ Store(t, b)
             /\ receipts' = [receipts EXCEPT ![id].refunded = TRUE]
    <2>1. r.units \in 1..k
      BY <1>1, RangeCharge
    <2>2. b \in States
      <3>1. plan.debt \in BOOLEAN
        BY PlansAssumption DEF RInv, TypeOK, Plans64
      <3> QED
        BY <1>1, <1>2, <3>1, RefundLine
    <2>3. b.used = IF ~plan.debt /\ a.used < r.units THEN 0 ELSE a.used - r.units
      <3>1. b = [a EXCEPT !.used = IF ~plan.debt /\ a.used < r.units THEN 0
                                   ELSE a.used - r.units]
        BY <1>1, RangeRefund
      <3> HIDE DEF b, a
      <3> QED
        BY <1>2, <3>1 DEF States
    <2>4. /\ Len(receipts') = Len(receipts)
          /\ \A i \in 1..Len(receipts) : i # id => receipts'[i] = receipts[i]
          /\ receipts'[id].refunded
      <3>1. r \in Receipts
        BY <1>3
      <3> QED
        BY <1>3, <1>5, <3>1 DEF Receipts
    <2>5. PaidBack' = PaidBack \cup {id} /\ id \notin PaidBack
      BY <1>3, <1>5, <2>4 DEF PaidBack
    <2>6. Cardinality(PaidBack') = Cardinality(PaidBack) + 1 /\ Cardinality(PaidBack) \in Nat
      BY <2>5, Counted, FS_AddElement DEF RInv
    <2> DEFINE l2 == k * (Cardinality(PaidBack) + 1)
    <2>7. l2 = l + k /\ l2 \in Nat
      <3>1. \A x, y \in Nat : x * (y + 1) = x * y + x /\ x * y \in Nat
        OBVIOUS
      <3> QED
        BY <2>6, <3>1
    <2>8. \A v \in Tenants : accounts'[v] # NIL => accounts'[v].used \in (-l2)..h
      <3> HIDE DEF a, b, l, h, l2, t
      <3>1. -l2 <= b.used /\ b.used <= h /\ l <= l2 /\ h <= h
        BY <1>2, <2>1, <2>3, <2>7
      <3> QED
        BY <1>1, <1>2, <1>5, <2>2, <2>7, <3>1, StoreInRange DEF l, h
    <2> QED
      BY <1>3, <2>4, <2>6, <2>8 DEF InRange
  <1> QED
    BY <1>4, <1>5 DEF Refund, Refundable

LEMMA NextInRange ==
  ASSUME NEW k \in Nat, FitTogether(k), RInv(k), [Next]_vars
  PROVE  RInv(k)'
  <1> SUFFICES InRange(k)'
    BY NextTyped DEF RInv
  <1>1. ASSUME NEW t \in Tenants, NEW u \in Units, Charge(t, u) PROVE InRange(k)'
    BY <1>1, ChargeInRange
  <1>2. ASSUME NEW id \in 1..Len(receipts), Refund(id) PROVE InRange(k)'
    BY <1>2, RefundInRange
  <1>3. ASSUME NEW t \in Tenants, Peek(t) PROVE InRange(k)'
    <2>1. Store(t, AccountLocked(t)) /\ receipts' = receipts
      BY <1>3 DEF Peek
    <2>2. PaidBack' = PaidBack
      BY <2>1 DEF PaidBack
    <2>3. PICK l, h : l = k * Cardinality(PaidBack) /\ h = k * Len(receipts)
      OBVIOUS
    <2>4. /\ AccountLocked(t) \in States /\ AccountLocked(t).used \in Int
          /\ -l <= AccountLocked(t).used /\ AccountLocked(t).used <= h
          /\ l \in Nat /\ h \in Nat /\ l <= l /\ h <= h
      BY <2>3, RangeLocated
    <2>5. \A v \in Tenants : accounts'[v] # NIL => accounts'[v].used \in (-l)..h
      BY <2>1, <2>3, <2>4, StoreInRange
    <2> QED
      BY <2>1, <2>2, <2>3, <2>5 DEF InRange, RInv
  <1>4. ASSUME NEW t \in Tenants, Reset(t) PROVE InRange(k)'
    BY <1>4 DEF Reset, RInv, TypeOK, InRange, PaidBack
  <1>5. ASSUME NEW p \in Plans, SetPlan(p) PROVE InRange(k)'
    BY <1>5 DEF SetPlan, RInv, InRange, PaidBack
  <1>6. ASSUME NEW time, MoveClock(time) PROVE InRange(k)'
    BY <1>6 DEF MoveClock, RInv, InRange, PaidBack
  <1>7. CASE UNCHANGED vars
    BY <1>7 DEF vars, RInv, InRange, PaidBack
  <1> QED
    BY <1>1, <1>2, <1>3, <1>4, <1>5, <1>6, <1>7 DEF Next

LEMMA InitInRange == ASSUME NEW k \in Nat PROVE Init => RInv(k)
  <1> SUFFICES ASSUME Init PROVE InRange(k)
    BY InitTyped DEF RInv
  <1>1. Len(receipts) = 0 /\ MaxReceipts \in Nat
    BY InputsAssumption DEF Init
  <1> QED
    BY <1>1 DEF Init, InRange

LEMMA RangeHolds ==
  ASSUME NEW k \in Nat, FitTogether(k)
  PROVE  Spec => []RInv(k)
  <1>1. RInv(k) /\ [Next]_vars => RInv(k)'
    BY NextInRange
  <1> QED
    BY InitInRange, <1>1, PTL DEF Spec

LEMMA RangeTells ==
  ASSUME NEW k \in Nat, FitTogether(k), RInv(k)
  PROVE  RemainingTells
  <1> SUFFICES ASSUME ~plan.debt, NEW t \in Tenants, NEW u \in Units
               PROVE  LET a == AccountLocked(t) IN ~WouldExceed(a, u) <=> u <= Remaining(a)
    BY DEF RemainingTells
  <1> DEFINE a == AccountLocked(t)
  <1>1. PICK low \in Nat, high \in Nat :
          /\ -low <= a.used /\ a.used <= high /\ low <= high
          /\ plan.hard + high + k <= MaxI64
    BY RangeLocated
  <1>2. /\ a.used \in Int /\ plan.hard \in Nat /\ MaxI64 \in Nat /\ a.hard = plan.hard
        /\ a.debt = plan.debt
    BY RangeLocated
  <1>3. u \in 1..k /\ (WouldExceed(a, u) <=> a.used + u > a.hard)
    BY RangeCharge
  <1> HIDE DEF a
  <1>4. Wrap(a.hard - a.used) = a.hard - a.used
    <2>1. a.hard - a.used \in Int /\ -MaxI64 <= a.hard - a.used /\ a.hard - a.used <= MaxI64
      BY <1>1, <1>2
    <2> QED
      BY <2>1, WrapSmall
  <1>5. Remaining(a) = IF a.hard - a.used < 0 THEN 0 ELSE a.hard - a.used
    BY <1>2, <1>4 DEF Remaining
  <1>6. ~WouldExceed(a, u) <=> u <= Remaining(a)
    BY <1>2, <1>3, <1>5
  <1> QED
    BY <1>6 DEF a

\* What callers are told is left (account.go:33) is what a charge may be
\* (account.go:58), after any change of plan and for a line that is in debt or
\* in credit, if what is charged in a ledger's life fits an int64.
THEOREM RemainingTellsHolds ==
  ASSUME ChargesFit
  PROVE  Spec => []RemainingTells
  <1>1. PICK k \in Nat : FitTogether(k)
    BY DEF ChargesFit
  <1>2. Spec => []RInv(k)
    BY <1>1, RangeHolds
  <1>3. RInv(k) => RemainingTells
    BY <1>1, RangeTells
  <1> QED
    BY <1>2, <1>3, PTL

\* What a step may do to the use of a tenant's line.
NoneFree(t) ==
  accounts[t] # NIL /\ accounts'[t] # NIL =>
    \/ accounts'[t].start # accounts[t].start
    \/ accounts'[t].used >= accounts[t].used
    \/ \E id \in 1..Len(receipts) :
         /\ receipts[id].tenant = t
         /\ ~receipts[id].refunded /\ receipts'[id].refunded
         /\ accounts[t].used - accounts'[t].used <= receipts[id].units

\* A line that is found again is as it was, or starts a new period.
LEMMA SameLine ==
  ASSUME TypeOK, NEW t \in Tenants, accounts[t] # NIL
  PROVE  LET a == AccountLocked(t) IN
         a.start = accounts[t].start => a.used = accounts[t].used
  BY Located DEF Opens

LEMMA StoredElsewhere ==
  ASSUME TypeOK, NEW t \in Tenants, NEW a \in States, Store(t, a)
  PROVE  /\ accounts'[t] = a
         /\ \A v \in Tenants : v # t => accounts'[v] = accounts[v]
  BY DEF TypeOK, Store

LEMMA UsedType ==
  ASSUME TypeOK, NEW t \in Tenants, accounts[t] # NIL
  PROVE  accounts[t].used \in Int
  <1>1. accounts[t] \in States
    BY DEF TypeOK
  <1> QED
    BY <1>1, MaxI64Fits DEF States, Amounts, MinI64

LEMMA StepReturns ==
  ASSUME NEW k \in Nat, FitTogether(k), RInv(k), [Next]_vars, NEW v \in Tenants
  PROVE  NoneFree(v)
  <1> SUFFICES ASSUME accounts[v] # NIL, accounts'[v] # NIL,
                      accounts'[v].start = accounts[v].start
               PROVE  \/ accounts'[v].used >= accounts[v].used
                      \/ \E id \in 1..Len(receipts) :
                           /\ receipts[id].tenant = v
                           /\ ~receipts[id].refunded /\ receipts'[id].refunded
                           /\ accounts[v].used - accounts'[v].used <= receipts[id].units
    BY DEF NoneFree
  <1>0. TypeOK /\ accounts[v].used \in Int
    BY UsedType DEF RInv
  <1>1. ASSUME accounts'[v] = accounts[v]
        PROVE  accounts'[v].used >= accounts[v].used
    BY <1>0, <1>1
  <1>2. ASSUME NEW t \in Tenants, Store(t, AccountLocked(t))
        PROVE  accounts'[v].used >= accounts[v].used
    <2>1. AccountLocked(t) \in States
      BY RangeLocated
    <2>2. CASE v # t
      BY <1>0, <1>1, <1>2, <2>1, <2>2, StoredElsewhere
    <2>3. CASE v = t
      <3>1. accounts'[v].used = accounts[v].used
        BY <1>0, <1>2, <2>1, <2>3, StoredElsewhere, SameLine
      <3> QED
        BY <1>0, <3>1
    <2> QED
      BY <2>2, <2>3
  <1>3. ASSUME NEW t \in Tenants, NEW u \in Units, Charge(t, u)
        PROVE  accounts'[v].used >= accounts[v].used
    <2> DEFINE a == AccountLocked(t)
               b == ApplyCharge(a, u)
    <2>1. a \in States /\ a.used \in Int /\ u \in 1..k
      BY RangeLocated, RangeCharge
    <2>2. b \in States /\ b.start = a.start /\ b.used = a.used + u
      <3>1. b \in States /\ b.start = a.start
        BY <2>1, ChargeLine
      <3>2. b = [a EXCEPT !.used = a.used + u]
        BY RangeCharge
      <3> HIDE DEF a, b
      <3> QED
        BY <2>1, <3>1, <3>2 DEF States
    <2>3. CASE Store(t, b) /\ v = t
      <3>1. accounts'[v] = b
        BY <1>0, <2>2, <2>3, StoredElsewhere
      <3>2. a.used = accounts[v].used
        BY <1>0, <2>2, <2>3, <3>1, SameLine
      <3> HIDE DEF a, b
      <3> QED
        BY <2>1, <2>2, <3>1, <3>2
    <2>4. CASE Store(t, b) /\ v # t
      BY <1>0, <1>1, <2>2, <2>4, StoredElsewhere
    <2>5. Store(t, a) \/ Store(t, b)
      BY <1>3 DEF Charge
    <2> QED
      BY <1>2, <2>3, <2>4, <2>5
  <1>4. ASSUME NEW id \in 1..Len(receipts), Refund(id)
        PROVE  \/ accounts'[v].used >= accounts[v].used
               \/ /\ receipts[id].tenant = v
                  /\ ~receipts[id].refunded /\ receipts'[id].refunded
                  /\ accounts[v].used - accounts'[v].used <= receipts[id].units
    <2> DEFINE r == receipts[id]
               t == r.tenant
               a == AccountLocked(t)
               b == ApplyRefund(a, r.units, plan.debt)
    <2>1. t \in Tenants /\ r.units \in Units /\ r \in Receipts
      BY <1>0, ReceiptTyped
    <2>2. a \in States /\ a.used \in Int /\ r.units \in 1..k
      BY <2>1, RangeLocated, RangeCharge
    <2>3. /\ b \in States /\ b.start = a.start
          /\ b.used = IF ~plan.debt /\ a.used < r.units THEN 0 ELSE a.used - r.units
      <3>1. plan.debt \in BOOLEAN
        BY PlansAssumption DEF RInv, TypeOK, Plans64
      <3>2. b \in States /\ b.start = a.start
        BY <2>1, <2>2, <3>1, RefundLine
      <3>3. b = [a EXCEPT !.used = IF ~plan.debt /\ a.used < r.units THEN 0
                                   ELSE a.used - r.units]
        BY <2>1, RangeRefund
      <3> HIDE DEF a, b
      <3> QED
        BY <2>2, <3>2, <3>3 DEF States
    <2>4. CASE Store(t, a)
      BY <1>2, <2>1, <2>4
    <2>5. CASE Store(t, b) /\ v # t
      BY <1>0, <1>1, <2>1, <2>3, <2>5, StoredElsewhere
    <2>6. CASE /\ Store(t, b) /\ v = t /\ ~r.refunded
               /\ receipts' = [receipts EXCEPT ![id].refunded = TRUE]
      <3>1. accounts'[v] = b
        BY <1>0, <2>1, <2>3, <2>6, StoredElsewhere
      <3>2. a.used = accounts[v].used
        BY <1>0, <2>1, <2>3, <2>6, <3>1, SameLine
      <3>3. receipts'[id].refunded
        BY <1>0, <2>1, <2>6 DEF TypeOK, Receipts
      <3> HIDE DEF a, b
      <3>4. \/ b.used >= a.used
            \/ a.used - b.used <= r.units
        BY <2>2, <2>3
      <3> QED
        BY <2>6, <3>1, <3>2, <3>3, <3>4
    <2> QED
      BY <1>4, <2>4, <2>5, <2>6 DEF Refund, Refundable
  <1>5. ASSUME NEW t \in Tenants, Peek(t)
        PROVE  accounts'[v].used >= accounts[v].used
    BY <1>2, <1>5 DEF Peek
  <1>6. ASSUME NEW t \in Tenants, Reset(t)
        PROVE  accounts'[v].used >= accounts[v].used
    <2>1. accounts'[v] = accounts[v]
      BY <1>0, <1>6 DEF Reset, TypeOK
    <2> QED
      BY <1>1, <2>1
  <1>7. ASSUME accounts' = accounts
        PROVE  accounts'[v].used >= accounts[v].used
    BY <1>1, <1>7
  <1> QED
    BY <1>3, <1>4, <1>5, <1>6, <1>7 DEF Next, SetPlan, MoveClock, vars

\* Within a period a tenant's use goes down only by the first refund of one of
\* its own receipts (ledger.go:152), and by what the receipt is worth at most.
THEOREM NoFreeQuotaHolds ==
  ASSUME ChargesFit
  PROVE  Spec => NoFreeQuota
  <1>1. PICK k \in Nat : FitTogether(k)
    BY DEF ChargesFit
  <1>2. Spec => []RInv(k)
    BY <1>1, RangeHolds
  <1>3. RInv(k) /\ [Next]_vars => [\A t \in Tenants : NoneFree(t)]_vars
    BY <1>1, StepReturns
  <1>4. Spec => [][\A t \in Tenants : NoneFree(t)]_vars
    BY <1>2, <1>3, PTL DEF Spec
  <1> QED
    BY <1>4, PTL DEF NoFreeQuota, NoneFree

-----------------------------------------------------------------------------
(* The balance of a line with the receipts of its period.                  *)

\* What a receipt holds of tenant t's period p.
Holding(t, p) ==
  [i \in 1..Len(receipts) |->
     IF receipts[i].tenant = t /\ Period(receipts[i].at) = p /\ ~receipts[i].refunded
     THEN receipts[i].units ELSE 0]

Balances(used, held, freed) ==
  IF plan.debt \/ freed = 0 THEN used = held - freed ELSE used >= held - freed

\* What is held of a period is the sum of its receipts, a period that no line
\* was on is untouched, and a line balances while it is there for the first
\* time.
TracedAt(t, p) ==
  /\ AddsUp(Holding(t, p), Len(receipts), live[t][p])
  /\ visits[t][p] = 0 =>
       /\ live[t][p] = 0 /\ foreign[t][p] = 0
       /\ accounts[t] # NIL => accounts[t].start # p
  /\ accounts[t] # NIL /\ accounts[t].start = p /\ visits[t][p] = 1 =>
       Balances(accounts[t].used, live[t][p], foreign[t][p])

Issued ==
  \A id \in 1..Len(receipts) :
    visits[receipts[id].tenant][Period(receipts[id].at)] # 0

Traced == replans = 0 => Issued /\ \A t \in Tenants, p \in Periods : TracedAt(t, p)

BInv(k) == RInv(k) /\ Traced

LEMMA StoreVisits ==
  ASSUME TypeOK, NEW t \in Tenants, NEW a \in States, Store(t, a)
  PROVE  /\ plan' = plan /\ replans' = replans /\ now' = now
         /\ accounts'[t] = a /\ accounts'[t] # NIL
         /\ \A v \in Tenants : v # t => accounts'[v] = accounts[v]
         /\ \A v \in Tenants, p \in Periods :
              visits'[v][p] = IF v = t /\ p = Period(now) /\ Opens(t)
                              THEN visits[v][p] + 1 ELSE visits[v][p]
  <1>1. Period(now) \in Periods
    BY Located
  <1>2. PICK P \in Periods : P = Period(now)
    BY <1>1
  <1>3. /\ visits \in [Tenants -> [Periods -> Nat]]
        /\ accounts \in [Tenants -> States \cup {NIL}]
    BY DEF TypeOK
  <1>4. PICK x : x = IF Opens(t) THEN visits[t][P] + 1 ELSE visits[t][P]
    OBVIOUS
  <1>5. visits' = [visits EXCEPT ![t][P] = x]
    BY <1>2, <1>4 DEF Store
  <1>6. \A v \in Tenants, p \in Periods :
          visits'[v][p] = IF v = t /\ p = P THEN x ELSE visits[v][p]
    BY <1>3, <1>5, TableAt
  <1>7. \A v \in Tenants, p \in Periods :
          visits'[v][p] = IF v = t /\ p = Period(now) /\ Opens(t)
                          THEN visits[v][p] + 1 ELSE visits[v][p]
    BY <1>2, <1>4, <1>6
  <1>8. /\ plan' = plan /\ replans' = replans /\ now' = now
        /\ accounts' = [accounts EXCEPT ![t] = a]
    BY DEF Store
  <1>9. accounts'[t] = a /\ a # NIL /\ \A v \in Tenants : v # t => accounts'[v] = accounts[v]
    BY <1>3, <1>8, LineAssumption
  <1> QED
    BY <1>7, <1>8, <1>9

\* What an operation that leaves the line a may do to what is held.
Accounts(t, a) ==
  LET P == Period(now) IN
  /\ \A v \in Tenants, p \in Periods :
       /\ v # t => live'[v][p] = live[v][p]
       /\ v # t \/ p # P => foreign'[v][p] = foreign[v][p]
       /\ p # P /\ visits[v][p] = 0 => live'[v][p] = live[v][p]
  /\ Balances(AccountLocked(t).used, live[t][P], foreign[t][P])
       => Balances(a.used, live'[t][P], foreign'[t][P])

LEMMA StoreTraced ==
  ASSUME TypeOK, Traced, replans = 0, NEW t \in Tenants, NEW a \in States,
         Store(t, a), a.start = Period(now), Accounts(t, a),
         \A v \in Tenants, p \in Periods :
           AddsUp(Holding(v, p)', Len(receipts'), live'[v][p])
  PROVE  \A v \in Tenants, p \in Periods : TracedAt(v, p)'
  <1>1. PICK P \in Periods : P = Period(now)
    BY Located
  <1>2. /\ plan' = plan /\ accounts'[t] = a /\ accounts'[t] # NIL
        /\ \A v \in Tenants : v # t => accounts'[v] = accounts[v]
        /\ \A v \in Tenants, p \in Periods :
             visits'[v][p] = IF v = t /\ p = P /\ Opens(t)
                             THEN visits[v][p] + 1 ELSE visits[v][p]
    BY <1>1, StoreVisits
  <1>3. /\ \A v \in Tenants, p \in Periods : visits[v][p] \in Nat
        /\ AccountLocked(t).used = IF Opens(t) THEN 0 ELSE accounts[t].used
    BY Located DEF TypeOK
  <1>4. \A v \in Tenants, p \in Periods : TracedAt(v, p)
    BY DEF Traced
  <1>5. /\ \A v \in Tenants, p \in Periods :
             /\ v # t => live'[v][p] = live[v][p]
             /\ v # t \/ p # P => foreign'[v][p] = foreign[v][p]
             /\ p # P /\ visits[v][p] = 0 => live'[v][p] = live[v][p]
        /\ Balances(AccountLocked(t).used, live[t][P], foreign[t][P])
             => Balances(a.used, live'[t][P], foreign'[t][P])
    BY <1>1 DEF Accounts
  <1>6. Opens(t) <=> accounts[t] = NIL \/ accounts[t].start # P
    BY <1>1 DEF Opens
  <1>7. visits'[t][P] # 0
    BY <1>2, <1>3, <1>4, <1>6 DEF TracedAt
  <1>8. ASSUME visits'[t][P] = 1
        PROVE  Balances(a.used, live'[t][P], foreign'[t][P])
    <2>1. CASE Opens(t)
      <3>1. visits[t][P] = 0
        BY <1>2, <1>3, <1>8, <2>1
      <3>2. live[t][P] = 0 /\ foreign[t][P] = 0 /\ AccountLocked(t).used = 0
        BY <1>3, <1>4, <2>1, <3>1 DEF TracedAt
      <3> QED
        BY <1>5, <3>2 DEF Balances
    <2>2. CASE ~Opens(t)
      <3>1. visits[t][P] = 1 /\ accounts[t] # NIL /\ accounts[t].start = P
            /\ AccountLocked(t).used = accounts[t].used
        BY <1>2, <1>3, <1>6, <1>8, <2>2
      <3>2. Balances(accounts[t].used, live[t][P], foreign[t][P])
        BY <1>4, <3>1 DEF TracedAt
      <3> QED
        BY <1>5, <3>1, <3>2
    <2> QED
      BY <2>1, <2>2
  <1>9. ASSUME NEW v \in Tenants, NEW p \in Periods
        PROVE  TracedAt(v, p)'
    <2>1. AddsUp(Holding(v, p)', Len(receipts'), live'[v][p])
      OBVIOUS
    <2>2. CASE v = t /\ p = P
      BY <1>1, <1>2, <1>7, <1>8, <2>1, <2>2 DEF TracedAt, Balances
    <2>3. CASE v = t /\ p # P
      BY <1>1, <1>2, <1>4, <1>5, <2>1, <2>3 DEF TracedAt
    <2>4. CASE v # t
      BY <1>2, <1>4, <1>5, <2>1, <2>4 DEF TracedAt, Balances
    <2> QED
      BY <2>2, <2>3, <2>4
  <1> QED
    BY <1>9

\* Lines are visited more, and the receipts there were keep their period.
LEMMA StoreIssued ==
  ASSUME TypeOK, Issued, NEW t \in Tenants, NEW a \in States, Store(t, a),
         \A v \in Tenants, p \in Periods : TracedAt(v, p)',
         receipts' \in Seq(Receipts),
         \A id \in 1..Len(receipts') :
           \/ /\ id \in 1..Len(receipts)
              /\ receipts'[id].tenant = receipts[id].tenant
              /\ receipts'[id].at = receipts[id].at
           \/ receipts'[id].tenant = t /\ receipts'[id].at = now,
         a.start = Period(now)
  PROVE  Issued'
  <1> SUFFICES ASSUME NEW id \in 1..Len(receipts')
               PROVE  visits'[receipts'[id].tenant][Align(receipts'[id].at, plan'.period)] # 0
    BY DEF Issued, Period
  <1>1. /\ plan' = plan /\ accounts'[t] = a /\ accounts'[t] # NIL
        /\ \A v \in Tenants, p \in Periods :
             visits'[v][p] = IF v = t /\ p = Period(now) /\ Opens(t)
                             THEN visits[v][p] + 1 ELSE visits[v][p]
    BY StoreVisits
  <1>2. \A v \in Tenants, p \in Periods : visits[v][p] \in Nat
    BY DEF TypeOK
  <1>3. CASE id \in 1..Len(receipts) /\ receipts'[id].tenant = receipts[id].tenant
             /\ receipts'[id].at = receipts[id].at
    <2>1. /\ receipts[id].tenant \in Tenants /\ Period(receipts[id].at) \in Periods
      BY <1>3, ReceiptTyped
    <2>2. visits[receipts[id].tenant][Period(receipts[id].at)] # 0
      BY <1>3 DEF Issued
    <2>3. Align(receipts'[id].at, plan'.period) = Period(receipts[id].at)
      BY <1>1, <1>3 DEF Period
    <2>4. PICK v \in Tenants, p \in Periods :
            v = receipts[id].tenant /\ p = Period(receipts[id].at)
      BY <2>1
    <2>5. visits[v][p] # 0
      BY <2>2, <2>4
    <2>6. visits'[v][p] # 0
      BY <1>1, <1>2, <2>5
    <2> QED
      BY <1>3, <2>3, <2>4, <2>6
  <1>4. CASE receipts'[id].tenant = t /\ receipts'[id].at = now
    <2>1. Align(receipts'[id].at, plan'.period) = Period(now)
      BY <1>1, <1>4 DEF Period
    <2>2. Period(now) \in Periods
      BY Located
    <2>3. visits'[t][Period(now)] # 0
      BY <1>1, <2>2 DEF TracedAt
    <2> QED
      BY <1>4, <2>1, <2>3
  <1> QED
    BY <1>3, <1>4

\* Every entry of the summands is an amount.
LEMMA HoldingAt ==
  ASSUME TypeOK, NEW t, NEW p
  PROVE  /\ Len(receipts) \in Nat
         /\ \A i \in 1..Len(receipts) :
              /\ Holding(t, p)[i] \in Nat
              /\ Holding(t, p)[i] =
                   IF receipts[i].tenant = t /\ Period(receipts[i].at) = p
                      /\ ~receipts[i].refunded
                   THEN receipts[i].units ELSE 0
  <1>1. Len(receipts) \in Nat
    BY DEF TypeOK
  <1>2. \A i \in 1..Len(receipts) : receipts[i].units \in Nat
    BY ReceiptTyped
  <1> QED
    BY <1>1, <1>2 DEF Holding

\* The same summands as long as the receipts and the plan are the same.
LEMMA HoldingSame ==
  ASSUME receipts' = receipts, plan' = plan, NEW t, NEW p
  PROVE  Holding(t, p)' = Holding(t, p)
  BY DEF Holding, Period

Sums == \A t \in Tenants, p \in Periods : AddsUp(Holding(t, p), Len(receipts), live[t][p])

\* A receipt is issued: its line's period holds that much more.
LEMMA SumsCharge ==
  ASSUME TypeOK, Sums, NEW t \in Tenants, NEW u \in Units, plan' = plan,
         receipts' = Append(receipts, [tenant |-> t, units |-> u, at |-> now,
                                       refunded |-> FALSE]),
         live' = [live EXCEPT ![t][Period(now)] = @ + u]
  PROVE  /\ Sums'
         /\ \A v \in Tenants, p \in Periods :
              live'[v][p] = IF v = t /\ p = Period(now) THEN live[v][p] + u ELSE live[v][p]
  <1>1. PICK P \in Periods : P = Period(now)
    BY Located
  <1>2. u \in Nat /\ Len(receipts) \in Nat /\ receipts \in Seq(Receipts)
    BY InputsAssumption, MaxI64Fits DEF TypeOK
  <1>3. \A v \in Tenants, p \in Periods :
          live'[v][p] = IF v = t /\ p = P THEN live[v][p] + u ELSE live[v][p]
    <2>1. PICK x : x = live[t][P] + u
      OBVIOUS
    <2>2. live' = [live EXCEPT ![t][P] = x] /\ live \in [Tenants -> [Periods -> Int]]
      BY <1>1, <2>1 DEF TypeOK
    <2> QED
      BY <2>1, <2>2, TableAt
  <1>4. /\ Len(receipts') = Len(receipts) + 1
        /\ \A i \in 1..Len(receipts) : receipts'[i] = receipts[i]
        /\ receipts'[Len(receipts) + 1].tenant = t
        /\ receipts'[Len(receipts) + 1].units = u
        /\ receipts'[Len(receipts) + 1].at = now
        /\ ~receipts'[Len(receipts) + 1].refunded
    BY <1>2
  <1>5. ASSUME NEW v \in Tenants, NEW p \in Periods
        PROVE  AddsUp(Holding(v, p)', Len(receipts'), live'[v][p])
    <2>1. PICK w, z, c : /\ w = Holding(v, p) /\ z = Holding(v, p)'
                         /\ c = IF v = t /\ p = P THEN u ELSE 0
      OBVIOUS
    <2>2. AddsUp(w, Len(receipts), live[v][p])
      BY <2>1 DEF Sums
    <2>3. z[Len(receipts) + 1] = c
      <3>1. Len(receipts) + 1 \in 1..Len(receipts')
        BY <1>2, <1>4
      <3> QED
        BY <1>1, <1>4, <2>1, <3>1 DEF Holding, Period
    <2>4. \A i \in 1..Len(receipts) : z[i] = w[i]
      <3>1. \A i \in 1..Len(receipts) : i \in 1..Len(receipts')
        BY <1>2, <1>4
      <3> QED
        BY <1>4, <2>1, <3>1 DEF Holding, Period
    <2>5. c \in Nat /\ live[v][p] \in Int
      BY <1>2, <2>1 DEF TypeOK
    <2>6. AddsUp(z, Len(receipts) + 1, live[v][p] + c)
      BY <1>2, <2>2, <2>3, <2>4, <2>5, AddsUpMore
    <2>7. live'[v][p] = live[v][p] + c
      BY <1>3, <2>1, <2>5
    <2> QED
      BY <1>4, <2>1, <2>6, <2>7
  <1> QED
    BY <1>1, <1>3, <1>5 DEF Sums

\* A receipt is paid back: its period held that much, and holds it no longer.
LEMMA SumsRefund ==
  ASSUME TypeOK, Sums, NEW id \in 1..Len(receipts), ~receipts[id].refunded, plan' = plan,
         receipts' = [receipts EXCEPT ![id].refunded = TRUE],
         live' = [live EXCEPT ![receipts[id].tenant][Period(receipts[id].at)]
                    = @ - receipts[id].units]
  PROVE  \E t \in Tenants, q \in Periods, u \in Units :
           /\ t = receipts[id].tenant /\ q = Period(receipts[id].at) /\ u = receipts[id].units
           /\ Sums' /\ u <= live[t][q] /\ live[t][q] \in Nat
           /\ \A v \in Tenants, p \in Periods :
                live'[v][p] = IF v = t /\ p = q THEN live[v][p] - u ELSE live[v][p]
  <1>0. PICK t, q, u : /\ t = receipts[id].tenant /\ u = receipts[id].units
                       /\ q = Period(receipts[id].at)
    OBVIOUS
  <1>1. /\ t \in Tenants /\ q \in Periods /\ u \in Units /\ u \in Nat
        /\ receipts[id] \in Receipts /\ Len(receipts) \in Nat /\ receipts \in Seq(Receipts)
    BY <1>0, ReceiptTyped DEF TypeOK
  <1>2. \A v \in Tenants, p \in Periods :
          live'[v][p] = IF v = t /\ p = q THEN live[v][p] - u ELSE live[v][p]
    <2>1. PICK x : x = live[t][q] - u
      OBVIOUS
    <2>2. live' = [live EXCEPT ![t][q] = x] /\ live \in [Tenants -> [Periods -> Int]]
      BY <1>0, <2>1 DEF TypeOK
    <2> QED
      BY <1>1, <2>1, <2>2, TableAt
  <1>3. /\ Len(receipts') = Len(receipts)
        /\ \A i \in 1..Len(receipts) : i # id => receipts'[i] = receipts[i]
        /\ receipts'[id].refunded /\ receipts'[id].tenant = t
        /\ receipts'[id].units = u /\ receipts'[id].at = receipts[id].at
    BY <1>0, <1>1 DEF Receipts
  <1>4. ASSUME NEW v \in Tenants, NEW p \in Periods
        PROVE  /\ AddsUp(Holding(v, p)', Len(receipts'), live'[v][p])
               /\ v = t /\ p = q => u <= live[v][p] /\ live[v][p] \in Nat
    <2>1. PICK w, z : w = Holding(v, p) /\ z = Holding(v, p)'
      OBVIOUS
    <2>2. AddsUp(w, Len(receipts), live[v][p])
      BY <2>1 DEF Sums
    <2>3. \A i \in 1..Len(receipts) : w[i] \in Nat
      BY <2>1, HoldingAt
    <2>4. \A i \in 1..Len(receipts) : i # id => z[i] = w[i]
      BY <1>3, <2>1 DEF Holding, Period
    <2>5. z[id] = 0
      BY <1>3, <2>1 DEF Holding
    <2>6. CASE v = t /\ p = q
      <3>1. w[id] = u
        BY <1>0, <2>1, <2>6 DEF Holding
      <3>2. /\ u <= live[v][p] /\ live[v][p] \in Nat
            /\ AddsUp(z, Len(receipts), live[v][p] - u)
        BY <1>1, <2>2, <2>3, <2>4, <2>5, <3>1, AddsUpLess
      <3> QED
        BY <1>2, <1>3, <2>1, <2>6, <3>2
    <2>7. CASE ~(v = t /\ p = q)
      <3>1. w[id] = 0
        BY <1>0, <2>1, <2>7 DEF Holding
      <3>2. \A i \in 1..Len(receipts) : z[i] = w[i]
        BY <2>4, <2>5, <3>1
      <3>3. AddsUp(z, Len(receipts), live[v][p])
        BY <1>1, <2>2, <3>2, AddsUpSame
      <3> QED
        BY <1>2, <1>3, <2>1, <2>7, <3>3
    <2> QED
      BY <2>6, <2>7
  <1> QED
    BY <1>0, <1>1, <1>2, <1>4 DEF Sums

\* Opened or rolled over, by a query or by a call that is refused.
LEMMA LookTraced ==
  ASSUME NEW k \in Nat, FitTogether(k), BInv(k), NEW t \in Tenants,
         Store(t, AccountLocked(t)), UNCHANGED <<receipts, live, foreign>>
  PROVE  Traced'
  <1>1. TypeOK /\ plan' = plan /\ replans' = replans /\ receipts \in Seq(Receipts)
    BY DEF BInv, RInv, TypeOK, Store
  <1> SUFFICES ASSUME replans = 0
               PROVE  Issued' /\ \A v \in Tenants, p \in Periods : TracedAt(v, p)'
    BY <1>1 DEF Traced
  <1>2. Issued /\ Sums
    BY DEF BInv, Traced, TracedAt, Sums
  <1>3. AccountLocked(t) \in States /\ AccountLocked(t).start = Period(now)
    BY <1>1, Located
  <1>4. PICK a \in States : a = AccountLocked(t)
    BY <1>3
  <1>5. Accounts(t, a)
    BY <1>4 DEF Accounts
  <1>6. \A v \in Tenants, p \in Periods : AddsUp(Holding(v, p)', Len(receipts'), live'[v][p])
    BY <1>1, <1>2, HoldingSame DEF Sums
  <1>7. \A v \in Tenants, p \in Periods : TracedAt(v, p)'
    BY <1>1, <1>3, <1>4, <1>5, <1>6, StoreTraced DEF BInv
  <1>8. Issued'
    BY <1>1, <1>2, <1>3, <1>4, <1>7, StoreIssued
  <1> QED
    BY <1>7, <1>8

LEMMA ChargeTraced ==
  ASSUME NEW k \in Nat, FitTogether(k), BInv(k),
         NEW t \in Tenants, NEW u \in Units, Charge(t, u)
  PROVE  Traced'
  <1>1. PICK a : a = AccountLocked(t)
    OBVIOUS
  <1>2. CASE Store(t, a) /\ UNCHANGED <<receipts, live, foreign>>
    BY <1>1, <1>2, LookTraced
  <1>3. CASE /\ Store(t, ApplyCharge(a, u))
             /\ receipts' = Append(receipts, [tenant |-> t, units |-> u, at |-> now,
                                              refunded |-> FALSE])
             /\ live' = [live EXCEPT ![t][Period(now)] = @ + u]
             /\ UNCHANGED foreign
    <2>1. /\ TypeOK /\ plan' = plan /\ replans' = replans
          /\ receipts \in Seq(Receipts) /\ Len(receipts) \in Nat
      BY <1>3 DEF BInv, RInv, TypeOK, Store
    <2> SUFFICES ASSUME replans = 0
                 PROVE  Issued' /\ \A v \in Tenants, p \in Periods : TracedAt(v, p)'
      BY <2>1 DEF Traced
    <2>2. Issued /\ Sums
      BY DEF BInv, Traced, TracedAt, Sums
    <2>3. a \in States /\ a.used \in Int /\ u \in Nat /\ a.start = Period(now)
          /\ Period(now) \in Periods
      BY <1>1, <2>1, RangeLocated, RangeCharge, Located DEF BInv
    <2>4. PICK b : b = ApplyCharge(a, u)
      OBVIOUS
    <2>5. b \in States /\ b.start = a.start /\ b.used = a.used + u
      <3>1. b \in States /\ b.start = a.start
        BY <2>3, <2>4, ChargeLine
      <3>2. b = [a EXCEPT !.used = a.used + u]
        BY <1>1, <2>4, RangeCharge DEF BInv
      <3> QED
        BY <2>3, <3>1, <3>2 DEF States
    <2>6. /\ Sums'
          /\ \A v \in Tenants, p \in Periods :
               live'[v][p] = IF v = t /\ p = Period(now) THEN live[v][p] + u ELSE live[v][p]
      BY <1>3, <2>1, <2>2, SumsCharge
    <2>7. Accounts(t, b)
      <3>1. PICK P \in Periods : P = Period(now)
        BY <2>3
      <3>2. live[t][P] \in Int /\ foreign[t][P] \in Nat /\ plan \in Plans
        BY <2>1 DEF TypeOK
      <3>3. live'[t][P] = live[t][P] + u /\ foreign' = foreign
        BY <1>3, <2>6, <3>1
      <3>4. Balances(a.used, live[t][P], foreign[t][P])
              => Balances(b.used, live'[t][P], foreign'[t][P])
        BY <2>3, <2>5, <3>2, <3>3 DEF Balances
      <3> QED
        BY <1>1, <1>3, <2>6, <3>1, <3>3, <3>4 DEF Accounts
    <2>8. \A v \in Tenants, p \in Periods : AddsUp(Holding(v, p)', Len(receipts'), live'[v][p])
      BY <2>6 DEF Sums
    <2>9. \A v \in Tenants, p \in Periods : TracedAt(v, p)'
      BY <1>3, <2>1, <2>3, <2>4, <2>5, <2>7, <2>8, StoreTraced DEF BInv
    <2>10. receipts' \in Seq(Receipts) /\ \A id \in 1..Len(receipts') :
             \/ /\ id \in 1..Len(receipts)
                /\ receipts'[id].tenant = receipts[id].tenant
                /\ receipts'[id].at = receipts[id].at
             \/ receipts'[id].tenant = t /\ receipts'[id].at = now
      <3>1. [tenant |-> t, units |-> u, at |-> now, refunded |-> FALSE] \in Receipts
        BY <2>1 DEF Receipts, TypeOK
      <3> QED
        BY <1>3, <2>1, <3>1
    <2>11. Issued'
      BY <1>3, <2>1, <2>2, <2>3, <2>4, <2>5, <2>9, <2>10, StoreIssued
    <2> QED
      BY <2>9, <2>11
  <1> QED
    BY <1>1, <1>2, <1>3 DEF Charge

\* A refund of the line's own period takes the same off both sides.
LEMMA OwnRefund ==
  ASSUME NEW used \in Int, NEW held \in Int, NEW freed \in Nat, NEW u \in Nat, u <= held,
         Balances(used, held, freed),
         NEW left, left = IF ~plan.debt /\ used < u THEN 0 ELSE used - u
  PROVE  Balances(left, held - u, freed)
  <1>1. CASE plan.debt
    BY <1>1 DEF Balances
  <1>2. CASE ~plan.debt /\ used < u
    <2>1. left = 0 /\ (freed = 0 => used = held) /\ used >= held - freed
      BY <1>2 DEF Balances
    <2>2. freed # 0 /\ 0 >= (held - u) - freed
      BY <1>2, <2>1
    <2> QED
      BY <1>2, <2>1, <2>2 DEF Balances
  <1>3. CASE ~plan.debt /\ ~(used < u)
    BY <1>3 DEF Balances
  <1> QED
    BY <1>1, <1>2, <1>3

\* A refund of another period's receipt is credited, and counted as freed.
LEMMA OtherRefund ==
  ASSUME NEW used \in Int, NEW held \in Int, NEW freed \in Nat, NEW u \in Nat \ {0},
         Balances(used, held, freed),
         NEW left, left = IF ~plan.debt /\ used < u THEN 0 ELSE used - u
  PROVE  Balances(left, held, freed + u)
  <1>1. CASE plan.debt
    BY <1>1 DEF Balances
  <1>2. CASE ~plan.debt
    <2>1. left >= used - u /\ left \in Int
      BY <1>2
    <2>2. used >= held - freed
      BY <1>2 DEF Balances
    <2>3. freed + u # 0 /\ left >= held - (freed + u)
      BY <2>1, <2>2
    <2> QED
      BY <1>2, <2>3 DEF Balances
  <1> QED
    BY <1>1, <1>2

LEMMA RefundTraced ==
  ASSUME NEW k \in Nat, FitTogether(k), BInv(k), NEW id \in 1..Len(receipts), Refund(id)
  PROVE  Traced'
  <1>1. PICK t, u, q : /\ t = receipts[id].tenant /\ u = receipts[id].units
                       /\ q = Period(receipts[id].at)
    OBVIOUS
  <1>2. PICK a : a = AccountLocked(t)
    OBVIOUS
  <1>3. /\ TypeOK /\ t \in Tenants /\ u \in Units /\ q \in Periods
        /\ receipts[id] \in Receipts
    BY <1>1, ReceiptTyped DEF BInv, RInv
  <1>4. CASE Store(t, a) /\ UNCHANGED <<receipts, live, foreign>>
    BY <1>2, <1>3, <1>4, LookTraced
  <1>5. CASE /\ ~receipts[id].refunded
             /\ Store(t, ApplyRefund(a, u, plan.debt))
             /\ receipts' = [receipts EXCEPT ![id].refunded = TRUE]
             /\ live' = [live EXCEPT ![t][q] = @ - u]
             /\ foreign' = [foreign EXCEPT ![t][Period(now)] =
                              IF q = Period(now) THEN @ ELSE @ + u]
    <2>1. /\ plan' = plan /\ replans' = replans
          /\ receipts \in Seq(Receipts) /\ Len(receipts) \in Nat
      BY <1>3, <1>5 DEF TypeOK, Store
    <2> SUFFICES ASSUME replans = 0
                 PROVE  Issued' /\ \A v \in Tenants, p \in Periods : TracedAt(v, p)'
      BY <2>1 DEF Traced
    <2>2. Issued /\ Sums
      BY DEF BInv, Traced, TracedAt, Sums
    <2>3. a \in States /\ a.used \in Int /\ u \in 1..k /\ u \in Nat
          /\ a.start = Period(now) /\ Period(now) \in Periods
      BY <1>2, <1>3, RangeLocated, RangeCharge, Located DEF BInv
    <2>4. PICK b : b = ApplyRefund(a, u, plan.debt)
      OBVIOUS
    <2>5. /\ b \in States /\ b.start = a.start
          /\ b.used = IF ~plan.debt /\ a.used < u THEN 0 ELSE a.used - u
      <3>1. plan.debt \in BOOLEAN
        BY <1>3, PlansAssumption DEF TypeOK, Plans64
      <3>2. b \in States /\ b.start = a.start
        BY <1>3, <2>3, <2>4, <3>1, RefundLine
      <3>3. b = [a EXCEPT !.used = IF ~plan.debt /\ a.used < u THEN 0 ELSE a.used - u]
        BY <1>2, <1>3, <2>4, RangeRefund DEF BInv
      <3> QED
        BY <2>3, <3>2, <3>3 DEF States
    <2>6. /\ Sums' /\ u <= live[t][q] /\ live[t][q] \in Nat
          /\ \A v \in Tenants, p \in Periods :
               live'[v][p] = IF v = t /\ p = q THEN live[v][p] - u ELSE live[v][p]
      <3>1. /\ TypeOK /\ ~receipts[id].refunded
            /\ receipts' = [receipts EXCEPT ![id].refunded = TRUE]
            /\ live' = [live EXCEPT ![receipts[id].tenant][Period(receipts[id].at)]
                          = @ - receipts[id].units]
        BY <1>1, <1>3, <1>5
      <3>2. plan' = plan /\ Sums
        BY <2>1, <2>2
      <3> QED
        <4>1. PICK owner \in Tenants, from \in Periods, paid \in Units :
                /\ owner = receipts[id].tenant /\ from = Period(receipts[id].at)
                /\ paid = receipts[id].units
                /\ Sums' /\ paid <= live[owner][from] /\ live[owner][from] \in Nat
                /\ \A v \in Tenants, p \in Periods :
                     live'[v][p] = IF v = owner /\ p = from THEN live[v][p] - paid ELSE live[v][p]
          BY <3>1, <3>2, SumsRefund, ZenonT(30)
        <4>2. owner = t /\ from = q /\ paid = u
          BY <1>1, <4>1
        <4> QED
          BY <4>1, <4>2
    <2>7. \A v \in Tenants, p \in Periods :
            foreign'[v][p] = IF v = t /\ p = Period(now) /\ q # Period(now)
                             THEN foreign[v][p] + u ELSE foreign[v][p]
      <3>1. PICK P \in Periods : P = Period(now)
        BY <2>3
      <3>2. PICK x : x = IF q = P THEN foreign[t][P] ELSE foreign[t][P] + u
        OBVIOUS
      <3>3. foreign' = [foreign EXCEPT ![t][P] = x] /\ foreign \in [Tenants -> [Periods -> Nat]]
        BY <1>3, <1>5, <3>1, <3>2 DEF TypeOK
      <3>4. \A v \in Tenants, p \in Periods :
              foreign'[v][p] = IF v = t /\ p = P THEN x ELSE foreign[v][p]
        BY <1>3, <3>3, TableAt
      <3> QED
        BY <3>1, <3>2, <3>4
    <2>8. Accounts(t, b)
      <3>1. PICK P \in Periods : P = Period(now)
        BY <2>3
      <3>2. live[t][P] \in Int /\ foreign[t][P] \in Nat
        BY <1>3 DEF TypeOK
      <3>3. visits[t][q] # 0
        BY <1>1, <2>2 DEF Issued
      <3>4. ASSUME q = P
            PROVE  Balances(a.used, live[t][P], foreign[t][P])
                     => Balances(b.used, live'[t][P], foreign'[t][P])
        <4>1. /\ live'[t][P] = live[t][P] - u /\ foreign'[t][P] = foreign[t][P]
              /\ u <= live[t][P]
          BY <1>3, <2>6, <2>7, <3>1, <3>4
        <4> QED
          BY <2>3, <2>5, <3>2, <4>1, OwnRefund
      <3>5. ASSUME q # P
            PROVE  Balances(a.used, live[t][P], foreign[t][P])
                     => Balances(b.used, live'[t][P], foreign'[t][P])
        <4>1. live'[t][P] = live[t][P] /\ foreign'[t][P] = foreign[t][P] + u
          BY <1>3, <2>6, <2>7, <3>1, <3>5
        <4> QED
          BY <2>3, <2>5, <3>2, <4>1, u \in Nat \ {0}, OtherRefund
      <3>6. \A v \in Tenants, p \in Periods :
              /\ v # t => live'[v][p] = live[v][p]
              /\ v # t \/ p # P => foreign'[v][p] = foreign[v][p]
              /\ p # P /\ visits[v][p] = 0 => live'[v][p] = live[v][p]
        BY <2>6, <2>7, <3>1, <3>3
      <3> QED
        BY <1>2, <3>1, <3>4, <3>5, <3>6 DEF Accounts
    <2>9. \A v \in Tenants, p \in Periods : AddsUp(Holding(v, p)', Len(receipts'), live'[v][p])
      BY <2>6 DEF Sums
    <2>10. \A v \in Tenants, p \in Periods : TracedAt(v, p)'
      BY <1>3, <1>5, <2>1, <2>3, <2>4, <2>5, <2>8, <2>9, StoreTraced DEF BInv
    <2>11. receipts' \in Seq(Receipts) /\ \A i \in 1..Len(receipts') :
             /\ i \in 1..Len(receipts)
             /\ receipts'[i].tenant = receipts[i].tenant
             /\ receipts'[i].at = receipts[i].at
      <3>1. [receipts[id] EXCEPT !.refunded = TRUE] \in Receipts
        BY <1>3 DEF Receipts
      <3> QED
        BY <1>3, <1>5, <2>1, <3>1 DEF Receipts
    <2>12. Issued'
      BY <1>3, <1>5, <2>1, <2>2, <2>3, <2>4, <2>5, <2>10, <2>11, StoreIssued
    <2> QED
      BY <2>10, <2>12
  <1> QED
    BY <1>1, <1>2, <1>4, <1>5 DEF Refund, Refundable

\* The steps that touch no line but to drop it.
LEMMA QuietTraced ==
  ASSUME Traced, UNCHANGED <<plan, receipts, visits, live, foreign, replans>>,
         \A t \in Tenants : accounts'[t] \in {NIL, accounts[t]}
  PROVE  Traced'
  <1> SUFFICES ASSUME replans = 0
               PROVE  Issued' /\ \A t \in Tenants, p \in Periods : TracedAt(t, p)'
    BY DEF Traced
  <1>1. Issued'
    BY DEF Traced, Issued, Period
  <1>2. ASSUME NEW t \in Tenants, NEW p \in Periods
        PROVE  TracedAt(t, p)'
    <2>1. TracedAt(t, p) /\ Holding(t, p)' = Holding(t, p)
      BY HoldingSame DEF Traced
    <2> QED
      BY <2>1 DEF TracedAt, Balances
  <1> QED
    BY <1>1, <1>2

LEMMA NextTraced ==
  ASSUME NEW k \in Nat, FitTogether(k), BInv(k), [Next]_vars
  PROVE  BInv(k)'
  <1> SUFFICES Traced'
    BY NextInRange DEF BInv
  <1>1. ASSUME NEW t \in Tenants, NEW u \in Units, Charge(t, u) PROVE Traced'
    BY <1>1, ChargeTraced
  <1>2. ASSUME NEW id \in 1..Len(receipts), Refund(id) PROVE Traced'
    BY <1>2, RefundTraced
  <1>3. ASSUME NEW t \in Tenants, Peek(t) PROVE Traced'
    BY <1>3, LookTraced DEF Peek
  <1>4. ASSUME NEW t \in Tenants, Reset(t) PROVE Traced'
    BY <1>4, QuietTraced DEF Reset, BInv, RInv, TypeOK
  <1>5. ASSUME NEW p \in Plans, SetPlan(p) PROVE Traced'
    BY <1>5 DEF SetPlan, BInv, RInv, TypeOK, Traced
  <1>6. ASSUME NEW time, MoveClock(time) PROVE Traced'
    BY <1>6, QuietTraced DEF MoveClock, BInv
  <1>7. CASE UNCHANGED vars
    BY <1>7, QuietTraced DEF vars, BInv
  <1> QED
    BY <1>1, <1>2, <1>3, <1>4, <1>5, <1>6, <1>7 DEF Next

LEMMA InitTraced == ASSUME NEW k \in Nat PROVE Init => BInv(k)
  <1> SUFFICES ASSUME Init PROVE Traced
    BY InitInRange DEF BInv
  <1>1. Len(receipts) = 0 /\ Issued
    BY DEF Init, Issued
  <1>2. ASSUME NEW t \in Tenants, NEW p \in Periods
        PROVE  TracedAt(t, p)
    <2>1. live[t][p] = 0 /\ foreign[t][p] = 0 /\ accounts[t] = NIL
      BY DEF Init
    <2> QED
      BY <1>1, <2>1, AddsUpNone DEF TracedAt
  <1> QED
    BY <1>1, <1>2 DEF Traced

LEMMA TracedBalance == TypeOK /\ Traced => Balance
  <1> SUFFICES ASSUME TypeOK, Traced, replans = 0, NEW t \in Tenants, accounts[t] # NIL,
                      visits[t][accounts[t].start] = 1
               PROVE  Balances(accounts[t].used, live[t][accounts[t].start],
                               foreign[t][accounts[t].start])
    BY DEF Balance, Balances
  <1>1. accounts[t].start \in Periods
    BY DEF TypeOK
  <1> QED
    BY <1>1 DEF Traced, TracedAt

\* The books balance: while a line is on its period for the first time, what
\* it says is used (account.go:65) is what the receipts of the period that
\* were not refunded add up to, less what refunds of other periods' receipts
\* freed (ledger.go:157); without debt, where those stop at zero
\* (account.go:76), it is no less.
THEOREM BalanceHolds ==
  ASSUME ChargesFit
  PROVE  Spec => []Balance
  <1>1. PICK k \in Nat : FitTogether(k)
    BY DEF ChargesFit
  <1>2. BInv(k) /\ [Next]_vars => BInv(k)'
    BY <1>1, NextTraced
  <1>3. Init => BInv(k)
    BY InitTraced
  <1>4. BInv(k) => Balance
    BY TracedBalance DEF BInv, RInv
  <1> QED
    BY <1>2, <1>3, <1>4, PTL DEF Spec
=============================================================================
