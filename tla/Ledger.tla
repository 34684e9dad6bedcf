------------------------------- MODULE Ledger -------------------------------
(***************************************************************************)
(* internal/ledger/ledger.go: the quota ledger of one policy.  Its mutex   *)
(* makes every operation one step, clock reading included.                 *)
(***************************************************************************)
EXTENDS Account, Sequences

CONSTANTS
  Tenants, NIL,  \* NIL: a tenant without a line
  Plans,         \* the plans to try: one at first, any of them by SetPlan
  Units,         \* amounts a tenant is charged
  Steps,         \* amounts by which the clock moves
  MinTime, MaxTime,  \* bounds of the clock
  MaxReceipts,   \* bound: charges let through
  MaxOpenings,   \* bound: lines opened or rolled over
  MaxReplans     \* bound: changes of plan

ASSUME PlansAssumption == Plans \subseteq Plans64

ASSUME InputsAssumption ==
  /\ Units \subseteq 1..MaxI64
  /\ Steps \subseteq Nat \ {0}
  /\ MaxTime \in Nat /\ MinTime \in 0..MaxTime
  /\ MaxReceipts \in Nat /\ MaxOpenings \in Nat /\ MaxReplans \in Nat

ASSUME LineAssumption == NIL \notin States

VARIABLES
  plan,
  accounts,   \* a tenant's line, or NIL
  receipts,   \* the receipts by ID; their number is nextID, none is ever dropped
  now,        \* the clock
  \* History, read by the properties and by no action but to bound the run:
  opened,     \* lines opened or rolled over
  visits,     \* the same, by tenant and period
  live,       \* units charged in a period and not refunded since
  foreign,    \* units refunded in a period that were charged in another
  replans     \* changes of plan

vars == <<plan, accounts, receipts, now, opened, visits, live, foreign, replans>>

Times == MinTime..MaxTime

Periods == 0..MaxTime    \* a period is known by its start

Receipts == [tenant: Tenants, units: Units, at: Times, refunded: BOOLEAN]

-----------------------------------------------------------------------------

Init ==
  /\ plan \in Plans
  /\ accounts = [t \in Tenants |-> NIL]
  /\ receipts = <<>>
  /\ now \in Times
  /\ opened = 0
  /\ visits = [t \in Tenants |-> [p \in Periods |-> 0]]
  /\ live = [t \in Tenants |-> [p \in Periods |-> 0]]
  /\ foreign = [t \in Tenants |-> [p \in Periods |-> 0]]
  /\ replans = 0

\* accountLocked: the tenant's line, opened, rolled over and refreshed.
AccountLocked(t) ==
  IF accounts[t] = NIL THEN Open(plan, now) ELSE Refresh(accounts[t], plan, now)

Period(time) == Align(time, plan.period)

Opens(t) == accounts[t] = NIL \/ accounts[t].start # Period(now)

\* What every use of the tenant's line leaves behind: the line a, counted as
\* opened if it was.
Store(t, a) ==
  /\ Opens(t) => opened < MaxOpenings
  /\ accounts' = [accounts EXCEPT ![t] = a]
  /\ opened' = IF Opens(t) THEN opened + 1 ELSE opened
  /\ visits' = [visits EXCEPT ![t][Period(now)] = IF Opens(t) THEN @ + 1 ELSE @]
  /\ UNCHANGED <<plan, now, replans>>

\* A refused charge still opens or rolls over the line.
Charge(t, units) ==
  LET a == AccountLocked(t) IN
  \/ /\ WouldExceed(a, units)
     /\ Store(t, a)
     /\ UNCHANGED <<receipts, live, foreign>>
  \/ /\ ~WouldExceed(a, units)
     /\ Len(receipts) < MaxReceipts
     /\ Store(t, ApplyCharge(a, units))
     /\ receipts' = Append(receipts, [tenant |-> t, units |-> units, at |-> now,
                                      refunded |-> FALSE])
     /\ live' = [live EXCEPT ![t][Period(now)] = @ + units]
     /\ UNCHANGED foreign

\* Mutant of Refundable: a receipt is good for any number of refunds.
RefundableAgain(r) == TRUE

Refundable(r) == ~r.refunded

\* Refund of a known receipt shown by its tenant; any other is refused before
\* the ledger is touched.  The credit goes to the tenant's current line,
\* whichever period the receipt is from, or to a new line after a Reset.
Refund(id) ==
  LET r == receipts[id]
      t == r.tenant
      a == AccountLocked(t)
  IN \/ /\ ~Refundable(r)
        /\ Store(t, a)
        /\ UNCHANGED <<receipts, live, foreign>>
     \/ /\ Refundable(r)
        /\ Store(t, ApplyRefund(a, r.units, plan.debt))
        /\ receipts' = [receipts EXCEPT ![id].refunded = TRUE]
        /\ live' = [live EXCEPT ![t][Period(r.at)] = IF r.refunded THEN @ ELSE @ - r.units]
        /\ foreign' = [foreign EXCEPT ![t][Period(now)] =
                         IF r.refunded \/ Period(r.at) = Period(now) THEN @ ELSE @ + r.units]

\* Peek copies the line, after opening or rolling it over like the others.
Peek(t) ==
  /\ Store(t, AccountLocked(t))
  /\ UNCHANGED <<receipts, live, foreign>>

Reset(t) ==
  /\ accounts' = [accounts EXCEPT ![t] = NIL]
  /\ UNCHANGED <<plan, receipts, now, opened, visits, live, foreign, replans>>

SetPlan(p) ==
  /\ replans < MaxReplans
  /\ plan' = p
  /\ replans' = replans + 1
  /\ UNCHANGED <<accounts, receipts, now, opened, visits, live, foreign>>

\* The clock runs, or is set back.
MoveClock(time) ==
  /\ time \in Times
  /\ now' = time
  /\ UNCHANGED <<plan, accounts, receipts, opened, visits, live, foreign, replans>>

Next ==
  \/ \E t \in Tenants, u \in Units : Charge(t, u)
  \/ \E id \in 1..Len(receipts) : Refund(id)
  \/ \E t \in Tenants : Peek(t)
  \/ \E t \in Tenants : Reset(t)
  \/ \E p \in Plans : SetPlan(p)
  \/ \E d \in Steps : MoveClock(now + d)
  \/ \E d \in Steps : MoveClock(now - d)

Spec == Init /\ [][Next]_vars

-----------------------------------------------------------------------------

\* Type correctness: amounts stay within their words, lines start where a
\* period of the plan does, and every receipt is of a charge that was made.
TypeOK ==
  /\ plan \in Plans
  /\ accounts \in [Tenants -> States \cup {NIL}]
  /\ receipts \in Seq(Receipts)
  /\ now \in Times
  /\ opened \in Nat
  /\ visits \in [Tenants -> [Periods -> Nat]]
  /\ live \in [Tenants -> [Periods -> Int]]
  /\ foreign \in [Tenants -> [Periods -> Nat]]
  /\ replans \in Nat
  /\ \A t \in Tenants :
       accounts[t] # NIL =>
         /\ accounts[t].start \in Periods
         /\ replans = 0 => accounts[t].start % plan.period = 0

\* Without debt what is used is neither negative (ledger.go:30) nor above the
\* hard limit (types.go:39), whatever is charged, refunded, reset, carried
\* over a period or met by a clock that is set back.
WithinHard ==
  ~plan.debt /\ replans = 0 =>
    \A t \in Tenants : accounts[t] # NIL => accounts[t].used \in 0..plan.hard

\* The hard limit is a limit per period.  What a tenant holds of a period,
\* charged in it and not refunded, exceeds the limit only by what refunds of
\* other periods' receipts freed in it (ledger.go:157), and by one more limit
\* for each time its line was opened on that period again: by a Reset, or by
\* a clock that went back over the boundary (ledger.go:87).
HardPerPeriod ==
  ~plan.debt /\ replans = 0 =>
    \A t \in Tenants, p \in Periods :
      live[t][p] <= plan.hard * visits[t][p] + foreign[t][p]

\* While a line is on its period for the first time the books balance: what
\* it says is used is what is held of the period less the refunds of other
\* periods' receipts.  Without debt those stop at zero (account.go:76), so
\* that they never make up for a later charge.
Balance ==
  replans = 0 =>
    \A t \in Tenants :
      LET a == accounts[t]
          held == live[t][a.start]
          freed == foreign[t][a.start]
      IN a # NIL /\ visits[t][a.start] = 1 =>
           IF plan.debt \/ freed = 0 THEN a.used = held - freed
           ELSE a.used >= held - freed

\* Remaining (account.go:33), which callers are told, and WouldExceed
\* (account.go:58), which decides, agree, also after a change of plan.
RemainingTells ==
  ~plan.debt =>
    \A t \in Tenants, u \in Units :
      LET a == AccountLocked(t) IN ~WouldExceed(a, u) <=> u <= Remaining(a)

\* Within a period quota comes back only through the first refund of one of
\* the tenant's own receipts, and no more than the receipt is worth: not
\* through a second refund, a refusal or a query.
NoFreeQuota ==
  [][\A t \in Tenants :
       accounts[t] # NIL /\ accounts'[t] # NIL =>
         \/ accounts'[t].start # accounts[t].start
         \/ accounts'[t].used >= accounts[t].used
         \/ \E id \in 1..Len(receipts) :
              /\ receipts[id].tenant = t
              /\ ~receipts[id].refunded /\ receipts'[id].refunded
              /\ accounts[t].used - accounts'[t].used <= receipts[id].units]_vars

\* "By default Used may not become negative" (ledger.go:30), for every amount
\* a caller may charge.
UsedNeverNegative ==
  ~plan.debt /\ replans = 0 =>
    \A t \in Tenants : accounts[t] # NIL => accounts[t].used >= 0

=============================================================================
