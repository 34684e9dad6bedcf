------------------------------ MODULE Account ------------------------------
(***************************************************************************)
(* internal/ledger/account.go and the alignment of internal/clock: a       *)
(* tenant's line in the ledger.  A plan is [period, soft, hard, debt];     *)
(* amounts are int64 and wrap.                                             *)
(***************************************************************************)
EXTENDS Arith

MinI64 == -MaxI64 - 1

Amounts == MinI64..MaxI64

Plans64 == [period: Nat \ {0}, soft: 0..MaxI64, hard: 0..MaxI64, debt: BOOLEAN]

States == [start: Int, used: Amounts, soft: 0..MaxI64, hard: 0..MaxI64, debt: BOOLEAN]

Wrap(x) == I64(U64(x))

\* Mutant of Align: the period starts when it is first used.
AlignNot(now, period) == now

\* The start of the period now is in, counted from the Unix epoch.
Align(now, period) ==
  LET rem == GoRem(now, period)
  IN now - rem - (IF now < 0 /\ rem # 0 THEN period ELSE 0)

Open(plan, now) ==
  [start |-> Align(now, plan.period), used |-> 0,
   soft |-> plan.soft, hard |-> plan.hard, debt |-> plan.debt]

\* A line found again: the plan is copied into it, and a start that is not
\* the one of the current period, earlier or later, wipes what was used.
Refresh(a, plan, now) ==
  LET fresh == Open(plan, now)
  IN IF a.start = fresh.start THEN [fresh EXCEPT !.used = a.used] ELSE fresh

Remaining(a) ==
  LET left == Wrap(a.hard - a.used)
  IN IF left < 0 /\ ~a.debt THEN 0 ELSE left

Debt(a) == IF a.used <= a.hard THEN 0 ELSE Wrap(a.used - a.hard)

\* Mutant of WouldExceed: the units asked for are left out.
WouldExceedAfter(a, units) == ~a.debt /\ (units <= 0 \/ a.used > a.hard)

\* Mutant of WouldExceed: off by one.
WouldExceedAtLimit(a, units) == ~a.debt /\ (units <= 0 \/ Wrap(a.used + units) >= a.hard)

WouldExceed(a, units) == ~a.debt /\ (units <= 0 \/ Wrap(a.used + units) > a.hard)

ApplyCharge(a, units) == [a EXCEPT !.used = Wrap(@ + units)]

\* Mutant of ApplyRefund: a debtor's line is kept from going below zero too.
ApplyRefundClamped(a, units, debt) ==
  [a EXCEPT !.used = MaxI(Wrap(@ - units), 0)]

ApplyRefund(a, units, debt) ==
  LET left == Wrap(a.used - units)
  IN [a EXCEPT !.used = IF ~debt /\ left < 0 THEN 0 ELSE left]

=============================================================================
