------------------------------ MODULE MCLedger ------------------------------
(***************************************************************************)
(* Plans for TLC to run Ledger with: three ticks a period.                   *)
(***************************************************************************)
EXTENDS Ledger, FiniteSets, TLC

Plan(hard, debt) == [period |-> 3, soft |-> 1, hard |-> hard, debt |-> debt]

\* A hard limit, and a lower one in debt mode.
SmallPlans == {Plan(2, FALSE), Plan(1, TRUE)}

OnePlan == {Plan(2, FALSE)}

SmallUnits == {1, 2}

\* A caller may charge as much as an int64 holds.
WideUnits == {1, MaxI64}

Symmetry == Permutations(Tenants)

=============================================================================
