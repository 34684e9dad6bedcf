----------------------------- MODULE PolicySpec -----------------------------
(***************************************************************************)
(* internal/policy/spec.go: policies, and what makes one valid.  The       *)
(* limiter looks at algo, rate and window only, the table and the ledgers  *)
(* at name and quota as well.                                              *)
(***************************************************************************)
EXTENDS Integers

CONSTANT NIL    \* the nil pointer

Algorithms == {"tokenbucket", "gcra", "slidinglog", "slidingcounter"}

\* PerSecond = num/den tokens per second.
Rates == [num: Nat, den: Nat \ {0}, burst: Nat]

Windows == [size: Nat, limit: Nat, buckets: Nat]

\* algo = "" leaves the algorithm to be inferred.
SpecRecords == [algo: Algorithms \cup {""},
                rate: Rates \cup {NIL}, window: Windows \cup {NIL}]

InferAlgo(s) ==
  IF s.algo # "" THEN s.algo
  ELSE IF s.rate # NIL THEN "tokenbucket"
  ELSE IF s.window # NIL THEN "slidinglog"
  ELSE ""

\* What Validate asks of the limits of a policy.
Validate(s) ==
  /\ s.rate # NIL => s.rate.num > 0 /\ s.rate.burst >= 1
  /\ s.window # NIL => s.window.size > 0 /\ s.window.limit >= 1 /\ s.window.buckets >= 0
  /\ InferAlgo(s) \in Algorithms \cup {""}
  /\ InferAlgo(s) = "gcra" => s.rate # NIL
  /\ InferAlgo(s) \in {"slidinglog", "slidingcounter"} => s.window # NIL

HasLimiter(s) == s.rate # NIL \/ s.window # NIL

ValidQuota(q) == q.period > 0 /\ q.hard >= 0 /\ q.soft >= 0

\* All that Validate asks of a named policy.
ValidPolicy(s) ==
  /\ s.name # ""
  /\ HasLimiter(s) \/ s.quota # NIL
  /\ Validate(s)
  /\ s.quota # NIL => ValidQuota(s.quota)

=============================================================================
