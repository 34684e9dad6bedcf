----------------------------- MODULE Composite -----------------------------
(***************************************************************************)
(* internal/composite: keys and patterns of three dimensions, and the      *)
(* patterns a policy is looked up under.  Both are <<tenant, route, ip>>;  *)
(* the strings that encode them, and what of a string becomes a key, are   *)
(* in KeyText.                                                             *)
(***************************************************************************)
EXTENDS Naturals, Sequences, FiniteSets

Wildcard == "*"

Missing == ""

Dims == 1..3    \* tenant, route, ip

Concrete(k, d) == k[d] \notin {Missing, Wildcard}

Norm(v) == IF v = Missing THEN Wildcard ELSE v

Specificity(k) == Cardinality({d \in Dims : Concrete(k, d)})

\* The key cut to its first n dimensions.
Level(k, n) == [d \in Dims |-> IF d <= n THEN Norm(k[d]) ELSE Wildcard]

\* Mutant of FallbackChain: the route comes before the tenant.
FallbackChainByRoute(k) ==
  <<Level(k, 3), Level(k, 2), <<Wildcard, Norm(k[2]), Wildcard>>, Level(k, 0)>>

\* A level whose last dimension is missing is the next one again, and dropped.
Levels(k) ==
  LET at(n) == IF Concrete(k, n) THEN <<n>> ELSE <<>>
  IN at(3) \o at(2) \o at(1) \o <<0>>

FallbackChain(k) == [i \in 1..Len(Levels(k)) |-> Level(k, Levels(k)[i])]

MatchPattern(k, p) == \A d \in Dims : ~Concrete(p, d) \/ k[d] = p[d]

\* More dimensions are given, or as many and an earlier one.
MoreSpecific(a, b) ==
  \/ Specificity(a) > Specificity(b)
  \/ /\ Specificity(a) = Specificity(b)
     /\ \E d \in Dims :
          /\ Concrete(a, d) /\ ~Concrete(b, d)
          /\ \A c \in 1..(d - 1) : Concrete(a, c) <=> Concrete(b, c)

=============================================================================
