------------------------------ MODULE MCQuota ------------------------------
(***************************************************************************)
(* Tables and texts for TLC to run Quota with.                              *)
(***************************************************************************)
EXTENDS Quota, TLC

Plan(hard) == [period |-> 3, soft |-> 1, hard |-> hard, debt |-> FALSE]

\* A policy that bills, and one that only limits.
Billed(name, hard) == [NewPolicy(name) EXCEPT !.quota = Plan(hard)]

Limited(name) == [NewPolicy(name) EXCEPT !.rate = [num |-> 2, den |-> 2, burst |-> 1]]

\* Two policies to bill, one of them in two versions, and one that only limits.
SomeSpecs == {Limited("default"), Billed("gold", 2), Billed("gold", 1), Billed("free", 1)}

To(pattern, policy) == [pattern |-> pattern, policy |-> policy]

\* A tenant bound to one policy or the other, a pattern for each other level of
\* a chain, one that leaves the tenant out, and one with an empty dimension.
SomeBindings ==
  {To(<<"acme", "*", "*">>, "gold"), To(<<"acme", "*", "*">>, "free"),
   To(<<"acme", "/pay", "*">>, "gold"), To(<<"*", "/pay", "*">>, "free"),
   To(<<"*", "*", "*">>, "gold"), To(<<"acme", "/pay", "">>, "free")}

\* Every dimension given or missing in turn, and what a tenant is billed by.
SomeKeys ==
  {<<"acme", "/pay", "10.0.0.1">>, <<"acme", "/pay", "">>, <<"acme", "", "10.0.0.1">>,
   <<"acme", "", "">>, <<"", "/pay", "10.0.0.1">>, <<"*", "", "">>,
   <<"beta", "", "">>}

-----------------------------------------------------------------------------
(* Texts.                                                                  *)

Line(kw, args) == [kw |-> kw, args |-> args]

Word(w) == [kind |-> "word", val |-> w]

Number(n) == [kind |-> "int", val |-> n]

Duration(d) == [kind |-> "dur", val |-> d]

PerSecond(count) == [kind |-> "rate", count |-> count, period |-> Second]

Policy(name) == Line("policy", <<Word(name)>>)

BindLine(pattern, policy) == Line("bind", <<Word(pattern), Word(policy)>>)

BilledLines(name, hard) ==
  <<Policy(name), Line("period", <<Duration(3)>>), Line("soft", <<Number(1)>>),
    Line("hard", <<Number(hard)>>)>>

\* One text binds a policy it does not define, and both define gold.
SomeTexts ==
  {<<Policy("default"), Line("burst", <<Number(1)>>), Line("rate", <<PerSecond(1)>>)>>
     \o BilledLines("gold", 2)
     \o <<BindLine(<<"acme", "*", "*">>, "gold"), BindLine(<<"*", "/pay", "*">>, "free")>>,
   <<BindLine(<<"acme", "*", "*">>, "free")>>
     \o BilledLines("gold", 1)
     \o <<BindLine(<<"*", "*", "*">>, "gold")>> \o BilledLines("free", 1)}

\* Lines to make texts of, right and wrong.
DraftLines ==
  {Policy("a"), Line("policy", <<>>), BindLine("x", "a"), Line("bind", <<Word("x")>>),
   Line("", <<>>), Line("nonsense", <<>>),
   Line("algo", <<Word("leaky")>>), Line("algorithm", <<Word("sliding-log")>>),
   Line("algo", <<Word("none")>>),
   Line("rate", <<PerSecond(2)>>), Line("rate", <<[PerSecond(1) EXCEPT !.period = -1]>>),
   Line("rate", <<[PerSecond(1) EXCEPT !.period = 0]>>),
   Line("burst", <<Number(2)>>), Line("burst", <<Number(0)>>), Line("burst", <<>>),
   Line("window", <<Number(3)>>), Line("window", <<Number(9)>>),
   Line("window", <<Number(99)>>), Line("limit", <<Number(2)>>),
   Line("buckets", <<Number(-1)>>), Line("hard", <<Number(99)>>), Line("debt", <<>>)}

\* Alone, and after the lines of a policy with a limit or a quota.
Drafts ==
  {before \o after :
     before \in {<<>>, <<Policy("b"), Line("rate", <<PerSecond(1)>>), Line("burst", <<Number(1)>>)>>,
                BilledLines("c", 2)},
     after \in UNION {[1..n -> DraftLines] : n \in 0..3}}

KT == INSTANCE KeyText

-----------------------------------------------------------------------------

\* The table before the first call, so that what does not depend on the table
\* is checked once.
Untouched == writes = 0 /\ loading = [g \in Goroutines |-> NIL]

\* A text is read line by line (parse.go:42) as it reads as a whole: a policy
\* has what the lines up to the next one say, the last to set a field deciding,
\* bindings in between change nothing, a text that is wrong in one line, or
\* asks for an invalid policy, yields nothing at all, and no other is refused.
ParsesAsWritten ==
  Untouched => \A x \in Drafts : ParseText(x) = Says(x)

\* The strings of keys keep them apart (key.go:85): see ApartOver.
KeysApart ==
  Untouched => KT!ApartOver(UNION {[1..n -> {"a", "_", "|"}] : n \in 0..5})

\* For the counterexample: two billed policies and the pattern of one tenant.
TwoSpecs == {Billed("gold", 2), Billed("free", 1)}

TenantBindings ==
  {To(<<"acme", "*", "*">>, "gold"), To(<<"acme", "*", "*">>, "free")}

NoTexts == {}

Symmetry == Permutations(Goroutines)

=============================================================================
