---------------------------- MODULE PolicyTable ----------------------------
(***************************************************************************)
(* internal/policy/table.go: the named policies, and the patterns bound to *)
(* them.  Register, Bind and Resolve are one step under the table's lock;  *)
(* LoadText takes the lock anew for each line, and others come between.    *)
(* A policy that does not validate is refused before the table is touched, *)
(* and so is a text that does not parse (PolicyText).                      *)
(***************************************************************************)
EXTENDS Composite, PolicyText

CONSTANTS
  Names,
  DefaultName,   \* WithDefaultPolicy
  Specs,         \* policies a caller may register
  Bindings,      \* [pattern, policy]: bindings a caller may make
  Keys,          \* keys the table is asked about
  Texts,         \* policy texts that may be loaded
  Goroutines,
  MaxWrites      \* bound: calls that change the table

Patterns == {b.pattern : b \in Bindings}

Parsed == [x \in Texts |-> ParseText(x)]

\* Policies a caller or a text may register.
Policies ==
  Specs \cup UNION {Range(Parsed[x].specs) : x \in {y \in Texts : Parsed[y] # NIL}}

ASSUME TableAssumption ==
  /\ DefaultName \in Names
  /\ NIL \notin Names /\ NIL \notin Policies
  /\ \A s \in Policies : s.name \in Names /\ ValidPolicy(s)
  /\ \A b \in Bindings : b.policy \in Names
  /\ \A t \in Keys \cup Patterns : t = [d \in Dims |-> t[d]]
  /\ \A x \in Texts : Parsed[x] # NIL =>
       Parsed[x].specs \in Seq(Policies) /\ Parsed[x].binds \in Seq(Bindings)
  /\ MaxWrites \in Nat

VARIABLES
  specs,     \* the policy of a name, or NIL
  byPat,     \* the name bound to a pattern, or NIL
  binds,     \* the bindings as listed
  loading,   \* what a goroutine has still to load: [text, specs, binds], or NIL
  \* History:
  loaded,    \* what the texts say whose load returned no error
  writes

tableVars == <<specs, byPat, binds, loading, loaded, writes>>

TableInit ==
  /\ specs = [n \in Names |-> NIL]
  /\ byPat = [p \in Patterns |-> NIL]
  /\ binds = <<>>
  /\ loading = [g \in Goroutines |-> NIL]
  /\ loaded = {}
  /\ writes = 0

-----------------------------------------------------------------------------

Chain == [k \in Keys |-> FallbackChain(k)]

Hits(p) ==
  /\ p \in Patterns    \* no other can be bound
  /\ byPat[p] # NIL /\ specs[byPat[p]] # NIL

\* Resolve: the policy of the first pattern of the key's chain that has one,
\* or else the default policy, which passes for bound to everything.
Resolve(k) ==
  LET chain == Chain[k]
      hit == SelectInSeq(chain, Hits)
      name == IF hit > 0 THEN byPat[chain[hit]] ELSE DefaultName
  IN IF specs[name] = NIL THEN [ok |-> FALSE]
     ELSE [ok |-> TRUE, spec |-> specs[name],
           pattern |-> IF hit > 0 THEN chain[hit] ELSE Level(k, 0)]

\* Mutant of Registrable: the last one wins.
RegistrableAgain(s) == TRUE

Registrable(s) == specs[s.name] = NIL

AddSpec(s) == specs' = [specs EXCEPT ![s.name] = s]

\* Mutant of Bindable: the policy may come later.
BindableAhead(b) == TRUE

Bindable(b) == specs[b.policy] # NIL

\* Mutant of AddBinding: the list is not searched.
AddBindingTwice(b) ==
  /\ byPat' = [byPat EXCEPT ![b.pattern] = b.policy]
  /\ binds' = Append(binds, b)

\* A pattern bound before is bound anew, in its old place in the list.
AddBinding(b) ==
  LET old == SelectInSeq(binds, LAMBDA x : x.pattern = b.pattern)
  IN /\ byPat' = [byPat EXCEPT ![b.pattern] = b.policy]
     /\ binds' = IF old = 0 THEN Append(binds, b) ELSE ReplaceAt(binds, old, b)

\* The refused calls of Register and Bind change nothing.
Write == writes < MaxWrites /\ writes' = writes + 1

Register(s) ==
  /\ Write
  /\ Registrable(s)
  /\ AddSpec(s)
  /\ UNCHANGED <<byPat, binds, loading, loaded>>

Bind(b) ==
  /\ Write
  /\ Bindable(b)
  /\ AddBinding(b)
  /\ UNCHANGED <<specs, loading, loaded>>

-----------------------------------------------------------------------------

Goes(g, rest) == loading' = [loading EXCEPT ![g] = rest]

\* LoadText, once the text is parsed: all policies first, then all bindings.
LoadText(g, x) ==
  /\ Write
  /\ loading[g] = NIL
  /\ Parsed[x] # NIL
  /\ Goes(g, [text |-> x, specs |-> Parsed[x].specs, binds |-> Parsed[x].binds])
  /\ UNCHANGED <<specs, byPat, binds, loaded>>

\* The first line refused ends the load with an error, and what it did stays.
LoadSpec(g) ==
  LET l == loading[g] IN
  /\ l # NIL /\ l.specs # <<>>
  /\ \/ /\ Registrable(Head(l.specs))
        /\ AddSpec(Head(l.specs))
        /\ Goes(g, [l EXCEPT !.specs = Tail(@)])
     \/ /\ ~Registrable(Head(l.specs))
        /\ Goes(g, NIL)
        /\ UNCHANGED specs
  /\ UNCHANGED <<byPat, binds, loaded, writes>>

\* Mutant of BindRefused: the load goes on with the next line.
BindRefusedSkips(g, l) == Goes(g, [l EXCEPT !.binds = Tail(@)])

BindRefused(g, l) == Goes(g, NIL)

LoadBind(g) ==
  LET l == loading[g] IN
  /\ l # NIL /\ l.specs = <<>> /\ l.binds # <<>>
  /\ \/ /\ Bindable(Head(l.binds))
        /\ AddBinding(Head(l.binds))
        /\ Goes(g, [l EXCEPT !.binds = Tail(@)])
     \/ /\ ~Bindable(Head(l.binds))
        /\ BindRefused(g, l)
        /\ UNCHANGED <<byPat, binds>>
  /\ UNCHANGED <<specs, loaded, writes>>

LoadReturns(g) ==
  LET l == loading[g] IN
  /\ l # NIL /\ l.specs = <<>> /\ l.binds = <<>>
  /\ loaded' = loaded \cup {Says(l.text)}
  /\ Goes(g, NIL)
  /\ UNCHANGED <<specs, byPat, binds, writes>>

TableNext ==
  \/ \E s \in Specs : Register(s)
  \/ \E b \in Bindings : Bind(b)
  \/ \E g \in Goroutines :
       \/ \E x \in Texts : LoadText(g, x)
       \/ LoadSpec(g)
       \/ LoadBind(g)
       \/ LoadReturns(g)

-----------------------------------------------------------------------------

\* Types; the list of bindings is the map, each pattern once.
TableTypeOK ==
  /\ specs \in [Names -> Policies \cup {NIL}]
  /\ \A n \in Names : specs[n] # NIL => specs[n].name = n
  /\ byPat \in [Patterns -> Names \cup {NIL}]
  /\ binds \in Seq(Bindings)
  /\ Len(binds) = Cardinality({p \in Patterns : byPat[p] # NIL})
  /\ \A i \in 1..Len(binds) : byPat[binds[i].pattern] = binds[i].policy
  /\ \A g \in Goroutines :
       loading[g] # NIL =>
         /\ loading[g].text \in Texts
         /\ loading[g].specs \in Seq(Policies)
         /\ loading[g].binds \in Seq(Bindings)
  /\ NIL \notin loaded
  /\ writes \in 0..MaxWrites

\* The patterns that match a key and are written with wildcards, except those
\* that look at a dimension and leave out an earlier one that the key has: the
\* chain drops dimensions from the end only (fallback.go:5).
Fitting == [k \in Keys |->
  {p \in Patterns :
     /\ \A d \in Dims : p[d] # Missing
     /\ MatchPattern(k, p)
     /\ \A d \in Dims : Concrete(p, d) =>
          \A c \in 1..(d - 1) : Concrete(k, c) => Concrete(p, c)}]

\* "From the most specific to the default" (fallback.go:3): a key has the
\* policy of the most specific of the bound patterns that match it, by the
\* order of MoreSpecific, which is written apart from the chain.
MostSpecific ==
  \A k \in Keys :
    LET r == Resolve(k)
        bound == {p \in Fitting[k] : byPat[p] # NIL}
    IN IF bound = {} THEN IF r.ok THEN r.spec = specs[DefaultName]
                                  ELSE specs[DefaultName] = NIL
       ELSE \E p \in bound :
              /\ r = [ok |-> TRUE, pattern |-> p, spec |-> specs[byPat[p]]]
              /\ \A q \in bound \ {p} : MoreSpecific(p, q)

\* Whatever is registered, bound and loaded, completely or not, a key that
\* has a policy never falls further down its chain, or off its end.
NeverFallsBack ==
  [][<<specs, byPat>>' # <<specs, byPat>> =>
       /\ specs[DefaultName] # NIL => specs'[DefaultName] # NIL
       /\ \A k \in Keys :
            \A i \in 1..Len(Chain[k]) :
              Hits(Chain[k][i]) => \E j \in 1..i : Hits(Chain[k][j])']_tableVars

\* A text that was loaded without an error is in force (table.go:156) as its
\* lines say, whoever else registered or loaded at the same time: its policies
\* are the registered ones, and its patterns are bound, to its policies or to
\* those of a later call.
LoadedInForce ==
  \A said \in loaded :
    /\ \A s \in Range(said.specs) : specs[s.name] = s
    /\ \A b \in Range(said.binds) : byPat[b.pattern] # NIL

=============================================================================
