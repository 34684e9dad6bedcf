----------------------------- MODULE PolicyText -----------------------------
(***************************************************************************)
(* internal/policy/parse.go with the parsers of internal/units: a text, as *)
(* the sequence of its lines, becomes policies and bindings, or nothing at *)
(* all.  A line is [kw, args]: its first word, and the words after it as   *)
(* what the conversions can make of them, a number [kind "int", val], a    *)
(* duration [kind "dur", val] in ticks, a rate [kind "rate", count,        *)
(* period], or a name or pattern [kind "word", val].  A rate's period is   *)
(* -1 when its unit is unknown and 0 when it is not positive.  "" is the   *)
(* first word of an empty line and of a comment.                           *)
(***************************************************************************)
EXTENDS PolicySpec, Arith, SequencesExt

CONSTANT Second    \* ticks in a second

-----------------------------------------------------------------------------
(* Words.  NIL stands for the error of a conversion.                       *)

\* Atoi and ParseInt refuse what does not fit an int64.
ParseInt(w) ==
  IF w.kind = "int" /\ w.val \in (-MaxI64 - 1)..MaxI64 THEN w.val ELSE NIL

\* A bare number is so many seconds, in an int64 that wraps.
ParseDuration(w) ==
  IF w.kind = "dur" /\ w.val > 0 THEN w.val
  ELSE IF w.kind = "int" /\ w.val \in 1..MaxI64 THEN I64(U64(w.val * Second))
  ELSE NIL

\* A unit may also be a duration, and that a useless one.
TokensPerSecond(count, period) ==
  IF period = 0 THEN [num |-> 0, den |-> 1] ELSE [num |-> count * Second, den |-> period]

ParseRate(w) ==
  IF w.kind # "rate" \/ w.count <= 0 \/ w.period = -1 THEN NIL
  ELSE TokensPerSecond(w.count, w.period)

Aliases ==
  [tokenbucket |-> "tokenbucket", tb |-> "tokenbucket",
   gcra |-> "gcra", leaky |-> "gcra", leakybucket |-> "gcra",
   slidinglog |-> "slidinglog", log |-> "slidinglog",
   slidingcounter |-> "slidingcounter", counter |-> "slidingcounter"]
  @@ "token-bucket" :> "tokenbucket"
  @@ "sliding-log" :> "slidinglog"
  @@ "sliding-counter" :> "slidingcounter"

ParseAlgo(w) ==
  IF w.kind = "word" /\ w.val \in DOMAIN Aliases THEN Aliases[w.val] ELSE NIL

-----------------------------------------------------------------------------
(* Lines inside a policy.                                                  *)

NewPolicy(name) ==
  [name |-> name, algo |-> "", rate |-> NIL, window |-> NIL, quota |-> NIL]

\* The parts of a policy, made of zeros when a line first sets a field.
Zero ==
  [rate   |-> [num |-> 0, den |-> 1, burst |-> 0],
   window |-> [size |-> 0, limit |-> 0, buckets |-> 0],
   quota  |-> [period |-> 0, soft |-> 0, hard |-> 0, debt |-> FALSE]]

PartOf ==
  [rate |-> "rate", burst |-> "rate",
   window |-> "window", limit |-> "window", buckets |-> "window",
   period |-> "quota", soft |-> "quota", hard |-> "quota", debt |-> "quota"]

AlgoWords == {"algo", "algorithm"}

Settings == AlgoWords \cup DOMAIN PartOf

NeedsWords(kw) == IF kw = "bind" THEN 2 ELSE IF kw \in {"debt", ""} THEN 0 ELSE 1

Field(f, v) == IF v = NIL THEN NIL ELSE f :> v

\* The fields a line sets, or NIL if its word is not what it takes.
Sets(l) ==
  LET w == l.args[1] IN
  CASE l.kw \in AlgoWords -> Field("algo", ParseAlgo(w))
    [] l.kw = "rate"   -> ParseRate(w)
    [] l.kw = "window" -> Field("size", ParseDuration(w))
    [] l.kw = "period" -> Field("period", ParseDuration(w))
    [] l.kw = "debt"   -> Field("debt", TRUE)
    [] OTHER           -> Field(l.kw, ParseInt(w))

\* Policy p after a line inside it.
Put(p, l) ==
  IF l.kw \in AlgoWords THEN Sets(l) @@ p
  ELSE LET part == PartOf[l.kw]
       IN [p EXCEPT ![part] = Sets(l) @@ (IF @ = NIL THEN Zero[part] ELSE @)]

-----------------------------------------------------------------------------
(* The reader: the policies and bindings so far, and the policy it is in.  *)

Flush(s) ==
  IF s.cur = NIL THEN s
  ELSE [s EXCEPT !.specs = Append(@, s.cur), !.cur = NIL]

\* Mutant of StartPolicy: the policy before is not kept.
StartPolicyForgets(s, l) == [s EXCEPT !.cur = NewPolicy(l.args[1].val)]

StartPolicy(s, l) == [Flush(s) EXCEPT !.cur = NewPolicy(l.args[1].val)]

\* NIL once a line was refused: the first error is returned at once.
ReadLine(s, l) ==
  IF s = NIL \/ Len(l.args) < NeedsWords(l.kw) THEN NIL
  ELSE IF l.kw = "" THEN s
  ELSE IF l.kw = "policy" THEN StartPolicy(s, l)
  ELSE IF l.kw = "bind"
    THEN [s EXCEPT !.binds =
            Append(@, [pattern |-> l.args[1].val, policy |-> l.args[2].val])]
  ELSE IF l.kw \notin Settings \/ s.cur = NIL \/ Sets(l) = NIL THEN NIL
  ELSE [s EXCEPT !.cur = Put(@, l)]

ParseText(text) ==
  LET read == FoldLeft(ReadLine, [specs |-> <<>>, binds |-> <<>>, cur |-> NIL], text)
      done == Flush(read)
  IN IF read = NIL \/ \E i \in 1..Len(done.specs) : ~ValidPolicy(done.specs[i]) THEN NIL
     ELSE [specs |-> done.specs, binds |-> done.binds]

-----------------------------------------------------------------------------
(* What a text says, told from all its lines at once.                      *)

\* Each line by itself.
WellFormed(l) ==
  /\ l.kw \in Settings \cup {"", "policy", "bind"}
  /\ Len(l.args) >= NeedsWords(l.kw)
  /\ l.kw \in Settings => Sets(l) # NIL

\* The lines of a text with one of these first words.
LinesOf(text, kws) == {i \in 1..Len(text) : text[i].kw \in kws}

InOrder(I) == SetToSortSeq(I, <)

\* The settings up to the next line that names a policy.
Block(text, p) ==
  {i \in LinesOf(text, Settings) :
     i > p /\ LinesOf(text, {"policy"}) \cap (p + 1)..i = {}}

\* The last line of I that sets the field f decides it.
Decided(text, I, f, default) ==
  LET J == {i \in I : f \in DOMAIN Sets(text[i])}
  IN IF J = {} THEN default ELSE Sets(text[Max(J)])[f]

PartSays(text, I, part) ==
  LET J == {i \in I : text[i].kw \in DOMAIN PartOf /\ PartOf[text[i].kw] = part}
  IN IF J = {} THEN NIL
     ELSE [f \in DOMAIN Zero[part] |-> Decided(text, J, f, Zero[part][f])]

PolicySays(text, p) ==
  LET I == Block(text, p) IN
  [name   |-> text[p].args[1].val,
   algo   |-> Decided(text, I, "algo", ""),
   rate   |-> PartSays(text, I, "rate"),
   window |-> PartSays(text, I, "window"),
   quota  |-> PartSays(text, I, "quota")]

\* A text that is wrong anywhere, or defines an invalid policy, says nothing.
Says(text) ==
  LET policies == InOrder(LinesOf(text, {"policy"}))
      bindings == InOrder(LinesOf(text, {"bind"}))
      wrong == \E i \in 1..Len(text) :
                 \/ ~WellFormed(text[i])
                 \/ text[i].kw \in Settings /\ \A p \in LinesOf(text, {"policy"}) : p > i
  IN IF wrong THEN NIL
     ELSE LET specs == [k \in 1..Len(policies) |-> PolicySays(text, policies[k])]
          IN IF \E k \in 1..Len(specs) : ~ValidPolicy(specs[k]) THEN NIL
             ELSE [specs |-> specs,
                   binds |-> [k \in 1..Len(bindings) |->
                                [pattern |-> text[bindings[k]].args[1].val,
                                 policy |-> text[bindings[k]].args[2].val]]]

=============================================================================
