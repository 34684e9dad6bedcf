------------------------------ MODULE KeyText ------------------------------
(***************************************************************************)
(* internal/composite/key.go and key.go: the strings keys are given as.  A *)
(* string is a sequence of pieces, the separator, what replaces it, and    *)
(* others without a separator; a key is <<tenant, route, ip>>, three such  *)
(* strings.  All strings are valid UTF-8.                                  *)
(***************************************************************************)
EXTENDS Naturals, Sequences, SequencesExt

CONSTANT NIL    \* stands for an error

Sep == "|"

Replacement == "_"

Empty == <<>>

Encode(k) == k[1] \o <<Sep>> \o k[2] \o <<Sep>> \o k[3]

\* Mutant of Fields: empty fields are skipped.
FieldsNonEmpty(s) ==
  LET seps == SetToSortSeq({i \in 1..Len(s) : s[i] = Sep}, <)
      cuts == <<0>> \o seps \o <<Len(s) + 1>>
  IN SelectSeq([i \in 1..(Len(seps) + 1) |-> SubSeq(s, cuts[i] + 1, cuts[i + 1] - 1)],
               LAMBDA f : f # Empty)

\* strings.Split at every separator.
Fields(s) ==
  LET seps == SetToSortSeq({i \in 1..Len(s) : s[i] = Sep}, <)
      cuts == <<0>> \o seps \o <<Len(s) + 1>>
  IN [i \in 1..(Len(seps) + 1) |-> SubSeq(s, cuts[i] + 1, cuts[i + 1] - 1)]

Parse(s) == IF s # Empty /\ Len(Fields(s)) = 3 THEN Fields(s) ELSE NIL

\* One to three fields; the dimensions not given are missing.
ParseLoose(s) ==
  LET f == Fields(s)
  IN IF s = Empty \/ Len(f) > 3 THEN NIL
     ELSE [d \in 1..3 |-> IF d <= Len(f) THEN f[d] ELSE Empty]

\* What does not parse becomes a tenant.
Opaque(s) ==
  LET k == ParseLoose(s)
  IN IF k # NIL THEN k
     ELSE <<[i \in 1..Len(s) |-> IF s[i] = Sep THEN Replacement ELSE s[i]], Empty, Empty>>

ValidDim(v) == ~Contains(v, Sep)

Valid(k) == \A d \in 1..3 : ValidDim(k[d])

\* ErrEmptyKey and ErrBadDimension.
ParseAllowKey(s) ==
  IF s = Empty \/ ~Valid(Opaque(s)) THEN NIL ELSE Opaque(s)

\* A string without the separators it ends in.
Bare(s) ==
  SubSeq(s, 1, Cardinality({i \in 1..Len(s) : \E j \in i..Len(s) : s[j] # Sep}))

\* The key of a string decides which state its calls share.  Over these
\* strings: a key of dimensions without a separator comes back from its
\* encoding as it was, by either parser; two strings of up to three fields
\* share a key exactly if they differ in the separators at their end only;
\* and one of more fields is a tenant of its own kind, never refused.
ApartOver(strings) ==
  LET keys == [s \in strings |-> ParseAllowKey(s)]
      loose == {s \in strings \ {Empty} : Len(Fields(s)) <= 3}
      plain == {s \in strings : ValidDim(s) /\ Len(s) <= 2}
  IN /\ \A k \in plain \X plain \X plain :
          ParseAllowKey(Encode(k)) = k /\ Parse(Encode(k)) = k
     /\ \A s, t \in loose : keys[s] = keys[t] <=> Bare(s) = Bare(t)
     /\ \A s \in strings \ (loose \cup {Empty}) :
          /\ keys[s] # NIL
          /\ \A d \in 2..3 : keys[s][d] = Empty

=============================================================================
