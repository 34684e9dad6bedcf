-------------------------- MODULE ObserversProofs --------------------------
(***************************************************************************)
(* Theorems about Observers: that locks are let go of, and that what       *)
(* goroutines count one atomic step after the other adds up, whoever reads *)
(* it when, for any keys, shards, policies, reasons and waits.             *)
(***************************************************************************)
EXTENDS Observers, ArithProofs, SequenceTheorems

-----------------------------------------------------------------------------
(* The steps a call has still to do are what is left of its operation's.   *)

After1(a) == {<<a>>, <<>>}
After2(a, b) == {<<a, b>>} \cup After1(b)
After3(a, b, c) == {<<a, b, c>>} \cup After2(b, c)
After4(a, b, c, d) == {<<a, b, c, d>>} \cup After3(b, c, d)
After5(a, b, c, d, e) == {<<a, b, c, d, e>>} \cup After4(b, c, d, e)
After6(a, b, c, d, e, f) == {<<a, b, c, d, e, f>>} \cup After5(b, c, d, e, f)
After7(a, b, c, d, e, f, g) == {<<a, b, c, d, e, f, g>>} \cup After6(b, c, d, e, f, g)
After8(a, b, c, d, e, f, g, h) ==
  {<<a, b, c, d, e, f, g, h>>} \cup After7(b, c, d, e, f, g, h)

LEMMA Rest1 ==
  ASSUME NEW a, NEW t \in After1(a), t # <<>>
  PROVE  Tail(t) \in After1(a)
  <1>1. t = <<a>>
    BY DEF After1
  <1>2. Tail(t) = <<>>
    BY <1>1
  <1> QED
    BY <1>2 DEF After1

LEMMA Rest2 ==
  ASSUME NEW a, NEW b, NEW t \in After2(a, b), t # <<>>
  PROVE  Tail(t) \in After2(a, b)
  <1>1. CASE t = <<a, b>>
    BY <1>1 DEF After2, After1
  <1>2. CASE t \in After1(b)
    BY <1>2, Rest1 DEF After2
  <1> QED
    BY <1>1, <1>2 DEF After2

LEMMA Rest3 ==
  ASSUME NEW a, NEW b, NEW c, NEW t \in After3(a, b, c), t # <<>>
  PROVE  Tail(t) \in After3(a, b, c)
  <1>1. CASE t = <<a, b, c>>
    BY <1>1 DEF After3, After2
  <1>2. CASE t \in After2(b, c)
    BY <1>2, Rest2 DEF After3
  <1> QED
    BY <1>1, <1>2 DEF After3

LEMMA Rest4 ==
  ASSUME NEW a, NEW b, NEW c, NEW d, NEW t \in After4(a, b, c, d), t # <<>>
  PROVE  Tail(t) \in After4(a, b, c, d)
  <1>1. CASE t = <<a, b, c, d>>
    BY <1>1 DEF After4, After3
  <1>2. CASE t \in After3(b, c, d)
    BY <1>2, Rest3 DEF After4
  <1> QED
    BY <1>1, <1>2 DEF After4

LEMMA Rest5 ==
  ASSUME NEW a, NEW b, NEW c, NEW d, NEW e, NEW t \in After5(a, b, c, d, e), t # <<>>
  PROVE  Tail(t) \in After5(a, b, c, d, e)
  <1>1. CASE t = <<a, b, c, d, e>>
    BY <1>1 DEF After5, After4
  <1>2. CASE t \in After4(b, c, d, e)
    BY <1>2, Rest4 DEF After5
  <1> QED
    BY <1>1, <1>2 DEF After5

LEMMA Rest6 ==
  ASSUME NEW a, NEW b, NEW c, NEW d, NEW e, NEW f, NEW t \in After6(a, b, c, d, e, f),
         t # <<>>
  PROVE  Tail(t) \in After6(a, b, c, d, e, f)
  <1>1. CASE t = <<a, b, c, d, e, f>>
    BY <1>1 DEF After6, After5
  <1>2. CASE t \in After5(b, c, d, e, f)
    BY <1>2, Rest5 DEF After6
  <1> QED
    BY <1>1, <1>2 DEF After6

LEMMA Rest7 ==
  ASSUME NEW a, NEW b, NEW c, NEW d, NEW e, NEW f, NEW g,
         NEW t \in After7(a, b, c, d, e, f, g), t # <<>>
  PROVE  Tail(t) \in After7(a, b, c, d, e, f, g)
  <1>1. CASE t = <<a, b, c, d, e, f, g>>
    BY <1>1 DEF After7, After6
  <1>2. CASE t \in After6(b, c, d, e, f, g)
    BY <1>2, Rest6 DEF After7
  <1> QED
    BY <1>1, <1>2 DEF After7

LEMMA Rest8 ==
  ASSUME NEW a, NEW b, NEW c, NEW d, NEW e, NEW f, NEW g, NEW h,
         NEW t \in After8(a, b, c, d, e, f, g, h), t # <<>>
  PROVE  Tail(t) \in After8(a, b, c, d, e, f, g, h)
  <1>1. CASE t = <<a, b, c, d, e, f, g, h>>
    BY <1>1 DEF After8, After7
  <1>2. CASE t \in After7(b, c, d, e, f, g, h)
    BY <1>2, Rest7 DEF After8
  <1> QED
    BY <1>1, <1>2 DEF After8

\* The next step of a call, by name.
First(t) == IF t = <<>> THEN "end" ELSE Head(t)

GrantLeft == After6("enter", "total", "find", "bump", "reserved", "leave")
DenyLeft == After5("enter", "total", "find", "bump", "leave")
WaitLeft == After7("enter", "total", "find", "bump", "nanos", "sample", "leave")
InvalidLeft == After3("total", "find", "bump")
PeekLeft == After3("look", "peeked", "leave")
ResetLeft == After2("delete", "resets")
CancelLeft == After3("look", "leave", "canceled")
QuotaLeft ==
  After2("charged", "softHits") \cup After1("charged") \cup After1("chargeDenied")
    \cup After1("refunded") \cup After1("refundDenied")
SweepLeft == After2("sweep", "sweeps")
SnapshotLeft ==
  After8("lockMaps", "reasons", "policies", "unlockMaps",
         "readSamples", "readNanos", "readAllowed", "readDenied")
StatsLeft == After1("walk")

LEMMA GrantPath ==
  ASSUME NEW t \in GrantLeft
  PROVE  /\ First(t) \in {"enter", "total", "find", "bump", "reserved", "leave", "end"}
         /\ First(t) \notin {"enter", "end"} => "leave" \in Range(t)
         /\ t = <<>> <=> First(t) = "end"
         /\ First(t) = "enter" => First(Tail(t)) = "total"
         /\ First(t) = "total" => First(Tail(t)) = "find"
         /\ First(t) = "find" => First(Tail(t)) = "bump"
         /\ First(t) = "bump" => First(Tail(t)) = "reserved"
         /\ First(t) = "reserved" => First(Tail(t)) = "leave"
         /\ First(t) = "leave" => First(Tail(t)) = "end"
  <1>1. CASE t = <<"enter", "total", "find", "bump", "reserved", "leave">>
    BY <1>1 DEF First, Range
  <1>2. CASE t = <<"total", "find", "bump", "reserved", "leave">>
    BY <1>2 DEF First, Range
  <1>3. CASE t = <<"find", "bump", "reserved", "leave">>
    BY <1>3 DEF First, Range
  <1>4. CASE t = <<"bump", "reserved", "leave">>
    BY <1>4 DEF First, Range
  <1>5. CASE t = <<"reserved", "leave">>
    BY <1>5 DEF First, Range
  <1>6. CASE t = <<"leave">>
    BY <1>6 DEF First, Range
  <1>7. CASE t = <<>>
    BY <1>7 DEF First, Range
  <1> QED
    BY <1>1, <1>2, <1>3, <1>4, <1>5, <1>6, <1>7
       DEF GrantLeft, After6, After5, After4, After3, After2, After1

LEMMA DenyPath ==
  ASSUME NEW t \in DenyLeft
  PROVE  /\ First(t) \in {"enter", "total", "find", "bump", "leave", "end"}
         /\ First(t) \notin {"enter", "end"} => "leave" \in Range(t)
         /\ t = <<>> <=> First(t) = "end"
         /\ First(t) = "enter" => First(Tail(t)) = "total"
         /\ First(t) = "total" => First(Tail(t)) = "find"
         /\ First(t) = "find" => First(Tail(t)) = "bump"
         /\ First(t) = "bump" => First(Tail(t)) = "leave"
         /\ First(t) = "leave" => First(Tail(t)) = "end"
  <1>1. CASE t = <<"enter", "total", "find", "bump", "leave">>
    BY <1>1 DEF First, Range
  <1>2. CASE t = <<"total", "find", "bump", "leave">>
    BY <1>2 DEF First, Range
  <1>3. CASE t = <<"find", "bump", "leave">>
    BY <1>3 DEF First, Range
  <1>4. CASE t = <<"bump", "leave">>
    BY <1>4 DEF First, Range
  <1>5. CASE t = <<"leave">>
    BY <1>5 DEF First, Range
  <1>6. CASE t = <<>>
    BY <1>6 DEF First, Range
  <1> QED
    BY <1>1, <1>2, <1>3, <1>4, <1>5, <1>6
       DEF DenyLeft, After5, After4, After3, After2, After1

LEMMA WaitPath ==
  ASSUME NEW t \in WaitLeft
  PROVE  /\ First(t) \in {"enter", "total", "find", "bump", "nanos", "sample", "leave", "end"}
         /\ First(t) \notin {"enter", "end"} => "leave" \in Range(t)
         /\ t = <<>> <=> First(t) = "end"
         /\ First(t) = "enter" => First(Tail(t)) = "total"
         /\ First(t) = "total" => First(Tail(t)) = "find"
         /\ First(t) = "find" => First(Tail(t)) = "bump"
         /\ First(t) = "bump" => First(Tail(t)) = "nanos"
         /\ First(t) = "nanos" => First(Tail(t)) = "sample"
         /\ First(t) = "sample" => First(Tail(t)) = "leave"
         /\ First(t) = "leave" => First(Tail(t)) = "end"
  <1>1. CASE t = <<"enter", "total", "find", "bump", "nanos", "sample", "leave">>
    BY <1>1 DEF First, Range
  <1>2. CASE t = <<"total", "find", "bump", "nanos", "sample", "leave">>
    BY <1>2 DEF First, Range
  <1>3. CASE t = <<"find", "bump", "nanos", "sample", "leave">>
    BY <1>3 DEF First, Range
  <1>4. CASE t = <<"bump", "nanos", "sample", "leave">>
    BY <1>4 DEF First, Range
  <1>5. CASE t = <<"nanos", "sample", "leave">>
    BY <1>5 DEF First, Range
  <1>6. CASE t = <<"sample", "leave">>
    BY <1>6 DEF First, Range
  <1>7. CASE t = <<"leave">>
    BY <1>7 DEF First, Range
  <1>8. CASE t = <<>>
    BY <1>8 DEF First, Range
  <1> QED
    BY <1>1, <1>2, <1>3, <1>4, <1>5, <1>6, <1>7, <1>8
       DEF WaitLeft, After7, After6, After5, After4, After3, After2, After1

LEMMA InvalidPath ==
  ASSUME NEW t \in InvalidLeft
  PROVE  /\ First(t) \in {"total", "find", "bump", "end"}
         /\ t = <<>> <=> First(t) = "end"
         /\ First(t) = "total" => First(Tail(t)) = "find"
         /\ First(t) = "find" => First(Tail(t)) = "bump"
         /\ First(t) = "bump" => First(Tail(t)) = "end"
  <1>1. CASE t = <<"total", "find", "bump">>
    BY <1>1 DEF First
  <1>2. CASE t = <<"find", "bump">>
    BY <1>2 DEF First
  <1>3. CASE t = <<"bump">>
    BY <1>3 DEF First
  <1>4. CASE t = <<>>
    BY <1>4 DEF First
  <1> QED
    BY <1>1, <1>2, <1>3, <1>4
       DEF InvalidLeft, After3, After2, After1

LEMMA PeekPath ==
  ASSUME NEW t \in PeekLeft
  PROVE  /\ First(t) \in {"look", "peeked", "leave", "end"}
         /\ First(t) \notin {"look", "end"} => "leave" \in Range(t)
         /\ t = <<>> <=> First(t) = "end"
         /\ First(t) = "look" => First(Tail(t)) = "peeked"
         /\ First(t) = "peeked" => First(Tail(t)) = "leave"
         /\ First(t) = "leave" => First(Tail(t)) = "end"
  <1>1. CASE t = <<"look", "peeked", "leave">>
    BY <1>1 DEF First, Range
  <1>2. CASE t = <<"peeked", "leave">>
    BY <1>2 DEF First, Range
  <1>3. CASE t = <<"leave">>
    BY <1>3 DEF First, Range
  <1>4. CASE t = <<>>
    BY <1>4 DEF First, Range
  <1> QED
    BY <1>1, <1>2, <1>3, <1>4
       DEF PeekLeft, After3, After2, After1

LEMMA ResetPath ==
  ASSUME NEW t \in ResetLeft
  PROVE  /\ First(t) \in {"delete", "resets", "end"}
         /\ t = <<>> <=> First(t) = "end"
         /\ First(t) = "delete" => First(Tail(t)) = "resets"
         /\ First(t) = "resets" => First(Tail(t)) = "end"
  <1>1. CASE t = <<"delete", "resets">>
    BY <1>1 DEF First
  <1>2. CASE t = <<"resets">>
    BY <1>2 DEF First
  <1>3. CASE t = <<>>
    BY <1>3 DEF First
  <1> QED
    BY <1>1, <1>2, <1>3
       DEF ResetLeft, After2, After1

LEMMA CancelPath ==
  ASSUME NEW t \in CancelLeft
  PROVE  /\ First(t) \in {"look", "leave", "canceled", "end"}
         /\ First(t) = "leave" => "leave" \in Range(t)
         /\ t = <<>> <=> First(t) = "end"
         /\ First(t) = "look" => First(Tail(t)) = "leave"
         /\ First(t) = "leave" => First(Tail(t)) = "canceled"
         /\ First(t) = "canceled" => First(Tail(t)) = "end"
  <1>1. CASE t = <<"look", "leave", "canceled">>
    BY <1>1 DEF First, Range
  <1>2. CASE t = <<"leave", "canceled">>
    BY <1>2 DEF First, Range
  <1>3. CASE t = <<"canceled">>
    BY <1>3 DEF First, Range
  <1>4. CASE t = <<>>
    BY <1>4 DEF First, Range
  <1> QED
    BY <1>1, <1>2, <1>3, <1>4
       DEF CancelLeft, After3, After2, After1

LEMMA QuotaPath ==
  ASSUME NEW t \in QuotaLeft
  PROVE  /\ First(t) \in {"charged", "softHits", "chargeDenied", "refunded", "refundDenied", "end"}
         /\ t = <<>> <=> First(t) = "end"
         /\ t # <<>> => First(Tail(t)) \in {"softHits", "end"}
  BY DEF QuotaLeft, After2, After1, First

LEMMA SweepPath ==
  ASSUME NEW t \in SweepLeft
  PROVE  /\ First(t) \in {"sweep", "sweeps", "end"}
         /\ t = <<>> <=> First(t) = "end"
         /\ First(t) = "sweep" => First(Tail(t)) = "sweeps"
         /\ First(t) = "sweeps" => First(Tail(t)) = "end"
  <1>1. CASE t = <<"sweep", "sweeps">>
    BY <1>1 DEF First
  <1>2. CASE t = <<"sweeps">>
    BY <1>2 DEF First
  <1>3. CASE t = <<>>
    BY <1>3 DEF First
  <1> QED
    BY <1>1, <1>2, <1>3
       DEF SweepLeft, After2, After1

LEMMA SnapshotPath ==
  ASSUME NEW t \in SnapshotLeft
  PROVE  /\ First(t) \in {"lockMaps", "reasons", "policies", "unlockMaps", "readSamples",
                          "readNanos", "readAllowed", "readDenied", "end"}
         /\ t = <<>> <=> First(t) = "end"
         /\ First(t) = "lockMaps" => First(Tail(t)) = "reasons"
         /\ First(t) = "reasons" => First(Tail(t)) = "policies"
         /\ First(t) = "policies" => First(Tail(t)) = "unlockMaps"
         /\ First(t) = "unlockMaps" => First(Tail(t)) = "readSamples"
         /\ First(t) = "readSamples" => First(Tail(t)) = "readNanos"
         /\ First(t) = "readNanos" => First(Tail(t)) = "readAllowed"
         /\ First(t) = "readAllowed" => First(Tail(t)) = "readDenied"
         /\ First(t) = "readDenied" => First(Tail(t)) = "end"
  <1>1. CASE t = <<"lockMaps", "reasons", "policies", "unlockMaps", "readSamples", "readNanos", "readAllowed", "readDenied">>
    BY <1>1 DEF First
  <1>2. CASE t = <<"reasons", "policies", "unlockMaps", "readSamples", "readNanos", "readAllowed", "readDenied">>
    BY <1>2 DEF First
  <1>3. CASE t = <<"policies", "unlockMaps", "readSamples", "readNanos", "readAllowed", "readDenied">>
    BY <1>3 DEF First
  <1>4. CASE t = <<"unlockMaps", "readSamples", "readNanos", "readAllowed", "readDenied">>
    BY <1>4 DEF First
  <1>5. CASE t = <<"readSamples", "readNanos", "readAllowed", "readDenied">>
    BY <1>5 DEF First
  <1>6. CASE t = <<"readNanos", "readAllowed", "readDenied">>
    BY <1>6 DEF First
  <1>7. CASE t = <<"readAllowed", "readDenied">>
    BY <1>7 DEF First
  <1>8. CASE t = <<"readDenied">>
    BY <1>8 DEF First
  <1>9. CASE t = <<>>
    BY <1>9 DEF First
  <1> QED
    BY <1>1, <1>2, <1>3, <1>4, <1>5, <1>6, <1>7, <1>8, <1>9
       DEF SnapshotLeft, After8, After7, After6, After5, After4, After3, After2, After1

LEMMA SnapshotInMaps ==
  ASSUME NEW t \in SnapshotLeft, First(t) \in {"reasons", "policies", "unlockMaps"}
  PROVE  "unlockMaps" \in Range(t)
  BY DEF SnapshotLeft, After8, After7, After6, After5, After4, After3, After2, After1,
         First, Range

LEMMA StatsPath ==
  ASSUME NEW t \in StatsLeft
  PROVE  /\ First(t) \in {"walk", "end"}
         /\ t = <<>> <=> First(t) = "end"
         /\ First(t) = "walk" => First(Tail(t)) = "end"
  <1>1. t # <<>> => Tail(t) \in StatsLeft
    BY Rest1 DEF StatsLeft
  <1>2. /\ t = <<>> <=> First(t) = "end"
        /\ First(t) = "walk" => First(Tail(t)) = "end"
    BY DEF StatsLeft, After1, First

  <1>3. First(t) \in {"walk", "end"}
    BY DEF StatsLeft, After1, First

  <1> QED
    BY <1>1, <1>2, <1>3
-----------------------------------------------------------------------------
(* The steps of a decision, put together.                                  *)

LEMMA Snoc ==
  ASSUME NEW S, NEW s \in Seq(S), NEW a \in S
  PROVE  s \o <<a>> = Append(s, a)
  BY AppendProperties

LEMMA SnocMore ==
  ASSUME NEW S, NEW s \in Seq(S), NEW t \in Seq(S), NEW a \in S
  PROVE  s \o Append(t, a) = Append(s \o t, a)
  <1>1. <<a>> \in Seq(S) /\ s \o t \in Seq(S)
    OBVIOUS
  <1>2. Append(t, a) = t \o <<a>> /\ Append(s \o t, a) = (s \o t) \o <<a>>
    BY <1>1, Snoc
  <1> QED
    BY <1>1, <1>2, ConcatAssociative

LEMMA SnocTwo ==
  ASSUME NEW S, NEW s \in Seq(S), NEW a \in S, NEW b \in S
  PROVE  s \o <<a, b>> = Append(Append(s, a), b)
  <1>1. <<a>> \in Seq(S) /\ <<a, b>> = Append(<<a>>, b)
    OBVIOUS
  <1> QED
    BY <1>1, Snoc, SnocMore

LEMMA Tuples ==
  ASSUME NEW S, NEW a \in S, NEW b \in S, NEW c \in S, NEW d \in S, NEW e \in S, NEW f \in S,
         NEW g \in S
  PROVE  /\ <<a>> \in Seq(S) /\ <<a, b>> \in Seq(S) /\ <<a, b, c>> \in Seq(S)
         /\ <<a, b, c, d>> \in Seq(S) /\ <<a, b, c, d, e>> \in Seq(S)
         /\ <<a, b, c, d, e, f>> \in Seq(S)
         /\ <<a, b>> = Append(<<a>>, b)
         /\ <<a, b, c>> = Append(<<a, b>>, c)
         /\ <<a, b, c, d>> = Append(<<a, b, c>>, d)
         /\ <<a, b, c, d, e>> = Append(<<a, b, c, d>>, e)
         /\ <<a, b, c, d, e, f>> = Append(<<a, b, c, d, e>>, f)
         /\ <<a, b, c, d, e, f, g>> = Append(<<a, b, c, d, e, f>>, g)
  OBVIOUS

LEMMA Cons3 ==
  ASSUME NEW S, NEW e \in S, NEW a \in S, NEW b \in S, NEW c \in S
  PROVE  <<e>> \o <<a, b, c>> = <<e, a, b, c>>
  <1>1. PICK s : s = <<e>>
    OBVIOUS
  <1>2. PICK t : t = <<a, b>>
    OBVIOUS
  <1>3. s \in Seq(S) /\ t \in Seq(S) /\ <<a, b, c>> = Append(t, c)
    BY <1>1, <1>2, Tuples
  <1>4. s \o t = Append(Append(s, a), b) /\ s \o Append(t, c) = Append(s \o t, c)
    BY <1>2, <1>3, SnocTwo, SnocMore
  <1>5. <<e, a>> = Append(s, a) /\ <<e, a, b>> = Append(<<e, a>>, b)
        /\ <<e, a, b, c>> = Append(<<e, a, b>>, c)
    BY <1>1, Tuples
  <1> QED
    BY <1>1, <1>3, <1>4, <1>5

LEMMA Cons5 ==
  ASSUME NEW S, NEW e \in S, NEW a \in S, NEW b \in S, NEW c \in S, NEW d \in S, NEW f \in S
  PROVE  <<e>> \o <<a, b, c, d, f>> = <<e, a, b, c, d, f>>
  <1>1. PICK s : s = <<e>>
    OBVIOUS
  <1>2. PICK t : t = <<a, b, c>>
    OBVIOUS
  <1>3. PICK u : u = <<a, b, c, d>>
    OBVIOUS
  <1>4. /\ s \in Seq(S) /\ t \in Seq(S) /\ u \in Seq(S)
        /\ u = Append(t, d) /\ <<a, b, c, d, f>> = Append(u, f)
    BY <1>1, <1>2, <1>3, Tuples
  <1>5. s \o u = Append(s \o t, d) /\ s \o Append(u, f) = Append(s \o u, f)
    BY <1>4, SnocMore
  <1>6. s \o t = <<e, a, b, c>>
    BY <1>1, <1>2, Cons3
  <1>7. <<e, a, b, c, d>> = Append(<<e, a, b, c>>, d)
        /\ <<e, a, b, c, d, f>> = Append(<<e, a, b, c, d>>, f)
    BY Tuples
  <1> QED
    BY <1>1, <1>4, <1>5, <1>6, <1>7

LEMMA CountStepsAre ==
  /\ CountSteps(TRUE, 0) = <<"total", "find", "bump">>
  /\ CountSteps(FALSE, 0) = <<"total", "find", "bump">>
  /\ \A wait \in Nat :
       wait > 0 => CountSteps(FALSE, wait) = <<"total", "find", "bump", "nanos", "sample">>
  <1>1. PICK S : S = {"total", "find", "bump", "nanos", "sample"}
    OBVIOUS
  <1>2. "total" \in S /\ "find" \in S /\ "bump" \in S /\ "nanos" \in S /\ "sample" \in S
    BY <1>1
  <1>3. PICK s : s = <<"total", "find", "bump">>
    OBVIOUS
  <1>4. s \in Seq(S)
    BY <1>2, <1>3, Tuples
  <1>5. s \o <<>> = s
    BY <1>4, ConcatEmptySeq
  <1>6. s \o <<"nanos", "sample">> = Append(Append(s, "nanos"), "sample")
    BY <1>2, <1>4, SnocTwo
  <1>7. <<"total", "find", "bump", "nanos">> = Append(s, "nanos")
    BY <1>2, <1>3, Tuples
  <1>8. <<"total", "find", "bump", "nanos", "sample">> =
          Append(<<"total", "find", "bump", "nanos">>, "sample")
    BY <1>2, Tuples
  <1>9. CountSteps(TRUE, 0) = s /\ CountSteps(FALSE, 0) = s
    BY <1>3, <1>5 DEF CountSteps
  <1>10. ASSUME NEW wait \in Nat, wait > 0
         PROVE  CountSteps(FALSE, wait) = <<"total", "find", "bump", "nanos", "sample">>
    BY <1>3, <1>6, <1>7, <1>8, <1>10 DEF CountSteps
  <1> QED
    BY <1>3, <1>9, <1>10

LEMMA AllowStepsAre ==
  /\ AllowSteps(TRUE, 0) = <<"enter", "total", "find", "bump", "reserved", "leave">>
  /\ AllowSteps(FALSE, 0) = <<"enter", "total", "find", "bump", "leave">>
  /\ \A wait \in Nat :
       wait > 0 => AllowSteps(FALSE, wait) =
                     <<"enter", "total", "find", "bump", "nanos", "sample", "leave">>
  <1>1. PICK S : S = {"enter", "total", "find", "bump", "nanos", "sample", "reserved", "leave"}
    OBVIOUS
  <1>2. /\ "enter" \in S /\ "total" \in S /\ "find" \in S /\ "bump" \in S
        /\ "nanos" \in S /\ "sample" \in S /\ "reserved" \in S /\ "leave" \in S
    BY <1>1
  <1>3. PICK s : s = <<"enter", "total", "find", "bump">>
    OBVIOUS
  <1>4. PICK w : w = <<"enter", "total", "find", "bump", "nanos", "sample">>
    OBVIOUS
  <1>5. PICK r : r = <<"enter", "total", "find", "bump", "reserved">>
    OBVIOUS
  <1>6. s \in Seq(S) /\ w \in Seq(S) /\ r \in Seq(S)
    BY <1>2, <1>3, <1>4, <1>5, Tuples
  <1>7. /\ <<"enter">> \o <<"total", "find", "bump">> = s
        /\ <<"enter">> \o <<"total", "find", "bump", "nanos", "sample">> = w
    BY <1>2, <1>3, <1>4, Cons3, Cons5
  <1>8. s \o <<>> = s /\ w \o <<>> = w
    BY <1>6, ConcatEmptySeq
  <1>9. /\ s \o <<"reserved">> = Append(s, "reserved")
        /\ s \o <<"leave">> = Append(s, "leave")
        /\ w \o <<"leave">> = Append(w, "leave")
        /\ r \o <<"leave">> = Append(r, "leave")
    BY <1>2, <1>6, Snoc
  <1>10. /\ r = Append(s, "reserved")
         /\ <<"enter", "total", "find", "bump", "leave">> = Append(s, "leave")
         /\ <<"enter", "total", "find", "bump", "nanos", "sample", "leave">> = Append(w, "leave")
         /\ <<"enter", "total", "find", "bump", "reserved", "leave">> = Append(r, "leave")
    BY <1>2, <1>3, <1>4, <1>5, Tuples
  <1>11. AllowSteps(TRUE, 0) = <<"enter", "total", "find", "bump", "reserved", "leave">>
    BY <1>7, <1>9, <1>10, CountStepsAre DEF AllowSteps
  <1>12. AllowSteps(FALSE, 0) = <<"enter", "total", "find", "bump", "leave">>
    BY <1>7, <1>8, <1>9, <1>10, CountStepsAre DEF AllowSteps
  <1>13. ASSUME NEW wait \in Nat, wait > 0
         PROVE  AllowSteps(FALSE, wait) =
                  <<"enter", "total", "find", "bump", "nanos", "sample", "leave">>
    BY <1>7, <1>8, <1>9, <1>10, <1>13, CountStepsAre DEF AllowSteps
  <1> QED
    BY <1>11, <1>12, <1>13

-----------------------------------------------------------------------------
(* Calls: their arguments, what they have read, and the step they are at.  *)

GrantCalls ==
  [op: {"allow"}, key: Keys, ok: {TRUE}, of: Policies, wait: {0}, todo: GrantLeft]

DenyCalls ==
  [op: {"allow"}, key: Keys, ok: {FALSE}, of: Reasons, wait: {0}, todo: DenyLeft]

WaitCalls ==
  [op: {"allow"}, key: Keys, ok: {FALSE}, of: Reasons, wait: Waits \ {0}, todo: WaitLeft]

InvalidCalls ==
  [op: {"allow"}, key: {NIL}, ok: {FALSE}, of: Reasons, wait: {0}, todo: InvalidLeft]

PeekCalls == [op: {"peek"}, key: Keys, todo: PeekLeft]
ResetCalls == [op: {"reset"}, key: Keys, todo: ResetLeft]
CancelCalls == [op: {"cancel"}, key: Keys, todo: CancelLeft]
QuotaCalls == [op: {"quota"}, todo: QuotaLeft]

\* While there is a step "sweep" or "walk" to do, there is a shard to do it on.
SweepCalls ==
  {c \in [op: {"sweep"}, left: SUBSET Shards, n: Nat, todo: SweepLeft] :
     First(c.todo) = "sweep" => c.left # {}}

StatsCalls ==
  {c \in [op: {"stats"}, left: SUBSET Shards, n: Nat, sum: Tallies, todo: StatsLeft] :
     First(c.todo) = "walk" <=> c.left # {}}

\* What was read of a map of counters.
Readings(names) == UNION {[S -> Nat] : S \in SUBSET names}

SnapshotCalls ==
  [op: {"snapshot"}, todo: SnapshotLeft, reasons: Readings(Reasons),
   policies: Readings(Policies), samples: Nat, nanos: Int, allowed: Nat, denied: Nat]

AllowCalls == GrantCalls \cup DenyCalls \cup WaitCalls \cup InvalidCalls

KeyCalls == GrantCalls \cup DenyCalls \cup WaitCalls \cup PeekCalls \cup CancelCalls

Calls ==
  AllowCalls \cup PeekCalls \cup ResetCalls \cup CancelCalls \cup QuotaCalls
    \cup SweepCalls \cup StatsCalls \cup SnapshotCalls \cup {Idle}

Step(c) == First(c.todo)

\* A call that holds its key's lock, or the collector's mutex.
Inside(c) ==
  /\ c \in KeyCalls
  /\ Step(c) \in {"total", "find", "bump", "reserved", "nanos", "sample", "peeked", "leave"}

InMaps(c) == c \in SnapshotCalls /\ Step(c) \in {"reasons", "policies", "unlockMaps"}

\* From one step of a decision to the next.
Decides(c, d) ==
  /\ d \in AllowCalls
  /\ d.key = c.key /\ d.ok = c.ok /\ d.of = c.of /\ d.wait = c.wait
  /\ Inside(c) /\ Step(c) # "leave" => Inside(d)
  /\ Step(c) = "enter" => Step(d) = "total" /\ Inside(d)
  /\ Step(c) = "total" => Step(d) = "find"
  /\ Step(c) = "find" => Step(d) = "bump"
  /\ Step(c) = "bump" => IF c.ok THEN Step(d) = "reserved"
                                 ELSE Step(d) \in {"nanos", "leave", "end"}
  /\ Step(c) = "reserved" => Step(d) = "leave"
  /\ Step(c) = "nanos" => Step(d) = "sample"
  /\ Step(c) = "sample" => Step(d) = "leave"
  /\ Step(c) = "leave" => Step(d) = "end"

LEMMA GrantDecides ==
  ASSUME NEW c \in GrantCalls, c.todo # <<>>, NEW d, d = [c EXCEPT !.todo = Tail(@)]
  PROVE  Decides(c, d) /\ d \in GrantCalls
  <1>1. c.todo \in GrantLeft /\ c \in AllowCalls /\ c.ok = TRUE
    BY DEF GrantCalls, AllowCalls
  <1>2. Tail(c.todo) \in GrantLeft
    BY <1>1, Rest6 DEF GrantLeft
  <1>3. /\ d \in GrantCalls /\ d.todo = Tail(c.todo)
        /\ d.key = c.key /\ d.ok = c.ok /\ d.of = c.of /\ d.wait = c.wait
    BY <1>2 DEF GrantCalls
  <1> HIDE DEF GrantCalls
  <1> QED
    BY <1>1, <1>3, GrantPath DEF Decides, Step, Inside, KeyCalls, AllowCalls

LEMMA DenyDecides ==
  ASSUME NEW c \in DenyCalls, c.todo # <<>>, NEW d, d = [c EXCEPT !.todo = Tail(@)]
  PROVE  Decides(c, d) /\ d \in DenyCalls
  <1>1. c.todo \in DenyLeft /\ c \in AllowCalls /\ c.ok = FALSE
    BY DEF DenyCalls, AllowCalls
  <1>2. Tail(c.todo) \in DenyLeft
    BY <1>1, Rest5 DEF DenyLeft
  <1>3. /\ d \in DenyCalls /\ d.todo = Tail(c.todo)
        /\ d.key = c.key /\ d.ok = c.ok /\ d.of = c.of /\ d.wait = c.wait
    BY <1>2 DEF DenyCalls
  <1> QED
    BY <1>1, <1>3, DenyPath DEF Decides, Step, Inside, KeyCalls, AllowCalls

LEMMA WaitDecides ==
  ASSUME NEW c \in WaitCalls, c.todo # <<>>, NEW d, d = [c EXCEPT !.todo = Tail(@)]
  PROVE  Decides(c, d) /\ d \in WaitCalls
  <1>1. c.todo \in WaitLeft /\ c \in AllowCalls /\ c.ok = FALSE
    BY DEF WaitCalls, AllowCalls
  <1>2. Tail(c.todo) \in WaitLeft
    BY <1>1, Rest7 DEF WaitLeft
  <1>3. /\ d \in WaitCalls /\ d.todo = Tail(c.todo)
        /\ d.key = c.key /\ d.ok = c.ok /\ d.of = c.of /\ d.wait = c.wait
    BY <1>2 DEF WaitCalls
  <1> QED
    BY <1>1, <1>3, WaitPath DEF Decides, Step, Inside, KeyCalls, AllowCalls

LEMMA InvalidDecides ==
  ASSUME NEW c \in InvalidCalls, c.todo # <<>>, NEW d, d = [c EXCEPT !.todo = Tail(@)]
  PROVE  d \in InvalidCalls /\ (~Inside(c) => Decides(c, d))
  <1>1. c.todo \in InvalidLeft /\ c \in AllowCalls /\ c.ok = FALSE
    BY DEF InvalidCalls, AllowCalls
  <1>2. Tail(c.todo) \in InvalidLeft
    BY <1>1, Rest3 DEF InvalidLeft
  <1>3. /\ d \in InvalidCalls /\ d.todo = Tail(c.todo)
        /\ d.key = c.key /\ d.ok = c.ok /\ d.of = c.of /\ d.wait = c.wait
    BY <1>2 DEF InvalidCalls
  <1> QED
    BY <1>1, <1>3, InvalidPath DEF Decides, Step, AllowCalls

LEMMA AllowDecides ==
  ASSUME NEW c \in AllowCalls, c.todo # <<>>, NEW d, d = [c EXCEPT !.todo = Tail(@)]
  PROVE  Decides(c, d)
  <1>1. CASE c \in GrantCalls
    BY <1>1, GrantDecides
  <1>2. CASE c \in DenyCalls
    BY <1>2, DenyDecides
  <1>3. CASE c \in WaitCalls
    BY <1>3, WaitDecides
  <1>4. CASE c \in InvalidCalls /\ c \notin GrantCalls \cup DenyCalls \cup WaitCalls
    <2>1. c.op = "allow"
      BY <1>4 DEF InvalidCalls
    <2>2. c \notin PeekCalls /\ c \notin CancelCalls
      BY <2>1 DEF PeekCalls, CancelCalls
    <2> QED
      BY <1>4, <2>2, InvalidDecides DEF Inside, KeyCalls
  <1> QED
    BY <1>1, <1>2, <1>3, <1>4 DEF AllowCalls

\* What the next step of a call tells of it.
LEMMA StepOf ==
  ASSUME NEW c \in Calls
  PROVE  /\ c.todo = <<>> <=> Step(c) = "end"
         /\ Step(c) = "enter" => c \in AllowCalls /\ c \in KeyCalls /\ c.key \in Keys
         /\ Step(c) \in {"total", "find", "bump", "reserved", "nanos", "sample"}
              => c \in AllowCalls
         /\ Step(c) = "reserved" => c.ok
         /\ Step(c) \in {"nanos", "sample"} => ~c.ok /\ c.wait \in Waits \ {0}
         /\ Step(c) = "look" => c \in PeekCalls \cup CancelCalls
         /\ Step(c) = "delete" => c \in ResetCalls
         /\ Step(c) = "leave" => c \in KeyCalls
         /\ Step(c) \in {"sweep", "sweeps"} => c \in SweepCalls
         /\ Step(c) = "walk" => c \in StatsCalls
         /\ Step(c) \in {"lockMaps", "reasons", "policies", "unlockMaps", "readSamples",
                         "readNanos", "readAllowed", "readDenied"} => c \in SnapshotCalls
         /\ Step(c) = "peeked" => c \in PeekCalls
         /\ Step(c) = "resets" => c \in ResetCalls
         /\ Step(c) = "canceled" => c \in CancelCalls
         /\ Step(c) \in {"charged", "softHits", "chargeDenied", "refunded", "refundDenied"}
              => c \in QuotaCalls
         /\ Step(c) \notin {"allowed", "denied", "waitNanos", "waitSamples"}
  <1>1. CASE c \in GrantCalls
    <2>1. c.todo \in GrantLeft /\ c.key \in Keys /\ c.ok
      BY <1>1 DEF GrantCalls
    <2> QED
      BY <1>1, <2>1, GrantPath DEF Step, KeyCalls, AllowCalls
  <1>2. CASE c \in DenyCalls
    <2>1. c.todo \in DenyLeft /\ c.key \in Keys
      BY <1>2 DEF DenyCalls
    <2> QED
      BY <1>2, <2>1, DenyPath DEF Step, KeyCalls, AllowCalls
  <1>3. CASE c \in WaitCalls
    <2>1. c.todo \in WaitLeft /\ c.key \in Keys /\ c.ok = FALSE /\ c.wait \in Waits \ {0}
      BY <1>3 DEF WaitCalls
    <2> QED
      BY <1>3, <2>1, WaitPath DEF Step, KeyCalls, AllowCalls
  <1>4. CASE c \in InvalidCalls
    <2>1. c.todo \in InvalidLeft
      BY <1>4 DEF InvalidCalls
    <2> QED
      BY <1>4, <2>1, InvalidPath DEF Step, AllowCalls
  <1>5. CASE c \in PeekCalls
    <2>1. c.todo \in PeekLeft
      BY <1>5 DEF PeekCalls
    <2> QED
      BY <1>5, <2>1, PeekPath DEF Step, KeyCalls
  <1>6. CASE c \in ResetCalls
    <2>1. c.todo \in ResetLeft
      BY <1>6 DEF ResetCalls
    <2> QED
      BY <1>6, <2>1, ResetPath DEF Step
  <1>7. CASE c \in CancelCalls
    <2>1. c.todo \in CancelLeft
      BY <1>7 DEF CancelCalls
    <2> QED
      BY <1>7, <2>1, CancelPath DEF Step, KeyCalls
  <1>8. CASE c \in QuotaCalls
    <2>1. c.todo \in QuotaLeft
      BY <1>8 DEF QuotaCalls
    <2> QED
      BY <1>8, <2>1, QuotaPath DEF Step
  <1>9. CASE c \in SweepCalls
    <2>1. c.todo \in SweepLeft
      BY <1>9 DEF SweepCalls
    <2> QED
      BY <1>9, <2>1, SweepPath DEF Step
  <1>10. CASE c \in StatsCalls
    <2>1. c.todo \in StatsLeft
      BY <1>10 DEF StatsCalls
    <2> QED
      BY <1>10, <2>1, StatsPath DEF Step
  <1>11. CASE c \in SnapshotCalls
    <2>1. c.todo \in SnapshotLeft
      BY <1>11 DEF SnapshotCalls
    <2> QED
      BY <1>11, <2>1, SnapshotPath DEF Step
  <1>12. CASE c = Idle
    BY <1>12 DEF Idle, Step, First
  <1> QED
    BY <1>1, <1>2, <1>3, <1>4, <1>5, <1>6, <1>7, <1>8, <1>9, <1>10, <1>11, <1>12
       DEF Calls, AllowCalls

LEMMA OpOf ==
  ASSUME NEW c \in Calls
  PROVE  /\ c.op \in {"allow", "peek", "reset", "cancel", "quota", "sweep", "stats", "snapshot", "none"}
         /\ c.op = "allow" <=> c \in AllowCalls
         /\ c.op = "peek" <=> c \in PeekCalls
         /\ c.op = "reset" <=> c \in ResetCalls
         /\ c.op = "cancel" <=> c \in CancelCalls
         /\ c.op = "quota" <=> c \in QuotaCalls
         /\ c.op = "sweep" <=> c \in SweepCalls
         /\ c.op = "stats" <=> c \in StatsCalls
         /\ c.op = "snapshot" <=> c \in SnapshotCalls
         /\ c.op = "none" <=> c = Idle
  <1>1. \A x \in AllowCalls : x.op = "allow"
    BY DEF AllowCalls, GrantCalls, DenyCalls, WaitCalls, InvalidCalls
  <1>2. /\ \A x \in PeekCalls : x.op = "peek"
        /\ \A x \in ResetCalls : x.op = "reset"
        /\ \A x \in CancelCalls : x.op = "cancel"
        /\ \A x \in QuotaCalls : x.op = "quota"
    BY DEF PeekCalls, ResetCalls, CancelCalls, QuotaCalls
  <1>3. /\ \A x \in SweepCalls : x.op = "sweep"
        /\ \A x \in StatsCalls : x.op = "stats"
        /\ \A x \in SnapshotCalls : x.op = "snapshot"
    BY DEF SweepCalls, StatsCalls, SnapshotCalls
  <1> QED
    BY <1>1, <1>2, <1>3 DEF Calls, Idle

LEMMA KeyOf ==
  ASSUME NEW c \in KeyCalls
  PROVE  c \in Calls /\ c.key \in Keys
  BY DEF KeyCalls, Calls, AllowCalls, GrantCalls, DenyCalls, WaitCalls, PeekCalls, CancelCalls

LEMMA AllowStep ==
  ASSUME NEW c \in AllowCalls
  PROVE  Step(c) \in {"enter", "total", "find", "bump", "reserved", "nanos", "sample", "leave",
                     "end"}
  <1>1. CASE c \in GrantCalls
    BY <1>1, GrantPath DEF GrantCalls, Step
  <1>2. CASE c \in DenyCalls
    BY <1>2, DenyPath DEF DenyCalls, Step
  <1>3. CASE c \in WaitCalls
    BY <1>3, WaitPath DEF WaitCalls, Step
  <1>4. CASE c \in InvalidCalls
    BY <1>4, InvalidPath DEF InvalidCalls, Step
  <1> QED
    BY <1>1, <1>2, <1>3, <1>4 DEF AllowCalls

LEMMA AllowOf ==
  ASSUME NEW c \in AllowCalls
  PROVE  /\ c.ok \in BOOLEAN
         /\ c.ok => c.of \in Policies
         /\ ~c.ok => c.of \in Reasons
  BY DEF AllowCalls, GrantCalls, DenyCalls, WaitCalls, InvalidCalls

\* Whoever has a lock has still to let go of it.
LEMMA InsideLeaves ==
  ASSUME NEW c, Inside(c)
  PROVE  c \in Calls /\ c.key \in Keys /\ "leave" \in Range(c.todo)
  <1>1. CASE c \in GrantCalls
    <2>1. c.todo \in GrantLeft
      BY <1>1 DEF GrantCalls
    <2> QED
      BY <2>1, KeyOf, GrantPath DEF Inside, Step
  <1>2. CASE c \in DenyCalls
    <2>1. c.todo \in DenyLeft
      BY <1>2 DEF DenyCalls
    <2> QED
      BY <2>1, KeyOf, DenyPath DEF Inside, Step
  <1>3. CASE c \in WaitCalls
    <2>1. c.todo \in WaitLeft
      BY <1>3 DEF WaitCalls
    <2> QED
      BY <2>1, KeyOf, WaitPath DEF Inside, Step
  <1>4. CASE c \in PeekCalls
    <2>1. c.todo \in PeekLeft
      BY <1>4 DEF PeekCalls
    <2> QED
      BY <2>1, KeyOf, PeekPath DEF Inside, Step
  <1>5. CASE c \in CancelCalls
    <2>1. c.todo \in CancelLeft
      BY <1>5 DEF CancelCalls
    <2> QED
      BY <2>1, KeyOf, CancelPath DEF Inside, Step
  <1> QED
    BY <1>1, <1>2, <1>3, <1>4, <1>5 DEF Inside, KeyCalls

LEMMA InMapsUnlocks ==
  ASSUME NEW c, InMaps(c)
  PROVE  c \in Calls /\ "unlockMaps" \in Range(c.todo)
  <1>1. c.todo \in SnapshotLeft /\ c \in Calls
    BY DEF InMaps, SnapshotCalls, Calls
  <1> QED
    BY <1>1, SnapshotInMaps DEF InMaps, Step

\* From one step of any call to the next.
Goes(c, d) ==
  /\ d \in Calls
  /\ d.op = c.op
  /\ c \in AllowCalls => Decides(c, d)
  /\ Inside(c) /\ Step(c) # "leave" => Inside(d) /\ d.key = c.key
  /\ Step(c) \in {"enter", "look"} => Inside(d) /\ d.key = c.key
  /\ c \in SweepCalls => d.n = c.n
  /\ Step(c) = "sweeps" => Step(d) = "end"
  /\ c \in SnapshotCalls =>
       /\ d.reasons = c.reasons /\ d.policies = c.policies
       /\ d.samples = c.samples /\ d.nanos = c.nanos
       /\ d.allowed = c.allowed /\ d.denied = c.denied
  /\ Step(c) = "lockMaps" => Step(d) = "reasons"
  /\ Step(c) = "reasons" => Step(d) = "policies"
  /\ Step(c) = "policies" => Step(d) = "unlockMaps"
  /\ Step(c) = "unlockMaps" => Step(d) = "readSamples"
  /\ Step(c) = "readSamples" => Step(d) = "readNanos"
  /\ Step(c) = "readNanos" => Step(d) = "readAllowed"
  /\ Step(c) = "readAllowed" => Step(d) = "readDenied"
  /\ Step(c) = "readDenied" => Step(d) = "end"

LEMMA PeekGoes ==
  ASSUME NEW c \in PeekCalls, c.todo # <<>>, NEW d, d = [c EXCEPT !.todo = Tail(@)]
  PROVE  Goes(c, d)
  <1>1. c.todo \in PeekLeft /\ c.op = "peek" /\ c \in Calls
    BY DEF PeekCalls, Calls
  <1>2. Tail(c.todo) \in PeekLeft
    BY <1>1, Rest3 DEF PeekLeft
  <1>3. d \in PeekCalls /\ d.todo = Tail(c.todo) /\ d.key = c.key /\ d.op = c.op
    BY <1>2 DEF PeekCalls
  <1>4. c \notin AllowCalls /\ c \notin SweepCalls /\ c \notin SnapshotCalls
    BY <1>1, OpOf
  <1>5. d \in Calls /\ d \in KeyCalls
    BY <1>3 DEF Calls, KeyCalls
  <1> QED
    BY <1>1, <1>3, <1>4, <1>5, PeekPath DEF Goes, Step, Inside

LEMMA ResetGoes ==
  ASSUME NEW c \in ResetCalls, c.todo # <<>>, NEW d, d = [c EXCEPT !.todo = Tail(@)]
  PROVE  Goes(c, d)
  <1>1. c.todo \in ResetLeft /\ c.op = "reset" /\ c \in Calls
    BY DEF ResetCalls, Calls
  <1>2. Tail(c.todo) \in ResetLeft
    BY <1>1, Rest2 DEF ResetLeft
  <1>3. d \in ResetCalls /\ d.op = c.op
    BY <1>2 DEF ResetCalls
  <1>4. c \notin AllowCalls /\ c \notin SweepCalls /\ c \notin SnapshotCalls /\ d \in Calls
    BY <1>1, <1>3, OpOf DEF Calls
  <1> QED
    BY <1>1, <1>3, <1>4, ResetPath DEF Goes, Step, Inside

LEMMA CancelGoes ==
  ASSUME NEW c \in CancelCalls, c.todo # <<>>, NEW d, d = [c EXCEPT !.todo = Tail(@)]
  PROVE  Goes(c, d)
  <1>1. c.todo \in CancelLeft /\ c.op = "cancel" /\ c \in Calls
    BY DEF CancelCalls, Calls
  <1>2. Tail(c.todo) \in CancelLeft
    BY <1>1, Rest3 DEF CancelLeft
  <1>3. d \in CancelCalls /\ d.todo = Tail(c.todo) /\ d.key = c.key /\ d.op = c.op
    BY <1>2 DEF CancelCalls
  <1>4. c \notin AllowCalls /\ c \notin SweepCalls /\ c \notin SnapshotCalls
    BY <1>1, OpOf
  <1>5. d \in Calls /\ d \in KeyCalls
    BY <1>3 DEF Calls, KeyCalls
  <1> QED
    BY <1>1, <1>3, <1>4, <1>5, CancelPath DEF Goes, Step, Inside

LEMMA QuotaGoes ==
  ASSUME NEW c \in QuotaCalls, c.todo # <<>>, NEW d, d = [c EXCEPT !.todo = Tail(@)]
  PROVE  Goes(c, d)
  <1>1. c.todo \in QuotaLeft /\ c.op = "quota" /\ c \in Calls
    BY DEF QuotaCalls, Calls
  <1>2. Tail(c.todo) \in QuotaLeft
    BY <1>1, Rest1, Rest2 DEF QuotaLeft
  <1>3. d \in QuotaCalls /\ d.op = c.op
    BY <1>2 DEF QuotaCalls
  <1>4. c \notin AllowCalls /\ c \notin SweepCalls /\ c \notin SnapshotCalls /\ d \in Calls
    BY <1>1, <1>3, OpOf DEF Calls
  <1> QED
    BY <1>1, <1>3, <1>4, QuotaPath DEF Goes, Step, Inside

LEMMA SweepGoes ==
  ASSUME NEW c \in SweepCalls, c.todo # <<>>, NEW d, d = [c EXCEPT !.todo = Tail(@)]
  PROVE  Goes(c, d)
  <1>1. c.todo \in SweepLeft /\ c.op = "sweep" /\ c \in Calls
    BY DEF SweepCalls, Calls
  <1>2. Tail(c.todo) \in SweepLeft /\ First(Tail(c.todo)) # "sweep"
    BY <1>1, Rest2, SweepPath DEF SweepLeft
  <1>3. d \in SweepCalls /\ d.op = c.op /\ d.n = c.n /\ d.todo = Tail(c.todo)
    BY <1>2 DEF SweepCalls
  <1>4. c \notin AllowCalls /\ c \notin SnapshotCalls /\ d \in Calls
    BY <1>1, <1>3, OpOf DEF Calls
  <1>5. First(c.todo) \in {"sweep", "sweeps"}
    BY <1>1, SweepPath
  <1> QED
    BY <1>1, <1>3, <1>4, <1>5, SweepPath DEF Goes, Step, Inside

LEMMA SnapshotGoes ==
  ASSUME NEW c \in SnapshotCalls, c.todo # <<>>, NEW d, d = [c EXCEPT !.todo = Tail(@)]
  PROVE  Goes(c, d)
  <1>1. c.todo \in SnapshotLeft /\ c.op = "snapshot" /\ c \in Calls
    BY DEF SnapshotCalls, Calls
  <1>2. Tail(c.todo) \in SnapshotLeft
    BY <1>1, Rest8 DEF SnapshotLeft
  <1>3. /\ d \in SnapshotCalls /\ d.op = c.op /\ d.todo = Tail(c.todo)
        /\ d.reasons = c.reasons /\ d.policies = c.policies
        /\ d.samples = c.samples /\ d.nanos = c.nanos
        /\ d.allowed = c.allowed /\ d.denied = c.denied
    BY <1>2 DEF SnapshotCalls
  <1>4. c \notin AllowCalls /\ c \notin SweepCalls /\ d \in Calls
    BY <1>1, <1>3, OpOf DEF Calls
  <1>5. First(c.todo) \notin {"enter", "look", "total", "find", "bump", "reserved", "nanos",
                              "sample", "peeked", "leave", "sweeps"}
    BY <1>1, SnapshotPath
  <1> QED
    BY <1>1, <1>3, <1>4, <1>5, SnapshotPath DEF Goes, Step, Inside

LEMMA CallGoes ==
  ASSUME NEW c \in Calls, c.todo # <<>>, Step(c) # "walk",
         NEW d, d = [c EXCEPT !.todo = Tail(@)]
  PROVE  Goes(c, d)
  <1>1. CASE c \in AllowCalls
    <2>1. Decides(c, d) /\ d.op = c.op
      <3>1. d.op = c.op
        BY <1>1 DEF AllowCalls, GrantCalls, DenyCalls, WaitCalls, InvalidCalls
      <3> QED
        BY <1>1, <3>1, AllowDecides
    <2>2. c \notin SweepCalls /\ c \notin SnapshotCalls /\ d \in Calls
      BY <1>1, <2>1, OpOf DEF Calls, Decides
    <2>3. Step(c) \notin {"look", "sweeps", "lockMaps", "reasons", "policies", "unlockMaps",
                        "readSamples", "readNanos", "readAllowed", "readDenied"}
      <3>1. c \notin PeekCalls /\ c \notin CancelCalls
        BY <1>1, OpOf
      <3> QED
        BY <2>2, <3>1, StepOf
    <2> QED
      BY <1>1, <2>1, <2>2, <2>3 DEF Goes, Decides
  <1>2. CASE c \in PeekCalls
    BY <1>2, PeekGoes
  <1>3. CASE c \in ResetCalls
    BY <1>3, ResetGoes
  <1>4. CASE c \in CancelCalls
    BY <1>4, CancelGoes
  <1>5. CASE c \in QuotaCalls
    BY <1>5, QuotaGoes
  <1>6. CASE c \in SweepCalls
    BY <1>6, SweepGoes
  <1>7. CASE c \in SnapshotCalls
    BY <1>7, SnapshotGoes
  <1>8. CASE c \in StatsCalls
    <2>1. c.todo \in StatsLeft
      BY <1>8 DEF StatsCalls
    <2> QED
      BY <2>1, StatsPath DEF Step
  <1> QED
    BY <1>1, <1>2, <1>3, <1>4, <1>5, <1>6, <1>7, <1>8 DEF Calls, Idle

-----------------------------------------------------------------------------
(* Types, and who holds which lock.                                        *)

Callers == calling \in [Goroutines -> Calls]

Entries ==
  /\ items \subseteq Keys /\ IsFiniteSet(items)
  /\ stats \in [Shards -> Tallies]
  /\ found \in Nat
  /\ always \in [Goroutines -> SUBSET Keys]
  /\ ever \in [Goroutines -> SUBSET Keys]
  /\ \A g \in Goroutines : IsFiniteSet(ever[g])

Counters0 ==
  /\ count \in [Counters -> Nat]
  /\ calls \in 0..MaxCalls
  /\ held \in Nat

Maps ==
  /\ byPolicy \in [Policies -> Nat \cup {NIL}]
  /\ byReason \in [Reasons -> Nat \cup {NIL}]

\* bumpMap finds a counter before it counts.
Counted(c) ==
  c \in AllowCalls /\ Step(c) = "bump" =>
    IF c.ok THEN byPolicy[c.of] # NIL ELSE byReason[c.of] # NIL

AllCounted == \A g \in Goroutines : Counted(calling[g])

Locked ==
  /\ lock \in [Shards -> Goroutines \cup {NIL}]
  /\ \A s \in Shards :
       lock[s] # NIL =>
         LET c == calling[lock[s]] IN Inside(c) /\ ShardOf[c.key] = s

MapsLocked ==
  /\ mu \in Goroutines \cup {NIL}
  /\ mu # NIL => InMaps(calling[mu])

Typed == Callers /\ Entries /\ Counters0 /\ Maps /\ AllCounted /\ Locked /\ MapsLocked

\* A step of one goroutine that takes one step off its list.
Advances(g) == calling[g].todo # <<>> /\ Done(g, calling[g])

LEMMA AdvanceGoes ==
  ASSUME Callers, NEW g \in Goroutines, Advances(g), Step(calling[g]) # "walk"
  PROVE  \E d : /\ calling' = [calling EXCEPT ![g] = d]
                /\ Goes(calling[g], d)
  <1>1. calling[g] \in Calls
    BY DEF Callers, Advances
  <1> DEFINE d == [calling[g] EXCEPT !.todo = Tail(@)]
  <1>2. Goes(calling[g], d)
    BY <1>1, CallGoes DEF Advances
  <1> QED
    BY <1>2 DEF Advances, Done

LEMMA AtStep ==
  ASSUME Callers, NEW g \in Goroutines, NEW step, At(g, step)
  PROVE  /\ calling[g] \in Calls /\ calling[g].todo # <<>>
         /\ Step(calling[g]) = step
  BY DEF Callers, At, Step, First

\* Calls as they begin.
LEMMA FreshCalls ==
  ASSUME ObserversAssumption, NEW k \in Keys
  PROVE  /\ \A p \in Policies :
              LET c == [op |-> "allow", key |-> k, ok |-> TRUE, of |-> p, wait |-> 0,
                        todo |-> AllowSteps(TRUE, 0)]
              IN c \in GrantCalls /\ Step(c) = "enter"
         /\ \A r \in Reasons, w \in Waits :
              LET c == [op |-> "allow", key |-> k, ok |-> FALSE, of |-> r, wait |-> w,
                        todo |-> AllowSteps(FALSE, w)]
              IN c \in DenyCalls \cup WaitCalls /\ Step(c) = "enter"
         /\ LET c == [op |-> "peek", key |-> k, todo |-> <<"look", "peeked", "leave">>]
            IN c \in PeekCalls /\ Step(c) = "look"
         /\ LET c == [op |-> "reset", key |-> k, todo |-> <<"delete", "resets">>]
            IN c \in ResetCalls /\ Step(c) = "delete"
         /\ LET c == [op |-> "cancel", key |-> k, todo |-> <<"look", "leave", "canceled">>]
            IN c \in CancelCalls /\ Step(c) = "look"
  <1>1. ASSUME NEW p \in Policies, NEW c,
               c = [op |-> "allow", key |-> k, ok |-> TRUE, of |-> p, wait |-> 0,
                    todo |-> AllowSteps(TRUE, 0)]
        PROVE  c \in GrantCalls /\ Step(c) = "enter"
    <2>1. PICK t : t = <<"enter", "total", "find", "bump", "reserved", "leave">>
      OBVIOUS
    <2>2. t \in GrantLeft /\ First(t) = "enter"
      BY <2>1 DEF GrantLeft, After6, First
    <2>3. AllowSteps(TRUE, 0) = t
      BY <2>1, AllowStepsAre
    <2> QED
      BY <1>1, <2>2, <2>3 DEF GrantCalls, Step
  <1>2. ASSUME NEW r \in Reasons, NEW w \in Waits, NEW c,
               c = [op |-> "allow", key |-> k, ok |-> FALSE, of |-> r, wait |-> w,
                    todo |-> AllowSteps(FALSE, w)]
        PROVE  c \in DenyCalls \cup WaitCalls /\ Step(c) = "enter"
    <2>1. w \in Nat
      BY DEF ObserversAssumption
    <2>2. CASE w > 0
      <3>1. PICK t : t = <<"enter", "total", "find", "bump", "nanos", "sample", "leave">>
        OBVIOUS
      <3>2. t \in WaitLeft /\ First(t) = "enter"
        BY <3>1 DEF WaitLeft, After7, First
      <3>3. AllowSteps(FALSE, w) = <<"enter", "total", "find", "bump", "nanos", "sample", "leave">>
        BY <2>1, <2>2, AllowStepsAre
      <3>4. AllowSteps(FALSE, w) = t
        BY <3>1, <3>3
      <3>5. w \in Waits \ {0}
        BY <2>1, <2>2
      <3> QED
        BY <1>2, <3>2, <3>4, <3>5 DEF WaitCalls, Step
    <2>3. CASE w = 0
      <3>1. PICK t : t = <<"enter", "total", "find", "bump", "leave">>
        OBVIOUS
      <3>2. t \in DenyLeft /\ First(t) = "enter"
        BY <3>1 DEF DenyLeft, After5, First
      <3>3. AllowSteps(FALSE, w) = t
        BY <2>3, <3>1, AllowStepsAre
      <3> QED
        BY <1>2, <2>3, <3>2, <3>3 DEF DenyCalls, Step
    <2> QED
      BY <2>1, <2>2, <2>3
  <1>3. LET c == [op |-> "peek", key |-> k, todo |-> <<"look", "peeked", "leave">>]
        IN c \in PeekCalls /\ Step(c) = "look"
    <2>1. <<"look", "peeked", "leave">> \in PeekLeft /\ First(<<"look", "peeked", "leave">>) = "look"
      BY DEF PeekLeft, After3, First
    <2> QED
      BY <2>1 DEF PeekCalls, Step
  <1>4. LET c == [op |-> "reset", key |-> k, todo |-> <<"delete", "resets">>]
        IN c \in ResetCalls /\ Step(c) = "delete"
    <2>1. <<"delete", "resets">> \in ResetLeft /\ First(<<"delete", "resets">>) = "delete"
      BY DEF ResetLeft, After2, First
    <2> QED
      BY <2>1 DEF ResetCalls, Step
  <1>5. LET c == [op |-> "cancel", key |-> k, todo |-> <<"look", "leave", "canceled">>]
        IN c \in CancelCalls /\ Step(c) = "look"
    <2>1. /\ <<"look", "leave", "canceled">> \in CancelLeft
          /\ First(<<"look", "leave", "canceled">>) = "look"
      BY DEF CancelLeft, After3, First
    <2> QED
      BY <2>1 DEF CancelCalls, Step
  <1> QED
    BY <1>1, <1>2, <1>3, <1>4, <1>5

LEMMA NoReadings == ASSUME NEW S PROVE <<>> \in Readings(S)
  <1>1. <<>> \in [{} -> Nat]
    OBVIOUS
  <1> QED
    BY <1>1 DEF Readings

LEMMA OtherFreshCalls ==
  ASSUME ObserversAssumption
  PROVE  /\ \A r \in Reasons :
              LET c == [op |-> "allow", key |-> NIL, ok |-> FALSE, of |-> r, wait |-> 0,
                        todo |-> CountSteps(FALSE, 0)]
              IN c \in InvalidCalls /\ Step(c) = "total"
         /\ \A steps \in QuotaSteps :
              LET c == [op |-> "quota", todo |-> steps]
              IN c \in QuotaCalls /\ Step(c) \notin {"end", "softHits"}
         /\ LET c == [op |-> "sweep", left |-> Shards, n |-> 0, todo |-> <<"sweep", "sweeps">>]
            IN c \in SweepCalls /\ Step(c) = "sweep"
         /\ LET c == [op |-> "snapshot", todo |-> SnapshotSteps,
                      reasons |-> <<>>, policies |-> <<>>, samples |-> 0, nanos |-> 0,
                      allowed |-> 0, denied |-> 0]
            IN c \in SnapshotCalls /\ Step(c) = "lockMaps"
         /\ LET c == [op |-> "stats", left |-> ShardsToWalk, n |-> 0, sum |-> Zero,
                      todo |-> <<"walk">>]
            IN c \in StatsCalls /\ Step(c) = "walk"
  <1>1. ASSUME NEW r \in Reasons
        PROVE  LET c == [op |-> "allow", key |-> NIL, ok |-> FALSE, of |-> r, wait |-> 0,
                         todo |-> CountSteps(FALSE, 0)]
               IN c \in InvalidCalls /\ Step(c) = "total"
    <2>1. PICK t : t = <<"total", "find", "bump">>
      OBVIOUS
    <2>2. t \in InvalidLeft /\ First(t) = "total"
      BY <2>1 DEF InvalidLeft, After3, First
    <2>3. CountSteps(FALSE, 0) = t
      BY <2>1, CountStepsAre
    <2> QED
      BY <2>2, <2>3 DEF InvalidCalls, Step
  <1>2. ASSUME NEW steps \in QuotaSteps
        PROVE  LET c == [op |-> "quota", todo |-> steps]
               IN c \in QuotaCalls /\ Step(c) \notin {"end", "softHits"}
    <2>1. steps \in QuotaLeft /\ First(steps) \notin {"end", "softHits"}
      BY DEF QuotaSteps, QuotaLeft, After2, After1, First
    <2> QED
      BY <2>1 DEF QuotaCalls, Step
  <1>3. LET c == [op |-> "sweep", left |-> Shards, n |-> 0, todo |-> <<"sweep", "sweeps">>]
        IN c \in SweepCalls /\ Step(c) = "sweep"
    <2>1. <<"sweep", "sweeps">> \in SweepLeft /\ First(<<"sweep", "sweeps">>) = "sweep"
      BY DEF SweepLeft, After2, First
    <2> QED
      BY <2>1 DEF SweepCalls, Step, ObserversAssumption
  <1>4. LET c == [op |-> "snapshot", todo |-> SnapshotSteps,
                  reasons |-> <<>>, policies |-> <<>>, samples |-> 0, nanos |-> 0,
                  allowed |-> 0, denied |-> 0]
        IN c \in SnapshotCalls /\ Step(c) = "lockMaps"
    <2>1. SnapshotSteps \in SnapshotLeft /\ First(SnapshotSteps) = "lockMaps"
      BY DEF SnapshotSteps, SnapshotLeft, After8, First
    <2>2. <<>> \in Readings(Reasons) /\ <<>> \in Readings(Policies)
      BY NoReadings
    <2> QED
      BY <2>1, <2>2 DEF SnapshotCalls, Step
  <1>5. LET c == [op |-> "stats", left |-> ShardsToWalk, n |-> 0, sum |-> Zero,
                  todo |-> <<"walk">>]
        IN c \in StatsCalls /\ Step(c) = "walk"
    <2>1. <<"walk">> \in StatsLeft /\ First(<<"walk">>) = "walk"
      BY DEF StatsLeft, After1, First
    <2>2. Zero \in Tallies
      BY DEF Zero, Tallies
    <2> QED
      BY <2>1, <2>2 DEF StatsCalls, Step, ShardsToWalk, ObserversAssumption
  <1> QED
    BY <1>1, <1>2, <1>3, <1>4, <1>5

-----------------------------------------------------------------------------
(* A goroutine moves, and the others keep what they have.                  *)

Moves(g, d) == calling' = [calling EXCEPT ![g] = d]

\* Whoever holds a lock holds it still.
Keeps(c, d) ==
  /\ Inside(c) => Inside(d) /\ d.key = c.key
  /\ InMaps(c) => InMaps(d)

\* Counters of a map are made, and never taken away.
Grown ==
  /\ \A p \in Policies : byPolicy[p] # NIL => byPolicy'[p] # NIL
  /\ \A r \in Reasons : byReason[r] # NIL => byReason'[r] # NIL

LEMMA Moved ==
  ASSUME Callers, NEW g \in Goroutines, NEW d \in Calls, Moves(g, d)
  PROVE  /\ Callers'
         /\ calling'[g] = d
         /\ \A h \in Goroutines : h # g => calling'[h] = calling[h]
  BY DEF Callers, Moves

LEMMA LocksStay ==
  ASSUME Callers, Locked, NEW g \in Goroutines, NEW d \in Calls, Moves(g, d),
         Keeps(calling[g], d), lock' = lock
  PROVE  Locked'
  <1>1. /\ calling'[g] = d
        /\ \A h \in Goroutines : h # g => calling'[h] = calling[h]
    BY Moved
  <1>2. ASSUME NEW s \in Shards, lock[s] # NIL
        PROVE  Inside(calling'[lock[s]]) /\ ShardOf[calling'[lock[s]].key] = s
    <2>1. lock[s] \in Goroutines /\ Inside(calling[lock[s]])
          /\ ShardOf[calling[lock[s]].key] = s
      BY <1>2 DEF Locked
    <2> QED
      BY <1>1, <2>1 DEF Keeps
  <1> QED
    BY <1>2 DEF Locked

LEMMA MutexStays ==
  ASSUME Callers, MapsLocked, NEW g \in Goroutines, NEW d \in Calls, Moves(g, d),
         Keeps(calling[g], d), mu' = mu
  PROVE  MapsLocked'
  <1>1. /\ calling'[g] = d
        /\ \A h \in Goroutines : h # g => calling'[h] = calling[h]
    BY Moved
  <1>2. mu # NIL => InMaps(calling'[mu])
    BY <1>1 DEF MapsLocked, Keeps
  <1> QED
    BY <1>2 DEF MapsLocked

LEMMA CountedStays ==
  ASSUME Callers, AllCounted, NEW g \in Goroutines, NEW d \in Calls, Moves(g, d),
         Grown, Counted(d)'
  PROVE  AllCounted'
  <1>1. /\ calling'[g] = d
        /\ \A h \in Goroutines : h # g => calling'[h] = calling[h]
    BY Moved
  <1>2. ASSUME NEW h \in Goroutines
        PROVE  Counted(calling[h])'
    <2>1. CASE h = g
      BY <1>1, <2>1 DEF Counted
    <2>2. CASE h # g
      <3>1. Counted(calling[h]) /\ calling'[h] = calling[h]
        BY <1>1, <2>2 DEF AllCounted
      <3> QED
        BY <3>1, AllowOf DEF Counted, Grown
    <2> QED
      BY <2>1, <2>2
  <1> QED
    BY <1>2 DEF AllCounted

LEMMA TypedStays ==
  ASSUME Typed, NEW g \in Goroutines, NEW d \in Calls, Moves(g, d),
         Keeps(calling[g], d), Grown, Counted(d)', lock' = lock, mu' = mu,
         Entries', Counters0', Maps'
  PROVE  Typed'
  BY Moved, LocksStay, MutexStays, CountedStays DEF Typed

\* Calls begin without a lock.
LEMMA BeginTyped ==
  ASSUME Typed, NEW g \in Goroutines, NEW c \in Calls, Begin(g, c), Step(c) # "bump",
         UNCHANGED <<count, byPolicy, byReason, lock, mu>>, Entries', held' \in Nat
  PROVE  Typed'
  <1>1. Keeps(calling[g], c)
    <2>1. calling[g] = Idle /\ ~Inside(Idle) /\ ~InMaps(Idle)
      <3>1. calling[g] = Idle /\ Step(Idle) = "end"
        BY DEF Begin, Idle, Step, First
      <3> QED
        BY <3>1 DEF Inside, InMaps
    <2> QED
      BY <2>1 DEF Keeps
  <1>2. Moves(g, c) /\ Counters0'
    BY ObserversAssumption DEF Begin, Moves, Typed, Counters0
  <1>3. Grown /\ Counted(c)' /\ Maps'
    BY DEF Grown, Counted, Maps, Typed
  <1> QED
    BY <1>1, <1>2, <1>3, TypedStays

\* What the locks, and the counters found, make of a step that goes on.
LEMMA GoesOn ==
  ASSUME NEW c \in Calls, c.todo # <<>>, NEW d, Goes(c, d)
  PROVE  /\ Step(c) \notin {"leave", "unlockMaps"} => Keeps(c, d)
         /\ Step(c) # "find" => d \notin AllowCalls \/ Step(d) # "bump"
  <1>1. d \in Calls /\ d.op = c.op
    BY DEF Goes
  <1>2. Step(c) \notin {"leave", "unlockMaps"} => Keeps(c, d)
    <2>1. Inside(c) /\ Step(c) # "leave" => Inside(d) /\ d.key = c.key
      BY DEF Goes
    <2>2. c \in SnapshotCalls => d \in SnapshotCalls
      BY <1>1, OpOf
    <2>3. InMaps(c) /\ Step(c) # "unlockMaps" => InMaps(d)
      BY <2>2 DEF InMaps, Goes
    <2> QED
      BY <2>1, <2>3 DEF Keeps
  <1>3. ASSUME Step(c) # "find", d \in AllowCalls
        PROVE  Step(d) # "bump"
    <2>1. c \in AllowCalls /\ Decides(c, d)
      BY <1>1, <1>3, OpOf DEF Goes
    <2>2. Step(c) \in {"enter", "total", "find", "bump", "reserved", "nanos", "sample", "leave"}
      BY <2>1, AllowStep, StepOf
    <2> QED
      BY <1>3, <2>1, <2>2 DEF Decides
  <1> QED
    BY <1>2, <1>3

LEMMA AdvanceTyped ==
  ASSUME Typed, NEW g \in Goroutines, Advances(g),
         Step(calling[g]) \notin {"leave", "unlockMaps", "find", "walk"},
         Grown, lock' = lock, mu' = mu, Entries', Counters0', Maps'
  PROVE  Typed'
  <1>1. PICK d : Moves(g, d) /\ Goes(calling[g], d)
    BY AdvanceGoes DEF Typed, Moves
  <1>2. calling[g] \in Calls /\ calling[g].todo # <<>> /\ d \in Calls
    BY <1>1 DEF Typed, Callers, Advances, Goes
  <1>3. Keeps(calling[g], d) /\ Counted(d)'
    BY <1>1, <1>2, GoesOn DEF Counted
  <1> QED
    BY <1>1, <1>2, <1>3, TypedStays

LEMMA SameEntries ==
  ASSUME Typed, UNCHANGED <<items, stats, found, always, ever>>
  PROVE  Entries'
  BY DEF Typed, Entries

LEMMA Reentered ==
  ASSUME Typed, NEW entries \in SUBSET Keys, IsFiniteSet(entries), Leaves(entries),
         stats' \in [Shards -> Tallies], found' \in Nat
  PROVE  Entries'
  <1>1. \A g \in Goroutines : IsFiniteSet(ever[g] \cup entries)
    BY FS_Union DEF Typed, Entries
  <1> QED
    BY <1>1 DEF Typed, Entries, Leaves

LEMMA LockTaken ==
  ASSUME Callers, Locked, NEW g \in Goroutines, NEW d \in Calls, Moves(g, d),
         Inside(d), ~Inside(calling[g]), NEW s \in Shards, ShardOf[d.key] = s,
         lock' = [lock EXCEPT ![s] = g]
  PROVE  Locked'
  <1>1. /\ calling'[g] = d
        /\ \A h \in Goroutines : h # g => calling'[h] = calling[h]
    BY Moved
  <1>2. ASSUME NEW t \in Shards, lock'[t] # NIL
        PROVE  Inside(calling'[lock'[t]]) /\ ShardOf[calling'[lock'[t]].key] = t
    <2>1. CASE t = s
      BY <1>1, <2>1 DEF Locked
    <2>2. CASE t # s
      <3>1. lock'[t] = lock[t] /\ lock[t] \in Goroutines /\ Inside(calling[lock[t]])
            /\ ShardOf[calling[lock[t]].key] = t
        BY <1>2, <2>2 DEF Locked
      <3> QED
        BY <1>1, <3>1
    <2> QED
      BY <2>1, <2>2
  <1> QED
    BY <1>2 DEF Locked

LEMMA LockFreed ==
  ASSUME Callers, Locked, NEW g \in Goroutines, NEW d \in Calls, Moves(g, d),
         NEW s \in Shards, ShardOf[calling[g].key] = s, lock' = [lock EXCEPT ![s] = NIL]
  PROVE  Locked'
  <1>1. /\ calling'[g] = d
        /\ \A h \in Goroutines : h # g => calling'[h] = calling[h]
    BY Moved
  <1>2. ASSUME NEW t \in Shards, lock'[t] # NIL
        PROVE  Inside(calling'[lock'[t]]) /\ ShardOf[calling'[lock'[t]].key] = t
    <2>1. t # s /\ lock'[t] = lock[t]
      BY <1>2 DEF Locked
    <2>2. lock[t] \in Goroutines /\ Inside(calling[lock[t]])
          /\ ShardOf[calling[lock[t]].key] = t
      BY <1>2, <2>1 DEF Locked
    <2> QED
      BY <1>1, <2>1, <2>2
  <1> QED
    BY <1>2 DEF Locked

\* From outside to inside the lock of a key.
LEMMA EntryTyped ==
  ASSUME Typed, NEW g \in Goroutines, Advances(g), Step(calling[g]) \in {"enter", "look"},
         lock' = [lock EXCEPT ![ShardOf[Key(g)]] = g],
         mu' = mu, Grown, Entries', Counters0', Maps'
  PROVE  Typed'
  <1>1. PICK d : Moves(g, d) /\ Goes(calling[g], d)
    BY AdvanceGoes DEF Typed, Moves
  <1>2. calling[g] \in Calls /\ calling[g].todo # <<>> /\ d \in Calls
    BY <1>1 DEF Typed, Callers, Advances, Goes
  <1>3. Inside(d) /\ d.key = calling[g].key /\ ~Inside(calling[g]) /\ Keeps(calling[g], d)
    BY <1>1, <1>2, GoesOn DEF Goes, Inside
  <1>4. ShardOf[Key(g)] \in Shards
    <2>1. d.key \in Keys
      BY <1>3, InsideLeaves
    <2> QED
      BY <1>3, <2>1, ObserversAssumption DEF Key
  <1>5. Locked' /\ MapsLocked' /\ Callers'
    BY <1>1, <1>2, <1>3, <1>4, LockTaken, MutexStays, Moved DEF Typed, Key
  <1>6. Counted(d)'
    BY <1>1, <1>2, GoesOn DEF Counted
  <1> QED
    BY <1>1, <1>2, <1>5, <1>6, CountedStays DEF Typed

LEMMA LookedIs ==
  ASSUME NEW st \in Tallies, NEW m \in Nat, NEW p \in Nat, NEW u, u = Looked(st, m, p)
  PROVE  /\ u \in Tallies
         /\ u.lookups = st.lookups + 1 /\ u.misses = st.misses + m
         /\ u.puts = st.puts + p /\ u.dels = st.dels
  <1>1. PICK v : v = [st EXCEPT !.lookups = @ + 1]
    OBVIOUS
  <1>2. PICK w : w = [v EXCEPT !.misses = @ + m]
    OBVIOUS
  <1>3. v \in Tallies /\ v.lookups = st.lookups + 1 /\ v.misses = st.misses
        /\ v.puts = st.puts /\ v.dels = st.dels
    BY <1>1 DEF Tallies
  <1>4. w \in Tallies /\ w.lookups = st.lookups + 1 /\ w.misses = st.misses + m
        /\ w.puts = st.puts /\ w.dels = st.dels
    BY <1>2, <1>3 DEF Tallies
  <1>5. u = [w EXCEPT !.puts = @ + p]
    BY <1>1, <1>2 DEF Looked, Tallies
  <1> QED
    BY <1>4, <1>5 DEF Tallies

\* What entering a key's shard does to its counts.
LEMMA EnterDoes ==
  ASSUME Typed, NEW g \in Goroutines, Enter(g)
  PROVE  /\ Key(g) \in Keys
         /\ \E s \in Shards, m \in {0, 1}, u \in Tallies :
              /\ s = ShardOf[Key(g)] /\ (m = 0 <=> Key(g) \in items)
              /\ stats' = [stats EXCEPT ![s] = u]
              /\ u.lookups = stats[s].lookups + 1 /\ u.misses = stats[s].misses + m
              /\ u.puts = stats[s].puts + m /\ u.dels = stats[s].dels
  <1>1. calling[g] \in Calls /\ Step(calling[g]) = "enter"
    BY AtStep DEF Enter, Typed
  <1>2. Key(g) \in Keys /\ ShardOf[Key(g)] \in Shards
    BY <1>1, StepOf, ObserversAssumption DEF Key
  <1> DEFINE st == stats[ShardOf[Key(g)]]
             m == IF Key(g) \in items THEN 0 ELSE 1
             u == Looked(st, m, m)
  <1>3. stats' = [stats EXCEPT ![ShardOf[Key(g)]] = u]
    BY DEF Enter
  <1>4. st \in Tallies /\ m \in {0, 1} /\ (m = 0 <=> Key(g) \in items)
    BY <1>2 DEF Typed, Entries
  <1> HIDE DEF st, m
  <1>5. /\ u \in Tallies
        /\ u.lookups = st.lookups + 1 /\ u.misses = st.misses + m
        /\ u.puts = st.puts + m /\ u.dels = st.dels
    BY <1>4, LookedIs
  <1> HIDE DEF u
  <1> QED
    BY <1>2, <1>3, <1>4, <1>5 DEF st

LEMMA LookDoes ==
  ASSUME Typed, NEW g \in Goroutines, Look(g)
  PROVE  /\ Key(g) \in Keys
         /\ \E s \in Shards, m \in {0, 1}, u \in Tallies :
              /\ s = ShardOf[Key(g)] /\ (m = 0 <=> Key(g) \in items)
              /\ stats' = [stats EXCEPT ![s] = u]
              /\ u.lookups = stats[s].lookups + 1 /\ u.misses = stats[s].misses + m
              /\ u.puts = stats[s].puts /\ u.dels = stats[s].dels
  <1>1. calling[g] \in Calls /\ Step(calling[g]) = "look"
    BY AtStep DEF Look, Typed
  <1>2. Key(g) \in Keys /\ ShardOf[Key(g)] \in Shards
    <2>1. calling[g] \in KeyCalls
      BY <1>1, StepOf DEF KeyCalls
    <2> QED
      BY <2>1, KeyOf, ObserversAssumption DEF Key
  <1> DEFINE st == stats[ShardOf[Key(g)]]
             m == IF Key(g) \in items THEN 0 ELSE 1
             u == Looked(st, m, 0)
  <1>3. stats' = [stats EXCEPT ![ShardOf[Key(g)]] = u]
    BY DEF Look
  <1>4. st \in Tallies /\ m \in {0, 1} /\ (m = 0 <=> Key(g) \in items)
    BY <1>2 DEF Typed, Entries
  <1> HIDE DEF st, m
  <1>5. /\ u \in Tallies
        /\ u.lookups = st.lookups + 1 /\ u.misses = st.misses + m
        /\ u.puts = st.puts + 0 /\ u.dels = st.dels
    BY <1>4, LookedIs
  <1>6. st.puts + 0 = st.puts
    BY <1>4 DEF Tallies
  <1> HIDE DEF u
  <1> QED
    BY <1>2, <1>3, <1>4, <1>5, <1>6 DEF st

LEMMA EnterTyped ==
  ASSUME Typed, NEW g \in Goroutines, Enter(g)
  PROVE  Typed'
  <1>1. calling[g] \in Calls /\ Step(calling[g]) = "enter" /\ Advances(g)
    BY AtStep DEF Enter, Typed, Advances
  <1>2. Key(g) \in Keys /\ stats' \in [Shards -> Tallies]
    BY EnterDoes DEF Typed, Entries
  <1>3. Entries'
    <2>1. IsFiniteSet(items \cup {Key(g)}) /\ items \cup {Key(g)} \in SUBSET Keys
      BY <1>2, FS_AddElement DEF Typed, Entries
    <2>2. Leaves(items \cup {Key(g)}) /\ found' \in Nat
      BY DEF Enter, Typed, Entries
    <2> QED
      BY <1>2, <2>1, <2>2, Reentered
  <1>4. Grown /\ Counters0' /\ Maps'
    BY DEF Enter, Grown, Typed, Counters0, Maps, collectorVars
  <1> QED
    BY <1>1, <1>3, <1>4, EntryTyped DEF Enter

LEMMA LookTyped ==
  ASSUME Typed, NEW g \in Goroutines, Look(g)
  PROVE  Typed'
  <1>1. calling[g] \in Calls /\ Step(calling[g]) = "look" /\ Advances(g)
    BY AtStep DEF Look, Typed, Advances
  <1>2. stats' \in [Shards -> Tallies]
    BY LookDoes DEF Typed, Entries
  <1>3. Entries' /\ Grown /\ Counters0' /\ Maps'
    BY <1>2 DEF Look, Grown, Typed, Entries, Counters0, Maps, collectorVars
  <1> QED
    BY <1>1, <1>3, EntryTyped DEF Look

LEMMA LeaveTyped ==
  ASSUME Typed, NEW g \in Goroutines, Leave(g)
  PROVE  Typed'
  <1>1. calling[g] \in Calls /\ Step(calling[g]) = "leave" /\ Advances(g)
    BY AtStep DEF Leave, Typed, Advances
  <1>2. PICK d : Moves(g, d) /\ Goes(calling[g], d)
    BY <1>1, AdvanceGoes DEF Typed, Moves
  <1>3. d \in Calls /\ calling[g].todo # <<>> /\ calling[g].key \in Keys
    BY <1>1, <1>2, StepOf, KeyOf DEF Goes, Advances
  <1>4. Locked'
    <2>1. PICK s \in Shards : s = ShardOf[calling[g].key]
      BY <1>3, ObserversAssumption
    <2>2. lock' = [lock EXCEPT ![s] = NIL]
      BY <2>1 DEF Leave, Unlock, Key
    <2> QED
      BY <1>2, <1>3, <2>1, <2>2, LockFreed DEF Typed
  <1>5. MapsLocked' /\ Callers'
    <2>1. ~InMaps(calling[g])
      BY <1>1 DEF InMaps
    <2>2. mu # NIL => InMaps(calling'[mu]) /\ mu \in Goroutines
      BY <1>2, <1>3, <2>1, Moved DEF Typed, MapsLocked
    <2> QED
      BY <1>2, <1>3, <2>2, Moved DEF Typed, Leave, MapsLocked
  <1>6. Grown /\ Counters0' /\ Maps' /\ Entries'
    BY SameEntries DEF Leave, Grown, Typed, Counters0, Maps, collectorVars, storeVars
  <1>7. Counted(d)'
    BY <1>1, <1>2, <1>3, GoesOn DEF Counted
  <1> QED
    BY <1>2, <1>3, <1>4, <1>5, <1>6, <1>7, CountedStays DEF Typed

LEMMA LeastIn ==
  ASSUME NEW S \in SUBSET Nat, S # {}
  PROVE  Min(S) \in S /\ \A x \in S : Min(S) <= x
  <1>1. \E x \in S : \A y \in S : x <= y
    BY LeastNumber
  <1> QED
    BY <1>1 DEF Min

\* A sweep that has done another shard, and swept n entries of it.
SweptShard(c, s, n) ==
  [c EXCEPT !.left = @ \ {s}, !.n = @ + n,
            !.todo = IF c.left = {s} THEN Tail(@) ELSE @]

LEMMA SweepCallMoves ==
  ASSUME NEW c \in SweepCalls, Step(c) = "sweep", NEW s \in c.left, NEW n \in Nat,
         NEW d, d = SweptShard(c, s, n)
  PROVE  /\ d \in SweepCalls /\ d.left = c.left \ {s} /\ d.n = c.n + n
         /\ Step(d) = IF c.left = {s} THEN "sweeps" ELSE "sweep"
  <1>1. c \in [op: {"sweep"}, left: SUBSET Shards, n: Nat, todo: SweepLeft]
    BY DEF SweepCalls
  <1>2. PICK t : t = IF c.left = {s} THEN Tail(c.todo) ELSE c.todo
    OBVIOUS
  <1>3. /\ t \in SweepLeft
        /\ First(t) = IF c.left = {s} THEN "sweeps" ELSE "sweep"
    <2>1. c.todo \in SweepLeft /\ First(c.todo) = "sweep"
      BY <1>1 DEF Step
    <2>2. c.todo # <<>> /\ First(Tail(c.todo)) = "sweeps"
      BY <2>1, SweepPath
    <2>3. Tail(c.todo) \in SweepLeft
      BY <2>1, <2>2, Rest2 DEF SweepLeft
    <2> QED
      BY <1>2, <2>1, <2>2, <2>3
  <1>4. PICK b : b = [c EXCEPT !.left = @ \ {s}]
    OBVIOUS
  <1>5. PICK a : a = [b EXCEPT !.n = @ + n]
    OBVIOUS
  <1>6. /\ b \in [op: {"sweep"}, left: SUBSET Shards, n: Nat, todo: SweepLeft]
        /\ b.left = c.left \ {s} /\ b.n = c.n /\ b.todo = c.todo
    BY <1>1, <1>4
  <1>7. /\ a \in [op: {"sweep"}, left: SUBSET Shards, n: Nat, todo: SweepLeft]
        /\ a.left = c.left \ {s} /\ a.n = c.n + n /\ a.todo = c.todo
    BY <1>5, <1>6
  <1>8. d = [a EXCEPT !.todo = t]
    BY <1>1, <1>2, <1>4, <1>5 DEF SweptShard
  <1>9. /\ d \in [op: {"sweep"}, left: SUBSET Shards, n: Nat, todo: SweepLeft]
        /\ d.left = c.left \ {s} /\ d.n = c.n + n /\ d.todo = t
    BY <1>3, <1>7, <1>8
  <1>10. First(d.todo) = "sweep" => d.left # {}
    <2>1. c.left # {s} => c.left \ {s} # {}
      OBVIOUS
    <2> QED
      BY <1>3, <1>9, <2>1
  <1> QED
    BY <1>3, <1>9, <1>10 DEF SweepCalls, Step

\* A shard swept.
LEMMA SweepDoes ==
  ASSUME Typed, NEW g \in Goroutines, SweepShard(g)
  PROVE  \E s \in Shards, idle \in SUBSET items, d \in SweepCalls, n \in Nat :
           /\ calling[g] \in SweepCalls /\ Step(calling[g]) = "sweep"
           /\ n = Cardinality(idle) /\ \A k \in idle : ShardOf[k] = s
           /\ stats' = [stats EXCEPT ![s] = Swept(@, n)]
           /\ Leaves(items \ idle)
           /\ Moves(g, d) /\ d.n = calling[g].n + n /\ Step(d) \in {"sweep", "sweeps"}
  <1>1. calling[g] \in SweepCalls /\ Step(calling[g]) = "sweep"
    BY AtStep, StepOf DEF SweepShard, Typed
  <1>2. calling[g].left \in SUBSET Shards /\ calling[g].left # {}
    BY <1>1 DEF SweepCalls, Step
  <1>3. PICK s : s = Min(calling[g].left)
    OBVIOUS
  <1>4. s \in calling[g].left /\ s \in Shards
    BY <1>2, <1>3, LeastIn, ObserversAssumption
  <1>5. PICK idle \in SUBSET {k \in items : ShardOf[k] = s} :
          /\ stats' = [stats EXCEPT ![s] = Swept(@, Cardinality(idle))]
          /\ Leaves(items \ idle)
          /\ Moves(g, SweptShard(calling[g], s, Cardinality(idle)))
    BY <1>3 DEF SweepShard, Moves, SweptShard
  <1>6. idle \in SUBSET items /\ Cardinality(idle) \in Nat
    BY <1>5, FS_Subset, FS_CardinalityType DEF Typed, Entries
  <1> DEFINE d == SweptShard(calling[g], s, Cardinality(idle))
  <1>7. /\ d \in SweepCalls /\ d.n = calling[g].n + Cardinality(idle)
        /\ Step(d) \in {"sweep", "sweeps"}
    BY <1>1, <1>4, <1>6, SweepCallMoves
  <1>8. Moves(g, d)
    BY <1>5
  <1> HIDE DEF d
  <1> QED
    BY <1>1, <1>4, <1>5, <1>6, <1>7, <1>8

LEMMA SweptIs ==
  ASSUME NEW st \in Tallies, NEW n \in Nat, NEW u, u = Swept(st, n)
  PROVE  /\ u \in Tallies /\ u.dels = st.dels + n
         /\ u.lookups = st.lookups /\ u.misses = st.misses /\ u.puts = st.puts
  BY DEF Swept, Tallies

LEMMA SweepTyped ==
  ASSUME Typed, NEW g \in Goroutines, SweepShard(g)
  PROVE  Typed'
  <1>1. PICK s \in Shards, idle \in SUBSET items, d \in SweepCalls, n \in Nat :
           /\ calling[g] \in SweepCalls /\ Step(calling[g]) = "sweep"
           /\ stats' = [stats EXCEPT ![s] = Swept(@, n)]
           /\ Leaves(items \ idle)
           /\ Moves(g, d)
    BY SweepDoes
  <1>2. stats' \in [Shards -> Tallies]
    <2>1. PICK u : u = Swept(stats[s], n)
      OBVIOUS
    <2>2. u \in Tallies /\ stats' = [stats EXCEPT ![s] = u]
      BY <1>1, <2>1, SweptIs DEF Typed, Entries
    <2> QED
      BY <2>2 DEF Typed, Entries
  <1>3. Entries'
    <2>1. IsFiniteSet(items \ idle) /\ items \ idle \in SUBSET Keys /\ found' \in Nat
      BY FS_Subset DEF Typed, Entries, SweepShard
    <2> QED
      BY <1>1, <1>2, <2>1, Reentered
  <1>4. Grown /\ Counters0' /\ Maps' /\ lock' = lock /\ mu' = mu
    BY DEF SweepShard, Grown, Typed, Counters0, Maps, collectorVars
  <1>5. d \in Calls /\ Keeps(calling[g], d) /\ Counted(d)'
    <2>1. d \in Calls /\ d \notin AllowCalls /\ calling[g] \in Calls
      BY <1>1, OpOf DEF Calls, SweepCalls
    <2>2. ~Inside(calling[g]) /\ ~InMaps(calling[g])
      BY <1>1 DEF Inside, InMaps
    <2> QED
      BY <2>1, <2>2 DEF Keeps, Counted
  <1> QED
    BY <1>1, <1>3, <1>4, <1>5, TypedStays

LEMMA AddedTallies ==
  ASSUME NEW a \in Tallies, NEW b \in Tallies, NEW u, u = [f \in DOMAIN a |-> a[f] + b[f]]
  PROVE  /\ u \in Tallies
         /\ u.lookups = a.lookups + b.lookups /\ u.misses = a.misses + b.misses
         /\ u.puts = a.puts + b.puts /\ u.dels = a.dels + b.dels
  <1>1. DOMAIN a = {"lookups", "misses", "puts", "dels"}
    BY DEF Tallies
  <1>2. /\ a["lookups"] \in Nat /\ a["misses"] \in Nat /\ a["puts"] \in Nat /\ a["dels"] \in Nat
        /\ b["lookups"] \in Nat /\ b["misses"] \in Nat /\ b["puts"] \in Nat /\ b["dels"] \in Nat
    BY DEF Tallies
  <1>3. u = [f \in {"lookups", "misses", "puts", "dels"} |-> a[f] + b[f]]
    BY <1>1
  <1>4. /\ u["lookups"] = a["lookups"] + b["lookups"] /\ u["misses"] = a["misses"] + b["misses"]
        /\ u["puts"] = a["puts"] + b["puts"] /\ u["dels"] = a["dels"] + b["dels"]
    BY <1>3
  <1>5. u = [lookups |-> u["lookups"], misses |-> u["misses"], puts |-> u["puts"],
             dels |-> u["dels"]]
    BY <1>3
  <1>6. /\ u["lookups"] \in Nat /\ u["misses"] \in Nat /\ u["puts"] \in Nat /\ u["dels"] \in Nat
    BY <1>2, <1>4
  <1>7. u \in Tallies
    BY <1>5, <1>6 DEF Tallies
  <1> QED
    BY <1>4, <1>7

\* A walk that has seen another shard, its n entries and its counts.
SeenShard(c, s, n, st) ==
  [c EXCEPT !.left = @ \ {s}, !.n = @ + n,
            !.sum = [f \in DOMAIN @ |-> @[f] + st[f]],
            !.todo = IF c.left = {s} THEN Tail(@) ELSE @]

LEMMA WalkCallMoves ==
  ASSUME NEW c \in StatsCalls, Step(c) = "walk", NEW s \in c.left, NEW n \in Nat,
         NEW st \in Tallies, NEW d, d = SeenShard(c, s, n, st)
  PROVE  /\ d \in StatsCalls /\ d.left = c.left \ {s} /\ d.n = c.n + n
         /\ d.sum.lookups = c.sum.lookups + st.lookups
         /\ d.sum.misses = c.sum.misses + st.misses
         /\ d.sum.puts = c.sum.puts + st.puts /\ d.sum.dels = c.sum.dels + st.dels
  <1> DEFINE Shape == [op: {"stats"}, left: SUBSET Shards, n: Nat, sum: Tallies, todo: StatsLeft]
  <1>1. c \in Shape
    BY DEF StatsCalls
  <1>2. PICK t : t = IF c.left = {s} THEN Tail(c.todo) ELSE c.todo
    OBVIOUS
  <1>3. /\ t \in StatsLeft
        /\ First(t) = IF c.left = {s} THEN "end" ELSE "walk"
    <2>1. c.todo \in StatsLeft /\ First(c.todo) = "walk"
      BY <1>1 DEF Step
    <2>2. c.todo # <<>> /\ First(Tail(c.todo)) = "end"
      BY <2>1, StatsPath
    <2>3. Tail(c.todo) \in StatsLeft
      BY <2>1, <2>2, Rest1 DEF StatsLeft
    <2> QED
      BY <1>2, <2>1, <2>2, <2>3
  <1>4. PICK u : u = [f \in DOMAIN c.sum |-> c.sum[f] + st[f]]
    OBVIOUS
  <1>5. c.sum \in Tallies
    BY <1>1
  <1>6. /\ u \in Tallies
        /\ u.lookups = c.sum.lookups + st.lookups /\ u.misses = c.sum.misses + st.misses
        /\ u.puts = c.sum.puts + st.puts /\ u.dels = c.sum.dels + st.dels
    BY <1>4, <1>5, AddedTallies
  <1>7. PICK b : b = [c EXCEPT !.left = @ \ {s}]
    OBVIOUS
  <1>8. PICK a : a = [b EXCEPT !.n = @ + n]
    OBVIOUS
  <1>9. PICK e : e = [a EXCEPT !.sum = u]
    OBVIOUS
  <1>10. b \in Shape /\ b.left = c.left \ {s} /\ b.n = c.n /\ b.todo = c.todo
    BY <1>1, <1>7
  <1>11. a \in Shape /\ a.left = c.left \ {s} /\ a.n = c.n + n /\ a.todo = c.todo
    BY <1>8, <1>10
  <1>12. e \in Shape /\ e.left = c.left \ {s} /\ e.n = c.n + n /\ e.todo = c.todo /\ e.sum = u
    BY <1>6, <1>9, <1>11
  <1>13. d = [e EXCEPT !.todo = t]
    BY <1>1, <1>2, <1>4, <1>7, <1>8, <1>9 DEF SeenShard
  <1>14. d \in Shape /\ d.left = c.left \ {s} /\ d.n = c.n + n /\ d.todo = t /\ d.sum = u
    BY <1>3, <1>12, <1>13
  <1>15. First(d.todo) = "walk" <=> d.left # {}
    <2>1. c.left # {s} <=> c.left \ {s} # {}
      OBVIOUS
    <2> QED
      BY <1>3, <1>14, <2>1
  <1> QED
    BY <1>6, <1>14, <1>15 DEF StatsCalls

Of(s) == {k \in items : ShardOf[k] = s}

\* A shard looked at.
LEMMA WalkDoes ==
  ASSUME Typed, NEW g \in Goroutines, WalkShard(g)
  PROVE  \E s \in Shards, n \in Nat, d \in StatsCalls :
           /\ calling[g] \in StatsCalls /\ s \in calling[g].left
           /\ n = Cardinality(Of(s)) /\ IsFiniteSet(Of(s))
           /\ Moves(g, d) /\ d.left = calling[g].left \ {s} /\ d.n = calling[g].n + n
           /\ d.sum.lookups = calling[g].sum.lookups + stats[s].lookups
           /\ d.sum.misses = calling[g].sum.misses + stats[s].misses
           /\ d.sum.puts = calling[g].sum.puts + stats[s].puts
           /\ d.sum.dels = calling[g].sum.dels + stats[s].dels
  <1>1. calling[g] \in StatsCalls /\ Step(calling[g]) = "walk"
    BY AtStep, StepOf DEF WalkShard, Typed
  <1>2. calling[g].left \in SUBSET Shards /\ calling[g].left # {}
    BY <1>1 DEF StatsCalls, Step
  <1>3. PICK s : s = Min(calling[g].left)
    OBVIOUS
  <1>4. s \in calling[g].left /\ s \in Shards
    BY <1>2, <1>3, LeastIn, ObserversAssumption
  <1>5. PICK n : n = Cardinality(Of(s))
    OBVIOUS
  <1>6. Moves(g, SeenShard(calling[g], s, n, stats[s]))
    BY <1>3, <1>5 DEF WalkShard, Moves, SeenShard, Of
  <1>7. IsFiniteSet(Of(s)) /\ n \in Nat
    <2>1. Of(s) \in SUBSET items
      BY DEF Of
    <2> QED
      BY <1>5, <2>1, FS_Subset, FS_CardinalityType DEF Typed, Entries
  <1> DEFINE d == SeenShard(calling[g], s, n, stats[s])
  <1>8. stats[s] \in Tallies
    BY <1>4 DEF Typed, Entries
  <1>9. /\ d \in StatsCalls /\ d.left = calling[g].left \ {s} /\ d.n = calling[g].n + n
        /\ d.sum.lookups = calling[g].sum.lookups + stats[s].lookups
        /\ d.sum.misses = calling[g].sum.misses + stats[s].misses
        /\ d.sum.puts = calling[g].sum.puts + stats[s].puts
        /\ d.sum.dels = calling[g].sum.dels + stats[s].dels
    BY <1>1, <1>4, <1>7, <1>8, WalkCallMoves
  <1> HIDE DEF d
  <1>10. Moves(g, d)
    BY <1>6 DEF d
  <1> QED
    BY <1>1, <1>4, <1>5, <1>7, <1>9, <1>10

LEMMA WalkTyped ==
  ASSUME Typed, NEW g \in Goroutines, WalkShard(g)
  PROVE  Typed'
  <1>1. PICK d \in StatsCalls : calling[g] \in StatsCalls /\ Moves(g, d)
    BY WalkDoes
  <1>2. Step(calling[g]) = "walk"
    BY AtStep DEF WalkShard, Typed
  <1>3. d \in Calls /\ Keeps(calling[g], d) /\ Counted(d)'
    <2>1. d \in Calls /\ d \notin AllowCalls
      BY <1>1, OpOf DEF Calls, StatsCalls
    <2>2. ~Inside(calling[g]) /\ ~InMaps(calling[g])
      BY <1>2 DEF Inside, InMaps
    <2> QED
      BY <2>1, <2>2 DEF Keeps, Counted
  <1>4. Entries' /\ Counters0' /\ Maps' /\ Grown /\ lock' = lock /\ mu' = mu
    BY SameEntries DEF WalkShard, Grown, Typed, Counters0, Maps, collectorVars, storeVars
  <1> QED
    BY <1>1, <1>3, <1>4, TypedStays

\* What a reset does.
LEMMA DeleteDoes ==
  ASSUME Typed, NEW g \in Goroutines, Delete(g)
  PROVE  /\ Key(g) \in Keys
         /\ \E s \in Shards, n \in {0, 1}, u \in Tallies :
              /\ s = ShardOf[Key(g)] /\ (n = 1 <=> Key(g) \in items)
              /\ stats' = [stats EXCEPT ![s] = u] /\ found' = found + n
              /\ u.lookups = stats[s].lookups /\ u.misses = stats[s].misses
              /\ u.puts = stats[s].puts /\ u.dels = stats[s].dels + n
  <1>1. calling[g] \in ResetCalls
    BY AtStep, StepOf DEF Delete, Typed
  <1>2. Key(g) \in Keys /\ ShardOf[Key(g)] \in Shards
    BY <1>1, ObserversAssumption DEF Key, ResetCalls
  <1>3. PICK s \in Shards, n \in {0, 1} :
          /\ s = ShardOf[Key(g)] /\ n = IF Key(g) \in items THEN 1 ELSE 0
          /\ (n = 1 <=> Key(g) \in items)
    BY <1>2
  <1>4. PICK u : u = [stats[s] EXCEPT !.dels = @ + n]
    OBVIOUS
  <1>5. stats[s] \in Tallies
    BY DEF Typed, Entries
  <1>6. /\ u \in Tallies
        /\ u.lookups = stats[s].lookups /\ u.misses = stats[s].misses
        /\ u.puts = stats[s].puts /\ u.dels = stats[s].dels + n
    BY <1>4, <1>5 DEF Tallies
  <1>7. stats' = [stats EXCEPT ![s] = u] /\ found' = found + n
    BY <1>3, <1>4, <1>5 DEF Delete, Typed, Entries
  <1> QED
    BY <1>2, <1>3, <1>6, <1>7

LEMMA DeleteTyped ==
  ASSUME Typed, NEW g \in Goroutines, Delete(g)
  PROVE  Typed'
  <1>1. Step(calling[g]) = "delete" /\ Advances(g)
    BY AtStep DEF Delete, Typed, Advances
  <1>2. stats' \in [Shards -> Tallies] /\ found' \in Nat
    BY DeleteDoes DEF Typed, Entries
  <1>3. Entries'
    <2>1. IsFiniteSet(items \ {Key(g)}) /\ items \ {Key(g)} \in SUBSET Keys
      BY FS_Subset DEF Typed, Entries
    <2> QED
      BY <1>2, <2>1, Reentered DEF Delete
  <1>4. Grown /\ Counters0' /\ Maps' /\ lock' = lock /\ mu' = mu
    BY DEF Delete, Grown, Typed, Counters0, Maps, collectorVars
  <1> QED
    BY <1>1, <1>3, <1>4, AdvanceTyped

\* What is added to a counter.
LEMMA AddDoes ==
  ASSUME Typed, NEW g \in Goroutines, Add(g)
  PROVE  \E step \in Counters \cup {"total", "nanos", "sample"}, to \in Counters, n \in Nat :
           /\ At(g, step) /\ Step(calling[g]) = step
           /\ Adds(calling[g], step) = [to |-> to, n |-> n]
           /\ count' = [count EXCEPT ![to] = @ + n]
           /\ held' = IF step = "reserved" THEN held + 1 ELSE held
  <1>1. PICK step \in Counters \cup {"total", "nanos", "sample"} :
          /\ At(g, step)
          /\ count' = [count EXCEPT ![Adds(calling[g], step).to] = @ + Adds(calling[g], step).n]
          /\ held' = IF step = "reserved" THEN held + 1 ELSE held
    BY DEF Add
  <1>2. calling[g] \in Calls /\ Step(calling[g]) = step
    BY <1>1, AtStep DEF Typed
  <1>3. \E to \in Counters, n \in Nat : Adds(calling[g], step) = [to |-> to, n |-> n]
    <2>1. CASE step = "total"
      BY <2>1 DEF Adds, Counters
    <2>2. CASE step = "nanos"
      <3>1. calling[g].wait \in Nat
        BY <1>2, <2>2, StepOf, ObserversAssumption
      <3> QED
        BY <2>2, <3>1 DEF Adds, Counters
    <2>3. CASE step = "sample"
      BY <2>3 DEF Adds, Counters
    <2>4. CASE step = "sweeps"
      <3>1. calling[g].n \in Nat
        BY <1>2, <2>4, StepOf DEF SweepCalls
      <3> QED
        BY <2>4, <3>1 DEF Adds, Counters
    <2>5. CASE step \notin {"total", "nanos", "sample", "sweeps"}
      BY <1>1, <2>5 DEF Adds
    <2> QED
      BY <2>1, <2>2, <2>3, <2>4, <2>5
  <1>4. PICK to \in Counters, n \in Nat : Adds(calling[g], step) = [to |-> to, n |-> n]
    BY <1>3
  <1>5. count' = [count EXCEPT ![to] = @ + n]
    BY <1>1, <1>4
  <1>6. held' = IF step = "reserved" THEN held + 1 ELSE held
    BY <1>1
  <1>7. At(g, step) /\ Step(calling[g]) = step
    BY <1>1, <1>2
  <1> WITNESS step \in Counters \cup {"total", "nanos", "sample"}, to \in Counters, n \in Nat
  <1> QED
    BY <1>4, <1>5, <1>6, <1>7

LEMMA AddTyped ==
  ASSUME Typed, NEW g \in Goroutines, Add(g)
  PROVE  Typed'
  <1>1. PICK step \in Counters \cup {"total", "nanos", "sample"}, to \in Counters, n \in Nat :
           /\ At(g, step) /\ Step(calling[g]) = step
           /\ count' = [count EXCEPT ![to] = @ + n]
           /\ held' = IF step = "reserved" THEN held + 1 ELSE held
    BY AddDoes
  <1>2. Step(calling[g]) \notin {"leave", "unlockMaps", "find", "walk"} /\ Advances(g)
    BY <1>1, AtStep DEF Add, Typed, Advances, Counters
  <1>3. Counters0'
    <2>1. held' \in Nat
      BY <1>1 DEF Typed, Counters0
    <2>2. count' \in [Counters -> Nat]
      BY <1>1 DEF Typed, Counters0
    <2>3. calls' = calls
      BY DEF Add
    <2> QED
      BY <2>1, <2>2, <2>3 DEF Typed, Counters0
  <1>4. Grown /\ Maps' /\ Entries' /\ lock' = lock /\ mu' = mu
    BY SameEntries DEF Add, Grown, Typed, Maps
  <1> QED
    BY <1>2, <1>3, <1>4, AdvanceTyped

\* bumpMap's two halves, for the map that a call counts in.
LEMMA FindDoes ==
  ASSUME Typed, NEW g \in Goroutines, FindCounter(g)
  PROVE  /\ calling[g] \in AllowCalls /\ Step(calling[g]) = "find"
         /\ IF calling[g].ok
              THEN /\ calling[g].of \in Policies
                   /\ byPolicy' = Found(byPolicy, calling[g].of) /\ UNCHANGED byReason
              ELSE /\ calling[g].of \in Reasons
                   /\ byReason' = Found(byReason, calling[g].of) /\ UNCHANGED byPolicy
  <1>1. calling[g] \in AllowCalls /\ Step(calling[g]) = "find"
    BY AtStep, StepOf DEF FindCounter, Typed
  <1> QED
    BY <1>1, AllowOf DEF FindCounter

LEMMA FoundType ==
  ASSUME NEW S, NEW map \in [S -> Nat \cup {NIL}], NEW k \in S
  PROVE  /\ Found(map, k) \in [S -> Nat \cup {NIL}]
         /\ Found(map, k)[k] = IF map[k] = NIL THEN 0 ELSE map[k]
         /\ Found(map, k)[k] # NIL
         /\ \A x \in S : x # k => Found(map, k)[x] = map[x]
  BY ObserversAssumption DEF Found

LEMMA FindTyped ==
  ASSUME Typed, NEW g \in Goroutines, FindCounter(g)
  PROVE  Typed'
  <1>1. Advances(g) /\ calling[g] \in AllowCalls /\ Step(calling[g]) = "find"
    BY AtStep, FindDoes DEF FindCounter, Typed, Advances
  <1>2. PICK d : Moves(g, d) /\ Goes(calling[g], d)
    BY <1>1, AdvanceGoes DEF Typed, Moves
  <1>3. calling[g] \in Calls /\ calling[g].todo # <<>> /\ d \in Calls
    BY <1>1, <1>2 DEF Typed, Callers, Advances, Goes
  <1>4. Keeps(calling[g], d)
    BY <1>1, <1>2, <1>3, GoesOn
  <1>5. /\ Maps' /\ Grown
        /\ IF calling[g].ok THEN byPolicy'[calling[g].of] # NIL
                            ELSE byReason'[calling[g].of] # NIL
    BY FindDoes, FoundType DEF Typed, Maps, Grown
  <1>6. Counted(d)'
    BY <1>1, <1>2, <1>5 DEF Counted, Goes, Decides
  <1>7. Entries' /\ Counters0' /\ lock' = lock /\ mu' = mu
    BY SameEntries DEF FindCounter, Typed, Counters0, storeVars
  <1> QED
    BY <1>2, <1>3, <1>4, <1>5, <1>6, <1>7, TypedStays

LEMMA BumpDoes ==
  ASSUME Typed, NEW g \in Goroutines, BumpCounter(g)
  PROVE  /\ calling[g] \in AllowCalls /\ Step(calling[g]) = "bump"
         /\ IF calling[g].ok
              THEN /\ calling[g].of \in Policies /\ byPolicy[calling[g].of] \in Nat
                   /\ byPolicy' = [byPolicy EXCEPT ![calling[g].of] = @ + 1]
                   /\ UNCHANGED byReason
              ELSE /\ calling[g].of \in Reasons /\ byReason[calling[g].of] \in Nat
                   /\ byReason' = [byReason EXCEPT ![calling[g].of] = @ + 1]
                   /\ UNCHANGED byPolicy
  <1>1. calling[g] \in AllowCalls /\ Step(calling[g]) = "bump"
    BY AtStep, StepOf DEF BumpCounter, Typed
  <1>2. Counted(calling[g])
    BY DEF Typed, AllCounted
  <1> QED
    BY <1>1, <1>2, AllowOf DEF BumpCounter, Counted, Typed, Maps

LEMMA BumpTyped ==
  ASSUME Typed, NEW g \in Goroutines, BumpCounter(g)
  PROVE  Typed'
  <1>1. Advances(g) /\ Step(calling[g]) = "bump"
    BY AtStep DEF BumpCounter, Typed, Advances
  <1>2. Maps' /\ Grown
    <2>1. \A n \in Nat : n + 1 # NIL
      BY ObserversAssumption
    <2> QED
      BY <2>1, BumpDoes DEF Typed, Maps, Grown
  <1>3. Entries' /\ Counters0' /\ lock' = lock /\ mu' = mu
    BY SameEntries DEF BumpCounter, Typed, Counters0, storeVars
  <1> QED
    BY <1>1, <1>2, <1>3, AdvanceTyped

LEMMA LockMapsTyped ==
  ASSUME Typed, NEW g \in Goroutines, LockMaps(g)
  PROVE  Typed'
  <1>1. Advances(g) /\ Step(calling[g]) = "lockMaps" /\ calling[g] \in SnapshotCalls
    BY AtStep, StepOf DEF LockMaps, Typed, Advances
  <1>2. PICK d : Moves(g, d) /\ Goes(calling[g], d)
    BY <1>1, AdvanceGoes DEF Typed, Moves
  <1>3. calling[g] \in Calls /\ calling[g].todo # <<>> /\ d \in Calls
    BY <1>1, <1>2 DEF Typed, Callers, Advances, Goes
  <1>4. Keeps(calling[g], d) /\ Counted(d)'
    BY <1>1, <1>2, <1>3, GoesOn DEF Counted
  <1>5. InMaps(d)
    <2>1. d \in SnapshotCalls
      BY <1>1, <1>2, <1>3, OpOf DEF Goes
    <2> QED
      BY <1>1, <1>2, <2>1 DEF Goes, InMaps
  <1>6. MapsLocked'
    BY <1>2, <1>3, <1>5, Moved DEF LockMaps, MapsLocked, Typed
  <1>7. Grown /\ Counters0' /\ Maps' /\ Entries' /\ lock' = lock
    BY SameEntries DEF LockMaps, Grown, Typed, Counters0, Maps, collectorVars, storeVars
  <1> QED
    BY <1>2, <1>3, <1>4, <1>6, <1>7, Moved, LocksStay, CountedStays DEF Typed

LEMMA UnlockMapsTyped ==
  ASSUME Typed, NEW g \in Goroutines, UnlockMaps(g)
  PROVE  Typed'
  <1>1. Advances(g) /\ Step(calling[g]) = "unlockMaps"
    BY AtStep DEF UnlockMaps, Typed, Advances
  <1>2. PICK d : Moves(g, d) /\ Goes(calling[g], d)
    BY <1>1, AdvanceGoes DEF Typed, Moves
  <1>3. calling[g] \in Calls /\ calling[g].todo # <<>> /\ d \in Calls
    BY <1>1, <1>2 DEF Typed, Callers, Advances, Goes
  <1>4. Counted(d)'
    BY <1>1, <1>2, <1>3, GoesOn DEF Counted
  <1>5. Locked'
    <2>1. ~Inside(calling[g])
      BY <1>1 DEF Inside
    <2>2. \A s \in Shards : lock[s] # NIL => lock[s] \in Goroutines /\ lock[s] # g
      BY <2>1 DEF Typed, Locked
    <2> QED
      BY <1>2, <1>3, <2>2, Moved DEF Typed, Locked, UnlockMaps
  <1>6. MapsLocked'
    BY DEF UnlockMaps, MapsLocked
  <1>7. Grown /\ Counters0' /\ Maps' /\ Entries'
    BY SameEntries DEF UnlockMaps, Grown, Typed, Counters0, Maps, collectorVars, storeVars
  <1> QED
    BY <1>2, <1>3, <1>4, <1>5, <1>6, <1>7, Moved, CountedStays DEF Typed

LEMMA WithIs ==
  ASSUME NEW names, NEW read \in Readings(names), NEW k \in names, NEW v \in Nat
  PROVE  With(read, k, v) \in Readings(names)
  <1>1. PICK S \in SUBSET names : read \in [S -> Nat]
    BY DEF Readings
  <1>2. S \cup {k} \in SUBSET names
    OBVIOUS
  <1>3. With(read, k, v) \in [S \cup {k} -> Nat]
    BY <1>1 DEF With
  <1> QED
    BY <1>2, <1>3 DEF Readings

\* One more counter of a map is read, or there is none left.
LEMMA ReasonsDo ==
  ASSUME Typed, NEW g \in Goroutines, ReadReasons(g)
  PROVE  /\ calling[g] \in SnapshotCalls /\ Step(calling[g]) = "reasons"
         /\ \/ Unread(byReason, calling[g].reasons) = {} /\ Advances(g)
            \/ \E r \in Reasons, d \in SnapshotCalls :
                 /\ byReason[r] \in Nat /\ r \notin DOMAIN calling[g].reasons
                 /\ d = [calling[g] EXCEPT !.reasons = With(@, r, byReason[r])]
                 /\ Moves(g, d) /\ Step(d) = "reasons"
                 /\ d.reasons = With(calling[g].reasons, r, byReason[r])
                 /\ d.policies = calling[g].policies
                 /\ d.samples = calling[g].samples /\ d.nanos = calling[g].nanos
                 /\ d.allowed = calling[g].allowed /\ d.denied = calling[g].denied
  <1>1. calling[g] \in SnapshotCalls /\ Step(calling[g]) = "reasons" /\ calling[g].todo # <<>>
    BY AtStep, StepOf DEF ReadReasons, Typed
  <1>2. ASSUME NEW r \in Unread(byReason, calling[g].reasons),
               calling' = [calling EXCEPT ![g].reasons = With(@, r, byReason[r])]
        PROVE  \E d \in SnapshotCalls :
                 /\ r \in Reasons /\ byReason[r] \in Nat /\ r \notin DOMAIN calling[g].reasons
                 /\ d = [calling[g] EXCEPT !.reasons = With(@, r, byReason[r])]
                 /\ Moves(g, d) /\ Step(d) = "reasons"
                 /\ d.reasons = With(calling[g].reasons, r, byReason[r])
                 /\ d.policies = calling[g].policies
                 /\ d.samples = calling[g].samples /\ d.nanos = calling[g].nanos
                 /\ d.allowed = calling[g].allowed /\ d.denied = calling[g].denied
    <2>1. r \in Reasons /\ byReason[r] \in Nat /\ r \notin DOMAIN calling[g].reasons
      BY <1>2 DEF Unread, Typed, Maps
    <2>2. PICK w : w = With(calling[g].reasons, r, byReason[r])
      OBVIOUS
    <2>3. w \in Readings(Reasons)
      BY <1>1, <2>1, <2>2, WithIs DEF SnapshotCalls
    <2>4. PICK d : d = [calling[g] EXCEPT !.reasons = w]
      OBVIOUS
    <2>5. /\ d \in SnapshotCalls /\ d.todo = calling[g].todo
          /\ d.reasons = w /\ d.policies = calling[g].policies
          /\ d.samples = calling[g].samples /\ d.nanos = calling[g].nanos
          /\ d.allowed = calling[g].allowed /\ d.denied = calling[g].denied
      BY <1>1, <2>3, <2>4 DEF SnapshotCalls
    <2>6. Moves(g, d)
      BY <1>2, <2>2, <2>4 DEF Moves, Typed, Callers
    <2> QED
      BY <1>1, <2>1, <2>2, <2>4, <2>5, <2>6 DEF Step
  <1>3. \/ Unread(byReason, calling[g].reasons) = {} /\ Done(g, calling[g])
        \/ \E r \in Unread(byReason, calling[g].reasons) :
             calling' = [calling EXCEPT ![g].reasons = With(@, r, byReason[r])]
    BY DEF ReadReasons
  <1> QED
    BY <1>1, <1>2, <1>3 DEF Advances

LEMMA PoliciesDo ==
  ASSUME Typed, NEW g \in Goroutines, ReadPolicies(g)
  PROVE  /\ calling[g] \in SnapshotCalls /\ Step(calling[g]) = "policies"
         /\ \/ Unread(byPolicy, calling[g].policies) = {} /\ Advances(g)
            \/ \E r \in Policies, d \in SnapshotCalls :
                 /\ byPolicy[r] \in Nat /\ r \notin DOMAIN calling[g].policies
                 /\ d = [calling[g] EXCEPT !.policies = With(@, r, byPolicy[r])]
                 /\ Moves(g, d) /\ Step(d) = "policies"
                 /\ d.policies = With(calling[g].policies, r, byPolicy[r])
                 /\ d.reasons = calling[g].reasons
                 /\ d.samples = calling[g].samples /\ d.nanos = calling[g].nanos
                 /\ d.allowed = calling[g].allowed /\ d.denied = calling[g].denied
  <1>1. calling[g] \in SnapshotCalls /\ Step(calling[g]) = "policies" /\ calling[g].todo # <<>>
    BY AtStep, StepOf DEF ReadPolicies, Typed
  <1>2. ASSUME NEW r \in Unread(byPolicy, calling[g].policies),
               calling' = [calling EXCEPT ![g].policies = With(@, r, byPolicy[r])]
        PROVE  \E d \in SnapshotCalls :
                 /\ r \in Policies /\ byPolicy[r] \in Nat /\ r \notin DOMAIN calling[g].policies
                 /\ d = [calling[g] EXCEPT !.policies = With(@, r, byPolicy[r])]
                 /\ Moves(g, d) /\ Step(d) = "policies"
                 /\ d.policies = With(calling[g].policies, r, byPolicy[r])
                 /\ d.reasons = calling[g].reasons
                 /\ d.samples = calling[g].samples /\ d.nanos = calling[g].nanos
                 /\ d.allowed = calling[g].allowed /\ d.denied = calling[g].denied
    <2>1. r \in Policies /\ byPolicy[r] \in Nat /\ r \notin DOMAIN calling[g].policies
      BY <1>2 DEF Unread, Typed, Maps
    <2>2. PICK w : w = With(calling[g].policies, r, byPolicy[r])
      OBVIOUS
    <2>3. w \in Readings(Policies)
      BY <1>1, <2>1, <2>2, WithIs DEF SnapshotCalls
    <2>4. PICK d : d = [calling[g] EXCEPT !.policies = w]
      OBVIOUS
    <2>5. /\ d \in SnapshotCalls /\ d.todo = calling[g].todo
          /\ d.policies = w /\ d.reasons = calling[g].reasons
          /\ d.samples = calling[g].samples /\ d.nanos = calling[g].nanos
          /\ d.allowed = calling[g].allowed /\ d.denied = calling[g].denied
      BY <1>1, <2>3, <2>4 DEF SnapshotCalls
    <2>6. Moves(g, d)
      BY <1>2, <2>2, <2>4 DEF Moves, Typed, Callers
    <2> QED
      BY <1>1, <2>1, <2>2, <2>4, <2>5, <2>6 DEF Step
  <1>3. \/ Unread(byPolicy, calling[g].policies) = {} /\ Done(g, calling[g])
        \/ \E r \in Unread(byPolicy, calling[g].policies) :
             calling' = [calling EXCEPT ![g].policies = With(@, r, byPolicy[r])]
    BY DEF ReadPolicies
  <1> QED
    BY <1>1, <1>2, <1>3 DEF Advances

LEMMA MapsReadTyped ==
  ASSUME Typed, NEW g \in Goroutines, ReadReasons(g) \/ ReadPolicies(g)
  PROVE  Typed'
  <1>1. Grown /\ Counters0' /\ Maps' /\ Entries' /\ lock' = lock /\ mu' = mu
    BY SameEntries DEF ReadReasons, ReadPolicies, Grown, Typed, Counters0, Maps,
                       collectorVars, storeVars
  <1>2. calling[g] \in SnapshotCalls /\ Step(calling[g]) \in {"reasons", "policies"}
    BY ReasonsDo, PoliciesDo
  <1>3. CASE Advances(g)
    BY <1>1, <1>2, <1>3, AdvanceTyped
  <1>4. ASSUME NEW d \in SnapshotCalls, Moves(g, d), Step(d) = Step(calling[g])
        PROVE  Typed'
    <2>1. d \in Calls /\ d \notin AllowCalls /\ calling[g] \in Calls
      BY <1>2, OpOf DEF Calls, SnapshotCalls
    <2>2. ~Inside(calling[g]) /\ InMaps(d)
      BY <1>2, <1>4 DEF Inside, InMaps
    <2> QED
      BY <1>1, <1>4, <2>1, <2>2, TypedStays DEF Keeps, Counted
  <1> QED
    BY <1>3, <1>4, ReasonsDo, PoliciesDo

\* A total read, with what was read before it.
LEMMA ReadDoes ==
  ASSUME Typed, NEW g \in Goroutines, ReadTotal(g)
  PROVE  \E d \in SnapshotCalls :
           LET c == calling[g]
               Read(step, old, new) == IF Step(c) = step THEN new ELSE old
           IN /\ c \in SnapshotCalls /\ Moves(g, d)
              /\ Step(c) \in {"readSamples", "readNanos", "readAllowed", "readDenied"}
              /\ d.reasons = c.reasons /\ d.policies = c.policies
              /\ d.samples = Read("readSamples", c.samples, count["waitSamples"])
              /\ d.nanos = Read("readNanos", c.nanos, WaitNanos)
              /\ d.allowed = Read("readAllowed", c.allowed, count["allowed"])
              /\ d.denied = Read("readDenied", c.denied, count["denied"])
              /\ Step(c) = "readSamples" => Step(d) = "readNanos"
              /\ Step(c) = "readNanos" => Step(d) = "readAllowed"
              /\ Step(c) = "readAllowed" => Step(d) = "readDenied"
              /\ Step(c) = "readDenied" => Step(d) = "end"
  <1>1. /\ calling[g] \in SnapshotCalls /\ calling[g].todo # <<>>
        /\ Step(calling[g]) \in {"readSamples", "readNanos", "readAllowed", "readDenied"}
    BY AtStep, StepOf DEF ReadTotal, Typed
  <1> DEFINE c == calling[g]
             Read(step, old, new) == IF Step(c) = step THEN new ELSE old
  <1>2. \E e \in SnapshotCalls :
          /\ Done(g, e) /\ e.todo = c.todo
          /\ e.reasons = c.reasons /\ e.policies = c.policies
          /\ e.samples = Read("readSamples", c.samples, count["waitSamples"])
          /\ e.nanos = Read("readNanos", c.nanos, WaitNanos)
          /\ e.allowed = Read("readAllowed", c.allowed, count["allowed"])
          /\ e.denied = Read("readDenied", c.denied, count["denied"])
    <2>1. /\ count["waitSamples"] \in Nat /\ count["waitNanos"] \in Nat
          /\ count["allowed"] \in Nat /\ count["denied"] \in Nat
      BY DEF Typed, Counters0, Counters
    <2>a. WaitNanos \in Int
      BY <2>1, WordType DEF WaitNanos
    <2>2. CASE At(g, "readSamples") /\ Done(g, [c EXCEPT !.samples = count["waitSamples"]])
      <3>1. PICK e : e = [c EXCEPT !.samples = count["waitSamples"]]
        OBVIOUS
      <3>2. Step(c) = "readSamples"
        BY <2>2, AtStep DEF Typed
      <3> QED
        BY <1>1, <2>1, <2>2, <3>1, <3>2 DEF SnapshotCalls
    <2>3. CASE At(g, "readNanos") /\ Done(g, [c EXCEPT !.nanos = WaitNanos])
      <3>1. PICK e : e = [c EXCEPT !.nanos = WaitNanos]
        OBVIOUS
      <3>2. Step(c) = "readNanos"
        BY <2>3, AtStep DEF Typed
      <3> QED
        BY <1>1, <2>a, <2>3, <3>1, <3>2, SMTT(30) DEF SnapshotCalls
    <2>4. CASE At(g, "readAllowed") /\ Done(g, [c EXCEPT !.allowed = count["allowed"]])
      <3>1. PICK e : e = [c EXCEPT !.allowed = count["allowed"]]
        OBVIOUS
      <3>2. Step(c) = "readAllowed"
        BY <2>4, AtStep DEF Typed
      <3> QED
        BY <1>1, <2>1, <2>4, <3>1, <3>2 DEF SnapshotCalls
    <2>5. CASE At(g, "readDenied") /\ Done(g, [c EXCEPT !.denied = count["denied"]])
      <3>1. PICK e : e = [c EXCEPT !.denied = count["denied"]]
        OBVIOUS
      <3>2. Step(c) = "readDenied"
        BY <2>5, AtStep DEF Typed
      <3> QED
        BY <1>1, <2>1, <2>5, <3>1, <3>2 DEF SnapshotCalls
    <2> QED
      BY <2>2, <2>3, <2>4, <2>5 DEF ReadTotal
  <1>3. PICK e \in SnapshotCalls :
          /\ Done(g, e) /\ e.todo = c.todo
          /\ e.reasons = c.reasons /\ e.policies = c.policies
          /\ e.samples = Read("readSamples", c.samples, count["waitSamples"])
          /\ e.nanos = Read("readNanos", c.nanos, WaitNanos)
          /\ e.allowed = Read("readAllowed", c.allowed, count["allowed"])
          /\ e.denied = Read("readDenied", c.denied, count["denied"])
    BY <1>2
  <1>4. Step(e) = Step(c) /\ e.todo # <<>>
    BY <1>1, <1>3 DEF Step
  <1>5. PICK d : d = [e EXCEPT !.todo = Tail(@)]
    OBVIOUS
  <1>6. Moves(g, d)
    BY <1>3, <1>5 DEF Moves, Done
  <1>7. Goes(e, d) /\ e \in Calls
    BY <1>4, <1>5, SnapshotGoes DEF Calls
  <1>8. d \in SnapshotCalls
    BY <1>7, OpOf DEF Goes
  <1>9. /\ d.reasons = c.reasons /\ d.policies = c.policies
        /\ d.samples = e.samples /\ d.nanos = e.nanos
        /\ d.allowed = e.allowed /\ d.denied = e.denied
    BY <1>3, <1>7 DEF Goes
  <1>10. /\ Step(c) = "readSamples" => Step(d) = "readNanos"
         /\ Step(c) = "readNanos" => Step(d) = "readAllowed"
         /\ Step(c) = "readAllowed" => Step(d) = "readDenied"
         /\ Step(c) = "readDenied" => Step(d) = "end"
    BY <1>4, <1>7 DEF Goes
  <1> QED
    BY <1>1, <1>3, <1>6, <1>8, <1>9, <1>10

LEMMA ReadTotalTyped ==
  ASSUME Typed, NEW g \in Goroutines, ReadTotal(g)
  PROVE  Typed'
  <1>1. PICK d \in SnapshotCalls :
          /\ calling[g] \in SnapshotCalls /\ Moves(g, d)
          /\ Step(calling[g]) \in {"readSamples", "readNanos", "readAllowed", "readDenied"}
    BY ReadDoes
  <1>2. d \in Calls /\ d \notin AllowCalls
    BY <1>1, OpOf DEF Calls, SnapshotCalls
  <1>3. ~Inside(calling[g]) /\ ~InMaps(calling[g])
    BY <1>1 DEF Inside, InMaps
  <1>4. Grown /\ Counters0' /\ Maps' /\ Entries' /\ lock' = lock /\ mu' = mu
    BY SameEntries DEF ReadTotal, Grown, Typed, Counters0, Maps, collectorVars, storeVars
  <1> QED
    BY <1>1, <1>2, <1>3, <1>4, TypedStays DEF Keeps, Counted

LEMMA ReturnTyped ==
  ASSUME Typed, NEW g \in Goroutines, Return(g)
  PROVE  Typed'
  <1>1. calling[g] \in Calls /\ Idle \in Calls /\ Moves(g, Idle) /\ Idle \notin AllowCalls
    <2>1. Idle \in Calls /\ Idle.op = "none"
      BY DEF Calls, Idle
    <2> QED
      BY <2>1, OpOf DEF Return, Moves, Typed, Callers
  <1>2. Step(calling[g]) = "end"
    BY <1>1, StepOf DEF Return
  <1>3. ~Inside(calling[g]) /\ ~InMaps(calling[g])
    BY <1>2 DEF Inside, InMaps
  <1>4. Entries'
    <2>1. IsFiniteSet({})
      BY FS_EmptySet
    <2> QED
      BY <2>1 DEF Typed, Entries, Return
  <1>5. Grown /\ Counters0' /\ Maps' /\ lock' = lock /\ mu' = mu
    BY DEF Return, Grown, Typed, Counters0, Maps, collectorVars
  <1> QED
    BY <1>1, <1>3, <1>4, <1>5, TypedStays DEF Keeps, Counted

\* The calls that leave the store and the collector as they are.
LEMMA QuietBegin ==
  ASSUME Typed, NEW g \in Goroutines, NEW c \in Calls, Begin(g, c), Step(c) # "bump",
         UNCHANGED <<storeVars, collectorVars, lock, mu>>
  PROVE  Typed'
  <1>1. Entries' /\ held' \in Nat
    BY SameEntries DEF storeVars, Typed, Counters0
  <1> QED
    BY <1>1, BeginTyped DEF collectorVars

LEMMA KeyCallsTyped ==
  ASSUME Typed, NEW g \in Goroutines, NEW k \in Keys,
         \/ \E p \in Policies : CallAllow(g, k, p)
         \/ \E r \in Reasons, w \in Waits : CallDeny(g, k, r, w)
         \/ CallPeek(g, k) \/ CallReset(g, k) \/ CallCancel(g, k)
  PROVE  Typed'
  <1>1. ASSUME NEW p \in Policies, CallAllow(g, k, p) PROVE Typed'
    <2>1. PICK c : c = [op |-> "allow", key |-> k, ok |-> TRUE, of |-> p, wait |-> 0,
                        todo |-> AllowSteps(TRUE, 0)]
      OBVIOUS
    <2>2. c \in Calls /\ Step(c) # "bump"
      BY <2>1, FreshCalls, ObserversAssumption DEF Calls, AllowCalls
    <2> QED
      BY <1>1, <2>1, <2>2, QuietBegin DEF CallAllow
  <1>2. ASSUME NEW r \in Reasons, NEW w \in Waits, CallDeny(g, k, r, w) PROVE Typed'
    <2>1. PICK c : c = [op |-> "allow", key |-> k, ok |-> FALSE, of |-> r, wait |-> w,
                        todo |-> AllowSteps(FALSE, w)]
      OBVIOUS
    <2>2. c \in Calls /\ Step(c) # "bump"
      BY <2>1, FreshCalls, ObserversAssumption DEF Calls, AllowCalls
    <2> QED
      BY <1>2, <2>1, <2>2, QuietBegin DEF CallDeny
  <1>3. CASE CallPeek(g, k)
    <2>1. PICK c : c = [op |-> "peek", key |-> k, todo |-> <<"look", "peeked", "leave">>]
      OBVIOUS
    <2>2. c \in Calls /\ Step(c) # "bump"
      BY <2>1, FreshCalls, ObserversAssumption DEF Calls
    <2> QED
      BY <1>3, <2>1, <2>2, QuietBegin DEF CallPeek
  <1>4. CASE CallReset(g, k)
    <2>1. PICK c : c = [op |-> "reset", key |-> k, todo |-> <<"delete", "resets">>]
      OBVIOUS
    <2>2. c \in Calls /\ Step(c) # "bump"
      BY <2>1, FreshCalls, ObserversAssumption DEF Calls
    <2> QED
      BY <1>4, <2>1, <2>2, QuietBegin DEF CallReset
  <1>5. CASE CallCancel(g, k)
    <2>1. PICK c : c = [op |-> "cancel", key |-> k, todo |-> <<"look", "leave", "canceled">>]
      OBVIOUS
    <2>2. c \in Calls /\ Step(c) # "bump"
      BY <2>1, FreshCalls, ObserversAssumption DEF Calls
    <2>3. Entries' /\ held' \in Nat
      BY <1>5, SameEntries DEF CallCancel, Typed, Counters0
    <2> QED
      BY <1>5, <2>1, <2>2, <2>3, BeginTyped DEF CallCancel, collectorVars
  <1> QED
    BY <1>1, <1>2, <1>3, <1>4, <1>5

LEMMA OtherCallsTyped ==
  ASSUME Typed, NEW g \in Goroutines,
         \/ \E r \in Reasons : CallInvalid(g, r)
         \/ \E steps \in QuotaSteps : CallQuota(g, steps)
         \/ CallSweep(g) \/ CallSnapshot(g) \/ CallStats(g)
  PROVE  Typed'
  <1>1. ASSUME NEW r \in Reasons, CallInvalid(g, r) PROVE Typed'
    <2>1. PICK c : c = [op |-> "allow", key |-> NIL, ok |-> FALSE, of |-> r, wait |-> 0,
                        todo |-> CountSteps(FALSE, 0)]
      OBVIOUS
    <2>2. c \in Calls /\ Step(c) # "bump"
      BY <2>1, OtherFreshCalls, ObserversAssumption DEF Calls, AllowCalls
    <2> QED
      BY <1>1, <2>1, <2>2, QuietBegin DEF CallInvalid
  <1>2. ASSUME NEW steps \in QuotaSteps, CallQuota(g, steps) PROVE Typed'
    <2>1. PICK c : c = [op |-> "quota", todo |-> steps]
      OBVIOUS
    <2>2. c \in QuotaCalls
      BY <2>1, OtherFreshCalls, ObserversAssumption
    <2>3. c \in Calls /\ Step(c) # "bump"
      <3>1. c \in Calls /\ c \notin AllowCalls
        BY <2>1, <2>2, OpOf DEF Calls
      <3> QED
        BY <3>1, StepOf
    <2> QED
      BY <1>2, <2>1, <2>3, QuietBegin DEF CallQuota
  <1>3. CASE CallSweep(g)
    <2>1. PICK c : c = [op |-> "sweep", left |-> Shards, n |-> 0,
                        todo |-> <<"sweep", "sweeps">>]
      OBVIOUS
    <2>2. c \in Calls /\ Step(c) # "bump"
      BY <2>1, OtherFreshCalls, ObserversAssumption DEF Calls
    <2> QED
      BY <1>3, <2>1, <2>2, QuietBegin DEF CallSweep
  <1>4. CASE CallSnapshot(g)
    <2>1. PICK c : c = [op |-> "snapshot", todo |-> SnapshotSteps,
                        reasons |-> <<>>, policies |-> <<>>, samples |-> 0, nanos |-> 0,
                        allowed |-> 0, denied |-> 0]
      OBVIOUS
    <2>2. c \in Calls /\ Step(c) # "bump"
      BY <2>1, OtherFreshCalls, ObserversAssumption DEF Calls
    <2> QED
      BY <1>4, <2>1, <2>2, QuietBegin DEF CallSnapshot
  <1>5. CASE CallStats(g)
    <2>1. PICK c : c = [op |-> "stats", left |-> ShardsToWalk, n |-> 0, sum |-> Zero,
                        todo |-> <<"walk">>]
      OBVIOUS
    <2>2. c \in Calls /\ Step(c) # "bump"
      BY <2>1, OtherFreshCalls, ObserversAssumption DEF Calls
    <2>3. Entries' /\ held' \in Nat
      BY <1>5 DEF CallStats, Typed, Counters0, Entries
    <2> QED
      BY <1>5, <2>1, <2>2, <2>3, BeginTyped DEF CallStats, collectorVars
  <1> QED
    BY <1>1, <1>2, <1>3, <1>4, <1>5

LEMMA InitTyped ==
  ASSUME Init
  PROVE  Typed
  <1>1. \A g \in Goroutines : calling[g] = Idle
    BY DEF Init
  <1>2. Callers /\ AllCounted
    <2>1. Idle \in Calls /\ Idle.op = "none"
      BY DEF Calls, Idle
    <2>2. Idle \notin AllowCalls
      BY <2>1, OpOf
    <2> QED
      BY <1>1, <2>1, <2>2 DEF Callers, AllCounted, Counted, Init
  <1>3. Entries
    <2>1. Zero \in Tallies /\ IsFiniteSet({})
      BY FS_EmptySet DEF Zero, Tallies
    <2> QED
      BY <2>1 DEF Init, Entries
  <1>4. Counters0 /\ Maps /\ Locked /\ MapsLocked
    BY ObserversAssumption DEF Init, Counters0, Maps, Locked, MapsLocked
  <1> QED
    BY <1>2, <1>3, <1>4 DEF Typed

LEMMA TypedNext ==
  ASSUME Typed, [Next]_vars
  PROVE  Typed'
  <1>1. CASE UNCHANGED vars
    BY <1>1 DEF vars, storeVars, collectorVars, Typed, Callers, Entries, Counters0, Maps,
                AllCounted, Counted, Locked, MapsLocked
  <1>2. ASSUME NEW g \in Goroutines, NEW k \in Keys,
               \/ \E p \in Policies : CallAllow(g, k, p)
               \/ \E r \in Reasons, w \in Waits : CallDeny(g, k, r, w)
               \/ CallPeek(g, k) \/ CallReset(g, k) \/ CallCancel(g, k)
        PROVE  Typed'
    BY <1>2, KeyCallsTyped
  <1>3. ASSUME NEW g \in Goroutines,
               \/ \E r \in Reasons : CallInvalid(g, r)
               \/ \E steps \in QuotaSteps : CallQuota(g, steps)
               \/ CallSweep(g) \/ CallSnapshot(g) \/ CallStats(g)
        PROVE  Typed'
    BY <1>3, OtherCallsTyped
  <1>4. ASSUME NEW g \in Goroutines,
               Enter(g) \/ Look(g) \/ Delete(g) \/ Leave(g) \/ SweepShard(g) \/ WalkShard(g)
        PROVE  Typed'
    BY <1>4, EnterTyped, LookTyped, DeleteTyped, LeaveTyped, SweepTyped, WalkTyped
  <1>5. ASSUME NEW g \in Goroutines,
               \/ Add(g) \/ FindCounter(g) \/ BumpCounter(g) \/ LockMaps(g) \/ UnlockMaps(g)
               \/ ReadReasons(g) \/ ReadPolicies(g) \/ ReadTotal(g) \/ Return(g)
        PROVE  Typed'
    BY <1>5, AddTyped, FindTyped, BumpTyped, LockMapsTyped, UnlockMapsTyped, MapsReadTyped,
       ReadTotalTyped, ReturnTyped
  <1> QED
    BY <1>1, <1>2, <1>3, <1>4, <1>5 DEF Next

LEMMA TypedHolds == Spec => []Typed
  BY InitTyped, TypedNext, PTL DEF Spec

\* The types, and that whoever holds the lock of a shard's keys, or the mutex of
\* the collector, has still to let go of it on its way (sharded.go:38,
\* collector.go:121).
THEOREM TypeCorrect == Spec => []TypeOK
  <1>1. ASSUME Typed PROVE TypeOK
    <2>1. ASSUME NEW s \in Shards, lock[s] # NIL
          PROVE  /\ ShardOf[calling[lock[s]].key] = s
                 /\ "leave" \in Range(calling[lock[s]].todo)
      BY <1>1, <2>1, InsideLeaves DEF Typed, Locked
    <2>2. mu # NIL => "unlockMaps" \in Range(calling[mu].todo)
      BY <1>1, InMapsUnlocks DEF Typed, MapsLocked
    <2> QED
      BY <1>1, <2>1, <2>2 DEF TypeOK, Typed, Entries, Counters0, Maps
  <1> QED
    BY <1>1, TypedHolds, PTL

-----------------------------------------------------------------------------
(* What calls under way have counted in one place and not yet in another:  *)
(* a weight for every call, added up over the goroutines.                  *)

Active(cs) == {g \in Goroutines : cs[g] # Idle}

Pending(cs, w) == Total([g \in Goroutines |-> w[cs[g]]], Active(cs))

LEMMA PendingOver ==
  ASSUME NEW cs \in [Goroutines -> Calls], IsFiniteSet(Active(cs)),
         NEW w \in [Calls -> Nat], w[Idle] = 0, NEW g \in Goroutines
  PROVE  /\ IsFiniteSet(Active(cs) \cup {g})
         /\ Pending(cs, w) =
              Total([h \in Goroutines |-> w[cs[h]]], (Active(cs) \cup {g}) \ {g}) + w[cs[g]]
  <1>1. PICK f : f = [h \in Goroutines |-> w[cs[h]]]
    OBVIOUS
  <1>2. \A h \in Goroutines : f[h] \in Nat /\ f[h] = w[cs[h]]
    BY <1>1
  <1>3. PICK A, S, R : A = Active(cs) /\ S = A \cup {g} /\ R = S \ {g}
    OBVIOUS
  <1>4. A \subseteq Goroutines /\ IsFiniteSet(A) /\ IsFiniteSet(S)
    BY <1>3, FS_AddElement DEF Active
  <1>5. Total(f, S) = Total(f, R) + f[g]
    <2>1. \A h \in S : f[h] \in Int
      BY <1>2, <1>3, <1>4
    <2> QED
      BY <1>3, <1>4, <2>1, TotalLess
  <1>6. Total(f, S) = Total(f, A)
    <2>1. CASE g \in A
      <3>1. S = A
        BY <1>3, <2>1
      <3> QED
        BY <3>1
    <2>2. CASE g \notin A
      <3>1. f[g] = 0
        BY <1>2, <1>3, <2>2 DEF Active
      <3>2. /\ \A h \in A : f[h] \in Int
            /\ f[g] \in Int
        BY <1>2, <1>4
      <3>3. Total(f, S) = Total(f, A) + f[g]
        BY <1>3, <1>4, <2>2, <3>2, TotalMore
      <3>4. Total(f, A) \in Int
        BY <1>4, <3>2, TotalType
      <3> QED
        BY <3>1, <3>3, <3>4
    <2> QED
      BY <2>1, <2>2
  <1> QED
    BY <1>1, <1>2, <1>3, <1>4, <1>5, <1>6 DEF Pending

\* One goroutine moves: the sum changes by what its weight does.
LEMMA PendingMoves ==
  ASSUME NEW cs \in [Goroutines -> Calls], IsFiniteSet(Active(cs)),
         NEW w \in [Calls -> Nat], w[Idle] = 0, NEW g \in Goroutines,
         NEW d \in Calls, NEW ds, ds = [cs EXCEPT ![g] = d]
  PROVE  /\ IsFiniteSet(Active(ds))
         /\ Pending(cs, w) \in Nat /\ Pending(ds, w) \in Nat
         /\ Pending(ds, w) = Pending(cs, w) - w[cs[g]] + w[d]
  <1>1. ds \in [Goroutines -> Calls] /\ ds[g] = d
    OBVIOUS
  <1>2. IsFiniteSet(Active(ds))
    <2>1. Active(ds) \subseteq Active(cs) \cup {g}
      BY DEF Active
    <2>2. IsFiniteSet(Active(cs) \cup {g})
      BY FS_AddElement
    <2> QED
      BY <2>1, <2>2, FS_Subset
  <1>3. PICK e, f : /\ e = [h \in Goroutines |-> w[cs[h]]]
                    /\ f = [h \in Goroutines |-> w[ds[h]]]
    OBVIOUS
  <1>4. PICK R : R = (Active(cs) \cup {g}) \ {g}
    OBVIOUS
  <1>5. (Active(ds) \cup {g}) \ {g} = R
    BY <1>1, <1>4 DEF Active
  <1>6. Pending(cs, w) = Total(e, R) + w[cs[g]]
    BY <1>3, <1>4, PendingOver
  <1>7. Pending(ds, w) = Total(f, R) + w[d]
    BY <1>1, <1>2, <1>3, <1>5, PendingOver
  <1>8. IsFiniteSet(R) /\ R \subseteq Goroutines /\ g \notin R
    BY <1>4, FS_AddElement, FS_Subset DEF Active
  <1>9. \A h \in R : e[h] = f[h] /\ e[h] \in Nat
    BY <1>3, <1>8
  <1>10. Total(e, R) = Total(f, R) /\ Total(e, R) \in Nat
    BY <1>8, <1>9, TotalSame, TotalType
  <1> QED
    BY <1>2, <1>6, <1>7, <1>10

LEMMA TotalZero ==
  ASSUME NEW S, IsFiniteSet(S), NEW f, \A i \in S : f[i] = 0
  PROVE  Total(f, S) = 0
  <1> DEFINE Q == {s \in SUBSET S : Total(f, s) = 0}
  <1>1. ASSUME NEW s \in SUBSET S, \A x \in s : s \ {x} \in Q
        PROVE  s \in Q
    <2>1. CASE s = {}
      BY <2>1, TotalNone
    <2>2. CASE s # {}
      <3>1. PICK x \in s : TRUE
        BY <2>2
      <3>2. /\ IsFiniteSet(s)
            /\ \A i \in s : f[i] \in Int
        BY FS_Subset
      <3>3. Total(f, s) = Total(f, s \ {x}) + f[x]
        BY <3>2, TotalLess
      <3>4. Total(f, s \ {x}) = 0 /\ f[x] = 0
        BY <1>1
      <3> QED
        BY <3>3, <3>4
    <2> QED
      BY <2>1, <2>2
  <1>2. SUBSET S \subseteq Q
    <2> HIDE DEF Q
    <2> QED
      BY <1>1, SetInduct
  <1> QED
    BY <1>2

LEMMA PendingNone ==
  ASSUME NEW cs \in [Goroutines -> Calls], IsFiniteSet(Active(cs)),
         NEW w \in [Calls -> Nat], \A g \in Goroutines : w[cs[g]] = 0
  PROVE  Pending(cs, w) = 0
  <1>1. PICK f : f = [h \in Goroutines |-> w[cs[h]]]
    OBVIOUS
  <1>2. \A i \in Active(cs) : f[i] = 0
    BY <1>1 DEF Active
  <1>3. Total(f, Active(cs)) = 0
    BY <1>2, TotalZero
  <1> QED
    BY <1>1, <1>3 DEF Pending

\* The counters of a map that there are, and their sum.
Named(map) == {k \in DOMAIN map : map[k] # NIL}

LEMMA SumIs ==
  ASSUME NEW map
  PROVE  Sum(map) = Total(map, Named(map))
  BY DEF Sum, Total, Named

LEMMA SumType ==
  ASSUME NEW S, NEW map \in [S -> Nat \cup {NIL}], IsFiniteSet(Named(map))
  PROVE  Sum(map) \in Nat
  <1>1. \A k \in Named(map) : map[k] \in Nat
    BY DEF Named
  <1> QED
    BY <1>1, SumIs, TotalType

\* A counter found, made if need be, adds nothing.
LEMMA SumFound ==
  ASSUME NEW S, NEW map \in [S -> Nat \cup {NIL}], IsFiniteSet(Named(map)), NEW k \in S,
         NEW new, new = Found(map, k)
  PROVE  IsFiniteSet(Named(new)) /\ Sum(new) = Sum(map)
  <1>1. /\ new \in [S -> Nat \cup {NIL}] /\ new[k] # NIL
        /\ new[k] = IF map[k] = NIL THEN 0 ELSE map[k]
        /\ \A x \in S : x # k => new[x] = map[x]
    BY FoundType
  <1>2. Named(new) = Named(map) \cup {k}
    BY <1>1 DEF Named
  <1>3. PICK M : M = Named(map)
    OBVIOUS
  <1>4. IsFiniteSet(M) /\ IsFiniteSet(M \cup {k})
    BY <1>3, FS_AddElement
  <1>5. \A i \in M \cup {k} : new[i] \in Int
    BY <1>1, <1>3 DEF Named
  <1>6. \A i \in M : map[i] = new[i] /\ map[i] \in Int
    BY <1>1, <1>3 DEF Named
  <1>7. Total(map, M) = Total(new, M) /\ Total(map, M) \in Int
    BY <1>4, <1>6, TotalSame, TotalType
  <1>8. CASE map[k] # NIL
    <2>1. M \cup {k} = M
      BY <1>3, <1>8 DEF Named
    <2>2. Named(new) = M
      BY <1>2, <1>3, <2>1
    <2>3. Sum(new) = Total(new, M) /\ Sum(map) = Total(map, M)
      BY <1>3, <2>2, SumIs
    <2> QED
      BY <1>4, <1>7, <2>2, <2>3
  <1>9. CASE map[k] = NIL
    <2>1. k \notin M /\ new[k] = 0
      BY <1>1, <1>3, <1>9 DEF Named
    <2>2. Total(new, M \cup {k}) = Total(new, M) + 0
      BY <1>4, <1>5, <2>1, TotalMore
    <2>3. Sum(new) = Total(new, M \cup {k}) /\ Sum(map) = Total(map, M)
      BY <1>2, <1>3, SumIs
    <2>4. IsFiniteSet(Named(new))
      BY <1>2, <1>3, <1>4
    <2>5. Sum(new) = Sum(map)
      BY <1>7, <2>2, <2>3
    <2> QED
      BY <2>4, <2>5
  <1> QED
    BY <1>8, <1>9

LEMMA SumBumped ==
  ASSUME NEW S, NEW map \in [S -> Nat \cup {NIL}], IsFiniteSet(Named(map)), NEW k \in S,
         map[k] \in Nat, NEW new, new = [map EXCEPT ![k] = @ + 1]
  PROVE  IsFiniteSet(Named(new)) /\ Sum(new) = Sum(map) + 1
  <1>1. map[k] + 1 # NIL /\ map[k] # NIL
    BY ObserversAssumption
  <1>2. Named(new) = Named(map)
    BY <1>1 DEF Named
  <1>3. PICK M, R : M = Named(map) /\ R = M \ {k}
    OBVIOUS
  <1>4. /\ \A i \in M : map[i] \in Int
        /\ \A i \in M : new[i] \in Int
        /\ k \in M /\ new[k] = map[k] + 1
        /\ \A i \in R : map[i] = new[i]
    BY <1>1, <1>3 DEF Named
  <1>5. IsFiniteSet(M) /\ IsFiniteSet(R)
    BY <1>3, FS_RemoveElement
  <1>6. Total(map, M) = Total(map, R) + map[k] /\ Total(new, M) = Total(new, R) + new[k]
    <2>1. Total(map, M) = Total(map, M \ {k}) + map[k]
      BY <1>4, <1>5, TotalLess
    <2>2. Total(new, M) = Total(new, M \ {k}) + new[k]
      BY <1>4, <1>5, TotalLess, ZenonT(40)
    <2> QED
      BY <1>3, <2>1, <2>2
  <1>7. Total(map, R) = Total(new, R) /\ Total(map, R) \in Int
    BY <1>3, <1>4, <1>5, TotalSame, TotalType, ZenonT(40)
  <1> QED
    BY <1>2, <1>3, <1>4, <1>5, <1>6, <1>7, SumIs

-----------------------------------------------------------------------------
(* What is counted, and what is still to be counted.                       *)

\* A grant, and a denial, counted in its total and not yet in its breakdown.
Granting ==
  [c \in Calls |-> IF c \in AllowCalls /\ Step(c) \in {"find", "bump"} /\ c.ok THEN 1 ELSE 0]

Denying ==
  [c \in Calls |-> IF c \in AllowCalls /\ Step(c) \in {"find", "bump"} /\ ~c.ok THEN 1 ELSE 0]

\* A grant that is not counted as reserved yet.
Reserving ==
  [c \in Calls |->
     IF c \in AllowCalls /\ Step(c) \in {"find", "bump", "reserved"} /\ c.ok THEN 1 ELSE 0]

\* A wait added, and not counted yet.
Sampling == [c \in Calls |-> IF Step(c) = "sample" THEN 1 ELSE 0]

\* Entries swept, and not counted yet.
Sweeping ==
  [c \in Calls |->
     IF c \in SweepCalls /\ Step(c) \in {"sweep", "sweeps"} THEN c.n ELSE 0]

LeastWait == Min(Waits \ {0})

Breakdowns ==
  /\ IsFiniteSet(Active(calling))
  /\ IsFiniteSet(Named(byPolicy)) /\ IsFiniteSet(Named(byReason))
  /\ count["allowed"] = Sum(byPolicy) + Pending(calling, Granting)
  /\ count["denied"] = Sum(byReason) + Pending(calling, Denying)
  /\ count["allowed"] = count["reserved"] + Pending(calling, Reserving)

Waited ==
  Waits \ {0} # {} =>
    LeastWait * (count["waitSamples"] + Pending(calling, Sampling)) <= count["waitNanos"]

Dels == [s \in Shards |-> stats[s].dels]

Removed == Total(Dels, Shards) = count["sweeps"] + found + Pending(calling, Sweeping)

Below(read, map) ==
  \A k \in DOMAIN read : k \in DOMAIN map /\ map[k] # NIL /\ read[k] <= map[k]

\* What a snapshot has read is less than there is, until it reads the total;
\* and less than the total from then on.
Snapped(c) ==
  c \in SnapshotCalls =>
    /\ IF Step(c) \in {"readDenied", "end"} THEN Sum(c.policies) <= c.allowed
                                            ELSE Below(c.policies, byPolicy)
    /\ IF Step(c) = "end" THEN Sum(c.reasons) <= c.denied
                          ELSE Below(c.reasons, byReason)
    /\ Waits \ {0} # {} =>
         IF Step(c) \in {"readAllowed", "readDenied", "end"}
         THEN count["waitNanos"] <= MaxI64 => LeastWait * c.samples <= c.nanos
         ELSE LeastWait * c.samples <= count["waitNanos"]

AllSnapped == \A g \in Goroutines : Snapped(calling[g])

\* A shard's counts agree with its entries.
Shelved ==
  \A s \in Shards :
    /\ stats[s].puts = stats[s].dels + Cardinality(Of(s))
    /\ stats[s].puts <= stats[s].misses /\ stats[s].misses <= stats[s].lookups

Walked(c) ==
  c \in StatsCalls =>
    /\ c.n + c.sum.dels = c.sum.puts
    /\ c.sum.puts <= c.sum.misses /\ c.sum.misses <= c.sum.lookups

AllWalked == \A g \in Goroutines : Walked(calling[g])

\* The keys of a set whose shards have been walked.
Behind(S, left) == {k \in S : ShardOf[k] \notin left}

Noted(g) ==
  /\ always[g] \subseteq items
  /\ calling[g] \in StatsCalls =>
       /\ items \subseteq ever[g]
       /\ Cardinality(Behind(always[g], calling[g].left)) <= calling[g].n
       /\ calling[g].n <= Cardinality(Behind(ever[g], calling[g].left))

AllNoted == \A g \in Goroutines : Noted(g)

LEMMA WeightTypes ==
  /\ Granting \in [Calls -> Nat] /\ Granting[Idle] = 0
  /\ Denying \in [Calls -> Nat] /\ Denying[Idle] = 0
  /\ Reserving \in [Calls -> Nat] /\ Reserving[Idle] = 0
  /\ Sampling \in [Calls -> Nat] /\ Sampling[Idle] = 0
  /\ Sweeping \in [Calls -> Nat] /\ Sweeping[Idle] = 0
  <1>1. Idle \in Calls /\ Step(Idle) = "end"
    BY DEF Calls, Idle, Step, First
  <1>2. \A c \in SweepCalls : c.n \in Nat
    BY DEF SweepCalls
  <1>3. /\ Granting \in [Calls -> Nat] /\ Denying \in [Calls -> Nat]
        /\ Reserving \in [Calls -> Nat]
        /\ Sampling \in [Calls -> Nat]
    BY DEF Granting, Denying, Reserving, Sampling
  <1>4. Sweeping \in [Calls -> Nat]
    BY <1>2 DEF Sweeping
  <1>5. Granting[Idle] = 0 /\ Denying[Idle] = 0
    BY <1>1 DEF Granting, Denying
  <1>6. Reserving[Idle] = 0 /\ Sampling[Idle] = 0 /\ Sweeping[Idle] = 0
    BY <1>1 DEF Reserving, Sampling, Sweeping
  <1> QED
    BY <1>3, <1>4, <1>5, <1>6

LEMMA Weightless ==
  ASSUME NEW c \in Calls,
         Step(c) \notin {"find", "bump", "reserved", "sample", "sweep", "sweeps"}
  PROVE  /\ Granting[c] = 0 /\ Denying[c] = 0
         /\ Reserving[c] = 0 /\ Sampling[c] = 0 /\ Sweeping[c] = 0
  BY DEF Granting, Denying, Reserving, Sampling, Sweeping

\* The weights of a decision at each of its steps.
LEMMA AllowWeighs ==
  ASSUME NEW c \in AllowCalls
  PROVE  /\ Granting[c] = (IF c.ok /\ Step(c) \in {"find", "bump"} THEN 1 ELSE 0)
         /\ Denying[c] = (IF ~c.ok /\ Step(c) \in {"find", "bump"} THEN 1 ELSE 0)
         /\ Reserving[c] = IF c.ok /\ Step(c) \in {"find", "bump", "reserved"} THEN 1 ELSE 0
         /\ Sampling[c] = IF Step(c) = "sample" THEN 1 ELSE 0
         /\ Sweeping[c] = 0
  <1>1. c \in Calls
    BY DEF Calls
  <1>2. c \notin SweepCalls
    BY <1>1, OpOf
  <1> QED
    BY <1>1, <1>2 DEF Granting, Denying, Reserving, Sampling, Sweeping

LEMMA OthersWeigh ==
  ASSUME NEW c \in Calls, c \notin AllowCalls
  PROVE  /\ Granting[c] = 0 /\ Denying[c] = 0
         /\ Reserving[c] = 0 /\ Sampling[c] = 0
         /\ Sweeping[c] = IF c \in SweepCalls /\ Step(c) \in {"sweep", "sweeps"} THEN c.n ELSE 0
  <1>1. Step(c) # "sample"
    BY StepOf
  <1> QED
    BY <1>1 DEF Granting, Denying, Reserving, Sampling, Sweeping

\* Two calls that weigh the same.
Same(c, d) ==
  /\ Granting[c] = Granting[d] /\ Denying[c] = Denying[d]
  /\ Reserving[c] = Reserving[d] /\ Sampling[c] = Sampling[d]
  /\ Sweeping[c] = Sweeping[d]

\* The steps that count nothing.
LEMMA IdlyGoes ==
  ASSUME NEW c \in Calls, c.todo # <<>>, NEW d, Goes(c, d),
         Step(c) \notin {"total", "find", "bump", "reserved", "nanos", "sample", "sweep", "sweeps"}
  PROVE  Same(c, d)
  <1>1. d \in Calls /\ d.op = c.op
    BY DEF Goes
  <1>2. CASE c \in AllowCalls
    <2>1. d \in AllowCalls /\ Decides(c, d)
      BY <1>2 DEF Goes, Decides
    <2>2. Step(c) \in {"enter", "leave"} /\ Step(d) \in {"total", "end"}
      BY <1>2, <2>1, AllowStep, StepOf DEF Decides
    <2> QED
      BY <1>2, <2>1, <2>2, AllowWeighs DEF Same
  <1>3. CASE c \notin AllowCalls
    <2>1. d \notin AllowCalls
      BY <1>1, <1>3, OpOf
    <2>2. c \in SweepCalls => Step(c) \in {"sweep", "sweeps", "end"}
      BY SweepPath DEF SweepCalls, Step
    <2>3. c \notin SweepCalls /\ d \notin SweepCalls
      BY <1>1, <2>2, OpOf, StepOf
    <2> QED
      BY <1>1, <1>3, <2>1, <2>3, OthersWeigh DEF Same
  <1> QED
    BY <1>2, <1>3

LEMMA IdlyAdvances ==
  ASSUME Typed, NEW g \in Goroutines, Advances(g),
         Step(calling[g]) \notin {"total", "find", "bump", "reserved", "nanos", "sample",
                                  "sweep", "sweeps", "walk"}
  PROVE  \E d \in Calls : Moves(g, d) /\ Same(calling[g], d)
  <1>1. PICK d : Moves(g, d) /\ Goes(calling[g], d)
    BY AdvanceGoes DEF Typed, Moves
  <1>2. calling[g] \in Calls /\ calling[g].todo # <<>> /\ d \in Calls
    BY <1>1 DEF Typed, Callers, Advances, Goes
  <1> QED
    BY <1>1, <1>2, IdlyGoes

\* A call that begins.
LEMMA IdlyBegins ==
  ASSUME NEW g \in Goroutines, NEW c \in Calls, Begin(g, c),
         Step(c) \notin {"find", "bump", "reserved", "sample", "sweep", "sweeps"}
  PROVE  Moves(g, c) /\ Same(calling[g], c)
  <1>1. calling[g] = Idle /\ Moves(g, c)
    BY DEF Begin, Moves
  <1> QED
    BY <1>1, Weightless, WeightTypes DEF Same

LEMMA KeyCallsIdle ==
  ASSUME Typed, NEW g \in Goroutines, NEW k \in Keys,
         \/ \E p \in Policies : CallAllow(g, k, p)
         \/ \E r \in Reasons, w \in Waits : CallDeny(g, k, r, w)
         \/ CallPeek(g, k) \/ CallReset(g, k) \/ CallCancel(g, k)
  PROVE  /\ \E d \in Calls : /\ Moves(g, d) /\ Same(calling[g], d)
                            /\ d \notin SnapshotCalls /\ d \notin StatsCalls
         /\ UNCHANGED <<collectorVars, items, stats, found, always, ever>>
  <1>1. ASSUME NEW p \in Policies, CallAllow(g, k, p)
        PROVE  \E c \in Calls : Begin(g, c) /\ Step(c) \in {"enter", "look", "delete"}
    <2>1. PICK c : c = [op |-> "allow", key |-> k, ok |-> TRUE, of |-> p, wait |-> 0,
                        todo |-> AllowSteps(TRUE, 0)]
      OBVIOUS
    <2>2. c \in Calls /\ Step(c) = "enter"
      BY <2>1, FreshCalls, ObserversAssumption DEF Calls, AllowCalls
    <2> QED
      BY <1>1, <2>1, <2>2 DEF CallAllow
  <1>2. ASSUME NEW r \in Reasons, NEW w \in Waits, CallDeny(g, k, r, w)
        PROVE  \E c \in Calls : Begin(g, c) /\ Step(c) \in {"enter", "look", "delete"}
    <2>1. PICK c : c = [op |-> "allow", key |-> k, ok |-> FALSE, of |-> r, wait |-> w,
                        todo |-> AllowSteps(FALSE, w)]
      OBVIOUS
    <2>2. c \in Calls /\ Step(c) = "enter"
      BY <2>1, FreshCalls, ObserversAssumption DEF Calls, AllowCalls
    <2> QED
      BY <1>2, <2>1, <2>2 DEF CallDeny
  <1>3. ASSUME CallPeek(g, k) \/ CallReset(g, k) \/ CallCancel(g, k)
        PROVE  \E c \in Calls : Begin(g, c) /\ Step(c) \in {"enter", "look", "delete"}
    <2>1. PICK c : \/ c = [op |-> "peek", key |-> k, todo |-> <<"look", "peeked", "leave">>]
                      /\ CallPeek(g, k)
                   \/ c = [op |-> "reset", key |-> k, todo |-> <<"delete", "resets">>]
                      /\ CallReset(g, k)
                   \/ c = [op |-> "cancel", key |-> k, todo |-> <<"look", "leave", "canceled">>]
                      /\ CallCancel(g, k)
      BY <1>3
    <2>2. c \in Calls /\ Step(c) \in {"look", "delete"}
      BY <2>1, FreshCalls, ObserversAssumption DEF Calls
    <2>3. Begin(g, c)
      BY <2>1 DEF CallPeek, CallReset, CallCancel
    <2> QED
      BY <2>2, <2>3
  <1>4. PICK c \in Calls : Begin(g, c) /\ Step(c) \in {"enter", "look", "delete"}
    BY <1>1, <1>2, <1>3
  <1>5. /\ Moves(g, c) /\ Same(calling[g], c)
        /\ c \notin SnapshotCalls /\ c \notin StatsCalls
    <2>1. c \in SnapshotCalls => Step(c) \notin {"enter", "look", "delete"}
      BY SnapshotPath DEF SnapshotCalls, Step
    <2>2. c \in StatsCalls => Step(c) \notin {"enter", "look", "delete"}
      BY StatsPath DEF StatsCalls, Step
    <2> QED
      BY <1>4, <2>1, <2>2, IdlyBegins
  <1>6. UNCHANGED <<collectorVars, items, stats, found, always, ever>>
    BY DEF CallAllow, CallDeny, CallPeek, CallReset, CallCancel, storeVars
  <1> QED
    BY <1>5, <1>6

LEMMA PlainCallsIdle ==
  ASSUME Typed, NEW g \in Goroutines,
         \/ \E r \in Reasons : CallInvalid(g, r)
         \/ \E steps \in QuotaSteps : CallQuota(g, steps)
         \/ CallSweep(g)
  PROVE  /\ \E d \in Calls : /\ Moves(g, d) /\ Same(calling[g], d)
                            /\ d \notin SnapshotCalls /\ d \notin StatsCalls
         /\ UNCHANGED <<collectorVars, items, stats, found, always, ever>>
  <1>1. ASSUME NEW r \in Reasons, CallInvalid(g, r)
        PROVE  \E c \in Calls : Begin(g, c) /\ Moves(g, c) /\ Same(calling[g], c)
                                /\ c.op \in {"allow", "quota", "sweep"}
    <2>1. PICK c : c = [op |-> "allow", key |-> NIL, ok |-> FALSE, of |-> r, wait |-> 0,
                        todo |-> CountSteps(FALSE, 0)]
      OBVIOUS
    <2>2. c \in Calls /\ Step(c) = "total" /\ c.op = "allow"
      BY <2>1, OtherFreshCalls, ObserversAssumption DEF Calls, AllowCalls
    <2> QED
      BY <1>1, <2>1, <2>2, IdlyBegins DEF CallInvalid
  <1>2. ASSUME NEW steps \in QuotaSteps, CallQuota(g, steps)
        PROVE  \E c \in Calls : Begin(g, c) /\ Moves(g, c) /\ Same(calling[g], c)
                                /\ c.op \in {"allow", "quota", "sweep"}
    <2>1. PICK c : c = [op |-> "quota", todo |-> steps]
      OBVIOUS
    <2>2. c \in QuotaCalls /\ c.op = "quota"
      BY <2>1, OtherFreshCalls, ObserversAssumption
    <2>3. c \in Calls /\ c \notin AllowCalls /\ c \notin SweepCalls
      BY <2>2, OpOf DEF Calls
    <2>4. Begin(g, c) /\ Moves(g, c) /\ calling[g] = Idle
      BY <1>2, <2>1 DEF CallQuota, Begin, Moves
    <2>5. Same(Idle, c)
      BY <2>3, OthersWeigh, WeightTypes DEF Same
    <2> QED
      BY <2>2, <2>3, <2>4, <2>5
  <1>3. ASSUME CallSweep(g)
        PROVE  \E c \in Calls : Begin(g, c) /\ Moves(g, c) /\ Same(calling[g], c)
                                /\ c.op \in {"allow", "quota", "sweep"}
    <2>1. PICK c : c = [op |-> "sweep", left |-> Shards, n |-> 0,
                        todo |-> <<"sweep", "sweeps">>]
      OBVIOUS
    <2>2. c \in SweepCalls /\ c.n = 0 /\ c.op = "sweep"
      BY <2>1, OtherFreshCalls, ObserversAssumption
    <2>3. c \in Calls /\ c \notin AllowCalls
      BY <2>2, OpOf DEF Calls
    <2>4. Begin(g, c) /\ Moves(g, c) /\ calling[g] = Idle
      BY <1>3, <2>1 DEF CallSweep, Begin, Moves
    <2>5. Same(Idle, c)
      BY <2>2, <2>3, OthersWeigh, WeightTypes DEF Same
    <2> QED
      BY <2>2, <2>3, <2>4, <2>5
  <1>4. PICK c \in Calls : Begin(g, c) /\ Moves(g, c) /\ Same(calling[g], c)
                           /\ c.op \in {"allow", "quota", "sweep"}
    BY <1>1, <1>2, <1>3
  <1>5. c \notin SnapshotCalls /\ c \notin StatsCalls
    BY <1>4, OpOf
  <1>6. UNCHANGED <<collectorVars, items, stats, found, always, ever>>
    BY DEF CallInvalid, CallQuota, CallSweep, storeVars
  <1> QED
    BY <1>4, <1>5, <1>6

\* What a snapshot and a walk begin with.
LEMMA SnapshotBegins ==
  ASSUME Typed, NEW g \in Goroutines, CallSnapshot(g)
  PROVE  /\ \E d \in SnapshotCalls :
              /\ Moves(g, d) /\ Same(calling[g], d) /\ Step(d) = "lockMaps"
              /\ d.reasons = <<>> /\ d.policies = <<>> /\ d.samples = 0
         /\ UNCHANGED <<collectorVars, items, stats, found, always, ever>>
  <1>1. PICK c : c = [op |-> "snapshot", todo |-> SnapshotSteps,
                      reasons |-> <<>>, policies |-> <<>>, samples |-> 0, nanos |-> 0,
                      allowed |-> 0, denied |-> 0]
    OBVIOUS
  <1>2. /\ c \in SnapshotCalls /\ c \in Calls /\ Step(c) = "lockMaps"
        /\ c.reasons = <<>> /\ c.policies = <<>> /\ c.samples = 0
    BY <1>1, OtherFreshCalls, ObserversAssumption DEF Calls
  <1>3. Begin(g, c) /\ UNCHANGED <<collectorVars, items, stats, found, always, ever>>
    BY <1>1 DEF CallSnapshot, storeVars
  <1> QED
    BY <1>2, <1>3, IdlyBegins

LEMMA StatsBegins ==
  ASSUME Typed, NEW g \in Goroutines, CallStats(g)
  PROVE  /\ \E d \in StatsCalls :
              /\ Moves(g, d) /\ Same(calling[g], d) /\ Step(d) = "walk"
              /\ d.left = Shards /\ d.n = 0 /\ d.sum = Zero
         /\ UNCHANGED <<collectorVars, items, stats, found>>
         /\ always' = [always EXCEPT ![g] = items] /\ ever' = [ever EXCEPT ![g] = items]
  <1>1. PICK c : c = [op |-> "stats", left |-> ShardsToWalk, n |-> 0, sum |-> Zero,
                      todo |-> <<"walk">>]
    OBVIOUS
  <1>2. /\ c \in StatsCalls /\ c \in Calls /\ Step(c) = "walk"
        /\ c.left = Shards /\ c.n = 0 /\ c.sum = Zero
    BY <1>1, OtherFreshCalls, ObserversAssumption DEF Calls, ShardsToWalk
  <1>3. Begin(g, c)
    BY <1>1 DEF CallStats
  <1>4. /\ UNCHANGED <<collectorVars, items, stats, found>>
        /\ always' = [always EXCEPT ![g] = items] /\ ever' = [ever EXCEPT ![g] = items]
    BY DEF CallStats
  <1> QED
    BY <1>2, <1>3, <1>4, IdlyBegins

LEMMA DelsSame ==
  ASSUME Typed, NEW s \in Shards, NEW u \in Tallies, stats' = [stats EXCEPT ![s] = u],
         u.dels = stats[s].dels
  PROVE  Dels' = Dels
  <1>1. \A t \in Shards : stats'[t].dels = stats[t].dels
    BY DEF Typed, Entries
  <1> QED
    BY <1>1 DEF Dels

\* The steps that change no count that another place has to agree with.
IdleStep(g) ==
  \/ \E k \in Keys : \/ \E p \in Policies : CallAllow(g, k, p)
                     \/ \E r \in Reasons, w \in Waits : CallDeny(g, k, r, w)
                     \/ CallPeek(g, k) \/ CallReset(g, k) \/ CallCancel(g, k)
  \/ \E r \in Reasons : CallInvalid(g, r)
  \/ \E steps \in QuotaSteps : CallQuota(g, steps)
  \/ CallSweep(g) \/ CallSnapshot(g) \/ CallStats(g)
  \/ Enter(g) \/ Look(g) \/ Leave(g) \/ WalkShard(g) \/ LockMaps(g) \/ UnlockMaps(g)
  \/ ReadReasons(g) \/ ReadPolicies(g) \/ ReadTotal(g) \/ Return(g)

\* The calls that are not decisions, nor sweeps, weigh nothing.
LEMMA OthersSame ==
  ASSUME NEW c \in Calls, NEW d \in Calls,
         c.op \notin {"allow", "sweep"}, d.op \notin {"allow", "sweep"}
  PROVE  Same(c, d)
  BY OpOf, OthersWeigh DEF Same

LEMMA IdleSteps ==
  ASSUME Typed, NEW g \in Goroutines, IdleStep(g)
  PROVE  /\ \E d \in Calls : Moves(g, d) /\ Same(calling[g], d)
         /\ UNCHANGED <<collectorVars, found>> /\ Dels' = Dels
  <1>1. CASE \/ \E k \in Keys : \/ \E p \in Policies : CallAllow(g, k, p)
                                \/ \E r \in Reasons, w \in Waits : CallDeny(g, k, r, w)
                                \/ CallPeek(g, k) \/ CallReset(g, k) \/ CallCancel(g, k)
             \/ \E r \in Reasons : CallInvalid(g, r)
             \/ \E steps \in QuotaSteps : CallQuota(g, steps)
             \/ CallSweep(g)
    BY <1>1, KeyCallsIdle, PlainCallsIdle DEF Dels
  <1>2. CASE CallSnapshot(g)
    BY <1>2, SnapshotBegins DEF Dels, Calls
  <1>3. CASE CallStats(g)
    BY <1>3, StatsBegins DEF Dels, Calls
  <1>4. CASE Enter(g) \/ Look(g)
    <2>1. Dels' = Dels
      BY <1>4, EnterDoes, LookDoes, DelsSame
    <2>2. Advances(g) /\ Step(calling[g]) \in {"enter", "look"}
      BY <1>4, AtStep DEF Enter, Look, Advances, Typed
    <2> QED
      BY <1>4, <2>1, <2>2, IdlyAdvances DEF Enter, Look
  <1>5. CASE Leave(g) \/ LockMaps(g) \/ UnlockMaps(g)
    <2>1. Advances(g) /\ Step(calling[g]) \in {"leave", "lockMaps", "unlockMaps"}
      BY <1>5, AtStep DEF Leave, LockMaps, UnlockMaps, Advances, Typed
    <2> QED
      BY <1>5, <2>1, IdlyAdvances DEF Leave, LockMaps, UnlockMaps, storeVars, Dels
  <1>6. CASE WalkShard(g)
    <2>1. PICK d \in StatsCalls : calling[g] \in StatsCalls /\ Moves(g, d)
      BY <1>6, WalkDoes
    <2>2. d \in Calls /\ calling[g] \in Calls /\ d.op = "stats" /\ calling[g].op = "stats"
      BY <2>1 DEF Calls, StatsCalls
    <2> QED
      BY <1>6, <2>1, <2>2, OthersSame DEF WalkShard, storeVars, Dels
  <1>7. CASE ReadReasons(g) \/ ReadPolicies(g)
    <2>1. UNCHANGED <<collectorVars, found>> /\ Dels' = Dels
      BY <1>7 DEF ReadReasons, ReadPolicies, storeVars, Dels
    <2>2. calling[g] \in SnapshotCalls /\ Step(calling[g]) \in {"reasons", "policies"}
      BY <1>7, ReasonsDo, PoliciesDo
    <2>3. CASE Advances(g)
      BY <2>1, <2>2, <2>3, IdlyAdvances
    <2>4. ASSUME NEW d \in SnapshotCalls, Moves(g, d)
          PROVE  \E e \in Calls : Moves(g, e) /\ Same(calling[g], e)
      <3>1. d \in Calls /\ calling[g] \in Calls /\ d.op = "snapshot" /\ calling[g].op = "snapshot"
        BY <2>2 DEF Calls, SnapshotCalls
      <3> QED
        BY <2>4, <3>1, OthersSame
    <2> QED
      BY <1>7, <2>1, <2>3, <2>4, ReasonsDo, PoliciesDo
  <1>8. CASE ReadTotal(g)
    <2>1. PICK d \in SnapshotCalls : calling[g] \in SnapshotCalls /\ Moves(g, d)
      BY <1>8, ReadDoes
    <2>2. d \in Calls /\ calling[g] \in Calls /\ d.op = "snapshot" /\ calling[g].op = "snapshot"
      BY <2>1 DEF Calls, SnapshotCalls
    <2> QED
      BY <1>8, <2>1, <2>2, OthersSame DEF ReadTotal, storeVars, Dels
  <1>9. CASE Return(g)
    <2>1. calling[g] \in Calls /\ Idle \in Calls /\ Moves(g, Idle)
      BY <1>9 DEF Return, Moves, Typed, Callers, Calls
    <2>2. Step(calling[g]) = "end" /\ Step(Idle) = "end"
      BY <1>9, <2>1, StepOf DEF Return, Idle
    <2>3. Same(calling[g], Idle)
      BY <2>1, <2>2, Weightless DEF Same
    <2> QED
      BY <1>9, <2>1, <2>3 DEF Return, Dels
  <1> QED
    BY <1>1, <1>2, <1>3, <1>4, <1>5, <1>6, <1>7, <1>8, <1>9 DEF IdleStep

LEMMA PendingSteps ==
  ASSUME Callers, IsFiniteSet(Active(calling)), NEW g \in Goroutines, NEW d \in Calls,
         Moves(g, d), NEW w \in [Calls -> Nat], w[Idle] = 0
  PROVE  /\ IsFiniteSet(Active(calling'))
         /\ Pending(calling, w) \in Nat /\ Pending(calling', w) \in Nat
         /\ Pending(calling', w) = Pending(calling, w) - w[calling[g]] + w[d]
         /\ w[calling[g]] \in Nat /\ w[d] \in Nat
  <1>1. calling \in [Goroutines -> Calls] /\ calling' = [calling EXCEPT ![g] = d]
    BY DEF Callers, Moves
  <1>2. w[calling[g]] \in Nat /\ w[d] \in Nat
    BY <1>1
  <1> QED
    BY <1>1, <1>2, PendingMoves

\* What is added where, and how the call goes on.
LEMMA AddGoes ==
  ASSUME Typed, NEW g \in Goroutines, Add(g)
  PROVE  \E d \in Calls :
           LET c == calling[g] IN
           /\ Moves(g, d) /\ c \in Calls /\ d.op = c.op
           /\ UNCHANGED <<byPolicy, byReason, found>> /\ Dels' = Dels
           /\ \/ /\ Step(c) = "total" /\ Step(d) = "find"
                 /\ c \in AllowCalls /\ d \in AllowCalls /\ d.ok = c.ok
                 /\ count' = [count EXCEPT ![IF c.ok THEN "allowed" ELSE "denied"] = @ + 1]
              \/ /\ Step(c) = "nanos" /\ Step(d) = "sample"
                 /\ c \in AllowCalls /\ d \in AllowCalls /\ d.ok = c.ok /\ c.wait \in Waits \ {0}
                 /\ count' = [count EXCEPT !["waitNanos"] = @ + c.wait]
              \/ /\ Step(c) = "sample" /\ Step(d) = "leave"
                 /\ c \in AllowCalls /\ d \in AllowCalls /\ d.ok = c.ok
                 /\ count' = [count EXCEPT !["waitSamples"] = @ + 1]
              \/ /\ Step(c) = "reserved" /\ Step(d) = "leave"
                 /\ c \in AllowCalls /\ d \in AllowCalls /\ d.ok = c.ok /\ c.ok
                 /\ count' = [count EXCEPT !["reserved"] = @ + 1]
              \/ /\ Step(c) = "sweeps" /\ Step(d) = "end"
                 /\ c \in SweepCalls /\ d \in SweepCalls
                 /\ count' = [count EXCEPT !["sweeps"] = @ + c.n]
              \/ /\ Same(c, d) /\ c \notin SnapshotCalls
                 /\ \E to \in Counters \ {"allowed", "denied", "waitNanos", "waitSamples",
                                          "reserved", "sweeps"} :
                      count' = [count EXCEPT ![to] = @ + 1]
  <1>1. PICK step \in Counters \cup {"total", "nanos", "sample"}, to \in Counters, n \in Nat :
           /\ At(g, step) /\ Step(calling[g]) = step
           /\ Adds(calling[g], step) = [to |-> to, n |-> n]
           /\ count' = [count EXCEPT ![to] = @ + n]
    BY AddDoes
  <1>2. PICK c : c = calling[g]
    OBVIOUS
  <1>3. c \in Calls /\ Step(c) = step /\ Advances(g) /\ c.todo # <<>>
    BY <1>1, <1>2, AtStep DEF Add, Typed, Advances
  <1>4. Step(c) \notin {"walk", "find", "bump", "sweep", "leave", "end", "enter"}
    BY <1>1, <1>3 DEF Counters
  <1>5. PICK d : Moves(g, d) /\ Goes(c, d)
    BY <1>2, <1>3, <1>4, AdvanceGoes DEF Typed, Moves
  <1>6. d \in Calls /\ d.op = c.op
    BY <1>5 DEF Goes
  <1>7. UNCHANGED <<byPolicy, byReason, found>> /\ Dels' = Dels
    BY DEF Add, Dels
  <1>8. c \in AllowCalls => d \in AllowCalls /\ Decides(c, d)
    BY <1>3, <1>5, <1>6, OpOf DEF Goes
  <1>9. Adds(c, step).to = to /\ Adds(c, step).n = n
    BY <1>1, <1>2
  <1>10. CASE step = "total"
    <2>1. c \in AllowCalls /\ Step(d) = "find" /\ d.ok = c.ok
      BY <1>3, <1>8, <1>10, StepOf DEF Decides
    <2>2. to = (IF c.ok THEN "allowed" ELSE "denied") /\ n = 1
      BY <1>9, <1>10 DEF Adds
    <2>3. count' = [count EXCEPT ![IF c.ok THEN "allowed" ELSE "denied"] = @ + 1]
      BY <1>1, <2>2
    <2> QED
      BY <1>2, <1>3, <1>5, <1>6, <1>7, <1>8, <1>10, <2>1, <2>3
  <1>11. CASE step = "nanos"
    <2>1. c \in AllowCalls /\ Step(d) = "sample" /\ d.ok = c.ok /\ c.wait \in Waits \ {0}
      BY <1>3, <1>8, <1>11, StepOf DEF Decides
    <2>2. to = "waitNanos" /\ n = c.wait
      BY <1>9, <1>11 DEF Adds
    <2>3. count' = [count EXCEPT !["waitNanos"] = @ + c.wait]
      BY <1>1, <2>2
    <2> QED
      BY <1>2, <1>3, <1>5, <1>6, <1>7, <1>8, <1>11, <2>1, <2>3
  <1>12. CASE step = "sample"
    <2>1. c \in AllowCalls /\ Step(d) = "leave" /\ d.ok = c.ok
      BY <1>3, <1>8, <1>12, StepOf DEF Decides
    <2>2. to = "waitSamples" /\ n = 1
      BY <1>9, <1>12 DEF Adds
    <2>3. count' = [count EXCEPT !["waitSamples"] = @ + 1]
      BY <1>1, <2>2
    <2> QED
      BY <1>2, <1>3, <1>5, <1>6, <1>7, <1>8, <1>12, <2>1, <2>3
  <1>13. CASE step = "reserved"
    <2>1. c \in AllowCalls /\ Step(d) = "leave" /\ d.ok = c.ok /\ c.ok
      BY <1>3, <1>8, <1>13, StepOf DEF Decides
    <2>2. to = "reserved" /\ n = 1
      BY <1>9, <1>13 DEF Adds
    <2>3. count' = [count EXCEPT !["reserved"] = @ + 1]
      BY <1>1, <2>2
    <2> QED
      BY <1>2, <1>3, <1>5, <1>6, <1>7, <1>8, <1>13, <2>1, <2>3
  <1>14. CASE step = "sweeps"
    <2>1. c \in SweepCalls /\ d \in SweepCalls /\ Step(d) = "end"
      BY <1>3, <1>5, <1>6, <1>14, StepOf, OpOf DEF Goes
    <2>2. to = "sweeps" /\ n = c.n
      BY <1>9, <1>14 DEF Adds
    <2>3. count' = [count EXCEPT !["sweeps"] = @ + c.n]
      BY <1>1, <2>2
    <2> QED
      BY <1>2, <1>3, <1>5, <1>6, <1>7, <1>14, <2>1, <2>3
  <1>15. CASE step \notin {"total", "nanos", "sample", "reserved", "sweeps"}
    <2>1. to = step /\ n = 1
      BY <1>9, <1>15 DEF Adds
    <2>2. step \notin {"allowed", "denied", "waitNanos", "waitSamples"}
      BY <1>3, StepOf
    <2>3. Same(c, d)
      BY <1>3, <1>4, <1>5, <1>15, IdlyGoes
    <2>4. c \notin SnapshotCalls
      <3>1. c \in SnapshotCalls =>
              step \in {"lockMaps", "reasons", "policies", "unlockMaps", "readSamples",
                        "readNanos", "readAllowed", "readDenied", "end"}
        BY <1>3, SnapshotPath DEF SnapshotCalls, Step
      <3> QED
        BY <1>1, <1>15, <3>1 DEF Counters
    <2>5. to \in Counters \ {"allowed", "denied", "waitNanos", "waitSamples", "reserved", "sweeps"}
      BY <1>15, <2>1, <2>2
    <2>6. count' = [count EXCEPT ![to] = @ + 1]
      BY <1>1, <2>1
    <2> QED
      BY <1>2, <1>3, <1>5, <1>6, <1>7, <2>3, <2>4, <2>5, <2>6
  <1> QED
    BY <1>10, <1>11, <1>12, <1>13, <1>14, <1>15

-----------------------------------------------------------------------------
(* What is counted in one place is counted in the other, or is on its way. *)

Counts == Breakdowns /\ Waited /\ Removed

Weights == {Granting, Denying, Reserving, Sampling, Sweeping}

LEMMA WeighsStep ==
  ASSUME Typed, IsFiniteSet(Active(calling)), NEW g \in Goroutines, NEW d \in Calls,
         Moves(g, d), NEW w \in Weights
  PROVE  /\ IsFiniteSet(Active(calling'))
         /\ Pending(calling, w) \in Nat /\ Pending(calling', w) \in Nat
         /\ Pending(calling', w) = Pending(calling, w) - w[calling[g]] + w[d]
         /\ w[calling[g]] \in Nat /\ w[d] \in Nat
  <1>1. w \in [Calls -> Nat] /\ w[Idle] = 0
    BY WeightTypes DEF Weights
  <1> QED
    BY <1>1, PendingSteps DEF Typed

LEMMA LeastWaitIs ==
  ASSUME Waits \ {0} # {}
  PROVE  LeastWait \in Nat /\ \A w \in Waits \ {0} : LeastWait <= w
  BY LeastIn, ObserversAssumption DEF LeastWait

LEMMA OneMore ==
  ASSUME NEW a \in Nat, NEW x \in Nat, NEW n \in Nat, NEW w \in Nat, a * x <= n, a <= w
  PROVE  a * (x + 1) <= n + w
  <1>1. a * (x + 1) = a * x + a /\ a * x \in Nat
    OBVIOUS
  <1> QED
    BY <1>1

\* A step that neither counts nor moves what is on its way.
LEMMA CountsStay ==
  ASSUME Typed, Counts, NEW g \in Goroutines, NEW d \in Calls, Moves(g, d),
         Same(calling[g], d), UNCHANGED <<byPolicy, byReason, found>>, Dels' = Dels,
         \A c \in {"allowed", "denied", "reserved", "sweeps", "waitNanos", "waitSamples"} :
           count'[c] = count[c]
  PROVE  Counts'
  <1>1. IsFiniteSet(Active(calling')) /\ \A w \in Weights : Pending(calling', w) = Pending(calling, w)
    <2>1. IsFiniteSet(Active(calling)) /\ Granting \in Weights
      BY DEF Counts, Breakdowns, Weights
    <2>2. IsFiniteSet(Active(calling'))
      BY <2>1, WeighsStep
    <2>3. ASSUME NEW w \in Weights
          PROVE  Pending(calling', w) = Pending(calling, w)
      <3>1. w[calling[g]] = w[d]
        BY DEF Weights, Same
      <3> QED
        BY <2>1, <3>1, WeighsStep
    <2> QED
      BY <2>2, <2>3
  <1>2. /\ Pending(calling', Granting) = Pending(calling, Granting)
        /\ Pending(calling', Denying) = Pending(calling, Denying)
        /\ Pending(calling', Reserving) = Pending(calling, Reserving)
        /\ Pending(calling', Sampling) = Pending(calling, Sampling)
        /\ Pending(calling', Sweeping) = Pending(calling, Sweeping)
    BY <1>1 DEF Weights
  <1>3. Breakdowns'
    BY <1>1, <1>2 DEF Counts, Breakdowns
  <1>4. Waited'
    BY <1>2 DEF Counts, Waited
  <1>5. Removed'
    BY <1>2 DEF Counts, Removed
  <1> QED
    BY <1>3, <1>4, <1>5 DEF Counts

\* The changes of the weights of a call that goes on from c to d,
Weighs(c, d, t, f, r, s, z) ==
  /\ Granting[d] = Granting[c] + t /\ Denying[d] = Denying[c] + f
  /\ Reserving[d] = Reserving[c] + r /\ Sampling[d] = Sampling[c] + s
  /\ Sweeping[d] = Sweeping[c] + z

\* of what is under way,
Pends(t, f, r, s, z) ==
  /\ IsFiniteSet(Active(calling'))
  /\ Pending(calling, Granting) \in Nat /\ Pending(calling, Denying) \in Nat
  /\ Pending(calling, Reserving) \in Nat /\ Pending(calling, Sampling) \in Nat
  /\ Pending(calling, Sweeping) \in Nat
  /\ Pending(calling', Granting) = Pending(calling, Granting) + t
  /\ Pending(calling', Denying) = Pending(calling, Denying) + f
  /\ Pending(calling', Reserving) = Pending(calling, Reserving) + r
  /\ Pending(calling', Sampling) = Pending(calling, Sampling) + s
  /\ Pending(calling', Sweeping) = Pending(calling, Sweeping) + z

\* of the plain counters,
Adding(a, n, r, s, w, m) ==
  /\ count'["allowed"] = count["allowed"] + a /\ count'["denied"] = count["denied"] + n
  /\ count'["reserved"] = count["reserved"] + r /\ count'["sweeps"] = count["sweeps"] + s
  /\ count'["waitNanos"] = count["waitNanos"] + w
  /\ count'["waitSamples"] = count["waitSamples"] + m

\* and of what these agree with.
Breaking(p, r, x, l) ==
  /\ IsFiniteSet(Named(byPolicy')) /\ IsFiniteSet(Named(byReason'))
  /\ Sum(byPolicy') = Sum(byPolicy) + p /\ Sum(byReason') = Sum(byReason) + r
  /\ found' = found + x /\ Total(Dels', Shards) = Total(Dels, Shards) + l

LEMMA PendingShifts ==
  ASSUME Typed, Counts, NEW g \in Goroutines, NEW d \in Calls, Moves(g, d),
         NEW w \in Weights, NEW by \in Int, w[d] = w[calling[g]] + by
  PROVE  /\ IsFiniteSet(Active(calling'))
         /\ Pending(calling, w) \in Nat /\ Pending(calling', w) \in Nat
         /\ Pending(calling', w) = Pending(calling, w) + by
  <1>1. IsFiniteSet(Active(calling))
    BY DEF Counts, Breakdowns
  <1>2. /\ IsFiniteSet(Active(calling'))
        /\ Pending(calling, w) \in Nat /\ Pending(calling', w) \in Nat
        /\ Pending(calling', w) = Pending(calling, w) - w[calling[g]] + w[d]
        /\ w[calling[g]] \in Nat /\ w[d] \in Nat
    BY <1>1, WeighsStep
  <1> QED
    BY <1>2

LEMMA PendingFive ==
  ASSUME Typed, Counts, NEW g \in Goroutines, NEW d \in Calls, Moves(g, d),
         NEW t \in Int, NEW f \in Int, NEW r \in Int, NEW s \in Int, NEW z \in Int,
         Weighs(calling[g], d, t, f, r, s, z)
  PROVE  Pends(t, f, r, s, z)
  <1>1. /\ Granting \in Weights /\ Denying \in Weights
        /\ Reserving \in Weights /\ Sampling \in Weights /\ Sweeping \in Weights
    BY DEF Weights
  <1>2. /\ IsFiniteSet(Active(calling'))
        /\ Pending(calling, Granting) \in Nat
        /\ Pending(calling', Granting) = Pending(calling, Granting) + t
    BY <1>1, PendingShifts DEF Weighs
  <1>3. /\ Pending(calling, Denying) \in Nat
        /\ Pending(calling', Denying) = Pending(calling, Denying) + f
    BY <1>1, PendingShifts DEF Weighs
  <1>4. /\ Pending(calling, Reserving) \in Nat
        /\ Pending(calling', Reserving) = Pending(calling, Reserving) + r
    BY <1>1, PendingShifts DEF Weighs
  <1>5. /\ Pending(calling, Sampling) \in Nat
        /\ Pending(calling', Sampling) = Pending(calling, Sampling) + s
    BY <1>1, PendingShifts DEF Weighs
  <1>6. /\ Pending(calling, Sweeping) \in Nat
        /\ Pending(calling', Sweeping) = Pending(calling, Sweeping) + z
    BY <1>1, PendingShifts DEF Weighs
  <1> QED
    BY <1>2, <1>3, <1>4, <1>5, <1>6 DEF Pends

LEMMA Balance ==
  ASSUME NEW x \in Int, NEW y \in Int, NEW z \in Int, x = y + z,
         NEW dx \in Int, NEW dy \in Int, NEW dz \in Int, dx = dy + dz,
         NEW a, NEW b, NEW c, a = x + dx, b = y + dy, c = z + dz
  PROVE  a = b + c
  OBVIOUS

\* Changes that balance.
Balances(t, f, r, s, z, a, n, e, v, w, m, p, q, x, l) ==
  /\ a = p + t /\ n = q + f /\ a = e + r /\ l = v + x + z
  /\ m + s = 0 \/ (m + s = 1 /\ w \in Waits \ {0})

LEMMA CountsMove ==
  ASSUME Typed, Counts, NEW g \in Goroutines, NEW d \in Calls, Moves(g, d),
         NEW t \in Int, NEW f \in Int, NEW r \in Int, NEW s \in Int, NEW z \in Int,
         Weighs(calling[g], d, t, f, r, s, z),
         NEW a \in Int, NEW n \in Int, NEW e \in Int, NEW v \in Int, NEW w \in Nat, NEW m \in Int,
         Adding(a, n, e, v, w, m),
         NEW p \in Int, NEW q \in Int, NEW x \in Int, NEW l \in Int,
         Breaking(p, q, x, l),
         Balances(t, f, r, s, z, a, n, e, v, w, m, p, q, x, l)
  PROVE  Counts'
  <1>0. /\ a = p + t /\ n = q + f /\ a = e + r /\ l = v + x + z
        /\ m + s = 0 \/ (m + s = 1 /\ w \in Waits \ {0})
    BY DEF Balances
  <1>1. Pends(t, f, r, s, z)
    BY PendingFive
  <1>2. /\ Sum(byPolicy) \in Nat /\ Sum(byReason) \in Nat /\ found \in Nat
        /\ count["reserved"] \in Nat /\ count["sweeps"] \in Nat /\ count["waitNanos"] \in Nat
        /\ count["waitSamples"] \in Nat /\ count["allowed"] \in Nat /\ count["denied"] \in Nat
    BY SumType DEF Counts, Breakdowns, Typed, Maps, Counters0, Counters, Entries
  <1>3. Breakdowns'
    <2>1. /\ IsFiniteSet(Active(calling'))
          /\ IsFiniteSet(Named(byPolicy')) /\ IsFiniteSet(Named(byReason'))
      BY <1>1 DEF Pends, Breaking
    <2>2. count'["allowed"] = Sum(byPolicy') + Pending(calling', Granting)
      <3>1. /\ count["allowed"] = Sum(byPolicy) + Pending(calling, Granting)
            /\ count'["allowed"] = count["allowed"] + a /\ Sum(byPolicy') = Sum(byPolicy) + p
        BY DEF Counts, Breakdowns, Adding, Breaking
      <3>2. /\ Pending(calling', Granting) = Pending(calling, Granting) + t
            /\ Pending(calling, Granting) \in Int
        BY <1>1 DEF Pends
      <3> QED
        BY <1>0, <1>2, <3>1, <3>2, Balance
    <2>3. count'["denied"] = Sum(byReason') + Pending(calling', Denying)
      <3>1. /\ count["denied"] = Sum(byReason) + Pending(calling, Denying)
            /\ count'["denied"] = count["denied"] + n /\ Sum(byReason') = Sum(byReason) + q
        BY DEF Counts, Breakdowns, Adding, Breaking
      <3>2. /\ Pending(calling', Denying) = Pending(calling, Denying) + f
            /\ Pending(calling, Denying) \in Int
        BY <1>1 DEF Pends
      <3> QED
        BY <1>0, <1>2, <3>1, <3>2, Balance
    <2>4. count'["allowed"] = count'["reserved"] + Pending(calling', Reserving)
      <3>1. /\ count["allowed"] = count["reserved"] + Pending(calling, Reserving)
            /\ count'["allowed"] = count["allowed"] + a
            /\ count'["reserved"] = count["reserved"] + e
        BY DEF Counts, Breakdowns, Adding
      <3>2. /\ Pending(calling', Reserving) = Pending(calling, Reserving) + r
            /\ Pending(calling, Reserving) \in Int
        BY <1>1 DEF Pends
      <3> QED
        BY <1>0, <1>2, <3>1, <3>2, Balance
    <2> QED
      BY <2>1, <2>2, <2>3, <2>4 DEF Breakdowns
  <1>4. Removed'
    BY <1>0, <1>1, <1>2 DEF Pends, Adding, Breaking, Counts, Removed
  <1>5. Waited'
    <2>1. SUFFICES ASSUME Waits \ {0} # {}
                   PROVE  LeastWait * (count'["waitSamples"] + Pending(calling', Sampling))
                            <= count'["waitNanos"]
      BY DEF Waited
    <2>2. LeastWait \in Nat /\ \A u \in Waits \ {0} : LeastWait <= u
      BY <2>1, LeastWaitIs
    <2>3. PICK k, j : /\ k = count["waitSamples"] + Pending(calling, Sampling)
                      /\ j = count'["waitSamples"] + Pending(calling', Sampling)
      OBVIOUS
    <2>4. k \in Nat /\ j = k + (m + s) /\ count'["waitNanos"] = count["waitNanos"] + w
      BY <1>1, <1>2, <2>3 DEF Pends, Adding
    <2>5. LeastWait * k <= count["waitNanos"]
      BY <2>1, <2>3 DEF Counts, Waited
    <2>6. CASE m + s = 0
      <3>1. j = k /\ count["waitNanos"] <= count'["waitNanos"]
        BY <1>2, <2>4, <2>6
      <3>2. LeastWait * k \in Nat
        BY <2>2, <2>4, NatProduct
      <3>3. LeastWait * j <= count'["waitNanos"]
        BY <1>2, <2>4, <2>5, <3>1, <3>2
      <3> QED
        BY <2>3, <3>3
    <2>7. CASE m + s = 1 /\ w \in Waits \ {0}
      <3>1. j = k + 1 /\ LeastWait <= w
        BY <2>2, <2>4, <2>7
      <3>2. LeastWait * (k + 1) <= count["waitNanos"] + w
        BY <1>2, <2>2, <2>4, <2>5, <3>1, OneMore
      <3> QED
        BY <2>3, <2>4, <3>1, <3>2
    <2> QED
      BY <1>0, <2>6, <2>7
  <1> QED
    BY <1>3, <1>4, <1>5 DEF Counts

\* How the weights of a decision change from step to step.
LEMMA DecisionShifts ==
  ASSUME NEW c \in AllowCalls, NEW d \in AllowCalls, d.ok = c.ok
  PROVE  /\ Step(c) = "total" /\ Step(d) = "find" /\ c.ok => Weighs(c, d, 1, 0, 1, 0, 0)
         /\ Step(c) = "total" /\ Step(d) = "find" /\ ~c.ok => Weighs(c, d, 0, 1, 0, 0, 0)
         /\ Step(c) = "find" /\ Step(d) = "bump" /\ c.ok => Weighs(c, d, 0, 0, 0, 0, 0)
         /\ Step(c) = "find" /\ Step(d) = "bump" /\ ~c.ok => Weighs(c, d, 0, 0, 0, 0, 0)
         /\ Step(c) = "bump" /\ Step(d) = "reserved" /\ c.ok => Weighs(c, d, -1, 0, 0, 0, 0)
         /\ Step(c) = "bump" /\ Step(d) \in {"nanos", "leave", "end"} /\ ~c.ok
              => Weighs(c, d, 0, -1, 0, 0, 0)
         /\ Step(c) = "reserved" /\ Step(d) = "leave" /\ c.ok => Weighs(c, d, 0, 0, -1, 0, 0)
         /\ Step(c) = "nanos" /\ Step(d) = "sample" => Weighs(c, d, 0, 0, 0, 1, 0)
         /\ Step(c) = "sample" /\ Step(d) = "leave" => Weighs(c, d, 0, 0, 0, -1, 0)
  <1>1. Step(c) = "total" /\ Step(d) = "find" /\ c.ok =>
          Weighs(c, d, 1, 0, 1, 0, 0)
    <2> HAVE Step(c) = "total" /\ Step(d) = "find" /\ c.ok
    <2>1. /\ Granting[c] = 0 /\ Denying[c] = 0 /\ Reserving[c] = 0 /\ Sampling[c] = 0
          /\ Granting[d] = 1 /\ Denying[d] = 0 /\ Reserving[d] = 1 /\ Sampling[d] = 0
          /\ Sweeping[c] = 0 /\ Sweeping[d] = 0
      BY AllowWeighs
    <2> QED
      BY <2>1 DEF Weighs
  <1>2. Step(c) = "total" /\ Step(d) = "find" /\ ~c.ok =>
          Weighs(c, d, 0, 1, 0, 0, 0)
    <2> HAVE Step(c) = "total" /\ Step(d) = "find" /\ ~c.ok
    <2>1. /\ Granting[c] = 0 /\ Denying[c] = 0 /\ Reserving[c] = 0 /\ Sampling[c] = 0
          /\ Granting[d] = 0 /\ Denying[d] = 1 /\ Reserving[d] = 0 /\ Sampling[d] = 0
          /\ Sweeping[c] = 0 /\ Sweeping[d] = 0
      BY AllowWeighs
    <2> QED
      BY <2>1 DEF Weighs
  <1>3. Step(c) = "find" /\ Step(d) = "bump" /\ c.ok =>
          Weighs(c, d, 0, 0, 0, 0, 0)
    <2> HAVE Step(c) = "find" /\ Step(d) = "bump" /\ c.ok
    <2>1. /\ Granting[c] = 1 /\ Denying[c] = 0 /\ Reserving[c] = 1 /\ Sampling[c] = 0
          /\ Granting[d] = 1 /\ Denying[d] = 0 /\ Reserving[d] = 1 /\ Sampling[d] = 0
          /\ Sweeping[c] = 0 /\ Sweeping[d] = 0
      BY AllowWeighs
    <2> QED
      BY <2>1 DEF Weighs
  <1>4. Step(c) = "find" /\ Step(d) = "bump" /\ ~c.ok =>
          Weighs(c, d, 0, 0, 0, 0, 0)
    <2> HAVE Step(c) = "find" /\ Step(d) = "bump" /\ ~c.ok
    <2>1. /\ Granting[c] = 0 /\ Denying[c] = 1 /\ Reserving[c] = 0 /\ Sampling[c] = 0
          /\ Granting[d] = 0 /\ Denying[d] = 1 /\ Reserving[d] = 0 /\ Sampling[d] = 0
          /\ Sweeping[c] = 0 /\ Sweeping[d] = 0
      BY AllowWeighs
    <2> QED
      BY <2>1 DEF Weighs
  <1>5. Step(c) = "bump" /\ Step(d) = "reserved" /\ c.ok =>
          Weighs(c, d, -1, 0, 0, 0, 0)
    <2> HAVE Step(c) = "bump" /\ Step(d) = "reserved" /\ c.ok
    <2>1. /\ Granting[c] = 1 /\ Denying[c] = 0 /\ Reserving[c] = 1 /\ Sampling[c] = 0
          /\ Granting[d] = 0 /\ Denying[d] = 0 /\ Reserving[d] = 1 /\ Sampling[d] = 0
          /\ Sweeping[c] = 0 /\ Sweeping[d] = 0
      BY AllowWeighs
    <2> QED
      BY <2>1 DEF Weighs
  <1>6. Step(c) = "bump" /\ Step(d) \in {"nanos", "leave", "end"} /\ ~c.ok =>
          Weighs(c, d, 0, -1, 0, 0, 0)
    <2> HAVE Step(c) = "bump" /\ Step(d) \in {"nanos", "leave", "end"} /\ ~c.ok
    <2>1. /\ Granting[c] = 0 /\ Denying[c] = 1 /\ Reserving[c] = 0 /\ Sampling[c] = 0
          /\ Granting[d] = 0 /\ Denying[d] = 0 /\ Reserving[d] = 0 /\ Sampling[d] = 0
          /\ Sweeping[c] = 0 /\ Sweeping[d] = 0
      BY AllowWeighs
    <2> QED
      BY <2>1 DEF Weighs
  <1>7. Step(c) = "reserved" /\ Step(d) = "leave" /\ c.ok =>
          Weighs(c, d, 0, 0, -1, 0, 0)
    <2> HAVE Step(c) = "reserved" /\ Step(d) = "leave" /\ c.ok
    <2>1. /\ Granting[c] = 0 /\ Denying[c] = 0 /\ Reserving[c] = 1 /\ Sampling[c] = 0
          /\ Granting[d] = 0 /\ Denying[d] = 0 /\ Reserving[d] = 0 /\ Sampling[d] = 0
          /\ Sweeping[c] = 0 /\ Sweeping[d] = 0
      BY AllowWeighs
    <2> QED
      BY <2>1 DEF Weighs
  <1>8. Step(c) = "nanos" /\ Step(d) = "sample" =>
          Weighs(c, d, 0, 0, 0, 1, 0)
    <2> HAVE Step(c) = "nanos" /\ Step(d) = "sample"
    <2>1. /\ Granting[c] = 0 /\ Denying[c] = 0 /\ Reserving[c] = 0 /\ Sampling[c] = 0
          /\ Granting[d] = 0 /\ Denying[d] = 0 /\ Reserving[d] = 0 /\ Sampling[d] = 1
          /\ Sweeping[c] = 0 /\ Sweeping[d] = 0
      BY AllowWeighs
    <2> QED
      BY <2>1 DEF Weighs
  <1>9. Step(c) = "sample" /\ Step(d) = "leave" =>
          Weighs(c, d, 0, 0, 0, -1, 0)
    <2> HAVE Step(c) = "sample" /\ Step(d) = "leave"
    <2>1. /\ Granting[c] = 0 /\ Denying[c] = 0 /\ Reserving[c] = 0 /\ Sampling[c] = 1
          /\ Granting[d] = 0 /\ Denying[d] = 0 /\ Reserving[d] = 0 /\ Sampling[d] = 0
          /\ Sweeping[c] = 0 /\ Sweeping[d] = 0
      BY AllowWeighs
    <2> QED
      BY <2>1 DEF Weighs
  <1> QED
    BY <1>1, <1>2, <1>3, <1>4, <1>5, <1>6, <1>7, <1>8, <1>9

LEMMA AddingIs ==
  ASSUME Typed, NEW to \in Counters, NEW n \in Nat, count' = [count EXCEPT ![to] = @ + n]
  PROVE  /\ to = "allowed" => Adding(n, 0, 0, 0, 0, 0)
         /\ to = "denied" => Adding(0, n, 0, 0, 0, 0)
         /\ to = "reserved" => Adding(0, 0, n, 0, 0, 0)
         /\ to = "sweeps" => Adding(0, 0, 0, n, 0, 0)
         /\ to = "waitNanos" => Adding(0, 0, 0, 0, n, 0)
         /\ to = "waitSamples" => Adding(0, 0, 0, 0, 0, n)
         /\ to \notin {"allowed", "denied", "reserved", "sweeps", "waitNanos", "waitSamples"}
              => Adding(0, 0, 0, 0, 0, 0)
  <1>1. \A c \in Counters : count[c] \in Nat /\ count'[c] = count[c] + (IF c = to THEN n ELSE 0)
    BY DEF Typed, Counters0
  <1>2. {"allowed", "denied", "reserved", "sweeps", "waitNanos", "waitSamples"} \subseteq Counters
    BY DEF Counters
  <1>3. CASE to \in {"allowed", "denied", "reserved"}
    BY <1>1, <1>2, <1>3 DEF Adding
  <1>4. CASE to \in {"sweeps", "waitNanos", "waitSamples"}
    BY <1>1, <1>2, <1>4 DEF Adding
  <1>5. CASE to \notin {"allowed", "denied", "reserved", "sweeps", "waitNanos", "waitSamples"}
    BY <1>1, <1>2, <1>5 DEF Adding
  <1> QED
    BY <1>3, <1>4, <1>5

LEMMA NothingBreaks ==
  ASSUME Typed, Counts, UNCHANGED <<byPolicy, byReason, found>>, Dels' = Dels
  PROVE  Breaking(0, 0, 0, 0) /\ Total(Dels, Shards) \in Nat
  <1>1. \A s \in Shards : Dels[s] \in Nat
    BY DEF Dels, Typed, Entries, Tallies
  <1>2. Total(Dels, Shards) \in Nat
    BY <1>1, ObserversAssumption, TotalType
  <1>3. Sum(byPolicy) \in Nat /\ Sum(byReason) \in Nat /\ found \in Nat
    BY SumType DEF Counts, Breakdowns, Typed, Maps, Entries
  <1> QED
    BY <1>2, <1>3 DEF Breaking, Counts, Breakdowns

LEMMA AddCounts ==
  ASSUME Typed, Counts, NEW g \in Goroutines, Add(g)
  PROVE  Counts'
  <1>1. PICK d \in Calls :
           LET c == calling[g] IN
           /\ Moves(g, d) /\ c \in Calls /\ d.op = c.op
           /\ UNCHANGED <<byPolicy, byReason, found>> /\ Dels' = Dels
           /\ \/ /\ Step(c) = "total" /\ Step(d) = "find"
                 /\ c \in AllowCalls /\ d \in AllowCalls /\ d.ok = c.ok
                 /\ count' = [count EXCEPT ![IF c.ok THEN "allowed" ELSE "denied"] = @ + 1]
              \/ /\ Step(c) = "nanos" /\ Step(d) = "sample"
                 /\ c \in AllowCalls /\ d \in AllowCalls /\ d.ok = c.ok /\ c.wait \in Waits \ {0}
                 /\ count' = [count EXCEPT !["waitNanos"] = @ + c.wait]
              \/ /\ Step(c) = "sample" /\ Step(d) = "leave"
                 /\ c \in AllowCalls /\ d \in AllowCalls /\ d.ok = c.ok
                 /\ count' = [count EXCEPT !["waitSamples"] = @ + 1]
              \/ /\ Step(c) = "reserved" /\ Step(d) = "leave"
                 /\ c \in AllowCalls /\ d \in AllowCalls /\ d.ok = c.ok /\ c.ok
                 /\ count' = [count EXCEPT !["reserved"] = @ + 1]
              \/ /\ Step(c) = "sweeps" /\ Step(d) = "end"
                 /\ c \in SweepCalls /\ d \in SweepCalls
                 /\ count' = [count EXCEPT !["sweeps"] = @ + c.n]
              \/ /\ Same(c, d) /\ c \notin SnapshotCalls
                 /\ \E to \in Counters \ {"allowed", "denied", "waitNanos", "waitSamples",
                                          "reserved", "sweeps"} :
                      count' = [count EXCEPT ![to] = @ + 1]
    BY AddGoes
  <1>2. PICK c \in Calls : c = calling[g] /\ Moves(g, d)
    BY <1>1
  <1>3. Breaking(0, 0, 0, 0)
    BY <1>1, NothingBreaks
  <1>4. CASE /\ Step(c) = "total" /\ Step(d) = "find"
             /\ c \in AllowCalls /\ d \in AllowCalls /\ d.ok = c.ok
             /\ count' = [count EXCEPT ![IF c.ok THEN "allowed" ELSE "denied"] = @ + 1]
    <2>1. c.ok \in BOOLEAN
      BY <1>4, AllowOf
    <2>2. CASE c.ok
      <3>1. Weighs(c, d, 1, 0, 1, 0, 0)
        BY <1>4, <2>2, DecisionShifts
      <3>2. Adding(1, 0, 0, 0, 0, 0)
        BY <1>4, <2>2, AddingIs DEF Counters
      <3>3. Balances(1, 0, 1, 0, 0, 1, 0, 0, 0, 0, 0, 0, 0, 0, 0)
        BY DEF Balances
      <3> QED
        BY <1>2, <1>3, <3>1, <3>2, <3>3, CountsMove
    <2>3. CASE ~c.ok
      <3>1. Weighs(c, d, 0, 1, 0, 0, 0)
        BY <1>4, <2>3, DecisionShifts
      <3>2. Adding(0, 1, 0, 0, 0, 0)
        BY <1>4, <2>3, AddingIs DEF Counters
      <3>3. Balances(0, 1, 0, 0, 0, 0, 1, 0, 0, 0, 0, 0, 0, 0, 0)
        BY DEF Balances
      <3> QED
        BY <1>2, <1>3, <3>1, <3>2, <3>3, CountsMove
    <2> QED
      BY <2>1, <2>2, <2>3
  <1>5. CASE /\ Step(c) = "nanos" /\ Step(d) = "sample"
             /\ c \in AllowCalls /\ d \in AllowCalls /\ d.ok = c.ok /\ c.wait \in Waits \ {0}
             /\ count' = [count EXCEPT !["waitNanos"] = @ + c.wait]
    <2>1. Weighs(c, d, 0, 0, 0, 1, 0)
      BY <1>5, DecisionShifts
    <2>2. c.wait \in Nat /\ Adding(0, 0, 0, 0, c.wait, 0)
      BY <1>5, AddingIs, ObserversAssumption DEF Counters
    <2>3. Balances(0, 0, 0, 1, 0, 0, 0, 0, 0, c.wait, 0, 0, 0, 0, 0)
      BY <1>5 DEF Balances
    <2> QED
      BY <1>2, <1>3, <2>1, <2>2, <2>3, CountsMove
  <1>6. CASE /\ Step(c) = "sample" /\ Step(d) = "leave"
             /\ c \in AllowCalls /\ d \in AllowCalls /\ d.ok = c.ok
             /\ count' = [count EXCEPT !["waitSamples"] = @ + 1]
    <2>1. Weighs(c, d, 0, 0, 0, -1, 0)
      BY <1>6, DecisionShifts
    <2>2. Adding(0, 0, 0, 0, 0, 1)
      BY <1>6, AddingIs DEF Counters
    <2>3. Balances(0, 0, 0, -1, 0, 0, 0, 0, 0, 0, 1, 0, 0, 0, 0)
      BY DEF Balances
    <2> QED
      BY <1>2, <1>3, <2>1, <2>2, <2>3, CountsMove
  <1>7. CASE /\ Step(c) = "reserved" /\ Step(d) = "leave"
             /\ c \in AllowCalls /\ d \in AllowCalls /\ d.ok = c.ok /\ c.ok
             /\ count' = [count EXCEPT !["reserved"] = @ + 1]
    <2>1. Weighs(c, d, 0, 0, -1, 0, 0)
      BY <1>7, DecisionShifts
    <2>2. Adding(0, 0, 1, 0, 0, 0)
      BY <1>7, AddingIs DEF Counters
    <2>3. Balances(0, 0, -1, 0, 0, 0, 0, 1, 0, 0, 0, 0, 0, 0, 0)
      BY DEF Balances
    <2> QED
      BY <1>2, <1>3, <2>1, <2>2, <2>3, CountsMove
  <1>8. CASE /\ Step(c) = "sweeps" /\ Step(d) = "end"
             /\ c \in SweepCalls /\ d \in SweepCalls
             /\ count' = [count EXCEPT !["sweeps"] = @ + c.n]
    <2>1. c.n \in Nat /\ c \notin AllowCalls /\ d \notin AllowCalls
      BY <1>8, OpOf DEF SweepCalls
    <2>2. /\ Granting[c] = 0 /\ Denying[c] = 0 /\ Reserving[c] = 0 /\ Sampling[c] = 0
          /\ Sweeping[c] = c.n
      BY <1>8, <2>1, OthersWeigh
    <2>3. /\ Granting[d] = 0 /\ Denying[d] = 0 /\ Reserving[d] = 0 /\ Sampling[d] = 0
          /\ Sweeping[d] = 0
      BY <1>8, <2>1, OthersWeigh
    <2>4. PICK v \in Int, z \in Int : v = c.n /\ z = -c.n
      BY <2>1
    <2>5. Weighs(c, d, 0, 0, 0, 0, z)
      BY <2>1, <2>2, <2>3, <2>4 DEF Weighs
    <2>6. Adding(0, 0, 0, v, 0, 0)
      BY <1>8, <2>1, <2>4, AddingIs DEF Counters
    <2>7. Balances(0, 0, 0, 0, z, 0, 0, 0, v, 0, 0, 0, 0, 0, 0)
      BY <2>1, <2>4 DEF Balances
    <2> QED
      BY <1>2, <1>3, <2>5, <2>6, <2>7, CountsMove, SMTT(30)
  <1>9. CASE /\ Same(c, d)
             /\ \E to \in Counters \ {"allowed", "denied", "waitNanos", "waitSamples",
                                      "reserved", "sweeps"} :
                  count' = [count EXCEPT ![to] = @ + 1]
    <2>1. \A i \in {"allowed", "denied", "reserved", "sweeps", "waitNanos", "waitSamples"} :
            count'[i] = count[i]
      BY <1>9 DEF Typed, Counters0, Counters
    <2> QED
      BY <1>1, <1>2, <1>9, <2>1, CountsStay
  <1> QED
    BY <1>1, <1>2, <1>4, <1>5, <1>6, <1>7, <1>8, <1>9

LEMMA FindCounts ==
  ASSUME Typed, Counts, NEW g \in Goroutines, FindCounter(g)
  PROVE  Counts'
  <1>1. PICK c : c = calling[g]
    OBVIOUS
  <1>2. /\ c \in AllowCalls /\ Step(c) = "find"
        /\ IF c.ok
             THEN /\ c.of \in Policies
                  /\ byPolicy' = Found(byPolicy, c.of) /\ UNCHANGED byReason
             ELSE /\ c.of \in Reasons
                  /\ byReason' = Found(byReason, c.of) /\ UNCHANGED byPolicy
    BY <1>1, FindDoes
  <1>3. c \in Calls /\ Advances(g) /\ UNCHANGED <<count, found>> /\ Dels' = Dels
    BY <1>1, AtStep DEF FindCounter, Advances, Typed, storeVars, Dels
  <1>4. PICK d : Moves(g, d) /\ Goes(c, d)
    BY <1>1, <1>2, <1>3, AdvanceGoes DEF Typed, Moves
  <1>5. d \in Calls /\ d \in AllowCalls /\ d.ok = c.ok /\ Step(d) = "bump"
    BY <1>2, <1>4 DEF Goes, Decides
  <1>6. Weighs(c, d, 0, 0, 0, 0, 0)
    BY <1>2, <1>5, AllowOf, DecisionShifts
  <1>7. Adding(0, 0, 0, 0, 0, 0)
    BY <1>3 DEF Adding, Typed, Counters0, Counters
  <1>8. /\ byPolicy \in [Policies -> Nat \cup {NIL}] /\ IsFiniteSet(Named(byPolicy))
        /\ byReason \in [Reasons -> Nat \cup {NIL}] /\ IsFiniteSet(Named(byReason))
        /\ Sum(byPolicy) \in Nat /\ Sum(byReason) \in Nat /\ found \in Nat
    BY SumType DEF Typed, Maps, Entries, Counts, Breakdowns
  <1>9. Total(Dels', Shards) = Total(Dels, Shards) + 0
    <2>1. \A s \in Shards : Dels[s] \in Nat
      BY DEF Dels, Typed, Entries, Tallies
    <2>2. Total(Dels, Shards) \in Nat
      BY <2>1, ObserversAssumption, TotalType
    <2> QED
      BY <1>3, <2>2
  <1>10. /\ IsFiniteSet(Named(byPolicy')) /\ Sum(byPolicy') = Sum(byPolicy)
         /\ IsFiniteSet(Named(byReason')) /\ Sum(byReason') = Sum(byReason)
    <2>1. CASE c.ok
      BY <1>2, <1>8, <2>1, SumFound
    <2>2. CASE ~c.ok
      BY <1>2, <1>8, <2>2, SumFound
    <2> QED
      BY <2>1, <2>2
  <1>11. Breaking(0, 0, 0, 0)
    BY <1>3, <1>8, <1>9, <1>10 DEF Breaking
  <1>12. Balances(0, 0, 0, 0, 0, 0, 0, 0, 0, 0, 0, 0, 0, 0, 0)
    BY DEF Balances
  <1> QED
    BY <1>1, <1>4, <1>5, <1>6, <1>7, <1>11, <1>12, CountsMove

LEMMA BumpCounts ==
  ASSUME Typed, Counts, NEW g \in Goroutines, BumpCounter(g)
  PROVE  Counts'
  <1>1. PICK c : c = calling[g]
    OBVIOUS
  <1>2. /\ c \in AllowCalls /\ Step(c) = "bump"
        /\ IF c.ok
             THEN /\ c.of \in Policies /\ byPolicy[c.of] \in Nat
                  /\ byPolicy' = [byPolicy EXCEPT ![c.of] = @ + 1] /\ UNCHANGED byReason
             ELSE /\ c.of \in Reasons /\ byReason[c.of] \in Nat
                  /\ byReason' = [byReason EXCEPT ![c.of] = @ + 1] /\ UNCHANGED byPolicy
    BY <1>1, BumpDoes
  <1>3. c \in Calls /\ Advances(g) /\ UNCHANGED <<count, found>> /\ Dels' = Dels
    BY <1>1, AtStep DEF BumpCounter, Advances, Typed, storeVars, Dels
  <1>4. PICK d : Moves(g, d) /\ Goes(c, d)
    BY <1>1, <1>2, <1>3, AdvanceGoes DEF Typed, Moves
  <1>5. /\ d \in Calls /\ d \in AllowCalls /\ d.ok = c.ok
        /\ IF c.ok THEN Step(d) = "reserved" ELSE Step(d) \in {"nanos", "leave", "end"}
    BY <1>2, <1>4 DEF Goes, Decides
  <1>6. c.ok \in BOOLEAN
    BY <1>2, AllowOf
  <1>7. Adding(0, 0, 0, 0, 0, 0)
    BY <1>3 DEF Adding, Typed, Counters0, Counters
  <1>8. /\ byPolicy \in [Policies -> Nat \cup {NIL}] /\ IsFiniteSet(Named(byPolicy))
        /\ byReason \in [Reasons -> Nat \cup {NIL}] /\ IsFiniteSet(Named(byReason))
        /\ Sum(byPolicy) \in Nat /\ Sum(byReason) \in Nat /\ found \in Nat
    BY SumType DEF Typed, Maps, Entries, Counts, Breakdowns
  <1>9. Total(Dels', Shards) = Total(Dels, Shards) + 0
    <2>1. \A s \in Shards : Dels[s] \in Nat
      BY DEF Dels, Typed, Entries, Tallies
    <2>2. Total(Dels, Shards) \in Nat
      BY <2>1, ObserversAssumption, TotalType
    <2> QED
      BY <1>3, <2>2
  <1>10. CASE c.ok
    <2>1. Weighs(c, d, -1, 0, 0, 0, 0)
      BY <1>2, <1>5, <1>10, DecisionShifts
    <2>2. /\ IsFiniteSet(Named(byPolicy')) /\ Sum(byPolicy') = Sum(byPolicy) + 1
          /\ byReason' = byReason
      BY <1>2, <1>8, <1>10, SumBumped, ZenonT(40)
    <2>3. Breaking(1, 0, 0, 0)
      BY <1>3, <1>8, <1>9, <2>2 DEF Breaking
    <2>4. Balances(-1, 0, 0, 0, 0, 0, 0, 0, 0, 0, 0, 1, 0, 0, 0)
      BY DEF Balances
    <2> QED
      BY <1>1, <1>4, <1>5, <1>7, <2>1, <2>3, <2>4, CountsMove
  <1>11. CASE ~c.ok
    <2>1. Weighs(c, d, 0, -1, 0, 0, 0)
      BY <1>2, <1>5, <1>11, DecisionShifts
    <2>2. /\ IsFiniteSet(Named(byReason')) /\ Sum(byReason') = Sum(byReason) + 1
          /\ byPolicy' = byPolicy
      BY <1>2, <1>8, <1>11, SumBumped
    <2>3. Breaking(0, 1, 0, 0)
      BY <1>3, <1>8, <1>9, <2>2 DEF Breaking
    <2>4. Balances(0, -1, 0, 0, 0, 0, 0, 0, 0, 0, 0, 0, 1, 0, 0)
      BY DEF Balances
    <2> QED
      BY <1>1, <1>4, <1>5, <1>7, <2>1, <2>3, <2>4, CountsMove
  <1> QED
    BY <1>6, <1>10, <1>11

\* Entries removed of one shard.
LEMMA DelsMore ==
  ASSUME Typed, NEW s \in Shards, NEW u \in Tallies, stats' = [stats EXCEPT ![s] = u],
         NEW n \in Nat, u.dels = stats[s].dels + n
  PROVE  Total(Dels', Shards) = Total(Dels, Shards) + n
  <1>1. PICK A, B : A = Dels /\ B = Dels'
    OBVIOUS
  <1>2. /\ \A t \in Shards : A[t] \in Nat
        /\ \A t \in Shards : B[t] \in Nat
        /\ B[s] = A[s] + n
        /\ \A t \in Shards \ {s} : A[t] = B[t]
    <2>1. /\ \A t \in Shards : stats[t] \in Tallies /\ stats'[t] \in Tallies
          /\ stats'[s] = u /\ \A t \in Shards \ {s} : stats[t] = stats'[t]
      BY DEF Typed, Entries
    <2>2. \A t \in Shards : stats[t].dels \in Nat /\ stats'[t].dels \in Nat
      BY <2>1 DEF Tallies
    <2>3. \A t \in Shards : A[t] = stats[t].dels /\ B[t] = stats'[t].dels
      BY <1>1 DEF Dels
    <2> QED
      BY <2>1, <2>2, <2>3
  <1>3. IsFiniteSet(Shards \ {s})
    BY ObserversAssumption, FS_RemoveElement
  <1>4. Total(A, Shards) = Total(A, Shards \ {s}) + A[s]
    <2>1. \A t \in Shards : A[t] \in Int
      BY <1>2
    <2> QED
      BY <2>1, ObserversAssumption, TotalLess
  <1>5. Total(B, Shards) = Total(B, Shards \ {s}) + B[s]
    <2>1. \A t \in Shards : B[t] \in Int
      BY <1>2
    <2> QED
      BY <2>1, ObserversAssumption, TotalLess
  <1>6. Total(A, Shards \ {s}) = Total(B, Shards \ {s})
    BY <1>2, <1>3, TotalSame
  <1>7. Total(A, Shards \ {s}) \in Nat
    <2>1. \A t \in Shards \ {s} : A[t] \in Nat
      BY <1>2
    <2> QED
      BY <1>3, <2>1, TotalType
  <1> QED
    BY <1>1, <1>2, <1>4, <1>5, <1>6, <1>7

LEMMA SweepCounts ==
  ASSUME Typed, Counts, NEW g \in Goroutines, SweepShard(g)
  PROVE  Counts'
  <1>1. PICK s \in Shards, idle \in SUBSET items, d \in SweepCalls, n \in Nat :
           /\ calling[g] \in SweepCalls /\ Step(calling[g]) = "sweep"
           /\ n = Cardinality(idle) /\ \A k \in idle : ShardOf[k] = s
           /\ stats' = [stats EXCEPT ![s] = Swept(@, n)]
           /\ Leaves(items \ idle)
           /\ Moves(g, d) /\ d.n = calling[g].n + n /\ Step(d) \in {"sweep", "sweeps"}
    BY SweepDoes
  <1>2. PICK c : c = calling[g]
    OBVIOUS
  <1>3. /\ c \in Calls /\ d \in Calls /\ c \notin AllowCalls /\ d \notin AllowCalls
        /\ c.n \in Nat /\ c \in SweepCalls /\ Step(c) = "sweep" /\ d.n = c.n + n
    BY <1>1, <1>2, OpOf DEF Calls, SweepCalls
  <1>4. /\ Granting[c] = 0 /\ Denying[c] = 0 /\ Reserving[c] = 0 /\ Sampling[c] = 0
        /\ Sweeping[c] = c.n
    BY <1>3, OthersWeigh
  <1>5. /\ Granting[d] = 0 /\ Denying[d] = 0 /\ Reserving[d] = 0 /\ Sampling[d] = 0
        /\ Sweeping[d] = d.n
    BY <1>1, <1>3, OthersWeigh
  <1>6. Weighs(c, d, 0, 0, 0, 0, n)
    BY <1>3, <1>4, <1>5 DEF Weighs
  <1>7. UNCHANGED <<count, byPolicy, byReason, found>>
    BY DEF SweepShard, collectorVars
  <1>8. Adding(0, 0, 0, 0, 0, 0)
    BY <1>7 DEF Adding, Typed, Counters0, Counters
  <1>9. Total(Dels', Shards) = Total(Dels, Shards) + n
    <2>1. PICK u : u = Swept(stats[s], n)
      OBVIOUS
    <2>2. stats' = [stats EXCEPT ![s] = u] /\ stats[s] \in Tallies
      BY <1>1, <2>1 DEF Typed, Entries
    <2>3. u \in Tallies /\ u.dels = stats[s].dels + n
      BY <2>1, <2>2, SweptIs
    <2> QED
      BY <2>2, <2>3, DelsMore
  <1>10. /\ Sum(byPolicy) \in Nat /\ Sum(byReason) \in Nat /\ found \in Nat
         /\ IsFiniteSet(Named(byPolicy)) /\ IsFiniteSet(Named(byReason))
    BY SumType DEF Typed, Maps, Entries, Counts, Breakdowns
  <1>11. Breaking(0, 0, 0, n)
    BY <1>7, <1>9, <1>10 DEF Breaking
  <1>12. Balances(0, 0, 0, 0, n, 0, 0, 0, 0, 0, 0, 0, 0, 0, n)
    BY DEF Balances
  <1> QED
    BY <1>1, <1>2, <1>3, <1>6, <1>8, <1>11, <1>12, CountsMove

LEMMA DeleteCounts ==
  ASSUME Typed, Counts, NEW g \in Goroutines, Delete(g)
  PROVE  Counts'
  <1>1. PICK s \in Shards, n \in {0, 1}, u \in Tallies :
           /\ stats' = [stats EXCEPT ![s] = u] /\ found' = found + n
           /\ u.dels = stats[s].dels + n
    BY DeleteDoes
  <1>2. n \in Nat
    OBVIOUS
  <1>3. Advances(g) /\ Step(calling[g]) = "delete"
    BY AtStep DEF Delete, Advances, Typed
  <1>4. PICK d \in Calls : Moves(g, d) /\ Same(calling[g], d)
    BY <1>3, IdlyAdvances
  <1>5. PICK c : c = calling[g]
    OBVIOUS
  <1>6. c \in Calls
    BY <1>5 DEF Typed, Callers
  <1>7. Weighs(c, d, 0, 0, 0, 0, 0)
    <2>1. /\ Granting[c] \in Nat /\ Denying[c] \in Nat /\ Reserving[c] \in Nat
          /\ Sampling[c] \in Nat /\ Sweeping[c] \in Nat
      BY <1>6, WeightTypes
    <2> QED
      BY <1>4, <1>5, <2>1 DEF Weighs, Same
  <1>8. UNCHANGED <<count, byPolicy, byReason>>
    BY DEF Delete, collectorVars
  <1>9. Adding(0, 0, 0, 0, 0, 0)
    BY <1>8 DEF Adding, Typed, Counters0, Counters
  <1>10. Total(Dels', Shards) = Total(Dels, Shards) + n
    BY <1>1, <1>2, DelsMore
  <1>11. /\ Sum(byPolicy) \in Nat /\ Sum(byReason) \in Nat /\ found \in Nat
         /\ IsFiniteSet(Named(byPolicy)) /\ IsFiniteSet(Named(byReason))
    BY SumType DEF Typed, Maps, Entries, Counts, Breakdowns
  <1>12. Breaking(0, 0, n, n)
    BY <1>1, <1>8, <1>10, <1>11 DEF Breaking
  <1>13. Balances(0, 0, 0, 0, 0, 0, 0, 0, 0, 0, 0, 0, 0, n, n)
    BY <1>2 DEF Balances
  <1> QED
    BY <1>2, <1>4, <1>5, <1>7, <1>9, <1>12, <1>13, CountsMove

LEMMA InitCounts ==
  ASSUME Init
  PROVE  Counts
  <1>1. Typed /\ Active(calling) = {} /\ \A g \in Goroutines : calling[g] = Idle
    BY InitTyped DEF Active, Init
  <1>2. IsFiniteSet(Active(calling))
    BY <1>1, FS_EmptySet
  <1>3. ASSUME NEW w \in Weights
        PROVE  Pending(calling, w) = 0
    <2>1. w \in [Calls -> Nat] /\ w[Idle] = 0
      BY WeightTypes DEF Weights
    <2> QED
      BY <1>1, <1>2, <2>1, PendingNone DEF Typed, Callers
  <1>4. /\ Pending(calling, Granting) = 0 /\ Pending(calling, Denying) = 0
        /\ Pending(calling, Reserving) = 0 /\ Pending(calling, Sampling) = 0
        /\ Pending(calling, Sweeping) = 0
    BY <1>3 DEF Weights
  <1>5. Named(byPolicy) = {} /\ Named(byReason) = {}
    BY DEF Named, Init
  <1>6. Sum(byPolicy) = 0 /\ Sum(byReason) = 0
    BY <1>5, SumIs, TotalNone
  <1>7. Total(Dels, Shards) = 0
    <2>1. \A s \in Shards : Dels[s] = 0
      BY DEF Dels, Init, Zero
    <2> QED
      BY <2>1, ObserversAssumption, TotalZero
  <1>8. \A c \in Counters : count[c] = 0
    BY DEF Init
  <1>9. Breakdowns
    BY <1>2, <1>4, <1>5, <1>6, <1>8, FS_EmptySet DEF Breakdowns, Counters
  <1>10. Waited
    <2>1. SUFFICES ASSUME Waits \ {0} # {}
                   PROVE  LeastWait * (count["waitSamples"] + Pending(calling, Sampling))
                            <= count["waitNanos"]
      BY DEF Waited
    <2>2. LeastWait \in Nat
      BY <2>1, LeastWaitIs
    <2>3. /\ count["waitSamples"] + Pending(calling, Sampling) = 0
          /\ count["waitNanos"] = 0
      BY <1>4, <1>8 DEF Counters
    <2>4. LeastWait * 0 = 0
      BY <2>2
    <2> QED
      BY <2>3, <2>4
  <1>11. Removed
    <2>1. count["sweeps"] = 0 /\ found = 0
      BY <1>8 DEF Counters, Init
    <2> QED
      BY <1>4, <1>7, <2>1 DEF Removed
  <1> QED
    BY <1>9, <1>10, <1>11 DEF Counts

LEMMA CountsNext ==
  ASSUME Typed, Counts, [Next]_vars
  PROVE  Counts'
  <1>1. CASE UNCHANGED vars
    BY <1>1 DEF vars, storeVars, collectorVars, Counts, Breakdowns, Waited, Removed, Dels
  <1>2. ASSUME NEW g \in Goroutines, IdleStep(g)
        PROVE  Counts'
    <2>1. PICK d \in Calls : Moves(g, d) /\ Same(calling[g], d)
      BY <1>2, IdleSteps
    <2>2. UNCHANGED <<count, byPolicy, byReason, found>> /\ Dels' = Dels
      BY <1>2, IdleSteps DEF collectorVars
    <2> QED
      BY <2>1, <2>2, CountsStay
  <1>3. ASSUME NEW g \in Goroutines,
               Delete(g) \/ SweepShard(g) \/ Add(g) \/ FindCounter(g) \/ BumpCounter(g)
        PROVE  Counts'
    BY <1>3, DeleteCounts, SweepCounts, AddCounts, FindCounts, BumpCounts
  <1> QED
    BY <1>1, <1>2, <1>3 DEF Next, IdleStep

LEMMA CountsHold == Spec => [](Typed /\ Counts)
  BY InitTyped, InitCounts, TypedNext, CountsNext, PTL DEF Spec

\* Once no call is under way the totals of the collector are what their
\* breakdowns add up to, every grant was counted as reserved, and what the
\* shards say was deleted was swept or reset (collector.go:44, engine.go:113):
\* what is missing at any time is exactly what is on its way.
THEOREM NothingLostHolds == Spec => []NothingLost
  <1>1. ASSUME Typed, Counts, Quiet
        PROVE  /\ count["allowed"] = Sum(byPolicy) /\ count["denied"] = Sum(byReason)
               /\ count["reserved"] = count["allowed"]
               /\ Sum([s \in Shards |-> stats[s].dels]) = count["sweeps"] + found
    <2>1. \A g \in Goroutines : calling[g] \in Calls /\ Step(calling[g]) = "end"
      BY <1>1, StepOf DEF Quiet, Typed, Callers
    <2>2. ASSUME NEW w \in Weights
          PROVE  Pending(calling, w) = 0
      <3>1. w \in [Calls -> Nat]
        BY WeightTypes DEF Weights
      <3>2. \A g \in Goroutines : w[calling[g]] = 0
        BY <2>1, Weightless DEF Weights
      <3> QED
        BY <1>1, <3>1, <3>2, PendingNone DEF Typed, Callers, Counts, Breakdowns
    <2>3. /\ Pending(calling, Granting) = 0 /\ Pending(calling, Denying) = 0
          /\ Pending(calling, Reserving) = 0 /\ Pending(calling, Sweeping) = 0
      BY <2>2 DEF Weights
    <2>4. Sum(byPolicy) \in Nat /\ Sum(byReason) \in Nat /\ found \in Nat
          /\ count["reserved"] \in Nat /\ count["sweeps"] \in Nat
      BY <1>1, SumType DEF Typed, Maps, Entries, Counts, Breakdowns, Counters0, Counters
    <2>5. Sum(Dels) = Total(Dels, Shards)
      <3>1. \A s \in Shards : Dels[s] # NIL
        BY <1>1, ObserversAssumption DEF Dels, Typed, Entries, Tallies
      <3>2. Named(Dels) = Shards
        BY <3>1 DEF Named, Dels
      <3> QED
        BY <3>2, SumIs
    <2>6. Sum([s \in Shards |-> stats[s].dels]) = Sum(Dels)
      BY DEF Dels
    <2> QED
      BY <1>1, <2>3, <2>4, <2>5, <2>6 DEF Counts, Breakdowns, Removed
  <1>2. ASSUME Typed, Counts PROVE NothingLost
    BY <1>1, <1>2 DEF NothingLost
  <1> QED
    BY <1>2, CountsHold, PTL

-----------------------------------------------------------------------------
(* What a snapshot reads.                                                  *)

LEMMA TotalBelow ==
  ASSUME NEW S, IsFiniteSet(S), NEW f, NEW h, \A i \in S : f[i] \in Nat,
         \A i \in S : h[i] \in Nat, \A i \in S : f[i] <= h[i]
  PROVE  Total(f, S) <= Total(h, S)
  <1> DEFINE Q == {s \in SUBSET S : Total(f, s) <= Total(h, s)}
  <1>1. ASSUME NEW s \in SUBSET S, \A x \in s : s \ {x} \in Q
        PROVE  s \in Q
    <2>1. CASE s = {}
      BY <2>1, TotalNone
    <2>2. CASE s # {}
      <3>1. PICK x \in s : TRUE
        BY <2>2
      <3>2. PICK r : r = s \ {x}
        OBVIOUS
      <3>3. /\ IsFiniteSet(s) /\ IsFiniteSet(r) /\ r \subseteq S
            /\ \A i \in s : f[i] \in Int
            /\ \A i \in s : h[i] \in Int
            /\ \A i \in r : f[i] \in Nat
            /\ \A i \in r : h[i] \in Nat
        BY <3>2, FS_Subset
      <3>4. /\ Total(f, s) = Total(f, s \ {x}) + f[x]
            /\ Total(h, s) = Total(h, s \ {x}) + h[x]
        BY <3>3, TotalLess
      <3>5. Total(f, r) \in Nat /\ Total(h, r) \in Nat
        BY <3>3, TotalType
      <3>6. Total(f, r) <= Total(h, r) /\ f[x] <= h[x] /\ f[x] \in Nat /\ h[x] \in Nat
        BY <1>1, <3>2
      <3>7. Total(f, s) <= Total(h, s)
        BY <3>2, <3>4, <3>5, <3>6
      <3> QED
        BY <3>7
    <2> QED
      BY <2>1, <2>2
  <1>2. SUBSET S \subseteq Q
    <2> HIDE DEF Q
    <2> QED
      BY <1>1, SetInduct
  <1> QED
    BY <1>2

\* Counters read at various times add up to no more than the counters do now.
LEMMA SumBelow ==
  ASSUME NEW S, NEW map \in [S -> Nat \cup {NIL}], IsFiniteSet(Named(map)),
         NEW read \in Readings(S), Below(read, map)
  PROVE  Sum(read) \in Nat /\ Sum(read) <= Sum(map)
  <1>1. PICK D \in SUBSET S : read \in [D -> Nat]
    BY DEF Readings
  <1>2. PICK M : M = Named(map)
    OBVIOUS
  <1>3. Named(read) = D
    BY <1>1, ObserversAssumption DEF Named
  <1>4. D \subseteq M /\ IsFiniteSet(M) /\ \A k \in D : read[k] <= map[k]
    BY <1>1, <1>2 DEF Below, Named
  <1>5. IsFiniteSet(D)
    BY <1>4, FS_Subset
  <1>6. /\ \A k \in D : read[k] \in Nat
        /\ \A k \in D : map[k] \in Nat
        /\ \A k \in M : map[k] \in Nat
    BY <1>1, <1>2, <1>4 DEF Named
  <1>7. /\ Total(read, D) <= Total(map, D) /\ Total(map, D) <= Total(map, M)
        /\ Total(read, D) \in Nat /\ Total(map, D) \in Nat /\ Total(map, M) \in Nat
    BY <1>4, <1>5, <1>6, TotalBelow, TotalSubset, TotalType
  <1>8. Sum(read) = Total(read, D) /\ Sum(map) = Total(map, M)
    BY <1>2, <1>3, SumIs
  <1> QED
    BY <1>7, <1>8

\* Counters are never taken back.
Grows ==
  /\ \A p \in Policies : byPolicy[p] # NIL => byPolicy'[p] # NIL /\ byPolicy[p] <= byPolicy'[p]
  /\ \A r \in Reasons : byReason[r] # NIL => byReason'[r] # NIL /\ byReason[r] <= byReason'[r]
  /\ count["waitNanos"] <= count'["waitNanos"]

LEMMA StillGrows ==
  ASSUME Typed, UNCHANGED collectorVars
  PROVE  Grows
  BY DEF Grows, collectorVars, Typed, Maps, Counters0, Counters

LEMMA FindGrows ==
  ASSUME Typed, NEW g \in Goroutines, FindCounter(g)
  PROVE  Grows
  <1>1. PICK c : c = calling[g]
    OBVIOUS
  <1>2. /\ IF c.ok
             THEN /\ c.of \in Policies
                  /\ byPolicy' = Found(byPolicy, c.of) /\ UNCHANGED byReason
             ELSE /\ c.of \in Reasons
                  /\ byReason' = Found(byReason, c.of) /\ UNCHANGED byPolicy
        /\ UNCHANGED count
    BY <1>1, FindDoes DEF FindCounter
  <1>3. /\ byPolicy \in [Policies -> Nat \cup {NIL}]
        /\ byReason \in [Reasons -> Nat \cup {NIL}]
        /\ count["waitNanos"] \in Nat
    BY DEF Typed, Maps, Counters0, Counters
  <1>4. CASE c.ok
    <2>1. /\ byPolicy'[c.of] = IF byPolicy[c.of] = NIL THEN 0 ELSE byPolicy[c.of]
          /\ byPolicy'[c.of] # NIL
          /\ \A x \in Policies : x # c.of => byPolicy'[x] = byPolicy[x]
      BY <1>2, <1>3, <1>4, FoundType
    <2> QED
      BY <1>2, <1>3, <1>4, <2>1 DEF Grows
  <1>5. CASE ~c.ok
    <2>1. /\ byReason'[c.of] = IF byReason[c.of] = NIL THEN 0 ELSE byReason[c.of]
          /\ byReason'[c.of] # NIL
          /\ \A x \in Reasons : x # c.of => byReason'[x] = byReason[x]
      BY <1>2, <1>3, <1>5, FoundType
    <2> QED
      BY <1>2, <1>3, <1>5, <2>1 DEF Grows
  <1> QED
    BY <1>4, <1>5

LEMMA BumpGrows ==
  ASSUME Typed, NEW g \in Goroutines, BumpCounter(g)
  PROVE  Grows
  <1>1. PICK c : c = calling[g]
    OBVIOUS
  <1>2. /\ IF c.ok
             THEN /\ c.of \in Policies /\ byPolicy[c.of] \in Nat
                  /\ byPolicy' = [byPolicy EXCEPT ![c.of] = @ + 1] /\ UNCHANGED byReason
             ELSE /\ c.of \in Reasons /\ byReason[c.of] \in Nat
                  /\ byReason' = [byReason EXCEPT ![c.of] = @ + 1] /\ UNCHANGED byPolicy
        /\ UNCHANGED count
    BY <1>1, BumpDoes DEF BumpCounter
  <1>3. /\ byPolicy \in [Policies -> Nat \cup {NIL}]
        /\ byReason \in [Reasons -> Nat \cup {NIL}]
        /\ count["waitNanos"] \in Nat /\ NIL \notin Nat
    BY ObserversAssumption DEF Typed, Maps, Counters0, Counters
  <1>4. CASE c.ok
    BY <1>2, <1>3, <1>4 DEF Grows
  <1>5. CASE ~c.ok
    BY <1>2, <1>3, <1>5 DEF Grows
  <1> QED
    BY <1>4, <1>5

LEMMA AddGrows ==
  ASSUME Typed, NEW g \in Goroutines, Add(g)
  PROVE  Grows
  <1>1. PICK step, to \in Counters, n \in Nat : count' = [count EXCEPT ![to] = @ + n]
    BY AddDoes
  <1>2. UNCHANGED <<byPolicy, byReason>>
    BY DEF Add
  <1> QED
    BY <1>1, <1>2 DEF Grows, Typed, Maps, Counters0, Counters

LEMMA GrowsNext ==
  ASSUME Typed, [Next]_vars
  PROVE  Grows
  <1>1. CASE UNCHANGED vars
    BY <1>1, StillGrows DEF vars
  <1>2. ASSUME NEW g \in Goroutines, IdleStep(g) \/ Delete(g) \/ SweepShard(g)
        PROVE  Grows
    <2>1. UNCHANGED collectorVars
      BY <1>2, IdleSteps DEF Delete, SweepShard
    <2> QED
      BY <2>1, StillGrows
  <1>3. ASSUME NEW g \in Goroutines, Add(g) \/ FindCounter(g) \/ BumpCounter(g)
        PROVE  Grows
    BY <1>3, AddGrows, FindGrows, BumpGrows
  <1> QED
    BY <1>1, <1>2, <1>3 DEF Next, IdleStep

\* The steps of calls that are neither a snapshot nor a walk,
PlainStep(g) ==
  \/ \E k \in Keys : \/ \E p \in Policies : CallAllow(g, k, p)
                     \/ \E r \in Reasons, w \in Waits : CallDeny(g, k, r, w)
                     \/ CallPeek(g, k) \/ CallReset(g, k) \/ CallCancel(g, k)
  \/ \E r \in Reasons : CallInvalid(g, r)
  \/ \E steps \in QuotaSteps : CallQuota(g, steps)
  \/ CallSweep(g)
  \/ Enter(g) \/ Look(g) \/ Delete(g) \/ Leave(g) \/ SweepShard(g)
  \/ Add(g) \/ FindCounter(g) \/ BumpCounter(g) \/ Return(g)

\* and those of a snapshot.
SnapshotStep(g) ==
  \/ CallSnapshot(g) \/ LockMaps(g) \/ UnlockMaps(g)
  \/ ReadReasons(g) \/ ReadPolicies(g) \/ ReadTotal(g)

LEMMA PlainMoves ==
  ASSUME Typed, NEW g \in Goroutines, PlainStep(g)
  PROVE  \E d \in Calls : Moves(g, d) /\ d \notin SnapshotCalls /\ d \notin StatsCalls
  <1>1. CASE \/ \E k \in Keys : \/ \E p \in Policies : CallAllow(g, k, p)
                                \/ \E r \in Reasons, w \in Waits : CallDeny(g, k, r, w)
                                \/ CallPeek(g, k) \/ CallReset(g, k) \/ CallCancel(g, k)
             \/ \E r \in Reasons : CallInvalid(g, r)
             \/ \E steps \in QuotaSteps : CallQuota(g, steps)
             \/ CallSweep(g)
    BY <1>1, KeyCallsIdle, PlainCallsIdle
  <1>2. CASE Enter(g) \/ Look(g) \/ Delete(g) \/ Leave(g) \/ FindCounter(g) \/ BumpCounter(g)
    <2>1. /\ Advances(g) /\ calling[g] \in Calls
          /\ Step(calling[g]) \in {"enter", "look", "delete", "leave", "find", "bump"}
      BY <1>2, AtStep DEF Enter, Look, Delete, Leave, FindCounter, BumpCounter, Advances, Typed
    <2>2. PICK d : Moves(g, d) /\ Goes(calling[g], d)
      BY <2>1, AdvanceGoes DEF Typed, Moves
    <2>3. d \in Calls /\ d.op = calling[g].op
      BY <2>2 DEF Goes
    <2>4. calling[g] \in AllowCalls \cup PeekCalls \cup CancelCalls \cup ResetCalls \cup KeyCalls
      BY <2>1, StepOf
    <2>5. calling[g].op \notin {"snapshot", "stats"}
      BY <2>1, <2>4, OpOf DEF KeyCalls, GrantCalls, DenyCalls, WaitCalls, PeekCalls, CancelCalls
    <2> QED
      BY <2>2, <2>3, <2>5, OpOf
  <1>3. CASE SweepShard(g)
    <2>1. PICK d \in SweepCalls : Moves(g, d)
      BY <1>3, SweepDoes
    <2>2. d \in Calls
      BY DEF Calls
    <2> QED
      BY <2>1, <2>2, OpOf
  <1>4. CASE Add(g)
    <2>1. PICK d \in Calls : Moves(g, d) /\ calling[g] \in Calls /\ d.op = calling[g].op
      BY <1>4, AddGoes
    <2>2. calling[g] \notin SnapshotCalls /\ calling[g] \notin StatsCalls
      <3>1. PICK step \in Counters \cup {"total", "nanos", "sample"} :
               At(g, step) /\ Step(calling[g]) = step
        BY <1>4, AddDoes
      <3>2. Step(calling[g]) \notin {"walk", "end"}
        BY <3>1 DEF Counters
      <3>3. Step(calling[g]) \notin {"lockMaps", "reasons", "policies", "unlockMaps",
                                     "readSamples", "readNanos", "readAllowed", "readDenied"}
        BY <3>1 DEF Counters
      <3> QED
        BY <3>2, <3>3, SnapshotPath, StatsPath DEF SnapshotCalls, StatsCalls, Step
    <2> QED
      BY <2>1, <2>2, OpOf
  <1>5. CASE Return(g)
    <2>1. Moves(g, Idle) /\ Idle \in Calls /\ Idle.op = "none"
      BY <1>5 DEF Return, Moves, Calls, Idle
    <2> QED
      BY <2>1, OpOf
  <1> QED
    BY <1>1, <1>2, <1>3, <1>4, <1>5 DEF PlainStep

LEMMA BelowStays ==
  ASSUME NEW S, NEW map \in [S -> Nat \cup {NIL}], NEW new \in [S -> Nat \cup {NIL}],
         \A k \in S : map[k] # NIL => new[k] # NIL /\ map[k] <= new[k],
         NEW read \in Readings(S), Below(read, map)
  PROVE  Below(read, new)
  <1>1. PICK D \in SUBSET S : read \in [D -> Nat]
    BY DEF Readings
  <1>2. ASSUME NEW k \in D
        PROVE  k \in S /\ new[k] # NIL /\ read[k] <= new[k]
    <2>1. k \in S /\ map[k] # NIL /\ read[k] <= map[k] /\ read[k] \in Nat
      BY <1>1 DEF Below
    <2>2. new[k] # NIL /\ map[k] <= new[k] /\ map[k] \in Nat /\ new[k] \in Nat
      BY <2>1
    <2> QED
      BY <2>1, <2>2
  <1> QED
    BY <1>1, <1>2 DEF Below

LEMMA SnapshotIs ==
  ASSUME NEW c \in SnapshotCalls
  PROVE  /\ c \in Calls /\ c.reasons \in Readings(Reasons) /\ c.policies \in Readings(Policies)
         /\ c.samples \in Nat /\ c.nanos \in Int /\ c.allowed \in Nat /\ c.denied \in Nat
  BY DEF SnapshotCalls, Calls

\* What a call has read stays good while others go on.
LEMMA SnappedStays ==
  ASSUME Typed, Typed', Grows, NEW c \in Calls, Snapped(c)
  PROVE  Snapped(c)'
  <1> SUFFICES ASSUME c \in SnapshotCalls
               PROVE  Snapped(c)'
    BY DEF Snapped
  <1>1. /\ c.reasons \in Readings(Reasons) /\ c.policies \in Readings(Policies)
        /\ c.samples \in Nat
    BY SnapshotIs
  <1>2. /\ byPolicy \in [Policies -> Nat \cup {NIL}] /\ byPolicy' \in [Policies -> Nat \cup {NIL}]
        /\ byReason \in [Reasons -> Nat \cup {NIL}] /\ byReason' \in [Reasons -> Nat \cup {NIL}]
        /\ count["waitNanos"] \in Nat /\ count'["waitNanos"] \in Nat
    BY DEF Typed, Maps, Counters0, Counters
  <1>3. Below(c.policies, byPolicy) => Below(c.policies, byPolicy')
    BY <1>1, <1>2, BelowStays DEF Grows
  <1>4. Below(c.reasons, byReason) => Below(c.reasons, byReason')
    BY <1>1, <1>2, BelowStays DEF Grows
  <1>5. Waits \ {0} # {} =>
          IF Step(c) \in {"readAllowed", "readDenied", "end"}
          THEN count'["waitNanos"] <= MaxI64 => LeastWait * c.samples <= c.nanos
          ELSE LeastWait * c.samples <= count'["waitNanos"]
    <2> HAVE Waits \ {0} # {}
    <2>1. LeastWait \in Nat /\ LeastWait * c.samples \in Nat
      BY <1>1, LeastWaitIs, NatProduct
    <2>2. IF Step(c) \in {"readAllowed", "readDenied", "end"}
          THEN count["waitNanos"] <= MaxI64 => LeastWait * c.samples <= c.nanos
          ELSE LeastWait * c.samples <= count["waitNanos"]
      BY DEF Snapped
    <2>3. PICK x \in Nat : x = LeastWait * c.samples
      BY <2>1
    <2>4. count["waitNanos"] <= count'["waitNanos"] /\ MaxI64 \in Nat
      BY MaxI64Fits DEF Grows
    <2> QED
      BY <1>2, <2>2, <2>3, <2>4
  <1>6. /\ IF Step(c) \in {"readDenied", "end"} THEN Sum(c.policies) <= c.allowed
                                                ELSE Below(c.policies, byPolicy')
        /\ IF Step(c) = "end" THEN Sum(c.reasons) <= c.denied
                              ELSE Below(c.reasons, byReason')
    BY <1>3, <1>4 DEF Snapped
  <1> QED
    BY <1>5, <1>6 DEF Snapped

LEMMA SnappedMoves ==
  ASSUME Typed, Typed', AllSnapped, Grows, NEW g \in Goroutines, NEW d \in Calls, Moves(g, d),
         Snapped(d)'
  PROVE  AllSnapped'
  <1>1. ASSUME NEW h \in Goroutines
        PROVE  Snapped(calling[h])'
    <2>1. CASE h = g
      <3>1. calling'[h] = d
        BY <2>1, Moved DEF Typed
      <3> QED
        BY <3>1 DEF Snapped
    <2>2. CASE h # g
      <3>1. calling'[h] = calling[h]
        BY <2>2, Moved DEF Typed
      <3>2. PICK c \in Calls : c = calling[h]
        BY DEF Typed, Callers
      <3>3. Snapped(c)'
        BY <3>2, SnappedStays DEF AllSnapped
      <3> QED
        BY <3>1, <3>2, <3>3 DEF Snapped
    <2> QED
      BY <2>1, <2>2
  <1> QED
    BY <1>1 DEF AllSnapped

\* A step between two readings.
LEMMA SameReadings ==
  ASSUME NEW c \in SnapshotCalls, NEW d \in SnapshotCalls, Snapped(c), UNCHANGED collectorVars,
         d.reasons = c.reasons, d.policies = c.policies, d.samples = c.samples,
         Step(c) \notin {"readAllowed", "readDenied", "end"},
         Step(d) \notin {"readAllowed", "readDenied", "end"}
  PROVE  Snapped(d)'
  BY DEF Snapped, collectorVars

LEMMA WithBelow ==
  ASSUME NEW S, NEW map \in [S -> Nat \cup {NIL}], NEW read \in Readings(S), Below(read, map),
         NEW k \in S, map[k] \in Nat
  PROVE  Below(With(read, k, map[k]), map)
  <1>1. PICK D \in SUBSET S : read \in [D -> Nat]
    BY DEF Readings
  <1>2. map[k] # NIL /\ map[k] <= map[k]
    BY ObserversAssumption
  <1> QED
    BY <1>1, <1>2 DEF Below, With

LEMMA MapsRead ==
  ASSUME Typed, AllSnapped, NEW g \in Goroutines,
         LockMaps(g) \/ UnlockMaps(g) \/ ReadReasons(g) \/ ReadPolicies(g)
  PROVE  \E d \in SnapshotCalls : Moves(g, d) /\ Snapped(d)'
  <1>1. PICK c : c = calling[g]
    OBVIOUS
  <1>2. Snapped(c) /\ UNCHANGED collectorVars
    BY <1>1 DEF AllSnapped, LockMaps, UnlockMaps, ReadReasons, ReadPolicies
  <1>3. ASSUME Advances(g), c \in SnapshotCalls,
               Step(c) \in {"lockMaps", "reasons", "policies", "unlockMaps"}
        PROVE  \E d \in SnapshotCalls : Moves(g, d) /\ Snapped(d)'
    <2>1. PICK d : Moves(g, d) /\ Goes(c, d)
      BY <1>1, <1>3, AdvanceGoes DEF Typed, Moves
    <2>2. /\ d \in Calls /\ d.op = c.op /\ d.reasons = c.reasons /\ d.policies = c.policies
          /\ d.samples = c.samples
          /\ Step(d) \in {"reasons", "policies", "unlockMaps", "readSamples"}
      BY <1>3, <2>1 DEF Goes
    <2>3. d \in SnapshotCalls
      BY <1>3, <2>2, OpOf DEF Calls
    <2> QED
      BY <1>2, <1>3, <2>1, <2>2, <2>3, SameReadings
  <1>4. CASE LockMaps(g) \/ UnlockMaps(g)
    <2>1. /\ Advances(g) /\ c \in Calls /\ Step(c) \in {"lockMaps", "unlockMaps"}
      BY <1>1, <1>4, AtStep DEF LockMaps, UnlockMaps, Advances, Typed
    <2>2. c \in SnapshotCalls
      BY <2>1, StepOf
    <2> QED
      BY <1>3, <2>1, <2>2
  <1>5. CASE ReadReasons(g)
    <2>1. c \in SnapshotCalls /\ Step(c) = "reasons"
      BY <1>1, <1>5, ReasonsDo
    <2>2. ASSUME NEW r \in Reasons, NEW d \in SnapshotCalls, byReason[r] \in Nat,
                 Moves(g, d), Step(d) = "reasons",
                 d.reasons = With(c.reasons, r, byReason[r]), d.policies = c.policies,
                 d.samples = c.samples
          PROVE  Snapped(d)'
      <3>1. Below(c.reasons, byReason) /\ Below(c.policies, byPolicy)
        BY <1>2, <2>1 DEF Snapped
      <3>2. c.reasons \in Readings(Reasons) /\ byReason \in [Reasons -> Nat \cup {NIL}]
        BY <2>1, SnapshotIs DEF Typed, Maps
      <3>3. Below(d.reasons, byReason) /\ Below(d.policies, byPolicy)
        BY <2>2, <3>1, <3>2, WithBelow
      <3>4. Snapped(d)
        BY <1>2, <2>1, <2>2, <3>3 DEF Snapped
      <3> QED
        BY <1>2, <2>2, <3>4, SameReadings
    <2> QED
      BY <1>1, <1>3, <1>5, <2>1, <2>2, ReasonsDo
  <1>6. CASE ReadPolicies(g)
    <2>1. c \in SnapshotCalls /\ Step(c) = "policies"
      BY <1>1, <1>6, PoliciesDo
    <2>2. ASSUME NEW r \in Policies, NEW d \in SnapshotCalls, byPolicy[r] \in Nat,
                 Moves(g, d), Step(d) = "policies",
                 d.policies = With(c.policies, r, byPolicy[r]), d.reasons = c.reasons,
                 d.samples = c.samples
          PROVE  Snapped(d)'
      <3>1. Below(c.reasons, byReason) /\ Below(c.policies, byPolicy)
        BY <1>2, <2>1 DEF Snapped
      <3>2. c.policies \in Readings(Policies) /\ byPolicy \in [Policies -> Nat \cup {NIL}]
        BY <2>1, SnapshotIs DEF Typed, Maps
      <3>3. Below(d.reasons, byReason) /\ Below(d.policies, byPolicy)
        BY <2>2, <3>1, <3>2, WithBelow
      <3>4. Snapped(d)
        BY <1>2, <2>1, <2>2, <3>3 DEF Snapped
      <3> QED
        BY <1>2, <2>2, <3>4, SameReadings
    <2> QED
      BY <1>1, <1>3, <1>6, <2>1, <2>2, PoliciesDo
  <1> QED
    BY <1>4, <1>5, <1>6

\* What is in the breakdowns is in the totals; and a wait counted was added.
LEMMA TotalsCover ==
  ASSUME Typed, Counts
  PROVE  /\ Sum(byPolicy) <= count["allowed"] /\ Sum(byReason) <= count["denied"]
         /\ Sum(byPolicy) \in Nat /\ Sum(byReason) \in Nat
         /\ Waits \ {0} # {} => LeastWait * count["waitSamples"] <= count["waitNanos"]
  <1>1. /\ Sum(byPolicy) \in Nat /\ Sum(byReason) \in Nat
        /\ count["waitSamples"] \in Nat /\ count["waitNanos"] \in Nat
    BY SumType DEF Typed, Maps, Counts, Breakdowns, Counters0, Counters
  <1>2. ASSUME NEW w \in Weights
        PROVE  Pending(calling, w) \in Nat
    <2>1. w \in [Calls -> Nat]
      BY WeightTypes DEF Weights
    <2>2. PICK f : f = [h \in Goroutines |-> w[calling[h]]]
      OBVIOUS
    <2>3. \A h \in Active(calling) : f[h] \in Nat
      BY <2>1, <2>2 DEF Active, Typed, Callers
    <2> QED
      BY <2>2, <2>3, TotalType DEF Pending, Counts, Breakdowns
  <1>3. /\ Pending(calling, Granting) \in Nat /\ Pending(calling, Denying) \in Nat
        /\ Pending(calling, Sampling) \in Nat
    BY <1>2 DEF Weights
  <1>4. Sum(byPolicy) <= count["allowed"] /\ Sum(byReason) <= count["denied"]
    BY <1>1, <1>3 DEF Counts, Breakdowns
  <1>5. Waits \ {0} # {} => LeastWait * count["waitSamples"] <= count["waitNanos"]
    <2> HAVE Waits \ {0} # {}
    <2>1. LeastWait \in Nat
      BY LeastWaitIs
    <2>2. PICK a \in Nat, b \in Nat : a = count["waitSamples"]
                                      /\ b = count["waitSamples"] + Pending(calling, Sampling)
      BY <1>1, <1>3
    <2>3. a <= b /\ LeastWait * b <= count["waitNanos"]
      BY <1>1, <1>3, <2>2 DEF Counts, Waited
    <2>4. LeastWait * a <= LeastWait * b /\ LeastWait * a \in Nat /\ LeastWait * b \in Nat
      BY <2>1, <2>2, <2>3, ProductGrows, NatProduct
    <2>5. LeastWait * a <= count["waitNanos"]
      BY <1>1, <2>3, <2>4
    <2> QED
      BY <2>2, <2>5
  <1> QED
    BY <1>1, <1>4, <1>5

LEMMA TotalsRead ==
  ASSUME Typed, Counts, AllSnapped, NEW g \in Goroutines, ReadTotal(g)
  PROVE  \E d \in SnapshotCalls : Moves(g, d) /\ Snapped(d)'
  <1>1. PICK c : c = calling[g]
    OBVIOUS
  <1>2. PICK d \in SnapshotCalls :
           /\ c \in SnapshotCalls /\ Moves(g, d)
           /\ Step(c) \in {"readSamples", "readNanos", "readAllowed", "readDenied"}
           /\ d.reasons = c.reasons /\ d.policies = c.policies
           /\ d.samples = (IF Step(c) = "readSamples" THEN count["waitSamples"] ELSE c.samples)
           /\ d.nanos = (IF Step(c) = "readNanos" THEN WaitNanos ELSE c.nanos)
           /\ d.allowed = (IF Step(c) = "readAllowed" THEN count["allowed"] ELSE c.allowed)
           /\ d.denied = (IF Step(c) = "readDenied" THEN count["denied"] ELSE c.denied)
           /\ Step(c) = "readSamples" => Step(d) = "readNanos"
           /\ Step(c) = "readNanos" => Step(d) = "readAllowed"
           /\ Step(c) = "readAllowed" => Step(d) = "readDenied"
           /\ Step(c) = "readDenied" => Step(d) = "end"
    BY <1>1, ReadDoes
  <1>3. Snapped(c) /\ UNCHANGED collectorVars
    BY <1>1 DEF AllSnapped, ReadTotal
  <1>4. /\ Sum(byPolicy) <= count["allowed"] /\ Sum(byReason) <= count["denied"]
        /\ Sum(byPolicy) \in Nat /\ Sum(byReason) \in Nat
        /\ Waits \ {0} # {} => LeastWait * count["waitSamples"] <= count["waitNanos"]
    BY TotalsCover
  <1>5. /\ byPolicy \in [Policies -> Nat \cup {NIL}] /\ IsFiniteSet(Named(byPolicy))
        /\ byReason \in [Reasons -> Nat \cup {NIL}] /\ IsFiniteSet(Named(byReason))
        /\ c.reasons \in Readings(Reasons) /\ c.policies \in Readings(Policies)
        /\ count["allowed"] \in Nat /\ count["denied"] \in Nat
    BY <1>2, SnapshotIs DEF Typed, Maps, Counts, Breakdowns, Counters0, Counters
  <1>6. CASE Step(c) = "readSamples"
    <2>1. /\ Step(d) = "readNanos" /\ d.samples = count["waitSamples"]
          /\ d.reasons = c.reasons /\ d.policies = c.policies
      BY <1>2, <1>6
    <2>2. Snapped(d)
      BY <1>2, <1>3, <1>4, <1>6, <2>1 DEF Snapped
    <2> QED
      BY <1>2, <1>3, <2>1, <2>2, SameReadings
  <1>7. CASE Step(c) = "readNanos"
    <2>1. /\ Step(d) = "readAllowed" /\ d.samples = c.samples /\ d.nanos = WaitNanos
          /\ d.reasons = c.reasons /\ d.policies = c.policies
      BY <1>2, <1>7
    <2>2. /\ Below(d.policies, byPolicy') /\ Below(d.reasons, byReason')
          /\ Waits \ {0} # {} => LeastWait * d.samples <= count["waitNanos"]
          /\ count'["waitNanos"] = count["waitNanos"]
      BY <1>2, <1>3, <1>7, <2>1 DEF Snapped, collectorVars
    <2>3. count["waitNanos"] <= MaxI64 => WaitNanos = count["waitNanos"]
      <3>1. count["waitNanos"] \in Nat
        BY DEF Typed, Counters0, Counters
      <3> QED
        BY <3>1, MaxI64Fits, WrappedFits DEF WaitNanos
    <2>4. count'["waitNanos"] <= MaxI64 /\ Waits \ {0} # {} => LeastWait * d.samples <= d.nanos
      BY <2>1, <2>2, <2>3
    <2> QED
      BY <1>2, <2>1, <2>2, <2>4 DEF Snapped
  <1>8. CASE Step(c) = "readAllowed"
    <2>1. /\ Step(d) = "readDenied" /\ d.samples = c.samples /\ d.nanos = c.nanos
          /\ d.allowed = count["allowed"]
          /\ d.reasons = c.reasons /\ d.policies = c.policies
      BY <1>2, <1>8
    <2>2. /\ Below(c.policies, byPolicy) /\ Below(d.reasons, byReason')
          /\ count'["waitNanos"] <= MaxI64 /\ Waits \ {0} # {} =>
               LeastWait * d.samples <= d.nanos
      BY <1>2, <1>3, <1>8, <2>1 DEF Snapped, collectorVars
    <2>3. Sum(c.policies) \in Nat /\ Sum(c.policies) <= Sum(byPolicy)
      BY <1>5, <2>2, SumBelow
    <2>4. Sum(d.policies) <= d.allowed
      BY <1>4, <1>5, <2>1, <2>3
    <2> QED
      BY <1>2, <2>1, <2>2, <2>4 DEF Snapped
  <1>9. CASE Step(c) = "readDenied"
    <2>1. /\ Step(d) = "end" /\ d.samples = c.samples /\ d.nanos = c.nanos
          /\ d.allowed = c.allowed /\ d.denied = count["denied"]
          /\ d.reasons = c.reasons /\ d.policies = c.policies
      BY <1>2, <1>9
    <2>2. /\ Below(c.reasons, byReason) /\ Sum(d.policies) <= d.allowed
          /\ count'["waitNanos"] <= MaxI64 /\ Waits \ {0} # {} =>
               LeastWait * d.samples <= d.nanos
      BY <1>2, <1>3, <1>9, <2>1 DEF Snapped, collectorVars
    <2>3. Sum(c.reasons) \in Nat /\ Sum(c.reasons) <= Sum(byReason)
      BY <1>5, <2>2, SumBelow
    <2>4. Sum(d.reasons) <= d.denied
      BY <1>4, <1>5, <2>1, <2>3
    <2> QED
      BY <1>2, <2>1, <2>2, <2>4 DEF Snapped
  <1> QED
    BY <1>2, <1>6, <1>7, <1>8, <1>9

LEMMA SnapshotStarts ==
  ASSUME Typed, NEW g \in Goroutines, CallSnapshot(g)
  PROVE  \E d \in SnapshotCalls : Moves(g, d) /\ Snapped(d)'
  <1>1. PICK d \in SnapshotCalls :
           /\ Moves(g, d) /\ Step(d) = "lockMaps"
           /\ d.reasons = <<>> /\ d.policies = <<>> /\ d.samples = 0
           /\ UNCHANGED collectorVars
    BY SnapshotBegins
  <1>2. DOMAIN <<>> = {}
    OBVIOUS
  <1>3. Below(d.reasons, byReason) /\ Below(d.policies, byPolicy)
    BY <1>1, <1>2 DEF Below
  <1>4. Waits \ {0} # {} => LeastWait * d.samples <= count["waitNanos"]
    <2> HAVE Waits \ {0} # {}
    <2>1. LeastWait * 0 = 0 /\ count["waitNanos"] \in Nat
      BY LeastWaitIs DEF Typed, Counters0, Counters
    <2> QED
      BY <1>1, <2>1
  <1>5. Snapped(d)
    BY <1>1, <1>3, <1>4 DEF Snapped
  <1> QED
    BY <1>1, <1>5, SameReadings

LEMMA SnappedNext ==
  ASSUME Typed, Counts, AllSnapped, [Next]_vars
  PROVE  AllSnapped'
  <1>1. Typed' /\ Grows
    BY TypedNext, GrowsNext
  <1>2. CASE UNCHANGED vars
    BY <1>2 DEF vars, collectorVars, AllSnapped, Snapped
  <1>3. ASSUME NEW g \in Goroutines, NEW d \in Calls, Moves(g, d), d \notin SnapshotCalls
        PROVE  AllSnapped'
    <2>1. Snapped(d)'
      BY <1>3 DEF Snapped
    <2> QED
      BY <1>1, <1>3, <2>1, SnappedMoves
  <1>4. ASSUME NEW g \in Goroutines, PlainStep(g)
        PROVE  AllSnapped'
    BY <1>3, <1>4, PlainMoves
  <1>5. ASSUME NEW g \in Goroutines, CallStats(g) \/ WalkShard(g)
        PROVE  AllSnapped'
    <2>1. PICK d \in StatsCalls : Moves(g, d)
      BY <1>5, StatsBegins, WalkDoes
    <2>2. d \in Calls /\ d \notin SnapshotCalls
      BY OpOf DEF Calls
    <2> QED
      BY <1>3, <2>1, <2>2
  <1>6. ASSUME NEW g \in Goroutines, SnapshotStep(g)
        PROVE  AllSnapped'
    <2>1. PICK d \in SnapshotCalls : Moves(g, d) /\ Snapped(d)'
      BY <1>6, SnapshotStarts, MapsRead, TotalsRead DEF SnapshotStep
    <2>2. d \in Calls
      BY DEF Calls
    <2> QED
      BY <1>1, <2>1, <2>2, SnappedMoves
  <1> QED
    BY <1>2, <1>4, <1>5, <1>6 DEF Next, PlainStep, SnapshotStep

LEMMA InitSnapped ==
  ASSUME Init
  PROVE  AllSnapped
  <1>1. Idle \notin SnapshotCalls
    BY DEF Idle, SnapshotCalls
  <1> QED
    BY <1>1 DEF Init, AllSnapped, Snapped

LEMMA SnappedHolds == Spec => [](Typed /\ Counts /\ AllSnapped)
  BY InitTyped, InitCounts, InitSnapped, TypedNext, CountsNext, SnappedNext, PTL DEF Spec

\* A snapshot that is done, and what it read.
LEMMA SnapshotDone ==
  ASSUME Typed, AllSnapped, NEW g \in Goroutines, Finished(g, "snapshot")
  PROVE  calling[g] \in SnapshotCalls /\ Step(calling[g]) = "end" /\ Snapped(calling[g])
  <1>1. calling[g] \in Calls
    BY DEF Typed, Callers
  <1> QED
    BY <1>1, StepOf, OpOf DEF Finished, AllSnapped

\* The breakdowns of a snapshot never exceed its totals, for all that it takes
\* no lock on the counters (collector.go:111): what it read of the breakdowns is
\* no more than there is, and the totals are read last.
THEOREM SnapshotAddsUpHolds == Spec => []SnapshotAddsUp
  <1>1. ASSUME Typed, AllSnapped PROVE SnapshotAddsUp
    BY <1>1, SnapshotDone DEF SnapshotAddsUp, Snapped
  <1> QED
    BY <1>1, SnappedHolds, PTL

\* The average wait of a snapshot is never below the shortest wait
\* (collector.go:122), where there is a wait at all and as long as the sum of
\* all waits fits an int64; whether it fits is read off the sum itself.
THEOREM AverageCoversHolds ==
  ASSUME Waits \ {0} # {}
  PROVE  Spec => []AverageCovers
  <1>1. ASSUME Typed, AllSnapped PROVE AverageCovers
    BY <1>1, SnapshotDone DEF AverageCovers, Snapped, LeastWait
  <1> QED
    BY <1>1, SnappedHolds, PTL

-----------------------------------------------------------------------------
(* The counts of the shards, and what a walk makes of them.                *)

LEMMA OfIs ==
  ASSUME Typed, NEW s \in Shards
  PROVE  IsFiniteSet(Of(s)) /\ Cardinality(Of(s)) \in Nat
  <1>1. IsFiniteSet(items) /\ Of(s) \subseteq items
    BY DEF Typed, Entries, Of
  <1>2. IsFiniteSet(Of(s))
    BY <1>1, FS_Subset
  <1> QED
    BY <1>2, FS_CardinalityType

LEMMA TallyIs ==
  ASSUME Typed, NEW s \in Shards
  PROVE  /\ stats[s] \in Tallies
         /\ stats[s].lookups \in Nat /\ stats[s].misses \in Nat
         /\ stats[s].puts \in Nat /\ stats[s].dels \in Nat
  BY DEF Typed, Entries, Tallies

\* A step in one shard.
LEMMA ShelvedMoves ==
  ASSUME Typed, Shelved, NEW s \in Shards, NEW u \in Tallies, stats' = [stats EXCEPT ![s] = u],
         items' \subseteq Keys,
         \A k \in Keys : ShardOf[k] # s => (k \in items' <=> k \in items),
         u.puts = u.dels + Cardinality(Of(s)'),
         u.puts <= u.misses, u.misses <= u.lookups
  PROVE  Shelved'
  <1>1. ASSUME NEW t \in Shards
        PROVE  /\ stats'[t].puts = stats'[t].dels + Cardinality(Of(t)')
               /\ stats'[t].puts <= stats'[t].misses /\ stats'[t].misses <= stats'[t].lookups
    <2>1. CASE t = s
      BY <2>1 DEF Typed, Entries
    <2>2. CASE t # s
      <3>1. stats'[t] = stats[t]
        BY <2>2 DEF Typed, Entries
      <3>2. Of(t)' = Of(t)
        BY <2>2 DEF Of, Typed, Entries
      <3> QED
        BY <3>1, <3>2 DEF Shelved
    <2> QED
      BY <2>1, <2>2
  <1> QED
    BY <1>1 DEF Shelved

LEMMA EnterShelved ==
  ASSUME Typed, Shelved, NEW g \in Goroutines, Enter(g)
  PROVE  Shelved'
  <1>1. PICK k \in Keys, s \in Shards, m \in {0, 1}, u \in Tallies :
           /\ k = Key(g) /\ s = ShardOf[k] /\ (m = 0 <=> k \in items)
           /\ stats' = [stats EXCEPT ![s] = u]
           /\ u.lookups = stats[s].lookups + 1 /\ u.misses = stats[s].misses + m
           /\ u.puts = stats[s].puts + m /\ u.dels = stats[s].dels
    BY EnterDoes
  <1>2. items' = items \cup {k} /\ items \subseteq Keys
    BY <1>1 DEF Enter, Leaves, Typed, Entries
  <1>3. Of(s)' = Of(s) \cup {k}
    BY <1>1, <1>2 DEF Of
  <1>4. Cardinality(Of(s)') = Cardinality(Of(s)) + m
    <2>1. IsFiniteSet(Of(s)) /\ Cardinality(Of(s)) \in Nat
      BY OfIs
    <2>2. CASE m = 0
      <3>1. Of(s) \cup {k} = Of(s)
        BY <1>1, <2>2 DEF Of
      <3> QED
        BY <1>3, <2>1, <2>2, <3>1
    <2>3. CASE m = 1
      <3>1. k \notin Of(s)
        BY <1>1, <2>3 DEF Of
      <3> QED
        BY <1>3, <2>1, <2>3, <3>1, FS_AddElement
    <2> QED
      BY <2>2, <2>3
  <1>5. /\ stats[s].puts = stats[s].dels + Cardinality(Of(s))
        /\ stats[s].puts <= stats[s].misses /\ stats[s].misses <= stats[s].lookups
    BY DEF Shelved
  <1>6. /\ stats[s].lookups \in Nat /\ stats[s].misses \in Nat /\ stats[s].puts \in Nat
        /\ stats[s].dels \in Nat /\ Cardinality(Of(s)) \in Nat
    BY TallyIs, OfIs
  <1>7. /\ u.puts = u.dels + Cardinality(Of(s)')
        /\ u.puts <= u.misses /\ u.misses <= u.lookups
    BY <1>1, <1>4, <1>5, <1>6
  <1> QED
    BY <1>1, <1>2, <1>7, ShelvedMoves

LEMMA LookShelved ==
  ASSUME Typed, Shelved, NEW g \in Goroutines, Look(g)
  PROVE  Shelved'
  <1>1. PICK s \in Shards, m \in {0, 1}, u \in Tallies :
           /\ stats' = [stats EXCEPT ![s] = u]
           /\ u.lookups = stats[s].lookups + 1 /\ u.misses = stats[s].misses + m
           /\ u.puts = stats[s].puts /\ u.dels = stats[s].dels
    BY LookDoes
  <1>2. items' = items /\ items \subseteq Keys
    BY DEF Look, Typed, Entries
  <1>3. Of(s)' = Of(s)
    BY <1>2 DEF Of
  <1>4. /\ stats[s].puts = stats[s].dels + Cardinality(Of(s))
        /\ stats[s].puts <= stats[s].misses /\ stats[s].misses <= stats[s].lookups
    BY DEF Shelved
  <1>5. /\ stats[s].lookups \in Nat /\ stats[s].misses \in Nat /\ stats[s].puts \in Nat
    BY TallyIs
  <1>6. /\ u.puts = u.dels + Cardinality(Of(s)')
        /\ u.puts <= u.misses /\ u.misses <= u.lookups
    BY <1>1, <1>3, <1>4, <1>5
  <1> QED
    BY <1>1, <1>2, <1>6, ShelvedMoves

\* Keys of one shard are removed, and counted.
OneShard(out, s) == \A k \in out : ShardOf[k] = s

LEMMA RemovedShelved ==
  ASSUME Typed, Shelved, NEW s \in Shards, NEW out \in SUBSET items, NEW n \in Nat,
         n = Cardinality(out), OneShard(out, s), items' = items \ out,
         NEW u \in Tallies, stats' = [stats EXCEPT ![s] = u],
         u.lookups = stats[s].lookups, u.misses = stats[s].misses, u.puts = stats[s].puts,
         u.dels = stats[s].dels + n
  PROVE  Shelved'
  <1>1. items \subseteq Keys /\ IsFiniteSet(items)
    BY DEF Typed, Entries
  <1>2. Of(s)' = Of(s) \ out /\ out \subseteq Of(s)
    BY DEF Of, OneShard
  <1>3. IsFiniteSet(Of(s)) /\ Cardinality(Of(s)) \in Nat /\ IsFiniteSet(out)
    BY <1>1, OfIs, FS_Subset
  <1>4. Cardinality(Of(s) \ out) = Cardinality(Of(s)) - Cardinality(out)
    <2>1. PICK O : O = Of(s)
      OBVIOUS
    <2>2. IsFiniteSet(O) /\ O \cap out = out
      BY <1>2, <1>3, <2>1
    <2>3. Cardinality(O \ out) = Cardinality(O) - Cardinality(O \cap out)
      BY <2>2, FS_Difference
    <2> QED
      BY <2>1, <2>2, <2>3
  <1>5. /\ stats[s].puts = stats[s].dels + Cardinality(Of(s))
        /\ stats[s].puts <= stats[s].misses /\ stats[s].misses <= stats[s].lookups
    BY DEF Shelved
  <1>6. /\ stats[s].lookups \in Nat /\ stats[s].misses \in Nat /\ stats[s].puts \in Nat
        /\ stats[s].dels \in Nat
    BY TallyIs
  <1>7. /\ u.puts = u.dels + Cardinality(Of(s)')
        /\ u.puts <= u.misses /\ u.misses <= u.lookups
    BY <1>2, <1>3, <1>4, <1>5, <1>6
  <1>8. items' \subseteq Keys /\ \A k \in Keys : ShardOf[k] # s => (k \in items' <=> k \in items)
    BY <1>1 DEF OneShard
  <1> QED
    BY <1>7, <1>8, ShelvedMoves

LEMMA DeleteShelved ==
  ASSUME Typed, Shelved, NEW g \in Goroutines, Delete(g)
  PROVE  Shelved'
  <1>1. PICK k \in Keys, s \in Shards, n \in {0, 1}, u \in Tallies :
           /\ k = Key(g) /\ s = ShardOf[k] /\ (n = 1 <=> k \in items)
           /\ stats' = [stats EXCEPT ![s] = u]
           /\ u.lookups = stats[s].lookups /\ u.misses = stats[s].misses
           /\ u.puts = stats[s].puts /\ u.dels = stats[s].dels + n
    BY DeleteDoes
  <1>2. items' = items \ {k}
    BY <1>1 DEF Delete, Leaves
  <1>3. PICK out \in SUBSET items : out = {k} \cap items
    OBVIOUS
  <1>4. Cardinality(out) = n /\ n \in Nat
    <2>1. CASE n = 1
      <3>1. out = {k}
        BY <1>1, <1>3, <2>1
      <3> QED
        BY <2>1, <3>1, FS_Singleton
    <2>2. CASE n = 0
      <3>1. out = {}
        BY <1>1, <1>3, <2>2
      <3> QED
        BY <2>2, <3>1, FS_EmptySet
    <2> QED
      BY <2>1, <2>2
  <1>5. items' = items \ out /\ OneShard(out, s)
    BY <1>1, <1>2, <1>3 DEF OneShard
  <1> QED
    BY <1>1, <1>4, <1>5, RemovedShelved, ZenonT(40)

LEMMA SweepShelved ==
  ASSUME Typed, Shelved, NEW g \in Goroutines, SweepShard(g)
  PROVE  Shelved'
  <1>1. PICK s \in Shards, idle \in SUBSET items, n \in Nat :
           /\ n = Cardinality(idle) /\ \A k \in idle : ShardOf[k] = s
           /\ stats' = [stats EXCEPT ![s] = Swept(@, n)]
           /\ Leaves(items \ idle)
    BY SweepDoes
  <1>2. PICK u : u = Swept(stats[s], n)
    OBVIOUS
  <1>3. /\ stats' = [stats EXCEPT ![s] = u] /\ stats[s] \in Tallies
        /\ items' = items \ idle /\ OneShard(idle, s)
    BY <1>1, <1>2, TallyIs DEF Leaves, OneShard
  <1>4. /\ u \in Tallies /\ u.dels = stats[s].dels + n
        /\ u.lookups = stats[s].lookups /\ u.misses = stats[s].misses /\ u.puts = stats[s].puts
    BY <1>2, <1>3, SweptIs
  <1> QED
    BY <1>1, <1>3, <1>4, RemovedShelved

\* The steps that leave the entries alone.
LEMMA ShelfStays ==
  ASSUME Typed, NEW g \in Goroutines,
         \/ \E k \in Keys : \/ \E p \in Policies : CallAllow(g, k, p)
                            \/ \E r \in Reasons, w \in Waits : CallDeny(g, k, r, w)
                            \/ CallPeek(g, k) \/ CallReset(g, k) \/ CallCancel(g, k)
         \/ \E r \in Reasons : CallInvalid(g, r)
         \/ \E steps \in QuotaSteps : CallQuota(g, steps)
         \/ CallSweep(g) \/ CallSnapshot(g) \/ CallStats(g) \/ Leave(g) \/ WalkShard(g)
         \/ Add(g) \/ FindCounter(g) \/ BumpCounter(g) \/ LockMaps(g) \/ UnlockMaps(g)
         \/ ReadReasons(g) \/ ReadPolicies(g) \/ ReadTotal(g) \/ Return(g)
  PROVE  UNCHANGED <<items, stats>>
  BY DEF CallAllow, CallDeny, CallPeek, CallReset, CallCancel, CallInvalid, CallQuota, CallSweep,
         CallSnapshot, CallStats, Leave, WalkShard, Add, FindCounter, BumpCounter, LockMaps,
         UnlockMaps, ReadReasons, ReadPolicies, ReadTotal, Return, storeVars

LEMMA ShelvedNext ==
  ASSUME Typed, Shelved, [Next]_vars
  PROVE  Shelved'
  <1>1. ASSUME UNCHANGED <<items, stats>>
        PROVE  Shelved'
    BY <1>1 DEF Shelved, Of
  <1>2. CASE UNCHANGED vars
    BY <1>1, <1>2 DEF vars, storeVars
  <1>3. ASSUME NEW g \in Goroutines, Enter(g) \/ Look(g) \/ Delete(g) \/ SweepShard(g)
        PROVE  Shelved'
    BY <1>3, EnterShelved, LookShelved, DeleteShelved, SweepShelved
  <1> QED
    BY <1>1, <1>2, <1>3, ShelfStays DEF Next

LEMMA InitShelved ==
  ASSUME Init
  PROVE  Shelved
  <1>1. \A s \in Shards : Of(s) = {}
    BY DEF Init, Of
  <1>2. ASSUME NEW s \in Shards
        PROVE  /\ stats[s].puts = stats[s].dels + Cardinality(Of(s))
               /\ stats[s].puts <= stats[s].misses /\ stats[s].misses <= stats[s].lookups
    <2>1. /\ stats[s].puts = 0 /\ stats[s].dels = 0 /\ stats[s].misses = 0
          /\ stats[s].lookups = 0
      BY DEF Init, Zero
    <2>2. Cardinality(Of(s)) = 0
      BY <1>1, FS_EmptySet
    <2> QED
      BY <2>1, <2>2
  <1> QED
    BY <1>2 DEF Shelved

\* A snapshot that goes on is a snapshot.
LEMMA SnapshotGoesOn ==
  ASSUME Typed, NEW g \in Goroutines, SnapshotStep(g)
  PROVE  \E d \in Calls : Moves(g, d) /\ d \notin StatsCalls
  <1>1. CASE CallSnapshot(g) \/ ReadTotal(g)
    <2>1. PICK d \in SnapshotCalls : Moves(g, d)
      BY <1>1, SnapshotBegins, ReadDoes
    <2>2. d \in Calls /\ d \notin StatsCalls
      BY OpOf DEF Calls
    <2> QED
      BY <2>1, <2>2
  <1>2. ASSUME Advances(g), calling[g] \in SnapshotCalls,
               Step(calling[g]) \in {"lockMaps", "reasons", "policies", "unlockMaps"}
        PROVE  \E d \in Calls : Moves(g, d) /\ d \notin StatsCalls
    <2>1. PICK d : Moves(g, d) /\ Goes(calling[g], d)
      BY <1>2, AdvanceGoes DEF Typed, Moves
    <2>2. d \in Calls /\ d.op = "snapshot"
      BY <1>2, <2>1 DEF Goes, SnapshotCalls
    <2> QED
      BY <2>1, <2>2, OpOf
  <1>3. CASE LockMaps(g) \/ UnlockMaps(g)
    <2>1. /\ Advances(g) /\ calling[g] \in Calls
          /\ Step(calling[g]) \in {"lockMaps", "unlockMaps"}
      BY <1>3, AtStep DEF LockMaps, UnlockMaps, Advances, Typed
    <2> QED
      BY <1>2, <2>1, StepOf
  <1>4. CASE ReadReasons(g) \/ ReadPolicies(g)
    <2>1. calling[g] \in SnapshotCalls /\ Step(calling[g]) \in {"reasons", "policies"}
      BY <1>4, ReasonsDo, PoliciesDo
    <2>2. ASSUME NEW d \in SnapshotCalls, Moves(g, d)
          PROVE  \E e \in Calls : Moves(g, e) /\ e \notin StatsCalls
      <3>1. d \in Calls /\ d \notin StatsCalls
        BY OpOf DEF Calls
      <3> QED
        BY <2>2, <3>1
    <2> QED
      BY <1>2, <1>4, <2>1, <2>2, ReasonsDo, PoliciesDo
  <1> QED
    BY <1>1, <1>3, <1>4 DEF SnapshotStep

LEMMA WalkedNext ==
  ASSUME Typed, Shelved, AllWalked, [Next]_vars
  PROVE  AllWalked'
  <1>1. CASE UNCHANGED vars
    BY <1>1 DEF vars, AllWalked, Walked
  <1>2. ASSUME NEW g \in Goroutines, NEW d \in Calls, Moves(g, d), Walked(d)
        PROVE  AllWalked'
    <2>1. ASSUME NEW h \in Goroutines
          PROVE  Walked(calling'[h])
      <3>1. calling'[h] = d \/ calling'[h] = calling[h]
        BY <1>2, Moved DEF Typed
      <3> QED
        BY <1>2, <3>1 DEF AllWalked
    <2> QED
      BY <2>1 DEF AllWalked
  <1>3. ASSUME NEW g \in Goroutines, PlainStep(g)
        PROVE  AllWalked'
    BY <1>2, <1>3, PlainMoves DEF Walked
  <1>4. ASSUME NEW g \in Goroutines, SnapshotStep(g)
        PROVE  AllWalked'
    BY <1>2, <1>4, SnapshotGoesOn DEF Walked
  <1>5. ASSUME NEW g \in Goroutines, CallStats(g)
        PROVE  AllWalked'
    <2>1. PICK d \in StatsCalls : Moves(g, d) /\ d.n = 0 /\ d.sum = Zero
      BY <1>5, StatsBegins
    <2>2. d \in Calls
      BY DEF Calls
    <2>3. Walked(d)
      BY <2>1 DEF Walked, Zero
    <2> QED
      BY <1>2, <2>1, <2>2, <2>3
  <1>6. ASSUME NEW g \in Goroutines, WalkShard(g)
        PROVE  AllWalked'
    <2>0. PICK c : c = calling[g]
      OBVIOUS
    <2>1. PICK s \in Shards, n \in Nat, d \in StatsCalls :
             /\ c \in StatsCalls
             /\ n = Cardinality(Of(s)) /\ Moves(g, d) /\ d.n = c.n + n
             /\ d.sum.lookups = c.sum.lookups + stats[s].lookups
             /\ d.sum.misses = c.sum.misses + stats[s].misses
             /\ d.sum.puts = c.sum.puts + stats[s].puts
             /\ d.sum.dels = c.sum.dels + stats[s].dels
      BY <1>6, <2>0, WalkDoes
    <2>2. /\ c.n \in Nat /\ c.sum.lookups \in Nat /\ c.sum.misses \in Nat
          /\ c.sum.puts \in Nat /\ c.sum.dels \in Nat
      BY <2>1 DEF StatsCalls, Tallies
    <2>3. /\ stats[s].lookups \in Nat /\ stats[s].misses \in Nat
          /\ stats[s].puts \in Nat /\ stats[s].dels \in Nat
      BY TallyIs
    <2>4. /\ c.n + c.sum.dels = c.sum.puts
          /\ c.sum.puts <= c.sum.misses /\ c.sum.misses <= c.sum.lookups
      BY <2>0, <2>1 DEF AllWalked, Walked
    <2>5. /\ stats[s].puts = stats[s].dels + n
          /\ stats[s].puts <= stats[s].misses /\ stats[s].misses <= stats[s].lookups
      BY <2>1 DEF Shelved
    <2>6. /\ d.n + d.sum.dels = d.sum.puts
          /\ d.sum.puts <= d.sum.misses /\ d.sum.misses <= d.sum.lookups
      BY <2>1, <2>2, <2>3, <2>4, <2>5
    <2>7. d \in Calls
      BY DEF Calls
    <2> QED
      BY <1>2, <2>1, <2>6, <2>7 DEF Walked
  <1> QED
    BY <1>1, <1>3, <1>4, <1>5, <1>6 DEF Next, PlainStep, SnapshotStep

LEMMA InitWalked ==
  ASSUME Init
  PROVE  AllWalked
  <1>1. Idle \notin StatsCalls
    BY DEF Idle, StatsCalls
  <1> QED
    BY <1>1 DEF Init, AllWalked, Walked

LEMMA WalkedHolds == Spec => [](Typed /\ Shelved /\ AllWalked)
  BY InitTyped, InitShelved, InitWalked, TypedNext, ShelvedNext, WalkedNext, PTL DEF Spec

\* AggregateStats balances whatever goes on between its shards (store.go:154):
\* each shard balances whenever it is looked into, and so does the sum.
THEOREM StatsBalanceHolds == Spec => []StatsBalance
  <1>1. ASSUME Typed, AllWalked, NEW g \in Goroutines, Finished(g, "stats")
        PROVE  Walked(calling[g]) /\ calling[g] \in StatsCalls
    <2>1. calling[g] \in Calls
      BY <1>1 DEF Typed, Callers
    <2> QED
      BY <1>1, <2>1, OpOf DEF Finished, AllWalked
  <1>2. ASSUME Typed, AllWalked PROVE StatsBalance
    BY <1>1, <1>2 DEF StatsBalance, Walked
  <1> QED
    BY <1>2, WalkedHolds, PTL

\* What a walk knows of the entries.
LEMMA BehindIs ==
  ASSUME NEW T, IsFiniteSet(T), NEW S \in SUBSET T, NEW left
  PROVE  /\ IsFiniteSet(Behind(S, left)) /\ IsFiniteSet(Behind(T, left))
         /\ Cardinality(Behind(S, left)) \in Nat /\ Cardinality(Behind(T, left)) \in Nat
         /\ Cardinality(Behind(S, left)) <= Cardinality(Behind(T, left))
  <1>1. Behind(S, left) \subseteq Behind(T, left) /\ Behind(T, left) \subseteq T
    BY DEF Behind
  <1>2. PICK A, B : A = Behind(S, left) /\ B = Behind(T, left)
    OBVIOUS
  <1>3. IsFiniteSet(B) /\ A \subseteq B
    BY <1>1, <1>2, FS_Subset
  <1>4. IsFiniteSet(A) /\ Cardinality(A) <= Cardinality(B)
    BY <1>3, FS_Subset
  <1> QED
    BY <1>2, <1>3, <1>4, FS_CardinalityType

\* The keys of one more shard.
Shelf(S, s) == {k \in S : ShardOf[k] = s}

LEMMA BehindMore ==
  ASSUME NEW S, IsFiniteSet(S), NEW left, NEW s \in left
  PROVE  /\ IsFiniteSet(Shelf(S, s)) /\ Cardinality(Shelf(S, s)) \in Nat
         /\ Cardinality(Behind(S, left)) \in Nat
         /\ Cardinality(Behind(S, left \ {s}))
              = Cardinality(Behind(S, left)) + Cardinality(Shelf(S, s))
  <1>1. PICK A, B, U : A = Shelf(S, s) /\ B = Behind(S, left) /\ U = Behind(S, left \ {s})
    OBVIOUS
  <1>2. U = B \cup A /\ B \cap A = {} /\ B \subseteq S /\ A \subseteq S
    BY <1>1 DEF Behind, Shelf
  <1>3. IsFiniteSet(A) /\ IsFiniteSet(B)
    BY <1>2, FS_Subset
  <1>4. Cardinality(B \cup A) = Cardinality(B) + Cardinality(A) - Cardinality(B \cap A)
    BY <1>3, FS_Union
  <1>5. Cardinality(B \cap A) = 0 /\ Cardinality(A) \in Nat /\ Cardinality(B) \in Nat
    BY <1>2, <1>3, FS_EmptySet, FS_CardinalityType
  <1>6. Cardinality(U) = Cardinality(B) + Cardinality(A)
    BY <1>2, <1>4, <1>5
  <1> QED
    BY <1>1, <1>3, <1>5, <1>6

\* Nothing happens to a walk and to the entries.
LEMMA NotedStays ==
  ASSUME NEW h \in Goroutines, Noted(h), items' = items, calling'[h] = calling[h],
         always'[h] = always[h], ever'[h] = ever[h]
  PROVE  Noted(h)'
  BY DEF Noted

LEMMA NotedMoves ==
  ASSUME Typed, AllNoted, NEW g \in Goroutines, NEW d \in Calls, Moves(g, d),
         d \notin StatsCalls, UNCHANGED <<items, always, ever>>
  PROVE  AllNoted'
  <1>1. ASSUME NEW h \in Goroutines
        PROVE  Noted(h)'
    <2>1. CASE h = g
      <3>1. calling'[h] = d
        BY <2>1, Moved DEF Typed
      <3> QED
        BY <3>1 DEF Noted, AllNoted
    <2>2. CASE h # g
      <3>1. calling'[h] = calling[h]
        BY <2>2, Moved DEF Typed
      <3> QED
        BY <3>1, NotedStays DEF AllNoted
    <2> QED
      BY <2>1, <2>2
  <1> QED
    BY <1>1 DEF AllNoted

\* The entries change under the walks.
LEMMA NotedLeaves ==
  ASSUME Typed, AllNoted, NEW g \in Goroutines, NEW d \in Calls, Moves(g, d),
         d \notin StatsCalls, NEW entries \in SUBSET Keys, IsFiniteSet(entries), Leaves(entries)
  PROVE  AllNoted'
  <1>1. ASSUME NEW h \in Goroutines
        PROVE  Noted(h)'
    <2>1. /\ items' = entries /\ always'[h] = always[h] \cap entries
          /\ ever'[h] = ever[h] \cup entries
      BY DEF Leaves
    <2>2. always'[h] \subseteq items'
      BY <2>1
    <2>3. CASE h = g
      <3>1. calling'[h] = d
        BY <2>3, Moved DEF Typed
      <3> QED
        BY <2>2, <3>1 DEF Noted
    <2>4. CASE h # g
      <3>1. calling'[h] = calling[h]
        BY <2>4, Moved DEF Typed
      <3>2. ASSUME calling[h] \in StatsCalls
            PROVE  /\ items' \subseteq ever'[h]
                   /\ Cardinality(Behind(always'[h], calling[h].left)) <= calling[h].n
                   /\ calling[h].n <= Cardinality(Behind(ever'[h], calling[h].left))
        <4>1. PICK left, n : left = calling[h].left /\ n = calling[h].n
          OBVIOUS
        <4>2. /\ Cardinality(Behind(always[h], left)) <= n
              /\ n <= Cardinality(Behind(ever[h], left)) /\ n \in Nat
          BY <3>2, <4>1 DEF AllNoted, Noted, StatsCalls
        <4>3. PICK a, b, x, y : a = always[h] /\ b = always'[h] /\ x = ever[h] /\ y = ever'[h]
          OBVIOUS
        <4>4. b \subseteq a /\ IsFiniteSet(a) /\ x \subseteq y /\ IsFiniteSet(y)
          <5>1. a \subseteq items /\ IsFiniteSet(items) /\ IsFiniteSet(x)
            BY <4>3 DEF AllNoted, Noted, Typed, Entries
          <5>2. IsFiniteSet(a)
            BY <5>1, FS_Subset
          <5>3. IsFiniteSet(x \cup entries)
            BY <5>1, FS_Union
          <5> QED
            BY <2>1, <4>3, <5>2, <5>3
        <4>5. /\ Cardinality(Behind(b, left)) <= Cardinality(Behind(a, left))
              /\ Cardinality(Behind(b, left)) \in Nat /\ Cardinality(Behind(a, left)) \in Nat
          BY <4>4, BehindIs
        <4>6. /\ Cardinality(Behind(x, left)) <= Cardinality(Behind(y, left))
              /\ Cardinality(Behind(x, left)) \in Nat /\ Cardinality(Behind(y, left)) \in Nat
          BY <4>4, BehindIs
        <4>7. /\ Cardinality(Behind(b, left)) <= n /\ n <= Cardinality(Behind(y, left))
          BY <4>2, <4>3, <4>5, <4>6
        <4> QED
          BY <2>1, <4>1, <4>3, <4>7
      <3> QED
        BY <2>2, <3>1, <3>2 DEF Noted
    <2> QED
      BY <2>3, <2>4
  <1> QED
    BY <1>1 DEF AllNoted

LEMMA NotedBegins ==
  ASSUME Typed, AllNoted, NEW g \in Goroutines, CallStats(g)
  PROVE  AllNoted'
  <1>1. PICK d \in StatsCalls :
           /\ Moves(g, d) /\ d.left = Shards /\ d.n = 0 /\ items' = items
           /\ always' = [always EXCEPT ![g] = items] /\ ever' = [ever EXCEPT ![g] = items]
    BY StatsBegins
  <1>2. d \in Calls
    BY DEF Calls
  <1>3. ASSUME NEW h \in Goroutines
        PROVE  Noted(h)'
    <2>1. CASE h = g
      <3>1. calling'[h] = d /\ always'[h] = items /\ ever'[h] = items
        BY <1>1, <1>2, <2>1, Moved DEF Typed, Entries
      <3>2. Behind(items, Shards) = {}
        BY ObserversAssumption DEF Behind, Typed, Entries
      <3>3. Cardinality(Behind(items, Shards)) = 0
        BY <3>2, FS_EmptySet
      <3> QED
        BY <1>1, <3>1, <3>3 DEF Noted
    <2>2. CASE h # g
      <3>1. calling'[h] = calling[h] /\ always'[h] = always[h] /\ ever'[h] = ever[h]
        BY <1>1, <1>2, <2>2, Moved DEF Typed, Entries
      <3> QED
        BY <1>1, <3>1, NotedStays DEF AllNoted
    <2> QED
      BY <2>1, <2>2
  <1> QED
    BY <1>3 DEF AllNoted

LEMMA NotedWalks ==
  ASSUME Typed, AllNoted, NEW g \in Goroutines, WalkShard(g)
  PROVE  AllNoted'
  <1>1. PICK c : c = calling[g]
    OBVIOUS
  <1>2. PICK s \in Shards, n \in Nat, d \in StatsCalls :
           /\ c \in StatsCalls /\ s \in c.left
           /\ n = Cardinality(Of(s)) /\ IsFiniteSet(Of(s))
           /\ Moves(g, d) /\ d.left = c.left \ {s} /\ d.n = c.n + n
    BY <1>1, WalkDoes
  <1>3. d \in Calls /\ UNCHANGED <<items, always, ever>>
    BY DEF Calls, WalkShard, storeVars
  <1>4. ASSUME NEW h \in Goroutines
        PROVE  Noted(h)'
    <2>1. CASE h = g
      <3>1. calling'[h] = d
        BY <1>2, <1>3, <2>1, Moved DEF Typed
      <3>2. PICK a, e, left : a = always[g] /\ e = ever[g] /\ left = c.left
        OBVIOUS
      <3>3. /\ a \subseteq items /\ items \subseteq e
            /\ Cardinality(Behind(a, left)) <= c.n /\ c.n <= Cardinality(Behind(e, left))
            /\ c.n \in Nat
        BY <1>1, <1>2, <3>2 DEF AllNoted, Noted, StatsCalls
      <3>4. IsFiniteSet(a) /\ IsFiniteSet(e)
        <4>1. IsFiniteSet(items) /\ IsFiniteSet(e)
          BY <3>2 DEF Typed, Entries
        <4> QED
          BY <3>3, <4>1, FS_Subset
      <3>5. PICK A, E, O : A = Shelf(a, s) /\ E = Shelf(e, s) /\ O = Of(s)
        OBVIOUS
      <3>0. s \in left
        BY <1>2, <3>2
      <3>6. /\ IsFiniteSet(A) /\ Cardinality(A) \in Nat /\ Cardinality(Behind(a, left)) \in Nat
            /\ Cardinality(Behind(a, left \ {s}))
                 = Cardinality(Behind(a, left)) + Cardinality(A)
        BY <3>0, <3>4, <3>5, BehindMore
      <3>7. /\ IsFiniteSet(E) /\ Cardinality(E) \in Nat /\ Cardinality(Behind(e, left)) \in Nat
            /\ Cardinality(Behind(e, left \ {s}))
                 = Cardinality(Behind(e, left)) + Cardinality(E)
        BY <3>0, <3>4, <3>5, BehindMore
      <3>8. A \subseteq O /\ O \subseteq E
        BY <3>3, <3>5 DEF Of, Shelf
      <3>9. Cardinality(A) <= Cardinality(O) /\ Cardinality(O) <= Cardinality(E)
        BY <1>2, <3>5, <3>7, <3>8, FS_Subset
      <3>10. /\ Cardinality(Behind(a, left \ {s})) <= d.n
             /\ d.n <= Cardinality(Behind(e, left \ {s}))
        BY <1>2, <3>3, <3>5, <3>6, <3>7, <3>9
      <3> QED
        BY <1>2, <1>3, <2>1, <3>1, <3>2, <3>3, <3>10 DEF Noted
    <2>2. CASE h # g
      <3>1. calling'[h] = calling[h]
        BY <1>2, <1>3, <2>2, Moved DEF Typed
      <3> QED
        BY <1>3, <3>1, NotedStays DEF AllNoted
    <2> QED
      BY <2>1, <2>2
  <1> QED
    BY <1>4 DEF AllNoted

LEMMA NotedReturns ==
  ASSUME Typed, AllNoted, NEW g \in Goroutines, Return(g)
  PROVE  AllNoted'
  <1>1. PICK d \in Calls : Moves(g, d) /\ d \notin StatsCalls
    BY PlainMoves DEF PlainStep
  <1>2. /\ items' = items /\ always' = [always EXCEPT ![g] = {}]
        /\ ever' = [ever EXCEPT ![g] = {}]
    BY DEF Return
  <1>3. ASSUME NEW h \in Goroutines
        PROVE  Noted(h)'
    <2>1. CASE h = g
      <3>1. calling'[h] = d /\ always'[h] = {}
        BY <1>1, <1>2, <2>1, Moved DEF Typed, Entries
      <3> QED
        BY <1>1, <3>1 DEF Noted
    <2>2. CASE h # g
      <3>1. calling'[h] = calling[h] /\ always'[h] = always[h] /\ ever'[h] = ever[h]
        BY <1>1, <1>2, <2>2, Moved DEF Typed, Entries
      <3> QED
        BY <1>2, <3>1, NotedStays DEF AllNoted
    <2> QED
      BY <2>1, <2>2
  <1> QED
    BY <1>3 DEF AllNoted

\* The three steps that change the entries.
LEMMA EntriesChange ==
  ASSUME Typed, NEW g \in Goroutines, Enter(g) \/ Delete(g) \/ SweepShard(g)
  PROVE  \E entries \in SUBSET Keys : IsFiniteSet(entries) /\ Leaves(entries)
  <1>1. items \subseteq Keys /\ IsFiniteSet(items)
    BY DEF Typed, Entries
  <1>2. CASE Enter(g)
    <2>1. Leaves(items \cup {Key(g)}) /\ Key(g) \in Keys
      BY <1>2, EnterDoes DEF Enter
    <2>2. IsFiniteSet(items \cup {Key(g)})
      BY <1>1, FS_AddElement
    <2> QED
      BY <1>1, <2>1, <2>2
  <1>3. CASE Delete(g)
    <2>1. Leaves(items \ {Key(g)})
      BY <1>3 DEF Delete
    <2>2. IsFiniteSet(items \ {Key(g)})
      BY <1>1, FS_RemoveElement
    <2> QED
      BY <1>1, <2>1, <2>2
  <1>4. CASE SweepShard(g)
    <2>1. PICK idle \in SUBSET items : Leaves(items \ idle)
      BY <1>4, SweepDoes
    <2>2. IsFiniteSet(items \ idle)
      BY <1>1, FS_Subset
    <2> QED
      BY <1>1, <2>1, <2>2
  <1> QED
    BY <1>2, <1>3, <1>4

\* The steps that leave the entries alone, and what walks know of them.
LEMMA WalksStay ==
  ASSUME Typed, NEW g \in Goroutines,
         PlainStep(g) \/ SnapshotStep(g),
         ~Enter(g), ~Delete(g), ~SweepShard(g), ~Return(g)
  PROVE  UNCHANGED <<items, always, ever>>
  BY DEF PlainStep, SnapshotStep, CallAllow, CallDeny, CallPeek, CallReset, CallCancel,
         CallInvalid, CallQuota, CallSweep, CallSnapshot, Leave, Look, Add, FindCounter,
         BumpCounter, LockMaps, UnlockMaps, ReadReasons, ReadPolicies, ReadTotal, storeVars

LEMMA NotedNext ==
  ASSUME Typed, AllNoted, [Next]_vars
  PROVE  AllNoted'
  <1>1. CASE UNCHANGED vars
    <2>1. UNCHANGED <<items, calling, always, ever>>
      BY <1>1 DEF vars, storeVars
    <2> QED
      BY <2>1 DEF AllNoted, Noted
  <1>2. ASSUME NEW g \in Goroutines, PlainStep(g) \/ SnapshotStep(g)
        PROVE  AllNoted'
    <2>1. PICK d \in Calls : Moves(g, d) /\ d \notin StatsCalls
      BY <1>2, PlainMoves, SnapshotGoesOn
    <2>2. CASE Enter(g) \/ Delete(g) \/ SweepShard(g)
      <3>1. PICK entries \in SUBSET Keys : IsFiniteSet(entries) /\ Leaves(entries)
        BY <2>2, EntriesChange
      <3> QED
        BY <2>1, <3>1, NotedLeaves
    <2>3. CASE Return(g)
      BY <2>3, NotedReturns
    <2>4. CASE ~Enter(g) /\ ~Delete(g) /\ ~SweepShard(g) /\ ~Return(g)
      <3>1. UNCHANGED <<items, always, ever>>
        BY <1>2, <2>4, WalksStay
      <3> QED
        BY <2>1, <3>1, NotedMoves
    <2> QED
      BY <2>2, <2>3, <2>4
  <1>3. ASSUME NEW g \in Goroutines, CallStats(g) \/ WalkShard(g)
        PROVE  AllNoted'
    BY <1>3, NotedBegins, NotedWalks
  <1> QED
    BY <1>1, <1>2, <1>3 DEF Next, PlainStep, SnapshotStep

LEMMA InitNoted ==
  ASSUME Init
  PROVE  AllNoted
  <1>1. Idle \notin StatsCalls
    BY DEF Idle, StatsCalls
  <1> QED
    BY <1>1 DEF Init, AllNoted, Noted

LEMMA NotedHolds == Spec => [](Typed /\ AllNoted)
  BY InitTyped, InitNoted, TypedNext, NotedNext, PTL DEF Spec

\* The length a walk comes to (store.go:123) is at least the number of entries
\* that were there throughout, and at most that of those there at some time,
\* whatever is put, reset and swept behind it and ahead of it.
THEOREM WalkBoundsHolds == Spec => []WalkBounds
  <1>1. ASSUME Typed, AllNoted, NEW g \in Goroutines, Finished(g, "stats")
        PROVE  /\ Cardinality(always[g]) <= calling[g].n
               /\ calling[g].n <= Cardinality(ever[g])
    <2>1. calling[g] \in Calls
      BY <1>1 DEF Typed, Callers
    <2>2. calling[g] \in StatsCalls /\ calling[g].todo = <<>>
      BY <1>1, <2>1, OpOf DEF Finished
    <2>3. calling[g].left = {}
      BY <2>2 DEF StatsCalls, First
    <2>4. /\ Behind(always[g], calling[g].left) = always[g]
          /\ Behind(ever[g], calling[g].left) = ever[g]
      BY <2>3 DEF Behind
    <2> QED
      BY <1>1, <2>2, <2>4 DEF AllNoted, Noted
  <1>2. ASSUME Typed, AllNoted PROVE WalkBounds
    BY <1>1, <1>2 DEF WalkBounds
  <1> QED
    BY <1>2, NotedHolds, PTL
=============================================================================
