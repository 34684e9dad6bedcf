-------------------------------- MODULE Ring --------------------------------
(***************************************************************************)
(* internal/slidingwin/log.go: the timestamps of a sliding log in an array *)
(* used as a ring, and window.go as it is written, on the ring.  Read from *)
(* the oldest to the newest (Times), a ring is the sequence SlidingLog     *)
(* works on; Implements says that the two never differ.                    *)
(***************************************************************************)
EXTENDS Arith, Sequences, FiniteSets, Result

\* times is indexed from 0; start is the place of the oldest event.
NewRing(cap) ==
  LET c == MaxI(cap, 1)
  IN [times |-> [i \in 0..(c - 1) |-> 0], start |-> 0, len |-> 0, cap |-> c]

At(r, i) == IF i \notin 0..(r.len - 1) THEN 0 ELSE r.times[(r.start + i) % r.cap]

Times(r) == [i \in 1..r.len |-> At(r, i - 1)]

\* When full, the oldest event is overwritten.
Push(r, t) ==
  IF r.len < r.cap
    THEN [r EXCEPT !.times[(r.start + r.len) % r.cap] = t, !.len = @ + 1]
    ELSE [r EXCEPT !.times[r.start] = t, !.start = (@ + 1) % r.cap]

PushN(r, t, n) ==
  LET pushed[i \in 0..n] == IF i = 0 THEN r ELSE Push(pushed[i - 1], t)
  IN pushed[n]

\* Mutant of DropOldest: the newest event goes.
DropOldestInPlace(r) == [r EXCEPT !.len = @ - 1]

DropOldest(r) == [r EXCEPT !.start = (@ + 1) % r.cap, !.len = @ - 1]

\* The oldest event is dropped as long as it has left the window.
Prune(r, cut) ==
  LET pruned[i \in 0..r.len] ==
        IF i = 0 THEN r
        ELSE LET p == pruned[i - 1]
             IN IF p.len > 0 /\ At(p, 0) <= cut THEN DropOldest(p) ELSE p
  IN pruned[r.len]

PopNewest(r) == [r EXCEPT !.len = MaxI(@ - 1, 0)]

PopNewestN(r, n) ==
  LET popped[i \in 0..n] == IF i = 0 THEN r ELSE PopNewest(popped[i - 1])
  IN popped[n]

ValidAt(r, cut) == {i \in 0..(r.len - 1) : At(r, i) > cut}

CountAfter(r, cut) == Cardinality(ValidAt(r, cut))

-----------------------------------------------------------------------------
(* The sliding log over a ring: [ring, size, limit].                       *)

NewLog(size, limit) ==
  [ring |-> NewRing(limit), size |-> MaxI(size, 1), limit |-> MaxI(limit, 1)]

\* The scan for the extra-th valid event, and how long it stays.
Wait(l, r, extra, now) ==
  LET cut == now - l.size
      hits == {i \in ValidAt(r, cut) :
                 Cardinality({j \in ValidAt(r, cut) : j <= i}) = extra}
  IN IF hits = {} THEN 0 ELSE MaxI(At(r, CHOOSE i \in hits : TRUE) + l.size - now, 0)

Allow(l, n, now) ==
  LET r == Prune(l.ring, now - l.size)
      extra == r.len + n - l.limit
  IN IF n <= 0 THEN Refuse(l, 0)
     ELSE IF n > l.limit THEN Impossible(l)
     ELSE IF r.len + n <= l.limit THEN Accept([l EXCEPT !.ring = PushN(r, now, n)])
     ELSE Refuse([l EXCEPT !.ring = r], IF extra <= 0 THEN 0 ELSE Wait(l, r, extra, now))

Peek(l, n, now) ==
  LET in == CountAfter(l.ring, now - l.size)
  IN IF n <= 0 THEN Refuse(l, 0)
     ELSE IF n > l.limit THEN Impossible(l)
     ELSE IF in + n <= l.limit THEN Accept(l)
     ELSE Refuse(l, Wait(l, l.ring, in + n - l.limit, now))

Restore(l, n) == [l EXCEPT !.ring = PopNewestN(@, n)]

-----------------------------------------------------------------------------

Abstract == INSTANCE SlidingLog

\* The log on the sequence that a log on a ring stands for.
Mapped(l) == [l EXCEPT !.ring = Times(@)]

MappedResult(r) == [r EXCEPT !.st = Mapped(@)]

\* Wherever the ring begins and whatever is left in its unused places, every
\* operation leaves the sequence, and gives the verdict and the wait, that
\* SlidingLog says; a push to a full ring gives up the oldest event alone.
Implements(l, n, now) ==
  /\ MappedResult(Allow(l, n, now)) = Abstract!Allow(Mapped(l), n, now)
  /\ MappedResult(Peek(l, n, now)) = Abstract!Peek(Mapped(l), n, now)
  /\ n <= l.ring.len => Mapped(Restore(l, n)) = Abstract!Restore(Mapped(l), n)
  /\ Times(Push(l.ring, now)) =
       Append(IF l.ring.len < l.ring.cap THEN Times(l.ring) ELSE Tail(Times(l.ring)), now)

=============================================================================
