----------------------------- MODULE SlidingLog -----------------------------
(***************************************************************************)
(* internal/slidingwin/window.go: the exact sliding window.  The ring      *)
(* buffer of log.go is the sequence of the timestamps it holds, oldest     *)
(* insertion first; its capacity is limit and PushN is only reached when   *)
(* there is room, so a push never overwrites.                              *)
(***************************************************************************)
EXTENDS Integers, Sequences, FiniteSets, Result

States == [ring: Seq(Int), size: Nat, limit: Nat]

NewLog(size, limit) == [ring |-> <<>>, size |-> size, limit |-> limit]

Cutoff(l, now) == now - l.size

\* Mutant of Prune: an event leaves one tick before its window has passed.
PruneEarly(ring, cut) ==
  LET dropped == Cardinality({i \in 1..Len(ring) : \A j \in 1..i : ring[j] <= cut + 1})
  IN SubSeq(ring, dropped + 1, Len(ring))

\* Drop the prefix of timestamps that have left the window.
Prune(ring, cut) ==
  LET dropped == Cardinality({i \in 1..Len(ring) : \A j \in 1..i : ring[j] <= cut})
  IN SubSeq(ring, dropped + 1, Len(ring))

PushN(ring, t, n) == ring \o [i \in 1..n |-> t]

PopNewestN(ring, n) == SubSeq(ring, 1, Len(ring) - n)

\* The places of the valid events, which CountAfter counts.
After(ring, cut) == {i \in 1..Len(ring) : ring[i] > cut}

\* The place of the extra-th oldest of the valid events, if there is one.
Reached(valid, extra) == {i \in valid : Cardinality({j \in valid : j <= i}) = extra}

\* How long until the extra oldest valid events have left the window.
Wait(l, ring, extra, now) ==
  LET hits == Reached(After(ring, Cutoff(l, now)), extra)
      left == ring[CHOOSE i \in hits : TRUE] + l.size - now
  IN IF hits = {} \/ left < 0 THEN 0 ELSE left

Allow(l, n, now) ==
  LET ring == Prune(l.ring, Cutoff(l, now))
      extra == Len(ring) + n - l.limit
  IN IF n <= 0 THEN Refuse(l, 0)
     ELSE IF n > l.limit THEN Impossible(l)
     ELSE IF extra <= 0 THEN Accept([l EXCEPT !.ring = PushN(ring, now, n)])
     ELSE Refuse([l EXCEPT !.ring = ring], Wait(l, ring, extra, now))

\* Peek neither prunes nor records: it counts the valid events where they are.
Peek(l, n, now) ==
  LET extra == Cardinality(After(l.ring, Cutoff(l, now))) + n - l.limit
  IN IF n <= 0 THEN Refuse(l, 0)
     ELSE IF n > l.limit THEN Impossible(l)
     ELSE IF extra <= 0 THEN Accept(l)
     ELSE Refuse(l, Wait(l, l.ring, extra, now))

\* Restore pops the newest entries, whoever recorded them.
Restore(l, n) == [l EXCEPT !.ring = PopNewestN(@, n)]

=============================================================================
