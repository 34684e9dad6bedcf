-------------------------------- MODULE GCRA --------------------------------
(***************************************************************************)
(* internal/tokenbucket/gcra.go: the generic cell rate algorithm.  tat is  *)
(* the theoretical arrival time; arithmetic is on 64-bit words, as in Go.  *)
(***************************************************************************)
EXTENDS Arith, Result

CONSTANTS Second, MaxTokens

States == [tat: Int, interval: Nat, limit: Nat, burst: Nat]

ZeroState == [tat |-> 0, interval |-> 0, limit |-> 0, burst |-> 0]

\* An invalid configuration (burst above MaxTokens) gives the zero state,
\* which rejects every call as impossible.
NewGCRA(cfg, now) ==
  LET interval == MaxI(1, (Second * cfg.den) \div cfg.num)
  IN IF cfg.num <= 0 \/ cfg.burst \notin 1..MaxTokens
       THEN ZeroState
       ELSE [tat |-> now, interval |-> interval,
             limit |-> U64(interval * cfg.burst), burst |-> cfg.burst]

Inc(g, n) == U64(g.interval * n)

\* Mutant of NewTAT: a stale tat is not brought forward to the clock.
NewTATStale(g, n, now) == U64(U64(g.tat) + Inc(g, n))

\* newTAT as the word the code computes.
NewTAT(g, n, now) == U64(U64(MaxI(g.tat, now)) + Inc(g, n))

Allow(g, n, now) ==
  LET newTAT == NewTAT(g, n, now)
      ahead == newTAT - U64(now)
  IN IF n <= 0 THEN Refuse(g, 0)
     ELSE IF g.interval = 0 \/ g.limit = 0 \/ n > g.burst THEN Impossible(g)
     ELSE IF newTAT < U64(now)                     \* the word has wrapped
       THEN Accept([g EXCEPT !.tat = I64(U64(U64(now) + Inc(g, n)))])
     ELSE IF ahead <= g.limit THEN Accept([g EXCEPT !.tat = I64(newTAT)])
     ELSE Refuse(g, I64(ahead - g.limit))

\* Peek computes the next tat for itself, and stores nothing.
Peek(g, n, now) ==
  LET newTAT == U64((IF now > g.tat THEN U64(now) ELSE U64(g.tat)) + Inc(g, n))
      ahead == newTAT - U64(now)
  IN IF n <= 0 THEN Refuse(g, 0)
     ELSE IF g.interval = 0 \/ g.limit = 0 \/ n > g.burst THEN Impossible(g)
     ELSE IF newTAT < U64(now) \/ ahead <= g.limit THEN Accept(g)
     ELSE Refuse(g, I64(ahead - g.limit))

\* Mutant of Restore: the floor is taken for a ceiling.
RestoreToFloor(g, n, now) ==
  IF n <= 0 \/ g.interval = 0 THEN g
  ELSE [g EXCEPT !.tat = -MaxI(-(@ - I64(Inc(g, n))), -(now - I64(g.limit)))]

\* Mutant of Restore: one request is given back, however many were taken.
RestoreOne(g, n, now) ==
  IF n <= 0 \/ g.interval = 0 THEN g
  ELSE [g EXCEPT !.tat = MaxI(@ - g.interval, now - I64(g.limit))]

Restore(g, n, now) ==
  IF n <= 0 \/ g.interval = 0 THEN g
  ELSE [g EXCEPT !.tat = MaxI(@ - I64(Inc(g, n)), now - I64(g.limit))]

=============================================================================
