---------------------------- MODULE LeakyBucket ----------------------------
(***************************************************************************)
(* What doc.go:5 promises of GCRA, "equivalent to a leaky bucket", said    *)
(* without arrival times: a bucket holds what was poured in, drains one    *)
(* unit of time for each tick of the clock, and overflows never.           *)
(***************************************************************************)
EXTENDS Integers

VARIABLES
  cost,       \* what one request adds to the level, in time
  capacity,   \* the level nothing is poured above
  level,
  held,       \* requests let in and not taken back
  clock

vars == <<cost, capacity, level, held, clock>>

Drained(by) == IF level > by THEN level - by ELSE 0

Init ==
  /\ cost \in Nat /\ capacity \in Nat /\ clock \in Nat
  /\ level = 0
  /\ held = 0

\* n requests are let in, if they fit.
Pour(n) ==
  /\ level + n * cost <= capacity
  /\ level' = level + n * cost
  /\ held' = held + n
  /\ UNCHANGED <<cost, capacity, clock>>

\* n requests let in before are taken back: of what they added, what has not
\* drained yet.
TakeBack(n) ==
  /\ n <= held
  /\ level' = Drained(n * cost)
  /\ held' = held - n
  /\ UNCHANGED <<cost, capacity, clock>>

Drain ==
  /\ clock' > clock
  /\ level' = Drained(clock' - clock)
  /\ UNCHANGED <<cost, capacity, held>>

\* A clock set back fills the bucket again, with no more than it would have
\* drained in that time.
Refill ==
  /\ clock' < clock
  /\ level' \in level..(level + (clock - clock'))
  /\ UNCHANGED <<cost, capacity, held>>

Next ==
  \/ \E n \in 1..capacity : Pour(n) \/ TakeBack(n)
  \/ Drain
  \/ Refill

Spec == Init /\ [][Next]_vars

=============================================================================
