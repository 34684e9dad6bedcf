---------------------------- MODULE EngineProofs ----------------------------
(***************************************************************************)
(* Theorems about Engine: its type invariant with the mutual exclusion of  *)
(* the key locks, what a key lets through when calls, cancellations,       *)
(* resets and sweeps overlap, and when a sweep costs nothing.              *)
(***************************************************************************)
EXTENDS Engine, GateProofs

-----------------------------------------------------------------------------
(* Where the goroutines are.                                               *)

\* What a goroutine remembers at each point.
LEMMA LocalShape ==
  ASSUME NEW l \in Locals
  PROVE  /\ l.at = "allow" => l.key \in Keys /\ l.n \in Ns /\ l.now \in Nat
         /\ l.at = "allowing" =>
              l.key \in Keys /\ l.n \in Ns /\ l.now \in Nat /\ l.st \in LimiterStates
         /\ l.at = "peek" => l.key \in Keys /\ l.now \in Nat
         /\ l.at = "reset" => l.key \in Keys
         /\ l.at \in {"cancel", "restore"} =>
              l.id \in Nat /\ [l EXCEPT !.at = "restore"] \in Locals
              /\ [l EXCEPT !.at = "restore"].id = l.id
              /\ [l EXCEPT !.at = "restore"].at = "restore"
         /\ l.at = "sweep" => l.now \in Nat /\ l.shards \in SUBSET Shards
  BY DEF Locals, Idle

\* The locks and the goroutines that hold them.
Locks ==
  \A g \in Goroutines, s \in Shards :
    holder[s] = g <=> local[g].at = "allowing" /\ Shard[local[g].key] = s

\* Beside the types: what a goroutine remembers of the clock is past, what it
\* remembers of a reservation was made, and no entry is malformed.
Remembered(l) ==
  /\ l.at \in {"allow", "allowing", "peek", "sweep"} => l.now <= clock
  /\ l.at \in {"cancel", "restore"} => l.id \in 1..Len(grants)
  /\ l.at = "allowing" => l.st \in WellFormed

Memory == \A g \in Goroutines : Remembered(local[g])

Counts ==
  /\ net \in [Keys -> Int] /\ amnesties \in [Keys -> Nat]
  /\ waited \in [Keys -> Nat] /\ late \in [Keys -> Nat]
  /\ known \subseteq Keys /\ resets \in Nat

WellStored == \A k \in Keys : items[k] # NIL => items[k].st \in WellFormed

TInv == TypeOK /\ Memory /\ Counts /\ WellStored

LEMMA FormedIsState ==
  WellFormed \subseteq LimiterStates
  BY DEF WellFormed, LimiterStates, Buckets, Logs, Counters

LEMMA ShardOf ==
  ASSUME NEW k \in Keys
  PROVE  Shard[k] \in Shards
  BY BoundsAssumption DEF Shards

\* A step that neither takes nor gives back a lock.
LEMMA LocksStay ==
  ASSUME TypeOK, NEW g \in Goroutines, NEW l,
         local' = [local EXCEPT ![g] = l], holder' = holder,
         local[g].at # "allowing", l.at # "allowing"
  PROVE  Locks'
  BY DEF TypeOK, Locks

LEMMA LocalsStay ==
  ASSUME TypeOK, Memory, NEW g \in Goroutines, NEW l \in Locals, Remembered(l)',
         local' = [local EXCEPT ![g] = l], clock' = clock, Len(grants') = Len(grants)
  PROVE  local' \in [Goroutines -> Locals] /\ Memory'
  <1>1. local \in [Goroutines -> Locals]
    BY DEF TypeOK
  <1>2. local' \in [Goroutines -> Locals]
    BY <1>1
  <1>3. ASSUME NEW h \in Goroutines
        PROVE  Remembered(local[h])'
    <2>1. CASE h = g
      BY <1>1, <2>1
    <2>2. CASE h # g
      <3>1. local'[h] = local[h] /\ Remembered(local[h])
        BY <1>1, <2>2 DEF Memory
      <3> QED
        BY <3>1 DEF Remembered
    <2> QED
      BY <2>1, <2>2
  <1> QED
    BY <1>2, <1>3 DEF Memory

\* A call begins: only the goroutine moves.
LEMMA CallTyped ==
  ASSUME TInv, NEW g \in Goroutines, local[g] = Idle, NEW l \in Locals,
         l.at # "allowing", Remembered(l),
         local' = [local EXCEPT ![g] = l], resets' \in Nat,
         UNCHANGED <<spec, clock, holder, items, grants, net, amnesties, waited, late, known>>
  PROVE  TInv'
  <1>1. local[g].at # "allowing"
    BY DEF Idle
  <1>2. Locks'
    BY <1>1, LocksStay DEF TInv
  <1>3. local' \in [Goroutines -> Locals] /\ Memory'
    <2>1. Remembered(l)'
      BY DEF Remembered
    <2> QED
      BY <2>1, LocalsStay DEF TInv
  <1> QED
    BY <1>2, <1>3 DEF TInv, TypeOK, Locks, Counts, WellStored

LEMMA BeginTyped ==
  ASSUME TInv, NEW g \in Goroutines, Call(g)
  PROVE  TInv'
  <1> USE DEF Remembered
  <1>1. clock \in Nat /\ resets \in Nat /\ Ns \subseteq Nat \ {0} /\ IdleTTL \in Nat
    BY BoundsAssumption DEF TInv, TypeOK, Counts
  <1>2. ASSUME NEW k \in Keys, NEW n \in Ns, CallAllow(g, k, n)
        PROVE  TInv'
    <2> DEFINE l == [at |-> "allow", key |-> k, n |-> n, now |-> clock]
    <2>1. l \in Locals /\ l.at # "allowing" /\ Remembered(l)
      BY <1>1 DEF Locals
    <2>2. /\ local[g] = Idle /\ local' = [local EXCEPT ![g] = l] /\ resets' \in Nat
          /\ UNCHANGED <<spec, clock, holder, items, grants, net, amnesties, waited, late, known>>
      BY <1>1, <1>2 DEF CallAllow, Go
    <2> HIDE DEF l
    <2> QED
      BY <2>1, <2>2, CallTyped
  <1>3. ASSUME NEW k \in Keys, CallPeek(g, k)
        PROVE  TInv'
    <2> DEFINE l == [at |-> "peek", key |-> k, now |-> clock]
    <2>1. l \in Locals /\ l.at # "allowing" /\ Remembered(l)
      BY <1>1 DEF Locals
    <2>2. /\ local[g] = Idle /\ local' = [local EXCEPT ![g] = l] /\ resets' \in Nat
          /\ UNCHANGED <<spec, clock, holder, items, grants, net, amnesties, waited, late, known>>
      BY <1>1, <1>3 DEF CallPeek, Go
    <2> HIDE DEF l
    <2> QED
      BY <2>1, <2>2, CallTyped
  <1>4. ASSUME NEW k \in Keys, CallReset(g, k)
        PROVE  TInv'
    <2> DEFINE l == [at |-> "reset", key |-> k]
    <2>1. l \in Locals /\ l.at # "allowing" /\ Remembered(l)
      BY <1>1 DEF Locals
    <2>2. /\ local[g] = Idle /\ local' = [local EXCEPT ![g] = l] /\ resets' \in Nat
          /\ UNCHANGED <<spec, clock, holder, items, grants, net, amnesties, waited, late, known>>
      BY <1>1, <1>4 DEF CallReset, Go
    <2> HIDE DEF l
    <2> QED
      BY <2>1, <2>2, CallTyped
  <1>5. ASSUME NEW i \in 1..Len(grants), CallCancel(g, i)
        PROVE  TInv'
    <2> DEFINE l == [at |-> "cancel", id |-> i]
    <2>1. l \in Locals /\ l.at # "allowing" /\ Remembered(l)
      BY <1>1 DEF Locals
    <2>2. /\ local[g] = Idle /\ local' = [local EXCEPT ![g] = l] /\ resets' \in Nat
          /\ UNCHANGED <<spec, clock, holder, items, grants, net, amnesties, waited, late, known>>
      BY <1>1, <1>5 DEF CallCancel, Go
    <2> HIDE DEF l
    <2> QED
      BY <2>1, <2>2, CallTyped
  <1>6. CASE CallSweep(g)
    <2> DEFINE l == [at |-> "sweep", now |-> clock, shards |-> Shards]
    <2>1. l \in Locals /\ l.at # "allowing" /\ Remembered(l)
      BY <1>1 DEF Locals
    <2>2. /\ local[g] = Idle /\ local' = [local EXCEPT ![g] = l] /\ resets' \in Nat
          /\ UNCHANGED <<spec, clock, holder, items, grants, net, amnesties, waited, late, known>>
      BY <1>1, <1>6 DEF CallSweep, Go
    <2> HIDE DEF l
    <2> QED
      BY <2>1, <2>2, CallTyped
  <1> QED
    BY <1>2, <1>3, <1>4, <1>5, <1>6 DEF Call

\* What Drop leaves in the store was there.
LEMMA DropTyped ==
  ASSUME TInv, NEW ks, Drop(ks)
  PROVE  /\ items' \in [Keys -> Entries \cup {NIL}]
         /\ amnesties' \in [Keys -> Nat]
         /\ \A k \in Keys : items'[k] # NIL => items'[k] = items[k] /\ k \notin ks
  BY DEF TInv, TypeOK, Counts, Drop

LEMMA EnterTyped ==
  ASSUME TInv, NEW g \in Goroutines, Enter(g)
  PROVE  TInv'
  <1> DEFINE l == local[g]
             k == l.key
             e == GetOrCreate(k, l.now)
  <1>1. /\ l \in Locals /\ l.at = "allow" /\ l.now <= clock /\ clock \in Nat
        /\ holder \in [Shards -> Goroutines \cup {NIL}]
    BY DEF TInv, TypeOK, Memory, Remembered, Enter
  <1>2. k \in Keys /\ l.n \in Ns /\ l.now \in Nat
    BY <1>1, LocalShape
  <1>3. Shard[k] \in Shards
    BY <1>2, ShardOf
  <1>4. e \in Entries /\ e.st \in WellFormed
    <2>1. CASE items[k] # NIL
      BY <1>2, <2>1 DEF GetOrCreate, TInv, TypeOK, WellStored
    <2>2. CASE items[k] = NIL
      <3>1. spec[k] \in Specs
        BY <1>2 DEF TInv, TypeOK
      <3>2. NewLimiterState(spec[k], l.now) \in WellFormed
        BY <1>2, <3>1, NewTyped, SpecsAssumption
      <3>3. e = [st |-> NewLimiterState(spec[k], l.now), updated |-> clock, newest |-> l.now]
        BY <2>2 DEF GetOrCreate, NewEntry
      <3> QED
        BY <1>1, <1>2, <3>2, <3>3, FormedIsState DEF Entries
    <2> QED
      BY <2>1, <2>2
  <1>0. PICK m : m = [at |-> "allowing", key |-> k, n |-> l.n, now |-> l.now, st |-> e.st]
    OBVIOUS
  <1>5. /\ holder[Shard[k]] = NIL /\ holder' = [holder EXCEPT ![Shard[k]] = g]
        /\ items' = [items EXCEPT ![k] = e]
        /\ local' = [local EXCEPT ![g] = m]
        /\ late' = [late EXCEPT ![k] = IF items[k] = NIL /\ k \in known
                                         THEN @ + (clock - l.now) ELSE @]
        /\ known' = known \cup {k}
        /\ UNCHANGED <<spec, clock, grants, net, amnesties, waited, resets>>
    BY <1>0 DEF Enter, Free, Lock, Go
  <1>6. m \in Locals /\ Remembered(m)' /\ m.at = "allowing" /\ m.key = k
    <2>1. e.st \in LimiterStates
      BY <1>4, FormedIsState
    <2>2. m \in Locals /\ m.at = "allowing" /\ m.key = k
      BY <1>0, <1>2, <2>1 DEF Locals
    <2> QED
      BY <1>0, <1>1, <1>4, <1>5, <2>2 DEF Remembered
  <1> HIDE DEF e
  <1>7. local' \in [Goroutines -> Locals] /\ Memory'
    BY <1>5, <1>6, LocalsStay DEF TInv
  <1>8. Locks'
    <2> SUFFICES ASSUME NEW h \in Goroutines, NEW s \in Shards
                 PROVE  holder'[s] = h <=> local'[h].at = "allowing" /\ Shard[local'[h].key] = s
      BY DEF Locks
    <2>1. holder[s] = h <=> local[h].at = "allowing" /\ Shard[local[h].key] = s
      BY DEF TInv, TypeOK
    <2>2. local \in [Goroutines -> Locals]
      BY DEF TInv, TypeOK
    <2>3. CASE h = g
      <3>1. local'[h] = m
        BY <1>5, <2>2, <2>3
      <3>2. holder[s] # g
        BY <1>1, <2>1, <2>3
      <3> QED
        BY <1>1, <1>3, <1>5, <1>6, <2>3, <3>1, <3>2
    <2>4. CASE h # g
      <3>1. local'[h] = local[h]
        BY <1>5, <2>2, <2>4
      <3>2. holder[Shard[k]] # h
        BY <1>5, BoundsAssumption
      <3> QED
        BY <1>1, <1>3, <1>5, <2>1, <2>4, <3>1, <3>2
    <2> QED
      BY <2>3, <2>4
  <1>9. items' \in [Keys -> Entries \cup {NIL}] /\ WellStored'
    <2>1. items \in [Keys -> Entries \cup {NIL}]
      BY DEF TInv, TypeOK
    <2>2. \A j \in Keys : items'[j] = IF j = k THEN e ELSE items[j]
      BY <1>5, <2>1
    <2>3. items' \in [Keys -> Entries \cup {NIL}]
      BY <1>4, <1>5, <2>1
    <2> QED
      BY <1>4, <2>2, <2>3 DEF TInv, WellStored
  <1>10. Counts'
    <2>1. clock - l.now \in Nat
      BY <1>1, <1>2
    <2>2. late \in [Keys -> Nat] /\ known \subseteq Keys
      BY DEF TInv, Counts
    <2>3. late' \in [Keys -> Nat]
      BY <1>2, <1>5, <2>1, <2>2
    <2> QED
      BY <1>2, <1>5, <2>2, <2>3 DEF TInv, Counts
  <1>11. /\ spec' \in [Keys -> Specs] /\ clock' \in Nat /\ grants' \in Seq(Grants)
         /\ holder' \in [Shards -> Goroutines \cup {NIL}]
    BY <1>1, <1>5 DEF TInv, TypeOK
  <1> QED
    BY <1>7, <1>8, <1>9, <1>10, <1>11 DEF TInv, TypeOK, Locks

LEMMA ItemTyped ==
  ASSUME TInv, NEW k \in Keys, NEW e \in Entries \cup {NIL},
         e # NIL => e.st \in WellFormed, items' = [items EXCEPT ![k] = e]
  PROVE  items' \in [Keys -> Entries \cup {NIL}] /\ WellStored'
  <1>1. items \in [Keys -> Entries \cup {NIL}]
    BY DEF TInv, TypeOK
  <1>2. \A j \in Keys : items'[j] = IF j = k THEN e ELSE items[j]
    BY <1>1
  <1>3. items' \in [Keys -> Entries \cup {NIL}]
    BY <1>1
  <1> QED
    BY <1>2, <1>3 DEF TInv, WellStored

LEMMA EntryTyped ==
  ASSUME NEW e \in Entries, NEW u \in WellFormed, NEW t \in Nat
  PROVE  /\ [e EXCEPT !.st = u] \in Entries /\ [e EXCEPT !.st = u].st = u
         /\ Touch([e EXCEPT !.st = u], t) \in Entries
         /\ Touch([e EXCEPT !.st = u], t).st = u
  BY FormedIsState DEF Entries, Touch, MaxI

LEMMA IdleTyped == Idle \in Locals /\ Idle.at = "idle" /\ Remembered(Idle)'
  BY DEF Locals, Idle, Remembered

LEMMA DecideTyped ==
  ASSUME TInv, NEW g \in Goroutines, Decide(g)
  PROVE  TInv'
  <1> DEFINE l == local[g]
             k == l.key
             r == Allow(l.st, l.n, l.now)
             e == IF items[k] = NIL THEN NIL
                  ELSE IF r.out = "panic" THEN [items[k] EXCEPT !.st = r.st]
                  ELSE Touch([items[k] EXCEPT !.st = r.st], l.now)
             grant == [key |-> k, n |-> l.n, at |-> l.now, once |-> FALSE, back |-> 0]
  <1>1. /\ l \in Locals /\ l.at = "allowing" /\ l.now <= clock /\ clock \in Nat
        /\ l.st \in WellFormed /\ local \in [Goroutines -> Locals]
        /\ holder \in [Shards -> Goroutines \cup {NIL}]
        /\ items \in [Keys -> Entries \cup {NIL}] /\ grants \in Seq(Grants)
    BY DEF TInv, TypeOK, Memory, Remembered, Decide
  <1>2. k \in Keys /\ l.n \in Ns /\ l.n \in Nat /\ l.now \in Nat /\ Shard[k] \in Shards
    BY <1>1, LocalShape, ShardOf, BoundsAssumption
  <1>3. r.st \in WellFormed
    BY <1>1, <1>2, StateTyped
  <1>4. /\ items' = [items EXCEPT ![k] = e]
        /\ \/ grants' = Append(grants, grant) /\ net' = [net EXCEPT ![k] = @ + l.n]
           \/ UNCHANGED <<grants, net>>
        /\ waited' = [waited EXCEPT ![k] = @ + (clock - l.now)]
        /\ holder' = [holder EXCEPT ![Shard[k]] = NIL]
        /\ local' = [local EXCEPT ![g] = Idle]
        /\ UNCHANGED <<spec, clock, amnesties, late, known, resets>>
    BY DEF Decide, Unlock, Go
  <1>5. e \in Entries \cup {NIL} /\ (e # NIL => e.st \in WellFormed)
    <2> HIDE DEF r
    <2>1. CASE items[k] = NIL
      BY <2>1
    <2>2. CASE items[k] # NIL
      <3>1. items[k] \in Entries
        BY <1>1, <1>2, <2>2
      <3> QED
        BY <1>2, <1>3, <2>2, <3>1, EntryTyped
    <2> QED
      BY <2>1, <2>2
  <1> HIDE DEF r, e
  <1>6. items' \in [Keys -> Entries \cup {NIL}] /\ WellStored'
    BY <1>2, <1>4, <1>5, ItemTyped
  <1>7. grants' \in Seq(Grants) /\ Len(grants') >= Len(grants) /\ Len(grants) \in Nat
        /\ Len(grants') \in Nat
    <2>1. grant \in Grants
      BY <1>2 DEF Grants
    <2> HIDE DEF grant
    <2>2. CASE grants' = Append(grants, grant)
      BY <1>1, <2>1, <2>2
    <2>3. CASE grants' = grants
      BY <1>1, <2>3
    <2> QED
      BY <1>4, <2>2, <2>3
  <1>8. local' \in [Goroutines -> Locals] /\ Memory'
    <2>1. local' \in [Goroutines -> Locals]
      BY <1>1, <1>4, IdleTyped
    <2>2. ASSUME NEW h \in Goroutines
          PROVE  Remembered(local[h])'
      <3>1. CASE h = g
        <4>1. local'[h] = Idle
          BY <1>1, <1>4, <3>1
        <4> QED
          BY <4>1, IdleTyped DEF Remembered
      <3>2. CASE h # g
        <4>1. local'[h] = local[h] /\ Remembered(local[h]) /\ clock' = clock
          BY <1>1, <1>4, <3>2 DEF TInv, Memory
        <4> QED
          BY <1>7, <4>1 DEF Remembered
      <3> QED
        BY <3>1, <3>2
    <2> QED
      BY <2>1, <2>2 DEF Memory
  <1>9. Locks'
    <2> SUFFICES ASSUME NEW h \in Goroutines, NEW s \in Shards
                 PROVE  holder'[s] = h <=> local'[h].at = "allowing" /\ Shard[local'[h].key] = s
      BY DEF Locks
    <2>1. holder[s] = h <=> local[h].at = "allowing" /\ Shard[local[h].key] = s
      BY DEF TInv, TypeOK
    <2>2. holder[Shard[k]] = g
      BY <1>1, <1>2 DEF TInv, TypeOK
    <2>3. holder'[s] = IF s = Shard[k] THEN NIL ELSE holder[s]
      BY <1>1, <1>4
    <2>4. h # NIL
      BY BoundsAssumption
    <2>5. CASE h = g
      <3>1. local'[h].at # "allowing"
        BY <1>1, <1>4, <2>5, IdleTyped
      <3>2. holder[s] = h => s = Shard[k]
        BY <2>1, <2>5
      <3> QED
        BY <2>3, <2>4, <3>1, <3>2
    <2>6. CASE h # g
      <3>1. local'[h] = local[h]
        BY <1>1, <1>4, <2>6
      <3> QED
        BY <2>1, <2>2, <2>3, <2>4, <2>6, <3>1
    <2> QED
      BY <2>5, <2>6
  <1>10. Counts'
    <2>1. /\ net \in [Keys -> Int] /\ amnesties \in [Keys -> Nat]
          /\ waited \in [Keys -> Nat] /\ late \in [Keys -> Nat]
          /\ known \subseteq Keys /\ resets \in Nat
      BY DEF TInv, Counts
    <2>2. net' \in [Keys -> Int]
      BY SMTT(30), <1>2, <1>4, <2>1
    <2>3. clock - l.now \in Nat
      BY <1>1, <1>2
    <2>4. waited' \in [Keys -> Nat]
      BY <1>2, <1>4, <2>1, <2>3
    <2> QED
      BY <1>4, <2>1, <2>2, <2>4 DEF Counts
  <1>11. /\ spec' \in [Keys -> Specs] /\ clock' \in Nat
         /\ holder' \in [Shards -> Goroutines \cup {NIL}]
    <2>1. spec' \in [Keys -> Specs] /\ clock' \in Nat
      BY <1>1, <1>4 DEF TInv, TypeOK
    <2> QED
      BY <1>1, <1>2, <1>4, <2>1
  <1> QED
    BY <1>6, <1>7, <1>8, <1>9, <1>10, <1>11 DEF TInv, TypeOK, Locks

LEMMA PeekTyped ==
  ASSUME TInv, NEW g \in Goroutines, PeekKey(g)
  PROVE  TInv'
  <1> DEFINE l == local[g]
             k == l.key
             u == Peek(items[k].st, 1, l.now).st
             e == IF items[k] = NIL THEN NIL ELSE [items[k] EXCEPT !.st = u]
  <1>1. /\ l \in Locals /\ l.at = "peek" /\ l.now <= clock /\ clock \in Nat
        /\ items \in [Keys -> Entries \cup {NIL}]
    BY DEF TInv, TypeOK, Memory, Remembered, PeekKey
  <1>2. k \in Keys /\ l.now \in Nat
    BY <1>1, LocalShape
  <1>3. /\ items' = [items EXCEPT ![k] =
                       IF @ = NIL THEN NIL ELSE [@ EXCEPT !.st = u]]
        /\ waited' = [waited EXCEPT ![k] = @ + (clock - l.now)]
        /\ local' = [local EXCEPT ![g] = Idle]
        /\ UNCHANGED <<spec, clock, holder, grants, net, amnesties, late, known, resets>>
    BY DEF PeekKey, Go
  <1>4. items' = [items EXCEPT ![k] = e]
    BY <1>3
  <1>5. e \in Entries \cup {NIL} /\ (e # NIL => e.st \in WellFormed)
    <2>1. CASE items[k] = NIL
      BY <2>1
    <2>2. CASE items[k] # NIL
      <3>1. items[k] \in Entries /\ items[k].st \in WellFormed
        BY <1>1, <1>2, <2>2 DEF TInv, WellStored
      <3>2. u \in WellFormed
        BY <1>2, <3>1, StateTyped
      <3> HIDE DEF u
      <3> QED
        BY <1>2, <2>2, <3>1, <3>2, EntryTyped
    <2> QED
      BY <2>1, <2>2
  <1> HIDE DEF e
  <1>6. items' \in [Keys -> Entries \cup {NIL}] /\ WellStored'
    BY <1>2, <1>4, <1>5, ItemTyped
  <1>7. local' \in [Goroutines -> Locals] /\ Memory'
    BY <1>3, IdleTyped, LocalsStay DEF TInv
  <1>8. Locks'
    BY <1>1, <1>3, IdleTyped, LocksStay DEF TInv
  <1>9. Counts'
    <2>1. waited \in [Keys -> Nat] /\ clock - l.now \in Nat
      BY <1>1, <1>2 DEF TInv, Counts
    <2>2. waited' \in [Keys -> Nat]
      BY <1>2, <1>3, <2>1
    <2> QED
      BY <1>3, <2>2 DEF TInv, Counts
  <1> QED
    BY <1>3, <1>6, <1>7, <1>8, <1>9 DEF TInv, TypeOK, Locks

LEMMA ResetTyped ==
  ASSUME TInv, NEW g \in Goroutines, ResetKey(g)
  PROVE  TInv'
  <1>1. /\ local[g].at = "reset" /\ Drop({local[g].key})
        /\ local' = [local EXCEPT ![g] = Idle]
        /\ UNCHANGED <<spec, clock, holder, grants, net, waited, late, known, resets>>
    BY DEF ResetKey, Go
  <1>2. /\ items' \in [Keys -> Entries \cup {NIL}] /\ amnesties' \in [Keys -> Nat]
        /\ WellStored'
    BY <1>1, DropTyped DEF TInv, WellStored
  <1>3. local' \in [Goroutines -> Locals] /\ Memory'
    BY <1>1, IdleTyped, LocalsStay DEF TInv
  <1>4. Locks'
    BY <1>1, IdleTyped, LocksStay DEF TInv
  <1> QED
    BY <1>1, <1>2, <1>3, <1>4 DEF TInv, TypeOK, Locks, Counts

LEMMA SweepTyped ==
  ASSUME TInv, NEW g \in Goroutines, SweepShard(g)
  PROVE  TInv'
  <1> DEFINE l == local[g]
  <1>1. PICK s : l.at = "sweep"
          /\ local' = [local EXCEPT ![g] = IF l.shards = {s} THEN Idle
                                           ELSE [l EXCEPT !.shards = @ \ {s}]]
    BY DEF SweepShard, Go
  <1>2. PICK ks : Drop(ks)
    BY DEF SweepShard
  <1>3. UNCHANGED <<spec, clock, holder, grants, net, waited, late, known, resets>>
    BY DEF SweepShard
  <1>4. PICK m : m = IF l.shards = {s} THEN Idle ELSE [l EXCEPT !.shards = @ \ {s}]
    OBVIOUS
  <1>5. m \in Locals /\ m.at \in {"idle", "sweep"}
    <2>1. l \in Locals
      BY DEF TInv, TypeOK
    <2>2. [l EXCEPT !.shards = @ \ {s}] \in Locals /\ [l EXCEPT !.shards = @ \ {s}].at = "sweep"
      BY <1>1, <2>1 DEF Locals, Idle
    <2> QED
      BY <1>4, <2>2, IdleTyped
  <1>6. Remembered(m)'
    <2>1. l \in Locals /\ l.now <= clock
      BY <1>1 DEF TInv, TypeOK, Memory, Remembered
    <2>2. [l EXCEPT !.shards = @ \ {s}].now = l.now
      BY <1>1, <2>1 DEF Locals, Idle
    <2>3. m.at = "sweep" => m.now <= clock
      BY <1>4, <2>1, <2>2, IdleTyped
    <2> QED
      BY <1>3, <1>5, <2>3 DEF Remembered
  <1>7. /\ items' \in [Keys -> Entries \cup {NIL}] /\ amnesties' \in [Keys -> Nat]
        /\ WellStored'
    BY <1>2, DropTyped DEF TInv, WellStored
  <1>8. local' \in [Goroutines -> Locals] /\ Memory'
    BY <1>1, <1>3, <1>4, <1>5, <1>6, LocalsStay DEF TInv
  <1>9. Locks'
    BY <1>1, <1>3, <1>4, <1>5, LocksStay DEF TInv
  <1> QED
    BY <1>3, <1>7, <1>8, <1>9 DEF TInv, TypeOK, Locks, Counts

LEMMA SetOnceTyped ==
  ASSUME TInv, NEW g \in Goroutines, SetOnce(g)
  PROVE  TInv'
  <1> DEFINE l == local[g]
  <1>1. PICK m : m = [l EXCEPT !.at = "restore"]
    OBVIOUS
  <1>2. /\ l.at = "cancel" /\ local' = [local EXCEPT ![g] = m]
        /\ grants' = [grants EXCEPT ![l.id].once = TRUE]
        /\ UNCHANGED <<spec, clock, holder, items, net, amnesties, waited, late, known, resets>>
    BY <1>1 DEF SetOnce, Go
  <1>3. l \in Locals /\ l.id \in 1..Len(grants) /\ grants \in Seq(Grants)
    BY <1>2 DEF TInv, TypeOK, Memory, Remembered
  <1>4. m \in Locals /\ m.at = "restore" /\ m.id = l.id
    BY <1>1, <1>2, <1>3, LocalShape
  <1>5. grants' \in Seq(Grants) /\ Len(grants') = Len(grants)
    <2>1. grants[l.id] \in Grants
      BY <1>3
    <2>2. [grants[l.id] EXCEPT !.once = TRUE] \in Grants
      BY <2>1 DEF Grants
    <2> QED
      BY <1>2, <1>3, <2>2
  <1>6. Remembered(m)'
    BY <1>3, <1>4, <1>5 DEF Remembered
  <1>7. local' \in [Goroutines -> Locals] /\ Memory'
    BY <1>2, <1>4, <1>5, <1>6, LocalsStay DEF TInv
  <1>8. Locks'
    BY <1>2, <1>4, LocksStay DEF TInv
  <1> QED
    BY <1>2, <1>5, <1>7, <1>8 DEF TInv, TypeOK, Locks, Counts, WellStored

LEMMA CancelTyped ==
  ASSUME TInv, NEW g \in Goroutines, RestoreKey(g)
  PROVE  TInv'
  <1> DEFINE i == local[g].id
             k == grants[i].key
             n == grants[i].n
             u == Restore(items[k].st, n, clock)
             e == [items[k] EXCEPT !.st = u]
  <1>1. /\ local[g].at = "restore" /\ local' = [local EXCEPT ![g] = Idle]
        /\ UNCHANGED <<spec, clock, holder, amnesties, waited, late, known, resets>>
        /\ \/ UNCHANGED <<items, grants, net>>
           \/ /\ items[k] # NIL /\ items' = [items EXCEPT ![k].st = u]
              /\ grants' = [grants EXCEPT ![i].back = @ + 1]
              /\ net' = [net EXCEPT ![k] = @ - n]
    BY DEF RestoreKey, Go
  <1>2. /\ i \in 1..Len(grants) /\ grants \in Seq(Grants) /\ clock \in Nat
        /\ items \in [Keys -> Entries \cup {NIL}] /\ net \in [Keys -> Int]
    BY <1>1 DEF TInv, TypeOK, Counts, Memory, Remembered
  <1>3. grants[i] \in Grants
    BY <1>2
  <1>4. k \in Keys /\ n \in Nat /\ grants[i].back \in Nat
    BY <1>3, BoundsAssumption DEF Grants
  <1>5. Locks'
    BY <1>1, IdleTyped, LocksStay DEF TInv
  <1>6. CASE UNCHANGED <<items, grants, net>>
    <2>1. local' \in [Goroutines -> Locals] /\ Memory'
      BY <1>1, <1>6, IdleTyped, LocalsStay DEF TInv
    <2> QED
      BY <1>1, <1>5, <1>6, <2>1 DEF TInv, TypeOK, Locks, Counts, WellStored
  <1>7. CASE /\ items[k] # NIL /\ items' = [items EXCEPT ![k].st = u]
             /\ grants' = [grants EXCEPT ![i].back = @ + 1]
             /\ net' = [net EXCEPT ![k] = @ - n]
    <2>1. u \in WellFormed
      BY <1>2, <1>4, <1>7, StateTyped DEF TInv, WellStored
    <2> HIDE DEF u
    <2>2. items' = [items EXCEPT ![k] = e]
      BY <1>2, <1>4, <1>7
    <2>3. e \in Entries /\ e.st = u
      BY <1>2, <1>4, <1>7, <2>1, EntryTyped
    <2> HIDE DEF e
    <2>4. items' \in [Keys -> Entries \cup {NIL}] /\ WellStored'
      BY <1>4, <2>1, <2>2, <2>3, ItemTyped
    <2>5. grants' \in Seq(Grants) /\ Len(grants') = Len(grants)
      <3>1. [grants[i] EXCEPT !.back = @ + 1] \in Grants
        BY <1>3, <1>4 DEF Grants
      <3> QED
        BY <1>2, <1>7, <3>1
    <2>6. local' \in [Goroutines -> Locals] /\ Memory'
      BY <1>1, <2>5, IdleTyped, LocalsStay DEF TInv
    <2>7. net' \in [Keys -> Int]
      <3>1. PICK j \in Keys, m \in Nat : j = k /\ m = n
        BY <1>4
      <3>2. net' = [net EXCEPT ![j] = @ - m]
        BY <1>7, <3>1
      <3> QED
        BY <1>2, <3>2
    <2> QED
      BY <1>1, <1>5, <2>4, <2>5, <2>6, <2>7 DEF TInv, TypeOK, Locks, Counts
  <1> QED
    BY <1>1, <1>6, <1>7

LEMMA TickTyped ==
  ASSUME TInv, Tick
  PROVE  TInv'
  <1>1. /\ clock \in Nat /\ clock' = clock + 1
        /\ UNCHANGED <<spec, holder, items, grants, local,
                       net, amnesties, waited, late, known, resets>>
    BY DEF TInv, TypeOK, Tick
  <1>2. Memory'
    <2> SUFFICES ASSUME NEW g \in Goroutines
                 PROVE  Remembered(local[g])'
      BY DEF Memory
    <2>1. Remembered(local[g]) /\ local[g] \in Locals
      BY DEF TInv, TypeOK, Memory
    <2>2. local[g].at \in {"allow", "allowing", "peek", "sweep"} => local[g].now \in Nat
      BY <2>1, LocalShape
    <2> QED
      BY <1>1, <2>1, <2>2 DEF Remembered
  <1> QED
    BY <1>1, <1>2 DEF TInv, TypeOK, Counts, WellStored

LEMMA InitTyped == Init => TInv
  <1> SUFFICES ASSUME Init PROVE TInv
    OBVIOUS
  <1>1. TypeOK
    <2>1. holder \in [Shards -> Goroutines \cup {NIL}] /\ items \in [Keys -> Entries \cup {NIL}]
          /\ grants \in Seq(Grants) /\ clock \in Nat /\ spec \in [Keys -> Specs]
      BY DEF Init
    <2>2. local \in [Goroutines -> Locals]
      BY IdleTyped DEF Init
    <2>3. ASSUME NEW g \in Goroutines, NEW s \in Shards
          PROVE  holder[s] = g <=> local[g].at = "allowing" /\ Shard[local[g].key] = s
      <3>1. holder[s] = NIL /\ local[g] = Idle /\ g # NIL
        BY BoundsAssumption DEF Init
      <3> QED
        BY <3>1, IdleTyped
    <2> QED
      BY <2>1, <2>2, <2>3 DEF TypeOK
  <1>2. Memory
    BY DEF Init, Memory, Remembered, Idle
  <1>3. Counts /\ WellStored
    BY DEF Init, Counts, WellStored
  <1> QED
    BY <1>1, <1>2, <1>3 DEF TInv

LEMMA NextTyped == TInv /\ [Next]_vars => TInv'
  <1> SUFFICES ASSUME TInv, [Next]_vars PROVE TInv'
    OBVIOUS
  <1>1. ASSUME NEW g \in Goroutines, Call(g) PROVE TInv'
    BY <1>1, BeginTyped
  <1>2. ASSUME NEW g \in Goroutines, Acquire(g) PROVE TInv'
    BY <1>2, EnterTyped, PeekTyped, ResetTyped, CancelTyped DEF Acquire
  <1>3. ASSUME NEW g \in Goroutines, Continue(g) PROVE TInv'
    BY <1>3, DecideTyped, SetOnceTyped, SweepTyped DEF Continue
  <1>4. CASE Tick
    BY <1>4, TickTyped
  <1>5. CASE UNCHANGED vars
    BY <1>5 DEF vars, TInv, TypeOK, Memory, Remembered, Counts, WellStored
  <1> QED
    BY <1>1, <1>2, <1>3, <1>4, <1>5 DEF Next

\* Types, locks and what the goroutines remember (allow.go:131): a time that has
\* passed, a reservation that was made, a state that is well formed.
THEOREM Typed == Spec => []TInv
  BY InitTyped, NextTyped, PTL DEF Spec

\* Type correctness, for any number of goroutines, keys and shards and any
\* valid policies: no path through allow.go, engine.go and the store leaves a
\* malformed entry, and a key's lock is held exactly while one call decides on
\* a key of its shard (allow.go:134), by that call and by no other.
THEOREM TypeCorrect == Spec => []TypeOK
  <1>1. TInv => TypeOK
    BY DEF TInv
  <1> QED
    BY <1>1, Typed, PTL

-----------------------------------------------------------------------------
(* The books of a key.  Below, s is the state of its gates, m what it has  *)
(* granted and not got back, a its amnesties, w the time calls waited, y   *)
(* the time calls that made the entry anew were late, c the clock, and t   *)
(* the reading of the clock of the call that is deciding, or c.            *)

\* What is in the bucket and what it let through is paid for by a burst for
\* every entry there was, and by what e ticks earn.
BucketBooked(b, m, a, e) ==
  /\ b.burst > 0
  /\ Second * (b.grains + Grain * m) <= Second * (b.burst * (1 + a)) + b.rate * e

MeterBooked(g, m, a, y) ==
  g.interval = 0 \/ g.interval * m <= (g.limit * a + y) + g.tat

\* The call that is deciding may set the bucket back to its reading, and the
\* wait it has had by now will be on the account by then.
Booked(s, m, a, w, y, c, t) ==
  /\ s.tb # NIL =>
       /\ s.tb.last <= c
       /\ BucketBooked(s.tb, m, a, MinU64(s.tb.last, t) + (w + (c - t)))
  /\ s.gcra # NIL =>
       /\ s.gcra.tat <= c + s.gcra.limit
       /\ MeterBooked(s.gcra, m, a, y)

\* The same when there is no entry; of p only the terms of its policy count.
Closed(p, m, a, w, y, c) ==
  /\ p.tb # NIL =>
       Second * (Grain * m) <= Second * (p.tb.burst * a) + p.tb.rate * (c + w)
  /\ p.gcra # NIL =>
       p.gcra.interval = 0 \/ p.gcra.interval * m <= (p.gcra.limit * a + y) + c

\* Two states of one policy.
SameTerms(s, u) ==
  /\ SameGates(s, u)
  /\ s.tb # NIL => u.tb.rate = s.tb.rate /\ u.tb.burst = s.tb.burst
  /\ s.gcra # NIL => /\ u.gcra.interval = s.gcra.interval
                     /\ u.gcra.limit = s.gcra.limit
                     /\ u.gcra.burst = s.gcra.burst

\* What an operation at time t does to the account of a bucket.
LEMMA BucketSpent ==
  ASSUME NEW b \in Buckets, NEW c, NEW k \in Int, NEW t \in Int, NEW d \in Int, t <= d,
         NEW m \in Int, NEW a \in Nat, NEW e \in Int,
         Spends(b, c, k, t), BucketBooked(b, m, a, MinU64(b.last, t) + e)
  PROVE  BucketBooked(c, m + k, a, MinU64(c.last, d) + e)
  <1>1. /\ b.grains \in Nat /\ b.rate \in Nat /\ b.burst \in Nat /\ b.last \in Int
        /\ c.grains \in Nat /\ c.last \in Int /\ b.burst > 0
        /\ c.rate = b.rate /\ c.burst = b.burst
    BY DEF Spends, Buckets, TB!States, BucketBooked
  <1>2. PICK x, y, z : /\ x = MinU64(b.last, t) /\ y = MaxI(t - b.last, 0)
                       /\ z = MinU64(c.last, d)
    OBVIOUS
  <1>3. x \in Int /\ y \in Nat /\ z \in Int /\ x + y = t /\ (b.rate = 0 \/ z = t)
    BY <1>1, <1>2 DEF MinU64, MaxI, Spends
  <1>4. /\ Second * (c.grains + Grain * k) <= Second * b.grains + b.rate * y
        /\ Second * (b.grains + Grain * m) <= Second * (b.burst * (1 + a)) + b.rate * (x + e)
    BY <1>2 DEF Spends, BucketBooked
  <1>5. b.rate * y + b.rate * (x + e) = b.rate * (z + e)
    <2>1. CASE b.rate = 0
      BY <1>3, <2>1
    <2>2. CASE z = t
      <3>1. y + (x + e) = z + e
        BY <1>3, <2>2
      <3>2. b.rate * y + b.rate * (x + e) = b.rate * (y + (x + e))
        BY <1>1, <1>3
      <3> QED
        BY <3>1, <3>2
    <2> QED
      BY <1>3, <2>1, <2>2
  <1>6. Second * (c.grains + Grain * (m + k)) <= Second * (b.burst * (1 + a)) + b.rate * (z + e)
    <2>1. /\ Second * (c.grains + Grain * (m + k))
               = (Second * (c.grains + Grain * k) + Second * (b.grains + Grain * m))
                 - Second * b.grains
      BY <1>1, ScaleAssumption
    <2>2. /\ Second * (c.grains + Grain * k) \in Int /\ Second * (b.grains + Grain * m) \in Int
          /\ Second * b.grains \in Int /\ b.burst * (1 + a) \in Int
          /\ b.rate * y \in Int /\ b.rate * (x + e) \in Int
      BY <1>1, <1>3, ScaleAssumption
    <2>3. Second * (b.burst * (1 + a)) \in Int
      BY <2>2, ScaleAssumption
    <2> QED
      BY <1>4, <1>5, <2>1, <2>2, <2>3
  <1> QED
    BY <1>1, <1>2, <1>6 DEF BucketBooked

\* More time earns no less.
LEMMA BucketEarns ==
  ASSUME NEW b \in Buckets, NEW m \in Int, NEW a \in Nat, NEW e \in Int, NEW f \in Int,
         e <= f, BucketBooked(b, m, a, e)
  PROVE  BucketBooked(b, m, a, f)
  <1>1. b.grains \in Nat /\ b.rate \in Nat /\ b.burst \in Nat
    BY DEF Buckets, TB!States
  <1>2. b.rate * e \in Int /\ b.rate * f \in Int /\ b.rate * e <= b.rate * f
    BY <1>1, IntProductGrows
  <1>3. Second * (b.grains + Grain * m) \in Int /\ Second * (b.burst * (1 + a)) \in Int
    <2>1. b.grains + Grain * m \in Int /\ b.burst * (1 + a) \in Int
      BY <1>1, ScaleAssumption
    <2> QED
      BY <2>1, ScaleAssumption
  <1> QED
    BY <1>2, <1>3 DEF BucketBooked

\* Nothing comes of a negative amount but what it gives back.
LEMMA BucketReturns ==
  ASSUME NEW b \in Buckets, NEW m \in Int, NEW a \in Nat, NEW e \in Int,
         NEW k \in Int, k <= 0, BucketBooked(b, m, a, e)
  PROVE  BucketBooked(b, m + k, a, e)
  <1>1. b.grains \in Nat /\ b.rate \in Nat /\ b.burst \in Nat
    BY DEF Buckets, TB!States
  <1>2. /\ Grain * (m + k) \in Int /\ Grain * m \in Int
        /\ Grain * (m + k) <= Grain * m
    BY IntProductGrows, ScaleAssumption
  <1>3. /\ Second * (b.grains + Grain * (m + k)) <= Second * (b.grains + Grain * m)
        /\ Second * (b.grains + Grain * (m + k)) \in Int
        /\ Second * (b.grains + Grain * m) \in Int
    <2>1. b.grains + Grain * (m + k) \in Int /\ b.grains + Grain * m \in Int
          /\ b.grains + Grain * (m + k) <= b.grains + Grain * m
      BY <1>1, <1>2
    <2> QED
      BY <2>1, IntProductGrows, ScaleAssumption
  <1>4. Second * (b.burst * (1 + a)) \in Int /\ b.rate * e \in Int
    <2>1. b.burst * (1 + a) \in Int
      BY <1>1
    <2> QED
      BY <1>1, <2>1, ScaleAssumption
  <1> QED
    BY <1>3, <1>4 DEF BucketBooked

\* An operation on the gates: what it lets through is on the account, and the
\* wait of the call as well.
LEMMA BookedEffect ==
  ASSUME NEW s \in GoodStates, NEW u, NEW k \in Int, NEW t \in Nat, NEW c \in Nat, t <= c,
         NEW m \in Int, NEW a \in Nat, NEW w \in Nat, NEW y \in Nat,
         Effect(s, u, k, t), Booked(s, m, a, w, y, c, t)
  PROVE  Booked(u, m + k, a, w + (c - t), y, c, c)
  <1>1. SameGates(s, u)
    BY DEF Effect
  <1>2. ASSUME s.tb # NIL
        PROVE  u.tb.last <= c
               /\ BucketBooked(u.tb, m + k, a, MinU64(u.tb.last, c) + ((w + (c - t)) + (c - c)))
    <2> DEFINE e == w + (c - t)
    <2>1. s.tb \in Buckets /\ s.tb.last \in Int
      BY <1>2, GoodFields DEF Buckets, TB!States
    <2>2. e \in Int /\ e + (c - c) = e
      OBVIOUS
    <2>3. s.tb.last <= c /\ BucketBooked(s.tb, m, a, MinU64(s.tb.last, t) + e)
      BY <1>2 DEF Booked
    <2> HIDE DEF e
    <2>4. CASE Spends(s.tb, u.tb, k, t)
      <3>1. u.tb.last \in {s.tb.last, t}
        BY <2>4 DEF Spends
      <3>2. BucketBooked(u.tb, m + k, a, MinU64(u.tb.last, c) + e)
        BY <2>1, <2>2, <2>3, <2>4, BucketSpent
      <3> QED
        BY <2>2, <2>3, <3>1, <3>2 DEF e
    <2>5. CASE k <= 0 /\ u.tb = s.tb
      <3>1. MinU64(s.tb.last, t) + e <= MinU64(s.tb.last, c) + e
            /\ MinU64(s.tb.last, t) + e \in Int /\ MinU64(s.tb.last, c) + e \in Int
        BY <2>1, <2>2 DEF MinU64
      <3>2. BucketBooked(s.tb, m + k, a, MinU64(s.tb.last, t) + e)
        BY <2>1, <2>3, <2>5, <3>1, BucketReturns
      <3>3. BucketBooked(s.tb, m + k, a, MinU64(s.tb.last, c) + e)
        BY <2>1, <3>1, <3>2, BucketEarns
      <3> QED
        BY <2>2, <2>3, <2>5, <3>3 DEF e
    <2> QED
      BY <1>2, <2>4, <2>5 DEF Effect
  <1>3. ASSUME s.gcra # NIL
        PROVE  u.gcra.tat <= c + u.gcra.limit /\ MeterBooked(u.gcra, m + k, a, y)
    <2>1. s.gcra \in Meters /\ Moves(s.gcra, u.gcra, k, t)
      BY <1>3, GoodFields DEF Effect
    <2>2. PICK i \in Nat, l \in Nat, x \in Int, z \in Int :
            /\ i = s.gcra.interval /\ l = s.gcra.limit /\ x = s.gcra.tat /\ z = u.gcra.tat
            /\ u.gcra.interval = i /\ u.gcra.limit = l
            /\ z >= x + i * k /\ z <= MaxI(x, t + l)
      BY <2>1 DEF Moves, Meters, GC!States
    <2>3. x <= c + l /\ (i = 0 \/ i * m <= (l * a + y) + x)
      BY <1>3, <2>2 DEF Booked, MeterBooked
    <2>4. z <= c + l
      BY <2>2, <2>3 DEF MaxI
    <2>5. i * (m + k) = i * m + i * k /\ i * m \in Int /\ i * k \in Int /\ l * a \in Int
      OBVIOUS
    <2>6. i = 0 \/ i * (m + k) <= (l * a + y) + z
      BY <2>2, <2>3, <2>5
    <2> QED
      BY <2>2, <2>4, <2>6 DEF MeterBooked
  <1> QED
    BY <1>1, <1>2, <1>3 DEF Booked, SameGates

\* The clock runs on, whatever the call that is deciding has read of it, and
\* a call that begins to decide had read it before.
LEMMA BookedLater ==
  ASSUME NEW s \in GoodStates, NEW t \in Nat, NEW c \in Nat, NEW v \in Nat, NEW d \in Nat,
         t <= c, c <= d, v <= d, v = t \/ t = c,
         NEW m \in Int, NEW a \in Nat, NEW w \in Nat, NEW y \in Nat,
         Booked(s, m, a, w, y, c, t)
  PROVE  Booked(s, m, a, w, y, d, v)
  <1>1. ASSUME s.tb # NIL
        PROVE  s.tb.last <= d
               /\ BucketBooked(s.tb, m, a, MinU64(s.tb.last, v) + (w + (d - v)))
    <2>1. s.tb \in Buckets /\ s.tb.last \in Int
      BY <1>1, GoodFields DEF Buckets, TB!States
    <2>2. s.tb.last <= c /\ BucketBooked(s.tb, m, a, MinU64(s.tb.last, t) + (w + (c - t)))
      BY <1>1 DEF Booked
    <2>3. PICK e \in Int, f \in Int : /\ e = MinU64(s.tb.last, t) + (w + (c - t))
                                      /\ f = MinU64(s.tb.last, v) + (w + (d - v))
      BY <2>1 DEF MinU64
    <2>4. e <= f
      BY <2>1, <2>2, <2>3 DEF MinU64
    <2>5. BucketBooked(s.tb, m, a, f)
      BY <2>1, <2>2, <2>3, <2>4, BucketEarns
    <2> QED
      BY <2>1, <2>2, <2>3, <2>5
  <1>2. ASSUME s.gcra # NIL
        PROVE  s.gcra.tat <= d + s.gcra.limit /\ MeterBooked(s.gcra, m, a, y)
    <2>1. s.gcra.tat \in Int /\ s.gcra.limit \in Nat
      BY <1>2, GoodFields DEF Meters, GC!States
    <2> QED
      BY <1>2, <2>1 DEF Booked
  <1> QED
    BY <1>1, <1>2 DEF Booked

\* The entry is dropped: one amnesty more makes up for whatever it had still
\* to forget.
LEMMA BookedDropped ==
  ASSUME NEW s \in GoodStates, NEW t \in Nat, NEW c \in Nat, t <= c,
         NEW m \in Int, NEW a \in Nat, NEW w \in Nat, NEW y \in Nat,
         Booked(s, m, a, w, y, c, t)
  PROVE  Closed(s, m, a + 1, w, y, c)
  <1>1. ASSUME s.tb # NIL
        PROVE  Second * (Grain * m) <= Second * (s.tb.burst * (a + 1)) + s.tb.rate * (c + w)
    <2>1. s.tb \in Buckets
      BY <1>1, GoodFields
    <2>2. /\ s.tb.last \in Int /\ s.tb.grains \in Nat /\ s.tb.burst \in Nat /\ s.tb.rate \in Nat
      BY <2>1 DEF Buckets, TB!States
    <2>3. BucketBooked(s.tb, m, a, MinU64(s.tb.last, t) + (w + (c - t)))
      BY <1>1 DEF Booked
    <2>4. MinU64(s.tb.last, t) + (w + (c - t)) \in Int
          /\ MinU64(s.tb.last, t) + (w + (c - t)) <= c + w
      BY <2>2 DEF MinU64
    <2>5. BucketBooked(s.tb, m, a, c + w)
      BY <2>1, <2>3, <2>4, BucketEarns
    <2>6. Second * (s.tb.grains + Grain * m) <= Second * (s.tb.burst * (1 + a)) + s.tb.rate * (c + w)
      BY <2>5 DEF BucketBooked
    <2>7. Second * (s.tb.grains + Grain * m) = Second * s.tb.grains + Second * (Grain * m)
      BY <2>2, ScaleAssumption
    <2>8. /\ Second * s.tb.grains \in Nat /\ Second * (Grain * m) \in Int
          /\ s.tb.rate * (c + w) \in Int
      BY <2>2, ScaleAssumption, NatProduct
    <2>9. s.tb.burst * (1 + a) \in Int /\ s.tb.burst * (1 + a) = s.tb.burst * (a + 1)
      BY <2>2
    <2>10. Second * (s.tb.burst * (1 + a)) \in Int
      BY <2>9, ScaleAssumption
    <2> QED
      BY <2>6, <2>7, <2>8, <2>9, <2>10
  <1>2. ASSUME s.gcra # NIL, s.gcra.interval # 0
        PROVE  s.gcra.interval * m <= (s.gcra.limit * (a + 1) + y) + c
    <2>1. s.gcra.tat \in Int /\ s.gcra.limit \in Nat /\ s.gcra.interval \in Nat
      BY <1>2, GoodFields DEF Meters, GC!States
    <2>2. /\ s.gcra.tat <= c + s.gcra.limit
          /\ s.gcra.interval * m <= (s.gcra.limit * a + y) + s.gcra.tat
      BY <1>2 DEF Booked, MeterBooked
    <2>3. /\ s.gcra.limit * (a + 1) = s.gcra.limit * a + s.gcra.limit
          /\ s.gcra.limit * a \in Int /\ s.gcra.interval * m \in Int
      BY <2>1
    <2> QED
      BY <2>1, <2>2, <2>3
  <1> QED
    BY <1>1, <1>2 DEF Closed

\* An entry that has recovered needs none.
LEMMA BookedRecovered ==
  ASSUME NEW s \in GoodStates, NEW c \in Nat,
         NEW m \in Int, NEW a \in Nat, NEW w \in Nat, NEW y \in Nat,
         Booked(s, m, a, w, y, c, c), Recovered(s, c)
  PROVE  Closed(s, m, a, w, y, c)
  <1>1. ASSUME s.tb # NIL
        PROVE  Second * (Grain * m) <= Second * (s.tb.burst * a) + s.tb.rate * (c + w)
    <2> DEFINE r == TB!Refill(s.tb, c)
    <2>1. s.tb \in Buckets
      BY <1>1, GoodFields
    <2>2. /\ s.tb.last \in Int /\ s.tb.grains \in Nat /\ s.tb.burst \in Nat /\ s.tb.rate \in Nat
      BY <2>1 DEF Buckets, TB!States
    <2>3. s.tb.last <= c /\ BucketBooked(s.tb, m, a, MinU64(s.tb.last, c) + (w + (c - c)))
      BY <1>1 DEF Booked
    <2>4. Spends(s.tb, r, 0, c) /\ r.grains = s.tb.burst
      BY <1>1, <2>1, BucketRefill DEF Recovered
    <2>5. BucketBooked(r, m + 0, a, MinU64(r.last, c) + (w + (c - c)))
      <3>1. w + (c - c) \in Int /\ 0 \in Int /\ c \in Int /\ c <= c
        OBVIOUS
      <3> HIDE DEF r
      <3> QED
        BY <2>1, <2>3, <2>4, <3>1, BucketSpent
    <2>6. r \in Buckets /\ r.last \in Int /\ r.rate = s.tb.rate /\ r.burst = s.tb.burst
          /\ r.last <= c
      BY <2>2, <2>3, <2>4 DEF Spends, Buckets, TB!States
    <2> HIDE DEF r
    <2>7. MinU64(r.last, c) + (w + (c - c)) <= c + w /\ m + 0 = m
          /\ MinU64(r.last, c) + (w + (c - c)) \in Int
      BY <2>6 DEF MinU64
    <2>8. BucketBooked(r, m, a, c + w)
      BY <2>5, <2>6, <2>7, BucketEarns
    <2>9. Second * (s.tb.burst + Grain * m) <= Second * (s.tb.burst * (1 + a)) + s.tb.rate * (c + w)
      BY <2>4, <2>6, <2>8 DEF BucketBooked
    <2>10. /\ Second * (s.tb.burst + Grain * m) = Second * s.tb.burst + Second * (Grain * m)
           /\ s.tb.burst * (1 + a) = s.tb.burst + s.tb.burst * a
           /\ s.tb.burst * a \in Int
      BY <2>2, ScaleAssumption
    <2>11. Second * (s.tb.burst + s.tb.burst * a) = Second * s.tb.burst + Second * (s.tb.burst * a)
      BY <2>2, <2>10, ScaleAssumption
    <2>12. /\ Second * s.tb.burst \in Int /\ Second * (Grain * m) \in Int
           /\ Second * (s.tb.burst * a) \in Int /\ s.tb.rate * (c + w) \in Int
      BY <2>2, <2>10, ScaleAssumption
    <2> QED
      BY <2>9, <2>10, <2>11, <2>12
  <1>2. ASSUME s.gcra # NIL, s.gcra.interval # 0
        PROVE  s.gcra.interval * m <= (s.gcra.limit * a + y) + c
    <2>1. s.gcra.tat \in Int /\ s.gcra.limit \in Nat /\ s.gcra.interval \in Nat
      BY <1>2, GoodFields DEF Meters, GC!States
    <2>2. /\ s.gcra.tat <= c
          /\ s.gcra.interval * m <= (s.gcra.limit * a + y) + s.gcra.tat
      BY <1>2 DEF Booked, MeterBooked, Recovered
    <2>3. s.gcra.limit * a \in Int /\ s.gcra.interval * m \in Int
      BY <2>1
    <2> QED
      BY <2>1, <2>2, <2>3
  <1> QED
    BY <1>1, <1>2 DEF Closed

\* Closed books stay so while the clock runs on and calls wait; only the terms
\* of the policy count.
LEMMA ClosedLater ==
  ASSUME NEW s \in GoodStates, NEW u \in GoodStates, SameTerms(u, s),
         NEW c \in Nat, NEW d \in Nat, c <= d,
         NEW m \in Int, NEW a \in Nat, NEW w \in Nat, NEW v \in Nat, w <= v, NEW y \in Nat,
         Closed(s, m, a, w, y, c)
  PROVE  Closed(u, m, a, v, y, d)
  <1>1. ASSUME u.tb # NIL
        PROVE  Second * (Grain * m) <= Second * (u.tb.burst * a) + u.tb.rate * (d + v)
    <2>1. u.tb.burst \in Nat /\ u.tb.rate \in Nat
      BY <1>1, GoodFields DEF Buckets, TB!States
    <2>2. Second * (Grain * m) <= Second * (u.tb.burst * a) + u.tb.rate * (c + w)
      BY <1>1 DEF Closed, SameTerms, SameGates
    <2>3. /\ u.tb.rate * (c + w) \in Int /\ u.tb.rate * (d + v) \in Int
          /\ u.tb.rate * (c + w) <= u.tb.rate * (d + v)
      BY <2>1, IntProductGrows
    <2>4. Second * (Grain * m) \in Int /\ Second * (u.tb.burst * a) \in Int
      BY <2>1, ScaleAssumption, NatProduct
    <2> QED
      BY <2>2, <2>3, <2>4
  <1>2. ASSUME u.gcra # NIL, u.gcra.interval # 0
        PROVE  u.gcra.interval * m <= (u.gcra.limit * a + y) + d
    <2>1. u.gcra.limit \in Nat /\ u.gcra.interval \in Nat
      BY <1>2, GoodFields DEF Meters, GC!States
    <2>2. u.gcra.interval * m <= (u.gcra.limit * a + y) + c
      BY <1>2 DEF Closed, SameTerms, SameGates
    <2>3. u.gcra.limit * a \in Int /\ u.gcra.interval * m \in Int
      BY <2>1
    <2> QED
      BY <2>2, <2>3
  <1> QED
    BY <1>1, <1>2 DEF Closed

\* What a new entry of reading t looks like.
New(s, t) ==
  /\ s.tb # NIL => s.tb.grains = s.tb.burst /\ s.tb.burst > 0 /\ s.tb.last = t
  /\ s.gcra # NIL => (s.gcra.interval = 0 \/ s.gcra.tat = t) /\ s.gcra.tat <= t

\* A full burst is opened over closed books; a call that is late opens it at
\* its own reading of the clock.
LEMMA Opened ==
  ASSUME NEW s \in GoodStates, NEW t \in Nat, NEW c \in Nat, t <= c, New(s, t),
         NEW m \in Int, NEW a \in Nat, NEW w \in Nat, NEW y \in Nat,
         Closed(s, m, a, w, y, c)
  PROVE  Booked(s, m, a, w, y + (c - t), c, t)
  <1>1. ASSUME s.tb # NIL
        PROVE  s.tb.last <= c
               /\ BucketBooked(s.tb, m, a, MinU64(s.tb.last, t) + (w + (c - t)))
    <2>1. /\ s.tb.burst \in Nat /\ s.tb.rate \in Nat
          /\ s.tb.grains = s.tb.burst /\ s.tb.burst > 0 /\ s.tb.last = t
      BY <1>1, GoodFields DEF New, Buckets, TB!States
    <2>2. MinU64(s.tb.last, t) + (w + (c - t)) = c + w
      BY <2>1 DEF MinU64
    <2>3. Second * (Grain * m) <= Second * (s.tb.burst * a) + s.tb.rate * (c + w)
      BY <1>1 DEF Closed
    <2>4. /\ Second * (s.tb.burst + Grain * m) = Second * s.tb.burst + Second * (Grain * m)
          /\ s.tb.burst * (1 + a) = s.tb.burst + s.tb.burst * a
          /\ s.tb.burst * a \in Int
      <3>1. s.tb.burst * (1 + a) = s.tb.burst + s.tb.burst * a /\ s.tb.burst * a \in Int
        <4>1. \A x \in Nat : x * (1 + a) = x + x * a /\ x * a \in Int
          OBVIOUS
        <4> QED
          BY <2>1, <4>1
      <3>2. Second * (s.tb.burst + Grain * m) = Second * s.tb.burst + Second * (Grain * m)
        BY <2>1, ScaleAssumption
      <3> QED
        BY <3>1, <3>2
    <2>5. Second * (s.tb.burst + s.tb.burst * a) = Second * s.tb.burst + Second * (s.tb.burst * a)
      BY <2>1, <2>4, ScaleAssumption
    <2>6. /\ Second * s.tb.burst \in Int /\ Second * (Grain * m) \in Int
          /\ Second * (s.tb.burst * a) \in Int /\ s.tb.rate * (c + w) \in Int
      BY <2>1, <2>4, ScaleAssumption
    <2>7. Second * (s.tb.burst + Grain * m) <= Second * (s.tb.burst * (1 + a)) + s.tb.rate * (c + w)
      BY <2>3, <2>4, <2>5, <2>6
    <2> QED
      BY <2>1, <2>2, <2>7 DEF BucketBooked
  <1>2. ASSUME s.gcra # NIL
        PROVE  s.gcra.tat <= c + s.gcra.limit /\ MeterBooked(s.gcra, m, a, y + (c - t))
    <2>1. /\ s.gcra.limit \in Nat /\ s.gcra.interval \in Nat /\ s.gcra.tat \in Int
          /\ s.gcra.interval = 0 \/ s.gcra.tat = t
          /\ s.gcra.tat <= t
      BY <1>2, GoodFields DEF New, Meters, GC!States
    <2>2. s.gcra.interval = 0 \/ s.gcra.interval * m <= (s.gcra.limit * a + y) + c
      BY <1>2 DEF Closed
    <2>3. s.gcra.limit * a \in Int /\ s.gcra.interval * m \in Int
      BY <2>1
    <2> QED
      BY <2>1, <2>2, <2>3 DEF MeterBooked
  <1> QED
    BY <1>1, <1>2 DEF Booked

\* The first entry of a key is never late.
LEMMA OpenedFirst ==
  ASSUME NEW s \in GoodStates, NEW t \in Nat, NEW c \in Nat, t <= c, New(s, t),
         NEW a \in Nat, NEW w \in Nat, NEW y \in Nat
  PROVE  Booked(s, 0, a, w, y, c, t)
  <1>1. ASSUME s.tb # NIL
        PROVE  s.tb.last <= c
               /\ BucketBooked(s.tb, 0, a, MinU64(s.tb.last, t) + (w + (c - t)))
    <2>1. /\ s.tb.burst \in Nat /\ s.tb.rate \in Nat
          /\ s.tb.grains = s.tb.burst /\ s.tb.burst > 0 /\ s.tb.last = t
      BY <1>1, GoodFields DEF New, Buckets, TB!States
    <2>2. MinU64(s.tb.last, t) + (w + (c - t)) = c + w
      BY <2>1 DEF MinU64
    <2>3. s.tb.rate * (c + w) \in Nat /\ s.tb.burst + Grain * 0 = s.tb.burst
      BY <2>1, NatProduct, ScaleAssumption
    <2>4. s.tb.burst * (1 + a) = s.tb.burst + s.tb.burst * a /\ s.tb.burst * a \in Nat
      BY <2>1, NatProduct
    <2>5. Second * s.tb.burst <= Second * (s.tb.burst * (1 + a))
          /\ Second * s.tb.burst \in Int /\ Second * (s.tb.burst * (1 + a)) \in Int
      BY <2>1, <2>4, IntProductGrows, ScaleAssumption
    <2> QED
      BY <2>1, <2>2, <2>3, <2>5 DEF BucketBooked
  <1>2. ASSUME s.gcra # NIL
        PROVE  s.gcra.tat <= c + s.gcra.limit /\ MeterBooked(s.gcra, 0, a, y)
    <2>1. /\ s.gcra.limit \in Nat /\ s.gcra.interval \in Nat /\ s.gcra.tat \in Int
          /\ s.gcra.interval = 0 \/ s.gcra.tat = t
          /\ s.gcra.tat <= t
      BY <1>2, GoodFields DEF New, Meters, GC!States
    <2>2. s.gcra.limit * a \in Nat /\ s.gcra.interval * 0 = 0
      BY <2>1, NatProduct
    <2> QED
      BY <2>1, <2>2 DEF MeterBooked
  <1> QED
    BY <1>1, <1>2 DEF Booked

-----------------------------------------------------------------------------
(* What the theorems about the amounts suppose of the policies.            *)

\* No call asks for more than is charged in full (bucket.go:107).
ChargedInFull == Ns \subseteq 1..MaxTokens

\* The clock plus twice the allowance of GCRA fits an int64: with nanoseconds
\* since 1970, an allowance burst/PerSecond of up to a century.
GcraFits ==
  \A s \in Specs :
    InferAlgo(s) = "gcra" =>
      LET interval == MaxI(1, (Second * s.rate.den) \div s.rate.num)
      IN MaxTime + 2 * (interval * s.rate.burst) <= MaxI64

LEMMA NewStateGood ==
  ASSUME GcraFits, NEW p \in Specs, NEW t \in Nat
  PROVE  LET s == NewLimiterState(p, t) IN
         /\ s \in GoodStates
         /\ New(s, t)
         /\ s.gcra # NIL => MaxTime + 2 * s.gcra.limit <= MaxI64
  <1> DEFINE rate == p.rate
             window == p.window
             algo == InferAlgo(p)
  <1>1. p \in SpecRecords /\ Validate(p)
    BY SpecsAssumption
  <1>2. /\ rate # NIL => rate \in Rates /\ rate.num > 0 /\ rate.burst >= 1
        /\ window # NIL => window \in Windows /\ window.size > 0
    BY <1>1 DEF SpecRecords, Validate
  <1>3. PICK b, g, l, c :
          /\ b = IF rate # NIL /\ algo # "gcra" THEN TB!NewState(rate, t) ELSE NIL
          /\ g = IF rate # NIL /\ algo = "gcra" THEN GC!NewGCRA(rate, t) ELSE NIL
          /\ l = IF window # NIL /\ algo # "slidingcounter"
                 THEN Log!NewLog(window.size, window.limit) ELSE NIL
          /\ c = IF window # NIL /\ algo = "slidingcounter"
                 THEN Ctr!NewCounter(window.size, window.limit, window.buckets) ELSE NIL
    OBVIOUS
  <1>4. NewLimiterState(p, t) = [tb |-> b, gcra |-> g, log |-> l, ctr |-> c]
    BY <1>3 DEF NewLimiterState
  <1>5. algo = "gcra" => MaxTime + 2 * (MaxI(1, (Second * rate.den) \div rate.num) * rate.burst) <= MaxI64
    BY DEF GcraFits
  <1> HIDE DEF rate, window, algo
  <1>6. /\ b \in Buckets \cup {NIL}
        /\ b # NIL => b.grains = b.burst /\ b.burst > 0 /\ b.last = t
    BY <1>2, <1>3, BucketNew
  <1>7. ASSUME g # NIL
        PROVE  /\ g \in Meters /\ (g.interval = 0 \/ g.tat = t)
               /\ g.tat <= t /\ MaxTime + 2 * g.limit <= MaxI64
    <2> DEFINE i == MaxI(1, (Second * rate.den) \div rate.num)
    <2>1. rate # NIL /\ algo = "gcra" /\ g = GC!NewGCRA(rate, t)
      BY <1>3, <1>7
    <2>2. i * rate.burst \in Nat /\ MaxTime + 2 * (i * rate.burst) <= MaxI64
      <3>1. (Second * rate.den) \div rate.num \in Nat /\ rate.burst \in Nat
        BY <1>2, <2>1, ScaleAssumption, NatProduct, NatQuotient DEF Rates
      <3>2. i \in Nat
        BY <3>1 DEF MaxI
      <3> QED
        BY <1>5, <2>1, <3>1, <3>2, NatProduct
    <2>3. MaxTime \in Nat /\ MaxI64 \in Int /\ i * rate.burst <= MaxI64
      BY <2>2, BoundsAssumption, MaxI64Fits
    <2>4. /\ g \in Meters /\ (g.interval = 0 \/ g.tat = t)
          /\ g.tat <= t /\ (g.limit = 0 \/ g.limit = i * rate.burst)
      BY <1>2, <2>1, <2>3, MeterNew
    <2> HIDE DEF i
    <2>5. MaxTime + 2 * g.limit <= MaxI64
      <3>1. CASE g.limit = 0
        BY <2>2, <2>3, <3>1
      <3>2. CASE g.limit = i * rate.burst
        BY <2>2, <3>2
      <3> QED
        BY <2>4, <3>1, <3>2
    <2> QED
      BY <2>4, <2>5
  <1>8. l \in Logs \cup {NIL}
    BY <1>2, <1>3, LogNew DEF Windows
  <1>9. c \in Counters \cup {NIL}
    BY <1>2, <1>3, CounterNew DEF Windows
  <1>10. (b = NIL \/ g = NIL) /\ (l = NIL \/ c = NIL)
    BY <1>3
  <1>11. PICK s : s = NewLimiterState(p, t)
    OBVIOUS
  <1>12. s \in GoodStates
    BY <1>4, <1>6, <1>7, <1>8, <1>9, <1>10, <1>11 DEF GoodStates
  <1>13. s.tb = b /\ s.gcra = g
    BY <1>4, <1>11
  <1>14. New(s, t) /\ (s.gcra # NIL => MaxTime + 2 * s.gcra.limit <= MaxI64)
    BY <1>6, <1>7, <1>13 DEF New
  <1> QED
    BY <1>11, <1>12, <1>14

LEMMA NewStateTerms ==
  ASSUME GcraFits, NEW p \in Specs, NEW t \in Nat
  PROVE  SameTerms(NewLimiterState(p, 0), NewLimiterState(p, t))
  <1> DEFINE s == NewLimiterState(p, 0)
             u == NewLimiterState(p, t)
  <1>1. s \in GoodStates /\ u \in GoodStates
    BY NewStateGood
  <1>2. /\ s.tb # NIL => s.tb = TB!NewState(p.rate, 0)
        /\ s.gcra # NIL => s.gcra = GC!NewGCRA(p.rate, 0)
        /\ u.tb # NIL => u.tb = TB!NewState(p.rate, t)
        /\ u.gcra # NIL => u.gcra = GC!NewGCRA(p.rate, t)
    BY DEF NewLimiterState
  <1>3. ASSUME NEW v \in Nat
        PROVE  /\ NewLimiterState(p, v).tb # NIL <=> p.rate # NIL /\ InferAlgo(p) # "gcra"
               /\ NewLimiterState(p, v).gcra # NIL <=> p.rate # NIL /\ InferAlgo(p) = "gcra"
               /\ NewLimiterState(p, v).log # NIL <=>
                    p.window # NIL /\ InferAlgo(p) # "slidingcounter"
               /\ NewLimiterState(p, v).ctr # NIL <=>
                    p.window # NIL /\ InferAlgo(p) = "slidingcounter"
    <2>1. p \in SpecRecords /\ Validate(p)
      BY SpecsAssumption
    <2>2. /\ p.rate # NIL => p.rate \in Rates /\ p.rate.num > 0 /\ p.rate.burst >= 1
          /\ p.window # NIL => p.window \in Windows /\ p.window.size > 0
      BY <2>1 DEF SpecRecords, Validate
    <2>3. /\ p.rate # NIL => TB!NewState(p.rate, v) # NIL
          /\ p.window # NIL => /\ Log!NewLog(p.window.size, p.window.limit) # NIL
                               /\ Ctr!NewCounter(p.window.size, p.window.limit, p.window.buckets) # NIL
      BY <2>2, BucketNew, LogNew, CounterNew, NilIsNoState DEF Windows
    <2>4. p.rate # NIL => GC!NewGCRA(p.rate, v) # NIL
      BY <2>2, MeterFresh, NilAssumption
    <2> QED
      BY <2>3, <2>4 DEF NewLimiterState
  <1>4. SameGates(s, u)
    BY <1>3 DEF SameGates
  <1>5. /\ TB!NewState(p.rate, 0).rate = TB!NewState(p.rate, t).rate
        /\ TB!NewState(p.rate, 0).burst = TB!NewState(p.rate, t).burst
    BY DEF TB!NewState
  <1>6. /\ GC!NewGCRA(p.rate, 0).interval = GC!NewGCRA(p.rate, t).interval
        /\ GC!NewGCRA(p.rate, 0).limit = GC!NewGCRA(p.rate, t).limit
        /\ GC!NewGCRA(p.rate, 0).burst = GC!NewGCRA(p.rate, t).burst
    BY DEF GC!NewGCRA, GC!ZeroState
  <1> HIDE DEF s, u
  <1>7. SameTerms(s, u)
    BY <1>2, <1>4, <1>5, <1>6 DEF SameTerms, SameGates
  <1> QED
    BY <1>7 DEF s, u

-----------------------------------------------------------------------------
(* The inductive invariant: every key's books balance.                     *)

Policy(k) == NewLimiterState(spec[k], 0)

Follows(k, s) == s \in GoodStates /\ SameTerms(Policy(k), s)

Deciding(l, k) == l.at = "allowing" /\ l.key = k

Resting(k) ==
  IF items[k] # NIL
    THEN Booked(items[k].st, net[k], amnesties[k], waited[k], late[k], clock, clock)
    ELSE Closed(Policy(k), net[k], amnesties[k], waited[k], late[k], clock)

\* The call works on the entry, or on one that has been dropped meanwhile.
Working(k, l) ==
  /\ Follows(k, l.st)
  /\ \/ /\ items[k] # NIL /\ items[k].st = l.st
        /\ Booked(l.st, net[k], amnesties[k], waited[k], late[k], clock, l.now)
     \/ /\ items[k] = NIL /\ amnesties[k] > 0
        /\ Booked(l.st, net[k], amnesties[k] - 1, waited[k], late[k], clock, l.now)

KeyInv(k) ==
  /\ k \notin known => net[k] = 0 /\ items[k] = NIL /\ ~InUse(k)
  /\ items[k] # NIL => Follows(k, items[k].st)
  /\ ~InUse(k) => Resting(k)
  /\ \A g \in Goroutines : Deciding(local[g], k) => Working(k, local[g])

\* GCRA let no more through at once than its burst.
GrantsFit ==
  \A i \in 1..Len(grants) :
    LET p == Policy(grants[i].key)
    IN p.gcra # NIL => grants[i].n <= p.gcra.burst

IInv == TInv /\ clock <= MaxTime /\ GrantsFit /\ \A k \in Keys : KeyInv(k)

LEMMA PolicyGood ==
  ASSUME TInv, GcraFits, NEW k \in Keys
  PROVE  /\ Policy(k) \in GoodStates
         /\ Policy(k).gcra # NIL => MaxTime + 2 * Policy(k).gcra.limit <= MaxI64
         /\ Follows(k, Policy(k))
         /\ \A t \in Nat : Follows(k, NewLimiterState(spec[k], t)) /\ New(NewLimiterState(spec[k], t), t)
  <1>1. spec[k] \in Specs
    BY DEF TInv, TypeOK
  <1>2. /\ Policy(k) \in GoodStates
        /\ Policy(k).gcra # NIL => MaxTime + 2 * Policy(k).gcra.limit <= MaxI64
    <2>1. 0 \in Nat
      OBVIOUS
    <2> QED
      BY <1>1, <2>1, NewStateGood DEF Policy
  <1>3. Follows(k, Policy(k))
    BY <1>2 DEF Follows, SameTerms, SameGates
  <1>4. \A t \in Nat : Follows(k, NewLimiterState(spec[k], t)) /\ New(NewLimiterState(spec[k], t), t)
    BY <1>1, NewStateGood, NewStateTerms DEF Follows, Policy
  <1> QED
    BY <1>2, <1>3, <1>4

LEMMA FollowsBack ==
  ASSUME TInv, NEW k \in Keys, NEW s, Follows(k, s)
  PROVE  SameTerms(s, Policy(k))
  BY DEF Follows, SameTerms, SameGates

\* No operation changes the terms of a state.
LEMMA EffectFollows ==
  ASSUME NEW k, NEW s, Follows(k, s), NEW u, NEW n, NEW t, Effect(s, u, n, t)
  PROVE  Follows(k, u)
  <1>1. u \in GoodStates /\ SameGates(s, u) /\ SameTerms(Policy(k), s)
    BY DEF Effect, Follows
  <1>2. s.tb # NIL => u.tb.rate = s.tb.rate /\ u.tb.burst = s.tb.burst
    BY DEF Effect, Spends
  <1>3. s.gcra # NIL => /\ u.gcra.interval = s.gcra.interval
                        /\ u.gcra.limit = s.gcra.limit /\ u.gcra.burst = s.gcra.burst
    BY DEF Effect, Moves
  <1> QED
    BY <1>1, <1>2, <1>3 DEF Follows, SameTerms, SameGates

LEMMA CountTypes ==
  ASSUME TInv, NEW k \in Keys
  PROVE  /\ net[k] \in Int /\ amnesties[k] \in Nat /\ waited[k] \in Nat /\ late[k] \in Nat
         /\ clock \in Nat
  BY DEF TInv, TypeOK, Counts

\* A decided call read the clock before.
LEMMA DeciderTypes ==
  ASSUME TInv, NEW g \in Goroutines, NEW k, Deciding(local[g], k)
  PROVE  /\ local[g].now \in Nat /\ local[g].now <= clock /\ k \in Keys
         /\ local[g].n \in Ns
  <1>1. local[g] \in Locals /\ Remembered(local[g]) /\ local[g].at = "allowing" /\ local[g].key = k
    BY DEF TInv, TypeOK, Memory, Deciding
  <1> QED
    BY <1>1, LocalShape DEF Remembered

\* A key that a step leaves alone, but for the clock.
LEMMA KeyStays ==
  ASSUME TInv, GcraFits, NEW k \in Keys, KeyInv(k),
         spec' = spec, clock' \in Nat, clock <= clock',
         items'[k] = items[k], net'[k] = net[k], amnesties'[k] = amnesties[k],
         waited'[k] = waited[k], late'[k] = late[k], k \in known' <=> k \in known,
         \A h \in Goroutines : local'[h] = local[h]
           \/ (~Deciding(local'[h], k) /\ ~Deciding(local[h], k))
  PROVE  KeyInv(k)'
  <1>1. InUse(k)' <=> InUse(k)
    BY DEF InUse, Deciding
  <1>2. \A s : Follows(k, s)' <=> Follows(k, s)
    BY DEF Follows, Policy
  <1>3. /\ net[k] \in Int /\ amnesties[k] \in Nat /\ waited[k] \in Nat /\ late[k] \in Nat
        /\ clock \in Nat
    BY CountTypes
  <1>4. Resting(k) => Resting(k)'
    <2>1. CASE items[k] # NIL
      <3>1. items[k].st \in GoodStates
        BY <2>1 DEF KeyInv, Follows
      <3> QED
        BY SMTT(30), <1>3, <2>1, <3>1, BookedLater DEF Resting
    <2>2. CASE items[k] = NIL
      <3>1. Policy(k)' = Policy(k)
        BY DEF Policy
      <3>2. Policy(k) \in GoodStates /\ SameTerms(Policy(k), Policy(k))
        BY PolicyGood DEF Follows
      <3>3. PICK p : p = Policy(k)
        OBVIOUS
      <3>4. Closed(p, net[k], amnesties[k], waited[k], late[k], clock)
              => Closed(p, net[k], amnesties[k], waited[k], late[k], clock')
        BY SMTT(30), <1>3, <3>2, <3>3, ClosedLater
      <3> QED
        BY <2>2, <3>1, <3>3, <3>4 DEF Resting
    <2> QED
      BY <2>1, <2>2
  <1>5. ASSUME NEW g \in Goroutines, Deciding(local'[g], k)
        PROVE  Working(k, local[g])'
    <2>1. local'[g] = local[g] /\ Working(k, local[g])
      BY <1>5 DEF KeyInv
    <2>2. PICK l : l = local[g] /\ l = local'[g]
      BY <2>1
    <2>3. l.now \in Nat /\ l.now <= clock /\ l.st \in GoodStates /\ Working(k, l)
      BY <1>5, <2>1, <2>2, DeciderTypes DEF Working, Follows
    <2>4. CASE /\ items[k] # NIL /\ items[k].st = l.st
               /\ Booked(l.st, net[k], amnesties[k], waited[k], late[k], clock, l.now)
      <3>1. Booked(l.st, net[k], amnesties[k], waited[k], late[k], clock', l.now)
        <4>1. l.now <= clock'
          BY <1>3, <2>3
        <4> QED
          BY <1>3, <2>3, <2>4, <4>1, BookedLater
      <3> QED
        BY <1>2, <2>2, <2>3, <2>4, <3>1 DEF Working
    <2>5. CASE /\ items[k] = NIL /\ amnesties[k] > 0
               /\ Booked(l.st, net[k], amnesties[k] - 1, waited[k], late[k], clock, l.now)
      <3>1. Booked(l.st, net[k], amnesties[k] - 1, waited[k], late[k], clock', l.now)
        <4>1. PICK a \in Nat : a = amnesties[k] - 1
          BY <1>3, <2>5
        <4>2. l.now <= clock' /\ Booked(l.st, net[k], a, waited[k], late[k], clock, l.now)
          BY <1>3, <2>3, <2>5, <4>1
        <4>3. Booked(l.st, net[k], a, waited[k], late[k], clock', l.now)
          BY <1>3, <2>3, <4>2, BookedLater
        <4> QED
          BY <4>1, <4>3
      <3> QED
        BY <1>2, <2>2, <2>3, <2>5, <3>1 DEF Working
    <2> QED
      BY <2>3, <2>4, <2>5 DEF Working
  <1> QED
    BY <1>1, <1>2, <1>4, <1>5 DEF KeyInv

\* A key whose entry may have been dropped.
LEMMA KeyDropped ==
  ASSUME TInv, GcraFits, NEW k \in Keys, KeyInv(k), NEW ks, Drop(ks),
         UNCHANGED <<spec, clock, net, waited, late, known>>,
         \A h \in Goroutines : local'[h] = local[h]
           \/ (~Deciding(local'[h], k) /\ ~Deciding(local[h], k))
  PROVE  KeyInv(k)'
  <1>1. /\ net[k] \in Int /\ amnesties[k] \in Nat /\ waited[k] \in Nat /\ late[k] \in Nat
        /\ clock \in Nat
    BY CountTypes
  <1>2. /\ items'[k] = IF k \in ks THEN NIL ELSE items[k]
        /\ amnesties'[k] =
             IF k \in ks /\ items[k] # NIL /\ (InUse(k) \/ ~Recovered(items[k].st, clock))
               THEN amnesties[k] + 1 ELSE amnesties[k]
    BY DEF Drop
  <1>3. CASE k \notin ks \/ items[k] = NIL
    <2>1. items'[k] = items[k] /\ amnesties'[k] = amnesties[k]
      BY <1>2, <1>3
    <2> QED
      BY <1>1, <2>1, KeyStays
  <1>4. CASE k \in ks /\ items[k] # NIL
    <2>1. items'[k] = NIL /\ k \in known /\ Follows(k, items[k].st)
      BY <1>2, <1>4 DEF KeyInv
    <2>2. InUse(k)' <=> InUse(k)
      BY DEF InUse, Deciding
    <2>3. Policy(k)' = Policy(k) /\ (\A s : Follows(k, s)' <=> Follows(k, s))
      BY DEF Policy, Follows
    <2>4. ASSUME ~InUse(k)
          PROVE  Resting(k)'
      <3> DEFINE s == items[k].st
      <3>1. s \in GoodStates /\ SameTerms(Policy(k), s) /\ Policy(k) \in GoodStates
        BY <2>1, PolicyGood DEF Follows
      <3>2. Booked(s, net[k], amnesties[k], waited[k], late[k], clock, clock)
        BY <1>4, <2>4 DEF KeyInv, Resting
      <3>3. Closed(s, net[k], amnesties'[k], waited[k], late[k], clock)
        <4>1. CASE Recovered(s, clock)
          <5>1. amnesties'[k] = amnesties[k]
            BY <1>2, <2>4, <4>1
          <5> QED
            BY <1>1, <3>1, <3>2, <4>1, <5>1, BookedRecovered
        <4>2. CASE ~Recovered(s, clock)
          <5>1. amnesties'[k] = amnesties[k] + 1
            BY <1>2, <1>4, <4>2
          <5> HIDE DEF s
          <5> QED
            BY <1>1, <3>1, <3>2, <5>1, BookedDropped
        <4> QED
          BY <4>1, <4>2
      <3>4. amnesties'[k] \in Nat
        BY <1>1, <1>2
      <3> HIDE DEF s
      <3>5. Closed(Policy(k), net[k], amnesties'[k], waited[k], late[k], clock)
        BY SMTT(30), <1>1, <3>1, <3>3, <3>4, ClosedLater
      <3> QED
        BY <2>1, <2>3, <3>5 DEF Resting
    <2>5. ASSUME NEW g \in Goroutines, Deciding(local'[g], k)
          PROVE  Working(k, local[g])'
      <3>1. local'[g] = local[g] /\ Deciding(local[g], k) /\ Working(k, local[g])
        BY <2>5 DEF KeyInv
      <3>2. InUse(k)
        BY <3>1 DEF InUse, Deciding
      <3>3. amnesties'[k] = amnesties[k] + 1
        BY <1>2, <1>4, <3>2
      <3>4. amnesties'[k] > 0 /\ amnesties'[k] - 1 = amnesties[k]
        BY <1>1, <3>3
      <3>5. /\ Follows(k, local[g].st)
            /\ Booked(local[g].st, net[k], amnesties[k], waited[k], late[k],
                      clock, local[g].now)
        BY <1>4, <3>1 DEF Working
      <3> QED
        BY <2>1, <2>3, <3>1, <3>4, <3>5 DEF Working
    <2> QED
      BY <2>1, <2>2, <2>4, <2>5 DEF KeyInv
  <1> QED
    BY <1>3, <1>4

\* Nobody decides on a key of a free shard.
LEMMA FreeUnused ==
  ASSUME TInv, NEW k \in Keys, Free(k)
  PROVE  ~InUse(k) /\ \A h \in Goroutines : ~Deciding(local[h], k)
  <1>1. Shard[k] \in Shards /\ holder[Shard[k]] = NIL /\ NIL \notin Goroutines
    BY ShardOf, BoundsAssumption DEF Free
  <1>2. \A h \in Goroutines : ~(local[h].at = "allowing" /\ local[h].key = k)
    BY <1>1 DEF TInv, TypeOK
  <1> QED
    BY <1>2 DEF InUse, Deciding

\* Two calls do not decide on one key at a time.
LEMMA OneDecides ==
  ASSUME TInv, NEW k \in Keys, NEW g \in Goroutines, NEW h \in Goroutines,
         Deciding(local[g], k), Deciding(local[h], k)
  PROVE  g = h
  <1>1. holder[Shard[k]] = g /\ holder[Shard[k]] = h
    BY ShardOf DEF TInv, TypeOK, Deciding
  <1> QED
    BY <1>1

LEMMA EnterKeeps ==
  ASSUME TInv, GcraFits, NEW g \in Goroutines, Enter(g), NEW k \in Keys, k = local[g].key,
         KeyInv(k)
  PROVE  KeyInv(k)'
  <1> DEFINE l == local[g]
             e == GetOrCreate(k, l.now)
  <1>1. PICK m : m = [at |-> "allowing", key |-> k, n |-> l.n, now |-> l.now, st |-> e.st]
    OBVIOUS
  <1>2. /\ l \in Locals /\ l.at = "allow" /\ l.now <= clock /\ local \in [Goroutines -> Locals]
        /\ items \in [Keys -> Entries \cup {NIL}] /\ late \in [Keys -> Nat]
    BY DEF TInv, TypeOK, Counts, Memory, Remembered, Enter
  <1>3. /\ net[k] \in Int /\ amnesties[k] \in Nat /\ waited[k] \in Nat /\ late[k] \in Nat
        /\ clock \in Nat /\ l.now \in Nat
    BY <1>2, CountTypes, LocalShape
  <1>4. /\ Free(k) /\ items' = [items EXCEPT ![k] = e]
        /\ local' = [local EXCEPT ![g] = m]
        /\ late' = [late EXCEPT ![k] = IF items[k] = NIL /\ k \in known
                                         THEN @ + (clock - l.now) ELSE @]
        /\ known' = known \cup {k}
        /\ UNCHANGED <<spec, clock, grants, net, amnesties, waited, resets>>
    BY <1>1 DEF Enter, Go
  <1>5. /\ items'[k] = e /\ k \in known' /\ local'[g] = m
        /\ late'[k] = IF items[k] = NIL /\ k \in known THEN late[k] + (clock - l.now) ELSE late[k]
        /\ \A h \in Goroutines : h # g => local'[h] = local[h]
    BY <1>2, <1>4
  <1>6. ~InUse(k) /\ \A h \in Goroutines : ~Deciding(local[h], k)
    BY <1>4, FreeUnused
  <1>7. m.at = "allowing" /\ m.key = k /\ m.now = l.now /\ m.st = e.st
    BY <1>1
  <1>8. e # NIL /\ Follows(k, e.st)
        /\ Booked(e.st, net[k], amnesties[k], waited[k], late'[k], clock, l.now)
    <2>1. CASE items[k] # NIL
      <3>1. e = items[k] /\ Follows(k, items[k].st) /\ late'[k] = late[k]
            /\ Booked(items[k].st, net[k], amnesties[k], waited[k], late[k], clock, clock)
        BY <1>5, <1>6, <2>1 DEF GetOrCreate, KeyInv, Resting
      <3>2. items[k].st \in GoodStates
        BY <3>1 DEF Follows
      <3>3. Booked(items[k].st, net[k], amnesties[k], waited[k], late[k], clock, l.now)
        <4>1. clock <= clock /\ l.now <= clock /\ clock \in Nat /\ l.now \in Nat
          BY <1>2, <1>3
        <4> HIDE DEF l
        <4> QED
          BY <1>3, <3>1, <3>2, <4>1, BookedLater
      <3> QED
        BY <2>1, <3>1, <3>3
    <2>2. CASE items[k] = NIL
      <3> DEFINE s == NewLimiterState(spec[k], l.now)
      <3>1. e = [st |-> s, updated |-> clock, newest |-> l.now]
        BY <2>2 DEF GetOrCreate, NewEntry
      <3>2. Follows(k, s) /\ New(s, l.now) /\ Policy(k) \in GoodStates
        BY <1>3, PolicyGood
      <3>3. s \in GoodStates /\ SameTerms(s, Policy(k))
        BY <3>2, FollowsBack DEF Follows
      <3>4. e # NIL /\ e.st = s
        <4>1. s \in LimiterStates
          <5>1. spec[k] \in SpecRecords /\ Validate(spec[k])
            BY SpecsAssumption DEF TInv, TypeOK
          <5> QED
            BY <1>3, <5>1, NewTyped, FormedIsState
        <4>2. e \in Entries
          BY <1>3, <3>1, <4>1 DEF Entries
        <4> QED
          BY <3>1, <4>2, EntryAssumption
      <3> HIDE DEF s, e
      <3>5. CASE k \in known
        <4>1. Closed(Policy(k), net[k], amnesties[k], waited[k], late[k], clock)
          BY <1>6, <2>2 DEF KeyInv, Resting
        <4>2. Closed(s, net[k], amnesties[k], waited[k], late[k], clock)
          <5>1. PICK p \in GoodStates : p = Policy(k)
            BY <3>2
          <5>2. clock <= clock /\ waited[k] <= waited[k] /\ SameTerms(s, p)
                /\ Closed(p, net[k], amnesties[k], waited[k], late[k], clock)
            BY <1>3, <3>3, <4>1, <5>1
          <5> QED
            BY <1>3, <3>3, <5>2, ClosedLater
        <4>3. Booked(s, net[k], amnesties[k], waited[k], late[k] + (clock - l.now), clock, l.now)
          BY <1>2, <1>3, <3>2, <3>3, <4>2, Opened
        <4>4. late'[k] = late[k] + (clock - l.now)
          BY <1>5, <2>2, <3>5
        <4> QED
          BY <3>2, <3>4, <4>3, <4>4
      <3>6. CASE k \notin known
        <4>1. net[k] = 0 /\ late'[k] = late[k]
          BY <1>5, <3>6 DEF KeyInv
        <4>2. Booked(s, 0, amnesties[k], waited[k], late[k], clock, l.now)
          BY <1>2, <1>3, <3>2, <3>3, OpenedFirst
        <4> QED
          BY <3>2, <3>4, <4>1, <4>2
      <3> QED
        BY <3>5, <3>6
    <2> QED
      BY <2>1, <2>2
  <1> HIDE DEF e
  <1>9. \A s : Follows(k, s)' <=> Follows(k, s)
    BY <1>4 DEF Follows, Policy
  <1>10. InUse(k)'
    BY <1>5, <1>7 DEF InUse
  <1>11. ASSUME NEW h \in Goroutines, Deciding(local'[h], k)
         PROVE  Working(k, local[h])'
    <2>1. h = g
      BY <1>5, <1>6, <1>11
    <2>2. local'[h] = m
      BY <1>5, <2>1
    <2> QED
      BY <1>4, <1>5, <1>7, <1>8, <1>9, <2>2 DEF Working
  <1> QED
    BY <1>5, <1>8, <1>9, <1>10, <1>11 DEF KeyInv

\* Within the bounds of the clock the arithmetic of GCRA does not wrap.
LEMMA MeterFits ==
  ASSUME TInv, GcraFits, clock <= MaxTime, NEW k \in Keys, NEW s, Follows(k, s), s.gcra # NIL,
         s.gcra.tat <= clock + s.gcra.limit, NEW t \in Nat, t <= clock
  PROVE  Fits(s.gcra, t) /\ s.gcra.limit <= MaxI64
  <1>1. s.gcra.limit \in Nat /\ s.gcra.tat \in Int
    BY GoodFields DEF Follows, Meters, GC!States
  <1>2. MaxTime + 2 * s.gcra.limit <= MaxI64
    BY PolicyGood DEF Follows, SameTerms, SameGates
  <1>3. MaxTime \in Nat /\ MaxI64 \in Int /\ clock \in Nat
    BY BoundsAssumption, MaxI64Fits DEF TInv, TypeOK
  <1> QED
    BY <1>1, <1>2, <1>3 DEF Fits, MaxI

LEMMA ChargedUnits ==
  ASSUME ChargedInFull, NEW n \in Ns
  PROVE  n \in 1..MaxTokens /\ n \in Nat
  <1>1. n \in 1..MaxTokens
    BY DEF ChargedInFull
  <1> QED
    BY <1>1, ScaleAssumption

\* A decision pays for what it lets through, and for the wait of the call.
LEMMA DecideEffect ==
  ASSUME TInv, GcraFits, ChargedInFull, clock <= MaxTime,
         NEW g \in Goroutines, NEW k \in Keys, Deciding(local[g], k), NEW l, l = local[g],
         NEW a \in Nat, Follows(k, l.st),
         Booked(l.st, net[k], a, waited[k], late[k], clock, l.now)
  PROVE  LET r == Allow(l.st, l.n, l.now)
             m == IF r.out = "ok" THEN l.n ELSE 0
         IN /\ m \in Int
            /\ Follows(k, r.st)
            /\ Booked(r.st, net[k] + m, a, waited[k] + (clock - l.now), late[k], clock, clock)
            /\ r.out = "ok" /\ Policy(k).gcra # NIL => l.n <= Policy(k).gcra.burst
  <1>1. /\ l.now \in Nat /\ l.now <= clock /\ l.n \in 1..MaxTokens /\ l.n \in Nat
        /\ net[k] \in Int /\ waited[k] \in Nat /\ late[k] \in Nat /\ clock \in Nat
    <2>1. /\ local[g].now \in Nat /\ local[g].now <= clock /\ local[g].n \in Ns
      BY DeciderTypes
    <2>2. l.n \in 1..MaxTokens /\ l.n \in Nat
      BY <2>1, ChargedUnits
    <2> QED
      BY <2>1, <2>2, CountTypes
  <1>2. l.st \in GoodStates
    BY DEF Follows
  <1>3. PICK r, m : r = Allow(l.st, l.n, l.now) /\ m = IF r.out = "ok" THEN l.n ELSE 0
    OBVIOUS
  <1>4. /\ Effect(l.st, r.st, m, l.now)
        /\ l.st.gcra # NIL /\ r.out = "ok" => l.n <= l.st.gcra.burst
    <2>1. l.st.gcra # NIL => Fits(l.st.gcra, l.now)
      BY <1>1, MeterFits DEF Booked
    <2> QED
      BY <1>1, <1>2, <1>3, <2>1, AllowEffect
  <1>5. m \in Int
    BY <1>1, <1>3
  <1>6. Follows(k, r.st)
    BY <1>4, EffectFollows
  <1>7. Booked(r.st, net[k] + m, a, waited[k] + (clock - l.now), late[k], clock, clock)
    BY <1>1, <1>2, <1>4, <1>5, BookedEffect
  <1>8. r.out = "ok" /\ Policy(k).gcra # NIL => l.n <= Policy(k).gcra.burst
    BY <1>4 DEF Follows, SameTerms, SameGates
  <1> QED
    BY <1>3, <1>5, <1>6, <1>7, <1>8

LEMMA DecideKeeps ==
  ASSUME TInv, GcraFits, ChargedInFull, clock <= MaxTime,
         NEW g \in Goroutines, Decide(g), NEW k \in Keys, k = local[g].key, KeyInv(k)
  PROVE  KeyInv(k)'
  <1>1. PICK l, r, m : /\ l = local[g] /\ r = Allow(l.st, l.n, l.now)
                       /\ m = IF r.out = "ok" THEN l.n ELSE 0
    OBVIOUS
  <1>2. /\ l.at = "allowing" /\ l.key = k /\ Deciding(local[g], k)
        /\ items' = [items EXCEPT ![k] =
                       IF @ = NIL THEN NIL
                       ELSE IF r.out = "panic" THEN [@ EXCEPT !.st = r.st]
                       ELSE Touch([@ EXCEPT !.st = r.st], l.now)]
        /\ IF r.out = "ok" THEN net' = [net EXCEPT ![k] = @ + l.n] ELSE UNCHANGED net
        /\ waited' = [waited EXCEPT ![k] = @ + (clock - l.now)]
        /\ local' = [local EXCEPT ![g] = Idle]
        /\ UNCHANGED <<spec, clock, amnesties, late, known, resets>>
    BY <1>1 DEF Decide, Go, Deciding
  <1>3. /\ items \in [Keys -> Entries \cup {NIL}] /\ net \in [Keys -> Int]
        /\ waited \in [Keys -> Nat] /\ local \in [Goroutines -> Locals]
    BY DEF TInv, TypeOK, Counts
  <1>4. /\ net[k] \in Int /\ amnesties[k] \in Nat /\ waited[k] \in Nat /\ late[k] \in Nat
        /\ clock \in Nat /\ l.now \in Nat /\ l.now <= clock
    BY <1>1, <1>2, CountTypes, DeciderTypes
  <1>5. /\ net'[k] = net[k] + m /\ waited'[k] = waited[k] + (clock - l.now)
        /\ \A h \in Goroutines : local'[h] = IF h = g THEN Idle ELSE local[h]
    BY <1>1, <1>2, <1>3, <1>4
  <1>6. k \in known
    BY <1>2 DEF KeyInv, InUse, Deciding
  <1>7. Working(k, l)
    BY <1>1, <1>2 DEF KeyInv
  <1>8. ~InUse(k)' /\ \A h \in Goroutines : ~Deciding(local'[h], k)
    <2>1. ASSUME NEW h \in Goroutines
          PROVE  ~Deciding(local'[h], k)
      <3>1. CASE h = g
        BY <1>5, <3>1, IdleTyped DEF Deciding
      <3>2. CASE h # g
        BY <1>2, <1>5, <3>2, OneDecides
      <3> QED
        BY <3>1, <3>2
    <2> QED
      BY <2>1 DEF InUse, Deciding
  <1>9. Policy(k)' = Policy(k) /\ (\A s : Follows(k, s)' <=> Follows(k, s))
    BY <1>2 DEF Policy, Follows
  <1>10. CASE items[k] # NIL
    <2>1. /\ Follows(k, l.st) /\ items[k].st = l.st
          /\ Booked(l.st, net[k], amnesties[k], waited[k], late[k], clock, l.now)
      BY <1>7, <1>10 DEF Working
    <2>2. /\ m \in Int /\ Follows(k, r.st)
          /\ Booked(r.st, net[k] + m, amnesties[k], waited[k] + (clock - l.now), late[k],
                    clock, clock)
      BY <1>1, <1>2, <1>4, <2>1, DecideEffect
    <2>3. items'[k].st = r.st
      <3>1. items[k] \in Entries
        BY <1>3, <1>10
      <3>2. [items[k] EXCEPT !.st = r.st].st = r.st
            /\ Touch([items[k] EXCEPT !.st = r.st], l.now).st = r.st
        BY <3>1 DEF Entries, Touch
      <3> QED
        BY <1>2, <1>3, <1>10, <3>2
    <2>4. items'[k] # NIL => Resting(k)'
      BY <1>2, <1>5, <2>2, <2>3 DEF Resting
    <2>5. items'[k] # NIL
      <3>1. items' \in [Keys -> Entries \cup {NIL}] /\ items[k] \in Entries
        BY <1>3, <1>10, DecideTyped DEF TInv, TypeOK
      <3>2. l.st \in WellFormed /\ l.n \in Nat
        BY <1>1, <1>2, LocalShape, BoundsAssumption DEF TInv, TypeOK, Memory, Remembered
      <3>3. r.st \in WellFormed
        BY <1>1, <1>4, <3>2, StateTyped
      <3>4. [items[k] EXCEPT !.st = r.st] \in Entries
            /\ Touch([items[k] EXCEPT !.st = r.st], l.now) \in Entries
        BY <1>4, <3>1, <3>3, EntryTyped
      <3> QED
        BY <1>2, <1>3, <1>10, <3>4, EntryAssumption
    <2> QED
      BY <1>2, <1>6, <1>8, <1>9, <2>2, <2>3, <2>4, <2>5 DEF KeyInv
  <1>11. CASE items[k] = NIL
    <2>1. PICK a \in Nat : a = amnesties[k] - 1
      BY <1>4, <1>7, <1>11 DEF Working
    <2>2. /\ Follows(k, l.st)
          /\ Booked(l.st, net[k], a, waited[k], late[k], clock, l.now)
      BY <1>7, <1>11, <2>1 DEF Working
    <2>3. /\ m \in Int /\ Follows(k, r.st)
          /\ Booked(r.st, net[k] + m, a, waited[k] + (clock - l.now), late[k], clock, clock)
      BY <1>1, <1>2, <2>2, DecideEffect
    <2>4. PICK w \in Nat : w = waited[k] + (clock - l.now)
      BY <1>4
    <2>5. r.st \in GoodStates /\ SameTerms(Policy(k), r.st) /\ Policy(k) \in GoodStates
      BY <2>3, PolicyGood DEF Follows
    <2>6. Closed(r.st, net[k] + m, a + 1, w, late[k], clock)
      <3>1. net[k] + m \in Int /\ clock <= clock
        BY <1>4, <2>3
      <3> QED
        BY <1>4, <2>3, <2>4, <2>5, <3>1, BookedDropped
    <2>7. Closed(Policy(k), net[k] + m, amnesties[k], w, late[k], clock)
      <3>1. net[k] + m \in Int /\ clock <= clock /\ w <= w /\ a + 1 = amnesties[k]
        BY <1>4, <2>1, <2>3, <2>4
      <3> QED
        BY <1>4, <2>5, <2>6, <3>1, ClosedLater
    <2>8. items'[k] = NIL
      BY <1>2, <1>3, <1>11
    <2>9. Resting(k)'
      BY <1>2, <1>5, <1>9, <2>4, <2>7, <2>8 DEF Resting
    <2> QED
      BY <1>2, <1>6, <1>8, <2>8, <2>9 DEF KeyInv
  <1> QED
    BY <1>10, <1>11

LEMMA PeekKeeps ==
  ASSUME TInv, GcraFits, NEW g \in Goroutines, PeekKey(g),
         NEW k \in Keys, k = local[g].key, KeyInv(k)
  PROVE  KeyInv(k)'
  <1>1. PICK l, u : l = local[g] /\ u = Peek(items[k].st, 1, l.now).st
    OBVIOUS
  <1>2. /\ l \in Locals /\ l.at = "peek" /\ l.key = k /\ l.now <= clock /\ Free(k)
        /\ items' = [items EXCEPT ![k] = IF @ = NIL THEN NIL ELSE [@ EXCEPT !.st = u]]
        /\ waited' = [waited EXCEPT ![k] = @ + (clock - l.now)]
        /\ local' = [local EXCEPT ![g] = Idle]
        /\ UNCHANGED <<spec, clock, holder, grants, net, amnesties, late, known, resets>>
    BY <1>1 DEF PeekKey, Go, TInv, TypeOK, Memory, Remembered
  <1>3. /\ items \in [Keys -> Entries \cup {NIL}]
        /\ waited \in [Keys -> Nat] /\ local \in [Goroutines -> Locals]
    BY DEF TInv, TypeOK, Counts
  <1>4. /\ net[k] \in Int /\ amnesties[k] \in Nat /\ waited[k] \in Nat /\ late[k] \in Nat
        /\ clock \in Nat /\ l.now \in Nat
    BY <1>2, CountTypes, LocalShape
  <1>5. /\ items'[k] = IF items[k] = NIL THEN NIL ELSE [items[k] EXCEPT !.st = u]
        /\ waited'[k] = waited[k] + (clock - l.now)
        /\ \A h \in Goroutines : local'[h] = IF h = g THEN Idle ELSE local[h]
    BY <1>2, <1>3
  <1>6. ~InUse(k) /\ \A h \in Goroutines : ~Deciding(local[h], k)
    BY <1>2, FreeUnused
  <1>7. ~InUse(k)' /\ \A h \in Goroutines : ~Deciding(local'[h], k)
    <2>1. \A h \in Goroutines : ~Deciding(local'[h], k)
      BY <1>5, <1>6, IdleTyped DEF Deciding
    <2> QED
      BY <2>1 DEF InUse, Deciding
  <1>8. Policy(k)' = Policy(k) /\ (\A s : Follows(k, s)' <=> Follows(k, s))
    BY <1>2 DEF Policy, Follows
  <1>9. PICK w \in Nat : w = waited[k] + (clock - l.now)
    BY <1>2, <1>4
  <1>10. CASE items[k] # NIL
    <2> DEFINE s == items[k].st
    <2>1. /\ items[k] \in Entries /\ Follows(k, s) /\ s \in GoodStates
          /\ Booked(s, net[k], amnesties[k], waited[k], late[k], clock, clock)
          /\ k \in known
      BY <1>3, <1>6, <1>10 DEF KeyInv, Resting, Follows
    <2>2. Effect(s, u, 0, l.now)
      <3>1. 1 \in 1..MaxTokens
        BY ScaleAssumption
      <3> QED
        BY <1>1, <1>4, <2>1, <3>1, PeekEffect
    <2>3. items'[k] # NIL /\ items'[k].st = u
      <3>1. s \in WellFormed /\ 1 \in Nat
        BY <1>10 DEF TInv, WellStored
      <3>2. u \in WellFormed
        BY <1>1, <1>4, <3>1, StateTyped
      <3>3. [items[k] EXCEPT !.st = u] \in Entries /\ [items[k] EXCEPT !.st = u].st = u
        BY <1>4, <2>1, <3>2, EntryTyped
      <3> QED
        BY <1>5, <1>10, <3>3, EntryAssumption
    <2> HIDE DEF s
    <2>4. Booked(s, net[k], amnesties[k], waited[k], late[k], clock, l.now)
      <3>1. clock <= clock /\ l.now <= clock
        BY <1>2, <1>4
      <3> QED
        BY <1>4, <2>1, <3>1, BookedLater
    <2>5. Booked(u, net[k] + 0, amnesties[k], waited[k] + (clock - l.now), late[k], clock, clock)
      <3>1. 0 \in Int
        OBVIOUS
      <3> QED
        BY <1>2, <1>4, <2>1, <2>2, <2>4, <3>1, BookedEffect
    <2>6. Booked(u, net[k], amnesties[k], w, late[k], clock, clock)
      <3>1. net[k] + 0 = net[k]
        BY <1>4
      <3> QED
        BY <1>9, <2>5, <3>1
    <2>7. Follows(k, u)
      BY <2>1, <2>2, EffectFollows
    <2>8. Resting(k)'
      BY <1>2, <1>5, <1>9, <2>3, <2>6 DEF Resting
    <2> QED
      BY <1>2, <1>7, <1>8, <2>1, <2>3, <2>7, <2>8 DEF KeyInv
  <1>11. CASE items[k] = NIL
    <2>1. items'[k] = NIL
      BY <1>5, <1>11
    <2>2. PICK p \in GoodStates : p = Policy(k) /\ SameTerms(p, p)
      BY PolicyGood DEF Follows
    <2>3. Closed(p, net[k], amnesties[k], waited[k], late[k], clock)
      BY <1>6, <1>11, <2>2 DEF KeyInv, Resting
    <2>4. Closed(p, net[k], amnesties[k], w, late[k], clock)
      <3>1. waited[k] <= w /\ clock <= clock
        BY <1>2, <1>4, <1>9
      <3> QED
        BY <1>4, <2>2, <2>3, <3>1, ClosedLater
    <2>5. Resting(k)'
      BY <1>2, <1>5, <1>8, <1>9, <2>1, <2>2, <2>4 DEF Resting
    <2> QED
      BY <1>2, <1>7, <2>1, <2>5 DEF KeyInv
  <1> QED
    BY <1>10, <1>11

LEMMA CancelKeeps ==
  ASSUME TInv, GcraFits, ChargedInFull, clock <= MaxTime, GrantsFit,
         NEW g \in Goroutines, RestoreKey(g),
         NEW k \in Keys, k = grants[local[g].id].key, KeyInv(k)
  PROVE  KeyInv(k)'
  <1>1. PICK i, n, u : /\ i = local[g].id /\ n = grants[i].n
                       /\ u = Restore(items[k].st, n, clock)
    OBVIOUS
  <1>2. /\ local[g].at = "restore" /\ Free(k) /\ local' = [local EXCEPT ![g] = Idle]
        /\ UNCHANGED <<spec, clock, holder, amnesties, waited, late, known, resets>>
        /\ IF items[k] = NIL THEN UNCHANGED <<items, grants, net>>
           ELSE /\ items' = [items EXCEPT ![k].st = u]
                /\ net' = [net EXCEPT ![k] = @ - n]
    BY <1>1 DEF RestoreKey, Go
  <1>3. /\ items \in [Keys -> Entries \cup {NIL}] /\ net \in [Keys -> Int]
        /\ local \in [Goroutines -> Locals] /\ grants \in Seq(Grants) /\ i \in 1..Len(grants)
    BY <1>1, <1>2 DEF TInv, TypeOK, Counts, Memory, Remembered
  <1>4. /\ net[k] \in Int /\ amnesties[k] \in Nat /\ waited[k] \in Nat /\ late[k] \in Nat
        /\ clock \in Nat
    BY CountTypes
  <1>5. n \in 1..MaxTokens /\ n \in Nat
    <2>1. grants[i] \in Grants
      BY <1>3
    <2>2. n \in Ns
      BY <1>1, <2>1 DEF Grants
    <2> QED
      BY <2>2, ChargedUnits
  <1>6. \A h \in Goroutines : local'[h] = IF h = g THEN Idle ELSE local[h]
    BY <1>2, <1>3
  <1>7. ~InUse(k) /\ \A h \in Goroutines : ~Deciding(local[h], k)
    BY <1>2, FreeUnused
  <1>8. \A h \in Goroutines : ~Deciding(local'[h], k)
    BY <1>6, <1>7, IdleTyped DEF Deciding
  <1>9. CASE items[k] = NIL
    <2>1. items'[k] = items[k] /\ net'[k] = net[k] /\ clock' \in Nat /\ clock <= clock'
      BY <1>2, <1>4, <1>9
    <2> QED
      BY <1>2, <1>7, <1>8, <2>1, KeyStays
  <1>10. CASE items[k] # NIL
    <2> DEFINE s == items[k].st
    <2>1. /\ items[k] \in Entries /\ Follows(k, s) /\ s \in GoodStates
          /\ Booked(s, net[k], amnesties[k], waited[k], late[k], clock, clock)
          /\ k \in known
      BY <1>3, <1>7, <1>10 DEF KeyInv, Resting, Follows
    <2>2. s.gcra # NIL => n <= s.gcra.burst /\ s.gcra.limit <= MaxI64
      <3> SUFFICES ASSUME s.gcra # NIL
                   PROVE  n <= s.gcra.burst /\ s.gcra.limit <= MaxI64
        OBVIOUS
      <3>1. Policy(k).gcra # NIL /\ s.gcra.burst = Policy(k).gcra.burst
        BY <2>1 DEF Follows, SameTerms, SameGates
      <3>2. n <= s.gcra.burst
        BY <1>1, <1>3, <3>1 DEF GrantsFit
      <3> HIDE DEF s
      <3>3. clock <= clock /\ s.gcra.tat <= clock + s.gcra.limit
        <4>1. clock <= clock
          BY <1>4
        <4> QED
          BY Zenon, <2>1, <4>1 DEF Booked
      <3> QED
        BY <1>4, <2>1, <3>2, <3>3, MeterFits
    <2>3. Effect(s, u, -n, clock)
      BY <1>1, <1>4, <1>5, <2>1, <2>2, RestoreEffect
    <2>4. items'[k] # NIL /\ items'[k].st = u
      <3>1. s \in WellFormed
        BY <1>10 DEF TInv, WellStored
      <3>2. u \in WellFormed
        BY <1>1, <1>4, <1>5, <3>1, StateTyped
      <3>3. [items[k] EXCEPT !.st = u] \in Entries /\ [items[k] EXCEPT !.st = u].st = u
        BY <1>4, <2>1, <3>2, EntryTyped
      <3> QED
        BY <1>2, <1>3, <1>10, <3>3, EntryAssumption
    <2>5. net'[k] = net[k] + -n /\ -n \in Int
      <3>1. net'[k] = net[k] - n
        BY <1>2, <1>3, <1>10
      <3> QED
        BY <1>4, <1>5, <3>1
    <2> HIDE DEF s
    <2>6. Booked(u, net[k] + -n, amnesties[k], waited[k] + (clock - clock), late[k], clock, clock)
      <3>1. clock <= clock
        BY <1>4
      <3> QED
        BY <1>4, <2>1, <2>3, <2>5, <3>1, BookedEffect
    <2>7. waited[k] + (clock - clock) = waited[k]
      BY <1>4
    <2>8. Booked(u, net'[k], amnesties[k], waited[k], late[k], clock, clock)
      BY <2>5, <2>6, <2>7
    <2>9. Resting(k)'
      BY <1>2, <2>4, <2>8 DEF Resting
    <2>10. Follows(k, u)
      BY <2>1, <2>3, EffectFollows
    <2>11. Follows(k, u)' /\ ~InUse(k)'
      BY <1>2, <1>8, <2>10 DEF Follows, Policy, InUse, Deciding
    <2> QED
      BY <1>2, <1>8, <2>1, <2>4, <2>9, <2>11 DEF KeyInv
  <1> QED
    BY <1>9, <1>10

\* A grant never changes its key nor its amount.
LEMMA GrantsStay ==
  ASSUME GrantsFit, spec' = spec, Len(grants') = Len(grants),
         \A i \in 1..Len(grants) : grants'[i].key = grants[i].key /\ grants'[i].n = grants[i].n
  PROVE  GrantsFit'
  <1>1. \A k : Policy(k)' = Policy(k)
    BY DEF Policy
  <1> QED
    BY <1>1 DEF GrantsFit

\* All keys are left alone, and all grants.
LEMMA AllStay ==
  ASSUME IInv, GcraFits, TInv',
         spec' = spec, clock' \in Nat, clock <= clock', clock' <= MaxTime,
         UNCHANGED <<items, net, amnesties, waited, late, known>>,
         Len(grants') = Len(grants),
         \A i \in 1..Len(grants) : grants'[i].key = grants[i].key /\ grants'[i].n = grants[i].n,
         \A h \in Goroutines : local'[h] = local[h]
           \/ (local'[h].at # "allowing" /\ local[h].at # "allowing")
  PROVE  IInv'
  <1>1. GrantsFit'
    BY GrantsStay DEF IInv
  <1>2. ASSUME NEW k \in Keys
        PROVE  KeyInv(k)'
    <2>1. \A h \in Goroutines : local'[h] = local[h]
            \/ (~Deciding(local'[h], k) /\ ~Deciding(local[h], k))
      BY DEF Deciding
    <2> QED
      BY <2>1, KeyStays DEF IInv
  <1> QED
    BY <1>1, <1>2 DEF IInv

LEMMA CallKeeps ==
  ASSUME IInv, GcraFits, NEW g \in Goroutines, Call(g)
  PROVE  IInv'
  <1>1. TInv'
    BY BeginTyped DEF IInv
  <1>2. /\ UNCHANGED <<spec, clock, items, grants, net, amnesties, waited, late, known>>
        /\ local[g] = Idle
        /\ \E l : l.at # "allowing" /\ local' = [local EXCEPT ![g] = l]
    <2>1. ASSUME NEW k \in Keys, NEW n \in Ns, CallAllow(g, k, n)
          PROVE  <1>2
      BY <2>1 DEF CallAllow, Go
    <2>2. ASSUME NEW k \in Keys, CallPeek(g, k)
          PROVE  <1>2
      BY <2>2 DEF CallPeek, Go
    <2>3. ASSUME NEW k \in Keys, CallReset(g, k)
          PROVE  <1>2
      BY <2>3 DEF CallReset, Go
    <2>4. ASSUME NEW i \in 1..Len(grants), CallCancel(g, i)
          PROVE  <1>2
      BY <2>4 DEF CallCancel, Go
    <2>5. CASE CallSweep(g)
      BY <2>5 DEF CallSweep, Go
    <2> QED
      BY <2>1, <2>2, <2>3, <2>4, <2>5 DEF Call
  <1>3. local \in [Goroutines -> Locals] /\ clock \in Nat /\ clock <= MaxTime /\ MaxTime \in Nat
    BY BoundsAssumption DEF IInv, TInv, TypeOK
  <1>4. \A h \in Goroutines : local'[h] = local[h]
          \/ (local'[h].at # "allowing" /\ local[h].at # "allowing")
    BY <1>2, <1>3, IdleTyped
  <1> QED
    BY <1>1, <1>2, <1>3, <1>4, AllStay

LEMMA SetOnceKeeps ==
  ASSUME IInv, GcraFits, NEW g \in Goroutines, SetOnce(g)
  PROVE  IInv'
  <1>1. TInv'
    BY SetOnceTyped DEF IInv
  <1>2. PICK i, l : /\ i = local[g].id /\ l.at = "restore"
                    /\ local' = [local EXCEPT ![g] = l] /\ local[g].at = "cancel"
                    /\ grants' = [grants EXCEPT ![i].once = TRUE]
    <2>1. [local[g] EXCEPT !.at = "restore"].at = "restore"
      BY LocalShape DEF IInv, TInv, TypeOK, SetOnce
    <2> QED
      BY <2>1 DEF SetOnce, Go
  <1>3. UNCHANGED <<spec, clock, items, net, amnesties, waited, late, known>>
    BY DEF SetOnce
  <1>4. /\ local \in [Goroutines -> Locals] /\ clock \in Nat /\ clock <= MaxTime
        /\ grants \in Seq(Grants) /\ i \in 1..Len(grants) /\ MaxTime \in Nat
    BY <1>2, BoundsAssumption DEF IInv, TInv, TypeOK, Memory, Remembered
  <1>5. /\ Len(grants') = Len(grants)
        /\ \A j \in 1..Len(grants) : grants'[j].key = grants[j].key /\ grants'[j].n = grants[j].n
    <2>1. PICK e : e = [grants[i] EXCEPT !.once = TRUE]
      OBVIOUS
    <2>2. e.key = grants[i].key /\ e.n = grants[i].n
      <3>1. grants[i] \in Grants
        BY <1>4
      <3> QED
        BY <2>1, <3>1 DEF Grants
    <2>3. grants' = [grants EXCEPT ![i] = e]
      BY <1>2, <2>1
    <2> QED
      BY <1>4, <2>2, <2>3
  <1>6. \A h \in Goroutines : local'[h] = local[h]
          \/ (local'[h].at # "allowing" /\ local[h].at # "allowing")
    BY <1>2, <1>4
  <1> QED
    BY <1>1, <1>3, <1>4, <1>5, <1>6, AllStay

LEMMA TickKeeps ==
  ASSUME IInv, GcraFits, Tick
  PROVE  IInv'
  <1>1. TInv'
    BY TickTyped DEF IInv
  <1>2. /\ clock \in Nat /\ clock' \in Nat /\ clock <= clock' /\ clock' <= MaxTime
        /\ UNCHANGED <<spec, items, grants, local, net, amnesties, waited, late, known>>
    BY BoundsAssumption DEF Tick, IInv, TInv, TypeOK
  <1> QED
    BY <1>1, <1>2, AllStay

LEMMA DropKeeps ==
  ASSUME IInv, GcraFits, NEW g \in Goroutines, ResetKey(g) \/ SweepShard(g)
  PROVE  IInv'
  <1>1. TInv'
    BY ResetTyped, SweepTyped DEF IInv
  <1>2. /\ UNCHANGED <<spec, clock, grants, net, waited, late, known>>
        /\ \E ks : Drop(ks)
    BY DEF ResetKey, SweepShard
  <1>3. PICK ks : Drop(ks)
    BY <1>2
  <1>4. GrantsFit'
    BY <1>2, GrantsStay DEF IInv
  <1>5. \A h \in Goroutines : local'[h] = local[h]
          \/ (local'[h].at # "allowing" /\ local[h].at # "allowing")
    <2>1. local[g].at # "allowing" /\ \A h \in Goroutines : h # g => local'[h] = local[h]
      BY DEF ResetKey, SweepShard, Go, IInv, TInv, TypeOK
    <2>2. local'[g].at # "allowing"
      <3>1. CASE ResetKey(g)
        BY <3>1, IdleTyped DEF ResetKey, Go, IInv, TInv, TypeOK
      <3>2. CASE SweepShard(g)
        <4>1. local \in [Goroutines -> Locals] /\ local[g].at = "sweep"
          BY <3>2 DEF SweepShard, IInv, TInv, TypeOK
        <4>2. PICK s : local'[g] = IF local[g].shards = {s} THEN Idle
                                   ELSE [local[g] EXCEPT !.shards = @ \ {s}]
          BY <3>2, <4>1 DEF SweepShard, Go
        <4>3. [local[g] EXCEPT !.shards = @ \ {s}].at = "sweep"
          BY <4>1 DEF Locals, Idle
        <4> QED
          BY <4>2, <4>3, IdleTyped
      <3> QED
        BY <3>1, <3>2
    <2> QED
      BY <2>1, <2>2
  <1>6. ASSUME NEW k \in Keys
        PROVE  KeyInv(k)'
    <2>1. \A h \in Goroutines : local'[h] = local[h]
            \/ (~Deciding(local'[h], k) /\ ~Deciding(local[h], k))
      BY <1>5 DEF Deciding
    <2> QED
      BY <1>2, <1>3, <2>1, KeyDropped DEF IInv
  <1> QED
    BY <1>1, <1>2, <1>4, <1>6 DEF IInv

\* Only the key of g's call, k, has anything done to it.
LEMMA OthersStay ==
  ASSUME IInv, GcraFits, NEW g \in Goroutines, NEW l, NEW k,
         spec' = spec, clock' = clock,
         \A j \in Keys \ {k} :
           /\ items'[j] = items[j] /\ net'[j] = net[j] /\ amnesties'[j] = amnesties[j]
           /\ waited'[j] = waited[j] /\ late'[j] = late[j] /\ (j \in known' <=> j \in known),
         local' = [local EXCEPT ![g] = l],
         \A j \in Keys \ {k} : ~Deciding(local[g], j) /\ ~Deciding(l, j)
  PROVE  \A j \in Keys \ {k} : KeyInv(j)'
  <1> SUFFICES ASSUME NEW j \in Keys \ {k} PROVE KeyInv(j)'
    OBVIOUS
  <1>1. local \in [Goroutines -> Locals] /\ clock \in Nat
    BY DEF IInv, TInv, TypeOK
  <1>2. \A h \in Goroutines : local'[h] = local[h]
          \/ (~Deciding(local'[h], j) /\ ~Deciding(local[h], j))
    BY <1>1
  <1>3. clock' \in Nat /\ clock <= clock'
    BY <1>1
  <1> QED
    BY <1>2, <1>3, KeyStays DEF IInv

LEMMA EnterAll ==
  ASSUME IInv, GcraFits, NEW g \in Goroutines, Enter(g)
  PROVE  IInv'
  <1>1. TInv'
    BY EnterTyped DEF IInv
  <1>2. PICK l, k, e, m :
          /\ l = local[g] /\ k = l.key /\ e = GetOrCreate(k, l.now)
          /\ m = [at |-> "allowing", key |-> k, n |-> l.n, now |-> l.now, st |-> e.st]
    OBVIOUS
  <1>3. /\ l.at = "allow" /\ items' = [items EXCEPT ![k] = e]
        /\ local' = [local EXCEPT ![g] = m]
        /\ late' = [late EXCEPT ![k] =
                       IF items[k] = NIL /\ k \in known THEN @ + (clock - l.now) ELSE @]
        /\ known' = known \cup {k}
        /\ UNCHANGED <<spec, clock, grants, net, amnesties, waited>>
    BY <1>2 DEF Enter, Go
  <1>4. /\ k \in Keys /\ items \in [Keys -> Entries \cup {NIL}] /\ late \in [Keys -> Nat]
    BY <1>2, <1>3, LocalShape DEF IInv, TInv, TypeOK, Counts
  <1>5. GrantsFit'
    BY <1>3, GrantsStay DEF IInv
  <1>6. \A j \in Keys \ {k} : KeyInv(j)'
    <2>1. \A j \in Keys \ {k} : ~Deciding(local[g], j) /\ ~Deciding(m, j)
      BY <1>2, <1>3 DEF Deciding
    <2> QED
      BY <1>3, <1>4, <2>1, OthersStay
  <1>7. KeyInv(k)'
    BY <1>2, <1>4, EnterKeeps DEF IInv
  <1> QED
    BY <1>1, <1>3, <1>5, <1>6, <1>7 DEF IInv

LEMMA PeekAll ==
  ASSUME IInv, GcraFits, NEW g \in Goroutines, PeekKey(g)
  PROVE  IInv'
  <1>1. TInv'
    BY PeekTyped DEF IInv
  <1>2. PICK l, k, u : l = local[g] /\ k = l.key /\ u = Peek(items[k].st, 1, l.now).st
    OBVIOUS
  <1>3. /\ l.at = "peek"
        /\ items' = [items EXCEPT ![k] = IF @ = NIL THEN NIL ELSE [@ EXCEPT !.st = u]]
        /\ waited' = [waited EXCEPT ![k] = @ + (clock - l.now)]
        /\ local' = [local EXCEPT ![g] = Idle]
        /\ UNCHANGED <<spec, clock, grants, net, amnesties, late, known>>
    BY <1>2 DEF PeekKey, Go
  <1>4. /\ k \in Keys /\ items \in [Keys -> Entries \cup {NIL}] /\ waited \in [Keys -> Nat]
    BY <1>2, <1>3, LocalShape DEF IInv, TInv, TypeOK, Counts
  <1>5. GrantsFit'
    BY <1>3, GrantsStay DEF IInv
  <1>6. \A j \in Keys \ {k} : KeyInv(j)'
    <2>1. \A j \in Keys \ {k} : ~Deciding(local[g], j) /\ ~Deciding(Idle, j)
      BY <1>2, <1>3, IdleTyped DEF Deciding
    <2> QED
      BY <1>3, <1>4, <2>1, OthersStay
  <1>7. KeyInv(k)'
    BY <1>2, <1>4, PeekKeeps DEF IInv
  <1> QED
    BY <1>1, <1>3, <1>5, <1>6, <1>7 DEF IInv

LEMMA DecideAll ==
  ASSUME IInv, GcraFits, ChargedInFull, NEW g \in Goroutines, Decide(g)
  PROVE  IInv'
  <1>1. TInv'
    BY DecideTyped DEF IInv
  <1>2. PICK l, k, r : l = local[g] /\ k = l.key /\ r = Allow(l.st, l.n, l.now)
    OBVIOUS
  <1>3. /\ l.at = "allowing"
        /\ items' = [items EXCEPT ![k] =
             IF @ = NIL THEN NIL
             ELSE IF r.out = "panic" THEN [@ EXCEPT !.st = r.st]
             ELSE Touch([@ EXCEPT !.st = r.st], l.now)]
        /\ IF r.out = "ok"
             THEN /\ grants' = Append(grants, [key |-> k, n |-> l.n, at |-> l.now,
                                               once |-> FALSE, back |-> 0])
                  /\ net' = [net EXCEPT ![k] = @ + l.n]
             ELSE UNCHANGED <<grants, net>>
        /\ waited' = [waited EXCEPT ![k] = @ + (clock - l.now)]
        /\ local' = [local EXCEPT ![g] = Idle]
        /\ UNCHANGED <<spec, clock, amnesties, late, known>>
    BY <1>2 DEF Decide, Go
  <1>4. /\ k \in Keys /\ items \in [Keys -> Entries \cup {NIL}] /\ waited \in [Keys -> Nat]
        /\ net \in [Keys -> Int] /\ grants \in Seq(Grants)
    BY <1>2, <1>3, LocalShape DEF IInv, TInv, TypeOK, Counts
  <1>5. GrantsFit'
    <2>1. CASE r.out # "ok"
      BY <1>3, <2>1, GrantsStay DEF IInv
    <2>2. CASE r.out = "ok"
      <3>1. Policy(k).gcra # NIL => l.n <= Policy(k).gcra.burst
        <4>1. Deciding(local[g], k) /\ Working(k, l)
          BY <1>2, <1>3, <1>4 DEF Deciding, KeyInv, IInv
        <4>2. PICK a \in Nat : Booked(l.st, net[k], a, waited[k], late[k], clock, l.now)
          <5>1. amnesties[k] \in Nat
            BY <1>4, CountTypes DEF IInv
          <5>2. amnesties[k] > 0 => amnesties[k] - 1 \in Nat
            BY <5>1
          <5> QED
            BY <4>1, <5>1, <5>2 DEF Working
        <4>3. Follows(k, l.st)
          BY <4>1 DEF Working
        <4> QED
          BY <1>2, <1>4, <2>2, <4>1, <4>2, <4>3, DecideEffect DEF IInv
      <3>2. \A j : Policy(j)' = Policy(j)
        BY <1>3 DEF Policy
      <3>3. PICK x : x = [key |-> k, n |-> l.n, at |-> l.now, once |-> FALSE, back |-> 0]
        OBVIOUS
      <3>4. x.key = k /\ x.n = l.n /\ grants' = Append(grants, x)
        BY <1>3, <2>2, <3>3
      <3>5. \A i \in 1..Len(grants') :
              \/ grants'[i] = x
              \/ (i \in 1..Len(grants) /\ grants'[i] = grants[i])
        BY <1>4, <3>4
      <3> QED
        BY <3>1, <3>2, <3>4, <3>5 DEF GrantsFit, IInv
    <2> QED
      BY <2>1, <2>2
  <1>6. \A j \in Keys \ {k} : KeyInv(j)'
    <2>1. \A j \in Keys \ {k} : ~Deciding(local[g], j) /\ ~Deciding(Idle, j)
      BY <1>2, <1>3, IdleTyped DEF Deciding
    <2>2. \A j \in Keys \ {k} : net'[j] = net[j]
      BY <1>3, <1>4
    <2> QED
      BY <1>3, <1>4, <2>1, <2>2, OthersStay
  <1>7. KeyInv(k)'
    BY <1>2, <1>4, DecideKeeps DEF IInv
  <1> QED
    BY <1>1, <1>3, <1>5, <1>6, <1>7 DEF IInv

LEMMA CancelAll ==
  ASSUME IInv, GcraFits, ChargedInFull, NEW g \in Goroutines, RestoreKey(g)
  PROVE  IInv'
  <1>1. TInv'
    BY CancelTyped DEF IInv
  <1>2. PICK i, k, n, u : /\ i = local[g].id /\ k = grants[i].key /\ n = grants[i].n
                          /\ u = Restore(items[k].st, n, clock)
    OBVIOUS
  <1>3. /\ local[g].at = "restore" /\ local' = [local EXCEPT ![g] = Idle]
        /\ UNCHANGED <<spec, clock, amnesties, waited, late, known>>
        /\ \/ UNCHANGED <<items, grants, net>>
           \/ /\ items' = [items EXCEPT ![k].st = u]
              /\ grants' = [grants EXCEPT ![i].back = @ + 1]
              /\ net' = [net EXCEPT ![k] = @ - n]
    BY <1>2 DEF RestoreKey, Go
  <1>4. /\ i \in 1..Len(grants) /\ grants \in Seq(Grants)
        /\ items \in [Keys -> Entries \cup {NIL}] /\ net \in [Keys -> Int]
    BY <1>2, <1>3 DEF IInv, TInv, TypeOK, Counts, Memory, Remembered
  <1>5. k \in Keys
    <2>1. grants[i] \in Grants
      BY <1>4
    <2> QED
      BY <1>2, <2>1 DEF Grants
  <1>6. GrantsFit'
    <2>1. CASE UNCHANGED grants
      BY <1>3, <2>1, GrantsStay DEF IInv
    <2>2. CASE grants' = [grants EXCEPT ![i].back = @ + 1]
      <3>1. PICK e : e = [grants[i] EXCEPT !.back = @ + 1]
        OBVIOUS
      <3>2. e.key = grants[i].key /\ e.n = grants[i].n
        <4>1. grants[i] \in Grants
          BY <1>4
        <4> QED
          BY <3>1, <4>1 DEF Grants
      <3>3. grants' = [grants EXCEPT ![i] = e]
        BY <2>2, <3>1
      <3>4. /\ Len(grants') = Len(grants)
            /\ \A j \in 1..Len(grants) :
                 grants'[j].key = grants[j].key /\ grants'[j].n = grants[j].n
        BY <1>4, <3>2, <3>3
      <3> QED
        BY <1>3, <3>4, GrantsStay DEF IInv
    <2> QED
      BY <1>3, <2>1, <2>2
  <1>7. \A j \in Keys \ {k} : KeyInv(j)'
    <2>1. \A j \in Keys : ~Deciding(local[g], j) /\ ~Deciding(Idle, j)
      BY <1>3, IdleTyped DEF Deciding
    <2>2. \A j \in Keys \ {k} : net'[j] = net[j] /\ items'[j] = items[j]
      BY <1>3, <1>4
    <2> QED
      BY <1>3, <1>4, <2>1, <2>2, OthersStay
  <1>8. KeyInv(k)'
    BY <1>2, <1>5, CancelKeeps DEF IInv
  <1> QED
    BY <1>1, <1>3, <1>6, <1>7, <1>8 DEF IInv

LEMMA InitKeeps ==
  ASSUME Init, GcraFits
  PROVE  IInv
  <1>1. TInv
    BY InitTyped
  <1>2. clock <= MaxTime /\ GrantsFit
    BY BoundsAssumption DEF Init, GrantsFit
  <1>3. ASSUME NEW k \in Keys
        PROVE  KeyInv(k)
    <2>1. /\ clock = 0 /\ items[k] = NIL /\ net[k] = 0 /\ amnesties[k] = 0
          /\ waited[k] = 0 /\ late[k] = 0 /\ k \notin known
          /\ \A g \in Goroutines : ~Deciding(local[g], k)
      BY IdleTyped DEF Init, Deciding
    <2>2. ~InUse(k)
      BY <2>1 DEF InUse, Deciding
    <2>3. PICK p : p = Policy(k)
      OBVIOUS
    <2>4. Closed(p, 0, 0, 0, 0, 0)
      <3>1. p \in GoodStates
        BY <1>1, <2>3, PolicyGood
      <3>2. /\ p.tb # NIL => p.tb.burst \in Nat /\ p.tb.rate \in Nat
            /\ p.gcra # NIL => p.gcra.interval \in Nat /\ p.gcra.limit \in Nat
        BY <3>1, GoodFields DEF Buckets, TB!States, Meters, GC!States
      <3> QED
        BY <3>2, ScaleAssumption DEF Closed
    <2>5. Resting(k)
      BY <2>1, <2>3, <2>4 DEF Resting
    <2> QED
      BY <2>1, <2>2, <2>5 DEF KeyInv
  <1> QED
    BY <1>1, <1>2, <1>3 DEF IInv

LEMMA NextKeeps ==
  ASSUME IInv, GcraFits, ChargedInFull, [Next]_vars
  PROVE  IInv'
  <1>1. ASSUME NEW g \in Goroutines, Call(g) PROVE IInv'
    BY <1>1, CallKeeps
  <1>2. ASSUME NEW g \in Goroutines, Acquire(g) PROVE IInv'
    BY <1>2, EnterAll, PeekAll, DropKeeps, CancelAll DEF Acquire
  <1>3. ASSUME NEW g \in Goroutines, Continue(g) PROVE IInv'
    BY <1>3, DecideAll, SetOnceKeeps, DropKeeps DEF Continue
  <1>4. CASE Tick
    BY <1>4, TickKeeps
  <1>5. CASE UNCHANGED vars
    <2>1. TInv'
      BY <1>5, NextTyped DEF IInv
    <2>2. clock' \in Nat /\ clock <= clock' /\ clock' <= MaxTime
      BY <1>5 DEF vars, IInv, TInv, TypeOK
    <2> QED
      BY <1>5, <2>1, <2>2, AllStay DEF vars
  <1> QED
    BY <1>1, <1>2, <1>3, <1>4, <1>5 DEF Next

\* The accounts balance in every reachable state: every entry of the store, and
\* every state a decision holds under its lock (allow.go:146), is paid for, and
\* an entry that is dropped (allow.go:80, store/shard.go:114) while it was not is
\* counted as an amnesty.
THEOREM Balanced ==
  ASSUME GcraFits, ChargedInFull
  PROVE  Spec => []IInv
  <1>1. Init => IInv
    BY InitKeeps
  <1>2. IInv /\ [Next]_vars => IInv'
    BY NextKeeps
  <1> QED
    BY <1>1, <1>2, PTL DEF Spec

\* A stored entry has been paid for, and the drop it may still have to come
\* would make up for all it has not forgotten.
LEMMA StoredPaid ==
  ASSUME IInv, NEW k \in Keys, items[k] # NIL
  PROVE  Closed(items[k].st, net[k], amnesties[k] + 1, waited[k], late[k], clock)
  <1>1. /\ net[k] \in Int /\ amnesties[k] \in Nat /\ waited[k] \in Nat /\ late[k] \in Nat
        /\ clock \in Nat
    BY CountTypes DEF IInv
  <1>2. items[k].st \in GoodStates
    BY DEF IInv, KeyInv, Follows
  <1>3. PICK t \in Nat :
          t <= clock /\ Booked(items[k].st, net[k], amnesties[k], waited[k], late[k], clock, t)
    <2>1. CASE ~InUse(k)
      <3>1. clock <= clock
        BY <1>1
      <3> QED
        BY <1>1, <2>1, <3>1 DEF IInv, KeyInv, Resting
    <2>2. CASE InUse(k)
      <3>1. PICK g \in Goroutines : Deciding(local[g], k)
        BY <2>2 DEF InUse, Deciding
      <3>2. /\ local[g].now \in Nat /\ local[g].now <= clock
            /\ Working(k, local[g])
        BY <3>1, DeciderTypes DEF IInv, KeyInv
      <3> QED
        BY <3>2 DEF Working
    <2> QED
      BY <2>1, <2>2
  <1> QED
    BY <1>1, <1>2, <1>3, BookedDropped

\* GCRA's bound on a key, whatever the number of goroutines, keys and shards
\* and the policies: however calls, cancellations, even twice over, resets and
\* sweeps overlap, a key lets through its allowance once, once more for every
\* entry dropped too early (allow.go:80, store/shard.go:114), what the time
\* earns, and once more the time by which calls that made the entry anew were
\* late (allow.go:131).  Waiting for a lock never adds to it.
THEOREM GcraKeyBoundHolds ==
  ASSUME GcraFits, ChargedInFull
  PROVE  Spec => []GcraKeyBound
  <1>1. ASSUME IInv, NEW k \in Keys, items[k] # NIL, items[k].st.gcra # NIL
        PROVE  LET g == items[k].st.gcra
               IN g.interval * net[k] <= g.limit * (1 + amnesties[k]) + clock + late[k]
    <2>1. PICK g : g = items[k].st.gcra
      OBVIOUS
    <2>2. /\ net[k] \in Int /\ amnesties[k] \in Nat /\ late[k] \in Nat /\ clock \in Nat
      BY <1>1, CountTypes DEF IInv
    <2>3. g.interval \in Nat /\ g.limit \in Nat
      <3>1. items[k].st \in GoodStates
        BY <1>1 DEF IInv, KeyInv, Follows
      <3>2. g \in Meters
        BY <1>1, <2>1, <3>1, GoodFields
      <3> QED
        BY <3>2 DEF Meters, GC!States
    <2>4. g.interval = 0
          \/ g.interval * net[k] <= (g.limit * (amnesties[k] + 1) + late[k]) + clock
      BY <1>1, <2>1, StoredPaid DEF Closed
    <2>5. PICK x \in Nat : x = g.limit * (1 + amnesties[k])
      BY <2>2, <2>3
    <2>6. g.limit * (amnesties[k] + 1) = x
      BY <2>2, <2>3, <2>5
    <2>7. CASE g.interval = 0
      <3>1. g.interval * net[k] = 0
        BY <2>2, <2>7
      <3>2. 0 <= x + clock + late[k]
        BY <2>2, <2>5
      <3> QED
        BY <2>1, <2>5, <3>1, <3>2
    <2>8. CASE g.interval * net[k] <= (x + late[k]) + clock
      <3>1. PICK y \in Int : y = g.interval * net[k]
        BY <2>2, <2>3
      <3>2. y <= x + clock + late[k]
        BY <2>2, <2>5, <2>8, <3>1
      <3> QED
        BY <2>1, <2>5, <3>1, <3>2
    <2> QED
      BY <2>4, <2>6, <2>7, <2>8
  <1>2. IInv => GcraKeyBound
    BY <1>1 DEF GcraKeyBound
  <1> QED
    BY <1>2, Balanced, PTL

\* The bucket's bound on a key, likewise: its burst once and once more for
\* every entry dropped too early, what the time earns, and what the time that
\* calls waited for the lock earns once more, since a call that decides with an
\* old reading of the clock sets the bucket back to it (bucket.go:79).
THEOREM BucketKeyBoundHolds ==
  ASSUME GcraFits, ChargedInFull
  PROVE  Spec => []BucketKeyBound
  <1>1. ASSUME IInv, NEW k \in Keys, items[k] # NIL, items[k].st.tb # NIL
        PROVE  LET b == items[k].st.tb
               IN Second * Grain * net[k]
                    <= Second * b.burst * (1 + amnesties[k]) + b.rate * (clock + waited[k])
    <2>1. PICK b : b = items[k].st.tb
      OBVIOUS
    <2>2. /\ net[k] \in Int /\ amnesties[k] \in Nat /\ waited[k] \in Nat /\ clock \in Nat
      BY <1>1, CountTypes DEF IInv
    <2>3. b.burst \in Nat /\ b.rate \in Nat
      <3>1. items[k].st \in GoodStates
        BY <1>1 DEF IInv, KeyInv, Follows
      <3>2. b \in Buckets
        BY <1>1, <2>1, <3>1, GoodFields
      <3> QED
        BY <3>2 DEF Buckets, TB!States
    <2>4. Second * (Grain * net[k])
            <= Second * (b.burst * (amnesties[k] + 1)) + b.rate * (clock + waited[k])
      BY <1>1, <2>1, StoredPaid DEF Closed
    <2>5. /\ Second * (Grain * net[k]) = Second * Grain * net[k]
          /\ Second * (b.burst * (amnesties[k] + 1)) = Second * b.burst * (1 + amnesties[k])
      BY <2>2, <2>3, ScaleAssumption
    <2> QED
      BY <2>1, <2>4, <2>5
  <1>2. IInv => BucketKeyBound
    BY <1>1 DEF BucketKeyBound
  <1> QED
    BY <1>2, Balanced, PTL

-----------------------------------------------------------------------------
(* What a decision does to a log.                                          *)

\* What a decision does to a well-formed log, whether or not the words of GCRA
\* wrap: what it grants the log has let in, and a refusal at most prunes it.
LEMMA AllowLog ==
  ASSUME NEW s \in WellFormed, NEW n \in Nat, NEW t \in Nat, s.log # NIL
  PROVE  LET a == Allow(s, n, t)
             l == Log!Allow(s.log, n, t)
         IN /\ a.out = "ok" => l.out = "ok" /\ a.st.log = l.st
            /\ a.out # "ok" => a.st.log = s.log \/ (l.out # "ok" /\ a.st.log = l.st)
  <1>1. PICK r, w, a, l : /\ r = AllowRate(s, n, t) /\ w = AllowWindow(r.st, n, t)
                          /\ a = Allow(s, n, t) /\ l = Log!Allow(s.log, n, t)
    OBVIOUS
  <1>2. r.st \in WellFormed /\ w.st \in WellFormed
    BY <1>1, RateTyped, WindowTyped
  <1>3. r.st.log = s.log
    <2>1. \A x : [s EXCEPT !.tb = x].log = s.log /\ [s EXCEPT !.gcra = x].log = s.log
      BY DEF WellFormed
    <2> QED
      BY <1>1, <2>1 DEF AllowRate, Step
  <1>4. w.out = l.out /\ w.st.log = l.st
    <2>1. w = Step([r.st EXCEPT !.log = l.st], l, "window")
      BY <1>1, <1>3 DEF AllowWindow
    <2>2. [r.st EXCEPT !.log = l.st].log = l.st
      BY <1>2 DEF WellFormed
    <2> QED
      BY <2>1, <2>2 DEF Step
  <1>5. \/ a = r /\ r.out # "ok"
        \/ a = w /\ w.out = "ok"
        \/ w.out # "ok" /\ a.out = w.out /\ a.st = RestoreRate(w.st, n, t)
    <2>1. [w EXCEPT !.st = RestoreRate(@, n, t)].st = RestoreRate(w.st, n, t)
          /\ [w EXCEPT !.st = RestoreRate(@, n, t)].out = w.out
      BY <1>1 DEF AllowWindow, Step
    <2> QED
      BY <1>1, <2>1 DEF Allow
  <1>6. RestoreRate(w.st, n, t).log = w.st.log
    <2>1. \A v \in WellFormed : \A x, y : [v EXCEPT !.tb = x, !.gcra = y].log = v.log
      BY DEF WellFormed
    <2> QED
      BY <1>2, <2>1 DEF RestoreRate
  <1> QED
    BY <1>1, <1>3, <1>4, <1>5, <1>6

LEMMA PeekLog ==
  ASSUME NEW s \in WellFormed, NEW n \in Nat, NEW t \in Nat
  PROVE  Peek(s, n, t).st.log = s.log
  <1>1. PICK r, w : r = PeekRate(s, n, t) /\ w = PeekWindow(r.st, n, t)
    OBVIOUS
  <1>2. r.st \in WellFormed
    BY <1>1, RateTyped
  <1>3. r.st.log = s.log
    <2>1. \A x : [s EXCEPT !.tb = x].log = s.log
      BY DEF WellFormed
    <2> QED
      BY <1>1, <2>1 DEF PeekRate, Step
  <1>4. w.st.log = r.st.log
    <2>1. \A x : [r.st EXCEPT !.ctr = x].log = r.st.log
      BY <1>2 DEF WellFormed
    <2> QED
      BY <1>1, <2>1 DEF PeekWindow, Step
  <1> QED
    BY <1>1, <1>3, <1>4 DEF Peek

-----------------------------------------------------------------------------
(* The window of a key under a sliding log.  Below, o[T] is what the key   *)
(* was granted after T, and room what rings that were dropped have held.   *)

\* Everything granted in the window that ends at c, or after, is in the ring,
\* or in one of those that were dropped.
Covered(o, size, room, ring, c) ==
  \A T \in Int : c - size <= T => o[T] <= room + Cardinality(Newer(ring, T))

LEMMA CoveredLater ==
  ASSUME NEW o, NEW size \in Nat, NEW room, NEW ring, NEW c \in Int, NEW d \in Int, c <= d,
         Covered(o, size, room, ring, c)
  PROVE  Covered(o, size, room, ring, d)
  BY DEF Covered

\* A ring that is dropped held no more than the limit.
LEMMA CoveredDropped ==
  ASSUME NEW o \in [Int -> Nat], NEW size \in Nat, NEW room \in Nat, NEW ring \in Seq(Int),
         NEW limit \in Nat, Len(ring) <= limit, NEW c \in Int,
         Covered(o, size, room, ring, c)
  PROVE  Covered(o, size, room + limit, <<>>, c)
  <1> SUFFICES ASSUME NEW T \in Int, c - size <= T
               PROVE  o[T] <= (room + limit) + Cardinality(Newer(<<>>, T))
    BY DEF Covered
  <1>1. <<>> \in Seq(Int)
    OBVIOUS
  <1>2. PICK u \in Nat, y \in Nat, z \in Nat :
           u = o[T] /\ y = Cardinality(Newer(ring, T)) /\ z = Cardinality(Newer(<<>>, T))
    BY <1>1, NewerFinite
  <1>3. y <= limit
    <2>1. PICK k \in Nat : k = Len(ring) /\ k <= limit
      OBVIOUS
    <2>2. y <= k
      BY <1>2, <2>1, NewerFinite
    <2> QED
      BY <2>1, <2>2
  <1>4. u <= room + y
    BY <1>2 DEF Covered
  <1>5. u <= (room + limit) + z
    BY <1>3, <1>4
  <1> QED
    BY <1>2, <1>5

\* A ring that has recovered covers nothing that is still in the window.
LEMMA CoveredRecovered ==
  ASSUME NEW o, NEW size \in Nat, NEW room, NEW ring \in Seq(Int), NEW c \in Int,
         Covered(o, size, room, ring, c), Log!Prune(ring, c - size) = <<>>
  PROVE  Covered(o, size, room, <<>>, c)
  <1> SUFFICES ASSUME NEW T \in Int, c - size <= T
               PROVE  o[T] <= room + Cardinality(Newer(<<>>, T))
    BY DEF Covered
  <1>1. PICK cut \in Int : cut = c - size /\ cut <= T
    OBVIOUS
  <1>2. PICK k \in 0..Len(ring) :
           /\ Log!Prune(ring, cut) = SubSeq(ring, k + 1, Len(ring))
           /\ \A q \in 1..k : ring[q] <= cut
    BY PruneDrops
  <1>3. PICK m \in Nat : m = Len(ring) /\ k \in Nat /\ k <= m
    BY <1>2
  <1>4. k = m
    <2>1. SubSeq(ring, k + 1, m) = <<>>
      BY <1>1, <1>2, <1>3
    <2>2. k + 1 <= m => Len(SubSeq(ring, k + 1, m)) = m - (k + 1) + 1
      BY <1>3
    <2>3. Len(<<>>) = 0
      OBVIOUS
    <2>4. ~(k + 1 <= m)
      <3> SUFFICES ASSUME k + 1 <= m PROVE FALSE
        OBVIOUS
      <3>1. m - (k + 1) + 1 = 0
        BY <2>1, <2>2, <2>3
      <3> QED
        BY <1>3, <3>1
    <2> QED
      BY <1>3, <2>4
  <1>5. Newer(ring, T) = {}
    <2> SUFFICES ASSUME NEW q \in 1..Len(ring), ring[q] > T PROVE FALSE
      BY DEF Newer
    <2>1. ring[q] \in Int /\ ring[q] <= cut
      BY <1>2, <1>3, <1>4
    <2>2. PICK v \in Int : v = ring[q] /\ v > T /\ v <= cut
      BY <2>1
    <2> QED
      BY <1>1, <2>2
  <1>6. Newer(<<>>, T) = {}
    BY DEF Newer
  <1> QED
    BY <1>5, <1>6 DEF Covered

\* What a decision at time t lets in it puts into the ring.
Credited(o, n, t) == [T \in Int |-> o[T] + (IF t > T THEN n ELSE 0)]

LEMMA CoveredDecides ==
  ASSUME NEW o \in [Int -> Nat], NEW l \in Logs, NEW size \in Nat, l.size = size,
         NEW room \in Nat, NEW c \in Nat, Covered(o, size, room, l.ring, c),
         NEW n \in Nat \ {0}, NEW t \in Nat, t <= c
  PROVE  LET r == Log!Allow(l, n, t)
         IN /\ Covered(IF r.out = "ok" THEN Credited(o, n, t) ELSE o, size, room, r.st.ring, c)
            /\ r.st.size = l.size /\ r.st.limit = l.limit
  <1>1. PICK r : r = Log!Allow(l, n, t)
    OBVIOUS
  <1>2. l.ring \in Seq(Int) /\ r.st.ring \in Seq(Int)
    <2>1. n \in Nat /\ t \in Int
      OBVIOUS
    <2>2. r.st \in Logs
      BY <1>1, <2>1, LogAllow
    <2> QED
      BY <2>2 DEF Logs, Log!States
  <1>3. ASSUME NEW T \in Int, t - size <= T
        PROVE  /\ r.st.size = l.size /\ r.st.limit = l.limit
               /\ Cardinality(Newer(l.ring, T)) + (IF r.out = "ok" /\ t > T THEN n ELSE 0)
                    <= Cardinality(Newer(r.st.ring, T))
    <2>1. t - l.size <= T /\ t \in Int
      BY <1>3
    <2> QED
      BY <1>1, <2>1, LogDecides
  <1>4. r.st.size = l.size /\ r.st.limit = l.limit
    <2>1. PICK T \in Int : t - size <= T
      <3>1. t - size \in Int /\ t - size <= t - size
        OBVIOUS
      <3> QED
        BY <3>1
    <2> QED
      BY <1>3, <2>1
  <1>5. ASSUME NEW T \in Int, c - size <= T
        PROVE  (IF r.out = "ok" THEN Credited(o, n, t) ELSE o)[T]
                 <= room + Cardinality(Newer(r.st.ring, T))
    <2>1. PICK e \in Nat : e = IF r.out = "ok" /\ t > T THEN n ELSE 0
      OBVIOUS
    <2>2. PICK u \in Nat, x \in Nat, y \in Nat :
             u = o[T] /\ x = Cardinality(Newer(l.ring, T)) /\ y = Cardinality(Newer(r.st.ring, T))
      BY <1>2, NewerFinite
    <2>3. (IF r.out = "ok" THEN Credited(o, n, t) ELSE o)[T] = u + e
      BY <2>1, <2>2 DEF Credited
    <2>4. t - size <= T
      BY <1>5
    <2>5. x + e <= y
      BY <1>3, <2>1, <2>2, <2>4
    <2>6. u <= room + x
      BY <1>5, <2>2 DEF Covered
    <2>7. u + e <= room + y
      BY <2>5, <2>6
    <2> QED
      BY <2>2, <2>3, <2>7
  <1> QED
    BY <1>1, <1>4, <1>5 DEF Covered

\* A decision on a whole state, whatever its rate does.
LEMMA StateCovered ==
  ASSUME NEW s \in WellFormed, s.log # NIL, NEW o \in [Int -> Nat], NEW size \in Nat,
         s.log.size = size, NEW room \in Nat, NEW c \in Nat,
         Covered(o, size, room, s.log.ring, c),
         NEW n \in Nat \ {0}, NEW t \in Nat, t <= c
  PROVE  LET a == Allow(s, n, t)
         IN /\ Covered(IF a.out = "ok" THEN Credited(o, n, t) ELSE o,
                       size, room, a.st.log.ring, c)
            /\ a.st.log \in Logs /\ a.st.log # NIL
            /\ a.st.log.size = size /\ a.st.log.limit = s.log.limit
  <1>1. PICK a, r, l : a = Allow(s, n, t) /\ l = s.log /\ r = Log!Allow(l, n, t)
    OBVIOUS
  <1>2. l \in Logs /\ n \in Nat
    BY <1>1 DEF WellFormed
  <1>3. /\ Covered(IF r.out = "ok" THEN Credited(o, n, t) ELSE o, size, room, r.st.ring, c)
        /\ r.st.size = l.size /\ r.st.limit = l.limit /\ r.st \in Logs
    <2>1. l.size = size /\ Covered(o, size, room, l.ring, c) /\ t \in Int
      BY <1>1
    <2>2. r.st \in Logs
      BY <1>1, <1>2, <2>1, LogAllow
    <2>3. /\ Covered(IF r.out = "ok" THEN Credited(o, n, t) ELSE o, size, room, r.st.ring, c)
          /\ r.st.size = l.size /\ r.st.limit = l.limit
      BY <1>1, <1>2, <2>1, CoveredDecides
    <2> QED
      BY <2>2, <2>3
  <1>4. /\ a.out = "ok" => r.out = "ok" /\ a.st.log = r.st
        /\ a.out # "ok" => a.st.log = l \/ (r.out # "ok" /\ a.st.log = r.st)
    BY <1>1, <1>2, AllowLog
  <1>5. \A x \in Logs : x # NIL
    BY NilAssumption DEF Logs
  <1> QED
    BY <1>1, <1>2, <1>3, <1>4, <1>5

-----------------------------------------------------------------------------
(* What a key under a sliding log was granted.                             *)

Granted == [i \in 1..Len(grants) |-> grants[i].n]

Since(k, T) == {i \in 1..Len(grants) : grants[i].key = k /\ grants[i].at > T}

Owed(k) == [T \in Int |-> Total(Granted, Since(k, T))]

LEMMA GrantFields ==
  ASSUME TInv
  PROVE  /\ Len(grants) \in Nat
         /\ \A i \in 1..Len(grants) :
              /\ grants[i] \in Grants /\ grants[i].key \in Keys
              /\ grants[i].n \in Nat /\ grants[i].at \in Nat /\ grants[i].back \in Nat
              /\ Granted[i] = grants[i].n
  <1>1. grants \in Seq(Grants) /\ Ns \subseteq Nat
    BY BoundsAssumption DEF TInv, TypeOK
  <1>2. Len(grants) \in Nat /\ \A i \in 1..Len(grants) : grants[i] \in Grants
    BY <1>1
  <1>3. \A x \in Grants : x.key \in Keys /\ x.n \in Nat /\ x.at \in Nat /\ x.back \in Nat
    BY <1>1 DEF Grants
  <1>4. \A i \in 1..Len(grants) : Granted[i] = grants[i].n
    BY DEF Granted
  <1> QED
    BY <1>2, <1>3, <1>4

LEMMA SinceFinite ==
  ASSUME TInv, NEW k, NEW T
  PROVE  IsFiniteSet(Since(k, T)) /\ Since(k, T) \subseteq 1..Len(grants)
  <1>1. Len(grants) \in Nat
    BY GrantFields
  <1>2. PICK m \in Int : m = Len(grants)
    BY <1>1
  <1>3. IsFiniteSet(1..m)
    BY FS_Interval
  <1>4. Since(k, T) \subseteq 1..m
    BY <1>2 DEF Since
  <1> QED
    BY <1>2, <1>3, <1>4, FS_Subset

LEMMA OwedType ==
  ASSUME TInv, NEW k
  PROVE  Owed(k) \in [Int -> Nat]
  <1> SUFFICES ASSUME NEW T \in Int PROVE Total(Granted, Since(k, T)) \in Nat
    BY DEF Owed
  <1>1. PICK S, w : S = Since(k, T) /\ w = Granted
    OBVIOUS
  <1>2. IsFiniteSet(S) /\ \A i \in S : w[i] \in Nat
    BY <1>1, SinceFinite, GrantFields
  <1>3. Total(w, S) \in Nat
    BY <1>2, TotalType
  <1> QED
    BY <1>1, <1>3

LEMMA OwedStays ==
  ASSUME NEW k, Len(grants') = Len(grants),
         \A i \in 1..Len(grants) : /\ grants'[i].key = grants[i].key
                                   /\ grants'[i].n = grants[i].n /\ grants'[i].at = grants[i].at
  PROVE  Owed(k)' = Owed(k)
  <1>1. Granted' = Granted
    BY DEF Granted
  <1>2. \A T : Since(k, T)' = Since(k, T)
    BY DEF Since
  <1> QED
    BY <1>1, <1>2 DEF Owed

LEMMA OwedMore ==
  ASSUME TInv, NEW x \in Grants, grants' = Append(grants, x)
  PROVE  /\ Owed(x.key)' = Credited(Owed(x.key), x.n, x.at)
         /\ \A k : k # x.key => Owed(k)' = Owed(k)
  <1>1. PICK m \in Nat : m = Len(grants)
    BY GrantFields
  <1>2. /\ Len(grants') = m + 1 /\ grants'[m + 1] = x
        /\ \A i \in 1..m : grants'[i] = grants[i]
    BY <1>1 DEF TInv, TypeOK
  <1>3. PICK n \in Nat, at \in Nat : n = x.n /\ at = x.at
    BY BoundsAssumption DEF Grants
  <1>4. PICK v, w : v = Granted' /\ w = Granted
    OBVIOUS
  <1>5. v[m + 1] = n /\ \A i \in 1..m : w[i] \in Nat /\ v[i] = w[i]
    <2>1. v = [i \in 1..(m + 1) |-> grants'[i].n]
      BY <1>2, <1>4 DEF Granted
    <2>2. m + 1 \in 1..(m + 1) /\ \A i \in 1..m : i \in 1..(m + 1)
      OBVIOUS
    <2>3. v[m + 1] = n
      BY <1>2, <1>3, <2>1, <2>2
    <2>4. \A i \in 1..m : w[i] \in Nat /\ w[i] = grants[i].n
      BY <1>1, <1>4, GrantFields
    <2> QED
      BY <1>2, <2>1, <2>2, <2>3, <2>4
  <1>6. ASSUME NEW k, NEW T \in Int
        PROVE  Total(v, Since(k, T)') = Total(w, Since(k, T))
                                          + (IF k = x.key /\ at > T THEN n ELSE 0)
    <2>1. PICK S \in SUBSET (1..m) : S = Since(k, T)
      BY <1>1 DEF Since
    <2>2. Since(k, T)' = IF k = x.key /\ at > T THEN S \cup {m + 1} ELSE S
      <3>1. \A i : i \in 1..(m + 1) <=> i \in 1..m \/ i = m + 1
        OBVIOUS
      <3>2. m + 1 \notin 1..m
        OBVIOUS
      <3> QED
        BY <1>1, <1>2, <1>3, <2>1, <3>1, <3>2 DEF Since
    <2>3. Total(v, S) = Total(w, S) /\ Total(v, S \cup {m + 1}) = Total(w, S) + n
      <3>1. PICK y : y = m + 1 /\ y \notin S
        OBVIOUS
      <3>2. IsFiniteSet(S)
        BY <2>1, SinceFinite
      <3>3. y \notin S /\ v[y] = n /\ v[y] \in Int
        BY <1>5, <3>1
      <3>4. (\A i \in S : w[i] \in Int) /\ (\A i \in S : v[i] = w[i])
        BY <1>5
      <3>5. Total(v, S) = Total(w, S) /\ Total(v, S \cup {y}) = Total(w, S) + v[y]
        <4>1. Total(v, S) = Total(w, S)
          BY <3>2, <3>4, TotalSame
        <4>2. \A i \in S : v[i] \in Int
          BY <3>4
        <4>3. Total(v, S \cup {y}) = Total(v, S) + v[y]
          BY <3>2, <3>3, <4>2, TotalMore
        <4> QED
          BY <4>1, <4>3
      <3> QED
        BY <3>1, <3>3, <3>5
    <2>4. Total(w, S) \in Nat
      <3>1. Owed(k)[T] = Total(w, S)
        BY <1>4, <2>1 DEF Owed
      <3> QED
        BY <3>1, OwedType
    <2>5. PICK y \in Nat : y = Total(w, S) /\ y + 0 = y
      BY <2>4
    <2> QED
      BY <2>1, <2>2, <2>3, <2>5
  <1>7. \A k : \A T \in Int :
          Owed(k)'[T] = Owed(k)[T] + (IF k = x.key /\ at > T THEN n ELSE 0)
    BY <1>4, <1>6 DEF Owed
  <1>8. \A k : Owed(k)' = [T \in Int |-> Owed(k)'[T]] /\ Owed(k) = [T \in Int |-> Owed(k)[T]]
    BY DEF Owed
  <1>9. Owed(x.key)' = Credited(Owed(x.key), x.n, x.at)
    BY <1>3, <1>7, <1>8 DEF Credited
  <1>10. ASSUME NEW k, k # x.key
         PROVE  Owed(k)' = Owed(k)
    <2>1. \A T \in Int : Owed(k)[T] \in Nat
      BY OwedType
    <2>2. \A T \in Int : Owed(k)'[T] = Owed(k)[T]
      BY <1>7, <1>10, <2>1
    <2> QED
      BY <1>8, <2>2
  <1> QED
    BY <1>9, <1>10

-----------------------------------------------------------------------------
(* The inductive invariant of the sliding logs.  Restoring pops the newest *)
(* events of a log, whoever recorded them, so that nothing is claimed once *)
(* something has been given back.                                          *)

Untouched == \A i \in 1..Len(grants) : grants[i].back = 0

\* The log of a state is one of its key's policy.
Ringed(k, s) ==
  s.log # NIL /\ s.log.size = Policy(k).log.size /\ s.log.limit = Policy(k).log.limit

\* a entries were dropped, and what they held may be anything up to the limit.
Within(k, ring, a) ==
  Covered(Owed(k), Policy(k).log.size, Policy(k).log.limit * a, ring, clock)

Held(k) == IF items[k] = NIL THEN <<>> ELSE items[k].st.log.ring

LogWorking(k, l) ==
  /\ Ringed(k, l.st)
  /\ \/ items[k] # NIL /\ items[k].st.log = l.st.log /\ Within(k, l.st.log.ring, amnesties[k])
     \/ /\ items[k] = NIL /\ amnesties[k] > 0
        /\ Within(k, l.st.log.ring, amnesties[k] - 1)

LogInv(k) ==
  Policy(k).log # NIL =>
    /\ items[k] # NIL => Ringed(k, items[k].st)
    /\ ~InUse(k) => Within(k, Held(k), amnesties[k])
    /\ \A g \in Goroutines : Deciding(local[g], k) => LogWorking(k, local[g])

\* A key whose policy has no log never has one.
Logless(k) ==
  Policy(k).log = NIL =>
    /\ items[k] # NIL => items[k].st.log = NIL
    /\ \A g \in Goroutines : Deciding(local[g], k) => local[g].st.log = NIL

WInv == TInv /\ \A k \in Keys : Logless(k) /\ (Untouched => LogInv(k))

LEMMA PolicyLog ==
  ASSUME TInv, NEW k \in Keys, Policy(k).log # NIL
  PROVE  /\ Policy(k).log.size \in Nat /\ Policy(k).log.limit \in Nat
         /\ \A t \in Nat : LET s == NewLimiterState(spec[k], t)
                           IN Ringed(k, s) /\ s.log.ring = <<>>
  <1>1. spec[k] \in SpecRecords /\ Validate(spec[k]) /\ 0 \in Nat
    BY SpecsAssumption DEF TInv, TypeOK
  <1>2. Policy(k) \in WellFormed
    BY <1>1, NewTyped DEF Policy
  <1>3. Policy(k).log \in Logs
    BY <1>2 DEF WellFormed
  <1>4. \A t \in Nat : NewLimiterState(spec[k], t).log = Policy(k).log
    BY DEF Policy, NewLimiterState
  <1>5. Policy(k).log.ring = <<>>
    BY DEF Policy, NewLimiterState, Log!NewLog
  <1> QED
    BY <1>3, <1>4, <1>5 DEF Ringed, Logs, Log!States

LEMMA RingOf ==
  ASSUME TInv, NEW k, NEW s \in WellFormed, Ringed(k, s)
  PROVE  s.log \in Logs /\ s.log.ring \in Seq(Int) /\ Len(s.log.ring) <= Policy(k).log.limit
  <1>1. s.log \in Logs
    BY DEF WellFormed, Ringed
  <1> QED
    BY <1>1 DEF Ringed, Logs, Log!States

\* Dropping one more ring.
LEMMA WithinDropped ==
  ASSUME TInv, NEW k \in Keys, Policy(k).log # NIL, NEW s \in WellFormed, Ringed(k, s),
         NEW a \in Nat, Within(k, s.log.ring, a)
  PROVE  Within(k, <<>>, a + 1)
  <1>1. PICK size \in Nat, limit \in Nat : size = Policy(k).log.size /\ limit = Policy(k).log.limit
    BY PolicyLog
  <1>2. PICK o, ring, room : o = Owed(k) /\ ring = s.log.ring /\ room = limit * a
    OBVIOUS
  <1>3. o \in [Int -> Nat] /\ ring \in Seq(Int) /\ Len(ring) <= limit /\ clock \in Int
    <2>1. o \in [Int -> Nat]
      BY <1>2, OwedType
    <2>2. ring \in Seq(Int) /\ Len(ring) <= limit
      BY <1>1, <1>2, RingOf
    <2>3. clock \in Int
      BY DEF TInv, TypeOK
    <2> QED
      BY <2>1, <2>2, <2>3
  <1>4. room \in Nat /\ limit * (a + 1) = room + limit
    BY <1>2, NatProduct
  <1>5. Covered(o, size, room, ring, clock)
    BY <1>1, <1>2 DEF Within
  <1>6. Covered(o, size, room + limit, <<>>, clock)
    BY <1>3, <1>4, <1>5, CoveredDropped
  <1> QED
    BY <1>1, <1>2, <1>4, <1>6 DEF Within

\* Time passes, or does not.
LEMMA WithinLater ==
  ASSUME TInv, NEW k \in Keys, Policy(k).log # NIL, NEW ring, NEW a, Within(k, ring, a),
         spec' = spec, Owed(k)' = Owed(k), clock' \in Nat, clock <= clock'
  PROVE  Covered(Owed(k)', Policy(k)'.log.size, Policy(k)'.log.limit * a, ring, clock')
  <1>0. PICK o, room : o = Owed(k) /\ room = Policy(k).log.limit * a
    OBVIOUS
  <1>1. PICK size \in Nat : size = Policy(k).log.size
    BY PolicyLog
  <1>2. Policy(k)' = Policy(k)
    BY DEF Policy
  <1>3. clock \in Int /\ clock' \in Int
    BY DEF TInv, TypeOK
  <1>4. Covered(o, size, room, ring, clock')
    BY <1>0, <1>1, <1>3, CoveredLater DEF Within
  <1> QED
    BY <1>0, <1>1, <1>2, <1>4

\* A key that a step leaves alone, but for the clock and what no log shows.
LEMMA LogStays ==
  ASSUME TInv, NEW k \in Keys, LogInv(k), spec' = spec, clock' \in Nat, clock <= clock',
         Owed(k)' = Owed(k), amnesties'[k] = amnesties[k],
         items'[k] = NIL <=> items[k] = NIL, items[k] # NIL => items'[k].st.log = items[k].st.log,
         \A h \in Goroutines : local'[h] = local[h]
           \/ (~Deciding(local'[h], k) /\ ~Deciding(local[h], k))
  PROVE  LogInv(k)'
  <1> SUFFICES ASSUME Policy(k)'.log # NIL
               PROVE  /\ items'[k] # NIL => Ringed(k, items[k].st)'
                      /\ ~InUse(k)' => Within(k, Held(k), amnesties[k])'
                      /\ \A g \in Goroutines : Deciding(local'[g], k) => LogWorking(k, local[g])'
    BY DEF LogInv
  <1>1. Policy(k)' = Policy(k) /\ Policy(k).log # NIL
    BY DEF Policy
  <1>2. InUse(k)' <=> InUse(k)
    BY DEF InUse, Deciding
  <1>3. items'[k] # NIL => Ringed(k, items[k].st)'
    BY <1>1 DEF LogInv, Ringed
  <1>4. ASSUME ~InUse(k)'
        PROVE  Within(k, Held(k), amnesties[k])'
    <2>1. Within(k, Held(k), amnesties[k]) /\ Held(k)' = Held(k)
      BY <1>1, <1>2, <1>4 DEF LogInv, Held
    <2> QED
      BY <1>1, <2>1, WithinLater DEF Within
  <1>5. ASSUME NEW g \in Goroutines, Deciding(local'[g], k)
        PROVE  LogWorking(k, local[g])'
    <2>1. local'[g] = local[g] /\ LogWorking(k, local[g])
      BY <1>1, <1>5 DEF LogInv
    <2>2. PICK l : l = local[g] /\ l = local'[g]
      BY <2>1
    <2>3. \A a : Within(k, l.st.log.ring, a) =>
            Covered(Owed(k)', Policy(k)'.log.size, Policy(k)'.log.limit * a, l.st.log.ring, clock')
      BY <1>1, WithinLater
    <2> QED
      BY <1>1, <2>1, <2>2, <2>3 DEF LogWorking, Ringed, Within
  <1> QED
    BY <1>3, <1>4, <1>5

\* A key whose entry may have been dropped.
LEMMA LogDropped ==
  ASSUME TInv, NEW k \in Keys, LogInv(k), NEW ks, Drop(ks), UNCHANGED <<spec, clock, grants>>,
         \A h \in Goroutines : local'[h] = local[h]
           \/ (~Deciding(local'[h], k) /\ ~Deciding(local[h], k))
  PROVE  LogInv(k)'
  <1>1. amnesties[k] \in Nat /\ clock \in Nat
    BY CountTypes
  <1>2. /\ items'[k] = IF k \in ks THEN NIL ELSE items[k]
        /\ amnesties'[k] =
             IF k \in ks /\ items[k] # NIL /\ (InUse(k) \/ ~Recovered(items[k].st, clock))
               THEN amnesties[k] + 1 ELSE amnesties[k]
    BY DEF Drop
  <1>3. Owed(k)' = Owed(k) /\ Policy(k)' = Policy(k)
    BY DEF Owed, Granted, Since, Policy
  <1>4. CASE k \notin ks \/ items[k] = NIL
    <2>1. items'[k] = items[k] /\ amnesties'[k] = amnesties[k] /\ clock <= clock'
      BY <1>1, <1>2, <1>4
    <2> QED
      BY <1>1, <1>3, <2>1, LogStays
  <1>5. CASE k \in ks /\ items[k] # NIL
    <2> SUFFICES ASSUME Policy(k).log # NIL
                 PROVE  /\ ~InUse(k)' => Within(k, Held(k), amnesties[k])'
                        /\ \A g \in Goroutines :
                             Deciding(local'[g], k) => LogWorking(k, local[g])'
      BY <1>2, <1>3, <1>5 DEF LogInv
    <2>1. /\ items'[k] = NIL /\ Ringed(k, items[k].st) /\ items[k].st \in WellFormed
          /\ (InUse(k)' <=> InUse(k)) /\ Held(k)' = <<>> /\ Held(k) = items[k].st.log.ring
      BY <1>2, <1>5 DEF LogInv, TInv, WellStored, InUse, Deciding, Held
    <2>2. \A ring, a : Within(k, ring, a) =>
            Covered(Owed(k)', Policy(k)'.log.size, Policy(k)'.log.limit * a, ring, clock')
      BY <1>3 DEF Within
    <2>3. ASSUME ~InUse(k)
          PROVE  Within(k, <<>>, amnesties'[k])
      <3> DEFINE s == items[k].st
      <3>1. Within(k, s.log.ring, amnesties[k])
        BY <2>1, <2>3 DEF LogInv
      <3>2. CASE Recovered(s, clock)
        <4>1. amnesties'[k] = amnesties[k]
          BY <1>2, <2>3, <3>2
        <4>0. PICK room, o : room = Policy(k).log.limit * amnesties[k] /\ o = Owed(k)
          OBVIOUS
        <4>2. PICK size \in Nat, ring \in Seq(Int) :
                 size = Policy(k).log.size /\ ring = s.log.ring
          <5>1. Policy(k).log.size \in Nat
            BY PolicyLog
          <5>2. s.log.ring \in Seq(Int)
            BY <2>1, RingOf
          <5> HIDE DEF s
          <5> QED
            BY <5>1, <5>2
        <4>3. Log!Prune(ring, clock - size) = <<>>
          BY <2>1, <3>2, <4>2 DEF Recovered, Ringed, Log!Cutoff
        <4>4. Covered(o, size, room, ring, clock) /\ clock \in Int
          BY <1>1, <3>1, <4>0, <4>2 DEF Within
        <4>5. Covered(o, size, room, <<>>, clock)
          BY <4>3, <4>4, CoveredRecovered
        <4> QED
          BY <4>0, <4>1, <4>2, <4>5 DEF Within
      <3>3. CASE ~Recovered(s, clock)
        <4>1. amnesties'[k] = amnesties[k] + 1
          BY <1>2, <1>5, <3>3
        <4> QED
          BY <1>1, <2>1, <3>1, <4>1, WithinDropped
      <3> QED
        BY <3>2, <3>3
    <2>4. ASSUME NEW g \in Goroutines, Deciding(local'[g], k)
          PROVE  LogWorking(k, local[g])'
      <3>1. local'[g] = local[g] /\ Deciding(local[g], k) /\ LogWorking(k, local[g])
        BY <2>4 DEF LogInv
      <3>2. amnesties'[k] = amnesties[k] + 1
        BY <1>2, <1>5, <3>1 DEF InUse, Deciding
      <3>3. amnesties'[k] > 0 /\ amnesties'[k] - 1 = amnesties[k]
        BY <1>1, <3>2
      <3>4. Ringed(k, local[g].st) /\ Within(k, local[g].st.log.ring, amnesties[k])
        BY <1>5, <3>1 DEF LogWorking
      <3> QED
        BY <1>3, <2>1, <2>2, <3>1, <3>3, <3>4 DEF LogWorking, Ringed, Within
    <2> QED
      BY <2>1, <2>2, <2>3, <2>4 DEF Within
  <1> QED
    BY <1>4, <1>5

LEMMA EnterLog ==
  ASSUME TInv, NEW g \in Goroutines, Enter(g), NEW k \in Keys, k = local[g].key, LogInv(k)
  PROVE  LogInv(k)'
  <1>1. PICK l, e, m : /\ l = local[g] /\ e = GetOrCreate(k, l.now)
                       /\ m = [at |-> "allowing", key |-> k, n |-> l.n, now |-> l.now, st |-> e.st]
    OBVIOUS
  <1>2. /\ l \in Locals /\ l.at = "allow" /\ local \in [Goroutines -> Locals]
        /\ items \in [Keys -> Entries \cup {NIL}] /\ clock \in Nat
    BY <1>1 DEF TInv, TypeOK, Enter
  <1>3. /\ Free(k) /\ items' = [items EXCEPT ![k] = e] /\ local' = [local EXCEPT ![g] = m]
        /\ UNCHANGED <<spec, clock, grants, amnesties>>
    BY <1>1 DEF Enter, Go
  <1>4. /\ items'[k] = e /\ local'[g] = m /\ amnesties[k] \in Nat /\ l.now \in Nat
        /\ \A h \in Goroutines : h # g => local'[h] = local[h]
    BY <1>2, <1>3, LocalShape, CountTypes
  <1>5. ~InUse(k) /\ \A h \in Goroutines : ~Deciding(local[h], k)
    BY <1>3, FreeUnused
  <1>6. m.at = "allowing" /\ m.key = k /\ m.st = e.st
    BY <1>1
  <1>7. Owed(k)' = Owed(k) /\ Policy(k)' = Policy(k)
    BY <1>3 DEF Owed, Granted, Since, Policy
  <1> SUFFICES ASSUME Policy(k).log # NIL
               PROVE  /\ Ringed(k, e.st) /\ e # NIL
                      /\ Within(k, e.st.log.ring, amnesties[k])
    <2>1. InUse(k)'
      BY <1>4, <1>6 DEF InUse
    <2>2. \A ring, a : Within(k, ring, a) =>
            Covered(Owed(k)', Policy(k)'.log.size, Policy(k)'.log.limit * a, ring, clock')
      BY <1>3, <1>7 DEF Within
    <2>3. ASSUME NEW h \in Goroutines, Deciding(local'[h], k), Policy(k)'.log # NIL
          PROVE  LogWorking(k, local[h])'
      <3>1. local'[h] = m
        BY <1>4, <1>5, <2>3
      <3>2. Ringed(k, m.st)' /\ items'[k] # NIL /\ items'[k].st.log = m.st.log
        BY <1>4, <1>6, <1>7, <2>3 DEF Ringed
      <3>3. Within(k, m.st.log.ring, amnesties[k])'
        BY <1>3, <1>6, <1>7, <2>2, <2>3 DEF Within
      <3> QED
        BY <3>1, <3>2, <3>3 DEF LogWorking
    <2>4. ASSUME Policy(k)'.log # NIL
          PROVE  Ringed(k, items[k].st)'
      BY <1>4, <1>7, <2>4 DEF Ringed
    <2> QED
      BY <2>1, <2>3, <2>4 DEF LogInv
  <1>8. Within(k, Held(k), amnesties[k])
    BY <1>5 DEF LogInv
  <1>9. CASE items[k] # NIL
    BY <1>1, <1>8, <1>9 DEF GetOrCreate, LogInv, Held
  <1>10. CASE items[k] = NIL
    <2>1. e = NewEntry(k, l.now)
      BY <1>1, <1>10 DEF GetOrCreate
    <2>2. PICK s : s = NewLimiterState(spec[k], l.now) /\ Ringed(k, s) /\ s.log.ring = <<>>
      BY <1>4, PolicyLog
    <2>3. e = [st |-> s, updated |-> clock, newest |-> l.now]
      BY <2>1, <2>2 DEF NewEntry
    <2>4. e # NIL
      <3>1. spec[k] \in SpecRecords /\ Validate(spec[k])
        BY SpecsAssumption DEF TInv, TypeOK
      <3>2. s \in LimiterStates
        BY <1>4, <2>2, <3>1, NewTyped, FormedIsState
      <3>3. e \in Entries
        BY <1>2, <1>4, <2>3, <3>2 DEF Entries
      <3> QED
        BY <3>3, EntryAssumption
    <2> QED
      BY <1>8, <1>10, <2>2, <2>3, <2>4 DEF Held
  <1> QED
    BY <1>9, <1>10

\* What the key is owed after a decision is covered by the ring it leaves.
LEMMA DecideWithin ==
  ASSUME TInv, NEW g \in Goroutines, Decide(g), NEW k \in Keys, k = local[g].key,
         Policy(k).log # NIL, NEW a \in Nat, Within(k, local[g].st.log.ring, a),
         Ringed(k, local[g].st)
  PROVE  LET r == Allow(local[g].st, local[g].n, local[g].now)
         IN /\ Ringed(k, r.st) /\ r.st \in WellFormed /\ Owed(k)' \in [Int -> Nat]
            /\ Covered(Owed(k)', Policy(k).log.size, Policy(k).log.limit * a, r.st.log.ring, clock)
  <1>1. PICK l, r, o, s : /\ l = local[g] /\ s = l.st /\ r = Allow(s, l.n, l.now) /\ o = Owed(k)
    OBVIOUS
  <1>2. /\ l.at = "allowing" /\ l \in Locals /\ s \in WellFormed /\ l.now <= clock
        /\ clock \in Nat
    BY <1>1 DEF Decide, TInv, TypeOK, Memory, Remembered
  <1>3. PICK n \in Nat \ {0}, t \in Nat : n = l.n /\ t = l.now /\ t <= clock /\ n \in Ns
    BY <1>2, LocalShape, BoundsAssumption
  <1>4. PICK size \in Nat, limit \in Nat :
           size = Policy(k).log.size /\ limit = Policy(k).log.limit
    BY PolicyLog
  <1>5. PICK room \in Nat : room = limit * a
    BY NatProduct
  <1>6. o \in [Int -> Nat]
    BY <1>1, OwedType
  <1>7. s.log # NIL /\ s.log.size = size /\ s.log.limit = limit
        /\ Covered(o, size, room, s.log.ring, clock)
    BY <1>1, <1>4, <1>5 DEF Ringed, Within
  <1>8. /\ Covered(IF r.out = "ok" THEN Credited(o, n, t) ELSE o,
                   size, room, r.st.log.ring, clock)
        /\ r.st.log # NIL /\ r.st.log.size = size /\ r.st.log.limit = limit
    <2>1. PICK c \in Nat : c = clock
      BY <1>2
    <2>2. r = Allow(s, n, t) /\ t <= c
      BY <1>1, <1>3, <2>1
    <2>3. s.log # NIL /\ s.log.size = size /\ Covered(o, size, room, s.log.ring, c)
      BY <1>7, <2>1
    <2>4. /\ Covered(IF r.out = "ok" THEN Credited(o, n, t) ELSE o, size, room, r.st.log.ring, c)
          /\ r.st.log # NIL /\ r.st.log.size = size /\ r.st.log.limit = s.log.limit
      BY SMTT(30), <1>2, <1>6, <2>2, <2>3, StateCovered
    <2> QED
      BY <1>7, <2>1, <2>4
  <1>9. Owed(k)' = IF r.out = "ok" THEN Credited(o, n, t) ELSE o
    <2>1. CASE r.out = "ok"
      <3>1. PICK x : x = [key |-> k, n |-> l.n, at |-> l.now, once |-> FALSE, back |-> 0]
        OBVIOUS
      <3>2. grants' = Append(grants, x)
        BY <1>1, <2>1, <3>1 DEF Decide
      <3>3. x \in Grants /\ x.key = k /\ x.n = n /\ x.at = t
        BY <1>3, <3>1 DEF Grants
      <3> QED
        BY <1>1, <2>1, <3>2, <3>3, OwedMore
    <2>2. CASE r.out # "ok"
      <3>1. grants' = grants
        BY <1>1, <2>2 DEF Decide
      <3> QED
        BY <1>1, <2>2, <3>1 DEF Owed, Granted, Since
    <2> QED
      BY <2>1, <2>2
  <1>10. r.st \in WellFormed
    <2>1. n \in Nat /\ r = Allow(s, n, t)
      BY <1>1, <1>3
    <2> QED
      BY <1>2, <2>1, StateTyped
  <1>11. Owed(k)' \in [Int -> Nat]
    <2>1. Credited(o, n, t) \in [Int -> Nat]
      BY <1>6 DEF Credited
    <2> QED
      BY <1>6, <1>9, <2>1
  <1> QED
    BY <1>1, <1>4, <1>5, <1>8, <1>9, <1>10, <1>11 DEF Ringed

LEMMA DecideLog ==
  ASSUME TInv, NEW g \in Goroutines, Decide(g), NEW k \in Keys, k = local[g].key, LogInv(k)
  PROVE  LogInv(k)'
  <1>1. PICK l, r : l = local[g] /\ r = Allow(l.st, l.n, l.now)
    OBVIOUS
  <1>2. /\ l.at = "allowing" /\ l.key = k /\ Deciding(local[g], k)
        /\ items' = [items EXCEPT ![k] =
                       IF @ = NIL THEN NIL
                       ELSE IF r.out = "panic" THEN [@ EXCEPT !.st = r.st]
                       ELSE Touch([@ EXCEPT !.st = r.st], l.now)]
        /\ local' = [local EXCEPT ![g] = Idle]
        /\ UNCHANGED <<spec, clock, amnesties>>
    BY <1>1 DEF Decide, Go, Deciding
  <1>3. /\ items \in [Keys -> Entries \cup {NIL}] /\ local \in [Goroutines -> Locals]
        /\ clock \in Nat /\ amnesties[k] \in Nat /\ l.now \in Nat
    BY <1>1, <1>2, CountTypes, DeciderTypes DEF TInv, TypeOK
  <1>4. \A h \in Goroutines : ~Deciding(local'[h], k)
    <2> SUFFICES ASSUME NEW h \in Goroutines PROVE ~Deciding(local'[h], k)
      OBVIOUS
    <2>1. CASE h = g
      BY <1>2, <1>3, <2>1, IdleTyped DEF Deciding
    <2>2. CASE h # g
      BY <1>2, <1>3, <2>2, OneDecides
    <2> QED
      BY <2>1, <2>2
  <1>5. Policy(k)' = Policy(k)
    BY <1>2 DEF Policy
  <1> SUFFICES ASSUME Policy(k).log # NIL
               PROVE  /\ items'[k] # NIL => Ringed(k, items'[k].st)
                      /\ Covered(Owed(k)', Policy(k).log.size, Policy(k).log.limit * amnesties[k],
                                 Held(k)', clock)
    BY <1>2, <1>4, <1>5 DEF LogInv, Within, Ringed
  <1>6. LogWorking(k, l)
    BY <1>1, <1>2 DEF LogInv
  <1>7. CASE items[k] # NIL
    <2>1. Within(k, l.st.log.ring, amnesties[k]) /\ Ringed(k, l.st)
      BY <1>6, <1>7 DEF LogWorking
    <2>2. /\ Ringed(k, r.st) /\ r.st \in WellFormed
          /\ Covered(Owed(k)', Policy(k).log.size, Policy(k).log.limit * amnesties[k],
                     r.st.log.ring, clock)
      BY <1>1, <1>3, <2>1, DecideWithin
    <2>3. items'[k].st = r.st /\ items'[k] # NIL
      <3>1. items[k] \in Entries
        BY <1>3, <1>7
      <3>2. /\ [items[k] EXCEPT !.st = r.st] \in Entries /\ [items[k] EXCEPT !.st = r.st].st = r.st
            /\ Touch([items[k] EXCEPT !.st = r.st], l.now) \in Entries
            /\ Touch([items[k] EXCEPT !.st = r.st], l.now).st = r.st
        BY <1>3, <2>2, <3>1, EntryTyped
      <3> QED
        BY <1>2, <1>3, <1>7, <3>2, EntryAssumption
    <2> QED
      BY <2>2, <2>3 DEF Held
  <1>8. CASE items[k] = NIL
    <2>1. PICK a \in Nat : a + 1 = amnesties[k] /\ a = amnesties[k] - 1
      BY <1>3, <1>6, <1>8 DEF LogWorking
    <2>2. Within(k, l.st.log.ring, a) /\ Ringed(k, l.st)
      BY <1>6, <1>8, <2>1 DEF LogWorking
    <2>3. /\ Ringed(k, r.st) /\ r.st \in WellFormed /\ Owed(k)' \in [Int -> Nat]
          /\ Covered(Owed(k)', Policy(k).log.size, Policy(k).log.limit * a, r.st.log.ring, clock)
      BY <1>1, <2>2, DecideWithin
    <2>4. Within(k, r.st.log.ring, a)'
      BY <1>2, <1>5, <2>3 DEF Within
    <2>5. Policy(k)'.log # NIL /\ Ringed(k, r.st)'
      BY <1>5, <2>3 DEF Ringed
    <2>6. Within(k, <<>>, a + 1)'
      <3>1. PICK size \in Nat, limit \in Nat :
               size = Policy(k).log.size /\ limit = Policy(k).log.limit
        BY PolicyLog
      <3>2. PICK o, ring, room : o = Owed(k)' /\ ring = r.st.log.ring /\ room = limit * a
        OBVIOUS
      <3>3. o \in [Int -> Nat]
        BY <2>3, <3>2
      <3>4. ring \in Seq(Int) /\ Len(ring) <= limit /\ clock \in Int
        <4>1. r.st.log.ring \in Seq(Int) /\ Len(r.st.log.ring) <= Policy(k).log.limit
          BY <2>3, RingOf
        <4> QED
          BY <1>3, <3>1, <3>2, <4>1
      <3>5. room \in Nat /\ limit * (a + 1) = room + limit
        BY <3>2, NatProduct
      <3>6. Covered(o, size, room, ring, clock)
        BY <2>3, <3>1, <3>2
      <3>7. Covered(o, size, room + limit, <<>>, clock)
        BY <3>3, <3>4, <3>5, <3>6, CoveredDropped
      <3> QED
        BY <1>2, <1>5, <3>1, <3>2, <3>5, <3>7 DEF Within
    <2>7. items'[k] = NIL
      BY <1>2, <1>3, <1>8
    <2> QED
      BY <1>2, <1>5, <2>1, <2>6, <2>7 DEF Within, Held
  <1> QED
    BY <1>7, <1>8

\* A step of g that does nothing to the key k.
LEMMA OtherLog ==
  ASSUME TInv, NEW g \in Goroutines, NEW l, NEW k \in Keys, LogInv(k),
         spec' = spec, clock' = clock, Owed(k)' = Owed(k), amnesties'[k] = amnesties[k],
         items'[k] = items[k], local' = [local EXCEPT ![g] = l],
         ~Deciding(local[g], k), ~Deciding(l, k)
  PROVE  LogInv(k)'
  <1>1. local \in [Goroutines -> Locals] /\ clock \in Nat
    BY DEF TInv, TypeOK
  <1>2. \A h \in Goroutines : local'[h] = local[h]
          \/ (~Deciding(local'[h], k) /\ ~Deciding(local[h], k))
    BY <1>1
  <1>3. clock' \in Nat /\ clock <= clock'
    BY <1>1
  <1> QED
    BY <1>2, <1>3, LogStays

LEMMA OwedSame ==
  ASSUME grants' = grants, NEW k
  PROVE  Owed(k)' = Owed(k)
  BY DEF Owed, Granted, Since

LEMMA BeginLog ==
  ASSUME TInv, NEW g \in Goroutines, Call(g), NEW k \in Keys, LogInv(k)
  PROVE  LogInv(k)'
  <1>1. /\ UNCHANGED <<spec, clock, items, grants, amnesties>>
        /\ local[g] = Idle
        /\ \E l : l.at # "allowing" /\ local' = [local EXCEPT ![g] = l]
    <2>1. ASSUME NEW j \in Keys, NEW n \in Ns, CallAllow(g, j, n)
          PROVE  <1>1
      BY <2>1 DEF CallAllow, Go
    <2>2. ASSUME NEW j \in Keys, CallPeek(g, j)
          PROVE  <1>1
      BY <2>2 DEF CallPeek, Go
    <2>3. ASSUME NEW j \in Keys, CallReset(g, j)
          PROVE  <1>1
      BY <2>3 DEF CallReset, Go
    <2>4. ASSUME NEW i \in 1..Len(grants), CallCancel(g, i)
          PROVE  <1>1
      BY <2>4 DEF CallCancel, Go
    <2>5. CASE CallSweep(g)
      BY <2>5 DEF CallSweep, Go
    <2> QED
      BY <2>1, <2>2, <2>3, <2>4, <2>5 DEF Call
  <1>2. PICK l : l.at # "allowing" /\ local' = [local EXCEPT ![g] = l]
    BY <1>1
  <1>3. ~Deciding(local[g], k) /\ ~Deciding(l, k)
    BY <1>1, <1>2, IdleTyped DEF Deciding
  <1> QED
    BY <1>1, <1>2, <1>3, OwedSame, OtherLog

LEMMA EnterLogs ==
  ASSUME TInv, NEW g \in Goroutines, Enter(g), NEW k \in Keys, LogInv(k)
  PROVE  LogInv(k)'
  <1>1. CASE k = local[g].key
    BY <1>1, EnterLog
  <1>2. CASE k # local[g].key
    <2>1. PICK j, m : /\ j = local[g].key /\ m.key = j
                      /\ local' = [local EXCEPT ![g] = m]
      <3>1. PICK m : m = [at |-> "allowing", key |-> local[g].key, n |-> local[g].n,
                          now |-> local[g].now,
                          st |-> GetOrCreate(local[g].key, local[g].now).st]
        OBVIOUS
      <3> QED
        BY <3>1 DEF Enter, Go
    <2>2. /\ UNCHANGED <<spec, clock, grants, amnesties>>
          /\ items' = [items EXCEPT ![j] = GetOrCreate(j, local[g].now)]
      BY <2>1 DEF Enter
    <2>3. items'[k] = items[k]
      BY <1>2, <2>1, <2>2 DEF TInv, TypeOK
    <2>4. ~Deciding(local[g], k) /\ ~Deciding(m, k)
      BY <1>2, <2>1 DEF Deciding
    <2> QED
      BY <2>1, <2>2, <2>3, <2>4, OwedSame, OtherLog
  <1> QED
    BY <1>1, <1>2

LEMMA PeekLogs ==
  ASSUME TInv, NEW g \in Goroutines, PeekKey(g), NEW k \in Keys, LogInv(k)
  PROVE  LogInv(k)'
  <1>1. PICK l, j, u : l = local[g] /\ j = l.key /\ u = Peek(items[j].st, 1, l.now).st
    OBVIOUS
  <1>2. /\ l.at = "peek" /\ l \in Locals
        /\ items' = [items EXCEPT ![j] = IF @ = NIL THEN NIL ELSE [@ EXCEPT !.st = u]]
        /\ local' = [local EXCEPT ![g] = Idle]
        /\ UNCHANGED <<spec, clock, grants, amnesties>>
        /\ items \in [Keys -> Entries \cup {NIL}] /\ local \in [Goroutines -> Locals]
        /\ clock \in Nat
    BY <1>1 DEF PeekKey, Go, TInv, TypeOK
  <1>3. \A h \in Goroutines : local'[h] = local[h]
          \/ (~Deciding(local'[h], k) /\ ~Deciding(local[h], k))
    BY <1>1, <1>2, IdleTyped DEF Deciding
  <1>4. /\ items'[k] = NIL <=> items[k] = NIL
        /\ items[k] # NIL => items'[k].st.log = items[k].st.log
    <2>1. CASE k # j \/ items[k] = NIL
      BY <1>2, <2>1
    <2>2. CASE k = j /\ items[k] # NIL
      <3>1. items[k] \in Entries /\ items[k].st \in WellFormed /\ l.now \in Nat /\ 1 \in Nat
        BY <1>2, <2>2, LocalShape DEF TInv, WellStored
      <3>2. u \in WellFormed /\ u.log = items[k].st.log
        <4>1. u = Peek(items[k].st, 1, l.now).st
          BY <1>1, <2>2
        <4>2. Peek(items[k].st, 1, l.now).st \in WellFormed
          BY <3>1, StateTyped
        <4>3. Peek(items[k].st, 1, l.now).st.log = items[k].st.log
          BY <3>1, PeekLog
        <4> QED
          BY <4>1, <4>2, <4>3
      <3>3. [items[k] EXCEPT !.st = u] \in Entries /\ [items[k] EXCEPT !.st = u].st = u
        BY <3>1, <3>2, EntryTyped
      <3> QED
        BY <1>2, <2>2, <3>2, <3>3, EntryAssumption
    <2> QED
      BY <2>1, <2>2
  <1>5. clock' \in Nat /\ clock <= clock'
    BY <1>2
  <1> QED
    BY <1>2, <1>3, <1>4, <1>5, OwedSame, LogStays

LEMMA DropLogs ==
  ASSUME TInv, NEW g \in Goroutines, ResetKey(g) \/ SweepShard(g), NEW k \in Keys, LogInv(k)
  PROVE  LogInv(k)'
  <1>1. PICK ks, l : /\ Drop(ks) /\ UNCHANGED <<spec, clock, grants>>
                     /\ local' = [local EXCEPT ![g] = l]
                     /\ local[g].at # "allowing" /\ l.at # "allowing"
    <2>1. CASE ResetKey(g)
      BY <2>1, IdleTyped DEF ResetKey, Go
    <2>2. CASE SweepShard(g)
      <3>1. PICK s, l : l = (IF local[g].shards = {s} THEN Idle
                             ELSE [local[g] EXCEPT !.shards = @ \ {s}])
                        /\ local' = [local EXCEPT ![g] = l]
        BY <2>2 DEF SweepShard, Go
      <3>2. local[g].at = "sweep" /\ local[g] \in Locals
        BY <2>2 DEF SweepShard, TInv, TypeOK
      <3>3. [local[g] EXCEPT !.shards = @ \ {s}].at = "sweep"
        BY <3>2 DEF Locals, Idle
      <3>4. l.at # "allowing"
        BY <3>1, <3>3, IdleTyped
      <3>5. PICK ks : Drop(ks) /\ UNCHANGED <<spec, clock, grants>>
        BY <2>2 DEF SweepShard
      <3> QED
        BY <3>1, <3>2, <3>4, <3>5
    <2> QED
      BY <2>1, <2>2
  <1>2. \A h \in Goroutines : local'[h] = local[h]
          \/ (~Deciding(local'[h], k) /\ ~Deciding(local[h], k))
    BY <1>1 DEF Deciding, TInv, TypeOK
  <1> QED
    BY <1>1, <1>2, LogDropped

LEMMA DecideLogs ==
  ASSUME TInv, NEW g \in Goroutines, Decide(g), NEW k \in Keys, LogInv(k)
  PROVE  LogInv(k)'
  <1>1. CASE k = local[g].key
    BY <1>1, DecideLog
  <1>2. CASE k # local[g].key
    <2>1. PICK l, j : l = local[g] /\ j = l.key /\ l.at = "allowing" /\ l \in Locals
      BY DEF Decide, TInv, TypeOK
    <2>2. /\ UNCHANGED <<spec, clock, amnesties>>
          /\ local' = [local EXCEPT ![g] = Idle]
          /\ items'[k] = items[k]
      BY <1>2, <2>1 DEF Decide, Go, TInv, TypeOK
    <2>3. Owed(k)' = Owed(k)
      <3>1. PICK x : x = [key |-> j, n |-> l.n, at |-> l.now, once |-> FALSE, back |-> 0]
        OBVIOUS
      <3>2. x \in Grants /\ x.key = j
        BY <2>1, <3>1, LocalShape DEF Grants
      <3>3. grants' = Append(grants, x) \/ grants' = grants
        BY <2>1, <3>1 DEF Decide
      <3> QED
        BY <1>2, <2>1, <3>2, <3>3, OwedMore, OwedSame
    <2>4. ~Deciding(local[g], k) /\ ~Deciding(Idle, k)
      BY <1>2, IdleTyped DEF Deciding
    <2> QED
      BY <2>2, <2>3, <2>4, OtherLog
  <1> QED
    BY <1>1, <1>2

\* A cancellation that finds an entry gives something back.
LEMMA CancelLogs ==
  ASSUME TInv, NEW g \in Goroutines, RestoreKey(g), Untouched', NEW k \in Keys, LogInv(k)
  PROVE  LogInv(k)'
  <1>1. PICK i : i = local[g].id /\ i \in 1..Len(grants) /\ local[g].at = "restore"
    BY DEF RestoreKey, TInv, Memory, Remembered
  <1>2. CASE items[grants[i].key] = NIL
    <2>1. /\ UNCHANGED <<spec, clock, items, grants, amnesties>>
          /\ local' = [local EXCEPT ![g] = Idle]
      BY <1>1, <1>2 DEF RestoreKey, Go
    <2>2. ~Deciding(local[g], k) /\ ~Deciding(Idle, k)
      BY <1>1, IdleTyped DEF Deciding
    <2> QED
      BY <2>1, <2>2, OwedSame, OtherLog
  <1>3. CASE items[grants[i].key] # NIL
    <2>1. PICK e : e = [grants[i] EXCEPT !.back = @ + 1] /\ grants' = [grants EXCEPT ![i] = e]
      BY <1>1, <1>3 DEF RestoreKey
    <2>2. e.back > 0
      <3>1. grants[i] \in Grants /\ grants[i].back \in Nat
        BY <1>1, GrantFields
      <3>2. e.back = grants[i].back + 1
        BY <2>1, <3>1 DEF Grants
      <3> QED
        BY <3>1, <3>2
    <2>3. grants'[i] = e /\ i \in 1..Len(grants')
      BY <1>1, <2>1 DEF TInv, TypeOK
    <2> QED
      BY <2>2, <2>3 DEF Untouched
  <1> QED
    BY <1>2, <1>3

LEMMA SetOnceLogs ==
  ASSUME TInv, NEW g \in Goroutines, SetOnce(g), NEW k \in Keys, LogInv(k)
  PROVE  LogInv(k)'
  <1>1. PICK i, l : /\ i = local[g].id /\ l.at = "restore" /\ i \in 1..Len(grants)
                    /\ local' = [local EXCEPT ![g] = l] /\ local[g].at = "cancel"
                    /\ grants' = [grants EXCEPT ![i].once = TRUE]
    <2>1. [local[g] EXCEPT !.at = "restore"].at = "restore"
      BY LocalShape DEF TInv, TypeOK, SetOnce
    <2> QED
      BY <2>1 DEF SetOnce, Go, TInv, Memory, Remembered
  <1>2. PICK e : e = [grants[i] EXCEPT !.once = TRUE]
    OBVIOUS
  <1>3. e.key = grants[i].key /\ e.n = grants[i].n /\ e.at = grants[i].at
    <2>1. grants[i] \in Grants
      BY <1>1, GrantFields
    <2> QED
      BY <1>2, <2>1 DEF Grants
  <1>4. /\ Len(grants') = Len(grants)
        /\ \A q \in 1..Len(grants) : /\ grants'[q].key = grants[q].key
                                     /\ grants'[q].n = grants[q].n /\ grants'[q].at = grants[q].at
    BY <1>1, <1>2, <1>3 DEF TInv, TypeOK
  <1>5. Owed(k)' = Owed(k)
    BY <1>4, OwedStays
  <1>6. UNCHANGED <<spec, clock, items, amnesties>>
    BY DEF SetOnce
  <1>7. ~Deciding(local[g], k) /\ ~Deciding(l, k)
    BY <1>1 DEF Deciding
  <1> QED
    BY <1>1, <1>5, <1>6, <1>7, OtherLog

\* What has been given back stays given back.
LEMMA UntouchedBefore ==
  ASSUME TInv, [Next]_vars, Untouched'
  PROVE  Untouched
  <1>1. grants \in Seq(Grants) /\ \A i \in 1..Len(grants) : grants[i].back \in Nat
    BY GrantFields DEF TInv, TypeOK
  <1>2. ASSUME NEW i \in 1..Len(grants)
        PROVE  i \in 1..Len(grants') /\ (grants'[i].back = grants[i].back
                                         \/ grants'[i].back = grants[i].back + 1)
    <2>1. CASE grants' = grants
      BY <2>1
    <2>2. ASSUME NEW x, grants' = Append(grants, x)
          PROVE  <1>2!2
      BY <1>1, <2>2
    <2>3. ASSUME NEW q, \/ grants' = [grants EXCEPT ![q].once = TRUE]
                        \/ grants' = [grants EXCEPT ![q].back = @ + 1]
          PROVE  <1>2!2
      <3>1. PICK e, f : /\ e = [grants[q] EXCEPT !.once = TRUE]
                        /\ f = [grants[q] EXCEPT !.back = @ + 1]
        OBVIOUS
      <3>2. grants' = [grants EXCEPT ![q] = e] \/ grants' = [grants EXCEPT ![q] = f]
        BY <2>3, <3>1
      <3>3. q = i => e.back = grants[i].back /\ f.back = grants[i].back + 1
        <4>1. grants[i] \in Grants
          BY GrantFields
        <4> QED
          BY <3>1, <4>1 DEF Grants
      <3>4. Len(grants') = Len(grants)
        BY <1>1, <3>2
      <3>5. grants'[i] = grants[i] \/ (q = i /\ (grants'[i] = e \/ grants'[i] = f))
        BY <1>1, <3>2
      <3> QED
        BY <3>3, <3>4, <3>5
    <2>4. \/ grants' = grants
          \/ \E x : grants' = Append(grants, x)
          \/ \E q : \/ grants' = [grants EXCEPT ![q].once = TRUE]
                    \/ grants' = [grants EXCEPT ![q].back = @ + 1]
      <3>1. ASSUME NEW g \in Goroutines, Call(g) PROVE grants' = grants
        BY <3>1 DEF Call, CallAllow, CallPeek, CallReset, CallCancel, CallSweep
      <3>2. ASSUME NEW g \in Goroutines, Acquire(g) PROVE <2>4
        BY <3>2 DEF Acquire, Enter, PeekKey, ResetKey, RestoreKey
      <3>3. ASSUME NEW g \in Goroutines, Continue(g) PROVE <2>4
        BY <3>3 DEF Continue, Decide, SetOnce, SweepShard
      <3>4. CASE Tick \/ UNCHANGED vars
        BY <3>4 DEF Tick, vars
      <3> QED
        BY <3>1, <3>2, <3>3, <3>4 DEF Next
    <2> QED
      BY <2>1, <2>2, <2>3, <2>4
  <1> QED
    BY <1>1, <1>2 DEF Untouched

-----------------------------------------------------------------------------
(* Keys without a log.                                                     *)

LEMMA NoLog ==
  ASSUME NEW s \in WellFormed, s.log = NIL, NEW n \in Nat, NEW t \in Nat
  PROVE  Allow(s, n, t).st.log = NIL /\ Restore(s, n, t).log = NIL
  <1>1. PICK r, w, a : /\ r = AllowRate(s, n, t) /\ w = AllowWindow(r.st, n, t)
                       /\ a = Allow(s, n, t)
    OBVIOUS
  <1>2. r.st \in WellFormed /\ w.st \in WellFormed
    BY <1>1, RateTyped, WindowTyped
  <1>3. r.st.log = NIL
    <2>1. \A x : [s EXCEPT !.tb = x].log = s.log /\ [s EXCEPT !.gcra = x].log = s.log
      BY DEF WellFormed
    <2> QED
      BY <1>1, <2>1 DEF AllowRate, Step
  <1>4. w.st.log = NIL
    <2>1. \A x : [r.st EXCEPT !.ctr = x].log = r.st.log
      BY <1>2 DEF WellFormed
    <2> QED
      BY <1>1, <1>3, <2>1 DEF AllowWindow, Step
  <1>5. \A v \in WellFormed : RestoreRate(v, n, t).log = v.log
    <2>1. \A v \in WellFormed : \A x, y : [v EXCEPT !.tb = x, !.gcra = y].log = v.log
      BY DEF WellFormed
    <2> QED
      BY <2>1 DEF RestoreRate
  <1>6. a.st.log = NIL
    <2>1. a = r \/ a = w \/ a.st = RestoreRate(w.st, n, t)
      <3>1. [w EXCEPT !.st = RestoreRate(@, n, t)].st = RestoreRate(w.st, n, t)
        BY <1>1 DEF AllowWindow, Step
      <3> QED
        BY <1>1, <3>1 DEF Allow
    <2> QED
      BY <1>2, <1>3, <1>4, <1>5, <2>1
  <1>7. Restore(s, n, t).log = NIL
    <2>1. PICK v : v = [s EXCEPT !.log = IF @ = NIL THEN NIL ELSE Log!Restore(@, n),
                                 !.ctr = IF @ = NIL THEN NIL ELSE Ctr!Restore(@, n)]
      OBVIOUS
    <2>2. v.log = NIL
      BY <2>1 DEF WellFormed
    <2>3. RestoreRate(v, n, t).log = v.log
      <3>1. \A x, y : [v EXCEPT !.tb = x, !.gcra = y].log = v.log
        BY <2>1 DEF WellFormed
      <3> QED
        BY <3>1 DEF RestoreRate
    <2> QED
      BY <2>1, <2>2, <2>3 DEF Restore
  <1> QED
    BY <1>1, <1>6, <1>7

\* A step that leaves no log on k's entry, nor to a goroutine that did not hold one.
LEMMA LoglessKept ==
  ASSUME NEW k \in Keys, Logless(k), spec' = spec,
         Policy(k).log = NIL => (items'[k] # NIL => items'[k].st.log = NIL),
         \A h \in Goroutines : Deciding(local'[h], k) /\ Policy(k).log = NIL
                                 => local'[h] = local[h] \/ local'[h].st.log = NIL
  PROVE  Logless(k)'
  <1>1. Policy(k)' = Policy(k)
    BY DEF Policy
  <1> QED
    BY <1>1 DEF Logless

LEMMA LoglessAcquire ==
  ASSUME TInv, NEW g \in Goroutines, Acquire(g), NEW k \in Keys, Logless(k)
  PROVE  Logless(k)'
  <1>1. /\ items \in [Keys -> Entries \cup {NIL}] /\ local \in [Goroutines -> Locals]
        /\ local[g] \in Locals /\ clock \in Nat /\ 1 \in Nat
    BY DEF TInv, TypeOK
  <1>2. CASE Enter(g)
    <2>1. PICK l, j, e, m : /\ l = local[g] /\ j = l.key /\ e = GetOrCreate(j, l.now)
                            /\ m = [at |-> "allowing", key |-> j, n |-> l.n, now |-> l.now,
                                    st |-> e.st]
      OBVIOUS
    <2>2. /\ l.at = "allow" /\ items' = [items EXCEPT ![j] = e]
          /\ local' = [local EXCEPT ![g] = m] /\ spec' = spec
      BY <1>2, <2>1 DEF Enter, Go
    <2>3. m.key = j /\ m.st = e.st
      BY <2>1
    <2>4. j = k /\ Policy(k).log = NIL => e.st.log = NIL
      <3> SUFFICES ASSUME j = k, Policy(k).log = NIL PROVE e.st.log = NIL
        OBVIOUS
      <3>1. CASE items[k] # NIL
        BY <2>1, <3>1 DEF GetOrCreate, Logless
      <3>2. CASE items[k] = NIL
        BY <2>1, <3>2 DEF GetOrCreate, NewEntry, Policy, NewLimiterState
      <3> QED
        BY <3>1, <3>2
    <2>5. Policy(k).log = NIL => (items'[k] # NIL => items'[k].st.log = NIL)
      BY <1>1, <2>2, <2>4 DEF Logless
    <2>6. \A h \in Goroutines : Deciding(local'[h], k) /\ Policy(k).log = NIL
                                  => local'[h] = local[h] \/ local'[h].st.log = NIL
      BY <1>1, <2>2, <2>3, <2>4 DEF Deciding
    <2> QED
      BY <2>2, <2>5, <2>6, LoglessKept
  <1>3. CASE PeekKey(g)
    <2>1. PICK l, j, u : l = local[g] /\ j = l.key /\ u = Peek(items[j].st, 1, l.now).st
      OBVIOUS
    <2>2. /\ l.at = "peek" /\ local' = [local EXCEPT ![g] = Idle] /\ spec' = spec
          /\ items' = [items EXCEPT ![j] = IF @ = NIL THEN NIL ELSE [@ EXCEPT !.st = u]]
      BY <1>3, <2>1 DEF PeekKey, Go
    <2>3. Policy(k).log = NIL => (items'[k] # NIL => items'[k].st.log = NIL)
      <3>1. CASE j # k \/ items[k] = NIL
        BY <1>1, <2>2, <3>1 DEF Logless
      <3>2. CASE j = k /\ items[k] # NIL
        <4>1. items[k] \in Entries /\ items[k].st \in WellFormed /\ l.now \in Nat
          BY <1>1, <2>1, <2>2, <3>2, LocalShape DEF TInv, WellStored
        <4>2. u.log = items[k].st.log
          BY <1>1, <2>1, <3>2, <4>1, PeekLog
        <4>3. items'[k].st = u
          BY <1>1, <2>2, <3>2, <4>1 DEF Entries
        <4> QED
          BY <3>2, <4>2, <4>3 DEF Logless
      <3> QED
        BY <3>1, <3>2
    <2>4. \A h \in Goroutines : Deciding(local'[h], k) => local'[h] = local[h]
      BY <1>1, <2>2, IdleTyped DEF Deciding
    <2> QED
      BY <2>2, <2>3, <2>4, LoglessKept
  <1>4. CASE ResetKey(g)
    <2>1. PICK ks : Drop(ks) /\ spec' = spec /\ local' = [local EXCEPT ![g] = Idle]
      BY <1>4 DEF ResetKey, Go
    <2>2. items'[k] # NIL => items'[k] = items[k]
      BY <2>1, DropTyped
    <2>3. \A h \in Goroutines : Deciding(local'[h], k) => local'[h] = local[h]
      BY <1>1, <2>1, IdleTyped DEF Deciding
    <2> QED
      BY <2>1, <2>2, <2>3, LoglessKept DEF Logless
  <1>5. CASE RestoreKey(g)
    <2>1. PICK i, j, n, u : /\ i = local[g].id /\ j = grants[i].key /\ n = grants[i].n
                            /\ u = Restore(items[j].st, n, clock)
      OBVIOUS
    <2>2. /\ local[g].at = "restore" /\ local' = [local EXCEPT ![g] = Idle] /\ spec' = spec
          /\ IF items[j] = NIL THEN items' = items ELSE items' = [items EXCEPT ![j].st = u]
      BY <1>5, <2>1 DEF RestoreKey, Go
    <2>3. Policy(k).log = NIL => (items'[k] # NIL => items'[k].st.log = NIL)
      <3>1. CASE j # k \/ items[j] = NIL
        BY <1>1, <2>2, <3>1 DEF Logless
      <3>2. CASE j = k /\ items[j] # NIL
        <4>1. items[k] \in Entries /\ items[k].st \in WellFormed /\ n \in Nat
          BY <1>1, <2>1, <2>2, <3>2, GrantFields DEF TInv, WellStored, Memory, Remembered
        <4>2. items[k].st.log = NIL => u.log = NIL
          BY <1>1, <2>1, <3>2, <4>1, NoLog
        <4>3. items'[k].st = u
          BY <1>1, <2>2, <3>2, <4>1 DEF Entries
        <4> QED
          BY <3>2, <4>2, <4>3 DEF Logless
      <3> QED
        BY <3>1, <3>2
    <2>4. \A h \in Goroutines : Deciding(local'[h], k) => local'[h] = local[h]
      BY <1>1, <2>2, IdleTyped DEF Deciding
    <2> QED
      BY <2>2, <2>3, <2>4, LoglessKept
  <1> QED
    BY <1>2, <1>3, <1>4, <1>5 DEF Acquire

LEMMA LoglessContinue ==
  ASSUME TInv, NEW g \in Goroutines, Continue(g), NEW k \in Keys, Logless(k)
  PROVE  Logless(k)'
  <1>1. /\ items \in [Keys -> Entries \cup {NIL}] /\ local \in [Goroutines -> Locals]
        /\ local[g] \in Locals
    BY DEF TInv, TypeOK
  <1>2. CASE Decide(g)
    <2>1. PICK l, j, r : l = local[g] /\ j = l.key /\ r = Allow(l.st, l.n, l.now)
      OBVIOUS
    <2>2. /\ l.at = "allowing" /\ local' = [local EXCEPT ![g] = Idle] /\ spec' = spec
          /\ items' = [items EXCEPT ![j] =
               IF @ = NIL THEN NIL
               ELSE IF r.out = "panic" THEN [@ EXCEPT !.st = r.st]
               ELSE Touch([@ EXCEPT !.st = r.st], l.now)]
      BY <1>2, <2>1 DEF Decide, Go
    <2>3. Policy(k).log = NIL => (items'[k] # NIL => items'[k].st.log = NIL)
      <3>1. CASE j # k \/ items[k] = NIL
        BY <1>1, <2>2, <3>1 DEF Logless
      <3>2. CASE j = k /\ items[k] # NIL
        <4>1. items[k] \in Entries /\ l.st \in WellFormed /\ l.now \in Nat /\ l.n \in Nat
          BY <1>1, <2>1, <2>2, <3>2, LocalShape, BoundsAssumption DEF TInv, Memory, Remembered
        <4>2. Policy(k).log = NIL => l.st.log = NIL
          BY <2>1, <2>2, <3>2 DEF Logless, Deciding
        <4>3. Policy(k).log = NIL => r.st.log = NIL
          BY <2>1, <4>1, <4>2, NoLog
        <4>4. r.st \in WellFormed
          BY <2>1, <4>1, StateTyped
        <4>5. [items[k] EXCEPT !.st = r.st].st = r.st
              /\ Touch([items[k] EXCEPT !.st = r.st], l.now).st = r.st
          BY <4>1, <4>4, EntryTyped
        <4> QED
          BY <1>1, <2>2, <3>2, <4>3, <4>5
      <3> QED
        BY <3>1, <3>2
    <2>4. \A h \in Goroutines : Deciding(local'[h], k) => local'[h] = local[h]
      BY <1>1, <2>2, IdleTyped DEF Deciding
    <2> QED
      BY <2>2, <2>3, <2>4, LoglessKept
  <1>3. CASE SetOnce(g) \/ SweepShard(g)
    <2>1. /\ spec' = spec /\ local[g].at # "allowing"
          /\ items' = items \/ \E ks : Drop(ks)
          /\ \E l : local' = [local EXCEPT ![g] = l] /\ l.at # "allowing"
      <3>1. CASE SetOnce(g)
        <4>1. local[g].at = "cancel" /\ [local[g] EXCEPT !.at = "restore"].at = "restore"
          BY <1>1, <3>1, LocalShape DEF SetOnce
        <4> QED
          BY <3>1, <4>1 DEF SetOnce, Go
      <3>2. CASE SweepShard(g)
        <4>1. local[g].at = "sweep" /\ spec' = spec /\ \E ks : Drop(ks)
          BY <3>2 DEF SweepShard
        <4>2. PICK s : local' = [local EXCEPT ![g] = IF local[g].shards = {s} THEN Idle
                                   ELSE [local[g] EXCEPT !.shards = @ \ {s}]]
          BY <3>2 DEF SweepShard, Go
        <4>3. [local[g] EXCEPT !.shards = @ \ {s}].at = "sweep"
          BY <1>1, <4>1 DEF Locals, Idle
        <4> QED
          BY <4>1, <4>2, <4>3, IdleTyped
      <3> QED
        BY <1>3, <3>1, <3>2
    <2>2. items'[k] # NIL => items'[k] = items[k]
      BY <2>1, DropTyped
    <2>3. \A h \in Goroutines : Deciding(local'[h], k) => local'[h] = local[h]
      BY <1>1, <2>1 DEF Deciding
    <2> QED
      BY <2>1, <2>2, <2>3, LoglessKept DEF Logless
  <1> QED
    BY <1>2, <1>3 DEF Continue

LEMMA LoglessNext ==
  ASSUME TInv, [Next]_vars, NEW k \in Keys, Logless(k)
  PROVE  Logless(k)'
  <1>1. ASSUME NEW g \in Goroutines, Call(g) PROVE Logless(k)'
    <2>1. /\ UNCHANGED <<spec, items>> /\ local \in [Goroutines -> Locals]
          /\ \E l : l.at # "allowing" /\ local' = [local EXCEPT ![g] = l]
      BY <1>1 DEF Call, CallAllow, CallPeek, CallReset, CallCancel, CallSweep, Go, TInv, TypeOK
    <2>2. \A h \in Goroutines : Deciding(local'[h], k) => local'[h] = local[h]
      BY <2>1 DEF Deciding
    <2> QED
      BY <2>1, <2>2, LoglessKept DEF Logless
  <1>2. CASE Tick \/ UNCHANGED vars
    <2>1. UNCHANGED <<spec, items, local>>
      BY <1>2 DEF Tick, vars
    <2> QED
      BY <2>1, LoglessKept DEF Logless
  <1> QED
    BY <1>1, <1>2, LoglessAcquire, LoglessContinue DEF Next

LEMMA LogsNext ==
  ASSUME WInv, [Next]_vars
  PROVE  WInv'
  <1>1. TInv /\ TInv'
    BY NextTyped DEF WInv
  <1> SUFFICES ASSUME Untouched', NEW k \in Keys PROVE LogInv(k)'
    BY <1>1, LoglessNext DEF WInv
  <1>2. LogInv(k)
    BY <1>1, UntouchedBefore DEF WInv
  <1>3. ASSUME NEW g \in Goroutines, Call(g) PROVE LogInv(k)'
    BY <1>1, <1>2, <1>3, BeginLog
  <1>4. ASSUME NEW g \in Goroutines, Acquire(g) PROVE LogInv(k)'
    BY <1>1, <1>2, <1>4, EnterLogs, PeekLogs, DropLogs, CancelLogs DEF Acquire
  <1>5. ASSUME NEW g \in Goroutines, Continue(g) PROVE LogInv(k)'
    BY <1>1, <1>2, <1>5, DecideLogs, SetOnceLogs, DropLogs DEF Continue
  <1>6. CASE Tick \/ UNCHANGED vars
    <2>1. /\ UNCHANGED <<spec, items, grants, local, amnesties>>
          /\ clock \in Nat /\ clock' \in Nat /\ clock <= clock'
      BY <1>1, <1>6 DEF Tick, vars, TInv, TypeOK
    <2> QED
      BY <1>1, <1>2, <2>1, OwedSame, LogStays
  <1> QED
    BY <1>3, <1>4, <1>5, <1>6 DEF Next

LEMMA LogsInit ==
  ASSUME Init
  PROVE  WInv
  <1>1. TInv
    BY InitTyped
  <1> SUFFICES ASSUME NEW k \in Keys, Policy(k).log # NIL PROVE LogInv(k)
    <2>1. \A k \in Keys : Logless(k)
      BY IdleTyped DEF Init, Logless, Deciding
    <2> QED
      BY <1>1, <2>1 DEF WInv, LogInv
  <1>2. /\ clock = 0 /\ items[k] = NIL /\ amnesties[k] = 0 /\ grants = <<>>
        /\ \A g \in Goroutines : ~Deciding(local[g], k)
    BY IdleTyped DEF Init, Deciding
  <1>3. \A T \in Int : Owed(k)[T] = 0
    <2>1. \A T : Since(k, T) = {}
      BY <1>2 DEF Since
    <2> QED
      BY <2>1, TotalNone DEF Owed
  <1>4. Within(k, <<>>, 0)
    <2>1. PICK size \in Nat, limit \in Nat :
             size = Policy(k).log.size /\ limit = Policy(k).log.limit
      BY <1>1, PolicyLog
    <2>2. limit * 0 = 0
      OBVIOUS
    <2>3. ASSUME NEW T \in Int
          PROVE  Owed(k)[T] <= 0 + Cardinality(Newer(<<>>, T))
      <3>1. <<>> \in Seq(Int)
        OBVIOUS
      <3>2. Cardinality(Newer(<<>>, T)) \in Nat
        BY <3>1, NewerFinite
      <3> QED
        BY <1>3, <3>2
    <2> QED
      BY <1>2, <2>1, <2>2, <2>3 DEF Within, Covered
  <1> QED
    BY <1>2, <1>4 DEF LogInv, Held

\* In every reachable state: whatever was granted under a sliding log is in the
\* ring, as long as nothing has been given back.
THEOREM LogsHold == Spec => []WInv
  <1>1. Init => WInv
    BY LogsInit
  <1>2. WInv /\ [Next]_vars => WInv'
    BY LogsNext
  <1> QED
    BY <1>1, <1>2, PTL DEF Spec

\* The units of some grants, as LogKeyBound sums them.
UnitsOf(I) == MapThenSumSet(LAMBDA i : grants[i].n, I)

LEMMA UnitsOfTotal ==
  ASSUME NEW I, IsFiniteSet(I), NEW w, \A i \in I : w[i] = grants[i].n
  PROVE  UnitsOf(I) = Total(w, I)
  <1>1. PICK f : Folded(f, w, I)
    BY FoldExists
  <1> DEFINE OneMore(h, s) ==
        IF s = {} THEN 0 ELSE LET x == CHOOSE x \in s : TRUE IN grants[x].n + h[s \ {x}]
  <1>2. \A h : \A s \in SUBSET I : OneMore(h, s) = FoldStep(h, w, s)
    <2> SUFFICES ASSUME NEW h, NEW s \in SUBSET I PROVE OneMore(h, s) = FoldStep(h, w, s)
      OBVIOUS
    <2>1. CASE s = {}
      BY <2>1 DEF FoldStep
    <2>2. CASE s # {}
      <3>1. PICK x \in s : x = CHOOSE y \in s : TRUE
        BY <2>2
      <3>2. w[x] = grants[x].n
        OBVIOUS
      <3> QED
        BY <2>2, <3>1, <3>2 DEF FoldStep
    <2> QED
      BY <2>1, <2>2
  <1>3. f = [s \in SUBSET I |-> OneMore(f, s)]
    <2>1. f = [s \in SUBSET I |-> f[s]]
      BY <1>1 DEF Folded
    <2>2. \A s \in SUBSET I : f[s] = OneMore(f, s)
      <3> HIDE DEF OneMore
      <3>1. \A s \in SUBSET I : f[s] = FoldStep(f, w, s)
        BY <1>1, FoldAt
      <3>2. \A s \in SUBSET I : OneMore(f, s) = FoldStep(f, w, s)
        BY <1>2
      <3> QED
        BY <3>1, <3>2
    <2> QED
      BY <2>1, <2>2
  <1>4. \E g : g = [s \in SUBSET I |-> OneMore(g, s)] /\ UnitsOf(I) = g[I]
    BY ZenonT(60), <1>3 DEF UnitsOf, MapThenSumSet, MapThenFoldSet
  <1>5. PICK g : g = [s \in SUBSET I |-> OneMore(g, s)] /\ UnitsOf(I) = g[I]
    BY <1>4
  <1>6. g = [s \in SUBSET I |-> FoldStep(g, w, s)]
    <2>1. \A s \in SUBSET I : OneMore(g, s) = FoldStep(g, w, s)
      BY <1>2
    <2> QED
      BY <1>5, <2>1
  <1>7. Folded(g, w, I)
    BY <1>6 DEF Folded, FoldStep
  <1> QED
    BY <1>5, <1>7, TotalIs

\* What a key under a sliding log was granted within the window that ends now
\* (internal/slidingwin/window.go:5) stays within the limit, and one more for each
\* entry that was dropped (allow.go:80, store/shard.go:114) in use or too early.
THEOREM LogKeyBoundHolds == Spec => []LogKeyBound
  <1>1. WInv => LogKeyBound
    <2> SUFFICES ASSUME WInv, NEW k \in Keys, items[k] # NIL, items[k].st.log # NIL, Untouched
                 PROVE  LET l == items[k].st.log
                            recent == {i \in 1..Len(grants) :
                                         grants[i].key = k /\ grants[i].at > clock - l.size}
                        IN UnitsOf(recent) <= l.limit * (1 + amnesties[k])
      BY DEF LogKeyBound, Untouched, UnitsOf
    <2>1. TInv /\ LogInv(k) /\ Policy(k).log # NIL
      BY DEF WInv, Logless
    <2>2. Ringed(k, items[k].st) /\ items[k].st \in WellFormed
      BY <2>1 DEF LogInv, TInv, WellStored
    <2>3. Within(k, items[k].st.log.ring, amnesties[k])
      <3>1. CASE InUse(k)
        <4>1. PICK g \in Goroutines : Deciding(local[g], k)
          BY <3>1 DEF InUse, Deciding
        <4> QED
          BY <2>1, <4>1 DEF LogInv, LogWorking
      <3>2. CASE ~InUse(k)
        BY <2>1, <3>2 DEF LogInv, Held
      <3> QED
        BY <3>1, <3>2
    <2>4. PICK l, S, T, a, m :
             /\ l = items[k].st.log /\ T = clock - l.size /\ S = Since(k, T)
             /\ a = amnesties[k] /\ m = l.limit
      OBVIOUS
    <2>5. /\ l \in Logs /\ l.ring \in Seq(Int) /\ Len(l.ring) <= m /\ l.size \in Nat /\ m \in Nat
          /\ l.size = Policy(k).log.size /\ m = Policy(k).log.limit
      <3>1. l \in Logs
        BY <2>2, <2>4 DEF WellFormed
      <3> QED
        BY <2>2, <2>4, <3>1 DEF Ringed, Logs, Log!States
    <2>6. clock \in Int /\ T \in Int /\ clock - l.size <= T /\ a \in Nat
      <3>1. clock \in Nat /\ a \in Nat
        BY <2>1, <2>4, CountTypes
      <3>2. PICK z \in Nat : z = l.size
        BY <2>5
      <3>3. clock - z \in Int /\ clock - z <= clock - z
        BY <3>1
      <3> QED
        BY <2>4, <3>1, <3>2, <3>3
    <2>7. UnitsOf(S) = Owed(k)[T]
      <3>1. PICK w : w = Granted
        OBVIOUS
      <3>2. IsFiniteSet(S) /\ S \subseteq 1..Len(grants)
        BY <2>1, <2>4, SinceFinite
      <3>3. \A i \in S : w[i] = grants[i].n
        BY <2>1, <3>1, <3>2, GrantFields
      <3>4. UnitsOf(S) = Total(w, S)
        BY <3>2, <3>3, UnitsOfTotal
      <3> QED
        BY <2>4, <2>6, <3>1, <3>4 DEF Owed
    <2>8. PICK x \in Nat, y \in Nat, z \in Nat :
             x = Owed(k)[T] /\ y = Cardinality(Newer(l.ring, T)) /\ z = m * a
      BY <2>1, <2>5, <2>6, OwedType, NewerFinite, NatProduct
    <2>9. x <= z + y
      BY <2>3, <2>4, <2>5, <2>6, <2>8 DEF Within, Covered
    <2>10. y <= m
      <3>1. PICK q \in Nat : q = Len(l.ring) /\ q <= m
        BY <2>5
      <3>2. y <= q
        BY <2>5, <2>6, <2>8, <3>1, NewerFinite
      <3> QED
        BY <2>5, <3>1, <3>2
    <2>11. m * (1 + a) = z + m
      <3>1. PICK b \in Nat, c \in Nat : b = a /\ c = m
        BY <2>5, <2>6
      <3>2. c * (1 + b) = c * b + c
        BY NatProduct
      <3> QED
        BY <2>8, <3>1, <3>2
    <2>12. x <= z + m
      BY <2>5, <2>9, <2>10
    <2>13. UnitsOf(S) <= m * (1 + a)
      BY <2>7, <2>8, <2>11, <2>12
    <2>14. S = {i \in 1..Len(grants) : grants[i].key = k /\ grants[i].at > clock - l.size}
      BY <2>4 DEF Since
    <2> QED
      BY <2>4, <2>13, <2>14
  <1> QED
    BY <1>1, LogsHold, PTL

-----------------------------------------------------------------------------
(* How long a key takes to recover.                                        *)

\* A bucket that earns q whole grains a tick and fills within the TTL.  One that
\* earns a fraction may not: every query refills it and forgets the fraction
\* (bucket.go:84), without being a use of the entry.
Paced(b, q) ==
  /\ q \in Nat \ {0} /\ b.rate = Second * q
  /\ b.burst \in 1..MaxU64 /\ b.burst <= q * IdleTTL

\* Last used at x, it is full by the time a TTL has passed, or it is now.
Fills(b, q, x) ==
  b.grains = b.burst \/ b.burst <= b.grains + q * (x + IdleTTL - b.last)

\* What is late enough stays so.
LEMMA FillsLater ==
  ASSUME NEW b \in Buckets, NEW q, Paced(b, q), NEW x \in Int, NEW y \in Int, x <= y,
         Fills(b, q, x)
  PROVE  Fills(b, q, y)
  <1>1. PICK d, e : d = x + IdleTTL - b.last /\ e = y + IdleTTL - b.last
    OBVIOUS
  <1>2. /\ d \in Int /\ e \in Int /\ d <= e /\ q \in Nat
        /\ b.grains \in Nat /\ b.burst \in Nat
    BY <1>1, BoundsAssumption DEF Paced, Buckets, TB!States
  <1>3. q * d \in Int /\ q * e \in Int /\ q * d <= q * e
    BY <1>2, IntProductGrows
  <1> QED
    BY <1>1, <1>2, <1>3 DEF Fills

\* A bucket used at t, whatever it then holds.
LEMMA FillsAnew ==
  ASSUME NEW b \in Buckets, NEW q, Paced(b, q), NEW x \in Int, b.last <= x
  PROVE  Fills(b, q, x)
  <1>1. PICK d : d = x + IdleTTL - b.last
    OBVIOUS
  <1>2. /\ d \in Int /\ IdleTTL \in Int /\ IdleTTL <= d /\ q \in Nat
        /\ b.grains \in Nat /\ b.burst \in Nat /\ b.burst <= q * IdleTTL
    BY <1>1, BoundsAssumption DEF Paced, Buckets, TB!States
  <1>3. q * d \in Int /\ q * IdleTTL \in Int /\ q * IdleTTL <= q * d
    BY <1>2, IntProductGrows
  <1> QED
    BY <1>1, <1>2, <1>3 DEF Fills

\* A refill, at any time, is on the way of filling it.
LEMMA RefillFills ==
  ASSUME NEW b \in Buckets, NEW q, Paced(b, q), NEW x \in Int, NEW t \in Int,
         Fills(b, q, x)
  PROVE  LET r == TB!Refill(b, t) IN
         r \in Buckets /\ Paced(r, q) /\ r.last = t /\ Fills(r, q, x)
  <1>1. PICK r : r = TB!Refill(b, t)
    OBVIOUS
  <1>2. /\ b.grains \in Nat /\ b.burst \in Nat /\ b.last \in Int /\ b.grains <= b.burst
        /\ q \in Nat \ {0} /\ q \in Nat /\ b.rate = Second * q /\ b.burst # 0
        /\ b.burst <= MaxU64
        /\ b = [grains |-> b.grains, last |-> b.last, rate |-> b.rate, burst |-> b.burst]
    BY DEF Paced, Buckets, TB!States
  <1>3. b.rate \in Nat /\ b.rate # 0
    BY <1>2, ScaleAssumption
  <1>4. r \in Buckets /\ r.rate = b.rate /\ r.burst = b.burst /\ r.last = t
    <2>1. Spends(b, r, 0, t)
      BY <1>1, BucketRefill
    <2> QED
      BY <1>2, <1>3, <2>1 DEF Spends
  <1>5. Paced(r, q)
    BY <1>4 DEF Paced
  <1>6. PICK y, z : y = x + IdleTTL - t /\ z = x + IdleTTL - b.last
    OBVIOUS
  <1>7. y \in Int /\ z \in Int /\ q * y \in Int /\ q * z \in Int
    BY <1>2, <1>6, BoundsAssumption
  <1>8. CASE t <= b.last
    <2>1. r = [b EXCEPT !.last = t]
      BY <1>1, <1>2, <1>3, <1>8 DEF TB!Refill, TB!Stopped
    <2>2. r.grains = b.grains
      BY <1>2, <2>1
    <2>3. z <= y
      BY <1>2, <1>6, <1>7, <1>8, BoundsAssumption
    <2>4. q * z <= q * y
      BY <1>2, <1>7, <2>3, IntProductGrows
    <2>5. Fills(r, q, x)
      BY <1>2, <1>4, <1>6, <1>7, <2>2, <2>4 DEF Fills
    <2> QED
      BY <1>1, <1>4, <1>5, <2>5
  <1>9. CASE ~(t <= b.last)
    <2>1. PICK d \in Nat : d = t - b.last
      BY <1>2, <1>9
    <2>2. t = b.last + d /\ z = d + y
      BY <1>2, <1>6, <1>7, <2>1, BoundsAssumption
    <2>3. PICK e : e = q * d
      OBVIOUS
    <2>4. e \in Nat /\ q * z = e + q * y
      <3>1. e \in Nat
        BY <1>2, <2>1, <2>3, NatProduct
      <3>2. q * (d + y) = q * d + q * y
        BY <1>2, <1>7, <2>1
      <3> QED
        BY <2>2, <2>3, <3>1, <3>2
    <2>5. (b.rate * d) \div Second = e
      <3>1. b.rate * d = Second * e
        <4>1. PICK g : g = Second
          OBVIOUS
        <4>2. (g * q) * d = g * (q * d)
          BY <1>2, <2>1, <4>1, ScaleAssumption
        <4> QED
          BY <1>2, <2>3, <4>1, <4>2
      <3>2. (Second * e) \div Second = e
        BY <2>4, ScaleAssumption, ExactQuotient
      <3> QED
        BY <3>1, <3>2
    <2>6. r.grains = MinU64(b.burst, b.grains + e)
      BY <1>1, <1>2, <1>3, <2>1, <2>2, <2>5, RefillsBy
    <2>7. Fills(r, q, x)
      BY <1>2, <1>4, <1>6, <1>7, <2>4, <2>6 DEF Fills, MinU64
    <2> QED
      BY <1>1, <1>4, <1>5, <2>7
  <1> QED
    BY <1>8, <1>9

\* A TTL after its last use it is full.
LEMMA FillsInTime ==
  ASSUME NEW b \in Buckets, NEW q, Paced(b, q), NEW x \in Int, NEW c \in Int,
         Fills(b, q, x), x + IdleTTL <= c
  PROVE  TB!Refill(b, c).grains = b.burst
  <1>1. PICK r : r = TB!Refill(b, c)
    OBVIOUS
  <1>2. r \in Buckets /\ Paced(r, q) /\ r.last = c /\ Fills(r, q, x)
    BY <1>1, RefillFills
  <1>3. r.burst = b.burst
    <2>1. Spends(b, r, 0, c)
      BY <1>1, BucketRefill
    <2> QED
      BY <2>1 DEF Spends
  <1>4. PICK d : d = x + IdleTTL - c
    OBVIOUS
  <1>5. d \in Int /\ d <= 0 /\ q \in Nat /\ 0 \in Int /\ q * 0 = 0
    BY <1>2, <1>4, BoundsAssumption DEF Paced
  <1>6. q * d \in Int /\ q * d <= 0
    BY <1>5, IntProductGrows
  <1>7. r.grains \in Nat /\ r.burst \in Nat /\ r.grains <= r.burst
    BY <1>2 DEF Buckets, TB!States
  <1> QED
    BY <1>1, <1>2, <1>3, <1>4, <1>6, <1>7 DEF Fills

\* A decision, a query and a restore of the bucket.
LEMMA AllowFills ==
  ASSUME NEW b \in Buckets, NEW q, Paced(b, q), NEW x \in Int, NEW y \in Int, x <= y,
         NEW n \in 1..MaxTokens, NEW t \in Int, t <= y, Fills(b, q, x)
  PROVE  LET r == TB!Allow(b, n, t) IN
         /\ r.st \in Buckets /\ Paced(r.st, q) /\ Fills(r.st, q, y)
         /\ r.out = "panic" => Fills(r.st, q, x)
  <1>1. PICK r, c, need : r = TB!Allow(b, n, t) /\ c = TB!Refill(b, t) /\ need = TB!Need(n)
    OBVIOUS
  <1>2. c \in Buckets /\ Paced(c, q) /\ c.last = t /\ Fills(c, q, x)
    BY <1>1, RefillFills
  <1>3. r.st \in {b, c} \/ (r.out = "ok" /\ c.grains >= need /\ r.st = [c EXCEPT !.grains = @ - need])
    BY <1>1 DEF TB!Allow, TB!Accept, TB!Refuse, TB!Impossible, TB!Panic
  <1>4. CASE r.st \in {b, c}
    <2>1. r.st \in Buckets /\ Paced(r.st, q) /\ Fills(r.st, q, x)
      BY <1>2, <1>4
    <2> QED
      BY <1>1, <2>1, FillsLater
  <1>5. CASE r.out = "ok" /\ c.grains >= need /\ r.st = [c EXCEPT !.grains = @ - need]
    <2>1. need \in Nat
      BY <1>1, NeedIs
    <2>2. r.st \in Buckets /\ r.st.last = t /\ r.st.rate = c.rate /\ r.st.burst = c.burst
      BY <1>2, <1>5, <2>1 DEF Buckets, TB!States
    <2>3. Paced(r.st, q)
      BY <1>2, <2>2 DEF Paced
    <2>4. Fills(r.st, q, y)
      BY <2>2, <2>3, FillsAnew
    <2> QED
      BY <1>1, <1>5, <2>2, <2>3, <2>4
  <1> QED
    BY <1>3, <1>4, <1>5

LEMMA PeekFills ==
  ASSUME NEW b \in Buckets, NEW q, Paced(b, q), NEW x \in Int, NEW n, NEW t \in Int,
         Fills(b, q, x)
  PROVE  Fills(TB!Peek(b, n, t).st, q, x)
  <1>1. PICK r, c : r = TB!Peek(b, n, t) /\ c = TB!Refill(b, t)
    OBVIOUS
  <1>2. c \in Buckets /\ Fills(c, q, x)
    BY <1>1, RefillFills
  <1>3. [c EXCEPT !.grains = @ - 0] = c
    BY <1>2 DEF Buckets, TB!States
  <1>4. r.st \in {b, c}
    BY <1>1, <1>3 DEF TB!Peek, TB!Accept, TB!Refuse, TB!Impossible, TB!Panic
  <1> QED
    BY <1>1, <1>2, <1>4

LEMMA RestoreFills ==
  ASSUME NEW b \in Buckets, NEW q, Paced(b, q), NEW x \in Int,
         NEW n \in 1..MaxTokens, NEW t \in Int, Fills(b, q, x)
  PROVE  Fills(TB!Restore(b, n, t), q, x)
  <1>1. PICK c, need, g, u : /\ c = TB!Refill(b, t) /\ need = TB!Need(n)
                             /\ g = MinU64(c.burst, MinU64(c.grains + need, MaxU64))
                             /\ u = TB!Restore(b, n, t)
    OBVIOUS
  <1>2. c \in Buckets /\ Paced(c, q) /\ Fills(c, q, x)
    BY <1>1, RefillFills
  <1>3. /\ need \in Nat /\ c.grains \in Nat /\ c.burst \in Nat /\ c.grains <= c.burst
        /\ c.burst <= MaxU64 /\ MaxU64 \in Nat
    BY <1>1, <1>2, NeedIs, WidthAssumption DEF Paced, Buckets, TB!States
  <1>4. u = b \/ u = [c EXCEPT !.grains = g]
    BY <1>1 DEF TB!Restore, TB!SaturatingAddU64, TB!MinU64, MinU64
  <1>5. g \in Nat /\ c.grains <= g /\ (c.grains = c.burst => g = c.burst)
    BY <1>1, <1>3 DEF MinU64
  <1>6. ASSUME u = [c EXCEPT !.grains = g]
        PROVE  Fills(u, q, x)
    <2>1. u.grains = g /\ u.burst = c.burst /\ u.last = c.last
      BY <1>2, <1>6 DEF Buckets, TB!States
    <2>2. PICK e : e = q * (x + IdleTTL - c.last)
      OBVIOUS
    <2>3. e \in Int
      <3>1. x + IdleTTL - c.last \in Int /\ q \in Int
        BY <1>2, BoundsAssumption DEF Paced, Buckets, TB!States
      <3> QED
        BY <2>2, <3>1
    <2> QED
      BY <1>2, <1>3, <1>5, <2>1, <2>2, <2>3 DEF Fills
  <1> QED
    BY <1>1, <1>4, <1>6

-----------------------------------------------------------------------------
(* The states of a key on their way.                                       *)

\* No event of the ring is later than x.
Past(ring, x) == \A i \in 1..Len(ring) : ring[i] <= x

\* Last used at x, the state has recovered once a TTL has passed, at c at the
\* earliest.
Ripening(s, x, c) ==
  /\ s.tb # NIL => \E q : Paced(s.tb, q) /\ Fills(s.tb, q, x)
  /\ s.gcra # NIL => /\ s.gcra.limit <= IdleTTL
                     /\ s.gcra.tat <= MaxI(x + s.gcra.limit, c)
  /\ s.log # NIL => s.log.size <= IdleTTL /\ Past(s.log.ring, x)
  /\ s.ctr = NIL

\* A TTL is long enough for the policy of state p.  No TTL is for a sliding
\* counter: a query slides it ahead, and a call that read the clock before then
\* counts in the newer bucket, but is a use of the entry at its own time.
Recovers(p) ==
  /\ p.tb # NIL => \E q : Paced(p.tb, q)
  /\ p.gcra # NIL => p.gcra.limit <= IdleTTL
  /\ p.log # NIL => p.log.size <= IdleTTL
  /\ p.ctr = NIL

\* A ring that was pruned, and one to which events at t were added.
LEMMA PastPart ==
  ASSUME NEW ring \in Seq(Int), NEW x \in Int, Past(ring, x),
         NEW j \in Int, NEW k \in Int, 1 <= j, k <= Len(ring)
  PROVE  Past(SubSeq(ring, j, k), x)
  <1>1. PICK part : part = SubSeq(ring, j, k)
    OBVIOUS
  <1>2. Len(ring) \in Nat /\ \A i \in 1..Len(ring) : ring[i] \in Int
    OBVIOUS
  <1>3. /\ Len(part) = IF j <= k THEN k - j + 1 ELSE 0
        /\ \A i \in 1..(k - j + 1) : part[i] = ring[j + i - 1]
    <2>1. \A i \in j..k : ring[i] \in Int
      BY <1>2
    <2> QED
      BY <1>1, <2>1, SubSeqProperties
  <1>4. \A i \in 1..Len(part) : i \in 1..(k - j + 1) /\ j + i - 1 \in 1..Len(ring)
    BY <1>2, <1>3
  <1> QED
    BY <1>1, <1>3, <1>4 DEF Past

LEMMA PastLater ==
  ASSUME NEW ring \in Seq(Int), NEW x \in Int, NEW y \in Int, x <= y, Past(ring, x)
  PROVE  Past(ring, y)
  <1>1. \A i \in 1..Len(ring) : ring[i] \in Int
    OBVIOUS
  <1> QED
    BY <1>1 DEF Past

LEMMA PastPushed ==
  ASSUME NEW ring \in Seq(Int), NEW y \in Int, Past(ring, y), NEW t \in Int, t <= y, NEW n \in Nat
  PROVE  Past(Log!PushN(ring, t, n), y)
  <1>1. PICK m, more, grown : /\ m = Len(ring) /\ more = [i \in 1..n |-> t]
                              /\ grown = ring \o more
    OBVIOUS
  <1>2. m \in Nat /\ more \in Seq(Int) /\ Len(more) = n
    BY <1>1
  <1>3. /\ Len(grown) = m + n
        /\ \A i \in 1..m : grown[i] = ring[i]
        /\ \A i \in (m + 1)..(m + n) : grown[i] = t
    BY <1>1, <1>2
  <1>4. \A i \in 1..(m + n) : i \in 1..m \/ i \in (m + 1)..(m + n)
    BY <1>2
  <1>5. \A i \in 1..(m + n) : grown[i] <= y
    BY <1>1, <1>3, <1>4 DEF Past
  <1> QED
    BY <1>1, <1>3, <1>5 DEF Past, Log!PushN

LEMMA AllowPast ==
  ASSUME NEW l \in Logs, NEW n \in Nat, NEW t \in Int, NEW x \in Int, NEW y \in Int,
         x <= y, t <= y, Past(l.ring, x)
  PROVE  LET r == Log!Allow(l, n, t) IN
         /\ r.st.size = l.size /\ Past(r.st.ring, y)
         /\ r.out # "ok" => Past(r.st.ring, x)
  <1>1. PICK r, cut, kept, grown :
          /\ r = Log!Allow(l, n, t) /\ cut = Log!Cutoff(l, t)
          /\ kept = Log!Prune(l.ring, cut) /\ grown = Log!PushN(kept, t, n)
    OBVIOUS
  <1>2. l.ring \in Seq(Int) /\ l.size \in Nat /\ cut \in Int /\ Len(l.ring) \in Nat
    BY <1>1 DEF Logs, Log!States, Log!Cutoff
  <1>3. kept \in Seq(Int) /\ Past(kept, x)
    <2>1. PICK k \in 0..Len(l.ring) : kept = SubSeq(l.ring, k + 1, Len(l.ring))
      BY <1>1, <1>2, PruneDrops
    <2>2. k + 1 \in Int /\ 1 <= k + 1 /\ Len(l.ring) <= Len(l.ring) /\ Len(l.ring) \in Int
      BY <1>2
    <2>3. Past(kept, x)
      BY <1>2, <2>1, <2>2, PastPart
    <2> QED
      BY <1>1, <1>2, <2>3, LogPrune
  <1>4. Past(l.ring, y) /\ Past(kept, y) /\ Past(grown, y)
    <2>1. Past(l.ring, y) /\ Past(kept, y)
      BY <1>2, <1>3, PastLater
    <2> QED
      BY <1>1, <1>3, <2>1, PastPushed
  <1>5. \/ r.st \in {l, [l EXCEPT !.ring = kept]}
        \/ r.out = "ok" /\ r.st = [l EXCEPT !.ring = grown]
    BY <1>1 DEF Log!Allow, Log!Accept, Log!Refuse, Log!Impossible
  <1>6. \A v : [l EXCEPT !.ring = v].ring = v /\ [l EXCEPT !.ring = v].size = l.size
    BY DEF Logs, Log!States
  <1>7. /\ r.st.size = l.size
        /\ r.st.ring \in {l.ring, kept} \/ (r.out = "ok" /\ r.st.ring = grown)
    BY <1>5, <1>6
  <1> QED
    BY <1>1, <1>3, <1>4, <1>7

\* Where the gates of a state go in a decision, a query and a restore.
LEMMA AllowParts ==
  ASSUME NEW s \in GoodStates, NEW n \in 1..MaxTokens, NEW t \in Nat
  PROVE  LET a == Allow(s, n, t)
             b == TB!Allow(s.tb, n, t)
         IN /\ s.tb # NIL =>
                 \/ a.st.tb = b.st /\ (a.out = "panic" => b.out = "panic")
                 \/ a.out # "panic" /\ a.st.tb = TB!Restore(b.st, n, t)
            /\ a.out = "panic" => s.tb # NIL
  <1>1. PICK r, w, a, b : /\ r = AllowRate(s, n, t) /\ w = AllowWindow(r.st, n, t)
                          /\ a = Allow(s, n, t) /\ b = TB!Allow(s.tb, n, t)
    OBVIOUS
  <1>2. s \in [tb: Buckets \cup {NIL}, gcra: Meters \cup {NIL},
               log: Logs \cup {NIL}, ctr: Counters \cup {NIL}]
    BY DEF GoodStates
  <1>3. s.tb # NIL => r.out = b.out /\ r.st.tb = b.st /\ r.st = [s EXCEPT !.tb = b.st]
    <2>1. [s EXCEPT !.tb = b.st].tb = b.st
      BY <1>2
    <2> QED
      BY <1>1, <2>1 DEF AllowRate, Step
  <1>4. s.tb = NIL => r.out # "panic"
    <2>1. GC!Allow(s.gcra, n, t).out # "panic"
      BY DEF GC!Allow, GC!Accept, GC!Refuse, GC!Impossible
    <2> QED
      BY <1>1, <2>1 DEF AllowRate, Step, Accept
  <1>5. w.out # "panic"
    <2>1. Log!Allow(r.st.log, n, t).out # "panic"
      BY DEF Log!Allow, Log!Accept, Log!Refuse, Log!Impossible
    <2>2. Ctr!Allow(r.st.ctr, n, t).out # "panic"
      BY DEF Ctr!Allow, Ctr!Accept, Ctr!Refuse, Ctr!Impossible
    <2> QED
      BY <1>1, <2>1, <2>2 DEF AllowWindow, Step, Accept
  <1>6. ASSUME s.tb # NIL
        PROVE  w.st.tb = b.st
    <2>1. \A v : /\ [r.st EXCEPT !.log = v].tb = r.st.tb
                 /\ [r.st EXCEPT !.ctr = v].tb = r.st.tb
      BY <1>2, <1>3, <1>6
    <2> QED
      BY <1>1, <1>3, <1>6, <2>1 DEF AllowWindow, Step
  <1>7. \/ a = r /\ r.out # "ok"
        \/ a = w
        \/ a.out = w.out /\ a.st = RestoreRate(w.st, n, t)
    <2>1. [w EXCEPT !.st = RestoreRate(@, n, t)].st = RestoreRate(w.st, n, t)
          /\ [w EXCEPT !.st = RestoreRate(@, n, t)].out = w.out
      BY <1>1 DEF AllowWindow, Step
    <2> QED
      BY <1>1, <2>1 DEF Allow
  <1>8. CASE s.tb = NIL
    BY <1>1, <1>4, <1>5, <1>7, <1>8
  <1>9. CASE s.tb # NIL
    <2>1. w.st.tb = b.st /\ r.st.tb = b.st /\ r.out = b.out
      BY <1>3, <1>6, <1>9
    <2>2. a.st = RestoreRate(w.st, n, t) =>
            a.st.tb = IF b.st = NIL THEN NIL ELSE TB!Restore(b.st, n, t)
      <3>1. PICK y : RestoreRate(w.st, n, t)
                       = [w.st EXCEPT !.tb = IF b.st = NIL THEN NIL ELSE TB!Restore(b.st, n, t),
                                      !.gcra = y]
        BY <2>1 DEF RestoreRate
      <3>2. \A v : [w.st EXCEPT !.tb = v, !.gcra = y].tb = v
        <4>1. \A v : /\ DOMAIN [r.st EXCEPT !.log = v] = DOMAIN s
                     /\ DOMAIN [r.st EXCEPT !.ctr = v] = DOMAIN s
          BY <1>3, <1>9
        <4>2. DOMAIN w.st = DOMAIN s
          BY <1>1, <1>3, <1>9, <4>1 DEF AllowWindow, Step
        <4>3. "tb" \in DOMAIN w.st
          BY <1>2, <4>2
        <4> QED
          BY <4>3
      <3> QED
        BY <3>1, <3>2
    <2>3. b.st # NIL
      <3>1. s.tb \in Buckets
        BY <1>9, GoodFields
      <3>2. b.st = s.tb \/ b.st \in Buckets
        BY <1>1, <3>1, BucketAllow DEF Spends
      <3> QED
        BY <1>9, <3>2, NilIsNoState
    <2> QED
      BY <1>1, <1>5, <1>7, <1>9, <2>1, <2>2, <2>3
  <1> QED
    BY <1>8, <1>9

LEMMA PeekParts ==
  ASSUME NEW s \in GoodStates, NEW n, NEW t
  PROVE  LET u == Peek(s, n, t).st IN
         /\ u.gcra = s.gcra /\ u.log = s.log
         /\ s.tb # NIL => u.tb \in {s.tb, TB!Peek(s.tb, n, t).st}
  <1>1. PICK r, w, b : /\ r = PeekRate(s, n, t) /\ w = PeekWindow(r.st, n, t)
                       /\ b = TB!Peek(s.tb, n, t).st
    OBVIOUS
  <1>2. s = [tb |-> s.tb, gcra |-> s.gcra, log |-> s.log, ctr |-> s.ctr]
    BY GoodFields
  <1>3. r.st = s \/ (s.tb # NIL /\ r.st = [s EXCEPT !.tb = b])
    BY <1>1 DEF PeekRate, Step, Accept
  <1>4. /\ r.st.gcra = s.gcra /\ r.st.log = s.log
        /\ DOMAIN r.st = DOMAIN s
        /\ s.tb # NIL => r.st.tb \in {s.tb, b}
    <2>1. CASE r.st = s
      BY <2>1
    <2>2. CASE s.tb # NIL /\ r.st = [s EXCEPT !.tb = b]
      <3>1. PICK f : f = [tb |-> b, gcra |-> s.gcra, log |-> s.log, ctr |-> s.ctr]
        OBVIOUS
      <3>2. r.st = f
        BY <1>2, <2>2, <3>1
      <3> QED
        BY <1>2, <3>1, <3>2
    <2> QED
      BY <1>3, <2>1, <2>2
  <1>5. w.st = r.st \/ \E c : w.st = [r.st EXCEPT !.ctr = c]
    BY <1>1 DEF PeekWindow, Step, Accept
  <1>6. w.st.gcra = r.st.gcra /\ w.st.log = r.st.log /\ w.st.tb = r.st.tb
    <2>1. "tb" \in DOMAIN r.st /\ "gcra" \in DOMAIN r.st /\ "log" \in DOMAIN r.st
      BY <1>2, <1>4
    <2>2. \A c : LET u == [r.st EXCEPT !.ctr = c]
                IN u.gcra = r.st.gcra /\ u.log = r.st.log /\ u.tb = r.st.tb
      BY <2>1
    <2> QED
      BY <1>5, <2>2
  <1>7. Peek(s, n, t) \in {r, w}
    BY <1>1 DEF Peek
  <1> QED
    BY <1>1, <1>4, <1>6, <1>7

\* A cancellation brings the meter back, or to the clock at the latest.
LEMMA RestoreBack ==
  ASSUME NEW g \in Meters, NEW n \in Nat \ {0}, NEW t \in Nat,
         n <= g.burst, g.limit <= MaxI64
  PROVE  GC!Restore(g, n, t).tat <= MaxI(g.tat, t)
  <1>1. PICK inc, tat : inc = g.interval * n /\ tat = MaxI(g.tat - inc, t - g.limit)
    OBVIOUS
  <1>2. /\ g.tat \in Int /\ g.limit \in Nat /\ inc \in Nat
        /\ GC!I64(GC!Inc(g, n)) = inc /\ GC!I64(g.limit) = g.limit
    BY <1>1, MeterInc DEF Meters, GC!States
  <1>3. GC!Restore(g, n, t) \in {g, [g EXCEPT !.tat = tat]}
    BY <1>1, <1>2 DEF GC!Restore, GC!MaxI, MaxI
  <1>4. tat \in Int /\ tat <= MaxI(g.tat, t) /\ g.tat <= MaxI(g.tat, t)
    BY <1>1, <1>2 DEF MaxI
  <1>5. [g EXCEPT !.tat = tat].tat = tat
    BY DEF Meters, GC!States
  <1> QED
    BY <1>3, <1>4, <1>5

-----------------------------------------------------------------------------
(* What each operation does to a state on its way.                         *)

LEMMA GoodIsFormed ==
  GoodStates \subseteq WellFormed
  BY DEF GoodStates, WellFormed, Meters

LEMMA BucketSteps ==
  ASSUME NEW b \in Buckets, NEW q, Paced(b, q), NEW x \in Int, NEW y \in Int, x <= y,
         NEW n \in 1..MaxTokens, NEW t \in Int, t <= y, Fills(b, q, x)
  PROVE  LET r == TB!Allow(b, n, t)
             u == TB!Restore(r.st, n, t)
         IN /\ Paced(r.st, q) /\ Fills(r.st, q, y) /\ (r.out = "panic" => Fills(r.st, q, x))
            /\ Paced(u, q) /\ Fills(u, q, y)
  <1>1. PICK r, u : r = TB!Allow(b, n, t) /\ u = TB!Restore(r.st, n, t)
    OBVIOUS
  <1>2. /\ r.st \in Buckets /\ Paced(r.st, q) /\ Fills(r.st, q, y)
        /\ r.out = "panic" => Fills(r.st, q, x)
    BY <1>1, AllowFills
  <1>3. Fills(u, q, y)
    BY <1>1, <1>2, RestoreFills
  <1>4. u.rate = r.st.rate /\ u.burst = r.st.burst
    BY <1>1, <1>2, BucketRestore DEF Spends
  <1>5. Paced(u, q)
    BY <1>2, <1>4 DEF Paced
  <1> QED
    BY <1>1, <1>2, <1>3, <1>5

LEMMA AllowRipens ==
  ASSUME NEW s \in GoodStates, NEW n \in 1..MaxTokens, NEW t \in Nat,
         s.gcra # NIL => Fits(s.gcra, t),
         NEW x \in Int, NEW y \in Int, x <= y, t <= y, NEW c \in Int, Ripening(s, x, c)
  PROVE  LET a == Allow(s, n, t) IN
         Ripening(a.st, y, c) /\ (a.out = "panic" => Ripening(a.st, x, c))
  <1>1. PICK a, b, k : /\ a = Allow(s, n, t) /\ b = TB!Allow(s.tb, n, t)
                       /\ k = IF a.out = "ok" THEN n ELSE 0
    OBVIOUS
  <1>2. Effect(s, a.st, k, t)
    BY <1>1, AllowEffect
  <1>3. a.st \in GoodStates /\ SameGates(s, a.st) /\ a.st.ctr = NIL
    BY <1>2 DEF Effect, SameGates, Ripening
  <1>4. ASSUME s.tb # NIL
        PROVE  /\ \E q : Paced(a.st.tb, q) /\ Fills(a.st.tb, q, y)
               /\ a.out = "panic" => \E q : Paced(a.st.tb, q) /\ Fills(a.st.tb, q, x)
    <2>1. s.tb \in Buckets /\ t \in Int
      BY <1>4, GoodFields
    <2>2. PICK q : Paced(s.tb, q) /\ Fills(s.tb, q, x)
      BY <1>4 DEF Ripening
    <2>3. PICK u : u = TB!Restore(b.st, n, t)
      OBVIOUS
    <2>4. /\ Paced(b.st, q) /\ Fills(b.st, q, y) /\ (b.out = "panic" => Fills(b.st, q, x))
          /\ Paced(u, q) /\ Fills(u, q, y)
      BY <1>1, <2>1, <2>2, <2>3, BucketSteps
    <2>5. \/ a.st.tb = b.st /\ (a.out = "panic" => b.out = "panic")
          \/ a.out # "panic" /\ a.st.tb = u
      BY <1>1, <1>4, <2>3, AllowParts
    <2> QED
      BY <2>4, <2>5
  <1>5. ASSUME s.gcra # NIL
        PROVE  /\ a.st.gcra.limit <= IdleTTL
               /\ a.st.gcra.tat <= MaxI(y + a.st.gcra.limit, c)
    <2>1. /\ s.gcra.limit \in Nat /\ s.gcra.tat \in Int /\ a.st.gcra.tat \in Int
      BY <1>3, <1>5, GoodFields DEF SameGates, Meters, GC!States
    <2>2. /\ a.st.gcra.limit = s.gcra.limit
          /\ a.st.gcra.tat <= MaxI(s.gcra.tat, t + s.gcra.limit)
      BY <1>2, <1>5 DEF Effect, Moves
    <2>3. s.gcra.limit <= IdleTTL /\ s.gcra.tat <= MaxI(x + s.gcra.limit, c)
      BY <1>5 DEF Ripening
    <2> QED
      BY <2>1, <2>2, <2>3 DEF MaxI
  <1>6. a.out = "panic" => s.gcra = NIL /\ a.st.gcra = NIL
    BY <1>1, <1>3, AllowParts, GoodFields DEF SameGates
  <1>7. ASSUME s.log # NIL
        PROVE  /\ a.st.log.size <= IdleTTL /\ Past(a.st.log.ring, y)
               /\ a.out = "panic" => Past(a.st.log.ring, x)
    <2>1. PICK l : l = Log!Allow(s.log, n, t)
      OBVIOUS
    <2>2. s.log \in Logs /\ n \in Nat /\ t \in Int /\ s.log.ring \in Seq(Int)
      <3>1. s.log \in Logs
        BY <1>7, GoodFields
      <3> QED
        BY <3>1 DEF Logs, Log!States
    <2>3. s.log.size <= IdleTTL /\ Past(s.log.ring, x)
      BY <1>7 DEF Ripening
    <2>4. l.st.size = s.log.size /\ Past(l.st.ring, y) /\ (l.out # "ok" => Past(l.st.ring, x))
      BY <2>1, <2>2, <2>3, AllowPast
    <2>5. Past(s.log.ring, y)
      BY <2>2, <2>3, PastLater
    <2>6. /\ a.out = "ok" => l.out = "ok" /\ a.st.log = l.st
          /\ a.out # "ok" => a.st.log = s.log \/ (l.out # "ok" /\ a.st.log = l.st)
      BY <1>1, <1>7, <2>1, <2>2, AllowLog, GoodIsFormed
    <2> QED
      BY <2>3, <2>4, <2>5, <2>6
  <1>8. Ripening(a.st, y, c)
    BY <1>3, <1>4, <1>5, <1>7 DEF Ripening, SameGates
  <1>9. a.out = "panic" => Ripening(a.st, x, c)
    BY <1>3, <1>4, <1>6, <1>7 DEF Ripening, SameGates
  <1> QED
    BY <1>1, <1>8, <1>9

LEMMA PeekRipens ==
  ASSUME NEW s \in GoodStates, NEW n \in 1..MaxTokens, NEW t \in Nat,
         NEW x \in Int, NEW c \in Int, Ripening(s, x, c)
  PROVE  Ripening(Peek(s, n, t).st, x, c)
  <1>1. PICK u, b : u = Peek(s, n, t).st /\ b = TB!Peek(s.tb, n, t).st
    OBVIOUS
  <1>2. Effect(s, u, 0, t)
    BY <1>1, PeekEffect
  <1>3. /\ u.gcra = s.gcra /\ u.log = s.log /\ SameGates(s, u)
        /\ s.tb # NIL => u.tb \in {s.tb, b}
    BY <1>1, <1>2, PeekParts DEF Effect
  <1>4. ASSUME s.tb # NIL
        PROVE  \E q : Paced(u.tb, q) /\ Fills(u.tb, q, x)
    <2>1. s.tb \in Buckets /\ t \in Int
      BY <1>4, GoodFields
    <2>2. PICK q : Paced(s.tb, q) /\ Fills(s.tb, q, x)
      BY <1>4 DEF Ripening
    <2>3. Fills(b, q, x)
      BY <1>1, <2>1, <2>2, PeekFills
    <2>4. u.tb.rate = s.tb.rate /\ u.tb.burst = s.tb.burst
      BY <1>2, <1>4 DEF Effect, Spends
    <2>5. Paced(u.tb, q)
      BY <2>2, <2>4 DEF Paced
    <2> QED
      BY <1>3, <1>4, <2>2, <2>3, <2>5
  <1>5. Ripening(u, x, c)
    BY <1>3, <1>4 DEF Ripening, SameGates
  <1> QED
    BY <1>1, <1>5

LEMMA RestoreRipens ==
  ASSUME NEW s \in GoodStates, NEW n \in 1..MaxTokens, NEW t \in Nat,
         s.gcra # NIL => n <= s.gcra.burst /\ s.gcra.limit <= MaxI64,
         NEW x \in Int, Ripening(s, x, t)
  PROVE  Ripening(Restore(s, n, t), x, t)
  <1>1. PICK u : u = Restore(s, n, t)
    OBVIOUS
  <1>2. Effect(s, u, -n, t)
    BY <1>1, RestoreEffect
  <1>3. /\ SameGates(s, u)
        /\ s.tb # NIL => u.tb = TB!Restore(s.tb, n, t)
        /\ s.gcra # NIL => u.gcra = GC!Restore(s.gcra, n, t)
        /\ s.log # NIL => u.log = Log!Restore(s.log, n)
    BY <1>1, <1>2, RestoreIs DEF Effect
  <1>4. ASSUME s.tb # NIL
        PROVE  \E q : Paced(u.tb, q) /\ Fills(u.tb, q, x)
    <2>1. s.tb \in Buckets /\ t \in Int
      BY <1>4, GoodFields
    <2>2. PICK q : Paced(s.tb, q) /\ Fills(s.tb, q, x)
      BY <1>4 DEF Ripening
    <2>3. Fills(u.tb, q, x)
      BY <1>3, <1>4, <2>1, <2>2, RestoreFills
    <2>4. u.tb.rate = s.tb.rate /\ u.tb.burst = s.tb.burst
      BY <1>3, <1>4, <2>1, BucketRestore DEF Spends
    <2>5. Paced(u.tb, q)
      BY <2>2, <2>4 DEF Paced
    <2> QED
      BY <2>3, <2>5
  <1>5. ASSUME s.gcra # NIL
        PROVE  u.gcra.limit <= IdleTTL /\ u.gcra.tat <= MaxI(x + u.gcra.limit, t)
    <2>1. s.gcra \in Meters /\ n \in Nat \ {0}
      BY <1>5, GoodFields
    <2>2. u.gcra.tat <= MaxI(s.gcra.tat, t) /\ u.gcra.limit = s.gcra.limit /\ u.gcra \in Meters
      BY <1>2, <1>3, <1>5, <2>1, RestoreBack DEF Effect, Moves
    <2>3. s.gcra.limit <= IdleTTL /\ s.gcra.tat <= MaxI(x + s.gcra.limit, t)
      BY <1>5 DEF Ripening
    <2>4. s.gcra.limit \in Nat /\ s.gcra.tat \in Int /\ u.gcra.tat \in Int
      BY <2>1, <2>2 DEF Meters, GC!States
    <2> QED
      BY <2>2, <2>3, <2>4 DEF MaxI
  <1>6. ASSUME s.log # NIL
        PROVE  u.log.size <= IdleTTL /\ Past(u.log.ring, x)
    <2>1. s.log \in Logs
      BY <1>6, GoodFields
    <2>2. PICK ring, m : ring = s.log.ring /\ m = Len(ring) - n
      OBVIOUS
    <2>3. /\ ring \in Seq(Int) /\ 1 \in Int /\ 1 <= 1 /\ m \in Int /\ m <= Len(ring)
      BY <2>1, <2>2 DEF Logs, Log!States
    <2>4. u.log.size = s.log.size /\ u.log.ring = SubSeq(ring, 1, m)
      BY <1>3, <1>6, <2>1, <2>2 DEF Log!Restore, Log!PopNewestN, Logs, Log!States
    <2>5. s.log.size <= IdleTTL /\ Past(ring, x)
      BY <1>6, <2>2 DEF Ripening
    <2>6. Past(SubSeq(ring, 1, m), x)
      BY <2>3, <2>5, PastPart
    <2> QED
      BY <2>4, <2>5, <2>6
  <1>7. Ripening(u, x, t)
    BY <1>3, <1>4, <1>5, <1>6 DEF Ripening, SameGates
  <1> QED
    BY <1>1, <1>7

\* Later is no worse.
LEMMA RipeningLater ==
  ASSUME NEW s \in GoodStates, NEW x \in Int, NEW c \in Int, NEW d \in Int, c <= d,
         Ripening(s, x, c)
  PROVE  Ripening(s, x, d)
  <1>1. ASSUME s.gcra # NIL
        PROVE  s.gcra.tat <= MaxI(x + s.gcra.limit, d)
    <2>1. s.gcra.tat \in Int /\ s.gcra.limit \in Nat
      BY <1>1, GoodFields DEF Meters, GC!States
    <2>2. s.gcra.tat <= MaxI(x + s.gcra.limit, c)
      BY <1>1 DEF Ripening
    <2> QED
      BY <2>1, <2>2 DEF MaxI
  <1> QED
    BY <1>1 DEF Ripening

\* A TTL after the last use there is nothing left to forget.
LEMMA RipeRecovered ==
  ASSUME NEW s \in GoodStates, NEW x \in Int, NEW c \in Int, Ripening(s, x, c),
         x + IdleTTL <= c
  PROVE  Recovered(s, c)
  <1>1. ASSUME s.tb # NIL
        PROVE  TB!Refill(s.tb, c).grains = s.tb.burst
    <2>1. s.tb \in Buckets
      BY <1>1, GoodFields
    <2>2. PICK q : Paced(s.tb, q) /\ Fills(s.tb, q, x)
      BY <1>1 DEF Ripening
    <2> QED
      BY <2>1, <2>2, FillsInTime
  <1>2. ASSUME s.gcra # NIL
        PROVE  s.gcra.tat <= c
    <2>1. s.gcra.tat \in Int /\ s.gcra.limit \in Nat
      BY <1>2, GoodFields DEF Meters, GC!States
    <2>2. s.gcra.limit <= IdleTTL /\ s.gcra.tat <= MaxI(x + s.gcra.limit, c)
      BY <1>2 DEF Ripening
    <2> QED
      BY <2>1, <2>2, BoundsAssumption DEF MaxI
  <1>3. ASSUME s.log # NIL
        PROVE  Log!Prune(s.log.ring, Log!Cutoff(s.log, c)) = <<>>
    <2>1. PICK ring, cut : ring = s.log.ring /\ cut = Log!Cutoff(s.log, c)
      OBVIOUS
    <2>2. s.log \in Logs
      BY <1>3, GoodFields
    <2>3. ring \in Seq(Int) /\ Len(ring) \in Nat /\ s.log.size \in Nat /\ cut = c - s.log.size
      BY <2>1, <2>2 DEF Logs, Log!States, Log!Cutoff
    <2>4. s.log.size <= IdleTTL /\ Past(ring, x)
      BY <1>3, <2>1 DEF Ripening
    <2>5. cut \in Int /\ x <= cut
      BY <2>3, <2>4, BoundsAssumption
    <2>6. PICK k \in 0..Len(ring) :
             /\ Log!Prune(ring, cut) = SubSeq(ring, k + 1, Len(ring))
             /\ k < Len(ring) => ring[k + 1] > cut
      BY <2>3, <2>5, PruneDrops
    <2>7. k = Len(ring)
      <3> SUFFICES ASSUME k < Len(ring) PROVE FALSE
        BY <2>3
      <3>1. k + 1 \in 1..Len(ring)
        BY <2>3
      <3>2. ring[k + 1] \in Int /\ ring[k + 1] <= x /\ ring[k + 1] > cut
        BY <2>3, <2>4, <2>6, <3>1 DEF Past
      <3> QED
        BY <2>5, <3>2
    <2>8. SubSeq(ring, Len(ring) + 1, Len(ring)) = <<>>
      BY <2>3
    <2> QED
      BY <2>1, <2>6, <2>7, <2>8
  <1> QED
    BY <1>1, <1>2, <1>3 DEF Recovered, Ripening

-----------------------------------------------------------------------------
(* The sweep takes nothing that still has something to forget.             *)

\* A TTL is as long as any policy takes to recover.
TTLRecovers ==
  /\ IdleTTL > 0
  /\ \A p \in Specs : Recovers(NewLimiterState(p, 0))

RipeAt(k) == items[k] # NIL => Ripening(items[k].st, items[k].newest, clock)

RInv == \A k \in Keys : RipeAt(k)

LEMMA StoredGood ==
  ASSUME IInv, NEW k \in Keys, items[k] # NIL
  PROVE  /\ items[k] \in Entries /\ items[k].st \in GoodStates /\ Follows(k, items[k].st)
         /\ items[k].newest \in Nat /\ items[k].updated \in Nat /\ clock \in Nat
  <1>1. items[k] \in Entries /\ clock \in Nat
    BY DEF IInv, TInv, TypeOK
  <1>2. Follows(k, items[k].st)
    BY DEF IInv, KeyInv
  <1> QED
    BY <1>1, <1>2 DEF Entries, Follows

LEMMA RipeStays ==
  ASSUME IInv, NEW k \in Keys, RipeAt(k), items'[k] \in {items[k], NIL},
         clock' \in Nat, clock <= clock'
  PROVE  RipeAt(k)'
  <1> SUFFICES ASSUME items'[k] # NIL PROVE Ripening(items'[k].st, items'[k].newest, clock')
    BY DEF RipeAt, Ripening, Fills, Past, Paced
  <1>1. items'[k] = items[k] /\ items[k] # NIL
    OBVIOUS
  <1>2. items[k].st \in GoodStates /\ items[k].newest \in Int /\ clock \in Int /\ clock' \in Int
    BY <1>1, StoredGood
  <1>3. Ripening(items[k].st, items[k].newest, clock')
    BY <1>1, <1>2, RipeningLater DEF RipeAt
  <1> QED
    BY <1>1, <1>3

LEMMA NewRipens ==
  ASSUME GcraFits, TTLRecovers, NEW p \in Specs, NEW t \in Nat, NEW c \in Int
  PROVE  Ripening(NewLimiterState(p, t), t, c)
  <1>1. PICK s, u : s = NewLimiterState(p, 0) /\ u = NewLimiterState(p, t)
    OBVIOUS
  <1>2. u \in GoodStates /\ New(u, t) /\ SameTerms(s, u) /\ Recovers(s)
    BY <1>1, NewStateGood, NewStateTerms DEF TTLRecovers
  <1>3. s.log = u.log /\ (u.log # NIL => u.log.ring = <<>>)
    BY <1>1 DEF NewLimiterState, Log!NewLog
  <1>4. ASSUME u.tb # NIL
        PROVE  \E q : Paced(u.tb, q) /\ Fills(u.tb, q, t)
    <2>1. PICK q : Paced(s.tb, q)
      BY <1>2, <1>4 DEF Recovers, SameTerms, SameGates
    <2>2. Paced(u.tb, q)
      BY <1>2, <1>4, <2>1 DEF Paced, SameTerms, SameGates
    <2>3. u.tb.grains = u.tb.burst
      BY <1>2, <1>4 DEF New
    <2> QED
      BY <2>2, <2>3 DEF Fills
  <1>5. ASSUME u.gcra # NIL
        PROVE  u.gcra.limit <= IdleTTL /\ u.gcra.tat <= MaxI(t + u.gcra.limit, c)
    <2>1. u.gcra.limit <= IdleTTL
      BY <1>2, <1>5 DEF Recovers, SameTerms, SameGates
    <2>2. u.gcra.limit \in Nat /\ u.gcra.tat \in Int /\ u.gcra.tat <= t
      <3>1. u.gcra \in Meters
        BY <1>2, <1>5, GoodFields
      <3> QED
        BY <1>2, <1>5, <3>1 DEF Meters, GC!States, New
    <2> QED
      BY <2>1, <2>2 DEF MaxI
  <1>6. ASSUME u.log # NIL
        PROVE  u.log.size <= IdleTTL /\ Past(u.log.ring, t)
    BY <1>2, <1>3, <1>6 DEF Recovers, Past
  <1>7. u.ctr = NIL
    BY <1>2 DEF Recovers, SameTerms, SameGates
  <1> QED
    BY <1>1, <1>4, <1>5, <1>6, <1>7 DEF Ripening

LEMMA EnterRipe ==
  ASSUME IInv, GcraFits, TTLRecovers, RInv, NEW g \in Goroutines, Enter(g), NEW k \in Keys
  PROVE  RipeAt(k)'
  <1>1. PICK l, j, e : l = local[g] /\ j = l.key /\ e = GetOrCreate(j, l.now)
    OBVIOUS
  <1>2. /\ l.now \in Nat /\ j \in Keys /\ clock' = clock /\ clock \in Nat
        /\ items' = [items EXCEPT ![j] = e] /\ items \in [Keys -> Entries \cup {NIL}]
    <2>1. l \in Locals /\ l.at = "allow"
      BY <1>1 DEF IInv, TInv, TypeOK, Enter
    <2> QED
      BY <1>1, <2>1, LocalShape DEF IInv, TInv, TypeOK, Enter
  <1>3. CASE k # j \/ items[j] # NIL
    <2>1. items'[k] = items[k]
      BY <1>1, <1>2, <1>3 DEF GetOrCreate
    <2> QED
      BY <1>2, <2>1, RipeStays DEF RInv
  <1>4. CASE k = j /\ items[j] = NIL
    <2>1. PICK u : u = NewLimiterState(spec[j], l.now)
      OBVIOUS
    <2>2. items'[k] = [st |-> u, updated |-> clock, newest |-> l.now]
      BY <1>1, <1>2, <1>4, <2>1 DEF GetOrCreate, NewEntry
    <2>3. spec[j] \in Specs
      BY <1>2 DEF IInv, TInv, TypeOK
    <2>4. Ripening(u, l.now, clock)
      BY <1>2, <2>1, <2>3, NewRipens
    <2> QED
      BY <1>2, <2>2, <2>4 DEF RipeAt, Ripening, Fills, Past, Paced
  <1> QED
    BY <1>3, <1>4

LEMMA PeekRipe ==
  ASSUME IInv, RInv, NEW g \in Goroutines, PeekKey(g), NEW k \in Keys
  PROVE  RipeAt(k)'
  <1>1. PICK l, j, u : l = local[g] /\ j = l.key /\ u = Peek(items[j].st, 1, l.now).st
    OBVIOUS
  <1>2. /\ l.now \in Nat /\ j \in Keys /\ clock' = clock /\ clock \in Nat
        /\ items' = [items EXCEPT ![j] = IF @ = NIL THEN NIL ELSE [@ EXCEPT !.st = u]]
        /\ items \in [Keys -> Entries \cup {NIL}]
    <2>1. l \in Locals /\ l.at = "peek"
      BY <1>1 DEF IInv, TInv, TypeOK, PeekKey
    <2> QED
      BY <1>1, <2>1, LocalShape DEF IInv, TInv, TypeOK, PeekKey
  <1>3. CASE k # j \/ items[j] = NIL
    <2>1. items'[k] = items[k]
      BY <1>2, <1>3
    <2> QED
      BY <1>2, <2>1, RipeStays DEF RInv
  <1>4. CASE k = j /\ items[j] # NIL
    <2>1. /\ items[k] \in Entries /\ items[k].st \in GoodStates /\ items[k].newest \in Int
          /\ clock \in Int /\ 1 \in 1..MaxTokens
      BY <1>2, <1>4, StoredGood, ScaleAssumption
    <2>2. Ripening(u, items[k].newest, clock)
      BY <1>1, <1>2, <1>4, <2>1, PeekRipens DEF RInv, RipeAt
    <2>3. items'[k].st = u /\ items'[k].newest = items[k].newest
      BY <1>2, <1>4, <2>1 DEF Entries
    <2> QED
      BY <1>2, <2>2, <2>3 DEF RipeAt, Ripening, Fills, Past, Paced
  <1> QED
    BY <1>3, <1>4

LEMMA CancelRipe ==
  ASSUME IInv, GcraFits, ChargedInFull, RInv, NEW g \in Goroutines, RestoreKey(g), NEW k \in Keys
  PROVE  RipeAt(k)'
  <1>1. PICK i, j, n, u : /\ i = local[g].id /\ j = grants[i].key /\ n = grants[i].n
                          /\ u = Restore(items[j].st, n, clock)
    OBVIOUS
  <1>2. /\ clock' = clock /\ clock \in Nat
        /\ IF items[j] = NIL THEN items' = items ELSE items' = [items EXCEPT ![j].st = u]
        /\ items \in [Keys -> Entries \cup {NIL}]
    BY <1>1 DEF IInv, TInv, TypeOK, RestoreKey
  <1>3. CASE k # j \/ items[j] = NIL
    <2>1. items'[k] = items[k]
      BY <1>2, <1>3
    <2> QED
      BY <1>2, <2>1, RipeStays DEF RInv
  <1>4. CASE k = j /\ items[j] # NIL
    <2>1. /\ items[k] \in Entries /\ items[k].st \in GoodStates /\ items[k].newest \in Int
          /\ clock \in Int /\ Follows(k, items[k].st)
      BY <1>2, <1>4, StoredGood
    <2>2. i \in 1..Len(grants) /\ n \in Ns
      <3>1. i \in 1..Len(grants)
        BY <1>1 DEF RestoreKey, IInv, TInv, Memory, Remembered
      <3>2. grants[i] \in Grants
        BY <3>1, GrantFields DEF IInv
      <3> QED
        BY <1>1, <3>1, <3>2 DEF Grants
    <2>3. n \in 1..MaxTokens
      BY <2>2, ChargedUnits
    <2>4. items[k].st.gcra # NIL => n <= items[k].st.gcra.burst /\ items[k].st.gcra.limit <= MaxI64
      <3> SUFFICES ASSUME items[k].st.gcra # NIL
                   PROVE  n <= items[k].st.gcra.burst /\ items[k].st.gcra.limit <= MaxI64
        OBVIOUS
      <3>1. Policy(k).gcra # NIL /\ items[k].st.gcra.burst = Policy(k).gcra.burst
            /\ items[k].st.gcra.limit = Policy(k).gcra.limit
        BY <2>1 DEF Follows, SameTerms, SameGates
      <3>2. n <= Policy(k).gcra.burst
        BY <1>1, <1>4, <2>2, <3>1 DEF IInv, GrantsFit
      <3>3. MaxTime + 2 * Policy(k).gcra.limit <= MaxI64
        BY <3>1, PolicyGood DEF IInv
      <3>4. MaxTime \in Nat /\ MaxI64 \in Int /\ items[k].st.gcra.limit \in Nat
        BY <2>1, BoundsAssumption, MaxI64Fits, GoodFields DEF Meters, GC!States
      <3> QED
        BY <3>1, <3>2, <3>3, <3>4
    <2>5. Ripening(u, items[k].newest, clock)
      BY <1>1, <1>2, <1>4, <2>1, <2>3, <2>4, RestoreRipens DEF RInv, RipeAt
    <2>6. items'[k].st = u /\ items'[k].newest = items[k].newest
      BY <1>2, <1>4, <2>1 DEF Entries
    <2> QED
      BY <1>2, <2>5, <2>6 DEF RipeAt, Ripening, Fills, Past, Paced
  <1> QED
    BY <1>3, <1>4

LEMMA DecideRipe ==
  ASSUME IInv, GcraFits, ChargedInFull, RInv, NEW g \in Goroutines, Decide(g), NEW k \in Keys
  PROVE  RipeAt(k)'
  <1>1. PICK l, j, r : l = local[g] /\ j = l.key /\ r = Allow(l.st, l.n, l.now)
    OBVIOUS
  <1>2. /\ clock' = clock /\ clock \in Nat /\ l.at = "allowing" /\ Deciding(local[g], j)
        /\ items' = [items EXCEPT ![j] =
             IF @ = NIL THEN NIL
             ELSE IF r.out = "panic" THEN [@ EXCEPT !.st = r.st]
             ELSE Touch([@ EXCEPT !.st = r.st], l.now)]
        /\ items \in [Keys -> Entries \cup {NIL}]
    BY <1>1 DEF IInv, TInv, TypeOK, Decide, Deciding
  <1>3. CASE k # j \/ items[j] = NIL
    <2>1. items'[k] = items[k]
      BY <1>2, <1>3
    <2> QED
      BY <1>2, <2>1, RipeStays DEF RInv
  <1>4. CASE k = j /\ items[j] # NIL
    <2>1. PICK e, x, y : e = items[k] /\ x = e.newest /\ y = MaxI(x, l.now)
      OBVIOUS
    <2>2. /\ e \in Entries /\ e.st \in GoodStates /\ x \in Int /\ clock \in Int
          /\ Follows(k, e.st)
      BY <1>4, <2>1, StoredGood
    <2>3. /\ l.now \in Nat /\ l.now <= clock /\ l.n \in Ns
      BY <1>1, <1>2, DeciderTypes DEF IInv
    <2>4. l.n \in 1..MaxTokens
      BY <2>3, ChargedUnits
    <2>5. l.st = e.st /\ Booked(l.st, net[k], amnesties[k], waited[k], late[k], clock, l.now)
      BY <1>1, <1>2, <1>4, <2>1 DEF IInv, KeyInv, Working
    <2>6. l.st.gcra # NIL => Fits(l.st.gcra, l.now)
      BY <2>2, <2>3, <2>5, MeterFits DEF Booked, IInv
    <2>7. y \in Int /\ x <= y /\ l.now <= y
      BY <2>1, <2>2, <2>3 DEF MaxI
    <2>8. Ripening(l.st, x, clock)
      BY <1>4, <2>1, <2>5 DEF RInv, RipeAt
    <2>9. Ripening(r.st, y, clock) /\ (r.out = "panic" => Ripening(r.st, x, clock))
      BY <1>1, <2>2, <2>3, <2>4, <2>5, <2>6, <2>7, <2>8, AllowRipens
    <2>10. items'[k].st = r.st /\ items'[k].newest = IF r.out = "panic" THEN x ELSE y
      <3>1. PICK f : f = [e EXCEPT !.st = r.st]
        OBVIOUS
      <3>2. f.st = r.st /\ f.newest = x /\ DOMAIN f = {"st", "updated", "newest"}
        BY <2>1, <2>2, <3>1 DEF Entries
      <3>3. Touch(f, l.now).st = r.st /\ Touch(f, l.now).newest = y
        BY <2>1, <3>2 DEF Touch
      <3> QED
        BY <1>2, <1>4, <2>1, <3>1, <3>2, <3>3
    <2> QED
      BY <1>2, <2>9, <2>10 DEF RipeAt, Ripening, Fills, Past, Paced
  <1> QED
    BY <1>3, <1>4

LEMMA RipeNext ==
  ASSUME IInv, GcraFits, ChargedInFull, TTLRecovers, RInv, [Next]_vars
  PROVE  RInv'
  <1> SUFFICES ASSUME NEW k \in Keys PROVE RipeAt(k)'
    BY DEF RInv
  <1>1. clock \in Nat /\ RipeAt(k)
    BY DEF IInv, TInv, TypeOK, RInv
  <1>2. ASSUME NEW ks, Drop(ks), clock' = clock
        PROVE  RipeAt(k)'
    <2>1. items'[k] \in {items[k], NIL}
      BY <1>2 DEF Drop
    <2> QED
      BY <1>1, <1>2, <2>1, RipeStays
  <1>3. ASSUME items' = items, clock' \in Nat, clock <= clock'
        PROVE  RipeAt(k)'
    BY <1>1, <1>3, RipeStays
  <1>4. ASSUME NEW g \in Goroutines, Call(g) PROVE RipeAt(k)'
    <2>1. items' = items /\ clock' = clock
      BY <1>4 DEF Call, CallAllow, CallPeek, CallReset, CallCancel, CallSweep
    <2> QED
      BY <1>1, <1>3, <2>1
  <1>5. ASSUME NEW g \in Goroutines, Acquire(g) PROVE RipeAt(k)'
    <2>1. CASE ResetKey(g)
      BY <1>2, <2>1 DEF ResetKey
    <2> QED
      BY <1>5, <2>1, EnterRipe, PeekRipe, CancelRipe DEF Acquire
  <1>6. ASSUME NEW g \in Goroutines, Continue(g) PROVE RipeAt(k)'
    <2>1. CASE SweepShard(g)
      BY <1>2, <2>1 DEF SweepShard
    <2>2. CASE SetOnce(g)
      BY <1>1, <1>3, <2>2 DEF SetOnce
    <2> QED
      BY <1>6, <2>1, <2>2, DecideRipe DEF Continue
  <1>7. CASE Tick \/ UNCHANGED vars
    <2>1. items' = items /\ clock' \in Nat /\ clock <= clock'
      BY <1>1, <1>7 DEF Tick, vars
    <2> QED
      BY <1>3, <2>1
  <1> QED
    BY <1>4, <1>5, <1>6, <1>7 DEF Next

\* If the TTL is as long as every policy takes to recover, a sweep (engine.go:88)
\* takes no entry that still had something to forget, unless calls touched it in
\* another order than they read the clock: whatever was granted, queried and
\* given back between the last use of the entry and the sweep.
THEOREM SweepHarmlessHolds ==
  ASSUME GcraFits, ChargedInFull, TTLRecovers
  PROVE  Spec => SweepHarmless
  <1>1. Init => RInv
    <2> SUFFICES ASSUME Init PROVE RInv
      OBVIOUS
    <2> QED
      BY DEF Init, RInv, RipeAt
  <1>2. IInv /\ RInv /\ [Next]_vars => RInv'
    BY RipeNext
  <1> DEFINE Harmless ==
        (\E g \in Goroutines : SweepShard(g)) =>
          \A k \in Keys :
            items[k] # NIL /\ items'[k] = NIL /\ items[k].updated >= items[k].newest =>
              Recovered(items[k].st, clock)
  <1>3. IInv /\ RInv => Harmless
    <2> SUFFICES ASSUME IInv, RInv, NEW g \in Goroutines, SweepShard(g),
                        NEW k \in Keys, items[k] # NIL, items'[k] = NIL,
                        items[k].updated >= items[k].newest
                 PROVE  Recovered(items[k].st, clock)
      OBVIOUS
    <2>1. PICK l : l = local[g]
      OBVIOUS
    <2>2. l.now \in Nat /\ l.now <= clock
      <3>1. l \in Locals /\ l.at = "sweep" /\ l.now <= clock
        BY <2>1 DEF SweepShard, IInv, TInv, TypeOK, Memory, Remembered
      <3> QED
        BY <3>1, LocalShape
    <2>3. IdleFor(items[k], l.now) >= IdleTTL
      BY <2>1 DEF SweepShard, Drop
    <2>4. /\ items[k].st \in GoodStates /\ items[k].newest \in Nat
          /\ items[k].updated \in Nat /\ clock \in Nat
      BY StoredGood
    <2>5. items[k].newest + IdleTTL <= clock
      BY <2>2, <2>3, <2>4, BoundsAssumption DEF IdleFor, MaxI, TTLRecovers
    <2>6. Ripening(items[k].st, items[k].newest, clock)
      BY DEF RInv, RipeAt
    <2> QED
      BY <2>4, <2>5, <2>6, RipeRecovered
  <1>4. IInv /\ RInv /\ [Next]_vars => [Harmless]_vars
    BY <1>3
  <1> HIDE DEF Harmless
  <1>5. Spec => []IInv
    BY Balanced
  <1>6. Spec => [][Harmless]_vars
    BY <1>1, <1>2, <1>4, <1>5, PTL DEF Spec
  <1> QED
    BY <1>6 DEF SweepHarmless, Harmless

=============================================================================
