------------------------------- MODULE Engine -------------------------------
(***************************************************************************)
(* allow.go and engine.go over internal/store and internal/syncutil: calls *)
(* of several goroutines, the locks of the keys, the store of their        *)
(* entries and the sweep of the idle ones.  A key is one of the store's,   *)
(* the policy a call resolved with the key it was given: the table may     *)
(* change between calls, so that any call may go to any key, but every     *)
(* state is of one policy for good, and a reservation keeps its key.       *)
(*                                                                         *)
(* A goroutine takes one step for each stretch of code between two points  *)
(* where others can tell the difference.  All that is done to an entry is  *)
(* done under its key's lock, except by Sweep, which looks at its time of  *)
(* last use alone; so that what Peek, Cancel and Reset do under the lock   *)
(* is one step, and what AllowN does is two, since it finds the entry      *)
(* first and touches it last.  Sweep reads the time of last use while it   *)
(* may be written, and finds the old time or the new one.                  *)
(***************************************************************************)
EXTENDS LimiterState, FiniteSetsExt

CONSTANTS
  Goroutines,
  Keys,          \* of the store: policy and encoded key
  Shard,         \* the shard of a key: the same hash for its lock and its entry
  Specs,         \* the policies to try, one of which Init picks for each key
  IdleTTL,       \* WithIdleTTL; 0: entries are never swept
  Ns,            \* numbers of units asked for
  MaxTime,       \* bound: the clock stops here
  MaxLag,        \* bound: the clock waits for a call that read it this long ago
  MaxGrants,     \* bound: calls let in
  MaxResets      \* bound: calls of Reset

ASSUME SpecsAssumption ==
  \A s \in Specs : s \in SpecRecords /\ Validate(s) /\ HasLimiter(s)

ASSUME BoundsAssumption ==
  /\ Shard \in [Keys -> Nat] /\ IdleTTL \in Nat /\ Ns \subseteq Nat \ {0}
  /\ MaxTime \in Nat /\ MaxLag \in Nat
  /\ MaxGrants \in Nat /\ MaxResets \in Nat
  /\ NIL \notin Goroutines

VARIABLES
  spec,        \* the policy of a key, whose name is a part of it; never changes
  clock,
  holder,      \* the goroutine that holds the lock of a shard, or NIL
  items,       \* the entry of a key, or NIL
  grants,      \* the reservations made, in order
  local,       \* where a goroutine is, and what it remembers
  \* History, read by the properties and by no action but to bound the run:
  net,         \* units granted and not given back, by key
  amnesties,   \* entries dropped that were in use or still had something to forget
  waited,      \* time calls spent between reading the clock and deciding, by key
  late,        \* the same, for the calls that had to make the entry anew
  known,       \* keys that ever had an entry
  resets

vars == <<spec, clock, holder, items, grants, local,
          net, amnesties, waited, late, known, resets>>

Shards == {Shard[k] : k \in Keys}

\* newest, the latest reading of the clock a call has used, is history.
Entries == [st: LimiterStates, updated: Nat, newest: Nat]

\* An entry that is there is not nil.
ASSUME EntryAssumption == NIL \notin Entries

Grants == [key: Keys, n: Ns, at: Nat, once: BOOLEAN, back: Nat]

Idle == [at |-> "idle"]

Locals ==
  {Idle}
  \cup [at: {"allow"}, key: Keys, n: Ns, now: Nat]
  \cup [at: {"allowing"}, key: Keys, n: Ns, now: Nat, st: LimiterStates]
  \cup [at: {"peek"}, key: Keys, now: Nat]
  \cup [at: {"reset"}, key: Keys]
  \cup [at: {"cancel", "restore"}, id: Nat]
  \cup [at: {"sweep"}, now: Nat, shards: SUBSET Shards]

-----------------------------------------------------------------------------

Init ==
  /\ spec \in [Keys -> Specs]
  /\ clock = 0
  /\ holder = [s \in Shards |-> NIL]
  /\ items = [k \in Keys |-> NIL]
  /\ grants = <<>>
  /\ local = [g \in Goroutines |-> Idle]
  /\ net = [k \in Keys |-> 0]
  /\ amnesties = [k \in Keys |-> 0]
  /\ waited = [k \in Keys |-> 0]
  /\ late = [k \in Keys |-> 0]
  /\ known = {}
  /\ resets = 0

\* Mutant of Free: nobody waits.
FreeAlways(k) == TRUE

Free(k) == holder[Shard[k]] = NIL

Lock(k, g) == holder' = [holder EXCEPT ![Shard[k]] = g]

\* Mutant of Unlock: a way out that forgets it.
UnlockNot(k) == UNCHANGED holder

Unlock(k) == holder' = [holder EXCEPT ![Shard[k]] = NIL]

Go(g, l) == local' = [local EXCEPT ![g] = l]

Granting == {g \in Goroutines : local[g].at \in {"allow", "allowing"}}

\* As good as a new one, at this time and later.
Recovered(s, time) ==
  /\ s.tb # NIL => TB!Refill(s.tb, time).grains = s.tb.burst
  /\ s.gcra # NIL => s.gcra.tat <= time
  /\ s.log # NIL => Log!Prune(s.log.ring, Log!Cutoff(s.log, time)) = <<>>
  /\ s.ctr # NIL => \A i \in 1..s.ctr.buckets : Ctr!Advance(s.ctr, time).counts[i] = 0

InUse(k) == \E g \in Goroutines : local[g].at = "allowing" /\ local[g].key = k

\* The entries of the keys in ks leave the store.
Drop(ks) ==
  /\ items' = [k \in Keys |-> IF k \in ks THEN NIL ELSE items[k]]
  /\ amnesties' = [k \in Keys |->
       IF k \in ks /\ items[k] # NIL /\ (InUse(k) \/ ~Recovered(items[k].st, clock))
         THEN amnesties[k] + 1 ELSE amnesties[k]]

-----------------------------------------------------------------------------
(* Allow, AllowN and Reserve: decide with consume = true.                  *)

\* The clock is read before the key's lock is taken.
CallAllow(g, k, n) ==
  /\ local[g] = Idle
  /\ Len(grants) + Cardinality(Granting) < MaxGrants
  /\ Go(g, [at |-> "allow", key |-> k, n |-> n, now |-> clock])
  /\ UNCHANGED <<spec, clock, holder, items, grants,
                 net, amnesties, waited, late, known, resets>>

NewEntry(k, now) ==
  [st |-> NewLimiterState(spec[k], now), updated |-> clock, newest |-> now]

\* Mutant of GetOrCreate: the entry is made without looking for one first.
GetOrCreateBlind(k, now) == NewEntry(k, now)

GetOrCreate(k, now) == IF items[k] # NIL THEN items[k] ELSE NewEntry(k, now)

\* The lock is taken, the entry found or made, and the algorithm reads it.
Enter(g) ==
  LET l == local[g]
      k == l.key
      e == GetOrCreate(k, l.now)
  IN /\ l.at = "allow"
     /\ Free(k)
     /\ Lock(k, g)
     /\ items' = [items EXCEPT ![k] = e]
     /\ Go(g, [at |-> "allowing", key |-> k, n |-> l.n, now |-> l.now, st |-> e.st])
     /\ late' = [late EXCEPT ![k] =
                   IF items[k] = NIL /\ k \in known THEN @ + (clock - l.now) ELSE @]
     /\ known' = known \cup {k}
     /\ UNCHANGED <<spec, clock, grants, net, amnesties, waited, resets>>

\* Mutant of Touch: the entry's time of last use stays that of its creation.
TouchNot(e, now) == e

Touch(e, now) ==
  [e EXCEPT !.updated = now, !.newest = MaxI(@, now)]

\* The algorithm decides and writes, the entry is touched with the time the
\* call began, and the lock is released, by a panic too.  Nobody sees what is
\* written to an entry that a sweep has taken out of the store.
Decide(g) ==
  LET l == local[g]
      k == l.key
      r == Allow(l.st, l.n, l.now)
  IN /\ l.at = "allowing"
     /\ items' = [items EXCEPT ![k] =
          IF @ = NIL THEN NIL
          ELSE IF r.out = "panic" THEN [@ EXCEPT !.st = r.st]
          ELSE Touch([@ EXCEPT !.st = r.st], l.now)]
     /\ IF r.out = "ok"
          THEN /\ grants' = Append(grants, [key |-> k, n |-> l.n, at |-> l.now,
                                            once |-> FALSE, back |-> 0])
               /\ net' = [net EXCEPT ![k] = @ + l.n]
          ELSE UNCHANGED <<grants, net>>
     /\ waited' = [waited EXCEPT ![k] = @ + (clock - l.now)]
     /\ Unlock(k)
     /\ Go(g, Idle)
     /\ UNCHANGED <<spec, clock, amnesties, late, known, resets>>

-----------------------------------------------------------------------------
(* Peek.                                                                   *)

CallPeek(g, k) ==
  /\ local[g] = Idle
  /\ Go(g, [at |-> "peek", key |-> k, now |-> clock])
  /\ UNCHANGED <<spec, clock, holder, items, grants,
                 net, amnesties, waited, late, known, resets>>

\* A missing entry is not made; one that is there is not touched.
PeekKey(g) ==
  LET l == local[g]
      k == l.key
  IN /\ l.at = "peek"
     /\ Free(k)
     /\ items' = [items EXCEPT ![k] =
                    IF @ = NIL THEN NIL
                    ELSE [@ EXCEPT !.st = Peek(items[k].st, 1, l.now).st]]
     /\ waited' = [waited EXCEPT ![k] = @ + (clock - l.now)]
     /\ Go(g, Idle)
     /\ UNCHANGED <<spec, clock, holder, grants, net, amnesties, late, known, resets>>

-----------------------------------------------------------------------------
(* Reset.                                                                  *)

CallReset(g, k) ==
  /\ local[g] = Idle
  /\ resets < MaxResets
  /\ resets' = resets + 1
  /\ Go(g, [at |-> "reset", key |-> k])
  /\ UNCHANGED <<spec, clock, holder, items, grants, net, amnesties, waited, late, known>>

ResetKey(g) ==
  /\ local[g].at = "reset"
  /\ Free(local[g].key)
  /\ Drop({local[g].key})
  /\ Go(g, Idle)
  /\ UNCHANGED <<spec, clock, holder, grants, net, waited, late, known, resets>>

-----------------------------------------------------------------------------
(* Reservation.Cancel.  once is a plain variable that no lock guards.      *)

CallCancel(g, id) ==
  /\ local[g] = Idle
  /\ ~grants[id].once
  /\ Go(g, [at |-> "cancel", id |-> id])
  /\ UNCHANGED <<spec, clock, holder, items, grants,
                 net, amnesties, waited, late, known, resets>>

SetOnce(g) ==
  /\ local[g].at = "cancel"
  /\ grants' = [grants EXCEPT ![local[g].id].once = TRUE]
  /\ Go(g, [local[g] EXCEPT !.at = "restore"])
  /\ UNCHANGED <<spec, clock, holder, items,
                 net, amnesties, waited, late, known, resets>>

\* restore: the clock is read under the lock, and a key without an entry gets
\* nothing back.
RestoreKey(g) ==
  LET id == local[g].id
      k == grants[id].key
      n == grants[id].n
  IN /\ local[g].at = "restore"
     /\ Free(k)
     /\ IF items[k] = NIL
          THEN UNCHANGED <<items, grants, net>>
          ELSE /\ items' = [items EXCEPT ![k].st = Restore(@, n, clock)]
               /\ grants' = [grants EXCEPT ![id].back = @ + 1]
               /\ net' = [net EXCEPT ![k] = @ - n]
     /\ Go(g, Idle)
     /\ UNCHANGED <<spec, clock, holder, amnesties, waited, late, known, resets>>

-----------------------------------------------------------------------------
(* Sweep.                                                                  *)

CallSweep(g) ==
  /\ local[g] = Idle
  /\ IdleTTL > 0
  /\ Go(g, [at |-> "sweep", now |-> clock, shards |-> Shards])
  /\ UNCHANGED <<spec, clock, holder, items, grants,
                 net, amnesties, waited, late, known, resets>>

IdleFor(e, now) == MaxI(0, now - e.updated)

\* SweepIdle of the next shard, without the locks of its keys.
SweepShard(g) ==
  LET l == local[g]
      s == Min(l.shards)
      idle == {k \in Keys : /\ Shard[k] = s
                            /\ items[k] # NIL
                            /\ IdleFor(items[k], l.now) >= IdleTTL}
  IN /\ l.at = "sweep"
     /\ Drop(idle)
     /\ Go(g, IF l.shards = {s} THEN Idle ELSE [l EXCEPT !.shards = @ \ {s}])
     /\ UNCHANGED <<spec, clock, holder, grants, net, waited, late, known, resets>>

-----------------------------------------------------------------------------

Tick ==
  /\ clock < MaxTime
  /\ \A g \in Goroutines :
       local[g].at \in {"allow", "allowing", "peek", "sweep"} =>
         clock - local[g].now < MaxLag
  /\ clock' = clock + 1
  /\ UNCHANGED <<spec, holder, items, grants, local,
                 net, amnesties, waited, late, known, resets>>

Call(g) ==
  \/ \E k \in Keys, n \in Ns : CallAllow(g, k, n)
  \/ \E k \in Keys : CallPeek(g, k)
  \/ \E k \in Keys : CallReset(g, k)
  \/ \E id \in 1..Len(grants) : CallCancel(g, id)
  \/ CallSweep(g)

\* The steps that wait for a key's lock, and those that wait for nothing.
Acquire(g) == Enter(g) \/ PeekKey(g) \/ ResetKey(g) \/ RestoreKey(g)

Continue(g) == Decide(g) \/ SetOnce(g) \/ SweepShard(g)

Next ==
  \/ \E g \in Goroutines : Call(g) \/ Acquire(g) \/ Continue(g)
  \/ Tick

Spec == Init /\ [][Next]_vars

\* Go runs every goroutine that can run, and a mutex is handed to whoever has
\* waited longest once that is over a millisecond: none waits forever for one
\* that is free again and again.  Nobody has to make a call.
FairSpec ==
  /\ Spec
  /\ \A g \in Goroutines : WF_vars(Continue(g)) /\ SF_vars(Acquire(g))

-----------------------------------------------------------------------------

\* Type correctness: a lock is held by the one call that is deciding on a key
\* of its shard (allow.go:134), and by nobody else.
TypeOK ==
  /\ spec \in [Keys -> Specs]
  /\ clock \in Nat
  /\ holder \in [Shards -> Goroutines \cup {NIL}]
  /\ items \in [Keys -> Entries \cup {NIL}]
  /\ grants \in Seq(Grants)
  /\ local \in [Goroutines -> Locals]
  /\ \A g \in Goroutines, s \in Shards :
       holder[s] = g <=> local[g].at = "allowing" /\ Shard[local[g].key] = s

\* GCRA, whatever calls, cancellations, resets and sweeps overlap: a key is
\* granted the allowance once, once more for every entry that was dropped
\* (allow.go:80, store/shard.go:114) while in use or before it had recovered,
\* and what the time earns; and twice the time by which a call that makes the
\* entry anew is late (allow.go:131).
GcraKeyBound ==
  \A k \in Keys :
    items[k] # NIL /\ items[k].st.gcra # NIL =>
      LET g == items[k].st.gcra
      IN g.interval * net[k] <= g.limit * (1 + amnesties[k]) + clock + late[k]

\* The token bucket likewise, except that it also credits twice the time that
\* calls waited for the lock: a call that decides with an old reading of the
\* clock (allow.go:131) sets the bucket back to it (bucket.go:79).
BucketKeyBound ==
  \A k \in Keys :
    items[k] # NIL /\ items[k].st.tb # NIL =>
      LET b == items[k].st.tb
      IN Second * Grain * net[k]
           <= Second * b.burst * (1 + amnesties[k]) + b.rate * (clock + waited[k])

\* The sliding log, if nothing is given back (window.go:5): the units granted
\* within the window that ends now stay within the limit, and one more limit
\* for every entry that was dropped too early.
LogKeyBound ==
  \A k \in Keys :
    items[k] # NIL /\ items[k].st.log # NIL
    /\ (\A i \in 1..Len(grants) : grants[i].back = 0) =>
      LET l == items[k].st.log
          recent == {i \in 1..Len(grants) : grants[i].key = k /\ grants[i].at > clock - l.size}
      IN MapThenSumSet(LAMBDA i : grants[i].n, recent) <= l.limit * (1 + amnesties[k])

\* With a TTL as long as a limiter takes to recover, a sweep (engine.go:88)
\* takes no entry that still had something to forget, unless calls touched it
\* in another order than they read the clock.  For buckets that earn whole
\* grains a tick, GCRA and the sliding log: a query, which is no use of the
\* entry, makes other buckets recover later and slides a counter ahead.
SweepHarmless ==
  [][(\E g \in Goroutines : SweepShard(g)) =>
       \A k \in Keys :
         items[k] # NIL /\ items'[k] = NIL /\ items[k].updated >= items[k].newest =>
           Recovered(items[k].st, clock)]_vars

\* Every call returns: no lock is left behind by one that denies, panics or
\* finds nothing to do (allow.go:134, allow.go:188).
CallsReturn ==
  \A g \in Goroutines : local[g] # Idle ~> local[g] = Idle

\* Cancel is "a no-op if already cancelled" (types.go:152).
CancelOnce ==
  \A i \in 1..Len(grants) : grants[i].back <= 1

=============================================================================
