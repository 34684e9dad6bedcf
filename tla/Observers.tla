----------------------------- MODULE Observers -----------------------------
(***************************************************************************)
(* internal/metrics/collector.go and the counts of internal/store, as the  *)
(* goroutines of the engine keep them and others read them: Allow, Peek,   *)
(* Reset and Sweep, a snapshot of the metrics, and the walk of Len and     *)
(* AggregateStats over the shards.  Every atomic operation is a step, and  *)
(* every section under a mutex nobody else can look into.  Which verdict a *)
(* call gets, and which entries are idle, is Engine's business: here any.  *)
(***************************************************************************)
EXTENDS Arith, Sequences, FiniteSetsExt, Functions

CONSTANTS
  Goroutines, Keys, NIL,
  Shards,        \* walked in the order of their numbers
  ShardOf,       \* the shard of a key, which is also the number of its lock
  Policies,      \* names of policies
  Reasons,       \* reasons of a denial
  Waits,         \* suggested waits, zero when there is none
  MaxCalls       \* bound: calls in all

ASSUME ObserversAssumption ==
  /\ Shards # {} /\ Shards \subseteq Nat /\ IsFiniteSet(Shards)
  /\ ShardOf \in [Keys -> Shards]
  /\ Waits \subseteq Nat /\ MaxCalls \in Nat
  /\ NIL \notin Goroutines \cup Nat

VARIABLES
  items,     \* the keys that have an entry
  stats,     \* lookups, misses, puts and dels of each shard
  lock,      \* who holds the lock of a shard's keys, or NIL
  count,     \* the collector's plain counters; of waitNanos, the whole sum
  byPolicy,  \* grants of a policy, NIL before the first
  byReason,  \* denials for a reason, NIL before the first
  mu,        \* who holds the collector's mutex, or NIL
  calling,   \* a goroutine's call, or Idle
  \* History:
  calls,     \* calls begun
  found,     \* resets that found an entry
  held,      \* reservations not cancelled
  always,    \* the keys that had an entry throughout a goroutine's walk
  ever       \* the keys that had an entry at some time during it

storeVars == <<items, stats, found, held, always, ever>>

collectorVars == <<count, byPolicy, byReason>>

vars == <<storeVars, collectorVars, lock, mu, calling, calls>>

Counters == {"allowed", "denied", "peeked", "resets", "reserved", "canceled", "sweeps",
             "charged", "softHits", "chargeDenied", "refunded", "refundDenied",
             "waitNanos", "waitSamples"}

Tallies == [lookups: Nat, misses: Nat, puts: Nat, dels: Nat]

Zero == [lookups |-> 0, misses |-> 0, puts |-> 0, dels |-> 0]

-----------------------------------------------------------------------------
(* The steps of each operation, in the order of the code.  A call is the   *)
(* steps it has still to do, with its arguments and what it read so far.   *)

\* The call of a goroutine that has none.
Idle == [op |-> "none", todo |-> <<>>]

\* Mutant of CountSteps: the breakdown is counted before the total.
CountStepsMapFirst(ok, wait) ==
  <<"find", "bump", "total">> \o (IF ~ok /\ wait > 0 THEN <<"nanos", "sample">> ELSE <<>>)

\* Mutant of CountSteps: a wait is counted before it is added.
CountStepsSampleFirst(ok, wait) ==
  <<"total", "find", "bump">> \o (IF ~ok /\ wait > 0 THEN <<"sample", "nanos">> ELSE <<>>)

\* Collector.Allow.
CountSteps(ok, wait) ==
  <<"total", "find", "bump">> \o (IF ~ok /\ wait > 0 THEN <<"nanos", "sample">> ELSE <<>>)

\* decide: the metrics are counted while the key's lock is held.
AllowSteps(ok, wait) ==
  <<"enter">> \o CountSteps(ok, wait) \o (IF ok THEN <<"reserved">> ELSE <<>>) \o <<"leave">>

\* Collector.Charge and Collector.Refund, whatever the ledger said.
QuotaSteps ==
  {<<"charged">>, <<"charged", "softHits">>, <<"chargeDenied">>,
   <<"refunded">>, <<"refundDenied">>}

SnapshotSteps ==
  <<"lockMaps", "reasons", "policies", "unlockMaps",
    "readSamples", "readNanos", "readAllowed", "readDenied">>

Init ==
  /\ items = {}
  /\ stats = [s \in Shards |-> Zero]
  /\ lock = [s \in Shards |-> NIL]
  /\ count = [c \in Counters |-> 0]
  /\ byPolicy = [p \in Policies |-> NIL]
  /\ byReason = [r \in Reasons |-> NIL]
  /\ mu = NIL
  /\ calling = [g \in Goroutines |-> Idle]
  /\ calls = 0
  /\ found = 0
  /\ held = 0
  /\ always = [g \in Goroutines |-> {}]
  /\ ever = [g \in Goroutines |-> {}]

Begin(g, c) ==
  /\ calling[g] = Idle
  /\ calls < MaxCalls
  /\ calls' = calls + 1
  /\ calling' = [calling EXCEPT ![g] = c]

CallAllow(g, k, p) ==
  /\ Begin(g, [op |-> "allow", key |-> k, ok |-> TRUE, of |-> p, wait |-> 0,
               todo |-> AllowSteps(TRUE, 0)])
  /\ UNCHANGED <<storeVars, collectorVars, lock, mu>>

CallDeny(g, k, r, w) ==
  /\ Begin(g, [op |-> "allow", key |-> k, ok |-> FALSE, of |-> r, wait |-> w,
               todo |-> AllowSteps(FALSE, w)])
  /\ UNCHANGED <<storeVars, collectorVars, lock, mu>>

\* A call that is refused before it reaches a key: no wait and no lock.
CallInvalid(g, r) ==
  /\ Begin(g, [op |-> "allow", key |-> NIL, ok |-> FALSE, of |-> r, wait |-> 0,
               todo |-> CountSteps(FALSE, 0)])
  /\ UNCHANGED <<storeVars, collectorVars, lock, mu>>

CallPeek(g, k) ==
  /\ Begin(g, [op |-> "peek", key |-> k, todo |-> <<"look", "peeked", "leave">>])
  /\ UNCHANGED <<storeVars, collectorVars, lock, mu>>

CallReset(g, k) ==
  /\ Begin(g, [op |-> "reset", key |-> k, todo |-> <<"delete", "resets">>])
  /\ UNCHANGED <<storeVars, collectorVars, lock, mu>>

\* A reservation made and not cancelled before is restored, if it is found.
CallCancel(g, k) ==
  /\ held > 0
  /\ held' = held - 1
  /\ Begin(g, [op |-> "cancel", key |-> k, todo |-> <<"look", "leave", "canceled">>])
  /\ UNCHANGED <<items, stats, found, always, ever, collectorVars, lock, mu>>

CallQuota(g, steps) ==
  /\ Begin(g, [op |-> "quota", todo |-> steps])
  /\ UNCHANGED <<storeVars, collectorVars, lock, mu>>

CallSweep(g) ==
  /\ Begin(g, [op |-> "sweep", left |-> Shards, n |-> 0, todo |-> <<"sweep", "sweeps">>])
  /\ UNCHANGED <<storeVars, collectorVars, lock, mu>>

CallSnapshot(g) ==
  /\ Begin(g, [op |-> "snapshot", todo |-> SnapshotSteps,
               reasons |-> <<>>, policies |-> <<>>, samples |-> 0, nanos |-> 0,
               allowed |-> 0, denied |-> 0])
  /\ UNCHANGED <<storeVars, collectorVars, lock, mu>>

\* Mutant of ShardsToWalk: the last shard is left out.
ShardsToWalkShort == Shards \ {Max(Shards)}

ShardsToWalk == Shards

\* AggregateStats, of which Len is the count of items alone.
CallStats(g) ==
  /\ Begin(g, [op |-> "stats", left |-> ShardsToWalk, n |-> 0, sum |-> Zero,
               todo |-> <<"walk">>])
  /\ always' = [always EXCEPT ![g] = items]
  /\ ever' = [ever EXCEPT ![g] = items]
  /\ UNCHANGED <<items, stats, found, held, collectorVars, lock, mu>>

-----------------------------------------------------------------------------

\* Goroutine g is at a step, and does it.
At(g, step) == calling[g].todo # <<>> /\ Head(calling[g].todo) = step

Done(g, c) == calling' = [calling EXCEPT ![g] = [c EXCEPT !.todo = Tail(@)]]

\* The entries change, and every walk under way takes note.
Leaves(entries) ==
  /\ items' = entries
  /\ always' = [g \in Goroutines |-> always[g] \cap entries]
  /\ ever' = [g \in Goroutines |-> ever[g] \cup entries]

Looked(s, miss, put) ==
  [s EXCEPT !.lookups = @ + 1, !.misses = @ + miss, !.puts = @ + put]

Key(g) == calling[g].key

\* The lock of the key, and GetOrCreate under the mutex of its shard.
Enter(g) ==
  LET s == ShardOf[Key(g)]
      miss == IF Key(g) \in items THEN 0 ELSE 1
  IN /\ At(g, "enter")
     /\ lock[s] = NIL
     /\ lock' = [lock EXCEPT ![s] = g]
     /\ stats' = [stats EXCEPT ![s] = Looked(@, miss, miss)]
     /\ Leaves(items \cup {Key(g)})
     /\ Done(g, calling[g])
     /\ UNCHANGED <<found, held, collectorVars, mu, calls>>

\* The lock of the key, and Get.
Look(g) ==
  LET s == ShardOf[Key(g)]
      miss == IF Key(g) \in items THEN 0 ELSE 1
  IN /\ At(g, "look")
     /\ lock[s] = NIL
     /\ lock' = [lock EXCEPT ![s] = g]
     /\ stats' = [stats EXCEPT ![s] = Looked(@, miss, 0)]
     /\ Done(g, calling[g])
     /\ UNCHANGED <<items, found, held, always, ever, collectorVars, mu, calls>>

\* Delete under the key's lock, which is let go at once; no lookup is counted.
Delete(g) ==
  LET s == ShardOf[Key(g)]
      hit == IF Key(g) \in items THEN 1 ELSE 0
  IN /\ At(g, "delete")
     /\ lock[s] = NIL
     /\ stats' = [stats EXCEPT ![s].dels = @ + hit]
     /\ found' = found + hit
     /\ Leaves(items \ {Key(g)})
     /\ Done(g, calling[g])
     /\ UNCHANGED <<held, collectorVars, lock, mu, calls>>

\* Mutant of Unlock: the lock is kept.
UnlockNot(s) == lock' = lock

Unlock(s) == lock' = [lock EXCEPT ![s] = NIL]

Leave(g) ==
  /\ At(g, "leave")
  /\ Unlock(ShardOf[Key(g)])
  /\ Done(g, calling[g])
  /\ UNCHANGED <<storeVars, collectorVars, mu, calls>>

\* Mutant of Swept: what a sweep removes is not counted.
SweptUncounted(st, n) == st

Swept(st, n) == [st EXCEPT !.dels = @ + n]

\* SweepIdle of the shards in turn, any entries being idle.
SweepShard(g) ==
  LET c == calling[g]
      s == Min(c.left)
  IN /\ At(g, "sweep")
     /\ \E idle \in SUBSET {k \in items : ShardOf[k] = s} :
          /\ stats' = [stats EXCEPT ![s] = Swept(@, Cardinality(idle))]
          /\ Leaves(items \ idle)
          /\ calling' = [calling EXCEPT ![g] =
               [c EXCEPT !.left = @ \ {s}, !.n = @ + Cardinality(idle),
                         !.todo = IF c.left = {s} THEN Tail(@) ELSE @]]
     /\ UNCHANGED <<found, held, collectorVars, lock, mu, calls>>

WalkShard(g) ==
  LET c == calling[g]
      s == Min(c.left)
  IN /\ At(g, "walk")
     /\ calling' = [calling EXCEPT ![g] =
          [c EXCEPT !.left = @ \ {s},
                    !.n = @ + Cardinality({k \in items : ShardOf[k] = s}),
                    !.sum = [f \in DOMAIN @ |-> @[f] + stats[s][f]],
                    !.todo = IF c.left = {s} THEN Tail(@) ELSE @]]
     /\ UNCHANGED <<storeVars, collectorVars, lock, mu, calls>>

-----------------------------------------------------------------------------
(* The collector.                                                          *)

\* What a step adds to which counter; a step that adds one to a counter has its
\* name.
Adds(c, step) ==
  CASE step = "total"  -> [to |-> IF c.ok THEN "allowed" ELSE "denied", n |-> 1]
    [] step = "nanos"  -> [to |-> "waitNanos", n |-> c.wait]
    [] step = "sample" -> [to |-> "waitSamples", n |-> 1]
    [] step = "sweeps" -> [to |-> "sweeps", n |-> c.n]
    [] OTHER           -> [to |-> step, n |-> 1]

\* Every counter is an atomic.Int64.  The sum of the waits, each of them up to
\* a year, is the one that can outgrow it: it is added up whole here and wraps
\* where it is read, which comes to the same.
Add(g) ==
  \E step \in Counters \cup {"total", "nanos", "sample"} :
    LET add == Adds(calling[g], step) IN
    /\ At(g, step)
    /\ count' = [count EXCEPT ![add.to] = @ + add.n]
    /\ held' = IF step = "reserved" THEN held + 1 ELSE held
    /\ Done(g, calling[g])
    /\ UNCHANGED <<items, stats, found, always, ever, byPolicy, byReason, lock, mu, calls>>

\* Mutant of Found: a new counter without looking for one.
FoundFresh(map, k) == [map EXCEPT ![k] = 0]

Found(map, k) == [map EXCEPT ![k] = IF @ = NIL THEN 0 ELSE @]

\* The locked part of bumpMap: the counter of a name, made if need be.
FindCounter(g) ==
  /\ At(g, "find")
  /\ mu = NIL
  /\ IF calling[g].ok
       THEN byPolicy' = Found(byPolicy, calling[g].of) /\ UNCHANGED byReason
       ELSE byReason' = Found(byReason, calling[g].of) /\ UNCHANGED byPolicy
  /\ Done(g, calling[g])
  /\ UNCHANGED <<storeVars, count, lock, mu, calls>>

\* The rest of it, outside the mutex.
BumpCounter(g) ==
  /\ At(g, "bump")
  /\ IF calling[g].ok
       THEN byPolicy' = [byPolicy EXCEPT ![calling[g].of] = @ + 1] /\ UNCHANGED byReason
       ELSE byReason' = [byReason EXCEPT ![calling[g].of] = @ + 1] /\ UNCHANGED byPolicy
  /\ Done(g, calling[g])
  /\ UNCHANGED <<storeVars, count, lock, mu, calls>>

LockMaps(g) ==
  /\ At(g, "lockMaps")
  /\ mu = NIL
  /\ mu' = g
  /\ Done(g, calling[g])
  /\ UNCHANGED <<storeVars, collectorVars, lock, calls>>

UnlockMaps(g) ==
  /\ At(g, "unlockMaps")
  /\ mu' = NIL
  /\ Done(g, calling[g])
  /\ UNCHANGED <<storeVars, collectorVars, lock, calls>>

\* One counter of a map after the other, in any order; nil ones are not there.
Unread(map, read) == {k \in DOMAIN map : map[k] # NIL} \ DOMAIN read

With(read, k, v) == [x \in DOMAIN read \cup {k} |-> IF x = k THEN v ELSE read[x]]

ReadReasons(g) ==
  LET c == calling[g] IN
  /\ At(g, "reasons")
  /\ \/ \E r \in Unread(byReason, c.reasons) :
          calling' = [calling EXCEPT ![g].reasons = With(@, r, byReason[r])]
     \/ /\ Unread(byReason, c.reasons) = {}
        /\ Done(g, c)
  /\ UNCHANGED <<storeVars, collectorVars, lock, mu, calls>>

ReadPolicies(g) ==
  LET c == calling[g] IN
  /\ At(g, "policies")
  /\ \/ \E p \in Unread(byPolicy, c.policies) :
          calling' = [calling EXCEPT ![g].policies = With(@, p, byPolicy[p])]
     \/ /\ Unread(byPolicy, c.policies) = {}
        /\ Done(g, c)
  /\ UNCHANGED <<storeVars, collectorVars, lock, mu, calls>>

\* waitNanos as the machine holds it: a sum that wrapped at every addition.
WaitNanos == I64(U64(count["waitNanos"]))

\* The other plain counters are read after these, one by one.
ReadTotal(g) ==
  LET c == calling[g] IN
  /\ \/ At(g, "readSamples") /\ Done(g, [c EXCEPT !.samples = count["waitSamples"]])
     \/ At(g, "readNanos") /\ Done(g, [c EXCEPT !.nanos = WaitNanos])
     \/ At(g, "readAllowed") /\ Done(g, [c EXCEPT !.allowed = count["allowed"]])
     \/ At(g, "readDenied") /\ Done(g, [c EXCEPT !.denied = count["denied"]])
  /\ UNCHANGED <<storeVars, collectorVars, lock, mu, calls>>

\* The caller has what it asked for.
Return(g) ==
  /\ calling[g] # Idle /\ calling[g].todo = <<>>
  /\ calling' = [calling EXCEPT ![g] = Idle]
  /\ always' = [always EXCEPT ![g] = {}]
  /\ ever' = [ever EXCEPT ![g] = {}]
  /\ UNCHANGED <<items, stats, found, held, collectorVars, lock, mu, calls>>

Next ==
  \E g \in Goroutines :
    \/ \E k \in Keys, p \in Policies : CallAllow(g, k, p)
    \/ \E k \in Keys, r \in Reasons, w \in Waits : CallDeny(g, k, r, w)
    \/ \E r \in Reasons : CallInvalid(g, r)
    \/ \E k \in Keys : CallPeek(g, k) \/ CallReset(g, k) \/ CallCancel(g, k)
    \/ \E steps \in QuotaSteps : CallQuota(g, steps)
    \/ CallSweep(g) \/ CallSnapshot(g) \/ CallStats(g)
    \/ Enter(g) \/ Look(g) \/ Delete(g) \/ Leave(g) \/ SweepShard(g) \/ WalkShard(g)
    \/ Add(g) \/ FindCounter(g) \/ BumpCounter(g) \/ LockMaps(g) \/ UnlockMaps(g)
    \/ ReadReasons(g) \/ ReadPolicies(g) \/ ReadTotal(g) \/ Return(g)

Spec == Init /\ [][Next]_vars

-----------------------------------------------------------------------------

Sum(map) == MapThenSumSet(LAMBDA k : map[k], {k \in DOMAIN map : map[k] # NIL})

Finished(g, op) == calling[g].op = op /\ calling[g].todo = <<>>

Quiet == \A g \in Goroutines : calling[g].todo = <<>>

\* Types; and whoever holds a lock has still to let go of it, on its way.
TypeOK ==
  /\ items \subseteq Keys
  /\ stats \in [Shards -> Tallies]
  /\ count \in [Counters -> Nat]
  /\ byPolicy \in [Policies -> Nat \cup {NIL}]
  /\ byReason \in [Reasons -> Nat \cup {NIL}]
  /\ \A s \in Shards :
       lock[s] # NIL =>
         LET c == calling[lock[s]] IN ShardOf[c.key] = s /\ "leave" \in Range(c.todo)
  /\ mu # NIL => "unlockMaps" \in Range(calling[mu].todo)
  /\ calls \in 0..MaxCalls /\ found \in Nat /\ held \in Nat

\* A snapshot is not taken at one instant (collector.go:111), but its
\* breakdowns never exceed its totals: every call counts the total first, and
\* the snapshot reads it last.
SnapshotAddsUp ==
  \A g \in Goroutines : Finished(g, "snapshot") =>
    /\ Sum(calling[g].reasons) <= calling[g].denied
    /\ Sum(calling[g].policies) <= calling[g].allowed

\* The average wait of a snapshot (collector.go:122) is never below the
\* shortest wait anyone was told, whichever calls it catches half counted; as
\* long as the sum of all waits fits an int64.  About 293 waits of a year do
\* not, and then the sum has wrapped and the average may be negative.
AverageCovers ==
  count["waitNanos"] <= MaxI64 =>
    \A g \in Goroutines : Finished(g, "snapshot") =>
      Min(Waits \ {0}) * calling[g].samples <= calling[g].nanos

\* Nothing is lost between goroutines: once no call is under way, the totals
\* are what their breakdowns add up to, even of names first seen by several
\* goroutines at once (collector.go:44), every grant was counted as reserved,
\* and whatever was deleted was swept or reset.
NothingLost ==
  Quiet =>
    /\ count["allowed"] = Sum(byPolicy) /\ count["denied"] = Sum(byReason)
    /\ count["reserved"] = count["allowed"]
    /\ Sum([s \in Shards |-> stats[s].dels]) = count["sweeps"] + found

\* AggregateStats (store.go:154) balances whatever goes on between its shards:
\* what was put and not deleted is there, and is put only after a miss.
StatsBalance ==
  \A g \in Goroutines : Finished(g, "stats") =>
    LET sum == calling[g].sum
    IN /\ calling[g].n + sum.dels = sum.puts
       /\ sum.puts <= sum.misses /\ sum.misses <= sum.lookups

\* Len (store.go:123) may be a number of entries that there never were at one
\* time, but it counts each of those there throughout, and none but those there
\* at some time.
WalkBounds ==
  \A g \in Goroutines : Finished(g, "stats") =>
    /\ Cardinality(always[g]) <= calling[g].n
    /\ calling[g].n <= Cardinality(ever[g])

=============================================================================
