# go-ratelimitx: a TLA+ model of the limiters, the engine, the policies and the quotas

The repository is a Go library: rate limiters (token bucket, GCRA, sliding log,
sliding counter) kept per key in a sharded store, and a ledger of tenant quotas.
This directory models what decides whether a call is let in or a charge is
accepted, checks it with TLC on small instances, and proves nearly all of the
properties with TLAPS for all values of the constants.

## 1. The system

| Component | State | Operations | Makes it correct |
|---|---|---|---|
| Arithmetic (`internal/arith`) | none | multiply-and-divide through 128 bits, saturating sums | no silent wrap, no panic |
| Token bucket (`tokenbucket/bucket.go`) | grains, last refill, rate, burst | Refill, Allow, Peek, Restore | burst + rate x time bounds what is admitted; waits are exact |
| GCRA (`tokenbucket/gcra.go`) | theoretical arrival time (TAT) | Allow, Peek, Restore | leaky-bucket bound over every interval, also after cancellations and a clock set back |
| Sliding log (`slidingwin/window.go`, `log.go`) | ring of timestamps | Allow, Peek, Restore, prune | never more than Limit events in the window; the ring keeps them in order |
| Sliding counter (`slidingwin/counter.go`) | counts of the newest buckets | advance, Allow, Peek, Restore | the weighted estimate stays within Limit |
| Limiter of a key (`state.go`, `policy/spec.go`) | one rate gate and/or one window gate | allow, peek, restore | a refusal by the second gate undoes the first exactly |
| Engine (`engine.go`, `allow.go`) | store, key locks, reservations | Allow, Peek, Reset, Reserve/Cancel, Sweep | the limits survive concurrent calls; every call returns |
| Store and locks (`internal/store`, `internal/syncutil`) | entry per key, mutex per shard (twice) | GetOrCreate, Get, Delete, Sweep, Lock | one entry per key, idle entries only are swept |
| Quota ledger (`internal/ledger`) | a line per tenant, receipts, plan | Charge, Refund, Peek, Reset, SetPlan | hard limit per period, one refund per receipt |
| Clock (`internal/clock`) | the time | Now, Advance, Rewind, Truncate | every algorithm tolerates a clock set back |
| Policy table, composite keys (`internal/policy`, `internal/composite`) | policies, bindings | Register, Bind, Resolve, LoadText | the most specific binding wins |
| Policy text, units, key strings (`policy/parse.go`, `internal/units`, `composite/key.go`) | none | ParseText, ParseRate, ParseDuration, ParseAllowKey | a text means what its lines say, or nothing; different keys stay apart |
| Metrics (`internal/metrics`) | counters, two maps of counters | one operation per event, Snapshot | nothing is lost; a snapshot's parts fit together |
| Quota entry points (`quota.go`) | a ledger per policy | Charge, Refund, PeekQuota, ResetQuota | a receipt reaches the ledger that issued it |

How they interact. `Engine.decide` resolves the key's policy (table read lock),
reads the clock, takes the key's lock, gets or makes the entry (store shard
mutex), lets the limiter decide, touches the entry and counts in the metrics.
`Reserve` hands out a closure that later comes back through `Engine.restore`.
`Sweep` goes through the store with the shard mutexes only. The quota calls
resolve the tenant's policy, find or make that policy's ledger and work under
the ledger's own mutex.

Hard to test: the clock is read before the lock is waited for; Sweep removes
entries that a call has already fetched; a cancellation comes at any later time,
after resets, sweeps, other calls and period boundaries; the clock goes back;
integer division forgets fractions; 64-bit sums wrap. `PROJECT.json` lists each
hazard at its line with the properties that would catch it going wrong.

## 2. The modules

    Arith, Result                        words and verdicts
      TokenBucket  GCRA  SlidingLog  SlidingCounter     operators on one state each
      Ring                               the sliding log again, on its circular buffer
    PolicySpec                           a policy, which algorithm it means, what is valid
      LimiterState                       a policy and its two gates
        Limiter      (MCLimiter)         one key, calls one at a time, any clock
        Engine       (MCEngine)          goroutines, locks, store, sweep
    LeakyBucket                          the abstract specification GCRA implements
    Account                              operators on a tenant's line
      Ledger         (MCLedger)          one policy's ledger
    PolicyText                           the reader of policy texts
    KeyText                              the strings of keys
    Composite                            keys, patterns, the fallback chain
      PolicyTable                        policies and bindings; texts parsed and loaded
        Quota        (MCQuota)           the table, and with Account a ledger per policy
    Observers        (MCObservers)       metrics, the store's counts, and who reads them
    ArithProofs                          integers, words, induction, sums over finite sets
      GateProofs                         what an operator of a gate, and a whole decision, does
        LimiterProofs                    one key: bounds, formulas, windows, waits, rollback
          RefinementProofs               GCRA is the leaky bucket, Ring is the sequence
        EngineProofs                     the same bounds under overlapping calls, and sweeps
      LedgerProofs                       one ledger
      QuotaProofs                        the table, the chain, and a ledger per policy
      ObserversProofs                    locks let go, counters, snapshots and walks

* **Gate modules.** Each is a set of states and one operator for each Go method;
  an operator returns the record `[st, out, wait]` of `Result`: the state the
  method leaves behind, `ok`, `deny`, `impossible` or `panic`, and the suggested
  wait. They have no variables, so that properties can ask what a call *would*
  answer. `LimiterState` instantiates the four and adds `Allow`, `Peek` and
  `Restore` of `state.go`.
* **Ring** is `log.go` as it is written: an array, a start and a length, and the
  methods of `window.go` on it. `SlidingLog` has a sequence in its place; `Times` reads
  one as the other, and `Implements` says that each method, on the ring, gives what it
  gives on the sequence.
* **LeakyBucket** says without arrival times what GCRA promises: a level that drains
  with time and never overflows. `Limiter!ImplementsLeaky` maps TAT to the level
  (`TAT - now`, or empty) and says that `Limiter`'s steps are steps of that bucket.
* **Limiter** is what one key sees under its lock. `AllowN(n)` is the consuming
  half of `decide`, `PeekKey` the query, `Cancel(i)` the first call of a
  reservation's `Cancel`, and the clock moves either way. `spec`, `st` and `now`
  model code; the rest is history for the properties.
* **Engine** takes the lock apart. Each key of the store has its policy (`spec`), and
  any call may go to any key. A goroutine's place is in `local`; the time
  it read, and the state it read under the lock, stay with it. All access to an
  entry's payload is under the key's lock and only `Sweep` looks at an entry
  without it, at its `updated` time alone. Hence Peek, Cancel's restore and
  Reset are one step under the lock, while a decision is two (`Enter`: lock, get
  or make, read; `Decide`: write, touch, unlock), between which a sweep may take
  the entry out of the store. The flag `once` of a reservation is read
  (`CallCancel`) and set (`SetOnce`) in two steps: no lock guards it. The time
  of last use that Sweep reads may be half-written in Go; with a monotonic
  reading the comparison uses one word, so the old or the new time is seen.
  A key's lock and its entry use the same hash, hence one constant `Shard`.
* **Ledger**: each operation of `ledger.go` is one action, since the mutex covers
  it, clock reading included. `accountLocked` (open, roll over, copy the plan) is
  part of every action that calls it, Peek included. `opened`, `visits`, `live`,
  `foreign` and `replans` are history.
* **PolicyText** reads a text as `ParseText` does, a line at a time, the policy under
  way beside those finished. A line is a keyword and words that the conversions tell
  apart: a number, a duration, a rate, any other. Multiplied durations wrap as int64 do.
  `Says` is what a text means, told from the whole text: the reference the reader is
  checked against.
* **KeyText** is the code of `composite/key.go` on strings of separators and others:
  splitting, the loose parser, and the tenant an unparsable string becomes.
* **PolicyTable** has the table's three fields. `Register`, `Bind` and the look-up
  `Resolve` are one step each; `LoadText` parses its text with `PolicyText`, and then
  takes one step for each policy and binding, since each takes the lock anew, and stops
  at the first one refused, keeping what it did. Keys and patterns are triples of
  dimensions, `""` being a missing one and `"*"` the wildcard as in the code.
* **Quota** composes the table with one ledger per policy. A quota call is two steps:
  it resolves the tenant's policy, and later uses that policy's ledger, making it if
  it must. Within the second step the ledger is the one of `ledger.go` again, on the
  operators of `Account`, with a clock that stands: periods are `Ledger`'s business.
  `paid` (what callers were handed), `net` and `resets` are history.

* **Observers** takes the same calls apart at other places: at each atomic operation of
  the collector, each section under its mutex, and each visit of a shard. A call is the
  list of steps it has still to do. Which verdict a call gets and which entries are idle
  is left open, so that nothing depends on the limiters. The collector is counted to
  while the key's lock is held, as in `decide`, but read without it.

Amounts are words of `MaxU64 = 2^w - 1`: sums wrap where Go wraps, saturate where
the code saturates, and `bits.Div64` panics where its quotient does not fit.
Rates are fractions instead of floats, and the sliding counter's float estimate
is compared exactly. Display values (remaining tokens, events in the window) are
left out, except the ledger's `Remaining`, which a property is about.

## 3. The runs

| Run | What it shows |
|---|---|
| `limiter` | the properties below of every algorithm alone and of rate-and-window pairs |
| `ledger` | the ledger's limits and books |
| `engine` | the limits of a key under overlapping calls, and that sweeps are harmless |
| `engine_live` | every call returns |
| `quota` | texts and keys as they are read, look-ups in a table that changes, and the ledgers they lead to |
| `observers` | what the metrics and the store's counts tell while they change |
| `counter_window`, `cancel_slot`, `refill_panic`, `ledger_overflow`, `double_cancel`, `receipt_twice` | what a comment says and the code does not do (section 5) |

**limiter** (`MCLimiter!AllSpecs`: bucket, GCRA, log, counter, bucket+log,
GCRA+log, bucket+counter). `BucketBound` and `GcraBound`: what is admitted and not
cancelled is paid for; a bucket credits time that runs twice twice, GCRA never
does. `BucketFormula`, `GcraFormula`: the bound of `doc.go` over every interval.
`ImplementsLeaky`: GCRA is the leaky bucket `doc.go` likens it to, cancellations and a
clock set back included (a temporal refinement; the other algorithms map to an
idle bucket). `LogWindow`, `CounterWeighs`: the windows' bounds, told from the admitted
calls and not from the state, under any clock. A cancellation takes from the newest bucket,
whoever filled it. For `CounterWeighs` a call goes on weighing until its bucket slides out,
cancelled or not, unless it was cancelled while it was counted in the newest bucket
(`slots`); a cancellation that finds the newest bucket empty frees nothing. Only histories
in which a cancellation took another call's count are left out (`Steals`). `RingImplements`: in every state of a log, the circular buffer does
what the sequence does, wherever in its array it starts and whatever is left in the
places it does not use. `WaitExact`: no retry before the suggested wait is let in, and
the one at its end is. `RollsBack`: a grant undone leaves both gates as if it had
not been made. `PeekAgrees`: each of the four algorithms has its own code for Peek, which
gives Allow's answer, but for one difference that takes a clock set back (section 5).

**ledger** (two tenants, plans with and without debt). `WithinHard`,
`HardPerPeriod`, `Balance`: the line, what is held of a period, and both together.
`RemainingTells`: what callers are told is what decides. `NoFreeQuota`: within a
period quota comes back only through a receipt's first refund.

**engine** (two goroutines; bucket, GCRA, log). `GcraKeyBound`, `BucketKeyBound`,
`LogKeyBound`: a key gets its limit once, once more for every entry that was
dropped in use or before it had recovered, and no more than lateness earns: the
bucket credits the time calls waited for the lock a second time, because a call
with an old reading sets `Last` back; GCRA pays for lateness only where a late call
makes the entry anew. `SweepHarmless`: with a TTL as long as recovery takes, a sweep
forgets nothing unless calls touched the entry in another order than they read the
clock (they can: `Touch` writes the time the call began). It holds for GCRA, for
logs, and for buckets that earn whole grains a tick; section 5 has the two limits. The amnesty, waiting and
ordering terms are needed in this run: without any one of them TLC finds a
counterexample. The lateness term needs three grants, one more than the run has.

**quota** (two goroutines, two tenants, two texts that get in each other's way).
`MostSpecific`: the first hit of the chain is the most specific of the bound
patterns that match, by an order written apart from the chain (`MoreSpecific`); the
patterns the chain leaves out, with a gap or an empty dimension, are named in
`Fitting`. `NeverFallsBack`: whatever is registered, bound and half loaded, a key
never loses its policy to a more general one. `LoadedInForce`: a text loaded without
an error is in force, whoever else wrote to the table at the same time.
`LedgerFollowsPolicy`: a ledger, made long after its policy was resolved, has the plan
the table has. `ChargesOnOneBook`: what the goroutines' calls charge a policy is on
one line, within the hard limit. Two properties about the readers are evaluated in the
first state only, over all their inputs. `ParsesAsWritten`: a text parses to what it
says (`Says`), or is refused for a line that is wrong. `KeysApart`: keys come back from
their encoding, and strings of up to three fields share a state exactly when they differ
in trailing separators.

**observers** (three goroutines, two keys in two shards). `SnapshotAddsUp`: a snapshot
is torn, but its breakdowns never exceed its totals; `AverageCovers`: nor is its average
wait too short, until the sum of the waits wraps (section 5). Both depend on the order in which calls count and snapshots read.
`NothingLost`: when all is quiet, totals are the sums of breakdowns and what was swept
or reset was deleted. `StatsBalance`, `WalkBounds`: what the sum over the shards tells,
taken one shard at a time while entries come and go.

**engine_live** assumes `FairSpec`: weak fairness of a goroutine's unblocked steps,
since Go runs what can run, and strong fairness of taking the lock, since a Go
mutex is handed to the longest waiter after a millisecond (starvation mode).
Callers need not call. Weak fairness of the lock alone would not do: another
goroutine can be refused again and again and hold the lock each time. The safety
runs assume no fairness.

Bounds. Each is a named constant. `Second = 4`, `Grain = 2` and 8-bit words
(`limiter`) are small enough to reach rounding, and large enough not to wrap, which
`refill_panic` does on purpose with a faster rate. Three admitted calls of up to
three units against a burst and a limit of two reach every refusal and its
recovery; the clock runs from tick 1 to 6 and back one, past a window (three or four
ticks) and a refill. The ledger has periods of three ticks and a clock that crosses
one boundary either way, three charges of one or two against hard limits of one and
two, three openings and a change of plan; tenants are symmetric. The engine has one
token in two ticks, two grants, one Reset, a TTL of two ticks and three ticks of
time, and the clock waits for a call that read it one tick ago (`MaxLag`): enough
for a stale reading, an out-of-order touch, a sweep under a decision and a
cancellation into a new entry. Goroutines are symmetric in the safety run; the
liveness run uses no symmetry and has two keys, one under GCRA and one under a log, that
share a shard and so a lock, no time that passes, and requests of two units, which may
be refused for ever. The other engine runs have one key. The table has three policies, one of them in two versions, bindings
at every level of the chain, and two calls that write to it, a load being one: enough
for two loads that collide, a tenant bound to another policy between the steps of a
call and between a charge and its refund, and a receipt shown to a ledger where its
number is unknown, another tenant's or used; two charges, and one reset of a tenant in
each ledger. `receipt_twice` takes five plain writes.
Texts for the reader are up to three lines, out of twenty-two right and wrong ones, alone
or after a policy that is under way, in words of five bits and a second of two ticks, so
that numbers leave the word and products wrap; strings of keys have up to five
characters, four separators being one too many. `observers` has three calls at a time
and in all, so that a snapshot or a walk meets two others, one policy and one reason,
which two calls may count under for the first time. Waits are zero, two and three, and the
largest sum that fits is four (`MaxU64 = 9`): two waits of two fit, and one more wraps.

## 4. The proofs

TLAPS proves, for every number of goroutines, keys, tenants and shards, every policy,
word size, bound and set of inputs that the modules' assumptions admit:

| Module | Theorems | Hypotheses |
|---|---|---|
| `LimiterProofs` | `Inductive`, `TypeCorrect`, `BucketBoundHolds`, `GcraBoundHolds`, `BucketFormulaHolds`, `GcraFormulaHolds`, `LogWindowHolds`, `CounterWeighsHolds`, `RollsBackHolds`, `PeekAgreesHolds` | none |
| | `WaitExactHolds` | `WaitsFit` |
| `RefinementProofs` | `ImplementsLeakyHolds`, `RingIsLog`, `RingImplementsHolds` | none |
| `LedgerProofs` | `TypeCorrect` | none |
| | `Inductive`, `WithinHardHolds`, `HardPerPeriodHolds` | `UnitsFit` |
| | `RemainingTellsHolds`, `NoFreeQuotaHolds`, `BalanceHolds` | `ChargesFit` |
| `EngineProofs` | `Typed`, `TypeCorrect`, `LogsHold`, `LogKeyBoundHolds` | none |
| | `Balanced`, `GcraKeyBoundHolds`, `BucketKeyBoundHolds` | `GcraFits`, `ChargedInFull` |
| | `SweepHarmlessHolds` | these and `TTLRecovers` |
| `ObserversProofs` | `TypeCorrect`, `NothingLostHolds`, `SnapshotAddsUpHolds`, `StatsBalanceHolds`, `WalkBoundsHolds` | none |
| | `AverageCoversHolds` | some wait is not zero; in the property, a sum of waits that fits |
| `QuotaProofs` | `MostSpecificHolds`, `NeverFallsBackHolds`, `LedgerFollowsPolicyHolds` | none |
| | `TypeCorrect`, `LoadedInForceHolds` | `ReadAsWritten` |
| | `ChargesOnOneBookHolds` | `ChargesFit` |

**What is assumed.** The modules' own assumptions, which TLC evaluates on every run: an odd
maximal word, positive scales, `MaxTokens` grains that fit a word, valid policies, tables
whose keys are triples, a `NIL` that is no entry, line or ledger. In `Limiter` also
requests up to `MaxTokens`, above which a call is charged less than it is granted
(`MaxNAssumption`), and a clock and a GCRA allowance that fit an int64 together
(`GcraFitsAssumption`: at most about a century of nanoseconds). The hypotheses of the
theorems say where the code relies on its numbers staying small:

* `UnitsFit`: a plan's hard limit plus any one charge fits an int64, what
  `ledger_overflow` violates; `ChargesFit`: the hard limit plus all charges a ledger may
  hold does (in `QuotaProofs`: all charges do), since plans with debt have no other bound.
* `GcraFits`, `ChargedInFull`: the two assumptions of `Limiter` again, for the engine,
  with the allowance counted twice because a call may come late.
* `WaitsFit`: every bucket refills within the longest wait, and without overflow;
  otherwise the code caps the wait, which is then not exact.
* `TTLRecovers`: the TTL is positive and as long as any policy's recovery, a bucket earns
  whole grains a tick, and there is no counter (section 5).
* `ReadAsWritten`: the texts that are loaded parse to what their lines say. It is
  `ParsesAsWritten` of the run `quota`, asked of `Texts`.

All of them hold of the constants of the passing runs that check the property.

**Sums and induction.** The library's induction theorems take an operator as a parameter
and cannot be used, but induction over an explicit set can: `ArithProofs` derives
`LeastNumber`, `NatInduct` and `SetInduct` from well-founded induction with a set in the
operator's place, and from them what the sum of a finite set is (`Total` and its lemmas, over the
community modules' `MapThenSumSet`), so that the accounts below are real sums.

**A key** (`GateProofs`, `LimiterProofs`). A bound on units is not inductive: it says
nothing of the tokens still in the bucket. `IInv` strengthens it to `BucketAccount`, units
out plus grains left plus what is pending since the last refill are paid for by the burst
and the forward motion of the clock, and to `MeterAccount`, the same in terms of TAT.
`GateProofs` shows once for each operator of a gate how it moves the account, and for a
whole decision, the rollback of the first gate by the second included; `LimiterProofs`
has one lemma for each action. The formulas over every interval need an account for each
admitted call from which the interval may start (`MeterStory`, `BucketStory`); the windows
need where the calls of the history are in the log or the counter (`LogStory`,
`CounterStory`). The latter has two halves: the two newest buckets hold at least the
units of the calls that `slots` puts there (`Covers`), which no clock changes, and every
call was weighed when it was let in (`Weighed`), which no later step changes. `PeekAgrees`
compares the two codes gate by gate. For the log it needs that a ring without an expired
event behind a valid one is pruned of exactly the events Peek leaves out, and that a ring is
in order while the clock was never set back (`RingStory`); in any other ring Peek counts no
more than Allow, `WaitExact` follows each gate's verdict to the time of
the retry, `RollsBack` the grains and timestamps through a decision and back.

**Refinements.** `ImplementsLeaky` needs that `net` is the sum of the calls not cancelled,
without which a cancellation might take back more than is held; three lemmas say exactly
what an operation makes of TAT, where `IInv` needs bounds only. The circular buffer is
related to the sequence by `Rings`: a start, a length and an array read modulo its
capacity. Each method of `Ring` does to its reading what it does to a sequence, so that the
two give one answer in every state, wherever the buffer starts.

**The engine** (`EngineProofs`). `TInv` has the types, the mutual exclusion of the key
locks (whoever decides holds the lock), and that what a goroutine remembers of the clock
is past. `Booked` is the account of a state, in the store or in the hands of the call that
decides on it, `Closed` that of a key without an entry: paid for by one burst for every
entry it had, by the time passed, and by waiting or lateness. For logs the account is
`Covered`: everything granted in the window is in the ring, or in one of those that were
dropped; a cancellation that pops another call's events ends the claim (`Untouched`).
`SweepHarmless` follows from `Ripening`: a TTL after the newest use of an entry, its gates
are where a fresh one's start.

**The ledger** (`LedgerProofs`). `Books`: without debt or a change of plan, a line's use is
within its limit, and what is held of a period is covered by full limits for the earlier
openings, what foreign receipts freed, and the line's own use. The last part makes it
inductive: a line that is reset or rolled over leaves a full limit behind. For `Balance`,
`Traced` says that what is held of a period is the sum of its receipts, and that receipts
are only of periods a line was opened for.

**Table and quota calls** (`QuotaProofs`). The chain of a key is, level by level, the set
of patterns that fit it, the more specific first; the first hit is therefore the most
specific bound one. `TInv`: every bound name has a policy, the list of bindings is the map,
and what a loaded text says is in force or still to be loaded. No policy is ever changed
(`Kept`), so a call under way has the policy that is registered whenever it gets to its
ledger. `QTyped` says of each ledger that its lines are on the current period and its
unrefunded receipts come to what it charged; every second step of a call is then a charge, a
refund, a reset or nothing to one line of one ledger (`Outcome`), and `Fair` follows the
line through these four.

**The observers** (`ObserversProofs`). A call is the list of steps it has still to do. Each
total differs from its breakdown by the weight of the calls between the two counts
(`Counts`). What a snapshot has read of a breakdown stays below what there is until it reads
the total, and below that total from then on (`Snapped`); what a walk has counted is between
the entries that were there throughout and those that were there at all, in the shards
behind it (`Walked`, `Noted`).

Only model-checked: `CallsReturn` (`engine_live`), since liveness under fairness and
ENABLED are out of the prover's reach; and `ParsesAsWritten` and `KeysApart` of `quota`,
which compare what recursive readings of texts and strings compute.

## 5. Where the code and its comments part

* `counter_window`: `Counter.Estimate` weighs the two newest buckets, ten by default;
  the older ones of the same window are forgotten, and more than twice the limit is
  admitted in a window (`types.go:27`). What those two buckets do bound is
  `CounterWeighs`.
* `cancel_slot`: `Log.Restore` pops the newest timestamps, which another call may
  have recorded; the window then holds more events than its limit (`window.go:5`).
* `refill_panic`: a fast bucket left idle earns more grains than a word holds, and
  `bits.Div64` panics before the cap is applied (`arith.go:5`).
* `ledger_overflow`: `Used+units` wraps and passes the check (`ledger.go:30`).
* `double_cancel`: `once` is not synchronised; two goroutines that cancel one
  reservation give it back twice (`types.go:152`).
* `receipt_twice`: `Refund` looks for a receipt in the ledger of the policy the tenant
  has *now*. Bound to another policy, the tenant is refunded that ledger's receipt of
  the same number; bound back, it shows the same receipt again (`quota.go:39`).

Each of these runs checks the comment as a property and ends in a counterexample.

More remarks, no comment being contradicted. `State.Peek` of a token bucket is a
query that refills in place and so forgets the fraction of a grain; `Peek` in `Limiter`
writes the state as the code does. `AllowKey` encodes its key and parses it again: with a
separator in a dimension the string has more than three fields and becomes one tenant, so
that `ErrBadDimension` is never returned. A bare number of seconds is multiplied into an
int64 without a check (`units.go:123`); a wrapped product is refused only if it is not
positive. After the clock was set back, the log's timestamps may be out of order. `Peek`
counts those in the window (`window.go:64`), while `Allow` prunes up to the first valid one
and counts what is left (`window.go:47`): an expired event behind a valid one makes Allow
refuse what Peek promises (ring 10, 3, window 5, now 11, limit 2). `waitNanos` is an
int64 of nanoseconds (`collector.go:23`): some 293 waits of a year, the longest there are,
wrap it, and the average of a snapshot may then be negative. The model wraps it at the read,
and `AverageCovers` claims nothing from there on.

`SweepHarmless` has two limits, which proving it brought out. A bucket that earns a
fraction of a grain a tick recovers later than its rate says if it is peeked at: the
query refills in place and forgets the fraction, and does not touch the entry, so that
a sweep after the TTL finds it idle and not yet full (one grain in two ticks, a burst of
one token of two grains and a TTL of four ticks are enough). And a sliding counter that a
Peek with a later reading has slid ahead records a call with an older reading in the
newer bucket, while the call touches the entry with the old time. In both cases a key
gets a little more than its limit, and only after a whole TTL.

## 6. Not modelled

Options, types and errors, which have no behaviour of their own; the display values;
the splitting of lines into words and the spellings of units (`PolicyText` begins where
a word is a number or a duration); UTF-8 validity; and helpers that nothing in the
program calls (`LoadAndTouch`, `Store.Put`, `Keys`, `ForEach`, `ResetAll`,
`Table.Replace`, `Table.Get`, `SetDefault`, `FallbackKeys`, `Guard`, `OnceValue`,
`Rollover`). In `Engine` a key's policy does not change, and calls with an invalid
key or `n <= 0`, which return before a key's state is touched, are left out; `Observers`
has them, because they count. A clock before 1970 is outside the runs of GCRA: its word
comparison then lets every call in (`gcra.go:58`). Requests above `MaxTokens` are outside
all runs (`bucket.go:107`).

## 7. Plan

Done, in this order: gates, `LimiterState`, `Limiter` and its proofs, `Ledger` and its
proofs, `Engine`, `PolicyTable` and `Quota`, `LeakyBucket`, `Ring`, `PolicyText`,
`KeyText`, `Observers`; then `RefinementProofs`, `GateProofs` and `ArithProofs` apart
from them, `EngineProofs`, `ObserversProofs` and `QuotaProofs`. What is left:

1. `KeysApart` over keys of any length, with the splitting of `KeyText` written as a
   recursive function: an induction over the string.
2. `ReadAsWritten` for every text: `ParseText` and `Says` are folds over lines, and the
   induction would be over the number of lines read.
3. A counter in `TTLRecovers`, with the calls that slide it ahead named in
   `SweepHarmless`.
