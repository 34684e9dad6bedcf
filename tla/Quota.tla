------------------------------- MODULE Quota -------------------------------
(***************************************************************************)
(* quota.go over the policy table and the ledgers: Charge, Refund,         *)
(* PeekQuota and ResetQuota of several goroutines, while policies are      *)
(* registered and tenants bound to others.  A call resolves the tenant's   *)
(* policy in one step, and uses the ledger of that policy in a second one, *)
(* whatever was bound in between; making the ledger is part of the second, *)
(* since nothing tells whether an unused ledger exists.  The clock stands: *)
(* one period of every plan, Ledger has the rest.                          *)
(***************************************************************************)
EXTENDS PolicyTable, Account

CONSTANTS
  Tenants,
  Units,         \* amounts a tenant is charged
  MaxPaid,       \* bound: charges let through
  MaxResets      \* bound: resets of a tenant in a ledger

TenantKey(t) == <<t, Missing, Missing>>

ASSUME QuotaAssumption ==
  /\ \A t \in Tenants : t # Missing /\ TenantKey(t) \in Keys
  /\ \A s \in Policies : s.quota \in Plans64 \cup {NIL}
  /\ Units \subseteq 1..MaxI64
  /\ MaxPaid \in Nat /\ MaxResets \in Nat

VARIABLES
  ledgers,    \* the ledger of a policy, or NIL
  calling,    \* a goroutine's call once it has resolved the policy, or NIL
  \* History, read by the properties and by no action but to bound the run:
  paid,       \* the receipts handed out, and how often each was good for a refund
  net,        \* units a ledger has charged a tenant and not given back
  resets      \* resets of a tenant in a ledger

quotaVars == <<ledgers, calling, paid, net, resets>>

vars == <<tableVars, quotaVars>>

Now == 0

Ledgers ==
  [plan: Plans64,
   accounts: [Tenants -> States \cup {NIL}],
   receipts: Seq([tenant: Tenants, units: Units, refunded: BOOLEAN])]

ASSUME LedgerAssumption == NIL \notin Ledgers /\ NIL \notin States

Calls ==
  [op: {"charge"}, tenant: Tenants, units: Units, spec: Policies]
  \cup [op: {"refund"}, tenant: Tenants, shown: Nat, spec: Policies]
  \cup [op: {"peek", "reset"}, tenant: Tenants, spec: Policies]

Init ==
  /\ TableInit
  /\ ledgers = [n \in Names |-> NIL]
  /\ calling = [g \in Goroutines |-> NIL]
  /\ paid = <<>>
  /\ net = [n \in Names |-> [t \in Tenants |-> 0]]
  /\ resets = [n \in Names |-> [t \in Tenants |-> 0]]

-----------------------------------------------------------------------------

\* The policy of the tenant, which must have a quota, or the call ends here.
Resolved(g, t) ==
  /\ calling[g] = NIL
  /\ loading[g] = NIL
  /\ Resolve(TenantKey(t)).ok
  /\ Resolve(TenantKey(t)).spec.quota # NIL

Call(g, c) ==
  /\ calling' = [calling EXCEPT ![g] = c]
  /\ UNCHANGED <<tableVars, ledgers, paid, net, resets>>

CallCharge(g, t, u) ==
  /\ Resolved(g, t)
  /\ Call(g, [op |-> "charge", tenant |-> t, units |-> u,
              spec |-> Resolve(TenantKey(t)).spec])

\* The caller shows one of the receipts it was given.
CallRefund(g, i) ==
  LET t == paid[i].tenant IN
  /\ Resolved(g, t)
  /\ Call(g, [op |-> "refund", tenant |-> t, shown |-> i,
              spec |-> Resolve(TenantKey(t)).spec])

CallOther(g, op, t) ==
  /\ Resolved(g, t)
  /\ Call(g, [op |-> op, tenant |-> t, spec |-> Resolve(TenantKey(t)).spec])

-----------------------------------------------------------------------------

NewLedger(s) ==
  [plan |-> s.quota, accounts |-> [t \in Tenants |-> NIL], receipts |-> <<>>]

\* Mutant of LedgerFor: made without looking for one first.
LedgerForBlind(s) == NewLedger(s)

LedgerFor(s) == IF ledgers[s.name] = NIL THEN NewLedger(s) ELSE ledgers[s.name]

AccountLocked(l, t) ==
  IF l.accounts[t] = NIL THEN Open(l.plan, Now) ELSE Refresh(l.accounts[t], l.plan, Now)

\* The call returns, and leaves the ledger l, with the tenant's line a.
Returns(g, l, a) ==
  /\ ledgers' = [ledgers EXCEPT ![calling[g].spec.name] =
                   [l EXCEPT !.accounts[calling[g].tenant] = a]]
  /\ calling' = [calling EXCEPT ![g] = NIL]
  /\ UNCHANGED tableVars

Charge(g) ==
  LET c == calling[g]
      n == c.spec.name
      l == LedgerFor(c.spec)
      a == AccountLocked(l, c.tenant)
  IN /\ c # NIL /\ c.op = "charge"
     /\ \/ /\ WouldExceed(a, c.units)
           /\ Returns(g, l, a)
           /\ UNCHANGED <<paid, net>>
        \/ /\ ~WouldExceed(a, c.units)
           /\ Len(paid) < MaxPaid
           /\ Returns(g, [l EXCEPT !.receipts =
                            Append(@, [tenant |-> c.tenant, units |-> c.units,
                                       refunded |-> FALSE])],
                      ApplyCharge(a, c.units))
           /\ paid' = Append(paid, [tenant |-> c.tenant, id |-> Len(l.receipts) + 1,
                                    back |-> 0])
           /\ net' = [net EXCEPT ![n][c.tenant] = @ + c.units]
     /\ UNCHANGED resets

Knows(l, id, t) == id <= Len(l.receipts) /\ l.receipts[id].tenant = t

\* The ledger looks the receipt up by its number alone, checks the tenant, and
\* gives back the units it has on record.
Refund(g) ==
  LET c == calling[g]
      n == c.spec.name
      l == LedgerFor(c.spec)
      id == paid[c.shown].id
      r == l.receipts[id]
      a == AccountLocked(l, c.tenant)
  IN /\ c # NIL /\ c.op = "refund"
     /\ \/ /\ ~Knows(l, id, c.tenant)
           /\ ledgers' = [ledgers EXCEPT ![n] = l]
           /\ calling' = [calling EXCEPT ![g] = NIL]
           /\ UNCHANGED <<tableVars, paid, net>>
        \/ /\ Knows(l, id, c.tenant)
           /\ r.refunded
           /\ Returns(g, l, a)
           /\ UNCHANGED <<paid, net>>
        \/ /\ Knows(l, id, c.tenant)
           /\ ~r.refunded
           /\ Returns(g, [l EXCEPT !.receipts[id].refunded = TRUE],
                      ApplyRefund(a, r.units, l.plan.debt))
           /\ paid' = [paid EXCEPT ![c.shown].back = @ + 1]
           /\ net' = [net EXCEPT ![n][c.tenant] = @ - r.units]
     /\ UNCHANGED resets

PeekQuota(g) ==
  LET c == calling[g]
      l == LedgerFor(c.spec)
  IN /\ c # NIL /\ c.op = "peek"
     /\ Returns(g, l, AccountLocked(l, c.tenant))
     /\ UNCHANGED <<paid, net, resets>>

\* The receipts stay.
ResetQuota(g) ==
  LET c == calling[g]
      n == c.spec.name
  IN /\ c # NIL /\ c.op = "reset"
     /\ resets[n][c.tenant] < MaxResets
     /\ Returns(g, LedgerFor(c.spec), NIL)
     /\ resets' = [resets EXCEPT ![n][c.tenant] = @ + 1]
     /\ UNCHANGED <<paid, net>>

QuotaNext ==
  \E g \in Goroutines :
    \/ \E t \in Tenants, u \in Units : CallCharge(g, t, u)
    \/ \E i \in 1..Len(paid) : CallRefund(g, i)
    \/ \E t \in Tenants, op \in {"peek", "reset"} : CallOther(g, op, t)
    \/ Charge(g)
    \/ Refund(g)
    \/ PeekQuota(g)
    \/ ResetQuota(g)

\* A goroutine in a call does not start to load a text.
Next ==
  \/ /\ TableNext
     /\ \A g \in Goroutines : calling[g] # NIL => loading'[g] = NIL
     /\ UNCHANGED quotaVars
  \/ QuotaNext

Spec == Init /\ [][Next]_vars

-----------------------------------------------------------------------------

\* Type correctness of the table and of the ledgers; a receipt handed out is
\* one of some ledger's.
TypeOK ==
  /\ TableTypeOK
  /\ ledgers \in [Names -> Ledgers \cup {NIL}]
  /\ calling \in [Goroutines -> Calls \cup {NIL}]
  /\ \A i \in 1..Len(paid) :
       /\ paid[i].back \in Nat
       /\ \E n \in Names :
            /\ ledgers[n] # NIL
            /\ paid[i].id <= Len(ledgers[n].receipts)
            /\ ledgers[n].receipts[paid[i].id].tenant = paid[i].tenant
  /\ net \in [Names -> [Tenants -> Nat]]
  /\ resets \in [Names -> [Tenants -> 0..MaxResets]]

\* A policy's ledger keeps the plan its policy has in the table, although it
\* is made long after the call that resolved the policy (engine.go:120), and
\* never looks at the table again.
LedgerFollowsPolicy ==
  \A n \in Names :
    ledgers[n] # NIL => specs[n] # NIL /\ ledgers[n].plan = specs[n].quota

\* Calls of several goroutines on one policy share one ledger, whoever comes
\* first: what the policy has charged a tenant and not given back is on its
\* line, and within the hard limit, once more for every Reset.
ChargesOnOneBook ==
  \A n \in Names, t \in Tenants :
    /\ ledgers[n] = NIL => net[n][t] = 0
    /\ ledgers[n] # NIL =>
         LET l == ledgers[n] IN
         /\ ~l.plan.debt => net[n][t] <= l.plan.hard * (1 + resets[n][t])
         /\ resets[n][t] = 0 =>
              net[n][t] = IF l.accounts[t] = NIL THEN 0 ELSE l.accounts[t].used

\* "The same receipt can succeed only once" (quota.go:39).
ReceiptOnce == \A i \in 1..Len(paid) : paid[i].back <= 1

=============================================================================
