------------------------ MODULE UsageMeterProperties ------------------------
(***************************************************************************)
(* What the metering of model calls is relied on for.                      *)
(***************************************************************************)
EXTENDS UsageMeter

\* A caller between its lock and its unlock is the holder of its tenant's
\* lock: no other call of the tenant is checked, made or recorded meanwhile.
LockHeld ==
  \A c \in Callers : pc[c] \in Locked => lock[LockOf[tenant[c]]] = c

\* No check is stale: each is still true when the call they allowed is made and recorded.
ChecksCurrent ==
  \A c \in Callers :
    /\ pc[c] \in Checked \cup {"searches"} => ~OverCap(tenant[c])
    /\ pc[c] \in Checked /\ request[c] = "search" /\ tenant[c] \in Signups
         => searches[tenant[c]] < CallLimit
    /\ pc[c] = "mark" => ingests[tenant[c]] < CallLimit

\* The row that counts an ingest costs nothing.
IngestsFree ==
  \A c \in Callers : request[c] = "ingest" \/ pc[c] = "idle" => cost[c] = 0

\* However many calls of a tenant run at once, its recorded spend passes its
\* cap by less than one call (tenant_lock, "closes that race").
CapOvershoot ==
  \A t \in Tenants : Cap[t] # NoCap => spent[t] < Cap[t] + MaxCost

\* No signup tenant makes more searches or ingests than its lifetime limit.
SignupLimits ==
  \A t \in Signups : searches[t] <= CallLimit /\ ingests[t] <= CallLimit

\* The demo family passes its shared cap by at most one call of each of its
\* tenants: the lock admits one per tenant, the sum is over all of them.
FamilyOvershoot ==
  Prefixed = DemoFamily /\ DemoCap > 0
    => FamilySpent < DemoCap + MaxCost * Cardinality(DemoFamily)

\* c is admitted: the last check it has to pass would pass now.
InCall(c) ==
  \/ pc[c] = "mark"
  \/ /\ pc[c] \in {"cap", "searches"} \cup Checked
     /\ ~OverCap(tenant[c])
     /\ request[c] = "search" /\ tenant[c] \in Signups => searches[tenant[c]] < CallLimit

Kind(c) == IF request[c] \in {"search", "ingest"} THEN request[c] ELSE "call"

Open(t) ==
  IF \E c \in Callers : InCall(c) /\ tenant[c] = t
  THEN Kind(CHOOSE c \in Callers : InCall(c) /\ tenant[c] = t)
  ELSE "none"

OpenCalls == [t \in Tenants |-> Open(t)]

Ledger == INSTANCE UsageLedger WITH open <- OpenCalls

\* Locks, checks, calls and rows, each a step of its own that may be the last,
\* implement calls that are admitted at once and charged at once, one of a tenant
\* at a time (metering.py, "so check_cap -> provider call -> record ... is race-free").
CallsAtomic == Ledger!Spec

\* Every call that takes a lock gives it back, with waiters or without.
LocksReturn == \A k \in Locks : lock[k] # None ~> lock[k] = None

\* What this rests on, step by step: whatever ends a call, no lock is left behind
\* by a caller that is not on its way to the unlock of that very lock.
LocksUnderWay ==
  \A k \in Locks : lock[k] # None => pc[lock[k]] \in Locked /\ LockOf[tenant[lock[k]]] = k

\* The demo family, like any capped tenant, passes its shared cap by less than
\* one call (tenant_lock, "closes that race"; DECISIONS.md, "one shared ceiling").
DemoCapHeld == FamilySpent < DemoCap + MaxCost
=============================================================================
