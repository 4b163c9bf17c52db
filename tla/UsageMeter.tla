----------------------------- MODULE UsageMeter -----------------------------
(***************************************************************************)
(* Metered model calls: router/metering.py and the metered paths of        *)
(* ModelGateway.complete and ModelGateway.embed, with the response cache.  *)
(*                                                                         *)
(* A caller is one request or one background job. It takes the advisory    *)
(* lock of its tenant, checks the caps against `usage_events`, calls the   *)
(* provider and records the charge; every database statement and the       *)
(* provider call are steps of their own.  `usage_events` is abstracted to  *)
(* what its sums and counts return.  Money is counted in whole units.      *)
(*                                                                         *)
(* All database work draws on one pool of connections: a caller keeps one  *)
(* for its own session, one for its lock, and needs one more for each      *)
(* check and for the row it records.                                       *)
(***************************************************************************)
EXTENDS Integers, Functions, FiniteSets

CONSTANTS
  Tenants,
  Locks,       (* values of hashtext(), the keys of the advisory locks     *)
  LockOf,      (* hashtext(tenant)                                         *)
  Callers,     (* requests and jobs that may be under way at once          *)
  None,        (* no holder, no tenant, no request                         *)
  Signups,     (* tenants with a row in `users`                            *)
  DemoFamily,  (* the demo tenant and its per-visitor tenants              *)
  Prefixed,    (* tenants whose id is LIKE 'prefix%'                       *)
  DemoCap,     (* demo_spend_cap_usd                                       *)
  Cap,         (* spend_caps_usd, or NoCap                                 *)
  NoCap,
  CallLimit,   (* signup_call_limit                                        *)
  MaxCost,     (* bound on what one call costs                             *)
  Prompts,     (* the message lists that may be completed                  *)
  MayAbort,    (* callers may end at any await                             *)
  PoolSize,    (* pool_size + max_overflow of the engine                   *)
  MaxOthers,   (* bound on the connections in use by anybody else          *)
  MaxCalls     (* bound on the calls begun                                 *)

Kinds == {"embed", "search", "ingest"}

ASSUME MeterAssumption ==
  /\ LockOf \in [Tenants -> Locks]
  /\ None \notin Callers /\ None \notin Tenants
  /\ Prompts \cap Kinds = {}
  /\ Signups \subseteq Tenants
  /\ DemoFamily \subseteq Prefixed /\ Prefixed \subseteq Tenants /\ IsFiniteSet(Prefixed)
  /\ Cap \in [Tenants -> Nat \cup {NoCap}]
  /\ DemoCap \in Nat /\ CallLimit \in Nat /\ MaxCalls \in Nat
  /\ MaxCost \in Nat \ {0}
  /\ MayAbort \in BOOLEAN
  /\ PoolSize \in Nat /\ MaxOthers \in Nat

VARIABLES
  pc,        (* where each caller stands                                   *)
  tenant,    (* its tenant                                                 *)
  request,   (* a prompt to complete, or one of Kinds                      *)
  cost,      (* what the provider's answer to it costs                     *)
  lock,      (* the holder of each advisory lock                           *)
  spent,     (* sum of cost_usd, per tenant                                *)
  searches,  (* count of the rows with SEARCH_AI_HINT, per tenant          *)
  ingests,   (* count of the rows with INGEST_HINT, per tenant             *)
  cached,    (* prompts with an answer in the response cache               *)
  begun,     (* calls begun, bounded by MaxCalls                           *)
  others     (* the connections in use by requests that are no callers     *)

callVars  == <<pc, tenant, request, cost>>
usageVars == <<spent, searches, ingests>>
vars == <<callVars, lock, usageVars, cached, begun, others>>

-----------------------------------------------------------------------------

\*   cache      about to read the cache
\*   connect    about to take a connection for the lock
\*   lock       in pg_advisory_lock
\*   family, cap, searches      in the checks of complete and embed
\*   calling    the provider has the request
\*   record     it has answered, the row not yet committed
\*   ingests, mark              in check_and_record_ingest_request
\*   leave, done                about to unlock, after an error or a success
\*   store      about to write the cache
Checked == {"calling", "record"}
Locked  == {"family", "cap", "searches", "ingests", "mark", "leave", "done"} \cup Checked
PC      == {"idle", "cache", "connect", "lock", "store"} \cup Locked

\* The labels a request can come to.
StageOK(label, r) ==
  /\ label \in {"cache", "store"} => r \in Prompts
  /\ label \in {"ingests", "mark"} => r = "ingest"
  /\ label \in {"family", "cap", "searches"} \cup Checked => r # "ingest"

\* Where a caller stands fits what it has asked for, and only one that has begun
\* has a tenant.
TypeOK ==
  /\ pc \in [Callers -> PC]
  /\ tenant \in [Callers -> Tenants \cup {None}]
  /\ \A c \in Callers : (tenant[c] = None <=> pc[c] = "idle") /\ StageOK(pc[c], request[c])
  /\ request \in [Callers -> Prompts \cup Kinds \cup {None}]
  /\ cost \in [Callers -> 0..MaxCost]
  /\ lock \in [Locks -> Callers \cup {None}]
  /\ spent \in [Tenants -> Nat]
  /\ searches \in [Tenants -> Nat]
  /\ ingests \in [Tenants -> Nat]
  /\ cached \subseteq Prompts
  /\ begun \in Nat
  /\ others \in 0..MaxOthers

Init ==
  /\ pc = [c \in Callers |-> "idle"]
  /\ tenant = [c \in Callers |-> None]
  /\ request = [c \in Callers |-> None]
  /\ cost = [c \in Callers |-> 0]
  /\ lock = [k \in Locks |-> None]
  /\ spent = [t \in Tenants |-> 0]
  /\ searches = [t \in Tenants |-> 0]
  /\ ingests = [t \in Tenants |-> 0]
  /\ cached = {}
  /\ begun = 0
  /\ others = 0

Goto(c, label) == pc' = [pc EXCEPT ![c] = label]

\* The caller returns, or raises.
Leave(c) ==
  /\ Goto(c, "idle")
  /\ tenant' = [tenant EXCEPT ![c] = None]
  /\ request' = [request EXCEPT ![c] = None]
  /\ cost' = [cost EXCEPT ![c] = 0]

\* spent_usd_by_prefix: one sum over the whole family.
FamilySpent == SumFunctionOnSet(spent, Prefixed)

\* The connections that callers keep: that of the session a caller has open
\* around the call, which an ingest has not, and that of its lock.
Held ==
  Cardinality({c \in Callers : pc[c] # "idle" /\ request[c] # "ingest"})
    + Cardinality({c \in Callers : pc[c] \in Locked \cup {"lock"}})

Free == PoolSize - others - Held

\* Where the next statement of c needs a connection of its own: every check that
\* reads a table, and the row.
Reads(c) ==
  \/ pc[c] \in {"connect", "family", "searches", "ingests", "record", "mark"}
  \/ pc[c] = "cap" /\ (Cap[tenant[c]] # NoCap \/ request[c] = "search")

CanRead(c) == Reads(c) => Free > 0

-----------------------------------------------------------------------------
(***************************************************************************)
(* Entering: the cache, then the lock of the tenant.                       *)
(***************************************************************************)

\* Only complete reads the cache; an ingest is counted for signups only.
Begin(c) ==
  /\ pc[c] = "idle"
  /\ begun < MaxCalls
  /\ \E t \in Tenants, r \in Prompts \cup Kinds :
       /\ IF r = "ingest" THEN t \in Signups ELSE Free > 0
       /\ tenant' = [tenant EXCEPT ![c] = t]
       /\ request' = [request EXCEPT ![c] = r]
       /\ Goto(c, IF r \in Prompts THEN "cache" ELSE "connect")
  /\ begun' = begun + 1
  /\ UNCHANGED <<cost, lock, usageVars, cached, others>>

\* A hit is returned verbatim: no lock, no check, no charge.
CacheHit(c) ==
  /\ pc[c] = "cache"
  /\ request[c] \in cached
  /\ Leave(c)
  /\ UNCHANGED <<lock, usageVars, cached, begun, others>>

\* No entry, or Redis did not answer, which degrades to a miss.
CacheMiss(c) ==
  /\ pc[c] = "cache"
  /\ Goto(c, "connect")
  /\ UNCHANGED <<tenant, request, cost, lock, usageVars, cached, begun, others>>

\* The session of tenant_lock gets its connection.
Connect(c) ==
  /\ pc[c] = "connect"
  /\ CanRead(c)
  /\ Goto(c, "lock")
  /\ UNCHANGED <<tenant, request, cost, lock, usageVars, cached, begun, others>>

\* Mutant of PoolTimeout: who holds a lock waits for a connection without limit.
PoolTimeout_WhenUnlocked(c) ==
  /\ ~CanRead(c)
  /\ pc[c] = "connect"
  /\ Leave(c)
  /\ UNCHANGED <<lock, usageVars, cached, begun, others>>

\* No connection came free for thirty seconds: the TimeoutError of the pool. At
\* "record" the provider has been paid, and no row will say so.
PoolTimeout(c) ==
  /\ ~CanRead(c)
  /\ IF pc[c] = "connect" THEN Leave(c)
     ELSE Goto(c, "leave") /\ UNCHANGED <<tenant, request, cost>>
  /\ UNCHANGED <<lock, usageVars, cached, begun, others>>

\* Mutant of LockFree: the lock is not taken per tenant, or not waited for.
LockFree_NoWait(c) == TRUE

LockFree(c) == lock[LockOf[tenant[c]]] = None

Acquire(c) ==
  /\ pc[c] = "lock"
  /\ LockFree(c)
  /\ lock' = [lock EXCEPT ![LockOf[tenant[c]]] = c]
  /\ Goto(c, IF request[c] = "ingest" THEN "ingests"
             ELSE IF tenant[c] \in DemoFamily THEN "family" ELSE "cap")
  /\ UNCHANGED <<tenant, request, cost, usageVars, cached, begun, others>>

\* lock_timeout: TooManyConcurrentRequestsError.
LockTimeout(c) ==
  /\ pc[c] = "lock"
  /\ ~LockFree(c)
  /\ Leave(c)
  /\ UNCHANGED <<lock, usageVars, cached, begun, others>>

-----------------------------------------------------------------------------
(***************************************************************************)
(* check_cap and check_search_ai_request_limit.                            *)
(***************************************************************************)

\* Mutant of CheckFamily: a family exactly at its cap may go on.
CheckFamily_Strict(c) ==
  /\ pc[c] = "family"
  /\ CanRead(c)
  /\ Goto(c, IF FamilySpent > DemoCap THEN "leave" ELSE "cap")
  /\ UNCHANGED <<tenant, request, cost, lock, usageVars, cached, begun, others>>

CheckFamily(c) ==
  /\ pc[c] = "family"
  /\ CanRead(c)
  /\ Goto(c, IF FamilySpent >= DemoCap THEN "leave" ELSE "cap")
  /\ UNCHANGED <<tenant, request, cost, lock, usageVars, cached, begun, others>>

\* Mutant of OverCap: a tenant exactly at its cap may go on.
OverCap_Strict(t) == Cap[t] # NoCap /\ spent[t] > Cap[t]

OverCap(t) == Cap[t] # NoCap /\ spent[t] >= Cap[t]

CheckCap(c) ==
  /\ pc[c] = "cap"
  /\ CanRead(c)
  /\ Goto(c, IF OverCap(tenant[c]) THEN "leave"
             ELSE IF request[c] = "search" /\ tenant[c] \in Signups THEN "searches"
             ELSE "calling")
  /\ UNCHANGED <<tenant, request, cost, lock, usageVars, cached, begun, others>>

\* Mutant of CheckSearches: one search too many.
CheckSearches_Strict(c) ==
  /\ pc[c] = "searches"
  /\ CanRead(c)
  /\ Goto(c, IF searches[tenant[c]] > CallLimit THEN "leave" ELSE "calling")
  /\ UNCHANGED <<tenant, request, cost, lock, usageVars, cached, begun, others>>

CheckSearches(c) ==
  /\ pc[c] = "searches"
  /\ CanRead(c)
  /\ Goto(c, IF searches[tenant[c]] >= CallLimit THEN "leave" ELSE "calling")
  /\ UNCHANGED <<tenant, request, cost, lock, usageVars, cached, begun, others>>

-----------------------------------------------------------------------------
(***************************************************************************)
(* The call, and its row.                                                  *)
(***************************************************************************)

\* Mutant of ProviderAnswers: the row is written after the lock is given back.
ProviderAnswers_Unlocks(c) ==
  /\ pc[c] = "calling"
  /\ \E n \in 0..MaxCost : cost' = [cost EXCEPT ![c] = n]
  /\ Goto(c, "record")
  /\ lock' = [lock EXCEPT ![LockOf[tenant[c]]] = None]
  /\ UNCHANGED <<tenant, request, usageVars, cached, begun, others>>

ProviderAnswers(c) ==
  /\ pc[c] = "calling"
  /\ \E n \in 0..MaxCost : cost' = [cost EXCEPT ![c] = n]
  /\ Goto(c, "record")
  /\ UNCHANGED <<tenant, request, lock, usageVars, cached, begun, others>>

\* Every candidate is exhausted; ProviderError passes through the lock.
ProviderFails(c) ==
  /\ pc[c] = "calling"
  /\ Goto(c, "leave")
  /\ UNCHANGED <<tenant, request, cost, lock, usageVars, cached, begun, others>>

\* record's INSERT: the sums and counts that see the new row.
AddRow(c) ==
  /\ spent' = [spent EXCEPT ![tenant[c]] = @ + cost[c]]
  /\ searches' = [searches EXCEPT ![tenant[c]] = IF request[c] = "search" THEN @ + 1 ELSE @]
  /\ ingests' = [ingests EXCEPT ![tenant[c]] = IF request[c] = "ingest" THEN @ + 1 ELSE @]

Record(c) ==
  /\ pc[c] \in {"record", "mark"}
  /\ CanRead(c)
  /\ AddRow(c)
  /\ Goto(c, "done")
  /\ UNCHANGED <<tenant, request, cost, lock, cached, begun, others>>

\* check_and_record_ingest_request, with the row of zero cost that it records.
CountIngests(c) ==
  /\ pc[c] = "ingests"
  /\ CanRead(c)
  /\ Goto(c, IF ingests[tenant[c]] >= CallLimit THEN "leave" ELSE "mark")
  /\ UNCHANGED <<tenant, request, cost, lock, usageVars, cached, begun, others>>

-----------------------------------------------------------------------------
(***************************************************************************)
(* Leaving.                                                                *)
(***************************************************************************)

\* Mutant of Unlocked: an error skips the unlock.
Unlocked_OnSuccess(c) ==
  [k \in Locks |-> IF lock[k] = c /\ pc[c] = "done" THEN None ELSE lock[k]]

\* The locks without those of c.
Unlocked(c) == [k \in Locks |-> IF lock[k] = c THEN None ELSE lock[k]]

\* The finally of tenant_lock. A completion goes on to fill the cache.
Unlock(c) ==
  /\ pc[c] \in {"leave", "done"}
  /\ lock' = Unlocked(c)
  /\ IF pc[c] = "done" /\ request[c] \in Prompts
     THEN Goto(c, "store") /\ UNCHANGED <<tenant, request, cost>>
     ELSE Leave(c)
  /\ UNCHANGED <<usageVars, cached, begun, others>>

\* cache.set, whose errors are swallowed.
CacheSet(c) ==
  /\ pc[c] = "store"
  /\ cached' \in {cached, cached \cup {request[c]}}
  /\ Leave(c)
  /\ UNCHANGED <<lock, usageVars, begun, others>>

\* The entry's TTL passes.
CacheExpires(p) ==
  /\ p \in cached
  /\ cached' = cached \ {p}
  /\ UNCHANGED <<callVars, lock, usageVars, begun, others>>

\* The task is cancelled, its process dies, or a statement raises: the session
\* and with it the lock are gone; a row under way has landed or not.
Abort(c) ==
  /\ MayAbort
  /\ pc[c] # "idle"
  /\ lock' = Unlocked(c)
  /\ \/ UNCHANGED usageVars
     \/ pc[c] \in {"record", "mark"} /\ AddRow(c)
  /\ Leave(c)
  /\ UNCHANGED <<cached, begun, others>>

\* Requests and jobs that make no metered call share the pool.
OtherConnects ==
  /\ others < MaxOthers /\ Free > 0
  /\ others' = others + 1
  /\ UNCHANGED <<callVars, lock, usageVars, cached, begun>>

OtherReturns ==
  /\ others > 0
  /\ others' = others - 1
  /\ UNCHANGED <<callVars, lock, usageVars, cached, begun>>

-----------------------------------------------------------------------------

CallerStep(c) ==
  \/ CacheHit(c) \/ CacheMiss(c) \/ Connect(c) \/ PoolTimeout(c)
  \/ Acquire(c) \/ LockTimeout(c)
  \/ CheckFamily(c) \/ CheckCap(c) \/ CheckSearches(c)
  \/ ProviderAnswers(c) \/ ProviderFails(c) \/ Record(c) \/ CountIngests(c)
  \/ Unlock(c) \/ CacheSet(c)

Next ==
  \/ \E c \in Callers : Begin(c) \/ CallerStep(c) \/ Abort(c)
  \/ \E p \in Prompts : CacheExpires(p)
  \/ OtherConnects \/ OtherReturns

Spec == Init /\ [][Next]_vars

\* Every statement and every provider call comes back, and every wait for a lock
\* or a connection ends.
FairSpec == Spec /\ \A c \in Callers : WF_vars(CallerStep(c))
=============================================================================
