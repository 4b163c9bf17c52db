------------------------------ MODULE ApiAccess ------------------------------
(***************************************************************************)
(* Who may do what through the API: keys and roles (api/deps.py), signup   *)
(* and login (api/routes_auth.py), the daily limit of demo visitors        *)
(* (api/rate_limit.py), the tenant scope of every read, the audit trail    *)
(* (api/audit.py) and the routes that these guard.                         *)
(*                                                                         *)
(* A request of Slots is made once; the key and the tenant that a signup   *)
(* or login generates are named by its slot.  Each database or Redis       *)
(* statement is a step of its own, so requests interleave between them.    *)
(***************************************************************************)
EXTENDS Naturals, FiniteSets

CONSTANTS
  Slots,        (* the requests, each made at most once                    *)
  Emails,
  Passwords,
  Forms,        (* bound on the emails and passwords that are sent         *)
  Registered,   (* the account each email has at first, or None            *)
  StaticKeys,   (* api_keys, with the tenant and the role of each          *)
  StaticTenant,
  StaticRole,
  DemoTenant,   (* demo_tenant_id                                          *)
  Ips,
  DailyLimit,   (* demo_ip_daily_limit                                     *)
  Menu,         (* bound on the routes that are asked for with each key    *)
  LastDay,      (* bound on the days that pass                             *)
  MayBreak,     (* requests may raise, be cancelled, or die                *)
  None

Roles  == {"reader", "writer", "admin"}
Routes == {"ingest", "search", "read", "audit", "erase"}

Keys == Slots \cup Emails

Account == [key : Keys, password : Passwords, tenant : Keys]

Visitor(ip) == <<DemoTenant, ip>>
TenantIds ==
  Slots \cup Emails \cup {StaticTenant[k] : k \in StaticKeys} \cup {Visitor(ip) : ip \in Ips}

DemoKeys == {k \in StaticKeys : StaticTenant[k] = DemoTenant}

\* A call with the key k, or with None for a key that was never issued. Where it
\* comes from matters to the demo key only.
Call(k) ==
  [op : {"call"}, key : {k}, route : Menu[k], ip : IF k \in DemoKeys THEN Ips ELSE {None}]
Calls == UNION {Call(k) : k \in Keys \cup StaticKeys \cup {None}}

Counters == Ips \X (0..LastDay) \X {"ingest", "search"}

\* The first key and tenant of a registered account are named by its email.
ASSUME AccessAssumption ==
  /\ Registered \in [Emails -> Account \cup {None}]
  /\ \A e \in Emails : Registered[e] # None => Registered[e].key = e /\ Registered[e].tenant = e
  /\ Forms \subseteq [op : {"signup", "login"}, email : Emails, password : Passwords]
  /\ StaticRole \in [StaticKeys -> Roles]
  /\ DOMAIN StaticTenant = StaticKeys
  /\ (Slots \cup Emails) \cap StaticKeys = {} /\ Slots \cap Emails = {}
  /\ IsFiniteSet(Slots)
  /\ None \notin TenantIds \cup StaticKeys \cup Account \cup Counters \cup (0..LastDay)
  /\ Menu \in [Keys \cup StaticKeys \cup {None} -> SUBSET Routes]
  /\ DemoTenant \notin Slots \cup Emails
  /\ DailyLimit \in Nat \ {0} /\ LastDay \in Nat
  /\ MayBreak \in BOOLEAN

VARIABLES
  pc,       (* where each request stands                                   *)
  attempt,  (* what it asks for                                            *)
  tenant,   (* request.state.tenant_id, or None                            *)
  status,   (* its answer, 0 before; 500 when it raised                    *)
  seen,     (* what a read returned: the requests behind its rows          *)
  users,    (* the account of each email, or None                          *)
  rows,     (* the ingests whose chunks are stored                         *)
  trail,    (* the requests with a row in audit_events                     *)
  date,     (* the date that a request has read for its counter            *)
  count,    (* the counters in Redis, 0 where there is none                *)
  timed,    (* the day of the EXPIRE of each, or None without one          *)
  day,      (* the date                                                    *)
  charged,  (* the counter on which a request was admitted, or None        *)
  lapses,   (* history: how often each counter has expired                 *)
  unwritten, (* history: the requests whose row could not be written       *)
  past,     (* history: the requests over when this one began              *)
  killer    (* history: the request that ended the validity of a key       *)

requestVars == <<pc, attempt, tenant, status, seen>>
limitVars   == <<date, count, timed, day, charged, lapses>>
history     == <<unwritten, past, killer>>
vars == <<requestVars, users, rows, trail, limitVars, history>>

\*   find, commit        in signup or login
\*   resolve             in require_tenant and require_role
\*   count, expire       in the demo rate limiter
\*   work                in the body of the route
\*   audit               answered inside, the row of the trail not yet written
PC == {"new", "find", "commit", "resolve", "count", "expire", "work", "audit", "over"}

Attempts == Forms \cup Calls

TypeOK ==
  /\ pc \in [Slots -> PC]
  /\ attempt \in [Slots -> Attempts \cup {None}]
  /\ tenant \in [Slots -> TenantIds \cup {None}]
  /\ status \in [Slots -> {0, 200, 201, 401, 403, 409, 422, 429, 500}]
  /\ seen \in [Slots -> SUBSET Slots]
  /\ users \in [Emails -> Account \cup {None}]
  /\ rows \subseteq Slots
  /\ trail \subseteq Slots
  /\ date \in [Slots -> 0..LastDay]
  /\ count \in [Counters -> Nat]
  /\ timed \in [Counters -> (0..LastDay) \cup {None}]
  /\ day \in 0..LastDay
  /\ charged \in [Slots -> Counters \cup {None}]
  /\ lapses \in [Counters -> Nat]
  /\ unwritten \subseteq Slots
  /\ past \in [Slots -> SUBSET Slots]
  /\ killer \in [Keys -> Slots \cup {None}]

Init ==
  /\ pc = [r \in Slots |-> "new"]
  /\ attempt = [r \in Slots |-> None]
  /\ tenant = [r \in Slots |-> None]
  /\ status = [r \in Slots |-> 0]
  /\ seen = [r \in Slots |-> {}]
  /\ users = Registered
  /\ rows = {}
  /\ trail = {}
  /\ date = [r \in Slots |-> 0]
  /\ count = [k \in Counters |-> 0]
  /\ timed = [k \in Counters |-> None]
  /\ day = 0
  /\ charged = [r \in Slots |-> None]
  /\ lapses = [k \in Counters |-> 0]
  /\ unwritten = {}
  /\ past = [r \in Slots |-> {}]
  /\ killer = [k \in Keys |-> None]

Goto(r, label) == pc' = [pc EXCEPT ![r] = label]

\* The response, or the HTTPException, on its way out through the middleware.
Answer(r, code) == Goto(r, "audit") /\ status' = [status EXCEPT ![r] = code]

Raise(r) == Goto(r, "over") /\ status' = [status EXCEPT ![r] = 500]

-----------------------------------------------------------------------------
(***************************************************************************)
(* Keys.                                                                   *)
(***************************************************************************)

\* The keys somebody may present: configured, first, or answered to a client.
Known ==
  StaticKeys \cup {e \in Emails : Registered[e] # None}
    \cup {r \in Slots : pc[r] = "over" /\ attempt[r].op # "call" /\ status[r] \in {200, 201}}

Begin(r) ==
  /\ pc[r] = "new"
  /\ \E a \in Forms \cup UNION {Call(k) : k \in Known \cup {None}} :
       /\ attempt' = [attempt EXCEPT ![r] = a]
       /\ Goto(r, IF a.op = "call" THEN "resolve" ELSE "find")
  /\ past' = [past EXCEPT ![r] = {x \in Slots : pc[x] = "over"}]
  /\ UNCHANGED <<tenant, status, seen, users, rows, trail, limitVars, unwritten, killer>>

\* Mutant of ResolveDb: the first key of an account still resolves.
ResolveDb_First(k) ==
  {[tenant |-> users[e].tenant, role |-> "writer"] :
     e \in {x \in Emails : users[x] # None /\ k \in {users[x].key, users[x].tenant}}}

\* The static key, else the account with this key.
ResolveStatic(k) ==
  {[tenant |-> StaticTenant[s], role |-> StaticRole[s]] : s \in {x \in StaticKeys : x = k}}

ResolveDb(k) ==
  {[tenant |-> users[e].tenant, role |-> "writer"] :
     e \in {x \in Emails : users[x] # None /\ users[x].key = k}}

Identities(k) == IF ResolveStatic(k) # {} THEN ResolveStatic(k) ELSE ResolveDb(k)

\* ROLE_LEVELS against the minimum role of the route.
Allowed(role, route) ==
  CASE route = "ingest"             -> role \in {"writer", "admin"}
    [] route \in {"audit", "erase"} -> role = "admin"
    [] OTHER                        -> TRUE

\* Mutant of Scope: all visitors share the demo tenant.
Scope_Shared(t, ip) == t

\* Every demo visitor has a slice of its own of the demo tenant.
Scope(t, ip) == IF t = DemoTenant THEN Visitor(ip) ELSE t

\* The rate limiter reads the date, which may be yesterday's when the INCR arrives.
ReadDate(r) == date' = [date EXCEPT ![r] = day]

\* require_tenant and require_role, and where nothing is awaited on, what follows.
Resolve(r) ==
  /\ pc[r] = "resolve"
  /\ LET a == attempt[r] IN
       IF Identities(a.key) = {}
       THEN Answer(r, 401) /\ UNCHANGED <<tenant, date>>
       ELSE \E id \in Identities(a.key) :
              /\ tenant' = [tenant EXCEPT ![r] = Scope(id.tenant, a.ip)]
              /\ IF ~Allowed(id.role, a.route) THEN Answer(r, 403) /\ UNCHANGED date
                 ELSE /\ IF id.tenant = DemoTenant /\ a.route \in {"ingest", "search"}
                         THEN Goto(r, "count") /\ ReadDate(r)
                         ELSE Goto(r, "work") /\ UNCHANGED date
                      /\ UNCHANGED status
  /\ UNCHANGED <<attempt, seen, users, rows, trail, count, timed, day, charged, lapses, history>>

-----------------------------------------------------------------------------
(***************************************************************************)
(* Signup and login.                                                       *)
(***************************************************************************)

\* The SELECT by email, with the check of the password in a login.
Find(r) ==
  /\ pc[r] = "find"
  /\ LET a == attempt[r]
         user == users[a.email] IN
       IF a.op = "signup"
       THEN /\ IF user # None THEN Answer(r, 409) ELSE Goto(r, "commit") /\ UNCHANGED status
            /\ UNCHANGED tenant
       ELSE IF user = None \/ user.password # a.password
            THEN Answer(r, 401) /\ UNCHANGED tenant
            ELSE /\ Goto(r, "commit")
                 /\ tenant' = [tenant EXCEPT ![r] = user.tenant]
                 /\ UNCHANGED status
  /\ UNCHANGED <<attempt, seen, users, rows, trail, limitVars, history>>

\* The unique index, as the commit meets it.
EmailFree(email) == users[email] = None

\* The INSERT and its commit; an IntegrityError becomes the 409.
SignupCommit(r) ==
  /\ pc[r] = "commit"
  /\ attempt[r].op = "signup"
  /\ LET a == attempt[r] IN
       IF EmailFree(a.email)
       THEN /\ users' = [users EXCEPT ![a.email] = [key |-> r, password |-> a.password, tenant |-> r]]
            /\ tenant' = [tenant EXCEPT ![r] = r]
            /\ Answer(r, 201)
       ELSE Answer(r, 409) /\ UNCHANGED <<users, tenant>>
  /\ UNCHANGED <<attempt, seen, rows, trail, limitVars, history>>

\* Mutant of LoginCommit: the session is closed without its commit.
LoginCommit_Uncommitted(r) ==
  /\ pc[r] = "commit"
  /\ attempt[r].op = "login"
  /\ Answer(r, 200)
  /\ UNCHANGED <<attempt, tenant, seen, users, rows, trail, limitVars, history>>

\* The UPDATE of the row that was found, by its id: an erasure in between leaves
\* no such row, and the StaleDataError is not handled.
LoginCommit(r) ==
  /\ pc[r] = "commit"
  /\ attempt[r].op = "login"
  /\ LET e == attempt[r].email IN
       IF users[e] # None /\ users[e].tenant = tenant[r]
       THEN /\ users' = [users EXCEPT ![e].key = r]
            /\ killer' = [killer EXCEPT ![users[e].key] = r]
            /\ Answer(r, 200)
       ELSE Raise(r) /\ UNCHANGED <<users, killer>>
  /\ UNCHANGED <<attempt, tenant, seen, rows, trail, limitVars, unwritten, past>>

-----------------------------------------------------------------------------
(***************************************************************************)
(* The demo rate limiter.                                                  *)
(***************************************************************************)

\* Mutant of OverLimit: one call too many.
OverLimit_OffByOne(n) == n > DailyLimit + 1

OverLimit(n) == n > DailyLimit

\* What follows the INCR that returned n.
Admit(r, k, n) ==
  IF OverLimit(n)
  THEN Answer(r, 429) /\ charged' = [charged EXCEPT ![r] = None]
  ELSE Goto(r, "work") /\ charged' = [charged EXCEPT ![r] = k] /\ UNCHANGED status

\* INCR: of the requests that count at once, each gets a number of its own.
Count(r) ==
  /\ pc[r] = "count"
  /\ LET k == <<attempt[r].ip, date[r], attempt[r].route>>
         n == count[k] + 1 IN
       /\ count' = [count EXCEPT ![k] = n]
       /\ IF n = 1 THEN /\ Goto(r, "expire")
                        /\ charged' = [charged EXCEPT ![r] = k]
                        /\ UNCHANGED status
                   ELSE Admit(r, k, n)
  /\ UNCHANGED <<attempt, tenant, seen, users, rows, trail, date, timed, day, lapses, history>>

\* EXPIRE, by the request that counted first.
Expire(r) ==
  /\ pc[r] = "expire"
  /\ timed' = [timed EXCEPT ![charged[r]] = day]
  /\ Admit(r, charged[r], 1)
  /\ UNCHANGED <<attempt, tenant, seen, users, rows, trail, date, count, day, lapses, history>>

\* A counter goes 86400 seconds after its EXPIRE, thus on the next day: it is never
\* gone on the day of its date, and never goes if it was left without its EXPIRE.
Lapse(k) ==
  /\ timed[k] # None /\ timed[k] < day
  /\ count' = [count EXCEPT ![k] = 0]
  /\ timed' = [timed EXCEPT ![k] = None]
  /\ lapses' = [lapses EXCEPT ![k] = @ + 1]
  /\ UNCHANGED <<requestVars, users, rows, trail, date, day, charged, history>>

\* The next day.  What was timed on the day before has gone by the end of this one;
\* and until a first date is read the days are all alike.
Midnight ==
  /\ day < LastDay
  /\ (\E r \in Slots : pc[r] = "count") \/ (\E k \in Counters : count[k] > 0)
  /\ \A k \in Counters : timed[k] \in {None, day}
  /\ day' = day + 1
  /\ UNCHANGED <<requestVars, users, rows, trail, date, count, timed, charged, lapses, history>>

-----------------------------------------------------------------------------
(***************************************************************************)
(* The routes.                                                             *)
(***************************************************************************)

\* scoped_select: the WHERE clause of every query of a repository.
ScopedSelect(t, x) == tenant[x] = t

\* The policy of row level security: the tenant the session has set, and none
\* without one.
Policy(guc, x) == guc # None /\ tenant[x] = guc

\* tenant_session, and a SELECT over S.
Read(S, t) == {x \in S : ScopedSelect(t, x) /\ Policy(t, x)}

\* The format or the size is refused, or a cap of the meter: 422 or 429.
Refuse(r) ==
  /\ pc[r] = "work"
  /\ attempt[r].route \in {"ingest", "search", "read"}
  /\ Answer(r, 422)
  /\ UNCHANGED <<attempt, tenant, seen, users, rows, trail, limitVars, history>>

Ingest(r) ==
  /\ pc[r] = "work"
  /\ attempt[r].route = "ingest"
  /\ rows' = rows \cup {r}
  /\ Answer(r, 200)
  /\ UNCHANGED <<attempt, tenant, seen, users, trail, limitVars, history>>

\* A search, a summary or a fetch, and the audit trail of the own tenant.
ReadRows(r) ==
  /\ pc[r] = "work"
  /\ attempt[r].route \in {"search", "read", "audit"}
  /\ seen' = [seen EXCEPT ![r] = Read(IF attempt[r].route = "audit" THEN trail ELSE rows, tenant[r])]
  /\ Answer(r, 200)
  /\ UNCHANGED <<attempt, tenant, users, rows, trail, limitVars, history>>

\* erase_tenant removes the chunks and the account, and keeps the trail.
Erase(r) ==
  /\ pc[r] = "work"
  /\ attempt[r].route = "erase"
  /\ LET gone == {e \in Emails : users[e] # None /\ users[e].tenant = tenant[r]} IN
       /\ rows' = {x \in rows : tenant[x] # tenant[r]}
       /\ users' = [e \in Emails |-> IF e \in gone THEN None ELSE users[e]]
       /\ killer' = [k \in Keys |-> IF k \in {users[e].key : e \in gone} THEN r ELSE killer[k]]
  /\ Answer(r, 200)
  /\ UNCHANGED <<attempt, tenant, seen, trail, limitVars, unwritten, past>>

-----------------------------------------------------------------------------
(***************************************************************************)
(* The audit trail, and what breaks.                                       *)
(***************************************************************************)

\* Mutant of Audit: denials are left out.
Audit_NoDenials(r) ==
  /\ pc[r] = "audit"
  /\ trail' = IF status[r] = 403 THEN trail ELSE trail \cup {r}
  /\ Goto(r, "over")
  /\ UNCHANGED <<attempt, tenant, status, seen, users, rows, limitVars, history>>

\* The row is written after the answer is known and before it is sent.
Audit(r) ==
  /\ pc[r] = "audit"
  /\ trail' = trail \cup {r}
  /\ Goto(r, "over")
  /\ UNCHANGED <<attempt, tenant, status, seen, users, rows, limitVars, history>>

\* A request raises, is cancelled, or dies with its process: no row is written.
Break(r) ==
  /\ MayBreak
  /\ pc[r] \notin {"new", "over"}
  /\ Raise(r)
  /\ UNCHANGED <<attempt, tenant, seen, users, rows, trail, limitVars, history>>

\* audit.write_failed: the row is lost, and the answer sent all the same.
AuditFails(r) ==
  /\ MayBreak
  /\ pc[r] = "audit"
  /\ unwritten' = unwritten \cup {r}
  /\ Goto(r, "over")
  /\ UNCHANGED <<attempt, tenant, status, seen, users, rows, trail, limitVars, past, killer>>

Next ==
  \/ \E r \in Slots :
       \/ Begin(r) \/ Resolve(r) \/ Find(r) \/ SignupCommit(r) \/ LoginCommit(r)
       \/ Count(r) \/ Expire(r) \/ Refuse(r) \/ Ingest(r) \/ ReadRows(r) \/ Erase(r)
       \/ Audit(r) \/ Break(r) \/ AuditFails(r)
  \/ \E k \in Counters : Lapse(k)
  \/ Midnight

Spec == Init /\ [][Next]_vars
=============================================================================
