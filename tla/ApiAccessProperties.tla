------------------------- MODULE ApiAccessProperties -------------------------
(***************************************************************************)
(* What the callers of the API rely on.                                    *)
(***************************************************************************)
EXTENDS ApiAccess, SearchRankingProperties

Served(r) == pc[r] \in {"audit", "over"} /\ status[r] \in {200, 201}

\* Whose memory a request is about, by the key its client presents: a demo
\* visitor's own, the configured tenant, or the one told with the key.
Owner(r) ==
  LET a == attempt[r] IN
    IF a.op # "call" THEN tenant[r]
    ELSE IF a.key \in StaticKeys
         THEN IF StaticTenant[a.key] = DemoTenant THEN <<DemoTenant, a.ip>> ELSE StaticTenant[a.key]
    ELSE IF a.key \in Slots THEN tenant[a.key]
    ELSE a.key

\* A key that a signup or login has answered is the key of its account until a
\* login or an erasure that was not over when that request began: of two
\* logins at once one key may die, of two in a row never the second
\* (routes_auth.py, "issue a fresh key and invalidate the previous one").
AnsweredKeyWorks ==
  \A r \in Slots :
    pc[r] = "over" /\ Served(r) /\ attempt[r].op # "call" =>
      \/ users[attempt[r].email] # None /\ users[attempt[r].email].key = r
      \/ killer[r] # None /\ killer[r] \notin past[r]

\* A key whose account has had another, or is erased, opens nothing to a call
\* that began after the answer to that login or erasure.
RevokedKeyDenied ==
  \A r \in Slots :
    Served(r) /\ attempt[r].op = "call" /\ attempt[r].key \in Keys =>
      killer[attempt[r].key] \notin past[r]

\* A read returns what its owner stored, and all of it that was stored before
\* the read began: whatever the key was replaced by, and although all visitors
\* share one key (deps.py, "unrelated visitors never see each other's data").
ReadsOwn ==
  \A r \in Slots :
    Served(r) /\ attempt[r].op = "call" =>
      /\ \A x \in seen[r] : Owner(x) = Owner(r)
      /\ attempt[r].route \in {"search", "read"} =>
           {x \in rows \cap past[r] : Owner(x) = Owner(r)} \subseteq seen[r]

\* The trail that an admin reads has every request about its tenant that was
\* answered before, denials too, unless it raised or its row could not be
\* written (audit.py, "every request is recorded, including denials").  A 401 is of
\* no tenant, and in nobody's trail (test_rbac_audit.py).
TrailComplete ==
  \A r \in Slots :
    Served(r) /\ attempt[r].op = "call" /\ attempt[r].route = "audit" =>
      \A x \in past[r] :
        status[x] \notin {401, 500} /\ x \notin unwritten /\ Owner(x) = Owner(r) => x \in seen[r]

\* On a day a visitor is admitted at most DailyLimit times to each kind of call,
\* however many of its calls run at once (demo_ip_daily_limit).  A call that reads
\* the date before midnight and counts after it is counted on the day that is over,
\* within the same limit until the counter expires; where it has expired such calls
\* begin it anew, and may be admitted DailyLimit times more.
DemoLimit ==
  \A k \in Counters :
    LET admitted == {r \in Slots : charged[r] = k /\ pc[r] # "expire"} IN
      /\ k[2] = day => Cardinality(admitted) <= DailyLimit
      /\ Cardinality(admitted) <= DailyLimit * (1 + lapses[k])

-----------------------------------------------------------------------------
(***************************************************************************)
(* Why: the parts of an invariant of every step.                           *)
(***************************************************************************)

Answered(r) == pc[r] \in {"audit", "over"}

\* Where a request stands fits what it asks for, and nothing is known of it
\* before it is answered.
PlacedAt(r) ==
  /\ pc[r] # "new" => attempt[r] \in Attempts
  /\ pc[r] \in {"find", "commit"} => attempt[r] \in Forms
  /\ pc[r] \in {"resolve", "count", "expire", "work"} => attempt[r] \in Calls
  /\ pc[r] = "count" => attempt[r].ip \in Ips /\ attempt[r].route \in {"ingest", "search"}
  /\ pc[r] \in {"new", "find", "resolve"} => tenant[r] = None
  /\ pc[r] \in {"new", "find", "commit", "resolve", "count"} => charged[r] = None
  /\ pc[r] = "expire" => charged[r] \in Counters
  /\ ~Answered(r) => status[r] = 0 /\ seen[r] = {}
  /\ past[r] \subseteq {x \in Slots : pc[x] = "over"}

Placed == \A r \in Slots : PlacedAt(r)

\* A key is of the one account it was made for, and what has ended is no
\* account's key.
KeyNamed(e) ==
  LET k == users[e].key IN
    users[e] # None =>
      /\ killer[k] = None
      /\ k \in Slots => /\ Answered(k) /\ attempt[k] \in Forms /\ attempt[k].email = e
                       /\ tenant[k] = users[e].tenant
      /\ k \in Emails => k = e /\ users[e].tenant = e

EndedAnswered == \A k \in Slots : killer[k] # None => Answered(k)

\* The key of a call is known when it begins.
KeyOver(r) ==
  pc[r] # "new" /\ attempt[r] \in Calls /\ attempt[r].key \in Slots =>
    pc[attempt[r].key] = "over" /\ attempt[attempt[r].key] \in Forms

KeysNamed == (\A e \in Emails : KeyNamed(e)) /\ EndedAnswered /\ (\A r \in Slots : KeyOver(r))

\* The key of a call that was let in.
LetIn(r) ==
  /\ pc[r] # "new" /\ attempt[r] \in Calls
  /\ pc[r] \in {"count", "expire", "work"} \/ (Answered(r) /\ status[r] \notin {401, 500})

\* A call works in the memory of its owner, by a key that had not ended.
OwnTenantAt(r) ==
  /\ pc[r] # "new" /\ attempt[r] \in Calls /\ tenant[r] # None => tenant[r] = Owner(r)
  /\ LetIn(r) => tenant[r] # None
  /\ LetIn(r) /\ attempt[r].key \in Keys => killer[attempt[r].key] \notin past[r]

OwnTenant == \A r \in Slots : OwnTenantAt(r)

\* Of a key that was answered.
KeyEnd(r) ==
  Served(r) /\ attempt[r] \in Forms =>
    \/ users[attempt[r].email] # None /\ users[attempt[r].email].key = r
    \/ killer[r] # None /\ killer[r] \notin past[r]

KeysEnd == \A r \in Slots : KeyEnd(r)

\* What can be read is of requests that are answered, and what is over is in
\* the trail.
Written ==
  /\ \A x \in rows : Answered(x) /\ attempt[x] \in Calls /\ tenant[x] # None
  /\ \A x \in trail : pc[x] = "over"
  /\ \A x \in Slots : pc[x] = "over" /\ status[x] # 500 => x \in trail \cup unwritten
  /\ \A r \in Slots : \A x \in seen[r] : Answered(x)

\* The visitors admitted on a counter, those about to set its EXPIRE included.
OnCounter(k) == {r \in Slots : charged[r] = k}

\* Each life of a counter admits DailyLimit requests, and no more than it has counted.
CountedOn(k) ==
  /\ Cardinality(OnCounter(k)) <= DailyLimit * lapses[k] + count[k]
  /\ Cardinality(OnCounter(k)) <= DailyLimit * lapses[k] + DailyLimit

\* A counter is of a date that has come, and expires only when that is over.
DatePast(k) ==
  /\ timed[k] # None => k[2] <= timed[k]
  /\ lapses[k] > 0 => k[2] < day

Counted ==
  /\ \A k \in Counters : CountedOn(k) /\ DatePast(k)
  /\ \A r \in Slots : date[r] <= day /\ (charged[r] # None => charged[r][2] <= day)

\* No search that is served is ranked wrong, whatever the two retrievers find
\* among the rows that it may see (retrieval.py, hybrid_search).
FusedRanking ==
  \A r \in Slots : Served(r) /\ attempt[r] \in Calls /\ attempt[r].route = "search" => RankedWrong = {}
=============================================================================
