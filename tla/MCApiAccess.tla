----------------------------- MODULE MCApiAccess -----------------------------
(***************************************************************************)
(* An instance of ApiAccess for TLC: one account with its first key, one   *)
(* email without, a key of the operator for the tenant of the account, and *)
(* the key that the visitors of the demo share. For the searches, every    *)
(* two lists of up to three hits, up to the names of the chunks.           *)
(***************************************************************************)
EXTENDS ApiAccessProperties, TLC

CONSTANTS r1, r2, r3, e1, e2, i1, i2, operator, demo, Demo

MCRegistered   == e1 :> [key |-> e1, password |-> "x", tenant |-> e1] @@ e2 :> None
MCStaticTenant == operator :> e1 @@ demo :> Demo
MCStaticRole   == operator :> "admin" @@ demo :> "writer"

MCForms ==
  [op : {"signup"}, email : {e2}, password : {"x", "y"}]
    \cup [op : {"login"}, email : {e1, e2}, password : {"x"}]

MCMenu ==
  operator :> {"audit", "erase"} @@ demo :> {"ingest", "search"} @@ None :> {}
    @@ e1 :> {"ingest", "audit"} @@ e2 :> {} @@ [r \in Slots |-> {"read"}]

\* The date counts for the limiter alone, and the counters of two visitors are
\* apart: past midnight, the requests are the calls of one visitor.
MCDays ==
  day > 0 => \E ip \in Ips : \A r \in Slots :
    attempt[r] # None => attempt[r] \in Call(demo) /\ attempt[r].ip = ip

MCMatchings  == {SubSeq(<<1, 2, 3>>, 1, n) : n \in 0..3}
MCEmbeddings == {s \in BoundedSeq(1..6, 3) : IsInjective(s)}

Alike == Permutations({r1, r2, r3}) \cup Permutations({i1, i2})
=============================================================================
