----------------------------- MODULE UsageLedger -----------------------------
(***************************************************************************)
(* What the metering promises to who pays for the calls: a tenant has one  *)
(* call open at a time, admitted at one instant within all the limits that *)
(* apply to it, and charged once or not at all.  The cap of the demo       *)
(* family is the only one that tenants share, and each may have its call.  *)
(***************************************************************************)
EXTENDS Integers, Functions

CONSTANTS Tenants, Signups, DemoFamily, Prefixed, DemoCap, Cap, NoCap, CallLimit, MaxCost

VARIABLES
  open,      (* the kind of call each tenant has under way, or "none"      *)
  spent,     (* sum of cost_usd, per tenant                                *)
  searches,  (* searches charged, per tenant                               *)
  ingests    (* ingests counted, per tenant                                *)

usage == <<spent, searches, ingests>>
vars  == <<open, usage>>

Init ==
  /\ open = [t \in Tenants |-> "none"]
  /\ spent = [t \in Tenants |-> 0]
  /\ searches = [t \in Tenants |-> 0]
  /\ ingests = [t \in Tenants |-> 0]

\* Every limit that applies to a call of this kind has room for one.
Fits(t, kind) ==
  IF kind = "ingest" THEN ingests[t] < CallLimit
  ELSE /\ Cap[t] # NoCap => spent[t] < Cap[t]
       /\ t \in DemoFamily => SumFunctionOnSet(spent, Prefixed) < DemoCap
       /\ kind = "search" /\ t \in Signups => searches[t] < CallLimit

Admit(t, kind) ==
  /\ open[t] = "none"
  /\ Fits(t, kind)
  /\ open' = [open EXCEPT ![t] = kind]
  /\ UNCHANGED usage

\* The row of a call, which sums and counts see from now on.
Charge(t) ==
  /\ \E n \in 0..MaxCost :
       /\ spent' = [spent EXCEPT ![t] = @ + n]
       /\ open[t] = "ingest" => n = 0
  /\ searches' = [searches EXCEPT ![t] = IF open[t] = "search" THEN @ + 1 ELSE @]
  /\ ingests' = [ingests EXCEPT ![t] = IF open[t] = "ingest" THEN @ + 1 ELSE @]

\* A call is over when its row is written, or without one: the provider failed,
\* or the caller ended before.
Close(t) ==
  /\ open[t] # "none"
  /\ open' = [open EXCEPT ![t] = "none"]
  /\ Charge(t) \/ UNCHANGED usage

\* (The first conjunct follows from the second, and is sooner evaluated.)
Next ==
  \E t \in Tenants :
    /\ open'[t] # open[t]
    /\ \/ \E kind \in {"call", "search", "ingest"} : Admit(t, kind)
       \/ Close(t)

Spec == Init /\ [][Next]_vars
=============================================================================
