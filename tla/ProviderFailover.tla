-------------------------- MODULE ProviderFailover --------------------------
(***************************************************************************)
(* One completion of the gateway: the candidates of its hint, the retries, *)
(* and the circuit breaker that all calls of the process share             *)
(* (ModelGateway._complete_with_failover, RouteTable, ProviderHealth).     *)
(*                                                                         *)
(* The calls are tasks of one event loop, which can change over only at an *)
(* await: between the end of one attempt and the start of the next sleep or*)
(* request no other call runs.                                             *)
(***************************************************************************)
EXTENDS Integers, Sequences, FiniteSets

CONSTANTS
  Providers,
  Calls,            (* tasks that may call complete at once                *)
  Routes,           (* the candidates of each hint: sequences of providers *)
  Reliable,         (* providers that answer every request                 *)
  FailureThreshold,
  RetryAttempts,
  MaxTrips          (* bound on the cooldowns that run out                 *)

ASSUME FailoverAssumption ==
  /\ Routes \subseteq Seq(Providers) \ {<<>>}
  /\ Reliable \subseteq Providers
  /\ FailureThreshold \in Nat \ {0} /\ RetryAttempts \in Nat \ {0}
  /\ MaxTrips \in Nat

VARIABLES
  failures,    (* _consecutive_failures                                    *)
  breaker,     (* _down_until: not set, in the future, or past             *)
  pc,          (* of each call                                             *)
  route,       (* its candidates                                           *)
  at,          (* which of them it has got to                              *)
  attempt,     (* how often it has asked that one and failed               *)
  trips,
  asked        (* history: the requests of each provider, by the call, in its
                  present cooldown                                         *)

healthVars == <<failures, breaker>>
callVars   == <<pc, route, at, attempt>>
vars == <<healthVars, callVars, trips, asked>>

-----------------------------------------------------------------------------

Ended == {"answered", "exhausted", "broken"}

\* The types of the calls and the breakers: a closed breaker has counted fewer
\* failures than trip it, and only a call under way has a candidate.
TypeOK ==
  /\ failures \in [Providers -> Nat]
  /\ breaker \in [Providers -> {"closed", "open", "elapsed"}]
  /\ pc \in [Calls -> {"idle", "asking", "sleeping"} \cup Ended]
  /\ route \in [Calls -> Routes \cup {<<>>}]
  /\ \A c \in Calls : pc[c] \in {"asking", "sleeping"} <=> at[c] \in DOMAIN route[c]
  /\ attempt \in [Calls -> 0..(RetryAttempts - 1)]
  /\ \A c \in Calls : pc[c] = "sleeping" => attempt[c] > 0
  /\ \A p \in Providers : breaker[p] = "closed" => failures[p] < FailureThreshold
  /\ trips \in 0..MaxTrips /\ asked \in [Providers -> [Calls -> Nat]]

NoneAsked == [c \in Calls |-> 0]

Init ==
  /\ failures = [p \in Providers |-> 0]
  /\ breaker = [p \in Providers |-> "closed"]
  /\ pc = [c \in Calls |-> "idle"]
  /\ route = [c \in Calls |-> <<>>]
  /\ at = [c \in Calls |-> 0]
  /\ attempt = [c \in Calls |-> 0]
  /\ trips = 0
  /\ asked = [p \in Providers |-> NoneAsked]

Candidate(c) == route[c][at[c]]

End(c, how) ==
  /\ pc' = [pc EXCEPT ![c] = how]
  /\ route' = [route EXCEPT ![c] = <<>>]
  /\ at' = [at EXCEPT ![c] = 0]
  /\ attempt' = [attempt EXCEPT ![c] = 0]

-----------------------------------------------------------------------------
(***************************************************************************)
(* ProviderHealth.  What it does is part of the steps of the calls.        *)
(***************************************************************************)

\* Mutant of IsAvailable: the breaker is not asked.
IsAvailable_Always(p, breakers) == TRUE

IsAvailable(p, breakers) == breakers[p] # "open"

RecordSuccess(p) ==
  /\ failures' = [failures EXCEPT ![p] = 0]
  /\ breaker' = [breaker EXCEPT ![p] = "closed"]
  /\ asked' = [asked EXCEPT ![p] = NoneAsked]

Trips(p) == failures[p] + 1 >= FailureThreshold

\* Mutant of AfterFailure: every breaker of the process trips.
AfterFailure_All(p) ==
  [r \in Providers |-> IF Trips(p) THEN "open" ELSE breaker[r]]

\* A failure at or beyond the threshold starts the cooldown, again if need be.
AfterFailure(p) == [breaker EXCEPT ![p] = IF Trips(p) THEN "open" ELSE @]

-----------------------------------------------------------------------------

\* The loop goes on to the first candidate from i on that is available; of one
\* whose cooldown is over, is_available clears the count.
Ask(c, r, i, counts, breakers) ==
  LET p == r[i]
  IN /\ pc' = [pc EXCEPT ![c] = "asking"]
     /\ route' = [route EXCEPT ![c] = r]
     /\ at' = [at EXCEPT ![c] = i]
     /\ attempt' = [attempt EXCEPT ![c] = 0]
     /\ failures' = [counts EXCEPT ![p] = IF breakers[p] = "elapsed" THEN 0 ELSE @]
     /\ breaker' = [breakers EXCEPT ![p] = IF @ = "elapsed" THEN "closed" ELSE @]
     /\ asked' = CASE breakers[p] = "open" -> [asked EXCEPT ![p][c] = @ + 1]
                  [] breakers[p] = "elapsed" -> [asked EXCEPT ![p] = NoneAsked]
                  [] OTHER -> asked

GoOn(c, r, i, counts, breakers) ==
  LET able == {k \in i..Len(r) : IsAvailable(r[k], breakers)}
  IN IF able = {}
     THEN /\ End(c, "exhausted")
          /\ failures' = counts /\ breaker' = breakers
          /\ UNCHANGED asked
     ELSE \E k \in able : (\A m \in able : k <= m) /\ Ask(c, r, k, counts, breakers)

Begin(c) ==
  /\ pc[c] \in {"idle"} \cup Ended
  /\ \E r \in Routes : GoOn(c, r, 1, failures, breaker)
  /\ UNCHANGED trips

Answer(c) ==
  /\ pc[c] = "asking"
  /\ RecordSuccess(Candidate(c))
  /\ End(c, "answered")
  /\ UNCHANGED trips

\* A ProviderError, and attempts left: sleep before the next.
Retry(c) ==
  LET p == Candidate(c)
  IN /\ pc[c] = "asking" /\ p \notin Reliable
     /\ attempt[c] + 1 < RetryAttempts
     /\ failures' = [failures EXCEPT ![p] = @ + 1]
     /\ breaker' = AfterFailure(p)
     /\ attempt' = [attempt EXCEPT ![c] = @ + 1]
     /\ pc' = [pc EXCEPT ![c] = "sleeping"]
     /\ UNCHANGED <<route, at, trips, asked>>

\* The sleep is over: the provider is asked again, tripped or not.
AskAgain(c) ==
  /\ pc[c] = "sleeping"
  /\ pc' = [pc EXCEPT ![c] = "asking"]
  /\ asked' = [asked EXCEPT ![Candidate(c)][c] = IF breaker[Candidate(c)] = "open" THEN @ + 1 ELSE @]
  /\ UNCHANGED <<healthVars, route, at, attempt, trips>>

\* A ProviderError in the last attempt: on to the next candidate, or to the end.
FailOver(c) ==
  LET p == Candidate(c)
  IN /\ pc[c] = "asking" /\ p \notin Reliable
     /\ attempt[c] + 1 = RetryAttempts
     /\ GoOn(c, route[c], at[c] + 1, [failures EXCEPT ![p] = @ + 1], AfterFailure(p))
     /\ UNCHANGED trips

\* Another exception, as of a reply that is no JSON, or a cancellation: no failure
\* is recorded and no candidate tried after it.
Break(c) ==
  /\ pc[c] \in {"asking", "sleeping"}
  /\ Candidate(c) \notin Reliable
  /\ End(c, "broken")
  /\ UNCHANGED <<healthVars, trips, asked>>

CooldownOver(p) ==
  /\ breaker[p] = "open" /\ trips < MaxTrips
  /\ breaker' = [breaker EXCEPT ![p] = "elapsed"]
  /\ trips' = trips + 1
  /\ UNCHANGED <<failures, callVars, asked>>

-----------------------------------------------------------------------------

Proceed(c) == Answer(c) \/ Retry(c) \/ AskAgain(c) \/ FailOver(c)

Next ==
  \/ \E c \in Calls : Begin(c) \/ Proceed(c) \/ Break(c)
  \/ \E p \in Providers : CooldownOver(p)

Spec == Init /\ [][Next]_vars

\* Every request and every sleep comes to an end.
FairSpec == Spec /\ \A c \in Calls : WF_vars(Proceed(c))
=============================================================================
