--------------------- MODULE ProviderFailoverProperties ---------------------
(***************************************************************************)
(* What a caller of the gateway relies on.                                 *)
(***************************************************************************)
EXTENDS ProviderFailover

OnRoute(c) == {route[c][i] : i \in DOMAIN route[c]}

\* A call that has a provider which answers among its candidates is answered by
\* one of them, whatever other calls do to the breakers they share ("raises
\* ProviderError only when every candidate is exhausted", _complete_with_failover).
FailsOver ==
  \A c \in Calls : OnRoute(c) \cap Reliable # {} ~> pc[c] \in {"answered", "broken"}

\* A tripped provider is left alone, but for the retries of calls that had it
\* already: until it is closed again each of them asks it RetryAttempts - 1 times at
\* most ("tripped provider must be skipped entirely", test_failover.py).
CooldownKept ==
  \A p \in Providers, c \in Calls : asked[p][c] < RetryAttempts
=============================================================================
