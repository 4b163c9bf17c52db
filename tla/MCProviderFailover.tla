------------------------- MODULE MCProviderFailover -------------------------
(***************************************************************************)
(* Instances of ProviderFailover for TLC: two providers that may fail and  *)
(* one that does not, on routes of one to three candidates.                *)
(***************************************************************************)
EXTENDS ProviderFailoverProperties, TLC

CONSTANTS a, b, r, k1, k2

MCRoutes == {<<a>>, <<a, b, a>>, <<b, a, r>>}
=============================================================================
