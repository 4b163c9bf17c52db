---------------------------- MODULE MCUsageMeter ----------------------------
(***************************************************************************)
(* Instances of UsageMeter for TLC: a signup tenant with a spend cap, and  *)
(* the tenants of two demo visitors, who share theirs.                     *)
(***************************************************************************)
EXTENDS UsageMeterProperties, TLC

CONSTANTS t1, d1, d2, h1, h2, h3, c1, c2

MCLockOf == t1 :> h1 @@ d1 :> h2 @@ d2 :> h3
MCCap    == t1 :> 1 @@ d1 :> NoCap @@ d2 :> NoCap
=============================================================================
