--------------------------- MODULE MCTenantMemory ---------------------------
(***************************************************************************)
(* Instances of TenantMemory for TLC.                                      *)
(***************************************************************************)
EXTENDS TenantMemoryProperties, TLC

CONSTANTS c1, c2

\* What is erased is erased without another fault, and on the first day but for a
\* tenant of one chunk: no property of the run relates an erasure to a digest.
MCErasure == faults["erasure"] > 0 => SumFunction(faults) = 1 /\ (today = 0 \/ persists = 1)
=============================================================================
