---------------------------- MODULE DurableQueue ----------------------------
(***************************************************************************)
(* What the queue and its workers promise to the code that enqueues: a job *)
(* is pending from its admission until it is done, once and for good, or   *)
(* until exactly MaxRetries of its attempts have failed.  Only an erasure  *)
(* of its tenant takes it away.                                            *)
(***************************************************************************)
EXTENDS Naturals

CONSTANTS Jobs, MaxRetries

VARIABLES
  state,     (* of each job                                                *)
  attempts   (* failed attempts of each job                                *)

vars == <<state, attempts>>

Init ==
  /\ state = [j \in Jobs |-> "absent"]
  /\ attempts = [j \in Jobs |-> 0]

Admit(j) ==
  /\ state[j] = "absent"
  /\ state' = [state EXCEPT ![j] = "pending"]
  /\ attempts' = [attempts EXCEPT ![j] = 0]

Complete(j) ==
  /\ state[j] = "pending"
  /\ state' = [state EXCEPT ![j] = "done"]
  /\ UNCHANGED attempts

Miss(j) ==
  /\ state[j] = "pending"
  /\ attempts' = [attempts EXCEPT ![j] = @ + 1]
  /\ state' = [state EXCEPT ![j] = IF attempts[j] + 1 = MaxRetries THEN "failed" ELSE @]

Erase(j) ==
  /\ state[j] \in {"pending", "done", "failed"}
  /\ state' = [state EXCEPT ![j] = "erased"]
  /\ attempts' = [attempts EXCEPT ![j] = 0]

Next == \E j \in Jobs : Admit(j) \/ Complete(j) \/ Miss(j) \/ Erase(j)

Spec == Init /\ [][Next]_vars
=============================================================================
