----------------------------- MODULE WorkerPool -----------------------------
(***************************************************************************)
(* The worker pools of memory/workers.py draining the queue: every running *)
(* instance of the service starts its own pool against the one `jobs`      *)
(* table, and each worker task is a loop claim -> handler -> ack or fail   *)
(* cut where the code awaits.                                              *)
(*                                                                         *)
(* What the environment may do to it is the set Faults, so that each run   *)
(* names the assumptions its properties need.                              *)
(***************************************************************************)
EXTENDS JobQueue, FiniteSets

CONSTANTS
  NoJob,             (* a worker that holds nothing                        *)
  Instances,         (* running copies of the service                      *)
  InstanceOf,        (* the instance each worker belongs to                *)
  ModelConcurrency,  (* permits of an instance's model semaphore           *)
  Unhandled,         (* rows whose kind has no registered handler          *)
  Faults,            (* what may go wrong                                  *)
  MaxFaults          (* bound on the failures of processes and database    *)

AllFaults == {"crash",      \* an instance dies
              "stop",       \* an instance is shut down: stop()
              "claim",      \* claim() raises
              "bookkeeping",\* ack() or fail() raises
              "overrun",    \* a lease may run out under a worker that lives
              "erase"}      \* a tenant erasure deletes rows

ASSUME PoolAssumption ==
  /\ NoJob \notin Jobs
  /\ InstanceOf \in [Workers -> Instances]
  /\ ModelConcurrency \in Nat \ {0}
  /\ Unhandled \subseteq Jobs
  /\ Faults \subseteq AllFaults
  /\ MaxFaults \in Nat
  /\ IsFiniteSet(Workers)

VARIABLES
  pc,        (* where each worker task stands                              *)
  held,      (* the job it claimed                                         *)
  seen,      (* the retry_count its fail() has read                        *)
  wake,      (* the asyncio.Event of each instance                         *)
  stopping,  (* instances whose stop() was called, or that are not running *)
  faults,    (* failures so far, bounded by MaxFaults                      *)
  failures   (* history: completed fail() calls per job, up to MaxRetries  *)

poolVars == <<pc, held, seen, wake, stopping, faults, failures>>
vars == <<queueVars, poolVars>>

-----------------------------------------------------------------------------

\*   loop      about to call claim()
\*   locked    claim() holds the row lock, its UPDATE not yet committed
\*   empty     claim() returned None, the event not yet cleared
\*   waiting   in wait_for(self._wake.wait(), poll_interval)
\*   backoff   in the sleep after a claim error
\*   claimed   has a job and waits for the semaphore (or has no handler)
\*   running   in the handler
\*   ack, failRead, failWrite    in _finish
\*   dead      an exception left _worker_loop
\*   down      the task ended with its instance
Bookkeeping == {"ack", "failRead", "failWrite"}
Holding     == {"claimed", "running"} \cup Bookkeeping
PC == {"loop", "locked", "empty", "waiting", "backoff", "dead", "down"} \cup Holding

PoolTypeOK ==
  /\ pc \in [Workers -> PC]
  /\ held \in [Workers -> Jobs \cup {NoJob}]
  /\ \A w \in Workers : held[w] = NoJob <=> pc[w] \notin Holding \cup {"locked"}
  /\ seen \in [Workers -> Nat]
  /\ wake \in [Instances -> BOOLEAN]
  /\ stopping \subseteq Instances
  /\ faults \in Nat
  /\ failures \in [Jobs -> 0..MaxRetries]

\* The rows of the table, and what each task holds while it stands where it does.
TypeOK == QueueTypeOK /\ PoolTypeOK

Init ==
  /\ QueueInit
  /\ pc = [w \in Workers |-> "loop"]
  /\ held = [w \in Workers |-> NoJob]
  /\ seen = [w \in Workers |-> 0]
  /\ wake = [p \in Instances |-> FALSE]
  /\ stopping = {}
  /\ faults = 0
  /\ failures = [j \in Jobs |-> 0]

Crew(p)     == {w \in Workers : InstanceOf[w] = p}
Running(p)  == {w \in Crew(p) : pc[w] = "running"}
Holds(w, j) == pc[w] \in Holding /\ held[w] = j

\* Mutant of RowLocked: claim selects without FOR UPDATE.
RowLocked_NoLock(j) == FALSE

\* A row is locked from claim's SELECT ... FOR UPDATE to its commit; the one
\* statement of an ack or a fail under way may hold it, too.
RowLocked(j)    == \E w \in Workers : pc[w] = "locked" /\ held[w] = j
MayBeLocked(j)  == RowLocked(j) \/ \E w \in Workers :
                     pc[w] \in {"ack", "failWrite"} /\ held[w] = j

Fault(kind) ==
  /\ kind \in Faults
  /\ faults < MaxFaults
  /\ faults' = faults + 1

\* The worker lets go of its job and goes on at `label`.
Release(w, label) ==
  /\ pc' = [pc EXCEPT ![w] = label]
  /\ held' = [held EXCEPT ![w] = NoJob]
  /\ seen' = [seen EXCEPT ![w] = 0]

\* After ack or fail: back to the loop, or the CancelledError that _finish
\* held back ends the task.
Proceed(w) == Release(w, IF InstanceOf[w] \in stopping THEN "down" ELSE "loop")

-----------------------------------------------------------------------------
(***************************************************************************)
(* claim(): SKIP LOCKED passes over the rows other transactions lock.      *)
(***************************************************************************)

ClaimSelect(w) ==
  /\ pc[w] = "loop"
  /\ \E j \in Jobs :
       /\ Runnable(j)
       /\ ~RowLocked(j)
       /\ \A i \in Jobs : Runnable(i) /\ Older(i, j) => MayBeLocked(i)
       /\ held' = [held EXCEPT ![w] = j]
  /\ pc' = [pc EXCEPT ![w] = "locked"]
  /\ UNCHANGED <<queueVars, seen, wake, stopping, faults, failures>>

ClaimCommit(w) ==
  /\ pc[w] = "locked"
  /\ LeaseRow(held[w], w)
  /\ pc' = [pc EXCEPT ![w] = "claimed"]
  /\ UNCHANGED <<admitted, held, seen, wake, stopping, faults, failures>>

ClaimNothing(w) ==
  /\ pc[w] = "loop"
  /\ \A j \in Jobs : Runnable(j) => MayBeLocked(j)
  /\ pc' = [pc EXCEPT ![w] = "empty"]
  /\ UNCHANGED <<queueVars, held, seen, wake, stopping, faults, failures>>

\* The transaction is rolled back, or its commit landed and the answer is lost.
ClaimError(w) ==
  /\ pc[w] \in {"loop", "locked"}
  /\ Fault("claim")
  /\ \/ UNCHANGED jobs
     \/ pc[w] = "locked" /\ LeaseRow(held[w], w)
  /\ Release(w, "backoff")
  /\ UNCHANGED <<admitted, wake, stopping, failures>>

BackoffOver(w) ==
  /\ pc[w] = "backoff"
  /\ pc' = [pc EXCEPT ![w] = "loop"]
  /\ UNCHANGED <<queueVars, held, seen, wake, stopping, faults, failures>>

\* self._wake.clear(): a wake() since the claim looked is lost.
ClearWake(w) ==
  /\ pc[w] = "empty"
  /\ pc' = [pc EXCEPT ![w] = "waiting"]
  /\ wake' = [wake EXCEPT ![InstanceOf[w]] = FALSE]
  /\ UNCHANGED <<queueVars, held, seen, stopping, faults, failures>>

\* Mutant of WaitOver: no polling, only wake() ends the wait.
WaitOver_NoPoll(w) ==
  /\ pc[w] = "waiting"
  /\ wake[InstanceOf[w]]
  /\ pc' = [pc EXCEPT ![w] = "loop"]
  /\ UNCHANGED <<queueVars, held, seen, wake, stopping, faults, failures>>

\* The event is set, or poll_interval has passed.
WaitOver(w) ==
  /\ pc[w] = "waiting"
  /\ pc' = [pc EXCEPT ![w] = "loop"]
  /\ UNCHANGED <<queueVars, held, seen, wake, stopping, faults, failures>>

-----------------------------------------------------------------------------
(***************************************************************************)
(* _run_job and _finish.                                                   *)
(***************************************************************************)

\* No handler for the kind: straight to fail(), outside the try and unshielded.
RejectUnknownKind(w) ==
  /\ pc[w] = "claimed"
  /\ held[w] \in Unhandled
  /\ pc' = [pc EXCEPT ![w] = "failRead"]
  /\ UNCHANGED <<queueVars, held, seen, wake, stopping, faults, failures>>

\* async with self._model_semaphore: the lease runs while the worker waits.
StartHandler(w) ==
  /\ pc[w] = "claimed"
  /\ held[w] \notin Unhandled
  /\ Cardinality(Running(InstanceOf[w])) < ModelConcurrency
  /\ pc' = [pc EXCEPT ![w] = "running"]
  /\ UNCHANGED <<queueVars, held, seen, wake, stopping, faults, failures>>

\* The handler returns, or raises.
EndHandler(w) ==
  /\ pc[w] = "running"
  /\ \E outcome \in {"ack", "failRead"} : pc' = [pc EXCEPT ![w] = outcome]
  /\ UNCHANGED <<queueVars, held, seen, wake, stopping, faults, failures>>

Ack(w) ==
  /\ pc[w] = "ack"
  /\ ~RowLocked(held[w])
  /\ AckRow(held[w])
  /\ Proceed(w)
  /\ UNCHANGED <<admitted, wake, stopping, faults, failures>>

\* fail()'s SELECT takes no lock; .one() raises when the row is gone, and
\* nothing between here and the task catches it.
FailRead(w) ==
  /\ pc[w] = "failRead"
  /\ Exists(held[w])
  /\ seen' = [seen EXCEPT ![w] = jobs[held[w]].retry]
  /\ pc' = [pc EXCEPT ![w] = "failWrite"]
  /\ UNCHANGED <<queueVars, held, wake, stopping, faults, failures>>

FailRowGone(w) ==
  /\ pc[w] = "failRead"
  /\ ~Exists(held[w])
  /\ Release(w, "dead")
  /\ UNCHANGED <<queueVars, wake, stopping, faults, failures>>

CountFailure(j) ==
  failures' = [failures EXCEPT ![j] = IF @ < MaxRetries THEN @ + 1 ELSE @]

FailWrite(w) ==
  /\ pc[w] = "failWrite"
  /\ ~RowLocked(held[w])
  /\ FailRow(held[w], seen[w])
  /\ CountFailure(held[w])
  /\ Proceed(w)
  /\ UNCHANGED <<admitted, wake, stopping, faults>>

\* The database refuses ack or fail, or does it and the answer is lost: the
\* exception leaves _worker_loop.
BookkeepingError(w) ==
  /\ pc[w] \in Bookkeeping
  /\ Fault("bookkeeping")
  /\ \/ UNCHANGED <<jobs, failures>>
     \/ pc[w] = "ack" /\ ~RowLocked(held[w]) /\ AckRow(held[w]) /\ UNCHANGED failures
     \/ pc[w] = "failWrite" /\ ~RowLocked(held[w])
          /\ FailRow(held[w], seen[w]) /\ CountFailure(held[w])
  /\ Release(w, "dead")
  /\ UNCHANGED <<admitted, wake, stopping>>

-----------------------------------------------------------------------------
(***************************************************************************)
(* The instances.                                                          *)
(***************************************************************************)

\* Mutant of Shielded: ack and fail are awaited without asyncio.shield.
Shielded_Not(w) == FALSE

\* cancel() ends a task at its await; _finish shields ack and fail from it,
\* but the fail() of an unknown kind runs without _finish.
Shielded(w) == pc[w] \in Bookkeeping /\ held[w] \notin Unhandled

EndTasks(ended) ==
  /\ pc' = [w \in Workers |-> IF w \in ended THEN "down" ELSE pc[w]]
  /\ held' = [w \in Workers |-> IF w \in ended THEN NoJob ELSE held[w]]
  /\ seen' = [w \in Workers |-> IF w \in ended THEN 0 ELSE seen[w]]

Stop(p) ==
  /\ p \notin stopping
  /\ Fault("stop")
  /\ EndTasks({w \in Crew(p) : ~Shielded(w)})
  /\ stopping' = stopping \cup {p}
  /\ UNCHANGED <<queueVars, wake, failures>>

Crash(p) ==
  /\ \E w \in Crew(p) : pc[w] # "down"
  /\ Fault("crash")
  /\ EndTasks(Crew(p))
  /\ stopping' = stopping \cup {p}
  /\ UNCHANGED <<queueVars, wake, failures>>

\* The process is started again; start() spawns every task anew.
Start(p) ==
  /\ p \in stopping
  /\ \A w \in Crew(p) : pc[w] \in {"down", "dead"}
  /\ pc' = [w \in Workers |-> IF w \in Crew(p) THEN "loop" ELSE pc[w]]
  /\ wake' = [wake EXCEPT ![p] = FALSE]
  /\ stopping' = stopping \ {p}
  /\ UNCHANGED <<queueVars, held, seen, faults, failures>>

-----------------------------------------------------------------------------
(***************************************************************************)
(* The rest of the program, as the pool sees it.                           *)
(***************************************************************************)

\* An ingest, a handler or the digest scheduler enqueues.
Submit(j) == Enqueue(j) /\ UNCHANGED poolVars

\* The ingest route calls wake() after it has enqueued; nobody else does.
Wake(p) ==
  /\ wake' = [wake EXCEPT ![p] = TRUE]
  /\ UNCHANGED <<queueVars, pc, held, seen, stopping, faults, failures>>

\* Without "overrun", the sixty seconds of a lease outlast the wait for the
\* semaphore, the handler and the bookkeeping of the worker that took it.
LeaseExpires(j) ==
  /\ "overrun" \in Faults \/ \A w \in Workers : ~Holds(w, j)
  /\ ExpireLease(j)
  /\ UNCHANGED <<admitted, poolVars>>

RetryDue(j) == BackoffElapses(j) /\ UNCHANGED <<admitted, poolVars>>

Erase(j) ==
  /\ "erase" \in Faults
  /\ ~RowLocked(j)
  /\ EraseRow(j)
  /\ UNCHANGED <<admitted, poolVars>>

-----------------------------------------------------------------------------

WorkerStep(w) ==
  \/ ClaimSelect(w) \/ ClaimCommit(w) \/ ClaimNothing(w)
  \/ BackoffOver(w) \/ ClearWake(w) \/ WaitOver(w)
  \/ RejectUnknownKind(w) \/ StartHandler(w) \/ EndHandler(w)
  \/ Ack(w) \/ FailRead(w) \/ FailRowGone(w) \/ FailWrite(w)

Next ==
  \/ \E w \in Workers : WorkerStep(w) \/ ClaimError(w) \/ BookkeepingError(w)
  \/ \E p \in Instances : Stop(p) \/ Crash(p) \/ Start(p) \/ Wake(p)
  \/ \E j \in Jobs : Submit(j) \/ LeaseExpires(j) \/ RetryDue(j) \/ Erase(j)

Spec == Init /\ [][Next]_vars

\* Every await of a worker returns or raises, a lease and a backoff run out,
\* and an instance that went down is started again.
Fairness ==
  /\ \A w \in Workers : WF_vars(WorkerStep(w))
  /\ \A j \in Jobs : WF_vars(LeaseExpires(j)) /\ WF_vars(RetryDue(j))
  /\ \A p \in Instances : WF_vars(Start(p))

FairSpec == Spec /\ Fairness
=============================================================================
