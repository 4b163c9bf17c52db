------------------------ MODULE WorkerPoolProperties ------------------------
(***************************************************************************)
(* What the queue and the worker pools are relied on for.                  *)
(***************************************************************************)
EXTENDS WorkerPool

\* A claim keeps every other worker, of any instance, away from the job until
\* its ack or fail: no job is in the hands of two workers
\* (JobQueue.claim, "Concurrent claimers never receive the same job").
ExclusiveHandling ==
  \A v, w \in Workers :
    v # w /\ pc[v] \in Holding /\ pc[w] \in Holding => held[v] # held[w]

\* Why a claim's UPDATE may ignore the row it found: its row lock keeps the row
\* as the SELECT saw it, and no two claims lock one row.
LockedRowsClaimable ==
  \A w \in Workers : pc[w] = "locked" =>
    \/ jobs[held[w]].status = "queued"
    \/ jobs[held[w]].status = "leased" /\ jobs[held[w]].lease = "expired"

RowLocksExclusive ==
  \A v, w \in Workers :
    v # w /\ pc[v] = "locked" /\ pc[w] = "locked" => held[v] # held[w]

\* The inductive invariant of the table, whatever goes wrong.
TableInv == RetryBudget /\ LeaseMatchesStatus /\ LockedRowsClaimable /\ RowLocksExclusive

\* Why no job has two holders when leases outlast their workers' work: a
\* holder's row is gone, or leased to that holder and live, with the retry_count
\* a fail under way has read.
HoldersOwnTheirLease ==
  \A w \in Workers : pc[w] \in Holding =>
    LET row == jobs[held[w]] IN
    /\ row.status # "absent"
    /\ row.status # "erased" =>
         /\ row.status = "leased" /\ row.lease = "live" /\ row.owner = w
         /\ pc[w] = "failWrite" => seen[w] = row.retry

\* Every retry_count was counted in `failures`, and so was every one read.
CountsRecorded ==
  /\ \A j \in Jobs : jobs[j].retry <= failures[j] \/ failures[j] = MaxRetries
  /\ \A w \in Workers : pc[w] = "failWrite" =>
       seen[w] <= failures[held[w]] \/ failures[held[w]] = MaxRetries

\* A job is given up only after MaxRetries of its failures were recorded:
\* neither a failure seen twice nor a stale retry_count takes an attempt away.
GivenUpOnlyAfterRetries ==
  \A j \in Jobs : jobs[j].status = "failed" => failures[j] = MaxRetries

\* A live lease ends only by the ack or the fail of the worker that took it
\* (or with the row): no other worker's late answer ends it.
OnlyOwnerEndsLease ==
  [][\A j \in Jobs :
       /\ jobs[j].status = "leased"
       /\ jobs[j].lease = "live"
       /\ jobs'[j].status \in {"queued", "done", "failed"}
       => LET w == jobs[j].owner IN Holds(w, j) /\ pc[w] \in {"ack", "failWrite"} /\ pc'[w] # pc[w]]_vars

\* What the table says of a job to the code that enqueued it.
Outcome(row) == IF row.status \in {"queued", "leased"} THEN "pending" ELSE row.status

Promised == INSTANCE DurableQueue WITH
  state    <- [j \in Jobs |-> Outcome(jobs[j])],
  attempts <- [j \in Jobs |-> jobs[j].retry]

\* The table and its workers implement the queue that callers are promised
\* (queue.py, "every job has kind, payload, unique dedupe key, retry count ..."):
\* done and failed are final, and a job fails after exactly MaxRetries attempts.
QueuePromise == Promised!Spec

\* A graceful stop strands no finished job in 'leased': a task whose handler
\* has ended is down only after its ack or fail is in the table
\* (WorkerPool._finish).
StopStrandsNoFinishedJob ==
  [][\A w \in Workers :
       pc[w] \in Bookkeeping /\ held[w] \notin Unhandled /\ pc'[w] = "down"
       => jobs'[held[w]].owner # w]_vars

\* Every job that was enqueued is done or failed in the end (or erased),
\* through finitely many crashes, stops and claim errors: "worker crashes never
\* lose admitted work" (queue.py).
EveryJobSettles ==
  \A j \in Jobs :
    jobs[j].status = "queued" ~> jobs[j].status \in Settled \cup {"erased"}

\* An error of the database does not end a worker task for the life of its
\* process: nothing would start it again (_worker_loop).
WorkersSurvive == \A w \in Workers : pc[w] # "dead"
=============================================================================
