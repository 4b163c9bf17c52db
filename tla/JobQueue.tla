------------------------------ MODULE JobQueue ------------------------------
(***************************************************************************)
(* The `jobs` table and the statements memory/queue.py runs on it.         *)
(*                                                                         *)
(* Every operator below is one committed statement (or the half of a       *)
(* transaction that commits): claim's UPDATE, ack's UPDATE, fail's UPDATE. *)
(* What happens between two statements of one method (the row lock of      *)
(* claim, the unlocked read of fail) is a state of the caller and lives in *)
(* WorkerPool.                                                             *)
(*                                                                         *)
(* Time is abstracted to what claim() compares with `now`: whether the     *)
(* lease of a row is still live and whether its run_after is due.          *)
(***************************************************************************)
EXTENDS Naturals, Sequences

CONSTANTS
  Jobs,        (* ids of the rows that may ever be inserted (uuid4)        *)
  Keys,        (* dedupe keys                                              *)
  KeyOf,       (* the dedupe key each row is inserted with                 *)
  Workers,     (* worker tasks, of every running instance                  *)
  NoWorker,    (* lease_owner IS NULL                                      *)
  MaxRetries   (* JobQueue(max_retries=...)                                *)

ASSUME QueueAssumption ==
  /\ KeyOf \in [Jobs -> Keys]
  /\ NoWorker \notin Workers
  /\ MaxRetries \in Nat \ {0}

VARIABLES
  jobs,        (* the table, by row id                                     *)
  admitted     (* row ids in created_at order                              *)

queueVars == <<jobs, admitted>>

-----------------------------------------------------------------------------

\* A row id with no row: never inserted, or deleted by an erasure.
Missing == {"absent", "erased"}
Stored  == {"queued", "leased", "done", "failed"}
Settled == {"done", "failed"}

Row == [status : Missing \cup Stored,
        retry  : Nat,
        lease  : {"none", "live", "expired"},
        owner  : Workers \cup {NoWorker},
        due    : BOOLEAN]

NoRow == [status |-> "absent", retry |-> 0, lease |-> "none",
          owner |-> NoWorker, due |-> TRUE]

Exists(j) == jobs[j].status \in Stored

QueueTypeOK ==
  /\ jobs \in [Jobs -> Row]
  /\ admitted \in Seq(Jobs)

QueueInit ==
  /\ jobs = [j \in Jobs |-> NoRow]
  /\ admitted = <<>>

\* i was inserted before j.
Older(i, j) ==
  \E a, b \in DOMAIN admitted : a < b /\ admitted[a] = i /\ admitted[b] = j

\* enqueue: INSERT ... ON CONFLICT (dedupe_key) DO NOTHING. With a row of the
\* same key in the table the statement changes nothing, whatever its status.
Enqueue(j) ==
  /\ jobs[j].status = "absent"
  /\ \A i \in Jobs : Exists(i) => KeyOf[i] # KeyOf[j]
  /\ jobs' = [jobs EXCEPT ![j] = [NoRow EXCEPT !.status = "queued"]]
  /\ admitted' = Append(admitted, j)

\* Mutant of Runnable: the WHERE clause forgets lease_expires_at < now.
Runnable_LeaseIgnored(j) ==
  jobs[j].status \in {"queued", "leased"} /\ jobs[j].due

\* claim's WHERE clause.
Runnable(j) ==
  /\ \/ jobs[j].status = "queued"
     \/ jobs[j].status = "leased" /\ jobs[j].lease = "expired"
  /\ jobs[j].due

\* Mutant of LeaseRow: a claim counts as an attempt, too.
LeaseRow_CountsAttempt(j, w) ==
  jobs' = [jobs EXCEPT ![j] =
            [@ EXCEPT !.status = "leased", !.lease = "live", !.owner = w, !.retry = @ + 1]]

\* claim's UPDATE; run_after and retry_count keep their values.
LeaseRow(j, w) ==
  jobs' = [jobs EXCEPT ![j] = [@ EXCEPT !.status = "leased", !.lease = "live", !.owner = w]]

\* Mutant of AckRow: the lease columns are not cleared.
AckRow_LeaseKept(j) ==
  jobs' = IF Exists(j) THEN [jobs EXCEPT ![j] = [@ EXCEPT !.status = "done"]] ELSE jobs

\* ack's UPDATE ... WHERE id: nothing is said of the status or of the owner,
\* and a row that is gone is no error.
AckRow(j) ==
  jobs' = IF Exists(j)
          THEN [jobs EXCEPT ![j] =
                 [@ EXCEPT !.status = "done", !.lease = "none", !.owner = NoWorker]]
          ELSE jobs

\* What fail writes: requeued with a backoff, or given up.
Failed(row, seen) ==
  IF seen + 1 >= MaxRetries
  THEN [row EXCEPT !.status = "failed", !.retry = seen + 1, !.lease = "none",
                   !.owner = NoWorker]
  ELSE [row EXCEPT !.status = "queued", !.retry = seen + 1, !.lease = "none",
                   !.owner = NoWorker, !.due = FALSE]

\* Mutant of FailRow: the count is compared before it is incremented.
FailRow_OneRetryMore(j, seen) ==
  jobs' = IF Exists(j)
          THEN [jobs EXCEPT ![j] =
                 IF seen >= MaxRetries
                 THEN [@ EXCEPT !.status = "failed", !.retry = seen + 1, !.lease = "none",
                                !.owner = NoWorker]
                 ELSE [@ EXCEPT !.status = "queued", !.retry = seen + 1, !.lease = "none",
                                !.owner = NoWorker, !.due = FALSE]]
          ELSE jobs

\* fail's UPDATE, from the retry_count its SELECT returned earlier.
FailRow(j, seen) ==
  jobs' = IF Exists(j) THEN [jobs EXCEPT ![j] = Failed(@, seen)] ELSE jobs

\* lease_expires_at passes.
ExpireLease(j) ==
  /\ jobs[j].status = "leased"
  /\ jobs[j].lease = "live"
  /\ jobs' = [jobs EXCEPT ![j].lease = "expired"]

\* run_after passes.
BackoffElapses(j) ==
  /\ jobs[j].status = "queued"
  /\ ~jobs[j].due
  /\ jobs' = [jobs EXCEPT ![j].due = TRUE]

\* A tenant erasure deletes the rows of its chunks and entities.
EraseRow(j) ==
  /\ Exists(j)
  /\ jobs' = [jobs EXCEPT ![j] = [NoRow EXCEPT !.status = "erased"]]

-----------------------------------------------------------------------------

\* The retry budget: a row that can still be handed to a worker has failures
\* left, and a row is given up only when they are used up.
RetryBudget ==
  \A j \in Jobs :
    /\ jobs[j].status \in {"queued", "leased"} => jobs[j].retry < MaxRetries
    /\ jobs[j].status = "failed" => jobs[j].retry >= MaxRetries

\* Lease columns and status agree: a lease has an owner, no other row has one.
LeaseMatchesStatus ==
  \A j \in Jobs :
    /\ jobs[j].status = "leased" <=> jobs[j].lease # "none"
    /\ jobs[j].status = "leased" <=> jobs[j].owner # NoWorker
=============================================================================
