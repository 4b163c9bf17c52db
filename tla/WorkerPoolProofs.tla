-------------------------- MODULE WorkerPoolProofs --------------------------
(***************************************************************************)
(* Proofs about the queue and the worker pools, for every number of jobs,  *)
(* workers and instances, every retry limit and every set of faults.       *)
(***************************************************************************)
EXTENDS WorkerPoolProperties, TLAPS

-----------------------------------------------------------------------------
(***************************************************************************)
(* Type correctness.                                                       *)
(***************************************************************************)

\* Each statement on the table keeps the table well typed.
LEMMA QueueStatementsTyped ==
  ASSUME QueueTypeOK, NEW j \in Jobs
  PROVE  /\ Enqueue(j) => QueueTypeOK'
         /\ \A w \in Workers : LeaseRow(j, w) => jobs' \in [Jobs -> Row]
         /\ AckRow(j) => jobs' \in [Jobs -> Row]
         /\ \A s \in Nat : FailRow(j, s) => jobs' \in [Jobs -> Row]
         /\ ExpireLease(j) => jobs' \in [Jobs -> Row]
         /\ BackoffElapses(j) => jobs' \in [Jobs -> Row]
         /\ EraseRow(j) => jobs' \in [Jobs -> Row]
<1> USE DEF QueueTypeOK, Missing, Stored
<1>1. ASSUME Enqueue(j) PROVE QueueTypeOK'
  <2>1. [NoRow EXCEPT !.status = "queued"] \in Row
    BY DEF NoRow, Row
  <2>2. jobs' \in [Jobs -> Row]
    BY <1>1, <2>1 DEF Enqueue
  <2>3. admitted' \in Seq(Jobs)
    BY <1>1 DEF Enqueue
  <2> QED BY <2>2, <2>3
<1>0. jobs[j] \in Row
  BY DEF Row
<1>2. ASSUME NEW w \in Workers PROVE LeaseRow(j, w) => jobs' \in [Jobs -> Row]
  <2>1. [jobs[j] EXCEPT !.status = "leased", !.lease = "live", !.owner = w] \in Row
    BY <1>0 DEF Row
  <2> QED BY <2>1 DEF LeaseRow
<1>3. AckRow(j) => jobs' \in [Jobs -> Row]
  <2>1. [jobs[j] EXCEPT !.status = "done", !.lease = "none", !.owner = NoWorker] \in Row
    BY <1>0 DEF Row
  <2> QED BY <2>1 DEF AckRow
<1>4. ASSUME NEW s \in Nat PROVE FailRow(j, s) => jobs' \in [Jobs -> Row]
  <2>1. Failed(jobs[j], s) \in Row
    <3> DEFINE n == s + 1
    <3>1. n \in Nat
      OBVIOUS
    <3> HIDE DEF n
    <3>2. [jobs[j] EXCEPT !.status = "failed", !.retry = n, !.lease = "none",
                          !.owner = NoWorker] \in Row
      BY <1>0, <3>1 DEF Row
    <3>3. [jobs[j] EXCEPT !.status = "queued", !.retry = n, !.lease = "none",
                          !.owner = NoWorker, !.due = FALSE] \in Row
      BY <1>0, <3>1 DEF Row
    <3> QED BY <3>2, <3>3 DEF n, Failed
  <2> QED BY <2>1 DEF FailRow
<1>5. ExpireLease(j) => jobs' \in [Jobs -> Row]
  <2>1. [jobs[j] EXCEPT !.lease = "expired"] \in Row
    BY <1>0 DEF Row
  <2> QED BY <2>1 DEF ExpireLease
<1>6. BackoffElapses(j) => jobs' \in [Jobs -> Row]
  <2>1. [jobs[j] EXCEPT !.due = TRUE] \in Row
    BY <1>0 DEF Row
  <2> QED BY <2>1 DEF BackoffElapses
<1>7. EraseRow(j) => jobs' \in [Jobs -> Row]
  <2>1. [NoRow EXCEPT !.status = "erased"] \in Row
    BY DEF NoRow, Row
  <2> QED BY <2>1 DEF EraseRow
<1> QED  BY <1>1, <1>2, <1>3, <1>4, <1>5, <1>6, <1>7

\* A worker that lets go of its job stays well typed.
LEMMA ReleaseTyped ==
  ASSUME PoolTypeOK, NEW w \in Workers,
         NEW label \in {"backoff", "dead", "down", "loop"}, Release(w, label)
  PROVE  /\ pc' \in [Workers -> PC]
         /\ held' \in [Workers -> Jobs \cup {NoJob}]
         /\ \A v \in Workers : held'[v] = NoJob <=> pc'[v] \notin Holding \cup {"locked"}
         /\ seen' \in [Workers -> Nat]
  BY DEF PoolTypeOK, Release, PC, Holding, Bookkeeping

LEMMA TypeStep == TypeOK /\ [Next]_vars => TypeOK'
<1> SUFFICES ASSUME TypeOK, [Next]_vars PROVE TypeOK'
  OBVIOUS
<1> USE QueueAssumption, PoolAssumption DEF TypeOK
<1>1. ASSUME NEW w \in Workers, WorkerStep(w) PROVE TypeOK'
  <2>1. CASE ClaimSelect(w)
    BY <2>1 DEF ClaimSelect, PoolTypeOK, PC, Holding, Bookkeeping, queueVars, QueueTypeOK
  <2>2. CASE ClaimCommit(w)
    <3>1. held[w] \in Jobs
      BY <2>2 DEF ClaimCommit, PoolTypeOK
    <3>2. jobs' \in [Jobs -> Row] /\ QueueTypeOK'
      BY <2>2, <3>1, QueueStatementsTyped DEF ClaimCommit, QueueTypeOK
    <3>3. PoolTypeOK'
      BY <2>2 DEF ClaimCommit, PoolTypeOK, PC, Holding, Bookkeeping
    <3> QED BY <3>2, <3>3
  <2>3. CASE ClaimNothing(w) \/ BackoffOver(w) \/ ClearWake(w) \/ WaitOver(w)
    BY <2>3 DEF ClaimNothing, BackoffOver, ClearWake, WaitOver, PoolTypeOK, PC, Holding,
                Bookkeeping, queueVars, QueueTypeOK
  <2>4. CASE RejectUnknownKind(w) \/ StartHandler(w) \/ EndHandler(w)
    BY <2>4 DEF RejectUnknownKind, StartHandler, EndHandler, PoolTypeOK, PC, Holding,
                Bookkeeping, queueVars, QueueTypeOK
  <2>5. CASE Ack(w)
    <3>1. held[w] \in Jobs
      BY <2>5 DEF Ack, PoolTypeOK, Holding, Bookkeeping
    <3>2. jobs' \in [Jobs -> Row] /\ QueueTypeOK'
      BY <2>5, <3>1, QueueStatementsTyped DEF Ack, QueueTypeOK
    <3>3. PoolTypeOK'
      BY <2>5, ReleaseTyped DEF Ack, Proceed, PoolTypeOK
    <3> QED BY <3>2, <3>3
  <2>6. CASE FailRead(w)
    <3>1. held[w] \in Jobs
      BY <2>6 DEF FailRead, PoolTypeOK, Holding, Bookkeeping
    <3>2. jobs[held[w]].retry \in Nat
      BY <3>1 DEF QueueTypeOK, Row
    <3>3. PoolTypeOK'
      BY <2>6, <3>2 DEF FailRead, PoolTypeOK, PC, Holding, Bookkeeping
    <3> QED BY <2>6, <3>3 DEF FailRead, queueVars, QueueTypeOK
  <2>7. CASE FailRowGone(w)
    BY <2>7, ReleaseTyped DEF FailRowGone, PoolTypeOK, queueVars, QueueTypeOK
  <2>8. CASE FailWrite(w)
    <3>1. held[w] \in Jobs /\ seen[w] \in Nat
      BY <2>8 DEF FailWrite, PoolTypeOK, Holding, Bookkeeping
    <3>2. jobs' \in [Jobs -> Row] /\ QueueTypeOK'
      BY <2>8, <3>1, QueueStatementsTyped DEF FailWrite, QueueTypeOK
    <3>3. failures' \in [Jobs -> 0..MaxRetries]
      BY <2>8, <3>1 DEF FailWrite, CountFailure, PoolTypeOK
    <3>4. PoolTypeOK'
      BY <2>8, <3>3, ReleaseTyped DEF FailWrite, Proceed, PoolTypeOK
    <3> QED BY <3>2, <3>4
  <2> QED
    BY <1>1, <2>1, <2>2, <2>3, <2>4, <2>5, <2>6, <2>7, <2>8 DEF WorkerStep
<1>2. ASSUME NEW w \in Workers, ClaimError(w) PROVE TypeOK'
  <2>1. pc[w] = "locked" => held[w] \in Jobs
    BY DEF PoolTypeOK
  <2>2. jobs' \in [Jobs -> Row] /\ QueueTypeOK'
    BY <1>2, <2>1, QueueStatementsTyped DEF ClaimError, QueueTypeOK
  <2>3. PoolTypeOK'
    BY <1>2, ReleaseTyped DEF ClaimError, Fault, PoolTypeOK
  <2> QED BY <2>2, <2>3
<1>3. ASSUME NEW w \in Workers, BookkeepingError(w) PROVE TypeOK'
  <2>1. held[w] \in Jobs /\ seen[w] \in Nat
    BY <1>3 DEF BookkeepingError, PoolTypeOK, Holding
  <2>2. jobs' \in [Jobs -> Row] /\ QueueTypeOK'
    BY <1>3, <2>1, QueueStatementsTyped DEF BookkeepingError, QueueTypeOK
  <2>3. failures' \in [Jobs -> 0..MaxRetries]
    BY <1>3, <2>1 DEF BookkeepingError, CountFailure, PoolTypeOK
  <2>4. PoolTypeOK'
    BY <1>3, <2>3, ReleaseTyped DEF BookkeepingError, Fault, PoolTypeOK
  <2> QED BY <2>2, <2>4
<1>4. ASSUME NEW p \in Instances, Stop(p) \/ Crash(p) \/ Start(p) \/ Wake(p) PROVE TypeOK'
  <2>1. CASE Stop(p)
    BY <2>1 DEF Stop, EndTasks, Fault, Crew, PoolTypeOK, PC, Holding, Bookkeeping,
                queueVars, QueueTypeOK
  <2>2. CASE Crash(p)
    BY <2>2 DEF Crash, EndTasks, Fault, Crew, PoolTypeOK, PC, Holding, Bookkeeping,
                queueVars, QueueTypeOK
  <2>3. CASE Start(p)
    BY <2>3 DEF Start, Crew, PoolTypeOK, PC, Holding, Bookkeeping, queueVars, QueueTypeOK
  <2>4. CASE Wake(p)
    BY <2>4 DEF Wake, PoolTypeOK, queueVars, QueueTypeOK
  <2> QED BY <1>4, <2>1, <2>2, <2>3, <2>4
<1>5. ASSUME NEW j \in Jobs, Submit(j) \/ LeaseExpires(j) \/ RetryDue(j) \/ Erase(j)
      PROVE  TypeOK'
  <2>1. QueueTypeOK'
    BY <1>5, QueueStatementsTyped DEF Submit, LeaseExpires, RetryDue, Erase, QueueTypeOK
  <2>2. PoolTypeOK'
    BY <1>5 DEF Submit, LeaseExpires, RetryDue, Erase, poolVars, PoolTypeOK
  <2> QED BY <2>1, <2>2
<1>6. CASE UNCHANGED vars
  BY <1>6 DEF vars, queueVars, poolVars, QueueTypeOK, PoolTypeOK
<1> QED
  BY <1>1, <1>2, <1>3, <1>4, <1>5, <1>6 DEF Next

\* Every reachable state of the table and of the worker tasks is well typed; in
\* particular a task holds a job exactly while it works on one.
THEOREM TypeCorrect == Spec => []TypeOK
<1>1. Init => TypeOK
  BY QueueAssumption, PoolAssumption
  DEF Init, QueueInit, TypeOK, QueueTypeOK, PoolTypeOK, Row, NoRow, Missing, Stored, PC,
      Holding, Bookkeeping
<1> QED
  BY <1>1, TypeStep, PTL DEF Spec

-----------------------------------------------------------------------------
(***************************************************************************)
(* The table: retry budget, lease columns and row locks, whatever goes     *)
(* wrong.  A worker at `locked` owns the row lock of its job, so no ack,   *)
(* fail or erasure touches that row before the claim commits.              *)
(***************************************************************************)

\* The statements keep budget and lease columns; a claim does so on a row that
\* is queued or leased.
LEMMA StatementsKeepTable ==
  ASSUME TypeOK, RetryBudget, LeaseMatchesStatus, NEW j \in Jobs
  PROVE  /\ Enqueue(j) => RetryBudget' /\ LeaseMatchesStatus'
         /\ \A w \in Workers : jobs[j].status \in {"queued", "leased"} /\ LeaseRow(j, w)
              => RetryBudget' /\ LeaseMatchesStatus'
         /\ AckRow(j) => RetryBudget' /\ LeaseMatchesStatus'
         /\ \A s \in Nat : FailRow(j, s) => RetryBudget' /\ LeaseMatchesStatus'
         /\ ExpireLease(j) => RetryBudget' /\ LeaseMatchesStatus'
         /\ BackoffElapses(j) => RetryBudget' /\ LeaseMatchesStatus'
         /\ EraseRow(j) => RetryBudget' /\ LeaseMatchesStatus'
<1> USE QueueAssumption DEF RetryBudget, LeaseMatchesStatus, TypeOK, QueueTypeOK
<1>1. Enqueue(j) => RetryBudget' /\ LeaseMatchesStatus'
  BY DEF Enqueue, NoRow, Row
<1>2. ASSUME NEW w \in Workers, jobs[j].status \in {"queued", "leased"}, LeaseRow(j, w)
      PROVE  RetryBudget' /\ LeaseMatchesStatus'
  BY <1>2 DEF LeaseRow, Row
<1>3. AckRow(j) => RetryBudget' /\ LeaseMatchesStatus'
  BY DEF AckRow, Row
<1>4. ASSUME NEW s \in Nat, FailRow(j, s) PROVE RetryBudget' /\ LeaseMatchesStatus'
  BY <1>4 DEF FailRow, Failed, Row
<1>5. ExpireLease(j) => RetryBudget' /\ LeaseMatchesStatus'
  BY DEF ExpireLease, Row
<1>6. BackoffElapses(j) => RetryBudget' /\ LeaseMatchesStatus'
  BY DEF BackoffElapses, Row
<1>7. EraseRow(j) => RetryBudget' /\ LeaseMatchesStatus'
  BY DEF EraseRow, NoRow, Row
<1> QED BY <1>1, <1>2, <1>3, <1>4, <1>5, <1>6, <1>7

\* A step keeps the row locks when no worker takes a new one and no locked row
\* changes but by the passing of its lease.
LEMMA LocksKept ==
  ASSUME LockedRowsClaimable, RowLocksExclusive,
         \A v \in Workers : pc'[v] = "locked" =>
           /\ pc[v] = "locked"
           /\ held'[v] = held[v]
           /\ jobs'[held[v]].status = jobs[held[v]].status
           /\ jobs'[held[v]].lease \in {jobs[held[v]].lease, "expired"}
  PROVE  LockedRowsClaimable' /\ RowLocksExclusive'
  BY DEF LockedRowsClaimable, RowLocksExclusive

LEMMA TableStep == TypeOK /\ TableInv /\ [Next]_vars => TableInv'
<1> SUFFICES ASSUME TypeOK, TableInv, [Next]_vars PROVE TableInv'
  OBVIOUS
<1> USE DEF TableInv
<1>t. /\ \A w \in Workers : pc[w] \in Holding \cup {"locked"} => held[w] \in Jobs
      /\ \A w \in Workers : seen[w] \in Nat
      /\ pc \in [Workers -> PC] /\ held \in [Workers -> Jobs \cup {NoJob}]
      /\ jobs \in [Jobs -> Row]
  BY DEF TypeOK, PoolTypeOK, QueueTypeOK
<1>l. \A w \in Workers : pc[w] = "locked" => jobs[held[w]].status \in {"queued", "leased"}
  BY DEF LockedRowsClaimable
<1>1. ASSUME NEW w \in Workers, WorkerStep(w) PROVE TableInv'
  <2>1. CASE ClaimSelect(w)
    <3>1. PICK j \in Jobs : Runnable(j) /\ ~RowLocked(j) /\ held' = [held EXCEPT ![w] = j]
      BY <2>1 DEF ClaimSelect
    <3>2. UNCHANGED jobs /\ pc' = [pc EXCEPT ![w] = "locked"]
      BY <2>1 DEF ClaimSelect, queueVars
    <3>3. RetryBudget' /\ LeaseMatchesStatus'
      BY <3>2 DEF RetryBudget, LeaseMatchesStatus
    <3>4. LockedRowsClaimable'
      BY <1>t, <3>1, <3>2 DEF LockedRowsClaimable, Runnable
    <3>5. RowLocksExclusive'
      BY <1>t, <3>1, <3>2 DEF RowLocksExclusive, RowLocked
    <3> QED BY <3>3, <3>4, <3>5
  <2>2. CASE ClaimCommit(w)
    <3>1. /\ LeaseRow(held[w], w) /\ pc[w] = "locked" /\ held[w] \in Jobs
          /\ pc' = [pc EXCEPT ![w] = "claimed"] /\ held' = held
      BY <1>t, <2>2 DEF ClaimCommit
    <3>2. RetryBudget' /\ LeaseMatchesStatus'
      BY <1>l, <3>1, StatementsKeepTable
    <3>3. ASSUME NEW v \in Workers, pc'[v] = "locked"
          PROVE  pc[v] = "locked" /\ v # w /\ jobs'[held[v]] = jobs[held[v]]
      BY <1>t, <3>1, <3>3 DEF LeaseRow, RowLocksExclusive
    <3> QED BY <3>1, <3>2, <3>3, LocksKept
  <2>3. CASE ClaimNothing(w) \/ BackoffOver(w) \/ ClearWake(w) \/ WaitOver(w)
    <3>1. UNCHANGED <<jobs, held>> /\ \A v \in Workers : pc'[v] = "locked" => pc[v] = "locked"
      BY <1>t, <2>3 DEF ClaimNothing, BackoffOver, ClearWake, WaitOver, queueVars
    <3> QED BY <3>1, LocksKept DEF RetryBudget, LeaseMatchesStatus
  <2>4. CASE RejectUnknownKind(w) \/ StartHandler(w) \/ EndHandler(w) \/ FailRead(w)
    <3>1. UNCHANGED <<jobs, held>> /\ \A v \in Workers : pc'[v] = "locked" => pc[v] = "locked"
      BY <1>t, <2>4 DEF RejectUnknownKind, StartHandler, EndHandler, FailRead, queueVars
    <3> QED BY <3>1, LocksKept DEF RetryBudget, LeaseMatchesStatus
  <2>5. CASE Ack(w)
    <3>1. held[w] \in Jobs /\ ~RowLocked(held[w]) /\ AckRow(held[w])
      BY <1>t, <2>5 DEF Ack, Holding, Bookkeeping
    <3>2. RetryBudget' /\ LeaseMatchesStatus'
      BY <3>1, StatementsKeepTable
    <3>3. \A v \in Workers : pc'[v] = "locked" => v # w /\ pc[v] = "locked" /\ held'[v] = held[v]
      BY <1>t, <2>5 DEF Ack, Proceed, Release
    <3>4. \A v \in Workers : pc[v] = "locked" => jobs'[held[v]] = jobs[held[v]]
      BY <1>t, <3>1 DEF AckRow, RowLocked
    <3> QED BY <3>2, <3>3, <3>4, LocksKept
  <2>6. CASE FailRowGone(w)
    <3>1. \A v \in Workers : pc'[v] = "locked" => v # w /\ pc[v] = "locked" /\ held'[v] = held[v]
      BY <1>t, <2>6 DEF FailRowGone, Release
    <3>2. UNCHANGED jobs
      BY <2>6 DEF FailRowGone, queueVars
    <3> QED BY <3>1, <3>2, LocksKept DEF RetryBudget, LeaseMatchesStatus
  <2>7. CASE FailWrite(w)
    <3>1. held[w] \in Jobs /\ ~RowLocked(held[w]) /\ FailRow(held[w], seen[w])
      BY <1>t, <2>7 DEF FailWrite, Holding, Bookkeeping
    <3>2. RetryBudget' /\ LeaseMatchesStatus'
      BY <1>t, <3>1, StatementsKeepTable
    <3>3. \A v \in Workers : pc'[v] = "locked" => v # w /\ pc[v] = "locked" /\ held'[v] = held[v]
      BY <1>t, <2>7 DEF FailWrite, Proceed, Release
    <3>4. \A v \in Workers : pc[v] = "locked" => jobs'[held[v]] = jobs[held[v]]
      BY <1>t, <3>1 DEF FailRow, RowLocked
    <3> QED BY <3>2, <3>3, <3>4, LocksKept
  <2> QED
    BY <1>1, <2>1, <2>2, <2>3, <2>4, <2>5, <2>6, <2>7 DEF WorkerStep
<1>2. ASSUME NEW w \in Workers, ClaimError(w) PROVE TableInv'
  <2>1. \A v \in Workers : pc'[v] = "locked" => v # w /\ pc[v] = "locked" /\ held'[v] = held[v]
    BY <1>t, <1>2 DEF ClaimError, Release
  <2>2. CASE UNCHANGED jobs
    BY <2>1, <2>2, LocksKept DEF RetryBudget, LeaseMatchesStatus
  <2>3. CASE pc[w] = "locked" /\ LeaseRow(held[w], w)
    <3>1. RetryBudget' /\ LeaseMatchesStatus'
      BY <1>t, <1>l, <2>3, StatementsKeepTable
    <3>2. \A v \in Workers : v # w /\ pc[v] = "locked" => jobs'[held[v]] = jobs[held[v]]
      BY <1>t, <2>3 DEF LeaseRow, RowLocksExclusive
    <3> QED BY <2>1, <3>1, <3>2, LocksKept
  <2> QED BY <1>2, <2>2, <2>3 DEF ClaimError
<1>3. ASSUME NEW w \in Workers, BookkeepingError(w) PROVE TableInv'
  <2>1. \A v \in Workers : pc'[v] = "locked" => v # w /\ pc[v] = "locked" /\ held'[v] = held[v]
    BY <1>t, <1>3 DEF BookkeepingError, Release
  <2>2. held[w] \in Jobs
    BY <1>t, <1>3 DEF BookkeepingError, Holding
  <2>3. CASE UNCHANGED jobs
    BY <2>1, <2>3, LocksKept DEF RetryBudget, LeaseMatchesStatus
  <2>4. CASE ~RowLocked(held[w]) /\ (AckRow(held[w]) \/ FailRow(held[w], seen[w]))
    <3>1. RetryBudget' /\ LeaseMatchesStatus'
      BY <1>t, <2>2, <2>4, StatementsKeepTable
    <3>2. \A v \in Workers : pc[v] = "locked" => jobs'[held[v]] = jobs[held[v]]
      BY <1>t, <2>2, <2>4 DEF AckRow, FailRow, RowLocked
    <3> QED BY <2>1, <3>1, <3>2, LocksKept
  <2> QED BY <1>3, <2>3, <2>4 DEF BookkeepingError
<1>4. ASSUME NEW p \in Instances, Stop(p) \/ Crash(p) \/ Start(p) \/ Wake(p) PROVE TableInv'
  <2>1. UNCHANGED jobs
    BY <1>4 DEF Stop, Crash, Start, Wake, queueVars
  <2>2. \A v \in Workers : pc'[v] = "locked" => pc[v] = "locked" /\ held'[v] = held[v]
    BY <1>4, <1>t DEF Stop, Crash, Start, Wake, EndTasks
  <2> QED BY <2>1, <2>2, LocksKept DEF RetryBudget, LeaseMatchesStatus
<1>5. ASSUME NEW j \in Jobs, Submit(j) \/ LeaseExpires(j) \/ RetryDue(j) \/ Erase(j)
      PROVE  TableInv'
  <2>1. UNCHANGED <<pc, held>>
    BY <1>5 DEF Submit, LeaseExpires, RetryDue, Erase, poolVars
  <2>2. RetryBudget' /\ LeaseMatchesStatus'
    BY <1>5, StatementsKeepTable DEF Submit, LeaseExpires, RetryDue, Erase
  <2>3. ASSUME NEW v \in Workers, pc[v] = "locked"
        PROVE  /\ jobs'[held[v]].status = jobs[held[v]].status
               /\ jobs'[held[v]].lease \in {jobs[held[v]].lease, "expired"}
    <3>1. held[v] \in Jobs /\ RowLocked(held[v]) /\ jobs[held[v]].status \in {"queued", "leased"}
      BY <1>t, <1>l, <2>3 DEF RowLocked
    <3>2. CASE Submit(j)
      BY <1>t, <3>1, <3>2 DEF Submit, Enqueue
    <3>3. CASE LeaseExpires(j)
      BY <1>t, <3>1, <3>3 DEF LeaseExpires, ExpireLease
    <3>4. CASE RetryDue(j)
      BY <1>t, <3>1, <3>4 DEF RetryDue, BackoffElapses
    <3>5. CASE Erase(j)
      BY <1>t, <3>1, <3>5 DEF Erase, EraseRow
    <3> QED BY <1>5, <3>2, <3>3, <3>4, <3>5
  <2> QED BY <2>1, <2>2, <2>3, LocksKept
<1>6. CASE UNCHANGED vars
  BY <1>6 DEF vars, queueVars, poolVars, RetryBudget, LeaseMatchesStatus,
              LockedRowsClaimable, RowLocksExclusive
<1> QED
  BY <1>1, <1>2, <1>3, <1>4, <1>5, <1>6 DEF Next

LEMMA TableInvariant == Spec => []TableInv
<1>1. Init => TableInv
  BY QueueAssumption
  DEF Init, QueueInit, NoRow, TableInv, RetryBudget, LeaseMatchesStatus,
      LockedRowsClaimable, RowLocksExclusive
<1> QED
  BY <1>1, TableStep, TypeCorrect, PTL DEF Spec

\* Whatever crashes, overruns and errors do, a row that can still be handed to
\* a worker has retries left, and a row given up has none (JobQueue.fail).
THEOREM BudgetKept == Spec => []RetryBudget
<1>1. TableInv => RetryBudget
  BY DEF TableInv
<1> QED BY <1>1, TableInvariant, PTL

\* The status and the lease columns of a row never disagree, so a row that says
\* 'leased' always has an expiry that makes it claimable again (queue.py).
THEOREM LeaseColumnsAgree == Spec => []LeaseMatchesStatus
<1>1. TableInv => LeaseMatchesStatus
  BY DEF TableInv
<1> QED BY <1>1, TableInvariant, PTL

-----------------------------------------------------------------------------
(***************************************************************************)
(* Failures: a retry_count never runs ahead of the failures recorded.      *)
(***************************************************************************)

\* Only a fail, an insert and an erasure write retry_count.
LEMMA RetryCountWrites ==
  ASSUME TypeOK, NEW j \in Jobs, NEW i \in Jobs
  PROVE  /\ \A w \in Workers : LeaseRow(j, w) => jobs'[i].retry = jobs[i].retry
         /\ AckRow(j) => jobs'[i].retry = jobs[i].retry
         /\ \A s \in Nat : FailRow(j, s) =>
              jobs'[i].retry = IF i = j /\ Exists(j) THEN s + 1 ELSE jobs[i].retry
         /\ Enqueue(j) \/ ExpireLease(j) \/ BackoffElapses(j) \/ EraseRow(j) =>
              jobs'[i].retry \in {jobs[i].retry, 0}
<1> USE DEF TypeOK, QueueTypeOK
<1>0. jobs[i] \in Row /\ jobs[j] \in Row
  OBVIOUS
<1>1. ASSUME NEW w \in Workers, LeaseRow(j, w) PROVE jobs'[i].retry = jobs[i].retry
  BY <1>0, <1>1 DEF LeaseRow, Row
<1>2. AckRow(j) => jobs'[i].retry = jobs[i].retry
  BY <1>0 DEF AckRow, Row
<1>3. ASSUME NEW s \in Nat, FailRow(j, s)
      PROVE  jobs'[i].retry = IF i = j /\ Exists(j) THEN s + 1 ELSE jobs[i].retry
  <2>1. Failed(jobs[j], s).retry = s + 1
    BY <1>0 DEF Failed, Row
  <2>2. jobs'[i] = IF i = j /\ Exists(j) THEN Failed(jobs[j], s) ELSE jobs[i]
    BY <1>3 DEF FailRow
  <2> QED BY <2>1, <2>2
<1>4. Enqueue(j) => jobs'[i].retry \in {jobs[i].retry, 0}
  BY <1>0 DEF Enqueue, NoRow
<1>5. ExpireLease(j) \/ BackoffElapses(j) => jobs'[i].retry \in {jobs[i].retry, 0}
  BY <1>0 DEF ExpireLease, BackoffElapses, Row
<1>6. EraseRow(j) => jobs'[i].retry \in {jobs[i].retry, 0}
  BY <1>0 DEF EraseRow, NoRow
<1> QED BY <1>1, <1>2, <1>3, <1>4, <1>5, <1>6

LEMMA CountsKept ==
  ASSUME TypeOK, CountsRecorded, UNCHANGED failures,
         \A j \in Jobs : jobs'[j].retry \in {jobs[j].retry, 0},
         \A w \in Workers : pc'[w] = "failWrite" =>
           pc[w] = "failWrite" /\ held'[w] = held[w] /\ seen'[w] = seen[w]
  PROVE  CountsRecorded'
<1>1. ASSUME NEW j \in Jobs
      PROVE  jobs'[j].retry <= failures'[j] \/ failures'[j] = MaxRetries
  <2>1. failures[j] \in Nat /\ jobs'[j].retry \in {jobs[j].retry, 0}
    BY QueueAssumption DEF TypeOK, PoolTypeOK
  <2> QED BY <2>1 DEF CountsRecorded
<1>2. \A w \in Workers : pc'[w] = "failWrite" =>
        seen'[w] <= failures'[held'[w]] \/ failures'[held'[w]] = MaxRetries
  BY DEF CountsRecorded
<1> QED BY <1>1, <1>2 DEF CountsRecorded

\* The write of a fail adds one to what it read and one to `failures`.
LEMMA FailureCounted ==
  ASSUME TypeOK, CountsRecorded, NEW w \in Workers, pc[w] = "failWrite",
         FailRow(held[w], seen[w]), CountFailure(held[w]),
         \A v \in Workers : pc'[v] = "failWrite" =>
           pc[v] = "failWrite" /\ held'[v] = held[v] /\ seen'[v] = seen[v]
  PROVE  CountsRecorded'
<1> USE QueueAssumption DEF TypeOK, PoolTypeOK, QueueTypeOK
<1>1. \A v \in Workers : pc[v] = "failWrite" => held[v] \in Jobs /\ seen[v] \in Nat
  BY DEF Holding, Bookkeeping
<1>2. \A j \in Jobs : failures[j] \in 0..MaxRetries /\ jobs[j].retry \in Nat
  BY DEF Row
<1>3. \A j \in Jobs : failures'[j] = IF j = held[w] /\ failures[j] < MaxRetries
                                     THEN failures[j] + 1 ELSE failures[j]
  BY <1>1 DEF CountFailure
<1>4. \A j \in Jobs : jobs'[j].retry = IF j = held[w] /\ Exists(j)
                                       THEN seen[w] + 1 ELSE jobs[j].retry
  BY <1>1, RetryCountWrites
<1> HIDE DEF TypeOK, PoolTypeOK, QueueTypeOK
<1>m. MaxRetries \in Nat /\ MaxRetries > 0
  OBVIOUS
<1>5. ASSUME NEW j \in Jobs
      PROVE  jobs'[j].retry <= failures'[j] \/ failures'[j] = MaxRetries
  <2>1. jobs[j].retry <= failures[j] \/ failures[j] = MaxRetries
    BY DEF CountsRecorded
  <2>2. j = held[w] => seen[w] <= failures[j] \/ failures[j] = MaxRetries
    BY DEF CountsRecorded
  <2>3. seen[w] \in Nat /\ failures[j] \in 0..MaxRetries /\ jobs[j].retry \in Nat
    BY <1>1, <1>2
  <2> QED BY <1>m, <1>3, <1>4, <2>1, <2>2, <2>3
<1>6. ASSUME NEW v \in Workers, pc'[v] = "failWrite"
      PROVE  seen'[v] <= failures'[held'[v]] \/ failures'[held'[v]] = MaxRetries
  <2>1. seen[v] <= failures[held[v]] \/ failures[held[v]] = MaxRetries
    BY <1>6 DEF CountsRecorded
  <2>2. seen[v] \in Nat /\ held[v] \in Jobs /\ failures[held[v]] \in 0..MaxRetries
    BY <1>1, <1>2, <1>6
  <2>3. failures'[held[v]] \in {failures[held[v]], failures[held[v]] + 1}
    BY <1>3, <2>2
  <2>4. failures[held[v]] = MaxRetries => failures'[held[v]] = MaxRetries
    BY <1>m, <1>3, <2>2
  <2> QED BY <1>m, <1>6, <2>1, <2>2, <2>3, <2>4
<1> QED BY <1>5, <1>6 DEF CountsRecorded

LEMMA CountsStep == TypeOK /\ CountsRecorded /\ [Next]_vars => CountsRecorded'
<1> SUFFICES ASSUME TypeOK, CountsRecorded, [Next]_vars PROVE CountsRecorded'
  OBVIOUS
<1>t. /\ \A w \in Workers : pc[w] \in Holding \cup {"locked"} => held[w] \in Jobs
      /\ pc \in [Workers -> PC] /\ held \in [Workers -> Jobs \cup {NoJob}]
      /\ seen \in [Workers -> Nat] /\ jobs \in [Jobs -> Row]
  BY DEF TypeOK, PoolTypeOK, QueueTypeOK
<1>1. ASSUME NEW w \in Workers, WorkerStep(w) PROVE CountsRecorded'
  <2>1. CASE \/ ClaimSelect(w) \/ ClaimNothing(w) \/ BackoffOver(w) \/ ClearWake(w)
             \/ WaitOver(w) \/ RejectUnknownKind(w) \/ StartHandler(w) \/ EndHandler(w)
    <3>1. UNCHANGED <<jobs, failures, seen>>
      BY <2>1 DEF ClaimSelect, ClaimNothing, BackoffOver, ClearWake, WaitOver,
                  RejectUnknownKind, StartHandler, EndHandler, queueVars
    <3>2. \A v \in Workers : pc'[v] = "failWrite" => pc[v] = "failWrite" /\ held'[v] = held[v]
      BY <1>t, <2>1 DEF ClaimSelect, ClaimNothing, BackoffOver, ClearWake, WaitOver,
                        RejectUnknownKind, StartHandler, EndHandler
    <3> QED BY <3>1, <3>2, CountsKept
  <2>2. CASE ClaimCommit(w)
    <3>1. UNCHANGED <<failures, seen, held>> /\ held[w] \in Jobs
      BY <1>t, <2>2 DEF ClaimCommit
    <3>2. \A v \in Workers : pc'[v] = "failWrite" => pc[v] = "failWrite"
      BY <1>t, <2>2 DEF ClaimCommit
    <3>3. \A j \in Jobs : jobs'[j].retry = jobs[j].retry
      BY <2>2, <3>1, RetryCountWrites DEF ClaimCommit
    <3> QED BY <3>1, <3>2, <3>3, CountsKept
  <2>3. CASE Ack(w) \/ FailRowGone(w)
    <3>1. UNCHANGED failures /\ held[w] \in Jobs
      BY <1>t, <2>3 DEF Ack, FailRowGone, Holding, Bookkeeping
    <3>2. \A v \in Workers : pc'[v] = "failWrite" =>
            pc[v] = "failWrite" /\ held'[v] = held[v] /\ seen'[v] = seen[v]
      BY <1>t, <2>3 DEF Ack, FailRowGone, Proceed, Release
    <3>3. \A j \in Jobs : jobs'[j].retry = jobs[j].retry
      BY <2>3, <3>1, RetryCountWrites DEF Ack, FailRowGone, queueVars
    <3> QED BY <3>1, <3>2, <3>3, CountsKept
  <2>4. CASE FailRead(w)
    <3>1. /\ held[w] \in Jobs /\ UNCHANGED <<jobs, failures, held>>
          /\ seen' = [seen EXCEPT ![w] = jobs[held[w]].retry]
          /\ pc' = [pc EXCEPT ![w] = "failWrite"]
      BY <1>t, <2>4 DEF FailRead, Holding, Bookkeeping, queueVars
    <3> QED BY <1>t, <3>1 DEF CountsRecorded
  <2>5. CASE FailWrite(w)
    <3>1. \A v \in Workers : pc'[v] = "failWrite" =>
            pc[v] = "failWrite" /\ held'[v] = held[v] /\ seen'[v] = seen[v]
      BY <1>t, <2>5 DEF FailWrite, Proceed, Release
    <3> QED BY <2>5, <3>1, FailureCounted DEF FailWrite
  <2> QED
    BY <1>1, <2>1, <2>2, <2>3, <2>4, <2>5 DEF WorkerStep
<1>2. ASSUME NEW w \in Workers, ClaimError(w) PROVE CountsRecorded'
  <2>1. UNCHANGED failures
    BY <1>2 DEF ClaimError
  <2>2. \A v \in Workers : pc'[v] = "failWrite" =>
          pc[v] = "failWrite" /\ held'[v] = held[v] /\ seen'[v] = seen[v]
    BY <1>t, <1>2 DEF ClaimError, Release
  <2>3. \A j \in Jobs : jobs'[j].retry = jobs[j].retry
    BY <1>t, <1>2, RetryCountWrites DEF ClaimError
  <2> QED BY <2>1, <2>2, <2>3, CountsKept
<1>3. ASSUME NEW w \in Workers, BookkeepingError(w) PROVE CountsRecorded'
  <2>1. \A v \in Workers : pc'[v] = "failWrite" =>
          pc[v] = "failWrite" /\ held'[v] = held[v] /\ seen'[v] = seen[v]
    BY <1>t, <1>3 DEF BookkeepingError, Release
  <2>2. CASE UNCHANGED <<jobs, failures>>
    BY <2>1, <2>2, CountsKept
  <2>3. CASE pc[w] = "ack" /\ AckRow(held[w]) /\ UNCHANGED failures
    <3>1. \A j \in Jobs : jobs'[j].retry = jobs[j].retry
      BY <1>t, <2>3, RetryCountWrites DEF Holding, Bookkeeping
    <3> QED BY <2>1, <2>3, <3>1, CountsKept
  <2>4. CASE pc[w] = "failWrite" /\ FailRow(held[w], seen[w]) /\ CountFailure(held[w])
    BY <2>1, <2>4, FailureCounted
  <2> QED BY <1>3, <2>2, <2>3, <2>4 DEF BookkeepingError
<1>4. ASSUME NEW p \in Instances, Stop(p) \/ Crash(p) \/ Start(p) \/ Wake(p)
      PROVE  CountsRecorded'
  <2>1. UNCHANGED <<jobs, failures>>
    BY <1>4 DEF Stop, Crash, Start, Wake, queueVars
  <2>2. \A v \in Workers : pc'[v] = "failWrite" =>
          pc[v] = "failWrite" /\ held'[v] = held[v] /\ seen'[v] = seen[v]
    BY <1>t, <1>4 DEF Stop, Crash, Start, Wake, EndTasks
  <2> QED BY <2>1, <2>2, CountsKept
<1>5. ASSUME NEW j \in Jobs, Submit(j) \/ LeaseExpires(j) \/ RetryDue(j) \/ Erase(j)
      PROVE  CountsRecorded'
  <2>1. UNCHANGED poolVars
    BY <1>5 DEF Submit, LeaseExpires, RetryDue, Erase
  <2>2. \A i \in Jobs : jobs'[i].retry \in {jobs[i].retry, 0}
    BY <1>5, RetryCountWrites DEF Submit, LeaseExpires, RetryDue, Erase
  <2> QED BY <2>1, <2>2, CountsKept DEF poolVars
<1>6. CASE UNCHANGED vars
  BY <1>6 DEF vars, queueVars, poolVars, CountsRecorded
<1> QED
  BY <1>1, <1>2, <1>3, <1>4, <1>5, <1>6 DEF Next

\* However acks and fails of several workers interleave, the retry_count that
\* gives a job up stands for MaxRetries failures that were recorded.
THEOREM GivenUpRightly == Spec => []GivenUpOnlyAfterRetries
<1>1. Init => CountsRecorded
  BY QueueAssumption DEF Init, QueueInit, NoRow, CountsRecorded
<1>2. Spec => []CountsRecorded
  BY <1>1, CountsStep, TypeCorrect, PTL DEF Spec
<1>3. TypeOK /\ TableInv /\ CountsRecorded => GivenUpOnlyAfterRetries
  <2> SUFFICES ASSUME TypeOK, TableInv, CountsRecorded, NEW j \in Jobs,
                      jobs[j].status = "failed"
               PROVE  failures[j] = MaxRetries
    BY DEF GivenUpOnlyAfterRetries
  <2>1. failures[j] \in 0..MaxRetries /\ jobs[j].retry \in Nat
    BY DEF TypeOK, QueueTypeOK, PoolTypeOK, Row
  <2>2. jobs[j].retry >= MaxRetries /\ (jobs[j].retry <= failures[j] \/ failures[j] = MaxRetries)
    BY DEF TableInv, RetryBudget, CountsRecorded
  <2> QED BY <2>1, <2>2, QueueAssumption
<1> QED
  BY <1>2, <1>3, TypeCorrect, TableInvariant, PTL

-----------------------------------------------------------------------------
(***************************************************************************)
(* How tasks end.                                                          *)
(***************************************************************************)

\* The statement of an ack or a fail leaves no row leased to anybody.
LEMMA StatementsEndLease ==
  ASSUME TypeOK, LeaseMatchesStatus, NEW j \in Jobs
  PROVE  /\ AckRow(j) => jobs'[j].owner = NoWorker
         /\ \A s \in Nat : FailRow(j, s) => jobs'[j].owner = NoWorker
<1>1. jobs[j] \in Row /\ jobs \in [Jobs -> Row]
  BY DEF TypeOK, QueueTypeOK
<1>2. ~Exists(j) => jobs[j].owner = NoWorker
  BY <1>1 DEF LeaseMatchesStatus, Exists, Stored
<1>3. AckRow(j) => jobs'[j].owner = NoWorker
  BY <1>1, <1>2 DEF AckRow, Row
<1>4. ASSUME NEW s \in Nat, FailRow(j, s) PROVE jobs'[j].owner = NoWorker
  <2>1. Failed(jobs[j], s).owner = NoWorker
    BY <1>1 DEF Failed, Row
  <2> QED BY <1>1, <1>2, <1>4, <2>1 DEF FailRow
<1> QED BY <1>3, <1>4

\* However often an instance is shut down while its handlers finish, whatever
\* leases run out and rows are erased: a task whose handler has ended goes down
\* only after its ack or fail is in the table.  A crash alone takes it earlier
\* (_finish, "a graceful stop cannot strand a finished job in 'leased'").
THEOREM StopsAreGraceful ==
  ASSUME "crash" \notin Faults
  PROVE  Spec => StopStrandsNoFinishedJob
<1> DEFINE Graceful ==
      \A w \in Workers :
        pc[w] \in Bookkeeping /\ held[w] \notin Unhandled /\ pc'[w] = "down"
        => jobs'[held[w]].owner # w
<1>1. TypeOK /\ LeaseMatchesStatus /\ [Next]_vars => [Graceful]_vars
  <2> SUFFICES ASSUME TypeOK, LeaseMatchesStatus, Next, NEW w \in Workers,
                      pc[w] \in Bookkeeping, held[w] \notin Unhandled, pc'[w] = "down"
               PROVE  jobs'[held[w]].owner # w
    OBVIOUS
  <2>0. /\ pc \in [Workers -> PC] /\ held[w] \in Jobs /\ seen[w] \in Nat
        /\ pc[w] \in {"ack", "failRead", "failWrite"} /\ NoWorker \notin Workers
    BY QueueAssumption DEF TypeOK, PoolTypeOK, Holding, Bookkeeping
  <2>1. ASSUME NEW v \in Workers, WorkerStep(v) PROVE jobs'[held[w]].owner # w
    <3>1. Ack(v) \/ FailWrite(v)
      BY <2>0, <2>1
      DEF WorkerStep, ClaimSelect, ClaimCommit, ClaimNothing, BackoffOver, ClearWake, WaitOver,
          RejectUnknownKind, StartHandler, EndHandler, FailRead, FailRowGone, Release
    <3>2. v = w
      BY <2>0, <3>1 DEF Ack, FailWrite, Proceed, Release
    <3> QED BY <2>0, <3>1, <3>2, StatementsEndLease DEF Ack, FailWrite
  <2>2. ASSUME NEW v \in Workers, ClaimError(v) \/ BookkeepingError(v) PROVE FALSE
    BY <2>0, <2>2 DEF ClaimError, BookkeepingError, Release
  <2>3. ASSUME NEW p \in Instances, Stop(p) PROVE FALSE
    <3>1. Shielded(w)
      BY DEF Shielded
    <3> QED BY <2>0, <2>3, <3>1 DEF Stop, EndTasks
  <2>4. ASSUME NEW p \in Instances, Crash(p) PROVE FALSE
    BY <2>4 DEF Crash, Fault
  <2>5. ASSUME NEW p \in Instances, Start(p) \/ Wake(p) PROVE FALSE
    BY <2>0, <2>5 DEF Start, Wake
  <2>6. ASSUME NEW j \in Jobs, Submit(j) \/ LeaseExpires(j) \/ RetryDue(j) \/ Erase(j)
        PROVE  FALSE
    BY <2>0, <2>6 DEF Submit, LeaseExpires, RetryDue, Erase, poolVars
  <2> QED BY <2>1, <2>2, <2>3, <2>4, <2>5, <2>6 DEF Next
<1> QED BY <1>1, TypeCorrect, LeaseColumnsAgree, PTL DEF Spec, StopStrandsNoFinishedJob

\* No statement but an erasure takes a row out of the table.
LEMMA StatementsKeepRows ==
  ASSUME TypeOK, NEW j \in Jobs, NEW i \in Jobs, jobs[i].status \in Stored
  PROVE  /\ Enqueue(j) => jobs'[i].status \in Stored
         /\ \A w \in Workers : LeaseRow(j, w) => jobs'[i].status \in Stored
         /\ AckRow(j) => jobs'[i].status \in Stored
         /\ \A s \in Nat : FailRow(j, s) => jobs'[i].status \in Stored
         /\ ExpireLease(j) \/ BackoffElapses(j) => jobs'[i].status \in Stored
<1>0. jobs[i] \in Row /\ jobs[j] \in Row /\ jobs \in [Jobs -> Row]
  BY DEF TypeOK, QueueTypeOK
<1>1. Enqueue(j) => jobs'[i].status \in Stored
  BY <1>0 DEF Enqueue, Stored
<1>2. ASSUME NEW w \in Workers, LeaseRow(j, w) PROVE jobs'[i].status \in Stored
  BY <1>0, <1>2 DEF LeaseRow, Row, Stored
<1>3. AckRow(j) => jobs'[i].status \in Stored
  BY <1>0 DEF AckRow, Row, Stored
<1>4. ASSUME NEW s \in Nat, FailRow(j, s) PROVE jobs'[i].status \in Stored
  <2>1. Failed(jobs[j], s).status \in Stored
    BY <1>0 DEF Failed, Row, Stored
  <2>2. jobs'[i] = IF i = j /\ Exists(j) THEN Failed(jobs[j], s) ELSE jobs[i]
    BY <1>0, <1>4 DEF FailRow
  <2> QED BY <2>1, <2>2
<1>5. ExpireLease(j) \/ BackoffElapses(j) => jobs'[i].status \in Stored
  BY <1>0 DEF ExpireLease, BackoffElapses, Row, Stored
<1> QED BY <1>1, <1>2, <1>3, <1>4, <1>5

\* While the database answers every ack and fail and nobody erases rows, what a
\* worker holds is in the table.
HeldRowsExist == \A w \in Workers : pc[w] \in Holding => Exists(held[w])

\* A worker task ends for the life of its process only when the database refuses
\* an ack or a fail, or when the row of a failed job was erased: crashes, stops,
\* claim errors and overrun leases end none (_worker_loop).
THEOREM WorkersDieOfTwoThings ==
  ASSUME Faults \cap {"bookkeeping", "erase"} = {}
  PROVE  Spec => []WorkersSurvive
<1> DEFINE Inv == HeldRowsExist /\ WorkersSurvive
<1>1. Init => Inv
  BY DEF Init, HeldRowsExist, WorkersSurvive, Holding, Bookkeeping
<1>2. TypeOK /\ TableInv /\ Inv /\ [Next]_vars => Inv'
  <2> SUFFICES ASSUME TypeOK, TableInv, HeldRowsExist, WorkersSurvive, [Next]_vars
               PROVE  HeldRowsExist' /\ WorkersSurvive'
    OBVIOUS
  <2>0. /\ pc \in [Workers -> PC] /\ held \in [Workers -> Jobs \cup {NoJob}]
        /\ jobs \in [Jobs -> Row]
        /\ \A w \in Workers : pc[w] \in Holding \cup {"locked"} => held[w] \in Jobs /\ seen[w] \in Nat
    BY DEF TypeOK, PoolTypeOK, QueueTypeOK
  <2>a. \A w \in Workers : pc[w] = "locked" => Exists(held[w])
    BY DEF TableInv, LockedRowsClaimable, Exists, Stored
  <2>b. ASSUME \A j \in Jobs : jobs[j].status \in Stored => jobs'[j].status \in Stored,
               \A w \in Workers :
                 /\ pc'[w] # "dead"
                 /\ pc'[w] \in Holding => pc[w] \in Holding \cup {"locked"} /\ held'[w] = held[w]
        PROVE  HeldRowsExist' /\ WorkersSurvive'
    BY <2>0, <2>a, <2>b DEF HeldRowsExist, WorkersSurvive, Exists
  <2>c. \A w \in Workers : pc[w] # "dead" /\ (pc[w] \in Holding => Exists(held[w]))
    BY DEF HeldRowsExist, WorkersSurvive
  <2>1. ASSUME NEW w \in Workers, WorkerStep(w) PROVE HeldRowsExist' /\ WorkersSurvive'
    <3>1. ~FailRowGone(w)
      BY <2>c DEF FailRowGone, Holding, Bookkeeping
    <3>2. \A j \in Jobs : jobs[j].status \in Stored => jobs'[j].status \in Stored
      <4>1. CASE ClaimCommit(w) \/ Ack(w) \/ FailWrite(w)
        <5>1. held[w] \in Jobs /\ seen[w] \in Nat
          BY <2>0, <4>1 DEF ClaimCommit, Ack, FailWrite, Holding, Bookkeeping
        <5> QED BY <4>1, <5>1, StatementsKeepRows DEF ClaimCommit, Ack, FailWrite
      <4>2. CASE UNCHANGED jobs
        BY <4>2
      <4> QED BY <2>1, <3>1, <4>1, <4>2
          DEF WorkerStep, ClaimSelect, ClaimNothing, BackoffOver, ClearWake, WaitOver,
              RejectUnknownKind, StartHandler, EndHandler, FailRead, queueVars
    <3>3. ASSUME NEW v \in Workers
          PROVE  /\ pc'[v] # "dead"
                 /\ pc'[v] \in Holding => pc[v] \in Holding \cup {"locked"} /\ held'[v] = held[v]
      BY <2>0, <2>1, <2>c, <3>1
      DEF WorkerStep, ClaimSelect, ClaimCommit, ClaimNothing, BackoffOver, ClearWake, WaitOver,
          RejectUnknownKind, StartHandler, EndHandler, Ack, FailRead, FailWrite, Proceed, Release,
          Holding, Bookkeeping
    <3> QED BY <2>b, <3>2, <3>3
  <2>2. ASSUME NEW w \in Workers, ClaimError(w) PROVE HeldRowsExist' /\ WorkersSurvive'
    <3>1. \A j \in Jobs : jobs[j].status \in Stored => jobs'[j].status \in Stored
      BY <2>0, <2>2, StatementsKeepRows DEF ClaimError
    <3>2. \A v \in Workers :
            /\ pc'[v] # "dead"
            /\ pc'[v] \in Holding => pc[v] \in Holding /\ held'[v] = held[v]
      BY <2>0, <2>2, <2>c DEF ClaimError, Release, Holding, Bookkeeping
    <3> QED BY <2>b, <3>1, <3>2
  <2>3. ASSUME NEW w \in Workers, BookkeepingError(w) PROVE FALSE
    BY <2>3 DEF BookkeepingError, Fault
  <2>4. ASSUME NEW p \in Instances, Stop(p) \/ Crash(p) \/ Start(p) \/ Wake(p)
        PROVE  HeldRowsExist' /\ WorkersSurvive'
    <3>1. UNCHANGED jobs
      BY <2>4 DEF Stop, Crash, Start, Wake, queueVars
    <3>2. \A v \in Workers :
            /\ pc'[v] # "dead"
            /\ pc'[v] \in Holding => pc[v] \in Holding /\ held'[v] = held[v]
      BY <2>0, <2>4, <2>c DEF Stop, Crash, Start, Wake, EndTasks, Holding, Bookkeeping
    <3> QED BY <2>b, <3>1, <3>2
  <2>5. ASSUME NEW j \in Jobs, Submit(j) \/ LeaseExpires(j) \/ RetryDue(j)
        PROVE  HeldRowsExist' /\ WorkersSurvive'
    <3>1. UNCHANGED <<pc, held>>
      BY <2>5 DEF Submit, LeaseExpires, RetryDue, poolVars
    <3>2. \A i \in Jobs : jobs[i].status \in Stored => jobs'[i].status \in Stored
      BY <2>5, StatementsKeepRows DEF Submit, LeaseExpires, RetryDue
    <3> QED BY <2>b, <2>c, <3>1, <3>2
  <2>6. ASSUME NEW j \in Jobs, Erase(j) PROVE FALSE
    BY <2>6 DEF Erase
  <2>7. CASE UNCHANGED vars
    BY <2>7, <2>b, <2>c DEF vars, queueVars, poolVars
  <2> QED BY <2>1, <2>2, <2>3, <2>4, <2>5, <2>6, <2>7 DEF Next
<1> QED BY <1>1, <1>2, TypeCorrect, TableInvariant, PTL DEF Spec

-----------------------------------------------------------------------------
(***************************************************************************)
(* When every lease outlasts the work done under it ("overrun" is not among *)
(* the faults), a job is in one worker's hands at a time, only its owner    *)
(* ends its lease, and the queue refines DurableQueue.                      *)
(***************************************************************************)

Timely == "overrun" \notin Faults

HoldersInv == ExclusiveHandling /\ HoldersOwnTheirLease

\* A step keeps the holders when nobody takes a job and no held row changes,
\* unless it is erased.
LEMMA HoldersKept ==
  ASSUME HoldersInv,
         \A v \in Workers : pc'[v] \in Holding =>
           /\ pc[v] \in Holding
           /\ held'[v] = held[v]
           /\ pc'[v] = "failWrite" => pc[v] = "failWrite" /\ seen'[v] = seen[v]
           /\ \/ jobs'[held[v]] = jobs[held[v]]
              \/ jobs'[held[v]].status = "erased"
  PROVE  HoldersInv'
<1>1. ExclusiveHandling'
  BY DEF HoldersInv, ExclusiveHandling
<1>2. ASSUME NEW v \in Workers, pc'[v] \in Holding
      PROVE  LET row == jobs'[held'[v]] IN
             /\ row.status # "absent"
             /\ row.status # "erased" =>
                  /\ row.status = "leased" /\ row.lease = "live" /\ row.owner = v
                  /\ pc'[v] = "failWrite" => seen'[v] = row.retry
  BY <1>2 DEF HoldersInv, HoldersOwnTheirLease
<1> QED BY <1>1, <1>2 DEF HoldersInv, HoldersOwnTheirLease

\* A locked row is nobody's job: it is queued, or its lease has run out.
LEMMA LockedRowUnheld ==
  ASSUME TableInv, HoldersInv, NEW v \in Workers, NEW w \in Workers,
         pc[v] = "locked", pc[w] \in Holding
  PROVE  held[v] # held[w]
  BY DEF TableInv, LockedRowsClaimable, HoldersInv, HoldersOwnTheirLease

\* The worker of an ack or a fail is its row's only holder, so a statement on
\* the row leaves the rows of all other holders alone.
LEMMA OthersUntouched ==
  ASSUME TypeOK, HoldersInv, NEW w \in Workers, pc[w] \in Holding,
         AckRow(held[w]) \/ FailRow(held[w], seen[w])
  PROVE  \A v \in Workers : v # w /\ pc[v] \in Holding => jobs'[held[v]] = jobs[held[v]]
<1>1. \A v \in Workers : pc[v] \in Holding => held[v] \in Jobs
  BY DEF TypeOK, PoolTypeOK
<1>2. \A v \in Workers : v # w /\ pc[v] \in Holding => held[v] # held[w]
  BY DEF HoldersInv, ExclusiveHandling
<1> QED BY <1>1, <1>2 DEF AckRow, FailRow, TypeOK, QueueTypeOK

LEMMA HoldersStep ==
  ASSUME Timely
  PROVE  TypeOK /\ TableInv /\ HoldersInv /\ [Next]_vars => HoldersInv'
<1> SUFFICES ASSUME TypeOK, TableInv, HoldersInv, [Next]_vars PROVE HoldersInv'
  OBVIOUS
<1>t. /\ \A w \in Workers : pc[w] \in Holding \cup {"locked"} => held[w] \in Jobs
      /\ pc \in [Workers -> PC] /\ held \in [Workers -> Jobs \cup {NoJob}]
      /\ seen \in [Workers -> Nat] /\ jobs \in [Jobs -> Row]
  BY DEF TypeOK, PoolTypeOK, QueueTypeOK
<1>1. ASSUME NEW w \in Workers, WorkerStep(w) PROVE HoldersInv'
  <2>1. CASE \/ ClaimSelect(w) \/ ClaimNothing(w) \/ BackoffOver(w) \/ ClearWake(w)
             \/ WaitOver(w) \/ RejectUnknownKind(w) \/ StartHandler(w) \/ EndHandler(w)
    <3>1. UNCHANGED <<jobs, seen>>
      BY <2>1 DEF ClaimSelect, ClaimNothing, BackoffOver, ClearWake, WaitOver,
                  RejectUnknownKind, StartHandler, EndHandler, queueVars
    <3>2. \A v \in Workers : pc'[v] \in Holding =>
            /\ pc[v] \in Holding /\ held'[v] = held[v]
            /\ pc'[v] = "failWrite" => pc[v] = "failWrite"
      BY <1>t, <2>1 DEF ClaimSelect, ClaimNothing, BackoffOver, ClearWake, WaitOver,
                        RejectUnknownKind, StartHandler, EndHandler, Holding, Bookkeeping
    <3> QED BY <3>1, <3>2, HoldersKept
  <2>2. CASE ClaimCommit(w)
    <3>1. /\ pc[w] = "locked" /\ held[w] \in Jobs /\ LeaseRow(held[w], w)
          /\ pc' = [pc EXCEPT ![w] = "claimed"] /\ UNCHANGED <<held, seen>>
      BY <1>t, <2>2 DEF ClaimCommit
    <3>2. \A v \in Workers : v # w /\ pc'[v] \in Holding =>
            /\ pc[v] = pc'[v] /\ held[v] # held[w] /\ held[v] \in Jobs
            /\ jobs'[held[v]] = jobs[held[v]]
      BY <1>t, <3>1, LockedRowUnheld DEF LeaseRow
    <3>3. /\ jobs'[held[w]].status = "leased" /\ jobs'[held[w]].lease = "live"
          /\ jobs'[held[w]].owner = w /\ pc'[w] = "claimed"
      BY <1>t, <3>1 DEF LeaseRow, Row
    <3>4. ExclusiveHandling'
      BY <3>1, <3>2 DEF HoldersInv, ExclusiveHandling
    <3>5. HoldersOwnTheirLease'
      BY <3>1, <3>2, <3>3 DEF HoldersInv, HoldersOwnTheirLease
    <3> QED BY <3>4, <3>5 DEF HoldersInv
  <2>3. CASE Ack(w) \/ FailWrite(w)
    <3>1. pc[w] \in Holding /\ (AckRow(held[w]) \/ FailRow(held[w], seen[w]))
      BY <2>3 DEF Ack, FailWrite, Holding, Bookkeeping
    <3>2. \A v \in Workers : pc'[v] \in Holding =>
            v # w /\ pc[v] = pc'[v] /\ held'[v] = held[v] /\ seen'[v] = seen[v]
      BY <1>t, <2>3 DEF Ack, FailWrite, Proceed, Release, Holding, Bookkeeping
    <3> QED BY <3>1, <3>2, OthersUntouched, HoldersKept
  <2>4. CASE FailRead(w)
    <3>1. /\ pc[w] \in Holding /\ held[w] \in Jobs /\ UNCHANGED <<jobs, held>>
          /\ seen' = [seen EXCEPT ![w] = jobs[held[w]].retry]
          /\ pc' = [pc EXCEPT ![w] = "failWrite"]
      BY <1>t, <2>4 DEF FailRead, Holding, Bookkeeping, queueVars
    <3>2. \A v \in Workers : pc'[v] \in Holding => pc[v] \in Holding
      BY <1>t, <3>1
    <3>3. ExclusiveHandling'
      BY <3>1, <3>2 DEF HoldersInv, ExclusiveHandling
    <3>4. HoldersOwnTheirLease'
      BY <1>t, <3>1, <3>2 DEF HoldersInv, HoldersOwnTheirLease
    <3> QED BY <3>3, <3>4 DEF HoldersInv
  <2>5. CASE FailRowGone(w)
    <3>1. UNCHANGED jobs
      BY <2>5 DEF FailRowGone, queueVars
    <3>2. \A v \in Workers : pc'[v] \in Holding =>
            pc[v] = pc'[v] /\ held'[v] = held[v] /\ seen'[v] = seen[v]
      BY <1>t, <2>5 DEF FailRowGone, Release, Holding, Bookkeeping
    <3> QED BY <3>1, <3>2, HoldersKept
  <2> QED
    BY <1>1, <2>1, <2>2, <2>3, <2>4, <2>5 DEF WorkerStep
<1>2. ASSUME NEW w \in Workers, ClaimError(w) PROVE HoldersInv'
  <2>1. \A v \in Workers : pc'[v] \in Holding =>
          pc[v] = pc'[v] /\ held'[v] = held[v] /\ seen'[v] = seen[v]
    BY <1>t, <1>2 DEF ClaimError, Release, Holding, Bookkeeping
  <2>2. CASE UNCHANGED jobs
    BY <2>1, <2>2, HoldersKept
  <2>3. CASE pc[w] = "locked" /\ LeaseRow(held[w], w)
    <3>1. \A v \in Workers : pc[v] \in Holding => jobs'[held[v]] = jobs[held[v]]
      BY <1>t, <2>3, LockedRowUnheld DEF LeaseRow
    <3> QED BY <2>1, <3>1, HoldersKept
  <2> QED BY <1>2, <2>2, <2>3 DEF ClaimError
<1>3. ASSUME NEW w \in Workers, BookkeepingError(w) PROVE HoldersInv'
  <2>1. pc[w] \in Holding
    BY <1>3 DEF BookkeepingError, Holding
  <2>2. \A v \in Workers : pc'[v] \in Holding =>
          v # w /\ pc[v] = pc'[v] /\ held'[v] = held[v] /\ seen'[v] = seen[v]
    BY <1>t, <1>3 DEF BookkeepingError, Release, Holding, Bookkeeping
  <2>3. UNCHANGED jobs \/ AckRow(held[w]) \/ FailRow(held[w], seen[w])
    BY <1>3 DEF BookkeepingError
  <2> QED BY <2>1, <2>2, <2>3, OthersUntouched, HoldersKept
<1>4. ASSUME NEW p \in Instances, Stop(p) \/ Crash(p) \/ Start(p) \/ Wake(p) PROVE HoldersInv'
  <2>1. UNCHANGED jobs
    BY <1>4 DEF Stop, Crash, Start, Wake, queueVars
  <2>2. \A v \in Workers : pc'[v] \in Holding =>
          pc[v] = pc'[v] /\ held'[v] = held[v] /\ seen'[v] = seen[v]
    BY <1>t, <1>4 DEF Stop, Crash, Start, Wake, EndTasks, Holding, Bookkeeping
  <2> QED BY <2>1, <2>2, HoldersKept
<1>5. ASSUME NEW j \in Jobs, Submit(j) \/ LeaseExpires(j) \/ RetryDue(j) \/ Erase(j)
      PROVE  HoldersInv'
  <2>1. UNCHANGED <<pc, held, seen>>
    BY <1>5 DEF Submit, LeaseExpires, RetryDue, Erase, poolVars
  <2>2. ASSUME NEW v \in Workers, pc[v] \in Holding
        PROVE  jobs'[held[v]] = jobs[held[v]] \/ jobs'[held[v]].status = "erased"
    <3>1. held[v] \in Jobs /\ jobs[held[v]].status \in {"leased", "erased"}
      BY <1>t, <2>2 DEF HoldersInv, HoldersOwnTheirLease
    <3>2. CASE Submit(j)
      BY <1>t, <3>1, <3>2 DEF Submit, Enqueue
    <3>3. CASE LeaseExpires(j)
      <4>1. j # held[v]
        BY <2>2, <3>3 DEF LeaseExpires, Timely, Holds
      <4> QED BY <1>t, <3>1, <3>3, <4>1 DEF LeaseExpires, ExpireLease
    <3>4. CASE RetryDue(j)
      BY <1>t, <3>1, <3>4 DEF RetryDue, BackoffElapses
    <3>5. CASE Erase(j)
      BY <1>t, <3>1, <3>5 DEF Erase, EraseRow, NoRow
    <3> QED BY <1>5, <3>2, <3>3, <3>4, <3>5
  <2> QED BY <2>1, <2>2, HoldersKept
<1>6. CASE UNCHANGED vars
  BY <1>6, HoldersKept DEF vars, queueVars, poolVars
<1> QED
  BY <1>1, <1>2, <1>3, <1>4, <1>5, <1>6 DEF Next

LEMMA HoldersInvariant ==
  ASSUME Timely
  PROVE  Spec => []HoldersInv
<1>1. Init => HoldersInv
  BY DEF Init, HoldersInv, ExclusiveHandling, HoldersOwnTheirLease, Holding, Bookkeeping
<1> QED
  BY <1>1, HoldersStep, TypeCorrect, TableInvariant, PTL DEF Spec

\* No job is in the hands of two workers, of whatever instance, as long as
\* leases outlast the work (JobQueue.claim, WorkerPool._run_job).
THEOREM NoTwoHolders ==
  ASSUME Timely
  PROVE  Spec => []ExclusiveHandling
<1>1. HoldersInv => ExclusiveHandling
  BY DEF HoldersInv
<1> QED BY <1>1, HoldersInvariant, PTL

-----------------------------------------------------------------------------

\* The only steps that take a live lease off a row are the ack and the fail of
\* its owner.
LEMMA LeaseEndedByOwner ==
  ASSUME TypeOK, TableInv, HoldersInv, [Next]_vars,
         NEW j \in Jobs, jobs[j].status = "leased", jobs[j].lease = "live",
         jobs'[j].status \in {"queued", "done", "failed"}
  PROVE  LET w == jobs[j].owner IN
         Holds(w, j) /\ pc[w] \in {"ack", "failWrite"} /\ pc'[w] # pc[w]
<1>t. /\ \A w \in Workers : pc[w] \in Holding \cup {"locked"} => held[w] \in Jobs
      /\ pc \in [Workers -> PC] /\ jobs \in [Jobs -> Row]
  BY DEF TypeOK, PoolTypeOK, QueueTypeOK
<1>1. ASSUME NEW w \in Workers, pc[w] \in {"ack", "failWrite"}, held[w] = j, pc'[w] # pc[w]
      PROVE  LET v == jobs[j].owner IN
             Holds(v, j) /\ pc[v] \in {"ack", "failWrite"} /\ pc'[v] # pc[v]
  BY <1>1 DEF HoldersInv, HoldersOwnTheirLease, Holds, Holding, Bookkeeping
<1>2. ASSUME NEW w \in Workers, WorkerStep(w)
      PROVE  pc[w] \in {"ack", "failWrite"} /\ held[w] = j /\ pc'[w] # pc[w]
  <2>1. CASE \/ ClaimSelect(w) \/ ClaimNothing(w) \/ BackoffOver(w) \/ ClearWake(w)
             \/ WaitOver(w) \/ RejectUnknownKind(w) \/ StartHandler(w) \/ EndHandler(w)
             \/ FailRead(w) \/ FailRowGone(w)
    BY <2>1 DEF ClaimSelect, ClaimNothing, BackoffOver, ClearWake, WaitOver,
                RejectUnknownKind, StartHandler, EndHandler, FailRead, FailRowGone, queueVars
  <2>2. CASE ClaimCommit(w)
    BY <1>t, <2>2 DEF ClaimCommit, LeaseRow, Row
  <2>3. CASE Ack(w)
    BY <1>t, <2>3 DEF Ack, AckRow, Proceed, Release
  <2>4. CASE FailWrite(w)
    BY <1>t, <2>4 DEF FailWrite, FailRow, Proceed, Release
  <2> QED
    BY <1>2, <2>1, <2>2, <2>3, <2>4 DEF WorkerStep
<1>3. ASSUME NEW w \in Workers, ClaimError(w) PROVE FALSE
  <2>1. jobs'[j].status = "leased"
    BY <1>t, <1>3 DEF ClaimError, LeaseRow, Row
  <2> QED BY <2>1
<1>4. ASSUME NEW w \in Workers, BookkeepingError(w)
      PROVE  pc[w] \in {"ack", "failWrite"} /\ held[w] = j /\ pc'[w] # pc[w]
  BY <1>t, <1>4 DEF BookkeepingError, AckRow, FailRow, Release
<1>5. ASSUME NEW p \in Instances, Stop(p) \/ Crash(p) \/ Start(p) \/ Wake(p) PROVE FALSE
  BY <1>5 DEF Stop, Crash, Start, Wake, queueVars
<1>6. ASSUME NEW i \in Jobs, Submit(i) \/ LeaseExpires(i) \/ RetryDue(i) \/ Erase(i)
      PROVE  FALSE
  BY <1>t, <1>6 DEF Submit, Enqueue, LeaseExpires, ExpireLease, RetryDue, BackoffElapses,
                    Erase, EraseRow, NoRow, Row
<1>7. CASE UNCHANGED vars
  BY <1>7 DEF vars, queueVars
<1> QED
  BY <1>1, <1>2, <1>3, <1>4, <1>5, <1>6, <1>7 DEF Next

\* A late ack or fail never ends another worker's lease, as long as leases
\* outlast the work (JobQueue.ack and fail check neither owner nor status).
THEOREM LateAnswersHarmless ==
  ASSUME Timely
  PROVE  Spec => OnlyOwnerEndsLease
<1> DEFINE Step == \A j \in Jobs :
       /\ jobs[j].status = "leased"
       /\ jobs[j].lease = "live"
       /\ jobs'[j].status \in {"queued", "done", "failed"}
       => LET w == jobs[j].owner IN Holds(w, j) /\ pc[w] \in {"ack", "failWrite"} /\ pc'[w] # pc[w]
<1>1. TypeOK /\ TableInv /\ HoldersInv /\ [Next]_vars => [Step]_vars
  BY LeaseEndedByOwner
<1> QED
  BY <1>1, TypeCorrect, TableInvariant, HoldersInvariant, PTL DEF Spec, OnlyOwnerEndsLease

-----------------------------------------------------------------------------
(***************************************************************************)
(* The refinement of DurableQueue.                                         *)
(***************************************************************************)

OutcomeOf  == [j \in Jobs |-> Outcome(jobs[j])]
AttemptsOf == [j \in Jobs |-> jobs[j].retry]

\* A statement on one row changes the mapped state of that job only.
LEMMA OneRowMapped ==
  ASSUME TypeOK, NEW j \in Jobs, NEW row, jobs' = [jobs EXCEPT ![j] = row]
  PROVE  /\ OutcomeOf' = [OutcomeOf EXCEPT ![j] = Outcome(row)]
         /\ AttemptsOf' = [AttemptsOf EXCEPT ![j] = row.retry]
  BY DEF TypeOK, QueueTypeOK, OutcomeOf, AttemptsOf

\* A statement that leaves outcome and retry_count of its row as they are is a
\* stuttering step of the promised queue.
LEMMA RowStutters ==
  ASSUME TypeOK, NEW j \in Jobs, NEW row, jobs' = [jobs EXCEPT ![j] = row],
         Outcome(row) = Outcome(jobs[j]), row.retry = jobs[j].retry
  PROVE  UNCHANGED <<OutcomeOf, AttemptsOf>>
<1>1. \A i \in Jobs : jobs'[i] = IF i = j THEN row ELSE jobs[i]
  BY DEF TypeOK, QueueTypeOK
<1>2. \A i \in Jobs : Outcome(jobs'[i]) = Outcome(jobs[i]) /\ jobs'[i].retry = jobs[i].retry
  BY <1>1
<1> QED BY <1>2 DEF OutcomeOf, AttemptsOf

\* The promised queue takes a step when one of its jobs does.
LEMMA PromisedStep ==
  ASSUME NEW j \in Jobs,
         Promised!Admit(j) \/ Promised!Complete(j) \/ Promised!Miss(j) \/ Promised!Erase(j)
  PROVE  Promised!Next
  BY DEF Promised!Next

\* An ack of the row's holder completes the job, or finds the row erased.
LEMMA AckMapped ==
  ASSUME TypeOK, HoldersInv, NEW w \in Workers, pc[w] \in Holding, AckRow(held[w])
  PROVE  Promised!Next \/ UNCHANGED <<OutcomeOf, AttemptsOf>>
<1>1. held[w] \in Jobs /\ jobs[held[w]] \in Row
  BY DEF TypeOK, PoolTypeOK, QueueTypeOK
<1>2. CASE ~Exists(held[w])
  BY <1>2 DEF AckRow, OutcomeOf, AttemptsOf
<1>3. CASE Exists(held[w])
  <2> DEFINE row == [jobs[held[w]] EXCEPT !.status = "done", !.lease = "none", !.owner = NoWorker]
  <2>1. jobs' = [jobs EXCEPT ![held[w]] = row]
    BY <1>3 DEF AckRow
  <2>2. Outcome(row) = "done" /\ row.retry = jobs[held[w]].retry
    BY <1>1 DEF Outcome, Row
  <2>3. jobs[held[w]].status = "leased"
    BY <1>3 DEF Exists, Stored, HoldersInv, HoldersOwnTheirLease
  <2>4. OutcomeOf[held[w]] = "pending"
    BY <1>1, <2>3 DEF OutcomeOf, Outcome
  <2>5. OutcomeOf' = [OutcomeOf EXCEPT ![held[w]] = "done"]
    <3> HIDE DEF row
    <3>1. OutcomeOf' = [OutcomeOf EXCEPT ![held[w]] = Outcome(row)]
      BY <1>1, <2>1, OneRowMapped
    <3> QED BY <2>2, <3>1
  <2>6. UNCHANGED AttemptsOf
    <3> HIDE DEF row
    <3>1. AttemptsOf' = [AttemptsOf EXCEPT ![held[w]] = row.retry]
      BY <1>1, <2>1, OneRowMapped
    <3> QED BY <1>1, <2>2, <3>1 DEF AttemptsOf
  <2> HIDE DEF row
  <2>7. Promised!Complete(held[w])
    BY <2>4, <2>5, <2>6 DEF Promised!Complete, OutcomeOf, AttemptsOf
  <2> QED BY <1>1, <2>7, PromisedStep
<1> QED BY <1>2, <1>3

\* The fail of the row's holder is one missed attempt of the job.
LEMMA FailMapped ==
  ASSUME TypeOK, TableInv, HoldersInv, NEW w \in Workers, pc[w] = "failWrite",
         FailRow(held[w], seen[w])
  PROVE  Promised!Next \/ UNCHANGED <<OutcomeOf, AttemptsOf>>
<1>1. held[w] \in Jobs /\ jobs[held[w]] \in Row /\ pc[w] \in Holding /\ jobs[held[w]].retry \in Nat
  BY DEF TypeOK, PoolTypeOK, QueueTypeOK, Holding, Bookkeeping, Row
<1>2. CASE ~Exists(held[w])
  BY <1>2 DEF FailRow, OutcomeOf, AttemptsOf
<1>3. CASE Exists(held[w])
  <2> DEFINE row == Failed(jobs[held[w]], seen[w])
  <2>1. jobs' = [jobs EXCEPT ![held[w]] = row]
    BY <1>3 DEF FailRow
  <2>2. jobs[held[w]].status = "leased" /\ seen[w] = jobs[held[w]].retry
    BY <1>1, <1>3 DEF Exists, Stored, HoldersInv, HoldersOwnTheirLease
  <2>3. jobs[held[w]].retry < MaxRetries
    BY <1>1, <2>2 DEF TableInv, RetryBudget
  <2>4. row.retry = jobs[held[w]].retry + 1
    BY <1>1, <2>2 DEF Failed, Row
  <2>5. Outcome(row) = IF jobs[held[w]].retry + 1 = MaxRetries THEN "failed" ELSE "pending"
    <3>1. CASE jobs[held[w]].retry + 1 >= MaxRetries
      <4>1. row.status = "failed"
        BY <1>1, <2>2, <3>1 DEF Failed, Row
      <4> HIDE DEF row
      <4> QED BY <1>1, <2>3, <3>1, <4>1, QueueAssumption DEF Outcome
    <3>2. CASE ~(jobs[held[w]].retry + 1 >= MaxRetries)
      <4>1. row.status = "queued"
        BY <1>1, <2>2, <3>2 DEF Failed, Row
      <4> HIDE DEF row
      <4> QED BY <1>1, <3>2, <4>1, QueueAssumption DEF Outcome
    <3> QED BY <3>1, <3>2
  <2>6. OutcomeOf[held[w]] = "pending" /\ AttemptsOf[held[w]] = jobs[held[w]].retry
    BY <1>1, <2>2 DEF OutcomeOf, AttemptsOf, Outcome
  <2> HIDE DEF row
  <2>7. /\ OutcomeOf' = [OutcomeOf EXCEPT ![held[w]] = Outcome(row)]
        /\ AttemptsOf' = [AttemptsOf EXCEPT ![held[w]] = row.retry]
    BY <1>1, <2>1, OneRowMapped
  <2>j. PICK j \in Jobs : j = held[w]
    BY <1>1
  <2>8. Promised!Miss(j)
    BY <1>1, <2>j, <2>4, <2>5, <2>6, <2>7 DEF Promised!Miss, OutcomeOf, AttemptsOf
  <2> QED BY <2>8, PromisedStep
<1> QED BY <1>2, <1>3

\* A claim changes neither outcome nor count: the job was pending and still is.
LEMMA LeaseMapped ==
  ASSUME TypeOK, TableInv, NEW w \in Workers, pc[w] = "locked", LeaseRow(held[w], w)
  PROVE  UNCHANGED <<OutcomeOf, AttemptsOf>>
<1>1. held[w] \in Jobs /\ jobs[held[w]] \in Row
  BY DEF TypeOK, PoolTypeOK, QueueTypeOK
<1> DEFINE row == [jobs[held[w]] EXCEPT !.status = "leased", !.lease = "live", !.owner = w]
<1>2. jobs' = [jobs EXCEPT ![held[w]] = row]
  BY DEF LeaseRow
<1>3. Outcome(row) = "pending" /\ row.retry = jobs[held[w]].retry
  BY <1>1 DEF Outcome, Row
<1>4. Outcome(jobs[held[w]]) = "pending"
  BY DEF TableInv, LockedRowsClaimable, Outcome
<1> HIDE DEF row
<1> QED BY <1>1, <1>2, <1>3, <1>4, RowStutters

\* Every step is a step of the promised queue, or a stuttering one.
LEMMA StepMapped ==
  ASSUME TypeOK, TableInv, HoldersInv, [Next]_vars
  PROVE  Promised!Next \/ UNCHANGED <<OutcomeOf, AttemptsOf>>
<1>s. UNCHANGED jobs => UNCHANGED <<OutcomeOf, AttemptsOf>>
  BY DEF OutcomeOf, AttemptsOf
<1>1. ASSUME NEW w \in Workers, WorkerStep(w)
      PROVE  Promised!Next \/ UNCHANGED <<OutcomeOf, AttemptsOf>>
  <2>1. CASE \/ ClaimSelect(w) \/ ClaimNothing(w) \/ BackoffOver(w) \/ ClearWake(w)
             \/ WaitOver(w) \/ RejectUnknownKind(w) \/ StartHandler(w) \/ EndHandler(w)
             \/ FailRead(w) \/ FailRowGone(w)
    BY <1>s, <2>1 DEF ClaimSelect, ClaimNothing, BackoffOver, ClearWake, WaitOver,
                RejectUnknownKind, StartHandler, EndHandler, FailRead, FailRowGone, queueVars
  <2>2. CASE ClaimCommit(w)
    BY <2>2, LeaseMapped DEF ClaimCommit
  <2>3. CASE Ack(w)
    BY <2>3, AckMapped DEF Ack, Holding, Bookkeeping
  <2>4. CASE FailWrite(w)
    BY <2>4, FailMapped DEF FailWrite
  <2> QED
    BY <1>1, <2>1, <2>2, <2>3, <2>4 DEF WorkerStep
<1>2. ASSUME NEW w \in Workers, ClaimError(w)
      PROVE  UNCHANGED <<OutcomeOf, AttemptsOf>>
  BY <1>s, <1>2, LeaseMapped DEF ClaimError
<1>3. ASSUME NEW w \in Workers, BookkeepingError(w)
      PROVE  Promised!Next \/ UNCHANGED <<OutcomeOf, AttemptsOf>>
  BY <1>s, <1>3, AckMapped, FailMapped DEF BookkeepingError, Holding, Bookkeeping
<1>4. ASSUME NEW p \in Instances, Stop(p) \/ Crash(p) \/ Start(p) \/ Wake(p)
      PROVE  UNCHANGED <<OutcomeOf, AttemptsOf>>
  BY <1>s, <1>4 DEF Stop, Crash, Start, Wake, queueVars
<1>5. ASSUME NEW j \in Jobs, Submit(j) \/ LeaseExpires(j) \/ RetryDue(j) \/ Erase(j)
      PROVE  Promised!Next \/ UNCHANGED <<OutcomeOf, AttemptsOf>>
  <2>r. jobs[j] \in Row /\ OutcomeOf[j] = Outcome(jobs[j])
    BY DEF TypeOK, QueueTypeOK, OutcomeOf
  <2>1. CASE Submit(j)
    <3>1. jobs' = [jobs EXCEPT ![j] = [NoRow EXCEPT !.status = "queued"]]
      BY <2>1 DEF Submit, Enqueue
    <3>2. Outcome([NoRow EXCEPT !.status = "queued"]) = "pending"
      BY DEF Outcome, NoRow
    <3>3. OutcomeOf[j] = "absent"
      BY <2>r, <2>1 DEF Submit, Enqueue, Outcome
    <3>4. [NoRow EXCEPT !.status = "queued"].retry = 0
      BY DEF NoRow
    <3>5. /\ OutcomeOf' = [OutcomeOf EXCEPT ![j] = "pending"]
          /\ AttemptsOf' = [AttemptsOf EXCEPT ![j] = 0]
      BY <3>1, <3>2, <3>4, OneRowMapped
    <3>6. Promised!Admit(j)
      BY <3>3, <3>5 DEF Promised!Admit, OutcomeOf, AttemptsOf
    <3> QED BY <3>6, PromisedStep
  <2>2. CASE LeaseExpires(j)
    <3>1. jobs' = [jobs EXCEPT ![j] = [jobs[j] EXCEPT !.lease = "expired"]]
      BY <2>2 DEF LeaseExpires, ExpireLease
    <3> QED BY <2>r, <3>1, RowStutters DEF Outcome, Row
  <2>3. CASE RetryDue(j)
    <3>1. jobs' = [jobs EXCEPT ![j] = [jobs[j] EXCEPT !.due = TRUE]]
      BY <2>3 DEF RetryDue, BackoffElapses
    <3> QED BY <2>r, <3>1, RowStutters DEF Outcome, Row
  <2>4. CASE Erase(j)
    <3>1. jobs' = [jobs EXCEPT ![j] = [NoRow EXCEPT !.status = "erased"]]
      BY <2>4 DEF Erase, EraseRow
    <3>2. /\ Outcome([NoRow EXCEPT !.status = "erased"]) = "erased"
          /\ [NoRow EXCEPT !.status = "erased"].retry = 0
      BY DEF Outcome, NoRow
    <3>3. OutcomeOf[j] \in {"pending", "done", "failed"}
      BY <2>r, <2>4 DEF Erase, EraseRow, Exists, Stored, Outcome
    <3>4. /\ OutcomeOf' = [OutcomeOf EXCEPT ![j] = "erased"]
          /\ AttemptsOf' = [AttemptsOf EXCEPT ![j] = 0]
      BY <3>1, <3>2, OneRowMapped
    <3>5. Promised!Erase(j)
      BY <3>3, <3>4 DEF Promised!Erase, OutcomeOf, AttemptsOf
    <3> QED BY <3>5, PromisedStep
  <2> QED BY <1>5, <2>1, <2>2, <2>3, <2>4
<1>6. CASE UNCHANGED vars
  BY <1>s, <1>6 DEF vars, queueVars
<1> QED
  BY <1>1, <1>2, <1>3, <1>4, <1>5, <1>6 DEF Next

\* The table, its statements and the worker pools implement the promised queue:
\* done and failed are final, and a job fails after exactly MaxRetries attempts.
THEOREM PromiseKept ==
  ASSUME Timely
  PROVE  Spec => QueuePromise
<1>1. Init => Promised!Init
  BY DEF Init, QueueInit, NoRow, Outcome, Promised!Init
<1>2. TypeOK /\ TableInv /\ HoldersInv /\ [Next]_vars => [Promised!Next]_(Promised!vars)
  BY StepMapped DEF Promised!vars, OutcomeOf, AttemptsOf
<1> QED
  BY <1>1, <1>2, TypeCorrect, TableInvariant, HoldersInvariant, PTL
  DEF Spec, QueuePromise, Promised!Spec
=============================================================================
