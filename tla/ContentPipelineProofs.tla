------------------------ MODULE ContentPipelineProofs ------------------------
(***************************************************************************)
(* Proofs about the way from a posted document to its jobs, for any number *)
(* of chunks, entities, requests and runs, and under every fault; the text *)
(* of a document has its proofs in DocumentTextProofs.                     *)
(***************************************************************************)
EXTENDS ContentPipelineProperties, DocumentTextProofs, SequenceTheorems, TLAPS

-----------------------------------------------------------------------------
(***************************************************************************)
(* Type correctness, in parts that few actions touch.                      *)
(***************************************************************************)

StoreTyped == row \in [Chunks -> Lifecycle] /\ vault \subseteq Chunks /\ links \subseteq Chunks \X Entities

QueueTyped ==
  /\ jobState \in [JobIds -> {"absent", "pending", "done", "failed"}]
  /\ attempts \in [JobIds -> 0..MaxRetries]
  /\ AttemptsLeft

RequestsTyped ==
  /\ pc \in [Requests -> {"idle", "insert", "commit", "unlink", "enqueue"}]
  /\ left \in [Requests -> Seq(SUBSET Chunks)]
  /\ fresh \in [Requests -> SUBSET Chunks]
  /\ begun \in Nat
  /\ \A q \in Requests : pc[q] = "idle" <=> left[q] = <<>>

RunsTyped ==
  /\ stage \in [Runs -> {"idle", "model", "follow"}]
  /\ chunk \in [Runs -> Chunks \cup {0}]
  /\ todo \in [Runs -> Seq(JobIds)]
  /\ \A r \in Runs : stage[r] = "idle" <=> chunk[r] = 0

FaultsTyped == faults \in [AllFaults -> Nat]

Typed == StoreTyped /\ QueueTyped /\ RequestsTyped /\ RunsTyped /\ FaultsTyped

LEMMA TypedParts == Typed <=> TypeOK /\ AttemptsLeft
BY DEF Typed, StoreTyped, QueueTyped, RequestsTyped, RunsTyped, FaultsTyped, TypeOK

\* What a step leaves alone keeps its type.
LEMMA PartsKept ==
  ASSUME Typed
  PROVE  /\ UNCHANGED storeVars => StoreTyped'
         /\ UNCHANGED queueVars => QueueTyped'
         /\ UNCHANGED requestVars => RequestsTyped'
         /\ UNCHANGED runVars => RunsTyped'
         /\ UNCHANGED faults => FaultsTyped'
BY DEF Typed, StoreTyped, QueueTyped, RequestsTyped, RunsTyped, FaultsTyped, AttemptsLeft,
       storeVars, queueVars, requestVars, runVars

LEMMA JobsAreIds ==
  /\ \A c \in Chunks : Extract(c) \in JobIds /\ Append_(c) \in JobIds
  /\ \A c \in Chunks, e \in Entities : Topic(c, e) \in JobIds
BY DEF JobIds

LEMMA NumChunksNat == 0 \notin Chunks /\ Chunks \subseteq Nat
BY PipelineAssumption DEF Chunks

\* Whatever happens to a job, an attempt is left while it is pending.
LEMMA JobStep ==
  ASSUME Typed, NEW j \in JobIds, Queue!Admit(j) \/ Queue!Complete(j) \/ Queue!Miss(j)
  PROVE  QueueTyped'
<1> USE PipelineAssumption DEF Typed, QueueTyped, AttemptsLeft
<1>1. CASE Queue!Admit(j)
  BY <1>1 DEF Queue!Admit
<1>2. CASE Queue!Complete(j)
  BY <1>2 DEF Queue!Complete
<1>3. CASE Queue!Miss(j)
  <2>1. attempts[j] \in Nat /\ attempts[j] + 1 <= MaxRetries /\ MaxRetries \in Nat
    BY <1>3 DEF Queue!Miss
  <2> QED BY <1>3, <2>1 DEF Queue!Miss
<1> QED BY <1>1, <1>2, <1>3

LEMMA EnqueueTyped ==
  ASSUME Typed, NEW j \in JobIds, Enqueue(j) PROVE QueueTyped'
BY JobStep, PartsKept DEF Enqueue

LEMMA FaultTyped ==
  ASSUME Typed, NEW kind, Fault(kind) PROVE FaultsTyped' /\ kind \in AllFaults
BY PipelineAssumption DEF Typed, FaultsTyped, Fault

LEMMA EndRequestTyped ==
  ASSUME Typed, NEW q \in Requests, EndRequest(q), UNCHANGED begun PROVE RequestsTyped'
BY DEF Typed, RequestsTyped, EndRequest

LEMMA EndRunTyped ==
  ASSUME Typed, NEW r \in Runs, EndRun(r) PROVE RunsTyped'
BY DEF Typed, RunsTyped, EndRun

LEMMA InitTyped == Init => Typed
<1> SUFFICES ASSUME Init PROVE Typed
  OBVIOUS
<1>1. StoreTyped /\ RequestsTyped /\ FaultsTyped
  BY DEF Init, StoreTyped, RequestsTyped, FaultsTyped, Lifecycle
<1>2. QueueTyped
  BY PipelineAssumption DEF Init, Queue!Init, QueueTyped, AttemptsLeft
<1>3. RunsTyped
  BY DEF Init, RunsTyped
<1> QED BY <1>1, <1>2, <1>3 DEF Typed

LEMMA RequestNextTyped ==
  ASSUME Typed, NEW q \in Requests,
         BeginIngest(q) \/ RequestStep(q) \/ DiskFull(q) \/ CommitFails(q) \/ IngestDies(q)
  PROVE  Typed'
<1> USE DEF storeVars, queueVars, requestVars, runVars
<1>0. /\ pc \in [Requests -> {"idle", "insert", "commit", "unlink", "enqueue"}]
      /\ left \in [Requests -> Seq(SUBSET Chunks)] /\ fresh \in [Requests -> SUBSET Chunks]
      /\ \A s \in Requests : pc[s] = "idle" <=> left[s] = <<>>
      /\ row \in [Chunks -> Lifecycle] /\ vault \subseteq Chunks /\ links \subseteq Chunks \X Entities
  BY DEF Typed, StoreTyped, RequestsTyped
<1>1. CASE BeginIngest(q)
  <2>1. PICK p \in Payloads \ {<<>>} : left' = [left EXCEPT ![q] = p]
    BY <1>1 DEF BeginIngest
  <2>2. p \in Seq(SUBSET Chunks) /\ p # <<>>
    BY <2>1, PipelineAssumption
  <2>3. RequestsTyped'
    BY <1>1, <2>1, <2>2 DEF BeginIngest, Typed, RequestsTyped
  <2> QED BY <1>1, <2>3, PartsKept DEF BeginIngest, Typed
<1>2. CASE Insert(q)
  <2>1. left[q] # <<>> /\ Head(left[q]) \subseteq Chunks
    BY <1>0, <1>2 DEF Insert, MayInsert
  <2>2. Inserted(q) \subseteq Chunks
    BY <2>1 DEF Inserted
  <2>3. StoreTyped' /\ RequestsTyped'
    BY <1>2, <2>1, <2>2 DEF Insert, Typed, StoreTyped, RequestsTyped
  <2> QED BY <1>2, <2>3, PartsKept DEF Insert, Typed
<1>3. CASE DiskFull(q)
  <2>1. left[q] # <<>> /\ Head(left[q]) \subseteq Chunks /\ pc[q] = "insert"
    BY <1>0, <1>3 DEF DiskFull, MayInsert
  <2>2. Inserted(q) \subseteq Chunks
    BY <2>1 DEF Inserted
  <2>3. StoreTyped' /\ RequestsTyped'
    BY <1>3, <2>1, <2>2 DEF DiskFull, Typed, StoreTyped, RequestsTyped
  <2> QED BY <1>3, <2>3, PartsKept, FaultTyped DEF DiskFull, Typed
<1>4. CASE Commit(q) \/ CommitFails(q)
  <2>1. StoreTyped' /\ RequestsTyped'
    BY <1>0, <1>4 DEF Commit, CommitFails, CommitRows, Typed, StoreTyped, RequestsTyped, Lifecycle
  <2>2. FaultsTyped'
    BY <1>4, PartsKept, FaultTyped DEF Commit, CommitFails
  <2> QED BY <1>4, <2>1, <2>2, PartsKept DEF Commit, CommitFails, Typed
<1>5. CASE Unlink(q)
  <2>1. StoreTyped'
    BY <1>0, <1>5 DEF Unlink, StoreTyped
  <2> QED BY <1>5, <2>1, EndRequestTyped, PartsKept DEF Unlink, Typed
<1>6. CASE EnqueueExtract(q)
  <2>1. PICK c \in fresh[q] : Enqueue(Extract(c)) /\ fresh' = [fresh EXCEPT ![q] = @ \ {c}]
    BY <1>6 DEF EnqueueExtract
  <2>2. QueueTyped'
    BY <1>0, <2>1, JobsAreIds, EnqueueTyped
  <2>3. RequestsTyped'
    BY <1>6, <2>1 DEF EnqueueExtract, Typed, RequestsTyped
  <2> QED BY <1>6, <2>2, <2>3, PartsKept DEF EnqueueExtract, Typed
<1>7. CASE NextDocument(q)
  <2>1. left[q] \in Seq(SUBSET Chunks) /\ left[q] # <<>>
    BY <1>0, <1>7 DEF NextDocument
  <2>2. Tail(left[q]) \in Seq(SUBSET Chunks) /\ (Tail(left[q]) = <<>> <=> Len(left[q]) = 1)
    <3>1. /\ Tail(left[q]) \in Seq(SUBSET Chunks) /\ Len(Tail(left[q])) = Len(left[q]) - 1
          /\ Len(left[q]) \in Nat
      BY <2>1, HeadTailProperties
    <3>2. Tail(left[q]) = <<>> <=> Len(Tail(left[q])) = 0
      BY <3>1, EmptySeq
    <3> QED BY <3>1, <3>2
  <2>3. RequestsTyped'
    BY <1>7, <2>1, <2>2 DEF NextDocument, Typed, RequestsTyped
  <2> QED BY <1>7, <2>3, PartsKept DEF NextDocument, Typed
<1>8. CASE IngestDies(q)
  BY <1>8, EndRequestTyped, FaultTyped, PartsKept DEF IngestDies, Typed
<1> QED BY <1>1, <1>2, <1>3, <1>4, <1>5, <1>6, <1>7, <1>8 DEF RequestStep

LEMMA RunNextTyped ==
  ASSUME Typed, NEW r \in Runs, RunStep(r) \/ HandlerFails(r) \/ WorkerDies(r) PROVE Typed'
<1> USE DEF storeVars, queueVars, requestVars, runVars
<1>0. /\ stage \in [Runs -> {"idle", "model", "follow"}] /\ chunk \in [Runs -> Chunks \cup {0}]
      /\ todo \in [Runs -> Seq(JobIds)] /\ (\A s \in Runs : stage[s] = "idle" <=> chunk[s] = 0)
      /\ row \in [Chunks -> Lifecycle] /\ links \subseteq Chunks \X Entities
  BY DEF Typed, StoreTyped, RunsTyped
<1>1. ASSUME NEW c \in Chunks, StartExtract(r, c) PROVE Typed'
  <2>1. CASE row[c] = "pending_extraction"
    <3>1. RunsTyped'
      BY <1>0, <1>1, <2>1, NumChunksNat DEF StartExtract, RunsTyped
    <3> QED BY <1>1, <2>1, <3>1, PartsKept DEF StartExtract, Typed
  <2>2. CASE row[c] # "pending_extraction"
    BY <1>1, <2>2, JobsAreIds, JobStep, PartsKept DEF StartExtract, Typed
  <2> QED BY <2>1, <2>2
<1>2. CASE Verdict(r)
  <2>1. chunk[r] \in Chunks
    BY <1>0, <1>2 DEF Verdict
  <2>2. MentionedIn[chunk[r]] \in Seq(Entities)
    BY <2>1, PipelineAssumption
  <2>3. <<Append_(chunk[r])>> \o Topics(chunk[r]) \in Seq(JobIds)
    <3>1. Append_(chunk[r]) \in JobIds
      BY <2>1, JobsAreIds
    <3>2. \A i \in DOMAIN MentionedIn[chunk[r]] : Topic(chunk[r], MentionedIn[chunk[r]][i]) \in JobIds
      BY <2>1, <2>2, JobsAreIds
    <3>3. Topics(chunk[r]) \in Seq(JobIds)
      BY <2>2, <3>2 DEF Topics
    <3> QED BY <3>1, <3>3
  <2>4. RunsTyped'
    BY <1>0, <1>2, <2>3 DEF Verdict, RunsTyped
  <2>5. StoreTyped'
    BY <1>0, <1>2, <2>1, <2>2 DEF Verdict, Admitted, Typed, StoreTyped, Lifecycle
  <2> QED BY <1>2, <2>4, <2>5, PartsKept DEF Verdict, Typed
<1>3. CASE EnqueueNext(r)
  <2>1. Head(todo[r]) \in JobIds /\ Tail(todo[r]) \in Seq(JobIds)
    BY <1>0, <1>3 DEF EnqueueNext
  <2>2. RunsTyped'
    BY <1>0, <1>3, <2>1 DEF EnqueueNext, RunsTyped
  <2> QED BY <1>3, <2>1, <2>2, EnqueueTyped, PartsKept DEF EnqueueNext, Typed
<1>4. CASE ReturnExtract(r)
  <2>1. chunk[r] \in Chunks
    BY <1>0, <1>4 DEF ReturnExtract
  <2> QED BY <1>4, <2>1, JobsAreIds, JobStep, EndRunTyped, PartsKept DEF ReturnExtract, Typed
<1>5. CASE HandlerFails(r)
  <2>1. chunk[r] \in Chunks
    BY <1>0, <1>5 DEF HandlerFails
  <2> QED BY <1>5, <2>1, JobsAreIds, JobStep, EndRunTyped, FaultTyped, PartsKept DEF HandlerFails, Typed
<1>6. CASE WorkerDies(r)
  BY <1>6, EndRunTyped, FaultTyped, PartsKept DEF WorkerDies, Typed
<1> QED BY <1>1, <1>2, <1>3, <1>4, <1>5, <1>6 DEF RunStep

LEMMA NextTyped == Typed /\ [Next]_vars => Typed'
<1> SUFFICES ASSUME Typed, [Next]_vars PROVE Typed'
  OBVIOUS
<1>1. ASSUME NEW c \in Chunks, RunAppend(c) PROVE Typed'
  <2>1. StoreTyped'
    BY <1>1 DEF RunAppend, Typed, StoreTyped, Lifecycle
  <2> QED BY <1>1, <2>1, JobsAreIds, JobStep, PartsKept DEF RunAppend, Typed
<1>2. ASSUME NEW c \in Chunks, NEW e \in Entities, RunTopic(c, e) PROVE Typed'
  BY <1>2, JobsAreIds, JobStep, PartsKept DEF RunTopic, Typed
<1>3. CASE UNCHANGED vars
  BY <1>3, PartsKept DEF vars, Typed
<1> QED BY <1>1, <1>2, <1>3, RequestNextTyped, RunNextTyped DEF Next, OtherJob

\* The tables, the queue, and what requests and runs have to do where they
\* stand, whatever breaks (memory/store.py, memory/extraction.py).
THEOREM PipelineTypeCorrect == Spec => []TypeOK
<1>1. Typed => TypeOK
  BY TypedParts
<1> QED BY <1>1, InitTyped, NextTyped, PTL DEF Spec

-----------------------------------------------------------------------------
(***************************************************************************)
(* Rows only go forward.                                                   *)
(***************************************************************************)

RequestActs == \E q \in Requests :
  BeginIngest(q) \/ RequestStep(q) \/ DiskFull(q) \/ CommitFails(q) \/ IngestDies(q)

QueueActs == (\E r \in Runs : RunStep(r) \/ HandlerFails(r) \/ WorkerDies(r)) \/ OtherJob \/ UNCHANGED vars

LEMMA WhoActs == [Next]_vars => RequestActs \/ QueueActs
BY DEF Next, RequestActs, QueueActs

\* A request inserts rows, and nothing else of the store but files.
LEMMA RequestRows ==
  ASSUME Typed, InsertsOwn, RequestActs
  PROVE  /\ UNCHANGED <<links, runVars>>
         /\ \A c \in Chunks : row'[c] # row[c] => row[c] = "absent" /\ row'[c] = "pending_extraction"
<1> USE DEF runVars
<1>1. ASSUME NEW q \in Requests, pc[q] = "commit", CommitRows(q)
      PROVE  \A c \in Chunks : row'[c] # row[c] => row[c] = "absent" /\ row'[c] = "pending_extraction"
  BY <1>1 DEF InsertsOwn, CommitRows, Stored
<1>2. ASSUME NEW q \in Requests, Commit(q) \/ CommitFails(q)
      PROVE  UNCHANGED <<links, runVars>> /\ (CommitRows(q) \/ row' = row) /\ pc[q] = "commit"
  BY <1>2 DEF Commit, CommitFails
<1>3. ASSUME NEW q \in Requests,
             BeginIngest(q) \/ Insert(q) \/ Unlink(q) \/ EnqueueExtract(q) \/ NextDocument(q)
               \/ DiskFull(q) \/ IngestDies(q)
      PROVE  UNCHANGED <<links, row, runVars>>
  BY <1>3 DEF BeginIngest, Insert, Unlink, EnqueueExtract, NextDocument, DiskFull, IngestDies, storeVars
<1> QED BY <1>1, <1>2, <1>3 DEF RequestActs, RequestStep

\* A run gives a verdict to its own chunk, append_buffer takes an admitted one.
LEMMA QueueRows ==
  ASSUME Typed, RunsOwn, QueueActs
  PROVE  /\ UNCHANGED <<requestVars, vault>> /\ links \subseteq links'
         /\ \A c \in Chunks : row'[c] # row[c] =>
              \/ /\ row[c] = "pending_extraction" /\ row'[c] \in {"admitted", "dropped"}
                 /\ \E r \in Runs : Verdict(r) /\ chunk[r] = c
              \/ row[c] = "admitted" /\ row'[c] = "buffered"
<1> USE DEF storeVars, requestVars
<1>1. ASSUME NEW r \in Runs, Verdict(r)
      PROVE  /\ UNCHANGED <<requestVars, vault>> /\ links \subseteq links'
             /\ \A c \in Chunks : row'[c] # row[c] =>
                  c = chunk[r] /\ row[c] = "pending_extraction" /\ row'[c] \in {"admitted", "dropped"}
  BY <1>1 DEF Verdict, Admitted, RunsOwn, Typed, StoreTyped
<1>2. ASSUME NEW c \in Chunks, RunAppend(c)
      PROVE  /\ UNCHANGED <<requestVars, vault, links>>
             /\ \A d \in Chunks : row'[d] # row[d] => row[d] = "admitted" /\ row'[d] = "buffered"
  BY <1>2 DEF RunAppend, Typed, StoreTyped
<1>3. ASSUME NEW r \in Runs,
             (\E c \in Chunks : StartExtract(r, c)) \/ EnqueueNext(r) \/ ReturnExtract(r)
               \/ HandlerFails(r) \/ WorkerDies(r)
      PROVE  UNCHANGED <<requestVars, storeVars>>
  BY <1>3 DEF StartExtract, EnqueueNext, ReturnExtract, HandlerFails, WorkerDies
<1>4. ASSUME NEW c \in Chunks, NEW e \in Entities, RunTopic(c, e) PROVE UNCHANGED <<requestVars, storeVars>>
  BY <1>4 DEF RunTopic
<1>5. CASE UNCHANGED vars
  BY <1>5 DEF vars
<1>6. CASE \E r \in Runs : RunStep(r) \/ HandlerFails(r) \/ WorkerDies(r)
  BY <1>1, <1>3, <1>6 DEF RunStep
<1>7. CASE OtherJob
  BY <1>2, <1>4, <1>7 DEF OtherJob
<1> QED BY <1>5, <1>6, <1>7 DEF QueueActs

\* So a row goes from one lifecycle to the next, and its links stay.
LEMMA RowMoves ==
  ASSUME Typed, InsertsOwn, RunsOwn, [Next]_vars
  PROVE  /\ links \subseteq links'
         /\ \A c \in Chunks :
              \/ row'[c] = row[c]
              \/ row[c] = "absent" /\ row'[c] = "pending_extraction"
              \/ row[c] = "pending_extraction" /\ row'[c] \in {"admitted", "dropped"}
              \/ row[c] = "admitted" /\ row'[c] = "buffered"
BY WhoActs, RequestRows, QueueRows

-----------------------------------------------------------------------------
(***************************************************************************)
(* One request inserts a chunk.                                            *)
(***************************************************************************)

InsertInv == InsertsOwn /\ OneInserter

LEMMA InitInserts == Init => InsertInv
BY DEF Init, InsertInv, InsertsOwn, OneInserter

LEMMA NextInserts ==
  ASSUME Typed, InsertInv, RunsOwn, [Next]_vars PROVE InsertInv'
<1>0. InsertsOwn /\ OneInserter
  BY DEF InsertInv
<1>1. /\ pc \in [Requests -> {"idle", "insert", "commit", "unlink", "enqueue"}]
      /\ fresh \in [Requests -> SUBSET Chunks]
      /\ row \in [Chunks -> Lifecycle]
  BY DEF Typed, StoreTyped, RequestsTyped
<1>2. \A c \in Chunks : Stored(c) => Stored(c)'
  BY <1>0, RowMoves DEF Stored
<1>3. CASE QueueActs
  <2>1. UNCHANGED requestVars /\ \A c \in Chunks : Stored(c)' = Stored(c)
    BY <1>3, QueueRows DEF Stored
  <2> QED BY <1>0, <1>1, <2>1 DEF InsertInv, InsertsOwn, OneInserter, requestVars
<1>4. ASSUME NEW q \in Requests, Insert(q) PROVE InsertInv'
  <2>1. /\ fresh' = [fresh EXCEPT ![q] = Inserted(q)] /\ pc' = [pc EXCEPT ![q] = "commit"] /\ row' = row
        /\ \A s \in Requests \ {q} : pc[s] = "commit" => fresh[s] \cap Head(left[q]) = {}
    BY <1>4 DEF Insert, MayInsert
  <2>2. Inserted(q) \subseteq Head(left[q]) /\ \A c \in Inserted(q) : ~Stored(c)
    BY DEF Inserted
  <2>3. InsertsOwn'
    BY <1>0, <1>1, <2>1, <2>2 DEF InsertsOwn, Stored
  <2>4. \A s \in Requests \ {q} : pc[s] \in {"commit", "enqueue"} => fresh[s] \cap Inserted(q) = {}
    BY <1>0, <2>1, <2>2 DEF InsertsOwn
  <2>5. OneInserter'
    BY <1>0, <1>1, <2>1, <2>4 DEF OneInserter
  <2> QED BY <2>3, <2>5 DEF InsertInv
<1>5. ASSUME NEW q \in Requests, Commit(q) \/ CommitFails(q) PROVE InsertInv'
  <2>1. /\ pc[q] = "commit" /\ (CommitRows(q) \/ (row' = row /\ pc' = [pc EXCEPT ![q] = "unlink"]))
        /\ fresh' = fresh
        /\ pc' = [pc EXCEPT ![q] = "unlink"] \/ pc' = [pc EXCEPT ![q] = "enqueue"]
    BY <1>5 DEF Commit, CommitFails
  <2>2. \A s \in Requests \ {q} : pc[s] = "commit" => fresh[s] \cap fresh[q] = {}
    BY <1>0, <2>1 DEF OneInserter
  <2>3. \A s \in Requests \ {q} : pc[s] = "commit" => \A c \in fresh[s] : ~Stored(c)'
    BY <1>0, <1>1, <2>1, <2>2 DEF InsertsOwn, Stored, CommitRows
  <2>4. pc'[q] = "enqueue" => \A c \in fresh[q] : Stored(c)'
    BY <1>1, <2>1 DEF Stored, CommitRows
  <2>5. InsertsOwn'
    BY <1>0, <1>1, <1>2, <2>1, <2>3, <2>4 DEF InsertsOwn
  <2>6. OneInserter'
    BY <1>0, <1>1, <2>1 DEF OneInserter
  <2> QED BY <2>5, <2>6 DEF InsertInv
<1>6. ASSUME NEW q \in Requests, row' = row, \A s \in Requests \ {q} : pc'[s] = pc[s] /\ fresh'[s] = fresh[s],
             \/ pc'[q] \in {"idle", "insert"} /\ fresh'[q] = {}
             \/ pc'[q] = "unlink"
             \/ pc'[q] = "enqueue" /\ pc[q] = "enqueue" /\ fresh'[q] \subseteq fresh[q]
      PROVE  InsertInv'
  BY <1>0, <1>1, <1>6 DEF InsertInv, InsertsOwn, OneInserter, Stored
<1>7. ASSUME NEW q \in Requests, BeginIngest(q) \/ NextDocument(q) PROVE InsertInv'
  <2>1. row' = row /\ fresh' = fresh /\ fresh[q] = {} /\ pc'[q] \in {"idle", "insert"}
        /\ \A s \in Requests \ {q} : pc'[s] = pc[s]
    BY <1>0, <1>1, <1>7 DEF BeginIngest, NextDocument, InsertsOwn, storeVars
  <2> QED BY <1>6, <2>1
<1>8. ASSUME NEW q \in Requests, Unlink(q) \/ IngestDies(q) PROVE InsertInv'
  <2>1. row' = row /\ EndRequest(q)
    BY <1>8 DEF Unlink, IngestDies, storeVars
  <2>2. pc'[q] = "idle" /\ fresh'[q] = {} /\ \A s \in Requests \ {q} : pc'[s] = pc[s] /\ fresh'[s] = fresh[s]
    BY <1>1, <2>1 DEF EndRequest
  <2> QED BY <1>6, <2>1, <2>2
<1>9. ASSUME NEW q \in Requests, DiskFull(q) PROVE InsertInv'
  <2>1. row' = row /\ pc'[q] = "unlink" /\ \A s \in Requests \ {q} : pc'[s] = pc[s] /\ fresh'[s] = fresh[s]
    BY <1>1, <1>9 DEF DiskFull
  <2> QED BY <1>6, <2>1
<1>10. ASSUME NEW q \in Requests, EnqueueExtract(q) PROVE InsertInv'
  <2>1. /\ row' = row /\ pc' = pc /\ pc[q] = "enqueue" /\ fresh'[q] \subseteq fresh[q]
        /\ \A s \in Requests \ {q} : fresh'[s] = fresh[s]
    BY <1>1, <1>10 DEF EnqueueExtract, storeVars
  <2> QED BY <1>6, <2>1
<1> QED BY <1>3, <1>4, <1>5, <1>7, <1>8, <1>9, <1>10, WhoActs DEF RequestActs, RequestStep

-----------------------------------------------------------------------------
(***************************************************************************)
(* One run has a chunk, and its verdict is the last.                       *)
(***************************************************************************)

LEMMA InitRuns == Init => RunsOwn /\ TodoReady
BY DEF Init, RunsOwn, TodoReady

LEMMA NextRuns ==
  ASSUME Typed, InsertsOwn, RunsOwn, [Next]_vars PROVE RunsOwn'
<1>1. /\ stage \in [Runs -> {"idle", "model", "follow"}] /\ chunk \in [Runs -> Chunks \cup {0}]
      /\ (\A s \in Runs : stage[s] = "idle" <=> chunk[s] = 0)
      /\ row \in [Chunks -> Lifecycle]
  BY DEF Typed, StoreTyped, RunsTyped
<1>2. CASE RequestActs
  <2>1. UNCHANGED runVars /\ \A c \in Chunks : row[c] = "pending_extraction" => row'[c] = "pending_extraction"
    BY <1>2, RequestRows
  <2> QED BY <1>1, <2>1 DEF RunsOwn, runVars
<1>3. ASSUME NEW r \in Runs, NEW c \in Chunks, StartExtract(r, c) PROVE RunsOwn'
  <2>1. CASE row[c] = "pending_extraction"
    <3>1. /\ stage' = [stage EXCEPT ![r] = "model"] /\ chunk' = [chunk EXCEPT ![r] = c] /\ row' = row
          /\ \A s \in Runs : chunk[s] # c
      BY <1>3, <2>1 DEF StartExtract, storeVars
    <3> QED BY <1>1, <2>1, <3>1 DEF RunsOwn
  <2>2. CASE row[c] # "pending_extraction"
    BY <1>3, <2>2 DEF StartExtract, RunsOwn, storeVars
  <2> QED BY <2>1, <2>2
<1>4. ASSUME NEW r \in Runs, Verdict(r) PROVE RunsOwn'
  <2>1. /\ stage' = [stage EXCEPT ![r] = "follow"] /\ chunk' = chunk
        /\ \A c \in Chunks : c # chunk[r] => row'[c] = row[c]
    BY <1>1, <1>4 DEF Verdict, Admitted
  <2> QED BY <1>1, <2>1 DEF RunsOwn
<1>5. ASSUME NEW r \in Runs, EnqueueNext(r) PROVE RunsOwn'
  BY <1>5 DEF EnqueueNext, RunsOwn, storeVars
<1>6. ASSUME NEW r \in Runs, ReturnExtract(r) \/ HandlerFails(r) \/ WorkerDies(r) PROVE RunsOwn'
  <2>1. EndRun(r) /\ row' = row
    BY <1>6 DEF ReturnExtract, HandlerFails, WorkerDies, storeVars
  <2> QED BY <1>1, <2>1 DEF EndRun, RunsOwn
<1>7. CASE OtherJob \/ UNCHANGED vars
  <2>1. UNCHANGED runVars
    BY <1>7 DEF OtherJob, RunAppend, RunTopic, vars
  <2>2. \A c \in Chunks : row[c] = "pending_extraction" => row'[c] = row[c]
    BY <1>1, <1>7 DEF OtherJob, RunAppend, RunTopic, vars, storeVars
  <2> QED BY <1>1, <2>1, <2>2 DEF RunsOwn, runVars
<1> QED BY <1>2, <1>3, <1>4, <1>5, <1>6, <1>7, WhoActs DEF QueueActs, RunStep

-----------------------------------------------------------------------------
(***************************************************************************)
(* Follow-ups come after what they are about.                              *)
(***************************************************************************)

\* A job is about one chunk, and one entity.
LEMMA JobsApart ==
  /\ \A c, d : Append_(c) # Extract(d) /\ (Append_(c) = Append_(d) => c = d)
  /\ \A c, d, e : Topic(c, e) # Extract(d) /\ Topic(c, e) # Append_(d)
  /\ \A c, d, e, f : Topic(c, e) = Topic(d, f) => c = d /\ e = f
BY DEF Append_, Extract, Topic

LEMMA ReadyStays ==
  ASSUME Typed, InsertsOwn, RunsOwn, [Next]_vars, NEW j, Ready(j) PROVE Ready(j)'
<1>1. \A c \in Chunks : row[c] \in {"admitted", "buffered"} => row'[c] \in {"admitted", "buffered"}
  BY RowMoves
<1>2. \A c \in Chunks : Stored(c) => Stored(c)'
  BY RowMoves DEF Stored
<1> QED BY <1>1, <1>2, RowMoves DEF Ready

\* What enters the table is an extraction, or what a run has still to do.
LEMMA JobsEnter ==
  ASSUME Typed, [Next]_vars, NEW j \in JobIds, jobState[j] = "absent", jobState'[j] # "absent"
  PROVE  \/ \E c \in Chunks : j = Extract(c)
         \/ \E r \in Runs : EnqueueNext(r) /\ j = Head(todo[r])
<1> USE DEF Typed, QueueTyped
<1>1. ASSUME NEW i \in JobIds, Queue!Complete(i) \/ Queue!Miss(i) PROVE FALSE
  BY <1>1 DEF Queue!Complete, Queue!Miss
<1>2. ASSUME NEW i \in JobIds, Enqueue(i) PROVE j = i
  BY <1>2 DEF Enqueue, Queue!Admit, queueVars
<1>3. ~(UNCHANGED queueVars)
  BY DEF queueVars
<1>4. CASE RequestActs
  <2>1. PICK q \in Requests : EnqueueExtract(q)
    BY <1>3, <1>4 DEF RequestActs, RequestStep, BeginIngest, Insert, DiskFull, Commit, CommitFails, Unlink,
          NextDocument, IngestDies
  <2>2. PICK c \in fresh[q] : Enqueue(Extract(c))
    BY <2>1 DEF EnqueueExtract
  <2>3. c \in Chunks
    BY <2>2 DEF RequestsTyped
  <2> QED BY <1>2, <2>2, <2>3, JobsAreIds
<1>5. CASE QueueActs
  <2>1. ASSUME NEW r \in Runs, EnqueueNext(r) PROVE j = Head(todo[r])
    <3>1. Head(todo[r]) \in JobIds
      BY <2>1 DEF EnqueueNext, RunsTyped
    <3> QED BY <1>2, <2>1, <3>1 DEF EnqueueNext
  <2>2. ASSUME NEW r \in Runs, ReturnExtract(r) \/ HandlerFails(r) PROVE FALSE
    <3>1. chunk[r] \in Chunks
      BY <2>2 DEF ReturnExtract, HandlerFails, RunsTyped
    <3> QED BY <1>1, <2>2, <3>1, JobsAreIds DEF ReturnExtract, HandlerFails
  <2>3. ASSUME NEW r \in Runs, NEW c \in Chunks, StartExtract(r, c) PROVE FALSE
    BY <1>1, <1>3, <2>3, JobsAreIds DEF StartExtract
  <2>4. ~OtherJob
    BY <1>1, JobsAreIds DEF OtherJob, RunAppend, RunTopic
  <2>5. \A r \in Runs : ~Verdict(r) /\ ~WorkerDies(r)
    BY <1>3 DEF Verdict, WorkerDies
  <2>6. ~(UNCHANGED vars)
    BY <1>3 DEF vars
  <2> QED BY <1>5, <2>1, <2>2, <2>3, <2>4, <2>5, <2>6 DEF QueueActs, RunStep
<1> QED BY <1>4, <1>5, WhoActs

LEMMA NextTodo ==
  ASSUME Typed, InsertsOwn, RunsOwn, TodoReady, [Next]_vars PROVE TodoReady'
<1> SUFFICES ASSUME NEW s \in Runs, NEW i \in DOMAIN todo'[s], NEW j, j = todo'[s][i] PROVE Ready(j)'
  BY DEF TodoReady, Ready
<1>1. todo \in [Runs -> Seq(JobIds)]
  BY DEF Typed, RunsTyped
<1>2. ASSUME todo'[s] = todo[s] PROVE Ready(j)'
  BY <1>2, ReadyStays DEF TodoReady
<1>3. ASSUME todo'[s] = <<>> PROVE Ready(j)'
  BY <1>3
<1>4. CASE RequestActs
  BY <1>2, <1>4, RequestRows DEF runVars
<1>5. ASSUME NEW r \in Runs, Verdict(r) PROVE Ready(j)'
  <2> DEFINE c == chunk[r]
  <2>1. CASE Admitted(c) /\ todo' = [todo EXCEPT ![r] = <<Append_(c)>> \o Topics(c)] /\ s = r
    <3>1. c \in Chunks
      BY <1>5 DEF Verdict, Typed, RunsTyped
    <3>2. MentionedIn[c] \in Seq(Entities)
      BY <3>1, PipelineAssumption
    <3>3. \/ j = Append_(c)
          \/ \E k \in DOMAIN MentionedIn[c] : todo'[s][i] = Topic(c, MentionedIn[c][k])
      <4>1. todo'[s] = <<Append_(c)>> \o Topics(c)
        BY <1>1, <2>1
      <4>2. Topics(c) \in Seq({Topic(c, e) : e \in Entities}) /\ DOMAIN Topics(c) = DOMAIN MentionedIn[c]
        BY <3>2 DEF Topics
      <4>3. i = 1 \/ (i - 1 \in DOMAIN Topics(c) /\ todo'[s][i] = Topics(c)[i - 1])
        BY <4>1, <4>2
      <4>4. i = 1 => todo'[s][i] = Append_(c)
        BY <4>1, <4>2
      <4> QED BY <4>2, <4>3, <4>4 DEF Topics
    <3>4. row'[c] = "admitted" /\ \A k \in DOMAIN MentionedIn[c] : <<c, MentionedIn[c][k]>> \in links'
      BY <2>1, <3>1 DEF Admitted, Typed, StoreTyped
    <3> QED BY <3>3, <3>4, JobsApart DEF Ready
  <2>2. CASE todo' = todo \/ s # r
    BY <1>1, <1>2, <1>5, <2>2 DEF Verdict
  <2> QED BY <1>5, <2>1, <2>2 DEF Verdict
<1>6. ASSUME NEW r \in Runs, EnqueueNext(r) PROVE Ready(j)'
  <2>1. todo' = [todo EXCEPT ![r] = Tail(todo[r])] /\ todo[r] # <<>>
    BY <1>6 DEF EnqueueNext
  <2>2. CASE s = r
    <3>1. todo'[s] = Tail(todo[r]) /\ todo[r] \in Seq(JobIds)
      BY <1>1, <2>1, <2>2
    <3>2. i + 1 \in DOMAIN todo[r] /\ todo'[s][i] = todo[r][i + 1]
      <4>1. Tail(todo[r]) \in Seq(JobIds) /\ Len(Tail(todo[r])) = Len(todo[r]) - 1 /\ Len(todo[r]) \in Nat
            /\ \A k \in 1..Len(Tail(todo[r])) : Tail(todo[r])[k] = todo[r][k + 1]
        BY <2>1, <3>1, HeadTailProperties, LenProperties
      <4> QED BY <3>1, <4>1
    <3> QED BY <3>2, ReadyStays DEF TodoReady
  <2>3. CASE s # r
    BY <1>1, <1>2, <2>1, <2>3
  <2> QED BY <2>2, <2>3
<1>7. ASSUME NEW r \in Runs, ReturnExtract(r) \/ HandlerFails(r) \/ WorkerDies(r) PROVE Ready(j)'
  <2>1. EndRun(r)
    BY <1>7 DEF ReturnExtract, HandlerFails, WorkerDies
  <2> QED BY <1>1, <1>2, <1>3, <2>1 DEF EndRun
<1>8. CASE (\E r \in Runs, c \in Chunks : StartExtract(r, c)) \/ OtherJob \/ UNCHANGED vars
  BY <1>2, <1>8 DEF StartExtract, OtherJob, RunAppend, RunTopic, vars, runVars
<1> QED BY <1>4, <1>5, <1>6, <1>7, <1>8, WhoActs DEF QueueActs, RunStep

LEMMA InitFollowUps == Init => FollowUpsAfterLinks
BY JobsAreIds DEF Init, Queue!Init, FollowUpsAfterLinks

LEMMA NextFollowUps ==
  ASSUME Typed, InsertsOwn, RunsOwn, TodoReady, FollowUpsAfterLinks, [Next]_vars
  PROVE  FollowUpsAfterLinks'
<1>1. ASSUME NEW c \in Chunks, row'[c] \in {"admitted", "buffered"}, NEW i \in DOMAIN MentionedIn[c]
      PROVE  <<c, MentionedIn[c][i]>> \in links'
  <2>1. CASE row[c] \in {"admitted", "buffered"}
    BY <2>1, RowMoves DEF FollowUpsAfterLinks
  <2>2. CASE row[c] \notin {"admitted", "buffered"}
    <3>1. PICK r \in Runs : Verdict(r) /\ chunk[r] = c
      BY <1>1, <2>2, WhoActs, RequestRows, QueueRows
    <3> QED BY <1>1, <3>1 DEF Verdict, Admitted, Typed, StoreTyped
  <2> QED BY <2>1, <2>2
<1>2. ASSUME NEW j \in JobIds, jobState[j] = "absent", jobState'[j] # "absent", \A c \in Chunks : j # Extract(c)
      PROVE  Ready(j)'
  <2>1. PICK r \in Runs : EnqueueNext(r) /\ j = Head(todo[r])
    BY <1>2, JobsEnter
  <2>2. todo[r] \in Seq(JobIds) /\ todo[r] # <<>>
    BY <2>1 DEF EnqueueNext, Typed, RunsTyped
  <2>3. 1 \in DOMAIN todo[r] /\ Head(todo[r]) = todo[r][1]
    BY <2>2
  <2> QED BY <2>1, <2>3, ReadyStays DEF TodoReady
<1>3. ASSUME NEW c \in Chunks, jobState'[Append_(c)] # "absent" PROVE row'[c] \in {"admitted", "buffered"}
  <2>1. CASE jobState[Append_(c)] # "absent"
    BY <2>1, RowMoves DEF FollowUpsAfterLinks
  <2>2. CASE jobState[Append_(c)] = "absent"
    <3>1. Append_(c) \in JobIds /\ \A d \in Chunks : Append_(c) # Extract(d)
      BY JobsAreIds, JobsApart
    <3> QED BY <1>2, <1>3, <2>2, <3>1 DEF Ready
  <2> QED BY <2>1, <2>2
<1>4. ASSUME NEW c \in Chunks, NEW e \in Entities, jobState'[Topic(c, e)] # "absent" PROVE <<c, e>> \in links'
  <2>1. CASE jobState[Topic(c, e)] # "absent"
    BY <2>1, RowMoves DEF FollowUpsAfterLinks
  <2>2. CASE jobState[Topic(c, e)] = "absent"
    <3>1. Topic(c, e) \in JobIds /\ \A d \in Chunks : Topic(c, e) # Extract(d)
      BY JobsAreIds, JobsApart
    <3> QED BY <1>2, <1>4, <2>2, <3>1 DEF Ready
  <2> QED BY <2>1, <2>2
<1> QED BY <1>1, <1>3, <1>4 DEF FollowUpsAfterLinks

-----------------------------------------------------------------------------
(***************************************************************************)
(* Rows and files.                                                         *)
(***************************************************************************)

\* Faults are counted, and are what they are by the step that has them.
LEMMA FaultsCount ==
  ASSUME Typed, NEW kind, Fault(kind)
  PROVE  /\ kind \in AllFaults /\ faults'[kind] # 0
         /\ \A other \in AllFaults : faults'[other] = 0 => faults[other] = 0
<1>1. kind \in AllFaults /\ faults \in [AllFaults -> Nat] /\ faults' = [faults EXCEPT ![kind] = @ + 1]
  BY PipelineAssumption DEF Fault, Typed, FaultsTyped
<1>2. faults[kind] \in Nat /\ faults'[kind] = faults[kind] + 1
  BY <1>1
<1> QED BY <1>1, <1>2

LEMMA FaultsStay ==
  ASSUME Typed, [Next]_vars, NEW kind \in AllFaults, faults'[kind] = 0 PROVE faults[kind] = 0
<1>1. faults' = faults \/ \E other \in AllFaults : Fault(other)
  BY DEF Next, RequestStep, RunStep, OtherJob, BeginIngest, Insert, Commit, Unlink, EnqueueExtract,
         NextDocument, DiskFull, CommitFails, IngestDies, StartExtract, Verdict, EnqueueNext,
         ReturnExtract, HandlerFails, WorkerDies, RunAppend, RunTopic, vars, AllFaults
<1> QED BY <1>1, FaultsCount

Undone == {"disk", "commit", "answer"}

LEMMA FewerFaults ==
  ASSUME Typed, [Next]_vars
  PROVE  /\ NoFault(Undone)' => NoFault(Undone)
         /\ NoFault({"disk", "ingest"})' => NoFault({"disk", "ingest"})
BY FaultsStay DEF NoFault, Undone, AllFaults

LEMMA FaultyActs ==
  ASSUME Typed, NEW q \in Requests
  PROVE  /\ DiskFull(q) => ~NoFault(Undone)' /\ ~NoFault({"disk", "ingest"})'
         /\ CommitFails(q) => ~NoFault(Undone)'
         /\ IngestDies(q) => ~NoFault({"disk", "ingest"})'
BY FaultsCount DEF DiskFull, CommitFails, IngestDies, NoFault, Undone

FilesInv == FilesFirst /\ RowsAndFiles

LEMMA InitFiles == Init => FilesInv
BY DEF Init, FilesInv, FilesFirst, RowsAndFiles, Stored

\* Files come before their rows.
LEMMA NextRowsHaveFiles ==
  ASSUME Typed, InsertsOwn, RunsOwn, FilesInv, [Next]_vars, NoFault(Undone)'
  PROVE  /\ \A q \in Requests : pc'[q] # "unlink" /\ (pc'[q] = "commit" => fresh'[q] \subseteq vault')
         /\ \A c \in Chunks : row'[c] # "absent" => c \in vault'
<1>1. /\ \A q \in Requests : pc[q] # "unlink" /\ (pc[q] = "commit" => fresh[q] \subseteq vault)
      /\ \A c \in Chunks : row[c] # "absent" => c \in vault
  BY FewerFaults DEF FilesInv, FilesFirst, RowsAndFiles, Undone, Stored
<1>2. /\ pc \in [Requests -> {"idle", "insert", "commit", "unlink", "enqueue"}]
      /\ fresh \in [Requests -> SUBSET Chunks] /\ row \in [Chunks -> Lifecycle]
  BY DEF Typed, StoreTyped, RequestsTyped
<1>3. CASE QueueActs
  BY <1>1, <1>3, QueueRows DEF requestVars
<1>4. ASSUME NEW q \in Requests, Insert(q) PROVE vault \subseteq vault' /\ row' = row
        /\ (\A s \in Requests : pc'[s] = "commit" => fresh'[s] \subseteq vault')
        /\ (\A s \in Requests : pc'[s] # "unlink")
  BY <1>1, <1>2, <1>4 DEF Insert
<1>5. ASSUME NEW q \in Requests, Commit(q)
      PROVE  /\ vault' = vault /\ fresh' = fresh /\ pc' = [pc EXCEPT ![q] = "enqueue"]
             /\ \A c \in Chunks : row'[c] # "absent" => row[c] # "absent" \/ c \in vault
  BY <1>1, <1>2, <1>5 DEF Commit, CommitRows
<1>6. ASSUME NEW q \in Requests, BeginIngest(q) \/ EnqueueExtract(q) \/ NextDocument(q)
      PROVE  /\ vault' = vault /\ row' = row
             /\ \A s \in Requests : fresh'[s] \subseteq fresh[s] /\ pc'[s] # "unlink"
                                      /\ (pc'[s] = "commit" => pc[s] = "commit")
  BY <1>1, <1>2, <1>6 DEF BeginIngest, EnqueueExtract, NextDocument, storeVars
<1>7. ASSUME NEW q \in Requests, IngestDies(q)
      PROVE  /\ vault' = vault /\ row' = row
             /\ \A s \in Requests : fresh'[s] \subseteq fresh[s] /\ pc'[s] # "unlink"
                                      /\ (pc'[s] = "commit" => pc[s] = "commit")
  BY <1>1, <1>2, <1>7 DEF IngestDies, EndRequest, storeVars
<1>8. \A q \in Requests : ~Unlink(q) /\ ~DiskFull(q) /\ ~CommitFails(q)
  BY <1>1, FaultyActs DEF Unlink
<1>9. CASE RequestActs
  <2>1. PICK q \in Requests : Insert(q) \/ Commit(q) \/ BeginIngest(q) \/ EnqueueExtract(q)
                                \/ NextDocument(q) \/ IngestDies(q)
    BY <1>8, <1>9 DEF RequestActs, RequestStep
  <2> QED BY <1>1, <1>2, <1>4, <1>5, <1>6, <1>7, <2>1
<1> QED BY <1>3, <1>9, WhoActs

\* A file without a row is that of a request which has still to commit or to unlink.
LEMMA NextFilesHaveRows ==
  ASSUME Typed, InsertsOwn, RunsOwn, FilesInv, [Next]_vars, NoFault({"disk", "ingest"})', NEW c \in vault'
  PROVE  row'[c] # "absent" \/ \E q \in Requests : c \in fresh'[q]
<1> DEFINE Kept == row'[c] # "absent" \/ \E q \in Requests : c \in fresh'[q]
<1>1. c \in vault => row[c] # "absent" \/ \E q \in Requests : c \in fresh[q]
  BY FewerFaults DEF FilesInv, RowsAndFiles, Stored
<1>2. /\ fresh \in [Requests -> SUBSET Chunks] /\ row \in [Chunks -> Lifecycle] /\ vault \subseteq Chunks
  BY DEF Typed, StoreTyped, RequestsTyped
<1>3. c \in vault => (row[c] # "absent" => row'[c] # "absent")
  BY <1>2, RowMoves
<1>4. CASE QueueActs
  BY <1>1, <1>3, <1>4, QueueRows DEF requestVars
<1>5. ASSUME NEW q \in Requests, Insert(q) PROVE Kept
  <2>1. /\ fresh' = [fresh EXCEPT ![q] = Inserted(q)] /\ vault' = vault \cup Inserted(q)
        /\ pc[q] = "insert"
    BY <1>5 DEF Insert, MayInsert
  <2>2. fresh[q] = {}
    BY <2>1 DEF InsertsOwn
  <2> QED BY <1>1, <1>2, <1>3, <2>1, <2>2
<1>6. ASSUME NEW q \in Requests, Commit(q) \/ CommitFails(q) \/ BeginIngest(q) \/ NextDocument(q) PROVE Kept
  BY <1>1, <1>3, <1>6 DEF Commit, CommitFails, BeginIngest, NextDocument, storeVars
<1>7. ASSUME NEW q \in Requests, Unlink(q) PROVE Kept
  BY <1>1, <1>2, <1>3, <1>7 DEF Unlink, EndRequest
<1>8. ASSUME NEW q \in Requests, EnqueueExtract(q) PROVE Kept
  <2>1. PICK d \in fresh[q] : fresh' = [fresh EXCEPT ![q] = @ \ {d}]
    BY <1>8 DEF EnqueueExtract
  <2>2. row[d] # "absent" /\ vault' = vault
    BY <1>8, <2>1 DEF EnqueueExtract, InsertsOwn, Stored, storeVars
  <2> QED BY <1>1, <1>2, <1>3, <2>1, <2>2
<1>9. \A q \in Requests : ~DiskFull(q) /\ ~IngestDies(q)
  BY FaultyActs
<1> QED BY <1>4, <1>5, <1>6, <1>7, <1>8, <1>9, WhoActs DEF RequestActs, RequestStep

LEMMA NextFiles ==
  ASSUME Typed, InsertsOwn, RunsOwn, FilesInv, [Next]_vars PROVE FilesInv'
BY NextRowsHaveFiles, NextFilesHaveRows DEF FilesInv, FilesFirst, RowsAndFiles, Undone, Stored

-----------------------------------------------------------------------------
(***************************************************************************)
(* What is stored is not forgotten.                                        *)
(***************************************************************************)

\* Why a job changes its state.
LEMMA JobsMove ==
  ASSUME Typed, [Next]_vars, NEW j \in JobIds, jobState'[j] # jobState[j]
  PROVE  \/ jobState[j] = "absent" /\ jobState'[j] = "pending" /\ \E q \in Requests : \E c \in fresh[q] :
              EnqueueExtract(q) /\ j = Extract(c)
         \/ jobState[j] = "absent" /\ jobState'[j] = "pending" /\ \E r \in Runs :
              EnqueueNext(r) /\ j = Head(todo[r])
         \/ jobState[j] = "pending" /\ jobState'[j] = "done" /\ \E r \in Runs, c \in Chunks :
              StartExtract(r, c) /\ row[c] # "pending_extraction" /\ j = Extract(c)
         \/ jobState[j] = "pending" /\ jobState'[j] = "done" /\ \E r \in Runs :
              ReturnExtract(r) /\ j = Extract(chunk[r])
         \/ jobState[j] = "pending" /\ jobState'[j] = "done" /\ \E c \in Chunks :
              RunAppend(c) /\ j = Append_(c)
         \/ \E c \in Chunks, e \in Entities : j = Topic(c, e)
         \/ jobState[j] = "pending" /\ jobState'[j] = "failed" /\ \E r \in Runs :
              HandlerFails(r) /\ j = Extract(chunk[r])
<1> USE DEF Typed, QueueTyped
<1>1. ASSUME NEW i \in JobIds, Queue!Complete(i)
      PROVE  j = i /\ jobState[j] = "pending" /\ jobState'[j] = "done"
  BY <1>1 DEF Queue!Complete
<1>2. ASSUME NEW i \in JobIds, Enqueue(i)
      PROVE  j = i /\ jobState[j] = "absent" /\ jobState'[j] = "pending"
  BY <1>2 DEF Enqueue, Queue!Admit, queueVars
<1>3. ASSUME NEW i \in JobIds, Queue!Miss(i)
      PROVE  j = i /\ jobState[j] = "pending" /\ jobState'[j] = "failed"
  BY <1>3 DEF Queue!Miss
<1>4. ~(UNCHANGED queueVars)
  BY DEF queueVars
<1>5. CASE RequestActs
  <2>1. PICK q \in Requests : EnqueueExtract(q)
    BY <1>4, <1>5 DEF RequestActs, RequestStep, BeginIngest, Insert, DiskFull, Commit, CommitFails, Unlink,
          NextDocument, IngestDies
  <2>2. PICK c \in fresh[q] : Enqueue(Extract(c))
    BY <2>1 DEF EnqueueExtract
  <2>3. Extract(c) \in JobIds
    BY <2>2, JobsAreIds DEF RequestsTyped
  <2> QED BY <1>2, <2>1, <2>2, <2>3
<1>6. CASE QueueActs
  <2>1. ASSUME NEW r \in Runs, EnqueueNext(r)
        PROVE  j = Head(todo[r]) /\ jobState[j] = "absent" /\ jobState'[j] = "pending"
    <3>1. Head(todo[r]) \in JobIds
      BY <2>1 DEF EnqueueNext, RunsTyped
    <3> QED BY <1>2, <2>1, <3>1 DEF EnqueueNext
  <2>2. ASSUME NEW r \in Runs, ReturnExtract(r)
        PROVE  j = Extract(chunk[r]) /\ jobState[j] = "pending" /\ jobState'[j] = "done"
    <3>1. chunk[r] \in Chunks
      BY <2>2 DEF ReturnExtract, RunsTyped
    <3> QED BY <1>1, <2>2, <3>1, JobsAreIds DEF ReturnExtract
  <2>3. ASSUME NEW r \in Runs, HandlerFails(r)
        PROVE  j = Extract(chunk[r]) /\ jobState[j] = "pending" /\ jobState'[j] = "failed"
    <3>1. chunk[r] \in Chunks
      BY <2>3 DEF HandlerFails, RunsTyped
    <3> QED BY <1>3, <2>3, <3>1, JobsAreIds DEF HandlerFails
  <2>4. ASSUME NEW r \in Runs, NEW c \in Chunks, StartExtract(r, c)
        PROVE  /\ row[c] # "pending_extraction" /\ j = Extract(c)
               /\ jobState[j] = "pending" /\ jobState'[j] = "done"
    BY <1>1, <1>4, <2>4, JobsAreIds DEF StartExtract
  <2>5. ASSUME NEW c \in Chunks, RunAppend(c)
        PROVE  j = Append_(c) /\ jobState[j] = "pending" /\ jobState'[j] = "done"
    BY <1>1, <2>5, JobsAreIds DEF RunAppend
  <2>6. ASSUME NEW c \in Chunks, NEW e \in Entities, RunTopic(c, e) PROVE j = Topic(c, e)
    BY <1>1, <2>6, JobsAreIds DEF RunTopic
  <2>7. \A r \in Runs : ~Verdict(r) /\ ~WorkerDies(r)
    BY <1>4 DEF Verdict, WorkerDies
  <2>8. ~(UNCHANGED vars)
    BY <1>4 DEF vars
  <2>9. CASE OtherJob
    BY <2>5, <2>6, <2>9 DEF OtherJob
  <2>10. CASE \E r \in Runs : RunStep(r) \/ HandlerFails(r) \/ WorkerDies(r)
    BY <2>1, <2>2, <2>3, <2>4, <2>7, <2>10 DEF RunStep
  <2> QED BY <1>6, <2>8, <2>9, <2>10 DEF QueueActs
<1> QED BY <1>5, <1>6, WhoActs

\* A job stays in the table, and its state changes once.
LEMMA JobsRemain ==
  ASSUME Typed, [Next]_vars, NEW j \in JobIds, jobState[j] # "absent",
         \A c \in Chunks, e \in Entities : j # Topic(c, e)
  PROVE  jobState'[j] \in {jobState[j], "done", "failed"}
<1>1. CASE jobState'[j] = jobState[j]
  BY <1>1
<1>2. CASE jobState'[j] # jobState[j]
  BY <1>2, JobsMove
<1> QED BY <1>1, <1>2

\* What a run enqueues next is about what is written.
LEMMA NextIsReady ==
  ASSUME Typed, TodoReady, NEW r \in Runs, EnqueueNext(r) PROVE Ready(Head(todo[r]))
<1>1. todo[r] \in Seq(JobIds) /\ todo[r] # <<>>
  BY DEF EnqueueNext, Typed, RunsTyped
<1>2. 1 \in DOMAIN todo[r] /\ Head(todo[r]) = todo[r][1]
  BY <1>1
<1> QED BY <1>2 DEF TodoReady

\* A run comes to its follow-ups by a verdict, with the chunk it has.
LEMMA FollowsVerdict ==
  ASSUME Typed, [Next]_vars, NEW r \in Runs, stage'[r] = "follow"
  PROVE  (stage[r] = "follow" /\ chunk'[r] = chunk[r]) \/ Verdict(r)
<1>1. stage \in [Runs -> {"idle", "model", "follow"}] /\ chunk \in [Runs -> Chunks \cup {0}]
  BY DEF Typed, RunsTyped
<1>2. CASE UNCHANGED runVars
  BY <1>2 DEF runVars
<1>3. ASSUME NEW s \in Runs, NEW c \in Chunks, StartExtract(s, c)
      PROVE  stage[r] = "follow" /\ chunk'[r] = chunk[r]
  BY <1>1, <1>3 DEF StartExtract
<1>4. ASSUME NEW s \in Runs, Verdict(s) PROVE (stage[r] = "follow" /\ chunk'[r] = chunk[r]) \/ s = r
  BY <1>1, <1>4 DEF Verdict
<1>5. ASSUME NEW s \in Runs, EnqueueNext(s) PROVE stage[r] = "follow" /\ chunk'[r] = chunk[r]
  BY <1>5 DEF EnqueueNext
<1>6. ASSUME NEW s \in Runs, ReturnExtract(s) \/ HandlerFails(s) \/ WorkerDies(s)
      PROVE  stage[r] = "follow" /\ chunk'[r] = chunk[r]
  BY <1>1, <1>6 DEF ReturnExtract, HandlerFails, WorkerDies, EndRun
<1>7. RequestActs \/ OtherJob \/ UNCHANGED vars => UNCHANGED runVars
  BY DEF RequestActs, RequestStep, BeginIngest, Insert, DiskFull, Commit, CommitFails, Unlink, EnqueueExtract,
       NextDocument, IngestDies, OtherJob, RunAppend, RunTopic, vars, runVars
<1> QED BY <1>2, <1>3, <1>4, <1>5, <1>6, <1>7, WhoActs DEF QueueActs, RunStep

LEMMA InitJobs == Init => JobsFollowRows
BY JobsAreIds DEF Init, Queue!Init, JobsFollowRows

LEMMA NextJobs ==
  ASSUME Typed, InsertsOwn, RunsOwn, TodoReady, FollowUpsAfterLinks, JobsFollowRows, [Next]_vars
  PROVE  JobsFollowRows'
<1>1. row \in [Chunks -> Lifecycle] /\ \A r \in Runs : chunk[r] \in Chunks \cup {0}
  BY DEF Typed, StoreTyped, RunsTyped
<1>2. \A c \in Chunks : /\ Stored(c) => Stored(c)'
                        /\ Judged(c) => Judged(c)'
                        /\ row[c] = "buffered" => row'[c] = "buffered"
  BY RowMoves DEF Stored, Judged
<1>3. ASSUME NEW c \in Chunks, jobState'[Extract(c)] # jobState[Extract(c)]
      PROVE  Stored(c) /\ (jobState'[Extract(c)] = "done" => Judged(c))
  <2>1. /\ Extract(c) \in JobIds /\ \A d \in Chunks : Extract(c) # Append_(d)
        /\ \A d \in Chunks, e \in Entities : Extract(c) # Topic(d, e)
        /\ \A d : Extract(c) = Extract(d) => c = d
    BY JobsAreIds, JobsApart DEF Extract
  <2>2. ASSUME NEW q \in Requests, NEW d \in fresh[q], EnqueueExtract(q), Extract(c) = Extract(d) PROVE Stored(c)
    BY <2>1, <2>2 DEF EnqueueExtract, InsertsOwn
  <2>3. ASSUME NEW r \in Runs, EnqueueNext(r), Extract(c) = Head(todo[r]) PROVE Stored(c)
    BY <2>3, NextIsReady DEF Ready
  <2>4. ASSUME NEW r \in Runs, ReturnExtract(r), Extract(c) = Extract(chunk[r]) PROVE Judged(c)
    BY <2>1, <2>4 DEF ReturnExtract, JobsFollowRows
  <2>5. jobState[Extract(c)] # "absent" => Stored(c)
    BY DEF JobsFollowRows
  <2>6. Stored(c) /\ row[c] # "pending_extraction" => Judged(c)
    BY <1>1 DEF Stored, Judged, Lifecycle
  <2> QED BY <1>3, <2>1, <2>2, <2>3, <2>4, <2>5, <2>6, JobsMove
<1>4. ASSUME NEW r \in Runs, stage'[r] = "follow"
      PROVE  row'[chunk'[r]] \in {"admitted", "dropped", "buffered"}
  <2>1. CASE stage[r] = "follow" /\ chunk'[r] = chunk[r]
    <3>1. chunk[r] \in Chunks /\ Judged(chunk[r])
      BY <2>1 DEF JobsFollowRows, Typed, RunsTyped
    <3>2. row'[chunk[r]] \in {"admitted", "dropped", "buffered"}
      BY <1>2, <3>1 DEF Judged
    <3> QED BY <2>1, <3>2
  <2>2. CASE ~ (stage[r] = "follow" /\ chunk'[r] = chunk[r])
    <3>1. Verdict(r)
      BY <1>4, <2>2, FollowsVerdict
    <3> QED BY <1>1, <3>1 DEF Verdict, Admitted, Judged, Typed, RunsTyped
  <2> QED BY <2>1, <2>2
<1>5. ASSUME NEW c \in Chunks, jobState'[Append_(c)] # jobState[Append_(c)]
      PROVE  jobState'[Append_(c)] # "failed" /\ (jobState'[Append_(c)] = "done" => row'[c] = "buffered")
  <2>1. /\ Append_(c) \in JobIds /\ (\A d : Append_(c) # Extract(d))
        /\ (\A d \in Chunks, e \in Entities : Append_(c) # Topic(d, e))
        /\ \A d : Append_(c) = Append_(d) => c = d
    BY JobsAreIds, JobsApart DEF Append_, Topic
  <2>2. ASSUME RunAppend(c) PROVE row'[c] = "buffered"
    <3>1. row[c] \in {"admitted", "buffered"}
      BY <2>1, <2>2 DEF RunAppend, Queue!Complete, FollowUpsAfterLinks
    <3> QED BY <1>1, <2>2, <3>1 DEF RunAppend
  <2>3. CASE jobState'[Append_(c)] = "pending"
    BY <2>3
  <2>4. CASE jobState'[Append_(c)] # "pending"
    <3>1. jobState'[Append_(c)] = "done" /\ \E d \in Chunks : RunAppend(d) /\ Append_(c) = Append_(d)
      BY <1>5, <2>1, <2>4, JobsMove
    <3> QED BY <2>1, <2>2, <3>1
  <2> QED BY <2>3, <2>4
<1>6. \A c \in Chunks : jobState'[Extract(c)] # "absent" => Stored(c)'
  BY <1>2, <1>3 DEF JobsFollowRows
<1>7. \A c \in Chunks : jobState'[Extract(c)] = "done" => Judged(c)'
  BY <1>2, <1>3 DEF JobsFollowRows
<1>8. \A c \in Chunks : /\ jobState'[Append_(c)] # "failed"
                        /\ jobState'[Append_(c)] = "done" => row'[c] = "buffered"
  BY <1>2, <1>5 DEF JobsFollowRows
<1> QED BY <1>4, <1>6, <1>7, <1>8 DEF JobsFollowRows, Judged, Stored

\* No fault of these kinds now, none before.
LEMMA FewerStill ==
  ASSUME Typed, [Next]_vars
  PROVE  /\ NoFault({"ingest", "answer"})' => NoFault({"ingest", "answer"})
         /\ NoFault({"worker", "handler"})' => NoFault({"worker", "handler"})
BY FaultsStay DEF NoFault, AllFaults

LEMMA NextPendingAwaited ==
  ASSUME Typed, InsertsOwn, RunsOwn, TodoReady, FollowUpsAfterLinks, JobsFollowRows, PendingAwaited, [Next]_vars
  PROVE  PendingAwaited'
<1> SUFFICES ASSUME NoFault({"ingest", "answer"})', NEW c \in Chunks, row'[c] = "pending_extraction"
             PROVE  \/ jobState'[Extract(c)] \in {"pending", "failed"}
                    \/ \E q \in Requests : pc'[q] = "enqueue" /\ c \in fresh'[q]
  BY DEF PendingAwaited, NoFault
<1> DEFINE InTable == jobState'[Extract(c)] \in {"pending", "failed"}
           Held    == \E q \in Requests : pc'[q] = "enqueue" /\ c \in fresh'[q]
<1>1. /\ pc \in [Requests -> {"idle", "insert", "commit", "unlink", "enqueue"}]
      /\ fresh \in [Requests -> SUBSET Chunks] /\ row \in [Chunks -> Lifecycle]
      /\ jobState \in [JobIds -> {"absent", "pending", "done", "failed"}]
      /\ jobState' \in [JobIds -> {"absent", "pending", "done", "failed"}]
  BY NextTyped DEF Typed, StoreTyped, RequestsTyped, QueueTyped
<1>2. Extract(c) \in JobIds
  BY JobsAreIds
<1>3. jobState'[Extract(c)] # "done"
  BY NextJobs DEF JobsFollowRows, Judged
<1>4. jobState[Extract(c)] # "absent" => InTable
  <2>1. \A d \in Chunks, e \in Entities : Extract(c) # Topic(d, e)
    BY JobsApart
  <2> QED BY <1>1, <1>2, <1>3, <2>1, JobsRemain
<1>5. ASSUME NEW q \in Requests, pc[q] = "enqueue", c \in fresh[q], ~InTable PROVE Held
  <2>1. jobState'[Extract(c)] = "absent"
    BY <1>1, <1>2, <1>3, <1>5
  <2>2. CASE QueueActs
    BY <1>5, <2>2, QueueRows DEF requestVars
  <2>3. ASSUME NEW s \in Requests, EnqueueExtract(s) PROVE Held
    <3>1. PICK d \in fresh[s] : Enqueue(Extract(d)) /\ fresh' = [fresh EXCEPT ![s] = @ \ {d}] /\ pc' = pc
      BY <2>3 DEF EnqueueExtract
    <3>2. d # c
      BY <1>1, <1>2, <2>1, <3>1 DEF Enqueue, Queue!Admit, queueVars
    <3> QED BY <1>1, <1>5, <3>1, <3>2
  <2>4. \A s \in Requests : ~IngestDies(s)
    BY FaultsCount DEF IngestDies, NoFault
  <2>5. ASSUME NEW s \in Requests,
               BeginIngest(s) \/ Insert(s) \/ DiskFull(s) \/ Commit(s) \/ CommitFails(s) \/ Unlink(s)
                 \/ NextDocument(s)
        PROVE  pc'[q] = "enqueue" /\ c \in fresh'[q]
    BY <1>1, <1>5, <2>5 DEF BeginIngest, Insert, DiskFull, Commit, CommitFails, Unlink, NextDocument,
         MayInsert, EndRequest
  <2> QED BY <1>5, <2>2, <2>3, <2>4, <2>5, WhoActs DEF RequestActs, RequestStep
<1>6. CASE row[c] = "pending_extraction"
  <2>1. \/ jobState[Extract(c)] \in {"pending", "failed"}
        \/ \E q \in Requests : pc[q] = "enqueue" /\ c \in fresh[q]
    BY <1>6, FewerStill DEF PendingAwaited
  <2> QED BY <1>4, <1>5, <2>1
<1>7. CASE row[c] # "pending_extraction"
  <2>1. RequestActs
    BY <1>7, WhoActs, QueueRows
  <2>2. PICK q \in Requests : Commit(q) \/ CommitFails(q)
    BY <1>7, <2>1 DEF RequestActs, RequestStep, BeginIngest, Insert, DiskFull, Unlink, EnqueueExtract,
         NextDocument, IngestDies, storeVars
  <2>3. ~Fault("answer")
    BY FaultsCount DEF NoFault
  <2>4. Commit(q)
    BY <1>7, <2>2, <2>3 DEF CommitFails
  <2>5. c \in fresh[q] /\ fresh' = fresh /\ pc'[q] = "enqueue"
    BY <1>1, <1>7, <2>4 DEF Commit, CommitRows
  <2> QED BY <2>5
<1> QED BY <1>6, <1>7

LEMMA NextAdmittedAwaited ==
  ASSUME Typed, InsertsOwn, RunsOwn, TodoReady, FollowUpsAfterLinks, JobsFollowRows, AdmittedAwaited, [Next]_vars
  PROVE  AdmittedAwaited'
<1> SUFFICES ASSUME NoFault({"worker", "handler"})', NEW c \in Chunks, row'[c] = "admitted"
             PROVE  \/ jobState'[Append_(c)] = "pending"
                    \/ \E r \in Runs : stage'[r] = "follow" /\ todo'[r] # <<>> /\ Head(todo'[r]) = Append_(c)
  BY DEF AdmittedAwaited, NoFault
<1> DEFINE Comes == \E r \in Runs : stage'[r] = "follow" /\ todo'[r] # <<>> /\ Head(todo'[r]) = Append_(c)
<1>1. /\ stage \in [Runs -> {"idle", "model", "follow"}] /\ chunk \in [Runs -> Chunks \cup {0}]
      /\ todo \in [Runs -> Seq(JobIds)] /\ row \in [Chunks -> Lifecycle]
      /\ jobState \in [JobIds -> {"absent", "pending", "done", "failed"}]
      /\ jobState' \in [JobIds -> {"absent", "pending", "done", "failed"}]
  BY NextTyped DEF Typed, StoreTyped, RunsTyped, QueueTyped
<1>2. Append_(c) \in JobIds
  BY JobsAreIds
<1>3. jobState'[Append_(c)] \notin {"done", "failed"}
  BY NextJobs DEF JobsFollowRows
<1>4. jobState[Append_(c)] # "absent" => jobState'[Append_(c)] = "pending"
  <2>1. \A d \in Chunks, e \in Entities : Append_(c) # Topic(d, e)
    BY JobsApart
  <2>2. jobState[Append_(c)] # "failed"
    BY DEF JobsFollowRows
  <2>3. CASE jobState[Append_(c)] = "done"
    <3>1. row[c] = "buffered"
      BY <2>3 DEF JobsFollowRows
    <3> QED BY <3>1, RowMoves
  <2>4. CASE jobState[Append_(c)] # "done"
    BY <1>1, <1>2, <1>3, <2>1, <2>2, <2>4, JobsRemain
  <2> QED BY <2>3, <2>4
<1>5. \A r \in Runs : ~HandlerFails(r) /\ ~WorkerDies(r)
  BY FaultsCount DEF HandlerFails, WorkerDies, NoFault
<1>6. ASSUME NEW r \in Runs, stage[r] = "follow", todo[r] # <<>>, Head(todo[r]) = Append_(c),
             jobState'[Append_(c)] = "absent"
      PROVE  Comes
  <2>1. ASSUME NEW s \in Runs, EnqueueNext(s) PROVE s # r
    BY <1>2, <1>6, <2>1 DEF EnqueueNext, Enqueue, Queue!Admit, queueVars, Typed, QueueTyped
  <2>2. ASSUME NEW s \in Runs, EnqueueNext(s) \/ Verdict(s) \/ ReturnExtract(s) PROVE s # r
    BY <1>6, <2>1, <2>2 DEF Verdict, ReturnExtract
  <2>3. ASSUME NEW s \in Runs, EnqueueNext(s) \/ Verdict(s) \/ ReturnExtract(s)
        PROVE  stage'[r] = stage[r] /\ todo'[r] = todo[r]
    BY <1>1, <2>2, <2>3 DEF EnqueueNext, Verdict, ReturnExtract, EndRun
  <2>4. ASSUME NEW s \in Runs, NEW d \in Chunks, StartExtract(s, d)
        PROVE  stage'[r] = stage[r] /\ todo'[r] = todo[r]
    BY <1>1, <1>6, <2>4 DEF StartExtract
  <2>5. CASE RequestActs \/ OtherJob \/ UNCHANGED vars
    BY <1>6, <2>5, RequestRows DEF OtherJob, RunAppend, RunTopic, vars, runVars
  <2>6. stage'[r] = stage[r] /\ todo'[r] = todo[r]
    BY <1>5, <2>3, <2>4, <2>5, WhoActs, RequestRows DEF QueueActs, RunStep, OtherJob, RunAppend, RunTopic, vars, runVars
  <2> QED BY <1>6, <2>6
<1>7. CASE row[c] = "admitted"
  <2>1. \/ jobState[Append_(c)] = "pending"
        \/ \E r \in Runs : stage[r] = "follow" /\ todo[r] # <<>> /\ Head(todo[r]) = Append_(c)
    BY <1>7, FewerStill DEF AdmittedAwaited
  <2> QED BY <1>1, <1>2, <1>3, <1>4, <1>6, <2>1
<1>8. CASE row[c] # "admitted"
  <2>1. PICK r \in Runs : Verdict(r) /\ chunk[r] = c
    BY <1>8, WhoActs, RequestRows, QueueRows
  <2>2. todo' = [todo EXCEPT ![r] = <<Append_(c)>> \o Topics(c)]
    BY <1>1, <2>1 DEF Verdict
  <2>3. Topics(c) \in Seq({Topic(c, e) : e \in Entities})
    <3>1. MentionedIn[c] \in Seq(Entities)
      BY PipelineAssumption
    <3> QED BY <3>1 DEF Topics
  <2>4. todo'[r] # <<>> /\ Head(todo'[r]) = Append_(c)
    <3>1. todo'[r] = <<Append_(c)>> \o Topics(c)
      BY <1>1, <2>2
    <3> QED BY <2>3, <3>1
  <2>5. stage'[r] = "follow"
    BY <1>1, <2>1 DEF Verdict
  <2> QED BY <2>4, <2>5
<1> QED BY <1>7, <1>8

-----------------------------------------------------------------------------
(***************************************************************************)
(* The theorems.                                                           *)
(***************************************************************************)

PipeInv ==
  /\ Typed /\ InsertInv
  /\ RunsOwn /\ TodoReady /\ FollowUpsAfterLinks
  /\ FilesInv
  /\ JobsFollowRows /\ PendingAwaited /\ AdmittedAwaited

LEMMA InitPipe == Init => PipeInv
<1>1. Init => PendingAwaited /\ AdmittedAwaited
  BY DEF Init, PendingAwaited, AdmittedAwaited
<1> QED BY <1>1, InitTyped, InitInserts, InitRuns, InitFollowUps, InitFiles, InitJobs DEF PipeInv

LEMMA NextPipe == PipeInv /\ [Next]_vars => PipeInv'
<1> SUFFICES ASSUME PipeInv, [Next]_vars PROVE PipeInv'
  OBVIOUS
<1>1. Typed /\ InsertsOwn /\ InsertInv /\ RunsOwn /\ TodoReady /\ FollowUpsAfterLinks /\ FilesInv
  BY DEF PipeInv, InsertInv
<1>2. JobsFollowRows /\ PendingAwaited /\ AdmittedAwaited
  BY DEF PipeInv
<1> QED BY <1>1, <1>2, NextTyped, NextInserts, NextRuns, NextTodo, NextFollowUps, NextFiles,
       NextJobs, NextPendingAwaited, NextAdmittedAwaited DEF PipeInv

LEMMA Invariant == Spec => []PipeInv
BY InitPipe, NextPipe, PTL DEF Spec

\* No two requests hold one chunk as inserted between its INSERT and its last
\* enqueue, so one commits it and one enqueues it (ON CONFLICT DO NOTHING ...
\* RETURNING, ContentStore.persist); a request that undoes its persist is not meant.
THEOREM OneInserts == Spec => []OneInserter
<1>1. PipeInv => OneInserter
  BY DEF PipeInv, InsertInv
<1> QED BY <1>1, Invariant, PTL

\* A committed row has its file as long as no persist has failed, and a file has
\* its row, or a request that has still to commit or to remove it, as long as no
\* file was torn and no ingesting process has died (ContentStore.persist).
THEOREM FilesWithRows == Spec => []RowsAndFiles
<1>1. PipeInv => RowsAndFiles
  BY DEF PipeInv, FilesInv
<1> QED BY <1>1, Invariant, PTL

\* Links are committed with the admission, and before any job about them is in
\* the queue (Extractor.extract_chunk and its callers).
THEOREM FollowUpsLate == Spec => []FollowUpsAfterLinks
<1>1. PipeInv => FollowUpsAfterLinks
  BY DEF PipeInv
<1> QED BY <1>1, Invariant, PTL

\* A stored chunk is not forgotten: as long as no request died, or took a commit
\* for failed that was none, a chunk without a verdict has its job or will get it
\* (ingest_endpoint, after persist). The safety half of EveryChunkJudged.
THEOREM NoChunkForgotten == Spec => []PendingAwaited
<1>1. PipeInv => PendingAwaited
  BY DEF PipeInv
<1> QED BY <1>1, Invariant, PTL

\* Nor is an admitted one, as long as no run of extract_chunk was broken off: its
\* append_buffer job is in the queue, or next. The safety half of AdmittedIsBuffered.
THEOREM NoAdmittedForgotten == Spec => []AdmittedAwaited
<1>1. PipeInv => AdmittedAwaited
  BY DEF PipeInv
<1> QED BY <1>1, Invariant, PTL

\* No message is posted that is not whole in its chunks, however long it and its
\* lines are and under every budget (compress, _split_blocks, _hard_split).
THEOREM TextsStoredWhole == Spec => []StoredWhole
<1>1. StoredWhole
  BY NoneNotWhole DEF StoredWhole
<1> QED BY <1>1, PTL

\* No run of extract_chunk gives a second verdict, whatever is retried: the
\* lifecycle is looked at first and a chunk has one run at a time.
THEOREM VerdictsFinal == Spec => VerdictFinal
<1> DEFINE Final == \A c \in Chunks :
       /\ row[c] = "dropped" => row'[c] = "dropped"
       /\ row[c] \in {"admitted", "buffered"} => row'[c] \in {"admitted", "buffered"}
<1>1. PipeInv /\ [Next]_vars => Final
  BY RowMoves DEF PipeInv, InsertInv
<1>2. PipeInv /\ [Next]_vars => [Final]_vars
  BY <1>1
<1> QED BY <1>2, Invariant, PTL DEF Spec, VerdictFinal
=============================================================================
