--------------------------- MODULE ContentPipeline ---------------------------
(***************************************************************************)
(* From a posted document to a chunk in the buffer: the ingest route,      *)
(* ContentStore.persist, Extractor.extract_chunk, and the jobs by which    *)
(* one hands its work to the next.                                         *)
(*                                                                         *)
(* The queue is the one that DurableQueue promises, which WorkerPool is    *)
(* shown to keep while leases outlast their handlers: a pending job is run *)
(* again until its handler returns or has failed MaxRetries times, by one  *)
(* worker at a time.  The append_buffer handler is the subject of          *)
(* SourceTree, topic_route of TenantMemory: here each is one step.         *)
(***************************************************************************)
EXTENDS Naturals, Sequences, FiniteSets, Functions

CONSTANTS
  NumChunks,    (* content-addressed ids, numbered in their sort order     *)
  Entities,
  MentionedIn,  (* the entities a verdict finds in each chunk, in order    *)
  Payloads,     (* what may be posted: sequences of documents, each the set
                   of its chunks                                           *)
  Requests,     (* ingest requests that may be under way at once           *)
  Runs,         (* extract_chunk handlers that may run at once             *)
  MaxRetries,
  Faults,
  MaxFaults,    (* bound on the faults                                     *)
  MaxIngests    (* bound on the requests                                   *)

AllFaults == {"disk",     \* a vault file cannot be written
              "commit",   \* persist's commit is rolled back
              "answer",   \* persist's commit lands, but raises
              "ingest",   \* the process of a request dies
              "worker",   \* the process of a handler dies
              "handler"}  \* a handler raises

Chunks == 1..NumChunks

ASSUME PipelineAssumption ==
  /\ NumChunks \in Nat
  /\ MentionedIn \in [Chunks -> Seq(Entities)]
  /\ Payloads \subseteq Seq(SUBSET Chunks \ {{}})
  /\ MaxRetries \in Nat \ {0}
  /\ Faults \subseteq AllFaults
  /\ MaxFaults \in Nat /\ MaxIngests \in Nat

VARIABLES
  row,       (* chunks.lifecycle of the committed rows                     *)
  vault,     (* chunks with a Markdown file                                *)
  links,     (* chunk_entities                                             *)
  jobState, attempts,    (* the queue                                      *)
  pc, left, fresh,       (* of each request: where it stands, the documents
                            to come, and the ids its INSERT returned       *)
  stage, chunk, todo,    (* of each run: where it stands, its chunk, and
                            the jobs it has still to enqueue               *)
  begun,
  faults     (* how often each of the faults has happened                    *)

Extract(c)  == <<"extract", c>>
Append_(c)  == <<"append", c>>
Topic(c, e) == <<"topic", c, e>>

JobIds == {Extract(c) : c \in Chunks} \cup {Append_(c) : c \in Chunks}
            \cup {Topic(c, e) : c \in Chunks, e \in Entities}

Queue == INSTANCE DurableQueue WITH Jobs <- JobIds, state <- jobState

queueVars   == <<jobState, attempts>>
storeVars   == <<row, vault, links>>
requestVars == <<pc, left, fresh, begun>>
runVars     == <<stage, chunk, todo>>
vars == <<storeVars, queueVars, requestVars, runVars, faults>>

-----------------------------------------------------------------------------

Lifecycle == {"absent", "pending_extraction", "admitted", "dropped", "buffered"}

\* The tables, and what a request or a run has still to do where it stands.
TypeOK ==
  /\ row \in [Chunks -> Lifecycle]
  /\ vault \subseteq Chunks
  /\ links \subseteq Chunks \X Entities
  /\ jobState \in [JobIds -> {"absent", "pending", "done", "failed"}]
  /\ attempts \in [JobIds -> 0..MaxRetries]
  /\ pc \in [Requests -> {"idle", "insert", "commit", "unlink", "enqueue"}]
  /\ left \in [Requests -> Seq(SUBSET Chunks)]
  /\ fresh \in [Requests -> SUBSET Chunks]
  /\ stage \in [Runs -> {"idle", "model", "follow"}]
  /\ chunk \in [Runs -> Chunks \cup {0}]
  /\ todo \in [Runs -> Seq(JobIds)]
  /\ begun \in Nat
  /\ faults \in [AllFaults -> Nat]
  /\ \A q \in Requests : pc[q] = "idle" <=> left[q] = <<>>
  /\ \A r \in Runs : stage[r] = "idle" <=> chunk[r] = 0

Init ==
  /\ row = [c \in Chunks |-> "absent"]
  /\ vault = {}
  /\ links = {}
  /\ Queue!Init
  /\ pc = [q \in Requests |-> "idle"]
  /\ left = [q \in Requests |-> <<>>]
  /\ fresh = [q \in Requests |-> {}]
  /\ stage = [r \in Runs |-> "idle"]
  /\ chunk = [r \in Runs |-> 0]
  /\ todo = [r \in Runs |-> <<>>]
  /\ begun = 0
  /\ faults = [kind \in AllFaults |-> 0]

Stored(c) == row[c] # "absent"

\* enqueue: nothing happens when the dedupe key is in the table.
Enqueue(j) == IF jobState[j] = "absent" THEN Queue!Admit(j) ELSE UNCHANGED queueVars

Fault(kind) ==
  /\ kind \in Faults
  /\ SumFunction(faults) < MaxFaults
  /\ faults' = [faults EXCEPT ![kind] = @ + 1]

EndRequest(q) ==
  /\ pc' = [pc EXCEPT ![q] = "idle"]
  /\ left' = [left EXCEPT ![q] = <<>>]
  /\ fresh' = [fresh EXCEPT ![q] = {}]

-----------------------------------------------------------------------------
(***************************************************************************)
(* The ingest route: per document, persist and then one enqueue per id     *)
(* that persist has inserted.                                              *)
(***************************************************************************)

BeginIngest(q) ==
  /\ pc[q] = "idle"
  /\ begun < MaxIngests
  /\ \E p \in Payloads \ {<<>>} : left' = [left EXCEPT ![q] = p]
  /\ pc' = [pc EXCEPT ![q] = "insert"]
  /\ begun' = begun + 1
  /\ UNCHANGED <<storeVars, queueVars, fresh, runVars, faults>>

\* The INSERT waits for a transaction that has inserted one of the same ids.
MayInsert(q) ==
  /\ pc[q] = "insert"
  /\ \A s \in Requests \ {q} : pc[s] = "commit" => fresh[s] \cap Head(left[q]) = {}

\* ON CONFLICT DO NOTHING ... RETURNING
Inserted(q) == {c \in Head(left[q]) : ~Stored(c)}

\* Mutant of Insert: the files of all drafts are written, and are this call's.
Insert_AllDrafts(q) ==
  /\ MayInsert(q)
  /\ fresh' = [fresh EXCEPT ![q] = Head(left[q])]
  /\ vault' = vault \cup Head(left[q])
  /\ pc' = [pc EXCEPT ![q] = "commit"]
  /\ UNCHANGED <<row, links, queueVars, left, begun, runVars, faults>>

\* Mutant of Insert: the files are left to be written after the commit.
Insert_FilesAfter(q) ==
  /\ MayInsert(q)
  /\ fresh' = [fresh EXCEPT ![q] = Inserted(q)]
  /\ pc' = [pc EXCEPT ![q] = "commit"]
  /\ UNCHANGED <<storeVars, queueVars, left, begun, runVars, faults>>

\* The INSERT, then the file of each new row, before the commit.
Insert(q) ==
  /\ MayInsert(q)
  /\ fresh' = [fresh EXCEPT ![q] = Inserted(q)]
  /\ vault' = vault \cup Inserted(q)
  /\ pc' = [pc EXCEPT ![q] = "commit"]
  /\ UNCHANGED <<row, links, queueVars, left, begun, runVars, faults>>

\* A file cannot be written: the rows are rolled back. The file that failed is
\* not among those `written`.
DiskFull(q) ==
  /\ MayInsert(q)
  /\ Fault("disk")
  /\ \E bad \in Inserted(q), torn \in BOOLEAN : \E written \in SUBSET (Inserted(q) \ {bad}) :
       /\ vault' = vault \cup written \cup (IF torn THEN {bad} ELSE {})
       /\ fresh' = [fresh EXCEPT ![q] = written]
  /\ pc' = [pc EXCEPT ![q] = "unlink"]
  /\ UNCHANGED <<row, links, queueVars, left, begun, runVars>>

CommitRows(q) == row' = [c \in Chunks |-> IF c \in fresh[q] THEN "pending_extraction" ELSE row[c]]

Commit(q) ==
  /\ pc[q] = "commit"
  /\ CommitRows(q)
  /\ pc' = [pc EXCEPT ![q] = "enqueue"]
  /\ UNCHANGED <<vault, links, queueVars, left, fresh, begun, runVars, faults>>

CommitFails(q) ==
  /\ pc[q] = "commit"
  /\ \/ Fault("commit") /\ UNCHANGED row
     \/ Fault("answer") /\ CommitRows(q)
  /\ pc' = [pc EXCEPT ![q] = "unlink"]
  /\ UNCHANGED <<vault, links, queueVars, left, fresh, begun, runVars>>

\* Mutant of Unlink: a failure of the commit is not among the exceptions caught.
Unlink_NotCaught(q) ==
  /\ pc[q] = "unlink"
  /\ EndRequest(q)
  /\ UNCHANGED <<storeVars, queueVars, begun, runVars, faults>>

\* The session is closed; only now the files are removed.
Unlink(q) ==
  /\ pc[q] = "unlink"
  /\ vault' = vault \ fresh[q]
  /\ EndRequest(q)
  /\ UNCHANGED <<row, links, queueVars, begun, runVars, faults>>

EnqueueExtract(q) ==
  /\ pc[q] = "enqueue"
  /\ \E c \in fresh[q] :
       /\ \A d \in fresh[q] : c <= d
       /\ Enqueue(Extract(c))
       /\ fresh' = [fresh EXCEPT ![q] = @ \ {c}]
  /\ UNCHANGED <<storeVars, pc, left, begun, runVars, faults>>

\* Mutant of NextDocument: one id of each document is enqueued at most.
NextDocument_OneIdEach(q) ==
  /\ pc[q] = "enqueue"
  /\ Cardinality(fresh[q]) < 2
  /\ left' = [left EXCEPT ![q] = Tail(@)]
  /\ pc' = [pc EXCEPT ![q] = IF Len(left[q]) = 1 THEN "idle" ELSE "insert"]
  /\ UNCHANGED <<storeVars, queueVars, fresh, begun, runVars, faults>>

NextDocument(q) ==
  /\ pc[q] = "enqueue"
  /\ fresh[q] = {}
  /\ left' = [left EXCEPT ![q] = Tail(@)]
  /\ pc' = [pc EXCEPT ![q] = IF Len(left[q]) = 1 THEN "idle" ELSE "insert"]
  /\ UNCHANGED <<storeVars, queueVars, fresh, begun, runVars, faults>>

\* The process dies; a transaction under way is rolled back, its files stay.
IngestDies(q) ==
  /\ pc[q] # "idle"
  /\ Fault("ingest")
  /\ EndRequest(q)
  /\ UNCHANGED <<storeVars, queueVars, begun, runVars>>

-----------------------------------------------------------------------------
(***************************************************************************)
(* extract_chunk.                                                          *)
(***************************************************************************)

EndRun(r) ==
  /\ stage' = [stage EXCEPT ![r] = "idle"]
  /\ chunk' = [chunk EXCEPT ![r] = 0]
  /\ todo' = [todo EXCEPT ![r] = <<>>]

\* Mutant of StartExtract: the lifecycle is not looked at.
StartExtract_AnyLifecycle(r, c) ==
  /\ stage[r] = "idle"
  /\ jobState[Extract(c)] = "pending"
  /\ \A s \in Runs : chunk[s] # c
  /\ stage' = [stage EXCEPT ![r] = "model"]
  /\ chunk' = [chunk EXCEPT ![r] = c]
  /\ UNCHANGED <<storeVars, queueVars, requestVars, todo, faults>>

\* A chunk that is not pending extraction any more is skipped, and its job done.
StartExtract(r, c) ==
  /\ stage[r] = "idle"
  /\ jobState[Extract(c)] = "pending"
  /\ \A s \in Runs : chunk[s] # c
  /\ IF row[c] = "pending_extraction"
     THEN /\ stage' = [stage EXCEPT ![r] = "model"]
          /\ chunk' = [chunk EXCEPT ![r] = c]
          /\ UNCHANGED queueVars
     ELSE Queue!Complete(Extract(c)) /\ UNCHANGED <<stage, chunk>>
  /\ UNCHANGED <<storeVars, requestVars, todo, faults>>

Topics(c) == [i \in DOMAIN MentionedIn[c] |-> Topic(c, MentionedIn[c][i])]

\* Mutant of Admitted: the entities are linked in a transaction of their own,
\* which has not happened yet.
Admitted_LinksLater(c) ==
  /\ row' = [row EXCEPT ![c] = "admitted"]
  /\ UNCHANGED links

Admitted(c) ==
  /\ row' = [row EXCEPT ![c] = "admitted"]
  /\ links' = links \cup {<<c, MentionedIn[c][i]>> : i \in DOMAIN MentionedIn[c]}

\* The model has answered: embedding, score, links and lifecycle in one commit.
Verdict(r) ==
  /\ stage[r] = "model"
  /\ stage' = [stage EXCEPT ![r] = "follow"]
  /\ \/ /\ Admitted(chunk[r])
        /\ todo' = [todo EXCEPT ![r] = <<Append_(chunk[r])>> \o Topics(chunk[r])]
     \/ /\ row' = [row EXCEPT ![chunk[r]] = "dropped"]
        /\ UNCHANGED <<links, todo>>
  /\ UNCHANGED <<vault, queueVars, requestVars, chunk, faults>>

EnqueueNext(r) ==
  /\ stage[r] = "follow"
  /\ todo[r] # <<>>
  /\ Enqueue(Head(todo[r]))
  /\ todo' = [todo EXCEPT ![r] = Tail(@)]
  /\ UNCHANGED <<storeVars, requestVars, stage, chunk, faults>>

\* Mutant of ReturnExtract: the follow-ups are not awaited.
ReturnExtract_Early(r) ==
  /\ stage[r] = "follow"
  /\ Queue!Complete(Extract(chunk[r]))
  /\ EndRun(r)
  /\ UNCHANGED <<storeVars, requestVars, faults>>

ReturnExtract(r) ==
  /\ stage[r] = "follow"
  /\ todo[r] = <<>>
  /\ Queue!Complete(Extract(chunk[r]))
  /\ EndRun(r)
  /\ UNCHANGED <<storeVars, requestVars, faults>>

\* A model call, the commit or an enqueue raises: fail().
HandlerFails(r) ==
  /\ stage[r] # "idle"
  /\ Fault("handler")
  /\ Queue!Miss(Extract(chunk[r]))
  /\ EndRun(r)
  /\ UNCHANGED <<storeVars, requestVars>>

WorkerDies(r) ==
  /\ stage[r] # "idle"
  /\ Fault("worker")
  /\ EndRun(r)
  /\ UNCHANGED <<storeVars, queueVars, requestVars>>

-----------------------------------------------------------------------------

\* append_buffer, of which SourceTree has the steps.
RunAppend(c) ==
  /\ Queue!Complete(Append_(c))
  /\ row' = [row EXCEPT ![c] = IF @ = "admitted" THEN "buffered" ELSE @]
  /\ UNCHANGED <<vault, links, requestVars, runVars, faults>>

RunTopic(c, e) ==
  /\ Queue!Complete(Topic(c, e))
  /\ UNCHANGED <<storeVars, requestVars, runVars, faults>>

RequestStep(q) ==
  Insert(q) \/ Commit(q) \/ Unlink(q) \/ EnqueueExtract(q) \/ NextDocument(q)

RunStep(r) ==
  \/ \E c \in Chunks : StartExtract(r, c)
  \/ Verdict(r) \/ EnqueueNext(r) \/ ReturnExtract(r)

OtherJob == \E c \in Chunks : RunAppend(c) \/ \E e \in Entities : RunTopic(c, e)

Next ==
  \/ \E q \in Requests : BeginIngest(q) \/ RequestStep(q)
                           \/ DiskFull(q) \/ CommitFails(q) \/ IngestDies(q)
  \/ \E r \in Runs : RunStep(r) \/ HandlerFails(r) \/ WorkerDies(r)
  \/ OtherJob

Spec == Init /\ [][Next]_vars

\* Every await returns, and the queue runs every pending job.
FairSpec ==
  /\ Spec
  /\ \A q \in Requests : WF_vars(RequestStep(q))
  /\ \A r \in Runs : WF_vars(RunStep(r))
  /\ WF_vars(OtherJob)
=============================================================================
