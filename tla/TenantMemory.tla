---------------------------- MODULE TenantMemory ----------------------------
(***************************************************************************)
(* What is derived from the chunks of one tenant, and how it is erased:    *)
(* the topic node of an entity (TopicRouter), the digest node of a day     *)
(* (DigestBuilder, DigestScheduler), and ErasureService, which deletes all *)
(* of it while persist, extract_chunk and the handlers go on.              *)
(*                                                                         *)
(* Transactions are READ COMMITTED: a statement sees what is committed when*)
(* it runs, and an UPDATE or DELETE of a row that an open transaction has  *)
(* changed waits for that transaction.  persist and extract_chunk, whose   *)
(* failures ContentPipeline has, are cut here only where an erasure or a   *)
(* midnight can come between; jobs are leased and retried as in WorkerPool.*)
(***************************************************************************)
EXTENDS Naturals, Sequences, FiniteSets, Functions

CONSTANTS
  Chunks,      (* of one tenant, all of which mention one entity           *)
  NumSlots,    (* handlers that may run at once                            *)
  Threshold,   (* mentions up to which an entity is not hot; they are fresh:
                  their decay within LastDay days is left out              *)
  LastDay,     (* bound on the days, counted from 0                        *)
  MaxRetries,
  Faults,
  MaxFaults,   (* bound on the faults, the erasures among them             *)
  MaxPersists  (* bound on the chunks that are persisted, again after an
                  erasure too                                              *)

AllFaults == {"model",    \* a model call fails, and its handler with it
              "worker",   \* the process of a handler dies
              "overrun",  \* a lease runs out under its handler
              "tick",     \* the tick raises a database error
              "down",     \* the process is down at midnight
              "erasure"}  \* erase_tenant is called; its process may die

ASSUME MemoryAssumption ==
  /\ Chunks # {}
  /\ NumSlots \in Nat /\ Threshold \in Nat /\ LastDay \in Nat /\ MaxRetries \in Nat \ {0}
  /\ Faults \subseteq AllFaults /\ MaxFaults \in Nat /\ MaxPersists \in Nat

VARIABLES
  lifecycle, born,    (* chunks: lifecycle, and created_at: the day on which
                         the transaction of the row began                  *)
  files,              (* chunks with a file in the tenant's vault          *)
  writing, persists,  (* chunks inserted, not yet committed; how many ever *)
  entity, links,      (* is the row of the entity there; its chunk_entities*)
  following,          (* of each chunk: admissions yet to enqueue its job  *)
  swallowed,          (* history: chunks whose admission found their job   *)
  late,               (* history: chunks committed after their day's tick
                         had looked for its chunks                         *)
  nodes,              (* the summaries of the topic and of each day        *)
  job, tries,         (* the queue                                         *)
  run,                (* of each slot: what its handler does               *)
  today, scheduler,   (* the clock, and the task of DigestScheduler        *)
  eraser, doomed,     (* ErasureService, and what it has selected          *)
  straddled,          (* history: chunks in writing during an erasure      *)
  faults              (* how often each of the faults has happened         *)

storeVars == <<lifecycle, born, files, writing, persists, entity, links, following, swallowed,
               late>>
clockVars == <<today, scheduler>>
eraseVars == <<eraser, doomed, straddled>>
vars == <<storeVars, nodes, job, tries, run, clockVars, eraseVars, faults>>

-----------------------------------------------------------------------------

Slots == 1..NumSlots
Days  == 0..LastDay

\* Jobs, by their dedupe keys: topic:{entity}:{chunk} and digest:{tenant}:{day}.
Topic(c)  == <<"topic", c>>
Digest(d) == <<"digest", d>>
TopicJobs == {Topic(c) : c \in Chunks}
DayJobs   == {Digest(d) : d \in Days}
Jobs      == TopicJobs \cup DayJobs

\* What a summary is about (tree_type, scope_id): the entity, or a day.
Scope(j) == IF j \in TopicJobs THEN <<"topic">> ELSE j
Scopes   == {Scope(j) : j \in Jobs}

\* A summary: what it covers, and whether its writer held the entity's row.
Node == [covers : SUBSET Chunks, locked : BOOLEAN]

PC == {"update", "model", "insert", "refresh", "stale", "ack"}

Idle == [pc |-> "idle"]
Handler == [pc : PC, job : Jobs, row : BOOLEAN,  \* is its job still there?
            seen : SUBSET Chunks, locked : BOOLEAN]

NothingDoomed == [chunks |-> {}, topics |-> FALSE, entity |-> FALSE,
                  nodes |-> [x \in Scopes |-> 0]]

\* The types of the tables, the handlers and the erasure: a row lock is held only
\* between the UPDATE and the commit of its handler.
TypeOK ==
  /\ lifecycle \in [Chunks -> {"absent", "pending", "admitted"}]
  /\ born \in [Chunks -> Days]
  /\ files \subseteq Chunks /\ writing \subseteq files \cup straddled /\ links \subseteq Chunks
  /\ following \in [Chunks -> Nat]
  /\ swallowed \subseteq Chunks /\ late \subseteq Chunks
  /\ \A c \in writing : lifecycle[c] = "absent"
  /\ entity \in BOOLEAN
  /\ \A x \in Scopes : nodes[x] \in Seq(Node)
  /\ job \in [Jobs -> {"absent", "queued", "running", "done", "failed"}]
  /\ tries \in [Jobs -> Nat]
  /\ run \in [Slots -> Handler \cup {Idle}]
  /\ \A s \in Slots : run[s] # Idle =>
       (run[s].locked => run[s].pc \in {"model", "insert", "refresh", "stale"})
  /\ today \in Days /\ scheduler \in {"asleep", "tick", "enqueue", "dead"}
  /\ eraser \in {"idle", "entities", "summaries", "commit", "files"}
  /\ straddled \subseteq Chunks
  /\ faults \in [AllFaults -> Nat]

Init ==
  /\ lifecycle = [c \in Chunks |-> "absent"] /\ born = [c \in Chunks |-> 0]
  /\ files = {} /\ writing = {} /\ persists = 0 /\ links = {} /\ entity = FALSE
  /\ following = [c \in Chunks |-> 0] /\ swallowed = {} /\ late = {}
  /\ nodes = [x \in Scopes |-> <<>>]
  /\ job = [j \in Jobs |-> "absent"] /\ tries = [j \in Jobs |-> 0]
  /\ run = [s \in Slots |-> Idle]
  /\ today = 0 /\ scheduler = "asleep"
  /\ eraser = "idle" /\ doomed = NothingDoomed /\ straddled = {}
  /\ faults = [kind \in AllFaults |-> 0]

Fault(kind) ==
  /\ kind \in Faults
  /\ SumFunction(faults) < MaxFaults
  /\ faults' = [faults EXCEPT ![kind] = @ + 1]

Enqueue(j) == IF job[j] = "absent" THEN [job EXCEPT ![j] = "queued"] ELSE job

Busy(s) == run[s] # Idle

\* Mutant of RowFree: the UPDATE is committed before the model call.
RowFree_EarlyCommit == ~doomed.entity

\* Whether another transaction may lock the row of the entity.
RowFree == ~doomed.entity /\ \A s \in Slots : Busy(s) => ~run[s].locked

-----------------------------------------------------------------------------
(***************************************************************************)
(* ContentStore.persist and Extractor.extract_chunk.                       *)
(***************************************************************************)

Erasing == eraser # "idle"

\* The rows of a document are inserted and its files written: created_at is now(),
\* which is when the transaction of the INSERT began ...
WriteFile(c) ==
  /\ lifecycle[c] = "absent" /\ c \notin writing
  /\ persists < MaxPersists
  /\ persists' = persists + 1
  /\ writing' = writing \cup {c}
  /\ born' = [born EXCEPT ![c] = today]
  /\ files' = files \cup {c}
  /\ straddled' = IF Erasing THEN straddled \cup {c} ELSE straddled \ {c}
  /\ UNCHANGED <<lifecycle, entity, links, following, swallowed, late, nodes, job, tries, run,
                 clockVars, eraser, doomed, faults>>

\* Whether the tick that looks for the chunks of a day has yet to look.
YetToLook(d) == d = today \/ (d = today - 1 /\ scheduler = "tick")

\* ... and only then committed.
CommitRow(c) ==
  /\ c \in writing
  /\ writing' = writing \ {c}
  /\ lifecycle' = [lifecycle EXCEPT ![c] = "pending"]
  /\ late' = IF YetToLook(born[c]) THEN late \ {c} ELSE late \cup {c}
  /\ UNCHANGED <<born, files, persists, entity, links, following, swallowed, nodes, job, tries, run,
                 clockVars, eraseVars, faults>>

\* An admission writes the entity and the link in one transaction ...
Admit(c) ==
  /\ lifecycle[c] = "pending" /\ c \notin doomed.chunks
  /\ RowFree
  /\ lifecycle' = [lifecycle EXCEPT ![c] = "admitted"]
  /\ entity' = TRUE
  /\ links' = links \cup {c}
  /\ following' = [following EXCEPT ![c] = @ + 1]
  /\ swallowed' = IF job[Topic(c)] = "absent" THEN swallowed \ {c} ELSE swallowed \cup {c}
  /\ UNCHANGED <<born, files, writing, persists, late, nodes, job, tries, run, clockVars, eraseVars,
                 faults>>

\* ... and enqueues topic_route after its commit, if its process still runs.  Nothing
\* is enqueued where the job of an earlier life of the chunk is there: one that an
\* erasure has left, or that was enqueued after it (the id of an entity is a digest
\* of its name).
EnqueueTopic(c) ==
  /\ following[c] > 0
  /\ following' = [following EXCEPT ![c] = @ - 1]
  /\ job' = Enqueue(Topic(c))
  /\ UNCHANGED <<lifecycle, born, files, writing, persists, entity, links, swallowed, late, nodes,
                 tries, run, clockVars, eraseVars, faults>>

-----------------------------------------------------------------------------
(***************************************************************************)
(* The handlers.  Both read what there is to cover, call the model, look   *)
(* for the node of their scope, and insert or refresh it.  topic_route has *)
(* updated the entity before the call, and holds its row until the commit. *)
(***************************************************************************)

Go(s, pc) == run' = [run EXCEPT ![s].pc = pc]

\* Slots are all alike: the first that is idle is taken.
Leased(s, j, pc, seen) ==
  /\ ~Busy(s) /\ \A t \in 1..(s - 1) : Busy(t)
  /\ job[j] = "queued"
  /\ job' = [job EXCEPT ![j] = "running"]
  /\ run' = [run EXCEPT ![s] = [pc |-> pc, job |-> j, row |-> TRUE, seen |-> seen,
                               locked |-> FALSE]]
  /\ UNCHANGED <<storeVars, nodes, tries, clockVars, eraseVars, faults>>

StartTopic(s, c) == Leased(s, Topic(c), IF entity THEN "update" ELSE "ack", links)

MadeOn(d) == {c \in Chunks : lifecycle[c] = "admitted" /\ born[c] = d}

StartDigest(s, d) ==
  Leased(s, Digest(d), IF MadeOn(d) = {} THEN "ack" ELSE "model", MadeOn(d))

Hot(seen) == Cardinality(seen) > Threshold

\* Mutant of UpdateHotness: one mention more than the threshold is not enough.
UpdateHotness_OffByOne(s) ==
  /\ Busy(s) /\ run[s].pc = "update"
  /\ RowFree
  /\ IF Cardinality(run[s].seen) > Threshold + 1
     THEN run' = [run EXCEPT ![s].pc = "model", ![s].locked = entity]
     ELSE Go(s, "ack")
  /\ UNCHANGED <<storeVars, nodes, job, tries, clockVars, eraseVars, faults>>

\* UPDATE entities SET hotness: of no row, when the entity is erased by now.
UpdateHotness(s) ==
  /\ Busy(s) /\ run[s].pc = "update"
  /\ RowFree
  /\ IF Hot(run[s].seen)
     THEN run' = [run EXCEPT ![s].pc = "model", ![s].locked = entity]
     ELSE Go(s, "ack")
  /\ UNCHANGED <<storeVars, nodes, job, tries, clockVars, eraseVars, faults>>

Existing(s) == nodes[Scope(run[s].job)]

\* The model answers, and the node of the scope is looked up.
LookUp(s) ==
  /\ Busy(s) /\ run[s].pc = "model" /\ Len(Existing(s)) < 2
  /\ Go(s, IF Existing(s) = <<>> THEN "insert" ELSE "refresh")
  /\ UNCHANGED <<storeVars, nodes, job, tries, clockVars, eraseVars, faults>>

NodeDoomed(s) == eraser = "commit" /\ doomed.nodes[Scope(run[s].job)] > 0

\* Mutant of WriteNode: the session stays open until the job is acked.
WriteNode_NoCommit(s) ==
  LET node == [covers |-> run[s].seen, locked |-> run[s].locked]
      x    == Scope(run[s].job)
  IN /\ Busy(s)
     /\ \/ /\ run[s].pc = "insert"
           /\ nodes' = [nodes EXCEPT ![x] = Append(@, node)]
        \/ /\ run[s].pc = "refresh" /\ ~NodeDoomed(s)
           /\ nodes' = [nodes EXCEPT ![x][1] = node]
     /\ Go(s, "ack")
     /\ UNCHANGED <<storeVars, job, tries, clockVars, eraseVars, faults>>

WriteNode(s) ==
  LET node == [covers |-> run[s].seen, locked |-> run[s].locked]
      x    == Scope(run[s].job)
  IN /\ Busy(s)
     /\ \/ /\ run[s].pc = "insert"
           /\ nodes' = [nodes EXCEPT ![x] = Append(@, node)]
        \/ /\ run[s].pc = "refresh" /\ ~NodeDoomed(s)
           /\ nodes' = [nodes EXCEPT ![x][1] = node]
     /\ run' = [run EXCEPT ![s].pc = "ack", ![s].locked = FALSE]
     /\ UNCHANGED <<storeVars, job, tries, clockVars, eraseVars, faults>>

\* ack, of the row by its id: nothing happens when it is gone.
Ack(s) ==
  /\ Busy(s) /\ run[s].pc = "ack"
  /\ job' = IF run[s].row THEN [job EXCEPT ![run[s].job] = "done"] ELSE job
  /\ run' = [run EXCEPT ![s] = Idle]
  /\ UNCHANGED <<storeVars, nodes, tries, clockVars, eraseVars, faults>>

\* The handler has raised, which rolls its transaction back: fail().
Fail(s) ==
  LET j == run[s].job
  IN /\ IF run[s].row
        THEN /\ tries' = [tries EXCEPT ![j] = @ + 1]
             /\ job' = [job EXCEPT ![j] = IF tries[j] + 1 >= MaxRetries THEN "failed" ELSE "queued"]
        ELSE UNCHANGED <<tries, job>>
     /\ run' = [run EXCEPT ![s] = Idle]
     /\ UNCHANGED <<storeVars, nodes, clockVars, eraseVars>>

\* scalar_one_or_none() finds two nodes, or the node to refresh is gone.
Raises(s) ==
  /\ Busy(s)
  /\ \/ run[s].pc = "model" /\ Len(Existing(s)) >= 2
     \/ run[s].pc = "stale"
  /\ Fail(s)
  /\ UNCHANGED faults

ModelFails(s) ==
  /\ Busy(s) /\ run[s].pc = "model"
  /\ Fault("model")
  /\ Fail(s)

\* The lease of a dead worker runs out.
WorkerDies(s) ==
  /\ Busy(s)
  /\ Fault("worker")
  /\ job' = IF run[s].row THEN [job EXCEPT ![run[s].job] = "queued"] ELSE job
  /\ run' = [run EXCEPT ![s] = Idle]
  /\ UNCHANGED <<storeVars, nodes, tries, clockVars, eraseVars>>

Overrun(s) ==
  /\ Busy(s) /\ run[s].row /\ job[run[s].job] = "running"
  /\ Fault("overrun")
  /\ job' = [job EXCEPT ![run[s].job] = "queued"]
  /\ UNCHANGED <<storeVars, nodes, tries, run, clockVars, eraseVars>>

-----------------------------------------------------------------------------
(***************************************************************************)
(* DigestScheduler: one task that sleeps until midnight and then enqueues  *)
(* the digest of the day that has ended.                                   *)
(***************************************************************************)

Midnight ==
  /\ today < LastDay
  /\ scheduler \in {"asleep", "dead"}
  /\ today' = today + 1
  /\ scheduler' = IF scheduler = "asleep" THEN "tick" ELSE scheduler
  /\ UNCHANGED <<storeVars, nodes, job, tries, run, eraseVars, faults>>

\* A process that is down at midnight does not make up for the tick later.
MissedMidnight ==
  /\ today < LastDay
  /\ scheduler \in {"asleep", "dead"}
  /\ Fault("down")
  /\ today' = today + 1
  /\ scheduler' = "asleep"
  /\ UNCHANGED <<storeVars, nodes, job, tries, run, eraseVars>>

MadeThatDay == {c \in Chunks : lifecycle[c] # "absent" /\ born[c] = today - 1}

\* The tick looks for the chunks of the day ...
Tick ==
  /\ scheduler = "tick"
  /\ scheduler' = IF MadeThatDay = {} THEN "asleep" ELSE "enqueue"
  /\ UNCHANGED <<storeVars, nodes, job, tries, run, today, eraseVars, faults>>

\* Mutant of EnqueueDigest: the digest of the day that begins.
EnqueueDigest_Tomorrow ==
  /\ scheduler = "enqueue"
  /\ scheduler' = "asleep"
  /\ job' = Enqueue(Digest(today))
  /\ UNCHANGED <<storeVars, nodes, tries, run, today, eraseVars, faults>>

\* ... and then enqueues the digest of it.
EnqueueDigest ==
  /\ scheduler = "enqueue"
  /\ scheduler' = "asleep"
  /\ job' = Enqueue(Digest(today - 1))
  /\ UNCHANGED <<storeVars, nodes, tries, run, today, eraseVars, faults>>

\* _run catches nothing: its task is gone until the process is restarted.
TickFails ==
  /\ scheduler \in {"tick", "enqueue"}
  /\ Fault("tick")
  /\ scheduler' = "dead"
  /\ UNCHANGED <<storeVars, nodes, job, tries, run, today, eraseVars>>

-----------------------------------------------------------------------------
(***************************************************************************)
(* erase_tenant: one transaction of several statements, and then rmtree.   *)
(***************************************************************************)

\* Mutant of EraseChunks: the vault is swept before the transaction.
EraseChunks_FilesFirst ==
  /\ eraser = "idle"
  /\ Fault("erasure")
  /\ eraser' = "entities"
  /\ doomed' = [NothingDoomed EXCEPT
                  !.chunks = {c \in Chunks : lifecycle[c] # "absent"}, !.topics = entity]
  /\ straddled' = straddled \cup writing
  /\ files' = {}
  /\ UNCHANGED <<lifecycle, born, writing, persists, entity, links, following, swallowed, late,
                 nodes, job, tries, run, clockVars>>

\* The ids are selected, the links, scores and chunks deleted.
EraseChunks ==
  /\ eraser = "idle"
  /\ Fault("erasure")
  /\ eraser' = "entities"
  /\ doomed' = [NothingDoomed EXCEPT
                  !.chunks = {c \in Chunks : lifecycle[c] # "absent"}, !.topics = entity]
  /\ straddled' = straddled \cup writing
  /\ UNCHANGED <<storeVars, nodes, job, tries, run, clockVars>>

\* Mutant of EraseEntities: the row of the entity is not waited for.
EraseEntities_NoWait ==
  /\ eraser = "entities"
  /\ eraser' = "summaries"
  /\ doomed' = [doomed EXCEPT !.entity = entity]
  /\ UNCHANGED <<storeVars, nodes, job, tries, run, clockVars, straddled, faults>>

EraseEntities ==
  /\ eraser = "entities"
  /\ RowFree
  /\ eraser' = "summaries"
  /\ doomed' = [doomed EXCEPT !.entity = entity]
  /\ UNCHANGED <<storeVars, nodes, job, tries, run, clockVars, straddled, faults>>

EraseSummaries ==
  /\ eraser = "summaries"
  /\ eraser' = "commit"
  /\ doomed' = [doomed EXCEPT !.nodes = [x \in Scopes |-> Len(nodes[x])]]
  /\ UNCHANGED <<storeVars, nodes, job, tries, run, clockVars, straddled, faults>>

\* Jobs are found by the tenant, or by an id of those selected, in their payload.
Found(j) == j \in DayJobs \/ doomed.topics

Orphan(r) ==
  IF r = Idle THEN r
  ELSE [r EXCEPT !.row = @ /\ ~Found(r.job),
                 !.pc = IF @ = "refresh" /\ doomed.nodes[Scope(r.job)] > 0 THEN "stale" ELSE @]

EraseCommit ==
  /\ eraser = "commit"
  /\ eraser' = "files"
  /\ lifecycle' = [c \in Chunks |-> IF c \in doomed.chunks THEN "absent" ELSE lifecycle[c]]
  /\ born' = [c \in Chunks |-> IF c \in doomed.chunks THEN 0 ELSE born[c]]
  /\ links' = IF doomed.entity THEN {} ELSE links \ doomed.chunks
  /\ entity' = (entity /\ ~doomed.entity)
  /\ nodes' = [x \in Scopes |-> SubSeq(nodes[x], doomed.nodes[x] + 1, Len(nodes[x]))]
  /\ job' = [j \in Jobs |-> IF Found(j) THEN "absent" ELSE job[j]]
  /\ tries' = [j \in Jobs |-> IF Found(j) THEN 0 ELSE tries[j]]
  /\ run' = [s \in Slots |-> Orphan(run[s])]
  /\ doomed' = NothingDoomed
  /\ UNCHANGED <<files, writing, persists, following, swallowed, late, clockVars, straddled, faults>>

EraseFiles ==
  /\ eraser = "files"
  /\ eraser' = "idle"
  /\ files' = {}
  /\ UNCHANGED <<lifecycle, born, writing, persists, entity, links, following, swallowed, late,
                 nodes, job, tries, run, clockVars, doomed, straddled, faults>>

EraserDies ==
  /\ Erasing
  /\ eraser' = "idle"
  /\ doomed' = NothingDoomed
  /\ UNCHANGED <<storeVars, nodes, job, tries, run, clockVars, straddled, faults>>

-----------------------------------------------------------------------------

Handle(s) ==
  \/ \E c \in Chunks : StartTopic(s, c)
  \/ \E d \in Days : StartDigest(s, d)
  \/ UpdateHotness(s) \/ LookUp(s) \/ WriteNode(s) \/ Raises(s) \/ Ack(s)

Schedule == Midnight \/ Tick \/ EnqueueDigest

EraseStep == EraseEntities \/ EraseSummaries \/ EraseCommit \/ EraseFiles

Next ==
  \/ \E c \in Chunks : WriteFile(c) \/ CommitRow(c) \/ Admit(c) \/ EnqueueTopic(c)
  \/ \E s \in Slots : Handle(s) \/ ModelFails(s) \/ WorkerDies(s) \/ Overrun(s)
  \/ Schedule \/ MissedMidnight \/ TickFails
  \/ EraseChunks \/ EraseStep \/ EraserDies

Spec == Init /\ [][Next]_vars

\* As long as a handler can go on one does, and midnight comes.
FairSpec == Spec /\ WF_vars(\E s \in Slots : Handle(s)) /\ WF_vars(Schedule)
=============================================================================
