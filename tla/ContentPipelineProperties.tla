---------------------- MODULE ContentPipelineProperties ----------------------
(***************************************************************************)
(* What the way from a posted document to the buffer is relied on for.     *)
(***************************************************************************)
EXTENDS ContentPipeline, DocumentTextProperties

NoFault(kinds) == \A kind \in kinds : faults[kind] = 0

\* Rows and files stay together, whichever requests post the same chunk at once.
\* A committed row has its Markdown file as long as no persist has to undo its
\* work; a file has its row, one committed or one that a request under way has
\* inserted, unless a process has died or a file is half written ("persist rows +
\* vault files atomically", ingest_endpoint; "no dangling rows or files", PROGRESS.md).
RowsAndFiles ==
  /\ NoFault({"disk", "commit", "answer"}) => \A c \in Chunks : Stored(c) => c \in vault
  /\ NoFault({"disk", "ingest"}) =>
       \A c \in vault : Stored(c) \/ \E q \in Requests : c \in fresh[q]

\* Of the requests that post one chunk at once, no two hold it as inserted: only one
\* commits it and enqueues it (ON CONFLICT DO NOTHING ... RETURNING). Nothing is said
\* of one that unlinks: where a persist has failed, its chunk may be another's by then.
OneInserter ==
  \A p, q \in Requests : p # q /\ pc[p] \in {"commit", "enqueue"} /\ pc[q] \in {"commit", "enqueue"}
    => fresh[p] \cap fresh[q] = {}

\* A chunk is admitted with all its links or not at all, and a follow-up job
\* never runs before the chunk it is about is admitted: queues and tables are
\* written one after the other, in this order.
FollowUpsAfterLinks ==
  /\ \A c \in Chunks : row[c] \in {"admitted", "buffered"} =>
       \A i \in DOMAIN MentionedIn[c] : <<c, MentionedIn[c][i]>> \in links
  /\ \A c \in Chunks : jobState[Append_(c)] # "absent" => row[c] \in {"admitted", "buffered"}
  /\ \A c \in Chunks, e \in Entities : jobState[Topic(c, e)] # "absent" => <<c, e>> \in links

\* No request posts a message whose text is not whole in its chunks, whichever
\* of Texts it is (config.py, "deterministic clean-up only on ingest").
StoredWhole == \A q \in Requests : pc[q] = "insert" => NotWhole = {}

\* A verdict is final: no second run of the job gives another.
VerdictFinal ==
  [][\A c \in Chunks :
       /\ row[c] = "dropped" => row'[c] = "dropped"
       /\ row[c] \in {"admitted", "buffered"} => row'[c] \in {"admitted", "buffered"}]_vars

\* Every chunk that is stored gets its verdict, or fails for good, unless the
\* request that stored it never came to enqueue it.
EveryChunkJudged ==
  \A c \in Chunks : row[c] = "pending_extraction" ~>
    \/ row[c] \in {"admitted", "dropped", "buffered"}
    \/ jobState[Extract(c)] = "failed"
    \/ ~NoFault({"ingest", "answer"})

\* Every admitted chunk reaches the buffer, unless its extraction was broken off.
AdmittedIsBuffered ==
  \A c \in Chunks : row[c] = "admitted" ~>
    row[c] = "buffered" \/ ~NoFault({"worker", "handler"})

\* The same, through the crash of a worker ("worker crashes never lose admitted
\* work", queue.py).
CrashesLoseNoAdmitted ==
  \A c \in Chunks : row[c] = "admitted" ~> row[c] = "buffered"

\* What these two rest on, step by step. A chunk without a verdict has its job,
\* or a request that will enqueue it; unless one died, or took its commit for failed.
PendingAwaited ==
  NoFault({"ingest", "answer"}) => \A c \in Chunks : row[c] = "pending_extraction" =>
    \/ jobState[Extract(c)] \in {"pending", "failed"}
    \/ \E q \in Requests : pc[q] = "enqueue" /\ c \in fresh[q]

\* An admitted chunk has its append_buffer job, or a run that enqueues it next;
\* unless a run was broken off.
AdmittedAwaited ==
  NoFault({"worker", "handler"}) => \A c \in Chunks : row[c] = "admitted" =>
    \/ jobState[Append_(c)] = "pending"
    \/ \E r \in Runs : stage[r] = "follow" /\ todo[r] # <<>> /\ Head(todo[r]) = Append_(c)

-----------------------------------------------------------------------------
(***************************************************************************)
(* Why: the parts of an invariant of every step.                           *)
(***************************************************************************)

\* A pending job has an attempt left.
AttemptsLeft == \A j \in JobIds : jobState[j] = "pending" => attempts[j] < MaxRetries

\* The ids that a request holds are of rows that are not committed before its
\* commit, and are after it.
InsertsOwn ==
  \A q \in Requests :
    /\ pc[q] \in {"idle", "insert"} => fresh[q] = {}
    /\ pc[q] = "commit" => \A c \in fresh[q] : ~Stored(c)
    /\ pc[q] = "enqueue" => \A c \in fresh[q] : Stored(c)

\* No two runs have the same chunk, and one that waits for the model has a chunk
\* without a verdict.
RunsOwn ==
  /\ \A r, s \in Runs : r # s /\ chunk[r] # 0 => chunk[r] # chunk[s]
  /\ \A r \in Runs : stage[r] = "model" => row[chunk[r]] = "pending_extraction"

Judged(c) == row[c] \in {"admitted", "dropped", "buffered"}

\* A job to extract comes after its row and ends with a verdict; an append_buffer
\* job ends with its chunk in the buffer, and never fails here.
JobsFollowRows ==
  /\ \A c \in Chunks : jobState[Extract(c)] # "absent" => Stored(c)
  /\ \A c \in Chunks : jobState[Extract(c)] = "done" => Judged(c)
  /\ \A r \in Runs : stage[r] = "follow" => Judged(chunk[r])
  /\ \A c \in Chunks : jobState[Append_(c)] # "failed"
  /\ \A c \in Chunks : jobState[Append_(c)] = "done" => row[c] = "buffered"

\* What a job is about is written.
Ready(j) ==
  /\ \A c \in Chunks : j = Extract(c) => Stored(c)
  /\ \A c \in Chunks : j = Append_(c) => row[c] \in {"admitted", "buffered"}
  /\ \A c \in Chunks, e \in Entities : j = Topic(c, e) => <<c, e>> \in links

TodoReady == \A r \in Runs : \A i \in DOMAIN todo[r] : Ready(todo[r][i])

\* Without a fault of a persist, nothing is to be undone, and the files of the
\* rows are written before the commit.
FilesFirst ==
  NoFault({"disk", "commit", "answer"}) =>
    \A q \in Requests : pc[q] # "unlink" /\ (pc[q] = "commit" => fresh[q] \subseteq vault)
=============================================================================
