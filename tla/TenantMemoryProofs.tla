-------------------------- MODULE TenantMemoryProofs --------------------------
(***************************************************************************)
(* Proofs about the derived memory of a tenant and its erasure, for any    *)
(* number of chunks, handlers and days, and under every fault.             *)
(***************************************************************************)
EXTENDS TenantMemoryProperties, SequenceTheorems, FiniteSetTheorems, TLAPS

-----------------------------------------------------------------------------
(***************************************************************************)
(* Types, in parts that few actions touch.                                 *)
(***************************************************************************)

StoreTyped ==
  /\ lifecycle \in [Chunks -> {"absent", "pending", "admitted"}]
  /\ born \in [Chunks -> Days]
  /\ files \subseteq Chunks /\ writing \subseteq Chunks /\ links \subseteq Chunks
  /\ following \in [Chunks -> Nat]
  /\ swallowed \subseteq Chunks /\ late \subseteq Chunks
  /\ \A c \in writing : lifecycle[c] = "absent"
  /\ entity \in BOOLEAN

NodesTyped == nodes \in [Scopes -> Seq(Node)]

QueueTyped ==
  /\ job \in [Jobs -> {"absent", "queued", "running", "done", "failed"}]
  /\ tries \in [Jobs -> Nat]

RunsTyped ==
  /\ run \in [Slots -> Handler \cup {Idle}]
  /\ \A s \in Slots : Busy(s) => (run[s].locked => run[s].pc \in {"model", "insert", "refresh", "stale"})

ClockTyped ==
  /\ today \in Days /\ scheduler \in {"asleep", "tick", "enqueue", "dead"}
  /\ scheduler = "enqueue" => today - 1 \in Days

EraseTyped ==
  /\ eraser \in {"idle", "entities", "summaries", "commit", "files"}
  /\ doomed \in [chunks : SUBSET Chunks, topics : BOOLEAN, entity : BOOLEAN, nodes : [Scopes -> Nat]]
  /\ eraser \in {"idle", "files"} => doomed = NothingDoomed
  /\ straddled \subseteq Chunks

FaultsTyped == faults \in [AllFaults -> Nat]

Typed ==
  /\ StoreTyped /\ NodesTyped /\ QueueTyped /\ RunsTyped
  /\ ClockTyped /\ EraseTyped /\ FaultsTyped

\* What a step leaves alone keeps its type.
LEMMA PartsKept ==
  ASSUME Typed
  PROVE  /\ UNCHANGED storeVars => StoreTyped'
         /\ UNCHANGED nodes => NodesTyped'
         /\ UNCHANGED <<job, tries>> => QueueTyped'
         /\ UNCHANGED run => RunsTyped'
         /\ UNCHANGED clockVars => ClockTyped'
         /\ UNCHANGED eraseVars => EraseTyped'
         /\ UNCHANGED faults => FaultsTyped'
BY DEF Typed, StoreTyped, NodesTyped, QueueTyped, RunsTyped, ClockTyped, EraseTyped, FaultsTyped,
       Busy, storeVars, clockVars, eraseVars

\* The scope of a job: that of the entity, or the day's own.
LEMMA ScopesOfJobs ==
  /\ \A c \in Chunks : Topic(c) \in Jobs /\ Scope(Topic(c)) = <<"topic">>
  /\ \A d \in Days : Digest(d) \in Jobs /\ Digest(d) \notin TopicJobs /\ Scope(Digest(d)) = Digest(d)
  /\ \A d \in Days : Digest(d) # <<"topic">>
  /\ \A j \in Jobs : Scope(j) \in Scopes
  /\ <<"topic">> \in Scopes
<1>1. \A c \in Chunks : Topic(c) \in Jobs /\ Scope(Topic(c)) = <<"topic">>
  BY DEF Jobs, TopicJobs, Scope
<1>2. \A d \in Days : Digest(d) \in Jobs /\ Digest(d) \notin TopicJobs /\ Digest(d) # <<"topic">>
  BY DEF Jobs, DayJobs, TopicJobs, Topic, Digest
<1>3. \A d \in Days : Scope(Digest(d)) = Digest(d)
  BY <1>2 DEF Scope
<1>4. \A j \in Jobs : Scope(j) \in Scopes
  BY DEF Scopes
<1>5. <<"topic">> \in Scopes
  BY <1>1, MemoryAssumption DEF Scopes
<1> QED BY <1>1, <1>2, <1>3, <1>4, <1>5

LEMMA BusyHandler ==
  ASSUME Typed, NEW s \in Slots, Busy(s)
  PROVE  run[s] \in Handler /\ run[s].job \in Jobs /\ run[s].locked \in BOOLEAN /\ run[s].seen \in SUBSET Chunks
BY DEF Typed, RunsTyped, Busy, Handler

\* A handler goes on ...
LEMMA GoTyped ==
  ASSUME Typed, NEW s \in Slots, Busy(s), NEW pc \in PC, Go(s, pc),
         run[s].locked => pc \in {"model", "insert", "refresh", "stale"}
  PROVE  RunsTyped'
BY BusyHandler DEF Typed, RunsTyped, Go, Handler, Busy

\* ... or is over.
LEMMA IdleTyped ==
  ASSUME Typed, NEW s \in Slots, run' = [run EXCEPT ![s] = Idle] PROVE RunsTyped'
BY DEF Typed, RunsTyped, Busy

LEMMA FailTyped ==
  ASSUME Typed, NEW s \in Slots, Busy(s), Fail(s) PROVE QueueTyped' /\ RunsTyped'
<1>1. RunsTyped'
  BY IdleTyped DEF Fail
<1>2. run[s].job \in Jobs
  BY BusyHandler
<1>3. tries[run[s].job] + 1 \in Nat
  BY <1>2 DEF Typed, QueueTyped
<1>4. QueueTyped'
  BY <1>2, <1>3 DEF Typed, QueueTyped, Fail
<1> QED BY <1>1, <1>4

LEMMA FaultTyped ==
  ASSUME Typed, NEW kind, Fault(kind) PROVE FaultsTyped'
BY MemoryAssumption DEF Typed, FaultsTyped, Fault

LEMMA EnqueueTyped ==
  ASSUME Typed, NEW j \in Jobs
  PROVE  Enqueue(j) \in [Jobs -> {"absent", "queued", "running", "done", "failed"}]
BY DEF Typed, QueueTyped, Enqueue

LEMMA LeasedTyped ==
  ASSUME Typed, NEW s \in Slots, NEW j \in Jobs, NEW pc \in PC, NEW seen \in SUBSET Chunks,
         Leased(s, j, pc, seen)
  PROVE  Typed'
<1>1. QueueTyped'
  BY DEF Typed, QueueTyped, Leased
<1>2. RunsTyped'
  BY DEF Typed, RunsTyped, Leased, Handler, Busy
<1> QED BY <1>1, <1>2, PartsKept DEF Leased, Typed

\* What a write does to the nodes of its scope.
LEMMA NodesWritten ==
  ASSUME Typed, NEW s \in Slots, WriteNode(s)
  PROVE  LET node == [covers |-> run[s].seen, locked |-> run[s].locked]
             x    == Scope(run[s].job)
         IN  /\ Busy(s) /\ x \in Scopes /\ node \in Node
             /\ \/ run[s].pc = "insert" /\ nodes' = [nodes EXCEPT ![x] = Append(nodes[x], node)]
                \/ /\ run[s].pc = "refresh" /\ ~NodeDoomed(s)
                   /\ nodes' = [nodes EXCEPT ![x] = [nodes[x] EXCEPT ![1] = node]]
             /\ run' = [run EXCEPT ![s].pc = "ack", ![s].locked = FALSE]
             /\ nodes'[x] \in Seq(Node)
             /\ \A i \in DOMAIN nodes'[x] : nodes'[x][i] = node \/ (i \in DOMAIN nodes[x] /\ nodes'[x][i] = nodes[x][i])
<1> DEFINE node == [covers |-> run[s].seen, locked |-> run[s].locked]
<1> DEFINE x == Scope(run[s].job)
<1>1. Busy(s) /\ x \in Scopes /\ node \in Node
  <2>1. Busy(s)
    BY DEF WriteNode
  <2> QED BY <2>1, BusyHandler, ScopesOfJobs DEF Node
<1>2. nodes \in [Scopes -> Seq(Node)] /\ nodes[x] \in Seq(Node)
  BY <1>1 DEF Typed, NodesTyped
<1>3. \/ run[s].pc = "insert" /\ nodes' = [nodes EXCEPT ![x] = Append(nodes[x], node)]
      \/ /\ run[s].pc = "refresh" /\ ~NodeDoomed(s)
         /\ nodes' = [nodes EXCEPT ![x] = [nodes[x] EXCEPT ![1] = node]]
  BY DEF WriteNode
<1>4. run' = [run EXCEPT ![s].pc = "ack", ![s].locked = FALSE]
  BY DEF WriteNode
<1>5. /\ nodes'[x] \in Seq(Node)
      /\ \A i \in DOMAIN nodes'[x] : nodes'[x][i] = node \/ (i \in DOMAIN nodes[x] /\ nodes'[x][i] = nodes[x][i])
  <2>1. CASE nodes' = [nodes EXCEPT ![x] = Append(nodes[x], node)]
    <3>1. nodes'[x] = Append(nodes[x], node)
      BY <1>1, <1>2, <2>1
    <3> QED BY <1>1, <1>2, <3>1, AppendProperties, LenProperties
  <2>2. CASE nodes' = [nodes EXCEPT ![x] = [nodes[x] EXCEPT ![1] = node]]
    <3>1. nodes'[x] = [nodes[x] EXCEPT ![1] = node]
      BY <1>1, <1>2, <2>2
    <3>2. DOMAIN nodes'[x] = DOMAIN nodes[x] /\ \A i \in DOMAIN nodes[x] : nodes'[x][i] = IF i = 1 THEN node ELSE nodes[x][i]
      BY <3>1
    <3>3. nodes'[x] \in Seq(Node)
      <4>1. Len(nodes[x]) \in Nat /\ nodes[x] \in [1..Len(nodes[x]) -> Node]
        BY <1>2, LenProperties
      <4>2. nodes'[x] \in [1..Len(nodes[x]) -> Node]
        BY <1>1, <3>1, <4>1
      <4> QED BY <4>1, <4>2, SeqDef
    <3> QED BY <3>2, <3>3
  <2> QED BY <1>3, <2>1, <2>2
<1> QED BY <1>1, <1>3, <1>4, <1>5

\* What comes after the first k of a sequence.
LEMMA SuffixOf ==
  ASSUME NEW S, NEW seq \in Seq(S), NEW k \in Nat
  PROVE  /\ SubSeq(seq, k + 1, Len(seq)) \in Seq(S)
         /\ \A i \in DOMAIN SubSeq(seq, k + 1, Len(seq)) :
              i + k \in DOMAIN seq /\ SubSeq(seq, k + 1, Len(seq))[i] = seq[i + k]
<1> DEFINE n == Len(seq)
<1> DEFINE m == k + 1
<1> DEFINE suffix == SubSeq(seq, m, n)
<1>1. n \in Nat /\ seq \in [1..n -> S] /\ DOMAIN seq = 1..n /\ m \in Nat \ {0}
  BY LenProperties
<1>2. \A i \in m..n : seq[i] \in S
  BY <1>1
<1>3. /\ suffix \in Seq(S) /\ Len(suffix) = IF m <= n THEN n - m + 1 ELSE 0
      /\ \A i \in 1..(n - m + 1) : suffix[i] = seq[m + i - 1]
  <2>1. n \in Int /\ m \in Int
    BY <1>1
  <2> HIDE DEF n, m
  <2> QED BY <1>2, <2>1, SubSeqProperties
<1>4. DOMAIN suffix = 1..Len(suffix)
  BY <1>3, LenProperties
<1>5. ASSUME NEW i \in DOMAIN suffix PROVE i \in Nat /\ i \in 1..(n - m + 1) /\ m + i - 1 = i + k /\ i + k \in 1..n
  <2>1. m = k + 1 /\ n \in Nat /\ k \in Nat
    BY <1>1
  <2> HIDE DEF suffix, n, m
  <2>2. i \in 1..Len(suffix) /\ Len(suffix) = IF m <= n THEN n - m + 1 ELSE 0
    BY <1>3, <1>4
  <2>3. m <= n
    BY <2>1, <2>2
  <2>4. Len(suffix) = n - m + 1 /\ i \in 1..(n - m + 1)
    BY <2>2, <2>3
  <2>5. i \in Nat /\ i >= 1 /\ i <= n - k
    BY <2>1, <2>4
  <2>6. m + i - 1 = i + k /\ i + k \in 1..n
    BY <2>1, <2>5
  <2> QED BY <2>4, <2>5, <2>6
<1> QED BY <1>1, <1>3, <1>5

\* What the commit of an erasure leaves of the nodes.
LEMMA NodesErased ==
  ASSUME Typed, EraseCommit, NEW x \in Scopes
  PROVE  /\ nodes'[x] \in Seq(Node)
         /\ \A i \in DOMAIN nodes'[x] : i + doomed.nodes[x] \in DOMAIN nodes[x]
                                          /\ nodes'[x][i] = nodes[x][i + doomed.nodes[x]]
<1>1. doomed.nodes[x] \in Nat /\ nodes[x] \in Seq(Node)
  BY DEF Typed, EraseTyped, NodesTyped
<1>2. nodes'[x] = SubSeq(nodes[x], doomed.nodes[x] + 1, Len(nodes[x]))
  BY DEF EraseCommit
<1>3. ASSUME NEW k \in Nat, NEW seq \in Seq(Node), nodes'[x] = SubSeq(seq, k + 1, Len(seq))
      PROVE  /\ nodes'[x] \in Seq(Node)
             /\ \A i \in DOMAIN nodes'[x] : i + k \in DOMAIN seq /\ nodes'[x][i] = seq[i + k]
  <2> DEFINE rest == SubSeq(seq, k + 1, Len(seq))
  <2>1. rest \in Seq(Node) /\ \A i \in DOMAIN rest : i + k \in DOMAIN seq /\ rest[i] = seq[i + k]
    BY SuffixOf
  <2> HIDE DEF rest
  <2>2. nodes'[x] = rest
    BY <1>3 DEF rest
  <2> QED BY <2>1, <2>2
<1> QED BY <1>1, <1>2, <1>3

LEMMA InitTyped == Init => Typed
<1> SUFFICES ASSUME Init PROVE Typed
  OBVIOUS
<1>1. 0 \in Days
  BY MemoryAssumption DEF Days
<1>2. StoreTyped /\ QueueTyped /\ ClockTyped /\ FaultsTyped
  BY <1>1 DEF Init, StoreTyped, QueueTyped, ClockTyped, FaultsTyped
<1>3. EraseTyped /\ NodesTyped
  BY DEF Init, EraseTyped, NothingDoomed, NodesTyped
<1>4. RunsTyped
  BY DEF Init, RunsTyped, Busy
<1> QED BY <1>2, <1>3, <1>4 DEF Typed

LEMMA ChunkStepTyped ==
  ASSUME Typed, NEW c \in Chunks, WriteFile(c) \/ CommitRow(c) \/ Admit(c) \/ EnqueueTopic(c) PROVE Typed'
<1> USE DEF storeVars, clockVars, eraseVars
<1>1. CASE WriteFile(c)
  <2>1. StoreTyped' /\ EraseTyped'
    BY <1>1 DEF Typed, StoreTyped, ClockTyped, EraseTyped, WriteFile
  <2> QED BY <1>1, <2>1, PartsKept DEF Typed, WriteFile
<1>2. CASE CommitRow(c)
  <2>1. StoreTyped'
    BY <1>2 DEF Typed, StoreTyped, CommitRow
  <2> QED BY <1>2, <2>1, PartsKept DEF Typed, CommitRow
<1>3. CASE Admit(c)
  <2>1. StoreTyped'
    BY <1>3 DEF Typed, StoreTyped, Admit
  <2> QED BY <1>3, <2>1, PartsKept DEF Typed, Admit
<1>4. CASE EnqueueTopic(c)
  <2>1. following[c] - 1 \in Nat
    BY <1>4 DEF Typed, StoreTyped, EnqueueTopic
  <2>2. StoreTyped'
    BY <1>4, <2>1 DEF Typed, StoreTyped, EnqueueTopic
  <2>3. QueueTyped'
    BY <1>4, ScopesOfJobs, EnqueueTyped DEF Typed, QueueTyped, EnqueueTopic
  <2> QED BY <1>4, <2>2, <2>3, PartsKept DEF Typed, EnqueueTopic
<1> QED BY <1>1, <1>2, <1>3, <1>4

LEMMA HandleTyped ==
  ASSUME Typed, NEW s \in Slots, Handle(s) \/ ModelFails(s) \/ WorkerDies(s) \/ Overrun(s) PROVE Typed'
<1>1. ASSUME NEW c \in Chunks, StartTopic(s, c) PROVE Typed'
  <2>1. links \in SUBSET Chunks /\ (IF entity THEN "update" ELSE "ack") \in PC
    BY DEF Typed, StoreTyped, PC
  <2> QED BY <1>1, <2>1, ScopesOfJobs, LeasedTyped DEF StartTopic
<1>2. ASSUME NEW d \in Days, StartDigest(s, d) PROVE Typed'
  <2>1. MadeOn(d) \in SUBSET Chunks /\ (IF MadeOn(d) = {} THEN "ack" ELSE "model") \in PC
    BY DEF MadeOn, PC
  <2> QED BY <1>2, <2>1, ScopesOfJobs, LeasedTyped DEF StartDigest
<1>3. CASE UpdateHotness(s)
  <2>1. Busy(s) /\ run[s].pc = "update" /\ run[s] \in Handler
    BY <1>3, BusyHandler DEF UpdateHotness
  <2>2. ~run[s].locked
    BY <2>1 DEF Typed, RunsTyped
  <2>3. CASE Go(s, "ack")
    <3>1. "ack" \in PC
      BY DEF PC
    <3> QED BY <1>3, <2>1, <2>2, <2>3, <3>1, GoTyped, PartsKept DEF UpdateHotness, Typed
  <2>4. CASE run' = [run EXCEPT ![s].pc = "model", ![s].locked = entity]
    <3>1. RunsTyped'
      BY <2>1, <2>4 DEF Typed, RunsTyped, StoreTyped, Handler, PC, Busy
    <3> QED BY <1>3, <3>1, PartsKept DEF UpdateHotness, Typed
  <2> QED BY <1>3, <2>3, <2>4 DEF UpdateHotness
<1>4. CASE LookUp(s)
  <2>1. Busy(s) /\ "insert" \in PC /\ "refresh" \in PC
    BY <1>4 DEF LookUp, PC
  <2> QED BY <1>4, <2>1, GoTyped, PartsKept DEF LookUp, Typed
<1>5. CASE WriteNode(s)
  <2>1. Busy(s) /\ run[s] \in Handler /\ run' = [run EXCEPT ![s].pc = "ack", ![s].locked = FALSE]
    BY <1>5, NodesWritten, BusyHandler
  <2>2. RunsTyped'
    BY <2>1 DEF Typed, RunsTyped, Handler, PC, Busy
  <2>3. NodesTyped'
    BY <1>5, NodesWritten DEF Typed, NodesTyped
  <2> QED BY <1>5, <2>2, <2>3, PartsKept DEF WriteNode, Typed
<1>6. CASE Raises(s)
  BY <1>6, FailTyped, PartsKept DEF Raises, Fail, Typed
<1>7. CASE Ack(s)
  <2>1. QueueTyped'
    BY <1>7 DEF Typed, QueueTyped, Ack
  <2> QED BY <1>7, <2>1, IdleTyped, PartsKept DEF Ack, Typed
<1>8. CASE ModelFails(s)
  BY <1>8, FailTyped, FaultTyped, PartsKept DEF ModelFails, Fail, Typed
<1>9. CASE WorkerDies(s)
  <2>1. QueueTyped'
    BY <1>9 DEF Typed, QueueTyped, WorkerDies
  <2> QED BY <1>9, <2>1, IdleTyped, FaultTyped, PartsKept DEF WorkerDies, Typed
<1>10. CASE Overrun(s)
  <2>1. QueueTyped'
    BY <1>10 DEF Typed, QueueTyped, Overrun
  <2> QED BY <1>10, <2>1, FaultTyped, PartsKept DEF Overrun, Typed
<1> QED BY <1>1, <1>2, <1>3, <1>4, <1>5, <1>6, <1>7, <1>8, <1>9, <1>10 DEF Handle

LEMMA ClockStepTyped ==
  ASSUME Typed, Schedule \/ MissedMidnight \/ TickFails PROVE Typed'
<1>1. today + 1 \in Days \/ ~(today < LastDay)
  BY MemoryAssumption DEF Typed, ClockTyped, Days
<1>2. CASE Midnight \/ MissedMidnight
  <2>1. ClockTyped'
    BY <1>1, <1>2 DEF Typed, ClockTyped, Midnight, MissedMidnight
  <2> QED BY <1>2, <2>1, FaultTyped, PartsKept DEF Midnight, MissedMidnight, Typed
<1>3. CASE Tick
  <2>1. ASSUME MadeThatDay # {} PROVE today - 1 \in Days
    <3>1. PICK c \in Chunks : born[c] = today - 1
      BY <2>1 DEF MadeThatDay
    <3> QED BY <3>1 DEF Typed, StoreTyped
  <2>2. ClockTyped'
    BY <1>3, <2>1 DEF Typed, ClockTyped, Tick
  <2> QED BY <1>3, <2>2, PartsKept DEF Tick, Typed
<1>4. CASE EnqueueDigest
  <2>1. ClockTyped' /\ today - 1 \in Days
    BY <1>4 DEF Typed, ClockTyped, EnqueueDigest
  <2>2. QueueTyped'
    BY <1>4, <2>1, ScopesOfJobs, EnqueueTyped DEF Typed, QueueTyped, EnqueueDigest
  <2> QED BY <1>4, <2>1, <2>2, PartsKept DEF EnqueueDigest, Typed
<1>5. CASE TickFails
  <2>1. ClockTyped'
    BY <1>5 DEF Typed, ClockTyped, TickFails
  <2> QED BY <1>5, <2>1, FaultTyped, PartsKept DEF TickFails, Typed
<1> QED BY <1>2, <1>3, <1>4, <1>5 DEF Schedule

LEMMA EraseStepTyped ==
  ASSUME Typed, EraseChunks \/ EraseStep \/ EraserDies PROVE Typed'
<1>0. NothingDoomed \in [chunks : SUBSET Chunks, topics : BOOLEAN, entity : BOOLEAN, nodes : [Scopes -> Nat]]
  BY DEF NothingDoomed
<1>1. CASE EraseChunks
  <2>1. EraseTyped'
    BY <1>0, <1>1 DEF Typed, EraseTyped, StoreTyped, EraseChunks
  <2> QED BY <1>1, <2>1, FaultTyped, PartsKept DEF EraseChunks, Typed
<1>2. CASE EraseEntities
  <2>1. EraseTyped'
    BY <1>2 DEF Typed, EraseTyped, StoreTyped, EraseEntities
  <2> QED BY <1>2, <2>1, PartsKept DEF EraseEntities, Typed
<1>3. CASE EraseSummaries
  <2>1. [x \in Scopes |-> Len(nodes[x])] \in [Scopes -> Nat]
    BY LenProperties DEF Typed, NodesTyped
  <2>2. EraseTyped'
    BY <1>3, <2>1 DEF Typed, EraseTyped, EraseSummaries
  <2> QED BY <1>3, <2>2, PartsKept DEF EraseSummaries, Typed
<1>4. CASE EraseCommit
  <2>1. 0 \in Days
    BY MemoryAssumption DEF Days
  <2>2. StoreTyped'
    BY <1>4, <2>1 DEF Typed, StoreTyped, EraseTyped, EraseCommit
  <2>3. NodesTyped'
    <3>1. \A x \in Scopes : nodes'[x] \in Seq(Node)
      BY <1>4, NodesErased
    <3>2. nodes' = [x \in Scopes |-> nodes'[x]]
      BY <1>4 DEF EraseCommit
    <3> QED BY <3>1, <3>2 DEF NodesTyped
  <2>4. QueueTyped'
    BY <1>4 DEF Typed, QueueTyped, EraseCommit
  <2>5. RunsTyped'
    <3>1. \A s \in Slots : ~Busy(s) => Orphan(run[s]) = Idle
      BY DEF Busy, Orphan
    <3>2. ASSUME NEW s \in Slots, Busy(s)
          PROVE  /\ Orphan(run[s]) \in Handler
                 /\ Orphan(run[s]).locked => Orphan(run[s]).pc \in {"model", "insert", "refresh", "stale"}
      <4>1. run[s] \in Handler /\ Found(run[s].job) \in BOOLEAN
        BY <3>2, BusyHandler DEF Found, Typed, EraseTyped
      <4>2. /\ Orphan(run[s]).job = run[s].job /\ Orphan(run[s]).seen = run[s].seen
            /\ Orphan(run[s]).locked = run[s].locked
            /\ Orphan(run[s]).pc = run[s].pc \/ Orphan(run[s]).pc = "stale"
        BY <3>2, <4>1 DEF Busy, Orphan, Handler
      <4>3. Orphan(run[s]) \in Handler
        BY <3>2, <4>1 DEF Busy, Orphan, Handler, PC
      <4> QED BY <3>2, <4>2, <4>3 DEF Typed, RunsTyped
    <3> QED BY <1>4, <3>1, <3>2 DEF EraseCommit, RunsTyped, Busy
  <2>6. EraseTyped'
    BY <1>0, <1>4 DEF Typed, EraseTyped, EraseCommit
  <2> QED BY <1>4, <2>2, <2>3, <2>4, <2>5, <2>6, PartsKept DEF EraseCommit, Typed
<1>5. CASE EraseFiles
  <2>1. StoreTyped' /\ EraseTyped'
    BY <1>5 DEF Typed, StoreTyped, EraseTyped, EraseFiles
  <2> QED BY <1>5, <2>1, PartsKept DEF EraseFiles, Typed
<1>6. CASE EraserDies
  <2>1. EraseTyped'
    BY <1>0, <1>6 DEF Typed, EraseTyped, EraserDies
  <2> QED BY <1>6, <2>1, PartsKept DEF EraserDies, Typed
<1> QED BY <1>1, <1>2, <1>3, <1>4, <1>5, <1>6 DEF EraseStep

LEMMA NextTyped == Typed /\ [Next]_vars => Typed'
<1> SUFFICES ASSUME Typed, [Next]_vars PROVE Typed'
  OBVIOUS
<1>1. CASE UNCHANGED vars
  BY <1>1, PartsKept DEF vars, Typed
<1> QED BY <1>1, ChunkStepTyped, HandleTyped, ClockStepTyped, EraseStepTyped DEF Next

-----------------------------------------------------------------------------
(***************************************************************************)
(* Rows and files, whichever statement an erasure breaks off at.           *)
(***************************************************************************)

Present(c) == lifecycle[c] # "absent"

\* Whatever an erasure under way does not take has been persisted during it.
FilesInv ==
  /\ writing \subseteq files \cup straddled
  /\ Erasing => writing \subseteq straddled
  /\ Erasing => \A c \in Chunks : Present(c) => c \in straddled \cup doomed.chunks
  /\ RowsHaveFiles

LEMMA InitFiles == Init => FilesInv
BY DEF Init, FilesInv, RowsHaveFiles, Erasing, Present

LEMMA FilesKept ==
  ASSUME FilesInv, UNCHANGED <<lifecycle, files, writing, eraser, doomed, straddled>> PROVE FilesInv'
BY DEF FilesInv, RowsHaveFiles, Erasing, Present

LEMMA NextFiles == Typed /\ FilesInv /\ [Next]_vars => FilesInv'
<1> SUFFICES ASSUME Typed, FilesInv, [Next]_vars PROVE FilesInv'
  OBVIOUS
<1> USE DEF storeVars, clockVars, eraseVars
<1>1. /\ lifecycle \in [Chunks -> {"absent", "pending", "admitted"}]
      /\ writing \subseteq Chunks /\ \A c \in writing : lifecycle[c] = "absent"
  BY DEF Typed, StoreTyped
<1>2. ASSUME NEW c \in Chunks, WriteFile(c) \/ CommitRow(c) \/ Admit(c) \/ EnqueueTopic(c) PROVE FilesInv'
  BY <1>1, <1>2 DEF WriteFile, CommitRow, Admit, EnqueueTopic, FilesInv, RowsHaveFiles, Erasing, Present
<1>3. CASE EraseChunks
  BY <1>1, <1>3 DEF EraseChunks, FilesInv, RowsHaveFiles, Erasing, Present
<1>4. CASE EraseEntities \/ EraseSummaries
  <2>1. doomed'.chunks = doomed.chunks
    BY <1>4 DEF EraseEntities, EraseSummaries, Typed, EraseTyped
  <2> QED BY <1>1, <1>4, <2>1 DEF EraseEntities, EraseSummaries, FilesInv, RowsHaveFiles, Erasing, Present
<1>5. CASE EraseCommit
  BY <1>1, <1>5 DEF EraseCommit, FilesInv, RowsHaveFiles, Erasing, Present
<1>6. CASE EraseFiles
  <2>1. doomed.chunks = {}
    BY <1>6 DEF EraseFiles, Typed, EraseTyped, NothingDoomed
  <2> QED BY <1>1, <1>6, <2>1 DEF EraseFiles, FilesInv, RowsHaveFiles, Erasing, Present
<1>7. CASE EraserDies
  BY <1>1, <1>7 DEF EraserDies, FilesInv, RowsHaveFiles, Erasing, Present
<1>8. ASSUME NEW s \in Slots, Handle(s) \/ ModelFails(s) \/ WorkerDies(s) \/ Overrun(s) PROVE FilesInv'
  BY <1>8, FilesKept DEF Handle, StartTopic, StartDigest, Leased, UpdateHotness, LookUp, WriteNode, Raises,
         Ack, ModelFails, Fail, WorkerDies, Overrun
<1>9. CASE Schedule \/ MissedMidnight \/ TickFails \/ UNCHANGED vars
  BY <1>9, FilesKept DEF Schedule, Midnight, MissedMidnight, Tick, EnqueueDigest, TickFails, vars
<1> QED BY <1>2, <1>3, <1>4, <1>5, <1>6, <1>7, <1>8, <1>9 DEF Next, EraseStep

LEMMA TypedMeansTypeOK == Typed /\ FilesInv => TypeOK
BY DEF Typed, StoreTyped, NodesTyped, QueueTyped, RunsTyped, ClockTyped, EraseTyped, FaultsTyped,
       FilesInv, TypeOK, Busy

LEMMA FilesInvariant == Spec => [](Typed /\ FilesInv)
<1>1. Init => Typed /\ FilesInv
  BY InitTyped, InitFiles
<1>2. Typed /\ FilesInv /\ [Next]_vars => Typed' /\ FilesInv'
  BY NextTyped, NextFiles
<1> QED BY <1>1, <1>2, PTL DEF Spec

\* The tables, the handlers and the erasure, whatever breaks; a row lock is held
\* only between an UPDATE and the end of its transaction (topics.py, digest.py,
\* erasure.py).
THEOREM MemoryTypeCorrect == Spec => []TypeOK
BY TypedMeansTypeOK, FilesInvariant, PTL

\* No committed row is without its file, wherever an erasure breaks off, unless it
\* was being persisted meanwhile (erase_tenant sweeps the vault after its commit).
THEOREM NoDanglingRows == Spec => []RowsHaveFiles
<1>1. FilesInv => RowsHaveFiles
  BY DEF FilesInv
<1> QED BY <1>1, FilesInvariant, PTL

-----------------------------------------------------------------------------
(***************************************************************************)
(* The lock on the row of the entity.                                      *)
(***************************************************************************)

\* A handler that has the row of the entity, which nobody else has, nor deletes.
Holds(s) == Busy(s) /\ run[s].locked

RowLockExclusive ==
  /\ \A s, t \in Slots : Holds(s) /\ Holds(t) => s = t
  /\ \A s \in Slots : Holds(s) => entity /\ ~doomed.entity
  /\ doomed.entity => entity /\ eraser \in {"summaries", "commit"}

TopicNodes == nodes[<<"topic">>]

\* What the erasure of the entity leaves was written without the lock.
RestUnlocked ==
  eraser = "commit" /\ doomed.entity =>
    \A i \in DOMAIN TopicNodes : i > doomed.nodes[<<"topic">>] => ~TopicNodes[i].locked

LockInv == RowLockExclusive /\ RestUnlocked /\ LockedNodesErased

LEMMA InitLock == Init => LockInv
BY ScopesOfJobs DEF Init, LockInv, RowLockExclusive, RestUnlocked, LockedNodesErased, Holds, Busy,
   NothingDoomed, TopicNodes

\* Handlers that give up the row, or keep it.
LEMMA LockKept ==
  ASSUME LockInv, UNCHANGED <<entity, nodes, eraser, doomed>>, \A s \in Slots : Holds(s)' => Holds(s)
  PROVE  LockInv'
BY DEF LockInv, RowLockExclusive, RestUnlocked, LockedNodesErased, TopicNodes

LEMMA Released ==
  ASSUME Typed, NEW s \in Slots, run' = [run EXCEPT ![s] = Idle] \/ run' = run
               \/ (Busy(s) /\ \E pc \in PC : Go(s, pc))
  PROVE  \A t \in Slots : Holds(t)' => Holds(t)
<1>1. run \in [Slots -> Handler \cup {Idle}]
  BY DEF Typed, RunsTyped
<1>2. ASSUME NEW pc \in PC, Busy(s), Go(s, pc) PROVE \A t \in Slots : Holds(t)' => Holds(t)
  <2>1. run[s] \in Handler
    BY <1>2, BusyHandler
  <2>2. run'[s].locked = run[s].locked /\ \A t \in Slots \ {s} : run'[t] = run[t]
    BY <1>1, <1>2, <2>1 DEF Go, Handler
  <2> QED BY <1>2, <2>2 DEF Holds, Busy
<1> QED BY <1>1, <1>2 DEF Holds, Busy

LEMMA NextLock == Typed /\ LockInv /\ [Next]_vars => LockInv'
<1> SUFFICES ASSUME Typed, LockInv, [Next]_vars PROVE LockInv'
  OBVIOUS
<1> USE DEF storeVars, clockVars, eraseVars
<1>1. /\ run \in [Slots -> Handler \cup {Idle}] /\ entity \in BOOLEAN /\ doomed.entity \in BOOLEAN
      /\ RowLockExclusive /\ RestUnlocked /\ LockedNodesErased
      /\ nodes \in [Scopes -> Seq(Node)] /\ <<"topic">> \in Scopes
      /\ \A i \in DOMAIN TopicNodes : TopicNodes[i].locked \in BOOLEAN
  <2>1. nodes \in [Scopes -> Seq(Node)] /\ <<"topic">> \in Scopes
    BY ScopesOfJobs DEF Typed, NodesTyped
  <2>2. \A i \in DOMAIN TopicNodes : TopicNodes[i].locked \in BOOLEAN
    <3>1. TopicNodes \in Seq(Node)
      BY <2>1 DEF TopicNodes
    <3>2. \A i \in DOMAIN TopicNodes : TopicNodes[i] \in Node
      BY <3>1, LenProperties
    <3> QED BY <3>2 DEF Node
  <2> QED BY <2>1, <2>2 DEF LockInv, Typed, StoreTyped, RunsTyped, EraseTyped
<1>2. ASSUME NEW c \in Chunks, WriteFile(c) \/ CommitRow(c) \/ EnqueueTopic(c) PROVE LockInv'
  BY <1>2, LockKept DEF WriteFile, CommitRow, EnqueueTopic, Holds, Busy
<1>3. ASSUME NEW c \in Chunks, Admit(c) PROVE LockInv'
  <2>1. entity' /\ UNCHANGED <<nodes, run, eraser, doomed>> /\ RowFree
    BY <1>3 DEF Admit
  <2> QED BY <1>1, <2>1 DEF LockInv, RowLockExclusive, RestUnlocked, LockedNodesErased, TopicNodes, Holds, Busy
<1>4. ASSUME NEW s \in Slots, UpdateHotness(s), ~Go(s, "ack") PROVE LockInv'
  <2>1. /\ Busy(s) /\ RowFree /\ run' = [run EXCEPT ![s].pc = "model", ![s].locked = entity]
        /\ UNCHANGED <<entity, nodes, eraser, doomed>>
    BY <1>4 DEF UpdateHotness
  <2>2. run[s] \in Handler
    BY <2>1, BusyHandler
  <2>3. run'[s].locked = entity /\ \A t \in Slots \ {s} : run'[t] = run[t]
    BY <1>1, <2>1, <2>2 DEF Handler
  <2>4. (\A t \in Slots : ~Holds(t)) /\ ~doomed.entity
    BY <2>1 DEF RowFree, Holds
  <2>5. RowLockExclusive'
    BY <1>1, <2>1, <2>3, <2>4 DEF RowLockExclusive, Holds, Busy
  <2> QED BY <1>1, <2>1, <2>5 DEF LockInv, RestUnlocked, LockedNodesErased, TopicNodes
<1>5. ASSUME NEW s \in Slots, WriteNode(s) PROVE LockInv'
  <2> DEFINE x == Scope(run[s].job)
  <2> DEFINE node == [covers |-> run[s].seen, locked |-> run[s].locked]
  <2>1. /\ Busy(s) /\ x \in Scopes /\ run[s] \in Handler
        /\ run' = [run EXCEPT ![s].pc = "ack", ![s].locked = FALSE]
        /\ \A y \in Scopes \ {x} : nodes'[y] = nodes[y]
        /\ \A i \in DOMAIN nodes'[x] : nodes'[x][i] = node \/ (i \in DOMAIN nodes[x] /\ nodes'[x][i] = nodes[x][i])
    BY <1>1, <1>5, NodesWritten, BusyHandler
  <2>2. UNCHANGED <<entity, eraser, doomed>>
    BY <1>5 DEF WriteNode
  <2>3. ~run'[s].locked /\ \A t \in Slots \ {s} : run'[t] = run[t]
    BY <1>1, <2>1 DEF Handler
  <2>4. RowLockExclusive'
    BY <1>1, <2>2, <2>3 DEF RowLockExclusive, Holds, Busy
  <2>5. ~entity \/ doomed.entity => ~node.locked
    BY <1>1, <2>1 DEF RowLockExclusive, Holds
  <2>6. CASE x = <<"topic">>
    <3>1. \A i \in DOMAIN TopicNodes' :
            TopicNodes'[i] = node \/ (i \in DOMAIN TopicNodes /\ TopicNodes'[i] = TopicNodes[i])
      BY <2>1, <2>6 DEF TopicNodes
    <3>2. RestUnlocked'
      BY <1>1, <2>2, <2>5, <3>1 DEF RestUnlocked
    <3>3. LockedNodesErased'
      BY <1>1, <2>2, <2>5, <3>1 DEF LockedNodesErased, TopicNodes
    <3> QED BY <2>4, <3>2, <3>3 DEF LockInv
  <2>7. CASE x # <<"topic">>
    <3>1. TopicNodes' = TopicNodes
      BY <1>1, <2>1, <2>7 DEF TopicNodes
    <3> QED BY <1>1, <2>2, <2>4, <3>1 DEF LockInv, RestUnlocked, LockedNodesErased, TopicNodes
  <2> QED BY <2>6, <2>7
<1>6. ASSUME NEW s \in Slots, NEW j, NEW pc, NEW seen, Leased(s, j, pc, seen) PROVE LockInv'
  <2>1. UNCHANGED <<entity, nodes, eraser, doomed>> /\ \A t \in Slots : Holds(t)' => Holds(t)
    BY <1>1, <1>6 DEF Leased, Holds, Busy
  <2> QED BY <2>1, LockKept
<1>7. ASSUME NEW s \in Slots,
             (UpdateHotness(s) /\ Go(s, "ack")) \/ LookUp(s) \/ Raises(s) \/ Ack(s) \/ ModelFails(s)
               \/ WorkerDies(s) \/ Overrun(s)
      PROVE  LockInv'
  <2>1. "ack" \in PC /\ "insert" \in PC /\ "refresh" \in PC
    BY DEF PC
  <2>2. UNCHANGED <<entity, nodes, eraser, doomed>>
    BY <1>7 DEF UpdateHotness, LookUp, Raises, Ack, ModelFails, Fail, WorkerDies, Overrun
  <2>3. \/ run' = [run EXCEPT ![s] = Idle] \/ run' = run
        \/ Busy(s) /\ \E pc \in PC : Go(s, pc)
    BY <1>7, <2>1 DEF UpdateHotness, LookUp, Raises, Ack, ModelFails, Fail, WorkerDies, Overrun
  <2> QED BY <2>2, <2>3, Released, LockKept
<1>8. CASE EraseChunks
  <2>1. /\ UNCHANGED <<entity, nodes, run>> /\ eraser' = "entities" /\ ~doomed'.entity
    BY <1>8 DEF EraseChunks, NothingDoomed
  <2> QED BY <1>1, <2>1 DEF LockInv, RowLockExclusive, RestUnlocked, LockedNodesErased, TopicNodes, Holds, Busy
<1>9. CASE EraseEntities
  <2>1. /\ UNCHANGED <<entity, nodes, run>> /\ eraser' = "summaries" /\ doomed'.entity = entity /\ RowFree
    BY <1>9 DEF EraseEntities, Typed, EraseTyped
  <2>2. \A t \in Slots : ~Holds(t)
    BY <2>1 DEF RowFree, Holds
  <2> QED BY <1>1, <2>1, <2>2 DEF LockInv, RowLockExclusive, RestUnlocked, LockedNodesErased, TopicNodes, Holds, Busy
<1>10. CASE EraseSummaries
  <2>1. /\ UNCHANGED <<entity, nodes, run>> /\ eraser = "summaries" /\ eraser' = "commit" /\ doomed'.entity = doomed.entity
        /\ doomed'.nodes[<<"topic">>] = Len(TopicNodes)
    BY <1>1, <1>10 DEF EraseSummaries, Typed, EraseTyped, TopicNodes
  <2>2. DOMAIN TopicNodes = 1..Len(TopicNodes) /\ Len(TopicNodes) \in Nat
    BY <1>1, LenProperties DEF TopicNodes
  <2>3. RestUnlocked'
    BY <2>1, <2>2 DEF RestUnlocked, TopicNodes
  <2> QED BY <1>1, <2>1, <2>3 DEF LockInv, RowLockExclusive, LockedNodesErased, TopicNodes, Holds, Busy
<1>11. CASE EraseCommit
  <2>1. /\ eraser = "commit" /\ eraser' = "files" /\ entity' = (entity /\ ~doomed.entity) /\ ~doomed'.entity
        /\ run' = [s \in Slots |-> Orphan(run[s])]
    BY <1>11 DEF EraseCommit, NothingDoomed
  <2>2. \A s \in Slots : Holds(s)' => Holds(s)
    <3>1. ASSUME NEW s \in Slots, ~Busy(s) PROVE ~Holds(s)'
      BY <2>1, <3>1 DEF Holds, Busy, Orphan
    <3>2. ASSUME NEW s \in Slots, Busy(s) PROVE Orphan(run[s]).locked = run[s].locked
      <4>1. run[s] \in Handler
        BY <3>2, BusyHandler
      <4> QED BY <3>2, <4>1 DEF Busy, Orphan, Handler
    <3> QED BY <2>1, <3>1, <3>2 DEF Holds, Busy
  <2>3. RowLockExclusive'
    BY <1>1, <2>1, <2>2 DEF RowLockExclusive
  <2>4. \A i \in DOMAIN TopicNodes' : i + doomed.nodes[<<"topic">>] \in DOMAIN TopicNodes
                                        /\ TopicNodes'[i] = TopicNodes[i + doomed.nodes[<<"topic">>]]
    BY <1>1, <1>11, NodesErased DEF TopicNodes
  <2>5. DOMAIN TopicNodes' \subseteq Nat \ {0} /\ doomed.nodes[<<"topic">>] \in Nat
    <3>1. TopicNodes' \in Seq(Node)
      BY <1>1, <1>11, NodesErased DEF TopicNodes
    <3>2. DOMAIN TopicNodes' = 1..Len(TopicNodes')
      BY <3>1, LenProperties
    <3> QED BY <1>1, <3>1, <3>2 DEF Typed, EraseTyped
  <2>6. \A i \in DOMAIN TopicNodes' : i + doomed.nodes[<<"topic">>] > doomed.nodes[<<"topic">>]
    BY <2>5
  <2>7. ~entity' => \A i \in DOMAIN TopicNodes' : ~TopicNodes'[i].locked
    <3>1. CASE doomed.entity
      BY <1>1, <2>1, <2>4, <2>6, <3>1 DEF RestUnlocked
    <3>2. CASE ~entity
      BY <1>1, <2>4, <3>2 DEF LockedNodesErased, TopicNodes
    <3> QED BY <1>1, <2>1, <3>1, <3>2
  <2> QED BY <2>1, <2>3, <2>7 DEF LockInv, RestUnlocked, LockedNodesErased, TopicNodes
<1>12. CASE EraseFiles
  BY <1>1, <1>12 DEF EraseFiles, LockInv, RowLockExclusive, RestUnlocked, LockedNodesErased, TopicNodes, Holds, Busy
<1>13. CASE EraserDies
  BY <1>1, <1>13 DEF EraserDies, NothingDoomed, LockInv, RowLockExclusive, RestUnlocked, LockedNodesErased,
     TopicNodes, Holds, Busy
<1>14. CASE Schedule \/ MissedMidnight \/ TickFails \/ UNCHANGED vars
  BY <1>14, LockKept DEF Schedule, Midnight, MissedMidnight, Tick, EnqueueDigest, TickFails, vars, Holds, Busy
<1> QED BY <1>2, <1>3, <1>4, <1>5, <1>6, <1>7, <1>8, <1>9, <1>10, <1>11, <1>12, <1>13, <1>14
        DEF Next, Handle, StartTopic, StartDigest, EraseStep

LEMMA LockInvariant == Spec => [](Typed /\ LockInv)
<1>1. Init => Typed /\ LockInv
  BY InitTyped, InitLock
<1>2. Typed /\ LockInv /\ [Next]_vars => Typed' /\ LockInv'
  BY NextTyped, NextLock
<1> QED BY <1>1, <1>2, PTL DEF Spec

\* An erased entity leaves no node that was written under its lock: the DELETE of
\* its row waits for that handler, and the DELETE of the summaries comes after it.
THEOREM LockedNodesGone == Spec => []LockedNodesErased
<1>1. LockInv => LockedNodesErased
  BY DEF LockInv
<1> QED BY <1>1, LockInvariant, PTL

-----------------------------------------------------------------------------
(***************************************************************************)
(* One node per scope.                                                     *)
(***************************************************************************)

Orderly == NoFault({"overrun", "erasure"})

Topical(s) == run[s].job \in TopicJobs

\* A handler has its job for itself; that of a topic has the entity's row too, from
\* its UPDATE on; and what is about to be inserted is not there.
HandlersApart ==
  /\ eraser = "idle"
  /\ \A s \in Slots : Busy(s) =>
       /\ run[s].row /\ job[run[s].job] = "running"
       /\ Topical(s) /\ run[s].pc = "update" => entity
       /\ Topical(s) /\ run[s].pc \in {"model", "insert", "refresh"} => run[s].locked
       /\ run[s].pc = "insert" => nodes[Scope(run[s].job)] = <<>>
  /\ \A s, t \in Slots : s # t /\ Busy(s) /\ Busy(t) => run[s].job # run[t].job

NodeInv == Orderly => HandlersApart /\ \A x \in Scopes : Len(nodes[x]) < 2

LEMMA InitNode == Init => NodeInv
<1> SUFFICES ASSUME Init PROVE NodeInv
  OBVIOUS
<1>1. HandlersApart
  BY DEF Init, HandlersApart, Busy
<1>2. \A x \in Scopes : nodes[x] = <<>>
  BY DEF Init
<1>3. Len(<<>>) < 2
  OBVIOUS
<1> QED BY <1>1, <1>2, <1>3 DEF NodeInv

LEMMA FaultCounts ==
  ASSUME Typed, NEW kind, Fault(kind)
  PROVE  /\ kind \in {"overrun", "erasure"} => ~Orderly'
         /\ Orderly' => Orderly
<1>1. kind \in AllFaults /\ faults \in [AllFaults -> Nat] /\ faults' = [faults EXCEPT ![kind] = @ + 1]
  BY MemoryAssumption DEF Fault, Typed, FaultsTyped
<1>2. faults[kind] \in Nat /\ faults'[kind] = faults[kind] + 1
  BY <1>1
<1>3. \A other \in AllFaults : faults'[other] = 0 => faults[other] = 0
  BY <1>1, <1>2
<1> QED BY <1>2, <1>3 DEF Orderly, NoFault, AllFaults

LEMMA OrderlyStays ==
  ASSUME Typed, [Next]_vars, Orderly' PROVE Orderly
<1>1. faults' = faults \/ \E kind \in AllFaults : Fault(kind)
  BY DEF Next, Handle, StartTopic, StartDigest, Leased, UpdateHotness, LookUp, WriteNode, Raises, Ack,
         ModelFails, WorkerDies, Overrun, Schedule, Midnight, MissedMidnight, Tick, EnqueueDigest, TickFails,
         EraseStep, EraseChunks, EraseEntities, EraseSummaries, EraseCommit, EraseFiles, EraserDies,
         WriteFile, CommitRow, Admit, EnqueueTopic, vars, AllFaults
<1> QED BY <1>1, FaultCounts DEF Orderly, NoFault

\* A job that is not running has no handler, so what becomes of it disturbs none.
LEMMA HandlersKept ==
  ASSUME HandlersApart, UNCHANGED <<nodes, run, eraser>>, entity => entity',
         \A j \in Jobs : job[j] = "running" => job'[j] = "running",
         \A s \in Slots : Busy(s) => run[s].job \in Jobs
  PROVE  HandlersApart'
BY DEF HandlersApart, Busy, Topical

\* A handler that is over takes its job with it, and nothing else.
LEMMA HandlerOver ==
  ASSUME Typed, HandlersApart, NEW s \in Slots, Busy(s), UNCHANGED <<nodes, entity, eraser>>,
         run' = [run EXCEPT ![s] = Idle],
         \A j \in Jobs : j # run[s].job => job'[j] = job[j]
  PROVE  HandlersApart'
<1>1. run \in [Slots -> Handler \cup {Idle}] /\ \A t \in Slots : Busy(t) => run[t].job \in Jobs
  BY BusyHandler DEF Typed, RunsTyped
<1>2. ~Busy(s)' /\ \A t \in Slots \ {s} : run'[t] = run[t]
  BY <1>1 DEF Busy
<1> QED BY <1>1, <1>2 DEF HandlersApart, Busy, Topical

\* A handler goes on without writing.
LEMMA HandlerOn ==
  ASSUME Typed, HandlersApart, NEW s \in Slots, Busy(s), UNCHANGED <<nodes, entity, eraser, job>>,
         run'[s] \in Handler, run'[s].job = run[s].job, run'[s].row = run[s].row,
         \A t \in Slots \ {s} : run'[t] = run[t],
         run'[s].pc # "update",
         Topical(s) /\ run'[s].pc \in {"model", "insert", "refresh"} => run'[s].locked,
         run'[s].pc = "insert" => nodes[Scope(run[s].job)] = <<>>
  PROVE  HandlersApart'
BY DEF HandlersApart, Busy, Topical

LEMMA JobsKept ==
  ASSUME Typed, NEW j \in Jobs
  PROVE  \A i \in Jobs : job[i] = "running" => Enqueue(j)[i] = "running"
BY DEF Enqueue, Typed, QueueTyped

\* One handler's write leaves the others as they are: they have other scopes, or
\* wait for the row.
LEMMA WriteApart ==
  ASSUME Typed, LockInv, HandlersApart, \A x \in Scopes : Len(nodes[x]) < 2, NEW s \in Slots, WriteNode(s)
  PROVE  HandlersApart' /\ \A x \in Scopes : Len(nodes'[x]) < 2
<1> DEFINE x == Scope(run[s].job)
<1> DEFINE node == [covers |-> run[s].seen, locked |-> run[s].locked]
<1>1. /\ Busy(s) /\ x \in Scopes /\ node \in Node /\ run[s] \in Handler /\ run[s].job \in Jobs
      /\ run' = [run EXCEPT ![s].pc = "ack", ![s].locked = FALSE]
      /\ \/ run[s].pc = "insert" /\ nodes' = [nodes EXCEPT ![x] = Append(nodes[x], node)]
         \/ run[s].pc = "refresh" /\ nodes' = [nodes EXCEPT ![x] = [nodes[x] EXCEPT ![1] = node]]
      /\ UNCHANGED <<entity, eraser, job>>
  BY NodesWritten, BusyHandler DEF WriteNode, storeVars, eraseVars
<1>2. /\ run \in [Slots -> Handler \cup {Idle}]
      /\ nodes \in [Scopes -> Seq(Node)] /\ nodes[x] \in Seq(Node)
  BY <1>1 DEF Typed, RunsTyped, NodesTyped
<1>3. Len(nodes'[x]) < 2
  <2>1. CASE run[s].pc = "insert" /\ nodes' = [nodes EXCEPT ![x] = Append(nodes[x], node)]
    <3>1. nodes[x] = <<>>
      BY <1>1, <2>1 DEF HandlersApart
    <3>2. nodes'[x] = Append(nodes[x], node)
      BY <1>1, <1>2, <2>1
    <3>3. Len(nodes'[x]) = Len(nodes[x]) + 1 /\ Len(nodes[x]) = 0
      BY <1>1, <1>2, <3>1, <3>2, AppendProperties
    <3> QED BY <3>3
  <2>2. CASE nodes' = [nodes EXCEPT ![x] = [nodes[x] EXCEPT ![1] = node]]
    <3>1. nodes'[x] = [nodes[x] EXCEPT ![1] = node] /\ nodes'[x] \in Seq(Node)
      BY <1>1, <1>2, <2>2, NodesWritten
    <3>2. DOMAIN nodes'[x] = DOMAIN nodes[x]
      BY <3>1
    <3>3. /\ DOMAIN nodes[x] = 1..Len(nodes[x]) /\ DOMAIN nodes'[x] = 1..Len(nodes'[x])
          /\ Len(nodes[x]) \in Nat /\ Len(nodes'[x]) \in Nat
      BY <1>2, <3>1, LenProperties
    <3>4. Len(nodes'[x]) = Len(nodes[x])
      BY <3>2, <3>3
    <3> QED BY <1>1, <3>4
  <2> QED BY <1>1, <2>1, <2>2
<1>4. \A y \in Scopes \ {x} : nodes'[y] = nodes[y]
  BY <1>1, <1>2
<1>5. /\ run'[s] \in Handler /\ run'[s].pc = "ack" /\ run'[s].job = run[s].job /\ run'[s].row = run[s].row
      /\ \A t \in Slots \ {s} : run'[t] = run[t]
  BY <1>1, <1>2 DEF Handler, PC
<1>6. ASSUME NEW t \in Slots \ {s}, Busy(t), run[t].pc = "insert" PROVE Scope(run[t].job) \in Scopes \ {x}
  <2>1. run[t].job \in Jobs /\ Scope(run[t].job) \in Scopes /\ run[t].job # run[s].job
    BY <1>1, <1>6, BusyHandler, ScopesOfJobs DEF HandlersApart
  <2>2. CASE Topical(t) /\ Topical(s)
    BY <1>1, <1>6, <2>2 DEF HandlersApart, LockInv, RowLockExclusive, Holds
  <2>3. CASE ~Topical(t) \/ ~Topical(s)
    <3>1. \A j \in Jobs : j \notin TopicJobs => Scope(j) = j /\ j # <<"topic">>
      BY ScopesOfJobs DEF Jobs, DayJobs
    <3>2. \A j \in TopicJobs : Scope(j) = <<"topic">>
      BY DEF Scope
    <3> QED BY <1>1, <2>1, <2>3, <3>1, <3>2 DEF Topical
  <2> QED BY <2>2, <2>3
<1>7. HandlersApart'
  <2>1. ASSUME NEW t \in Slots, Busy(t)'
        PROVE  /\ Busy(t) /\ run'[t].job = run[t].job /\ run'[t].row = run[t].row
               /\ t # s => run'[t] = run[t]
               /\ t = s => run'[t].pc = "ack"
    BY <1>1, <1>5, <2>1 DEF Busy
  <2>2. ASSUME NEW t \in Slots, Busy(t)', run'[t].pc = "insert" PROVE nodes'[Scope(run'[t].job)] = <<>>
    <3>1. t # s /\ Busy(t) /\ run[t].pc = "insert" /\ run'[t] = run[t]
      BY <2>1, <2>2
    <3> QED BY <1>4, <1>6, <3>1 DEF HandlersApart
  <2>3. eraser' = eraser /\ entity' = entity /\ job' = job
    BY <1>1
  <2>4. ASSUME NEW t \in Slots, Busy(t)'
        PROVE  /\ run'[t].row /\ job'[run'[t].job] = "running"
               /\ Topical(t)' /\ run'[t].pc = "update" => entity'
               /\ Topical(t)' /\ run'[t].pc \in {"model", "insert", "refresh"} => run'[t].locked
    BY <2>1, <2>3, <2>4 DEF HandlersApart, Topical
  <2>5. ASSUME NEW t \in Slots, NEW u \in Slots, t # u, Busy(t)', Busy(u)' PROVE run'[t].job # run'[u].job
    BY <2>1, <2>5 DEF HandlersApart
  <2>6. eraser' = "idle"
    BY <2>3 DEF HandlersApart
  <2> QED BY <2>2, <2>4, <2>5, <2>6 DEF HandlersApart
<1> QED BY <1>3, <1>4, <1>7

LEMMA NextNode == Typed /\ LockInv /\ NodeInv /\ [Next]_vars => NodeInv'
<1> SUFFICES ASSUME Typed, LockInv, NodeInv, [Next]_vars, Orderly'
             PROVE  HandlersApart' /\ \A x \in Scopes : Len(nodes'[x]) < 2
  BY DEF NodeInv
<1> USE DEF storeVars, clockVars, eraseVars
<1>1. HandlersApart /\ \A x \in Scopes : Len(nodes[x]) < 2
  BY OrderlyStays DEF NodeInv
<1>2. /\ run \in [Slots -> Handler \cup {Idle}] /\ \A s \in Slots : Busy(s) => run[s].job \in Jobs
      /\ job \in [Jobs -> {"absent", "queued", "running", "done", "failed"}]
  BY BusyHandler DEF Typed, RunsTyped, QueueTyped
<1>3. ASSUME NEW s \in Slots, WriteNode(s) PROVE HandlersApart' /\ \A x \in Scopes : Len(nodes'[x]) < 2
  BY <1>1, <1>3, WriteApart
<1>4. ASSUME NEW c \in Chunks, WriteFile(c) \/ CommitRow(c) \/ Admit(c) \/ EnqueueTopic(c) PROVE HandlersApart' /\ UNCHANGED nodes
  <2>1. UNCHANGED <<nodes, run, eraser>> /\ (entity => entity')
        /\ \A j \in Jobs : job[j] = "running" => job'[j] = "running"
    BY <1>4, ScopesOfJobs, JobsKept DEF WriteFile, CommitRow, Admit, EnqueueTopic
  <2> QED BY <1>1, <1>2, <2>1, HandlersKept
<1>5. CASE Schedule \/ MissedMidnight \/ TickFails \/ UNCHANGED vars
  <2>1. UNCHANGED <<nodes, run, eraser, entity>>
    BY <1>5 DEF Schedule, Midnight, MissedMidnight, Tick, EnqueueDigest, TickFails, vars
  <2>2. scheduler = "enqueue" => today - 1 \in Days
    BY DEF Typed, ClockTyped
  <2>3. \A j \in Jobs : job[j] = "running" => job'[j] = "running"
    BY <1>5, <2>2, ScopesOfJobs, JobsKept DEF Schedule, Midnight, MissedMidnight, Tick, EnqueueDigest, TickFails, vars
  <2>4. HandlersApart'
    BY <1>1, <1>2, <2>1, <2>3, HandlersKept
  <2> QED BY <1>1, <2>1, <2>4
<1>6. ASSUME NEW s \in Slots, NEW j \in Jobs, NEW pc \in {"update", "model", "ack"}, NEW seen \in SUBSET Chunks,
             Leased(s, j, pc, seen), j \in TopicJobs => pc # "model", pc = "update" => entity
      PROVE  HandlersApart' /\ UNCHANGED nodes
  <2>1. /\ ~Busy(s) /\ job[j] = "queued" /\ job' = [job EXCEPT ![j] = "running"]
        /\ run' = [run EXCEPT ![s] = [pc |-> pc, job |-> j, row |-> TRUE, seen |-> seen, locked |-> FALSE]]
        /\ UNCHANGED <<nodes, entity, eraser>>
    BY <1>6 DEF Leased
  <2>2. \A t \in Slots : Busy(t) => run[t].job # j
    BY <1>1, <2>1 DEF HandlersApart
  <2>3. /\ run'[s].job = j /\ run'[s].row /\ run'[s].pc = pc /\ job'[j] = "running"
        /\ \A t \in Slots \ {s} : run'[t] = run[t]
        /\ \A i \in Jobs \ {j} : job'[i] = job[i]
    BY <1>2, <2>1
  <2> QED BY <1>1, <1>2, <1>6, <2>1, <2>2, <2>3 DEF HandlersApart, Busy, Topical
<1>7. ASSUME NEW s \in Slots, NEW c \in Chunks, StartTopic(s, c) PROVE HandlersApart' /\ UNCHANGED nodes
  <2>1. links \in SUBSET Chunks
    BY DEF Typed, StoreTyped
  <2>2. Topic(c) \in Jobs
    BY ScopesOfJobs
  <2> QED BY <1>6, <1>7, <2>1, <2>2 DEF StartTopic
<1>8. ASSUME NEW s \in Slots, NEW d \in Days, StartDigest(s, d) PROVE HandlersApart' /\ UNCHANGED nodes
  <2>1. MadeOn(d) \in SUBSET Chunks
    BY DEF MadeOn
  <2>2. Digest(d) \in Jobs /\ Digest(d) \notin TopicJobs
    BY ScopesOfJobs
  <2> QED BY <1>6, <1>8, <2>1, <2>2 DEF StartDigest
<1>9. ASSUME NEW s \in Slots, Raises(s) \/ ModelFails(s) \/ Ack(s) \/ WorkerDies(s)
      PROVE  HandlersApart' /\ UNCHANGED nodes
  <2>1. /\ Busy(s) /\ UNCHANGED <<nodes, entity, eraser>> /\ run' = [run EXCEPT ![s] = Idle]
        /\ \A j \in Jobs : j # run[s].job => job'[j] = job[j]
    BY <1>2, <1>9 DEF Raises, ModelFails, Fail, Ack, WorkerDies
  <2> QED BY <1>1, <2>1, HandlerOver
<1>10. ASSUME NEW s \in Slots, UpdateHotness(s) PROVE HandlersApart' /\ UNCHANGED nodes
  <2>1. /\ Busy(s) /\ run[s].pc = "update" /\ UNCHANGED <<nodes, entity, eraser, job>>
        /\ \/ run' = [run EXCEPT ![s].pc = "model", ![s].locked = entity]
           \/ run' = [run EXCEPT ![s].pc = "ack"]
    BY <1>10 DEF UpdateHotness, Go
  <2>2. run[s] \in Handler /\ entity \in BOOLEAN /\ (Topical(s) => entity)
    BY <1>1, <2>1, BusyHandler DEF HandlersApart, Typed, StoreTyped
  <2>3. /\ run'[s] \in Handler /\ run'[s].job = run[s].job /\ run'[s].row = run[s].row
        /\ \A t \in Slots \ {s} : run'[t] = run[t]
        /\ (run'[s].pc = "model" /\ run'[s].locked = entity) \/ run'[s].pc = "ack"
    BY <1>2, <2>1, <2>2 DEF Handler, PC
  <2>4. HandlersApart'
    BY <1>1, <2>1, <2>2, <2>3, HandlerOn
  <2> QED BY <2>1, <2>4
<1>11. ASSUME NEW s \in Slots, LookUp(s) PROVE HandlersApart' /\ UNCHANGED nodes
  <2>1. /\ Busy(s) /\ run[s].pc = "model" /\ UNCHANGED <<nodes, entity, eraser, job>>
        /\ \/ run' = [run EXCEPT ![s].pc = "insert"] /\ nodes[Scope(run[s].job)] = <<>>
           \/ run' = [run EXCEPT ![s].pc = "refresh"]
    BY <1>11 DEF LookUp, Go, Existing
  <2>2. run[s] \in Handler /\ (Topical(s) => run[s].locked)
    BY <1>1, <2>1, BusyHandler DEF HandlersApart
  <2>3. /\ run'[s] \in Handler /\ run'[s].job = run[s].job /\ run'[s].row = run[s].row
        /\ run'[s].locked = run[s].locked
        /\ \A t \in Slots \ {s} : run'[t] = run[t]
        /\ (run'[s].pc = "insert" /\ nodes[Scope(run[s].job)] = <<>>) \/ run'[s].pc = "refresh"
    BY <1>2, <2>1, <2>2 DEF Handler, PC
  <2>4. HandlersApart'
    BY <1>1, <2>1, <2>2, <2>3, HandlerOn
  <2> QED BY <2>1, <2>4
<1>12. ASSUME NEW s \in Slots PROVE ~Overrun(s)
  BY FaultCounts DEF Overrun
<1>13. ~EraseChunks /\ ~EraseStep /\ ~EraserDies
  BY <1>1, FaultCounts DEF HandlersApart, EraseChunks, EraseStep, EraseEntities, EraseSummaries, EraseCommit,
     EraseFiles, EraserDies, Erasing
<1>14. ASSUME HandlersApart', UNCHANGED nodes PROVE HandlersApart' /\ \A x \in Scopes : Len(nodes'[x]) < 2
  BY <1>1, <1>14
<1>15. CASE \E c \in Chunks : WriteFile(c) \/ CommitRow(c) \/ Admit(c) \/ EnqueueTopic(c)
  BY <1>4, <1>14, <1>15
<1>16. CASE \E s \in Slots : Handle(s) \/ ModelFails(s) \/ WorkerDies(s) \/ Overrun(s)
  BY <1>3, <1>7, <1>8, <1>9, <1>10, <1>11, <1>12, <1>14, <1>16 DEF Handle
<1> QED BY <1>5, <1>13, <1>15, <1>16 DEF Next

\* A re-run refreshes and never duplicates: one node per entity and per day, as
\* long as no lease runs out under its handler and no erasure comes between
\* (TopicRouter.route, DigestBuilder.build).
THEOREM NoDuplicateNodes == Spec => []OneNodePerScope
<1>1. Init => Typed /\ LockInv /\ NodeInv
  BY InitTyped, InitLock, InitNode
<1>2. Typed /\ LockInv /\ NodeInv /\ [Next]_vars => Typed' /\ LockInv' /\ NodeInv'
  BY NextTyped, NextLock, NextNode
<1>3. NodeInv => OneNodePerScope
  BY DEF NodeInv, OneNodePerScope, Orderly
<1> QED BY <1>1, <1>2, <1>3, PTL DEF Spec

-----------------------------------------------------------------------------
(***************************************************************************)
(* The node of an entity above the threshold.                              *)
(***************************************************************************)

\* An entity that is mentioned is there, and mentioned by admitted chunks alone.
LinksInv ==
  /\ links # {} => entity
  /\ \A c \in links : lifecycle[c] = "admitted"

\* A handler that knows its job by a row finds the row, and one that refreshes a
\* node the node.
RunsInv ==
  \A s \in Slots : Busy(s) =>
    /\ run[s].row => job[run[s].job] # "absent"
    /\ run[s].pc = "refresh" => nodes[Scope(run[s].job)] # <<>>

\* Mentions that neither an erasure has come across, nor a job it has left.
Untouched == links \cap (straddled \cup swallowed) = {}

\* The job of c is yet to end, or even to begin, and whoever has it in hand has seen every mention.
WillServe(c) ==
  /\ job[Topic(c)] # "done"
  /\ \A s \in Slots : Busy(s) /\ run[s].row /\ run[s].job = Topic(c) =>
       /\ run[s].pc # "ack"
       /\ run[s].pc = "update" => run[s].seen = links

\* A hot entity without its node has a job that will write it: that of the mention
\* admitted last.
HotInv == Hot(links) /\ Untouched /\ TopicNodes = <<>> => \E c \in links : WillServe(c)

LEMMA InitHot == Init => LinksInv /\ RunsInv /\ HotInv
<1> SUFFICES ASSUME Init PROVE LinksInv /\ RunsInv /\ HotInv
  OBVIOUS
<1>1. ~Hot(links)
  <2>1. Cardinality({}) = 0
    BY FS_EmptySet
  <2> QED BY <2>1, MemoryAssumption DEF Init, Hot
<1> QED BY <1>1 DEF Init, LinksInv, RunsInv, HotInv, Busy

\* No step but the commit of an erasure takes a link, or an admission, back.
LEMMA NextLinks == Typed /\ LinksInv /\ [Next]_vars => LinksInv'
<1> SUFFICES ASSUME Typed, LinksInv, [Next]_vars PROVE LinksInv'
  OBVIOUS
<1> USE DEF storeVars, clockVars, eraseVars, LinksInv
<1>0. /\ lifecycle \in [Chunks -> {"absent", "pending", "admitted"}] /\ links \subseteq Chunks
      /\ writing \subseteq Chunks /\ \A c \in writing : lifecycle[c] = "absent"
  BY DEF Typed, StoreTyped
<1>1. ASSUME NEW c \in Chunks, WriteFile(c) \/ CommitRow(c) \/ Admit(c) \/ EnqueueTopic(c) PROVE LinksInv'
  BY <1>0, <1>1 DEF WriteFile, CommitRow, Admit, EnqueueTopic
<1>2. CASE EraseCommit
  BY <1>0, <1>2 DEF EraseCommit
<1>3. CASE EraseChunks \/ EraseEntities \/ EraseSummaries \/ EraseFiles \/ EraserDies
  BY <1>3 DEF EraseChunks, EraseEntities, EraseSummaries, EraseFiles, EraserDies
<1>4. ASSUME NEW s \in Slots, Handle(s) \/ ModelFails(s) \/ WorkerDies(s) \/ Overrun(s) PROVE LinksInv'
  BY <1>4 DEF Handle, StartTopic, StartDigest, Leased, UpdateHotness, LookUp, WriteNode, Raises,
         Ack, ModelFails, Fail, WorkerDies, Overrun
<1>5. CASE Schedule \/ MissedMidnight \/ TickFails \/ UNCHANGED vars
  BY <1>5 DEF Schedule, Midnight, MissedMidnight, Tick, EnqueueDigest, TickFails, vars
<1> QED BY <1>1, <1>2, <1>3, <1>4, <1>5 DEF Next, EraseStep

\* One handler moves, no job and no last node goes.
LEMMA RunsKept ==
  ASSUME Typed, RunsInv, \A j \in Jobs : job[j] # "absent" => job'[j] # "absent",
         \A x \in Scopes : nodes[x] # <<>> => nodes'[x] # <<>>,
         NEW s \in Slots, \A t \in Slots \ {s} : run'[t] = run[t],
         Busy(s)' /\ run'[s].row => job'[run'[s].job] # "absent",
         Busy(s)' /\ run'[s].pc = "refresh" => nodes'[Scope(run'[s].job)] # <<>>
  PROVE  RunsInv'
<1>1. \A t \in Slots : Busy(t) => run[t].job \in Jobs /\ Scope(run[t].job) \in Scopes
  BY BusyHandler, ScopesOfJobs
<1> QED BY <1>1 DEF RunsInv, Busy

\* No handler moves at all.
LEMMA RunsStay ==
  ASSUME Typed, RunsInv, UNCHANGED <<run, nodes>>,
         \A j \in Jobs : job[j] # "absent" => job'[j] # "absent"
  PROVE  RunsInv'
<1>1. \A t \in Slots : Busy(t) => run[t].job \in Jobs
  BY BusyHandler
<1> QED BY <1>1 DEF RunsInv, Busy

LEMMA EnqueueKeeps ==
  ASSUME Typed, NEW j \in Jobs
  PROVE  /\ \A i \in Jobs : job[i] # "absent" => Enqueue(j)[i] = job[i]
         /\ job[j] = "absent" => Enqueue(j)[j] = "queued"
         /\ \A i \in Jobs : i # j => Enqueue(j)[i] = job[i]
BY DEF Enqueue, Typed, QueueTyped

\* A write takes no scope its last node, and leaves its own with one: a handler
\* refreshes only what is there.
LEMMA NodesStay ==
  ASSUME Typed, RunsInv, NEW s \in Slots, WriteNode(s)
  PROVE  /\ \A y \in Scopes : nodes[y] # <<>> => nodes'[y] # <<>>
         /\ nodes'[Scope(run[s].job)] # <<>>
<1> DEFINE x    == Scope(run[s].job)
           node == [covers |-> run[s].seen, locked |-> run[s].locked]
<1>1. /\ nodes \in [Scopes -> Seq(Node)] /\ Busy(s) /\ x \in Scopes /\ node \in Node
      /\ \/ nodes' = [nodes EXCEPT ![x] = Append(nodes[x], node)]
         \/ run[s].pc = "refresh" /\ nodes' = [nodes EXCEPT ![x] = [nodes[x] EXCEPT ![1] = node]]
  BY NodesWritten DEF Typed, NodesTyped
<1>2. \A y \in Scopes \ {x} : nodes'[y] = nodes[y]
  BY <1>1
<1>3. nodes[x] \in Seq(Node)
  BY <1>1
<1>4. CASE nodes'[x] = Append(nodes[x], node)
  <2>1. Append(nodes[x], node) # <<>>
    BY <1>1, <1>3, AppendProperties
  <2> QED BY <1>2, <1>4, <2>1
<1>5. CASE run[s].pc = "refresh" /\ nodes'[x] = [nodes[x] EXCEPT ![1] = node]
  <2>1. nodes[x] # <<>>
    BY <1>1, <1>5 DEF RunsInv
  <2>2. DOMAIN nodes'[x] = DOMAIN nodes[x]
    BY <1>5
  <2>3. Len(nodes[x]) \in Nat \ {0} /\ DOMAIN nodes[x] = 1..Len(nodes[x])
    BY <1>3, <2>1, EmptySeq, LenProperties
  <2>4. 1 \in DOMAIN nodes'[x]
    BY <2>2, <2>3
  <2>5. DOMAIN <<>> = {}
    OBVIOUS
  <2>6. nodes'[x] # <<>>
    BY <2>4, <2>5
  <2> QED BY <1>2, <2>6
<1> QED BY <1>1, <1>4, <1>5

LEMMA NextRuns == Typed /\ RunsInv /\ [Next]_vars => RunsInv'
<1> SUFFICES ASSUME Typed, RunsInv, [Next]_vars PROVE RunsInv'
  OBVIOUS
<1> USE DEF storeVars, clockVars, eraseVars
<1>0. /\ run \in [Slots -> Handler \cup {Idle}]
      /\ job \in [Jobs -> {"absent", "queued", "running", "done", "failed"}]
      /\ nodes \in [Scopes -> Seq(Node)]
  BY DEF Typed, RunsTyped, QueueTyped, NodesTyped
<1>1. ASSUME NEW c \in Chunks, WriteFile(c) \/ CommitRow(c) \/ Admit(c) \/ EnqueueTopic(c) PROVE RunsInv'
  <2>1. UNCHANGED <<run, nodes>> /\ \A j \in Jobs : job[j] # "absent" => job'[j] # "absent"
    BY <1>1, ScopesOfJobs, EnqueueKeeps DEF WriteFile, CommitRow, Admit, EnqueueTopic
  <2> QED BY <2>1, RunsStay
<1>2. CASE Schedule \/ MissedMidnight \/ TickFails \/ UNCHANGED vars
  <2>1. scheduler = "enqueue" => today - 1 \in Days
    BY DEF Typed, ClockTyped
  <2>2. UNCHANGED <<run, nodes>> /\ \A j \in Jobs : job[j] # "absent" => job'[j] # "absent"
    BY <1>2, <2>1, ScopesOfJobs, EnqueueKeeps DEF Schedule, Midnight, MissedMidnight, Tick, EnqueueDigest, TickFails, vars
  <2> QED BY <2>2, RunsStay
<1>3. CASE EraseChunks \/ EraseEntities \/ EraseSummaries \/ EraseFiles \/ EraserDies
  BY <1>3, RunsStay DEF EraseChunks, EraseEntities, EraseSummaries, EraseFiles, EraserDies
<1>4. ASSUME NEW s \in Slots, Handle(s) \/ ModelFails(s) \/ WorkerDies(s) \/ Overrun(s), ~WriteNode(s)
      PROVE  RunsInv'
  <2>1. UNCHANGED nodes /\ \A t \in Slots \ {s} : run'[t] = run[t]
    BY <1>0, <1>4 DEF Handle, StartTopic, StartDigest, Leased, UpdateHotness, LookUp, Raises, Ack,
                      ModelFails, Fail, WorkerDies, Overrun, Go
  <2>2. \A j \in Jobs : job[j] # "absent" => job'[j] # "absent"
    BY <1>0, <1>4 DEF Handle, StartTopic, StartDigest, Leased, UpdateHotness, LookUp, Raises, Ack,
                      ModelFails, Fail, WorkerDies, Overrun, Go
  <2>3. ASSUME NEW j \in Jobs, NEW pc \in {"update", "model", "ack"}, NEW seen, Leased(s, j, pc, seen)
        PROVE  job'[run'[s].job] # "absent" /\ run'[s].pc # "refresh"
    <3>1. run'[s] = [pc |-> pc, job |-> j, row |-> TRUE, seen |-> seen, locked |-> FALSE]
      BY <1>0, <2>3 DEF Leased
    <3> QED BY <1>0, <2>3, <3>1 DEF Leased
  <2>4. ASSUME NEW c \in Chunks, StartTopic(s, c) PROVE job'[run'[s].job] # "absent" /\ run'[s].pc # "refresh"
    BY <2>3, <2>4, ScopesOfJobs DEF StartTopic
  <2>5. ASSUME NEW d \in Days, StartDigest(s, d) PROVE job'[run'[s].job] # "absent" /\ run'[s].pc # "refresh"
    BY <2>3, <2>5, ScopesOfJobs DEF StartDigest
  <2>6. ASSUME UpdateHotness(s) \/ LookUp(s)
        PROVE  /\ Busy(s) /\ UNCHANGED job /\ run'[s].job = run[s].job /\ run'[s].row = run[s].row
               /\ run'[s].pc = "refresh" => nodes[Scope(run[s].job)] # <<>>
    <3>1. Busy(s) /\ run[s] \in Handler
      BY <2>6, BusyHandler DEF UpdateHotness, LookUp
    <3> QED BY <1>0, <2>6, <3>1 DEF UpdateHotness, LookUp, Go, Handler, Existing
  <2>7. ASSUME Raises(s) \/ Ack(s) \/ ModelFails(s) \/ WorkerDies(s) PROVE ~Busy(s)'
    BY <1>0, <2>7 DEF Raises, Ack, ModelFails, Fail, WorkerDies, Busy
  <2>8. ASSUME Overrun(s) PROVE UNCHANGED run /\ Busy(s) /\ run[s].job \in Jobs
    BY <2>8, BusyHandler DEF Overrun
  <2>9. Busy(s)' /\ run'[s].row => job'[run'[s].job] # "absent"
    BY <1>4, <2>2, <2>4, <2>5, <2>6, <2>7, <2>8 DEF Handle, RunsInv
  <2>10. Busy(s)' /\ run'[s].pc = "refresh" => nodes'[Scope(run'[s].job)] # <<>>
    BY <1>4, <2>1, <2>4, <2>5, <2>6, <2>7, <2>8 DEF Handle, RunsInv
  <2> QED BY <2>1, <2>2, <2>9, <2>10, RunsKept
<1>5. ASSUME NEW s \in Slots, WriteNode(s) PROVE RunsInv'
  <2>1. /\ Busy(s) /\ run[s] \in Handler /\ UNCHANGED job
        /\ run' = [run EXCEPT ![s].pc = "ack", ![s].locked = FALSE]
    BY <1>5, NodesWritten, BusyHandler DEF WriteNode
  <2>2. /\ run'[s].pc = "ack" /\ run'[s].job = run[s].job /\ run'[s].row = run[s].row
        /\ \A t \in Slots \ {s} : run'[t] = run[t]
    BY <1>0, <2>1 DEF Handler
  <2>3. \A y \in Scopes : nodes[y] # <<>> => nodes'[y] # <<>>
    BY <1>5, NodesStay
  <2>4. run'[s].row => job'[run'[s].job] # "absent"
    BY <2>1, <2>2 DEF RunsInv
  <2>5. \A j \in Jobs : job[j] # "absent" => job'[j] # "absent"
    BY <2>1
  <2> QED BY <2>2, <2>3, <2>4, <2>5, RunsKept
<1>6. CASE EraseCommit
  <2> SUFFICES ASSUME NEW s \in Slots, Busy(s)'
               PROVE  /\ run'[s].row => job'[run'[s].job] # "absent"
                      /\ run'[s].pc = "refresh" => nodes'[Scope(run'[s].job)] # <<>>
    BY DEF RunsInv
  <2>1. run'[s] = Orphan(run[s])
    BY <1>6 DEF EraseCommit
  <2>2. Busy(s)
    BY <2>1 DEF Busy, Orphan
  <2>3. run[s] \in Handler /\ run[s].job \in Jobs /\ Scope(run[s].job) \in Scopes
    BY <2>2, BusyHandler, ScopesOfJobs
  <2>4. /\ run'[s].job = run[s].job
        /\ run'[s].row = (run[s].row /\ ~Found(run[s].job))
        /\ run'[s].pc = IF run[s].pc = "refresh" /\ doomed.nodes[Scope(run[s].job)] > 0
                        THEN "stale" ELSE run[s].pc
    BY <2>1, <2>2, <2>3 DEF Orphan, Busy, Handler
  <2>5. job'[run[s].job] = IF Found(run[s].job) THEN "absent" ELSE job[run[s].job]
    BY <1>6, <2>3 DEF EraseCommit
  <2>6. ASSUME run'[s].pc = "refresh" PROVE nodes'[Scope(run[s].job)] # <<>>
    <3> DEFINE y == Scope(run[s].job)
    <3>1. run[s].pc = "refresh" /\ ~(doomed.nodes[y] > 0) /\ doomed.nodes[y] \in Nat
      BY <2>3, <2>4, <2>6 DEF Typed, EraseTyped
    <3>2. doomed.nodes[y] = 0
      BY <3>1
    <3>3. nodes'[y] = SubSeq(nodes[y], 1, Len(nodes[y])) /\ nodes[y] \in Seq(Node)
      <4>1. nodes'[y] = SubSeq(nodes[y], doomed.nodes[y] + 1, Len(nodes[y]))
        BY <1>6, <2>3 DEF EraseCommit
      <4> QED BY <1>0, <2>3, <3>2, <4>1
    <3>4. nodes[y] # <<>>
      BY <2>2, <3>1 DEF RunsInv
    <3> HIDE DEF y
    <3>5. Len(nodes[y]) \in Nat /\ Len(nodes[y]) # 0
      BY <3>3, <3>4, LenProperties, EmptySeq
    <3>6. SubSeq(nodes[y], 1, Len(nodes[y])) # <<>>
      BY <3>3, <3>5
    <3> QED BY <3>3, <3>6 DEF y
  <2> QED BY <2>2, <2>4, <2>5, <2>6 DEF RunsInv
<1> QED BY <1>1, <1>2, <1>3, <1>4, <1>5, <1>6 DEF Next, EraseStep, Handle

\* One handler moves, and the job of c, which has not ended, goes on.
LEMMA StillServed ==
  ASSUME NEW c \in Chunks, WillServe(c), UNCHANGED links,
         job'[Topic(c)] # "done",
         NEW s \in Slots, \A t \in Slots \ {s} : run'[t] = run[t],
         Busy(s)' /\ run'[s].row /\ run'[s].job = Topic(c) =>
           run'[s].pc # "ack" /\ (run'[s].pc = "update" => run'[s].seen = links)
  PROVE  WillServe(c)'
BY DEF WillServe, Busy

\* What is served stays so, while no mention is added and no node taken.
LEMMA HotKept ==
  ASSUME HotInv, UNCHANGED links, Untouched' => Untouched, TopicNodes' = <<>> => TopicNodes = <<>>,
         \A c \in links : WillServe(c) /\ Hot(links) /\ TopicNodes' = <<>> => WillServe(c)'
  PROVE  HotInv'
BY DEF HotInv, Hot

\* A handler that takes the job of a mention sees them all, and will go on to the
\* model if they are enough.
LEMMA ServedBy ==
  ASSUME Typed, LinksInv, NEW c \in Chunks, WillServe(c), Hot(links), NEW s \in Slots,
         UpdateHotness(s) \/ LookUp(s) \/ Raises(s) \/ ModelFails(s) \/ Ack(s) \/ WorkerDies(s) \/ Overrun(s)
  PROVE  WillServe(c)'
<1> USE DEF storeVars, clockVars, eraseVars
<1>0. /\ run \in [Slots -> Handler \cup {Idle}]
      /\ job \in [Jobs -> {"absent", "queued", "running", "done", "failed"}]
      /\ Topic(c) \in Jobs
  BY ScopesOfJobs DEF Typed, RunsTyped, QueueTyped
<1>1. Busy(s) /\ run[s] \in Handler /\ run[s].job \in Jobs /\ UNCHANGED links
  BY BusyHandler DEF UpdateHotness, LookUp, Raises, ModelFails, Fail, Ack, WorkerDies, Overrun
<1>2. \A t \in Slots \ {s} : run'[t] = run[t]
  BY <1>0 DEF UpdateHotness, LookUp, Raises, ModelFails, Fail, Ack, WorkerDies, Overrun, Go
<1>3. job[Topic(c)] # "done"
  BY DEF WillServe
<1>4. CASE UpdateHotness(s)
  <2>1. run'[s].job = run[s].job /\ run'[s].row = run[s].row /\ run'[s].pc \in {"model", "ack"}
    BY <1>0, <1>1, <1>4 DEF UpdateHotness, Go, Handler
  <2>2. ASSUME run[s].row, run[s].job = Topic(c) PROVE run'[s].pc = "model"
    <3>1. run[s].seen = links
      BY <1>1, <1>4, <2>2 DEF WillServe, UpdateHotness
    <3> QED BY <1>0, <1>1, <1>4, <3>1 DEF UpdateHotness, Handler
  <2>3. job' = job
    BY <1>4 DEF UpdateHotness
  <2> QED BY <1>1, <1>2, <1>3, <2>1, <2>2, <2>3, StillServed
<1>5. CASE LookUp(s)
  <2>1. run'[s].pc \in {"insert", "refresh"} /\ job' = job
    BY <1>0, <1>1, <1>5 DEF LookUp, Go, Handler
  <2> QED BY <1>1, <1>2, <1>3, <2>1, StillServed
<1>6. CASE Raises(s) \/ ModelFails(s) \/ WorkerDies(s)
  <2>1. ~Busy(s)'
    BY <1>0, <1>6 DEF Raises, ModelFails, Fail, WorkerDies, Busy
  <2>2. job'[Topic(c)] # "done"
    BY <1>0, <1>1, <1>3, <1>6 DEF Raises, ModelFails, Fail, WorkerDies
  <2> QED BY <1>1, <1>2, <2>1, <2>2, StillServed
<1>7. CASE Ack(s)
  <2>1. ~Busy(s)' /\ run[s].pc = "ack"
    BY <1>0, <1>7 DEF Ack, Busy
  <2>2. ~(run[s].row /\ run[s].job = Topic(c))
    BY <1>1, <2>1 DEF WillServe
  <2>3. job'[Topic(c)] = job[Topic(c)]
    BY <1>0, <1>1, <1>7, <2>2 DEF Ack
  <2> QED BY <1>1, <1>2, <1>3, <2>1, <2>3, StillServed
<1>8. CASE Overrun(s)
  <2>1. run' = run /\ job'[Topic(c)] # "done"
    BY <1>0, <1>1, <1>3, <1>8 DEF Overrun
  <2> QED BY <1>1, <1>2, <2>1, StillServed DEF WillServe
<1> QED BY <1>4, <1>5, <1>6, <1>7, <1>8

\* A lease leaves the mentions served.
LEMMA ServedByLease ==
  ASSUME Typed, LinksInv, NEW c \in Chunks, WillServe(c), Hot(links), NEW s \in Slots,
         (\E d \in Chunks : StartTopic(s, d)) \/ (\E d \in Days : StartDigest(s, d))
  PROVE  WillServe(c)'
<1> USE DEF storeVars, clockVars, eraseVars
<1>0. /\ run \in [Slots -> Handler \cup {Idle}]
      /\ job \in [Jobs -> {"absent", "queued", "running", "done", "failed"}]
      /\ Topic(c) \in Jobs
  BY ScopesOfJobs DEF Typed, RunsTyped, QueueTyped
<1>1. job[Topic(c)] # "done"
  BY DEF WillServe
<1>2. ASSUME NEW j \in Jobs, NEW pc, NEW seen, Leased(s, j, pc, seen)
      PROVE  /\ run'[s].job = j /\ run'[s].pc = pc /\ run'[s].seen = seen /\ UNCHANGED links
             /\ \A t \in Slots \ {s} : run'[t] = run[t]
             /\ job'[Topic(c)] # "done"
  <2>1. run'[s] = [pc |-> pc, job |-> j, row |-> TRUE, seen |-> seen, locked |-> FALSE]
    BY <1>0, <1>2 DEF Leased
  <2> QED BY <1>0, <1>1, <1>2, <2>1 DEF Leased
<1>3. ASSUME NEW d \in Chunks, StartTopic(s, d) PROVE WillServe(c)'
  <2>1. Leased(s, Topic(d), "update", links)
    <3>1. links # {}
      <4>1. Cardinality({}) = 0
        BY FS_EmptySet
      <4> QED BY <4>1, MemoryAssumption DEF Hot
    <3> QED BY <1>3, <3>1 DEF StartTopic, LinksInv
  <2>2. /\ run'[s].pc = "update" /\ run'[s].seen = links /\ UNCHANGED links
        /\ \A t \in Slots \ {s} : run'[t] = run[t]
        /\ job'[Topic(c)] # "done"
    BY <1>2, <2>1, ScopesOfJobs
  <2> QED BY <2>2, StillServed
<1>4. ASSUME NEW d \in Days, StartDigest(s, d) PROVE WillServe(c)'
  <2>1. Digest(d) \in Jobs /\ Digest(d) # Topic(c)
    BY ScopesOfJobs DEF Digest, Topic
  <2>2. /\ run'[s].job = Digest(d) /\ UNCHANGED links
        /\ \A t \in Slots \ {s} : run'[t] = run[t]
        /\ job'[Topic(c)] # "done"
    BY <1>2, <1>4, <2>1 DEF StartDigest
  <2> QED BY <2>1, <2>2, StillServed
<1> QED BY <1>3, <1>4

\* A topic's handler that writes leaves a node, and another's job is none of c.
LEMMA WrittenOrServed ==
  ASSUME Typed, RunsInv, NEW c \in Chunks, WillServe(c), NEW s \in Slots, WriteNode(s)
  PROVE  TopicNodes' # <<>> \/ WillServe(c)'
<1>1. CASE run[s].job = Topic(c)
  BY <1>1, NodesStay, ScopesOfJobs DEF TopicNodes
<1>2. CASE run[s].job # Topic(c)
  <2>1. /\ run \in [Slots -> Handler \cup {Idle}] /\ run[s] \in Handler
        /\ run' = [run EXCEPT ![s].pc = "ack", ![s].locked = FALSE]
    BY NodesWritten, BusyHandler DEF Typed, RunsTyped
  <2>2. /\ run'[s].job = run[s].job /\ UNCHANGED <<job, links>>
        /\ \A t \in Slots \ {s} : run'[t] = run[t]
    BY <2>1 DEF WriteNode, Handler, storeVars
  <2> QED BY <1>2, <2>2, StillServed DEF WillServe
<1> QED BY <1>1, <1>2

LEMMA NextHot ==
  Typed /\ FilesInv /\ LinksInv /\ RunsInv /\ HotInv /\ [Next]_vars => HotInv'
<1> SUFFICES ASSUME Typed, FilesInv, LinksInv, RunsInv, HotInv, [Next]_vars PROVE HotInv'
  OBVIOUS
<1> USE DEF storeVars, clockVars, eraseVars
<1>0. /\ lifecycle \in [Chunks -> {"absent", "pending", "admitted"}] /\ links \subseteq Chunks
      /\ job \in [Jobs -> {"absent", "queued", "running", "done", "failed"}]
      /\ \A c \in Chunks : Topic(c) \in Jobs
      /\ \A s \in Slots : Busy(s) => run[s].job \in Jobs
  BY ScopesOfJobs, BusyHandler DEF Typed, StoreTyped, QueueTyped
<1>a. ~Hot({})
  <2>1. Cardinality({}) = 0
    BY FS_EmptySet
  <2> QED BY <2>1, MemoryAssumption DEF Hot
<1>1. ASSUME UNCHANGED <<links, nodes, job, run>>, Untouched' => Untouched PROVE HotInv'
  BY <1>1, HotKept DEF WillServe, Busy, TopicNodes
<1>2. ASSUME NEW c \in Chunks, WriteFile(c) PROVE HotInv'
  <2>1. UNCHANGED <<links, nodes, job, run, swallowed>> /\ c \notin links
    BY <1>2 DEF WriteFile, LinksInv
  <2>2. straddled \ {c} \subseteq straddled'
    BY <1>2 DEF WriteFile
  <2> QED BY <1>1, <2>1, <2>2 DEF Untouched
<1>3. ASSUME NEW c \in Chunks, CommitRow(c) PROVE HotInv'
  BY <1>1, <1>3 DEF CommitRow, Untouched
<1>4. ASSUME NEW c \in Chunks, Admit(c) PROVE HotInv'
  <2> SUFFICES ASSUME Untouched' PROVE c \in links' /\ WillServe(c)'
    BY DEF HotInv
  <2>1. c \in links' /\ UNCHANGED <<job, run>>
    BY <1>4 DEF Admit
  <2>2. job[Topic(c)] = "absent"
    BY <1>4, <2>1 DEF Untouched, Admit
  <2>3. \A s \in Slots : Busy(s) /\ run[s].row => run[s].job # Topic(c)
    BY <2>2 DEF RunsInv
  <2> QED BY <2>1, <2>2, <2>3 DEF WillServe, Busy
<1>10. ASSUME NEW c \in Chunks, EnqueueTopic(c) PROVE HotInv'
  <2>1. UNCHANGED <<links, nodes, run, straddled, swallowed>> /\ job' = Enqueue(Topic(c))
    BY <1>10 DEF EnqueueTopic
  <2>2. \A d \in Chunks : job[Topic(d)] # "done" => job'[Topic(d)] # "done"
    BY <1>0, <2>1 DEF Enqueue
  <2>3. \A d \in links : WillServe(d) => WillServe(d)'
    BY <1>0, <2>1, <2>2 DEF WillServe, Busy
  <2>4. Untouched' => Untouched
    BY <2>1 DEF Untouched
  <2> QED BY <2>1, <2>3, <2>4, HotKept DEF TopicNodes
<1>5. CASE EraseChunks
  <2>1. UNCHANGED <<links, nodes, job, run, swallowed>> /\ straddled \subseteq straddled'
    BY <1>5 DEF EraseChunks
  <2> QED BY <1>1, <2>1 DEF Untouched
<1>6. CASE EraseEntities \/ EraseSummaries \/ EraseFiles \/ EraserDies
  BY <1>1, <1>6 DEF EraseEntities, EraseSummaries, EraseFiles, EraserDies, Untouched
<1>7. CASE EraseCommit
  <2>1. links' \subseteq links \ doomed.chunks \/ links' = {}
    BY <1>7 DEF EraseCommit
  <2>2. \A c \in links : c \in straddled \cup doomed.chunks
    BY <1>0, <1>7 DEF FilesInv, LinksInv, Erasing, Present, EraseCommit
  <2>3. straddled' = straddled
    BY <1>7 DEF EraseCommit
  <2>4. Untouched' => links' = {}
    BY <2>1, <2>2, <2>3 DEF Untouched
  <2> QED BY <1>a, <2>4 DEF HotInv, Hot
<1>8. CASE Schedule \/ MissedMidnight \/ TickFails \/ UNCHANGED vars
  <2>1. UNCHANGED <<links, nodes, run, straddled, swallowed>>
    BY <1>8 DEF Schedule, Midnight, MissedMidnight, Tick, EnqueueDigest, TickFails, vars
  <2>2. \A c \in Chunks : job[Topic(c)] # "done" => job'[Topic(c)] # "done"
    <3>1. scheduler = "enqueue" => today - 1 \in Days
      BY DEF Typed, ClockTyped
    <3>2. job' = job \/ \E d \in Days : job' = Enqueue(Digest(d))
      BY <1>8, <3>1 DEF Schedule, Midnight, MissedMidnight, Tick, EnqueueDigest, TickFails, vars
    <3> QED BY <1>0, <3>2, ScopesOfJobs DEF Enqueue
  <2>3. \A c \in links : WillServe(c) => WillServe(c)'
    BY <1>0, <2>1, <2>2 DEF WillServe, Busy
  <2>4. Untouched' => Untouched
    BY <2>1 DEF Untouched
  <2> QED BY <2>1, <2>3, <2>4, HotKept DEF TopicNodes
<1>9. ASSUME NEW s \in Slots, Handle(s) \/ ModelFails(s) \/ WorkerDies(s) \/ Overrun(s) PROVE HotInv'
  <2>1. UNCHANGED <<links, straddled, swallowed>>
    BY <1>9 DEF Handle, StartTopic, StartDigest, Leased, UpdateHotness, LookUp, WriteNode, Raises,
                Ack, ModelFails, Fail, WorkerDies, Overrun
  <2>2. Untouched' => Untouched
    BY <2>1 DEF Untouched
  <2>3. CASE WriteNode(s)
    <3>1. TopicNodes' = <<>> => TopicNodes = <<>>
      BY <2>3, NodesStay, ScopesOfJobs DEF TopicNodes
    <3>2. \A c \in links : WillServe(c) /\ TopicNodes' = <<>> => WillServe(c)'
      BY <1>0, <2>3, WrittenOrServed
    <3> QED BY <2>1, <2>2, <3>1, <3>2, HotKept
  <2>4. CASE ~WriteNode(s)
    <3>1. TopicNodes' = TopicNodes
      BY <1>9, <2>4 DEF Handle, StartTopic, StartDigest, Leased, UpdateHotness, LookUp, Raises, Ack,
                        ModelFails, Fail, WorkerDies, Overrun, TopicNodes
    <3>2. \A c \in links : WillServe(c) /\ Hot(links) => WillServe(c)'
      BY <1>0, <1>9, <2>4, ServedBy, ServedByLease DEF Handle
    <3> QED BY <2>1, <2>2, <3>1, <3>2, HotKept
  <2> QED BY <2>3, <2>4
<1> QED BY <1>2, <1>3, <1>4, <1>5, <1>6, <1>7, <1>8, <1>9, <1>10 DEF Next, EraseStep

\* Once the topic_route jobs of a hot entity's mentions have all ended, it has its
\* node, whichever handlers failed, died or ran twice: the last mention's has seen
\* them all (TopicRouter.route).  Mentions persisted during an erasure are excepted,
\* and those whose own job was swallowed by one of an earlier life of the chunk.
THEOREM HotEntityServed == Spec => []HotEntityHasNode
<1>1. LinksInv /\ RunsInv /\ HotInv => HotEntityHasNode
  BY DEF HotInv, HotEntityHasNode, Untouched, WillServe, TopicNodes
<1>2. Init => Typed /\ FilesInv /\ LinksInv /\ RunsInv /\ HotInv
  BY InitTyped, InitFiles, InitHot
<1>3. Typed /\ FilesInv /\ LinksInv /\ RunsInv /\ HotInv /\ [Next]_vars
        => Typed' /\ FilesInv' /\ LinksInv' /\ RunsInv' /\ HotInv'
  BY NextTyped, NextFiles, NextLinks, NextRuns, NextHot
<1> QED BY <1>1, <1>2, <1>3, PTL DEF Spec

-----------------------------------------------------------------------------
(***************************************************************************)
(* The days that have ended.                                               *)
(***************************************************************************)

\* Nothing has taken a tick, or what it enqueues.
Ticking == NoFault({"tick", "down", "erasure"})

\* While none of these has happened the scheduler lives, and every midnight is
\* followed by its tick before the next one.
DaysInv == Ticking => eraser = "idle" /\ scheduler # "dead" /\ EndedDaysHaveDigest

LEMMA TickingCounts ==
  ASSUME Typed, NEW kind, Fault(kind)
  PROVE  /\ kind \in {"tick", "down", "erasure"} => ~Ticking'
         /\ Ticking' => Ticking
<1>1. kind \in AllFaults /\ faults \in [AllFaults -> Nat] /\ faults' = [faults EXCEPT ![kind] = @ + 1]
  BY MemoryAssumption DEF Fault, Typed, FaultsTyped
<1>2. faults[kind] \in Nat /\ faults'[kind] = faults[kind] + 1
  BY <1>1
<1>3. \A other \in AllFaults : faults'[other] = 0 => faults[other] = 0
  BY <1>1, <1>2
<1> QED BY <1>2, <1>3 DEF Ticking, NoFault, AllFaults

\* A job that is in the table stays there, whatever its handler comes to.
LEMMA HandlersKeepJobs ==
  ASSUME Typed, NEW s \in Slots, Handle(s) \/ ModelFails(s) \/ WorkerDies(s) \/ Overrun(s)
  PROVE  \A j \in Jobs : job[j] # "absent" => job'[j] # "absent"
<1>1. job \in [Jobs -> {"absent", "queued", "running", "done", "failed"}]
  BY DEF Typed, QueueTyped
<1> QED BY <1>1 DEF Handle, StartTopic, StartDigest, Leased, UpdateHotness, LookUp, WriteNode, Raises, Ack,
                    ModelFails, Fail, WorkerDies, Overrun

\* With the chunks and the clock as they were, a step need only keep the jobs.
LEMMA DaysKept ==
  ASSUME Typed, DaysInv, UNCHANGED <<today, scheduler, eraser>>, Ticking' => Ticking,
         \A c \in Chunks : lifecycle'[c] # "absent" /\ born'[c] < today /\ c \notin late'
                             => /\ born'[c] = born[c]
                                /\ \/ lifecycle[c] # "absent" /\ c \notin late
                                   \/ scheduler = "tick" /\ born[c] = today - 1,
         \A j \in Jobs : job[j] # "absent" => job'[j] # "absent"
  PROVE  DaysInv'
<1>1. \A c \in Chunks : born[c] \in Days /\ Digest(born[c]) \in Jobs
  BY ScopesOfJobs DEF Typed, StoreTyped
<1> QED BY <1>1 DEF DaysInv, EndedDaysHaveDigest, Ticking

LEMMA InitDays == Init => DaysInv
<1>1. Init => \A c \in Chunks : lifecycle[c] = "absent"
  BY DEF Init
<1>2. Init => eraser = "idle" /\ scheduler = "asleep"
  BY DEF Init
<1> QED BY <1>1, <1>2 DEF DaysInv, EndedDaysHaveDigest

LEMMA NextDays == Typed /\ DaysInv /\ [Next]_vars => DaysInv'
<1> SUFFICES ASSUME Typed, DaysInv, [Next]_vars, Ticking' PROVE DaysInv'
  BY DEF DaysInv
<1> USE DEF storeVars, clockVars, eraseVars
<1>1. /\ lifecycle \in [Chunks -> {"absent", "pending", "admitted"}] /\ born \in [Chunks -> Days]
      /\ today \in Days /\ scheduler \in {"asleep", "tick", "enqueue", "dead"}
      /\ \A c \in writing : lifecycle[c] = "absent"
      /\ job \in [Jobs -> {"absent", "queued", "running", "done", "failed"}]
  BY DEF Typed, StoreTyped, ClockTyped, QueueTyped
<1>2. today \in Int /\ ~(today < today) /\ \A c \in Chunks : born[c] \in Int
  BY <1>1, MemoryAssumption DEF Days
<1>3. UNCHANGED faults => Ticking
  BY DEF Ticking, NoFault
<1>4. ASSUME NEW c \in Chunks, WriteFile(c) \/ CommitRow(c) \/ Admit(c) \/ EnqueueTopic(c) PROVE DaysInv'
  <2>1. \A j \in Jobs : job[j] # "absent" => job'[j] # "absent"
    BY <1>4, ScopesOfJobs, EnqueueKeeps DEF WriteFile, CommitRow, Admit, EnqueueTopic
  <2>2. UNCHANGED <<today, scheduler, eraser, faults>>
    BY <1>4 DEF WriteFile, CommitRow, Admit, EnqueueTopic
  <2>3. ASSUME NEW d \in Chunks, lifecycle'[d] # "absent", born'[d] < today, d \notin late'
        PROVE  /\ born'[d] = born[d]
               /\ \/ lifecycle[d] # "absent" /\ d \notin late
                  \/ scheduler = "tick" /\ born[d] = today - 1
    <3>1. CASE WriteFile(c)
      BY <1>1, <1>2, <2>3, <3>1 DEF WriteFile
    <3>2. CASE CommitRow(c)
      BY <1>1, <1>2, <2>3, <3>2 DEF CommitRow, YetToLook
    <3>3. CASE Admit(c) \/ EnqueueTopic(c)
      BY <1>1, <2>3, <3>3 DEF Admit, EnqueueTopic
    <3> QED BY <1>4, <3>1, <3>2, <3>3
  <2> QED BY <1>3, <2>1, <2>2, <2>3, DaysKept
<1>5. ASSUME NEW s \in Slots, Handle(s) \/ ModelFails(s) \/ WorkerDies(s) \/ Overrun(s) PROVE DaysInv'
  <2>1. UNCHANGED <<today, scheduler, eraser, lifecycle, born, late>>
    BY <1>5 DEF Handle, StartTopic, StartDigest, Leased, UpdateHotness, LookUp, WriteNode, Raises, Ack,
                ModelFails, Fail, WorkerDies, Overrun
  <2>2. UNCHANGED faults \/ \E kind \in AllFaults : Fault(kind)
    BY <1>5 DEF Handle, StartTopic, StartDigest, Leased, UpdateHotness, LookUp, WriteNode, Raises, Ack,
                ModelFails, WorkerDies, Overrun, AllFaults
  <2>3. Ticking
    BY <1>3, <2>2, TickingCounts
  <2> QED BY <1>5, <2>1, <2>3, DaysKept, HandlersKeepJobs
<1>6. CASE Midnight
  <2>1. UNCHANGED <<lifecycle, born, late, job, eraser, faults>> /\ today' = today + 1
    BY <1>6 DEF Midnight
  <2>2. scheduler = "asleep" /\ scheduler' = "tick" /\ eraser = "idle" /\ EndedDaysHaveDigest
    BY <1>3, <1>6, <2>1 DEF Midnight, DaysInv
  <2>3. \A c \in Chunks : born[c] < today + 1 => born[c] < today \/ born[c] = (today + 1) - 1
    BY <1>2
  <2>4. EndedDaysHaveDigest'
    BY <1>3, <2>1, <2>2, <2>3 DEF EndedDaysHaveDigest, Ticking
  <2> QED BY <2>1, <2>2, <2>4 DEF DaysInv
<1>7. CASE Tick
  <2>1. UNCHANGED <<lifecycle, born, late, job, today, eraser, faults>> /\ scheduler = "tick"
    BY <1>7 DEF Tick
  <2>2. eraser = "idle" /\ EndedDaysHaveDigest /\ scheduler' # "dead"
    BY <1>3, <1>7, <2>1 DEF DaysInv, Tick
  <2>3. ASSUME NEW c \in Chunks, lifecycle[c] # "absent", born[c] = today - 1 PROVE scheduler' = "enqueue"
    BY <1>7, <2>3 DEF Tick, MadeThatDay
  <2>4. EndedDaysHaveDigest'
    BY <1>3, <2>1, <2>2, <2>3 DEF EndedDaysHaveDigest, Ticking
  <2> QED BY <2>1, <2>2, <2>4 DEF DaysInv
<1>11. CASE EnqueueDigest
  <2>1. /\ UNCHANGED <<lifecycle, born, late, today, eraser, faults>> /\ scheduler' = "asleep"
        /\ scheduler = "enqueue" /\ job' = Enqueue(Digest(today - 1))
    BY <1>11 DEF EnqueueDigest
  <2>2. eraser = "idle" /\ EndedDaysHaveDigest /\ Digest(today - 1) \in Jobs
    BY <1>3, <2>1, ScopesOfJobs DEF DaysInv, Typed, ClockTyped
  <2>3. ASSUME NEW c \in Chunks, lifecycle[c] # "absent", born[c] < today, c \notin late
        PROVE  job'[Digest(born[c])] # "absent"
    <3>1. Digest(born[c]) \in Jobs
      BY <1>1, ScopesOfJobs
    <3>2. job[Digest(born[c])] # "absent" \/ born[c] = today - 1
      BY <1>3, <2>1, <2>2, <2>3 DEF EndedDaysHaveDigest, Ticking
    <3> QED BY <2>1, <2>2, <3>1, <3>2, EnqueueKeeps
  <2>4. EndedDaysHaveDigest'
    BY <2>1, <2>3 DEF EndedDaysHaveDigest
  <2> QED BY <2>1, <2>2, <2>4 DEF DaysInv
<1>8. ~MissedMidnight /\ ~TickFails /\ ~EraseChunks
  BY TickingCounts DEF MissedMidnight, TickFails, EraseChunks
<1>9. ~EraseStep /\ ~EraserDies
  <2>1. EraseStep \/ EraserDies => UNCHANGED faults /\ eraser # "idle"
    BY DEF EraseStep, EraseEntities, EraseSummaries, EraseCommit, EraseFiles, EraserDies, Erasing
  <2> QED BY <1>3, <2>1 DEF DaysInv
<1>10. CASE UNCHANGED vars
  BY <1>10 DEF vars, DaysInv, EndedDaysHaveDigest, Ticking, NoFault
<1> QED BY <1>4, <1>5, <1>6, <1>7, <1>8, <1>9, <1>10, <1>11 DEF Next, Schedule

\* No ended day is passed over: a chunk made on it has the digest of that day in the
\* queue, or the tick is about to put it there, as long as no tick was lost, nothing
\* was erased, and the chunk was committed before the tick looked for the chunks of
\* the day (DigestScheduler.tick).  The safety half of DayDigested.
THEOREM NoDayForgotten == Spec => []EndedDaysHaveDigest
<1>1. DaysInv => EndedDaysHaveDigest
  BY DEF DaysInv, EndedDaysHaveDigest, Ticking
<1>2. Init => Typed /\ DaysInv
  BY InitTyped, InitDays
<1>3. Typed /\ DaysInv /\ [Next]_vars => Typed' /\ DaysInv'
  BY NextTyped, NextDays
<1> QED BY <1>1, <1>2, <1>3, PTL DEF Spec
=============================================================================
