-------------------------- MODULE SourceTreeProofs --------------------------
(***************************************************************************)
(* Proofs about the summary tree, for every number of chunks, nodes and    *)
(* runs, every buffer and cascade size, and whatever fails.                *)
(***************************************************************************)
EXTENDS SourceTreeProperties, FiniteSetTheorems, WellFoundedInduction, TLAPS

-----------------------------------------------------------------------------
(***************************************************************************)
(* Type correctness.                                                       *)
(***************************************************************************)

NodeRow == [level : Nat, children : SUBSET (Chunks \cup NodeIds), open : BOOLEAN]

\* Ending a run keeps its variables well typed.
LEMMA EndRunTyped ==
  ASSUME TypeOK, NEW r \in Runs, EndRun(r)
  PROVE  /\ pc' \in [Runs -> PC]
         /\ chunk' \in [Runs -> Chunks \cup {None}]
         /\ level' \in [Runs -> Nat]
         /\ batch' \in [Runs -> SUBSET (Chunks \cup NodeIds)]
         /\ \A s \in Runs : batch'[s] \subseteq (IF level'[s] = 0 THEN Chunks ELSE NodeIds)
BY DEF TypeOK, EndRun, Goto, PC

\* So does going on.
LEMMA GotoTyped ==
  ASSUME TypeOK, NEW r \in Runs, NEW label \in PC, Goto(r, label) PROVE pc' \in [Runs -> PC]
BY DEF TypeOK, Goto

\* A node that is written is well typed, and so are those it consumes.
LEMMA ConsumeTyped ==
  ASSUME TypeOK, NEW r \in Runs, NEW id \in NodeIds, Consume(r, id)
  PROVE  life' \in [Chunks -> Lifecycle] /\ nodes' \in [NodeIds -> NodeRow]
<1>1. [level |-> level[r] + 1, children |-> batch[r], open |-> TRUE] \in NodeRow
  <2>1. level[r] + 1 \in Nat /\ batch[r] \subseteq Chunks \cup NodeIds
    BY DEF TypeOK
  <2> QED BY <2>1 DEF NodeRow
<1>2. \A n \in NodeIds : nodes[n] \in NodeRow
  BY DEF TypeOK, NodeRow
<1>5. \A row \in NodeRow : [row EXCEPT !.open = FALSE] \in NodeRow
  BY DEF NodeRow
<1>3. nodes' \in [NodeIds -> NodeRow]
  BY <1>1, <1>2, <1>5 DEF Consume
<1>4. life' \in [Chunks -> Lifecycle]
  BY DEF TypeOK, Consume, Lifecycle
<1> QED BY <1>3, <1>4

\* What a run selects are chunks at level 0 and nodes above.
LEMMA SelectionTyped ==
  ASSUME NEW l \in Nat
  PROVE  Selection(l) \subseteq (IF l = 0 THEN Chunks ELSE NodeIds)
BY DEF Selection, FirstOf, Buffered, Open, Written

LEMMA InitTyped == Init => TypeOK
BY DEF Init, TypeOK, Lifecycle, PC, NoNode

LEMMA NextTyped == TypeOK /\ [Next]_vars => TypeOK'
<1> SUFFICES ASSUME TypeOK, [Next]_vars PROVE TypeOK'
  OBVIOUS
<1> USE DEF treeVars, runVars, notes
<1>1. ASSUME NEW c \in Chunks, Admit(c) PROVE TypeOK'
  BY <1>1 DEF TypeOK, Admit, Lifecycle
<1>2. ASSUME NEW r \in Runs, NEW c \in Chunks, StartAppend(r, c) PROVE TypeOK'
  BY <1>2 DEF TypeOK, StartAppend, Goto, PC
<1>3. ASSUME NEW r \in Runs, MarkBuffered(r) PROVE TypeOK'
  BY <1>3 DEF TypeOK, MarkBuffered, Goto, PC, Lifecycle
<1>4. ASSUME NEW r \in Runs, CountBuffer(r) PROVE TypeOK'
  <2>1. "select" \in PC
    BY DEF PC
  <2> QED BY <1>4, <2>1, EndRunTyped, GotoTyped DEF TypeOK, CountBuffer, Return
<1>5. ASSUME NEW r \in Runs, StartFlush(r) PROVE TypeOK'
  BY <1>5 DEF TypeOK, StartFlush, Goto, PC
<1>6. ASSUME NEW r \in Runs, Select(r) PROVE TypeOK'
  <2>1. CASE Return(r)
    BY <1>6, <2>1, EndRunTyped DEF TypeOK, Select, Return
  <2>2. CASE batch' = [batch EXCEPT ![r] = Selection(level[r])] /\ Goto(r, "summarize")
               /\ UNCHANGED <<chunk, level, pending>>
    <3>1. "summarize" \in PC /\ level[r] \in Nat
      BY DEF PC, TypeOK
    <3>2. Selection(level[r]) \subseteq (IF level[r] = 0 THEN Chunks ELSE NodeIds)
      BY <3>1, SelectionTyped
    <3> QED BY <1>6, <2>2, <3>1, <3>2, GotoTyped DEF TypeOK, Select
  <2> QED BY <1>6, <2>1, <2>2 DEF Select
<1>8. ASSUME NEW r \in Runs, WriteNode(r) PROVE TypeOK'
  <2>1. life' \in [Chunks -> Lifecycle] /\ nodes' \in [NodeIds -> NodeRow]
    BY <1>8, ConsumeTyped DEF WriteNode
  <2>2. pc' \in [Runs -> PC]
    BY <1>8, GotoTyped DEF WriteNode, PC
  <2>3. /\ level' \in [Runs -> Nat] /\ batch' \in [Runs -> SUBSET (Chunks \cup NodeIds)]
        /\ \A s \in Runs : batch'[s] \subseteq (IF level'[s] = 0 THEN Chunks ELSE NodeIds)
    BY <1>8 DEF TypeOK, WriteNode
  <2> QED BY <1>8, <2>1, <2>2, <2>3 DEF TypeOK, WriteNode, NodeRow
<1>9. ASSUME NEW r \in Runs, ProviderFails(r) \/ Abort(r) PROVE TypeOK'
  BY <1>9, EndRunTyped DEF TypeOK, ProviderFails, Abort, Fault
<1>10. CASE UNCHANGED vars
  BY <1>10 DEF TypeOK, vars
<1> QED BY <1>1, <1>2, <1>3, <1>4, <1>5, <1>6, <1>8, <1>9, <1>10 DEF Next, RunStep

\* Every reachable state is well typed; a run folds chunks at level 0 only.
THEOREM TreeTypeCorrect == Spec => []TypeOK
<1> QED BY InitTyped, NextTyped, PTL DEF Spec

-----------------------------------------------------------------------------
(***************************************************************************)
(* Nothing falls out of the tree.                                          *)
(***************************************************************************)

\* A run folds nodes of its own level, which stay written: so the node it
\* writes is a parent of what it closes, however old its selection is.
TreeInv == TypeOK /\ NothingFallsOut /\ FoldsOwnLevel

LEMMA InitTree == Init => TreeInv
BY InitTyped DEF Init, TreeInv, NothingFallsOut, FoldsOwnLevel, Written, NoNode

\* A step that writes no node and seals no chunk.
LEMMA NodesKept ==
  ASSUME TreeInv, TypeOK', UNCHANGED nodes,
         \A c \in Chunks : life'[c] = "sealed" => life[c] = "sealed",
         \A r \in Runs : level'[r] > 0 => batch'[r] \subseteq {n \in Written : nodes[n].level = level'[r]}
  PROVE  TreeInv'
BY DEF TreeInv, NothingFallsOut, FoldsOwnLevel, Written

\* What a write does to the rows: a node over the batch, and the batch closed.
LEMMA NodeWritten ==
  ASSUME TypeOK, FoldsOwnLevel, NEW r \in Runs, NEW id \in NodeIds \ Written, Consume(r, id)
  PROVE  /\ nodes'[id].level = level[r] + 1 /\ nodes'[id].children = batch[r] /\ nodes'[id].open
         /\ Written' = Written \cup {id}
         /\ \A n \in Written :
              /\ nodes'[n].level = nodes[n].level /\ nodes'[n].children = nodes[n].children
              /\ (~nodes[n].open \/ (level[r] > 0 /\ n \in batch[r]) => ~nodes'[n].open)
              /\ (nodes[n].open /\ ~(level[r] > 0 /\ n \in batch[r]) => nodes'[n].open)
<1>a. \A s \in Runs : level[s] > 0 => batch[s] \subseteq {n \in Written : nodes[n].level = level[s]}
  BY DEF FoldsOwnLevel
<1>1. /\ nodes'[id].level = level[r] + 1 /\ nodes'[id].children = batch[r] /\ nodes'[id].open
      /\ level[r] + 1 # 0
  <2>1. nodes'[id] = [level |-> level[r] + 1, children |-> batch[r], open |-> TRUE]
    BY DEF Consume
  <2>2. level[r] \in Nat
    BY DEF TypeOK
  <2> QED BY <2>1, <2>2
<1>2. \A n \in Written : n \in NodeIds /\ n # id /\ nodes[n] \in NodeRow
  BY DEF Written, TypeOK, NodeRow
<1>3. ASSUME NEW n \in Written
      PROVE  /\ nodes'[n].level = nodes[n].level /\ nodes'[n].children = nodes[n].children
             /\ (~nodes[n].open \/ (level[r] > 0 /\ n \in batch[r]) => ~nodes'[n].open)
             /\ (nodes[n].open /\ ~(level[r] > 0 /\ n \in batch[r]) => nodes'[n].open)
  <2>1. CASE level[r] > 0 /\ n \in batch[r]
    <3>1. nodes'[n] = [nodes[n] EXCEPT !.open = FALSE]
      BY <1>2, <2>1 DEF Consume
    <3> QED BY <1>2, <2>1, <3>1 DEF NodeRow
  <2>2. CASE ~(level[r] > 0 /\ n \in batch[r])
    <3>1. nodes'[n] = nodes[n]
      BY <1>2, <2>2 DEF Consume
    <3> QED BY <2>2, <3>1
  <2> QED BY <2>1, <2>2
<1>4. Written' = Written \cup {id}
  <2>1. \A n \in Written : nodes'[n].level > 0
    BY <1>3 DEF FoldsOwnLevel
  <2>2. \A n \in Written \cup {id} : nodes'[n] # NoNode
    <3>1. nodes'[id] # NoNode
      BY <1>1 DEF NoNode
    <3>2. \A n \in Written : nodes'[n] # NoNode
      BY <2>1 DEF NoNode
    <3> QED BY <3>1, <3>2
  <2>3. ASSUME NEW n \in NodeIds \ (Written \cup {id}) PROVE nodes'[n] = NoNode
    <3>1. nodes[n] = NoNode
      BY DEF Written
    <3>2. ~(level[r] > 0 /\ n \in batch[r])
      BY <1>a
    <3> QED BY <3>1, <3>2 DEF Consume
  <2> QED BY <2>2, <2>3 DEF Written
<1> QED BY <1>1, <1>3, <1>4

LEMMA NextTree == TreeInv /\ [Next]_vars => TreeInv'
<1> SUFFICES ASSUME TreeInv, [Next]_vars PROVE TreeInv'
  OBVIOUS
<1> USE DEF treeVars, runVars, notes
<1>0. TypeOK /\ TypeOK' /\ NothingFallsOut /\ FoldsOwnLevel
  BY NextTyped DEF TreeInv
<1>a. \A r \in Runs : level[r] > 0 => batch[r] \subseteq {n \in Written : nodes[n].level = level[r]}
  BY <1>0 DEF FoldsOwnLevel
<1>1. ASSUME NEW c \in Chunks, Admit(c) PROVE TreeInv'
  BY <1>0, <1>1, <1>a, NodesKept DEF Admit, TypeOK
<1>2. ASSUME NEW r \in Runs, EndRun(r), UNCHANGED treeVars PROVE TreeInv'
  <2>1. \A s \in Runs : level'[s] > 0 => level'[s] = level[s] /\ batch'[s] = batch[s]
    BY <1>0, <1>2 DEF EndRun, TypeOK
  <2> QED BY <1>0, <1>2, <1>a, <2>1, NodesKept
<1>3. ASSUME UNCHANGED <<treeVars, level, batch>> PROVE TreeInv'
  BY <1>0, <1>3, <1>a, NodesKept
<1>4. ASSUME NEW r \in Runs, MarkBuffered(r) PROVE TreeInv'
  BY <1>0, <1>4, <1>a, NodesKept DEF MarkBuffered, TypeOK
<1>5. ASSUME NEW r \in Runs, Select(r), ~Return(r) PROVE TreeInv'
  <2>1. batch' = [batch EXCEPT ![r] = Selection(level[r])] /\ UNCHANGED <<treeVars, level>>
    BY <1>5 DEF Select
  <2>2. level[r] > 0 => Selection(level[r]) \subseteq {n \in Written : nodes[n].level = level[r]}
    BY DEF Selection, FirstOf, Open
  <2>3. \A s \in Runs : level'[s] > 0 => batch'[s] \subseteq {n \in Written : nodes[n].level = level'[s]}
    BY <1>0, <1>a, <2>1, <2>2 DEF TypeOK
  <2> QED BY <1>0, <2>1, <2>3, NodesKept
<1>6. ASSUME NEW r \in Runs, WriteNode(r) PROVE TreeInv'
  <2>1. PICK id \in NodeIds \ Written : Consume(r, id)
    BY <1>6 DEF WriteNode
  <2>2. level[r] \in Nat /\ level' = [level EXCEPT ![r] = level[r] + 1] /\ batch' = [batch EXCEPT ![r] = {}]
    BY <1>0, <1>6 DEF WriteNode, TypeOK
  <2>3. /\ nodes'[id].level = level[r] + 1 /\ nodes'[id].children = batch[r] /\ nodes'[id].open
        /\ Written' = Written \cup {id}
        /\ \A n \in Written : nodes'[n].level = nodes[n].level /\ nodes'[n].children = nodes[n].children
    BY <1>0, <2>1, NodeWritten
  <2>4. \A n \in Written : nodes'[n].level = nodes[n].level /\ nodes'[n].children = nodes[n].children
    BY <2>3
  <2>5. Written' = Written \cup {id} /\ id \in Written'
    BY <2>3
  <2>6. \A c \in Chunks : life'[c] = "sealed" =>
          \E n \in Written' : nodes'[n].level = 1 /\ c \in nodes'[n].children
    <3>1. ASSUME NEW c \in Chunks, life'[c] = "sealed"
          PROVE  \E n \in Written' : nodes'[n].level = 1 /\ c \in nodes'[n].children
      <4>1. CASE level[r] = 0 /\ c \in batch[r]
        BY <2>3, <2>5, <4>1
      <4>2. CASE life[c] = "sealed"
        <5>1. PICK n \in Written : nodes[n].level = 1 /\ c \in nodes[n].children
          BY <1>0, <4>2 DEF NothingFallsOut
        <5> QED BY <2>4, <2>5, <5>1
      <4> QED BY <2>1, <3>1, <4>1, <4>2 DEF Consume
    <3> QED BY <3>1
  <2>7. \A n \in Written' : ~nodes'[n].open =>
          \E m \in Written' : nodes'[m].level = nodes'[n].level + 1 /\ n \in nodes'[m].children
    <3>1. ASSUME NEW n \in Written', ~nodes'[n].open
          PROVE  \E m \in Written' : nodes'[m].level = nodes'[n].level + 1 /\ n \in nodes'[m].children
      <4>0. n \in Written /\ n # id
        BY <2>3, <2>5, <3>1
      <4>1. CASE level[r] > 0 /\ n \in batch[r]
        <5>1. nodes[n].level = level[r]
          BY <1>a, <4>1
        <5> QED BY <2>3, <2>4, <2>5, <4>0, <4>1, <5>1
      <4>2. CASE ~(level[r] > 0 /\ n \in batch[r])
        <5>1. nodes'[n] = nodes[n]
          BY <2>1, <4>0, <4>2 DEF Consume, Written
        <5>2. PICK m \in Written : nodes[m].level = nodes[n].level + 1 /\ n \in nodes[m].children
          BY <1>0, <3>1, <4>0, <5>1 DEF NothingFallsOut
        <5> QED BY <2>4, <2>5, <4>0, <5>2
      <4> QED BY <4>1, <4>2
    <3> QED BY <3>1
  <2>8. FoldsOwnLevel'
    <3>1. \A n \in Written' : nodes'[n].level > 0
      BY <1>0, <2>2, <2>3, <2>4, <2>5 DEF FoldsOwnLevel
    <3>2. \A s \in Runs : level'[s] > 0 =>
            batch'[s] \subseteq {n \in Written' : nodes'[n].level = level'[s]}
      BY <1>0, <1>a, <2>2, <2>4, <2>5 DEF TypeOK
    <3> QED BY <3>1, <3>2 DEF FoldsOwnLevel
  <2>9. NothingFallsOut'
    BY <2>6, <2>7 DEF NothingFallsOut
  <2> QED BY <1>0, <2>8, <2>9 DEF TreeInv
<1>7. ASSUME NEW r \in Runs, ProviderFails(r) \/ Abort(r) PROVE TreeInv'
  BY <1>2, <1>7 DEF ProviderFails, Abort
<1>8. ASSUME NEW r \in Runs, CountBuffer(r) PROVE TreeInv'
  BY <1>2, <1>3, <1>8 DEF CountBuffer, Return
<1>9. ASSUME NEW r \in Runs, Select(r), Return(r) PROVE TreeInv'
  BY <1>2, <1>9 DEF Select, Return
<1>10. ASSUME NEW r \in Runs,
              StartFlush(r) \/ \E c \in Chunks : StartAppend(r, c)
       PROVE  TreeInv'
  BY <1>3, <1>10 DEF StartFlush, StartAppend
<1>11. CASE UNCHANGED vars
  BY <1>3, <1>11 DEF vars
<1> QED BY <1>1, <1>4, <1>5, <1>6, <1>7, <1>8, <1>9, <1>10, <1>11 DEF Next, RunStep

\* A sealed chunk is under a node of level 1 and a closed node under a parent,
\* however runs interleave, wherever they die, and if a job runs twice at once.
THEOREM NothingLost == Spec => []NothingFallsOut
<1>1. TreeInv => NothingFallsOut
  BY DEF TreeInv
<1> QED BY <1>1, InitTree, NextTree, PTL DEF Spec

-----------------------------------------------------------------------------
(***************************************************************************)
(* Lifecycles and provenance, while a job has one run at a time.           *)
(***************************************************************************)

\* The queue hands a job to one worker at a time, as WorkerPoolProofs
\* shows for leases that outlast the work.
OneRunPerJob == ~SameJobTwice

\* A run that is about to mark its chunk finds it as it has read it.
MarksOwn ==
  /\ \A r, s \in Runs : r # s /\ chunk[r] # None => chunk[r] # chunk[s]
  /\ \A r \in Runs : pc[r] = "mark" => chunk[r] \in Chunks /\ life[chunk[r]] = "admitted"

\* What is selected is not empty, and chunks have been buffered before.
SelectsBuffered ==
  /\ \A r \in Runs : pc[r] = "summarize" => batch[r] # {}
  /\ \A r \in Runs : level[r] = 0 => \A c \in batch[r] : life[c] \in {"buffered", "sealed"}

LifeInv == TreeInv /\ MarksOwn /\ SelectsBuffered

LEMMA InitLife == Init => LifeInv
BY InitTree DEF Init, LifeInv, MarksOwn, SelectsBuffered

\* A run that ends has no chunk and no batch.
LEMMA EndRunLife ==
  ASSUME LifeInv, NEW r \in Runs, EndRun(r), UNCHANGED life PROVE MarksOwn' /\ SelectsBuffered'
<1>1. /\ pc \in [Runs -> PC] /\ chunk \in [Runs -> Chunks \cup {None}] /\ level \in [Runs -> Nat]
      /\ batch \in [Runs -> SUBSET (Chunks \cup NodeIds)]
  BY DEF LifeInv, TreeInv, TypeOK
<1>2. /\ pc'[r] = "idle" /\ chunk'[r] = None /\ batch'[r] = {}
      /\ \A s \in Runs \ {r} : pc'[s] = pc[s] /\ chunk'[s] = chunk[s] /\ level'[s] = level[s] /\ batch'[s] = batch[s]
  BY <1>1 DEF EndRun, Goto
<1>3. MarksOwn'
  BY <1>2 DEF LifeInv, MarksOwn
<1>4. SelectsBuffered'
  BY <1>2 DEF LifeInv, SelectsBuffered
<1> QED BY <1>3, <1>4

\* What a step does to the lifecycles, from where the invariant has the runs.
LEMMA Forward ==
  ASSUME LifeInv, [Next]_vars
  PROVE  \A c \in Chunks : life'[c] # life[c] =>
           \/ life[c] = "absent" /\ life'[c] = "admitted"
           \/ life[c] = "admitted" /\ life'[c] = "buffered" /\ \E r \in Runs : MarkBuffered(r) /\ chunk[r] = c
           \/ life[c] = "buffered" /\ life'[c] = "sealed"
<1> USE DEF treeVars
<1>1. life \in [Chunks -> Lifecycle]
  BY DEF LifeInv, TreeInv, TypeOK
<1>2. ASSUME NEW r \in Runs, MarkBuffered(r), NEW c \in Chunks, life'[c] # life[c]
      PROVE  life[c] = "admitted" /\ life'[c] = "buffered" /\ chunk[r] = c
  BY <1>1, <1>2 DEF MarkBuffered, LifeInv, MarksOwn
<1>3. ASSUME NEW r \in Runs, WriteNode(r), NEW c \in Chunks, life'[c] # life[c]
      PROVE  life[c] = "buffered" /\ life'[c] = "sealed"
  BY <1>1, <1>3 DEF WriteNode, Consume, LifeInv, SelectsBuffered
<1>4. ASSUME NEW d \in Chunks, Admit(d), NEW c \in Chunks, life'[c] # life[c]
      PROVE  life[c] = "absent" /\ life'[c] = "admitted"
  BY <1>1, <1>4 DEF Admit
<1>5. ASSUME NEW r \in Runs,
             (\E c \in Chunks : StartAppend(r, c)) \/ CountBuffer(r) \/ StartFlush(r) \/ Select(r)
               \/ ProviderFails(r) \/ Abort(r)
      PROVE  life' = life
  BY <1>5 DEF StartAppend, CountBuffer, StartFlush, Select, ProviderFails, Abort
<1>6. CASE UNCHANGED vars
  BY <1>6 DEF vars
<1> QED BY <1>2, <1>3, <1>4, <1>5, <1>6 DEF Next, RunStep

LEMMA NextLife ==
  ASSUME OneRunPerJob, LifeInv, [Next]_vars PROVE LifeInv'
<1> USE DEF treeVars
<1>1. TypeOK /\ MarksOwn /\ SelectsBuffered /\ TreeInv'
  BY NextTree DEF LifeInv, TreeInv
<1>2. /\ pc \in [Runs -> PC] /\ chunk \in [Runs -> Chunks \cup {None}] /\ level \in [Runs -> Nat]
      /\ batch \in [Runs -> SUBSET (Chunks \cup NodeIds)] /\ life \in [Chunks -> Lifecycle]
      /\ \A r \in Runs : level[r] = 0 => batch[r] \subseteq Chunks
  BY <1>1 DEF TypeOK
<1>3. \A c \in Chunks : life[c] \in {"buffered", "sealed"} => life'[c] \in {"buffered", "sealed"}
  BY Forward
<1>4. ASSUME UNCHANGED <<pc, chunk, level, batch>>,
             \A c \in Chunks : life[c] = "admitted" => life'[c] = "admitted"
      PROVE  MarksOwn' /\ SelectsBuffered'
  BY <1>1, <1>2, <1>3, <1>4 DEF MarksOwn, SelectsBuffered
<1>5. ASSUME NEW r \in Runs, UNCHANGED <<life, chunk, level, batch>>, Goto(r, "count") \/ Goto(r, "select")
      PROVE  MarksOwn' /\ SelectsBuffered'
  BY <1>1, <1>2, <1>5 DEF MarksOwn, SelectsBuffered, Goto
<1>6. ASSUME NEW r \in Runs, EndRun(r), UNCHANGED life PROVE MarksOwn' /\ SelectsBuffered'
  BY <1>6, EndRunLife
<1>7. ASSUME NEW c \in Chunks, Admit(c) PROVE MarksOwn' /\ SelectsBuffered'
  BY <1>2, <1>4, <1>7 DEF Admit, runVars
<1>8. ASSUME NEW r \in Runs, NEW c \in Chunks, StartAppend(r, c) PROVE MarksOwn' /\ SelectsBuffered'
  <2>1. CASE life[c] = "admitted"
    <3>1. /\ pc' = [pc EXCEPT ![r] = "mark"] /\ chunk' = [chunk EXCEPT ![r] = c] /\ UNCHANGED <<life, level, batch>>
          /\ \A s \in Runs : chunk[s] # c
      BY <1>8, <2>1 DEF StartAppend, Goto, OneRunPerJob
    <3>2. MarksOwn'
      BY <1>1, <1>2, <2>1, <3>1 DEF MarksOwn
    <3>3. SelectsBuffered'
      BY <1>1, <1>2, <3>1 DEF SelectsBuffered
    <3> QED BY <3>2, <3>3
  <2>2. CASE life[c] # "admitted"
    BY <1>4, <1>8, <2>2 DEF StartAppend
  <2> QED BY <2>1, <2>2
<1>9. ASSUME NEW r \in Runs, MarkBuffered(r) PROVE MarksOwn' /\ SelectsBuffered'
  <2>1. /\ pc[r] = "mark" /\ pc' = [pc EXCEPT ![r] = "count"] /\ UNCHANGED <<chunk, level, batch>>
        /\ \A c \in Chunks : c # chunk[r] => life'[c] = life[c]
    BY <1>2, <1>9 DEF MarkBuffered, Goto
  <2>2. chunk[r] # None
    BY <1>1, <2>1, TreeAssumption DEF MarksOwn
  <2>3. MarksOwn'
    BY <1>1, <1>2, <2>1, <2>2 DEF MarksOwn
  <2>4. SelectsBuffered'
    BY <1>1, <1>2, <1>3, <2>1 DEF SelectsBuffered
  <2> QED BY <2>3, <2>4
<1>10. ASSUME NEW r \in Runs, CountBuffer(r) \/ StartFlush(r) PROVE MarksOwn' /\ SelectsBuffered'
  BY <1>5, <1>6, <1>10 DEF CountBuffer, StartFlush, Return
<1>11. ASSUME NEW r \in Runs, Select(r) PROVE MarksOwn' /\ SelectsBuffered'
  <2>1. CASE Return(r)
    BY <1>6, <1>11, <2>1 DEF Select, Return
  <2>2. CASE Selection(level[r]) # {} /\ batch' = [batch EXCEPT ![r] = Selection(level[r])]
               /\ Goto(r, "summarize") /\ UNCHANGED <<chunk, level, life>>
    <3>1. level[r] = 0 => \A c \in Selection(level[r]) : c \in Chunks /\ life[c] = "buffered"
      BY DEF Selection, FirstOf, Buffered
    <3>2. MarksOwn'
      BY <1>1, <1>2, <2>2 DEF MarksOwn, Goto
    <3>3. SelectsBuffered'
      BY <1>1, <1>2, <2>2, <3>1 DEF SelectsBuffered, Goto
    <3> QED BY <3>2, <3>3
  <2> QED BY <1>11, <2>1, <2>2 DEF Select
<1>12. ASSUME NEW r \in Runs, WriteNode(r) PROVE MarksOwn' /\ SelectsBuffered'
  <2>1. /\ pc' = [pc EXCEPT ![r] = "select"] /\ chunk' = chunk
        /\ level' = [level EXCEPT ![r] = level[r] + 1] /\ batch' = [batch EXCEPT ![r] = {}]
    BY <1>12 DEF WriteNode, Goto
  <2>2. \A c \in Chunks : life[c] = "admitted" => life'[c] = "admitted"
    BY <1>1, <1>2, <1>12 DEF WriteNode, Consume, SelectsBuffered
  <2>3. MarksOwn'
    BY <1>1, <1>2, <2>1, <2>2 DEF MarksOwn
  <2>4. SelectsBuffered'
    BY <1>1, <1>2, <1>3, <2>1 DEF SelectsBuffered
  <2> QED BY <2>3, <2>4
<1>13. ASSUME NEW r \in Runs, ProviderFails(r) \/ Abort(r) PROVE MarksOwn' /\ SelectsBuffered'
  BY <1>6, <1>13 DEF ProviderFails, Abort
<1>14. ASSUME UNCHANGED vars PROVE MarksOwn' /\ SelectsBuffered'
  BY <1>4, <1>14 DEF vars, runVars
<1>15. MarksOwn' /\ SelectsBuffered'
  BY <1>7, <1>8, <1>9, <1>10, <1>11, <1>12, <1>13, <1>14 DEF Next, RunStep
<1> QED BY <1>1, <1>15 DEF LifeInv

\* A buffered chunk is never taken back, and a sealed one never buffered again,
\* although MarkBuffered does not look at the lifecycle (append_buffer).
THEOREM LifecycleKept ==
  ASSUME OneRunPerJob PROVE Spec => LifecycleForward
<1> DEFINE Ahead == \A c \in Chunks :
       /\ life[c] = "buffered" => life'[c] \in {"buffered", "sealed"}
       /\ life[c] = "sealed" => life'[c] = "sealed"
<1>1. LifeInv /\ [Next]_vars => LifeInv'
  BY NextLife
<1>2. LifeInv /\ [Next]_vars => [Ahead]_vars
  BY Forward
<1> QED BY InitLife, <1>1, <1>2, PTL DEF Spec, LifecycleForward

-----------------------------------------------------------------------------

\* A leaf is a chunk.
LeavesAreChunks == \A n \in Written : nodes[n].level = 1 => nodes[n].children \subseteq Chunks

ChainInv == LifeInv /\ ChainsDown /\ LeavesAreChunks

\* What a node covers stays sealed, or closed and of the level below.
LEMMA NextChain ==
  ASSUME OneRunPerJob, ChainInv, [Next]_vars PROVE ChainInv'
<1> USE DEF treeVars
<1>1. LifeInv /\ ChainsDown /\ LeavesAreChunks /\ TypeOK /\ FoldsOwnLevel /\ SelectsBuffered
  BY DEF ChainInv, LifeInv, TreeInv
<1>2. LifeInv'
  BY <1>1, NextLife
<1>3. \A c \in Chunks : life[c] = "sealed" => life'[c] = "sealed"
  BY <1>1, Forward
<1>4. \A n \in Written : nodes[n].children # {} /\ nodes[n].level \in Nat /\ nodes[n].level > 0
  BY <1>1 DEF ChainsDown, FoldsOwnLevel, TypeOK, Written
<1>5. ASSUME NEW n \in Written, nodes[n].level = 1
      PROVE  nodes[n].children \subseteq Chunks /\ \A c \in nodes[n].children : life'[c] = "sealed"
  BY <1>1, <1>3, <1>5 DEF ChainsDown, LeavesAreChunks
<1>6. ASSUME NEW n \in Written, nodes[n].level # 1, NEW m \in nodes[n].children
      PROVE  m \in Written /\ ~nodes[m].open /\ nodes[m].level = nodes[n].level - 1
  BY <1>1, <1>6 DEF ChainsDown
<1>7. ASSUME UNCHANGED nodes PROVE ChainsDown' /\ LeavesAreChunks'
  <2>1. Written' = Written
    BY <1>7 DEF Written
  <2>2. LeavesAreChunks'
    BY <1>1, <1>7, <2>1 DEF LeavesAreChunks
  <2>3. ChainsDown'
    BY <1>4, <1>5, <1>6, <1>7, <2>1 DEF ChainsDown
  <2> QED BY <2>2, <2>3
<1>8. ASSUME NEW r \in Runs, WriteNode(r) PROVE ChainsDown' /\ LeavesAreChunks'
  <2>1. PICK id \in NodeIds \ Written : Consume(r, id)
    BY <1>8 DEF WriteNode
  <2>2. level[r] \in Nat /\ batch[r] # {} /\ (level[r] = 0 => batch[r] \subseteq Chunks)
        /\ (level[r] > 0 => batch[r] \subseteq {n \in Written : nodes[n].level = level[r]})
    BY <1>1, <1>8 DEF WriteNode, TypeOK, SelectsBuffered, FoldsOwnLevel
  <2>3. /\ nodes'[id].level = level[r] + 1 /\ nodes'[id].children = batch[r]
        /\ Written' = Written \cup {id}
        /\ \A n \in Written :
             /\ nodes'[n].level = nodes[n].level /\ nodes'[n].children = nodes[n].children
             /\ (~nodes[n].open \/ (level[r] > 0 /\ n \in batch[r]) => ~nodes'[n].open)
    BY <1>1, <2>1, NodeWritten
  <2>4. CASE level[r] = 0
    <3>1. \A c \in batch[r] : c \in Chunks /\ life'[c] = "sealed"
      BY <2>1, <2>2, <2>4 DEF Consume
    <3>2. nodes'[id].level = 1 /\ nodes'[id].children \subseteq Chunks /\ nodes'[id].children # {}
          /\ \A c \in nodes'[id].children : life'[c] = "sealed"
      BY <2>2, <2>3, <2>4, <3>1
    <3>3. LeavesAreChunks'
      BY <1>1, <2>3, <3>2 DEF LeavesAreChunks
    <3>4. ASSUME NEW n \in Written'
          PROVE  /\ nodes'[n].children # {}
                 /\ nodes'[n].level = 1 => \A c \in nodes'[n].children : life'[c] = "sealed"
                 /\ nodes'[n].level # 1 => \A m \in nodes'[n].children :
                      m \in Written' /\ ~nodes'[m].open /\ nodes'[m].level = nodes'[n].level - 1
      <4>1. CASE n = id
        BY <3>2, <4>1
      <4>2. CASE n \in Written
        BY <1>4, <1>5, <1>6, <2>3, <4>2
      <4> QED BY <2>3, <4>1, <4>2
    <3>5. ChainsDown'
      BY <3>4 DEF ChainsDown
    <3> QED BY <3>3, <3>5
  <2>5. CASE level[r] > 0
    <3>1. nodes'[id].level # 1 /\ nodes'[id].children # {} /\ nodes'[id].level - 1 = level[r]
          /\ \A m \in nodes'[id].children : m \in Written /\ ~nodes'[m].open /\ nodes'[m].level = level[r]
      BY <2>2, <2>3, <2>5
    <3>2. LeavesAreChunks'
      BY <1>1, <2>3, <3>1 DEF LeavesAreChunks
    <3>3. ASSUME NEW n \in Written'
          PROVE  /\ nodes'[n].children # {}
                 /\ nodes'[n].level = 1 => \A c \in nodes'[n].children : life'[c] = "sealed"
                 /\ nodes'[n].level # 1 => \A m \in nodes'[n].children :
                      m \in Written' /\ ~nodes'[m].open /\ nodes'[m].level = nodes'[n].level - 1
      <4>1. CASE n = id
        BY <2>3, <3>1, <4>1
      <4>2. CASE n \in Written
        BY <1>4, <1>5, <1>6, <2>3, <4>2
      <4> QED BY <2>3, <4>1, <4>2
    <3>4. ChainsDown'
      BY <3>3 DEF ChainsDown
    <3> QED BY <3>2, <3>4
  <2> QED BY <2>2, <2>4, <2>5
<1>9. UNCHANGED nodes \/ \E r \in Runs : WriteNode(r)
  BY DEF Next, RunStep, Admit, StartAppend, MarkBuffered, CountBuffer, StartFlush, Select, ProviderFails, Abort, vars
<1> QED BY <1>2, <1>7, <1>8, <1>9 DEF ChainInv

\* Whatever overlaps or breaks off, every node has children, which are sealed
\* chunks or closed nodes of the level below (seal, _cascade; tree_retrieval.py).
THEOREM Provenance ==
  ASSUME OneRunPerJob PROVE Spec => []ChainsDown
<1>1. Init => ChainInv
  BY InitLife DEF Init, ChainInv, ChainsDown, LeavesAreChunks, Written
<1>2. ChainInv /\ [Next]_vars => ChainInv'
  BY NextChain
<1>3. ChainInv => ChainsDown
  BY DEF ChainInv
<1> QED BY <1>1, <1>2, <1>3, PTL DEF Spec

-----------------------------------------------------------------------------
(***************************************************************************)
(* Only overlapping selections give two parents.                           *)
(***************************************************************************)

\* Without an overlap, a selection is that of one run, and still open.
SelectsApart ==
  overlapped = 0 =>
    /\ \A r, s \in Runs : r # s /\ level[r] = level[s] => batch[r] \cap batch[s] = {}
    /\ \A r \in Runs : level[r] = 0 => \A c \in batch[r] : life[c] = "buffered"
    /\ \A r \in Runs : level[r] > 0 => \A n \in batch[r] : nodes[n].open

ParentInv == ChainInv /\ SelectsApart /\ OneParentUnlessOverlapped

\* A run that ends, or goes on without a new selection.
LEMMA ApartKept ==
  ASSUME ParentInv, UNCHANGED <<nodes, overlapped>>,
         \A c \in Chunks : life[c] = "buffered" => life'[c] = "buffered",
         \A r \in Runs : batch'[r] = {} \/ (batch'[r] = batch[r] /\ level'[r] = level[r])
  PROVE  SelectsApart' /\ OneParentUnlessOverlapped'
<1>1. /\ SelectsApart /\ OneParentUnlessOverlapped
      /\ \A r \in Runs : level[r] = 0 => batch[r] \subseteq Chunks
  BY DEF ParentInv, ChainInv, LifeInv, TreeInv, TypeOK
<1>2. OneParentUnlessOverlapped'
  BY <1>1 DEF OneParentUnlessOverlapped, OneParent, Written
<1>3. SelectsApart'
  BY <1>1 DEF SelectsApart
<1> QED BY <1>2, <1>3

LEMMA NextParent ==
  ASSUME OneRunPerJob, ParentInv, [Next]_vars PROVE ParentInv'
<1> USE DEF treeVars, runVars, notes
<1>1. /\ ChainInv /\ LifeInv /\ SelectsApart /\ OneParentUnlessOverlapped /\ ChainsDown /\ TypeOK /\ FoldsOwnLevel
      /\ ChainInv'
  BY NextChain DEF ParentInv, ChainInv, LifeInv, TreeInv
<1>2. /\ level \in [Runs -> Nat] /\ batch \in [Runs -> SUBSET (Chunks \cup NodeIds)] /\ overlapped \in {0, 1}
      /\ \A r \in Runs : level[r] = 0 => batch[r] \subseteq Chunks
      /\ \A r \in Runs : level[r] > 0 => batch[r] \subseteq {n \in Written : nodes[n].level = level[r]}
  BY <1>1 DEF TypeOK, FoldsOwnLevel
<1>3. (\A r \in Runs : ~WriteNode(r)) => \A c \in Chunks : life[c] = "buffered" => life'[c] = "buffered"
  <2>1. ASSUME NEW c \in Chunks, life[c] = "buffered", life'[c] # "buffered"
        PROVE  \E r \in Runs : WriteNode(r)
    <3>1. life'[c] = "sealed"
      BY <1>1, <2>1, Forward
    <3>2. \A r \in Runs : ~MarkBuffered(r)
      BY <1>1, <2>1, <3>1 DEF MarkBuffered, TypeOK
    <3>3. \A d \in Chunks : ~Admit(d)
      BY <1>1, <2>1, <3>1 DEF Admit, TypeOK
    <3> QED BY <2>1, <3>1, <3>2, <3>3 DEF Next, RunStep, StartAppend, CountBuffer, StartFlush, Select,
              ProviderFails, Abort, vars
  <2> QED BY <2>1
<1>4. ASSUME NEW r \in Runs, WriteNode(r) PROVE SelectsApart' /\ OneParentUnlessOverlapped'
  <2>1. PICK id \in NodeIds \ Written : Consume(r, id)
    BY <1>4 DEF WriteNode
  <2>2. /\ level' = [level EXCEPT ![r] = level[r] + 1] /\ batch' = [batch EXCEPT ![r] = {}]
        /\ overlapped' = overlapped /\ level[r] \in Nat
    BY <1>2, <1>4 DEF WriteNode
  <2>3. /\ nodes'[id].level = level[r] + 1 /\ nodes'[id].children = batch[r]
        /\ Written' = Written \cup {id}
        /\ \A n \in Written :
             /\ nodes'[n].level = nodes[n].level /\ nodes'[n].children = nodes[n].children
             /\ (nodes[n].open /\ ~(level[r] > 0 /\ n \in batch[r]) => nodes'[n].open)
    BY <1>1, <2>1, NodeWritten
  <2>4. CASE overlapped = 1
    BY <2>2, <2>4 DEF SelectsApart, OneParentUnlessOverlapped
  <2>5. CASE overlapped = 0
    <3>1. /\ \A s, t \in Runs : s # t /\ level[s] = level[t] => batch[s] \cap batch[t] = {}
          /\ \A s \in Runs : level[s] = 0 => \A c \in batch[s] : life[c] = "buffered"
          /\ \A s \in Runs : level[s] > 0 => \A n \in batch[s] : nodes[n].open
          /\ OneParent
      BY <1>1, <2>5 DEF SelectsApart, OneParentUnlessOverlapped
    <3>2. \A s \in Runs : level'[s] = 0 => \A c \in batch'[s] : life'[c] = "buffered"
      BY <1>2, <2>1, <2>2, <3>1 DEF Consume
    <3>3. ASSUME NEW s \in Runs, level'[s] > 0, NEW n \in batch'[s] PROVE nodes'[n].open
      <4>1. s # r /\ level[s] > 0 /\ n \in batch[s] /\ n \in Written /\ nodes[n].level = level[s] /\ nodes[n].open
        BY <1>2, <2>2, <3>1, <3>3
      <4>2. ~(level[r] > 0 /\ n \in batch[r])
        BY <1>2, <3>1, <4>1
      <4> QED BY <2>3, <4>1, <4>2
    <3>4. \A s, t \in Runs : s # t /\ level'[s] = level'[t] => batch'[s] \cap batch'[t] = {}
      BY <1>2, <2>2, <3>1
    <3>5. ASSUME NEW n \in Written, nodes[n].level = level[r] + 1 PROVE nodes[n].children \cap batch[r] = {}
      <4>1. CASE level[r] = 0
        BY <1>1, <3>1, <3>5, <4>1 DEF ChainsDown
      <4>2. CASE level[r] > 0
        <5>1. nodes[n].level # 1
          BY <2>2, <3>5, <4>2
        <5>2. \A m \in nodes[n].children : ~nodes[m].open
          BY <1>1, <5>1 DEF ChainsDown
        <5> QED BY <3>1, <4>2, <5>2
      <4> QED BY <2>2, <4>1, <4>2
    <3>6. OneParent'
      BY <2>3, <3>1, <3>5 DEF OneParent
    <3> QED BY <3>2, <3>3, <3>4, <3>6 DEF SelectsApart, OneParentUnlessOverlapped
  <2> QED BY <1>2, <2>4, <2>5
<1>5. ASSUME NEW r \in Runs, Select(r) PROVE SelectsApart' /\ OneParentUnlessOverlapped'
  <2>1. /\ UNCHANGED <<life, nodes>> /\ overlapped' = IF Contended(r) THEN 1 ELSE overlapped
    BY <1>5 DEF Select
  <2>2. OneParentUnlessOverlapped'
    BY <1>1, <1>2, <2>1 DEF OneParentUnlessOverlapped, OneParent, Written
  <2>3. CASE overlapped' = 1
    BY <2>2, <2>3 DEF SelectsApart
  <2>4. CASE overlapped = 0 /\ overlapped' = 0
    <3>1. CASE Return(r)
      <4>1. \A s \in Runs : batch'[s] = {} \/ (batch'[s] = batch[s] /\ level'[s] = level[s])
        BY <1>2, <3>1 DEF Return, EndRun
      <4> QED BY <2>1, <2>4, <4>1, ApartKept
    <3>2. CASE batch' = [batch EXCEPT ![r] = Selection(level[r])] /\ level' = level
      <4>1. \A s \in Runs \ {r} : level[s] = level[r] => batch[s] \cap Selection(level[r]) = {}
        BY <2>1, <2>4 DEF Contended
      <4>2. /\ level[r] = 0 => \A c \in Selection(level[r]) : life[c] = "buffered"
            /\ level[r] > 0 => \A n \in Selection(level[r]) : nodes[n].open
        BY <1>2 DEF Selection, FirstOf, Buffered, Open
      <4> QED BY <1>1, <1>2, <2>1, <2>2, <2>4, <3>2, <4>1, <4>2 DEF SelectsApart
    <3> QED BY <1>5, <3>1, <3>2 DEF Select
  <2> QED BY <1>2, <2>1, <2>3, <2>4
<1>6. ASSUME NEW r \in Runs, EndRun(r) \/ UNCHANGED <<level, batch>>
      PROVE  \A s \in Runs : batch'[s] = {} \/ (batch'[s] = batch[s] /\ level'[s] = level[s])
  BY <1>2, <1>6 DEF EndRun
<1>7. ASSUME NEW r \in Runs,
             (\E c \in Chunks : StartAppend(r, c)) \/ MarkBuffered(r) \/ CountBuffer(r) \/ StartFlush(r)
               \/ ProviderFails(r) \/ Abort(r)
      PROVE  (EndRun(r) \/ UNCHANGED <<level, batch>>) /\ UNCHANGED <<nodes, overlapped>>
  BY <1>7 DEF StartAppend, MarkBuffered, CountBuffer, StartFlush, ProviderFails, Abort, Return
<1>8. ASSUME (\E c \in Chunks : Admit(c)) \/ UNCHANGED vars PROVE UNCHANGED <<nodes, overlapped, level, batch>>
  BY <1>8 DEF Admit, vars
<1>9. SelectsApart' /\ OneParentUnlessOverlapped'
  <2>1. CASE \E r \in Runs : WriteNode(r) \/ Select(r)
    BY <1>4, <1>5, <2>1
  <2>2. CASE ~\E r \in Runs : WriteNode(r) \/ Select(r)
    <3>1. \A c \in Chunks : life[c] = "buffered" => life'[c] = "buffered"
      BY <1>3, <2>2
    <3>2. /\ UNCHANGED <<nodes, overlapped>>
          /\ \A s \in Runs : batch'[s] = {} \/ (batch'[s] = batch[s] /\ level'[s] = level[s])
      BY <1>6, <1>7, <1>8, <2>2 DEF Next, RunStep
    <3> QED BY <3>1, <3>2, ApartKept
  <2> QED BY <2>1, <2>2
<1> QED BY <1>1, <1>9 DEF ParentInv

\* Two parents of one chunk or node come from two selections that overlap, and
\* from nothing else, whatever fails (seal and _cascade).
THEOREM TreeUnlessOverlapped ==
  ASSUME OneRunPerJob PROVE Spec => []OneParentUnlessOverlapped
<1>1. Init => ParentInv
  <2>1. Init => ChainInv
    BY InitLife DEF Init, ChainInv, ChainsDown, LeavesAreChunks, Written
  <2> QED BY <2>1 DEF Init, ParentInv, SelectsApart, OneParentUnlessOverlapped, OneParent, Written
<1>2. ParentInv /\ [Next]_vars => ParentInv'
  BY NextParent
<1>3. ParentInv => OneParentUnlessOverlapped
  BY DEF ParentInv
<1> QED BY <1>1, <1>2, <1>3, PTL DEF Spec

-----------------------------------------------------------------------------
(***************************************************************************)
(* A full buffer is not left alone.                                        *)
(***************************************************************************)

\* No more runs at once than the buffer holds: the workers of all instances.  By
\* default, two instances of three against eight (DEFAULT_WORKERS, DEFAULT_BUFFER_SIZE).
FewRuns == IsFiniteSet(Runs) /\ Cardinality(Runs) <= BufferSize

\* What a finite set contains is finite, and no more.
LEMMA Fewer ==
  ASSUME NEW B, IsFiniteSet(B), NEW A, A \subseteq B
  PROVE  IsFiniteSet(A) /\ Cardinality(A) <= Cardinality(B) /\ Cardinality(A) \in Nat /\ Cardinality(B) \in Nat
BY FS_Subset, FS_CardinalityType

\* Some number of a set of them is the least.
LEMMA LeastNatural ==
  ASSUME NEW S \in SUBSET Nat, S # {}
  PROVE  \E n \in S : \A m \in S : n <= m
<1> DEFINE R == OpToRel(<, Nat)
<1>1. IsWellFoundedOn(R, Nat)
  BY NatLessThanWellFounded
<1> HIDE DEF R
<1>2. PICK n \in S : \A m \in S : ~ (<<m, n>> \in R)
  BY <1>1, WFMin
<1>3. \A m \in S : ~ (m < n)
  BY <1>2 DEF R, OpToRel
<1> QED BY <1>3

\* LIMIT k takes everything, or at least k: before the first row it leaves out
\* there are k that it takes.
LEMMA FirstOfIs ==
  ASSUME NEW S \in SUBSET Nat, IsFiniteSet(S), NEW k \in Nat
  PROVE  FirstOf(k, S) = S \/ Cardinality(FirstOf(k, S)) >= k
<1> DEFINE F == FirstOf(k, S)
<1>1. F \subseteq S
  BY DEF FirstOf
<1>2. CASE S \ F = {}
  BY <1>1, <1>2
<1>3. CASE S \ F # {}
  <2>1. PICK x \in S \ F : \A y \in S \ F : x <= y
    <3>1. S \ F \in SUBSET Nat
      OBVIOUS
    <3> HIDE DEF F
    <3> QED BY <1>3, <3>1, LeastNatural
  <2> DEFINE Before == {y \in S : y < x}
  <2>2. ~(Cardinality(Before) < k)
    BY <2>1 DEF FirstOf
  <2>3. Before \subseteq F
    <3>1. x \in Nat /\ \A y \in Before : y \in S /\ y \in Nat /\ y < x
      OBVIOUS
    <3> HIDE DEF Before, F
    <3>2. \A y \in Before : ~(x <= y)
      BY <3>1
    <3> QED BY <2>1, <3>1, <3>2
  <2>4. IsFiniteSet(F)
    BY <1>1, Fewer
  <2>5. Cardinality(Before) <= Cardinality(F) /\ Cardinality(Before) \in Nat /\ Cardinality(F) \in Nat
    BY <2>3, <2>4, Fewer
  <2> HIDE DEF Before, F
  <2>6. Cardinality(F) >= k
    BY <2>2, <2>5
  <2> QED BY <2>6 DEF F
<1> QED BY <1>2, <1>3

\* A run that has not begun to fold is at the buffer.
StartsLow == \A r \in Runs : pc[r] \in {"idle", "mark", "count"} => level[r] = 0

BufferInv == TypeOK /\ StartsLow /\ SealsSuffice

\* What is counted can be counted, before a step and after.
LEMMA Finite ==
  ASSUME FewRuns
  PROVE  /\ IsFiniteSet(Buffered) /\ IsFiniteSet(Buffered')
         /\ IsFiniteSet(Counting) /\ IsFiniteSet(Counting')
         /\ IsFiniteSet(Sealing) /\ IsFiniteSet(Sealing')
<1>1. IsFiniteSet(Chunks)
  BY TreeAssumption, FS_Interval DEF Chunks
<1>2. Buffered \subseteq Chunks /\ Buffered' \subseteq Chunks
  BY DEF Buffered
<1>3. Counting \subseteq Runs /\ Counting' \subseteq Runs /\ Sealing \subseteq Runs /\ Sealing' \subseteq Runs
  BY DEF Counting, Sealing
<1> QED BY <1>1, <1>2, <1>3, FS_Subset DEF FewRuns

\* A step that puts nothing into the buffer and takes nobody from it.
LEMMA QuietAtBuffer ==
  ASSUME FewRuns, SealsSuffice, faults = 0,
         Buffered' \subseteq Buffered, Counting \subseteq Counting', Sealing' = Sealing,
         \A r \in Sealing : batch'[r] = batch[r]
  PROVE  SealsSuffice'
<1> SUFFICES ASSUME NEW T \in SUBSET Sealing
             PROVE  Cardinality(Buffered' \ Taken(T)')
                      < BufferSize + Cardinality(Counting') + Cardinality(Sealing \ T)
  BY DEF SealsSuffice
<1>1. Buffered' \ Taken(T)' \subseteq Buffered \ Taken(T)
  BY DEF Taken
<1>2. /\ Cardinality(Buffered' \ Taken(T)') <= Cardinality(Buffered \ Taken(T))
      /\ Cardinality(Buffered' \ Taken(T)') \in Nat /\ Cardinality(Buffered \ Taken(T)) \in Nat
  BY <1>1, Finite, Fewer
<1>3. Cardinality(Counting) <= Cardinality(Counting') /\ Cardinality(Counting) \in Nat
        /\ Cardinality(Counting') \in Nat
  BY Finite, Fewer
<1>4. Cardinality(Sealing \ T) \in Nat
  BY Finite, Fewer
<1>5. Cardinality(Buffered \ Taken(T)) < BufferSize + Cardinality(Counting) + Cardinality(Sealing \ T)
  BY DEF SealsSuffice
<1> QED BY <1>2, <1>3, <1>4, <1>5, TreeAssumption

\* Whoever finds the buffer less than full may leave it.
LEMMA NotFull ==
  ASSUME FewRuns, Buffered' = Buffered, Cardinality(Buffered) < BufferSize PROVE SealsSuffice'
<1> SUFFICES ASSUME NEW T \in SUBSET Sealing'
             PROVE  Cardinality(Buffered' \ Taken(T)')
                      < BufferSize + Cardinality(Counting') + Cardinality(Sealing' \ T)
  BY DEF SealsSuffice
<1>1. /\ Cardinality(Buffered' \ Taken(T)') <= Cardinality(Buffered)
      /\ Cardinality(Buffered' \ Taken(T)') \in Nat /\ Cardinality(Buffered) \in Nat
  <2>1. Buffered' \ Taken(T)' \subseteq Buffered
    OBVIOUS
  <2> QED BY <2>1, Finite, Fewer
<1>2. Cardinality(Counting') \in Nat /\ Cardinality(Sealing' \ T) \in Nat
  BY Finite, Fewer
<1> QED BY <1>1, <1>2, TreeAssumption

\* A chunk comes into the buffer together with a run that will count it.
LEMMA ChunkBuffered ==
  ASSUME FewRuns, SealsSuffice, faults = 0, NEW c, NEW r, r \notin Counting,
         Buffered' \subseteq Buffered \cup {c}, Counting' = Counting \cup {r}, Sealing' = Sealing,
         batch' = batch
  PROVE  SealsSuffice'
<1> SUFFICES ASSUME NEW T \in SUBSET Sealing
             PROVE  Cardinality(Buffered' \ Taken(T)')
                      < BufferSize + Cardinality(Counting') + Cardinality(Sealing \ T)
  BY DEF SealsSuffice
<1> DEFINE old == Buffered \ Taken(T)
           new == Buffered' \ Taken(T)'
<1>1. new \subseteq old \cup {c}
  BY DEF Taken
<1>2. IsFiniteSet(old)
  BY Finite, Fewer
<1>3. IsFiniteSet(old \cup {c}) /\ Cardinality(old \cup {c}) <= Cardinality(old) + 1 /\ Cardinality(old) \in Nat
  <2> HIDE DEF old
  <2> QED BY <1>2, FS_AddElement, FS_CardinalityType
<1>4. Cardinality(new) <= Cardinality(old \cup {c}) /\ Cardinality(new) \in Nat /\ Cardinality(old \cup {c}) \in Nat
  BY <1>1, <1>3, Fewer
<1>5. Cardinality(Counting') = Cardinality(Counting) + 1 /\ Cardinality(Counting) \in Nat
  BY Finite, FS_AddElement, FS_CardinalityType
<1>6. Cardinality(Sealing \ T) \in Nat
  BY Finite, Fewer
<1>7. Cardinality(old) < BufferSize + Cardinality(Counting) + Cardinality(Sealing \ T)
  BY DEF SealsSuffice
<1> HIDE DEF old, new
<1>8. Cardinality(new) < BufferSize + Cardinality(Counting') + Cardinality(Sealing \ T)
  BY <1>3, <1>4, <1>5, <1>6, <1>7, TreeAssumption
<1> QED BY <1>8 DEF new

\* A run that gets through takes its selection along: the others suffice, as they
\* did together with it.
LEMMA BatchSealed ==
  ASSUME FewRuns, SealsSuffice, faults = 0, NEW r \in Sealing,
         Buffered' \subseteq Buffered \ batch[r], Counting' = Counting, Sealing' = Sealing \ {r},
         \A s \in Sealing \ {r} : batch'[s] = batch[s]
  PROVE  SealsSuffice'
<1> SUFFICES ASSUME NEW T \in SUBSET (Sealing \ {r})
             PROVE  Cardinality(Buffered' \ Taken(T)')
                      < BufferSize + Cardinality(Counting) + Cardinality((Sealing \ {r}) \ T)
  BY DEF SealsSuffice
<1> DEFINE both == T \cup {r}
<1>1. Buffered' \ Taken(T)' \subseteq Buffered \ Taken(both)
  BY DEF Taken
<1>2. /\ Cardinality(Buffered' \ Taken(T)') <= Cardinality(Buffered \ Taken(both))
      /\ Cardinality(Buffered' \ Taken(T)') \in Nat /\ Cardinality(Buffered \ Taken(both)) \in Nat
  <2>1. IsFiniteSet(Buffered \ Taken(both))
    BY Finite, Fewer
  <2> QED BY <1>1, <2>1, Fewer
<1>3. (Sealing \ {r}) \ T = Sealing \ both /\ both \in SUBSET Sealing
  OBVIOUS
<1>4. Cardinality(Buffered \ Taken(both)) < BufferSize + Cardinality(Counting) + Cardinality(Sealing \ both)
  BY <1>3 DEF SealsSuffice
<1>5. Cardinality(Counting) \in Nat /\ Cardinality(Sealing \ both) \in Nat
  BY Finite, Fewer
<1> HIDE DEF both
<1>6. Cardinality(Buffered' \ Taken(T)') < BufferSize + Cardinality(Counting) + Cardinality(Sealing \ both)
  BY <1>2, <1>4, <1>5, TreeAssumption
<1> QED BY <1>3, <1>6

\* A run that selects takes a buffer's worth: no more than all other runs can have
\* put there since the buffer was full, while there are few of them.
LEMMA BatchSelected ==
  ASSUME FewRuns, SealsSuffice, faults = 0, NEW r \in Counting, r \notin Sealing,
         Buffered' = Buffered, Counting' = Counting \ {r}, Sealing' = Sealing \cup {r},
         \A s \in Sealing : batch'[s] = batch[s],
         batch'[r] = FirstOf(BufferSize, Buffered)
  PROVE  SealsSuffice'
<1> DEFINE n == Cardinality(Counting)
<1>1. n \in Nat /\ n >= 1 /\ Cardinality(Counting \ {r}) = n - 1
  <2>1. n \in Nat /\ Cardinality(Counting \ {r}) = n - 1
    BY Finite, FS_RemoveElement, FS_CardinalityType
  <2>2. n # 0
    BY Finite, FS_EmptySet
  <2> QED BY <2>1, <2>2
<1>a. BufferSize \in Nat \ {0}
  BY TreeAssumption
<1> SUFFICES ASSUME NEW T \in SUBSET (Sealing \cup {r})
             PROVE  Cardinality(Buffered \ Taken(T)')
                      < BufferSize + (n - 1) + Cardinality((Sealing \cup {r}) \ T)
  BY <1>1 DEF SealsSuffice
<1> HIDE DEF n
<1>2. CASE r \notin T
  <2>1. T \in SUBSET Sealing /\ Taken(T)' = Taken(T)
    BY <1>2 DEF Taken
  <2>2. Cardinality(Buffered \ Taken(T)) < BufferSize + n + Cardinality(Sealing \ T)
    BY <2>1 DEF SealsSuffice, n
  <2>3. (Sealing \cup {r}) \ T = (Sealing \ T) \cup {r} /\ r \notin Sealing \ T
    BY <1>2
  <2>4. IsFiniteSet(Sealing \ T) /\ Cardinality(Sealing \ T) \in Nat
    BY Finite, Fewer
  <2>5. Cardinality((Sealing \cup {r}) \ T) = Cardinality(Sealing \ T) + 1
    BY <2>3, <2>4, FS_AddElement
  <2>6. Cardinality(Buffered \ Taken(T)) \in Nat
    BY Finite, Fewer
  <2> QED BY <1>1, <1>a, <2>1, <2>2, <2>4, <2>5, <2>6
<1>3. CASE r \in T
  <2> DEFINE others == T \ {r}
             batchOf == FirstOf(BufferSize, Buffered)
             rest == Buffered \ Taken(T)'
  <2>1. rest \subseteq Buffered \ batchOf
    BY <1>3 DEF Taken
  <2>2. others \in SUBSET Sealing /\ (Sealing \cup {r}) \ T = Sealing \ others
    BY <1>3
  <2>3. IsFiniteSet(Sealing \ others) /\ Cardinality(Sealing \ others) \in Nat
    BY Finite, Fewer
  <2>4. IsFiniteSet(Buffered \ batchOf) /\ Cardinality(Buffered \ batchOf) \in Nat
    BY Finite, Fewer
  <2>5. Cardinality(rest) <= Cardinality(Buffered \ batchOf) /\ Cardinality(rest) \in Nat
    BY <2>1, <2>4, Fewer
  <2>6. CASE batchOf = Buffered
    <3>1. Cardinality(Buffered \ batchOf) = 0
      BY <2>6, FS_EmptySet
    <3> HIDE DEF others, batchOf, rest
    <3>2. Cardinality(rest) < BufferSize + (n - 1) + Cardinality(Sealing \ others)
      BY <1>1, <1>a, <2>3, <2>5, <3>1
    <3> QED BY <2>2, <3>2 DEF rest
  <2>7. CASE batchOf # Buffered
    <3>1. Cardinality(batchOf) >= BufferSize
      <4>1. Buffered \in SUBSET Nat
        BY DEF Buffered, Chunks
      <4> QED BY <1>a, <2>7, <4>1, Finite, FirstOfIs
    <3>2. /\ Cardinality(Buffered \ batchOf) = Cardinality(Buffered) - Cardinality(batchOf)
          /\ Cardinality(batchOf) \in Nat /\ Cardinality(Buffered) \in Nat
      <4>1. batchOf \subseteq Buffered
        BY DEF FirstOf
      <4>2. Buffered \cap batchOf = batchOf
        BY <4>1
      <4> HIDE DEF batchOf
      <4>3. Cardinality(Buffered \ batchOf) = Cardinality(Buffered) - Cardinality(Buffered \cap batchOf)
        BY Finite, FS_Difference
      <4> QED BY <4>1, <4>2, <4>3, Finite, Fewer
    <3>3. Cardinality(Buffered) < BufferSize + n + Cardinality(Sealing)
      <4>1. Taken({}) = {} /\ {} \in SUBSET Sealing
        BY DEF Taken
      <4>2. Buffered \ Taken({}) = Buffered /\ Sealing \ {} = Sealing
        BY <4>1
      <4> QED BY <4>1, <4>2 DEF SealsSuffice, n
    <3>4. /\ Cardinality(Sealing \ others) = Cardinality(Sealing) - Cardinality(others)
          /\ Cardinality(others) \in Nat /\ Cardinality(Sealing) \in Nat
      <4>1. Sealing \cap others = others
        BY <2>2
      <4> HIDE DEF others
      <4>2. Cardinality(Sealing \ others) = Cardinality(Sealing) - Cardinality(Sealing \cap others)
        BY Finite, FS_Difference
      <4> QED BY <2>2, <4>1, <4>2, Finite, Fewer
    <3>5. Cardinality(others) + 1 <= BufferSize
      <4>1. others \cup {r} \subseteq Runs /\ r \notin others
        BY <2>2 DEF Sealing, Counting
      <4>2. IsFiniteSet(others)
        BY <2>2, Finite, Fewer
      <4> HIDE DEF others
      <4>3. Cardinality(others \cup {r}) = Cardinality(others) + 1
        BY <4>1, <4>2, FS_AddElement
      <4>4. Cardinality(others \cup {r}) <= Cardinality(Runs) /\ Cardinality(Runs) \in Nat
        BY <4>1, Fewer DEF FewRuns
      <4> QED BY <1>a, <3>4, <4>3, <4>4 DEF FewRuns
    <3> HIDE DEF others, batchOf, rest
    <3>6. Cardinality(rest) < BufferSize + (n - 1) + Cardinality(Sealing \ others)
      BY <1>1, <1>a, <2>4, <2>5, <3>1, <3>2, <3>3, <3>4, <3>5
    <3> QED BY <2>2, <3>6 DEF rest
  <2> QED BY <2>6, <2>7
<1> QED BY <1>2, <1>3

LEMMA InitBuffer == FewRuns /\ Init => BufferInv
<1> SUFFICES ASSUME FewRuns, Init PROVE BufferInv
  OBVIOUS
<1>1. TypeOK /\ StartsLow
  BY InitTyped DEF Init, StartsLow
<1>2. Buffered = {} /\ Sealing = {}
  BY DEF Init, Buffered, Sealing
<1>3. ASSUME NEW T \in SUBSET Sealing
      PROVE  Cardinality(Buffered \ Taken(T)) < BufferSize + Cardinality(Counting) + Cardinality(Sealing \ T)
  <2>1. Buffered \ Taken(T) = {} /\ Sealing \ T = {}
    BY <1>2
  <2>2. Cardinality({}) = 0 /\ Cardinality(Counting) \in Nat
    BY Finite, FS_EmptySet, FS_CardinalityType
  <2> QED BY <2>1, <2>2, TreeAssumption
<1> QED BY <1>1, <1>3 DEF BufferInv, SealsSuffice

\* A run that ends takes nobody from the buffer if it has left it behind.
LEMMA EndsAbove ==
  ASSUME FewRuns, BufferInv, faults = 0, NEW r \in Runs, EndRun(r), level[r] > 0, UNCHANGED life
  PROVE  SealsSuffice'
<1>1. level' = [level EXCEPT ![r] = 0] /\ pc' = [pc EXCEPT ![r] = "idle"] /\ batch' = [batch EXCEPT ![r] = {}]
  BY DEF EndRun, Goto
<1>2. Buffered' = Buffered /\ Counting' = Counting /\ Sealing' = Sealing /\ r \notin Sealing
  BY <1>1 DEF BufferInv, TypeOK, Buffered, Counting, Sealing
<1>3. \A s \in Sealing : batch'[s] = batch[s]
  BY <1>1, <1>2 DEF BufferInv, TypeOK, Sealing
<1> QED BY <1>2, <1>3, QuietAtBuffer DEF BufferInv

\* A run selects from the buffer, or finds it empty, or is above it.
LEMMA SelectKeeps ==
  ASSUME FewRuns, BufferInv, faults = 0, NEW r \in Runs, Select(r) PROVE SealsSuffice'
<1> USE DEF treeVars
<1>1. Buffered' = Buffered
  BY DEF Select, Buffered
<1>2. CASE level[r] > 0 /\ Selection(level[r]) = {}
  BY <1>2, EndsAbove DEF Select, Return
<1>3. CASE Selection(level[r]) # {}
  <2>1. /\ batch' = [batch EXCEPT ![r] = Selection(level[r])]
        /\ pc' = [pc EXCEPT ![r] = "summarize"] /\ level' = level /\ pc[r] = "select"
    BY <1>3 DEF Select, Goto
  <2>2. \A s \in Sealing : s # r /\ batch'[s] = batch[s]
    BY <2>1 DEF BufferInv, TypeOK, Sealing
  <2>3. CASE level[r] > 0
    <3>1. Counting' = Counting /\ Sealing' = Sealing
      BY <2>1, <2>3 DEF BufferInv, TypeOK, Counting, Sealing
    <3> QED BY <1>1, <2>2, <3>1, QuietAtBuffer DEF BufferInv
  <2>4. CASE level[r] = 0
    <3>1. r \in Counting /\ r \notin Sealing /\ Counting' = Counting \ {r} /\ Sealing' = Sealing \cup {r}
      BY <2>1, <2>4 DEF BufferInv, TypeOK, Counting, Sealing
    <3>2. batch'[r] = FirstOf(BufferSize, Buffered)
      BY <2>1, <2>4 DEF BufferInv, TypeOK, Selection
    <3> QED BY <1>1, <2>2, <3>1, <3>2, BatchSelected DEF BufferInv
  <2> QED BY <2>3, <2>4 DEF BufferInv, TypeOK
<1>4. CASE level[r] = 0 /\ Selection(level[r]) = {}
  <2>1. FirstOf(BufferSize, Buffered) = {}
    BY <1>4 DEF Selection
  <2>2. Buffered \in SUBSET Nat /\ BufferSize \in Nat \ {0}
    BY TreeAssumption DEF Buffered, Chunks
  <2>3. Buffered = {} \/ Cardinality({}) >= BufferSize
    BY <2>1, <2>2, Finite, FirstOfIs
  <2>4. Cardinality({}) = 0
    BY FS_EmptySet
  <2>5. Cardinality(Buffered) < BufferSize
    <3>1. Buffered = {}
      BY <2>2, <2>3, <2>4
    <3> QED BY <2>2, <2>4, <3>1
  <2> QED BY <1>1, <2>5, NotFull
<1> QED BY <1>2, <1>3, <1>4 DEF BufferInv, TypeOK

\* A run gets through, at the buffer or above it.
LEMMA WriteKeeps ==
  ASSUME FewRuns, BufferInv, faults = 0, NEW r \in Runs, WriteNode(r) PROVE SealsSuffice'
<1>1. /\ pc[r] = "summarize" /\ pc' = [pc EXCEPT ![r] = "select"]
      /\ level' = [level EXCEPT ![r] = @ + 1] /\ batch' = [batch EXCEPT ![r] = {}]
  BY DEF WriteNode, Goto
<1>2. life' = [c \in Chunks |-> IF level[r] = 0 /\ c \in batch[r] THEN "sealed" ELSE life[c]]
  BY DEF WriteNode, Consume
<1>3. level[r] \in Nat /\ level'[r] = level[r] + 1
  BY <1>1 DEF BufferInv, TypeOK
<1>4. level'[r] # 0
  BY <1>3
<1>5. Counting' = Counting /\ Sealing' = Sealing \ {r}
  BY <1>1, <1>4 DEF BufferInv, TypeOK, Counting, Sealing
<1>6. \A s \in Sealing \ {r} : batch'[s] = batch[s]
  BY <1>1 DEF BufferInv, TypeOK, Sealing
<1>7. CASE level[r] = 0
  <2>1. r \in Sealing
    BY <1>1, <1>7 DEF Sealing
  <2>2. Buffered' \subseteq Buffered \ batch[r]
    BY <1>2, <1>7 DEF Buffered
  <2> QED BY <1>5, <1>6, <2>1, <2>2, BatchSealed DEF BufferInv
<1>8. CASE level[r] # 0
  <2>1. r \notin Sealing
    BY <1>8 DEF Sealing
  <2>2. Buffered' \subseteq Buffered
    BY <1>2, <1>8 DEF Buffered
  <2>3. Sealing' = Sealing /\ \A s \in Sealing : batch'[s] = batch[s]
    BY <1>5, <1>6, <2>1
  <2> QED BY <1>5, <2>2, <2>3, QuietAtBuffer DEF BufferInv
<1> QED BY <1>7, <1>8

LEMMA NextBuffer == FewRuns /\ BufferInv /\ [Next]_vars => BufferInv'
<1> SUFFICES ASSUME FewRuns, BufferInv, [Next]_vars PROVE BufferInv'
  OBVIOUS
<1> USE DEF treeVars, runVars, notes
<1>0. TypeOK /\ TypeOK' /\ StartsLow /\ SealsSuffice
  BY NextTyped DEF BufferInv
<1>1. StartsLow'
  <2>1. ASSUME NEW r \in Runs, EndRun(r) PROVE StartsLow'
    BY <1>0, <2>1 DEF TypeOK, StartsLow, EndRun, Goto
  <2>2. ASSUME NEW r \in Runs, WriteNode(r) PROVE StartsLow'
    BY <1>0, <2>2 DEF TypeOK, StartsLow, WriteNode, Goto
  <2>3. ASSUME NEW r \in Runs, NEW label \in PC, Goto(r, label), pc[r] \in {"idle", "mark", "count"}, UNCHANGED level
        PROVE  StartsLow'
    BY <1>0, <2>3 DEF TypeOK, StartsLow, Goto
  <2>4. ASSUME NEW r \in Runs, CountBuffer(r) PROVE StartsLow'
    <3>1. CASE Goto(r, "select") /\ UNCHANGED level
      BY <2>3, <2>4, <3>1 DEF CountBuffer, PC
    <3> QED BY <2>1, <2>4, <3>1 DEF CountBuffer, Return
  <2>5. ASSUME NEW r \in Runs, Select(r) PROVE StartsLow'
    <3>1. CASE Goto(r, "summarize") /\ UNCHANGED level
      BY <1>0, <3>1 DEF TypeOK, StartsLow, Goto
    <3> QED BY <2>1, <2>5, <3>1 DEF Select, Return
  <2>6. ASSUME NEW r \in Runs, MarkBuffered(r) \/ StartFlush(r) PROVE StartsLow'
    BY <2>3, <2>6 DEF MarkBuffered, StartFlush, PC
  <2>7. ASSUME NEW r \in Runs, NEW c \in Chunks, StartAppend(r, c) PROVE StartsLow'
    BY <1>0, <2>3, <2>7 DEF StartAppend, PC, StartsLow
  <2>8. ASSUME NEW c \in Chunks, Admit(c) PROVE StartsLow'
    BY <1>0, <2>8 DEF Admit, StartsLow
  <2>9. CASE UNCHANGED vars
    BY <1>0, <2>9 DEF vars, StartsLow
  <2> QED BY <2>1, <2>2, <2>4, <2>5, <2>6, <2>7, <2>8, <2>9
       DEF Next, RunStep, ProviderFails, Abort
<1>2. ASSUME faults = 0, faults' = 0 PROVE SealsSuffice'
  <2>1. ASSUME UNCHANGED <<life, pc, level, batch>> PROVE SealsSuffice'
    <3>1. Buffered' = Buffered /\ Counting' = Counting /\ Sealing' = Sealing
      BY <2>1 DEF Buffered, Counting, Sealing
    <3> QED BY <1>0, <1>2, <2>1, <3>1, QuietAtBuffer
  <2>2. ASSUME NEW c \in Chunks, Admit(c) PROVE SealsSuffice'
    <3>1. Buffered' = Buffered /\ Counting' = Counting /\ Sealing' = Sealing /\ batch' = batch
      BY <1>0, <2>2 DEF Admit, Buffered, Counting, Sealing, TypeOK
    <3> QED BY <1>0, <1>2, <3>1, QuietAtBuffer
  <2>3. ASSUME NEW r \in Runs, NEW c \in Chunks, StartAppend(r, c) PROVE SealsSuffice'
    <3>1. CASE UNCHANGED pc
      BY <2>1, <2>3, <3>1 DEF StartAppend
    <3>2. CASE Goto(r, "mark")
      <4>1. Buffered' = Buffered /\ Counting' = Counting /\ Sealing' = Sealing /\ batch' = batch
        BY <1>0, <2>3, <3>2 DEF StartAppend, Goto, Buffered, Counting, Sealing, TypeOK
      <4> QED BY <1>0, <1>2, <4>1, QuietAtBuffer
    <3> QED BY <2>3, <3>1, <3>2 DEF StartAppend
  <2>4. ASSUME NEW r \in Runs, MarkBuffered(r) PROVE SealsSuffice'
    <3>1. level[r] = 0 /\ r \notin Counting /\ Sealing' = Sealing /\ batch' = batch
      BY <1>0, <2>4 DEF MarkBuffered, Goto, StartsLow, Counting, Sealing, TypeOK
    <3>2. Counting' = Counting \cup {r}
      BY <1>0, <2>4, <3>1 DEF MarkBuffered, Goto, Counting, TypeOK
    <3>3. Buffered' \subseteq Buffered \cup {chunk[r]}
      BY <1>0, <2>4 DEF MarkBuffered, Buffered, TypeOK
    <3> QED BY <1>0, <1>2, <3>1, <3>2, <3>3, ChunkBuffered
  <2>5. ASSUME NEW r \in Runs, CountBuffer(r) PROVE SealsSuffice'
    <3>1. CASE BufferFull
      <4>1. Buffered' = Buffered /\ Counting' = Counting /\ Sealing' = Sealing /\ batch' = batch
        BY <1>0, <2>5, <3>1 DEF CountBuffer, Goto, Buffered, Counting, Sealing, TypeOK
      <4> QED BY <1>0, <1>2, <4>1, QuietAtBuffer
    <3>2. CASE ~BufferFull
      <4>1. Buffered' = Buffered
        BY <2>5 DEF CountBuffer, Buffered
      <4>2. Cardinality(Buffered) < BufferSize
        BY <3>2, Finite, FS_CardinalityType, TreeAssumption DEF BufferFull
      <4> QED BY <4>1, <4>2, NotFull
    <3> QED BY <3>1, <3>2
  <2>6. ASSUME NEW r \in Runs, StartFlush(r) PROVE SealsSuffice'
    <3>1. Buffered' = Buffered /\ Counting \subseteq Counting' /\ Sealing' = Sealing /\ batch' = batch
      BY <1>0, <2>6 DEF StartFlush, Goto, Buffered, Counting, Sealing, TypeOK
    <3> QED BY <1>0, <1>2, <3>1, QuietAtBuffer
  <2>7. ASSUME NEW r \in Runs, Select(r) \/ WriteNode(r) PROVE SealsSuffice'
    BY <1>2, <2>7, SelectKeeps, WriteKeeps
  <2>8. ASSUME NEW r \in Runs, ProviderFails(r) \/ Abort(r) PROVE FALSE
    BY <1>2, <2>8 DEF ProviderFails, Abort, Fault
  <2>9. CASE UNCHANGED vars
    BY <2>1, <2>9 DEF vars
  <2> QED BY <2>2, <2>3, <2>4, <2>5, <2>6, <2>7, <2>8, <2>9 DEF Next, RunStep
<1>3. faults' = 0 => faults = 0
  BY <1>0 DEF TypeOK, vars, Next, RunStep, Admit, StartAppend, MarkBuffered, CountBuffer, StartFlush,
       Select, WriteNode, ProviderFails, Abort, Fault
<1>4. CASE faults' = 0
  BY <1>0, <1>1, <1>2, <1>3, <1>4 DEF BufferInv
<1>5. CASE faults' # 0
  BY <1>0, <1>1, <1>5 DEF BufferInv, SealsSuffice
<1> QED BY <1>4, <1>5

\* A full buffer always has a run that will look at it again or is sealing
\* (append_buffer: every chunk is counted after it is committed, so the last to
\* come sees the others), as long as nothing fails and no more runs go on at once
\* than the buffer holds: what keeps FullBufferSeals from being lost.
THEOREM NoFullBufferLeft == ASSUME FewRuns PROVE Spec => []FullBufferAwaited
<1>1. BufferInv => FullBufferAwaited
  <2> SUFFICES ASSUME BufferInv, faults = 0, BufferFull, Counting = {}, Sealing = {} PROVE FALSE
    BY DEF FullBufferAwaited
  <2>1. Taken({}) = {} /\ {} \in SUBSET Sealing
    BY DEF Taken
  <2>2. Buffered \ Taken({}) = Buffered /\ Sealing \ {} = {}
    BY <2>1
  <2>3. Cardinality(Buffered) < BufferSize + Cardinality({}) + Cardinality({})
    BY <2>1, <2>2 DEF BufferInv, SealsSuffice
  <2>4. Cardinality({}) = 0 /\ Cardinality(Buffered) \in Nat
    BY Finite, FS_EmptySet, FS_CardinalityType
  <2> QED BY <2>3, <2>4, TreeAssumption DEF BufferFull
<1>2. FewRuns
  OBVIOUS
<1>3. Init => BufferInv
  BY <1>2, InitBuffer
<1>4. BufferInv /\ [Next]_vars => BufferInv'
  BY <1>2, NextBuffer
<1> QED BY <1>1, <1>3, <1>4, PTL DEF Spec
=============================================================================
