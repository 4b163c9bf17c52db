----------------------------- MODULE SourceTree -----------------------------
(***************************************************************************)
(* The summary tree of one source, memory/trees.py: chunks fill a buffer,  *)
(* a full buffer is sealed into a node of level 1, and CascadeSize open    *)
(* nodes of a level are folded into one node of the next.                  *)
(*                                                                         *)
(* A run is one execution of the append_buffer or the flush_stale handler  *)
(* by a worker, cut at its awaits: what a run selects, it writes after the *)
(* model has summarized it, and other runs go on meanwhile.  A job that    *)
(* does not return is run again.                                           *)
(***************************************************************************)
EXTENDS Naturals, FiniteSets

CONSTANTS
  NumChunks,    (* chunks of the source, numbered by created_at            *)
  NodeIds,      (* ids that nodes may draw (uuid4), in the order of ORDER BY;
                   bounds the nodes ever written                           *)
  Runs,         (* handlers that may run at once                           *)
  None,         (* no chunk: the run flushes                               *)
  BufferSize,
  CascadeSize,
  SameJobTwice, (* a job may run again while its first run still goes on   *)
  Faults,       (* subset of {"provider", "abort"}                         *)
  MaxFaults     (* bound on the faults                                     *)

Chunks == 1..NumChunks

ASSUME TreeAssumption ==
  /\ NumChunks \in Nat
  /\ NodeIds \subseteq Nat /\ IsFiniteSet(NodeIds)
  /\ None \notin Chunks
  /\ BufferSize \in Nat \ {0}
  /\ CascadeSize \in Nat \ {0, 1}
  /\ SameJobTwice \in BOOLEAN
  /\ Faults \subseteq {"provider", "abort"}
  /\ MaxFaults \in Nat

VARIABLES
  life,     (* chunks.lifecycle                                            *)
  pending,  (* chunks whose append_buffer job is not done                  *)
  nodes,    (* the rows of `summaries`, by id                              *)
  pc,       (* where each run stands                                       *)
  chunk,    (* the chunk it appends, or None                               *)
  level,    (* the level it folds: 0 for the buffer                        *)
  batch,    (* the ids it has selected                                     *)
  faults,   (* faults so far                                               *)
  overlapped (* history: 1 once a run has selected what another is folding *)

treeVars == <<life, nodes>>
runVars  == <<pc, chunk, level, batch>>
notes    == <<faults, overlapped>>
vars == <<treeVars, pending, runVars, notes>>

-----------------------------------------------------------------------------

Lifecycle == {"absent", "admitted", "buffered", "sealed"}
PC == {"idle", "mark", "count", "select", "summarize"}

NoNode == [level |-> 0, children |-> {}, open |-> FALSE]
Written == {n \in NodeIds : nodes[n] # NoNode}

\* The rows, and what a run has selected: chunks for the buffer, nodes above it.
TypeOK ==
  /\ life \in [Chunks -> Lifecycle]
  /\ pending \subseteq Chunks
  /\ nodes \in [NodeIds -> [level : Nat, children : SUBSET (Chunks \cup NodeIds), open : BOOLEAN]]
  /\ pc \in [Runs -> PC]
  /\ chunk \in [Runs -> Chunks \cup {None}]
  /\ level \in [Runs -> Nat]
  /\ batch \in [Runs -> SUBSET (Chunks \cup NodeIds)]
  /\ \A r \in Runs : batch[r] \subseteq (IF level[r] = 0 THEN Chunks ELSE NodeIds)
  /\ faults \in Nat
  /\ overlapped \in {0, 1}

Init ==
  /\ life = [c \in Chunks |-> "absent"]
  /\ pending = {}
  /\ nodes = [n \in NodeIds |-> NoNode]
  /\ pc = [r \in Runs |-> "idle"]
  /\ chunk = [r \in Runs |-> None]
  /\ level = [r \in Runs |-> 0]
  /\ batch = [r \in Runs |-> {}]
  /\ faults = 0
  /\ overlapped = 0

Buffered == {c \in Chunks : life[c] = "buffered"}
Open(l)  == {n \in Written : nodes[n].level = l /\ nodes[n].open}

\* ORDER BY ... LIMIT k
FirstOf(k, S) == {x \in S : Cardinality({y \in S : y < x}) < k}

Goto(r, label) == pc' = [pc EXCEPT ![r] = label]

\* The run is over; only a handler that returns has its job acked.
EndRun(r) ==
  /\ Goto(r, "idle")
  /\ chunk' = [chunk EXCEPT ![r] = None]
  /\ level' = [level EXCEPT ![r] = 0]
  /\ batch' = [batch EXCEPT ![r] = {}]

Return(r) == EndRun(r) /\ pending' = pending \ {chunk[r]}

-----------------------------------------------------------------------------
(***************************************************************************)
(* append_buffer and flush_stale.                                          *)
(***************************************************************************)

\* An extraction admits a chunk and enqueues its append_buffer job.
Admit(c) ==
  /\ life[c] = "absent"
  /\ life' = [life EXCEPT ![c] = "admitted"]
  /\ pending' = pending \cup {c}
  /\ UNCHANGED <<nodes, runVars, notes>>

\* Mutant of StartAppend: whatever the lifecycle, the chunk is buffered.
StartAppend_AnyLifecycle(r, c) ==
  /\ pc[r] = "idle"
  /\ c \in pending
  /\ SameJobTwice \/ \A s \in Runs : chunk[s] # c
  /\ Goto(r, "mark")
  /\ chunk' = [chunk EXCEPT ![r] = c]
  /\ UNCHANGED <<treeVars, pending, level, batch, notes>>

\* The handler reads the chunk and goes on only if it finds it 'admitted'.
StartAppend(r, c) ==
  /\ pc[r] = "idle"
  /\ c \in pending
  /\ SameJobTwice \/ \A s \in Runs : chunk[s] # c
  /\ IF life[c] = "admitted"
     THEN Goto(r, "mark") /\ chunk' = [chunk EXCEPT ![r] = c] /\ UNCHANGED pending
     ELSE pending' = pending \ {c} /\ UNCHANGED <<pc, chunk>>
  /\ UNCHANGED <<treeVars, level, batch, notes>>

\* UPDATE ... WHERE id: the lifecycle is not looked at again.
MarkBuffered(r) ==
  /\ pc[r] = "mark"
  /\ life' = [life EXCEPT ![chunk[r]] = "buffered"]
  /\ Goto(r, "count")
  /\ UNCHANGED <<nodes, pending, chunk, level, batch, notes>>

BufferFull == Cardinality(Buffered) >= BufferSize

\* Mutant of CountBuffer: the seal waits for one chunk more.
CountBuffer_Late(r) ==
  /\ pc[r] = "count"
  /\ IF Cardinality(Buffered) > BufferSize
     THEN Goto(r, "select") /\ UNCHANGED <<chunk, level, batch, pending>>
     ELSE Return(r)
  /\ UNCHANGED <<treeVars, notes>>

CountBuffer(r) ==
  /\ pc[r] = "count"
  /\ IF BufferFull
     THEN Goto(r, "select") /\ UNCHANGED <<chunk, level, batch, pending>>
     ELSE Return(r)
  /\ UNCHANGED <<treeVars, notes>>

\* flush_stale found a buffered chunk that is old enough.
StartFlush(r) ==
  /\ pc[r] = "idle"
  /\ Buffered # {}
  /\ Goto(r, "select")
  /\ UNCHANGED <<treeVars, pending, chunk, level, batch, notes>>

-----------------------------------------------------------------------------
(***************************************************************************)
(* seal, then _cascade from level 1: one loop, at level 0 first.           *)
(***************************************************************************)

\* What a run would fold at its level, or nothing.
Selection(l) ==
  IF l = 0 THEN FirstOf(BufferSize, Buffered)
  ELSE IF Cardinality(Open(l)) < CascadeSize THEN {} ELSE FirstOf(CascadeSize, Open(l))

\* Another run is still folding some of this.
Contended(r) ==
  \E s \in Runs \ {r} : level[s] = level[r] /\ batch[s] \cap Selection(level[r]) # {}

Select(r) ==
  /\ pc[r] = "select"
  /\ IF Selection(level[r]) # {}
     THEN /\ batch' = [batch EXCEPT ![r] = Selection(level[r])]
          /\ Goto(r, "summarize")
          /\ UNCHANGED <<chunk, level, pending>>
     ELSE Return(r)
  /\ overlapped' = IF Contended(r) THEN 1 ELSE overlapped
  /\ UNCHANGED <<treeVars, faults>>

\* Mutant of Consume: it seals whatever is in the buffer by now.
Consume_WholeBuffer(r, id) ==
  /\ life' = [c \in Chunks |-> IF level[r] = 0 /\ c \in Buffered THEN "sealed" ELSE life[c]]
  /\ nodes' = [n \in NodeIds |->
       IF n = id THEN [level |-> level[r] + 1, children |-> batch[r], open |-> TRUE]
       ELSE IF level[r] > 0 /\ n \in batch[r] THEN [nodes[n] EXCEPT !.open = FALSE]
       ELSE nodes[n]]

\* Mutant of Consume: the folded nodes stay open.
Consume_LeftOpen(r, id) ==
  /\ life' = [c \in Chunks |-> IF level[r] = 0 /\ c \in batch[r] THEN "sealed" ELSE life[c]]
  /\ nodes' = [nodes EXCEPT ![id] =
       [level |-> level[r] + 1, children |-> batch[r], open |-> TRUE]]

\* One transaction: the new node, and what was selected is sealed.
Consume(r, id) ==
  /\ life' = [c \in Chunks |-> IF level[r] = 0 /\ c \in batch[r] THEN "sealed" ELSE life[c]]
  /\ nodes' = [n \in NodeIds |->
       IF n = id THEN [level |-> level[r] + 1, children |-> batch[r], open |-> TRUE]
       ELSE IF level[r] > 0 /\ n \in batch[r] THEN [nodes[n] EXCEPT !.open = FALSE]
       ELSE nodes[n]]

\* The model has answered, and the transaction is through.
WriteNode(r) ==
  /\ pc[r] = "summarize"
  /\ \E id \in NodeIds \ Written : Consume(r, id)
  /\ level' = [level EXCEPT ![r] = @ + 1]
  /\ batch' = [batch EXCEPT ![r] = {}]
  /\ Goto(r, "select")
  /\ UNCHANGED <<pending, chunk, notes>>

-----------------------------------------------------------------------------

Fault(kind) ==
  /\ kind \in Faults
  /\ faults < MaxFaults
  /\ faults' = faults + 1

\* The model call raises: fail(), and the job is run again.
ProviderFails(r) ==
  /\ pc[r] = "summarize"
  /\ Fault("provider")
  /\ EndRun(r)
  /\ UNCHANGED <<treeVars, pending, overlapped>>

\* The worker dies, is stopped, or loses the database.
Abort(r) ==
  /\ pc[r] # "idle"
  /\ Fault("abort")
  /\ EndRun(r)
  /\ UNCHANGED <<treeVars, pending, overlapped>>

RunStep(r) ==
  \/ MarkBuffered(r) \/ CountBuffer(r) \/ Select(r) \/ WriteNode(r)
  \/ \E c \in Chunks : StartAppend(r, c)

Next ==
  \/ \E c \in Chunks : Admit(c)
  \/ \E r \in Runs : RunStep(r) \/ StartFlush(r) \/ ProviderFails(r) \/ Abort(r)

Spec == Init /\ [][Next]_vars

\* The queue runs every job until it has returned.
FairSpec == Spec /\ \A r \in Runs : WF_vars(RunStep(r))
=============================================================================
