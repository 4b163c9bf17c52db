------------------------ MODULE SourceTreeProperties ------------------------
(***************************************************************************)
(* What the summary tree of a source is relied on for.                     *)
(***************************************************************************)
EXTENDS SourceTree

\* Nothing falls out of the tree, whatever runs at once and wherever a run
\* dies: a sealed chunk has a node of level 1 over it, and a node that is no
\* longer open has a parent (seal and _cascade, one transaction each).
NothingFallsOut ==
  /\ \A c \in Chunks : life[c] = "sealed" =>
       \E n \in Written : nodes[n].level = 1 /\ c \in nodes[n].children
  /\ \A n \in Written : ~nodes[n].open =>
       \E m \in Written : nodes[m].level = nodes[n].level + 1 /\ n \in nodes[m].children

\* Why: what a run is about to fold was, and stays, nodes of its level.
FoldsOwnLevel ==
  /\ \A n \in Written : nodes[n].level > 0
  /\ \A r \in Runs : level[r] > 0 =>
       batch[r] \subseteq {n \in Written : nodes[n].level = level[r]}

\* The leaf lifecycle admitted -> buffered -> sealed never goes back, so no
\* chunk is sealed a second time.
LifecycleForward ==
  [][\A c \in Chunks :
       /\ life[c] = "buffered" => life'[c] \in {"buffered", "sealed"}
       /\ life[c] = "sealed" => life'[c] = "sealed"]_vars

\* The tree is a tree: a chunk is summarized by one node of level 1, and a node
\* has one parent ("buffer full -> exactly one L1 seal", test_tree_seal_cascade).
OneParent ==
  \A m, n \in Written : m # n /\ nodes[m].level = nodes[n].level =>
    nodes[m].children \cap nodes[n].children = {}

\* Only that can break it: while no run selects what another is still folding,
\* the tree stays a tree, wherever runs die and whatever is retried.
OneParentUnlessOverlapped == overlapped = 1 \/ OneParent

\* Every node chains down to sealed chunks, one level at a time (tree_retrieval.py,
\* "the provenance guarantee holds at every scope").
ChainsDown ==
  \A n \in Written :
    /\ nodes[n].children # {}
    /\ IF nodes[n].level = 1
       THEN \A c \in nodes[n].children : life[c] = "sealed"
       ELSE nodes[n].children \subseteq {m \in Written : ~nodes[m].open /\ nodes[m].level = nodes[n].level - 1}

\* A full buffer is sealed (append_buffer, "seals the buffer when full"), until
\* a fault, or the ids of the instance have run out.
FullBufferSeals ==
  BufferFull ~> ~BufferFull \/ faults > 0 \/ Written = NodeIds

\* Runs that are yet to select from the buffer, and runs that are folding what
\* they have selected from it.
Counting == {r \in Runs : level[r] = 0 /\ pc[r] \in {"count", "select"}}
Sealing  == {r \in Runs : level[r] = 0 /\ pc[r] = "summarize"}

\* What this rests on, step by step: as long as nothing has failed, a full buffer
\* has a run that will look at it again, or is sealing.
FullBufferAwaited ==
  faults = 0 /\ BufferFull => Counting \cup Sealing # {}

Taken(T) == UNION {batch[r] : r \in T}

\* Why: whichever of the runs that are sealing get through, what they leave in the
\* buffer is less than full, but for one chunk for each other run.
SealsSuffice ==
  faults = 0 => \A T \in SUBSET Sealing :
    Cardinality(Buffered \ Taken(T))
      < BufferSize + Cardinality(Counting) + Cardinality(Sealing \ T)
=============================================================================
