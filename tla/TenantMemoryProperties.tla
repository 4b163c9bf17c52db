----------------------- MODULE TenantMemoryProperties -----------------------
(***************************************************************************)
(* What the derived memory of a tenant, and its erasure, are relied on for.*)
(***************************************************************************)
EXTENDS TenantMemory

NoFault(kinds) == \A kind \in kinds : faults[kind] = 0

\* An entity has one topic node and a day one digest, however their handlers
\* overlap and are run again, as long as leases outlast them and no erasure has
\* come between ("re-run refreshes, never duplicates", test_daily_digest.py).
OneNodePerScope ==
  NoFault({"overrun", "erasure"}) => \A x \in Scopes : Len(nodes[x]) < 2

\* Once all topic_route jobs have run, an entity above the threshold has its node:
\* the handler of its last mention, if no other, has seen enough of them.  Excepted
\* are mentions persisted during an erasure, which may take just the node, and
\* mentions whose admission found a job of an earlier life of the chunk, which
\* swallows their own: one that an erasure has left, or one that an admission before
\* the erasure enqueued only after it.
HotEntityHasNode ==
  Hot(links) /\ links \cap (straddled \cup swallowed) = {} /\ (\A c \in links : job[Topic(c)] = "done")
    => nodes[<<"topic">>] # <<>>

\* Erasure waits for a handler that has updated the entity, and takes its node
\* along: what such a handler wrote is not left behind without its entity.
LockedNodesErased ==
  ~entity => \A i \in DOMAIN nodes[<<"topic">>] : ~nodes[<<"topic">>][i].locked

\* No committed row is without its file, wherever an erasure breaks off, unless the
\* row was being persisted during one ("a crash can leave orphan files ... but never
\* dangling rows", erase_tenant).
RowsHaveFiles ==
  \A c \in Chunks : lifecycle[c] # "absent" => c \in files \/ c \in straddled

\* Whether the digest of a day is sure to be made from now on: no handler of it has
\* read the day's chunks, and its job is queued or a tick to come will enqueue it.
DigestAhead(d) ==
  \/ today = d
  \/ today = d + 1 /\ scheduler \in {"tick", "enqueue"}
  \/ job[Digest(d)] = "queued" /\ \A s \in Slots : Busy(s) => run[s].job # Digest(d)

\* A chunk that was made on a day, and is admitted before the day's digest begins, is
\* covered by that digest, after failing model calls, overrun leases and lost workers
\* too, unless the digest is given up after MaxRetries or the one tick of that day is
\* lost.  (No digest covers a chunk that is admitted, or committed, later: the filter
\* is created_at, where the docstring of digest_daily says admitted on the day.)
DayDigested ==
  \A c \in Chunks, d \in 0..(LastDay - 1) :
    (lifecycle[c] = "admitted" /\ born[c] = d /\ DigestAhead(d)) ~>
      \/ \E i \in DOMAIN nodes[Digest(d)] : c \in nodes[Digest(d)][i].covers
      \/ job[Digest(d)] = "failed"
      \/ ~NoFault({"tick", "down", "erasure"})

\* What this rests on, step by step: an ended day on which a chunk was made has its
\* digest enqueued, or about to be, unless the tick was lost or the chunk committed
\* only after it had looked.
EndedDaysHaveDigest ==
  NoFault({"tick", "down", "erasure"}) =>
    \A c \in Chunks : lifecycle[c] # "absent" /\ born[c] < today /\ c \notin late =>
      \/ job[Digest(born[c])] # "absent"
      \/ scheduler \in {"tick", "enqueue"} /\ born[c] = today - 1
=============================================================================
