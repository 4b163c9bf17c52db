----------------------- MODULE SearchRankingProperties -----------------------
(***************************************************************************)
(* What the order of a hybrid search is relied on for, over lists of hits. *)
(***************************************************************************)
EXTENDS SearchRanking

CONSTANTS
  Matchings,   (* the chunks that the full text search may find, in order  *)
  Embeddings,  (* those that the search by embeddings may find             *)
  Limits

ASSUME SearchAssumption ==
  /\ RrfK \in Nat
  /\ Limits \subseteq Nat
  /\ \A l \in Matchings \cup Embeddings : l \in Seq(ToSet(l)) /\ IsInjective(l)

\* c is placed in no list behind d, and in one before it.
Dominates(c, d, lists) ==
  /\ \A l \in lists : d \in ToSet(l) => c \in ToSet(l) /\ Place(l, c) <= Place(l, d)
  /\ \E l \in lists : c \in ToSet(l) /\ (d \in ToSet(l) => Place(l, c) < Place(l, d))

\* A hybrid search returns as many of the chunks found as it may, each once, none
\* of them behind or instead of one that it is dominated by. What both retrievers
\* found comes before what one found, even its best, while the limit is at most
\* rrf_k + 1; and a chunk one retriever missed can still win.
RankedRight(matching, embedded, limit) ==
  LET keyword  == Search(matching, limit)
      semantic == SemanticSearch(embedded, limit)
      result   == HybridSearch(matching, embedded, limit)
      found    == ToSet(keyword) \cup ToSet(semantic)
      both     == ToSet(keyword) \cap ToSet(semantic)
      Before(c, d) == d \in ToSet(result) => c \in ToSet(result) /\ Place(result, c) < Place(result, d)
  IN /\ IsInjective(result) /\ ToSet(result) \subseteq found
     /\ Len(result) = IF Cardinality(found) < limit THEN Cardinality(found) ELSE limit
     /\ \A c, d \in found : Dominates(c, d, {keyword, semantic}) => Before(c, d)
     /\ limit <= RrfK + 1 => \A c \in both, d \in found \ both : Before(c, d)
     /\ both = {} /\ found # {} => result[1] \in {Head(l) : l \in {keyword, semantic} \ {<<>>}}

RankedWrong ==
  {s \in Matchings \X Embeddings \X Limits : ~RankedRight(s[1], s[2], s[3])}
=============================================================================
