---------------------------- MODULE SearchRanking ----------------------------
(***************************************************************************)
(* What a search returns, memory/retrieval.py: the hits of the full text   *)
(* index, the nearest embeddings, and the fusion of the two by reciprocal  *)
(* ranks.  A list of hits is a sequence of chunks, the best first.         *)
(***************************************************************************)
EXTENDS Integers, Sequences, SequencesExt, FiniteSets

CONSTANT RrfK   (* rrf_k                                                    *)

\* .limit(limit), of the query and of the fused list
Limited(hits, limit) == SubSeq(hits, 1, IF Len(hits) < limit THEN Len(hits) ELSE limit)

\* The hits of each retriever, in its order: every chunk that matches, and every
\* chunk that has an embedding.
Search(matching, limit)         == Limited(matching, limit)
SemanticSearch(embedded, limit) == Limited(embedded, limit)

\* Where c comes first.
Place(hits, c) ==
  CHOOSE i \in DOMAIN hits : hits[i] = c /\ \A j \in DOMAIN hits : hits[j] = c => i <= j

\* 1 / (rrf_k + position + 1) for a hit, as a fraction.
Share(hits, c) == IF c \in ToSet(hits) THEN [num |-> 1, den |-> RrfK + Place(hits, c)]
                                       ELSE [num |-> 0, den |-> 1]

\* Mutant of Fused: the second list overwrites what the first has given.
Fused_Last(keyword, semantic, c) ==
  IF c \in ToSet(semantic) THEN Share(semantic, c) ELSE Share(keyword, c)

Fused(keyword, semantic, c) ==
  LET a == Share(keyword, c)
      b == Share(semantic, c)
  IN [num |-> a.num * b.den + b.num * a.den, den |-> a.den * b.den]

Exceeds(x, y) == x.num * y.den > y.num * x.den

\* The sort is stable: of equals, the one first seen comes first, and the hits of
\* the keyword search are seen first.
Precedes(keyword, semantic, c, d) ==
  LET x == Fused(keyword, semantic, c)
      y == Fused(keyword, semantic, d)
      hits == keyword \o semantic
  IN Exceeds(x, y) \/ (~Exceeds(y, x) /\ Place(hits, c) < Place(hits, d))

Found(keyword, semantic) == ToSet(keyword) \cup ToSet(semantic)

Ahead(keyword, semantic, c) ==
  Cardinality({d \in Found(keyword, semantic) : Precedes(keyword, semantic, d, c)})

Ranked(keyword, semantic) ==
  [i \in 1..Cardinality(Found(keyword, semantic)) |->
     CHOOSE c \in Found(keyword, semantic) : Ahead(keyword, semantic, c) = i - 1]

HybridSearch(matching, embedded, limit) ==
  Limited(Ranked(Search(matching, limit), SemanticSearch(embedded, limit)), limit)
=============================================================================
