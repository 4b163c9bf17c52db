---------------------------- MODULE MCWorkerPool ----------------------------
(***************************************************************************)
(* Instances of WorkerPool for TLC: two rows with keys of their own or with*)
(* one key, and two workers, of an instance each or of the same.           *)
(***************************************************************************)
EXTENDS WorkerPoolProperties, TLC

CONSTANTS j1, j2, k1, k2, w1, w2, p1, p2

MCKeyOf      == j1 :> k1 @@ j2 :> k2
MCSharedKey  == j1 :> k1 @@ j2 :> k1
MCOneEach    == w1 :> p1 @@ w2 :> p2
MCOnePool    == w1 :> p1 @@ w2 :> p1

\* Two workers of one instance are interchangeable.
MCSymmetry == Permutations({w1, w2})
=============================================================================
