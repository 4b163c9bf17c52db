--------------------------- MODULE ApiAccessProofs ---------------------------
(***************************************************************************)
(* Proofs about keys, roles, the scope of reads, the audit trail and the   *)
(* daily limit, for any number of requests, accounts, visitors and days,   *)
(* which may break off anywhere; and about the order of a hybrid search.   *)
(***************************************************************************)
EXTENDS ApiAccessProperties, FiniteSetTheorems, SequenceTheorems, WellFoundedInduction, TLAPS

-----------------------------------------------------------------------------
(***************************************************************************)
(* The order of a hybrid search, for lists of hits of every length and     *)
(* content, and every rrf_k.                                               *)
(***************************************************************************)

\* A list of hits: a sequence, without repetition.
IsHits(l) == l \in Seq(ToSet(l)) /\ IsInjective(l)

-----------------------------------------------------------------------------
(***************************************************************************)
(* Lists and places.                                                       *)
(***************************************************************************)

\* A sequence and the set of its elements.
LEMMA ListIs ==
  ASSUME NEW l, l \in Seq(ToSet(l))
  PROVE  /\ Len(l) \in Nat /\ DOMAIN l = 1..Len(l)
         /\ ToSet(l) = {l[i] : i \in 1..Len(l)}
         /\ IsFiniteSet(ToSet(l))
<1>1. Len(l) \in Nat /\ DOMAIN l = 1..Len(l)
  OBVIOUS
<1>2. ToSet(l) = {l[i] : i \in 1..Len(l)}
  BY <1>1 DEF ToSet
<1>3. l \in Surjection(1..Len(l), ToSet(l))
  BY <1>1, <1>2 DEF Surjection
<1>4. IsFiniteSet(ToSet(l))
  BY <1>1, <1>3, FS_NatSurjection DEF ExistsSurjection
<1> QED BY <1>1, <1>2, <1>4

\* Every sequence is one over the set of its elements.
LEMMA OwnElements ==
  ASSUME NEW S, NEW l \in Seq(S)
  PROVE  l \in Seq(ToSet(l)) /\ Len(l) \in Nat /\ DOMAIN l = 1..Len(l)
<1>1. PICK n \in Nat : l \in [1..n -> S]
  BY SeqDef
<1>2. \A i \in 1..n : l[i] \in ToSet(l)
  BY <1>1 DEF ToSet
<1>3. l \in [1..n -> ToSet(l)]
  BY <1>1, <1>2
<1>4. l \in Seq(ToSet(l))
  BY <1>3, SeqDef
<1>5. Len(l) \in Nat /\ DOMAIN l = 1..Len(l)
  OBVIOUS
<1> QED BY <1>4, <1>5

\* A sequence is cut to its first elements.
LEMMA LimitedIs ==
  ASSUME NEW l, l \in Seq(ToSet(l)), NEW n \in Nat
  PROVE  LET m == IF Len(l) < n THEN Len(l) ELSE n
         IN  /\ Len(Limited(l, n)) = m /\ DOMAIN Limited(l, n) = 1..m
             /\ Limited(l, n) \in Seq(ToSet(Limited(l, n)))
             /\ \A i \in 1..m : Limited(l, n)[i] = l[i]
<1> DEFINE m == IF Len(l) < n THEN Len(l) ELSE n
           r == Limited(l, n)
<1>1. Len(l) \in Nat /\ m \in Nat /\ m <= Len(l) /\ \A i \in 1..m : l[i] \in ToSet(l)
  BY ListIs
<1>2. r = SubSeq(l, 1, m)
  BY DEF Limited
<1> HIDE DEF m, r
<1>3. /\ SubSeq(l, 1, m) \in Seq(ToSet(l))
      /\ Len(SubSeq(l, 1, m)) = IF 1 <= m THEN m - 1 + 1 ELSE 0
      /\ \A i \in 1..(m - 1 + 1) : SubSeq(l, 1, m)[i] = l[1 + i - 1]
  BY <1>1, SubSeqProperties
<1>4. r \in Seq(ToSet(l)) /\ Len(r) = m /\ DOMAIN r = 1..m
  <2>1. r \in Seq(ToSet(l)) /\ Len(r) = m
    BY <1>1, <1>2, <1>3
  <2> QED BY <2>1
<1>5. \A i \in 1..m : r[i] = l[i]
  <2>1. \A i \in 1..m : i \in 1..(m - 1 + 1) /\ 1 + i - 1 = i
    BY <1>1
  <2> QED BY <1>2, <1>3, <2>1
<1>6. r \in Seq(ToSet(r))
  BY <1>4, OwnElements
<1> QED BY <1>4, <1>5, <1>6 DEF m, r

LEMMA LimitedHits ==
  ASSUME NEW l, IsHits(l), NEW n \in Nat
  PROVE  IsHits(Limited(l, n)) /\ Len(Limited(l, n)) <= n
<1>1. l \in Seq(ToSet(l)) /\ Len(l) \in Nat /\ DOMAIN l = 1..Len(l)
  BY DEF IsHits
<1> DEFINE m == IF Len(l) < n THEN Len(l) ELSE n
<1>2. /\ Len(Limited(l, n)) = m /\ DOMAIN Limited(l, n) = 1..m
      /\ Limited(l, n) \in Seq(ToSet(Limited(l, n)))
      /\ \A i \in 1..m : Limited(l, n)[i] = l[i]
  BY <1>1, LimitedIs
<1>3. m \in Nat /\ m <= n /\ m <= Len(l)
  BY <1>1
<1>4. IsInjective(Limited(l, n))
  BY <1>1, <1>2, <1>3 DEF IsHits, IsInjective
<1> QED BY <1>2, <1>3, <1>4 DEF IsHits

\* Every set of places has a first one.
LEMMA First ==
  ASSUME NEW S \in SUBSET Nat, S # {}
  PROVE  \E i \in S : \A j \in S : i <= j
<1> DEFINE R == OpToRel(<, Nat)
<1>1. IsWellFoundedOn(R, Nat)
  BY NatLessThanWellFounded
<1> HIDE DEF R
<1>2. \E i \in S : \A j \in S : ~ (<<j, i>> \in R)
  BY <1>1, WFMin
<1>3. PICK i \in S : \A j \in S : ~ (<<j, i>> \in R)
  BY <1>2
<1>4. \A j \in S : ~ (j < i)
  BY <1>3 DEF R, OpToRel
<1> QED BY <1>3, <1>4

\* An element of a sequence has its first place.
LEMMA PlaceIs ==
  ASSUME NEW l, l \in Seq(ToSet(l)), NEW c \in ToSet(l)
  PROVE  Place(l, c) \in 1..Len(l) /\ l[Place(l, c)] = c
<1> DEFINE S == {i \in DOMAIN l : l[i] = c}
           P(i) == l[i] = c /\ \A j \in DOMAIN l : l[j] = c => i <= j
<1>1. S \in SUBSET Nat /\ S # {} /\ DOMAIN l = 1..Len(l)
  <2>1. DOMAIN l = 1..Len(l) /\ c \in {l[i] : i \in 1..Len(l)}
    BY ListIs
  <2> QED BY <2>1
<1>2. \E i \in DOMAIN l : P(i)
  <2>1. PICK i \in S : \A j \in S : i <= j
    BY <1>1, First
  <2> QED BY <2>1
<1>3. Place(l, c) = CHOOSE i \in DOMAIN l : P(i)
  BY DEF Place
<1> QED BY <1>1, <1>2, <1>3

\* In a list without repetition it is the only one.
LEMMA PlaceOnly ==
  ASSUME NEW l, IsHits(l), NEW i \in 1..Len(l)
  PROVE  l[i] \in ToSet(l) /\ Place(l, l[i]) = i
<1>1. l \in Seq(ToSet(l)) /\ DOMAIN l = 1..Len(l) /\ l[i] \in ToSet(l)
  BY ListIs DEF IsHits
<1>2. Place(l, l[i]) \in 1..Len(l) /\ l[Place(l, l[i])] = l[i]
  BY <1>1, PlaceIs
<1> QED BY <1>1, <1>2 DEF IsHits, IsInjective

-----------------------------------------------------------------------------
(***************************************************************************)
(* Fractions.                                                              *)
(***************************************************************************)

IsFraction(x) == x.num \in Nat /\ x.den \in Nat \ {0}

\* Multiplication by a positive number keeps the order of two naturals.
LEMMA Scaled ==
  ASSUME NEW a \in Nat, NEW b \in Nat, NEW c \in Nat \ {0}
  PROVE  a * c \in Nat /\ b * c \in Nat /\ (a * c > b * c <=> a > b)
<1>1. ASSUME NEW p \in Nat, NEW q \in Nat, p > q PROVE p * c > q * c
  <2>1. (p - q) * c > 0 /\ (p - q) * c = p * c - q * c
    BY <1>1, SMT
  <2> QED BY <2>1, SMT
<1>2. a * c \in Nat /\ b * c \in Nat
  BY SMT
<1> QED BY <1>1, <1>2, SMT

LEMMA ScaledSum ==
  ASSUME NEW a \in Nat, NEW b \in Nat, NEW c \in Nat, NEW d \in Nat
  PROVE  (a + b) * c = a * c + b * c /\ a * b = b * a /\ (a * b) * (c * d) = (a * c) * (b * d)
BY SMT

LEMMA ExceedsOneWay ==
  ASSUME NEW x, NEW y, IsFraction(x), IsFraction(y), Exceeds(x, y)
  PROVE  ~ Exceeds(y, x)
<1>1. x.num * y.den \in Nat /\ y.num * x.den \in Nat
  BY SMT DEF IsFraction
<1> QED BY <1>1 DEF Exceeds

\* x > y and y >= z give x > z.
LEMMA ExceedsThrough ==
  ASSUME NEW x, NEW y, NEW z, IsFraction(x), IsFraction(y), IsFraction(z),
         Exceeds(x, y), ~ Exceeds(z, y)
  PROVE  Exceeds(x, z)
<1>1. PICK a, p, b, q, c, r : /\ a = x.num /\ b = y.num /\ c = z.num
                              /\ p = x.den /\ q = y.den /\ r = z.den
  OBVIOUS
<1>2. /\ a \in Nat /\ b \in Nat /\ c \in Nat
      /\ p \in Nat \ {0} /\ q \in Nat \ {0} /\ r \in Nat \ {0}
  BY <1>1 DEF IsFraction
<1>3. a * q > b * p /\ ~ (c * q > b * r)
  BY <1>1 DEF Exceeds
<1>4. (a * q) * r > (b * p) * r
  BY <1>2, <1>3, Scaled
<1>5. ~ ((c * q) * p > (b * r) * p)
  BY <1>2, <1>3, Scaled
<1>6. (a * q) * r = (a * r) * q /\ (b * p) * r = (b * r) * p /\ (c * q) * p = (c * p) * q
  BY <1>2, SMT
<1>7. a * r \in Nat /\ c * p \in Nat /\ (c * p) * q \in Nat /\ (a * r) * q \in Nat /\ (b * r) * p \in Nat
  BY <1>2, SMT
<1>8. (a * r) * q > (c * p) * q
  BY <1>4, <1>5, <1>6, <1>7
<1>9. a * r > c * p
  BY <1>2, <1>7, <1>8, Scaled
<1> QED BY <1>1, <1>9 DEF Exceeds

\* x + y, as Fused adds two shares.
Plus(x, y) == [num |-> x.num * y.den + y.num * x.den, den |-> x.den * y.den]

LEMMA PlusIs ==
  ASSUME NEW x, NEW y, IsFraction(x), IsFraction(y)
  PROVE  IsFraction(Plus(x, y))
<1>1. PICK a, p, b, q : a = x.num /\ b = y.num /\ p = x.den /\ q = y.den
  OBVIOUS
<1>2. a \in Nat /\ b \in Nat /\ p \in Nat \ {0} /\ q \in Nat \ {0}
  BY <1>1 DEF IsFraction
<1>3. a * q + b * p \in Nat /\ p * q \in Nat \ {0}
  BY <1>2, SMT
<1>4. Plus(x, y) = [num |-> a * q + b * p, den |-> p * q]
  BY <1>1 DEF Plus
<1> QED BY <1>3, <1>4 DEF IsFraction

\* A sum grows with its parts.
LEMMA PlusGrows ==
  ASSUME NEW x, NEW y, NEW u, NEW v,
         IsFraction(x), IsFraction(y), IsFraction(u), IsFraction(v),
         ~ Exceeds(u, x), ~ Exceeds(v, y), Exceeds(x, u) \/ Exceeds(y, v)
  PROVE  Exceeds(Plus(x, y), Plus(u, v))
<1>1. PICK a, p, b, q, c, r, d, s : /\ a = x.num /\ b = y.num /\ c = u.num /\ d = v.num
                                    /\ p = x.den /\ q = y.den /\ r = u.den /\ s = v.den
  OBVIOUS
<1>2. /\ a \in Nat /\ b \in Nat /\ c \in Nat /\ d \in Nat
      /\ p \in Nat \ {0} /\ q \in Nat \ {0} /\ r \in Nat \ {0} /\ s \in Nat \ {0}
  BY <1>1 DEF IsFraction
<1>3. ~ (c * p > a * r) /\ ~ (d * q > b * s) /\ (a * r > c * p \/ b * s > d * q)
  BY <1>1 DEF Exceeds
<1>4. /\ q * s \in Nat \ {0} /\ p * r \in Nat \ {0}
      /\ a * r \in Nat /\ c * p \in Nat /\ b * s \in Nat /\ d * q \in Nat
  BY <1>2, SMT
<1>5. /\ ~ ((c * p) * (q * s) > (a * r) * (q * s))
      /\ ~ ((d * q) * (p * r) > (b * s) * (p * r))
      /\ (a * r) * (q * s) > (c * p) * (q * s) \/ (b * s) * (p * r) > (d * q) * (p * r)
  BY <1>3, <1>4, Scaled
<1>6. /\ (a * r) * (q * s) \in Nat /\ (c * p) * (q * s) \in Nat
      /\ (b * s) * (p * r) \in Nat /\ (d * q) * (p * r) \in Nat
  BY <1>4, Scaled
<1>7. (a * r) * (q * s) + (b * s) * (p * r) > (c * p) * (q * s) + (d * q) * (p * r)
  BY <1>5, <1>6
<1>8. /\ (a * q + b * p) * (r * s) = (a * r) * (q * s) + (b * s) * (p * r)
      /\ (c * s + d * r) * (p * q) = (c * p) * (q * s) + (d * q) * (p * r)
  BY <1>2, SMT
<1>9. (a * q + b * p) * (r * s) > (c * s + d * r) * (p * q)
  BY <1>7, <1>8
<1>10. /\ Plus(x, y) = [num |-> a * q + b * p, den |-> p * q]
       /\ Plus(u, v) = [num |-> c * s + d * r, den |-> r * s]
  BY <1>1 DEF Plus
<1> QED BY <1>9, <1>10 DEF Exceeds

-----------------------------------------------------------------------------
(***************************************************************************)
(* What a list gives, and what two lists give together.                    *)
(***************************************************************************)

LEMMA ShareIs ==
  ASSUME NEW l, IsHits(l), NEW c, RrfK \in Nat
  PROVE  IsFraction(Share(l, c))
<1>1. CASE c \in ToSet(l)
  <2>1. Place(l, c) \in 1..Len(l) /\ Len(l) \in Nat
    BY <1>1, PlaceIs DEF IsHits
  <2>2. Share(l, c) = [num |-> 1, den |-> RrfK + Place(l, c)]
    BY <1>1 DEF Share
  <2> QED BY <2>1, <2>2 DEF IsFraction
<1>2. CASE c \notin ToSet(l)
  BY <1>2 DEF Share, IsFraction
<1> QED BY <1>1, <1>2

LEMMA FusedIs ==
  ASSUME NEW k, IsHits(k), NEW s, IsHits(s), RrfK \in Nat, NEW c
  PROVE  /\ Fused(k, s, c) = Plus(Share(k, c), Share(s, c))
         /\ IsFraction(Fused(k, s, c))
<1>1. Fused(k, s, c) = Plus(Share(k, c), Share(s, c))
  BY DEF Fused, Plus
<1> QED BY <1>1, ShareIs, PlusIs

\* A list gives the more the earlier its hit comes.
LEMMA ShareFalls ==
  ASSUME NEW l, IsHits(l), RrfK \in Nat, NEW c, NEW d
  PROVE  /\ (d \in ToSet(l) => c \in ToSet(l) /\ Place(l, c) <= Place(l, d))
              => ~ Exceeds(Share(l, d), Share(l, c))
         /\ (c \in ToSet(l) /\ (d \in ToSet(l) => Place(l, c) < Place(l, d)))
              => Exceeds(Share(l, c), Share(l, d))
<1>1. Len(l) \in Nat /\ \A e \in ToSet(l) : Place(l, e) \in 1..Len(l)
  BY PlaceIs DEF IsHits
<1>2. \A e \in ToSet(l) : RrfK + Place(l, e) \in Nat \ {0}
  BY <1>1
<1>3. \A e : e \in ToSet(l) => Share(l, e) = [num |-> 1, den |-> RrfK + Place(l, e)]
  BY DEF Share
<1>4. \A e : e \notin ToSet(l) => Share(l, e) = [num |-> 0, den |-> 1]
  BY DEF Share
<1>5. CASE c \in ToSet(l) /\ d \in ToSet(l)
  <2>1. /\ Exceeds(Share(l, c), Share(l, d)) <=> RrfK + Place(l, d) > RrfK + Place(l, c)
        /\ Exceeds(Share(l, d), Share(l, c)) <=> RrfK + Place(l, c) > RrfK + Place(l, d)
    BY <1>2, <1>3, <1>5 DEF Exceeds
  <2> QED BY <1>1, <1>5, <2>1
<1>6. CASE c \in ToSet(l) /\ d \notin ToSet(l)
  <2>1. /\ Exceeds(Share(l, c), Share(l, d)) <=> 1 * 1 > 0 * (RrfK + Place(l, c))
        /\ Exceeds(Share(l, d), Share(l, c)) <=> 0 * (RrfK + Place(l, c)) > 1 * 1
    BY <1>3, <1>4, <1>6 DEF Exceeds
  <2> QED BY <1>2, <1>6, <2>1
<1>7. CASE c \notin ToSet(l) /\ d \notin ToSet(l)
  BY <1>4, <1>7 DEF Exceeds
<1>8. CASE c \notin ToSet(l) /\ d \in ToSet(l)
  BY <1>8
<1> QED BY <1>5, <1>6, <1>7, <1>8

\* Who dominates another has the greater fraction.
LEMMA DominatesExceeds ==
  ASSUME NEW k, IsHits(k), NEW s, IsHits(s), RrfK \in Nat, NEW c, NEW d,
         Dominates(c, d, {k, s})
  PROVE  Exceeds(Fused(k, s, c), Fused(k, s, d))
<1>1. \A l \in {k, s} : ~ Exceeds(Share(l, d), Share(l, c))
  BY ShareFalls DEF Dominates
<1>2. Exceeds(Share(k, c), Share(k, d)) \/ Exceeds(Share(s, c), Share(s, d))
  BY ShareFalls DEF Dominates
<1>3. Exceeds(Plus(Share(k, c), Share(s, c)), Plus(Share(k, d), Share(s, d)))
  BY <1>1, <1>2, ShareIs, PlusGrows
<1> QED BY <1>3, FusedIs

\* What both lists hold has the greater fraction than what one does, as long as no
\* place in them is behind rrf_k + 1.
LEMMA BothExceed ==
  ASSUME NEW k, IsHits(k), NEW s, IsHits(s), RrfK \in Nat,
         Len(k) <= RrfK + 1, Len(s) <= RrfK + 1,
         NEW c \in ToSet(k) \cap ToSet(s),
         NEW d \in (ToSet(k) \cup ToSet(s)) \ (ToSet(k) \cap ToSet(s))
  PROVE  Exceeds(Fused(k, s, c), Fused(k, s, d))
<1>1. PICK a, b : a = RrfK + Place(k, c) /\ b = RrfK + Place(s, c)
  OBVIOUS
<1>2. PICK e : e = IF d \in ToSet(k) THEN RrfK + Place(k, d) ELSE RrfK + Place(s, d)
  OBVIOUS
<1>3. /\ Len(k) \in Nat /\ \A x \in ToSet(k) : Place(k, x) \in 1..Len(k)
      /\ Len(s) \in Nat /\ \A x \in ToSet(s) : Place(s, x) \in 1..Len(s)
  <2>1. ASSUME NEW l, IsHits(l)
        PROVE  Len(l) \in Nat /\ \A x \in ToSet(l) : Place(l, x) \in 1..Len(l)
    <3>1. l \in Seq(ToSet(l))
      BY <2>1 DEF IsHits
    <3> QED BY <3>1, PlaceIs
  <2> QED BY <2>1
<1>4. /\ a \in Nat \ {0} /\ b \in Nat \ {0} /\ e \in Nat \ {0}
      /\ a < 2 * e /\ b < 2 * e
  <2>1. Place(k, c) \in 1..Len(k) /\ Place(s, c) \in 1..Len(s)
    BY <1>3
  <2>2. PICK n \in Nat : e = RrfK + n /\ n >= 1
    <3>1. CASE d \in ToSet(k)
      BY <1>2, <1>3, <3>1
    <3>2. CASE d \notin ToSet(k)
      BY <1>2, <1>3, <3>2
    <3> QED BY <3>1, <3>2
  <2>3. PICK x, y : x = Place(k, c) /\ y = Place(s, c)
    OBVIOUS
  <2>4. /\ x \in Nat /\ x >= 1 /\ x <= Len(k) /\ a = RrfK + x
        /\ y \in Nat /\ y >= 1 /\ y <= Len(s) /\ b = RrfK + y
    BY <1>1, <1>3, <2>1, <2>3
  <2> QED BY <1>3, <2>2, <2>4
<1>5. Fused(k, s, c) = [num |-> 1 * b + 1 * a, den |-> a * b]
  BY <1>1 DEF Fused, Share
<1>6. Fused(k, s, d) = [num |-> 1 * 1 + 0 * e, den |-> e * 1]
                       \/ Fused(k, s, d) = [num |-> 0 * e + 1 * 1, den |-> 1 * e]
  BY <1>2 DEF Fused, Share
<1>7. Fused(k, s, d).num = 1 /\ Fused(k, s, d).den = e
  BY <1>4, <1>6
<1>8. Fused(k, s, c).num = a + b /\ Fused(k, s, c).den = a * b
  BY <1>4, <1>5
<1>9. (a + b) * e > a * b
  <2>1. (2 * e) * a > b * a /\ (2 * e) * b > a * b
    BY <1>4, Scaled
  <2>2. a * e \in Nat /\ b * e \in Nat /\ a * b \in Nat
    BY <1>4, SMT
  <2>3. (2 * e) * a = 2 * (a * e) /\ (2 * e) * b = 2 * (b * e) /\ b * a = a * b
        /\ (a + b) * e = a * e + b * e
    BY <1>4, SMT
  <2> QED BY <2>1, <2>2, <2>3
<1>10. a * b \in Nat /\ 1 * (a * b) = a * b
  BY <1>4, SMT
<1> QED BY <1>7, <1>8, <1>9, <1>10 DEF Exceeds

-----------------------------------------------------------------------------
(***************************************************************************)
(* The order of the fused list is strict and total, so the number of hits  *)
(* ahead of one is its place.                                              *)
(***************************************************************************)

LEMMA FoundIs ==
  ASSUME NEW k, IsHits(k), NEW s, IsHits(s)
  PROVE  /\ IsFiniteSet(Found(k, s)) /\ Cardinality(Found(k, s)) \in Nat
         /\ \A c \in Found(k, s) : /\ Place(k \o s, c) \in Nat
                                   /\ \A d \in Found(k, s) : Place(k \o s, c) = Place(k \o s, d) => c = d
<1>1. /\ k \in Seq(ToSet(k)) /\ ToSet(k) = {k[i] : i \in 1..Len(k)} /\ IsFiniteSet(ToSet(k))
      /\ s \in Seq(ToSet(s)) /\ ToSet(s) = {s[i] : i \in 1..Len(s)} /\ IsFiniteSet(ToSet(s))
      /\ Len(k) \in Nat /\ Len(s) \in Nat
  BY ListIs DEF IsHits
<1>2. IsFiniteSet(Found(k, s))
  BY <1>1, FS_Union DEF Found
<1>3. Cardinality(Found(k, s)) \in Nat
  BY <1>2, FS_CardinalityType
<1>4. PICK h : h = k \o s
  OBVIOUS
<1>5. /\ k \o s \in Seq(ToSet(k) \cup ToSet(s))
      /\ Len(k \o s) = Len(k) + Len(s)
      /\ \A i \in 1..(Len(k) + Len(s)) : (k \o s)[i] = IF i <= Len(k) THEN k[i] ELSE s[i - Len(k)]
  <2>1. k \in Seq(ToSet(k) \cup ToSet(s)) /\ s \in Seq(ToSet(k) \cup ToSet(s))
    BY <1>1, SeqMonotonic
  <2> QED BY <2>1, ConcatProperties
<1>6. DOMAIN h = 1..(Len(k) + Len(s)) /\ Len(h) = Len(k) + Len(s)
  BY <1>1, <1>4, <1>5
<1>7. \A c \in Found(k, s) : c \in ToSet(h)
  <2>1. ASSUME NEW i \in 1..Len(k) PROVE k[i] \in ToSet(h)
    <3>1. i \in DOMAIN h /\ h[i] = k[i]
      BY <1>1, <1>4, <1>5, <1>6
    <3> QED BY <3>1 DEF ToSet
  <2>2. ASSUME NEW i \in 1..Len(s) PROVE s[i] \in ToSet(h)
    <3>1. i + Len(k) \in 1..(Len(k) + Len(s)) /\ ~ (i + Len(k) <= Len(k)) /\ (i + Len(k)) - Len(k) = i
      <4>1. PICK p \in Nat, q \in Nat : p = Len(k) /\ q = Len(s)
        BY <1>1
      <4>2. i \in 1..q
        BY <4>1
      <4>3. i + p \in 1..(p + q) /\ ~ (i + p <= p) /\ (i + p) - p = i
        BY <4>2
      <4> QED BY <4>1, <4>3
    <3>2. i + Len(k) \in DOMAIN h /\ h[i + Len(k)] = s[i]
      BY <1>4, <1>5, <1>6, <3>1
    <3> QED BY <3>2 DEF ToSet
  <2> QED BY <1>1, <2>1, <2>2 DEF Found
<1>8. h \in Seq(ToSet(h)) /\ Len(h) \in Nat
  BY <1>4, <1>5, OwnElements
<1>9. \A c \in Found(k, s) : Place(h, c) \in 1..Len(h) /\ h[Place(h, c)] = c
  BY <1>7, <1>8, PlaceIs
<1>10. \A c \in Found(k, s) : Place(h, c) \in Nat
  BY <1>8, <1>9
<1>11. \A c, d \in Found(k, s) : Place(h, c) = Place(h, d) => c = d
  BY <1>9
<1> QED BY <1>2, <1>3, <1>4, <1>10, <1>11

\* The greater fraction, and of equal ones the place where it is first seen, order
\* the chunks found strictly and totally.
LEMMA PrecedesIs ==
  ASSUME NEW k, IsHits(k), NEW s, IsHits(s), RrfK \in Nat
  PROVE  LET P(c, d) == Precedes(k, s, c, d)
         IN  /\ \A c, d \in Found(k, s) : Exceeds(Fused(k, s, c), Fused(k, s, d)) => P(c, d)
             /\ \A c \in Found(k, s) : ~ P(c, c)
             /\ \A c, d \in Found(k, s) : c # d => P(c, d) \/ P(d, c)
             /\ \A c, d, e \in Found(k, s) : P(c, d) /\ P(d, e) => P(c, e)
<1> DEFINE F(c) == Fused(k, s, c)
           W(c) == Place(k \o s, c)
           P(c, d) == Precedes(k, s, c, d)
<1>1. \A c, d : P(c, d) <=> Exceeds(F(c), F(d)) \/ (~ Exceeds(F(d), F(c)) /\ W(c) < W(d))
  BY DEF Precedes
<1>2. \A c : IsFraction(F(c))
  BY FusedIs
<1>3. /\ \A c \in Found(k, s) : W(c) \in Nat
      /\ \A c, d \in Found(k, s) : W(c) = W(d) => c = d
  BY FoundIs
<1>4. \A c, d : ~ (Exceeds(F(c), F(d)) /\ Exceeds(F(d), F(c)))
  BY <1>2, ExceedsOneWay
<1>5. \A c, d, e : Exceeds(F(c), F(d)) /\ ~ Exceeds(F(e), F(d)) => Exceeds(F(c), F(e))
  BY <1>2, ExceedsThrough
<1> HIDE DEF F, W, P
<1>6. \A c \in Found(k, s) : ~ P(c, c)
  BY <1>1, <1>3, <1>4
<1>7. \A c, d \in Found(k, s) : c # d => P(c, d) \/ P(d, c)
  BY <1>1, <1>3
<1>8. ASSUME NEW c \in Found(k, s), NEW d \in Found(k, s), NEW e \in Found(k, s), P(c, d), P(d, e)
      PROVE  P(c, e)
  <2>1. CASE Exceeds(F(c), F(d))
    <3>1. ~ Exceeds(F(e), F(d))
      BY <1>1, <1>4, <1>8
    <3> QED BY <1>1, <1>5, <2>1, <3>1
  <2>2. CASE ~ Exceeds(F(c), F(d)) /\ Exceeds(F(d), F(e))
    <3>1. ~ Exceeds(F(d), F(c)) /\ W(c) < W(d)
      BY <1>1, <1>8, <2>2
    <3>2. ~ Exceeds(F(e), F(c)) /\ (~ Exceeds(F(c), F(e)) => Exceeds(F(d), F(c)))
      BY <1>4, <1>5, <2>2, <3>1
    <3> QED BY <1>1, <3>1, <3>2
  <2>3. CASE ~ Exceeds(F(c), F(d)) /\ ~ Exceeds(F(d), F(e))
    <3>1. ~ Exceeds(F(d), F(c)) /\ W(c) < W(d) /\ ~ Exceeds(F(e), F(d)) /\ W(d) < W(e)
      BY <1>1, <1>8, <2>3
    <3>2. W(c) < W(e)
      BY <1>3, <3>1
    <3>3. ~ Exceeds(F(e), F(c))
      BY <1>5, <3>1
    <3> QED BY <1>1, <3>2, <3>3
  <2> QED BY <2>1, <2>2, <2>3
<1>9. \A c, d \in Found(k, s) : Exceeds(F(c), F(d)) => P(c, d)
  BY <1>1
<1> QED BY <1>6, <1>7, <1>8, <1>9 DEF F, P

\* Those ahead are fewer than all, and the more the further behind.
LEMMA AheadIs ==
  ASSUME NEW k, IsHits(k), NEW s, IsHits(s), RrfK \in Nat
  PROVE  /\ \A c \in Found(k, s) : Ahead(k, s, c) \in 0..(Cardinality(Found(k, s)) - 1)
         /\ \A c, d \in Found(k, s) : Precedes(k, s, c, d) => Ahead(k, s, c) < Ahead(k, s, d)
<1> DEFINE B(c) == {d \in Found(k, s) : Precedes(k, s, d, c)}
           n == Cardinality(Found(k, s))
<1>1. IsFiniteSet(Found(k, s)) /\ n \in Nat
  BY FoundIs
<1>2. \A c \in Found(k, s) : IsFiniteSet(B(c)) /\ Cardinality(B(c)) <= n
                             /\ (n = Cardinality(B(c)) => Found(k, s) = B(c))
  BY <1>1, FS_Subset
<1>3. \A c \in Found(k, s) : Cardinality(B(c)) \in Nat
  BY <1>2, FS_CardinalityType
<1>4. \A c \in Found(k, s) : ~ Precedes(k, s, c, c)
  BY PrecedesIs
<1>5. \A c \in Found(k, s) : c \notin B(c)
  BY <1>4
<1>6. \A c \in Found(k, s) : Ahead(k, s, c) = Cardinality(B(c))
  BY DEF Ahead
<1>7. ASSUME NEW c \in Found(k, s), NEW d \in Found(k, s), Precedes(k, s, c, d)
      PROVE  Cardinality(B(c)) < Cardinality(B(d))
  <2>1. B(c) \subseteq B(d)
    BY <1>7, PrecedesIs
  <2>2. c \in B(d)
    BY <1>7
  <2> HIDE DEF B
  <2>3. Cardinality(B(c)) <= Cardinality(B(d)) /\ (Cardinality(B(d)) = Cardinality(B(c)) => B(d) = B(c))
    BY <1>2, <2>1, FS_Subset
  <2> QED BY <1>3, <1>5, <2>2, <2>3
<1> HIDE DEF B, n
<1>8. \A c \in Found(k, s) : Cardinality(B(c)) \in 0..(n - 1)
  BY <1>1, <1>2, <1>3, <1>5
<1> QED BY <1>6, <1>7, <1>8 DEF n

\* The fused list before it is cut: every hit at the place its number gives.
LEMMA RankedIs ==
  ASSUME NEW k, IsHits(k), NEW s, IsHits(s), RrfK \in Nat
  PROVE  LET r == Ranked(k, s)
             n == Cardinality(Found(k, s))
         IN  /\ IsHits(r) /\ Len(r) = n /\ ToSet(r) \subseteq Found(k, s)
             /\ \A i \in 1..n : r[i] \in Found(k, s) /\ Ahead(k, s, r[i]) = i - 1
             /\ \A c \in Found(k, s) : Ahead(k, s, c) + 1 \in 1..n /\ r[Ahead(k, s, c) + 1] = c
<1> DEFINE A(c) == Ahead(k, s, c)
           S == Found(k, s)
           n == Cardinality(S)
           r == Ranked(k, s)
<1>1. IsFiniteSet(S) /\ n \in Nat
  BY FoundIs
<1>2. /\ \A c \in S : A(c) \in 0..(n - 1)
      /\ \A c, d \in S : Precedes(k, s, c, d) => A(c) < A(d)
  BY AheadIs
<1>3. \A c, d \in S : c # d => Precedes(k, s, c, d) \/ Precedes(k, s, d, c)
  BY PrecedesIs
<1>4. r = [i \in 1..n |-> CHOOSE c \in S : A(c) = i - 1]
  BY DEF Ranked
<1> HIDE DEF A, S, n, r
<1>5. \A c, d \in S : A(c) = A(d) => c = d
  <2> SUFFICES ASSUME NEW c \in S, NEW d \in S, A(c) = A(d), c # d PROVE FALSE
    OBVIOUS
  <2>1. A(c) < A(d) \/ A(d) < A(c)
    BY <1>2, <1>3
  <2>2. A(c) \in Nat
    BY <1>1, <1>2
  <2> QED BY <2>1, <2>2
<1>6. \A i \in 0..(n - 1) : \E c \in S : A(c) = i
  <2> DEFINE f == [c \in S |-> A(c)]
  <2>1. f \in Injection(S, 0..(n - 1))
    BY <1>2, <1>5 DEF Injection, IsInjective
  <2>2. IsFiniteSet(0..(n - 1)) /\ Cardinality(0..(n - 1)) = n
    <3>1. IsFiniteSet(0..(n - 1)) /\ Cardinality(0..(n - 1)) = IF 0 > n - 1 THEN 0 ELSE (n - 1) - 0 + 1
      BY <1>1, FS_Interval
    <3> QED BY <1>1, <3>1
  <2>3. Cardinality(S) = n
    BY DEF n
  <2> HIDE DEF f
  <2>4. f \in Surjection(S, 0..(n - 1))
    BY <2>1, <2>2, <2>3, FS_Injection
  <2> QED BY <2>4 DEF Surjection, f
<1>7. \A i \in 1..n : r[i] \in S /\ A(r[i]) = i - 1
  <2> SUFFICES ASSUME NEW i \in 1..n PROVE r[i] \in S /\ A(r[i]) = i - 1
    OBVIOUS
  <2>1. i - 1 \in 0..(n - 1)
    BY <1>1
  <2>2. \E c \in S : A(c) = i - 1
    BY <1>6, <2>1
  <2>3. r[i] = CHOOSE c \in S : A(c) = i - 1
    BY <1>4
  <2> QED BY <2>2, <2>3
<1>8. DOMAIN r = 1..n /\ r \in Seq(S) /\ Len(r) = n
  <2>1. DOMAIN r = 1..n /\ r = [i \in 1..n |-> r[i]]
    BY <1>4
  <2>2. r \in [1..n -> S]
    BY <1>7, <2>1
  <2> QED BY <1>1, <2>1, <2>2
<1>9. IsHits(r) /\ ToSet(r) \subseteq S
  <2>1. r \in Seq(ToSet(r))
    BY <1>8, OwnElements
  <2>2. IsInjective(r)
    <3> SUFFICES ASSUME NEW i \in 1..n, NEW j \in 1..n, r[i] = r[j] PROVE i = j
      BY <1>8 DEF IsInjective
    <3>1. i - 1 = j - 1
      BY <1>7
    <3> QED BY <1>1, <3>1
  <2>3. ToSet(r) \subseteq S
    BY <1>7, <1>8 DEF ToSet
  <2> QED BY <2>1, <2>2, <2>3 DEF IsHits
<1>10. \A c \in S : A(c) + 1 \in 1..n /\ r[A(c) + 1] = c
  <2> SUFFICES ASSUME NEW c \in S PROVE A(c) + 1 \in 1..n /\ r[A(c) + 1] = c
    OBVIOUS
  <2>1. A(c) + 1 \in 1..n /\ (A(c) + 1) - 1 = A(c)
    BY <1>1, <1>2
  <2>2. r[A(c) + 1] \in S /\ A(r[A(c) + 1]) = A(c)
    BY <1>7, <2>1
  <2> QED BY <1>5, <2>1, <2>2
<1> QED BY <1>7, <1>8, <1>9, <1>10 DEF A, S, n, r

-----------------------------------------------------------------------------
(***************************************************************************)
(* The result: the first of the fused list.                                *)
(***************************************************************************)

\* d is in the result only if c is, before it.
BeforeIn(result, c, d) ==
  d \in ToSet(result) => c \in ToSet(result) /\ Place(result, c) < Place(result, d)

LEMMA ResultIs ==
  ASSUME NEW k, IsHits(k), NEW s, IsHits(s), RrfK \in Nat, NEW n \in Nat
  PROVE  LET result == Limited(Ranked(k, s), n)
             found == Found(k, s)
         IN  /\ IsHits(result) /\ ToSet(result) \subseteq found
             /\ Len(result) = IF Cardinality(found) < n THEN Cardinality(found) ELSE n
             /\ \A c, d \in found : Precedes(k, s, c, d) => BeforeIn(result, c, d)
<1> DEFINE r == Ranked(k, s)
           result == Limited(r, n)
           f == Cardinality(Found(k, s))
           m == IF f < n THEN f ELSE n
           A(c) == Ahead(k, s, c)
<1>1. /\ IsHits(r) /\ Len(r) = f /\ ToSet(r) \subseteq Found(k, s)
      /\ \A i \in 1..f : r[i] \in Found(k, s) /\ A(r[i]) = i - 1
      /\ \A c \in Found(k, s) : A(c) + 1 \in 1..f /\ r[A(c) + 1] = c
  BY RankedIs
<1>2. f \in Nat
  BY FoundIs
<1>3. \A c, d \in Found(k, s) : Precedes(k, s, c, d) => A(c) < A(d)
  BY AheadIs
<1>4. \A c \in Found(k, s) : A(c) \in 0..(f - 1)
  BY AheadIs
<1> HIDE DEF r, f, A
<1>5. r \in Seq(ToSet(r))
  BY <1>1 DEF IsHits
<1>6. /\ Len(result) = m /\ DOMAIN result = 1..m
      /\ \A i \in 1..m : result[i] = r[i]
  BY <1>1, <1>5, LimitedIs
<1>7. IsHits(result)
  BY <1>1, LimitedHits
<1> HIDE DEF result
<1>8. m \in Nat /\ m <= f
  BY <1>2
<1>9. ToSet(result) \subseteq Found(k, s)
  BY <1>1, <1>6, <1>8 DEF ToSet
<1>10. \A i \in 1..m : result[i] \in ToSet(result) /\ Place(result, result[i]) = i
  BY <1>6, <1>7, PlaceOnly
<1>11. ASSUME NEW c \in Found(k, s), NEW d \in Found(k, s), Precedes(k, s, c, d), d \in ToSet(result)
       PROVE  c \in ToSet(result) /\ Place(result, c) < Place(result, d)
  <2>1. PICK j \in 1..m : result[j] = d
    BY <1>6, <1>11 DEF ToSet
  <2>2. A(d) = j - 1 /\ A(c) < A(d) /\ A(c) \in 0..(f - 1)
    <3>1. j \in 1..f /\ r[j] = d
      BY <1>2, <1>6, <1>8, <2>1
    <3>2. A(r[j]) = j - 1
      BY <1>1, <3>1
    <3> QED BY <1>3, <1>4, <1>11, <3>1, <3>2
  <2>3. A(c) + 1 \in 1..m /\ A(c) + 1 < j
    BY <1>2, <1>8, <2>2
  <2>4. result[A(c) + 1] = c
    BY <1>1, <1>6, <2>3
  <2>5. Place(result, c) = A(c) + 1 /\ c \in ToSet(result) /\ Place(result, d) = j
    BY <1>10, <2>1, <2>3, <2>4
  <2> QED BY <2>3, <2>5
<1> QED BY <1>6, <1>7, <1>9, <1>11 DEF BeforeIn, r, f, result

\* Of two lists with nothing in common, the result begins with what one begins with.
LEMMA BestFirst ==
  ASSUME NEW k, IsHits(k), NEW s, IsHits(s), NEW result, IsHits(result), result # <<>>,
         ToSet(result) \subseteq Found(k, s), ToSet(k) \cap ToSet(s) = {},
         \A c, d \in Found(k, s) : Dominates(c, d, {k, s}) => BeforeIn(result, c, d)
  PROVE  result[1] \in {Head(l) : l \in {k, s} \ {<<>>}}
<1>1. ASSUME NEW l, IsHits(l)
      PROVE  /\ Len(l) \in Nat
             /\ \A i \in 1..Len(l) : l[i] \in ToSet(l) /\ Place(l, l[i]) = i
             /\ \A c \in ToSet(l) : Place(l, c) \in 1..Len(l) /\ l[Place(l, c)] = c
  BY <1>1, PlaceIs, PlaceOnly DEF IsHits
<1>2. 1 \in 1..Len(result)
  <2>1. result \in Seq(ToSet(result))
    BY DEF IsHits
  <2> QED BY <2>1, EmptySeq
<1>3. PICK e : e = result[1]
  OBVIOUS
<1>4. e \in Found(k, s) /\ Place(result, e) = 1
  BY <1>1, <1>2, <1>3
<1>5. ASSUME NEW l \in {k, s}, e \in ToSet(l) PROVE e = Head(l) /\ l # <<>>
  <2>1. IsHits(l)
    OBVIOUS
  <2>2. Place(l, e) \in 1..Len(l) /\ l[Place(l, e)] = e /\ Len(l) \in Nat
    BY <1>1, <1>5, <2>1
  <2>3. 1 \in 1..Len(l) /\ l # <<>> /\ Head(l) = l[1]
    BY <2>1, <2>2 DEF IsHits
  <2>4. l[1] \in ToSet(l) /\ Place(l, l[1]) = 1
    BY <1>1, <2>1, <2>3
  <2>5. ASSUME l[1] # e PROVE FALSE
    <3>1. Place(l, l[1]) < Place(l, e)
      BY <2>2, <2>4, <2>5
    <3>2. \A x \in {k, s} : x # l => e \notin ToSet(x)
      BY <1>5
    <3>3. Dominates(l[1], e, {k, s})
      BY <2>2, <2>4, <3>1, <3>2 DEF Dominates
    <3>4. l[1] \in Found(k, s)
      BY <2>4 DEF Found
    <3>5. l[1] \in ToSet(result) /\ Place(result, l[1]) < 1
      BY <1>1, <1>2, <1>3, <1>4, <3>3, <3>4 DEF BeforeIn
    <3>6. Place(result, l[1]) \in 1..Len(result) /\ Len(result) \in Nat
      BY <1>1, <3>5
    <3> QED BY <3>5, <3>6
  <2> QED BY <2>3, <2>5
<1> QED BY <1>3, <1>4, <1>5 DEF Found

\* The fused list is right for every two lists of hits and every limit.
LEMMA RightIs ==
  ASSUME NEW m, IsHits(m), NEW e, IsHits(e), NEW limit \in Nat, RrfK \in Nat
  PROVE  RankedRight(m, e, limit)
<1> DEFINE k == Search(m, limit)
           s == SemanticSearch(e, limit)
           result == HybridSearch(m, e, limit)
<1>1. IsHits(k) /\ IsHits(s) /\ Len(k) <= limit /\ Len(s) <= limit
  BY LimitedHits DEF Search, SemanticSearch
<1>2. result = Limited(Ranked(k, s), limit)
  BY DEF HybridSearch
<1>3. Found(k, s) = ToSet(k) \cup ToSet(s)
  BY DEF Found
<1> HIDE DEF k, s, result
<1>4. /\ IsHits(result) /\ ToSet(result) \subseteq Found(k, s)
      /\ Len(result) = IF Cardinality(Found(k, s)) < limit THEN Cardinality(Found(k, s)) ELSE limit
      /\ \A c, d \in Found(k, s) : Precedes(k, s, c, d) => BeforeIn(result, c, d)
  BY <1>1, <1>2, ResultIs
<1>5. \A c, d \in Found(k, s) : Exceeds(Fused(k, s, c), Fused(k, s, d)) => BeforeIn(result, c, d)
  BY <1>1, <1>4, PrecedesIs
<1>6. \A c, d \in Found(k, s) : Dominates(c, d, {k, s}) => BeforeIn(result, c, d)
  BY <1>1, <1>5, DominatesExceeds
<1>7. ASSUME limit <= RrfK + 1, NEW c \in ToSet(k) \cap ToSet(s),
             NEW d \in Found(k, s) \ (ToSet(k) \cap ToSet(s))
      PROVE  BeforeIn(result, c, d)
  <2>1. Len(k) \in Nat /\ Len(s) \in Nat
    BY <1>1 DEF IsHits
  <2>2. Len(k) <= RrfK + 1 /\ Len(s) <= RrfK + 1
    BY <1>1, <1>7, <2>1
  <2>3. Exceeds(Fused(k, s, c), Fused(k, s, d))
    BY <1>1, <1>3, <1>7, <2>2, BothExceed
  <2> QED BY <1>3, <1>5, <2>3
<1>8. ASSUME ToSet(k) \cap ToSet(s) = {}, Found(k, s) # {}
      PROVE  result[1] \in {Head(l) : l \in {k, s} \ {<<>>}}
  <2>1. result # <<>>
    <3>1. Cardinality(Found(k, s)) # 0 /\ Cardinality(Found(k, s)) \in Nat
      BY <1>1, <1>8, FoundIs, FS_EmptySet
    <3>2. limit # 0
      <4> SUFFICES ASSUME limit = 0 PROVE FALSE
        OBVIOUS
      <4>1. k \in Seq(ToSet(k)) /\ s \in Seq(ToSet(s))
        BY <1>1 DEF IsHits
      <4>2. Len(k) \in Nat /\ Len(s) \in Nat /\ Len(k) <= 0 /\ Len(s) <= 0
        BY <1>1, <4>1
      <4>3. /\ ToSet(k) = {k[i] : i \in 1..Len(k)}
            /\ ToSet(s) = {s[i] : i \in 1..Len(s)}
        BY <4>1, ListIs
      <4>4. ToSet(k) = {} /\ ToSet(s) = {}
        BY <4>2, <4>3
      <4> QED BY <1>3, <1>8, <4>4
    <3>3. Len(result) # 0
      BY <1>4, <3>1, <3>2
    <3> QED BY <3>3
  <2> QED BY <1>1, <1>4, <1>6, <1>8, <2>1, BestFirst
<1>9. IsInjective(result)
  BY <1>4 DEF IsHits
<1> QED BY <1>3, <1>4, <1>6, <1>7, <1>8, <1>9 DEF RankedRight, BeforeIn, k, s, result

\* No two lists of hits, and no limit, are fused in a wrong order.
THEOREM NoneRankedWrong == RankedWrong = {}
<1>1. ASSUME NEW m \in Matchings, NEW e \in Embeddings, NEW n \in Limits
      PROVE  RankedRight(m, e, n)
  <2>1. IsHits(m) /\ IsHits(e) /\ n \in Nat /\ RrfK \in Nat
    BY SearchAssumption DEF IsHits
  <2> QED BY <2>1, RightIs
<1> QED BY <1>1 DEF RankedWrong

-----------------------------------------------------------------------------
(***************************************************************************)
(* Type correctness.                                                       *)
(***************************************************************************)

\* What each kind of request carries.
LEMMA FormsHave ==
  \A a \in Forms : /\ a.op \in {"signup", "login"} /\ a.op # "call"
                   /\ a.email \in Emails /\ a.password \in Passwords
BY AccessAssumption

LEMMA CallsHave ==
  \A a \in Calls : /\ a.op = "call" /\ a.key \in Keys \cup StaticKeys \cup {None}
                   /\ a.route \in Routes /\ (a.key \in DemoKeys => a.ip \in Ips)
BY AccessAssumption DEF Calls, Call

\* No request is of both kinds, and what Begin draws is of one.
LEMMA Attempted ==
  /\ \A a \in Attempts : a.op = "call" <=> a \in Calls
  /\ \A a \in Attempts : a.op # "call" <=> a \in Forms
  /\ TypeOK => Forms \cup UNION {Call(k) : k \in Known \cup {None}} \subseteq Attempts
<1>1. Known \subseteq Keys \cup StaticKeys
  BY DEF Known, Keys
<1>2. UNION {Call(k) : k \in Known \cup {None}} \subseteq Calls
  BY <1>1 DEF Calls
<1> QED BY <1>2, FormsHave, CallsHave DEF Attempts

\* A configured key has the identity that was configured.
LEMMA StaticIdentity ==
  ASSUME NEW k \in StaticKeys
  PROVE  Identities(k) = {[tenant |-> StaticTenant[k], role |-> StaticRole[k]]}
BY DEF Identities, ResolveStatic

\* Every other key has that of the accounts whose key it is.
LEMMA AccountIdentity ==
  ASSUME TypeOK, NEW k \in Keys \cup {None}, NEW id \in Identities(k)
  PROVE  /\ k \in Keys /\ k \notin StaticKeys /\ id.role = "writer"
         /\ \E e \in Emails : users[e] # None /\ users[e].key = k /\ users[e].tenant = id.tenant
<1>1. k \notin StaticKeys
  BY AccessAssumption DEF Keys
<1>2. Identities(k) = ResolveDb(k)
  BY <1>1 DEF Identities, ResolveStatic
<1>3. PICK e \in Emails : /\ users[e] # None /\ users[e].key = k
                          /\ id = [tenant |-> users[e].tenant, role |-> "writer"]
  BY <1>2 DEF ResolveDb
<1>4. users[e] \in Account
  BY <1>3 DEF TypeOK
<1> QED BY <1>1, <1>3, <1>4 DEF Account

\* The tenant a call is let in with is a tenant, and not None.
LEMMA ScopeTyped ==
  ASSUME TypeOK, NEW a \in Calls, NEW id \in Identities(a.key)
  PROVE  /\ Scope(id.tenant, a.ip) \in TenantIds /\ Scope(id.tenant, a.ip) # None
         /\ id.role \in Roles /\ (id.tenant = DemoTenant => a.ip \in Ips)
<1>1. CASE a.key \in StaticKeys
  <2>1. id.tenant = StaticTenant[a.key] /\ id.role = StaticRole[a.key]
    BY <1>1, StaticIdentity
  <2>2. id.tenant = DemoTenant => a.ip \in Ips
    BY <1>1, <2>1, CallsHave DEF DemoKeys
  <2> QED BY <1>1, <2>1, <2>2, AccessAssumption DEF Scope, TenantIds
<1>2. CASE a.key \notin StaticKeys
  <2>1. a.key \in Keys \cup {None}
    BY <1>2, CallsHave
  <2>2. PICK e \in Emails : users[e] # None /\ users[e].tenant = id.tenant
    BY <2>1, AccountIdentity
  <2>3. id.tenant \in Keys /\ id.role \in Roles
    BY <2>1, <2>2, AccountIdentity DEF TypeOK, Account, Roles
  <2> QED BY <2>3, AccessAssumption DEF Scope, TenantIds, Keys
<1> QED BY <1>1, <1>2

LEMMA InitTyped == Init => TypeOK
<1> SUFFICES ASSUME Init PROVE TypeOK
  OBVIOUS
<1>1. /\ count \in [Counters -> Nat] /\ day \in 0..LastDay /\ date \in [Slots -> 0..LastDay]
      /\ timed \in [Counters -> (0..LastDay) \cup {None}] /\ lapses \in [Counters -> Nat]
  BY AccessAssumption DEF Init
<1> QED BY <1>1, AccessAssumption DEF Init, TypeOK, PC

\* The label of a request, and its answer.
LEMMA GotoTyped ==
  ASSUME TypeOK, NEW r \in Slots, NEW label \in PC, Goto(r, label) PROVE pc' \in [Slots -> PC]
BY DEF TypeOK, Goto

Codes == {0, 200, 201, 401, 403, 409, 422, 429, 500}

LEMMA AnswerTyped ==
  ASSUME TypeOK, NEW r \in Slots, NEW code \in Codes, Answer(r, code)
  PROVE  pc' \in [Slots -> PC] /\ status' \in [Slots -> Codes]
BY DEF TypeOK, Answer, Goto, PC, Codes

LEMMA NextTyped == TypeOK /\ Placed /\ [Next]_vars => TypeOK'
<1> SUFFICES ASSUME TypeOK, Placed, [Next]_vars PROVE TypeOK'
  OBVIOUS
<1> USE DEF requestVars, limitVars, history
<1>1. ASSUME NEW r \in Slots, Begin(r) PROVE TypeOK'
  <2>1. attempt' \in [Slots -> Attempts \cup {None}]
    BY <1>1, Attempted DEF TypeOK, Begin
  <2>2. pc' \in [Slots -> PC] /\ past' \in [Slots -> SUBSET Slots]
    BY <1>1 DEF TypeOK, Begin, Goto, PC
  <2> QED BY <1>1, <2>1, <2>2 DEF TypeOK, Begin
<1>2. ASSUME NEW r \in Slots, Resolve(r) PROVE TypeOK'
  <2>1. attempt[r] \in Calls
    BY <1>2 DEF Placed, PlacedAt, Resolve
  <2>2. tenant' \in [Slots -> TenantIds \cup {None}]
    BY <1>2, <2>1, ScopeTyped DEF TypeOK, Resolve
  <2>3. pc' \in [Slots -> PC] /\ status' \in [Slots -> Codes]
    <3>1. {"count", "work"} \subseteq PC /\ {401, 403} \subseteq Codes
      BY DEF PC, Codes
    <3> QED BY <1>2, <3>1, GotoTyped, AnswerTyped DEF TypeOK, Resolve, Codes
  <2>4. date' \in [Slots -> 0..LastDay]
    BY <1>2 DEF TypeOK, Resolve, ReadDate
  <2> QED BY <1>2, <2>2, <2>3, <2>4 DEF TypeOK, Resolve, Codes
<1>3. ASSUME NEW r \in Slots, Find(r) PROVE TypeOK'
  <2>1. attempt[r] \in Forms /\ attempt[r].email \in Emails
    BY <1>3, FormsHave DEF Placed, PlacedAt, Find
  <2>2. tenant' \in [Slots -> TenantIds \cup {None}]
    BY <1>3, <2>1 DEF TypeOK, Find, Account, TenantIds, Keys
  <2>3. pc' \in [Slots -> PC] /\ status' \in [Slots -> Codes]
    <3>1. "commit" \in PC /\ {401, 409} \subseteq Codes
      BY DEF PC, Codes
    <3> QED BY <1>3, <3>1, GotoTyped, AnswerTyped DEF TypeOK, Find, Codes
  <2> QED BY <1>3, <2>2, <2>3 DEF TypeOK, Find, Codes
<1>4. ASSUME NEW r \in Slots, SignupCommit(r) PROVE TypeOK'
  <2>1. attempt[r].email \in Emails /\ attempt[r].password \in Passwords
    BY <1>4, FormsHave DEF Placed, PlacedAt, SignupCommit
  <2>2. [key |-> r, password |-> attempt[r].password, tenant |-> r] \in Account
    BY <2>1 DEF Account, Keys
  <2>3. users' \in [Emails -> Account \cup {None}] /\ tenant' \in [Slots -> TenantIds \cup {None}]
    BY <1>4, <2>1, <2>2 DEF TypeOK, SignupCommit, TenantIds
  <2>4. pc' \in [Slots -> PC] /\ status' \in [Slots -> Codes]
    BY <1>4, AnswerTyped DEF SignupCommit, Codes
  <2> QED BY <1>4, <2>3, <2>4 DEF TypeOK, SignupCommit, Codes
<1>5. ASSUME NEW r \in Slots, LoginCommit(r) PROVE TypeOK'
  <2>1. attempt[r].email \in Emails
    BY <1>5, FormsHave DEF Placed, PlacedAt, LoginCommit
  <2>2. \A u \in Account : [u EXCEPT !.key = r] \in Account /\ u.key \in Keys
    BY DEF Account, Keys
  <2>3. users' \in [Emails -> Account \cup {None}]
    BY <1>5, <2>1, <2>2 DEF TypeOK, LoginCommit
  <2>4. killer' \in [Keys -> Slots \cup {None}]
    BY <1>5, <2>1, <2>2 DEF TypeOK, LoginCommit
  <2>5. pc' \in [Slots -> PC] /\ status' \in [Slots -> Codes]
    BY <1>5 DEF TypeOK, LoginCommit, Answer, Raise, Goto, PC, Codes
  <2> QED BY <1>5, <2>3, <2>4, <2>5 DEF TypeOK, LoginCommit, Codes
<1>6. ASSUME NEW r \in Slots, NEW k \in Counters, NEW n \in Nat, Admit(r, k, n)
      PROVE  /\ pc' \in [Slots -> PC] /\ status' \in [Slots -> Codes]
             /\ charged' \in [Slots -> Counters \cup {None}]
  BY <1>6 DEF TypeOK, Admit, Answer, Goto, PC, Codes
<1>7. ASSUME NEW r \in Slots, Count(r) PROVE TypeOK'
  <2> DEFINE k == <<attempt[r].ip, date[r], attempt[r].route>>
  <2>1. k \in Counters
    BY <1>7 DEF TypeOK, Placed, PlacedAt, Count, Counters
  <2>2. count[k] + 1 \in Nat
    BY <2>1 DEF TypeOK
  <2>3. count' \in [Counters -> Nat]
    BY <1>7, <2>1, <2>2 DEF TypeOK, Count
  <2>4. /\ pc' \in [Slots -> PC] /\ status' \in [Slots -> Codes]
        /\ charged' \in [Slots -> Counters \cup {None}]
    <3>1. CASE count[k] + 1 = 1
      <4>1. Goto(r, "expire") /\ charged' = [charged EXCEPT ![r] = k] /\ status' = status
        BY <1>7, <3>1 DEF Count
      <4> HIDE DEF k
      <4> QED BY <2>1, <4>1 DEF TypeOK, Goto, PC, Codes
    <3>2. CASE count[k] + 1 # 1
      BY <1>6, <1>7, <2>1, <2>2, <3>2 DEF Count
    <3> QED BY <3>1, <3>2
  <2> QED BY <1>7, <2>3, <2>4 DEF TypeOK, Count, Codes
<1>8. ASSUME NEW r \in Slots, Expire(r) PROVE TypeOK'
  <2>1. charged[r] \in Counters
    BY <1>8 DEF Placed, PlacedAt, Expire
  <2>2. /\ pc' \in [Slots -> PC] /\ status' \in [Slots -> Codes]
        /\ charged' \in [Slots -> Counters \cup {None}]
    BY <1>6, <1>8, <2>1 DEF Expire
  <2>3. timed' \in [Counters -> (0..LastDay) \cup {None}]
    BY <1>8, <2>1 DEF TypeOK, Expire
  <2> QED BY <1>8, <2>1, <2>2, <2>3 DEF TypeOK, Expire, Codes
<1>9. CASE Midnight
  <2>1. day' \in 0..LastDay
    BY <1>9, AccessAssumption DEF TypeOK, Midnight
  <2> QED BY <1>9, <2>1 DEF TypeOK, Midnight
<1>15. ASSUME NEW k \in Counters, Lapse(k) PROVE TypeOK'
  <2>1. /\ count' \in [Counters -> Nat] /\ lapses' \in [Counters -> Nat]
        /\ timed' \in [Counters -> (0..LastDay) \cup {None}]
    BY <1>15 DEF TypeOK, Lapse
  <2> QED BY <1>15, <2>1 DEF TypeOK, Lapse
<1>10. ASSUME NEW r \in Slots, Refuse(r) \/ Ingest(r) PROVE TypeOK'
  BY <1>10 DEF TypeOK, Refuse, Ingest, Answer, Goto, PC
<1>11. ASSUME NEW r \in Slots, ReadRows(r) PROVE TypeOK'
  <2>1. Read(IF attempt[r].route = "audit" THEN trail ELSE rows, tenant[r]) \subseteq Slots
    BY DEF TypeOK, Read
  <2>2. seen' \in [Slots -> SUBSET Slots]
    BY <1>11, <2>1 DEF TypeOK, ReadRows
  <2> QED BY <1>11, <2>2 DEF TypeOK, ReadRows, Answer, Goto, PC
<1>12. ASSUME NEW r \in Slots, Erase(r) PROVE TypeOK'
  <2>1. /\ users' \in [Emails -> Account \cup {None}] /\ rows' \subseteq Slots
        /\ killer' \in [Keys -> Slots \cup {None}]
    BY <1>12 DEF TypeOK, Erase
  <2> QED BY <1>12, <2>1 DEF TypeOK, Erase, Answer, Goto, PC
<1>13. ASSUME NEW r \in Slots, Audit(r) \/ Break(r) \/ AuditFails(r) PROVE TypeOK'
  BY <1>13 DEF TypeOK, Audit, Break, AuditFails, Raise, Goto, PC
<1>14. CASE UNCHANGED vars
  BY <1>14 DEF TypeOK, vars
<1> QED BY <1>1, <1>2, <1>3, <1>4, <1>5, <1>7, <1>8, <1>9, <1>10, <1>11, <1>12, <1>13, <1>14,
           <1>15 DEF Next

-----------------------------------------------------------------------------
(***************************************************************************)
(* What a step leaves alone.                                               *)
(***************************************************************************)

\* Of the requests, only r takes part in the step.
Alone(r) ==
  \A x \in Slots \ {r} :
    /\ pc'[x] = pc[x] /\ attempt'[x] = attempt[x] /\ tenant'[x] = tenant[x]
    /\ status'[x] = status[x] /\ seen'[x] = seen[x] /\ charged'[x] = charged[x]
    /\ past'[x] = past[x]

Answers(r) == Resolve(r) \/ Find(r) \/ SignupCommit(r) \/ LoginCommit(r) \/ Count(r) \/ Expire(r)
Works(r)   == Refuse(r) \/ Ingest(r) \/ ReadRows(r) \/ Erase(r)
Ends(r)    == Audit(r) \/ Break(r) \/ AuditFails(r)
Step(r)    == Begin(r) \/ Answers(r) \/ Works(r) \/ Ends(r)

Idle == UNCHANGED <<requestVars, charged, users, rows, trail, unwritten, past, killer>>

LEMMA OneActs == [Next]_vars => (\E r \in Slots : Step(r)) \/ Idle
BY DEF Next, Answers, Works, Ends, Step, Lapse, Midnight, vars, requestVars, limitVars, history, Idle

LEMMA StepAlone ==
  ASSUME TypeOK, NEW r \in Slots, Step(r) PROVE Alone(r)
<1> USE DEF TypeOK, Alone, requestVars, limitVars, history, Goto, Answer, Raise
<1>1. CASE Begin(r)
  BY <1>1 DEF Begin
<1>2. CASE Resolve(r)
  BY <1>2 DEF Resolve
<1>3. CASE Find(r)
  BY <1>3 DEF Find
<1>4. CASE SignupCommit(r) \/ LoginCommit(r)
  BY <1>4 DEF SignupCommit, LoginCommit
<1>5. CASE Count(r)
  BY <1>5 DEF Count, Admit
<1>6. CASE Expire(r)
  BY <1>6 DEF Expire, Admit
<1>7. CASE Works(r)
  BY <1>7 DEF Works, Refuse, Ingest, ReadRows, Erase
<1>8. CASE Ends(r)
  BY <1>8 DEF Ends, Audit, Break, AuditFails
<1> QED BY <1>1, <1>2, <1>3, <1>4, <1>5, <1>6, <1>7, <1>8 DEF Step, Answers

\* The request that takes part has not ended, and only Begin gives it something
\* to ask for; what it did is fixed when it is answered.
LEMMA ActorKeeps ==
  ASSUME TypeOK, Placed, NEW r \in Slots, Step(r)
  PROVE  /\ pc[r] # "over" /\ pc'[r] # "new"
         /\ pc[r] # "new" => attempt'[r] = attempt[r] /\ past'[r] = past[r]
         /\ Answered(r) => /\ pc'[r] = "over" /\ tenant'[r] = tenant[r]
                           /\ seen'[r] = seen[r] /\ charged'[r] = charged[r]
                           /\ status'[r] \in {status[r], 500}
<1> USE DEF TypeOK, requestVars, limitVars, history, Goto, Answer, Raise, Answered
<1>1. CASE Begin(r)
  BY <1>1 DEF Begin
<1>2. CASE Resolve(r)
  BY <1>2 DEF Resolve
<1>3. CASE Find(r)
  BY <1>3 DEF Find
<1>4. CASE SignupCommit(r) \/ LoginCommit(r)
  BY <1>4 DEF SignupCommit, LoginCommit
<1>5. CASE Count(r)
  BY <1>5 DEF Count, Admit
<1>6. CASE Expire(r)
  BY <1>6 DEF Expire, Admit
<1>7. CASE Works(r)
  BY <1>7 DEF Works, Refuse, Ingest, ReadRows, Erase
<1>8. CASE Ends(r)
  BY <1>8 DEF Ends, Audit, Break, AuditFails
<1> QED BY <1>1, <1>2, <1>3, <1>4, <1>5, <1>6, <1>7, <1>8 DEF Step, Answers

\* What no step changes in a request that began, was answered, or is over.
Kept(x) ==
  /\ pc'[x] = "new" => pc[x] = "new"
  /\ pc[x] # "new" => pc'[x] # "new" /\ attempt'[x] = attempt[x] /\ past'[x] = past[x]
  /\ Answered(x) => /\ Answered(x)' /\ tenant'[x] = tenant[x] /\ seen'[x] = seen[x]
                    /\ charged'[x] = charged[x] /\ status'[x] \in {status[x], 500}
  /\ pc[x] = "over" => pc'[x] = "over" /\ status'[x] = status[x]

LEMMA AllKept ==
  ASSUME TypeOK, Placed, [Next]_vars PROVE \A x \in Slots : Kept(x)
<1>1. CASE Idle
  BY <1>1 DEF Idle, requestVars, Kept, Answered
<1>2. ASSUME NEW r \in Slots, Step(r), NEW x \in Slots PROVE Kept(x)
  <2>1. CASE x = r
    BY <1>2, <2>1, ActorKeeps DEF Kept, Answered
  <2>2. CASE x # r
    <3>1. /\ pc'[x] = pc[x] /\ attempt'[x] = attempt[x] /\ tenant'[x] = tenant[x]
          /\ status'[x] = status[x] /\ seen'[x] = seen[x] /\ charged'[x] = charged[x]
          /\ past'[x] = past[x]
      BY <1>2, <2>2, StepAlone DEF Alone
    <3> QED BY <3>1 DEF Kept, Answered
  <2> QED BY <2>1, <2>2
<1> QED BY <1>1, <1>2, OneActs

-----------------------------------------------------------------------------
(***************************************************************************)
(* Where requests stand.                                                   *)
(***************************************************************************)

LEMMA InitPlaced == Init => Placed
BY DEF Init, Placed, PlacedAt, Answered

LEMMA ActorPlaced ==
  ASSUME TypeOK, Placed, NEW r \in Slots, Step(r)
  PROVE  /\ pc'[r] # "new" => attempt'[r] \in Attempts
         /\ pc'[r] \in {"find", "commit"} => attempt'[r] \in Forms
         /\ pc'[r] \in {"resolve", "count", "expire", "work"} => attempt'[r] \in Calls
         /\ pc'[r] = "count" => attempt'[r].ip \in Ips /\ attempt'[r].route \in {"ingest", "search"}
         /\ pc'[r] \in {"new", "find", "resolve"} => tenant'[r] = None
         /\ pc'[r] \in {"new", "find", "commit", "resolve", "count"} => charged'[r] = None
         /\ pc'[r] = "expire" => charged'[r] \in Counters
         /\ ~Answered(r)' => status'[r] = 0 /\ seen'[r] = {}
         /\ past'[r] \subseteq {x \in Slots : pc[x] = "over"}
<1> USE DEF requestVars, limitVars, history, Goto, Answer, Raise, Answered
<1>0. PlacedAt(r)
  BY DEF Placed
<1>1. CASE Begin(r)
  <2>1. PICK a \in Forms \cup UNION {Call(k) : k \in Known \cup {None}} :
          attempt' = [attempt EXCEPT ![r] = a] /\ Goto(r, IF a.op = "call" THEN "resolve" ELSE "find")
    BY <1>1 DEF Begin
  <2>2. a \in Attempts /\ (a.op = "call" <=> a \in Calls) /\ (a.op # "call" <=> a \in Forms)
    BY <2>1, Attempted
  <2> QED BY <1>0, <1>1, <2>1, <2>2 DEF TypeOK, PlacedAt, Begin
<1>2. CASE Resolve(r)
  <2>1. attempt[r] \in Calls
    BY <1>0, <1>2 DEF PlacedAt, Resolve
  <2>2. \A id \in Identities(attempt[r].key) :
          id.tenant = DemoTenant => attempt[r].ip \in Ips
    BY <2>1, ScopeTyped
  <2> QED BY <1>0, <1>2, <2>1, <2>2 DEF TypeOK, PlacedAt, Resolve
<1>3. CASE Find(r)
  BY <1>0, <1>3 DEF TypeOK, PlacedAt, Find
<1>4. CASE SignupCommit(r) \/ LoginCommit(r)
  BY <1>0, <1>4 DEF TypeOK, PlacedAt, SignupCommit, LoginCommit
<1>5. CASE Count(r)
  <2>1. <<attempt[r].ip, date[r], attempt[r].route>> \in Counters
    BY <1>0, <1>5 DEF TypeOK, PlacedAt, Count, Counters
  <2>2. \/ pc'[r] = "expire" /\ charged'[r] \in Counters /\ status' = status
        \/ pc'[r] = "work" /\ status' = status
        \/ pc'[r] = "audit"
    <3> DEFINE k == <<attempt[r].ip, date[r], attempt[r].route>>
    <3>1. CASE count[k] + 1 = 1
      <4>1. Goto(r, "expire") /\ charged' = [charged EXCEPT ![r] = k] /\ status' = status
        BY <1>5, <3>1 DEF Count
      <4> HIDE DEF k
      <4> QED BY <2>1, <4>1 DEF TypeOK, k
    <3>2. CASE count[k] + 1 # 1
      <4>1. Admit(r, k, count[k] + 1)
        BY <1>5, <3>2 DEF Count
      <4> HIDE DEF k
      <4> QED BY <4>1 DEF TypeOK, Admit
    <3> QED BY <3>1, <3>2
  <2> QED BY <1>0, <1>5, <2>2 DEF TypeOK, PlacedAt, Count
<1>6. CASE Expire(r)
  BY <1>0, <1>6 DEF TypeOK, PlacedAt, Expire, Admit
<1>7. CASE Works(r)
  BY <1>0, <1>7 DEF TypeOK, PlacedAt, Works, Refuse, Ingest, ReadRows, Erase
<1>8. CASE Ends(r)
  BY <1>0, <1>8 DEF TypeOK, PlacedAt, Ends, Audit, Break, AuditFails
<1> QED BY <1>1, <1>2, <1>3, <1>4, <1>5, <1>6, <1>7, <1>8 DEF Step, Answers

LEMMA NextPlaced ==
  ASSUME TypeOK, Placed, [Next]_vars PROVE Placed'
<1>1. ASSUME NEW x \in Slots, past'[x] \subseteq {y \in Slots : pc[y] = "over"}
      PROVE  past'[x] \subseteq {y \in Slots : pc'[y] = "over"}
  BY <1>1, AllKept DEF Kept
<1>2. CASE Idle
  BY <1>2 DEF Idle, requestVars, Placed, PlacedAt, Answered
<1>3. ASSUME NEW r \in Slots, Step(r), NEW x \in Slots PROVE PlacedAt(x)'
  <2>1. CASE x = r
    BY <1>1, <1>3, <2>1, ActorPlaced DEF PlacedAt
  <2>2. CASE x # r
    <3>1. /\ pc'[x] = pc[x] /\ attempt'[x] = attempt[x] /\ tenant'[x] = tenant[x]
          /\ status'[x] = status[x] /\ seen'[x] = seen[x] /\ charged'[x] = charged[x]
          /\ past'[x] = past[x]
      BY <1>3, <2>2, StepAlone DEF Alone
    <3>2. PlacedAt(x)
      BY DEF Placed
    <3> QED BY <1>1, <3>1, <3>2 DEF PlacedAt, Answered
  <2> QED BY <2>1, <2>2
<1> QED BY <1>2, <1>3, OneActs DEF Placed

-----------------------------------------------------------------------------
(***************************************************************************)
(* Accounts and their keys.                                                *)
(***************************************************************************)

\* Two accounts have no key in common.
LEMMA KeysApart ==
  ASSUME TypeOK, KeysNamed, NEW e \in Emails, users[e] # None
  PROVE  /\ users[e] \in Account /\ users[e].key \in Keys
         /\ \A d \in Emails : users[d] # None /\ users[d].key = users[e].key => d = e
<1>1. \A d \in Emails : users[d] # None => users[d] \in Account /\ users[d].key \in Slots \cup Emails
  BY DEF TypeOK, Account, Keys
<1> QED BY <1>1 DEF KeysNamed, KeyNamed, Keys

\* Only signup, login and erasure touch accounts.
LEMMA ElseAccountsKept ==
  ASSUME [Next]_vars, \A r \in Slots : ~SignupCommit(r) /\ ~LoginCommit(r) /\ ~Erase(r)
  PROVE  users' = users /\ killer' = killer
<1>1. CASE Idle
  BY <1>1 DEF Idle
<1>2. ASSUME NEW r \in Slots, Step(r) PROVE users' = users /\ killer' = killer
  BY <1>2 DEF Step, Answers, Works, Ends, Begin, Resolve, Find, Count, Expire, Refuse, Ingest,
              ReadRows, Audit, Break, AuditFails, history
<1> QED BY <1>1, <1>2, OneActs

\* A key is ended by a request that is not over yet.
LEMMA KillerActs ==
  ASSUME TypeOK, Placed, [Next]_vars, NEW k \in Keys, killer'[k] # killer[k]
  PROVE  killer'[k] \in Slots /\ pc[killer'[k]] \in {"commit", "work"}
<1>1. PICK r \in Slots : SignupCommit(r) \/ LoginCommit(r) \/ Erase(r)
  BY ElseAccountsKept
<1>2. CASE SignupCommit(r)
  BY <1>2 DEF SignupCommit, history
<1>3. CASE LoginCommit(r)
  BY <1>3 DEF LoginCommit, TypeOK
<1>4. CASE Erase(r)
  BY <1>4 DEF Erase, TypeOK
<1> QED BY <1>1, <1>2, <1>3, <1>4

LEMMA KeyStays ==
  ASSUME TypeOK, Placed, [Next]_vars, NEW e \in Emails, KeyNamed(e),
         users'[e] = users[e], users[e] # None => killer'[users[e].key] = killer[users[e].key]
  PROVE  KeyNamed(e)'
<1> SUFFICES ASSUME users[e] # None PROVE KeyNamed(e)'
  BY DEF KeyNamed
<1>1. users[e].key \in Keys
  BY DEF TypeOK, Account
<1>2. users[e].key \in Slots => Kept(users[e].key)
  BY AllKept
<1> QED BY <1>1, <1>2 DEF KeyNamed, Kept, Answered

LEMMA InitKeys == Init => KeysNamed
BY AccessAssumption DEF Init, KeysNamed, KeyNamed, EndedAnswered, KeyOver, Account, Keys

LEMMA NextKeyNamed ==
  ASSUME TypeOK, Placed, KeysNamed, [Next]_vars, NEW e \in Emails PROVE KeyNamed(e)'
<1>0. KeyNamed(e)
  BY DEF KeysNamed
<1>1. CASE \A r \in Slots : ~SignupCommit(r) /\ ~LoginCommit(r) /\ ~Erase(r)
  BY <1>0, <1>1, ElseAccountsKept, KeyStays
<1>2. ASSUME NEW r \in Slots, SignupCommit(r) PROVE KeyNamed(e)'
  <2>1. attempt[r] \in Forms /\ attempt[r].email \in Emails /\ r \notin Emails
    BY <1>2, FormsHave, AccessAssumption DEF Placed, PlacedAt, SignupCommit
  <2>2. killer' = killer /\ attempt' = attempt
    BY <1>2 DEF SignupCommit, history
  <2>3. CASE users[attempt[r].email] = None /\ e = attempt[r].email
    <3>1. /\ users'[e] = [key |-> r, password |-> attempt[r].password, tenant |-> r]
          /\ tenant'[r] = r /\ pc'[r] = "audit"
      BY <1>2, <2>1, <2>3 DEF SignupCommit, EmailFree, Answer, Goto, TypeOK
    <3>2. killer[r] = None
      BY <1>2 DEF KeysNamed, EndedAnswered, Answered, SignupCommit
    <3> QED BY <2>1, <2>2, <2>3, <3>1, <3>2 DEF KeyNamed, Answered
  <2>4. CASE users[attempt[r].email] # None \/ e # attempt[r].email
    <3>1. users'[e] = users[e]
      BY <1>2, <2>1, <2>4 DEF SignupCommit, EmailFree, TypeOK
    <3> QED BY <1>0, <2>2, <3>1, KeyStays
  <2> QED BY <2>3, <2>4
<1>3. ASSUME NEW r \in Slots, LoginCommit(r) PROVE KeyNamed(e)'
  <2> DEFINE d == attempt[r].email
  <2>1. attempt[r] \in Forms /\ d \in Emails /\ r \notin Emails
    BY <1>3, FormsHave, AccessAssumption DEF Placed, PlacedAt, LoginCommit
  <2>2. CASE users[d] = None \/ users[d].tenant # tenant[r]
    BY <1>0, <1>3, <2>2, KeyStays DEF LoginCommit
  <2>3. CASE users[d] # None /\ users[d].tenant = tenant[r]
    <3>1. /\ users' = [users EXCEPT ![d] = [users[d] EXCEPT !.key = r]]
          /\ killer' = [killer EXCEPT ![users[d].key] = r]
          /\ attempt' = attempt /\ tenant' = tenant /\ pc'[r] = "audit"
      BY <1>3, <2>1, <2>3 DEF LoginCommit, Answer, Goto, TypeOK
    <3>2. users[d] \in Account /\ users[d].key \in Keys
      BY <2>1, <2>3, KeysApart
    <3>3. CASE e = d
      <4>1. users'[e].key = r /\ users'[e].tenant = users[d].tenant
        BY <2>1, <3>1, <3>2, <3>3 DEF TypeOK, Account
      <4>2. killer[r] = None /\ users[d].key # r
        BY <1>3, <2>1, <2>3 DEF KeysNamed, KeyNamed, EndedAnswered, Answered, LoginCommit
      <4>3. killer'[r] = None
        BY <3>1, <4>2 DEF TypeOK, Keys
      <4> QED BY <2>1, <2>3, <3>1, <3>3, <4>1, <4>3 DEF KeyNamed, Answered
    <3>4. CASE e # d
      <4>1. users'[e] = users[e]
        BY <2>1, <3>1, <3>4 DEF TypeOK
      <4>2. users[e] # None => users[e].key \in Keys /\ users[e].key # users[d].key
        BY <2>1, <2>3, <3>4, KeysApart
      <4>3. users[e] # None => killer'[users[e].key] = killer[users[e].key]
        BY <3>1, <4>2 DEF TypeOK
      <4> QED BY <1>0, <4>1, <4>3, KeyStays
    <3> QED BY <3>3, <3>4
  <2> QED BY <2>2, <2>3
<1>4. ASSUME NEW r \in Slots, Erase(r) PROVE KeyNamed(e)'
  <2> DEFINE gone == {d \in Emails : users[d] # None /\ users[d].tenant = tenant[r]}
  <2>1. users'[e] = IF e \in gone THEN None ELSE users[e]
    BY <1>4 DEF Erase
  <2>2. CASE e \in gone \/ users[e] = None
    BY <2>1, <2>2 DEF KeyNamed
  <2>3. CASE e \notin gone /\ users[e] # None
    <3>1. users[e].key \in Keys /\ users[e].key \notin {users[d].key : d \in gone}
      BY <2>3, KeysApart
    <3>2. killer'[users[e].key] = killer[users[e].key]
      BY <1>4, <3>1 DEF Erase
    <3> QED BY <1>0, <2>1, <2>3, <3>2, KeyStays
  <2> QED BY <2>2, <2>3
<1> QED BY <1>1, <1>2, <1>3, <1>4

LEMMA NextKeys ==
  ASSUME TypeOK, Placed, KeysNamed, [Next]_vars PROVE KeysNamed'
<1>1. ASSUME NEW k \in Slots, killer'[k] # None PROVE Answered(k)'
  <2>1. CASE killer'[k] = killer[k]
    BY <1>1, <2>1, AllKept DEF KeysNamed, EndedAnswered, Kept
  <2>2. CASE killer'[k] # killer[k]
    <3>1. PICK r \in Slots : SignupCommit(r) \/ LoginCommit(r) \/ Erase(r)
      BY <2>2, ElseAccountsKept
    <3>2. PICK e \in Emails : users[e] # None /\ users[e].key = k
      <4>1. CASE SignupCommit(r)
        BY <2>2, <4>1 DEF SignupCommit, history
      <4>2. CASE LoginCommit(r)
        <5>1. attempt[r].email \in Emails
          BY <4>2, FormsHave DEF Placed, PlacedAt, LoginCommit
        <5> QED BY <2>2, <4>2, <5>1 DEF LoginCommit, TypeOK, Keys
      <4>3. CASE Erase(r)
        BY <2>2, <4>3 DEF Erase, Keys
      <4> QED BY <3>1, <4>1, <4>2, <4>3
    <3> QED BY <3>2, AllKept DEF KeysNamed, KeyNamed, Kept
  <2> QED BY <2>1, <2>2
<1>2. ASSUME NEW r \in Slots PROVE KeyOver(r)'
  <2>1. CASE pc[r] # "new"
    <3>1. Kept(r) /\ KeyOver(r)
      BY AllKept DEF KeysNamed
    <3>2. attempt[r].key \in Slots => Kept(attempt[r].key)
      BY AllKept
    <3> QED BY <2>1, <3>1, <3>2 DEF KeyOver, Kept
  <2>2. CASE pc[r] = "new" /\ pc'[r] = "new"
    BY <2>2 DEF KeyOver
  <2>3. CASE pc[r] = "new" /\ pc'[r] # "new"
    <3>1. Begin(r)
      <4>1. ~Idle
        BY <2>3 DEF Idle, requestVars
      <4>2. PICK x \in Slots : Step(x)
        BY <4>1, OneActs
      <4>3. x = r
        BY <2>3, <4>2, StepAlone DEF Alone
      <4>4. Step(r)
        BY <4>2, <4>3
      <4> QED BY <2>3, <4>4 DEF Step, Answers, Works, Ends, Resolve, Find, SignupCommit,
            LoginCommit, Count, Expire, Refuse, Ingest, ReadRows, Erase, Audit, Break, AuditFails
    <3>2. PICK a \in Forms \cup UNION {Call(k) : k \in Known \cup {None}} :
            attempt' = [attempt EXCEPT ![r] = a]
      BY <3>1 DEF Begin
    <3>3. attempt'[r] = a
      BY <3>2 DEF TypeOK
    <3>4. CASE a \in Forms
      BY <3>3, <3>4, FormsHave, CallsHave DEF KeyOver
    <3>5. ASSUME NEW k \in Known \cup {None}, a \in Call(k), a.key \in Slots
          PROVE  pc[a.key] = "over" /\ attempt[a.key] \in Forms
      <4>1. a.key \in Known /\ a.key \notin StaticKeys \cup Emails
        BY <3>5, AccessAssumption DEF Call, TenantIds
      <4>2. pc[a.key] = "over" /\ attempt[a.key].op # "call"
        BY <4>1 DEF Known
      <4>3. attempt[a.key] \in Attempts
        BY <3>5, <4>2 DEF Placed, PlacedAt
      <4> QED BY <4>2, <4>3, Attempted
    <3>6. a.key \in Slots => Kept(a.key)
      BY AllKept
    <3> QED BY <3>2, <3>3, <3>4, <3>5, <3>6 DEF KeyOver, Kept
  <2> QED BY <2>1, <2>2, <2>3
<1> QED BY <1>1, <1>2, NextKeyNamed DEF KeysNamed, EndedAnswered

-----------------------------------------------------------------------------
(***************************************************************************)
(* Whose memory a call is about.                                           *)
(***************************************************************************)

\* Once a call has begun, or a signup is answered, its owner is settled.
LEMMA OwnerKept ==
  ASSUME TypeOK, Placed, KeysNamed, [Next]_vars, NEW r \in Slots,
         Answered(r) \/ (pc[r] # "new" /\ attempt[r] \in Calls)
  PROVE  Owner(r)' = Owner(r)
<1>1. pc[r] # "new" /\ attempt'[r] = attempt[r] /\ attempt[r] \in Attempts
  BY AllKept DEF Kept, Answered, Placed, PlacedAt
<1>2. CASE attempt[r].op = "call"
  <2>1. attempt[r] \in Calls /\ KeyOver(r)
    BY <1>1, <1>2, Attempted DEF KeysNamed
  <2>2. attempt[r].key \in Slots => tenant'[attempt[r].key] = tenant[attempt[r].key]
    BY <1>1, <2>1, AllKept DEF KeyOver, Kept, Answered
  <2> QED BY <1>1, <1>2, <2>2 DEF Owner
<1>3. CASE attempt[r].op # "call"
  <2>1. Answered(r)
    BY <1>1, <1>3, Attempted
  <2>2. tenant'[r] = tenant[r]
    BY <2>1, AllKept DEF Kept
  <2> QED BY <1>1, <1>3, <2>2 DEF Owner
<1> QED BY <1>2, <1>3

\* The identity of a key, in the scope of the caller, is that owner.
LEMMA ScopeOwns ==
  ASSUME TypeOK, Placed, KeysNamed, NEW r \in Slots, pc[r] = "resolve",
         NEW id \in Identities(attempt[r].key)
  PROVE  /\ attempt[r] \in Calls /\ Scope(id.tenant, attempt[r].ip) = Owner(r)
         /\ attempt[r].key \in Keys => killer[attempt[r].key] = None
<1> DEFINE k == attempt[r].key
<1>1. attempt[r] \in Calls /\ attempt[r].op = "call" /\ k \in Keys \cup StaticKeys \cup {None}
  BY CallsHave DEF Placed, PlacedAt
<1>2. CASE k \in StaticKeys
  <2>1. id.tenant = StaticTenant[k]
    BY <1>2, StaticIdentity
  <2>2. k \notin Keys
    BY <1>2, AccessAssumption DEF Keys
  <2> QED BY <1>1, <1>2, <2>1, <2>2 DEF Owner, Scope, Visitor
<1>3. CASE k \notin StaticKeys
  <2>1. k \in Keys
    BY <1>1, <1>3, AccountIdentity
  <2>2. PICK e \in Emails : users[e] # None /\ users[e].key = k /\ users[e].tenant = id.tenant
    BY <1>1, <1>3, AccountIdentity
  <2>3. KeyNamed(e)
    BY DEF KeysNamed
  <2>4. users[e].tenant \in Keys
    BY <2>2 DEF TypeOK, Account
  <2>5. Scope(id.tenant, attempt[r].ip) = id.tenant
    BY <2>2, <2>4, AccessAssumption DEF Scope, Keys
  <2>6. CASE k \in Slots
    BY <1>1, <1>3, <2>2, <2>3, <2>5, <2>6 DEF KeyNamed, Owner
  <2>7. CASE k \in Emails
    BY <1>1, <1>3, <2>2, <2>3, <2>5, <2>7, AccessAssumption DEF KeyNamed, Owner
  <2> QED BY <2>1, <2>6, <2>7 DEF Keys
<1> QED BY <1>1, <1>2, <1>3

\* The tenant of a call is set once, when its key is resolved.
LEMMA TenantSet ==
  ASSUME TypeOK, Placed, [Next]_vars, NEW r \in Slots, pc[r] # "new", attempt[r] \in Calls
  PROVE  (tenant'[r] = tenant[r] /\ (LetIn(r)' => LetIn(r))) \/ (Resolve(r) /\ pc[r] = "resolve")
<1>1. Kept(r)
  BY AllKept
<1>2. CASE \E x \in Slots : x # r /\ Step(x)
  BY <1>2, StepAlone DEF Alone, LetIn, Answered
<1>3. CASE Idle
  BY <1>3 DEF Idle, requestVars, LetIn, Answered
<1>4. CASE Step(r) /\ ~Answered(r)
  <2>1. pc[r] \notin {"find", "commit"}
    BY FormsHave, CallsHave DEF Placed, PlacedAt
  <2>2. CASE Resolve(r)
    BY <2>2 DEF Resolve
  <2>3. CASE Count(r)
    BY <2>3 DEF Count, LetIn
  <2>4. CASE Expire(r)
    BY <2>4 DEF Expire, LetIn
  <2>5. CASE Works(r)
    BY <2>5 DEF Works, Refuse, Ingest, ReadRows, Erase, LetIn
  <2>6. CASE Break(r)
    <3>1. tenant' = tenant /\ pc'[r] = "over" /\ status'[r] = 500
      BY <2>6 DEF Break, Raise, Goto, TypeOK
    <3> QED BY <3>1 DEF LetIn, Answered
  <2> QED BY <1>4, <2>1, <2>2, <2>3, <2>4, <2>5, <2>6
        DEF Step, Answers, Ends, Begin, Find, SignupCommit, LoginCommit, Audit, AuditFails, Answered
<1>5. CASE Step(r) /\ Answered(r)
  BY <1>1, <1>5, ActorKeeps DEF Kept, LetIn, Answered
<1> QED BY <1>2, <1>3, <1>4, <1>5, OneActs

LEMMA InitOwnTenant == Init => OwnTenant
BY DEF Init, OwnTenant, OwnTenantAt, LetIn, Answered

LEMMA NextOwnTenant ==
  ASSUME TypeOK, Placed, KeysNamed, OwnTenant, [Next]_vars PROVE OwnTenant'
<1> SUFFICES ASSUME NEW r \in Slots PROVE OwnTenantAt(r)'
  BY DEF OwnTenant
<1>1. Kept(r) /\ OwnTenantAt(r)
  BY AllKept DEF OwnTenant
<1>2. CASE pc'[r] = "new"
  BY <1>2 DEF OwnTenantAt, LetIn
<1>3. CASE pc'[r] # "new" /\ pc[r] = "new"
  <2>1. PICK x \in Slots : Step(x)
    <3>1. ~Idle
      BY <1>3 DEF Idle, requestVars
    <3> QED BY <3>1, OneActs
  <2>2. x = r
    BY <1>3, <2>1, StepAlone DEF Alone
  <2>3. Step(r)
    BY <2>1, <2>2
  <2>4. Begin(r)
    BY <1>3, <2>3 DEF Step, Answers, Works, Ends, Resolve, Find, SignupCommit,
          LoginCommit, Count, Expire, Refuse, Ingest, ReadRows, Erase, Audit, Break, AuditFails
  <2>5. tenant'[r] = None /\ pc'[r] \in {"resolve", "find"}
    BY <1>3, <2>4 DEF Begin, Goto, TypeOK, Placed, PlacedAt
  <2> QED BY <2>5 DEF OwnTenantAt, LetIn, Answered
<1>4. CASE pc[r] # "new" /\ attempt[r] \notin Calls
  BY <1>1, <1>4 DEF OwnTenantAt, Kept, LetIn
<1>5. CASE pc[r] # "new" /\ attempt[r] \in Calls
  <2>1. attempt'[r] = attempt[r] /\ past'[r] = past[r] /\ Owner(r)' = Owner(r)
    BY <1>1, <1>5, OwnerKept DEF Kept
  <2>2. attempt[r].key \in Keys /\ killer[attempt[r].key] \notin past[r] =>
          killer'[attempt[r].key] \notin past[r]
    <3>1. past[r] \subseteq {x \in Slots : pc[x] = "over"}
      BY DEF Placed, PlacedAt
    <3> QED BY <3>1, KillerActs
  <2>3. CASE tenant'[r] = tenant[r] /\ (LetIn(r)' => LetIn(r))
    BY <1>1, <1>5, <2>1, <2>2, <2>3 DEF OwnTenantAt
  <2>4. CASE Resolve(r) /\ pc[r] = "resolve"
    <3>1. CASE Identities(attempt[r].key) = {}
      <4>1. tenant' = tenant /\ pc'[r] = "audit" /\ status'[r] = 401
        BY <2>4, <3>1 DEF Resolve, Answer, Goto, TypeOK
      <4> QED BY <1>1, <1>5, <2>1, <4>1 DEF OwnTenantAt, LetIn, Answered
    <3>2. CASE Identities(attempt[r].key) # {}
      <4>1. PICK id \in Identities(attempt[r].key) :
              tenant' = [tenant EXCEPT ![r] = Scope(id.tenant, attempt[r].ip)]
        BY <2>4, <3>2 DEF Resolve
      <4>2. tenant'[r] = Owner(r) /\ tenant'[r] # None
        BY <1>5, <2>4, <4>1, ScopeOwns, ScopeTyped DEF TypeOK
      <4>3. attempt[r].key \in Keys => killer[attempt[r].key] \notin past[r]
        <5>1. attempt[r].key \in Keys => killer[attempt[r].key] = None
          BY <2>4, <4>1, ScopeOwns
        <5>2. None \notin past[r]
          BY AccessAssumption DEF TypeOK, TenantIds
        <5> QED BY <5>1, <5>2
      <4> QED BY <2>1, <2>2, <4>2, <4>3 DEF OwnTenantAt
    <3> QED BY <3>1, <3>2
  <2> QED BY <1>5, <2>3, <2>4, TenantSet
<1> QED BY <1>2, <1>3, <1>4, <1>5

LEMMA NextKeysEnd ==
  ASSUME TypeOK, Placed, KeysNamed, KeysEnd, [Next]_vars PROVE KeysEnd'
<1> SUFFICES ASSUME NEW r \in Slots, Served(r)', attempt'[r] \in Forms PROVE KeyEnd(r)'
  BY DEF KeysEnd, KeyEnd
<1>1. Kept(r) /\ KeyEnd(r)
  BY AllKept DEF KeysEnd
<1>2. CASE Answered(r)
  <2>1. attempt'[r] = attempt[r] /\ past'[r] = past[r] /\ Served(r)
    BY <1>1, <1>2 DEF Kept, Served, Answered
  <2>2. attempt[r].email \in Emails /\ r \in Keys
    BY <2>1, FormsHave DEF Keys
  <2> DEFINE e == attempt[r].email
  <2>3. killer'[r] # killer[r] => killer'[r] # None /\ killer'[r] \notin past[r]
    <3>1. past[r] \subseteq {x \in Slots : pc[x] = "over"} /\ None \notin Slots
      BY AccessAssumption DEF Placed, PlacedAt, TenantIds
    <3> QED BY <2>2, <3>1, KillerActs
  <2>4. users[e] # None /\ users[e].key = r => users'[e] = users[e] \/ killer'[r] # killer[r]
    <3> SUFFICES ASSUME users[e] # None, users[e].key = r, users'[e] # users[e]
                 PROVE  killer'[r] # killer[r]
      OBVIOUS
    <3>0. killer[r] = None
      BY <2>2 DEF KeysNamed, KeyNamed
    <3>1. PICK x \in Slots : SignupCommit(x) \/ LoginCommit(x) \/ Erase(x)
      BY ElseAccountsKept
    <3>2. x # None
      BY AccessAssumption DEF TenantIds
    <3>3. CASE SignupCommit(x)
      BY <2>2, <3>3 DEF SignupCommit, EmailFree, TypeOK
    <3>4. CASE LoginCommit(x)
      <4>1. attempt[x].email \in Emails
        BY <3>4, FormsHave DEF Placed, PlacedAt, LoginCommit
      <4> QED BY <2>2, <3>0, <3>2, <3>4, <4>1 DEF LoginCommit, TypeOK
    <3>5. CASE Erase(x)
      BY <2>2, <3>0, <3>2, <3>5 DEF Erase
    <3> QED BY <3>1, <3>3, <3>4, <3>5
  <2> QED BY <1>1, <2>1, <2>3, <2>4 DEF KeyEnd
<1>3. CASE ~Answered(r)
  <2>1. Step(r)
    <3>1. ~Idle
      BY <1>3 DEF Idle, requestVars, Served, Answered
    <3>2. PICK x \in Slots : Step(x)
      BY <3>1, OneActs
    <3>3. x = r
      BY <1>3, <3>2, StepAlone DEF Alone, Served, Answered
    <3> QED BY <3>2, <3>3
  <2>2. pc[r] \in {"new", "find", "commit"}
    <3>1. pc[r] # "new" => attempt[r] \in Forms
      BY <1>1 DEF Kept
    <3>2. attempt[r] \in Forms => attempt[r] \notin Calls
      BY FormsHave, CallsHave
    <3> QED BY <1>3, <3>1, <3>2 DEF Placed, PlacedAt, TypeOK, PC, Answered
  <2>3. SignupCommit(r) \/ LoginCommit(r)
    <3>1. ~Begin(r) /\ ~Find(r) /\ ~Break(r)
      BY <1>3 DEF Begin, Find, Break, Answer, Raise, Goto, Served, TypeOK
    <3> QED BY <2>1, <2>2, <3>1 DEF Step, Answers, Works, Ends, Resolve, Count, Expire, Refuse, Ingest,
            ReadRows, Erase, Audit, AuditFails
  <2>4. attempt' = attempt /\ attempt[r].email \in Emails
    BY <2>3, FormsHave DEF SignupCommit, LoginCommit
  <2>5. CASE SignupCommit(r)
    <3>1. status'[r] \in {200, 201}
      BY DEF Served
    <3>2. EmailFree(attempt[r].email)
      BY <2>5, <3>1 DEF SignupCommit, Answer, TypeOK
    <3>3. users'[attempt[r].email] = [key |-> r, password |-> attempt[r].password, tenant |-> r]
      BY <2>4, <2>5, <3>2 DEF SignupCommit, TypeOK
    <3>4. users'[attempt[r].email] # None /\ users'[attempt[r].email].key = r
      <4>1. [key |-> r, password |-> attempt[r].password, tenant |-> r] \in Account
        BY <2>5, FormsHave DEF SignupCommit, Placed, PlacedAt, Account, Keys
      <4> QED BY <3>3, <4>1, AccessAssumption
    <3> QED BY <2>4, <3>4 DEF KeyEnd
  <2>6. CASE LoginCommit(r)
    <3> DEFINE e == attempt[r].email
    <3>1. status'[r] \in {200, 201}
      BY DEF Served
    <3>2. users[e] # None /\ users' = [users EXCEPT ![e].key = r]
      BY <2>6, <3>1 DEF LoginCommit, Raise, TypeOK
    <3>3. users[e] \in Account
      BY <2>4, <3>2 DEF TypeOK
    <3>4. users'[e] \in Account /\ users'[e].key = r
      BY <2>4, <3>2, <3>3 DEF TypeOK, Account, Keys
    <3>5. users'[e] # None
      BY <3>4, AccessAssumption
    <3> QED BY <2>4, <3>4, <3>5 DEF KeyEnd
  <2> QED BY <2>3, <2>5, <2>6
<1> QED BY <1>2, <1>3

-----------------------------------------------------------------------------
(***************************************************************************)
(* What is written, and what is read of it.                                *)
(***************************************************************************)

\* Only these touch what can be read.
LEMMA ElseWrittenKept ==
  ASSUME [Next]_vars
  PROVE  /\ (\A r \in Slots : ~Ingest(r) /\ ~Erase(r)) => rows' = rows
         /\ (\A r \in Slots : ~Audit(r)) => trail' = trail
         /\ (\A r \in Slots : ~AuditFails(r)) => unwritten' = unwritten
<1>1. CASE Idle
  BY <1>1 DEF Idle
<1>2. ASSUME NEW r \in Slots, Step(r)
      PROVE  /\ ~Ingest(r) /\ ~Erase(r) => rows' = rows
             /\ ~Audit(r) => trail' = trail
             /\ ~AuditFails(r) => unwritten' = unwritten
  BY <1>2 DEF Step, Answers, Works, Ends, Begin, Resolve, Find, SignupCommit, LoginCommit, Count, Expire,
              Refuse, Ingest, ReadRows, Erase, Audit, Break, AuditFails, history
<1> QED BY <1>1, <1>2, OneActs

\* Rows are added by an ingest alone, and the records of the trail only grow.
LEMMA WrittenGrows ==
  ASSUME TypeOK, Placed, [Next]_vars
  PROVE  /\ \A x \in rows' : x \in rows \/ Ingest(x)
         /\ \A x \in trail' : x \in trail \/ Audit(x)
         /\ trail \subseteq trail' /\ unwritten \subseteq unwritten'
<1>1. \A x \in rows' : x \in rows \/ Ingest(x)
  <2>1. CASE \A r \in Slots : ~Ingest(r) /\ ~Erase(r)
    BY <2>1, ElseWrittenKept
  <2>2. ASSUME NEW r \in Slots, Ingest(r) PROVE rows' = rows \cup {r}
    BY <2>2 DEF Ingest
  <2>3. ASSUME NEW r \in Slots, Erase(r) PROVE rows' \subseteq rows
    BY <2>3 DEF Erase
  <2> QED BY <2>1, <2>2, <2>3
<1>2. (\A x \in trail' : x \in trail \/ Audit(x)) /\ trail \subseteq trail'
  <2>1. ASSUME NEW r \in Slots, Audit(r) PROVE trail' = trail \cup {r}
    BY <2>1 DEF Audit
  <2> QED BY <2>1, ElseWrittenKept
<1>3. unwritten \subseteq unwritten'
  <2>1. ASSUME NEW r \in Slots, AuditFails(r) PROVE unwritten' = unwritten \cup {r}
    BY <2>1 DEF AuditFails
  <2> QED BY <2>1, ElseWrittenKept
<1> QED BY <1>1, <1>2, <1>3

\* What a read has found, it found in one step, and the scope did not leave a
\* row of another tenant in it.
LEMMA ReadOnce ==
  ASSUME TypeOK, Placed, [Next]_vars, NEW r \in Slots, seen'[r] # seen[r]
  PROVE  ReadRows(r)
<1>1. ~Idle
  BY DEF Idle, requestVars
<1>2. PICK x \in Slots : Step(x)
  BY <1>1, OneActs
<1>3. x = r
  BY <1>2, StepAlone DEF Alone
<1>4. Step(r)
  BY <1>2, <1>3
<1> QED BY <1>4 DEF Step, Answers, Works, Ends, Begin, Resolve, Find, SignupCommit, LoginCommit, Count,
           Expire, Refuse, Ingest, Erase, Audit, Break, AuditFails

LEMMA ReadFinds ==
  ASSUME TypeOK, Placed, NEW r \in Slots, ReadRows(r)
  PROVE  /\ attempt[r] \in Calls /\ pc[r] = "work"
         /\ attempt[r].route \in {"search", "read"} =>
              seen'[r] = {x \in rows : tenant[x] = tenant[r] /\ tenant[r] # None}
         /\ attempt[r].route = "audit" =>
              seen'[r] = {x \in trail : tenant[x] = tenant[r] /\ tenant[r] # None}
         /\ attempt[r].route \in {"search", "read", "audit"}
<1>1. seen'[r] = Read(IF attempt[r].route = "audit" THEN trail ELSE rows, tenant[r])
  BY DEF ReadRows, TypeOK
<1>2. pc[r] = "work" /\ attempt[r].route \in {"search", "read", "audit"}
  BY DEF ReadRows
<1>3. \A S, t : Read(S, t) = {x \in S : tenant[x] = t /\ t # None}
  BY DEF Read, ScopedSelect, Policy
<1> QED BY <1>1, <1>2, <1>3 DEF Placed, PlacedAt

LEMMA InitWritten == Init => Written
BY DEF Init, Written

LEMMA NextWritten ==
  ASSUME TypeOK, Placed, OwnTenant, Written, [Next]_vars PROVE Written'
<1>0. \A x \in Slots : Kept(x)
  BY AllKept
<1>1. ASSUME NEW x \in rows' PROVE Answered(x)' /\ attempt'[x] \in Calls /\ tenant'[x] # None
  <2>1. x \in Slots
    BY <1>1, NextTyped DEF TypeOK
  <2>2. CASE x \in rows
    BY <1>0, <2>1, <2>2 DEF Written, Kept, Answered
  <2>3. CASE Ingest(x)
    <3>1. attempt[x] \in Calls /\ LetIn(x)
      BY <2>1, <2>3 DEF Ingest, Placed, PlacedAt, LetIn
    <3> QED BY <2>1, <2>3, <3>1 DEF Ingest, Answer, Goto, Answered, TypeOK, OwnTenant, OwnTenantAt
  <2> QED BY <1>1, <2>2, <2>3, WrittenGrows
<1>2. ASSUME NEW x \in trail' PROVE pc'[x] = "over"
  <2>1. CASE x \in trail
    BY <1>0, <2>1 DEF Written, Kept, TypeOK
  <2>2. CASE Audit(x) /\ x \notin trail
    <3>1. x \in Slots
      <4>1. PICK r \in Slots : Audit(r)
        BY <1>2, <2>2, ElseWrittenKept
      <4> QED BY <1>2, <2>2, <4>1 DEF Audit
    <3> QED BY <2>2, <3>1 DEF Audit, Goto, TypeOK
  <2> QED BY <1>2, <2>1, <2>2, WrittenGrows
<1>3. ASSUME NEW x \in Slots, pc'[x] = "over", status'[x] # 500 PROVE x \in trail' \cup unwritten'
  <2>1. CASE pc[x] = "over"
    BY <1>0, <1>3, <2>1, WrittenGrows DEF Written, Kept
  <2>2. CASE pc[x] # "over"
    <3>1. ~Idle
      BY <1>3, <2>2 DEF Idle, requestVars
    <3>2. PICK r \in Slots : Step(r)
      BY <3>1, OneActs
    <3>3. r = x
      BY <1>3, <2>2, <3>2, StepAlone DEF Alone
    <3>4. Step(x)
      BY <3>2, <3>3
    <3>5. ~Break(x)
      BY <1>3 DEF Break, Raise, TypeOK
    <3>6. ~Answers(x) /\ ~Works(x) /\ ~Begin(x)
      <4>1. ~Begin(x)
        BY <1>3 DEF Begin, Goto, TypeOK
      <4>2. ~Works(x)
        BY <1>3 DEF Works, Refuse, Ingest, ReadRows, Erase, Answer, Goto, TypeOK
      <4>3. ~Resolve(x) /\ ~Find(x) /\ ~SignupCommit(x)
        BY <1>3 DEF Resolve, Find, SignupCommit, Answer, Goto, TypeOK
      <4>4. ~LoginCommit(x)
        BY <1>3 DEF LoginCommit, Answer, Raise, Goto, TypeOK
      <4>5. ~Count(x) /\ ~Expire(x)
        BY <1>3 DEF Count, Expire, Admit, Answer, Goto, TypeOK
      <4> QED BY <4>1, <4>2, <4>3, <4>4, <4>5 DEF Answers
    <3> QED BY <3>4, <3>5, <3>6 DEF Step, Ends, Audit, AuditFails
  <2> QED BY <2>1, <2>2
<1>4. ASSUME NEW r \in Slots, NEW x \in seen'[r] PROVE Answered(x)'
  <2>1. CASE seen'[r] = seen[r]
    BY <1>0, <1>4, <2>1 DEF Written, Kept, TypeOK
  <2>2. CASE seen'[r] # seen[r]
    <3>1. x \in rows \cup trail
      BY <1>4, <2>2, ReadOnce, ReadFinds
    <3> QED BY <1>0, <3>1 DEF Written, Kept, Answered, TypeOK
  <2> QED BY <2>1, <2>2
<1> QED BY <1>1, <1>2, <1>3, <1>4 DEF Written

\* A row is of the memory of the owner of its request, and so is a record of
\* the trail whose request was let in.
LEMMA OwnerOfRow ==
  ASSUME TypeOK, Placed, OwnTenant, Written, NEW x \in Slots
  PROVE  /\ x \in rows => Owner(x) = tenant[x]
         /\ pc[x] = "over" /\ tenant[x] # None => Owner(x) = tenant[x]
         /\ pc[x] = "over" /\ status[x] \notin {401, 500} => Owner(x) = tenant[x]
<1>1. CASE pc[x] # "new" /\ attempt[x] \in Calls /\ tenant[x] # None
  BY <1>1 DEF OwnTenant, OwnTenantAt
<1>2. pc[x] # "new" /\ attempt[x] \notin Calls => Owner(x) = tenant[x]
  BY Attempted DEF Placed, PlacedAt, Owner
<1>3. x \in rows => pc[x] # "new" /\ attempt[x] \in Calls /\ tenant[x] # None
  BY DEF Written, Answered
<1>4. pc[x] = "over" /\ status[x] \notin {401, 500} /\ attempt[x] \in Calls => tenant[x] # None
  BY DEF OwnTenant, OwnTenantAt, LetIn, Answered
<1> QED BY <1>1, <1>2, <1>3, <1>4

\* Of a request already answered, nothing that these properties speak of changes.
LEMMA ServedBefore ==
  ASSUME TypeOK, Placed, KeysNamed, Written, [Next]_vars, NEW r \in Slots, Answered(r), Served(r)',
         attempt'[r].op = "call"
  PROVE  /\ Served(r) /\ attempt'[r] = attempt[r] /\ past'[r] = past[r] /\ seen'[r] = seen[r]
         /\ Owner(r)' = Owner(r) /\ \A x \in seen[r] \cup past[r] : x \in Slots /\ Owner(x)' = Owner(x)
<1>1. Kept(r)
  BY AllKept
<1>2. Served(r) /\ attempt'[r] = attempt[r] /\ past'[r] = past[r] /\ seen'[r] = seen[r]
  BY <1>1 DEF Kept, Served, Answered
<1>3. \A x \in seen[r] \cup past[r] : x \in Slots /\ Answered(x)
  BY DEF Placed, PlacedAt, Written, TypeOK, Answered
<1> QED BY <1>2, <1>3, OwnerKept

\* Of one just answered with success, a read has just been made.
LEMMA JustServed ==
  ASSUME TypeOK, Placed, [Next]_vars, NEW r \in Slots, ~Answered(r), Served(r)',
         attempt'[r].op = "call"
  PROVE  /\ attempt[r] \in Calls /\ attempt'[r] = attempt[r] /\ past'[r] = past[r] /\ pc[r] = "work"
         /\ attempt[r].route \in {"search", "read", "audit"} => ReadRows(r)
         /\ attempt[r].route \notin {"search", "read", "audit"} => seen'[r] = {}
<1>1. ~Idle
  BY DEF Idle, requestVars, Served, Answered
<1>2. PICK x \in Slots : Step(x)
  BY <1>1, OneActs
<1>3. x = r
  BY <1>2, StepAlone DEF Alone, Served, Answered
<1>4. Step(r) /\ ~Ends(r) /\ ~Begin(r)
  <2>1. Step(r)
    BY <1>2, <1>3
  <2>2. ~Begin(r) /\ ~Break(r)
    BY DEF Begin, Break, Raise, Goto, Served, TypeOK
  <2> QED BY <2>1, <2>2 DEF Ends, Audit, AuditFails, Answered
<1>5. pc[r] # "new"
  BY <1>4 DEF Step, Answers, Works, Resolve, Find, SignupCommit, LoginCommit, Count, Expire, Refuse,
              Ingest, ReadRows, Erase
<1>6. attempt'[r] = attempt[r] /\ past'[r] = past[r] /\ attempt[r] \in Calls /\ attempt[r] \notin Forms
  BY <1>5, AllKept, Attempted, CallsHave, FormsHave DEF Kept, Placed, PlacedAt
<1>7. ~Answers(r)
  <2>1. ~Find(r) /\ ~SignupCommit(r) /\ ~LoginCommit(r)
    BY <1>6 DEF Placed, PlacedAt, Find, SignupCommit, LoginCommit
  <2>2. ~Resolve(r)
    BY DEF Resolve, Answer, Goto, Served, TypeOK
  <2>3. ~Count(r) /\ ~Expire(r)
    BY DEF Count, Expire, Admit, Answer, Goto, Served, TypeOK
  <2> QED BY <2>1, <2>2, <2>3 DEF Answers
<1>8. Ingest(r) \/ ReadRows(r) \/ Erase(r)
  <2>1. ~Refuse(r)
    BY DEF Refuse, Answer, Goto, Served, TypeOK
  <2> QED BY <1>4, <1>7, <2>1 DEF Step, Works
<1>9. pc[r] = "work" /\ seen[r] = {}
  BY <1>8 DEF Ingest, ReadRows, Erase, Placed, PlacedAt, Answered
<1> QED BY <1>6, <1>8, <1>9 DEF Ingest, ReadRows, Erase

LEMMA NextReadsOwn ==
  ASSUME TypeOK, Placed, KeysNamed, OwnTenant, Written, ReadsOwn, [Next]_vars PROVE ReadsOwn'
<1> SUFFICES ASSUME NEW r \in Slots, Served(r)', attempt'[r].op = "call"
             PROVE  /\ \A x \in seen'[r] : Owner(x)' = Owner(r)'
                    /\ attempt'[r].route \in {"search", "read"} =>
                         \A x \in rows' \cap past'[r] : Owner(x)' = Owner(r)' => x \in seen'[r]
  BY DEF ReadsOwn
<1>0. \A x \in past[r] : x \in Slots /\ pc[x] = "over"
  BY DEF Placed, PlacedAt
<1>1. rows' \cap past[r] \subseteq rows
  BY <1>0, WrittenGrows DEF Ingest
<1>2. CASE Answered(r)
  <2>1. /\ Served(r) /\ attempt'[r] = attempt[r] /\ past'[r] = past[r] /\ seen'[r] = seen[r]
        /\ Owner(r)' = Owner(r) /\ \A x \in seen[r] \cup past[r] : Owner(x)' = Owner(x)
    BY <1>2, ServedBefore
  <2>2. attempt[r].op = "call"
    BY <2>1
  <2>3. \A x \in seen[r] : Owner(x) = Owner(r)
    BY <2>1, <2>2 DEF ReadsOwn
  <2>4. attempt[r].route \in {"search", "read"} =>
          \A x \in rows \cap past[r] : Owner(x) = Owner(r) => x \in seen[r]
    BY <2>1, <2>2 DEF ReadsOwn
  <2> QED BY <1>1, <2>1, <2>3, <2>4
<1>3. CASE ~Answered(r)
  <2>1. /\ attempt[r] \in Calls /\ attempt'[r] = attempt[r] /\ past'[r] = past[r] /\ pc[r] = "work"
        /\ attempt[r].route \in {"search", "read", "audit"} => ReadRows(r)
        /\ attempt[r].route \notin {"search", "read", "audit"} => seen'[r] = {}
    BY <1>3, JustServed
  <2>2. Owner(r)' = Owner(r) /\ tenant[r] = Owner(r) /\ tenant[r] # None
    BY <2>1, OwnerKept DEF OwnTenant, OwnTenantAt, LetIn
  <2>3. CASE attempt[r].route \in {"search", "read", "audit"}
    <3>1. ReadRows(r)
      BY <2>1, <2>3
    <3>2. ASSUME NEW x \in seen'[r] PROVE Owner(x)' = Owner(r)
      <4>1. x \in rows \cup trail /\ tenant[x] = tenant[r] /\ x \in Slots
        BY <2>3, <3>1, <3>2, ReadFinds DEF TypeOK
      <4>2. Answered(x) /\ Owner(x) = tenant[x]
        BY <2>2, <4>1, OwnerOfRow DEF Written, Answered
      <4> QED BY <2>2, <4>1, <4>2, OwnerKept
    <3>3. ASSUME attempt[r].route \in {"search", "read"}, NEW x \in rows' \cap past[r], Owner(x)' = Owner(r)'
          PROVE  x \in seen'[r]
      <4>1. x \in rows /\ x \in Slots /\ Answered(x)
        BY <1>0, <1>1, <3>3 DEF Answered
      <4>2. Owner(x) = tenant[x] /\ Owner(x)' = Owner(x)
        BY <4>1, OwnerOfRow, OwnerKept
      <4> QED BY <2>2, <3>1, <3>3, <4>1, <4>2, ReadFinds
    <3> QED BY <2>1, <2>2, <3>2, <3>3
  <2>4. CASE attempt[r].route \notin {"search", "read", "audit"}
    BY <2>1, <2>4
  <2> QED BY <2>3, <2>4
<1> QED BY <1>2, <1>3

LEMMA NextTrailComplete ==
  ASSUME TypeOK, Placed, KeysNamed, OwnTenant, Written, TrailComplete, [Next]_vars PROVE TrailComplete'
<1> SUFFICES ASSUME NEW r \in Slots, Served(r)', attempt'[r].op = "call", attempt'[r].route = "audit",
                    NEW x \in past'[r], status'[x] \notin {401, 500}, x \notin unwritten'
             PROVE  Owner(x)' = Owner(r)' => x \in seen'[r]
  BY DEF TrailComplete
<1>1. past'[r] = past[r]
  BY ServedBefore, JustServed
<1>2. x \in Slots /\ pc[x] = "over" /\ Answered(x) /\ x \notin unwritten
  BY <1>1, WrittenGrows DEF Placed, PlacedAt, Answered
<1>3. status'[x] = status[x] /\ Owner(x)' = Owner(x)
  BY <1>2, AllKept, OwnerKept DEF Kept
<1>4. CASE Answered(r)
  <2>1. /\ Served(r) /\ attempt'[r] = attempt[r] /\ seen'[r] = seen[r] /\ Owner(r)' = Owner(r)
    BY <1>4, ServedBefore
  <2>2. attempt[r].op = "call" /\ attempt[r].route = "audit"
    BY <2>1
  <2>3. Owner(x)' = Owner(r)' => Owner(x) = Owner(r)
    BY <1>3, <2>1
  <2>4. x \in past[r] /\ status[x] \notin {401, 500} /\ x \notin unwritten
    BY <1>1, <1>2, <1>3
  <2>5. Owner(x) = Owner(r) => x \in seen[r]
    BY <2>1, <2>2, <2>3, <2>4 DEF TrailComplete
  <2> QED BY <2>1, <2>3, <2>5
<1>5. CASE ~Answered(r)
  <2>1. attempt[r] \in Calls /\ attempt'[r] = attempt[r] /\ pc[r] = "work"
        /\ (attempt[r].route \in {"search", "read", "audit"} => ReadRows(r))
    BY <1>5, JustServed
  <2>2. ReadRows(r) /\ attempt[r].route = "audit"
    BY <2>1
  <2>3. Owner(r)' = Owner(r) /\ tenant[r] = Owner(r) /\ tenant[r] # None
    BY <2>1, OwnerKept DEF OwnTenant, OwnTenantAt, LetIn
  <2>4. Owner(x) = tenant[x] /\ x \in trail
    BY <1>2, <1>3, OwnerOfRow DEF Written
  <2>5. seen'[r] = {y \in trail : tenant[y] = tenant[r] /\ tenant[r] # None}
    BY <2>2, ReadFinds
  <2>6. Owner(x)' = Owner(r)' => Owner(x) = Owner(r)
    BY <1>3, <2>3
  <2> QED BY <2>3, <2>4, <2>5, <2>6
<1> QED BY <1>4, <1>5

-----------------------------------------------------------------------------
(***************************************************************************)
(* The daily limit.                                                        *)
(***************************************************************************)

LEMMA OnCounterFinite ==
  ASSUME NEW k PROVE IsFiniteSet(OnCounter(k)) /\ Cardinality(OnCounter(k)) \in Nat
<1>1. OnCounter(k) \subseteq Slots /\ IsFiniteSet(Slots)
  BY AccessAssumption DEF OnCounter
<1> QED BY <1>1, FS_Subset, FS_CardinalityType

\* A limit of n lives and one more.
LEMMA OneLifeMore ==
  ASSUME NEW n \in Nat
  PROVE  /\ DailyLimit * n \in Nat /\ DailyLimit * 0 = 0
         /\ DailyLimit * (1 + n) = DailyLimit * n + DailyLimit
         /\ DailyLimit * (n + 1) = DailyLimit * n + DailyLimit
BY AccessAssumption

\* The first to count is within the limit, and stays charged when it sets EXPIRE.
LEMMA ElseCountsKept ==
  ASSUME TypeOK, [Next]_vars, \A r \in Slots : ~Count(r), \A k \in Counters : ~Lapse(k)
  PROVE  count' = count /\ lapses' = lapses /\ charged' = charged
<1>1. ASSUME NEW r \in Slots, Expire(r)
      PROVE  count' = count /\ lapses' = lapses /\ charged' = charged
  <2>1. ~OverLimit(1)
    BY AccessAssumption DEF OverLimit
  <2>2. charged' = [charged EXCEPT ![r] = charged[r]]
    BY <1>1, <2>1 DEF Expire, Admit
  <2> QED BY <1>1, <2>2 DEF Expire, TypeOK
<1>2. CASE UNCHANGED vars
  BY <1>2 DEF vars, limitVars
<1> QED BY <1>1, <1>2 DEF Next, Begin, Resolve, Find, SignupCommit, LoginCommit, Refuse, Ingest, ReadRows,
           Erase, Audit, Break, AuditFails, Midnight, limitVars

\* The date goes on, and a request reads the one of its time.
LEMMA DatesRead ==
  ASSUME TypeOK, [Next]_vars
  PROVE  /\ day' \in Nat /\ day <= day'
         /\ \A r \in Slots : date'[r] \in {date[r], day}
<1> USE DEF limitVars
<1>0. day \in Nat /\ \A r \in Slots : date[r] \in Nat
  BY AccessAssumption DEF TypeOK
<1>1. ASSUME NEW r \in Slots, Resolve(r) PROVE day' = day /\ \A x \in Slots : date'[x] \in {date[x], day}
  BY <1>1 DEF TypeOK, Resolve, ReadDate
<1>2. CASE Midnight
  BY <1>0, <1>2 DEF Midnight
<1>3. CASE UNCHANGED vars
  BY <1>0, <1>3 DEF vars
<1>4. ASSUME \A r \in Slots : ~Resolve(r), ~Midnight, ~UNCHANGED vars PROVE day' = day /\ date' = date
  BY <1>4 DEF Next, Begin, Find, SignupCommit, LoginCommit, Count, Expire, Refuse, Ingest, ReadRows,
              Erase, Audit, Break, AuditFails, Lapse
<1> QED BY <1>0, <1>1, <1>2, <1>3, <1>4

\* EXPIRE alone times a counter, to the day of today, and Lapse alone ends one.
LEMMA TimesSet ==
  ASSUME TypeOK, Placed, [Next]_vars, NEW k \in Counters
  PROVE  /\ timed'[k] # timed[k] =>
              \/ timed'[k] = None
              \/ timed'[k] = day /\ \E r \in Slots : charged[r] = k
         /\ lapses'[k] # lapses[k] => Lapse(k)
<1> USE DEF limitVars
<1>1. ASSUME NEW r \in Slots, Expire(r)
      PROVE  lapses' = lapses /\ (timed'[k] # timed[k] => timed'[k] = day /\ charged[r] = k)
  <2>1. charged[r] \in Counters
    BY <1>1 DEF Placed, PlacedAt, Expire
  <2> QED BY <1>1, <2>1 DEF TypeOK, Expire
<1>2. ASSUME NEW j \in Counters, Lapse(j)
      PROVE  (timed'[k] # timed[k] => timed'[k] = None) /\ (lapses'[k] # lapses[k] => j = k)
  BY <1>2 DEF TypeOK, Lapse
<1>3. CASE UNCHANGED vars
  BY <1>3 DEF vars
<1>4. ASSUME \A r \in Slots : ~Expire(r), \A j \in Counters : ~Lapse(j), ~UNCHANGED vars
      PROVE  timed' = timed /\ lapses' = lapses
  BY <1>4 DEF Next, Begin, Resolve, Find, SignupCommit, LoginCommit, Count, Refuse, Ingest, ReadRows,
              Erase, Audit, Break, AuditFails, Midnight
<1> QED BY <1>1, <1>2, <1>3, <1>4

\* INCR gives the request a number of its own, and it is admitted with one that
\* is within the limit or not at all.
LEMMA CountAdmits ==
  ASSUME TypeOK, Placed, NEW r \in Slots, Count(r)
  PROVE  LET k == <<attempt[r].ip, date[r], attempt[r].route>> IN
           /\ k \in Counters /\ count' = [count EXCEPT ![k] = count[k] + 1] /\ lapses' = lapses
           /\ charged[r] = None
           /\ \/ charged' = [charged EXCEPT ![r] = None]
              \/ count[k] + 1 <= DailyLimit /\ charged' = [charged EXCEPT ![r] = k]
<1> DEFINE k == <<attempt[r].ip, date[r], attempt[r].route>>
<1>1. k \in Counters
  BY DEF TypeOK, Placed, PlacedAt, Count, Counters
<1>2. count' = [count EXCEPT ![k] = count[k] + 1] /\ lapses' = lapses /\ charged[r] = None
  BY DEF Count, Placed, PlacedAt
<1>3. CASE count[k] + 1 = 1
  <2>1. charged' = [charged EXCEPT ![r] = k]
    BY <1>3 DEF Count
  <2>2. 1 <= DailyLimit
    BY AccessAssumption
  <2> QED BY <1>1, <1>2, <1>3, <2>1, <2>2
<1>4. CASE count[k] + 1 # 1
  <2>1. Admit(r, k, count[k] + 1)
    BY <1>4 DEF Count
  <2>2. count[k] \in Nat /\ DailyLimit \in Nat
    BY <1>1, AccessAssumption DEF TypeOK
  <2>3. CASE OverLimit(count[k] + 1)
    BY <1>1, <1>2, <2>1, <2>3 DEF Admit
  <2>4. CASE ~OverLimit(count[k] + 1)
    <3>1. count[k] + 1 <= DailyLimit
      BY <2>2, <2>4 DEF OverLimit
    <3> QED BY <1>1, <1>2, <2>1, <2>4, <3>1 DEF Admit
  <2> QED BY <2>3, <2>4
<1> QED BY <1>3, <1>4

LEMMA InitCounted == Init => Counted
<1> SUFFICES ASSUME Init PROVE Counted
  OBVIOUS
<1>1. \A k \in Counters : CountedOn(k)
  <2>1. \A k \in Counters : OnCounter(k) = {}
    BY AccessAssumption DEF Init, OnCounter
  <2>2. Cardinality({}) = 0 /\ DailyLimit \in Nat
    BY FS_EmptySet, AccessAssumption
  <2>3. \A k \in Counters : count[k] = 0 /\ lapses[k] = 0
    BY DEF Init
  <2>4. DailyLimit * 0 = 0
    BY <2>2
  <2> SUFFICES ASSUME NEW k \in Counters PROVE CountedOn(k)
    OBVIOUS
  <2>5. Cardinality(OnCounter(k)) = 0 /\ DailyLimit * lapses[k] = 0 /\ count[k] = 0
    BY <2>1, <2>2, <2>3, <2>4
  <2> QED BY <2>2, <2>5 DEF CountedOn
<1> QED BY <1>1 DEF Init, Counted, DatePast

\* An INCR admits one within the limit of this life; when a life ends its
\* requests are within the limits of those that ended.
LEMMA NextCountedOn ==
  ASSUME TypeOK, Placed, Counted, [Next]_vars, NEW k \in Counters PROVE CountedOn(k)'
<1>0. DailyLimit \in Nat /\ count[k] \in Nat /\ lapses[k] \in Nat /\ Cardinality(OnCounter(k)) \in Nat
  BY OnCounterFinite, AccessAssumption DEF TypeOK
<1>1. CountedOn(k)
  BY DEF Counted
<1>2. CASE (\A r \in Slots : ~Count(r)) /\ (\A j \in Counters : ~Lapse(j))
  BY <1>1, <1>2, ElseCountsKept DEF OnCounter, CountedOn
<1>3. ASSUME NEW j \in Counters, Lapse(j) PROVE CountedOn(k)'
  <2>1. OnCounter(k)' = OnCounter(k)
    BY <1>3 DEF Lapse, OnCounter
  <2>2. CASE k = j
    <3>1. count'[k] = 0 /\ lapses'[k] = lapses[k] + 1
      BY <1>3, <2>2 DEF Lapse, TypeOK
    <3> QED BY <1>0, <1>1, <2>1, <3>1, OneLifeMore DEF CountedOn
  <2>3. CASE k # j
    BY <1>1, <1>3, <2>1, <2>3 DEF Lapse, TypeOK, CountedOn
  <2> QED BY <2>2, <2>3
<1>4. ASSUME NEW r \in Slots, Count(r) PROVE CountedOn(k)'
  <2> DEFINE j == <<attempt[r].ip, date[r], attempt[r].route>>
  <2>1. /\ j \in Counters /\ count' = [count EXCEPT ![j] = count[j] + 1] /\ lapses' = lapses
        /\ charged[r] = None
        /\ \/ charged' = [charged EXCEPT ![r] = None]
           \/ count[j] + 1 <= DailyLimit /\ charged' = [charged EXCEPT ![r] = j]
    BY <1>4, CountAdmits
  <2> HIDE DEF j
  <2>2. count'[k] \in Nat /\ count'[k] >= count[k] /\ (k = j => count'[k] = count[k] + 1)
    BY <1>0, <2>1 DEF TypeOK
  <2>3. k # None
    BY AccessAssumption
  <2>4. CASE charged' = [charged EXCEPT ![r] = None] \/ k # j
    <3>1. OnCounter(k)' = OnCounter(k)
      BY <2>1, <2>3, <2>4 DEF OnCounter, TypeOK
    <3> QED BY <1>0, <1>1, <2>1, <2>2, <3>1, OneLifeMore DEF CountedOn
  <2>5. CASE count[j] + 1 <= DailyLimit /\ charged' = [charged EXCEPT ![r] = j] /\ k = j
    <3>1. OnCounter(k)' = OnCounter(k) \cup {r} /\ r \notin OnCounter(k)
      BY <2>1, <2>3, <2>5 DEF OnCounter, TypeOK
    <3>2. Cardinality(OnCounter(k)') = Cardinality(OnCounter(k)) + 1
      BY <3>1, OnCounterFinite, FS_AddElement
    <3> QED BY <1>0, <1>1, <2>1, <2>2, <2>5, <3>2, OneLifeMore DEF CountedOn
  <2> QED BY <2>1, <2>4, <2>5
<1> QED BY <1>2, <1>3, <1>4

\* What is charged is of the date that its request has read.
LEMMA ChargedDates ==
  ASSUME TypeOK, Placed, Counted, [Next]_vars, NEW r \in Slots, charged'[r] # None
  PROVE  charged'[r][2] <= day
<1>0. day \in Nat /\ date[r] \in Nat
  BY AccessAssumption DEF TypeOK
<1>1. CASE charged'[r] = charged[r]
  BY <1>1 DEF Counted
<1>2. CASE charged'[r] # charged[r]
  <2>1. PICK x \in Slots : Count(x)
    <3>1. \A k \in Counters : Lapse(k) => charged' = charged
      BY DEF Lapse
    <3> QED BY <1>2, <3>1, ElseCountsKept
  <2> DEFINE j == <<attempt[x].ip, date[x], attempt[x].route>>
  <2>2. charged' = [charged EXCEPT ![x] = None] \/ charged' = [charged EXCEPT ![x] = j]
    BY <2>1, CountAdmits
  <2>3. j[2] = date[x]
    OBVIOUS
  <2> HIDE DEF j
  <2>4. x = r /\ charged'[r] = j
    BY <1>2, <2>2 DEF TypeOK
  <2> QED BY <2>3, <2>4 DEF Counted
<1> QED BY <1>1, <1>2

LEMMA NextDatePast ==
  ASSUME TypeOK, Placed, Counted, [Next]_vars, NEW k \in Counters PROVE DatePast(k)'
<1>0. /\ day \in Nat /\ day' \in Nat /\ day <= day' /\ k[2] \in Nat
      /\ timed[k] # None => timed[k] \in Nat
  BY DatesRead, AccessAssumption DEF TypeOK, Counters
<1>1. DatePast(k)
  BY DEF Counted
<1>2. timed'[k] # None => k[2] <= timed'[k]
  <2>1. \A r \in Slots : charged[r] = k => k[2] <= day
    BY AccessAssumption DEF Counted
  <2> QED BY <1>1, <2>1, TimesSet DEF DatePast
<1>3. lapses'[k] > 0 => k[2] < day'
  <2>1. CASE lapses'[k] = lapses[k]
    BY <1>0, <1>1, <2>1 DEF DatePast
  <2>2. CASE Lapse(k)
    <3>1. k[2] <= timed[k] /\ timed[k] < day /\ timed[k] \in Nat
      BY <1>0, <1>1, <2>2 DEF DatePast, Lapse
    <3> QED BY <1>0, <3>1
  <2> QED BY <2>1, <2>2, TimesSet
<1> QED BY <1>2, <1>3 DEF DatePast

LEMMA NextCounted ==
  ASSUME TypeOK, Placed, Counted, [Next]_vars PROVE Counted'
<1>0. /\ day \in Nat /\ day' \in Nat /\ day <= day'
      /\ \A r \in Slots : date[r] \in Nat /\ date'[r] \in {date[r], day}
  BY DatesRead, AccessAssumption DEF TypeOK
<1>1. \A r \in Slots : date'[r] <= day'
  BY <1>0 DEF Counted
<1>2. \A r \in Slots : charged'[r] # None => charged'[r][2] <= day'
  <2> SUFFICES ASSUME NEW r \in Slots, charged'[r] # None PROVE charged'[r][2] <= day'
    OBVIOUS
  <2>1. charged'[r] \in Counters
    BY NextTyped DEF TypeOK
  <2>2. charged'[r][2] \in Nat
    BY <2>1, AccessAssumption DEF Counters
  <2> QED BY <1>0, <2>2, ChargedDates
<1> QED BY <1>1, <1>2, NextCountedOn, NextDatePast DEF Counted, Counters

\* The counter of today has not expired yet.
LEMMA CountedLimits == TypeOK /\ Counted => DemoLimit
<1> SUFFICES ASSUME TypeOK, Counted, NEW k \in Counters
             PROVE  LET admitted == {r \in Slots : charged[r] = k /\ pc[r] # "expire"}
                    IN  /\ k[2] = day => Cardinality(admitted) <= DailyLimit
                        /\ Cardinality(admitted) <= DailyLimit * (1 + lapses[k])
  BY DEF DemoLimit
<1> DEFINE S == {r \in Slots : charged[r] = k /\ pc[r] # "expire"}
<1>0. DailyLimit \in Nat /\ lapses[k] \in Nat /\ day \in Nat
  BY AccessAssumption DEF TypeOK
<1>1. S \subseteq OnCounter(k)
  BY DEF OnCounter
<1>2. Cardinality(S) <= Cardinality(OnCounter(k)) /\ Cardinality(S) \in Nat
  BY <1>1, OnCounterFinite, FS_Subset, FS_CardinalityType
<1>3. CountedOn(k) /\ DatePast(k)
  BY DEF Counted
<1> HIDE DEF S
<1>4. /\ DailyLimit * lapses[k] \in Nat /\ Cardinality(OnCounter(k)) \in Nat
      /\ DailyLimit * (1 + lapses[k]) = DailyLimit * lapses[k] + DailyLimit
      /\ Cardinality(OnCounter(k)) <= DailyLimit * lapses[k] + DailyLimit
  BY <1>0, <1>3, OnCounterFinite, OneLifeMore DEF CountedOn
<1>5. Cardinality(S) <= DailyLimit * (1 + lapses[k])
  <2> DEFINE total == DailyLimit * lapses[k]
             n == Cardinality(OnCounter(k))
             m == Cardinality(S)
  <2>1. /\ total \in Nat /\ n \in Nat /\ m \in Nat /\ m <= n /\ n <= total + DailyLimit
        /\ DailyLimit * (1 + lapses[k]) = total + DailyLimit
    BY <1>2, <1>4
  <2> HIDE DEF total, n, m
  <2>2. m <= total + DailyLimit
    BY <1>0, <2>1
  <2> QED BY <2>1, <2>2 DEF m
<1>6. k[2] = day => lapses[k] = 0
  BY <1>0, <1>3 DEF DatePast
<1>7. k[2] = day => Cardinality(S) <= DailyLimit
  <2>1. DailyLimit * (1 + 0) = DailyLimit
    BY <1>0
  <2> QED BY <1>5, <1>6, <2>1
<1> QED BY <1>5, <1>7 DEF S

-----------------------------------------------------------------------------
(***************************************************************************)
(* The theorems.                                                           *)
(***************************************************************************)

\* The inductive invariant: every part but the first two rests on others.
Inv ==
  /\ TypeOK /\ Placed /\ KeysNamed /\ OwnTenant /\ KeysEnd /\ Written /\ Counted
  /\ ReadsOwn /\ TrailComplete

LEMMA Invariant == Spec => []Inv
<1>1. Init => Inv
  <2>1. Init => KeysEnd /\ ReadsOwn /\ TrailComplete
    BY DEF Init, KeysEnd, KeyEnd, ReadsOwn, TrailComplete, Served
  <2> QED BY <2>1, InitTyped, InitPlaced, InitKeys, InitOwnTenant, InitWritten, InitCounted DEF Inv
<1>2. Inv /\ [Next]_vars => Inv'
  BY NextTyped, NextPlaced, NextKeys, NextOwnTenant, NextKeysEnd, NextWritten, NextCounted,
     NextReadsOwn, NextTrailComplete DEF Inv
<1> QED BY <1>1, <1>2, PTL DEF Spec

\* Where a request stands fits what it asks for, and every counter, tenant and
\* answer is one that the routes can give (api/).
THEOREM AccessTypeCorrect == Spec => []TypeOK
<1>1. Inv => TypeOK
  BY DEF Inv
<1> QED BY <1>1, Invariant, PTL

\* The key that a signup or login answers is its account's until a login or an
\* erasure that was not over when the request began, for any number of
\* requests and however they interleave (api/routes_auth.py).
THEOREM AnsweredKeysWork == Spec => []AnsweredKeyWorks
<1>1. Inv => AnsweredKeyWorks
  BY Attempted DEF Inv, Placed, PlacedAt, KeysEnd, KeyEnd, AnsweredKeyWorks
<1> QED BY <1>1, Invariant, PTL

\* A call that began after the answer to the login or the erasure that ended
\* its key is served nothing (api/deps.py).
THEOREM EndedKeysDenied == Spec => []RevokedKeyDenied
<1>1. Inv => RevokedKeyDenied
  <2> SUFFICES ASSUME Inv, NEW r \in Slots, Served(r), attempt[r].op = "call", attempt[r].key \in Keys
               PROVE  killer[attempt[r].key] \notin past[r]
    BY DEF RevokedKeyDenied
  <2>1. pc[r] # "new" /\ attempt[r] \in Calls
    BY Attempted DEF Inv, Placed, PlacedAt, Served
  <2>2. LetIn(r)
    BY <2>1 DEF LetIn, Served, Answered
  <2> QED BY <2>2 DEF Inv, OwnTenant, OwnTenantAt
<1> QED BY <1>1, Invariant, PTL

\* A read returns the rows of its owner, no other's, and all that were stored
\* before it began (storage/repository.py).
THEOREM OwnRowsOnly == Spec => []ReadsOwn
<1>1. Inv => ReadsOwn
  BY DEF Inv
<1> QED BY <1>1, Invariant, PTL

\* The trail that an admin reads lacks no request about its tenant that ended
\* before, unless it raised, opened nothing, or its row could not be written
\* (api/audit.py).
THEOREM TrailKept == Spec => []TrailComplete
<1>1. Inv => TrailComplete
  BY DEF Inv
<1> QED BY <1>1, Invariant, PTL

\* On a day a visitor is admitted at most DailyLimit times to each kind of call,
\* however many of its calls count at once; with those that read that date and
\* counted on a later one, at most DailyLimit times for each life that its counter
\* has had: for any number of requests and days (api/rate_limit.py).
THEOREM DemoLimitHeld == Spec => []DemoLimit
<1>1. Inv => DemoLimit
  BY CountedLimits DEF Inv
<1> QED BY <1>1, Invariant, PTL

\* No search is served a list that is ranked wrong, whatever lists of hits the two
\* retrievers find and whatever its limit (retrieval.py, hybrid_search).
THEOREM RankedAsFused == Spec => []FusedRanking
<1>1. FusedRanking
  BY NoneRankedWrong DEF FusedRanking
<1> QED BY <1>1, PTL
=============================================================================
