------------------------- MODULE DocumentTextProofs -------------------------
(***************************************************************************)
(* Proofs about the text of a document, whatever its length: what comes    *)
(* out of compression and of the chunker has the letters that went in.     *)
(***************************************************************************)
EXTENDS DocumentTextProperties, SequenceTheorems, WellFoundedInduction, TLAPS

-----------------------------------------------------------------------------
(***************************************************************************)
(* Induction, stated with sets: the naturals, and the sequences, for which *)
(* a fact holds are shown to be all.                                       *)
(***************************************************************************)

LEMMA LeastNatural ==
  ASSUME NEW S \in SUBSET Nat, S # {}
  PROVE  \E n \in S : \A m \in S : n <= m
<1> DEFINE R == OpToRel(<, Nat)
<1>1. IsWellFoundedOn(R, Nat)
  BY NatLessThanWellFounded
<1> HIDE DEF R
<1>2. PICK n \in S : \A m \in S : ~ (<<m, n>> \in R)
  BY <1>1, WFMin
<1>3. \A m \in S : ~ (m < n)
  BY <1>2 DEF R, OpToRel
<1> QED BY <1>3

\* A set of naturals with 0 and every successor has them all.
LEMMA AllNaturals ==
  ASSUME NEW S \in SUBSET Nat, 0 \in S, \A n \in S : n + 1 \in S
  PROVE  S = Nat
<1> SUFFICES ASSUME Nat \ S # {} PROVE FALSE
  OBVIOUS
<1>1. PICK n \in Nat \ S : \A m \in Nat \ S : n <= m
  BY LeastNatural
<1>2. n # 0 /\ n - 1 \in Nat /\ n - 1 < n
  OBVIOUS
<1>3. n - 1 \in S
  BY <1>1, <1>2
<1> QED BY <1>2, <1>3

\* Max and Min of the community modules.
LEMMA MaxIs ==
  ASSUME NEW S \in SUBSET Nat, S # {}, NEW n \in Nat, \A i \in S : i <= n
  PROVE  Max(S) \in S /\ \A i \in S : i <= Max(S)
<1> DEFINE U == {k \in Nat : \A i \in S : i <= k}
<1>1. PICK u \in U : \A k \in U : u <= k
  <2>1. U \in SUBSET Nat /\ U # {}
    OBVIOUS
  <2> HIDE DEF U
  <2> QED BY <2>1, LeastNatural
<1>2. u \in S
  <2> SUFFICES ASSUME u \notin S PROVE FALSE
    OBVIOUS
  <2>1. \A i \in S : i <= u /\ i # u /\ i \in Nat
    BY <1>1
  <2>2. u \in Nat /\ u # 0
    <3>1. PICK i \in S : TRUE
      OBVIOUS
    <3> QED BY <1>1, <2>1, <3>1
  <2>3. u - 1 \in U
    BY <2>1, <2>2
  <2> QED BY <1>1, <2>2, <2>3
<1>3. \E m \in S : \A i \in S : m >= i
  BY <1>1, <1>2
<1>4. Max(S) \in S /\ \A i \in S : Max(S) >= i
  BY <1>3 DEF Max
<1> QED BY <1>4

LEMMA MinIs ==
  ASSUME NEW S \in SUBSET Nat, S # {}
  PROVE  Min(S) \in S /\ \A i \in S : Min(S) <= i
BY LeastNatural DEF Min

\* A set of sequences with <<>>, and with Append(s, e) for each s in it, has them all.
LEMMA AllSequences ==
  ASSUME NEW S, NEW G \in SUBSET Seq(S), <<>> \in G,
         \A s \in G, e \in S : Append(s, e) \in G
  PROVE  G = Seq(S)
<1> DEFINE N == {n \in Nat : \A s \in Seq(S) : Len(s) = n => s \in G}
<1>1. 0 \in N
  BY EmptySeq
<1>2. ASSUME NEW n \in N PROVE n + 1 \in N
  <2> SUFFICES ASSUME NEW s \in Seq(S), Len(s) = n + 1 PROVE s \in G
    OBVIOUS
  <2>1. s # <<>>
    BY EmptySeq
  <2>2. PICK t \in Seq(S), e \in S : s = Append(t, e)
    BY <2>1, SequenceEmptyOrAppend
  <2>3. Len(t) = n
    BY <2>2, AppendProperties, LenProperties
  <2> QED BY <2>2, <2>3
<1>3. N = Nat
  <2>1. N \in SUBSET Nat
    OBVIOUS
  <2> HIDE DEF N
  <2> QED BY <1>1, <1>2, <2>1, AllNaturals
<1>4. ASSUME NEW s \in Seq(S) PROVE s \in G
  <2>1. Len(s) \in N
    BY <1>3, LenProperties
  <2> QED BY <2>1
<1> QED BY <1>4

-----------------------------------------------------------------------------
(***************************************************************************)
(* Loops.                                                                  *)
(***************************************************************************)

\* after is what Loop recurses by.
IsLoop(after, body, start, s) ==
  after = [i \in 0..Len(s) |-> IF i = 0 THEN start ELSE body[after[i - 1]][s[i]]]

LEMMA LoopUnfold ==
  ASSUME NEW body, NEW start, NEW s
  PROVE  Loop(body, start, s) = (CHOOSE after : IsLoop(after, body, start, s))[Len(s)]
BY DEF Loop, IsLoop

LEMMA LoopExists ==
  ASSUME NEW S, NEW body, NEW start, NEW s \in Seq(S)
  PROVE  \E after : IsLoop(after, body, start, s)
<1> DEFINE Is(h, n) == h = [i \in 0..n |-> IF i = 0 THEN start ELSE body[h[i - 1]][s[i]]]
           N == {n \in Nat : \E h : Is(h, n)}
<1>1. 0 \in N
  <2>1. Is([i \in 0..0 |-> start], 0)
    OBVIOUS
  <2> QED BY <2>1
<1>2. ASSUME NEW n \in N PROVE n + 1 \in N
  <2>1. PICK h : Is(h, n)
    OBVIOUS
  <2> DEFINE k == [i \in 0..(n + 1) |-> IF i = n + 1 THEN body[h[n]][s[n + 1]] ELSE h[i]]
  <2>2. n \in Nat
    OBVIOUS
  <2> HIDE DEF N
  <2>3. \A i \in 0..n : h[i] = IF i = 0 THEN start ELSE body[h[i - 1]][s[i]]
    BY <2>1
  <2>4. ASSUME NEW i \in 0..(n + 1)
        PROVE  k[i] = IF i = 0 THEN start ELSE body[k[i - 1]][s[i]]
    <3>1. CASE i = n + 1
      <4>1. i # 0 /\ i - 1 = n /\ n # n + 1 /\ n \in 0..(n + 1)
        BY <2>2, <3>1
      <4>2. k[n] = h[n] /\ k[n + 1] = body[h[n]][s[n + 1]]
        BY <2>2, <4>1
      <4> HIDE DEF k
      <4> QED BY <3>1, <4>1, <4>2
    <3>2. CASE i # n + 1
      <4>1. i \in 0..n /\ (i # 0 => i - 1 \in 0..n)
        BY <2>2, <3>2
      <4>2. \A j \in 0..n : k[j] = h[j]
        BY <2>2
      <4> HIDE DEF k
      <4> QED BY <2>3, <4>1, <4>2
    <3> QED BY <3>1, <3>2
  <2>5. Is(k, n + 1)
    <3>1. k = [i \in 0..(n + 1) |-> k[i]]
      OBVIOUS
    <3> HIDE DEF k
    <3> QED BY <2>4, <3>1
  <2>6. n + 1 \in Nat
    BY <2>2
  <2> HIDE DEF k, Is
  <2> QED BY <2>5, <2>6 DEF N
<1> HIDE DEF Is
<1>3. Len(s) \in N
  <2>1. N \in SUBSET Nat
    OBVIOUS
  <2> HIDE DEF N
  <2>2. N = Nat
    BY <1>1, <1>2, <2>1, AllNaturals
  <2> QED BY <2>2, LenProperties
<1> QED BY <1>3 DEF IsLoop, Is, N

\* Two recursions agree as far as their sequences do.
LEMMA LoopUnique ==
  ASSUME NEW S, NEW body, NEW start, NEW s \in Seq(S), NEW t \in Seq(S),
         NEW f, IsLoop(f, body, start, s), NEW g, IsLoop(g, body, start, t),
         Len(s) <= Len(t), \A i \in 1..Len(s) : s[i] = t[i]
  PROVE  \A i \in 0..Len(s) : f[i] = g[i]
<1> DEFINE N == {n \in Nat : n <= Len(s) => f[n] = g[n]}
<1>0. Len(s) \in Nat /\ Len(t) \in Nat
  BY LenProperties
<1>1. /\ \A i \in 0..Len(s) : f[i] = IF i = 0 THEN start ELSE body[f[i - 1]][s[i]]
      /\ \A i \in 0..Len(t) : g[i] = IF i = 0 THEN start ELSE body[g[i - 1]][t[i]]
  BY DEF IsLoop
<1>2. 0 \in N
  <2>1. 0 \in 0..Len(s) /\ 0 \in 0..Len(t)
    BY <1>0
  <2> QED BY <1>1, <2>1
<1>3. ASSUME NEW n \in N PROVE n + 1 \in N
  <2> SUFFICES ASSUME n + 1 <= Len(s) PROVE f[n + 1] = g[n + 1]
    OBVIOUS
  <2>1. f[n] = g[n] /\ s[n + 1] = t[n + 1] /\ n + 1 \in 0..Len(s) /\ n + 1 \in 0..Len(t) /\ n + 1 # 0
        /\ (n + 1) - 1 = n
    BY <1>0
  <2> QED BY <1>1, <2>1
<1>4. N \in SUBSET Nat
  OBVIOUS
<1> HIDE DEF N
<1>5. N = Nat
  BY <1>2, <1>3, <1>4, AllNaturals
<1> QED BY <1>0, <1>5 DEF N

\* A loop over nothing, and over one element more.
LEMMA LoopEmpty ==
  ASSUME NEW body, NEW start
  PROVE  Loop(body, start, <<>>) = start
<1> DEFINE s == <<>>
<1>1. PICK after : IsLoop(after, body, start, s)
  <2>1. s \in Seq({})
    OBVIOUS
  <2> HIDE DEF s
  <2> QED BY <2>1, LoopExists
<1> DEFINE c == CHOOSE f : IsLoop(f, body, start, s)
<1>2. IsLoop(c, body, start, s)
  BY <1>1
<1>3. Len(s) = 0
  OBVIOUS
<1> HIDE DEF c, s
<1>4. c[0] = start
  BY <1>2, <1>3 DEF IsLoop
<1>5. Loop(body, start, s) = start
  BY <1>3, <1>4, LoopUnfold DEF c
<1> QED BY <1>5 DEF s

LEMMA LoopAppend ==
  ASSUME NEW S, NEW body, NEW start, NEW s \in Seq(S), NEW e \in S
  PROVE  Loop(body, start, Append(s, e)) = body[Loop(body, start, s)][e]
<1> DEFINE t == Append(s, e)
           f == CHOOSE h : IsLoop(h, body, start, s)
           g == CHOOSE h : IsLoop(h, body, start, t)
<1>1. t \in Seq(S) /\ Len(t) = Len(s) + 1 /\ t[Len(s) + 1] = e /\ \A i \in 1..Len(s) : s[i] = t[i]
  BY AppendProperties
<1>2. Len(s) \in Nat
  BY LenProperties
<1>3. Loop(body, start, s) = f[Len(s)] /\ Loop(body, start, t) = g[Len(t)]
  BY LoopUnfold
<1> HIDE DEF t
<1>4. IsLoop(f, body, start, s)
  BY LoopExists
<1>5. IsLoop(g, body, start, t)
  BY <1>1, LoopExists
<1> HIDE DEF f, g
<1>6. f[Len(s)] = g[Len(s)]
  <2>1. Len(s) <= Len(t) /\ Len(s) \in 0..Len(s)
    BY <1>1, <1>2
  <2>2. \A i \in 0..Len(s) : f[i] = g[i]
    BY <1>1, <1>4, <1>5, <2>1, LoopUnique
  <2> QED BY <2>1, <2>2
<1>7. g[Len(s) + 1] = body[g[Len(s)]][e]
  <2>1. Len(s) + 1 \in 0..Len(t) /\ Len(s) + 1 # 0 /\ (Len(s) + 1) - 1 = Len(s)
    BY <1>1, <1>2
  <2> QED BY <1>1, <1>5, <2>1 DEF IsLoop
<1> QED BY <1>1, <1>3, <1>6, <1>7 DEF t

-----------------------------------------------------------------------------
(***************************************************************************)
(* Letters.                                                                *)
(***************************************************************************)

LEMMA ConcatAppend ==
  ASSUME NEW S, NEW s \in Seq(S), NEW t \in Seq(S), NEW e \in S
  PROVE  s \o Append(t, e) = Append(s \o t, e)
<1>1. Append(t, e) = t \o <<e>> /\ <<e>> \in Seq(S)
  BY AppendIsConcat
<1>2. s \o t \in Seq(S)
  BY ConcatProperties
<1>3. Append(s \o t, e) = (s \o t) \o <<e>>
  BY <1>2, AppendIsConcat
<1> QED BY <1>1, <1>3, ConcatAssociative

LEMMA TextConcat ==
  ASSUME NEW s \in Text, NEW t \in Text
  PROVE  s \o t \in Text /\ Len(s) \in Nat /\ Len(s \o t) = Len(s) + Len(t)
BY ConcatProperties, LenProperties DEF Text

LEMMA TextEmpty ==
  ASSUME NEW s \in Text
  PROVE  s \o <<>> = s /\ <<>> \o s = s
BY ConcatEmptySeq DEF Text

LEMMA TextAssociative ==
  ASSUME NEW s \in Text, NEW t \in Text, NEW u \in Text
  PROVE  (s \o t) \o u = s \o (t \o u)
BY ConcatAssociative DEF Text

LEMMA LettersEmpty == Letters(<<>>) = <<>>
BY LoopEmpty DEF Letters

LEMMA LettersType == \A t \in Text : Letters(t) \in Text
<1> DEFINE B == [out \in Text |-> [ch \in Chars |-> IF Blank(ch) THEN out ELSE Append(out, ch)]]
           G == {t \in Text : Letters(t) \in Text}
<1>1. <<>> \in G
  BY LettersEmpty, EmptySeq DEF Text
<1>2. ASSUME NEW t \in G, NEW ch \in Chars PROVE Append(t, ch) \in G
  <2>1. t \in Text /\ Letters(t) \in Text /\ Append(t, ch) \in Text
    BY AppendProperties DEF Text
  <2>2. Letters(Append(t, ch)) = B[Letters(t)][ch]
    BY <2>1, LoopAppend DEF Text, Letters
  <2>3. B[Letters(t)][ch] = IF Blank(ch) THEN Letters(t) ELSE Append(Letters(t), ch)
    BY <2>1
  <2>4. Append(Letters(t), ch) \in Text
    BY <2>1, AppendProperties DEF Text
  <2> HIDE DEF B
  <2> QED BY <2>1, <2>2, <2>3, <2>4
<1>3. G \in SUBSET Text
  OBVIOUS
<1> HIDE DEF G
<1>4. G = Text
  BY <1>1, <1>2, <1>3, AllSequences DEF Text
<1> QED BY <1>4 DEF G

LEMMA LettersAppend ==
  ASSUME NEW t \in Text, NEW ch \in Chars
  PROVE  Letters(Append(t, ch)) = IF Blank(ch) THEN Letters(t) ELSE Append(Letters(t), ch)
<1> DEFINE B == [out \in Text |-> [x \in Chars |-> IF Blank(x) THEN out ELSE Append(out, x)]]
<1>1. Letters(t) \in Text
  BY LettersType
<1>2. Letters(Append(t, ch)) = B[Letters(t)][ch]
  BY LoopAppend DEF Text, Letters
<1>3. B[Letters(t)][ch] = IF Blank(ch) THEN Letters(t) ELSE Append(Letters(t), ch)
  BY <1>1
<1> HIDE DEF B
<1> QED BY <1>2, <1>3

LEMMA LettersConcat ==
  ASSUME NEW s \in Text, NEW t \in Text
  PROVE  Letters(s \o t) = Letters(s) \o Letters(t)
<1> DEFINE G == {u \in Text : Letters(s \o u) = Letters(s) \o Letters(u)}
<1>0. Letters(s) \in Text
  BY LettersType
<1>1. <<>> \in G
  <2>1. s \o <<>> = s /\ Letters(s) \o <<>> = Letters(s)
    BY <1>0, ConcatEmptySeq DEF Text
  <2> QED BY <2>1, LettersEmpty, EmptySeq DEF Text
<1>2. ASSUME NEW u \in G, NEW ch \in Chars PROVE Append(u, ch) \in G
  <2>1. u \in Text /\ Letters(u) \in Text /\ s \o u \in Text /\ Append(u, ch) \in Text
    BY LettersType, AppendProperties, ConcatProperties DEF Text
  <2>2. s \o Append(u, ch) = Append(s \o u, ch)
    BY <2>1, ConcatAppend DEF Text
  <2>3. Letters(s) \o Append(Letters(u), ch) = Append(Letters(s) \o Letters(u), ch)
    BY <1>0, <2>1, ConcatAppend DEF Text
  <2>4. Letters(s \o u) = Letters(s) \o Letters(u)
    OBVIOUS
  <2>5. Letters(Append(s \o u, ch)) =
          IF Blank(ch) THEN Letters(s \o u) ELSE Append(Letters(s \o u), ch)
    BY <2>1, LettersAppend
  <2>6. Letters(Append(u, ch)) = IF Blank(ch) THEN Letters(u) ELSE Append(Letters(u), ch)
    BY <2>1, LettersAppend
  <2>7. Letters(s \o Append(u, ch)) = Letters(s) \o Letters(Append(u, ch))
    BY <2>2, <2>3, <2>4, <2>5, <2>6
  <2> QED BY <2>1, <2>7
<1>3. G \in SUBSET Text
  OBVIOUS
<1> HIDE DEF G
<1>4. G = Text
  BY <1>1, <1>2, <1>3, AllSequences DEF Text
<1> QED BY <1>4 DEF G

\* A text of blanks has no letter, and only such a text has none.
LEMMA NoLetters ==
  ASSUME NEW t \in Text
  PROVE  Letters(t) = <<>> <=> \A i \in 1..Len(t) : Blank(t[i])
<1> DEFINE G == {u \in Text : Letters(u) = <<>> <=> \A i \in 1..Len(u) : Blank(u[i])}
<1>1. <<>> \in G
  BY LettersEmpty, EmptySeq DEF Text
<1>2. ASSUME NEW u \in G, NEW ch \in Chars PROVE Append(u, ch) \in G
  <2> DEFINE v == Append(u, ch)
  <2>1. /\ u \in Text /\ v \in Text /\ Len(u) \in Nat
        /\ Len(v) = Len(u) + 1 /\ v[Len(u) + 1] = ch
        /\ \A i \in 1..Len(u) : v[i] = u[i]
    BY AppendProperties, LenProperties DEF Text
  <2>2. Letters(v) = IF Blank(ch) THEN Letters(u) ELSE Append(Letters(u), ch)
    BY <2>1, LettersAppend
  <2>3. Append(Letters(u), ch) # <<>>
    BY <2>1, LettersType, AppendProperties DEF Text
  <2> HIDE DEF v
  <2>4. (\A i \in 1..Len(v) : Blank(v[i])) <=> Blank(ch) /\ \A i \in 1..Len(u) : Blank(u[i])
    <3>1. \A i \in 1..Len(v) : i \in 1..Len(u) \/ i = Len(u) + 1
      BY <2>1
    <3>2. Len(u) + 1 \in 1..Len(v) /\ \A i \in 1..Len(u) : i \in 1..Len(v)
      BY <2>1
    <3> QED BY <2>1, <3>1, <3>2
  <2>5. Letters(u) = <<>> <=> \A i \in 1..Len(u) : Blank(u[i])
    OBVIOUS
  <2>6. v \in G
    BY <2>1, <2>2, <2>3, <2>4, <2>5
  <2> QED BY <2>6 DEF v
<1>3. G \in SUBSET Text
  OBVIOUS
<1> HIDE DEF G
<1>4. G = Text
  BY <1>1, <1>2, <1>3, AllSequences DEF Text
<1> QED BY <1>4 DEF G

-----------------------------------------------------------------------------
(***************************************************************************)
(* Texts cut and stripped.                                                 *)
(***************************************************************************)

LEMMA LettersCut ==
  ASSUME NEW t \in Text, NEW k \in 0..Len(t)
  PROVE  /\ SubSeq(t, 1, k) \in Text /\ Len(SubSeq(t, 1, k)) = k
         /\ SubSeq(t, k + 1, Len(t)) \in Text /\ Len(SubSeq(t, k + 1, Len(t))) = Len(t) - k
         /\ \A i \in 1..k : SubSeq(t, 1, k)[i] = t[i]
         /\ \A i \in 1..(Len(t) - k) : SubSeq(t, k + 1, Len(t))[i] = t[k + i]
         /\ Letters(t) = Letters(SubSeq(t, 1, k)) \o Letters(SubSeq(t, k + 1, Len(t)))
<1>0. Len(t) \in Nat /\ k \in Nat /\ k <= Len(t) /\ \A i \in 1..Len(t) : t[i] \in Chars
  BY LenProperties, ElementOfSeq DEF Text
<1>1. SubSeq(t, 1, k) \in Text /\ Len(SubSeq(t, 1, k)) = k /\ \A i \in 1..k : SubSeq(t, 1, k)[i] = t[i]
  <2>1. \A i \in 1..k : t[i] \in Chars
    BY <1>0
  <2>2. /\ SubSeq(t, 1, k) \in Seq(Chars)
        /\ Len(SubSeq(t, 1, k)) = IF 1 <= k THEN k - 1 + 1 ELSE 0
        /\ \A i \in 1..(k - 1 + 1) : SubSeq(t, 1, k)[i] = t[1 + i - 1]
    BY <1>0, <2>1, SubSeqProperties
  <2> QED BY <1>0, <2>2 DEF Text
<1>2. /\ SubSeq(t, k + 1, Len(t)) \in Text /\ Len(SubSeq(t, k + 1, Len(t))) = Len(t) - k
      /\ \A i \in 1..(Len(t) - k) : SubSeq(t, k + 1, Len(t))[i] = t[k + i]
  <2>1. \A i \in (k + 1)..Len(t) : t[i] \in Chars
    BY <1>0
  <2>2. /\ SubSeq(t, k + 1, Len(t)) \in Seq(Chars)
        /\ Len(SubSeq(t, k + 1, Len(t))) = IF k + 1 <= Len(t) THEN Len(t) - (k + 1) + 1 ELSE 0
        /\ \A i \in 1..(Len(t) - (k + 1) + 1) : SubSeq(t, k + 1, Len(t))[i] = t[(k + 1) + i - 1]
    BY <1>0, <2>1, SubSeqProperties
  <2> QED BY <1>0, <2>2 DEF Text
<1>3. SubSeq(t, 1, k) \o SubSeq(t, k + 1, Len(t)) = t
  <2>1. SubSeq(t, 1, k) \o SubSeq(t, k + 1, Len(t)) = SubSeq(t, 1, Len(t))
    <3>1. 1 \in 1..(Len(t) + 1) /\ k \in (1 - 1)..Len(t) /\ Len(t) \in k..Len(t)
      BY <1>0
    <3> QED BY <3>1, ConcatAdjacentSubSeq DEF Text
  <2> QED BY <2>1, SubSeqFull DEF Text
<1> QED BY <1>1, <1>2, <1>3, LettersConcat

\* A text without its end of blanks.
LEMMA RStripIs ==
  ASSUME NEW t \in Text
  PROVE  /\ RStrip(t) \in Text
         /\ Len(RStrip(t)) <= Len(t)
         /\ Letters(RStrip(t)) = Letters(t)
         /\ Letters(t) = <<>> => RStrip(t) = <<>>
<1>0. Len(t) \in Nat /\ DOMAIN t = 1..Len(t)
  BY LenProperties DEF Text
<1> DEFINE S == Solid(t) \cup {0}
           k == Max(S)
<1>1. k \in S /\ \A i \in S : i <= k
  <2>1. S \in SUBSET Nat /\ S # {} /\ \A i \in S : i <= Len(t)
    BY <1>0 DEF Solid
  <2> HIDE DEF S
  <2> QED BY <1>0, <2>1, MaxIs
<1>2. k \in 0..Len(t)
  BY <1>0, <1>1 DEF Solid
<1>3. \A i \in (k + 1)..Len(t) : Blank(t[i])
  <2>1. \A i \in (k + 1)..Len(t) : i \in DOMAIN t /\ ~ (i <= k)
    BY <1>0, <1>2
  <2> HIDE DEF k
  <2> QED BY <1>1, <2>1 DEF Solid
<1>4. k # 0 => k \in 1..Len(t) /\ ~Blank(t[k])
  BY <1>0, <1>1 DEF Solid
<1>5. RStrip(t) = SubSeq(t, 1, k)
  BY DEF RStrip
<1> HIDE DEF k, S
<1>6. Letters(SubSeq(t, k + 1, Len(t))) = <<>>
  <2>1. \A i \in 1..(Len(t) - k) : k + i \in (k + 1)..Len(t)
    BY <1>0, <1>2
  <2> DEFINE rest == SubSeq(t, k + 1, Len(t))
  <2>2. rest \in Text /\ Len(rest) = Len(t) - k /\ \A i \in 1..(Len(t) - k) : rest[i] = t[k + i]
    BY <1>2, LettersCut
  <2> HIDE DEF rest
  <2>3. Letters(rest) = <<>>
    BY <1>3, <2>1, <2>2, NoLetters
  <2> QED BY <2>3 DEF rest
<1>7. Letters(t) = Letters(RStrip(t))
  <2>1. Letters(SubSeq(t, 1, k)) \o <<>> = Letters(SubSeq(t, 1, k))
    BY <1>2, LettersCut, LettersType, ConcatEmptySeq DEF Text
  <2> QED BY <1>2, <1>5, <1>6, <2>1, LettersCut
<1>8. Letters(t) = <<>> => k = 0
  BY <1>4, NoLetters
<1>9. k = 0 => RStrip(t) = <<>>
  BY <1>5, SubSeqEmpty
<1>10. RStrip(t) \in Text /\ Len(RStrip(t)) <= Len(t)
  BY <1>0, <1>2, <1>5, LettersCut
<1> QED BY <1>7, <1>8, <1>9, <1>10

LEMMA LStripIs ==
  ASSUME NEW t \in Text
  PROVE  /\ LStrip(t) \in Text
         /\ Len(LStrip(t)) <= Len(t)
         /\ Letters(LStrip(t)) = Letters(t)
         /\ Letters(t) = <<>> => LStrip(t) = <<>>
<1>0. Len(t) \in Nat /\ DOMAIN t = 1..Len(t)
  BY LenProperties DEF Text
<1> DEFINE S == Solid(t) \cup {Len(t) + 1}
           m == Min(S)
           k == m - 1
<1>1. m \in S /\ \A i \in S : m <= i
  <2>1. S \in SUBSET Nat /\ S # {}
    BY <1>0 DEF Solid
  <2> HIDE DEF S
  <2> QED BY <2>1, MinIs
<1>2. k \in 0..Len(t) /\ m = k + 1
  BY <1>0, <1>1 DEF Solid
<1>3. \A i \in 1..k : Blank(t[i])
  <2>1. \A i \in 1..k : i \in DOMAIN t /\ ~ (m <= i)
    BY <1>0, <1>2
  <2> HIDE DEF k, m
  <2> QED BY <1>1, <2>1 DEF Solid
<1>4. k # Len(t) => m \in 1..Len(t) /\ ~Blank(t[m])
  BY <1>0, <1>1 DEF Solid
<1>5. LStrip(t) = SubSeq(t, k + 1, Len(t))
  <2>1. LStrip(t) = SubSeq(t, m, Len(t))
    BY DEF LStrip
  <2> HIDE DEF k, m
  <2> QED BY <1>2, <2>1
<1> HIDE DEF k, m, S
<1>6. Letters(SubSeq(t, 1, k)) = <<>>
  BY <1>2, <1>3, LettersCut, NoLetters
<1>7. Letters(t) = Letters(LStrip(t))
  <2>1. <<>> \o Letters(SubSeq(t, k + 1, Len(t))) = Letters(SubSeq(t, k + 1, Len(t)))
    BY <1>2, LettersCut, LettersType, ConcatEmptySeq DEF Text
  <2> QED BY <1>2, <1>5, <1>6, <2>1, LettersCut
<1>8. Letters(t) = <<>> => k = Len(t)
  BY <1>2, <1>4, NoLetters
<1>9. k = Len(t) => LStrip(t) = <<>>
  BY <1>0, <1>5, SubSeqEmpty
<1>10. LStrip(t) \in Text /\ Len(LStrip(t)) <= Len(t)
  BY <1>0, <1>2, <1>5, LettersCut
<1> QED BY <1>7, <1>8, <1>9, <1>10

LEMMA StripIs ==
  ASSUME NEW t \in Text
  PROVE  /\ Strip(t) \in Text
         /\ Len(Strip(t)) <= Len(t)
         /\ Letters(Strip(t)) = Letters(t)
         /\ Letters(t) = <<>> <=> Strip(t) = <<>>
<1>1. RStrip(t) \in Text /\ Len(RStrip(t)) <= Len(t) /\ Letters(RStrip(t)) = Letters(t)
  BY RStripIs
<1>2. /\ Strip(t) \in Text /\ Len(Strip(t)) <= Len(RStrip(t))
      /\ Letters(Strip(t)) = Letters(RStrip(t))
      /\ Letters(RStrip(t)) = <<>> => Strip(t) = <<>>
  BY <1>1, LStripIs DEF Strip
<1>3. Len(Strip(t)) \in Nat /\ Len(RStrip(t)) \in Nat /\ Len(t) \in Nat
  BY <1>1, <1>2, LenProperties DEF Text
<1>4. Strip(t) = <<>> => Letters(t) = <<>>
  BY <1>1, <1>2, LettersEmpty
<1> QED BY <1>1, <1>2, <1>3, <1>4

-----------------------------------------------------------------------------
(***************************************************************************)
(* Letters of several texts, and lines.                                    *)
(***************************************************************************)

LEMMA LettersOfEmpty == LettersOf(<<>>) = <<>>
BY LoopEmpty DEF LettersOf

LEMMA LettersOfNext ==
  ASSUME NEW ts \in Seq(Text), LettersOf(ts) \in Text, NEW t \in Text
  PROVE  LettersOf(Append(ts, t)) = LettersOf(ts) \o Letters(t)
<1> DEFINE B == [out \in Text |-> [x \in Text |-> out \o Letters(x)]]
<1>1. \A us : LettersOf(us) = Loop(B, <<>>, us)
  BY DEF LettersOf
<1>2. B[LettersOf(ts)][t] = LettersOf(ts) \o Letters(t)
  OBVIOUS
<1> HIDE DEF B
<1>3. Loop(B, <<>>, Append(ts, t)) = B[Loop(B, <<>>, ts)][t]
  BY LoopAppend
<1> QED BY <1>1, <1>2, <1>3

LEMMA LettersOfType == \A ts \in Seq(Text) : LettersOf(ts) \in Text
<1> DEFINE G == {ts \in Seq(Text) : LettersOf(ts) \in Text}
<1>1. <<>> \in G
  BY LettersOfEmpty, EmptySeq DEF Text
<1>2. ASSUME NEW ts \in G, NEW t \in Text PROVE Append(ts, t) \in G
  <2>1. ts \in Seq(Text) /\ LettersOf(ts) \in Text /\ Letters(t) \in Text
    BY LettersType
  <2>2. LettersOf(ts) \o Letters(t) \in Text
    BY <2>1, ConcatProperties DEF Text
  <2>3. Append(ts, t) \in Seq(Text)
    BY <2>1, AppendProperties
  <2> QED BY <2>1, <2>2, <2>3, LettersOfNext
<1>3. G \in SUBSET Seq(Text)
  OBVIOUS
<1> HIDE DEF G
<1>4. G = Seq(Text)
  BY <1>1, <1>2, <1>3, AllSequences
<1> QED BY <1>4 DEF G

LEMMA LettersOfAppend ==
  ASSUME NEW ts \in Seq(Text), NEW t \in Text
  PROVE  LettersOf(Append(ts, t)) = LettersOf(ts) \o Letters(t)
BY LettersOfNext, LettersOfType

LEMMA LettersOfConcat ==
  ASSUME NEW ss \in Seq(Text), NEW ts \in Seq(Text)
  PROVE  LettersOf(ss \o ts) = LettersOf(ss) \o LettersOf(ts)
<1> DEFINE G == {us \in Seq(Text) : LettersOf(ss \o us) = LettersOf(ss) \o LettersOf(us)}
<1>1. <<>> \in G
  <2>1. ss \o <<>> = ss /\ LettersOf(ss) \o <<>> = LettersOf(ss)
    BY LettersOfType, ConcatEmptySeq DEF Text
  <2> QED BY <2>1, LettersOfEmpty, EmptySeq
<1>2. ASSUME NEW us \in G, NEW t \in Text PROVE Append(us, t) \in G
  <2>1. us \in Seq(Text) /\ ss \o us \in Seq(Text) /\ Append(us, t) \in Seq(Text)
    BY AppendProperties, ConcatProperties
  <2>2. ss \o Append(us, t) = Append(ss \o us, t)
    BY <2>1, ConcatAppend
  <2>3. LettersOf(ss) \in Text /\ LettersOf(us) \in Text /\ Letters(t) \in Text
    BY <2>1, LettersOfType, LettersType
  <2>4. (LettersOf(ss) \o LettersOf(us)) \o Letters(t) = LettersOf(ss) \o (LettersOf(us) \o Letters(t))
    BY <2>3, TextAssociative
  <2>5. LettersOf(ss \o us) = LettersOf(ss) \o LettersOf(us)
    OBVIOUS
  <2>6. LettersOf(Append(ss \o us, t)) = LettersOf(ss \o us) \o Letters(t)
    BY <2>1, LettersOfAppend
  <2>7. LettersOf(Append(us, t)) = LettersOf(us) \o Letters(t)
    BY <2>1, LettersOfAppend
  <2>8. LettersOf(ss \o Append(us, t)) = LettersOf(ss) \o LettersOf(Append(us, t))
    BY <2>2, <2>4, <2>5, <2>6, <2>7
  <2> QED BY <2>1, <2>8
<1>3. G \in SUBSET Seq(Text)
  OBVIOUS
<1> HIDE DEF G
<1>4. G = Seq(Text)
  BY <1>1, <1>2, <1>3, AllSequences
<1> QED BY <1>4 DEF G

\* Texts with the same letters, one by one, have them together.
LEMMA LettersOfSame ==
  ASSUME NEW ss \in Seq(Text), NEW ts \in Seq(Text), Len(ss) = Len(ts),
         \A i \in 1..Len(ss) : Letters(ss[i]) = Letters(ts[i])
  PROVE  LettersOf(ss) = LettersOf(ts)
<1> DEFINE Same(us, vs) == Len(us) = Len(vs) /\ \A i \in 1..Len(us) : Letters(us[i]) = Letters(vs[i])
           G == {us \in Seq(Text) : \A vs \in Seq(Text) : Same(us, vs) => LettersOf(us) = LettersOf(vs)}
<1>1. <<>> \in G
  BY EmptySeq
<1>2. ASSUME NEW us \in G, NEW t \in Text PROVE Append(us, t) \in G
  <2> DEFINE us2 == Append(us, t)
  <2>1. us \in Seq(Text) /\ us2 \in Seq(Text) /\ Len(us) \in Nat
        /\ Len(us2) = Len(us) + 1 /\ us2[Len(us) + 1] = t
        /\ \A i \in 1..Len(us) : us2[i] = us[i]
    BY AppendProperties, LenProperties
  <2>2. LettersOf(us2) = LettersOf(us) \o Letters(t)
    BY <2>1, LettersOfAppend
  <2> HIDE DEF us2
  <2>3. ASSUME NEW ws \in Seq(Text), Same(us2, ws) PROVE LettersOf(us2) = LettersOf(ws)
    <3>1. ws # <<>>
      BY <2>1, <2>3, EmptySeq
    <3>2. PICK vs \in Seq(Text), u \in Text : ws = Append(vs, u)
      BY <3>1, SequenceEmptyOrAppend
    <3>3. /\ Len(vs) \in Nat /\ Len(ws) = Len(vs) + 1 /\ ws[Len(vs) + 1] = u
          /\ \A i \in 1..Len(vs) : ws[i] = vs[i]
      BY <3>2, AppendProperties, LenProperties
    <3>4. Len(us) = Len(vs)
      BY <2>1, <2>3, <3>3
    <3>5. Letters(t) = Letters(u) /\ \A i \in 1..Len(us) : Letters(us[i]) = Letters(vs[i])
      <4>1. Len(us) + 1 \in 1..Len(us2) /\ \A i \in 1..Len(us) : i \in 1..Len(us2)
        BY <2>1
      <4> QED BY <2>1, <2>3, <3>3, <3>4, <4>1
    <3>6. LettersOf(us) = LettersOf(vs)
      BY <3>4, <3>5
    <3>7. LettersOf(ws) = LettersOf(vs) \o Letters(u)
      BY <3>2, LettersOfAppend
    <3> QED BY <2>2, <3>5, <3>6, <3>7
  <2> HIDE DEF Same
  <2>4. us2 \in G
    BY <2>1, <2>3
  <2> QED BY <2>4 DEF us2
<1>3. G \in SUBSET Seq(Text)
  OBVIOUS
<1> HIDE DEF G
<1>4. G = Seq(Text)
  BY <1>1, <1>2, <1>3, AllSequences
<1>5. ss \in G
  BY <1>4
<1> QED BY <1>5 DEF G

LEMMA JoinedNone ==
  ASSUME NEW sep, NEW p \in Text
  PROVE  Joined(<<>>, sep) = <<>> /\ Joined(<<p>>, sep) = p
<1>1. <<p>> # <<>> /\ Head(<<p>>) = p /\ Tail(<<p>>) = <<>>
  OBVIOUS
<1> QED BY <1>1, LoopEmpty DEF Joined

LEMMA JoinedNext ==
  ASSUME NEW sep \in Text, NEW ps \in Seq(Text), ps # <<>>, Joined(ps, sep) \in Text, NEW p \in Text
  PROVE  Joined(Append(ps, p), sep) = Joined(ps, sep) \o sep \o p
<1> DEFINE B == [t \in Text |-> [x \in Text |-> t \o sep \o x]]
<1>1. Append(ps, p) # <<>> /\ Head(Append(ps, p)) = Head(ps) /\ Tail(Append(ps, p)) = Append(Tail(ps), p)
  BY AppendProperties, HeadTailAppend
<1>2. Head(ps) \in Text /\ Tail(ps) \in Seq(Text)
  BY HeadTailProperties
<1>3. Joined(ps, sep) = Loop(B, Head(ps), Tail(ps))
  BY DEF Joined
<1>4. Joined(Append(ps, p), sep) = Loop(B, Head(ps), Append(Tail(ps), p))
  BY <1>1 DEF Joined
<1>5. B[Joined(ps, sep)][p] = Joined(ps, sep) \o sep \o p
  OBVIOUS
<1> HIDE DEF B
<1> DEFINE head == Head(ps)
           tail == Tail(ps)
<1>6. Loop(B, head, Append(tail, p)) = B[Loop(B, head, tail)][p]
  <2>1. tail \in Seq(Text)
    BY <1>2
  <2> HIDE DEF head, tail
  <2> QED BY <2>1, LoopAppend
<1> QED BY <1>3, <1>4, <1>5, <1>6

LEMMA JoinedType == \A sep \in Text : \A ps \in Seq(Text) : Joined(ps, sep) \in Text
<1> SUFFICES ASSUME NEW sep \in Text PROVE \A ps \in Seq(Text) : Joined(ps, sep) \in Text
  OBVIOUS
<1> DEFINE G == {ps \in Seq(Text) : Joined(ps, sep) \in Text}
<1>1. <<>> \in G
  BY EmptySeq DEF Joined, Text
<1>2. ASSUME NEW ps \in G, NEW p \in Text PROVE Append(ps, p) \in G
  <2>1. ps \in Seq(Text) /\ Joined(ps, sep) \in Text /\ Append(ps, p) \in Seq(Text)
    BY AppendProperties
  <2>2. CASE ps = <<>>
    <3>1. Append(ps, p) = <<p>>
      BY <2>2
    <3> QED BY <2>1, <3>1, JoinedNone
  <2>3. CASE ps # <<>>
    <3>1. Joined(ps, sep) \o sep \o p \in Text
      BY <2>1, ConcatProperties DEF Text
    <3> QED BY <2>1, <2>3, <3>1, JoinedNext
  <2> QED BY <2>2, <2>3
<1>3. G \in SUBSET Seq(Text)
  OBVIOUS
<1> HIDE DEF G
<1>4. G = Seq(Text)
  BY <1>1, <1>2, <1>3, AllSequences
<1> QED BY <1>4 DEF G

LEMMA JoinedAppend ==
  ASSUME NEW sep \in Text, NEW ps \in Seq(Text), NEW p \in Text
  PROVE  Joined(Append(ps, p), sep) = IF ps = <<>> THEN p ELSE Joined(ps, sep) \o sep \o p
<1>1. CASE ps = <<>>
  <2>1. Append(ps, p) = <<p>>
    BY <1>1
  <2> QED BY <1>1, <2>1, JoinedNone
<1>2. CASE ps # <<>>
  BY <1>2, JoinedNext, JoinedType
<1> QED BY <1>1, <1>2

\* Blanks between texts add no letters.
LEMMA JoinedLetters ==
  ASSUME NEW sep \in Text, Letters(sep) = <<>>
  PROVE  \A ps \in Seq(Text) : Letters(Joined(ps, sep)) = LettersOf(ps)
<1> DEFINE G == {ps \in Seq(Text) : Letters(Joined(ps, sep)) = LettersOf(ps)}
<1>1. <<>> \in G
  BY EmptySeq, LettersEmpty, LettersOfEmpty DEF Joined, Text
<1>2. ASSUME NEW ps \in G, NEW p \in Text PROVE Append(ps, p) \in G
  <2>1. ps \in Seq(Text) /\ Letters(Joined(ps, sep)) = LettersOf(ps) /\ Append(ps, p) \in Seq(Text)
    BY AppendProperties
  <2>2. LettersOf(Append(ps, p)) = LettersOf(ps) \o Letters(p)
    BY <2>1, LettersOfAppend
  <2>3. Letters(p) \in Text /\ LettersOf(ps) \in Text /\ Joined(ps, sep) \in Text
    BY <2>1, LettersType, LettersOfType, JoinedType
  <2>4. CASE ps = <<>>
    <3>1. <<>> \o Letters(p) = Letters(p)
      BY <2>3, ConcatEmptySeq DEF Text
    <3>2. Joined(Append(ps, p), sep) = p
      BY <2>1, <2>4, JoinedAppend
    <3> QED BY <2>1, <2>2, <2>4, <3>1, <3>2, LettersOfEmpty
  <2>5. CASE ps # <<>>
    <3>1. Joined(Append(ps, p), sep) = Joined(ps, sep) \o sep \o p
      BY <2>1, <2>5, JoinedAppend
    <3>2. Joined(ps, sep) \o sep \in Text
      BY <2>3, ConcatProperties DEF Text
    <3>3. Letters(Joined(ps, sep) \o sep) = LettersOf(ps)
      <4>1. Letters(Joined(ps, sep) \o sep) = Letters(Joined(ps, sep)) \o Letters(sep)
        BY <2>3, LettersConcat
      <4>2. LettersOf(ps) \o <<>> = LettersOf(ps)
        BY <2>3, TextEmpty
      <4> QED BY <2>1, <4>1, <4>2
    <3>4. Letters((Joined(ps, sep) \o sep) \o p) = LettersOf(ps) \o Letters(p)
      BY <3>2, <3>3, LettersConcat
    <3> QED BY <2>1, <2>2, <3>1, <3>4
  <2> QED BY <2>4, <2>5
<1>3. G \in SUBSET Seq(Text)
  OBVIOUS
<1> HIDE DEF G
<1>4. G = Seq(Text)
  BY <1>1, <1>2, <1>3, AllSequences
<1> QED BY <1>4 DEF G

\* Shorter texts, one by one, are shorter when they are joined.
LEMMA JoinedShorter ==
  ASSUME NEW sep \in Text, NEW ss \in Seq(Text), NEW ts \in Seq(Text), Len(ss) = Len(ts),
         \A i \in 1..Len(ss) : Len(ss[i]) <= Len(ts[i])
  PROVE  Len(Joined(ss, sep)) <= Len(Joined(ts, sep))
<1> DEFINE Shorter(us, vs) == Len(us) = Len(vs) /\ \A i \in 1..Len(us) : Len(us[i]) <= Len(vs[i])
           G == {us \in Seq(Text) : \A vs \in Seq(Text) :
                   Shorter(us, vs) => Len(Joined(us, sep)) <= Len(Joined(vs, sep))}
<1>1. <<>> \in G
  <2>1. Len(Joined(<<>>, sep)) = 0
    BY EmptySeq DEF Joined
  <2>2. \A vs \in Seq(Text) : Len(Joined(vs, sep)) \in Nat
    BY JoinedType, LenProperties DEF Text
  <2> QED BY <2>1, <2>2, EmptySeq
<1>2. ASSUME NEW us \in G, NEW t \in Text PROVE Append(us, t) \in G
  <2> DEFINE us2 == Append(us, t)
  <2>1. us \in Seq(Text) /\ us2 \in Seq(Text) /\ Len(us) \in Nat
        /\ Len(us2) = Len(us) + 1 /\ us2[Len(us) + 1] = t
        /\ \A i \in 1..Len(us) : us2[i] = us[i]
    BY AppendProperties, LenProperties
  <2>2. Joined(us2, sep) = IF us = <<>> THEN t ELSE Joined(us, sep) \o sep \o t
    BY <2>1, JoinedAppend
  <2> HIDE DEF us2
  <2>3. ASSUME NEW ws \in Seq(Text), Shorter(us2, ws)
        PROVE  Len(Joined(us2, sep)) <= Len(Joined(ws, sep))
    <3>1. ws # <<>>
      BY <2>1, <2>3, EmptySeq
    <3>2. PICK vs \in Seq(Text), u \in Text : ws = Append(vs, u)
      BY <3>1, SequenceEmptyOrAppend
    <3>3. /\ Len(vs) \in Nat /\ Len(ws) = Len(vs) + 1 /\ ws[Len(vs) + 1] = u
          /\ \A i \in 1..Len(vs) : ws[i] = vs[i]
      BY <3>2, AppendProperties, LenProperties
    <3>4. Len(us) = Len(vs)
      BY <2>1, <2>3, <3>3
    <3>5. Len(t) <= Len(u) /\ \A i \in 1..Len(us) : Len(us[i]) <= Len(vs[i])
      <4>1. Len(us) + 1 \in 1..Len(us2) /\ \A i \in 1..Len(us) : i \in 1..Len(us2)
        BY <2>1
      <4> QED BY <2>1, <2>3, <3>3, <3>4, <4>1
    <3>6. Len(Joined(us, sep)) <= Len(Joined(vs, sep))
      BY <3>4, <3>5
    <3>7. Joined(ws, sep) = IF vs = <<>> THEN u ELSE Joined(vs, sep) \o sep \o u
      BY <3>2, JoinedAppend
    <3>8. us = <<>> <=> vs = <<>>
      BY <2>1, <3>4, EmptySeq
    <3>9. /\ Len(Joined(us, sep) \o sep \o t) = Len(Joined(us, sep)) + Len(sep) + Len(t)
          /\ Len(Joined(vs, sep) \o sep \o u) = Len(Joined(vs, sep)) + Len(sep) + Len(u)
      BY <2>1, JoinedType, TextConcat
    <3>10. /\ Len(Joined(us, sep)) \in Nat /\ Len(Joined(vs, sep)) \in Nat
           /\ Len(sep) \in Nat /\ Len(t) \in Nat /\ Len(u) \in Nat
      BY <2>1, JoinedType, TextConcat
    <3> QED BY <2>2, <3>5, <3>6, <3>7, <3>8, <3>9, <3>10
  <2> HIDE DEF Shorter
  <2>4. us2 \in G
    BY <2>1, <2>3
  <2> QED BY <2>4 DEF us2
<1>3. G \in SUBSET Seq(Text)
  OBVIOUS
<1> HIDE DEF G
<1>4. G = Seq(Text)
  BY <1>1, <1>2, <1>3, AllSequences
<1>5. ss \in G
  BY <1>4
<1> QED BY <1>5 DEF G

LEMMA Breaks ==
  /\ NL \in Chars /\ Blank(NL)
  /\ <<NL>> \in Text /\ Letters(<<NL>>) = <<>>
  /\ <<NL, NL>> \in Text /\ Letters(<<NL, NL>>) = <<>> /\ Len(<<NL, NL>>) = 2
<1>1. NL \in Chars /\ Blank(NL)
  BY TextAssumption DEF Blank
<1>2. <<NL>> \in Text /\ <<NL, NL>> \in Text
  BY <1>1 DEF Text
<1>3. Letters(<<NL>>) = <<>> /\ Letters(<<NL, NL>>) = <<>>
  <2> DEFINE one == <<NL>>
             two == <<NL, NL>>
  <2>1. Len(one) = 1 /\ one[1] = NL /\ Len(two) = 2 /\ two[1] = NL /\ two[2] = NL
    OBVIOUS
  <2>2. one \in Text /\ two \in Text
    BY <1>2
  <2> HIDE DEF one, two
  <2>3. Letters(one) = <<>> /\ Letters(two) = <<>>
    BY <1>1, <2>1, <2>2, NoLetters
  <2> QED BY <2>3 DEF one, two
<1> QED BY <1>1, <1>2, <1>3

\* What the loop of Lines has of the text u so far.
LinesSoFar(at, u) ==
  /\ at \in [lines : Seq(Text), line : Text]
  /\ Joined(Append(at.lines, at.line), <<NL>>) = u

LEMMA NextLineKeeps ==
  ASSUME NEW u \in Text, NEW ch \in Chars, NEW at, LinesSoFar(at, u)
  PROVE  LinesSoFar(NextLine[at][ch], Append(u, ch))
<1>1. PICK ls \in Seq(Text), line \in Text : at = [lines |-> ls, line |-> line]
  BY DEF LinesSoFar
<1>2. u = Joined(Append(ls, line), <<NL>>)
  BY <1>1 DEF LinesSoFar
<1>3. Append(ls, line) \in Seq(Text) /\ Append(ls, line) # <<>> /\ <<>> \in Text /\ Append(line, ch) \in Text
  <2>1. Append(ls, line) \in Seq(Text) /\ Append(ls, line) # <<>>
    BY AppendProperties
  <2> QED BY <2>1, AppendProperties, EmptySeq DEF Text
<1>4. CASE ch = NL
  <2>1. NextLine[at][ch] = [lines |-> Append(ls, line), line |-> <<>>]
    BY <1>1, <1>4 DEF NextLine
  <2>2. Joined(Append(Append(ls, line), <<>>), <<NL>>) = (u \o <<NL>>) \o <<>>
    <3> DEFINE ps == Append(ls, line)
    <3>1. ps \in Seq(Text) /\ ps # <<>> /\ u = Joined(ps, <<NL>>)
      BY <1>2, <1>3
    <3> HIDE DEF ps
    <3>2. Joined(Append(ps, <<>>), <<NL>>) = (u \o <<NL>>) \o <<>>
      BY <1>3, <3>1, Breaks, JoinedAppend
    <3> QED BY <3>2 DEF ps
  <2>3. u \o <<NL>> \in Text /\ (u \o <<NL>>) \o <<>> = u \o <<NL>>
    BY Breaks, TextConcat, TextEmpty
  <2>4. u \o <<NL>> = Append(u, ch)
    BY <1>4, AppendIsConcat DEF Text
  <2> QED BY <1>3, <2>1, <2>2, <2>3, <2>4 DEF LinesSoFar
<1>5. CASE ch # NL
  <2>1. NextLine[at][ch] = [lines |-> ls, line |-> Append(line, ch)]
    BY <1>1, <1>5 DEF NextLine
  <2>2. Joined(Append(ls, Append(line, ch)), <<NL>>) = Append(u, ch)
    <3>1. CASE ls = <<>>
      <4>1. u = line
        BY <1>2, <3>1, Breaks, JoinedAppend
      <4> QED BY <1>3, <3>1, <4>1, Breaks, JoinedAppend
    <3>2. CASE ls # <<>>
      <4> DEFINE j == Joined(ls, <<NL>>) \o <<NL>>
      <4>1. j \in Text
        BY Breaks, JoinedType, TextConcat
      <4>2. u = j \o line
        <5>1. Joined(Append(ls, line), <<NL>>) = j \o line
          BY <3>2, Breaks, JoinedAppend
        <5> HIDE DEF j
        <5> QED BY <1>2, <5>1
      <4>3. Joined(Append(ls, Append(line, ch)), <<NL>>) = j \o Append(line, ch)
        BY <1>3, <3>2, Breaks, JoinedAppend
      <4> HIDE DEF j
      <4>4. j \o Append(line, ch) = Append(j \o line, ch)
        BY <4>1, ConcatAppend DEF Text
      <4> QED BY <4>2, <4>3, <4>4
    <3> QED BY <3>1, <3>2
  <2> QED BY <1>3, <2>1, <2>2 DEF LinesSoFar
<1> QED BY <1>4, <1>5

LEMMA LinesIs ==
  ASSUME NEW t \in Text
  PROVE  /\ Lines(t) \in Seq(Text) /\ Lines(t) # <<>>
         /\ Joined(Lines(t), <<NL>>) = t
         /\ LettersOf(Lines(t)) = Letters(t)
<1> DEFINE start == [lines |-> <<>>, line |-> <<>>]
           end(u) == Loop(NextLine, start, u)
           G == {u \in Text : LinesSoFar(end(u), u)}
<1>1. <<>> \in G
  <2>1. end(<<>>) = start
    BY LoopEmpty
  <2>2. <<>> \in Seq(Text) /\ <<>> \in Text
    BY EmptySeq DEF Text
  <2>3. Joined(Append(<<>>, <<>>), <<NL>>) = <<>>
    BY <2>2, Breaks, JoinedAppend
  <2>4. LinesSoFar(start, <<>>)
    BY <2>2, <2>3 DEF LinesSoFar
  <2> HIDE DEF end, start
  <2> QED BY <2>1, <2>2, <2>4
<1> HIDE DEF start
<1>2. ASSUME NEW u \in G, NEW ch \in Chars PROVE Append(u, ch) \in G
  <2>1. u \in Text /\ LinesSoFar(end(u), u) /\ Append(u, ch) \in Text
    BY AppendProperties DEF Text
  <2>2. end(Append(u, ch)) = NextLine[end(u)][ch]
    BY <2>1, LoopAppend DEF Text
  <2> HIDE DEF end
  <2> QED BY <2>1, <2>2, NextLineKeeps
<1>3. G \in SUBSET Text
  OBVIOUS
<1> HIDE DEF G
<1>4. G = Text
  BY <1>1, <1>2, <1>3, AllSequences DEF Text
<1>5. LinesSoFar(end(t), t)
  BY <1>4 DEF G
<1>6. Lines(t) = Append(end(t).lines, end(t).line)
  BY DEF Lines, start
<1> HIDE DEF end
<1>7. end(t).lines \in Seq(Text) /\ end(t).line \in Text /\ Joined(Lines(t), <<NL>>) = t
  BY <1>5, <1>6 DEF LinesSoFar
<1>8. Lines(t) \in Seq(Text) /\ Lines(t) # <<>>
  BY <1>6, <1>7, AppendProperties
<1> QED BY <1>7, <1>8, Breaks, JoinedLetters

LEMMA TrimLinesIs ==
  ASSUME NEW t \in Text
  PROVE  /\ TrimLines(t) \in Text
         /\ Len(TrimLines(t)) <= Len(t)
         /\ Letters(TrimLines(t)) = Letters(t)
<1> DEFINE ls == Lines(t)
           ss == [i \in DOMAIN ls |-> RStrip(ls[i])]
<1>1. ls \in Seq(Text) /\ Joined(ls, <<NL>>) = t /\ LettersOf(ls) = Letters(t)
  BY LinesIs
<1>2. TrimLines(t) = Joined(ss, <<NL>>)
  BY DEF TrimLines
<1> HIDE DEF ls
<1>3. Len(ls) \in Nat /\ DOMAIN ls = 1..Len(ls) /\ \A i \in 1..Len(ls) : ls[i] \in Text
  BY <1>1, LenProperties, ElementOfSeq
<1>4. \A i \in 1..Len(ls) : /\ RStrip(ls[i]) \in Text
                            /\ Len(RStrip(ls[i])) <= Len(ls[i])
                            /\ Letters(RStrip(ls[i])) = Letters(ls[i])
  BY <1>3, RStripIs
<1>5. ss \in Seq(Text) /\ Len(ss) = Len(ls) /\ \A i \in 1..Len(ls) : ss[i] = RStrip(ls[i])
  <2>1. ss = [i \in 1..Len(ls) |-> RStrip(ls[i])]
    BY <1>3
  <2> HIDE DEF ss
  <2>2. ss \in [1..Len(ls) -> Text]
    BY <1>4, <2>1
  <2> QED BY <1>3, <2>1, <2>2
<1> HIDE DEF ss
<1>6. LettersOf(ss) = LettersOf(ls)
  BY <1>1, <1>4, <1>5, LettersOfSame
<1>7. Len(Joined(ss, <<NL>>)) <= Len(Joined(ls, <<NL>>))
  BY <1>1, <1>4, <1>5, Breaks, JoinedShorter
<1>8. Letters(Joined(ss, <<NL>>)) = LettersOf(ss) /\ Joined(ss, <<NL>>) \in Text
  BY <1>5, Breaks, JoinedLetters, JoinedType
<1> QED BY <1>1, <1>2, <1>6, <1>7, <1>8

-----------------------------------------------------------------------------
(***************************************************************************)
(* Compression.                                                            *)
(***************************************************************************)

LEMMA FirstsType ==
  ASSUME NEW ls \in Seq(Text)
  PROVE  /\ Firsts(ls) \in Seq(Text) /\ Len(Firsts(ls)) = Len(ls)
         /\ \A i \in 1..Len(ls) : Firsts(ls)[i] =
              IF \E j \in 1..(i - 1) : Strip(ls[j]) = Strip(ls[i]) THEN <<>> ELSE ls[i]
<1>1. Len(ls) \in Nat /\ DOMAIN ls = 1..Len(ls) /\ \A i \in 1..Len(ls) : ls[i] \in Text
  BY LenProperties, ElementOfSeq
<1> DEFINE first(i) == IF \E j \in 1..(i - 1) : Strip(ls[j]) = Strip(ls[i]) THEN <<>> ELSE ls[i]
<1>2. \A i \in 1..Len(ls) : first(i) \in Text
  BY <1>1, EmptySeq DEF Text
<1>3. Firsts(ls) = [i \in 1..Len(ls) |-> first(i)]
  BY <1>1 DEF Firsts
<1>4. \A i \in 1..Len(ls) : first(i) = IF \E j \in 1..(i - 1) : Strip(ls[j]) = Strip(ls[i])
                                       THEN <<>> ELSE ls[i]
  OBVIOUS
<1> HIDE DEF first
<1>5. Firsts(ls) \in [1..Len(ls) -> Text] /\ \A i \in 1..Len(ls) : Firsts(ls)[i] = first(i)
  BY <1>2, <1>3
<1>6. Firsts(ls) \in Seq(Text) /\ Len(Firsts(ls)) = Len(ls)
  BY <1>1, <1>5
<1> QED BY <1>4, <1>5, <1>6

LEMMA FirstsAppend ==
  ASSUME NEW ls \in Seq(Text), NEW l \in Text
  PROVE  Firsts(Append(ls, l)) =
           Append(Firsts(ls), IF \E j \in 1..Len(ls) : Strip(ls[j]) = Strip(l) THEN <<>> ELSE l)
<1> DEFINE ls2 == Append(ls, l)
           e   == IF \E j \in 1..Len(ls) : Strip(ls[j]) = Strip(l) THEN <<>> ELSE l
           fs  == Append(Firsts(ls), e)
<1>1. /\ Len(ls) \in Nat /\ ls2 \in Seq(Text) /\ Len(ls2) = Len(ls) + 1 /\ ls2[Len(ls) + 1] = l
      /\ \A i \in 1..Len(ls) : ls2[i] = ls[i]
  BY AppendProperties, LenProperties
<1>2. e \in Text
  BY EmptySeq DEF Text
<1>3. e = IF \E j \in 1..Len(ls) : Strip(ls[j]) = Strip(l) THEN <<>> ELSE l
  OBVIOUS
<1> HIDE DEF ls2, e
<1>4. Firsts(ls) \in Seq(Text) /\ Len(Firsts(ls)) = Len(ls)
  BY FirstsType
<1>5. /\ fs \in Seq(Text) /\ Len(fs) = Len(ls) + 1 /\ fs[Len(ls) + 1] = e
      /\ \A i \in 1..Len(ls) : fs[i] = Firsts(ls)[i]
  BY <1>2, <1>4, AppendProperties
<1> HIDE DEF fs
<1>6. Firsts(ls2) \in Seq(Text) /\ Len(Firsts(ls2)) = Len(ls2)
  BY <1>1, FirstsType
<1>7. ASSUME NEW i \in 1..Len(ls2) PROVE Firsts(ls2)[i] = fs[i]
  <2>1. Firsts(ls2)[i] = IF \E j \in 1..(i - 1) : Strip(ls2[j]) = Strip(ls2[i]) THEN <<>> ELSE ls2[i]
    BY <1>1, FirstsType
  <2>2. CASE i = Len(ls) + 1
    <3>1. i - 1 = Len(ls)
      BY <1>1, <2>2
    <3> QED BY <1>1, <1>3, <1>5, <2>1, <2>2, <3>1
  <2>3. CASE i # Len(ls) + 1
    <3>1. i \in 1..Len(ls) /\ \A j \in 1..(i - 1) : j \in 1..Len(ls)
      BY <1>1, <2>3
    <3>2. Firsts(ls)[i] = IF \E j \in 1..(i - 1) : Strip(ls[j]) = Strip(ls[i]) THEN <<>> ELSE ls[i]
      BY <3>1, FirstsType
    <3> QED BY <1>1, <1>5, <2>1, <3>1, <3>2
  <2> QED BY <2>2, <2>3
<1>8. Firsts(ls2) = fs
  BY <1>1, <1>5, <1>6, <1>7, SeqEqual
<1> QED BY <1>8 DEF ls2, fs, e

\* What the loop of DedupLines has of the lines ls so far.
KeptSoFar(at, ls) ==
  /\ at \in [seen : SUBSET Text, kept : Seq(Text)]
  /\ \A key : key \in at.seen <=> key # <<>> /\ \E j \in 1..Len(ls) : Strip(ls[j]) = key
  /\ LettersOf(at.kept) = LettersOf(Firsts(ls))
  /\ at.kept = <<>> <=> ls = <<>>
  /\ Len(Joined(at.kept, <<NL>>)) <= Len(Joined(ls, <<NL>>))

LEMMA JoinedLen ==
  ASSUME NEW ps \in Seq(Text), NEW p \in Text
  PROVE  /\ Len(Joined(ps, <<NL>>)) \in Nat /\ Len(p) \in Nat
         /\ Len(Joined(Append(ps, p), <<NL>>)) =
              IF ps = <<>> THEN Len(p) ELSE Len(Joined(ps, <<NL>>)) + 1 + Len(p)
<1>1. Joined(ps, <<NL>>) \in Text /\ <<NL>> \in Text /\ Len(<<NL>>) = 1
  BY Breaks, JoinedType
<1>2. Joined(ps, <<NL>>) \o <<NL>> \in Text /\ Len(Joined(ps, <<NL>>)) \in Nat
      /\ Len(Joined(ps, <<NL>>) \o <<NL>>) = Len(Joined(ps, <<NL>>)) + 1
  BY <1>1, TextConcat
<1>3. Len((Joined(ps, <<NL>>) \o <<NL>>) \o p) = Len(Joined(ps, <<NL>>)) + 1 + Len(p) /\ Len(p) \in Nat
  BY <1>2, TextConcat
<1> QED BY <1>1, <1>2, <1>3, JoinedAppend

LEMMA NextKeptKeeps ==
  ASSUME NEW ls \in Seq(Text), NEW l \in Text, NEW at, KeptSoFar(at, ls)
  PROVE  KeptSoFar(NextKept[at][l], Append(ls, l))
<1>1. PICK seen \in SUBSET Text, kept \in Seq(Text) : at = [seen |-> seen, kept |-> kept]
  BY DEF KeptSoFar
<1>2. /\ \A key : key \in seen <=> key # <<>> /\ \E j \in 1..Len(ls) : Strip(ls[j]) = key
      /\ LettersOf(kept) = LettersOf(Firsts(ls))
      /\ kept = <<>> <=> ls = <<>>
      /\ Len(Joined(kept, <<NL>>)) <= Len(Joined(ls, <<NL>>))
  BY <1>1 DEF KeptSoFar
<1> DEFINE key == Strip(l)
           ls2 == Append(ls, l)
           again == \E j \in 1..Len(ls) : Strip(ls[j]) = key
           first == IF again THEN <<>> ELSE l
<1>3. key \in Text /\ (key = <<>> => Letters(l) = <<>>)
  BY StripIs
<1>4. /\ Len(ls) \in Nat /\ ls2 \in Seq(Text) /\ Len(ls2) = Len(ls) + 1 /\ ls2[Len(ls) + 1] = l
      /\ ls2 # <<>> /\ \A i \in 1..Len(ls) : ls2[i] = ls[i]
  BY AppendProperties, LenProperties
<1>5. \A k : (\E j \in 1..Len(ls2) : Strip(ls2[j]) = k) <=> k = key \/ \E j \in 1..Len(ls) : Strip(ls[j]) = k
  <2>1. \A j \in 1..Len(ls2) : j \in 1..Len(ls) \/ j = Len(ls) + 1
    BY <1>4
  <2>2. Len(ls) + 1 \in 1..Len(ls2) /\ \A j \in 1..Len(ls) : j \in 1..Len(ls2)
    BY <1>4
  <2> QED BY <1>4, <2>1, <2>2
<1>6. Firsts(ls) \in Seq(Text) /\ first \in Text /\ Firsts(ls2) = Append(Firsts(ls), first)
  BY FirstsAppend, FirstsType, EmptySeq DEF Text
<1>7. LettersOf(Firsts(ls2)) = LettersOf(kept) \o Letters(first)
  BY <1>2, <1>6, LettersOfAppend
<1>8. /\ Len(Joined(ls, <<NL>>)) \in Nat /\ Len(l) \in Nat /\ Len(Joined(kept, <<NL>>)) \in Nat
      /\ Len(Joined(ls2, <<NL>>)) = IF ls = <<>> THEN Len(l) ELSE Len(Joined(ls, <<NL>>)) + 1 + Len(l)
  BY JoinedLen
<1>9. CASE key # <<>> /\ key \in seen
  <2>1. NextKept[at][l] = at
    BY <1>1, <1>9 DEF NextKept
  <2>2. LettersOf(Firsts(ls2)) = LettersOf(kept)
    <3>1. LettersOf(kept) \o <<>> = LettersOf(kept)
      BY LettersOfType, TextEmpty
    <3>2. first = <<>>
      BY <1>2, <1>9
    <3> QED BY <1>7, <3>1, <3>2, LettersEmpty
  <2>3. ls # <<>>
    BY <1>2, <1>9, EmptySeq
  <2>4. Len(Joined(kept, <<NL>>)) <= Len(Joined(ls2, <<NL>>))
    BY <1>2, <1>8, <2>3
  <2>5. \A k : k \in seen <=> k # <<>> /\ \E j \in 1..Len(ls2) : Strip(ls2[j]) = k
    BY <1>2, <1>5, <1>9
  <2> HIDE DEF ls2
  <2>6. KeptSoFar(at, ls2)
    BY <1>1, <1>2, <1>4, <2>2, <2>3, <2>4, <2>5 DEF KeptSoFar
  <2> QED BY <2>1, <2>6 DEF ls2
<1>10. CASE ~ (key # <<>> /\ key \in seen)
  <2> DEFINE kept2 == Append(kept, l)
  <2>1. NextKept[at][l] = [seen |-> seen \cup ({key} \ {<<>>}), kept |-> kept2]
    BY <1>1, <1>10 DEF NextKept
  <2>2. kept2 \in Seq(Text) /\ kept2 # <<>>
    BY AppendProperties
  <2>3. LettersOf(kept2) = LettersOf(kept) \o Letters(l)
    BY LettersOfAppend
  <2>4. Letters(first) = Letters(l)
    <3>1. CASE key = <<>>
      BY <1>3, <3>1, LettersEmpty
    <3>2. CASE key # <<>>
      BY <1>2, <1>10, <3>2
    <3> QED BY <3>1, <3>2
  <2>5. Len(Joined(kept2, <<NL>>)) <= Len(Joined(ls2, <<NL>>))
    <3>1. Len(Joined(kept2, <<NL>>)) = IF kept = <<>> THEN Len(l) ELSE Len(Joined(kept, <<NL>>)) + 1 + Len(l)
      BY JoinedLen
    <3> HIDE DEF kept2, ls2
    <3> QED BY <1>2, <1>8, <3>1
  <2>6. \A k : k \in seen \cup ({key} \ {<<>>}) <=> k # <<>> /\ \E j \in 1..Len(ls2) : Strip(ls2[j]) = k
    BY <1>2, <1>5
  <2> HIDE DEF ls2, kept2, key, first
  <2>7. KeptSoFar([seen |-> seen \cup ({key} \ {<<>>}), kept |-> kept2], ls2)
    BY <1>3, <1>4, <1>7, <2>2, <2>3, <2>4, <2>5, <2>6 DEF KeptSoFar
  <2> QED BY <2>1, <2>7 DEF ls2
<1> QED BY <1>9, <1>10

LEMMA DedupLinesIs ==
  ASSUME NEW t \in Text
  PROVE  /\ DedupLines(t) \in Text
         /\ Len(DedupLines(t)) <= Len(t)
         /\ Letters(DedupLines(t)) = LettersOf(Firsts(Lines(t)))
<1> DEFINE start == [seen |-> {}, kept |-> <<>>]
           end(ls) == Loop(NextKept, start, ls)
           G == {ls \in Seq(Text) : KeptSoFar(end(ls), ls)}
<1>1. <<>> \in G
  <2>1. end(<<>>) = start
    BY LoopEmpty
  <2>2. <<>> \in Seq(Text) /\ Len(<<>>) = 0
    BY EmptySeq
  <2>3. Firsts(<<>>) = <<>>
    BY <2>2, FirstsType, EmptySeq
  <2>4. Joined(<<>>, <<NL>>) \in Text
    BY <2>2, Breaks, JoinedType
  <2>5. Len(Joined(<<>>, <<NL>>)) <= Len(Joined(<<>>, <<NL>>))
    BY <2>4, LenProperties DEF Text
  <2>6. KeptSoFar(start, <<>>)
    BY <2>2, <2>3, <2>5 DEF KeptSoFar
  <2> HIDE DEF end, start
  <2> QED BY <2>1, <2>2, <2>6
<1> HIDE DEF start
<1>2. ASSUME NEW ls \in G, NEW l \in Text PROVE Append(ls, l) \in G
  <2>1. ls \in Seq(Text) /\ KeptSoFar(end(ls), ls) /\ Append(ls, l) \in Seq(Text)
    BY AppendProperties
  <2>2. end(Append(ls, l)) = NextKept[end(ls)][l]
    BY <2>1, LoopAppend
  <2> HIDE DEF end
  <2> QED BY <2>1, <2>2, NextKeptKeeps
<1>3. G \in SUBSET Seq(Text)
  OBVIOUS
<1> HIDE DEF G
<1>4. G = Seq(Text)
  BY <1>1, <1>2, <1>3, AllSequences
<1>5. Lines(t) \in Seq(Text) /\ Joined(Lines(t), <<NL>>) = t
  BY LinesIs
<1>6. KeptSoFar(end(Lines(t)), Lines(t))
  BY <1>4, <1>5 DEF G
<1>7. DedupLines(t) = Joined(end(Lines(t)).kept, <<NL>>)
  BY DEF DedupLines, start
<1> HIDE DEF end
<1>8. /\ end(Lines(t)).kept \in Seq(Text)
      /\ LettersOf(end(Lines(t)).kept) = LettersOf(Firsts(Lines(t)))
      /\ Len(Joined(end(Lines(t)).kept, <<NL>>)) <= Len(t)
  BY <1>5, <1>6 DEF KeptSoFar
<1> QED BY <1>7, <1>8, Breaks, JoinedLetters, JoinedType

\* Blanks in a row go, and nothing else.
LEMMA CollapseIs ==
  ASSUME NEW t \in Text, NEW ch \in Chars, Blank(ch), NEW run
  PROVE  /\ Collapse(t, ch, run) \in Text
         /\ Len(Collapse(t, ch, run)) <= Len(t)
         /\ Letters(Collapse(t, ch, run)) = Letters(t)
<1> DEFINE Over(out, x) == /\ x = ch /\ Len(out) >= run
                           /\ \A i \in (Len(out) - run + 1)..Len(out) : out[i] = ch
           B == [out \in Text |-> [x \in Chars |-> IF Over(out, x) THEN out ELSE Append(out, x)]]
           end(u) == Loop(B, <<>>, u)
           Kept(u) == /\ end(u) \in Text /\ Len(end(u)) <= Len(u)
                      /\ Letters(end(u)) = Letters(u)
           G == {u \in Text : Kept(u)}
<1>1. Collapse(t, ch, run) = end(t)
  BY DEF Collapse
<1>2. \A out \in Text, x \in Chars : /\ B[out][x] \in {out, Append(out, x)}
                                     /\ ~Blank(x) => B[out][x] = Append(out, x)
  OBVIOUS
<1> HIDE DEF B
<1>3. <<>> \in G
  <2>1. end(<<>>) = <<>> /\ <<>> \in Text /\ Len(<<>>) = 0
    BY LoopEmpty, EmptySeq DEF Text
  <2> HIDE DEF end
  <2> QED BY <2>1
<1>4. ASSUME NEW u \in G, NEW x \in Chars PROVE Append(u, x) \in G
  <2>1. u \in Text /\ Kept(u)
    OBVIOUS
  <2>2. end(Append(u, x)) = B[end(u)][x]
    BY <2>1, LoopAppend DEF Text
  <2> HIDE DEF end
  <2>3. /\ Append(u, x) \in Text /\ Len(Append(u, x)) = Len(u) + 1 /\ Len(u) \in Nat
        /\ Letters(Append(u, x)) = IF Blank(x) THEN Letters(u) ELSE Append(Letters(u), x)
    BY <2>1, LettersAppend, AppendProperties, LenProperties DEF Text
  <2> DEFINE e == end(u)
  <2>4. e \in Text /\ Len(e) <= Len(u) /\ Letters(e) = Letters(u)
    BY <2>1
  <2> HIDE DEF e
  <2>5. /\ Append(e, x) \in Text /\ Len(Append(e, x)) = Len(e) + 1 /\ Len(e) \in Nat
        /\ Letters(Append(e, x)) = IF Blank(x) THEN Letters(e) ELSE Append(Letters(e), x)
    BY <2>4, LettersAppend, AppendProperties, LenProperties DEF Text
  <2>6. B[e][x] \in Text /\ Len(B[e][x]) <= Len(Append(u, x)) /\ Letters(B[e][x]) = Letters(Append(u, x))
    <3>1. CASE B[e][x] = Append(e, x)
      BY <2>3, <2>4, <2>5, <3>1
    <3>2. CASE B[e][x] = e /\ Blank(x)
      BY <2>3, <2>4, <2>5, <3>2
    <3> QED BY <1>2, <2>4, <3>1, <3>2
  <2> QED BY <2>2, <2>3, <2>6 DEF e
<1>5. G \in SUBSET Text
  OBVIOUS
<1> HIDE DEF G
<1>6. G = Text
  BY <1>3, <1>4, <1>5, AllSequences DEF Text
<1>7. Kept(t)
  BY <1>6 DEF G
<1> QED BY <1>1, <1>7

LEMMA FoldWhitespaceIs ==
  ASSUME NEW t \in Text
  PROVE  /\ FoldWhitespace(t) \in Text
         /\ Len(FoldWhitespace(t)) <= Len(t)
         /\ Letters(FoldWhitespace(t)) = Letters(t)
<1> DEFINE one  == Collapse(t, " ", 1)
           two  == TrimLines(one)
           thr  == Collapse(two, NL, 2)
<1>1. " " \in Chars /\ Blank(" ") /\ NL \in Chars /\ Blank(NL)
  BY TextAssumption DEF Blank
<1>2. one \in Text /\ Len(one) <= Len(t) /\ Letters(one) = Letters(t)
  BY <1>1, CollapseIs
<1>3. FoldWhitespace(t) = Strip(thr)
  BY DEF FoldWhitespace
<1> HIDE DEF one
<1>4. two \in Text /\ Len(two) <= Len(one) /\ Letters(two) = Letters(t)
  BY <1>2, TrimLinesIs
<1> HIDE DEF two
<1>5. thr \in Text /\ Len(thr) <= Len(two) /\ Letters(thr) = Letters(t)
  BY <1>1, <1>4, CollapseIs
<1> HIDE DEF thr
<1>6. Strip(thr) \in Text /\ Len(Strip(thr)) <= Len(thr) /\ Letters(Strip(thr)) = Letters(t)
  BY <1>5, StripIs
<1>7. /\ Len(t) \in Nat /\ Len(one) \in Nat /\ Len(two) \in Nat /\ Len(thr) \in Nat
      /\ Len(Strip(thr)) \in Nat
  BY <1>2, <1>4, <1>5, <1>6, TextConcat
<1> QED BY <1>2, <1>3, <1>4, <1>5, <1>6, <1>7

\* A text is within a budget of tokens exactly when its characters are.
LEMMA TokensIs ==
  ASSUME NEW t \in Text, NEW b \in Nat
  PROVE  Tokens(t) <= b <=> Len(t) <= b * CharsPerToken
<1>1. Len(t) \in Nat
  BY LenProperties DEF Text
<1>2. (Len(t) + 4 - 1) \div 4 <= b <=> Len(t) <= b * 4
  BY <1>1
<1> QED BY <1>2 DEF Tokens, CharsPerToken

\* A text that fits is not cut, and what is cut off is its end.
LEMMA CompressIs ==
  ASSUME NEW t \in Text, NEW b \in Nat
  PROVE  /\ Compress(t, b) \in Text
         /\ Tokens(Compress(t, b)) <= b \/ Len(t) <= b * CharsPerToken
         /\ LET whole == LettersOf(Firsts(Lines(t)))
            IN  /\ whole \in Text
                /\ Len(t) <= b * CharsPerToken => Letters(Compress(t, b)) = whole
                /\ \E rest \in Text : whole = Letters(Compress(t, b)) \o rest
<1> DEFINE whole   == LettersOf(Firsts(Lines(t)))
           reduced == FoldWhitespace(DedupLines(t))
           max     == b * CharsPerToken
           cut     == SubSeq(reduced, 1, max)
<1>0. max \in Nat
  BY DEF CharsPerToken
<1>1. reduced \in Text /\ Len(reduced) <= Len(t) /\ Letters(reduced) = whole
  <2>1. /\ DedupLines(t) \in Text /\ Len(DedupLines(t)) <= Len(t)
        /\ Letters(DedupLines(t)) = whole
    BY DedupLinesIs
  <2>2. /\ reduced \in Text /\ Len(reduced) <= Len(DedupLines(t))
        /\ Letters(reduced) = Letters(DedupLines(t))
    BY <2>1, FoldWhitespaceIs
  <2> HIDE DEF reduced, whole
  <2>3. Len(reduced) \in Nat /\ Len(DedupLines(t)) \in Nat /\ Len(t) \in Nat
    BY <2>1, <2>2, TextConcat
  <2> QED BY <2>1, <2>2, <2>3
<1>2. Compress(t, b) = IF Tokens(reduced) > b THEN Truncate(reduced, b) ELSE reduced
  BY DEF Compress
<1>3. Truncate(reduced, b) = IF Len(reduced) <= max THEN reduced ELSE RStrip(cut)
  BY DEF Truncate
<1> HIDE DEF reduced, whole
<1>4. Len(reduced) \in Nat /\ Len(t) \in Nat /\ Letters(reduced) \in Text
  BY <1>1, TextConcat, LettersType
<1>5. Tokens(reduced) <= b <=> Len(reduced) <= max
  BY <1>1, TokensIs
<1>6. Tokens(reduced) \in Nat
  BY <1>4 DEF Tokens, CharsPerToken
<1>7. CASE Len(reduced) <= max
  <2>1. Compress(t, b) = reduced
    BY <1>2, <1>5, <1>6, <1>7
  <2>2. whole = Letters(reduced) \o <<>> /\ <<>> \in Text
    BY <1>1, <1>4, TextEmpty, EmptySeq DEF Text
  <2> QED BY <1>1, <1>4, <1>5, <1>7, <2>1, <2>2 DEF whole
<1>8. CASE ~ (Len(reduced) <= max)
  <2> DEFINE rest == SubSeq(reduced, max + 1, Len(reduced))
  <2>1. Compress(t, b) = RStrip(cut)
    BY <1>2, <1>3, <1>5, <1>6, <1>8
  <2>2. max \in 0..Len(reduced)
    BY <1>0, <1>4, <1>8
  <2>3. /\ cut \in Text /\ Len(cut) = max /\ rest \in Text
        /\ Letters(reduced) = Letters(cut) \o Letters(rest)
    BY <1>1, <2>2, LettersCut
  <2> HIDE DEF cut, rest
  <2>4. RStrip(cut) \in Text /\ Len(RStrip(cut)) <= Len(cut) /\ Letters(RStrip(cut)) = Letters(cut)
    BY <2>3, RStripIs
  <2>5. Tokens(RStrip(cut)) <= b
    BY <2>3, <2>4, TokensIs
  <2>6. Letters(rest) \in Text
    BY <2>3, LettersType
  <2>7. ~ (Len(t) <= max)
    BY <1>0, <1>1, <1>4, <1>8
  <2> QED BY <1>1, <1>4, <2>1, <2>3, <2>4, <2>5, <2>6, <2>7 DEF whole
<1> QED BY <1>7, <1>8

-----------------------------------------------------------------------------
(***************************************************************************)
(* Chunks.                                                                 *)
(***************************************************************************)

LEMMA NormalizeIs ==
  ASSUME NEW t \in Text
  PROVE  Normalize(t) \in Text /\ Letters(Normalize(t)) = Letters(t)
<1>1. TrimLines(t) \in Text /\ Letters(TrimLines(t)) = Letters(t)
  BY TrimLinesIs
<1> QED BY <1>1, StripIs DEF Normalize

\* What the loop of Paragraphs has of the text u so far.
ParagraphsSoFar(at, u) ==
  /\ at \in [done : Seq(Text), open : Text]
  /\ LettersOf(at.done) \o Letters(at.open) = Letters(u)

LEMMA NextParagraphKeeps ==
  ASSUME NEW u \in Text, NEW ch \in Chars, NEW at, ParagraphsSoFar(at, u)
  PROVE  ParagraphsSoFar(NextParagraph[at][ch], Append(u, ch))
<1>1. PICK done \in Seq(Text), open \in Text : at = [done |-> done, open |-> open]
  BY DEF ParagraphsSoFar
<1>2. Letters(u) = LettersOf(done) \o Letters(open)
  BY <1>1 DEF ParagraphsSoFar
<1>3. LettersOf(done) \in Text /\ Letters(open) \in Text /\ Len(open) \in Nat /\ <<>> \in Text
  BY LettersOfType, LettersType, TextConcat, EmptySeq DEF Text
<1>4. Letters(Append(u, ch)) = IF Blank(ch) THEN Letters(u) ELSE Append(Letters(u), ch)
  BY LettersAppend
<1>5. Append(open, ch) \in Text
      /\ Letters(Append(open, ch)) = IF Blank(ch) THEN Letters(open) ELSE Append(Letters(open), ch)
  BY LettersAppend, AppendProperties DEF Text
<1>6. CASE ch = NL /\ open # <<>> /\ open[Len(open)] = NL
  <2> DEFINE k == Len(open) - 1
             cut == SubSeq(open, 1, k)
             rest == SubSeq(open, k + 1, Len(open))
  <2>1. NextParagraph[at][ch] = [done |-> Append(done, cut), open |-> <<>>]
    BY <1>1, <1>6 DEF NextParagraph
  <2>2. k \in 0..Len(open) /\ k + 1 = Len(open) /\ Len(open) - k = 1
    <3>1. Len(open) # 0
      BY <1>6, EmptySeq DEF Text
    <3> QED BY <1>3, <3>1
  <2>3. /\ cut \in Text /\ rest \in Text /\ Len(rest) = Len(open) - k
        /\ \A i \in 1..(Len(open) - k) : rest[i] = open[k + i]
        /\ Letters(open) = Letters(cut) \o Letters(rest)
    BY <2>2, LettersCut
  <2> HIDE DEF cut, rest, k
  <2>4. Letters(rest) = <<>>
    <3>1. \A i \in 1..Len(rest) : k + i = Len(open) /\ i \in 1..(Len(open) - k)
      BY <1>3, <2>2, <2>3
    <3>2. \A i \in 1..Len(rest) : Blank(rest[i])
      BY <1>6, <2>3, <3>1 DEF Blank
    <3> QED BY <2>3, <3>2, NoLetters
  <2>5. Letters(open) = Letters(cut) /\ Letters(cut) \in Text
    BY <2>3, <2>4, LettersType, TextEmpty
  <2>6. Append(done, cut) \in Seq(Text) /\ LettersOf(Append(done, cut)) = LettersOf(done) \o Letters(cut)
    BY <2>3, LettersOfAppend, AppendProperties
  <2>7. LettersOf(Append(done, cut)) \o Letters(<<>>) = Letters(Append(u, ch))
    <3>1. LettersOf(Append(done, cut)) \o <<>> = LettersOf(Append(done, cut))
      BY <2>6, LettersOfType, TextEmpty
    <3> QED BY <1>2, <1>4, <1>6, <2>5, <2>6, <3>1, Breaks, LettersEmpty
  <2> DEFINE at2 == NextParagraph[at][ch]
  <2>8. /\ at2 \in [done : Seq(Text), open : Text]
        /\ at2.done = Append(done, cut) /\ at2.open = <<>>
    BY <1>3, <2>1, <2>6
  <2> HIDE DEF at2
  <2>9. ParagraphsSoFar(at2, Append(u, ch))
    BY <2>7, <2>8 DEF ParagraphsSoFar
  <2> QED BY <2>9 DEF at2
<1>7. CASE ~ (ch = NL /\ open # <<>> /\ open[Len(open)] = NL)
  <2>1. NextParagraph[at][ch] = [done |-> done, open |-> Append(open, ch)]
    BY <1>1, <1>7 DEF NextParagraph
  <2>2. LettersOf(done) \o Append(Letters(open), ch) = Append(LettersOf(done) \o Letters(open), ch)
    BY <1>3, ConcatAppend DEF Text
  <2>3. LettersOf(done) \o Letters(Append(open, ch)) = Letters(Append(u, ch))
    BY <1>2, <1>4, <1>5, <2>2
  <2> DEFINE at2 == NextParagraph[at][ch]
  <2>4. /\ at2 \in [done : Seq(Text), open : Text]
        /\ at2.done = done /\ at2.open = Append(open, ch)
    BY <1>5, <2>1
  <2> HIDE DEF at2
  <2>5. ParagraphsSoFar(at2, Append(u, ch))
    BY <2>3, <2>4 DEF ParagraphsSoFar
  <2> QED BY <2>5 DEF at2
<1> QED BY <1>6, <1>7

LEMMA ParagraphsIs ==
  ASSUME NEW t \in Text
  PROVE  Paragraphs(t) \in Seq(Text) /\ LettersOf(Paragraphs(t)) = Letters(t)
<1> DEFINE start == [done |-> <<>>, open |-> <<>>]
           end(u) == Loop(NextParagraph, start, u)
           G == {u \in Text : ParagraphsSoFar(end(u), u)}
<1>1. <<>> \in G
  <2>1. end(<<>>) = start
    BY LoopEmpty
  <2>2. <<>> \in Seq(Text) /\ <<>> \in Text /\ <<>> \o <<>> = <<>>
    BY EmptySeq, TextEmpty DEF Text
  <2>3. ParagraphsSoFar(start, <<>>)
    BY <2>2, LettersOfEmpty, LettersEmpty DEF ParagraphsSoFar
  <2> HIDE DEF end, start
  <2> QED BY <2>1, <2>2, <2>3
<1> HIDE DEF start
<1>2. ASSUME NEW u \in G, NEW ch \in Chars PROVE Append(u, ch) \in G
  <2>1. u \in Text /\ ParagraphsSoFar(end(u), u) /\ Append(u, ch) \in Text
    BY AppendProperties DEF Text
  <2>2. end(Append(u, ch)) = NextParagraph[end(u)][ch]
    BY <2>1, LoopAppend DEF Text
  <2> HIDE DEF end
  <2> QED BY <2>1, <2>2, NextParagraphKeeps
<1>3. G \in SUBSET Text
  OBVIOUS
<1> HIDE DEF G
<1>4. G = Text
  BY <1>1, <1>2, <1>3, AllSequences DEF Text
<1>5. ParagraphsSoFar(end(t), t)
  BY <1>4 DEF G
<1>6. Paragraphs(t) = Append(end(t).done, end(t).open)
  BY DEF Paragraphs, start
<1> HIDE DEF end
<1>7. /\ end(t).done \in Seq(Text) /\ end(t).open \in Text
      /\ LettersOf(end(t).done) \o Letters(end(t).open) = Letters(t)
  BY <1>5 DEF ParagraphsSoFar
<1> QED BY <1>6, <1>7, AppendProperties, LettersOfAppend

\* What a block may be: it fits, and it is empty or has letters; and a chunk.
Block(max) == {p \in Text : Len(p) <= max /\ (p = <<>> \/ Letters(p) # <<>>)}
Chunk(max) == {p \in Text : Len(p) <= max /\ Letters(p) # <<>>}

LEMMA SeqOfSubset ==
  ASSUME NEW T, NEW S \in SUBSET T, NEW s \in Seq(S)
  PROVE  s \in Seq(T)
<1>1. Len(s) \in Nat /\ s \in [1..Len(s) -> S]
  BY LenProperties
<1>2. s \in [1..Len(s) -> T]
  BY <1>1
<1> QED BY <1>1, <1>2

\* A cut leaves something on its left, so that the rest is shorter.
LEMMA CutPointIs ==
  ASSUME NEW t \in Text, NEW max \in Nat, max >= 2
  PROVE  CutPoint(t, max) \in 1..max
<1> DEFINE S == {i \in 1..max : t[i] = " "} \cup {0}
           space == Max(S)
<1>1. S \subseteq 0..max /\ S # {}
  <2>1. {i \in 1..max : t[i] = " "} \subseteq 1..max
    BY Zenon
  <2>2. 1..max \subseteq 0..max /\ 0 \in 0..max
    OBVIOUS
  <2> DEFINE U == {i \in 1..max : t[i] = " "}
  <2> HIDE DEF U
  <2> QED BY <2>1, <2>2 DEF U
<1>2. space \in 0..max
  <2> HIDE DEF S
  <2>1. S \in SUBSET Nat /\ S # {} /\ \A i \in S : i <= max
    BY <1>1
  <2> QED BY <1>1, <2>1, MaxIs
<1>3. CutPoint(t, max) = IF space = 0 \/ space - 1 < max \div 2 THEN max ELSE space - 1
  BY DEF CutPoint
<1> HIDE DEF space
<1>4. max \div 2 >= 1 /\ max \div 2 \in Nat
  OBVIOUS
<1> QED BY <1>2, <1>3, <1>4

\* What the loop of HardSplit has of the text t after n turns.
PiecesSoFar(at, t, max, n) ==
  /\ at \in [pieces : Seq(Block(max)), remaining : Text]
  /\ at.remaining = <<>> \/ Letters(at.remaining) # <<>>
  /\ Len(at.remaining) <= max \/ Len(at.remaining) + n <= Len(t)
  /\ LettersOf(at.pieces) \o Letters(at.remaining) = Letters(t)

LEMMA NextPieceKeeps ==
  ASSUME NEW t \in Text, NEW max \in Nat, max >= 2, NEW n \in Nat, NEW ch \in Chars,
         NEW at, PiecesSoFar(at, t, max, n)
  PROVE  PiecesSoFar(NextPiece(max)[at][ch], t, max, n + 1)
<1>1. PICK pieces \in Seq(Block(max)), rem \in Text : at = [pieces |-> pieces, remaining |-> rem]
  BY DEF PiecesSoFar
<1>2. /\ rem = <<>> \/ Letters(rem) # <<>>
      /\ Len(rem) <= max \/ Len(rem) + n <= Len(t)
      /\ LettersOf(pieces) \o Letters(rem) = Letters(t)
  BY <1>1 DEF PiecesSoFar
<1>3. Len(rem) \in Nat /\ Len(t) \in Nat /\ pieces \in Seq(Text)
  BY TextConcat, SeqOfSubset DEF Block
<1> DEFINE cut   == CutPoint(rem, max)
           left  == SubSeq(rem, 1, cut)
           right == SubSeq(rem, cut + 1, Len(rem))
<1>4. NextPiece(max)[at][ch] =
        IF Len(rem) <= max THEN at
        ELSE [pieces |-> Append(pieces, RStrip(left)), remaining |-> LStrip(right)]
  <2>1. at \in [pieces : Seq(Text), remaining : Text]
    BY <1>1, <1>3
  <2>2. at.pieces = pieces /\ at.remaining = rem
    BY <1>1
  <2> QED BY <2>1, <2>2 DEF NextPiece
<1>5. CASE Len(rem) <= max
  <2>1. NextPiece(max)[at][ch] = at
    BY <1>4, <1>5
  <2>2. PiecesSoFar(at, t, max, n + 1)
    BY <1>1, <1>2, <1>5 DEF PiecesSoFar
  <2> QED BY <2>1, <2>2
<1>6. CASE ~ (Len(rem) <= max)
  <2>1. cut \in 1..max
    BY CutPointIs
  <2> HIDE DEF cut
  <2>2. cut \in 0..Len(rem) /\ cut >= 1 /\ cut <= max /\ cut \in Nat
    BY <1>3, <1>6, <2>1
  <2>3. /\ left \in Text /\ Len(left) = cut /\ right \in Text /\ Len(right) = Len(rem) - cut
        /\ Letters(rem) = Letters(left) \o Letters(right)
    BY <2>2, LettersCut
  <2> HIDE DEF left, right
  <2> DEFINE piece == RStrip(left)
             rest  == LStrip(right)
  <2>4. /\ piece \in Text /\ Len(piece) <= Len(left) /\ Letters(piece) = Letters(left)
        /\ Letters(left) = <<>> => piece = <<>>
    BY <2>3, RStripIs
  <2>5. /\ rest \in Text /\ Len(rest) <= Len(right) /\ Letters(rest) = Letters(right)
        /\ Letters(right) = <<>> => rest = <<>>
    BY <2>3, LStripIs
  <2>6. NextPiece(max)[at][ch] = [pieces |-> Append(pieces, piece), remaining |-> rest]
    BY <1>4, <1>6
  <2> HIDE DEF piece, rest
  <2>7. piece \in Block(max) /\ Len(rest) \in Nat
    <3>1. Len(piece) \in Nat /\ Len(rest) \in Nat
      BY <2>4, <2>5, TextConcat
    <3> QED BY <2>2, <2>3, <2>4, <3>1 DEF Block
  <2>8. Len(rest) + (n + 1) <= Len(t)
    BY <1>2, <1>3, <1>6, <2>2, <2>3, <2>5, <2>7
  <2>9. LettersOf(Append(pieces, piece)) \o Letters(rest) = Letters(t)
    <3>1. LettersOf(Append(pieces, piece)) = LettersOf(pieces) \o Letters(piece)
      BY <1>3, <2>4, LettersOfAppend
    <3>2. LettersOf(pieces) \in Text /\ Letters(piece) \in Text /\ Letters(rest) \in Text
      BY <1>3, <2>4, <2>5, LettersOfType, LettersType
    <3>3. (LettersOf(pieces) \o Letters(piece)) \o Letters(rest)
            = LettersOf(pieces) \o (Letters(piece) \o Letters(rest))
      BY <3>2, TextAssociative
    <3> QED BY <1>2, <2>3, <2>4, <2>5, <3>1, <3>3
  <2>10. Append(pieces, piece) \in Seq(Block(max))
    BY <2>7, AppendProperties
  <2> DEFINE at2 == NextPiece(max)[at][ch]
  <2>11. /\ at2 \in [pieces : Seq(Block(max)), remaining : Text]
         /\ at2.pieces = Append(pieces, piece) /\ at2.remaining = rest
    BY <2>5, <2>6, <2>10
  <2> HIDE DEF at2
  <2>12. PiecesSoFar(at2, t, max, n + 1)
    BY <2>5, <2>8, <2>9, <2>11 DEF PiecesSoFar
  <2> QED BY <2>12 DEF at2
<1> QED BY <1>5, <1>6

LEMMA HardSplitIs ==
  ASSUME NEW t \in Text, Letters(t) # <<>>, NEW max \in Nat, max >= 2
  PROVE  /\ HardSplit(t, max) \in Seq(Block(max))
         /\ LettersOf(HardSplit(t, max)) = Letters(t)
<1> DEFINE start == [pieces |-> <<>>, remaining |-> t]
           end(u) == Loop(NextPiece(max), start, u)
           G == {u \in Text : PiecesSoFar(end(u), t, max, Len(u))}
<1>1. <<>> \in G
  <2>1. end(<<>>) = start
    BY LoopEmpty
  <2>2. <<>> \in Seq(Block(max)) /\ <<>> \in Text /\ Len(<<>>) = 0
    BY EmptySeq DEF Text
  <2>3. LettersOf(<<>>) \o Letters(t) = Letters(t)
    BY LettersType, LettersOfEmpty, TextEmpty
  <2>4. Len(t) \in Nat
    BY TextConcat
  <2>5. PiecesSoFar(start, t, max, 0)
    BY <2>2, <2>3, <2>4 DEF PiecesSoFar
  <2> HIDE DEF end, start
  <2> QED BY <2>1, <2>2, <2>5
<1> HIDE DEF start
<1>2. ASSUME NEW u \in G, NEW ch \in Chars PROVE Append(u, ch) \in G
  <2>1. u \in Text /\ PiecesSoFar(end(u), t, max, Len(u))
    OBVIOUS
  <2>2. Append(u, ch) \in Text /\ Len(Append(u, ch)) = Len(u) + 1 /\ Len(u) \in Nat
    BY <2>1, AppendProperties, LenProperties DEF Text
  <2>3. end(Append(u, ch)) = NextPiece(max)[end(u)][ch]
    BY <2>1, LoopAppend DEF Text
  <2> HIDE DEF end
  <2>4. PiecesSoFar(NextPiece(max)[end(u)][ch], t, max, Len(u) + 1)
    BY <2>1, <2>2, NextPieceKeeps
  <2> QED BY <2>2, <2>3, <2>4
<1>3. G \in SUBSET Text
  OBVIOUS
<1> HIDE DEF G
<1>4. G = Text
  BY <1>1, <1>2, <1>3, AllSequences DEF Text
<1> DEFINE e == end(t)
<1>5. PiecesSoFar(e, t, max, Len(t))
  BY <1>4 DEF G
<1>6. HardSplit(t, max) = IF e.remaining = <<>> THEN e.pieces ELSE Append(e.pieces, e.remaining)
  BY DEF HardSplit, start
<1> HIDE DEF e
<1>7. /\ e.pieces \in Seq(Block(max)) /\ e.remaining \in Text
      /\ LettersOf(e.pieces) \o Letters(e.remaining) = Letters(t)
      /\ e.remaining = <<>> \/ Letters(e.remaining) # <<>>
      /\ Len(e.remaining) <= max \/ Len(e.remaining) + Len(t) <= Len(t)
  BY <1>5 DEF PiecesSoFar
<1>8. Len(e.remaining) <= max
  <2>1. Len(e.remaining) \in Nat /\ Len(t) \in Nat
    BY <1>7, TextConcat
  <2> QED BY <1>7, <2>1
<1>9. e.pieces \in Seq(Text)
  BY <1>7, SeqOfSubset DEF Block
<1>10. CASE e.remaining = <<>>
  <2>1. LettersOf(e.pieces) \o <<>> = LettersOf(e.pieces)
    BY <1>9, LettersOfType, TextEmpty
  <2> QED BY <1>6, <1>7, <1>10, <2>1, LettersEmpty
<1>11. CASE e.remaining # <<>>
  <2>1. e.remaining \in Block(max)
    BY <1>7, <1>8, <1>11 DEF Block
  <2>2. Append(e.pieces, e.remaining) \in Seq(Block(max))
    BY <1>7, <2>1, AppendProperties
  <2>3. LettersOf(Append(e.pieces, e.remaining)) = Letters(t)
    BY <1>7, <1>9, LettersOfAppend
  <2> QED BY <1>6, <1>11, <2>2, <2>3
<1> QED BY <1>10, <1>11

LEMMA BlocksIs ==
  ASSUME NEW t \in Text, NEW max \in Nat, max >= 2
  PROVE  Blocks(t, max) \in Seq(Block(max)) /\ LettersOf(Blocks(t, max)) = Letters(t)
<1> DEFINE B == [blocks \in Seq(Text) |-> [p \in Text |->
                  IF Strip(p) = <<>> THEN blocks
                  ELSE IF Len(p) <= max THEN Append(blocks, p) ELSE blocks \o HardSplit(p, max)]]
           end(ps) == Loop(B, <<>>, ps)
           Kept(bs, ps) == bs \in Seq(Block(max)) /\ LettersOf(bs) = LettersOf(ps)
           G == {ps \in Seq(Text) : Kept(end(ps), ps)}
<1>1. \A bs \in Seq(Text), p \in Text :
        B[bs][p] = IF Strip(p) = <<>> THEN bs
                   ELSE IF Len(p) <= max THEN Append(bs, p) ELSE bs \o HardSplit(p, max)
  OBVIOUS
<1>2. Blocks(t, max) = end(Paragraphs(t))
  BY DEF Blocks
<1> HIDE DEF B
<1>3. <<>> \in G
  <2>1. end(<<>>) = <<>> /\ <<>> \in Seq(Block(max)) /\ <<>> \in Seq(Text)
    BY LoopEmpty, EmptySeq
  <2> HIDE DEF end
  <2> QED BY <2>1
<1>4. ASSUME NEW ps \in G, NEW p \in Text PROVE Append(ps, p) \in G
  <2> DEFINE bs == end(ps)
  <2>1. ps \in Seq(Text) /\ Kept(bs, ps) /\ Append(ps, p) \in Seq(Text)
    BY AppendProperties
  <2>2. end(Append(ps, p)) = B[bs][p]
    BY <2>1, LoopAppend
  <2> HIDE DEF bs, end
  <2>3. bs \in Seq(Text) /\ bs \in Seq(Block(max)) /\ LettersOf(bs) = LettersOf(ps)
    BY <2>1, SeqOfSubset DEF Block
  <2>4. LettersOf(Append(ps, p)) = LettersOf(bs) \o Letters(p) /\ LettersOf(bs) \in Text
    BY <2>1, <2>3, LettersOfAppend, LettersOfType
  <2>5. Kept(B[bs][p], Append(ps, p))
    <3>1. CASE Strip(p) = <<>>
      <4>1. Letters(p) = <<>>
        BY <3>1, StripIs
      <4>2. LettersOf(bs) \o <<>> = LettersOf(bs)
        BY <2>4, TextEmpty
      <4> QED BY <1>1, <2>3, <2>4, <3>1, <4>1, <4>2
    <3>2. CASE Strip(p) # <<>> /\ Len(p) <= max
      <4>1. p \in Block(max)
        BY <3>2, StripIs DEF Block
      <4>2. Append(bs, p) \in Seq(Block(max)) /\ LettersOf(Append(bs, p)) = LettersOf(bs) \o Letters(p)
        BY <2>3, <4>1, LettersOfAppend, AppendProperties
      <4> QED BY <1>1, <2>3, <2>4, <3>2, <4>2
    <3>3. CASE Strip(p) # <<>> /\ ~ (Len(p) <= max)
      <4> DEFINE hs == HardSplit(p, max)
      <4>1. hs \in Seq(Block(max)) /\ LettersOf(hs) = Letters(p)
        BY <3>3, StripIs, HardSplitIs
      <4>2. B[bs][p] = bs \o hs
        BY <1>1, <2>3, <3>3
      <4> HIDE DEF hs
      <4>3. hs \in Seq(Text)
        BY <4>1, SeqOfSubset DEF Block
      <4>4. bs \o hs \in Seq(Block(max)) /\ LettersOf(bs \o hs) = LettersOf(bs) \o LettersOf(hs)
        BY <2>3, <4>1, <4>3, ConcatProperties, LettersOfConcat
      <4> QED BY <2>4, <4>1, <4>2, <4>4
    <3> QED BY <3>1, <3>2, <3>3
  <2> QED BY <2>1, <2>2, <2>5
<1>5. G \in SUBSET Seq(Text)
  OBVIOUS
<1> HIDE DEF G
<1>6. G = Seq(Text)
  BY <1>3, <1>4, <1>5, AllSequences
<1>7. Paragraphs(t) \in Seq(Text) /\ LettersOf(Paragraphs(t)) = Letters(t)
  BY ParagraphsIs
<1>8. Kept(end(Paragraphs(t)), Paragraphs(t))
  BY <1>6, <1>7 DEF G
<1> QED BY <1>2, <1>7, <1>8

\* What the loop of Merge has of the blocks bs so far.
MergedSoFar(at, bs, max) ==
  /\ at \in [merged : Seq(Chunk(max)), current : Block(max)]
  /\ LettersOf(at.merged) \o Letters(at.current) = LettersOf(bs)

LEMMA NextBlockKeeps ==
  ASSUME NEW max \in Nat, NEW bs \in Seq(Block(max)), NEW b \in Block(max),
         NEW at, MergedSoFar(at, bs, max)
  PROVE  MergedSoFar(NextBlock(max)[at][b], Append(bs, b), max)
<1>1. PICK merged \in Seq(Chunk(max)), current \in Block(max) :
        at = [merged |-> merged, current |-> current]
  BY DEF MergedSoFar
<1>2. LettersOf(merged) \o Letters(current) = LettersOf(bs)
  BY <1>1 DEF MergedSoFar
<1>3. /\ merged \in Seq(Text) /\ bs \in Seq(Text) /\ current \in Text /\ b \in Text
      /\ Len(b) <= max /\ Len(current) <= max
      /\ b = <<>> \/ Letters(b) # <<>>
      /\ current = <<>> \/ Letters(current) # <<>>
  BY SeqOfSubset DEF Block, Chunk
<1>4. /\ LettersOf(merged) \in Text /\ Letters(current) \in Text /\ Letters(b) \in Text
      /\ LettersOf(Append(bs, b)) = LettersOf(bs) \o Letters(b)
  BY <1>3, LettersOfType, LettersType, LettersOfAppend
<1> DEFINE candidate == IF current = <<>> THEN b ELSE current \o <<NL, NL>> \o b
<1>5. NextBlock(max)[at][b] =
        IF Len(candidate) <= max THEN [merged |-> merged, current |-> candidate]
        ELSE [merged |-> Append(merged, current), current |-> b]
  <2>1. at \in [merged : Seq(Text), current : Text] /\ at.merged = merged /\ at.current = current
    BY <1>1, <1>3
  <2>2. NextBlock(max)[at][b] =
          IF Len(candidate) <= max THEN [at EXCEPT !.current = candidate]
          ELSE [merged |-> Append(merged, current), current |-> b]
    BY <1>3, <2>1 DEF NextBlock
  <2> HIDE DEF candidate
  <2>3. [at EXCEPT !.current = candidate] = [merged |-> merged, current |-> candidate]
    BY <1>1
  <2> QED BY <2>2, <2>3
<1>6. candidate \in Text /\ Letters(candidate) = Letters(current) \o Letters(b)
  <2>1. CASE current = <<>>
    BY <1>3, <1>4, <2>1, LettersEmpty, TextEmpty
  <2>2. CASE current # <<>>
    <3>1. current \o <<NL, NL>> \in Text /\ Letters(current \o <<NL, NL>>) = Letters(current) \o <<>>
      BY <1>3, Breaks, LettersConcat, TextConcat
    <3>2. Letters(current) \o <<>> = Letters(current)
      BY <1>4, TextEmpty
    <3> DEFINE c == current \o <<NL, NL>>
    <3>3. c \in Text /\ Letters(c) = Letters(current)
      BY <3>1, <3>2
    <3>4. candidate = c \o b
      BY <2>2
    <3> HIDE DEF c, candidate
    <3> QED BY <1>3, <3>3, <3>4, LettersConcat, TextConcat
  <2> QED BY <2>1, <2>2
<1>7. candidate = <<>> \/ Letters(candidate) # <<>>
  <2>1. CASE current = <<>>
    BY <1>3, <2>1
  <2>2. CASE current # <<>>
    <3>1. Letters(current) # <<>>
      BY <1>3, <2>2
    <3>2. Letters(current) \o Letters(b) # <<>>
      <4>1. /\ Len(Letters(current) \o Letters(b)) = Len(Letters(current)) + Len(Letters(b))
            /\ Len(Letters(current)) \in Nat /\ Len(Letters(b)) \in Nat
        BY <1>4, TextConcat
      <4>2. Len(Letters(current)) # 0
        BY <1>4, <3>1, EmptySeq DEF Text
      <4> QED BY <4>1, <4>2, EmptySeq
    <3> HIDE DEF candidate
    <3> QED BY <1>6, <3>2
  <2> QED BY <2>1, <2>2
<1>8. CASE Len(candidate) <= max
  <2>1. NextBlock(max)[at][b] = [merged |-> merged, current |-> candidate]
    BY <1>5, <1>8
  <2> HIDE DEF candidate
  <2>2. candidate \in Block(max)
    BY <1>6, <1>7, <1>8 DEF Block
  <2>3. LettersOf(merged) \o Letters(candidate) = LettersOf(Append(bs, b))
    <3>1. (LettersOf(merged) \o Letters(current)) \o Letters(b)
            = LettersOf(merged) \o (Letters(current) \o Letters(b))
      BY <1>4, TextAssociative
    <3> QED BY <1>2, <1>4, <1>6, <3>1
  <2> DEFINE bs2 == Append(bs, b)
  <2> HIDE DEF bs2
  <2>4. MergedSoFar([merged |-> merged, current |-> candidate], bs2, max)
    BY <2>2, <2>3 DEF MergedSoFar, bs2
  <2> QED BY <2>1, <2>4 DEF bs2
<1>9. CASE ~ (Len(candidate) <= max)
  <2>1. NextBlock(max)[at][b] = [merged |-> Append(merged, current), current |-> b]
    BY <1>5, <1>9
  <2>2. current # <<>>
    BY <1>3, <1>9
  <2>3. current \in Chunk(max)
    BY <1>3, <2>2 DEF Chunk
  <2>4. Append(merged, current) \in Seq(Chunk(max))
    BY <2>3, AppendProperties
  <2>5. LettersOf(Append(merged, current)) = LettersOf(merged) \o Letters(current)
    BY <1>3, LettersOfAppend
  <2>6. LettersOf(Append(merged, current)) \o Letters(b) = LettersOf(Append(bs, b))
    BY <1>2, <1>4, <2>5
  <2> DEFINE at2 == NextBlock(max)[at][b]
             bs2 == Append(bs, b)
  <2>7. /\ at2 \in [merged : Seq(Chunk(max)), current : Block(max)]
        /\ at2.merged = Append(merged, current) /\ at2.current = b
    BY <2>1, <2>4
  <2> HIDE DEF at2, bs2, candidate
  <2>8. MergedSoFar(at2, bs2, max)
    BY <2>6, <2>7 DEF MergedSoFar, bs2
  <2> QED BY <2>8 DEF at2, bs2
<1> QED BY <1>8, <1>9

LEMMA MergeIs ==
  ASSUME NEW max \in Nat, NEW blocks \in Seq(Block(max))
  PROVE  /\ Merge(blocks, max) \in Seq(Chunk(max))
         /\ LettersOf(Merge(blocks, max)) = LettersOf(blocks)
<1> DEFINE start == [merged |-> <<>>, current |-> <<>>]
           end(bs) == Loop(NextBlock(max), start, bs)
           G == {bs \in Seq(Block(max)) : MergedSoFar(end(bs), bs, max)}
<1>1. <<>> \in G
  <2>1. end(<<>>) = start
    BY LoopEmpty
  <2>2. /\ <<>> \in Seq(Chunk(max)) /\ <<>> \in Seq(Block(max)) /\ <<>> \in Text
        /\ Len(<<>>) = 0 /\ <<>> \o <<>> = <<>>
    BY EmptySeq, TextEmpty DEF Text
  <2>3. <<>> \in Block(max)
    BY <2>2 DEF Block
  <2>4. MergedSoFar(start, <<>>, max)
    BY <2>2, <2>3, LettersOfEmpty, LettersEmpty DEF MergedSoFar
  <2> HIDE DEF end, start
  <2> QED BY <2>1, <2>2, <2>4
<1> HIDE DEF start
<1>2. ASSUME NEW bs \in G, NEW b \in Block(max) PROVE Append(bs, b) \in G
  <2>1. bs \in Seq(Block(max)) /\ MergedSoFar(end(bs), bs, max) /\ Append(bs, b) \in Seq(Block(max))
    BY AppendProperties
  <2>2. end(Append(bs, b)) = NextBlock(max)[end(bs)][b]
    BY <2>1, LoopAppend
  <2> HIDE DEF end
  <2> QED BY <2>1, <2>2, NextBlockKeeps
<1>3. G \in SUBSET Seq(Block(max))
  OBVIOUS
<1> HIDE DEF G
<1>4. G = Seq(Block(max))
  BY <1>1, <1>2, <1>3, AllSequences
<1> DEFINE e == end(blocks)
<1>5. MergedSoFar(e, blocks, max)
  BY <1>4 DEF G
<1>6. Merge(blocks, max) = IF e.current = <<>> THEN e.merged ELSE Append(e.merged, e.current)
  BY DEF Merge, start
<1> HIDE DEF e
<1>7. /\ e.merged \in Seq(Chunk(max)) /\ e.current \in Block(max)
      /\ LettersOf(e.merged) \o Letters(e.current) = LettersOf(blocks)
  BY <1>5 DEF MergedSoFar
<1>8. e.merged \in Seq(Text) /\ e.current \in Text
  BY <1>7, SeqOfSubset DEF Block, Chunk
<1>9. CASE e.current = <<>>
  <2>1. LettersOf(e.merged) \o <<>> = LettersOf(e.merged)
    BY <1>8, LettersOfType, TextEmpty
  <2> QED BY <1>6, <1>7, <1>9, <2>1, LettersEmpty
<1>10. CASE e.current # <<>>
  <2>1. e.current \in Chunk(max)
    BY <1>7, <1>10 DEF Block, Chunk
  <2>2. Append(e.merged, e.current) \in Seq(Chunk(max))
    BY <1>7, <2>1, AppendProperties
  <2>3. LettersOf(Append(e.merged, e.current)) = LettersOf(blocks)
    BY <1>7, <1>8, LettersOfAppend
  <2> QED BY <1>6, <1>10, <2>2, <2>3
<1> QED BY <1>9, <1>10

\* The chunks of a text, together, have its letters; each fits and has some.
LEMMA ChunkedIs ==
  ASSUME NEW t \in Text, NEW n \in Nat \ {0}
  PROVE  /\ Chunked(t, n) \in Seq(Chunk(n * CharsPerToken))
         /\ LettersOf(Chunked(t, n)) = Letters(t)
<1> DEFINE max == n * CharsPerToken
           blocks == Blocks(Normalize(t), max)
<1>1. max \in Nat /\ max >= 2
  BY DEF CharsPerToken
<1>2. Chunked(t, n) = Merge(blocks, max)
  BY DEF Chunked
<1> HIDE DEF max
<1>3. Normalize(t) \in Text /\ Letters(Normalize(t)) = Letters(t)
  BY NormalizeIs
<1>4. blocks \in Seq(Block(max)) /\ LettersOf(blocks) = Letters(t)
  BY <1>1, <1>3, BlocksIs
<1> HIDE DEF blocks
<1>5. Merge(blocks, max) \in Seq(Chunk(max)) /\ LettersOf(Merge(blocks, max)) = LettersOf(blocks)
  BY <1>1, <1>4, MergeIs
<1> QED BY <1>2, <1>4, <1>5 DEF max

\* A message is one document, or none when it is blank.
LEMMA CanonicalIs ==
  ASSUME NEW t \in Text
  PROVE  Canonical(<<t>>) = IF Strip(t) = <<>> THEN <<>> ELSE <<Header \o <<NL, NL>> \o t>>
<1> DEFINE B == [docs \in Seq(Text) |-> [x \in Text |->
                  IF Strip(x) = <<>> THEN docs ELSE Append(docs, Header \o <<NL, NL>> \o x)]]
           doc == Header \o <<NL, NL>> \o t
           one == Append(<<>>, t)
<1>1. Canonical(one) = Loop(B, <<>>, one)
  BY DEF Canonical
<1>2. <<>> \in Seq(Text) /\ one = <<t>>
  BY EmptySeq
<1>3. B[<<>>][t] = IF Strip(t) = <<>> THEN <<>> ELSE Append(<<>>, doc)
  BY <1>2
<1> HIDE DEF B, doc
<1>4. Append(<<>>, doc) = <<doc>>
  OBVIOUS
<1>5. Loop(B, <<>>, one) = B[<<>>][t]
  <2> DEFINE none == <<>>
  <2>1. none \in Seq(Text) /\ Loop(B, <<>>, none) = <<>>
    BY <1>2, LoopEmpty
  <2> HIDE DEF none
  <2>2. Loop(B, <<>>, Append(none, t)) = B[Loop(B, <<>>, none)][t]
    BY <2>1, LoopAppend
  <2> QED BY <2>1, <2>2 DEF none
<1> QED BY <1>1, <1>2, <1>3, <1>4, <1>5 DEF doc

\* Every text is stored whole, under every budget.
THEOREM TextWhole == \A t \in Text, b \in Nat : Whole(t, b)
<1> SUFFICES ASSUME NEW t \in Text, NEW b \in Nat PROVE Whole(t, b)
  OBVIOUS
<1>1. CASE Strip(t) = <<>>
  <2>1. Canonical(<<t>>) = <<>>
    BY <1>1, CanonicalIs
  <2>2. Drafts(<<t>>, b, MaxTokens) = <<>>
    BY <2>1 DEF Drafts
  <2> QED BY <1>1, <2>2 DEF Whole
<1>2. CASE Strip(t) # <<>>
  <2> DEFINE text   == Header \o <<NL, NL>> \o t
             whole  == LettersOf(Firsts(Lines(text)))
             chunks == Chunked(Compress(text, b), MaxTokens)
  <2>1. text \in Text
    BY Breaks, TextConcat, TextAssumption
  <2>2. Canonical(<<t>>) = <<text>>
    BY <1>2, CanonicalIs
  <2> HIDE DEF text
  <2>3. Canonical(<<t>>)[1] = text /\ Drafts(<<t>>, b, MaxTokens)[1] = chunks
    <3> DEFINE docs == Canonical(<<t>>)
    <3>1. docs[1] = text /\ DOMAIN docs = {1}
      BY <2>2
    <3>2. Drafts(<<t>>, b, MaxTokens) = [i \in DOMAIN docs |-> Chunked(Compress(docs[i], b), MaxTokens)]
      BY DEF Drafts
    <3> HIDE DEF docs
    <3>3. Drafts(<<t>>, b, MaxTokens)[1] = chunks
      BY <3>1, <3>2
    <3> QED BY <3>1, <3>3 DEF docs
  <2>4. /\ Compress(text, b) \in Text
        /\ Tokens(Compress(text, b)) <= b \/ Len(text) <= b * CharsPerToken
        /\ whole \in Text
        /\ Len(text) <= b * CharsPerToken => Letters(Compress(text, b)) = whole
        /\ \E rest \in Text : whole = Letters(Compress(text, b)) \o rest
    BY <2>1, CompressIs
  <2>5. /\ chunks \in Seq(Chunk(MaxTokens * CharsPerToken))
        /\ LettersOf(chunks) = Letters(Compress(text, b))
    BY <2>4, TextsAssumption, ChunkedIs
  <2> HIDE DEF whole, chunks
  <2>6. IsPrefix(LettersOf(chunks), whole)
    BY <2>4, <2>5 DEF IsPrefix, Text
  <2>7. \A i \in DOMAIN chunks : Letters(chunks[i]) # <<>> /\ Tokens(chunks[i]) <= MaxTokens
    <3> SUFFICES ASSUME NEW i \in DOMAIN chunks
                 PROVE  Letters(chunks[i]) # <<>> /\ Tokens(chunks[i]) <= MaxTokens
      OBVIOUS
    <3>1. chunks[i] \in Chunk(MaxTokens * CharsPerToken)
      BY <2>5
    <3> QED BY <3>1, TextsAssumption, TokensIs DEF Chunk
  <2> QED BY <1>2, <2>2, <2>3, <2>4, <2>5, <2>6, <2>7 DEF Whole, whole
<1> QED BY <1>1, <1>2

COROLLARY NoneNotWhole == NotWhole = {}
BY TextWhole, TextsAssumption DEF NotWhole
=============================================================================
