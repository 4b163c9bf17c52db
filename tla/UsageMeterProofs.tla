-------------------------- MODULE UsageMeterProofs --------------------------
(***************************************************************************)
(* Proofs about metered calls, for every number of callers and tenants,    *)
(* whatever the caps, and with callers that may end at any await.          *)
(***************************************************************************)
EXTENDS UsageMeterProperties, Functions, FiniteSetTheorems, WellFoundedInduction, TLAPS

-----------------------------------------------------------------------------
(***************************************************************************)
(* Sums.  The value of SumFunctionOnSet does not depend on the order in    *)
(* which its fold takes the elements, and one summand that changes changes *)
(* the sum by as much.  Proved by induction on cardinality, stated with    *)
(* sets: the naturals for which a fact holds are shown to be Nat (Induct). *)
(***************************************************************************)

\* A set of naturals with 0 and every successor has them all.
LEMMA Induct ==
  ASSUME NEW S \in SUBSET Nat, 0 \in S, \A n \in S : n + 1 \in S
  PROVE  S = Nat
<1> SUFFICES ASSUME Nat \ S # {} PROVE FALSE
  OBVIOUS
<1>1. PICK n \in Nat \ S : \A m \in Nat \ S : ~ (<<m, n>> \in OpToRel(<, Nat))
  <2> DEFINE R == OpToRel(<, Nat)
  <2>1. IsWellFoundedOn(R, Nat)
    BY NatLessThanWellFounded
  <2> HIDE DEF R
  <2>2. \E n \in Nat \ S : \A m \in Nat \ S : ~ (<<m, n>> \in R)
    BY <2>1, WFMin
  <2> QED BY <2>2 DEF R
<1>2. \A m \in Nat \ S : ~ (m < n)
  BY <1>1 DEF OpToRel
<1>3. n # 0 /\ n - 1 \in Nat /\ n - 1 < n
  OBVIOUS
<1> QED BY <1>2, <1>3

\* What the recursion of a fold adds up for s, from the sums of smaller sets.
SumStep(g, f, s) == IF s = {} THEN 0
                    ELSE LET x == CHOOSE x \in s : TRUE IN f[x] + g[s \ {x}]

IsSums(g, f, S) == g = [s \in SUBSET S |-> SumStep(g, f, s)]

LEMMA SumUnfold ==
  ASSUME NEW f, NEW S
  PROVE  SumFunctionOnSet(f, S) = (CHOOSE g : IsSums(g, f, S))[S]
BY DEF SumFunctionOnSet, FoldFunctionOnSet, MapThenFoldSet, SumStep, IsSums

\* Taking an element off a finite set lowers its cardinality by one.
LEMMA OneLess ==
  ASSUME NEW S, IsFiniteSet(S), NEW n \in Nat, Cardinality(S) <= n + 1, NEW x \in S
  PROVE  /\ Cardinality(S \ {x}) <= n
         /\ Cardinality(S) = n + 1 => Cardinality(S \ {x}) = n
<1>1. IsFiniteSet(S \ {x}) /\ Cardinality(S \ {x}) = Cardinality(S) - 1
  BY FS_RemoveElement
<1>2. Cardinality(S) \in Nat
  BY FS_CardinalityType
<1> QED BY <1>1, <1>2

\* The recursive function exists.
LEMMA SumsExist ==
  ASSUME NEW f, NEW S, IsFiniteSet(S)
  PROVE  \E g : IsSums(g, f, S)
<1> DEFINE Upto(h, n) == \A s \in SUBSET S : Cardinality(s) <= n => h[s] = SumStep(h, f, s)
           N == {n \in Nat : \E h : h = [s \in SUBSET S |-> h[s]] /\ Upto(h, n)}
<1>0. \A s \in SUBSET S : IsFiniteSet(s) /\ Cardinality(s) \in Nat /\ Cardinality(s) <= Cardinality(S)
  BY FS_Subset, FS_CardinalityType
<1>1. 0 \in N
  <2> DEFINE h == [s \in SUBSET S |-> 0]
  <2>1. \A s \in SUBSET S : Cardinality(s) <= 0 => s = {}
    BY <1>0, FS_EmptySet
  <2>2. Upto(h, 0)
    BY <2>1 DEF SumStep
  <2> QED BY <2>2
<1>2. ASSUME NEW n \in N PROVE n + 1 \in N
  <2>1. PICK h : h = [s \in SUBSET S |-> h[s]] /\ Upto(h, n)
    BY <1>2
  <2> DEFINE k == [s \in SUBSET S |-> SumStep(h, f, s)]
  <2>2. ASSUME NEW s \in SUBSET S, Cardinality(s) <= n + 1
        PROVE  k[s] = SumStep(k, f, s)
    <3>1. CASE s = {}
      BY <3>1 DEF SumStep
    <3>2. CASE s # {}
      <4> DEFINE x == CHOOSE x \in s : TRUE
      <4>1. s \ {x} \in SUBSET S
        OBVIOUS
      <4>2. Cardinality(s \ {x}) <= n
        <5>1. x \in s /\ n \in Nat /\ IsFiniteSet(s)
          BY <1>0, <3>2
        <5> HIDE DEF x
        <5> QED BY <2>2, <5>1, OneLess
      <4>3. h[s \ {x}] = k[s \ {x}]
        BY <2>1, <4>1, <4>2
      <4> QED BY <3>2, <4>3 DEF SumStep
    <3> QED BY <3>1, <3>2
  <2>3. Upto(k, n + 1) /\ k = [s \in SUBSET S |-> k[s]]
    BY <2>2
  <2>4. n + 1 \in Nat
    BY <1>2
  <2> HIDE DEF k, Upto
  <2>5. \E g : g = [s \in SUBSET S |-> g[s]] /\ Upto(g, n + 1)
    BY <2>3
  <2> QED BY <2>4, <2>5
<1> HIDE DEF Upto
<1>3. Cardinality(S) \in N
  <2>1. N \in SUBSET Nat
    OBVIOUS
  <2> HIDE DEF N
  <2>2. N = Nat
    BY <1>1, <1>2, <2>1, Induct
  <2> QED BY <1>0, <2>2
<1>4. PICK h : h = [s \in SUBSET S |-> h[s]] /\ Upto(h, Cardinality(S))
  BY <1>3
<1>5. \A s \in SUBSET S : h[s] = SumStep(h, f, s)
  BY <1>0, <1>4 DEF Upto
<1> QED BY <1>4, <1>5 DEF IsSums

\* Two such functions, for sets of which one may be larger, agree.
LEMMA SumsAgree ==
  ASSUME NEW f, NEW S, IsFiniteSet(S), NEW T \in SUBSET S,
         NEW g, IsSums(g, f, S), NEW h, IsSums(h, f, T)
  PROVE  g[T] = h[T]
<1> DEFINE N == {n \in Nat : \A s \in SUBSET T : Cardinality(s) = n => g[s] = h[s]}
<1>0. \A s \in SUBSET T : IsFiniteSet(s) /\ Cardinality(s) \in Nat /\ s \in SUBSET S
  BY FS_Subset, FS_CardinalityType
<1>a. /\ \A s \in SUBSET S : g[s] = SumStep(g, f, s)
      /\ \A s \in SUBSET T : h[s] = SumStep(h, f, s)
  <2>1. g = [s \in SUBSET S |-> SumStep(g, f, s)] /\ h = [s \in SUBSET T |-> SumStep(h, f, s)]
    BY DEF IsSums
  <2> QED BY <2>1
<1>1. 0 \in N
  <2> SUFFICES ASSUME NEW s \in SUBSET T, Cardinality(s) = 0 PROVE g[s] = h[s]
    OBVIOUS
  <2>1. s = {}
    BY <1>0, FS_EmptySet
  <2> QED BY <1>a, <2>1 DEF SumStep
<1>2. ASSUME NEW n \in N PROVE n + 1 \in N
  <2> SUFFICES ASSUME NEW s \in SUBSET T, Cardinality(s) = n + 1 PROVE g[s] = h[s]
    OBVIOUS
  <2> DEFINE x == CHOOSE x \in s : TRUE
  <2>1. s # {}
    BY FS_EmptySet
  <2>2. Cardinality(s \ {x}) = n /\ s \ {x} \in SUBSET T
    <3>1. x \in s /\ n \in Nat /\ IsFiniteSet(s)
      BY <1>0, <2>1
    <3> HIDE DEF x
    <3> QED BY <3>1, OneLess
  <2>3. g[s \ {x}] = h[s \ {x}]
    BY <1>2, <2>2
  <2>4. g[s] = SumStep(g, f, s) /\ h[s] = SumStep(h, f, s)
    BY <1>a, <1>0
  <2> QED BY <2>1, <2>3, <2>4 DEF SumStep
<1>3. N = Nat
  <2>1. N \in SUBSET Nat
    OBVIOUS
  <2> HIDE DEF N
  <2> QED BY <1>1, <1>2, <2>1, Induct
<1> QED BY <1>0, <1>3

\* The equation that defines a sum.
LEMMA SumChosen ==
  ASSUME NEW f, NEW S, IsFiniteSet(S)
  PROVE  /\ S = {} => SumFunctionOnSet(f, S) = 0
         /\ S # {} => LET x == CHOOSE x \in S : TRUE
                      IN  SumFunctionOnSet(f, S) = f[x] + SumFunctionOnSet(f, S \ {x})
<1> DEFINE g(T) == CHOOSE g : IsSums(g, f, T)
<1>1. \A T \in SUBSET S : IsFiniteSet(T) /\ IsSums(g(T), f, T) /\ SumFunctionOnSet(f, T) = g(T)[T]
  BY FS_Subset, SumsExist, SumUnfold
<1>2. g(S)[S] = SumStep(g(S), f, S)
  <2>1. g(S) = [s \in SUBSET S |-> SumStep(g(S), f, s)]
    BY <1>1 DEF IsSums
  <2> HIDE DEF g
  <2> QED BY <2>1
<1>3. ASSUME NEW x \in S PROVE g(S)[S \ {x}] = g(S \ {x})[S \ {x}]
  <2> HIDE DEF g
  <2>1. S \ {x} \in SUBSET S
    OBVIOUS
  <2> QED BY <1>1, <2>1, SumsAgree
<1> HIDE DEF g
<1> QED BY <1>1, <1>2, <1>3 DEF SumStep

\* Any element of a finite set may be summed first.
LEMMA SumWithout ==
  ASSUME NEW f, NEW S, IsFiniteSet(S), \A x \in S : f[x] \in Nat, NEW a \in S
  PROVE  /\ SumFunctionOnSet(f, S) = f[a] + SumFunctionOnSet(f, S \ {a})
         /\ SumFunctionOnSet(f, S) \in Nat
         /\ SumFunctionOnSet(f, S \ {a}) \in Nat
<1> DEFINE sum(T) == SumFunctionOnSet(f, T)
           N == {n \in Nat : \A T \in SUBSET S : Cardinality(T) = n =>
                   /\ sum(T) \in Nat
                   /\ \A x \in T : sum(T \ {x}) \in Nat /\ sum(T) = f[x] + sum(T \ {x})}
<1>0. \A T \in SUBSET S : IsFiniteSet(T) /\ Cardinality(T) \in Nat
  BY FS_Subset, FS_CardinalityType
<1>a. sum({}) = 0
  BY <1>0, SumChosen
<1>b. ASSUME NEW T \in SUBSET S, T # {}, NEW c, c = CHOOSE x \in T : TRUE
      PROVE  sum(T) = f[c] + sum(T \ {c})
  BY <1>0, <1>b, SumChosen
<1> HIDE DEF sum
<1>1. 0 \in N
  <2>1. \A T \in SUBSET S : Cardinality(T) = 0 => T = {}
    BY <1>0, FS_EmptySet
  <2>2. sum({}) \in Nat
    BY <1>a
  <2> QED BY <2>1, <2>2
<1>2. ASSUME NEW n \in N PROVE n + 1 \in N
  <2>0. n \in Nat /\ n + 1 \in Nat
    OBVIOUS
  <2> SUFFICES ASSUME NEW T \in SUBSET S, Cardinality(T) = n + 1
               PROVE  /\ sum(T) \in Nat
                      /\ \A x \in T : sum(T \ {x}) \in Nat /\ sum(T) = f[x] + sum(T \ {x})
    BY <2>0
  <2> DEFINE c == CHOOSE x \in T : TRUE
  <2>a. T # {}
    BY <1>0, <2>0, FS_EmptySet
  <2>1. T # {} /\ c \in T /\ c \in S
    BY <2>a
  <2>2. sum(T) = f[c] + sum(T \ {c})
    BY <2>1, <1>b
  <2> HIDE DEF c
  <2>3. \A x \in T : T \ {x} \in SUBSET S /\ Cardinality(T \ {x}) = n
    BY <1>0, <2>0, FS_RemoveElement
  <2>4. \A x \in T :
          /\ sum(T \ {x}) \in Nat
          /\ \A y \in T \ {x} : /\ sum((T \ {x}) \ {y}) \in Nat
                              /\ sum(T \ {x}) = f[y] + sum((T \ {x}) \ {y})
    BY <1>2, <2>3
  <2>5. sum(T) \in Nat
    BY <2>1, <2>2, <2>4
  <2>6. ASSUME NEW x \in T, x # c PROVE sum(T) = f[x] + sum(T \ {x})
    <3>1. sum(T \ {c}) = f[x] + sum((T \ {c}) \ {x})
      BY <2>1, <2>4, <2>6
    <3>2. sum(T \ {x}) = f[c] + sum((T \ {x}) \ {c})
      BY <2>1, <2>4, <2>6
    <3>3. (T \ {c}) \ {x} = (T \ {x}) \ {c}
      OBVIOUS
    <3> DEFINE rest == sum((T \ {x}) \ {c})
    <3>4. sum(T \ {c}) = f[x] + rest /\ sum(T \ {x}) = f[c] + rest
      BY <3>1, <3>2, <3>3
    <3>5. rest \in Nat
      BY <2>1, <2>4, <2>6
    <3> HIDE DEF rest
    <3>6. f[x] \in Nat /\ f[c] \in Nat
      BY <2>1
    <3> QED BY <2>2, <3>4, <3>5, <3>6
  <2> QED BY <2>2, <2>4, <2>5, <2>6
<1>3. N = Nat
  <2>1. N \in SUBSET Nat
    OBVIOUS
  <2> HIDE DEF N
  <2> QED BY <1>1, <1>2, <2>1, Induct
<1>4. sum(S) \in Nat /\ sum(S) = f[a] + sum(S \ {a}) /\ sum(S \ {a}) \in Nat
  BY <1>0, <1>3
<1> QED BY <1>4 DEF sum

\* A sum depends on the summands of its set alone.
LEMMA SumSame ==
  ASSUME NEW S, IsFiniteSet(S), NEW f, NEW h, \A x \in S : f[x] = h[x]
  PROVE  SumFunctionOnSet(f, S) = SumFunctionOnSet(h, S)
<1> DEFINE N == {n \in Nat : \A T \in SUBSET S : Cardinality(T) = n =>
                   SumFunctionOnSet(f, T) = SumFunctionOnSet(h, T)}
<1>0. \A T \in SUBSET S : IsFiniteSet(T) /\ Cardinality(T) \in Nat
  BY FS_Subset, FS_CardinalityType
<1>1. 0 \in N
  <2> SUFFICES ASSUME NEW T \in SUBSET S, Cardinality(T) = 0
               PROVE  SumFunctionOnSet(f, T) = SumFunctionOnSet(h, T)
    OBVIOUS
  <2>1. T = {}
    BY <1>0, FS_EmptySet
  <2> QED BY <1>0, <2>1, SumChosen
<1>2. ASSUME NEW n \in N PROVE n + 1 \in N
  <2>0. n \in Nat /\ n + 1 \in Nat
    OBVIOUS
  <2> SUFFICES ASSUME NEW T \in SUBSET S, Cardinality(T) = n + 1
               PROVE  SumFunctionOnSet(f, T) = SumFunctionOnSet(h, T)
    BY <2>0
  <2> DEFINE c == CHOOSE x \in T : TRUE
  <2>a. T # {}
    BY <1>0, <2>0, FS_EmptySet
  <2>1. T # {} /\ c \in T
    BY <2>a
  <2>2. /\ SumFunctionOnSet(f, T) = f[c] + SumFunctionOnSet(f, T \ {c})
        /\ SumFunctionOnSet(h, T) = h[c] + SumFunctionOnSet(h, T \ {c})
    BY <1>0, <2>1, SumChosen
  <2> HIDE DEF c
  <2>3. T \ {c} \in SUBSET S /\ Cardinality(T \ {c}) = n
    BY <1>0, <2>0, <2>1, OneLess
  <2> QED BY <1>2, <2>1, <2>2, <2>3
<1>3. N = Nat
  <2>1. N \in SUBSET Nat
    OBVIOUS
  <2> HIDE DEF N
  <2> QED BY <1>1, <1>2, <2>1, Induct
<1> QED BY <1>0, <1>3

\* A sum changes as much as its one summand that changes.
LEMMA SumRaised ==
  ASSUME NEW S, IsFiniteSet(S), NEW f, NEW h, NEW a \in S,
         \A x \in S : f[x] \in Nat /\ h[x] \in Nat,
         \A x \in S \ {a} : h[x] = f[x]
  PROVE  SumFunctionOnSet(h, S) = SumFunctionOnSet(f, S) - f[a] + h[a]
<1>1. SumFunctionOnSet(h, S \ {a}) = SumFunctionOnSet(f, S \ {a})
  BY FS_Subset, SumSame
<1>2. /\ SumFunctionOnSet(f, S) = f[a] + SumFunctionOnSet(f, S \ {a})
      /\ SumFunctionOnSet(f, S \ {a}) \in Nat
  <2>1. \A x \in S : f[x] \in Nat
    OBVIOUS
  <2> QED BY <2>1, SumWithout
<1>5. SumFunctionOnSet(h, S) = h[a] + SumFunctionOnSet(h, S \ {a})
  <2>1. \A x \in S : h[x] \in Nat
    OBVIOUS
  <2> QED BY <2>1, SumWithout
<1> DEFINE rest == SumFunctionOnSet(f, S \ {a})
<1>3. rest \in Nat /\ f[a] \in Nat /\ h[a] \in Nat
  BY <1>2
<1>4. SumFunctionOnSet(f, S) = f[a] + rest /\ SumFunctionOnSet(h, S) = h[a] + rest
  BY <1>1, <1>2, <1>5
<1> HIDE DEF rest
<1> QED BY <1>3, <1>4
\* The sum of naturals over a finite set is one.
LEMMA SumNatural ==
  ASSUME NEW f, NEW S, IsFiniteSet(S), \A x \in S : f[x] \in Nat
  PROVE  SumFunctionOnSet(f, S) \in Nat
<1>1. CASE S = {}
  <2>1. S = {} => SumFunctionOnSet(f, S) = 0
    BY SumChosen
  <2> QED BY <1>1, <2>1
<1>2. CASE S # {}
  <2>1. PICK a \in S : TRUE
    BY <1>2
  <2> QED BY <2>1, SumWithout
<1> QED BY <1>1, <1>2

\* The sum of zeros is zero.
LEMMA SumZero ==
  ASSUME NEW f, NEW S, IsFiniteSet(S), \A x \in S : f[x] = 0
  PROVE  SumFunctionOnSet(f, S) = 0
<1> DEFINE sum(T) == SumFunctionOnSet(f, T)
           N == {n \in Nat : \A T \in SUBSET S : Cardinality(T) = n => sum(T) = 0}
<1>0. \A T \in SUBSET S : IsFiniteSet(T) /\ Cardinality(T) \in Nat
  BY FS_Subset, FS_CardinalityType
<1>a. sum({}) = 0
  BY <1>0, SumChosen
<1>b. ASSUME NEW T \in SUBSET S, T # {}, NEW c, c = CHOOSE x \in T : TRUE
      PROVE  sum(T) = f[c] + sum(T \ {c})
  BY <1>0, <1>b, SumChosen
<1> HIDE DEF sum
<1>1. 0 \in N
  <2>1. \A T \in SUBSET S : Cardinality(T) = 0 => T = {}
    BY <1>0, FS_EmptySet
  <2> QED BY <1>a, <2>1
<1>2. ASSUME NEW n \in N PROVE n + 1 \in N
  <2>0. n \in Nat /\ n + 1 \in Nat
    OBVIOUS
  <2> SUFFICES ASSUME NEW T \in SUBSET S, Cardinality(T) = n + 1 PROVE sum(T) = 0
    BY <2>0
  <2> DEFINE c == CHOOSE x \in T : TRUE
  <2>a. T # {}
    BY <1>0, <2>0, FS_EmptySet
  <2>1. c \in T /\ c \in S
    BY <2>a
  <2>2. sum(T) = f[c] + sum(T \ {c})
    BY <2>a, <1>b
  <2> HIDE DEF c
  <2>3. T \ {c} \in SUBSET S /\ Cardinality(T \ {c}) = n
    BY <1>0, <2>0, <2>1, OneLess
  <2>4. f[c] = 0 /\ sum(T \ {c}) = 0
    BY <1>2, <2>1, <2>3
  <2> QED BY <2>2, <2>4
<1>3. N = Nat
  <2>1. N \in SUBSET Nat
    OBVIOUS
  <2> HIDE DEF N
  <2> QED BY <1>1, <1>2, <2>1, Induct
<1>4. sum(S) = 0
  BY <1>0, <1>3
<1> QED BY <1>4 DEF sum

-----------------------------------------------------------------------------
(***************************************************************************)
(* Type correctness.                                                       *)
(***************************************************************************)

\* What the labels are, for the leaves that tell them apart.
LEMMA Labels ==
  /\ Locked \subseteq PC \ {"idle", "cache", "connect", "lock", "store"}
  /\ Checked \subseteq Locked
BY DEF Locked, Checked, PC

\* Leaving keeps the variables of the calls well typed.
LEMMA LeaveTyped ==
  ASSUME TypeOK, NEW c \in Callers, Leave(c)
  PROVE  /\ pc' \in [Callers -> PC]
         /\ tenant' \in [Callers -> Tenants \cup {None}]
         /\ \A d \in Callers : (tenant'[d] = None <=> pc'[d] = "idle") /\ StageOK(pc'[d], request'[d])
         /\ request' \in [Callers -> Prompts \cup Kinds \cup {None}]
         /\ cost' \in [Callers -> 0..MaxCost]
<1>1. 0 \in 0..MaxCost /\ "idle" \in PC
  BY MeterAssumption DEF PC
<1>2. StageOK("idle", None)
  BY DEF StageOK, Checked
<1> QED BY <1>1, <1>2 DEF TypeOK, Leave, Goto

\* Going on to a label other than idle keeps them well typed, too.
LEMMA GotoTyped ==
  ASSUME TypeOK, NEW c \in Callers, NEW label \in PC, label # "idle", pc[c] # "idle",
         Goto(c, label), UNCHANGED <<tenant, request>>, StageOK(label, request[c])
  PROVE  /\ pc' \in [Callers -> PC]
         /\ \A d \in Callers : (tenant'[d] = None <=> pc'[d] = "idle") /\ StageOK(pc'[d], request'[d])
BY DEF TypeOK, Goto

\* A row keeps the sums and counts in their types.
LEMMA AddRowTyped ==
  ASSUME TypeOK, NEW c \in Callers, pc[c] # "idle", AddRow(c)
  PROVE  /\ spent' \in [Tenants -> Nat]
         /\ searches' \in [Tenants -> Nat]
         /\ ingests' \in [Tenants -> Nat]
<1>1. tenant[c] \in Tenants /\ cost[c] \in Nat
  BY MeterAssumption DEF TypeOK
<1>2. spent[tenant[c]] + cost[c] \in Nat /\ searches[tenant[c]] + 1 \in Nat
        /\ ingests[tenant[c]] + 1 \in Nat
  BY <1>1 DEF TypeOK
<1> QED BY <1>1, <1>2 DEF TypeOK, AddRow

\* The locks without those of a caller are well typed.
LEMMA UnlockedTyped ==
  ASSUME TypeOK, NEW c \in Callers PROVE Unlocked(c) \in [Locks -> Callers \cup {None}]
BY DEF TypeOK, Unlocked

LEMMA InitTyped == Init => TypeOK
<1>1. 0 \in 0..MaxCost /\ "idle" \in PC
  BY MeterAssumption DEF PC
<1>2. StageOK("idle", None)
  BY DEF StageOK, Checked
<1> QED BY <1>1, <1>2, MeterAssumption DEF Init, TypeOK

LEMMA NextTyped == TypeOK /\ [Next]_vars => TypeOK'
<1> SUFFICES ASSUME TypeOK, [Next]_vars PROVE TypeOK'
  OBVIOUS
<1> USE DEF callVars, usageVars
<1>1. ASSUME NEW c \in Callers, Begin(c) PROVE TypeOK'
  <2>1. PICK t \in Tenants, r \in Prompts \cup Kinds :
           /\ tenant' = [tenant EXCEPT ![c] = t]
           /\ request' = [request EXCEPT ![c] = r]
           /\ Goto(c, IF r \in Prompts THEN "cache" ELSE "connect")
    BY <1>1 DEF Begin
  <2>2. t # None /\ begun + 1 \in Nat
    BY MeterAssumption DEF TypeOK
  <2>3. {"cache", "connect"} \subseteq PC \ {"idle"}
    BY DEF PC
  <2>5. r \in Prompts => StageOK("cache", r)
    BY MeterAssumption DEF StageOK, Checked, Kinds
  <2>6. StageOK("connect", r)
    BY DEF StageOK, Checked
  <2>7. r \in Prompts \cup Kinds \cup {None}
    OBVIOUS
  <2>4. /\ pc' \in [Callers -> PC]
        /\ \A d \in Callers : (tenant'[d] = None <=> pc'[d] = "idle") /\ StageOK(pc'[d], request'[d])
    BY <2>1, <2>2, <2>3, <2>5, <2>6, <2>7 DEF TypeOK, Goto
  <2> QED BY <1>1, <2>1, <2>2, <2>4 DEF TypeOK, Begin
<1>2. ASSUME NEW c \in Callers, CacheHit(c) PROVE TypeOK'
  BY <1>2, LeaveTyped DEF TypeOK, CacheHit
<1>3. ASSUME NEW c \in Callers, LockTimeout(c) PROVE TypeOK'
  BY <1>3, LeaveTyped DEF TypeOK, LockTimeout
<1>4. ASSUME NEW c \in Callers, Acquire(c) PROVE TypeOK'
  <2>1. tenant[c] \in Tenants
    BY <1>4 DEF TypeOK, Acquire
  <2>2. lock' \in [Locks -> Callers \cup {None}]
    BY <1>4, <2>1, MeterAssumption DEF TypeOK, Acquire
  <2>3. {"ingests", "family", "cap"} \subseteq PC \ {"idle"}
    BY DEF PC, Locked
  <2>4. /\ StageOK("ingests", "ingest")
        /\ request[c] # "ingest" => StageOK("family", request[c]) /\ StageOK("cap", request[c])
    BY DEF StageOK, Checked
  <2> QED BY <1>4, <2>2, <2>3, <2>4, GotoTyped DEF TypeOK, Acquire
<1>5. ASSUME NEW c \in Callers,
             CacheMiss(c) \/ Connect(c) \/ CheckFamily(c) \/ CheckCap(c) \/ CheckSearches(c)
               \/ ProviderFails(c) \/ CountIngests(c)
      PROVE  TypeOK'
  <2>1. {"connect", "lock", "leave", "cap", "searches", "calling", "mark"} \subseteq PC \ {"idle"}
    BY DEF PC, Locked, Checked
  <2>2. \E label \in PC \ {"idle"} : Goto(c, label) /\ StageOK(label, request[c])
    <3>1. StageOK(pc[c], request[c])
      BY DEF TypeOK
    <3>2. StageOK("connect", request[c]) /\ StageOK("lock", request[c]) /\ StageOK("leave", request[c])
      BY DEF StageOK, Checked
    <3>3. pc[c] \in {"family", "cap", "searches"}
            => StageOK("cap", request[c]) /\ StageOK("searches", request[c]) /\ StageOK("calling", request[c])
      BY <3>1 DEF StageOK, Checked
    <3>4. pc[c] = "ingests" => StageOK("mark", request[c])
      BY <3>1 DEF StageOK, Checked
    <3> QED BY <1>5, <2>1, <3>2, <3>3, <3>4
      DEF CacheMiss, Connect, CheckFamily, CheckCap, CheckSearches, ProviderFails, CountIngests
  <2>3. pc[c] # "idle" /\ UNCHANGED <<tenant, request, cost, lock, usageVars, cached, begun, others>>
    BY <1>5 DEF CacheMiss, Connect, CheckFamily, CheckCap, CheckSearches, ProviderFails, CountIngests
  <2> QED BY <2>2, <2>3, GotoTyped DEF TypeOK
<1>6. ASSUME NEW c \in Callers, ProviderAnswers(c) PROVE TypeOK'
  <2>1. "record" \in PC
    BY DEF PC, Locked, Checked
  <2>2. cost' \in [Callers -> 0..MaxCost]
    BY <1>6 DEF TypeOK, ProviderAnswers
  <2>3. StageOK("record", request[c])
    BY <1>6 DEF TypeOK, ProviderAnswers, StageOK, Checked
  <2> QED BY <1>6, <2>1, <2>2, <2>3, GotoTyped DEF TypeOK, ProviderAnswers
<1>7. ASSUME NEW c \in Callers, Record(c) PROVE TypeOK'
  <2>1. "done" \in PC
    BY DEF PC, Locked
  <2>2. StageOK("done", request[c])
    BY DEF StageOK, Checked
  <2> QED BY <1>7, <2>1, <2>2, GotoTyped, AddRowTyped DEF TypeOK, Record
<1>8. ASSUME NEW c \in Callers, Unlock(c) PROVE TypeOK'
  <2>1. "store" \in PC /\ pc[c] # "idle"
    BY <1>8 DEF PC, Unlock
  <2>2. CASE Goto(c, "store") /\ UNCHANGED <<tenant, request, cost>> /\ request[c] \in Prompts
    <3>1. StageOK("store", request[c])
      BY <2>2 DEF StageOK, Checked
    <3> QED BY <1>8, <3>1, <2>1, <2>2, GotoTyped, UnlockedTyped DEF TypeOK, Unlock
  <2>3. CASE Leave(c)
    BY <1>8, <2>3, LeaveTyped, UnlockedTyped DEF TypeOK, Unlock
  <2> QED BY <1>8, <2>2, <2>3 DEF Unlock
<1>9. ASSUME NEW c \in Callers, CacheSet(c) PROVE TypeOK'
  <2>1. cached' \subseteq Prompts
    BY <1>9 DEF TypeOK, CacheSet, StageOK
  <2> QED BY <1>9, <2>1, LeaveTyped DEF TypeOK, CacheSet
<1>10. ASSUME NEW c \in Callers, Abort(c) PROVE TypeOK'
  <2>1. spent' \in [Tenants -> Nat] /\ searches' \in [Tenants -> Nat] /\ ingests' \in [Tenants -> Nat]
    BY <1>10, AddRowTyped DEF TypeOK, Abort
  <2> QED BY <1>10, <2>1, LeaveTyped, UnlockedTyped DEF TypeOK, Abort
<1>11. ASSUME NEW p \in Prompts, CacheExpires(p) PROVE TypeOK'
  BY <1>11 DEF TypeOK, CacheExpires
<1>12. ASSUME NEW c \in Callers, PoolTimeout(c) PROVE TypeOK'
  <2>1. CASE Leave(c)
    BY <1>12, <2>1, LeaveTyped DEF TypeOK, PoolTimeout
  <2>2. CASE Goto(c, "leave") /\ UNCHANGED <<tenant, request, cost>>
    <3>1. pc[c] # "idle"
      BY <1>12 DEF PoolTimeout, CanRead, Reads
    <3>2. "leave" \in PC /\ StageOK("leave", request[c])
      BY DEF PC, Locked, StageOK, Checked
    <3> QED BY <1>12, <2>2, <3>1, <3>2, GotoTyped DEF TypeOK, PoolTimeout
  <2> QED BY <1>12, <2>1, <2>2 DEF PoolTimeout
<1>13. ASSUME OtherConnects \/ OtherReturns PROVE TypeOK'
  <2>1. others' \in 0..MaxOthers
    BY <1>13, MeterAssumption DEF TypeOK, OtherConnects, OtherReturns
  <2> QED BY <1>13, <2>1 DEF TypeOK, OtherConnects, OtherReturns
<1>14. CASE UNCHANGED vars
  BY <1>14 DEF TypeOK, vars
<1> QED BY <1>1, <1>2, <1>3, <1>4, <1>5, <1>6, <1>7, <1>8, <1>9, <1>10, <1>11, <1>12, <1>13, <1>14
        DEF Next, CallerStep

\* Every reachable state is well typed, and every caller is at a label its
\* request can come to.
THEOREM MeterTypeCorrect == Spec => []TypeOK
<1> QED BY InitTyped, NextTyped, PTL DEF Spec

-----------------------------------------------------------------------------
(***************************************************************************)
(* The lock, the checks it keeps current, and the limits.                  *)
(***************************************************************************)

\* The inductive invariant: the limits hold because a check is still true when
\* the row it allowed is written, and that because the row's writer holds the
\* lock of its tenant from the check to the row.
MeterInv == TypeOK /\ LockHeld /\ ChecksCurrent /\ IngestsFree /\ CapOvershoot /\ SignupLimits

\* Two callers between lock and unlock are callers of different tenants.
LEMMA OneCallPerTenant ==
  ASSUME LockHeld, NEW c \in Callers, NEW d \in Callers, c # d,
         pc[c] \in Locked, pc[d] \in Locked
  PROVE  tenant[c] # tenant[d]
BY DEF LockHeld

LEMMA NextFree == TypeOK /\ IngestsFree /\ [Next]_vars => IngestsFree'
<1> SUFFICES ASSUME TypeOK, IngestsFree, [Next]_vars PROVE IngestsFree'
  OBVIOUS
<1> USE DEF IngestsFree
<1>1. ASSUME NEW c \in Callers, Leave(c) PROVE IngestsFree'
  BY <1>1 DEF Leave, Goto, TypeOK
<1>2. ASSUME NEW c \in Callers, ProviderAnswers(c) PROVE IngestsFree'
  <2>1. request[c] # "ingest"
    BY <1>2 DEF ProviderAnswers, TypeOK, StageOK, Checked
  <2> QED BY <1>2, <2>1 DEF ProviderAnswers, Goto, TypeOK
<1>3. ASSUME NEW c \in Callers, Begin(c) PROVE IngestsFree'
  <2>1. cost[c] = 0
    BY <1>3 DEF Begin
  <2> QED BY <1>3, <2>1 DEF Begin, Goto, TypeOK
<1>4. ASSUME UNCHANGED <<request, cost>>,
             UNCHANGED pc \/ \E c \in Callers : pc'[c] # "idle" /\ pc' = [pc EXCEPT ![c] = pc'[c]]
      PROVE  IngestsFree'
  BY <1>4 DEF TypeOK
<1>5. ASSUME NEW c \in Callers,
             \/ CacheMiss(c) \/ Connect(c) \/ Acquire(c) \/ CheckFamily(c) \/ CheckCap(c)
             \/ CheckSearches(c) \/ ProviderFails(c) \/ Record(c) \/ CountIngests(c)
      PROVE  IngestsFree'
  <2>1. UNCHANGED <<request, cost>>
    BY <1>5 DEF CacheMiss, Connect, Acquire, CheckFamily, CheckCap, CheckSearches, ProviderFails,
                Record, CountIngests
  <2>2. \E label \in PC \ {"idle"} : Goto(c, label)
    BY <1>5 DEF CacheMiss, Connect, Acquire, CheckFamily, CheckCap, CheckSearches, ProviderFails,
                Record, CountIngests, PC, Locked, Checked
  <2> QED BY <1>4, <2>1, <2>2 DEF Goto, TypeOK
<1>6. ASSUME NEW c \in Callers, Unlock(c) PROVE IngestsFree'
  BY <1>1, <1>4, <1>6 DEF Unlock, Goto, TypeOK
<1>7. ASSUME UNCHANGED <<pc, request, cost>> PROVE IngestsFree'
  BY <1>7
<1>8. ASSUME NEW c \in Callers, PoolTimeout(c) PROVE IngestsFree'
  BY <1>1, <1>4, <1>8 DEF PoolTimeout, Goto, TypeOK
<1> QED BY <1>1, <1>2, <1>3, <1>5, <1>6, <1>7, <1>8
        DEF Next, CallerStep, CacheHit, LockTimeout, CacheSet, Abort, CacheExpires, OtherConnects,
            OtherReturns, vars, callVars

LEMMA InitMeter == Init => MeterInv
<1> SUFFICES ASSUME Init PROVE MeterInv
  OBVIOUS
<1>1. \A c \in Callers : pc[c] \notin Locked \cup {"searches", "mark"} \cup Checked
  BY DEF Init, Locked, Checked
<1>2. \A t \in Tenants : spent[t] = 0 /\ searches[t] = 0 /\ ingests[t] = 0
  BY DEF Init
<1>3. \A t \in Tenants : Cap[t] # NoCap => Cap[t] \in Nat
  BY MeterAssumption
<1>4. LockHeld /\ ChecksCurrent
  BY <1>1 DEF LockHeld, ChecksCurrent
<1>5. CapOvershoot
  BY <1>2, <1>3, MeterAssumption DEF CapOvershoot
<1>6. SignupLimits
  BY <1>2, MeterAssumption DEF SignupLimits
<1>7. IngestsFree
  BY DEF Init, IngestsFree
<1> QED BY <1>4, <1>5, <1>6, <1>7, InitTyped DEF MeterInv

\* A step that moves one caller, writes no row and takes no lock of another.
LEMMA QuietStep ==
  ASSUME MeterInv, TypeOK', IngestsFree', NEW c \in Callers,
         \A d \in Callers \ {c} : pc'[d] = pc[d] /\ tenant'[d] = tenant[d] /\ request'[d] = request[d],
         \A d \in Callers \ {c} : pc[d] \in Locked =>
            lock'[LockOf[tenant[d]]] = lock[LockOf[tenant[d]]],
         pc'[c] \in Locked => lock'[LockOf[tenant'[c]]] = c,
         pc'[c] \in Checked \cup {"searches"} => ~OverCap(tenant'[c]),
         pc'[c] \in Checked /\ request'[c] = "search" /\ tenant'[c] \in Signups
           => searches[tenant'[c]] < CallLimit,
         pc'[c] = "mark" => ingests[tenant'[c]] < CallLimit,
         UNCHANGED usageVars
  PROVE  MeterInv'
<1>1. LockHeld'
  BY DEF MeterInv, LockHeld
<1>2. \A t \in Tenants : OverCap(t)' <=> OverCap(t)
  BY DEF OverCap, usageVars
<1>3. \A d \in Callers : pc'[d] \in Checked \cup {"searches"} => tenant'[d] \in Tenants
  BY DEF TypeOK, Checked
<1>4. ChecksCurrent'
  BY <1>2, <1>3 DEF MeterInv, ChecksCurrent, usageVars
<1>5. CapOvershoot' /\ SignupLimits'
  BY DEF MeterInv, CapOvershoot, SignupLimits, usageVars
<1> QED BY <1>1, <1>4, <1>5 DEF MeterInv

\* A row is written by the holder of its tenant's lock, within the limits.
LEMMA RowWritten ==
  ASSUME MeterInv, TypeOK', IngestsFree', NEW c \in Callers, pc[c] \in {"record", "mark"}, AddRow(c),
         \A d \in Callers \ {c} : pc'[d] = pc[d] /\ tenant'[d] = tenant[d] /\ request'[d] = request[d],
         \A d \in Callers \ {c} : pc[d] \in Locked =>
            lock'[LockOf[tenant[d]]] = lock[LockOf[tenant[d]]],
         pc'[c] \in Locked => lock'[LockOf[tenant'[c]]] = c,
         pc'[c] \in {"done", "idle"}
  PROVE  MeterInv'
<1>1. LockHeld'
  BY DEF MeterInv, LockHeld
<1>2. /\ tenant[c] \in Tenants /\ cost[c] \in 0..MaxCost
      /\ spent \in [Tenants -> Nat] /\ searches \in [Tenants -> Nat] /\ ingests \in [Tenants -> Nat]
  BY DEF MeterInv, TypeOK
<1>3. /\ spent'[tenant[c]] = spent[tenant[c]] + cost[c]
      /\ searches'[tenant[c]] = IF request[c] = "search" THEN searches[tenant[c]] + 1 ELSE searches[tenant[c]]
      /\ ingests'[tenant[c]] = IF request[c] = "ingest" THEN ingests[tenant[c]] + 1 ELSE ingests[tenant[c]]
      /\ \A t \in Tenants \ {tenant[c]} :
           spent'[t] = spent[t] /\ searches'[t] = searches[t] /\ ingests'[t] = ingests[t]
  BY <1>2 DEF AddRow
<1>4. \A d \in Callers \ {c} : pc[d] \in Locked => tenant[d] \in Tenants \ {tenant[c]}
  <2>1. pc[c] \in Locked
    BY DEF Locked, Checked
  <2>2. \A d \in Callers : pc[d] \in Locked => tenant[d] \in Tenants
    BY Labels DEF MeterInv, TypeOK
  <2> QED BY <2>1, <2>2, OneCallPerTenant DEF MeterInv
<1>5. ChecksCurrent'
  <2>1. pc'[c] \notin Checked \cup {"searches", "mark"}
    BY DEF Checked
  <2>2. Checked \cup {"searches", "mark"} \subseteq Locked
    BY DEF Checked, Locked
  <2>3. \A d \in Callers \ {c} : pc'[d] \in Checked \cup {"searches"} =>
          (OverCap(tenant[d])' <=> OverCap(tenant[d]))
    BY <1>3, <1>4, <2>2 DEF OverCap
  <2>4. ASSUME NEW d \in Callers \ {c}
        PROVE  /\ pc'[d] \in Checked \cup {"searches"} => ~OverCap(tenant[d])'
               /\ pc'[d] \in Checked /\ request'[d] = "search" /\ tenant'[d] \in Signups
                    => searches'[tenant'[d]] < CallLimit
               /\ pc'[d] = "mark" => ingests'[tenant'[d]] < CallLimit
    <3>1. pc'[d] = pc[d] /\ tenant'[d] = tenant[d] /\ request'[d] = request[d]
      OBVIOUS
    <3>2. /\ pc[d] \in Checked \cup {"searches"} => ~OverCap(tenant[d])
          /\ pc[d] \in Checked /\ request[d] = "search" /\ tenant[d] \in Signups
               => searches[tenant[d]] < CallLimit
          /\ pc[d] = "mark" => ingests[tenant[d]] < CallLimit
      BY DEF MeterInv, ChecksCurrent
    <3>3. pc[d] \in Checked \cup {"searches", "mark"} => tenant[d] \in Tenants \ {tenant[c]}
      BY <1>4, <2>2
    <3> QED BY <1>3, <2>3, <3>1, <3>2, <3>3
  <2> QED BY <2>1, <2>4 DEF ChecksCurrent
<1>6. CapOvershoot'
  <2>1. ASSUME NEW t \in Tenants, Cap[t] # NoCap PROVE spent'[t] < Cap[t] + MaxCost
    <3>1. Cap[t] \in Nat /\ MaxCost \in Nat \ {0}
      BY <2>1, MeterAssumption
    <3>2. spent[t] < Cap[t] + MaxCost /\ spent[t] \in Nat
      BY <1>2, <2>1 DEF MeterInv, CapOvershoot
    <3>3. CASE t = tenant[c] /\ pc[c] = "record"
      <4>1. spent[t] < Cap[t]
        BY <1>2, <2>1, <3>1, <3>3 DEF MeterInv, ChecksCurrent, OverCap, Checked
      <4> QED BY <1>2, <1>3, <3>1, <3>3, <4>1
    <3>4. CASE t = tenant[c] /\ pc[c] = "mark"
      <4>1. cost[c] = 0
        BY <3>4 DEF MeterInv, IngestsFree, TypeOK, StageOK
      <4> QED BY <1>3, <3>2, <3>4, <4>1
    <3> QED BY <1>3, <3>2, <3>3, <3>4
  <2> QED BY <2>1 DEF CapOvershoot
<1>7. SignupLimits'
  <2>1. ASSUME NEW t \in Signups PROVE searches'[t] <= CallLimit /\ ingests'[t] <= CallLimit
    <3>1. t \in Tenants /\ CallLimit \in Nat
      BY MeterAssumption
    <3>2. searches[t] <= CallLimit /\ ingests[t] <= CallLimit /\ searches[t] \in Nat /\ ingests[t] \in Nat
      BY <1>2, <3>1 DEF MeterInv, SignupLimits
    <3>3. CASE t # tenant[c]
      BY <1>3, <3>1, <3>2, <3>3
    <3>4. CASE t = tenant[c]
      <4>1. request[c] = "search" => pc[c] = "record" /\ searches[t] < CallLimit
        BY <3>4 DEF MeterInv, ChecksCurrent, Checked, TypeOK, StageOK
      <4>2. request[c] = "ingest" => pc[c] = "mark" /\ ingests[t] < CallLimit
        BY <3>4 DEF MeterInv, ChecksCurrent, Checked, TypeOK, StageOK
      <4> QED BY <1>3, <3>1, <3>2, <3>4, <4>1, <4>2
    <3> QED BY <3>3, <3>4
  <2> QED BY <2>1 DEF SignupLimits
<1> QED BY <1>1, <1>5, <1>6, <1>7 DEF MeterInv

\* What leaving and going on do to the other callers.
LEMMA OthersStay ==
  ASSUME TypeOK, NEW c \in Callers,
         \/ Leave(c)
         \/ \E label \in PC : Goto(c, label) /\ UNCHANGED <<tenant, request>>
  PROVE  \A d \in Callers \ {c} : pc'[d] = pc[d] /\ tenant'[d] = tenant[d] /\ request'[d] = request[d]
BY DEF Leave, Goto, TypeOK

\* Unlocking frees no lock that another caller holds.
LEMMA UnlockedOwn ==
  ASSUME TypeOK, LockHeld, NEW c \in Callers, lock' = Unlocked(c)
  PROVE  \A d \in Callers \ {c} : pc[d] \in Locked =>
           lock'[LockOf[tenant[d]]] = lock[LockOf[tenant[d]]]
<1>1. \A d \in Callers : pc[d] \in Locked => LockOf[tenant[d]] \in Locks
  BY MeterAssumption, Labels DEF TypeOK
<1> QED BY <1>1 DEF Unlocked, LockHeld

LEMMA NextMeter == MeterInv /\ [Next]_vars => MeterInv'
<1> SUFFICES ASSUME MeterInv, [Next]_vars PROVE MeterInv'
  OBVIOUS
<1>0. TypeOK /\ LockHeld /\ ChecksCurrent /\ IngestsFree /\ TypeOK' /\ IngestsFree'
  BY NextTyped, NextFree DEF MeterInv
<1>a. {"idle", "cache", "connect", "lock", "store"} \cap (Locked \cup Checked \cup {"searches", "mark"}) = {}
  BY DEF Locked, Checked
<1>1. ASSUME NEW c \in Callers, Begin(c) PROVE MeterInv'
  <2>1. pc'[c] \in {"cache", "connect"}
    BY <1>0, <1>1 DEF Begin, Goto, TypeOK
  <2>2. \A d \in Callers \ {c} : pc'[d] = pc[d] /\ tenant'[d] = tenant[d] /\ request'[d] = request[d]
    BY <1>0, <1>1 DEF Begin, Goto, TypeOK
  <2>3. UNCHANGED <<lock, usageVars>>
    BY <1>1 DEF Begin
  <2> QED BY <1>0, <1>a, <2>1, <2>2, <2>3, QuietStep
<1>2. ASSUME NEW c \in Callers, CacheHit(c) \/ LockTimeout(c) \/ CacheSet(c) PROVE MeterInv'
  <2>1. Leave(c) /\ UNCHANGED <<lock, usageVars>>
    BY <1>2 DEF CacheHit, LockTimeout, CacheSet
  <2>2. pc'[c] = "idle"
    BY <1>0, <2>1 DEF Leave, Goto, TypeOK
  <2> QED BY <1>0, <1>a, <2>1, <2>2, QuietStep, OthersStay
<1>3. ASSUME NEW c \in Callers, CacheMiss(c) \/ Connect(c) PROVE MeterInv'
  <2>1. \E label \in {"connect", "lock"} : Goto(c, label) /\ UNCHANGED <<tenant, request>>
    BY <1>3 DEF CacheMiss, Connect
  <2>3. {"connect", "lock"} \subseteq PC /\ UNCHANGED <<lock, usageVars>>
    BY <1>3 DEF CacheMiss, Connect, PC
  <2>2. pc'[c] \in {"connect", "lock"}
    BY <1>0, <2>1 DEF Goto, TypeOK
  <2> QED BY <1>0, <1>a, <2>1, <2>2, <2>3, QuietStep, OthersStay
<1>4. ASSUME NEW c \in Callers, Acquire(c) PROVE MeterInv'
  <2>1. tenant[c] \in Tenants /\ LockOf[tenant[c]] \in Locks
    BY <1>0, <1>4, MeterAssumption DEF TypeOK, Acquire
  <2>2. \E label \in {"ingests", "family", "cap"} : Goto(c, label) /\ UNCHANGED <<tenant, request>>
    BY <1>4 DEF Acquire
  <2>3. {"ingests", "family", "cap"} \subseteq PC \ (Checked \cup {"searches", "mark"})
    BY DEF PC, Locked, Checked
  <2>4. pc'[c] \in {"ingests", "family", "cap"}
    BY <1>0, <2>2 DEF Goto, TypeOK
  <2>5. lock'[LockOf[tenant'[c]]] = c
    BY <1>0, <1>4, <2>1 DEF Acquire, TypeOK
  <2>6. \A d \in Callers \ {c} : pc[d] \in Locked =>
          lock'[LockOf[tenant[d]]] = lock[LockOf[tenant[d]]]
    <3>1. \A d \in Callers : pc[d] \in Locked => LockOf[tenant[d]] # LockOf[tenant[c]]
      BY <1>0, <1>4, MeterAssumption DEF LockHeld, Acquire, LockFree
    <3> QED BY <1>0, <1>4, <3>1 DEF Acquire, TypeOK
  <2>7. UNCHANGED usageVars
    BY <1>4 DEF Acquire
  <2> QED BY <1>0, <2>2, <2>3, <2>4, <2>5, <2>6, <2>7, QuietStep, OthersStay
<1>5. ASSUME NEW c \in Callers,
             \/ CheckFamily(c) \/ CheckCap(c) \/ CheckSearches(c) \/ CountIngests(c)
             \/ ProviderFails(c) \/ ProviderAnswers(c)
      PROVE  MeterInv'
  <2> USE DEF CheckFamily, CheckCap, CheckSearches, CountIngests, ProviderFails, ProviderAnswers
  <2>1. UNCHANGED <<tenant, request, lock, usageVars>>
    BY <1>5
  <2>2. \E label \in PC : Goto(c, label) /\ UNCHANGED <<tenant, request>>
    BY <1>5 DEF PC, Locked, Checked
  <2>3. pc[c] \in Locked
    BY <1>5 DEF Locked, Checked
  <2>4. lock'[LockOf[tenant'[c]]] = c
    BY <1>0, <2>1, <2>3 DEF LockHeld
  <2>5. pc'[c] \in Checked \cup {"searches"} => ~OverCap(tenant[c])
    BY <1>0, <1>5 DEF Goto, TypeOK, ChecksCurrent, Checked
  <2>6. pc'[c] \in Checked /\ request[c] = "search" /\ tenant[c] \in Signups
          => searches[tenant[c]] < CallLimit
    <3>1. pc[c] = "calling" /\ request[c] = "search" /\ tenant[c] \in Signups
            => searches[tenant[c]] < CallLimit
      BY <1>0 DEF ChecksCurrent, Checked
    <3>2. pc[c] = "searches" => searches[tenant[c]] \in Nat
      BY <1>0 DEF TypeOK
    <3> QED BY <1>0, <1>5, <3>1, <3>2, MeterAssumption DEF Goto, TypeOK, Checked
  <2>7. pc'[c] = "mark" => ingests[tenant[c]] < CallLimit
    <3>1. pc[c] = "ingests" => ingests[tenant[c]] \in Nat
      BY <1>0 DEF TypeOK
    <3> QED BY <1>0, <1>5, <3>1, MeterAssumption DEF Goto, TypeOK
  <2> HIDE DEF CheckFamily, CheckCap, CheckSearches, CountIngests, ProviderFails, ProviderAnswers
  <2> QED BY <1>0, <2>1, <2>2, <2>4, <2>5, <2>6, <2>7, QuietStep, OthersStay
<1>6. ASSUME NEW c \in Callers, Record(c) PROVE MeterInv'
  <2>1. Goto(c, "done") /\ UNCHANGED <<tenant, request, lock>> /\ "done" \in PC
    BY <1>6 DEF Record, PC, Locked
  <2>2. pc'[c] = "done" /\ pc[c] \in Locked
    BY <1>0, <1>6, <2>1 DEF Goto, TypeOK, Record, Locked, Checked
  <2>3. lock'[LockOf[tenant'[c]]] = c
    BY <1>0, <2>1, <2>2 DEF LockHeld
  <2> QED BY <1>0, <1>6, <2>1, <2>2, <2>3, RowWritten, OthersStay DEF Record
<1>7. ASSUME NEW c \in Callers, Unlock(c) PROVE MeterInv'
  <2>1. Leave(c) \/ \E label \in PC : Goto(c, label) /\ UNCHANGED <<tenant, request>>
    BY <1>7 DEF Unlock, PC
  <2>2. pc'[c] \in {"idle", "store"} /\ lock' = Unlocked(c) /\ UNCHANGED usageVars
    BY <1>0, <1>7 DEF Unlock, Leave, Goto, TypeOK
  <2> QED BY <1>0, <1>a, <2>1, <2>2, QuietStep, OthersStay, UnlockedOwn
<1>8. ASSUME NEW c \in Callers, Abort(c) PROVE MeterInv'
  <2>1. pc'[c] = "idle" /\ lock' = Unlocked(c)
    BY <1>0, <1>8 DEF Abort, Leave, Goto, TypeOK
  <2>2. CASE UNCHANGED usageVars
    BY <1>0, <1>a, <1>8, <2>1, <2>2, QuietStep, OthersStay, UnlockedOwn DEF Abort
  <2>3. CASE pc[c] \in {"record", "mark"} /\ AddRow(c)
    BY <1>0, <1>a, <1>8, <2>1, <2>3, RowWritten, OthersStay, UnlockedOwn DEF Abort
  <2> QED BY <1>8, <2>2, <2>3 DEF Abort
<1>9. ASSUME UNCHANGED <<pc, tenant, request, lock, usageVars>> PROVE MeterInv'
  <2>1. UNCHANGED <<spent, searches, ingests>>
    BY <1>9 DEF usageVars
  <2> QED BY <1>0, <1>9, <2>1
        DEF MeterInv, LockHeld, ChecksCurrent, OverCap, CapOvershoot, SignupLimits
<1>10. ASSUME NEW c \in Callers, PoolTimeout(c) PROVE MeterInv'
  <2>1. UNCHANGED <<lock, usageVars>>
    BY <1>10 DEF PoolTimeout
  <2>2. CASE Leave(c)
    <3>1. pc'[c] = "idle"
      BY <1>0, <2>2 DEF Leave, Goto, TypeOK
    <3> QED BY <1>0, <1>a, <2>1, <2>2, <3>1, QuietStep, OthersStay
  <2>3. CASE pc[c] # "connect" /\ Goto(c, "leave") /\ UNCHANGED <<tenant, request>>
    <3>1. pc[c] \in Locked
      BY <1>10, <2>3 DEF PoolTimeout, CanRead, Reads, Locked, Checked
    <3>2. pc'[c] = "leave" /\ "leave" \in PC
      BY <1>0, <2>3 DEF Goto, TypeOK, PC, Locked
    <3>3. pc'[c] \notin Checked \cup {"searches", "mark"}
      BY <3>2 DEF Checked
    <3>4. lock'[LockOf[tenant'[c]]] = c
      BY <1>0, <2>1, <2>3, <3>1 DEF LockHeld
    <3> QED BY <1>0, <2>1, <2>3, <3>2, <3>3, <3>4, QuietStep, OthersStay
  <2> QED BY <1>10, <2>2, <2>3 DEF PoolTimeout
<1> QED BY <1>1, <1>2, <1>3, <1>4, <1>5, <1>6, <1>7, <1>8, <1>9, <1>10
        DEF Next, CallerStep, CacheExpires, OtherConnects, OtherReturns, vars, callVars

\* A step that leaves the locks alone, or takes from them those of the caller that
\* moves, leaves none behind when it moves between lock and unlock, or outside.
LEMMA LocksKept ==
  ASSUME TypeOK, LocksUnderWay, NEW c \in Callers,
         \A d \in Callers \ {c} : pc'[d] = pc[d] /\ tenant'[d] = tenant[d],
         \/ lock' = lock /\ (pc[c] \notin Locked \/ (pc'[c] \in Locked /\ tenant'[c] = tenant[c]))
         \/ lock' = Unlocked(c)
  PROVE  LocksUnderWay'
<1>1. lock \in [Locks -> Callers \cup {None}] /\ None \notin Callers
  BY MeterAssumption DEF TypeOK
<1>2. CASE lock' = lock
  BY <1>1, <1>2 DEF LocksUnderWay, Unlocked
<1>3. CASE lock' = Unlocked(c)
  BY <1>1, <1>3 DEF LocksUnderWay, Unlocked
<1> QED BY <1>2, <1>3

LEMMA NextLocks == TypeOK /\ LocksUnderWay /\ [Next]_vars => LocksUnderWay'
<1> SUFFICES ASSUME TypeOK, LocksUnderWay, [Next]_vars PROVE LocksUnderWay'
  OBVIOUS
<1>a. {"idle", "cache", "connect", "lock", "store"} \cap Locked = {} /\ Locked \subseteq PC
  BY DEF Locked, Checked, PC
<1>b. pc \in [Callers -> PC] /\ tenant \in [Callers -> Tenants \cup {None}]
      /\ lock \in [Locks -> Callers \cup {None}] /\ None \notin Callers
  BY MeterAssumption DEF TypeOK
<1>1. ASSUME NEW c \in Callers, Begin(c) PROVE LocksUnderWay'
  <2>1. pc[c] = "idle" /\ lock' = lock
    BY <1>1 DEF Begin
  <2>2. \A d \in Callers \ {c} : pc'[d] = pc[d] /\ tenant'[d] = tenant[d]
    BY <1>1, <1>b DEF Begin, Goto
  <2> QED BY <1>a, <2>1, <2>2, LocksKept
<1>2. ASSUME NEW c \in Callers,
             CacheHit(c) \/ LockTimeout(c) \/ CacheSet(c) \/ CacheMiss(c) \/ Connect(c)
      PROVE  LocksUnderWay'
  <2>1. pc[c] \in {"lock", "cache", "store", "connect"} /\ lock' = lock
    BY <1>2 DEF CacheHit, LockTimeout, CacheSet, CacheMiss, Connect
  <2>2. \A d \in Callers \ {c} : pc'[d] = pc[d] /\ tenant'[d] = tenant[d]
    BY <1>2, <1>b DEF CacheHit, LockTimeout, CacheSet, CacheMiss, Connect, Leave, Goto
  <2> QED BY <1>a, <2>1, <2>2, LocksKept
<1>3. ASSUME NEW c \in Callers, Acquire(c) PROVE LocksUnderWay'
  <2>1. /\ tenant' = tenant /\ \A d \in Callers \ {c} : pc'[d] = pc[d]
        /\ lock' = [lock EXCEPT ![LockOf[tenant[c]]] = c]
        /\ pc[c] \notin Locked
    BY <1>3, <1>a, <1>b DEF Acquire, Goto
  <2>2. pc'[c] \in Locked
    BY <1>3, <1>b DEF Acquire, Goto, Locked
  <2>3. \A k \in Locks : lock[k] # c
    BY <2>1, <1>b DEF LocksUnderWay
  <2> QED BY <1>b, <2>1, <2>2, <2>3 DEF LocksUnderWay
<1>4. ASSUME NEW c \in Callers,
             \/ CheckFamily(c) \/ CheckCap(c) \/ CheckSearches(c) \/ CountIngests(c)
             \/ ProviderFails(c) \/ ProviderAnswers(c) \/ Record(c)
      PROVE  LocksUnderWay'
  <2> USE DEF CheckFamily, CheckCap, CheckSearches, CountIngests, ProviderFails, ProviderAnswers, Record
  <2>1. UNCHANGED <<tenant, lock>>
    BY <1>4
  <2>2. \E label \in Locked : Goto(c, label)
    BY <1>4 DEF Locked, Checked
  <2> HIDE DEF CheckFamily, CheckCap, CheckSearches, CountIngests, ProviderFails, ProviderAnswers, Record
  <2>3. pc'[c] \in Locked /\ \A d \in Callers \ {c} : pc'[d] = pc[d]
    BY <1>b, <2>2 DEF Goto
  <2> QED BY <2>1, <2>3, LocksKept
<1>5. ASSUME NEW c \in Callers, Unlock(c) \/ Abort(c) PROVE LocksUnderWay'
  <2>1. lock' = Unlocked(c)
    BY <1>5 DEF Unlock, Abort
  <2>2. \A d \in Callers \ {c} : pc'[d] = pc[d] /\ tenant'[d] = tenant[d]
    BY <1>5, <1>b DEF Unlock, Abort, Leave, Goto
  <2> QED BY <2>1, <2>2, LocksKept
<1>6. ASSUME NEW c \in Callers, PoolTimeout(c) PROVE LocksUnderWay'
  <2>1. lock' = lock /\ \A d \in Callers \ {c} : pc'[d] = pc[d] /\ tenant'[d] = tenant[d]
    BY <1>6, <1>b DEF PoolTimeout, Leave, Goto
  <2>2. pc[c] = "connect" \/ (pc'[c] = "leave" /\ tenant' = tenant)
    BY <1>6, <1>b DEF PoolTimeout, Goto
  <2> QED BY <1>a, <2>1, <2>2, LocksKept DEF Locked
<1>7. ASSUME UNCHANGED <<pc, tenant, lock>> PROVE LocksUnderWay'
  BY <1>7 DEF LocksUnderWay
<1> QED BY <1>1, <1>2, <1>3, <1>4, <1>5, <1>6, <1>7
        DEF Next, CallerStep, CacheExpires, OtherConnects, OtherReturns, vars, callVars

\* No lock is left behind: its holder is a caller that has not yet come to the
\* unlock of that lock, whatever timed out, failed or was cancelled (the finally of
\* tenant_lock). The safety half of LocksReturn.
THEOREM NoLockLeft == Spec => []LocksUnderWay
<1>1. Init => TypeOK /\ LocksUnderWay
  BY InitTyped DEF Init, LocksUnderWay
<1>2. TypeOK /\ LocksUnderWay /\ [Next]_vars => TypeOK' /\ LocksUnderWay'
  BY NextTyped, NextLocks
<1> QED BY <1>1, <1>2, PTL DEF Spec

\* Whatever ends a call, its tenant's lock is the caller's own from the check
\* to the row, and the checks it passed are still true when the row is written.
THEOREM ChecksNeverStale == Spec => [](LockHeld /\ ChecksCurrent)
<1>1. MeterInv => LockHeld /\ ChecksCurrent
  BY DEF MeterInv
<1> QED BY <1>1, InitMeter, NextMeter, PTL DEF Spec

\* A tenant's recorded spend passes its cap by less than the cost of one call.
THEOREM CapHeld == Spec => []CapOvershoot
<1>1. MeterInv => CapOvershoot
  BY DEF MeterInv
<1> QED BY <1>1, InitMeter, NextMeter, PTL DEF Spec

\* No signup tenant makes more searches or ingests than its lifetime limit.
THEOREM SignupLimitHeld == Spec => []SignupLimits
<1>1. MeterInv => SignupLimits
  BY DEF MeterInv
<1> QED BY <1>1, InitMeter, NextMeter, PTL DEF Spec

-----------------------------------------------------------------------------
(***************************************************************************)
(* The shared cap of the demo family, of which each tenant has a lock of   *)
(* its own.                                                                *)
(***************************************************************************)

\* Past the check of the family's cap, and before the row.
Admitted == {"cap", "searches"} \cup Checked

\* The tenants of the family with a call there.
AdmittedFamily == {t \in DemoFamily : \E c \in Callers : tenant[c] = t /\ pc[c] \in Admitted}

\* What the family has spent, with what the calls admitted may still add: FamilyOvershoot
\* is not inductive, for it does not say how many calls are still on their way.
FamilyBound ==
  Prefixed = DemoFamily /\ DemoCap > 0
    => FamilySpent + MaxCost * Cardinality(AdmittedFamily) < DemoCap + MaxCost * Cardinality(DemoFamily)

\* Sets of tenants of the family are finite, and count as their elements do.
LEMMA FamilyFinite ==
  ASSUME NEW B \in SUBSET DemoFamily, NEW A \in SUBSET B
  PROVE  /\ IsFiniteSet(B) /\ Cardinality(A) \in Nat /\ Cardinality(B) \in Nat
         /\ Cardinality(A) <= Cardinality(B)
<1>1. IsFiniteSet(B)
  BY MeterAssumption, FS_Subset
<1>2. IsFiniteSet(A) /\ Cardinality(A) <= Cardinality(B)
  BY <1>1, FS_Subset
<1> QED BY <1>1, <1>2, FS_CardinalityType

\* What the family has spent is a sum of naturals.
LEMMA FamilyTotal ==
  ASSUME TypeOK
  PROVE  FamilySpent \in Nat
<1>1. IsFiniteSet(Prefixed) /\ \A t \in Prefixed : spent[t] \in Nat
  BY MeterAssumption DEF TypeOK
<1> QED BY <1>1, SumNatural DEF FamilySpent

\* A row adds its cost to what the family has spent.
LEMMA FamilyRaised ==
  ASSUME NEW t \in Prefixed, \A u \in Prefixed : spent[u] \in Nat /\ spent'[u] \in Nat,
         \A u \in Prefixed \ {t} : spent'[u] = spent[u]
  PROVE  FamilySpent' = FamilySpent - spent[t] + spent'[t]
<1>1. IsFiniteSet(Prefixed)
  BY MeterAssumption
<1>2. SumFunctionOnSet(spent', Prefixed) = SumFunctionOnSet(spent, Prefixed) - spent[t] + spent'[t]
  BY <1>1, SumRaised
<1> QED BY <1>2 DEF FamilySpent

\* A step that writes no row of the family and admits no call keeps the bound.
LEMMA FamilyQuiet ==
  ASSUME TypeOK, FamilyBound, AdmittedFamily' \subseteq AdmittedFamily, FamilySpent' <= FamilySpent,
         FamilySpent' \in Nat
  PROVE  FamilyBound'
<1>1. /\ Cardinality(AdmittedFamily') \in Nat /\ Cardinality(AdmittedFamily) \in Nat
      /\ Cardinality(AdmittedFamily') <= Cardinality(AdmittedFamily)
      /\ Cardinality(DemoFamily) \in Nat
  <2>1. AdmittedFamily \subseteq DemoFamily
    BY DEF AdmittedFamily
  <2> QED BY <2>1, FamilyFinite
<1> DEFINE a == Cardinality(AdmittedFamily)
           b == Cardinality(AdmittedFamily')
           n == Cardinality(DemoFamily)
<1>2. a \in Nat /\ b \in Nat /\ n \in Nat /\ b <= a /\ MaxCost \in Nat /\ FamilySpent \in Nat /\ DemoCap \in Nat
  BY <1>1, MeterAssumption, FamilyTotal
<1>3. Prefixed = DemoFamily /\ DemoCap > 0 => FamilySpent + MaxCost * a < DemoCap + MaxCost * n
  BY DEF FamilyBound
<1>4. FamilyBound' <=> (Prefixed = DemoFamily /\ DemoCap > 0 => FamilySpent' + MaxCost * b < DemoCap + MaxCost * n)
  BY DEF FamilyBound
<1> DEFINE x == FamilySpent
           y == FamilySpent'
<1> HIDE DEF a, b, n
<1>5. MaxCost * b <= MaxCost * a /\ MaxCost * b \in Nat /\ MaxCost * a \in Nat /\ MaxCost * n \in Nat
  BY <1>2
<1>6. x \in Nat /\ y \in Nat /\ y <= x
  BY <1>2
<1> DEFINE p == MaxCost * a
           q == MaxCost * b
           r == MaxCost * n
<1>7. /\ Prefixed = DemoFamily /\ DemoCap > 0 => x + p < DemoCap + r
      /\ FamilyBound' <=> (Prefixed = DemoFamily /\ DemoCap > 0 => y + q < DemoCap + r)
      /\ q <= p /\ q \in Nat /\ p \in Nat /\ r \in Nat
  BY <1>3, <1>4, <1>5
<1> HIDE DEF x, y, p, q, r
<1> QED BY <1>2, <1>6, <1>7

\* The check admits a call only while the family is below its cap, and then
\* there is room for one call of each tenant.
LEMMA FamilyAdmits ==
  ASSUME TypeOK, FamilySpent < DemoCap, UNCHANGED spent
  PROVE  FamilyBound'
<1>1. /\ Cardinality(AdmittedFamily') \in Nat /\ Cardinality(DemoFamily) \in Nat
      /\ Cardinality(AdmittedFamily') <= Cardinality(DemoFamily)
  <2>1. AdmittedFamily' \subseteq DemoFamily
    BY DEF AdmittedFamily
  <2> QED BY <2>1, FamilyFinite
<1> DEFINE b == Cardinality(AdmittedFamily')
           n == Cardinality(DemoFamily)
<1>2. b \in Nat /\ n \in Nat /\ b <= n /\ MaxCost \in Nat /\ FamilySpent \in Nat /\ DemoCap \in Nat
  BY <1>1, MeterAssumption, FamilyTotal
<1>3. FamilySpent' = FamilySpent
  BY DEF FamilySpent
<1>4. FamilyBound' <=> (Prefixed = DemoFamily /\ DemoCap > 0 => FamilySpent' + MaxCost * b < DemoCap + MaxCost * n)
  BY DEF FamilyBound
<1> HIDE DEF b, n
<1>5. MaxCost * b <= MaxCost * n /\ MaxCost * b \in Nat /\ MaxCost * n \in Nat
  BY <1>2
<1> QED BY <1>2, <1>3, <1>4, <1>5

\* The row of a call takes its tenant, whose one call it is, from those admitted,
\* and adds what was kept for it at most.
LEMMA FamilyRow ==
  ASSUME MeterInv, FamilyBound, TypeOK', NEW c \in Callers, pc[c] \in {"record", "mark"}, AddRow(c),
         \A d \in Callers \ {c} : pc'[d] = pc[d] /\ tenant'[d] = tenant[d] /\ request'[d] = request[d],
         pc'[c] \in {"done", "idle"}
  PROVE  FamilyBound'
<1>0. /\ TypeOK /\ tenant[c] \in Tenants /\ cost[c] \in 0..MaxCost /\ MaxCost \in Nat /\ DemoCap \in Nat
      /\ spent \in [Tenants -> Nat] /\ spent' = [spent EXCEPT ![tenant[c]] = @ + cost[c]]
      /\ FamilySpent \in Nat
  BY MeterAssumption, FamilyTotal DEF MeterInv, TypeOK, AddRow
<1>1. pc'[c] \notin Admitted /\ Admitted \subseteq Locked /\ pc[c] \in Locked
  BY DEF Admitted, Checked, Locked
<1>2. AdmittedFamily' \subseteq AdmittedFamily \ {tenant[c]}
  <2> SUFFICES ASSUME NEW t \in DemoFamily, NEW d \in Callers, tenant'[d] = t, pc'[d] \in Admitted
               PROVE  t \in AdmittedFamily /\ t # tenant[c]
    BY DEF AdmittedFamily
  <2>1. d # c /\ pc[d] \in Admitted /\ tenant[d] = t
    BY <1>1
  <2>2. tenant[d] # tenant[c]
    BY <1>1, <2>1, OneCallPerTenant DEF MeterInv
  <2> QED BY <2>1, <2>2 DEF AdmittedFamily
<1>3. CASE pc[c] = "mark" \/ tenant[c] \notin Prefixed
  <2>1. \A t \in Prefixed : spent'[t] = spent[t]
    <3>1. pc[c] = "mark" => cost[c] = 0
      BY <1>0 DEF MeterInv, IngestsFree, TypeOK, StageOK
    <3> QED BY <1>0, <1>3, <3>1, MeterAssumption
  <2>2. FamilySpent' = FamilySpent
    BY <2>1, MeterAssumption, SumSame DEF FamilySpent
  <2> QED BY <1>0, <1>2, <2>2, FamilyQuiet
<1>4. CASE pc[c] = "record" /\ tenant[c] \in Prefixed
  <2>1. FamilySpent' = FamilySpent + cost[c]
    <3>1. \A t \in Prefixed : spent[t] \in Nat /\ spent'[t] \in Nat
      BY MeterAssumption DEF MeterInv, TypeOK
    <3>2. \A t \in Prefixed \ {tenant[c]} : spent'[t] = spent[t]
      BY <1>0
    <3>4. FamilySpent' = FamilySpent - spent[tenant[c]] + spent'[tenant[c]]
      BY <1>4, <3>1, <3>2, FamilyRaised
    <3>5. spent'[tenant[c]] = spent[tenant[c]] + cost[c] /\ spent[tenant[c]] \in Nat
      BY <1>0
    <3> QED BY <1>0, <3>4, <3>5
  <2>2. CASE Prefixed # DemoFamily
    BY <2>2 DEF FamilyBound
  <2>3. CASE Prefixed = DemoFamily
    <3> DEFINE a == Cardinality(AdmittedFamily)
               b == Cardinality(AdmittedFamily')
               n == Cardinality(DemoFamily)
    <3>1. tenant[c] \in AdmittedFamily /\ AdmittedFamily \subseteq DemoFamily
      BY <1>4, <2>3 DEF AdmittedFamily, Admitted, Checked
    <3>2. IsFiniteSet(AdmittedFamily) /\ a \in Nat /\ n \in Nat
      BY <3>1, FamilyFinite
    <3>3. Cardinality(AdmittedFamily \ {tenant[c]}) = a - 1
      BY <3>1, <3>2, FS_RemoveElement
    <3>4. b \in Nat /\ b <= Cardinality(AdmittedFamily \ {tenant[c]})
      <4>1. AdmittedFamily \ {tenant[c]} \in SUBSET DemoFamily
        BY <3>1
      <4> QED BY <1>2, <4>1, FamilyFinite
    <3>5. DemoCap > 0 => FamilySpent + MaxCost * a < DemoCap + MaxCost * n
      BY <2>3 DEF FamilyBound
    <3>6. FamilyBound' <=> (DemoCap > 0 => FamilySpent' + MaxCost * b < DemoCap + MaxCost * n)
      BY <2>3 DEF FamilyBound
    <3> HIDE DEF a, b, n
    <3>7. MaxCost * b <= MaxCost * (a - 1) /\ MaxCost * (a - 1) = MaxCost * a - MaxCost
      BY <1>0, <3>2, <3>3, <3>4
    <3>8. MaxCost * a \in Int /\ MaxCost * b \in Int /\ MaxCost * n \in Int
      BY <1>0, <3>2, <3>4
    <3> QED BY <1>0, <2>1, <3>5, <3>6, <3>7, <3>8
  <2> QED BY <2>2, <2>3
<1> QED BY <1>3, <1>4

\* A step that moves one caller, and admits none of the family, keeps the bound.
LEMMA FamilyMoves ==
  ASSUME TypeOK, FamilyBound, UNCHANGED spent, NEW c \in Callers,
         \A d \in Callers \ {c} : pc'[d] = pc[d] /\ tenant'[d] = tenant[d] /\ request'[d] = request[d],
         pc'[c] \in Admitted => \/ pc[c] \in Admitted /\ tenant'[c] = tenant[c]
                                \/ tenant'[c] \notin DemoFamily
  PROVE  FamilyBound'
<1>1. AdmittedFamily' \subseteq AdmittedFamily
  <2> SUFFICES ASSUME NEW t \in DemoFamily, NEW d \in Callers, tenant'[d] = t, pc'[d] \in Admitted
               PROVE  t \in AdmittedFamily
    BY DEF AdmittedFamily
  <2>1. tenant[d] = t /\ pc[d] \in Admitted
    OBVIOUS
  <2> QED BY <2>1 DEF AdmittedFamily
<1>2. FamilySpent' = FamilySpent /\ FamilySpent \in Nat
  BY FamilyTotal DEF FamilySpent
<1>3. FamilySpent' <= FamilySpent /\ FamilySpent' \in Nat
  BY <1>2
<1> QED BY <1>1, <1>3, FamilyQuiet

LEMMA InitFamily == Init => FamilyBound
<1> SUFFICES ASSUME Init, Prefixed = DemoFamily, DemoCap > 0
             PROVE  FamilySpent + MaxCost * Cardinality(AdmittedFamily)
                      < DemoCap + MaxCost * Cardinality(DemoFamily)
  BY DEF FamilyBound
<1>1. AdmittedFamily = {}
  BY DEF Init, AdmittedFamily, Admitted, Checked
<1>2. Cardinality(AdmittedFamily) = 0
  BY <1>1, FS_EmptySet
<1>3. FamilySpent = 0
  <2>1. IsFiniteSet(Prefixed) /\ \A t \in Prefixed : spent[t] = 0
    BY MeterAssumption DEF Init
  <2> QED BY <2>1, SumZero DEF FamilySpent
<1>4. Cardinality(DemoFamily) \in Nat
  BY FamilyFinite
<1>5. MaxCost * Cardinality(DemoFamily) \in Nat /\ MaxCost * 0 = 0 /\ DemoCap \in Nat
  BY <1>4, MeterAssumption
<1> QED BY <1>2, <1>3, <1>5

LEMMA NextFamily == MeterInv /\ FamilyBound /\ [Next]_vars => FamilyBound'
<1> SUFFICES ASSUME MeterInv, FamilyBound, [Next]_vars PROVE FamilyBound'
  OBVIOUS
<1>0. TypeOK /\ TypeOK'
  BY NextTyped DEF MeterInv
<1>a. {"idle", "cache", "connect", "lock", "store", "family", "ingests", "mark", "leave", "done"}
        \subseteq PC \ Admitted
  BY DEF PC, Locked, Checked, Admitted
<1>1. ASSUME NEW c \in Callers, Begin(c) PROVE FamilyBound'
  <2>1. pc'[c] \in {"cache", "connect"}
    BY <1>0, <1>1 DEF Begin, Goto, TypeOK
  <2>2. \A d \in Callers \ {c} : pc'[d] = pc[d] /\ tenant'[d] = tenant[d] /\ request'[d] = request[d]
    BY <1>0, <1>1 DEF Begin, Goto, TypeOK
  <2>3. UNCHANGED spent
    BY <1>1 DEF Begin, usageVars
  <2> QED BY <1>0, <1>a, <2>1, <2>2, <2>3, FamilyMoves
<1>2. ASSUME NEW c \in Callers, Leave(c), UNCHANGED spent PROVE FamilyBound'
  <2>1. pc'[c] = "idle"
    BY <1>0, <1>2 DEF Leave, Goto, TypeOK
  <2> QED BY <1>0, <1>a, <1>2, <2>1, FamilyMoves, OthersStay
<1>3. ASSUME NEW c \in Callers,
             NEW label \in {"connect", "lock", "family", "ingests", "leave", "mark", "store", "done"},
             Goto(c, label), UNCHANGED <<tenant, request, spent>>
      PROVE  FamilyBound'
  <2>1. pc'[c] = label /\ label \in PC
    BY <1>0, <1>a, <1>3 DEF Goto, TypeOK
  <2> QED BY <1>0, <1>a, <1>3, <2>1, FamilyMoves, OthersStay
<1>4. ASSUME NEW c \in Callers, Acquire(c) PROVE FamilyBound'
  <2>1. UNCHANGED <<tenant, request, spent>>
    BY <1>4 DEF Acquire, usageVars
  <2>2. CASE Goto(c, "ingests") \/ Goto(c, "family")
    BY <1>3, <2>1, <2>2
  <2>3. CASE Goto(c, "cap") /\ tenant[c] \notin DemoFamily
    <3>1. "cap" \in PC
      BY DEF PC, Locked
    <3> QED BY <1>0, <2>1, <2>3, <3>1, FamilyMoves, OthersStay
  <2> QED BY <1>4, <2>2, <2>3 DEF Acquire
<1>5. ASSUME NEW c \in Callers, CheckFamily(c) PROVE FamilyBound'
  <2>1. UNCHANGED <<tenant, request, spent>>
    BY <1>5 DEF CheckFamily, usageVars
  <2>2. CASE Goto(c, "leave")
    BY <1>3, <2>1, <2>2
  <2>3. CASE ~(FamilySpent >= DemoCap)
    <3>1. FamilySpent < DemoCap
      BY <1>0, <2>3, FamilyTotal, MeterAssumption
    <3> QED BY <1>0, <2>1, <3>1, FamilyAdmits
  <2> QED BY <1>5, <2>2, <2>3 DEF CheckFamily
<1>6. ASSUME NEW c \in Callers, CheckCap(c) \/ CheckSearches(c) \/ ProviderAnswers(c)
      PROVE  FamilyBound'
  <2>1. UNCHANGED <<tenant, request, spent>>
    BY <1>6 DEF CheckCap, CheckSearches, ProviderAnswers, usageVars
  <2>2. \E label \in PC : Goto(c, label)
    BY <1>6 DEF CheckCap, CheckSearches, ProviderAnswers, PC, Locked, Checked
  <2>3. pc[c] \in Admitted
    BY <1>6 DEF CheckCap, CheckSearches, ProviderAnswers, Admitted, Checked
  <2> QED BY <1>0, <2>1, <2>2, <2>3, FamilyMoves, OthersStay
<1>7. ASSUME NEW c \in Callers,
             CacheMiss(c) \/ Connect(c) \/ ProviderFails(c) \/ CountIngests(c)
      PROVE  FamilyBound'
  <2>1. UNCHANGED <<tenant, request, spent>>
    BY <1>7 DEF CacheMiss, Connect, ProviderFails, CountIngests, usageVars
  <2>2. Goto(c, "connect") \/ Goto(c, "lock") \/ Goto(c, "leave") \/ Goto(c, "mark")
    BY <1>7 DEF CacheMiss, Connect, ProviderFails, CountIngests
  <2> QED BY <1>3, <2>1, <2>2
<1>8. ASSUME NEW c \in Callers, Record(c) PROVE FamilyBound'
  <2>1. Goto(c, "done") /\ UNCHANGED <<tenant, request>> /\ "done" \in PC
    BY <1>8 DEF Record, PC, Locked
  <2>2. pc'[c] = "done"
    BY <1>0, <2>1 DEF Goto, TypeOK
  <2> QED BY <1>0, <1>8, <2>1, <2>2, FamilyRow, OthersStay DEF Record
<1>9. ASSUME NEW c \in Callers, Abort(c) PROVE FamilyBound'
  <2>1. CASE UNCHANGED usageVars
    BY <1>2, <1>9, <2>1 DEF Abort, usageVars
  <2>2. CASE pc[c] \in {"record", "mark"} /\ AddRow(c)
    <3>1. pc'[c] = "idle"
      BY <1>0, <1>9 DEF Abort, Leave, Goto, TypeOK
    <3> QED BY <1>0, <1>9, <2>2, <3>1, FamilyRow, OthersStay DEF Abort
  <2> QED BY <1>9, <2>1, <2>2 DEF Abort
<1>10. ASSUME NEW c \in Callers, Unlock(c) PROVE FamilyBound'
  <2>1. UNCHANGED spent
    BY <1>10 DEF Unlock, usageVars
  <2> QED BY <1>2, <1>3, <1>10, <2>1 DEF Unlock
<1>11. ASSUME NEW c \in Callers, PoolTimeout(c) PROVE FamilyBound'
  <2>1. UNCHANGED spent
    BY <1>11 DEF PoolTimeout, usageVars
  <2> QED BY <1>2, <1>3, <1>11, <2>1 DEF PoolTimeout
<1>12. ASSUME NEW c \in Callers, CacheHit(c) \/ LockTimeout(c) \/ CacheSet(c) PROVE FamilyBound'
  <2>1. Leave(c) /\ UNCHANGED spent
    BY <1>12 DEF CacheHit, LockTimeout, CacheSet, usageVars
  <2> QED BY <1>2, <2>1
<1>13. ASSUME UNCHANGED <<pc, tenant, spent>> PROVE FamilyBound'
  <2>1. AdmittedFamily' = AdmittedFamily /\ FamilySpent' = FamilySpent
    BY <1>13 DEF AdmittedFamily, FamilySpent
  <2> QED BY <2>1 DEF FamilyBound
<1> QED BY <1>1, <1>4, <1>5, <1>6, <1>7, <1>8, <1>9, <1>10, <1>11, <1>12, <1>13
        DEF Next, CallerStep, CacheExpires, OtherConnects, OtherReturns, vars, callVars, usageVars

\* The demo family's recorded spend passes its shared cap by less than one call
\* of each of its tenants, whatever their number.
THEOREM FamilyCapHeld == Spec => []FamilyOvershoot
<1>1. TypeOK /\ FamilyBound => FamilyOvershoot
  <2> SUFFICES ASSUME TypeOK, FamilyBound, Prefixed = DemoFamily, DemoCap > 0
               PROVE  FamilySpent < DemoCap + MaxCost * Cardinality(DemoFamily)
    BY DEF FamilyOvershoot
  <2> DEFINE p == MaxCost * Cardinality(AdmittedFamily)
             r == MaxCost * Cardinality(DemoFamily)
  <2>1. FamilySpent + p < DemoCap + r
    BY DEF FamilyBound
  <2>2. Cardinality(AdmittedFamily) \in Nat /\ Cardinality(DemoFamily) \in Nat
    <3>1. AdmittedFamily \subseteq DemoFamily
      BY DEF AdmittedFamily
    <3> QED BY <3>1, FamilyFinite
  <2>3. p \in Nat /\ r \in Nat /\ FamilySpent \in Nat /\ DemoCap \in Nat
    BY <2>2, MeterAssumption, FamilyTotal
  <2> HIDE DEF p
  <2> QED BY <2>1, <2>3
<1>2. MeterInv => TypeOK
  BY DEF MeterInv
<1> QED BY <1>1, <1>2, InitMeter, NextMeter, InitFamily, NextFamily, PTL DEF Spec

-----------------------------------------------------------------------------
(***************************************************************************)
(* The refinement of UsageLedger.  A call is admitted by the step that     *)
(* passes the first of its checks, if the others would pass then: until    *)
(* its row is written nobody else writes one of its tenant.                *)
(***************************************************************************)

LEMMA InCallLocked ==
  ASSUME TypeOK, NEW c \in Callers, InCall(c)
  PROVE  pc[c] \in Locked /\ tenant[c] \in Tenants
<1>1. pc[c] \in Locked
  BY DEF InCall, Locked, Checked
<1> QED BY <1>1, Labels DEF TypeOK

\* The call that a tenant has open is that of its admitted caller.
OpenAgrees == \A c \in Callers : InCall(c) => Open(tenant[c]) = Kind(c)

LEMMA OpenIs == TypeOK /\ LockHeld => OpenAgrees
<1> SUFFICES ASSUME TypeOK, LockHeld, NEW c \in Callers, InCall(c)
             PROVE  Open(tenant[c]) = Kind(c)
  BY DEF OpenAgrees
<1> DEFINE P(d) == InCall(d) /\ tenant[d] = tenant[c]
<1>1. ASSUME NEW d \in Callers, P(d) PROVE d = c
  BY <1>1, InCallLocked, OneCallPerTenant
<1>2. (CHOOSE d \in Callers : P(d)) = c
  <2> HIDE DEF P
  <2>1. P(c)
    BY DEF P
  <2> QED BY <1>1, <2>1
<1> QED BY <1>2 DEF Open

LEMMA OpenIsNext == TypeOK' /\ LockHeld' => OpenAgrees'
BY OpenIs, PTL

LEMMA OpenNone ==
  ASSUME NEW t \in Tenants, \A d \in Callers : InCall(d) => tenant[d] # t
  PROVE  Open(t) = "none"
BY DEF Open

LEMMA KindSome ==
  ASSUME NEW c \in Callers
  PROVE  Kind(c) \in {"call", "search", "ingest"} /\ Kind(c) # "none"
BY DEF Kind

\* Only c moves.
Alone(c) ==
  \A d \in Callers \ {c} : pc'[d] = pc[d] /\ tenant'[d] = tenant[d] /\ request'[d] = request[d]

\* Whatever one caller does, the calls of the others stay open.
LEMMA Elsewhere ==
  ASSUME MeterInv, TypeOK', NEW c \in Callers,
         Alone(c),
         \/ UNCHANGED usageVars
         \/ pc[c] \in Locked /\ AddRow(c)
  PROVE  \A d \in Callers \ {c} :
           (InCall(d)' <=> InCall(d)) /\ Kind(d)' = Kind(d) /\ tenant'[d] = tenant[d]
<1> SUFFICES ASSUME NEW d \in Callers \ {c}
             PROVE  (InCall(d)' <=> InCall(d)) /\ Kind(d)' = Kind(d) /\ tenant'[d] = tenant[d]
  OBVIOUS
<1>1. TypeOK /\ LockHeld
  BY DEF MeterInv
<1>2. pc'[d] = pc[d] /\ tenant'[d] = tenant[d] /\ request'[d] = request[d]
  BY DEF Alone
<1>3. ASSUME pc[d] \in Locked
      PROVE  spent'[tenant[d]] = spent[tenant[d]] /\ searches'[tenant[d]] = searches[tenant[d]]
  <2>1. CASE UNCHANGED usageVars
    BY <2>1 DEF usageVars
  <2>2. CASE pc[c] \in Locked /\ AddRow(c)
    <3>1. tenant[c] # tenant[d] /\ tenant[d] \in Tenants
      BY <1>1, <1>3, <2>2, OneCallPerTenant, Labels DEF TypeOK
    <3> QED BY <1>1, <2>2, <3>1 DEF TypeOK, AddRow
  <2> QED BY <2>1, <2>2
<1>4. {"mark", "cap", "searches"} \cup Checked \subseteq Locked
  BY DEF Locked, Checked
<1>5. pc[d] \in Locked => (OverCap(tenant[d])' <=> OverCap(tenant[d]))
  BY <1>2, <1>3 DEF OverCap
<1>6. InCall(d)' <=> InCall(d)
  BY <1>2, <1>3, <1>4, <1>5 DEF InCall
<1> QED BY <1>2, <1>6 DEF Kind

\* A step that neither admits a call nor ends one.
LEMMA StaysOpen ==
  ASSUME MeterInv, MeterInv', NEW c \in Callers,
         Alone(c),
         UNCHANGED usageVars,
         InCall(c)' <=> InCall(c),
         InCall(c) => tenant'[c] = tenant[c] /\ request'[c] = request[c]
  PROVE  UNCHANGED OpenCalls
<1>1. TypeOK /\ LockHeld /\ TypeOK' /\ LockHeld'
  BY DEF MeterInv
<1>a. OpenAgrees /\ OpenAgrees'
  BY <1>1, OpenIs, OpenIsNext
<1>2. \A d \in Callers : /\ InCall(d)' <=> InCall(d)
                         /\ InCall(d) => Kind(d)' = Kind(d) /\ tenant'[d] = tenant[d]
  <2>1. InCall(c) => Kind(c)' = Kind(c)
    BY DEF Kind
  <2>2. \A d \in Callers \ {c} :
          (InCall(d)' <=> InCall(d)) /\ Kind(d)' = Kind(d) /\ tenant'[d] = tenant[d]
    BY <1>1, Elsewhere
  <2> QED BY <2>1, <2>2
<1>3. ASSUME NEW t \in Tenants PROVE Open(t)' = Open(t)
  <2>1. ASSUME NEW d \in Callers, InCall(d), tenant[d] = t PROVE Open(t)' = Open(t)
    <3>1. Open(t) = Kind(d)
      BY <1>a, <2>1 DEF OpenAgrees
    <3>2. InCall(d)' /\ tenant'[d] = t /\ Kind(d)' = Kind(d)
      BY <1>2, <2>1
    <3>3. Open(tenant[d])' = Kind(d)'
      BY <1>a, <3>2 DEF OpenAgrees
    <3>4. Open(t)' = Open(tenant[d])'
      BY <3>2
    <3> QED BY <3>1, <3>2, <3>3, <3>4
  <2>2. ASSUME \A d \in Callers : InCall(d) => tenant[d] # t PROVE Open(t)' = Open(t)
    BY <1>2, <2>2 DEF Open
  <2> QED BY <2>1, <2>2
<1> QED BY <1>3 DEF OpenCalls

\* The family's sum in the terms of the ledger.
LEMMA FamilySum == Ledger!SumFunctionOnSet(spent, Prefixed) = FamilySpent
BY DEF FamilySpent, SumFunctionOnSet, FoldFunctionOnSet, MapThenFoldSet,
       Ledger!SumFunctionOnSet, Ledger!FoldFunctionOnSet, Ledger!MapThenFoldSet

\* A step that passes a check which was the last one to fail admits a call.
LEMMA Admits ==
  ASSUME MeterInv, MeterInv', NEW c \in Callers, Alone(c), UNCHANGED usageVars,
         UNCHANGED <<tenant, request>>,
         ~InCall(c), InCall(c)',
         tenant[c] \in DemoFamily /\ request[c] # "ingest" => FamilySpent < DemoCap
  PROVE  Ledger!Admit(tenant[c], Kind(c))
<1>t. PICK t : t = tenant[c]
  OBVIOUS
<1> USE <1>t
<1>1. TypeOK /\ LockHeld /\ TypeOK' /\ LockHeld' /\ ChecksCurrent'
  BY DEF MeterInv
<1>2. OpenAgrees /\ OpenAgrees'
  BY <1>1, OpenIs, OpenIsNext
<1>3. t \in Tenants /\ pc'[c] \in Locked
  <2>1. pc'[c] \in Locked
    BY DEF InCall, Locked, Checked
  <2> QED BY <1>1, <2>1, Labels DEF TypeOK
<1>4. \A d \in Callers \ {c} : (InCall(d)' <=> InCall(d)) /\ Kind(d)' = Kind(d) /\ tenant'[d] = tenant[d]
  BY <1>1, Elsewhere
<1>5. \A d \in Callers : InCall(d) => tenant[d] # t
  <2> SUFFICES ASSUME NEW d \in Callers \ {c}, InCall(d), tenant[d] = t PROVE FALSE
    OBVIOUS
  <2>1. pc[d] \in Locked /\ pc'[d] = pc[d]
    BY <1>1, InCallLocked DEF Alone
  <2> QED BY <1>1, <1>3, <2>1 DEF LockHeld
<1>6. OpenCalls[t] = "none"
  BY <1>3, <1>5, OpenNone DEF OpenCalls
<1>7. OpenCalls' = [OpenCalls EXCEPT ![t] = Kind(c)]
  <2>1. Open(t)' = Kind(c)
    <3>1. Kind(c)' = Kind(c) /\ tenant'[c] = t
      BY DEF Kind
    <3>2. Open(tenant[c])' = Kind(c)'
      BY <1>2 DEF OpenAgrees
    <3> QED BY <3>1, <3>2
  <2>2. ASSUME NEW u \in Tenants \ {t} PROVE Open(u)' = Open(u)
    <3>1. \A d \in Callers : (InCall(d)' /\ tenant'[d] = u) <=> (InCall(d) /\ tenant[d] = u)
      BY <1>4
    <3>2. CASE \E d \in Callers : InCall(d) /\ tenant[d] = u
      <4>1. PICK d \in Callers : InCall(d) /\ tenant[d] = u
        BY <3>2
      <4>2. d # c /\ InCall(d)' /\ tenant'[d] = u /\ Kind(d)' = Kind(d)
        BY <1>4, <4>1
      <4>3. Open(tenant[d]) = Kind(d) /\ Open(tenant[d])' = Kind(d)'
        BY <1>2, <4>1, <4>2 DEF OpenAgrees
      <4>4. Open(u)' = Open(tenant[d])'
        BY <4>2
      <4> QED BY <4>1, <4>2, <4>3, <4>4
    <3>3. CASE ~ \E d \in Callers : InCall(d) /\ tenant[d] = u
      BY <3>1, <3>3 DEF Open
    <3> QED BY <3>2, <3>3
  <2> QED BY <2>1, <2>2, <1>3 DEF OpenCalls
<1>8. Ledger!Fits(t, Kind(c))
  <2>1. UNCHANGED <<spent, searches, ingests>>
    BY DEF usageVars
  <2>2. CASE pc'[c] = "mark"
    <3>1. request[c] = "ingest"
      BY <1>1, <2>2 DEF TypeOK, StageOK
    <3>2. ingests[t] < CallLimit
      BY <1>1, <2>1, <2>2 DEF ChecksCurrent
    <3> QED BY <3>1, <3>2 DEF Kind, Ledger!Fits
  <2>3. CASE pc'[c] # "mark"
    <3>1. /\ ~OverCap(t)
          /\ request[c] = "search" /\ t \in Signups => searches[t] < CallLimit
      BY <2>1, <2>3 DEF InCall, OverCap
    <3>2. request[c] # "ingest"
      BY <1>1, <2>3 DEF InCall, TypeOK, StageOK
    <3>3. Cap[t] # NoCap => spent[t] < Cap[t]
      <4>1. spent[t] \in Nat /\ (Cap[t] # NoCap => Cap[t] \in Nat)
        BY <1>1, <1>3, MeterAssumption DEF TypeOK
      <4> QED BY <3>1, <4>1 DEF OverCap
    <3>4. t \in DemoFamily => Ledger!SumFunctionOnSet(spent, Prefixed) < DemoCap
      BY <3>2, FamilySum
    <3>5. Kind(c) # "ingest" /\ (Kind(c) = "search" => request[c] = "search")
      BY <3>2 DEF Kind
    <3> QED BY <3>1, <3>3, <3>4, <3>5 DEF Ledger!Fits
  <2> QED BY <2>2, <2>3
<1> QED BY <1>6, <1>7, <1>8 DEF Ledger!Admit, Ledger!usage, usageVars

\* A step by which an open call is over, with its row or without.
LEMMA Closes ==
  ASSUME MeterInv, MeterInv', NEW c \in Callers, Alone(c), InCall(c), ~InCall(c)',
         \/ UNCHANGED usageVars
         \/ pc[c] \in Locked /\ AddRow(c)
  PROVE  Ledger!Close(tenant[c])
<1>t. PICK t : t = tenant[c]
  OBVIOUS
<1> USE <1>t
<1>1. TypeOK /\ LockHeld /\ TypeOK' /\ LockHeld' /\ IngestsFree
  BY DEF MeterInv
<1>2. OpenAgrees /\ OpenAgrees'
  BY <1>1, OpenIs, OpenIsNext
<1>3. t \in Tenants /\ pc[c] \in Locked
  BY <1>1, InCallLocked
<1>4. \A d \in Callers \ {c} : (InCall(d)' <=> InCall(d)) /\ Kind(d)' = Kind(d) /\ tenant'[d] = tenant[d]
  BY <1>1, Elsewhere
<1>5. OpenCalls[t] = Kind(c)
  BY <1>2, <1>3 DEF OpenAgrees, OpenCalls
<1>6. \A d \in Callers : InCall(d)' => tenant'[d] # t
  <2> SUFFICES ASSUME NEW d \in Callers \ {c}, InCall(d)', tenant'[d] = t PROVE FALSE
    OBVIOUS
  <2>1. InCall(d) /\ tenant[d] = t
    BY <1>4
  <2> QED BY <1>1, <1>3, <2>1, InCallLocked, OneCallPerTenant
<1>7. OpenCalls' = [OpenCalls EXCEPT ![t] = "none"]
  <2>1. Open(t)' = "none"
    BY <1>6 DEF Open
  <2>2. ASSUME NEW u \in Tenants \ {t} PROVE Open(u)' = Open(u)
    <3>1. \A d \in Callers : (InCall(d)' /\ tenant'[d] = u) <=> (InCall(d) /\ tenant[d] = u)
      BY <1>4
    <3>2. CASE \E d \in Callers : InCall(d) /\ tenant[d] = u
      <4>1. PICK d \in Callers : InCall(d) /\ tenant[d] = u
        BY <3>2
      <4>2. d # c /\ InCall(d)' /\ tenant'[d] = u /\ Kind(d)' = Kind(d)
        BY <1>4, <4>1
      <4>3. Open(tenant[d]) = Kind(d) /\ Open(tenant[d])' = Kind(d)'
        BY <1>2, <4>1, <4>2 DEF OpenAgrees
      <4>4. Open(u)' = Open(tenant[d])'
        BY <4>2
      <4> QED BY <4>1, <4>2, <4>3, <4>4
    <3>3. CASE ~ \E d \in Callers : InCall(d) /\ tenant[d] = u
      BY <3>1, <3>3 DEF Open
    <3> QED BY <3>2, <3>3
  <2> QED BY <2>1, <2>2, <1>3 DEF OpenCalls
<1>8. CASE UNCHANGED usageVars
  BY <1>5, <1>7, <1>8, KindSome DEF Ledger!Close, Ledger!usage, usageVars
<1>9. CASE AddRow(c)
  <2>1. /\ Kind(c) = "search" <=> request[c] = "search"
        /\ Kind(c) = "ingest" <=> request[c] = "ingest"
    BY DEF Kind
  <2>2. cost[c] \in 0..MaxCost /\ (Kind(c) = "ingest" => cost[c] = 0)
    BY <1>1, <2>1 DEF TypeOK, IngestsFree
  <2>3. Ledger!Charge(t)
    BY <1>5, <1>9, <2>1, <2>2 DEF Ledger!Charge, AddRow
  <2> QED BY <1>5, <1>7, <2>3, KindSome DEF Ledger!Close
<1> QED BY <1>8, <1>9

\* What a step is to the ledger.
Mapped == Ledger!Next \/ UNCHANGED <<OpenCalls, usageVars>>

LEMMA CloseMapped ==
  ASSUME NEW t \in Tenants, Ledger!Close(t), OpenCalls'[t] # OpenCalls[t]
  PROVE  Mapped
BY DEF Mapped, Ledger!Next

\* A step by which a caller whose call is open leaves it.
LEMMA Leaves ==
  ASSUME MeterInv, MeterInv', NEW c \in Callers, Alone(c), InCall(c), ~InCall(c)',
         \/ UNCHANGED usageVars
         \/ pc[c] \in Locked /\ AddRow(c)
  PROVE  Mapped
<1>1. tenant[c] \in Tenants
  BY InCallLocked DEF MeterInv
<1>2. Ledger!Close(tenant[c])
  BY Closes
<1>3. OpenCalls[tenant[c]] # "none" /\ OpenCalls'[tenant[c]] = "none"
  BY <1>1, <1>2 DEF Ledger!Close, OpenCalls
<1> QED BY <1>1, <1>2, <1>3, CloseMapped

\* A step of a caller that writes no row.
LEMMA Moves ==
  ASSUME MeterInv, MeterInv', NEW c \in Callers, Alone(c), UNCHANGED usageVars,
         InCall(c)' => UNCHANGED <<tenant, request>>,
         ~InCall(c) /\ InCall(c)' =>
           (tenant[c] \in DemoFamily /\ request[c] # "ingest" => FamilySpent < DemoCap)
  PROVE  Mapped
<1>1. CASE InCall(c) /\ ~InCall(c)'
  BY <1>1, Leaves
<1>2. CASE ~InCall(c) /\ InCall(c)'
  <2>1. tenant[c] \in Tenants
    <3>1. tenant'[c] = tenant[c] /\ pc'[c] \in Locked /\ TypeOK'
      BY <1>2 DEF MeterInv, InCall, Locked, Checked
    <3> QED BY <3>1, Labels DEF TypeOK
  <2>2. Ledger!Admit(tenant[c], Kind(c))
    BY <1>2, Admits
  <2>3. OpenCalls[tenant[c]] = "none" /\ OpenCalls'[tenant[c]] = Kind(c)
    BY <2>1, <2>2 DEF Ledger!Admit, OpenCalls
  <2> QED BY <2>1, <2>2, <2>3, KindSome DEF Mapped, Ledger!Next
<1>3. CASE InCall(c)' <=> InCall(c)
  <2>1. InCall(c) => tenant'[c] = tenant[c] /\ request'[c] = request[c]
    BY <1>3
  <2>2. UNCHANGED OpenCalls
    BY <1>3, <2>1, StaysOpen
  <2> QED BY <2>2 DEF Mapped
<1> QED BY <1>1, <1>2, <1>3

LEMMA NextMapped == MeterInv /\ [Next]_vars => Mapped
<1> SUFFICES ASSUME MeterInv, [Next]_vars PROVE Mapped
  OBVIOUS
<1>0. TypeOK /\ TypeOK' /\ MeterInv'
  BY NextTyped, NextMeter DEF MeterInv
<1>a. {"idle", "cache", "connect", "lock", "store", "family", "ingests", "leave", "done"}
        \subseteq PC \ ({"mark", "cap", "searches"} \cup Checked)
  BY DEF PC, Locked, Checked
<1>b. \A c \in Callers :
        pc'[c] \in {"idle", "cache", "connect", "lock", "store", "family", "ingests", "leave", "done"}
          => ~InCall(c)'
  BY <1>a DEF InCall
<1>1. ASSUME NEW c \in Callers, Begin(c) PROVE Mapped
  <2>1. pc'[c] \in {"cache", "connect"} /\ Alone(c) /\ UNCHANGED usageVars
    BY <1>0, <1>1 DEF Begin, Goto, TypeOK, Alone
  <2>2. ~InCall(c)'
    BY <1>b, <2>1
  <2> QED BY <1>0, <2>1, <2>2, Moves
<1>2. ASSUME NEW c \in Callers, Leave(c), UNCHANGED usageVars PROVE Mapped
  <2>1. pc'[c] = "idle" /\ Alone(c)
    BY <1>0, <1>2 DEF Leave, Goto, TypeOK, Alone
  <2>2. ~InCall(c)'
    BY <1>b, <2>1
  <2> QED BY <1>0, <1>2, <2>1, <2>2, Moves
<1>3. ASSUME NEW c \in Callers,
             NEW label \in {"connect", "lock", "family", "ingests", "leave", "store"},
             Goto(c, label), UNCHANGED <<tenant, request>>, UNCHANGED usageVars
      PROVE  Mapped
  <2>1. pc'[c] = label /\ Alone(c)
    BY <1>0, <1>3 DEF Goto, TypeOK, Alone
  <2>2. ~InCall(c)'
    BY <1>b, <2>1
  <2> QED BY <1>0, <1>3, <2>1, <2>2, Moves
<1>4. ASSUME NEW c \in Callers, Acquire(c) PROVE Mapped
  <2>1. UNCHANGED <<tenant, request>> /\ UNCHANGED usageVars
    BY <1>4 DEF Acquire
  <2>2. CASE Goto(c, "ingests") \/ Goto(c, "family")
    BY <1>3, <2>1, <2>2
  <2>3. CASE Goto(c, "cap") /\ tenant[c] \notin DemoFamily
    <3>1. Alone(c)
      BY <1>0, <2>1, <2>3 DEF Goto, TypeOK, Alone
    <3> QED BY <1>0, <2>1, <2>3, <3>1, Moves
  <2> QED BY <1>4, <2>2, <2>3 DEF Acquire
<1>5. ASSUME NEW c \in Callers, CheckFamily(c) PROVE Mapped
  <2>1. UNCHANGED <<tenant, request>> /\ UNCHANGED usageVars
    BY <1>5 DEF CheckFamily
  <2>2. CASE Goto(c, "leave")
    BY <1>3, <2>1, <2>2
  <2>3. CASE Goto(c, "cap") /\ ~(FamilySpent >= DemoCap)
    <3>1. FamilySpent < DemoCap
      BY <1>0, <2>3, FamilyTotal, MeterAssumption
    <3>2. Alone(c)
      BY <1>0, <2>1, <2>3 DEF Goto, TypeOK, Alone
    <3> QED BY <1>0, <2>1, <3>1, <3>2, Moves
  <2> QED BY <1>5, <2>2, <2>3 DEF CheckFamily
<1>6. ASSUME NEW c \in Callers, CheckCap(c) \/ CheckSearches(c) \/ ProviderAnswers(c)
      PROVE  Mapped
  <2>1. UNCHANGED <<tenant, request>> /\ UNCHANGED usageVars
    BY <1>6 DEF CheckCap, CheckSearches, ProviderAnswers
  <2>2. CASE Goto(c, "leave")
    BY <1>3, <2>1, <2>2
  <2>3. ASSUME NEW label \in {"searches", "calling", "record"}, Goto(c, label) PROVE Mapped
    <3>1. Alone(c) /\ pc[c] \in {"cap", "searches"} \cup Checked
      BY <1>0, <1>6, <2>1, <2>3 DEF Goto, TypeOK, Alone, CheckCap, CheckSearches, ProviderAnswers, Checked
    <3>2. pc'[c] # "mark" /\ (OverCap(tenant[c])' <=> OverCap(tenant[c])) /\ UNCHANGED searches
      BY <1>0, <2>1, <2>3 DEF Goto, TypeOK, OverCap, usageVars
    <3>3. InCall(c)' => InCall(c)
      BY <2>1, <3>1, <3>2 DEF InCall
    <3> QED BY <1>0, <2>1, <3>1, <3>3, Moves
  <2> QED BY <1>6, <2>2, <2>3 DEF CheckCap, CheckSearches, ProviderAnswers
<1>7. ASSUME NEW c \in Callers,
             CacheMiss(c) \/ Connect(c) \/ ProviderFails(c) \/ CountIngests(c)
      PROVE  Mapped
  <2>1. UNCHANGED <<tenant, request>> /\ UNCHANGED usageVars
    BY <1>7 DEF CacheMiss, Connect, ProviderFails, CountIngests
  <2>2. CASE Goto(c, "connect") \/ Goto(c, "lock") \/ Goto(c, "leave")
    BY <1>3, <2>1, <2>2
  <2>3. CASE Goto(c, "mark") /\ pc[c] = "ingests"
    <3>1. Alone(c) /\ request[c] = "ingest"
      BY <1>0, <2>1, <2>3 DEF Goto, TypeOK, StageOK, Alone
    <3> QED BY <1>0, <2>1, <3>1, Moves
  <2> QED BY <1>7, <2>2, <2>3 DEF CacheMiss, Connect, ProviderFails, CountIngests
<1>8. ASSUME NEW c \in Callers, pc[c] \in {"record", "mark"}, AddRow(c), Alone(c),
             pc'[c] \in {"done", "idle"}
      PROVE  Mapped
  <2>1. InCall(c) /\ pc[c] \in Locked
    BY <1>8 DEF MeterInv, ChecksCurrent, InCall, Checked, Locked
  <2>2. ~InCall(c)'
    BY <1>b, <1>8
  <2> QED BY <1>0, <1>8, <2>1, <2>2, Leaves
<1>9. ASSUME NEW c \in Callers, Record(c) PROVE Mapped
  <2>1. Alone(c) /\ pc'[c] = "done"
    BY <1>0, <1>9 DEF Record, Goto, TypeOK, Alone
  <2> QED BY <1>8, <1>9, <2>1 DEF Record
<1>10. ASSUME NEW c \in Callers, Abort(c) PROVE Mapped
  <2>1. Alone(c) /\ pc'[c] = "idle" /\ Leave(c)
    BY <1>0, <1>10 DEF Abort, Leave, Goto, TypeOK, Alone
  <2>2. CASE UNCHANGED usageVars
    BY <1>2, <2>1, <2>2
  <2>3. CASE pc[c] \in {"record", "mark"} /\ AddRow(c)
    BY <1>8, <2>1, <2>3
  <2> QED BY <1>10, <2>2, <2>3 DEF Abort
<1>11. ASSUME NEW c \in Callers, Unlock(c) \/ PoolTimeout(c) PROVE Mapped
  <2>1. UNCHANGED usageVars
    BY <1>11 DEF Unlock, PoolTimeout
  <2> QED BY <1>2, <1>3, <1>11, <2>1 DEF Unlock, PoolTimeout
<1>12. ASSUME NEW c \in Callers, CacheHit(c) \/ LockTimeout(c) \/ CacheSet(c) PROVE Mapped
  <2>1. Leave(c) /\ UNCHANGED usageVars
    BY <1>12 DEF CacheHit, LockTimeout, CacheSet
  <2> QED BY <1>2, <2>1
<1>13. ASSUME UNCHANGED <<callVars, usageVars>> PROVE Mapped
  <2>1. \A c \in Callers : (InCall(c)' <=> InCall(c)) /\ Kind(c)' = Kind(c)
    BY <1>13 DEF InCall, Kind, OverCap, callVars, usageVars
  <2>2. \A t \in Tenants : Open(t)' = Open(t)
    BY <1>13, <2>1 DEF Open, callVars
  <2> QED BY <1>13, <2>2 DEF Mapped, OpenCalls
<1> QED BY <1>1, <1>4, <1>5, <1>6, <1>7, <1>9, <1>10, <1>11, <1>12, <1>13
        DEF Next, CallerStep, CacheExpires, OtherConnects, OtherReturns, vars

LEMMA InitMapped == Init => Ledger!Init
<1> SUFFICES ASSUME Init PROVE Ledger!Init
  OBVIOUS
<1>1. \A c \in Callers : ~InCall(c)
  BY DEF Init, InCall, Checked
<1> QED BY <1>1 DEF Init, Ledger!Init, OpenCalls, Open

\* Metered calls implement calls that are admitted within all their limits at
\* once and charged at once, one of a tenant at a time: whatever the callers,
\* wherever they end, and however tenants share locks.
THEOREM LedgerImplemented == Spec => CallsAtomic
<1>1. MeterInv /\ [Next]_vars => [Ledger!Next]_(Ledger!vars)
  BY NextMapped DEF Mapped, Ledger!vars, Ledger!usage, usageVars
<1> QED BY <1>1, InitMapped, InitMeter, NextMeter, PTL DEF Spec, CallsAtomic, Ledger!Spec
=============================================================================
