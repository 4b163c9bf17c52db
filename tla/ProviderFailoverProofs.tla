----------------------- MODULE ProviderFailoverProofs -----------------------
(***************************************************************************)
(* For any number of providers, calls and routes: a tripped provider is    *)
(* asked only by retries that were due, and no call gives up while one of  *)
(* its candidates answers.                                                 *)
(***************************************************************************)
EXTENDS ProviderFailoverProperties, TLAPS

UnderWay(c) == pc[c] \in {"asking", "sleeping"}

Typed == TypeOK /\ at \in [Calls -> Nat]

\* The requests a call has made of a tripped provider are among those its attempts
\* count; of one that is not tripped, none is counted.
AsksCounted ==
  /\ \A p \in Providers, c \in Calls : breaker[p] = "closed" => asked[p][c] = 0
  /\ \A c \in Calls : pc[c] = "asking" => asked[Candidate(c)][c] <= attempt[c]
  /\ \A c \in Calls : pc[c] = "sleeping" => asked[Candidate(c)][c] < attempt[c]

\* The breaker of a provider that answers never trips, so no call passes it over.
NonePassedOver ==
  /\ \A p \in Reliable : breaker[p] = "closed"
  /\ \A c \in Calls : UnderWay(c) => \A i \in 1..(at[c] - 1) : route[c][i] \notin Reliable

FailoverInv == Typed /\ CooldownKept /\ AsksCounted /\ NonePassedOver

-----------------------------------------------------------------------------

LEMMA FailoverInitially == Init => FailoverInv
<1> SUFFICES ASSUME Init PROVE FailoverInv
  OBVIOUS
<1>1. Typed
  BY FailoverAssumption DEF Init, Typed, TypeOK, Ended, NoneAsked
<1>2. CooldownKept
  BY FailoverAssumption DEF Init, CooldownKept, NoneAsked
<1>3. AsksCounted
  BY DEF Init, AsksCounted, NoneAsked
<1>4. NonePassedOver
  BY FailoverAssumption DEF Init, NonePassedOver, UnderWay
<1> QED
  BY <1>1, <1>2, <1>3, <1>4 DEF FailoverInv

\* Who is under way has a route of the table and one of its providers at hand.
LEMMA CandidateTyped ==
  ASSUME Typed, NEW c \in Calls, UnderWay(c)
  PROVE  /\ route[c] \in Routes /\ route[c] \in Seq(Providers)
         /\ at[c] \in 1..Len(route[c])
         /\ Candidate(c) \in Providers
<1>1. at[c] \in DOMAIN route[c]
  BY DEF Typed, TypeOK, UnderWay
<1>2. route[c] \in Routes
  BY <1>1 DEF Typed, TypeOK
<1>3. route[c] \in Seq(Providers)
  BY <1>2, FailoverAssumption
<1> QED
  BY <1>1, <1>2, <1>3 DEF Candidate

\* A call that ends without a reply disturbs nobody.
LEMMA EndKeeps ==
  ASSUME FailoverInv, NEW c \in Calls, NEW how \in Ended, End(c, how)
  PROVE  /\ pc' \in [Calls -> {"idle", "asking", "sleeping"} \cup Ended]
         /\ route' \in [Calls -> Routes \cup {<<>>}]
         /\ at' \in [Calls -> Nat]
         /\ attempt' \in [Calls -> 0..(RetryAttempts - 1)]
         /\ ~ UnderWay(c)' /\ at'[c] \notin DOMAIN route'[c]
         /\ \A o \in Calls \ {c} :
               /\ pc'[o] = pc[o] /\ route'[o] = route[o]
               /\ at'[o] = at[o] /\ attempt'[o] = attempt[o]
  BY FailoverAssumption DEF FailoverInv, Typed, TypeOK, End, UnderWay, Ended

\* The next candidate is the first that is available: the loop has passed over tripped
\* ones only.  counts and breakers are what the attempt before has left.
LEMMA GoOnKeeps ==
  ASSUME FailoverInv, NEW c \in Calls, NEW r \in Routes, NEW i \in Nat \ {0},
         NEW counts, NEW breakers, GoOn(c, r, i, counts, breakers), UNCHANGED trips,
         counts \in [Providers -> Nat],
         breakers \in [Providers -> {"closed", "open", "elapsed"}],
         \A p \in Providers : breakers[p] = "closed" =>
            breaker[p] = "closed" /\ counts[p] < FailureThreshold,
         \A p \in Reliable : breakers[p] = "closed",
         \A k \in 1..(i - 1) : r[k] \notin Reliable
  PROVE  FailoverInv' /\ (pc'[c] = "exhausted" => \A k \in DOMAIN r : r[k] \notin Reliable)
<1> DEFINE able == {k \in i..Len(r) : IsAvailable(r[k], breakers)}
<1>0. r \in Seq(Providers) /\ r \in Routes \cup {<<>>}
  BY FailoverAssumption
<1>1. CASE able = {}
  <2>1. /\ End(c, "exhausted") /\ failures' = counts /\ breaker' = breakers
        /\ UNCHANGED <<asked, trips>>
    BY <1>1 DEF GoOn
  <2>2. /\ pc' \in [Calls -> {"idle", "asking", "sleeping"} \cup Ended]
        /\ route' \in [Calls -> Routes \cup {<<>>}]
        /\ at' \in [Calls -> Nat]
        /\ attempt' \in [Calls -> 0..(RetryAttempts - 1)]
        /\ ~ UnderWay(c)' /\ at'[c] \notin DOMAIN route'[c]
        /\ \A o \in Calls \ {c} :
              /\ pc'[o] = pc[o] /\ route'[o] = route[o]
              /\ at'[o] = at[o] /\ attempt'[o] = attempt[o]
    BY <2>1, EndKeeps DEF Ended
  <2>3. Typed'
    BY <2>1, <2>2 DEF FailoverInv, Typed, TypeOK, UnderWay
  <2>4. CooldownKept'
    BY <2>1 DEF FailoverInv, CooldownKept
  <2>5. AsksCounted'
    BY <2>1, <2>2 DEF FailoverInv, AsksCounted, UnderWay, Candidate
  <2>6. NonePassedOver'
    BY <2>1, <2>2 DEF FailoverInv, NonePassedOver, UnderWay
  <2>7. ASSUME NEW k \in DOMAIN r PROVE r[k] \notin Reliable
    <3>1. k \in 1..Len(r) /\ r[k] \in Providers
      BY <1>0
    <3>2. CASE k < i
      BY <3>1, <3>2
    <3>3. CASE k >= i
      <4>1. k \in i..Len(r)
        BY <3>1, <3>3
      <4>2. breakers[r[k]] = "open"
        BY <1>1, <4>1 DEF IsAvailable
      <4> QED
        BY <4>2
    <3> QED
      BY <3>1, <3>2, <3>3
  <2> QED
    BY <2>3, <2>4, <2>5, <2>6, <2>7 DEF FailoverInv
<1>2. CASE able # {}
  <2>1. PICK k \in able : (\A m \in able : k <= m) /\ Ask(c, r, k, counts, breakers)
    BY <1>2 DEF GoOn
  <2>2. k \in 1..Len(r) /\ r[k] \in Providers /\ breakers[r[k]] # "open"
    BY <1>0 DEF IsAvailable
  <2>3. ASSUME NEW m \in 1..(k - 1) PROVE r[m] \notin Reliable
    <3>1. CASE m < i
      BY <3>1
    <3>2. CASE m >= i
      <4>1. m \in i..Len(r) /\ m \notin able
        BY <2>1, <2>2, <3>2
      <4> QED
        BY <4>1 DEF IsAvailable
    <3> QED
      BY <3>1, <3>2, <2>2
  <2>4. /\ pc' = [pc EXCEPT ![c] = "asking"] /\ route' = [route EXCEPT ![c] = r]
        /\ at' = [at EXCEPT ![c] = k] /\ attempt' = [attempt EXCEPT ![c] = 0]
    BY <2>1 DEF Ask
  <2>5. /\ failures' \in [Providers -> Nat]
        /\ breaker' \in [Providers -> {"closed", "open", "elapsed"}]
        /\ breaker'[r[k]] = "closed"
        /\ \A p \in Providers : breaker'[p] = "closed" => failures'[p] < FailureThreshold
        /\ \A p \in Providers \ {r[k]} : breaker'[p] = breakers[p]
    BY <2>1, <2>2, FailoverAssumption DEF Ask
  <2>6. /\ asked' \in [Providers -> [Calls -> Nat]]
        /\ \A p \in Providers, o \in Calls : asked'[p][o] <= asked[p][o]
        /\ \A o \in Calls : asked'[r[k]][o] = 0
        /\ \A p \in Providers \ {r[k]} : asked'[p] = asked[p]
    <3>1. asked \in [Providers -> [Calls -> Nat]]
      BY DEF FailoverInv, Typed, TypeOK
    <3>2. CASE breakers[r[k]] = "elapsed"
      BY <2>1, <2>2, <3>1, <3>2 DEF Ask, NoneAsked
    <3>3. CASE breakers[r[k]] = "closed"
      <4>1. \A o \in Calls : asked[r[k]][o] = 0
        BY <2>2, <3>3 DEF FailoverInv, AsksCounted
      <4>2. asked' = asked
        BY <2>1, <3>3 DEF Ask
      <4> QED
        BY <2>2, <3>1, <4>1, <4>2
    <3> QED
      BY <2>2, <3>2, <3>3
  <2> HIDE DEF able
  <2>7. Typed'
    <3>1. RetryAttempts \in Nat \ {0}
      BY FailoverAssumption
    <3>2. /\ pc' \in [Calls -> {"idle", "asking", "sleeping"} \cup Ended]
          /\ route' \in [Calls -> Routes \cup {<<>>}]
          /\ at' \in [Calls -> Nat]
          /\ attempt' \in [Calls -> 0..(RetryAttempts - 1)]
      <4>1. /\ pc \in [Calls -> {"idle", "asking", "sleeping"} \cup Ended]
            /\ route \in [Calls -> Routes \cup {<<>>}]
            /\ at \in [Calls -> Nat]
            /\ attempt \in [Calls -> 0..(RetryAttempts - 1)]
        BY DEF FailoverInv, Typed, TypeOK
      <4>2. k \in Nat /\ 0 \in 0..(RetryAttempts - 1)
        BY <2>2, <3>1
      <4> QED
        BY <1>0, <2>4, <4>1, <4>2
    <3>3. \A o \in Calls : pc'[o] \in {"asking", "sleeping"} <=> at'[o] \in DOMAIN route'[o]
      BY <1>0, <2>2, <2>4 DEF FailoverInv, Typed, TypeOK
    <3>4. \A o \in Calls : pc'[o] = "sleeping" => attempt'[o] > 0
      BY <2>4 DEF FailoverInv, Typed, TypeOK
    <3>5. trips' \in 0..MaxTrips
      BY DEF FailoverInv, Typed, TypeOK
    <3> QED
      BY <2>5, <2>6, <3>2, <3>3, <3>4, <3>5 DEF Typed, TypeOK
  <2>8. CooldownKept'
    BY <2>6, FailoverAssumption DEF FailoverInv, CooldownKept, Typed, TypeOK
  <2>9. AsksCounted'
    <3>1. \A p \in Providers, o \in Calls : breaker'[p] = "closed" => asked'[p][o] = 0
      BY <2>5, <2>6 DEF FailoverInv, AsksCounted
    <3>2. Candidate(c)' = r[k] /\ pc'[c] = "asking" /\ attempt'[c] = 0
      BY <2>4 DEF FailoverInv, Typed, TypeOK, Candidate
    <3>3. ASSUME NEW o \in Calls \ {c}, UnderWay(o)'
          PROVE  /\ UnderWay(o) /\ pc'[o] = pc[o]
                 /\ Candidate(o)' = Candidate(o) /\ Candidate(o) \in Providers
                 /\ attempt'[o] = attempt[o] /\ attempt[o] \in Nat
                 /\ asked'[Candidate(o)][o] <= asked[Candidate(o)][o]
                 /\ asked'[Candidate(o)][o] \in Nat /\ asked[Candidate(o)][o] \in Nat
      <4>1. pc'[o] = pc[o] /\ route'[o] = route[o] /\ at'[o] = at[o] /\ attempt'[o] = attempt[o]
        BY <2>4 DEF FailoverInv, Typed, TypeOK
      <4>2. UnderWay(o) /\ Candidate(o)' = Candidate(o)
        BY <3>3, <4>1 DEF UnderWay, Candidate
      <4>3. Candidate(o) \in Providers
        BY <4>2, CandidateTyped DEF FailoverInv
      <4> QED
        BY <2>6, <4>1, <4>2, <4>3, FailoverAssumption DEF FailoverInv, Typed, TypeOK
    <3>4. \A o \in Calls : pc'[o] = "asking" => asked'[Candidate(o)'][o] <= attempt'[o]
      BY <2>6, <3>2, <3>3 DEF FailoverInv, AsksCounted, UnderWay
    <3>5. \A o \in Calls : pc'[o] = "sleeping" => asked'[Candidate(o)'][o] < attempt'[o]
      BY <3>2, <3>3 DEF FailoverInv, AsksCounted, UnderWay
    <3> QED
      BY <3>1, <3>4, <3>5 DEF AsksCounted
  <2>10. NonePassedOver'
    <3>1. \A p \in Reliable : breaker'[p] = "closed"
      BY <2>5, FailoverAssumption
    <3>2. \A o \in Calls : UnderWay(o)' => \A m \in 1..(at'[o] - 1) : route'[o][m] \notin Reliable
      BY <2>3, <2>4 DEF FailoverInv, Typed, TypeOK, NonePassedOver, UnderWay
    <3> QED
      BY <3>1, <3>2 DEF NonePassedOver
  <2>11. pc'[c] # "exhausted"
    BY <2>4 DEF FailoverInv, Typed, TypeOK
  <2> QED
    BY <2>7, <2>8, <2>9, <2>10, <2>11 DEF FailoverInv
<1> QED
  BY <1>1, <1>2

-----------------------------------------------------------------------------
(***************************************************************************)
(* The other steps, one lemma each.                                        *)
(***************************************************************************)

LEMMA BeginKeeps ==
  ASSUME FailoverInv, NEW c \in Calls, Begin(c)
  PROVE  FailoverInv'
<1>1. PICK r \in Routes : GoOn(c, r, 1, failures, breaker)
  BY DEF Begin
<1>2. /\ failures \in [Providers -> Nat]
      /\ breaker \in [Providers -> {"closed", "open", "elapsed"}]
      /\ \A p \in Providers : breaker[p] = "closed" => failures[p] < FailureThreshold
      /\ \A p \in Reliable : breaker[p] = "closed"
  BY DEF FailoverInv, Typed, TypeOK, NonePassedOver
<1>3. UNCHANGED trips
  BY DEF Begin
<1> QED
  BY <1>1, <1>2, <1>3, GoOnKeeps

LEMMA AnswerKeeps ==
  ASSUME FailoverInv, NEW c \in Calls, Answer(c)
  PROVE  FailoverInv'
<1> DEFINE p == Candidate(c)
<1>1. p \in Providers
  BY CandidateTyped DEF FailoverInv, Answer, UnderWay
<1>2. /\ failures' = [failures EXCEPT ![p] = 0]
      /\ breaker' = [breaker EXCEPT ![p] = "closed"]
      /\ asked' = [asked EXCEPT ![p] = NoneAsked]
      /\ End(c, "answered") /\ UNCHANGED trips
  BY DEF Answer, RecordSuccess
<1>3. /\ pc' \in [Calls -> {"idle", "asking", "sleeping"} \cup Ended]
      /\ route' \in [Calls -> Routes \cup {<<>>}]
      /\ at' \in [Calls -> Nat]
      /\ attempt' \in [Calls -> 0..(RetryAttempts - 1)]
      /\ ~ UnderWay(c)' /\ at'[c] \notin DOMAIN route'[c]
      /\ \A o \in Calls \ {c} :
            /\ pc'[o] = pc[o] /\ route'[o] = route[o]
            /\ at'[o] = at[o] /\ attempt'[o] = attempt[o]
  BY <1>2, EndKeeps DEF Ended
<1> HIDE DEF p
<1>4. /\ asked' \in [Providers -> [Calls -> Nat]]
      /\ \A o \in Calls : asked'[p][o] = 0
      /\ \A q \in Providers \ {p} : asked'[q] = asked[q]
  BY <1>1, <1>2 DEF FailoverInv, Typed, TypeOK, NoneAsked
<1>5. Typed'
  <2>1. /\ failures' \in [Providers -> Nat]
        /\ breaker' \in [Providers -> {"closed", "open", "elapsed"}]
        /\ \A q \in Providers : breaker'[q] = "closed" => failures'[q] < FailureThreshold
    BY <1>1, <1>2, FailoverAssumption DEF FailoverInv, Typed, TypeOK
  <2>2. \A o \in Calls : /\ pc'[o] \in {"asking", "sleeping"} <=> at'[o] \in DOMAIN route'[o]
                         /\ pc'[o] = "sleeping" => attempt'[o] > 0
    BY <1>3 DEF FailoverInv, Typed, TypeOK, UnderWay
  <2>3. trips' \in 0..MaxTrips
    BY <1>2 DEF FailoverInv, Typed, TypeOK
  <2> QED
    BY <1>3, <1>4, <2>1, <2>2, <2>3 DEF Typed, TypeOK
<1>6. CooldownKept'
  BY <1>4, FailoverAssumption DEF FailoverInv, CooldownKept
<1>7. AsksCounted'
  <2>1. \A q \in Providers, o \in Calls : breaker'[q] = "closed" => asked'[q][o] = 0
    BY <1>1, <1>2, <1>4 DEF FailoverInv, AsksCounted, Typed, TypeOK
  <2>2. ASSUME NEW o \in Calls \ {c}, UnderWay(o)'
        PROVE  /\ UnderWay(o) /\ pc'[o] = pc[o] /\ Candidate(o)' = Candidate(o)
               /\ attempt'[o] = attempt[o] /\ attempt[o] \in Nat
               /\ asked'[Candidate(o)][o] <= asked[Candidate(o)][o]
               /\ asked'[Candidate(o)][o] \in Nat /\ asked[Candidate(o)][o] \in Nat
    <3>1. UnderWay(o) /\ Candidate(o)' = Candidate(o)
      BY <2>2, <1>3 DEF UnderWay, Candidate
    <3>2. Candidate(o) \in Providers
      BY <3>1, CandidateTyped DEF FailoverInv
    <3>3. asked[Candidate(o)][o] \in Nat /\ attempt[o] \in Nat
      BY <3>2, FailoverAssumption DEF FailoverInv, Typed, TypeOK
    <3>4. asked'[Candidate(o)][o] \in {0, asked[Candidate(o)][o]}
      BY <1>4, <3>2
    <3> QED
      BY <1>3, <3>1, <3>3, <3>4
  <2>3. \A o \in Calls : pc'[o] = "asking" => asked'[Candidate(o)'][o] <= attempt'[o]
    BY <1>3, <2>2 DEF FailoverInv, AsksCounted, UnderWay
  <2>4. \A o \in Calls : pc'[o] = "sleeping" => asked'[Candidate(o)'][o] < attempt'[o]
    BY <1>3, <2>2 DEF FailoverInv, AsksCounted, UnderWay
  <2> QED
    BY <2>1, <2>3, <2>4 DEF AsksCounted
<1>8. NonePassedOver'
  BY <1>1, <1>2, <1>3, FailoverAssumption DEF FailoverInv, NonePassedOver, Typed, TypeOK, UnderWay
<1> QED
  BY <1>5, <1>6, <1>7, <1>8 DEF FailoverInv

LEMMA BreakKeeps ==
  ASSUME FailoverInv, NEW c \in Calls, Break(c)
  PROVE  FailoverInv'
<1>1. End(c, "broken") /\ UNCHANGED <<failures, breaker, trips, asked>>
  BY DEF Break, healthVars
<1>2. /\ pc' \in [Calls -> {"idle", "asking", "sleeping"} \cup Ended]
      /\ route' \in [Calls -> Routes \cup {<<>>}]
      /\ at' \in [Calls -> Nat]
      /\ attempt' \in [Calls -> 0..(RetryAttempts - 1)]
      /\ ~ UnderWay(c)' /\ at'[c] \notin DOMAIN route'[c]
      /\ \A o \in Calls \ {c} :
            /\ pc'[o] = pc[o] /\ route'[o] = route[o]
            /\ at'[o] = at[o] /\ attempt'[o] = attempt[o]
  BY <1>1, EndKeeps DEF Ended
<1>3. Typed'
  BY <1>1, <1>2 DEF FailoverInv, Typed, TypeOK, UnderWay
<1>4. CooldownKept'
  BY <1>1 DEF FailoverInv, CooldownKept
<1>5. AsksCounted'
  BY <1>1, <1>2 DEF FailoverInv, AsksCounted, UnderWay, Candidate
<1>6. NonePassedOver'
  BY <1>1, <1>2 DEF FailoverInv, NonePassedOver, UnderWay
<1> QED
  BY <1>3, <1>4, <1>5, <1>6 DEF FailoverInv

\* What a failure leaves of the counts and breakers.
LEMMA FailureTyped ==
  ASSUME FailoverInv, NEW p \in Providers \ Reliable
  PROVE  /\ [failures EXCEPT ![p] = @ + 1] \in [Providers -> Nat]
         /\ AfterFailure(p) \in [Providers -> {"closed", "open", "elapsed"}]
         /\ \A q \in Providers : AfterFailure(p)[q] = "closed" =>
               breaker[q] = "closed" /\ [failures EXCEPT ![p] = @ + 1][q] < FailureThreshold
         /\ \A q \in Reliable : AfterFailure(p)[q] = "closed"
  BY FailoverAssumption DEF FailoverInv, Typed, TypeOK, NonePassedOver, AfterFailure, Trips

LEMMA FailOverKeeps ==
  ASSUME FailoverInv, NEW c \in Calls, FailOver(c)
  PROVE  FailoverInv' /\ (pc'[c] = "exhausted" => OnRoute(c) \cap Reliable = {})
<1> DEFINE p == Candidate(c)
<1>1. /\ p \notin Reliable /\ UnderWay(c)
      /\ GoOn(c, route[c], at[c] + 1, [failures EXCEPT ![p] = @ + 1], AfterFailure(p))
      /\ UNCHANGED trips
  BY DEF FailOver, UnderWay
<1>2. p \in Providers /\ route[c] \in Routes /\ at[c] \in 1..Len(route[c]) /\ route[c] \in Seq(Providers)
  BY <1>1, CandidateTyped DEF FailoverInv
<1>3. \A k \in 1..(at[c] + 1 - 1) : route[c][k] \notin Reliable
  BY <1>1, <1>2 DEF FailoverInv, NonePassedOver, Candidate
<1> HIDE DEF p
<1>4. p \in Providers \ Reliable /\ at[c] + 1 \in Nat \ {0}
  BY <1>1, <1>2
<1>5. FailoverInv' /\ (pc'[c] = "exhausted" => \A k \in DOMAIN route[c] : route[c][k] \notin Reliable)
  <2> DEFINE counts == [failures EXCEPT ![p] = @ + 1]
             breakers == AfterFailure(p)
             i == at[c] + 1
  <2>1. /\ counts \in [Providers -> Nat]
        /\ breakers \in [Providers -> {"closed", "open", "elapsed"}]
        /\ \A q \in Providers : breakers[q] = "closed" =>
              breaker[q] = "closed" /\ counts[q] < FailureThreshold
        /\ \A q \in Reliable : breakers[q] = "closed"
    BY <1>4, FailureTyped
  <2>2. GoOn(c, route[c], i, counts, breakers) /\ i \in Nat \ {0}
    BY <1>1, <1>4
  <2>3. \A k \in 1..(i - 1) : route[c][k] \notin Reliable
    BY <1>2, <1>3
  <2> HIDE DEF counts, breakers, i
  <2> QED
    BY <1>1, <1>2, <2>1, <2>2, <2>3, GoOnKeeps
<1> QED
  BY <1>5 DEF OnRoute

\* One attempt more is counted before the next request is made.
LEMMA RetryKeeps ==
  ASSUME FailoverInv, NEW c \in Calls, Retry(c)
  PROVE  FailoverInv'
<1> DEFINE p == Candidate(c)
<1>1. /\ pc[c] = "asking" /\ p \notin Reliable /\ attempt[c] + 1 < RetryAttempts
      /\ failures' = [failures EXCEPT ![p] = @ + 1]
      /\ breaker' = AfterFailure(p)
      /\ attempt' = [attempt EXCEPT ![c] = @ + 1]
      /\ pc' = [pc EXCEPT ![c] = "sleeping"]
      /\ UNCHANGED <<route, at, trips, asked>>
  BY DEF Retry
<1>2. p \in Providers
  BY <1>1, CandidateTyped DEF FailoverInv, UnderWay
<1>3. /\ failures' \in [Providers -> Nat]
      /\ breaker' \in [Providers -> {"closed", "open", "elapsed"}]
      /\ \A q \in Providers : breaker'[q] = "closed" =>
            breaker[q] = "closed" /\ failures'[q] < FailureThreshold
      /\ \A q \in Reliable : breaker'[q] = "closed"
  BY <1>1, <1>2, FailureTyped
<1> HIDE DEF p
<1>4. attempt' \in [Calls -> 0..(RetryAttempts - 1)]
  BY <1>1, FailoverAssumption DEF FailoverInv, Typed, TypeOK
<1>5. Typed'
  BY <1>1, <1>3, <1>4 DEF FailoverInv, Typed, TypeOK
<1>6. CooldownKept'
  BY <1>1 DEF FailoverInv, CooldownKept
<1>7. AsksCounted'
  <2>1. \A q \in Providers, o \in Calls : breaker'[q] = "closed" => asked'[q][o] = 0
    BY <1>1, <1>3 DEF FailoverInv, AsksCounted
  <2>2. asked'[Candidate(c)'][c] < attempt'[c]
    <3>1. asked[p][c] <= attempt[c] /\ asked[p][c] \in Nat /\ attempt[c] \in Nat
      BY <1>1, <1>2, FailoverAssumption DEF FailoverInv, AsksCounted, Typed, TypeOK, p
    <3>2. attempt'[c] = attempt[c] + 1 /\ Candidate(c)' = p /\ asked' = asked
      BY <1>1 DEF FailoverInv, Typed, TypeOK, Candidate, p
    <3> QED
      BY <3>1, <3>2
  <2>3. \A o \in Calls \ {c} : pc'[o] = pc[o] /\ Candidate(o)' = Candidate(o) /\ attempt'[o] = attempt[o]
    BY <1>1 DEF FailoverInv, Typed, TypeOK, Candidate
  <2>4. pc'[c] = "sleeping"
    BY <1>1 DEF FailoverInv, Typed, TypeOK
  <2> QED
    BY <1>1, <2>1, <2>2, <2>3, <2>4 DEF FailoverInv, AsksCounted
<1>8. NonePassedOver'
  BY <1>1, <1>3 DEF FailoverInv, NonePassedOver, UnderWay, Typed, TypeOK
<1> QED
  BY <1>5, <1>6, <1>7, <1>8 DEF FailoverInv

LEMMA AskAgainKeeps ==
  ASSUME FailoverInv, NEW c \in Calls, AskAgain(c)
  PROVE  FailoverInv'
<1> DEFINE p == Candidate(c)
<1>1. /\ pc[c] = "sleeping"
      /\ pc' = [pc EXCEPT ![c] = "asking"]
      /\ asked' = [asked EXCEPT ![p][c] = IF breaker[p] = "open" THEN @ + 1 ELSE @]
      /\ UNCHANGED <<failures, breaker, route, at, attempt, trips>>
  BY DEF AskAgain, healthVars
<1>2. p \in Providers /\ UnderWay(c)
  BY <1>1, CandidateTyped DEF FailoverInv, UnderWay
<1>3. /\ asked[p][c] < attempt[c] /\ asked[p][c] \in Nat
      /\ attempt[c] \in 0..(RetryAttempts - 1)
  BY <1>1, <1>2 DEF FailoverInv, AsksCounted, Typed, TypeOK
<1>4. \A o \in Calls : Candidate(o)' = Candidate(o)
  BY <1>1 DEF Candidate
<1> HIDE DEF p
<1>5. /\ asked' \in [Providers -> [Calls -> Nat]]
      /\ asked'[p][c] <= asked[p][c] + 1
      /\ breaker[p] # "open" => asked'[p][c] = asked[p][c]
      /\ \A q \in Providers, o \in Calls : q # p \/ o # c => asked'[q][o] = asked[q][o]
  BY <1>1, <1>2 DEF FailoverInv, Typed, TypeOK
<1>6. Typed'
  BY <1>1, <1>5 DEF FailoverInv, Typed, TypeOK
<1>7. CooldownKept'
  <2>0. asked'[p][c] \in Nat
    BY <1>2, <1>5
  <2>1. asked'[p][c] < RetryAttempts
    BY <1>2, <1>3, <1>5, <2>0, FailoverAssumption
  <2> QED
    BY <1>5, <2>1 DEF FailoverInv, CooldownKept
<1>8. AsksCounted'
  <2>1. \A q \in Providers, o \in Calls : breaker'[q] = "closed" => asked'[q][o] = 0
    BY <1>1, <1>5 DEF FailoverInv, AsksCounted
  <2>2. asked'[Candidate(c)'][c] <= attempt'[c] /\ pc'[c] = "asking"
    BY <1>1, <1>2, <1>3, <1>4, <1>5, FailoverAssumption DEF FailoverInv, Typed, TypeOK, p
  <2>3. ASSUME NEW o \in Calls \ {c}, UnderWay(o)
        PROVE  asked'[Candidate(o)'][o] = asked[Candidate(o)][o]
    BY <1>4, <1>5, <2>3, CandidateTyped DEF FailoverInv
  <2>4. \A o \in Calls \ {c} : pc'[o] = pc[o] /\ attempt'[o] = attempt[o]
    BY <1>1 DEF FailoverInv, Typed, TypeOK
  <2> QED
    BY <2>1, <2>2, <2>3, <2>4 DEF FailoverInv, AsksCounted, UnderWay
<1>9. NonePassedOver'
  BY <1>1, <1>2 DEF FailoverInv, NonePassedOver, UnderWay, Typed, TypeOK
<1> QED
  BY <1>6, <1>7, <1>8, <1>9 DEF FailoverInv

LEMMA CooldownOverKeeps ==
  ASSUME FailoverInv, NEW p \in Providers, CooldownOver(p)
  PROVE  FailoverInv'
<1>1. Typed'
  <2>1. /\ breaker' \in [Providers -> {"closed", "open", "elapsed"}]
        /\ \A q \in Providers : breaker'[q] = "closed" => breaker[q] = "closed"
        /\ trips' \in 0..MaxTrips
    BY FailoverAssumption DEF CooldownOver, FailoverInv, Typed, TypeOK
  <2>2. UNCHANGED <<failures, pc, route, at, attempt, asked>>
    BY DEF CooldownOver, callVars
  <2> QED
    BY <2>1, <2>2 DEF FailoverInv, Typed, TypeOK
<1>2. CooldownKept'
  BY DEF CooldownOver, FailoverInv, CooldownKept
<1>3. AsksCounted'
  BY DEF CooldownOver, callVars, FailoverInv, AsksCounted, Candidate, Typed, TypeOK
<1>4. NonePassedOver'
  BY FailoverAssumption DEF CooldownOver, callVars, FailoverInv, NonePassedOver, UnderWay, Typed, TypeOK
<1> QED
  BY <1>1, <1>2, <1>3, <1>4 DEF FailoverInv

LEMMA StutterKeeps ==
  ASSUME FailoverInv, UNCHANGED vars
  PROVE  FailoverInv'
BY DEF FailoverInv, Typed, TypeOK, CooldownKept, AsksCounted, NonePassedOver, UnderWay, Candidate,
       vars, healthVars, callVars

LEMMA FailoverStep ==
  ASSUME FailoverInv, [Next]_vars
  PROVE  FailoverInv'
<1>1. CASE \E c \in Calls : Begin(c)
  BY <1>1, BeginKeeps
<1>2. CASE \E c \in Calls : Answer(c)
  BY <1>2, AnswerKeeps
<1>3. CASE \E c \in Calls : Retry(c)
  BY <1>3, RetryKeeps
<1>4. CASE \E c \in Calls : AskAgain(c)
  BY <1>4, AskAgainKeeps
<1>5. CASE \E c \in Calls : FailOver(c)
  BY <1>5, FailOverKeeps
<1>6. CASE \E c \in Calls : Break(c)
  BY <1>6, BreakKeeps
<1>7. CASE \E p \in Providers : CooldownOver(p)
  BY <1>7, CooldownOverKeeps
<1>8. CASE UNCHANGED vars
  BY <1>8, StutterKeeps
<1> QED
  BY <1>1, <1>2, <1>3, <1>4, <1>5, <1>6, <1>7, <1>8 DEF Next, Proceed

-----------------------------------------------------------------------------

\* The types of the breakers and of the calls, whatever the providers answer.
THEOREM FailoverTypeCorrect == Spec => []TypeOK
<1>1. Init => FailoverInv
  BY FailoverInitially
<1>2. FailoverInv /\ [Next]_vars => FailoverInv'
  BY FailoverStep
<1>3. FailoverInv => TypeOK
  BY DEF FailoverInv, Typed
<1> QED
  BY <1>1, <1>2, <1>3, PTL DEF Spec

\* A tripped provider gets from each call only the retries it was due, however many
\* calls share the breaker and in whatever order they fail (ProviderHealth,
\* _complete_with_failover).
THEOREM CooldownsKept == Spec => []CooldownKept
<1>1. Init => FailoverInv
  BY FailoverInitially
<1>2. FailoverInv /\ [Next]_vars => FailoverInv'
  BY FailoverStep
<1>3. FailoverInv => CooldownKept
  BY DEF FailoverInv
<1> QED
  BY <1>1, <1>2, <1>3, PTL DEF Spec

\* A call under way ends in the error of exhausted candidates only if none of them is
\* a provider that answers.
GivesUpLast ==
  \A c \in Calls : UnderWay(c) /\ pc'[c] = "exhausted" => OnRoute(c) \cap Reliable = {}

\* The safety half of FailsOver ("raises ProviderError only when every candidate is
\* exhausted", _complete_with_failover), whatever other calls do to the breakers.
THEOREM ExhaustedOnlyLast == Spec => [][GivesUpLast]_vars
<1>1. Init => FailoverInv
  BY FailoverInitially
<1>2. FailoverInv /\ [Next]_vars => FailoverInv'
  BY FailoverStep
<1>3. FailoverInv /\ Next => GivesUpLast
  <2> SUFFICES ASSUME FailoverInv, Next, NEW c \in Calls, UnderWay(c), pc'[c] = "exhausted"
               PROVE  OnRoute(c) \cap Reliable = {}
    BY DEF GivesUpLast
  <2>1. pc \in [Calls -> {"idle", "asking", "sleeping"} \cup Ended]
    BY DEF FailoverInv, Typed, TypeOK
  <2>2. PICK d \in Calls : pc'[d] # pc[d] /\ d = c
    BY DEF UnderWay
  <2>3. \/ Begin(c) \/ Proceed(c) \/ Break(c)
    <3>1. ASSUME NEW o \in Calls, o # c, Begin(o) \/ Proceed(o) \/ Break(o) PROVE pc'[c] = pc[c]
      <4>1. \/ pc' = [pc EXCEPT ![o] = "asking"] \/ pc' = [pc EXCEPT ![o] = "sleeping"]
            \/ \E how \in Ended : pc' = [pc EXCEPT ![o] = how]
        BY <3>1 DEF Begin, Proceed, Answer, Retry, AskAgain, FailOver, Break, GoOn, Ask, End, Ended
      <4> QED
        BY <2>1, <3>1, <4>1
    <3>2. ASSUME NEW p \in Providers, CooldownOver(p) PROVE pc' = pc
      BY <3>2 DEF CooldownOver, callVars
    <3> QED
      BY <2>2, <3>1, <3>2 DEF Next
  <2>4. CASE FailOver(c)
    BY <2>4, FailOverKeeps
  <2>5. CASE Begin(c) \/ Answer(c) \/ Retry(c) \/ AskAgain(c) \/ Break(c)
    BY <2>1, <2>5 DEF Begin, Answer, Retry, AskAgain, Break, End, UnderWay, Ended
  <2> QED
    BY <2>3, <2>4, <2>5 DEF Proceed
<1> QED
  BY <1>1, <1>2, <1>3, PTL DEF Spec
=============================================================================
