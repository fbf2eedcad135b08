-------------------------- MODULE SwapiClientProofs --------------------------
(***************************************************************************)
(* Theorems about the SWAPI client, for any number of pages, results and     *)
(* retries.  IInv is preserved by every action; the four invariants of the    *)
(* runs follow from it, and so does the refinement of RecordStream.           *)
(***************************************************************************)
EXTENDS SwapiClient, FoldTheorems

\* The calls made for a page are finitely many.
LEMMA CallsAreFinite ==
    ASSUME TypeOK, NEW p
    PROVE  /\ DOMAIN log = 1 .. Len(log) /\ Len(log) \in Nat
           /\ IsFiniteSet(Calls(p)) /\ Cardinality(Calls(p)) \in Nat
           /\ IsFiniteSet(Failures(p)) /\ Cardinality(Failures(p)) \in Nat
<1>1. DOMAIN log = 1 .. Len(log) /\ Len(log) \in Nat
  BY DEF TypeOK
<1>2. IsFiniteSet(DOMAIN log)
  BY <1>1, FS_Interval
<1>3. Calls(p) \in SUBSET DOMAIN log /\ Failures(p) \in SUBSET DOMAIN log
  BY DEF Calls, Failures
<1>4. IsFiniteSet(Calls(p)) /\ IsFiniteSet(Failures(p))
  BY <1>2, <1>3, FS_Subset
<1>5. QED
  BY <1>1, <1>4, FS_CardinalityType

\* What one call adds to the history.
LEMMA CallIsNoted ==
    ASSUME TypeOK, NEW o \in Outcome, log' = Append(log, <<url, o>>), url' = url
    PROVE  /\ log' \in Seq((1 .. MaxPages) \X Outcome)
           /\ DOMAIN log' = DOMAIN log \cup {Len(log) + 1}
           /\ Len(log) + 1 \notin DOMAIN log
           /\ \A i \in DOMAIN log : i < Len(log) + 1 /\ log'[i] = log[i]
           /\ log'[Len(log) + 1] = <<url, o>>
           /\ \A p : p # url => Calls(p)' = Calls(p) /\ Failures(p)' = Failures(p)
           /\ Calls(url)' = Calls(url) \cup {Len(log) + 1}
           /\ Failures(url)' = IF o = "transient" THEN Failures(url) \cup {Len(log) + 1}
                                                  ELSE Failures(url)
<1>1. url \in 1 .. MaxPages /\ <<url, o>> \in (1 .. MaxPages) \X Outcome
  BY ClientAssumption DEF TypeOK
<1>2. log \in Seq((1 .. MaxPages) \X Outcome) /\ Len(log) \in Nat /\ DOMAIN log = 1 .. Len(log)
  BY DEF TypeOK
<1>3. /\ log' \in Seq((1 .. MaxPages) \X Outcome)
      /\ Len(log') = Len(log) + 1
      /\ \A i \in 1 .. Len(log) : log'[i] = log[i]
      /\ log'[Len(log) + 1] = <<url, o>>
  BY <1>1, <1>2, AppendProperties
<1>4. DOMAIN log' = 1 .. Len(log) + 1
  BY <1>2, <1>3
<1>5. /\ DOMAIN log' = DOMAIN log \cup {Len(log) + 1}
      /\ Len(log) + 1 \notin DOMAIN log
      /\ \A i \in DOMAIN log : i < Len(log) + 1 /\ log'[i] = log[i]
  BY <1>2, <1>3, <1>4
<1>6. ASSUME NEW p, p # url
      PROVE  Calls(p)' = Calls(p) /\ Failures(p)' = Failures(p)
  <2>1. Calls(p)' = Calls(p)
    BY <1>3, <1>5, <1>6 DEF Calls
  <2>2. QED
    BY <2>1, <1>5 DEF Failures, Calls
<1>7. Calls(url)' = Calls(url) \cup {Len(log) + 1}
  BY <1>3, <1>5 DEF Calls
<1>8. Failures(url)' = IF o = "transient" THEN Failures(url) \cup {Len(log) + 1}
                                          ELSE Failures(url)
  BY <1>3, <1>5, <1>7 DEF Failures, Calls
<1>9. QED
  BY <1>3, <1>5, <1>6, <1>7, <1>8

\* The state and the pages in the shape that the provers need.
LEMMA PagesOfType ==
    ASSUME TypeOK
    PROVE  /\ max_retries \in Nat /\ attempt \in Nat \ {0} /\ attempt <= max_retries + 1
           /\ slept \in Nat /\ taken \in 0 .. MaxResults /\ MaxResults \in Nat
           /\ Len(upstream) \in 1 .. MaxPages
           /\ DOMAIN upstream = 1 .. Len(upstream)
           /\ url \in 1 .. Len(upstream) /\ url \in 1 .. MaxPages
           /\ \A p \in DOMAIN upstream : upstream[p] \in 0 .. MaxResults
           /\ payload.results \in 0 .. MaxResults /\ payload.next \in {0} \cup DOMAIN upstream
<1>1. PICK n \in 1 .. MaxPages : upstream \in [1 .. n -> 0 .. MaxResults]
  BY DEF TypeOK
<1>2. n \in Nat /\ MaxPages \in Nat
  BY ClientAssumption
<1>3. Len(upstream) = n
  BY <1>1, <1>2
<1>4. payload.results \in 0 .. MaxResults /\ payload.next \in {0} \cup DOMAIN upstream
  BY DEF TypeOK, Payload
<1>5. QED
  BY <1>1, <1>2, <1>3, <1>4, ClientAssumption DEF TypeOK

-----------------------------------------------------------------------------
\* Every step keeps the types.
LEMMA TypeStep ==
    ASSUME TypeOK, [Next]_vars
    PROVE  TypeOK'
<1>1. /\ max_retries \in Nat /\ attempt \in Nat \ {0} /\ attempt <= max_retries + 1
      /\ slept \in Nat /\ taken \in 0 .. MaxResults /\ MaxResults \in Nat
      /\ DOMAIN upstream = 1 .. Len(upstream)
      /\ url \in 1 .. Len(upstream) /\ url \in 1 .. MaxPages
      /\ upstream[url] \in 0 .. MaxResults
      /\ payload.results \in 0 .. MaxResults /\ payload.next \in {0} \cup DOMAIN upstream
  BY PagesOfType
<1>2. ASSUME NEW o \in Outcome, Call(o)
      PROVE  TypeOK'
  <2>1. log' \in Seq((1 .. MaxPages) \X Outcome)
    BY <1>2, CallIsNoted DEF Call
  <2>2. at' \in {"get", "yield"} \cup Ended
    BY <1>2 DEF Call, Verdict, Ended
  <2>3. Backoff * attempt \in Nat
    BY <1>1, ClientAssumption
  <2>4. attempt' \in 1 .. max_retries + 1 /\ slept' \in Nat
    <3>1. CASE at' = "get"
      <4>1. /\ attempt <= max_retries /\ attempt' = attempt + 1
            /\ slept' = IF attempt < max_retries THEN slept + Backoff * attempt ELSE slept
        BY <1>2, <3>1 DEF Call, MayCall, Sleep
      <4>2. QED
        BY <1>1, <2>3, <4>1
    <3>2. CASE at' # "get"
      BY <1>1, <1>2, <3>2 DEF Call
    <3>3. QED
      BY <3>1, <3>2
  <2>5. UNCHANGED <<max_retries, upstream, url, taken, yielded>>
    BY <1>2 DEF Call
  <2>6. payload' \in Payload
    <3>1. Read(o) \in Payload
      BY <1>1 DEF Read, Following, Payload
    <3>2. payload \in Payload
      BY DEF TypeOK
    <3>3. QED
      BY <1>2, <3>1, <3>2 DEF Call
  <2>7. QED
    BY <2>1, <2>2, <2>4, <2>5, <2>6 DEF TypeOK, Payload
<1>3. CASE GiveUp
  BY <1>3 DEF GiveUp, TypeOK, Payload, Ended
<1>4. CASE YieldResult
  <2>1. /\ taken' \in 1 .. MaxResults
        /\ UNCHANGED <<max_retries, upstream, url, payload, attempt, at, slept, log>>
    BY <1>1, <1>4 DEF YieldResult
  <2>2. <<url, taken'>> \in (1 .. MaxPages) \X (1 .. MaxResults)
    BY <1>1, <2>1
  <2>3. yielded' \in Seq((1 .. MaxPages) \X (1 .. MaxResults))
    BY <1>4, <2>2, AppendProperties DEF YieldResult, TypeOK
  <2>4. QED
    BY <1>1, <2>1, <2>3 DEF TypeOK, Payload
<1>5. CASE NextUrl
  <2>1. /\ taken' = 0
        /\ UNCHANGED <<max_retries, upstream, payload, yielded, slept, log>>
        /\ at' \in {"get", "exhausted"}
    BY <1>5 DEF NextUrl
  <2>2. url' \in DOMAIN upstream /\ attempt' \in 1 .. max_retries + 1
    BY <1>1, <1>5 DEF NextUrl
  <2>3. QED
    BY <1>1, <2>1, <2>2 DEF TypeOK, Payload, Ended
<1>6. CASE UNCHANGED vars
  BY <1>6 DEF vars, TypeOK, Payload
<1>7. QED
  BY <1>2, <1>3, <1>4, <1>5, <1>6 DEF Next

-----------------------------------------------------------------------------
\* No action but Call touches the history.
LEMMA HistoryUnchanged ==
    ASSUME UNCHANGED log
    PROVE  \A p : Calls(p)' = Calls(p) /\ Failures(p)' = Failures(p)
BY DEF Calls, Failures

\* Every step keeps the calls in order: the discipline of the retries and the
\* account of the calls that the current page has had.
LEMMA CallsStep ==
    ASSUME TypeOK, RetryDiscipline, CallsAccounted, InStep, [Next]_vars
    PROVE  RetryDiscipline' /\ CallsAccounted'
<1> max_retries \in Nat /\ attempt \in Nat \ {0} /\ attempt <= max_retries + 1 /\ url \in Nat
  BY PagesOfType
<1>1. ASSUME NEW o \in Outcome, Call(o)
      PROVE  RetryDiscipline' /\ CallsAccounted'
  <2> DEFINE n == Len(log) + 1
  <2>1. /\ at = "get" /\ attempt <= max_retries
        /\ UNCHANGED <<max_retries, upstream, url>>
        /\ at' = Verdict(o)
        /\ at' = "get" => attempt' = attempt + 1
    BY <1>1 DEF Call, MayCall
  <2>2. /\ DOMAIN log' = DOMAIN log \cup {n} /\ n \notin DOMAIN log
        /\ \A i \in DOMAIN log : i < n /\ log'[i] = log[i]
        /\ log'[n] = <<url, o>>
        /\ \A p : p # url => Calls(p)' = Calls(p) /\ Failures(p)' = Failures(p)
        /\ Calls(url)' = Calls(url) \cup {n}
        /\ Failures(url)' = IF o = "transient" THEN Failures(url) \cup {n} ELSE Failures(url)
    BY <1>1, CallIsNoted DEF Call
  <2>3. /\ IsFiniteSet(Calls(url)) /\ Calls(url) \subseteq DOMAIN log
        /\ Failures(url) = Calls(url)
        /\ Cardinality(Calls(url)) = attempt - 1
    BY <2>1, CallsAreFinite DEF CallsAccounted, Calls
  <2>4. n \in Nat /\ \A i \in Calls(url) : i \in Nat /\ i < n
    BY <2>2, <2>3, CallsAreFinite
  <2> HIDE DEF n
  <2>5. Cardinality(Calls(url) \cup {n}) = attempt
    <3>1. n \notin Calls(url)
      BY <2>2, <2>3
    <3>2. Cardinality(Calls(url) \cup {n}) = (attempt - 1) + 1
      BY <2>3, <3>1, FS_AddElement
    <3>3. QED
      BY <3>2
  <2>6. RetryDiscipline'
    <3> SUFFICES ASSUME NEW p \in DOMAIN upstream
                 PROVE  /\ Cardinality(Calls(p)') <= max_retries
                        /\ \A i, j \in Calls(p)' : i < j => i \in Failures(p)'
      BY <2>1 DEF RetryDiscipline
    <3>1. CASE p # url
      BY <2>2, <3>1 DEF RetryDiscipline
    <3>2. CASE p = url
      <4>1. Cardinality(Calls(p)') <= max_retries
        BY <2>1, <2>2, <2>5, <3>2
      <4>2. ASSUME NEW i \in Calls(p)', NEW j \in Calls(p)', i < j
            PROVE  i \in Failures(p)'
        <5>1. i # n
          BY <2>1, <2>2, <2>4, <3>2, <4>2
        <5>2. i \in Failures(url)
          BY <2>1, <2>2, <2>3, <3>2, <4>2, <5>1
        <5>3. QED
          BY <2>1, <2>2, <3>2, <5>2
      <4>3. QED
        BY <4>1, <4>2
    <3>3. QED
      BY <3>1, <3>2
  <2>7. CallsAccounted'
    <3>1. \A i \in DOMAIN log' : log'[i][1] <= url'
      BY <2>1, <2>2 DEF CallsAccounted
    <3>2. CASE o = "transient"
      <4>1. at' = "get" /\ Failures(url)' = Calls(url)' /\ Cardinality(Calls(url)') = attempt' - 1
        BY <2>1, <2>2, <2>3, <2>5, <3>2 DEF Verdict, Keyless
      <4>2. QED
        BY <2>1, <3>1, <4>1 DEF CallsAccounted
    <3>3. CASE o # "transient"
      <4>1. at' \notin {"get", "ServiceUnavailableError"}
        BY <2>1, <3>3 DEF Verdict, Outcome, Keyless
      <4>2. Failures(url)' # Calls(url)'
        BY <2>2, <2>3, <3>3
      <4>3. QED
        BY <2>1, <3>1, <4>1, <4>2 DEF CallsAccounted
    <3>4. QED
      BY <3>2, <3>3
  <2>8. QED
    BY <2>6, <2>7
<1>2. CASE GiveUp
  <2>1. /\ at = "get" /\ attempt = max_retries + 1
        /\ at' = "ServiceUnavailableError"
        /\ UNCHANGED <<max_retries, upstream, url, attempt, log>>
    BY <1>2 DEF GiveUp, MayCall
  <2>2. \A p : Calls(p)' = Calls(p) /\ Failures(p)' = Failures(p)
    BY <2>1, HistoryUnchanged
  <2>3. QED
    BY <2>1, <2>2 DEF RetryDiscipline, CallsAccounted
<1>3. CASE YieldResult
  <2>1. UNCHANGED <<max_retries, upstream, url, attempt, at, log>>
    BY <1>3 DEF YieldResult
  <2>2. \A p : Calls(p)' = Calls(p) /\ Failures(p)' = Failures(p)
    BY <2>1, HistoryUnchanged
  <2>3. QED
    BY <2>1, <2>2 DEF RetryDiscipline, CallsAccounted
<1>4. CASE NextUrl
  <2>1. at = "yield" /\ UNCHANGED <<max_retries, upstream, log>>
    BY <1>4 DEF NextUrl
  <2>2. \A p : Calls(p)' = Calls(p) /\ Failures(p)' = Failures(p)
    BY <2>1, HistoryUnchanged
  <2>3. RetryDiscipline'
    BY <2>1, <2>2 DEF RetryDiscipline
  <2>4. CASE at' = "get"
    <3>1. url' = url + 1 /\ attempt' = 1
      BY <1>4, <2>4 DEF NextUrl, InStep, Following
    <3>2. Calls(url + 1) = {}
      BY DEF Calls, CallsAccounted, TypeOK
    <3>3. Calls(url)' = {} /\ Failures(url)' = {}
      BY <2>1, <3>1, <3>2 DEF Calls, Failures
    <3>4. \A i \in DOMAIN log' : log'[i][1] <= url'
      BY <2>1, <3>1 DEF CallsAccounted, TypeOK
    <3>5. Cardinality(Calls(url)') = attempt' - 1
      BY <3>1, <3>3, FS_EmptySet
    <3>6. QED
      BY <2>3, <2>4, <3>3, <3>4, <3>5 DEF CallsAccounted
  <2>5. CASE at' # "get"
    <3>1. url' = url /\ at' = "exhausted"
      BY <1>4, <2>5 DEF NextUrl
    <3>2. QED
      BY <2>1, <2>2, <2>3, <3>1 DEF CallsAccounted
  <2>6. QED
    BY <2>4, <2>5
<1>5. CASE UNCHANGED vars
  <2>1. UNCHANGED <<max_retries, upstream, url, attempt, at, log>>
    BY <1>5 DEF vars
  <2>2. \A p : Calls(p)' = Calls(p) /\ Failures(p)' = Failures(p)
    BY <2>1, HistoryUnchanged
  <2>3. QED
    BY <2>1, <2>2 DEF RetryDiscipline, CallsAccounted
<1>6. QED
  BY <1>1, <1>2, <1>3, <1>4, <1>5 DEF Next

-----------------------------------------------------------------------------
(***************************************************************************)
(* The pauses, as a sum that can be reasoned about term by term.            *)
(***************************************************************************)
Pauses == [p \in DOMAIN upstream |->
              LET n == Cardinality(Failures(p))
              IN  Triangle(IF n < max_retries THEN n ELSE n - 1)]

\* The property that the runs check, with its sum in the shape of FoldTheorems.
PausesAddUp ==
    IsFiniteSet(DOMAIN upstream) =>
        \E it : /\ IsSum(it, Pauses, DOMAIN upstream)
                /\ BackoffIsLinear <=> slept = Backoff * it[DOMAIN upstream]

\* MapThenSumSet is such a sum.
LEMMA PauseSum == PausesAddUp
<1> DEFINE S == DOMAIN upstream
           Body(g) == [s \in SUBSET S |->
                          IF s = {} THEN 0
                          ELSE (LET n == Cardinality(Failures(Pick(s)))
                                IN  Triangle(IF n < max_retries THEN n ELSE n - 1))
                               + g[s \ {Pick(s)}]]
           it == CHOOSE g : g = Body(g)
<1> SUFFICES ASSUME IsFiniteSet(S)
             PROVE  /\ IsSum(it, Pauses, S)
                    /\ BackoffIsLinear <=> slept = Backoff * it[S]
  BY DEF PausesAddUp
<1>1. PICK h : IsSum(h, Pauses, S)
  BY SumExists
<1>2. h = Body(h)
  BY <1>1, PickIn DEF IsSum, Pauses
<1> HIDE DEF Body
<1>3. it = Body(it)
  BY <1>2
<1> USE DEF Body
<1>4. IsSum(it, Pauses, S)
  BY <1>3, PickIn DEF IsSum, Pauses
<1>5. BackoffIsLinear <=> slept = Backoff * it[S]
  BY DEF MapThenSumSet, MapThenFoldSet, Pick, BackoffIsLinear
<1>6. QED
  BY <1>4, <1>5

\* The pauses after n failures are a whole number of backoffs.
LEMMA TriangleType ==
    ASSUME NEW n \in Int
    PROVE  Triangle(n) \in Int
BY DEF Triangle

\* The n-th failure adds a pause of n backoffs.
LEMMA TriangleGrows ==
    ASSUME NEW n \in Nat \ {0}
    PROVE  Triangle(n) = Triangle(n - 1) + n
<1>1. PICK k \in Int : k = (n - 1) * n
  OBVIOUS
<1>2. n * (n + 1) = k + 2 * n /\ (n - 1) * ((n - 1) + 1) = k
  BY <1>1
<1>3. (k + 2 * n) \div 2 = (k \div 2) + n
  OBVIOUS
<1>4. QED
  BY <1>2, <1>3 DEF Triangle

\* Every step keeps the pauses linear: a call that fails and is not the last adds
\* to one term what the client sleeps.
LEMMA BackoffStep ==
    ASSUME TypeOK, TypeOK', CallsAccounted, BackoffIsLinear, [Next]_vars
    PROVE  BackoffIsLinear'
<1>1. /\ IsFiniteSet(DOMAIN upstream) /\ url \in DOMAIN upstream
      /\ max_retries \in Nat /\ attempt \in Nat \ {0} /\ slept \in Nat
  BY PagesOfType, FS_Interval
<1>2. UNCHANGED <<max_retries, upstream>>
  BY DEF Next, Call, GiveUp, YieldResult, NextUrl, vars
<1>3. Pauses \in [DOMAIN upstream -> Int]
  <2> SUFFICES ASSUME NEW p \in DOMAIN upstream
               PROVE  Triangle(IF Cardinality(Failures(p)) < max_retries
                               THEN Cardinality(Failures(p))
                               ELSE Cardinality(Failures(p)) - 1) \in Int
    BY DEF Pauses
  <2>1. Cardinality(Failures(p)) \in Nat
    BY CallsAreFinite
  <2>2. QED
    BY <2>1, TriangleType
<1>4. PICK F : IsSum(F, Pauses, DOMAIN upstream) /\ slept = Backoff * F[DOMAIN upstream]
  BY <1>1, PauseSum DEF PausesAddUp
<1>5. PausesAddUp'
  BY PauseSum, PTL
<1>6. PICK G : /\ IsSum(G, Pauses', DOMAIN upstream)
               /\ BackoffIsLinear' <=> slept' = Backoff * G[DOMAIN upstream]
  BY <1>1, <1>2, <1>5 DEF PausesAddUp
<1>7. F[DOMAIN upstream] \in Int /\ Backoff \in Nat
  BY <1>1, <1>3, <1>4, SumType, ClientAssumption
<1>8. ASSUME Pauses' = Pauses, slept' = slept
      PROVE  BackoffIsLinear'
  <2>1. G[DOMAIN upstream] = F[DOMAIN upstream]
    BY <1>1, <1>4, <1>6, <1>8, SumPart
  <2>2. QED
    BY <1>4, <1>6, <1>8, <2>1
<1>9. ASSUME NEW o \in Outcome, Call(o)
      PROVE  BackoffIsLinear'
  <2>1. /\ at = "get" /\ attempt <= max_retries
        /\ url' = url /\ log' = Append(log, <<url, o>>)
        /\ at' = Verdict(o)
    BY <1>9 DEF Call, MayCall
  <2>2. \A p \in DOMAIN upstream : p # url => Pauses'[p] = Pauses[p]
    BY <1>2, <2>1, CallIsNoted DEF Pauses
  <2>3. CASE o # "transient"
    <3>1. Failures(url)' = Failures(url)
      BY <2>1, <2>3, CallIsNoted
    <3>2. Pauses' = Pauses
      BY <1>2, <2>1, <2>2, <3>1 DEF Pauses
    <3>3. slept' = slept
      BY <1>9, <2>1, <2>3 DEF Call, Verdict, Outcome, Keyless
    <3>4. QED
      BY <1>8, <3>2, <3>3
  <2>4. CASE o = "transient"
    <3> DEFINE more == IF attempt < max_retries THEN attempt ELSE 0
    <3>1. Cardinality(Failures(url)) = attempt - 1
      BY <2>1 DEF CallsAccounted
    <3>2. Cardinality(Failures(url)') = attempt
      <4>1. Failures(url)' = Failures(url) \cup {Len(log) + 1}
        BY <2>1, <2>4, CallIsNoted
      <4>2. Len(log) + 1 \notin Failures(url)
        BY <2>1, CallIsNoted DEF Failures, Calls
      <4>3. Cardinality(Failures(url) \cup {Len(log) + 1}) = (attempt - 1) + 1
        BY <3>1, <4>2, CallsAreFinite, FS_AddElement
      <4>4. QED
        BY <1>1, <4>1, <4>3
    <3>3. Pauses[url] = Triangle(attempt - 1)
      BY <1>1, <2>1, <3>1 DEF Pauses
    <3>4. Pauses'[url] = Triangle(IF attempt < max_retries THEN attempt ELSE attempt - 1)
      BY <1>1, <1>2, <2>1, <3>2 DEF Pauses
    <3>5. Pauses'[url] - Pauses[url] = more
      <4>1. Triangle(attempt) = Triangle(attempt - 1) + attempt /\ Triangle(attempt - 1) \in Int
        BY <1>1, TriangleGrows, TriangleType
      <4>2. QED
        BY <1>1, <3>3, <3>4, <4>1
    <3>6. Pauses' \in [DOMAIN upstream -> Int]
      <4>1. Pauses'[url] \in Int
        BY <1>1, <3>4, TriangleType
      <4>2. \A p \in DOMAIN upstream : Pauses'[p] \in Int
        BY <1>3, <2>2, <4>1
      <4>3. QED
        BY <1>2, <4>2 DEF Pauses
    <3>7. G[DOMAIN upstream] = F[DOMAIN upstream] + more
      <4>1. G[DOMAIN upstream] = F[DOMAIN upstream] + (Pauses'[url] - Pauses[url])
        BY <1>1, <1>3, <1>4, <1>6, <2>2, <3>6, SumUpdate
      <4>2. QED
        BY <3>5, <4>1
    <3>8. slept' = slept + Backoff * more
      <4>1. slept' = IF attempt < max_retries THEN slept + Backoff * attempt ELSE slept
        BY <1>9, <2>1, <2>4 DEF Call, Verdict, Sleep, Keyless
      <4>2. QED
        BY <1>1, <1>7, <4>1
    <3>9. QED
      <4>1. more \in Int
        BY <1>1
      <4> HIDE DEF more
      <4>2. Backoff * (F[DOMAIN upstream] + more) = Backoff * F[DOMAIN upstream] + Backoff * more
        BY <1>7, <4>1
      <4>3. QED
        BY <1>4, <1>6, <3>7, <3>8, <4>2
  <2>5. QED
    BY <2>3, <2>4
<1>10. CASE UNCHANGED <<log, slept>>
  <2>1. \A p : Failures(p)' = Failures(p)
    BY <1>10, HistoryUnchanged
  <2>2. Pauses' = Pauses
    BY <1>2, <2>1 DEF Pauses
  <2>3. QED
    BY <1>8, <1>10, <2>2
<1>11. QED
  BY <1>9, <1>10 DEF Next, GiveUp, YieldResult, NextUrl, vars

-----------------------------------------------------------------------------
(***************************************************************************)
(* The stream.                                                             *)
(***************************************************************************)
Result == (1 .. MaxPages) \X (1 .. MaxResults)

\* The pages are sequences of results.
LEMMA PagesType ==
    ASSUME TypeOK
    PROVE  /\ Pages \in Seq(Seq(Result))
           /\ Len(Pages) = Len(upstream)
           /\ \A p \in DOMAIN upstream :
                 /\ Pages[p] \in Seq(Result)
                 /\ Len(Pages[p]) = upstream[p]
                 /\ \A i \in 1 .. upstream[p] : Pages[p][i] = <<p, i>>
<1>1. /\ Len(upstream) \in Nat /\ DOMAIN upstream = 1 .. Len(upstream)
      /\ Len(upstream) <= MaxPages /\ MaxPages \in Nat /\ MaxResults \in Nat
      /\ \A p \in DOMAIN upstream : upstream[p] \in 0 .. MaxResults
  BY PagesOfType, ClientAssumption
<1>2. ASSUME NEW p \in DOMAIN upstream
      PROVE  /\ Pages[p] \in Seq(Result)
             /\ Len(Pages[p]) = upstream[p]
             /\ \A i \in 1 .. upstream[p] : Pages[p][i] = <<p, i>>
  <2>1. Pages[p] = [i \in 1 .. upstream[p] |-> <<p, i>>]
    BY DEF Pages
  <2>2. upstream[p] \in Nat /\ \A i \in 1 .. upstream[p] : <<p, i>> \in Result
    BY <1>1 DEF Result
  <2>3. QED
    BY <2>1, <2>2
<1>3. Pages = [p \in 1 .. Len(upstream) |-> Pages[p]]
  BY <1>1 DEF Pages
<1>4. Pages \in Seq(Seq(Result)) /\ Len(Pages) = Len(upstream)
  BY <1>1, <1>2, <1>3
<1>5. QED
  BY <1>2, <1>4

\* The records from page p on are those of the page and those from the next.
LEMMA RestUnfolds ==
    ASSUME TypeOK, NEW p \in DOMAIN upstream
    PROVE  /\ Rest(p) \in Seq(Result) /\ Rest(Following(p)) \in Seq(Result)
           /\ Rest(p) = Pages[p] \o Rest(Following(p))
           /\ Rest(0) = << >>
           /\ Rest(1) = Records /\ Records \in Seq(Result)
<1>1. /\ Len(upstream) \in Nat \ {0} /\ DOMAIN upstream = 1 .. Len(upstream) /\ p \in Nat
      /\ Pages \in Seq(Seq(Result)) /\ Len(Pages) = Len(upstream)
  BY PagesOfType, PagesType
<1>2. ASSUME NEW q \in DOMAIN upstream
      PROVE  /\ Rest(q) \in Seq(Result) /\ Rest(Following(q)) \in Seq(Result)
             /\ Rest(q) = Pages[q] \o Rest(Following(q))
  <2>1. q \in 1 .. Len(Pages) /\ Len(Pages) \in q .. Len(Pages) /\ q \in Nat
    BY <1>1
  <2>2. /\ SubSeq(Pages, q, Len(Pages)) \in Seq(Seq(Result))
        /\ Len(SubSeq(Pages, q, Len(Pages))) = Len(Pages) - q + 1
    <3>1. \A i \in q .. Len(Pages) : Pages[i] \in Seq(Result)
      BY <1>1, <2>1, ElementOfSeq
    <3>2. QED
      BY <2>1, <3>1, SubSeqProperties
  <2>3. PICK s \in Seq(Seq(Result)) : s = SubSeq(Pages, q, Len(Pages))
    BY <2>2
  <2>4. s # << >> /\ s[1] = Pages[q] /\ Tail(s) = SubSeq(Pages, q + 1, Len(Pages))
    <3>1. s # << >>
      BY <2>1, <2>2, <2>3, EmptySeq
    <3>2. /\ Head(SubSeq(Pages, q, Len(Pages))) = Pages[q]
          /\ Tail(SubSeq(Pages, q, Len(Pages))) = SubSeq(Pages, q + 1, Len(Pages))
      BY <1>1, <2>1, HeadTailOfSubSeq
    <3>3. s[1] = Head(s)
      OBVIOUS
    <3>4. QED
      BY <2>3, <3>1, <3>2, <3>3
  <2>5. FlattenSeq(Tail(s)) \in Seq(Result) /\ FlattenSeq(s) = s[1] \o FlattenSeq(Tail(s))
    BY <2>4, FlattenHead
  <2>6. Rest(Following(q)) = FlattenSeq(Tail(s))
    <3>1. CASE q + 1 \in DOMAIN upstream
      <4>1. Following(q) = q + 1 /\ q + 1 # 0
        BY <2>1, <3>1 DEF Following
      <4>2. Rest(q + 1) = FlattenSeq(SubSeq(Pages, q + 1, Len(Pages)))
        BY <4>1 DEF Rest
      <4>3. QED
        BY <2>4, <4>1, <4>2
    <3>2. CASE q + 1 \notin DOMAIN upstream
      <4>1. SubSeq(Pages, q + 1, Len(Pages)) = << >>
        BY <1>1, <2>1, <3>2, SubSeqEmpty
      <4>2. FlattenSeq(<< >>) = << >>
        BY EmptySeq DEF FlattenSeq
      <4>3. QED
        BY <2>4, <3>2, <4>1, <4>2 DEF Rest, Following
    <3>3. QED
      BY <3>1, <3>2
  <2>7. Rest(q) = FlattenSeq(s)
    BY <2>1, <2>3 DEF Rest
  <2>8. Pages[q] \in Seq(Result)
    BY <1>1, <2>1, ElementOfSeq
  <2>9. Pages[q] \o Rest(Following(q)) \in Seq(Result)
    BY <2>5, <2>6, <2>8, ConcatProperties
  <2>10. QED
    BY <2>4, <2>5, <2>6, <2>7, <2>9
<1>3. Rest(0) = << >>
  BY DEF Rest
<1>4. Rest(1) = Records
  <2>1. Rest(1) = FlattenSeq(SubSeq(Pages, 1, Len(Pages)))
    BY DEF Rest
  <2>2. SubSeq(Pages, 1, Len(Pages)) = Pages
    BY <1>1, SubSeqFull
  <2>3. QED
    BY <2>1, <2>2 DEF Records
<1>5. 1 \in DOMAIN upstream
  BY <1>1
<1>6. Rest(1) \in Seq(Result)
  BY <1>2, <1>5
<1>7. QED
  BY <1>2, <1>3, <1>4, <1>6

\* What is owed once the next page, if any, is known.
LEMMA OwedWhileYielding ==
    ASSUME TypeOK, InStep, at = "yield"
    PROVE  /\ SubSeq(Pages[url], taken + 1, payload.results) \in Seq(Result)
           /\ Rest(payload.next) \in Seq(Result)
           /\ Owed = SubSeq(Pages[url], taken + 1, payload.results) \o Rest(payload.next)
           /\ taken < payload.results =>
                 /\ SubSeq(Pages[url], taken + 1, payload.results) # << >>
                 /\ Head(SubSeq(Pages[url], taken + 1, payload.results)) = <<url, taken + 1>>
                 /\ Tail(SubSeq(Pages[url], taken + 1, payload.results))
                       = SubSeq(Pages[url], (taken + 1) + 1, payload.results)
           /\ taken = payload.results =>
                 SubSeq(Pages[url], taken + 1, payload.results) = << >>
<1>1. /\ url \in DOMAIN upstream /\ upstream[url] \in Nat
      /\ taken \in 0 .. payload.results /\ payload.results \in 0 .. upstream[url]
      /\ payload.next \in {0, Following(url)}
      /\ Pages[url] \in Seq(Result) /\ Len(Pages[url]) = upstream[url]
      /\ \A i \in 1 .. upstream[url] : Pages[url][i] = <<url, i>>
  <2>1. /\ url \in DOMAIN upstream /\ upstream[url] \in Nat
        /\ taken \in Nat /\ payload.results \in Nat
    BY PagesOfType
  <2>2. /\ taken <= payload.results
        /\ payload.results \in {0, upstream[url]}
        /\ payload.next \in {0, Following(url)}
    BY DEF InStep
  <2>3. /\ Pages[url] \in Seq(Result) /\ Len(Pages[url]) = upstream[url]
        /\ \A i \in 1 .. upstream[url] : Pages[url][i] = <<url, i>>
    BY <2>1, PagesType
  <2>4. QED
    BY <2>1, <2>2, <2>3
<1>2. SubSeq(Pages[url], taken + 1, payload.results) \in Seq(Result)
  <2>1. \A i \in taken + 1 .. payload.results : Pages[url][i] \in Result
    BY <1>1, ElementOfSeq
  <2>2. QED
    BY <1>1, <2>1, SubSeqProperties
<1>3. Rest(payload.next) \in Seq(Result)
  <2>1. Rest(0) \in Seq(Result) /\ Rest(Following(url)) \in Seq(Result)
    BY <1>1, RestUnfolds, EmptySeq
  <2>2. QED
    BY <1>1, <2>1
<1>4. ASSUME taken < payload.results
      PROVE  /\ SubSeq(Pages[url], taken + 1, payload.results) # << >>
             /\ Head(SubSeq(Pages[url], taken + 1, payload.results)) = <<url, taken + 1>>
             /\ Tail(SubSeq(Pages[url], taken + 1, payload.results))
                   = SubSeq(Pages[url], (taken + 1) + 1, payload.results)
  <2>1. taken + 1 \in 1 .. Len(Pages[url]) /\ payload.results \in taken + 1 .. Len(Pages[url])
    BY <1>1, <1>4
  <2>2. \A i \in taken + 1 .. payload.results : Pages[url][i] \in Result
    BY <1>1, ElementOfSeq
  <2>3. Len(SubSeq(Pages[url], taken + 1, payload.results)) = payload.results - (taken + 1) + 1
    BY <1>1, <1>4, <2>2, SubSeqProperties
  <2>4. Len(SubSeq(Pages[url], taken + 1, payload.results)) > 0
    BY <1>1, <1>4, <2>3
  <2>5. /\ Head(SubSeq(Pages[url], taken + 1, payload.results)) = Pages[url][taken + 1]
        /\ Tail(SubSeq(Pages[url], taken + 1, payload.results))
              = SubSeq(Pages[url], (taken + 1) + 1, payload.results)
    BY <1>1, <2>1, HeadTailOfSubSeq
  <2>6. Pages[url][taken + 1] = <<url, taken + 1>>
    BY <1>1, <2>1
  <2>7. SubSeq(Pages[url], taken + 1, payload.results) # << >>
    <3>1. PICK s : s = SubSeq(Pages[url], taken + 1, payload.results)
      OBVIOUS
    <3>2. Len(s) > 0
      BY <2>4, <3>1
    <3>3. s # << >>
      BY <3>2
    <3>4. QED
      BY <3>1, <3>3
  <2>8. QED
    BY <2>5, <2>6, <2>7
<1>5. taken = payload.results => SubSeq(Pages[url], taken + 1, payload.results) = << >>
  BY <1>1, SubSeqEmpty
<1>6. QED
  BY <1>2, <1>3, <1>4, <1>5 DEF Owed

LEMMA OwedType ==
    ASSUME TypeOK, InStep
    PROVE  Owed \in Seq(Result)
<1>1. CASE at = "yield"
  BY <1>1, OwedWhileYielding, ConcatProperties
<1>2. CASE at # "yield"
  <2>1. Rest(url) \in Seq(Result)
    BY RestUnfolds DEF TypeOK
  <2>2. QED
    BY <1>2, <2>1, EmptySeq DEF Owed
<1>3. QED
  BY <1>1, <1>2

\* The resource is what it was.
LEMMA SameResource ==
    ASSUME UNCHANGED upstream
    PROVE  /\ UNCHANGED <<Pages, Records>>
           /\ \A p : Rest(p)' = Rest(p) /\ Following(p)' = Following(p)
           /\ Owed' = CASE at' = "yield" ->
                            SubSeq(Pages[url'], taken' + 1, payload'.results) \o Rest(payload'.next)
                       [] at' = "exhausted" -> << >>
                       [] OTHER -> Rest(url')
BY DEF Pages, Records, Rest, Following, Owed

-----------------------------------------------------------------------------
(***************************************************************************)
(* What each action does to the records that are owed.                      *)
(***************************************************************************)
Kept == Owed' = Owed /\ Lapses' = Lapses

\* As Lapse of RecordStream.
Lapsed ==
    /\ Lapses' = Lapses \cup {Len(log) + 1}
    /\ \E first \in 1 .. Len(Owed) + 1, last \in 0 .. Len(Owed) :
          Owed' = SubSeq(Owed, first, last)

\* The history of lapses.
LEMMA LapseIsNoted ==
    ASSUME TypeOK, NEW o \in Outcome, Call(o)
    PROVE  /\ Lapses' = IF o \in Keyless THEN Lapses \cup {Len(log) + 1} ELSE Lapses
           /\ Len(log) + 1 \notin Lapses
<1>1. /\ DOMAIN log' = DOMAIN log \cup {Len(log) + 1}
      /\ Len(log) + 1 \notin DOMAIN log
      /\ \A i \in DOMAIN log : log'[i] = log[i]
      /\ log'[Len(log) + 1] = <<url, o>>
  BY CallIsNoted DEF Call
<1>2. QED
  BY <1>1 DEF Lapses

LEMMA LapsesAreFinite ==
    ASSUME TypeOK
    PROVE  IsFiniteSet(Lapses) /\ Cardinality(Lapses) \in Nat
<1>1. IsFiniteSet(DOMAIN log)
  BY CallsAreFinite, FS_Interval
<1>2. Lapses \in SUBSET DOMAIN log
  BY DEF Lapses
<1>3. QED
  BY <1>1, <1>2, FS_Subset, FS_CardinalityType

\* An answer with both keys, or none at all, leaves what is owed alone; one that
\* lacks a key drops this page, the later ones, or both.
LEMMA CallOwes ==
    ASSUME TypeOK, InStep, NEW o \in Outcome, Call(o)
    PROVE  IF o \in Keyless THEN Lapsed ELSE Kept
<1>1. /\ at = "get" /\ at' = Verdict(o) /\ taken = 0 /\ taken' = 0 /\ url' = url
      /\ UNCHANGED upstream
      /\ at' = "yield" => payload' = Read(o)
      /\ url \in DOMAIN upstream
  BY DEF Call, InStep, TypeOK
<1>2. PICK page \in Seq(Result) : page = Pages[url] /\ Len(page) = upstream[url]
  BY <1>1, PagesType
<1>3. PICK more \in Seq(Result) : more = Rest(Following(url))
  BY <1>1, RestUnfolds
<1>4. Owed = page \o more /\ Rest(0) = << >> /\ Rest(url) = page \o more
  BY <1>1, <1>2, <1>3, RestUnfolds DEF Owed
<1>5. /\ SubSeq(page, 1, Len(page)) = page /\ SubSeq(page, 1, 0) = << >>
      /\ page \o << >> = page /\ << >> \o more = more /\ << >> \o << >> = << >>
      /\ Len(page) \in Nat /\ Len(more) \in Nat /\ Len(page \o more) = Len(page) + Len(more)
      /\ SubSeq(page \o more, 1, Len(page)) = page
      /\ SubSeq(page \o more, Len(page) + 1, Len(page \o more)) = more
      /\ SubSeq(page \o more, 1, 0) = << >>
  BY SubSeqFull, SubSeqEmpty, ConcatEmptySeq, EmptySeq, LenProperties, ConcatProperties, ConcatEnds
<1>6. at' = "yield" =>
         Owed' = SubSeq(page, 1, payload'.results) \o Rest(payload'.next)
  <2>1. taken' + 1 = 1
    BY <1>1
  <2>2. QED
    BY <1>1, <1>2, <2>1, SameResource
<1>7. CASE o = "page"
  <2>1. at' = "yield" /\ payload' = [results |-> Len(page), next |-> Following(url)]
    BY <1>1, <1>2, <1>7 DEF Verdict, Read
  <2>2. Owed' = page \o more
    <3>1. Owed' = SubSeq(page, 1, Len(page)) \o Rest(Following(url))
      BY <1>6, <2>1
    <3>2. QED
      BY <1>3, <1>5, <3>1
  <2>3. QED
    BY <1>4, <1>7, <2>2, LapseIsNoted DEF Kept, Keyless
<1>8. CASE o = "noResults"
  <2>1. at' = "yield" /\ payload' = [results |-> 0, next |-> Following(url)]
    BY <1>1, <1>8 DEF Verdict, Read, Keyless
  <2>2. Owed' = SubSeq(Owed, Len(page) + 1, Len(Owed))
    BY <1>3, <1>4, <1>5, <1>6, <2>1
  <2>3. Len(page) + 1 \in 1 .. Len(Owed) + 1 /\ Len(Owed) \in 0 .. Len(Owed)
    BY <1>4, <1>5
  <2>4. QED
    BY <1>8, <2>2, <2>3, LapseIsNoted DEF Lapsed, Keyless
<1>9. CASE o = "noNext"
  <2>1. at' = "yield" /\ payload' = [results |-> Len(page), next |-> 0]
    BY <1>1, <1>2, <1>9 DEF Verdict, Read, Keyless
  <2>2. Owed' = SubSeq(Owed, 1, Len(page))
    BY <1>4, <1>5, <1>6, <2>1
  <2>3. 1 \in 1 .. Len(Owed) + 1 /\ Len(page) \in 0 .. Len(Owed)
    BY <1>4, <1>5
  <2>4. QED
    BY <1>9, <2>2, <2>3, LapseIsNoted DEF Lapsed, Keyless
<1>10. CASE o = "neither"
  <2>1. at' = "yield" /\ payload' = [results |-> 0, next |-> 0]
    BY <1>1, <1>10 DEF Verdict, Read, Keyless
  <2>2. Owed' = SubSeq(Owed, 1, 0)
    BY <1>4, <1>5, <1>6, <2>1
  <2>3. 1 \in 1 .. Len(Owed) + 1 /\ 0 \in 0 .. Len(Owed)
    BY <1>4, <1>5
  <2>4. QED
    BY <1>10, <2>2, <2>3, LapseIsNoted DEF Lapsed, Keyless
<1>11. CASE o \in {"transient", "refused", "other"}
  <2>1. at' \notin {"yield", "exhausted"}
    BY <1>1, <1>11 DEF Verdict, Keyless
  <2>2. Owed' = Rest(url)
    BY <1>1, <2>1, SameResource
  <2>3. QED
    BY <1>4, <1>11, <2>2, LapseIsNoted DEF Kept, Keyless
<1>12. QED
  BY <1>7, <1>8, <1>9, <1>10, <1>11 DEF Outcome, Keyless

LEMMA GiveUpOwes ==
    ASSUME GiveUp
    PROVE  Kept
BY DEF GiveUp, Kept, Owed, Rest, Pages, Lapses

\* The result that is yielded is the first of those owed.
LEMMA YieldOwes ==
    ASSUME TypeOK, InStep, YieldResult
    PROVE  /\ Owed # << >> /\ Head(Owed) = <<url, taken + 1>>
           /\ Owed' = Tail(Owed) /\ Lapses' = Lapses
<1>1. /\ at = "yield" /\ at' = "yield" /\ taken < payload.results /\ taken' = taken + 1
      /\ UNCHANGED <<upstream, url, payload, log>>
  BY DEF YieldResult
<1>2. PICK a \in Seq(Result) : a = SubSeq(Pages[url], taken + 1, payload.results)
  BY <1>1, OwedWhileYielding
<1>3. PICK b \in Seq(Result) : b = Rest(payload.next)
  BY <1>1, OwedWhileYielding
<1>4. /\ Owed = a \o b /\ a # << >> /\ Head(a) = <<url, taken + 1>>
      /\ Tail(a) = SubSeq(Pages[url], (taken + 1) + 1, payload.results)
  BY <1>1, <1>2, <1>3, OwedWhileYielding
<1>5. Owed' = Tail(a) \o b
  BY <1>1, <1>3, <1>4, SameResource
<1>6. a \o b # << >> /\ Head(a \o b) = Head(a) /\ Tail(a \o b) = Tail(a) \o b
  BY <1>4, ConcatHead
<1>7. Lapses' = Lapses
  BY <1>1 DEF Lapses
<1>8. QED
  BY <1>4, <1>5, <1>6, <1>7

\* When a page is done, the others are still owed, and nothing is if there are
\* no others.
LEMMA NextOwes ==
    ASSUME TypeOK, InStep, NextUrl
    PROVE  Kept /\ (at' = "exhausted" => Owed = << >>)
<1>1. /\ at = "yield" /\ taken = payload.results
      /\ UNCHANGED <<upstream, log>>
      /\ \/ payload.next # 0 /\ url' = payload.next /\ at' = "get"
         \/ payload.next = 0 /\ at' = "exhausted"
  BY DEF NextUrl
<1>2. PICK b \in Seq(Result) : b = Rest(payload.next)
  BY <1>1, OwedWhileYielding
<1>3. Owed = b
  <2>1. Owed = << >> \o b
    BY <1>1, <1>2, OwedWhileYielding
  <2>2. QED
    BY <2>1, ConcatEmptySeq
<1>4. CASE at' = "get"
  <2>1. Owed' = Rest(payload.next)
    BY <1>1, <1>4, SameResource
  <2>2. QED
    BY <1>1, <1>2, <1>3, <1>4, <2>1 DEF Kept, Lapses
<1>5. CASE at' = "exhausted"
  <2>1. Owed' = << >> /\ payload.next = 0
    BY <1>1, <1>5, SameResource
  <2>2. b = << >>
    BY <1>2, <2>1 DEF Rest
  <2>3. QED
    BY <1>1, <1>3, <2>1, <2>2 DEF Kept, Lapses
<1>6. QED
  BY <1>1, <1>4, <1>5

\* Every step keeps the payload about the page being yielded, and what was
\* yielded in step with what is owed.
LEMMA InStepStep ==
    ASSUME TypeOK, InStep, [Next]_vars
    PROVE  InStep'
<1>1. /\ UNCHANGED upstream
      /\ UNCHANGED Records /\ \A p : Following(p)' = Following(p)
  <2>1. UNCHANGED upstream
    BY DEF Next, Call, GiveUp, YieldResult, NextUrl, vars
  <2>2. QED
    BY <2>1, SameResource
<1>2. /\ taken \in Nat /\ upstream[url] \in Nat /\ payload.results \in Nat
      /\ taken <= payload.results
      /\ at = "get" => taken = 0
      /\ at = "yield" => payload.results \in {0, upstream[url]} /\ payload.next \in {0, Following(url)}
      /\ Lapses = {} => yielded \o Owed = Records
  BY PagesOfType DEF InStep
<1>3. ASSUME NEW o \in Outcome, Call(o)
      PROVE  InStep'
  <2>1. /\ at = "get" /\ taken' = 0 /\ url' = url /\ yielded' = yielded
        /\ payload' = IF at' = "yield" THEN Read(o) ELSE payload
    BY <1>2, <1>3 DEF Call
  <2>2. /\ 0 <= payload'.results
        /\ at' = "yield" => /\ payload'.results \in {0, upstream[url]}
                            /\ payload'.next \in {0, Following(url)}
    BY <1>2, <2>1 DEF Read
  <2>3. Lapses' = {} => yielded \o Owed' = Records
    BY <1>2, <1>3, CallOwes DEF Kept, Lapsed
  <2>4. QED
    BY <1>1, <2>1, <2>2, <2>3 DEF InStep
<1>4. CASE GiveUp
  <2>1. UNCHANGED <<upstream, url, payload, taken, yielded>> /\ at' = "ServiceUnavailableError"
    BY <1>4 DEF GiveUp
  <2>2. Kept
    BY <1>4, GiveUpOwes
  <2>3. QED
    BY <1>1, <1>2, <2>1, <2>2 DEF InStep, Kept
<1>5. CASE YieldResult
  <2>1. /\ at = "yield" /\ at' = "yield" /\ UNCHANGED <<url, payload>>
        /\ taken < payload.results /\ taken' = taken + 1
        /\ yielded' = Append(yielded, <<url, taken + 1>>)
    BY <1>5 DEF YieldResult
  <2>2. /\ Owed # << >> /\ Head(Owed) = <<url, taken + 1>>
        /\ Owed' = Tail(Owed) /\ Lapses' = Lapses
    BY <1>5, YieldOwes
  <2>3. PICK owed \in Seq(Result) : owed = Owed
    BY OwedType
  <2>4. PICK got \in Seq(Result) : got = yielded
    BY DEF TypeOK, Result
  <2>5. Append(got, Head(owed)) \o Tail(owed) = got \o owed
    BY <2>2, <2>3, <2>4, MoveHead
  <2>6. yielded' \o Owed' = yielded \o Owed
    BY <2>1, <2>2, <2>3, <2>4, <2>5
  <2>7. taken + 1 <= payload.results
    BY <1>2, <2>1
  <2>8. QED
    BY <1>1, <1>2, <2>1, <2>2, <2>6, <2>7 DEF InStep
<1>6. CASE NextUrl
  <2>1. /\ taken' = 0 /\ at' \in {"get", "exhausted"} /\ UNCHANGED <<payload, yielded>>
    BY <1>6 DEF NextUrl
  <2>2. Kept
    BY <1>6, NextOwes
  <2>3. QED
    BY <1>1, <1>2, <2>1, <2>2 DEF InStep, Kept
<1>7. CASE UNCHANGED vars
  <2>1. UNCHANGED <<upstream, url, payload, at, taken, yielded, log>>
    BY <1>7 DEF vars
  <2>2. UNCHANGED <<Owed, Lapses>>
    BY <2>1 DEF Owed, Rest, Pages, Lapses
  <2>3. QED
    BY <1>1, <1>2, <2>1, <2>2 DEF InStep
<1>8. QED
  BY <1>3, <1>4, <1>5, <1>6, <1>7 DEF Next

-----------------------------------------------------------------------------
\* The initial states satisfy the invariant.
LEMMA InitIInv == Init => IInv
<1> SUFFICES ASSUME Init PROVE IInv
  OBVIOUS
<1>1. TypeOK
  <2>1. PICK n \in 1 .. MaxPages : upstream \in [1 .. n -> 0 .. MaxResults]
    BY DEF Init
  <2>2. 1 \in DOMAIN upstream /\ max_retries \in Nat /\ MaxResults \in Nat
    BY <2>1, ClientAssumption DEF Init
  <2>3. << >> \in Seq((1 .. MaxPages) \X (1 .. MaxResults)) /\ << >> \in Seq((1 .. MaxPages) \X Outcome)
    BY EmptySeq
  <2>4. payload \in Payload
    BY <2>2 DEF Init, Payload
  <2>5. QED
    BY <2>2, <2>3, <2>4 DEF Init, TypeOK
<1>2. \A p : Calls(p) = {} /\ Failures(p) = {}
  BY DEF Init, Calls, Failures
<1>3. Cardinality({}) = 0
  BY FS_EmptySet
<1>4. max_retries \in Nat /\ IsFiniteSet(DOMAIN upstream) /\ upstream[url] \in Nat
      /\ url \in DOMAIN upstream
  BY <1>1, PagesOfType, FS_Interval
<1>5. RetryDiscipline
  BY <1>2, <1>3, <1>4 DEF RetryDiscipline
<1>6. CallsAccounted
  <2>1. Calls(url) = {} /\ Failures(url) = {} /\ Cardinality(Calls(url)) = 0
    BY <1>2, <1>3
  <2>2. log = << >> /\ at = "get" /\ attempt = 1
    BY DEF Init
  <2>3. \A i \in DOMAIN log : log[i][1] <= url
    BY <2>2
  <2>4. QED
    BY <2>1, <2>2, <2>3 DEF CallsAccounted
<1>7. BackoffIsLinear
  <2>1. Triangle(0) = 0 /\ Triangle(0 - 1) = 0
    BY DEF Triangle
  <2>2. Pauses = [p \in DOMAIN upstream |-> 0]
    BY <1>2, <1>3, <1>4, <2>1 DEF Pauses
  <2>3. PICK F : IsSum(F, Pauses, DOMAIN upstream) /\ (BackoffIsLinear <=> slept = Backoff * F[DOMAIN upstream])
    BY <1>4, PauseSum DEF PausesAddUp
  <2>4. F[DOMAIN upstream] = 0
    BY <1>4, <2>2, <2>3, SumOfZeros
  <2>5. QED
    BY <2>3, <2>4, ClientAssumption DEF Init
<1>8. InStep
  <2>1. Rest(1) = Records /\ Records \in Seq(Result)
    BY <1>1, <1>4, RestUnfolds
  <2>2. << >> \o Records = Records
    BY <2>1, ConcatEmptySeq
  <2>3. Owed = Records
    BY <2>1 DEF Owed, Init
  <2>4. QED
    BY <2>2, <2>3 DEF InStep, Init
<1>9. QED
  BY <1>1, <1>5, <1>6, <1>7, <1>8 DEF IInv

\* IInv is inductive.
THEOREM Inductive == Spec => []IInv
<1>1. IInv /\ [Next]_vars => IInv'
  BY TypeStep, CallsStep, BackoffStep, InStepStep DEF IInv
<1>2. QED
  BY <1>1, InitIInv, PTL DEF Spec

\* Every variable has its type.
THEOREM Typed == Spec => []TypeOK
<1>1. IInv => TypeOK
  BY DEF IInv
<1>2. QED
  BY <1>1, Inductive, PTL

\* Whatever SWAPI answers, no page is asked for more than max_retries times,
\* nor again after an answer that is not a passing failure.
THEOREM RetriesAreDisciplined == Spec => []RetryDiscipline
<1>1. IInv => RetryDiscipline
  BY DEF IInv
<1>2. QED
  BY <1>1, Inductive, PTL

\* ServiceUnavailableError says that all attempts at one page failed.
THEOREM UnavailableIsEarned == Spec => []UnavailableMeansExhausted
<1>1. IInv => UnavailableMeansExhausted
  BY DEF IInv, CallsAccounted, UnavailableMeansExhausted
<1>2. QED
  BY <1>1, Inductive, PTL

\* time.sleep is called for a linear backoff within a page, and no more.
THEOREM PausesAreLinear == Spec => []BackoffIsLinear
<1>1. IInv => BackoffIsLinear
  BY DEF IInv
<1>2. QED
  BY <1>1, Inductive, PTL

-----------------------------------------------------------------------------
\* The initial states map to initial states of the stream.
LEMMA InitRefines == Init => Consumer!StreamInit
<1> SUFFICES ASSUME Init PROVE Consumer!StreamInit
  OBVIOUS
<1>1. Rest(1) = Records
  <2>1. TypeOK /\ url \in DOMAIN upstream
    BY InitIInv DEF IInv, TypeOK
  <2>2. QED
    BY <2>1, RestUnfolds
<1>2. Owed = Records
  BY <1>1 DEF Owed, Init
<1>3. Cardinality(Lapses) = 0
  <2>1. Lapses = {}
    BY DEF Lapses, Init
  <2>2. QED
    BY <2>1, FS_EmptySet
<1>4. QED
  BY <1>2, <1>3 DEF Init, Ended, Consumer!StreamInit

\* Every step of the client is a step of the stream or leaves it alone.
LEMMA StepRefines ==
    ASSUME IInv, [Next]_vars
    PROVE  Consumer!StreamNext \/ UNCHANGED Consumer!svars
<1>1. TypeOK /\ InStep
  BY DEF IInv
<1>2. UNCHANGED Records
  <2>1. UNCHANGED upstream
    BY DEF Next, Call, GiveUp, YieldResult, NextUrl, vars
  <2>2. QED
    BY <2>1, SameResource
<1>3. ASSUME UNCHANGED yielded, Kept, at \notin Ended, at' \in Ended \ {"exhausted"}
      PROVE  Consumer!StreamNext
  BY <1>2, <1>3 DEF Consumer!StreamNext, Consumer!Raise, Kept
<1>4. ASSUME UNCHANGED yielded, Kept, at \notin Ended, at' \notin Ended
      PROVE  UNCHANGED Consumer!svars
  BY <1>2, <1>4 DEF Consumer!svars, Kept
<1>5. ASSUME NEW o \in Outcome, Call(o)
      PROVE  Consumer!StreamNext \/ UNCHANGED Consumer!svars
  <2>1. /\ UNCHANGED yielded /\ at = "get" /\ at' = Verdict(o)
    BY <1>5 DEF Call
  <2>2. CASE o \in Keyless
    <3>1. Lapsed /\ at' = "yield"
      BY <1>1, <1>5, <2>1, <2>2, CallOwes DEF Verdict, Keyless
    <3>2. Cardinality(Lapses') = Cardinality(Lapses) + 1
      <4>1. Lapses' = Lapses \cup {Len(log) + 1} /\ Len(log) + 1 \notin Lapses
        BY <1>1, <1>5, <2>2, LapseIsNoted
      <4>2. QED
        BY <1>1, <4>1, LapsesAreFinite, FS_AddElement
    <3>3. Consumer!Lapse
      BY <1>2, <2>1, <3>1, <3>2 DEF Consumer!Lapse, Lapsed, Ended
    <3>4. QED
      BY <3>3 DEF Consumer!StreamNext
  <2>3. CASE o \notin Keyless
    <3>1. Kept
      BY <1>1, <1>5, <2>3, CallOwes
    <3>2. at' \in {"yield", "get", "ExternalAPIError", "Exception"}
      BY <2>1 DEF Verdict
    <3>3. QED
      BY <1>3, <1>4, <2>1, <3>1, <3>2 DEF Ended
  <2>4. QED
    BY <2>2, <2>3
<1>6. CASE GiveUp
  BY <1>3, <1>6, GiveUpOwes DEF GiveUp, Ended
<1>7. CASE YieldResult
  <2>1. at = "yield" /\ at' = at /\ yielded' = Append(yielded, <<url, taken + 1>>)
    BY <1>7 DEF YieldResult
  <2>2. /\ Owed # << >> /\ Head(Owed) = <<url, taken + 1>>
        /\ Owed' = Tail(Owed) /\ Lapses' = Lapses
    BY <1>1, <1>7, YieldOwes
  <2>3. Consumer!Deliver
    BY <1>2, <2>1, <2>2 DEF Consumer!Deliver, Ended
  <2>4. QED
    BY <2>3 DEF Consumer!StreamNext
<1>8. CASE NextUrl
  <2>1. Kept /\ (at' = "exhausted" => Owed = << >>)
    BY <1>1, <1>8, NextOwes
  <2>2. at = "yield" /\ at' \in {"get", "exhausted"} /\ yielded' = yielded
    BY <1>8 DEF NextUrl
  <2>3. CASE at' = "exhausted"
    <3>1. Consumer!Exhaust
      BY <1>2, <2>1, <2>2, <2>3 DEF Consumer!Exhaust, Ended, Kept
    <3>2. QED
      BY <3>1 DEF Consumer!StreamNext
  <2>4. CASE at' # "exhausted"
    BY <1>4, <2>1, <2>2, <2>4 DEF Ended
  <2>5. QED
    BY <2>3, <2>4
<1>9. CASE UNCHANGED vars
  <2>1. UNCHANGED <<upstream, url, payload, at, taken, yielded, log>>
    BY <1>9 DEF vars
  <2>2. UNCHANGED <<Owed, Lapses>>
    BY <2>1 DEF Owed, Rest, Pages, Lapses
  <2>3. QED
    BY <1>2, <2>1, <2>2 DEF Consumer!svars
<1>10. QED
  BY <1>5, <1>6, <1>7, <1>8, <1>9 DEF Next

\* The consumer of the generator sees the records of the resource in order,
\* each once, whatever pages they come on and however often a page is retried;
\* and without an exception it misses some only after an answer that lacked
\* "results" or "next".
THEOREM StreamIsDelivered == Spec => DeliversStream
<1>1. IInv /\ [Next]_vars => [Consumer!StreamNext]_(Consumer!svars)
  BY StepRefines
<1>2. QED
  BY <1>1, InitRefines, Inductive, PTL DEF Spec, DeliversStream, Consumer!Stream
=============================================================================
