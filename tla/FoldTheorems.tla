---------------------------- MODULE FoldTheorems -----------------------------
(***************************************************************************)
(* Sums over finite sets and concatenations of pages, for the proofs.       *)
(* MapThenSumSet and FlattenSeq of the community modules are recursive       *)
(* functions, and tlapm has no induction for them; here what they compute is *)
(* established by minimal counterexample: the least set (or number) at which *)
(* a fact would fail does not exist.                                         *)
(***************************************************************************)
EXTENDS SequencesExt, FiniteSetTheorems, SequenceTheorems, TLAPS

\* A set of naturals has a least element.
LEMMA LeastNat ==
    ASSUME NEW T \in SUBSET Nat, T # {}
    PROVE  \E n \in T : \A m \in T : n <= m
<1> DEFINE R == OpToRel(<, Nat)
<1>1. IsWellFoundedOn(R, Nat)
  BY NatLessThanWellFounded
<1>2. \A a, b \in Nat : <<a, b>> \in R <=> a < b
  BY DEF OpToRel
<1> HIDE DEF R
<1>3. PICK x \in T : \A y \in T : ~ (<<y, x>> \in R)
  BY <1>1, WFMin
<1>4. ASSUME NEW m \in T
      PROVE  x <= m
  <2>1. m \in Nat /\ x \in Nat /\ ~ (<<m, x>> \in R)
    BY <1>3
  <2>2. ~ (m < x)
    BY <1>2, <2>1
  <2>3. QED
    BY <2>1, <2>2
<1>5. QED
  BY <1>4

\* A collection of parts of a finite set has one with none of the others inside:
\* the minimal counterexample of the proofs below.
LEMMA LeastSet ==
    ASSUME NEW S, IsFiniteSet(S), NEW B \in SUBSET (SUBSET S), B # {}
    PROVE  \E s \in B : \A t \in B : t \subseteq s => t = s
<1> DEFINE Sizes == {Cardinality(s) : s \in B}
<1>1. \A s \in B : IsFiniteSet(s) /\ Cardinality(s) \in Nat
  BY FS_Subset, FS_CardinalityType
<1>2. Sizes \in SUBSET Nat /\ Sizes # {}
  BY <1>1
<1>3. PICK n \in Sizes : \A m \in Sizes : n <= m
  <2> HIDE DEF Sizes
  <2>1. QED
    BY <1>2, LeastNat
<1>4. PICK s \in B : Cardinality(s) = n
  BY <1>3
<1>5. ASSUME NEW t \in B, t \subseteq s
      PROVE  t = s
  <2>1. Cardinality(t) <= Cardinality(s) /\ Cardinality(s) <= Cardinality(t)
    BY <1>1, <1>3, <1>4, <1>5, FS_Subset
  <2>2. Cardinality(t) = Cardinality(s)
    BY <1>1, <2>1, <1>5
  <2>3. QED
    BY <1>1, <1>5, <2>2, FS_Subset
<1>6. QED
  BY <1>4, <1>5

\* The element that MapThenFoldSet takes first.
Pick(s) == CHOOSE x \in s : TRUE

\* it[s] is the sum of f over s, for every part s of S, as MapThenSumSet adds it.
IsSum(it, f, S) ==
    it = [s \in SUBSET S |-> IF s = {} THEN 0 ELSE f[Pick(s)] + it[s \ {Pick(s)}]]

\* Pick takes an element of a set that has one.
LEMMA PickIn ==
    ASSUME NEW s, s # {}
    PROVE  Pick(s) \in s
BY DEF Pick

\* The recursion that defines a sum has a solution: built up to sets of n elements
\* from the solution for n - 1.
LEMMA SumExists ==
    ASSUME NEW S, IsFiniteSet(S), NEW f
    PROVE  \E it : IsSum(it, f, S)
<1> DEFINE Small(n) == {s \in SUBSET S : Cardinality(s) <= n}
           Good(n, g) == g = [s \in Small(n) |->
                           IF s = {} THEN 0 ELSE f[Pick(s)] + g[s \ {Pick(s)}]]
           Bad == {n \in Nat : ~ \E g : Good(n, g)}
<1>1. \A s \in SUBSET S : IsFiniteSet(s) /\ Cardinality(s) \in Nat
  BY FS_Subset, FS_CardinalityType
<1>2. Bad = {}
  <2> SUFFICES ASSUME Bad # {} PROVE FALSE
    OBVIOUS
  <2>1. PICK n \in Bad : \A m \in Bad : n <= m
    <3> HIDE DEF Bad
    <3>1. Bad \subseteq Nat
      BY DEF Bad
    <3>2. QED
      BY <3>1, LeastNat
  <2>2. n \in Nat /\ ~ \E g : Good(n, g)
    BY <2>1
  <2>3. CASE n = 0
    <3> DEFINE g == [s \in Small(0) |-> 0]
    <3>1. \A s \in Small(0) : s = {}
      BY <1>1, FS_EmptySet
    <3>2. Good(0, g)
      BY <3>1
    <3>3. QED
      BY <2>2, <2>3, <3>2
  <2>4. CASE n # 0
    <3>1. n - 1 \in Nat /\ n - 1 \notin Bad
      <4> HIDE DEF Bad
      <4>1. n - 1 \in Nat /\ ~ (n <= n - 1)
        BY <2>2, <2>4
      <4>2. QED
        BY <2>1, <4>1
    <3>2. PICK g : Good(n - 1, g)
      BY <3>1
    <3> DEFINE h == [s \in Small(n) |->
                       IF s = {} THEN 0 ELSE f[Pick(s)] + g[s \ {Pick(s)}]]
    <3>3. ASSUME NEW s \in Small(n), s # {}
          PROVE  h[s \ {Pick(s)}] = g[s \ {Pick(s)}]
      <4> DEFINE t == s \ {Pick(s)}
      <4>1. t \in SUBSET S /\ Cardinality(t) = Cardinality(s) - 1
        BY <3>3, <1>1, PickIn, FS_RemoveElement
      <4>2. t \in Small(n - 1) /\ t \in Small(n)
        BY <4>1, <1>1, <2>2
      <4> HIDE DEF t
      <4>3. g[t] = IF t = {} THEN 0 ELSE f[Pick(t)] + g[t \ {Pick(t)}]
        BY <3>2, <4>2
      <4>4. h[t] = IF t = {} THEN 0 ELSE f[Pick(t)] + g[t \ {Pick(t)}]
        BY <4>2
      <4>5. QED
        BY <4>3, <4>4 DEF t
    <3>4. Good(n, h)
      BY <3>3
    <3>5. QED
      BY <2>2, <3>4
  <2>5. QED
    BY <2>3, <2>4
<1>3. Cardinality(S) \in Nat /\ Cardinality(S) \notin Bad
  BY <1>1, <1>2
<1>4. PICK g : Good(Cardinality(S), g)
  BY <1>3
<1>5. Small(Cardinality(S)) = SUBSET S
  BY FS_Subset
<1>6. IsSum(g, f, S)
  BY <1>4, <1>5 DEF IsSum
<1>7. QED
  BY <1>6

\* One step of the recursion.
LEMMA SumStep ==
    ASSUME NEW S, NEW f, NEW it, IsSum(it, f, S), NEW s \in SUBSET S, s # {}
    PROVE  /\ Pick(s) \in s
           /\ s \ {Pick(s)} \in SUBSET S
           /\ it[s] = f[Pick(s)] + it[s \ {Pick(s)}]
<1>1. Pick(s) \in s
  BY PickIn
<1>2. it[s] = IF s = {} THEN 0 ELSE f[Pick(s)] + it[s \ {Pick(s)}]
  BY DEF IsSum
<1>3. QED
  BY <1>1, <1>2

\* The empty sum is 0.
LEMMA SumEmpty ==
    ASSUME NEW S, NEW f, NEW it, IsSum(it, f, S)
    PROVE  it[{}] = 0
BY DEF IsSum

\* A sum of integers is an integer.
LEMMA SumType ==
    ASSUME NEW S, IsFiniteSet(S), NEW f \in [S -> Int], NEW it, IsSum(it, f, S),
           NEW s \in SUBSET S
    PROVE  it[s] \in Int
<1> DEFINE B == {t \in SUBSET S : it[t] \notin Int}
<1> SUFFICES ASSUME B # {} PROVE FALSE
  OBVIOUS
<1>1. PICK t \in B : \A u \in B : u \subseteq t => u = t
  <2> HIDE DEF B
  <2>1. B \in SUBSET (SUBSET S)
    BY DEF B
  <2>2. QED
    BY <2>1, LeastSet
<1>2. t # {}
  BY SumEmpty
<1>3. /\ Pick(t) \in t
      /\ t \ {Pick(t)} \in SUBSET S
      /\ it[t] = f[Pick(t)] + it[t \ {Pick(t)}]
  BY <1>1, <1>2, SumStep
<1>4. it[t \ {Pick(t)}] \in Int
  BY <1>1, <1>3
<1>5. QED
  BY <1>3, <1>4

\* A sum of zeros is 0.
LEMMA SumOfZeros ==
    ASSUME NEW S, IsFiniteSet(S), NEW it, IsSum(it, [x \in S |-> 0], S)
    PROVE  it[S] = 0
<1> DEFINE f == [x \in S |-> 0]
           B == {t \in SUBSET S : it[t] # 0}
<1> SUFFICES ASSUME B # {} PROVE FALSE
  OBVIOUS
<1>1. PICK t \in B : \A u \in B : u \subseteq t => u = t
  <2>1. B \in SUBSET (SUBSET S)
    OBVIOUS
  <2> HIDE DEF B
  <2>2. QED
    BY <2>1, LeastSet
<1>2. t # {}
  BY SumEmpty
<1>3. /\ Pick(t) \in t
      /\ t \ {Pick(t)} \in SUBSET S
      /\ it[t] = f[Pick(t)] + it[t \ {Pick(t)}]
  BY <1>1, <1>2, SumStep
<1>4. it[t \ {Pick(t)}] = 0 /\ f[Pick(t)] = 0
  BY <1>1, <1>3
<1>5. QED
  BY <1>1, <1>3, <1>4

\* Changing one term.
LEMMA SumUpdate ==
    ASSUME NEW S, IsFiniteSet(S), NEW f \in [S -> Int], NEW g \in [S -> Int],
           NEW a \in S, \A x \in S \ {a} : f[x] = g[x],
           NEW F, IsSum(F, f, S), NEW G, IsSum(G, g, S)
    PROVE  G[S] = F[S] + (g[a] - f[a])
<1> DEFINE Diff(t) == IF a \in t THEN g[a] - f[a] ELSE 0
           B == {t \in SUBSET S : G[t] # F[t] + Diff(t)}
<1> SUFFICES ASSUME B # {} PROVE FALSE
  OBVIOUS
<1>1. PICK t \in B : \A u \in B : u \subseteq t => u = t
  <2> HIDE DEF B
  <2>1. B \in SUBSET (SUBSET S)
    BY DEF B
  <2>2. QED
    BY <2>1, LeastSet
<1>2. t # {}
  BY SumEmpty
<1> DEFINE x == Pick(t)
           u == t \ {x}
<1>3. /\ x \in t
      /\ u \in SUBSET S
      /\ F[t] = f[x] + F[u]
      /\ G[t] = g[x] + G[u]
  BY <1>2, SumStep
<1>4. /\ F[t] \in Int /\ F[u] \in Int
      /\ G[t] \in Int /\ G[u] \in Int
  BY <1>3, SumType
<1> HIDE DEF x
<1>5. G[u] = F[u] + Diff(u)
  BY <1>1, <1>3
<1>6. x \in S /\ f[x] \in Int /\ g[x] \in Int /\ f[a] \in Int /\ g[a] \in Int
  BY <1>3
<1>7. CASE x = a
  BY <1>1, <1>3, <1>4, <1>5, <1>6, <1>7
<1>8. CASE x # a
  BY <1>1, <1>3, <1>4, <1>5, <1>6, <1>8
<1>9. QED
  BY <1>7, <1>8

\* Adding one term, whatever the order in which the terms are added.
LEMMA SumAdd ==
    ASSUME NEW S, IsFiniteSet(S), NEW f \in [S -> Int], NEW F, IsSum(F, f, S),
           NEW s \in SUBSET S, NEW a \in S, a \notin s
    PROVE  \A more : more = s \cup {a} => F[more] = F[s] + f[a]
<1> SUFFICES F[s \cup {a}] = F[s] + f[a]
  OBVIOUS
<1> DEFINE B == {t \in SUBSET S : \E b \in S \ t : F[t \cup {b}] # F[t] + f[b]}
<1> SUFFICES ASSUME B # {} PROVE FALSE
  OBVIOUS
<1>1. PICK t \in B : \A u \in B : u \subseteq t => u = t
  <2> HIDE DEF B
  <2>1. B \in SUBSET (SUBSET S)
    BY DEF B
  <2>2. QED
    BY <2>1, LeastSet
<1>2. PICK b \in S \ t : F[t \cup {b}] # F[t] + f[b]
  BY <1>1
<1>3. t \in SUBSET S /\ t \cup {b} \in SUBSET S /\ t \cup {b} # {}
  BY <1>1, <1>2
<1>4. \A v \in SUBSET S : F[v] \in Int
  BY SumType
<1>5. PICK x \in t \cup {b} : F[t \cup {b}] = f[x] + F[(t \cup {b}) \ {x}]
  <2> DEFINE w == t \cup {b}
  <2>1. w \in SUBSET S /\ w # {}
    BY <1>3
  <2> HIDE DEF w
  <2>2. Pick(w) \in w /\ F[w] = f[Pick(w)] + F[w \ {Pick(w)}]
    BY <2>1, SumStep
  <2>3. QED
    BY <2>2 DEF w
<1>6. x \in S /\ f[x] \in Int /\ f[b] \in Int
  BY <1>2, <1>3, <1>5
<1>7. CASE x = b
  <2>1. (t \cup {b}) \ {x} = t
    BY <1>2, <1>7
  <2>2. F[t \cup {b}] = f[b] + F[t]
    BY <1>5, <1>7, <2>1
  <2>3. QED
    BY <1>2, <1>3, <1>4, <1>6, <2>2
<1>8. CASE x # b
  <2> DEFINE u == t \ {x}
  <2>1. x \in t /\ (t \cup {b}) \ {x} = u \cup {b} /\ u \cup {x} = t
    BY <1>2, <1>5, <1>8
  <2>2. u \in SUBSET S /\ u \notin B
    BY <1>1, <2>1
  <2>3. F[u \cup {b}] = F[u] + f[b] /\ F[u \cup {x}] = F[u] + f[x]
    BY <1>2, <1>6, <2>1, <2>2
  <2> HIDE DEF u
  <2>4. F[t \cup {b}] = f[x] + F[u \cup {b}] /\ F[t] = F[u] + f[x]
    BY <1>5, <2>1, <2>3
  <2>5. F[u] \in Int
    BY <1>4, <2>2
  <2>6. QED
    BY <1>2, <1>6, <2>3, <2>4, <2>5
<1>9. QED
  BY <1>5, <1>7, <1>8

\* The sum over a part does not depend on the whole.
LEMMA SumPart ==
    ASSUME NEW S, IsFiniteSet(S), NEW P \in SUBSET S, NEW f, NEW g,
           \A x \in P : f[x] = g[x],
           NEW F, IsSum(F, f, S), NEW G, IsSum(G, g, P)
    PROVE  G[P] = F[P]
<1> DEFINE B == {t \in SUBSET P : G[t] # F[t]}
<1> SUFFICES ASSUME B # {} PROVE FALSE
  OBVIOUS
<1>1. PICK t \in B : \A u \in B : u \subseteq t => u = t
  <2> HIDE DEF B
  <2>1. B \in SUBSET (SUBSET P) /\ IsFiniteSet(P)
    BY FS_Subset DEF B
  <2>2. QED
    BY <2>1, LeastSet
<1>2. t # {}
  BY SumEmpty
<1>3. /\ Pick(t) \in t
      /\ t \ {Pick(t)} \in SUBSET P
      /\ G[t] = g[Pick(t)] + G[t \ {Pick(t)}]
      /\ F[t] = f[Pick(t)] + F[t \ {Pick(t)}]
  BY <1>2, SumStep
<1>4. G[t \ {Pick(t)}] = F[t \ {Pick(t)}]
  BY <1>1, <1>3
<1>5. QED
  BY <1>3, <1>4

\* The sum of f over all of S.
SumOver(f, S) == (CHOOSE it : IsSum(it, f, S))[S]

\* However it is added up, it is the same number.
LEMMA SumOverIs ==
    ASSUME NEW S, IsFiniteSet(S), NEW f, NEW it, IsSum(it, f, S)
    PROVE  it[S] = SumOver(f, S)
<1> DEFINE F == CHOOSE g : IsSum(g, f, S)
<1>1. IsSum(F, f, S)
  OBVIOUS
<1> HIDE DEF F
<1>2. S \in SUBSET S
  OBVIOUS
<1>3. it[S] = F[S]
  BY <1>1, <1>2, SumPart
<1>4. QED
  BY <1>3 DEF F, SumOver

\* A sum of integers is an integer.
LEMMA SumOverType ==
    ASSUME NEW S, IsFiniteSet(S), NEW f \in [S -> Int]
    PROVE  SumOver(f, S) \in Int
<1>1. PICK it : IsSum(it, f, S)
  BY SumExists
<1>2. it[S] \in Int
  BY <1>1, SumType
<1>3. QED
  BY <1>1, <1>2, SumOverIs

\* Changing one term changes the sum by as much.
LEMMA SumOverUpdate ==
    ASSUME NEW S, IsFiniteSet(S), NEW f \in [S -> Int], NEW g \in [S -> Int],
           NEW a \in S, \A x \in S \ {a} : f[x] = g[x]
    PROVE  SumOver(g, S) = SumOver(f, S) + (g[a] - f[a])
<1>1. PICK F : IsSum(F, f, S)
  BY SumExists
<1>2. PICK G : IsSum(G, g, S)
  BY SumExists
<1>3. F[S] = SumOver(f, S) /\ G[S] = SumOver(g, S)
  BY <1>1, <1>2, SumOverIs
<1>4. G[S] = F[S] + (g[a] - f[a])
  BY <1>1, <1>2, SumUpdate
<1>5. QED
  BY <1>3, <1>4

\* A sum of zeros is 0.
LEMMA SumOverZeros ==
    ASSUME NEW S, IsFiniteSet(S), NEW f, f = [x \in S |-> 0]
    PROVE  SumOver(f, S) = 0
<1>1. PICK it : IsSum(it, f, S)
  BY SumExists
<1>2. it[S] = 0
  BY <1>1, SumOfZeros
<1>3. QED
  BY <1>1, <1>2, SumOverIs

\* A sum of natural numbers is not negative.
LEMMA SumOverNonneg ==
    ASSUME NEW S, IsFiniteSet(S), NEW f \in [S -> Int], \A x \in S : f[x] >= 0
    PROVE  SumOver(f, S) >= 0
<1>1. PICK it : IsSum(it, f, S)
  BY SumExists
<1>2. it[S] >= 0
  <2> DEFINE B == {t \in SUBSET S : ~ it[t] >= 0}
  <2> SUFFICES ASSUME B # {} PROVE FALSE
    OBVIOUS
  <2>1. PICK t \in B : \A u \in B : u \subseteq t => u = t
    <3> HIDE DEF B
    <3>1. B \in SUBSET (SUBSET S)
      BY DEF B
    <3>2. QED
      BY <3>1, LeastSet
  <2>2. t # {}
    BY <1>1, SumEmpty
  <2>3. /\ Pick(t) \in t
        /\ t \ {Pick(t)} \in SUBSET S
        /\ it[t] = f[Pick(t)] + it[t \ {Pick(t)}]
    <3>1. t \in SUBSET S
      BY <2>1
    <3> HIDE DEF B
    <3>2. QED
      BY <1>1, <2>2, <3>1, SumStep
  <2>4. it[t \ {Pick(t)}] \in Int
    BY <1>1, <2>3, SumType
  <2>5. it[t \ {Pick(t)}] >= 0
    BY <2>1, <2>3
  <2>6. f[Pick(t)] \in Int /\ f[Pick(t)] >= 0
    BY <2>1, <2>3
  <2>7. it[t] >= 0
    BY <2>3, <2>4, <2>5, <2>6
  <2>8. QED
    BY <2>1, <2>7
<1>3. QED
  BY <1>1, <1>2, SumOverIs

\* Dealing the elements of D out to the terms of a sum, each where its key says and
\* for at most b there, adds at most b for each of them.
LEMMA SumOverDeal ==
    ASSUME NEW S, IsFiniteSet(S), NEW f \in [S -> Int],
           NEW D, IsFiniteSet(D), NEW key \in [D -> S],
           NEW c \in [S -> Int], NEW b \in Int, \A x \in S : c[x] <= b
    PROVE  \A g : g = [x \in S |-> f[x] + c[x] * Cardinality({d \in D : key[d] = x})]
                     => SumOver(g, S) <= SumOver(f, S) + b * Cardinality(D)
<1> DEFINE On(U, x) == {d \in U : key[d] = x}
           G(U) == [x \in S |-> f[x] + c[x] * Cardinality(On(U, x))]
           B == {U \in SUBSET D : ~ SumOver(G(U), S) <= SumOver(f, S) + b * Cardinality(U)}
<1>1. ASSUME NEW U \in SUBSET D
      PROVE  /\ IsFiniteSet(U) /\ Cardinality(U) \in Nat
             /\ \A x \in S : IsFiniteSet(On(U, x)) /\ Cardinality(On(U, x)) \in Nat
             /\ G(U) \in [S -> Int]
  <2>1. IsFiniteSet(U) /\ Cardinality(U) \in Nat
    BY FS_Subset, FS_CardinalityType
  <2>2. ASSUME NEW x \in S
        PROVE  IsFiniteSet(On(U, x)) /\ Cardinality(On(U, x)) \in Nat
    BY <2>1, FS_Subset, FS_CardinalityType
  <2>3. ASSUME NEW x \in S
        PROVE  f[x] + c[x] * Cardinality(On(U, x)) \in Int
    <3> HIDE DEF On
    <3>1. Cardinality(On(U, x)) \in Int
      BY <2>2
    <3>2. QED
      BY <3>1
  <2>4. QED
    BY <2>1, <2>2, <2>3
<1>2. B = {}
  <2> SUFFICES ASSUME B # {} PROVE FALSE
    OBVIOUS
  <2>1. PICK U \in B : \A V \in B : V \subseteq U => V = U
    <3> HIDE DEF B
    <3>1. B \in SUBSET (SUBSET D)
      BY DEF B
    <3>2. QED
      BY <3>1, LeastSet
  <2>2. U # {}
    <3> SUFFICES ASSUME U = {} PROVE FALSE
      OBVIOUS
    <3>1. \A x \in S : On(U, x) = {}
      OBVIOUS
    <3>2. Cardinality(U) = 0 /\ \A x \in S : Cardinality(On(U, x)) = 0
      BY <3>1, FS_EmptySet
    <3>3. G(U) = [x \in S |-> f[x]]
      <4>1. ASSUME NEW x \in S
            PROVE  f[x] + c[x] * Cardinality(On(U, x)) = f[x]
        BY <3>2
      <4>2. QED
        BY <4>1
    <3>4. G(U) = f
      BY <3>3
    <3> HIDE DEF G
    <3>5. SumOver(G(U), S) <= SumOver(f, S) + b * Cardinality(U)
      <4>1. SumOver(f, S) \in Int
        BY SumOverType
      <4>2. QED
        BY <3>2, <3>4, <4>1
    <3>6. QED
      BY <2>1, <3>5
  <2>3. PICK d \in D : d \in U
    BY <2>1, <2>2
  <2> DEFINE V == U \ {d}
             a == key[d]
  <2>4. U \in SUBSET D /\ V \in SUBSET D /\ V # U /\ V \subseteq U /\ a \in S
    BY <2>1, <2>3
  <2>5. Cardinality(V) \in Int /\ Cardinality(U) = Cardinality(V) + 1
    BY <1>1, <2>3, <2>4, FS_RemoveElement
  <2>6. G(U) \in [S -> Int] /\ G(V) \in [S -> Int]
    BY <1>1, <2>4
  <2>7. ASSUME NEW x \in S \ {a}
        PROVE  G(U)[x] = G(V)[x]
    <3>1. On(U, x) = On(V, x)
      BY <2>3
    <3>2. QED
      BY <3>1
  <2>8. G(U)[a] = G(V)[a] + c[a]
    <3>1. On(V, a) = On(U, a) \ {d} /\ d \in On(U, a)
      BY <2>3
    <3>2. IsFiniteSet(On(U, a)) /\ IsFiniteSet(On(V, a)) /\ Cardinality(On(V, a)) \in Nat
          /\ Cardinality(On(U, a)) \in Nat
      BY <1>1, <2>4
    <3>3. Cardinality(On(U, a)) = Cardinality(On(V, a)) + 1
      <4> HIDE DEF On
      <4>1. Cardinality(On(U, a) \ {d}) = Cardinality(On(U, a)) - 1
        BY <3>1, <3>2, FS_RemoveElement
      <4>2. Cardinality(On(V, a)) = Cardinality(On(U, a)) - 1
        BY <3>1, <4>1
      <4>3. QED
        BY <3>2, <4>2
    <3>4. /\ G(U)[a] = f[a] + c[a] * Cardinality(On(U, a))
          /\ G(V)[a] = f[a] + c[a] * Cardinality(On(V, a))
      BY <2>4
    <3> HIDE DEF On, G, V, a
    <3>5. f[a] \in Int /\ c[a] \in Int
      BY <2>4
    <3>6. PICK n \in Int : n = Cardinality(On(V, a))
      BY <3>2
    <3>7. c[a] * (n + 1) = c[a] * n + c[a]
      BY <3>5
    <3>8. QED
      BY <3>3, <3>4, <3>5, <3>6, <3>7
  <2>9. SumOver(G(V), S) <= SumOver(f, S) + b * Cardinality(V)
    BY <2>1, <2>4
  <2> HIDE DEF On, G, V, a, B
  <2>10. SumOver(G(U), S) = SumOver(G(V), S) + (G(U)[a] - G(V)[a])
    BY <2>4, <2>6, <2>7, SumOverUpdate
  <2>11. /\ SumOver(f, S) \in Int /\ SumOver(G(V), S) \in Int
         /\ G(V)[a] \in Int /\ c[a] \in Int /\ c[a] <= b
    BY <2>4, <2>6, SumOverType
  <2>12. SumOver(G(U), S) = SumOver(G(V), S) + c[a]
    BY <2>8, <2>10, <2>11
  <2>13. b * Cardinality(U) = b * Cardinality(V) + b
    BY <2>5
  <2>14. b * Cardinality(V) \in Int
    BY <2>5
  <2>15. SumOver(G(U), S) <= SumOver(f, S) + b * Cardinality(U)
    BY <2>9, <2>11, <2>12, <2>13, <2>14
  <2>16. QED
    BY <2>1, <2>15 DEF B
<1>3. D \in SUBSET D /\ G(D) = [x \in S |-> f[x] + c[x] * Cardinality({d \in D : key[d] = x})]
  OBVIOUS
<1>4. SumOver(G(D), S) <= SumOver(f, S) + b * Cardinality(D)
  <2> HIDE DEF G
  <2>1. QED
    BY <1>2, <1>3
<1>5. QED
  BY <1>3, <1>4

-----------------------------------------------------------------------------
\* The same for SumFunction of the community modules, which adds up all the values
\* of a function.
LEMMA SumFunctionIs ==
    ASSUME NEW S, IsFiniteSet(S), NEW f, DOMAIN f = S
    PROVE  SumFunction(f) = SumOver(f, S)
<1> DEFINE Body(g) == [s \in SUBSET S |-> IF s = {} THEN 0 ELSE f[Pick(s)] + g[s \ {Pick(s)}]]
           it == CHOOSE g : g = Body(g)
<1>1. PICK h : IsSum(h, f, S)
  BY SumExists
<1>2. h = Body(h)
  BY <1>1 DEF IsSum
<1> HIDE DEF Body
<1>3. it = Body(it)
  BY <1>2
<1> USE DEF Body
<1>4. IsSum(it, f, S)
  BY <1>3 DEF IsSum
<1>5. SumFunction(f) = it[S]
  BY DEF SumFunction, SumFunctionOnSet, FoldFunctionOnSet, MapThenFoldSet, Pick
<1> HIDE DEF it
<1>6. QED
  BY <1>4, <1>5, SumOverIs

LEMMA SumFunctionType ==
    ASSUME NEW S, IsFiniteSet(S), NEW f \in [S -> Int]
    PROVE  SumFunction(f) \in Int
BY SumFunctionIs, SumOverType

LEMMA SumFunctionUpdate ==
    ASSUME NEW S, IsFiniteSet(S), NEW f \in [S -> Int], NEW g \in [S -> Int],
           NEW a \in S, \A x \in S \ {a} : f[x] = g[x]
    PROVE  SumFunction(g) = SumFunction(f) + (g[a] - f[a])
<1>1. SumFunction(f) = SumOver(f, S) /\ SumFunction(g) = SumOver(g, S)
  BY SumFunctionIs
<1>2. QED
  BY <1>1, SumOverUpdate

LEMMA SumFunctionZeros ==
    ASSUME NEW S, IsFiniteSet(S), NEW f, f = [x \in S |-> 0]
    PROVE  SumFunction(f) = 0
BY SumFunctionIs, SumOverZeros

\* Greater terms add up to more.
LEMMA SumFunctionGrows ==
    ASSUME NEW S, IsFiniteSet(S), NEW f \in [S -> Int], NEW g \in [S -> Int],
           \A x \in S : f[x] <= g[x]
    PROVE  SumFunction(f) <= SumFunction(g)
<1>1. PICK F : IsSum(F, f, S)
  BY SumExists
<1>2. PICK G : IsSum(G, g, S)
  BY SumExists
<1>3. SumFunction(f) = F[S] /\ SumFunction(g) = G[S]
  <2>1. SumFunction(f) = SumOver(f, S) /\ SumFunction(g) = SumOver(g, S)
    BY SumFunctionIs
  <2>2. QED
    BY <1>1, <1>2, <2>1, SumOverIs
<1>4. F[S] <= G[S]
  <2> DEFINE B == {t \in SUBSET S : ~ F[t] <= G[t]}
  <2> SUFFICES ASSUME B # {} PROVE FALSE
    OBVIOUS
  <2>1. PICK t \in B : \A u \in B : u \subseteq t => u = t
    <3> HIDE DEF B
    <3>1. B \in SUBSET (SUBSET S)
      BY DEF B
    <3>2. QED
      BY <3>1, LeastSet
  <2>2. t \in SUBSET S /\ ~ F[t] <= G[t]
    BY <2>1
  <2>3. t # {}
    <3>1. F[{}] = 0 /\ G[{}] = 0
      BY <1>1, <1>2, SumEmpty
    <3>2. QED
      BY <2>2, <3>1
  <2>4. \A u \in SUBSET S : u \subseteq t /\ u # t => F[u] <= G[u]
    BY <2>1
  <2> HIDE DEF B
  <2>5. /\ Pick(t) \in t
        /\ t \ {Pick(t)} \in SUBSET S
        /\ F[t] = f[Pick(t)] + F[t \ {Pick(t)}]
    BY <1>1, <2>2, <2>3, SumStep
  <2>6. /\ Pick(t) \in t
        /\ t \ {Pick(t)} \in SUBSET S
        /\ G[t] = g[Pick(t)] + G[t \ {Pick(t)}]
    BY <1>2, <2>2, <2>3, SumStep
  <2>7. F[t \ {Pick(t)}] \in Int /\ G[t \ {Pick(t)}] \in Int
    BY <1>1, <1>2, <2>5, SumType
  <2>8. F[t \ {Pick(t)}] <= G[t \ {Pick(t)}]
    BY <2>4, <2>5
  <2>9. /\ f[Pick(t)] \in Int /\ g[Pick(t)] \in Int
        /\ f[Pick(t)] <= g[Pick(t)]
    BY <2>2, <2>5
  <2>10. F[t] <= G[t]
    BY <2>5, <2>6, <2>7, <2>8, <2>9
  <2>11. QED
    BY <2>2, <2>10
<1>5. QED
  BY <1>3, <1>4

\* Terms of at most b add up to at most b for each.
LEMMA SumFunctionBound ==
    ASSUME NEW S, IsFiniteSet(S), NEW f \in [S -> Int], NEW b \in Int, \A x \in S : f[x] <= b
    PROVE  SumFunction(f) <= b * Cardinality(S)
<1> DEFINE zero == [x \in S |-> 0]
           key  == [x \in S |-> x]
           g    == [x \in S |-> zero[x] + f[x] * Cardinality({d \in S : key[d] = x})]
<1>1. zero \in [S -> Int] /\ key \in [S -> S]
  OBVIOUS
<1>2. ASSUME NEW x \in S
      PROVE  zero[x] + f[x] * Cardinality({d \in S : key[d] = x}) = f[x]
  <2>1. {d \in S : key[d] = x} = {x}
    OBVIOUS
  <2>2. Cardinality({d \in S : key[d] = x}) = 1
    BY <2>1, FS_Singleton
  <2>3. zero[x] = 0 /\ f[x] \in Int
    OBVIOUS
  <2> HIDE DEF zero, key
  <2>4. QED
    BY <2>2, <2>3
<1>3. g = f
  <2>1. f = [x \in S |-> f[x]]
    OBVIOUS
  <2>2. QED
    BY <1>2, <2>1
<1> HIDE DEF zero, key
<1>4. SumOver(g, S) <= SumOver(zero, S) + b * Cardinality(S)
  BY <1>1, SumOverDeal
<1> HIDE DEF g
<1>5. SumOver(zero, S) = 0
  BY SumOverZeros DEF zero
<1>6. SumFunction(f) = SumOver(f, S)
  BY SumFunctionIs
<1>7. b * Cardinality(S) \in Int
  BY FS_CardinalityType
<1>8. QED
  BY <1>3, <1>4, <1>5, <1>6, <1>7

-----------------------------------------------------------------------------
\* fl[i] is the concatenation of the first i sequences of s, as FlattenSeq puts
\* them together.
IsFlat(fl, s) ==
    fl = [i \in 1 .. Len(s) |-> IF i = 1 THEN s[i] ELSE fl[i - 1] \o s[i]]

\* The recursion that defines a concatenation has a solution.
LEMMA FlatExists ==
    ASSUME NEW s, Len(s) \in Nat
    PROVE  \E fl : IsFlat(fl, s)
<1> DEFINE Good(n, g) == g = [i \in 1 .. n |-> IF i = 1 THEN s[i] ELSE g[i - 1] \o s[i]]
           Bad == {n \in Nat : ~ \E g : Good(n, g)}
<1>1. Bad = {}
  <2> SUFFICES ASSUME Bad # {} PROVE FALSE
    OBVIOUS
  <2>1. PICK n \in Bad : \A m \in Bad : n <= m
    <3> HIDE DEF Bad
    <3>1. Bad \subseteq Nat
      BY DEF Bad
    <3>2. QED
      BY <3>1, LeastNat
  <2>2. n \in Nat /\ ~ \E g : Good(n, g)
    BY <2>1
  <2>3. CASE n = 0
    <3> DEFINE g == [i \in 1 .. 0 |-> 0]
    <3>1. Good(0, g)
      OBVIOUS
    <3>2. QED
      BY <2>2, <2>3, <3>1
  <2>4. CASE n # 0
    <3>1. n - 1 \in Nat /\ n - 1 \notin Bad
      <4> HIDE DEF Bad
      <4>1. n - 1 \in Nat /\ ~ (n <= n - 1)
        BY <2>2, <2>4
      <4>2. QED
        BY <2>1, <4>1
    <3>2. PICK g : Good(n - 1, g)
      BY <3>1
    <3> DEFINE h == [i \in 1 .. n |-> IF i = 1 THEN s[i] ELSE g[i - 1] \o s[i]]
    <3>3. ASSUME NEW i \in 1 .. n, i # 1
          PROVE  h[i - 1] = g[i - 1]
      <4>1. i - 1 \in 1 .. n - 1 /\ i - 1 \in 1 .. n
        BY <2>2, <3>3
      <4> DEFINE j == i - 1
      <4> HIDE DEF j
      <4>2. g[j] = IF j = 1 THEN s[j] ELSE g[j - 1] \o s[j]
        BY <3>2, <4>1 DEF j
      <4>3. h[j] = IF j = 1 THEN s[j] ELSE g[j - 1] \o s[j]
        BY <4>1 DEF j
      <4>4. QED
        BY <4>2, <4>3 DEF j
    <3>4. Good(n, h)
      BY <3>3
    <3>5. QED
      BY <2>2, <3>4
  <2>5. QED
    BY <2>3, <2>4
<1>2. Len(s) \notin Bad
  BY <1>1
<1>3. PICK g : Good(Len(s), g)
  BY <1>2
<1>4. IsFlat(g, s)
  BY <1>3 DEF IsFlat
<1>5. QED
  BY <1>4

\* One step of the recursion.
LEMMA FlatStep ==
    ASSUME NEW s, NEW fl, IsFlat(fl, s), NEW i \in 1 .. Len(s)
    PROVE  fl[i] = IF i = 1 THEN s[i] ELSE fl[i - 1] \o s[i]
BY DEF IsFlat

\* A concatenation of sequences over X is a sequence over X.
LEMMA FlatType ==
    ASSUME NEW X, NEW s \in Seq(Seq(X)), NEW fl, IsFlat(fl, s), NEW i \in 1 .. Len(s)
    PROVE  fl[i] \in Seq(X)
<1> DEFINE Bad == {n \in 1 .. Len(s) : fl[n] \notin Seq(X)}
<1> SUFFICES ASSUME Bad # {} PROVE FALSE
  OBVIOUS
<1>1. PICK n \in Bad : \A m \in Bad : n <= m
  <2>1. Bad \in SUBSET Nat
    OBVIOUS
  <2> HIDE DEF Bad
  <2>2. QED
    BY <2>1, LeastNat
<1>2. n \in 1 .. Len(s) /\ s[n] \in Seq(X) /\ fl[n] \notin Seq(X)
  BY <1>1, ElementOfSeq
<1>3. fl[n] = IF n = 1 THEN s[n] ELSE fl[n - 1] \o s[n]
  BY <1>2, FlatStep
<1>4. n # 1
  BY <1>2, <1>3
<1>5. n - 1 \in 1 .. Len(s) /\ n - 1 \notin Bad
  <2> HIDE DEF Bad
  <2>1. n - 1 \in 1 .. Len(s) /\ ~ (n <= n - 1)
    BY <1>2, <1>4, LenProperties
  <2>2. QED
    BY <1>1, <2>1
<1>6. fl[n - 1] \in Seq(X)
  BY <1>5
<1>7. QED
  BY <1>2, <1>3, <1>4, <1>6, ConcatProperties

\* FlattenSeq is such a concatenation.
LEMMA FlattenIsFlat ==
    ASSUME NEW s, Len(s) \in Nat \ {0}
    PROVE  \E fl : IsFlat(fl, s) /\ FlattenSeq(s) = fl[Len(s)]
<1> DEFINE Body(g) == [i \in 1 .. Len(s) |-> IF i = 1 THEN s[i] ELSE g[i - 1] \o s[i]]
           fl == CHOOSE g : g = Body(g)
<1>1. \E g : g = Body(g)
  BY FlatExists DEF IsFlat
<1> HIDE DEF Body
<1>2. fl = Body(fl)
  BY <1>1
<1> USE DEF Body
<1>3. FlattenSeq(s) = fl[Len(s)]
  BY DEF FlattenSeq
<1>4. QED
  BY <1>2, <1>3 DEF IsFlat

\* Flattening the first n sequences gives the n-th partial concatenation.
LEMMA FlattenPart ==
    ASSUME NEW X, NEW s \in Seq(Seq(X)), NEW fl, IsFlat(fl, s), NEW n \in 1 .. Len(s)
    PROVE  FlattenSeq(SubSeq(s, 1, n)) = fl[n]
<1> DEFINE p == SubSeq(s, 1, n)
<1>1. n \in Nat \ {0} /\ Len(s) \in Nat
  BY LenProperties
<1>2. Len(p) = n /\ \A i \in 1 .. n : p[i] = s[i]
  <2>1. \A i \in 1 .. n : s[i] \in Seq(X)
    BY <1>1, ElementOfSeq
  <2>2. QED
    BY <1>1, <2>1, SubSeqProperties
<1> HIDE DEF p
<1>3. PICK g : IsFlat(g, p) /\ FlattenSeq(p) = g[n]
  BY <1>1, <1>2, FlattenIsFlat
<1> DEFINE Bad == {i \in 1 .. n : g[i] # fl[i]}
<1>4. Bad = {}
  <2> SUFFICES ASSUME Bad # {} PROVE FALSE
    OBVIOUS
  <2>1. PICK i \in Bad : \A m \in Bad : i <= m
    <3>1. Bad \in SUBSET Nat
      OBVIOUS
    <3> HIDE DEF Bad
    <3>2. QED
      BY <3>1, LeastNat
  <2>2. i \in 1 .. n /\ i \in 1 .. Len(s) /\ g[i] # fl[i]
    BY <1>1, <2>1
  <2>3. /\ g[i] = IF i = 1 THEN s[i] ELSE g[i - 1] \o s[i]
        /\ fl[i] = IF i = 1 THEN s[i] ELSE fl[i - 1] \o s[i]
    <3>1. i \in 1 .. Len(p) /\ p[i] = s[i]
      BY <1>2, <2>2
    <3>2. g[i] = IF i = 1 THEN p[i] ELSE g[i - 1] \o p[i]
      BY <1>3, <3>1, FlatStep
    <3>3. fl[i] = IF i = 1 THEN s[i] ELSE fl[i - 1] \o s[i]
      BY <2>2, FlatStep
    <3>4. QED
      BY <3>1, <3>2, <3>3
  <2>4. i # 1
    BY <2>2, <2>3
  <2>5. i - 1 \notin Bad /\ i - 1 \in 1 .. n
    <3> HIDE DEF Bad
    <3>1. i - 1 \in 1 .. n /\ ~ (i <= i - 1)
      BY <1>1, <2>2, <2>4
    <3>2. QED
      BY <2>1, <3>1
  <2>6. g[i - 1] = fl[i - 1]
    BY <2>5
  <2>7. QED
    BY <2>2, <2>3, <2>4, <2>6
<1>5. g[n] = fl[n]
  BY <1>1, <1>4
<1>6. QED
  BY <1>3, <1>5 DEF p

\* One more sequence is one more concatenation.
LEMMA FlattenStep ==
    ASSUME NEW X, NEW s \in Seq(Seq(X)), NEW n \in 1 .. Len(s)
    PROVE  /\ FlattenSeq(SubSeq(s, 1, n - 1)) \in Seq(X)
           /\ FlattenSeq(SubSeq(s, 1, n)) = FlattenSeq(SubSeq(s, 1, n - 1)) \o s[n]
<1>1. n \in Nat \ {0} /\ Len(s) \in Nat
  BY LenProperties
<1>2. PICK fl : IsFlat(fl, s)
  BY <1>1, FlatExists
<1>3. FlattenSeq(SubSeq(s, 1, n)) = fl[n]
  BY <1>2, FlattenPart
<1>4. fl[n] = IF n = 1 THEN s[n] ELSE fl[n - 1] \o s[n]
  BY <1>2, FlatStep
<1>5. s[n] \in Seq(X)
  BY ElementOfSeq
<1>6. CASE n = 1
  <2>1. SubSeq(s, 1, n - 1) = << >>
    BY <1>6, SubSeqEmpty
  <2>2. FlattenSeq(<< >>) = << >>
    BY EmptySeq DEF FlattenSeq
  <2>3. FlattenSeq(SubSeq(s, 1, n - 1)) = << >>
    BY <2>1, <2>2
  <2>4. << >> \in Seq(X) /\ << >> \o s[n] = s[n]
    BY <1>5, ConcatEmptySeq, EmptySeq
  <2>5. QED
    BY <1>3, <1>4, <1>6, <2>3, <2>4
<1>7. CASE n # 1
  <2>1. n - 1 \in 1 .. Len(s)
    BY <1>1, <1>7
  <2>2. FlattenSeq(SubSeq(s, 1, n - 1)) = fl[n - 1] /\ fl[n - 1] \in Seq(X)
    BY <1>2, <2>1, FlattenPart, FlatType
  <2>3. QED
    BY <1>3, <1>4, <1>7, <2>2
<1>8. QED
  BY <1>6, <1>7

\* Flattening any number of the first sequences gives a sequence.
LEMMA FlattenType ==
    ASSUME NEW X, NEW s \in Seq(Seq(X)), NEW n \in 0 .. Len(s)
    PROVE  FlattenSeq(SubSeq(s, 1, n)) \in Seq(X)
<1>1. Len(s) \in Nat
  BY LenProperties
<1>2. CASE n = 0
  <2>1. SubSeq(s, 1, n) = << >>
    BY <1>2, SubSeqEmpty
  <2>2. FlattenSeq(<< >>) = << >>
    BY EmptySeq DEF FlattenSeq
  <2>3. QED
    BY <2>1, <2>2, EmptySeq
<1>3. CASE n # 0
  <2>1. n \in 1 .. Len(s)
    BY <1>1, <1>3
  <2>2. s[n] \in Seq(X)
    BY <2>1, ElementOfSeq
  <2>3. /\ FlattenSeq(SubSeq(s, 1, n - 1)) \in Seq(X)
        /\ FlattenSeq(SubSeq(s, 1, n)) = FlattenSeq(SubSeq(s, 1, n - 1)) \o s[n]
    BY <2>1, FlattenStep
  <2>4. FlattenSeq(SubSeq(s, 1, n - 1)) \o s[n] \in Seq(X)
    BY <2>2, <2>3, ConcatProperties
  <2>5. QED
    BY <2>3, <2>4
<1>4. QED
  BY <1>2, <1>3

\* Concatenation is associative, for any set at once.
LEMMA ConcatTwice == \A X : \A a, b, c \in Seq(X) : (a \o b) \o c = a \o (b \o c)
BY ConcatAssociative

\* Flattening the rest first comes to the same.
LEMMA FlattenHead ==
    ASSUME NEW X, NEW s \in Seq(Seq(X)), s # << >>
    PROVE  /\ FlattenSeq(Tail(s)) \in Seq(X)
           /\ FlattenSeq(s) = s[1] \o FlattenSeq(Tail(s))
<1>1. PICK t \in Seq(Seq(X)) : t = Tail(s)
  BY HeadTailProperties
<1>2. /\ Len(s) \in Nat \ {0} /\ Len(t) = Len(s) - 1 /\ Len(t) \in Nat
      /\ s[1] \in Seq(X)
      /\ \A i \in 1 .. Len(t) : t[i] = s[i + 1]
  BY <1>1, HeadTailProperties, EmptySeq, LenProperties, ElementOfSeq
<1> DEFINE Upto(k) == FlattenSeq(SubSeq(s, 1, k))
           More(k) == FlattenSeq(SubSeq(t, 1, k))
           Fits(k) == Upto(k + 1) = s[1] \o More(k)
           Bad == {k \in 0 .. Len(t) : ~ Fits(k)}
<1> HIDE DEF Fits
<1>3. \A a, b, c \in Seq(X) : (a \o b) \o c = a \o (b \o c)
  BY ConcatTwice
<1>4. Bad = {}
  <2> SUFFICES ASSUME Bad # {} PROVE FALSE
    OBVIOUS
  <2>1. PICK k \in Bad : \A j \in Bad : k <= j
    <3>1. Bad \in SUBSET Nat
      BY <1>2
    <3> HIDE DEF Bad
    <3>2. QED
      BY <3>1, LeastNat
  <2>2. k \in 0 .. Len(t) /\ ~ Fits(k)
    BY <2>1
  <2>3. CASE k = 0
    <3>1. SubSeq(s, 1, 0) = << >> /\ SubSeq(t, 1, 0) = << >>
      BY SubSeqEmpty
    <3>2. FlattenSeq(<< >>) = << >>
      BY EmptySeq DEF FlattenSeq
    <3>3. Upto(1) = Upto(0) \o s[1]
      <4>1. 1 \in 1 .. Len(s) /\ 1 - 1 = 0
        BY <1>2
      <4>2. FlattenSeq(SubSeq(s, 1, 1)) = FlattenSeq(SubSeq(s, 1, 1 - 1)) \o s[1]
        BY <4>1, FlattenStep
      <4>3. QED
        BY <4>1, <4>2
    <3>4. << >> \o s[1] = s[1] /\ s[1] \o << >> = s[1]
      BY <1>2, ConcatEmptySeq
    <3>5. Upto(1) = s[1] \o More(0)
      BY <3>1, <3>2, <3>3, <3>4
    <3>6. 0 + 1 = 1
      OBVIOUS
    <3>7. Fits(0)
      BY <3>5, <3>6 DEF Fits
    <3>8. QED
      BY <2>2, <2>3, <3>7
  <2>4. CASE k # 0
    <3>1. /\ k \in 1 .. Len(t) /\ k + 1 \in 1 .. Len(s) /\ (k + 1) - 1 = k
          /\ k - 1 \in 0 .. Len(t) /\ ~ (k <= k - 1) /\ (k - 1) + 1 = k
      BY <1>2, <2>2, <2>4
    <3>2. Upto(k) = s[1] \o More(k - 1)
      <4>1. k - 1 \notin Bad
        <5> HIDE DEF Bad
        <5>1. QED
          BY <2>1, <3>1
      <4>2. Fits(k - 1)
        BY <3>1, <4>1
      <4>3. QED
        BY <3>1, <4>2 DEF Fits
    <3>3. Upto(k + 1) = Upto(k) \o s[k + 1]
      <4>1. FlattenSeq(SubSeq(s, 1, k + 1)) = FlattenSeq(SubSeq(s, 1, (k + 1) - 1)) \o s[k + 1]
        BY <3>1, FlattenStep
      <4>2. QED
        BY <3>1, <4>1
    <3>4. More(k - 1) \in Seq(X) /\ More(k) = More(k - 1) \o t[k]
      BY <3>1, FlattenStep
    <3>5. t[k] = s[k + 1] /\ t[k] \in Seq(X)
      BY <1>2, <3>1, ElementOfSeq
    <3> HIDE DEF Upto, More, Bad
    <3>6. (s[1] \o More(k - 1)) \o t[k] = s[1] \o (More(k - 1) \o t[k])
      BY <1>2, <1>3, <3>4, <3>5
    <3>7. Upto(k + 1) = s[1] \o More(k)
      BY <3>2, <3>3, <3>4, <3>5, <3>6
    <3>8. QED
      BY <2>2, <3>7 DEF Fits
  <2>5. QED
    BY <2>3, <2>4
<1>5. Upto(Len(t) + 1) = s[1] \o More(Len(t))
  <2>1. Len(t) \in 0 .. Len(t)
    BY <1>2
  <2>2. Fits(Len(t))
    BY <1>4, <2>1
  <2>3. QED
    BY <2>2 DEF Fits
<1>6. Len(t) + 1 = Len(s) /\ SubSeq(s, 1, Len(s)) = s /\ SubSeq(t, 1, Len(t)) = t
  BY <1>2, SubSeqFull
<1>7. More(Len(t)) \in Seq(X)
  BY <1>2, FlattenType
<1>8. FlattenSeq(s) = s[1] \o FlattenSeq(t) /\ FlattenSeq(t) \in Seq(X)
  BY <1>5, <1>6, <1>7
<1>9. QED
  BY <1>1, <1>8

\* The two ends of a concatenation.
LEMMA ConcatEnds ==
    ASSUME NEW X, NEW a \in Seq(X), NEW b \in Seq(X)
    PROVE  /\ SubSeq(a \o b, 1, Len(a)) = a
           /\ SubSeq(a \o b, Len(a) + 1, Len(a \o b)) = b
           /\ SubSeq(a \o b, 1, 0) = << >>
<1>1. PICK c \in Seq(X) : c = a \o b
  BY ConcatProperties
<1>2. /\ Len(a) \in Nat /\ Len(b) \in Nat /\ Len(c) = Len(a) + Len(b)
      /\ \A i \in 1 .. Len(a) + Len(b) : c[i] = IF i <= Len(a) THEN a[i] ELSE b[i - Len(a)]
  BY <1>1, ConcatProperties, LenProperties
<1>3. \A i \in 1 .. Len(c) : c[i] \in X
  BY ElementOfSeq
<1>4. SubSeq(c, 1, Len(a)) = a
  <2>1. /\ SubSeq(c, 1, Len(a)) \in Seq(X) /\ Len(SubSeq(c, 1, Len(a))) = Len(a)
        /\ \A i \in 1 .. Len(a) : SubSeq(c, 1, Len(a))[i] = c[i]
    <3>1. \A i \in 1 .. Len(a) : c[i] \in X
      BY <1>2, <1>3
    <3>2. QED
      BY <1>2, <3>1, SubSeqProperties
  <2>2. \A i \in 1 .. Len(a) : SubSeq(c, 1, Len(a))[i] = a[i]
    BY <1>2, <2>1
  <2>3. QED
    BY <2>1, <2>2, SeqEqual
<1>5. SubSeq(c, Len(a) + 1, Len(c)) = b
  <2> DEFINE d == SubSeq(c, Len(a) + 1, Len(c))
  <2>1. /\ d \in Seq(X) /\ Len(d) = Len(b)
        /\ \A i \in 1 .. Len(b) : d[i] = c[Len(a) + i]
    <3>1. \A i \in Len(a) + 1 .. Len(c) : c[i] \in X
      BY <1>2, <1>3
    <3>2. /\ d \in Seq(X)
          /\ Len(d) = IF Len(a) + 1 <= Len(c) THEN Len(c) - (Len(a) + 1) + 1 ELSE 0
          /\ \A i \in 1 .. Len(c) - (Len(a) + 1) + 1 : d[i] = c[(Len(a) + 1) + i - 1]
      BY <1>2, <3>1, SubSeqProperties
    <3> HIDE DEF d
    <3>3. \A i \in 1 .. Len(b) : (Len(a) + 1) + i - 1 = Len(a) + i
      BY <1>2
    <3>4. Len(d) = Len(b) /\ Len(c) - (Len(a) + 1) + 1 = Len(b)
      BY <1>2, <3>2
    <3>5. ASSUME NEW i \in 1 .. Len(b)
          PROVE  d[i] = c[Len(a) + i]
      <4>1. d[i] = c[(Len(a) + 1) + i - 1]
        BY <3>2, <3>4
      <4>2. QED
        BY <3>3, <4>1
    <3>6. QED
      BY <3>2, <3>4, <3>5
  <2> HIDE DEF d
  <2>2. ASSUME NEW i \in 1 .. Len(b)
        PROVE  d[i] = b[i]
    <3>1. Len(a) + i \in 1 .. Len(a) + Len(b) /\ ~ (Len(a) + i <= Len(a)) /\ (Len(a) + i) - Len(a) = i
      BY <1>2
    <3>2. c[Len(a) + i] = b[i]
      BY <1>2, <3>1
    <3>3. QED
      BY <2>1, <3>2
  <2>3. d = b
    BY <2>1, <2>2, SeqEqual
  <2>4. QED
    BY <2>3 DEF d
<1>6. SubSeq(c, 1, 0) = << >>
  BY SubSeqEmpty
<1>7. QED
  BY <1>1, <1>4, <1>5, <1>6

\* The head of a concatenation, and what it leaves.
LEMMA ConcatHead ==
    ASSUME NEW X, NEW a \in Seq(X), NEW b \in Seq(X), a # << >>
    PROVE  a \o b # << >> /\ Head(a \o b) = Head(a) /\ Tail(a \o b) = Tail(a) \o b
<1>1. PICK c \in Seq(X) : c = a \o b
  BY ConcatProperties
<1>2. /\ Len(a) \in Nat \ {0} /\ Len(b) \in Nat /\ Len(c) = Len(a) + Len(b)
      /\ \A i \in 1 .. Len(a) + Len(b) : c[i] = IF i <= Len(a) THEN a[i] ELSE b[i - Len(a)]
  BY <1>1, ConcatProperties, LenProperties, EmptySeq
<1>3. c # << >> /\ c[1] = a[1]
  BY <1>2, EmptySeq
<1>4. /\ Tail(a) \in Seq(X) /\ Len(Tail(a)) = Len(a) - 1
      /\ \A i \in 1 .. Len(Tail(a)) : Tail(a)[i] = a[i + 1]
  BY HeadTailProperties
<1>5. /\ Tail(c) \in Seq(X) /\ Len(Tail(c)) = Len(c) - 1
      /\ \A i \in 1 .. Len(Tail(c)) : Tail(c)[i] = c[i + 1]
  BY <1>3, HeadTailProperties
<1>6. /\ Tail(a) \o b \in Seq(X) /\ Len(Tail(a) \o b) = (Len(a) - 1) + Len(b)
      /\ \A i \in 1 .. (Len(a) - 1) + Len(b) :
            (Tail(a) \o b)[i] = IF i <= Len(a) - 1 THEN Tail(a)[i] ELSE b[i - (Len(a) - 1)]
  BY <1>4, ConcatProperties
<1>7. ASSUME NEW i \in 1 .. Len(Tail(c))
      PROVE  Tail(c)[i] = (Tail(a) \o b)[i]
  <2>1. i \in 1 .. (Len(a) - 1) + Len(b) /\ i + 1 \in 1 .. Len(a) + Len(b)
    BY <1>2, <1>5
  <2>2. CASE i <= Len(a) - 1
    <3>1. i + 1 <= Len(a) /\ i \in 1 .. Len(Tail(a))
      BY <1>2, <1>4, <2>1, <2>2
    <3>2. c[i + 1] = a[i + 1] /\ Tail(a)[i] = a[i + 1]
      BY <1>2, <1>4, <2>1, <3>1
    <3>3. QED
      BY <1>5, <1>6, <2>1, <2>2, <3>2
  <2>3. CASE ~ (i <= Len(a) - 1)
    <3>1. ~ (i + 1 <= Len(a)) /\ (i + 1) - Len(a) = i - (Len(a) - 1)
      BY <1>2, <2>1, <2>3
    <3>2. c[i + 1] = b[i - (Len(a) - 1)]
      BY <1>2, <2>1, <3>1
    <3>3. QED
      BY <1>5, <1>6, <2>1, <2>3, <3>2
  <2>4. QED
    BY <2>2, <2>3
<1>8. Len(Tail(c)) = Len(Tail(a) \o b)
  BY <1>2, <1>5, <1>6
<1>9. Tail(c) = Tail(a) \o b
  BY <1>5, <1>6, <1>7, <1>8, SeqEqual
<1>10. QED
  BY <1>1, <1>3, <1>9

\* Moving the head of the second part to the end of the first.
LEMMA MoveHead ==
    ASSUME NEW X, NEW a \in Seq(X), NEW b \in Seq(X), b # << >>
    PROVE  Append(a, Head(b)) \o Tail(b) = a \o b
<1>1. PICK e \in X : e = Head(b)
  BY HeadTailProperties
<1>2. PICK t \in Seq(X) : t = Tail(b)
  BY HeadTailProperties
<1>3. b = <<e>> \o t
  <2>1. /\ Len(b) \in Nat \ {0} /\ Len(t) = Len(b) - 1 /\ e = b[1]
        /\ \A i \in 1 .. Len(t) : t[i] = b[i + 1]
    BY <1>1, <1>2, HeadTailProperties, LenProperties, EmptySeq
  <2>2. /\ <<e>> \o t \in Seq(X) /\ Len(<<e>> \o t) = 1 + Len(t)
        /\ \A i \in 1 .. 1 + Len(t) : (<<e>> \o t)[i] = IF i <= 1 THEN e ELSE t[i - 1]
    <3>1. <<e>> \in Seq(X) /\ Len(<<e>>) = 1 /\ <<e>>[1] = e
      OBVIOUS
    <3>2. PICK s \in Seq(X) : s = <<e>>
      BY <3>1
    <3>3. /\ s \o t \in Seq(X) /\ Len(s \o t) = Len(s) + Len(t)
          /\ \A i \in 1 .. Len(s) + Len(t) : (s \o t)[i] = IF i <= Len(s) THEN s[i] ELSE t[i - Len(s)]
      BY ConcatProperties
    <3>4. Len(s) = 1 /\ s[1] = e
      BY <3>1, <3>2
    <3>5. \A i \in 1 .. 1 + Len(t) : (s \o t)[i] = IF i <= 1 THEN e ELSE t[i - 1]
      BY <2>1, <3>3, <3>4
    <3>6. QED
      BY <3>2, <3>3, <3>4, <3>5
  <2>3. \A i \in 1 .. Len(b) : b[i] = (<<e>> \o t)[i]
    <3>1. ASSUME NEW i \in 1 .. Len(b)
          PROVE  b[i] = (<<e>> \o t)[i]
      <4>1. i = 1 \/ (i - 1 \in 1 .. Len(t) /\ (i - 1) + 1 = i)
        BY <2>1
      <4>2. QED
        BY <2>1, <2>2, <4>1
    <3>2. QED
      BY <3>1
  <2>4. PICK d \in Seq(X) : d = <<e>> \o t
    BY <2>2
  <2>5. Len(b) = Len(d) /\ \A i \in 1 .. Len(b) : b[i] = d[i]
    BY <2>1, <2>2, <2>3, <2>4
  <2>6. b = d
    BY <2>5, SeqEqual
  <2>7. QED
    BY <2>4, <2>6
<1>4. Append(a, e) = a \o <<e>> /\ <<e>> \in Seq(X)
  BY AppendIsConcat
<1>5. PICK s \in Seq(X) : s = <<e>>
  BY <1>4
<1>6. (a \o s) \o t = a \o (s \o t)
  BY ConcatTwice
<1>7. QED
  BY <1>1, <1>2, <1>3, <1>4, <1>5, <1>6
=============================================================================
