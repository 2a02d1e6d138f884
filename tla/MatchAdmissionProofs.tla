------------------------ MODULE MatchAdmissionProofs ------------------------
(***************************************************************************)
(* Proofs about module MatchAdmission, and about the match function it     *)
(* uses (modules FlexTeams and MatchRounds).                               *)
(***************************************************************************)
EXTENDS MatchRounds, FiniteSetTheorems, SequenceTheorems, TLAPS

(* Recursion over finite sets *)

\* A set of naturals has a least one.
LEMMA Least ==
  ASSUME NEW S, S \subseteq Nat, S # {}
  PROVE  \E n \in S : \A k \in S : n <= k
<1> DEFINE R == OpToRel(<, Nat)
<1>1. R = {ss \in Nat \X Nat : ss[1] < ss[2]}
  BY Zenon DEF OpToRel
<1>2. IsWellFoundedOn(R, Nat)
  BY Zenon, NatLessThanWellFounded
<1> HIDE DEF R
<1>3. PICK n \in S : \A k \in S : <<k, n>> \notin R
  BY <1>2, WFMin
<1>4. \A k \in S : ~(k < n)
  BY <1>1, <1>3
<1> QED
  BY <1>4

\* A step of a recursion over D looks at the values of smaller arguments only.
Descends(F, mu, D, V) ==
    /\ mu \in [D -> Nat]
    /\ \E N \in Nat : \A x \in D : mu[x] <= N
    /\ F \in [D -> [[D -> V] -> V]]
    /\ \A x \in D : \A g, h \in [D -> V] :
          (\A y \in D : mu[y] < mu[x] => g[y] = h[y]) => F[x][g] = F[x][h]

LEMMA Recursion ==
  ASSUME NEW D, NEW mu, NEW V, V # {}, NEW F, Descends(F, mu, D, V)
  PROVE  \E f \in [D -> V] : \A x \in D : f[x] = F[x][f]
<1> DEFINE G == [n \in Nat |-> {g \in [D -> V] : \A x \in D : mu[x] < n => g[x] = F[x][g]}]
           bad == {n \in Nat : G[n] = {}}
<1> USE DEF Descends
<1>0. PICK N \in Nat : \A x \in D : mu[x] <= N
  OBVIOUS
<1>1. SUFFICES bad = {}
  <2>1. N + 1 \in Nat
    OBVIOUS
  <2>2. G[N + 1] # {}
    <3> HIDE DEF G
    <3> QED
      BY <1>1, <2>1
  <2>3. PICK g \in [D -> V] : \A x \in D : mu[x] < N + 1 => g[x] = F[x][g]
    BY <2>1, <2>2
  <2>4. \A x \in D : mu[x] \in Nat /\ mu[x] < N + 1
    BY <1>0
  <2> QED
    BY <2>3, <2>4
<1>2. SUFFICES ASSUME bad # {} PROVE FALSE
  OBVIOUS
<1>3. PICK n \in bad : \A k \in bad : n <= k
  <2>1. bad \subseteq Nat
    OBVIOUS
  <2> HIDE DEF bad
  <2> QED
    BY <2>1, <1>2, Least
<1>4. n # 0
  <2>1. PICK v \in V : TRUE
    OBVIOUS
  <2>2. [x \in D |-> v] \in [D -> V] /\ \A x \in D : ~(mu[x] < 0)
    OBVIOUS
  <2>3. [x \in D |-> v] \in G[0]
    BY <2>2
  <2> QED
    BY <2>3, <1>3
<1>5. n \in Nat /\ G[n] = {} /\ n - 1 \in Nat /\ G[n - 1] # {}
  <2> HIDE DEF G
  <2>1. n \in Nat /\ G[n] = {}
    OBVIOUS
  <2>2. n - 1 \in Nat /\ ~(n <= n - 1)
    BY <1>4, <2>1
  <2> QED
    BY <1>3, <2>1, <2>2
<1>6. PICK g \in [D -> V] : \A x \in D : mu[x] < n - 1 => g[x] = F[x][g]
  BY <1>5
<1> DEFINE h == [x \in D |-> F[x][g]]
<1>7. h \in [D -> V]
  OBVIOUS
<1>8. \A x \in D : mu[x] < n => \A y \in D : mu[y] < mu[x] => g[y] = h[y]
  BY <1>5, <1>6
<1>9. \A x \in D : mu[x] < n => F[x][g] = F[x][h]
  <2> SUFFICES ASSUME NEW x \in D, mu[x] < n PROVE F[x][g] = F[x][h]
    OBVIOUS
  <2>1. \A y \in D : mu[y] < mu[x] => g[y] = h[y]
    BY <1>8
  <2>2. \A k \in [D -> V] : (\A y \in D : mu[y] < mu[x] => g[y] = k[y]) => F[x][g] = F[x][k]
    OBVIOUS
  <2> HIDE DEF h
  <2> QED
    BY <1>7, <2>1, <2>2
<1>10. h \in G[n]
  BY <1>5, <1>7, <1>9
<1> QED
  BY <1>5, <1>10

\* Of some finite sets, one has no other within it.
LEMMA Innermost ==
  ASSUME NEW S, S # {}, \A s \in S : IsFiniteSet(s)
  PROVE  \E s \in S : \A t \in S : t \subseteq s => t = s
<1> DEFINE U == UNION S
           R == StrictSubsetOrdering(U)
<1>1. IsWellFoundedOn(R, FiniteSubsetsOf(U))
  BY FS_StrictSubsetOrderingWellFounded
<1>2. S \subseteq FiniteSubsetsOf(U)
  BY DEF FiniteSubsetsOf
<1>3. \A s, t \in S : t \subseteq s /\ t # s => <<t, s>> \in R
  BY DEF StrictSubsetOrdering
<1> HIDE DEF R, U
<1>4. PICK s \in S : \A t \in S : <<t, s>> \notin R
  BY <1>1, <1>2, WFMin
<1> QED
  BY <1>3, <1>4

-------------------------------------------------------------------------------
(* Sums over finite sets *)

Pick(s) == CHOOSE x \in s : TRUE

\* F is the sum of f over the sets within U, as the folds of the community
\* modules take it.
IsSum(F, f, U) ==
    /\ F \in [SUBSET U -> Nat]
    /\ F[{}] = 0
    /\ \A s \in SUBSET U : s # {} => F[s] = f[Pick(s)] + F[s \ {Pick(s)}]

LEMMA SumExists ==
  ASSUME NEW U, IsFiniteSet(U), NEW f \in [U -> Nat]
  PROVE  \E F : IsSum(F, f, U)
<1> DEFINE D == SUBSET U
           mu == [s \in D |-> Cardinality(s)]
           Step == [s \in D |-> [g \in [D -> Nat] |->
                      IF s = {} THEN 0 ELSE f[Pick(s)] + g[s \ {Pick(s)}]]]
<1>1. \A s \in D : s # {} => Pick(s) \in s /\ Pick(s) \in U /\ s \ {Pick(s)} \in D
  BY DEF Pick
<1>2. Cardinality(U) \in Nat
  BY FS_CardinalityType
<1>3. \A s \in D : Cardinality(s) \in Nat /\ Cardinality(s) <= Cardinality(U)
  BY FS_Subset, FS_CardinalityType
<1>4. mu \in [D -> Nat] /\ \A s \in D : mu[s] <= Cardinality(U)
  BY <1>3
<1>5. \A s \in D : s # {} => mu[s \ {Pick(s)}] < mu[s]
  <2> SUFFICES ASSUME NEW s \in D, s # {} PROVE mu[s \ {Pick(s)}] < mu[s]
    OBVIOUS
  <2>1. IsFiniteSet(s)
    BY FS_Subset
  <2>2. Cardinality(s \ {Pick(s)}) = Cardinality(s) - 1
    BY <1>1, <2>1, FS_RemoveElement
  <2> QED
    BY <1>1, <1>3, <2>2
<1>6. Step \in [D -> [[D -> Nat] -> Nat]]
  <2>1. \A s \in D, g \in [D -> Nat] : (IF s = {} THEN 0 ELSE f[Pick(s)] + g[s \ {Pick(s)}]) \in Nat
    <3> HIDE DEF D
    <3> QED
      BY <1>1
  <2> HIDE DEF D
  <2> QED
    BY <2>1
<1>7. \A s \in D : \A g, h \in [D -> Nat] :
         (\A t \in D : mu[t] < mu[s] => g[t] = h[t]) => Step[s][g] = Step[s][h]
  <2> HIDE DEF D, mu
  <2> QED
    BY <1>1, <1>5
<1>8. Descends(Step, mu, D, Nat)
  <2> HIDE DEF D, mu, Step
  <2> QED
    BY <1>2, <1>4, <1>6, <1>7 DEF Descends
<1>9. PICK F \in [D -> Nat] : \A s \in D : F[s] = Step[s][F]
  <2> HIDE DEF D, mu, Step
  <2> QED
    BY <1>8, Recursion
<1>10. {} \in D
  OBVIOUS
<1>11. \A s \in D : F[s] = IF s = {} THEN 0 ELSE f[Pick(s)] + F[s \ {Pick(s)}]
  <2> HIDE DEF D
  <2> QED
    BY <1>9
<1> QED
  BY <1>10, <1>11 DEF IsSum

\* The order of the elements does not matter.
Adds(F, f, U) == \A s \in SUBSET U : \A x \in U \ s : F[s \cup {x}] = f[x] + F[s]

LEMMA SumAdds ==
  ASSUME NEW U, IsFiniteSet(U), NEW f \in [U -> Nat], NEW F, IsSum(F, f, U)
  PROVE  Adds(F, f, U)
<1> DEFINE bad == {s \in SUBSET U : \E x \in U \ s : F[s \cup {x}] # f[x] + F[s]}
<1> SUFFICES ASSUME bad # {} PROVE FALSE
  BY DEF Adds
<1>1. PICK s \in bad : \A t \in bad : t \subseteq s => t = s
  <2>1. \A s \in bad : IsFiniteSet(s)
    BY FS_Subset
  <2> HIDE DEF bad
  <2> QED
    BY <2>1, Innermost
<1>2. PICK x \in U \ s : F[s \cup {x}] # f[x] + F[s]
  OBVIOUS
<1> DEFINE p == Pick(s \cup {x})
           r == s \ {p}
<1>3. p \in s \cup {x}
  BY DEF Pick
<1>4. F[s \cup {x}] = f[p] + F[(s \cup {x}) \ {p}]
  BY DEF IsSum
<1>5. p # x
  BY <1>2, <1>3, <1>4
<1>6. p \in s /\ r \in SUBSET U /\ r \notin bad /\ x \in U \ r /\ p \in U \ r
  <2>1. p \in s /\ r \in SUBSET U /\ r \subseteq s /\ r # s
    BY <1>3, <1>5
  <2> QED
    BY <1>1, <2>1
<1>7. F[r \cup {x}] = f[x] + F[r] /\ F[r \cup {p}] = f[p] + F[r]
  BY <1>6
<1>8. r \cup {p} = s /\ r \cup {x} = (s \cup {x}) \ {p}
  BY <1>5, <1>6
<1>9. F[r] \in Nat /\ f[x] \in Nat /\ f[p] \in Nat
  BY <1>6 DEF IsSum
<1> HIDE DEF p, r, bad
<1> QED
  BY <1>2, <1>4, <1>7, <1>8, <1>9

\* A function defined as the folds define theirs is the sum.
FoldsTo(G, f, S) ==
    \A s \in SUBSET S : G[s] = IF s = {} THEN 0 ELSE f[Pick(s)] + G[s \ {Pick(s)}]

LEMMA SumUnique ==
  ASSUME NEW U, IsFiniteSet(U), NEW f, NEW F, IsSum(F, f, U), NEW S \in SUBSET U,
         NEW G, FoldsTo(G, f, S)
  PROVE  G[S] = F[S]
<1> DEFINE bad == {s \in SUBSET S : G[s] # F[s]}
<1> SUFFICES ASSUME bad # {} PROVE FALSE
  OBVIOUS
<1>1. PICK s \in bad : \A t \in bad : t \subseteq s => t = s
  <2>1. \A s \in bad : IsFiniteSet(s)
    BY FS_Subset
  <2> HIDE DEF bad
  <2> QED
    BY <2>1, Innermost
<1>2. s \in SUBSET U /\ s \in SUBSET S /\ G[s] # F[s]
  OBVIOUS
<1>3. s # {}
  BY <1>2 DEF IsSum, FoldsTo
<1>4. Pick(s) \in s
  BY <1>3 DEF Pick
<1>5. s \ {Pick(s)} \in SUBSET S /\ s \ {Pick(s)} \notin bad
  BY <1>1, <1>2, <1>4
<1>6. G[s \ {Pick(s)}] = F[s \ {Pick(s)}]
  BY <1>5
<1>7. F[s] = f[Pick(s)] + F[s \ {Pick(s)}]
  BY <1>2, <1>3 DEF IsSum
<1>8. G[s] = f[Pick(s)] + G[s \ {Pick(s)}]
  BY <1>2, <1>3 DEF FoldsTo
<1> QED
  BY <1>2, <1>6, <1>7, <1>8

\* The sums the match function takes: of players, of levels, of rounded levels.
LEMMA SumOfSizes ==
  ASSUME NEW U, IsFiniteSet(U), NEW F, IsSum(F, [t \in U |-> Size(t)], U), NEW S \in SUBSET U
  PROVE  MapThenSumSet(Size, S) = F[S]
<1> DEFINE G == CHOOSE G : G = [s \in SUBSET S |->
                   IF s = {} THEN 0 ELSE Size(Pick(s)) + G[s \ {Pick(s)}]]
           H == [s \in SUBSET S |-> F[s]]
           f == [t \in U |-> Size(t)]
<1>1. MapThenSumSet(Size, S) = G[S]
  BY Zenon DEF MapThenSumSet, MapThenFoldSet, Pick
<1>2. \A s \in SUBSET S : s # {} => Pick(s) \in s /\ Pick(s) \in U /\ s \ {Pick(s)} \in SUBSET S
  BY DEF Pick
<1>3. H = [s \in SUBSET S |-> IF s = {} THEN 0 ELSE Size(Pick(s)) + H[s \ {Pick(s)}]]
  BY <1>2 DEF IsSum
<1>4. G = [s \in SUBSET S |-> IF s = {} THEN 0 ELSE Size(Pick(s)) + G[s \ {Pick(s)}]]
  <2> HIDE DEF H
  <2> QED
    BY <1>3
<1> HIDE DEF G
<1>5. FoldsTo(G, f, S)
  BY <1>2, <1>4 DEF FoldsTo
<1>6. IsSum(F, f, U)
  OBVIOUS
<1> HIDE DEF f, G
<1>7. G[S] = F[S]
  BY <1>5, <1>6, SumUnique
<1> QED
  BY <1>1, <1>7

LEMMA SumOfLevels ==
  ASSUME NEW U, IsFiniteSet(U), NEW F, IsSum(F, [p \in U |-> Level[p]], U), NEW S \in SUBSET U
  PROVE  MapThenSumSet(LAMBDA p : Level[p], S) = F[S]
<1> DEFINE G == CHOOSE G : G = [s \in SUBSET S |->
                   IF s = {} THEN 0 ELSE Level[Pick(s)] + G[s \ {Pick(s)}]]
           H == [s \in SUBSET S |-> F[s]]
           f == [p \in U |-> Level[p]]
<1>1. MapThenSumSet(LAMBDA p : Level[p], S) = G[S]
  BY Zenon DEF MapThenSumSet, MapThenFoldSet, Pick
<1>2. \A s \in SUBSET S : s # {} => Pick(s) \in s /\ Pick(s) \in U /\ s \ {Pick(s)} \in SUBSET S
  BY DEF Pick
<1>3. H = [s \in SUBSET S |-> IF s = {} THEN 0 ELSE Level[Pick(s)] + H[s \ {Pick(s)}]]
  BY <1>2 DEF IsSum
<1>4. G = [s \in SUBSET S |-> IF s = {} THEN 0 ELSE Level[Pick(s)] + G[s \ {Pick(s)}]]
  <2> HIDE DEF H
  <2> QED
    BY <1>3
<1> HIDE DEF G
<1>5. FoldsTo(G, f, S)
  BY <1>2, <1>4 DEF FoldsTo
<1>6. IsSum(F, f, U)
  OBVIOUS
<1> HIDE DEF f, G
<1>7. G[S] = F[S]
  BY <1>5, <1>6, SumUnique
<1> QED
  BY <1>1, <1>7

LEMMA SumOfWeights ==
  ASSUME NEW U, IsFiniteSet(U), NEW F, IsSum(F, [t \in U |-> AvgLevel(t) * Size(t)], U), NEW S \in SUBSET U
  PROVE  MapThenSumSet(LAMBDA t : AvgLevel(t) * Size(t), S) = F[S]
<1> DEFINE G == CHOOSE G : G = [s \in SUBSET S |->
                   IF s = {} THEN 0 ELSE AvgLevel(Pick(s)) * Size(Pick(s)) + G[s \ {Pick(s)}]]
           H == [s \in SUBSET S |-> F[s]]
           f == [t \in U |-> AvgLevel(t) * Size(t)]
<1>1. MapThenSumSet(LAMBDA t : AvgLevel(t) * Size(t), S) = G[S]
  BY Zenon DEF MapThenSumSet, MapThenFoldSet, Pick
<1>2. \A s \in SUBSET S : s # {} => Pick(s) \in s /\ Pick(s) \in U /\ s \ {Pick(s)} \in SUBSET S
  BY DEF Pick
<1>3. H = [s \in SUBSET S |-> IF s = {} THEN 0 ELSE AvgLevel(Pick(s)) * Size(Pick(s)) + H[s \ {Pick(s)}]]
  BY <1>2 DEF IsSum
<1>4. G = [s \in SUBSET S |-> IF s = {} THEN 0 ELSE AvgLevel(Pick(s)) * Size(Pick(s)) + G[s \ {Pick(s)}]]
  <2> HIDE DEF H
  <2> QED
    BY <1>3
<1> HIDE DEF G
<1>5. FoldsTo(G, f, S)
  BY <1>2, <1>4 DEF FoldsTo
<1>6. IsSum(F, f, U)
  OBVIOUS
<1> HIDE DEF f, G
<1>7. G[S] = F[S]
  BY <1>5, <1>6, SumUnique
<1> QED
  BY <1>1, <1>7

-------------------------------------------------------------------------------
(* The match function *)

LEMMA SizeType ==
  ASSUME NEW B, IsBatch(B), NEW t \in B
  PROVE  Size(t) \in Nat \ {0}
<1>1. IsFiniteSet(t.players) /\ t.players # {}
  BY DEF IsBatch
<1> QED
  BY <1>1, FS_CardinalityType, FS_EmptySet DEF Size

LEMMA AvgLevelType ==
  ASSUME NEW B, IsBatch(B), NEW t \in B
  PROVE  AvgLevel(t) \in Nat
<1> DEFINE U == t.players
           f == [p \in U |-> Level[p]]
           sum == MapThenSumSet(LAMBDA p : Level[p], U)
<1>1. IsFiniteSet(U) /\ f \in [U -> Nat]
  BY MatchAssumption DEF IsBatch
<1>2. PICK F : IsSum(F, f, U)
  <2> HIDE DEF f, U
  <2> QED
    BY <1>1, SumExists
<1>3. sum = F[U]
  <2>1. U \in SUBSET U
    OBVIOUS
  <2> HIDE DEF U
  <2> QED
    BY <1>1, <1>2, <2>1, SumOfLevels DEF f
<1>4. sum \in Nat
  <2>1. F[U] \in Nat
    BY <1>2 DEF IsSum
  <2> HIDE DEF sum
  <2> QED
    BY <1>3, <2>1
<1>5. AvgLevel(t) = sum \div Size(t)
  BY Zenon DEF AvgLevel
<1> HIDE DEF sum
<1> QED
  BY <1>4, <1>5, SizeType

\* The tickets of a batch have a first.
LEMMA FirstIn ==
  ASSUME NEW B, IsBatch(B), NEW S \in SUBSET B, S # {}
  PROVE  First(S) \in S
<1> DEFINE levels == {AvgLevel(t) : t \in S}
<1>1. levels \subseteq Nat /\ levels # {}
  BY AvgLevelType
<1>2. PICK l \in levels : \A k \in levels : l <= k
  <2> HIDE DEF levels
  <2> QED
    BY <1>1, Least
<1> DEFINE ids == {t.id : t \in {t \in S : AvgLevel(t) = l}}
<1>3. ids \subseteq Nat /\ ids # {}
  BY <1>2 DEF IsBatch
<1>4. PICK n \in ids : \A k \in ids : n <= k
  <2> HIDE DEF ids
  <2> QED
    BY <1>3, Least
<1>5. PICK t \in S : AvgLevel(t) = l /\ t.id = n
  BY <1>4
<1>6. \A u \in S \ {t} : Before(t, u)
  <2> SUFFICES ASSUME NEW u \in S \ {t} PROVE Before(t, u)
    OBVIOUS
  <2>1. AvgLevel(t) \in Nat /\ AvgLevel(u) \in Nat /\ AvgLevel(t) <= AvgLevel(u)
    BY <1>2, <1>5, AvgLevelType
  <2>2. CASE AvgLevel(u) = AvgLevel(t)
    <3>1. t.id <= u.id /\ t.id # u.id /\ t.id \in Nat /\ u.id \in Nat
      BY <1>4, <1>5, <2>2 DEF IsBatch
    <3> QED
      BY <2>2, <3>1 DEF Before
  <2>3. CASE AvgLevel(u) # AvgLevel(t)
    BY <2>1, <2>3 DEF Before
  <2> QED
    BY <2>2, <2>3
<1> QED
  BY <1>6 DEF First

\* A step of the search for a side, g being the search among fewer tickets.
Search(s, r, g) ==
    IF s = {} THEN {}
    ELSE IF Size(First(s)) = r THEN {First(s)}
    ELSE IF Size(First(s)) < r /\ g[s \ {First(s)}][r - Size(First(s))] # {}
         THEN {First(s)} \cup g[s \ {First(s)}][r - Size(First(s))]
         ELSE g[s \ {First(s)}][r]

IsSearch(g, S, n) == g = [s \in SUBSET S |-> [r \in 0..n |-> Search(s, r, g)]]

LEMMA SearchExists ==
  ASSUME NEW B, IsBatch(B), NEW S \in SUBSET B, NEW n \in Nat
  PROVE  \E g : IsSearch(g, S, n)
<1> DEFINE D == SUBSET S
           V == [0..n -> SUBSET S]
           mu == [s \in D |-> Cardinality(s)]
           Step == [s \in D |-> [g \in [D -> V] |-> [r \in 0..n |-> Search(s, r, g)]]]
<1>1. IsFiniteSet(S)
  BY FS_Subset DEF IsBatch
<1>2. \A s \in D : s # {} => /\ First(s) \in s /\ First(s) \in S /\ s \ {First(s)} \in D
                             /\ Size(First(s)) \in Nat \ {0}
  <2> SUFFICES ASSUME NEW s \in D, s # {}
               PROVE  /\ First(s) \in s /\ First(s) \in S /\ s \ {First(s)} \in D
                      /\ Size(First(s)) \in Nat \ {0}
    OBVIOUS
  <2>1. First(s) \in s
    BY FirstIn
  <2> QED
    BY <2>1, SizeType
<1>3. Cardinality(S) \in Nat /\ \A s \in D : Cardinality(s) \in Nat /\ Cardinality(s) <= Cardinality(S)
  BY <1>1, FS_Subset, FS_CardinalityType
<1>4. \A s \in D : s # {} => mu[s \ {First(s)}] < mu[s]
  <2> SUFFICES ASSUME NEW s \in D, s # {} PROVE mu[s \ {First(s)}] < mu[s]
    OBVIOUS
  <2>1. IsFiniteSet(s)
    BY <1>1, FS_Subset
  <2>2. Cardinality(s \ {First(s)}) = Cardinality(s) - 1
    BY <1>2, <2>1, FS_RemoveElement
  <2> QED
    BY <1>2, <1>3, <2>2
<1>5. Step \in [D -> [[D -> V] -> V]]
  <2>1. \A s \in D, g \in [D -> V], r \in 0..n : Search(s, r, g) \in SUBSET S
    <3> SUFFICES ASSUME NEW s \in D, NEW g \in [D -> V], NEW r \in 0..n, s # {}
                 PROVE  Search(s, r, g) \in SUBSET S
      BY DEF Search
    <3> DEFINE t == First(s)
               k == g[s \ {t}]
    <3>1. t \in S /\ Size(t) \in Nat \ {0} /\ k \in [0..n -> SUBSET S]
      BY <1>2
    <3>2. k[r] \in SUBSET S /\ (Size(t) < r => k[r - Size(t)] \in SUBSET S)
      <4> HIDE DEF t, k
      <4> QED
        BY <3>1
    <3> QED
      BY <3>1, <3>2 DEF Search
  <2>2. \A s \in D, g \in [D -> V] : [r \in 0..n |-> Search(s, r, g)] \in V
    BY <2>1
  <2> HIDE DEF D, V
  <2> QED
    BY <2>2
<1>6. ASSUME NEW s \in D, NEW g \in [D -> V], NEW h \in [D -> V],
             \A t \in D : mu[t] < mu[s] => g[t] = h[t]
      PROVE  Step[s][g] = Step[s][h]
  <2>1. s # {} => g[s \ {First(s)}] = h[s \ {First(s)}]
    BY <1>2, <1>4, <1>6
  <2>2. \A r \in 0..n : Search(s, r, g) = Search(s, r, h)
    BY <2>1 DEF Search
  <2>3. [r \in 0..n |-> Search(s, r, g)] = [r \in 0..n |-> Search(s, r, h)]
    BY <2>2
  <2> HIDE DEF D, V, mu
  <2> QED
    BY <2>3
<1>7. mu \in [D -> Nat] /\ \A s \in D : mu[s] <= Cardinality(S)
  BY <1>3
<1>8. V # {}
  <2>1. [r \in 0..n |-> {}] \in V
    OBVIOUS
  <2> QED
    BY <2>1
<1>9. Descends(Step, mu, D, V)
  <2> HIDE DEF D, V, mu, Step
  <2> QED
    BY <1>3, <1>5, <1>6, <1>7 DEF Descends
<1>10. PICK g \in [D -> V] : \A s \in D : g[s] = Step[s][g]
  <2> HIDE DEF D, V, mu, Step
  <2> QED
    BY <1>8, <1>9, Recursion
<1>11. \A s \in D : g[s] = [r \in 0..n |-> Search(s, r, g)]
  <2> HIDE DEF D, V
  <2> QED
    BY <1>10
<1>12. g = [s \in D |-> [r \in 0..n |-> Search(s, r, g)]]
  <2> HIDE DEF V
  <2> QED
    BY <1>11
<1> QED
  BY <1>12 DEF IsSearch

LEMMA PickSideSearches ==
  ASSUME NEW B, IsBatch(B), NEW S \in SUBSET B, NEW n \in Nat
  PROVE  \E g : IsSearch(g, S, n) /\ PickSide(S, n) = g[S][n]
<1> DEFINE g == CHOOSE g : IsSearch(g, S, n)
<1>1. PickSide(S, n) = g[S][n]
  BY Zenon DEF PickSide, NoSide, IsSearch, Search
<1>2. IsSearch(g, S, n)
  <2>1. \E h : IsSearch(h, S, n)
    BY SearchExists
  <2> QED
    BY <2>1
<1> HIDE DEF g
<1> QED
  BY <1>1, <1>2

IsCount(F, B) == IsSum(F, [t \in B |-> Size(t)], B)

LEMMA CountExists ==
  ASSUME NEW B, IsBatch(B)
  PROVE  \E F : IsCount(F, B)
<1> DEFINE f == [t \in B |-> Size(t)]
<1>1. f \in [B -> Nat] /\ IsFiniteSet(B)
  BY SizeType DEF IsBatch
<1>2. \E F : IsSum(F, f, B)
  <2> HIDE DEF f
  <2> QED
    BY <1>1, SumExists
<1> QED
  BY <1>2 DEF IsCount

\* The number of players of a side, one ticket at a time.
LEMMA CountAdds ==
  ASSUME NEW B, IsBatch(B), NEW F, IsCount(F, B)
  PROVE  /\ F[{}] = 0
         /\ \A s \in SUBSET B : F[s] \in Nat /\ (s # {} => F[s] > 0)
         /\ \A s \in SUBSET B : \A t \in B \ s : F[s \cup {t}] = Size(t) + F[s]
<1> DEFINE f == [t \in B |-> Size(t)]
<1>1. f \in [B -> Nat] /\ IsFiniteSet(B) /\ IsSum(F, f, B)
  BY SizeType DEF IsBatch, IsCount
<1>2. \A s \in SUBSET B : \A t \in B \ s : F[s \cup {t}] = f[t] + F[s]
  <2> HIDE DEF f
  <2>1. Adds(F, f, B)
    BY <1>1, SumAdds
  <2> QED
    BY <2>1 DEF Adds
<1>3. \A s \in SUBSET B : F[s] \in Nat
  BY <1>1 DEF IsSum
<1>4. ASSUME NEW s \in SUBSET B, s # {} PROVE F[s] > 0
  <2>1. PICK t \in s : TRUE
    BY <1>4
  <2>2. F[s] = Size(t) + F[s \ {t}]
    <3>1. s \ {t} \in SUBSET B /\ t \in B \ (s \ {t}) /\ (s \ {t}) \cup {t} = s
      BY <2>1
    <3> QED
      BY <1>2, <3>1
  <2>3. Size(t) \in Nat \ {0} /\ F[s \ {t}] \in Nat
    BY <1>3, SizeType
  <2> QED
    BY <2>2, <2>3
<1> QED
  BY <1>1, <1>2, <1>3, <1>4 DEF IsSum

\* What is asked of the search for a side of r players among the tickets s.
IsFound(side, s, r, F) ==
    /\ side \in SUBSET s
    /\ side # {} => F[side] = r
    /\ (\E c \in SUBSET s : c # {} /\ F[c] = r) => side # {}

LEMMA SearchFinds ==
  ASSUME NEW B, IsBatch(B), NEW S \in SUBSET B, NEW n \in Nat, NEW g, IsSearch(g, S, n),
         NEW F, IsCount(F, B)
  PROVE  \A s \in SUBSET S : \A r \in 0..n : IsFound(g[s][r], s, r, F)
<1> DEFINE bad == {s \in SUBSET S : \E r \in 0..n : ~IsFound(g[s][r], s, r, F)}
<1> SUFFICES ASSUME bad # {} PROVE FALSE
  OBVIOUS
<1>1. PICK s \in bad : \A t \in bad : t \subseteq s => t = s
  <2>1. \A s \in bad : IsFiniteSet(s)
    BY FS_Subset DEF IsBatch
  <2> HIDE DEF bad
  <2> QED
    BY <2>1, Innermost
<1>2. PICK r \in 0..n : ~IsFound(g[s][r], s, r, F)
  OBVIOUS
<1>3. s \in SUBSET S /\ s \in SUBSET B
  OBVIOUS
<1>4. g[s][r] = Search(s, r, g)
  BY <1>3 DEF IsSearch
<1>5. s # {}
  BY <1>2, <1>4 DEF Search, IsFound
<1> DEFINE t == First(s)
           o == s \ {t}
           k == g[o]
<1>6. t \in s /\ t \in B /\ o \in SUBSET S /\ o \in SUBSET B /\ Size(t) \in Nat \ {0}
  BY <1>3, <1>5, FirstIn, SizeType
<1>7. \A q \in 0..n : IsFound(k[q], o, q, F)
  <2>1. o \notin bad
    BY <1>1, <1>6
  <2> QED
    BY <1>6, <2>1
<1>8. g[s][r] = IF Size(t) = r THEN {t}
                ELSE IF Size(t) < r /\ k[r - Size(t)] # {} THEN {t} \cup k[r - Size(t)]
                ELSE k[r]
  BY <1>4, <1>5 DEF Search
<1> HIDE DEF t, k, bad
<1>9. CASE Size(t) = r
  <2>1. F[{t}] = r
    <3>1. {} \in SUBSET B /\ t \in B \ {} /\ {} \cup {t} = {t}
      BY <1>6
    <3>2. F[{} \cup {t}] = Size(t) + F[{}] /\ F[{}] = 0
      BY <3>1, CountAdds
    <3> QED
      BY <1>6, <1>9, <3>1, <3>2
  <2> QED
    BY <1>2, <1>6, <1>8, <1>9, <2>1 DEF IsFound
<1>10. CASE Size(t) < r /\ k[r - Size(t)] # {}
  <2> DEFINE c == k[r - Size(t)]
  <2>1. IsFound(c, o, r - Size(t), F)
    <3>1. r - Size(t) \in 0..n
      BY <1>6, <1>10
    <3> QED
      BY <1>7, <3>1
  <2>2. c \in SUBSET B /\ t \in B \ c /\ F[c] = r - Size(t)
    BY <1>6, <1>10, <2>1 DEF IsFound
  <2>3. F[c \cup {t}] = r
    <3>1. F[c \cup {t}] = Size(t) + F[c]
      BY <2>2, CountAdds
    <3> QED
      BY <1>6, <2>2, <3>1
  <2>4. g[s][r] = c \cup {t} /\ c \cup {t} \in SUBSET s /\ c \cup {t} # {}
    BY <1>6, <1>8, <1>10, <2>1 DEF IsFound
  <2> HIDE DEF c
  <2> QED
    BY <1>2, <2>3, <2>4 DEF IsFound
<1>11. CASE Size(t) # r /\ ~(Size(t) < r /\ k[r - Size(t)] # {})
  <2>1. g[s][r] = k[r] /\ IsFound(k[r], o, r, F)
    BY <1>7, <1>8, <1>11
  <2>2. ASSUME NEW c \in SUBSET s, c # {}, F[c] = r PROVE k[r] # {}
    <3>1. CASE t \notin c
      BY <2>1, <2>2, <3>1 DEF IsFound
    <3>2. CASE t \in c
      <4> DEFINE d == c \ {t}
      <4>1. d \in SUBSET o /\ d \in SUBSET B /\ t \in B \ d /\ d \cup {t} = c
        BY <1>3, <1>6, <3>2
      <4> HIDE DEF d, o
      <4>2. F[c] = Size(t) + F[d] /\ F[d] \in Nat /\ (d # {} => F[d] > 0) /\ (d = {} => F[d] = 0)
        <5>1. F[d \cup {t}] = Size(t) + F[d] /\ F[d] \in Nat /\ (d # {} => F[d] > 0) /\ F[{}] = 0
          BY <4>1, CountAdds
        <5> QED
          BY <4>1, <5>1
      <4>3. d # {}
        BY <1>6, <1>11, <2>2, <4>2
      <4>4. Size(t) < r /\ r - Size(t) \in 0..n /\ F[d] = r - Size(t)
        BY <1>6, <2>2, <4>2, <4>3
      <4>5. IsFound(k[r - Size(t)], o, r - Size(t), F)
        BY <1>7, <4>4
      <4> QED
        BY <1>11, <4>1, <4>3, <4>4, <4>5 DEF IsFound
    <3> QED
      BY <3>1, <3>2
  <2> QED
    BY <1>2, <2>1, <2>2 DEF IsFound
<1> QED
  BY <1>9, <1>10, <1>11

LEMMA PickSideFinds ==
  ASSUME NEW B, IsBatch(B), NEW S \in SUBSET B, NEW n \in Nat, NEW F, IsCount(F, B)
  PROVE  IsFound(PickSide(S, n), S, n, F)
<1>1. PICK g : IsSearch(g, S, n) /\ PickSide(S, n) = g[S][n]
  BY PickSideSearches
<1>2. S \in SUBSET S /\ n \in 0..n
  OBVIOUS
<1> QED
  BY <1>1, <1>2, SearchFinds

LEMMA SideLevelType ==
  ASSUME NEW B, IsBatch(B), NEW side \in SUBSET B, NEW n \in Nat \ {0}
  PROVE  SideLevel(side, n) \in Nat
<1> DEFINE f == [t \in B |-> AvgLevel(t) * Size(t)]
           sum == MapThenSumSet(LAMBDA t : AvgLevel(t) * Size(t), side)
<1>1. IsFiniteSet(B) /\ f \in [B -> Nat]
  <2>1. \A t \in B : AvgLevel(t) \in Nat /\ Size(t) \in Nat
    BY AvgLevelType, SizeType
  <2>2. \A a, b \in Nat : a * b \in Nat
    OBVIOUS
  <2> QED
    BY <2>1, <2>2 DEF IsBatch
<1>2. PICK F : IsSum(F, f, B)
  <2> HIDE DEF f
  <2> QED
    BY <1>1, SumExists
<1>3. sum = F[side]
  BY <1>1, <1>2, SumOfWeights DEF f
<1>4. sum \in Nat
  <2>1. F[side] \in Nat
    BY <1>2 DEF IsSum
  <2> HIDE DEF sum
  <2> QED
    BY <1>3, <2>1
<1>5. SideLevel(side, n) = sum \div n
  BY Zenon DEF SideLevel
<1> HIDE DEF sum
<1> QED
  BY <1>4, <1>5

\* A match of tickets of the set s: two sides that share no ticket, with as
\* many players and close levels.
IsFair(red, blue, F) ==
    /\ F[red] = F[blue] /\ F[red] \in 1..MaxSide
    /\ SideLevel(red, F[red]) - SideLevel(blue, F[red]) \in (-MaxGap)..MaxGap
IsMatch(m, s, F) ==
    /\ m \in [red : SUBSET s, blue : SUBSET s]
    /\ m.red # {} /\ m.blue # {} /\ m.red \cap m.blue = {}
    /\ IsFair(m.red, m.blue, F)

\* One attempt of formOne that is not given up.
LEMMA SidesMatch ==
  ASSUME NEW B, IsBatch(B), NEW F, IsCount(F, B), NEW S \in SUBSET B, NEW n \in 1..MaxSide,
         Formed(SidesOf(S, n), n)
  PROVE  IsMatch(SidesOf(S, n), S, F)
<1> DEFINE red == PickSide(S, n)
           blue == PickSide(S \ red, n)
<1>1. n \in Nat \ {0}
  BY FlexAssumption
<1>2. IsFound(red, S, n, F)
  BY <1>1, PickSideFinds
<1>3. IsFound(blue, S \ red, n, F)
  <2>1. S \ red \in SUBSET B
    OBVIOUS
  <2> HIDE DEF red
  <2> QED
    BY <1>1, <2>1, PickSideFinds
<1>4. SidesOf(S, n) = [red |-> red, blue |-> blue]
  <2>1. red \in SUBSET S
    BY <1>2 DEF IsFound
  <2> QED
    BY <2>1 DEF SidesOf
<1> HIDE DEF red, blue
<1>5. red # {} /\ blue # {} /\ F[red] = n /\ F[blue] = n /\ red \in SUBSET S /\ blue \in SUBSET S
      /\ red \cap blue = {}
  BY <1>2, <1>3, <1>4 DEF Formed, NoSide, IsFound
<1> DEFINE a == SideLevel(red, n)
           b == SideLevel(blue, n)
<1>6. a \in Nat /\ b \in Nat
  BY <1>1, <1>5, SideLevelType
<1>7. (IF a < b THEN b - a ELSE a - b) <= MaxGap
  BY <1>4 DEF Formed
<1>8. a - b \in (-MaxGap)..MaxGap
  <2> HIDE DEF a, b
  <2> QED
    BY <1>6, <1>7, FlexAssumption
<1> QED
  BY <1>4, <1>5, <1>8 DEF IsMatch, IsFair

LEMMA FormOneMatch ==
  ASSUME NEW B, IsBatch(B), NEW F, IsCount(F, B), NEW S \in SUBSET B
  PROVE  /\ \A m \in FormOne(S) : IsMatch(m, S, F)
         /\ \A m, k \in FormOne(S) : m = k
<1> DEFINE half == MapThenSumSet(Size, S) \div 2
           sizes == {n \in 1..MaxSide : n <= half}
           tried == {[n |-> n, match |-> SidesOf(S, n)] : n \in sizes}
           formed == {s \in tried : Formed(s.match, s.n)}
<1>1. FormOne(S) = {s.match : s \in {s \in formed : \A o \in formed : o.n <= s.n}}
  BY Zenon DEF FormOne
<1>2. \A s \in formed : s.n \in 1..MaxSide /\ s.match = SidesOf(S, s.n) /\ Formed(s.match, s.n)
  <2> HIDE DEF half
  <2> QED
    OBVIOUS
<1> HIDE DEF formed
<1>3. \A s \in formed : IsMatch(s.match, S, F)
  BY <1>2, SidesMatch
<1>4. \A s, o \in formed : s.n <= o.n /\ o.n <= s.n => s.match = o.match
  BY <1>2
<1> QED
  BY <1>1, <1>3, <1>4

AreRounds(g, S) == g = [s \in SUBSET S |-> UNION {{m} \cup g[s \ TicketsIn(m)] : m \in FormOne(s)}]

LEMMA RoundsExist ==
  ASSUME NEW B, IsBatch(B)
  PROVE  \E g : AreRounds(g, B)
<1> DEFINE D == SUBSET B
           M == [red : D, blue : D]
           V == SUBSET M
           mu == [s \in D |-> Cardinality(s)]
           Step == [s \in D |-> [g \in [D -> V] |->
                       UNION {{m} \cup g[s \ TicketsIn(m)] : m \in FormOne(s)}]]
<1>1. PICK F : IsCount(F, B)
  BY CountExists
<1>2. Cardinality(B) \in Nat /\ \A s \in D : IsFiniteSet(s) /\ Cardinality(s) \in Nat /\ Cardinality(s) <= Cardinality(B)
  BY FS_Subset, FS_CardinalityType DEF IsBatch
<1>3. ASSUME NEW s \in D, NEW m \in FormOne(s)
      PROVE  m \in M /\ s \ TicketsIn(m) \in D /\ mu[s \ TicketsIn(m)] < mu[s]
  <2>1. IsMatch(m, s, F)
    BY <1>1, FormOneMatch
  <2>2. m \in M /\ s \ TicketsIn(m) \in SUBSET s /\ s \ TicketsIn(m) # s
    BY <2>1 DEF IsMatch, TicketsIn
  <2> DEFINE r == s \ TicketsIn(m)
  <2>3. r \in D /\ r \in SUBSET s /\ r # s
    BY <2>2
  <2> HIDE DEF r
  <2>4. Cardinality(r) <= Cardinality(s) /\ Cardinality(r) # Cardinality(s)
    BY <1>2, <2>3, FS_Subset
  <2>5. Cardinality(r) < Cardinality(s)
    BY <1>2, <2>3, <2>4
  <2> QED
    BY <2>2, <2>3, <2>5 DEF r
<1>4. Step \in [D -> [[D -> V] -> V]]
  <2>1. ASSUME NEW s \in D, NEW g \in [D -> V]
        PROVE  UNION {{m} \cup g[s \ TicketsIn(m)] : m \in FormOne(s)} \in V
    <3> HIDE DEF D, M, mu
    <3> QED
      BY <1>3
  <2> HIDE DEF D, V
  <2> QED
    BY <2>1
<1>5. ASSUME NEW s \in D, NEW g \in [D -> V], NEW h \in [D -> V],
             \A t \in D : mu[t] < mu[s] => g[t] = h[t]
      PROVE  Step[s][g] = Step[s][h]
  <2> HIDE DEF D, V, mu, M
  <2>1. \A m \in FormOne(s) : g[s \ TicketsIn(m)] = h[s \ TicketsIn(m)]
    BY <1>3, <1>5
  <2>2. {{m} \cup g[s \ TicketsIn(m)] : m \in FormOne(s)} = {{m} \cup h[s \ TicketsIn(m)] : m \in FormOne(s)}
    BY <2>1
  <2> QED
    BY <2>2
<1>6. mu \in [D -> Nat] /\ \A s \in D : mu[s] <= Cardinality(B)
  BY <1>2
<1>7. V # {}
  OBVIOUS
<1>8. Descends(Step, mu, D, V)
  <2> HIDE DEF D, V, mu, Step
  <2> QED
    BY <1>2, <1>4, <1>5, <1>6 DEF Descends
<1>9. PICK g \in [D -> V] : \A s \in D : g[s] = Step[s][g]
  <2> HIDE DEF D, V, mu, Step
  <2> QED
    BY <1>7, <1>8, Recursion
<1>10. \A s \in D : g[s] = UNION {{m} \cup g[s \ TicketsIn(m)] : m \in FormOne(s)}
  <2> HIDE DEF D, V
  <2> QED
    BY <1>9
<1>11. g = [s \in D |-> UNION {{m} \cup g[s \ TicketsIn(m)] : m \in FormOne(s)}]
  <2> HIDE DEF V
  <2> QED
    BY <1>10
<1> QED
  BY <1>11 DEF AreRounds

\* The matches of a round over the tickets s: they are matches, they share no
\* ticket, and of the tickets they leave formOne makes none.
IsRound(R, s, F) ==
    /\ IsFiniteSet(R)
    /\ \A m \in R : IsMatch(m, s, F)
    /\ \A m, k \in R : m # k => TicketsIn(m) \cap TicketsIn(k) = {}
    /\ FormOne(s \ UNION {TicketsIn(m) : m \in R}) = {}

LEMMA RoundsFound ==
  ASSUME NEW B, IsBatch(B), NEW F, IsCount(F, B), NEW g, AreRounds(g, B)
  PROVE  \A s \in SUBSET B : IsRound(g[s], s, F)
<1> DEFINE bad == {s \in SUBSET B : ~IsRound(g[s], s, F)}
<1> SUFFICES ASSUME bad # {} PROVE FALSE
  OBVIOUS
<1>1. PICK s \in bad : \A t \in bad : t \subseteq s => t = s
  <2>1. \A s \in bad : IsFiniteSet(s)
    BY FS_Subset DEF IsBatch
  <2> HIDE DEF bad
  <2> QED
    BY <2>1, Innermost
<1>2. s \in SUBSET B /\ ~IsRound(g[s], s, F)
  OBVIOUS
<1>3. g[s] = UNION {{m} \cup g[s \ TicketsIn(m)] : m \in FormOne(s)}
  BY <1>2 DEF AreRounds
<1>4. CASE FormOne(s) = {}
  <2>1. g[s] = {}
    BY <1>3, <1>4
  <2>2. s \ UNION {TicketsIn(m) : m \in {}} = s
    OBVIOUS
  <2> QED
    BY <1>2, <1>4, <2>1, <2>2, FS_EmptySet DEF IsRound
<1>5. CASE FormOne(s) # {}
  <2>a. (\A m \in FormOne(s) : IsMatch(m, s, F)) /\ (\A m, k \in FormOne(s) : m = k)
    <3> HIDE DEF bad
    <3> QED
      BY <1>2, FormOneMatch
  <2>1. PICK m : FormOne(s) = {m}
    <3> HIDE DEF bad
    <3>1. PICK m : m \in FormOne(s)
      BY <1>5
    <3> QED
      BY <2>a, <3>1
  <2>2. IsMatch(m, s, F)
    <3> HIDE DEF bad
    <3> QED
      BY <2>a, <2>1
  <2> DEFINE r == s \ TicketsIn(m)
  <2>3. r \in SUBSET B /\ r \subseteq s /\ r # s
    BY <1>2, <2>2 DEF IsMatch, TicketsIn
  <2>4. IsRound(g[r], r, F)
    BY <1>1, <2>3
  <2>5. g[s] = {m} \cup g[r]
    BY <1>3, <2>1
  <2>6. IsFiniteSet(g[s])
    <3>1. IsFiniteSet(g[r]) /\ g[s] = g[r] \cup {m}
      BY <2>4, <2>5 DEF IsRound
    <3> HIDE DEF r
    <3> QED
      BY <3>1, FS_AddElement
  <2>7. \A k \in g[r] : IsMatch(k, s, F) /\ TicketsIn(m) \cap TicketsIn(k) = {}
    BY <2>4 DEF IsRound, IsMatch, TicketsIn
  <2>8. s \ UNION {TicketsIn(k) : k \in g[s]} = r \ UNION {TicketsIn(k) : k \in g[r]}
    BY <2>5
  <2> HIDE DEF r
  <2> QED
    BY <1>2, <2>2, <2>4, <2>5, <2>6, <2>7, <2>8 DEF IsRound
<1> QED
  BY <1>4, <1>5

\* FlexTeams.Run.
LEMMA RunFound ==
  ASSUME NEW B, IsBatch(B), NEW F, IsCount(F, B), Cardinality(B) >= 2
  PROVE  IsRound(Run(B), B, F)
<1> DEFINE g == CHOOSE g : AreRounds(g, B)
<1>1. Run(B) = IF Cardinality(B) < 2 THEN {} ELSE g[B]
  BY Zenon DEF Run, AreRounds, TicketsIn
<1>2. AreRounds(g, B)
  <2>1. \E h : AreRounds(h, B)
    BY RoundsExist
  <2> QED
    BY <2>1
<1> HIDE DEF g
<1>3. B \in SUBSET B /\ ~(Cardinality(B) < 2)
  BY FS_CardinalityType DEF IsBatch
<1> QED
  BY <1>1, <1>2, <1>3, RoundsFound

\* Whatever the batch, a round makes matches that share no ticket.
LEMMA RunMatches ==
  ASSUME NEW B, IsBatch(B), NEW F, IsCount(F, B)
  PROVE  /\ IsFiniteSet(Run(B))
         /\ \A m \in Run(B) : IsMatch(m, B, F)
         /\ \A m, k \in Run(B) : m # k => TicketsIn(m) \cap TicketsIn(k) = {}
<1>1. CASE Cardinality(B) < 2
  <2>1. Run(B) = {}
    BY Zenon, <1>1 DEF Run
  <2> QED
    BY <2>1, FS_EmptySet
<1>2. CASE ~(Cardinality(B) < 2)
  <2>1. Cardinality(B) >= 2
    BY <1>2, FS_CardinalityType DEF IsBatch
  <2> QED
    BY <2>1, RunFound DEF IsRound
<1> QED
  BY <1>1, <1>2

LEMMA HeadcountCounts ==
  ASSUME NEW B, IsBatch(B), NEW F, IsCount(F, B), NEW side \in SUBSET B
  PROVE  Headcount(side) = F[side]
<1>1. IsFiniteSet(B) /\ IsSum(F, [t \in B |-> Size(t)], B)
  BY DEF IsBatch, IsCount
<1>2. MapThenSumSet(Size, side) = F[side]
  BY <1>1, SumOfSizes
<1> QED
  BY Zenon, <1>2 DEF Headcount

\* pickSide, for every batch and every size of a side: what it returns are
\* tickets of the batch that hold exactly that many players, and it returns
\* a side whenever some tickets of the batch hold that many. A search that
\* keeps the first tickets that fit, and does not go back on them, has the
\* first property only.
THEOREM SideSearch ==
  ASSUME NEW B, IsBatch(B), NEW n \in Nat
  PROVE  /\ PickSide(B, n) \subseteq B
         /\ PickSide(B, n) # NoSide => Headcount(PickSide(B, n)) = n
         /\ (\E side \in SUBSET B : side # {} /\ Headcount(side) = n) => PickSide(B, n) # NoSide
<1>1. PICK F : IsCount(F, B)
  BY CountExists
<1>2. PICK side : side = PickSide(B, n)
  OBVIOUS
<1>3. IsFound(side, B, n, F)
  BY <1>1, <1>2, PickSideFinds
<1>4. \A c \in SUBSET B : Headcount(c) = F[c]
  BY <1>1, HeadcountCounts
<1> QED
  BY <1>2, <1>3, <1>4 DEF IsFound, NoSide

\* A round of the engine, for every batch: each match has two sides of
\* tickets of the batch that share no ticket, hold as many players, at most
\* MaxSide of them, and whose levels are at most MaxGap apart; no ticket is in
\* two matches of the round; and the round does not end before formOne finds
\* nothing in what it leaves.
THEOREM RoundMatches ==
  ASSUME NEW B, IsBatch(B)
  PROVE  /\ \A m \in Run(B) :
              /\ m.red \subseteq B /\ m.blue \subseteq B
              /\ m.red # {} /\ m.blue # {} /\ m.red \cap m.blue = {}
              /\ Headcount(m.red) = Headcount(m.blue) /\ Headcount(m.red) \in 1..MaxSide
              /\ SideLevel(m.red, Headcount(m.red)) - SideLevel(m.blue, Headcount(m.red))
                     \in (-MaxGap)..MaxGap
         /\ \A m, k \in Run(B) : m # k => TicketsIn(m) \cap TicketsIn(k) = {}
         /\ Cardinality(B) >= 2 =>
              FormOne(B \ UNION {TicketsIn(m) : m \in Run(B)}) = {}
<1>1. PICK F : IsCount(F, B)
  BY CountExists
<1>2. ASSUME NEW m \in Run(B)
      PROVE  /\ m.red \subseteq B /\ m.blue \subseteq B
             /\ m.red # {} /\ m.blue # {} /\ m.red \cap m.blue = {}
             /\ Headcount(m.red) = Headcount(m.blue) /\ Headcount(m.red) \in 1..MaxSide
             /\ SideLevel(m.red, Headcount(m.red)) - SideLevel(m.blue, Headcount(m.red))
                    \in (-MaxGap)..MaxGap
  <2>1. IsMatch(m, B, F)
    BY <1>1, RunMatches
  <2>2. Headcount(m.red) = F[m.red] /\ Headcount(m.blue) = F[m.blue]
    BY <1>1, <2>1, HeadcountCounts DEF IsMatch
  <2> QED
    BY <2>1, <2>2 DEF IsMatch, IsFair
<1>3. \A m, k \in Run(B) : m # k => TicketsIn(m) \cap TicketsIn(k) = {}
  BY <1>1, RunMatches
<1>4. Cardinality(B) >= 2 => FormOne(B \ UNION {TicketsIn(m) : m \in Run(B)}) = {}
  BY <1>1, RunFound DEF IsRound
<1> QED
  BY <1>2, <1>3, <1>4

\* Sides that share no ticket have their players together.
LEMMA CountJoins ==
  ASSUME NEW B, IsBatch(B), NEW F, IsCount(F, B), NEW t \in SUBSET B
  PROVE  \A s \in SUBSET B : s \cap t = {} => F[s \cup t] = F[s] + F[t]
<1> DEFINE bad == {s \in SUBSET B : s \cap t = {} /\ F[s \cup t] # F[s] + F[t]}
<1> SUFFICES ASSUME bad # {} PROVE FALSE
  OBVIOUS
<1>1. PICK s \in bad : \A r \in bad : r \subseteq s => r = s
  <2>1. \A s \in bad : IsFiniteSet(s)
    BY FS_Subset DEF IsBatch
  <2> HIDE DEF bad
  <2> QED
    BY <2>1, Innermost
<1>2. s \in SUBSET B /\ s \cap t = {} /\ F[s \cup t] # F[s] + F[t]
  OBVIOUS
<1> HIDE DEF bad
<1>3. F[{}] = 0 /\ F[t] \in Nat
  BY CountAdds
<1>4. s # {}
  <2>1. SUFFICES ASSUME s = {} PROVE FALSE
    OBVIOUS
  <2>2. s \cup t = t /\ F[s] = 0
    BY <1>3, <2>1
  <2>3. F[s \cup t] # F[t]
    BY <1>2, <1>3, <2>2
  <2> QED
    BY <2>2, <2>3
<1>5. PICK x \in s : TRUE
  BY <1>4
<1>6. PICK r : r = s \ {x}
  OBVIOUS
<1>7. r \in SUBSET B /\ r \cap t = {} /\ r \notin bad /\ x \in B \ r /\ x \in B \ (r \cup t)
  BY <1>1, <1>2, <1>5, <1>6
<1>8. F[r \cup t] = F[r] + F[t]
  BY <1>7 DEF bad
<1>9. r \cup {x} = s /\ (r \cup t) \cup {x} = s \cup t /\ r \cup t \in SUBSET B
  BY <1>2, <1>5, <1>6
<1>10. F[s] = Size(x) + F[r] /\ F[s \cup t] = Size(x) + F[r \cup t]
  <2>1. F[r \cup {x}] = Size(x) + F[r] /\ F[(r \cup t) \cup {x}] = Size(x) + F[r \cup t]
    <3>1. F[r \cup {x}] = Size(x) + F[r]
      BY <1>7, CountAdds
    <3>2. PICK q : q = r \cup t
      OBVIOUS
    <3>3. F[q \cup {x}] = Size(x) + F[q]
      BY <1>7, <1>9, <3>2, CountAdds
    <3> QED
      BY <3>1, <3>2, <3>3
  <2> QED
    BY <1>9, <2>1
<1>11. Size(x) \in Nat /\ F[r] \in Nat
  BY <1>7, CountAdds, SizeType
<1> QED
  BY <1>2, <1>3, <1>8, <1>10, <1>11

\* A mean lies between the bounds of what it is taken of.
LEMMA Means ==
  ASSUME NEW lo \in Nat, NEW hi \in Nat, NEW n \in Nat \ {0}, NEW w \in Nat,
         lo * n <= w, w <= hi * n
  PROVE  w \div n \in lo..hi
<1>1. PICK q \in Int, r \in 0..n - 1 : w = n * q + r /\ q = w \div n
  OBVIOUS
<1>2. q >= lo
  <2>1. SUFFICES ASSUME q + 1 <= lo PROVE FALSE
    BY <1>1
  <2>2. n * (q + 1) <= n * lo
    BY <2>1
  <2> QED
    BY <1>1, <2>2
<1>3. q <= hi
  <2>1. SUFFICES ASSUME hi + 1 <= q PROVE FALSE
    BY <1>1
  <2>2. n * (hi + 1) <= n * q
    BY <1>1, <2>1
  <2> QED
    BY <1>1, <2>2
<1> QED
  BY <1>1, <1>2, <1>3

\* The level of a side lies between those of its tickets.
LEMMA SideLevelBetween ==
  ASSUME NEW B, IsBatch(B), NEW F, IsCount(F, B), NEW lo \in Nat, NEW hi \in Nat,
         \A t \in B : AvgLevel(t) \in lo..hi, NEW side \in SUBSET B, side # {}
  PROVE  SideLevel(side, F[side]) \in lo..hi
<1> DEFINE f == [t \in B |-> AvgLevel(t) * Size(t)]
           w == MapThenSumSet(LAMBDA t : AvgLevel(t) * Size(t), side)
<1>1. IsFiniteSet(B) /\ f \in [B -> Nat]
  <2>1. \A t \in B : AvgLevel(t) \in Nat /\ Size(t) \in Nat
    BY AvgLevelType, SizeType
  <2>2. \A a, b \in Nat : a * b \in Nat
    OBVIOUS
  <2> QED
    BY <2>1, <2>2 DEF IsBatch
<1>2. PICK G : IsSum(G, f, B)
  <2> HIDE DEF f
  <2> QED
    BY <1>1, SumExists
<1>3. w = G[side]
  BY <1>1, <1>2, SumOfWeights DEF f
<1> DEFINE bad == {s \in SUBSET B : ~(lo * F[s] <= G[s] /\ G[s] <= hi * F[s])}
<1>4. bad = {}
  <2>1. SUFFICES ASSUME bad # {} PROVE FALSE
    OBVIOUS
  <2>2. PICK s \in bad : \A r \in bad : r \subseteq s => r = s
    <3>1. \A s \in bad : IsFiniteSet(s)
      BY FS_Subset DEF IsBatch
    <3> HIDE DEF bad
    <3> QED
      BY <2>1, <3>1, Innermost
  <2>3. s \in SUBSET B /\ ~(lo * F[s] <= G[s] /\ G[s] <= hi * F[s])
    OBVIOUS
  <2>4. s # {}
    <3>1. F[{}] = 0 /\ G[{}] = 0
      BY <1>2, CountAdds DEF IsSum
    <3> QED
      BY <2>3, <3>1
  <2>5. PICK x, r : x = Pick(s) /\ r = s \ {x}
    OBVIOUS
  <2>6. x \in s /\ x \in B \ r /\ r \in SUBSET B /\ r \cup {x} = s /\ r \notin bad
    <3>1. x \in s
      BY <2>4, <2>5 DEF Pick
    <3>2. x \in B \ r /\ r \in SUBSET B /\ r \cup {x} = s /\ r \subseteq s /\ r # s
      <4> HIDE DEF bad
      <4> QED
        BY <2>3, <2>5, <3>1
    <3>3. r \notin bad
      <4> HIDE DEF bad
      <4> QED
        BY <2>2, <3>2
    <3> QED
      BY <3>1, <3>2, <3>3
  <2>7. lo * F[r] <= G[r] /\ G[r] <= hi * F[r]
    <3> DEFINE Between(q) == lo * F[q] <= G[q] /\ G[q] <= hi * F[q]
    <3>1. \A q \in SUBSET B : q \notin bad => Between(q)
      BY Zenon
    <3> HIDE DEF bad, Between
    <3>2. r \in SUBSET B /\ r \notin bad
      BY <2>6
    <3>3. Between(r)
      BY <3>1, <3>2, Zenon
    <3> QED
      BY <3>3 DEF Between
  <2> HIDE DEF bad, w
  <2>8. F[s] = Size(x) + F[r]
    <3>1. \A q \in SUBSET B : \A t \in B \ q : F[q \cup {t}] = Size(t) + F[q]
      BY CountAdds
    <3>2. F[r \cup {x}] = Size(x) + F[r]
      BY <2>6, <3>1, Zenon
    <3> QED
      BY <2>6, <3>2, Zenon
  <2>9. G[s] = AvgLevel(x) * Size(x) + G[r]
    BY <1>2, <2>3, <2>4, <2>5, <2>6 DEF IsSum
  <2>10. Size(x) \in Nat /\ F[r] \in Nat /\ G[r] \in Nat /\ AvgLevel(x) \in lo..hi
    BY <1>2, <2>6, CountAdds, SizeType DEF IsSum
  <2>11. PICK a, b, c, l : a = Size(x) /\ b = F[r] /\ c = G[r] /\ l = AvgLevel(x)
    OBVIOUS
  <2>12. a \in Nat /\ b \in Nat /\ c \in Nat /\ l \in lo..hi
    BY <2>10, <2>11
  <2>13. lo * a <= l * a /\ l * a <= hi * a
    BY <2>12
  <2>14. lo * (a + b) = lo * a + lo * b /\ hi * (a + b) = hi * a + hi * b
    BY <2>12
  <2>15. lo * b <= c /\ c <= hi * b /\ l * a \in Nat
    BY <2>7, <2>11, <2>12
  <2>16. lo * (a + b) <= l * a + c /\ l * a + c <= hi * (a + b)
    <3> DEFINE la == lo * a  lb == lo * b ha == hi * a hb == hi * b m == l * a
    <3>1. la \in Nat /\ lb \in Nat /\ ha \in Nat /\ hb \in Nat /\ m \in Nat
      BY <2>12
    <3>2. la <= m /\ m <= ha /\ lb <= c /\ c <= hb
      BY <2>13, <2>15
    <3>3. la + lb <= m + c /\ m + c <= ha + hb
      <4> HIDE DEF la, lb, ha, hb, m
      <4> QED
        BY <2>12, <3>1, <3>2
    <3> QED
      BY <2>14, <3>3
  <2> QED
    BY <2>3, <2>8, <2>9, <2>11, <2>16
<1>5. F[side] \in Nat \ {0} /\ G[side] \in Nat
  BY <1>2, CountAdds DEF IsSum
<1>6. lo * F[side] <= G[side] /\ G[side] <= hi * F[side]
  BY <1>4
<1>7. SideLevel(side, F[side]) = w \div F[side]
  BY Zenon DEF SideLevel
<1> HIDE DEF w, f, bad
<1> QED
  BY <1>3, <1>5, <1>6, <1>7, Means

\* formOne gives up only when every attempt fails.
LEMMA FormOneForms ==
  ASSUME NEW B, IsBatch(B), NEW F, IsCount(F, B), NEW S \in SUBSET B, NEW n \in 1..MaxSide,
         Formed(SidesOf(S, n), n)
  PROVE  FormOne(S) # {}
<1> DEFINE half == MapThenSumSet(Size, S) \div 2
           sizes == {k \in 1..MaxSide : k <= half}
           tried == {[n |-> k, match |-> SidesOf(S, k)] : k \in sizes}
           formed == {s \in tried : Formed(s.match, s.n)}
<1>1. FormOne(S) = {s.match : s \in {s \in formed : \A o \in formed : o.n <= s.n}}
  BY Zenon DEF FormOne
<1>2. n <= half
  <2>1. PICK m : m = SidesOf(S, n)
    OBVIOUS
  <2>2. IsMatch(m, S, F) /\ F[m.red] = n
    <3>1. IsMatch(m, S, F)
      BY <2>1, SidesMatch
    <3>2. IsFound(PickSide(S, n), S, n, F)
      BY FlexAssumption, PickSideFinds
    <3>3. m.red = PickSide(S, n)
      <4>1. PickSide(S, n) \in SUBSET S
        BY <3>2 DEF IsFound
      <4> QED
        BY <2>1, <4>1 DEF SidesOf
    <3> QED
      BY <3>1, <3>2, <3>3 DEF IsFound, IsMatch
  <2>3. PICK a, b, c : a = m.red /\ b = m.blue /\ c = S \ (a \cup b)
    OBVIOUS
  <2>4. /\ a \in SUBSET B /\ b \in SUBSET B /\ c \in SUBSET B /\ a \cup b \in SUBSET B
        /\ a \cap b = {} /\ c \cap (a \cup b) = {} /\ c \cup (a \cup b) = S
        /\ F[a] = n /\ F[b] = n
    BY <2>2, <2>3 DEF IsMatch, IsFair
  <2>5. F[a \cup b] = F[a] + F[b] /\ F[S] = F[c] + F[a \cup b]
    <3>1. F[a \cup b] = F[a] + F[b]
      BY <2>4, CountJoins
    <3>2. F[c \cup (a \cup b)] = F[c] + F[a \cup b]
      <4>1. PICK d : d = a \cup b
        OBVIOUS
      <4>2. d \in SUBSET B /\ c \cap d = {}
        BY <2>4, <4>1
      <4> QED
        BY <2>4, <4>1, <4>2, CountJoins
    <3> QED
      BY <2>4, <3>1, <3>2
  <2>6. F[c] \in Nat
    BY <2>4, CountAdds
  <2>7. MapThenSumSet(Size, S) = F[S]
    BY HeadcountCounts DEF Headcount
  <2>8. n + n <= F[S] /\ F[S] \in Nat /\ n \in Nat
    BY <2>4, <2>5, <2>6, CountAdds
  <2>9. PICK k : k = F[S]
    OBVIOUS
  <2>10. n <= k \div 2
    BY <2>8, <2>9
  <2> QED
    BY <2>7, <2>9, <2>10
<1> HIDE DEF half
<1> DEFINE last == {MaxSide - s.n : s \in formed}
<1>3. \A s \in formed : s.n \in 1..MaxSide
  OBVIOUS
<1>4. [n |-> n, match |-> SidesOf(S, n)] \in formed
  BY <1>2
<1>5. last \subseteq Nat /\ last # {}
  <2> HIDE DEF formed
  <2> QED
    BY <1>3, <1>4, FlexAssumption
<1>6. PICK l \in last : \A k \in last : l <= k
  <2> HIDE DEF last
  <2> QED
    BY <1>5, Least
<1>7. PICK s \in formed : l = MaxSide - s.n
  BY <1>6
<1> HIDE DEF formed
<1>8. \A o \in formed : o.n <= s.n
  BY <1>3, <1>6, <1>7, FlexAssumption
<1> QED
  BY <1>1, <1>7, <1>8

\* Two sides of the same number of players that share no ticket.
Pair(S, F, n) ==
    \E red, blue \in SUBSET S : red # {} /\ red \cap blue = {} /\ F[red] = n /\ F[blue] = n

\* Of the smallest size of which there are two sides, whatever side is taken
\* first leaves another: if it had tickets of both, it and one of them would,
\* without the tickets they share, be two smaller sides.
LEMMA SmallestPair ==
  ASSUME NEW B, IsBatch(B), NEW F, IsCount(F, B), NEW S \in SUBSET B, NEW n \in Nat \ {0},
         Pair(S, F, n), \A k \in Nat \ {0} : k < n => ~Pair(S, F, k),
         NEW p \in SUBSET S, F[p] = n
  PROVE  \E c \in SUBSET (S \ p) : c # {} /\ F[c] = n
<1>1. PICK red, blue \in SUBSET S : red \cap blue = {} /\ F[red] = n /\ F[blue] = n
  BY DEF Pair
<1>2. F[{}] = 0
  BY CountAdds
<1>3. red # {} /\ blue # {}
  BY <1>1, <1>2
<1>4. CASE p = red
  BY <1>1, <1>3, <1>4
<1>5. CASE p \cap red = {}
  BY <1>1, <1>3, <1>5
<1>6. CASE p # red /\ p \cap red # {}
  <2>1. PICK i, a, b : i = p \cap red /\ a = p \ red /\ b = red \ p
    OBVIOUS
  <2>2. /\ i \in SUBSET B /\ a \in SUBSET B /\ b \in SUBSET B
        /\ a \in SUBSET S /\ b \in SUBSET S /\ a \cap b = {}
        /\ a \cap i = {} /\ b \cap i = {} /\ a \cup i = p /\ b \cup i = red
        /\ i # {} /\ (a # {} \/ b # {})
    BY <1>1, <1>6, <2>1
  <2>3. F[p] = F[a] + F[i] /\ F[red] = F[b] + F[i]
    <3>1. F[a \cup i] = F[a] + F[i]
      BY <2>2, CountJoins
    <3>2. F[b \cup i] = F[b] + F[i]
      BY <2>2, CountJoins
    <3> QED
      BY <2>2, <3>1, <3>2
  <2>4. /\ F[i] \in Nat \ {0} /\ F[a] \in Nat /\ F[b] \in Nat
        /\ (a # {} => F[a] > 0) /\ (b # {} => F[b] > 0)
    BY <2>2, CountAdds
  <2>5. PICK k : k = F[a]
    OBVIOUS
  <2>6. F[b] = k /\ k \in Nat \ {0} /\ k < n
    BY <1>1, <2>2, <2>3, <2>4, <2>5
  <2>7. a # {}
    BY <1>2, <2>5, <2>6
  <2>8. Pair(S, F, k)
    BY <2>2, <2>5, <2>6, <2>7 DEF Pair
  <2> QED
    BY <2>6, <2>8
<1> QED
  BY <1>4, <1>5, <1>6

\* Where levels are close enough for any two sides, formOne finds a match when there is one.
LEMMA FormOneExhausts ==
  ASSUME NEW B, IsBatch(B), NEW F, IsCount(F, B), NEW S \in SUBSET B, NEW lo \in Nat,
         \A t \in B : AvgLevel(t) \in lo..lo + MaxGap, NEW n \in 1..MaxSide, Pair(S, F, n)
  PROVE  FormOne(S) # {}
<1> DEFINE pairs == {k \in Nat \ {0} : Pair(S, F, k)}
<1>1. n \in pairs
  BY FlexAssumption
<1>2. PICK s \in pairs : \A k \in pairs : s <= k
  <2>1. pairs \subseteq Nat
    OBVIOUS
  <2> HIDE DEF pairs
  <2> QED
    BY <1>1, <2>1, Least
<1>3. s \in 1..MaxSide /\ s \in Nat \ {0} /\ Pair(S, F, s)
  BY <1>1, <1>2, FlexAssumption
<1>4. \A k \in Nat \ {0} : k < s => ~Pair(S, F, k)
  BY <1>2, <1>3
<1> HIDE DEF pairs
<1>5. PICK p : p = PickSide(S, s)
  OBVIOUS
<1>6. PICK b : b = PickSide(S \ p, s)
  OBVIOUS
<1>7. p \in SUBSET S /\ p # {} /\ F[p] = s
  <2>1. IsFound(p, S, s, F)
    BY <1>3, <1>5, PickSideFinds
  <2> QED
    BY <1>3, <2>1 DEF IsFound, Pair
<1>8. b \in SUBSET (S \ p) /\ b # {} /\ F[b] = s
  <2>1. S \ p \in SUBSET B
    OBVIOUS
  <2>2. IsFound(b, S \ p, s, F)
    BY <1>3, <1>6, <2>1, PickSideFinds
  <2>3. \E c \in SUBSET (S \ p) : c # {} /\ F[c] = s
    BY <1>3, <1>4, <1>7, SmallestPair
  <2> QED
    BY <2>2, <2>3 DEF IsFound
<1>9. SidesOf(S, s) = [red |-> p, blue |-> b]
  BY <1>5, <1>6, <1>7 DEF SidesOf
<1>10. lo + MaxGap \in Nat
  BY FlexAssumption
<1>11. SideLevel(p, s) \in lo..lo + MaxGap /\ SideLevel(b, s) \in lo..lo + MaxGap
  <2>1. p \in SUBSET B /\ b \in SUBSET B
    BY <1>7, <1>8
  <2>2. SideLevel(p, F[p]) \in lo..lo + MaxGap /\ SideLevel(b, F[b]) \in lo..lo + MaxGap
    BY <1>7, <1>8, <1>10, <2>1, SideLevelBetween
  <2> QED
    BY <1>7, <1>8, <2>2
<1>12. PICK c, d : c = SideLevel(p, s) /\ d = SideLevel(b, s)
  OBVIOUS
<1>13. (IF c < d THEN d - c ELSE c - d) <= MaxGap
  BY <1>11, <1>12, FlexAssumption
<1>14. Formed(SidesOf(S, s), s)
  BY <1>7, <1>8, <1>9, <1>12, <1>13 DEF Formed, NoSide
<1> QED
  BY <1>3, <1>14, FormOneForms

\* A round leaves no match behind, for every batch whose levels all lie within
\* MaxGap: no two sides of what is left share no ticket and hold as many
\* players, at most MaxSide, although formOne compares only the first side of
\* each size and the first of what that leaves.  With levels further apart a
\* match may be left.
THEOREM RoundExhausts ==
  ASSUME NEW B, IsBatch(B), NEW lo \in Nat, \A t \in B : AvgLevel(t) \in lo..lo + MaxGap,
         NEW red, NEW blue,
         red \cup blue \subseteq B \ UNION {TicketsIn(m) : m \in Run(B)},
         red # {}, red \cap blue = {}, Headcount(red) = Headcount(blue)
  PROVE  Headcount(red) > MaxSide
<1>1. PICK F : IsCount(F, B)
  BY CountExists
<1>2. PICK S : S = B \ UNION {TicketsIn(m) : m \in Run(B)}
  OBVIOUS
<1>3. red \in SUBSET S /\ blue \in SUBSET S /\ S \in SUBSET B
  BY <1>2
<1>4. PICK n : n = Headcount(red)
  OBVIOUS
<1>5. F[red] = n /\ F[blue] = n /\ n \in Nat \ {0}
  <2>1. Headcount(red) = F[red] /\ Headcount(blue) = F[blue]
    BY <1>1, <1>3, HeadcountCounts
  <2>2. F[red] \in Nat \ {0}
    BY <1>1, <1>3, CountAdds
  <2> QED
    BY <1>4, <2>1, <2>2
<1>6. Pair(S, F, n)
  BY <1>3, <1>5 DEF Pair
<1>7. n \in 1..MaxSide => FormOne(S) # {}
  BY <1>1, <1>3, <1>5, <1>6, FormOneExhausts
<1>8. Cardinality(B) >= 2
  <2>1. PICK t \in red, u \in blue : t # u
    <3>1. blue # {}
      BY <1>1, <1>5, CountAdds
    <3> QED
      BY <3>1
  <2>2. t \in B /\ u \in B
    BY <1>3
  <2>3. {t, u} \subseteq B /\ IsFiniteSet(B)
    BY <2>2 DEF IsBatch
  <2>4. Cardinality({t, u}) = 2
    <3>1. PICK one : one = {t}
      OBVIOUS
    <3>2. IsFiniteSet(one) /\ Cardinality(one) = 1
      BY <3>1, FS_Singleton
    <3>3. {t, u} = one \cup {u} /\ u \notin one
      BY <2>1, <3>1
    <3>4. Cardinality(one \cup {u}) = Cardinality(one) + 1
      BY ONLY <3>2, <3>3, FS_AddElement
    <3>5. Cardinality({t, u}) = Cardinality(one) + 1
      BY <3>3, <3>4, Zenon
    <3> QED
      BY <3>2, <3>5
  <2> QED
    BY <2>3, <2>4, FS_Subset, FS_CardinalityType
<1>9. FormOne(S) = {}
  BY <1>1, <1>2, <1>8, RunFound DEF IsRound
<1> QED
  BY <1>4, <1>5, <1>7, <1>9, FlexAssumption

\* For every set of batches the property that the model checker looks at over
\* small ones: pickSide finds a side when there is one, the matches of a round
\* are matches and share no ticket, and no match is left in what a round
\* leaves when all levels are within MaxGap.
THEOREM MatchBatches == Spec => []BatchesMatched
<1>1. ASSUME NEW B \in Batches, NEW n \in 1..MaxSide, NEW side \in SUBSET B, Headcount(side) = n
      PROVE  Headcount(PickSide(B, n)) = n
  <2>1. IsBatch(B) /\ n \in Nat \ {0}
    BY BatchesAssumption, FlexAssumption
  <2>2. PICK F : IsCount(F, B)
    BY <2>1, CountExists
  <2>3. side # {}
    <3>1. Headcount(side) = F[side] /\ F[{}] = 0
      BY <2>1, <2>2, HeadcountCounts, CountAdds
    <3> QED
      BY <1>1, <2>1, <3>1
  <2> QED
    BY <1>1, <2>1, <2>3, SideSearch
<1>2. ASSUME NEW B \in Batches, NEW m \in Run(B)
      PROVE  Holds(B, m)
  <2>1. IsBatch(B)
    BY BatchesAssumption
  <2>2. /\ m.red \subseteq B /\ m.blue \subseteq B
        /\ m.red # {} /\ m.blue # {} /\ m.red \cap m.blue = {}
        /\ Headcount(m.red) = Headcount(m.blue) /\ Headcount(m.red) \in 1..MaxSide
        /\ SideLevel(m.red, Headcount(m.red)) - SideLevel(m.blue, Headcount(m.red))
               \in (-MaxGap)..MaxGap
    BY <2>1, RoundMatches
  <2>3. Headcount(m.red) <= MaxSide
    BY <2>2, FlexAssumption
  <2>4. TicketsIn(m) \subseteq B
    BY <2>2 DEF TicketsIn
  <2> QED
    BY <2>2, <2>3, <2>4 DEF Holds
<1>3. ASSUME NEW B \in Batches, NEW m \in Run(B), NEW k \in Run(B), m # k
      PROVE  TicketsIn(m) \cap TicketsIn(k) = {}
  BY <1>3, BatchesAssumption, RoundMatches
<1>4. ASSUME NEW B \in Batches, \A t, u \in B : AvgLevel(t) - AvgLevel(u) <= MaxGap,
             NEW red \in SUBSET (B \ UNION {TicketsIn(m) : m \in Run(B)}),
             NEW blue \in SUBSET (B \ UNION {TicketsIn(m) : m \in Run(B)}),
             Holds(B, [red |-> red, blue |-> blue])
      PROVE  FALSE
  <2>1. IsBatch(B)
    BY BatchesAssumption
  <2>2. red # {} /\ red \cap blue = {} /\ Headcount(red) = Headcount(blue)
        /\ Headcount(red) <= MaxSide
    BY <1>4 DEF Holds
  <2>3. PICK lo \in Nat : \A t \in B : AvgLevel(t) \in lo..lo + MaxGap
    <3> DEFINE levels == {AvgLevel(t) : t \in B}
    <3>1. levels \subseteq Nat /\ levels # {}
      BY <2>1, <2>2, AvgLevelType
    <3>2. PICK lo \in levels : \A l \in levels : lo <= l
      <4> HIDE DEF levels
      <4> QED
        BY <3>1, Least
    <3>3. ASSUME NEW t \in B PROVE AvgLevel(t) \in lo..lo + MaxGap
      <4>1. AvgLevel(t) - lo <= MaxGap /\ lo <= AvgLevel(t)
        BY <1>4, <3>2
      <4>2. AvgLevel(t) \in Nat /\ lo \in Nat
        BY <3>1, <3>2
      <4>3. PICK l : l = AvgLevel(t)
        OBVIOUS
      <4> QED
        BY <4>1, <4>2, <4>3, FlexAssumption
    <3> QED
      BY <3>1, <3>2, <3>3
  <2>4. Headcount(red) > MaxSide
    <3>1. red \cup blue \subseteq B \ UNION {TicketsIn(m) : m \in Run(B)}
      OBVIOUS
    <3> QED
      BY <2>1, <2>2, <2>3, <3>1, RoundExhausts
  <2>5. Headcount(red) \in Nat
    <3>1. PICK F : IsCount(F, B)
      BY <2>1, CountExists
    <3> QED
      BY <2>1, <3>1, HeadcountCounts, CountAdds
  <2>6. PICK n : n = Headcount(red)
    OBVIOUS
  <2> QED
    BY <2>2, <2>4, <2>5, <2>6, FlexAssumption
<1>5. BatchesMatched
  <2>1. \A r \in Rounds : r.batch \in Batches /\ r.round = Run(r.batch)
    BY DEF Rounds
  <2> QED
    BY <1>1, <1>2, <1>3, <1>4, <2>1 DEF BatchesMatched
<1> QED
  BY <1>5, PTL

-------------------------------------------------------------------------------
(* The invariant *)

Ticket ==
    [players : SUBSET Players, party : Parties \cup {NoParty}, count : 0..MaxRequeue,
     from : Nat, state : {"searching", "completed", "failed"}, match : Nat]
Match == [red : SUBSET Nat, blue : SUBSET Nat]
Goroutine ==
    [step : {"none", "lost"}]
    \cup [step : {"wait", "unmap", "done"}, at : Instances, player : Players \cup {Nobody}]
Entering == {"admit", "link", "publish", "unlink"}
Admission ==
    [step : {"none", "lost"}]
    \cup [step : Entering \cup {"requeue", "remap", "done"}, at : Instances, todo : SUBSET Nat]

RosterOK == roster \in [Parties -> SUBSET Players] /\ \A g \in Parties : IsFiniteSet(roster[g])
QueueOK ==
    /\ tickets \in Seq(Ticket) /\ watch \in Seq(Goroutine) /\ Len(watch) = Len(tickets)
    /\ matches \in Seq(Match) /\ job \in Seq(Admission) /\ Len(job) = Len(matches)
    /\ RosterOK
RedisOK ==
    /\ playerMap \in [Players -> {0} \cup Tickets]
    /\ partyMap \in [Parties -> {0} \cup Tickets]
    /\ link \in [Players -> {0} \cup Matches]
    /\ started \subseteq settled /\ settled \subseteq Matches
    /\ failed \subseteq Tickets
CallsOK ==
    /\ call \in [Players -> Calls]
    /\ calls \in 0..MaxCalls /\ faults \subseteq Faults
    /\ \A p \in Players :
          /\ call[p].op = "map" =>
                /\ tickets[call[p].ticket].party = NoParty
                /\ tickets[call[p].ticket].players = {p}
          /\ call[p].op = "partymap" =>
                /\ call[p].ticket \in Tickets
                /\ tickets[call[p].ticket].party = call[p].party

\* A ticket plays in the match it was completed with, and no other.
TicketOK(t) ==
    /\ tickets[t].players # {} /\ IsFiniteSet(tickets[t].players)
    /\ tickets[t].party = NoParty => \E p \in Players : tickets[t].players = {p}
    /\ tickets[t].match = 0 <=> tickets[t].state # "completed"
    /\ tickets[t].match # 0 =>
          tickets[t].match \in Matches /\ t \in TicketsOf(tickets[t].match)

\* A ticket queued again is the ticket of a match that was not started.
LineOK(t) ==
    LET o == tickets[t].from IN
    /\ o \in 0..t - 1
    /\ o = 0 => tickets[t].count = 0
    /\ o # 0 => /\ tickets[t].players = tickets[o].players
                /\ tickets[t].party = tickets[o].party
                /\ tickets[t].count = tickets[o].count + 1
                /\ tickets[o].state = "completed"
                /\ tickets[o].match \notin started

MatchOK(m) ==
    /\ TicketsOf(m) # {}
    /\ TicketsOf(m) \subseteq Tickets
    /\ \A t \in TicketsOf(m) : tickets[t].match = m

Once == \A t, u \in Tickets :
    tickets[t].from # 0 /\ tickets[t].from = tickets[u].from => t = u

Unqueued(S) == \A u \in Tickets : tickets[u].from \notin S

JobOK(m) ==
    /\ m \notin settled => job[m].step = "none"
    /\ m \in started => job[m].step = "done"
    /\ job[m].step \in {"none"} \cup Entering => Unqueued(TicketsOf(m))
    /\ job[m].step \in Entering => job[m].todo = TicketsOf(m)
    /\ job[m].step \in {"requeue", "remap"} =>
          job[m].todo # {} /\ job[m].todo \subseteq TicketsOf(m)
    /\ job[m].step = "requeue" => Unqueued(job[m].todo)
    /\ job[m].step = "remap" =>
          /\ Unqueued(job[m].todo \ {Min(job[m].todo)})
          /\ \E u \in Tickets : tickets[u].from = Min(job[m].todo)

LinkOK(p) ==
    LET m == link[p] IN
    m # 0 => /\ p \in PlayersOf(m)
             /\ \/ m \in started \/ job[m].step \in {"publish", "unlink", "lost"}
                \/ "redis" \in faults

MappedOK(p) ==
    LET t == playerMap[p] IN
    t # 0 /\ tickets[t].party = NoParty =>
        /\ tickets[t].players = {p}
        /\ \/ watch[t].step \in {"wait", "unmap"} /\ watch[t].player = p
           \/ watch[t].step = "lost"
           \/ watch[t].step = "done" /\ tickets[t].state = "completed"
           \/ "redis" \in faults

Inv ==
    /\ QueueOK /\ RedisOK /\ CallsOK
    /\ \A t \in Tickets : TicketOK(t) /\ LineOK(t)
    /\ \A m \in Matches : MatchOK(m) /\ JobOK(m)
    /\ Once
    /\ \A p \in Players : LinkOK(p) /\ MappedOK(p)

\* Each ticket that was not queued again comes from a call, and each call
\* makes one at most: the calls are numbered, a ticket has the number of the
\* ticket it replaces, and no two tickets of a number have the same count.
Asking == {p \in Players : call[p].op \in {"queue", "party"}}
Numbered(root, num) ==
    /\ \A t, u \in Tickets : root[t] = root[u] /\ tickets[t].count = tickets[u].count => t = u
    /\ \A t \in Tickets : tickets[t].from # 0 => root[t] = root[tickets[t].from]
    /\ \A p \in Asking : num[p] # 0 /\ \A t \in Tickets : root[t] # num[p]
    /\ \A p, q \in Asking : num[p] = num[q] => p = q
Lineage == \E root \in [Tickets -> 1..calls], num \in [Players -> 0..calls] : Numbered(root, num)
-------------------------------------------------------------------------------
(* A round of the engine *)

\* As a match is recorded, by the numbers of its tickets.
SideOf(ids) == {[id |-> t, players |-> tickets[t].players] : t \in ids}
FairSides(red, blue) ==
    LET n == MapThenSumSet(Size, SideOf(red)) IN
    /\ n \in 1..MaxSide /\ MapThenSumSet(Size, SideOf(blue)) = n
    /\ SideLevel(SideOf(red), n) - SideLevel(SideOf(blue), n) \in (-MaxGap)..MaxGap

IsFormed(formed) ==
    /\ formed \in Seq([red : SUBSET Searching, blue : SUBSET Searching])
    /\ \A k \in 1..Len(formed) :
          /\ formed[k].red # {} /\ formed[k].red \cap formed[k].blue = {}
          /\ FairSides(formed[k].red, formed[k].blue)
    /\ \A k, l \in 1..Len(formed) :
          k # l => TicketsIn(formed[k]) \cap TicketsIn(formed[l]) = {}

LEMMA FiniteValues ==
  ASSUME NEW S, IsFiniteSet(S), NEW f, f = [x \in S |-> f[x]]
  PROVE  IsFiniteSet({f[x] : x \in S})
<1> DEFINE T == {f[x] : x \in S}
<1>1. f \in Surjection(S, T)
  BY DEF Surjection
<1> HIDE DEF T
<1>2. IsFiniteSet(T)
  BY <1>1, FS_Surjection
<1> QED
  BY <1>2 DEF T

\* The sequence of a finite set has its elements, each once.
LEMMA SetToSeqType ==
  ASSUME NEW S, IsFiniteSet(S)
  PROVE  /\ SetToSeq(S) \in Seq(S)
         /\ \A k, l \in 1..Len(SetToSeq(S)) : k # l => SetToSeq(S)[k] # SetToSeq(S)[l]
<1> DEFINE n == Cardinality(S)
<1>1. n \in Nat /\ ExistsBijection(1..n, S)
  BY FS_CardinalityType
<1>2. PICK g : g \in [1..n -> S] /\ IsInjective(g)
  BY <1>1 DEF ExistsBijection, Bijection, Injection
<1>3. SetToSeq(S) \in [1..n -> S] /\ IsInjective(SetToSeq(S))
  BY <1>2 DEF SetToSeq
<1>4. SetToSeq(S) \in Seq(S) /\ Len(SetToSeq(S)) = n
  <2> DEFINE q == SetToSeq(S)
  <2> HIDE DEF q, n
  <2>1. q \in [1..n -> S] /\ n \in Nat
    BY <1>1, <1>3 DEF q
  <2>2. q \in Seq(S) /\ Len(q) = n
    BY <2>1, SeqDef
  <2> QED
    BY <2>2 DEF q
<1> QED
  BY <1>3, <1>4 DEF IsInjective

LEMMA SearchingBatch ==
  ASSUME QueueOK, \A t \in Tickets : TicketOK(t)
  PROVE  IsBatch(SideOf(Searching))
<1> DEFINE f == [t \in Searching |-> [id |-> t, players |-> tickets[t].players]]
<1>1. Len(tickets) \in Nat /\ Tickets = 1..Len(tickets) /\ \A t \in Tickets : tickets[t] \in Ticket
  BY DEF QueueOK, Tickets
<1>2. IsFiniteSet(Searching)
  <2>1. IsFiniteSet(1..Len(tickets)) /\ Searching \in SUBSET (1..Len(tickets))
    BY <1>1, FS_Interval, 1 \in Int, Len(tickets) \in Int DEF Searching
  <2> QED
    BY <2>1, FS_Subset
<1>3. f = [t \in Searching |-> f[t]] /\ SideOf(Searching) = {f[t] : t \in Searching}
  BY DEF SideOf
<1>4. IsFiniteSet(SideOf(Searching))
  <2> HIDE DEF f
  <2> QED
    BY <1>2, <1>3, FiniteValues
<1>5. \A t \in Searching : /\ t \in Nat /\ tickets[t].players \subseteq Players
                           /\ tickets[t].players # {} /\ IsFiniteSet(tickets[t].players)
  BY <1>1 DEF Searching, TicketOK, Ticket
<1> QED
  BY <1>4, <1>5, MatchAssumption DEF IsBatch, SideOf

\* What the engine makes of the waiting tickets.
LEMMA RoundFormed ==
  ASSUME QueueOK, \A t \in Tickets : TicketOK(t),
         NEW formed, formed = SetToSeq({[red |-> {t.id : t \in m.red}, blue |-> {t.id : t \in m.blue}] :
                                           m \in Run(SideOf(Searching))})
  PROVE  IsFormed(formed)
<1> DEFINE B == SideOf(Searching)
           R == Run(B)
           f == [m \in R |-> [red |-> {t.id : t \in m.red}, blue |-> {t.id : t \in m.blue}]]
           S == {f[m] : m \in R}
<1>1. IsBatch(B)
  BY SearchingBatch
<1>2. PICK F : IsCount(F, B)
  BY <1>1, CountExists
<1>3. /\ IsFiniteSet(R)
      /\ \A m \in R : IsMatch(m, B, F)
      /\ \A m, k \in R : m # k => TicketsIn(m) \cap TicketsIn(k) = {}
  <2> HIDE DEF B
  <2> QED
    BY <1>1, <1>2, RunMatches
<1>4. IsFiniteSet(S)
  <2>1. f = [m \in R |-> f[m]]
    OBVIOUS
  <2> HIDE DEF f, R
  <2> QED
    BY <1>3, <2>1, FiniteValues
<1>5. formed = SetToSeq(S)
  <2>1. S = {[red |-> {t.id : t \in m.red}, blue |-> {t.id : t \in m.blue}] : m \in R}
    <3> HIDE DEF R
    <3> QED
      OBVIOUS
  <2> QED
    BY <2>1
<1>6. /\ formed \in Seq(S)
      /\ \A k, l \in 1..Len(formed) : k # l => formed[k] # formed[l]
  <2> HIDE DEF S
  <2> QED
    BY <1>4, <1>5, SetToSeqType
<1>7. \A k \in 1..Len(formed) : \E m \in R : formed[k] = f[m]
  <2>1. \A k \in 1..Len(formed) : formed[k] \in S
    <3> HIDE DEF S
    <3> QED
      BY <1>6
  <2> QED
    BY <2>1
\* The tickets of a side and their numbers.
<1>8. ASSUME NEW side \in SUBSET B
      PROVE  {t.id : t \in side} \in SUBSET Searching /\ SideOf({t.id : t \in side}) = side
  BY DEF SideOf
<1>9. ASSUME NEW side \in SUBSET B PROVE MapThenSumSet(Size, side) = F[side]
  <2>1. IsFiniteSet(B) /\ IsSum(F, [t \in B |-> Size(t)], B)
    BY <1>1, <1>2 DEF IsBatch, IsCount
  <2> HIDE DEF B
  <2> QED
    BY <2>1, SumOfSizes
<1>10. ASSUME NEW m \in R
       PROVE  /\ f[m] \in [red : SUBSET Searching, blue : SUBSET Searching]
              /\ f[m].red # {} /\ f[m].red \cap f[m].blue = {}
              /\ FairSides(f[m].red, f[m].blue)
  <2>1. IsMatch(m, B, F)
    BY <1>3
  <2>2. /\ m.red \in SUBSET B /\ m.blue \in SUBSET B
        /\ m.red # {} /\ m.red \cap m.blue = {} /\ IsFair(m.red, m.blue, F)
    BY <2>1 DEF IsMatch
  <2>3. f[m] = [red |-> {t.id : t \in m.red}, blue |-> {t.id : t \in m.blue}]
    OBVIOUS
  <2>4. SideOf(f[m].red) = m.red /\ SideOf(f[m].blue) = m.blue
    BY <1>8, <2>2, <2>3
  <2>5. FairSides(f[m].red, f[m].blue)
    <3>1. MapThenSumSet(Size, m.red) = F[m.red] /\ MapThenSumSet(Size, m.blue) = F[m.blue]
      BY <1>9, <2>2
    <3> HIDE DEF f
    <3> QED
      BY <2>2, <2>4, <3>1 DEF FairSides, IsFair
  <2>6. f[m].red # {} /\ f[m].red \cap f[m].blue = {}
    <3>1. PICK t \in m.red : TRUE
      BY <2>2
    <3>2. f[m].red = {u.id : u \in m.red} /\ f[m].blue = {u.id : u \in m.blue}
      BY <2>3
    <3>3. \A u \in m.red, v \in m.blue : u \in B /\ v \in B /\ u # v
      BY <2>2
    <3>4. \A u \in m.red, v \in m.blue : u.id # v.id
      BY <1>1, <3>3 DEF IsBatch
    <3> HIDE DEF f
    <3> QED
      BY <3>1, <3>2, <3>4
  <2>7. f[m] \in [red : SUBSET Searching, blue : SUBSET Searching]
    BY <1>8, <2>2, <2>3
  <2> QED
    BY <2>5, <2>6, <2>7
<1>11. ASSUME NEW m \in R, NEW k \in R, m # k
       PROVE  TicketsIn(f[m]) \cap TicketsIn(f[k]) = {}
  <2>1. IsMatch(m, B, F) /\ IsMatch(k, B, F) /\ TicketsIn(m) \cap TicketsIn(k) = {}
    BY <1>3, <1>11
  <2>2. TicketsIn(f[m]) = {t.id : t \in TicketsIn(m)} /\ TicketsIn(f[k]) = {t.id : t \in TicketsIn(k)}
    BY DEF TicketsIn
  <2>3. TicketsIn(m) \subseteq B /\ TicketsIn(k) \subseteq B
    BY <2>1 DEF IsMatch, TicketsIn
  <2> HIDE DEF f, B, R
  <2> QED
    BY <1>1, <2>1, <2>2, <2>3 DEF IsBatch
<1>12. formed \in Seq([red : SUBSET Searching, blue : SUBSET Searching])
  <2> DEFINE T == [red : SUBSET Searching, blue : SUBSET Searching]
  <2>1. S \subseteq T
    BY <1>10
  <2> HIDE DEF S, T
  <2>2. formed \in Seq(T)
    BY <1>6, <2>1
  <2> QED
    BY <2>2 DEF T
<1>13. ASSUME NEW k \in 1..Len(formed), NEW l \in 1..Len(formed), k # l
       PROVE  TicketsIn(formed[k]) \cap TicketsIn(formed[l]) = {}
  <2>1. PICK m \in R : formed[k] = f[m]
    BY <1>7
  <2>2. PICK n \in R : formed[l] = f[n]
    BY <1>7
  <2>3. m # n
    BY <1>6, <1>13, <2>1, <2>2
  <2>4. TicketsIn(f[m]) \cap TicketsIn(f[n]) = {}
    BY <1>11, <2>3
  <2> QED
    BY <2>1, <2>2, <2>4
<1>14. \A k \in 1..Len(formed) :
          /\ formed[k].red # {} /\ formed[k].red \cap formed[k].blue = {}
          /\ FairSides(formed[k].red, formed[k].blue)
  <2> HIDE DEF f, R, S
  <2> QED
    BY <1>7, <1>10
<1> QED
  BY <1>12, <1>13, <1>14 DEF IsFormed
-------------------------------------------------------------------------------
(* Steps that make no ticket and no match *)

\* The tickets stay as they are, but some that waited may have failed.
Ending ==
    /\ tickets' \in Seq(Ticket) /\ Len(tickets') = Len(tickets)
    /\ \A t \in Tickets :
          /\ tickets'[t].players = tickets[t].players /\ tickets'[t].party = tickets[t].party
          /\ tickets'[t].count = tickets[t].count /\ tickets'[t].from = tickets[t].from
          /\ tickets'[t].match = tickets[t].match
          /\ \/ tickets'[t].state = tickets[t].state
             \/ tickets[t].state = "searching" /\ tickets'[t].state = "failed"
    /\ matches' = matches

LEMMA NoEnding ==
  ASSUME QueueOK, UNCHANGED <<tickets, matches>>
  PROVE  Ending
  BY DEF Ending, QueueOK

LEMMA CancelledEnding ==
  ASSUME QueueOK, UNCHANGED matches, NEW t, Cancelled(t)
  PROVE  Ending
<1>1. Len(tickets) \in Nat /\ Tickets = 1..Len(tickets) /\ \A u \in Tickets : tickets[u] \in Ticket
  BY DEF QueueOK, Tickets
<1>2. CASE t \notin Tickets
  <2>1. tickets' = tickets
    BY <1>2 DEF Cancelled, Tickets, QueueOK
  <2> QED
    BY <2>1, NoEnding
<1>3. CASE t \in Tickets
  <2> DEFINE s == IF tickets[t].state = "searching" THEN "failed" ELSE tickets[t].state
  <2>1. tickets' = [tickets EXCEPT ![t] = [tickets[t] EXCEPT !.state = s]]
    BY DEF Cancelled
  <2>2. [tickets[t] EXCEPT !.state = s] \in Ticket
    BY <1>1, <1>3 DEF Ticket
  <2>3. tickets' \in Seq(Ticket) /\ Len(tickets') = Len(tickets)
    BY <1>1, <1>3, <2>1, <2>2 DEF QueueOK
  <2>4. \A u \in Tickets : u # t => tickets'[u] = tickets[u]
    BY <2>1 DEF Tickets
  <2>5. tickets'[t] = [tickets[t] EXCEPT !.state = s]
    BY <1>3, <2>1 DEF Tickets
  <2>6. tickets[t] \in Ticket
    BY <1>1, <1>3
  <2>7. /\ tickets'[t].players = tickets[t].players /\ tickets'[t].party = tickets[t].party
        /\ tickets'[t].count = tickets[t].count /\ tickets'[t].from = tickets[t].from
        /\ tickets'[t].match = tickets[t].match /\ tickets'[t].state = s
    BY <2>5, <2>6 DEF Ticket
  <2> QED
    BY <2>3, <2>4, <2>7 DEF Ending
<1> QED
  BY <1>2, <1>3

LEMMA TimeOutEnding ==
  ASSUME QueueOK, TimeOut
  PROVE  Ending
<1>1. PICK t \in Searching : tickets' = [tickets EXCEPT ![t].state = "failed"]
  BY DEF TimeOut
<1>2. Cancelled(t)
  BY <1>1 DEF Cancelled, Searching
<1>3. UNCHANGED matches
  BY DEF TimeOut
<1> QED
  BY <1>2, <1>3, CancelledEnding

LEMMA EndingSame ==
  ASSUME QueueOK, Ending
  PROVE  /\ Tickets' = Tickets /\ Matches' = Matches
         /\ Tickets = 1..Len(tickets) /\ Matches = 1..Len(matches)
         /\ \A m \in Matches : TicketsOf(m)' = TicketsOf(m)
         /\ \A S : Unqueued(S)' = Unqueued(S)
<1>1. Tickets' = Tickets /\ Matches' = Matches /\ Tickets = 1..Len(tickets) /\ Matches = 1..Len(matches)
  BY DEF Ending, QueueOK, Tickets, Matches
<1> QED
  BY <1>1 DEF Ending, TicketsOf, Unqueued

LEMMA EndingEngine ==
  ASSUME Inv, Ending
  PROVE  /\ \A t \in Tickets' : TicketOK(t)'
         /\ \A m \in Matches' : MatchOK(m)'
         /\ Once'
         /\ started' = started => \A t \in Tickets' : LineOK(t)'
<1>1. QueueOK /\ \A t \in Tickets : tickets[t] \in Ticket
  BY DEF Inv, QueueOK, Tickets
<1>2. /\ Tickets' = Tickets /\ Matches' = Matches
      /\ \A m \in Matches : TicketsOf(m)' = TicketsOf(m)
      /\ Tickets = 1..Len(tickets) /\ Len(tickets) \in Nat
  BY <1>1, EndingSame DEF QueueOK
<1>3. ASSUME NEW t \in Tickets PROVE TicketOK(t)'
  <2>1. TicketOK(t)
    BY DEF Inv
  <2> QED
    BY <1>2, <2>1 DEF TicketOK, Ending
<1>4. ASSUME NEW m \in Matches PROVE MatchOK(m)'
  <2>1. MatchOK(m)
    BY DEF Inv
  <2> QED
    BY <1>2, <2>1 DEF MatchOK, Ending
<1>5. Once'
  BY <1>2 DEF Inv, Once, Ending
<1>6. ASSUME NEW t \in Tickets, started' = started PROVE LineOK(t)'
  <2>1. LineOK(t)
    BY DEF Inv
  <2>2. tickets[t].from # 0 => tickets[t].from \in Tickets
    BY <1>2, <2>1 DEF LineOK
  <2> QED
    BY <1>2, <1>6, <2>1, <2>2 DEF LineOK, Ending
<1> QED
  BY <1>2, <1>3, <1>4, <1>5, <1>6

LEMMA EndingJobs ==
  ASSUME Inv, Ending, UNCHANGED <<job, settled, started>>
  PROVE  \A m \in Matches' : JobOK(m)'
<1>1. /\ Tickets' = Tickets /\ Matches' = Matches
      /\ \A m \in Matches : TicketsOf(m)' = TicketsOf(m)
      /\ \A S : Unqueued(S)' = Unqueued(S)
  BY EndingSame DEF Inv
<1>2. SUFFICES ASSUME NEW m \in Matches PROVE JobOK(m)'
  BY <1>1
<1>3. JobOK(m)
  BY DEF Inv
<1>4. \A u \in Tickets : tickets'[u].from = tickets[u].from
  BY DEF Ending
<1> QED
  BY <1>1, <1>3, <1>4 DEF JobOK

LEMMA EndingLinks ==
  ASSUME Inv, Ending, UNCHANGED <<job, started, link>>, faults \subseteq faults'
  PROVE  \A p \in Players : LinkOK(p)'
<1>1. /\ Tickets' = Tickets /\ Matches' = Matches
      /\ \A m \in Matches : TicketsOf(m)' = TicketsOf(m)
  BY EndingSame DEF Inv
<1>2. SUFFICES ASSUME NEW p \in Players PROVE LinkOK(p)'
  OBVIOUS
<1>3. LinkOK(p) /\ link[p] \in {0} \cup Matches
  BY DEF Inv, RedisOK
<1>4. ASSUME NEW m \in Matches PROVE PlayersOf(m)' = PlayersOf(m)
  <2>1. \A t \in TicketsOf(m) : tickets'[t].players = tickets[t].players
    BY DEF Inv, MatchOK, Ending
  <2> QED
    BY <1>1, <2>1 DEF PlayersOf
<1> QED
  BY <1>3, <1>4 DEF LinkOK

LEMMA EndingMaps ==
  ASSUME Inv, Ending, UNCHANGED <<playerMap, watch>>, faults \subseteq faults'
  PROVE  \A p \in Players : MappedOK(p)'
<1>1. SUFFICES ASSUME NEW p \in Players PROVE MappedOK(p)'
  OBVIOUS
<1>2. MappedOK(p) /\ playerMap[p] \in {0} \cup Tickets
  BY DEF Inv, RedisOK
<1> QED
  BY <1>2 DEF MappedOK, Ending
-------------------------------------------------------------------------------
(* The calls of the players *)

LEMMA FaultKept ==
  ASSUME CallsOK, NEW kind, Fault(kind)
  PROVE  faults' \subseteq Faults /\ faults \subseteq faults' /\ kind \in faults'
  BY DEF CallsOK, Fault

\* What a call of each kind carries.
LEMMA CallShape ==
  ASSUME NEW c \in Calls
  PROVE  /\ c.op \in {"map", "cancel"} => c.ticket \in Tickets
         /\ c.op \in {"party", "partymap", "leave", "leavecancel", "leaveunmap"} =>
               c.party \in Parties
         /\ c.op \in {"partymap", "leave", "leavecancel", "leaveunmap"} =>
               c.ticket \in {0} \cup Tickets /\ c = [op |-> c.op, party |-> c.party, ticket |-> c.ticket]
         /\ c.op \in {"idle", "queue", "unmap", "map", "cancel", "party", "partymap", "leave",
                       "leavecancel", "leaveunmap"}
  BY DEF Calls, Idle

\* A call under way becomes another one, which is not about to map a ticket.
LEMMA CallGoes ==
  ASSUME Inv, Ending, NEW p \in Players, NEW c \in Calls, c.op \notin {"map", "partymap"},
         call' = [call EXCEPT ![p] = c], calls' \in 0..MaxCalls, faults' \subseteq Faults
  PROVE  CallsOK'
<1>1. Tickets' = Tickets /\ Calls' = Calls
  BY EndingSame DEF Inv, Calls
<1>2. CallsOK
  BY DEF Inv
<1>3. call' \in [Players -> Calls]
  BY <1>2 DEF CallsOK
<1>4. ASSUME NEW q \in Players
      PROVE  /\ call'[q].op = "map" =>
                   /\ tickets'[call'[q].ticket].party = NoParty
                   /\ tickets'[call'[q].ticket].players = {q}
             /\ call'[q].op = "partymap" =>
                   /\ call'[q].ticket \in Tickets
                   /\ tickets'[call'[q].ticket].party = call'[q].party
  <2>1. CASE q = p
    BY <1>2, <2>1 DEF CallsOK
  <2>2. CASE q # p
    <3>1. call'[q] = call[q] /\ call[q] \in Calls
      BY <1>2, <2>2 DEF CallsOK
    <3>2. CASE call[q].op = "map"
      <4>1. call[q].ticket \in Tickets
        BY <3>1, <3>2, CallShape
      <4>2. tickets'[call[q].ticket].party = NoParty /\ tickets'[call[q].ticket].players = {q}
        BY <1>2, <3>2, <4>1 DEF CallsOK, Ending
      <4> QED
        BY <3>1, <3>2, <4>2
    <3>3. CASE call[q].op = "partymap"
      <4>1. call[q].ticket \in Tickets /\ tickets[call[q].ticket].party = call[q].party
        BY <1>2, <3>3 DEF CallsOK
      <4>2. tickets'[call[q].ticket].party = call[q].party
        BY <4>1 DEF Ending
      <4> QED
        BY <3>1, <3>3, <4>1, <4>2
    <3> QED
      BY <3>1, <3>2, <3>3
  <2> QED
    BY <2>1, <2>2
<1> QED
  BY <1>1, <1>3, <1>4 DEF CallsOK

\* A step of a call or of a goroutine: of the rest of the invariant it is
\* enough that the types and the mappings are kept.
LEMMA CallKeeps ==
  ASSUME Inv, Ending, UNCHANGED <<matches, job, settled, link, started>>,
         RosterOK', failed' \subseteq Tickets,
         watch' \in Seq(Goroutine), Len(watch') = Len(watch),
         playerMap' \in [Players -> {0} \cup Tickets], partyMap' \in [Parties -> {0} \cup Tickets],
         faults \subseteq faults', CallsOK', \A p \in Players : MappedOK(p)'
  PROVE  Inv'
<1>1. Tickets' = Tickets /\ Matches' = Matches
  BY EndingSame DEF Inv
<1>2. QueueOK'
  BY DEF Inv, QueueOK, Ending
<1>3. RedisOK'
  BY <1>1 DEF Inv, RedisOK
<1>4. /\ \A t \in Tickets' : TicketOK(t)' /\ LineOK(t)'
      /\ \A m \in Matches' : MatchOK(m)' /\ JobOK(m)'
      /\ Once'
  BY EndingEngine, EndingJobs
<1>5. \A p \in Players : LinkOK(p)'
  BY EndingLinks
<1> QED
  BY <1>2, <1>3, <1>4, <1>5 DEF Inv

\* The same when the mappings are not touched.
LEMMA QueryKeeps ==
  ASSUME Inv, Ending, UNCHANGED <<roster, matches, job, settled, link, started, failed,
                                  watch, playerMap, partyMap>>,
         faults \subseteq faults', CallsOK'
  PROVE  Inv'
<1>1. \A p \in Players : MappedOK(p)'
  BY EndingMaps
<1>2. RosterOK' /\ failed' \subseteq Tickets /\ watch' \in Seq(Goroutine) /\ Len(watch') = Len(watch)
      /\ playerMap' \in [Players -> {0} \cup Tickets] /\ partyMap' \in [Parties -> {0} \cup Tickets]
  BY DEF Inv, QueueOK, RosterOK, RedisOK
<1> QED
  BY <1>1, <1>2, CallKeeps

LEMMA TimeOutKeeps ==
  ASSUME Inv, TimeOut
  PROVE  Inv'
<1>1. Ending /\ UNCHANGED <<roster, redis, watch, job, call, calls, faults, published>>
  BY TimeOutEnding DEF Inv, TimeOut
<1>2. CallsOK'
  <2>1. Calls' = Calls /\ Tickets' = Tickets
    BY <1>1, EndingSame DEF Inv, Calls
  <2>2. \A p \in Players : call[p].op \in {"map", "partymap"} => call[p].ticket \in Tickets
    BY CallShape DEF Inv, CallsOK
  <2> QED
    BY <1>1, <2>1, <2>2 DEF Inv, CallsOK, Ending
<1> QED
  BY <1>1, <1>2, QueryKeeps DEF redis, published, Ending

LEMMA BeginType ==
  ASSUME CallsOK, NEW p \in Players, NEW c, Begin(p, c)
  PROVE  call' = [call EXCEPT ![p] = c] /\ calls' \in 0..MaxCalls
  BY MatchAssumption DEF CallsOK, Begin

LEMMA QueueMatchKeeps ==
  ASSUME Inv, NEW p \in Players, QueueMatch(p)
  PROVE  Inv'
<1>1. Ending /\ faults \subseteq faults' /\ faults' \subseteq Faults
  BY NoEnding, FaultKept DEF QueueMatch, engine, Inv, CallsOK
<1>2. CallsOK'
  <2>1. [op |-> "queue"] \in Calls
    BY DEF Calls
  <2>2. call' = [call EXCEPT ![p] = [op |-> "queue"]] /\ calls' \in 0..MaxCalls
    BY BeginType DEF QueueMatch, Inv
  <2> QED
    BY <1>1, <2>1, <2>2, CallGoes
<1> QED
  BY <1>1, <1>2, QueryKeeps DEF QueueMatch, engine, redis, published

LEMMA CancelMatchKeeps ==
  ASSUME Inv, NEW p \in Players, CancelMatch(p)
  PROVE  Inv'
<1>1. Ending /\ faults' = faults /\ faults' \subseteq Faults
  BY NoEnding DEF CancelMatch, engine, Inv, CallsOK
<1>2. CallsOK'
  <2> DEFINE c == [op |-> "cancel", ticket |-> playerMap[p]]
  <2>1. c \in Calls /\ c.op \notin {"map", "partymap"}
    BY DEF Calls, Inv, RedisOK, CancelMatch
  <2>2. call' = [call EXCEPT ![p] = c] /\ calls' \in 0..MaxCalls
    BY BeginType DEF CancelMatch, Inv
  <2> QED
    BY <1>1, <2>1, <2>2, CallGoes
<1> QED
  BY <1>1, <1>2, QueryKeeps DEF CancelMatch, engine, redis, published

LEMMA CancelTicketKeeps ==
  ASSUME Inv, NEW p \in Players, CancelTicket(p)
  PROVE  Inv'
<1>1. Ending /\ faults \subseteq faults' /\ faults' \subseteq Faults
  <2>1. UNCHANGED matches /\ (UNCHANGED tickets \/ Cancelled(call[p].ticket))
    BY DEF CancelTicket
  <2> QED
    BY <2>1, NoEnding, CancelledEnding, FaultKept DEF CancelTicket, Inv, CallsOK
<1>2. CallsOK'
  <2>1. [op |-> "unmap"] \in Calls /\ Idle \in Calls
    BY DEF Calls
  <2>2. calls' \in 0..MaxCalls
    BY DEF CancelTicket, Inv, CallsOK
  <2>3. \/ call' = [call EXCEPT ![p] = [op |-> "unmap"]]
        \/ call' = [call EXCEPT ![p] = Idle]
    BY DEF CancelTicket, Return
  <2> QED
    BY <1>1, <2>1, <2>2, <2>3, CallGoes DEF Idle
<1> QED
  BY <1>1, <1>2, QueryKeeps DEF CancelTicket, redis, published, Ending

\* A mapping that stays, with the goroutine it stands for.
LEMMA MappedKept ==
  ASSUME Inv, Ending, faults \subseteq faults', NEW p \in Players,
         \/ playerMap'[p] = 0
         \/ playerMap'[p] = playerMap[p] /\ watch'[playerMap[p]] = watch[playerMap[p]]
  PROVE  MappedOK(p)'
<1>1. MappedOK(p) /\ playerMap[p] \in {0} \cup Tickets
  BY DEF Inv, RedisOK
<1> QED
  BY <1>1 DEF MappedOK, Ending

LEMMA CancelUnmapKeeps ==
  ASSUME Inv, NEW p \in Players, CancelUnmap(p)
  PROVE  Inv'
<1>1. Ending /\ faults \subseteq faults' /\ faults' \subseteq Faults
  BY NoEnding, FaultKept DEF CancelUnmap, engine, Refused, Inv, CallsOK
<1>2. CallsOK'
  BY <1>1, CallGoes DEF CancelUnmap, Return, Calls, Idle, Inv, CallsOK
<1>3. /\ playerMap' \in [Players -> {0} \cup Tickets]
      /\ \A q \in Players : playerMap'[q] \in {0, playerMap[q]}
  BY DEF CancelUnmap, Refused, Inv, RedisOK
<1>4. \A q \in Players : MappedOK(q)'
  BY <1>1, <1>3, MappedKept DEF CancelUnmap
<1>5. UNCHANGED <<roster, matches, job, settled, link, published, watch, partyMap>>
  BY DEF CancelUnmap, engine
<1> QED
  BY <1>1, <1>2, <1>3, <1>4, <1>5, CallKeeps DEF published, Inv, QueueOK, RosterOK, RedisOK

LEMMA QueuePartyKeeps ==
  ASSUME Inv, NEW p \in Players, NEW g \in Parties, QueueParty(p, g)
  PROVE  Inv'
<1>1. Ending /\ faults \subseteq faults' /\ faults' \subseteq Faults
  BY NoEnding, FaultKept DEF QueueParty, engine, Inv, CallsOK
<1>2. CallsOK'
  <2> DEFINE c == [op |-> "party", party |-> g]
  <2>1. c \in Calls /\ c.op \notin {"map", "partymap"}
    BY DEF Calls
  <2>2. call' = [call EXCEPT ![p] = c] /\ calls' \in 0..MaxCalls
    BY BeginType DEF QueueParty, Inv
  <2> QED
    BY <1>1, <2>1, <2>2, CallGoes
<1> QED
  BY <1>1, <1>2, QueryKeeps DEF QueueParty, engine, redis, published

LEMMA LeavePartyKeeps ==
  ASSUME Inv, NEW p \in Players, NEW g \in Parties, LeaveParty(p, g)
  PROVE  Inv'
<1>1. Ending /\ faults \subseteq faults' /\ faults' \subseteq Faults
  BY NoEnding, FaultKept DEF LeaveParty, engine, Inv, CallsOK
<1>2. CallsOK'
  <2>1. PICK c : /\ Begin(p, c)
                 /\ \/ c = [op |-> IF partyMap[g] = 0 THEN "leave" ELSE "leavecancel",
                            party |-> g, ticket |-> partyMap[g]]
                    \/ c = [op |-> "leave", party |-> g, ticket |-> 0]
    BY DEF LeaveParty
  <2>2. c \in Calls /\ c.op \notin {"map", "partymap"}
    BY <2>1 DEF Calls, Inv, RedisOK
  <2>3. call' = [call EXCEPT ![p] = c] /\ calls' \in 0..MaxCalls
    BY <2>1, BeginType DEF Inv
  <2> QED
    BY <1>1, <2>2, <2>3, CallGoes
<1> QED
  BY <1>1, <1>2, QueryKeeps DEF LeaveParty, engine, redis, published

\* The steps of a player who leaves: the call keeps what it carries.
LEMMA LeaveGoes ==
  ASSUME Inv, NEW p \in Players, call[p].op \in {"leavecancel", "leaveunmap"},
         NEW op \in {"leaveunmap", "leave"}, call' = [call EXCEPT ![p].op = op]
  PROVE  \E c \in Calls : c.op \notin {"map", "partymap"} /\ call' = [call EXCEPT ![p] = c]
<1> DEFINE c == call[p]
           d == [op |-> op, party |-> c.party, ticket |-> c.ticket]
<1>1. c \in Calls
  BY DEF Inv, CallsOK
<1>2. c.party \in Parties /\ c.ticket \in {0} \cup Tickets
      /\ c = [op |-> c.op, party |-> c.party, ticket |-> c.ticket]
  BY <1>1, CallShape
<1>3. [c EXCEPT !.op = op] = d
  BY <1>2
<1>4. d \in Calls
  BY <1>2 DEF Calls
<1>5. call' = [call EXCEPT ![p] = d]
  BY <1>3
<1> QED
  BY <1>4, <1>5

LEMMA LeaveCancelKeeps ==
  ASSUME Inv, NEW p \in Players, LeaveCancel(p)
  PROVE  Inv'
<1>1. Ending /\ faults \subseteq faults' /\ faults' \subseteq Faults
  <2>1. UNCHANGED matches /\ (UNCHANGED tickets \/ Cancelled(call[p].ticket))
    BY DEF LeaveCancel, Refused
  <2> QED
    BY <2>1, NoEnding, CancelledEnding, FaultKept DEF LeaveCancel, Refused, Inv, CallsOK
<1>2. CallsOK'
  <2>1. PICK c \in Calls : c.op \notin {"map", "partymap"} /\ call' = [call EXCEPT ![p] = c]
    BY LeaveGoes DEF LeaveCancel
  <2>2. calls' \in 0..MaxCalls
    BY DEF LeaveCancel, Inv, CallsOK
  <2> QED
    BY <1>1, <2>1, <2>2, CallGoes
<1> QED
  BY <1>1, <1>2, QueryKeeps DEF LeaveCancel, redis, published, Ending

LEMMA LeaveUnmapKeeps ==
  ASSUME Inv, NEW p \in Players, LeaveUnmap(p)
  PROVE  Inv'
<1>1. Ending /\ faults \subseteq faults' /\ faults' \subseteq Faults
  BY NoEnding, FaultKept DEF LeaveUnmap, engine, Refused, Inv, CallsOK
<1>2. CallsOK'
  <2>1. PICK c \in Calls : c.op \notin {"map", "partymap"} /\ call' = [call EXCEPT ![p] = c]
    BY LeaveGoes DEF LeaveUnmap
  <2>2. calls' \in 0..MaxCalls
    BY DEF LeaveUnmap, Inv, CallsOK
  <2> QED
    BY <1>1, <2>1, <2>2, CallGoes
<1>3. partyMap' \in [Parties -> {0} \cup Tickets]
  BY DEF LeaveUnmap, Refused, Inv, RedisOK
<1>4. \A q \in Players : MappedOK(q)'
  BY <1>1, MappedKept DEF LeaveUnmap
<1>5. UNCHANGED <<roster, matches, job, settled, link, published, watch, playerMap>>
  BY DEF LeaveUnmap, engine
<1> QED
  BY <1>1, <1>2, <1>3, <1>4, <1>5, CallKeeps DEF published, Inv, QueueOK, RosterOK, RedisOK

\* A step of the party itself.
LEMMA RosterKeeps ==
  ASSUME Inv, UNCHANGED <<tickets, matches, redis, watch, job, published>>,
         NEW p \in Players, NEW g, NEW S, roster' = [roster EXCEPT ![g] = S],
         g \in Parties => S \subseteq Players /\ IsFiniteSet(S),
         faults \subseteq faults', CallsOK'
  PROVE  Inv'
<1>1. Ending
  BY NoEnding DEF Inv
<1>2. RosterOK'
  BY DEF RosterOK, Inv, QueueOK
<1>3. \A q \in Players : MappedOK(q)'
  BY <1>1, MappedKept DEF redis
<1> QED
  BY <1>1, <1>2, <1>3, CallKeeps DEF redis, published, Inv, QueueOK, RedisOK

LEMMA JoinPartyKeeps ==
  ASSUME Inv, NEW p \in Players, NEW g \in Parties, JoinParty(p, g)
  PROVE  Inv'
<1>1. Ending
  BY NoEnding DEF JoinParty, Inv
<1>2. CallsOK'
  <2>1. Idle \in Calls /\ Idle.op \notin {"map", "partymap"} /\ call' = [call EXCEPT ![p] = Idle]
    BY DEF Calls, Idle, JoinParty, Inv, CallsOK
  <2>2. calls' \in 0..MaxCalls /\ faults' \subseteq Faults
    BY MatchAssumption DEF JoinParty, Inv, CallsOK
  <2> QED
    BY <1>1, <2>1, <2>2, CallGoes
<1>3. IsFiniteSet(roster[g] \cup {p}) /\ roster[g] \cup {p} \subseteq Players
  BY FS_AddElement DEF Inv, QueueOK, RosterOK
<1> QED
  BY <1>2, <1>3, RosterKeeps DEF JoinParty

LEMMA LeaveKeeps ==
  ASSUME Inv, NEW p \in Players, Leave(p)
  PROVE  Inv'
<1>1. Ending /\ faults \subseteq faults' /\ faults' \subseteq Faults
  BY NoEnding, FaultKept DEF Leave, Refused, Inv, CallsOK
<1>2. CallsOK'
  BY <1>1, CallGoes DEF Leave, Return, Calls, Idle, Inv, CallsOK
<1>3. CASE UNCHANGED roster
  BY <1>1, <1>2, <1>3, QueryKeeps DEF Leave, redis, published
<1>4. CASE roster' = [roster EXCEPT ![call[p].party] = @ \ {p}]
  <2> DEFINE g == call[p].party
             S == roster[g] \ {p}
  <2>1. roster' = [roster EXCEPT ![g] = S]
    BY <1>4
  <2>2. g \in Parties => S \subseteq Players /\ IsFiniteSet(S)
    BY FS_RemoveElement DEF Inv, QueueOK, RosterOK
  <2> HIDE DEF g, S
  <2> QED
    BY <1>1, <1>2, <2>1, <2>2, RosterKeeps DEF Leave
<1> QED
  BY <1>3, <1>4 DEF Leave, Refused

\* The goroutine of a ticket starts.
LEMMA WatchType ==
  ASSUME QueueOK, NEW t \in Tickets, NEW p \in Players \cup {Nobody}, Watch(t, p)
  PROVE  /\ watch' \in Seq(Goroutine) /\ Len(watch') = Len(watch)
         /\ watch'[t].step = "wait" /\ watch'[t].player = p
         /\ \A u \in Tickets : u # t => watch'[u] = watch[u]
<1>1. PICK i \in Instances : watch' = [watch EXCEPT ![t] = [step |-> "wait", at |-> i, player |-> p]]
  BY DEF Watch
<1>2. [step |-> "wait", at |-> i, player |-> p] \in Goroutine
  BY DEF Goroutine
<1>3. watch \in Seq(Goroutine) /\ Tickets = 1..Len(watch)
  BY DEF QueueOK, Tickets
<1> QED
  BY <1>1, <1>2, <1>3

LEMMA QueueMapKeeps ==
  ASSUME Inv, NEW p \in Players, QueueMap(p)
  PROVE  Inv'
<1> DEFINE t == call[p].ticket
<1>1. Ending /\ faults \subseteq faults' /\ faults' \subseteq Faults
  BY NoEnding, FaultKept DEF QueueMap, engine, Refused, Inv, CallsOK
<1>2. CallsOK'
  BY <1>1, CallGoes DEF QueueMap, Return, Calls, Idle, Inv, CallsOK
<1>3. t \in Tickets /\ tickets[t].party = NoParty /\ tickets[t].players = {p}
  <2>1. call[p] \in Calls /\ call[p].op = "map"
    BY DEF QueueMap, Inv, CallsOK
  <2> QED
    BY <2>1, CallShape DEF Inv, CallsOK
<1>4. UNCHANGED <<tickets, roster, matches, job, settled, link, published, partyMap>>
  BY DEF QueueMap, engine
<1>5. CASE Refused(<<playerMap, watch>>)
  BY <1>1, <1>2, <1>4, <1>5, QueryKeeps DEF Refused, published
<1>6. CASE playerMap' = [playerMap EXCEPT ![p] = t] /\ Watch(t, p)
  <2>1. /\ watch' \in Seq(Goroutine) /\ Len(watch') = Len(watch)
        /\ watch'[t].step = "wait" /\ watch'[t].player = p
        /\ \A u \in Tickets : u # t => watch'[u] = watch[u]
    BY <1>3, <1>6, WatchType DEF Inv
  <2>2. playerMap' \in [Players -> {0} \cup Tickets] /\ playerMap'[p] = t
        /\ \A q \in Players : q # p => playerMap'[q] = playerMap[q]
    BY <1>3, <1>6 DEF Inv, RedisOK
  <2>3. ASSUME NEW q \in Players PROVE MappedOK(q)'
    <3>1. CASE q = p
      BY <1>3, <1>4, <2>1, <2>2, <3>1 DEF MappedOK
    <3>2. CASE q # p /\ playerMap[q] # t
      <4>1. playerMap[q] \in {0} \cup Tickets
        BY DEF Inv, RedisOK
      <4> QED
        BY <1>1, <2>1, <2>2, <3>2, <4>1, MappedKept
    <3>3. CASE q # p /\ playerMap[q] = t
      <4>1. MappedOK(q) /\ t # 0
        BY <1>3 DEF Inv, QueueOK, Tickets
      <4> QED
        BY <1>3, <3>3, <4>1 DEF MappedOK
    <3> QED
      BY <3>1, <3>2, <3>3
  <2> QED
    BY <1>1, <1>2, <1>4, <2>1, <2>2, <2>3, CallKeeps DEF published, Inv, QueueOK, RosterOK, RedisOK
<1> QED
  BY <1>5, <1>6 DEF QueueMap

LEMMA PartyMapKeeps ==
  ASSUME Inv, NEW p \in Players, PartyMap(p)
  PROVE  Inv'
<1> DEFINE c == call[p]
           t == call[p].ticket
<1>1. Ending /\ faults \subseteq faults' /\ faults' \subseteq Faults
  BY NoEnding, FaultKept DEF PartyMap, engine, Refused, Inv, CallsOK
<1>2. CallsOK'
  BY <1>1, CallGoes DEF PartyMap, Return, Calls, Idle, Inv, CallsOK
<1>3. t \in Tickets /\ c.party \in Parties /\ tickets[t].party = c.party
  <2>1. call[p] \in Calls /\ call[p].op = "partymap"
    BY DEF PartyMap, Inv, CallsOK
  <2> QED
    BY <2>1, CallShape DEF Inv, CallsOK
<1>4. UNCHANGED <<tickets, roster, matches, job, settled, link, published, playerMap>>
  BY DEF PartyMap, engine
<1>5. CASE Refused(<<partyMap, watch>>)
  BY <1>1, <1>2, <1>4, <1>5, QueryKeeps DEF Refused, published
<1>6. CASE /\ partyMap' = [partyMap EXCEPT ![c.party] = t]
           /\ \E leader \in IF roster[c.party] = {} THEN {Nobody} ELSE roster[c.party] :
                 Watch(t, leader)
  <2>1. PICK leader \in Players \cup {Nobody} : Watch(t, leader)
    BY <1>3, <1>6 DEF Inv, QueueOK, RosterOK
  <2>2. /\ watch' \in Seq(Goroutine) /\ Len(watch') = Len(watch)
        /\ \A u \in Tickets : u # t => watch'[u] = watch[u]
    BY <1>3, <2>1, WatchType DEF Inv
  <2>3. partyMap' \in [Parties -> {0} \cup Tickets]
    BY <1>3, <1>6 DEF Inv, RedisOK
  <2>4. ASSUME NEW q \in Players PROVE MappedOK(q)'
    <3>1. playerMap[q] \in {0} \cup Tickets
      BY DEF Inv, RedisOK
    <3>2. CASE playerMap[q] = t
      BY <1>3, <1>4, <3>2, MatchAssumption DEF MappedOK
    <3>3. CASE playerMap[q] = 0
      BY <1>4, <3>3 DEF MappedOK
    <3>4. CASE playerMap[q] \in Tickets \ {t}
      BY <1>1, <1>4, <2>2, <3>4, MappedKept
    <3> QED
      BY <3>1, <3>2, <3>3, <3>4
  <2> QED
    BY <1>1, <1>2, <1>4, <2>2, <2>3, <2>4, CallKeeps DEF published, Inv, QueueOK, RosterOK, RedisOK
<1> QED
  BY <1>5, <1>6 DEF PartyMap
-------------------------------------------------------------------------------
(* The goroutines and the admissions *)

\* A goroutine goes on.
LEMMA WatchGoes ==
  ASSUME QueueOK, NEW t \in Tickets, NEW step \in {"unmap", "done"},
         watch[t].step \in {"wait", "unmap"}, watch' = [watch EXCEPT ![t].step = step]
  PROVE  /\ watch' \in Seq(Goroutine) /\ Len(watch') = Len(watch)
         /\ watch'[t].step = step /\ watch'[t].player = watch[t].player
         /\ \A u \in Tickets : u # t => watch'[u] = watch[u]
<1> DEFINE w == watch[t]
           v == [step |-> step, at |-> w.at, player |-> w.player]
<1>1. watch \in Seq(Goroutine) /\ Tickets = 1..Len(watch) /\ w \in Goroutine
  BY DEF QueueOK, Tickets
<1>2. w = [step |-> w.step, at |-> w.at, player |-> w.player] /\ v \in Goroutine
  BY <1>1 DEF Goroutine
<1>3. [w EXCEPT !.step = step] = v
  BY <1>2
<1>4. watch' = [watch EXCEPT ![t] = v]
  BY <1>3
<1> QED
  BY <1>1, <1>2, <1>4

LEMMA TellFailedKeeps ==
  ASSUME Inv, NEW t \in Tickets, TellFailed(t)
  PROVE  Inv'
<1>1. Ending /\ CallsOK' /\ UNCHANGED <<engine, redis, job, faults, started>>
  <2>1. Ending
    BY NoEnding DEF TellFailed, engine, Inv
  <2>2. CallsOK'
    BY DEF TellFailed, engine, Inv, CallsOK, Calls, Tickets
  <2> QED
    BY <2>1, <2>2 DEF TellFailed
<1>2. /\ watch' \in Seq(Goroutine) /\ Len(watch') = Len(watch)
      /\ watch'[t].step = "unmap" /\ watch'[t].player = watch[t].player
      /\ \A u \in Tickets : u # t => watch'[u] = watch[u]
  BY WatchGoes DEF TellFailed, Waiting, Inv
<1>3. ASSUME NEW q \in Players PROVE MappedOK(q)'
  <2>1. playerMap[q] \in {0} \cup Tickets /\ MappedOK(q)
    BY DEF Inv, RedisOK
  <2>2. CASE playerMap[q] = t
    BY <1>1, <1>2, <2>1, <2>2 DEF MappedOK, engine, redis, TellFailed, Waiting
  <2>3. CASE playerMap[q] = 0
    BY <1>1, <2>3 DEF MappedOK, redis
  <2>4. CASE playerMap[q] \in Tickets \ {t}
    BY <1>1, <1>2, <2>4, MappedKept DEF redis
  <2> QED
    BY <2>1, <2>2, <2>3, <2>4
<1>4. failed' \subseteq Tickets
  BY DEF TellFailed, Inv, RedisOK
<1> QED
  BY <1>1, <1>2, <1>3, <1>4, CallKeeps DEF engine, redis, Inv, QueueOK, RosterOK, RedisOK

LEMMA UnmapKeeps ==
  ASSUME Inv, NEW t \in Tickets, Unmap(t)
  PROVE  Inv'
<1>1. /\ Ending /\ faults \subseteq faults' /\ CallsOK'
      /\ UNCHANGED <<engine, partyMap, settled, link, job, published>>
  <2>1. Ending
    BY NoEnding DEF Unmap, engine, Inv
  <2>2. faults \subseteq faults' /\ faults' \subseteq Faults
    BY FaultKept DEF Unmap, Refused, Inv, CallsOK
  <2>3. CallsOK'
    BY <2>2 DEF Unmap, engine, Inv, CallsOK, Calls, Tickets
  <2> QED
    BY <2>1, <2>2, <2>3 DEF Unmap
<1>2. /\ watch' \in Seq(Goroutine) /\ Len(watch') = Len(watch)
      /\ \A u \in Tickets : u # t => watch'[u] = watch[u]
  BY WatchGoes DEF Unmap, Finish, Inv
<1>3. \/ \A q \in Players : playerMap'[q] = IF q = watch[t].player THEN 0 ELSE playerMap[q]
      \/ playerMap' = playerMap /\ "redis" \in faults'
  BY FaultKept DEF Unmap, Refused, Inv
<1>4. playerMap' \in [Players -> {0} \cup Tickets]
  BY DEF Unmap, Refused, Inv, RedisOK
<1>5. ASSUME NEW q \in Players PROVE MappedOK(q)'
  <2>1. playerMap[q] \in {0} \cup Tickets /\ MappedOK(q)
    BY DEF Inv, RedisOK
  <2>2. CASE playerMap'[q] = 0
    BY <2>2 DEF MappedOK
  <2>3. CASE playerMap'[q] = playerMap[q] /\ playerMap[q] = t
    <3>1. "redis" \in faults' \/ q # watch[t].player \/ t = 0
      BY <1>3, <2>3
    <3>2. tickets[t].party = NoParty /\ t # 0 =>
             tickets[t].players = {q} /\ (watch[t].player = q \/ "redis" \in faults)
      BY <2>1, <2>3 DEF MappedOK, Unmap
    <3> QED
      BY <1>1, <2>3, <3>1, <3>2 DEF MappedOK, engine
  <2>4. CASE playerMap'[q] = playerMap[q] /\ playerMap[q] \in Tickets \ {t}
    BY <1>1, <1>2, <2>4, MappedKept
  <2> QED
    BY <1>3, <2>1, <2>2, <2>3, <2>4
<1> QED
  BY <1>1, <1>2, <1>4, <1>5, CallKeeps DEF engine, published, Inv, QueueOK, RosterOK, RedisOK

\* A step of the admission of a match.
LEMMA WorkKeeps ==
  ASSUME Inv, UNCHANGED <<tickets, matches, roster, call, calls>>,
         NEW m \in Matches, NEW j \in Admission, job' = [job EXCEPT ![m] = j],
         settled \subseteq settled', settled' \subseteq settled \cup {m},
         started \subseteq started', started' \subseteq started \cup {m}, started' \subseteq settled',
         m \in started' \ started => Unqueued(TicketsOf(m)),
         failed' \subseteq Tickets,
         watch' \in Seq(Goroutine), Len(watch') = Len(watch),
         playerMap' \in [Players -> {0} \cup Tickets], partyMap' \in [Parties -> {0} \cup Tickets],
         link' \in [Players -> {0} \cup Matches],
         faults \subseteq faults', faults' \subseteq Faults,
         JobOK(m)', \A p \in Players : LinkOK(p)' /\ MappedOK(p)'
  PROVE  Inv'
<1>1. /\ Ending /\ Tickets' = Tickets /\ Matches' = Matches
      /\ Tickets = 1..Len(tickets) /\ Matches = 1..Len(matches)
  BY NoEnding, EndingSame DEF Inv
<1>2. /\ \A k \in Matches : TicketsOf(k)' = TicketsOf(k)
      /\ \A S : Unqueued(S)' = Unqueued(S)
  BY <1>1, EndingSame DEF Inv
<1>3. QueueOK'
  BY <1>1 DEF Inv, QueueOK, RosterOK
<1>4. RedisOK'
  BY <1>1 DEF Inv, RedisOK
<1>5. CallsOK'
  BY <1>1 DEF Inv, CallsOK, Calls
<1>6. /\ \A t \in Tickets' : TicketOK(t)'
      /\ \A k \in Matches' : MatchOK(k)'
      /\ Once'
  BY <1>1, EndingEngine
<1>7. ASSUME NEW t \in Tickets PROVE LineOK(t)'
  <2> DEFINE o == tickets[t].from
  <2>1. LineOK(t) /\ o \in {0} \cup Tickets /\ (o # 0 => TicketOK(o))
    BY <1>1 DEF Inv, LineOK
  <2>2. ASSUME o # 0, tickets[o].match \in started' PROVE FALSE
    <3>1. tickets[o].match \notin started /\ o \in Tickets /\ tickets[o].state = "completed"
      BY <2>1, <2>2 DEF LineOK
    <3>2. tickets[o].match = m
      BY <2>2, <3>1
    <3>3. o \in TicketsOf(m)
      BY <1>1, <2>1, <2>2, <3>2 DEF TicketOK
    <3> QED
      BY <2>2, <3>1, <3>2, <3>3 DEF Unqueued
  <2> QED
    BY <2>1, <2>2 DEF LineOK
<1>8. ASSUME NEW k \in Matches, k # m PROVE JobOK(k)'
  <2>1. JobOK(k) /\ job'[k] = job[k] /\ (k \in settled' <=> k \in settled) /\ (k \in started' <=> k \in started)
    BY <1>8 DEF Inv
  <2> QED
    BY <1>1, <1>2, <2>1 DEF JobOK
<1> QED
  BY <1>1, <1>3, <1>4, <1>5, <1>6, <1>7, <1>8 DEF Inv

\* The links to other matches than the one that is worked on.
LEMMA LinkKept ==
  ASSUME Inv, UNCHANGED <<tickets, matches>>, NEW m, NEW j, job' = [job EXCEPT ![m] = j],
         started \subseteq started', faults \subseteq faults', NEW p \in Players,
         link'[p] = link[p],
         link[p] = m => m \in started' \/ j.step \in {"publish", "unlink", "lost"}
                          \/ "redis" \in faults'
  PROVE  LinkOK(p)'
<1>1. LinkOK(p) /\ link[p] \in {0} \cup Matches
  BY DEF Inv, RedisOK
<1>2. Matches = 1..Len(job) /\ job \in Seq(Admission)
  BY DEF Inv, QueueOK, Matches
<1>3. CASE link[p] # m
  <2>1. link[p] # 0 => job'[link[p]] = job[link[p]]
    BY <1>1, <1>2, <1>3
  <2> QED
    BY <1>1, <2>1 DEF LinkOK, PlayersOf, TicketsOf
<1>4. CASE link[p] = m
  <2>1. m # 0 => job'[m] = j /\ p \in PlayersOf(m)
    BY <1>1, <1>2, <1>4 DEF LinkOK
  <2> QED
    BY <1>4, <2>1 DEF LinkOK, PlayersOf, TicketsOf
<1> QED
  BY <1>3, <1>4

\* A match that is not between its link and its start has no links, unless
\* redis failed.
LEMMA NotLinked ==
  ASSUME Inv, NEW m \in Matches, job[m].step \notin {"publish", "unlink", "lost", "done"},
         NEW p \in Players, link[p] = m
  PROVE  "redis" \in faults
<1>1. m \notin started
  BY DEF Inv, JobOK
<1>2. m # 0 /\ LinkOK(p)
  BY DEF Inv, QueueOK, Matches
<1> QED
  BY <1>1, <1>2 DEF LinkOK

LEMMA JobGoes ==
  ASSUME QueueOK, NEW m \in Matches, job[m].step \notin {"none", "lost"},
         NEW step \in Entering \cup {"requeue", "remap", "done"}, NEW todo \in SUBSET Nat,
         NEW j, j = [step |-> step, at |-> job[m].at, todo |-> todo]
  PROVE  /\ j \in Admission
         /\ job[m] = [step |-> job[m].step, at |-> job[m].at, todo |-> job[m].todo]
         /\ job[m].todo \in SUBSET Nat
<1>1. job[m] \in Admission
  BY DEF QueueOK, Matches
<1> QED
  BY <1>1 DEF Admission, Entering

LEMMA GotoGoes ==
  ASSUME QueueOK, NEW m \in Matches, job[m].step \notin {"none", "lost"},
         NEW step \in Entering \cup {"requeue", "remap", "done"}, Goto(m, step)
  PROVE  \E j \in Admission : /\ job' = [job EXCEPT ![m] = j] /\ job'[m] = j
                              /\ j.step = step /\ j.todo = job[m].todo
<1> DEFINE c == job[m]
           j == [step |-> step, at |-> c.at, todo |-> c.todo]
<1>1. c = [step |-> c.step, at |-> c.at, todo |-> c.todo] /\ c.todo \in SUBSET Nat
  BY JobGoes
<1>2. j \in Admission
  BY <1>1, JobGoes
<1>3. [c EXCEPT !.step = step] = j
  BY <1>1
<1>4. job' = [job EXCEPT ![m] = j]
  BY <1>3 DEF Goto
<1>5. job'[m] = j
  BY <1>4 DEF QueueOK, Matches
<1> QED
  BY <1>2, <1>4, <1>5

\* What the steps of an admission leave alone.
LEMMA WorkLeaves ==
  ASSUME Inv, UNCHANGED <<tickets, matches>>
  PROVE  /\ Ending /\ Tickets' = Tickets /\ Matches' = Matches
         /\ \A m \in Matches : TicketsOf(m)' = TicketsOf(m) /\ PlayersOf(m)' = PlayersOf(m)
         /\ \A S : Unqueued(S)' = Unqueued(S)
         /\ \A m \in Matches : TicketsOf(m) # {} /\ TicketsOf(m) \in SUBSET Nat /\ JobOK(m) /\ m # 0
         /\ watch \in Seq(Goroutine)
         /\ playerMap \in [Players -> {0} \cup Tickets] /\ partyMap \in [Parties -> {0} \cup Tickets]
         /\ link \in [Players -> {0} \cup Matches]
         /\ started \subseteq settled /\ failed \subseteq Tickets /\ faults \subseteq Faults
<1>1. Ending
  BY NoEnding DEF Inv
<1>2. \A m \in Matches : TicketsOf(m)' = TicketsOf(m) /\ PlayersOf(m)' = PlayersOf(m)
  BY DEF TicketsOf, PlayersOf
<1>3. \A m \in Matches : TicketsOf(m) # {} /\ TicketsOf(m) \in SUBSET Nat /\ JobOK(m) /\ m # 0
  <2> SUFFICES ASSUME NEW m \in Matches
               PROVE  TicketsOf(m) # {} /\ TicketsOf(m) \in SUBSET Nat /\ JobOK(m) /\ m # 0
    OBVIOUS
  <2>1. m # 0 /\ matches[m] \in Match
    BY DEF Inv, QueueOK, Matches
  <2>2. TicketsOf(m) # {} /\ JobOK(m)
    BY DEF Inv, MatchOK
  <2> QED
    BY <2>1, <2>2 DEF Match, TicketsOf
<1> QED
  BY <1>1, <1>2, <1>3, EndingSame DEF Inv, RedisOK, QueueOK, CallsOK

LEMMA TrySettleKeeps ==
  ASSUME Inv, NEW t \in Tickets, TrySettle(t)
  PROVE  Inv'
<1>1. UNCHANGED <<tickets, matches, roster, playerMap, partyMap, link, call, calls, started, failed>>
  BY DEF TrySettle, engine, published
<1>2. /\ Ending /\ Tickets' = Tickets /\ Matches' = Matches
      /\ \A k \in Matches : TicketsOf(k)' = TicketsOf(k) /\ JobOK(k)
      /\ \A S : Unqueued(S)' = Unqueued(S)
      /\ playerMap \in [Players -> {0} \cup Tickets] /\ partyMap \in [Parties -> {0} \cup Tickets]
      /\ link \in [Players -> {0} \cup Matches]
      /\ started \subseteq settled /\ failed \subseteq Tickets /\ faults \subseteq Faults
  BY <1>1, WorkLeaves
<1>m. PICK m \in Matches : m = tickets[t].match
  <2>1. TicketOK(t) /\ tickets[t].state = "completed"
    BY DEF Inv, TrySettle, Waiting
  <2> QED
    BY <2>1 DEF TicketOK
<1>3. TicketsOf(m) \in SUBSET Nat /\ m # 0
  BY <1>1, WorkLeaves
<1>4. /\ watch' \in Seq(Goroutine) /\ Len(watch') = Len(watch)
      /\ watch'[t].step = "done"
      /\ \A u \in Tickets : u # t => watch'[u] = watch[u]
  BY WatchGoes DEF TrySettle, Waiting, Finish, Inv
<1>5. faults \subseteq faults' /\ faults' \subseteq Faults
  BY FaultKept DEF TrySettle, Refused, Inv, CallsOK
<1>6. ASSUME NEW q \in Players PROVE MappedOK(q)'
  <2>1. playerMap[q] \in {0} \cup Tickets /\ MappedOK(q)
    BY DEF Inv, RedisOK
  <2>2. CASE playerMap[q] = t
    BY <1>1, <1>4, <2>1, <2>2 DEF MappedOK, TrySettle, Waiting
  <2>3. CASE playerMap[q] = 0
    BY <1>1, <2>3 DEF MappedOK
  <2>4. CASE playerMap[q] \in Tickets \ {t}
    BY <1>1, <1>2, <1>4, <1>5, <2>4, MappedKept
  <2> QED
    BY <2>1, <2>2, <2>3, <2>4
<1>7. job \in Seq(Admission) /\ m \in 1..Len(job)
  BY <1>3 DEF Inv, QueueOK, Matches
<1>8. settled \subseteq settled' /\ settled' \subseteq settled \cup {m}
  BY <1>m DEF TrySettle
<1>9. CASE m \notin settled /\ settled' = settled \cup {m}
           /\ job' = [job EXCEPT ![m] = [step |-> "admit", at |-> watch[t].at, todo |-> TicketsOf(m)]]
  <2> DEFINE j == [step |-> "admit", at |-> watch[t].at, todo |-> TicketsOf(m)]
  <2>1. j \in Admission
    <3>1. watch[t] \in Goroutine /\ watch[t].step = "wait"
      BY DEF Inv, QueueOK, Tickets, TrySettle, Waiting
    <3>2. watch[t].at \in Instances
      BY <3>1 DEF Goroutine
    <3> QED
      BY <1>3, <3>2 DEF Admission, Entering
  <2>2. job' = [job EXCEPT ![m] = j] /\ job'[m] = j
    BY <1>7, <1>9
  <2>3. JobOK(m) /\ job[m].step = "none" /\ m \notin started
    BY <1>2, <1>3, <1>9 DEF JobOK
  <2>4. JobOK(m)'
    <3>1. job'[m].step = "admit" /\ job'[m].todo = TicketsOf(m)
      BY <2>2
    <3>2. Unqueued(TicketsOf(m)) /\ m \in settled' /\ m \notin started'
      BY <1>1, <1>9, <2>3 DEF JobOK
    <3> QED
      BY <1>2, <3>1, <3>2 DEF JobOK, Entering
  <2>5. \A p \in Players : LinkOK(p)'
    <3>1. \A p \in Players : link[p] = m => "redis" \in faults
      BY <1>3, <2>3, NotLinked
    <3> HIDE DEF j
    <3> QED
      BY <1>1, <1>5, <2>2, <3>1, LinkKept
  <2> HIDE DEF j
  <2> QED
    BY <1>1, <1>2, <1>3, <1>4, <1>5, <1>6, <1>8, <2>1, <2>2, <2>4, <2>5, WorkKeeps
<1>10. CASE job' = job /\ (m \notin settled => settled' = settled \/ "redis" \in faults')
  <2>1. job[m] \in Admission /\ job' = [job EXCEPT ![m] = job[m]]
    BY <1>7, <1>10
  <2>2. JobOK(m)'
    BY <1>1, <1>2, <1>3, <1>8, <1>10 DEF JobOK
  <2>3. \A p \in Players : LinkOK(p)'
    BY <1>1, <1>2, <1>5, <1>10 DEF Inv, LinkOK, PlayersOf, TicketsOf
  <2> QED
    BY <1>1, <1>2, <1>3, <1>4, <1>5, <1>6, <1>8, <2>1, <2>2, <2>3, WorkKeeps
<1> QED
  BY <1>m, <1>5, <1>9, <1>10, FaultKept DEF TrySettle, Refused, Inv

LEMMA AdmitKeeps ==
  ASSUME Inv, NEW m \in Matches, Admit(m)
  PROVE  Inv'
<1>1. UNCHANGED <<tickets, matches, roster, playerMap, partyMap, link, settled, call, calls, watch,
                  started, failed, faults>>
  BY DEF Admit, engine, redis, published
<1>2. PICK j \in Admission : /\ job' = [job EXCEPT ![m] = j] /\ job'[m] = j
                             /\ j.step \in {"link", "requeue"} /\ j.todo = job[m].todo
  BY GotoGoes DEF Inv, Admit, At, Entering
<1>3. /\ JobOK(m) /\ job[m].step = "admit" /\ m \notin started /\ TicketsOf(m) # {}
      /\ TicketsOf(m)' = TicketsOf(m) /\ Unqueued(TicketsOf(m))' = Unqueued(TicketsOf(m))
  BY <1>1, WorkLeaves DEF Admit, At, JobOK
<1>4. JobOK(m)'
  BY <1>1, <1>2, <1>3 DEF JobOK, Entering
<1>5. \A p \in Players : LinkOK(p)'
  BY <1>1, <1>2, <1>3, NotLinked, LinkKept
<1>6. \A p \in Players : MappedOK(p)'
  BY <1>1, WorkLeaves, MappedKept
<1> QED
  BY <1>1, <1>2, <1>4, <1>5, <1>6, WorkLeaves, WorkKeeps DEF Inv, QueueOK

LEMMA LinkKeeps ==
  ASSUME Inv, NEW m \in Matches, Link(m)
  PROVE  Inv'
<1>1. UNCHANGED <<tickets, matches, roster, playerMap, partyMap, settled, call, calls, watch,
                  started, failed>>
  BY DEF Link, engine, published
<1>2. PICK s \in SUBSET PlayersOf(m) :
         Reaches(s, PlayersOf(m)) /\ link' = [p \in Players |-> IF p \in s THEN m ELSE link[p]]
  BY DEF Link
<1>3. faults \subseteq faults' /\ faults' \subseteq Faults
  BY <1>2, FaultKept DEF Reaches, Inv, CallsOK
<1>4. PICK j \in Admission : /\ job' = [job EXCEPT ![m] = j] /\ job'[m] = j
                             /\ j.step = "publish" /\ j.todo = job[m].todo
  BY GotoGoes DEF Inv, Link, At, Entering
<1>5. /\ JobOK(m) /\ job[m].step = "link" /\ TicketsOf(m)' = TicketsOf(m)
      /\ PlayersOf(m)' = PlayersOf(m) /\ Unqueued(TicketsOf(m))' = Unqueued(TicketsOf(m))
  BY <1>1, WorkLeaves DEF Link, At
<1>6. JobOK(m)'
  BY <1>1, <1>4, <1>5 DEF JobOK, Entering
<1>7. ASSUME NEW p \in Players PROVE LinkOK(p)'
  <2>1. CASE p \in s
    BY <1>2, <1>4, <1>5, <2>1 DEF LinkOK
  <2>2. CASE p \notin s
    BY <1>1, <1>2, <1>3, <1>4, <2>2, LinkKept
  <2> QED
    BY <2>1, <2>2
<1>8. \A p \in Players : MappedOK(p)'
  BY <1>1, <1>3, WorkLeaves, MappedKept
<1>9. link' \in [Players -> {0} \cup Matches]
  BY <1>2 DEF Inv, RedisOK
<1> QED
  BY <1>1, <1>3, <1>4, <1>6, <1>7, <1>8, <1>9, WorkLeaves, WorkKeeps DEF Inv, QueueOK

LEMMA PublishKeeps ==
  ASSUME Inv, NEW m \in Matches, Publish(m)
  PROVE  Inv'
<1>1. UNCHANGED <<tickets, matches, roster, playerMap, partyMap, link, settled, call, calls, watch,
                  failed, faults>>
  BY DEF Publish, engine, redis
<1>2. PICK j \in Admission :
         /\ job' = [job EXCEPT ![m] = j] /\ job'[m] = j /\ j.todo = job[m].todo
         /\ \/ j.step = "done" /\ started' = started \cup {m}
            \/ j.step = "unlink" /\ started' = started
  <2>1. job[m].step = "publish"
    BY DEF Publish, At
  <2>2. CASE started' = started \cup {m} /\ Goto(m, "done")
    BY <2>1, <2>2, GotoGoes DEF Inv, Entering
  <2>3. CASE UNCHANGED started /\ Goto(m, "unlink")
    BY <2>1, <2>3, GotoGoes DEF Inv, Entering
  <2> QED
    BY <2>2, <2>3 DEF Publish
<1>3. /\ JobOK(m) /\ job[m].step = "publish" /\ m \in settled /\ Unqueued(TicketsOf(m))
      /\ TicketsOf(m)' = TicketsOf(m) /\ Unqueued(TicketsOf(m))' = Unqueued(TicketsOf(m))
  BY <1>1, WorkLeaves DEF Publish, At, JobOK, Entering
<1>4. JobOK(m)'
  BY <1>1, <1>2, <1>3 DEF JobOK, Entering
<1>5. \A p \in Players : LinkOK(p)'
  BY <1>1, <1>2, LinkKept
<1>6. \A p \in Players : MappedOK(p)'
  BY <1>1, WorkLeaves, MappedKept
<1> QED
  BY <1>1, <1>2, <1>3, <1>4, <1>5, <1>6, WorkLeaves, WorkKeeps DEF Inv, QueueOK

LEMMA UnlinkKeeps ==
  ASSUME Inv, NEW m \in Matches, Unlink(m)
  PROVE  Inv'
<1>1. UNCHANGED <<tickets, matches, roster, playerMap, partyMap, settled, call, calls, watch,
                  started, failed>>
  BY DEF Unlink, engine, published
<1>2. PICK s \in SUBSET PlayersOf(m) :
         Reaches(s, PlayersOf(m)) /\ link' = [p \in Players |-> IF p \in s THEN 0 ELSE link[p]]
  BY DEF Unlink
<1>3. faults \subseteq faults' /\ faults' \subseteq Faults
  BY <1>2, FaultKept DEF Reaches, Inv, CallsOK
<1>4. PICK j \in Admission : /\ job' = [job EXCEPT ![m] = j] /\ job'[m] = j
                             /\ j.step = "requeue" /\ j.todo = job[m].todo
  BY GotoGoes DEF Inv, Unlink, At, Entering
<1>5. /\ JobOK(m) /\ job[m].step = "unlink" /\ TicketsOf(m)' = TicketsOf(m) /\ m # 0
      /\ m \notin started /\ TicketsOf(m) # {}
      /\ Unqueued(TicketsOf(m))' = Unqueued(TicketsOf(m))
  BY <1>1, WorkLeaves DEF Unlink, At, JobOK
<1>6. JobOK(m)'
  BY <1>1, <1>4, <1>5 DEF JobOK, Entering
<1>7. ASSUME NEW p \in Players PROVE LinkOK(p)'
  <2>1. CASE p \in s
    BY <1>2, <2>1 DEF LinkOK
  <2>2. CASE p \notin s
    <3>1. link[p] = m => "redis" \in faults'
      <4>1. SUFFICES ASSUME link[p] = m PROVE "redis" \in faults'
        OBVIOUS
      <4>2. p \in PlayersOf(m)
        BY <1>5, <4>1 DEF Inv, LinkOK
      <4> QED
        BY <1>2, <2>2, <4>2, FaultKept DEF Reaches, Inv
    <3> QED
      BY <1>1, <1>2, <1>3, <1>4, <2>2, <3>1, LinkKept
  <2> QED
    BY <2>1, <2>2
<1>8. \A p \in Players : MappedOK(p)'
  BY <1>1, <1>3, WorkLeaves, MappedKept
<1>9. link' \in [Players -> {0} \cup Matches]
  BY <1>2 DEF Inv, RedisOK
<1> QED
  BY <1>1, <1>3, <1>4, <1>6, <1>7, <1>8, <1>9, WorkLeaves, WorkKeeps DEF Inv, QueueOK
-------------------------------------------------------------------------------
(* New tickets *)

LEMMA MinIn ==
  ASSUME NEW S, S \subseteq Nat, S # {}
  PROVE  Min(S) \in S
BY Least DEF Min

\* A new ticket of a call, or one for a ticket of a match that is not started.
Startable(players, party, count, from) ==
    /\ players \subseteq Players /\ players # {} /\ IsFiniteSet(players)
    /\ party \in Parties \cup {NoParty}
    /\ party = NoParty => \E p \in Players : players = {p}
    /\ count \in 0..MaxRequeue
    /\ from \in {0} \cup Tickets
    /\ from = 0 => count = 0
    /\ from # 0 => /\ players = tickets[from].players /\ party = tickets[from].party
                   /\ count = tickets[from].count + 1
                   /\ tickets[from].state = "completed"
                   /\ tickets[from].match \notin started
                   /\ Unqueued({from})

LEMMA StartShape ==
  ASSUME QueueOK, NEW players, NEW party, NEW count, NEW from,
         Startable(players, party, count, from), Start(players, party, count, from),
         UNCHANGED matches
  PROVE  LET n == Len(tickets) + 1 IN
         /\ tickets' \in Seq(Ticket) /\ watch' \in Seq(Goroutine)
         /\ Len(tickets') = n /\ Len(watch') = n
         /\ Tickets' = Tickets \cup {n} /\ n \notin Tickets /\ Tickets = 1..Len(tickets)
         /\ Matches' = Matches /\ Matches = 1..Len(matches)
         /\ tickets'[n] = NewTicket(players, party, count, from)
         /\ watch'[n].step = "none"
         /\ \A t \in Tickets : tickets'[t] = tickets[t] /\ watch'[t] = watch[t]
         /\ \A m \in Matches : TicketsOf(m)' = TicketsOf(m)
         /\ \A S : from \notin S => Unqueued(S)' = Unqueued(S)
<1> DEFINE n == Len(tickets) + 1
<1>1. /\ tickets \in Seq(Ticket) /\ watch \in Seq(Goroutine) /\ Len(watch) = Len(tickets)
      /\ Tickets = 1..Len(tickets) /\ Matches = 1..Len(matches)
  BY DEF QueueOK, Tickets, Matches
<1>2. NewTicket(players, party, count, from) \in Ticket
  <2>1. from \in Nat
    BY <1>1 DEF Startable
  <2> QED
    BY <2>1 DEF Startable, NewTicket, Ticket
<1>3. [step |-> "none"] \in Goroutine
  BY DEF Goroutine
<1>4. /\ tickets' = Append(tickets, NewTicket(players, party, count, from))
      /\ watch' = Append(watch, [step |-> "none"])
  BY DEF Start
<1>5. /\ tickets' \in Seq(Ticket) /\ Len(tickets') = n
      /\ tickets'[n] = NewTicket(players, party, count, from)
      /\ \A t \in Tickets : tickets'[t] = tickets[t]
  <2> DEFINE e == NewTicket(players, party, count, from)
  <2> HIDE DEF e
  <2> QED
    BY <1>1, <1>2, <1>4
<1>6. /\ watch' \in Seq(Goroutine) /\ Len(watch') = n /\ watch'[n].step = "none"
      /\ \A t \in Tickets : watch'[t] = watch[t]
  BY <1>1, <1>3, <1>4
<1>7. Tickets' = Tickets \cup {n} /\ n \notin Tickets /\ Matches' = Matches
  <2>1. Tickets' = 1..n
    BY <1>5 DEF Tickets
  <2> QED
    BY <1>1, <2>1 DEF Matches
<1>8. \A m \in Matches : TicketsOf(m)' = TicketsOf(m)
  BY DEF TicketsOf
<1>9. tickets'[n].from = from
  BY <1>5 DEF NewTicket
<1>10. \A S : from \notin S => Unqueued(S)' = Unqueued(S)
  BY <1>5, <1>7, <1>9 DEF Unqueued
<1> QED
  BY <1>1, <1>5, <1>6, <1>7, <1>8, <1>10

LEMMA StartEngine ==
  ASSUME Inv, NEW players, NEW party, NEW count, NEW from,
         Startable(players, party, count, from), Start(players, party, count, from),
         UNCHANGED <<matches, roster, link, settled, started, playerMap, partyMap>>, failed' \subseteq Tickets,
         job' \in Seq(Admission), Len(job') = Len(job), faults \subseteq faults'
  PROVE  /\ QueueOK' /\ RedisOK'
         /\ \A t \in Tickets' : TicketOK(t)' /\ LineOK(t)'
         /\ \A m \in Matches' : MatchOK(m)'
         /\ Once'
         /\ \A p \in Players : MappedOK(p)'
<1>0. PICK n : n = Len(tickets) + 1
  OBVIOUS
<1>1. /\ tickets' \in Seq(Ticket) /\ watch' \in Seq(Goroutine)
      /\ Len(tickets') = n /\ Len(watch') = n
      /\ Tickets' = Tickets \cup {n} /\ n \notin Tickets /\ Tickets = 1..Len(tickets)
      /\ Matches' = Matches /\ Matches = 1..Len(matches)
      /\ tickets'[n] = NewTicket(players, party, count, from)
      /\ watch'[n].step = "none"
      /\ \A t \in Tickets : tickets'[t] = tickets[t] /\ watch'[t] = watch[t]
      /\ \A m \in Matches : TicketsOf(m)' = TicketsOf(m)
  BY <1>0, StartShape DEF Inv
<1>2. Len(tickets) \in Nat
  BY DEF Inv, QueueOK
<1>3. /\ tickets'[n].players = players /\ tickets'[n].party = party /\ tickets'[n].count = count
      /\ tickets'[n].from = from /\ tickets'[n].state = "searching" /\ tickets'[n].match = 0
  BY <1>1 DEF NewTicket
<1>4. QueueOK'
  BY <1>1 DEF Inv, QueueOK, RosterOK
<1>5. RedisOK'
  BY <1>1 DEF Inv, RedisOK
<1>6. ASSUME NEW t \in Tickets PROVE TicketOK(t)'
  <2>1. TicketOK(t)
    BY DEF Inv
  <2> QED
    BY <1>1, <2>1 DEF TicketOK
<1>7. TicketOK(n)'
  BY <1>3 DEF TicketOK, Startable
<1>8. ASSUME NEW t \in Tickets PROVE LineOK(t)'
  <2>1. LineOK(t)
    BY DEF Inv
  <2>2. tickets[t].from \in {0} \cup Tickets
    BY <1>1, <2>1 DEF LineOK
  <2> QED
    BY <1>1, <2>1, <2>2 DEF LineOK
<1>9. LineOK(n)'
  <2>1. from \in 0..n - 1
    BY <1>0, <1>1, <1>2 DEF Startable
  <2>2. from # 0 => tickets'[from] = tickets[from]
    BY <1>1 DEF Startable
  <2> QED
    BY <1>3, <2>1, <2>2 DEF LineOK, Startable
<1>10. ASSUME NEW m \in Matches PROVE MatchOK(m)'
  <2>1. MatchOK(m)
    BY DEF Inv
  <2> QED
    BY <1>1, <2>1 DEF MatchOK
<1>11. Once'
  <2>1. ASSUME NEW t \in Tickets', NEW u \in Tickets', tickets'[t].from # 0,
               tickets'[t].from = tickets'[u].from
        PROVE  t = u
    <3>1. CASE t \in Tickets /\ u \in Tickets
      BY <1>1, <2>1, <3>1 DEF Inv, Once
    <3>2. ASSUME NEW v \in Tickets, tickets'[v].from # 0 PROVE tickets'[v].from # from
      BY <1>1, <3>2 DEF Startable, Unqueued
    <3> QED
      BY <1>1, <1>3, <2>1, <3>1, <3>2
  <2> QED
    BY <2>1 DEF Once
<1>12. ASSUME NEW p \in Players PROVE MappedOK(p)'
  <2>1. MappedOK(p) /\ playerMap[p] \in {0} \cup Tickets
    BY DEF Inv, RedisOK
  <2> QED
    BY <1>1, <2>1 DEF MappedOK
<1> QED
  BY <1>1, <1>4, <1>5, <1>6, <1>7, <1>8, <1>9, <1>10, <1>11, <1>12

LEMMA StartLinks ==
  ASSUME Inv, NEW players, NEW party, NEW count, NEW from,
         Startable(players, party, count, from), Start(players, party, count, from),
         UNCHANGED <<matches, link, started>>, faults \subseteq faults',
         \A m \in Matches : \/ job'[m].step = job[m].step
                            \/ job[m].step \notin {"publish", "unlink", "lost", "done"}
  PROVE  \A p \in Players : LinkOK(p)'
<1> SUFFICES ASSUME NEW p \in Players PROVE LinkOK(p)'
  OBVIOUS
<1> DEFINE m == link[p]
<1>1. LinkOK(p) /\ m \in {0} \cup Matches
  BY DEF Inv, RedisOK
<1>2. CASE m = 0
  BY <1>2 DEF LinkOK
<1>3. CASE m \in Matches
  <2>1. TicketsOf(m)' = TicketsOf(m) /\ \A t \in Tickets : tickets'[t] = tickets[t]
    <3>1. /\ \A t \in Tickets : tickets'[t] = tickets[t] /\ watch'[t] = watch[t]
          /\ \A k \in Matches : TicketsOf(k)' = TicketsOf(k)
      BY StartShape DEF Inv
    <3> QED
      BY <1>3, <3>1 DEF TicketsOf
  <2>2. TicketsOf(m) \subseteq Tickets
    BY <1>3 DEF Inv, MatchOK
  <2>3. PlayersOf(m)' = PlayersOf(m)
    BY <2>1, <2>2 DEF PlayersOf
  <2>4. job'[m].step = job[m].step \/ "redis" \in faults
    BY <1>3, NotLinked
  <2> QED
    BY <1>1, <1>3, <2>3, <2>4 DEF LinkOK, QueueOK, Matches
<1> QED
  BY <1>1, <1>2, <1>3

LEMMA StartJob ==
  ASSUME Inv, NEW players, NEW party, NEW count, NEW from,
         Startable(players, party, count, from), Start(players, party, count, from),
         UNCHANGED <<matches, settled, started>>,
         NEW k \in Matches, job'[k] = job[k], from \notin TicketsOf(k)
  PROVE  JobOK(k)'
<1>1. /\ Tickets \subseteq Tickets' /\ TicketsOf(k)' = TicketsOf(k)
      /\ \A t \in Tickets : tickets'[t] = tickets[t]
      /\ \A S : from \notin S => Unqueued(S)' = Unqueued(S)
  <2>1. /\ Tickets' = Tickets \cup {Len(tickets) + 1}
        /\ \A t \in Tickets : tickets'[t] = tickets[t] /\ watch'[t] = watch[t]
        /\ \A m \in Matches : TicketsOf(m)' = TicketsOf(m)
        /\ \A S : from \notin S => Unqueued(S)' = Unqueued(S)
    BY StartShape DEF Inv
  <2> QED
    BY <2>1
<1>2. JobOK(k)
  BY DEF Inv
<1> DEFINE todo == job[k].todo
<1>3. /\ job'[k].todo = todo /\ job'[k].step = job[k].step
      /\ Unqueued(TicketsOf(k))' = Unqueued(TicketsOf(k))
  BY <1>1
<1>4. job[k].step \in {"requeue", "remap"} =>
         /\ todo \subseteq TicketsOf(k)
         /\ Unqueued(todo)' = Unqueued(todo)
         /\ Unqueued(todo \ {Min(todo)})' = Unqueued(todo \ {Min(todo)})
  <2>1. SUFFICES ASSUME todo \subseteq TicketsOf(k)
                 PROVE  /\ Unqueued(todo)' = Unqueued(todo)
                        /\ Unqueued(todo \ {Min(todo)})' = Unqueued(todo \ {Min(todo)})
    BY <1>2 DEF JobOK
  <2> DEFINE S == todo \ {Min(todo)}
  <2>2. from \notin todo /\ from \notin S
    BY <2>1
  <2>3. todo' = todo /\ S' = S
    BY <1>3
  <2> HIDE DEF todo, S
  <2>4. PICK a : a = todo
    OBVIOUS
  <2>5. PICK b : b = S
    OBVIOUS
  <2>6. Unqueued(a)' = Unqueued(a) /\ Unqueued(b)' = Unqueued(b)
    BY <1>1, <2>2, <2>4, <2>5
  <2>7. Unqueued(todo)' = Unqueued(todo) /\ Unqueued(S)' = Unqueued(S)
    BY <2>3, <2>4, <2>5, <2>6 DEF Unqueued
  <2> QED
    BY <2>7 DEF S
<1>5. job[k].step = "remap" => \E u \in Tickets' : tickets'[u].from = Min(todo)
  BY <1>1, <1>2 DEF JobOK
<1> QED
  BY <1>1, <1>2, <1>3, <1>4, <1>5 DEF JobOK

LEMMA StartCalls ==
  ASSUME Inv, NEW players, NEW party, NEW count, NEW from,
         Startable(players, party, count, from), Start(players, party, count, from),
         UNCHANGED <<matches, calls>>, faults' \subseteq Faults,
         call' \in [Players -> Calls'],
         \A p \in Players :
            \/ call'[p] = call[p]
            \/ call'[p].op \notin {"map", "partymap"}
            \/ /\ call'[p].op = "map" /\ call'[p].ticket = Len(tickets) + 1
               /\ party = NoParty /\ players = {p}
            \/ /\ call'[p].op = "partymap" /\ call'[p].ticket = Len(tickets) + 1
               /\ party = call'[p].party
  PROVE  CallsOK'
<1>1. /\ Tickets' = Tickets \cup {Len(tickets) + 1}
      /\ tickets'[Len(tickets) + 1] = NewTicket(players, party, count, from)
      /\ \A t \in Tickets : tickets'[t] = tickets[t]
  <2>1. /\ Tickets' = Tickets \cup {Len(tickets) + 1}
        /\ tickets'[Len(tickets) + 1] = NewTicket(players, party, count, from)
        /\ \A t \in Tickets : tickets'[t] = tickets[t] /\ watch'[t] = watch[t]
    BY StartShape DEF Inv
  <2> QED
    BY <2>1
<1>2. tickets'[Len(tickets) + 1].players = players /\ tickets'[Len(tickets) + 1].party = party
  BY <1>1 DEF NewTicket
<1>3. ASSUME NEW p \in Players
      PROVE  /\ call'[p].op = "map" =>
                   /\ tickets'[call'[p].ticket].party = NoParty
                   /\ tickets'[call'[p].ticket].players = {p}
             /\ call'[p].op = "partymap" =>
                   /\ call'[p].ticket \in Tickets'
                   /\ tickets'[call'[p].ticket].party = call'[p].party
  <2>1. CASE call'[p] = call[p]
    <3>1. call[p] \in Calls
      BY DEF Inv, CallsOK
    <3>2. CASE call[p].op = "map"
      <4>1. call[p].ticket \in Tickets
        BY <3>1, <3>2, CallShape
      <4> QED
        BY <1>1, <2>1, <3>2, <4>1 DEF Inv, CallsOK
    <3>3. CASE call[p].op = "partymap"
      BY <1>1, <2>1, <3>3 DEF Inv, CallsOK
    <3> QED
      BY <2>1, <3>2, <3>3
  <2>2. CASE call'[p] # call[p]
    BY <1>1, <1>2, <2>2
  <2> QED
    BY <2>1, <2>2
<1> QED
  BY <1>3 DEF Inv, CallsOK

LEMMA MoreCalls ==
  ASSUME Inv, NEW n, Tickets' = Tickets \cup {n}
  PROVE  Calls \subseteq Calls'
BY DEF Calls

\* A ticket queued by a call.
LEMMA CallStartKeeps ==
  ASSUME Inv, NEW p \in Players, NEW players, NEW party,
         Startable(players, party, 0, 0), Start(players, party, 0, 0),
         NEW c, call' = [call EXCEPT ![p] = c],
         \/ c = [op |-> "map", ticket |-> Len(tickets) + 1] /\ party = NoParty /\ players = {p}
         \/ c = [op |-> "partymap", party |-> party, ticket |-> Len(tickets) + 1] /\ party \in Parties,
         UNCHANGED <<matches, roster, redis, job, faults, calls, published>>
  PROVE  Inv'
<1>1. Tickets' = Tickets \cup {Len(tickets) + 1} /\ Matches' = Matches
  BY StartShape DEF Inv
<1>2. CallsOK'
  <2>1. c \in Calls'
    BY <1>1 DEF Calls
  <2>2. call' \in [Players -> Calls']
    BY <1>1, <2>1, MoreCalls DEF Inv, CallsOK
  <2>3. \A q \in Players : call'[q] = IF q = p THEN c ELSE call[q]
    BY DEF Inv, CallsOK
  <2>4. faults' \subseteq Faults
    BY DEF Inv, CallsOK
  <2> QED
    BY <2>2, <2>3, <2>4, StartCalls
<1>3. UNCHANGED <<link, settled, started, playerMap, partyMap, failed>> /\ failed' \subseteq Tickets
      /\ job' \in Seq(Admission) /\ Len(job') = Len(job) /\ faults \subseteq faults'
  BY DEF redis, published, Inv, RedisOK, QueueOK
<1>4. /\ QueueOK' /\ RedisOK'
      /\ \A t \in Tickets' : TicketOK(t)' /\ LineOK(t)'
      /\ \A m \in Matches' : MatchOK(m)'
      /\ Once'
      /\ \A q \in Players : MappedOK(q)'
  BY <1>3, StartEngine
<1>5. \A q \in Players : LinkOK(q)'
  BY <1>3, StartLinks
<1>6. ASSUME NEW m \in Matches PROVE JobOK(m)'
  <2>1. 0 \notin TicketsOf(m)
    BY DEF Inv, MatchOK, QueueOK, Tickets
  <2> QED
    BY <1>3, <2>1, StartJob
<1> QED
  BY <1>1, <1>2, <1>4, <1>5, <1>6 DEF Inv

LEMMA SoloStartable ==
  ASSUME NEW p \in Players
  PROVE  Startable({p}, NoParty, 0, 0)
<1>1. IsFiniteSet({p})
  BY FS_Singleton
<1>2. \E q \in Players : {p} = {q}
  OBVIOUS
<1>3. 0 \in 0..MaxRequeue
  BY MatchAssumption
<1> DEFINE S == {p}
<1>4. S \subseteq Players /\ S # {}
  OBVIOUS
<1> HIDE DEF S
<1>5. Startable(S, NoParty, 0, 0)
  BY <1>1, <1>2, <1>3, <1>4 DEF Startable, S
<1> QED
  BY <1>5 DEF S

LEMMA PartyStartable ==
  ASSUME Inv, NEW p \in Players, call[p].op = "party", NEW g, g = call[p].party, roster[g] # {}
  PROVE  g \in Parties /\ Startable(roster[g], g, 0, 0)
<1>1. call[p] \in Calls
  BY DEF Inv, CallsOK
<1>2. g \in Parties
  BY <1>1, CallShape
<1> QED
  BY <1>2, MatchAssumption DEF Startable, Inv, QueueOK, RosterOK

LEMMA QueueStartKeeps ==
  ASSUME Inv, NEW p \in Players, QueueStart(p)
  PROVE  Inv'
<1>1. CASE /\ Start({p}, NoParty, 0, 0)
           /\ call' = [call EXCEPT ![p] = [op |-> "map", ticket |-> Len(tickets) + 1]]
           /\ UNCHANGED faults
  <2>1. Startable({p}, NoParty, 0, 0)
    BY SoloStartable
  <2> QED
    BY <1>1, <2>1, CallStartKeeps DEF QueueStart
<1>2. CASE Refused(<<tickets, watch>>) /\ Return(p)
  <2>1. Ending /\ faults \subseteq faults' /\ faults' \subseteq Faults
    BY <1>2, NoEnding, FaultKept DEF QueueStart, Refused, Inv, CallsOK
  <2>2. CallsOK'
    BY <1>2, <2>1, CallGoes DEF QueueStart, Return, Calls, Idle, Inv, CallsOK
  <2> QED
    BY <1>2, <2>1, <2>2, QueryKeeps DEF QueueStart, Refused, redis, published
<1> QED
  BY <1>1, <1>2 DEF QueueStart

LEMMA PartyStartKeeps ==
  ASSUME Inv, NEW p \in Players, PartyStart(p)
  PROVE  Inv'
<1>1. PICK g : g = call[p].party
  OBVIOUS
<1>2. CASE /\ roster[g] # {} /\ Start(roster[g], g, 0, 0)
           /\ call' = [call EXCEPT ![p] =
                          [op |-> "partymap", party |-> g, ticket |-> Len(tickets) + 1]]
           /\ UNCHANGED faults
  <2>1. g \in Parties /\ Startable(roster[g], g, 0, 0)
    BY <1>1, <1>2, PartyStartable DEF PartyStart
  <2> QED
    BY <1>2, <2>1, CallStartKeeps DEF PartyStart
<1>3. CASE Refused(<<tickets, watch>>) /\ Return(p)
  <2>1. Ending /\ faults \subseteq faults' /\ faults' \subseteq Faults
    BY <1>3, NoEnding, FaultKept DEF PartyStart, Refused, Inv, CallsOK
  <2>2. CallsOK'
    BY <1>3, <2>1, CallGoes DEF PartyStart, Return, Calls, Idle, Inv, CallsOK
  <2> QED
    BY <1>3, <2>1, <2>2, QueryKeeps DEF PartyStart, Refused, redis, published
<1> QED
  BY <1>1, <1>2, <1>3 DEF PartyStart

\* The ticket that is worked on was completed with a match that is not started.
Working(m, t) == job[m].step \in {"requeue", "remap"} /\ t = Min(job[m].todo)

LEMMA AtTicket ==
  ASSUME Inv, NEW m \in Matches, NEW t, Working(m, t)
  PROVE  /\ t \in job[m].todo /\ t \in TicketsOf(m) /\ t \in Tickets /\ t # 0
         /\ tickets[t].match = m /\ tickets[t].state = "completed"
         /\ m \in settled /\ m \notin started /\ job[m].todo \in SUBSET Nat
         /\ Unqueued(job[m].todo \ {t})
         /\ job[m].step = "requeue" => Unqueued({t})
         /\ \A k \in Matches \ {m} : t \notin TicketsOf(k)
<1>1. JobOK(m) /\ MatchOK(m) /\ m # 0
  BY DEF Inv, QueueOK, Matches
<1>2. job[m].todo # {} /\ job[m].todo \subseteq TicketsOf(m) /\ job[m].todo \in SUBSET Nat
  BY <1>1, JobGoes DEF JobOK, Inv, Entering, Working
<1>3. t \in job[m].todo
  BY <1>2, MinIn DEF Working
<1>4. t \in TicketsOf(m) /\ t \in Tickets /\ tickets[t].match = m
  BY <1>1, <1>2, <1>3 DEF MatchOK
<1>5. tickets[t].state = "completed"
  BY <1>1, <1>4 DEF Inv, TicketOK
<1>6. m \in settled /\ m \notin started
  BY <1>1 DEF JobOK, Working
<1>7. Unqueued(job[m].todo \ {t}) /\ (job[m].step = "requeue" => Unqueued({t}))
  BY <1>1, <1>3 DEF JobOK, Unqueued, Working
<1>8. \A k \in Matches \ {m} : t \notin TicketsOf(k)
  BY <1>4 DEF Inv, MatchOK
<1>9. t # 0
  BY <1>4 DEF Inv, QueueOK, Tickets
<1> QED
  BY <1>2, <1>3, <1>4, <1>5, <1>6, <1>7, <1>8, <1>9

LEMMA NextGoes ==
  ASSUME Inv, NEW m \in Matches, NEW t, Working(m, t), NextTicket(m, t),
         UNCHANGED <<tickets, matches, settled, started>>
  PROVE  /\ \E j \in Admission : job' = [job EXCEPT ![m] = j] /\ j.step \in {"requeue", "done"}
         /\ JobOK(m)'
<1> DEFINE c == job[m]
           step == IF c.todo = {t} THEN "done" ELSE "requeue"
           j == [step |-> step, at |-> c.at, todo |-> c.todo \ {t}]
<1>1. /\ t \in c.todo /\ t \in TicketsOf(m) /\ m \in settled /\ m \notin started
      /\ c.todo \in SUBSET Nat /\ Unqueued(c.todo \ {t})
  <2>1. /\ t \in job[m].todo /\ t \in TicketsOf(m) /\ m \in settled /\ m \notin started
        /\ job[m].todo \in SUBSET Nat /\ Unqueued(job[m].todo \ {t})
    BY AtTicket
  <2> QED
    BY <2>1
<1>2. c = [step |-> c.step, at |-> c.at, todo |-> c.todo] /\ j \in Admission
  BY <1>1, JobGoes DEF Inv, Working
<1>3. job' = [job EXCEPT ![m] = j]
  <2>1. job' = [job EXCEPT ![m] = [[c EXCEPT !.todo = c.todo \ {t}] EXCEPT !.step = step]]
    BY DEF NextTicket
  <2>2. PICK s, a, o, d, u : s = c.step /\ a = c.at /\ o = c.todo /\ d = c.todo \ {t} /\ u = step
    OBVIOUS
  <2>3. j = [step |-> u, at |-> a, todo |-> d]
    BY <2>2
  <2>4. c = [step |-> s, at |-> a, todo |-> o]
    BY <1>2, <2>2
  <2>5. job' = [job EXCEPT ![m] = [[c EXCEPT !.todo = d] EXCEPT !.step = u]]
    BY <2>1, <2>2
  <2> HIDE DEF c, j
  <2>6. [c EXCEPT !.todo = d] = [step |-> s, at |-> a, todo |-> d]
    BY <2>4
  <2>7. [[step |-> s, at |-> a, todo |-> d] EXCEPT !.step = u] = j
    BY <2>3
  <2> QED
    BY <2>5, <2>6, <2>7
<1>4. job'[m] = j
  <2> HIDE DEF j
  <2> QED
    BY <1>3 DEF Inv, QueueOK, Matches
<1>5. PICK d : d = c.todo \ {t}
  OBVIOUS
<1>6. /\ job'[m].todo = d /\ job'[m].step \in {"done", "requeue"}
      /\ job'[m].step = "requeue" => d # {}
  BY <1>1, <1>4, <1>5
<1>7. Unqueued(d)' /\ TicketsOf(m)' = TicketsOf(m) /\ m \in settled' /\ m \notin started'
  BY <1>1, <1>5 DEF Unqueued, Tickets, TicketsOf
<1>8. d \subseteq TicketsOf(m)
  BY <1>1, <1>5, JobGoes DEF Inv, JobOK, Working
<1>9. JobOK(m)'
  BY <1>6, <1>7, <1>8 DEF JobOK, Entering, Unqueued
<1> QED
  BY <1>2, <1>3, <1>9

LEMMA AgainStartable ==
  ASSUME Inv, NEW m \in Matches, NEW t, Working(m, t), job[m].step = "requeue",
         NEW old, old = tickets[t], old.count < MaxRequeue
  PROVE  t \in Tickets /\ t # 0 /\ Startable(old.players, old.party, old.count + 1, t)
<1>1. /\ t \in Tickets /\ t # 0 /\ tickets[t].match = m /\ tickets[t].state = "completed"
      /\ m \notin started /\ Unqueued({t})
  BY AtTicket
<1>2. old \in Ticket /\ TicketOK(t)
  BY <1>1 DEF Inv, QueueOK, Tickets
<1>3. old.count + 1 \in 0..MaxRequeue
  BY <1>2, MatchAssumption DEF Ticket
<1>4. /\ old.players \subseteq Players /\ old.players # {} /\ IsFiniteSet(old.players)
      /\ old.party \in Parties \cup {NoParty}
      /\ old.party = NoParty => \E p \in Players : old.players = {p}
  BY <1>2 DEF Ticket, TicketOK
<1> QED
  BY <1>1, <1>3, <1>4 DEF Startable

LEMMA RequeueKeeps ==
  ASSUME Inv, NEW m \in Matches, Requeue(m)
  PROVE  Inv'
<1>1. PICK t : t = Min(job[m].todo)
  OBVIOUS
<1>2. PICK old : old = tickets[t]
  OBVIOUS
<1>3. UNCHANGED <<matches, roster, playerMap, partyMap, settled, link, call, calls, started>>
  BY DEF Requeue, redis
<1>4. Working(m, t) /\ job[m].step = "requeue"
  BY <1>1 DEF Requeue, At, Working
<1>5. /\ t \in job[m].todo /\ t \in TicketsOf(m) /\ t \in Tickets /\ t # 0
      /\ tickets[t].match = m /\ tickets[t].state = "completed"
      /\ m \in settled /\ m \notin started /\ job[m].todo \in SUBSET Nat
      /\ Unqueued(job[m].todo \ {t}) /\ Unqueued({t})
      /\ \A k \in Matches \ {m} : t \notin TicketsOf(k)
  BY <1>4, AtTicket
<1>6. failed' \subseteq Tickets
  BY <1>1, <1>5 DEF Requeue, Inv, RedisOK
<1>7. faults \subseteq faults' /\ faults' \subseteq Faults
  BY FaultKept DEF Requeue, Inv, CallsOK
<1>8. CASE /\ old.count < MaxRequeue /\ Start(old.players, old.party, old.count + 1, t)
           /\ Goto(m, "remap") /\ UNCHANGED faults
  <2>1. Startable(old.players, old.party, old.count + 1, t)
    BY <1>2, <1>4, <1>8, AgainStartable
  <2>2. PICK j \in Admission : /\ job' = [job EXCEPT ![m] = j] /\ job'[m] = j
                               /\ j.step = "remap" /\ j.todo = job[m].todo
    BY <1>4, <1>8, GotoGoes DEF Inv
  <2>3. job' \in Seq(Admission) /\ Len(job') = Len(job)
        /\ \A k \in Matches \ {m} : job'[k] = job[k]
    BY <2>2 DEF Inv, QueueOK, Matches
  <2>4. /\ QueueOK' /\ RedisOK'
        /\ \A u \in Tickets' : TicketOK(u)' /\ LineOK(u)'
        /\ \A k \in Matches' : MatchOK(k)'
        /\ Once'
        /\ \A q \in Players : MappedOK(q)'
    BY <1>3, <1>6, <1>7, <1>8, <2>1, <2>3, StartEngine
  <2>5. \A q \in Players : LinkOK(q)'
    BY <1>3, <1>4, <1>7, <1>8, <2>1, <2>3, StartLinks
  <2>6. ASSUME NEW k \in Matches \ {m} PROVE JobOK(k)'
    BY <1>3, <1>5, <1>8, <2>1, <2>3, StartJob
  <2>7. /\ Tickets' = Tickets \cup {Len(tickets) + 1} /\ Matches' = Matches
        /\ tickets'[Len(tickets) + 1] = NewTicket(old.players, old.party, old.count + 1, t)
        /\ TicketsOf(m)' = TicketsOf(m)
        /\ \A S : t \notin S => Unqueued(S)' = Unqueued(S)
    <3>1. /\ Tickets' = Tickets \cup {Len(tickets) + 1} /\ Matches' = Matches
          /\ tickets'[Len(tickets) + 1] = NewTicket(old.players, old.party, old.count + 1, t)
          /\ \A k \in Matches : TicketsOf(k)' = TicketsOf(k)
          /\ \A S : t \notin S => Unqueued(S)' = Unqueued(S)
      BY <1>3, <1>8, <2>1, StartShape DEF Inv
    <3> QED
      BY <3>1
  <2>8. JobOK(m)'
    <3>1. PICK todo : todo = job[m].todo
      OBVIOUS
    <3>2. PICK d : d = todo \ {t}
      OBVIOUS
    <3>3. job'[m].step = "remap" /\ job'[m].todo = todo /\ d = todo \ {Min(todo)} /\ t = Min(todo)
      BY <1>1, <2>2, <3>1, <3>2
    <3>4. Unqueued(d)'
      BY <1>5, <2>7, <3>1, <3>2
    <3>5. \E u \in Tickets' : tickets'[u].from = t
      BY <2>7 DEF NewTicket
    <3>6. todo # {} /\ todo \subseteq TicketsOf(m)
      BY <1>4, <1>5, <3>1 DEF Inv, JobOK
    <3>7. m \in settled' /\ m \notin started'
      BY <1>3, <1>5
    <3> QED
      BY <2>7, <3>3, <3>4, <3>5, <3>6, <3>7 DEF JobOK, Entering, Unqueued
  <2>9. CallsOK'
    <3>1. call' \in [Players -> Calls']
      BY <1>3, <2>7, MoreCalls DEF Inv, CallsOK
    <3>2. \A q \in Players : call'[q] = call[q]
      BY <1>3
    <3> QED
      BY <1>3, <1>7, <1>8, <2>1, <3>1, <3>2, StartCalls
  <2> QED
    BY <2>4, <2>5, <2>6, <2>7, <2>8, <2>9 DEF Inv
<1>9. CASE NextTicket(m, t) /\ UNCHANGED <<tickets, watch>>
  <2>1. /\ \E j \in Admission : job' = [job EXCEPT ![m] = j] /\ j.step \in {"requeue", "done"}
        /\ JobOK(m)'
    BY <1>3, <1>4, <1>9, NextGoes
  <2>2. PICK j \in Admission : job' = [job EXCEPT ![m] = j]
    BY <2>1
  <2>3. \A p \in Players : LinkOK(p)'
    <3> SUFFICES ASSUME NEW p \in Players PROVE LinkOK(p)'
      OBVIOUS
    <3>1. link[p] = m => "redis" \in faults'
      BY <1>4, <1>7, NotLinked
    <3>2. UNCHANGED <<tickets, matches>> /\ link'[p] = link[p] /\ started \subseteq started'
      BY <1>3, <1>9
    <3> QED
      BY <1>7, <2>2, <3>1, <3>2, LinkKept
  <2>4. \A p \in Players : MappedOK(p)'
    BY <1>3, <1>7, <1>9, WorkLeaves, MappedKept
  <2> QED
    BY <1>3, <1>6, <1>7, <1>9, <2>1, <2>2, <2>3, <2>4, WorkLeaves, WorkKeeps DEF Inv, QueueOK
<1> QED
  BY <1>1, <1>2, <1>8, <1>9 DEF Requeue

LEMMA RemapKeeps ==
  ASSUME Inv, NEW m \in Matches, Remap(m)
  PROVE  Inv'
<1>1. PICK t : t = Min(job[m].todo)
  OBVIOUS
<1>2. PICK old : old = tickets[t]
  OBVIOUS
<1>3. PICK new : new = CHOOSE n \in Tickets : tickets[n].from = t
  OBVIOUS
<1>4. UNCHANGED <<tickets, matches, roster, settled, link, call, calls, started, failed>>
  BY DEF Remap, engine, published
<1>5. Working(m, t) /\ job[m].step = "remap"
  BY <1>1 DEF Remap, At, Working
<1>6. /\ t \in Tickets /\ t # 0 /\ m \notin started
      /\ \E u \in Tickets : tickets[u].from = t
  <2>1. t \in Tickets /\ t # 0 /\ m \notin started
    BY <1>5, AtTicket
  <2>2. \E u \in Tickets : tickets[u].from = t
    BY <1>1, <1>5 DEF Inv, JobOK
  <2> QED
    BY <2>1, <2>2
<1>7. new \in Tickets /\ tickets[new].from = t
  BY <1>3, <1>6
<1>8. tickets[new].players = old.players /\ tickets[new].party = old.party
  BY <1>2, <1>6, <1>7 DEF Inv, LineOK
<1>9. PICK keys \in SUBSET (old.players \cup ({old.party} \ {NoParty})) :
         /\ Reaches(keys, old.players \cup ({old.party} \ {NoParty}))
         /\ playerMap' = [p \in Players |-> IF p \in keys THEN new ELSE playerMap[p]]
         /\ partyMap' = [g \in Parties |-> IF g \in keys THEN new ELSE partyMap[g]]
  BY <1>1, <1>2, <1>3 DEF Remap
<1>10. PICK p \in old.players :
          watch' = [watch EXCEPT ![new] = [step |-> "wait", at |-> job[m].at, player |-> p]]
  <2>1. \E p \in tickets[Min(job[m].todo)].players :
           watch' = [watch EXCEPT ![CHOOSE n \in Tickets : tickets[n].from = Min(job[m].todo)] =
                        [step |-> "wait", at |-> job[m].at, player |-> p]]
    BY DEF Remap
  <2> QED
    BY <1>1, <1>2, <1>3, <2>1
<1>11. faults \subseteq faults' /\ faults' \subseteq Faults
  BY <1>9, FaultKept DEF Reaches, Inv, CallsOK
<1>12. /\ playerMap' \in [Players -> {0} \cup Tickets] /\ partyMap' \in [Parties -> {0} \cup Tickets]
  BY <1>7, <1>9 DEF Inv, RedisOK
<1>13. /\ watch' \in Seq(Goroutine) /\ Len(watch') = Len(watch)
       /\ watch'[new] = [step |-> "wait", at |-> job[m].at, player |-> p]
       /\ \A u \in Tickets : u # new => watch'[u] = watch[u]
  <2>1. job[m] \in Admission /\ tickets[t] \in Ticket
    BY <1>6 DEF Inv, QueueOK, Matches, Tickets
  <2>2. job[m].at \in Instances /\ p \in Players
    BY <1>2, <1>5, <2>1 DEF Admission, Ticket
  <2>3. [step |-> "wait", at |-> job[m].at, player |-> p] \in Goroutine
    BY <2>2 DEF Goroutine
  <2>4. watch \in Seq(Goroutine) /\ Tickets = 1..Len(watch)
    BY DEF Inv, QueueOK, Tickets
  <2> QED
    BY <1>7, <1>10, <2>3, <2>4
<1>14. /\ \E j \in Admission : job' = [job EXCEPT ![m] = j] /\ j.step \in {"requeue", "done"}
       /\ JobOK(m)'
  BY <1>1, <1>4, <1>5, NextGoes DEF Remap
<1>15. PICK j \in Admission : job' = [job EXCEPT ![m] = j]
  BY <1>14
<1>16. \A q \in Players : LinkOK(q)'
  <2> SUFFICES ASSUME NEW q \in Players PROVE LinkOK(q)'
    OBVIOUS
  <2>1. link[q] = m => "redis" \in faults'
    BY <1>5, <1>11, NotLinked
  <2>2. UNCHANGED <<tickets, matches>> /\ link'[q] = link[q] /\ started \subseteq started'
    BY <1>4
  <2> QED
    BY <1>11, <1>15, <2>1, <2>2, LinkKept
<1>17. ASSUME NEW q \in Players PROVE MappedOK(q)'
  <2>1. playerMap'[q] = IF q \in keys THEN new ELSE playerMap[q]
    BY <1>9
  <2>2. playerMap[q] \in {0} \cup Tickets /\ MappedOK(q) /\ new # 0
    BY <1>7 DEF Inv, RedisOK, QueueOK, Tickets
  <2>3. CASE playerMap'[q] = new
    <3>1. SUFFICES ASSUME tickets[new].party = NoParty
                   PROVE  tickets[new].players = {q}
      BY <1>4, <1>8, <1>13, <2>3 DEF MappedOK
    <3>2. PICK r \in Players : tickets[new].players = {r}
      BY <1>7, <3>1 DEF Inv, TicketOK
    <3>3. CASE q \in keys
      BY <1>8, <1>9, <3>1, <3>2, <3>3
    <3>4. CASE playerMap[q] = new
      BY <2>2, <3>1, <3>4 DEF MappedOK
    <3> QED
      BY <2>1, <2>3, <3>3, <3>4
  <2>4. CASE playerMap'[q] # new
    <3>1. playerMap'[q] = playerMap[q] /\ playerMap[q] \in {0} \cup (Tickets \ {new})
      BY <2>1, <2>2, <2>4
    <3>2. Ending
      BY <1>4, WorkLeaves
    <3>3. playerMap[q] = 0 \/ watch'[playerMap[q]] = watch[playerMap[q]]
      BY <1>13, <3>1
    <3> QED
      BY <1>11, <3>1, <3>2, <3>3, MappedKept
  <2> QED
    BY <2>3, <2>4
<1>18. started \subseteq settled /\ failed \subseteq Tickets /\ link \in [Players -> {0} \cup Matches]
  BY DEF Inv, RedisOK
<1> QED
  BY <1>4, <1>11, <1>12, <1>13, <1>14, <1>15, <1>16, <1>17, <1>18, WorkKeeps
-------------------------------------------------------------------------------
(* The round of the engine, and the crash of an instance *)

LEMMA MaxOne ==
  ASSUME NEW k \in Nat
  PROVE  Max({k}) = k
BY DEF Max

\* What a round makes of the tickets: those of the matches formed are completed
\* with them.
Rounded(formed) ==
    /\ IsFormed(formed)
    /\ matches' = matches \o formed
    /\ job' = job \o [k \in 1..Len(formed) |-> [step |-> "none"]]
    /\ tickets' \in Seq(Ticket) /\ Len(tickets') = Len(tickets)
    /\ \A t \in Tickets :
          /\ tickets'[t].players = tickets[t].players /\ tickets'[t].party = tickets[t].party
          /\ tickets'[t].count = tickets[t].count /\ tickets'[t].from = tickets[t].from
          /\ (\A k \in 1..Len(formed) : t \notin TicketsIn(formed[k])) => tickets'[t] = tickets[t]
    /\ \A k \in 1..Len(formed) : \A t \in TicketsIn(formed[k]) :
          tickets'[t].state = "completed" /\ tickets'[t].match = Len(matches) + k

LEMMA TickRounded ==
  ASSUME Inv, Tick
  PROVE  \E formed : Rounded(formed)
<1> DEFINE MatchOf(t, f) == {k \in DOMAIN f : t \in f[k].red \cup f[k].blue}
<1>1. PICK formed :
         /\ formed = SetToSeq({[red |-> {t.id : t \in m.red}, blue |-> {t.id : t \in m.blue}] :
                                  m \in Run(SideOf(Searching))})
         /\ matches' = matches \o formed
         /\ job' = job \o [k \in DOMAIN formed |-> [step |-> "none"]]
         /\ tickets' = [t \in Tickets |->
                IF MatchOf(t, formed) = {} THEN tickets[t]
                ELSE [tickets[t] EXCEPT !.state = "completed",
                                        !.match = Len(matches) + Max(MatchOf(t, formed))]]
  BY Zenon DEF Tick, SideOf
<1>2. IsFormed(formed)
  BY <1>1, RoundFormed DEF Inv
<1>3. /\ formed \in Seq([red : SUBSET Searching, blue : SUBSET Searching])
      /\ DOMAIN formed = 1..Len(formed) /\ Len(formed) \in Nat
  BY <1>2 DEF IsFormed
<1>4. /\ tickets \in Seq(Ticket) /\ Tickets = 1..Len(tickets) /\ Len(tickets) \in Nat
      /\ Len(matches) \in Nat
  BY DEF Inv, QueueOK, Tickets
<1>5. ASSUME NEW k \in 1..Len(formed)
      PROVE  /\ TicketsIn(formed[k]) = formed[k].red \cup formed[k].blue
             /\ TicketsIn(formed[k]) \subseteq Tickets
  <2>1. formed[k] \in [red : SUBSET Searching, blue : SUBSET Searching]
    <3> DEFINE T == [red : SUBSET Searching, blue : SUBSET Searching]
    <3>1. formed \in Seq(T)
      BY <1>3
    <3> HIDE DEF T
    <3>2. formed[k] \in T
      BY <3>1
    <3> QED
      BY <3>2 DEF T
  <2>2. Searching \subseteq Tickets
    BY DEF Searching
  <2> QED
    BY <2>1, <2>2 DEF TicketsIn
<1>6. ASSUME NEW k \in 1..Len(formed), NEW t \in TicketsIn(formed[k])
      PROVE  MatchOf(t, formed) = {k}
  <2>1. \A l \in 1..Len(formed) : l # k => t \notin TicketsIn(formed[l])
    BY <1>2, <1>6 DEF IsFormed
  <2> QED
    BY <1>3, <1>5, <1>6, <2>1
<1>7. ASSUME NEW t \in Tickets, \A k \in 1..Len(formed) : t \notin TicketsIn(formed[k])
      PROVE  tickets'[t] = tickets[t]
  <2>1. MatchOf(t, formed) = {}
    BY <1>3, <1>5, <1>7
  <2> HIDE DEF MatchOf
  <2> QED
    BY <1>1, <2>1
<1>8. ASSUME NEW k \in 1..Len(formed), NEW t \in TicketsIn(formed[k])
      PROVE  /\ t \in Tickets
             /\ tickets'[t] = [tickets[t] EXCEPT !.state = "completed", !.match = Len(matches) + k]
  <2>1. t \in Tickets /\ MatchOf(t, formed) = {k} /\ Max({k}) = k
    BY <1>5, <1>6, MaxOne
  <2>2. MatchOf(t, formed) # {} /\ Max(MatchOf(t, formed)) = k
    <3> HIDE DEF MatchOf
    <3> QED
      BY <2>1
  <2> HIDE DEF MatchOf
  <2> QED
    BY <1>1, <2>1, <2>2
<1>9. ASSUME NEW k \in 1..Len(formed), NEW t \in TicketsIn(formed[k])
      PROVE  /\ t \in Tickets /\ tickets'[t] \in Ticket
             /\ tickets'[t].players = tickets[t].players /\ tickets'[t].party = tickets[t].party
             /\ tickets'[t].count = tickets[t].count /\ tickets'[t].from = tickets[t].from
             /\ tickets'[t].state = "completed" /\ tickets'[t].match = Len(matches) + k
  <2>1. t \in Tickets
        /\ tickets'[t] = [tickets[t] EXCEPT !.state = "completed", !.match = Len(matches) + k]
    BY <1>8
  <2>2. tickets[t] \in Ticket /\ Len(matches) + k \in Nat
    BY <1>3, <1>4, <2>1
  <2> QED
    BY <2>1, <2>2 DEF Ticket
<1>10. ASSUME NEW t \in Tickets
       PROVE  /\ tickets'[t] \in Ticket
              /\ tickets'[t].players = tickets[t].players /\ tickets'[t].party = tickets[t].party
              /\ tickets'[t].count = tickets[t].count /\ tickets'[t].from = tickets[t].from
  <2>1. CASE \A k \in 1..Len(formed) : t \notin TicketsIn(formed[k])
    BY <1>4, <1>7, <2>1
  <2>2. CASE \E k \in 1..Len(formed) : t \in TicketsIn(formed[k])
    BY <1>9, <2>2
  <2> QED
    BY <2>1, <2>2
<1>11. tickets' \in Seq(Ticket) /\ Len(tickets') = Len(tickets)
  <2>1. DOMAIN tickets' = 1..Len(tickets)
    BY <1>1, <1>4
  <2>2. tickets' = [t \in 1..Len(tickets) |-> tickets'[t]]
    <3> DEFINE e == [t \in Tickets |->
                IF MatchOf(t, formed) = {} THEN tickets[t]
                ELSE [tickets[t] EXCEPT !.state = "completed",
                                        !.match = Len(matches) + Max(MatchOf(t, formed))]]
    <3>1. e = [t \in Tickets |-> e[t]]
      OBVIOUS
    <3> HIDE DEF e
    <3>2. tickets' = e
      BY <1>1 DEF e
    <3> QED
      BY <1>4, <3>1, <3>2
  <2>3. tickets' \in [1..Len(tickets) -> Ticket]
    BY <1>4, <1>10, <2>2
  <2> QED
    BY <1>4, <2>3, SeqDef
<1>12. job' = job \o [k \in 1..Len(formed) |-> [step |-> "none"]]
  BY <1>1, <1>3
<1>13. matches' = matches \o formed
  BY <1>1
<1>14. Rounded(formed)
  BY <1>2, <1>7, <1>9, <1>10, <1>11, <1>12, <1>13 DEF Rounded
<1> QED
  BY <1>14

LEMMA Joined ==
  ASSUME NEW S, NEW s \in Seq(S), NEW t \in Seq(S), NEW q, q = s \o t
  PROVE  /\ q \in Seq(S) /\ Len(q) = Len(s) + Len(t)
         /\ \A k \in 1..Len(s) : q[k] = s[k]
         /\ \A k \in 1..Len(t) : q[Len(s) + k] = t[k]
OBVIOUS

\* What a round makes of the matches and their admissions.
RoundShape(formed, n, l) ==
    /\ matches' \in Seq(Match) /\ job' \in Seq(Admission) /\ Len(job') = Len(matches')
    /\ Tickets' = Tickets /\ l \in Nat /\ n \in Nat
    /\ Matches = 1..n /\ Matches' = 1..n + l
    /\ \A m \in Matches : TicketsOf(m)' = TicketsOf(m) /\ job'[m] = job[m]
    /\ \A k \in 1..l :
          /\ TicketsOf(n + k)' = TicketsIn(formed[k])
          /\ job'[n + k].step = "none"
          /\ TicketsIn(formed[k]) # {} /\ TicketsIn(formed[k]) \subseteq Searching
    /\ \A t \in Tickets : tickets[t].state # "searching" => tickets'[t] = tickets[t]
    /\ \A S : Unqueued(S)' = Unqueued(S)

LEMMA RoundedShape ==
  ASSUME Inv, NEW formed, Rounded(formed), NEW n, n = Len(matches), NEW l, l = Len(formed)
  PROVE  RoundShape(formed, n, l)
<1>1. /\ formed \in Seq([red : SUBSET Searching, blue : SUBSET Searching])
      /\ \A k \in 1..l : formed[k].red # {}
      /\ matches' = matches \o formed
      /\ job' = job \o [k \in 1..l |-> [step |-> "none"]]
      /\ Len(tickets') = Len(tickets) /\ tickets' \in Seq(Ticket)
      /\ \A t \in Tickets : tickets'[t].from = tickets[t].from
  BY DEF Rounded, IsFormed
<1>2. /\ matches \in Seq(Match) /\ job \in Seq(Admission) /\ Len(job) = n
      /\ Tickets = 1..Len(tickets) /\ Matches = 1..n /\ n \in Nat
      /\ Searching \subseteq Tickets /\ Searching \subseteq Nat
  BY DEF Inv, QueueOK, Tickets, Matches, Searching
<1>3. formed \in Seq(Match) /\ l = Len(formed) /\ l \in Nat
  <2> DEFINE T == [red : SUBSET Searching, blue : SUBSET Searching]
  <2>1. formed \in Seq(T)
    BY <1>1
  <2>2. T \subseteq Match
    BY <1>2 DEF Match
  <2> HIDE DEF T
  <2> QED
    BY <2>1, <2>2
<1>4. ASSUME NEW k \in 1..l
      PROVE  TicketsIn(formed[k]) # {} /\ TicketsIn(formed[k]) \subseteq Searching
  <2> DEFINE T == [red : SUBSET Searching, blue : SUBSET Searching]
  <2>1. formed \in Seq(T)
    BY <1>1
  <2>2. formed[k] \in T
    <3> HIDE DEF T
    <3> QED
      BY <2>1
  <2> QED
    BY <1>1, <2>2 DEF TicketsIn
<1>5. PICK none : none = [k \in 1..l |-> [step |-> "none"]]
  OBVIOUS
<1>6. none \in Seq(Admission) /\ Len(none) = l
      /\ \A k \in 1..l : none[k].step = "none"
  <2>1. none \in [1..l -> Admission]
    BY <1>5 DEF Admission
  <2>2. \A k \in 1..l : none[k].step = "none"
    BY <1>5
  <2> QED
    BY <1>3, <2>1, <2>2, SeqDef
<1>7. /\ matches' \in Seq(Match) /\ Len(matches') = n + l
      /\ \A m \in Matches : matches'[m] = matches[m]
      /\ \A k \in 1..l : matches'[n + k] = formed[k]
  BY <1>1, <1>2, <1>3, Joined
<1>8. job' = job \o none
  BY <1>1, <1>5
<1>9. /\ job' \in Seq(Admission) /\ Len(job') = n + l
      /\ \A m \in Matches : job'[m] = job[m]
      /\ \A k \in 1..l : job'[n + k] = none[k]
  <2>1. job \in Seq(Admission) /\ none \in Seq(Admission) /\ job' = job \o none
    BY <1>2, <1>6, <1>8
  <2>2. Len(job) = n /\ Len(none) = l /\ Matches = 1..n
    BY <1>2, <1>6
  <2>3. /\ job' \in Seq(Admission) /\ Len(job') = Len(job) + Len(none)
        /\ \A k \in 1..Len(job) : job'[k] = job[k]
        /\ \A k \in 1..Len(none) : job'[Len(job) + k] = none[k]
    BY <2>1, Joined
  <2> QED
    BY <2>2, <2>3
<1>10. Tickets' = Tickets /\ Matches' = 1..n + l
  BY <1>1, <1>2, <1>7 DEF Tickets, Matches
<1>11. /\ \A m \in Matches : TicketsOf(m)' = TicketsOf(m)
       /\ \A k \in 1..l : TicketsOf(n + k)' = TicketsIn(formed[k])
  BY <1>7 DEF TicketsOf, TicketsIn
<1>12. ASSUME NEW t \in Tickets, tickets[t].state # "searching" PROVE tickets'[t] = tickets[t]
  BY <1>4, <1>12 DEF Rounded, Searching
<1>13. \A S : Unqueued(S)' = Unqueued(S)
  BY <1>1, <1>10 DEF Unqueued
<1>14. ASSUME NEW k \in 1..l PROVE job'[n + k].step = "none"
  BY <1>6, <1>9
<1>15. Len(matches') = Len(job')
  BY <1>7, <1>9
<1> QED
  BY <1>2, <1>3, <1>4, <1>7, <1>9, <1>10, <1>11, <1>12, <1>13, <1>14, <1>15 DEF RoundShape

LEMMA TickKeeps ==
  ASSUME Inv, Tick
  PROVE  Inv'
<1>1. PICK formed : Rounded(formed)
  BY TickRounded
<1>2. UNCHANGED <<roster, redis, watch, call, calls, faults, published>>
  BY DEF Tick
<1>3. PICK n : n = Len(matches)
  OBVIOUS
<1>4. PICK l : l = Len(formed)
  OBVIOUS
<1>5. /\ matches' \in Seq(Match) /\ job' \in Seq(Admission) /\ Len(job') = Len(matches')
      /\ Tickets' = Tickets /\ l \in Nat /\ n \in Nat
      /\ Matches = 1..n /\ Matches' = 1..n + l
      /\ \A m \in Matches : TicketsOf(m)' = TicketsOf(m) /\ job'[m] = job[m]
      /\ \A k \in 1..l :
            /\ TicketsOf(n + k)' = TicketsIn(formed[k])
            /\ job'[n + k].step = "none"
            /\ TicketsIn(formed[k]) # {} /\ TicketsIn(formed[k]) \subseteq Searching
      /\ \A t \in Tickets : tickets[t].state # "searching" => tickets'[t] = tickets[t]
      /\ \A S : Unqueued(S)' = Unqueued(S)
  <2>1. RoundShape(formed, n, l)
    BY <1>1, <1>3, <1>4, RoundedShape
  <2> QED
    BY <2>1 DEF RoundShape
<1>6. /\ tickets' \in Seq(Ticket) /\ Len(tickets') = Len(tickets)
      /\ \A t \in Tickets :
            /\ tickets'[t].players = tickets[t].players /\ tickets'[t].party = tickets[t].party
            /\ tickets'[t].count = tickets[t].count /\ tickets'[t].from = tickets[t].from
            /\ (\A k \in 1..l : t \notin TicketsIn(formed[k])) => tickets'[t] = tickets[t]
      /\ \A k \in 1..l : \A t \in TicketsIn(formed[k]) :
            tickets'[t].state = "completed" /\ tickets'[t].match = n + k
  BY <1>1, <1>3, <1>4 DEF Rounded
<1>7. Matches \subseteq Matches' /\ \A m \in Matches' \ Matches : \E k \in 1..l : m = n + k
  <2>1. \A m \in Matches' \ Matches : m - n \in 1..l /\ m = n + (m - n)
    BY <1>5
  <2> QED
    BY <1>5, <2>1
<1>8. QueueOK'
  BY <1>2, <1>5, <1>6 DEF Inv, QueueOK, RosterOK
<1>9. RedisOK'
  <2>1. RedisOK
    BY DEF Inv
  <2> QED
    BY <1>2, <1>5, <1>7, <2>1 DEF RedisOK, redis, published
<1>10. CallsOK'
  <2>1. Calls' = Calls
    BY <1>5 DEF Calls
  <2>2. \A p \in Players : call[p].op \in {"map", "partymap"} => call[p].ticket \in Tickets
    BY CallShape DEF Inv, CallsOK
  <2>3. CallsOK
    BY DEF Inv
  <2> QED
    BY <1>2, <1>5, <1>6, <2>1, <2>2, <2>3 DEF CallsOK
<1>11. ASSUME NEW t \in Tickets PROVE TicketOK(t)'
  <2>1. TicketOK(t)
    BY DEF Inv
  <2>2. CASE \A k \in 1..l : t \notin TicketsIn(formed[k])
    BY <1>5, <1>6, <1>7, <2>1, <2>2 DEF TicketOK
  <2>3. CASE \E k \in 1..l : t \in TicketsIn(formed[k])
    <3>1. PICK k \in 1..l : t \in TicketsIn(formed[k])
      BY <2>3
    <3>2. tickets'[t].state = "completed" /\ tickets'[t].match = n + k
      BY <1>6, <3>1
    <3>3. n + k \in Matches' /\ n + k # 0 /\ t \in TicketsOf(n + k)'
      BY <1>5, <3>1
    <3>4. PICK m : m = n + k
      OBVIOUS
    <3> QED
      BY <1>6, <2>1, <3>2, <3>3, <3>4 DEF TicketOK
  <2> QED
    BY <2>2, <2>3
<1>12. ASSUME NEW t \in Tickets PROVE LineOK(t)'
  <2> DEFINE o == tickets[t].from
  <2>1. LineOK(t) /\ (o # 0 => o \in Tickets)
    BY DEF Inv, LineOK, QueueOK, Tickets
  <2>2. o # 0 => tickets'[o] = tickets[o]
    BY <1>5, <2>1 DEF LineOK
  <2> QED
    BY <1>2, <1>6, <2>1, <2>2 DEF LineOK, published
<1>13. ASSUME NEW m \in Matches PROVE MatchOK(m)'
  <2>1. MatchOK(m) /\ m # 0
    BY <1>5 DEF Inv
  <2>2. \A t \in TicketsOf(m) : tickets[t].state # "searching"
    BY <2>1 DEF Inv, MatchOK, TicketOK
  <2> QED
    BY <1>5, <2>1, <2>2 DEF MatchOK
<1>14. ASSUME NEW k \in 1..l PROVE MatchOK(n + k)'
  <2>1. /\ TicketsOf(n + k)' = TicketsIn(formed[k])
        /\ TicketsIn(formed[k]) # {} /\ TicketsIn(formed[k]) \subseteq Tickets
    BY <1>5 DEF Searching
  <2>2. PICK m : m = n + k
    OBVIOUS
  <2>3. MatchOK(m)'
    BY <1>5, <1>6, <2>1, <2>2 DEF MatchOK
  <2> QED
    BY <1>3, <2>2, <2>3
<1>15. Once'
  BY <1>5, <1>6 DEF Inv, Once
<1>16. ASSUME NEW m \in Matches PROVE JobOK(m)'
  <2>1. JobOK(m)
    BY DEF Inv
  <2> QED
    BY <1>2, <1>5, <1>6, <2>1 DEF JobOK, redis, published
<1>17. ASSUME NEW k \in 1..l PROVE JobOK(n + k)'
  <2>1. PICK m : m = n + k
    OBVIOUS
  <2>2. PICK S : S = TicketsIn(formed[k])
    OBVIOUS
  <2>3. job'[m].step = "none" /\ m \notin settled /\ m \notin started /\ TicketsOf(m)' = S
    BY <1>5, <2>1, <2>2 DEF Inv, RedisOK
  <2>4. Unqueued(S)
    <3>1. ASSUME NEW u \in Tickets, tickets[u].from \in Searching PROVE FALSE
      BY <3>1 DEF Inv, LineOK, Searching, QueueOK, Tickets
    <3> QED
      BY <1>5, <2>2, <3>1 DEF Unqueued
  <2>5. Unqueued(S)'
    BY <1>5, <2>4
  <2>6. JobOK(m)'
    BY <1>2, <2>3, <2>5 DEF JobOK, Entering, redis, published
  <2> QED
    BY <2>1, <2>6
<1>18. ASSUME NEW p \in Players PROVE LinkOK(p)'
  <2>1. LinkOK(p) /\ link[p] \in {0} \cup Matches
    BY DEF Inv, RedisOK
  <2>2. link[p] \in Matches => PlayersOf(link[p])' = PlayersOf(link[p])
    <3>1. ASSUME NEW m \in Matches PROVE PlayersOf(m)' = PlayersOf(m)
      <4>1. TicketsOf(m) \subseteq Tickets /\ TicketsOf(m)' = TicketsOf(m)
        BY <1>5 DEF Inv, MatchOK
      <4> QED
        BY <1>6, <4>1 DEF PlayersOf
    <3> QED
      BY <1>2, <3>1 DEF redis, PlayersOf, TicketsOf
  <2> QED
    BY <1>2, <1>5, <2>1, <2>2 DEF LinkOK, redis, published
<1>19. ASSUME NEW p \in Players PROVE MappedOK(p)'
  <2>1. MappedOK(p) /\ playerMap[p] \in {0} \cup Tickets
    BY DEF Inv, RedisOK
  <2> QED
    BY <1>2, <1>5, <1>6, <2>1 DEF MappedOK, redis
<1>20. \A m \in Matches' : MatchOK(m)' /\ JobOK(m)'
  <2>1. SUFFICES ASSUME NEW m \in Matches' PROVE MatchOK(m)' /\ JobOK(m)'
    OBVIOUS
  <2>2. CASE m \in Matches
    BY <1>13, <1>16, <2>2
  <2>3. CASE m \notin Matches
    <3>1. PICK k \in 1..l : m = n + k
      BY <1>7, <2>3
    <3> QED
      BY <1>14, <1>17, <3>1
  <2> QED
    BY <2>2, <2>3
<1> QED
  BY <1>5, <1>8, <1>9, <1>10, <1>11, <1>12, <1>15, <1>18, <1>19, <1>20 DEF Inv

\* The functions over the numbers of a sequence are sequences.
LEMMA OverSeq ==
  ASSUME NEW S, NEW q \in Seq(S), NEW f, f = [i \in 1..Len(q) |-> f[i]], \A i \in 1..Len(q) : f[i] \in S
  PROVE  f \in Seq(S) /\ Len(f) = Len(q)
<1>1. f \in [1..Len(q) -> S] /\ Len(q) \in Nat
  OBVIOUS
<1> QED
  BY <1>1, SeqDef

LEMMA CrashKeeps ==
  ASSUME Inv, NEW i \in Instances, Crash(i)
  PROVE  Inv'
<1>1. UNCHANGED <<tickets, matches, roster, playerMap, partyMap, settled, link, calls, started, failed>>
  BY DEF Crash, engine, redis, published
<1>2. /\ Ending /\ Tickets' = Tickets /\ Matches' = Matches
      /\ \A m \in Matches : TicketsOf(m)' = TicketsOf(m) /\ PlayersOf(m)' = PlayersOf(m)
      /\ \A S : Unqueued(S)' = Unqueued(S)
  BY <1>1, WorkLeaves
<1>3. /\ watch \in Seq(Goroutine) /\ Tickets = 1..Len(watch) /\ Len(watch) = Len(tickets)
      /\ job \in Seq(Admission) /\ Matches = 1..Len(job) /\ Len(job) = Len(matches)
  BY DEF Inv, QueueOK, Tickets, Matches
<1>4. faults \subseteq faults' /\ faults' \subseteq Faults
  BY FaultKept DEF Crash, Inv, CallsOK
<1>5. /\ watch' \in Seq(Goroutine) /\ Len(watch') = Len(watch)
      /\ \A t \in Tickets : \/ watch'[t] = watch[t]
                            \/ watch'[t].step = "lost" /\ watch[t].step \in {"wait", "unmap"}
  <2> DEFINE f == [t \in Tickets |->
                     IF watch[t].step \in {"wait", "unmap"} /\ watch[t].at = i
                     THEN [step |-> "lost"] ELSE watch[t]]
  <2>1. watch' = f
    BY DEF Crash
  <2>2. \A t \in 1..Len(watch) : f[t] \in Goroutine
    BY <1>3 DEF Goroutine
  <2>3. f = [t \in 1..Len(watch) |-> f[t]]
    BY <1>3
  <2>4. \A t \in Tickets : \/ f[t] = watch[t]
                           \/ f[t].step = "lost" /\ watch[t].step \in {"wait", "unmap"}
    OBVIOUS
  <2> HIDE DEF f
  <2> QED
    BY <1>3, <2>1, <2>2, <2>3, <2>4, OverSeq
<1>6. /\ job' \in Seq(Admission) /\ Len(job') = Len(job)
      /\ \A m \in Matches : \/ job'[m] = job[m]
                            \/ job'[m].step = "lost" /\ job[m].step \notin {"none", "done"}
  <2> DEFINE f == [m \in Matches |->
                     IF job[m].step \notin {"none", "done"} /\ job[m].at = i
                     THEN [step |-> "lost"] ELSE job[m]]
  <2>1. job' = f
    BY DEF Crash
  <2>2. \A m \in 1..Len(job) : f[m] \in Admission
    BY <1>3 DEF Admission
  <2>3. f = [m \in 1..Len(job) |-> f[m]]
    BY <1>3
  <2>4. \A m \in Matches : \/ f[m] = job[m]
                           \/ f[m].step = "lost" /\ job[m].step \notin {"none", "done"}
    OBVIOUS
  <2> HIDE DEF f
  <2> QED
    BY <1>3, <2>1, <2>2, <2>3, <2>4, OverSeq
<1>7. /\ call' \in [Players -> Calls]
      /\ \A p \in Players : call'[p] \in {call[p], Idle}
  BY DEF Crash, Inv, CallsOK, Calls
<1>8. CallsOK'
  <2>1. Calls' = Calls
    BY <1>2 DEF Calls
  <2>2. CallsOK
    BY DEF Inv
  <2>3. \A p \in Players : call'[p].op \in {"map", "partymap"} => call'[p] = call[p]
    BY <1>7 DEF Idle
  <2> QED
    BY <1>1, <1>2, <1>4, <1>7, <2>1, <2>2, <2>3 DEF CallsOK
<1>9. QueueOK'
  BY <1>1, <1>3, <1>5, <1>6 DEF Inv, QueueOK, RosterOK
<1>10. RedisOK'
  BY <1>1, <1>2 DEF Inv, RedisOK
<1>11. /\ \A t \in Tickets' : TicketOK(t)' /\ LineOK(t)'
       /\ \A m \in Matches' : MatchOK(m)'
       /\ Once'
  BY <1>1, <1>2, EndingEngine
<1>12. ASSUME NEW m \in Matches PROVE JobOK(m)'
  <2>1. JobOK(m)
    BY DEF Inv
  <2>2. CASE job'[m] = job[m]
    BY <1>1, <1>2, <2>1, <2>2 DEF JobOK
  <2>3. CASE job'[m].step = "lost" /\ job[m].step \notin {"none", "done"}
    BY <1>1, <2>1, <2>3 DEF JobOK, Entering
  <2> QED
    BY <1>6, <2>2, <2>3
<1>13. ASSUME NEW p \in Players PROVE LinkOK(p)'
  <2>1. LinkOK(p) /\ link[p] \in {0} \cup Matches
    BY DEF Inv, RedisOK
  <2>2. ASSUME NEW m \in Matches, link[p] = m, m # 0 PROVE LinkOK(p)'
    <3>1. p \in PlayersOf(m)' /\ link'[p] = m
      BY <1>1, <1>2, <2>1, <2>2 DEF LinkOK
    <3>2. \/ m \in started' \/ "redis" \in faults' \/ job'[m].step \in {"publish", "unlink", "lost"}
      BY <1>1, <1>4, <1>6, <2>1, <2>2 DEF LinkOK
    <3> QED
      BY <3>1, <3>2 DEF LinkOK, PlayersOf, TicketsOf
  <2> QED
    BY <1>1, <2>1, <2>2 DEF LinkOK
<1>14. ASSUME NEW p \in Players PROVE MappedOK(p)'
  <2>1. MappedOK(p) /\ playerMap[p] \in {0} \cup Tickets
    BY DEF Inv, RedisOK
  <2> QED
    BY <1>1, <1>4, <1>5, <2>1 DEF MappedOK
<1> QED
  BY <1>2, <1>8, <1>9, <1>10, <1>11, <1>12, <1>13, <1>14 DEF Inv
-------------------------------------------------------------------------------
(* The theorems of the queue and the admission *)

LEMMA InitOK ==
  ASSUME Init
  PROVE  Inv
<1>1. Tickets = {} /\ Matches = {}
  BY DEF Init, Tickets, Matches
<1>2. RosterOK
  <2>1. \A g \in Parties : roster[g] = {} \/ \E p \in Players : roster[g] = {p}
    BY DEF Init
  <2>2. IsFiniteSet({}) /\ \A p \in Players : IsFiniteSet({p})
    BY FS_EmptySet, FS_Singleton
  <2>3. \A g \in Parties : IsFiniteSet(roster[g])
    BY <2>1, <2>2
  <2>4. roster \in [Parties -> SUBSET Players]
    BY DEF Init
  <2> QED
    BY <2>3, <2>4 DEF RosterOK
<1>3. QueueOK
  BY <1>2 DEF Init, QueueOK
<1>4. RedisOK
  BY DEF Init, RedisOK
<1>5. CallsOK
  BY MatchAssumption DEF Init, CallsOK, Calls, Idle
<1>6. \A p \in Players : LinkOK(p) /\ MappedOK(p)
  BY DEF Init, LinkOK, MappedOK
<1> QED
  BY <1>1, <1>3, <1>4, <1>5, <1>6 DEF Inv, Once

LEMMA NextKeeps ==
  ASSUME Inv, [Next]_vars
  PROVE  Inv'
<1>1. CASE Tick
  BY <1>1, TickKeeps
<1>2. CASE TimeOut
  BY <1>2, TimeOutKeeps
<1>3. ASSUME NEW p \in Players, Ask(p) PROVE Inv'
  BY <1>3, QueueMatchKeeps, CancelMatchKeeps, JoinPartyKeeps, QueuePartyKeeps, LeavePartyKeeps
     DEF Ask
<1>4. ASSUME NEW p \in Players, Serve(p) PROVE Inv'
  BY <1>4, QueueStartKeeps, QueueMapKeeps, CancelTicketKeeps, CancelUnmapKeeps, PartyStartKeeps,
     PartyMapKeeps, LeaveCancelKeeps, LeaveUnmapKeeps, LeaveKeeps DEF Serve
<1>5. ASSUME NEW t \in Tickets, Attend(t) PROVE Inv'
  BY <1>5, TrySettleKeeps, TellFailedKeeps, UnmapKeeps DEF Attend
<1>6. ASSUME NEW m \in Matches, Work(m) PROVE Inv'
  BY <1>6, AdmitKeeps, LinkKeeps, PublishKeeps, UnlinkKeeps, RequeueKeeps, RemapKeeps DEF Work
<1>7. ASSUME NEW i \in Instances, Crash(i) PROVE Inv'
  BY <1>7, CrashKeeps
<1>8. CASE UNCHANGED vars
  <2>1. Ending /\ UNCHANGED <<roster, redis, watch, job, call, calls, faults, published>>
    BY <1>8, NoEnding DEF vars, engine, Inv
  <2>2. CallsOK'
    <3>1. Calls' = Calls /\ UNCHANGED tickets
      BY <1>8, <2>1, EndingSame DEF Inv, Calls, vars, engine
    <3> QED
      BY <2>1, <3>1 DEF Inv, CallsOK, Tickets
  <2> QED
    BY <2>1, <2>2, QueryKeeps DEF Ending, redis, published
<1> QED
  BY <1>1, <1>2, <1>3, <1>4, <1>5, <1>6, <1>7, <1>8 DEF Next

LEMMA Invariance == Spec => []Inv
BY InitOK, NextKeeps, PTL DEF Spec

\* The shapes of the state.
LEMMA InvTypes ==
  ASSUME Inv
  PROVE  TypeOK
<1>1. ASSUME NEW t \in Tickets
      PROVE  /\ tickets[t].players \subseteq Players
             /\ tickets[t].party \in Parties \cup {NoParty}
             /\ tickets[t].count \in 0..MaxRequeue
             /\ tickets[t].from \in 0..t - 1
             /\ tickets[t].state \in {"searching", "completed", "failed"}
             /\ tickets[t].match \in {0} \cup Matches
  <2>1. tickets[t] \in Ticket
    BY DEF Inv, QueueOK, Tickets
  <2>2. TicketOK(t) /\ LineOK(t)
    BY DEF Inv
  <2> QED
    BY <2>1, <2>2 DEF Ticket, TicketOK, LineOK
<1>2. DOMAIN watch = Tickets /\ DOMAIN job = Matches
  BY DEF Inv, QueueOK, Tickets, Matches
<1> QED
  BY <1>1, <1>2 DEF Inv, RedisOK, CallsOK, QueueOK, RosterOK, TypeOK

THEOREM MatchTypes == Spec => []TypeOK
BY Invariance, InvTypes, PTL

\* A player's link is to a match that was started, or that is about to be or
\* to lose its links again.
THEOREM MatchLinks == Spec => []LinksReal
<1>1. ASSUME Inv PROVE LinksReal
  <2>1. \A p \in Players : LinkOK(p)
    BY <1>1 DEF Inv
  <2> QED
    BY <2>1 DEF LinksReal, LinkOK
<1> QED
  BY <1>1, Invariance, PTL

\* A player who queued alone is not left mapped to a ticket that failed.
THEOREM MatchUnmapped == Spec => []DeadTicketUnmapped
<1>1. ASSUME Inv PROVE DeadTicketUnmapped
  <2>1. \A p \in Players : MappedOK(p)
    BY <1>1 DEF Inv
  <2> QED
    BY <2>1 DEF DeadTicketUnmapped, MappedOK
<1> QED
  BY <1>1, Invariance, PTL
-------------------------------------------------------------------------------
(* No match is forgotten *)

\* An admission that died or never began is a fault's doing; one that ended has published
\* the start or every failure, one that queues again the failures it has passed.
HeldOK(m) ==
    /\ m \in settled /\ job[m].step \in {"none", "lost"} => faults # {}
    /\ job[m].step = "done" => Disposed(m)
    /\ job[m].step \in {"requeue", "remap"} => TicketsOf(m) \ job[m].todo \subseteq failed
    /\ job[m].step = "remap" => Min(job[m].todo) \in failed

\* While nothing has failed every ticket is watched until it has failed or its match is
\* claimed.
WatchOK(t) ==
    /\ watch[t].step # "lost"
    /\ watch[t].step = "done" => tickets[t].state = "failed" \/ tickets[t].match \in settled
    /\ watch[t].step = "unmap" => tickets[t].state = "failed"
    /\ watch[t].step = "none" => Awaited(t)

Held ==
    /\ \A m \in Matches : HeldOK(m)
    /\ faults = {} => \A t \in Tickets : WatchOK(t)

\* What a step of another admission, or of none, leaves of a match.
LEMMA HeldKept ==
  ASSUME NEW m \in Matches, HeldOK(m), UNCHANGED <<TicketsOf(m), job[m]>>,
         m \in settled' => m \in settled \/ faults' # {},
         started \subseteq started', failed \subseteq failed', faults \subseteq faults'
  PROVE  HeldOK(m)'
BY DEF HeldOK, Disposed

\* What a step that does not touch the goroutine of a ticket leaves of it.
LEMMA WatchedOn ==
  ASSUME NEW t \in Tickets, WatchOK(t), watch'[t] = watch[t],
         tickets[t].state = "searching" \/ UNCHANGED <<tickets[t].state, tickets[t].match>>,
         settled \subseteq settled', QueueOK,
         watch[t].step = "done" => tickets[t].state # "searching",
         Awaited(t) => Awaited(t)'
  PROVE  WatchOK(t)'
BY DEF WatchOK

LEMMA AwaitedOn ==
  ASSUME NEW t \in Tickets, Awaited(t), tickets'[t].from = tickets[t].from,
         Matches \subseteq Matches',
         \A p \in Players : call[p].op \in {"map", "partymap"} /\ call[p].ticket = t =>
                                call'[p] = call[p],
         \A m \in Matches : job[m].step = "remap" /\ tickets[t].from = Min(job[m].todo) =>
                                job'[m] = job[m]
  PROVE  Awaited(t)'
<1>1. CASE \E p \in Players : call[p].op \in {"map", "partymap"} /\ call[p].ticket = t
  BY <1>1 DEF Awaited
<1>2. CASE \E m \in Matches : At(m, "remap") /\ tickets[t].from = Min(job[m].todo)
  <2>1. PICK m \in Matches : job[m].step = "remap" /\ tickets[t].from = Min(job[m].todo)
    BY <1>2 DEF At
  <2>2. m \in Matches' /\ job'[m] = job[m]
    BY <2>1
  <2> QED
    BY <2>1, <2>2 DEF Awaited, At
<1> QED
  BY <1>1, <1>2 DEF Awaited

\* A ticket that waits has its goroutine still.
LEMMA DoneEnded ==
  ASSUME Inv, NEW t \in Tickets, WatchOK(t), watch[t].step = "done"
  PROVE  tickets[t].state # "searching"
<1>1. 0 \notin settled
  BY DEF Inv, RedisOK, QueueOK, Matches
<1> QED
  BY <1>1 DEF WatchOK, Inv, TicketOK

\* Nothing of what the ticket waits for is touched.
Left(t) ==
    /\ watch'[t] = watch[t]
    /\ \A p \in Players : call[p].op \in {"map", "partymap"} /\ call[p].ticket = t =>
                               call'[p] = call[p]
    /\ \A m \in Matches : job[m].step = "remap" /\ tickets[t].from = Min(job[m].todo) =>
                               job'[m] = job[m]
LeftAlone(m) == job'[m] = job[m] /\ (m \in settled' => m \in settled \/ faults' # {})

\* A step that makes no ticket and no match holds what it leaves alone.
LEMMA StepHeld ==
  ASSUME Inv, Held, Ending,
         settled \subseteq settled', started \subseteq started', failed \subseteq failed',
         faults \subseteq faults',
         \A m \in Matches : HeldOK(m)' \/ LeftAlone(m),
         \A t \in Tickets : faults' = {} => WatchOK(t)' \/ Left(t)
  PROVE  Held'
<1>1. /\ Tickets' = Tickets /\ Matches' = Matches /\ QueueOK
      /\ \A m \in Matches : TicketsOf(m)' = TicketsOf(m)
  BY EndingSame DEF Inv
<1>2. ASSUME NEW m \in Matches PROVE HeldOK(m)'
  <2>1. HeldOK(m)
    BY DEF Held
  <2>2. CASE LeftAlone(m)
    BY <1>1, <2>1, <2>2, HeldKept DEF LeftAlone
  <2> QED
    BY <2>2
<1>3. ASSUME NEW t \in Tickets, faults' = {}, Left(t) PROVE WatchOK(t)'
  <2>1. WatchOK(t)
    BY <1>3 DEF Held
  <2>2. /\ tickets'[t].from = tickets[t].from /\ tickets'[t].match = tickets[t].match
        /\ tickets[t].state = "searching" \/ tickets'[t].state = tickets[t].state
    BY DEF Ending
  <2>3. Awaited(t) => Awaited(t)'
    BY <1>1, <1>3, <2>2, AwaitedOn DEF Left
  <2>4. watch[t].step = "done" => tickets[t].state # "searching"
    BY <2>1, DoneEnded
  <2>5. watch'[t] = watch[t]
    BY <1>3 DEF Left
  <2> QED
    BY <1>1, <2>1, <2>2, <2>3, <2>4, <2>5, WatchedOn
<1> QED
  BY <1>1, <1>2, <1>3 DEF Held

\* A step that makes a ticket.
LEMMA StartHeld ==
  ASSUME Inv, Held, NEW players, NEW party, NEW count, NEW from,
         Startable(players, party, count, from), Start(players, party, count, from),
         UNCHANGED <<matches, settled, started, faults>>, failed \subseteq failed',
         \A m \in Matches : HeldOK(m)' \/ job'[m] = job[m],
         \A p \in Players : call[p].op \in {"map", "partymap"} => call'[p] = call[p],
         \A m \in Matches : job[m].step = "remap" => job'[m] = job[m],
         NEW n, n = Len(tickets) + 1, Awaited(n)'
  PROVE  Held'
<1>2. /\ Tickets' = Tickets \cup {n} /\ Matches' = Matches /\ watch'[n].step = "none"
      /\ \A t \in Tickets : tickets'[t] = tickets[t] /\ watch'[t] = watch[t]
      /\ \A m \in Matches : TicketsOf(m)' = TicketsOf(m)
  BY StartShape DEF Inv
<1>3. ASSUME NEW m \in Matches PROVE HeldOK(m)'
  <2>1. HeldOK(m)
    BY DEF Held
  <2> QED
    BY <1>2, <2>1, HeldKept
<1>4. ASSUME NEW t \in Tickets, faults' = {} PROVE WatchOK(t)'
  <2>1. WatchOK(t) /\ QueueOK
    BY <1>4 DEF Held, Inv
  <2>2. Awaited(t) => Awaited(t)'
    BY <1>2, AwaitedOn
  <2>3. watch[t].step = "done" => tickets[t].state # "searching"
    BY <2>1, DoneEnded
  <2> QED
    BY <1>2, <2>1, <2>2, <2>3, WatchedOn
<1>5. WatchOK(n)'
  BY <1>2 DEF WatchOK
<1> QED
  BY <1>2, <1>3, <1>4, <1>5 DEF Held

\* Steps of the calls that change nothing but the call, the mappings and the parties.
LEMMA AskHeld ==
  ASSUME Inv, Held, NEW p \in Players, Ask(p)
  PROVE  Held'
<1>1. UNCHANGED <<tickets, matches, watch, job, settled, started, failed>>
  BY DEF Ask, QueueMatch, CancelMatch, JoinParty, QueueParty, LeaveParty, engine, redis,
     published
<1>2. Ending
  BY <1>1, NoEnding DEF Inv
<1>3. faults \subseteq faults'
  BY FaultKept DEF Ask, QueueMatch, CancelMatch, JoinParty, QueueParty, LeaveParty, Inv
<1>4. \A q \in Players : call[q].op \in {"map", "partymap"} => call'[q] = call[q]
  <2>1. call[p] = Idle /\ \A q \in Players \ {p} : call'[q] = call[q]
    BY DEF Ask, QueueMatch, CancelMatch, JoinParty, QueueParty, LeaveParty, Begin,
       Inv, CallsOK
  <2> QED
    BY <2>1 DEF Idle
<1> QED
  BY <1>1, <1>2, <1>3, <1>4, StepHeld DEF Left, LeftAlone

LEMMA ServeQuietHeld ==
  ASSUME Inv, Held, NEW p \in Players, call[p].op \notin {"map", "partymap"}, Serve(p),
         QueueStart(p) \/ PartyStart(p) => Refused(<<tickets, watch>>) /\ Return(p)
  PROVE  Held'
<1>1. /\ UNCHANGED <<matches, watch, job, settled, started, failed>>
      /\ faults \subseteq faults'
      /\ \A q \in Players \ {p} : call'[q] = call[q]
      /\ Ending
  <2>1. CASE QueueStart(p) \/ PartyStart(p)
    BY <2>1, NoEnding, FaultKept DEF QueueStart, PartyStart, Refused, Return, redis,
       published, Inv, CallsOK
  <2>2. CASE CancelTicket(p)
    BY <2>2, NoEnding, CancelledEnding, FaultKept DEF CancelTicket, Return, redis, published, Inv, CallsOK
  <2>3. CASE CancelUnmap(p)
    BY <2>3, NoEnding, FaultKept DEF CancelUnmap, Refused, Return, engine, published, Inv, CallsOK
  <2>4. CASE LeaveCancel(p)
    BY <2>4, NoEnding, CancelledEnding, FaultKept DEF LeaveCancel, Refused, redis, published, Inv, CallsOK
  <2>5. CASE LeaveUnmap(p)
    BY <2>5, NoEnding, FaultKept DEF LeaveUnmap, Refused, engine, published, Inv, CallsOK
  <2>6. CASE Leave(p)
    BY <2>6, NoEnding, FaultKept DEF Leave, Refused, Return, redis, published, Inv, CallsOK
  <2>7. ~QueueMap(p) /\ ~PartyMap(p)
    BY DEF QueueMap, PartyMap
  <2> QED
    BY <2>1, <2>2, <2>3, <2>4, <2>5, <2>6, <2>7 DEF Serve
<1>2. \A q \in Players : call[q].op \in {"map", "partymap"} => call'[q] = call[q]
  BY <1>1
<1> QED
  BY <1>1, <1>2, StepHeld DEF Left, LeftAlone

LEMMA QueueStartHeld ==
  ASSUME Inv, Held, NEW p \in Players, QueueStart(p)
  PROVE  Held'
<1>1. PICK n : n = Len(tickets) + 1
  OBVIOUS
<1>2. CASE /\ Start({p}, NoParty, 0, 0)
           /\ call' = [call EXCEPT ![p] = [op |-> "map", ticket |-> n]]
           /\ UNCHANGED faults
  <2>1. UNCHANGED <<matches, job, settled, started, failed>> /\ call[p].op = "queue"
    BY DEF QueueStart, redis, published
  <2>2. call'[p] = [op |-> "map", ticket |-> n] /\ \A q \in Players \ {p} : call'[q] = call[q]
    BY <1>2 DEF Inv, CallsOK
  <2>3. Awaited(n)'
    BY <2>2 DEF Awaited
  <2>4. \A q \in Players : call[q].op \in {"map", "partymap"} => call'[q] = call[q]
    BY <2>1, <2>2
  <2>5. Startable({p}, NoParty, 0, 0)
    BY SoloStartable
  <2> QED
    BY <1>1, <1>2, <2>1, <2>3, <2>4, <2>5, StartHeld
<1>3. CASE Refused(<<tickets, watch>>) /\ Return(p)
  <2>1. Serve(p) /\ call[p].op = "queue"
    BY DEF Serve, QueueStart
  <2> QED
    BY <1>3, <2>1, ServeQuietHeld
<1> QED
  BY <1>1, <1>2, <1>3 DEF QueueStart

LEMMA PartyStartHeld ==
  ASSUME Inv, Held, NEW p \in Players, PartyStart(p)
  PROVE  Held'
<1>1. PICK n : n = Len(tickets) + 1
  OBVIOUS
<1>2. PICK g : g = call[p].party
  OBVIOUS
<1>3. CASE /\ roster[g] # {} /\ Start(roster[g], g, 0, 0)
           /\ call' = [call EXCEPT ![p] = [op |-> "partymap", party |-> g, ticket |-> n]]
           /\ UNCHANGED faults
  <2>1. UNCHANGED <<matches, job, settled, started, failed>> /\ call[p].op = "party"
    BY DEF PartyStart, redis, published
  <2>2. call'[p] = [op |-> "partymap", party |-> g, ticket |-> n]
        /\ \A q \in Players \ {p} : call'[q] = call[q]
    BY <1>3 DEF Inv, CallsOK
  <2>3. Awaited(n)'
    BY <2>2 DEF Awaited
  <2>4. \A q \in Players : call[q].op \in {"map", "partymap"} => call'[q] = call[q]
    BY <2>1, <2>2
  <2>5. Startable(roster[g], g, 0, 0)
    BY <1>2, <1>3, <2>1, PartyStartable
  <2> QED
    BY <1>1, <1>3, <2>1, <2>3, <2>4, <2>5, StartHeld
<1>4. CASE Refused(<<tickets, watch>>) /\ Return(p)
  <2>1. Serve(p) /\ call[p].op = "party"
    BY DEF Serve, PartyStart
  <2> QED
    BY <1>4, <2>1, ServeQuietHeld
<1> QED
  BY <1>1, <1>2, <1>3, <1>4 DEF PartyStart

\* The call starts the goroutine of its ticket, unless redis refuses the mapping.
LEMMA MapHeld ==
  ASSUME Inv, Held, NEW p \in Players, QueueMap(p) \/ PartyMap(p)
  PROVE  Held'
<1>1. PICK t \in Tickets : t = call[p].ticket
  <2>1. call[p] \in Calls /\ call[p].op \in {"map", "partymap"}
    BY DEF QueueMap, PartyMap, Inv, CallsOK
  <2> QED
    BY <2>1, CallShape DEF Inv, CallsOK
<1>2. /\ UNCHANGED <<tickets, matches, job, settled, started, failed>>
      /\ faults \subseteq faults'
      /\ \A q \in Players \ {p} : call'[q] = call[q]
  BY FaultKept DEF QueueMap, PartyMap, Refused, Return, engine, published, Inv, CallsOK
<1>3. Ending /\ Tickets' = Tickets /\ QueueOK
  BY <1>2, NoEnding, EndingSame DEF Inv
<1>4. faults' # {} \/ \E q \in Players \cup {Nobody} : Watch(t, q)
  <2>1. CASE Fault("redis")
    BY <2>1, FaultKept DEF Inv
  <2>2. CASE QueueMap(p) /\ ~Fault("redis")
    BY <1>1, <2>2 DEF QueueMap, Refused
  <2>3. CASE PartyMap(p) /\ ~Fault("redis")
    <3>1. PICK q \in IF roster[call[p].party] = {} THEN {Nobody} ELSE roster[call[p].party] :
             Watch(t, q)
      BY <1>1, <2>3 DEF PartyMap, Refused
    <3>2. call[p] \in Calls /\ call[p].op = "partymap"
      BY <2>3 DEF PartyMap, Inv, CallsOK
    <3>3. call[p].party \in Parties
      BY <3>2, CallShape
    <3>4. q \in Players \cup {Nobody}
      BY <3>1, <3>3 DEF Inv, QueueOK, RosterOK
    <3> QED
      BY <3>1, <3>4
  <2> QED
    BY <2>1, <2>2, <2>3
<1>5. ASSUME NEW u \in Tickets, faults' = {} PROVE WatchOK(u)' \/ Left(u)
  <2>1. PICK q \in Players \cup {Nobody} : Watch(t, q)
    BY <1>4, <1>5
  <2>2. watch'[t].step = "wait" /\ \A v \in Tickets : v # t => watch'[v] = watch[v]
    BY <1>3, <2>1, WatchType
  <2>3. CASE u = t
    BY <2>2, <2>3 DEF WatchOK
  <2>4. CASE u # t
    BY <1>1, <1>2, <2>2, <2>4 DEF Left
  <2> QED
    BY <2>3, <2>4
<1> QED
  BY <1>2, <1>3, <1>5, StepHeld DEF LeftAlone

LEMMA ServeHeld ==
  ASSUME Inv, Held, NEW p \in Players, Serve(p)
  PROVE  Held'
<1>1. CASE ~QueueStart(p) /\ ~PartyStart(p) /\ ~QueueMap(p) /\ ~PartyMap(p)
  <2>1. call[p].op \notin {"map", "partymap"}
    BY <1>1 DEF Serve, CancelTicket, CancelUnmap, LeaveCancel, LeaveUnmap, Leave
  <2> QED
    BY <1>1, <2>1, ServeQuietHeld
<1> QED
  BY <1>1, QueueStartHeld, PartyStartHeld, MapHeld

\* A goroutine ends when its ticket has failed or its match is claimed.
LEMMA AttendHeld ==
  ASSUME Inv, Held, NEW t \in Tickets, Attend(t)
  PROVE  Held'
<1>1. /\ UNCHANGED <<tickets, matches, call, started>>
      /\ failed \subseteq failed' /\ faults \subseteq faults' /\ settled \subseteq settled'
  BY FaultKept DEF Attend, TrySettle, TellFailed, Unmap, Refused, engine, redis, published,
     Inv, CallsOK
<1>2. Ending /\ Tickets' = Tickets /\ QueueOK
  BY <1>1, NoEnding, EndingSame DEF Inv
<1>3. \A u \in Tickets : u # t => watch'[u] = watch[u]
  BY <1>2, WatchGoes DEF Attend, TrySettle, TellFailed, Unmap, Waiting, Finish
<1>4. \A m \in Matches : job[m].step = "remap" => job'[m] = job[m]
  <2>1. CASE TellFailed(t) \/ Unmap(t)
    BY <2>1 DEF TellFailed, Unmap
  <2>2. CASE TrySettle(t)
    <3>1. PICK m : m = tickets[t].match
      OBVIOUS
    <3>2. m \notin settled \/ job' = job
      BY <2>2, <3>1 DEF TrySettle, Refused
    <3>3. \A k \in Matches : k # m => job'[k] = job[k]
      BY <2>2, <3>1 DEF TrySettle, Refused, Inv, QueueOK, Matches
    <3>4. \A k \in Matches : k \notin settled => job[k].step = "none"
      BY DEF Inv, JobOK
    <3> QED
      BY <3>2, <3>3, <3>4
  <2> QED
    BY <2>1, <2>2 DEF Attend
<1>5. ASSUME NEW m \in Matches PROVE HeldOK(m)' \/ LeftAlone(m)
  <2>1. CASE TellFailed(t) \/ Unmap(t)
    BY <2>1 DEF TellFailed, Unmap, LeftAlone, redis
  <2>2. CASE TrySettle(t) /\ Fault("redis") /\ job' = job
    <3>1. faults' # {}
      BY <2>2, FaultKept DEF Inv
    <3> QED
      BY <2>2, <3>1 DEF LeftAlone
  <2>3. CASE TrySettle(t) /\ settled' = settled /\ job' = job
    BY <2>3 DEF LeftAlone
  <2>4. CASE /\ tickets[t].match \notin settled
             /\ settled' = settled \cup {tickets[t].match}
             /\ job' = [job EXCEPT ![tickets[t].match] =
                           [step |-> "admit", at |-> watch[t].at,
                            todo |-> TicketsOf(tickets[t].match)]]
    <3>1. CASE m = tickets[t].match
      <4>1. job'[m].step = "admit"
        BY <2>4, <3>1 DEF Inv, QueueOK, Matches
      <4> QED
        BY <4>1 DEF HeldOK
    <3>2. CASE m # tickets[t].match
      BY <2>4, <3>2 DEF LeftAlone, Inv, QueueOK, Matches
    <3> QED
      BY <3>1, <3>2
  <2> QED
    BY <2>1, <2>2, <2>3, <2>4 DEF Attend, TrySettle, Refused
<1>6. faults' = {} => WatchOK(t)'
  <2>1. SUFFICES ASSUME faults' = {} PROVE WatchOK(t)'
    OBVIOUS
  <2>2. WatchOK(t) /\ ~Fault("redis")
    BY <1>1, <2>1, FaultKept DEF Held, Inv
  <2>3. CASE TrySettle(t)
    <3>1. watch'[t].step = "done"
      BY <1>2, <2>3, WatchGoes DEF TrySettle, Waiting, Finish
    <3>2. tickets[t].match \in settled'
      BY <2>2, <2>3 DEF TrySettle, Refused
    <3> QED
      BY <1>1, <3>1, <3>2 DEF WatchOK
  <2>4. CASE TellFailed(t)
    <3>1. watch'[t].step = "unmap" /\ tickets[t].state = "failed"
      BY <1>2, <2>4, WatchGoes DEF TellFailed, Waiting
    <3> QED
      BY <1>1, <3>1 DEF WatchOK
  <2>5. CASE Unmap(t)
    <3>1. watch'[t].step = "done" /\ tickets[t].state = "failed"
      BY <1>2, <2>2, <2>5, WatchGoes DEF Unmap, Finish, WatchOK
    <3> QED
      BY <1>1, <3>1 DEF WatchOK
  <2> QED
    BY <2>3, <2>4, <2>5 DEF Attend
<1>7. \A u \in Tickets : u # t => Left(u)
  BY <1>1, <1>3, <1>4 DEF Left, Inv, CallsOK
<1> QED
  BY <1>1, <1>2, <1>5, <1>6, <1>7, StepHeld

\* A step of an admission that does not queue a ticket again.
LEMMA WorkHeld ==
  ASSUME Inv, Held, UNCHANGED <<tickets, matches, settled, call, watch>>,
         started \subseteq started', failed \subseteq failed', faults \subseteq faults',
         NEW m \in Matches, job[m].step # "remap", NEW j, job' = [job EXCEPT ![m] = j],
         HeldOK(m)'
  PROVE  Held'
<1>1. \A k \in Matches : k # m => job'[k] = job[k]
  OBVIOUS
<1>2. Ending
  BY NoEnding DEF Inv
<1> QED
  BY <1>1, <1>2, StepHeld DEF Left, LeftAlone

LEMMA EnterHeld ==
  ASSUME Inv, Held, NEW m \in Matches, Admit(m) \/ Link(m) \/ Publish(m) \/ Unlink(m)
  PROVE  Held'
<1>1. UNCHANGED <<tickets, matches, settled, call, watch, failed>>
  BY DEF Admit, Link, Publish, Unlink, engine, redis, published
<1>2. started \subseteq started' /\ faults \subseteq faults'
  BY FaultKept DEF Admit, Link, Publish, Unlink, Reaches, published, Inv
<1>3. job[m].step \in Entering /\ job[m].todo = TicketsOf(m)
  BY DEF Admit, Link, Publish, Unlink, At, Entering, Inv, JobOK
<1>4. \E step \in {"link", "publish", "unlink", "requeue"} :
         Goto(m, step) \/ (Goto(m, "done") /\ m \in started')
  BY DEF Admit, Link, Publish, Unlink
<1>5. PICK j \in Admission : /\ job' = [job EXCEPT ![m] = j] /\ job'[m] = j
                             /\ j.todo = job[m].todo
                             /\ \/ j.step \in {"link", "publish", "unlink", "requeue"}
                                \/ j.step = "done" /\ m \in started'
  BY <1>3, <1>4, GotoGoes DEF Inv, Entering
<1>6. HeldOK(m)'
  BY <1>1, <1>3, <1>5 DEF HeldOK, Disposed, TicketsOf
<1> QED
  BY <1>1, <1>2, <1>3, <1>5, <1>6, WorkHeld DEF Entering

\* The failure of a ticket is published before it is passed.
LEMMA NextHeld ==
  ASSUME Inv, NEW m \in Matches, NEW t, Working(m, t), NextTicket(m, t),
         UNCHANGED <<tickets, matches, settled, started>>, HeldOK(m),
         failed \subseteq failed', t \in failed'
  PROVE  HeldOK(m)'
<1> DEFINE c == job[m]
           step == IF c.todo = {t} THEN "done" ELSE "requeue"
<1>1. PICK j \in Admission : job' = [job EXCEPT ![m] = j] /\ j.step \in {"requeue", "done"}
  BY NextGoes
<1>2. /\ job[m].todo \in SUBSET Nat /\ t \in job[m].todo /\ m \in settled
      /\ job[m].todo \subseteq TicketsOf(m)
  <2>1. JobOK(m)
    BY DEF Inv
  <2>2. job[m].todo \subseteq TicketsOf(m)
    BY <2>1 DEF JobOK, Working
  <2> QED
    BY <2>2, AtTicket
<1>3. PICK s, a, o : job[m] = [step |-> s, at |-> a, todo |-> o]
  <2>1. job[m] \in Admission /\ job[m].step \in {"requeue", "remap"}
    BY DEF Inv, QueueOK, Matches, Working
  <2>2. job[m] = [step |-> job[m].step, at |-> job[m].at, todo |-> job[m].todo]
    BY <2>1 DEF Admission
  <2> QED
    BY <2>2
<1>4. /\ job'[m].todo = job[m].todo \ {t}
      /\ job'[m].step = IF job[m].todo = {t} THEN "done" ELSE "requeue"
  BY <1>3 DEF NextTicket, Inv, QueueOK, Matches
<1>5. TicketsOf(m)' = TicketsOf(m)
  BY DEF TicketsOf
<1>6. TicketsOf(m) \ job[m].todo \subseteq failed
  BY DEF HeldOK, Working
<1> QED
  BY <1>2, <1>4, <1>5, <1>6 DEF HeldOK, Disposed

LEMMA RequeueHeld ==
  ASSUME Inv, Held, NEW m \in Matches, Requeue(m)
  PROVE  Held'
<1>1. PICK t : t = Min(job[m].todo)
  OBVIOUS
<1>2. PICK old : old = tickets[t]
  OBVIOUS
<1>3. /\ UNCHANGED <<matches, settled, call, started>>
      /\ failed' = failed \cup {t}
  BY <1>1 DEF Requeue, redis
<1>4. Working(m, t) /\ job[m].step = "requeue" /\ HeldOK(m)
  BY <1>1 DEF Requeue, At, Working, Held
<1>5. CASE /\ old.count < MaxRequeue /\ Start(old.players, old.party, old.count + 1, t)
           /\ Goto(m, "remap") /\ UNCHANGED faults
  <2>1. PICK n : n = Len(tickets) + 1
    OBVIOUS
  <2>2. Startable(old.players, old.party, old.count + 1, t)
    BY <1>2, <1>4, <1>5, AgainStartable
  <2>3. PICK j \in Admission : /\ job' = [job EXCEPT ![m] = j] /\ job'[m] = j
                               /\ j.step = "remap" /\ j.todo = job[m].todo
    BY <1>4, <1>5, GotoGoes DEF Inv
  <2>4. /\ Matches' = Matches /\ tickets'[n].from = t /\ n \in Tickets'
        /\ TicketsOf(m)' = TicketsOf(m)
    <3>1. /\ tickets'[n] = NewTicket(old.players, old.party, old.count + 1, t)
          /\ Tickets' = Tickets \cup {n} /\ Matches' = Matches
      BY <1>3, <1>5, <2>1, <2>2, StartShape DEF Inv
    <3>2. TicketsOf(m)' = TicketsOf(m)
      BY <1>3 DEF TicketsOf
    <3> QED
      BY <3>1, <3>2 DEF NewTicket
  <2>5. Awaited(n)'
    BY <1>1, <2>3, <2>4 DEF Awaited, At
  <2>6. HeldOK(m)'
    <3>1. job'[m].step = "remap" /\ job'[m].todo = job[m].todo /\ Min(job'[m].todo) \in failed'
      BY <1>1, <1>3, <2>3
    <3> QED
      BY <1>3, <1>4, <2>4, <3>1 DEF HeldOK
  <2>7. \A k \in Matches : k # m => job'[k] = job[k]
    BY <2>3
  <2> QED
    BY <1>3, <1>4, <1>5, <2>1, <2>2, <2>5, <2>6, <2>7, StartHeld
<1>6. CASE NextTicket(m, t) /\ UNCHANGED <<tickets, watch>>
  <2>1. HeldOK(m)'
    BY <1>3, <1>4, <1>6, NextHeld
  <2>2. PICK j \in Admission : job' = [job EXCEPT ![m] = j]
    BY <1>3, <1>4, <1>6, NextGoes
  <2>3. faults \subseteq faults'
    BY FaultKept DEF Requeue, Inv
  <2> QED
    BY <1>3, <1>4, <1>6, <2>1, <2>2, <2>3, WorkHeld
<1> QED
  BY <1>1, <1>2, <1>5, <1>6 DEF Requeue

\* The goroutine of the new ticket is started.
LEMMA RemapHeld ==
  ASSUME Inv, Held, NEW m \in Matches, Remap(m)
  PROVE  Held'
<1>1. PICK t : t = Min(job[m].todo)
  OBVIOUS
<1>2. PICK new : new = CHOOSE n \in Tickets : tickets[n].from = t
  OBVIOUS
<1>3. UNCHANGED <<tickets, matches, settled, call, started, failed>> /\ faults \subseteq faults'
  BY FaultKept DEF Remap, Reaches, engine, published, Inv
<1>4. Working(m, t) /\ job[m].step = "remap" /\ HeldOK(m) /\ NextTicket(m, t)
  BY <1>1 DEF Remap, At, Working, Held
<1>5. new \in Tickets /\ tickets[new].from = t /\ t # 0
  <2>1. \E u \in Tickets : tickets[u].from = t
    BY <1>1, <1>4 DEF Inv, JobOK
  <2> QED
    BY <1>2, <1>4, <2>1, AtTicket
<1>6. /\ watch'[new].step = "wait"
      /\ \A u \in Tickets : u # new => watch'[u] = watch[u]
  <2>1. PICK p : watch' = [watch EXCEPT ![CHOOSE n \in Tickets : tickets[n].from = Min(job[m].todo)] =
                              [step |-> "wait", at |-> job[m].at, player |-> p]]
    BY DEF Remap
  <2>2. watch' = [watch EXCEPT ![new] = [step |-> "wait", at |-> job[m].at, player |-> p]]
    BY <1>1, <1>2, <2>1
  <2>3. new \in DOMAIN watch
    BY <1>5 DEF Inv, QueueOK, Tickets
  <2> QED
    BY <2>2, <2>3
<1>7. HeldOK(m)'
  <2>1. t \in failed
    BY <1>1, <1>4 DEF HeldOK
  <2> QED
    BY <1>3, <1>4, <2>1, NextHeld
<1>8. PICK j \in Admission : job' = [job EXCEPT ![m] = j]
  BY <1>3, <1>4, NextGoes
<1>9. \A k \in Matches : k # m => job'[k] = job[k]
  BY <1>8
<1>10. Ending /\ Tickets' = Tickets
  BY <1>3, NoEnding, EndingSame DEF Inv
<1>11. ASSUME NEW u \in Tickets PROVE WatchOK(u)' \/ Left(u)
  <2>1. CASE u = new
    BY <1>6, <2>1 DEF WatchOK
  <2>2. CASE u # new
    <3>1. tickets[u].from # t
      BY <1>5, <2>2 DEF Inv, Once
    <3>2. \A k \in Matches : job[k].step = "remap" /\ tickets[u].from = Min(job[k].todo) =>
                               job'[k] = job[k]
      BY <1>1, <1>9, <3>1
    <3> QED
      BY <1>3, <1>6, <2>2, <3>2 DEF Left
  <2> QED
    BY <2>1, <2>2
<1> QED
  BY <1>3, <1>7, <1>9, <1>10, <1>11, StepHeld DEF LeftAlone

\* A new match is not claimed yet.
LEMMA TickHeld ==
  ASSUME Inv, Held, Tick
  PROVE  Held'
<1>1. UNCHANGED <<redis, watch, call, faults, published>>
  BY DEF Tick
<1>2. PICK formed : Rounded(formed)
  BY TickRounded
<1>3. /\ Tickets' = Tickets /\ Matches \subseteq Matches'
      /\ \A m \in Matches : TicketsOf(m)' = TicketsOf(m) /\ job'[m] = job[m]
      /\ \A m \in Matches' \ Matches : job'[m].step = "none"
      /\ \A t \in Tickets : /\ tickets'[t].from = tickets[t].from
                            /\ \/ tickets[t].state = "searching"
                               \/ tickets'[t] = tickets[t]
  <2>1. PICK n, l : n = Len(matches) /\ l = Len(formed)
    OBVIOUS
  <2>2. RoundShape(formed, n, l)
    BY <1>2, <2>1, RoundedShape
  <2>3. ASSUME NEW m \in Matches' \ Matches PROVE job'[m].step = "none"
    <3>1. m - n \in 1..l /\ m = n + (m - n)
      BY <2>2 DEF RoundShape
    <3> QED
      BY <2>2, <3>1 DEF RoundShape
  <2>4. \A t \in Tickets : tickets'[t].from = tickets[t].from
    BY <1>2 DEF Rounded
  <2> QED
    BY <2>2, <2>3, <2>4 DEF RoundShape
<1>4. ASSUME NEW m \in Matches' PROVE HeldOK(m)'
  <2>1. CASE m \in Matches
    <3>1. HeldOK(m)
      BY <2>1 DEF Held
    <3> QED
      BY <1>1, <1>3, <2>1, <3>1, HeldKept DEF redis, published
  <2>2. CASE m \notin Matches
    <3>1. m \notin settled' /\ job'[m].step = "none"
      BY <1>1, <1>3, <2>2 DEF redis, Inv, RedisOK
    <3> QED
      BY <3>1 DEF HeldOK
  <2> QED
    BY <2>1, <2>2
<1>5. ASSUME NEW t \in Tickets, faults' = {} PROVE WatchOK(t)'
  <2>1. WatchOK(t) /\ QueueOK
    BY <1>1, <1>5 DEF Held, Inv
  <2>2. Awaited(t) => Awaited(t)'
    BY <1>1, <1>3, AwaitedOn
  <2>3. watch[t].step = "done" => tickets[t].state # "searching"
    BY <2>1, DoneEnded
  <2> QED
    BY <1>1, <1>3, <2>1, <2>2, <2>3, WatchedOn DEF redis
<1> QED
  BY <1>3, <1>4, <1>5 DEF Held

LEMMA CrashHeld ==
  ASSUME Inv, Held, NEW i \in Instances, Crash(i)
  PROVE  Held'
<1>1. UNCHANGED <<tickets, matches, settled, started, failed>>
  BY DEF Crash, engine, redis, published
<1>2. faults' # {} /\ faults \subseteq faults'
  BY FaultKept DEF Crash, Inv
<1>3. \A m \in Matches : \/ job'[m] = job[m] \/ job'[m].step = "lost"
  BY DEF Crash
<1>4. ASSUME NEW m \in Matches PROVE HeldOK(m)' \/ LeftAlone(m)
  BY <1>1, <1>2, <1>3 DEF HeldOK, LeftAlone
<1>5. Ending
  BY <1>1, NoEnding DEF Inv
<1> QED
  BY <1>1, <1>2, <1>4, <1>5, StepHeld

LEMMA HeldAlways == Spec => [](Inv /\ Held)
<1>1. Init => Inv /\ Held
  BY InitOK DEF Init, Held, Tickets, Matches
<1>2. Inv /\ Held /\ [Next]_vars => (Inv /\ Held)'
  <2> SUFFICES ASSUME Inv, Held, [Next]_vars PROVE Held'
    BY NextKeeps
  <2>1. CASE TimeOut
    <3>1. Ending /\ UNCHANGED <<redis, watch, job, call, faults, published>>
      BY <2>1, TimeOutEnding DEF Inv, TimeOut
    <3> QED
      BY <3>1, StepHeld DEF Left, LeftAlone, redis, published
  <2>2. CASE UNCHANGED vars
    <3>1. Ending /\ UNCHANGED <<redis, watch, job, call, faults, published>>
      BY <2>2, NoEnding DEF vars, engine, Inv
    <3> QED
      BY <3>1, StepHeld DEF Left, LeftAlone, redis, published
  <2>3. ASSUME NEW m \in Matches, Work(m) PROVE Held'
    BY <2>3, EnterHeld, RequeueHeld, RemapHeld DEF Work
  <2> QED
    BY <2>1, <2>2, <2>3, TickHeld, AskHeld, ServeHeld, AttendHeld, CrashHeld DEF Next
<1> QED
  BY <1>1, <1>2, PTL DEF Spec

\* What is held is disposed of, in hand, or lost by a fault.
LEMMA NothingForgotten ==
  ASSUME Inv, Held, NEW m \in Matches
  PROVE  Disposed(m) \/ InHand(m) \/ Lost(m)
<1>1. HeldOK(m) /\ MatchOK(m) /\ JobOK(m)
  BY DEF Inv, Held
<1>2. CASE m \in settled
  BY <1>1, <1>2 DEF HeldOK, InHand, Admitting, Lost
<1>3. CASE m \notin settled /\ faults # {}
  BY <1>3 DEF InHand, Lost
<1>4. CASE m \notin settled /\ faults = {}
  <2>1. PICK t \in TicketsOf(m) : t \in Tickets /\ tickets[t].match = m
    BY <1>1 DEF MatchOK
  <2>2. tickets[t].state = "completed"
    BY <2>1 DEF Inv, TicketOK, QueueOK, Matches
  <2>3. WatchOK(t) /\ watch[t] \in Goroutine
    BY <1>4, <2>1 DEF Held, Inv, QueueOK, Tickets
  <2>4. watch[t].step \in {"none", "lost", "wait", "unmap", "done"}
    BY <2>3 DEF Goroutine
  <2>5. Watched(t)
    BY <1>4, <2>1, <2>2, <2>3, <2>4 DEF WatchOK, Watched
  <2> QED
    BY <1>4, <2>5 DEF InHand
<1> QED
  BY <1>2, <1>3, <1>4

\* A ticket of a published match is never queued again, no ticket is queued
\* again twice, and no match is forgotten: until its start or the failure of each of its
\* tickets is published it is being admitted or somebody will claim it, unless a fault has
\* lost it (the safety half of MatchesDisposed).
THEOREM MatchOutcome == Spec => []OneOutcome
<1>1. ASSUME Inv, Held PROVE OneOutcome
  <2>1. ASSUME NEW t \in Tickets, tickets[t].from # 0
        PROVE  /\ tickets[tickets[t].from].match \notin started
               /\ \A u \in Tickets \ {t} : tickets[u].from # tickets[t].from
    BY <1>1, <2>1 DEF Inv, LineOK, Once
  <2>2. \A m \in Matches : Disposed(m) \/ InHand(m) \/ Lost(m)
    BY <1>1, NothingForgotten
  <2> QED
    BY <2>1, <2>2 DEF OneOutcome
<1> QED
  BY <1>1, HeldAlways, PTL
-------------------------------------------------------------------------------
(* The steps, as the tickets and the calls see them *)

SomeoneAsks(p) == calls' = calls + 1 /\ Asking' \subseteq Asking \cup {p}
CallStarts(p, players, party) ==
    /\ p \in Asking /\ Asking' \subseteq Asking \ {p} /\ calls' = calls /\ matches' = matches
    /\ Startable(players, party, 0, 0) /\ Start(players, party, 0, 0)
StartsAgain(t, players, party) ==
    /\ t \in Tickets /\ t # 0 /\ calls' = calls /\ matches' = matches /\ Asking' = Asking
    /\ Startable(players, party, tickets[t].count + 1, t)
    /\ Start(players, party, tickets[t].count + 1, t)

Steps ==
    \/ Ending /\ calls' = calls /\ Asking' \subseteq Asking
    \/ Ending /\ \E p \in Players : SomeoneAsks(p)
    \/ Tick
    \/ \E p \in Players : \E players, party : CallStarts(p, players, party)
    \/ \E t, players, party : StartsAgain(t, players, party)

LEMMA CallChanges ==
  ASSUME CallsOK, NEW p \in Players, NEW c, call' = [call EXCEPT ![p] = c]
  PROVE  /\ Asking' \subseteq Asking \cup {p}
         /\ c.op \notin {"queue", "party"} => Asking' \subseteq Asking \ {p}
BY DEF CallsOK, Asking

\* A call goes on that does not ask for a ticket, and no ticket is made.
LEMMA QuietSteps ==
  ASSUME Inv, Ending, calls' = calls, NEW p \in Players, NEW c, c.op \notin {"queue", "party"},
         call' = [call EXCEPT ![p] = c]
  PROVE  Steps
<1>1. Asking' \subseteq Asking \ {p}
  BY CallChanges DEF Inv
<1> QED
  BY <1>1 DEF Steps

LEMMA ReturnSteps ==
  ASSUME Inv, UNCHANGED <<tickets, matches, calls>>, NEW p \in Players, Return(p)
  PROVE  Steps
<1>1. Ending
  BY NoEnding DEF Inv
<1>2. Idle.op \notin {"queue", "party"} /\ call' = [call EXCEPT ![p] = Idle]
  BY DEF Idle, Return
<1> HIDE DEF Idle
<1> QED
  BY <1>1, <1>2, QuietSteps

LEMMA AskSteps ==
  ASSUME Inv, NEW p \in Players, Ask(p)
  PROVE  Ending /\ SomeoneAsks(p)
<1>1. UNCHANGED <<tickets, matches>>
  BY DEF Ask, QueueMatch, CancelMatch, JoinParty, QueueParty, LeaveParty, engine
<1>2. ASSUME NEW c, Begin(p, c) PROVE SomeoneAsks(p)
  <2>1. call' = [call EXCEPT ![p] = c] /\ calls' = calls + 1
    BY <1>2 DEF Begin
  <2>2. Asking' \subseteq Asking \cup {p}
    BY <2>1, CallChanges DEF Inv
  <2> QED
    BY <2>1, <2>2 DEF SomeoneAsks
<1>3. ASSUME NEW g \in Parties, JoinParty(p, g) PROVE SomeoneAsks(p)
  BY <1>3 DEF JoinParty, SomeoneAsks, Asking
<1>4. (\E c : Begin(p, c)) \/ \E g \in Parties : JoinParty(p, g)
  BY DEF Ask, QueueMatch, CancelMatch, QueueParty, LeaveParty
<1> QED
  BY <1>1, <1>2, <1>3, <1>4, NoEnding DEF Inv

LEMMA QueueStartSteps ==
  ASSUME Inv, NEW p \in Players, QueueStart(p)
  PROVE  Steps
<1>1. CASE /\ Start({p}, NoParty, 0, 0)
           /\ call' = [call EXCEPT ![p] = [op |-> "map", ticket |-> Len(tickets) + 1]]
  <2>1. p \in Asking
    BY DEF QueueStart, Asking
  <2>2. Asking' \subseteq Asking \ {p}
    <3>1. PICK c : c = [op |-> "map", ticket |-> Len(tickets) + 1]
      OBVIOUS
    <3>2. call' = [call EXCEPT ![p] = c] /\ c.op \notin {"queue", "party"}
      BY <1>1, <3>1
    <3> QED
      BY <3>2, CallChanges DEF Inv
  <2>3. CallStarts(p, {p}, NoParty)
    BY <1>1, <2>1, <2>2, SoloStartable DEF CallStarts, QueueStart
  <2> QED
    BY <2>3 DEF Steps
<1>2. CASE UNCHANGED tickets /\ Return(p)
  BY <1>2, ReturnSteps DEF QueueStart
<1> QED
  BY <1>1, <1>2 DEF QueueStart, Refused

LEMMA PartyStartSteps ==
  ASSUME Inv, NEW p \in Players, PartyStart(p)
  PROVE  Steps
<1>1. PICK g : g = call[p].party
  OBVIOUS
<1>2. CASE /\ roster[g] # {} /\ Start(roster[g], g, 0, 0)
           /\ call' = [call EXCEPT ![p] =
                          [op |-> "partymap", party |-> g, ticket |-> Len(tickets) + 1]]
  <2>1. p \in Asking
    BY DEF PartyStart, Asking
  <2>2. Asking' \subseteq Asking \ {p}
    <3>1. PICK c : c = [op |-> "partymap", party |-> g, ticket |-> Len(tickets) + 1]
      OBVIOUS
    <3>2. call' = [call EXCEPT ![p] = c] /\ c.op \notin {"queue", "party"}
      BY <1>2, <3>1
    <3> QED
      BY <3>2, CallChanges DEF Inv
  <2>3. CallStarts(p, roster[g], g)
    BY <1>1, <1>2, <2>1, <2>2, PartyStartable DEF CallStarts, PartyStart
  <2> QED
    BY <2>3 DEF Steps
<1>3. CASE UNCHANGED tickets /\ Return(p)
  BY <1>3, ReturnSteps DEF PartyStart
<1> QED
  BY <1>1, <1>2, <1>3 DEF PartyStart, Refused

LEMMA ServeSteps ==
  ASSUME Inv, NEW p \in Players, Serve(p)
  PROVE  Steps
<1>1. CASE QueueMap(p) \/ CancelUnmap(p) \/ PartyMap(p) \/ Leave(p)
  <2>1. UNCHANGED <<tickets, matches, calls>> /\ Return(p)
    BY <1>1 DEF QueueMap, CancelUnmap, PartyMap, Leave, engine
  <2> QED
    BY <2>1, ReturnSteps
<1>2. CASE CancelTicket(p)
  <2>1. Ending /\ calls' = calls
    BY <1>2, NoEnding, CancelledEnding DEF CancelTicket, Inv
  <2>2. \E c : call' = [call EXCEPT ![p] = c] /\ c.op \notin {"queue", "party"}
    BY <1>2 DEF CancelTicket, Return, Idle
  <2> QED
    BY <2>1, <2>2, QuietSteps
<1>3. CASE LeaveCancel(p) \/ LeaveUnmap(p)
  <2>1. Ending /\ calls' = calls
    BY <1>3, NoEnding, CancelledEnding DEF LeaveCancel, LeaveUnmap, Refused, engine, Inv
  <2>2. PICK c \in Calls : call' = [call EXCEPT ![p] = c] /\ c.op \notin {"map", "partymap"}
    BY <1>3, LeaveGoes DEF LeaveCancel, LeaveUnmap
  <2>3. c.op \in {"leaveunmap", "leave"}
    <3>1. call'[p].op \in {"leaveunmap", "leave"}
      <4>1. PICK op \in {"leaveunmap", "leave"} :
               call[p].op \in {"leavecancel", "leaveunmap"} /\ call' = [call EXCEPT ![p].op = op]
        BY <1>3 DEF LeaveCancel, LeaveUnmap
      <4>2. call[p] \in Calls
        BY DEF Inv, CallsOK
      <4>3. call[p] = [op |-> call[p].op, party |-> call[p].party, ticket |-> call[p].ticket]
        BY <4>1, <4>2, CallShape
      <4>4. PICK o, g, t : call[p] = [op |-> o, party |-> g, ticket |-> t]
        BY <4>3
      <4>5. call'[p] = [op |-> op, party |-> g, ticket |-> t]
        BY <4>1, <4>4 DEF Inv, CallsOK
      <4> QED
        BY <4>1, <4>5
    <3> QED
      BY <2>2, <3>1 DEF Inv, CallsOK
  <2> QED
    BY <2>1, <2>2, <2>3, QuietSteps
<1> QED
  BY <1>1, <1>2, <1>3, QueueStartSteps, PartyStartSteps DEF Serve

LEMMA AttendSteps ==
  ASSUME Inv, NEW t \in Tickets, Attend(t)
  PROVE  Steps
<1>1. UNCHANGED <<tickets, matches, calls, call>>
  BY DEF Attend, TrySettle, TellFailed, Unmap, engine
<1> QED
  BY <1>1, NoEnding DEF Inv, Steps, Asking

LEMMA WorkSteps ==
  ASSUME Inv, NEW m \in Matches, Work(m)
  PROVE  Steps
<1>1. CASE UNCHANGED <<tickets, matches, calls, call>>
  BY <1>1, NoEnding DEF Inv, Steps, Asking
<1>2. CASE Requeue(m)
  <2>1. PICK t : t = Min(job[m].todo)
    OBVIOUS
  <2>2. PICK old : old = tickets[t]
    OBVIOUS
  <2>3. UNCHANGED <<matches, call, calls>> /\ Working(m, t) /\ job[m].step = "requeue"
    BY <1>2, <2>1 DEF Requeue, At, Working
  <2>4. CASE old.count < MaxRequeue /\ Start(old.players, old.party, old.count + 1, t)
    <3>1. StartsAgain(t, old.players, old.party)
      BY <2>2, <2>3, <2>4, AgainStartable DEF StartsAgain, Asking
    <3> QED
      BY <3>1 DEF Steps
  <2>5. CASE UNCHANGED tickets
    BY <1>1, <2>3, <2>5
  <2> QED
    BY <1>2, <2>1, <2>2, <2>4, <2>5 DEF Requeue
<1>3. CASE ~Requeue(m)
  <2>1. UNCHANGED <<tickets, matches, calls, call>>
    BY <1>3 DEF Work, Admit, Link, Publish, Unlink, Remap, engine
  <2> QED
    BY <1>1, <2>1
<1> QED
  BY <1>2, <1>3

LEMMA NextSteps ==
  ASSUME Inv, [Next]_vars
  PROVE  Steps
<1>1. CASE TimeOut
  BY <1>1, TimeOutEnding DEF Inv, TimeOut, Steps, Asking
<1>2. ASSUME NEW i \in Instances, Crash(i) PROVE Steps
  <2>1. UNCHANGED <<tickets, matches, calls>>
    BY <1>2 DEF Crash, engine
  <2>2. Asking' \subseteq Asking
    BY <1>2 DEF Crash, Asking, Idle
  <2> QED
    BY <2>1, <2>2, NoEnding DEF Inv, Steps
<1>3. CASE UNCHANGED vars
  BY <1>3, NoEnding DEF Inv, Steps, Asking, vars, engine
<1>4. CASE Tick
  BY <1>4 DEF Steps
<1>5. ASSUME NEW p \in Players, Ask(p) PROVE Steps
  BY <1>5, AskSteps DEF Steps
<1> QED
  BY <1>1, <1>2, <1>3, <1>4, <1>5, ServeSteps, AttendSteps, WorkSteps DEF Next
-------------------------------------------------------------------------------
(* Fair matches *)

\* The tickets that there are keep their players, their count and their origin.
LEMMA StepsKeep ==
  ASSUME Inv, Steps
  PROVE  /\ Tickets \subseteq Tickets'
         /\ \A t \in Tickets : /\ tickets'[t].players = tickets[t].players
                               /\ tickets'[t].count = tickets[t].count
                               /\ tickets'[t].from = tickets[t].from
         /\ matches' = matches \/ \E formed : Rounded(formed)
<1>1. CASE Ending
  BY <1>1, EndingSame DEF Inv, Ending
<1>2. CASE Tick
  <2>1. PICK formed : Rounded(formed)
    BY <1>2, TickRounded
  <2>2. /\ Tickets \subseteq Tickets'
        /\ \A t \in Tickets : /\ tickets'[t].players = tickets[t].players
                              /\ tickets'[t].count = tickets[t].count
                              /\ tickets'[t].from = tickets[t].from
    BY <2>1 DEF Rounded, Tickets, Inv, QueueOK
  <2> QED
    BY <2>1, <2>2
<1>3. ASSUME NEW players, NEW party, NEW count, NEW from, Startable(players, party, count, from),
             Start(players, party, count, from), matches' = matches
      PROVE  Tickets \subseteq Tickets' /\ \A t \in Tickets : tickets'[t] = tickets[t]
  <2>1. /\ Tickets' = Tickets \cup {Len(tickets) + 1}
        /\ \A t \in Tickets : tickets'[t] = tickets[t] /\ watch'[t] = watch[t]
    BY <1>3, StartShape DEF Inv
  <2> QED
    BY <2>1
<1>4. ASSUME NEW p, NEW players, NEW party, CallStarts(p, players, party)
      PROVE  matches' = matches /\ Tickets \subseteq Tickets' /\ \A t \in Tickets : tickets'[t] = tickets[t]
  BY <1>3, <1>4 DEF CallStarts
<1>5. ASSUME NEW t, NEW players, NEW party, StartsAgain(t, players, party)
      PROVE  matches' = matches /\ Tickets \subseteq Tickets' /\ \A u \in Tickets : tickets'[u] = tickets[u]
  BY <1>3, <1>5 DEF StartsAgain
<1> QED
  BY <1>1, <1>2, <1>4, <1>5 DEF Steps

FairMatch(m) == matches[m].red \cap matches[m].blue = {} /\ FairSides(matches[m].red, matches[m].blue)
AllFair == \A m \in Matches : FairMatch(m)

LEMMA FairKept ==
  ASSUME Inv, AllFair, Steps
  PROVE  AllFair'
<1>1. /\ \A t \in Tickets : tickets'[t].players = tickets[t].players
      /\ matches' = matches \/ \E formed : Rounded(formed)
  BY StepsKeep
<1>2. ASSUME NEW ids \in SUBSET Tickets PROVE SideOf(ids)' = SideOf(ids)
  BY <1>1 DEF SideOf
<1>3. ASSUME NEW red \in SUBSET Tickets, NEW blue \in SUBSET Tickets, FairSides(red, blue)
      PROVE  FairSides(red, blue)'
  BY <1>2, <1>3 DEF FairSides
<1>4. ASSUME NEW m \in Matches, matches'[m] = matches[m] PROVE FairMatch(m)'
  <2>1. PICK red, blue : red = matches[m].red /\ blue = matches[m].blue
    OBVIOUS
  <2>2. red \in SUBSET Tickets /\ blue \in SUBSET Tickets /\ red \cap blue = {} /\ FairSides(red, blue)
    BY <2>1 DEF Inv, MatchOK, TicketsOf, AllFair, FairMatch
  <2>3. FairSides(red, blue)' /\ red = matches'[m].red /\ blue = matches'[m].blue
    BY <1>3, <1>4, <2>1, <2>2
  <2> QED
    BY <2>2, <2>3 DEF FairMatch, FairSides, SideOf
<1>5. CASE matches' = matches
  BY <1>4, <1>5 DEF AllFair, Matches
<1>6. ASSUME NEW formed, Rounded(formed) PROVE AllFair'
  <2>1. PICK n : n = Len(matches)
    OBVIOUS
  <2>2. /\ IsFormed(formed) /\ matches' = matches \o formed
    BY <1>6 DEF Rounded
  <2>3. /\ matches \in Seq(Match) /\ n \in Nat /\ Matches = 1..n /\ Searching \subseteq Tickets
        /\ Searching \subseteq Nat
    BY <2>1 DEF Inv, QueueOK, Matches, Searching, Tickets
  <2>4. formed \in Seq([red : SUBSET Searching, blue : SUBSET Searching])
    BY <2>2 DEF IsFormed
  <2>5. Len(formed) \in Nat
    BY <2>4
  <2>6. formed \in Seq(Match)
    <3> DEFINE T == [red : SUBSET Searching, blue : SUBSET Searching]
    <3>1. formed \in Seq(T)
      BY <2>4
    <3>2. T \subseteq Match
      BY <2>3 DEF Match
    <3> HIDE DEF T
    <3> QED
      BY <3>1, <3>2
  <2>7. /\ Matches' = 1..n + Len(formed)
        /\ \A m \in Matches : matches'[m] = matches[m]
        /\ \A k \in 1..Len(formed) : matches'[n + k] = formed[k]
    BY <2>1, <2>2, <2>3, <2>6, Joined DEF Matches
  <2>8. ASSUME NEW k \in 1..Len(formed), NEW m, m = n + k PROVE FairMatch(m)'
    <3>1. PICK red, blue : red = formed[k].red /\ blue = formed[k].blue
      OBVIOUS
    <3>2. red \cap blue = {} /\ FairSides(red, blue)
      BY <2>2, <3>1 DEF IsFormed
    <3>3. red \in SUBSET Tickets /\ blue \in SUBSET Tickets
      <4> DEFINE T == [red : SUBSET Searching, blue : SUBSET Searching]
      <4>1. formed \in Seq(T)
        BY <2>4
      <4>2. formed[k] \in T
        <5> HIDE DEF T
        <5> QED
          BY <4>1
      <4> QED
        BY <2>3, <3>1, <4>2
    <3>4. FairSides(red, blue)' /\ red = matches'[m].red /\ blue = matches'[m].blue
      BY <1>3, <2>7, <2>8, <3>1, <3>2, <3>3
    <3> QED
      BY <3>2, <3>4 DEF FairMatch, FairSides, SideOf
  <2>9. ASSUME NEW m \in Matches' PROVE FairMatch(m)'
    <3>1. CASE m \in Matches
      BY <1>4, <2>7, <3>1
    <3>2. CASE m \notin Matches
      <4>1. m - n \in 1..Len(formed) /\ m = n + (m - n)
        BY <2>3, <2>5, <2>7, <3>2
      <4> QED
        BY <2>8, <4>1
    <3> QED
      BY <3>1, <3>2
  <2> QED
    BY <2>9 DEF AllFair
<1> QED
  BY <1>1, <1>5, <1>6

\* A match that was formed is fair, and no ticket plays in two.
THEOREM MatchFair == Spec => []FairMatches
<1>1. ASSUME Init PROVE AllFair
  BY <1>1 DEF Init, AllFair, Matches
<1>2. ASSUME Inv, AllFair, [Next]_vars PROVE AllFair'
  BY <1>2, NextSteps, FairKept
<1>3. ASSUME Inv, AllFair PROVE FairMatches
  <2>1. ASSUME NEW m \in Matches, NEW n \in Matches \ {m} PROVE TicketsOf(m) \cap TicketsOf(n) = {}
    BY <1>3 DEF Inv, MatchOK
  <2>2. ASSUME NEW m \in Matches
        PROVE  LET red == matches[m].red
                   blue == matches[m].blue
               IN  /\ red \cap blue = {}
                   /\ MapThenSumSet(Size, SideOf(red)) = MapThenSumSet(Size, SideOf(blue))
                   /\ MapThenSumSet(Size, SideOf(red)) \in 1..MaxSide
                   /\ SideLevel(SideOf(red), MapThenSumSet(Size, SideOf(red)))
                         - SideLevel(SideOf(blue), MapThenSumSet(Size, SideOf(blue))) \in (-MaxGap)..MaxGap
    <3>1. PICK red, blue : red = matches[m].red /\ blue = matches[m].blue
      OBVIOUS
    <3>2. red \cap blue = {} /\ FairSides(red, blue)
      BY <1>3, <3>1 DEF AllFair, FairMatch
    <3>3. PICK n : n = MapThenSumSet(Size, SideOf(red))
      OBVIOUS
    <3>4. /\ n \in 1..MaxSide /\ MapThenSumSet(Size, SideOf(blue)) = n
          /\ SideLevel(SideOf(red), n) - SideLevel(SideOf(blue), n) \in (-MaxGap)..MaxGap
      BY <3>2, <3>3 DEF FairSides
    <3> QED
      BY <3>1, <3>2, <3>3, <3>4
  <2> QED
    BY <2>1, <2>2, Zenon DEF FairMatches, SideOf
<1> QED
  BY <1>1, <1>2, <1>3, InitOK, NextKeeps, PTL DEF Spec
-------------------------------------------------------------------------------
(* The lineage of the tickets *)

\* A ticket has been queued again at most MaxRequeue times.
LEMMA CountsBounded ==
  ASSUME Inv, NEW t \in Tickets
  PROVE  tickets[t].count \in 0..MaxRequeue /\ tickets[t].count \in Nat
<1>1. tickets[t] \in Ticket
  BY DEF Inv, QueueOK, Tickets
<1> QED
  BY <1>1, MatchAssumption DEF Ticket

\* No ticket is made.
LEMMA LineageSame ==
  ASSUME Inv, Tickets' = Tickets,
         \A t \in Tickets : tickets'[t].count = tickets[t].count /\ tickets'[t].from = tickets[t].from,
         calls' = calls, Asking' \subseteq Asking, Lineage
  PROVE  Lineage'
<1>1. PICK root \in [Tickets -> 1..calls], num \in [Players -> 0..calls] : Numbered(root, num)
  BY DEF Lineage
<1>2. Numbered(root, num)'
  BY <1>1 DEF Numbered
<1> QED
  BY <1>1, <1>2 DEF Lineage

\* A call that asks for a ticket has a number of its own.
LEMMA LineageAsks ==
  ASSUME Inv, Tickets' = Tickets,
         \A t \in Tickets : tickets'[t].count = tickets[t].count /\ tickets'[t].from = tickets[t].from,
         NEW p \in Players, SomeoneAsks(p), Lineage
  PROVE  Lineage'
<1>1. PICK root \in [Tickets -> 1..calls], num \in [Players -> 0..calls] : Numbered(root, num)
  BY DEF Lineage
<1>2. PICK c : c = calls
  OBVIOUS
<1>3. c \in Nat /\ calls' = c + 1 /\ Asking' \subseteq Asking \cup {p} /\ Asking \subseteq Players
  BY <1>2 DEF Inv, CallsOK, SomeoneAsks, Asking
<1>4. PICK new : new = [num EXCEPT ![p] = c + 1]
  OBVIOUS
<1>5. /\ root \in [Tickets' -> 1..c + 1] /\ new \in [Players -> 0..c + 1]
      /\ \A q \in Players : new[q] = IF q = p THEN c + 1 ELSE num[q]
      /\ \A t \in Tickets : root[t] \in 1..c
      /\ \A q \in Players : num[q] \in 0..c
  BY <1>1, <1>2, <1>3, <1>4
<1>6. Numbered(root, new)'
  <2>1. \A t, u \in Tickets : root[t] = root[u] /\ tickets[t].count = tickets[u].count => t = u
    BY <1>1 DEF Numbered
  <2>2. \A t \in Tickets : tickets[t].from # 0 => root[t] = root[tickets[t].from]
    BY <1>1 DEF Numbered
  <2>3. \A q \in Asking : num[q] # 0 /\ \A t \in Tickets : root[t] # num[q]
    BY <1>1 DEF Numbered
  <2>4. \A q, r \in Asking : num[q] = num[r] => q = r
    BY <1>1 DEF Numbered
  <2>5. \A q \in Asking' : new[q] # 0 /\ \A t \in Tickets : root[t] # new[q]
    BY <1>3, <1>5, <2>3
  <2>6. \A q, r \in Asking' : new[q] = new[r] => q = r
    BY <1>3, <1>5, <2>4
  <2> QED
    BY <2>1, <2>2, <2>5, <2>6 DEF Numbered
<1> QED
  BY <1>3, <1>5, <1>6 DEF Lineage

\* The ticket of a call has the number of the call.
LEMMA LineageStarts ==
  ASSUME Inv, NEW p \in Players, NEW players, NEW party, CallStarts(p, players, party), Lineage
  PROVE  Lineage'
<1>1. PICK root \in [Tickets -> 1..calls], num \in [Players -> 0..calls] : Numbered(root, num)
  BY DEF Lineage
<1>2. PICK n : n = Len(tickets) + 1
  OBVIOUS
<1>3. /\ Tickets' = Tickets \cup {n} /\ n \notin Tickets
      /\ tickets'[n] = NewTicket(players, party, 0, 0)
      /\ \A t \in Tickets : tickets'[t] = tickets[t]
  <2>1. /\ Tickets' = Tickets \cup {n} /\ n \notin Tickets
        /\ tickets'[n] = NewTicket(players, party, 0, 0)
        /\ \A t \in Tickets : tickets'[t] = tickets[t] /\ watch'[t] = watch[t]
    BY <1>2, StartShape DEF Inv, CallStarts
  <2> QED
    BY <2>1
<1>4. tickets'[n].count = 0 /\ tickets'[n].from = 0
  BY <1>3 DEF NewTicket
<1>5. p \in Asking /\ Asking' \subseteq Asking \ {p} /\ calls' = calls /\ calls \in Nat
  BY DEF CallStarts, Inv, CallsOK
<1>6. /\ num[p] \in 1..calls /\ \A t \in Tickets : root[t] # num[p]
      /\ \A q \in Asking : num[q] # 0 /\ \A t \in Tickets : root[t] # num[q]
      /\ \A q, r \in Asking : num[q] = num[r] => q = r
  BY <1>1, <1>5 DEF Numbered
<1>7. PICK new : new = [t \in Tickets' |-> IF t = n THEN num[p] ELSE root[t]]
  OBVIOUS
<1>8. /\ new \in [Tickets' -> 1..calls] /\ new[n] = num[p]
      /\ \A t \in Tickets : new[t] = root[t]
  BY <1>1, <1>3, <1>6, <1>7
<1>9. Numbered(new, num)'
  <2>1. \A t, u \in Tickets' : new[t] = new[u] /\ tickets'[t].count = tickets'[u].count => t = u
    BY <1>1, <1>3, <1>6, <1>8 DEF Numbered
  <2>2. ASSUME NEW t \in Tickets', tickets'[t].from # 0 PROVE new[t] = new[tickets'[t].from]
    <3>1. t \in Tickets /\ tickets'[t].from = tickets[t].from
      BY <1>3, <1>4, <2>2
    <3>2. tickets[t].from \in Tickets
      BY <2>2, <3>1 DEF Inv, LineOK, QueueOK, Tickets
    <3> QED
      BY <1>1, <1>8, <2>2, <3>1, <3>2 DEF Numbered
  <2>3. \A q \in Asking' : num[q] # 0 /\ \A t \in Tickets' : new[t] # num[q]
    BY <1>3, <1>5, <1>6, <1>8
  <2>4. \A q, r \in Asking' : num[q] = num[r] => q = r
    BY <1>5, <1>6
  <2> QED
    BY <2>1, <2>2, <2>3, <2>4 DEF Numbered
<1> QED
  BY <1>1, <1>5, <1>8, <1>9 DEF Lineage

\* A ticket queued again has the number of the ticket it replaces.
LEMMA LineageAgain ==
  ASSUME Inv, NEW o, NEW players, NEW party, StartsAgain(o, players, party), Lineage
  PROVE  Lineage'
<1>1. PICK root \in [Tickets -> 1..calls], num \in [Players -> 0..calls] : Numbered(root, num)
  BY DEF Lineage
<1>2. PICK n : n = Len(tickets) + 1
  OBVIOUS
<1>3. /\ Tickets' = Tickets \cup {n} /\ n \notin Tickets
      /\ tickets'[n] = NewTicket(players, party, tickets[o].count + 1, o)
      /\ \A t \in Tickets : tickets'[t] = tickets[t]
  <2>1. /\ Tickets' = Tickets \cup {n} /\ n \notin Tickets
        /\ tickets'[n] = NewTicket(players, party, tickets[o].count + 1, o)
        /\ \A t \in Tickets : tickets'[t] = tickets[t] /\ watch'[t] = watch[t]
    BY <1>2, StartShape DEF Inv, StartsAgain
  <2> QED
    BY <2>1
<1>4. tickets'[n].count = tickets[o].count + 1 /\ tickets'[n].from = o
  BY <1>3 DEF NewTicket
<1>5. o \in Tickets /\ o # 0 /\ Unqueued({o}) /\ Asking' = Asking /\ calls' = calls
  BY DEF StartsAgain, Startable
<1>6. PICK new : new = [t \in Tickets' |-> IF t = n THEN root[o] ELSE root[t]]
  OBVIOUS
<1>7. /\ new \in [Tickets' -> 1..calls] /\ new[n] = root[o]
      /\ \A t \in Tickets : new[t] = root[t]
  BY <1>1, <1>3, <1>5, <1>6
<1>8. ASSUME NEW t \in Tickets PROVE tickets[t].count \in Nat
  BY CountsBounded
<1>9. ASSUME NEW t \in Tickets, root[t] = root[o] PROVE tickets[t].count # tickets[o].count + 1
  <2>1. SUFFICES ASSUME tickets[t].count = tickets[o].count + 1 PROVE FALSE
    OBVIOUS
  <2>2. PICK f : f = tickets[t].from
    OBVIOUS
  <2>3. LineOK(t) /\ tickets[t].count # 0
    BY <1>5, <1>8, <2>1 DEF Inv
  <2>4. f # 0 /\ f \in Tickets /\ tickets[t].count = tickets[f].count + 1
    BY <2>2, <2>3 DEF LineOK, Inv, QueueOK, Tickets
  <2>5. root[f] = root[o] /\ tickets[f].count = tickets[o].count
    BY <1>1, <1>5, <1>8, <1>9, <2>1, <2>2, <2>4 DEF Numbered
  <2>6. f = o
    BY <1>1, <1>5, <2>4, <2>5 DEF Numbered
  <2> QED
    BY <1>5, <2>2, <2>6 DEF Unqueued
<1>10. Numbered(new, num)'
  <2>1. \A t, u \in Tickets' : new[t] = new[u] /\ tickets'[t].count = tickets'[u].count => t = u
    BY <1>1, <1>3, <1>4, <1>7, <1>9 DEF Numbered
  <2>2. ASSUME NEW t \in Tickets', tickets'[t].from # 0 PROVE new[t] = new[tickets'[t].from]
    <3>1. CASE t = n
      BY <1>4, <1>5, <1>7, <3>1
    <3>2. CASE t # n
      <4>1. t \in Tickets /\ tickets'[t].from = tickets[t].from
        BY <1>3, <3>2
      <4>2. tickets[t].from \in Tickets
        BY <2>2, <4>1 DEF Inv, LineOK, QueueOK, Tickets
      <4> QED
        BY <1>1, <1>7, <2>2, <4>1, <4>2 DEF Numbered
    <3> QED
      BY <3>1, <3>2
  <2>3. \A q \in Asking' : num[q] # 0 /\ \A t \in Tickets' : new[t] # num[q]
    BY <1>1, <1>3, <1>5, <1>7 DEF Numbered
  <2>4. \A q, r \in Asking' : num[q] = num[r] => q = r
    BY <1>1, <1>5 DEF Numbered
  <2> QED
    BY <2>1, <2>2, <2>3, <2>4 DEF Numbered
<1> QED
  BY <1>1, <1>5, <1>7, <1>10 DEF Lineage

LEMMA LineageKept ==
  ASSUME Inv, Lineage, Steps
  PROVE  Lineage'
<1>1. CASE Ending
  <2>1. /\ Tickets' = Tickets
        /\ \A t \in Tickets : tickets'[t].count = tickets[t].count /\ tickets'[t].from = tickets[t].from
    BY <1>1, EndingSame DEF Inv, Ending
  <2>2. \/ calls' = calls /\ Asking' \subseteq Asking
        \/ \E p \in Players : SomeoneAsks(p)
        \/ Tick
        \/ \E p \in Players : \E players, party : CallStarts(p, players, party)
        \/ \E t, players, party : StartsAgain(t, players, party)
    BY DEF Steps
  <2>3. CASE Tick
    BY <2>1, <2>3, LineageSame DEF Tick, Asking
  <2> QED
    BY <2>1, <2>2, <2>3, LineageSame, LineageAsks, LineageStarts, LineageAgain
<1>2. CASE Tick
  <2>1. PICK formed : Rounded(formed)
    BY <1>2, TickRounded
  <2>2. /\ Tickets' = Tickets
        /\ \A t \in Tickets : tickets'[t].count = tickets[t].count /\ tickets'[t].from = tickets[t].from
    BY <2>1 DEF Rounded, Tickets, Inv, QueueOK
  <2>3. calls' = calls /\ Asking' = Asking
    BY <1>2 DEF Tick, Asking
  <2> QED
    BY <2>2, <2>3, LineageSame
<1> QED
  BY <1>1, <1>2, LineageStarts, LineageAgain DEF Steps

LEMMA LineageAlways == Spec => []Lineage
<1>1. ASSUME Init PROVE Lineage
  <2>1. PICK root, num : root = [t \in {} |-> 1] /\ num = [p \in Players |-> 0]
    OBVIOUS
  <2>2. Tickets = {} /\ Asking = {} /\ calls = 0
    BY <1>1 DEF Init, Tickets, Asking, Idle
  <2>3. root \in [Tickets -> 1..calls] /\ num \in [Players -> 0..calls]
    BY <2>1, <2>2
  <2>4. Numbered(root, num)
    BY <2>2 DEF Numbered
  <2> QED
    BY <2>3, <2>4 DEF Lineage
<1>2. ASSUME Inv, Lineage, [Next]_vars PROVE Lineage'
  BY <1>2, NextSteps, LineageKept
<1> QED
  BY <1>1, <1>2, InitOK, NextKeeps, PTL DEF Spec

\* However matches fail, a call makes at most 1 + MaxRequeue tickets: of each
\* number there is at most one ticket of each count.
THEOREM MatchLineage == Spec => []LineageBounded
<1>1. ASSUME Inv, Lineage PROVE LineageBounded
  <2>1. PICK root \in [Tickets -> 1..calls], num \in [Players -> 0..calls] : Numbered(root, num)
    BY <1>1 DEF Lineage
  <2>2. PICK n : n = Len(tickets)
    OBVIOUS
  <2>3. PICK c : c = calls
    OBVIOUS
  <2>4. /\ n \in Nat /\ Tickets = 1..n /\ c \in 0..MaxCalls
        /\ \A t \in Tickets : tickets[t].count \in 0..MaxRequeue
    <3>1. Len(tickets) \in Nat /\ Tickets = 1..n /\ c \in 0..MaxCalls
      BY <1>1, <2>2, <2>3, MatchAssumption DEF Inv, QueueOK, CallsOK, Tickets
    <3> QED
      BY <1>1, <2>2, <3>1, CountsBounded
  <2> DEFINE A == 1..c
             B == 0..MaxRequeue
             f == [t \in Tickets |-> <<root[t], tickets[t].count>>]
  <2>5. f \in Injection(1..n, A \X B)
    <3>1. \A t \in Tickets : root[t] \in A /\ tickets[t].count \in B
      BY <2>1, <2>3, <2>4
    <3>2. f \in [1..n -> A \X B]
      BY <2>4, <3>1
    <3>3. ASSUME NEW t \in Tickets, NEW u \in Tickets, f[t] = f[u] PROVE t = u
      <4>1. root[t] = root[u] /\ tickets[t].count = tickets[u].count
        BY <3>3
      <4> QED
        BY <2>1, <4>1 DEF Numbered
    <3> HIDE DEF f
    <3> QED
      BY <2>4, <3>2, <3>3 DEF Injection, IsInjective
  <2>6. IsFiniteSet(A) /\ Cardinality(A) = c /\ IsFiniteSet(B) /\ Cardinality(B) = MaxRequeue + 1
    <3>1. ASSUME NEW a \in Int, NEW b \in Int PROVE IsFiniteSet(a..b) /\ Cardinality(a..b) = IF a > b THEN 0 ELSE b - a + 1
      BY FS_Interval
    <3>2. c \in Int /\ c >= 0 /\ MaxRequeue \in Int /\ MaxRequeue >= 0
      BY <2>4, MatchAssumption
    <3>3. IsFiniteSet(1..c) /\ Cardinality(1..c) = c
      BY <3>1, <3>2
    <3>4. IsFiniteSet(0..MaxRequeue) /\ Cardinality(0..MaxRequeue) = MaxRequeue + 1
      BY <3>1, <3>2
    <3> QED
      BY <3>3, <3>4
  <2>7. IsFiniteSet(A \X B) /\ Cardinality(A \X B) = c * (MaxRequeue + 1)
    <3> HIDE DEF A, B
    <3> QED
      BY <2>6, FS_Product
  <2>8. Cardinality(1..n) = n
    BY <2>4, FS_Interval
  <2>9. n <= c * (MaxRequeue + 1)
    <3> DEFINE T == A \X B
               S == 1..n
    <3>1. f \in Injection(S, T) /\ IsFiniteSet(T)
      BY <2>5, <2>7
    <3> HIDE DEF f, S, T
    <3>2. Cardinality(S) <= Cardinality(T)
      BY <3>1, FS_Injection
    <3> QED
      BY <2>7, <2>8, <3>2 DEF S, T
  <2>10. c * (MaxRequeue + 1) <= MaxCalls * (1 + MaxRequeue)
    <3>1. ASSUME NEW a \in Nat, NEW b \in Nat, NEW d \in Nat, a <= b PROVE a * d <= b * d
      <4>1. b * d = a * d + (b - a) * d /\ b - a \in Nat
        BY <3>1
      <4>2. (b - a) * d \in Nat /\ a * d \in Nat
        BY <4>1
      <4> QED
        BY <4>1, <4>2
    <3>2. c \in Nat /\ MaxCalls \in Nat /\ c <= MaxCalls /\ 1 + MaxRequeue \in Nat /\ MaxRequeue + 1 = 1 + MaxRequeue
      BY <2>4, MatchAssumption
    <3>3. PICK d : d = 1 + MaxRequeue
      OBVIOUS
    <3>4. c * d <= MaxCalls * d
      BY <3>1, <3>2, <3>3
    <3> QED
      BY <3>2, <3>3, <3>4, Zenon
  <2> QED
    BY <2>2, <2>4, <2>9, <2>10, MatchAssumption DEF LineageBounded, MaxTickets
<1> QED
  BY <1>1, Invariance, LineageAlways, PTL
===============================================================================
