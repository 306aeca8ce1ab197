------------------------- MODULE SkipListMap_proofs -------------------------
(***************************************************************************)
(* What SkipList is to its users: a traversal visits exactly the nodes that*)
(* were linked, put is an atomic operation on a map, and a single writer's *)
(* prev pointers invert the list.                                          *)
(***************************************************************************)
EXTENDS SkipList_proofs, FiniteSetTheorems, WellFoundedInduction

(***************************************************************************)
(* Sets of natural numbers have a least element, and a largest one if they *)
(* are bounded.                                                            *)
(***************************************************************************)
LessOnNat == {ss \in Nat \X Nat : ss[1] < ss[2]}

LEMMA LeastNatural ==
  ASSUME NEW S, S \subseteq Nat, S # {}
  PROVE  \E n \in S : \A m \in S : n <= m
<1>1. IsWellFoundedOn(LessOnNat, Nat)
  BY NatLessThanWellFounded DEF OpToRel, LessOnNat
<1>2. PICK n \in S : \A m \in S : <<m, n>> \notin LessOnNat
  BY <1>1, WFMin
<1>3. ASSUME NEW m \in S PROVE n <= m
  <2>1. <<m, n>> \in Nat \X Nat /\ m \in Nat /\ n \in Nat
    OBVIOUS
  <2>2. ~(m < n)
    BY <1>2, <2>1 DEF LessOnNat
  <2>3. QED
    BY <2>1, <2>2
<1>4. QED
  BY <1>3

LEMMA LargestNatural ==
  ASSUME NEW S, S \subseteq Nat, S # {}, NEW b \in Nat, \A n \in S : n <= b
  PROVE  \E n \in S : \A m \in S : m <= n
<1> DEFINE T == {b - n : n \in S}
<1>1. T \subseteq Nat /\ T # {}
  <2>1. \A n \in S : n \in Nat /\ b - n \in Nat
    OBVIOUS
  <2>2. QED
    BY <2>1
<1>2. PICK t \in T : \A u \in T : t <= u
  BY <1>1, LeastNatural
<1>3. PICK n \in S : t = b - n
  OBVIOUS
<1>4. ASSUME NEW m \in S PROVE m <= n
  <2>1. b - n <= b - m /\ m \in Nat /\ n \in Nat
    BY <1>2, <1>3
  <2>2. QED
    BY <2>1
<1>5. QED
  BY <1>4

(***************************************************************************)
(* A function can be applied again and again, any number of times.         *)
(***************************************************************************)
MapsTo(F, S) == F \in [S -> S]
Iteration(f, F, S, s, N) ==
  f \in [0 .. N -> S] /\ f[0] = s /\ \A d \in 1 .. N : f[d] = F[f[d - 1]]

LEMMA Iterates ==
  ASSUME NEW S, NEW s \in S, NEW F, MapsTo(F, S), NEW N \in Nat
  PROVE  \E f : Iteration(f, F, S, s, N)
<1>0. F \in [S -> S]
  BY DEF MapsTo
<1> DEFINE Path(f, n) == f[0] = s /\ \A d \in 1 .. n : f[d] = F[f[d - 1]]
           Bad == {n \in Nat : ~ \E f \in [0 .. n -> S] : Path(f, n)}
<1>1. 0 \notin Bad
  <2>1. [d \in 0 .. 0 |-> s] \in [0 .. 0 -> S] /\ Path([d \in 0 .. 0 |-> s], 0)
    OBVIOUS
  <2>2. QED
    BY <2>1
<1>2. ASSUME NEW n \in Nat, n \notin Bad PROVE n + 1 \notin Bad
  <2>1. PICK f \in [0 .. n -> S] : Path(f, n)
    BY <1>2
  <2> DEFINE g == [d \in 0 .. n + 1 |-> IF d = n + 1 THEN F[f[n]] ELSE f[d]]
  <2>2. \A d \in 0 .. n + 1 : d # n + 1 => d \in 0 .. n
    BY <1>2
  <2>3. f[n] \in S
    BY <1>2
  <2>4. g \in [0 .. n + 1 -> S]
    BY <1>0, <2>2, <2>3
  <2>5. g[0] = s
    BY <1>2, <2>1
  <2>6. ASSUME NEW d \in 1 .. n + 1 PROVE g[d] = F[g[d - 1]]
    <3>1. d - 1 \in 0 .. n /\ d - 1 # n + 1 /\ g[d - 1] = f[d - 1]
      BY <1>2
    <3>2. CASE d = n + 1
      BY <1>2, <3>1, <3>2
    <3>3. CASE d # n + 1
      <4>1. d \in 1 .. n /\ g[d] = f[d]
        BY <1>2, <3>3
      <4>2. QED
        BY <2>1, <3>1, <4>1
    <3>4. QED
      BY <3>2, <3>3
  <2> HIDE DEF g
  <2>7. QED
    BY <1>2, <2>4, <2>5, <2>6
<1>3. Bad = {}
  <2> SUFFICES ASSUME Bad # {} PROVE FALSE
    OBVIOUS
  <2> HIDE DEF Path
  <2>1. PICK n \in Bad : \A m \in Bad : n <= m
    BY LeastNatural
  <2>2. n \in Nat /\ n # 0
    BY <1>1
  <2>3. n - 1 \in Nat /\ n - 1 \notin Bad
    BY <2>1, <2>2
  <2>4. (n - 1) + 1 \notin Bad
    BY <1>2, <2>3
  <2>5. (n - 1) + 1 = n
    BY <2>2
  <2>6. QED
    BY <2>4, <2>5
<1>4. PICK f \in [0 .. N -> S] : Path(f, N)
  BY <1>3
<1>5. QED
  BY <1>4 DEF Iteration

-----------------------------------------------------------------------------
(***************************************************************************)
(* A traversal of d steps: what Reachable(i) builds.                       *)
(***************************************************************************)
Spread(s, i) == s \cup ({tower[n][i] : n \in s} \ {NULL})

LEMMA Traversal ==
  ASSUME TypeOK, NEW i \in Levels
  PROVE  \E f : /\ f[0] = {head}
                /\ \A d \in 1 .. CAPACITY : f[d] = Spread(f[d - 1], i)
                /\ Reachable(i) = f[CAPACITY] \ {head}
<1> DEFINE F == [s \in SUBSET Offsets |-> Spread(s, i)]
<1>1. F \in [SUBSET Offsets -> SUBSET Offsets]
  BY DEF TypeOK, Spread
<1>2. {head} \in SUBSET Offsets /\ CAPACITY \in Nat
  BY ConstantFacts
<1>3. \E f : Iteration(f, F, SUBSET Offsets, {head}, CAPACITY)
  <2> DEFINE S == SUBSET Offsets
  <2>1. MapsTo(F, S) /\ {head} \in S
    BY <1>1, <1>2 DEF MapsTo
  <2> HIDE DEF F, S
  <2>2. \E f : Iteration(f, F, S, {head}, CAPACITY)
    BY <1>2, <2>1, Iterates
  <2>3. QED
    BY <2>2 DEF S
<1>4. PICK f \in [0 .. CAPACITY -> SUBSET Offsets] :
        f[0] = {head} /\ \A d \in 1 .. CAPACITY : f[d] = F[f[d - 1]]
  BY <1>3 DEF Iteration
<1>5. \A d \in 0 .. CAPACITY : d = 0 \/ (d # 0 /\ d \in 1 .. CAPACITY /\ d - 1 \in 0 .. CAPACITY)
  BY <1>2
<1>6. ASSUME NEW d \in 1 .. CAPACITY PROVE f[d] = Spread(f[d - 1], i)
  <2>1. d - 1 \in 0 .. CAPACITY
    BY <1>2
  <2>2. f[d - 1] \in SUBSET Offsets /\ f[d] = F[f[d - 1]]
    BY <1>4, <2>1
  <2>3. QED
    BY <2>2
<1> DEFINE visited[d \in 0 .. CAPACITY] ==
             IF d = 0 THEN {head}
             ELSE LET s == visited[d - 1]
                  IN s \cup ({tower[n][i] : n \in s} \ {NULL})
           Equation(g) == g = [d \in 0 .. CAPACITY |->
             IF d = 0 THEN {head}
             ELSE LET s == g[d - 1]
                  IN s \cup ({tower[n][i] : n \in s} \ {NULL})]
<1>7. Equation(f)
  <2>1. \A d \in 0 .. CAPACITY :
          f[d] = IF d = 0 THEN {head}
                 ELSE LET s == f[d - 1] IN s \cup ({tower[n][i] : n \in s} \ {NULL})
    BY <1>4, <1>5, <1>6 DEF Spread
  <2>2. QED
    BY <1>4, <2>1
<1>8. Equation(visited)
  <2>1. visited = CHOOSE g : Equation(g)
    OBVIOUS
  <2> HIDE DEF Equation, visited
  <2>2. QED
    BY <1>7, <2>1
<1>9. visited[0] = {head} /\ \A d \in 1 .. CAPACITY : visited[d] = Spread(visited[d - 1], i)
  <2> HIDE DEF visited
  <2>1. 0 \in 0 .. CAPACITY /\ \A d \in 1 .. CAPACITY : d \in 0 .. CAPACITY /\ d # 0
    BY <1>2
  <2>2. QED
    BY <1>8, <2>1 DEF Spread
<1>10. Reachable(i) = visited[CAPACITY] \ {head}
  BY DEF Reachable
<1> HIDE DEF visited
<1>11. QED
  BY <1>9, <1>10

\* The nodes before a linked one, and how many they are.
Smaller(n, i) == {m \in linked[i] : nkey[m] < nkey[n]}
Rank(n, i) == Cardinality(Smaller(n, i))

LEMMA Ranks ==
  ASSUME TypeOK, NEW i \in Levels, NEW n \in linked[i]
  PROVE  /\ Rank(n, i) \in Nat /\ Rank(n, i) + 1 <= CAPACITY
         /\ \A m \in Smaller(n, i) : Rank(m, i) < Rank(n, i)
<1>1. IsFiniteSet(Offsets) /\ Cardinality(Offsets) = CAPACITY
  <2>1. 0 \in Int /\ CAPACITY - 1 \in Int /\ CAPACITY \in Nat /\ ~(0 > CAPACITY - 1)
    BY ConstantFacts
  <2>2. IsFiniteSet(0 .. CAPACITY - 1) /\ Cardinality(0 .. CAPACITY - 1) = CAPACITY - 1 - 0 + 1
    BY <2>1, FS_Interval
  <2>3. QED
    BY <2>1, <2>2 DEF Offsets
<1>2. \A x \in linked[i] : x \in Offsets /\ nkey[x] \in Int
  BY SharedReads
<1>3. ASSUME NEW x \in linked[i]
      PROVE  /\ IsFiniteSet(Smaller(x, i)) /\ Rank(x, i) \in Nat
             /\ Smaller(x, i) \in SUBSET Offsets /\ x \notin Smaller(x, i)
  <2>1. Smaller(x, i) \in SUBSET Offsets /\ x \notin Smaller(x, i)
    BY <1>2 DEF Smaller
  <2>2. IsFiniteSet(Smaller(x, i))
    BY <1>1, <2>1, FS_Subset
  <2>3. QED
    BY <2>1, <2>2, FS_CardinalityType DEF Rank
<1>4. Rank(n, i) <= CAPACITY /\ Rank(n, i) # CAPACITY
  BY <1>1, <1>2, <1>3, FS_Subset DEF Rank
<1>5. ASSUME NEW m \in Smaller(n, i) PROVE Rank(m, i) < Rank(n, i)
  <2>1. m \in linked[i] /\ nkey[m] < nkey[n]
    BY DEF Smaller
  <2>2. Smaller(m, i) \in SUBSET Smaller(n, i)
    <3>1. ASSUME NEW x \in Smaller(m, i) PROVE x \in Smaller(n, i)
      <4>1. x \in linked[i] /\ nkey[x] < nkey[m]
        BY DEF Smaller
      <4>2. nkey[x] \in Int /\ nkey[m] \in Int /\ nkey[n] \in Int
        BY <1>2, <2>1, <4>1
      <4>3. QED
        BY <2>1, <4>1, <4>2 DEF Smaller
    <3>2. QED
      BY <3>1
  <2>3. Smaller(m, i) # Smaller(n, i)
    BY <1>3, <2>1
  <2>4. Rank(m, i) <= Rank(n, i) /\ Rank(m, i) # Rank(n, i)
    BY <1>3, <2>2, <2>3, FS_Subset DEF Rank
  <2>5. Rank(m, i) \in Nat /\ Rank(n, i) \in Nat
    BY <1>3, <2>1
  <2>6. QED
    BY <2>4, <2>5
<1>6. Rank(n, i) \in Nat /\ CAPACITY \in Nat
  BY <1>3, ConstantFacts
<1>7. QED
  BY <1>4, <1>5, <1>6

(***************************************************************************)
(* Every linked node is the successor of the one before it: this is where  *)
(* NoGap is needed, and what it is for.                                    *)
(***************************************************************************)
LEMMA Predecessor ==
  ASSUME TypeOK, LinkedNodes, NoGap, NEW i \in Levels, NEW n \in linked[i]
  PROVE  \E p : /\ Member(p, i) /\ tower[p][i] = n
                /\ p # head => Rank(p, i) < Rank(n, i)
<1>1. n \in Offsets /\ nkey[n] \in Int /\ n # NULL
  BY SharedReads, MembersAreNodes DEF Member
<1>2. PICK p : /\ Member(p, i) /\ Below(p, nkey[n])
               /\ p # head => p \in Smaller(n, i)
               /\ \A m \in Smaller(n, i) : p # head /\ Rank(m, i) <= Rank(p, i)
  <2>1. CASE Smaller(n, i) = {}
    BY <2>1 DEF Member, Below
  <2>2. CASE Smaller(n, i) # {}
    <3> DEFINE T == {Rank(m, i) : m \in Smaller(n, i)}
    <3>1. \A m \in Smaller(n, i) : m \in linked[i] /\ nkey[m] < nkey[n]
      BY DEF Smaller
    <3>2. T \subseteq Nat /\ T # {}
      BY <2>2, <3>1, Ranks
    <3>3. CAPACITY \in Nat /\ \A t \in T : t <= CAPACITY
      <4>1. ASSUME NEW m \in linked[i] PROVE Rank(m, i) <= CAPACITY
        BY Ranks, ConstantFacts
      <4>2. QED
        BY <3>1, <4>1, ConstantFacts
    <3> HIDE DEF T
    <3>4. PICK t \in T : \A u \in T : u <= t
      BY <3>2, <3>3, LargestNatural
    <3>5. PICK p \in Smaller(n, i) : t = Rank(p, i)
      BY <3>4 DEF T
    <3>6. \A m \in Smaller(n, i) : Rank(m, i) <= Rank(p, i)
      BY <3>4, <3>5 DEF T
    <3>7. p # head
      BY <3>1, <3>5 DEF LinkedNodes, head
    <3>8. QED
      BY <3>1, <3>5, <3>6, <3>7 DEF Member, Below
  <2>3. QED
    BY <2>1, <2>2
<1> DEFINE s == tower[p][i]
<1>3. p \in Offsets
  BY <1>2, MembersAreNodes
<1>4. s # NULL /\ s \in linked[i] /\ Below(p, nkey[s]) /\ nkey[s] <= nkey[n]
  BY <1>2, <1>3 DEF NoGap
<1>5. nkey[s] \in Int
  BY <1>4, SharedReads
<1> HIDE DEF s
<1>6. ~(nkey[s] < nkey[n])
  <2> SUFFICES ASSUME nkey[s] < nkey[n] PROVE FALSE
    OBVIOUS
  <2>1. s \in Smaller(n, i)
    BY <1>4 DEF Smaller
  <2>2. p # head /\ p \in linked[i] /\ Rank(s, i) <= Rank(p, i)
    BY <1>2, <2>1 DEF Smaller
  <2>3. p \in Smaller(s, i)
    BY <1>4, <2>2 DEF Below, Smaller
  <2>4. Rank(p, i) < Rank(s, i) /\ Rank(p, i) \in Nat /\ Rank(s, i) \in Nat
    BY <1>4, <2>2, <2>3, Ranks
  <2>5. QED
    BY <2>2, <2>4
<1>7. nkey[s] = nkey[n]
  BY <1>1, <1>4, <1>5, <1>6
<1>8. s \in linked[0] /\ n \in linked[0]
  <2>1. 0 \in Levels /\ (i = 0 \/ 0 < i)
    BY ConstantFacts DEF Levels
  <2>2. QED
    BY <1>4, <2>1 DEF LinkedNodes
<1>9. s = n
  BY <1>7, <1>8 DEF LinkedNodes
<1>10. QED
  BY <1>2, <1>9, Ranks DEF s

\* A traversal stays in the level, and comes to each node within its rank.
LEMMA VisitsOnlyLinked ==
  ASSUME TypeOK, LinkedNodes, NoGap, NEW i \in Levels, NEW f,
         f[0] = {head}, \A d \in 1 .. CAPACITY : f[d] = Spread(f[d - 1], i)
  PROVE  \A d \in 0 .. CAPACITY : head \in f[d] /\ f[d] \subseteq linked[i] \cup {head}
<1> DEFINE Good(d) == head \in f[d] /\ f[d] \subseteq linked[i] \cup {head}
           Bad == {d \in 0 .. CAPACITY : ~Good(d)}
<1> SUFFICES ASSUME Bad # {} PROVE FALSE
  OBVIOUS
<1>1. CAPACITY \in Nat
  BY ConstantFacts
<1>2. PICK d \in Bad : \A e \in Bad : d <= e
  <2>1. Bad \subseteq Nat
    BY <1>1
  <2> HIDE DEF Bad
  <2>2. QED
    BY <2>1, LeastNatural
<1>3. d # 0 /\ d \in 0 .. CAPACITY
  <2>1. Good(0)
    OBVIOUS
  <2>2. QED
    BY <2>1
<1>4. d \in 1 .. CAPACITY /\ d - 1 \in 0 .. CAPACITY /\ ~(d <= d - 1)
  BY <1>1, <1>3
<1>5. Good(d - 1)
  BY <1>2, <1>4
<1>6. ASSUME NEW x \in f[d - 1], tower[x][i] # NULL PROVE tower[x][i] \in linked[i]
  <2>1. Member(x, i)
    BY <1>5 DEF Member
  <2>2. x \in Offsets
    BY <2>1, MembersAreNodes
  <2>3. QED
    BY <1>6, <2>1, <2>2 DEF NoGap
<1>7. Good(d)
  <2>1. f[d] = Spread(f[d - 1], i)
    BY <1>4
  <2>2. \A y \in f[d] : y \in f[d - 1] \/ y \in linked[i]
    BY <2>1, <1>6 DEF Spread
  <2>3. QED
    BY <1>5, <2>1, <2>2 DEF Spread
<1>8. QED
  BY <1>7

LEMMA VisitsAllLinked ==
  ASSUME TypeOK, LinkedNodes, NoGap, NEW i \in Levels, NEW f,
         f[0] = {head}, \A d \in 1 .. CAPACITY : f[d] = Spread(f[d - 1], i),
         NEW n \in linked[i]
  PROVE  n \in f[CAPACITY]
<1> DEFINE Late(x) == \E d \in 0 .. CAPACITY : Rank(x, i) < d /\ x \notin f[d]
           Bad == {r \in Nat : \E x \in linked[i] : r = Rank(x, i) /\ Late(x)}
<1>1. CAPACITY \in Nat
  BY ConstantFacts
<1>2. \A x \in linked[i] : Rank(x, i) \in Nat /\ Rank(x, i) < CAPACITY
  <2>1. ASSUME NEW x \in linked[i] PROVE Rank(x, i) \in Nat /\ Rank(x, i) + 1 <= CAPACITY
    BY Ranks
  <2>2. QED
    BY <1>1, <2>1
<1>3. Bad = {}
  <2> SUFFICES ASSUME Bad # {} PROVE FALSE
    OBVIOUS
  <2>1. PICK r \in Bad : \A q \in Bad : r <= q
    <3>1. Bad \subseteq Nat
      OBVIOUS
    <3> HIDE DEF Bad
    <3>2. QED
      BY <3>1, LeastNatural
  <2>2. PICK x \in linked[i] : r = Rank(x, i) /\ Late(x)
    BY <2>1
  <2>3. PICK d \in 0 .. CAPACITY : r < d /\ x \notin f[d]
    BY <2>2
  <2>4. PICK p : Member(p, i) /\ tower[p][i] = x /\ (p # head => Rank(p, i) < r)
    BY <2>2, Predecessor
  <2>5. d \in 1 .. CAPACITY /\ d - 1 \in 0 .. CAPACITY /\ r <= d - 1
    <3>1. r \in Nat
      BY <2>1
    <3>2. QED
      BY <1>1, <2>3, <3>1
  <2>6. p \in f[d - 1]
    <3>1. CASE p = head
      BY <2>5, <3>1, VisitsOnlyLinked
    <3>2. CASE p # head
      <4>1. p \in linked[i] /\ Rank(p, i) \in Nat /\ Rank(p, i) < r /\ r \in Nat
        BY <1>2, <2>1, <2>4, <3>2 DEF Member
      <4>2. Rank(p, i) \notin Bad
        BY <2>1, <4>1
      <4>3. ~Late(p)
        BY <4>1, <4>2
      <4>4. Rank(p, i) < d - 1
        BY <2>5, <4>1
      <4>5. QED
        BY <2>5, <4>3, <4>4
    <3>3. QED
      BY <3>1, <3>2
  <2>7. x # NULL
    BY <2>2, MembersAreNodes DEF Member
  <2>8. f[d] = Spread(f[d - 1], i)
    BY <2>5
  <2>9. x \in f[d]
    BY <2>4, <2>6, <2>7, <2>8 DEF Spread
  <2>10. QED
    BY <2>3, <2>9
<1>4. ~Late(n)
  BY <1>2, <1>3
<1>5. QED
  BY <1>1, <1>2, <1>4

(***************************************************************************)
(* No write is lost: at every moment a traversal of a level visits exactly *)
(* the nodes that were linked there.                                       *)
(***************************************************************************)
THEOREM TraversalComplete == Spec => []NothingLost
<1>1. IInv => NothingLost
  <2> SUFFICES ASSUME IInv, NEW i \in Levels PROVE Reachable(i) = linked[i]
    BY DEF NothingLost
  <2>1. TypeOK /\ LinkedNodes /\ NoGap /\ CAPACITY \in Nat
    BY ConstantFacts DEF IInv
  <2>2. PICK f : /\ f[0] = {head}
                 /\ \A d \in 1 .. CAPACITY : f[d] = Spread(f[d - 1], i)
                 /\ Reachable(i) = f[CAPACITY] \ {head}
    BY <2>1, Traversal
  <2>3. f[CAPACITY] \subseteq linked[i] \cup {head}
    <3>1. CAPACITY \in 0 .. CAPACITY
      BY <2>1
    <3>2. QED
      BY <2>1, <2>2, <3>1, VisitsOnlyLinked
  <2>4. \A n \in linked[i] : n \in f[CAPACITY] /\ n # head
    <3>1. ASSUME NEW n \in linked[i] PROVE n \in f[CAPACITY]
      BY <2>1, <2>2, VisitsAllLinked
    <3>2. QED
      BY <2>1, <3>1 DEF LinkedNodes, head
  <2>5. QED
    BY <2>2, <2>3, <2>4
<1>2. QED
  BY <1>1, Invariance, PTL

-----------------------------------------------------------------------------
(***************************************************************************)
(* The map that the list represents.                                       *)
(***************************************************************************)
MapOver(L, K, V) == [k \in Keys |->
  IF \E n \in L : K[n] = k THEN V[CHOOSE n \in L : K[n] = k] ELSE Absent]

LEMMA MapOverAt ==
  ASSUME NEW L, NEW K, NEW V, \A m, n \in L : K[m] = K[n] => m = n, NEW k \in Keys
  PROVE  /\ \A n \in L : K[n] = k => MapOver(L, K, V)[k] = V[n]
         /\ (\A n \in L : K[n] # k) => MapOver(L, K, V)[k] = Absent
<1>1. ASSUME NEW n \in L, K[n] = k PROVE (CHOOSE x \in L : K[x] = k) = n
  BY <1>1
<1>2. QED
  BY <1>1 DEF MapOver

LEMMA MapAt ==
  ASSUME TypeOK, LinkedNodes, NEW k \in Keys
  PROVE  /\ \A n \in linked[0] : nkey[n] = k => MapOf[k] = nval[n]
         /\ (\A n \in linked[0] : nkey[n] # k) => MapOf[k] = Absent
<1> DEFINE L == linked[0]
<1>1. \A m, n \in L : nkey[m] = nkey[n] => m = n
  BY DEF LinkedNodes
<1>2. MapOf = MapOver(L, nkey, nval)
  BY DEF MapOf, MapOver
<1> HIDE DEF L
<1>3. /\ \A n \in L : nkey[n] = k => MapOver(L, nkey, nval)[k] = nval[n]
      /\ (\A n \in L : nkey[n] # k) => MapOver(L, nkey, nval)[k] = Absent
  BY <1>1, MapOverAt
<1>4. QED
  BY <1>2, <1>3 DEF L

LEMMA MapAtNext ==
  ASSUME TypeOK', LinkedNodes', NEW k \in Keys
  PROVE  /\ \A n \in linked'[0] : nkey'[n] = k => MapOf'[k] = nval'[n]
         /\ (\A n \in linked'[0] : nkey'[n] # k) => MapOf'[k] = Absent
<1> DEFINE L == linked'[0]
           K == nkey'
           V == nval'
<1>1. \A m, n \in L : K[m] = K[n] => m = n
  BY DEF LinkedNodes
<1>2. MapOf' = MapOver(L, K, V)
  BY DEF MapOf, MapOver
<1> HIDE DEF L, K, V
<1>3. /\ \A n \in L : K[n] = k => MapOver(L, K, V)[k] = V[n]
      /\ (\A n \in L : K[n] # k) => MapOver(L, K, V)[k] = Absent
  BY <1>1, MapOverAt
<1>4. QED
  BY <1>2, <1>3 DEF L, K, V

\* A key whose node does not change keeps its entry; without a new node, the
\* map is what it was.
LEMMA EntryStays ==
  ASSUME IInv, IInv', [Next]_vars, NEW k \in Keys,
         \A n \in linked'[0] \ linked[0] : nkey'[n] # k
  PROVE  MapOf'[k] = MapOf[k]
<1>1. TypeOK /\ LinkedNodes /\ TypeOK' /\ LinkedNodes' /\ 0 \in Levels
  BY ConstantFacts DEF IInv
<1>2. \A n \in linked[0] : n \in linked'[0] /\ nkey'[n] = nkey[n] /\ nval'[n] = nval[n]
  BY <1>1, StepKeepsLinked
<1>3. CASE \E n \in linked[0] : nkey[n] = k
  BY <1>1, <1>2, <1>3, MapAt, MapAtNext
<1>4. CASE \A n \in linked[0] : nkey[n] # k
  <2>1. \A n \in linked'[0] : nkey'[n] # k
    BY <1>2, <1>4
  <2>2. QED
    BY <1>1, <1>4, <2>1, MapAt, MapAtNext
<1>5. QED
  BY <1>3, <1>4

LEMMA MapStays ==
  ASSUME IInv, IInv', [Next]_vars, linked'[0] = linked[0]
  PROVE  MapOf' = MapOf
<1>1. \A k \in Keys : MapOf'[k] = MapOf[k]
  BY EntryStays
<1>2. MapOf = [k \in Keys |-> MapOf[k]] /\ MapOf' = [k \in Keys |-> MapOf'[k]]
  BY DEF MapOf
<1>3. QED
  BY <1>1, <1>2

(***************************************************************************)
(* What the others have done and were answered is not changed by a step.   *)
(***************************************************************************)
Status(u) == IF pc[u] = "idle" THEN "idle" ELSE IF InEffect(u) THEN "done" ELSE "called"
Answered(u) == IF InEffect(u) THEN "none" ELSE result[u]

LEMMA OthersAsBefore ==
  ASSUME IInv, NEW w \in Writers, Call(w) \/ Work(w), NEW u \in Writers, u # w
  PROVE  Status(u)' = Status(u) /\ Answered(u)' = Answered(u)
<1>1. TypeOK /\ Distinct /\ 0 \in Levels /\ Kept(u)
  BY ConstantFacts, OthersKept DEF IInv
<1>2. CASE UNCHANGED linked
  BY <1>1, <1>2 DEF Kept, Status, Answered, InEffect, Splicing
<1>3. CASE Link(w)
  <2>1. Splicing(u) => mine[u] # mine[w]
    BY <1>1, <1>3 DEF Distinct, Link, Splicing
  <2>2. linked'[0] = linked[0] \/ linked'[0] = linked[0] \cup {mine[w]}
    BY <1>1, <1>3, LinkSituation DEF LinkFacts
  <2>3. InEffect(u)' = InEffect(u)
    BY <1>1, <2>1, <2>2 DEF Kept, InEffect, Splicing
  <2>4. QED
    BY <1>1, <2>3 DEF Kept, Status, Answered
<1>4. ~Link(w) => UNCHANGED linked
  BY DEF Call, PutStart, Work, WalkOn, FoundSplice, FoundDuplicate, AllocNode, AllocPanic,
         RaiseHeight, RaiseRetry, BackLink, SetNext, LinkFail, shared
<1>5. QED
  BY <1>2, <1>3, <1>4

\* So the abstract state changes at most at the writer that takes the step.
LEMMA AbstractStep ==
  ASSUME IInv, NEW w \in Writers, Call(w) \/ Work(w)
  PROVE  /\ StatusOf' = [StatusOf EXCEPT ![w] = Status(w)']
         /\ ResultOf' = [ResultOf EXCEPT ![w] = Answered(w)']
         /\ StatusOf[w] = Status(w) /\ ResultOf[w] = Answered(w)
<1>1. \A u \in Writers : u # w => Status(u)' = Status(u) /\ Answered(u)' = Answered(u)
  BY OthersAsBefore
<1>2. /\ StatusOf = [u \in Writers |-> Status(u)]
      /\ ResultOf = [u \in Writers |-> Answered(u)]
      /\ StatusOf' = [u \in Writers |-> Status(u)']
      /\ ResultOf' = [u \in Writers |-> Answered(u)']
  BY DEF StatusOf, ResultOf, Status, Answered
<1>3. QED
  BY <1>1, <1>2

LEMMA Stutter ==
  ASSUME IInv, NEW w \in Writers, Call(w) \/ Work(w),
         MapOf' = MapOf, UNCHANGED <<key, value>>,
         Status(w)' = Status(w), Answered(w)' = Answered(w)
  PROVE  UNCHANGED Map!mvars
<1>1. StatusOf' = [StatusOf EXCEPT ![w] = StatusOf[w]]
      /\ ResultOf' = [ResultOf EXCEPT ![w] = ResultOf[w]]
  BY AbstractStep
<1>2. StatusOf' = StatusOf /\ ResultOf' = ResultOf
  BY <1>1 DEF StatusOf, ResultOf
<1>3. QED
  BY <1>2 DEF Map!mvars

\* The steps that neither return nor link are invisible.
LEMMA QuietIsStutter ==
  ASSUME IInv, IInv', NEW w \in Writers,
         \/ WalkOn(w) \/ FoundSplice(w) \/ AllocNode(w) \/ RaiseHeight(w)
         \/ RaiseRetry(w) \/ BackLink(w) \/ SetNext(w) \/ LinkFail(w)
  PROVE  UNCHANGED Map!mvars
<1>1. TypeOK /\ LinkedNodes /\ 0 \in Levels
  BY ConstantFacts DEF IInv
<1>2. Work(w) /\ [Next]_vars
  BY DEF Work, Next
<1>3. UNCHANGED <<linked, key, value, result>>
  BY DEF WalkOn, FoundSplice, AllocNode, RaiseHeight, RaiseRetry, BackLink, SetNext,
         LinkFail, shared
<1>4. InEffect(w)' = InEffect(w) /\ pc[w] # "idle" /\ pc'[w] # "idle"
  <2>1. CASE WalkOn(w)
    BY <1>1, <2>1 DEF WalkOn, InEffect, Splicing, Searching, shared
  <2>2. CASE FoundSplice(w)
    BY <1>1, <2>2 DEF FoundSplice, InEffect, Splicing, Searching, TypeOK, shared
  <2>3. CASE AllocNode(w)
    <3>1. mine'[w] = ptr /\ pc[w] = "alloc" /\ pc'[w] \in {"raise", "setnext", "backlink"}
      BY <1>1, <2>3 DEF AllocNode, AfterHeight, TypeOK
    <3>2. ptr \notin linked[0]
      BY <1>1, SharedReads DEF LinkedNodes
    <3>3. QED
      BY <1>3, <3>1, <3>2 DEF InEffect, Splicing
  <2>4. CASE RaiseHeight(w) \/ RaiseRetry(w)
    BY <1>1, <1>3, <2>4 DEF RaiseHeight, RaiseRetry, AfterHeight, InEffect, Splicing, TypeOK
  <2>5. CASE BackLink(w) \/ SetNext(w) \/ LinkFail(w)
    BY <1>1, <1>3, <2>5 DEF BackLink, SetNext, LinkFail, InEffect, Splicing, TypeOK
  <2>6. QED
    BY <2>1, <2>2, <2>3, <2>4, <2>5
<1>5. MapOf' = MapOf
  BY <1>2, <1>3, MapStays
<1>6. Status(w)' = Status(w) /\ Answered(w)' = Answered(w)
  BY <1>3, <1>4 DEF Status, Answered
<1>7. QED
  BY <1>2, <1>3, <1>5, <1>6, Stutter

LEMMA CallIsCall ==
  ASSUME IInv, IInv', NEW w \in Writers, Call(w)
  PROVE  Map!Call(w)
<1>1. PICK k \in Keys, v \in Values, h \in Levels : PutStart(w, k, v, h)
  BY DEF Call
<1>2. TypeOK /\ [Next]_vars
  BY DEF IInv, Next
<1>3. pc[w] = "idle" /\ pc'[w] = "search" /\ result'[w] = "pending" /\ linked' = linked
  BY <1>1, <1>2 DEF PutStart, TypeOK, shared
<1>4. MapOf' = MapOf
  BY <1>2, <1>3, MapStays
<1>5. Status(w) = "idle" /\ Status(w)' = "called" /\ Answered(w)' = "pending"
  BY <1>3 DEF Status, Answered, InEffect, Splicing
<1>6. key' = [key EXCEPT ![w] = k] /\ value' = [value EXCEPT ![w] = v]
  BY <1>1 DEF PutStart
<1>7. QED
  BY <1>4, <1>5, <1>6, AbstractStep DEF Map!Call

\* The search has met the key: the put finds its answer in the map.
LEMMA DuplicateIsEffect ==
  ASSUME IInv, IInv', NEW w \in Writers, FoundDuplicate(w)
  PROVE  Map!TakeEffect(w)
<1>1. /\ TypeOK /\ LinkedNodes /\ NoGap /\ Placed(w) /\ Owned(w)
      /\ Phase(w) /\ Phase(w)' /\ 0 \in Levels
  BY ConstantFacts DEF IInv
<1>2. Work(w) /\ [Next]_vars
  BY DEF Work, Next
<1>3. /\ lvl[w] \in Levels /\ before[w] \in Offsets /\ value[w] \in Values /\ key[w] \in Keys
      /\ lvl[w] \in Int
  BY <1>1, LocalReads, SharedReads
<1>4. /\ UNCHANGED <<linked, key, value>> /\ pc[w] \in {"search", "research"}
      /\ pc'[w] = "idle" /\ result'[w] = DuplicateResult(w)
  BY <1>1 DEF FoundDuplicate, Searching, Return, TypeOK, shared
<1>5. MapOf' = MapOf
  BY <1>2, <1>4, MapStays
<1>6. Succ(w) \in linked[0] /\ nkey[Succ(w)] = key[w]
  <2>1. Succ(w) \in linked[lvl[w]] /\ nkey[Succ(w)] = key[w]
    BY <1>1, <1>3 DEF FoundDuplicate, Placed, NoGap, Succ
  <2>2. lvl[w] = 0 \/ 0 < lvl[w]
    BY <1>3, ConstantFacts DEF Levels
  <2>3. QED
    BY <1>1, <1>3, <2>1, <2>2 DEF LinkedNodes
<1>7. MapOf[key[w]] = nval[Succ(w)] /\ nval[Succ(w)] \in Values /\ Absent \notin Values
  <2>1. Succ(w) \in Offsets
    BY <1>1, <1>6, SharedReads
  <2>2. QED
    BY <1>1, <1>3, <1>6, <2>1, MapAt, ValuesAssumption DEF TypeOK
<1>8. result'[w] = Map!Answer(w)
  <2>1. result'[w] # "assert"
    BY <1>1 DEF Phase
  <2>2. QED
    BY <1>3, <1>4, <1>7, <2>1 DEF DuplicateResult, Map!Answer
<1>9. ~InEffect(w)
  <2>1. pc[w] = "research" => lvl[w] = 0
    BY <1>1, <1>4 DEF Phase, DuplicateResult
  <2>2. CASE pc[w] = "research"
    <3>1. ~(0 < lvl[w]) /\ Splicing(w)
      BY <2>1, <2>2 DEF Splicing
    <3>2. mine[w] \notin linked[0]
      BY <1>1, <3>1 DEF Owned
    <3>3. QED
      BY <3>2 DEF InEffect
  <2>3. CASE pc[w] = "search"
    BY <2>3 DEF InEffect, Splicing
  <2>4. QED
    BY <1>4, <2>2, <2>3
<1>10. Status(w) = "called" /\ Status(w)' = "idle" /\ Answered(w)' = Map!Answer(w)
  BY <1>4, <1>8, <1>9 DEF Status, Answered, InEffect, Splicing
<1>11. MapOf' = [MapOf EXCEPT ![key[w]] = IF @ = Absent THEN value[w] ELSE @]
  BY <1>5, <1>7 DEF MapOf
<1>12. StatusOf[w] = "called" /\ StatusOf' = [StatusOf EXCEPT ![w] = "idle"]
       /\ ResultOf' = [ResultOf EXCEPT ![w] = Map!Answer(w)]
  BY <1>2, <1>10, AbstractStep
<1>13. QED
  BY <1>4, <1>11, <1>12 DEF Map!TakeEffect

LEMMA PanicIsFailure ==
  ASSUME IInv, IInv', NEW w \in Writers, AllocPanic(w)
  PROVE  Map!Fail(w)
<1>1. TypeOK /\ Work(w) /\ [Next]_vars
  BY DEF IInv, Work, Next
<1>2. /\ UNCHANGED <<linked, key, value>> /\ pc[w] = "alloc"
      /\ pc'[w] = "idle" /\ result'[w] = "panic"
  BY <1>1 DEF AllocPanic, Return, TypeOK, shared
<1>3. MapOf' = MapOf
  BY <1>1, <1>2, MapStays
<1>4. Status(w) = "called" /\ Status(w)' = "idle" /\ Answered(w)' = "panic"
  BY <1>2 DEF Status, Answered, InEffect, Splicing
<1>5. QED
  BY <1>1, <1>2, <1>3, <1>4, AbstractStep DEF Map!Fail

(***************************************************************************)
(* The link at level 0 is the instant of the put; the links above it are   *)
(* invisible, but for the last one, which returns.                         *)
(***************************************************************************)
LinkOutcome(w) ==
  \/ lvl[w] < top[w] /\ pc'[w] = "setnext" /\ mine'[w] = mine[w] /\ result'[w] = result[w]
  \/ lvl[w] = top[w] /\ pc'[w] = "idle" /\ result'[w] = "none"

LEMMA LinkLeadsTo ==
  ASSUME TypeOK, NEW w \in Writers, Link(w)
  PROVE  LinkOutcome(w) /\ UNCHANGED <<key, value, nkey, nval>>
<1>1. CASE /\ lvl[w] < top[w] /\ pc' = [pc EXCEPT ![w] = "setnext"]
           /\ UNCHANGED <<key, value, mine, result>>
  BY <1>1 DEF LinkOutcome, TypeOK, Link
<1>2. CASE lvl[w] = top[w] /\ Return(w, "none")
  BY <1>2 DEF LinkOutcome, TypeOK, Return, Link
<1>3. QED
  BY <1>1, <1>2 DEF Link

LEMMA LinkIsEffect ==
  ASSUME IInv, IInv', NEW w \in Writers, Link(w), lvl[w] = 0
  PROVE  Map!TakeEffect(w)
<1>1. TypeOK /\ TypeOK' /\ LinkedNodes /\ LinkedNodes' /\ Owned(w) /\ 0 \in Levels
  BY ConstantFacts DEF IInv
<1>2. Work(w) /\ [Next]_vars
  BY DEF Work, Next
<1>3. /\ pc[w] = "link" /\ Splicing(w) /\ LinkOutcome(w)
      /\ UNCHANGED <<key, value, nkey, nval>>
      /\ key[w] \in Keys /\ value[w] \in Values
  BY <1>1, LinkLeadsTo, LocalReads DEF Link, Splicing
<1>4. linked'[0] = linked[0] \cup {mine[w]} /\ mine[w] \notin linked[0]
  <2>1. ~(0 < lvl[w])
    OBVIOUS
  <2>2. QED
    BY <1>1, <2>1, LinkSituation DEF LinkFacts
<1>5. nkey[mine[w]] = key[w] /\ nval[mine[w]] = value[w]
  BY <1>1, <1>3 DEF Owned
<1>6. MapOf[key[w]] = Absent
  <2>1. \A n \in linked[0] : nkey[n] # key[w]
    BY <1>1, <1>3, <1>4, <1>5 DEF LinkedNodes
  <2>2. QED
    BY <1>1, <1>3, <2>1, MapAt
<1>7. MapOf'[key[w]] = value[w]
  BY <1>1, <1>3, <1>4, <1>5, MapAtNext
<1>8. \A k \in Keys : k # key[w] => MapOf'[k] = MapOf[k]
  BY <1>2, <1>3, <1>4, <1>5, EntryStays
<1>9. MapOf' = [MapOf EXCEPT ![key[w]] = IF @ = Absent THEN value[w] ELSE @]
  <2>1. MapOf = [k \in Keys |-> MapOf[k]] /\ MapOf' = [k \in Keys |-> MapOf'[k]]
    BY DEF MapOf
  <2> DEFINE M == MapOf
             M2 == MapOf'
  <2>2. /\ M = [k \in Keys |-> M[k]] /\ M2 = [k \in Keys |-> M2[k]]
        /\ M[key[w]] = Absent /\ M2[key[w]] = value[w]
        /\ \A k \in Keys : k # key[w] => M2[k] = M[k]
    BY <1>6, <1>7, <1>8, <2>1
  <2> HIDE DEF M, M2
  <2>3. M2 = [M EXCEPT ![key[w]] = IF @ = Absent THEN value[w] ELSE @]
    BY <1>3, <2>2
  <2>4. QED
    BY <2>3 DEF M, M2
<1>10. Status(w) = "called" /\ Status(w)' \in {"done", "idle"} /\ Answered(w)' = "none"
  BY <1>3, <1>4 DEF Status, Answered, InEffect, Splicing, LinkOutcome
<1>11. Map!Answer(w) = "none"
  BY <1>6 DEF Map!Answer
<1>12. QED
  BY <1>2, <1>3, <1>9, <1>10, <1>11, AbstractStep DEF Map!TakeEffect

LEMMA LinkAbove ==
  ASSUME IInv, IInv', NEW w \in Writers, Link(w), lvl[w] # 0
  PROVE  Map!Return(w) \/ UNCHANGED Map!mvars
<1>1. TypeOK /\ Owned(w) /\ 0 \in Levels
  BY ConstantFacts DEF IInv
<1>2. Work(w) /\ [Next]_vars
  BY DEF Work, Next
<1>3. /\ pc[w] = "link" /\ Splicing(w) /\ LinkOutcome(w)
      /\ UNCHANGED <<key, value>>
  BY <1>1, LinkLeadsTo DEF Link, Splicing
<1>4. linked'[0] = linked[0] /\ mine[w] \in linked[0]
  <2>1. 0 < lvl[w]
    BY <1>1, LocalReads, ConstantFacts DEF Levels
  <2>2. QED
    BY <1>1, <1>3, <2>1, LinkSituation DEF LinkFacts, Owned
<1>5. MapOf' = MapOf
  BY <1>2, <1>4, MapStays
<1>6. Status(w) = "done" /\ Answered(w) = "none" /\ Answered(w)' = "none"
      /\ (Status(w)' = "done" \/ Status(w)' = "idle")
  BY <1>3, <1>4 DEF Status, Answered, InEffect, Splicing, LinkOutcome
<1>7. CASE Status(w)' = "done"
  BY <1>2, <1>3, <1>5, <1>6, <1>7, Stutter
<1>8. CASE Status(w)' = "idle"
  <2>1. ResultOf' = ResultOf
    <3>1. ResultOf' = [ResultOf EXCEPT ![w] = ResultOf[w]]
      BY <1>2, <1>6, AbstractStep
    <3>2. QED
      BY <3>1 DEF ResultOf
  <2>2. StatusOf[w] = "done" /\ StatusOf' = [StatusOf EXCEPT ![w] = "idle"]
    BY <1>2, <1>6, <1>8, AbstractStep
  <2>3. QED
    BY <1>3, <1>5, <2>1, <2>2 DEF Map!Return
<1>9. QED
  BY <1>6, <1>7, <1>8

(***************************************************************************)
(* The list implements the map: every put takes effect at one instant      *)
(* between its call and its return, for any number of writers and levels.  *)
(***************************************************************************)
THEOREM Linearized == Spec => Linearizable
<1>1. Init => Map!Init
  <2> SUFFICES ASSUME Init PROVE Map!Init
    OBVIOUS
  <2>1. 0 \in Levels /\ AnyKey \in Keys /\ AnyValue \in Values
    BY ConstantFacts
  <2>2. MapOf = [k \in Keys |-> Absent]
    BY <2>1 DEF MapOf, Init
  <2>3. /\ StatusOf = [w \in Writers |-> "idle"]
        /\ ResultOf = [w \in Writers |-> "pending"]
    BY DEF StatusOf, ResultOf, InEffect, Splicing, Init
  <2>4. key \in [Writers -> Keys] /\ value \in [Writers -> Values]
    BY <2>1 DEF Init
  <2>5. QED
    BY <2>2, <2>3, <2>4 DEF Map!Init
<1>2. IInv /\ IInv' /\ [Next]_vars => [Map!Next]_Map!mvars
  <2> SUFFICES ASSUME IInv, IInv', [Next]_vars PROVE [Map!Next]_Map!mvars
    OBVIOUS
  <2>1. ASSUME NEW w \in Writers, Call(w) \/ Work(w) PROVE [Map!Next]_Map!mvars
    <3>1. CASE Call(w)
      BY <3>1, CallIsCall DEF Map!Next
    <3>2. CASE FoundDuplicate(w)
      BY <3>2, DuplicateIsEffect DEF Map!Next
    <3>3. CASE AllocPanic(w)
      BY <3>3, PanicIsFailure DEF Map!Next
    <3>4. CASE Link(w)
      BY <3>4, LinkIsEffect, LinkAbove DEF Map!Next
    <3>5. CASE \/ WalkOn(w) \/ FoundSplice(w) \/ AllocNode(w) \/ RaiseHeight(w)
               \/ RaiseRetry(w) \/ BackLink(w) \/ SetNext(w) \/ LinkFail(w)
      BY <3>5, QuietIsStutter
    <3>6. QED
      BY <2>1, <3>1, <3>2, <3>3, <3>4, <3>5 DEF Work
  <2>2. CASE UNCHANGED vars
    BY <2>2 DEF vars, shared, local, Map!mvars, MapOf, StatusOf, ResultOf, InEffect, Splicing
  <2>3. QED
    BY <2>1, <2>2 DEF Next
<1>3. QED
  BY <1>1, <1>2, Invariance, PTL DEF Spec, Linearizable, Map!Spec

-----------------------------------------------------------------------------
(***************************************************************************)
(* The prev pointers of a single writer.  From BackLink until the link at  *)
(* level 0 the node under construction is its successor's predecessor      *)
(* already; all other prev pointers invert the list at every moment.       *)
(***************************************************************************)
Pending(w) == pc[w] \in {"setnext", "link"} /\ lvl[w] = 0

Settled(n) == \A w \in Writers : Pending(w) => n # prev[w][0]

Inverted(n) ==
  Member(n, 0) /\ tower[n][0] # NULL /\ Settled(n) => back[tower[n][0]] = n

Joined(w) ==
  Pending(w) =>
    /\ back[mine[w]] = prev[w][0]
    /\ next[w][0] # NULL => back[next[w][0]] = mine[w]

Backs ==
  ~allow_concurrent_write =>
    (\A n \in Offsets : Inverted(n)) /\ (\A w \in Writers : Joined(w))

\* Steps that touch neither level 0 nor the prev pointers of its nodes.
LEMMA BacksStay ==
  ASSUME IInv, Backs, ~allow_concurrent_write,
         linked'[0] = linked[0],
         \A n : Member(n, 0) => tower'[n][0] = tower[n][0],
         \A n \in linked[0] : back'[n] = back[n],
         \A u \in Writers : Pending(u)' <=> Pending(u),
         \A u \in Writers : Pending(u) =>
           /\ mine'[u] = mine[u] /\ prev'[u] = prev[u] /\ next'[u] = next[u]
           /\ back'[mine[u]] = back[mine[u]]
  PROVE  Backs'
<1>1. TypeOK /\ NoGap /\ 0 \in Levels
  BY ConstantFacts DEF IInv
<1>2. ASSUME NEW n \in Offsets, Inverted(n) PROVE Inverted(n)'
  <2> SUFFICES ASSUME Member(n, 0)', tower'[n][0] # NULL, Settled(n)'
               PROVE  back'[tower'[n][0]] = n
    BY DEF Inverted
  <2>1. Member(n, 0) /\ tower'[n][0] = tower[n][0]
    BY DEF Member
  <2>2. Settled(n)
    BY DEF Settled
  <2>3. tower[n][0] \in linked[0]
    BY <1>1, <2>1 DEF NoGap
  <2>4. QED
    BY <1>2, <2>1, <2>2, <2>3 DEF Inverted
<1>3. ASSUME NEW w \in Writers, Joined(w) PROVE Joined(w)'
  <2> SUFFICES ASSUME Pending(w)'
               PROVE  /\ back'[mine'[w]] = prev'[w][0]
                      /\ next'[w][0] # NULL => back'[next'[w][0]] = mine'[w]
    BY DEF Joined
  <2>1. Pending(w)
    OBVIOUS
  <2>2. next[w][0] # NULL => next[w][0] \in linked[0]
    <3>1. Placed(w) /\ pc[w] # "idle" /\ pc[w] # "search" /\ lvl[w] <= 0
      BY <2>1 DEF IInv, Pending
    <3>2. QED
      BY <1>1, <3>1 DEF Placed, Brackets
  <2>3. QED
    BY <1>3, <2>1, <2>2 DEF Joined
<1>4. QED
  BY <1>2, <1>3 DEF Backs

\* A single writer at work is the only one.
LEMMA OthersIdle ==
  ASSUME IInv, ~allow_concurrent_write, NEW w \in Writers, Call(w) \/ Work(w)
  PROVE  /\ \A u \in Writers : u # w => pc[u] = "idle" /\ pc'[u] = "idle"
         /\ \A u \in Writers : u # w => ~Pending(u) /\ ~Pending(u)'
         /\ ~LinkFail(w) /\ pc[w] # "research"
<1>1. TypeOK /\ Alone(w) /\ Phase(w)
  BY DEF IInv
<1>2. CASE pc[w] # "idle"
  BY <1>1, <1>2, OthersKept DEF Alone, Phase, Kept, Pending, LinkFail, CanLink
<1>3. CASE pc[w] = "idle"
  <2>1. ~Work(w)
    BY <1>3 DEF Work, WalkOn, FoundSplice, FoundDuplicate, Searching, AllocNode, AllocPanic,
                RaiseHeight, RaiseRetry, BackLink, SetNext, Link, LinkFail
  <2>2. \A u \in Writers : pc[u] = "idle"
    BY <2>1 DEF Call, PutStart
  <2>3. QED
    BY <1>1, <1>3, <2>2, OthersKept DEF Kept, Pending, LinkFail
<1>4. QED
  BY <1>2, <1>3

\* The search, the height and the arena.
LEMMA SearchKeepsBacks ==
  ASSUME IInv, Backs, ~allow_concurrent_write, NEW w \in Writers,
         \/ Call(w) \/ WalkOn(w) \/ FoundSplice(w) \/ FoundDuplicate(w)
         \/ AllocPanic(w) \/ RaiseHeight(w) \/ RaiseRetry(w)
  PROVE  Backs'
<1>1. TypeOK /\ w \in Writers
  BY DEF IInv
<1>2. UNCHANGED <<linked, tower, back>>
  BY DEF Call, PutStart, WalkOn, FoundSplice, FoundDuplicate, AllocPanic, RaiseHeight,
         RaiseRetry, shared
<1>3. \A u \in Writers : u # w => ~Pending(u) /\ ~Pending(u)'
  BY OthersIdle DEF Work
<1>4. pc[w] # "research"
  BY OthersIdle DEF Work
<1>5. ~Pending(w) /\ ~Pending(w)'
  <2>1. CASE Call(w)
    BY <1>1, <2>1 DEF Call, PutStart, TypeOK, Pending
  <2>2. CASE WalkOn(w)
    BY <1>1, <1>4, <2>2 DEF WalkOn, Searching, Pending
  <2>3. CASE FoundSplice(w)
    BY <1>1, <1>4, <2>3 DEF FoundSplice, Searching, TypeOK, Pending
  <2>4. CASE FoundDuplicate(w)
    BY <1>1, <1>4, <2>4 DEF FoundDuplicate, Return, Searching, TypeOK, Pending
  <2>5. CASE AllocPanic(w)
    BY <1>1, <2>5 DEF AllocPanic, Return, TypeOK, Pending
  <2>6. CASE RaiseHeight(w) \/ RaiseRetry(w)
    BY <1>1, <2>6 DEF RaiseHeight, RaiseRetry, AfterHeight, TypeOK, Pending
  <2>7. QED
    BY <2>1, <2>2, <2>3, <2>4, <2>5, <2>6
<1>6. QED
  BY <1>2, <1>3, <1>5, BacksStay

LEMMA AllocKeepsBacks ==
  ASSUME IInv, Backs, ~allow_concurrent_write, NEW w \in Writers, AllocNode(w)
  PROVE  Backs'
<1>1. TypeOK /\ LinkedNodes /\ 0 \in Levels
  BY ConstantFacts DEF IInv
<1>2. ASSUME NEW n, Member(n, 0) PROVE n \in Offsets /\ n # ptr
  <2>1. n \in Offsets /\ n < ptr
    BY <1>1, <1>2, MembersAreNodes
  <2>2. QED
    BY <1>1, <2>1, SharedReads
<1>3. \A n : Member(n, 0) => tower'[n][0] = tower[n][0] /\ back'[n] = back[n]
  BY <1>1, <1>2 DEF AllocNode, TypeOK
<1>4. \A u \in Writers : u # w => ~Pending(u) /\ ~Pending(u)'
  BY OthersIdle DEF Work
<1>5. ~Pending(w) /\ ~Pending(w)'
  BY <1>1 DEF AllocNode, AfterHeight, TypeOK, Pending
<1>6. linked' = linked
  BY DEF AllocNode
<1>7. QED
  BY <1>3, <1>4, <1>5, <1>6, BacksStay DEF Member

\* Where a single writer stands when it splices at level 0.
LEMMA BottomSplice ==
  ASSUME IInv, ~allow_concurrent_write, NEW w \in Writers, Splicing(w), lvl[w] = 0
  PROVE  /\ Member(prev[w][0], 0) /\ tower[prev[w][0]][0] = next[w][0]
         /\ prev[w][0] \in Offsets /\ mine[w] \in Offsets /\ next[w][0] \in Offsets
         /\ mine[w] # NULL /\ ~Member(mine[w], 0)
         /\ next[w][0] # NULL => next[w][0] \in linked[0]
<1>1. TypeOK /\ NoGap /\ 0 \in Levels /\ Placed(w) /\ Alone(w) /\ Owned(w)
  BY ConstantFacts DEF IInv
<1>2. pc[w] # "idle" /\ pc[w] # "search" /\ lvl[w] <= 0
  BY DEF Splicing
<1>3. Member(prev[w][0], 0) /\ tower[prev[w][0]][0] = next[w][0]
  BY <1>1, <1>2 DEF Placed, Brackets, Alone
<1>4. prev[w][0] \in Offsets /\ mine[w] \in Offsets /\ next[w][0] \in Offsets
  BY <1>1, LocalReads
<1>5. mine[w] \notin linked[0] /\ head < mine[w]
  BY <1>1 DEF Owned
<1>6. mine[w] # NULL /\ mine[w] # head
  BY <1>5 DEF head, NULL
<1>7. QED
  BY <1>1, <1>3, <1>4, <1>5, <1>6 DEF NoGap, Member

\* The stores to the prev pointers of the new node and of its successor.  The
\* pointers of the other nodes are inverse to the list, so none is overwritten.
LEMMA BackLinkKeepsBacks ==
  ASSUME IInv, Backs, ~allow_concurrent_write, NEW w \in Writers, BackLink(w)
  PROVE  Backs'
<1> DEFINE p == prev[w][0]
           s == next[w][0]
           m == mine[w]
<1>1. TypeOK /\ NoGap /\ 0 \in Levels /\ Owned(w)
  BY ConstantFacts DEF IInv
<1>2. pc[w] = "backlink" /\ Splicing(w) /\ lvl[w] = 0
  BY <1>1 DEF BackLink, Splicing, Owned
<1>3. /\ Member(p, 0) /\ tower[p][0] = s /\ p \in Offsets /\ m \in Offsets
      /\ s \in Offsets /\ m # NULL /\ ~Member(m, 0) /\ (s # NULL => s \in linked[0])
  BY <1>2, BottomSplice
<1>4. /\ UNCHANGED <<tower, linked, lvl, prev, next, mine>>
      /\ back'[m] = p
      /\ s # NULL => back'[s] = m
      /\ \A o \in Offsets : o # m /\ o # s => back'[o] = back[o]
  BY <1>3 DEF BackLink, Member
<1>5. \A u \in Writers : u # w => ~Pending(u) /\ ~Pending(u)'
  BY OthersIdle DEF Work
<1>6. ~Pending(w) /\ Pending(w)'
  BY <1>1, <1>2, <1>4 DEF BackLink, TypeOK, Pending
<1>7. ASSUME NEW n \in Offsets PROVE Inverted(n)'
  <2> SUFFICES ASSUME Member(n, 0)', tower'[n][0] # NULL, Settled(n)'
               PROVE  back'[tower'[n][0]] = n
    BY DEF Inverted
  <2>1. Member(n, 0) /\ tower'[n][0] = tower[n][0] /\ n # p
    BY <1>4, <1>6 DEF Member, Settled
  <2>2. Settled(n) /\ Settled(p)
    BY <1>5, <1>6 DEF Settled
  <2>3. back[tower[n][0]] = n /\ tower[n][0] \in linked[0]
    BY <1>1, <2>1, <2>2 DEF Backs, Inverted, NoGap
  <2>4. s # NULL => back[s] = p
    BY <1>3, <2>2 DEF Backs, Inverted
  <2>5. tower[n][0] # m /\ tower[n][0] # s /\ tower[n][0] \in Offsets
    BY <1>1, <1>3, <2>1, <2>3, <2>4, SharedReads DEF Member
  <2>6. QED
    BY <1>4, <2>1, <2>3, <2>5
<1>8. ASSUME NEW u \in Writers PROVE Joined(u)'
  BY <1>4, <1>5 DEF Joined
<1>9. QED
  BY <1>7, <1>8 DEF Backs

LEMMA SetNextKeepsBacks ==
  ASSUME IInv, Backs, ~allow_concurrent_write, NEW w \in Writers, SetNext(w)
  PROVE  Backs'
<1>1. TypeOK /\ 0 \in Levels /\ Owned(w) /\ lvl[w] \in Levels /\ mine[w] \in Offsets
  BY ConstantFacts, LocalReads DEF IInv
<1>2. Splicing(w)
  BY DEF SetNext, Splicing
<1>3. lvl[w] = 0 => ~Member(mine[w], 0)
  BY <1>2, BottomSplice
<1>4. ASSUME NEW n, Member(n, 0) PROVE tower'[n][0] = tower[n][0]
  <2>1. n \in Offsets
    BY <1>1, <1>4, MembersAreNodes DEF IInv
  <2>2. n # mine[w] \/ lvl[w] # 0
    BY <1>3, <1>4
  <2>3. QED
    BY <1>1, <2>1, <2>2 DEF SetNext, TypeOK
<1>5. \A u \in Writers : u # w => ~Pending(u) /\ ~Pending(u)'
  BY OthersIdle DEF Work
<1>6. Pending(w)' <=> Pending(w)
  BY <1>1 DEF SetNext, TypeOK, Pending
<1>7. UNCHANGED <<linked, back, mine, prev, next>>
  BY DEF SetNext
<1>8. QED
  BY <1>4, <1>5, <1>6, <1>7, BacksStay

\* The link that makes the new node its successor's predecessor in the list too.
LEMMA LinkKeepsBacks ==
  ASSUME IInv, Backs, ~allow_concurrent_write, NEW w \in Writers, Link(w)
  PROVE  Backs'
<1> DEFINE i == lvl[w]
           p == prev[w][i]
           s == next[w][i]
           m == mine[w]
<1>1. TypeOK /\ NoGap /\ LinkedNodes /\ 0 \in Levels
  BY ConstantFacts DEF IInv
<1>2. LinkFacts(w, i, p, s, m)
  BY LinkSituation
<1>3. \A u \in Writers : u # w => ~Pending(u) /\ ~Pending(u)'
  BY OthersIdle DEF Work
<1>4. ~Pending(w)'
  <2>1. i + 1 # 0
    BY <1>1, LocalReads, ConstantFacts DEF Levels
  <2>2. QED
    BY <1>1, <2>1 DEF Link, Return, TypeOK, Pending
<1>5. back' = back
  BY DEF Link
<1>6. CASE i # 0
  <2>1. ~Pending(w)
    BY <1>6 DEF Pending
  <2>2. linked'[0] = linked[0]
    BY <1>1, <1>2, <1>6 DEF LinkFacts
  <2>3. ASSUME NEW n, Member(n, 0) PROVE tower'[n][0] = tower[n][0]
    <3>1. n \in Offsets
      BY <1>1, <2>3, MembersAreNodes
    <3>2. QED
      BY <1>1, <1>2, <1>6, <3>1 DEF LinkFacts
  <2>4. QED
    BY <1>3, <1>4, <1>5, <2>1, <2>2, <2>3, BacksStay
<1>7. CASE i = 0
  <2>1. Pending(w) /\ Splicing(w)
    BY <1>7 DEF Link, Pending, Splicing
  <2>2. back[m] = p /\ (s # NULL => back[s] = m)
    BY <1>7, <2>1 DEF Backs, Joined
  <2>3. /\ tower'[p][0] = m /\ tower'[m][0] = s /\ p # m
        /\ p \in Offsets /\ m \in Offsets
        /\ \A x \in Offsets : x # p => tower'[x][0] = tower[x][0]
        /\ linked'[0] = linked[0] \cup {m}
    BY <1>1, <1>2, <1>7 DEF LinkFacts
  <2>4. ASSUME NEW n \in Offsets PROVE Inverted(n)'
    <3> SUFFICES ASSUME Member(n, 0)', tower'[n][0] # NULL
                 PROVE  back'[tower'[n][0]] = n
      BY DEF Inverted
    <3>1. CASE n = p
      BY <1>5, <2>2, <2>3, <3>1
    <3>2. CASE n = m
      BY <1>5, <2>2, <2>3, <3>2
    <3>3. CASE n # p /\ n # m
      <4>1. Member(n, 0) /\ tower'[n][0] = tower[n][0]
        BY <2>3, <3>3 DEF Member
      <4>2. Settled(n)
        BY <1>3, <1>7, <3>3 DEF Settled
      <4>3. QED
        BY <1>5, <4>1, <4>2 DEF Backs, Inverted
    <3>4. QED
      BY <3>1, <3>2, <3>3
  <2>5. ASSUME NEW u \in Writers PROVE Joined(u)'
    BY <1>3, <1>4 DEF Joined
  <2>6. QED
    BY <2>4, <2>5 DEF Backs
<1>8. QED
  BY <1>6, <1>7

LEMMA InitBacks == Init => Backs
<1> SUFFICES ASSUME Init PROVE Backs
  OBVIOUS
<1>1. \A n \in Offsets : tower[n][0] = NULL
  BY ConstantFacts DEF Init, NoLinks
<1>2. \A w \in Writers : ~Pending(w)
  BY DEF Init, Pending
<1>3. QED
  BY <1>1, <1>2 DEF Backs, Inverted, Joined

LEMMA StepBacks == IInv /\ Backs /\ [Next]_vars => Backs'
<1> SUFFICES ASSUME IInv, Backs, [Next]_vars PROVE Backs'
  OBVIOUS
<1>1. ASSUME NEW w \in Writers, Call(w) \/ Work(w) PROVE Backs'
  <2>1. CASE allow_concurrent_write
    BY <1>1, <2>1, ModeStays DEF Backs
  <2>2. CASE ~allow_concurrent_write
    BY <1>1, <2>2, OthersIdle, SearchKeepsBacks, AllocKeepsBacks, BackLinkKeepsBacks,
       SetNextKeepsBacks, LinkKeepsBacks DEF Work
  <2>3. QED
    BY <2>1, <2>2
<1>2. CASE UNCHANGED vars
  BY <1>2 DEF vars, shared, local, Backs, Inverted, Settled, Joined, Pending, Member
<1>3. QED
  BY <1>1, <1>2 DEF Next

(***************************************************************************)
(* With a single writer, the prev pointers are the inverse of the level-0  *)
(* list whenever no put is running: what IterRef.prev follows.             *)
(***************************************************************************)
THEOREM BackLinks == Spec => []BackLinksInverse
<1>1. IInv /\ Backs => BackLinksInverse
  <2> SUFFICES ASSUME IInv, Backs, ~allow_concurrent_write, \A w \in Writers : pc[w] = "idle",
                      NEW n \in linked[0] \cup {head}, tower[n][0] # NULL
               PROVE  back[tower[n][0]] = n
    BY DEF BackLinksInverse
  <2>1. Member(n, 0) /\ n \in Offsets
    BY ConstantFacts, SharedReads DEF Member, IInv
  <2>2. Settled(n)
    BY DEF Settled, Pending
  <2>3. QED
    BY <2>1, <2>2 DEF Backs, Inverted
<1>2. QED
  BY <1>1, InitBacks, StepBacks, Invariance, PTL DEF Spec
=============================================================================
