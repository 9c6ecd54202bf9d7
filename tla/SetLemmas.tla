----------------------------- MODULE SetLemmas -----------------------------
(* Lemmas about finite sets that several proofs need: sums over them, and     *)
(* their least and greatest elements.  A sum over a finite set is what it is  *)
(* without one element, and that element, whichever one it is.                *)
EXTENDS Integers, FiniteSets, Functions, FiniteSetsExt, TLAPS,
        WellFoundedInduction, FiniteSetTheorems

\* the sum of f[x] over the x of T
SumOver(f, T) == SumFunctionOnSet(f, T)

\* A non-empty set of subsets of a finite set has one that contains no other.
LEMMA Smallest ==
  ASSUME NEW S, IsFiniteSet(S), NEW B \in SUBSET SUBSET S, B # {}
  PROVE  \E m \in B : \A t \in B : t \subseteq m => t = m
<1>1. IsWellFoundedOn(StrictSubsetOrdering(S), FiniteSubsetsOf(S))
  BY FS_StrictSubsetOrderingWellFounded
<1>2. B \subseteq FiniteSubsetsOf(S)
  BY FS_Subset DEF FiniteSubsetsOf
<1>3. PICK m \in B : \A t \in B : ~ (<<t, m>> \in StrictSubsetOrdering(S))
  BY <1>1, <1>2, WFMin
<1>4. \A t \in B : t \subseteq m => t = m
  BY <1>3 DEF StrictSubsetOrdering
<1> QED BY <1>4

Pick(u) == CHOOSE x \in u : TRUE

\* g holds the sums over the subsets of T
Sums(f, T, g) == g = [u \in SUBSET T |-> IF u = {} THEN 0 ELSE f[Pick(u)] + g[u \ {Pick(u)}]]

\* The sum is the value at T of the function that holds the sums.
LEMMA SumIs ==
  ASSUME NEW f, NEW T
  PROVE  SumOver(f, T) = (CHOOSE g : Sums(f, T, g))[T]
BY DEF SumOver, SumFunctionOnSet, FoldFunctionOnSet, MapThenFoldSet, Sums, Pick

\* A set that is not empty holds what is picked of it.
LEMMA Picked ==
  ASSUME NEW u, u # {}
  PROVE  Pick(u) \in u /\ u \ {Pick(u)} \subseteq u /\ u \ {Pick(u)} # u
BY DEF Pick

\* What such a function is at one subset.
LEMMA SumsAt ==
  ASSUME NEW f, NEW T, NEW g, Sums(f, T, g), NEW u, u \subseteq T
  PROVE  g[u] = IF u = {} THEN 0 ELSE f[Pick(u)] + g[u \ {Pick(u)}]
<1> DEFINE h == [v \in SUBSET T |-> IF v = {} THEN 0 ELSE f[Pick(v)] + g[v \ {Pick(v)}]]
<1>1. g = h
  BY DEF Sums
<1>2. u \in SUBSET T
  OBVIOUS
<1>3. h[u] = IF u = {} THEN 0 ELSE f[Pick(u)] + g[u \ {Pick(u)}]
  BY <1>2
<1> QED BY <1>1, <1>3

\* Two such functions agree where both are defined.
LEMMA SumsAgree ==
  ASSUME NEW f, NEW T, IsFiniteSet(T), NEW U, NEW g, NEW h, Sums(f, T, g), Sums(f, U, h),
         NEW w, w \subseteq T, w \subseteq U
  PROVE  g[w] = h[w]
<1> DEFINE B == {v \in SUBSET T : v \subseteq U /\ g[v] # h[v]}
<1> SUFFICES ASSUME B # {} PROVE FALSE
  OBVIOUS
<1>1. PICK m \in B : \A t \in B : t \subseteq m => t = m
  <2>1. B \in SUBSET SUBSET T
    OBVIOUS
  <2> HIDE DEF B
  <2> QED BY <2>1, Smallest
<1>2. m \subseteq T /\ m \subseteq U /\ g[m] # h[m]
  OBVIOUS
<1>3. CASE m = {}
  BY <1>2, <1>3, SumsAt
<1>4. CASE m # {}
  <2> DEFINE r == m \ {Pick(m)}
  <2>1. r \subseteq m /\ r # m
    BY <1>4, Picked
  <2>2. r \notin B
    BY <1>1, <2>1
  <2>3. g[r] = h[r]
    BY <1>2, <2>1, <2>2
  <2>4. g[m] = f[Pick(m)] + g[r]
    BY <1>2, <1>4, SumsAt
  <2>5. h[m] = f[Pick(m)] + h[r]
    <3>1. Sums(f, U, h) /\ m \subseteq U
      BY <1>2
    <3>2. h[m] = IF m = {} THEN 0 ELSE f[Pick(m)] + h[m \ {Pick(m)}]
      BY <3>1, SumsAt
    <3> QED BY <1>4, <3>2
  <2> QED BY <1>2, <2>3, <2>4, <2>5
<1> QED BY <1>3, <1>4

\* What holds the sums over the subsets of T holds them over those of a part.
LEMMA SumsRestricted ==
  ASSUME NEW f, NEW T, NEW g, Sums(f, T, g), NEW U, U \subseteq T
  PROVE  Sums(f, U, [u \in SUBSET U |-> g[u]])
<1> DEFINE h == [u \in SUBSET U |-> g[u]]
           k == [u \in SUBSET U |-> IF u = {} THEN 0 ELSE f[Pick(u)] + h[u \ {Pick(u)}]]
<1>1. ASSUME NEW u \in SUBSET U PROVE h[u] = k[u]
  <2>1. u \subseteq T /\ h[u] = g[u]
    OBVIOUS
  <2>2. g[u] = IF u = {} THEN 0 ELSE f[Pick(u)] + g[u \ {Pick(u)}]
    BY <2>1, SumsAt
  <2>3. h[u \ {Pick(u)}] = g[u \ {Pick(u)}]
    OBVIOUS
  <2>4. k[u] = IF u = {} THEN 0 ELSE f[Pick(u)] + h[u \ {Pick(u)}]
    OBVIOUS
  <2> HIDE DEF h, k
  <2> QED BY <2>1, <2>2, <2>3, <2>4
<1>2. h = k
  <2>1. DOMAIN h = SUBSET U /\ DOMAIN k = SUBSET U
    OBVIOUS
  <2> QED BY <1>1, <2>1
<1> QED BY <1>2 DEF Sums

\* For every finite set there is a function that holds the sums.
LEMMA SumsExist ==
  ASSUME NEW f, NEW T, IsFiniteSet(T)
  PROVE  \E g : Sums(f, T, g)
<1> DEFINE B == {v \in SUBSET T : ~ \E g : Sums(f, v, g)}
<1> SUFFICES ASSUME B # {} PROVE FALSE
  OBVIOUS
<1>1. PICK m \in B : \A t \in B : t \subseteq m => t = m
  <2>1. B \in SUBSET SUBSET T
    OBVIOUS
  <2> HIDE DEF B
  <2> QED BY <2>1, Smallest
<1>2. m \subseteq T /\ ~ \E g : Sums(f, m, g)
  OBVIOUS
<1>3. \A u : u \subseteq m /\ u # m => \E g : Sums(f, u, g)
  BY <1>1, <1>2
<1> DEFINE G(u) == CHOOSE g : Sums(f, u, g)
           r(u) == u \ {Pick(u)}
           g == [u \in SUBSET m |-> IF u = {} THEN 0 ELSE f[Pick(u)] + G(r(u))[r(u)]]
<1>4. \A u : u \subseteq m /\ u # m => Sums(f, u, G(u))
  BY <1>3
<1>5. ASSUME NEW u, u \subseteq m, u # {}
      PROVE  g[r(u)] = G(r(u))[r(u)]
  <2> DEFINE w == r(u)
  <2>1. w \subseteq m /\ w # m /\ IsFiniteSet(w)
    BY <1>2, <1>5, Picked, FS_Subset
  <2>2. Sums(f, w, G(w))
    BY <1>4, <2>1
  <2>3. w \in SUBSET m
    BY <2>1
  <2>4. g[w] = IF w = {} THEN 0 ELSE f[Pick(w)] + G(r(w))[r(w)]
    BY <2>3
  <2> HIDE DEF g, G
  <2>5. G(w)[w] = IF w = {} THEN 0 ELSE f[Pick(w)] + G(w)[r(w)]
    <3> DEFINE a == G(w)
    <3>1. Sums(f, w, a) /\ w \subseteq w
      BY <2>2
    <3> HIDE DEF a, w, B, r
    <3>2. a[w] = IF w = {} THEN 0 ELSE f[Pick(w)] + a[w \ {Pick(w)}]
      BY <3>1, SumsAt
    <3> QED BY <3>2 DEF a, w, r
  <2>6. CASE w = {}
    BY <2>4, <2>5, <2>6
  <2>7. CASE w # {}
    <3>1. r(w) \subseteq w /\ r(w) # w
      BY <2>7, Picked
    <3>2. Sums(f, r(w), G(r(w)))
      BY <1>4, <2>1, <3>1
    <3>3. G(w)[r(w)] = G(r(w))[r(w)]
      <4> DEFINE a == G(w)
                 b == G(r(w))
                 x == r(w)
      <4>1. IsFiniteSet(w) /\ Sums(f, w, a) /\ Sums(f, x, b) /\ x \subseteq w /\ x \subseteq x
        BY <2>1, <2>2, <3>1, <3>2
      <4> HIDE DEF a, b, x, w
      <4>2. a[x] = b[x]
        BY <4>1, SumsAgree
      <4> QED BY <4>2 DEF a, b, x, w
    <3> QED BY <2>4, <2>5, <2>7, <3>3
  <2> QED BY <2>6, <2>7
<1>6. Sums(f, m, g)
  <2> DEFINE k == [u \in SUBSET m |-> IF u = {} THEN 0 ELSE f[Pick(u)] + g[r(u)]]
  <2>1. ASSUME NEW u \in SUBSET m PROVE g[u] = k[u]
    <3>1. g[u] = IF u = {} THEN 0 ELSE f[Pick(u)] + G(r(u))[r(u)]
      OBVIOUS
    <3>2. k[u] = IF u = {} THEN 0 ELSE f[Pick(u)] + g[r(u)]
      OBVIOUS
    <3> HIDE DEF g, k, G
    <3> QED BY <1>5, <3>1, <3>2
  <2>2. DOMAIN g = SUBSET m /\ DOMAIN k = SUBSET m
    OBVIOUS
  <2>3. g = k
    <3>1. g = [u \in SUBSET m |-> g[u]] /\ k = [u \in SUBSET m |-> k[u]]
      OBVIOUS
    <3> HIDE DEF g, k
    <3> QED BY <2>1, <3>1
  <2> QED BY <2>3 DEF Sums
<1> QED BY <1>2, <1>6

\* Of nothing there is no sum.
LEMMA SumEmpty ==
  ASSUME NEW f
  PROVE  SumOver(f, {}) = 0
<1>1. Sums(f, {}, CHOOSE g : Sums(f, {}, g))
  BY SumsExist, FS_EmptySet
<1> DEFINE h == CHOOSE g : Sums(f, {}, g)
<1> HIDE DEF h
<1>2. h[{}] = 0
  BY <1>1, SumsAt DEF h
<1> QED BY <1>2, SumIs DEF h

\* The sum without the element that is picked.
LEMMA SumStep ==
  ASSUME NEW f, NEW T, IsFiniteSet(T), T # {}
  PROVE  SumOver(f, T) = f[Pick(T)] + SumOver(f, T \ {Pick(T)})
<1> DEFINE U == T \ {Pick(T)}
           a == CHOOSE g : Sums(f, T, g)
           b == CHOOSE g : Sums(f, U, g)
<1>1. Sums(f, T, a)
  BY SumsExist
<1>2. U \subseteq T /\ IsFiniteSet(U)
  BY FS_Subset
<1>3. Sums(f, U, b)
  BY <1>2, SumsExist
<1>4. SumOver(f, T) = a[T] /\ SumOver(f, U) = b[U]
  BY SumIs
<1> HIDE DEF a, b
<1>5. a[T] = f[Pick(T)] + a[U]
  BY <1>1, SumsAt
<1>6. a[U] = b[U]
  <2> HIDE DEF U
  <2> QED BY <1>1, <1>2, <1>3, SumsAgree
<1> QED BY <1>4, <1>5, <1>6

\* A sum of whole numbers is one, and not negative when none of them is.
LEMMA SumTyped ==
  ASSUME NEW T, IsFiniteSet(T), NEW f, \A x \in T : f[x] \in Int
  PROVE  /\ SumOver(f, T) \in Int
         /\ (\A x \in T : f[x] >= 0) => SumOver(f, T) >= 0
<1> DEFINE Fine(v) == /\ SumOver(f, v) \in Int
                      /\ (\A x \in T : f[x] >= 0) => SumOver(f, v) >= 0
           B == {v \in SUBSET T : ~ Fine(v)}
<1> SUFFICES ASSUME B # {} PROVE FALSE
  OBVIOUS
<1>1. PICK m \in B : \A t \in B : t \subseteq m => t = m
  <2>1. B \in SUBSET SUBSET T
    OBVIOUS
  <2> HIDE DEF B
  <2> QED BY <2>1, Smallest
<1>2. m \subseteq T /\ ~ Fine(m) /\ IsFiniteSet(m)
  BY FS_Subset
<1>3. m # {}
  BY <1>2, SumEmpty
<1> DEFINE r == m \ {Pick(m)}
<1>4. Pick(m) \in T /\ r \subseteq m /\ r # m
  BY <1>2, <1>3, Picked
<1>5. Fine(r)
  BY <1>1, <1>2, <1>4
<1>6. SumOver(f, m) = f[Pick(m)] + SumOver(f, r)
  BY <1>2, <1>3, SumStep
<1> HIDE DEF r, B
<1>7. f[Pick(m)] \in Int
  BY <1>4
<1>8. (\A x \in T : f[x] >= 0) => f[Pick(m)] >= 0
  BY <1>4
<1> DEFINE all == \A x \in T : f[x] >= 0
           a == f[Pick(m)]
           b == SumOver(f, r)
           c == SumOver(f, m)
<1>9. /\ c = a + b /\ a \in Int /\ b \in Int
      /\ all => a >= 0
      /\ all => b >= 0
      /\ c \notin Int \/ (all /\ ~ (c >= 0))
  <2>1. c = a + b /\ a \in Int
    BY <1>6, <1>7
  <2>2. b \in Int /\ (all => b >= 0)
    BY <1>5
  <2>3. c \notin Int \/ (all /\ ~ (c >= 0))
    BY <1>2
  <2>4. all => a >= 0
    BY <1>8
  <2> HIDE DEF all, a, b, c
  <2> QED BY <2>1, <2>2, <2>3, <2>4
<1> HIDE DEF all, a, b, c
<1> QED BY <1>9

\* The sum without any one element.
LEMMA SumWithout ==
  ASSUME NEW T, IsFiniteSet(T), NEW f, \A y \in T : f[y] \in Int, NEW x \in T
  PROVE  SumOver(f, T) = f[x] + SumOver(f, T \ {x})
<1> DEFINE Fine(v) == \A y \in v : SumOver(f, v) = f[y] + SumOver(f, v \ {y})
           B == {v \in SUBSET T : ~ Fine(v)}
<1> SUFFICES B = {}
  <2>1. T \in SUBSET T
    OBVIOUS
  <2> QED BY <2>1
<1> SUFFICES ASSUME B # {} PROVE FALSE
  OBVIOUS
<1>1. PICK m \in B : \A t \in B : t \subseteq m => t = m
  <2>1. B \in SUBSET SUBSET T
    OBVIOUS
  <2> HIDE DEF B
  <2> QED BY <2>1, Smallest
<1>2. m \subseteq T /\ ~ Fine(m) /\ IsFiniteSet(m)
  BY FS_Subset
<1>3. \A v : v \subseteq m /\ v # m => Fine(v)
  BY <1>1, <1>2
<1>4. PICK y \in m : SumOver(f, m) # f[y] + SumOver(f, m \ {y})
  BY <1>2
<1> DEFINE p == Pick(m)
           r == m \ {p}
           w == m \ {y}
           n == r \ {y}
<1>5. p \in m /\ r \subseteq m /\ r # m
  BY <1>4, Picked
<1>6. SumOver(f, m) = f[p] + SumOver(f, r)
  BY <1>2, <1>4, SumStep
<1>7. p # y
  BY <1>4, <1>6
<1>8. y \in r /\ p \in w /\ w \subseteq m /\ w # m /\ w \ {p} = n /\ n \subseteq T
  BY <1>2, <1>5, <1>7
<1>9. SumOver(f, r) = f[y] + SumOver(f, n)
  BY <1>3, <1>5, <1>8
<1>10. SumOver(f, w) = f[p] + SumOver(f, n)
  BY <1>3, <1>8
<1>11. SumOver(f, n) \in Int
  BY <1>8, SumTyped, FS_Subset
<1>12. f[p] \in Int /\ f[y] \in Int
  BY <1>2, <1>5
<1> HIDE DEF p, r, n, B
<1>13. SumOver(f, m) # f[y] + SumOver(f, w)
  BY <1>4
<1> HIDE DEF w
<1> QED BY <1>6, <1>9, <1>10, <1>11, <1>12, <1>13

\* Two functions that agree on a set have the same sum over it.
LEMMA SumSame ==
  ASSUME NEW T, IsFiniteSet(T), NEW f, NEW g, \A x \in T : f[x] = g[x]
  PROVE  SumOver(f, T) = SumOver(g, T)
<1> DEFINE B == {v \in SUBSET T : SumOver(f, v) # SumOver(g, v)}
<1> SUFFICES ASSUME B # {} PROVE FALSE
  OBVIOUS
<1>1. PICK m \in B : \A t \in B : t \subseteq m => t = m
  <2>1. B \in SUBSET SUBSET T
    OBVIOUS
  <2> HIDE DEF B
  <2> QED BY <2>1, Smallest
<1>2. m \subseteq T /\ SumOver(f, m) # SumOver(g, m) /\ IsFiniteSet(m)
  BY FS_Subset
<1>3. m # {}
  BY <1>2, SumEmpty
<1> DEFINE r == m \ {Pick(m)}
<1>4. Pick(m) \in T /\ r \subseteq m /\ r # m
  BY <1>2, <1>3, Picked
<1>5. SumOver(f, r) = SumOver(g, r)
  BY <1>1, <1>2, <1>4
<1>6. SumOver(f, m) = f[Pick(m)] + SumOver(f, r) /\ SumOver(g, m) = g[Pick(m)] + SumOver(g, r)
  BY <1>2, <1>3, SumStep
<1> QED BY <1>2, <1>4, <1>5, <1>6

\* When two functions differ at one element, so much do their sums.
LEMMA SumMoved ==
  ASSUME NEW T, IsFiniteSet(T), NEW f, NEW g, NEW x \in T,
         \A y \in T : f[y] \in Int /\ g[y] \in Int,
         \A y \in T : y # x => f[y] = g[y]
  PROVE  SumOver(g, T) = SumOver(f, T) - f[x] + g[x]
<1> DEFINE U == T \ {x}
<1>1. IsFiniteSet(U) /\ U \subseteq T
  BY FS_Subset
<1>2. SumOver(f, U) = SumOver(g, U)
  BY <1>1, SumSame
<1>3. SumOver(f, T) = f[x] + SumOver(f, U)
  BY SumWithout
<1>4. SumOver(g, T) = g[x] + SumOver(g, U)
  BY SumWithout
<1>5. SumOver(f, U) \in Int
  BY <1>1, SumTyped
<1> HIDE DEF U
<1> QED BY <1>2, <1>3, <1>4, <1>5

\* An element more.
LEMMA SumWith ==
  ASSUME NEW T, IsFiniteSet(T), NEW f, NEW x, x \notin T,
         \A y \in T \cup {x} : f[y] \in Int
  PROVE  SumOver(f, T \cup {x}) = SumOver(f, T) + f[x]
<1> DEFINE U == T \cup {x}
<1>1. IsFiniteSet(U) /\ x \in U /\ U \ {x} = T
  BY FS_AddElement
<1>2. SumOver(f, U) = f[x] + SumOver(f, T)
  BY <1>1, SumWithout
<1>3. SumOver(f, T) \in Int
  BY SumTyped
<1> QED BY <1>2, <1>3

\* Where no value is greater the sum is not.
LEMMA SumAtMost ==
  ASSUME NEW T, IsFiniteSet(T), NEW f, NEW g,
         \A x \in T : f[x] \in Int /\ g[x] \in Int /\ f[x] <= g[x]
  PROVE  SumOver(f, T) <= SumOver(g, T)
<1> DEFINE B == {v \in SUBSET T : ~ (SumOver(f, v) <= SumOver(g, v))}
<1> SUFFICES ASSUME B # {} PROVE FALSE
  OBVIOUS
<1>1. PICK m \in B : \A t \in B : t \subseteq m => t = m
  <2>1. B \in SUBSET SUBSET T
    OBVIOUS
  <2> HIDE DEF B
  <2> QED BY <2>1, Smallest
<1>2. m \subseteq T /\ ~ (SumOver(f, m) <= SumOver(g, m)) /\ IsFiniteSet(m)
  BY FS_Subset
<1>3. m # {}
  BY <1>2, SumEmpty
<1> DEFINE r == m \ {Pick(m)}
<1>4. Pick(m) \in T /\ r \subseteq m /\ r # m /\ r \subseteq T /\ IsFiniteSet(r)
  BY <1>2, <1>3, Picked, FS_Subset
<1>5. SumOver(f, r) <= SumOver(g, r)
  BY <1>1, <1>2, <1>4
<1>6. SumOver(f, m) = f[Pick(m)] + SumOver(f, r) /\ SumOver(g, m) = g[Pick(m)] + SumOver(g, r)
  BY <1>2, <1>3, SumStep
<1>7. SumOver(f, r) \in Int /\ SumOver(g, r) \in Int
  <2> HIDE DEF r
  <2>1. /\ \A x \in r : f[x] \in Int
        /\ \A x \in r : g[x] \in Int
    BY <1>4
  <2>2. SumOver(f, r) \in Int
    BY <1>4, <2>1, SumTyped
  <2>3. SumOver(g, r) \in Int
    BY <1>4, <2>1, SumTyped
  <2> QED BY <2>2, <2>3
<1> HIDE DEF r, B
<1> QED BY <1>2, <1>4, <1>5, <1>6, <1>7

\* No value is greater than the sum, where none is negative.
LEMMA SumAtLeast ==
  ASSUME NEW T, IsFiniteSet(T), NEW f, \A y \in T : f[y] \in Nat, NEW x \in T
  PROVE  SumOver(f, T) \in Nat /\ f[x] <= SumOver(f, T)
<1> DEFINE U == T \ {x}
<1>1. IsFiniteSet(U) /\ U \subseteq T
  BY FS_Subset
<1>2. SumOver(f, T) = f[x] + SumOver(f, U)
  BY SumWithout
<1>3. SumOver(f, U) \in Int /\ SumOver(f, U) >= 0
  BY <1>1, SumTyped
<1> HIDE DEF U
<1> QED BY <1>2, <1>3

-----------------------------------------------------------------------------
(* Least and greatest elements *)

\* A set of naturals that is not empty has a least one, and Min is it.
LEMMA MinIsLeast ==
  ASSUME NEW S \in SUBSET Nat, S # {}
  PROVE  Min(S) \in S /\ \A y \in S : Min(S) <= y
<1>1. PICK m \in S : \A y \in S : ~ (<<y, m>> \in OpToRel(<, Nat))
  BY WFMin, NatLessThanWellFounded
<1>2. \A y \in S : ~ (y < m)
  BY <1>1 DEF OpToRel
<1>3. \A y \in S : m <= y
  BY <1>2
<1> QED BY <1>3 DEF Min

\* A non-empty set of numbers up to N has a greatest one.
LEMMA Highest ==
  ASSUME NEW N \in Nat, NEW S \in SUBSET (0..N), S # {}
  PROVE  \E x \in S : \A y \in S : y <= x
<1> DEFINE T == {n \in Nat : N - n \in S}
<1>1. T \subseteq Nat
  OBVIOUS
<1>2. \A x \in S : x \in 0..N /\ N - x \in T
  OBVIOUS
<1>3. T # {}
  BY <1>2
<1>4. \A n \in T : N - n \in S /\ n \in Nat
  OBVIOUS
<1> HIDE DEF T
<1>5. PICK m \in T : \A y \in T : ~ (<<y, m>> \in OpToRel(<, Nat))
  BY <1>1, <1>3, WFMin, NatLessThanWellFounded
<1>6. \A y \in T : ~ (y < m)
  BY <1>1, <1>5 DEF OpToRel
<1>7. \A y \in S : y <= N - m
  BY <1>2, <1>4, <1>6
<1> QED BY <1>4, <1>7

\* Max of a finite set of naturals that is not empty is its greatest element.
LEMMA MaxIsGreatest ==
  ASSUME NEW S \in SUBSET Nat, IsFiniteSet(S), S # {}
  PROVE  Max(S) \in S /\ \A y \in S : y <= Max(S)
<1> DEFINE f == [y \in S |-> y]
           N == SumOver(f, S)
<1>1. /\ \A y \in S : f[y] = y
      /\ \A y \in S : f[y] \in Nat
  OBVIOUS
<1> HIDE DEF f
<1>2. N \in Nat /\ \A y \in S : y <= N
  BY <1>1, SumAtLeast
<1> HIDE DEF N
<1>3. S \subseteq 0..N
  BY <1>2
<1>4. PICK x \in S : \A y \in S : y <= x
  BY <1>2, <1>3, Highest
<1> QED BY <1>4 DEF Max


\* Of finitely many things one has the least number.
LEMMA LeastOf ==
  ASSUME NEW T, IsFiniteSet(T), T # {}, NEW f, \A x \in T : f[x] \in Int
  PROVE  \E x \in T : \A y \in T : f[x] <= f[y]
<1> DEFINE B == {v \in SUBSET T : v # {} /\ ~ \E x \in v : \A y \in v : f[x] <= f[y]}
<1> SUFFICES B = {}
  <2>1. T \in SUBSET T
    OBVIOUS
  <2> QED BY <2>1
<1> SUFFICES ASSUME B # {} PROVE FALSE
  OBVIOUS
<1>1. PICK m \in B : \A t \in B : t \subseteq m => t = m
  <2>1. B \in SUBSET SUBSET T
    OBVIOUS
  <2> HIDE DEF B
  <2> QED BY <2>1, Smallest
<1>2. m \subseteq T /\ m # {} /\ ~ \E x \in m : \A y \in m : f[x] <= f[y]
  OBVIOUS
<1> DEFINE p == Pick(m)
           r == m \ {p}
<1>3. p \in m /\ r \subseteq m /\ r # m
  BY <1>2, Picked
<1>4. r \notin B
  BY <1>1, <1>3
<1>5. CASE r = {}
  <2>1. \A y \in m : y = p
    BY <1>5
  <2>2. f[p] \in Int
    BY <1>2, <1>3
  <2> HIDE DEF p, B
  <2> QED BY <1>2, <1>3, <2>1, <2>2
<1>6. CASE r # {}
  <2>1. PICK x \in r : \A y \in r : f[x] <= f[y]
    BY <1>2, <1>3, <1>4, <1>6
  <2>2. f[x] \in Int /\ f[p] \in Int /\ x \in m
    BY <1>2, <1>3, <2>1
  <2>3. CASE f[x] <= f[p]
    <3>1. \A y \in m : f[x] <= f[y]
      BY <2>1, <2>3
    <3> QED BY <1>2, <2>2, <3>1
  <2>4. CASE ~ (f[x] <= f[p])
    <3>1. \A y \in m : f[p] <= f[y]
      <4> SUFFICES ASSUME NEW y \in m PROVE f[p] <= f[y]
        OBVIOUS
      <4>1. f[y] \in Int /\ (y = p \/ y \in r)
        BY <1>2
      <4> HIDE DEF p, r, B
      <4> QED BY <2>1, <2>2, <2>4, <4>1
    <3> QED BY <1>2, <1>3, <3>1
  <2> QED BY <2>3, <2>4
<1> QED BY <1>5, <1>6

-----------------------------------------------------------------------------
(* More of sums *)

\* The sum of the sums of two functions.
LEMMA SumPlus ==
  ASSUME NEW T, IsFiniteSet(T), NEW f, NEW g, NEW h,
         \A x \in T : f[x] \in Int /\ g[x] \in Int /\ h[x] = f[x] + g[x]
  PROVE  SumOver(h, T) = SumOver(f, T) + SumOver(g, T)
<1> DEFINE B == {v \in SUBSET T : SumOver(h, v) # SumOver(f, v) + SumOver(g, v)}
<1> SUFFICES ASSUME B # {} PROVE FALSE
  OBVIOUS
<1>1. PICK m \in B : \A t \in B : t \subseteq m => t = m
  <2>1. B \in SUBSET SUBSET T
    OBVIOUS
  <2> HIDE DEF B
  <2> QED BY <2>1, Smallest
<1>2. m \subseteq T /\ SumOver(h, m) # SumOver(f, m) + SumOver(g, m) /\ IsFiniteSet(m)
  BY FS_Subset
<1>3. m # {}
  <2>1. SumOver(f, {}) = 0 /\ SumOver(g, {}) = 0 /\ SumOver(h, {}) = 0
    BY SumEmpty
  <2>2. m = {} => SumOver(h, m) = SumOver(f, m) + SumOver(g, m)
    <3> SUFFICES ASSUME m = {} PROVE SumOver(h, {}) = SumOver(f, {}) + SumOver(g, {})
      OBVIOUS
    <3> QED BY <2>1
  <2> QED BY <1>2, <2>2
<1> DEFINE r == m \ {Pick(m)}
<1>4. Pick(m) \in T /\ r \subseteq m /\ r # m /\ r \subseteq T /\ IsFiniteSet(r)
  BY <1>2, <1>3, Picked, FS_Subset
<1>5. SumOver(h, r) = SumOver(f, r) + SumOver(g, r)
  BY <1>1, <1>2, <1>4
<1>6. /\ SumOver(f, m) = f[Pick(m)] + SumOver(f, r)
      /\ SumOver(g, m) = g[Pick(m)] + SumOver(g, r)
      /\ SumOver(h, m) = h[Pick(m)] + SumOver(h, r)
  BY <1>2, <1>3, SumStep
<1>7. SumOver(f, r) \in Int /\ SumOver(g, r) \in Int
  <2> HIDE DEF r
  <2>1. /\ \A x \in r : f[x] \in Int
        /\ \A x \in r : g[x] \in Int
    BY <1>4
  <2>2. SumOver(f, r) \in Int
    BY <1>4, <2>1, SumTyped
  <2>3. SumOver(g, r) \in Int
    BY <1>4, <2>1, SumTyped
  <2> QED BY <2>2, <2>3
<1>8. f[Pick(m)] \in Int /\ g[Pick(m)] \in Int /\ h[Pick(m)] = f[Pick(m)] + g[Pick(m)]
  BY <1>4
<1> HIDE DEF r, B
<1> QED BY <1>2, <1>5, <1>6, <1>7, <1>8

\* The sum over a part is that of a function that is zero elsewhere.
LEMMA SumPart ==
  ASSUME NEW T, IsFiniteSet(T), NEW U \in SUBSET T, NEW f, NEW g,
         \A x \in T : f[x] \in Int, \A x \in U : g[x] = f[x], \A x \in T \ U : g[x] = 0
  PROVE  SumOver(g, T) = SumOver(f, U)
<1> DEFINE B == {v \in SUBSET T : SumOver(g, v) # SumOver(f, v \cap U)}
<1> SUFFICES B = {}
  <2>1. T \in SUBSET T /\ T \cap U = U
    OBVIOUS
  <2> QED BY <2>1
<1> SUFFICES ASSUME B # {} PROVE FALSE
  OBVIOUS
<1>1. PICK m \in B : \A t \in B : t \subseteq m => t = m
  <2>1. B \in SUBSET SUBSET T
    OBVIOUS
  <2> HIDE DEF B
  <2> QED BY <2>1, Smallest
<1>2. m \subseteq T /\ SumOver(g, m) # SumOver(f, m \cap U) /\ IsFiniteSet(m)
  BY FS_Subset
<1>3. m # {}
  <2> SUFFICES ASSUME m = {} PROVE FALSE
    OBVIOUS
  <2>1. m \cap U = {}
    OBVIOUS
  <2> QED BY <1>2, <2>1, SumEmpty
<1> DEFINE p == Pick(m)
           r == m \ {p}
           w == m \cap U
           n == r \cap U
<1>4. p \in m /\ p \in T /\ r \subseteq m /\ r # m /\ r \subseteq T /\ IsFiniteSet(r)
  BY <1>2, <1>3, Picked, FS_Subset
<1>5. SumOver(g, r) = SumOver(f, n)
  BY <1>1, <1>2, <1>4
<1>6. SumOver(g, m) = g[p] + SumOver(g, r)
  BY <1>2, <1>3, SumStep
<1>7. IsFiniteSet(w) /\ IsFiniteSet(n) /\ (\A x \in w : f[x] \in Int) /\ (\A x \in n : f[x] \in Int)
  BY <1>2, <1>4, FS_Subset
<1>8. SumOver(f, n) \in Int
  <2> HIDE DEF n
  <2> QED BY <1>7, SumTyped
<1>9. CASE p \in U
  <2>1. p \in w /\ w \ {p} = n
    BY <1>4, <1>9
  <2>2. SumOver(f, w) = f[p] + SumOver(f, n)
    <3> HIDE DEF w, n, p
    <3> QED BY <1>7, <2>1, SumWithout
  <2> QED BY <1>2, <1>5, <1>6, <1>9, <2>2
<1>10. CASE p \notin U
  <2>1. w = n /\ g[p] = 0
    BY <1>4, <1>10
  <2>2. SumOver(g, m) # SumOver(f, w)
    BY <1>2
  <2> HIDE DEF w, n, p, r
  <2> QED BY <1>5, <1>6, <1>8, <2>1, <2>2
<1> QED BY <1>9, <1>10

\* A sequence that is longer by one.
LEMMA SumLonger ==
  ASSUME NEW n \in Nat, NEW f, NEW g,
         \A i \in 1..(n + 1) : g[i] \in Int, \A i \in 1..n : f[i] = g[i]
  PROVE  SumOver(g, 1..(n + 1)) = SumOver(f, 1..n) + g[n + 1]
<1> DEFINE T == 1..n
<1>1. IsFiniteSet(T) /\ n + 1 \notin T /\ 1..(n + 1) = T \cup {n + 1}
  BY FS_Interval
<1>2. \A y \in T \cup {n + 1} : g[y] \in Int
  BY <1>1
<1>3. \A i \in T : f[i] = g[i]
  OBVIOUS
<1> HIDE DEF T
<1>4. SumOver(g, T \cup {n + 1}) = SumOver(g, T) + g[n + 1]
  BY <1>1, <1>2, SumWith
<1>5. SumOver(g, T) = SumOver(f, T)
  BY <1>1, <1>3, SumSame
<1> QED BY <1>1, <1>4, <1>5 DEF T

\* A sequence and what follows its first.
LEMMA SumShifted ==
  ASSUME NEW n \in Nat, NEW f, NEW g,
         \A i \in 1..(n + 1) : f[i] \in Int, \A i \in 1..n : g[i] = f[i + 1]
  PROVE  SumOver(f, 1..(n + 1)) = f[1] + SumOver(g, 1..n)
<1> DEFINE B == {k \in 0..n : SumOver(f, 1..(k + 1)) # f[1] + SumOver(g, 1..k)}
<1> SUFFICES B = {}
  <2>1. n \in 0..n
    OBVIOUS
  <2> QED BY <2>1
<1> SUFFICES ASSUME B # {} PROVE FALSE
  OBVIOUS
<1>1. PICK k \in B : \A j \in B : k <= j
  <2>1. B \in SUBSET Nat
    OBVIOUS
  <2> HIDE DEF B
  <2> QED BY <2>1, MinIsLeast
<1>2. k \in 0..n /\ SumOver(f, 1..(k + 1)) # f[1] + SumOver(g, 1..k)
  OBVIOUS
<1>3. CASE k = 0
  <2>1. 1..k = {} /\ 1..(0 + 1) = 1..1
    BY <1>3
  <2>2. SumOver(f, 1..(0 + 1)) = SumOver(f, 1..0) + f[0 + 1]
    <3>1. \A i \in 1..(0 + 1) : f[i] \in Int
      BY <1>2
    <3> QED BY <3>1, SumLonger
  <2>3. 1..0 = {} /\ SumOver(f, {}) = 0 /\ SumOver(g, {}) = 0
    BY SumEmpty
  <2> QED BY <1>2, <1>3, <2>1, <2>2, <2>3
<1>4. CASE k # 0
  <2>1. PICK j \in Nat : k = j + 1
    <3>1. k - 1 \in Nat /\ k = (k - 1) + 1
      BY <1>2, <1>4
    <3> QED BY <3>1
  <2>2. j \in 0..n /\ ~ (k <= j)
    BY <1>2, <2>1
  <2>3. SumOver(f, 1..(j + 1)) = f[1] + SumOver(g, 1..j)
    BY <1>1, <2>2
  <2>4. SumOver(f, 1..(k + 1)) = SumOver(f, 1..k) + f[k + 1]
    <3>1. \A i \in 1..(k + 1) : f[i] \in Int
      BY <1>2
    <3> QED BY <1>2, <3>1, SumLonger
  <2>5. SumOver(g, 1..(j + 1)) = SumOver(g, 1..j) + g[j + 1]
    <3>1. \A i \in 1..(j + 1) : g[i] \in Int
      <4>1. ASSUME NEW i \in 1..(j + 1) PROVE g[i] \in Int
        <5>1. i \in 1..n /\ i + 1 \in 1..(n + 1)
          BY <1>2, <2>1
        <5> QED BY <5>1
      <4> QED BY <4>1
    <3> QED BY <2>1, <3>1, SumLonger
  <2>6. g[j + 1] = f[k + 1] /\ f[1] \in Int /\ f[k + 1] \in Int
    BY <1>2, <2>1
  <2>7. SumOver(g, 1..j) \in Int
    <3>1. \A i \in 1..j : g[i] \in Int
      <4>1. ASSUME NEW i \in 1..j PROVE g[i] \in Int
        <5>1. i \in 1..n /\ i + 1 \in 1..(n + 1)
          BY <1>2, <2>1
        <5> QED BY <5>1
      <4> QED BY <4>1
    <3>2. IsFiniteSet(1..j)
      BY <2>1, FS_Interval
    <3> QED BY <3>1, <3>2, SumTyped
  <2> HIDE DEF B
  <2> QED BY <1>2, <2>1, <2>3, <2>4, <2>5, <2>6, <2>7
<1> QED BY <1>3, <1>4

\* A sequence of which the first changes.
LEMMA SumFirst ==
  ASSUME NEW n \in Nat, NEW f, NEW g,
         \A i \in 1..(n + 1) : f[i] \in Int /\ g[i] \in Int, \A i \in 2..(n + 1) : f[i] = g[i]
  PROVE  SumOver(g, 1..(n + 1)) = SumOver(f, 1..(n + 1)) - f[1] + g[1]
<1> DEFINE T == 1..(n + 1)
<1>1. PICK x : x = 1
  OBVIOUS
<1>2. IsFiniteSet(T) /\ x \in T /\ \A i \in T : i # x => f[i] = g[i]
  <2>1. \A i \in T : i # 1 => i \in 2..(n + 1)
    OBVIOUS
  <2> QED BY <1>1, <2>1, FS_Interval
<1>3. \A i \in T : f[i] \in Int /\ g[i] \in Int
  OBVIOUS
<1> HIDE DEF T
<1>4. SumOver(g, T) = SumOver(f, T) - f[x] + g[x]
  BY <1>2, <1>3, SumMoved
<1> QED BY <1>1, <1>4 DEF T

\* A sum, group by group.
LEMMA SumGrouped ==
  ASSUME NEW T, IsFiniteSet(T), NEW K, IsFiniteSet(K), NEW key, \A x \in T : key[x] \in K,
         NEW f, \A x \in T : f[x] \in Int
  PROVE  SumOver(f, T) = SumOver([c \in K |-> SumOver(f, {x \in T : key[x] = c})], K)
<1>a. ASSUME NEW a, NEW b, NEW k \in K, \A c \in K : a[c] \in Int /\ b[c] \in Int,
             \A c \in K : c # k => a[c] = b[c]
      PROVE  SumOver(b, K) = SumOver(a, K) - a[k] + b[k]
  <2>1. PICK f1, f2, D : f1 = a /\ f2 = b /\ D = K
    OBVIOUS
  <2>2. IsFiniteSet(D) /\ k \in D
    BY <1>a, <2>1
  <2>3. \A y \in D : f1[y] \in Int /\ f2[y] \in Int
    BY <1>a, <2>1
  <2>4. \A y \in D : y # k => f1[y] = f2[y]
    BY <1>a, <2>1
  <2>5. SumOver(f2, D) = SumOver(f1, D) - f1[k] + f2[k]
    BY <2>2, <2>3, <2>4, SumMoved
  <2> QED BY <2>1, <2>5
<1> DEFINE G(v) == [c \in K |-> SumOver(f, {x \in v : key[x] = c})]
           B == {v \in SUBSET T : SumOver(f, v) # SumOver(G(v), K)}
<1> SUFFICES B = {}
  <2>1. T \in SUBSET T
    OBVIOUS
  <2>2. SumOver(f, T) = SumOver(G(T), K)
    BY <2>1
  <2> QED BY <2>2
<1> SUFFICES ASSUME B # {} PROVE FALSE
  OBVIOUS
<1>1. PICK m \in B : \A t \in B : t \subseteq m => t = m
  <2>1. B \in SUBSET SUBSET T
    OBVIOUS
  <2> HIDE DEF B
  <2> QED BY <2>1, Smallest
<1>2. m \subseteq T /\ SumOver(f, m) # SumOver(G(m), K) /\ IsFiniteSet(m)
  BY FS_Subset
<1>b. \A v : v \subseteq T => \A c \in K : G(v)[c] \in Int
  <2> SUFFICES ASSUME NEW v, v \subseteq T, NEW c \in K PROVE G(v)[c] \in Int
    OBVIOUS
  <2> DEFINE u == {x \in v : key[x] = c}
  <2>1. IsFiniteSet(u) /\ \A x \in u : f[x] \in Int
    BY FS_Subset
  <2>2. G(v)[c] = SumOver(f, u)
    OBVIOUS
  <2> HIDE DEF u, G
  <2> QED BY <2>1, <2>2, SumTyped
<1>3. m # {}
  <2> SUFFICES ASSUME m = {} PROVE FALSE
    OBVIOUS
  <2>1. \A c \in K : G(m)[c] = 0
    <3> SUFFICES ASSUME NEW c \in K PROVE SumOver(f, {x \in m : key[x] = c}) = 0
      OBVIOUS
    <3>1. {x \in m : key[x] = c} = {}
      OBVIOUS
    <3> QED BY <3>1, SumEmpty
  <2>2. SumOver(G(m), K) = 0
    <3> DEFINE z == [c \in K |-> 0]
    <3>1. \A c \in K : z[c] \in Int /\ z[c] = G(m)[c] /\ z[c] = z[c] + z[c]
      BY <2>1
    <3> HIDE DEF z, G
    <3>2. SumOver(z, K) = SumOver(z, K) + SumOver(z, K)
      BY <3>1, SumPlus
    <3>3. SumOver(z, K) \in Int
      BY <3>1, SumTyped
    <3>4. SumOver(z, K) = SumOver(G(m), K)
      BY <3>1, SumSame
    <3>5. \A a \in Int : a = a + a => a = 0
      OBVIOUS
    <3>6. SumOver(z, K) = 0
      BY <3>2, <3>3, <3>5
    <3> QED BY <3>4, <3>6
  <2> HIDE DEF G
  <2> QED BY <1>2, <2>2, SumEmpty
<1> DEFINE p == Pick(m)
           r == m \ {p}
<1>4. p \in m /\ p \in T /\ r \subseteq m /\ r # m /\ r \subseteq T /\ IsFiniteSet(r)
  BY <1>2, <1>3, Picked, FS_Subset
<1>5. SumOver(f, r) = SumOver(G(r), K)
  BY <1>1, <1>2, <1>4
<1>6. SumOver(f, m) = f[p] + SumOver(f, r)
  BY <1>2, <1>3, SumStep
<1>7. \A c \in K : c # key[p] => G(r)[c] = G(m)[c]
  <2> SUFFICES ASSUME NEW c \in K, c # key[p] PROVE G(r)[c] = G(m)[c]
    OBVIOUS
  <2>1. {x \in r : key[x] = c} = {x \in m : key[x] = c}
    OBVIOUS
  <2> QED BY <2>1
<1>8. G(m)[key[p]] = f[p] + G(r)[key[p]]
  <2> DEFINE u == {x \in m : key[x] = key[p]}
  <2>1. p \in u /\ u \ {p} = {x \in r : key[x] = key[p]} /\ u \subseteq T /\ IsFiniteSet(u)
    BY <1>2, <1>4, FS_Subset
  <2>2. \A x \in u : f[x] \in Int
    BY <2>1
  <2>3. key[p] \in K
    BY <1>4
  <2>4. G(m)[key[p]] = SumOver(f, u) /\ G(r)[key[p]] = SumOver(f, u \ {p})
    BY <2>1, <2>3
  <2> HIDE DEF u, G, p, r
  <2> QED BY <2>1, <2>2, <2>4, SumWithout
<1>9. SumOver(G(m), K) = SumOver(G(r), K) - G(r)[key[p]] + G(m)[key[p]]
  <2>1. key[p] \in K
    BY <1>4
  <2>2. \A c \in K : G(r)[c] \in Int /\ G(m)[c] \in Int
    BY <1>2, <1>4, <1>b
  <2>3. PICK a : a = G(r)
    OBVIOUS
  <2>4. PICK b : b = G(m)
    OBVIOUS
  <2> HIDE DEF G, p, r, B
  <2>5. SumOver(b, K) = SumOver(a, K) - a[key[p]] + b[key[p]]
    <3>1. PICK k \in K : k = key[p]
      BY <2>1
    <3>2. \A c \in K : a[c] \in Int /\ b[c] \in Int
      BY <2>2, <2>3, <2>4
    <3>3. \A c \in K : c # k => a[c] = b[c]
      BY <1>7, <2>3, <2>4, <3>1
    <3>4. SumOver(b, K) = SumOver(a, K) - a[k] + b[k]
      BY <3>2, <3>3, <1>a
    <3> QED BY <3>1, <3>4
  <2> QED BY <2>3, <2>4, <2>5
<1>10. f[p] \in Int /\ G(r)[key[p]] \in Int /\ SumOver(G(r), K) \in Int
  <2>1. key[p] \in K
    BY <1>4
  <2>2. \A c \in K : G(r)[c] \in Int
    BY <1>4, <1>b
  <2> HIDE DEF G, p, r
  <2>3. SumOver(G(r), K) \in Int
    BY <2>2, SumTyped
  <2> QED BY <1>4, <2>1, <2>2, <2>3
<1> HIDE DEF G, p, r, B
<1> QED BY <1>2, <1>5, <1>6, <1>8, <1>9, <1>10
=============================================================================
