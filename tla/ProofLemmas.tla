---------------------------- MODULE ProofLemmas ----------------------------
(***************************************************************************)
(* Facts about numbers, sets, functions and strings the proofs share.  The *)
(* library's induction theorems take a predicate as a parameter, so what   *)
(* would be an induction is an argument about a least counterexample.      *)
(***************************************************************************)
EXTENDS SortedStrings, FiniteSetsExt, FiniteSetTheorems, FunctionTheorems, SequenceTheorems,
        WellFoundedInduction, TLAPS

---------------------------------------------------------------------------
(* Least elements.                                                         *)

\* Every set of naturals that is not empty has a least element: among the
\* initial segments of the set, which are finite, one has no smaller one.
LEMMA LeastElement ==
  ASSUME NEW S, S \subseteq Nat, S # {}
  PROVE  \E m \in S : \A n \in S : m <= n
<1> DEFINE UpTo(m) == {n \in S : n <= m}
           Segments == {UpTo(m) : m \in S}
<1>1. Segments \subseteq FiniteSubsetsOf(Nat)
  <2> SUFFICES ASSUME NEW m \in S
               PROVE  UpTo(m) \in SUBSET Nat /\ IsFiniteSet(UpTo(m))
    BY DEF FiniteSubsetsOf
  <2>1. UpTo(m) \in SUBSET Nat /\ m \in Nat /\ \A n \in UpTo(m) : n <= m
    OBVIOUS
  <2> HIDE DEF UpTo
  <2> QED BY <2>1, FS_BoundedSetOfNaturals
<1>2. PICK T \in Segments : \A U \in Segments : <<U, T>> \notin StrictSubsetOrdering(Nat)
  <2>1. Segments # {}
    OBVIOUS
  <2> HIDE DEF Segments
  <2> QED BY <1>1, <2>1, WFMin, FS_StrictSubsetOrderingWellFounded
<1>3. PICK m \in S : T = UpTo(m)
  OBVIOUS
<1>4. ASSUME NEW n \in S, n < m
      PROVE  FALSE
  <2>1. UpTo(n) \in Segments
    OBVIOUS
  <2>2. UpTo(n) \subseteq T /\ T \subseteq Nat
    <3>1. \A k \in UpTo(n) : k \in S /\ k \in Nat /\ n \in Nat /\ m \in Nat /\ k <= n
      OBVIOUS
    <3>2. \A k \in UpTo(n) : k \in S /\ k <= m
      BY <3>1, <1>4
    <3> QED BY <1>3, <3>2
  <2>3. m \in T /\ m \notin UpTo(n)
    BY <1>3, <1>4
  <2> QED BY <1>2, <2>1, <2>2, <2>3 DEF StrictSubsetOrdering
<1> QED BY <1>4

\* Min, where there is one.
LEMMA MinOfSet ==
  ASSUME NEW S, S \subseteq Nat, S # {}
  PROVE  Min(S) \in S /\ \A n \in S : Min(S) <= n
BY LeastElement DEF Min

\* The last element of a set up to n.
LEMMA LastElementUpTo ==
  ASSUME NEW S, S \subseteq Nat, NEW n \in Nat, \E m \in S : m <= n
  PROVE  \E m \in S : m <= n /\ \A k \in S : k <= n => k <= m
<1> DEFINE Distances == {d \in Nat : n - d \in S}
<1>1. Distances # {}
  <2>1. PICK m \in S : m <= n
    OBVIOUS
  <2>2. n - m \in Nat /\ n - (n - m) = m
    BY <2>1
  <2> QED BY <2>2
<1>2. PICK d \in Distances : \A e \in Distances : d <= e
  BY <1>1, LeastElement
<1>3. n - d \in S /\ n - d <= n
  OBVIOUS
<1>4. ASSUME NEW k \in S, k <= n
      PROVE  k <= n - d
  <2>1. n - k \in Distances
    <3>1. n - k \in Nat /\ n - (n - k) = k
      BY <1>4
    <3> QED BY <3>1
  <2> QED BY <1>2, <2>1
<1> QED BY <1>3, <1>4

\* A function that never changes from one number to the next is constant.
LEMMA ConstantOnInterval ==
  ASSUME NEW f, NEW a \in Nat, NEW b \in Nat,
         \A j \in a + 1 .. b : f[j - 1] = f[j]
  PROVE  \A j \in a .. b : f[j] = f[a]
<1> DEFINE Changed == {j \in a .. b : f[j] # f[a]}
<1> SUFFICES ASSUME Changed # {}
             PROVE  FALSE
  OBVIOUS
<1>1. PICK j \in Changed : \A i \in Changed : j <= i
  <2>1. Changed \subseteq Nat
    OBVIOUS
  <2> HIDE DEF Changed
  <2> QED BY <2>1, LeastElement
<1>2. j \in a + 1 .. b /\ f[j] # f[a]
  OBVIOUS
<1>3. j - 1 \notin Changed
  BY <1>1
<1>4. f[j - 1] = f[a]
  BY <1>2, <1>3
<1> QED BY <1>2, <1>4

---------------------------------------------------------------------------
(* Division and powers of two.                                             *)

\* A number put together from a quotient and a remainder gives both back.
LEMMA DivModOf ==
  ASSUME NEW b \in Nat \ {0}, NEW q \in Int, NEW r \in 0 .. b - 1
  PROVE  (b * q + r) \div b = q /\ (b * q + r) % b = r
  OBVIOUS

\* Quotient and remainder of an integer put it together again.
LEMMA DivMod ==
  ASSUME NEW a \in Int, NEW b \in Nat \ {0}
  PROVE  /\ a \div b \in Int /\ a % b \in Int /\ 0 <= a % b /\ a % b < b
         /\ a = b * (a \div b) + (a % b)
         /\ a >= 0 => a \div b >= 0
  OBVIOUS

\* Quotient and remainder of a natural number are natural numbers.
LEMMA DivModNat ==
  ASSUME NEW a \in Nat, NEW b \in Nat \ {0}
  PROVE  a \div b \in Nat /\ a % b \in 0 .. b - 1 /\ a = b * (a \div b) + (a % b)
  OBVIOUS

\* Powers of two, by counting subsets: the provers have no laws for them.
LEMMA PowerOfTwo ==
  /\ 2 ^ 0 = 1
  /\ \A n \in Nat : 2 ^ n \in Nat \ {0} /\ 2 ^ (n + 1) = 2 * 2 ^ n
<1>1. ASSUME NEW n \in Nat
      PROVE  IsFiniteSet(SUBSET (1 .. n)) /\ Cardinality(SUBSET (1 .. n)) = 2 ^ n
             /\ 2 ^ n \in Nat
  <2>1. IsFiniteSet(1 .. n) /\ Cardinality(1 .. n) = n
    BY FS_Interval
  <2>2. IsFiniteSet(SUBSET (1 .. n)) /\ Cardinality(SUBSET (1 .. n)) = 2 ^ n
    BY <2>1, FS_SUBSET
  <2> QED BY <2>2, FS_CardinalityType
<1>2. ASSUME NEW n \in Nat PROVE 2 ^ n \in Nat \ {0}
  <2>1. SUBSET (1 .. n) # {}
    OBVIOUS
  <2> QED BY <1>1, <2>1, FS_EmptySet
<1>3. ASSUME NEW n \in Nat PROVE 2 ^ (n + 1) = 2 * 2 ^ n
  <2> DEFINE S == SUBSET (1 .. n)
             T == {s \cup {n + 1} : s \in S}
             B == SUBSET (1 .. n + 1)
  <2>1. n + 1 \in Nat /\ n + 1 \notin 1 .. n /\ 1 .. n + 1 = (1 .. n) \cup {n + 1}
    OBVIOUS
  <2>2. IsFiniteSet(S) /\ Cardinality(S) = 2 ^ n /\ Cardinality(B) = 2 ^ (n + 1) /\ 2 ^ n \in Nat
    BY <1>1, <2>1
  <2>3. B = S \cup T /\ S \cap T = {}
    <3>1. PICK N : N = 1 .. n
      OBVIOUS
    <3>2. PICK x : x = n + 1 /\ x \notin N /\ B = SUBSET (N \cup {x})
      BY <2>1, <3>1
    <3>3. S = SUBSET N /\ T = {s \cup {x} : s \in SUBSET N}
      BY <3>1, <3>2
    <3> HIDE DEF S, T, B
    <3>4. ASSUME NEW b \in B PROVE b \in S \cup T
      <4>1. CASE x \in b
        <5>1. b \ {x} \in SUBSET N /\ b = (b \ {x}) \cup {x}
          BY <3>2, <4>1
        <5> QED BY <3>3, <5>1
      <4>2. CASE x \notin b
        BY <3>2, <3>3, <4>2
      <4> QED BY <4>1, <4>2
    <3>5. S \cup T \subseteq B /\ S \cap T = {}
      BY <3>2, <3>3
    <3> QED BY <3>4, <3>5
  <2>4. IsFiniteSet(T) /\ Cardinality(T) = Cardinality(S)
    <3> DEFINE f == [s \in S |-> s \cup {n + 1}]
    <3>1. f \in [S -> T]
      OBVIOUS
    <3>2. \A s, t \in S : f[s] = f[t] => s = t
      <4> SUFFICES ASSUME NEW s \in S, NEW t \in S, s \cup {n + 1} = t \cup {n + 1} PROVE s = t
        OBVIOUS
      <4>1. n + 1 \notin s /\ n + 1 \notin t
        BY <2>1
      <4> QED BY <4>1
    <3>3. \A t \in T : \E s \in S : f[s] = t
      OBVIOUS
    <3> HIDE DEF S, T, f
    <3>4. f \in Bijection(S, T)
      BY <3>1, <3>2, <3>3, Fun_IsBij
    <3> QED BY <2>2, <3>4, FS_Bijection DEF ExistsBijection
  <2> HIDE DEF S, T, B
  <2>5. Cardinality(S \cap T) = 0
    BY <2>3, FS_EmptySet
  <2>6. Cardinality(S \cup T) = Cardinality(S) + Cardinality(T) - Cardinality(S \cap T)
    BY <2>2, <2>4, FS_Union
  <2> QED BY <2>2, <2>3, <2>4, <2>5, <2>6
<1>4. 2 ^ 0 = 1
  OBVIOUS
<1> QED BY <1>2, <1>3, <1>4

\* A power of two is more than its exponent.
LEMMA PowerIsMore == \A n \in Nat : n < 2 ^ n
<1> DEFINE Bad == {n \in Nat : ~(n < 2 ^ n)}
<1> SUFFICES ASSUME Bad # {} PROVE FALSE
  OBVIOUS
<1>1. PICK n \in Bad : \A k \in Bad : n <= k
  <2>1. Bad \subseteq Nat
    OBVIOUS
  <2> HIDE DEF Bad
  <2> QED BY <2>1, LeastElement
<1>2. n # 0
  BY PowerOfTwo
<1>3. PICK k \in Nat : n = k + 1 /\ ~(n <= k)
  <2>1. n - 1 \in Nat /\ n = (n - 1) + 1 /\ ~(n <= n - 1)
    BY <1>2
  <2> QED BY <2>1
<1>4. k < 2 ^ k
  BY <1>1, <1>3
<1>5. 2 ^ n = 2 * 2 ^ k /\ 2 ^ k \in Nat
  BY <1>3, PowerOfTwo
<1>6. n < 2 ^ n
  BY <1>3, <1>4, <1>5
<1> QED BY <1>6

\* Remainders by twice a number, from the last bit and the others.
LEMMA ModTwice ==
  ASSUME NEW z \in Nat, NEW w \in Nat \ {0}
  PROVE  z % (2 * w) = 2 * ((z \div 2) % w) + (z % 2)
<1>1. PICK q \in Nat, r \in 0 .. 1 : q = z \div 2 /\ r = z % 2 /\ z = 2 * q + r
  OBVIOUS
<1>2. PICK t \in Nat, s \in 0 .. w - 1 : s = q % w /\ q = w * t + s
  <2>1. q \div w \in Nat /\ q % w \in 0 .. w - 1 /\ q = w * (q \div w) + (q % w)
    BY DivModNat
  <2> QED BY <2>1
<1>3. z = (2 * w) * t + (2 * s + r)
  BY <1>1, <1>2
<1>4. 2 * s + r \in 0 .. 2 * w - 1 /\ 2 * w \in Nat \ {0}
  OBVIOUS
<1>5. ((2 * w) * t + (2 * s + r)) % (2 * w) = 2 * s + r
  <2>1. PICK b \in Nat \ {0}, u \in Nat : b = 2 * w /\ u = 2 * s + r
    BY <1>4
  <2>2. u \in 0 .. b - 1
    BY <1>4, <2>1
  <2>3. (b * t + u) % b = u
    BY <2>2, DivModOf
  <2> QED BY <2>1, <2>3
<1> QED BY <1>1, <1>2, <1>3, <1>5

\* Equal remainders by a multiple of a number are equal by the number.
LEMMA ModOfMultiple ==
  ASSUME NEW y \in Nat, NEW z \in Nat, NEW w \in Nat \ {0}, NEW j \in Nat \ {0},
         y % (w * j) = z % (w * j)
  PROVE  y % w = z % w
<1>1. PICK b \in Nat \ {0} : b = w * j
  OBVIOUS
<1>2. PICK q \in Nat, t \in Nat, r \in Nat : y = b * q + r /\ z = b * t + r
  <2>1. y \div b \in Nat /\ y % b \in 0 .. b - 1 /\ y = b * (y \div b) + (y % b)
    BY DivModNat
  <2>2. z \div b \in Nat /\ z % b \in 0 .. b - 1 /\ z = b * (z \div b) + (z % b)
    BY DivModNat
  <2>3. y % b = z % b
    BY <1>1
  <2>4. PICK q \in Nat, t \in Nat, r \in Nat :
          q = y \div b /\ t = z \div b /\ r = y % b /\ r = z % b
    BY <2>1, <2>2, <2>3
  <2> QED BY <2>1, <2>2, <2>4
<1>3. PICK u \in Nat, v \in 0 .. w - 1 : r = w * u + v
  <2>1. r \div w \in Nat /\ r % w \in 0 .. w - 1 /\ r = w * (r \div w) + (r % w)
    BY DivModNat
  <2> QED BY <2>1
<1>4. ASSUME NEW k \in Nat PROVE (b * k + r) % w = v
  <2>1. b * k + r = w * (j * k + u) + v
    BY <1>1, <1>3
  <2>2. PICK e \in Int : e = j * k + u
    OBVIOUS
  <2>3. (w * e + v) % w = v
    BY DivModOf
  <2> QED BY <2>1, <2>2, <2>3
<1> QED BY <1>2, <1>4

---------------------------------------------------------------------------
(* Counting.                                                               *)

\* The members of S up to n, and those of the r after it, counted from it.
Before(S, n) == {p \in S : p <= n}
Following(S, n, r) == {b \in 0 .. r - 1 : n + b + 1 \in S}

\* The places up to n + r are those up to n and the r that follow.
LEMMA CountSplit ==
  ASSUME NEW S, IsFiniteSet(S), S \subseteq Int, NEW n \in Int, NEW r \in Nat
  PROVE  /\ IsFiniteSet(Before(S, n)) /\ IsFiniteSet(Following(S, n, r))
         /\ Cardinality(Before(S, n + r)) = Cardinality(Before(S, n)) + Cardinality(Following(S, n, r))
<1> DEFINE Next == {p \in S : n < p /\ p <= n + r}
<1>1. IsFiniteSet(Before(S, n)) /\ IsFiniteSet(Next) /\ IsFiniteSet(Before(S, n + r))
  BY FS_Subset DEF Before
<1>2. Before(S, n + r) = Before(S, n) \cup Next /\ Before(S, n) \cap Next = {}
  <2>1. \A p \in S : p \in Int /\ (p <= n + r <=> p <= n \/ (n < p /\ p <= n + r))
    OBVIOUS
  <2>2. \A p \in S : ~(p <= n /\ n < p)
    BY <2>1
  <2> QED BY <2>1, <2>2, Zenon DEF Before
<1>3. Cardinality(Before(S, n + r)) = Cardinality(Before(S, n)) + Cardinality(Next)
  <2> HIDE DEF Next
  <2>1. Cardinality(Before(S, n) \cap Next) = 0
    BY <1>2, FS_EmptySet
  <2>2. Cardinality(Before(S, n)) \in Nat /\ Cardinality(Next) \in Nat
    BY <1>1, FS_CardinalityType
  <2>3. Cardinality(Before(S, n) \cup Next) =
          Cardinality(Before(S, n)) + Cardinality(Next) - Cardinality(Before(S, n) \cap Next)
    BY <1>1, FS_Union
  <2>4. Cardinality(Before(S, n) \cup Next) = Cardinality(Before(S, n)) + Cardinality(Next)
    BY <2>1, <2>2, <2>3
  <2> QED BY <1>2, <2>4
<1>4. IsFiniteSet(Following(S, n, r)) /\ Cardinality(Following(S, n, r)) = Cardinality(Next)
  <2> DEFINE f == [p \in Next |-> p - n - 1]
  <2>1. f \in Bijection(Next, Following(S, n, r))
    <3>1. f \in [Next -> Following(S, n, r)]
      <4> SUFFICES ASSUME NEW p \in Next PROVE p - n - 1 \in Following(S, n, r)
        OBVIOUS
      <4>1. p \in S /\ p \in Int /\ n < p /\ p <= n + r
        OBVIOUS
      <4>2. p - n - 1 \in 0 .. r - 1 /\ n + (p - n - 1) + 1 = p
        BY <4>1
      <4> HIDE DEF Next
      <4> QED BY <4>1, <4>2 DEF Following
    <3>2. \A p, q \in Next : f[p] = f[q] => p = q
      OBVIOUS
    <3>3. ASSUME NEW b \in Following(S, n, r) PROVE \E p \in Next : f[p] = b
      <4>1. n + b + 1 \in Next /\ (n + b + 1) - n - 1 = b
        BY DEF Following
      <4> QED BY <4>1
    <3> HIDE DEF f
    <3> QED BY <3>1, <3>2, <3>3, Fun_IsBij
  <2> QED BY <1>1, <2>1, FS_Bijection DEF ExistsBijection
<1> QED BY <1>1, <1>3, <1>4

\* Of r places at most r are counted.
LEMMA CountBounds ==
  ASSUME NEW S, IsFiniteSet(S), S \subseteq Int, NEW n \in Int, NEW r \in Nat
  PROVE  Cardinality(Before(S, n)) \in Nat /\ Cardinality(Following(S, n, r)) \in 0 .. r
<1>1. Following(S, n, r) \subseteq 0 .. r - 1
  BY DEF Following
<1>2. IsFiniteSet(0 .. r - 1) /\ Cardinality(0 .. r - 1) = r
  BY FS_Interval
<1>3. Cardinality(Following(S, n, r)) <= r /\ IsFiniteSet(Following(S, n, r))
  BY <1>1, <1>2, FS_Subset
<1>4. Cardinality(Following(S, n, r)) \in Nat /\ Cardinality(Before(S, n)) \in Nat
  BY CountSplit, FS_CardinalityType
<1> QED BY <1>3, <1>4

---------------------------------------------------------------------------
(* Functions defined by recursion.                                         *)

\* A function of x is defined by recursion when it is b[x] where x is in stop,
\* and h of x and its value at next[x] elsewhere.
Recurs(f, x, stop, b, h, next) == f[x] = IF x \in stop THEN b[x] ELSE h[<<x, f[next[x]]>>]

\* There is such a function when next goes down by some measure.  The library's
\* theorem takes what is b, h and next here as operators.
LEMMA RecursionHasSolution ==
  ASSUME NEW D, NEW V, NEW stop \in SUBSET D, NEW m \in [D -> Nat], NEW next \in [D -> D],
         \A x \in D \ stop : m[next[x]] < m[x],
         NEW b \in [D -> V], NEW h \in [D \X V -> V]
  PROVE  \E f \in [D -> V] : \A x \in D : Recurs(f, x, stop, b, h, next)
<1> DEFINE R(f, x) == Recurs(f, x, stop, b, h, next)
           Good(n) == {f \in [D -> V] : \A x \in D : m[x] < n => R(f, x)}
\* Good for all x of a measure below n, then for those of measure n.
<1>1. ASSUME NEW n \in Nat, NEW f \in Good(n)
      PROVE  Good(n + 1) # {}
  <2> DEFINE g == [x \in D |-> IF x \in stop THEN b[x] ELSE h[<<x, f[next[x]]>>]]
  <2>1. g \in [D -> V]
    OBVIOUS
  <2>2. ASSUME NEW x \in D, m[x] < n + 1 PROVE R(g, x)
    <3>1. CASE x \in stop
      BY <3>1 DEF Recurs
    <3>2. CASE x \notin stop
      <4>1. next[x] \in D /\ m[next[x]] < n
        <5>1. next[x] \in D /\ m[next[x]] \in Nat /\ m[x] \in Nat /\ m[next[x]] < m[x]
          BY <3>2
        <5> QED BY <5>1, <2>2
      <4>2. R(f, next[x])
        BY <4>1
      <4>3. f[next[x]] = g[next[x]]
        BY <4>1, <4>2 DEF Recurs
      <4> QED BY <3>2, <4>3 DEF Recurs
    <3> QED BY <3>1, <3>2
  <2> HIDE DEF g
  <2> QED BY <2>1, <2>2
<1>2. ASSUME NEW n \in Nat PROVE Good(n) # {}
  <2> DEFINE Bad == {k \in Nat : Good(k) = {}}
  <2> HIDE DEF Good
  <2> SUFFICES ASSUME Bad # {} PROVE FALSE
    OBVIOUS
  <2>1. PICK k \in Bad : \A j \in Bad : k <= j
    <3>1. Bad \subseteq Nat
      OBVIOUS
    <3> HIDE DEF Bad
    <3> QED BY <3>1, LeastElement
  <2>2. CASE k = 0
    <3>1. b \in Good(0)
      BY DEF Good
    <3> QED BY <2>1, <2>2, <3>1
  <2>3. CASE k # 0
    <3>1. k - 1 \in Nat /\ ~(k <= k - 1) /\ (k - 1) + 1 = k
      BY <2>1, <2>3
    <3>2. Good(k - 1) # {}
      BY <2>1, <3>1
    <3>3. Good((k - 1) + 1) # {}
      BY <1>1, <3>1, <3>2
    <3> QED BY <2>1, <3>1, <3>3
  <2> QED BY <2>2, <2>3
\* Two good functions agree as far as both are good.
<1>3. ASSUME NEW k \in Nat, NEW n \in Nat, NEW f \in Good(k), NEW g \in Good(n),
             NEW y \in D, m[y] < k, m[y] < n
      PROVE  f[y] = g[y]
  <2> DEFINE Bad == {d \in Nat : \E x \in D : m[x] = d /\ d < k /\ d < n /\ f[x] # g[x]}
  <2> SUFFICES ASSUME f[y] # g[y] PROVE FALSE
    OBVIOUS
  <2>1. m[y] \in Bad
    BY <1>3
  <2>2. PICK d \in Bad : \A e \in Bad : d <= e
    <3>1. Bad \subseteq Nat /\ Bad # {}
      BY <2>1
    <3> HIDE DEF Bad
    <3> QED BY <3>1, LeastElement
  <2>3. PICK x \in D : m[x] = d /\ d < k /\ d < n /\ f[x] # g[x]
    OBVIOUS
  <2>4. R(f, x) /\ R(g, x)
    BY <2>3
  <2>5. x \notin stop
    BY <2>3, <2>4 DEF Recurs
  <2>6. f[next[x]] # g[next[x]]
    BY <2>3, <2>4, <2>5 DEF Recurs
  <2>7. next[x] \in D /\ m[next[x]] \in Nat /\ m[next[x]] < d
    BY <2>3, <2>5
  <2>8. m[next[x]] \in Bad
    BY <2>3, <2>6, <2>7
  <2> QED BY <2>2, <2>7, <2>8
<1> DEFINE pick(n) == CHOOSE f : f \in Good(n)
           F == [x \in D |-> pick(m[x] + 1)[x]]
<1>4. ASSUME NEW x \in D
      PROVE  m[x] \in Nat /\ m[x] + 1 \in Nat /\ pick(m[x] + 1) \in Good(m[x] + 1)
  <2>1. m[x] \in Nat /\ m[x] + 1 \in Nat
    OBVIOUS
  <2> HIDE DEF Good
  <2> QED BY <1>2, <2>1
<1> HIDE DEF pick
<1>5. F \in [D -> V]
  BY <1>4
<1>6. ASSUME NEW x \in D PROVE R(F, x)
  <2> DEFINE f == pick(m[x] + 1)
  <2>1. f \in Good(m[x] + 1) /\ F[x] = f[x] /\ m[x] < m[x] + 1
    BY <1>4
  <2>2. R(f, x)
    BY <2>1
  <2>3. CASE x \in stop
    BY <2>1, <2>2, <2>3 DEF Recurs
  <2>4. CASE x \notin stop
    <3> DEFINE y == next[x]
               g == pick(m[y] + 1)
    <3>1. y \in D /\ m[y] \in Nat /\ m[x] \in Nat /\ m[y] < m[x]
      BY <2>4
    <3>2. g \in Good(m[y] + 1) /\ F[y] = g[y] /\ m[y] + 1 \in Nat /\ m[x] + 1 \in Nat
      BY <3>1, <1>4
    <3>3. m[y] < m[y] + 1 /\ m[y] < m[x] + 1
      BY <3>1
    <3> HIDE DEF f, g, F, y, Good
    <3>4. f[y] = g[y]
      BY <1>3, <2>1, <3>1, <3>2, <3>3
    <3> QED BY <2>1, <2>2, <2>4, <3>2, <3>4 DEF Recurs, y
  <2> QED BY <2>3, <2>4
<1> HIDE DEF F
<1> QED BY <1>5, <1>6

---------------------------------------------------------------------------
(* Sums.                                                                   *)

\* A sum over a set, as MapThenSumSet adds it up: some element is taken away,
\* then one of what is left.
SomeOf(s) == CHOOSE x \in s : TRUE
SumsUp(g, f, S) ==
  g = [s \in SUBSET S |-> IF s = {} THEN 0 ELSE f[SomeOf(s)] + g[s \ {SomeOf(s)}]]

\* The sum over a finite set, one element at a time, has a value.
LEMMA SumExists ==
  ASSUME NEW S, IsFiniteSet(S), NEW f \in [S -> Int]
  PROVE  \E g : SumsUp(g, f, S)
<1> DEFINE D == SUBSET S
           next == [s \in D |-> s \ {SomeOf(s)}]
           m == [s \in D |-> Cardinality(s)]
           b == [s \in D |-> 0]
           h == [p \in D \X Int |-> IF p[1] = {} THEN 0 ELSE f[SomeOf(p[1])] + p[2]]
<1>0. ASSUME NEW s \in D PROVE IsFiniteSet(s) /\ Cardinality(s) \in Nat
  BY FS_Subset, FS_CardinalityType
<1>1. ASSUME NEW s \in D \ {{}}
      PROVE  SomeOf(s) \in s /\ SomeOf(s) \in S /\ Cardinality(s \ {SomeOf(s)}) < Cardinality(s)
  <2>1. SomeOf(s) \in s
    BY DEF SomeOf
  <2>2. Cardinality(s \ {SomeOf(s)}) = Cardinality(s) - 1
    BY <1>0, <2>1, FS_RemoveElement
  <2> QED BY <1>0, <2>1, <2>2
<1>2. /\ next \in [D -> D] /\ m \in [D -> Nat] /\ b \in [D -> Int]
      /\ {{}} \in SUBSET D
  BY <1>0
<1>3. h \in [D \X Int -> Int]
  <2> SUFFICES ASSUME NEW s \in D, NEW n \in Int
               PROVE  (IF s = {} THEN 0 ELSE f[SomeOf(s)] + n) \in Int
    OBVIOUS
  <2>1. s # {} => f[SomeOf(s)] \in Int
    BY <1>1
  <2> QED BY <2>1
<1>4. \A s \in D \ {{}} : m[next[s]] < m[s]
  <2> SUFFICES ASSUME NEW s \in D \ {{}} PROVE m[next[s]] < m[s]
    OBVIOUS
  <2>1. next[s] = s \ {SomeOf(s)} /\ s \ {SomeOf(s)} \in D
    OBVIOUS
  <2> QED BY <1>1, <2>1
<1>5. PICK g \in [D -> Int] : \A s \in D : Recurs(g, s, {{}}, b, h, next)
  <2> HIDE DEF D, next, m, b, h
  <2> QED BY <1>2, <1>3, <1>4, RecursionHasSolution
<1>6. ASSUME NEW s \in D
      PROVE  g[s] = IF s = {} THEN 0 ELSE f[SomeOf(s)] + g[s \ {SomeOf(s)}]
  <2>1. Recurs(g, s, {{}}, b, h, next)
    BY <1>5
  <2>2. s \ {SomeOf(s)} \in D /\ next[s] = s \ {SomeOf(s)} /\ b[s] = 0
    OBVIOUS
  <2>3. <<s, g[next[s]]>> \in D \X Int
    BY <1>2
  <2>4. s # {} => h[<<s, g[next[s]]>>] = f[SomeOf(s)] + g[next[s]]
    BY <2>3
  <2> HIDE DEF h, next, b
  <2> QED BY <2>1, <2>2, <2>4 DEF Recurs
<1>7. g = [s \in D |-> g[s]]
  OBVIOUS
<1> QED BY <1>6, <1>7 DEF SumsUp

\* Whatever is taken away first, the sum is the same.
LEMMA SumAdds ==
  ASSUME NEW S, IsFiniteSet(S), NEW f \in [S -> Int], NEW g, SumsUp(g, f, S)
  PROVE  /\ g[{}] = 0
         /\ \A s \in SUBSET S : g[s] \in Int
         /\ \A s \in SUBSET S : \A x \in s : g[s] = f[x] + g[s \ {x}]
<1>1. \A s \in SUBSET S : g[s] = IF s = {} THEN 0 ELSE f[SomeOf(s)] + g[s \ {SomeOf(s)}]
  BY DEF SumsUp
<1>7. g[{}] = 0
  <2>1. {} \in SUBSET S
    OBVIOUS
  <2> QED BY <1>1, <2>1
<1>8. \A s \in SUBSET S : s # {} => g[s] = f[SomeOf(s)] + g[s \ {SomeOf(s)}]
  <2> TAKE s \in SUBSET S
  <2> HAVE s # {}
  <2>1. g[s] = IF s = {} THEN 0 ELSE f[SomeOf(s)] + g[s \ {SomeOf(s)}]
    BY <1>1
  <2> QED BY <2>1
<1>2. ASSUME NEW s \in SUBSET S PROVE IsFiniteSet(s) /\ Cardinality(s) \in Nat
  BY FS_Subset, FS_CardinalityType
<1>3. ASSUME NEW s \in SUBSET S, NEW x \in s
      PROVE  s \ {x} \in SUBSET S /\ Cardinality(s \ {x}) \in Nat
             /\ Cardinality(s \ {x}) < Cardinality(s)
  <2>1. Cardinality(s \ {x}) = Cardinality(s) - 1
    BY <1>2, FS_RemoveElement
  <2> QED BY <1>2, <2>1
<1>4. ASSUME NEW s \in SUBSET S, s # {} PROVE SomeOf(s) \in s
  BY <1>4 DEF SomeOf
<1>5. ASSUME NEW s \in SUBSET S PROVE g[s] \in Int
  <2> DEFINE Bad == {n \in Nat : \E t \in SUBSET S : Cardinality(t) = n /\ g[t] \notin Int}
  <2> SUFFICES ASSUME Bad # {} PROVE FALSE
    BY <1>2
  <2>1. PICK n \in Bad : \A k \in Bad : n <= k
    <3>1. Bad \subseteq Nat
      OBVIOUS
    <3> HIDE DEF Bad
    <3> QED BY <3>1, LeastElement
  <2>2. PICK t \in SUBSET S : Cardinality(t) = n /\ g[t] \notin Int
    OBVIOUS
  <2>3. t # {}
    BY <1>7, <2>2
  <2>4. g[t \ {SomeOf(t)}] \in Int
    BY <1>3, <1>4, <2>1, <2>2, <2>3
  <2>5. f[SomeOf(t)] \in Int
    BY <1>4, <2>3
  <2>6. f[SomeOf(t)] + g[t \ {SomeOf(t)}] \in Int
    BY <2>4, <2>5
  <2>7. g[t] = f[SomeOf(t)] + g[t \ {SomeOf(t)}]
    BY <1>8, <2>2, <2>3
  <2> QED BY <2>2, <2>6, <2>7
<1>6. ASSUME NEW s \in SUBSET S, NEW x \in s PROVE g[s] = f[x] + g[s \ {x}]
  <2> DEFINE Bad == {n \in Nat : \E t \in SUBSET S : \E y \in t :
                       Cardinality(t) = n /\ g[t] # f[y] + g[t \ {y}]}
  <2> SUFFICES ASSUME Bad # {} PROVE FALSE
    BY <1>2
  <2>1. PICK n \in Bad : \A k \in Bad : n <= k
    <3>1. Bad \subseteq Nat
      OBVIOUS
    <3> HIDE DEF Bad
    <3> QED BY <3>1, LeastElement
  <2>2. PICK t \in SUBSET S : \E y \in t : Cardinality(t) = n /\ g[t] # f[y] + g[t \ {y}]
    OBVIOUS
  <2>3. PICK y \in t : Cardinality(t) = n /\ g[t] # f[y] + g[t \ {y}]
    BY <2>2
  <2> DEFINE z == SomeOf(t)
             u == (t \ {y}) \ {z}
  <2>4. z \in t /\ g[t] = f[z] + g[t \ {z}]
    BY <1>4, <1>8, <2>3
  <2> HIDE DEF z
  <2>5. y # z
    BY <2>3, <2>4
  <2>6. \A v \in SUBSET S : Cardinality(v) \in Nat /\ Cardinality(v) < n =>
          \A w \in v : g[v] = f[w] + g[v \ {w}]
    <3> TAKE v \in SUBSET S
    <3> HAVE Cardinality(v) \in Nat /\ Cardinality(v) < n
    <3>1. ~(n <= Cardinality(v)) /\ n \in Nat
      OBVIOUS
    <3> QED BY ZenonT(30), <2>1, <3>1
  <2>7. g[t \ {y}] = f[z] + g[(t \ {y}) \ {z}]
    <3>1. z \in t \ {y}
      BY <2>4, <2>5
    <3> QED BY <1>3, <2>3, <2>6, <3>1
  <2>8. g[t \ {z}] = f[y] + g[(t \ {z}) \ {y}]
    <3>1. y \in t \ {z}
      BY <2>3, <2>5
    <3> QED BY <1>3, <2>3, <2>4, <2>6, <3>1
  <2>9. (t \ {z}) \ {y} = u
    OBVIOUS
  <2>10. f[y] \in Int /\ f[z] \in Int /\ g[u] \in Int
    BY <1>5, <2>3, <2>4
  <2> HIDE DEF u
  <2>11. g[t \ {y}] = f[z] + g[u]
    BY <2>7 DEF u
  <2>12. g[t \ {z}] = f[y] + g[u]
    BY <2>8, <2>9
  <2>13. f[z] + (f[y] + g[u]) = f[y] + (f[z] + g[u])
    BY <2>10
  <2> QED BY <2>3, <2>4, <2>11, <2>12, <2>13
<1> QED BY <1>5, <1>6, <1>7

---------------------------------------------------------------------------
(* The order of strings.                                                   *)

\* Two strings are equal, or the first place where they differ decides.
SameUpTo(a, b, k) == \A q \in 1 .. k - 1 : a[q] = b[q]
Decides(a, b, k) ==
  /\ k \in Nat \ {0} /\ SameUpTo(a, b, k)
  /\ \/ k = Len(a) + 1 /\ k <= Len(b)
     \/ k <= Len(a) /\ k <= Len(b) /\ a[k] < b[k]

\* One string comes before another when they are equal or a first place decides.
LEMMA StrLeqDecides ==
  ASSUME NEW a \in Seq(Nat), NEW b \in Seq(Nat)
  PROVE  StrLeq(a, b) <=> a = b \/ \E k \in Nat : Decides(a, b, k)
<1>1. /\ Len(a) \in Nat /\ Len(b) \in Nat
      /\ \A q \in 1 .. Len(a) : a[q] \in Nat
      /\ \A q \in 1 .. Len(b) : b[q] \in Nat
  BY LenProperties, ElementOfSeq
<1>2. ASSUME StrLeq(a, b) PROVE a = b \/ \E k \in Nat : Decides(a, b, k)
  <2>1. CASE Len(a) <= Len(b) /\ \A q \in 1 .. Len(a) : a[q] = b[q]
    <3>1. CASE Len(a) = Len(b)
      BY <2>1, <3>1, SeqEqual
    <3>2. CASE Len(a) < Len(b)
      <4>1. Decides(a, b, Len(a) + 1)
        BY <1>1, <2>1, <3>2 DEF Decides, SameUpTo
      <4> QED BY <1>1, <4>1
    <3> QED BY <1>1, <2>1, <3>1, <3>2
  <2>2. ASSUME NEW k \in 1 .. Len(a), k <= Len(b), a[k] < b[k], \A q \in 1 .. k - 1 : a[q] = b[q]
        PROVE  \E i \in Nat : Decides(a, b, i)
    <3>1. k \in Nat /\ Decides(a, b, k)
      BY <1>1, <2>2 DEF Decides, SameUpTo
    <3> QED BY <3>1
  <2> QED BY <1>2, <2>1, <2>2 DEF StrLeq
<1>3. ASSUME NEW k \in Nat, Decides(a, b, k) PROVE StrLeq(a, b)
  BY <1>1, <1>3 DEF Decides, SameUpTo, StrLeq
<1>4. a = b => StrLeq(a, b)
  BY <1>1 DEF StrLeq
<1> QED BY <1>2, <1>3, <1>4

\* Any two strings are in order, one way or the other.
LEMMA StrLeqTotal ==
  ASSUME NEW a \in Seq(Nat), NEW b \in Seq(Nat)
  PROVE  StrLeq(a, b) \/ StrLeq(b, a)
<1>1. /\ Len(a) \in Nat /\ Len(b) \in Nat
      /\ \A q \in 1 .. Len(a) : a[q] \in Nat
      /\ \A q \in 1 .. Len(b) : b[q] \in Nat
  BY LenProperties, ElementOfSeq
<1> DEFINE D == {k \in Nat \ {0} : k <= Len(a) /\ k <= Len(b) /\ a[k] # b[k]}
<1>2. CASE D = {}
  <2>1. \A q \in Nat \ {0} : q <= Len(a) /\ q <= Len(b) => a[q] = b[q]
    BY <1>2
  <2>2. CASE Len(a) <= Len(b)
    BY <1>1, <2>1, <2>2 DEF StrLeq
  <2>3. CASE Len(b) <= Len(a)
    BY <1>1, <2>1, <2>3 DEF StrLeq
  <2> QED BY <1>1, <2>2, <2>3
<1>3. CASE D # {}
  <2>1. PICK k \in D : \A j \in D : k <= j
    <3>1. D \subseteq Nat
      OBVIOUS
    <3> HIDE DEF D
    <3> QED BY <1>3, <3>1, LeastElement
  <2>2. k \in Nat \ {0} /\ k <= Len(a) /\ k <= Len(b) /\ a[k] # b[k]
    OBVIOUS
  <2>3. \A q \in 1 .. k - 1 : a[q] = b[q]
    <3> TAKE q \in 1 .. k - 1
    <3>1. q \in Nat \ {0} /\ q <= Len(a) /\ q <= Len(b) /\ ~(k <= q)
      BY <1>1, <2>2
    <3> QED BY <2>1, <3>1
  <2>4. a[k] < b[k] \/ b[k] < a[k]
    BY <1>1, <2>2
  <2> HIDE DEF D
  <2> QED BY <1>1, <2>2, <2>3, <2>4 DEF StrLeq
<1> QED BY <1>2, <1>3

\* The place where strings differ is the same seen from either.
LEMMA DecidesOnce ==
  ASSUME NEW a \in Seq(Nat), NEW b \in Seq(Nat), NEW k \in Nat, Decides(a, b, k)
  PROVE  a # b /\ ~StrLeq(b, a)
<1>1. /\ Len(a) \in Nat /\ Len(b) \in Nat
      /\ \A q \in 1 .. Len(a) : a[q] \in Nat
      /\ \A q \in 1 .. Len(b) : b[q] \in Nat
  BY LenProperties, ElementOfSeq
<1>2. a # b
  BY <1>1 DEF Decides
<1>3. ASSUME NEW m \in Nat, Decides(b, a, m) PROVE FALSE
  <2>1. CASE k < m
    BY <1>1, <1>3, <2>1 DEF Decides, SameUpTo
  <2>2. CASE m < k
    BY <1>1, <1>3, <2>2 DEF Decides, SameUpTo
  <2>3. CASE m = k
    BY <1>1, <1>3, <2>3 DEF Decides, SameUpTo
  <2> QED BY <2>1, <2>2, <2>3
<1> QED BY <1>2, <1>3, StrLeqDecides

\* Strings in order both ways are equal.
LEMMA StrLeqAntisymmetric ==
  ASSUME NEW a \in Seq(Nat), NEW b \in Seq(Nat), StrLeq(a, b), StrLeq(b, a)
  PROVE  a = b
BY StrLeqDecides, DecidesOnce

\* The order of strings is transitive.
LEMMA StrLeqTransitive ==
  ASSUME NEW a \in Seq(Nat), NEW b \in Seq(Nat), NEW c \in Seq(Nat),
         StrLeq(a, b), StrLeq(b, c)
  PROVE  StrLeq(a, c)
<1>1. CASE a = b \/ b = c
  BY <1>1
<1>2. CASE a # b /\ b # c
  <2>1. PICK k \in Nat : Decides(a, b, k)
    BY <1>2, StrLeqDecides
  <2>2. PICK m \in Nat : Decides(b, c, m)
    BY <1>2, StrLeqDecides
  <2>3. /\ Len(a) \in Nat /\ Len(b) \in Nat /\ Len(c) \in Nat
        /\ \A q \in 1 .. Len(a) : a[q] \in Nat
        /\ \A q \in 1 .. Len(b) : b[q] \in Nat
        /\ \A q \in 1 .. Len(c) : c[q] \in Nat
    BY LenProperties, ElementOfSeq
  <2>4. CASE k < m
    <3>1. Decides(a, c, k)
      BY SMTT(30), <2>1, <2>2, <2>3, <2>4 DEF Decides, SameUpTo
    <3> QED BY <3>1, StrLeqDecides
  <2>5. CASE m < k
    <3>1. Decides(a, c, m)
      <4>1. m <= Len(a) /\ m <= Len(b) /\ m <= Len(c) /\ b[m] < c[m] /\ m \in Nat \ {0}
        BY SMTT(30), <2>1, <2>2, <2>3, <2>5 DEF Decides
      <4>2. \A q \in 1 .. m : a[q] = b[q]
        BY <2>1, <2>3, <2>5 DEF Decides, SameUpTo
      <4>3. \A q \in 1 .. m - 1 : a[q] = c[q]
        BY <2>2, <2>3, <4>2 DEF Decides, SameUpTo
      <4>4. a[m] = b[m]
        BY <4>1, <4>2
      <4> QED BY <4>1, <4>3, <4>4 DEF Decides, SameUpTo
    <3> QED BY <3>1, StrLeqDecides
  <2>6. CASE m = k
    <3>1. Decides(a, c, m)
      BY SMTT(30), <2>1, <2>2, <2>3, <2>6 DEF Decides, SameUpTo
    <3> QED BY <3>1, StrLeqDecides
  <2> QED BY <2>4, <2>5, <2>6
<1> QED BY <1>1, <1>2


\* Some string of a set of places is before the others.
LEMMA FirstString ==
  ASSUME NEW strs, NEW n \in Nat, \A i \in 1 .. n : strs[i] \in Seq(Nat),
         NEW U \in SUBSET (1 .. n), U # {}
  PROVE  \E u \in U : \A d \in U : StrLeq(strs[u], strs[d])
<1> DEFINE First(u, m) == u \in U /\ u <= m /\ \A d \in U : d <= m => StrLeq(strs[u], strs[d])
           Bad == {m \in Nat : (\E d \in U : d <= m) /\ ~\E u \in U : First(u, m)}
<1>1. Bad = {}
  <2> SUFFICES ASSUME Bad # {} PROVE FALSE
    OBVIOUS
  <2>1. PICK m \in Bad : \A k \in Bad : m <= k
    <3>1. Bad \subseteq Nat
      OBVIOUS
    <3> HIDE DEF Bad
    <3> QED BY <3>1, LeastElement
  <2>2. PICK e \in U : e <= m
    OBVIOUS
  <2>3. e \in 1 .. n /\ m \in Nat \ {0} /\ m - 1 \in Nat /\ ~(m <= m - 1)
    BY <2>2
  <2>4. m - 1 \notin Bad
    BY <2>1, <2>3
  <2>5. \A d \in U : d \in Nat /\ (d <= m <=> d <= m - 1 \/ d = m)
    <3>1. \A d \in 1 .. n : d \in Nat /\ (d <= m <=> d <= m - 1 \/ d = m)
      BY ONLY <2>3, n \in Nat
    <3> HIDE DEF Bad, First
    <3> QED BY <3>1
  <2>6. CASE ~\E d \in U : d <= m - 1
    <3>1. e = m /\ StrLeq(strs[e], strs[e])
      BY <2>2, <2>3, <2>5, <2>6, StrLeqTotal
    <3>2. First(e, m)
      BY <2>2, <2>5, <2>6, <3>1
    <3> QED BY <3>2
  <2>7. CASE \E d \in U : d <= m - 1
    <3>1. PICK u \in U : First(u, m - 1)
      BY <2>3, <2>4, <2>7
    <3>2. CASE m \notin U \/ StrLeq(strs[u], strs[m])
      <4>1. First(u, m)
        BY <2>5, <3>1, <3>2
      <4> QED BY <4>1
    <3>3. CASE m \in U /\ ~StrLeq(strs[u], strs[m])
      <4>1. StrLeq(strs[m], strs[u]) /\ StrLeq(strs[m], strs[m])
        BY <3>3, StrLeqTotal
      <4>2. ASSUME NEW d \in U, d <= m PROVE StrLeq(strs[m], strs[d])
        <5>1. CASE d = m
          BY <4>1, <5>1
        <5>2. CASE d <= m - 1
          <6>1. StrLeq(strs[u], strs[d])
            BY <3>1, <5>2
          <6>2. strs[u] \in Seq(Nat) /\ strs[d] \in Seq(Nat) /\ strs[m] \in Seq(Nat)
            BY <3>3
          <6> QED BY <4>1, <6>1, <6>2, StrLeqTransitive
        <5> QED BY <2>5, <4>2, <5>1, <5>2
      <4>3. First(m, m)
        BY <2>3, <3>3, <4>2
      <4> QED BY <3>3, <4>3
    <3> QED BY <3>2, <3>3
  <2> QED BY <2>6, <2>7
<1>2. (\E d \in U : d <= n) /\ \A d \in U : d <= n
  <2>1. \A d \in 1 .. n : d <= n
    OBVIOUS
  <2> HIDE DEF Bad, First
  <2> QED BY <2>1
<1>3. n \notin Bad
  <2> HIDE DEF Bad
  <2> QED BY <1>1
<1>4. \E u \in U : First(u, n)
  BY <1>2, <1>3
<1> QED BY <1>2, <1>4

\* Strings can be sorted: they are taken one by one, the first of the rest
\* each time.
LEMMA OrderExists ==
  ASSUME NEW strs, NEW n \in Nat, DOMAIN strs = 1 .. n,
         \A i \in 1 .. n : strs[i] \in Seq(Nat)
  PROVE  SortedOrders(strs) # {}
<1> DEFINE D == 1 .. n
           Rest(o, k) == {d \in D : \A i \in 1 .. k : o[i] # d}
           Good(o, k) ==
             /\ o \in [1 .. k -> D]
             /\ \A i, j \in 1 .. k : i < j => o[i] # o[j] /\ StrLeq(strs[o[i]], strs[o[j]])
             /\ \A i \in 1 .. k : \A d \in Rest(o, k) : StrLeq(strs[o[i]], strs[d])
           Bad == {k \in Nat : k <= n /\ ~\E o : Good(o, k)}
<1>1. Bad = {}
  <2> SUFFICES ASSUME Bad # {} PROVE FALSE
    OBVIOUS
  <2>1. PICK k \in Bad : \A j \in Bad : k <= j
    <3>1. Bad \subseteq Nat
      OBVIOUS
    <3> HIDE DEF Bad
    <3> QED BY <3>1, LeastElement
  <2>2. k # 0
    <3>1. Good([i \in 1 .. 0 |-> 1], 0)
      OBVIOUS
    <3> QED BY <2>1, <3>1
  <2>3. k \in Nat \ {0} /\ k <= n /\ k - 1 \in Nat /\ k - 1 <= n /\ ~(k <= k - 1)
    BY <2>1, <2>2
  <2>4. PICK o : Good(o, k - 1)
    BY <2>1, <2>3
  <2>5. Rest(o, k - 1) # {}
    <3> SUFFICES ASSUME Rest(o, k - 1) = {} PROVE FALSE
      OBVIOUS
    <3>1. o \in Surjection(1 .. k - 1, D)
      BY <2>4 DEF Surjection
    <3>2. Cardinality(D) <= k - 1
      BY <2>3, <3>1, FS_SurjCardinalityBound DEF ExistsSurjection
    <3>3. Cardinality(D) = n
      <4>1. 1 \in Int /\ n \in Int
        OBVIOUS
      <4>2. Cardinality(1 .. n) = IF 1 > n THEN 0 ELSE n - 1 + 1
        BY ONLY <4>1, FS_Interval
      <4> QED BY <2>3, <4>2
    <3> QED BY <2>3, <3>2, <3>3
  <2>6. PICK u \in Rest(o, k - 1) : \A d \in Rest(o, k - 1) : StrLeq(strs[u], strs[d])
    <3>1. Rest(o, k - 1) \in SUBSET (1 .. n)
      OBVIOUS
    <3> HIDE DEF Rest
    <3> QED BY <2>5, <3>1, FirstString
  <2> DEFINE p == [i \in 1 .. k |-> IF i = k THEN u ELSE o[i]]
  <2>7. \A i \in 1 .. k : i = k \/ i \in 1 .. k - 1
    BY <2>3
  <2>8. p \in [1 .. k -> D] /\ p[k] = u /\ \A i \in 1 .. k - 1 : p[i] = o[i]
    BY <2>3, <2>4, <2>6, <2>7
  <2>9. \A d \in Rest(p, k) : d \in Rest(o, k - 1)
    BY <2>3, <2>8
  <2>10. \A i \in 1 .. k - 1 : o[i] # u /\ StrLeq(strs[o[i]], strs[u])
    BY <2>4, <2>6
  <2>11. ASSUME NEW i \in 1 .. k, NEW j \in 1 .. k, i < j
         PROVE  p[i] # p[j] /\ StrLeq(strs[p[i]], strs[p[j]])
    <3>1. i \in 1 .. k - 1
      BY <2>3, <2>11
    <3>2. CASE j = k
      BY <2>8, <2>10, <3>1, <3>2
    <3>3. CASE j \in 1 .. k - 1
      BY <2>4, <2>8, <2>11, <3>1, <3>3
    <3> QED BY <2>7, <3>2, <3>3
  <2>12. ASSUME NEW i \in 1 .. k, NEW d \in Rest(p, k) PROVE StrLeq(strs[p[i]], strs[d])
    <3>1. d \in Rest(o, k - 1)
      BY <2>9
    <3>2. CASE i = k
      BY <2>6, <2>8, <3>1, <3>2
    <3>3. CASE i \in 1 .. k - 1
      BY <2>4, <2>8, <3>1, <3>3
    <3> QED BY <2>7, <3>2, <3>3
  <2> HIDE DEF p
  <2>13. Good(p, k)
    BY <2>8, <2>11, <2>12
  <2> QED BY <2>1, <2>13
<1>2. PICK o : Good(o, n)
  <2>1. n \notin Bad /\ n <= n
    <3> HIDE DEF Bad
    <3> QED BY <1>1
  <2> HIDE DEF Good
  <2> QED BY <2>1
<1>3. o \in [D -> D] /\ \A i, j \in D : i < j => o[i] # o[j] /\ StrLeq(strs[o[i]], strs[o[j]])
  BY <1>2
<1>4. o \in Injection(D, D)
  <2>1. \A i, j \in D : i # j => i < j \/ j < i
    OBVIOUS
  <2>2. \A i, j \in D : o[i] = o[j] => i = j
    BY <1>3, <2>1
  <2>3. o \in [D -> D]
    BY <1>3
  <2> HIDE DEF D, Good
  <2> QED BY <2>2, <2>3 DEF Injection, IsInjective
<1>5. o \in Surjection(D, D)
  <2>1. IsFiniteSet(D)
    BY FS_Interval
  <2> HIDE DEF D
  <2> QED BY <1>4, <2>1, FS_Injection
<1>6. o \in Bijection(D, D)
  BY <1>4, <1>5 DEF Bijection
<1>7. o \in SortedOrders(strs)
  BY <1>3, <1>6 DEF SortedOrders
<1> QED BY <1>7

===========================================================================
