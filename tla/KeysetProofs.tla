---------------------------- MODULE KeysetProofs ----------------------------
(***************************************************************************)
(* What a keyset keeps, for every size of block and for every string.      *)
(*                                                                         *)
(* The invariant is about the places of blocks, <<keyset, array, index>>:  *)
(* every place that is not empty has a block of its own that is there, and *)
(* no block is there without a place.  The arrays fill from their start,   *)
(* a base block has its full length, and the one that is being filled is   *)
(* the last in use.  Every key lies in a block in use, and before ptr when *)
(* that block is being filled: so a push, which writes beyond ptr or in a  *)
(* new block, writes over no key, and one that deletes a block deletes one *)
(* that was not in use.                                                    *)
(***************************************************************************)
EXTENDS Keyset, ProofLemmas, SequenceTheorems

---------------------------------------------------------------------------
(* What a keyset is made of.                                               *)

Chars == (UNION {Range(s) : s \in Strings}) \cup {Marker, Garbage}
Unions == Weights \cup {0}
KeyRec == [block : Nat, at : Nat, length : Nat, union : Unions]
KeyBlock == [1 .. KeyBlockSize -> KeyRec]
Pushed == [str : Seq(Chars), marker : {<<>>, <<Marker>>}, union : Unions]

KeysetRec ==
  [base : Seq(Nat), baseSize : Nat, extra : Seq(Nat), extraSize : Nat,
   keyBlocks : Seq(KeyBlock \cup {<<>>}), keySize : Nat,
   block : Nat, ptr : Nat, avail : Nat, size : Nat, totalLength : Nat]

\* The arrays of blocks: a place beyond the end is as good as an empty one.
Kinds == {"base", "extra"}
Slots == Nat \ {0}
At(array, i) == IF i \in DOMAIN array THEN array[i] ELSE Null
BlockAt(r, a, i) == At(r[a], i)
UsedSize(r, a) == IF a = "base" THEN r.baseSize ELSE r.extraSize

\* Blocks fill an array from its start, and the last base block is being filled.
ArraysOK(r) ==
  /\ r.baseSize <= Len(r.base) /\ r.extraSize <= Len(r.extra)
  /\ \A a \in Kinds : \A i \in 1 .. UsedSize(r, a) : BlockAt(r, a, i) # Null
  /\ \A a \in Kinds, i \in Slots : BlockAt(r, a, i + 1) # Null => BlockAt(r, a, i) # Null
  /\ r.baseSize = 0 => r.block = Null /\ r.ptr = 0 /\ r.avail = 0
  /\ r.baseSize # 0 => r.block = r.base[r.baseSize] /\ r.ptr + r.avail = BaseBlockSize

\* There are Key objects for the keys.
KeyBlocksOK(r) ==
  /\ r.keySize <= Len(r.keyBlocks) /\ r.size <= r.keySize * KeyBlockSize
  /\ \A b \in 1 .. r.keySize : r.keyBlocks[b] \in KeyBlock

RecordOK(r) == r \in KeysetRec /\ ArraysOK(r) /\ KeyBlocksOK(r)

---------------------------------------------------------------------------
(* Arrays that grow.                                                       *)

\* The array g has the blocks where they were, and room for one more.
RoomIn(S, g, blocks, used, none) ==
  /\ g \in Seq(S) /\ DOMAIN g = 1 .. Len(g) /\ Len(g) \in Nat
  /\ used + 1 \in DOMAIN g /\ Len(blocks) <= Len(g)
  /\ \A i \in DOMAIN g : g[i] = IF i \in DOMAIN blocks THEN blocks[i] ELSE none

\* An array that more empty places are put behind has room.
LEMMA ConcatRoom ==
  ASSUME NEW S, NEW blocks \in Seq(S), NEW none \in S, NEW m \in Nat, m >= 1,
         NEW used, used = Len(blocks)
  PROVE  RoomIn(S, blocks \o [i \in 1 .. m |-> none], blocks, used, none)
<1>1. Len(blocks) \in Nat /\ DOMAIN blocks = 1 .. Len(blocks)
  BY LenProperties
<1>2. PICK more : more = [i \in 1 .. m |-> none]
  OBVIOUS
<1>3. more \in Seq(S) /\ Len(more) = m
  <2>1. more \in [1 .. m -> S]
    BY <1>2
  <2>2. more \in Seq(S)
    BY <2>1, SeqDef
  <2>3. DOMAIN more = 1 .. m /\ Len(more) \in Nat /\ DOMAIN more = 1 .. Len(more)
    BY <1>2, <2>2, LenProperties
  <2> QED BY <2>2, <2>3
<1>9. PICK n \in Nat : n = Len(blocks)
  BY <1>1
<1>10. PICK g : g = blocks \o more
  OBVIOUS
<1>4. g = blocks \o more /\ n = Len(blocks)
  BY <1>9, <1>10
<1>5. /\ g \in Seq(S) /\ Len(g) = n + m
      /\ \A i \in 1 .. n + m : g[i] = IF i <= n THEN blocks[i] ELSE more[i - n]
  BY <1>3, <1>4, ConcatProperties
<1>6. DOMAIN g = 1 .. n + m
  BY <1>5, LenProperties
<1>7. ASSUME NEW i \in DOMAIN g
      PROVE  g[i] = IF i \in DOMAIN blocks THEN blocks[i] ELSE none
  <2>1. i \in 1 .. n + m /\ DOMAIN blocks = 1 .. n
    BY <1>1, <1>4, <1>6
  <2>2. CASE i <= n
    <3>1. i \in 1 .. n
      BY <2>1, <2>2
    <3> QED BY <1>5, <2>1, <2>2, <3>1
  <2>3. CASE i > n
    <3>1. i \notin 1 .. n /\ i - n \in 1 .. m /\ ~(i <= n)
      BY <2>1, <2>3
    <3> QED BY <1>2, <1>5, <2>1, <3>1
  <2> QED BY <2>1, <2>2, <2>3
<1>8. n + 1 \in 1 .. n + m /\ n <= n + m /\ n + m \in Nat
  OBVIOUS
<1> QED BY <1>2, <1>4, <1>5, <1>6, <1>7, <1>8 DEF RoomIn

\* Grow leaves the blocks where they are and makes room for one more.
LEMMA GrowFacts ==
  ASSUME NEW S, NEW blocks \in Seq(S), NEW none \in S, NEW used \in Nat, used <= Len(blocks)
  PROVE  RoomIn(S, Grow(blocks, used, none), blocks, used, none)
<1>1. PICK n \in Nat : n = Len(blocks) /\ DOMAIN blocks = 1 .. n
  BY LenProperties
<1>2. CASE used # n
  <2>1. Grow(blocks, used, none) = blocks
    BY <1>1, <1>2 DEF Grow
  <2>2. used + 1 \in 1 .. n
    BY <1>1, <1>2
  <2>3. RoomIn(S, blocks, blocks, used, none)
    BY <1>1, <2>2 DEF RoomIn
  <2> QED BY <2>1, <2>3
<1>3. CASE used = n
  <2>1. PICK m \in Nat : m = (IF used = 0 THEN 1 ELSE used) /\ m >= 1
    OBVIOUS
  <2>2. Grow(blocks, used, none) = blocks \o [i \in 1 .. m |-> none]
    BY <1>1, <1>3, <2>1 DEF Grow
  <2>3. RoomIn(S, blocks \o [i \in 1 .. m |-> none], blocks, used, none)
    BY <1>1, <1>3, <2>1, ConcatRoom
  <2> QED BY <2>2, <2>3
<1> QED BY <1>2, <1>3

\* A sequence with one element replaced.
LEMMA SeqExcept ==
  ASSUME NEW S, NEW s \in Seq(S), NEW i \in DOMAIN s, NEW e \in S
  PROVE  /\ [s EXCEPT ![i] = e] \in Seq(S) /\ Len([s EXCEPT ![i] = e]) = Len(s)
         /\ DOMAIN [s EXCEPT ![i] = e] = DOMAIN s
         /\ [s EXCEPT ![i] = e][i] = e
         /\ \A j \in DOMAIN s : j # i => [s EXCEPT ![i] = e][j] = s[j]
<1>1. Len(s) \in Nat /\ DOMAIN s = 1 .. Len(s)
  BY LenProperties
<1>2. [s EXCEPT ![i] = e] \in Seq(S) /\ Len([s EXCEPT ![i] = e]) = Len(s)
  BY <1>1, ExceptSeq
<1> QED BY <1>1, <1>2

\* Key i of n keys has a place in the blocks of keys, its own.
LEMMA KeyPlaces ==
  ASSUME NEW K \in Nat \ {0}, NEW i \in Nat
  PROVE  /\ i \div K \in Nat /\ i % K \in 0 .. K - 1 /\ (i % K) + 1 \in 1 .. K
         /\ i \div K + 1 \in Nat \ {0}
         /\ \A m \in Nat : i < m * K <=> i \div K < m
         /\ \A m \in Nat : i <= m * K => i \div K <= m
         /\ \A j \in Nat : i \div K = j \div K /\ i % K = j % K => i = j
<1>1. \A x \in Nat : x \div K \in Nat /\ x % K \in 0 .. K - 1 /\ x = K * (x \div K) + (x % K)
  BY DivModNat
<1>2. PICK q \in Nat, r \in 0 .. K - 1 : q = i \div K /\ r = i % K /\ i = K * q + r
  BY <1>1
<1>3. ASSUME NEW m \in Nat
      PROVE  (i < m * K <=> q < m) /\ (i <= m * K => q <= m)
  <2>1. q < m => i < m * K
    <3> SUFFICES ASSUME q < m PROVE i < m * K
      OBVIOUS
    <3>1. PICK d \in Nat : m = q + 1 + d
      <4>1. m - q - 1 \in Nat /\ m = q + 1 + (m - q - 1)
        OBVIOUS
      <4> QED BY <4>1
    <3>2. m * K = K * q + K + d * K
      BY <3>1
    <3>3. d * K \in Nat
      OBVIOUS
    <3> QED BY <1>2, <3>2, <3>3
  <2>2. m <= q => m * K <= i
    <3> SUFFICES ASSUME m <= q PROVE m * K <= i
      OBVIOUS
    <3>1. PICK d \in Nat : q = m + d
      <4>1. q - m \in Nat /\ q = m + (q - m)
        OBVIOUS
      <4> QED BY <4>1
    <3>2. K * q = m * K + d * K
      BY <3>1
    <3>3. d * K \in Nat /\ m * K \in Nat
      OBVIOUS
    <3> QED BY <1>2, <3>2, <3>3
  <2>3. q > m => m * K < i
    <3> SUFFICES ASSUME q > m PROVE m * K < i
      OBVIOUS
    <3>1. PICK d \in Nat : q = m + 1 + d
      <4>1. q - m - 1 \in Nat /\ q = m + 1 + (q - m - 1)
        OBVIOUS
      <4> QED BY <4>1
    <3>2. K * q = m * K + K + d * K
      BY <3>1
    <3>3. d * K \in Nat /\ m * K \in Nat
      OBVIOUS
    <3> QED BY <1>2, <3>2, <3>3
  <2>4. m * K \in Nat
    OBVIOUS
  <2> QED BY <1>2, <2>1, <2>2, <2>3, <2>4
<1>4. ASSUME NEW j \in Nat, i \div K = j \div K, i % K = j % K PROVE i = j
  <2>1. j = K * (j \div K) + (j % K)
    BY <1>1
  <2> QED BY <1>2, <1>4, <2>1
<1>5. \A m \in Nat : (i < m * K <=> i \div K < m) /\ (i <= m * K => i \div K <= m)
  <2> TAKE m \in Nat
  <2> QED BY <1>2, <1>3
<1>6. i \div K \in Nat /\ i % K \in 0 .. K - 1 /\ (i % K) + 1 \in 1 .. K /\ i \div K + 1 \in Nat \ {0}
  BY <1>2
<1> QED BY <1>4, <1>5, <1>6

\* What total_length adds up.
TotalLength(p) == FoldFunction(LAMBDA q, n : Len(q.str) + n, 0, p)

\* A sum does not depend on what is beyond the set it is over.
LEMMA SumExtends ==
  ASSUME NEW S, NEW T, IsFiniteSet(T), S \subseteq T, NEW f, NEW e,
         \A x \in S : f[x] = e[x],
         NEW g, SumsUp(g, f, S), NEW h, SumsUp(h, e, T)
  PROVE  g[S] = h[S]
<1>1. ASSUME NEW s \in SUBSET S
      PROVE  /\ IsFiniteSet(s) /\ Cardinality(s) \in Nat
             /\ g[s] = IF s = {} THEN 0 ELSE f[SomeOf(s)] + g[s \ {SomeOf(s)}]
             /\ h[s] = IF s = {} THEN 0 ELSE e[SomeOf(s)] + h[s \ {SomeOf(s)}]
  <2>1. IsFiniteSet(s) /\ Cardinality(s) \in Nat
    BY FS_Subset, FS_CardinalityType
  <2>2. g[s] = IF s = {} THEN 0 ELSE f[SomeOf(s)] + g[s \ {SomeOf(s)}]
    BY DEF SumsUp
  <2>3. s \in SUBSET T
    OBVIOUS
  <2>4. h[s] = IF s = {} THEN 0 ELSE e[SomeOf(s)] + h[s \ {SomeOf(s)}]
    BY <2>3 DEF SumsUp
  <2> QED BY <2>1, <2>2, <2>4
<1> DEFINE Bad == {n \in Nat : \E s \in SUBSET S : Cardinality(s) = n /\ g[s] # h[s]}
<1> SUFFICES ASSUME Bad # {} PROVE FALSE
  <2>1. S \in SUBSET S
    OBVIOUS
  <2> QED BY <1>1, <2>1
<1>2. PICK n \in Bad : \A k \in Bad : n <= k
  <2>1. Bad \subseteq Nat
    OBVIOUS
  <2> HIDE DEF Bad
  <2> QED BY <2>1, LeastElement
<1>3. PICK s \in SUBSET S : Cardinality(s) = n /\ g[s] # h[s]
  OBVIOUS
<1>4. s # {}
  BY <1>1, <1>3
<1>5. PICK x : x = SomeOf(s)
  OBVIOUS
<1>6. x \in s
  BY <1>4, <1>5 DEF SomeOf
<1>7. s \ {x} \in SUBSET S /\ Cardinality(s \ {x}) \in Nat /\ Cardinality(s \ {x}) < n
  <2>1. Cardinality(s \ {x}) = Cardinality(s) - 1
    BY <1>1, <1>6, FS_RemoveElement
  <2>2. IsFiniteSet(s) /\ Cardinality(s) \in Nat
    BY <1>1
  <2>3. s \ {x} \in SUBSET S
    OBVIOUS
  <2>4. Cardinality(s \ {x}) \in Nat
    BY <2>3, <1>1
  <2> QED BY <1>3, <2>1, <2>2, <2>3, <2>4
<1>8. g[s \ {x}] = h[s \ {x}]
  BY <1>2, <1>7
<1>9. g[s] = f[x] + g[s \ {x}] /\ h[s] = e[x] + h[s \ {x}]
  BY <1>1, <1>4, <1>5
<1>10. f[x] = e[x]
  BY <1>6
<1> QED BY <1>3, <1>8, <1>9, <1>10

\* The fold is a sum.
LEMMA TotalIsSum ==
  ASSUME NEW p, NEW n \in Nat, DOMAIN p = 1 .. n, \A i \in 1 .. n : Len(p[i].str) \in Nat
  PROVE  \E g : /\ SumsUp(g, [i \in 1 .. n |-> Len(p[i].str)], 1 .. n)
                /\ TotalLength(p) = g[1 .. n]
<1> DEFINE S == 1 .. n
           f == [i \in S |-> Len(p[i].str)]
           Adds(g) == [s \in SUBSET S |->
                         IF s = {} THEN 0
                         ELSE Len(p[CHOOSE x \in s : TRUE].str) + g[s \ {CHOOSE x \in s : TRUE}]]
           sum == CHOOSE g : g = Adds(g)
<1>1. TotalLength(p) = sum[S]
  BY DEF TotalLength, FoldFunction, FoldFunctionOnSet, MapThenFoldSet
<1>4. IsFiniteSet(S) /\ f \in [S -> Int]
  BY FS_Interval
<1> HIDE DEF S
<1>5. \A g : g = Adds(g) <=> SumsUp(g, f, S)
  <2> SUFFICES ASSUME NEW g
               PROVE  Adds(g) = [s \in SUBSET S |-> IF s = {} THEN 0
                                                  ELSE f[SomeOf(s)] + g[s \ {SomeOf(s)}]]
    BY DEF SumsUp
  <2>1. ASSUME NEW s \in SUBSET S, s # {}
        PROVE  f[SomeOf(s)] = Len(p[CHOOSE x \in s : TRUE].str)
    BY <2>1 DEF SomeOf
  <2> QED BY <2>1 DEF SomeOf
<1>6. SumsUp(sum, f, S)
  <2>1. PICK g : SumsUp(g, f, S)
    <3> HIDE DEF f
    <3> QED BY <1>4, SumExists
  <2>2. \E h : h = Adds(h)
    <3> HIDE DEF Adds
    <3> QED BY <1>5, <2>1
  <2>3. sum = Adds(sum)
    <3> HIDE DEF Adds
    <3> QED BY <2>2
  <2> HIDE DEF sum, Adds, f
  <2> QED BY <1>5, <2>3
<1> HIDE DEF sum
<1> QED BY <1>1, <1>6 DEF S

\* No key adds nothing.
LEMMA TotalOfNone == TotalLength(<<>>) = 0
<1>1. PICK p, n : p = <<>> /\ n = 0
  OBVIOUS
<1>2. n \in Nat /\ DOMAIN p = 1 .. n /\ 1 .. n = {}
  BY <1>1
<1>3. PICK g : SumsUp(g, [i \in 1 .. n |-> Len(p[i].str)], 1 .. n) /\ TotalLength(p) = g[1 .. n]
  <2>1. \A i \in 1 .. n : Len(p[i].str) \in Nat
    BY <1>2
  <2> QED BY <1>2, <2>1, TotalIsSum
<1>4. g[{}] = 0
  BY <1>2, <1>3 DEF SumsUp
<1> QED BY <1>1, <1>2, <1>3, <1>4

\* One more key adds its length.
LEMMA TotalOfMore ==
  ASSUME NEW S, NEW p \in Seq(S), \A e \in S : Len(e.str) \in Nat, NEW q \in S
  PROVE  TotalLength(Append(p, q)) = TotalLength(p) + Len(q.str)
<1>1. PICK n \in Nat : n = Len(p)
  BY LenProperties
<1>2. PICK r : r = Append(p, q)
  OBVIOUS
<1>3. /\ DOMAIN p = 1 .. n /\ DOMAIN r = 1 .. n + 1 /\ r[n + 1] = q
      /\ \A i \in 1 .. n : r[i] = p[i] /\ p[i] \in S
  <2>1. r \in Seq(S) /\ Len(r) = n + 1 /\ \A i \in 1 .. n : r[i] = p[i]
    BY <1>1, <1>2, AppendProperties
  <2>2. r[n + 1] = q
    BY <1>1, <1>2, AppendProperties
  <2>3. DOMAIN r = 1 .. n + 1 /\ DOMAIN p = 1 .. n
    BY <1>1, <2>1, LenProperties
  <2>4. \A i \in 1 .. n : p[i] \in S
    BY <2>3, ElementOfSeq
  <2> QED BY <2>1, <2>2, <2>3, <2>4
<1>4. PICK f : f = [i \in 1 .. n |-> Len(p[i].str)]
  OBVIOUS
<1>5. PICK m \in Nat : m = n + 1
  OBVIOUS
<1>6. PICK e : e = [i \in 1 .. m |-> Len(r[i].str)]
  OBVIOUS
<1>7. PICK g : SumsUp(g, f, 1 .. n) /\ TotalLength(p) = g[1 .. n]
  <2>1. \A i \in 1 .. n : Len(p[i].str) \in Nat
    BY <1>3
  <2> QED BY <1>3, <1>4, <2>1, TotalIsSum
<1>12. \A i \in 1 .. m : Len(r[i].str) \in Nat
  <2> TAKE i \in 1 .. m
  <2>1. CASE i = n + 1
    BY <1>3, <2>1
  <2>2. CASE i # n + 1
    <3>1. i \in 1 .. n
      BY <1>5, <2>2
    <3> QED BY <1>3, <3>1
  <2> QED BY <2>1, <2>2
<1>8. PICK h : SumsUp(h, e, 1 .. m) /\ TotalLength(r) = h[1 .. m]
  BY <1>3, <1>5, <1>6, <1>12, TotalIsSum
<1>9. 1 .. n \subseteq 1 .. m /\ IsFiniteSet(1 .. m) /\ IsFiniteSet(1 .. n)
      /\ (1 .. m) \ {m} = 1 .. n /\ m \in 1 .. m
  BY <1>5, FS_Interval
<1>10. g[1 .. n] = h[1 .. n]
  <2>1. \A x \in 1 .. n : f[x] = e[x]
    BY <1>3, <1>4, <1>5, <1>6
  <2>2. PICK U, V : U = 1 .. n /\ V = 1 .. m
    OBVIOUS
  <2>4. /\ U \subseteq V /\ IsFiniteSet(V) /\ SumsUp(g, f, U) /\ SumsUp(h, e, V)
        /\ \A x \in U : f[x] = e[x]
    BY ONLY <1>7, <1>8, <1>9, <2>1, <2>2
  <2>3. g[U] = h[U]
    BY <2>4, SumExtends
  <2> QED BY <2>2, <2>3
<1>11. h[1 .. m] = e[m] + h[1 .. n] /\ h[1 .. n] \in Int
  <2>1. e \in [1 .. m -> Int]
    BY <1>6, <1>12
  <2>2. PICK V : V = 1 .. m
    OBVIOUS
  <2>7. IsFiniteSet(V) /\ e \in [V -> Int] /\ SumsUp(h, e, V)
    BY ONLY <1>8, <1>9, <2>1, <2>2
  <2>8. /\ h[{}] = 0
        /\ \A s \in SUBSET V : h[s] \in Int
        /\ \A s \in SUBSET V : \A x \in s : h[s] = e[x] + h[s \ {x}]
    BY <2>7, SumAdds
  <2>3. \A s \in SUBSET V : h[s] \in Int
    BY <2>8
  <2>4. \A s \in SUBSET V : \A x \in s : h[s] = e[x] + h[s \ {x}]
    BY <2>8
  <2>5. V \in SUBSET V /\ m \in V /\ V \ {m} = 1 .. n /\ 1 .. n \in SUBSET V
    BY <1>9, <2>2
  <2>6. h[V] = e[m] + h[V \ {m}]
    BY <2>4, <2>5
  <2> QED BY <2>2, <2>3, <2>5, <2>6
<1>13. e[m] = Len(q.str) /\ Len(q.str) \in Nat
  BY <1>3, <1>5, <1>6
<1> QED BY <1>2, <1>7, <1>8, <1>10, <1>11, <1>13

\* A full array grows and gets a block after the ones in use.
LEMMA ArrayWith ==
  ASSUME NEW array \in Seq(Nat), NEW used \in Nat, used <= Len(array), NEW e \in Nat
  PROVE  /\ Grow(array, used, Null) \in Seq(Nat)
         /\ used <= Len(Grow(array, used, Null))
         /\ \A i \in Slots : At(Grow(array, used, Null), i) = At(array, i)
         /\ Grow(array, used, Null)[used + 1] = At(array, used + 1)
         /\ [Grow(array, used, Null) EXCEPT ![used + 1] = e] \in Seq(Nat)
         /\ used + 1 <= Len([Grow(array, used, Null) EXCEPT ![used + 1] = e])
         /\ \A i \in Slots : At([Grow(array, used, Null) EXCEPT ![used + 1] = e], i) =
                               IF i = used + 1 THEN e ELSE At(array, i)
<1>1. PICK g : g = Grow(array, used, Null)
  OBVIOUS
<1>2. RoomIn(Nat, g, array, used, Null)
  BY <1>1, GrowFacts DEF Null
<1>3. PICK m \in Nat : m = Len(array) /\ DOMAIN array = 1 .. m
  BY LenProperties
<1>4. PICK n \in Nat : n = Len(g) /\ DOMAIN g = 1 .. n
  BY <1>2 DEF RoomIn
<1>5. used + 1 \in 1 .. n /\ used <= n /\ m <= n
  BY <1>2, <1>3, <1>4 DEF RoomIn
<1>6. \A i \in Slots : At(g, i) = At(array, i)
  <2> TAKE i \in Slots
  <2>1. i \in DOMAIN array => i \in DOMAIN g
    BY <1>3, <1>4, <1>5
  <2>2. i \in DOMAIN g => g[i] = IF i \in DOMAIN array THEN array[i] ELSE Null
    BY <1>2 DEF RoomIn
  <2> QED BY <2>1, <2>2 DEF At
<1>7. used + 1 \in Slots /\ used + 1 \in DOMAIN g
  BY <1>4, <1>5 DEF Slots
<1>8. g[used + 1] = At(array, used + 1)
  BY <1>6, <1>7 DEF At
<1>9. PICK h : h = [g EXCEPT ![used + 1] = e]
  OBVIOUS
<1>10. /\ h \in Seq(Nat) /\ Len(h) = n /\ DOMAIN h = DOMAIN g
       /\ h[used + 1] = e /\ \A j \in DOMAIN g : j # used + 1 => h[j] = g[j]
  BY <1>2, <1>4, <1>7, <1>9, SeqExcept DEF RoomIn
<1>11. \A i \in Slots : At(h, i) = IF i = used + 1 THEN e ELSE At(g, i)
  BY <1>7, <1>10 DEF At
<1>12. used + 1 <= n /\ g \in Seq(Nat)
  BY <1>2, <1>5 DEF RoomIn
<1> QED BY <1>1, <1>4, <1>5, <1>6, <1>8, <1>9, <1>10, <1>11, <1>12

\* What is in an array.
LEMMA AtFacts ==
  ASSUME NEW array \in Seq(Nat)
  PROVE  /\ Len(array) \in Nat /\ DOMAIN array = 1 .. Len(array)
         /\ \A i \in Slots : At(array, i) \in Nat
         /\ \A i \in 1 .. Len(array) : i \in Slots /\ At(array, i) = array[i]
         /\ \A i \in Slots : i > Len(array) => At(array, i) = Null
<1>1. PICK n \in Nat : n = Len(array) /\ DOMAIN array = 1 .. n
  BY LenProperties
<1>2. \A i \in 1 .. n : array[i] \in Nat
  BY <1>1, ElementOfSeq
<1>3. \A i \in 1 .. n : i \in Slots
  BY DEF Slots
<1>4. \A i \in Slots : i > n => i \notin 1 .. n
  BY DEF Slots
<1> QED BY <1>1, <1>2, <1>3, <1>4 DEF At, Null

---------------------------------------------------------------------------
(* Room for a key.                                                         *)

\* The fields of a record, one by one.
LEMMA RecordFields ==
  ASSUME NEW r \in KeysetRec
  PROVE  /\ r.base \in Seq(Nat) /\ r.baseSize \in Nat /\ r.extra \in Seq(Nat) /\ r.extraSize \in Nat
         /\ r.keyBlocks \in Seq(KeyBlock \cup {<<>>}) /\ r.keySize \in Nat
         /\ r.block \in Nat /\ r.ptr \in Nat /\ r.avail \in Nat
         /\ r.size \in Nat /\ r.totalLength \in Nat
BY DEF KeysetRec

\* The blocks of characters of two records are the same.
SameRoom(r, q) ==
  /\ q.base = r.base /\ q.baseSize = r.baseSize /\ q.extra = r.extra /\ q.extraSize = r.extraSize
  /\ q.block = r.block /\ q.ptr = r.ptr /\ q.avail = r.avail

\* Who has the same blocks has them in the same places.
LEMMA SameRoomFacts ==
  ASSUME NEW r \in KeysetRec, NEW q \in KeysetRec, SameRoom(r, q)
  PROVE  /\ ArraysOK(r) => ArraysOK(q)
         /\ \A a \in Kinds : UsedSize(q, a) = UsedSize(r, a)
         /\ \A a \in Kinds, i \in Slots : BlockAt(q, a, i) = BlockAt(r, a, i)
<1>1. \A a \in Kinds : q[a] = r[a]
  BY DEF SameRoom, Kinds
<1>2. \A a \in Kinds : UsedSize(q, a) = UsedSize(r, a)
  BY DEF SameRoom, UsedSize
<1>3. \A a \in Kinds : \A i : BlockAt(q, a, i) = BlockAt(r, a, i)
  BY <1>1 DEF BlockAt
<1>4. ArraysOK(r) => ArraysOK(q)
  <2> SUFFICES ASSUME ArraysOK(r) PROVE ArraysOK(q)
    OBVIOUS
  <2>1. \A a \in Kinds : \A i \in 1 .. UsedSize(q, a) : BlockAt(q, a, i) # Null
    BY <1>2, <1>3 DEF ArraysOK
  <2>2. \A a \in Kinds, i \in Slots : BlockAt(q, a, i + 1) # Null => BlockAt(q, a, i) # Null
    BY <1>3 DEF ArraysOK
  <2> QED BY <2>1, <2>2 DEF ArraysOK, SameRoom
<1> QED BY <1>2, <1>3, <1>4

\* There is a Key object for the next key, and the keys are where they were.
LEMMA KeyReadyFacts ==
  ASSUME NEW r, RecordOK(r)
  PROVE  /\ RecordOK(KeyReady(r)) /\ SameRoom(r, KeyReady(r))
         /\ KeyReady(r).size = r.size /\ KeyReady(r).totalLength = r.totalLength
         /\ r.size \div KeyBlockSize < KeyReady(r).keySize
         /\ \A i \in 0 .. r.size - 1 : KeyAt(KeyReady(r), i) = KeyAt(r, i)
<1>1. r \in KeysetRec
  BY DEF RecordOK
<1>2. PICK n \in Nat, s \in Nat, K \in Nat \ {0} :
        n = r.keySize /\ s = r.size /\ K = KeyBlockSize
  BY <1>1, RecordFields, BlockSizesAssumption
<1>3. s <= n * K /\ \A b \in 1 .. n : r.keyBlocks[b] \in KeyBlock
  BY <1>2 DEF RecordOK, KeyBlocksOK
<1>4. s \div K \in Nat /\ s \div K <= n
  BY <1>3, KeyPlaces
<1>5. CASE s \div K # n
  <2>1. KeyReady(r) = r
    BY <1>2, <1>5 DEF KeyReady, NeedsKeyBlock
  <2>2. s \div K < n
    BY <1>4, <1>5
  <2> QED BY <1>2, <2>1, <2>2 DEF SameRoom
<1>6. CASE s \div K = n
  <2>1. PICK g : g = Grow(r.keyBlocks, n, <<>>)
    OBVIOUS
  <2>2. PICK keys : keys = [i \in 1 .. K |-> NoKey]
    OBVIOUS
  <2>3. keys \in KeyBlock
    BY <1>2, <2>2 DEF KeyBlock, KeyRec, NoKey, Unions, Null
  <2>4. PICK S : S = KeyBlock \cup {<<>>}
    OBVIOUS
  <2>5. /\ r.keyBlocks \in Seq(S) /\ n <= Len(r.keyBlocks) /\ Len(r.keyBlocks) \in Nat
        /\ DOMAIN r.keyBlocks = 1 .. Len(r.keyBlocks)
    BY <1>1, <1>2, <2>4, RecordFields, LenProperties DEF RecordOK, KeyBlocksOK
  <2>6. RoomIn(S, g, r.keyBlocks, n, <<>>)
    <3>1. <<>> \in S
      BY <2>4
    <3> QED BY <2>1, <2>5, <3>1, GrowFacts
  <2>7. PICK h : h = [g EXCEPT ![n + 1] = keys]
    OBVIOUS
  <2>8. /\ h \in Seq(S) /\ Len(h) = Len(g) /\ DOMAIN h = DOMAIN g
        /\ h[n + 1] = keys /\ \A j \in DOMAIN g : j # n + 1 => h[j] = g[j]
    BY <2>3, <2>4, <2>6, <2>7, SeqExcept DEF RoomIn
  <2>9. PICK q : q = KeyReady(r)
    OBVIOUS
  <2>10. q = [r EXCEPT !.keyBlocks = h, !.keySize = n + 1]
    BY <1>2, <1>6, <2>1, <2>2, <2>7, <2>9 DEF KeyReady, NeedsKeyBlock, WithKeyBlock
  <2>11. q \in KeysetRec /\ q.keyBlocks = h /\ q.keySize = n + 1
         /\ SameRoom(r, q) /\ q.size = s /\ q.totalLength = r.totalLength
    <3>1. h \in Seq(KeyBlock \cup {<<>>}) /\ n + 1 \in Nat
      BY <2>4, <2>8
    <3>2. q \in KeysetRec
      BY <1>1, <2>10, <3>1 DEF KeysetRec
    <3>3. q.keyBlocks = h /\ q.keySize = n + 1
      BY <1>1, <2>10 DEF KeysetRec
    <3>4. SameRoom(r, q) /\ q.size = s /\ q.totalLength = r.totalLength
      BY <1>1, <1>2, <2>10 DEF KeysetRec, SameRoom
    <3> QED BY <3>2, <3>3, <3>4
  <2>12. \A b \in 1 .. n : b \in DOMAIN g /\ h[b] = r.keyBlocks[b]
    <3> TAKE b \in 1 .. n
    <3>1. b \in DOMAIN g /\ b \in DOMAIN r.keyBlocks /\ b # n + 1
      BY <2>5, <2>6 DEF RoomIn
    <3>2. g[b] = r.keyBlocks[b]
      BY <2>6, <3>1 DEF RoomIn
    <3> QED BY <2>8, <3>1, <3>2
  <2>13. n + 1 <= Len(h)
    BY <2>6, <2>8 DEF RoomIn
  <2>14. s <= (n + 1) * K
    BY <1>3
  <2>15. \A b \in 1 .. n + 1 : h[b] \in KeyBlock
    <3> TAKE b \in 1 .. n + 1
    <3>1. CASE b = n + 1
      BY <2>3, <2>8, <3>1
    <3>2. CASE b # n + 1
      <4>1. b \in 1 .. n
        BY <3>2
      <4> QED BY <1>3, <2>12, <4>1
    <3> QED BY <3>1, <3>2
  <2>16. RecordOK(q)
    <3>1. ArraysOK(q)
      BY <1>1, <2>11, SameRoomFacts DEF RecordOK
    <3>2. KeyBlocksOK(q)
      BY <1>2, <2>11, <2>13, <2>14, <2>15 DEF KeyBlocksOK
    <3> QED BY <2>11, <3>1, <3>2 DEF RecordOK
  <2>17. \A i \in 0 .. s - 1 : KeyAt(q, i) = KeyAt(r, i)
    <3> TAKE i \in 0 .. s - 1
    <3>1. i \in Nat /\ i < n * K
      BY <1>3
    <3>2. i \div K + 1 \in 1 .. n
      <4>1. i \div K \in Nat /\ i \div K < n
        BY <3>1, KeyPlaces
      <4> QED BY <4>1
    <3>3. q.keyBlocks[i \div K + 1] = r.keyBlocks[i \div K + 1]
      BY <2>11, <2>12, <3>2
    <3> QED BY <1>2, <3>3 DEF KeyAt
  <2> QED BY <1>2, <1>6, <2>9, <2>11, <2>16, <2>17
<1> QED BY <1>5, <1>6

\* The next key is written.
WithKey(r, key, l) ==
  LET n == r.size
  IN  [r EXCEPT !.keyBlocks[n \div KeyBlockSize + 1][(n % KeyBlockSize) + 1] = key,
                !.size = @ + 1, !.totalLength = @ + l]

\* A key is written in its place, and the keys before it are where they were.
LEMMA KeyWritten ==
  ASSUME NEW r, RecordOK(r), r.size \div KeyBlockSize < r.keySize,
         NEW key \in KeyRec, NEW l \in Nat
  PROVE  /\ RecordOK(WithKey(r, key, l)) /\ SameRoom(r, WithKey(r, key, l))
         /\ WithKey(r, key, l).size = r.size + 1
         /\ WithKey(r, key, l).totalLength = r.totalLength + l
         /\ KeyAt(WithKey(r, key, l), r.size) = key
         /\ \A i \in 0 .. r.size - 1 : KeyAt(WithKey(r, key, l), i) = KeyAt(r, i)
<1>1. r \in KeysetRec
  BY DEF RecordOK
<1>2. PICK n \in Nat, s \in Nat, K \in Nat \ {0} :
        n = r.keySize /\ s = r.size /\ K = KeyBlockSize
  BY <1>1, RecordFields, BlockSizesAssumption
<1>3. s <= n * K /\ (\A b \in 1 .. n : r.keyBlocks[b] \in KeyBlock) /\ s \div K < n
      /\ n <= Len(r.keyBlocks)
  BY <1>2 DEF RecordOK, KeyBlocksOK
<1>4. PICK b \in Nat \ {0}, j \in 1 .. K : b = s \div K + 1 /\ j = (s % K) + 1
  BY KeyPlaces
<1>5. b \in 1 .. n /\ s < n * K
  <2>1. s \div K \in Nat /\ (s < n * K <=> s \div K < n)
    BY KeyPlaces
  <2> QED BY <1>3, <1>4, <2>1
<1>6. PICK S : S = KeyBlock \cup {<<>>}
  OBVIOUS
<1>7. /\ r.keyBlocks \in Seq(S) /\ Len(r.keyBlocks) \in Nat
      /\ DOMAIN r.keyBlocks = 1 .. Len(r.keyBlocks) /\ b \in DOMAIN r.keyBlocks
  <2>1. r.keyBlocks \in Seq(S)
    BY <1>1, <1>6, RecordFields
  <2>2. Len(r.keyBlocks) \in Nat /\ DOMAIN r.keyBlocks = 1 .. Len(r.keyBlocks)
    BY <2>1, LenProperties
  <2> QED BY <1>3, <1>5, <2>1, <2>2
<1>8. PICK keys : keys = [r.keyBlocks[b] EXCEPT ![j] = key]
  OBVIOUS
<1>9. r.keyBlocks[b] \in [1 .. K -> KeyRec]
  BY <1>2, <1>3, <1>5 DEF KeyBlock
<1>10. keys \in [1 .. K -> KeyRec] /\ keys[j] = key
       /\ \A i \in 1 .. K : i # j => keys[i] = r.keyBlocks[b][i]
  BY <1>8, <1>9
<1>11. PICK h : h = [r.keyBlocks EXCEPT ![b] = keys]
  OBVIOUS
<1>12. keys \in S /\ keys \in KeyBlock
  BY <1>2, <1>6, <1>10 DEF KeyBlock
<1>13. /\ h \in Seq(S) /\ Len(h) = Len(r.keyBlocks) /\ DOMAIN h = DOMAIN r.keyBlocks
       /\ h[b] = keys /\ \A c \in DOMAIN r.keyBlocks : c # b => h[c] = r.keyBlocks[c]
  BY <1>7, <1>11, <1>12, SeqExcept
<1>14. PICK t : t = WithKey(r, key, l)
  OBVIOUS
<1>15. t = [r EXCEPT !.keyBlocks = h, !.size = s + 1, !.totalLength = r.totalLength + l]
  <2>1. h = [r.keyBlocks EXCEPT ![b][j] = key]
    BY <1>8, <1>11
  <2> QED BY <1>2, <1>4, <1>14, <2>1 DEF WithKey
<1>16. /\ t \in KeysetRec /\ t.keyBlocks = h /\ t.keySize = n /\ t.size = s + 1
       /\ t.totalLength = r.totalLength + l /\ SameRoom(r, t)
  <2>1. h \in Seq(KeyBlock \cup {<<>>}) /\ s + 1 \in Nat /\ r.totalLength + l \in Nat
    BY <1>1, <1>6, <1>13, RecordFields
  <2>2. t \in KeysetRec
    BY <1>1, <1>15, <2>1 DEF KeysetRec
  <2>3. t.keyBlocks = h /\ t.keySize = n /\ t.size = s + 1 /\ t.totalLength = r.totalLength + l
    BY <1>1, <1>2, <1>15 DEF KeysetRec
  <2>4. SameRoom(r, t)
    BY <1>1, <1>15 DEF KeysetRec, SameRoom
  <2> QED BY <2>2, <2>3, <2>4
<1>17. RecordOK(t)
  <2>1. ArraysOK(t)
    BY <1>1, <1>16, SameRoomFacts DEF RecordOK
  <2>2. \A c \in 1 .. n : h[c] \in KeyBlock
    BY <1>3, <1>7, <1>12, <1>13
  <2>3. s + 1 <= n * K
    <3>1. n * K \in Nat
      OBVIOUS
    <3> QED BY <1>5, <3>1
  <2>4. KeyBlocksOK(t)
    BY <1>2, <1>3, <1>13, <1>16, <2>2, <2>3 DEF KeyBlocksOK
  <2> QED BY <1>16, <2>1, <2>4 DEF RecordOK
<1>18. KeyAt(t, s) = key
  BY <1>2, <1>4, <1>10, <1>13, <1>16 DEF KeyAt
<1>19. \A i \in 0 .. s - 1 : KeyAt(t, i) = KeyAt(r, i)
  <2> TAKE i \in 0 .. s - 1
  <2>1. i \in Nat /\ i < n * K /\ i # s
    BY <1>5
  <2>2. PICK c \in Nat \ {0}, d \in 1 .. K : c = i \div K + 1 /\ d = (i % K) + 1
    BY <2>1, KeyPlaces
  <2>3. c \in 1 .. n
    <3>1. i \div K \in Nat /\ i \div K < n
      BY <2>1, KeyPlaces
    <3> QED BY <2>2, <3>1
  <2>4. c # b \/ d # j
    <3> SUFFICES ASSUME c = b, d = j PROVE FALSE
      OBVIOUS
    <3>1. i \div K \in Nat /\ s \div K \in Nat /\ i % K \in Nat /\ s % K \in Nat
      BY <2>1, KeyPlaces
    <3>2. i \div K = s \div K /\ i % K = s % K
      BY <1>4, <2>2, <3>1
    <3> QED BY <2>1, <3>2, KeyPlaces
  <2>5. h[c][d] = r.keyBlocks[c][d]
    <3>1. c \in DOMAIN r.keyBlocks
      BY <1>3, <1>7, <2>3
    <3>2. CASE c = b
      <4>1. d # j
        BY <2>4, <3>2
      <4> QED BY <1>10, <1>13, <3>2, <4>1
    <3>3. CASE c # b
      BY <1>13, <3>1, <3>3
    <3> QED BY <3>2, <3>3
  <2> QED BY <1>2, <1>16, <2>2, <2>5 DEF KeyAt
<1> QED BY <1>2, <1>14, <1>16, <1>17, <1>18, <1>19

\* What reserve leaves alone: the keys.
SameKeys(r, q) ==
  /\ q.keyBlocks = r.keyBlocks /\ q.keySize = r.keySize
  /\ q.size = r.size /\ q.totalLength = r.totalLength

\* The base blocks are of one size.
BaseFull(r, H) ==
  \A i \in Slots : BlockAt(r, "base", i) # Null => Len(H[BlockAt(r, "base", i)]) = BaseBlockSize

\* A block of n characters, just allocated, is put after those of one of the
\* arrays; a block that lay there is deleted.
Fresh(r, n, a, room, H) ==
  /\ n # 0 /\ room.block = Len(H) + 1 /\ room.at = 0
  /\ \A c \in Kinds, i \in Slots :
       BlockAt(room.r, c, i) = IF c = a /\ i = UsedSize(r, a) + 1 THEN Len(H) + 1 ELSE BlockAt(r, c, i)
  /\ \A c \in Kinds : UsedSize(room.r, c) = IF c = a THEN UsedSize(r, a) + 1 ELSE UsedSize(r, c)
  /\ room.heap \in Seq(Seq(Chars)) /\ Len(room.heap) = Len(H) + 1
  /\ room.heap[Len(H) + 1] # <<>> /\ n <= Len(room.heap[Len(H) + 1])
  /\ a = "base" => Len(room.heap[Len(H) + 1]) = BaseBlockSize
  /\ \A b \in DOMAIN H : room.heap[b] = IF b = BlockAt(r, a, UsedSize(r, a) + 1) THEN <<>> ELSE H[b]
  /\ IF a = "base" THEN room.r.block = Len(H) + 1 /\ room.r.ptr = n
                   ELSE room.r.block = r.block /\ room.r.ptr = r.ptr

\* A base block that is there has the room: the one that is filled, or the next.
Again(r, n, room, H) ==
  /\ room.heap = H
  /\ \A c \in Kinds, i \in Slots : BlockAt(room.r, c, i) = BlockAt(r, c, i)
  /\ UsedSize(room.r, "extra") = UsedSize(r, "extra")
  /\ room.block = room.r.block /\ room.r.ptr = room.at + n
  /\ room.block = Null => n = 0
  /\ \/ /\ UsedSize(room.r, "base") = UsedSize(r, "base")
        /\ room.block = r.block /\ room.at = r.ptr
     \/ /\ UsedSize(room.r, "base") = UsedSize(r, "base") + 1 /\ room.at = 0

Reserved(r, n, room, H) ==
  /\ RecordOK(room.r) /\ SameKeys(r, room.r) /\ room.block \in Nat /\ room.at \in Nat
  /\ (\E a \in Kinds : Fresh(r, n, a, room, H)) \/ Again(r, n, room, H)

\* A new block.
LEMMA AllocatedFacts ==
  ASSUME heap \in Seq(Seq(Chars)), NEW n \in Nat
  PROVE  /\ Len(heap) \in Nat /\ DOMAIN heap = 1 .. Len(heap)
         /\ Allocated(n) \in Seq(Seq(Chars)) /\ Len(Allocated(n)) = Len(heap) + 1
         /\ DOMAIN Allocated(n) = 1 .. Len(heap) + 1
         /\ \A b \in DOMAIN heap : Allocated(n)[b] = heap[b]
         /\ Len(Allocated(n)[Len(heap) + 1]) = n
         /\ n # 0 => Allocated(n)[Len(heap) + 1] # <<>>
<1>1. PICK m \in Nat : m = Len(heap) /\ DOMAIN heap = 1 .. m
  BY LenProperties
<1>2. PICK new : new = [i \in 1 .. n |-> Garbage]
  OBVIOUS
<1>3. Garbage \in Chars
  BY DEF Chars
<1>4. new \in [1 .. n -> Chars]
  BY <1>2, <1>3
<1>5. new \in Seq(Chars) /\ DOMAIN new = 1 .. n
  BY <1>4, SeqDef
<1>6. Len(new) = n
  BY <1>4, <1>5, LenProperties
<1>7. n # 0 => new # <<>>
  <2>1. Len(<<>>) = 0
    BY EmptySeq
  <2> QED BY <1>6, <2>1
<1>8. PICK g : g = Append(heap, new)
  OBVIOUS
<1>9. /\ g \in Seq(Seq(Chars)) /\ Len(g) = m + 1 /\ g[m + 1] = new
      /\ \A b \in 1 .. m : g[b] = heap[b]
  BY <1>1, <1>5, <1>8, AppendProperties
<1>10. DOMAIN g = 1 .. m + 1
  BY <1>9, LenProperties
<1>11. Allocated(n) = g
  BY <1>2, <1>8 DEF Allocated
<1> QED BY <1>1, <1>6, <1>7, <1>9, <1>10, <1>11

\* What the arrays of a record say of it.
LEMMA ArrayFields ==
  ASSUME NEW r \in KeysetRec, ArraysOK(r)
  PROVE  /\ \A a \in Kinds : UsedSize(r, a) \in Nat /\ UsedSize(r, a) + 1 \in Slots
         /\ \A a \in Kinds, i \in Slots : BlockAt(r, a, i) \in Nat
         /\ \A i \in Slots : BlockAt(r, "base", i) = At(r.base, i) /\ BlockAt(r, "extra", i) = At(r.extra, i)
         /\ UsedSize(r, "base") = r.baseSize /\ UsedSize(r, "extra") = r.extraSize
         /\ r.baseSize # 0 => r.block = BlockAt(r, "base", r.baseSize)
<1>1. /\ r.base \in Seq(Nat) /\ r.baseSize \in Nat /\ r.extra \in Seq(Nat) /\ r.extraSize \in Nat
      /\ r.baseSize <= Len(r.base)
  BY RecordFields DEF ArraysOK
<1>2. r["base"] = r.base /\ r["extra"] = r.extra
  OBVIOUS
<1>3. UsedSize(r, "base") = r.baseSize /\ UsedSize(r, "extra") = r.extraSize
  BY DEF UsedSize
<1>4. \A i : BlockAt(r, "base", i) = At(r.base, i) /\ BlockAt(r, "extra", i) = At(r.extra, i)
  BY <1>2 DEF BlockAt
<1>5. \A a \in Kinds : UsedSize(r, a) \in Nat /\ UsedSize(r, a) + 1 \in Slots
  BY <1>1, <1>3 DEF Kinds, Slots
<1>6. \A a \in Kinds, i \in Slots : BlockAt(r, a, i) \in Nat
  <2>1. \A i \in Slots : At(r.base, i) \in Nat /\ At(r.extra, i) \in Nat
    BY <1>1, AtFacts
  <2> QED BY <1>4, <2>1 DEF Kinds
<1>7. r.baseSize # 0 => r.block = BlockAt(r, "base", r.baseSize)
  <2> SUFFICES ASSUME r.baseSize # 0 PROVE r.block = BlockAt(r, "base", r.baseSize)
    OBVIOUS
  <2>1. r.baseSize \in 1 .. Len(r.base) /\ Len(r.base) \in Nat
    BY <1>1, AtFacts
  <2>2. At(r.base, r.baseSize) = r.base[r.baseSize]
    BY <1>1, <2>1, AtFacts
  <2> QED BY <1>4, <2>2 DEF ArraysOK
<1> QED BY <1>3, <1>4, <1>5, <1>6, <1>7

\* A block is put after those in use.
MoreBlocks(r, q, kind, e) ==
  /\ e # Null
  /\ \A c \in Kinds, i \in Slots :
       BlockAt(q, c, i) = IF c = kind /\ i = UsedSize(r, kind) + 1 THEN e ELSE BlockAt(r, c, i)
  /\ \A c \in Kinds : UsedSize(q, c) = IF c = kind THEN UsedSize(r, kind) + 1 ELSE UsedSize(r, c)

\* With one more block in use, blocks still fill their arrays from the start.
LEMMA OneMoreBlock ==
  ASSUME NEW r \in KeysetRec, ArraysOK(r), NEW q, NEW kind \in Kinds, NEW e, MoreBlocks(r, q, kind, e)
  PROVE  /\ \A a \in Kinds : \A i \in 1 .. UsedSize(q, a) : BlockAt(q, a, i) # Null
         /\ \A a \in Kinds, i \in Slots : BlockAt(q, a, i + 1) # Null => BlockAt(q, a, i) # Null
<1>0. PICK used \in Nat : used = UsedSize(r, kind)
  BY ArrayFields
<1>4. /\ e # Null
      /\ \A c \in Kinds, i \in Slots :
           BlockAt(q, c, i) = IF c = kind /\ i = used + 1 THEN e ELSE BlockAt(r, c, i)
      /\ \A c \in Kinds : UsedSize(q, c) = IF c = kind THEN used + 1 ELSE UsedSize(r, c)
  BY <1>0 DEF MoreBlocks
<1>1. \A a \in Kinds : UsedSize(r, a) \in Nat /\ UsedSize(q, a) \in Nat
  BY <1>0, <1>4, ArrayFields
<1>2. \A a \in Kinds : \A i \in 1 .. UsedSize(q, a) : BlockAt(q, a, i) # Null
  <2> TAKE a \in Kinds
  <2> TAKE i \in 1 .. UsedSize(q, a)
  <2>1. i \in Slots
    BY <1>1 DEF Slots
  <2>2. CASE a = kind /\ i = used + 1
    BY <1>4, <2>1, <2>2
  <2>3. CASE ~(a = kind /\ i = used + 1)
    <3>1. i \in 1 .. UsedSize(r, a)
      <4>1. CASE a = kind
        BY <1>0, <1>4, <2>3, <4>1
      <4>2. CASE a # kind
        BY <1>1, <1>4, <4>2
      <4> QED BY <4>1, <4>2
    <3>2. BlockAt(r, a, i) # Null
      BY <3>1 DEF ArraysOK
    <3> QED BY <1>4, <2>1, <2>3, <3>2
  <2> QED BY <2>2, <2>3
<1>3. ASSUME NEW a \in Kinds, NEW i \in Slots, BlockAt(q, a, i + 1) # Null
      PROVE  BlockAt(q, a, i) # Null
  <2>1. i + 1 \in Slots /\ i \in Nat /\ i # i + 1 /\ i >= 1
    BY DEF Slots
  <2>2. CASE a = kind /\ i = used + 1
    BY <1>4, <2>2
  <2>3. CASE a = kind /\ i + 1 = used + 1
    <3>1. i \in 1 .. UsedSize(q, a)
      <4>1. UsedSize(q, a) = used + 1 /\ i = used
        BY <1>4, <2>1, <2>3
      <4> QED BY <2>1, <4>1
    <3> QED BY <1>2, <3>1
  <2>4. CASE a # kind \/ (i # used + 1 /\ i + 1 # used + 1)
    <3>1. BlockAt(q, a, i) = BlockAt(r, a, i) /\ BlockAt(q, a, i + 1) = BlockAt(r, a, i + 1)
      BY <1>4, <2>1, <2>4
    <3> QED BY <1>3, <3>1 DEF ArraysOK
  <2> QED BY <2>2, <2>3, <2>4
<1> QED BY <1>2, <1>3

\* append_extra_block.
LEMMA ExtraReserved ==
  ASSUME heap \in Seq(Seq(Chars)), NEW r, RecordOK(r), NEW n \in Nat, n > ExtraBlockSize,
         \A i \in Slots : BlockAt(r, "extra", i) # Null => BlockAt(r, "extra", i) \in DOMAIN heap
  PROVE  Reserved(r, n, Reserve(r, n), heap)
<1>1. r \in KeysetRec /\ ArraysOK(r) /\ KeyBlocksOK(r)
  BY DEF RecordOK
<1>2. /\ r.extra \in Seq(Nat) /\ r.extraSize \in Nat /\ r.extraSize <= Len(r.extra)
      /\ \A i \in Slots : BlockAt(r, "extra", i) = At(r.extra, i)
      /\ \A a \in Kinds, i \in Slots : BlockAt(r, a, i) \in Nat
      /\ r.extraSize + 1 \in Slots
      /\ UsedSize(r, "base") = r.baseSize /\ UsedSize(r, "extra") = r.extraSize
  <2>1. r.extra \in Seq(Nat) /\ r.extraSize \in Nat
    BY <1>1, RecordFields
  <2>2. r.extraSize <= Len(r.extra)
    BY <1>1 DEF ArraysOK
  <2>3. r.extraSize + 1 \in Slots
    BY <2>1 DEF Slots
  <2>4. /\ \A i \in Slots : BlockAt(r, "extra", i) = At(r.extra, i)
        /\ UsedSize(r, "base") = r.baseSize /\ UsedSize(r, "extra") = r.extraSize
    BY <1>1, ArrayFields
  <2>5. \A a \in Kinds, i \in Slots : BlockAt(r, a, i) \in Nat
    BY <1>1, ArrayFields
  <2> QED BY <2>1, <2>2, <2>3, <2>4, <2>5
<1>3. n # 0 /\ ~(n <= ExtraBlockSize)
  BY BlockSizesAssumption
<1>4. PICK m \in Nat : m = Len(heap)
  BY LenProperties
<1>5. PICK g : g = Grow(r.extra, r.extraSize, Null)
  OBVIOUS
<1>6. PICK old \in Nat : old = At(r.extra, r.extraSize + 1) /\ old = g[r.extraSize + 1]
                         /\ (old # Null => old \in DOMAIN heap)
  <2>1. At(r.extra, r.extraSize + 1) = g[r.extraSize + 1]
    BY <1>2, <1>5, ArrayWith DEF Null
  <2>2. BlockAt(r, "extra", r.extraSize + 1) = At(r.extra, r.extraSize + 1)
        /\ BlockAt(r, "extra", r.extraSize + 1) \in Nat
    BY <1>2 DEF Kinds
  <2> QED BY <1>2, <2>1, <2>2
<1>7. PICK new \in Nat : new = m + 1
  OBVIOUS
<1>8. PICK h : h = [g EXCEPT ![r.extraSize + 1] = new]
  OBVIOUS
<1>9. /\ h \in Seq(Nat) /\ r.extraSize + 1 <= Len(h)
      /\ \A i \in Slots : At(h, i) = IF i = r.extraSize + 1 THEN new ELSE At(r.extra, i)
  BY <1>2, <1>5, <1>8, ArrayWith
<1>10. PICK q : q = WithExtraBlock(r, NewBlock)
  OBVIOUS
<1>11. q = [r EXCEPT !.extra = h, !.extraSize = r.extraSize + 1]
  BY <1>4, <1>5, <1>7, <1>8, <1>10 DEF WithExtraBlock, NewBlock
<1>12. q \in KeysetRec
  <2>1. r.extraSize + 1 \in Nat
    BY <1>2
  <2> QED BY <1>1, <1>9, <1>11, <2>1 DEF KeysetRec
<1>13. /\ q.extra = h /\ q.extraSize = r.extraSize + 1 /\ q.base = r.base /\ q.baseSize = r.baseSize
       /\ q.block = r.block /\ q.ptr = r.ptr /\ q.avail = r.avail /\ SameKeys(r, q)
  BY <1>1, <1>11 DEF KeysetRec, SameKeys
<1>14. \A c \in Kinds, i \in Slots :
         BlockAt(q, c, i) = IF c = "extra" /\ i = r.extraSize + 1 THEN new ELSE BlockAt(r, c, i)
  <2>1. q["base"] = q.base /\ r["base"] = r.base /\ q["extra"] = h /\ r["extra"] = r.extra
    BY <1>13
  <2>2. "base" # "extra"
    OBVIOUS
  <2> QED BY <1>9, <1>13, <2>1, <2>2 DEF BlockAt, Kinds
<1>15. \A c \in Kinds : UsedSize(q, c) = IF c = "extra" THEN r.extraSize + 1 ELSE UsedSize(r, c)
  BY <1>2, <1>13 DEF UsedSize, Kinds
<1>16. ArraysOK(q)
  <2>1. /\ \A a \in Kinds : \A i \in 1 .. UsedSize(q, a) : BlockAt(q, a, i) # Null
        /\ \A a \in Kinds, i \in Slots : BlockAt(q, a, i + 1) # Null => BlockAt(q, a, i) # Null
    <3>1. new # Null
      BY <1>7 DEF Null
    <3>2. MoreBlocks(r, q, "extra", new)
      BY <1>2, <1>14, <1>15, <3>1 DEF MoreBlocks
    <3> QED BY <1>1, <3>2, OneMoreBlock DEF Kinds
  <2> QED BY <1>1, <1>9, <1>13, <2>1 DEF ArraysOK
<1>17. RecordOK(q)
  BY <1>1, <1>12, <1>13, <1>16 DEF RecordOK, KeyBlocksOK, SameKeys
<1>18. PICK G : G = IF ReplacedExtra(r) = Null THEN Allocated(n)
                    ELSE [Allocated(n) EXCEPT ![ReplacedExtra(r)] = <<>>]
  OBVIOUS
<1>19. /\ G \in Seq(Seq(Chars)) /\ Len(G) = m + 1 /\ G[m + 1] # <<>> /\ n <= Len(G[m + 1])
       /\ \A b \in DOMAIN heap : G[b] = IF b = old THEN <<>> ELSE heap[b]
  <2>1. ReplacedExtra(r) = old
    BY <1>5, <1>6 DEF ReplacedExtra
  <2>2. PICK A : A = Allocated(n)
    OBVIOUS
  <2>3. /\ DOMAIN heap = 1 .. m /\ A \in Seq(Seq(Chars)) /\ Len(A) = m + 1 /\ DOMAIN A = 1 .. m + 1
        /\ (\A b \in DOMAIN heap : A[b] = heap[b]) /\ Len(A[m + 1]) = n /\ A[m + 1] # <<>>
    BY <1>3, <1>4, <2>2, AllocatedFacts
  <2>4. CASE old = Null
    <3>1. G = A
      BY <1>18, <2>1, <2>2, <2>4
    <3>2. \A b \in DOMAIN heap : b # old
      BY <2>3, <2>4 DEF Null
    <3> QED BY <2>3, <3>1, <3>2
  <2>5. CASE old # Null
    <3>1. old \in 1 .. m /\ old \in DOMAIN A /\ m + 1 \in DOMAIN A /\ m + 1 # old
      BY <1>6, <2>3, <2>5
    <3>2. G = [A EXCEPT ![old] = <<>>]
      BY <1>18, <2>1, <2>2, <2>5
    <3>3. <<>> \in Seq(Chars)
      BY EmptySeq
    <3>4. /\ G \in Seq(Seq(Chars)) /\ Len(G) = Len(A)
          /\ G[old] = <<>> /\ \A j \in DOMAIN A : j # old => G[j] = A[j]
      BY <2>3, <3>1, <3>2, <3>3, SeqExcept
    <3>5. \A b \in DOMAIN heap : b \in DOMAIN A
      BY <2>3
    <3>6. G[m + 1] = A[m + 1]
      BY <3>1, <3>4
    <3>7. \A b \in DOMAIN heap : G[b] = IF b = old THEN <<>> ELSE heap[b]
      BY <2>3, <3>4, <3>5
    <3>8. n <= Len(G[m + 1])
      BY <2>3, <3>6
    <3> QED BY <2>3, <3>4, <3>6, <3>7, <3>8
  <2> QED BY <2>4, <2>5
<1>20. PICK room : room = Reserve(r, n)
  OBVIOUS
<1>21. room.r = q /\ room.block = m + 1 /\ room.at = 0 /\ room.heap = G
  <2>1. room = [r |-> q, block |-> m + 1, at |-> 0, heap |-> G]
    BY <1>4, <1>10, <1>18, <1>20 DEF Reserve, NewBlock
  <2> QED BY <2>1
<1>22. Fresh(r, n, "extra", room, heap)
  <2>1. BlockAt(r, "extra", r.extraSize + 1) = old
    BY <1>2, <1>6
  <2>2. "extra" # "base"
    OBVIOUS
  <2> QED BY <1>2, <1>3, <1>4, <1>7, <1>13, <1>14, <1>15, <1>19, <1>21, <2>1, <2>2 DEF Fresh
<1> QED BY <1>4, <1>13, <1>17, <1>20, <1>21, <1>22 DEF Reserved, Kinds

\* append_base_block: a new block, or one that a reset left.
LEMMA BaseReserved ==
  ASSUME heap \in Seq(Seq(Chars)), NEW r, RecordOK(r), BaseFull(r, heap),
         NEW n \in Nat, n <= ExtraBlockSize, n > r.avail
  PROVE  Reserved(r, n, Reserve(r, n), heap)
<1>1. r \in KeysetRec /\ ArraysOK(r) /\ KeyBlocksOK(r)
  BY DEF RecordOK
<1>2. /\ r.base \in Seq(Nat) /\ r.baseSize \in Nat /\ r.baseSize <= Len(r.base)
      /\ \A i \in Slots : BlockAt(r, "base", i) = At(r.base, i)
      /\ r.baseSize + 1 \in Slots /\ r.avail \in Nat
      /\ UsedSize(r, "base") = r.baseSize /\ UsedSize(r, "extra") = r.extraSize
  <2>1. r.base \in Seq(Nat) /\ r.baseSize \in Nat /\ r.avail \in Nat
    BY <1>1, RecordFields
  <2>2. r.baseSize <= Len(r.base)
    BY <1>1 DEF ArraysOK
  <2>3. r.baseSize + 1 \in Slots
    BY <2>1 DEF Slots
  <2>4. /\ \A i \in Slots : BlockAt(r, "base", i) = At(r.base, i)
        /\ UsedSize(r, "base") = r.baseSize /\ UsedSize(r, "extra") = r.extraSize
    BY <1>1, ArrayFields
  <2> QED BY <2>1, <2>2, <2>3, <2>4
<1>3. n # 0 /\ ~(n > ExtraBlockSize) /\ n <= BaseBlockSize /\ BaseBlockSize \in Nat
  BY <1>2, BlockSizesAssumption
<1>4. PICK m \in Nat : m = Len(heap)
  BY LenProperties
<1>5. PICK g : g = Grow(r.base, r.baseSize, Null)
  OBVIOUS
<1>6. PICK old \in Nat : old = BlockAt(r, "base", r.baseSize + 1) /\ old = g[r.baseSize + 1]
  <2>1. At(r.base, r.baseSize + 1) = g[r.baseSize + 1]
    BY <1>2, <1>5, ArrayWith DEF Null
  <2>2. BlockAt(r, "base", r.baseSize + 1) \in Nat /\ "base" \in Kinds
    BY <1>1, <1>2, ArrayFields DEF Kinds
  <2> QED BY <1>2, <2>1, <2>2
<1>7. PICK e \in Nat : e = IF old = Null THEN m + 1 ELSE old
  OBVIOUS
<1>8. PICK h : h = [g EXCEPT ![r.baseSize + 1] = e]
  OBVIOUS
<1>9. /\ h \in Seq(Nat) /\ r.baseSize + 1 <= Len(h) /\ Len(h) \in Nat
      /\ \A i \in Slots : At(h, i) = IF i = r.baseSize + 1 THEN e ELSE At(r.base, i)
  BY <1>2, <1>5, <1>8, ArrayWith, LenProperties
<1>10. PICK s : s = WithBaseBlock(r, NewBlock)
  OBVIOUS
<1>11. s = [r EXCEPT !.base = h, !.baseSize = r.baseSize + 1,
                     !.block = e, !.ptr = 0, !.avail = BaseBlockSize]
  BY <1>4, <1>5, <1>6, <1>7, <1>8, <1>10 DEF WithBaseBlock, NeedsBaseBlock, NewBlock
<1>12. PICK q : q = [s EXCEPT !.ptr = @ + n, !.avail = @ - n]
  OBVIOUS
<1>13. q = [r EXCEPT !.base = h, !.baseSize = r.baseSize + 1,
                     !.block = e, !.ptr = n, !.avail = BaseBlockSize - n]
  <2>1. s \in KeysetRec /\ s.ptr = 0 /\ s.avail = BaseBlockSize
    <3>1. r.baseSize + 1 \in Nat
      BY <1>2
    <3> QED BY <1>1, <1>3, <1>9, <1>11, <3>1 DEF KeysetRec
  <2>2. s.ptr + n = n /\ s.avail - n = BaseBlockSize - n
    BY <2>1
  <2>3. q = [s EXCEPT !.ptr = n, !.avail = BaseBlockSize - n]
    BY <1>12, <2>2
  <2> QED BY <1>1, <1>11, <2>3 DEF KeysetRec
<1>14. q \in KeysetRec
  <2>1. r.baseSize + 1 \in Nat /\ BaseBlockSize - n \in Nat
    BY <1>2, <1>3
  <2> QED BY <1>1, <1>9, <1>13, <2>1 DEF KeysetRec
<1>15. /\ q.base = h /\ q.baseSize = r.baseSize + 1 /\ q.extra = r.extra /\ q.extraSize = r.extraSize
       /\ q.block = e /\ q.ptr = n /\ q.avail = BaseBlockSize - n /\ SameKeys(r, q)
  BY <1>1, <1>13 DEF KeysetRec, SameKeys
<1>16. e # Null
  BY <1>7 DEF Null
<1>17. /\ \A c \in Kinds, i \in Slots :
            BlockAt(q, c, i) = IF c = "base" /\ i = UsedSize(r, "base") + 1 THEN e ELSE BlockAt(r, c, i)
       /\ \A c \in Kinds : UsedSize(q, c) = IF c = "base" THEN UsedSize(r, "base") + 1 ELSE UsedSize(r, c)
  <2>1. q["base"] = h /\ r["base"] = r.base /\ q["extra"] = r["extra"] /\ "base" # "extra"
    BY <1>15
  <2>2. \A c \in Kinds, i \in Slots :
          BlockAt(q, c, i) = IF c = "base" /\ i = UsedSize(r, "base") + 1 THEN e ELSE BlockAt(r, c, i)
    BY <1>2, <1>9, <2>1 DEF BlockAt, Kinds
  <2>3. \A c \in Kinds : UsedSize(q, c) = IF c = "base" THEN UsedSize(r, "base") + 1 ELSE UsedSize(r, c)
    BY <1>2, <1>15 DEF UsedSize, Kinds
  <2> QED BY <2>2, <2>3
<1>18. RecordOK(q)
  <2>1. /\ \A a \in Kinds : \A i \in 1 .. UsedSize(q, a) : BlockAt(q, a, i) # Null
        /\ \A a \in Kinds, i \in Slots : BlockAt(q, a, i + 1) # Null => BlockAt(q, a, i) # Null
    <3>1. MoreBlocks(r, q, "base", e)
      BY <1>16, <1>17 DEF MoreBlocks
    <3> QED BY <1>1, <3>1, OneMoreBlock DEF Kinds
  <2>2. q.base[q.baseSize] = e
    <3>1. r.baseSize + 1 \in 1 .. Len(h)
      BY <1>2, <1>9
    <3> QED BY <1>2, <1>9, <1>15, <3>1, AtFacts
  <2>3. q.baseSize # 0 /\ q.ptr + q.avail = BaseBlockSize
    BY <1>2, <1>3, <1>15
  <2>4. ArraysOK(q)
    BY <1>1, <1>9, <1>15, <2>1, <2>2, <2>3 DEF ArraysOK
  <2> QED BY <1>1, <1>14, <1>15, <2>4 DEF RecordOK, KeyBlocksOK, SameKeys
<1>19. PICK room : room = Reserve(r, n)
  OBVIOUS
<1>20. /\ room.r = q /\ room.block = e /\ room.at = 0
       /\ room.heap = IF old = Null THEN Allocated(BaseBlockSize) ELSE heap
  <2>1. room = [r |-> q, block |-> s.block, at |-> s.ptr,
                heap |-> IF old = Null THEN Allocated(BaseBlockSize) ELSE heap]
    BY <1>3, <1>5, <1>6, <1>10, <1>12, <1>19 DEF Reserve, NeedsBaseBlock
  <2>2. s.block = e /\ s.ptr = 0
    BY <1>1, <1>11 DEF KeysetRec
  <2> QED BY <2>1, <2>2
<1>21. CASE old = Null
  <2>1. PICK A : A = Allocated(BaseBlockSize)
    OBVIOUS
  <2>2. /\ A \in Seq(Seq(Chars)) /\ Len(A) = m + 1 /\ DOMAIN heap = 1 .. m
        /\ (\A b \in DOMAIN heap : A[b] = heap[b])
        /\ Len(A[m + 1]) = BaseBlockSize /\ A[m + 1] # <<>>
    <3>1. BaseBlockSize # 0
      BY <1>3
    <3> QED BY <1>3, <1>4, <2>1, <3>1, AllocatedFacts
  <2>3. \A b \in DOMAIN heap : A[b] = IF b = old THEN <<>> ELSE heap[b]
    BY <1>21, <2>2 DEF Null
  <2>4. e = m + 1
    BY <1>7, <1>21
  <2>5. Fresh(r, n, "base", room, heap)
    BY <1>2, <1>3, <1>4, <1>6, <1>15, <1>17, <1>20, <1>21, <2>1, <2>2, <2>3, <2>4 DEF Fresh
  <2> QED BY <1>15, <1>18, <1>19, <1>20, <2>5 DEF Reserved, Kinds
<1>22. CASE old # Null
  <2>1. e = old
    BY <1>7, <1>22
  <2>2. \A c \in Kinds, i \in Slots : BlockAt(q, c, i) = BlockAt(r, c, i)
    BY <1>2, <1>6, <1>17, <2>1
  <2>3. Again(r, n, room, heap)
    <3>1. UsedSize(q, "extra") = UsedSize(r, "extra") /\ UsedSize(q, "base") = UsedSize(r, "base") + 1
      BY <1>17 DEF Kinds
    <3>2. n = 0 + n
      OBVIOUS
    <3> QED BY <1>15, <1>16, <1>20, <1>22, <2>2, <3>1, <3>2 DEF Again
  <2> QED BY <1>15, <1>18, <1>19, <1>20, <2>3 DEF Reserved
<1> QED BY <1>21, <1>22

\* The block that is being filled has the room.
LEMMA FilledReserved ==
  ASSUME heap \in Seq(Seq(Chars)), NEW r, RecordOK(r),
         NEW n \in Nat, n <= ExtraBlockSize, n <= r.avail
  PROVE  Reserved(r, n, Reserve(r, n), heap)
<1>1. r \in KeysetRec /\ ArraysOK(r) /\ KeyBlocksOK(r)
  BY DEF RecordOK
<1>2. r.ptr \in Nat /\ r.avail \in Nat /\ r.block \in Nat
  BY <1>1, RecordFields
<1>3. ~(n > ExtraBlockSize) /\ ~(n > r.avail) /\ r.ptr + n \in Nat /\ r.avail - n \in Nat
  BY <1>2, BlockSizesAssumption
<1>4. PICK q : q = [r EXCEPT !.ptr = r.ptr + n, !.avail = r.avail - n]
  OBVIOUS
<1>5. q \in KeysetRec
  BY <1>1, <1>3, <1>4 DEF KeysetRec
<1>6. /\ q.base = r.base /\ q.baseSize = r.baseSize /\ q.extra = r.extra /\ q.extraSize = r.extraSize
      /\ q.block = r.block /\ q.ptr = r.ptr + n /\ q.avail = r.avail - n /\ SameKeys(r, q)
  BY <1>1, <1>4 DEF KeysetRec, SameKeys
<1>7. /\ \A c \in Kinds : \A i : BlockAt(q, c, i) = BlockAt(r, c, i)
      /\ \A c \in Kinds : UsedSize(q, c) = UsedSize(r, c)
  <2>1. \A c \in Kinds : q[c] = r[c]
    BY <1>6 DEF Kinds
  <2> QED BY <1>6, <2>1 DEF BlockAt, UsedSize
<1>8. (r.baseSize = 0 => n = 0) /\ q.ptr + q.avail = r.ptr + r.avail
      /\ (n = 0 => q.ptr = r.ptr /\ q.avail = r.avail)
  <2>1. r.baseSize = 0 => r.avail = 0
    BY <1>1 DEF ArraysOK
  <2> QED BY <1>2, <1>6, <2>1
<1>9. ArraysOK(q)
  <2>1. \A a \in Kinds : \A i \in 1 .. UsedSize(q, a) : BlockAt(q, a, i) # Null
    BY <1>1, <1>7 DEF ArraysOK
  <2>2. \A a \in Kinds, i \in Slots : BlockAt(q, a, i + 1) # Null => BlockAt(q, a, i) # Null
    BY <1>1, <1>7 DEF ArraysOK
  <2> QED BY <1>1, <1>6, <1>8, <2>1, <2>2 DEF ArraysOK
<1>10. PICK room : room = Reserve(r, n)
  OBVIOUS
<1>11. room.r = q /\ room.block = r.block /\ room.at = r.ptr /\ room.heap = heap
  <2>1. room = [r |-> q, block |-> r.block, at |-> r.ptr, heap |-> heap]
    BY <1>3, <1>4, <1>10 DEF Reserve
  <2> QED BY <2>1
<1>12. r.block = Null => n = 0
  <2> SUFFICES ASSUME r.block = Null, r.baseSize # 0 PROVE FALSE
    BY <1>8
  <2>1. r.block = BlockAt(r, "base", r.baseSize) /\ r.baseSize = UsedSize(r, "base") /\ r.baseSize \in Nat
    BY <1>1, RecordFields, ArrayFields
  <2>2. r.baseSize \in 1 .. UsedSize(r, "base")
    BY <2>1
  <2> QED BY <1>1, <2>1, <2>2 DEF ArraysOK, Kinds
<1>13. Again(r, n, room, heap)
  <2>1. "base" \in Kinds /\ "extra" \in Kinds
    BY DEF Kinds
  <2> QED BY <1>6, <1>7, <1>11, <1>12, <2>1 DEF Again
<1>14. RecordOK(q)
  BY <1>1, <1>5, <1>6, <1>9 DEF RecordOK, KeyBlocksOK, SameKeys
<1> QED BY <1>2, <1>6, <1>10, <1>11, <1>13, <1>14 DEF Reserved

\* Where reserve puts n characters.
LEMMA ReserveFacts ==
  ASSUME heap \in Seq(Seq(Chars)), NEW r, RecordOK(r), BaseFull(r, heap), NEW n \in Nat,
         \A i \in Slots : BlockAt(r, "extra", i) # Null => BlockAt(r, "extra", i) \in DOMAIN heap
  PROVE  Reserved(r, n, Reserve(r, n), heap)
<1>1. r.avail \in Nat
  BY RecordFields DEF RecordOK
<1>2. n > ExtraBlockSize \/ (n <= ExtraBlockSize /\ (n > r.avail \/ n <= r.avail))
  BY <1>1, BlockSizesAssumption
<1> QED BY <1>2, ExtraReserved, BaseReserved, FilledReserved

\* Characters are copied into a block, over those at a position.
LEMMA CopiedFacts ==
  ASSUME NEW H \in Seq(Seq(Chars)), NEW b \in DOMAIN H, NEW at \in Nat, NEW chars \in Seq(Chars),
         chars # <<>>, at + Len(chars) <= Len(H[b])
  PROVE  /\ Copied(H, b, at, chars) \in Seq(Seq(Chars))
         /\ Len(Copied(H, b, at, chars)) = Len(H)
         /\ DOMAIN Copied(H, b, at, chars) = DOMAIN H
         /\ \A c \in DOMAIN H : c # b => Copied(H, b, at, chars)[c] = H[c]
         /\ Len(Copied(H, b, at, chars)[b]) = Len(H[b])
         /\ \A x \in 1 .. at : Copied(H, b, at, chars)[b][x] = H[b][x]
         /\ \A x \in 1 .. Len(chars) : Copied(H, b, at, chars)[b][at + x] = chars[x]
<1>1. PICK s : s = H[b]
  OBVIOUS
<1>2. s \in Seq(Chars)
  BY <1>1, ElementOfSeq
<1>3. PICK n \in Nat : n = Len(s) /\ DOMAIN s = 1 .. n
  BY <1>2, LenProperties
<1>4. PICK m \in Nat : m = Len(chars)
  BY LenProperties
<1>5. at + m <= n
  BY <1>1, <1>3, <1>4
<1>6. PICK u : u = SubSeq(s, 1, at)
  OBVIOUS
<1>7. u \in Seq(Chars) /\ Len(u) = at /\ \A x \in 1 .. at : u[x] = s[x]
  <2>1. \A x \in 1 .. at : s[x] \in Chars
    <3> TAKE x \in 1 .. at
    <3>1. x \in DOMAIN s
      BY <1>3, <1>5
    <3> QED BY <1>2, <3>1, ElementOfSeq
  <2>2. 1 \in Int /\ at \in Int /\ (at - 1) + 1 = at /\ \A x \in 1 .. at : (1 + x) - 1 = x
    OBVIOUS
  <2>3. /\ u \in Seq(Chars)
        /\ Len(u) = IF 1 <= at THEN (at - 1) + 1 ELSE 0
        /\ \A x \in 1 .. (at - 1) + 1 : u[x] = s[(1 + x) - 1]
    BY <1>6, <2>1, SubSeqProperties
  <2> QED BY <2>2, <2>3
<1>8. PICK lo \in Nat : lo = at + m + 1
  OBVIOUS
<1>9. PICK v : v = SubSeq(s, lo, n)
  OBVIOUS
<1>10. v \in Seq(Chars) /\ Len(v) = n - (at + m)
  <2>1. \A x \in lo .. n : s[x] \in Chars
    <3> TAKE x \in lo .. n
    <3>1. x \in DOMAIN s
      BY <1>3, <1>8
    <3> QED BY <1>2, <3>1, ElementOfSeq
  <2>2. v \in Seq(Chars) /\ Len(v) = IF lo <= n THEN (n - lo) + 1 ELSE 0
    BY <1>9, <2>1, SubSeqProperties
  <2>3. lo <= n => (n - lo) + 1 = n - (at + m)
    BY <1>8
  <2>4. ~(lo <= n) => n - (at + m) = 0
    BY <1>5, <1>8
  <2> QED BY <2>2, <2>3, <2>4
<1>11. PICK w : w = u \o chars
  OBVIOUS
<1>12. /\ w \in Seq(Chars) /\ Len(w) = at + m
       /\ \A x \in 1 .. at + m : w[x] = IF x <= at THEN u[x] ELSE chars[x - at]
  BY <1>4, <1>7, <1>11, ConcatProperties
<1>13. PICK t : t = w \o v
  OBVIOUS
<1>21. PICK k \in Nat, d \in Nat : k = at + m /\ d = n - (at + m) /\ k + d = n
  <2>1. at + m \in Nat /\ n - (at + m) \in Nat /\ (at + m) + (n - (at + m)) = n
    BY <1>5
  <2> QED BY <2>1
<1>14. /\ t \in Seq(Chars) /\ Len(t) = k + d
       /\ \A x \in 1 .. k + d : t[x] = IF x <= k THEN w[x] ELSE v[x - k]
  <2>1. Len(w) = k /\ Len(v) = d /\ w \in Seq(Chars) /\ v \in Seq(Chars)
    BY <1>10, <1>12, <1>21
  <2>2. /\ w \o v \in Seq(Chars) /\ Len(w \o v) = Len(w) + Len(v)
        /\ \A x \in 1 .. Len(w) + Len(v) : (w \o v)[x] = IF x <= Len(w) THEN w[x] ELSE v[x - Len(w)]
    BY ONLY <2>1, ConcatProperties
  <2> QED BY <1>13, <2>1, <2>2
<1>15. Len(t) = n /\ \A x \in 1 .. at + m : t[x] = w[x]
  <2>2. \A x \in 1 .. k : x \in 1 .. n /\ x <= k
    BY <1>5, <1>21
  <2> QED BY <1>14, <1>21, <2>2
<1>16. PICK G : G = Copied(H, b, at, chars)
  OBVIOUS
<1>17. G = [H EXCEPT ![b] = t]
  BY <1>1, <1>3, <1>4, <1>6, <1>8, <1>9, <1>11, <1>13, <1>16 DEF Copied
<1>18. /\ G \in Seq(Seq(Chars)) /\ Len(G) = Len(H) /\ DOMAIN G = DOMAIN H /\ G[b] = t
       /\ \A c \in DOMAIN H : c # b => G[c] = H[c]
  BY <1>14, <1>17, SeqExcept
<1>19. \A x \in 1 .. at : t[x] = s[x]
  <2> TAKE x \in 1 .. at
  <2>1. x \in 1 .. at + m /\ x <= at
    OBVIOUS
  <2> QED BY <1>7, <1>12, <1>15, <2>1
<1>20. \A x \in 1 .. m : t[at + x] = chars[x]
  <2> TAKE x \in 1 .. m
  <2>1. at + x \in 1 .. at + m /\ ~(at + x <= at) /\ (at + x) - at = x
    OBVIOUS
  <2> QED BY <1>12, <1>15, <2>1
<1> QED BY <1>1, <1>3, <1>4, <1>15, <1>16, <1>18, <1>19, <1>20

---------------------------------------------------------------------------
(* The keys stay where they are.                                           *)

\* A key has its characters, and its end marker, in a block that is used.
KeyHeld(r, H, key, p) ==
  /\ key.length = Len(p.str) /\ key.union = p.union
  /\ p.str \o p.marker # <<>> =>
       /\ \E a \in Kinds : \E i \in 1 .. UsedSize(r, a) : key.block = BlockAt(r, a, i)
       /\ key.at + Len(p.str \o p.marker) <= Len(H[key.block])
       /\ \A x \in 1 .. Len(p.str \o p.marker) : H[key.block][key.at + x] = (p.str \o p.marker)[x]
       /\ key.block = r.block => key.at + Len(p.str \o p.marker) <= r.ptr

\* What is in the blocks that are used stays there, and stays used.
Kept(r, H, q, G) ==
  \A a \in Kinds : \A i \in 1 .. UsedSize(r, a) :
    /\ i <= UsedSize(q, a) /\ BlockAt(q, a, i) = BlockAt(r, a, i)
    /\ Len(G[BlockAt(r, a, i)]) = Len(H[BlockAt(r, a, i)])
    /\ \A x \in 1 .. Len(H[BlockAt(r, a, i)]) :
         (BlockAt(r, a, i) = r.block => x <= r.ptr) => G[BlockAt(r, a, i)][x] = H[BlockAt(r, a, i)][x]
    /\ BlockAt(r, a, i) = q.block => BlockAt(r, a, i) = r.block /\ r.ptr <= q.ptr

\* A key reads as before when what is in the used blocks is kept.
LEMMA KeyStaysHeld ==
  ASSUME NEW r \in KeysetRec, NEW q \in KeysetRec, NEW H, NEW G, NEW key, NEW p,
         key.at \in Nat, p.str \o p.marker \in Seq(Chars),
         KeyHeld(r, H, key, p), Kept(r, H, q, G),
         \A a \in Kinds : UsedSize(q, a) \in Nat,
         \A a \in Kinds : \A i \in 1 .. UsedSize(r, a) : Len(H[BlockAt(r, a, i)]) \in Nat
  PROVE  KeyHeld(q, G, key, p)
<1> SUFFICES ASSUME p.str \o p.marker # <<>>
             PROVE  /\ \E a \in Kinds : \E i \in 1 .. UsedSize(q, a) : key.block = BlockAt(q, a, i)
                    /\ key.at + Len(p.str \o p.marker) <= Len(G[key.block])
                    /\ \A x \in 1 .. Len(p.str \o p.marker) :
                         G[key.block][key.at + x] = (p.str \o p.marker)[x]
                    /\ key.block = q.block => key.at + Len(p.str \o p.marker) <= q.ptr
  BY DEF KeyHeld
<1>1. PICK s : s = p.str \o p.marker
  OBVIOUS
<1>2. PICK n \in Nat, at \in Nat, rp \in Nat, qp \in Nat :
        n = Len(s) /\ at = key.at /\ rp = r.ptr /\ qp = q.ptr
  BY <1>1, LenProperties, RecordFields
<1>3. PICK a \in Kinds, i \in Nat : i \in 1 .. UsedSize(r, a) /\ key.block = BlockAt(r, a, i)
  <2>1. PICK a \in Kinds : \E i \in 1 .. UsedSize(r, a) : key.block = BlockAt(r, a, i)
    BY DEF KeyHeld
  <2>2. PICK i \in 1 .. UsedSize(r, a) : key.block = BlockAt(r, a, i)
    BY <2>1
  <2> QED BY <2>2
<1>4. PICK b : b = key.block
  OBVIOUS
<1>5. PICK l \in Nat : l = Len(H[b])
  BY <1>3, <1>4
<1>6. /\ at + n <= l
      /\ \A x \in 1 .. n : H[b][at + x] = s[x]
      /\ b = r.block => at + n <= rp
  BY <1>1, <1>2, <1>4, <1>5 DEF KeyHeld
<1>7. /\ i <= UsedSize(q, a) /\ BlockAt(q, a, i) = b /\ Len(G[b]) = l
      /\ \A x \in 1 .. l : (b = r.block => x <= rp) => G[b][x] = H[b][x]
      /\ b = q.block => b = r.block /\ rp <= qp
  BY <1>2, <1>3, <1>4, <1>5 DEF Kept
<1>8. \A x \in 1 .. n : G[b][at + x] = s[x]
  <2> TAKE x \in 1 .. n
  <2>1. at + x \in 1 .. l /\ (b = r.block => at + x <= rp)
    BY <1>6
  <2> QED BY <1>6, <1>7, <2>1
<1>9. i \in 1 .. UsedSize(q, a)
  BY <1>3, <1>7
<1>10. b = q.block => at + n <= qp
  BY <1>6, <1>7
<1> QED BY <1>1, <1>2, <1>4, <1>6, <1>7, <1>8, <1>9, <1>10

\* The blocks of a keyset are there, each in one place.
OwnsOnce(r, H) ==
  /\ \A a, c \in Kinds : \A i, j \in Slots :
       BlockAt(r, a, i) # Null /\ BlockAt(r, a, i) = BlockAt(r, c, j) => a = c /\ i = j
  /\ \A a \in Kinds, i \in Slots : BlockAt(r, a, i) # Null => BlockAt(r, a, i) \in DOMAIN H

\* The characters are where the key says, and hide nothing.
Written(r, room, G, chars) ==
  /\ \E a \in Kinds : \E i \in 1 .. UsedSize(room.r, a) : room.block = BlockAt(room.r, a, i)
  /\ room.at + Len(chars) <= Len(G[room.block])
  /\ \A x \in 1 .. Len(chars) : G[room.block][room.at + x] = chars[x]
  /\ room.block = room.r.block => room.at + Len(chars) <= room.r.ptr

\* The heap when they are copied: every block of characters keeps its length.
LEMMA RoomThere ==
  ASSUME NEW H \in Seq(Seq(Chars)), NEW r, RecordOK(r), BaseFull(r, H), OwnsOnce(r, H),
         NEW n \in Nat, NEW room, Reserved(r, n, room, H), n # 0
  PROVE  /\ room.heap \in Seq(Seq(Chars)) /\ room.block \in DOMAIN room.heap
         /\ room.at + n <= Len(room.heap[room.block])
         /\ \E a \in Kinds : \E i \in 1 .. UsedSize(room.r, a) : room.block = BlockAt(room.r, a, i)
         /\ room.block = room.r.block => room.at + n <= room.r.ptr
<1>1. RecordOK(room.r) /\ room.r \in KeysetRec /\ r \in KeysetRec /\ ArraysOK(room.r) /\ ArraysOK(r)
      /\ room.at \in Nat /\ room.block \in Nat
  BY DEF Reserved, RecordOK
<1>2. Len(H) \in Nat /\ DOMAIN H = 1 .. Len(H)
  BY LenProperties
<1>3. \A a \in Kinds : UsedSize(r, a) \in Nat /\ UsedSize(r, a) + 1 \in Slots
  BY <1>1, ArrayFields
<1>4. CASE \E a \in Kinds : Fresh(r, n, a, room, H)
  <2>1. PICK a \in Kinds : Fresh(r, n, a, room, H)
    BY <1>4
  <2>2. PICK i \in Nat : i = UsedSize(r, a) + 1 /\ i \in Slots /\ i \in 1 .. i
    BY <1>3
  <2>3. /\ room.heap \in Seq(Seq(Chars)) /\ Len(room.heap) = Len(H) + 1
        /\ room.block = Len(H) + 1 /\ room.at = 0 /\ n <= Len(room.heap[Len(H) + 1])
    BY <2>1 DEF Fresh
  <2>4. room.block \in DOMAIN room.heap
    BY <1>2, <2>3, LenProperties
  <2>5. UsedSize(room.r, a) = i /\ BlockAt(room.r, a, i) = room.block
    BY <2>1, <2>2 DEF Fresh
  <2>6. room.block = room.r.block => n <= room.r.ptr
    <3>1. CASE a = "base"
      <4>1. room.r.ptr = n
        BY <2>1, <3>1 DEF Fresh
      <4> QED BY <4>1
    <3>2. CASE a # "base"
      <4>1. room.r.block = r.block
        BY <2>1, <3>2 DEF Fresh
      <4> SUFFICES ASSUME r.block = Len(H) + 1 PROVE FALSE
        BY <2>3, <4>1
      <4>2. r.baseSize # 0
        BY <1>1, <1>2 DEF ArraysOK, Null
      <4>3. r.block = BlockAt(r, "base", r.baseSize) /\ r.baseSize \in Slots
        BY <1>1, <4>2, ArrayFields, RecordFields DEF Slots
      <4>4. r.block \in DOMAIN H
        BY <1>2, <4>3 DEF OwnsOnce, Kinds, Null
      <4> QED BY <1>2, <4>4
    <3> QED BY <3>1, <3>2
  <2>7. n = room.at + n
    BY <2>3
  <2>8. \E c \in Kinds : \E j \in 1 .. UsedSize(room.r, c) : room.block = BlockAt(room.r, c, j)
    BY <2>2, <2>5
  <2> QED BY <2>3, <2>4, <2>6, <2>7, <2>8
<1>5. CASE Again(r, n, room, H)
  <2>1. PICK q : q = room.r
    OBVIOUS
  <2>2. /\ room.heap = H /\ room.block = q.block /\ q.ptr = room.at + n /\ room.block # Null
        /\ \A c \in Kinds, i \in Slots : BlockAt(q, c, i) = BlockAt(r, c, i)
    BY <1>5, <2>1 DEF Again
  <2>3. q \in KeysetRec /\ ArraysOK(q)
    BY <1>1, <2>1
  <2>4. q.baseSize # 0
    BY <2>2, <2>3 DEF ArraysOK
  <2>5. /\ q.block = BlockAt(q, "base", q.baseSize) /\ q.baseSize \in Slots /\ q.baseSize \in Nat
        /\ UsedSize(q, "base") = q.baseSize /\ q.ptr \in Nat /\ q.avail \in Nat
    BY <2>3, <2>4, ArrayFields, RecordFields DEF Slots
  <2>6. q.baseSize \in 1 .. UsedSize(q, "base") /\ "base" \in Kinds
    BY <2>4, <2>5 DEF Kinds
  <2>7. q.block = BlockAt(r, "base", q.baseSize)
    BY <2>2, <2>5, <2>6
  <2>8. q.block \in DOMAIN H /\ Len(H[q.block]) = BaseBlockSize
    BY <2>2, <2>5, <2>6, <2>7 DEF OwnsOnce, BaseFull
  <2>9. q.ptr + q.avail = BaseBlockSize
    BY <2>3, <2>4 DEF ArraysOK
  <2>10. q.ptr <= BaseBlockSize
    BY <2>5, <2>9
  <2>11. room.at + n <= Len(room.heap[room.block]) /\ room.at + n <= q.ptr
    BY <2>2, <2>5, <2>8, <2>10
  <2>12. \E a \in Kinds : \E i \in 1 .. UsedSize(q, a) : room.block = BlockAt(q, a, i)
    BY <2>2, <2>5, <2>6
  <2> QED BY <2>1, <2>2, <2>8, <2>11, <2>12
<1> QED BY <1>4, <1>5 DEF Reserved

\* A heap after characters were copied over those from x on in block b.
SameBut(H, G, b, x) ==
  /\ G \in Seq(Seq(Chars)) /\ Len(G) = Len(H) /\ DOMAIN G = DOMAIN H
  /\ \A c \in DOMAIN H : Len(G[c]) = Len(H[c]) /\ (G[c] = <<>> <=> H[c] = <<>>)
  /\ \A c \in DOMAIN H : c # b => G[c] = H[c]
  /\ \A y \in 1 .. x : b \in DOMAIN H => G[b][y] = H[b][y]

\* The characters are where there was room for them, and nothing else changes.
LEMMA CopiedRoom ==
  ASSUME NEW H \in Seq(Seq(Chars)), NEW r, RecordOK(r), BaseFull(r, H), OwnsOnce(r, H),
         NEW chars \in Seq(Chars), NEW room, Reserved(r, Len(chars), room, H),
         NEW G, G = Copied(room.heap, room.block, room.at, chars)
  PROVE  /\ SameBut(room.heap, G, room.block, room.at)
         /\ chars # <<>> => Written(r, room, G, chars)
<1>1. PICK n \in Nat : n = Len(chars)
  BY LenProperties
<1>2. n = 0 <=> chars = <<>>
  BY <1>1, EmptySeq
<1>3. room.heap \in Seq(Seq(Chars)) /\ room.at \in Nat
  BY DEF Reserved, Fresh, Again
<1>4. CASE n = 0
  <2>1. G = room.heap
    BY <1>2, <1>4 DEF Copied
  <2> QED BY <1>2, <1>3, <1>4, <2>1 DEF SameBut
<1>5. CASE n # 0
  <2>1. PICK b : b = room.block
    OBVIOUS
  <2>2. PICK R : R = room.heap
    OBVIOUS
  <2>3. PICK at \in Nat : at = room.at
    BY <1>3
  <2>4. /\ R \in Seq(Seq(Chars)) /\ b \in DOMAIN R /\ at + n <= Len(R[b])
        /\ \E a \in Kinds : \E i \in 1 .. UsedSize(room.r, a) : b = BlockAt(room.r, a, i)
        /\ b = room.r.block => at + n <= room.r.ptr
    BY <1>1, <1>5, <2>1, <2>2, <2>3, RoomThere
  <2>5. G = Copied(R, b, at, chars) /\ chars # <<>> /\ at + Len(chars) <= Len(R[b])
    BY <1>1, <1>2, <1>5, <2>1, <2>2, <2>3, <2>4
  <2>6. /\ G \in Seq(Seq(Chars)) /\ Len(G) = Len(R) /\ DOMAIN G = DOMAIN R
        /\ \A c \in DOMAIN R : c # b => G[c] = R[c]
        /\ Len(G[b]) = Len(R[b])
        /\ \A x \in 1 .. at : G[b][x] = R[b][x]
        /\ \A x \in 1 .. Len(chars) : G[b][at + x] = chars[x]
    <3>1. PICK c : c = chars
      OBVIOUS
    <3>2. /\ R \in Seq(Seq(Chars)) /\ b \in DOMAIN R /\ at \in Nat /\ c \in Seq(Chars)
          /\ c # <<>> /\ at + Len(c) <= Len(R[b])
      BY <2>4, <2>5, <3>1
    <3>3. /\ Copied(R, b, at, c) \in Seq(Seq(Chars))
          /\ Len(Copied(R, b, at, c)) = Len(R)
          /\ DOMAIN Copied(R, b, at, c) = DOMAIN R
          /\ \A d \in DOMAIN R : d # b => Copied(R, b, at, c)[d] = R[d]
          /\ Len(Copied(R, b, at, c)[b]) = Len(R[b])
          /\ \A x \in 1 .. at : Copied(R, b, at, c)[b][x] = R[b][x]
          /\ \A x \in 1 .. Len(c) : Copied(R, b, at, c)[b][at + x] = c[x]
      BY ONLY <3>2, CopiedFacts
    <3>4. G = Copied(R, b, at, c)
      BY <2>5, <3>1
    <3> QED BY <3>1, <3>3, <3>4
  <2>7. ASSUME NEW c \in DOMAIN R
        PROVE  Len(G[c]) = Len(R[c]) /\ (G[c] = <<>> <=> R[c] = <<>>)
    <3>1. G[c] \in Seq(Chars) /\ R[c] \in Seq(Chars)
      BY <2>4, <2>6, ElementOfSeq
    <3>2. Len(G[c]) = Len(R[c])
      BY <2>6
    <3> QED BY <3>1, <3>2, EmptySeq
  <2>8. SameBut(R, G, b, at)
    BY <2>6, <2>7 DEF SameBut
  <2>9. Written(r, room, G, chars)
    <3>1. at + Len(chars) <= Len(G[b])
      BY <2>5, <2>6
    <3> QED BY <1>1, <2>1, <2>3, <2>4, <2>6, <3>1 DEF Written
  <2> QED BY <2>1, <2>2, <2>3, <2>8, <2>9
<1> QED BY <1>4, <1>5

\* The blocks that are not in the arrays stay as they are.
LeavesOthers(r, H, G) ==
  \A b \in DOMAIN H : (\A a \in Kinds, i \in Slots : BlockAt(r, a, i) # b) => G[b] = H[b]

\* A key that is pushed takes the place of no other: the keys of the keyset
\* stay where they are, and the blocks of others as they are.
LEMMA PushKeeps ==
  ASSUME NEW H \in Seq(Seq(Chars)), NEW r, RecordOK(r), BaseFull(r, H), OwnsOnce(r, H),
         NEW n \in Nat, NEW room, Reserved(r, n, room, H),
         NEW G, SameBut(room.heap, G, room.block, room.at)
  PROVE  /\ Kept(r, H, room.r, G)
         /\ BaseFull(room.r, G)
         /\ LeavesOthers(r, H, G)
<1>1. PICK q : q = room.r
  OBVIOUS
<1>2. RecordOK(q) /\ q \in KeysetRec /\ r \in KeysetRec /\ ArraysOK(q) /\ ArraysOK(r)
      /\ room.at \in Nat /\ room.block \in Nat
  BY <1>1 DEF Reserved, RecordOK
<1>3. PICK m \in Nat : m = Len(H) /\ DOMAIN H = 1 .. m
  BY LenProperties
<1>4. \A a \in Kinds : UsedSize(r, a) \in Nat /\ UsedSize(r, a) + 1 \in Slots
  BY <1>2, ArrayFields
<1>5. \A a \in Kinds : \A i \in 1 .. UsedSize(r, a) :
        i \in Slots /\ BlockAt(r, a, i) # Null /\ BlockAt(r, a, i) \in DOMAIN H
  <2> TAKE a \in Kinds
  <2> TAKE i \in 1 .. UsedSize(r, a)
  <2>1. i \in Slots
    BY <1>4 DEF Slots
  <2> QED BY <1>2, <2>1 DEF ArraysOK, OwnsOnce
<1>6. CASE \E a \in Kinds : Fresh(r, n, a, room, H)
  <2>1. PICK k \in Kinds : Fresh(r, n, k, room, H)
    BY <1>6
  <2>2. PICK R : R = room.heap
    OBVIOUS
  <2>3. PICK old : old = BlockAt(r, k, UsedSize(r, k) + 1)
    OBVIOUS
  <2>4. /\ R \in Seq(Seq(Chars)) /\ Len(R) = m + 1 /\ DOMAIN R = 1 .. m + 1 /\ room.block = m + 1
        /\ k = "base" => Len(R[m + 1]) = BaseBlockSize
        /\ \A b \in DOMAIN H : R[b] = IF b = old THEN <<>> ELSE H[b]
        /\ IF k = "base" THEN q.block = m + 1 /\ q.ptr = n ELSE q.block = r.block /\ q.ptr = r.ptr
    BY <1>1, <1>3, <2>1, <2>2, <2>3, LenProperties DEF Fresh
  <2>5. /\ \A c \in DOMAIN R : Len(G[c]) = Len(R[c])
        /\ \A c \in DOMAIN R : c # m + 1 => G[c] = R[c]
    BY <2>2, <2>4 DEF SameBut
  <2>6. \A b \in DOMAIN H : b \in DOMAIN R /\ b # m + 1
    BY <1>3, <2>4
  <2>7. \A b \in DOMAIN H : b # old => G[b] = H[b]
    BY <2>4, <2>5, <2>6
  <2>8. /\ \A c \in Kinds, i \in Slots :
             BlockAt(q, c, i) = IF c = k /\ i = UsedSize(r, k) + 1 THEN m + 1 ELSE BlockAt(r, c, i)
        /\ \A c \in Kinds : UsedSize(q, c) = IF c = k THEN UsedSize(r, k) + 1 ELSE UsedSize(r, c)
    BY <1>1, <1>3, <2>1 DEF Fresh
  <2>9. \A a \in Kinds : \A i \in Slots :
          ~(a = k /\ i = UsedSize(r, k) + 1) /\ BlockAt(r, a, i) # Null => BlockAt(r, a, i) # old
    BY <1>4, <2>3 DEF OwnsOnce
  <2>10. Kept(r, H, q, G)
    <3> SUFFICES ASSUME NEW a \in Kinds, NEW i \in 1 .. UsedSize(r, a)
                 PROVE  /\ i <= UsedSize(q, a) /\ BlockAt(q, a, i) = BlockAt(r, a, i)
                        /\ G[BlockAt(r, a, i)] = H[BlockAt(r, a, i)]
                        /\ BlockAt(r, a, i) = q.block => BlockAt(r, a, i) = r.block /\ r.ptr <= q.ptr
      BY DEF Kept
    <3>1. i \in Slots /\ BlockAt(r, a, i) # Null /\ BlockAt(r, a, i) \in DOMAIN H
      BY <1>5
    <3>2. ~(a = k /\ i = UsedSize(r, k) + 1) /\ i <= UsedSize(q, a)
      BY <1>4, <2>8
    <3>3. BlockAt(q, a, i) = BlockAt(r, a, i)
      BY <2>8, <3>1, <3>2
    <3>4. G[BlockAt(r, a, i)] = H[BlockAt(r, a, i)]
      BY <2>7, <2>9, <3>1, <3>2
    <3>5. BlockAt(r, a, i) # m + 1
      BY <2>6, <3>1
    <3>6. r.ptr <= r.ptr
      BY <1>2, RecordFields
    <3> QED BY <2>4, <3>2, <3>3, <3>4, <3>5, <3>6
  <2>11. BaseFull(q, G)
    <3> SUFFICES ASSUME NEW i \in Slots, BlockAt(q, "base", i) # Null
                 PROVE  Len(G[BlockAt(q, "base", i)]) = BaseBlockSize
      BY DEF BaseFull
    <3>1. "base" \in Kinds
      BY DEF Kinds
    <3>2. CASE k = "base" /\ i = UsedSize(r, k) + 1
      <4>1. BlockAt(q, "base", i) = m + 1
        BY <2>8, <3>1, <3>2
      <4>2. Len(G[m + 1]) = Len(R[m + 1])
        BY <2>4, <2>5
      <4> QED BY <2>4, <3>2, <4>1, <4>2
    <3>3. CASE ~(k = "base" /\ i = UsedSize(r, k) + 1)
      <4>1. BlockAt(q, "base", i) = BlockAt(r, "base", i)
        BY <2>8, <3>1, <3>3
      <4>2. BlockAt(r, "base", i) \in DOMAIN H /\ Len(H[BlockAt(r, "base", i)]) = BaseBlockSize
        BY <3>1, <4>1 DEF OwnsOnce, BaseFull
      <4>3. BlockAt(r, "base", i) # old
        BY <2>9, <3>1, <3>3, <4>1
      <4> QED BY <2>7, <4>1, <4>2, <4>3
    <3> QED BY <3>2, <3>3
  <2>12. ASSUME NEW b \in DOMAIN H, \A a \in Kinds, i \in Slots : BlockAt(r, a, i) # b
         PROVE  G[b] = H[b]
    <3>1. b # old
      BY <1>4, <2>3, <2>12
    <3> QED BY <2>7, <3>1
  <2> QED BY <1>1, <2>10, <2>11, <2>12 DEF LeavesOthers
<1>7. CASE Again(r, n, room, H)
  <2>1. /\ room.heap = H /\ room.block = q.block /\ q.ptr = room.at + n
        /\ \A c \in Kinds, i \in Slots : BlockAt(q, c, i) = BlockAt(r, c, i)
        /\ UsedSize(q, "extra") = UsedSize(r, "extra")
        /\ \/ UsedSize(q, "base") = UsedSize(r, "base") /\ q.block = r.block /\ room.at = r.ptr
           \/ UsedSize(q, "base") = UsedSize(r, "base") + 1
    BY <1>1, <1>7 DEF Again
  <2>2. /\ \A c \in DOMAIN H : Len(G[c]) = Len(H[c])
        /\ \A c \in DOMAIN H : c # q.block => G[c] = H[c]
        /\ q.block \in DOMAIN H => \A y \in 1 .. room.at : G[q.block][y] = H[q.block][y]
    BY <2>1 DEF SameBut
  <2>3. \A a \in Kinds : UsedSize(r, a) <= UsedSize(q, a)
    BY <1>4, <2>1 DEF Kinds
  <2>4. q.block # Null => \E i \in Slots : q.block = BlockAt(r, "base", i) /\ i = UsedSize(q, "base")
    <3> SUFFICES ASSUME q.block # Null
                 PROVE  \E i \in Slots : q.block = BlockAt(r, "base", i) /\ i = UsedSize(q, "base")
      OBVIOUS
    <3>1. q.baseSize # 0
      BY <1>2 DEF ArraysOK
    <3>2. /\ q.block = BlockAt(q, "base", q.baseSize) /\ q.baseSize \in Slots
          /\ q.baseSize = UsedSize(q, "base")
      BY <1>2, <3>1, ArrayFields, RecordFields DEF Slots
    <3> QED BY <2>1, <3>2 DEF Kinds
  <2>5. ASSUME NEW a \in Kinds, NEW i \in 1 .. UsedSize(r, a), BlockAt(r, a, i) = q.block
        PROVE  q.block = r.block /\ room.at = r.ptr /\ r.ptr <= q.ptr
    <3>1. i \in Slots /\ BlockAt(r, a, i) # Null /\ i \in Nat /\ i <= UsedSize(r, a)
      BY <1>5
    <3>2. PICK j \in Slots : q.block = BlockAt(r, "base", j) /\ j = UsedSize(q, "base")
      BY <2>4, <2>5, <3>1
    <3>3. a = "base" /\ i = j
      BY <2>5, <3>1, <3>2 DEF OwnsOnce, Kinds
    <3>4. ~(UsedSize(q, "base") = UsedSize(r, "base") + 1)
      BY <1>4, <3>1, <3>2, <3>3
    <3>5. room.at <= room.at + n
      BY <1>2
    <3> QED BY <2>1, <3>4, <3>5
  <2>6. Kept(r, H, q, G)
    <3> SUFFICES ASSUME NEW a \in Kinds, NEW i \in 1 .. UsedSize(r, a)
                 PROVE  /\ i <= UsedSize(q, a) /\ BlockAt(q, a, i) = BlockAt(r, a, i)
                        /\ Len(G[BlockAt(r, a, i)]) = Len(H[BlockAt(r, a, i)])
                        /\ \A x \in 1 .. Len(H[BlockAt(r, a, i)]) :
                             (BlockAt(r, a, i) = r.block => x <= r.ptr) =>
                                G[BlockAt(r, a, i)][x] = H[BlockAt(r, a, i)][x]
                        /\ BlockAt(r, a, i) = q.block => BlockAt(r, a, i) = r.block /\ r.ptr <= q.ptr
      BY DEF Kept
    <3>1. PICK b : b = BlockAt(r, a, i)
      OBVIOUS
    <3>2. i \in Slots /\ b # Null /\ b \in DOMAIN H
      BY <1>5, <3>1
    <3>3. i <= UsedSize(q, a)
      <4>1. PICK u \in Nat, v \in Int : u = UsedSize(r, a) /\ v = UsedSize(q, a) /\ u <= v
        <5>1. UsedSize(q, a) \in Nat
          BY <1>2, ArrayFields
        <5> QED BY <1>4, <2>3, <5>1
      <4> QED BY <4>1
    <3>4. CASE b # q.block
      <4>1. G[b] = H[b]
        BY <2>2, <3>2, <3>4
      <4> QED BY <2>1, <3>1, <3>2, <3>3, <3>4, <4>1
    <3>5. CASE b = q.block
      <4>1. q.block = r.block /\ room.at = r.ptr /\ r.ptr <= q.ptr
        BY <2>5, <3>1, <3>5
      <4>2. ASSUME NEW x \in 1 .. Len(H[b]), x <= r.ptr PROVE G[b][x] = H[b][x]
        <5>1. Len(H[b]) \in Nat /\ r.ptr \in Nat
          BY <1>2, <3>2, RecordFields, ElementOfSeq, LenProperties
        <5>2. x \in 1 .. room.at
          BY <4>1, <4>2, <5>1
        <5> QED BY <2>2, <3>2, <3>5, <5>2
      <4> QED BY <2>1, <2>2, <3>1, <3>2, <3>3, <3>5, <4>1, <4>2
    <3> QED BY <3>4, <3>5
  <2>7. BaseFull(q, G)
    <3> SUFFICES ASSUME NEW i \in Slots, BlockAt(q, "base", i) # Null
                 PROVE  Len(G[BlockAt(q, "base", i)]) = BaseBlockSize
      BY DEF BaseFull
    <3>1. BlockAt(q, "base", i) = BlockAt(r, "base", i)
      BY <2>1 DEF Kinds
    <3>2. BlockAt(r, "base", i) \in DOMAIN H /\ Len(H[BlockAt(r, "base", i)]) = BaseBlockSize
      BY <3>1 DEF OwnsOnce, BaseFull, Kinds
    <3> QED BY <2>2, <3>1, <3>2
  <2>8. ASSUME NEW b \in DOMAIN H, \A a \in Kinds, i \in Slots : BlockAt(r, a, i) # b
        PROVE  G[b] = H[b]
    <3>1. b # Null
      BY <1>3 DEF Null
    <3>2. b # q.block
      BY <2>4, <2>8, <3>1 DEF Kinds
    <3> QED BY <2>2, <3>2
  <2> QED BY <1>1, <2>6, <2>7, <2>8 DEF LeavesOthers
<1> QED BY <1>6, <1>7 DEF Reserved

---------------------------------------------------------------------------
(* The keys of a keyset.                                                   *)

KeysHeld(r, H, ps) ==
  /\ r.size = Len(ps) /\ r.totalLength = TotalLength(ps)
  /\ \A i \in 0 .. r.size - 1 : KeyHeld(r, H, KeyAt(r, i), ps[i + 1])

\* A key that is there is a Key object.
LEMMA KeyTyped ==
  ASSUME NEW r, RecordOK(r), NEW i \in 0 .. r.size - 1
  PROVE  KeyAt(r, i) \in KeyRec
<1>1. PICK n \in Nat, s \in Nat, K \in Nat \ {0} :
        n = r.keySize /\ s = r.size /\ K = KeyBlockSize
  BY RecordFields, BlockSizesAssumption DEF RecordOK
<1>2. s <= n * K /\ \A b \in 1 .. n : r.keyBlocks[b] \in KeyBlock
  BY <1>1 DEF RecordOK, KeyBlocksOK
<1>3. i \in Nat /\ i < n * K
  <2>1. n * K \in Nat
    OBVIOUS
  <2> QED BY <1>1, <1>2, <2>1
<1>4. PICK b \in Nat \ {0}, j \in 1 .. K : b = i \div K + 1 /\ j = (i % K) + 1
  BY <1>3, KeyPlaces
<1>5. b \in 1 .. n
  <2>1. i \div K \in Nat /\ i \div K < n
    BY <1>3, KeyPlaces
  <2> QED BY <1>4, <2>1
<1>6. r.keyBlocks[b] \in [1 .. K -> KeyRec]
  BY <1>1, <1>2, <1>5 DEF KeyBlock
<1> QED BY <1>1, <1>4, <1>6 DEF KeyAt

\* What is pushed is a string and what is behind it.
LEMMA PushedTyped ==
  ASSUME NEW p \in Pushed
  PROVE  /\ p.str \in Seq(Chars) /\ p.marker \in Seq(Chars) /\ p.union \in Unions
         /\ p.str \o p.marker \in Seq(Chars)
         /\ Len(p.str) \in Nat /\ Len(p.marker) \in Nat
         /\ Len(p.str \o p.marker) = Len(p.str) + Len(p.marker)
<1>1. p.str \in Seq(Chars) /\ p.marker \in {<<>>, <<Marker>>} /\ p.union \in Unions
  BY DEF Pushed
<1>2. p.marker \in Seq(Chars)
  <2>1. Marker \in Chars
    BY DEF Chars
  <2>2. <<>> \in Seq(Chars) /\ <<Marker>> \in Seq(Chars)
    BY <2>1, EmptySeq
  <2> QED BY <1>1, <2>2
<1> QED BY <1>1, <1>2, ConcatProperties, LenProperties

\* The keys are read as before when what is in the used blocks is kept.
LEMMA KeysStayHeld ==
  ASSUME NEW H \in Seq(Seq(Chars)), NEW G, NEW ps \in Seq(Pushed),
         NEW r, RecordOK(r), OwnsOnce(r, H), KeysHeld(r, H, ps),
         NEW q, RecordOK(q), q.size = r.size, q.totalLength = r.totalLength,
         \A i \in 0 .. r.size - 1 : KeyAt(q, i) = KeyAt(r, i),
         Kept(r, H, q, G)
  PROVE  KeysHeld(q, G, ps)
<1>1. r \in KeysetRec /\ q \in KeysetRec /\ ArraysOK(r) /\ ArraysOK(q)
  BY DEF RecordOK
<1>2. PICK n \in Nat : n = r.size /\ n = Len(ps) /\ DOMAIN ps = 1 .. n
  BY <1>1, LenProperties, RecordFields DEF KeysHeld
<1>3. \A a \in Kinds : UsedSize(q, a) \in Nat /\ UsedSize(r, a) \in Nat
  BY <1>1, ArrayFields
<1>4. \A a \in Kinds : \A i \in 1 .. UsedSize(r, a) : Len(H[BlockAt(r, a, i)]) \in Nat
  <2> TAKE a \in Kinds
  <2> TAKE i \in 1 .. UsedSize(r, a)
  <2>1. i \in Slots /\ BlockAt(r, a, i) # Null
    BY <1>1, <1>3 DEF ArraysOK, Slots
  <2>2. BlockAt(r, a, i) \in DOMAIN H
    BY <2>1 DEF OwnsOnce
  <2>3. H[BlockAt(r, a, i)] \in Seq(Chars)
    BY <2>2, ElementOfSeq
  <2> QED BY <2>3, LenProperties
<1>5. ASSUME NEW i \in 0 .. n - 1
      PROVE  KeyHeld(q, G, KeyAt(q, i), ps[i + 1])
  <2>1. KeyAt(q, i) = KeyAt(r, i) /\ KeyHeld(r, H, KeyAt(r, i), ps[i + 1])
    BY <1>2 DEF KeysHeld
  <2>2. KeyAt(r, i) \in KeyRec
    BY <1>2, KeyTyped
  <2>3. PICK key \in KeyRec : key = KeyAt(r, i)
    BY <2>2
  <2>4. key.at \in Nat
    BY DEF KeyRec
  <2>5. i + 1 \in DOMAIN ps
    BY <1>2
  <2>6. PICK p \in Pushed : p = ps[i + 1]
    BY <2>5, ElementOfSeq
  <2>7. p.str \o p.marker \in Seq(Chars)
    BY PushedTyped
  <2>8. KeyHeld(r, H, key, p)
    BY <2>1, <2>3, <2>6
  <2>9. KeyHeld(q, G, key, p)
    BY <1>1, <1>3, <1>4, <2>4, <2>7, <2>8, KeyStaysHeld
  <2> QED BY <2>1, <2>3, <2>6, <2>9
<1> QED BY <1>2, <1>5 DEF KeysHeld

\* One more key is held.
LEMMA OneMoreHeld ==
  ASSUME NEW H \in Seq(Seq(Chars)), NEW G, NEW ps \in Seq(Pushed), NEW p \in Pushed,
         NEW r, RecordOK(r), OwnsOnce(r, H), KeysHeld(r, H, ps),
         NEW q, RecordOK(q), q.size = r.size + 1, q.totalLength = r.totalLength + Len(p.str),
         \A i \in 0 .. r.size - 1 : KeyAt(q, i) = KeyAt(r, i),
         Kept(r, H, q, G), KeyHeld(q, G, KeyAt(q, r.size), p)
  PROVE  KeysHeld(q, G, Append(ps, p))
<1>1. r \in KeysetRec /\ q \in KeysetRec /\ ArraysOK(r) /\ ArraysOK(q)
  BY DEF RecordOK
<1>2. PICK n \in Nat : n = r.size /\ n = Len(ps) /\ DOMAIN ps = 1 .. n
  BY <1>1, LenProperties, RecordFields DEF KeysHeld
<1>3. PICK qs : qs = Append(ps, p)
  OBVIOUS
<1>4. Len(qs) = n + 1 /\ qs[n + 1] = p /\ \A i \in 1 .. n : qs[i] = ps[i]
  BY <1>2, <1>3, AppendProperties
<1>5. TotalLength(qs) = TotalLength(ps) + Len(p.str)
  <2>1. \A e \in Pushed : Len(e.str) \in Nat
    BY PushedTyped
  <2> QED BY <1>3, <2>1, TotalOfMore
<1>6. \A a \in Kinds : UsedSize(q, a) \in Nat /\ UsedSize(r, a) \in Nat
  BY <1>1, ArrayFields
<1>7. \A a \in Kinds : \A i \in 1 .. UsedSize(r, a) : Len(H[BlockAt(r, a, i)]) \in Nat
  <2> TAKE a \in Kinds
  <2> TAKE i \in 1 .. UsedSize(r, a)
  <2>1. i \in Slots /\ BlockAt(r, a, i) # Null
    BY <1>1, <1>6 DEF ArraysOK, Slots
  <2>2. BlockAt(r, a, i) \in DOMAIN H
    BY <2>1 DEF OwnsOnce
  <2>3. H[BlockAt(r, a, i)] \in Seq(Chars)
    BY <2>2, ElementOfSeq
  <2> QED BY <2>3, LenProperties
<1>8. ASSUME NEW i \in 0 .. n
      PROVE  KeyHeld(q, G, KeyAt(q, i), qs[i + 1])
  <2>1. CASE i = n
    BY <1>2, <1>4, <2>1
  <2>2. CASE i # n
    <3>1. i \in 0 .. n - 1 /\ i + 1 \in 1 .. n
      BY <2>2
    <3>2. KeyAt(q, i) = KeyAt(r, i) /\ KeyHeld(r, H, KeyAt(r, i), ps[i + 1])
      BY <1>2, <3>1 DEF KeysHeld
    <3>3. PICK key \in KeyRec : key = KeyAt(r, i)
      BY <1>2, <3>1, KeyTyped
    <3>4. key.at \in Nat
      BY DEF KeyRec
    <3>5. PICK e \in Pushed : e = ps[i + 1]
      BY <1>2, <3>1, ElementOfSeq
    <3>6. e.str \o e.marker \in Seq(Chars)
      BY PushedTyped
    <3>7. KeyHeld(r, H, key, e)
      BY <3>2, <3>3, <3>5
    <3>8. KeyHeld(q, G, key, e)
      BY <1>1, <1>6, <1>7, <3>4, <3>6, <3>7, KeyStaysHeld
    <3> QED BY <1>4, <3>1, <3>2, <3>3, <3>5, <3>8
  <2> QED BY <2>1, <2>2
<1>9. q.size = n + 1 /\ q.totalLength = TotalLength(qs) /\ (n + 1) - 1 = n
  BY <1>2, <1>5 DEF KeysHeld
<1> QED BY <1>3, <1>4, <1>8, <1>9 DEF KeysHeld

---------------------------------------------------------------------------
(* Who owns a block.                                                       *)

\* The places of blocks, and what is in them.
BlockPlaces == Keysets \X Kinds \X Slots
BlocksOf(ks) == [p \in BlockPlaces |-> BlockAt(ks[p[1]], p[2], p[3])]

\* A block is there when it is in a place, and in one only.
Owns(f, H) ==
  /\ \A p, q \in BlockPlaces : f[p] # Null /\ f[p] = f[q] => p = q
  /\ \A p \in BlockPlaces : f[p] # Null => f[p] \in DOMAIN H /\ H[f[p]] # <<>>
  /\ \A b \in DOMAIN H : H[b] # <<>> => \E p \in BlockPlaces : f[p] = b

\* A new block in a place; what lay there is deleted.
LEMMA OwnsPut ==
  ASSUME NEW f, NEW g, NEW H, NEW G, Owns(f, H), NEW p \in BlockPlaces, NEW e,
         e \notin DOMAIN H, e # Null, Null \notin DOMAIN H,
         DOMAIN G = DOMAIN H \cup {e}, G[e] # <<>>,
         \A q \in BlockPlaces : g[q] = IF q = p THEN e ELSE f[q],
         \A b \in DOMAIN H : (b = f[p] => G[b] = <<>>) /\ (b # f[p] => (G[b] = <<>> <=> H[b] = <<>>))
  PROVE  Owns(g, G)
<1>1. ASSUME NEW q \in BlockPlaces, NEW t \in BlockPlaces, g[q] # Null, g[q] = g[t] PROVE q = t
  BY <1>1 DEF Owns
<1>2. ASSUME NEW q \in BlockPlaces, g[q] # Null PROVE g[q] \in DOMAIN G /\ G[g[q]] # <<>>
  BY <1>2 DEF Owns
<1>3. ASSUME NEW b \in DOMAIN G, G[b] # <<>> PROVE \E q \in BlockPlaces : g[q] = b
  <2>1. CASE b = e
    BY <2>1
  <2>2. CASE b # e
    <3>1. b \in DOMAIN H /\ b # f[p] /\ H[b] # <<>>
      BY <1>3, <2>2
    <3>2. PICK q \in BlockPlaces : f[q] = b
      BY <3>1 DEF Owns
    <3> QED BY <3>1, <3>2
  <2> QED BY <2>1, <2>2
<1> QED BY <1>1, <1>2, <1>3 DEF Owns

\* The places have the blocks they had.
LEMMA OwnsSame ==
  ASSUME NEW f, NEW g, NEW H, NEW G, Owns(f, H), DOMAIN G = DOMAIN H,
         \A q \in BlockPlaces : g[q] = f[q],
         \A b \in DOMAIN H : G[b] = <<>> <=> H[b] = <<>>
  PROVE  Owns(g, G)
BY DEF Owns

\* The blocks of some places are deleted.
Cleared(f, H, g, G, Q) ==
  /\ DOMAIN G = DOMAIN H
  /\ \A q \in BlockPlaces : g[q] = IF q \in Q THEN Null ELSE f[q]
  /\ \A b \in DOMAIN H : G[b] = IF \E q \in BlockPlaces : q \in Q /\ f[q] = b THEN <<>> ELSE H[b]

\* Blocks are deleted with their places.
LEMMA OwnsLess ==
  ASSUME NEW f, NEW g, NEW H, NEW G, Owns(f, H), Null \notin DOMAIN H,
         NEW Q, Cleared(f, H, g, G, Q)
  PROVE  Owns(g, G)
<1>1. ASSUME NEW q \in BlockPlaces, NEW t \in BlockPlaces, g[q] # Null, g[q] = g[t] PROVE q = t
  BY <1>1 DEF Owns, Cleared
<1>2. ASSUME NEW q \in BlockPlaces, g[q] # Null PROVE g[q] \in DOMAIN G /\ G[g[q]] # <<>>
  BY <1>2 DEF Owns, Cleared
<1>3. ASSUME NEW b \in DOMAIN G, G[b] # <<>> PROVE \E q \in BlockPlaces : g[q] = b
  BY <1>3 DEF Owns, Cleared
<1> QED BY <1>1, <1>2, <1>3 DEF Owns, Cleared

\* The places change hands.
LEMMA OwnsMoved ==
  ASSUME NEW f, NEW g, NEW H, Owns(f, H), NEW to \in [BlockPlaces -> BlockPlaces],
         \A q \in BlockPlaces : to[to[q]] = q /\ g[q] = f[to[q]]
  PROVE  Owns(g, H)
<1>1. ASSUME NEW q \in BlockPlaces, NEW t \in BlockPlaces, g[q] # Null, g[q] = g[t] PROVE q = t
  <2>1. to[q] = to[t]
    BY <1>1 DEF Owns
  <2> QED BY <2>1
<1>2. ASSUME NEW q \in BlockPlaces, g[q] # Null PROVE g[q] \in DOMAIN H /\ H[g[q]] # <<>>
  BY <1>2 DEF Owns
<1>3. ASSUME NEW b \in DOMAIN H, H[b] # <<>> PROVE \E q \in BlockPlaces : g[q] = b
  <2>1. PICK p \in BlockPlaces : f[p] = b
    BY <1>3 DEF Owns
  <2>2. to[p] \in BlockPlaces /\ g[to[p]] = b
    BY <2>1
  <2> QED BY <2>2
<1> QED BY <1>1, <1>2, <1>3 DEF Owns

\* What holds of all places holds of those of a keyset.
LEMMA OwnsOfEach ==
  ASSUME NEW ks, NEW H, Owns(BlocksOf(ks), H), NEW k \in Keysets
  PROVE  /\ OwnsOnce(ks[k], H)
         /\ \A j \in Keysets : \A a, c \in Kinds : \A i, l \in Slots :
              j # k /\ BlockAt(ks[j], a, i) # Null => BlockAt(ks[k], c, l) # BlockAt(ks[j], a, i)
<1>1. ASSUME NEW j \in Keysets, NEW a \in Kinds, NEW i \in Slots
      PROVE  <<j, a, i>> \in BlockPlaces /\ BlocksOf(ks)[<<j, a, i>>] = BlockAt(ks[j], a, i)
  BY DEF BlockPlaces, BlocksOf
<1>2. ASSUME NEW j \in Keysets, NEW a \in Kinds, NEW i \in Slots, BlockAt(ks[j], a, i) # Null
      PROVE  /\ BlockAt(ks[j], a, i) \in DOMAIN H
             /\ \A m \in Keysets, c \in Kinds, l \in Slots :
                  BlockAt(ks[m], c, l) = BlockAt(ks[j], a, i) => j = m /\ a = c /\ i = l
  <2>1. PICK f : f = BlocksOf(ks)
    OBVIOUS
  <2>2. <<j, a, i>> \in BlockPlaces /\ f[<<j, a, i>>] = BlockAt(ks[j], a, i)
    BY <1>1, <2>1
  <2>3. BlockAt(ks[j], a, i) \in DOMAIN H
    BY <1>2, <2>1, <2>2 DEF Owns
  <2>4. ASSUME NEW m \in Keysets, NEW c \in Kinds, NEW l \in Slots,
               BlockAt(ks[m], c, l) = BlockAt(ks[j], a, i)
        PROVE  j = m /\ a = c /\ i = l
    <3>1. <<m, c, l>> \in BlockPlaces /\ f[<<m, c, l>>] = BlockAt(ks[m], c, l)
      BY <1>1, <2>1
    <3>2. <<j, a, i>> = <<m, c, l>>
      BY <1>2, <2>1, <2>2, <2>4, <3>1 DEF Owns
    <3> QED BY <3>2
  <2> QED BY <2>3, <2>4
<1> QED BY <1>2 DEF OwnsOnce

---------------------------------------------------------------------------
(* The invariant.                                                          *)

KeysetOK(r, H, ps) == RecordOK(r) /\ BaseFull(r, H) /\ KeysHeld(r, H, ps)

AllHeld(ks, H, pushes) ==
  /\ ks \in [Keysets -> KeysetRec] /\ H \in Seq(Seq(Chars)) /\ Len(H) <= MaxBlocks
  /\ pushes \in [Keysets -> Seq(Pushed)]
  /\ \A k \in Keysets : KeysetOK(ks[k], H, pushes[k])
  /\ Owns(BlocksOf(ks), H)

KeysetInv == AllHeld(keysets, heap, pushed)

\* The used blocks are the same, and so is what is in them.
LEMMA KeptSame ==
  ASSUME NEW r, RecordOK(r), NEW q, NEW H, NEW G, OwnsOnce(r, H),
         \A a \in Kinds : UsedSize(q, a) = UsedSize(r, a),
         \A a \in Kinds, i \in Slots : BlockAt(q, a, i) = BlockAt(r, a, i),
         q.block = r.block, q.ptr = r.ptr,
         \A a \in Kinds, i \in Slots :
           BlockAt(r, a, i) # Null => G[BlockAt(r, a, i)] = H[BlockAt(r, a, i)]
  PROVE  Kept(r, H, q, G)
<1> SUFFICES ASSUME NEW a \in Kinds, NEW i \in 1 .. UsedSize(r, a)
             PROVE  /\ i <= UsedSize(q, a) /\ BlockAt(q, a, i) = BlockAt(r, a, i)
                    /\ G[BlockAt(r, a, i)] = H[BlockAt(r, a, i)]
                    /\ r.ptr <= q.ptr
  BY DEF Kept
<1>1. r \in KeysetRec /\ ArraysOK(r)
  BY DEF RecordOK
<1>2. UsedSize(r, a) \in Nat /\ r.ptr \in Nat
  BY <1>1, ArrayFields, RecordFields
<1>3. i \in Slots /\ BlockAt(r, a, i) # Null /\ i <= UsedSize(r, a)
  BY <1>1, <1>2 DEF ArraysOK, Slots
<1> QED BY <1>2, <1>3

\* A keyset whose blocks an operation does not touch.
LEMMA OtherOK ==
  ASSUME NEW r, NEW H \in Seq(Seq(Chars)), NEW G, NEW ps \in Seq(Pushed),
         KeysetOK(r, H, ps), OwnsOnce(r, H),
         \A a \in Kinds, i \in Slots :
           BlockAt(r, a, i) # Null => G[BlockAt(r, a, i)] = H[BlockAt(r, a, i)]
  PROVE  KeysetOK(r, G, ps)
<1>1. RecordOK(r) /\ BaseFull(r, H) /\ KeysHeld(r, H, ps)
  BY DEF KeysetOK
<1>2. BaseFull(r, G)
  BY <1>1 DEF BaseFull, Kinds
<1>3. Kept(r, H, r, G)
  BY <1>1, KeptSame
<1>4. KeysHeld(r, G, ps)
  BY <1>1, <1>3, KeysStayHeld
<1> QED BY <1>1, <1>2, <1>4 DEF KeysetOK

\* What the invariant says of one keyset.
LEMMA HeldFacts ==
  ASSUME NEW ks, NEW H, NEW pushes, AllHeld(ks, H, pushes), NEW k \in Keysets
  PROVE  /\ H \in Seq(Seq(Chars)) /\ Len(H) \in Nat /\ DOMAIN H = 1 .. Len(H) /\ Null \notin DOMAIN H
         /\ ks[k] \in KeysetRec /\ RecordOK(ks[k]) /\ BaseFull(ks[k], H)
         /\ KeysHeld(ks[k], H, pushes[k]) /\ pushes[k] \in Seq(Pushed)
         /\ OwnsOnce(ks[k], H) /\ ArraysOK(ks[k])
<1>1. H \in Seq(Seq(Chars)) /\ ks[k] \in KeysetRec /\ pushes[k] \in Seq(Pushed)
      /\ KeysetOK(ks[k], H, pushes[k]) /\ Owns(BlocksOf(ks), H)
  BY DEF AllHeld
<1>2. Len(H) \in Nat /\ DOMAIN H = 1 .. Len(H) /\ Null \notin DOMAIN H
  BY <1>1, LenProperties DEF Null
<1>3. OwnsOnce(ks[k], H)
  BY <1>1, OwnsOfEach
<1> QED BY <1>1, <1>2, <1>3 DEF KeysetOK, RecordOK

\* Nothing but a keyset changes, and its blocks lie where they were.
LEMMA RecordChanges ==
  ASSUME NEW ks, NEW H, NEW pushes, AllHeld(ks, H, pushes), NEW k \in Keysets,
         NEW q, RecordOK(q), NEW ps \in Seq(Pushed), KeysHeld(q, H, ps),
         \A a \in Kinds, i \in Slots : BlockAt(q, a, i) = BlockAt(ks[k], a, i)
  PROVE  AllHeld([ks EXCEPT ![k] = q], H, [pushes EXCEPT ![k] = ps])
<1>1. PICK ls : ls = [ks EXCEPT ![k] = q]
  OBVIOUS
<1>2. PICK qs : qs = [pushes EXCEPT ![k] = ps]
  OBVIOUS
<1>3. ks \in [Keysets -> KeysetRec] /\ pushes \in [Keysets -> Seq(Pushed)] /\ q \in KeysetRec
  BY DEF AllHeld, RecordOK
<1>4. /\ ls \in [Keysets -> KeysetRec] /\ qs \in [Keysets -> Seq(Pushed)]
      /\ ls[k] = q /\ qs[k] = ps
      /\ \A j \in Keysets : j # k => ls[j] = ks[j] /\ qs[j] = pushes[j]
  BY <1>1, <1>2, <1>3
<1>5. KeysetOK(q, H, ps)
  <2>1. BaseFull(ks[k], H)
    BY HeldFacts
  <2>2. BaseFull(q, H)
    BY <2>1 DEF BaseFull, Kinds
  <2> QED BY <2>2 DEF KeysetOK
<1>6. \A j \in Keysets : KeysetOK(ls[j], H, qs[j])
  BY <1>4, <1>5 DEF AllHeld
<1>7. Owns(BlocksOf(ls), H)
  <2>1. PICK f, g : f = BlocksOf(ks) /\ g = BlocksOf(ls)
    OBVIOUS
  <2>2. \A p \in BlockPlaces : g[p] = f[p]
    <3> TAKE p \in BlockPlaces
    <3>1. p[1] \in Keysets /\ p[2] \in Kinds /\ p[3] \in Slots
      BY DEF BlockPlaces
    <3>2. g[p] = BlockAt(ls[p[1]], p[2], p[3]) /\ f[p] = BlockAt(ks[p[1]], p[2], p[3])
      BY <2>1 DEF BlocksOf
    <3> QED BY <1>4, <3>1, <3>2
  <2>3. Owns(f, H)
    BY <2>1 DEF AllHeld
  <2> QED BY <2>1, <2>2, <2>3, OwnsSame
<1> QED BY <1>1, <1>2, <1>4, <1>6, <1>7 DEF AllHeld

\* A keyset that is empty.
LEMMA EmptyFacts ==
  ASSUME NEW H
  PROVE  /\ KeysetOK(EmptyKeyset, H, <<>>) /\ EmptyKeyset \in KeysetRec
         /\ \A a \in Kinds : \A i : BlockAt(EmptyKeyset, a, i) = Null
         /\ <<>> \in Seq(Pushed)
<1>1. PICK E : E = EmptyKeyset
  OBVIOUS
<1>2. /\ E.base = <<>> /\ E.baseSize = 0 /\ E.extra = <<>> /\ E.extraSize = 0
      /\ E.keyBlocks = <<>> /\ E.keySize = 0 /\ E.block = Null /\ E.ptr = 0 /\ E.avail = 0
      /\ E.size = 0 /\ E.totalLength = 0
  BY <1>1 DEF EmptyKeyset
<1>3. E \in KeysetRec
  <2>1. <<>> \in Seq(Nat) /\ <<>> \in Seq(KeyBlock \cup {<<>>})
    BY EmptySeq
  <2>2. Null \in Nat
    BY DEF Null
  <2> QED BY <1>1, <2>1, <2>2 DEF EmptyKeyset, KeysetRec
<1>4. Len(<<>>) = 0 /\ DOMAIN <<>> = {}
  BY EmptySeq
<1>5. \A a \in Kinds : \A i : BlockAt(E, a, i) = Null
  <2>1. \A a \in Kinds : E[a] = <<>>
    BY <1>2 DEF Kinds
  <2> QED BY <1>4, <2>1 DEF BlockAt, At
<1>6. \A a \in Kinds : UsedSize(E, a) = 0
  BY <1>2 DEF UsedSize
<1>7. ArraysOK(E)
  BY <1>2, <1>4, <1>5, <1>6 DEF ArraysOK
<1>8. KeyBlocksOK(E)
  <2>1. 0 * KeyBlockSize = 0
    BY BlockSizesAssumption
  <2> QED BY <1>2, <1>4, <2>1 DEF KeyBlocksOK
<1>9. KeysHeld(E, H, <<>>)
  BY <1>2, <1>4, TotalOfNone DEF KeysHeld
<1>10. KeysetOK(E, H, <<>>)
  BY <1>3, <1>5, <1>7, <1>8, <1>9 DEF KeysetOK, RecordOK, BaseFull, Kinds
<1>11. <<>> \in Seq(Pushed)
  BY EmptySeq
<1> QED BY <1>1, <1>3, <1>5, <1>10, <1>11

\* No keyset has a block in the beginning.
LEMMA InitHolds == InitKeyset => KeysetInv
<1> SUFFICES ASSUME InitKeyset PROVE AllHeld(keysets, heap, pushed)
  BY DEF KeysetInv
<1>4. Len(<<>>) = 0 /\ DOMAIN <<>> = {}
  BY EmptySeq
<1>1. PICK E : E = EmptyKeyset
  OBVIOUS
<1>10. /\ \A H : KeysetOK(E, H, <<>>)
       /\ E \in KeysetRec /\ \A a \in Kinds : \A i : BlockAt(E, a, i) = Null
  BY <1>1, EmptyFacts
<1>11. /\ keysets = [k \in Keysets |-> E] /\ heap = <<>> /\ pushed = [k \in Keysets |-> <<>>]
  BY <1>1 DEF InitKeyset
<1>12. Owns(BlocksOf(keysets), heap)
  <2>1. PICK f : f = BlocksOf(keysets)
    OBVIOUS
  <2>2. \A p \in BlockPlaces : f[p] = Null
    BY <1>10, <1>11, <2>1 DEF BlockPlaces, BlocksOf
  <2>3. DOMAIN heap = {}
    BY <1>4, <1>11
  <2>4. Owns(f, heap)
    BY <2>2, <2>3 DEF Owns
  <2> QED BY <2>1, <2>4
<1>13. heap \in Seq(Seq(Chars)) /\ Len(heap) <= MaxBlocks
  BY <1>4, <1>11, EmptySeq, MaxBlocksAssumption
<1>14. pushed \in [Keysets -> Seq(Pushed)] /\ keysets \in [Keysets -> KeysetRec]
  BY <1>10, <1>11, EmptySeq
<1> QED BY <1>10, <1>11, <1>12, <1>13, <1>14 DEF AllHeld

\* A part of a block that holds a string reads as it.
LEMMA PartReads ==
  ASSUME NEW block \in Seq(Chars), NEW at \in Nat, NEW t \in Seq(Chars), t # <<>>,
         at + Len(t) <= Len(block),
         \A x \in 1 .. Len(t) : block[at + x] = t[x]
  PROVE  SubSeq(block, at + 1, at + Len(t)) = t
<1>1. PICK n \in Nat : n = Len(t) /\ n # 0
  BY EmptySeq
<1>2. PICK lo \in Nat, hi \in Nat : lo = at + 1 /\ hi = at + n
  OBVIOUS
<1>3. PICK s : s = SubSeq(block, lo, hi)
  OBVIOUS
<1>4. \A x \in lo .. hi : block[x] \in Chars
  <2> TAKE x \in lo .. hi
  <2>1. Len(block) \in Nat /\ DOMAIN block = 1 .. Len(block)
    BY LenProperties
  <2>2. x \in DOMAIN block
    BY <1>1, <1>2, <2>1
  <2> QED BY <2>2, ElementOfSeq
<1>5. /\ s \in Seq(Chars) /\ Len(s) = IF lo <= hi THEN (hi - lo) + 1 ELSE 0
      /\ \A x \in 1 .. (hi - lo) + 1 : s[x] = block[(lo + x) - 1]
  BY <1>3, <1>4, SubSeqProperties
<1>6. lo <= hi /\ (hi - lo) + 1 = n /\ \A x \in 1 .. n : (lo + x) - 1 = at + x
  BY <1>1, <1>2
<1>7. Len(s) = n /\ \A x \in 1 .. n : s[x] = t[x]
  BY <1>1, <1>5, <1>6
<1> QED BY <1>1, <1>2, <1>3, <1>5, <1>7, SeqEqual

\* The first characters of a string with its end marker are the string.
LEMMA KeyReads ==
  ASSUME heap \in Seq(Seq(Chars)), NEW r, RecordOK(r), OwnsOnce(r, heap),
         NEW key \in KeyRec, NEW p \in Pushed, KeyHeld(r, heap, key, p)
  PROVE  /\ StrOf(key) = p.str
         /\ StrOf([key EXCEPT !.length = @ + Len(p.marker)]) = p.str \o p.marker
<1>1. PICK s : s = p.str \o p.marker
  OBVIOUS
<1>2. PICK l \in Nat, m \in Nat, at \in Nat, b \in Nat :
        l = Len(p.str) /\ m = Len(p.marker) /\ at = key.at /\ b = key.block
  BY PushedTyped DEF KeyRec
<1>3. /\ s \in Seq(Chars) /\ Len(s) = l + m /\ p.str \in Seq(Chars) /\ p.marker \in Seq(Chars)
      /\ key.length = l
  BY <1>1, <1>2, PushedTyped DEF KeyHeld
<1>4. PICK long : long = [key EXCEPT !.length = @ + m]
  OBVIOUS
<1>5. long.length = l + m /\ long.at = at /\ long.block = b
  BY <1>2, <1>3, <1>4 DEF KeyRec
<1>6. (l + m = 0 => s = <<>>) /\ (l = 0 => p.str = <<>>) /\ (l # 0 => p.str # <<>> /\ s # <<>>)
      /\ (l + m # 0 => s # <<>>)
  <2>1. \A t \in Seq(Chars) : (Len(t) = 0 <=> t = <<>>) /\ Len(t) \in Nat
    BY EmptySeq, LenProperties
  <2>2. (l = 0 <=> p.str = <<>>) /\ (l + m = 0 <=> s = <<>>)
    BY <1>2, <1>3, <2>1
  <2>3. l + m = 0 => l = 0
    OBVIOUS
  <2> QED BY <2>2, <2>3
<1>7. CASE s = <<>>
  <2>1. l = 0 /\ l + m = 0
    BY <1>3, <1>7, EmptySeq
  <2>2. StrOf(key) = <<>> /\ StrOf(long) = <<>>
    BY <1>3, <1>5, <2>1 DEF StrOf
  <2> QED BY <1>1, <1>2, <1>4, <1>6, <1>7, <2>1, <2>2
<1>8. CASE s # <<>>
  <2>1. PICK block : block = heap[b]
    OBVIOUS
  <2>2. /\ at + Len(s) <= Len(block)
        /\ \A x \in 1 .. Len(s) : block[at + x] = s[x]
        /\ \E a \in Kinds : \E i \in 1 .. UsedSize(r, a) : b = BlockAt(r, a, i)
    BY <1>1, <1>2, <1>8, <2>1 DEF KeyHeld
  <2>3. block \in Seq(Chars) /\ Len(block) \in Nat
    <3>1. PICK a \in Kinds : \E i \in 1 .. UsedSize(r, a) : b = BlockAt(r, a, i)
      BY <2>2
    <3>2. PICK i \in 1 .. UsedSize(r, a) : b = BlockAt(r, a, i)
      BY <3>1
    <3>3. i \in Slots /\ BlockAt(r, a, i) # Null
      BY ArrayFields DEF RecordOK, ArraysOK, Slots
    <3>4. b \in DOMAIN heap
      BY <3>2, <3>3 DEF OwnsOnce
    <3> QED BY <2>1, <3>4, ElementOfSeq, LenProperties
  <2>4. SubSeq(block, at + 1, at + Len(s)) = s
    BY <1>3, <1>8, <2>2, <2>3, PartReads
  <2>5. l + m # 0
    BY <1>3, <1>8, EmptySeq
  <2>6. StrOf(long) = s
    BY <1>3, <1>5, <2>1, <2>4, <2>5 DEF StrOf
  <2>7. StrOf(key) = p.str
    <3>1. CASE l = 0
      BY <1>3, <1>6, <3>1 DEF StrOf
    <3>2. CASE l # 0
      <4>1. PICK t : t = p.str
        OBVIOUS
      <4>2. t \in Seq(Chars) /\ Len(t) = l /\ t # <<>>
        BY <1>2, <1>3, <1>6, <3>2, <4>1
      <4>3. \A x \in 1 .. l : s[x] = t[x] /\ x \in 1 .. l + m
        <5> TAKE x \in 1 .. l
        <5>2. x \in 1 .. l + m /\ x <= l
          OBVIOUS
        <5>1. x \in 1 .. Len(p.str) + Len(p.marker) /\ x <= Len(p.str)
          BY <1>2, <5>2
        <5> QED BY <1>1, <1>2, <1>3, <4>1, <5>1, <5>2, ConcatProperties
      <4>4. \A x \in 1 .. Len(t) : block[at + x] = t[x]
        BY <1>3, <2>2, <4>2, <4>3
      <4>5. at + Len(t) <= Len(block)
        BY <1>3, <2>2, <2>3, <4>2
      <4>6. SubSeq(block, at + 1, at + Len(t)) = t
        BY <2>3, <4>2, <4>4, <4>5, PartReads
      <4> QED BY <1>2, <1>3, <2>1, <3>2, <4>1, <4>2, <4>6 DEF StrOf
    <3> QED BY <3>1, <3>2
  <2> QED BY <1>1, <1>2, <1>4, <2>6, <2>7
<1> QED BY <1>7, <1>8

\* The arrays hold the same blocks, in use or not.
SameUse(r, q) ==
  /\ \A a \in Kinds : UsedSize(q, a) = UsedSize(r, a)
  /\ \A a \in Kinds, i \in Slots : BlockAt(q, a, i) = BlockAt(r, a, i)
  /\ q.block = r.block /\ q.ptr = r.ptr

\* Records whose blocks are the same keep the same.
LEMMA KeptTransfer ==
  ASSUME NEW r, NEW r2, NEW q, NEW q2, NEW H, NEW G, RecordOK(r), Kept(r2, H, q, G),
         SameUse(r, r2), SameUse(q, q2)
  PROVE  Kept(r, H, q2, G)
<1> SUFFICES ASSUME NEW a \in Kinds, NEW i \in 1 .. UsedSize(r, a)
             PROVE  /\ i <= UsedSize(q2, a) /\ BlockAt(q2, a, i) = BlockAt(r, a, i)
                    /\ Len(G[BlockAt(r, a, i)]) = Len(H[BlockAt(r, a, i)])
                    /\ \A x \in 1 .. Len(H[BlockAt(r, a, i)]) :
                         (BlockAt(r, a, i) = r.block => x <= r.ptr) =>
                            G[BlockAt(r, a, i)][x] = H[BlockAt(r, a, i)][x]
                    /\ BlockAt(r, a, i) = q2.block => BlockAt(r, a, i) = r.block /\ r.ptr <= q2.ptr
  BY DEF Kept
<1>1. UsedSize(r, a) \in Nat /\ i \in Slots
  <2>1. UsedSize(r, a) \in Nat
    BY ArrayFields DEF RecordOK
  <2> QED BY <2>1 DEF Slots
<1>2. i \in 1 .. UsedSize(r2, a) /\ BlockAt(r2, a, i) = BlockAt(r, a, i)
      /\ BlockAt(q2, a, i) = BlockAt(q, a, i) /\ UsedSize(q2, a) = UsedSize(q, a)
      /\ r2.block = r.block /\ r2.ptr = r.ptr /\ q2.block = q.block /\ q2.ptr = q.ptr
  BY <1>1 DEF SameUse
<1>3. PICK b : b = BlockAt(r, a, i)
  OBVIOUS
<1>4. /\ i <= UsedSize(q, a) /\ BlockAt(q, a, i) = b /\ Len(G[b]) = Len(H[b])
      /\ \A x \in 1 .. Len(H[b]) : (b = r2.block => x <= r2.ptr) => G[b][x] = H[b][x]
      /\ b = q.block => b = r2.block /\ r2.ptr <= q.ptr
  BY <1>2, <1>3 DEF Kept
<1> QED BY <1>2, <1>3, <1>4

\* Who owns what when room was made in a keyset.
LEMMA PushOwns ==
  ASSUME NEW ks \in [Keysets -> KeysetRec], NEW H \in Seq(Seq(Chars)), Owns(BlocksOf(ks), H),
         NEW k \in Keysets, NEW n, NEW room, NEW r2,
         RecordOK(ks[k]), SameUse(ks[k], r2), Reserved(r2, n, room, H),
         NEW G, SameBut(room.heap, G, room.block, room.at),
         NEW t \in KeysetRec, SameUse(room.r, t)
  PROVE  Owns(BlocksOf([ks EXCEPT ![k] = t]), G)
<1>0. /\ \A a \in Kinds : UsedSize(r2, a) = UsedSize(ks[k], a)
      /\ \A a \in Kinds, i \in Slots : BlockAt(r2, a, i) = BlockAt(ks[k], a, i)
      /\ (\E a \in Kinds : Fresh(r2, n, a, room, H)) \/ Again(r2, n, room, H)
      /\ \A a \in Kinds, i \in Slots : BlockAt(t, a, i) = BlockAt(room.r, a, i)
  BY DEF SameUse, Reserved
<1>1. PICK ls : ls = [ks EXCEPT ![k] = t]
  OBVIOUS
<1>2. ls[k] = t /\ \A j \in Keysets : j # k => ls[j] = ks[j]
  BY <1>1
<1>3. PICK f, g : f = BlocksOf(ks) /\ g = BlocksOf(ls)
  OBVIOUS
<1>4. ASSUME NEW p \in BlockPlaces
      PROVE  /\ p[1] \in Keysets /\ p[2] \in Kinds /\ p[3] \in Slots /\ p = <<p[1], p[2], p[3]>>
             /\ f[p] = BlockAt(ks[p[1]], p[2], p[3]) /\ g[p] = BlockAt(ls[p[1]], p[2], p[3])
  <2>1. p[1] \in Keysets /\ p[2] \in Kinds /\ p[3] \in Slots /\ p = <<p[1], p[2], p[3]>>
    BY DEF BlockPlaces
  <2> QED BY <1>3, <2>1 DEF BlocksOf
<1>5. ASSUME NEW p \in BlockPlaces
      PROVE  g[p] = IF p[1] = k THEN BlockAt(room.r, p[2], p[3]) ELSE f[p]
  BY <1>0, <1>2, <1>4
<1>6. PICK m \in Nat : m = Len(H) /\ DOMAIN H = 1 .. m
  BY LenProperties
<1>7. PICK R : R = room.heap
  OBVIOUS
<1>8. DOMAIN G = DOMAIN R /\ \A b \in DOMAIN R : G[b] = <<>> <=> R[b] = <<>>
  BY <1>7 DEF SameBut
<1>9. CASE Again(r2, n, room, H)
  <2>1. R = H /\ \A c \in Kinds, i \in Slots : BlockAt(room.r, c, i) = BlockAt(ks[k], c, i)
    BY <1>0, <1>7, <1>9 DEF Again
  <2>2. \A p \in BlockPlaces : g[p] = f[p]
    BY <1>4, <1>5, <2>1
  <2>3. Owns(f, H)
    BY <1>3
  <2>4. DOMAIN G = DOMAIN H /\ \A b \in DOMAIN H : G[b] = <<>> <=> H[b] = <<>>
    BY <1>8, <2>1
  <2>5. Owns(g, G)
    BY <2>2, <2>3, <2>4, OwnsSame
  <2> QED BY <1>1, <1>3, <2>5
<1>10. CASE \E a \in Kinds : Fresh(r2, n, a, room, H)
  <2>1. PICK a \in Kinds : Fresh(r2, n, a, room, H)
    BY <1>10
  <2>2. PICK i \in Slots : i = UsedSize(r2, a) + 1
    BY <1>0, ArrayFields DEF RecordOK
  <2>3. PICK e \in Nat : e = m + 1
    OBVIOUS
  <2>4. /\ \A c \in Kinds, l \in Slots :
             BlockAt(room.r, c, l) = IF c = a /\ l = i THEN e ELSE BlockAt(ks[k], c, l)
        /\ R \in Seq(Seq(Chars)) /\ Len(R) = e /\ R[e] # <<>>
        /\ \A b \in DOMAIN H : R[b] = IF b = BlockAt(ks[k], a, i) THEN <<>> ELSE H[b]
    BY <1>0, <1>6, <1>7, <2>1, <2>2, <2>3 DEF Fresh
  <2>5. PICK p : p = <<k, a, i>>
    OBVIOUS
  <2>6. p \in BlockPlaces /\ f[p] = BlockAt(ks[k], a, i)
    <3>1. p \in BlockPlaces
      BY <2>5 DEF BlockPlaces
    <3> QED BY <1>4, <2>5, <3>1
  <2>7. \A q \in BlockPlaces : g[q] = IF q = p THEN e ELSE f[q]
    <3> TAKE q \in BlockPlaces
    <3>1. CASE q = p
      BY <1>5, <2>4, <2>5, <2>6, <3>1
    <3>2. CASE q # p
      <4>1. ~(q[1] = k /\ q[2] = a /\ q[3] = i)
        BY <1>4, <2>5, <3>2
      <4> QED BY <1>4, <1>5, <2>4, <3>2, <4>1
    <3> QED BY <3>1, <3>2
  <2>8. DOMAIN R = 1 .. e
    BY <2>4, LenProperties
  <2>9. /\ e \notin DOMAIN H /\ e # Null /\ Null \notin DOMAIN H
        /\ DOMAIN G = DOMAIN H \cup {e} /\ G[e] # <<>>
    <3>1. 1 .. e = (1 .. m) \cup {e} /\ e \in 1 .. e /\ e \notin 1 .. m /\ e # 0 /\ 0 \notin 1 .. m
      BY <2>3
    <3> QED BY <1>6, <1>8, <2>4, <2>8, <3>1 DEF Null
  <2>10. \A b \in DOMAIN H :
           (b = f[p] => G[b] = <<>>) /\ (b # f[p] => (G[b] = <<>> <=> H[b] = <<>>))
    <3> TAKE b \in DOMAIN H
    <3>1. b \in DOMAIN R
      BY <1>6, <2>3, <2>8
    <3> QED BY <1>8, <2>4, <2>6, <3>1
  <2>11. Owns(f, H)
    BY <1>3
  <2>12. Owns(g, G)
    BY <2>6, <2>7, <2>9, <2>10, <2>11, OwnsPut
  <2> QED BY <1>1, <1>3, <2>12
<1> QED BY <1>0, <1>9, <1>10

\* The key that is pushed, and the keyset with it.
KeyIn(room, p) == [block |-> room.block, at |-> room.at, length |-> Len(p.str), union |-> p.union]

\* A push, step by step: a Key object, room, the characters, the key.
LEMMA PushState ==
  ASSUME NEW ks, NEW H, NEW pushes, AllHeld(ks, H, pushes), NEW k \in Keysets, NEW p \in Pushed,
         NEW room, Reserved(KeyReady(ks[k]), Len(p.str \o p.marker), room, H),
         Len(room.heap) <= MaxBlocks
  PROVE  AllHeld([ks EXCEPT ![k] = WithKey(room.r, KeyIn(room, p), Len(p.str))],
                 Copied(room.heap, room.block, room.at, p.str \o p.marker),
                 [pushes EXCEPT ![k] = Append(pushes[k], p)])
<1>1. PICK r : r = ks[k]
  OBVIOUS
<1>2. PICK ready : ready = KeyReady(r)
  OBVIOUS
<1>3. PICK chars : chars = p.str \o p.marker
  OBVIOUS
<1>4. PICK G : G = Copied(room.heap, room.block, room.at, chars)
  OBVIOUS
<1>5. PICK ps : ps = pushes[k]
  OBVIOUS
<1>6. /\ H \in Seq(Seq(Chars)) /\ r \in KeysetRec /\ RecordOK(r) /\ BaseFull(r, H)
      /\ KeysHeld(r, H, ps) /\ ps \in Seq(Pushed) /\ OwnsOnce(r, H)
      /\ ks \in [Keysets -> KeysetRec] /\ pushes \in [Keysets -> Seq(Pushed)]
      /\ Owns(BlocksOf(ks), H)
  BY <1>1, <1>5, HeldFacts DEF AllHeld
<1>7. /\ chars \in Seq(Chars) /\ Len(chars) \in Nat /\ Len(p.str) \in Nat /\ p.union \in Unions
  BY <1>3, PushedTyped, LenProperties
<1>8. /\ RecordOK(ready) /\ ready \in KeysetRec /\ SameRoom(r, ready)
      /\ ready.size = r.size /\ ready.totalLength = r.totalLength
      /\ r.size \div KeyBlockSize < ready.keySize
      /\ \A i \in 0 .. r.size - 1 : KeyAt(ready, i) = KeyAt(r, i)
  BY <1>2, <1>6, KeyReadyFacts DEF RecordOK
<1>9. /\ \A a \in Kinds : UsedSize(ready, a) = UsedSize(r, a)
      /\ \A a \in Kinds, i \in Slots : BlockAt(ready, a, i) = BlockAt(r, a, i)
      /\ SameUse(r, ready)
  BY <1>6, <1>8, SameRoomFacts DEF SameRoom, SameUse
<1>10. BaseFull(ready, H) /\ OwnsOnce(ready, H)
  <2>1. BaseFull(ready, H)
    BY <1>6, <1>9 DEF BaseFull, Kinds
  <2>2. OwnsOnce(ready, H)
    BY <1>6, <1>9 DEF OwnsOnce
  <2> QED BY <2>1, <2>2
<1>11. Reserved(ready, Len(chars), room, H)
  BY <1>1, <1>2, <1>3
<1>12. /\ SameBut(room.heap, G, room.block, room.at)
       /\ chars # <<>> => Written(ready, room, G, chars)
  BY <1>4, <1>6, <1>7, <1>8, <1>10, <1>11, CopiedRoom
<1>13. /\ Kept(ready, H, room.r, G) /\ BaseFull(room.r, G)
       /\ LeavesOthers(ready, H, G)
  BY <1>6, <1>7, <1>8, <1>10, <1>11, <1>12, PushKeeps
<1>14. PICK q : q = room.r
  OBVIOUS
<1>15. RecordOK(q) /\ q \in KeysetRec /\ SameKeys(ready, q) /\ room.block \in Nat /\ room.at \in Nat
  BY <1>11, <1>14 DEF Reserved, RecordOK
<1>16. PICK key : key = KeyIn(room, p)
  OBVIOUS
<1>17. key \in KeyRec
  BY <1>7, <1>15, <1>16 DEF KeyIn, KeyRec
<1>18. PICK t : t = WithKey(q, key, Len(p.str))
  OBVIOUS
<1>19. /\ q.size = r.size /\ q.totalLength = r.totalLength /\ q.size \div KeyBlockSize < q.keySize
       /\ q.keyBlocks = ready.keyBlocks
  BY <1>8, <1>15 DEF SameKeys
<1>20. /\ RecordOK(t) /\ SameRoom(q, t) /\ t.size = r.size + 1
       /\ t.totalLength = r.totalLength + Len(p.str)
       /\ KeyAt(t, r.size) = key
       /\ \A i \in 0 .. r.size - 1 : KeyAt(t, i) = KeyAt(q, i)
  BY <1>7, <1>15, <1>17, <1>18, <1>19, KeyWritten
<1>21. \A i \in 0 .. r.size - 1 : KeyAt(t, i) = KeyAt(r, i)
  <2>1. \A i \in 0 .. r.size - 1 : KeyAt(q, i) = KeyAt(ready, i)
    BY <1>19 DEF KeyAt
  <2> QED BY <1>8, <1>20, <2>1
<1>22. /\ t \in KeysetRec
       /\ \A a \in Kinds : UsedSize(t, a) = UsedSize(q, a)
       /\ \A a \in Kinds, i \in Slots : BlockAt(t, a, i) = BlockAt(q, a, i)
       /\ t.block = q.block /\ t.ptr = q.ptr /\ SameUse(q, t)
  <2>1. t \in KeysetRec
    BY <1>20 DEF RecordOK
  <2> QED BY <1>15, <1>20, <2>1, SameRoomFacts DEF SameRoom, SameUse
<1>23. Kept(r, H, t, G)
  BY <1>6, <1>9, <1>13, <1>14, <1>22, KeptTransfer
<1>24. KeyHeld(t, G, key, p)
  <2>1. key.length = Len(p.str) /\ key.union = p.union /\ key.block = room.block /\ key.at = room.at
    BY <1>16 DEF KeyIn
  <2>2. ASSUME chars # <<>>
        PROVE  /\ \E a \in Kinds : \E i \in 1 .. UsedSize(t, a) : key.block = BlockAt(t, a, i)
               /\ key.at + Len(chars) <= Len(G[key.block])
               /\ \A x \in 1 .. Len(chars) : G[key.block][key.at + x] = chars[x]
               /\ key.block = t.block => key.at + Len(chars) <= t.ptr
    <3>1. /\ \E a \in Kinds : \E i \in 1 .. UsedSize(q, a) : room.block = BlockAt(q, a, i)
          /\ room.at + Len(chars) <= Len(G[room.block])
          /\ \A x \in 1 .. Len(chars) : G[room.block][room.at + x] = chars[x]
          /\ room.block = q.block => room.at + Len(chars) <= q.ptr
      BY <1>12, <1>14, <2>2 DEF Written
    <3>2. PICK a \in Kinds : \E i \in 1 .. UsedSize(q, a) : room.block = BlockAt(q, a, i)
      BY <3>1
    <3>3. PICK i \in 1 .. UsedSize(q, a) : room.block = BlockAt(q, a, i)
      BY <3>2
    <3>4. i \in 1 .. UsedSize(t, a) /\ i \in Slots
      <4>1. UsedSize(q, a) \in Nat
        BY <1>15, ArrayFields DEF RecordOK
      <4> QED BY <1>22, <4>1 DEF Slots
    <3>5. key.block = BlockAt(t, a, i)
      BY <1>22, <2>1, <3>3, <3>4
    <3> QED BY <1>22, <2>1, <3>1, <3>4, <3>5
  <2> QED BY <1>3, <2>1, <2>2 DEF KeyHeld
<1>25. KeysHeld(t, G, Append(ps, p))
  BY <1>6, <1>20, <1>21, <1>23, <1>24, OneMoreHeld
<1>26. BaseFull(t, G)
  BY <1>13, <1>14, <1>22 DEF BaseFull, Kinds
<1>27. PICK ls : ls = [ks EXCEPT ![k] = t]
  OBVIOUS
<1>28. PICK qs : qs = [pushes EXCEPT ![k] = Append(ps, p)]
  OBVIOUS
<1>29. /\ ls \in [Keysets -> KeysetRec] /\ qs \in [Keysets -> Seq(Pushed)]
       /\ ls[k] = t /\ qs[k] = Append(ps, p)
       /\ \A j \in Keysets : j # k => ls[j] = ks[j] /\ qs[j] = pushes[j]
  <2>1. Append(ps, p) \in Seq(Pushed)
    BY <1>6, AppendProperties
  <2> QED BY <1>6, <1>22, <1>27, <1>28, <2>1
<1>30. ASSUME NEW j \in Keysets PROVE KeysetOK(ls[j], G, qs[j])
  <2>1. CASE j = k
    BY <1>20, <1>25, <1>26, <1>29, <2>1 DEF KeysetOK
  <2>2. CASE j # k
    <3>1. PICK s : s = ks[j]
      OBVIOUS
    <3>2. KeysetOK(s, H, pushes[j]) /\ OwnsOnce(s, H) /\ pushes[j] \in Seq(Pushed)
      BY <3>1, HeldFacts DEF AllHeld
    <3>3. ASSUME NEW a \in Kinds, NEW i \in Slots, BlockAt(s, a, i) # Null
          PROVE  G[BlockAt(s, a, i)] = H[BlockAt(s, a, i)]
      <4>1. BlockAt(s, a, i) \in DOMAIN H
        BY <3>2, <3>3 DEF OwnsOnce
      <4>2. \A c \in Kinds : \A l \in Slots : BlockAt(r, c, l) # BlockAt(s, a, i)
        BY <1>1, <1>6, <2>2, <3>1, <3>3, OwnsOfEach
      <4> QED BY <1>9, <1>13, <4>1, <4>2 DEF LeavesOthers
    <3>4. KeysetOK(s, G, pushes[j])
      BY <1>6, <3>2, <3>3, OtherOK
    <3> QED BY <1>29, <2>2, <3>1, <3>4
  <2> QED BY <2>1, <2>2
<1>31. Owns(BlocksOf(ls), G)
  <2>1. RecordOK(ks[k]) /\ SameUse(ks[k], ready) /\ SameUse(room.r, t)
    BY <1>1, <1>6, <1>9, <1>14, <1>22
  <2>2. Owns(BlocksOf([ks EXCEPT ![k] = t]), G)
    BY <1>6, <1>11, <1>12, <1>22, <2>1, PushOwns
  <2> QED BY <1>27, <2>2
<1>32. G \in Seq(Seq(Chars)) /\ Len(G) <= MaxBlocks
  BY <1>12 DEF SameBut
<1>33. AllHeld(ls, G, qs)
  BY <1>29, <1>30, <1>31, <1>32 DEF AllHeld
<1> QED BY <1>3, <1>4, <1>5, <1>14, <1>16, <1>18, <1>27, <1>28, <1>33

\* An array of blocks grew, and nothing else: an allocation failed after it.
LEMMA GrownKeyBlocks ==
  ASSUME NEW r, RecordOK(r), NEW q, q = [r EXCEPT !.keyBlocks = Grow(@, r.keySize, <<>>)]
  PROVE  /\ RecordOK(q) /\ SameRoom(r, q) /\ q.size = r.size /\ q.totalLength = r.totalLength
         /\ \A i \in 0 .. r.size - 1 : KeyAt(q, i) = KeyAt(r, i)
<1>1. r \in KeysetRec /\ ArraysOK(r)
  BY DEF RecordOK
<1>2. PICK n \in Nat, s \in Nat, K \in Nat \ {0} :
        n = r.keySize /\ s = r.size /\ K = KeyBlockSize
  BY <1>1, RecordFields, BlockSizesAssumption
<1>3. s <= n * K /\ (\A b \in 1 .. n : r.keyBlocks[b] \in KeyBlock) /\ n <= Len(r.keyBlocks)
  BY <1>2 DEF RecordOK, KeyBlocksOK
<1>4. PICK g : g = Grow(r.keyBlocks, n, <<>>)
  OBVIOUS
<1>5. PICK S : S = KeyBlock \cup {<<>>}
  OBVIOUS
<1>6. /\ r.keyBlocks \in Seq(S) /\ Len(r.keyBlocks) \in Nat
      /\ DOMAIN r.keyBlocks = 1 .. Len(r.keyBlocks) /\ <<>> \in S
  BY <1>1, <1>5, RecordFields, LenProperties
<1>7. RoomIn(S, g, r.keyBlocks, n, <<>>)
  BY <1>3, <1>4, <1>6, GrowFacts
<1>8. q = [r EXCEPT !.keyBlocks = g]
  BY <1>2, <1>4
<1>9. g \in Seq(KeyBlock \cup {<<>>}) /\ n <= Len(g)
  BY <1>3, <1>5, <1>6, <1>7 DEF RoomIn
<1>10. q \in KeysetRec
  BY <1>1, <1>8, <1>9 DEF KeysetRec
<1>11. q.keyBlocks = g /\ q.keySize = n /\ q.size = s /\ q.totalLength = r.totalLength /\ SameRoom(r, q)
  BY <1>1, <1>2, <1>8 DEF KeysetRec, SameRoom
<1>12. \A b \in 1 .. n : g[b] = r.keyBlocks[b]
  <2> TAKE b \in 1 .. n
  <2>1. b \in DOMAIN r.keyBlocks /\ b \in DOMAIN g
    BY <1>3, <1>6, <1>7, <1>9 DEF RoomIn
  <2> QED BY <1>7, <2>1 DEF RoomIn
<1>13. ArraysOK(q)
  BY <1>1, <1>10, <1>11, SameRoomFacts
<1>14. KeyBlocksOK(q)
  BY <1>2, <1>3, <1>9, <1>11, <1>12 DEF KeyBlocksOK
<1>15. \A i \in 0 .. s - 1 : KeyAt(q, i) = KeyAt(r, i)
  <2> TAKE i \in 0 .. s - 1
  <2>1. i \in Nat /\ i < n * K
    <3>1. n * K \in Nat
      OBVIOUS
    <3> QED BY <1>3, <3>1
  <2>2. i \div K + 1 \in 1 .. n
    <3>1. i \div K \in Nat /\ i \div K < n
      BY <2>1, KeyPlaces
    <3> QED BY <3>1
  <2>3. q.keyBlocks[i \div K + 1] = r.keyBlocks[i \div K + 1]
    BY <1>11, <1>12, <2>2
  <2> QED BY <1>2, <2>3 DEF KeyAt
<1> QED BY <1>2, <1>10, <1>11, <1>13, <1>14, <1>15 DEF RecordOK

\* An array that grew and got no block.
LEMMA GrownBlocks ==
  ASSUME NEW r, RecordOK(r), NEW q,
         \/ q = [r EXCEPT !.base = Grow(@, r.baseSize, Null)]
         \/ q = [r EXCEPT !.extra = Grow(@, r.extraSize, Null)]
  PROVE  /\ RecordOK(q) /\ SameUse(r, q) /\ q.size = r.size /\ q.totalLength = r.totalLength
         /\ \A i \in 0 .. r.size - 1 : KeyAt(q, i) = KeyAt(r, i)
<1>1. r \in KeysetRec /\ ArraysOK(r) /\ KeyBlocksOK(r)
  BY DEF RecordOK
<1>2. /\ r.base \in Seq(Nat) /\ r.baseSize \in Nat /\ r.extra \in Seq(Nat) /\ r.extraSize \in Nat
  BY <1>1, RecordFields
<1>3. r.baseSize <= Len(r.base) /\ r.extraSize <= Len(r.extra)
  BY <1>1 DEF ArraysOK
<1>4. PICK g, h : /\ g = q.base /\ h = q.extra
  OBVIOUS
<1>5. \/ g = Grow(r.base, r.baseSize, Null) /\ h = r.extra
      \/ g = r.base /\ h = Grow(r.extra, r.extraSize, Null)
  BY <1>1, <1>4 DEF KeysetRec
<1>6. /\ q.baseSize = r.baseSize /\ q.extraSize = r.extraSize /\ q.block = r.block
      /\ q.ptr = r.ptr /\ q.avail = r.avail /\ SameKeys(r, q)
  BY <1>1 DEF KeysetRec, SameKeys
<1>7. /\ g \in Seq(Nat) /\ h \in Seq(Nat) /\ r.baseSize <= Len(g) /\ r.extraSize <= Len(h)
      /\ \A i \in Slots : At(g, i) = At(r.base, i) /\ At(h, i) = At(r.extra, i)
  <2>1. PICK e \in Nat : e = 0
    OBVIOUS
  <2>2. /\ Grow(r.base, r.baseSize, Null) \in Seq(Nat)
        /\ r.baseSize <= Len(Grow(r.base, r.baseSize, Null))
        /\ \A i \in Slots : At(Grow(r.base, r.baseSize, Null), i) = At(r.base, i)
    BY <1>2, <1>3, <2>1, ArrayWith
  <2>3. /\ Grow(r.extra, r.extraSize, Null) \in Seq(Nat)
        /\ r.extraSize <= Len(Grow(r.extra, r.extraSize, Null))
        /\ \A i \in Slots : At(Grow(r.extra, r.extraSize, Null), i) = At(r.extra, i)
    BY <1>2, <1>3, <2>1, ArrayWith
  <2> QED BY <1>2, <1>3, <1>5, <2>2, <2>3
<1>8. q \in KeysetRec
  BY <1>1, <1>4, <1>7 DEF KeysetRec
<1>9. \A a \in Kinds, i \in Slots : BlockAt(q, a, i) = BlockAt(r, a, i)
  <2>1. q["base"] = g /\ q["extra"] = h /\ r["base"] = r.base /\ r["extra"] = r.extra
    BY <1>4
  <2> QED BY <1>7, <2>1 DEF BlockAt, Kinds
<1>10. \A a \in Kinds : UsedSize(q, a) = UsedSize(r, a)
  BY <1>6 DEF UsedSize
<1>11. q.baseSize # 0 => q.base[q.baseSize] = r.base[r.baseSize]
  <2> SUFFICES ASSUME r.baseSize # 0 PROVE g[r.baseSize] = r.base[r.baseSize]
    BY <1>4, <1>6
  <2>1. Len(g) \in Nat /\ Len(r.base) \in Nat
    BY <1>2, <1>7, LenProperties
  <2>2. r.baseSize \in 1 .. Len(r.base) /\ r.baseSize \in 1 .. Len(g)
    BY <1>2, <1>3, <1>7, <2>1
  <2>3. r.baseSize \in Slots /\ At(g, r.baseSize) = g[r.baseSize]
        /\ At(r.base, r.baseSize) = r.base[r.baseSize]
    BY <1>2, <1>7, <2>2, AtFacts
  <2> QED BY <1>7, <2>3
<1>12. ArraysOK(q)
  <2>1. \A a \in Kinds : \A i \in 1 .. UsedSize(q, a) : BlockAt(q, a, i) # Null
    <3> TAKE a \in Kinds
    <3> TAKE i \in 1 .. UsedSize(q, a)
    <3>1. UsedSize(r, a) \in Nat
      BY <1>1, ArrayFields
    <3>2. i \in 1 .. UsedSize(r, a) /\ i \in Slots
      BY <1>10, <3>1 DEF Slots
    <3> QED BY <1>1, <1>9, <3>2 DEF ArraysOK
  <2>2. ASSUME NEW a \in Kinds, NEW i \in Slots, BlockAt(q, a, i + 1) # Null
        PROVE  BlockAt(q, a, i) # Null
    <3>1. i + 1 \in Slots
      BY DEF Slots
    <3> QED BY <1>1, <1>9, <2>2, <3>1 DEF ArraysOK
  <2>3. q.baseSize <= Len(q.base) /\ q.extraSize <= Len(q.extra)
    BY <1>4, <1>6, <1>7
  <2> QED BY <1>1, <1>6, <1>11, <2>1, <2>2, <2>3 DEF ArraysOK
<1>13. RecordOK(q)
  BY <1>1, <1>6, <1>8, <1>12 DEF RecordOK, KeyBlocksOK, SameKeys
<1> QED BY <1>6, <1>9, <1>10, <1>13 DEF SameUse, SameKeys, KeyAt

\* A push that fails.
LEMMA FailureHolds ==
  ASSUME KeysetInv, NEW k \in Keysets, PushFails(k)
  PROVE  KeysetInv'
<1>1. AllHeld(keysets, heap, pushed)
  BY DEF KeysetInv
<1>2. PICK r, ps : r = keysets[k] /\ ps = pushed[k]
  OBVIOUS
<1>3. /\ heap \in Seq(Seq(Chars)) /\ r \in KeysetRec /\ RecordOK(r) /\ KeysHeld(r, heap, ps)
      /\ ps \in Seq(Pushed) /\ OwnsOnce(r, heap)
  BY <1>1, <1>2, HeldFacts
<1>4. PICK ready : ready = KeyReady(r)
  OBVIOUS
<1>5. /\ RecordOK(ready) /\ SameRoom(r, ready)
      /\ ready.size = r.size /\ ready.totalLength = r.totalLength
      /\ \A i \in 0 .. r.size - 1 : KeyAt(ready, i) = KeyAt(r, i)
  BY <1>3, <1>4, KeyReadyFacts
<1>6. PICK q : /\ keysets' = [keysets EXCEPT ![k] = q]
               /\ \/ q = r \/ q = ready
                  \/ q = [r EXCEPT !.keyBlocks = Grow(@, r.keySize, <<>>)]
                  \/ q = [ready EXCEPT !.extra = Grow(@, r.extraSize, Null)]
                  \/ q = [ready EXCEPT !.base = Grow(@, r.baseSize, Null)]
  BY <1>2, <1>4 DEF PushFails
<1>7. heap' = heap /\ pushed' = pushed
  BY DEF PushFails
<1>8. ready \in KeysetRec /\ ready.baseSize = r.baseSize /\ ready.extraSize = r.extraSize
  BY <1>5 DEF RecordOK, SameRoom
<1>9. SameUse(r, r) /\ SameUse(r, ready)
  BY <1>3, <1>5, <1>8, SameRoomFacts DEF SameRoom, SameUse
<1>10. /\ RecordOK(q) /\ SameUse(r, q) /\ q.size = r.size /\ q.totalLength = r.totalLength
       /\ \A i \in 0 .. r.size - 1 : KeyAt(q, i) = KeyAt(r, i)
  <2>1. CASE q = r
    BY <1>3, <1>9, <2>1
  <2>2. CASE q = ready
    BY <1>5, <1>9, <2>2
  <2>3. CASE q = [r EXCEPT !.keyBlocks = Grow(@, r.keySize, <<>>)]
    <3>1. /\ RecordOK(q) /\ SameRoom(r, q) /\ q.size = r.size /\ q.totalLength = r.totalLength
          /\ \A i \in 0 .. r.size - 1 : KeyAt(q, i) = KeyAt(r, i)
      BY <1>3, <2>3, GrownKeyBlocks
    <3>2. q \in KeysetRec
      BY <3>1 DEF RecordOK
    <3>3. SameUse(r, q)
      BY <1>3, <3>1, <3>2, SameRoomFacts DEF SameRoom, SameUse
    <3> QED BY <3>1, <3>3
  <2>4. CASE \/ q = [ready EXCEPT !.extra = Grow(@, r.extraSize, Null)]
             \/ q = [ready EXCEPT !.base = Grow(@, r.baseSize, Null)]
    <3>1. \/ q = [ready EXCEPT !.base = Grow(@, ready.baseSize, Null)]
          \/ q = [ready EXCEPT !.extra = Grow(@, ready.extraSize, Null)]
      BY <1>8, <2>4
    <3>2. /\ RecordOK(q) /\ SameUse(ready, q) /\ q.size = ready.size
          /\ q.totalLength = ready.totalLength
          /\ \A i \in 0 .. ready.size - 1 : KeyAt(q, i) = KeyAt(ready, i)
      BY <1>5, <3>1, GrownBlocks
    <3>3. SameUse(r, q)
      BY <1>9, <3>2 DEF SameUse
    <3> QED BY <1>5, <3>2, <3>3
  <2> QED BY <1>6, <2>1, <2>2, <2>3, <2>4
<1>11. Kept(r, heap, q, heap)
  BY <1>3, <1>10, KeptSame DEF SameUse
<1>12. KeysHeld(q, heap, ps)
  BY <1>3, <1>10, <1>11, KeysStayHeld
<1>13. \A a \in Kinds, i \in Slots : BlockAt(q, a, i) = BlockAt(keysets[k], a, i)
  BY <1>2, <1>10 DEF SameUse
<1>14. AllHeld([keysets EXCEPT ![k] = q], heap, [pushed EXCEPT ![k] = ps])
  BY <1>1, <1>3, <1>10, <1>12, <1>13, RecordChanges
<1>15. [pushed EXCEPT ![k] = ps] = pushed
  BY <1>1, <1>2 DEF AllHeld
<1> QED BY <1>6, <1>7, <1>14, <1>15 DEF KeysetInv

\* A push that does not.
LEMMA PushHolds ==
  ASSUME KeysetInv, NEW k \in Keysets, NEW p \in Pushed, PushChars(k, p.str, p.marker, p.union)
  PROVE  KeysetInv'
<1>1. AllHeld(keysets, heap, pushed)
  BY DEF KeysetInv
<1>2. PICK chars : chars = p.str \o p.marker
  OBVIOUS
<1>3. PICK ready : ready = KeyReady(keysets[k])
  OBVIOUS
<1>4. PICK room : room = Reserve(ready, Len(chars))
  OBVIOUS
<1>5. /\ heap \in Seq(Seq(Chars)) /\ RecordOK(keysets[k]) /\ BaseFull(keysets[k], heap)
      /\ OwnsOnce(keysets[k], heap) /\ keysets[k] \in KeysetRec
  BY <1>1, HeldFacts
<1>6. RecordOK(ready) /\ ready \in KeysetRec /\ SameRoom(keysets[k], ready)
  BY <1>3, <1>5, KeyReadyFacts DEF RecordOK
<1>7. \A a \in Kinds, i \in Slots : BlockAt(ready, a, i) = BlockAt(keysets[k], a, i)
  BY <1>5, <1>6, SameRoomFacts
<1>8. BaseFull(ready, heap)
  BY <1>5, <1>7 DEF BaseFull, Kinds
<1>9. \A i \in Slots : BlockAt(ready, "extra", i) # Null => BlockAt(ready, "extra", i) \in DOMAIN heap
  BY <1>5, <1>7 DEF OwnsOnce, Kinds
<1>10. Len(chars) \in Nat
  BY <1>2, PushedTyped, LenProperties
<1>11. Reserved(ready, Len(chars), room, heap)
  BY <1>4, <1>5, <1>6, <1>8, <1>9, <1>10, ReserveFacts
<1>12. p = [str |-> p.str, marker |-> p.marker, union |-> p.union]
  BY DEF Pushed
<1>13. /\ Len(room.heap) <= MaxBlocks
       /\ heap' = Copied(room.heap, room.block, room.at, chars)
       /\ keysets' = [keysets EXCEPT ![k] = WithKey(room.r, KeyIn(room, p), Len(p.str))]
       /\ pushed' = [pushed EXCEPT ![k] = Append(pushed[k], p)]
  <2>1. pushed' = [pushed EXCEPT ![k] = Append(@, [str |-> p.str, marker |-> p.marker, union |-> p.union])]
    BY DEF PushChars
  <2>2. Len(room.heap) <= MaxBlocks /\ heap' = Copied(room.heap, room.block, room.at, chars)
    BY <1>2, <1>3, <1>4 DEF PushChars
  <2>3. keysets' = [keysets EXCEPT ![k] = WithKey(room.r, KeyIn(room, p), Len(p.str))]
    BY <1>2, <1>3, <1>4 DEF PushChars, WithKey, KeyIn
  <2> QED BY <1>12, <2>1, <2>2, <2>3
<1>14. AllHeld([keysets EXCEPT ![k] = WithKey(room.r, KeyIn(room, p), Len(p.str))],
               Copied(room.heap, room.block, room.at, p.str \o p.marker),
               [pushed EXCEPT ![k] = Append(pushed[k], p)])
  BY <1>1, <1>2, <1>3, <1>11, <1>13, PushState
<1> QED BY <1>2, <1>13, <1>14 DEF KeysetInv

\* push_back of a string.
LEMMA StringHolds ==
  ASSUME KeysetInv, NEW k \in Keysets, PushString(k)
  PROVE  KeysetInv'
<1>1. PICK str \in Strings, weight \in Weights : PushChars(k, str, <<>>, weight)
  BY DEF PushString
<1>2. str \in Seq(Chars)
  <2>1. str \in Seq(Range(str))
    BY StringsAssumption
  <2>2. Range(str) \subseteq Chars
    BY DEF Chars
  <2> QED BY <2>1, <2>2, SeqMonotonic
<1>3. PICK p : p = [str |-> str, marker |-> <<>>, union |-> weight]
  OBVIOUS
<1>4. p \in Pushed /\ p.str = str /\ p.marker = <<>> /\ p.union = weight
  <2>1. weight \in Unions
    BY DEF Unions
  <2> QED BY <1>2, <1>3, <2>1 DEF Pushed
<1> QED BY <1>1, <1>4, PushHolds

\* push_back of a key: it reads as it was pushed, so its characters are characters.
LEMMA KeyHolds ==
  ASSUME KeysetInv, NEW k \in Keysets, PushKey(k)
  PROVE  KeysetInv'
<1>1. PICK j \in Keysets : \E i \in 0 .. keysets[j].size - 1 : \E marker \in {<<>>, <<Marker>>} :
        PushChars(k, StrOf(KeyAt(keysets[j], i)), marker, KeyAt(keysets[j], i).union)
  BY DEF PushKey
<1>2. PICK i \in 0 .. keysets[j].size - 1 : \E marker \in {<<>>, <<Marker>>} :
        PushChars(k, StrOf(KeyAt(keysets[j], i)), marker, KeyAt(keysets[j], i).union)
  BY <1>1
<1>3. PICK marker \in {<<>>, <<Marker>>} :
        PushChars(k, StrOf(KeyAt(keysets[j], i)), marker, KeyAt(keysets[j], i).union)
  BY <1>2
<1>4. PICK r, ps : r = keysets[j] /\ ps = pushed[j]
  OBVIOUS
<1>5. /\ heap \in Seq(Seq(Chars)) /\ RecordOK(r) /\ OwnsOnce(r, heap)
      /\ KeysHeld(r, heap, ps) /\ ps \in Seq(Pushed) /\ r \in KeysetRec
  BY <1>4, HeldFacts DEF KeysetInv
<1>6. PICK key \in KeyRec : key = KeyAt(r, i)
  BY <1>4, <1>5, KeyTyped
<1>7. i + 1 \in DOMAIN ps
  <2>1. PICK n \in Nat : n = Len(ps) /\ DOMAIN ps = 1 .. n
    BY <1>5, LenProperties
  <2>2. i \in 0 .. n - 1
    BY <1>4, <1>5, <2>1 DEF KeysHeld
  <2> QED BY <2>1, <2>2
<1>8. PICK q \in Pushed : q = ps[i + 1]
  BY <1>5, <1>7, ElementOfSeq
<1>9. KeyHeld(r, heap, key, q)
  BY <1>4, <1>5, <1>6, <1>8 DEF KeysHeld
<1>10. StrOf(key) \in Seq(Chars) /\ key.union \in Unions
  <2>1. StrOf(key) = q.str
    BY <1>5, <1>9, KeyReads
  <2> QED BY <2>1, PushedTyped DEF KeyRec
<1>11. PICK p : p = [str |-> StrOf(key), marker |-> marker, union |-> key.union]
  OBVIOUS
<1>12. p \in Pushed /\ p.str = StrOf(key) /\ p.marker = marker /\ p.union = key.union
  BY <1>10, <1>11 DEF Pushed
<1>13. PushChars(k, p.str, p.marker, p.union)
  BY <1>3, <1>4, <1>6, <1>12
<1> QED BY <1>12, <1>13, PushHolds

\* reset.
LEMMA ResetHolds ==
  ASSUME KeysetInv, NEW k \in Keysets, Reset(k)
  PROVE  KeysetInv'
<1>1. AllHeld(keysets, heap, pushed)
  BY DEF KeysetInv
<1>2. PICK r : r = keysets[k]
  OBVIOUS
<1>3. RecordOK(r) /\ r \in KeysetRec /\ ArraysOK(r) /\ KeyBlocksOK(r)
  BY <1>1, <1>2, HeldFacts DEF RecordOK
<1>4. PICK q : q = [r EXCEPT !.baseSize = 0, !.extraSize = 0, !.block = Null, !.ptr = 0,
                             !.avail = 0, !.size = 0, !.totalLength = 0]
  OBVIOUS
<1>5. q \in KeysetRec
  BY <1>3, <1>4 DEF KeysetRec, Null
<1>6. /\ q.base = r.base /\ q.baseSize = 0 /\ q.extra = r.extra /\ q.extraSize = 0
      /\ q.keyBlocks = r.keyBlocks /\ q.keySize = r.keySize
      /\ q.block = Null /\ q.ptr = 0 /\ q.avail = 0 /\ q.size = 0 /\ q.totalLength = 0
  BY <1>3, <1>4 DEF KeysetRec
<1>7. \A a \in Kinds : \A i : BlockAt(q, a, i) = BlockAt(r, a, i)
  <2>1. \A a \in Kinds : q[a] = r[a]
    BY <1>6 DEF Kinds
  <2> QED BY <2>1 DEF BlockAt
<1>8. \A a \in Kinds : UsedSize(q, a) = 0
  BY <1>6 DEF UsedSize
<1>9. ArraysOK(q)
  <2>1. Len(q.base) \in Nat /\ Len(q.extra) \in Nat
    BY <1>5, RecordFields, LenProperties
  <2>2. \A a \in Kinds, i \in Slots : BlockAt(q, a, i + 1) # Null => BlockAt(q, a, i) # Null
    BY <1>3, <1>7 DEF ArraysOK
  <2>3. \A a \in Kinds : \A i \in 1 .. UsedSize(q, a) : BlockAt(q, a, i) # Null
    BY <1>8
  <2>4. 0 <= Len(q.base) /\ 0 <= Len(q.extra)
    BY <2>1
  <2> QED BY <1>6, <2>2, <2>3, <2>4 DEF ArraysOK
<1>10. KeyBlocksOK(q)
  <2>1. r.keySize * KeyBlockSize \in Nat
    BY <1>3, RecordFields, BlockSizesAssumption
  <2> QED BY <1>3, <1>6, <2>1 DEF KeyBlocksOK
<1>11. RecordOK(q)
  BY <1>5, <1>9, <1>10 DEF RecordOK
<1>12. KeysHeld(q, heap, <<>>) /\ <<>> \in Seq(Pushed)
  BY <1>6, TotalOfNone, EmptySeq DEF KeysHeld
<1>13. AllHeld([keysets EXCEPT ![k] = q], heap, [pushed EXCEPT ![k] = <<>>])
  BY <1>1, <1>2, <1>7, <1>11, <1>12, RecordChanges
<1>14. /\ keysets' = [keysets EXCEPT ![k] = q] /\ heap' = heap
       /\ pushed' = [pushed EXCEPT ![k] = <<>>]
  BY <1>2, <1>4 DEF Reset
<1> QED BY <1>13, <1>14 DEF KeysetInv

\* The blocks of a keyset are those in its arrays.
LEMMA OwnedIs ==
  ASSUME NEW r \in KeysetRec, NEW b
  PROVE  b \in OwnedBlocks(r) <=> b # Null /\ \E a \in Kinds, i \in Slots : BlockAt(r, a, i) = b
<1>1. r.base \in Seq(Nat) /\ r.extra \in Seq(Nat) /\ r["base"] = r.base /\ r["extra"] = r.extra
  BY RecordFields
<1>2. \A i \in DOMAIN r.base : i \in Slots
  BY <1>1, LenProperties DEF Slots
<1>3. \A i \in DOMAIN r.extra : i \in Slots
  BY <1>1, LenProperties DEF Slots
<1>4. /\ \A i \in DOMAIN r.base : i \in Slots /\ BlockAt(r, "base", i) = r.base[i]
      /\ \A i \in DOMAIN r.extra : i \in Slots /\ BlockAt(r, "extra", i) = r.extra[i]
  BY <1>1, <1>2, <1>3 DEF BlockAt, At
<1>5. ASSUME b \in OwnedBlocks(r)
      PROVE  b # Null /\ \E a \in Kinds, i \in Slots : BlockAt(r, a, i) = b
  <2>1. b # Null /\ (b \in Range(r.base) \/ b \in Range(r.extra))
    BY <1>5 DEF OwnedBlocks
  <2>2. "base" \in Kinds /\ "extra" \in Kinds
    BY DEF Kinds
  <2>3. CASE b \in Range(r.base)
    <3>1. PICK i \in DOMAIN r.base : b = r.base[i]
      BY <2>3 DEF Range
    <3> QED BY <1>4, <2>1, <2>2, <3>1
  <2>4. CASE b \in Range(r.extra)
    <3>1. PICK i \in DOMAIN r.extra : b = r.extra[i]
      BY <2>4 DEF Range
    <3> QED BY <1>4, <2>1, <2>2, <3>1
  <2> QED BY <2>1, <2>3, <2>4
<1>6. ASSUME b # Null, NEW a \in Kinds, NEW i \in Slots, BlockAt(r, a, i) = b
      PROVE  b \in OwnedBlocks(r)
  <2>1. i \in DOMAIN r[a] /\ r[a][i] = b
    BY <1>6 DEF BlockAt, At
  <2>2. b \in Range(r[a])
    BY <2>1 DEF Range
  <2> QED BY <1>1, <1>6, <2>2 DEF OwnedBlocks, Kinds
<1> QED BY <1>5, <1>6

\* clear.
LEMMA ClearHolds ==
  ASSUME KeysetInv, NEW k \in Keysets, Clear(k)
  PROVE  KeysetInv'
<1>1. AllHeld(keysets, heap, pushed)
  BY DEF KeysetInv
<1>2. PICK ks, H, pushes : ks = keysets /\ H = heap /\ pushes = pushed
  OBVIOUS
<1>3. /\ AllHeld(ks, H, pushes) /\ ks \in [Keysets -> KeysetRec]
      /\ pushes \in [Keysets -> Seq(Pushed)] /\ Owns(BlocksOf(ks), H) /\ Len(H) <= MaxBlocks
  BY <1>1, <1>2 DEF AllHeld
<1>4. /\ H \in Seq(Seq(Chars)) /\ Len(H) \in Nat /\ DOMAIN H = 1 .. Len(H) /\ Null \notin DOMAIN H
      /\ ks[k] \in KeysetRec
  BY <1>3, HeldFacts
<1>5. PICK G : G = [b \in DOMAIN H |-> IF b \in OwnedBlocks(ks[k]) THEN <<>> ELSE H[b]]
  OBVIOUS
<1>6. G \in Seq(Seq(Chars)) /\ Len(G) = Len(H) /\ DOMAIN G = DOMAIN H
  <2>1. \A b \in DOMAIN H : H[b] \in Seq(Chars)
    BY <1>4, ElementOfSeq
  <2>2. <<>> \in Seq(Chars)
    BY EmptySeq
  <2>3. PICK n \in Nat : n = Len(H)
    BY <1>4
  <2>4. G \in [1 .. n -> Seq(Chars)]
    BY <1>4, <1>5, <2>1, <2>2, <2>3
  <2>5. G \in Seq(Seq(Chars))
    BY <2>4, SeqDef
  <2>6. DOMAIN G = 1 .. n
    BY <2>4
  <2> QED BY <1>4, <2>3, <2>5, <2>6, LenProperties
<1>7. PICK ls, qs : ls = [ks EXCEPT ![k] = EmptyKeyset] /\ qs = [pushes EXCEPT ![k] = <<>>]
  OBVIOUS
<1>8. /\ KeysetOK(EmptyKeyset, G, <<>>) /\ EmptyKeyset \in KeysetRec
      /\ \A a \in Kinds : \A i : BlockAt(EmptyKeyset, a, i) = Null
      /\ <<>> \in Seq(Pushed)
  BY EmptyFacts
<1>9. /\ ls \in [Keysets -> KeysetRec] /\ qs \in [Keysets -> Seq(Pushed)]
      /\ ls[k] = EmptyKeyset /\ qs[k] = <<>>
      /\ \A j \in Keysets : j # k => ls[j] = ks[j] /\ qs[j] = pushes[j]
  BY <1>3, <1>7, <1>8
<1>10. \A b : b \in OwnedBlocks(ks[k]) <=> b # Null /\ \E a \in Kinds, i \in Slots : BlockAt(ks[k], a, i) = b
  BY <1>4, OwnedIs
<1>11. ASSUME NEW j \in Keysets PROVE KeysetOK(ls[j], G, qs[j])
  <2>1. CASE j = k
    BY <1>8, <1>9, <2>1
  <2>2. CASE j # k
    <3>1. PICK s : s = ks[j]
      OBVIOUS
    <3>2. KeysetOK(s, H, pushes[j]) /\ OwnsOnce(s, H) /\ pushes[j] \in Seq(Pushed)
      BY <1>3, <3>1, HeldFacts DEF AllHeld
    <3>3. ASSUME NEW a \in Kinds, NEW i \in Slots, BlockAt(s, a, i) # Null
          PROVE  G[BlockAt(s, a, i)] = H[BlockAt(s, a, i)]
      <4>1. BlockAt(s, a, i) \in DOMAIN H
        BY <3>2, <3>3 DEF OwnsOnce
      <4>2. \A c \in Kinds : \A l \in Slots : BlockAt(ks[k], c, l) # BlockAt(s, a, i)
        BY <1>3, <2>2, <3>1, <3>3, OwnsOfEach
      <4>3. BlockAt(s, a, i) \notin OwnedBlocks(ks[k])
        BY <1>10, <4>2
      <4> QED BY <1>5, <4>1, <4>3
    <3>4. KeysetOK(s, G, pushes[j])
      BY <1>4, <3>2, <3>3, OtherOK
    <3> QED BY <1>9, <2>2, <3>1, <3>4
  <2> QED BY <2>1, <2>2
<1>12. Owns(BlocksOf(ls), G)
  <2>1. PICK f, g : f = BlocksOf(ks) /\ g = BlocksOf(ls)
    OBVIOUS
  <2>2. ASSUME NEW p \in BlockPlaces
        PROVE  /\ p[1] \in Keysets /\ p[2] \in Kinds /\ p[3] \in Slots
               /\ f[p] = BlockAt(ks[p[1]], p[2], p[3]) /\ g[p] = BlockAt(ls[p[1]], p[2], p[3])
    <3>1. p[1] \in Keysets /\ p[2] \in Kinds /\ p[3] \in Slots
      BY DEF BlockPlaces
    <3> QED BY <2>1, <3>1 DEF BlocksOf
  <2>3. PICK Q : Q = {p \in BlockPlaces : p[1] = k}
    OBVIOUS
  <2>4. \A p \in BlockPlaces : g[p] = IF p \in Q THEN Null ELSE f[p]
    BY SMTT(30), <1>8, <1>9, <2>2, <2>3
  <2>5. ASSUME NEW b \in DOMAIN H
        PROVE  b \in OwnedBlocks(ks[k]) <=> \E p \in BlockPlaces : p \in Q /\ f[p] = b
    <3>1. b # Null
      BY <1>4
    <3>2. ASSUME NEW a \in Kinds, NEW i \in Slots, BlockAt(ks[k], a, i) = b
          PROVE  \E p \in BlockPlaces : p \in Q /\ f[p] = b
      <4>1. PICK p : p = <<k, a, i>>
        OBVIOUS
      <4>2. p \in BlockPlaces /\ p[1] = k /\ p[2] = a /\ p[3] = i
        BY <4>1 DEF BlockPlaces
      <4> QED BY <2>2, <2>3, <3>2, <4>2
    <3>3. ASSUME NEW p \in BlockPlaces, p \in Q, f[p] = b
          PROVE  \E a \in Kinds, i \in Slots : BlockAt(ks[k], a, i) = b
      BY <2>2, <2>3, <3>3
    <3> QED BY <1>10, <3>1, <3>2, <3>3
  <2>6. \A b \in DOMAIN H : G[b] = IF \E p \in BlockPlaces : p \in Q /\ f[p] = b THEN <<>> ELSE H[b]
    BY <1>5, <2>5
  <2>7. Owns(f, H)
    BY <1>3, <2>1
  <2>9. Cleared(f, H, g, G, Q)
    BY <1>6, <2>4, <2>6 DEF Cleared
  <2>8. Owns(g, G)
    BY <1>4, <2>7, <2>9, OwnsLess
  <2> QED BY <2>1, <2>8
<1>13. AllHeld(ls, G, qs)
  BY <1>3, <1>6, <1>9, <1>11, <1>12 DEF AllHeld
<1>14. keysets' = ls /\ heap' = G /\ pushed' = qs
  BY <1>2, <1>5, <1>7 DEF Clear
<1> QED BY <1>13, <1>14 DEF KeysetInv

\* swap.
LEMMA SwapHolds ==
  ASSUME KeysetInv, NEW j \in Keysets, NEW k \in Keysets, Swap(j, k)
  PROVE  KeysetInv'
<1>1. PICK ks, H, pushes : ks = keysets /\ H = heap /\ pushes = pushed
  OBVIOUS
<1>2. /\ AllHeld(ks, H, pushes) /\ ks \in [Keysets -> KeysetRec]
      /\ pushes \in [Keysets -> Seq(Pushed)] /\ Owns(BlocksOf(ks), H)
      /\ \A l \in Keysets : KeysetOK(ks[l], H, pushes[l])
  BY <1>1 DEF KeysetInv, AllHeld
<1>3. PICK ls, qs : /\ ls = [ks EXCEPT ![j] = ks[k], ![k] = ks[j]]
                    /\ qs = [pushes EXCEPT ![j] = pushes[k], ![k] = pushes[j]]
  OBVIOUS
<1>4. /\ ls \in [Keysets -> KeysetRec] /\ qs \in [Keysets -> Seq(Pushed)]
      /\ \A l \in Keysets : /\ ls[l] = IF l = k THEN ks[j] ELSE IF l = j THEN ks[k] ELSE ks[l]
                            /\ qs[l] = IF l = k THEN pushes[j] ELSE IF l = j THEN pushes[k] ELSE pushes[l]
  BY <1>2, <1>3
<1>5. \A l \in Keysets : KeysetOK(ls[l], H, qs[l])
  BY <1>2, <1>4
<1>6. Owns(BlocksOf(ls), H)
  <2>1. PICK f, g : f = BlocksOf(ks) /\ g = BlocksOf(ls)
    OBVIOUS
  <2>2. PICK other : other = [l \in Keysets |-> IF l = k THEN j ELSE IF l = j THEN k ELSE l]
    OBVIOUS
  <2>3. \A l \in Keysets : other[l] \in Keysets /\ other[other[l]] = l /\ ls[l] = ks[other[l]]
    BY <1>4, <2>2
  <2>4. PICK to : to = [p \in BlockPlaces |-> <<other[p[1]], p[2], p[3]>>]
    OBVIOUS
  <2>5. ASSUME NEW p \in BlockPlaces
        PROVE  to[p] \in BlockPlaces /\ to[to[p]] = p /\ g[p] = f[to[p]]
    <3>1. p[1] \in Keysets /\ p[2] \in Kinds /\ p[3] \in Slots /\ p = <<p[1], p[2], p[3]>>
      BY DEF BlockPlaces
    <3>2. PICK q : q = <<other[p[1]], p[2], p[3]>>
      OBVIOUS
    <3>3. q \in BlockPlaces /\ q[1] = other[p[1]] /\ q[2] = p[2] /\ q[3] = p[3] /\ to[p] = q
      BY <2>3, <2>4, <3>1, <3>2 DEF BlockPlaces
    <3>4. to[q] = <<other[q[1]], q[2], q[3]>>
      BY <2>4, <3>3
    <3>5. to[q] = p
      BY <2>3, <3>1, <3>3, <3>4
    <3>6. f[q] = BlockAt(ks[q[1]], q[2], q[3]) /\ g[p] = BlockAt(ls[p[1]], p[2], p[3])
      BY <2>1, <3>3 DEF BlocksOf
    <3> QED BY <2>3, <3>1, <3>3, <3>5, <3>6
  <2>6. to \in [BlockPlaces -> BlockPlaces]
    <3>1. to = [p \in BlockPlaces |-> to[p]]
      BY <2>4
    <3> QED BY <2>5, <3>1
  <2>7. Owns(f, H)
    BY <1>2, <2>1
  <2>8. Owns(g, H)
    BY <2>5, <2>6, <2>7, OwnsMoved
  <2> QED BY <2>1, <2>8
<1>7. AllHeld(ls, H, qs)
  BY <1>2, <1>4, <1>5, <1>6 DEF AllHeld
<1>8. keysets' = ls /\ heap' = H /\ pushed' = qs
  BY <1>1, <1>3 DEF Swap
<1> QED BY <1>7, <1>8 DEF KeysetInv

\* Whatever is done to the keysets.
THEOREM KeysetInvariant == SpecKeyset => []KeysetInv
<1>1. KeysetInv /\ [NextKeyset]_keysetVars => KeysetInv'
  <2> SUFFICES ASSUME KeysetInv, [NextKeyset]_keysetVars PROVE KeysetInv'
    OBVIOUS
  <2>1. ASSUME NEW k \in Keysets, PushString(k) PROVE KeysetInv'
    BY <2>1, StringHolds
  <2>2. ASSUME NEW k \in Keysets, PushKey(k) PROVE KeysetInv'
    BY <2>2, KeyHolds
  <2>3. ASSUME NEW k \in Keysets, PushFails(k) PROVE KeysetInv'
    BY <2>3, FailureHolds
  <2>4. ASSUME NEW k \in Keysets, Reset(k) PROVE KeysetInv'
    BY <2>4, ResetHolds
  <2>5. ASSUME NEW k \in Keysets, Clear(k) PROVE KeysetInv'
    BY <2>5, ClearHolds
  <2>6. ASSUME NEW j \in Keysets, NEW k \in Keysets, Swap(j, k) PROVE KeysetInv'
    BY <2>6, SwapHolds
  <2>7. CASE UNCHANGED keysetVars
    BY <2>7 DEF KeysetInv, keysetVars
  <2> QED BY <2>1, <2>2, <2>3, <2>4, <2>5, <2>6, <2>7 DEF NextKeyset
<1> QED BY <1>1, InitHolds, PTL DEF SpecKeyset

\* KeysReadBack.
LEMMA InvReadsBack == KeysetInv => KeysReadBack
<1> SUFFICES ASSUME KeysetInv, NEW k \in Keysets
             PROVE  /\ keysets[k].size = Len(pushed[k])
                    /\ \A i \in 0 .. keysets[k].size - 1 :
                         /\ StrOf([KeyAt(keysets[k], i) EXCEPT !.length = @ + Len(pushed[k][i + 1].marker)])
                              = pushed[k][i + 1].str \o pushed[k][i + 1].marker
                         /\ KeyAt(keysets[k], i).length = Len(pushed[k][i + 1].str)
                         /\ KeyAt(keysets[k], i).union = pushed[k][i + 1].union
                    /\ keysets[k].totalLength = TotalLength(pushed[k])
  BY DEF KeysReadBack, TotalLength
<1>1. PICK r, ps : r = keysets[k] /\ ps = pushed[k]
  OBVIOUS
<1>2. /\ heap \in Seq(Seq(Chars)) /\ RecordOK(r) /\ OwnsOnce(r, heap)
      /\ KeysHeld(r, heap, ps) /\ ps \in Seq(Pushed) /\ r \in KeysetRec
  BY <1>1, HeldFacts DEF KeysetInv
<1>3. ASSUME NEW i \in 0 .. r.size - 1
      PROVE  /\ StrOf([KeyAt(r, i) EXCEPT !.length = @ + Len(ps[i + 1].marker)])
                  = ps[i + 1].str \o ps[i + 1].marker
             /\ KeyAt(r, i).length = Len(ps[i + 1].str)
             /\ KeyAt(r, i).union = ps[i + 1].union
  <2>1. PICK key \in KeyRec : key = KeyAt(r, i)
    BY <1>2, KeyTyped
  <2>2. i + 1 \in DOMAIN ps
    <3>1. PICK n \in Nat : n = Len(ps) /\ DOMAIN ps = 1 .. n
      BY <1>2, LenProperties
    <3>2. i \in 0 .. n - 1
      BY <1>2, <3>1 DEF KeysHeld
    <3> QED BY <3>1, <3>2
  <2>3. PICK p \in Pushed : p = ps[i + 1]
    BY <1>2, <2>2, ElementOfSeq
  <2>4. KeyHeld(r, heap, key, p)
    BY <1>2, <2>1, <2>3 DEF KeysHeld
  <2>5. StrOf([key EXCEPT !.length = @ + Len(p.marker)]) = p.str \o p.marker
    BY <1>2, <2>4, KeyReads
  <2>6. key.length = Len(p.str) /\ key.union = p.union
    BY <2>4 DEF KeyHeld
  <2> QED BY <2>1, <2>3, <2>5, <2>6
<1> QED BY <1>1, <1>2, <1>3 DEF KeysHeld

\* Every key reads as it was pushed, with its weight or id and its end marker,
\* whatever is pushed, reset, cleared, swapped or failed after it, and
\* total_length adds them up: for every size of block and all strings.
THEOREM KeysAlwaysReadBack == SpecKeyset => []KeysReadBack
BY KeysetInvariant, InvReadsBack, PTL

\* KeysetTypeOK.
LEMMA InvTypeOK == KeysetInv => KeysetTypeOK
<1> SUFFICES ASSUME KeysetInv, NEW k \in Keysets
             PROVE  LET r == keysets[k] IN
                    /\ r.baseSize \in 0 .. Len(r.base) /\ r.extraSize \in 0 .. Len(r.extra)
                    /\ r.keySize \in 0 .. Len(r.keyBlocks)
                    /\ r.size \in 0 .. r.keySize * KeyBlockSize
                    /\ r.ptr + r.avail \in {0, BaseBlockSize}
                    /\ OwnedBlocks(r) \subseteq DOMAIN heap
  BY DEF KeysetTypeOK
<1>1. PICK r : r = keysets[k]
  OBVIOUS
<1>2. RecordOK(r) /\ OwnsOnce(r, heap) /\ r \in KeysetRec /\ ArraysOK(r) /\ KeyBlocksOK(r)
  BY <1>1, HeldFacts DEF KeysetInv, RecordOK
<1>3. /\ r.baseSize \in Nat /\ r.extraSize \in Nat /\ r.keySize \in Nat /\ r.size \in Nat
      /\ r.ptr \in Nat /\ r.avail \in Nat
      /\ r.base \in Seq(Nat) /\ r.extra \in Seq(Nat) /\ r.keyBlocks \in Seq(KeyBlock \cup {<<>>})
  BY <1>2, RecordFields
<1>4. Len(r.base) \in Nat /\ Len(r.extra) \in Nat /\ Len(r.keyBlocks) \in Nat
      /\ r.keySize * KeyBlockSize \in Nat
  BY <1>3, LenProperties, BlockSizesAssumption
<1>5. /\ r.baseSize <= Len(r.base) /\ r.extraSize <= Len(r.extra)
      /\ r.keySize <= Len(r.keyBlocks) /\ r.size <= r.keySize * KeyBlockSize
  BY <1>2 DEF ArraysOK, KeyBlocksOK
<1>6. r.ptr + r.avail \in {0, BaseBlockSize}
  BY <1>2, <1>3 DEF ArraysOK
<1>7. OwnedBlocks(r) \subseteq DOMAIN heap
  BY <1>2, OwnedIs DEF OwnsOnce
<1> QED BY <1>1, <1>3, <1>4, <1>5, <1>6, <1>7

\* The counters stay within their arrays, the block that is filled is filled to
\* its end at most, and the arrays hold blocks that were allocated.
THEOREM KeysetTypeCorrect == SpecKeyset => []KeysetTypeOK
BY KeysetInvariant, InvTypeOK, PTL

\* Blocks fill an array from its start: before a block there are only blocks.
LEMMA SlotsFilled ==
  ASSUME NEW r, ArraysOK(r), NEW a \in Kinds, NEW i \in Slots, BlockAt(r, a, i) # Null,
         NEW j \in 1 .. i
  PROVE  BlockAt(r, a, j) # Null
<1> DEFINE Bad == {d \in Nat : d < i /\ BlockAt(r, a, i - d) = Null}
<1> SUFFICES ASSUME Bad # {} PROVE FALSE
  <2>1. i - j \in Nat /\ i - j < i /\ i - (i - j) = j
    BY DEF Slots
  <2> QED BY <2>1
<1>1. PICK d \in Bad : \A e \in Bad : d <= e
  <2>1. Bad \subseteq Nat
    OBVIOUS
  <2> HIDE DEF Bad
  <2> QED BY <2>1, LeastElement
<1>2. d \in Nat /\ d < i /\ BlockAt(r, a, i - d) = Null
  OBVIOUS
<1>3. d # 0
  BY <1>2 DEF Slots
<1>4. PICK e \in Nat : d = e + 1
  <2>1. d - 1 \in Nat /\ d = (d - 1) + 1
    BY <1>2, <1>3
  <2> QED BY <2>1
<1>5. e < i /\ e \notin Bad
  <2>1. e < i /\ ~(d <= e)
    BY <1>2, <1>4 DEF Slots
  <2> QED BY <1>1, <2>1
<1>6. BlockAt(r, a, i - e) # Null
  BY <1>5
<1>7. PICK s : s = i - d
  OBVIOUS
<1>8. s \in Slots /\ s + 1 = i - e
  BY <1>2, <1>4, <1>7 DEF Slots
<1>9. BlockAt(r, a, s) # Null
  BY <1>6, <1>8 DEF ArraysOK
<1> QED BY <1>2, <1>7, <1>9

\* There are no more blocks in an array than blocks ever allocated.
LEMMA SlotBounded ==
  ASSUME NEW r, NEW H, ArraysOK(r), OwnsOnce(r, H), NEW n \in Nat, DOMAIN H = 1 .. n,
         NEW a \in Kinds, NEW i \in Slots, BlockAt(r, a, i) # Null
  PROVE  i <= n
<1>1. i \in Nat
  BY DEF Slots
<1>2. \A j \in 1 .. i : j \in Slots /\ BlockAt(r, a, j) # Null
  <2> TAKE j \in 1 .. i
  <2>1. BlockAt(r, a, j) # Null
    BY SlotsFilled
  <2> QED BY <2>1 DEF Slots
<1>3. \A j \in 1 .. i : BlockAt(r, a, j) \in 1 .. n
  BY <1>2 DEF OwnsOnce
<1>4. \A j, l \in 1 .. i : BlockAt(r, a, j) = BlockAt(r, a, l) => j = l
  BY <1>2 DEF OwnsOnce
<1>5. PICK f : f = [j \in 1 .. i |-> BlockAt(r, a, j)]
  OBVIOUS
<1>6. f \in Injection(1 .. i, 1 .. n)
  BY <1>3, <1>4, <1>5 DEF Injection, IsInjective
<1>7. IsFiniteSet(1 .. n) /\ Cardinality(1 .. n) = n /\ Cardinality(1 .. i) = i
  BY <1>1, FS_Interval DEF Slots
<1>8. PICK S, T : S = 1 .. i /\ T = 1 .. n
  OBVIOUS
<1>9. Cardinality(S) <= Cardinality(T)
  BY <1>6, <1>7, <1>8, FS_Injection
<1> QED BY <1>7, <1>8, <1>9

\* BlocksOwnedOnce.
LEMMA InvOwnedOnce == KeysetInv => BlocksOwnedOnce
<1> DEFINE Ps == {<<k, "base", i>> : k \in Keysets, i \in 1 .. MaxBlocks} \cup
                 {<<k, "extra", i>> : k \in Keysets, i \in 1 .. MaxBlocks}
           In(p, b) == p[3] \in DOMAIN keysets[p[1]][p[2]] /\ keysets[p[1]][p[2]][p[3]] = b
<1> SUFFICES ASSUME KeysetInv, NEW b \in DOMAIN heap
             PROVE  Cardinality({p \in Ps : In(p, b)}) = IF heap[b] = <<>> THEN 0 ELSE 1
  BY DEF BlocksOwnedOnce
<1>1. PICK n \in Nat : n = Len(heap) /\ DOMAIN heap = 1 .. n /\ n <= MaxBlocks
  BY LenProperties DEF KeysetInv, AllHeld
<1>2. b # Null
  BY <1>1 DEF Null
<1>3. ASSUME NEW p \in Ps
      PROVE  /\ p \in BlockPlaces
             /\ p[1] \in Keysets /\ p[2] \in Kinds /\ p[3] \in Slots /\ p = <<p[1], p[2], p[3]>>
  BY MaxBlocksAssumption DEF BlockPlaces, Kinds, Slots
<1>4. \A k \in Keysets, a \in Kinds, i \in 1 .. MaxBlocks : <<k, a, i>> \in Ps
  BY DEF Kinds
<1>5. PICK f : f = BlocksOf(keysets)
  OBVIOUS
<1>6. Owns(f, heap)
  BY <1>5 DEF KeysetInv, AllHeld
<1>7. ASSUME NEW p \in Ps
      PROVE  In(p, b) <=> f[p] = b
  <2>1. f[p] = BlockAt(keysets[p[1]], p[2], p[3])
    BY <1>3, <1>5 DEF BlocksOf
  <2> QED BY <1>2, <2>1 DEF BlockAt, At
<1>8. \A p \in Ps : p \in BlockPlaces
  BY <1>3
<1> HIDE DEF In
<1>9. CASE heap[b] = <<>>
  <2>1. \A p \in Ps : ~In(p, b)
    BY <1>2, <1>6, <1>7, <1>8, <1>9 DEF Owns
  <2>2. {p \in Ps : In(p, b)} = {}
    BY <2>1
  <2>3. Cardinality({p \in Ps : In(p, b)}) = 0
    BY <2>2, FS_EmptySet
  <2> QED BY <1>9, <2>3
<1>10. CASE heap[b] # <<>>
  <2>1. PICK p \in BlockPlaces : f[p] = b
    BY <1>6, <1>10 DEF Owns
  <2>2. PICK k \in Keysets, a \in Kinds, i \in Slots : p = <<k, a, i>>
    BY DEF BlockPlaces
  <2>3. BlockAt(keysets[k], a, i) = b
    BY <1>5, <2>1, <2>2 DEF BlocksOf
  <2>4. PICK r : r = keysets[k]
    OBVIOUS
  <2>5. ArraysOK(r) /\ OwnsOnce(r, heap)
    BY <2>4, HeldFacts DEF KeysetInv
  <2>6. i <= n
    BY <1>1, <1>2, <2>3, <2>4, <2>5, SlotBounded
  <2>7. i \in 1 .. MaxBlocks
    BY <1>1, <2>6, MaxBlocksAssumption DEF Slots
  <2>8. p \in Ps
    BY <1>4, <2>2, <2>7
  <2> HIDE DEF Ps
  <2>9. ASSUME NEW q \in Ps, In(q, b) PROVE q = p
    <3>1. f[q] = b /\ q \in BlockPlaces
      BY <1>7, <1>8, <2>9
    <3> QED BY <1>2, <1>6, <2>1, <3>1 DEF Owns
  <2>10. In(p, b)
    BY <1>7, <2>1, <2>8
  <2>11. {q \in Ps : In(q, b)} = {p}
    BY <2>8, <2>9, <2>10
  <2> QED BY <1>10, <2>11, FS_Singleton
<1> QED BY <1>9, <1>10

\* No block is leaked, owned twice or kept after it was deleted, in any order of
\* pushes, failed allocations, resets, clears and swaps.
THEOREM BlocksAlwaysOwnedOnce == SpecKeyset => []BlocksOwnedOnce
BY KeysetInvariant, InvOwnedOnce, PTL

===========================================================================
