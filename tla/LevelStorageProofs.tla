------------------------- MODULE LevelStorageProofs ------------------------
(***************************************************************************)
(* Values that are packed across words are read back, whatever was in the  *)
(* memory, and the words of a 64-bit build keep nothing of it.  rank1      *)
(* counts the ones before every position, from the counts of the blocks    *)
(* and groups that build_index leaves, for vectors of any length and       *)
(* either build.  The storage of a level is the level that was built.      *)
(***************************************************************************)
EXTENDS LevelStorage, ProofLemmas, SequenceTheorems

---------------------------------------------------------------------------
(* FlatVector.                                                             *)

\* The recursion of BitLength has a solution, so BitLength is it.
LEMMA BitLengthDef ==
  /\ BitLength \in [Nat -> Nat]
  /\ \A n \in Nat : BitLength[n] = IF n = 0 THEN 0 ELSE 1 + BitLength[n \div 2]
<1> DEFINE next == [n \in Nat |-> n \div 2]
           m == [n \in Nat |-> n]
           b == [n \in Nat |-> 0]
           h == [p \in Nat \X Nat |-> 1 + p[2]]
<1>1. /\ next \in [Nat -> Nat] /\ m \in [Nat -> Nat] /\ b \in [Nat -> Nat]
      /\ h \in [Nat \X Nat -> Nat]
      /\ {0} \in SUBSET Nat
      /\ \A n \in Nat \ {0} : m[next[n]] < m[n]
  OBVIOUS
<1>2. PICK f \in [Nat -> Nat] : \A n \in Nat : Recurs(f, n, {0}, b, h, next)
  <2> HIDE DEF next, m, b, h
  <2> QED BY <1>1, RecursionHasSolution
<1>3. ASSUME NEW n \in Nat PROVE f[n] = IF n = 0 THEN 0 ELSE 1 + f[n \div 2]
  <2>1. n \div 2 \in Nat
    OBVIOUS
  <2>2. h[<<n, f[n \div 2]>>] = 1 + f[n \div 2]
    BY <2>1
  <2>3. Recurs(f, n, {0}, b, h, next)
    BY <1>2
  <2> QED BY <2>2, <2>3 DEF Recurs
<1>4. f = [n \in Nat |-> IF n = 0 THEN 0 ELSE 1 + f[n \div 2]]
  <2>1. f = [n \in Nat |-> f[n]]
    BY <1>2
  <2> QED BY <1>3, <2>1
<1>5. BitLength = [n \in Nat |-> IF n = 0 THEN 0 ELSE 1 + BitLength[n \div 2]]
  BY <1>4 DEF BitLength
<1>6. \A n \in Nat : BitLength[n] = IF n = 0 THEN 0 ELSE 1 + BitLength[n \div 2]
  BY <1>5
<1>7. ASSUME NEW n \in Nat PROVE BitLength[n] \in Nat
  <2> DEFINE Bad == {k \in Nat : BitLength[k] \notin Nat}
  <2> SUFFICES ASSUME Bad # {} PROVE FALSE
    OBVIOUS
  <2>1. PICK k \in Bad : \A j \in Bad : k <= j
    <3>1. Bad \subseteq Nat
      OBVIOUS
    <3> HIDE DEF Bad
    <3> QED BY <3>1, LeastElement
  <2>2. k # 0 /\ k \in Nat
    BY <1>6
  <2>3. k \div 2 \in Nat /\ ~(k <= k \div 2)
    BY <2>2
  <2>4. BitLength[k \div 2] \in Nat
    BY <2>1, <2>3
  <2>5. BitLength[k] \in Nat
    BY <1>6, <2>2, <2>4
  <2> QED BY <2>5
<1> QED BY <1>5, <1>6, <1>7

\* A number fits in w bits when it has at most w.
LEMMA BitLengthBound ==
  ASSUME NEW n \in Nat, NEW w \in Nat
  PROVE  n < 2 ^ w <=> BitLength[n] <= w
<1> DEFINE Bad == {k \in Nat : \E v \in Nat : ~(k < 2 ^ v <=> BitLength[k] <= v)}
<1> SUFFICES ASSUME Bad # {} PROVE FALSE
  OBVIOUS
<1>1. PICK k \in Bad : \A j \in Bad : k <= j
  <2>1. Bad \subseteq Nat
    OBVIOUS
  <2> HIDE DEF Bad
  <2> QED BY <2>1, LeastElement
<1>2. k \in Nat
  OBVIOUS
<1>3. PICK v \in Nat : ~(k < 2 ^ v <=> BitLength[k] <= v)
  OBVIOUS
<1>4. k # 0
  BY <1>2, <1>3, BitLengthDef, PowerOfTwo
<1>5. k \div 2 \in Nat /\ ~(k <= k \div 2) /\ BitLength[k \div 2] \in Nat /\ BitLength[k] = 1 + BitLength[k \div 2]
  BY <1>2, <1>4, BitLengthDef
<1>6. v # 0
  <2>1. ~(k < 2 ^ 0) /\ ~(BitLength[k] <= 0)
    <3>1. 2 ^ 0 = 1
      BY PowerOfTwo
    <3>2. ~(k < 1)
      BY <1>2, <1>4
    <3> QED BY <1>5, <3>1, <3>2
  <2> QED BY <1>3, <2>1
<1>7. PICK u \in Nat : v = u + 1
  BY <1>6
<1>8. k \div 2 < 2 ^ u <=> BitLength[k \div 2] <= u
  BY <1>1, <1>5
<1>9. k < 2 ^ v <=> k \div 2 < 2 ^ u
  <2>1. 2 ^ u \in Nat /\ 2 ^ v = 2 * 2 ^ u
    BY <1>7, PowerOfTwo
  <2> QED BY <1>2, <2>1
<1> QED BY <1>3, <1>5, <1>7, <1>8, <1>9

\* A number below 2 ^ w is the sum of its w bits, ... 
LEMMA BitOfStep ==
  ASSUME NEW n \in Nat, NEW j \in Nat
  PROVE  /\ BitOf(n, j) \in {0, 1}
         /\ (n % 2 ^ (j + 1)) = (n % 2 ^ j) + BitOf(n, j) * 2 ^ j
<1>1. PICK p \in Nat \ {0} : 2 ^ j = p /\ 2 ^ (j + 1) = 2 * p
  BY PowerOfTwo
<1> DEFINE q == n \div p
           r == n % p
<1>2. q \in Nat /\ r \in 0 .. p - 1 /\ n = p * q + r
  BY DivModNat, <1>1
<1>3. BitOf(n, j) = q % 2
  BY <1>1 DEF BitOf
<1> HIDE DEF q, r
<1>4. q = 2 * (q \div 2) + (q % 2) /\ q \div 2 \in Nat /\ q % 2 \in 0 .. 1
  BY <1>2, DivModNat
<1> DEFINE t == (q % 2) * p + r
<1>5. t \in 0 .. 2 * p - 1
  BY <1>2, <1>4
<1>6. n = (2 * p) * (q \div 2) + t
  BY <1>2, <1>4
<1> HIDE DEF t
<1>7. n % (2 * p) = t
  <2>1. PICK b \in Nat \ {0} : b = 2 * p
    OBVIOUS
  <2>2. PICK k \in Nat : k = q \div 2
    BY <1>4
  <2>3. t \in 0 .. b - 1 /\ n = b * k + t
    BY <1>5, <1>6, <2>1, <2>2
  <2>4. (b * k + t) % b = t
    BY <2>3, DivModOf
  <2> QED BY <2>1, <2>3, <2>4
<1>8. n % 2 ^ j = r
  BY <1>1 DEF r
<1>9. n % 2 ^ (j + 1) = t
  BY <1>1, <1>7
<1>10. PICK bit : bit = BitOf(n, j)
  OBVIOUS
<1>11. t = bit * p + r /\ bit \in {0, 1} /\ t = r + bit * p
  <2>1. t = bit * p + r /\ bit \in {0, 1}
    BY <1>3, <1>4, <1>10 DEF t
  <2> QED BY <1>2, <2>1
<1> QED BY <1>1, <1>8, <1>9, <1>10, <1>11

\* A position is in a value's bits when it is in the word where the value begins,
\* behind its offset, or in the next, in what the first had no room for.
LEMMA PlaceByParts ==
  ASSUME NEW w \in Nat \ {0}, NEW width \in 0 .. w, NEW pos \in Nat, NEW q \in Nat,
         NEW u \in Nat, NEW o \in 0 .. w - 1, NEW k \in Nat, NEW b \in 0 .. w - 1,
         pos = w * u + o, q = w * k + b
  PROVE  /\ q \in pos .. pos + width - 1 <=>
              (k = u /\ b \in o .. o + width - 1) \/ (k = u + 1 /\ b + w < o + width)
         /\ (k = u /\ b \in o .. o + width - 1) => q - pos = b - o
         /\ (k = u + 1 /\ b + w < o + width) => q - pos = b + w - o
<1>1. PICK m \in Int, l \in Int : m = w * u /\ l = w * k
  OBVIOUS
<1>2. pos = m + o /\ q = l + b
  BY <1>1
<1>3. CASE k < u
  <2>1. l + w <= m
    BY <1>1, <1>3
  <2> QED BY ONLY <1>2, <1>3, <2>1, w \in Nat, width \in 0 .. w, u \in Nat, o \in 0 .. w - 1,
             k \in Nat, b \in 0 .. w - 1, m \in Int, l \in Int
<1>4. CASE k = u
  <2>1. l = m
    BY <1>1, <1>4
  <2> QED BY ONLY <1>2, <1>4, <2>1, w \in Nat, width \in 0 .. w, u \in Nat, o \in 0 .. w - 1,
             k \in Nat, b \in 0 .. w - 1, m \in Int, l \in Int
<1>5. CASE k = u + 1
  <2>1. l = m + w
    BY <1>1, <1>5
  <2> QED BY ONLY <1>2, <1>5, <2>1, w \in Nat, width \in 0 .. w, u \in Nat, o \in 0 .. w - 1,
             k \in Nat, b \in 0 .. w - 1, m \in Int, l \in Int
<1>6. CASE k > u + 1
  <2>1. l >= m + w + w
    BY <1>1, <1>6
  <2> QED BY ONLY <1>2, <1>6, <2>1, w \in Nat, width \in 0 .. w, u \in Nat, o \in 0 .. w - 1,
             k \in Nat, b \in 0 .. w - 1, m \in Int, l \in Int
<1> QED BY <1>3, <1>4, <1>5, <1>6

\* The same, the words and the bits found by division.
LEMMA PlaceInWords ==
  ASSUME NEW w \in Nat \ {0}, NEW width \in 0 .. w, NEW pos \in Nat, NEW q \in Nat
  PROVE  LET u == pos \div w   o == pos % w   k == q \div w   b == q % w
             here == k = u /\ b \in o .. o + width - 1
             next == k = u + 1 /\ b + w < o + width
         IN  /\ q \in pos .. pos + width - 1 <=> here \/ next
             /\ here => q - pos = b - o
             /\ next => q - pos = b + w - o
<1>1. /\ pos \div w \in Nat /\ (pos % w) \in 0 .. w - 1 /\ pos = w * (pos \div w) + (pos % w)
      /\ q \div w \in Nat /\ (q % w) \in 0 .. w - 1 /\ q = w * (q \div w) + (q % w)
  BY DivModNat
<1>2. PICK u \in Nat : u = pos \div w
  BY <1>1
<1>3. PICK o \in 0 .. w - 1 : o = pos % w
  BY <1>1
<1>4. PICK k \in Nat : k = q \div w
  BY <1>1
<1>5. PICK b \in 0 .. w - 1 : b = q % w
  BY <1>1
<1>6. pos = w * u + o /\ q = w * k + b
  BY <1>1, <1>2, <1>3, <1>4, <1>5
<1>7. /\ q \in pos .. pos + width - 1 <=>
           (k = u /\ b \in o .. o + width - 1) \/ (k = u + 1 /\ b + w < o + width)
      /\ (k = u /\ b \in o .. o + width - 1) => q - pos = b - o
      /\ (k = u + 1 /\ b + w < o + width) => q - pos = b + w - o
  BY <1>6, PlaceByParts
<1> QED BY ZenonT(30), <1>2, <1>3, <1>4, <1>5, <1>7

\* Bit q of the words, counted from the first.
Flat(ws, w, q) == ws[q \div w + 1][q % w]

\* What set leaves at a bit: that of the value in its place, the old one elsewhere.
LEMMA PutAcrossBit ==
  ASSUME W \in Nat \ {0}, valueSize \in 0 .. W, NEW n \in Nat, NEW ws, DOMAIN ws = 1 .. n,
         NEW pos \in Nat, NEW value, NEW q \in Nat, q \div W + 1 \in 1 .. n
  PROVE  Flat(PutAcross(ws, pos, value), W, q) =
           IF q \in pos .. pos + valueSize - 1 THEN BitOf(value, q - pos) ELSE Flat(ws, W, q)
<1> DEFINE u == pos \div W
           o == pos % W
           k == q \div W
           b == q % W
           here == k = u /\ b \in o .. o + valueSize - 1
           next == k = u + 1 /\ b + W < o + valueSize
<1>1. /\ q \in pos .. pos + valueSize - 1 <=> here \/ next
      /\ here => q - pos = b - o
      /\ next => q - pos = b + W - o
  BY ZenonT(30), PlaceInWords
<1>2. b \in 0 .. W - 1 /\ k \in Nat /\ u \in Nat
  BY DivModNat
<1>3. Flat(PutAcross(ws, pos, value), W, q) =
        IF k + 1 = u + 1 /\ b \in o .. o + valueSize - 1 THEN BitOf(value, b - o)
        ELSE IF k + 1 = u + 2 /\ b + W < o + valueSize THEN BitOf(value, b + W - o)
        ELSE ws[k + 1][b]
  BY <1>2 DEF Flat, PutAcross
<1>4. (k + 1 = u + 1 <=> k = u) /\ (k + 1 = u + 2 <=> k = u + 1)
  BY <1>2
<1>5. Flat(ws, W, q) = ws[k + 1][b]
  BY DEF Flat
<1> HIDE DEF u, o, k, b
<1> QED BY <1>1, <1>3, <1>4, <1>5

\* Reading takes a bit from where it was put.
LEMMA ValueBitPlace ==
  ASSUME W \in Nat \ {0}, valueSize \in 0 .. W, NEW i \in Nat, NEW j \in 0 .. valueSize - 1
  PROVE  i * valueSize + j \in Nat /\ ValueBit(i, j) = Flat(words, W, i * valueSize + j)
<1> DEFINE pos == i * valueSize
           q == pos + j
           u == pos \div W
           o == pos % W
           k == q \div W
           b == q % W
           here == k = u /\ b \in o .. o + valueSize - 1
           next == k = u + 1 /\ b + W < o + valueSize
<1>1. pos \in Nat /\ q \in Nat /\ q \in pos .. pos + valueSize - 1 /\ q - pos = j
  OBVIOUS
<1>2. u \in Nat /\ o \in 0 .. W - 1 /\ k \in Nat /\ b \in 0 .. W - 1
  BY <1>1, DivModNat
<1> HIDE DEF pos
<1>3. /\ q \in pos .. pos + valueSize - 1 <=> here \/ next
      /\ here => q - pos = b - o
      /\ next => q - pos = b + W - o
  BY ZenonT(30), <1>1, PlaceInWords
<1> HIDE DEF q
<1>4. ValueBit(i, j) = IF o + j < W THEN words[u + 1][o + j] ELSE words[u + 2][o + j - W]
  BY DEF ValueBit, pos
<1>5. Flat(words, W, q) = words[k + 1][b]
  BY DEF Flat
<1> HIDE DEF u, o, k, b
<1>6. CASE here
  <2>1. o + j = b /\ k + 1 = u + 1 /\ o + j < W
    BY <1>1, <1>2, <1>3, <1>6
  <2> QED BY <1>1, <1>4, <1>5, <2>1 DEF q, pos
<1>7. CASE next
  <2>1. o + j - W = b /\ k + 1 = u + 2 /\ ~(o + j < W)
    BY <1>1, <1>2, <1>3, <1>7
  <2> QED BY <1>1, <1>4, <1>5, <2>1 DEF q, pos
<1> QED BY <1>1, <1>3, <1>6, <1>7

\* A sequence has a largest element.
LEMMA LargestOf ==
  ASSUME NEW vals \in Seq(Nat)
  PROVE  LET all == {0} \cup {vals[i] : i \in DOMAIN vals}
         IN  Max(all) \in all /\ \A n \in all : n <= Max(all)
<1> DEFINE UpTo(n) == {0} \cup {vals[i] : i \in 1 .. n}
           Bad == {n \in 0 .. Len(vals) : ~ \E m \in UpTo(n) : \A k \in UpTo(n) : k <= m}
<1>0. Len(vals) \in Nat /\ DOMAIN vals = 1 .. Len(vals) /\ \A i \in 1 .. Len(vals) : vals[i] \in Nat
  OBVIOUS
<1>1. Bad = {}
  <2> SUFFICES ASSUME Bad # {} PROVE FALSE
    OBVIOUS
  <2>1. PICK n \in Bad : \A k \in Bad : n <= k
    <3>1. Bad \subseteq Nat
      BY <1>0
    <3> HIDE DEF Bad
    <3> QED BY <3>1, LeastElement
  <2>2. n # 0
    <3>1. UpTo(0) = {0}
      OBVIOUS
    <3> QED BY <3>1, <2>1
  <2>3. n \in 1 .. Len(vals) /\ n - 1 \in 0 .. Len(vals) /\ ~(n <= n - 1)
    BY <1>0, <2>1, <2>2
  <2>4. PICK m \in UpTo(n - 1) : \A k \in UpTo(n - 1) : k <= m
    BY <2>1, <2>3
  <2>5. UpTo(n) = UpTo(n - 1) \cup {vals[n]}
    <3>1. 1 .. n = (1 .. n - 1) \cup {n}
      BY <2>3
    <3> QED BY <3>1
  <2>6. vals[n] \in Nat /\ UpTo(n - 1) \subseteq Nat
    BY <1>0, <2>3
  <2> HIDE DEF UpTo
  <2>7. \E l \in UpTo(n) : \A k \in UpTo(n) : k <= l
    <3>1. CASE vals[n] <= m
      BY <2>4, <2>5, <3>1
    <3>2. CASE ~(vals[n] <= m)
      <4>1. \A k \in UpTo(n) : k <= vals[n]
        BY <2>4, <2>5, <2>6, <3>2
      <4> QED BY <2>5, <4>1
    <3> QED BY <3>1, <3>2
  <2> QED BY <2>1, <2>7
<1>2. UpTo(Len(vals)) = {0} \cup {vals[i] : i \in DOMAIN vals}
  BY <1>0
<1>3. PICK m \in UpTo(Len(vals)) : \A k \in UpTo(Len(vals)) : k <= m
  <2>1. Len(vals) \in 0 .. Len(vals) /\ Len(vals) \notin Bad
    <3> HIDE DEF Bad
    <3> QED BY <1>0, <1>1
  <2> HIDE DEF UpTo
  <2> QED BY <2>1
<1>4. UpTo(Len(vals)) \subseteq Nat
  BY <1>0
<1> DEFINE all == UpTo(Len(vals))
<1> HIDE DEF UpTo
<1>5. Max(all) \in all /\ \A n \in all : n <= Max(all)
  <2>1. \A x \in all, y \in all : x \in Int /\ y \in Int /\ (x >= y <=> y <= x)
    BY <1>4
  <2>2. \E x \in all : \A y \in all : x >= y
    BY <1>3, <2>1
  <2> HIDE DEF all
  <2>3. Max(all) \in all /\ \A y \in all : Max(all) >= y
    BY <2>2 DEF Max
  <2> QED BY <2>1, <2>3
<1> QED BY <1>2, <1>5

\* value_size is the least width that every value fits in.
LEMMA ValueSizeFits ==
  ASSUME NEW vals \in Seq(Nat)
  PROVE  /\ ValueSize(vals) \in Nat
         /\ \A i \in DOMAIN vals : vals[i] < 2 ^ ValueSize(vals)
         /\ \A w \in Nat : (\A i \in DOMAIN vals : vals[i] < 2 ^ w) => ValueSize(vals) <= w
<1> DEFINE all == {0} \cup {vals[i] : i \in DOMAIN vals}
           m == Max(all)
<1>1. m \in all /\ \A n \in all : n <= m
  BY LargestOf
<1>2. all \subseteq Nat
  OBVIOUS
<1>3. ValueSize(vals) = BitLength[m]
  BY DEF ValueSize
<1>4. \A i \in DOMAIN vals : vals[i] \in all
  OBVIOUS
<1>5. m = 0 \/ \E i \in DOMAIN vals : m = vals[i]
  BY <1>1
<1> HIDE DEF m, all
<1>6. ValueSize(vals) \in Nat
  BY <1>1, <1>2, <1>3, BitLengthDef
<1>7. ASSUME NEW i \in DOMAIN vals PROVE vals[i] < 2 ^ ValueSize(vals)
  <2>1. m < 2 ^ ValueSize(vals)
    BY <1>1, <1>2, <1>3, <1>6, BitLengthBound
  <2>2. vals[i] <= m /\ vals[i] \in Nat /\ m \in Nat
    BY <1>1, <1>2, <1>4
  <2>3. 2 ^ ValueSize(vals) \in Nat
    BY <1>6, PowerOfTwo
  <2> QED BY <2>1, <2>2, <2>3
<1>8. ASSUME NEW w \in Nat, \A i \in DOMAIN vals : vals[i] < 2 ^ w
      PROVE  ValueSize(vals) <= w
  <2>1. m < 2 ^ w
    <3>1. 2 ^ w \in Nat \ {0}
      BY PowerOfTwo
    <3> QED BY <1>5, <1>8, <3>1
  <2> QED BY <1>1, <1>2, <1>3, <2>1, BitLengthBound
<1> QED BY <1>6, <1>7, <1>8

\* So many units hold the bits, and one unit less does not.
LEMMA UnitsNeeded ==
  ASSUME NEW w \in Nat \ {0}, NEW bits \in Nat
  PROVE  LET needed == (bits + w - 1) \div w
         IN  /\ needed \in Nat /\ bits <= w * needed
             /\ bits > 0 => needed > 0 /\ w * (needed - 1) < bits
<1> DEFINE a == bits + w - 1
           d == a \div w
           r == a % w
<1>1. a \in Nat
  OBVIOUS
<1>2. d \in Nat /\ r \in 0 .. w - 1 /\ a = w * d + r
  <2> HIDE DEF a
  <2> QED BY <1>1, DivModNat
<1>3. w * d \in Nat /\ w * (d - 1) = w * d - w
  BY <1>2
<1> HIDE DEF d, r
<1>4. bits <= w * d
  BY <1>2, <1>3
<1>5. bits > 0 => w * (d - 1) < bits
  BY <1>2, <1>3
<1>6. bits > 0 => d > 0
  BY <1>2, <1>4
<1> QED BY <1>2, <1>4, <1>5, <1>6 DEF d

\* There are units for all the values, and in a 64-bit build none that has no
\* value but a single one.
LEMMA NumUnitsFit ==
  ASSUME NEW vals \in Seq(Nat), NEW per64 \in {1, 2}
  PROVE  /\ NumUnits(vals, per64) \in Nat
         /\ ValueSize(vals) * Len(vals) <= WordBits[per64] * NumUnits(vals, per64)
         /\ per64 = 1 /\ NumUnits(vals, per64) > 1 =>
              WordBits[1] * (NumUnits(vals, per64) - 1) < ValueSize(vals) * Len(vals)
<1> DEFINE w == WordBits[per64]
           s == ValueSize(vals)
           l == Len(vals)
           needed == (s * l + w - 1) \div w
<1>1. w \in Nat \ {0} /\ s \in Nat /\ l \in Nat
  BY WordBitsAssumption, ValueSizeFits
<1>2. NumUnits(vals, per64) = IF vals = <<>> THEN 0 ELSE IF s = 0 THEN per64
                              ELSE needed + (needed % per64)
  BY DEF NumUnits
<1>3. l = 0 <=> vals = <<>>
  OBVIOUS
<1> HIDE DEF w, s, l
<1>4. s * l \in Nat
  BY <1>1
<1>5. /\ needed \in Nat /\ s * l <= w * needed
      /\ s * l > 0 => needed > 0 /\ w * (needed - 1) < s * l
  BY <1>1, <1>4, UnitsNeeded
<1> HIDE DEF needed
<1>6. CASE vals = <<>>
  <2>1. s * l = 0 /\ w * 0 = 0
    BY <1>1, <1>3, <1>6
  <2> QED BY <1>2, <1>6, <2>1 DEF w, s, l
<1>7. CASE vals # <<>> /\ s = 0
  <2>1. s * l = 0 /\ w * per64 \in Nat
    BY <1>1, <1>7
  <2> QED BY <1>2, <1>7, <2>1 DEF w, s, l
<1>8. CASE vals # <<>> /\ s # 0
  <2>1. NumUnits(vals, per64) = needed + (needed % per64)
    BY <1>2, <1>8
  <2>2. needed % per64 \in Nat /\ (per64 = 1 => needed % per64 = 0)
    BY <1>5
  <2>3. s * l > 0
    BY <1>1, <1>3, <1>8
  <2>4. PICK e \in Nat : e = needed % per64
    BY <2>2
  <2>5. w * (needed + e) >= w * needed /\ w * needed \in Nat /\ w * (needed + e) \in Nat
    BY <1>1, <1>5
  <2>6. needed + e \in Nat /\ s * l <= w * (needed + e)
    BY <1>4, <1>5, <2>5
  <2>7. per64 = 1 => needed + e = needed
    BY <1>5, <2>2, <2>4
  <2>8. per64 = 1 => w = WordBits[1]
    BY DEF w
  <2> QED BY <1>5, <2>1, <2>3, <2>4, <2>6, <2>7, <2>8 DEF w, s, l
<1> QED BY <1>6, <1>7, <1>8

---------------------------------------------------------------------------
\* What holds of the packed values at every moment: those that are set are read
\* back, and the words have nothing else but what was in the memory, or zeros
\* in the last one.
FlatTyped ==
  /\ flatStage \in {"wait", "set", "packed"} /\ unitsPer64 \in {1, 2}
  /\ values \in Seq(Nat) /\ valueSize = ValueSize(values) /\ valueSize \in 0 .. W
  /\ packed \in 0 .. Len(values)
  /\ flatStage = "wait" => values = <<>>
  /\ flatStage = "packed" => packed = Len(values)
  /\ DOMAIN words = 1 .. NumUnits(values, unitsPer64)

ValuesSet ==
  \A i \in Nat, j \in 0 .. valueSize - 1 :
    i < packed => Flat(words, W, i * valueSize + j) = BitOf(values[i + 1], j)

BitsSet ==
  \A q \in Nat : q \div W + 1 \in DOMAIN words =>
    (q < packed * valueSize \/ q \div W + 1 = NumUnits(values, unitsPer64)
       => Flat(words, W, q) \in {0, 1})

FlatInv == FlatTyped /\ ValuesSet /\ BitsSet

\* A unit has 32 or 64 bits, at least one.
LEMMA WordSize == ASSUME unitsPer64 \in {1, 2} PROVE W \in Nat \ {0}
BY WordBitsAssumption DEF W

\* A position of a value has a unit.
LEMMA ValueHasUnit ==
  ASSUME FlatTyped, NEW q \in Nat, q < valueSize * Len(values)
  PROVE  q \div W + 1 \in DOMAIN words
<1> DEFINE n == NumUnits(values, unitsPer64)
<1>1. /\ n \in Nat /\ valueSize * Len(values) <= W * n /\ W \in Nat \ {0}
      /\ valueSize * Len(values) \in Nat
  BY NumUnitsFit, WordSize, LenProperties DEF FlatTyped, W
<1>2. q < W * n
  BY <1>1
<1> HIDE DEF n
<1>3. q \div W \in Nat /\ W * (q \div W) <= q
  <2>1. PICK w \in Nat \ {0} : w = W
    BY <1>1
  <2>2. q \div w \in Nat /\ q % w \in 0 .. w - 1 /\ q = w * (q \div w) + (q % w)
    BY DivModNat
  <2>3. w * (q \div w) \in Nat
    BY <2>2
  <2> QED BY <2>1, <2>2, <2>3
<1>4. q \div W < n
  BY <1>1, <1>2, <1>3
<1>5. q \div W + 1 \in 1 .. n
  BY <1>1, <1>3, <1>4
<1> QED BY <1>5 DEF FlatTyped, n

\* The vector starts empty.
LEMMA InitFlatInv == InitFlat => FlatInv
<1> SUFFICES ASSUME InitFlat PROVE FlatInv
  OBVIOUS
<1>1. /\ values = <<>> /\ flatStage = "wait" /\ words = <<>>
      /\ unitsPer64 = 1 /\ valueSize = 0 /\ packed = 0
  BY DEF InitFlat
<1>2. ValueSize(<<>>) = 0
  <2>1. <<>> \in Seq(Nat) /\ \A i \in DOMAIN <<>> : FALSE
    OBVIOUS
  <2>2. ValueSize(<<>>) \in Nat /\ ValueSize(<<>>) <= 0
    BY <2>1, ValueSizeFits
  <2> QED BY <2>2
<1>3. W \in Nat \ {0}
  BY <1>1, WordSize
<1>4. FlatTyped
  BY <1>1, <1>2, <1>3 DEF FlatTyped, NumUnits
<1>5. ValuesSet /\ BitsSet
  BY <1>1 DEF ValuesSet, BitsSet
<1> QED BY <1>4, <1>5 DEF FlatInv

\* build: the units are there and no value is set.
LEMMA BuildFlatInv ==
  ASSUME NEW vals \in Seq(Nat), NEW per64 \in {1, 2},
         \A i \in DOMAIN vals : vals[i] < 2 ^ WordBits[per64],
         BuildFlat(vals, per64)
  PROVE  FlatInv'
<1>1. /\ values' = vals /\ unitsPer64' = per64 /\ valueSize' = ValueSize(vals)
      /\ packed' = 0 /\ flatStage' = "set" /\ words' = NewWords(vals, per64)
  BY DEF BuildFlat
<1> DEFINE n == NumUnits(vals, per64)
           w == WordBits[per64]
<1>2. w \in Nat \ {0} /\ W' = w /\ n \in Nat
  BY <1>1, WordBitsAssumption, NumUnitsFit DEF W
<1>3. ValueSize(vals) \in 0 .. w
  BY <1>2, ValueSizeFits
<1>4. words' = [k \in 1 .. n |-> Word(w, IF k = n THEN 0 ELSE Unset)]
  BY <1>1 DEF NewWords
<1>5. FlatTyped'
  BY <1>1, <1>2, <1>3, <1>4 DEF FlatTyped
<1>6. ValuesSet'
  BY <1>1 DEF ValuesSet
<1>7. BitsSet'
  <2> SUFFICES ASSUME NEW q \in Nat, q \div w + 1 \in 1 .. n,
                      q < 0 * ValueSize(vals) \/ q \div w + 1 = n
               PROVE  Flat(words', w, q) \in {0, 1}
    <3>1. DOMAIN words' = 1 .. n /\ n = NumUnits(values', unitsPer64')
      BY <1>1, <1>4
    <3> HIDE DEF n, w
    <3> QED BY <1>1, <1>2, <3>1 DEF BitsSet
  <2>1. q \div w + 1 = n
    BY <1>3
  <2>2. q % w \in 0 .. w - 1
    BY <1>2, DivModNat
  <2>3. words'[n] = Word(w, 0)
    BY <1>4, <2>1
  <2>4. Flat(words', w, q) = words'[n][q % w]
    BY <2>1 DEF Flat
  <2> QED BY <2>2, <2>3, <2>4 DEF Word
<1> QED BY <1>5, <1>6, <1>7 DEF FlatInv

\* set: the next value is put where no other one has its bits.
LEMMA SetValueInv == ASSUME FlatInv, SetValue PROVE FlatInv'
<1>1. /\ flatStage = "set" /\ packed < Len(values) /\ packed' = packed + 1
      /\ words' = PutAcross(words, packed * valueSize, values[packed + 1])
      /\ UNCHANGED <<values, flatStage, unitsPer64, valueSize>>
  BY DEF SetValue
<1>2. FlatTyped
  BY DEF FlatInv
<1>3. /\ W \in Nat \ {0} /\ W' = W /\ valueSize \in 0 .. W /\ packed \in Nat
      /\ Len(values) \in Nat
  BY <1>1, <1>2, WordSize, LenProperties DEF FlatTyped, W
<1> DEFINE pos == packed * valueSize
           n == NumUnits(values, unitsPer64)
<1>4. pos \in Nat /\ (packed + 1) * valueSize = pos + valueSize
  BY <1>3
<1>5. DOMAIN words = 1 .. n /\ DOMAIN words' = 1 .. n
  BY <1>1, <1>2 DEF FlatTyped, PutAcross
<1>6. FlatTyped'
  BY <1>1, <1>2, <1>3, <1>5 DEF FlatTyped
<1>7. n \in Nat
  BY <1>2, NumUnitsFit DEF FlatTyped
<1> HIDE DEF pos, n
<1>8. ASSUME NEW q \in Nat, q \div W + 1 \in 1 .. n
      PROVE  Flat(words', W, q) = IF q \in pos .. pos + valueSize - 1
                                  THEN BitOf(values[packed + 1], q - pos) ELSE Flat(words, W, q)
  <2>1. Flat(PutAcross(words, pos, values[packed + 1]), W, q) =
          IF q \in pos .. pos + valueSize - 1
          THEN BitOf(values[packed + 1], q - pos) ELSE Flat(words, W, q)
    <3>1. /\ W \in Nat \ {0} /\ valueSize \in 0 .. W /\ n \in Nat /\ DOMAIN words = 1 .. n
          /\ pos \in Nat /\ q \in Nat /\ q \div W + 1 \in 1 .. n
      BY <1>3, <1>4, <1>5, <1>7, <1>8
    <3>2. PICK v : v = values[packed + 1]
      OBVIOUS
    <3>3. Flat(PutAcross(words, pos, v), W, q) =
            IF q \in pos .. pos + valueSize - 1 THEN BitOf(v, q - pos) ELSE Flat(words, W, q)
      BY <3>1, PutAcrossBit
    <3> QED BY <3>2, <3>3
  <2> QED BY <1>1, <2>1 DEF pos
<1>9. ValuesSet'
  <2> SUFFICES ASSUME NEW i \in Nat, NEW j \in 0 .. valueSize - 1, i < packed + 1
               PROVE  Flat(words', W, i * valueSize + j) = BitOf(values[i + 1], j)
    BY <1>1, <1>3 DEF ValuesSet
  <2> DEFINE q == i * valueSize + j
  <2>1. q \in Nat /\ q < valueSize * Len(values) /\ (i < packed => q < pos)
        /\ (i = packed => q \in pos .. pos + valueSize - 1 /\ q - pos = j)
    <3>1. valueSize * Len(values) >= valueSize * (packed + 1) /\ valueSize * (packed + 1) >= valueSize * (i + 1)
      BY <1>1, <1>3
    <3>2. i < packed => valueSize * (i + 1) <= packed * valueSize
      BY <1>3
    <3>3. valueSize * (i + 1) = i * valueSize + valueSize /\ i * valueSize \in Nat
      BY <1>3
    <3>4. valueSize * Len(values) \in Nat /\ valueSize * (packed + 1) \in Nat /\ pos \in Nat
      BY <1>3, <1>4
    <3> QED BY <1>3, <3>1, <3>2, <3>3, <3>4 DEF pos
  <2> HIDE DEF q
  <2>2. q \div W + 1 \in 1 .. n
    BY <1>2, <1>5, <2>1, ValueHasUnit
  <2>3. CASE i = packed
    BY <1>8, <2>1, <2>2, <2>3 DEF q
  <2>4. CASE i < packed
    <3>1. Flat(words, W, q) = BitOf(values[i + 1], j)
      BY <2>4 DEF FlatInv, ValuesSet, q
    <3>2. Flat(words', W, q) = Flat(words, W, q)
      BY <1>4, <1>8, <2>1, <2>2, <2>4
    <3> QED BY <3>1, <3>2 DEF q
  <2> QED BY <1>3, <2>3, <2>4
<1>10. BitsSet'
  <2> SUFFICES ASSUME NEW q \in Nat, q \div W + 1 \in 1 .. n,
                      q < (packed + 1) * valueSize \/ q \div W + 1 = n
               PROVE  Flat(words', W, q) \in {0, 1}
    BY <1>1, <1>3, <1>5 DEF BitsSet, n
  <2>1. CASE q \in pos .. pos + valueSize - 1
    <3>1. Flat(words', W, q) = BitOf(values[packed + 1], q - pos)
      BY <1>8, <2>1
    <3>2. values[packed + 1] \in Nat /\ q - pos \in Nat
      <4>1. values \in Seq(Nat) /\ packed + 1 \in 1 .. Len(values)
        BY <1>1, <1>2, <1>3 DEF FlatTyped
      <4>2. q - pos \in Nat
        BY <1>3, <1>4, <2>1
      <4> QED BY <4>1, <4>2, ElementOfSeq
    <3> QED BY <3>1, <3>2, BitOfStep
  <2>2. CASE q \notin pos .. pos + valueSize - 1
    <3>1. Flat(words', W, q) = Flat(words, W, q)
      BY <1>8, <2>2
    <3>2. q < pos \/ q \div W + 1 = n
      BY <1>3, <1>4, <2>2
    <3> QED BY <1>5, <3>1, <3>2 DEF FlatInv, BitsSet, pos, n
  <2> QED BY <2>1, <2>2
<1> QED BY <1>6, <1>9, <1>10 DEF FlatInv

\* Every step of the vector.
LEMMA FlatStep == ASSUME FlatInv, NextFlat \/ UNCHANGED flatVars PROVE FlatInv'
<1>1. CASE SetValue
  BY <1>1, SetValueInv
<1>2. CASE FinishFlat \/ UNCHANGED flatVars
  <2>1. /\ UNCHANGED <<values, words, unitsPer64, valueSize, packed>>
        /\ flatStage' = flatStage \/ (flatStage = "set" /\ flatStage' = "packed" /\ packed = Len(values))
    BY <1>2 DEF FinishFlat, flatVars
  <2>2. W' = W
    BY <2>1 DEF W
  <2>3. FlatTyped' /\ ValuesSet' /\ BitsSet'
    BY <2>1, <2>2 DEF FlatInv, FlatTyped, ValuesSet, BitsSet
  <2> QED BY <2>3 DEF FlatInv
<1> QED BY <1>1, <1>2 DEF NextFlat

\* A value that was set is read back.
LEMMA ValuesRead == FlatInv => PackedValuesRead
<1> SUFFICES ASSUME FlatInv, NEW i \in 0 .. packed - 1, NEW j \in 0 .. valueSize - 1
             PROVE  ValueBit(i, j) = BitOf(values[i + 1], j)
  BY DEF PackedValuesRead
<1>1. W \in Nat \ {0} /\ valueSize \in 0 .. W /\ packed \in Nat
  BY WordSize, LenProperties DEF FlatInv, FlatTyped
<1>2. i \in Nat /\ i < packed
  BY <1>1
<1>3. ValueBit(i, j) = Flat(words, W, i * valueSize + j)
  BY <1>1, <1>2, ValueBitPlace
<1> QED BY <1>2, <1>3 DEF FlatInv, ValuesSet

\* The bits between the values and the end of the last unit are 0.
LEMMA NothingLeaks == FlatInv => NoMemoryLeaks
<1> SUFFICES ASSUME FlatInv, flatStage = "packed", unitsPer64 = 1,
                    NEW k \in DOMAIN words, NEW b \in 0 .. W - 1
             PROVE  words[k][b] \in {0, 1}
  BY DEF NoMemoryLeaks, Unset
<1> DEFINE n == NumUnits(values, unitsPer64)
           q == W * (k - 1) + b
<1>1. /\ W \in Nat \ {0} /\ W = WordBits[1] /\ packed = Len(values) /\ values \in Seq(Nat)
      /\ valueSize = ValueSize(values) /\ Len(values) \in Nat /\ valueSize \in Nat
  BY WordSize, LenProperties DEF FlatInv, FlatTyped, W
<1>2. n \in Nat /\ (n > 1 => W * (n - 1) < valueSize * Len(values)) /\ k \in 1 .. n
  BY <1>1, NumUnitsFit DEF FlatInv, FlatTyped
<1> HIDE DEF n
<1>3. q \in Nat
  <2>1. k - 1 \in Nat
    BY <1>2
  <2>2. W * (k - 1) \in Nat
    BY <1>1, <2>1
  <2> QED BY <1>1, <2>2
<1>4. q \div W = k - 1 /\ q % W = b
  <2>1. PICK w \in Nat \ {0} : w = W
    BY <1>1
  <2>2. k - 1 \in Int /\ b \in 0 .. w - 1
    BY <1>2, <2>1
  <2>3. (w * (k - 1) + b) \div w = k - 1 /\ (w * (k - 1) + b) % w = b
    BY <2>2, DivModOf
  <2> QED BY <2>1, <2>3
<1>5. Flat(words, W, q) = words[k][b] /\ q \div W + 1 = k
  BY <1>2, <1>4 DEF Flat
<1>6. k # n => q < packed * valueSize
  <2> SUFFICES ASSUME k # n PROVE q < packed * valueSize
    OBVIOUS
  <2>1. n > 1 /\ k <= n - 1
    BY <1>2
  <2>2. W * k <= W * (n - 1) /\ W * (k - 1) + W = W * k
    BY SMTT(30), <1>1, <1>2, <2>1
  <2>3. W * (n - 1) \in Int /\ W * k \in Int /\ W * (k - 1) \in Int
    BY SMTT(30), <1>1, <1>2
  <2>4. q < W * (n - 1)
    BY <1>1, <2>2, <2>3
  <2>5. packed * valueSize = valueSize * Len(values) /\ valueSize * Len(values) \in Int
    BY <1>1
  <2> HIDE DEF q
  <2> QED BY <1>2, <1>3, <2>1, <2>3, <2>4, <2>5
<1> HIDE DEF q
<1> QED BY <1>3, <1>5, <1>6 DEF FlatInv, BitsSet, n

---------------------------------------------------------------------------
(* RankIndex, and the level.                                               *)

\* The unit of a position, in so many groups of q units of u bits.
LEMMA UnitOfPosition ==
  ASSUME NEW u \in Nat \ {0}, NEW q \in {1, 2}, NEW m \in Nat, NEW i \in Nat, i < (q * u) * m
  PROVE  i \div u + 1 \in 1 .. q * m
<1>1. CASE q = 1
  BY <1>1
<1>2. CASE q = 2
  BY <1>2
<1> QED BY <1>1, <1>2

\* The place of a position in a unit.
LEMMA PositionInUnit ==
  ASSUME NEW u \in Nat \ {0}, NEW i \in Nat, NEW k \in Nat \ {0}, NEW b \in 0 .. u - 1
  PROVE  (k - 1) * u + b + 1 = i + 1 <=> k = i \div u + 1 /\ b = i % u
<1>1. u * (k - 1) + b = i => k - 1 = i \div u /\ b = i % u
  BY DivModOf
<1>2. i = u * (i \div u) + (i % u) /\ i \div u \in Nat /\ i % u \in Int
  BY DivModNat
<1>3. (k - 1) * u = u * (k - 1) /\ u * (k - 1) \in Int
  OBVIOUS
<1> QED BY <1>1, <1>2, <1>3

\* The block of a group that starts before s.
LEMMA BlockOfGroup ==
  ASSUME NEW G \in Nat \ {0}, NEW s \in Nat, NEW g \in Nat, g * G < s
  PROVE  g \div 8 + 1 <= s \div (8 * G) + (IF s % (8 * G) # 0 THEN 1 ELSE 0)
<1> DEFINE b == g \div 8
           B == 8 * G
           d == s \div B
           r == s % B
<1>1. b \in Nat /\ 8 * b <= g
  OBVIOUS
<1>2. B \in Nat \ {0} /\ d \in Nat /\ r \in 0 .. B - 1 /\ s = B * d + r
  <2>1. B \in Nat \ {0}
    OBVIOUS
  <2> HIDE DEF B
  <2> QED BY <2>1, DivModNat
<1>3. B * b < s
  <2>1. (8 * b) * G <= g * G
    BY <1>1
  <2>2. (8 * b) * G = B * b
    BY <1>1
  <2> QED BY <2>1, <2>2
<1> HIDE DEF b, B, d, r
<1>4. B * b < B * d + r
  BY <1>2, <1>3
<1>5. b <= d
  BY <1>1, <1>2, <1>4
<1>6. r = 0 => b < d
  BY <1>1, <1>2, <1>4
<1>7. b + 1 <= d + (IF r # 0 THEN 1 ELSE 0)
  BY <1>1, <1>2, <1>5, <1>6
<1> QED BY <1>7 DEF b, d, r, B

\* A group that is reached at unit u, or not.
LEMMA GroupAtUnit ==
  ASSUME NEW U \in Nat \ {0}, NEW Q \in {1, 2}, NEW u \in Nat
  PROVE  /\ (u * U) % (Q * U) = 0 <=> u % Q = 0
         /\ u % Q = 0 => /\ (u * U) \div (Q * U) = u \div Q /\ u \div Q \in Nat
                         /\ u = (u \div Q) * Q /\ u * U = (u \div Q) * (Q * U)
<1>1. CASE Q = 1
  BY <1>1
<1>2. CASE Q = 2
  <2>1. PICK h \in Nat : u = 2 * h \/ u = 2 * h + 1
    <3>1. u \div 2 \in Nat /\ u % 2 \in 0 .. 1 /\ u = 2 * (u \div 2) + (u % 2)
      BY DivModNat
    <3>2. u = 2 * (u \div 2) \/ u = 2 * (u \div 2) + 1
      BY <3>1
    <3> QED BY <3>1, <3>2
  <2>2. CASE u = 2 * h
    <3>1. u * U = (2 * U) * h + 0
      BY <2>2
    <3>2. (u * U) % (2 * U) = 0 /\ (u * U) \div (2 * U) = h
      BY <3>1
    <3>3. u % 2 = 0 /\ u \div 2 = h
      BY <2>2
    <3>4. u = h * 2 /\ u * U = h * (2 * U)
      BY <2>2
    <3> QED BY <1>2, <3>2, <3>3, <3>4
  <2>3. CASE u = 2 * h + 1
    <3>1. u * U = (2 * U) * h + U
      BY <2>3
    <3> QED BY <1>2, <2>3, <3>1
  <2> QED BY <2>1, <2>2, <2>3
<1> QED BY <1>1, <1>2

\* The groups of the last block that have bits.
LEMMA GroupInBlock ==
  ASSUME NEW G \in Nat \ {0}, NEW s \in Nat, NEW g \in Nat, g * G < s,
         g \div 8 = (s - 1) \div (8 * G)
  PROVE  g % 8 <= ((s - 1) \div G) % 8
<1> DEFINE e == (s - 1) \div G
<1>1. s - 1 \in Nat /\ g * G \in Nat /\ g * G <= s - 1
  OBVIOUS
<1>2. PICK t \in Nat : t = s - 1
  BY <1>1
<1>3. t \div G \in Nat /\ t = G * (t \div G) + (t % G) /\ t % G \in 0 .. G - 1
  BY DivModNat
<1>4. (t \div G) \div 8 = t \div (8 * G)
  OBVIOUS
<1>5. e \in Nat /\ g <= e /\ e \div 8 = g \div 8
  BY <1>1, <1>2, <1>3, <1>4
<1> HIDE DEF e
<1>6. g % 8 <= e % 8
  BY <1>5
<1> QED BY <1>6 DEF e

\* A sequence that is extended by equal elements.
LEMMA Extended ==
  ASSUME NEW S, NEW s \in Seq(S), NEW e, NEW new \in Seq(S), \A i \in 1 .. Len(new) : new[i] = e
  PROVE  /\ s \o new \in Seq(S) /\ Len(s \o new) = Len(s) + Len(new)
         /\ \A i \in 1 .. Len(s) : (s \o new)[i] = s[i]
         /\ \A i \in Len(s) + 1 .. Len(s) + Len(new) : (s \o new)[i] = e
<1> DEFINE t == s \o new
<1>1. /\ t \in Seq(S) /\ Len(t) = Len(s) + Len(new)
      /\ \A i \in 1 .. Len(s) + Len(new) : t[i] = IF i <= Len(s) THEN s[i] ELSE new[i - Len(s)]
  BY ConcatProperties
<1> HIDE DEF t
<1>2. \A i \in 1 .. Len(s) : t[i] = s[i]
  BY <1>1
<1>3. \A i \in Len(s) + 1 .. Len(s) + Len(new) : t[i] = e
  <2> TAKE i \in Len(s) + 1 .. Len(s) + Len(new)
  <2>1. i - Len(s) \in 1 .. Len(new) /\ i \in 1 .. Len(s) + Len(new) /\ ~(i <= Len(s))
    OBVIOUS
  <2> QED BY <1>1, <2>1
<1> QED BY <1>1, <1>2, <1>3 DEF t

---------------------------------------------------------------------------
\* The ones that are in the vector, their number up to a position, and what
\* the counts of the blocks and groups must be.
OneSet == {p \in 1 .. size : source.bits[p]}
OnesTo(i) == Cardinality(Before(OneSet, i))

Counted(rank, b, g) ==
  /\ rank.abs = OnesTo(b * BlockBits)
  /\ Rel(rank, g % 8) = OnesTo(g * GroupBits) - OnesTo(b * BlockBits)

GroupCounted(table, g) == Counted(table[g \div 8 + 1], g \div 8, g)

SourceOK == source \in BitInputs /\ stage \in {"push", "index", "built"}

NumGroups == Len(units) \div UnitsPerGroup

\* What push_back keeps: units come in whole groups, no more than the bits
\* need, and hold the bits.
UnitsOK ==
  /\ size \in 0 .. Len(source.bits)
  /\ stage # "push" => size = Len(source.bits)
  /\ units \in Seq(SUBSET (0 .. UnitBits - 1))
  /\ Len(units) = UnitsPerGroup * NumGroups
  /\ size <= GroupBits * NumGroups /\ GroupBits * NumGroups < size + GroupBits
  /\ \A u \in 1 .. Len(units) : units[u] = Following(OneSet, (u - 1) * UnitBits, UnitBits)

RankRecords == [abs : Int, rel : [1 .. GroupsPerBlock - 1 -> Int]]

NumBlocks == size \div BlockBits + (IF size % BlockBits # 0 THEN 1 ELSE 0)

\* What the loop of build_index keeps.
CountsOK ==
  /\ num1s = OnesTo(size)
  /\ unitId \in 0 .. Len(units)
  /\ stage = "push" => unitId = 0
  /\ onesSoFar = OnesTo(unitId * UnitBits)
  /\ stage # "push" => ranks \in Seq(RankRecords) /\ Len(ranks) = NumBlocks + 1
  /\ stage = "index" => \A g \in Nat : g * UnitsPerGroup < unitId => GroupCounted(ranks, g)
  /\ stage = "built" => \A g \in Nat : g * GroupBits < size => GroupCounted(ranks, g)

BitsInv == SourceOK /\ UnitsOK /\ CountsOK

\* How the widths of units, groups and blocks relate.
LEMMA Widths ==
  ASSUME SourceOK
  PROVE  /\ source.bits \in Seq(BOOLEAN) /\ UnitsPerGroup \in {1, 2}
         /\ UnitBits \in Nat \ {0} /\ GroupBits \in Nat \ {0}
         /\ GroupBits = UnitsPerGroup * UnitBits
         /\ BlockBits = 8 * GroupBits /\ BlockBits \in Nat \ {0}
<1>1. source.bits \in Seq(BOOLEAN) /\ UnitsPerGroup \in {1, 2} /\ GroupBits % UnitsPerGroup = 0
  BY BitInputsAssumption DEF SourceOK, UnitsPerGroup
<1>2. GroupBits \in Nat \ {0}
  BY GroupBitsAssumption
<1>3. GroupBits = UnitsPerGroup * UnitBits /\ UnitBits \in Nat
  BY <1>1, <1>2, DivMod DEF UnitBits
<1>4. UnitBits # 0
  BY <1>1, <1>2, <1>3
<1> QED BY <1>1, <1>2, <1>3, <1>4 DEF BlockBits, GroupsPerBlock

\* The ones can be counted.
LEMMA OneSetFinite ==
  ASSUME size \in Nat
  PROVE  IsFiniteSet(OneSet) /\ OneSet \subseteq Int
<1>1. IsFiniteSet(1 .. size)
  BY FS_Interval
<1>2. OneSet \subseteq 1 .. size
  BY DEF OneSet
<1>3. IsFiniteSet(OneSet)
  BY <1>1, <1>2, FS_Subset
<1> QED BY <1>2, <1>3

\* From one position to a later one.
LEMMA OnesToNext ==
  ASSUME size \in Nat, NEW n \in Int, NEW r \in Nat
  PROVE  /\ OnesTo(n) \in Nat
         /\ OnesTo(n + r) = OnesTo(n) + Cardinality(Following(OneSet, n, r))
         /\ Cardinality(Following(OneSet, n, r)) \in 0 .. r
BY OneSetFinite, CountSplit, CountBounds DEF OnesTo

\* A range has no more ones than positions.
LEMMA OnesToDiff ==
  ASSUME size \in Nat, NEW m \in Int, NEW n \in Int, m <= n
  PROVE  OnesTo(n) \in Nat /\ OnesTo(n) - OnesTo(m) \in 0 .. n - m
<1>1. PICK r \in Nat : n = m + r
  <2>1. n - m \in Nat /\ n = m + (n - m)
    OBVIOUS
  <2> QED BY <2>1
<1>2. PICK c \in 0 .. r : OnesTo(m) \in Nat /\ OnesTo(m + r) = OnesTo(m) + c
  BY OnesToNext
<1> QED BY <1>1, <1>2

\* Beyond the bits there are no ones.
LEMMA OnesToEnd ==
  ASSUME size \in Nat, NEW n \in Int, size <= n
  PROVE  OnesTo(n) = OnesTo(size)
<1>1. Before(OneSet, n) = Before(OneSet, size)
  BY DEF Before, OneSet
<1> QED BY <1>1 DEF OnesTo

\* No bit is pushed at first.
LEMMA InitBitsInv == InitBits => BitsInv
<1> SUFFICES ASSUME InitBits PROVE BitsInv
  OBVIOUS
<1>1. SourceOK
  BY DEF InitBits, SourceOK
<1>2. size = 0 /\ units = <<>> /\ NumGroups = 0
  BY <1>1, Widths DEF InitBits, NumGroups
<1>3. UnitsOK
  BY <1>1, <1>2, Widths DEF InitBits, UnitsOK
<1>4. OnesTo(0) = 0
  <2>1. Before(OneSet, 0) = {}
    BY <1>2 DEF Before, OneSet
  <2> QED BY <2>1, FS_EmptySet DEF OnesTo
<1>5. CountsOK
  BY <1>1, <1>2, <1>4, Widths DEF InitBits, CountsOK
<1> QED BY <1>1, <1>3, <1>5 DEF BitsInv

\* Pushing a bit.
LEMMA PushUnits ==
  ASSUME BitsInv, PushBack
  PROVE  UnitsOK' /\ SourceOK' /\ num1s' = OnesTo(size)'
<1>1. SourceOK
  BY DEF BitsInv
<1>2. SourceOK' /\ UnitsPerGroup' = UnitsPerGroup /\ UnitBits' = UnitBits
      /\ stage' = "push" /\ source' = source /\ size' = size + 1
      /\ stage = "push" /\ size < Len(source.bits)
  BY <1>1 DEF PushBack, SourceOK, UnitsPerGroup, UnitBits
<1> DEFINE U == UnitBits
           Q == UnitsPerGroup
           n == NumGroups
           bit == At(source.bits, size)
           grown == IF size = U * Len(units) THEN units \o [i \in 1 .. Q |-> {}] ELSE units
<1>3. /\ U \in Nat \ {0} /\ Q \in {1, 2} /\ GroupBits = Q * U /\ GroupBits \in Nat \ {0}
      /\ source.bits \in Seq(BOOLEAN)
  BY <1>1, Widths
<1>4. /\ size \in Nat /\ units \in Seq(SUBSET (0 .. U - 1)) /\ Len(units) = Q * n
      /\ size <= GroupBits * n /\ GroupBits * n < size + GroupBits
      /\ \A u \in 1 .. Len(units) : units[u] = Following(OneSet, (u - 1) * U, U)
  BY DEF BitsInv, UnitsOK
<1>5. Len(units) \in Nat /\ n \in Nat
  BY <1>3, <1>4, DivMod DEF NumGroups
<1> HIDE DEF U, Q, n
<1>6. size <= U * Len(units) /\ (size = U * Len(units) <=> size = GroupBits * n)
  BY <1>3, <1>4, <1>5
\* After the units have grown, the bit has a place in one.
<1>7. PICK m \in Nat :
        /\ grown \in Seq(SUBSET (0 .. U - 1)) /\ Len(grown) = Q * m
        /\ size < GroupBits * m /\ GroupBits * m <= size + GroupBits
        /\ \A u \in 1 .. Len(grown) : grown[u] = Following(OneSet, (u - 1) * U, U)
  <2>1. CASE size = U * Len(units)
    <3>1. grown = units \o [i \in 1 .. Q |-> {}]
      BY <2>1
    <3>2. {} \in SUBSET (0 .. U - 1) /\ Q \in Nat
      BY <1>3
    <3>3. /\ grown \in Seq(SUBSET (0 .. U - 1)) /\ Len(grown) = Len(units) + Q
          /\ \A u \in 1 .. Len(units) : grown[u] = units[u]
          /\ \A u \in Len(units) + 1 .. Len(units) + Q : grown[u] = {}
      <4> DEFINE new == [i \in 1 .. Q |-> {}]
                 t == units \o new
      <4>0. /\ new \in Seq(SUBSET (0 .. U - 1)) /\ Len(new) = Q
            /\ \A i \in 1 .. Len(new) : new[i] = {}
        BY <3>2
      <4> HIDE DEF new
      <4>1. /\ t \in Seq(SUBSET (0 .. U - 1)) /\ Len(t) = Len(units) + Q
            /\ \A u \in 1 .. Len(units) : t[u] = units[u]
            /\ \A u \in Len(units) + 1 .. Len(units) + Q : t[u] = {}
        BY <4>0, <1>4, Extended
      <4>2. grown = t
        BY <3>1 DEF new
      <4> HIDE DEF t, grown
      <4> QED BY <4>1, <4>2
    <3>4. Len(grown) = Q * (n + 1)
      BY <3>2, <3>3, <1>4, <1>5
    <3>5. size < GroupBits * (n + 1) /\ GroupBits * (n + 1) <= size + GroupBits
      BY <2>1, <1>3, <1>5, <1>6
    <3>6. ASSUME NEW u \in 1 .. Len(grown)
          PROVE  grown[u] = Following(OneSet, (u - 1) * U, U)
      <4>1. CASE u <= Len(units)
        BY <4>1, <3>3, <1>3, <1>4, <1>5
      <4>2. CASE u > Len(units)
        <5>1. grown[u] = {}
          BY <4>2, <3>3, <1>3, <1>5
        <5>2. (u - 1) * U >= size
          BY <4>2, <2>1, <1>3, <1>5
        <5>3. Following(OneSet, (u - 1) * U, U) = {}
          BY <5>2, <1>3, <1>4, <1>5 DEF Following, OneSet
        <5> QED BY <5>1, <5>3
      <4> QED BY <4>1, <4>2, <3>3, <1>3, <1>5
    <3>7. n + 1 \in Nat
      BY <1>5
    <3> QED BY <3>3, <3>4, <3>5, <3>6, <3>7
  <2>2. CASE size # U * Len(units)
    <3>1. grown = units
      BY <2>2
    <3> HIDE DEF grown
    <3>2. size < GroupBits * n
      <4>1. GroupBits * n \in Int
        BY <1>3, <1>5
      <4> QED BY <2>2, <1>6, <1>4, <4>1
    <3>3. GroupBits * n <= size + GroupBits
      BY <1>3, <1>4, <1>5
    <3> QED BY <3>1, <3>2, <3>3, <1>4, <1>5
  <2> QED BY <2>1, <2>2
<1>8. units' = IF bit THEN [grown EXCEPT ![size \div U + 1] = @ \cup {size % U}] ELSE grown
  BY DEF PushBack, U, Q
<1> HIDE DEF grown
<1>9. /\ size \div U \in Nat /\ size % U \in 0 .. U - 1
      /\ size = U * (size \div U) + (size % U)
  BY <1>3, <1>4, DivModNat
<1>10. size \div U + 1 \in 1 .. Len(grown)
  BY <1>3, <1>4, <1>7, UnitOfPosition
<1>11. units' \in Seq(SUBSET (0 .. U - 1)) /\ Len(units') = Q * m
  <2>1. grown[size \div U + 1] \cup {size % U} \in SUBSET (0 .. U - 1)
    BY <1>7, <1>9, <1>10
  <2> DEFINE set == [grown EXCEPT ![size \div U + 1] = grown[size \div U + 1] \cup {size % U}]
  <2>2. set \in Seq(SUBSET (0 .. U - 1)) /\ Len(set) = Len(grown)
    BY <1>7, <1>10, <2>1, ExceptSeq
  <2>3. units' = IF bit THEN set ELSE grown
    BY <1>8
  <2> HIDE DEF set, bit
  <2> QED BY <1>7, <2>2, <2>3
<1>12. NumGroups' = m
  BY <1>2, <1>3, <1>11, DivModOf DEF NumGroups, Q
<1>13. OneSet' = OneSet \cup (IF bit THEN {size + 1} ELSE {})
  <2>1. \A p : p \in 1 .. size + 1 <=> p \in 1 .. size \/ p = size + 1
    BY <1>4
  <2>2. bit <=> source.bits[size + 1]
    BY DEF At
  <2>3. \A p : p \in OneSet' <=> p \in 1 .. size + 1 /\ source.bits[p]
    BY <1>2 DEF OneSet
  <2>4. \A p : p \in OneSet <=> p \in 1 .. size /\ source.bits[p]
    BY DEF OneSet
  <2> HIDE DEF bit
  <2>5. \A p : p \in OneSet' <=> p \in OneSet \cup (IF bit THEN {size + 1} ELSE {})
    BY <2>1, <2>2, <2>3, <2>4
  <2> QED BY <2>5
<1> HIDE DEF bit
<1>14. ASSUME NEW u \in 1 .. Len(grown)
       PROVE  units'[u] = Following(OneSet', (u - 1) * U, U)
  <2>1. grown[u] = Following(OneSet, (u - 1) * U, U)
    BY <1>7
  <2>2. ASSUME NEW b \in 0 .. U - 1
        PROVE  (u - 1) * U + b + 1 = size + 1 <=> u = size \div U + 1 /\ b = size % U
    <3>1. u \in Nat \ {0}
      BY <1>7
    <3> QED BY <3>1, <1>3, <1>4, PositionInUnit
  <2>3. Following(OneSet', (u - 1) * U, U) =
        Following(OneSet, (u - 1) * U, U) \cup
          (IF bit /\ u = size \div U + 1 THEN {size % U} ELSE {})
    BY <1>9, <1>13, <2>2 DEF Following
  <2>4. units'[u] = grown[u] \cup (IF bit /\ u = size \div U + 1 THEN {size % U} ELSE {})
    BY <1>7, <1>8
  <2> QED BY <2>1, <2>3, <2>4
<1>15. num1s' = OnesTo(size)'
  <2>1. num1s = OnesTo(size) /\ num1s' = num1s + IF bit THEN 1 ELSE 0
    BY DEF BitsInv, CountsOK, PushBack, bit
  <2>2. IsFiniteSet(OneSet) /\ size + 1 \notin OneSet /\ Cardinality(OneSet) \in Nat
    BY <1>4, OneSetFinite, FS_CardinalityType DEF OneSet
  <2>3. Before(OneSet, size) = OneSet /\ Before(OneSet', size + 1) = OneSet'
    BY <1>2, <1>4 DEF Before, OneSet
  <2>4. Cardinality(OneSet') = Cardinality(OneSet) + IF bit THEN 1 ELSE 0
    BY SMTT(30), <1>13, <2>2, FS_AddElement
  <2> QED BY <1>2, <2>1, <2>3, <2>4 DEF OnesTo
<1>16. UnitsOK'
  <2>1. size' \in 0 .. Len(source'.bits)
    BY <1>2, <1>3, <1>4
  <2>2. Len(units') = Len(grown)
    BY <1>7, <1>11
  <2>3. /\ size' <= GroupBits * m /\ GroupBits * m < size' + GroupBits
    BY <1>2, <1>3, <1>4, <1>7
  <2>4. UnitBits' = U /\ UnitsPerGroup' = Q
    BY <1>2 DEF U, Q
  <2> QED BY <1>2, <1>11, <1>12, <1>14, <2>1, <2>2, <2>3, <2>4 DEF UnitsOK
<1> QED BY <1>2, <1>15, <1>16

\* Nothing comes before the first position.
LEMMA OnesToZero == ASSUME size \in Nat PROVE OnesTo(0) = 0
<1>1. Before(OneSet, 0) = {}
  BY DEF Before, OneSet
<1> QED BY <1>1, FS_EmptySet DEF OnesTo

\* push_back keeps the units and their number of ones.
LEMMA PushBackInv == ASSUME BitsInv, PushBack PROVE BitsInv'
<1>1. UnitsOK' /\ SourceOK' /\ num1s' = OnesTo(size)'
  BY PushUnits
<1>2. size \in Nat /\ size' \in Nat /\ unitId' = 0 /\ onesSoFar' = 0
  <2>1. size \in Nat /\ size' = size + 1 /\ unitId' = unitId /\ onesSoFar' = onesSoFar /\ unitId = 0
    BY DEF BitsInv, UnitsOK, CountsOK, PushBack
  <2>2. UnitBits \in Nat
    BY Widths DEF BitsInv
  <2>3. 0 * UnitBits = 0
    BY <2>2
  <2> QED BY <2>1, <2>3, OnesToZero DEF BitsInv, CountsOK
<1>3. OnesTo(0)' = 0
  <2>1. Before(OneSet', 0) = {}
    BY <1>2 DEF Before, OneSet
  <2> QED BY <2>1, FS_EmptySet DEF OnesTo
<1>4. (unitId * UnitBits)' = 0
  <2>1. UnitBits' = UnitBits /\ UnitBits \in Nat
    BY Widths DEF PushBack, BitsInv, UnitBits, UnitsPerGroup
  <2> QED BY <1>2, <2>1
<1>5. stage' = "push" /\ Len(units') \in Nat
  <2>1. stage' = "push"
    BY DEF PushBack
  <2>2. units' \in Seq(SUBSET (0 .. UnitBits' - 1))
    BY <1>1 DEF UnitsOK
  <2> QED BY <2>1, <2>2, LenProperties
<1>6. CountsOK'
  BY <1>1, <1>2, <1>3, <1>4, <1>5 DEF CountsOK, OnesTo
<1> QED BY <1>1, <1>6 DEF BitsInv

\* What a step of build_index leaves alone.
LEMMA SameBits ==
  ASSUME BitsInv, UNCHANGED <<source, units, size>>, stage' \in {"push", "index", "built"},
         stage' # "push" => size = Len(source.bits)
  PROVE  /\ SourceOK' /\ UnitsOK'
         /\ OneSet' = OneSet /\ UnitBits' = UnitBits /\ UnitsPerGroup' = UnitsPerGroup
         /\ NumBlocks' = NumBlocks
BY DEF BitsInv, SourceOK, UnitsOK, OneSet, UnitBits, UnitsPerGroup, NumGroups, NumBlocks

\* build_index starts from a table of empty ranks.
LEMMA BeginIndexInv == ASSUME BitsInv, BeginIndex PROVE BitsInv'
<1>1. /\ UNCHANGED <<source, units, size, num1s, unitId, onesSoFar>>
      /\ stage = "push" /\ stage' = "index" /\ size = Len(source.bits)
  BY DEF BeginIndex
<1>2. /\ SourceOK' /\ UnitsOK' /\ OneSet' = OneSet /\ UnitBits' = UnitBits
      /\ UnitsPerGroup' = UnitsPerGroup /\ NumBlocks' = NumBlocks
  BY <1>1, SameBits
<1>3. NumBlocks \in Nat
  <2>1. size \in Nat /\ BlockBits \in Nat \ {0}
    BY Widths DEF BitsInv, UnitsOK
  <2>2. size \div BlockBits \in Nat
    BY <2>1, DivModNat
  <2> QED BY <2>2 DEF NumBlocks
<1>4. ranks' \in Seq(RankRecords) /\ Len(ranks') = NumBlocks + 1
  <2>1. NewRank \in RankRecords
    BY DEF NewRank, RankRecords
  <2>2. ranks' = [b \in 1 .. NumBlocks + 1 |-> NewRank]
    BY DEF BeginIndex, NumBlocks
  <2> QED BY <1>3, <2>1, <2>2
<1>5. \A g \in Nat : ~(g * UnitsPerGroup < 0)
  BY Widths DEF BitsInv
<1>6. unitId = 0
  BY <1>1 DEF BitsInv, CountsOK
<1>7. CountsOK'
  BY <1>1, <1>2, <1>4, <1>5, <1>6 DEF BitsInv, CountsOK, OnesTo
<1> QED BY <1>2, <1>7 DEF BitsInv

\* Counting a group leaves the counts of the ones before it.
LEMMA CountsGroup ==
  ASSUME SourceOK, size \in Nat, ranks \in Seq(RankRecords), NEW g \in Nat,
         g \div 8 + 1 \in 1 .. Len(ranks), onesSoFar = OnesTo(g * GroupBits),
         \A h \in Nat : h < g => GroupCounted(ranks, h)
  PROVE  /\ RanksAtGroup(g) \in Seq(RankRecords) /\ Len(RanksAtGroup(g)) = Len(ranks)
         /\ \A h \in Nat : h <= g => GroupCounted(RanksAtGroup(g), h)
<1> DEFINE b == g \div 8
           k == g % 8
           rank == ranks[b + 1]
           marked == IF k = 0 THEN [rank EXCEPT !.abs = onesSoFar]
                     ELSE SetRel(rank, k, onesSoFar - rank.abs)
           new == RanksAtGroup(g)
<1>1. b \in Nat /\ k \in 0 .. 7 /\ g = 8 * b + k
  OBVIOUS
<1>2. GroupBits \in Nat \ {0} /\ BlockBits = 8 * GroupBits
  BY Widths
<1>3. rank \in RankRecords /\ onesSoFar \in Int
  <2>1. rank \in RankRecords
    BY ElementOfSeq
  <2>2. g * GroupBits \in Int
    BY <1>2
  <2> QED BY <2>1, <2>2, OnesToNext
<1>4. new = [ranks EXCEPT ![b + 1] = marked]
  BY DEF RanksAtGroup, GroupsPerBlock
<1> HIDE DEF b, k, rank, new
<1>5. k # 0 => rank.abs = OnesTo(b * BlockBits)
  <2> SUFFICES ASSUME k # 0 PROVE rank.abs = OnesTo(b * BlockBits)
    OBVIOUS
  <2>1. 8 * b \in Nat /\ 8 * b < g /\ (8 * b) \div 8 = b
    BY <1>1
  <2> QED BY <2>1 DEF GroupCounted, Counted, rank
<1>6. marked \in RankRecords /\ Counted(marked, b, g)
  <2>1. CASE k = 0
    <3>1. g * GroupBits = b * BlockBits
      BY <2>1, <1>1, <1>2
    <3>2. OnesTo(g * GroupBits) - OnesTo(b * BlockBits) = 0
      BY <3>1, <1>3
    <3> QED BY <2>1, <3>1, <3>2, <1>1, <1>3 DEF RankRecords, Counted, Rel, k
  <2>2. CASE k # 0
    <3> DEFINE v == onesSoFar - rank.abs
    <3>1. v \in 0 .. k * GroupBits
      <4>1. g * GroupBits \in Int /\ b * BlockBits \in Int /\ b * BlockBits <= g * GroupBits
            /\ g * GroupBits - b * BlockBits = k * GroupBits
        BY <1>1, <1>2
      <4>2. OnesTo(g * GroupBits) - OnesTo(b * BlockBits) \in 0 .. k * GroupBits
        BY <4>1, OnesToDiff
      <4> QED BY <4>2, <2>2, <1>5
    <3>2. RelModulus(k) \in Nat \ {0} /\ k * GroupBits < RelModulus(k)
      <4>1. CASE k = 1
        BY <4>1, <1>2 DEF RelModulus
      <4>2. CASE k \in {2, 3}
        BY <4>2, <1>2 DEF RelModulus
      <4>3. CASE k \in {4, 5, 6, 7}
        BY SMTT(30), <4>3, <1>2 DEF RelModulus
      <4> QED BY <4>1, <4>2, <4>3, <2>2, <1>1
    <3> HIDE DEF v
    <3>3. v \in Nat /\ v % RelModulus(k) = v
      <4>1. v \in 0 .. RelModulus(k) - 1
        BY <3>1, <3>2, <1>1, <1>2
      <4>2. RelModulus(k) * 0 + v = v /\ 0 \in Int
        BY <3>2, <4>1
      <4> QED BY <3>2, <4>1, <4>2, DivModOf
    <3>4. marked = [rank EXCEPT !.rel[k] = v]
      BY <2>2, <3>3 DEF SetRel, v
    <3>5. /\ marked \in RankRecords /\ marked.abs = rank.abs /\ marked.rel[k] = v
      <4>1. PICK a \in Int, r \in [1 .. 7 -> Int] : rank = [abs |-> a, rel |-> r]
        BY <1>3 DEF RankRecords, GroupsPerBlock
      <4>2. marked = [abs |-> a, rel |-> [r EXCEPT ![k] = v]]
        BY <3>4, <4>1
      <4>3. [r EXCEPT ![k] = v] \in [1 .. 7 -> Int] /\ [r EXCEPT ![k] = v][k] = v
        BY SMTT(30), <3>3, <2>2, <1>1
      <4> HIDE DEF marked
      <4> QED BY <4>1, <4>2, <4>3 DEF RankRecords, GroupsPerBlock
    <3> HIDE DEF marked
    <3> QED BY <3>5, <2>2, <1>5 DEF Counted, Rel, v, k
  <2> QED BY <2>1, <2>2
<1>7. ASSUME NEW h \in Nat, h < g, h \div 8 = b
      PROVE  k # 0 /\ marked.abs = rank.abs /\ Rel(marked, h % 8) = Rel(rank, h % 8)
  <2>1. k # 0 /\ h % 8 # k /\ h % 8 \in 0 .. 7
    BY <1>1, <1>7
  <2>2. PICK v : marked = [rank EXCEPT !.rel[k] = v]
    BY <2>1 DEF SetRel
  <2> HIDE DEF marked
  <2> QED BY <2>1, <2>2, <1>1, <1>3 DEF RankRecords, GroupsPerBlock, Rel
<1>8. /\ new \in Seq(RankRecords) /\ Len(new) = Len(ranks)
      /\ \A i \in 1 .. Len(ranks) : new[i] = IF i = b + 1 THEN marked ELSE ranks[i]
  <2> HIDE DEF marked
  <2>1. b + 1 \in 1 .. Len(ranks)
    BY DEF b
  <2> QED BY <1>4, <1>6, <2>1, ExceptSeq
<1>9. ASSUME NEW h \in Nat, h <= g
      PROVE  GroupCounted(new, h)
  <2> HIDE DEF marked
  <2>1. CASE h = g
    <3>1. b + 1 \in 1 .. Len(ranks)
      BY DEF b
    <3>2. new[b + 1] = marked
      BY <3>1, <1>8
    <3> QED BY <2>1, <3>2, <1>6 DEF GroupCounted, b
  <2>2. CASE h < g /\ h \div 8 = b
    <3>1. b + 1 \in 1 .. Len(ranks)
      BY DEF b
    <3>2. new[b + 1] = marked
      BY <3>1, <1>8
    <3>3. Counted(rank, b, h)
      BY <2>2 DEF GroupCounted, rank
    <3>4. Counted(marked, b, h)
      BY <3>3, <2>2, <1>7 DEF Counted
    <3> QED BY <3>2, <3>4, <2>2 DEF GroupCounted
  <2>3. CASE h < g /\ h \div 8 # b
    <3>1. h \div 8 + 1 \in 1 .. Len(ranks) /\ h \div 8 + 1 # b + 1
      BY <2>3 DEF b
    <3>2. new[h \div 8 + 1] = ranks[h \div 8 + 1]
      BY <3>1, <1>8
    <3> QED BY <2>3, <3>2 DEF GroupCounted
  <2> QED BY <1>9, <2>1, <2>2, <2>3
<1> QED BY <1>8, <1>9 DEF new

\* The groups there are begin before the end of the bits.
LEMMA GroupsBegin ==
  ASSUME SourceOK, UnitsOK, NEW g \in Nat
  PROVE  /\ NumGroups \in Nat
         /\ g * UnitsPerGroup < Len(units) <=> g < NumGroups
         /\ g < NumGroups <=> g * GroupBits < size
<1> DEFINE Q == UnitsPerGroup
           n == NumGroups
<1>1. /\ UnitBits \in Nat \ {0} /\ Q \in {1, 2} /\ GroupBits \in Nat \ {0} /\ size \in Nat
      /\ Len(units) \in Nat /\ Len(units) = Q * n
      /\ size <= GroupBits * n /\ GroupBits * n < size + GroupBits
  <2>1. units \in Seq(SUBSET (0 .. UnitBits - 1))
    BY DEF UnitsOK
  <2>2. Len(units) \in Nat
    BY <2>1, LenProperties
  <2> QED BY <2>2, Widths DEF UnitsOK
<1>2. n \in Nat
  BY <1>1, DivModNat DEF NumGroups
<1> HIDE DEF Q, n
<1>3. g * Q < Q * n <=> g < n
  BY <1>1, <1>2
<1>4. g < n => g * GroupBits < size
  <2> SUFFICES ASSUME g < n PROVE g * GroupBits < size
    OBVIOUS
  <2>1. (g + 1) * GroupBits <= GroupBits * n
    BY <1>1, <1>2
  <2>2. (g + 1) * GroupBits = g * GroupBits + GroupBits
    BY <1>1
  <2>3. g * GroupBits \in Int /\ GroupBits * n \in Int
    BY <1>1, <1>2
  <2> QED BY <2>1, <2>2, <2>3, <1>1
<1>5. ~(g < n) => ~(g * GroupBits < size)
  <2> SUFFICES ASSUME g >= n PROVE ~(g * GroupBits < size)
    BY <1>2
  <2>1. g * GroupBits >= GroupBits * n
    BY <1>1, <1>2
  <2>2. g * GroupBits \in Int /\ GroupBits * n \in Int
    BY <1>1, <1>2
  <2> QED BY <2>1, <2>2, <1>1
<1> QED BY <1>1, <1>2, <1>3, <1>4, <1>5 DEF Q, n

\* A unit that begins a group has its count stored.
LEMMA IndexUnitInv == ASSUME BitsInv, IndexUnit PROVE BitsInv'
<1> DEFINE U == UnitBits
           Q == UnitsPerGroup
           u == unitId
           ones == Popcount(At(units, u))
<1>1. /\ UNCHANGED <<source, stage, units, size, num1s>>
      /\ stage = "index" /\ u < Len(units) /\ unitId' = u + 1
      /\ onesSoFar' = onesSoFar + ones
      /\ ranks' = IF (u * U) % GroupBits = 0 THEN RanksAtGroup((u * U) \div GroupBits) ELSE ranks
  BY DEF IndexUnit
<1>2. /\ SourceOK' /\ UnitsOK' /\ OneSet' = OneSet /\ UnitBits' = U
      /\ UnitsPerGroup' = Q /\ NumBlocks' = NumBlocks
  BY <1>1, SameBits DEF BitsInv, SourceOK, UnitsOK
<1>3. /\ SourceOK /\ UnitsOK /\ size \in Nat
      /\ U \in Nat \ {0} /\ Q \in {1, 2} /\ GroupBits \in Nat \ {0} /\ GroupBits = Q * U
      /\ BlockBits = 8 * GroupBits
  BY Widths DEF BitsInv, UnitsOK
<1>4. /\ u \in Nat /\ Len(units) \in Nat /\ unitId' \in 0 .. Len(units)
      /\ units[u + 1] = Following(OneSet, u * U, U)
  <2>1. units \in Seq(SUBSET (0 .. U - 1)) /\ u \in 0 .. Len(units)
    BY DEF BitsInv, UnitsOK, CountsOK
  <2>2. Len(units) \in Nat
    BY <2>1, LenProperties
  <2>3. u \in Nat /\ u + 1 \in 1 .. Len(units) /\ (u + 1) - 1 = u
    BY <1>1, <2>1, <2>2
  <2>4. units[u + 1] = Following(OneSet, ((u + 1) - 1) * U, U)
    BY <2>3, <1>3 DEF UnitsOK
  <2> QED BY <1>1, <2>2, <2>3, <2>4
<1>5. onesSoFar' = OnesTo((u + 1) * U)
  <2>1. onesSoFar = OnesTo(u * U)
    BY DEF BitsInv, CountsOK
  <2>2. u * U \in Int /\ (u + 1) * U = (u * U) + U
    BY <1>3, <1>4
  <2>3. OnesTo((u * U) + U) = OnesTo(u * U) + Cardinality(Following(OneSet, u * U, U))
    BY <1>3, <2>2, OnesToNext
  <2>4. ones = Cardinality(Following(OneSet, u * U, U))
    BY <1>4 DEF Popcount, At
  <2> QED BY <1>1, <2>1, <2>2, <2>3, <2>4
<1> HIDE DEF ones, U, Q, u
<1>6. ranks \in Seq(RankRecords) /\ Len(ranks) = NumBlocks + 1
      /\ \A g \in Nat : g * Q < u => GroupCounted(ranks, g)
  BY <1>1 DEF BitsInv, CountsOK, Q, u
<1>7. /\ ranks' \in Seq(RankRecords) /\ Len(ranks') = NumBlocks + 1
      /\ \A g \in Nat : g * Q < u + 1 => GroupCounted(ranks', g)
  <2>0. U \in Nat \ {0} /\ Q \in {1, 2} /\ u \in Nat
    BY <1>3, <1>4
  <2>1. CASE u % Q = 0
    <3> DEFINE g == u \div Q
    <3>1. /\ (u * U) % GroupBits = 0 /\ (u * U) \div GroupBits = g /\ g \in Nat
          /\ u = g * Q /\ u * U = g * GroupBits
      <4>1. /\ (u * U) % (Q * U) = 0 /\ (u * U) \div (Q * U) = g /\ g \in Nat
            /\ u = g * Q /\ u * U = g * (Q * U)
        <5>1. (u * U) % (Q * U) = 0
          BY <2>1, <2>0, GroupAtUnit
        <5>2. (u * U) \div (Q * U) = g /\ g \in Nat
          BY <2>1, <2>0, GroupAtUnit
        <5>3. u = g * Q
          BY <2>1, <2>0, GroupAtUnit
        <5> HIDE DEF g
        <5>4. u * U = g * (Q * U)
          BY <5>2, <5>3, <2>0
        <5> QED BY <5>1, <5>2, <5>3, <5>4
      <4> HIDE DEF g
      <4> QED BY <4>1, <1>3
    <3> HIDE DEF g
    <3>2. g \div 8 + 1 \in 1 .. Len(ranks)
      <4>1. g * GroupBits < size
        BY <3>1, <1>1, <1>3, GroupsBegin DEF Q, u
      <4>2. g \div 8 + 1 <= NumBlocks
        BY <4>1, <3>1, <1>3, BlockOfGroup DEF NumBlocks
      <4>3. g \div 8 \in Nat /\ Len(ranks) \in Nat /\ NumBlocks \in Int
        <5>1. size \div BlockBits \in Nat
          BY <1>3, DivModNat
        <5>2. Len(ranks) \in Nat
          BY <1>6, LenProperties
        <5> QED BY <5>1, <5>2, <3>1 DEF NumBlocks
      <4> QED BY <4>2, <4>3, <1>6
    <3>3. onesSoFar = OnesTo(g * GroupBits)
      BY <3>1 DEF BitsInv, CountsOK, u, U
    <3>4. \A h \in Nat : h < g <=> h * Q < u
      BY <3>1, <1>3
    <3>5. /\ ranks' \in Seq(RankRecords) /\ Len(ranks') = Len(ranks)
          /\ \A h \in Nat : h <= g => GroupCounted(ranks', h)
      BY <3>1, <3>2, <3>3, <3>4, <1>1, <1>3, <1>6, CountsGroup
    <3>6. \A h \in Nat : h * Q < u + 1 => h <= g
      BY <3>1, <1>3
    <3> QED BY <3>5, <3>6, <1>6
  <2>2. CASE u % Q # 0
    <3>1. ranks' = ranks
      <4>1. (u * U) % (Q * U) # 0
        BY <2>2, <2>0, GroupAtUnit
      <4> QED BY <4>1, <1>1, <1>3
    <3>2. \A h \in Nat : h * Q < u + 1 => h * Q < u
      BY <2>2, <1>3, <1>4
    <3> QED BY <3>1, <3>2, <1>6
  <2> QED BY <2>1, <2>2
<1>8. CountsOK'
  <2>1. num1s = OnesTo(size)
    BY DEF BitsInv, CountsOK
  <2>2. \A g \in Nat : GroupCounted(ranks', g) => GroupCounted(ranks, g)'
    BY <1>2 DEF GroupCounted, Counted, OnesTo
  <2>3. unitId' = u + 1
    BY <1>1
  <2>4. /\ OnesTo(size)' = OnesTo(size)
        /\ OnesTo(unitId * UnitBits)' = OnesTo((u + 1) * U)
    BY <1>1, <1>2 DEF OnesTo
  <2> QED BY <1>1, <1>2, <1>4, <1>5, <1>7, <2>1, <2>2, <2>3, <2>4 DEF CountsOK
<1> QED BY <1>2, <1>8 DEF BitsInv

\* Closing the table keeps the counts of the groups with bits.
LEMMA FinishIndexInv == ASSUME BitsInv, FinishIndex PROVE BitsInv'
<1>1. /\ UNCHANGED <<source, units, size, num1s, unitId, onesSoFar>>
      /\ stage = "index" /\ stage' = "built" /\ unitId = Len(units) /\ ranks' = RanksClosed
  BY DEF FinishIndex
<1>2. /\ SourceOK' /\ UnitsOK' /\ OneSet' = OneSet /\ UnitBits' = UnitBits
      /\ UnitsPerGroup' = UnitsPerGroup /\ NumBlocks' = NumBlocks
  BY <1>1, SameBits DEF BitsInv, UnitsOK
<1>3. /\ SourceOK /\ UnitsOK /\ size \in Nat /\ GroupBits \in Nat \ {0}
      /\ BlockBits = 8 * GroupBits /\ BlockBits \in Nat \ {0}
  BY Widths DEF BitsInv, UnitsOK
<1>4. /\ ranks \in Seq(RankRecords) /\ Len(ranks) = NumBlocks + 1
      /\ \A g \in Nat : g * GroupBits < size => GroupCounted(ranks, g)
  BY <1>1, <1>3, GroupsBegin DEF BitsInv, CountsOK
<1> DEFINE last == (size - 1) \div BlockBits + 1
           groups == ((size - 1) \div GroupBits) % GroupsPerBlock
           tail == [k \in DOMAIN ranks[last].rel |->
                      IF k > groups THEN (onesSoFar - ranks[last].abs) % RelModulus(k)
                      ELSE ranks[last].rel[k]]
           filled == IF size % BlockBits = 0 THEN ranks
                     ELSE [ranks EXCEPT ![last] = [@ EXCEPT !.rel = tail]]
           closed == [filled EXCEPT ![Len(ranks)] = [@ EXCEPT !.abs = onesSoFar]]
<1>5. NumBlocks \in Nat /\ (size % BlockBits # 0 => last \in 1 .. NumBlocks)
  <2>1. size \div BlockBits \in Nat /\ size % BlockBits \in 0 .. BlockBits - 1
        /\ size = BlockBits * (size \div BlockBits) + (size % BlockBits)
    BY <1>3, DivModNat
  <2>2. NumBlocks \in Nat
    BY <2>1 DEF NumBlocks
  <2>3. ASSUME size % BlockBits # 0 PROVE last \in 1 .. NumBlocks
    <3>1. size - 1 \in Nat
      BY <2>1, <2>3, <1>3
    <3>2. (size - 1) \div BlockBits \in Nat /\ (size - 1) \div BlockBits <= size \div BlockBits
      BY <1>3, <3>1
    <3>3. NumBlocks = size \div BlockBits + 1
      BY <2>3 DEF NumBlocks
    <3> QED BY <2>1, <3>2, <3>3
  <2> QED BY <2>2, <2>3
<1>6. ranks' = closed
  BY <1>1 DEF RanksClosed, GroupsPerBlock
<1>7. onesSoFar \in Int
  <2>1. unitId \in Nat /\ UnitBits \in Nat
    <3>1. Len(units) \in Nat
      BY <1>3, LenProperties DEF UnitsOK
    <3> QED BY <1>1, <1>3, <3>1, Widths
  <2>2. unitId * UnitBits \in Int
    BY <2>1
  <2> QED BY <1>3, <2>2, OnesToNext DEF BitsInv, CountsOK
<1>8. ASSUME size % BlockBits # 0
      PROVE  /\ [ranks[last] EXCEPT !.rel = tail] \in RankRecords
             /\ [ranks[last] EXCEPT !.rel = tail].abs = ranks[last].abs
             /\ [ranks[last] EXCEPT !.rel = tail].rel = tail
             /\ \A k \in 1 .. 7 : k <= groups => tail[k] = ranks[last].rel[k]
  <2>1. ranks[last] \in RankRecords
    BY <1>4, <1>5, <1>8, ElementOfSeq
  <2>2. PICK a \in Int, r \in [1 .. 7 -> Int] : ranks[last] = [abs |-> a, rel |-> r]
    BY SMTT(30), <2>1 DEF RankRecords, GroupsPerBlock
  <2>3. groups \in Int
    <3>1. (size - 1) \div GroupBits \in Int
      BY <1>3, DivMod
    <3> QED BY <3>1 DEF GroupsPerBlock
  <2>4. ASSUME NEW k \in 1 .. 7 PROVE (onesSoFar - a) % RelModulus(k) \in Int
    <3>1. RelModulus(k) \in Nat \ {0}
      BY <1>3 DEF RelModulus
    <3> QED BY <1>7, <3>1, DivMod
  <2>5. tail = [k \in 1 .. 7 |-> IF k > groups THEN (onesSoFar - a) % RelModulus(k) ELSE r[k]]
    BY <2>2
  <2>6. tail \in [1 .. 7 -> Int]
    BY <2>4, <2>5
  <2>7. \A k \in 1 .. 7 : k <= groups => tail[k] = r[k]
    BY <2>3, <2>5
  <2> HIDE DEF tail, groups
  <2>8. [ranks[last] EXCEPT !.rel = tail] = [abs |-> a, rel |-> tail]
    BY <2>2
  <2> QED BY <2>2, <2>6, <2>7, <2>8 DEF RankRecords, GroupsPerBlock
<1> HIDE DEF tail, last, groups
<1>9. /\ filled \in Seq(RankRecords) /\ Len(filled) = Len(ranks)
      /\ \A i \in 1 .. Len(ranks) :
           filled[i] = IF size % BlockBits # 0 /\ i = last THEN [ranks[last] EXCEPT !.rel = tail]
                       ELSE ranks[i]
  <2>1. CASE size % BlockBits = 0
    BY <1>4, <2>1
  <2>2. CASE size % BlockBits # 0
    <3>1. last \in 1 .. Len(ranks)
      BY <1>4, <1>5, <2>2
    <3> QED BY <1>4, <1>8, <2>2, <3>1, ExceptSeq
  <2> QED BY <2>1, <2>2
<1> HIDE DEF filled
<1>10. /\ closed \in Seq(RankRecords) /\ Len(closed) = Len(ranks)
       /\ \A i \in 1 .. NumBlocks : closed[i] = filled[i]
  <2>1. Len(ranks) \in 1 .. Len(filled) /\ filled[Len(ranks)] \in RankRecords
    BY <1>4, <1>5, <1>9, ElementOfSeq
  <2>2. [filled[Len(ranks)] EXCEPT !.abs = onesSoFar] \in RankRecords
    BY <1>7, <2>1 DEF RankRecords
  <2> QED BY <1>4, <1>5, <1>9, <2>1, <2>2, ExceptSeq
<1> HIDE DEF closed
<1>11. ASSUME NEW g \in Nat, g * GroupBits < size
       PROVE  GroupCounted(closed, g)
  <2> DEFINE b == g \div 8
  <2>1. b \in Nat /\ b + 1 \in 1 .. NumBlocks /\ g % 8 \in 0 .. 7
    <3>1. b \in Nat /\ g % 8 \in 0 .. 7
      OBVIOUS
    <3>2. b + 1 <= NumBlocks
      BY <1>3, <1>11, BlockOfGroup DEF NumBlocks
    <3> QED BY <3>1, <3>2, <1>5
  <2>2. Counted(ranks[b + 1], b, g)
    BY <1>4, <1>11 DEF GroupCounted
  <2>3. b + 1 = last => g % 8 <= groups
    <3>1. SUFFICES ASSUME b + 1 = last PROVE g % 8 <= groups
      OBVIOUS
    <3>2. b = (size - 1) \div (8 * GroupBits)
      <4>1. (size - 1) \div BlockBits \in Int
        BY <1>3, DivMod
      <4> QED BY <2>1, <3>1, <4>1, <1>3 DEF last
    <3> QED BY <3>2, <1>3, <1>11, GroupInBlock DEF groups, GroupsPerBlock
  <2> HIDE DEF b
  <2>4. filled[b + 1].abs = ranks[b + 1].abs
        /\ Rel(filled[b + 1], g % 8) = Rel(ranks[b + 1], g % 8)
    <3>1. CASE size % BlockBits # 0 /\ b + 1 = last
      <4> DEFINE rank == [ranks[last] EXCEPT !.rel = tail]
      <4>1. filled[b + 1] = rank /\ b + 1 = last
        BY <3>1, <1>4, <1>5, <1>9, <2>1
      <4>2. /\ rank.abs = ranks[last].abs /\ rank.rel = tail
            /\ \A k \in 1 .. 7 : k <= groups => tail[k] = ranks[last].rel[k]
        BY <3>1, <1>8
      <4> HIDE DEF rank
      <4>3. g % 8 # 0 => g % 8 \in 1 .. 7 /\ g % 8 <= groups
        BY <2>1, <2>3, <3>1
      <4>4. g % 8 # 0 => tail[g % 8] = ranks[last].rel[g % 8]
        BY <4>2, <4>3
      <4> QED BY <4>1, <4>2, <4>4 DEF Rel
    <3>2. CASE ~(size % BlockBits # 0 /\ b + 1 = last)
      BY <3>2, <1>4, <1>5, <1>9, <2>1
    <3> QED BY <3>1, <3>2
  <2>5. Counted(closed[b + 1], b, g)
    BY <1>10, <2>1, <2>2, <2>4 DEF Counted
  <2> QED BY <2>5 DEF GroupCounted, b
<1>12. CountsOK'
  <2>1. /\ num1s = OnesTo(size) /\ onesSoFar = OnesTo(unitId * UnitBits)
        /\ unitId \in 0 .. Len(units)
    BY DEF BitsInv, CountsOK
  <2>2. \A g \in Nat : GroupCounted(ranks', g) => GroupCounted(ranks, g)'
    BY <1>2 DEF GroupCounted, Counted, OnesTo
  <2>3. OnesTo(size)' = OnesTo(size) /\ OnesTo(unitId * UnitBits)' = OnesTo(unitId * UnitBits)
    BY <1>1, <1>2 DEF OnesTo
  <2> QED BY <1>1, <1>2, <1>4, <1>6, <1>10, <1>11, <2>1, <2>2, <2>3 DEF CountsOK
<1> QED BY <1>2, <1>12 DEF BitsInv

\* Every step of the construction.
LEMMA BitsStep == BitsInv /\ [NextBits]_bitVars => BitsInv'
<1> SUFFICES ASSUME BitsInv, [NextBits]_bitVars PROVE BitsInv'
  OBVIOUS
<1>1. CASE UNCHANGED bitVars
  BY <1>1 DEF bitVars, BitsInv, SourceOK, UnitsOK, CountsOK, OneSet, OnesTo, GroupCounted, Counted,
              NumGroups, NumBlocks, UnitBits, UnitsPerGroup
<1> QED BY <1>1, PushBackInv, BeginIndexInv, IndexUnitInv, FinishIndexInv DEF NextBits

---------------------------------------------------------------------------
\* The count of the block, of the group in it, of the unit before in the group,
\* and in the unit, add up.
LEMMA Rank1Counts ==
  ASSUME BitsInv, stage = "built", NEW i \in 0 .. size - 1
  PROVE  Rank1Of(i) = OnesTo(i)
<1> DEFINE U == UnitBits
           Q == UnitsPerGroup
           u == i \div U
           g == i \div GroupBits
           b == i \div BlockBits
<1>1. /\ size \in Nat /\ i \in Nat /\ i < size
      /\ U \in Nat \ {0} /\ Q \in {1, 2} /\ GroupBits \in Nat \ {0} /\ GroupBits = Q * U
      /\ BlockBits = 8 * GroupBits
  BY Widths DEF BitsInv, UnitsOK
<1>2. u \in Nat /\ g \in Nat /\ b = g \div 8 /\ u \div Q = g
  BY <1>1
<1>3. i = U * u + (i % U) /\ i % U \in 0 .. U - 1 /\ g * GroupBits <= i
  <2>1. i = U * u + (i % U) /\ i % U \in 0 .. U - 1
    BY <1>1, DivModNat
  <2>2. i = GroupBits * g + (i % GroupBits) /\ i % GroupBits \in 0 .. GroupBits - 1
    BY <1>1, DivModNat
  <2> HIDE DEF g
  <2>3. GroupBits * g \in Int /\ g * GroupBits = GroupBits * g
    BY <1>1, <1>2
  <2> QED BY <2>1, <2>2, <2>3, <1>1
<1> HIDE DEF u, g, b, U, Q
<1>4. Counted(ranks[b + 1], b, g)
  <2>1. g * GroupBits < size
    <3>1. g * GroupBits \in Int
      BY <1>1, <1>2
    <3> QED BY <3>1, <1>1, <1>3
  <2> QED BY <1>2, <2>1 DEF BitsInv, CountsOK, GroupCounted
<1>5. ASSUME NEW v \in Nat, v <= u
      PROVE  At(units, v) = Following(OneSet, v * U, U)
  <2>1. Len(units) = Q * NumGroups /\ NumGroups \in Nat /\ size <= GroupBits * NumGroups
    BY GroupsBegin, <1>1 DEF BitsInv, UnitsOK, Q
  <2>2. u + 1 \in 1 .. Q * NumGroups
    <3>1. (Q * U) * NumGroups = GroupBits * NumGroups /\ (Q * U) * NumGroups \in Int
      BY <1>1, <2>1
    <3>2. i < (Q * U) * NumGroups
      BY <1>1, <2>1, <3>1
    <3> QED BY <1>1, <2>1, <3>2, UnitOfPosition DEF u
  <2>3. v + 1 \in 1 .. Len(units) /\ (v + 1) - 1 = v
    BY <1>2, <1>5, <2>1, <2>2
  <2>4. units[v + 1] = Following(OneSet, ((v + 1) - 1) * U, U)
    BY <2>3 DEF BitsInv, UnitsOK, U
  <2> QED BY <2>3, <2>4 DEF At
<1>6. Popcount({c \in At(units, u) : c < i % U}) = Cardinality(Following(OneSet, u * U, i % U))
  <2>1. At(units, u) = Following(OneSet, u * U, U)
    BY <1>2, <1>5
  <2>2. \A c : c \in 0 .. U - 1 /\ c < i % U <=> c \in 0 .. (i % U) - 1
    BY <1>1, <1>3
  <2>3. {c \in Following(OneSet, u * U, U) : c < i % U} = Following(OneSet, u * U, i % U)
    BY <2>2 DEF Following
  <2> QED BY <2>1, <2>3 DEF Popcount
<1>7. /\ OnesTo(i) = OnesTo(u * U) + Cardinality(Following(OneSet, u * U, i % U))
      /\ OnesTo(u * U) \in Nat /\ Cardinality(Following(OneSet, u * U, i % U)) \in Int
  <2>1. PICK n \in Int, r \in Nat : n = u * U /\ r = i % U /\ i = n + r
    <3>1. u * U \in Int /\ u * U = U * u /\ i % U \in Nat
      BY <1>1, <1>2, <1>3
    <3> QED BY <3>1, <1>3
  <2>2. /\ OnesTo(n + r) = OnesTo(n) + Cardinality(Following(OneSet, n, r))
        /\ OnesTo(n) \in Nat /\ Cardinality(Following(OneSet, n, r)) \in 0 .. r
    BY <1>1, OnesToNext
  <2> QED BY <2>1, <2>2
<1>8. OnesTo(u * U) = OnesTo(g * GroupBits) + IF u % Q = 1 THEN Popcount(At(units, u - 1)) ELSE 0
  <2>1. CASE u % Q = 1
    <3>1. u = 2 * g + 1 /\ Q = 2
      BY <2>1, <1>1, <1>2
    <3>2. u - 1 \in Nat /\ u - 1 <= u /\ (u - 1) * U = g * GroupBits /\ u * U = g * GroupBits + U
          /\ g * GroupBits \in Int
      BY <3>1, <1>1, <1>2
    <3>3. At(units, u - 1) = Following(OneSet, g * GroupBits, U)
      BY <3>2, <1>5
    <3>4. OnesTo(g * GroupBits + U) =
            OnesTo(g * GroupBits) + Cardinality(Following(OneSet, g * GroupBits, U))
      BY <3>2, <1>1, OnesToNext
    <3> QED BY <2>1, <3>2, <3>3, <3>4 DEF Popcount
  <2>2. CASE u % Q # 1
    <3>1. u = g * Q
      BY <2>2, <1>1, <1>2
    <3>2. u * U = g * GroupBits /\ g * GroupBits \in Int
      <4>1. CASE Q = 1
        BY <3>1, <4>1, <1>1, <1>2
      <4>2. CASE Q = 2
        BY <3>1, <4>2, <1>1, <1>2
      <4> QED BY <4>1, <4>2, <1>1
    <3>3. OnesTo(g * GroupBits) \in Nat
      BY <3>2, <1>1, OnesToNext
    <3> QED BY <2>2, <3>2, <3>3
  <2> QED BY <2>1, <2>2
<1>9. ranks[b + 1].abs + Rel(ranks[b + 1], g % 8) = OnesTo(g * GroupBits)
  <2>1. OnesTo(b * BlockBits) \in Nat /\ OnesTo(g * GroupBits) \in Nat
    <3>1. b * BlockBits \in Int /\ g * GroupBits \in Int
      <4>1. b \in Nat
        BY <1>2
      <4> QED BY <4>1, <1>1, <1>2
    <3> QED BY <3>1, <1>1, OnesToNext
  <2> QED BY <1>4, <2>1 DEF Counted
<1>10. Rank1Of(i) = (ranks[b + 1].abs + Rel(ranks[b + 1], g % 8)
                     + (IF u % Q = 1 THEN Popcount(At(units, u - 1)) ELSE 0))
                    + Popcount({c \in At(units, u) : c < i % U})
  BY DEF Rank1Of, At, GroupsPerBlock, b, g, u, U, Q
<1> QED BY <1>6, <1>7, <1>8, <1>9, <1>10

\* rank1 is the number of ones, by the counts of the index.
LEMMA InvRanksCount == BitsInv => RanksCount
<1> SUFFICES ASSUME BitsInv, stage = "built", NEW i \in 0 .. size - 1
             PROVE  Rank1Of(i) = Rank1(Pushed, i)
  BY DEF RanksCount
<1>1. size \in Nat /\ size = Len(source.bits) /\ source.bits \in Seq(BOOLEAN)
  BY Widths DEF BitsInv, UnitsOK
<1>2. \A p \in 1 .. size : Pushed[p] = source.bits[p]
  BY <1>1 DEF Pushed
<1>3. \A p : p \in 1 .. i <=> p \in 1 .. size /\ p <= i
  BY <1>1
<1>4. {p \in 1 .. i : Pushed[p]} = Before(OneSet, i)
  <2> HIDE DEF Pushed
  <2> QED BY <1>2, <1>3 DEF Before, OneSet
<1> QED BY <1>4, Rank1Counts DEF Rank1, OnesTo

\* rank1 counts the ones before every position, for every vector that is
\* pushed, with and without select indexes, in 64-bit and 32-bit builds.
THEOREM RanksAlwaysCount == SpecStorage => []RanksCount
<1>1. InitStorage => BitsInv
  BY InitBitsInv DEF InitStorage
<1>2. BitsInv /\ [NextStorage]_storageVars => BitsInv'
  <2> SUFFICES ASSUME BitsInv, [NextStorage]_storageVars PROVE [NextBits]_bitVars
    BY BitsStep
  <2> QED BY DEF NextStorage, PushFlag, SplitLinks, PackExtra, storageVars, bitVars
<1> QED BY <1>1, <1>2, InvRanksCount, PTL DEF SpecStorage

---------------------------------------------------------------------------
(* select: bits of a kind are counted, those that are set or those that    *)
(* are not.  D has the positions of the kind, from 1.                      *)

\* How many come before position n, and the bit there is one of them.
Upto(D, n) == Cardinality(Before(D, n))

\* A finite set of positions.
Places(D) == IsFiniteSet(D) /\ D \subseteq Int

\* The number goes up by one at each of them, else it stays.
LEMMA UptoGrows ==
  ASSUME NEW D, Places(D), NEW m \in Int, NEW n \in Int, m <= n
  PROVE  /\ Upto(D, m) \in Nat /\ Upto(D, n) \in Nat
         /\ Upto(D, n) - Upto(D, m) \in 0 .. n - m
<1>1. PICK r \in Nat : n = m + r
  <2>1. n - m \in Nat /\ n = m + (n - m)
    OBVIOUS
  <2> QED BY <2>1
<1>2. /\ Upto(D, m) \in Nat /\ Upto(D, m + r) \in Nat
      /\ Upto(D, m + r) = Upto(D, m) + Cardinality(Following(D, m, r))
      /\ Cardinality(Following(D, m, r)) \in 0 .. r
  <2>1. m + r \in Int
    OBVIOUS
  <2> QED BY <2>1, CountSplit, CountBounds DEF Upto, Places
<1> QED BY <1>1, <1>2

\* A number is that of a range before and of the range.
LEMMA UptoSplits ==
  ASSUME NEW D, Places(D), NEW n \in Int, NEW r \in Nat
  PROVE  /\ Upto(D, n + r) = Upto(D, n) + Cardinality(Following(D, n, r))
         /\ Cardinality(Following(D, n, r)) \in 0 .. r /\ Upto(D, n) \in Nat
BY CountSplit, CountBounds DEF Upto, Places

\* One position more.
LEMMA UptoNext ==
  ASSUME NEW D, Places(D), NEW n \in Int
  PROVE  Upto(D, n) \in Nat /\ Upto(D, n + 1) = Upto(D, n) + IF n + 1 \in D THEN 1 ELSE 0
<1>1. Upto(D, n + 1) = Upto(D, n) + Cardinality(Following(D, n, 1)) /\ Upto(D, n) \in Nat
  BY UptoSplits
<1>2. n + 0 + 1 = n + 1 /\ 0 .. 1 - 1 = {0}
  OBVIOUS
<1>3. Following(D, n, 1) = {b \in {0} : n + b + 1 \in D}
  BY <1>2 DEF Following
<1>4. CASE n + 1 \in D
  <2>1. Following(D, n, 1) = {0}
    BY <1>2, <1>3, <1>4
  <2>2. Cardinality({0}) = 1
    BY FS_Singleton
  <2> QED BY <1>1, <1>4, <2>1, <2>2
<1>5. CASE n + 1 \notin D
  <2>1. Following(D, n, 1) = {}
    BY <1>2, <1>3, <1>5
  <2>2. Cardinality({}) = 0
    BY FS_EmptySet
  <2> QED BY <1>1, <1>5, <2>1, <2>2
<1> QED BY <1>4, <1>5

\* Numbers tell positions of the kind from earlier and later ones.
LEMMA NumberTells ==
  ASSUME NEW D, Places(D), NEW p \in Int, p + 1 \in D, NEW q \in Int
  PROVE  Upto(D, p) < Upto(D, q) <=> p < q
<1>1. Upto(D, p) \in Nat /\ Upto(D, q) \in Nat /\ Upto(D, p + 1) = Upto(D, p) + 1
  BY UptoNext
<1>2. CASE p < q
  <2>1. p + 1 \in Int /\ p + 1 <= q
    BY <1>2
  <2>2. Upto(D, q) - Upto(D, p + 1) \in 0 .. q - (p + 1)
    BY <2>1, UptoGrows
  <2> QED BY <1>1, <1>2, <2>2
<1>3. CASE q <= p
  <2>1. Upto(D, p) - Upto(D, q) \in 0 .. p - q
    BY <1>3, UptoGrows
  <2> QED BY <1>1, <1>3, <2>1
<1> QED BY <1>2, <1>3

\* No two positions of a kind have the same number.
LEMMA NumberIsOne ==
  ASSUME NEW D, Places(D), NEW p \in Int, p + 1 \in D, NEW q \in Int, q + 1 \in D,
         Upto(D, p) = Upto(D, q)
  PROVE  p = q
<1>1. Upto(D, p) \in Nat /\ Upto(D, q) \in Nat
  BY UptoNext
<1>2. ~(p < q) /\ ~(q < p)
  BY <1>1, NumberTells
<1> QED BY <1>2

\* Every smaller number is that of an earlier position.
LEMMA EveryNumber ==
  ASSUME NEW D, Places(D), D \subseteq Nat \ {0}, NEW p \in Nat, p + 1 \in D,
         NEW j \in Nat, j <= Upto(D, p)
  PROVE  \E q \in 0 .. p : q + 1 \in D /\ Upto(D, q) = j
<1> DEFINE S == {q \in Nat : j < Upto(D, q + 1)}
<1>1. p \in S
  <2>1. Upto(D, p) \in Nat /\ Upto(D, p + 1) = Upto(D, p) + 1
    BY UptoNext
  <2> QED BY <2>1
<1>2. PICK q \in S : \A n \in S : q <= n
  <2>1. S \subseteq Nat /\ S # {}
    BY <1>1
  <2> HIDE DEF S
  <2> QED BY <2>1, LeastElement
<1>3. q \in Nat /\ q <= p /\ j < Upto(D, q + 1)
  BY <1>1, <1>2
<1>4. Upto(D, q) <= j
  <2>1. CASE q = 0
    <3>1. Before(D, 0) = {}
      <4>1. \A d \in D : ~(d <= 0)
        OBVIOUS
      <4> QED BY <4>1 DEF Before
    <3>2. Upto(D, 0) = 0
      BY <3>1, FS_EmptySet DEF Upto
    <3> QED BY <2>1, <3>2
  <2>2. CASE q # 0
    <3>1. q - 1 \in Nat /\ ~(q <= q - 1) /\ (q - 1) + 1 = q
      BY <1>3, <2>2
    <3>2. q - 1 \notin S
      BY <1>2, <3>1
    <3>3. ~(j < Upto(D, q))
      BY <3>1, <3>2
    <3>4. Upto(D, q) \in Nat
      BY <1>3, UptoNext
    <3> QED BY <3>3, <3>4
  <2> QED BY <2>1, <2>2
<1>5. Upto(D, q) \in Nat /\ Upto(D, q + 1) = Upto(D, q) + IF q + 1 \in D THEN 1 ELSE 0
  BY <1>3, UptoNext
<1>6. q + 1 \in D /\ Upto(D, q) = j
  BY <1>3, <1>4, <1>5
<1> QED BY <1>3, <1>6

\* The part of a word before a position.
LEMMA WordBefore ==
  ASSUME NEW D, NEW n \in Int, NEW r \in Nat, NEW m \in 0 .. r
  PROVE  {x \in Following(D, n, r) : x < m} = Following(D, n, m)
<1>1. \A x : x \in 0 .. r - 1 /\ x < m <=> x \in 0 .. m - 1
  OBVIOUS
<1> QED BY <1>1 DEF Following

\* What the bytes of a word have up to their ends.
LEMMA AccumulatedIs ==
  ASSUME NEW D, NEW n \in Int, NEW r \in Nat, NEW b \in Int, NEW m \in Nat, m = (b + 1) * ByteBits
  PROVE  /\ m <= r => Accumulated(Following(D, n, r), b) = Cardinality(Following(D, n, m))
         /\ r <= m => Accumulated(Following(D, n, r), b) = Cardinality(Following(D, n, r))
<1>1. Accumulated(Following(D, n, r), b) = Cardinality({x \in Following(D, n, r) : x < m})
  BY DEF Accumulated, Popcount
<1>2. ASSUME m <= r PROVE {x \in Following(D, n, r) : x < m} = Following(D, n, m)
  BY <1>2, WordBefore
<1>3. ASSUME r <= m PROVE {x \in Following(D, n, r) : x < m} = Following(D, n, r)
  BY <1>3 DEF Following
<1> QED BY <1>1, <1>2, <1>3

\* SelectBit gives the place of the bit with the number that is asked for.
LEMMA SelectBitFinds ==
  ASSUME NEW D, Places(D), NEW n \in Int, NEW r \in 0 .. GroupBits, NEW c \in Following(D, n, r),
         NEW base \in Int, NEW i, i = Upto(D, n + c) - Upto(D, n)
  PROVE  SelectBit(i, base, Following(D, n, r)) = base + c
<1> DEFINE word == Following(D, n, r)
           nb == GroupBits \div ByteBits
           t == c \div ByteBits
           d == c % ByteBits
           C(m) == Cardinality(Following(D, n, m))
<1>1. /\ GroupBits \in Nat \ {0} /\ ByteBits \in Nat \ {0} /\ nb \in Nat /\ GroupBits = ByteBits * nb
      /\ c \in 0 .. r - 1 /\ r \in Nat /\ n + c + 1 \in D
  <2>1. GroupBits \in Nat \ {0} /\ ByteBits \in Nat \ {0} /\ GroupBits % ByteBits = 0
    BY GroupBitsAssumption
  <2>2. GroupBits \div ByteBits \in Nat
        /\ GroupBits = ByteBits * (GroupBits \div ByteBits) + (GroupBits % ByteBits)
    BY <2>1, DivModNat
  <2>3. r \in Nat
    BY <2>1
  <2> QED BY <2>1, <2>2, <2>3 DEF Following
<1>2. c \in Nat /\ t \in Nat /\ d \in 0 .. ByteBits - 1 /\ c = ByteBits * t + d
  <2>1. c \in Nat
    BY <1>1
  <2> QED BY <1>1, <2>1, DivModNat
<1> HIDE DEF nb, t, d
<1>3. PICK z \in Nat : z = t * ByteBits /\ c = z + d
  BY <1>1, <1>2
<1>4. ASSUME NEW m \in Nat
      PROVE  C(m) = Upto(D, n + m) - Upto(D, n) /\ C(m) \in 0 .. m
  BY UptoSplits
<1>5. i = C(c) /\ i \in Nat
  BY <1>2, <1>4
<1> HIDE DEF C
<1>6. ASSUME NEW m \in Nat, m <= c PROVE C(m) <= i
  <2>1. n + m \in Int /\ n + c \in Int /\ n + m <= n + c
    BY <1>2, <1>6
  <2>2. Upto(D, n + c) - Upto(D, n + m) \in 0 .. (n + c) - (n + m) /\ Upto(D, n) \in Nat
        /\ Upto(D, n + c) \in Nat /\ Upto(D, n + m) \in Nat
    BY <2>1, UptoGrows, UptoNext
  <2> QED BY <1>2, <1>4, <1>5, <2>2
<1>7. ASSUME NEW m \in Nat, c < m PROVE i < C(m)
  <2>1. n + m \in Int /\ n + c \in Int /\ n + c < n + m
    BY <1>2, <1>7
  <2>2. Upto(D, n + c) < Upto(D, n + m)
    BY <1>1, <2>1, NumberTells
  <2>3. Upto(D, n) \in Nat /\ Upto(D, n + c) \in Nat /\ Upto(D, n + m) \in Nat
    BY <2>1, UptoNext
  <2> QED BY <1>2, <1>4, <1>5, <2>2, <2>3
\* The bytes that are skipped are those before the one with the bit.
<1>8. ASSUME NEW b \in 0 .. nb - 1
      PROVE  Accumulated(word, b) <= i <=> b < t
  <2>1. PICK m \in Nat : m = (b + 1) * ByteBits
    BY <1>1
  <2>2. /\ m <= r => Accumulated(word, b) = C(m)
        /\ r <= m => Accumulated(word, b) = C(r)
    BY <1>1, <2>1, AccumulatedIs DEF C
  <2>3. CASE b < t
    <3>1. m <= z
      BY <1>1, <1>2, <1>3, <2>1, <2>3
    <3>2. m <= c /\ m <= r
      BY <3>1, <1>1, <1>2, <1>3
    <3> QED BY <2>2, <2>3, <3>2, <1>6
  <2>4. CASE ~(b < t)
    <3>1. z + ByteBits <= m
      <4>1. t + 1 <= b + 1
        BY <1>1, <1>2, <2>4
      <4>2. (t + 1) * ByteBits <= (b + 1) * ByteBits
        BY <4>1, <1>1, <1>2
      <4>3. (t + 1) * ByteBits = z + ByteBits
        BY <1>1, <1>2, <1>3
      <4> QED BY <4>2, <4>3, <2>1
    <3>2. c < m /\ c < r
      BY <3>1, <1>1, <1>2, <1>3
    <3>3. i < C(m) /\ i < C(r) /\ C(m) \in Int /\ C(r) \in Int
      BY <3>2, <1>1, <1>4, <1>7
    <3>4. i < Accumulated(word, b) /\ Accumulated(word, b) \in Int
      BY <2>2, <3>3, <1>1
    <3> QED BY <3>4, <2>4, <1>5
  <2> QED BY <2>3, <2>4
<1>9. t < nb
  <2>1. ByteBits * t <= c /\ c < ByteBits * nb
    BY <1>1, <1>2
  <2>2. ASSUME nb <= t PROVE FALSE
    <3>1. ByteBits * nb <= ByteBits * t
      BY <1>1, <1>2, <2>2
    <3>2. ByteBits * nb \in Int /\ ByteBits * t \in Int
      BY <1>1, <1>2
    <3> QED BY <2>1, <3>1, <3>2, <1>2
  <2> QED BY <2>2, <1>1, <1>2
<1>10. Cardinality({b \in 0 .. nb - 1 : Accumulated(word, b) <= i}) = t
  <2>1. {b \in 0 .. nb - 1 : Accumulated(word, b) <= i} = {b \in 0 .. nb - 1 : b < t}
    BY <1>8
  <2>2. {b \in 0 .. nb - 1 : b < t} = 0 .. t - 1
    BY <1>1, <1>2, <1>9
  <2>3. Cardinality(0 .. t - 1) = t
    BY <1>2, FS_Interval
  <2> QED BY <2>1, <2>2, <2>3
<1> DEFINE before == IF t = 0 THEN 0 ELSE Accumulated(word, t - 1)
           byte == ByteOf(word, t)
<1>11. before = C(z)
  <2>1. CASE t = 0
    <3>1. z = 0
      BY <2>1, <1>1, <1>3
    <3>2. C(0) \in 0 .. 0
      BY <1>4
    <3> QED BY <2>1, <3>1, <3>2
  <2>2. CASE t # 0
    <3>1. t - 1 \in Int /\ z = ((t - 1) + 1) * ByteBits
      BY <1>1, <1>2, <1>3
    <3>2. z <= r
      BY <1>1, <1>2, <1>3
    <3>3. Accumulated(word, t - 1) = C(z)
      BY <1>1, <3>1, <3>2, AccumulatedIs DEF C
    <3> QED BY <2>2, <3>3
  <2> QED BY <2>1, <2>2
\* The byte begins at z.
<1>12. PICK y \in 0 .. ByteBits : byte = Following(D, n + z, y) /\ d < y
  <2> DEFINE y == IF r - z < ByteBits THEN r - z ELSE ByteBits
  <2>1. y \in 0 .. ByteBits /\ d < y
    BY <1>1, <1>2, <1>3
  <2>2. \A p \in Int : p \in 0 .. ByteBits - 1 /\ z + p \in 0 .. r - 1 <=> p \in 0 .. y - 1
    BY <1>1, <1>3
  <2>3. byte = {p \in 0 .. ByteBits - 1 : z + p \in Following(D, n, r)}
    BY <1>3 DEF ByteOf
  <2>4. \A p \in Int : n + (z + p) + 1 = (n + z) + p + 1
    BY <1>3
  <2> HIDE DEF byte, y
  <2>5. \A p : p \in byte <=> p \in Following(D, n + z, y)
    <3>1. 0 .. ByteBits - 1 \subseteq Int /\ 0 .. y - 1 \subseteq Int
      BY <2>1, <1>1
    <3>2. ASSUME NEW p \in Int
          PROVE  (p \in 0 .. ByteBits - 1 /\ z + p \in Following(D, n, r))
                 <=> (p \in 0 .. y - 1 /\ (n + z) + p + 1 \in D)
      <4>1. z + p \in Following(D, n, r) <=> z + p \in 0 .. r - 1 /\ n + (z + p) + 1 \in D
        BY DEF Following
      <4>2. n + (z + p) + 1 = (n + z) + p + 1
        BY <2>4
      <4> QED BY <4>1, <4>2, <2>2
    <3>3. \A p : p \in Following(D, n + z, y) <=> p \in 0 .. y - 1 /\ (n + z) + p + 1 \in D
      BY DEF Following
    <3>4. ASSUME NEW p PROVE p \in byte <=> p \in Following(D, n + z, y)
      <4>1. p \in byte <=> p \in 0 .. ByteBits - 1 /\ z + p \in Following(D, n, r)
        BY <2>3
      <4>2. p \in Following(D, n + z, y) <=> p \in 0 .. y - 1 /\ (n + z) + p + 1 \in D
        BY <3>3
      <4>3. CASE p \in Int
        BY <4>1, <4>2, <4>3, <3>2
      <4>4. CASE p \notin Int
        BY <4>1, <4>2, <4>4, <3>1
      <4> QED BY <4>3, <4>4
    <3> QED BY <3>4
  <2>6. byte = Following(D, n + z, y)
    BY ZenonT(30), <2>5
  <2> QED BY <2>1, <2>6
<1> HIDE DEF byte, before
<1>13. SelectTable(i - before, byte) = d
  <2>1. ASSUME NEW p \in byte
        PROVE  p \in 0 .. ByteBits - 1 /\ (Cardinality({q \in byte : q < p}) = i - before <=> p = d)
    <3>1. p \in 0 .. y - 1 /\ n + z + p + 1 \in D /\ y \in Nat
      BY <1>1, <1>12 DEF Following
    <3>2. p \in Nat /\ p \in 0 .. y /\ p \in 0 .. ByteBits - 1 /\ n + z \in Int /\ (n + z) + p \in Int
      BY <3>1, <1>1, <1>3
    <3>3. {q \in byte : q < p} = Following(D, n + z, p)
      BY <1>12, <3>1, <3>2, WordBefore
    <3>4. /\ Upto(D, (n + z) + p) = Upto(D, n + z) + Cardinality(Following(D, n + z, p))
          /\ Upto(D, n + z) \in Nat /\ Cardinality(Following(D, n + z, p)) \in 0 .. p
      BY <3>2, UptoSplits
    <3>5. i - before = Upto(D, n + c) - Upto(D, n + z)
      <4>1. C(z) = Upto(D, n + z) - Upto(D, n) /\ C(c) = Upto(D, n + c) - Upto(D, n)
        BY <1>2, <1>4
      <4>2. Upto(D, n) \in Nat /\ Upto(D, n + c) \in Nat
        BY <1>2, UptoNext
      <4> QED BY <4>1, <4>2, <3>4, <1>5, <1>11
    <3>6. Upto(D, n + c) \in Nat /\ n + c \in Int
      BY <1>2, UptoNext
    <3>7. Cardinality({q \in byte : q < p}) = i - before <=> Upto(D, (n + z) + p) = Upto(D, n + c)
      BY <3>3, <3>4, <3>5, <3>6
    <3>8. Upto(D, (n + z) + p) = Upto(D, n + c) => (n + z) + p = n + c
      <4>1. ((n + z) + p) + 1 \in D /\ (n + c) + 1 \in D
        BY <3>1, <1>1
      <4> QED BY <4>1, <3>2, <3>6, NumberIsOne
    <3>9. (n + z) + p = n + c <=> p = d
      BY <1>2, <1>3, <3>2
    <3> QED BY <3>2, <3>7, <3>8, <3>9
  <2>2. d \in byte
    <3>1. d \in 0 .. y - 1
      BY <1>2, <1>12
    <3>2. (n + z) + d + 1 = n + c + 1
      BY <1>2, <1>3
    <3> QED BY <3>1, <3>2, <1>1, <1>12 DEF Following
  <2>3. {p \in byte : Cardinality({q \in byte : q < p}) = i - before} = {d}
    BY <2>1, <2>2
  <2>4. SelectTable(i - before, byte) = Min({ByteBits - 1} \cup {d})
    BY <2>3 DEF SelectTable
  <2>5. Min({ByteBits - 1} \cup {d}) = d
    <3>1. d \in {ByteBits - 1} \cup {d} /\ \A x \in {ByteBits - 1} \cup {d} : d <= x
      BY <1>1, <1>2
    <3>2. {ByteBits - 1} \cup {d} \subseteq Nat /\ {ByteBits - 1} \cup {d} # {}
      BY <1>1, <1>2
    <3>3. PICK S : S = {ByteBits - 1} \cup {d}
      OBVIOUS
    <3>4. Min(S) \in S /\ \A x \in S : Min(S) <= x
      BY <3>2, <3>3, MinOfSet
    <3>5. d \in S /\ S \subseteq Nat /\ \A x \in S : d <= x
      BY <3>1, <3>2, <3>3
    <3>6. Min(S) \in Nat /\ Min(S) <= d /\ d <= Min(S)
      BY <3>4, <3>5
    <3>7. d \in Int
      BY <3>5
    <3>8. Min(S) = d
      BY ONLY <3>6, <3>7
    <3> QED BY <3>3, <3>8
  <2> QED BY <2>4, <2>5
<1>14. SelectBit(i, base, word) = base + t * ByteBits + SelectTable(i - before, byte)
  BY <1>10 DEF SelectBit, before, byte, nb
<1> HIDE DEF word
<1> QED BY <1>3, <1>2, <1>13, <1>14 DEF word

---------------------------------------------------------------------------
(* Samples.                                                                *)

\* One bit out of BlockBits has its position stored, of those of the kind before
\* e; those that are stored beyond are not too early for their number.
SamplesHold(D, samples, e, m) ==
  /\ samples \in Seq(0 .. m)
  /\ \A j \in Nat : j < Len(samples) =>
       At(samples, j) + 1 \in D /\ j * BlockBits <= Upto(D, At(samples, j))
  /\ \A p \in 0 .. e - 1, j \in Nat : p + 1 \in D /\ Upto(D, p) = j * BlockBits =>
       j < Len(samples) /\ At(samples, j) = p

\* As many samples as there are multiples of BlockBits before seen.
SoManySamples(samples, seen) ==
  /\ seen <= Len(samples) * BlockBits
  /\ Len(samples) * BlockBits < seen + BlockBits

\* The next number that is a multiple.
LEMMA NextSample ==
  ASSUME NEW b \in Nat \ {0}, NEW n \in Nat, NEW x \in Nat, x = n * b,
         NEW seen \in Nat, seen <= x, x < seen + b
  PROVE  (-seen) % b = x - seen /\ x - seen \in 0 .. b - 1
<1>1. PICK r \in 0 .. b - 1 : r = x - seen
  OBVIOUS
<1>2. -n \in Int /\ b * (-n) = -x
  OBVIOUS
<1>3. (b * (-n) + r) % b = r
  BY <1>2, DivModOf
<1>4. b * (-n) + r = -seen
  BY <1>1, <1>2
<1> QED BY <1>1, <1>3, <1>4

\* There is one multiple of b from x on before x + b.
LEMMA OneMultiple ==
  ASSUME NEW b \in Nat \ {0}, NEW j \in Nat, NEW n \in Nat, NEW x \in Nat,
         x <= n * b, n * b < x + b, x <= j * b, j * b < x + b
  PROVE  j = n
<1>1. ASSUME j < n PROVE FALSE
  <2>1. (j + 1) * b <= n * b /\ (j + 1) * b = j * b + b
    BY <1>1
  <2>2. j * b \in Nat /\ n * b \in Nat
    OBVIOUS
  <2> QED BY <2>1, <2>2
<1>2. ASSUME n < j PROVE FALSE
  <2>1. (n + 1) * b <= j * b /\ (n + 1) * b = n * b + b
    BY <1>2
  <2>2. j * b \in Nat /\ n * b \in Nat
    OBVIOUS
  <2> QED BY <2>1, <2>2
<1> QED BY <1>1, <1>2

\* The bit with a number, in a word that has so many.
LEMMA NumberInWord ==
  ASSUME NEW D, Places(D), NEW n \in Int, NEW r \in Nat, NEW x \in Nat,
         x < Cardinality(Following(D, n, r))
  PROVE  \E c \in Following(D, n, r) : Upto(D, n + c) - Upto(D, n) = x
<1> DEFINE S == {c \in Nat : Upto(D, n) + x < Upto(D, n + c + 1)}
<1>1. /\ Upto(D, n + r) = Upto(D, n) + Cardinality(Following(D, n, r))
      /\ Cardinality(Following(D, n, r)) \in 0 .. r /\ Upto(D, n) \in Nat
  BY UptoSplits
<1>2. r > 0 /\ r - 1 \in S
  <2>1. r > 0 /\ r - 1 \in Nat /\ n + (r - 1) + 1 = n + r
    BY <1>1
  <2> QED BY <2>1, <1>1
<1>3. PICK c \in S : \A y \in S : c <= y
  <2>1. S \subseteq Nat /\ S # {}
    BY <1>2
  <2> HIDE DEF S
  <2> QED BY <2>1, LeastElement
<1>4. c \in 0 .. r - 1 /\ c \in Nat /\ Upto(D, n) + x < Upto(D, n + c + 1)
  BY <1>2, <1>3
<1>5. Upto(D, n + c) <= Upto(D, n) + x
  <2>1. CASE c = 0
    BY <2>1, <1>1
  <2>2. CASE c # 0
    <3>1. c - 1 \in Nat /\ ~(c <= c - 1) /\ n + (c - 1) + 1 = n + c
      BY <1>4, <2>2
    <3>2. ~(Upto(D, n) + x < Upto(D, n + c))
      BY <1>3, <3>1
    <3>3. Upto(D, n + c) \in Nat
      BY <1>4, UptoNext
    <3> QED BY <1>1, <3>2, <3>3
  <2> QED BY <2>1, <2>2
<1>6. /\ Upto(D, n + c) \in Nat
      /\ Upto(D, n + c + 1) = Upto(D, n + c) + IF n + c + 1 \in D THEN 1 ELSE 0
  <2>1. n + c \in Int
    BY <1>4
  <2> QED BY <2>1, UptoNext
<1>7. n + c + 1 \in D /\ Upto(D, n + c) - Upto(D, n) = x
  BY <1>1, <1>4, <1>5, <1>6
<1> QED BY <1>4, <1>7 DEF Following

\* What one unit adds: its first r positions are looked at, its word may have more.
LEMMA SampledHolds ==
  ASSUME GroupBits \in Nat \ {0}, BlockBits = 8 * GroupBits,
         NEW D, Places(D), NEW m \in Nat, NEW samples, NEW e \in Nat, SamplesHold(D, samples, e, m),
         NEW seen \in Nat, SoManySamples(samples, seen),
         NEW n \in Nat, NEW width \in 1 .. GroupBits, NEW r \in 0 .. width, n + r <= m + 1,
         seen <= Upto(D, n), NEW inUnit, inUnit = Cardinality(Following(D, n, r)),
         NEW last, last = e \/ (e = n /\ seen = Upto(D, n) /\ last = n + r),
         NEW word, word = Following(D, n, width)
  PROVE  /\ SamplesHold(D, Sampled(samples, seen, inUnit, word, n), last, m)
         /\ SoManySamples(Sampled(samples, seen, inUnit, word, n), seen + inUnit)
<1> DEFINE next == (-seen) % BlockBits
           new == Sampled(samples, seen, inUnit, word, n)
           s == SelectBit(next, n, word)
<1>1. PICK k \in Nat : k = Len(samples)
  BY LenProperties DEF SamplesHold
<1>2. BlockBits \in Nat \ {0} /\ width <= BlockBits /\ r \in Nat /\ width \in Nat /\ width \in 0 .. GroupBits
  OBVIOUS
<1>3. seen <= k * BlockBits /\ k * BlockBits < seen + BlockBits /\ k * BlockBits \in Nat
  BY <1>1, <1>2 DEF SoManySamples
<1>4. next = k * BlockBits - seen /\ next \in 0 .. BlockBits - 1
  <2>1. PICK b \in Nat \ {0} : b = BlockBits
    BY <1>2
  <2>2. PICK x \in Nat : x = k * b
    BY <1>3, <2>1
  <2>3. seen <= x /\ x < seen + b
    BY <1>3, <2>1, <2>2
  <2> HIDE DEF next
  <2>4. (-seen) % b = x - seen /\ x - seen \in 0 .. b - 1
    BY ONLY <2>2, <2>3, b \in Nat \ {0}, k \in Nat, x \in Nat, seen \in Nat, NextSample
  <2>5. next = (-seen) % b
    BY <2>1 DEF next
  <2> QED BY <2>1, <2>2, <2>4, <2>5
<1>5. inUnit \in 0 .. r /\ Upto(D, n) \in Nat /\ Upto(D, n + r) = Upto(D, n) + inUnit
  BY <1>2, UptoSplits
<1>6. new = IF inUnit > next THEN Append(samples, s) ELSE samples
  BY DEF Sampled
<1>7. samples \in Seq(0 .. m)
  BY DEF SamplesHold
<1> HIDE DEF next, s, new
\* A position of the kind in the unit, with a number that is a multiple.
<1>8. ASSUME NEW p \in n .. n + r - 1, p + 1 \in D, seen = Upto(D, n),
             NEW j \in Nat, Upto(D, p) = j * BlockBits
      PROVE  j = k /\ Upto(D, p) - Upto(D, n) = next /\ next < inUnit
  <2>1. p \in Int /\ n <= p /\ p < n + r /\ p - n < r
    BY <1>2
  <2>2. Upto(D, p) - Upto(D, n) \in 0 .. p - n
    BY <2>1, UptoGrows
  <2>3. Upto(D, p) < Upto(D, n + r)
    BY <1>8, <2>1, <1>2, NumberTells
  <2>4. Upto(D, p) \in Nat
    BY <2>1, UptoNext
  <2>5. Upto(D, p) \in seen .. seen + BlockBits - 1
    BY <1>2, <1>5, <1>8, <2>1, <2>2, <2>4
  <2>6. seen <= j * BlockBits /\ j * BlockBits < seen + BlockBits
    BY <2>5, <1>2, <1>8
  <2>7. j = k
    BY <2>6, <1>2, <1>3, OneMultiple
  <2> QED BY <2>3, <2>4, <2>7, <1>4, <1>5, <1>8
<1>9. CASE ~(inUnit > next)
  <2>1. new = samples
    BY <1>6, <1>9
  <2>2. seen + inUnit <= k * BlockBits /\ k * BlockBits < (seen + inUnit) + BlockBits
    BY <1>2, <1>3, <1>4, <1>5, <1>9
  <2>3. ASSUME NEW p \in 0 .. last - 1, NEW j \in Nat, p + 1 \in D, Upto(D, p) = j * BlockBits
        PROVE  j < Len(samples) /\ At(samples, j) = p
    <3>1. CASE p \in 0 .. e - 1
      BY <2>3, <3>1 DEF SamplesHold
    <3>2. CASE p \notin 0 .. e - 1
      <4>1. e = n /\ seen = Upto(D, n) /\ p \in n .. n + r - 1
        BY <2>3, <3>2, <1>2
      <4>2. next < inUnit
        BY <4>1, <2>3, <1>8
      <4> QED BY <4>2, <1>4, <1>5, <1>9
    <3> QED BY <3>1, <3>2
  <2>4. SamplesHold(D, samples, last, m)
    BY <2>3 DEF SamplesHold
  <2> QED BY <1>1, <2>1, <2>2, <2>4 DEF new, SoManySamples
<1>10. CASE inUnit > next
  <2>1. PICK c \in Following(D, n, r) : Upto(D, n + c) - Upto(D, n) = next
    BY <1>2, <1>4, <1>5, <1>10, NumberInWord
  <2>2. c \in 0 .. r - 1 /\ n + c + 1 \in D /\ n + c \in Nat /\ n + c \in 0 .. m
        /\ c \in Following(D, n, width)
    BY <1>2, <2>1 DEF Following
  <2>3. s = n + c
    BY <1>2, <2>1, <2>2, SelectBitFinds DEF s
  <2>4. Upto(D, s) >= k * BlockBits /\ Upto(D, s) \in Nat
    <3>1. Upto(D, n + c) \in Nat
      BY <2>2, UptoNext
    <3> QED BY <3>1, <2>1, <2>3, <1>3, <1>4, <1>5
  <2>5. new = Append(samples, s)
    BY <1>6, <1>10
  <2>6. /\ new \in Seq(0 .. m) /\ Len(new) = k + 1
        /\ new[k + 1] = s /\ \A i \in 1 .. k : new[i] = samples[i]
    BY <2>2, <2>3, <2>5, <1>1, <1>7, AppendProperties
  <2>7. (k + 1) * BlockBits = k * BlockBits + BlockBits
    BY <1>2
  <2>8. SoManySamples(new, seen + inUnit)
    <3>1. seen + inUnit <= (k + 1) * BlockBits /\ (k + 1) * BlockBits < (seen + inUnit) + BlockBits
      BY <2>7, <1>2, <1>3, <1>4, <1>5, <1>10
    <3> QED BY <2>6, <3>1 DEF SoManySamples
  <2>9. At(new, k) = s /\ \A j \in 0 .. k - 1 : At(new, j) = At(samples, j)
    <3>1. \A j \in 0 .. k - 1 : j + 1 \in 1 .. k
      BY <1>1
    <3> QED BY <3>1, <2>6 DEF At
  <2>10. ASSUME NEW j \in Nat, j < k + 1
         PROVE  At(new, j) + 1 \in D /\ j * BlockBits <= Upto(D, At(new, j))
    <3>1. CASE j = k
      BY <3>1, <2>2, <2>3, <2>4, <2>9, <1>3
    <3>2. CASE j < k
      <4>1. At(new, j) = At(samples, j)
        BY <3>2, <2>9, <1>1
      <4>2. At(samples, j) + 1 \in D /\ j * BlockBits <= Upto(D, At(samples, j))
        BY <3>2, <1>1 DEF SamplesHold
      <4> QED BY <4>1, <4>2
    <3> QED BY <3>1, <3>2, <2>10, <1>1
  <2>11. ASSUME NEW p \in 0 .. last - 1, NEW j \in Nat, p + 1 \in D, Upto(D, p) = j * BlockBits
         PROVE  j < k + 1 /\ At(new, j) = p
    <3>1. CASE p \in 0 .. e - 1
      <4>1. j < k /\ At(samples, j) = p
        BY <2>11, <3>1, <1>1 DEF SamplesHold
      <4> QED BY <4>1, <2>9, <1>1
    <3>2. CASE p \notin 0 .. e - 1
      <4>1. e = n /\ seen = Upto(D, n) /\ p \in n .. n + r - 1
        BY <2>11, <3>2, <1>2
      <4>2. j = k /\ Upto(D, p) - Upto(D, n) = next
        BY <4>1, <2>11, <1>8
      <4>3. Upto(D, p) = Upto(D, n + c)
        <5>1. p \in Int /\ n + c \in Int
          BY <4>1, <2>2, <1>2
        <5>2. Upto(D, p) \in Nat /\ Upto(D, n + c) \in Nat
          BY <5>1, UptoNext
        <5> QED BY <4>2, <5>2, <2>1, <1>5
      <4>4. p = n + c
        <5>1. p \in Int /\ n + c \in Int /\ p + 1 \in D /\ (n + c) + 1 \in D
          BY <4>1, <2>2, <2>11, <1>2
        <5> QED BY <4>3, <5>1, NumberIsOne
      <4> QED BY <4>2, <4>4, <2>3, <2>9, <1>1
    <3> QED BY <3>1, <3>2
  <2>12. SamplesHold(D, new, last, m)
    BY <2>6, <2>10, <2>11 DEF SamplesHold
  <2> QED BY <2>8, <2>12 DEF new
<1> QED BY <1>9, <1>10

---------------------------------------------------------------------------
(* All the counts of the blocks.                                           *)

\* The blocks that begin before the end.
LEMMA CeilBegins ==
  ASSUME NEW w \in Nat \ {0}, NEW s \in Nat, NEW c, c = s \div w + (IF s % w # 0 THEN 1 ELSE 0)
  PROVE  /\ c \in Nat /\ s <= c * w
         /\ \A b \in Nat : b < c <=> b * w < s
<1>1. PICK q \in Nat : q = s \div w
  BY DivModNat
<1>2. PICK r \in 0 .. w - 1 : r = s % w
  BY DivModNat
<1>3. s = w * q + r
  BY <1>1, <1>2, DivModNat
<1>4. c = q + (IF r # 0 THEN 1 ELSE 0) /\ c \in Nat
  BY <1>1, <1>2
<1>5. PICK x \in Nat : x = w * q /\ q * w = x
  OBVIOUS
<1>6. (q + 1) * w = x + w
  BY <1>5
<1>7. s <= c * w
  <2>1. CASE r = 0
    BY <2>1, <1>3, <1>4, <1>5
  <2>2. CASE r # 0
    <3>1. c * w = x + w
      BY <2>2, <1>4, <1>6
    <3> QED BY <3>1, <1>3, <1>5
  <2> QED BY <2>1, <2>2
<1>8. ASSUME NEW b \in Nat PROVE b < c <=> b * w < s
  <2>1. PICK y \in Nat : y = b * w
    OBVIOUS
  <2>2. CASE b < q
    <3>1. (b + 1) * w <= x /\ (b + 1) * w = y + w
      BY <2>1, <2>2, <1>5
    <3> QED BY <3>1, <2>1, <2>2, <1>3, <1>4, <1>5
  <2>3. CASE b = q
    <3>1. y = x
      BY <2>1, <2>3, <1>5
    <3> QED BY <3>1, <2>1, <2>3, <1>3, <1>4, <1>5
  <2>4. CASE b > q
    <3>1. x + w <= y
      BY <2>1, <2>4, <1>5, <1>6
    <3>2. ~(b < c) /\ ~(y < s)
      BY <3>1, <2>4, <1>3, <1>4, <1>5
    <3> QED BY <3>2, <2>1
  <2> QED BY <2>2, <2>3, <2>4
<1> QED BY <1>4, <1>7, <1>8

\* The blocks begin before the end of the bits, and go up to it.
LEMMA BlocksBegin ==
  ASSUME SourceOK, size \in Nat
  PROVE  /\ NumBlocks \in Nat /\ size <= NumBlocks * BlockBits
         /\ \A b \in Nat : b < NumBlocks <=> b * BlockBits < size
<1>1. PICK w \in Nat \ {0} : w = BlockBits
  BY Widths
<1>2. NumBlocks = size \div w + (IF size % w # 0 THEN 1 ELSE 0)
  BY <1>1 DEF NumBlocks
<1>3. /\ NumBlocks \in Nat /\ size <= NumBlocks * w
      /\ \A b \in Nat : b < NumBlocks <=> b * w < size
  BY <1>2, CeilBegins
<1> QED BY <1>1, <1>3

\* What the counts of a block never exceed.
RankBounded(rank, n) ==
  /\ rank.abs \in 0 .. n
  /\ \A k \in 1 .. 7 : rank.rel[k] \in 0 .. k * GroupBits

\* Every block has its counts, those of groups beyond the bits as well, and the
\* block after the last has them all.
RanksFull ==
  /\ \A i \in 1 .. Len(ranks) : RankBounded(ranks[i], num1s)
  /\ stage = "push" => ranks = <<>>
  /\ stage = "built" =>
       /\ \A g \in Nat : g < 8 * NumBlocks => GroupCounted(ranks, g)
       /\ ranks[NumBlocks + 1].abs = OnesTo(size)

\* There are no more ones before any position than in all.
LEMMA OnesAtMost ==
  ASSUME size \in Nat, NEW n \in Nat
  PROVE  OnesTo(n) \in 0 .. OnesTo(size) /\ OnesTo(size) \in Nat
<1>1. CASE n <= size
  <2>1. OnesTo(size) \in Nat /\ OnesTo(size) - OnesTo(n) \in 0 .. size - n
    BY <1>1, OnesToDiff
  <2>2. OnesTo(n) \in Nat
    BY OnesToNext
  <2> QED BY <2>1, <2>2
<1>2. CASE size <= n
  <2>1. OnesTo(n) = OnesTo(size)
    BY <1>2, OnesToEnd
  <2>2. OnesTo(n) \in Nat
    BY OnesToNext
  <2> QED BY <2>1, <2>2
<1> QED BY <1>1, <1>2

\* There is no table at first.
LEMMA InitRanksFull == InitBits => RanksFull
<1> SUFFICES ASSUME InitBits PROVE RanksFull
  OBVIOUS
<1>1. ranks = <<>> /\ stage = "push"
  BY DEF InitBits
<1>2. Len(ranks) = 0
  BY <1>1
<1> QED BY <1>1, <1>2 DEF RanksFull

\* push_back leaves the table empty.
LEMMA PushRanksFull == ASSUME BitsInv, RanksFull, PushBack PROVE RanksFull'
<1>1. stage = "push" /\ stage' = "push" /\ ranks' = ranks
  BY DEF PushBack
<1>2. ranks = <<>> /\ Len(ranks') = 0
  BY <1>1 DEF RanksFull
<1> QED BY <1>1, <1>2 DEF RanksFull

\* The new ranks are 0.
LEMMA BeginRanksFull == ASSUME BitsInv, RanksFull, BeginIndex PROVE RanksFull'
<1>1. stage' = "index" /\ num1s' = num1s /\ size' = size
      /\ ranks' = [b \in 1 .. NumBlocks + 1 |-> NewRank]
  BY DEF BeginIndex, NumBlocks
<1>2. SourceOK /\ size \in Nat /\ num1s = OnesTo(size)
  BY Widths DEF BitsInv, UnitsOK, CountsOK
<1>3. num1s \in Nat /\ NumBlocks \in Nat /\ GroupBits \in Nat
  BY <1>2, OnesAtMost, BlocksBegin, Widths
<1>4. RankBounded(NewRank, num1s)
  <2>1. \A k \in 1 .. 7 : k * GroupBits \in Nat
    BY <1>3
  <2> QED BY <2>1, <1>3 DEF RankBounded, NewRank, GroupsPerBlock
<1>5. Len(ranks') = NumBlocks + 1 /\ \A i \in 1 .. NumBlocks + 1 : ranks'[i] = NewRank
  <2>1. NumBlocks + 1 \in Nat
    BY <1>3
  <2> HIDE DEF NewRank
  <2> QED BY <2>1, <1>1
<1>6. \A i \in 1 .. Len(ranks') : RankBounded(ranks'[i], num1s')
  <2> HIDE DEF NewRank, NumBlocks
  <2> QED BY <1>1, <1>4, <1>5
<1> QED BY <1>1, <1>6 DEF RanksFull, RankBounded

\* A rank is its two fields.
LEMMA RankParts ==
  ASSUME NEW rank \in RankRecords
  PROVE  \E a \in Int, r \in [1 .. 7 -> Int] : rank = [abs |-> a, rel |-> r]
<1>1. rank = [abs |-> rank.abs, rel |-> rank.rel] /\ rank.abs \in Int
      /\ rank.rel \in [1 .. GroupsPerBlock - 1 -> Int]
  BY DEF RankRecords
<1>2. rank.rel \in [1 .. 7 -> Int]
  BY <1>1 DEF GroupsPerBlock
<1> QED BY <1>1, <1>2

\* What a group's count changes.
LEMMA AtGroupBounded ==
  ASSUME SourceOK, size \in Nat, ranks \in Seq(RankRecords), NEW g \in Nat,
         g \div 8 + 1 \in 1 .. Len(ranks), NEW n \in Nat, onesSoFar \in 0 .. n,
         \A i \in 1 .. Len(ranks) : RankBounded(ranks[i], n),
         GroupCounted(RanksAtGroup(g), g)
  PROVE  \A i \in 1 .. Len(ranks) : RankBounded(RanksAtGroup(g)[i], n)
<1> DEFINE b == g \div 8
           k == g % 8
           new == RanksAtGroup(g)
           v == (onesSoFar - ranks[b + 1].abs) % RelModulus(k)
<1>1. b \in Nat /\ k \in 0 .. 7 /\ g = 8 * b + k
  OBVIOUS
<1>2. GroupBits \in Nat \ {0} /\ BlockBits = 8 * GroupBits
  BY Widths
<1>3. new = IF k = 0 THEN [ranks EXCEPT ![b + 1] = [@ EXCEPT !.abs = onesSoFar]]
            ELSE [ranks EXCEPT ![b + 1] = [@ EXCEPT !.rel[k] = v]]
  BY DEF RanksAtGroup, GroupsPerBlock, SetRel
<1>4. Counted(new[b + 1], b, g)
  BY DEF GroupCounted
<1> HIDE DEF b, k, new, v
<1>5. PICK a \in Int, r \in [1 .. 7 -> Int] : ranks[b + 1] = [abs |-> a, rel |-> r]
  <2>1. ranks[b + 1] \in RankRecords
    BY ElementOfSeq DEF b
  <2> QED BY <2>1, RankParts
<1>6. b + 1 \in 1 .. Len(ranks) /\ DOMAIN ranks = 1 .. Len(ranks)
  <2>1. DOMAIN ranks = 1 .. Len(ranks)
    BY LenProperties
  <2> QED BY <2>1 DEF b
<1>7. a \in 0 .. n /\ \A j \in 1 .. 7 : r[j] \in 0 .. j * GroupBits
  <2>1. RankBounded(ranks[b + 1], n)
    BY <1>6
  <2> QED BY <2>1, <1>5 DEF RankBounded
<1>8. ASSUME NEW i \in 1 .. Len(ranks), i # b + 1 PROVE new[i] = ranks[i]
  BY <1>3, <1>6, <1>8
<1>9. RankBounded(new[b + 1], n)
  <2>1. CASE k = 0
    <3>1. new[b + 1] = [abs |-> onesSoFar, rel |-> r]
      BY <2>1, <1>3, <1>5, <1>6
    <3> QED BY <3>1, <1>7 DEF RankBounded
  <2>2. CASE k # 0
    <3>1. new[b + 1] = [abs |-> a, rel |-> [r EXCEPT ![k] = v]]
      <4>1. new[b + 1] = [ranks[b + 1] EXCEPT !.rel[k] = v]
        BY <2>2, <1>3, <1>6
      <4>2. PICK rank : rank = ranks[b + 1]
        OBVIOUS
      <4>3. rank = [abs |-> a, rel |-> r]
        BY <4>2, <1>5
      <4>4. [rank EXCEPT !.rel[k] = v] = [abs |-> a, rel |-> [r EXCEPT ![k] = v]]
        <5>1. ASSUME NEW j, NEW value
              PROVE  [rank EXCEPT !.rel[j] = value] = [abs |-> a, rel |-> [r EXCEPT ![j] = value]]
          <6>1. PICK z : z = [rank EXCEPT !.rel[j] = value]
            OBVIOUS
          <6>2. z = [abs |-> a, rel |-> [r EXCEPT ![j] = value]]
            BY ONLY <4>3, <6>1
          <6> QED BY <6>1, <6>2
        <5> QED BY <5>1
      <4> QED BY <4>1, <4>2, <4>4
    <3>2. k \in 1 .. 7 /\ g % 8 = k
      BY <2>2, <1>1 DEF k
    <3>3. v = OnesTo(g * GroupBits) - OnesTo(b * BlockBits)
      <4>1. Rel(new[b + 1], k) = OnesTo(g * GroupBits) - OnesTo(b * BlockBits)
        BY <1>4, <3>2 DEF Counted
      <4>2. [r EXCEPT ![k] = v][k] = v
        BY <3>2
      <4>3. Rel(new[b + 1], k) = [r EXCEPT ![k] = v][k]
        BY <2>2, <3>1 DEF Rel
      <4> QED BY <4>1, <4>2, <4>3
    <3>4. v \in 0 .. k * GroupBits
      <4>1. PICK x \in Nat, y \in Nat : x = g * GroupBits /\ y = b * BlockBits
        BY <1>1, <1>2
      <4>2. y <= x /\ x - y = k * GroupBits
        BY <4>1, <1>1, <1>2
      <4>3. OnesTo(x) - OnesTo(y) \in 0 .. x - y
        <5>1. x \in Int /\ y \in Int
          BY <4>1
        <5> QED BY ONLY <5>1, <4>2, size \in Nat, OnesToDiff
      <4> QED BY <3>3, <4>1, <4>2, <4>3
    <3>5. ASSUME NEW j \in 1 .. 7 PROVE [r EXCEPT ![k] = v][j] \in 0 .. j * GroupBits
      BY <3>4, <1>7
    <3> QED BY <3>1, <3>5, <1>7 DEF RankBounded
  <2> QED BY <2>1, <2>2
<1>10. ASSUME NEW i \in 1 .. Len(ranks) PROVE RankBounded(new[i], n)
  BY <1>8, <1>9
<1> QED BY <1>10 DEF new

\* A count that is stored is within its bounds.
LEMMA IndexRanksFull == ASSUME BitsInv, RanksFull, IndexUnit PROVE RanksFull'
<1> DEFINE U == UnitBits
           Q == UnitsPerGroup
           u == unitId
           g == (u * U) \div GroupBits
<1>1. /\ stage = "index" /\ stage' = "index" /\ num1s' = num1s /\ size' = size /\ source' = source
      /\ u < Len(units) /\ unitId' = u + 1
      /\ ranks' = IF (u * U) % GroupBits = 0 THEN RanksAtGroup(g) ELSE ranks
  BY DEF IndexUnit
<1>2. /\ SourceOK /\ UnitsOK /\ size \in Nat /\ num1s = OnesTo(size) /\ onesSoFar = OnesTo(u * U)
      /\ U \in Nat \ {0} /\ Q \in {1, 2} /\ GroupBits \in Nat \ {0} /\ GroupBits = Q * U
      /\ BlockBits = 8 * GroupBits
      /\ ranks \in Seq(RankRecords) /\ Len(ranks) = NumBlocks + 1
  BY <1>1, Widths DEF BitsInv, UnitsOK, CountsOK
<1>3. u \in Nat
  <2>1. Len(units) \in Nat /\ u \in 0 .. Len(units)
    BY LenProperties DEF BitsInv, UnitsOK, CountsOK
  <2> QED BY <2>1
<1>4. num1s \in Nat /\ onesSoFar \in 0 .. num1s
  <2>1. u * U \in Nat
    BY <1>2, <1>3
  <2> QED BY <2>1, <1>2, OnesAtMost
<1> HIDE DEF U, Q, u, g
<1>5. \A i \in 1 .. Len(ranks') : RankBounded(ranks'[i], num1s)
  <2>1. CASE (u * U) % GroupBits # 0
    BY <2>1, <1>1 DEF RanksFull
  <2>2. CASE (u * U) % GroupBits = 0
    <3>1. u % Q = 0
      <4>1. U \in Nat \ {0} /\ Q \in {1, 2} /\ GroupBits = Q * U
        BY <1>2
      <4>2. (u * U) % (Q * U) = 0 <=> u % Q = 0
        BY ONLY <4>1, <1>3, GroupAtUnit
      <4> QED BY ONLY <4>1, <4>2, <2>2
    <3>2. g = u \div Q /\ g \in Nat /\ u = g * Q
      <4>1. (u * U) \div (Q * U) = u \div Q /\ u \div Q \in Nat /\ u = (u \div Q) * Q
        BY <3>1, <1>2, <1>3, GroupAtUnit
      <4> QED BY <4>1, <1>2 DEF g
    <3>3. g < NumGroups /\ g * GroupBits < size
      BY <3>2, <1>1, <1>2, GroupsBegin DEF Q, u
    <3>4. g \div 8 + 1 \in 1 .. Len(ranks)
      <4>1. g \div 8 + 1 <= NumBlocks
        BY <3>2, <3>3, <1>2, BlockOfGroup DEF NumBlocks
      <4>2. NumBlocks \in Nat /\ g \div 8 \in Nat
        BY <1>2, <3>2, BlocksBegin
      <4> QED BY <4>1, <4>2, <1>2
    <3>5. ranks' = RanksAtGroup(g)
      BY <2>2, <1>1
    <3>6. GroupCounted(RanksAtGroup(g), g)
      <4>1. BitsInv'
        BY IndexUnitInv
      <4>2. PICK h \in Nat : h = g
        BY <3>2
      <4>3. h * UnitsPerGroup' < unitId'
        BY <1>1, <1>2, <1>3, <3>2, <4>2 DEF UnitsPerGroup, Q
      <4>4. (GroupCounted(ranks, h))'
        BY <4>1, <4>3, <1>1 DEF BitsInv, CountsOK
      <4>5. OneSet' = OneSet
        BY <1>1 DEF OneSet
      <4>6. GroupCounted(ranks', h)
        BY <4>4, <4>5 DEF GroupCounted, Counted, OnesTo
      <4> QED BY <4>2, <4>6, <3>5
    <3>7. \A i \in 1 .. Len(ranks) : RankBounded(RanksAtGroup(g)[i], num1s)
      BY <3>2, <3>4, <3>6, <1>2, <1>4, AtGroupBounded DEF RanksFull
    <3>8. Len(ranks') = Len(ranks)
      <4>1. DOMAIN ranks' = DOMAIN ranks /\ DOMAIN ranks = 1 .. Len(ranks) /\ Len(ranks) \in Nat
        BY <3>5, <1>2, LenProperties DEF RanksAtGroup
      <4>2. ranks' \in Seq(RankRecords)
        BY IndexUnitInv, <1>1 DEF BitsInv, CountsOK, RankRecords
      <4> QED BY <4>1, <4>2, LenProperties
    <3> QED BY <3>5, <3>7, <3>8
  <2> QED BY <2>1, <2>2
<1> QED BY <1>1, <1>5 DEF RanksFull, RankBounded

\* The counts of the groups from some on are those of the end.
ClosedFrom(new, old, groups, total) ==
  /\ new.abs = old.abs
  /\ \A k \in 1 .. 7 :
       new.rel[k] = IF k > groups THEN (total - old.abs) % RelModulus(k) ELSE old.rel[k]

\* Block b + 1 is the last; its groups up to the given number have bits.
LastIs(b, groups) ==
  /\ b = (size - 1) \div BlockBits
  /\ groups = ((size - 1) \div GroupBits) % GroupsPerBlock

\* What the end of build_index writes.
LEMMA ClosedRanks ==
  ASSUME SourceOK, size \in Nat, ranks \in Seq(RankRecords), Len(ranks) = NumBlocks + 1,
         onesSoFar \in Int, NEW b, NEW groups, LastIs(b, groups)
  PROVE  /\ RanksClosed[NumBlocks + 1].abs = onesSoFar
         /\ RanksClosed[NumBlocks + 1].rel = ranks[NumBlocks + 1].rel
         /\ size % BlockBits # 0 => b + 1 = NumBlocks
              /\ ClosedFrom(RanksClosed[b + 1], ranks[b + 1], groups, onesSoFar)
         /\ \A i \in 1 .. NumBlocks :
              size % BlockBits = 0 \/ i # b + 1 => RanksClosed[i] = ranks[i]
<1> DEFINE n == NumBlocks
           tail == [k \in DOMAIN ranks[b + 1].rel |->
                      IF k > groups THEN (onesSoFar - ranks[b + 1].abs) % RelModulus(k)
                      ELSE ranks[b + 1].rel[k]]
           filled == IF size % BlockBits = 0 THEN ranks
                     ELSE [ranks EXCEPT ![b + 1] = [@ EXCEPT !.rel = tail]]
           closed == [filled EXCEPT ![Len(ranks)] = [@ EXCEPT !.abs = onesSoFar]]
<1>1. RanksClosed = closed
  BY DEF RanksClosed, LastIs
<1>2. n \in Nat /\ BlockBits \in Nat \ {0} /\ Len(ranks) = n + 1 /\ DOMAIN ranks = 1 .. n + 1
  BY BlocksBegin, Widths, LenProperties
<1>3. ASSUME size % BlockBits # 0 PROVE b + 1 = n /\ b \in Nat
  <2>1. size \div BlockBits \in Nat /\ size % BlockBits \in 0 .. BlockBits - 1
        /\ size = BlockBits * (size \div BlockBits) + (size % BlockBits)
    BY <1>2, DivModNat
  <2>2. n = size \div BlockBits + 1
    BY <1>3 DEF NumBlocks
  <2>3. PICK d \in Nat, r \in 1 .. BlockBits - 1 : d = size \div BlockBits /\ r = size % BlockBits
    BY <2>1, <1>2, <1>3
  <2>4. size - 1 = BlockBits * d + (r - 1) /\ r - 1 \in 0 .. BlockBits - 1
    <3>1. PICK x \in Nat : x = BlockBits * d
      BY <1>2
    <3>2. size = x + r
      BY <2>1, <2>3, <3>1
    <3> QED BY <3>1, <3>2, <1>2
  <2>5. PICK r1 \in 0 .. BlockBits - 1 : r1 = r - 1
    BY <2>4
  <2>6. (BlockBits * d + r1) \div BlockBits = d
    BY <1>2, DivModOf
  <2>7. b = d
    BY <2>4, <2>5, <2>6 DEF LastIs
  <2> QED BY <2>2, <2>3, <2>7
<1> HIDE DEF n, tail
<1>4. ASSUME NEW i \in 1 .. n
      PROVE  closed[i] = filled[i]
  <2>1. i # n + 1 /\ DOMAIN filled = 1 .. n + 1 /\ i \in 1 .. n + 1
    BY <1>2, <1>4
  <2> HIDE DEF filled
  <2> QED BY <2>1, <1>2
<1>5. filled[n + 1] = ranks[n + 1] /\ n + 1 \in DOMAIN filled
  <2>1. n + 1 \in 1 .. n + 1 /\ DOMAIN filled = 1 .. n + 1
    BY <1>2
  <2>2. size % BlockBits # 0 => n + 1 # b + 1
    BY <1>2, <1>3
  <2> QED BY <2>1, <2>2, <1>2
<1>6. PICK a \in Int, q \in [1 .. 7 -> Int] : ranks[n + 1] = [abs |-> a, rel |-> q]
  <2>1. ranks[n + 1] \in RankRecords
    BY <1>2, ElementOfSeq
  <2> QED BY <2>1, RankParts
<1>7. closed[n + 1].abs = onesSoFar /\ closed[n + 1].rel = ranks[n + 1].rel
  <2> HIDE DEF filled
  <2>1. closed[n + 1] = [ranks[n + 1] EXCEPT !.abs = onesSoFar]
    BY <1>2, <1>5
  <2>2. [ranks[n + 1] EXCEPT !.abs = onesSoFar] = [abs |-> onesSoFar, rel |-> q]
    BY <1>6
  <2> QED BY <2>1, <2>2, <1>6
<1>8. ASSUME size % BlockBits # 0
      PROVE  ClosedFrom(closed[b + 1], ranks[b + 1], groups, onesSoFar)
  <2>1. b + 1 = n /\ n \in 1 .. n /\ b + 1 \in 1 .. n + 1
    BY SMTT(30), <1>2, <1>3, <1>8
  <2>2. closed[b + 1] = filled[b + 1]
    BY <2>1, <1>4
  <2>3. filled[b + 1] = [ranks[b + 1] EXCEPT !.rel = tail]
    BY <2>1, <1>2, <1>8
  <2>4. PICK x \in Int, y \in [1 .. 7 -> Int] : ranks[b + 1] = [abs |-> x, rel |-> y]
    <3>1. ranks[b + 1] \in RankRecords
      BY <2>1, <1>2, ElementOfSeq
    <3> QED BY <3>1, RankParts
  <2>5. filled[b + 1] = [abs |-> x, rel |-> tail]
    <3>1. PICK old, z : old = ranks[b + 1] /\ z = [old EXCEPT !.rel = tail]
      OBVIOUS
    <3>2. z = [abs |-> x, rel |-> tail]
      BY <2>4, <3>1
    <3> QED BY <2>3, <3>1, <3>2
  <2>6. tail = [k \in 1 .. 7 |-> IF k > groups THEN (onesSoFar - x) % RelModulus(k) ELSE y[k]]
    BY <2>4 DEF tail
  <2> HIDE DEF closed, filled
  <2> QED BY <2>2, <2>4, <2>5, <2>6 DEF ClosedFrom
<1>9. ASSUME NEW i \in 1 .. n, size % BlockBits = 0 \/ i # b + 1
       PROVE  closed[i] = ranks[i]
  <2>1. filled[i] = ranks[i]
    <3>1. i \in 1 .. n + 1
      BY <1>2, <1>9
    <3> QED BY <3>1, <1>2, <1>9
  <2> HIDE DEF closed, filled
  <2> QED BY <2>1, <1>4
<1> HIDE DEF closed
<1> QED BY <1>1, <1>2, <1>3, <1>7, <1>8, <1>9 DEF n

\* The groups of the last block that have no bits are those after the one with
\* the last bit.
LEMMA GroupBeyond ==
  ASSUME NEW w \in Nat \ {0}, NEW s \in Nat \ {0}, NEW g \in Nat, s <= g * w,
         NEW b, b = (s - 1) \div (8 * w), g \div 8 = b,
         NEW groups, groups = ((s - 1) \div w) % 8
  PROVE  /\ groups \in 0 .. 7 /\ g % 8 \in 1 .. 7 /\ groups < g % 8
         /\ s <= (8 * b + groups + 1) * w
<1>1. PICK t \in Nat : t = s - 1
  OBVIOUS
<1>2. PICK e \in Nat : e = t \div w
  BY DivModNat
<1>3. PICK r \in 0 .. w - 1 : r = t % w
  BY DivModNat
<1>4. t = w * e + r
  BY <1>2, <1>3, DivModNat
<1>5. e \div 8 = b
  <2>1. (t \div w) \div 8 = t \div (8 * w)
    OBVIOUS
  <2> QED BY <2>1, <1>1, <1>2
<1>6. PICK k \in 0 .. 7 : k = e % 8
  BY <1>2
<1>7. b \in Nat /\ e = 8 * b + k
  <2>1. e \div 8 \in Nat /\ e = 8 * (e \div 8) + (e % 8)
    OBVIOUS
  <2> QED BY <2>1, <1>5, <1>6
<1>8. e < g
  <2>1. ASSUME g <= e PROVE FALSE
    <3>1. g * w <= w * e
      BY <2>1
    <3>2. g * w \in Nat /\ w * e \in Nat
      OBVIOUS
    <3> QED BY <3>1, <3>2, <1>1, <1>4
  <2> QED BY <2>1
<1>9. k < g % 8 /\ g % 8 \in 1 .. 7
  <2>1. g = 8 * b + (g % 8) /\ g % 8 \in 0 .. 7
    OBVIOUS
  <2> QED BY <2>1, <1>7, <1>8
<1>10. s <= (e + 1) * w
  <2>1. (e + 1) * w = w * e + w /\ w * e \in Nat
    OBVIOUS
  <2> QED BY <2>1, <1>1, <1>4
<1>11. 8 * b + k + 1 = e + 1
  BY <1>7
<1>12. groups = k
  BY <1>1, <1>2, <1>6
<1> QED BY <1>9, <1>10, <1>11, <1>12

\* At the end every group of every block has its count.
LEMMA FinishRanksFull == ASSUME BitsInv, RanksFull, FinishIndex PROVE RanksFull'
<1>1. /\ UNCHANGED <<source, units, size, num1s, unitId, onesSoFar>>
      /\ stage = "index" /\ stage' = "built" /\ unitId = Len(units) /\ ranks' = RanksClosed
  BY DEF FinishIndex
<1>2. /\ SourceOK /\ UnitsOK /\ size \in Nat /\ GroupBits \in Nat \ {0} /\ UnitBits \in Nat \ {0}
      /\ BlockBits = 8 * GroupBits /\ BlockBits \in Nat \ {0}
      /\ ranks \in Seq(RankRecords) /\ Len(ranks) = NumBlocks + 1
      /\ num1s = OnesTo(size) /\ onesSoFar = OnesTo(unitId * UnitBits)
  BY <1>1, Widths DEF BitsInv, UnitsOK, CountsOK
<1>3. NumBlocks \in Nat /\ size <= NumBlocks * BlockBits
      /\ \A b \in Nat : b < NumBlocks <=> b * BlockBits < size
  BY <1>2, BlocksBegin
<1>4. /\ OneSet' = OneSet /\ NumBlocks' = NumBlocks
      /\ \A g \in Nat : g * GroupBits < size => GroupCounted(ranks', g)
      /\ Len(ranks') = NumBlocks + 1
  <2>1. OneSet' = OneSet /\ NumBlocks' = NumBlocks
    BY <1>1 DEF OneSet, NumBlocks
  <2>2. BitsInv'
    BY FinishIndexInv
  <2>3. ASSUME NEW g \in Nat, g * GroupBits < size PROVE GroupCounted(ranks', g)
    <3>1. (GroupCounted(ranks, g))'
      BY <2>2, <2>3, <1>1 DEF BitsInv, CountsOK
    <3> QED BY <3>1, <2>1 DEF GroupCounted, Counted, OnesTo
  <2>4. Len(ranks') = NumBlocks + 1
    BY <2>1, <2>2, <1>1 DEF BitsInv, CountsOK
  <2> QED BY <2>1, <2>3, <2>4
<1>5. onesSoFar = OnesTo(size) /\ OnesTo(size) \in Nat
  <2>1. size <= unitId * UnitBits /\ unitId * UnitBits \in Nat
    <3>1. PICK n \in Nat : n = NumGroups
      BY <1>2, GroupsBegin
    <3>2. PICK Q \in {1, 2} : Q = UnitsPerGroup
      BY <1>2, Widths
    <3>3. size <= GroupBits * n /\ GroupBits = Q * UnitBits /\ unitId = Q * n
      BY <3>1, <3>2, <1>1, <1>2, Widths DEF UnitsOK
    <3>4. (Q * UnitBits) * n = (Q * n) * UnitBits /\ (Q * n) * UnitBits \in Nat
      BY <1>2
    <3> QED BY <3>3, <3>4
  <2> QED BY <2>1, <1>2, OnesToEnd, OnesAtMost
<1>6. PICK b, groups : LastIs(b, groups)
  BY DEF LastIs
<1>7. /\ ranks'[NumBlocks + 1].abs = OnesTo(size)
      /\ ranks'[NumBlocks + 1].rel = ranks[NumBlocks + 1].rel
      /\ size % BlockBits # 0 => b + 1 = NumBlocks
           /\ ClosedFrom(ranks'[b + 1], ranks[b + 1], groups, OnesTo(size))
      /\ \A i \in 1 .. NumBlocks :
           size % BlockBits = 0 \/ i # b + 1 => ranks'[i] = ranks[i]
  <2>1. onesSoFar \in Int
    BY <1>5
  <2> QED BY <2>1, <1>1, <1>2, <1>5, <1>6, ClosedRanks
\* A group without bits, in the last block.
<1>8. ASSUME size % BlockBits # 0, NEW g \in Nat, size <= g * GroupBits, g \div 8 = b
      PROVE  /\ GroupCounted(ranks', g)
             /\ g % 8 \in 1 .. 7 /\ ranks'[b + 1].rel[g % 8] \in 0 .. (g % 8) * GroupBits
  <2>1. b \in Nat /\ b + 1 = NumBlocks /\ b * BlockBits < size /\ size \in Nat \ {0}
    <3>1. b \in Nat
      BY <1>8
    <3>2. b + 1 = NumBlocks
      BY <1>7, <1>8
    <3>3. b < NumBlocks
      BY <3>1, <3>2
    <3>4. b * BlockBits \in Nat
      BY <1>2, <3>1
    <3> QED BY <1>2, <1>3, <3>1, <3>2, <3>3, <3>4
  <2>2. PICK k \in 1 .. 7 : k = g % 8 /\ groups < k /\ groups \in 0 .. 7
                            /\ size <= (8 * b + groups + 1) * GroupBits
    <3>1. b = (size - 1) \div (8 * GroupBits) /\ groups = ((size - 1) \div GroupBits) % 8
      BY <1>2, <1>6 DEF LastIs, GroupsPerBlock
    <3> QED BY <3>1, <1>2, <1>8, <2>1, GroupBeyond
  <2>3. ranks[b + 1].abs = OnesTo(b * BlockBits)
    <3>1. PICK h \in Nat : h = 8 * b
      BY <2>1
    <3>2. h \div 8 = b
      BY <2>1, <3>1
    <3>3. h * GroupBits = b * BlockBits
      BY <2>1, <3>1, <1>2
    <3>4. GroupCounted(ranks', h)
      BY <1>4, <2>1, <3>3
    <3>5. ranks'[b + 1].abs = OnesTo(b * BlockBits)
      BY <3>2, <3>4 DEF GroupCounted, Counted
    <3> QED BY <3>5, <1>7, <1>8 DEF ClosedFrom
  <2> DEFINE v == OnesTo(size) - OnesTo(b * BlockBits)
  <2>4. v \in 0 .. k * GroupBits
    <3>1. PICK x \in Nat : x = b * BlockBits
      BY <1>2, <2>1
    <3>2. OnesTo(size) - OnesTo(x) \in 0 .. size - x
      <4>1. x \in Int /\ size \in Int /\ x <= size
        BY <2>1, <3>1, <1>2
      <4> QED BY ONLY <4>1, size \in Nat, <1>2, OnesToDiff
    <3>3. size - x <= k * GroupBits
      <4>1. (8 * b + groups + 1) * GroupBits = x + (groups + 1) * GroupBits
        BY <2>1, <2>2, <3>1, <1>2
      <4>2. (groups + 1) * GroupBits <= k * GroupBits
        BY <2>2, <1>2
      <4>3. (groups + 1) * GroupBits \in Nat /\ k * GroupBits \in Nat
        BY <2>2, <1>2
      <4> QED BY <4>1, <4>2, <4>3, <2>2, <1>2
    <3>4. k * GroupBits \in Nat
      BY <1>2
    <3> QED BY <3>1, <3>2, <3>3, <3>4, <1>2
  <2> HIDE DEF v
  <2>5. v % RelModulus(k) = v
    <3>1. RelModulus(k) \in Nat \ {0} /\ k * GroupBits < RelModulus(k)
      <4>1. CASE k = 1
        BY <4>1, <1>2 DEF RelModulus
      <4>2. CASE k \in {2, 3}
        BY <4>2, <1>2 DEF RelModulus
      <4>3. CASE k \in {4, 5, 6, 7}
        BY SMTT(30), <4>3, <1>2 DEF RelModulus
      <4> QED BY <4>1, <4>2, <4>3
    <3>2. v \in 0 .. RelModulus(k) - 1
      <4>1. k * GroupBits \in Nat
        BY <1>2
      <4> QED BY <2>4, <3>1, <4>1
    <3>3. RelModulus(k) * 0 + v = v /\ 0 \in Int
      BY <3>1, <3>2
    <3> QED BY <3>1, <3>2, <3>3, DivModOf
  <2>6. ranks'[b + 1].abs = OnesTo(b * BlockBits) /\ ranks'[b + 1].rel[k] = v
    BY <1>7, <1>8, <2>2, <2>3, <2>5 DEF ClosedFrom, v
  <2>7. OnesTo(g * GroupBits) = OnesTo(size)
    <3>1. g * GroupBits \in Int
      BY <1>2
    <3> QED BY <3>1, <1>2, <1>8, OnesToEnd
  <2>8. GroupCounted(ranks', g)
    BY <1>8, <2>2, <2>6, <2>7 DEF GroupCounted, Counted, Rel, v
  <2> QED BY <2>2, <2>4, <2>6, <2>8
<1>9. ASSUME NEW g \in Nat, g < 8 * NumBlocks PROVE GroupCounted(ranks', g)
  <2>1. CASE g * GroupBits < size
    BY <2>1, <1>4
  <2>2. CASE ~(g * GroupBits < size)
    <3>1. PICK c \in Nat : c = g \div 8 /\ c < NumBlocks /\ 8 * c <= g /\ g < 8 * (c + 1)
      BY <1>3, <1>9
    <3>2. size <= g * GroupBits /\ g * GroupBits \in Nat
      BY <2>2, <1>2
    <3>3. size < (c + 1) * BlockBits
      <4>1. (g + 1) * GroupBits <= (8 * (c + 1)) * GroupBits
        BY <3>1, <1>2
      <4>2. (g + 1) * GroupBits = g * GroupBits + GroupBits
            /\ (8 * (c + 1)) * GroupBits = (c + 1) * BlockBits /\ (c + 1) * BlockBits \in Nat
        BY <3>1, <1>2
      <4> QED BY <4>1, <4>2, <3>2, <1>2
    <3>4. c + 1 = NumBlocks
      <4>1. ~((c + 1) * BlockBits < size)
        <5>1. (c + 1) * BlockBits \in Nat
          BY <3>1, <1>2
        <5> QED BY <5>1, <3>3, <1>2
      <4>2. ~(c + 1 < NumBlocks)
        BY <4>1, <1>3, <3>1
      <4> QED BY <4>2, <1>3, <3>1
    <3>5. size % BlockBits # 0
      <4>1. c * BlockBits < size /\ c * BlockBits \in Nat
        BY <3>1, <1>2, <1>3
      <4>2. (c + 1) * BlockBits = c * BlockBits + BlockBits
        BY <3>1, <1>2
      <4>3. PICK r \in 1 .. BlockBits - 1 : size = BlockBits * c + r
        <5>1. PICK x \in Nat : x = c * BlockBits /\ BlockBits * c = x
          BY <4>1, <1>2
        <5>2. size - x \in 1 .. BlockBits - 1
          BY <4>1, <4>2, <5>1, <3>3, <1>2
        <5> QED BY <5>1, <5>2, <1>2
      <4>4. (BlockBits * c + r) % BlockBits = r
        <5>1. r \in 0 .. BlockBits - 1 /\ c \in Int
          BY <1>2
        <5> QED BY <5>1, <1>2, DivModOf
      <4> QED BY <4>3, <4>4, <1>2
    <3>6. g \div 8 = b
      BY <1>3, <1>7, <3>1, <3>4, <3>5, <1>6, <1>2 DEF LastIs
    <3> QED BY <1>8, <3>2, <3>5, <3>6
  <2> QED BY <2>1, <2>2
<1>10. ASSUME NEW i \in 1 .. Len(ranks') PROVE RankBounded(ranks'[i], num1s)
  <2>1. RankBounded(ranks[i], num1s)
    BY <1>2, <1>4, <1>10 DEF RanksFull
  <2>2. CASE i = NumBlocks + 1
    BY <2>1, <2>2, <1>2, <1>5, <1>7 DEF RankBounded
  <2>3. CASE i \in 1 .. NumBlocks /\ (size % BlockBits = 0 \/ i # b + 1)
    BY <2>1, <2>3, <1>7
  <2>4. CASE i \in 1 .. NumBlocks /\ size % BlockBits # 0 /\ i = b + 1
    <3>1. ClosedFrom(ranks'[b + 1], ranks[b + 1], groups, OnesTo(size)) /\ b + 1 = NumBlocks
      BY <2>4, <1>7
    <3>2. b \in Nat /\ b < NumBlocks
      <4>1. b \in Int
        <5>1. size - 1 \in Int
          BY <1>2
        <5> QED BY <5>1, <1>2, <1>6, DivMod DEF LastIs
      <4> QED BY <4>1, <3>1, <2>4, <1>3
    <3>3. ASSUME NEW k \in 1 .. 7 PROVE ranks'[b + 1].rel[k] \in 0 .. k * GroupBits
      <4>1. CASE k > groups
        <5>1. PICK g \in Nat : g = 8 * b + k
          BY <3>2
        <5>2. g \div 8 = b /\ g % 8 = k
          BY <5>1, <3>2
        <5>3. CASE size <= g * GroupBits
          BY <5>2, <5>3, <1>8, <2>4
        <5>4. CASE ~(size <= g * GroupBits)
          <6>1. g * GroupBits < size /\ g * GroupBits \in Nat
            BY <5>4, <1>2
          <6>2. Counted(ranks'[b + 1], b, g)
            BY <6>1, <5>2, <1>4 DEF GroupCounted
          <6>3. ranks'[b + 1].rel[k] = OnesTo(g * GroupBits) - OnesTo(b * BlockBits)
            BY <6>2, <5>2 DEF Counted, Rel
          <6>4. PICK x \in Int, y \in Int : x = g * GroupBits /\ y = b * BlockBits
            BY <6>1, <3>2, <1>2
          <6>5. x - y = k * GroupBits /\ y <= x
            BY <6>4, <5>1, <3>2, <1>2
          <6>6. OnesTo(x) - OnesTo(y) \in 0 .. x - y
            BY ONLY <6>5, x \in Int, y \in Int, <1>2, OnesToDiff
          <6> QED BY <6>3, <6>4, <6>5, <6>6
        <5> QED BY <5>3, <5>4
      <4>2. CASE ~(k > groups)
        <5>1. ranks'[b + 1].rel[k] = ranks[b + 1].rel[k]
          BY <4>2, <3>1 DEF ClosedFrom
        <5> QED BY <5>1, <2>1, <2>4 DEF RankBounded
      <4> QED BY <4>1, <4>2
    <3> QED BY <2>1, <2>4, <3>1, <3>3 DEF RankBounded, ClosedFrom
  <2> QED BY <2>2, <2>3, <2>4, <1>3, <1>4
<1>11. ASSUME NEW g \in Nat, GroupCounted(ranks', g) PROVE (GroupCounted(ranks, g))'
  BY <1>4, <1>11 DEF GroupCounted, Counted, OnesTo
<1>12. OnesTo(size)' = OnesTo(size)
  BY <1>1, <1>4 DEF OnesTo
<1> QED BY <1>1, <1>4, <1>7, <1>9, <1>10, <1>11, <1>12 DEF RanksFull, RankBounded

\* RanksFull is kept.
LEMMA RanksFullStep == BitsInv /\ RanksFull /\ [NextBits]_bitVars => RanksFull'
<1> SUFFICES ASSUME BitsInv, RanksFull, [NextBits]_bitVars PROVE RanksFull'
  OBVIOUS
<1>1. CASE UNCHANGED bitVars
  BY <1>1 DEF bitVars, RanksFull, RankBounded, GroupCounted, Counted, NumBlocks, OnesTo, OneSet
<1> QED BY <1>1, PushRanksFull, BeginRanksFull, IndexRanksFull, FinishRanksFull DEF NextBits

---------------------------------------------------------------------------
(* Zeros, and the samples of both kinds.                                   *)

\* The positions without a one, those after the last bit included.
ZeroSet == (1 .. NumBlocks * BlockBits) \ OneSet

\* The zeros of a range are what the ones leave of it.
LEMMA ZerosFollowing ==
  ASSUME SourceOK, size \in Nat, NEW n \in Nat, NEW r \in Nat, n + r <= NumBlocks * BlockBits
  PROVE  /\ Following(ZeroSet, n, r) = (0 .. r - 1) \ Following(OneSet, n, r)
         /\ Cardinality(Following(ZeroSet, n, r)) = r - Cardinality(Following(OneSet, n, r))
         /\ Cardinality(Following(OneSet, n, r)) \in 0 .. r
<1> DEFINE ones == Following(OneSet, n, r)
           all == 0 .. r - 1
<1>1. ones \subseteq all
  BY DEF Following
<1>2. Following(ZeroSet, n, r) = all \ ones
  <2>1. PICK m \in Int : m = NumBlocks * BlockBits
    BY BlocksBegin, Widths
  <2>2. \A c \in 0 .. r - 1 : n + c + 1 \in 1 .. m
    BY <2>1
  <2> QED BY <2>1, <2>2 DEF Following, ZeroSet
<1>3. IsFiniteSet(all) /\ Cardinality(all) = r
  BY FS_Interval
<1>4. IsFiniteSet(OneSet) /\ OneSet \subseteq Int
  BY OneSetFinite
<1>5. IsFiniteSet(ones) /\ Cardinality(ones) \in 0 .. r
  <2>1. IsFiniteSet(ones)
    BY <1>1, <1>3, FS_Subset
  <2>2. Cardinality(ones) <= r /\ Cardinality(ones) \in Nat
    BY ONLY <2>1, <1>1, <1>3, FS_Subset, FS_CardinalityType
  <2> QED BY ONLY <2>1, <2>2, r \in Nat
<1> HIDE DEF ones, all
<1>6. Cardinality(all \ ones) = r - Cardinality(ones)
  <2>1. IsFiniteSet(all \ ones)
    BY <1>3, FS_Subset
  <2>2. Cardinality(ones \cup (all \ ones)) =
          Cardinality(ones) + Cardinality(all \ ones) - Cardinality(ones \cap (all \ ones))
    BY <1>5, <2>1, FS_Union
  <2>3. ones \cup (all \ ones) = all /\ ones \cap (all \ ones) = {}
    BY <1>1
  <2>4. Cardinality({}) = 0 /\ Cardinality(all \ ones) \in Nat
    BY <2>1, FS_EmptySet, FS_CardinalityType
  <2>5. PICK x, y : x = Cardinality(all \ ones) /\ y = Cardinality(ones) /\ x \in Nat /\ y \in Nat
    BY <2>4, <1>5
  <2>6. r = y + x - 0
    BY <2>2, <2>3, <2>4, <2>5, <1>3
  <2> QED BY <2>5, <2>6
<1> QED BY <1>2, <1>5, <1>6 DEF ones, all

\* Ones and zeros are places of bits, or of what follows the bits.
LEMMA KindPlaces ==
  ASSUME SourceOK, size \in Nat
  PROVE  /\ Places(OneSet) /\ OneSet \subseteq Nat \ {0} /\ OneSet \subseteq 1 .. size
         /\ Places(ZeroSet) /\ ZeroSet \subseteq Nat \ {0}
<1>1. NumBlocks * BlockBits \in Int
  BY BlocksBegin, Widths
<1>2. IsFiniteSet(1 .. NumBlocks * BlockBits) /\ 1 .. NumBlocks * BlockBits \subseteq Nat \ {0}
  BY <1>1, FS_Interval
<1>3. IsFiniteSet(ZeroSet) /\ ZeroSet \subseteq Nat \ {0}
  BY <1>2, FS_Subset DEF ZeroSet
<1>4. OneSet \subseteq 1 .. size /\ OneSet \subseteq Nat \ {0} /\ IsFiniteSet(OneSet)
  BY OneSetFinite DEF OneSet
<1> QED BY <1>3, <1>4 DEF Places

\* A number of zeros is a number of positions without the ones.
LEMMA ZerosUpto ==
  ASSUME SourceOK, size \in Nat, NEW n \in Nat, n <= NumBlocks * BlockBits
  PROVE  Upto(ZeroSet, n) = n - OnesTo(n) /\ OnesTo(n) \in 0 .. n
<1>1. 0 + n = n /\ 0 \in Nat /\ 0 \in Int
  OBVIOUS
<1>2. /\ Cardinality(Following(ZeroSet, 0, n)) = n - Cardinality(Following(OneSet, 0, n))
      /\ Cardinality(Following(OneSet, 0, n)) \in 0 .. n
  BY <1>1, ZerosFollowing
<1>3. ASSUME NEW D, Places(D), D \subseteq Nat \ {0}
      PROVE  Upto(D, n) = Cardinality(Following(D, 0, n))
  <2>1. Upto(D, 0 + n) = Upto(D, 0) + Cardinality(Following(D, 0, n))
        /\ Cardinality(Following(D, 0, n)) \in 0 .. n
    BY <1>1, <1>3, UptoSplits
  <2>2. Before(D, 0) = {}
    <3>1. \A d \in D : ~(d <= 0)
      BY <1>3
    <3> QED BY <3>1 DEF Before
  <2>3. Upto(D, 0) = 0
    BY <2>2, FS_EmptySet DEF Upto
  <2> QED BY <2>1, <2>3
<1>4. /\ Upto(ZeroSet, n) = Cardinality(Following(ZeroSet, 0, n))
      /\ Upto(OneSet, n) = Cardinality(Following(OneSet, 0, n))
  BY <1>3, KindPlaces
<1>5. Upto(OneSet, n) = OnesTo(n)
  BY DEF Upto, OnesTo
<1> QED BY <1>2, <1>4, <1>5

\* The units lie in the blocks.
LEMMA UnitsInBlocks ==
  ASSUME SourceOK, UnitsOK
  PROVE  /\ Len(units) \in Nat /\ UnitBits * Len(units) \in Nat
         /\ size <= UnitBits * Len(units) /\ UnitBits * Len(units) = GroupBits * NumGroups
         /\ UnitBits * Len(units) <= NumBlocks * BlockBits
<1>1. /\ size \in Nat /\ GroupBits \in Nat \ {0} /\ UnitBits \in Nat \ {0} /\ BlockBits = 8 * GroupBits
      /\ UnitsPerGroup \in {1, 2} /\ GroupBits = UnitsPerGroup * UnitBits
      /\ Len(units) = UnitsPerGroup * NumGroups
      /\ size <= GroupBits * NumGroups /\ GroupBits * NumGroups < size + GroupBits
  BY Widths DEF UnitsOK
<1>2. NumGroups \in Nat
  BY GroupsBegin
<1>3. NumBlocks \in Nat /\ size <= NumBlocks * BlockBits
  BY <1>1, BlocksBegin
<1>4. PICK G \in Nat \ {0}, n \in Nat, b \in Nat : G = GroupBits /\ n = NumGroups /\ b = NumBlocks
  BY <1>1, <1>2, <1>3
<1>5. UnitBits * Len(units) = G * n /\ Len(units) \in Nat /\ G * n \in Nat
  <2>1. CASE UnitsPerGroup = 1
    BY <2>1, <1>1, <1>4
  <2>2. CASE UnitsPerGroup = 2
    <3>1. UnitBits * (2 * n) = (2 * UnitBits) * n
      BY <1>1
    <3> QED BY <3>1, <2>2, <1>1, <1>4
  <2> QED BY <2>1, <2>2, <1>1
<1>6. G * n <= b * (8 * G)
  <2>1. G * n < b * (8 * G) + G
    <3>1. b * (8 * G) \in Nat
      OBVIOUS
    <3> QED BY <3>1, <1>1, <1>3, <1>4, <1>5
  <2>2. b * (8 * G) = G * (8 * b)
    OBVIOUS
  <2>3. n < 8 * b + 1
    <3>1. ASSUME 8 * b + 1 <= n PROVE FALSE
      <4>1. G * (8 * b + 1) <= G * n /\ G * (8 * b + 1) = G * (8 * b) + G
        BY <3>1
      <4>2. G * (8 * b) \in Nat
        OBVIOUS
      <4> QED BY <4>1, <4>2, <2>1, <2>2, <1>5
    <3> QED BY <3>1
  <2>4. G * n <= G * (8 * b)
    BY <2>3
  <2> QED BY <2>2, <2>4
<1> QED BY <1>1, <1>4, <1>5, <1>6

---------------------------------------------------------------------------
(* The samples while they are taken and when they are complete.            *)

\* The positions that the units have.
Spread == UnitBits * Len(units)

OnesSampled ==
  /\ SamplesHold(OneSet, select1s, unitId * UnitBits, Spread)
  /\ SoManySamples(select1s, onesSoFar)

\* Zeros that are not bits may be left out of the number: they follow the bits.
ZerosSampled ==
  /\ SamplesHold(ZeroSet, select0s, IF unitId * UnitBits <= size THEN unitId * UnitBits ELSE size,
                 Spread)
  /\ SoManySamples(select0s, zerosSoFar)
  /\ zerosSoFar <= Upto(ZeroSet, unitId * UnitBits)
  /\ unitId * UnitBits <= size => zerosSoFar = Upto(ZeroSet, unitId * UnitBits)

\* The size follows the samples.
SamplesClosed(D, samples) ==
  \E s : samples = Append(s, size) /\ SamplesHold(D, s, size, Spread)

SamplesOK ==
  /\ zerosSoFar \in Nat
  /\ stage = "push" => select0s = <<>> /\ select1s = <<>> /\ zerosSoFar = 0
  /\ ~source.select0 => select0s = <<>>
  /\ ~source.select1 => select1s = <<>>
  /\ stage = "index" /\ source.select1 => OnesSampled
  /\ stage = "index" /\ source.select0 => ZerosSampled
  /\ stage = "built" /\ source.select1 => SamplesClosed(OneSet, select1s)
  /\ stage = "built" /\ source.select0 => SamplesClosed(ZeroSet, select0s)

\* No sample is right as long as no bit was looked at.
LEMMA NoSamples ==
  ASSUME GroupBits \in Nat \ {0}, NEW D, NEW m
  PROVE  SamplesHold(D, <<>>, 0, m) /\ SoManySamples(<<>>, 0)
<1>1. BlockBits \in Nat \ {0}
  BY DEF BlockBits, GroupsPerBlock
<1>2. 0 .. 0 - 1 = {}
  OBVIOUS
<1>3. SamplesHold(D, <<>>, 0, m)
  BY <1>2 DEF SamplesHold
<1>4. Len(<<>>) = 0 /\ 0 * BlockBits = 0
  BY <1>1
<1> QED BY <1>1, <1>3, <1>4 DEF SoManySamples

\* Where the unit of IndexUnit is.
LEMMA UnitAt ==
  ASSUME BitsInv, stage = "index", unitId < Len(units), NEW n, n = unitId * UnitBits
  PROVE  /\ n \in Nat /\ Spread \in Nat /\ n + UnitBits <= Spread /\ Spread <= NumBlocks * BlockBits
         /\ (unitId + 1) * UnitBits = n + UnitBits
         /\ At(units, unitId) = Following(OneSet, n, UnitBits)
         /\ onesSoFar = Upto(OneSet, n)
         /\ UnitBits \in 1 .. GroupBits
<1>1. SourceOK /\ UnitsOK /\ unitId \in Nat /\ onesSoFar = OnesTo(unitId * UnitBits)
      /\ \A u \in 1 .. Len(units) : units[u] = Following(OneSet, (u - 1) * UnitBits, UnitBits)
  BY DEF BitsInv, CountsOK, UnitsOK
<1>2. /\ UnitBits \in Nat \ {0} /\ GroupBits \in Nat \ {0} /\ UnitsPerGroup \in {1, 2}
      /\ GroupBits = UnitsPerGroup * UnitBits
  BY <1>1, Widths
<1>3. Len(units) \in Nat /\ Spread \in Nat /\ Spread <= NumBlocks * BlockBits
  BY <1>1, UnitsInBlocks DEF Spread
<1>4. PICK U \in Nat \ {0}, m \in Nat : U = UnitBits /\ m = Len(units)
  BY <1>2, <1>3
<1>5. n \in Nat /\ (unitId + 1) * U = n + U /\ U * (unitId + 1) = n + U
  BY <1>1, <1>4
<1>6. U * (unitId + 1) <= U * m
  <2>1. PICK k \in Nat : k = unitId + 1 /\ k <= m
    BY <1>1, <1>4
  <2>2. \A a, b, c \in Nat : a <= b => c * a <= c * b
    OBVIOUS
  <2>3. U * k <= U * m
    BY <2>1, <2>2
  <2> QED BY <2>1, <2>3
<1>7. At(units, unitId) = Following(OneSet, n, UnitBits)
  <2>1. unitId + 1 \in 1 .. Len(units) /\ (unitId + 1) - 1 = unitId
    BY <1>1, <1>3
  <2> QED BY <2>1, <1>1 DEF At
<1>8. onesSoFar = Upto(OneSet, n)
  BY <1>1 DEF OnesTo, Upto
<1>9. UnitBits \in 1 .. GroupBits
  BY <1>2
<1> QED BY <1>3, <1>4, <1>5, <1>6, <1>7, <1>8, <1>9 DEF Spread

\* IndexUnit keeps the samples of the ones.
LEMMA OnesStaySampled ==
  ASSUME BitsInv, stage = "index", unitId < Len(units), OnesSampled,
         NEW n, n = unitId * UnitBits, NEW unit, unit = At(units, unitId)
  PROVE  LET new == Sampled(select1s, onesSoFar, Popcount(unit), unit, n)
         IN  /\ SamplesHold(OneSet, new, n + UnitBits, Spread)
             /\ SoManySamples(new, onesSoFar + Popcount(unit))
<1>1. /\ n \in Nat /\ Spread \in Nat /\ n + UnitBits <= Spread
      /\ unit = Following(OneSet, n, UnitBits) /\ onesSoFar = Upto(OneSet, n)
      /\ UnitBits \in 1 .. GroupBits
  BY UnitAt
<1>2. Places(OneSet) /\ GroupBits \in Nat \ {0} /\ BlockBits = 8 * GroupBits
  BY KindPlaces, Widths DEF BitsInv, UnitsOK
<1>3. onesSoFar \in Nat
  BY <1>1, <1>2, UptoGrows
<1>4. SamplesHold(OneSet, select1s, n, Spread) /\ SoManySamples(select1s, onesSoFar)
  BY DEF OnesSampled
<1>5. UnitBits \in 0 .. UnitBits /\ n + UnitBits <= Spread + 1
  BY <1>1
<1>6. PICK l : l = n + UnitBits
  OBVIOUS
<1>7. PICK k : k = Popcount(unit) /\ k = Cardinality(Following(OneSet, n, UnitBits))
  BY <1>1 DEF Popcount
<1>8. onesSoFar <= Upto(OneSet, n)
  BY <1>1, <1>3
<1>9. /\ SamplesHold(OneSet, Sampled(select1s, onesSoFar, k, unit, n), l, Spread)
      /\ SoManySamples(Sampled(select1s, onesSoFar, k, unit, n), onesSoFar + k)
  BY ONLY <1>1, <1>2, <1>3, <1>4, <1>5, <1>6, <1>7, <1>8, SampledHolds
<1> QED BY <1>6, <1>7, <1>9

\* The zeros that IndexUnit counts in a unit: those of r positions.
LEMMA ZerosInUnit ==
  ASSUME BitsInv, stage = "index", unitId < Len(units),
         NEW n, n = unitId * UnitBits, NEW unit, unit = At(units, unitId)
  PROVE  LET r == IF size - n \in 0 .. UnitBits THEN size - n ELSE UnitBits
         IN  /\ r \in 0 .. UnitBits
             /\ UnitZeros(unitId, Popcount(unit)) = Cardinality(Following(ZeroSet, n, r))
             /\ Complement(unit, UnitBits) = Following(ZeroSet, n, UnitBits)
<1> DEFINE r == IF size - n \in 0 .. UnitBits THEN size - n ELSE UnitBits
<1>1. /\ n \in Nat /\ Spread \in Nat /\ n + UnitBits <= Spread /\ Spread <= NumBlocks * BlockBits
      /\ unit = Following(OneSet, n, UnitBits) /\ UnitBits \in 1 .. GroupBits
  BY UnitAt
<1>2. SourceOK /\ size \in Nat /\ NumBlocks * BlockBits \in Int
  <2>1. SourceOK /\ size \in Nat
    BY DEF BitsInv, UnitsOK
  <2> QED BY <2>1, BlocksBegin, Widths
<1>3. r \in 0 .. UnitBits /\ r \in Nat
  BY <1>1, <1>2
<1>4. UnitBits \in Nat /\ GroupBits \in Nat
  BY <1>2, Widths
<1>5. n + r <= NumBlocks * BlockBits /\ n + UnitBits <= NumBlocks * BlockBits
  BY <1>1, <1>2, <1>3, <1>4
<1>6. /\ Following(ZeroSet, n, UnitBits) = (0 .. UnitBits - 1) \ Following(OneSet, n, UnitBits)
      /\ Cardinality(Following(ZeroSet, n, r)) = r - Cardinality(Following(OneSet, n, r))
  <2> HIDE DEF r
  <2> QED BY <1>1, <1>2, <1>3, <1>4, <1>5, ZerosFollowing
<1>7. Following(OneSet, n, UnitBits) = Following(OneSet, n, r)
  <2>1. ASSUME NEW p \in 0 .. UnitBits - 1, n + p + 1 \in OneSet
        PROVE  p \in 0 .. r - 1
    <3>1. n + p + 1 <= size
      BY <2>1, <1>2 DEF OneSet
    <3> QED BY <3>1, <1>1, <1>2, <1>4
  <2>2. 0 .. r - 1 \subseteq 0 .. UnitBits - 1
    BY <1>3, <1>4
  <2> HIDE DEF r
  <2> QED BY <2>1, <2>2 DEF Following
<1>8. UnitZeros(unitId, Popcount(unit)) = r - Cardinality(Following(OneSet, n, r))
  BY <1>1, <1>7 DEF UnitZeros, Popcount
<1> QED BY <1>1, <1>3, <1>6, <1>8 DEF Complement

\* IndexUnit keeps the samples of the zeros.
LEMMA ZerosStaySampled ==
  ASSUME BitsInv, stage = "index", unitId < Len(units), ZerosSampled, zerosSoFar \in Nat,
         NEW n, n = unitId * UnitBits, NEW unit, unit = At(units, unitId),
         NEW zeros, zeros = UnitZeros(unitId, Popcount(unit)),
         NEW new, new = Sampled(select0s, zerosSoFar, zeros, Complement(unit, UnitBits), n)
  PROVE  /\ zeros \in Nat
         /\ SamplesHold(ZeroSet, new, IF n + UnitBits <= size THEN n + UnitBits ELSE size, Spread)
         /\ SoManySamples(new, zerosSoFar + zeros)
         /\ zerosSoFar + zeros <= Upto(ZeroSet, n + UnitBits)
         /\ n + UnitBits <= size => zerosSoFar + zeros = Upto(ZeroSet, n + UnitBits)
<1>1. /\ n \in Nat /\ Spread \in Nat /\ n + UnitBits <= Spread
      /\ UnitBits \in 1 .. GroupBits
  BY UnitAt
<1>2. Places(ZeroSet) /\ GroupBits \in Nat \ {0} /\ BlockBits = 8 * GroupBits /\ size \in Nat
  BY KindPlaces, Widths DEF BitsInv, UnitsOK
<1>3. PICK r : r = IF size - n \in 0 .. UnitBits THEN size - n ELSE UnitBits
  OBVIOUS
<1>4. /\ r \in 0 .. UnitBits /\ zeros = Cardinality(Following(ZeroSet, n, r))
      /\ Complement(unit, UnitBits) = Following(ZeroSet, n, UnitBits)
  BY <1>3, ZerosInUnit
<1>5. PICK e : e = IF n <= size THEN n ELSE size
  OBVIOUS
<1>6. PICK last : last = IF n + UnitBits <= size THEN n + UnitBits ELSE size
  OBVIOUS
<1>7. /\ SamplesHold(ZeroSet, select0s, e, Spread) /\ SoManySamples(select0s, zerosSoFar)
      /\ zerosSoFar <= Upto(ZeroSet, n)
      /\ (n <= size => zerosSoFar = Upto(ZeroSet, n))
  BY <1>5 DEF ZerosSampled
<1>8. /\ r \in Nat /\ n + r <= Spread + 1 /\ n + r <= n + UnitBits /\ e \in Nat
      /\ last = e \/ (e = n /\ n <= size /\ last = n + r)
      /\ n + UnitBits <= size => r = UnitBits
  BY <1>1, <1>2, <1>3, <1>4, <1>5, <1>6
<1>9. last = e \/ (e = n /\ zerosSoFar = Upto(ZeroSet, n) /\ last = n + r)
  BY <1>7, <1>8
<1>10. PICK word : word = Complement(unit, UnitBits)
  OBVIOUS
<1>11. word = Following(ZeroSet, n, UnitBits) /\ new = Sampled(select0s, zerosSoFar, zeros, word, n)
  BY <1>4, <1>10
<1>12. /\ SamplesHold(ZeroSet, Sampled(select0s, zerosSoFar, zeros, word, n), last, Spread)
       /\ SoManySamples(Sampled(select0s, zerosSoFar, zeros, word, n), zerosSoFar + zeros)
  BY ONLY <1>1, <1>2, <1>4, <1>7, <1>8, <1>9, <1>11, zerosSoFar \in Nat, SampledHolds
<1>13. /\ Upto(ZeroSet, n + r) = Upto(ZeroSet, n) + Cardinality(Following(ZeroSet, n, r))
       /\ Cardinality(Following(ZeroSet, n, r)) \in 0 .. r /\ Upto(ZeroSet, n) \in Nat
  <2>1. n \in Int /\ r \in Nat
    BY <1>1, <1>8
  <2> QED BY ONLY <2>1, <1>2, UptoSplits
<1>14. /\ zeros \in Nat
       /\ zerosSoFar + zeros <= Upto(ZeroSet, n + r)
       /\ n <= size => zerosSoFar + zeros = Upto(ZeroSet, n + r)
  BY <1>4, <1>7, <1>8, <1>13
<1>15. PICK a, b : a = n + r /\ b = n + UnitBits /\ a \in Int /\ b \in Int /\ a <= b
  BY <1>1, <1>2, <1>8
<1>16. /\ Upto(ZeroSet, a) \in Nat /\ Upto(ZeroSet, b) \in Nat
       /\ Upto(ZeroSet, b) - Upto(ZeroSet, a) \in 0 .. b - a
  BY ONLY <1>2, <1>15, UptoGrows
<1>17. Upto(ZeroSet, a) <= Upto(ZeroSet, b)
  BY <1>15, <1>16
<1>18. zerosSoFar + zeros <= Upto(ZeroSet, b)
  BY <1>14, <1>15, <1>16, <1>17
<1>19. n + UnitBits <= size => zerosSoFar + zeros = Upto(ZeroSet, b)
  <2>1. ASSUME n + UnitBits <= size PROVE n <= size /\ a = b
    BY <2>1, <1>1, <1>2, <1>8, <1>15
  <2> QED BY <2>1, <1>14, <1>15
<1> QED BY <1>6, <1>11, <1>12, <1>14, <1>15, <1>18, <1>19

\* There are no samples at first.
LEMMA InitSamples == InitBits => SamplesOK
<1>1. ASSUME InitBits PROVE /\ stage = "push" /\ stage # "index" /\ stage # "built" /\ select0s = <<>>
                            /\ select1s = <<>> /\ zerosSoFar = 0 /\ zerosSoFar \in Nat
  BY <1>1 DEF InitBits
<1> QED BY <1>1, Zenon DEF SamplesOK

\* What the bits do not change while the index is built.
LEMMA SameSamples ==
  ASSUME BitsInv, UNCHANGED <<source, units, size>>, stage' \in {"push", "index", "built"},
         stage' # "push" => size = Len(source.bits)
  PROVE  /\ OneSet' = OneSet /\ ZeroSet' = ZeroSet /\ Spread' = Spread /\ UnitBits' = UnitBits
<1>1. OneSet' = OneSet /\ UnitBits' = UnitBits /\ NumBlocks' = NumBlocks
  BY SameBits
<1>2. ZeroSet' = ZeroSet
  BY <1>1 DEF ZeroSet, BlockBits, GroupsPerBlock
<1> QED BY <1>1, <1>2 DEF Spread

\* push_back takes no samples.
LEMMA PushSamples == ASSUME BitsInv, SamplesOK, PushBack PROVE SamplesOK'
<1>1. /\ stage = "push" /\ stage' = stage /\ source' = source /\ select0s' = select0s
      /\ select1s' = select1s /\ zerosSoFar' = zerosSoFar
  BY DEF PushBack
<1> QED BY <1>1, Zenon DEF SamplesOK

\* Nor does the head of build_index.
LEMMA BeginSamples == ASSUME BitsInv, SamplesOK, BeginIndex PROVE SamplesOK'
<1>1. /\ stage = "push" /\ stage' = "index" /\ source' = source /\ select0s' = select0s
      /\ select1s' = select1s /\ zerosSoFar' = zerosSoFar /\ onesSoFar' = onesSoFar
      /\ unitId' = unitId /\ UNCHANGED <<source, units, size>> /\ size = Len(source.bits)
  BY DEF BeginIndex
<1>2. select0s = <<>> /\ select1s = <<>> /\ zerosSoFar = 0
  BY <1>1 DEF SamplesOK
<1>3. SourceOK /\ size \in Nat /\ unitId = 0 /\ onesSoFar = OnesTo(unitId * UnitBits)
  BY <1>1 DEF BitsInv, UnitsOK, CountsOK
<1>4. UnitBits \in Nat \ {0} /\ GroupBits \in Nat \ {0}
  BY <1>3, Widths
<1>5. unitId * UnitBits = 0
  BY <1>3, <1>4
<1>6. onesSoFar = 0
  BY <1>3, <1>5, OnesToZero
<1>7. OneSet' = OneSet /\ ZeroSet' = ZeroSet /\ Spread' = Spread /\ UnitBits' = UnitBits
  BY <1>1, SameSamples
<1>8. (unitId * UnitBits)' = 0
  BY <1>1, <1>5, <1>7
<1>9. OnesSampled'
  <2>1. SamplesHold(OneSet, <<>>, 0, Spread) /\ SoManySamples(<<>>, 0)
    BY <1>4, NoSamples
  <2> QED BY <2>1, <1>1, <1>2, <1>6, <1>7, <1>8 DEF OnesSampled
<1>10. ZerosSampled'
  <2>1. SamplesHold(ZeroSet, <<>>, 0, Spread) /\ SoManySamples(<<>>, 0)
    BY <1>4, NoSamples
  <2>2. Upto(ZeroSet, 0) = 0
    <3>1. OnesTo(0) = 0 /\ 0 \in Nat /\ 0 <= NumBlocks * BlockBits
      <4>1. NumBlocks \in Nat /\ BlockBits \in Nat
        BY <1>3, BlocksBegin, Widths
      <4> QED BY <4>1, <1>3, OnesToZero
    <3>2. Upto(ZeroSet, 0) = 0 - OnesTo(0)
      BY <1>3, <3>1, ZerosUpto
    <3> QED BY <3>1, <3>2
  <2>3. 0 <= size /\ size' = size
    BY <1>1, <1>3
  <2>4. (IF unitId * UnitBits <= size THEN unitId * UnitBits ELSE size)' = 0
    BY <1>8, <2>3
  <2> QED BY <2>1, <2>2, <2>3, <2>4, <1>1, <1>2, <1>7, <1>8 DEF ZerosSampled
<1> QED BY <1>1, <1>2, <1>9, <1>10 DEF SamplesOK

\* A unit adds a sample of a kind when a multiple of 512 is in it.
LEMMA IndexSamples == ASSUME BitsInv, SamplesOK, IndexUnit PROVE SamplesOK'
<1>1. /\ stage = "index" /\ unitId < Len(units) /\ stage' = stage /\ unitId' = unitId + 1
      /\ UNCHANGED <<source, units, size>>
  BY DEF IndexUnit
<1>2. PICK n, unit : n = unitId * UnitBits /\ unit = At(units, unitId)
  OBVIOUS
<1>3. PICK zeros : zeros = UnitZeros(unitId, Popcount(unit))
  OBVIOUS
<1>4. /\ IF source.select0
         THEN /\ select0s' = Sampled(select0s, zerosSoFar, zeros, Complement(unit, UnitBits), n)
              /\ zerosSoFar' = zerosSoFar + zeros
         ELSE UNCHANGED <<select0s, zerosSoFar>>
      /\ select1s' = IF source.select1 THEN Sampled(select1s, onesSoFar, Popcount(unit), unit, n)
                                       ELSE select1s
      /\ onesSoFar' = onesSoFar + Popcount(unit)
  BY <1>2, <1>3 DEF IndexUnit
<1>5. OneSet' = OneSet /\ ZeroSet' = ZeroSet /\ Spread' = Spread /\ UnitBits' = UnitBits
  <2>1. stage' \in {"push", "index", "built"} /\ (stage' # "push" => size = Len(source.bits))
    BY <1>1 DEF BitsInv, UnitsOK
  <2> QED BY <2>1, <1>1, SameSamples
<1>6. (unitId * UnitBits)' = n + UnitBits
  BY <1>1, <1>2, <1>5, UnitAt
<1>7. ASSUME source.select1 PROVE OnesSampled'
  <2>1. OnesSampled
    BY <1>1, <1>7 DEF SamplesOK
  <2>2. PICK new : new = Sampled(select1s, onesSoFar, Popcount(unit), unit, n)
    OBVIOUS
  <2>3. SamplesHold(OneSet, new, n + UnitBits, Spread)
        /\ SoManySamples(new, onesSoFar + Popcount(unit))
    BY <2>1, <2>2, <1>1, <1>2, OnesStaySampled
  <2>4. select1s' = new /\ onesSoFar' = onesSoFar + Popcount(unit)
    BY <2>2, <1>4, <1>7
  <2> QED BY <2>3, <2>4, <1>5, <1>6 DEF OnesSampled
<1>8. ASSUME source.select0 PROVE ZerosSampled' /\ zerosSoFar' \in Nat
  <2>1. ZerosSampled /\ zerosSoFar \in Nat
    BY <1>1, <1>8 DEF SamplesOK
  <2>2. PICK new : new = Sampled(select0s, zerosSoFar, zeros, Complement(unit, UnitBits), n)
    OBVIOUS
  <2>3. PICK end, to : end = (IF n + UnitBits <= size THEN n + UnitBits ELSE size)
                       /\ to = n + UnitBits
    OBVIOUS
  <2>4. /\ zeros \in Nat
        /\ SamplesHold(ZeroSet, new, end, Spread)
        /\ SoManySamples(new, zerosSoFar + zeros)
        /\ zerosSoFar + zeros <= Upto(ZeroSet, to)
        /\ to <= size => zerosSoFar + zeros = Upto(ZeroSet, to)
    BY <2>1, <2>2, <2>3, <1>1, <1>2, <1>3, ZerosStaySampled
  <2>5. select0s' = new /\ zerosSoFar' = zerosSoFar + zeros
    BY <2>2, <1>4, <1>8
  <2>6. zerosSoFar' \in Nat
    BY <2>1, <2>4, <2>5
  <2>7. (IF unitId * UnitBits <= size THEN unitId * UnitBits ELSE size)' = end
    BY <1>1, <1>6, <2>3
  <2>8. (unitId * UnitBits)' = to /\ size' = size
    BY <1>1, <1>6, <2>3
  <2> QED BY <2>4, <2>5, <2>6, <2>7, <2>8, <1>5 DEF ZerosSampled
<1>9. ~source.select1 => select1s' = <<>>
  BY <1>4 DEF SamplesOK
<1>10. ~source.select0 => select0s' = <<>> /\ zerosSoFar' \in Nat
  BY <1>4 DEF SamplesOK
<1>11. source' = source /\ stage' = "index" /\ source.select0 \in BOOLEAN
  BY <1>1, BitInputsAssumption DEF BitsInv, SourceOK
<1>12. zerosSoFar' \in Nat
  BY <1>8, <1>10
<1> QED BY <1>7, <1>8, <1>9, <1>10, <1>11, <1>12 DEF SamplesOK

\* The size is put after the samples.
LEMMA FinishSamples == ASSUME BitsInv, SamplesOK, FinishIndex PROVE SamplesOK'
<1>1. /\ stage = "index" /\ unitId = Len(units) /\ stage' = "built" /\ size' = size
      /\ UNCHANGED <<source, units, size, zerosSoFar, onesSoFar, unitId>>
      /\ select0s' = (IF source.select0 THEN Append(select0s, size) ELSE select0s)
      /\ select1s' = (IF source.select1 THEN Append(select1s, size) ELSE select1s)
  BY DEF FinishIndex
<1>2. OneSet' = OneSet /\ ZeroSet' = ZeroSet /\ Spread' = Spread
  <2>1. stage' \in {"push", "index", "built"} /\ (stage' # "push" => size = Len(source.bits))
    BY <1>1 DEF BitsInv, UnitsOK
  <2> QED BY <2>1, <1>1, SameSamples
<1>3. SourceOK /\ UnitsOK
  BY DEF BitsInv
<1>4. size \in Nat /\ Spread \in Nat /\ size <= Spread /\ unitId * UnitBits = Spread
  <2>1. UnitBits \in Nat /\ Len(units) \in Nat
    BY <1>3, Widths, UnitsInBlocks
  <2> QED BY <2>1, <1>1, <1>3, UnitsInBlocks DEF Spread, UnitsOK
<1>5. ASSUME NEW D, NEW samples, NEW e \in Nat, size <= e, SamplesHold(D, samples, e, Spread)
      PROVE  SamplesHold(D, samples, size, Spread)
  <2>1. 0 .. size - 1 \subseteq 0 .. e - 1
    BY <1>4, <1>5
  <2> QED BY <2>1, <1>5 DEF SamplesHold
<1>6. ASSUME source.select1 PROVE SamplesClosed(OneSet, select1s)'
  <2>1. SamplesHold(OneSet, select1s, Spread, Spread)
    BY <1>1, <1>4, <1>6 DEF SamplesOK, OnesSampled
  <2>2. SamplesHold(OneSet, select1s, size, Spread)
    BY <2>1, <1>4, <1>5
  <2>3. select1s' = Append(select1s, size)
    BY <1>1, <1>6
  <2>4. SamplesClosed(OneSet, Append(select1s, size))
    BY <2>2 DEF SamplesClosed
  <2>5. PICK s : s = select1s
    OBVIOUS
  <2>6. select1s' = Append(s, size) /\ SamplesHold(OneSet, s, size, Spread)
    BY <2>2, <2>3, <2>5
  <2> QED BY <2>6, <1>1, <1>2 DEF SamplesClosed
<1>7. ASSUME source.select0 PROVE SamplesClosed(ZeroSet, select0s)'
  <2>1. PICK e \in Nat : e = (IF Spread <= size THEN Spread ELSE size) /\ size <= e
    BY <1>4
  <2>2. SamplesHold(ZeroSet, select0s, e, Spread)
    BY <2>1, <1>1, <1>4, <1>7 DEF SamplesOK, ZerosSampled
  <2>3. SamplesHold(ZeroSet, select0s, size, Spread)
    BY <2>1, <2>2, <1>5
  <2>4. select0s' = Append(select0s, size)
    BY <1>1, <1>7
  <2>5. PICK s : s = select0s
    OBVIOUS
  <2>6. select0s' = Append(s, size) /\ SamplesHold(ZeroSet, s, size, Spread)
    BY <2>3, <2>4, <2>5
  <2> QED BY <2>6, <1>1, <1>2 DEF SamplesClosed
<1>8. (~source.select1 => select1s' = <<>>) /\ (~source.select0 => select0s' = <<>>)
  BY <1>1 DEF SamplesOK
<1>9. zerosSoFar' \in Nat /\ source' = source /\ stage' = "built"
  BY <1>1 DEF SamplesOK
<1> QED BY <1>6, <1>7, <1>8, <1>9 DEF SamplesOK

\* Every step of the construction keeps the samples.
LEMMA SamplesStep == BitsInv /\ SamplesOK /\ [NextBits]_bitVars => SamplesOK'
<1> SUFFICES ASSUME BitsInv, SamplesOK, [NextBits]_bitVars PROVE SamplesOK'
  OBVIOUS
<1>1. CASE UNCHANGED bitVars
  <2>1. /\ UNCHANGED <<source, stage, units, size, select0s, select1s, unitId, zerosSoFar, onesSoFar>>
    BY <1>1 DEF bitVars
  <2>2. OneSet' = OneSet /\ ZeroSet' = ZeroSet /\ Spread' = Spread /\ UnitBits' = UnitBits
    <3>1. stage' \in {"push", "index", "built"} /\ (stage' # "push" => size = Len(source.bits))
      BY <2>1 DEF BitsInv, SourceOK, UnitsOK
    <3> QED BY <3>1, <2>1, SameSamples
  <2>3. OnesSampled' = OnesSampled
    BY <2>1, <2>2 DEF OnesSampled
  <2>4. ZerosSampled' = ZerosSampled
    BY <2>1, <2>2 DEF ZerosSampled
  <2>5. /\ SamplesClosed(OneSet, select1s)' = SamplesClosed(OneSet, select1s)
        /\ SamplesClosed(ZeroSet, select0s)' = SamplesClosed(ZeroSet, select0s)
    BY <2>1, <2>2 DEF SamplesClosed
  <2> QED BY <2>1, <2>3, <2>4, <2>5 DEF SamplesOK
<1> QED BY <1>1, PushSamples, BeginSamples, IndexSamples, FinishSamples DEF NextBits

\* The samples of ones are positions of bits.
LEMMA OneSamplesInside ==
  ASSUME size \in Nat, NEW samples, NEW e, NEW m \in Nat, SamplesHold(OneSet, samples, e, m)
  PROVE  samples \in Seq(0 .. size)
<1>1. samples \in Seq(0 .. m)
  BY DEF SamplesHold
<1>2. Len(samples) \in Nat /\ DOMAIN samples = 1 .. Len(samples)
  BY <1>1
<1>3. ASSUME NEW i \in 1 .. Len(samples) PROVE samples[i] \in 0 .. size
  <2>1. PICK j \in Nat : j = i - 1 /\ j < Len(samples) /\ i = j + 1
    BY <1>2
  <2>2. At(samples, j) + 1 \in OneSet
    BY <2>1 DEF SamplesHold
  <2>3. samples[i] + 1 \in 1 .. size /\ samples[i] \in 0 .. m
    BY <2>1, <2>2, <1>1 DEF At, OneSet
  <2> QED BY <2>3
<1>4. samples \in [1 .. Len(samples) -> 0 .. size]
  BY <1>1, <1>2, <1>3
<1> QED BY <1>2, <1>4

\* The invariants bound every member of the index.
LEMMA InvBitsTypeOK == BitsInv /\ RanksFull /\ SamplesOK => BitsTypeOK
<1> SUFFICES ASSUME BitsInv, RanksFull, SamplesOK PROVE BitsTypeOK
  OBVIOUS
<1>1. SourceOK /\ UnitsOK /\ CountsOK
  BY DEF BitsInv
<1>2. /\ source \in BitInputs /\ stage \in {"push", "index", "built"}
      /\ size \in 0 .. Len(source.bits) /\ size \in Nat
      /\ units \in Seq(SUBSET (0 .. UnitBits - 1))
      /\ unitId \in 0 .. Len(units)
      /\ num1s = OnesTo(size) /\ onesSoFar = OnesTo(unitId * UnitBits)
  BY <1>1 DEF SourceOK, UnitsOK, CountsOK
<1>3. UnitBits \in Nat \ {0} /\ Len(units) \in Nat /\ Spread \in Nat /\ size <= Spread
      /\ UnitBits * Len(units) = Spread
  BY <1>1, Widths, UnitsInBlocks DEF Spread
<1>4. num1s \in 0 .. size
  <2>1. OnesTo(0) = 0 /\ 0 \in Int /\ size \in Int /\ 0 <= size
    BY <1>2, OnesToZero
  <2>2. OnesTo(size) - OnesTo(0) \in 0 .. size - 0
    BY <2>1, <1>2, OnesToDiff
  <2>3. PICK x \in Int : x = OnesTo(size) /\ x - 0 \in 0 .. size - 0
    BY <2>1, <2>2, <1>2, OnesToDiff
  <2>4. x \in 0 .. size
    BY <2>3, <1>2
  <2> QED BY <2>3, <2>4, <1>2
<1>5. onesSoFar \in 0 .. num1s
  <2>1. unitId * UnitBits \in Nat
    BY <1>2, <1>3
  <2> QED BY <2>1, <1>2, OnesAtMost
<1>6. ASSUME NEW b \in DOMAIN ranks
      PROVE  /\ ranks[b].abs \in 0 .. num1s
             /\ \A k \in 1 .. GroupsPerBlock - 1 : ranks[b].rel[k] \in 0 .. k * GroupBits
  <2>1. b \in 1 .. Len(ranks)
    <3>1. CASE stage = "push"
      BY <3>1 DEF RanksFull
    <3>2. CASE stage # "push"
      BY <3>2, <1>1 DEF CountsOK
    <3> QED BY <3>1, <3>2
  <2>2. RankBounded(ranks[b], num1s)
    BY <2>1 DEF RanksFull
  <2>3. GroupsPerBlock - 1 = 7
    BY DEF GroupsPerBlock
  <2> QED BY <2>2, <2>3 DEF RankBounded
<1>7. ASSUME NEW D, NEW samples, SamplesClosed(D, samples)
      PROVE  /\ samples \in Seq(0 .. Spread)
             /\ D = OneSet => samples \in Seq(0 .. size)
  <2>1. PICK s : samples = Append(s, size) /\ SamplesHold(D, s, size, Spread)
    BY <1>7 DEF SamplesClosed
  <2>2. s \in Seq(0 .. Spread) /\ size \in 0 .. Spread /\ size \in 0 .. size
    BY <2>1, <1>2, <1>3 DEF SamplesHold
  <2>3. samples \in Seq(0 .. Spread)
    BY <2>1, <2>2
  <2>4. ASSUME D = OneSet PROVE samples \in Seq(0 .. size)
    <3>1. s \in Seq(0 .. size)
      BY <2>1, <2>4, <1>2, <1>3, OneSamplesInside
    <3> QED BY <3>1, <2>1, <2>2
  <2> QED BY <2>3, <2>4
<1>8. source.select0 \in BOOLEAN /\ source.select1 \in BOOLEAN
  BY <1>2, BitInputsAssumption
<1>9. select1s \in Seq(0 .. size)
  <2>1. CASE stage = "push" \/ ~source.select1
    <3>1. select1s = <<>>
      BY <2>1, Zenon DEF SamplesOK
    <3> QED BY <3>1
  <2>2. CASE stage = "index" /\ source.select1
    <3>1. SamplesHold(OneSet, select1s, unitId * UnitBits, Spread)
      BY <2>2 DEF SamplesOK, OnesSampled
    <3> QED BY <3>1, <1>2, <1>3, OneSamplesInside
  <2>3. CASE stage = "built" /\ source.select1
    BY <2>3, <1>7 DEF SamplesOK
  <2> QED BY <2>1, <2>2, <2>3, <1>2
<1>10. select0s \in Seq(0 .. Spread)
  <2>1. CASE stage = "push" \/ ~source.select0
    <3>1. select0s = <<>>
      BY <2>1, Zenon DEF SamplesOK
    <3> QED BY <3>1
  <2>2. CASE stage = "index" /\ source.select0
    BY <2>2 DEF SamplesOK, ZerosSampled, SamplesHold
  <2>3. CASE stage = "built" /\ source.select0
    BY <2>3, <1>7 DEF SamplesOK
  <2> QED BY <2>1, <2>2, <2>3, <1>2
<1>11. zerosSoFar \in Nat
  BY DEF SamplesOK
<1> QED BY <1>2, <1>3, <1>4, <1>5, <1>6, <1>9, <1>10, <1>11 DEF BitsTypeOK

---------------------------------------------------------------------------
(* The two searches for a block.                                           *)

\* What BisectedBlock says of its function.
Halves(f, bit, i) ==
  f = [range \in Nat \X Nat |->
        LET begin == range[1]
            end == range[2]
            middle == (begin + end) \div 2
        IN  IF begin + 1 >= end THEN begin
            ELSE IF i < BeforeBlock(bit, middle) THEN f[<<begin, middle>>]
            ELSE f[<<middle, end>>]]

\* A middle lies strictly between ends that are more than one apart.
LEMMA MiddleBetween ==
  ASSUME NEW a \in Nat, NEW b \in Nat, ~(a + 1 >= b)
  PROVE  (a + b) \div 2 \in Nat /\ a < (a + b) \div 2 /\ (a + b) \div 2 < b
OBVIOUS

\* The function exists: the ends come closer.
LEMMA HalvingExists ==
  ASSUME NEW bit, NEW i
  PROVE  \E f : Halves(f, bit, i)
<1> DEFINE D == Nat \X Nat
           Middle(x) == (x[1] + x[2]) \div 2
           stop == {x \in D : x[1] + 1 >= x[2]}
           m == [x \in D |-> IF x[1] <= x[2] THEN x[2] - x[1] ELSE 0]
           next == [x \in D |-> IF i < BeforeBlock(bit, Middle(x)) THEN <<x[1], Middle(x)>>
                                                                   ELSE <<Middle(x), x[2]>>]
           b == [x \in D |-> x[1]]
           h == [p \in D \X Nat |-> p[2]]
<1>1. /\ \A x \in D : x[1] \in Nat /\ x[2] \in Nat /\ Middle(x) \in Nat
      /\ \A x \in D \ stop : x[1] < Middle(x) /\ Middle(x) < x[2]
  BY MiddleBetween
<1>2. next \in [D -> D] /\ b \in [D -> Nat] /\ h \in [D \X Nat -> Nat] /\ stop \in SUBSET D
  <2>1. \A x \in D : <<x[1], Middle(x)>> \in D /\ <<Middle(x), x[2]>> \in D
    BY <1>1
  <2> HIDE DEF Middle
  <2> QED BY <2>1, <1>1
<1>3. m \in [D -> Nat]
  OBVIOUS
<1>4. ASSUME NEW x \in D \ stop PROVE m[next[x]] < m[x]
  <2>1. /\ x[1] \in Nat /\ x[2] \in Nat /\ Middle(x) \in Nat
        /\ x[1] < Middle(x) /\ Middle(x) < x[2]
    BY <1>1
  <2>2. PICK a \in Nat, c \in Nat, e \in Nat : a = x[1] /\ c = Middle(x) /\ e = x[2]
    BY <2>1
  <2>3. a < c /\ c < e /\ <<a, c>> \in D /\ <<c, e>> \in D
    BY <2>1, <2>2
  <2>4. next[x] = <<a, c>> \/ next[x] = <<c, e>>
    BY <2>2
  <2>5. m[<<a, c>>] = c - a /\ m[<<c, e>>] = e - c /\ m[x] = e - a
    BY <2>2, <2>3
  <2> HIDE DEF m, next
  <2> QED BY <2>3, <2>4, <2>5
<1>5. PICK f \in [D -> Nat] : \A x \in D : Recurs(f, x, stop, b, h, next)
  <2> HIDE DEF D, stop, m, next, b, h
  <2> QED BY <1>2, <1>3, <1>4, RecursionHasSolution
<1>6. ASSUME NEW x \in D
      PROVE  f[x] = IF x[1] + 1 >= x[2] THEN x[1]
                    ELSE IF i < BeforeBlock(bit, Middle(x)) THEN f[<<x[1], Middle(x)>>]
                    ELSE f[<<Middle(x), x[2]>>]
  <2>1. f[x] = IF x \in stop THEN b[x] ELSE h[<<x, f[next[x]]>>]
    BY <1>5 DEF Recurs
  <2>2. next[x] \in D /\ f[next[x]] \in Nat
    BY <1>2, <1>5
  <2>3. h[<<x, f[next[x]]>>] = f[next[x]]
    BY <2>2
  <2>4. b[x] = x[1] /\ (x \in stop <=> x[1] + 1 >= x[2])
    OBVIOUS
  <2>5. next[x] = IF i < BeforeBlock(bit, Middle(x)) THEN <<x[1], Middle(x)>>
                                                     ELSE <<Middle(x), x[2]>>
    OBVIOUS
  <2> HIDE DEF next, b, h, stop, Middle
  <2> QED BY <2>1, <2>3, <2>4, <2>5
<1>7. f = [x \in D |-> f[x]]
  BY <1>5
<1>8. f = [x \in D |-> IF x[1] + 1 >= x[2] THEN x[1]
                       ELSE IF i < BeforeBlock(bit, Middle(x)) THEN f[<<x[1], Middle(x)>>]
                       ELSE f[<<Middle(x), x[2]>>]]
  <2> HIDE DEF Middle, D
  <2> QED BY <1>6, <1>7
<1>9. Halves(f, bit, i)
  BY <1>8 DEF Halves
<1> QED BY <1>9

\* Halving finds the block c: every comparison tells on which side it is.
LEMMA HalvingFinds ==
  ASSUME NEW bit, NEW i, NEW c \in Nat, NEW first \in Nat, NEW last \in Nat,
         first <= c, c < last,
         \A b \in Nat : first < b /\ b < last => (i < BeforeBlock(bit, b) <=> c < b)
  PROVE  BisectedBlock(bit, i, first, last) = c
<1>1. PICK f : f = (CHOOSE g : Halves(g, bit, i))
  OBVIOUS
<1>2. Halves(f, bit, i)
  BY <1>1, HalvingExists
<1>3. BisectedBlock(bit, i, first, last) = f[<<first, last>>]
  BY <1>1 DEF BisectedBlock, Halves
<1> DEFINE Found(a, b) == f[<<a, b>>] = c
           Around(a, b) == first <= a /\ a <= c /\ c < b /\ b <= last
           Bad == {n \in Nat : \E a, b \in Nat : Around(a, b) /\ n = b - a /\ ~Found(a, b)}
<1>4. Bad = {}
  <2> SUFFICES ASSUME Bad # {} PROVE FALSE
    OBVIOUS
  <2>1. PICK n \in Bad : \A k \in Bad : n <= k
    <3>1. Bad \subseteq Nat
      OBVIOUS
    <3> HIDE DEF Bad
    <3> QED BY <3>1, LeastElement
  <2>2. PICK a \in Nat, b \in Nat : Around(a, b) /\ n = b - a /\ ~Found(a, b)
    BY <2>1
  <2>3. ASSUME NEW x \in Nat, NEW y \in Nat, Around(x, y), y - x < n PROVE Found(x, y)
    <3> SUFFICES ASSUME ~Found(x, y) PROVE FALSE
      OBVIOUS
    <3>1. y - x \in Nat
      BY <2>3
    <3>2. y - x \in Bad
      BY <3>1, <2>3
    <3>3. n \in Nat
      BY <2>1
    <3> HIDE DEF Bad
    <3> QED BY <3>1, <3>2, <3>3, <2>1, <2>3
  <2>4. PICK mid : mid = (a + b) \div 2
    OBVIOUS
  <2>5. f[<<a, b>>] = IF a + 1 >= b THEN a
                      ELSE IF i < BeforeBlock(bit, mid) THEN f[<<a, mid>>] ELSE f[<<mid, b>>]
    <3>1. <<a, b>> \in Nat \X Nat
      OBVIOUS
    <3> QED BY <3>1, <1>2, <2>4 DEF Halves
  <2>6. CASE a + 1 >= b
    <3>1. a = c
      BY <2>2, <2>6
    <3> QED BY <3>1, <2>2, <2>5, <2>6
  <2>7. CASE ~(a + 1 >= b)
    <3>1. mid \in Nat /\ a < mid /\ mid < b
      BY <2>4, <2>7, MiddleBetween
    <3>2. first < mid /\ mid < last
      BY <3>1, <2>2
    <3>3. i < BeforeBlock(bit, mid) <=> c < mid
      BY <3>1, <3>2
    <3>4. CASE i < BeforeBlock(bit, mid)
      <4>1. Around(a, mid) /\ mid - a < n
        BY <3>1, <3>3, <3>4, <2>2
      <4>2. Found(a, mid)
        BY <4>1, <3>1, <2>3
      <4> QED BY <4>2, <3>4, <2>2, <2>5, <2>7
    <3>5. CASE ~(i < BeforeBlock(bit, mid))
      <4>1. Around(mid, b) /\ b - mid < n
        BY <3>1, <3>3, <3>5, <2>2
      <4>2. Found(mid, b)
        BY <4>1, <3>1, <2>3
      <4> QED BY <4>2, <3>5, <2>2, <2>5, <2>7
    <3> QED BY <3>4, <3>5
  <2> QED BY <2>6, <2>7
<1>5. Around(first, last) /\ last - first \in Nat
  OBVIOUS
<1>6. Found(first, last)
  BY <1>4, <1>5
<1> QED BY <1>3, <1>6

\* So does looking at one block after the other.
LEMMA LinearFinds ==
  ASSUME NEW bit, NEW i, NEW c \in Nat, NEW first \in Nat, NEW n \in Nat, Len(ranks) = n + 1,
         first <= c, c < n,
         \A b \in Nat : b < n => (i < BeforeBlock(bit, b + 1) <=> c < b + 1)
  PROVE  LinearBlock(bit, i, first) = c
<1> DEFINE Beyond == {b \in first .. Len(ranks) - 2 : i < BeforeBlock(bit, b + 1)}
<1>1. Len(ranks) - 2 = n - 1
  OBVIOUS
<1>2. Beyond \subseteq Nat /\ c \in Beyond
  BY <1>1
<1>3. \A b \in Beyond : c <= b
  BY <1>1
<1>4. LinearBlock(bit, i, first) = Min(Beyond)
  BY DEF LinearBlock
<1>5. Min(Beyond) \in Beyond /\ Min(Beyond) <= c
  <2> HIDE DEF Beyond
  <2> QED BY <1>2, MinOfSet
<1>6. PICK x \in Nat : x = Min(Beyond)
  BY <1>2, <1>5
<1>7. c <= x /\ x <= c
  BY <1>3, <1>5, <1>6
<1> QED BY <1>4, <1>6, <1>7

---------------------------------------------------------------------------
(* What the index counts of either kind.                                   *)

Kind(bit) == IF bit THEN OneSet ELSE ZeroSet

\* The positions of a block are positions of bits or follow them.
LEMMA BlockInside ==
  ASSUME SourceOK, size \in Nat, NEW b \in 0 .. NumBlocks
  PROVE  b * BlockBits \in Nat /\ b * BlockBits <= NumBlocks * BlockBits
<1>1. NumBlocks \in Nat /\ BlockBits \in Nat
  BY BlocksBegin, Widths
<1>2. \A x, y, z \in Nat : x <= y => x * z <= y * z
  OBVIOUS
<1>3. PICK n \in Nat, w \in Nat : n = NumBlocks /\ w = BlockBits
  BY <1>1
<1>4. b \in Nat /\ b <= n
  BY <1>3
<1>5. b * w \in Nat /\ b * w <= n * w
  BY ONLY <1>2, <1>4, n \in Nat, w \in Nat
<1> QED BY <1>3, <1>5

\* The counts of a block, of either kind.
LEMMA BlockCounts ==
  ASSUME BitsInv, RanksFull, stage = "built", NEW bit \in BOOLEAN, NEW b \in 0 .. NumBlocks
  PROVE  BeforeBlock(bit, b) = Upto(Kind(bit), b * BlockBits)
<1>1. SourceOK /\ size \in Nat
  BY DEF BitsInv, UnitsOK
<1>2. NumBlocks \in Nat /\ size <= NumBlocks * BlockBits /\ BlockBits \in Nat
  BY <1>1, BlocksBegin, Widths
<1>3. At(ranks, b).abs = OnesTo(b * BlockBits)
  <2>1. CASE b < NumBlocks
    <3>1. PICK g \in Nat : g = 8 * b /\ g < 8 * NumBlocks /\ g \div 8 = b
      BY <2>1, <1>2
    <3>2. GroupCounted(ranks, g)
      BY <3>1 DEF RanksFull
    <3> QED BY <3>1, <3>2 DEF GroupCounted, Counted, At
  <2>2. CASE b = NumBlocks
    <3>1. At(ranks, b).abs = OnesTo(size)
      BY <2>2 DEF RanksFull, At
    <3>2. NumBlocks * BlockBits \in Int
      BY <1>2
    <3>3. OnesTo(NumBlocks * BlockBits) = OnesTo(size)
      BY <1>1, <1>2, <3>2, OnesToEnd
    <3> QED BY <2>2, <3>1, <3>3
  <2> QED BY <2>1, <2>2, <1>2
<1>4. CASE bit
  BY <1>3, <1>4 DEF BeforeBlock, Kind, OnesTo, Upto
<1>5. CASE ~bit
  <2>1. b * BlockBits \in Nat /\ b * BlockBits <= NumBlocks * BlockBits
    BY <1>1, BlockInside
  <2>2. Upto(ZeroSet, b * BlockBits) = b * BlockBits - OnesTo(b * BlockBits)
    BY <2>1, <1>1, ZerosUpto
  <2> QED BY <2>2, <1>3, <1>5 DEF BeforeBlock, Kind
<1> QED BY <1>4, <1>5

\* The counts of a group in its block, of either kind.
LEMMA GroupCounts ==
  ASSUME BitsInv, RanksFull, stage = "built", NEW bit \in BOOLEAN, NEW b \in Nat, b < NumBlocks,
         NEW k \in 0 .. 7, NEW g, g = 8 * b + k
  PROVE  BeforeGroup(bit, At(ranks, b), k) =
           Upto(Kind(bit), g * GroupBits) - Upto(Kind(bit), b * BlockBits)
<1>1. SourceOK /\ size \in Nat
  BY DEF BitsInv, UnitsOK
<1>2. NumBlocks \in Nat /\ GroupBits \in Nat \ {0} /\ BlockBits = 8 * GroupBits /\ BlockBits \in Nat
  BY <1>1, BlocksBegin, Widths
<1>3. g \in Nat /\ g \div 8 = b /\ g % 8 = k /\ g < 8 * NumBlocks
  <2>1. b + 1 <= NumBlocks /\ g < 8 * (b + 1)
    BY <1>2
  <2> QED BY <2>1, <1>2
<1>4. GroupCounted(ranks, g)
  BY <1>3 DEF RanksFull
<1>5. Rel(At(ranks, b), k) = OnesTo(g * GroupBits) - OnesTo(b * BlockBits)
  BY <1>3, <1>4 DEF GroupCounted, Counted, At
<1>6. PICK w \in Nat : w = GroupBits
  BY <1>2
<1>7. PICK x \in Nat, y \in Nat, z \in Nat : /\ x = g * GroupBits /\ y = b * BlockBits
                                             /\ z = k * GroupBits /\ x = y + z
  <2>1. (8 * b + k) * w = b * (8 * w) + k * w
    OBVIOUS
  <2>2. (8 * b + k) * w \in Nat /\ b * (8 * w) \in Nat /\ k * w \in Nat
    OBVIOUS
  <2> QED BY <2>1, <2>2, <1>2, <1>6
<1>8. CASE bit
  BY <1>5, <1>8 DEF BeforeGroup, Kind, OnesTo, Upto
<1>9. CASE ~bit
  <2>1. x <= NumBlocks * BlockBits /\ y <= NumBlocks * BlockBits
    <3>1. b + 1 \in 0 .. NumBlocks
      BY <1>2
    <3>2. (b + 1) * BlockBits <= NumBlocks * BlockBits
      BY <3>1, <1>1, BlockInside
    <3>3. z <= 8 * w
      <4>1. k * w <= 8 * w
        OBVIOUS
      <4> QED BY <4>1, <1>6, <1>7
    <3>4. (b + 1) * BlockBits = y + 8 * w
      <4>1. (b + 1) * (8 * w) = b * (8 * w) + 8 * w
        OBVIOUS
      <4> QED BY <4>1, <1>2, <1>6, <1>7
    <3>5. PICK e \in Nat : e = NumBlocks * BlockBits
      BY <1>2
    <3> QED BY <3>2, <3>3, <3>4, <3>5, <1>7
  <2>2. Upto(ZeroSet, x) = x - OnesTo(x) /\ OnesTo(x) \in 0 .. x
    BY <2>1, <1>1, ZerosUpto
  <2>3. Upto(ZeroSet, y) = y - OnesTo(y) /\ OnesTo(y) \in 0 .. y
    BY <2>1, <1>1, ZerosUpto
  <2>4. BeforeGroup(bit, At(ranks, b), k) = z - (OnesTo(x) - OnesTo(y))
    BY <1>5, <1>7, <1>9 DEF BeforeGroup
  <2>5. Upto(Kind(bit), x) = x - OnesTo(x) /\ Upto(Kind(bit), y) = y - OnesTo(y)
    BY <2>2, <2>3, <1>9 DEF Kind
  <2>6. PICK p \in Nat, q \in Nat : p = OnesTo(x) /\ q = OnesTo(y)
    BY <2>2, <2>3
  <2>7. z - (p - q) = (x - p) - (y - q)
    BY <1>7
  <2> QED BY <2>4, <2>5, <2>6, <2>7, <1>7
<1> QED BY <1>8, <1>9

\* The word of a group has its ones, its complement the zeros.
LEMMA GroupWordIs ==
  ASSUME SourceOK, UnitsOK, NEW g \in Nat, g * GroupBits < size
  PROVE  /\ GroupWord(g) = Following(OneSet, g * GroupBits, GroupBits)
         /\ Complement(GroupWord(g), GroupBits) = Following(ZeroSet, g * GroupBits, GroupBits)
<1>1. /\ UnitBits \in Nat \ {0} /\ GroupBits \in Nat \ {0} /\ UnitsPerGroup \in {1, 2}
      /\ GroupBits = UnitsPerGroup * UnitBits /\ size \in Nat
  BY Widths DEF UnitsOK
<1>2. g < NumGroups /\ NumGroups \in Nat
  BY GroupsBegin
<1>3. /\ Len(units) = UnitsPerGroup * NumGroups
      /\ \A u \in 1 .. Len(units) : units[u] = Following(OneSet, (u - 1) * UnitBits, UnitBits)
  BY DEF UnitsOK
<1>4. PICK U \in Nat \ {0}, n \in Nat : U = UnitBits /\ n = NumGroups /\ g + 1 <= n
  BY <1>1, <1>2
<1>5. PICK at \in Nat : at = g * GroupBits
  BY <1>1
<1>6. GroupWord(g) = Following(OneSet, at, GroupBits)
  <2>1. CASE UnitsPerGroup = 1
    <3>1. g + 1 \in 1 .. Len(units) /\ (g + 1) - 1 = g
      BY <2>1, <1>2, <1>3
    <3>2. GroupBits = UnitBits
      BY <2>1, <1>1
    <3> QED BY <3>1, <3>2, <2>1, <1>3, <1>5 DEF GroupWord, At
  <2>2. CASE UnitsPerGroup = 2
    <3>1. 2 * g + 1 \in 1 .. Len(units) /\ 2 * g + 1 + 1 \in 1 .. Len(units)
      BY <2>2, <1>2, <1>3
    <3>2. GroupBits = 2 * U
      BY <2>2, <1>1, <1>4
    <3>3. ((2 * g + 1) - 1) * UnitBits = at /\ ((2 * g + 1 + 1) - 1) * UnitBits = at + U
      <4>1. (2 * g) * U = g * (2 * U) /\ (2 * g + 1) * U = g * (2 * U) + U
        OBVIOUS
      <4>2. (2 * g + 1) - 1 = 2 * g /\ (2 * g + 1 + 1) - 1 = 2 * g + 1
        OBVIOUS
      <4> QED BY <4>1, <4>2, <3>2, <1>4, <1>5
    <3>4. At(units, 2 * g) = Following(OneSet, at, U)
      BY <3>1, <3>3, <1>3, <1>4 DEF At
    <3>5. At(units, 2 * g + 1) = Following(OneSet, at + U, U)
      BY <3>1, <3>3, <1>3, <1>4 DEF At
    <3>6. GroupWord(g) = Following(OneSet, at, U) \cup {b + U : b \in Following(OneSet, at + U, U)}
      BY <3>4, <3>5, <2>2, <1>4 DEF GroupWord
    <3>7. ASSUME NEW p \in Following(OneSet, at, 2 * U)
          PROVE  p \in Following(OneSet, at, U) \cup {b + U : b \in Following(OneSet, at + U, U)}
      <4>1. p \in 0 .. 2 * U - 1 /\ at + p + 1 \in OneSet
        BY <3>7 DEF Following
      <4>2. CASE p < U
        BY <4>1, <4>2 DEF Following
      <4>3. CASE U <= p
        <5>1. PICK b \in 0 .. U - 1 : p = b + U /\ at + U + b + 1 = at + p + 1
          <6>1. p - U \in 0 .. U - 1 /\ p = (p - U) + U /\ at + U + (p - U) + 1 = at + p + 1
            BY <4>1, <4>3
          <6> QED BY <6>1
        <5>2. b \in Following(OneSet, at + U, U)
          BY <5>1, <4>1 DEF Following
        <5> QED BY <5>1, <5>2
      <4> QED BY <4>1, <4>2, <4>3
    <3>8. Following(OneSet, at, U) \subseteq Following(OneSet, at, 2 * U)
      BY DEF Following
    <3>9. ASSUME NEW b \in Following(OneSet, at + U, U)
          PROVE  b + U \in Following(OneSet, at, 2 * U)
      <4>1. b \in 0 .. U - 1 /\ at + U + b + 1 \in OneSet
        BY <3>9 DEF Following
      <4>2. b + U \in 0 .. 2 * U - 1 /\ at + (b + U) + 1 = at + U + b + 1
        BY <4>1
      <4> QED BY <4>1, <4>2 DEF Following
    <3>10. GroupWord(g) = Following(OneSet, at, 2 * U)
      <4> QED BY ONLY <3>6, <3>7, <3>8, <3>9, ZenonT(30)
    <3> QED BY <3>2, <3>10
  <2> QED BY <2>1, <2>2, <1>1
<1>7. Following(ZeroSet, at, GroupBits) = (0 .. GroupBits - 1) \ Following(OneSet, at, GroupBits)
  <2>1. at + GroupBits <= NumBlocks * BlockBits
    <3>1. UnitBits * Len(units) <= NumBlocks * BlockBits /\ UnitBits * Len(units) = GroupBits * NumGroups
      BY UnitsInBlocks
    <3>2. PICK w \in Nat : w = GroupBits
      BY <1>1
    <3>3. \A x, y, z \in Nat : x <= y => z * x <= z * y
      OBVIOUS
    <3>4. g + 1 \in Nat
      OBVIOUS
    <3>5. w * (g + 1) <= w * n
      BY ONLY <3>3, <3>4, <1>4, w \in Nat, n \in Nat
    <3>6. w * (g + 1) = g * w + w /\ w * n \in Nat /\ g * w \in Nat
      OBVIOUS
    <3>7. at + w <= w * n
      BY <3>2, <3>5, <3>6, <1>5
    <3>8. NumBlocks * BlockBits \in Int
      BY <1>1, BlocksBegin, Widths
    <3> QED BY <3>1, <3>2, <3>6, <3>7, <3>8, <1>4
  <2>2. GroupBits \in Nat
    BY <1>1
  <2> QED BY <2>1, <2>2, <1>1, ZerosFollowing
<1> QED BY <1>5, <1>6, <1>7 DEF Complement

---------------------------------------------------------------------------
(* Select finds the position it is asked for.                              *)

\* Three comparisons find the group of position q of a block.
LEMMA GroupOfFinds ==
  ASSUME NEW w \in Nat \ {0}, NEW q \in 0 .. 8 * w - 1, NEW bit, NEW i, NEW rank,
         \A k \in 0 .. 7 : i < BeforeGroup(bit, rank, k) <=> q < k * w
  PROVE  /\ GroupOf(bit, i, rank) \in 0 .. 7
         /\ GroupOf(bit, i, rank) * w <= q /\ q < (GroupOf(bit, i, rank) + 1) * w
<1> DEFINE half == IF i < BeforeGroup(bit, rank, 4) THEN 0 ELSE 4
           quarter == half + IF i < BeforeGroup(bit, rank, half + 2) THEN 0 ELSE 2
           group == quarter + IF i < BeforeGroup(bit, rank, quarter + 1) THEN 0 ELSE 1
<1>1. half = IF q < 4 * w THEN 0 ELSE 4
  BY DEF half
<1>2. half + 2 \in {2, 6} /\ half \in {0, 4}
  OBVIOUS
<1>3. quarter = half + IF q < (half + 2) * w THEN 0 ELSE 2
  <2> HIDE DEF half
  <2> QED BY <1>2 DEF quarter
<1>4. quarter \in {0, 2, 4, 6} /\ quarter + 1 \in {1, 3, 5, 7}
  <2> HIDE DEF half
  <2> QED BY <1>2
<1>5. group = quarter + IF q < (quarter + 1) * w THEN 0 ELSE 1
  <2> HIDE DEF half, quarter
  <2> QED BY <1>4 DEF group
<1>6. GroupOf(bit, i, rank) = group
  BY DEF GroupOf
<1> HIDE DEF half, quarter, group
<1>7. /\ quarter = 0 => q < 2 * w
      /\ quarter = 2 => 2 * w <= q /\ q < 4 * w
      /\ quarter = 4 => 4 * w <= q /\ q < 6 * w
      /\ quarter = 6 => 6 * w <= q
  <2>1. CASE half = 0
    BY <2>1, <1>1, <1>3
  <2>2. CASE half = 4
    BY <2>2, <1>1, <1>3
  <2> QED BY <2>1, <2>2, <1>2
<1>8. group \in 0 .. 7 /\ group * w <= q /\ q < (group + 1) * w
  <2>1. CASE quarter = 0
    BY <2>1, <1>5, <1>7
  <2>2. CASE quarter = 2
    BY <2>2, <1>5, <1>7
  <2>3. CASE quarter = 4
    BY <2>3, <1>5, <1>7
  <2>4. CASE quarter = 6
    BY <2>4, <1>5, <1>7
  <2> QED BY <2>1, <2>2, <2>3, <2>4, <1>4
<1> QED BY <1>6, <1>8

\* Position p in its block and group.
LEMMA PositionInBlock ==
  ASSUME NEW w \in Nat \ {0}, NEW p \in Nat, NEW b, b = p \div (8 * w)
  PROVE  b \in Nat /\ b * (8 * w) <= p /\ p - b * (8 * w) \in 0 .. 8 * w - 1
<1>1. 8 * w \in Nat \ {0}
  OBVIOUS
<1>2. PICK x \in Nat \ {0} : x = 8 * w
  BY <1>1
<1>3. p \div x \in Nat /\ p % x \in 0 .. x - 1 /\ p = x * (p \div x) + (p % x)
  BY ONLY p \in Nat, x \in Nat \ {0}, DivModNat
<1>4. b \in Nat /\ x * b = b * x /\ b * x \in Nat
  BY <1>2, <1>3
<1> QED BY <1>2, <1>3, <1>4

\* In its block, the position is found by the number it has there.
LEMMA InBlockFinds ==
  ASSUME BitsInv, RanksFull, stage = "built", NEW bit \in BOOLEAN,
         NEW p \in 0 .. size - 1, p + 1 \in Kind(bit),
         NEW b, b = p \div BlockBits,
         NEW i, i = Upto(Kind(bit), p) - Upto(Kind(bit), b * BlockBits)
  PROVE  SelectInBlock(bit, i, b) = p
<1>1. SourceOK /\ UnitsOK /\ size \in Nat /\ p \in Nat
  BY DEF BitsInv, UnitsOK
<1>2. /\ GroupBits \in Nat \ {0} /\ BlockBits = 8 * GroupBits /\ BlockBits \in Nat \ {0}
      /\ NumBlocks \in Nat /\ \A c \in Nat : c < NumBlocks <=> c * BlockBits < size
  BY <1>1, Widths, BlocksBegin
<1>3. PICK w \in Nat \ {0} : w = GroupBits
  BY <1>2
<1>4. PICK at, q : at = b * BlockBits /\ q = p - at
  OBVIOUS
<1>5. b \in Nat /\ at \in Nat /\ at <= p /\ q \in 0 .. 8 * w - 1 /\ p = at + q
  <2>1. BlockBits = 8 * w /\ b = p \div (8 * w) /\ at = b * (8 * w)
    BY <1>2, <1>3, <1>4
  <2>2. b \in Nat /\ b * (8 * w) <= p /\ p - b * (8 * w) \in 0 .. 8 * w - 1
    BY ONLY <2>1, <1>1, w \in Nat \ {0}, PositionInBlock
  <2>3. b \in Nat /\ at <= p /\ p - at \in 0 .. 8 * w - 1 /\ at \in Int
    BY <2>1, <2>2
  <2>4. at \in Nat
    <3>1. \A x, y \in Nat : x * y \in Nat
      OBVIOUS
    <3>2. 8 * w \in Nat
      OBVIOUS
    <3> QED BY ONLY <3>1, <3>2, <2>1, <2>3
  <2> QED BY <2>3, <2>4, <1>1, <1>4
<1>6. b < NumBlocks
  <2>1. b < NumBlocks <=> at < size
    BY ONLY <1>2, <1>4, <1>5
  <2> QED BY <2>1, <1>1, <1>5
<1>7. PICK D : D = Kind(bit)
  OBVIOUS
<1>8. Places(D) /\ D \subseteq Nat \ {0} /\ p + 1 \in D
  BY <1>1, <1>7, KindPlaces DEF Kind
<1>9. PICK rank : rank = At(ranks, b)
  OBVIOUS
<1>10. ASSUME NEW k \in 0 .. 7
       PROVE  /\ (8 * b + k) * GroupBits = at + k * w
              /\ at + k * w \in Nat
              /\ BeforeGroup(bit, rank, k) = Upto(D, at + k * w) - Upto(D, at)
  <2>1. PICK g : g = 8 * b + k
    OBVIOUS
  <2>2. BeforeGroup(bit, rank, k) = Upto(D, g * GroupBits) - Upto(D, at)
    <3>1. BeforeGroup(bit, At(ranks, b), k) =
            Upto(Kind(bit), g * GroupBits) - Upto(Kind(bit), b * BlockBits)
      BY ONLY BitsInv, RanksFull, stage = "built", bit \in BOOLEAN, k \in 0 .. 7,
              <2>1, <1>5, <1>6, GroupCounts
    <3> QED BY <3>1, <1>4, <1>7, <1>9
  <2>3. (8 * b + k) * w = b * (8 * w) + k * w /\ k * w \in Nat
    BY <1>5
  <2> QED BY <2>1, <2>2, <2>3, <1>2, <1>3, <1>4, <1>5
<1>11. ASSUME NEW n \in Int PROVE Upto(D, n) \in Nat
  BY <1>8, UptoNext
<1>12. ASSUME NEW k \in 0 .. 7 PROVE i < BeforeGroup(bit, rank, k) <=> q < k * w
  <2>1. PICK n \in Nat : n = at + k * w
    BY <1>10
  <2>2. Upto(D, p) < Upto(D, n) <=> p < n
    BY ONLY <1>1, <1>8, n \in Nat, NumberTells
  <2>3. Upto(D, p) \in Nat /\ Upto(D, n) \in Nat /\ Upto(D, at) \in Nat
    BY <1>1, <1>5, <1>11
  <2>4. i < BeforeGroup(bit, rank, k) <=> Upto(D, p) < Upto(D, n)
    BY <2>1, <2>3, <1>4, <1>7, <1>10
  <2>5. PICK y \in Nat : y = k * w
    BY <1>3
  <2>6. p < n <=> q < k * w
    BY <2>1, <2>5, <1>5
  <2> QED BY <2>2, <2>4, <2>6
<1>13. PICK k : k = GroupOf(bit, i, rank)
  OBVIOUS
<1>14. k \in 0 .. 7 /\ k * w <= q /\ q < (k + 1) * w
  BY <1>3, <1>5, <1>12, <1>13, GroupOfFinds
<1>15. PICK g, n : g = b * GroupsPerBlock + k /\ n = g * GroupBits
  OBVIOUS
<1>16. g \in Nat /\ g = 8 * b + k /\ n = at + k * w /\ n \in Nat
  <2>1. g = 8 * b + k /\ g \in Nat
    BY <1>5, <1>14, <1>15 DEF GroupsPerBlock
  <2> QED BY <2>1, <1>10, <1>14, <1>15
<1>17. PICK c : c = p - n
  OBVIOUS
<1>18. c \in 0 .. GroupBits - 1 /\ p = n + c /\ n < size
  <2>1. PICK y \in Nat : y = k * w /\ (k + 1) * w = y + w
    BY <1>3, <1>14
  <2> QED BY <2>1, <1>1, <1>3, <1>5, <1>14, <1>16, <1>17
<1>19. c \in Following(D, n, GroupBits)
  BY <1>8, <1>18 DEF Following
<1>20. PICK word : word = (IF bit THEN GroupWord(g) ELSE Complement(GroupWord(g), GroupBits))
  OBVIOUS
<1>21. word = Following(D, n, GroupBits)
  <2>1. /\ GroupWord(g) = Following(OneSet, n, GroupBits)
        /\ Complement(GroupWord(g), GroupBits) = Following(ZeroSet, n, GroupBits)
    BY <1>1, <1>15, <1>16, <1>18, GroupWordIs
  <2> QED BY <2>1, <1>7, <1>20 DEF Kind
<1>22. PICK j : j = i - BeforeGroup(bit, rank, k)
  OBVIOUS
<1>23. j = Upto(D, n + c) - Upto(D, n)
  <2>1. BeforeGroup(bit, rank, k) = Upto(D, n) - Upto(D, at)
    BY <1>10, <1>14, <1>16
  <2>2. Upto(D, p) \in Nat /\ Upto(D, n) \in Nat /\ Upto(D, at) \in Nat
    BY <1>1, <1>5, <1>11, <1>16
  <2> QED BY <2>1, <2>2, <1>4, <1>7, <1>18, <1>22
<1>24. SelectBit(j, n, Following(D, n, GroupBits)) = n + c
  <2>1. n \in Int /\ GroupBits \in 0 .. GroupBits
    BY <1>2, <1>16
  <2> QED BY ONLY <2>1, <1>8, <1>19, <1>23, SelectBitFinds
<1>25. SelectInBlock(bit, i, b) = SelectBit(j, n, word)
  BY <1>9, <1>13, <1>15, <1>20, <1>22 DEF SelectInBlock
<1> QED BY <1>18, <1>21, <1>24, <1>25

\* Sample j is at or before position p, the next one after it.
SampleAround(D, samples, j, p, m) ==
  /\ j \in Nat /\ At(samples, j) \in 0 .. p /\ At(samples, j + 1) \in p + 1 .. m
  /\ Upto(D, p) % BlockBits = 0 => At(samples, j) = p

\* The samples around a position.
LEMMA SamplesAround ==
  ASSUME GroupBits \in Nat \ {0}, BlockBits = 8 * GroupBits,
         NEW D, Places(D), D \subseteq Nat \ {0}, size \in Nat, NEW m \in Nat, size <= m,
         NEW s, SamplesHold(D, s, size, m), NEW samples, samples = Append(s, size),
         NEW p \in 0 .. size - 1, p + 1 \in D,
         NEW j, j = Upto(D, p) \div BlockBits
  PROVE  SampleAround(D, samples, j, p, m)
<1>1. /\ s \in Seq(0 .. m)
      /\ \A k \in Nat : k < Len(s) => At(s, k) + 1 \in D /\ k * BlockBits <= Upto(D, At(s, k))
      /\ \A q \in 0 .. size - 1, k \in Nat : q + 1 \in D /\ Upto(D, q) = k * BlockBits =>
           k < Len(s) /\ At(s, k) = q
  BY DEF SamplesHold
<1>2. PICK i \in Nat : i = Upto(D, p)
  <2>1. p \in Int
    OBVIOUS
  <2> QED BY ONLY <2>1, Places(D), UptoNext
<1>3. PICK w \in Nat \ {0} : w = BlockBits
  OBVIOUS
<1>4. j \in Nat /\ (i % w) \in 0 .. w - 1 /\ i = w * j + (i % w)
  <2>1. j = i \div w
    BY <1>2, <1>3
  <2> QED BY ONLY <2>1, i \in Nat, w \in Nat \ {0}, DivModNat
<1>5. PICK x \in Nat : x = j * w /\ x <= i /\ i < x + w /\ (j + 1) * w = x + w
  <2>1. w * j = j * w /\ j * w \in Nat /\ (j + 1) * w = j * w + w
    <3>1. \A x, y \in Nat : x * y = y * x /\ y * x \in Nat /\ (y + 1) * x = y * x + x
      OBVIOUS
    <3>2. w \in Nat /\ j \in Nat
      BY <1>4
    <3> QED BY ONLY <3>1, <3>2
  <2> QED BY SMTT(30), <2>1, <1>4
<1>6. PICK q \in 0 .. p : q + 1 \in D /\ Upto(D, q) = x
  <2>1. p \in Nat /\ x <= Upto(D, p)
    BY <1>2, <1>5
  <2> QED BY ONLY <2>1, x \in Nat, Places(D), D \subseteq Nat \ {0}, p + 1 \in D, EveryNumber
<1>7. j < Len(s) /\ At(s, j) = q
  <2>1. q \in 0 .. size - 1 /\ Upto(D, q) = j * BlockBits
    BY <1>3, <1>5, <1>6
  <2> QED BY <2>1, <1>1, <1>4, <1>6
<1>8. /\ \A k \in Nat : k < Len(s) => At(samples, k) = At(s, k)
      /\ At(samples, Len(s)) = size /\ Len(s) \in Nat
  BY <1>1 DEF At
<1>9. At(samples, j) = q
  BY <1>4, <1>7, <1>8
<1>10. At(samples, j + 1) \in p + 1 .. m
  <2>1. CASE j + 1 < Len(s)
    <3>1. PICK y : y = At(s, j + 1)
      OBVIOUS
    <3>2. y \in 0 .. m /\ y + 1 \in D /\ (j + 1) * BlockBits <= Upto(D, y)
      <4>1. j + 1 \in Nat
        BY <1>4
      <4>2. At(s, j + 1) \in 0 .. m
        BY SMTT(30), <4>1, <2>1, <1>1 DEF At
      <4> QED BY <4>1, <4>2, <3>1, <2>1, <1>1
    <3>3. Upto(D, y) \in Nat
      <4>1. y \in Int
        BY <3>2
      <4> QED BY ONLY <4>1, Places(D), UptoNext
    <3>4. Upto(D, p) < Upto(D, y)
      <4>1. PICK u \in Nat : u = Upto(D, y)
        BY <3>3
      <4>2. x + w <= u
        BY ONLY <4>1, <3>2, <1>3, <1>5
      <4>3. i < u
        BY ONLY <4>1, <4>2, <1>5, i \in Nat, x \in Nat, w \in Nat \ {0}
      <4> QED BY ONLY <4>1, <4>3, <1>2
    <3>5. Upto(D, p) < Upto(D, y) <=> p < y
      <4>1. p \in Int /\ y \in Int
        BY <3>2
      <4> QED BY ONLY <4>1, Places(D), p + 1 \in D, NumberTells
    <3>6. At(samples, j + 1) = y
      BY <3>1, <2>1, <1>4, <1>8
    <3> QED BY <3>2, <3>4, <3>5, <3>6
  <2>2. CASE ~(j + 1 < Len(s))
    <3>1. j + 1 = Len(s)
      BY SMTT(30), <2>2, <1>4, <1>7, <1>8
    <3> QED BY <3>1, <1>8
  <2> QED BY <2>1, <2>2
<1>11. ASSUME Upto(D, p) % BlockBits = 0 PROVE q = p
  <2>1. i = x
    <3>1. i % w = 0 /\ w * j = j * w
      BY <1>11, <1>2, <1>3, <1>4
    <3> QED BY <3>1, <1>4, <1>5
  <2>2. q \in Int /\ p \in Int /\ Upto(D, p) = Upto(D, q)
    <3>1. \A e \in 0 .. p : e \in Int
      OBVIOUS
    <3>2. p \in Int
      OBVIOUS
    <3> QED BY ONLY <3>1, <3>2, <2>1, <1>2, <1>6, q \in 0 .. p
  <2> QED BY ONLY <2>2, <1>6, p + 1 \in D, Places(D), NumberIsOne
<1> QED BY <1>4, <1>9, <1>10, <1>11 DEF SampleAround

\* The blocks that a division finds.
LEMMA BlockEnds ==
  ASSUME NEW w \in Nat \ {0}, NEW p \in Nat, NEW a \in 0 .. p, NEW z \in Nat, p < z,
         NEW n \in Nat, z <= n * w
  PROVE  /\ a \div w \in Nat /\ p \div w \in Nat /\ (z + w - 1) \div w \in Nat
         /\ a \div w <= p \div w /\ p \div w < (z + w - 1) \div w /\ (z + w - 1) \div w <= n
         /\ \A b \in Nat : p < b * w <=> p \div w < b
<1>1. z + w - 1 \in Nat /\ a \in Nat
  OBVIOUS
<1>2. PICK y \in Nat : y = z + w - 1
  BY <1>1
<1>3. PICK pa, pq, py : pa = a \div w /\ pq = p \div w /\ py = y \div w
  OBVIOUS
<1>4. pa \in Nat /\ a % w \in 0 .. w - 1 /\ a = w * pa + (a % w)
  BY ONLY <1>3, <1>1, w \in Nat \ {0}, DivModNat
<1>5. pq \in Nat /\ p % w \in 0 .. w - 1 /\ p = w * pq + (p % w)
  BY ONLY <1>3, p \in Nat, w \in Nat \ {0}, DivModNat
<1>6. py \in Nat /\ y % w \in 0 .. w - 1 /\ y = w * py + (y % w)
  BY ONLY <1>3, y \in Nat, w \in Nat \ {0}, DivModNat
<1>7. \A k, l \in Nat : w * k < w * l + w => k <= l
  <2> SUFFICES ASSUME NEW k \in Nat, NEW l \in Nat, w * k < w * l + w, l + 1 <= k PROVE FALSE
    OBVIOUS
  <2>1. w * (l + 1) <= w * k /\ w * (l + 1) = w * l + w
    <3>1. \A e, f, g \in Nat : e <= f => g * e <= g * f
      OBVIOUS
    <3>2. l + 1 \in Nat /\ w \in Nat
      OBVIOUS
    <3>3. w * (l + 1) <= w * k
      BY ONLY <3>1, <3>2, k \in Nat, l + 1 <= k
    <3> QED BY <3>3
  <2>2. w * l \in Nat /\ w * k \in Nat
    OBVIOUS
  <2> QED BY <2>1, <2>2
<1>8. PICK ra \in 0 .. w - 1, rq \in 0 .. w - 1, ry \in 0 .. w - 1 :
        a = w * pa + ra /\ p = w * pq + rq /\ y = w * py + ry
  BY <1>4, <1>5, <1>6
<1>9. w * pa \in Nat /\ w * pq \in Nat /\ w * py \in Nat
  BY <1>4, <1>5, <1>6
<1>10. pa <= pq
  <2>1. w * pa < w * pq + w
    BY <1>8, <1>9
  <2> QED BY ONLY <2>1, <1>4, <1>5, <1>7
<1>11. pq + 1 <= py
  <2>1. w * (pq + 1) = w * pq + w /\ pq + 1 \in Nat
    BY <1>5
  <2>2. w * (pq + 1) < w * py + w
    BY <2>1, <1>2, <1>8, <1>9
  <2> QED BY ONLY <2>1, <2>2, <1>6, <1>7
<1>12. py <= n
  <2>1. w * n = n * w /\ w * n \in Nat
    OBVIOUS
  <2>2. w * py < w * n + w
    BY <2>1, <1>2, <1>8, <1>9
  <2> QED BY ONLY <2>2, <1>6, <1>7, n \in Nat
<1>13. ASSUME NEW b \in Nat PROVE p < b * w <=> pq < b
  <2>1. w * b = b * w /\ w * b \in Nat
    OBVIOUS
  <2>2. ASSUME p < b * w PROVE pq < b
    <3>1. pq + 1 \in Nat /\ w * (pq + 1) = w * pq + w /\ w * b = b * w
      BY <1>5
    <3>2. w * (pq + 1) < w * b + w
      BY <3>1, <2>1, <2>2, <1>8, <1>9
    <3>3. pq + 1 <= b
      BY ONLY <3>1, <3>2, <1>7, b \in Nat
    <3> QED BY <3>3, <1>5
  <2>3. ASSUME pq < b, b * w <= p PROVE FALSE
    <3>1. w * b < w * pq + w
      BY <2>1, <2>3, <1>8, <1>9
    <3>2. b <= pq
      BY ONLY <3>1, <1>5, <1>7, b \in Nat
    <3> QED BY <3>2, <2>3, <1>5
  <2>4. b * w \in Nat
    BY <2>1
  <2> QED BY <2>2, <2>3, <2>4
<1> QED BY <1>2, <1>3, <1>4, <1>5, <1>6, <1>10, <1>11, <1>12, <1>13

\* select, of either kind: a sample, or a block and then a group of it.
LEMMA SelectFinds ==
  ASSUME BitsInv, RanksFull, SamplesOK, stage = "built", NEW bit \in BOOLEAN,
         NEW p \in 0 .. size - 1, p + 1 \in Kind(bit),
         IF bit THEN source.select1 ELSE source.select0,
         NEW i, i = Upto(Kind(bit), p)
  PROVE  SelectOf(bit, i) = p
<1>1. SourceOK /\ UnitsOK /\ size \in Nat /\ p \in Nat
  BY DEF BitsInv, UnitsOK
<1>2. /\ GroupBits \in Nat \ {0} /\ BlockBits = 8 * GroupBits /\ BlockBits \in Nat \ {0}
      /\ NumBlocks \in Nat
  BY <1>1, Widths, BlocksBegin
<1>3. PICK D : D = Kind(bit)
  OBVIOUS
<1>4. Places(D) /\ D \subseteq Nat \ {0} /\ p + 1 \in D
  BY <1>1, <1>3, KindPlaces DEF Kind
<1>5. PICK samples : samples = (IF bit THEN select1s ELSE select0s)
  OBVIOUS
<1>6. SamplesClosed(D, samples)
  <2>1. CASE bit
    BY <2>1, <1>3, <1>5 DEF SamplesOK, Kind
  <2>2. CASE ~bit
    BY <2>2, <1>3, <1>5 DEF SamplesOK, Kind
  <2> QED BY <2>1, <2>2
<1>7. PICK s : samples = Append(s, size) /\ SamplesHold(D, s, size, Spread)
  BY <1>6 DEF SamplesClosed
<1>8. PICK m \in Nat : m = Spread /\ size <= m /\ m <= NumBlocks * BlockBits
  BY <1>1, UnitsInBlocks DEF Spread
<1>9. PICK j : j = i \div BlockBits
  OBVIOUS
<1>10. /\ j \in Nat /\ At(samples, j) \in 0 .. p /\ At(samples, j + 1) \in p + 1 .. m
       /\ i % BlockBits = 0 => At(samples, j) = p
  <2>1. j = Upto(D, p) \div BlockBits /\ i = Upto(D, p)
    BY <1>3, <1>9
  <2>2. SamplesHold(D, s, size, m) /\ size <= m
    BY <1>7, <1>8
  <2>3. samples = Append(s, size) /\ size \in Nat /\ j = Upto(D, p) \div BlockBits
    BY <2>1, <1>1, <1>7
  <2>4. SampleAround(D, samples, j, p, m)
    BY ONLY <2>2, <2>3, <1>2, <1>4, m \in Nat, p \in 0 .. size - 1, SamplesAround
  <2> QED BY <2>1, <2>4 DEF SampleAround
<1>11. CASE i % BlockBits = 0
  BY <1>5, <1>9, <1>10, <1>11 DEF SelectOf
<1>12. CASE i % BlockBits # 0
  <2>1. PICK w \in Nat \ {0}, n \in Nat : w = BlockBits /\ n = NumBlocks
    BY <1>2
  <2>2. PICK a, z : a = At(samples, j) /\ z = At(samples, j + 1)
    OBVIOUS
  <2>3. a \in 0 .. p /\ z \in Nat /\ p < z /\ z <= n * w
    <3>1. n * w \in Nat /\ m <= n * w
      BY <2>1, <1>8
    <3> QED BY <3>1, <2>2, <1>1, <1>10
  <2>4. PICK c, first, last : c = p \div w /\ first = a \div w /\ last = (z + w - 1) \div w
    OBVIOUS
  <2>5. /\ first \in Nat /\ c \in Nat /\ last \in Nat
        /\ first <= c /\ c < last /\ last <= n
        /\ \A b \in Nat : p < b * w <=> c < b
    BY ONLY <2>3, <2>4, <1>1, w \in Nat \ {0}, n \in Nat, BlockEnds
  <2>6. Len(ranks) = n + 1
    BY <2>1 DEF BitsInv, CountsOK
  <2>7. ASSUME NEW b \in 0 .. n PROVE i < BeforeBlock(bit, b) <=> c < b
    <3>1. BeforeBlock(bit, b) = Upto(D, b * w)
      BY <2>1, <1>3, BlockCounts
    <3>2. b \in Nat /\ b * w \in Int
      BY <2>1
    <3>3. Upto(D, p) < Upto(D, b * w) <=> p < b * w
      <4>1. p \in Int
        BY <1>1
      <4> QED BY ONLY <4>1, <3>2, <1>4, NumberTells
    <3> QED BY <3>1, <3>2, <3>3, <2>5, <1>3
  <2>8. LinearBlock(bit, i, first) = c
    <3>1. c < n
      BY <2>1, <2>5
    <3>2. \A b \in Nat : b < n => (i < BeforeBlock(bit, b + 1) <=> c < b + 1)
      <4>1. \A b \in Nat : b < n => b + 1 \in 0 .. n
        BY <2>1
      <4> QED BY <4>1, <2>7
    <3> QED BY ONLY <3>1, <3>2, <2>5, <2>6, n \in Nat, LinearFinds
  <2>9. BisectedBlock(bit, i, first, last) = c
    <3>1. \A b \in Nat : first < b /\ b < last => (i < BeforeBlock(bit, b) <=> c < b)
      <4>1. \A b \in Nat : b < last => b \in 0 .. n
        BY <2>1, <2>5
      <4> QED BY <4>1, <2>7
    <3> QED BY ONLY <3>1, <2>5, HalvingFinds
  <2>10. BlockOf(bit, i, samples) = c
    <3>1. BlockOf(bit, i, samples) =
            IF first + LinearBlocks >= last THEN LinearBlock(bit, i, first)
                                            ELSE BisectedBlock(bit, i, first, last)
      BY <2>1, <2>2, <2>4, <1>9 DEF BlockOf, SampleEnd
    <3> QED BY <3>1, <2>8, <2>9
  <2>11. BeforeBlock(bit, c) = Upto(Kind(bit), c * BlockBits)
    <3>1. c \in 0 .. NumBlocks
      BY <2>1, <2>5
    <3> QED BY <3>1, BlockCounts
  <2>12. PICK k : k = i - BeforeBlock(bit, c)
    OBVIOUS
  <2>13. SelectInBlock(bit, k, c) = p
    <3>1. k = Upto(Kind(bit), p) - Upto(Kind(bit), c * BlockBits) /\ c = p \div BlockBits
      BY <2>1, <2>4, <2>11, <2>12
    <3> QED BY <3>1, InBlockFinds
  <2>14. SelectOf(bit, i) = SelectInBlock(bit, i - BeforeBlock(bit, c), c)
    BY <2>10, <1>5, <1>12 DEF SelectOf
  <2> QED BY <2>12, <2>13, <2>14
<1> QED BY <1>11, <1>12

\* The number of a bit among those of its kind.
LEMMA NumberOfBit ==
  ASSUME BitsInv, stage = "built", NEW p \in 0 .. size - 1
  PROVE  /\ At(Pushed, p) => p + 1 \in OneSet /\ Rank1(Pushed, p) = Upto(OneSet, p)
         /\ ~At(Pushed, p) => p + 1 \in ZeroSet /\ Rank0(Pushed, p) = Upto(ZeroSet, p)
<1>1. size \in Nat /\ size = Len(source.bits) /\ source.bits \in Seq(BOOLEAN) /\ SourceOK
  BY Widths DEF BitsInv, UnitsOK
<1>2. \A q \in 1 .. size : Pushed[q] = source.bits[q]
  BY <1>1 DEF Pushed
<1>3. \A q : q \in 1 .. p <=> q \in 1 .. size /\ q <= p
  BY <1>1
<1>4. p + 1 \in 1 .. size /\ At(Pushed, p) = source.bits[p + 1]
  BY <1>1, <1>2 DEF At
<1>5. 1 .. size \subseteq 1 .. NumBlocks * BlockBits
  <2>1. PICK e \in Nat : e = NumBlocks * BlockBits /\ size <= e
    <3>1. NumBlocks \in Nat /\ BlockBits \in Nat /\ size <= NumBlocks * BlockBits
      BY <1>1, BlocksBegin, Widths
    <3>2. NumBlocks * BlockBits \in Nat
      BY <3>1
    <3> QED BY <3>1, <3>2
  <2> QED BY <2>1, <1>1
<1>6. {q \in 1 .. p : Pushed[q]} = Before(OneSet, p)
  <2> HIDE DEF Pushed
  <2> QED BY <1>2, <1>3 DEF Before, OneSet
<1>7. {q \in 1 .. p : ~Pushed[q]} = Before(ZeroSet, p)
  <2>1. \A q : q \in ZeroSet /\ q <= p <=> q \in 1 .. p /\ q \notin OneSet
    <3>1. \A q \in 1 .. NumBlocks * BlockBits : q <= p => q \in 1 .. p
      <4>1. NumBlocks * BlockBits \in Int
        BY <1>1, BlocksBegin, Widths
      <4> QED BY <4>1, <1>1
    <3> QED BY <3>1, <1>3, <1>5 DEF ZeroSet
  <2>2. \A q \in 1 .. p : q \notin OneSet <=> ~Pushed[q]
    <3> HIDE DEF Pushed
    <3> QED BY <1>2, <1>3 DEF OneSet
  <2> HIDE DEF Pushed, ZeroSet
  <2> QED BY <2>1, <2>2 DEF Before
<1>8. At(Pushed, p) => p + 1 \in OneSet
  BY <1>4 DEF OneSet
<1>9. ~At(Pushed, p) => p + 1 \in ZeroSet
  BY <1>4, <1>5 DEF OneSet, ZeroSet
<1> QED BY <1>6, <1>7, <1>8, <1>9 DEF Rank1, Rank0, Upto

\* The property, kind by kind.
LEMMA InvSelectsFind == BitsInv /\ RanksFull /\ SamplesOK => SelectsFind
<1> SUFFICES ASSUME BitsInv, RanksFull, SamplesOK, stage = "built", NEW p \in 0 .. size - 1
             PROVE  IF At(Pushed, p) THEN source.select1 => SelectOf(TRUE, Rank1(Pushed, p)) = p
                    ELSE source.select0 => SelectOf(FALSE, Rank0(Pushed, p)) = p
  BY DEF SelectsFind
<1>1. ASSUME At(Pushed, p), source.select1 PROVE SelectOf(TRUE, Rank1(Pushed, p)) = p
  <2>1. p + 1 \in Kind(TRUE) /\ Rank1(Pushed, p) = Upto(Kind(TRUE), p)
    BY <1>1, NumberOfBit DEF Kind
  <2>2. TRUE \in BOOLEAN /\ IF TRUE THEN source.select1 ELSE source.select0
    BY <1>1
  <2> QED BY <2>1, <2>2, SelectFinds
<1>2. ASSUME ~At(Pushed, p), source.select0 PROVE SelectOf(FALSE, Rank0(Pushed, p)) = p
  <2>1. p + 1 \in Kind(FALSE) /\ Rank0(Pushed, p) = Upto(Kind(FALSE), p)
    BY <1>2, NumberOfBit DEF Kind
  <2>2. FALSE \in BOOLEAN /\ IF FALSE THEN source.select1 ELSE source.select0
    BY <1>2
  <2> QED BY <2>1, <2>2, SelectFinds
<1> QED BY <1>1, <1>2

\* The invariant of the index that select needs.
IndexInv == BitsInv /\ RanksFull /\ SamplesOK

\* The invariant holds in every state.
LEMMA IndexAlways == SpecStorage => []IndexInv
<1>1. InitStorage => IndexInv
  BY InitBitsInv, InitRanksFull, InitSamples DEF InitStorage, IndexInv
<1>2. IndexInv /\ [NextStorage]_storageVars => IndexInv'
  <2> SUFFICES ASSUME IndexInv, [NextStorage]_storageVars PROVE IndexInv'
    OBVIOUS
  <2>1. [NextBits]_bitVars
    BY DEF NextStorage, PushFlag, SplitLinks, PackExtra, storageVars, bitVars
  <2> QED BY <2>1, BitsStep, RanksFullStep, SamplesStep DEF IndexInv
<1> QED BY <1>1, <1>2, PTL DEF SpecStorage

\* In every state of the index's construction its members are in their ranges:
\* no count is more than the bits before it, no sample lies beyond the units.
THEOREM BitsAlwaysTyped == SpecStorage => []BitsTypeOK
<1>1. IndexInv => BitsTypeOK
  BY InvBitsTypeOK DEF IndexInv
<1> QED BY <1>1, IndexAlways, PTL

\* select1 and select0 find every one and every zero, for every vector that is
\* pushed, in 64-bit and 32-bit builds, by either search for the block.
THEOREM SelectsAlwaysFind == SpecStorage => []SelectsFind
<1>1. IndexInv => SelectsFind
  BY InvSelectsFind DEF IndexInv
<1> QED BY <1>1, IndexAlways, PTL

---------------------------------------------------------------------------
(* The links.                                                              *)

\* The extra of a link is the number whose bits are packed.
LEMMA ExtraRead ==
  ASSUME FlatInv, NEW i \in Nat, i < packed
  PROVE  ExtraAt(i) = values[i + 1]
<1> DEFINE S == 0 .. valueSize - 1
           f == [j \in S |-> ValueBit(i, j) * 2 ^ j]
           Adds(g) == [s \in SUBSET S |->
                         IF s = {} THEN 0
                         ELSE ValueBit(i, CHOOSE x \in s : TRUE) * 2 ^ (CHOOSE x \in s : TRUE)
                              + g[s \ {CHOOSE x \in s : TRUE}]]
           sum == CHOOSE g : g = Adds(g)
<1>1. ExtraAt(i) = sum[S]
  BY DEF ExtraAt, MapThenSumSet, MapThenFoldSet
<1>2. PICK v : v = values[i + 1]
  OBVIOUS
<1>3. /\ valueSize \in Nat /\ v \in Nat /\ v < 2 ^ valueSize
      /\ \A j \in S : ValueBit(i, j) = BitOf(v, j)
  <2>1. /\ values \in Seq(Nat) /\ valueSize = ValueSize(values) /\ i + 1 \in 1 .. Len(values)
        /\ packed \in Nat
    BY LenProperties DEF FlatInv, FlatTyped
  <2>2. i + 1 \in DOMAIN values /\ values[i + 1] \in Nat
    BY <2>1, ElementOfSeq
  <2>3. i \in 0 .. packed - 1
    BY <2>1
  <2> QED BY <1>2, <2>1, <2>2, <2>3, ValueSizeFits, ValuesRead DEF PackedValuesRead
<1>4. IsFiniteSet(S) /\ f \in [S -> Int]
  <2>1. \A j \in S : ValueBit(i, j) * 2 ^ j \in Int
    <3> TAKE j \in S
    <3>1. j \in Nat /\ 2 ^ j \in Nat
      BY <1>3, PowerOfTwo
    <3>2. ValueBit(i, j) \in Int
      BY <1>3, <3>1, BitOfStep
    <3> QED BY <3>1, <3>2
  <2>2. IsFiniteSet(S)
    BY <1>3, FS_Interval
  <2> HIDE DEF S
  <2> QED BY <2>1, <2>2
<1> HIDE DEF S
<1>5. \A g : g = Adds(g) <=> SumsUp(g, f, S)
  <2> SUFFICES ASSUME NEW g
               PROVE  Adds(g) = [s \in SUBSET S |-> IF s = {} THEN 0
                                                  ELSE f[SomeOf(s)] + g[s \ {SomeOf(s)}]]
    BY DEF SumsUp
  <2>1. ASSUME NEW s \in SUBSET S, s # {}
        PROVE  f[SomeOf(s)] = ValueBit(i, CHOOSE x \in s : TRUE) * 2 ^ (CHOOSE x \in s : TRUE)
    BY <2>1 DEF SomeOf
  <2> QED BY <2>1 DEF SomeOf
<1>6. SumsUp(sum, f, S)
  <2>1. PICK g : SumsUp(g, f, S)
    <3> HIDE DEF f
    <3> QED BY <1>4, SumExists
  <2>2. \E h : h = Adds(h)
    <3> HIDE DEF Adds
    <3> QED BY <1>5, <2>1
  <2>3. sum = Adds(sum)
    <3> HIDE DEF Adds
    <3> QED BY <2>2
  <2> HIDE DEF sum, Adds, f
  <2> QED BY <1>5, <2>3
<1>7. /\ sum[{}] = 0
      /\ \A s \in SUBSET S : sum[s] \in Int
      /\ \A s \in SUBSET S : \A x \in s : sum[s] = f[x] + sum[s \ {x}]
  <2> HIDE DEF sum, f
  <2> QED BY <1>4, <1>6, SumAdds
<1>8. \A j \in S : f[j] = BitOf(v, j) * 2 ^ j
  BY <1>3
<1> HIDE DEF sum, f, Adds
\* The low k bits add up to v % 2 ^ k.
<1> DEFINE Bad == {k \in 0 .. valueSize : sum[0 .. k - 1] # v % 2 ^ k}
<1>9. Bad = {}
  <2> SUFFICES ASSUME Bad # {} PROVE FALSE
    OBVIOUS
  <2>1. PICK k \in Bad : \A l \in Bad : k <= l
    <3>1. Bad \subseteq Nat
      BY <1>3
    <3> HIDE DEF Bad
    <3> QED BY <3>1, LeastElement
  <2>2. k # 0
    <3>1. 0 .. 0 - 1 = {} /\ 2 ^ 0 = 1
      BY PowerOfTwo
    <3>2. v % 1 = 0
      BY <1>3
    <3> QED BY <1>7, <2>1, <3>1, <3>2
  <2>3. PICK j \in Nat : k = j + 1
    BY <1>3, <2>1, <2>2
  <2>4. j \in S /\ j \notin Bad /\ j \in 0 .. valueSize
    BY <1>3, <2>1, <2>3 DEF S
  <2>5. 0 .. k - 1 \in SUBSET S /\ j \in 0 .. k - 1 /\ (0 .. k - 1) \ {j} = 0 .. j - 1
    BY <1>3, <2>1, <2>3 DEF S
  <2>6. sum[0 .. k - 1] = f[j] + sum[0 .. j - 1]
    <3>1. PICK T \in SUBSET S : T = 0 .. k - 1
      BY <2>5
    <3>2. sum[T] = f[j] + sum[T \ {j}]
      BY <1>7, <2>5, <3>1
    <3>3. T \ {j} = 0 .. j - 1
      BY <2>5, <3>1
    <3> QED BY <3>1, <3>2, <3>3
  <2>7. sum[0 .. j - 1] = v % 2 ^ j
    BY <2>4
  <2>8. v % 2 ^ k = (v % 2 ^ j) + BitOf(v, j) * 2 ^ j
    BY <1>3, <2>3, BitOfStep
  <2>9. v % 2 ^ j \in Int /\ BitOf(v, j) * 2 ^ j \in Int
    <3>1. PICK p \in Nat \ {0} : p = 2 ^ j
      BY PowerOfTwo
    <3>2. v % p \in Int /\ \A c \in {0, 1} : c * p \in Int
      BY <1>3
    <3> QED BY <1>3, <3>1, <3>2, BitOfStep
  <2>10. sum[0 .. k - 1] = v % 2 ^ k
    BY <1>8, <2>4, <2>6, <2>7, <2>8, <2>9
  <2> QED BY <2>1, <2>10
<1>10. sum[S] = v % 2 ^ valueSize
  <2>1. valueSize \in 0 .. valueSize
    BY <1>3
  <2> QED BY <1>9, <2>1 DEF S
<1>11. v % 2 ^ valueSize = v
  <2>1. PICK p \in Nat \ {0} : p = 2 ^ valueSize
    BY <1>3, PowerOfTwo
  <2>2. v % p = v
    BY <1>3, <2>1
  <2> QED BY <2>1, <2>2
<1> QED BY <1>1, <1>2, <1>10, <1>11

\* What the links are, before and after they are split.
LinksInv ==
  /\ nextTerminals \in Seq(Nat) /\ Len(nextTerminals) = NumOnes(source.bits)
  /\ \A i \in DOMAIN nextTerminals :
       nextTerminals[i] \div LabelSize < 2 ^ WordBits[source.unitsPerGroup]
  /\ flatStage # "wait" =>
       /\ stage = "built"
       /\ values = [i \in DOMAIN nextTerminals |-> LinkExtra(nextTerminals[i])]
       /\ bases = [n \in 1 .. size |->
            IF source.bits[n] THEN LinkBase(nextTerminals[Rank1(source.bits, n)]) ELSE 0]

StorageInv == BitsInv /\ FlatInv /\ LinksInv

\* A rank is a number.
LEMMA NumOnesNat == ASSUME NEW bits \in Seq(BOOLEAN), NEW i \in Nat PROVE Rank1(bits, i) \in Nat
<1>1. IsFiniteSet(1 .. i) /\ {p \in 1 .. i : bits[p]} \subseteq 1 .. i
  BY FS_Interval
<1>2. IsFiniteSet({p \in 1 .. i : bits[p]})
  BY <1>1, FS_Subset
<1> QED BY <1>2, FS_CardinalityType DEF Rank1

\* The level starts with nothing stored.
LEMMA InitStorageInv == InitStorage => StorageInv
<1> SUFFICES ASSUME InitStorage PROVE StorageInv
  OBVIOUS
<1>1. BitsInv /\ FlatInv
  BY InitBitsInv, InitFlatInv DEF InitStorage
<1>2. source \in BitInputs /\ source.bits \in Seq(BOOLEAN) /\ flatStage = "wait"
  BY BitInputsAssumption DEF InitStorage, InitBits, InitFlat
<1>3. PICK table \in LinkTables : nextTerminals = [i \in 1 .. NumOnes(source.bits) |-> table[i]]
  BY DEF InitStorage
<1>4. NumOnes(source.bits) \in Nat
  BY <1>2, NumOnesNat, LenProperties DEF NumOnes
<1>5. \A i \in 1 .. NumOnes(source.bits) :
        table[i] \in Nat /\ table[i] \div LabelSize < 2 ^ WordBits[source.unitsPerGroup]
  BY <1>2, LinkTablesAssumption
<1> QED BY <1>1, <1>2, <1>3, <1>4, <1>5 DEF StorageInv, LinksInv

\* The links are split when the flags have their index.
LEMMA SplitLinksInv == ASSUME StorageInv, SplitLinks PROVE StorageInv'
<1>1. /\ stage = "built" /\ UNCHANGED <<bitVars, nextTerminals>> /\ flatStage' = "set"
      /\ values' = [i \in DOMAIN nextTerminals |-> LinkExtra(nextTerminals[i])]
      /\ BuildFlat([i \in DOMAIN nextTerminals |-> LinkExtra(nextTerminals[i])], UnitsPerGroup)
      /\ bases' = [n \in 1 .. size |->
            IF source.bits[n] THEN LinkBase(nextTerminals[Rank1(source.bits, n)]) ELSE 0]
  BY DEF SplitLinks, BuildFlat
<1>2. BitsInv'
  BY <1>1, BitsStep DEF StorageInv
<1> DEFINE vals == [i \in DOMAIN nextTerminals |-> LinkExtra(nextTerminals[i])]
<1>3. /\ vals \in Seq(Nat) /\ UnitsPerGroup \in {1, 2}
      /\ \A i \in DOMAIN vals : vals[i] < 2 ^ WordBits[UnitsPerGroup]
  <2>1. nextTerminals \in Seq(Nat) /\ UnitsPerGroup \in {1, 2} /\ LabelSize \in Nat \ {0}
    BY Widths, LabelSizeAssumption DEF StorageInv, BitsInv, LinksInv
  <2>2. \A t \in Nat : LinkExtra(t) \in Nat
    BY <2>1, DivModNat DEF LinkExtra
  <2>3. \A i \in DOMAIN nextTerminals : LinkExtra(nextTerminals[i]) < 2 ^ WordBits[UnitsPerGroup]
    BY DEF StorageInv, LinksInv, LinkExtra, UnitsPerGroup
  <2>4. /\ Len(nextTerminals) \in Nat /\ DOMAIN nextTerminals = 1 .. Len(nextTerminals)
        /\ \A i \in DOMAIN nextTerminals : nextTerminals[i] \in Nat
    BY <2>1, LenProperties, ElementOfSeq
  <2>5. vals \in [1 .. Len(nextTerminals) -> Nat]
    BY <2>2, <2>4
  <2>6. vals \in Seq(Nat)
    <3> HIDE DEF vals
    <3> QED BY <2>4, <2>5, SeqDef
  <2> QED BY <2>1, <2>3, <2>6
<1>4. FlatInv'
  <2> HIDE DEF vals
  <2>1. BuildFlat(vals, UnitsPerGroup)
    BY <1>1 DEF vals
  <2> QED BY <1>3, <2>1, BuildFlatInv
<1>5. LinksInv'
  BY <1>1 DEF StorageInv, LinksInv, bitVars
<1> QED BY <1>2, <1>4, <1>5 DEF StorageInv

\* Every step of the level.
LEMMA StorageStep == StorageInv /\ [NextStorage]_storageVars => StorageInv'
<1> SUFFICES ASSUME StorageInv, [NextStorage]_storageVars PROVE StorageInv'
  OBVIOUS
<1>1. CASE PushFlag \/ UNCHANGED storageVars
  <2>1. [NextBits]_bitVars /\ UNCHANGED <<flatVars, nextTerminals, bases>>
    BY <1>1 DEF PushFlag, storageVars
  <2>2. BitsInv' /\ FlatInv'
    BY <2>1, BitsStep, FlatStep DEF StorageInv
  <2>3. UNCHANGED source /\ (stage = "built" => UNCHANGED <<stage, size>>)
    BY <2>1 DEF NextBits, PushBack, BeginIndex, IndexUnit, FinishIndex, bitVars
  <2>4. LinksInv'
    BY <2>1, <2>3 DEF StorageInv, LinksInv, flatVars
  <2> QED BY <2>2, <2>4 DEF StorageInv
<1>2. CASE SplitLinks
  BY <1>2, SplitLinksInv
<1>3. CASE PackExtra
  <2>1. NextFlat /\ UNCHANGED <<bitVars, nextTerminals, bases>> /\ [NextBits]_bitVars
    BY <1>3 DEF PackExtra
  <2>2. BitsInv' /\ FlatInv'
    BY <2>1, BitsStep, FlatStep DEF StorageInv
  <2>3. flatStage # "wait" /\ flatStage' # "wait" /\ UNCHANGED values
    BY <2>1 DEF NextFlat, SetValue, FinishFlat
  <2>4. LinksInv'
    BY <2>1, <2>3 DEF StorageInv, LinksInv, bitVars
  <2> QED BY <2>2, <2>4 DEF StorageInv
<1> QED BY <1>1, <1>2, <1>3 DEF NextStorage

\* A link is joined again from its two parts.
LEMMA InvLinksRead == StorageInv => LinksRead
<1> SUFFICES ASSUME StorageInv, flatStage = "packed", NEW n \in 0 .. size - 1, At(source.bits, n)
             PROVE  GetLink(n) = nextTerminals[Rank1(source.bits, n + 1)]
  BY DEF LinksRead
<1>1. /\ stage = "built" /\ size \in Nat /\ size = Len(source.bits) /\ source.bits \in Seq(BOOLEAN)
      /\ packed = Len(values) /\ LabelSize \in Nat \ {0}
  BY Widths, LabelSizeAssumption DEF StorageInv, BitsInv, UnitsOK, LinksInv, FlatInv, FlatTyped
<1> DEFINE r == Rank1(source.bits, n)
<1>2. Rank1Of(n) = r
  <2>1. Rank1Of(n) = OnesTo(n)
    BY <1>1, Rank1Counts DEF StorageInv
  <2>2. \A p : p \in 1 .. n <=> p \in 1 .. size /\ p <= n
    BY <1>1
  <2> QED BY <2>1, <2>2 DEF OnesTo, Before, OneSet, Rank1
<1>3. r \in Nat /\ Rank1(source.bits, n + 1) = r + 1 /\ r + 1 \in 1 .. NumOnes(source.bits)
  <2> DEFINE all == {p \in 1 .. size : source.bits[p]}
             b == {p \in 1 .. n : source.bits[p]}
             c == {p \in 1 .. n + 1 : source.bits[p]}
  <2>1. n + 1 \in 1 .. size /\ source.bits[n + 1] /\ n \in Nat
    BY <1>1 DEF At
  <2>2. c = b \cup {n + 1} /\ n + 1 \notin b
    <3>1. \A p : p \in 1 .. n + 1 <=> p \in 1 .. n \/ p = n + 1
      BY <2>1
    <3> QED BY <2>1, <3>1
  <2>3. c \subseteq all /\ b \subseteq all
    BY <1>1, <2>1
  <2>4. IsFiniteSet(all)
    <3>1. all \subseteq 1 .. size
      OBVIOUS
    <3>2. size \in Int
      BY <1>1
    <3>3. IsFiniteSet(1 .. size)
      BY <3>2, FS_Interval
    <3> QED BY <3>1, <3>3, FS_Subset
  <2> HIDE DEF all, b, c
  <2>5. IsFiniteSet(b) /\ Cardinality(c) = Cardinality(b) + 1 /\ Cardinality(c) <= Cardinality(all)
    BY <2>2, <2>3, <2>4, FS_Subset, FS_AddElement
  <2>6. Cardinality(b) \in Nat /\ Cardinality(all) \in Nat
    BY <2>4, <2>5, FS_CardinalityType
  <2>7. r = Cardinality(b) /\ Rank1(source.bits, n + 1) = Cardinality(c)
        /\ NumOnes(source.bits) = Cardinality(all)
    BY <1>1 DEF Rank1, NumOnes, all, b, c
  <2> QED BY <2>5, <2>6, <2>7
<1> HIDE DEF r
<1> DEFINE t == nextTerminals[r + 1]
<1>4. /\ Len(nextTerminals) = NumOnes(source.bits) /\ r + 1 \in DOMAIN nextTerminals /\ t \in Nat
      /\ values = [i \in DOMAIN nextTerminals |-> LinkExtra(nextTerminals[i])]
  <2>1. nextTerminals \in Seq(Nat) /\ Len(nextTerminals) = NumOnes(source.bits)
        /\ values = [i \in DOMAIN nextTerminals |-> LinkExtra(nextTerminals[i])]
    BY <1>1 DEF StorageInv, LinksInv
  <2> QED BY <1>3, <2>1, ElementOfSeq
<1>5. ExtraAt(r) = LinkExtra(t)
  <2>1. values \in Seq(Nat) /\ DOMAIN values = DOMAIN nextTerminals /\ values[r + 1] = LinkExtra(t)
    BY <1>4 DEF StorageInv, FlatInv, FlatTyped
  <2>2. r < packed
    BY <1>1, <1>3, <1>4, <2>1
  <2> QED BY <1>3, <2>1, <2>2, ExtraRead DEF StorageInv
<1>6. At(bases, n) = LinkBase(t)
  <2>1. bases = [m \in 1 .. size |->
            IF source.bits[m] THEN LinkBase(nextTerminals[Rank1(source.bits, m)]) ELSE 0]
    BY <1>1 DEF StorageInv, LinksInv
  <2>2. n + 1 \in 1 .. size /\ source.bits[n + 1]
    BY <1>1 DEF At
  <2> QED BY <1>3, <2>1, <2>2 DEF At
<1>7. GetLink(n) = (t % LabelSize) + (t \div LabelSize) * LabelSize
  BY <1>2, <1>5, <1>6 DEF GetLink, LinkBase, LinkExtra
<1>8. (t % LabelSize) + (t \div LabelSize) * LabelSize = t
  <2> HIDE DEF t
  <2>1. PICK l \in Nat \ {0} : l = LabelSize
    BY <1>1
  <2>2. t \in Nat
    BY <1>4 DEF t
  <2>3. (t % l) + (t \div l) * l = t
    BY <2>2, DivModNat
  <2> QED BY <2>1, <2>3
<1> QED BY <1>3, <1>7, <1>8

\* A value that is packed is read back from the words it lies in, for every
\* size of a value and of a word.
THEOREM PackedValuesAlwaysRead == SpecStorage => []PackedValuesRead
<1>1. StorageInv => PackedValuesRead
  BY ValuesRead DEF StorageInv
<1> QED BY <1>1, InitStorageInv, StorageStep, PTL DEF SpecStorage

\* The words of a 64-bit build keep nothing that was in the memory.
THEOREM MemoryNeverLeaks == SpecStorage => []NoMemoryLeaks
<1>1. StorageInv => NoMemoryLeaks
  BY NothingLeaks DEF StorageInv
<1> QED BY <1>1, InitStorageInv, StorageStep, PTL DEF SpecStorage

\* A node that is a link finds its link again, whatever the flags and links
\* are: rank1 leads to its extra, and the bits of that are its own.
THEOREM LinksAlwaysRead == SpecStorage => []LinksRead
BY InvLinksRead, InitStorageInv, StorageStep, PTL DEF SpecStorage
===========================================================================
