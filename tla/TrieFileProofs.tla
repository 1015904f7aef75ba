--------------------------- MODULE TrieFileProofs --------------------------
(***************************************************************************)
(* What is written is read back, whatever the tries and wherever writing   *)
(* stops, and the handles, files and streams are those of TrieStore.       *)
(*                                                                         *)
(* The invariant is about where the parts of tries lie.  Laid(cells, a,    *)
(* parts, b) says that nothing in the file contradicts the parts lying     *)
(* there one after the other, from a to b, even where the file ends before *)
(* b.  The complete tries are laid one after the other from the start of   *)
(* the file; a trie that is being written is laid up to the end of the     *)
(* file but for the parts that are pending; and of one that was cut off,   *)
(* wherever that was, some trie is laid that ends beyond the file.  A trie *)
(* that is laid is read back when it ends within the file, and not read    *)
(* when it does not: its reader only asks for cells that its writer would  *)
(* have written, and the last member of a level always takes some cells.   *)
(***************************************************************************)
EXTENDS TrieFile, ProofLemmas, SequenceTheorems, FiniteSetTheorems

---------------------------------------------------------------------------
(* One member of a level.                                                  *)

Levels == [Items -> Seq(Nat)]

\* What is known of a level's members, and a state of reading it.
Partial == UNION {[known -> Seq(Nat)] : known \in SUBSET Items}
ReadStates == [ok : BOOLEAN, pos : Nat, level : Partial]

\* As TriesAssumption says of every level that is built.
Accepted(level) ==
  \A item \in Items :
    IF IsVector(item) THEN Len(level[item]) % ObjectCells(item) = 0
    ELSE /\ Len(level[item]) = WordCells(item)
         /\ WordAccepted(level, item, level[item])
         /\ Kept(item, level[item]) = level[item]

\* A part lies in the file from a position on, as far as the file goes.
Lies(cells, pos, part) ==
  \A x \in 1 .. Len(part) : pos + x <= Len(cells) => cells[pos + x] = part[x]

\* Concatenation, with the lengths as numbers.
LEMMA ConcatIs ==
  ASSUME NEW S, NEW s \in Seq(S), NEW t \in Seq(S), NEW n \in Nat, NEW m \in Nat,
         n = Len(s), m = Len(t)
  PROVE  /\ s \o t \in Seq(S) /\ Len(s \o t) = n + m
         /\ \A i \in 1 .. n : (s \o t)[i] = s[i]
         /\ \A i \in 1 .. m : (s \o t)[n + i] = t[i]
<1>1. PICK u : u = s \o t
  OBVIOUS
<1>2. /\ u \in Seq(S) /\ Len(u) = n + m
      /\ \A i \in 1 .. n + m : u[i] = IF i <= n THEN s[i] ELSE t[i - n]
  BY <1>1, ConcatProperties
<1>3. \A i \in 1 .. m : n + i \in 1 .. n + m /\ ~(n + i <= n) /\ (n + i) - n = i
  OBVIOUS
<1> QED BY <1>1, <1>2, <1>3

\* What a vector is padded with.
LEMMA PaddingTyped == \A n \in Nat : Padding(n) \in Nat
<1> TAKE n \in Nat
<1>1. PICK a \in Nat \ {0} : a = AlignCells
  BY CellsAssumption
<1>2. (-n) % a \in Nat
  OBVIOUS
<1> QED BY <1>1, <1>2 DEF Padding

\* The cells of a vector: its size, its objects, and what it is padded with.
LEMMA VectorCellsAre ==
  ASSUME NEW v \in Seq(Nat)
  PROVE  /\ VectorCells(v) \in Seq(Nat)
         /\ Len(VectorCells(v)) = (2 + Len(v)) + Padding(Len(v))
         /\ VectorCells(v)[1] = Len(v) /\ VectorCells(v)[2] = 0
         /\ \A i \in 1 .. Len(v) : VectorCells(v)[2 + i] = v[i]
<1>1. PICK n \in Nat : n = Len(v)
  BY LenProperties
<1>2. PICK p \in Nat : p = Padding(n)
  BY PaddingTyped
<1>3. PICK s : s = SizeCells(n)
  OBVIOUS
<1>4. s \in Seq(Nat) /\ Len(s) = 2 /\ s[1] = n /\ s[2] = 0
  BY <1>3 DEF SizeCells
<1>5. PICK z : z = [i \in 1 .. p |-> 0]
  OBVIOUS
<1>6. z \in Seq(Nat) /\ Len(z) = p
  <2>1. z \in [1 .. p -> Nat]
    BY <1>5
  <2>2. z \in Seq(Nat)
    BY <2>1, SeqDef
  <2> QED BY <1>5, <2>2, LenProperties
<1>7. PICK t : t = s \o v
  OBVIOUS
<1>8. /\ t \in Seq(Nat) /\ Len(t) = 2 + n
      /\ (\A i \in 1 .. 2 : t[i] = s[i]) /\ \A i \in 1 .. n : t[2 + i] = v[i]
  <2>1. PICK k \in Nat : k = 2
    OBVIOUS
  <2>2. /\ t \in Seq(Nat) /\ Len(t) = k + n
        /\ (\A i \in 1 .. k : t[i] = s[i]) /\ \A i \in 1 .. n : t[k + i] = v[i]
    <3>1. s \in Seq(Nat) /\ v \in Seq(Nat) /\ k = Len(s) /\ n = Len(v)
      BY <1>1, <1>4, <2>1
    <3>2. /\ s \o v \in Seq(Nat) /\ Len(s \o v) = k + n
          /\ \A i \in 1 .. k : (s \o v)[i] = s[i]
          /\ \A i \in 1 .. n : (s \o v)[k + i] = v[i]
      BY ONLY k \in Nat, n \in Nat, <3>1, ConcatIs
    <3> QED BY <1>7, <3>2
  <2> QED BY <2>1, <2>2
<1>9. PICK w : w = t \o z
  OBVIOUS
<1>10. /\ w \in Seq(Nat) /\ Len(w) = (2 + n) + p
       /\ \A i \in 1 .. 2 + n : w[i] = t[i]
  BY <1>6, <1>8, <1>9, ConcatIs
<1>11. VectorCells(v) = w
  BY <1>1, <1>2, <1>3, <1>5, <1>7, <1>9 DEF VectorCells
<1>12. w[1] = n /\ w[2] = 0
  BY <1>4, <1>8, <1>10
<1>13. ASSUME NEW i \in 1 .. n PROVE w[2 + i] = v[i]
  <2>1. 2 + i \in 1 .. 2 + n
    OBVIOUS
  <2> QED BY <1>8, <1>10, <2>1
<1> QED BY <1>1, <1>2, <1>10, <1>11, <1>12, <1>13

\* A part that lies in the file is there, or the file ends in it.
LEMMA SubSeqLies ==
  ASSUME NEW cells \in Seq(Nat), NEW part \in Seq(Nat), NEW pos \in Nat, Lies(cells, pos, part),
         pos + Len(part) <= Len(cells)
  PROVE  SubSeq(cells, pos + 1, pos + Len(part)) = part
<1>1. PICK n \in Nat, m \in Nat : n = Len(part) /\ m = Len(cells)
  BY LenProperties
<1>2. pos + n <= m
  BY <1>1
<1>3. PICK s : s = SubSeq(cells, pos + 1, pos + n)
  OBVIOUS
<1>4. \A i \in pos + 1 .. pos + n : i \in 1 .. Len(cells)
  BY <1>1, <1>2
<1>5. s \in Seq(Nat) /\ Len(s) = n /\ \A i \in 1 .. n : s[i] = cells[pos + i]
  <2>1. /\ s \in Seq(Nat)
        /\ Len(s) = IF pos + 1 <= pos + n THEN (pos + n) - (pos + 1) + 1 ELSE 0
        /\ \A i \in 1 .. (pos + n) - (pos + 1) + 1 : s[i] = cells[(pos + 1) + i - 1]
    BY <1>3, <1>4, SubSeqProperties
  <2>2. (pos + n) - (pos + 1) + 1 = n
    OBVIOUS
  <2>3. \A i \in 1 .. n : (pos + 1) + i - 1 = pos + i
    OBVIOUS
  <2> QED BY <2>1, <2>2, <2>3
<1>6. \A i \in 1 .. n : s[i] = part[i]
  <2> TAKE i \in 1 .. n
  <2>1. pos + i <= Len(cells) /\ i \in 1 .. Len(part)
    BY <1>1, <1>2
  <2> QED BY <1>5, <2>1 DEF Lies
<1>7. s = part
  BY <1>1, <1>5, <1>6, SeqEqual
<1> QED BY <1>1, <1>3, <1>7

\* A vector of a level is read, or the file ends in it.
LEMMA ReadVectorLies ==
  ASSUME NEW cells \in Seq(Nat), NEW r \in ReadStates, r.pos <= Len(cells),
         NEW item, NEW v \in Seq(Nat), Len(v) % ObjectCells(item) = 0,
         NEW end, end = r.pos + Len(VectorCells(v)),
         Lies(cells, r.pos, VectorCells(v))
  PROVE  /\ end \in Nat /\ r.pos < end
         /\ ReadVector(cells, r, item) = IF end <= Len(cells) THEN Got(r, item, v, end)
                                                             ELSE Short(r, cells)
<1>1. PICK m \in Nat, n \in Nat, pos \in Nat : m = Len(cells) /\ n = Len(v) /\ pos = r.pos
  BY LenProperties DEF ReadStates
<1>2. PICK p \in Nat : p = Padding(n)
  BY PaddingTyped
<1>3. PICK w : w = VectorCells(v)
  OBVIOUS
<1>4. /\ w \in Seq(Nat) /\ Len(w) = (2 + n) + p /\ w[1] = n /\ w[2] = 0
      /\ \A i \in 1 .. n : w[2 + i] = v[i]
  BY <1>1, <1>2, <1>3, VectorCellsAre
<1>5. \A x \in 1 .. (2 + n) + p : pos + x <= m => cells[pos + x] = w[x]
  BY <1>1, <1>3, <1>4 DEF Lies
<1>6. end = ((pos + 2) + n) + p /\ end \in Nat /\ pos < end /\ pos <= m
  <2>1. end = pos + ((2 + n) + p) /\ pos <= m
    BY <1>1, <1>3, <1>4
  <2> QED BY ONLY pos \in Nat, n \in Nat, p \in Nat, <2>1
<1>7. CASE pos + 2 > m
  <2>1. ReadVector(cells, r, item) = Short(r, cells)
    BY <1>1, <1>7 DEF ReadVector
  <2>2. ~(end <= m)
    BY <1>6, <1>7
  <2> QED BY <1>1, <1>6, <2>1, <2>2
<1>8. CASE pos + 2 <= m
  <2>1. cells[pos + 1] = n /\ cells[pos + 2] = 0
    <3>1. 1 \in 1 .. (2 + n) + p /\ 2 \in 1 .. (2 + n) + p /\ pos + 1 <= m
      BY <1>8
    <3> QED BY <1>4, <1>5, <1>8, <3>1
  <2>2. n % ObjectCells(item) = 0
    BY <1>1
  <2>3. CASE end > m
    <3>1. ReadVector(cells, r, item) = Short(r, cells)
      BY <1>1, <1>2, <1>6, <1>8, <2>1, <2>2, <2>3 DEF ReadVector
    <3> QED BY <1>1, <1>6, <2>3, <3>1
  <2>4. CASE end <= m
    <3>1. Lies(cells, pos + 2, v)
      <4> SUFFICES ASSUME NEW x \in 1 .. n PROVE cells[(pos + 2) + x] = v[x]
        BY <1>1 DEF Lies
      <4>1. 2 + x \in 1 .. (2 + n) + p /\ pos + (2 + x) <= m /\ pos + (2 + x) = (pos + 2) + x
        BY <1>6, <2>4
      <4> QED BY <1>4, <1>5, <4>1
    <3>2. SubSeq(cells, (pos + 2) + 1, (pos + 2) + n) = v
      <4>1. pos + 2 \in Nat /\ (pos + 2) + n <= m
        BY ONLY pos \in Nat, n \in Nat, p \in Nat, <1>6, <2>4
      <4>2. pos + 2 \in Nat /\ (pos + 2) + Len(v) <= Len(cells)
        BY ONLY <1>1, <4>1
      <4>3. SubSeq(cells, (pos + 2) + 1, (pos + 2) + Len(v)) = v
        BY <3>1, <4>2, SubSeqLies
      <4> QED BY ONLY <1>1, <4>3
    <3>4. PICK first, last : first = pos + 2 /\ last = first + n
      OBVIOUS
    <3>5. /\ first <= m /\ cells[pos + 1] = n /\ cells[first] = 0 /\ ~(first > m)
          /\ end = last + p /\ SubSeq(cells, first + 1, last) = v /\ ~(last + p > m)
      BY ONLY pos \in Nat, n \in Nat, p \in Nat, m \in Nat, <1>6, <1>8, <2>1, <2>4, <3>2, <3>4
    <3>3. ReadVector(cells, r, item) = Got(r, item, v, end)
      <4>1. /\ r.pos + 2 = first /\ cells[r.pos + 1] = n /\ first + n = last
            /\ Len(cells) = m /\ Padding(n) = p
        BY ONLY <1>1, <1>2, <2>1, <3>4
      <4> QED BY ONLY <2>2, <3>5, <4>1 DEF ReadVector
    <3> QED BY <1>1, <1>6, <2>4, <3>3
  <2> QED BY <1>1, <1>6, <2>3, <2>4
<1> QED BY <1>1, <1>7, <1>8

\* A word of a level is read, or the file ends in it.
LEMMA ReadWordLies ==
  ASSUME NEW cells \in Seq(Nat), NEW r \in ReadStates, r.pos <= Len(cells),
         NEW item, NEW v \in Seq(Nat), Len(v) = WordCells(item),
         WordAccepted(r.level, item, v), Kept(item, v) = v,
         NEW end, end = r.pos + Len(v), Lies(cells, r.pos, v)
  PROVE  /\ end \in Nat /\ r.pos < end
         /\ ReadWord(cells, r, item) = IF end <= Len(cells) THEN Got(r, item, v, end)
                                                           ELSE Short(r, cells)
<1>1. PICK m \in Nat, n \in Nat, pos \in Nat : m = Len(cells) /\ n = Len(v) /\ pos = r.pos
  BY LenProperties DEF ReadStates
<1>2. n \in {1, 2} /\ end \in Nat /\ pos < end
  BY <1>1 DEF WordCells
<1>3. CASE end > m
  BY <1>1, <1>2, <1>3 DEF ReadWord
<1>4. CASE end <= m
  <2>1. SubSeq(cells, r.pos + 1, r.pos + Len(v)) = v
    <3>1. r.pos \in Nat /\ r.pos + Len(v) <= Len(cells)
      BY <1>1, <1>4
    <3> QED BY <3>1, SubSeqLies
  <2>2. r.pos + WordCells(item) = end /\ SubSeq(cells, r.pos + 1, end) = v /\ ~(end > Len(cells))
    <3>1. r.pos + WordCells(item) = end
      BY ONLY Len(v) = WordCells(item), end = r.pos + Len(v)
    <3>2. ~(end > Len(cells))
      BY ONLY m \in Nat, <1>1, <1>2, <1>4
    <3> QED BY ONLY Len(v) = WordCells(item), <2>1, <3>1, <3>2
  <2>3. ReadWord(cells, r, item) = Got(r, item, v, end)
    BY ONLY <2>2, WordAccepted(r.level, item, v), Kept(item, v) = v DEF ReadWord
  <2> QED BY <1>1, <1>2, <1>4, <2>3
<1> QED BY <1>1, <1>2, <1>3, <1>4

\* A member of a level is read, or the file ends in it.
LEMMA ReadItemLies ==
  ASSUME NEW cells \in Seq(Nat), NEW r \in ReadStates, r.ok, r.pos <= Len(cells),
         NEW level \in Levels, Accepted(level), NEW item \in Items,
         WordAccepted(r.level, item, level[item]) <=> WordAccepted(level, item, level[item]),
         NEW end, end = r.pos + Len(ItemCells(level, item)),
         Lies(cells, r.pos, ItemCells(level, item))
  PROVE  /\ end \in Nat /\ r.pos < end
         /\ ReadItem(cells, r, item) = IF end <= Len(cells) THEN Got(r, item, level[item], end)
                                                           ELSE Short(r, cells)
<1>1. PICK v \in Seq(Nat) : v = level[item]
  BY DEF Levels
<1>2. CASE IsVector(item)
  <2>1. ItemCells(level, item) = VectorCells(v) /\ ReadItem(cells, r, item) = ReadVector(cells, r, item)
    BY <1>1, <1>2 DEF ItemCells, ReadItem
  <2>2. Len(v) % ObjectCells(item) = 0
    BY <1>1, <1>2 DEF Accepted
  <2> QED BY <1>1, <2>1, <2>2, ReadVectorLies
<1>3. CASE ~IsVector(item)
  <2>1. ItemCells(level, item) = v /\ ReadItem(cells, r, item) = ReadWord(cells, r, item)
    BY <1>1, <1>3 DEF ItemCells, ReadItem
  <2>2. Len(v) = WordCells(item) /\ WordAccepted(r.level, item, v) /\ Kept(item, v) = v
    BY <1>1, <1>3 DEF Accepted
  <2> QED BY <1>1, <2>1, <2>2, ReadWordLies
<1> QED BY <1>2, <1>3

---------------------------------------------------------------------------
(* The order of the members.                                               *)

\* No member comes twice, and a num1s follows the size it is checked against.
Listed(items, S) ==
  /\ items \in Seq(S) /\ Range(items) = S
  /\ \A i, j \in DOMAIN items : items[i] = items[j] => i = j
  /\ \A i \in DOMAIN items :
       items[i][2] = "num1s" =>
         i - 1 \in DOMAIN items /\ items[i - 1] = <<items[i][1], "size">>

\* Lists of different members are listed one after the other.
LEMMA ListedConcat ==
  ASSUME NEW S, NEW T, NEW s, NEW t, Listed(s, S), Listed(t, T), S \cap T = {}
  PROVE  Listed(s \o t, S \cup T)
<1> DEFINE U == S \cup T
<1>1. s \in Seq(U) /\ t \in Seq(U)
  <2>1. s \in Seq(S) /\ t \in Seq(T) /\ S \subseteq U /\ T \subseteq U
    BY DEF Listed
  <2> QED BY <2>1, SeqMonotonic
<1>2. PICK n \in Nat, m \in Nat : n = Len(s) /\ m = Len(t) /\ DOMAIN s = 1 .. n /\ DOMAIN t = 1 .. m
  BY <1>1, LenProperties
<1>3. PICK w : w = s \o t
  OBVIOUS
<1> HIDE DEF U
<1>4. /\ w \in Seq(U) /\ Len(w) = n + m
      /\ \A i \in 1 .. n : w[i] = s[i]
      /\ \A i \in 1 .. m : w[n + i] = t[i]
  BY <1>1, <1>2, <1>3, ConcatIs
<1>5. DOMAIN w = 1 .. n + m
  BY <1>4, LenProperties
<1>6. /\ \A i \in 1 .. n : i \in DOMAIN w /\ s[i] \in S
      /\ \A i \in 1 .. m : n + i \in DOMAIN w /\ t[i] \in T
  <2>1. \A i \in 1 .. n : s[i] \in S
    BY <1>2 DEF Listed, Range
  <2>2. \A i \in 1 .. m : t[i] \in T
    BY <1>2 DEF Listed, Range
  <2> QED BY <1>5, <2>1, <2>2
<1>7. ASSUME NEW i \in DOMAIN w
      PROVE  \/ i \in 1 .. n /\ w[i] = s[i]
             \/ \E k \in 1 .. m : i = n + k /\ w[i] = t[k]
  <2>1. CASE i <= n
    BY <1>4, <1>5, <2>1
  <2>2. CASE i > n
    <3>1. i - n \in 1 .. m /\ i = n + (i - n)
      BY <1>5, <2>2
    <3> QED BY <1>4, <3>1
  <2> QED BY <1>5, <2>1, <2>2
<1>8. Range(w) = U
  <2>1. \A y \in Range(w) : y \in U
    BY <1>6, <1>7 DEF Range, U
  <2>2. \A y \in S : y \in Range(w)
    <3> TAKE y \in S
    <3>1. PICK i \in 1 .. n : y = s[i]
      BY <1>2 DEF Listed, Range
    <3> QED BY <1>4, <1>6, <3>1 DEF Range
  <2>3. \A y \in T : y \in Range(w)
    <3> TAKE y \in T
    <3>1. PICK i \in 1 .. m : y = t[i]
      BY <1>2 DEF Listed, Range
    <3> QED BY <1>4, <1>6, <3>1 DEF Range
  <2> QED BY <2>1, <2>2, <2>3 DEF U
<1>9. ASSUME NEW i \in DOMAIN w, NEW j \in DOMAIN w, w[i] = w[j]
      PROVE  i = j
  <2>1. CASE i \in 1 .. n /\ w[i] = s[i]
    <3>1. j \in 1 .. n /\ w[j] = s[j]
      BY <1>6, <1>7, <1>9, <2>1
    <3> QED BY <1>2, <1>9, <2>1, <3>1 DEF Listed
  <2>2. CASE \E k \in 1 .. m : i = n + k /\ w[i] = t[k]
    <3>1. PICK k \in 1 .. m : i = n + k /\ w[i] = t[k]
      BY <2>2
    <3>2. PICK l \in 1 .. m : j = n + l /\ w[j] = t[l]
      BY <1>6, <1>7, <1>9, <3>1
    <3>3. k = l
      BY <1>2, <1>9, <3>1, <3>2 DEF Listed
    <3> QED BY <3>1, <3>2, <3>3
  <2> QED BY <1>7, <2>1, <2>2
<1>10. ASSUME NEW i \in DOMAIN w, w[i][2] = "num1s"
       PROVE  i - 1 \in DOMAIN w /\ w[i - 1] = <<w[i][1], "size">>
  <2>1. CASE i \in 1 .. n /\ w[i] = s[i]
    <3>1. i - 1 \in 1 .. n /\ s[i - 1] = <<s[i][1], "size">>
      BY <1>2, <1>10, <2>1 DEF Listed
    <3> QED BY <1>4, <1>6, <2>1, <3>1
  <2>2. CASE \E k \in 1 .. m : i = n + k /\ w[i] = t[k]
    <3>1. PICK k \in 1 .. m : i = n + k /\ w[i] = t[k]
      BY <2>2
    <3>2. k - 1 \in 1 .. m /\ t[k - 1] = <<t[k][1], "size">>
      BY <1>2, <1>10, <3>1 DEF Listed
    <3>3. i - 1 = n + (k - 1)
      BY <3>1
    <3> QED BY <1>4, <1>6, <3>1, <3>2, <3>3
  <2> QED BY <1>7, <2>1, <2>2
<1> QED BY <1>3, <1>4, <1>8, <1>9, <1>10 DEF Listed, U

\* The members of a BitVector, of a FlatVector, and single ones.
OfBits(v) == {<<v, "units">>, <<v, "size">>, <<v, "num1s">>, <<v, "ranks">>,
              <<v, "select0s">>, <<v, "select1s">>}
OfFlat(v) == {<<v, "units">>, <<v, "valueSize">>, <<v, "mask">>, <<v, "values">>}

\* The members of a bit vector.
LEMMA BitVectorListed == ASSUME NEW v PROVE Listed(BitVectorItems(v), OfBits(v))
<1>1. PICK s : s = BitVectorItems(v)
  OBVIOUS
<1>2. /\ s \in Seq(OfBits(v)) /\ DOMAIN s = 1 .. 6
      /\ s[1] = <<v, "units">> /\ s[2] = <<v, "size">> /\ s[3] = <<v, "num1s">>
      /\ s[4] = <<v, "ranks">> /\ s[5] = <<v, "select0s">> /\ s[6] = <<v, "select1s">>
  BY <1>1 DEF BitVectorItems, OfBits
<1>3. \A i \in 1 .. 6 : i = 1 \/ i = 2 \/ i = 3 \/ i = 4 \/ i = 5 \/ i = 6
  OBVIOUS
<1>4. Range(s) = OfBits(v)
  <2>1. Range(s) = {s[i] : i \in 1 .. 6}
    BY <1>2 DEF Range
  <2>2. OfBits(v) = {s[1], s[2], s[3], s[4], s[5], s[6]}
    BY <1>2 DEF OfBits
  <2>3. {s[i] : i \in 1 .. 6} = {s[1], s[2], s[3], s[4], s[5], s[6]}
    BY ONLY <1>3
  <2> QED BY <2>1, <2>2, <2>3
<1>5. \A i \in 1 .. 6 :
        s[i][2] = (CASE i = 1 -> "units" [] i = 2 -> "size" [] i = 3 -> "num1s"
                     [] i = 4 -> "ranks" [] i = 5 -> "select0s" [] OTHER -> "select1s")
  BY <1>2, <1>3
<1>6. \A i, j \in 1 .. 6 : s[i] = s[j] => i = j
  BY <1>3, <1>5
<1>7. \A i \in 1 .. 6 : s[i][2] = "num1s" => i - 1 = 2 /\ s[i - 1] = <<s[i][1], "size">>
  <2> TAKE i \in 1 .. 6
  <2> HAVE s[i][2] = "num1s"
  <2>1. i = 3
    BY <1>3, <1>5
  <2> QED BY <1>2, <2>1
<1> QED BY <1>1, <1>2, <1>4, <1>6, <1>7 DEF Listed

\* The members of a vector of packed values.
LEMMA FlatVectorListed == ASSUME NEW v PROVE Listed(FlatVectorItems(v), OfFlat(v))
<1>1. PICK s : s = FlatVectorItems(v)
  OBVIOUS
<1>2. /\ s \in Seq(OfFlat(v)) /\ DOMAIN s = 1 .. 4
      /\ s[1] = <<v, "units">> /\ s[2] = <<v, "valueSize">> /\ s[3] = <<v, "mask">>
      /\ s[4] = <<v, "values">>
  BY <1>1 DEF FlatVectorItems, OfFlat
<1>3. \A i \in 1 .. 4 : i = 1 \/ i = 2 \/ i = 3 \/ i = 4
  OBVIOUS
<1>4. Range(s) = OfFlat(v)
  <2>1. Range(s) = {s[i] : i \in 1 .. 4}
    BY <1>2 DEF Range
  <2>2. OfFlat(v) = {s[1], s[2], s[3], s[4]}
    BY <1>2 DEF OfFlat
  <2>3. {s[i] : i \in 1 .. 4} = {s[1], s[2], s[3], s[4]}
    BY ONLY <1>3
  <2> QED BY <2>1, <2>2, <2>3
<1>5. \A i \in 1 .. 4 :
        s[i][2] = (CASE i = 1 -> "units" [] i = 2 -> "valueSize" [] i = 3 -> "mask"
                     [] OTHER -> "values")
  BY <1>2, <1>3
<1>6. \A i, j \in 1 .. 4 : s[i] = s[j] => i = j
  BY <1>3, <1>5
<1>7. \A i \in 1 .. 4 : s[i][2] # "num1s"
  BY <1>5
<1> QED BY <1>1, <1>2, <1>4, <1>6, <1>7 DEF Listed

\* One member, that is not a num1s.
LEMMA OneListed ==
  ASSUME NEW x, x[2] # "num1s"
  PROVE  Listed(<<x>>, {x})
<1>1. PICK s : s = <<x>>
  OBVIOUS
<1>2. s \in Seq({x}) /\ DOMAIN s = 1 .. 1 /\ s[1] = x
  BY <1>1
<1>3. \A i \in 1 .. 1 : i = 1
  OBVIOUS
<1>4. Range(s) = {x}
  BY <1>2, <1>3 DEF Range
<1> QED BY <1>1, <1>2, <1>3, <1>4 DEF Listed

\* What is read before the next level, and after it.
HeadSet == ((((((OfBits("louds") \cup OfBits("terminalFlags")) \cup OfBits("linkFlags"))
             \cup {<<"bases", "bytes">>}) \cup OfFlat("extras")) \cup {<<"tail", "bytes">>})
             \cup OfBits("endFlags"))
TailSet == {<<"cache", "entries">>, <<"numL1Nodes", "word">>, <<"config", "word">>}

\* The members before the levels below, each once.
LEMMA HeadListed == Listed(HeadItems, HeadSet)
<1> DEFINE h1 == BitVectorItems("louds") \o BitVectorItems("terminalFlags")
           h2 == h1 \o BitVectorItems("linkFlags")
           h3 == h2 \o <<<<"bases", "bytes">>>>
           h4 == h3 \o FlatVectorItems("extras")
           h5 == h4 \o <<<<"tail", "bytes">>>>
           h6 == h5 \o BitVectorItems("endFlags")
           S1 == OfBits("louds") \cup OfBits("terminalFlags")
           S2 == S1 \cup OfBits("linkFlags")
           S3 == S2 \cup {<<"bases", "bytes">>}
           S4 == S3 \cup OfFlat("extras")
           S5 == S4 \cup {<<"tail", "bytes">>}
<1>1. /\ \A v : \A x \in OfBits(v) : x[1] = v
      /\ \A v : \A x \in OfFlat(v) : x[1] = v
  BY DEF OfBits, OfFlat
<1>2. /\ \A x \in S1 : x[1] \in {"louds", "terminalFlags"}
      /\ \A x \in S2 : x[1] \in {"louds", "terminalFlags", "linkFlags"}
      /\ \A x \in S3 : x[1] \in {"louds", "terminalFlags", "linkFlags", "bases"}
      /\ \A x \in S4 : x[1] \in {"louds", "terminalFlags", "linkFlags", "bases", "extras"}
      /\ \A x \in S5 : x[1] \in {"louds", "terminalFlags", "linkFlags", "bases", "extras", "tail"}
  BY <1>1
<1>3. /\ OfBits("louds") \cap OfBits("terminalFlags") = {}
      /\ S1 \cap OfBits("linkFlags") = {} /\ S2 \cap {<<"bases", "bytes">>} = {}
      /\ S3 \cap OfFlat("extras") = {} /\ S4 \cap {<<"tail", "bytes">>} = {}
      /\ S5 \cap OfBits("endFlags") = {}
  <2>1. \A x \in OfBits("louds") : x \notin OfBits("terminalFlags")
    BY <1>1
  <2>2. \A x \in S1 : x \notin OfBits("linkFlags")
    BY <1>1, <1>2
  <2>3. \A x \in S2 : x # <<"bases", "bytes">>
    BY <1>2
  <2>4. \A x \in S3 : x \notin OfFlat("extras")
    BY <1>1, <1>2
  <2>5. \A x \in S4 : x # <<"tail", "bytes">>
    BY <1>2
  <2>6. \A x \in S5 : x \notin OfBits("endFlags")
    BY <1>1, <1>2
  <2> HIDE DEF S1, S2, S3, S4, S5
  <2> QED BY <2>1, <2>2, <2>3, <2>4, <2>5, <2>6
<1>4. /\ Listed(BitVectorItems("louds"), OfBits("louds"))
      /\ Listed(BitVectorItems("terminalFlags"), OfBits("terminalFlags"))
      /\ Listed(BitVectorItems("linkFlags"), OfBits("linkFlags"))
      /\ Listed(BitVectorItems("endFlags"), OfBits("endFlags"))
      /\ Listed(FlatVectorItems("extras"), OfFlat("extras"))
  BY BitVectorListed, FlatVectorListed
<1>5. /\ Listed(<<<<"bases", "bytes">>>>, {<<"bases", "bytes">>})
      /\ Listed(<<<<"tail", "bytes">>>>, {<<"tail", "bytes">>})
  <2>1. \A v : <<v, "bytes">>[2] # "num1s"
    OBVIOUS
  <2> QED BY <2>1, OneListed
<1>6. Listed(h1, S1)
  BY <1>3, <1>4, ListedConcat
<1>7. Listed(h2, S2)
  <2> HIDE DEF h1, S1
  <2> QED BY <1>3, <1>4, <1>6, ListedConcat
<1>8. Listed(h3, S3)
  <2> HIDE DEF h2, S2
  <2> QED BY <1>3, <1>5, <1>7, ListedConcat
<1>9. Listed(h4, S4)
  <2> HIDE DEF h3, S3
  <2> QED BY <1>3, <1>4, <1>8, ListedConcat
<1>10. Listed(h5, S5)
  <2> HIDE DEF h4, S4
  <2> QED BY <1>3, <1>5, <1>9, ListedConcat
<1>11. Listed(h6, S5 \cup OfBits("endFlags"))
  <2> HIDE DEF h5, S5
  <2> QED BY <1>3, <1>4, <1>10, ListedConcat
<1>12. HeadItems = h6 /\ HeadSet = S5 \cup OfBits("endFlags")
  BY DEF HeadItems, HeadSet
<1> HIDE DEF h6, S5
<1> QED BY <1>11, <1>12

\* The members after the levels below, each once.
LEMMA TailListed == Listed(TailItems, TailSet)
<1>1. PICK s : s = TailItems
  OBVIOUS
<1>2. /\ s \in Seq(TailSet) /\ DOMAIN s = 1 .. 3
      /\ s[1] = <<"cache", "entries">> /\ s[2] = <<"numL1Nodes", "word">>
      /\ s[3] = <<"config", "word">>
  BY <1>1 DEF TailItems, TailSet
<1>3. \A i \in 1 .. 3 : i = 1 \/ i = 2 \/ i = 3
  OBVIOUS
<1>4. Range(s) = TailSet
  BY <1>2, <1>3 DEF Range, TailSet
<1>5. \A i \in 1 .. 3 :
        s[i][1] = (CASE i = 1 -> "cache" [] i = 2 -> "numL1Nodes" [] OTHER -> "config")
  BY <1>2, <1>3
<1>6. \A i, j \in 1 .. 3 : s[i] = s[j] => i = j
  BY <1>3, <1>5
<1>7. \A i \in 1 .. 3 : s[i][2] # "num1s"
  BY <1>2, <1>3
<1> QED BY <1>1, <1>2, <1>4, <1>6, <1>7 DEF Listed

\* The members of a level, and those that are looked at for the next one.
LEMMA ItemsAre ==
  /\ Items = HeadSet \cup TailSet /\ HeadSet \cap TailSet = {}
  /\ <<"linkFlags", "num1s">> \in HeadSet /\ <<"tail", "bytes">> \in HeadSet
  /\ \A item \in HeadSet : item[1] # "config"
  /\ \A item \in TailSet : item[2] # "num1s" /\ item[2] # "valueSize"
  /\ \A item \in Items : item[1] = "config" => item[2] = "word"
<1>1. Items = HeadSet \cup TailSet
  BY HeadListed, TailListed DEF Items, Listed
<1>2. \A item \in HeadSet : item[1] \notin {"cache", "numL1Nodes", "config"}
  BY DEF HeadSet, OfBits, OfFlat
<1>3. \A item \in TailSet : /\ item[1] \in {"cache", "numL1Nodes", "config"}
                            /\ item[2] # "num1s" /\ item[2] # "valueSize"
                            /\ (item[1] = "config" => item[2] = "word")
  BY DEF TailSet
<1>4. <<"linkFlags", "num1s">> \in HeadSet /\ <<"tail", "bytes">> \in HeadSet
  BY DEF HeadSet, OfBits
<1> QED BY <1>1, <1>2, <1>3, <1>4

---------------------------------------------------------------------------
(* One step of reading, whatever the file has.                             *)

\* The members of a level that were read so far.
Part(level, K) == [x \in K |-> level[x]]

\* A member that is read joins the others.
LEMMA GotIs ==
  ASSUME NEW r \in ReadStates, NEW item \in Items, NEW value \in Seq(Nat), NEW pos \in Nat
  PROVE  /\ Got(r, item, value, pos) \in ReadStates
         /\ Got(r, item, value, pos).ok = r.ok /\ Got(r, item, value, pos).pos = pos
         /\ \A level, K : r.level = Part(level, K) /\ value = level[item] =>
              Got(r, item, value, pos).level = Part(level, K \cup {item})
<1>1. PICK l : l = r.level
  OBVIOUS
<1>2. PICK g : g = [x \in {item} \cup DOMAIN r.level |-> IF x = item THEN value ELSE r.level[x]]
  OBVIOUS
<1>3. g = [x \in {item} \cup DOMAIN l |-> IF x = item THEN value ELSE l[x]]
  BY <1>1, <1>2
<1>4. Got(r, item, value, pos) = [ok |-> r.ok, pos |-> pos, level |-> g]
  <2>1. Got(r, item, value, pos) = [r EXCEPT !.pos = pos, !.level = g]
    BY <1>2 DEF Got
  <2> QED BY <2>1 DEF ReadStates
<1>5. g \in Partial
  <2>1. PICK known \in SUBSET Items : l \in [known -> Seq(Nat)]
    BY <1>1 DEF ReadStates, Partial
  <2>2. {item} \cup known \in SUBSET Items /\ g \in [{item} \cup known -> Seq(Nat)]
    BY <1>3, <2>1
  <2> QED BY <2>2 DEF Partial
<1>6. ASSUME NEW level, NEW K, l = Part(level, K), value = level[item]
      PROVE  g = Part(level, K \cup {item})
  <2>1. DOMAIN l = K /\ \A x \in K : l[x] = level[x]
    BY <1>6 DEF Part
  <2>2. g = [x \in {item} \cup K |-> IF x = item THEN value ELSE l[x]]
    BY <1>3, <2>1
  <2>3. \A x \in {item} \cup K : (IF x = item THEN value ELSE l[x]) = level[x]
    BY <1>6, <2>1
  <2>4. {item} \cup K = K \cup {item}
    OBVIOUS
  <2> QED BY <2>2, <2>3, <2>4 DEF Part
<1> QED BY <1>1, <1>4, <1>5, <1>6 DEF ReadStates

\* A word that is accepted is kept as numbers.
LEMMA KeptTyped ==
  ASSUME NEW item \in Items, NEW level, NEW value \in Seq(Nat), Len(value) >= 1,
         WordAccepted(level, item, value)
  PROVE  Kept(item, value) \in Seq(Nat)
<1>1. CASE item[1] # "config"
  BY <1>1 DEF Kept
<1>2. CASE item[1] = "config"
  <2>1. item[2] = "word"
    BY <1>2, ItemsAre
  <2>2. ValidFlags(value[1])
    BY <1>2, <2>1 DEF WordAccepted
  <2>3. value[1] \in Nat
    BY ElementOfSeq
  <2>4. PICK v \in Nat : v = value[1] /\ ValidFlags(v)
    BY <2>2, <2>3
  <2>5. Flags(Parse(v)) \in Nat
    <3>1. TailModeOf(v) \in Nat /\ NodeOrderOf(v) \in Nat
      <4>1. TailModeOf(v) \in {0} \cup TailModes /\ NodeOrderOf(v) \in {0} \cup NodeOrders
        BY SMT, <2>4 DEF ValidFlags
      <4> QED BY SMT, <4>1 DEF TailModes, NodeOrders
    <3>2. NumTriesOf(v) \in Nat
      BY SMT DEF NumTriesOf
    <3>3. PICK a \in Nat, b \in Nat, c \in Nat : a = NumTriesOf(v) /\ b = TailModeOf(v) /\ c = NodeOrderOf(v)
      BY <3>1, <3>2
    <3>4. /\ DefaultConfig.numTries \in Nat /\ DefaultConfig.tailMode \in Nat
          /\ DefaultConfig.nodeOrder \in Nat
      BY SMT DEF DefaultConfig
    <3>5. /\ Parse(v).numTries = (IF a = 0 THEN DefaultConfig.numTries ELSE a)
          /\ Parse(v).tailMode = (IF b = 0 THEN DefaultConfig.tailMode ELSE b)
          /\ Parse(v).nodeOrder = (IF c = 0 THEN DefaultConfig.nodeOrder ELSE c)
      BY <3>3 DEF Parse
    <3>6. Parse(v).numTries \in Nat /\ Parse(v).tailMode \in Nat /\ Parse(v).nodeOrder \in Nat
      BY <3>4, <3>5
    <3> QED BY <3>6 DEF Flags
  <2>6. <<Flags(Parse(v))>> \in Seq(Nat)
    BY <2>5
  <2> QED BY <1>2, <2>4, <2>6 DEF Kept
<1> QED BY <1>1, <1>2

\* What a step of reading leaves: it goes on within the file, and one that
\* succeeds has gone on.
Steps(r, q, m) ==
  /\ r.pos <= m => r.pos <= q.pos /\ q.pos <= m
  /\ q.ok => r.ok /\ r.pos < q.pos /\ q.pos <= m

\* What is kept of a member is cells again, and reading does not go back.
LEMMA ReadItemTyped ==
  ASSUME NEW cells \in Seq(Nat), NEW r \in ReadStates, NEW item \in Items
  PROVE  /\ ReadItem(cells, r, item) \in ReadStates
         /\ r.ok => Steps(r, ReadItem(cells, r, item), Len(cells))
         /\ ~r.ok => ReadItem(cells, r, item) = r
<1>1. PICK m \in Nat, pos \in Nat : m = Len(cells) /\ pos = r.pos
  BY LenProperties DEF ReadStates
<1>2. ~r.ok => ReadItem(cells, r, item) = r
  BY DEF ReadItem
<1>3. /\ Short(r, cells) \in ReadStates /\ Short(r, cells).pos = m /\ Short(r, cells).ok = FALSE
      /\ \A x \in Nat : Wrong(r, x) \in ReadStates /\ Wrong(r, x).pos = x /\ Wrong(r, x).ok = FALSE
  BY <1>1 DEF Short, Wrong, ReadStates
<1>4. Steps(r, Short(r, cells), m)
  BY <1>1, <1>3 DEF Steps
<1>5. ASSUME NEW x \in Nat, pos <= x, x <= m PROVE Steps(r, Wrong(r, x), m)
  BY <1>1, <1>3, <1>5 DEF Steps
<1>6. ASSUME NEW x \in Nat, pos < x, x <= m, NEW v \in Seq(Nat), r.ok
      PROVE  Got(r, item, v, x) \in ReadStates /\ Steps(r, Got(r, item, v, x), m)
  <2>1. /\ Got(r, item, v, x) \in ReadStates
        /\ Got(r, item, v, x).ok = r.ok /\ Got(r, item, v, x).pos = x
    BY GotIs
  <2> QED BY <1>1, <1>6, <2>1 DEF Steps
<1>7. CASE r.ok /\ IsVector(item)
  <2>1. ReadItem(cells, r, item) = ReadVector(cells, r, item)
    BY <1>7 DEF ReadItem
  <2>2. CASE pos + 2 > m
    <3>1. ReadVector(cells, r, item) = Short(r, cells)
      BY <1>1, <2>2 DEF ReadVector
    <3> QED BY <1>1, <1>3, <1>4, <1>7, <2>1, <3>1
  <2>3. CASE pos + 2 <= m
    <3>1. PICK n \in Nat : n = cells[pos + 1]
      <4>1. pos + 1 \in 1 .. Len(cells)
        BY <1>1, <2>3
      <4> QED BY <4>1, ElementOfSeq
    <3>2. PICK p \in Nat : p = Padding(n)
      BY PaddingTyped
    <3>3. PICK first \in Nat, last \in Nat : first = pos + 2 /\ last = first + n
      OBVIOUS
    <3>4. PICK v : v = SubSeq(cells, first + 1, last)
      OBVIOUS
    <3>5. ReadVector(cells, r, item) =
            IF cells[first] # 0 THEN Short(r, cells)
            ELSE IF n % ObjectCells(item) # 0 THEN Wrong(r, first)
            ELSE IF last + p > m THEN Short(r, cells) ELSE Got(r, item, v, last + p)
      <4>1. /\ r.pos + 2 = first /\ cells[r.pos + 1] = n /\ first + n = last
            /\ Len(cells) = m /\ Padding(n) = p /\ ~(first > m)
        BY <1>1, <2>3, <3>1, <3>2, <3>3
      <4> QED BY ONLY <3>4, <4>1 DEF ReadVector
    <3>6. CASE last + p <= m
      <4>1. v \in Seq(Nat)
        <5>1. \A i \in first + 1 .. last : i \in 1 .. Len(cells)
          <6>1. last <= m
            BY ONLY last \in Nat, p \in Nat, m \in Nat, <3>6
          <6> QED BY SMTT(30), <1>1, <3>3, <6>1
        <5> QED BY <3>4, <5>1, SubSeqProperties
      <4>2. pos < last + p /\ last + p \in Nat /\ pos <= first /\ first <= m
        BY <3>3, <2>3
      <4>3. Got(r, item, v, last + p) \in ReadStates /\ Steps(r, Got(r, item, v, last + p), m)
        BY <1>6, <1>7, <3>6, <4>1, <4>2
      <4>4. Steps(r, Wrong(r, first), m)
        BY <1>5, <4>2
      <4> QED BY <1>1, <1>3, <1>4, <1>7, <2>1, <3>5, <4>3, <4>4
    <3>7. CASE ~(last + p <= m)
      <4>1. pos <= first /\ first <= m /\ last + p > m
        BY <3>3, <3>7, <2>3
      <4>2. Steps(r, Wrong(r, first), m)
        BY <1>5, <4>1
      <4> QED BY <1>1, <1>3, <1>4, <1>7, <2>1, <3>5, <4>1, <4>2
    <3> QED BY <3>6, <3>7
  <2> QED BY <2>2, <2>3
<1>8. CASE r.ok /\ ~IsVector(item)
  <2>1. ReadItem(cells, r, item) = ReadWord(cells, r, item)
    BY <1>8 DEF ReadItem
  <2>2. PICK w \in {1, 2} : w = WordCells(item)
    BY DEF WordCells
  <2>3. PICK last \in Nat : last = pos + w
    OBVIOUS
  <2>4. PICK v : v = SubSeq(cells, pos + 1, last)
    OBVIOUS
  <2>5. ReadWord(cells, r, item) =
          IF last > m THEN Short(r, cells)
          ELSE IF ~WordAccepted(r.level, item, v) THEN Wrong(r, last)
          ELSE Got(r, item, Kept(item, v), last)
    <3>1. r.pos + WordCells(item) = last /\ SubSeq(cells, r.pos + 1, last) = v /\ Len(cells) = m
      BY <1>1, <2>2, <2>3, <2>4
    <3> QED BY ONLY <3>1 DEF ReadWord
  <2>6. CASE last > m
    BY <1>1, <1>3, <1>4, <1>8, <2>1, <2>5, <2>6
  <2>7. CASE last <= m
    <3>1. v \in Seq(Nat) /\ Len(v) >= 1
      <4>1. \A i \in pos + 1 .. last : i \in 1 .. Len(cells)
        BY <1>1, <2>3, <2>7
      <4>2. v \in Seq(Nat) /\ Len(v) = IF pos + 1 <= last THEN last - (pos + 1) + 1 ELSE 0
        BY <2>4, <4>1, SubSeqProperties
      <4> QED BY <2>3, <4>2
    <3>2. pos < last /\ pos <= last /\ ~(last > m)
      BY <2>3, <2>7
    <3>3. CASE ~WordAccepted(r.level, item, v)
      <4>1. Steps(r, Wrong(r, last), m)
        BY <1>5, <2>7, <3>2
      <4> QED BY <1>1, <1>3, <1>8, <2>1, <2>5, <3>2, <3>3, <4>1
    <3>4. CASE WordAccepted(r.level, item, v)
      <4>1. Kept(item, v) \in Seq(Nat)
        BY <3>1, <3>4, KeptTyped
      <4>2. /\ Got(r, item, Kept(item, v), last) \in ReadStates
            /\ Steps(r, Got(r, item, Kept(item, v), last), m)
        BY <1>6, <1>8, <2>7, <3>2, <4>1
      <4> QED BY <1>1, <1>8, <2>1, <2>5, <3>2, <3>4, <4>2
    <3> QED BY <3>3, <3>4
  <2> QED BY <2>6, <2>7
<1>9. CASE ~r.ok
  BY <1>2, <1>9
<1> QED BY <1>7, <1>8, <1>9 DEF ReadStates

---------------------------------------------------------------------------
(* Reading some members one after the other.                               *)

ReadRun(U, cells, start, items, n) ==
  /\ U \in [0 .. n -> ReadStates] /\ U[0] = start
  /\ \A i \in 1 .. n : U[i] = ReadItem(cells, U[i - 1], items[i])

\* ReadItems is such a run.
LEMMA ReadItemsRuns ==
  ASSUME NEW cells \in Seq(Nat), NEW start \in ReadStates, NEW items \in Seq(Items),
         NEW n \in Nat, n = Len(items)
  PROVE  \E U : ReadRun(U, cells, start, items, n) /\ ReadItems(cells, start, items) = U[n]
<1> DEFINE D == 0 .. n
           Body(f, i) == IF i = 0 THEN start ELSE ReadItem(cells, f[i - 1], items[i])
           m == [i \in D |-> i]
           next == [i \in D |-> IF i = 0 THEN 0 ELSE i - 1]
           b == [i \in D |-> start]
           h == [p \in D \X ReadStates |-> IF p[1] = 0 THEN start ELSE ReadItem(cells, p[2], items[p[1]])]
<1>1. \A i \in D : i # 0 => items[i] \in Items /\ i - 1 \in D /\ i \in 1 .. n
  BY ElementOfSeq
<1>2. m \in [D -> Nat] /\ next \in [D -> D] /\ b \in [D -> ReadStates] /\ {0} \in SUBSET D
  BY <1>1
<1>3. h \in [D \X ReadStates -> ReadStates]
  <2> SUFFICES ASSUME NEW i \in D, NEW r \in ReadStates
               PROVE  (IF i = 0 THEN start ELSE ReadItem(cells, r, items[i])) \in ReadStates
    OBVIOUS
  <2>1. i # 0 => ReadItem(cells, r, items[i]) \in ReadStates
    BY <1>1, ReadItemTyped
  <2> QED BY <2>1
<1>4. \A i \in D \ {0} : m[next[i]] < m[i]
  <2> SUFFICES ASSUME NEW i \in D \ {0} PROVE m[next[i]] < m[i]
    OBVIOUS
  <2>1. i - 1 \in D /\ i - 1 < i
    BY <1>1
  <2> QED BY <2>1
<1>5. PICK f \in [D -> ReadStates] : \A i \in D : Recurs(f, i, {0}, b, h, next)
  <2> HIDE DEF D, m, next, b, h
  <2> QED BY <1>2, <1>3, <1>4, RecursionHasSolution
<1>6. ASSUME NEW i \in D PROVE f[i] = Body(f, i)
  <2>1. Recurs(f, i, {0}, b, h, next)
    BY <1>5
  <2>2. CASE i = 0
    <3>1. f[i] = b[i]
      BY <2>1, <2>2 DEF Recurs
    <3> QED BY <2>2, <3>1
  <2>3. CASE i # 0
    <3>1. f[i] = h[<<i, f[next[i]]>>]
      BY <2>1, <2>3 DEF Recurs
    <3>2. next[i] = i - 1 /\ f[i - 1] \in ReadStates /\ <<i, f[i - 1]>> \in D \X ReadStates
      BY <1>1, <2>3
    <3>3. h[<<i, f[i - 1]>>] = ReadItem(cells, f[i - 1], items[i])
      BY <2>3, <3>2
    <3> HIDE DEF h, next
    <3> QED BY <2>3, <3>1, <3>2, <3>3
  <2> QED BY <2>2, <2>3
<1>7. f = [i \in D |-> Body(f, i)]
  <2> HIDE DEF Body, D
  <2> QED BY <1>5, <1>6
<1>8. PICK U : /\ U = [i \in D |-> Body(U, i)]
               /\ ReadItems(cells, start, items) = U[n]
  BY <1>7 DEF ReadItems
<1>9. U \in [D -> ReadStates]
  <2> SUFFICES ASSUME NEW j \in D, U[j] \notin ReadStates PROVE FALSE
    BY <1>8
  <2> DEFINE Bad == {i \in D : U[i] \notin ReadStates}
  <2>1. PICK i \in Bad : \A k \in Bad : i <= k
    <3>1. Bad \subseteq Nat /\ Bad # {}
      OBVIOUS
    <3> HIDE DEF Bad
    <3> QED BY <3>1, LeastElement
  <2>2. i \in D /\ U[i] = Body(U, i)
    BY <1>8
  <2>3. i # 0
    BY <2>1, <2>2
  <2>4. U[i - 1] \in ReadStates
    <3>1. i - 1 \in D /\ ~(i <= i - 1)
      BY <1>1, <2>2, <2>3
    <3> QED BY <2>1, <3>1
  <2>5. Body(U, i) \in ReadStates
    BY <1>1, <2>2, <2>3, <2>4, ReadItemTyped
  <2> QED BY <2>1, <2>2, <2>5
<1>10. U[0] = start /\ \A i \in 1 .. n : U[i] = ReadItem(cells, U[i - 1], items[i])
  <2>1. 0 \in D /\ \A i \in 1 .. n : i \in D /\ i # 0
    OBVIOUS
  <2> HIDE DEF D
  <2> QED BY <1>8, <2>1
<1> QED BY <1>8, <1>9, <1>10 DEF ReadRun

\* What reading some members leaves, whatever the file has.
LEMMA ReadItemsTyped ==
  ASSUME NEW cells \in Seq(Nat), NEW start \in ReadStates, NEW items \in Seq(Items),
         Len(items) >= 1, NEW q, q = ReadItems(cells, start, items)
  PROVE  /\ q \in ReadStates
         /\ start.ok => Steps(start, q, Len(cells))
         /\ ~start.ok => q = start
<1>1. PICK n \in Nat, m \in Nat : n = Len(items) /\ m = Len(cells)
  BY LenProperties
<1>2. PICK U : ReadRun(U, cells, start, items, n) /\ q = U[n]
  BY <1>1, ReadItemsRuns
<1>3. /\ U \in [0 .. n -> ReadStates] /\ U[0] = start
      /\ \A i \in 1 .. n : /\ items[i] \in Items /\ U[i - 1] \in ReadStates
                           /\ U[i] = ReadItem(cells, U[i - 1], items[i])
  <2>1. /\ U \in [0 .. n -> ReadStates] /\ U[0] = start
        /\ \A i \in 1 .. n : U[i] = ReadItem(cells, U[i - 1], items[i])
    BY <1>2 DEF ReadRun
  <2>2. \A i \in 1 .. n : items[i] \in Items
    BY <1>1, ElementOfSeq
  <2>3. \A i \in 1 .. n : i - 1 \in 0 .. n
    OBVIOUS
  <2> QED BY <2>1, <2>2, <2>3
<1>4. \A i \in 1 .. n : /\ U[i - 1].ok => Steps(U[i - 1], U[i], m)
                        /\ ~U[i - 1].ok => U[i] = U[i - 1]
  BY <1>1, <1>3, ReadItemTyped
<1>5. \A i \in 0 .. n : U[i].pos \in Nat /\ U[i].ok \in BOOLEAN
  BY <1>3 DEF ReadStates
<1> DEFINE Fine(i) == /\ start.ok => IF i = 0 THEN TRUE ELSE Steps(start, U[i], m)
                      /\ ~start.ok => U[i] = start
           Bad == {i \in 0 .. n : ~Fine(i)}
<1>6. Bad = {}
  <2> SUFFICES ASSUME Bad # {} PROVE FALSE
    OBVIOUS
  <2>1. PICK i \in Bad : \A k \in Bad : i <= k
    <3>1. Bad \subseteq Nat
      OBVIOUS
    <3> HIDE DEF Bad
    <3> QED BY <3>1, LeastElement
  <2>2. i \in 1 .. n
    BY <1>3, <2>1
  <2>3. PICK j \in 0 .. n : j = i - 1 /\ j < i
    BY <2>2
  <2>4. Fine(j)
    <3>1. ~(i <= j)
      BY <2>1, <2>3
    <3> QED BY <2>1, <3>1
  <2>5. /\ U[j].ok => Steps(U[j], U[i], m)
        /\ ~U[j].ok => U[i] = U[j]
    BY <1>4, <2>2, <2>3
  <2>6. j = 0 => U[j] = start
    BY <1>3
  <2>7. start.pos \in Nat /\ start.ok \in BOOLEAN /\ U[i].pos \in Nat /\ U[j].pos \in Nat
        /\ U[j].ok \in BOOLEAN /\ U[i].ok \in BOOLEAN
    BY <1>3, <1>5, <2>2
  <2>8. Fine(i)
    <3>1. CASE ~start.ok
      BY <2>4, <2>5, <3>1
    <3>2. CASE start.ok /\ j = 0
      BY <2>2, <2>5, <2>6, <3>2
    <3>3. CASE start.ok /\ j # 0
      <4>1. Steps(start, U[j], m)
        BY <2>4, <3>3
      <4>2. Steps(start, U[i], m)
        BY <1>1, <2>5, <2>7, <4>1 DEF Steps
      <4> QED BY <2>2, <3>3, <4>2
    <3> QED BY <2>7, <3>1, <3>2, <3>3
  <2> QED BY <2>1, <2>8
<1>7. n \in 0 .. n /\ n # 0 /\ n \notin Bad
  BY <1>1, <1>6
<1> QED BY <1>1, <1>2, <1>3, <1>7

---------------------------------------------------------------------------
(* Parts that follow each other.                                           *)

\* The parts lie in the file one after the other, from a to b, as far as the
\* file goes.
LaidAt(cells, o, parts, n) ==
  /\ o \in [0 .. n -> Nat]
  /\ \A i \in 1 .. n : o[i] = o[i - 1] + Len(parts[i]) /\ Lies(cells, o[i - 1], parts[i])

Laid(cells, a, parts, b) ==
  \E o : LaidAt(cells, o, parts, Len(parts)) /\ o[0] = a /\ o[Len(parts)] = b

\* The offsets go up.
LEMMA OffsetsGoUp ==
  ASSUME NEW cells, NEW parts \in Seq(Seq(Nat)), NEW n \in Nat, n = Len(parts), NEW o,
         LaidAt(cells, o, parts, n)
  PROVE  \A i \in 0 .. n : o[0] <= o[i] /\ o[i] <= o[n]
<1>1. \A i \in 1 .. n : /\ i - 1 \in 0 .. n /\ o[i - 1] \in Nat /\ o[i] \in Nat /\ o[i - 1] <= o[i]
  <2> TAKE i \in 1 .. n
  <2>1. i - 1 \in 0 .. n /\ i \in 0 .. n
    OBVIOUS
  <2>2. Len(parts[i]) \in Nat
    BY ElementOfSeq, LenProperties
  <2>3. o[i - 1] \in Nat /\ o[i] \in Nat
    BY <2>1 DEF LaidAt
  <2> QED BY <2>1, <2>2, <2>3 DEF LaidAt
<1>2. o \in [0 .. n -> Nat]
  BY DEF LaidAt
<1>3. \A i \in 0 .. n : o[0] <= o[i]
  <2> DEFINE Bad == {i \in 0 .. n : ~(o[0] <= o[i])}
  <2> SUFFICES ASSUME Bad # {} PROVE FALSE
    OBVIOUS
  <2>1. PICK i \in Bad : \A k \in Bad : i <= k
    <3>1. Bad \subseteq Nat
      OBVIOUS
    <3> HIDE DEF Bad
    <3> QED BY <3>1, LeastElement
  <2>2. i \in 1 .. n
    BY <1>2, <2>1
  <2>3. ~(i <= i - 1) /\ i - 1 \in 0 .. n
    BY <2>2
  <2>4. o[0] <= o[i - 1]
    BY <2>1, <2>3
  <2> QED BY SMTT(30), <1>1, <1>2, <2>1, <2>2, <2>4
<1>4. \A i \in 0 .. n : o[i] <= o[n]
  <2> DEFINE Bad == {k \in 0 .. n : ~(o[n - k] <= o[n])}
  <2>0. \A i \in 0 .. n : n - i \in 0 .. n /\ n - (n - i) = i
    OBVIOUS
  <2> SUFFICES ASSUME Bad # {} PROVE FALSE
    BY <2>0
  <2>1. PICK k \in Bad : \A j \in Bad : k <= j
    <3>1. Bad \subseteq Nat
      OBVIOUS
    <3> HIDE DEF Bad
    <3> QED BY <3>1, LeastElement
  <2>2. k # 0
    BY SMTT(30), <1>2, <2>1
  <2>3. k - 1 \in 0 .. n /\ ~(k <= k - 1) /\ n - (k - 1) \in 1 .. n /\ (n - (k - 1)) - 1 = n - k
    BY <2>1, <2>2
  <2>4. o[n - (k - 1)] <= o[n]
    BY <2>1, <2>3
  <2>5. PICK i \in 1 .. n : i = n - (k - 1) /\ i - 1 = n - k
    BY <2>3
  <2>6. o[i - 1] <= o[i] /\ o[i] <= o[n] /\ o[i - 1] \in Nat /\ o[i] \in Nat /\ o[n] \in Nat
    <3>1. i \in 0 .. n /\ n \in 0 .. n
      OBVIOUS
    <3>2. i - 1 \in 0 .. n /\ o[i - 1] \in Nat /\ o[i] \in Nat /\ o[i - 1] <= o[i]
      BY <1>1
    <3> QED BY <1>2, <2>4, <2>5, <3>1, <3>2
  <2> QED BY <2>1, <2>5, <2>6
<1> QED BY <1>3, <1>4

\* They do not end before they start.
LEMMA LaidGoesUp ==
  ASSUME NEW cells, NEW parts \in Seq(Seq(Nat)), NEW a, NEW b, Laid(cells, a, parts, b)
  PROVE  a \in Nat /\ b \in Nat /\ a <= b
<1>1. PICK n \in Nat : n = Len(parts)
  BY LenProperties
<1>2. PICK o : LaidAt(cells, o, parts, n) /\ o[0] = a /\ o[n] = b
  BY <1>1 DEF Laid
<1>3. 0 \in 0 .. n /\ n \in 0 .. n /\ o \in [0 .. n -> Nat]
  BY <1>2 DEF LaidAt
<1>4. \A i \in 0 .. n : o[0] <= o[i] /\ o[i] <= o[n]
  BY <1>1, <1>2, OffsetsGoUp
<1> QED BY <1>2, <1>3, <1>4

\* Parts that are laid are laid in two halves, and the other way round.
LEMMA LaidSplits ==
  ASSUME NEW cells, NEW s \in Seq(Seq(Nat)), NEW t \in Seq(Seq(Nat)), NEW a, NEW b,
         Laid(cells, a, s \o t, b)
  PROVE  \E c \in Nat : Laid(cells, a, s, c) /\ Laid(cells, c, t, b)
<1>1. PICK n \in Nat, m \in Nat : n = Len(s) /\ m = Len(t)
  BY LenProperties
<1>2. PICK w : w = s \o t
  OBVIOUS
<1>3. /\ w \in Seq(Seq(Nat)) /\ Len(w) = n + m
      /\ \A i \in 1 .. n : w[i] = s[i]
      /\ \A i \in 1 .. m : w[n + i] = t[i]
  BY <1>1, <1>2, ConcatIs
<1>4. PICK o : LaidAt(cells, o, w, n + m) /\ o[0] = a /\ o[n + m] = b
  BY <1>2, <1>3 DEF Laid
<1> DEFINE p == [i \in 0 .. n |-> o[i]]
           q == [i \in 0 .. m |-> o[n + i]]
<1>5. LaidAt(cells, p, s, n)
  <2>1. p \in [0 .. n -> Nat]
    BY <1>4 DEF LaidAt
  <2>2. ASSUME NEW i \in 1 .. n
        PROVE  p[i] = p[i - 1] + Len(s[i]) /\ Lies(cells, p[i - 1], s[i])
    <3>1. i \in 1 .. n + m /\ i - 1 \in 0 .. n /\ i \in 0 .. n
      OBVIOUS
    <3>2. o[i] = o[i - 1] + Len(w[i]) /\ Lies(cells, o[i - 1], w[i])
      BY <1>4, <3>1 DEF LaidAt
    <3> QED BY <1>3, <3>1, <3>2
  <2> HIDE DEF p
  <2> QED BY <2>1, <2>2 DEF LaidAt
<1>6. LaidAt(cells, q, t, m)
  <2>1. q \in [0 .. m -> Nat]
    BY <1>4 DEF LaidAt
  <2>2. ASSUME NEW i \in 1 .. m
        PROVE  q[i] = q[i - 1] + Len(t[i]) /\ Lies(cells, q[i - 1], t[i])
    <3>1. n + i \in 1 .. n + m /\ i - 1 \in 0 .. m /\ i \in 0 .. m /\ (n + i) - 1 = n + (i - 1)
      OBVIOUS
    <3>2. o[n + i] = o[(n + i) - 1] + Len(w[n + i]) /\ Lies(cells, o[(n + i) - 1], w[n + i])
      BY <1>4, <3>1 DEF LaidAt
    <3>3. q[i] = o[n + i] /\ q[i - 1] = o[n + (i - 1)] /\ w[n + i] = t[i]
      BY <1>3, <3>1
    <3> HIDE DEF q
    <3> QED BY <3>1, <3>2, <3>3
  <2> HIDE DEF q
  <2> QED BY <2>1, <2>2 DEF LaidAt
<1>7. p[0] = a /\ p[n] = o[n] /\ q[0] = o[n] /\ q[m] = b /\ o[n] \in Nat
  <2>1. 0 \in 0 .. n /\ n \in 0 .. n /\ 0 \in 0 .. m /\ m \in 0 .. m /\ n + 0 = n /\ n \in 0 .. n + m
    OBVIOUS
  <2> QED BY <1>4, <2>1 DEF LaidAt
<1> HIDE DEF p, q
<1>8. Laid(cells, a, s, o[n]) /\ Laid(cells, o[n], t, b)
  BY <1>1, <1>5, <1>6, <1>7 DEF Laid
<1> QED BY <1>7, <1>8

\* The other way round.
LEMMA LaidJoins ==
  ASSUME NEW cells, NEW s \in Seq(Seq(Nat)), NEW t \in Seq(Seq(Nat)), NEW a, NEW b, NEW c,
         Laid(cells, a, s, c), Laid(cells, c, t, b)
  PROVE  Laid(cells, a, s \o t, b)
<1>1. PICK n \in Nat, m \in Nat : n = Len(s) /\ m = Len(t)
  BY LenProperties
<1>2. PICK w : w = s \o t
  OBVIOUS
<1>3. /\ w \in Seq(Seq(Nat)) /\ Len(w) = n + m
      /\ \A i \in 1 .. n : w[i] = s[i]
      /\ \A i \in 1 .. m : w[n + i] = t[i]
  BY <1>1, <1>2, ConcatIs
<1>4. PICK p : LaidAt(cells, p, s, n) /\ p[0] = a /\ p[n] = c
  BY <1>1 DEF Laid
<1>5. PICK q : LaidAt(cells, q, t, m) /\ q[0] = c /\ q[m] = b
  BY <1>1 DEF Laid
<1> DEFINE o == [i \in 0 .. n + m |-> IF i <= n THEN p[i] ELSE q[i - n]]
<1>6. (\A i \in 0 .. n : o[i] = p[i]) /\ \A i \in 0 .. m : o[n + i] = q[i]
  <2>1. ASSUME NEW i \in 0 .. n PROVE o[i] = p[i]
    OBVIOUS
  <2>2. ASSUME NEW i \in 0 .. m PROVE o[n + i] = q[i]
    <3>1. CASE i = 0
      BY <1>4, <1>5, <3>1
    <3>2. CASE i # 0
      <4>1. n + i \in 0 .. n + m /\ ~(n + i <= n) /\ (n + i) - n = i
        BY <3>2
      <4> QED BY <4>1
    <3> QED BY <3>1, <3>2
  <2> QED BY <2>1, <2>2
<1>7. p \in [0 .. n -> Nat] /\ q \in [0 .. m -> Nat]
  BY <1>4, <1>5 DEF LaidAt
<1>8. o \in [0 .. n + m -> Nat]
  <2> SUFFICES ASSUME NEW i \in 0 .. n + m PROVE (IF i <= n THEN p[i] ELSE q[i - n]) \in Nat
    OBVIOUS
  <2>1. i <= n => i \in 0 .. n
    OBVIOUS
  <2>2. ~(i <= n) => i - n \in 0 .. m
    OBVIOUS
  <2> QED BY <1>7, <2>1, <2>2
<1> HIDE DEF o
<1>9. ASSUME NEW i \in 1 .. n + m
      PROVE  o[i] = o[i - 1] + Len(w[i]) /\ Lies(cells, o[i - 1], w[i])
  <2>1. CASE i <= n
    <3>1. i \in 1 .. n /\ i \in 0 .. n /\ i - 1 \in 0 .. n
      BY <2>1
    <3>2. p[i] = p[i - 1] + Len(s[i]) /\ Lies(cells, p[i - 1], s[i])
      BY <1>4, <3>1 DEF LaidAt
    <3> QED BY <1>3, <1>6, <3>1, <3>2
  <2>2. CASE ~(i <= n)
    <3>1. PICK k \in 1 .. m : i = n + k
      <4>1. i - n \in 1 .. m /\ i = n + (i - n)
        BY <2>2
      <4> QED BY <4>1
    <3>2. q[k] = q[k - 1] + Len(t[k]) /\ Lies(cells, q[k - 1], t[k])
      BY <1>5 DEF LaidAt
    <3>3. k \in 0 .. m /\ k - 1 \in 0 .. m /\ i - 1 = n + (k - 1)
      BY <3>1
    <3>4. o[i] = q[k] /\ o[i - 1] = q[k - 1] /\ w[i] = t[k]
      BY <1>3, <1>6, <3>1, <3>3
    <3> QED BY <3>2, <3>4
  <2> QED BY <2>1, <2>2
<1>10. LaidAt(cells, o, w, n + m)
  BY <1>8, <1>9 DEF LaidAt
<1>11. o[0] = a /\ o[n + m] = b
  <2>1. 0 \in 0 .. n /\ m \in 0 .. m
    OBVIOUS
  <2> QED BY <1>4, <1>5, <1>6, <2>1
<1> QED BY <1>2, <1>3, <1>10, <1>11 DEF Laid

\* One part.
LEMMA LaidOne ==
  ASSUME NEW cells, NEW part \in Seq(Nat), NEW a, NEW b
  PROVE  Laid(cells, a, <<part>>, b) <=>
           a \in Nat /\ b = a + Len(part) /\ Lies(cells, a, part)
<1>1. PICK s : s = <<part>>
  OBVIOUS
<1>2. s[1] = part /\ Len(s) = 1 /\ Len(part) \in Nat
  BY <1>1, LenProperties
<1>3. ASSUME NEW o
      PROVE  LaidAt(cells, o, s, 1) <=>
               o \in [0 .. 1 -> Nat] /\ o[1] = o[0] + Len(part) /\ Lies(cells, o[0], part)
  <2>1. \A i \in 1 .. 1 : i = 1 /\ i - 1 = 0
    OBVIOUS
  <2>2. 1 \in 1 .. 1 /\ 1 - 1 = 0
    OBVIOUS
  <2> QED BY <1>2, <2>1, <2>2 DEF LaidAt
<1>4. ASSUME Laid(cells, a, s, b)
      PROVE  a \in Nat /\ b = a + Len(part) /\ Lies(cells, a, part)
  <2>1. PICK o : LaidAt(cells, o, s, 1) /\ o[0] = a /\ o[1] = b
    BY <1>2, <1>4 DEF Laid
  <2> QED BY <1>3, <2>1
<1>5. ASSUME a \in Nat, b = a + Len(part), Lies(cells, a, part)
      PROVE  Laid(cells, a, s, b)
  <2>1. PICK o : o = [i \in 0 .. 1 |-> IF i = 0 THEN a ELSE b]
    OBVIOUS
  <2>2. o \in [0 .. 1 -> Nat] /\ o[0] = a /\ o[1] = b
    BY <1>2, <1>5, <2>1
  <2> QED BY <1>2, <1>3, <1>5, <2>2 DEF Laid
<1> QED BY <1>1, <1>4, <1>5

\* Every member takes some cells.
LEMMA ItemCellsTyped ==
  ASSUME NEW level \in Levels, Accepted(level), NEW item \in Items
  PROVE  ItemCells(level, item) \in Seq(Nat) /\ Len(ItemCells(level, item)) >= 1
<1>1. PICK v \in Seq(Nat) : v = level[item]
  BY DEF Levels
<1>2. CASE IsVector(item)
  <2>1. ItemCells(level, item) = VectorCells(v)
    BY <1>1, <1>2 DEF ItemCells
  <2>2. PICK n \in Nat, p \in Nat : n = Len(v) /\ p = Padding(Len(v))
    BY LenProperties, PaddingTyped
  <2>3. VectorCells(v) \in Seq(Nat) /\ Len(VectorCells(v)) = (2 + n) + p
    BY <2>2, VectorCellsAre
  <2>4. (2 + n) + p >= 1
    OBVIOUS
  <2> QED BY <2>1, <2>3, <2>4
<1>3. CASE ~IsVector(item)
  <2>1. ItemCells(level, item) = v
    BY <1>1, <1>3 DEF ItemCells
  <2>2. Len(v) = WordCells(item)
    BY <1>1, <1>3 DEF Accepted
  <2> QED BY <2>1, <2>2 DEF WordCells
<1> QED BY <1>2, <1>3

\* The parts of a level, one for each member, and none is empty.
LEMMA LevelPartsTyped ==
  ASSUME NEW level \in Levels, Accepted(level), NEW items \in Seq(Items)
  PROVE  /\ LevelParts(level, items) \in Seq(Seq(Nat))
         /\ Len(LevelParts(level, items)) = Len(items)
         /\ \A i \in 1 .. Len(items) : /\ items[i] \in Items
                                       /\ LevelParts(level, items)[i] = ItemCells(level, items[i])
                                       /\ Len(LevelParts(level, items)[i]) >= 1
<1>1. PICK n \in Nat : n = Len(items) /\ DOMAIN items = 1 .. n
  BY LenProperties
<1>2. \A i \in 1 .. n : items[i] \in Items
  BY <1>1, ElementOfSeq
<1>3. PICK s : s = LevelParts(level, items)
  OBVIOUS
<1>4. s = [i \in 1 .. n |-> ItemCells(level, items[i])]
  BY <1>1, <1>3 DEF LevelParts
<1>5. s \in [1 .. n -> Seq(Nat)] /\ \A i \in 1 .. n : Len(s[i]) >= 1
  BY <1>2, <1>4, ItemCellsTyped
<1>6. s \in Seq(Seq(Nat))
  BY <1>5, SeqDef
<1>7. Len(s) = n
  BY <1>5, <1>6, LenProperties
<1> QED BY <1>1, <1>2, <1>3, <1>4, <1>5, <1>6, <1>7

\* Part of a level is what reading may have kept.
LEMMA PartTyped ==
  ASSUME NEW level \in Levels, NEW K \in SUBSET Items
  PROVE  Part(level, K) \in Partial
<1>1. Part(level, K) \in [K -> Seq(Nat)]
  BY DEF Part, Levels
<1> QED BY <1>1 DEF Partial

\* Whether a word is accepted is seen from the size that was read before it.
LEMMA AcceptedInPart ==
  ASSUME NEW level, NEW K, NEW item, NEW value,
         item[2] = "num1s" => <<item[1], "size">> \in K
  PROVE  WordAccepted(Part(level, K), item, value) <=> WordAccepted(level, item, value)
<1>1. item[2] = "num1s" => Part(level, K)[<<item[1], "size">>] = level[<<item[1], "size">>]
  BY DEF Part
<1>2. CASE item[2] = "num1s"
  BY <1>1, <1>2 DEF WordAccepted
<1>3. CASE item[2] # "num1s"
  BY <1>3 DEF WordAccepted
<1> QED BY <1>2, <1>3

\* What is left after some members that lie in the file.
ReadSo(cells, level, K, o, i, q) ==
  IF o[i] <= Len(cells) THEN q.ok = TRUE /\ q.pos = o[i] /\ q.level = Part(level, K)
  ELSE q.ok = FALSE /\ q.pos = Len(cells)

\* One more of them.
LEMMA ReadSoGoesOn ==
  ASSUME NEW cells \in Seq(Nat), NEW level \in Levels, Accepted(level),
         NEW K \in SUBSET Items, NEW item \in Items, NEW r \in ReadStates,
         NEW o, NEW i, NEW j, o[j] \in Nat, ReadSo(cells, level, K, o, j, r),
         o[i] = o[j] + Len(ItemCells(level, item)), Lies(cells, o[j], ItemCells(level, item)),
         item[2] = "num1s" => <<item[1], "size">> \in K
  PROVE  ReadSo(cells, level, K \cup {item}, o, i, ReadItem(cells, r, item))
<1>1. PICK m \in Nat, a \in Nat, n \in Nat :
        m = Len(cells) /\ a = o[j] /\ n = Len(ItemCells(level, item)) /\ n >= 1
  BY LenProperties, ItemCellsTyped
<1>2. PICK e \in Nat : e = o[i] /\ e = a + n
  BY <1>1
<1>3. PICK q : q = ReadItem(cells, r, item)
  OBVIOUS
<1>4. CASE a <= m
  <2>1. r.ok = TRUE /\ r.pos = a /\ r.level = Part(level, K)
    BY <1>1, <1>4 DEF ReadSo
  <2>2. q = IF e <= m THEN Got(r, item, level[item], e) ELSE Short(r, cells)
    <3>1. WordAccepted(r.level, item, level[item]) <=> WordAccepted(level, item, level[item])
      <4>1. WordAccepted(Part(level, K), item, level[item]) <=> WordAccepted(level, item, level[item])
        <5>1. item[2] = "num1s" => <<item[1], "size">> \in K
          OBVIOUS
        <5> QED BY ONLY <5>1, AcceptedInPart
      <4> QED BY <2>1, <4>1
    <3>2. /\ r.ok /\ r.pos <= Len(cells) /\ e = r.pos + Len(ItemCells(level, item))
          /\ Lies(cells, r.pos, ItemCells(level, item))
      BY <1>1, <1>2, <1>4, <2>1
    <3>3. ReadItem(cells, r, item) = IF e <= Len(cells) THEN Got(r, item, level[item], e)
                                                        ELSE Short(r, cells)
      BY <3>1, <3>2, ReadItemLies
    <3> QED BY <1>1, <1>3, <3>3
  <2>3. CASE e <= m
    <3>1. level[item] \in Seq(Nat)
      BY DEF Levels
    <3>2. PICK v \in Seq(Nat) : v = level[item]
      BY <3>1
    <3>3. /\ Got(r, item, v, e).ok = r.ok /\ Got(r, item, v, e).pos = e
          /\ Got(r, item, v, e).level = Part(level, K \cup {item})
      BY SMTT(30), <2>1, <3>2, GotIs
    <3>4. q = Got(r, item, v, e)
      BY <2>2, <2>3, <3>2
    <3> QED BY <1>1, <1>2, <1>3, <2>1, <2>3, <3>3, <3>4 DEF ReadSo
  <2>4. CASE ~(e <= m)
    <3>1. q = Short(r, cells)
      BY <2>2, <2>4
    <3>2. q.ok = FALSE /\ q.pos = m
      BY <1>1, <3>1 DEF Short, ReadStates
    <3> QED BY <1>1, <1>2, <1>3, <2>4, <3>2 DEF ReadSo
  <2> QED BY <2>3, <2>4
<1>5. CASE ~(a <= m)
  <2>1. r.ok = FALSE /\ r.pos = m
    BY <1>1, <1>5 DEF ReadSo
  <2>2. q = r
    BY <1>3, <2>1 DEF ReadItem
  <2>3. ~(e <= m)
    BY ONLY m \in Nat, a \in Nat, n \in Nat, <1>2, <1>5
  <2> QED BY <1>1, <1>2, <1>3, <2>1, <2>2, <2>3 DEF ReadSo
<1> QED BY <1>4, <1>5

\* What is read of members that lie in the file up to b.
ReadUpTo(cells, q, level, K, b) ==
  /\ b <= Len(cells) => q = [ok |-> TRUE, pos |-> b, level |-> Part(level, K)]
  /\ ~(b <= Len(cells)) => ~q.ok /\ q.pos = Len(cells)

\* The members of a level that lie in the file one after the other are read, or
\* the file ends in one of them.
LEMMA ReadItemsLie ==
  ASSUME NEW cells \in Seq(Nat), NEW level \in Levels, Accepted(level),
         NEW items, NEW S \in SUBSET Items, Listed(items, S), Len(items) >= 1,
         NEW K \in SUBSET Items, NEW start \in ReadStates, start.ok,
         start.level = Part(level, K), start.pos <= Len(cells), NEW b,
         Laid(cells, start.pos, LevelParts(level, items), b),
         NEW q, q = ReadItems(cells, start, items)
  PROVE  b \in Nat /\ start.pos < b /\ ReadUpTo(cells, q, level, K \cup S, b)
<1>1. items \in Seq(Items)
  BY SeqMonotonic DEF Listed
<1>2. PICK n \in Nat : n = Len(items) /\ DOMAIN items = 1 .. n /\ n >= 1
  BY <1>1, LenProperties
<1>3. PICK parts \in Seq(Seq(Nat)) :
        /\ parts = LevelParts(level, items) /\ Len(parts) = n
        /\ \A i \in 1 .. n : /\ items[i] \in Items /\ parts[i] = ItemCells(level, items[i])
                             /\ Len(parts[i]) >= 1 /\ parts[i] \in Seq(Nat)
  <2>1. \A i \in 1 .. n : ItemCells(level, items[i]) \in Seq(Nat)
    BY <1>1, <1>2, LevelPartsTyped, ItemCellsTyped
  <2> QED BY <1>1, <1>2, <2>1, LevelPartsTyped
<1>4. PICK o : LaidAt(cells, o, parts, n) /\ o[0] = start.pos /\ o[n] = b
  BY <1>3 DEF Laid
<1>5. PICK U : ReadRun(U, cells, start, items, n) /\ q = U[n]
  BY <1>1, <1>2, ReadItemsRuns
<1> DEFINE Done(i) == K \cup {items[k] : k \in 1 .. i}
           Fine(i) == ReadSo(cells, level, Done(i), o, i, U[i])
           Bad == {i \in 0 .. n : ~Fine(i)}
<1>6. Fine(0)
  <2>1. U[0] = start /\ Done(0) = K
    BY <1>5 DEF ReadRun
  <2>2. ReadSo(cells, level, K, o, 0, start)
    BY <1>4 DEF ReadSo
  <2> HIDE DEF Done
  <2> QED BY <2>1, <2>2
<1>7. Bad = {}
  <2> SUFFICES ASSUME Bad # {} PROVE FALSE
    OBVIOUS
  <2>1. PICK i \in Bad : \A k \in Bad : i <= k
    <3>1. Bad \subseteq Nat
      OBVIOUS
    <3> HIDE DEF Bad
    <3> QED BY <3>1, LeastElement
  <2>2. i \in 1 .. n
    <3> HIDE DEF Fine
    <3>1. i \in 0 .. n /\ ~Fine(i)
      BY <2>1
    <3>2. i # 0
      BY <1>6, <3>1
    <3> QED BY <3>1, <3>2
  <2>3. PICK j \in 0 .. n : j = i - 1 /\ j < i
    BY <2>2
  <2>4. Fine(j)
    <3>1. ~(i <= j)
      BY <2>1, <2>3
    <3> HIDE DEF Fine
    <3> QED BY <2>1, <3>1
  <2>5. U[i] = ReadItem(cells, U[j], items[i]) /\ U[j] \in ReadStates
    BY <1>5, <2>2, <2>3 DEF ReadRun
  <2>6. /\ o[j] \in Nat /\ o[i] = o[j] + Len(ItemCells(level, items[i]))
        /\ Lies(cells, o[j], ItemCells(level, items[i]))
    <3>1. o \in [0 .. n -> Nat] /\ o[i] = o[i - 1] + Len(parts[i]) /\ Lies(cells, o[i - 1], parts[i])
      BY <1>4, <2>2 DEF LaidAt
    <3> QED BY <1>3, <2>2, <2>3, <3>1
  <2>7. items[i] \in Items /\ Done(j) \in SUBSET Items
    <3>1. \A k \in 1 .. j : k \in 1 .. n
      BY <2>3
    <3> QED BY <1>3, <2>2, <3>1
  <2>8. items[i][2] = "num1s" => <<items[i][1], "size">> \in Done(j)
    <3> HAVE items[i][2] = "num1s"
    <3>1. i - 1 \in 1 .. n /\ items[i - 1] = <<items[i][1], "size">>
      BY <1>2, <2>2 DEF Listed
    <3>2. j \in 1 .. j
      BY <2>3, <3>1
    <3> QED BY <2>3, <3>1, <3>2
  <2>9. Done(j) \cup {items[i]} = Done(i)
    <3>1. 1 .. i = (1 .. j) \cup {i}
      BY <2>2, <2>3
    <3>2. PICK J : J = 1 .. j
      OBVIOUS
    <3>3. Done(i) = K \cup {items[k] : k \in J \cup {i}} /\ Done(j) = K \cup {items[k] : k \in J}
      BY <3>1, <3>2
    <3> HIDE DEF Done
    <3> QED BY <3>3
  <2>10. ReadSo(cells, level, Done(i), o, i, U[i])
    <3> HIDE DEF Done
    <3>1. ReadSo(cells, level, Done(j), o, j, U[j])
      BY <2>4
    <3>2. ReadSo(cells, level, Done(j) \cup {items[i]}, o, i, ReadItem(cells, U[j], items[i]))
      BY <2>5, <2>6, <2>7, <2>8, <3>1, ReadSoGoesOn
    <3> QED BY <2>5, <2>9, <3>2
  <2> QED BY <2>1, <2>10
<1>8. Done(n) = K \cup S
  <2>1. Range(items) = {items[k] : k \in 1 .. n}
    BY <1>2 DEF Range
  <2> QED BY <2>1 DEF Listed
<1>9. ReadSo(cells, level, K \cup S, o, n, q)
  <2>1. n \in 0 .. n
    OBVIOUS
  <2>2. Fine(n)
    BY <1>7, <2>1
  <2> QED BY <1>5, <1>8, <2>2
<1>10. q \in ReadStates
  BY <1>1, ReadItemsTyped
<1>11. b \in Nat /\ start.pos < b
  <2>1. \A i \in 0 .. n : o[0] <= o[i] /\ o[i] <= o[n]
    BY <1>3, <1>4, OffsetsGoUp
  <2>2. 1 \in 1 .. n /\ 1 \in 0 .. n /\ 0 \in 0 .. n /\ n \in 0 .. n
    BY <1>2
  <2>3. o \in [0 .. n -> Nat] /\ o[1] = o[1 - 1] + Len(parts[1])
    BY <1>4, <2>2 DEF LaidAt
  <2>4. o[1] = o[0] + Len(parts[1]) /\ o[0] \in Nat /\ o[1] \in Nat /\ o[n] \in Nat
    BY <2>2, <2>3
  <2>5. Len(parts[1]) >= 1 /\ Len(parts[1]) \in Nat
    BY <1>3, <2>2, LenProperties
  <2>6. o[1] <= o[n]
    BY <2>1, <2>2
  <2> QED BY <1>4, <2>4, <2>5, <2>6
<1>12. CASE b <= Len(cells)
  <2>1. q.ok = TRUE /\ q.pos = b /\ q.level = Part(level, K \cup S)
    BY <1>4, <1>9, <1>12 DEF ReadSo
  <2>2. q = [ok |-> q.ok, pos |-> q.pos, level |-> q.level]
    BY <1>10 DEF ReadStates
  <2> QED BY <1>11, <1>12, <2>1, <2>2 DEF ReadUpTo
<1>13. CASE ~(b <= Len(cells))
  BY <1>4, <1>9, <1>11, <1>13 DEF ReadSo, ReadUpTo
<1> QED BY <1>12, <1>13

---------------------------------------------------------------------------
(* The parts of a trie.                                                    *)

\* What is assumed of tries, level by level.
LEMMA LevelOfTrie ==
  ASSUME NEW trie \in Tries
  PROVE  /\ trie \in Seq(Levels) /\ Len(trie) \in Nat \ {0} /\ DOMAIN trie = 1 .. Len(trie)
         /\ \A l \in 1 .. Len(trie) : /\ trie[l] \in Levels /\ Accepted(trie[l])
                                      /\ HasNext(trie[l]) <=> l < Len(trie)
<1>1. trie \in Seq(Levels) /\ trie # <<>>
  BY TriesAssumption DEF Levels
<1>2. Len(trie) \in Nat /\ DOMAIN trie = 1 .. Len(trie) /\ Len(trie) # 0
  BY <1>1, LenProperties, EmptySeq
<1>3. \A l \in 1 .. Len(trie) : trie[l] \in Levels
  BY <1>1, ElementOfSeq
<1>4. \A l \in DOMAIN trie : Accepted(trie[l]) /\ (HasNext(trie[l]) <=> l < Len(trie))
  BY TriesAssumption DEF Accepted
<1> QED BY <1>1, <1>2, <1>3, <1>4

\* The lists of members are not empty.
LEMMA ItemsTyped ==
  /\ HeadItems \in Seq(Items) /\ TailItems \in Seq(Items)
  /\ Len(HeadItems) >= 1 /\ Len(TailItems) >= 1
  /\ HeadSet \in SUBSET Items /\ TailSet \in SUBSET Items
<1>1. HeadItems \in Seq(HeadSet) /\ TailItems \in Seq(TailSet)
  BY HeadListed, TailListed DEF Listed
<1>2. HeadSet \in SUBSET Items /\ TailSet \in SUBSET Items
  BY ItemsAre
<1>3. HeadItems \in Seq(Items) /\ TailItems \in Seq(Items)
  BY <1>1, <1>2, SeqMonotonic
<1>4. \A s \in Seq(Items) : Range(s) # {} => Len(s) >= 1
  <2> SUFFICES ASSUME NEW s \in Seq(Items), Range(s) # {} PROVE Len(s) >= 1
    OBVIOUS
  <2>1. DOMAIN s = 1 .. Len(s) /\ Len(s) \in Nat /\ DOMAIN s # {}
    BY LenProperties DEF Range
  <2> QED BY <2>1
<1>5. Range(HeadItems) = HeadSet /\ Range(TailItems) = TailSet /\ HeadSet # {} /\ TailSet # {}
  BY HeadListed, TailListed, ItemsAre DEF Listed, TailSet
<1> QED BY <1>2, <1>3, <1>4, <1>5

\* The parts of each level with those below it.
LevelsRun(P, trie) ==
  /\ P \in [1 .. Len(trie) -> Seq(Seq(Nat))] /\ P[1] = LevelsParts(trie)
  /\ \A l \in 1 .. Len(trie) :
       P[l] = (LevelParts(trie[l], HeadItems) \o (IF l < Len(trie) THEN P[l + 1] ELSE <<>>))
              \o LevelParts(trie[l], TailItems)

\* LevelsParts is such a run.
LEMMA LevelsPartsRun == ASSUME NEW trie \in Tries PROVE \E P : LevelsRun(P, trie)
<1>1. PICK n \in Nat \ {0} : n = Len(trie)
  BY LevelOfTrie
<1> DEFINE A(l) == LevelParts(trie[l], HeadItems)
           C(l) == LevelParts(trie[l], TailItems)
           Body(f, l) == (A(l) \o (IF l < n THEN f[l + 1] ELSE <<>>)) \o C(l)
           W == {ItemCells(trie[p[1]], p[2]) : p \in Nat \X Items}
           V == Seq(W)
           stop == {l \in Nat : ~(l < n)}
           m == [l \in Nat |-> IF l < n THEN n - l ELSE 0]
           next == [l \in Nat |-> l + 1]
           b == [l \in Nat |-> (A(l) \o <<>>) \o C(l)]
           h == [p \in Nat \X V |-> (A(p[1]) \o p[2]) \o C(p[1])]
<1>2. ASSUME NEW l \in Nat, NEW items \in Seq(Items) PROVE LevelParts(trie[l], items) \in V
  <2>1. DOMAIN items = 1 .. Len(items) /\ Len(items) \in Nat
    BY LenProperties
  <2>2. \A i \in 1 .. Len(items) : ItemCells(trie[l], items[i]) \in W
    <3> TAKE i \in 1 .. Len(items)
    <3>1. <<l, items[i]>> \in Nat \X Items
      BY ElementOfSeq
    <3> QED BY <3>1
  <2> HIDE DEF W
  <2>3. LevelParts(trie[l], items) \in [1 .. Len(items) -> W]
    BY <2>1, <2>2 DEF LevelParts
  <2> QED BY <2>1, <2>3, SeqDef
<1>3. \A l \in Nat : A(l) \in V /\ C(l) \in V
  BY <1>2, ItemsTyped
<1> HIDE DEF W, A, C
<1>4. \A u, v, w \in V : (u \o v) \o w \in V
  BY ConcatProperties
<1>5. <<>> \in V
  BY EmptySeq
<1>6. b \in [Nat -> V] /\ h \in [Nat \X V -> V]
  <2>1. \A l \in Nat : (A(l) \o <<>>) \o C(l) \in V
    BY <1>3, <1>4, <1>5
  <2>2. \A p \in Nat \X V : (A(p[1]) \o p[2]) \o C(p[1]) \in V
    BY <1>3, <1>4
  <2> HIDE DEF V
  <2> QED BY <2>1, <2>2
<1>7. /\ m \in [Nat -> Nat] /\ next \in [Nat -> Nat] /\ stop \in SUBSET Nat
      /\ \A l \in Nat \ stop : m[next[l]] < m[l]
  OBVIOUS
<1>8. PICK f \in [Nat -> V] : \A l \in Nat : Recurs(f, l, stop, b, h, next)
  <2> HIDE DEF V, stop, m, next, b, h
  <2> QED BY <1>6, <1>7, RecursionHasSolution
<1>9. ASSUME NEW l \in Nat PROVE f[l] = Body(f, l)
  <2>1. Recurs(f, l, stop, b, h, next)
    BY <1>8
  <2>2. CASE l \in stop
    <3>1. f[l] = b[l] /\ ~(l < n)
      BY <2>1, <2>2 DEF Recurs
    <3>2. b[l] = (A(l) \o <<>>) \o C(l)
      OBVIOUS
    <3> HIDE DEF b
    <3> QED BY <3>1, <3>2
  <2>3. CASE l \notin stop
    <3>1. f[l] = h[<<l, f[next[l]]>>] /\ l < n
      BY <2>1, <2>3 DEF Recurs
    <3>2. next[l] = l + 1 /\ f[l + 1] \in V /\ <<l, f[l + 1]>> \in Nat \X V
      BY SMTT(30), <1>8
    <3>3. h[<<l, f[l + 1]>>] = (A(l) \o f[l + 1]) \o C(l)
      BY <3>2
    <3> HIDE DEF h, next, V
    <3> QED BY <3>1, <3>2, <3>3
  <2> QED BY <2>2, <2>3
<1>10. f = [l \in Nat |-> Body(f, l)]
  <2> HIDE DEF Body
  <2> QED BY <1>8, <1>9
<1>11. PICK F : F = [l \in Nat |-> Body(F, l)] /\ LevelsParts(trie) = F[1]
  BY ZenonT(30), <1>1, <1>10 DEF LevelsParts, A, C
<1>12. \A l \in Nat : F[l] = Body(F, l)
  <2> HIDE DEF Body
  <2> QED BY <1>11
<1>13. \A l \in 1 .. n : A(l) \in Seq(Seq(Nat)) /\ C(l) \in Seq(Seq(Nat))
  BY <1>1, LevelOfTrie, ItemsTyped, LevelPartsTyped DEF A, C
<1> DEFINE Bad == {k \in 0 .. n - 1 : F[n - k] \notin Seq(Seq(Nat))}
<1>14. Bad = {}
  <2> SUFFICES ASSUME Bad # {} PROVE FALSE
    OBVIOUS
  <2>1. PICK k \in Bad : \A j \in Bad : k <= j
    <3>1. Bad \subseteq Nat
      OBVIOUS
    <3> HIDE DEF Bad
    <3> QED BY <3>1, LeastElement
  <2>2. PICK l \in 1 .. n : l = n - k
    OBVIOUS
  <2>3. l < n => F[l + 1] \in Seq(Seq(Nat))
    <3> HAVE l < n
    <3>1. k - 1 \in 0 .. n - 1 /\ ~(k <= k - 1) /\ n - (k - 1) = l + 1
      BY <2>2
    <3> QED BY <2>1, <3>1
  <2>4. Body(F, l) \in Seq(Seq(Nat))
    <3>1. <<>> \in Seq(Seq(Nat))
      BY EmptySeq
    <3>2. (IF l < n THEN F[l + 1] ELSE <<>>) \in Seq(Seq(Nat))
      BY <2>3, <3>1
    <3>3. PICK v \in Seq(Seq(Nat)) : v = IF l < n THEN F[l + 1] ELSE <<>>
      BY <3>2
    <3>4. (A(l) \o v) \o C(l) \in Seq(Seq(Nat))
      BY <1>13, ConcatProperties
    <3> QED BY <3>3, <3>4
  <2>5. F[l] = Body(F, l)
    <3> l \in Nat
      OBVIOUS
    <3> HIDE DEF Body
    <3> QED BY <1>12
  <2> HIDE DEF Body
  <2> QED BY <2>1, <2>2, <2>4, <2>5
<1> DEFINE P == [l \in 1 .. n |-> F[l]]
<1>15. P \in [1 .. n -> Seq(Seq(Nat))]
  <2> SUFFICES ASSUME NEW l \in 1 .. n PROVE F[l] \in Seq(Seq(Nat))
    OBVIOUS
  <2>1. n - l \in 0 .. n - 1 /\ n - (n - l) = l
    OBVIOUS
  <2> QED BY <1>14, <2>1
<1>16. \A l \in 1 .. n : P[l] = (A(l) \o (IF l < n THEN P[l + 1] ELSE <<>>)) \o C(l)
  <2> TAKE l \in 1 .. n
  <2>1. P[l] = F[l] /\ (l < n => P[l + 1] = F[l + 1])
    OBVIOUS
  <2>2. F[l] = (A(l) \o (IF l < n THEN F[l + 1] ELSE <<>>)) \o C(l)
    <3>1. F[l] = Body(F, l)
      <4> l \in Nat
        OBVIOUS
      <4> HIDE DEF Body
      <4> QED BY <1>12
    <3> QED BY <3>1
  <2> HIDE DEF P
  <2> QED BY <2>1, <2>2
<1>17. P[1] = LevelsParts(trie)
  <2>1. 1 \in 1 .. n
    OBVIOUS
  <2> QED BY <1>11, <2>1
<1> HIDE DEF P
<1> QED BY <1>1, <1>15, <1>16, <1>17 DEF LevelsRun, A, C

---------------------------------------------------------------------------
(* Reading levels, whatever the file has.                                  *)

ReadResults == [ok : BOOLEAN, pos : Nat, trie : Seq(Partial)]

Start(pos) == [ok |-> TRUE, pos |-> pos, level |-> <<>>]
HeadRead(cells, pos) == ReadItems(cells, Start(pos), HeadItems)
Below(R, head) ==
  IF head.ok /\ HasNext(head.level) THEN R[head.pos]
  ELSE [ok |-> head.ok, pos |-> head.pos, trie |-> <<>>]
Middle(head, below) == [ok |-> below.ok, pos |-> below.pos, level |-> head.level]
TailRead(cells, head, below) == ReadItems(cells, Middle(head, below), TailItems)
Whole(cells, head, below) ==
  [ok |-> TailRead(cells, head, below).ok, pos |-> TailRead(cells, head, below).pos,
   trie |-> <<TailRead(cells, head, below).level>> \o below.trie]

LevelsRead(R, cells) ==
  /\ R \in [Nat -> ReadResults]
  /\ \A pos \in Nat : R[pos] = Whole(cells, HeadRead(cells, pos), Below(R, HeadRead(cells, pos)))

\* Before anything is read.
LEMMA NothingRead == <<>> \in Partial /\ \A level : Part(level, {}) = <<>>
<1>1. <<>> \in [{} -> Seq(Nat)]
  OBVIOUS
<1>2. \A level : Part(level, {}) = <<>>
  BY DEF Part
<1> QED BY <1>1, <1>2 DEF Partial

\* What is read of the members before the levels below.
LEMMA HeadTyped ==
  ASSUME NEW cells \in Seq(Nat), NEW pos \in Nat, NEW m \in Nat, m = Len(cells),
         NEW head, head = HeadRead(cells, pos)
  PROVE  /\ head \in ReadStates /\ head.pos \in Nat /\ head.ok \in BOOLEAN
         /\ head.ok => pos < head.pos /\ head.pos <= m
         /\ pos <= m => pos <= head.pos /\ head.pos <= m
<1>1. Start(pos) \in ReadStates /\ Start(pos).ok /\ Start(pos).pos = pos
  BY NothingRead DEF Start, ReadStates
<1>2. head \in ReadStates /\ Steps(Start(pos), head, m)
  BY <1>1, ItemsTyped, ReadItemsTyped DEF HeadRead
<1> QED BY <1>1, <1>2 DEF Steps, ReadStates

\* What is read of a level.
LEMMA WholeTyped ==
  ASSUME NEW cells \in Seq(Nat), NEW head \in ReadStates, NEW below \in ReadResults,
         NEW m \in Nat, m = Len(cells), NEW w, w = Whole(cells, head, below)
  PROVE  /\ w \in ReadResults
         /\ ~below.ok => ~w.ok /\ w.pos = below.pos
         /\ below.ok /\ below.pos <= m => /\ below.pos <= w.pos /\ w.pos <= m
                                          /\ (w.ok => below.pos < w.pos)
<1>1. Middle(head, below) \in ReadStates /\ Middle(head, below).ok = below.ok
      /\ Middle(head, below).pos = below.pos /\ below.ok \in BOOLEAN /\ below.pos \in Nat
      /\ below.trie \in Seq(Partial)
  BY DEF Middle, ReadStates, ReadResults
<1>2. PICK q : q = TailRead(cells, head, below)
  OBVIOUS
<1>3. /\ q \in ReadStates
      /\ below.ok => Steps(Middle(head, below), q, m)
      /\ ~below.ok => q = Middle(head, below)
  BY <1>1, <1>2, ItemsTyped, ReadItemsTyped DEF TailRead
<1>4. q.ok \in BOOLEAN /\ q.pos \in Nat /\ q.level \in Partial
  BY <1>3 DEF ReadStates
<1>5. <<q.level>> \o below.trie \in Seq(Partial)
  <2>1. <<q.level>> \in Seq(Partial)
    BY <1>4
  <2> QED BY <1>1, <2>1, ConcatProperties
<1>6. w = [ok |-> q.ok, pos |-> q.pos, trie |-> <<q.level>> \o below.trie]
  BY <1>2 DEF Whole
<1>7. w.ok = q.ok /\ w.pos = q.pos /\ w \in ReadResults
  BY <1>4, <1>5, <1>6 DEF ReadResults
<1> QED BY <1>1, <1>3, <1>4, <1>7 DEF Steps

\* ReadLevels is such a run.
LEMMA ReadLevelsRuns ==
  ASSUME NEW cells \in Seq(Nat)
  PROVE  \E R : LevelsRead(R, cells) /\ \A start \in Nat : ReadLevels(cells, start) = R[start]
<1>1. PICK len \in Nat : len = Len(cells)
  BY LenProperties
<1> DEFINE H(pos) == HeadRead(cells, pos)
           On(pos) == H(pos).ok /\ HasNext(H(pos).level)
           Ends(pos) == [ok |-> H(pos).ok, pos |-> H(pos).pos, trie |-> <<>>]
           Body(f, pos) == Whole(cells, H(pos), IF On(pos) THEN f[H(pos).pos] ELSE Ends(pos))
           stop == {pos \in Nat : ~On(pos)}
           m == [pos \in Nat |-> IF pos <= len THEN len - pos + 1 ELSE IF On(pos) THEN len + 2 ELSE 0]
           next == [pos \in Nat |-> H(pos).pos]
           b == [pos \in Nat |-> Whole(cells, H(pos), Ends(pos))]
           h == [p \in Nat \X ReadResults |-> Whole(cells, H(p[1]), p[2])]
<1>2. \A pos \in Nat : /\ H(pos) \in ReadStates /\ H(pos).pos \in Nat /\ H(pos).ok \in BOOLEAN
                       /\ H(pos).ok => pos < H(pos).pos /\ H(pos).pos <= len
  BY <1>1, HeadTyped
<1>3. \A pos \in Nat : Ends(pos) \in ReadResults
  <2> TAKE pos \in Nat
  <2>1. <<>> \in Seq(Partial) /\ H(pos).pos \in Nat /\ H(pos).ok \in BOOLEAN
    BY <1>2, EmptySeq
  <2> HIDE DEF H
  <2> QED BY <2>1 DEF ReadResults
<1>4. ASSUME NEW pos \in Nat, NEW below \in ReadResults
      PROVE  Whole(cells, H(pos), below) \in ReadResults
  BY <1>1, <1>2, <1>4, WholeTyped
<1> HIDE DEF H
<1>5. b \in [Nat -> ReadResults]
  BY <1>3, <1>4
<1>6. h \in [Nat \X ReadResults -> ReadResults]
  <2> SUFFICES ASSUME NEW pos \in Nat, NEW below \in ReadResults
               PROVE  Whole(cells, H(pos), below) \in ReadResults
    OBVIOUS
  <2> QED BY <1>4
<1>7. m \in [Nat -> Nat] /\ next \in [Nat -> Nat] /\ stop \in SUBSET Nat
  BY <1>2
<1>8. \A pos \in Nat \ stop : m[next[pos]] < m[pos]
  <2> SUFFICES ASSUME NEW pos \in Nat, On(pos) PROVE m[next[pos]] < m[pos]
    OBVIOUS
  <2>1. PICK to \in Nat : to = H(pos).pos /\ pos < to /\ to <= len
    BY <1>2
  <2>2. next[pos] = to
    BY <2>1
  <2>3. m[to] = len - to + 1
    BY <2>1
  <2>4. m[pos] = IF pos <= len THEN len - pos + 1 ELSE len + 2
    OBVIOUS
  <2> HIDE DEF m, next
  <2> QED BY <2>1, <2>2, <2>3, <2>4
<1>9. PICK f \in [Nat -> ReadResults] : \A pos \in Nat : Recurs(f, pos, stop, b, h, next)
  <2> HIDE DEF stop, m, next, b, h
  <2> QED BY <1>5, <1>6, <1>7, <1>8, RecursionHasSolution
<1>10. ASSUME NEW pos \in Nat PROVE f[pos] = Body(f, pos)
  <2>1. Recurs(f, pos, stop, b, h, next)
    BY <1>9
  <2>2. CASE ~On(pos)
    <3>1. f[pos] = b[pos]
      BY <2>1, <2>2 DEF Recurs
    <3>2. b[pos] = Whole(cells, H(pos), Ends(pos))
      OBVIOUS
    <3> HIDE DEF b
    <3> QED BY <2>2, <3>1, <3>2
  <2>3. CASE On(pos)
    <3>1. f[pos] = h[<<pos, f[next[pos]]>>]
      BY <2>1, <2>3 DEF Recurs
    <3>2. next[pos] = H(pos).pos /\ f[H(pos).pos] \in ReadResults
          /\ <<pos, f[H(pos).pos]>> \in Nat \X ReadResults
      BY <1>2, <1>9
    <3>3. h[<<pos, f[H(pos).pos]>>] = Whole(cells, H(pos), f[H(pos).pos])
      BY <3>2
    <3> HIDE DEF h, next
    <3> QED BY <2>3, <3>1, <3>2, <3>3
  <2> QED BY <2>2, <2>3
<1>11. f = [pos \in Nat |-> Body(f, pos)]
  <2> HIDE DEF Body
  <2> QED BY <1>9, <1>10
<1>12. PICK R : /\ R = [pos \in Nat |-> Body(R, pos)]
                /\ \A start \in Nat : ReadLevels(cells, start) = R[start]
  <2> DEFINE F == CHOOSE g : g = [pos \in Nat |-> Body(g, pos)]
  <2>1. \A start \in Nat : ReadLevels(cells, start) = F[start]
    BY DEF ReadLevels, H, HeadRead, Start, Whole, TailRead, Middle
  <2>2. F = [pos \in Nat |-> Body(F, pos)]
    <3> HIDE DEF Body
    <3> QED BY <1>11
  <2> HIDE DEF F
  <2> QED BY <2>1, <2>2
<1>13. \A pos \in Nat : R[pos] = Body(R, pos)
  <2> HIDE DEF Body
  <2> QED BY <1>12
<1>14. R \in [Nat -> ReadResults]
  <2> DEFINE Bad == {k \in Nat : \E pos \in Nat : m[pos] = k /\ R[pos] \notin ReadResults}
  <2>1. Bad = {}
    <3> SUFFICES ASSUME Bad # {} PROVE FALSE
      OBVIOUS
    <3>1. PICK k \in Bad : \A j \in Bad : k <= j
      <4>1. Bad \subseteq Nat
        OBVIOUS
      <4> HIDE DEF Bad
      <4> QED BY <4>1, LeastElement
    <3>2. PICK pos \in Nat : m[pos] = k /\ R[pos] \notin ReadResults
      OBVIOUS
    <3>3. CASE ~On(pos)
      <4>1. R[pos] = Whole(cells, H(pos), Ends(pos))
        BY <1>13, <3>3
      <4> QED BY <1>3, <1>4, <3>2, <4>1
    <3>4. CASE On(pos)
      <4>1. R[pos] = Whole(cells, H(pos), R[H(pos).pos])
        BY <1>13, <3>4
      <4>2. m[next[pos]] < m[pos] /\ next[pos] = H(pos).pos /\ H(pos).pos \in Nat
        BY <1>2, <1>8, <3>4
      <4>3. m[H(pos).pos] \in Nat /\ m[H(pos).pos] < k
        BY <1>7, <3>2, <4>2
      <4>4. R[H(pos).pos] \in ReadResults
        <5> HIDE DEF m
        <5>1. m[H(pos).pos] \notin Bad
          BY <3>1, <4>3
        <5> QED BY <4>2, <4>3, <5>1
      <4> QED BY <1>4, <3>2, <4>1, <4>4
    <3> QED BY <3>3, <3>4
  <2>2. \A pos \in Nat : R[pos] \in ReadResults
    <3> TAKE pos \in Nat
    <3>1. m[pos] \in Nat
      BY <1>7
    <3> HIDE DEF m
    <3> QED BY <2>1, <3>1
  <2> HIDE DEF Body
  <2> QED BY <1>12, <2>2
<1>15. LevelsRead(R, cells)
  <2>1. \A pos \in Nat : R[pos] = Whole(cells, HeadRead(cells, pos), Below(R, HeadRead(cells, pos)))
    BY <1>13 DEF H, Below
  <2> QED BY <1>14, <2>1 DEF LevelsRead
<1> QED BY <1>12, <1>15

\* Reading levels goes on within the file, and one that succeeds has gone on.
GoesOn(pos, r, m) == pos <= r.pos /\ r.pos <= m /\ (r.ok => pos < r.pos)

\* Reading levels goes on within the file, whatever it has: each takes some cells,
\* so there are only so many.
LEMMA ReadLevelsGoesOn ==
  ASSUME NEW cells \in Seq(Nat), NEW R, LevelsRead(R, cells), NEW pos \in Nat, pos <= Len(cells)
  PROVE  GoesOn(pos, R[pos], Len(cells))
<1>1. PICK m \in Nat : m = Len(cells)
  BY LenProperties
<1> DEFINE Bad == {k \in 0 .. m : ~GoesOn(m - k, R[m - k], m)}
<1>2. Bad = {}
  <2> SUFFICES ASSUME Bad # {} PROVE FALSE
    OBVIOUS
  <2>1. PICK k \in Bad : \A j \in Bad : k <= j
    <3>1. Bad \subseteq Nat
      OBVIOUS
    <3> HIDE DEF Bad
    <3> QED BY <3>1, LeastElement
  <2>2. PICK p \in 0 .. m : p = m - k
    OBVIOUS
  <2>3. ~GoesOn(p, R[p], m)
    BY <2>1, <2>2
  <2>4. PICK head : head = HeadRead(cells, p)
    OBVIOUS
  <2>5. /\ head \in ReadStates /\ head.pos \in Nat /\ head.ok \in BOOLEAN
        /\ head.ok => p < head.pos /\ head.pos <= m
        /\ p <= head.pos /\ head.pos <= m
    BY <1>1, <2>2, <2>4, HeadTyped
  <2>6. PICK below : below = Below(R, head)
    OBVIOUS
  <2>7. R[p] = Whole(cells, head, below) /\ R \in [Nat -> ReadResults]
    BY <2>2, <2>4, <2>6 DEF LevelsRead
  <2>8. below \in ReadResults /\ p <= below.pos /\ below.pos <= m
    <3>1. CASE head.ok /\ HasNext(head.level)
      <4>1. below = R[head.pos]
        BY <2>6, <3>1 DEF Below
      <4>2. GoesOn(head.pos, R[head.pos], m)
        <5>1. PICK j \in 0 .. m : j = m - head.pos
          BY <2>5
        <5>2. m - j = head.pos /\ ~(k <= j)
          BY <2>2, <2>5, <3>1, <5>1
        <5> QED BY <2>1, <5>1, <5>2
      <4>3. below \in ReadResults
        BY <2>5, <2>7, <4>1
      <4> QED BY <2>2, <2>5, <4>1, <4>2, <4>3 DEF GoesOn, ReadResults
    <3>2. CASE ~(head.ok /\ HasNext(head.level))
      <4>1. below = [ok |-> head.ok, pos |-> head.pos, trie |-> <<>>]
        BY <2>6, <3>2 DEF Below
      <4>2. <<>> \in Seq(Partial)
        BY EmptySeq
      <4>3. below \in ReadResults /\ below.pos = head.pos
        BY <2>5, <4>1, <4>2 DEF ReadResults
      <4> QED BY <2>5, <4>3
    <3> QED BY <3>1, <3>2
  <2>9. PICK w : w = R[p]
    OBVIOUS
  <2>10. /\ w \in ReadResults
         /\ ~below.ok => ~w.ok /\ w.pos = below.pos
         /\ below.ok => below.pos <= w.pos /\ w.pos <= m /\ (w.ok => below.pos < w.pos)
    <3>1. m = Len(cells) /\ w = Whole(cells, head, below)
      BY <1>1, <2>7, <2>9
    <3>2. /\ w \in ReadResults
          /\ ~below.ok => ~w.ok /\ w.pos = below.pos
          /\ below.ok /\ below.pos <= m => /\ below.pos <= w.pos /\ w.pos <= m
                                           /\ (w.ok => below.pos < w.pos)
      <4>1. cells \in Seq(Nat) /\ m \in Nat /\ head \in ReadStates /\ below \in ReadResults
        BY <2>5, <2>8
      <4> QED BY ONLY <3>1, <4>1, WholeTyped
    <3> QED BY <2>8, <3>2
  <2>11. below.pos \in Nat /\ w.pos \in Nat /\ p \in Nat
    BY <2>8, <2>10 DEF ReadResults
  <2>12. GoesOn(p, w, m)
    BY <2>8, <2>10, <2>11 DEF GoesOn
  <2> QED BY <2>3, <2>9, <2>12
<1>3. m - pos \in 0 .. m /\ m - (m - pos) = pos
  BY <1>1
<1>4. GoesOn(m - (m - pos), R[m - (m - pos)], m)
  BY <1>2, <1>3
<1> QED BY <1>1, <1>3, <1>4

---------------------------------------------------------------------------
(* Reading what was written.                                               *)

\* The levels from l on.
From(trie, l) == SubSeq(trie, l, Len(trie))

\* The levels from one on are that level and those below it.
LEMMA FromIs ==
  ASSUME NEW trie \in Tries
  PROVE  /\ From(trie, 1) = trie /\ From(trie, Len(trie) + 1) = <<>>
         /\ \A l \in 1 .. Len(trie) : <<trie[l]>> \o From(trie, l + 1) = From(trie, l)
<1>1. PICK n \in Nat \ {0} : n = Len(trie) /\ trie \in Seq(Levels)
  BY LevelOfTrie
<1>2. ASSUME NEW l \in Nat \ {0}, l <= n + 1
      PROVE  /\ From(trie, l) \in Seq(Levels) /\ Len(From(trie, l)) = n - l + 1
             /\ \A i \in 1 .. n - l + 1 : From(trie, l)[i] = trie[l + i - 1]
  <2>1. \A i \in l .. n : i \in 1 .. Len(trie)
    BY <1>1
  <2>2. PICK s : s = SubSeq(trie, l, n)
    OBVIOUS
  <2>3. /\ s \in Seq(Levels) /\ Len(s) = (IF l <= n THEN n - l + 1 ELSE 0)
        /\ \A i \in 1 .. n - l + 1 : s[i] = trie[l + i - 1]
    BY <1>1, <2>1, <2>2, SubSeqProperties
  <2>4. (IF l <= n THEN n - l + 1 ELSE 0) = n - l + 1
    BY <1>2
  <2> QED BY <1>1, <2>2, <2>3, <2>4 DEF From
<1>3. From(trie, 1) = trie
  <2>1. PICK s : s = From(trie, 1)
    OBVIOUS
  <2>2. s \in Seq(Levels) /\ Len(s) = n - 1 + 1 /\ \A i \in 1 .. n - 1 + 1 : s[i] = trie[1 + i - 1]
    BY <1>2, <2>1
  <2>3. (n - 1) + 1 = n /\ \A i \in 1 .. n : 1 + i - 1 = i
    OBVIOUS
  <2>4. Len(s) = n /\ \A i \in 1 .. n : s[i] = trie[i]
    BY <2>2, <2>3
  <2>5. s = trie
    BY <1>1, <2>2, <2>4, SeqEqual
  <2> QED BY <2>1, <2>5
<1>4. From(trie, n + 1) = <<>>
  <2>1. n - (n + 1) + 1 = 0 /\ n + 1 \in Nat \ {0} /\ n + 1 <= n + 1
    OBVIOUS
  <2>2. From(trie, n + 1) \in Seq(Levels) /\ Len(From(trie, n + 1)) = 0
    BY <1>2, <2>1
  <2> QED BY <2>2, EmptySeq
<1>5. ASSUME NEW l \in 1 .. n PROVE <<trie[l]>> \o From(trie, l + 1) = From(trie, l)
  <2>1. PICK s, t, u : s = <<trie[l]>> /\ t = From(trie, l + 1) /\ u = From(trie, l)
    OBVIOUS
  <2>2. PICK k \in Nat : k = n - l
    OBVIOUS
  <2>3. s \in Seq(Levels) /\ Len(s) = 1 /\ s[1] = trie[l]
    BY <1>1, <2>1, ElementOfSeq
  <2>4. t \in Seq(Levels) /\ Len(t) = k /\ \A i \in 1 .. k : t[i] = trie[l + i]
    <3>1. l + 1 \in Nat \ {0} /\ l + 1 <= n + 1 /\ n - (l + 1) + 1 = k
      BY <2>2
    <3>2. \A i \in 1 .. k : (l + 1) + i - 1 = l + i
      OBVIOUS
    <3>3. t \in Seq(Levels) /\ Len(t) = k /\ \A i \in 1 .. k : t[i] = trie[(l + 1) + i - 1]
      BY <1>2, <2>1, <3>1
    <3> QED BY <3>2, <3>3
  <2>5. u \in Seq(Levels) /\ Len(u) = 1 + k /\ \A i \in 1 .. 1 + k : u[i] = trie[l + i - 1]
    <3>1. l \in Nat \ {0} /\ l <= n + 1 /\ n - l + 1 = 1 + k
      BY <2>2
    <3> QED BY <1>2, <2>1, <3>1
  <2>6. PICK one \in Nat : one = 1
    OBVIOUS
  <2>7. /\ s \o t \in Seq(Levels) /\ Len(s \o t) = one + k
        /\ \A i \in 1 .. one : (s \o t)[i] = s[i]
        /\ \A i \in 1 .. k : (s \o t)[one + i] = t[i]
    <3>1. s \in Seq(Levels) /\ t \in Seq(Levels) /\ one = Len(s) /\ k = Len(t)
      BY <2>3, <2>4, <2>6
    <3> QED BY ONLY one \in Nat, k \in Nat, <3>1, ConcatIs
  <2>8. ASSUME NEW i \in 1 .. 1 + k PROVE (s \o t)[i] = u[i]
    <3>1. CASE i = 1
      <4>1. 1 \in 1 .. one /\ l + 1 - 1 = l /\ 1 \in 1 .. 1 + k
        BY <2>6
      <4> QED BY <2>3, <2>5, <2>7, <3>1, <4>1
    <3>2. CASE i # 1
      <4>1. PICK j \in 1 .. k : i = one + j
        <5>1. i - 1 \in 1 .. k /\ i = 1 + (i - 1)
          BY <3>2
        <5> QED BY <2>6, <5>1
      <4>2. l + i - 1 = l + j
        BY <2>6, <4>1
      <4>3. (s \o t)[i] = trie[l + j]
        BY <2>4, <2>7, <4>1
      <4> QED BY <2>5, <4>2, <4>3
    <3> QED BY <3>1, <3>2
  <2>9. s \o t = u
    <3>1. Len(s \o t) = 1 + k
      BY <2>6, <2>7
    <3> QED BY <2>5, <2>7, <2>8, <3>1, SeqEqual
  <2> QED BY <2>1, <2>9
<1> QED BY <1>1, <1>3, <1>4, <1>5

\* What reading from a leaves when the file has something whole up to b, or
\* ends in it.
ReadWhole(r, trie, b, m) ==
  /\ b <= m => r = [ok |-> TRUE, pos |-> b, trie |-> trie]
  /\ ~(b <= m) => ~r.ok /\ r.pos = m

\* The members before the levels below.
LEMMA HeadReadsBack ==
  ASSUME NEW cells \in Seq(Nat), NEW level \in Levels, Accepted(level), NEW a \in Nat, NEW c,
         a <= Len(cells), Laid(cells, a, LevelParts(level, HeadItems), c),
         NEW head, head = HeadRead(cells, a)
  PROVE  c \in Nat /\ a < c /\ head \in ReadStates /\ ReadUpTo(cells, head, level, HeadSet, c)
<1>1. PICK start : start = Start(a)
  OBVIOUS
<1>2. /\ start \in ReadStates /\ start.ok /\ start.pos = a
      /\ start.level = Part(level, {})
  BY <1>1, NothingRead DEF Start, ReadStates
<1>3. {} \in SUBSET Items /\ {} \cup HeadSet = HeadSet
  OBVIOUS
<1>4. /\ start.pos <= Len(cells) /\ Laid(cells, start.pos, LevelParts(level, HeadItems), c)
      /\ head = ReadItems(cells, start, HeadItems)
  BY <1>1, <1>2 DEF HeadRead
<1>5. c \in Nat /\ start.pos < c /\ ReadUpTo(cells, head, level, {} \cup HeadSet, c)
  <2>1. PICK K \in SUBSET Items, S \in SUBSET Items : K = {} /\ S = HeadSet
    BY ItemsTyped
  <2>2. /\ cells \in Seq(Nat) /\ level \in Levels /\ Accepted(level) /\ start \in ReadStates
        /\ Listed(HeadItems, S) /\ Len(HeadItems) >= 1 /\ start.level = Part(level, K)
    BY <1>2, <2>1, ItemsTyped, HeadListed
  <2>3. c \in Nat /\ start.pos < c /\ ReadUpTo(cells, head, level, K \cup S, c)
    BY ONLY K \in SUBSET Items, S \in SUBSET Items, <1>2, <1>4, <2>2, ReadItemsLie
  <2> QED BY <2>1, <2>3
<1>6. head \in ReadStates
  BY <1>2, <1>4, ItemsTyped, ReadItemsTyped
<1> QED BY <1>2, <1>3, <1>5, <1>6

\* The members after the levels below.
LEMMA TailReadsBack ==
  ASSUME NEW cells \in Seq(Nat), NEW level \in Levels, Accepted(level), NEW c \in Nat, NEW b,
         c <= Len(cells), Laid(cells, c, LevelParts(level, TailItems), b),
         NEW head, head.level = Part(level, HeadSet), NEW below, below.ok = TRUE, below.pos = c,
         NEW done, done = TailRead(cells, head, below)
  PROVE  b \in Nat /\ c < b /\ ReadUpTo(cells, done, level, Items, b)
<1>1. PICK start : start = Middle(head, below)
  OBVIOUS
<1>2. Part(level, HeadSet) \in Partial
  BY ItemsTyped, PartTyped
<1>3. /\ start \in ReadStates /\ start.ok /\ start.pos = c
      /\ start.level = Part(level, HeadSet)
  BY <1>1, <1>2 DEF Middle, ReadStates
<1>4. /\ start.pos <= Len(cells) /\ Laid(cells, start.pos, LevelParts(level, TailItems), b)
      /\ done = ReadItems(cells, start, TailItems)
  BY <1>1, <1>3 DEF TailRead
<1>5. b \in Nat /\ start.pos < b /\ ReadUpTo(cells, done, level, HeadSet \cup TailSet, b)
  <2>1. PICK K \in SUBSET Items, S \in SUBSET Items : K = HeadSet /\ S = TailSet
    BY ItemsTyped
  <2>2. /\ cells \in Seq(Nat) /\ level \in Levels /\ Accepted(level) /\ start \in ReadStates
        /\ Listed(TailItems, S) /\ Len(TailItems) >= 1 /\ start.level = Part(level, K)
    BY <1>3, <2>1, ItemsTyped, TailListed
  <2>3. b \in Nat /\ start.pos < b /\ ReadUpTo(cells, done, level, K \cup S, b)
    BY ONLY K \in SUBSET Items, S \in SUBSET Items, <1>3, <1>4, <2>2, ReadItemsLie
  <2> QED BY <2>1, <2>3
<1>6. HeadSet \cup TailSet = Items
  BY ItemsAre
<1> QED BY <1>3, <1>5, <1>6

\* Whether a next level follows is seen from the members before it.
LEMMA HasNextInPart ==
  ASSUME NEW level \in Levels
  PROVE  HasNext(Part(level, HeadSet)) <=> HasNext(level)
<1>1. /\ Part(level, HeadSet)[<<"linkFlags", "num1s">>] = level[<<"linkFlags", "num1s">>]
      /\ Part(level, HeadSet)[<<"tail", "bytes">>] = level[<<"tail", "bytes">>]
  BY ItemsAre DEF Part
<1> QED BY <1>1 DEF HasNext

\* No parts take no cells.
LEMMA LaidNothing ==
  ASSUME NEW cells, NEW a, NEW b, Laid(cells, a, <<>>, b)
  PROVE  a = b
<1>1. Len(<<>>) = 0
  BY EmptySeq
<1> QED BY <1>1 DEF Laid

\* One level, when those below it are read back.
LEMMA LevelReadsBack ==
  ASSUME NEW cells \in Seq(Nat), NEW R, LevelsRead(R, cells), NEW level \in Levels, Accepted(level),
         NEW parts \in Seq(Seq(Nat)), NEW rest,
         \/ HasNext(level)
            /\ \A a \in Nat, b \in Nat :
                 a <= Len(cells) /\ Laid(cells, a, parts, b) => a < b /\ ReadWhole(R[a], rest, b, Len(cells))
         \/ ~HasNext(level) /\ parts = <<>> /\ rest = <<>>,
         NEW a \in Nat, NEW b, a <= Len(cells),
         Laid(cells, a, (LevelParts(level, HeadItems) \o parts) \o LevelParts(level, TailItems), b)
  PROVE  b \in Nat /\ a < b /\ ReadWhole(R[a], <<level>> \o rest, b, Len(cells))
<1>1. PICK m \in Nat : m = Len(cells)
  BY LenProperties
<1>2. PICK A \in Seq(Seq(Nat)), C \in Seq(Seq(Nat)) :
        A = LevelParts(level, HeadItems) /\ C = LevelParts(level, TailItems)
  BY ItemsTyped, LevelPartsTyped
<1>3. A \o parts \in Seq(Seq(Nat))
  BY ConcatProperties
<1>4. PICK d \in Nat : Laid(cells, a, A \o parts, d) /\ Laid(cells, d, C, b)
  BY <1>2, <1>3, LaidSplits
<1>5. PICK c \in Nat : Laid(cells, a, A, c) /\ Laid(cells, c, parts, d)
  BY <1>4, LaidSplits
<1>6. c <= d /\ d <= b /\ b \in Nat
  BY <1>2, <1>4, <1>5, LaidGoesUp
<1>7. PICK head : head = HeadRead(cells, a)
  OBVIOUS
<1>8. /\ a < c /\ head \in ReadStates
      /\ c <= m => head = [ok |-> TRUE, pos |-> c, level |-> Part(level, HeadSet)]
      /\ ~(c <= m) => ~head.ok /\ head.pos = m
  <2>1. a < c /\ head \in ReadStates /\ ReadUpTo(cells, head, level, HeadSet, c)
    BY <1>2, <1>5, <1>7, HeadReadsBack
  <2> QED BY <1>1, <2>1 DEF ReadUpTo
<1>9. PICK below : below = Below(R, head)
  OBVIOUS
<1>10. PICK w : w = R[a]
  OBVIOUS
<1>11. w = Whole(cells, head, below)
  BY <1>7, <1>9, <1>10 DEF LevelsRead
<1>12. /\ d <= m => below.ok = TRUE /\ below.pos = d /\ below.trie = rest
       /\ ~(d <= m) => ~below.ok /\ below.pos = m /\ below \in ReadResults
  <2>1. CASE ~(c <= m)
    <3>1. below = [ok |-> head.ok, pos |-> head.pos, trie |-> <<>>] /\ ~head.ok /\ head.pos = m
      BY <1>8, <1>9, <2>1 DEF Below
    <3>2. <<>> \in Seq(Partial) /\ head.ok \in BOOLEAN /\ head.pos \in Nat
      BY <1>8, EmptySeq DEF ReadStates
    <3>3. ~below.ok /\ below.pos = m /\ below \in ReadResults
      BY <3>1, <3>2 DEF ReadResults
    <3>4. ~(d <= m)
      BY ONLY m \in Nat, c \in Nat, d \in Nat, <1>6, <2>1
    <3> QED BY <3>3, <3>4
  <2>2. CASE c <= m /\ HasNext(level)
    <3>1. head.ok /\ HasNext(head.level) /\ head.pos = c
      BY <1>8, <2>2, HasNextInPart
    <3>2. below = R[c]
      BY <1>9, <3>1 DEF Below
    <3>3. R[c] \in ReadResults
      BY DEF LevelsRead
    <3>4. \A x \in Nat, y \in Nat :
            x <= Len(cells) /\ Laid(cells, x, parts, y) => x < y /\ ReadWhole(R[x], rest, y, Len(cells))
      BY <2>2
    <3>5. ReadWhole(below, rest, d, m)
      BY <1>1, <1>5, <2>2, <3>2, <3>4
    <3> QED BY <3>2, <3>3, <3>5 DEF ReadWhole
  <2>3. CASE c <= m /\ ~HasNext(level)
    <3>1. ~HasNext(head.level) /\ head.ok = TRUE /\ head.pos = c
      BY <1>8, <2>3, HasNextInPart
    <3>2. below = [ok |-> TRUE, pos |-> c, trie |-> <<>>]
      BY <1>9, <3>1 DEF Below
    <3>3. parts = <<>> /\ rest = <<>>
      BY <2>3
    <3>4. c = d
      BY <1>5, <3>3, LaidNothing
    <3> QED BY <2>3, <3>2, <3>3, <3>4
  <2> QED BY <2>1, <2>2, <2>3
<1>13. a < b
  BY ONLY a \in Nat, c \in Nat, d \in Nat, <1>6, <1>8
<1>14. CASE ~(d <= m)
  <2>1. ~w.ok /\ w.pos = m
    <3>1. ~below.ok /\ below.pos = m /\ below \in ReadResults
      BY <1>12, <1>14
    <3>2. ~below.ok => ~w.ok /\ w.pos = below.pos
      BY <1>1, <1>8, <1>11, <3>1, WholeTyped
    <3> QED BY <3>1, <3>2
  <2>2. ~(b <= m)
    BY ONLY m \in Nat, d \in Nat, <1>6, <1>14
  <2> QED BY <1>1, <1>6, <1>10, <1>13, <2>1, <2>2 DEF ReadWhole
<1>15. CASE d <= m
  <2>1. below.ok = TRUE /\ below.pos = d /\ below.trie = rest
    BY <1>12, <1>15
  <2>2. head.level = Part(level, HeadSet)
    <3>1. c <= m
      BY ONLY m \in Nat, c \in Nat, d \in Nat, <1>6, <1>15
    <3> QED BY <1>8, <3>1
  <2>3. PICK done : done = TailRead(cells, head, below)
    OBVIOUS
  <2>4. /\ b <= Len(cells) => done = [ok |-> TRUE, pos |-> b, level |-> level]
        /\ ~(b <= Len(cells)) => ~done.ok /\ done.pos = Len(cells)
    <3>1. d <= Len(cells) /\ Laid(cells, d, LevelParts(level, TailItems), b)
      BY <1>1, <1>2, <1>4, <1>15
    <3>2. cells \in Seq(Nat) /\ level \in Levels /\ Accepted(level)
      OBVIOUS
    <3>3. ReadUpTo(cells, done, level, Items, b)
      BY ONLY d \in Nat, <2>1, <2>2, <2>3, <3>1, <3>2, TailReadsBack
    <3>4. Part(level, Items) = level
      BY DEF Part, Levels
    <3> QED BY <3>3, <3>4 DEF ReadUpTo
  <2>5. w = [ok |-> done.ok, pos |-> done.pos, trie |-> <<done.level>> \o rest]
    BY <1>11, <2>1, <2>3 DEF Whole
  <2>6. ReadWhole(w, <<level>> \o rest, b, m)
    <3>1. CASE b <= m
      <4>1. w = [ok |-> TRUE, pos |-> b, trie |-> <<level>> \o rest]
        <5>1. done = [ok |-> TRUE, pos |-> b, level |-> level]
          BY <1>1, <2>4, <3>1
        <5>2. done.ok = TRUE /\ done.pos = b /\ done.level = level
          BY ONLY <5>1
        <5> QED BY ONLY <2>5, <5>2
      <4> QED BY <3>1, <4>1 DEF ReadWhole
    <3>2. CASE ~(b <= m)
      BY <1>1, <2>4, <2>5, <3>2 DEF ReadWhole
    <3> QED BY <3>1, <3>2
  <2> QED BY <1>1, <1>6, <1>10, <1>13, <2>6
<1> QED BY <1>14, <1>15

\* A level with those below it is read back.
LevelBack(cells, R, trie, P, l) ==
  \A a \in Nat, b \in Nat :
    a <= Len(cells) /\ Laid(cells, a, P[l], b) =>
      a < b /\ ReadWhole(R[a], From(trie, l), b, Len(cells))

\* All levels, from the last one up.
LEMMA LevelsReadBack ==
  ASSUME NEW cells \in Seq(Nat), NEW R, LevelsRead(R, cells), NEW trie \in Tries,
         NEW P, LevelsRun(P, trie), NEW l \in 1 .. Len(trie)
  PROVE  LevelBack(cells, R, trie, P, l)
<1>1. PICK n \in Nat \ {0} : n = Len(trie)
  BY LevelOfTrie
<1>2. ASSUME NEW k \in 1 .. n, k < n => LevelBack(cells, R, trie, P, k + 1)
      PROVE  LevelBack(cells, R, trie, P, k)
  <2> SUFFICES ASSUME NEW a \in Nat, NEW b \in Nat, a <= Len(cells), Laid(cells, a, P[k], b)
               PROVE  a < b /\ ReadWhole(R[a], From(trie, k), b, Len(cells))
    BY DEF LevelBack
  <2>1. PICK level \in Levels : level = trie[k] /\ Accepted(level) /\ (HasNext(level) <=> k < n)
    BY <1>1, LevelOfTrie
  <2>2. PICK parts : parts = IF k < n THEN P[k + 1] ELSE <<>>
    OBVIOUS
  <2>3. PICK rest : rest = From(trie, k + 1)
    OBVIOUS
  <2>4. parts \in Seq(Seq(Nat))
    <3>1. <<>> \in Seq(Seq(Nat))
      BY EmptySeq
    <3>2. k < n => P[k + 1] \in Seq(Seq(Nat))
      <4> HAVE k < n
      <4>1. k + 1 \in 1 .. n
        OBVIOUS
      <4> QED BY <1>1, <4>1 DEF LevelsRun
    <3> QED BY <2>2, <3>1, <3>2
  <2>5. \/ HasNext(level)
           /\ \A x \in Nat, y \in Nat :
                x <= Len(cells) /\ Laid(cells, x, parts, y) => x < y /\ ReadWhole(R[x], rest, y, Len(cells))
        \/ ~HasNext(level) /\ parts = <<>> /\ rest = <<>>
    <3>1. CASE k < n
      <4>1. HasNext(level) /\ parts = P[k + 1]
        BY <2>1, <2>2, <3>1
      <4>2. LevelBack(cells, R, trie, P, k + 1)
        BY <1>2, <3>1
      <4> QED BY <2>3, <4>1, <4>2 DEF LevelBack
    <3>2. CASE ~(k < n)
      <4>1. ~HasNext(level) /\ parts = <<>> /\ k = n
        BY <2>1, <2>2, <3>2
      <4>2. rest = <<>>
        BY <1>1, <2>3, <4>1, FromIs
      <4> QED BY <4>1, <4>2
    <3> QED BY <3>1, <3>2
  <2>6. Laid(cells, a, (LevelParts(level, HeadItems) \o parts) \o LevelParts(level, TailItems), b)
    BY <1>1, <2>1, <2>2 DEF LevelsRun
  <2>7. a < b /\ ReadWhole(R[a], <<level>> \o rest, b, Len(cells))
    BY <2>1, <2>4, <2>5, <2>6, LevelReadsBack
  <2>8. <<level>> \o rest = From(trie, k)
    BY <1>1, <2>1, <2>3, FromIs
  <2> QED BY <2>7, <2>8
<1> DEFINE Bad == {j \in 0 .. n - 1 : ~LevelBack(cells, R, trie, P, n - j)}
<1>3. Bad = {}
  <2> SUFFICES ASSUME Bad # {} PROVE FALSE
    OBVIOUS
  <2>1. PICK j \in Bad : \A i \in Bad : j <= i
    <3>1. Bad \subseteq Nat
      OBVIOUS
    <3> HIDE DEF Bad
    <3> QED BY <3>1, LeastElement
  <2>2. PICK k \in 1 .. n : k = n - j
    OBVIOUS
  <2>3. k < n => LevelBack(cells, R, trie, P, k + 1)
    <3> HAVE k < n
    <3>1. j - 1 \in 0 .. n - 1 /\ ~(j <= j - 1) /\ n - (j - 1) = k + 1
      BY <2>2
    <3>2. LevelBack(cells, R, trie, P, n - (j - 1))
      BY <2>1, <3>1
    <3> QED BY <3>1, <3>2
  <2>4. LevelBack(cells, R, trie, P, k)
    BY <1>2, <2>3
  <2> QED BY <2>1, <2>2, <2>4
<1>4. n - l \in 0 .. n - 1 /\ n - (n - l) = l
  BY <1>1
<1>5. LevelBack(cells, R, trie, P, n - (n - l))
  BY <1>3, <1>4
<1> QED BY <1>4, <1>5

\* The parts of a trie: all but the header take some cells.
LEMMA TriePartsAre ==
  ASSUME NEW trie \in Tries
  PROVE  /\ HeaderCells \in Seq(Nat) /\ LevelsParts(trie) \in Seq(Seq(Nat))
         /\ TrieParts(trie) \in Seq(Seq(Nat))
         /\ TrieParts(trie) = <<HeaderCells>> \o LevelsParts(trie)
<1>1. PICK P : LevelsRun(P, trie)
  BY LevelsPartsRun
<1>2. 1 \in 1 .. Len(trie)
  BY LevelOfTrie
<1>3. LevelsParts(trie) \in Seq(Seq(Nat))
  BY <1>1, <1>2 DEF LevelsRun
<1>4. HeaderCells \in Seq(Nat)
  BY CellsAssumption
<1>5. <<HeaderCells>> \in Seq(Seq(Nat))
  BY <1>4
<1> QED BY <1>3, <1>4, <1>5, ConcatProperties DEF TrieParts

\* A trie that lies in the file is read back, or the file ends in it.
LEMMA TrieReadsBack ==
  ASSUME NEW cells \in Seq(Nat), NEW trie \in Tries, NEW a \in Nat, NEW b, a <= Len(cells),
         Laid(cells, a, TrieParts(trie), b)
  PROVE  b \in Nat /\ a < b /\ ReadWhole(ReadTrie(cells, a), trie, b, Len(cells))
<1>1. PICK m \in Nat, h \in Nat : m = Len(cells) /\ h = Len(HeaderCells)
  BY LenProperties, TriePartsAre
<1>2. PICK c \in Nat : Laid(cells, a, <<HeaderCells>>, c) /\ Laid(cells, c, LevelsParts(trie), b)
  <2>1. <<HeaderCells>> \in Seq(Seq(Nat))
    BY TriePartsAre
  <2> QED BY <2>1, TriePartsAre, LaidSplits
<1>3. c = a + h /\ Lies(cells, a, HeaderCells)
  BY <1>1, <1>2, TriePartsAre, LaidOne
<1>4. c <= b /\ b \in Nat
  BY <1>2, TriePartsAre, LaidGoesUp
<1>5. PICK R : LevelsRead(R, cells) /\ \A start \in Nat : ReadLevels(cells, start) = R[start]
  BY ReadLevelsRuns
<1>6. PICK P : LevelsRun(P, trie)
  BY LevelsPartsRun
<1>7. PICK r : r = ReadTrie(cells, a)
  OBVIOUS
<1>8. CASE c > m
  <2>1. r = [ok |-> FALSE, pos |-> m, trie |-> <<>>]
    BY <1>1, <1>3, <1>7, <1>8 DEF ReadTrie
  <2>2. ~(b <= m) /\ a < b
    BY <1>1, <1>4, <1>8
  <2> QED BY <1>1, <1>4, <1>7, <2>1, <2>2 DEF ReadWhole
<1>9. CASE c <= m
  <2>1. SubSeq(cells, a + 1, c) = HeaderCells
    <3>1. a + Len(HeaderCells) <= Len(cells)
      BY <1>1, <1>3, <1>9
    <3>2. SubSeq(cells, a + 1, a + Len(HeaderCells)) = HeaderCells
      BY <1>3, <3>1, TriePartsAre, SubSeqLies
    <3> QED BY <1>1, <1>3, <3>2
  <2>2. r = ReadLevels(cells, c)
    BY <1>1, <1>3, <1>7, <1>9, <2>1 DEF ReadTrie
  <2>3. r = R[c]
    BY <1>5, <2>2
  <2>4. LevelBack(cells, R, trie, P, 1)
    <3>1. 1 \in 1 .. Len(trie)
      BY LevelOfTrie
    <3> QED BY <1>5, <1>6, <3>1, LevelsReadBack
  <2>5. From(trie, 1) = trie /\ P[1] = LevelsParts(trie)
    BY <1>6, FromIs DEF LevelsRun
  <2>6. c < b /\ ReadWhole(R[c], trie, b, Len(cells))
    BY <1>1, <1>2, <1>4, <1>9, <2>4, <2>5 DEF LevelBack
  <2>7. a < b
    BY <1>3, <1>4, <2>6
  <2> QED BY <1>4, <1>7, <2>3, <2>6, <2>7
<1> QED BY <1>8, <1>9

\* Reading a trie goes on within the file, whatever it has.
LEMMA TrieReadGoesOn ==
  ASSUME NEW cells \in Seq(Nat), NEW a \in Nat, a <= Len(cells)
  PROVE  /\ ReadTrie(cells, a).ok \in BOOLEAN /\ ReadTrie(cells, a).pos \in Nat
         /\ GoesOn(a, ReadTrie(cells, a), Len(cells))
<1>1. PICK m \in Nat, h \in Nat : m = Len(cells) /\ h = Len(HeaderCells)
  BY LenProperties, CellsAssumption
<1>2. PICK R : LevelsRead(R, cells) /\ \A start \in Nat : ReadLevels(cells, start) = R[start]
  BY ReadLevelsRuns
<1>3. PICK c \in Nat : c = a + h
  OBVIOUS
<1>4. PICK r : r = ReadTrie(cells, a)
  OBVIOUS
<1>5. CASE c > m
  <2>1. r = [ok |-> FALSE, pos |-> m, trie |-> <<>>]
    BY <1>1, <1>3, <1>4, <1>5 DEF ReadTrie
  <2>2. r.ok \in BOOLEAN /\ ~r.ok /\ r.pos = m
    BY <2>1
  <2>3. GoesOn(a, r, m)
    BY <1>1, <2>2 DEF GoesOn
  <2> QED BY <1>1, <1>4, <2>2, <2>3
<1>6. CASE c <= m /\ SubSeq(cells, a + 1, c) # HeaderCells
  <2>1. r = [ok |-> FALSE, pos |-> c, trie |-> <<>>]
    BY <1>1, <1>3, <1>4, <1>6 DEF ReadTrie
  <2>2. r.ok \in BOOLEAN /\ ~r.ok /\ r.pos = c /\ a <= c
    BY <1>3, <2>1
  <2>3. GoesOn(a, r, m)
    BY <1>6, <2>2 DEF GoesOn
  <2> QED BY <1>1, <1>4, <2>2, <2>3
<1>7. CASE c <= m /\ SubSeq(cells, a + 1, c) = HeaderCells
  <2>0. r = ReadLevels(cells, c)
    BY <1>1, <1>3, <1>4, <1>7 DEF ReadTrie
  <2>1. r = R[c]
    BY <1>2, <2>0
  <2>2. R[c] \in ReadResults
    BY <1>2 DEF LevelsRead
  <2>3. GoesOn(c, R[c], m)
    <3>1. c <= Len(cells)
      BY <1>1, <1>7
    <3> QED BY <1>1, <1>2, <3>1, ReadLevelsGoesOn
  <2>4. r.ok \in BOOLEAN /\ r.pos \in Nat
    BY <2>1, <2>2 DEF ReadResults
  <2>5. GoesOn(a, r, m)
    BY <1>3, <2>1, <2>3, <2>4 DEF GoesOn
  <2> QED BY <1>1, <1>4, <2>4, <2>5
<1> QED BY <1>5, <1>6, <1>7

---------------------------------------------------------------------------
(* Files that grow.                                                        *)

\* What lies in the file stays when more is written after it.
LEMMA LaidStays ==
  ASSUME NEW cells \in Seq(Nat), NEW more \in Seq(Nat), NEW parts \in Seq(Seq(Nat)), NEW a, NEW b,
         Laid(cells, a, parts, b), b <= Len(cells)
  PROVE  Laid(cells \o more, a, parts, b)
<1>1. PICK n \in Nat, m \in Nat, k \in Nat : n = Len(parts) /\ m = Len(cells) /\ k = Len(more)
  BY LenProperties
<1>2. PICK o : LaidAt(cells, o, parts, n) /\ o[0] = a /\ o[n] = b
  BY <1>1 DEF Laid
<1>3. PICK w : w = cells \o more
  OBVIOUS
<1>4. w \in Seq(Nat) /\ Len(w) = m + k /\ \A i \in 1 .. m : w[i] = cells[i]
  BY <1>1, <1>3, ConcatIs
<1>5. ASSUME NEW i \in 1 .. n PROVE Lies(w, o[i - 1], parts[i])
  <2>1. i - 1 \in 0 .. n /\ i \in 0 .. n
    OBVIOUS
  <2>2. PICK p \in Nat, q \in Nat, l \in Nat :
          p = o[i - 1] /\ q = o[i] /\ l = Len(parts[i]) /\ q = p + l /\ Lies(cells, p, parts[i])
    <3>1. o[i - 1] \in Nat /\ o[i] \in Nat
      BY <1>2, <2>1 DEF LaidAt
    <3>2. Len(parts[i]) \in Nat
      BY <1>1, ElementOfSeq, LenProperties
    <3> QED BY <1>2, <3>1, <3>2 DEF LaidAt
  <2>3. q <= m
    <3>1. \A j \in 0 .. n : o[0] <= o[j] /\ o[j] <= o[n]
      BY <1>1, <1>2, OffsetsGoUp
    <3>2. n \in 0 .. n /\ o \in [0 .. n -> Nat]
      BY <1>2 DEF LaidAt
    <3>3. q <= o[n] /\ o[n] \in Nat /\ o[n] <= m
      BY <1>1, <1>2, <2>1, <2>2, <3>1, <3>2
    <3> QED BY ONLY q \in Nat, m \in Nat, <3>3
  <2>4. \A x \in 1 .. l : p + x <= m /\ p + x \in 1 .. m
    <3>1. q = p + l
      BY <2>2
    <3> QED BY ONLY p \in Nat, q \in Nat, l \in Nat, m \in Nat, <2>3, <3>1
  <2>5. \A x \in 1 .. l : w[p + x] = parts[i][x]
    <3> TAKE x \in 1 .. l
    <3>1. cells[p + x] = parts[i][x]
      BY <1>1, <2>2, <2>4 DEF Lies
    <3> QED BY <1>4, <2>4, <3>1
  <2> QED BY <2>2, <2>5 DEF Lies
<1>6. LaidAt(w, o, parts, n)
  BY <1>2, <1>5 DEF LaidAt
<1> QED BY <1>1, <1>2, <1>3, <1>6 DEF Laid

\* Nothing contradicts what would lie after the end of the file.
LEMMA LaidBeyond ==
  ASSUME NEW cells \in Seq(Nat), NEW parts \in Seq(Seq(Nat)), NEW a \in Nat, Len(cells) <= a
  PROVE  \E b \in Nat : Laid(cells, a, parts, b)
<1>1. PICK n \in Nat, m \in Nat : n = Len(parts) /\ m = Len(cells)
  BY LenProperties
<1> DEFINE D == 0 .. n
           m0 == [i \in D |-> i]
           next == [i \in D |-> IF i = 0 THEN 0 ELSE i - 1]
           b0 == [i \in D |-> a]
           h == [p \in D \X Nat |-> IF p[1] = 0 THEN a ELSE p[2] + Len(parts[p[1]])]
<1>2. \A i \in 1 .. n : Len(parts[i]) \in Nat /\ i - 1 \in D /\ i \in D
  BY <1>1, ElementOfSeq, LenProperties
<1>3. m0 \in [D -> Nat] /\ next \in [D -> D] /\ b0 \in [D -> Nat] /\ {0} \in SUBSET D
  OBVIOUS
<1>4. h \in [D \X Nat -> Nat]
  <2> SUFFICES ASSUME NEW i \in D, NEW v \in Nat
               PROVE  (IF i = 0 THEN a ELSE v + Len(parts[i])) \in Nat
    OBVIOUS
  <2>1. i # 0 => Len(parts[i]) \in Nat
    BY <1>2
  <2> QED BY <2>1
<1>5. \A i \in D \ {0} : m0[next[i]] < m0[i]
  <2> SUFFICES ASSUME NEW i \in D \ {0} PROVE m0[next[i]] < m0[i]
    OBVIOUS
  <2>1. i - 1 \in D /\ i - 1 < i
    OBVIOUS
  <2> QED BY <2>1
<1>6. PICK o \in [D -> Nat] : \A i \in D : Recurs(o, i, {0}, b0, h, next)
  <2> HIDE DEF D, m0, next, b0, h
  <2> QED BY <1>3, <1>4, <1>5, RecursionHasSolution
<1>7. o[0] = a
  <2>1. 0 \in D /\ b0[0] = a
    OBVIOUS
  <2> HIDE DEF b0, D
  <2> QED BY <1>6, <2>1 DEF Recurs
<1>8. ASSUME NEW i \in 1 .. n PROVE o[i] = o[i - 1] + Len(parts[i])
  <2>1. o[i] = h[<<i, o[next[i]]>>]
    <3>1. i \in D /\ i \notin {0}
      OBVIOUS
    <3> HIDE DEF h, next, b0, D
    <3> QED BY <1>6, <3>1 DEF Recurs
  <2>2. next[i] = i - 1 /\ o[i - 1] \in Nat /\ <<i, o[i - 1]>> \in D \X Nat
    BY <1>2, <1>6
  <2>3. h[<<i, o[i - 1]>>] = o[i - 1] + Len(parts[i])
    BY SMTT(30), <2>2
  <2> HIDE DEF h, next
  <2> QED BY <2>1, <2>2, <2>3
<1>9. ASSUME NEW i \in 0 .. n PROVE a <= o[i]
  <2> DEFINE Bad == {j \in 0 .. n : ~(a <= o[j])}
  <2> SUFFICES ASSUME Bad # {} PROVE FALSE
    OBVIOUS
  <2>1. PICK j \in Bad : \A k \in Bad : j <= k
    <3>1. Bad \subseteq Nat
      OBVIOUS
    <3> HIDE DEF Bad
    <3> QED BY <3>1, LeastElement
  <2>2. j # 0
    BY <1>7, <2>1
  <2>3. j \in 1 .. n /\ j - 1 \in 0 .. n /\ ~(j <= j - 1)
    BY <2>1, <2>2
  <2>4. a <= o[j - 1]
    BY <2>1, <2>3
  <2>5. o[j] = o[j - 1] + Len(parts[j]) /\ o[j - 1] \in Nat /\ Len(parts[j]) \in Nat
    BY <1>2, <1>6, <1>8, <2>3
  <2>6. a <= o[j]
    BY SMTT(30), <2>4, <2>5
  <2> QED BY <2>1, <2>6
<1>10. ASSUME NEW i \in 1 .. n PROVE Lies(cells, o[i - 1], parts[i])
  <2>1. PICK p \in Nat : p = o[i - 1] /\ a <= p
    BY <1>2, <1>6, <1>9
  <2>2. \A x \in 1 .. Len(parts[i]) : ~(p + x <= m)
    BY <1>1, <1>2, <2>1
  <2> QED BY <1>1, <2>1, <2>2 DEF Lies
<1>11. LaidAt(cells, o, parts, n)
  BY <1>6, <1>8, <1>10 DEF LaidAt
<1>12. o[n] \in Nat
  BY <1>6
<1> QED BY <1>1, <1>7, <1>11, <1>12 DEF Laid

\* The last part takes some cells.
LastCounts(parts) == Len(parts) >= 1 /\ Len(parts[Len(parts)]) >= 1

\* What comes before it does not matter.
LEMMA LastOfConcat ==
  ASSUME NEW s \in Seq(Seq(Nat)), NEW t \in Seq(Seq(Nat)), t # <<>>
  PROVE  LastCounts(s \o t) <=> LastCounts(t)
<1>1. PICK n \in Nat, m \in Nat : n = Len(s) /\ m = Len(t) /\ m # 0
  BY LenProperties, EmptySeq
<1>2. PICK w : w = s \o t
  OBVIOUS
<1>3. Len(w) = n + m /\ \A i \in 1 .. m : w[n + i] = t[i]
  BY <1>1, <1>2, ConcatIs
<1>4. w[n + m] = t[m]
  BY <1>1, <1>3
<1> QED BY <1>1, <1>2, <1>3, <1>4 DEF LastCounts

\* Then they end beyond their start.
LEMMA LaidGoesOn ==
  ASSUME NEW cells, NEW parts \in Seq(Seq(Nat)), NEW a, NEW b, Laid(cells, a, parts, b),
         LastCounts(parts)
  PROVE  a \in Nat /\ b \in Nat /\ a < b
<1>1. PICK n \in Nat : n = Len(parts)
  BY LenProperties
<1>2. n \in 1 .. n /\ n - 1 \in 0 .. n /\ n \in 0 .. n /\ 0 \in 0 .. n
  BY <1>1 DEF LastCounts
<1>3. PICK o : LaidAt(cells, o, parts, n) /\ o[0] = a /\ o[n] = b
  BY <1>1 DEF Laid
<1>4. o \in [0 .. n -> Nat] /\ o[n] = o[n - 1] + Len(parts[n])
  BY <1>2, <1>3 DEF LaidAt
<1>5. \A i \in 0 .. n : o[0] <= o[i] /\ o[i] <= o[n]
  BY <1>1, <1>3, OffsetsGoUp
<1>6. Len(parts[n]) >= 1 /\ Len(parts[n]) \in Nat
  BY <1>1, <1>2, ElementOfSeq, LenProperties DEF LastCounts
<1>7. PICK x \in Nat, y \in Nat, z \in Nat, l \in Nat :
        x = o[0] /\ y = o[n - 1] /\ z = o[n] /\ l = Len(parts[n])
  BY <1>2, <1>4, <1>6
<1>8. x <= y /\ z = y + l /\ l >= 1
  BY <1>2, <1>4, <1>5, <1>6, <1>7
<1> QED BY <1>3, <1>7, <1>8

\* The last part of a trie is in the first level, after the levels below it.
LEMMA LastOfTrie ==
  ASSUME NEW trie \in Tries
  PROVE  TrieParts(trie) # <<>> /\ LastCounts(TrieParts(trie))
<1>1. PICK P : LevelsRun(P, trie)
  BY LevelsPartsRun
<1>2. PICK n \in Nat \ {0} : n = Len(trie) /\ 1 \in 1 .. n
  BY LevelOfTrie
<1>3. trie[1] \in Levels /\ Accepted(trie[1])
  BY <1>2, LevelOfTrie
<1>4. PICK A \in Seq(Seq(Nat)), C \in Seq(Seq(Nat)) :
        A = LevelParts(trie[1], HeadItems) /\ C = LevelParts(trie[1], TailItems)
  BY <1>3, ItemsTyped, LevelPartsTyped
<1>5. PICK M \in Seq(Seq(Nat)) : M = IF 1 < n THEN P[1 + 1] ELSE <<>>
  <2>1. <<>> \in Seq(Seq(Nat))
    BY EmptySeq
  <2>2. 1 < n => P[1 + 1] \in Seq(Seq(Nat))
    <3> HAVE 1 < n
    <3>1. 1 + 1 \in 1 .. n
      OBVIOUS
    <3> QED BY <1>1, <1>2, <3>1 DEF LevelsRun
  <2> QED BY <2>1, <2>2
<1>6. LevelsParts(trie) = (A \o M) \o C
  BY <1>1, <1>2, <1>4, <1>5 DEF LevelsRun
<1>7. C # <<>> /\ LastCounts(C)
  <2>1. PICK k \in Nat : k = Len(TailItems) /\ k >= 1
    BY ItemsTyped, LenProperties
  <2>2. Len(C) = k /\ \A i \in 1 .. k : Len(C[i]) >= 1
    BY <1>3, <1>4, <2>1, ItemsTyped, LevelPartsTyped
  <2>3. k \in 1 .. k
    BY <2>1
  <2> QED BY <2>1, <2>2, <2>3, EmptySeq DEF LastCounts
<1>8. A \o M \in Seq(Seq(Nat))
  BY <1>5, ConcatProperties
<1>9. PICK L \in Seq(Seq(Nat)) : L = (A \o M) \o C
  BY <1>6, TriePartsAre
<1>10. LastCounts(L)
  BY <1>7, <1>8, <1>9, LastOfConcat
<1>11. L # <<>>
  <2>1. Len(L) # 0
    BY <1>10 DEF LastCounts
  <2> QED BY <2>1, EmptySeq
<1>12. <<HeaderCells>> \in Seq(Seq(Nat)) /\ TrieParts(trie) = <<HeaderCells>> \o L
  <2>1. HeaderCells \in Seq(Nat) /\ TrieParts(trie) = <<HeaderCells>> \o LevelsParts(trie)
    BY TriePartsAre
  <2>2. <<HeaderCells>> \in Seq(Seq(Nat))
    BY <2>1
  <2> QED BY <1>6, <1>9, <2>1, <2>2
<1>13. LastCounts(TrieParts(trie))
  BY <1>10, <1>11, <1>12, LastOfConcat
<1>14. TrieParts(trie) # <<>>
  <2>1. Len(TrieParts(trie)) # 0
    BY <1>13 DEF LastCounts
  <2> QED BY <2>1, EmptySeq
<1> QED BY <1>13, <1>14

---------------------------------------------------------------------------
(* A trie that is being written, and one that was not finished.            *)

\* The parts of the trie but for the rest lie at the end of the file, from a on.
Unfinished(cells, a, trie, rest) ==
  \E done \in Seq(Seq(Nat)) :
    TrieParts(trie) = done \o rest /\ Laid(cells, a, done, Len(cells))

\* What the file has from a on is the start of a trie.
CutOff(cells, a) ==
  \E trie \in Tries, b \in Nat : Laid(cells, a, TrieParts(trie), b) /\ Len(cells) < b

\* Nothing is written yet.
LEMMA UnfinishedStarts ==
  ASSUME NEW cells \in Seq(Nat), NEW a, a = Len(cells), NEW trie \in Tries
  PROVE  Unfinished(cells, a, trie, TrieParts(trie))
<1>1. <<>> \in Seq(Seq(Nat)) /\ Len(<<>>) = 0
  BY EmptySeq
<1>2. TrieParts(trie) = <<>> \o TrieParts(trie)
  BY TriePartsAre, ConcatEmptySeq
<1>3. Laid(cells, a, <<>>, a)
  <2>1. PICK e \in Seq(Seq(Nat)) : e = <<>> /\ Len(e) = 0
    BY <1>1
  <2>2. a \in Nat
    BY LenProperties
  <2>3. PICK o : o = [i \in 0 .. 0 |-> a]
    OBVIOUS
  <2>4. o \in [0 .. 0 -> Nat] /\ o[0] = a
    BY <2>2, <2>3
  <2>5. LaidAt(cells, o, e, 0)
    BY <2>4 DEF LaidAt
  <2> QED BY <2>1, <2>4, <2>5 DEF Laid
<1> QED BY <1>1, <1>2, <1>3 DEF Unfinished

\* A sequence is its first element and the others.
LEMMA HeadAndTail ==
  ASSUME NEW S, NEW s \in Seq(S), s # <<>>
  PROVE  /\ Head(s) \in S /\ Tail(s) \in Seq(S) /\ <<Head(s)>> \in Seq(S)
         /\ s = <<Head(s)>> \o Tail(s)
<1>1. PICK n \in Nat : n = Len(s) /\ n # 0
  BY EmptySeq, LenProperties
<1>2. Head(s) \in S /\ Head(s) = s[1]
  BY <1>1, HeadTailProperties
<1>3. PICK t \in Seq(S) : t = Tail(s) /\ Len(t) = n - 1 /\ \A i \in 1 .. n - 1 : t[i] = s[i + 1]
  <2>1. /\ Tail(s) \in Seq(S) /\ Len(Tail(s)) = Len(s) - 1
        /\ \A i \in 1 .. Len(Tail(s)) : Tail(s)[i] = s[i + 1]
    BY HeadTailProperties
  <2>2. Len(Tail(s)) = n - 1
    BY <1>1, <2>1
  <2> QED BY <2>1, <2>2
<1>4. PICK h \in Seq(S) : h = <<Head(s)>> /\ Len(h) = 1 /\ h[1] = Head(s)
  <2>1. PICK x \in S : x = Head(s)
    BY <1>2
  <2>2. <<x>> \in Seq(S) /\ Len(<<x>>) = 1 /\ <<x>>[1] = x
    OBVIOUS
  <2> QED BY <2>1, <2>2
<1>5. PICK w : w = h \o t
  OBVIOUS
<1>6. PICK k \in Nat, m \in Nat : k = 1 /\ m = n - 1
  <2>1. 1 \in Nat /\ n - 1 \in Nat
    BY <1>1
  <2> QED BY <2>1
<1>7. /\ w \in Seq(S) /\ Len(w) = k + m
      /\ \A i \in 1 .. k : w[i] = h[i]
      /\ \A i \in 1 .. m : w[k + i] = t[i]
  BY ONLY k \in Nat, m \in Nat, h \in Seq(S), t \in Seq(S), <1>3, <1>4, <1>5, <1>6, ConcatIs
<1>8. ASSUME NEW i \in 1 .. n PROVE w[i] = s[i]
  <2>1. CASE i = 1
    BY <1>2, <1>4, <1>6, <1>7, <2>1
  <2>2. CASE i # 1
    <3>1. i - 1 \in 1 .. m /\ k + (i - 1) = i /\ (i - 1) + 1 = i /\ i - 1 \in 1 .. n - 1
      BY <1>6, <2>2
    <3> QED BY <1>3, <1>7, <3>1
  <2> QED BY <2>1, <2>2
<1>9. w = s
  <2>1. Len(w) = Len(s)
    BY <1>1, <1>6, <1>7
  <2> QED BY <1>1, <1>7, <1>8, <2>1, SeqEqual
<1> QED BY <1>2, <1>3, <1>4, <1>5, <1>9

\* The next part is written.
LEMMA UnfinishedGoesOn ==
  ASSUME NEW cells \in Seq(Nat), NEW a, NEW trie \in Tries, NEW rest \in Seq(Seq(Nat)),
         rest # <<>>, Unfinished(cells, a, trie, rest)
  PROVE  Unfinished(cells \o Head(rest), a, trie, Tail(rest))
<1>1. PICK done \in Seq(Seq(Nat)) :
        TrieParts(trie) = done \o rest /\ Laid(cells, a, done, Len(cells))
  BY DEF Unfinished
<1>2. PICK part \in Seq(Nat), others \in Seq(Seq(Nat)), one \in Seq(Seq(Nat)) :
        part = Head(rest) /\ others = Tail(rest) /\ one = <<part>> /\ rest = one \o others
  BY HeadAndTail
<1>3. TrieParts(trie) = (done \o one) \o others
  <2>1. (done \o one) \o others = done \o (one \o others)
    <3> PICK S : S = Seq(Nat)
      OBVIOUS
    <3>1. done \in Seq(S) /\ one \in Seq(S) /\ others \in Seq(S)
      OBVIOUS
    <3> QED BY ONLY SMTT(30), <3>1
  <2> QED BY <1>1, <1>2, <2>1
<1>4. PICK n \in Nat, m \in Nat : n = Len(cells) /\ m = Len(part)
  BY LenProperties
<1>5. PICK w : w = cells \o part
  OBVIOUS
<1>6. w \in Seq(Nat) /\ Len(w) = n + m /\ \A i \in 1 .. m : w[n + i] = part[i]
  BY <1>4, <1>5, ConcatIs
<1>7. Laid(w, a, done, n)
  BY <1>1, <1>4, <1>5, LaidStays
<1>8. Laid(w, n, one, n + m)
  <2>1. Lies(w, n, part)
    BY <1>4, <1>6 DEF Lies
  <2>2. n \in Nat /\ n + m = n + Len(part)
    BY <1>4
  <2> QED BY <1>2, <2>1, <2>2, LaidOne
<1>9. Laid(w, a, done \o one, Len(w))
  BY <1>6, <1>7, <1>8, LaidJoins
<1>10. done \o one \in Seq(Seq(Nat))
  BY ConcatProperties
<1> QED BY <1>2, <1>3, <1>5, <1>9, <1>10 DEF Unfinished

\* The last part is written.
LEMMA UnfinishedEnds ==
  ASSUME NEW cells \in Seq(Nat), NEW a, NEW trie \in Tries, Unfinished(cells, a, trie, <<>>)
  PROVE  Laid(cells, a, TrieParts(trie), Len(cells))
<1>1. PICK done \in Seq(Seq(Nat)) :
        TrieParts(trie) = done \o <<>> /\ Laid(cells, a, done, Len(cells))
  BY DEF Unfinished
<1>2. done \o <<>> = done
  BY ConcatEmptySeq
<1> QED BY <1>1, <1>2

\* Writing stops, within the next part.
LEMMA CutOffWithin ==
  ASSUME NEW cells \in Seq(Nat), NEW a, NEW trie \in Tries, NEW rest \in Seq(Seq(Nat)),
         rest # <<>>, Unfinished(cells, a, trie, rest),
         NEW n \in Nat, n < Len(Head(rest))
  PROVE  /\ cells \o SubSeq(Head(rest), 1, n) \in Seq(Nat)
         /\ Len(cells) <= Len(cells \o SubSeq(Head(rest), 1, n))
         /\ CutOff(cells \o SubSeq(Head(rest), 1, n), a)
<1>1. PICK done \in Seq(Seq(Nat)) :
        TrieParts(trie) = done \o rest /\ Laid(cells, a, done, Len(cells))
  BY DEF Unfinished
<1>2. PICK part \in Seq(Nat), others \in Seq(Seq(Nat)), one \in Seq(Seq(Nat)) :
        part = Head(rest) /\ others = Tail(rest) /\ one = <<part>> /\ rest = one \o others
  BY HeadAndTail
<1>3. PICK m \in Nat, l \in Nat : m = Len(cells) /\ l = Len(part) /\ n < l
  BY <1>2, LenProperties
<1>4. PICK s : s = SubSeq(part, 1, n)
  OBVIOUS
<1>5. s \in Seq(Nat) /\ Len(s) = n /\ \A i \in 1 .. n : s[i] = part[i]
  <2>1. \A i \in 1 .. n : part[i] \in Nat
    <3> TAKE i \in 1 .. n
    <3>1. i \in 1 .. l
      BY <1>3
    <3> QED BY <1>3, <3>1, ElementOfSeq
  <2>2. 1 \in Int /\ n \in Int
    OBVIOUS
  <2>3. /\ s \in Seq(Nat) /\ Len(s) = IF 1 <= n THEN n - 1 + 1 ELSE 0
        /\ \A i \in 1 .. n - 1 + 1 : s[i] = part[1 + i - 1]
    BY <1>4, <2>1, <2>2, SubSeqProperties
  <2>4. n - 1 + 1 = n /\ \A i \in 1 .. n : 1 + i - 1 = i
    OBVIOUS
  <2> QED BY <2>3, <2>4
<1>6. PICK w : w = cells \o s
  OBVIOUS
<1>7. w \in Seq(Nat) /\ Len(w) = m + n /\ \A i \in 1 .. n : w[m + i] = s[i]
  <2>1. cells \in Seq(Nat) /\ s \in Seq(Nat) /\ m = Len(cells) /\ n = Len(s)
    BY <1>3, <1>5
  <2> QED BY ONLY m \in Nat, n \in Nat, <1>6, <2>1, ConcatIs
<1>8. Laid(w, a, done, m)
  BY <1>1, <1>3, <1>5, <1>6, LaidStays
<1>9. Laid(w, m, one, m + l)
  <2>1. \A x \in 1 .. l : m + x <= m + n => x \in 1 .. n
    OBVIOUS
  <2>2. Lies(w, m, part)
    BY <1>3, <1>5, <1>7, <2>1 DEF Lies
  <2>3. m \in Nat /\ m + l = m + Len(part)
    BY <1>3
  <2> QED BY <1>2, <2>2, <2>3, LaidOne
<1>10. PICK b \in Nat : Laid(w, m + l, others, b)
  <2>1. m + l \in Nat /\ Len(w) <= m + l
    BY <1>3, <1>7
  <2> QED BY <1>7, <2>1, LaidBeyond
<1>11. Laid(w, m, rest, b)
  BY <1>2, <1>9, <1>10, LaidJoins
<1>12. Laid(w, a, TrieParts(trie), b)
  BY <1>1, <1>8, <1>11, LaidJoins
<1>13. m + l <= b
  BY <1>10, LaidGoesUp
<1>14. m + n < b
  BY ONLY m \in Nat, n \in Nat, l \in Nat, b \in Nat, <1>3, <1>13
<1>15. CutOff(w, a)
  BY <1>7, <1>12, <1>14 DEF CutOff
<1> QED BY <1>2, <1>3, <1>4, <1>6, <1>7, <1>15

\* A trie of which something is missing.
LEMMA UnfinishedIsCut ==
  ASSUME NEW cells \in Seq(Nat), NEW a, NEW trie \in Tries, NEW rest \in Seq(Seq(Nat)),
         rest # <<>>, Unfinished(cells, a, trie, rest)
  PROVE  CutOff(cells, a)
<1>1. PICK done \in Seq(Seq(Nat)) :
        TrieParts(trie) = done \o rest /\ Laid(cells, a, done, Len(cells))
  BY DEF Unfinished
<1>2. PICK m \in Nat : m = Len(cells)
  BY LenProperties
<1>3. PICK b \in Nat : Laid(cells, m, rest, b)
  BY <1>2, LaidBeyond
<1>4. LastCounts(rest)
  BY <1>1, LastOfTrie, LastOfConcat
<1>5. m < b
  BY <1>3, <1>4, LaidGoesOn
<1>6. Laid(cells, a, TrieParts(trie), b)
  BY <1>1, <1>2, <1>3, LaidJoins
<1> QED BY <1>2, <1>5, <1>6 DEF CutOff

\* The start of a trie is not read as a trie, and uses up the file.
LEMMA CutOffIsNotRead ==
  ASSUME NEW cells \in Seq(Nat), NEW a \in Nat, a <= Len(cells), CutOff(cells, a)
  PROVE  ~ReadTrie(cells, a).ok /\ ReadTrie(cells, a).pos = Len(cells)
<1>1. PICK trie \in Tries, b \in Nat : Laid(cells, a, TrieParts(trie), b) /\ Len(cells) < b
  BY DEF CutOff
<1>2. PICK m \in Nat : m = Len(cells)
  BY LenProperties
<1>3. ReadWhole(ReadTrie(cells, a), trie, b, Len(cells))
  BY <1>1, TrieReadsBack
<1>4. ~(b <= Len(cells))
  BY <1>1, <1>2
<1> QED BY <1>3, <1>4 DEF ReadWhole

\* Nothing is read at the end of the file.
LEMMA NothingIsRead ==
  ASSUME NEW cells \in Seq(Nat), NEW a, a = Len(cells)
  PROVE  ~ReadTrie(cells, a).ok /\ ReadTrie(cells, a).pos = a
<1>1. a \in Nat /\ a <= Len(cells)
  BY LenProperties
<1>2. GoesOn(a, ReadTrie(cells, a), a) /\ ReadTrie(cells, a).ok \in BOOLEAN /\ ReadTrie(cells, a).pos \in Nat
  BY <1>1, TrieReadGoesOn
<1> QED BY <1>1, <1>2 DEF GoesOn

---------------------------------------------------------------------------
(* The tries of a file.                                                    *)

\* The tries lie in the file one after the other, and end where e says.
FileHolds(cells, tries, e) ==
  /\ e \in [0 .. Len(tries) -> Nat] /\ e[0] = 0 /\ e[Len(tries)] <= Len(cells)
  /\ \A k \in 1 .. Len(tries) : Laid(cells, e[k - 1], TrieParts(tries[k]), e[k])

\* The k-th of the tries ends within the file.
LEMMA HoldsWithin ==
  ASSUME NEW cells \in Seq(Nat), NEW tries \in Seq(Tries), NEW e, FileHolds(cells, tries, e),
         NEW n \in Nat, n = Len(tries), NEW k \in 0 .. n
  PROVE  e[k] \in Nat /\ e[k] <= e[n] /\ e[k] <= Len(cells)
<1>1. PICK m \in Nat : m = Len(cells)
  BY LenProperties
<1>2. e \in [0 .. n -> Nat] /\ e[n] <= m
  BY <1>1 DEF FileHolds
<1>3. ASSUME NEW i \in 1 .. n PROVE e[i - 1] <= e[i]
  <2>1. tries[i] \in Tries
    BY ElementOfSeq
  <2>2. Laid(cells, e[i - 1], TrieParts(tries[i]), e[i])
    BY DEF FileHolds
  <2> QED BY <2>1, <2>2, TriePartsAre, LaidGoesUp
<1> DEFINE Bad == {j \in 0 .. n : ~(e[n - j] <= e[n])}
<1>4. Bad = {}
  <2> SUFFICES ASSUME Bad # {} PROVE FALSE
    OBVIOUS
  <2>1. PICK j \in Bad : \A i \in Bad : j <= i
    <3>1. Bad \subseteq Nat
      OBVIOUS
    <3> HIDE DEF Bad
    <3> QED BY <3>1, LeastElement
  <2>2. j # 0
    BY <1>2, <2>1
  <2>3. j - 1 \in 0 .. n /\ ~(j <= j - 1) /\ n - (j - 1) \in 1 .. n /\ (n - (j - 1)) - 1 = n - j
    BY <2>1, <2>2
  <2>4. e[n - (j - 1)] <= e[n]
    BY <2>1, <2>3
  <2>5. PICK i \in 1 .. n : i = n - (j - 1) /\ i - 1 = n - j
    BY <2>3
  <2>6. e[i - 1] <= e[i] /\ e[i] <= e[n]
    BY <1>3, <2>4, <2>5
  <2>7. e[i - 1] \in Nat /\ e[i] \in Nat /\ e[n] \in Nat
    <3>1. i - 1 \in 0 .. n /\ i \in 0 .. n /\ n \in 0 .. n
      OBVIOUS
    <3> QED BY <1>2, <3>1
  <2>8. e[i - 1] <= e[n]
    BY <2>6, <2>7
  <2> QED BY <2>1, <2>5, <2>8
<1>5. n - k \in 0 .. n /\ n - (n - k) = k
  OBVIOUS
<1>6. e[k] <= e[n]
  BY <1>4, <1>5
<1>7. e[k] \in Nat /\ e[n] \in Nat
  BY <1>2
<1> QED BY <1>1, <1>2, <1>6, <1>7

\* A file without a trie.
LEMMA HoldsNothing ==
  ASSUME NEW cells \in Seq(Nat)
  PROVE  \E e : FileHolds(cells, <<>>, e) /\ e[0] = 0
<1>1. Len(<<>>) = 0 /\ <<>> \in Seq(Tries)
  BY EmptySeq
<1>2. PICK e : e = [k \in 0 .. 0 |-> 0]
  OBVIOUS
<1>3. e \in [0 .. 0 -> Nat] /\ e[0] = 0 /\ 0 <= Len(cells)
  BY <1>2, LenProperties
<1> QED BY <1>1, <1>3 DEF FileHolds

\* More is written after them.
LEMMA HoldsStill ==
  ASSUME NEW cells \in Seq(Nat), NEW more \in Seq(Nat), NEW tries \in Seq(Tries), NEW e,
         FileHolds(cells, tries, e)
  PROVE  FileHolds(cells \o more, tries, e)
<1>1. PICK n \in Nat, m \in Nat, k \in Nat : n = Len(tries) /\ m = Len(cells) /\ k = Len(more)
  BY LenProperties
<1>2. PICK w : w = cells \o more
  OBVIOUS
<1>3. Len(w) = m + k
  BY <1>1, <1>2, ConcatIs
<1>4. e \in [0 .. n -> Nat] /\ e[n] <= m
  BY <1>1 DEF FileHolds
<1>5. ASSUME NEW i \in 1 .. n PROVE Laid(w, e[i - 1], TrieParts(tries[i]), e[i])
  <2>1. tries[i] \in Tries
    BY <1>1, ElementOfSeq
  <2>2. Laid(cells, e[i - 1], TrieParts(tries[i]), e[i])
    BY <1>1 DEF FileHolds
  <2>3. i \in 0 .. n
    OBVIOUS
  <2>4. e[i] <= Len(cells)
    BY <1>1, <2>3, HoldsWithin
  <2> QED BY <1>2, <2>1, <2>2, <2>4, TriePartsAre, LaidStays
<1>6. e[n] <= m + k
  <2>1. e[n] \in Nat
    BY <1>4
  <2> QED BY <1>4, <2>1
<1> QED BY <1>1, <1>2, <1>3, <1>4, <1>5, <1>6 DEF FileHolds

\* Where one more trie ends.
OneMore(f, e, n, b) == (\A k \in 0 .. n : f[k] = e[k]) /\ f[n + 1] = b

\* Another trie follows.
LEMMA HoldsAnother ==
  ASSUME NEW cells \in Seq(Nat), NEW tries \in Seq(Tries), NEW e, FileHolds(cells, tries, e),
         NEW n \in Nat, n = Len(tries),
         NEW trie \in Tries, Laid(cells, e[n], TrieParts(trie), Len(cells))
  PROVE  \E f : FileHolds(cells, Append(tries, trie), f) /\ OneMore(f, e, n, Len(cells))
<1>1. PICK m \in Nat : m = Len(cells)
  BY LenProperties
<1>2. e \in [0 .. n -> Nat] /\ e[0] = 0
  BY DEF FileHolds
<1>3. PICK w : w = Append(tries, trie)
  OBVIOUS
<1>4. Len(w) = n + 1 /\ (\A i \in 1 .. n : w[i] = tries[i]) /\ w[n + 1] = trie
  BY <1>3, AppendProperties
<1>5. PICK f : f = [k \in 0 .. n + 1 |-> IF k <= n THEN e[k] ELSE m]
  OBVIOUS
<1>6. f \in [0 .. n + 1 -> Nat] /\ (\A k \in 0 .. n : f[k] = e[k]) /\ f[n + 1] = m
  <2>1. \A k \in 0 .. n : k \in 0 .. n + 1 /\ k <= n
    OBVIOUS
  <2>2. n + 1 \in 0 .. n + 1 /\ ~(n + 1 <= n)
    OBVIOUS
  <2>3. \A k \in 0 .. n + 1 : k <= n => k \in 0 .. n
    OBVIOUS
  <2>4. f \in [0 .. n + 1 -> Nat]
    BY <1>2, <1>5, <2>3
  <2> QED BY <1>5, <2>1, <2>2, <2>4
<1>7. ASSUME NEW i \in 1 .. n + 1 PROVE Laid(cells, f[i - 1], TrieParts(w[i]), f[i])
  <2>1. CASE i = n + 1
    <3>1. i - 1 = n /\ n \in 0 .. n
      BY <2>1
    <3> QED BY <1>1, <1>4, <1>6, <2>1, <3>1
  <2>2. CASE i # n + 1
    <3>1. i \in 1 .. n /\ i \in 0 .. n /\ i - 1 \in 0 .. n
      BY <2>2
    <3>2. Laid(cells, e[i - 1], TrieParts(tries[i]), e[i])
      BY <3>1 DEF FileHolds
    <3> QED BY <1>4, <1>6, <3>1, <3>2
  <2> QED BY <2>1, <2>2
<1>8. f[0] = 0 /\ f[n + 1] <= m
  <2>1. 0 \in 0 .. n
    OBVIOUS
  <2> QED BY <1>2, <1>6, <2>1
<1>9. FileHolds(cells, w, f)
  BY <1>1, <1>4, <1>6, <1>7, <1>8 DEF FileHolds
<1> QED BY <1>1, <1>3, <1>6, <1>9 DEF OneMore

\* What reading the next trie leaves.
ReadAs(r, trie, b) == r = [ok |-> TRUE, pos |-> b, trie |-> trie]

\* The tries are read back.
LEMMA HoldsReadBack ==
  ASSUME NEW cells \in Seq(Nat), NEW tries \in Seq(Tries), NEW e, FileHolds(cells, tries, e),
         NEW n \in Nat, n = Len(tries), NEW k \in 1 .. n
  PROVE  ReadAs(ReadTrie(cells, e[k - 1]), tries[k], e[k])
<1>1. k - 1 \in 0 .. n /\ k \in 0 .. n
  OBVIOUS
<1>2. tries[k] \in Tries
  BY ElementOfSeq
<1>3. e[k - 1] \in Nat /\ e[k - 1] <= Len(cells) /\ e[k] <= Len(cells)
  BY <1>1, HoldsWithin
<1>4. Laid(cells, e[k - 1], TrieParts(tries[k]), e[k])
  BY DEF FileHolds
<1>5. ReadWhole(ReadTrie(cells, e[k - 1]), tries[k], e[k], Len(cells))
  BY <1>2, <1>3, <1>4, TrieReadsBack
<1> QED BY <1>3, <1>5 DEF ReadWhole, ReadAs

---------------------------------------------------------------------------
(* Where the tries end.                                                    *)

\* Wherever reading starts, it ends somewhere.
LEMMA ReadTrieEnds ==
  ASSUME NEW cells \in Seq(Nat), NEW a \in Nat
  PROVE  ReadTrie(cells, a).pos \in Nat
<1>1. PICK m \in Nat, h \in Nat : m = Len(cells) /\ h = Len(HeaderCells)
  BY LenProperties, CellsAssumption
<1>2. CASE a <= m
  BY <1>1, <1>2, TrieReadGoesOn
<1>3. CASE ~(a <= m)
  <2>1. a + h > m
    BY <1>3
  <2>2. ReadTrie(cells, a) = [ok |-> FALSE, pos |-> m, trie |-> <<>>]
    BY <1>1, <2>1 DEF ReadTrie
  <2> QED BY <2>2
<1> QED BY <1>2, <1>3

\* EndOf is the function that its definition describes.
LEMMA EndOfIs ==
  ASSUME file \in Seq(Nat)
  PROVE  /\ EndOf[0] = 0
         /\ \A k \in Nat \ {0} : EndOf[k] = ReadTrie(file, EndOf[k - 1]).pos
<1> DEFINE m0 == [k \in Nat |-> k]
           next == [k \in Nat |-> IF k = 0 THEN 0 ELSE k - 1]
           b0 == [k \in Nat |-> 0]
           h == [p \in Nat \X Nat |-> ReadTrie(file, p[2]).pos]
           Body(f) == [k \in Nat |-> IF k = 0 THEN 0 ELSE ReadTrie(file, f[k - 1]).pos]
<1>1. m0 \in [Nat -> Nat] /\ next \in [Nat -> Nat] /\ b0 \in [Nat -> Nat] /\ {0} \in SUBSET Nat
  OBVIOUS
<1>2. h \in [Nat \X Nat -> Nat]
  BY ReadTrieEnds
<1>3. \A k \in Nat \ {0} : m0[next[k]] < m0[k]
  OBVIOUS
<1>4. PICK g \in [Nat -> Nat] : \A k \in Nat : Recurs(g, k, {0}, b0, h, next)
  <2> HIDE DEF m0, next, b0, h
  <2> QED BY <1>1, <1>2, <1>3, RecursionHasSolution
<1>5. ASSUME NEW k \in Nat
      PROVE  g[k] = IF k = 0 THEN 0 ELSE ReadTrie(file, g[k - 1]).pos
  <2>1. Recurs(g, k, {0}, b0, h, next)
    BY <1>4
  <2>2. k = 0 => b0[k] = 0
    OBVIOUS
  <2>3. k # 0 => next[k] = k - 1 /\ k - 1 \in Nat /\ <<k, g[k - 1]>> \in Nat \X Nat
    <3> HAVE k # 0
    <3>1. k - 1 \in Nat
      OBVIOUS
    <3>2. g[k - 1] \in Nat
      BY <1>4, <3>1
    <3>3. next[k] = k - 1
      OBVIOUS
    <3> HIDE DEF next
    <3> QED BY <3>1, <3>2, <3>3
  <2>4. k # 0 => h[<<k, g[k - 1]>>] = ReadTrie(file, g[k - 1]).pos
    BY <2>3
  <2> HIDE DEF h, next, b0
  <2> QED BY <2>1, <2>2, <2>3, <2>4 DEF Recurs
<1>6. g = Body(g)
  <2>1. g = [k \in Nat |-> g[k]]
    BY <1>4
  <2> QED BY <1>5, <2>1
<1>7. \E f : f = Body(f)
  BY <1>6
<1>8. EndOf = (CHOOSE f : f = Body(f))
  BY DEF EndOf
<1>9. EndOf = Body(EndOf)
  <2> HIDE DEF Body
  <2> QED BY <1>7, <1>8
<1>10. PICK F : F = EndOf
  OBVIOUS
<1>11. F = Body(F)
  BY <1>9, <1>10
<1>12. \A k \in Nat : F[k] = IF k = 0 THEN 0 ELSE ReadTrie(file, F[k - 1]).pos
  <2>1. PICK B : B = Body(F)
    OBVIOUS
  <2>2. \A k \in Nat : B[k] = IF k = 0 THEN 0 ELSE ReadTrie(file, F[k - 1]).pos
    BY <2>1
  <2>3. F = B
    BY <1>11, <2>1
  <2> HIDE DEF Body
  <2> QED BY <2>2, <2>3
<1> QED BY <1>10, <1>12

\* The tries end where EndOf says.
LEMMA EndsAre ==
  ASSUME file \in Seq(Nat), NEW tries \in Seq(Tries), NEW e, FileHolds(file, tries, e),
         NEW n \in Nat, n = Len(tries)
  PROVE  \A k \in 0 .. n : EndOf[k] = e[k]
<1> DEFINE Bad == {k \in 0 .. n : EndOf[k] # e[k]}
<1> SUFFICES ASSUME Bad # {} PROVE FALSE
  OBVIOUS
<1>1. PICK k \in Bad : \A i \in Bad : k <= i
  <2>1. Bad \subseteq Nat
    OBVIOUS
  <2> HIDE DEF Bad
  <2> QED BY <2>1, LeastElement
<1>2. k # 0
  BY <1>1, EndOfIs DEF FileHolds
<1>3. k \in 1 .. n /\ k - 1 \in 0 .. n /\ ~(k <= k - 1) /\ k \in Nat \ {0}
  BY <1>1, <1>2
<1>4. EndOf[k - 1] = e[k - 1]
  BY <1>1, <1>3
<1>5. EndOf[k] = ReadTrie(file, e[k - 1]).pos
  BY <1>3, <1>4, EndOfIs
<1>6. ReadAs(ReadTrie(file, e[k - 1]), tries[k], e[k])
  BY <1>3, HoldsReadBack
<1>7. EndOf[k] = e[k]
  BY <1>5, <1>6 DEF ReadAs
<1> QED BY <1>1, <1>7

---------------------------------------------------------------------------
(* What the inductive invariant says of the file and the stream.           *)

\* What the file has from a on, after the tries that are complete: a trie that
\* is being written and lacks the rest, the start of one, or nothing.
EndsWith(cells, a, rest, broken, trie) ==
  /\ rest # <<>> => ~broken /\ trie \in Tries /\ Unfinished(cells, a, trie, rest)
  /\ rest = <<>> /\ broken => CutOff(cells, a)
  /\ rest = <<>> /\ ~broken => a = Len(cells)

\* The stream is where k tries end; one that is not complete may have been read
\* to the end of the file.
StreamAt(e, n, m, broken, pos, k) == pos = e[k] \/ (broken /\ k = n /\ pos = m)

\* File, what was done, and stream.
FileState(cells, tries, rest, broken, trie, pos, k) ==
  \E e : /\ FileHolds(cells, tries, e)
         /\ EndsWith(cells, e[Len(tries)], rest, broken, trie)
         /\ StreamAt(e, Len(tries), Len(cells), broken, pos, k)

\* An empty file.
LEMMA StateOfNoFile ==
  ASSUME NEW trie
  PROVE  FileState(<<>>, <<>>, <<>>, FALSE, trie, 0, 0)
<1>1. <<>> \in Seq(Nat) /\ Len(<<>>) = 0
  BY EmptySeq
<1>2. PICK e : FileHolds(<<>>, <<>>, e) /\ e[0] = 0
  BY <1>1, HoldsNothing
<1> QED BY <1>1, <1>2 DEF FileState, EndsWith, StreamAt

\* An empty file into which a trie is going to be written.
LEMMA StateOfNewFile ==
  ASSUME NEW trie \in Tries
  PROVE  FileState(<<>>, <<>>, TrieParts(trie), FALSE, trie, 0, 0)
<1>1. <<>> \in Seq(Nat) /\ Len(<<>>) = 0
  BY EmptySeq
<1>2. PICK e : FileHolds(<<>>, <<>>, e) /\ e[0] = 0
  BY <1>1, HoldsNothing
<1>3. Unfinished(<<>>, 0, trie, TrieParts(trie)) /\ TrieParts(trie) # <<>>
  BY <1>1, UnfinishedStarts, LastOfTrie
<1> QED BY <1>1, <1>2, <1>3 DEF FileState, EndsWith, StreamAt

\* Between writes it does not matter what the writer has.
LEMMA StateOfIdle ==
  ASSUME NEW cells, NEW tries, NEW broken, NEW trie, NEW other, NEW pos, NEW k,
         FileState(cells, tries, <<>>, broken, trie, pos, k)
  PROVE  FileState(cells, tries, <<>>, broken, other, pos, k)
BY DEF FileState, EndsWith

\* The stream is opened again.
LEMMA StateOfRewind ==
  ASSUME NEW cells, NEW tries, NEW rest, NEW broken, NEW trie, NEW pos, NEW k,
         FileState(cells, tries, rest, broken, trie, pos, k)
  PROVE  FileState(cells, tries, rest, broken, trie, 0, 0)
BY DEF FileState, StreamAt, FileHolds

\* A trie is going to be written after the others.
LEMMA StateOfWrite ==
  ASSUME NEW cells \in Seq(Nat), NEW tries \in Seq(Tries), NEW trie, NEW pos, NEW k,
         FileState(cells, tries, <<>>, FALSE, trie, pos, k), NEW next \in Tries
  PROVE  FileState(cells, tries, TrieParts(next), FALSE, next, pos, k)
<1>1. PICK n \in Nat : n = Len(tries)
  BY LenProperties
<1>2. PICK e : /\ FileHolds(cells, tries, e) /\ e[n] = Len(cells)
               /\ StreamAt(e, n, Len(cells), FALSE, pos, k)
  BY <1>1 DEF FileState, EndsWith
<1>3. PICK a : a = e[n]
  OBVIOUS
<1>4. Unfinished(cells, a, next, TrieParts(next)) /\ TrieParts(next) # <<>>
  BY <1>2, <1>3, UnfinishedStarts, LastOfTrie
<1>5. EndsWith(cells, e[n], TrieParts(next), FALSE, next)
  BY <1>3, <1>4 DEF EndsWith
<1> QED BY <1>1, <1>2, <1>5 DEF FileState

\* A part is written that is not the last one.
LEMMA StateOfPart ==
  ASSUME NEW cells \in Seq(Nat), NEW tries \in Seq(Tries), NEW rest \in Seq(Seq(Nat)), NEW broken,
         NEW trie, NEW pos, NEW k, FileState(cells, tries, rest, broken, trie, pos, k),
         rest # <<>>, Tail(rest) # <<>>
  PROVE  FileState(cells \o Head(rest), tries, Tail(rest), broken, trie, pos, k)
<1>1. PICK n \in Nat : n = Len(tries)
  BY LenProperties
<1>2. PICK e : /\ FileHolds(cells, tries, e) /\ EndsWith(cells, e[n], rest, broken, trie)
               /\ StreamAt(e, n, Len(cells), broken, pos, k)
  BY <1>1 DEF FileState
<1>3. ~broken /\ trie \in Tries /\ Unfinished(cells, e[n], trie, rest) /\ pos = e[k]
  BY <1>2 DEF EndsWith, StreamAt
<1>4. Head(rest) \in Seq(Nat) /\ Tail(rest) \in Seq(Seq(Nat))
  BY HeadAndTail
<1>5. FileHolds(cells \o Head(rest), tries, e)
  BY <1>2, <1>4, HoldsStill
<1>6. Unfinished(cells \o Head(rest), e[n], trie, Tail(rest))
  BY <1>3, UnfinishedGoesOn
<1>7. EndsWith(cells \o Head(rest), e[n], Tail(rest), broken, trie)
  BY <1>3, <1>6 DEF EndsWith
<1>8. StreamAt(e, n, Len(cells \o Head(rest)), broken, pos, k)
  BY <1>3 DEF StreamAt
<1> QED BY <1>1, <1>5, <1>7, <1>8 DEF FileState

\* The last part is written.
LEMMA StateOfLastPart ==
  ASSUME NEW cells \in Seq(Nat), NEW tries \in Seq(Tries), NEW rest \in Seq(Seq(Nat)), NEW broken,
         NEW trie, NEW pos, NEW n \in Nat, n = Len(tries), NEW k \in 0 .. n,
         FileState(cells, tries, rest, broken, trie, pos, k), rest # <<>>, Tail(rest) = <<>>,
         NEW other
  PROVE  /\ ~broken /\ trie \in Tries
         /\ FileState(cells \o Head(rest), Append(tries, trie), <<>>, broken, other, pos, k)
<1>2. PICK e : /\ FileHolds(cells, tries, e) /\ EndsWith(cells, e[n], rest, broken, trie)
               /\ StreamAt(e, n, Len(cells), broken, pos, k)
  BY DEF FileState
<1>3. ~broken /\ trie \in Tries /\ Unfinished(cells, e[n], trie, rest) /\ pos = e[k]
  BY <1>2 DEF EndsWith, StreamAt
<1>4. Head(rest) \in Seq(Nat)
  BY HeadAndTail
<1>5. PICK w \in Seq(Nat) : w = cells \o Head(rest)
  BY <1>4, ConcatProperties
<1>6. FileHolds(w, tries, e)
  BY <1>2, <1>4, <1>5, HoldsStill
<1>7. Laid(w, e[n], TrieParts(trie), Len(w))
  <2>1. Unfinished(w, e[n], trie, <<>>)
    BY <1>3, <1>5, UnfinishedGoesOn
  <2> QED BY <1>3, <2>1, UnfinishedEnds
<1>8. PICK f : FileHolds(w, Append(tries, trie), f) /\ OneMore(f, e, n, Len(w))
  <2>1. PICK t \in Tries : t = trie
    BY <1>3
  <2>2. Laid(w, e[n], TrieParts(t), Len(w))
    BY <1>7, <2>1
  <2>3. \E f : FileHolds(w, Append(tries, t), f) /\ OneMore(f, e, n, Len(w))
    BY <1>6, <2>2, HoldsAnother
  <2> QED BY <2>1, <2>3
<1>9. Len(Append(tries, trie)) = n + 1
  BY <1>3, AppendProperties
<1>10. EndsWith(w, f[n + 1], <<>>, broken, other)
  BY <1>3, <1>8 DEF EndsWith, OneMore
<1>11. StreamAt(f, n + 1, Len(w), broken, pos, k)
  BY <1>3, <1>8 DEF StreamAt, OneMore
<1>12. FileState(w, Append(tries, trie), <<>>, broken, other, pos, k)
  BY <1>8, <1>9, <1>10, <1>11 DEF FileState
<1> QED BY <1>3, <1>5, <1>12

\* Writing stops.
LEMMA StateOfCut ==
  ASSUME NEW cells \in Seq(Nat), NEW tries \in Seq(Tries), NEW rest \in Seq(Seq(Nat)), NEW broken,
         NEW trie, NEW pos, NEW k, FileState(cells, tries, rest, broken, trie, pos, k),
         rest # <<>>, NEW l \in Nat, l < Len(Head(rest)), NEW other
  PROVE  /\ cells \o SubSeq(Head(rest), 1, l) \in Seq(Nat)
         /\ Len(cells) <= Len(cells \o SubSeq(Head(rest), 1, l))
         /\ FileState(cells \o SubSeq(Head(rest), 1, l), tries, <<>>, TRUE, other, pos, k)
<1>1. PICK n \in Nat : n = Len(tries)
  BY LenProperties
<1>2. PICK e : /\ FileHolds(cells, tries, e) /\ EndsWith(cells, e[n], rest, broken, trie)
               /\ StreamAt(e, n, Len(cells), broken, pos, k)
  BY <1>1 DEF FileState
<1>3. trie \in Tries /\ Unfinished(cells, e[n], trie, rest) /\ pos = e[k]
  BY <1>2 DEF EndsWith, StreamAt
<1>4. PICK s : s = SubSeq(Head(rest), 1, l)
  OBVIOUS
<1>5. cells \o s \in Seq(Nat) /\ Len(cells) <= Len(cells \o s) /\ CutOff(cells \o s, e[n])
  BY <1>3, <1>4, CutOffWithin
<1>6. s \in Seq(Nat)
  <2>1. PICK part \in Seq(Nat) : part = Head(rest)
    BY HeadAndTail
  <2>2. \A i \in 1 .. l : part[i] \in Nat
    <3> TAKE i \in 1 .. l
    <3>1. i \in 1 .. Len(part)
      BY <2>1, LenProperties
    <3> QED BY <3>1, ElementOfSeq
  <2> QED BY <1>4, <2>1, <2>2, SubSeqProperties
<1>7. FileHolds(cells \o s, tries, e)
  BY <1>2, <1>6, HoldsStill
<1>8. EndsWith(cells \o s, e[n], <<>>, TRUE, other)
  BY <1>5 DEF EndsWith
<1>9. StreamAt(e, n, Len(cells \o s), TRUE, pos, k)
  BY <1>3 DEF StreamAt
<1>10. FileState(cells \o s, tries, <<>>, TRUE, other, pos, k)
  BY <1>1, <1>7, <1>8, <1>9 DEF FileState
<1> QED BY <1>4, <1>5, <1>10

\* What reading from the stream gives: the next trie, or an error when there is
\* none.
ReadsNext(r, tries, n, k, m) ==
  /\ r.ok \in BOOLEAN /\ r.pos \in 0 .. m
  /\ r.ok <=> k < n
  /\ r.ok => r.trie = tries[k + 1]

\* The next trie is read when there is one; otherwise reading throws, and the
\* stream is at the end of the file.
LEMMA StateOfRead ==
  ASSUME NEW cells \in Seq(Nat), NEW tries \in Seq(Tries), NEW broken \in BOOLEAN,
         NEW trie, NEW pos, NEW n \in Nat, n = Len(tries), NEW k \in 0 .. n,
         FileState(cells, tries, <<>>, broken, trie, pos, k), NEW r, r = ReadTrie(cells, pos),
         NEW other
  PROVE  /\ ReadsNext(r, tries, n, k, Len(cells))
         /\ FileState(cells, tries, <<>>, broken, other, r.pos, IF r.ok THEN k + 1 ELSE k)
<1>1. PICK m \in Nat : m = Len(cells)
  BY LenProperties
<1>2. PICK e : /\ FileHolds(cells, tries, e) /\ EndsWith(cells, e[n], <<>>, broken, trie)
               /\ StreamAt(e, n, m, broken, pos, k)
  BY <1>1 DEF FileState
<1>3. EndsWith(cells, e[n], <<>>, broken, other)
  BY <1>2 DEF EndsWith
<1>4. e[n] \in Nat /\ e[n] <= m /\ e[k] \in Nat /\ e[k] <= m
  <2>1. n \in 0 .. n
    OBVIOUS
  <2> QED BY <1>1, <1>2, <2>1, HoldsWithin
<1>5. CASE k < n
  <2>1. k + 1 \in 1 .. n /\ (k + 1) - 1 = k /\ k + 1 \in 0 .. n
    BY <1>5
  <2>2. pos = e[k]
    BY <1>2, <1>5 DEF StreamAt
  <2>3. ReadAs(r, tries[k + 1], e[k + 1])
    <3>1. PICK i \in 1 .. n : i = k + 1 /\ i - 1 = k
      BY <2>1
    <3>2. ReadAs(ReadTrie(cells, e[i - 1]), tries[i], e[i])
      BY <1>2, HoldsReadBack
    <3> QED BY <2>2, <3>1, <3>2
  <2>4. e[k + 1] \in Nat /\ e[k + 1] <= m
    BY <1>1, <1>2, <2>1, HoldsWithin
  <2>5. r.ok = TRUE /\ r.pos = e[k + 1] /\ r.trie = tries[k + 1]
    BY <2>3 DEF ReadAs
  <2>6. ReadsNext(r, tries, n, k, m)
    <3>1. r.pos \in 0 .. m
      BY <2>4, <2>5
    <3>2. r.ok /\ r.ok \in BOOLEAN
      BY <2>5
    <3> QED BY <1>5, <2>5, <3>1, <3>2 DEF ReadsNext
  <2>7. StreamAt(e, n, m, broken, r.pos, k + 1)
    BY <2>5 DEF StreamAt
  <2>8. FileState(cells, tries, <<>>, broken, other, r.pos, k + 1)
    BY <1>1, <1>2, <1>3, <2>7 DEF FileState
  <2> QED BY <1>1, <2>5, <2>6, <2>8
<1>6. CASE ~(k < n)
  <2>1. k = n
    BY <1>6
  <2>2. ~r.ok /\ r.pos = m /\ r.ok \in BOOLEAN
    <3>1. pos \in Nat /\ pos <= Len(cells)
      BY <1>1, <1>2, <1>4, <2>1 DEF StreamAt
    <3>2. r.ok \in BOOLEAN
      BY <3>1, TrieReadGoesOn
    <3>3. CASE pos = m
      BY <1>1, <3>2, <3>3, NothingIsRead
    <3>4. CASE pos # m
      <4>1. pos = e[n]
        BY <1>2, <2>1, <3>4 DEF StreamAt
      <4>2. broken
        BY <1>1, <1>2, <3>4, <4>1 DEF EndsWith
      <4>3. CutOff(cells, pos)
        BY <1>2, <4>1, <4>2 DEF EndsWith
      <4> QED BY <1>1, <3>1, <3>2, <4>3, CutOffIsNotRead
    <3> QED BY <3>3, <3>4
  <2>3. ReadsNext(r, tries, n, k, m)
    BY <1>1, <1>6, <2>2 DEF ReadsNext
  <2>4. StreamAt(e, n, m, broken, m, k)
    <3>1. broken => StreamAt(e, n, m, broken, m, k)
      BY <2>1 DEF StreamAt
    <3>2. ~broken => e[n] = m
      BY <1>1, <1>2 DEF EndsWith
    <3> QED BY <2>1, <3>1, <3>2 DEF StreamAt
  <2>5. FileState(cells, tries, <<>>, broken, other, r.pos, k)
    BY <1>1, <1>2, <1>3, <2>2, <2>4 DEF FileState
  <2> QED BY <1>1, <2>2, <2>3, <2>5
<1> QED BY <1>5, <1>6

\* The inductive invariant.
FileInv ==
  /\ FileTypeOK
  /\ FileState(file, written, pending, cut, handles[writer], position, taken)

\* The empty file.
LEMMA InitHasFileInv == InitFile => FileInv
<1> SUFFICES ASSUME InitFile PROVE FileInv
  OBVIOUS
<1>1. writer \in Handles
  <2>1. \E h \in Handles : TRUE
    BY CellsAssumption
  <2> QED BY <2>1 DEF InitFile
<1>2. handles = [h \in Handles |-> NoTrie] /\ handles \in [Handles -> Tries \cup {NoTrie}] /\ mapped = {}
  BY DEF InitFile
<1>3. file = <<>> /\ pending = <<>> /\ written = <<>> /\ position = 0 /\ taken = 0 /\ cut = FALSE
  BY DEF InitFile
<1>4. file \in Seq(Nat) /\ pending \in Seq(Seq(Nat)) /\ written \in Seq(Tries)
      /\ Len(file) = 0 /\ Len(written) = 0
  BY <1>3, EmptySeq
<1>5. FileTypeOK
  <2>0. 0 \in 0 .. 0 /\ FALSE \in BOOLEAN
    OBVIOUS
  <2>1. position \in 0 .. Len(file) /\ taken \in 0 .. Len(written) /\ cut \in BOOLEAN
    BY <1>3, <1>4, <2>0
  <2> QED BY <1>1, <1>2, <1>4, <2>1 DEF FileTypeOK
<1>6. FileState(<<>>, <<>>, <<>>, FALSE, handles[writer], 0, 0)
  BY StateOfNoFile
<1> QED BY <1>3, <1>5, <1>6 DEF FileInv

\* What a handle is given.
LEMMA GiveTrie ==
  ASSUME FileTypeOK, NEW h \in Handles, NEW t \in Tries, NEW others,
         handles' = [handles EXCEPT ![h] = t], others = mapped \ {h} \/ others = mapped \cup {h}
  PROVE  /\ handles' \in [Handles -> Tries \cup {NoTrie}]
         /\ others \subseteq {g \in Handles : handles'[g] # NoTrie}
<1>1. t # NoTrie
  BY TriesAssumption
<1> QED BY <1>1 DEF FileTypeOK

\* While the file and the stream are left alone, and between writes.
LEMMA FileStays ==
  ASSUME FileInv, Idle, FileUnchanged, StreamUnchanged,
         handles' \in [Handles -> Tries \cup {NoTrie}],
         mapped' \subseteq {g \in Handles : handles'[g] # NoTrie}
  PROVE  FileInv'
<1>1. FileTypeOK'
  BY DEF FileInv, FileTypeOK, FileUnchanged, StreamUnchanged
<1>2. pending = <<>>
  BY DEF Idle
<1>3. FileState(file, written, <<>>, cut, handles[writer], position, taken)
  BY <1>2 DEF FileInv
<1>4. PICK other : other = handles'[writer]
  OBVIOUS
<1>5. FileState(file, written, <<>>, cut, other, position, taken)
  BY <1>3, StateOfIdle
<1> QED BY <1>1, <1>2, <1>4, <1>5 DEF FileInv, FileUnchanged, StreamUnchanged

\* build gives a handle a trie.
LEMMA BuildKeepsInv == ASSUME FileInv, NEW h \in Handles, Build(h) PROVE FileInv'
<1>1. PICK t \in Tries : handles' = [handles EXCEPT ![h] = t]
  BY DEF Build
<1>2. mapped' = mapped \ {h} /\ Idle /\ FileUnchanged /\ StreamUnchanged
  BY DEF Build
<1>3. FileTypeOK
  BY DEF FileInv
<1>4. PICK others : others = mapped'
  OBVIOUS
<1>5. /\ handles' \in [Handles -> Tries \cup {NoTrie}]
      /\ others \subseteq {g \in Handles : handles'[g] # NoTrie}
  BY <1>1, <1>2, <1>3, <1>4, GiveTrie
<1> QED BY <1>2, <1>4, <1>5, FileStays

\* clear takes it away.
LEMMA ClearKeepsInv == ASSUME FileInv, NEW h \in Handles, Clear(h) PROVE FileInv'
<1>1. Idle /\ FileUnchanged /\ StreamUnchanged
  BY DEF Clear
<1>2. /\ handles' \in [Handles -> Tries \cup {NoTrie}]
      /\ mapped' \subseteq {g \in Handles : handles'[g] # NoTrie}
  BY DEF Clear, FileInv, FileTypeOK
<1> QED BY <1>1, <1>2, FileStays

\* swap: the Mapper goes with its trie.
LEMMA SwapKeepsInv ==
  ASSUME FileInv, NEW g \in Handles, NEW h \in Handles, Swap(g, h)
  PROVE  FileInv'
<1>1. Idle /\ FileUnchanged /\ StreamUnchanged
  BY DEF Swap
<1>2. handles' = [handles EXCEPT ![g] = handles[h], ![h] = handles[g]]
  BY DEF Swap
<1>3. /\ handles \in [Handles -> Tries \cup {NoTrie}]
      /\ mapped \subseteq {k \in Handles : handles[k] # NoTrie}
  BY DEF FileInv, FileTypeOK
<1>4. handles' \in [Handles -> Tries \cup {NoTrie}]
  BY <1>2, <1>3
<1>5. ASSUME NEW k \in mapped' PROVE k \in Handles /\ handles'[k] # NoTrie
  <2>1. k \in Handles /\ (CASE k = g -> h [] k = h -> g [] OTHER -> k) \in mapped
    BY DEF Swap
  <2>2. CASE k = g
    <3>1. h \in mapped
      BY <2>1, <2>2
    <3>2. handles[h] # NoTrie
      BY <1>3, <3>1
    <3> QED BY <1>2, <1>3, <2>1, <2>2, <3>2
  <2>3. CASE k # g /\ k = h
    <3>1. g \in mapped
      BY <2>1, <2>3
    <3>2. handles[g] # NoTrie
      BY <1>3, <3>1
    <3> QED BY <1>2, <1>3, <2>1, <2>3, <3>2
  <2>4. CASE k # g /\ k # h
    <3>1. k \in mapped
      BY <2>1, <2>4
    <3> QED BY <1>2, <1>3, <2>1, <2>4, <3>1
  <2> QED BY <2>2, <2>3, <2>4
<1>6. mapped' \subseteq {k \in Handles : handles'[k] # NoTrie}
  BY <1>5
<1> QED BY <1>1, <1>4, <1>6, FileStays

\* save empties the file.
LEMMA SaveKeepsInv == ASSUME FileInv, NEW h \in Handles, Save(h) PROVE FileInv'
<1>1. /\ file' = <<>> /\ written' = <<>> /\ cut' = FALSE /\ position' = 0 /\ taken' = 0
      /\ pending' = TrieParts(handles[h]) /\ writer' = h /\ handles' = handles /\ mapped' = mapped
  BY DEF Save
<1>2. PICK t \in Tries : t = handles[h]
  BY DEF Save, FileInv, FileTypeOK
<1>3. /\ file' \in Seq(Nat) /\ pending' \in Seq(Seq(Nat)) /\ written' \in Seq(Tries)
      /\ Len(file') = 0 /\ Len(written') = 0
  BY <1>1, <1>2, EmptySeq, TriePartsAre
<1>4. position' \in 0 .. Len(file') /\ taken' \in 0 .. Len(written') /\ cut' \in BOOLEAN
  <2>1. 0 \in 0 .. 0 /\ FALSE \in BOOLEAN
    OBVIOUS
  <2> QED BY <1>1, <1>3, <2>1
<1>5. FileTypeOK'
  BY <1>1, <1>3, <1>4 DEF FileInv, FileTypeOK
<1>6. FileState(<<>>, <<>>, TrieParts(t), FALSE, t, 0, 0)
  BY StateOfNewFile
<1> QED BY <1>1, <1>2, <1>5, <1>6 DEF FileInv

\* write goes on after the complete tries.
LEMMA WriteKeepsInv == ASSUME FileInv, NEW h \in Handles, Write(h) PROVE FileInv'
<1>1. /\ pending' = TrieParts(handles[h]) /\ writer' = h /\ ~cut /\ pending = <<>>
      /\ handles' = handles /\ mapped' = mapped /\ file' = file /\ written' = written /\ cut' = cut
      /\ position' = position /\ taken' = taken
  BY DEF Write, StreamUnchanged, Idle
<1>2. PICK t \in Tries : t = handles[h]
  BY DEF Write, FileInv, FileTypeOK
<1>3. FileTypeOK'
  BY <1>1, <1>2, TriePartsAre DEF FileInv, FileTypeOK
<1>4. cut = FALSE /\ file \in Seq(Nat) /\ written \in Seq(Tries)
  BY <1>1 DEF FileInv, FileTypeOK
<1>5. FileState(file, written, <<>>, FALSE, handles[writer], position, taken)
  BY <1>1, <1>4 DEF FileInv
<1>6. FileState(file, written, TrieParts(t), FALSE, t, position, taken)
  BY <1>4, <1>5, StateOfWrite
<1> QED BY <1>1, <1>2, <1>3, <1>4, <1>6 DEF FileInv

\* A part is written; the last one makes the trie complete.
LEMMA WritePartKeepsInv == ASSUME FileInv, WritePart PROVE FileInv'
<1>1. /\ pending # <<>> /\ file' = file \o Head(pending) /\ pending' = Tail(pending)
      /\ handles' = handles /\ mapped' = mapped /\ writer' = writer /\ cut' = cut
      /\ position' = position /\ taken' = taken
  BY DEF WritePart, Idle, StreamUnchanged
<1>2. /\ file \in Seq(Nat) /\ written \in Seq(Tries) /\ pending \in Seq(Seq(Nat)) /\ cut \in BOOLEAN
      /\ position \in 0 .. Len(file) /\ taken \in 0 .. Len(written)
      /\ handles \in [Handles -> Tries \cup {NoTrie}] /\ writer \in Handles
      /\ mapped \subseteq {k \in Handles : handles[k] # NoTrie}
  BY DEF FileInv, FileTypeOK
<1>3. Head(pending) \in Seq(Nat) /\ Tail(pending) \in Seq(Seq(Nat))
  BY <1>1, <1>2, HeadAndTail
<1>4. file' \in Seq(Nat) /\ position' \in 0 .. Len(file')
  <2>1. PICK s \in Seq(Nat), n \in Nat, m \in Nat : s = Head(pending) /\ n = Len(file) /\ m = Len(s)
    BY <1>2, <1>3, LenProperties
  <2>2. file \o s \in Seq(Nat) /\ Len(file \o s) = n + m
    BY <1>2, <2>1, ConcatIs
  <2>3. 0 .. n \subseteq 0 .. n + m
    OBVIOUS
  <2> QED BY <1>1, <1>2, <2>1, <2>2, <2>3
<1>5. PICK n \in Nat : n = Len(written)
  BY <1>2, LenProperties
<1>6. PICK trie, other : trie = handles[writer] /\ other = handles'[writer']
  OBVIOUS
<1>7. other = trie
  BY <1>1, <1>6
<1>8. FileState(file, written, pending, cut, trie, position, taken)
  BY <1>6 DEF FileInv
<1>9. CASE Tail(pending) = <<>>
  <2>1. /\ ~cut /\ trie \in Tries
        /\ FileState(file \o Head(pending), Append(written, trie), <<>>, cut, other, position, taken)
    BY <1>1, <1>2, <1>5, <1>8, <1>9, StateOfLastPart
  <2>2. Len(pending) = 1
    <3>1. PICK k \in Nat : k = Len(pending) /\ k # 0
      BY <1>1, <1>2, EmptySeq
    <3>2. Len(Tail(pending)) = Len(pending) - 1
      BY <1>1, <1>2, HeadTailProperties
    <3>3. Len(Tail(pending)) = 0
      BY <1>9, EmptySeq
    <3>4. k - 1 = 0
      BY <3>1, <3>2, <3>3
    <3>5. k = 1
      BY ONLY k \in Nat, <3>4
    <3> QED BY <3>1, <3>5
  <2>3. written' = Append(written, trie)
    BY <1>6, <2>2 DEF WritePart
  <2>4. written' \in Seq(Tries) /\ Len(written') = n + 1
    BY <1>2, <1>5, <2>1, <2>3, AppendProperties
  <2>5. taken' \in 0 .. Len(written')
    BY <1>1, <1>2, <1>5, <2>4
  <2>6. FileTypeOK'
    BY <1>1, <1>2, <1>3, <1>4, <2>4, <2>5 DEF FileTypeOK
  <2> QED BY <1>1, <1>6, <1>9, <2>1, <2>3, <2>6 DEF FileInv
<1>10. CASE Tail(pending) # <<>>
  <2>1. FileState(file \o Head(pending), written, Tail(pending), cut, trie, position, taken)
    BY <1>1, <1>2, <1>8, <1>10, StateOfPart
  <2>2. Len(pending) # 1
    <3>1. PICK k \in Nat : k = Len(Tail(pending)) /\ k # 0
      BY <1>3, <1>10, EmptySeq
    <3>2. Len(Tail(pending)) = Len(pending) - 1
      BY <1>1, <1>2, HeadTailProperties
    <3> QED BY <3>1, <3>2
  <2>3. written' = written
    BY <2>2 DEF WritePart
  <2>4. FileTypeOK'
    BY <1>1, <1>2, <1>3, <1>4, <2>3 DEF FileTypeOK
  <2> QED BY <1>1, <1>6, <1>7, <2>1, <2>3, <2>4 DEF FileInv
<1> QED BY <1>9, <1>10

\* Writing stops: some of the next part is in the file.
LEMMA CutKeepsFile ==
  ASSUME FileInv, pending # <<>>, NEW n \in 0 .. Len(Head(pending)) - 1, NEW other
  PROVE  /\ file \o SubSeq(Head(pending), 1, n) \in Seq(Nat)
         /\ position \in 0 .. Len(file \o SubSeq(Head(pending), 1, n))
         /\ FileState(file \o SubSeq(Head(pending), 1, n), written, <<>>, TRUE, other, position, taken)
<1>1. /\ file \in Seq(Nat) /\ written \in Seq(Tries) /\ pending \in Seq(Seq(Nat))
      /\ position \in 0 .. Len(file)
  BY DEF FileInv, FileTypeOK
<1>2. PICK l \in Nat : l = Len(Head(pending))
  BY <1>1, HeadAndTail, LenProperties
<1>3. n \in Nat /\ n < Len(Head(pending))
  BY <1>2
<1>4. PICK w : w = file \o SubSeq(Head(pending), 1, n)
  OBVIOUS
<1>5. PICK trie : trie = handles[writer]
  OBVIOUS
<1>6. FileState(file, written, pending, cut, trie, position, taken)
  BY <1>5 DEF FileInv
<1>7. /\ w \in Seq(Nat) /\ Len(file) <= Len(w)
      /\ FileState(w, written, <<>>, TRUE, other, position, taken)
  BY <1>1, <1>3, <1>4, <1>6, StateOfCut
<1>8. position \in 0 .. Len(w)
  <2>1. PICK m \in Nat, k \in Nat : m = Len(file) /\ k = Len(w)
    BY <1>1, <1>7, LenProperties
  <2> QED BY <1>1, <1>7, <2>1
<1> QED BY <1>4, <1>7, <1>8

\* A write that fails leaves the start of a trie.
LEMMA WriteFailsKeepsInv == ASSUME FileInv, WriteFails PROVE FileInv'
<1>1. /\ pending # <<>> /\ pending' = <<>> /\ cut' = TRUE
      /\ handles' = handles /\ mapped' = mapped /\ writer' = writer /\ written' = written
      /\ position' = position /\ taken' = taken
  BY DEF WriteFails, Idle, StreamUnchanged
<1>2. PICK n \in 0 .. Len(Head(pending)) - 1 : file' = file \o SubSeq(Head(pending), 1, n)
  BY DEF WriteFails
<1>3. PICK other : other = handles'[writer']
  OBVIOUS
<1>4. /\ file' \in Seq(Nat) /\ position \in 0 .. Len(file')
      /\ FileState(file', written, <<>>, TRUE, other, position, taken)
  BY <1>1, <1>2, CutKeepsFile
<1>5. pending' \in Seq(Seq(Nat))
  BY <1>1, EmptySeq
<1>6. FileTypeOK'
  BY <1>1, <1>4, <1>5 DEF FileInv, FileTypeOK
<1> QED BY <1>1, <1>3, <1>4, <1>6 DEF FileInv

\* A crash does as well.
LEMMA CrashKeepsInv == ASSUME FileInv, Crash PROVE FileInv'
<1>1. /\ pending' = <<>> /\ handles' = [h \in Handles |-> NoTrie] /\ mapped' = {}
      /\ position' = 0 /\ taken' = 0 /\ writer' = writer /\ written' = written
  BY DEF Crash
<1>2. PICK other : other = handles'[writer']
  OBVIOUS
<1>3. written \in Seq(Tries) /\ writer \in Handles
  BY DEF FileInv, FileTypeOK
<1>4. /\ file' \in Seq(Nat) /\ cut' \in BOOLEAN
      /\ FileState(file', written, <<>>, cut', other, position, taken)
  <2>1. CASE Idle /\ file' = file /\ cut' = cut
    <3>1. pending = <<>> /\ file \in Seq(Nat) /\ cut \in BOOLEAN
      BY <2>1 DEF Idle, FileInv, FileTypeOK
    <3>2. PICK trie : trie = handles[writer]
      OBVIOUS
    <3>3. FileState(file, written, <<>>, cut, trie, position, taken)
      BY <3>1, <3>2 DEF FileInv
    <3>4. FileState(file, written, <<>>, cut, other, position, taken)
      BY <3>3, StateOfIdle
    <3> QED BY <2>1, <3>1, <3>4
  <2>2. CASE /\ ~Idle /\ cut' = TRUE
             /\ \E n \in 0 .. Len(Head(pending)) - 1 : file' = file \o SubSeq(Head(pending), 1, n)
    <3>1. PICK n \in 0 .. Len(Head(pending)) - 1 : file' = file \o SubSeq(Head(pending), 1, n)
      BY <2>2
    <3>2. pending # <<>>
      BY <2>2 DEF Idle
    <3>3. file' \in Seq(Nat) /\ FileState(file', written, <<>>, TRUE, other, position, taken)
      BY <3>1, <3>2, CutKeepsFile
    <3> QED BY <2>2, <3>3
  <2> QED BY <2>1, <2>2 DEF Crash
<1>5. FileState(file', written, <<>>, cut', other, 0, 0)
  BY <1>4, StateOfRewind
<1>6. position' \in 0 .. Len(file') /\ taken' \in 0 .. Len(written')
  <2>1. Len(file') \in Nat /\ Len(written') \in Nat
    BY <1>1, <1>3, <1>4, LenProperties
  <2> QED BY <1>1, <2>1
<1>7. pending' \in Seq(Seq(Nat))
  BY <1>1, EmptySeq
<1>8. FileTypeOK'
  BY <1>1, <1>3, <1>4, <1>6, <1>7 DEF FileTypeOK
<1> QED BY <1>1, <1>2, <1>5, <1>8 DEF FileInv

\* The stream is opened again.
LEMMA RewindKeepsInv == ASSUME FileInv, Rewind PROVE FileInv'
<1>1. /\ position' = 0 /\ taken' = 0 /\ handles' = handles /\ mapped' = mapped
      /\ file' = file /\ pending' = pending /\ writer' = writer /\ written' = written /\ cut' = cut
  BY DEF Rewind, FileUnchanged
<1>2. Len(file) \in Nat /\ Len(written) \in Nat
  BY LenProperties DEF FileInv, FileTypeOK
<1>3. FileTypeOK'
  BY <1>1, <1>2 DEF FileInv, FileTypeOK
<1>4. PICK trie : trie = handles[writer]
  OBVIOUS
<1>5. FileState(file, written, pending, cut, trie, 0, 0)
  BY <1>4, StateOfRewind DEF FileInv
<1> QED BY <1>1, <1>3, <1>4, <1>5 DEF FileInv

\* What is read, from the start of the file or from where the stream is.
LEMMA ReadGives ==
  ASSUME FileInv, Idle, NEW other, NEW n \in Nat, n = Len(written)
  PROVE  /\ taken \in 0 .. n
         /\ ReadsNext(ReadTrie(file, 0), written, n, 0, Len(file))
         /\ ReadsNext(ReadTrie(file, position), written, n, taken, Len(file))
         /\ FileState(file, written, <<>>, cut, other, ReadTrie(file, position).pos,
                      IF ReadTrie(file, position).ok THEN taken + 1 ELSE taken)
<1>1. file \in Seq(Nat) /\ written \in Seq(Tries) /\ cut \in BOOLEAN /\ taken \in 0 .. n
  BY DEF FileInv, FileTypeOK
<1>2. PICK trie : trie = handles[writer]
  OBVIOUS
<1>3. FileState(file, written, <<>>, cut, trie, position, taken)
  BY <1>2 DEF FileInv, Idle
<1>4. FileState(file, written, <<>>, cut, trie, 0, 0)
  BY <1>3, StateOfRewind
<1>5. 0 \in 0 .. n
  OBVIOUS
<1>6. ReadsNext(ReadTrie(file, 0), written, n, 0, Len(file))
  BY <1>1, <1>4, <1>5, StateOfRead
<1>7. PICK r : r = ReadTrie(file, position)
  OBVIOUS
<1>8. /\ ReadsNext(r, written, n, taken, Len(file))
      /\ FileState(file, written, <<>>, cut, other, r.pos, IF r.ok THEN taken + 1 ELSE taken)
  BY <1>1, <1>3, <1>7, StateOfRead
<1> QED BY <1>1, <1>6, <1>7, <1>8

\* load and map give a handle the first trie of the file.
LEMMA LoadKeepsInv ==
  ASSUME FileInv, NEW h \in Handles, NEW after, after = mapped \ {h} \/ after = mapped \cup {h},
         LoadAs(h, after)
  PROVE  FileInv' /\ written # <<>> /\ handles' = [handles EXCEPT ![h] = written[1]]
<1>1. PICK r : r = ReadTrie(file, 0)
  OBVIOUS
<1>2. /\ Idle /\ r.ok /\ handles' = [handles EXCEPT ![h] = r.trie] /\ mapped' = after
      /\ FileUnchanged /\ StreamUnchanged
  BY <1>1 DEF LoadAs
<1>3. written \in Seq(Tries) /\ FileTypeOK
  BY DEF FileInv, FileTypeOK
<1>4. PICK n \in Nat : n = Len(written)
  BY <1>3, LenProperties
<1>5. ReadsNext(r, written, n, 0, Len(file))
  BY <1>1, <1>2, <1>4, ReadGives
<1>6. 0 < n /\ r.trie = written[1]
  BY <1>2, <1>5 DEF ReadsNext
<1>7. PICK t \in Tries : t = written[1]
  <2>1. 1 \in 1 .. n
    BY <1>6
  <2> QED BY <1>3, <1>4, <2>1, ElementOfSeq
<1>8. handles' = [handles EXCEPT ![h] = t]
  BY <1>2, <1>6, <1>7
<1>9. /\ handles' \in [Handles -> Tries \cup {NoTrie}]
      /\ after \subseteq {g \in Handles : handles'[g] # NoTrie}
  BY <1>3, <1>8, GiveTrie
<1>10. FileInv'
  BY <1>2, <1>9, FileStays
<1>11. written # <<>>
  BY <1>4, <1>6, EmptySeq
<1> QED BY <1>7, <1>8, <1>10, <1>11

\* read gives a handle the next one, or throws.
LEMMA ReadKeepsInv ==
  ASSUME FileInv, NEW h \in Handles, Read(h)
  PROVE  /\ FileInv'
         /\ \/ /\ taken < Len(written) /\ taken' = taken + 1 /\ mapped' = mapped \ {h}
               /\ handles' = [handles EXCEPT ![h] = written[taken + 1]]
            \/ UNCHANGED <<handles, mapped, taken>>
<1>1. PICK r : r = ReadTrie(file, position)
  OBVIOUS
<1>2. /\ Idle /\ handles' = (IF r.ok THEN [handles EXCEPT ![h] = r.trie] ELSE handles)
      /\ mapped' = (IF r.ok THEN mapped \ {h} ELSE mapped)
      /\ position' = r.pos /\ taken' = (IF r.ok THEN taken + 1 ELSE taken)
      /\ FileUnchanged
  BY <1>1 DEF Read
<1>3. /\ file' = file /\ pending' = pending /\ writer' = writer /\ written' = written /\ cut' = cut
      /\ pending = <<>>
  BY <1>2 DEF FileUnchanged, Idle
<1>4. file \in Seq(Nat) /\ written \in Seq(Tries) /\ FileTypeOK
  BY DEF FileInv, FileTypeOK
<1>5. PICK n \in Nat : n = Len(written)
  BY <1>4, LenProperties
<1>6. PICK other : other = handles'[writer']
  OBVIOUS
<1>7. /\ taken \in 0 .. n /\ ReadsNext(r, written, n, taken, Len(file))
      /\ FileState(file, written, <<>>, cut, other, r.pos, IF r.ok THEN taken + 1 ELSE taken)
  BY <1>1, <1>2, <1>5, ReadGives
<1>8. FileState(file', written', pending', cut', other, position', taken')
  BY <1>2, <1>3, <1>7
<1>9. position' \in 0 .. Len(file')
  BY <1>2, <1>3, <1>7 DEF ReadsNext
<1>10. CASE r.ok
  <2>1. taken < n /\ r.trie = written[taken + 1] /\ taken + 1 \in 1 .. n /\ taken + 1 \in 0 .. n
    BY <1>7, <1>10 DEF ReadsNext
  <2>2. PICK t \in Tries : t = written[taken + 1]
    BY <1>4, <1>5, <2>1, ElementOfSeq
  <2>3. handles' = [handles EXCEPT ![h] = t] /\ mapped' = mapped \ {h} /\ taken' = taken + 1
    BY <1>2, <1>10, <2>1, <2>2
  <2>4. PICK after : after = mapped'
    OBVIOUS
  <2>5. /\ handles' \in [Handles -> Tries \cup {NoTrie}]
        /\ after \subseteq {g \in Handles : handles'[g] # NoTrie}
    BY <1>4, <2>3, <2>4, GiveTrie
  <2>6. FileTypeOK'
    BY <1>3, <1>4, <1>5, <1>9, <2>1, <2>3, <2>4, <2>5 DEF FileTypeOK
  <2> QED BY <1>5, <1>6, <1>8, <2>1, <2>2, <2>3, <2>6 DEF FileInv
<1>11. CASE ~r.ok
  <2>1. handles' = handles /\ mapped' = mapped /\ taken' = taken
    BY <1>2, <1>11
  <2>2. FileTypeOK'
    BY <1>3, <1>4, <1>9, <2>1 DEF FileTypeOK
  <2> QED BY <1>6, <1>8, <2>1, <2>2 DEF FileInv
<1> QED BY <1>10, <1>11

\* Every step keeps the invariant.
LEMMA NextKeepsFileInv == FileInv /\ [NextFile]_fileVars => FileInv'
<1> SUFFICES ASSUME FileInv, [NextFile]_fileVars PROVE FileInv'
  OBVIOUS
<1>1. ASSUME NEW h \in Handles, Build(h) PROVE FileInv'
  BY <1>1, BuildKeepsInv
<1>2. ASSUME NEW h \in Handles, Clear(h) PROVE FileInv'
  BY <1>2, ClearKeepsInv
<1>3. ASSUME NEW h \in Handles, Save(h) PROVE FileInv'
  BY <1>3, SaveKeepsInv
<1>4. ASSUME NEW h \in Handles, Write(h) PROVE FileInv'
  BY <1>4, WriteKeepsInv
<1>5. ASSUME NEW h \in Handles, Load(h) PROVE FileInv'
  BY <1>5, LoadKeepsInv DEF Load
<1>6. ASSUME NEW h \in Handles, Map(h) PROVE FileInv'
  BY <1>6, LoadKeepsInv DEF Map
<1>7. ASSUME NEW h \in Handles, Read(h) PROVE FileInv'
  BY <1>7, ReadKeepsInv
<1>8. ASSUME NEW g \in Handles, NEW h \in Handles, Swap(g, h) PROVE FileInv'
  BY <1>8, SwapKeepsInv
<1>9. CASE WritePart
  BY <1>9, WritePartKeepsInv
<1>10. CASE WriteFails
  BY <1>10, WriteFailsKeepsInv
<1>11. CASE Crash
  BY <1>11, CrashKeepsInv
<1>12. CASE Rewind
  BY <1>12, RewindKeepsInv
<1>13. CASE UNCHANGED fileVars
  BY <1>13 DEF fileVars, FileInv, FileTypeOK
<1> QED BY <1>1, <1>2, <1>3, <1>4, <1>5, <1>6, <1>7, <1>8, <1>9, <1>10, <1>11, <1>12, <1>13
        DEF NextFile

---------------------------------------------------------------------------
(* What the invariant says.                                                *)

\* Complete tries are read back, what follows them is not read.
LEMMA InvReadsBack == FileInv => FileReadsBack
<1> SUFFICES ASSUME FileInv PROVE FileReadsBack
  OBVIOUS
<1>1. file \in Seq(Nat) /\ written \in Seq(Tries) /\ pending \in Seq(Seq(Nat))
  BY DEF FileInv, FileTypeOK
<1>2. PICK n \in Nat : n = Len(written) /\ DOMAIN written = 1 .. n
  BY <1>1, LenProperties
<1>3. PICK trie : trie = handles[writer]
  OBVIOUS
<1>4. PICK e : FileHolds(file, written, e) /\ EndsWith(file, e[n], pending, cut, trie)
  BY <1>2, <1>3 DEF FileInv, FileState
<1>5. \A k \in 0 .. n : EndOf[k] = e[k]
  BY <1>1, <1>2, <1>4, EndsAre
<1>6. ASSUME NEW k \in 1 .. n
      PROVE  ReadTrie(file, EndOf[k - 1]).ok /\ ReadTrie(file, EndOf[k - 1]).trie = written[k]
  <2>1. k - 1 \in 0 .. n
    OBVIOUS
  <2>2. ReadAs(ReadTrie(file, e[k - 1]), written[k], e[k])
    BY <1>1, <1>2, <1>4, HoldsReadBack
  <2> QED BY <1>5, <2>1, <2>2 DEF ReadAs
<1>7. ~ReadTrie(file, EndOf[n]).ok
  <2>1. n \in 0 .. n
    OBVIOUS
  <2>2. PICK a \in Nat : a = e[n] /\ a <= Len(file)
    BY <1>1, <1>2, <1>4, <2>1, HoldsWithin
  <2>3. CASE pending # <<>>
    <3>1. trie \in Tries /\ Unfinished(file, a, trie, pending)
      BY <1>4, <2>2, <2>3 DEF EndsWith
    <3>2. CutOff(file, a)
      BY <1>1, <2>3, <3>1, UnfinishedIsCut
    <3> QED BY <1>1, <1>5, <2>1, <2>2, <3>2, CutOffIsNotRead
  <2>4. CASE pending = <<>> /\ cut
    <3>1. CutOff(file, a)
      BY <1>4, <2>2, <2>4 DEF EndsWith
    <3> QED BY <1>1, <1>5, <2>1, <2>2, <3>1, CutOffIsNotRead
  <2>5. CASE pending = <<>> /\ ~cut
    <3>1. a = Len(file)
      BY <1>4, <2>2, <2>5 DEF EndsWith
    <3> QED BY <1>1, <1>5, <2>1, <2>2, <3>1, NothingIsRead
  <2> QED BY <2>3, <2>4, <2>5
<1> QED BY <1>2, <1>6, <1>7 DEF FileReadsBack

\* Streams are where the next trie begins.
LEMMA InvStreams == FileInv => StreamAtNextTrie
<1> SUFFICES ASSUME FileInv, ~cut \/ taken < Len(written) PROVE position = EndOf[taken]
  BY DEF StreamAtNextTrie
<1>1. file \in Seq(Nat) /\ written \in Seq(Tries)
  BY DEF FileInv, FileTypeOK
<1>2. PICK n \in Nat : n = Len(written) /\ taken \in 0 .. n
  BY <1>1, LenProperties DEF FileInv, FileTypeOK
<1>3. PICK e : FileHolds(file, written, e) /\ StreamAt(e, n, Len(file), cut, position, taken)
  BY <1>2 DEF FileInv, FileState
<1>4. position = e[taken]
  BY <1>2, <1>3 DEF StreamAt
<1>5. EndOf[taken] = e[taken]
  BY <1>1, <1>2, <1>3, EndsAre
<1> QED BY <1>4, <1>5

\* Every reachable state satisfies the invariant.
THEOREM FileInvariant == SpecFile => []FileInv
<1>1. InitFile => FileInv
  BY InitHasFileInv
<1>2. FileInv /\ [NextFile]_fileVars => FileInv'
  BY NextKeepsFileInv
<1> QED BY <1>1, <1>2, PTL DEF SpecFile

\* Handles have tries or none, and only those that have one are mapped; the file,
\* the stream and what is still to be written keep their types.
THEOREM FileTypeCorrect == SpecFile => []FileTypeOK
<1>1. FileInv => FileTypeOK
  BY DEF FileInv
<1> QED BY <1>1, FileInvariant, PTL

\* For any tries, any interleaving of saving, writing, crashing and failing writes:
\* the tries that are complete in the file are read back by LoudsTrie::read and
\* map, and what a crash or a full disk left behind them never passes for one.
THEOREM FilesReadBack == SpecFile => []FileReadsBack
<1> QED BY InvReadsBack, FileInvariant, PTL

\* read and >> leave a stream where the next trie begins, also when they came too
\* early.
THEOREM StreamsAtNextTrie == SpecFile => []StreamAtNextTrie
<1> QED BY InvStreams, FileInvariant, PTL

---------------------------------------------------------------------------
(* Files, handles and streams are those of TrieStore.                      *)

\* The first states.
LEMMA InitIsStoreInit == InitFile => Store!StoreInit
BY DEF InitFile, Idle, Store!StoreInit

\* Every step is one of the store or changes nothing there.
LEMMA StepIsStoreStep ==
  FileInv /\ [NextFile]_fileVars => [Store!StoreNext]_Store!storeVars
<1> SUFFICES ASSUME FileInv, [NextFile]_fileVars PROVE [Store!StoreNext]_Store!storeVars
  OBVIOUS
<1> USE DEF Store!StoreNext, Store!storeVars
<1>1. ASSUME NEW h \in Handles, Build(h) PROVE Store!PutTrie(h)
  BY <1>1 DEF Build, FileUnchanged, StreamUnchanged, Idle, Store!PutTrie, Store!Give
<1>2. ASSUME NEW h \in Handles, Clear(h) PROVE Store!DropTrie(h)
  BY <1>2 DEF Clear, FileUnchanged, StreamUnchanged, Idle, Store!DropTrie, Store!Give
<1>3. ASSUME NEW h \in Handles, Save(h) PROVE Store!StartOver
  <2>1. pending' # <<>>
    BY <1>3, LastOfTrie DEF Save, FileInv, FileTypeOK
  <2>2. (cut' \/ ~Idle') = TRUE
    BY <2>1 DEF Idle
  <2> QED BY <1>3, <2>2 DEF Save, Store!StartOver
<1>4. ASSUME NEW h \in Handles, Write(h) PROVE Store!StartAppending
  <2>1. pending' # <<>>
    BY <1>4, LastOfTrie DEF Write, FileInv, FileTypeOK
  <2>2. (cut' \/ ~Idle') = TRUE
    BY <2>1 DEF Idle
  <2> QED BY <1>4, <2>2 DEF Write, StreamUnchanged, Store!StartAppending
<1>5. ASSUME NEW h \in Handles, Load(h) \/ Map(h) PROVE Store!LoadFirst(h)
  <2>1. PICK after : (after = mapped \ {h} \/ after = mapped \cup {h}) /\ LoadAs(h, after)
    BY <1>5 DEF Load, Map
  <2>2. written # <<>> /\ handles' = [handles EXCEPT ![h] = written[1]]
    BY <2>1, LoadKeepsInv
  <2>3. Head(written) = written[1]
    BY <2>2 DEF FileInv, FileTypeOK
  <2>4. FileUnchanged /\ StreamUnchanged /\ mapped' = after
    BY <2>1 DEF LoadAs
  <2> QED BY <2>1, <2>2, <2>3, <2>4
          DEF FileUnchanged, StreamUnchanged, Idle, Store!LoadFirst, Store!Give
<1>6. ASSUME NEW h \in Handles, Read(h) PROVE Store!ReadNext(h) \/ UNCHANGED Store!storeVars
  <2>1. \/ /\ taken < Len(written) /\ taken' = taken + 1 /\ mapped' = mapped \ {h}
           /\ handles' = [handles EXCEPT ![h] = written[taken + 1]]
        \/ UNCHANGED <<handles, mapped, taken>>
    BY <1>6, ReadKeepsInv
  <2>2. FileUnchanged
    BY <1>6 DEF Read
  <2> QED BY <2>1, <2>2 DEF FileUnchanged, Idle, Store!ReadNext, Store!Give
<1>7. ASSUME NEW g \in Handles, NEW h \in Handles, Swap(g, h) PROVE Store!Exchange(g, h)
  BY <1>7 DEF Swap, FileUnchanged, StreamUnchanged, Idle, Store!Exchange
<1>8. CASE WritePart
  <2>1. pending # <<>> /\ pending' = Tail(pending) /\ pending \in Seq(Seq(Nat))
    BY <1>8 DEF WritePart, Idle, FileInv, FileTypeOK
  <2>2. PICK n \in Nat : n = Len(pending) /\ n # 0
    BY <2>1, EmptySeq
  <2>3. pending' = <<>> <=> n = 1
    <3>1. PICK t \in Seq(Seq(Nat)) : t = Tail(pending) /\ Len(t) = n - 1
      <4>1. Tail(pending) \in Seq(Seq(Nat)) /\ Len(Tail(pending)) = Len(pending) - 1
        BY <2>1, HeadTailProperties
      <4> QED BY <2>2, <4>1
    <3>2. t = <<>> => Len(t) = 0
      BY EmptySeq
    <3>3. t # <<>> => Len(t) # 0
      BY EmptySeq
    <3>4. n - 1 = 0 <=> n = 1
      BY ONLY n \in Nat
    <3> QED BY <2>1, <3>1, <3>2, <3>3, <3>4
  <2>4. UNCHANGED <<handles, mapped, writer, cut, taken>>
    BY <1>8 DEF WritePart, StreamUnchanged
  <2>5. CASE n = 1
    <3>1. pending' = <<>>
      BY <2>3, <2>5
    <3>2. written' = Append(written, handles[writer])
      BY <1>8, <2>2, <2>5 DEF WritePart
    <3>3. ~cut /\ handles[writer] \in Tries
      <4>1. PICK trie : trie = handles[writer]
        OBVIOUS
      <4>2. \E a : EndsWith(file, a, pending, cut, trie)
        BY <4>1 DEF FileInv, FileState
      <4> QED BY <2>1, <4>1, <4>2 DEF EndsWith
    <3>4. writer \in Handles /\ handles[writer] # NoTrie
      BY <3>3, TriesAssumption DEF FileInv, FileTypeOK
    <3>5. (cut \/ ~Idle) /\ (cut' \/ ~Idle') = FALSE
      BY <2>1, <2>4, <3>1, <3>3 DEF Idle
    <3>6. Store!Complete(writer)
      BY <2>4, <3>2, <3>4, <3>5 DEF Store!Complete
    <3> QED BY <3>4, <3>6
  <2>6. CASE n # 1
    <3>1. pending' # <<>>
      BY <2>3, <2>6
    <3>2. written' = written
      BY <1>8, <2>2, <2>6 DEF WritePart
    <3>3. (cut \/ ~Idle) = (cut' \/ ~Idle')
      BY <2>1, <3>1 DEF Idle
    <3> QED BY <2>4, <3>2, <3>3
  <2> QED BY <2>5, <2>6
<1>9. CASE WriteFails
  <2>1. (cut \/ ~Idle) = (cut' \/ ~Idle')
    BY <1>9 DEF WriteFails, Idle
  <2> QED BY <1>9, <2>1 DEF WriteFails, StreamUnchanged
<1>10. CASE Crash
  <2>1. (cut \/ ~Idle) = (cut' \/ ~Idle')
    BY <1>10 DEF Crash, Idle
  <2>2. Store!Restart
    BY <1>10, <2>1 DEF Crash, Store!Restart
  <2> QED BY <2>2
<1>11. CASE Rewind
  BY <1>11 DEF Rewind, FileUnchanged, Idle, Store!Reopen
<1>12. CASE UNCHANGED fileVars
  BY <1>12 DEF fileVars, Idle
<1>13. CASE \E h \in Handles : Build(h) \/ Clear(h) \/ Save(h) \/ Write(h)
                               \/ Load(h) \/ Map(h) \/ Read(h)
  BY <1>1, <1>2, <1>3, <1>4, <1>5, <1>6, <1>13
<1>14. CASE \E g, h \in Handles : Swap(g, h)
  BY <1>7, <1>14
<1> QED BY <1>8, <1>9, <1>10, <1>11, <1>12, <1>13, <1>14 DEF NextFile

\* The handles, files and streams of Trie are those of TrieStore: tries are loaded
\* whole or not at all, and saving is opening, parts that do not show, and one step
\* that completes the trie.
THEOREM FilesImplementStore == SpecFile => FileImplementsStore
<1>1. InitFile => Store!StoreInit
  BY InitIsStoreInit
<1>2. FileInv /\ [NextFile]_fileVars => [Store!StoreNext]_Store!storeVars
  BY StepIsStoreStep
<1> QED BY <1>1, <1>2, FileInvariant, PTL DEF SpecFile, FileImplementsStore, Store!StoreSpec

---------------------------------------------------------------------------
(* io_size.                                                                *)

\* What a vector is padded to.
LEMMA PaddedLength ==
  ASSUME NEW n \in Nat, NEW a \in Nat \ {0}
  PROVE  n + ((-n) % a) = ((n + a - 1) \div a) * a
<1>1. PICK q \in Int, r \in 0 .. a - 1 : n + a - 1 = a * q + r /\ q = (n + a - 1) \div a
  <2>1. n + a - 1 \in Nat
    OBVIOUS
  <2>2. PICK m \in Nat : m = n + a - 1
    BY <2>1
  <2>3. m \div a \in Int /\ m % a \in 0 .. a - 1 /\ m = a * (m \div a) + (m % a)
    BY DivModNat
  <2> QED BY <2>2, <2>3
<1>2. PICK t \in 0 .. a - 1 : t = (a - 1) - r
  OBVIOUS
<1>3. PICK p \in Int : p = a * q
  OBVIOUS
<1>4. n = p - t
  BY <1>1, <1>2, <1>3
<1>5. a * (-q) = -p
  BY <1>3
<1>6. PICK k \in Int : k = -q
  OBVIOUS
<1>7. (a * k + t) % a = t
  BY DivModOf
<1>8. a * k + t = -n
  BY <1>4, <1>5, <1>6
<1>9. (-n) % a = t
  BY <1>7, <1>8
<1>10. q * a = p
  BY <1>3
<1>11. n + t = p
  BY <1>4
<1> QED BY <1>1, <1>9, <1>10, <1>11

\* A member takes what io_size counts for it.
LEMMA ItemSizes ==
  ASSUME NEW level \in Levels, Accepted(level), NEW item \in Items
  PROVE  ItemIoSize(level, item) \in Nat /\ Len(ItemCells(level, item)) = ItemIoSize(level, item)
<1>1. PICK v \in Seq(Nat) : v = level[item]
  BY DEF Levels
<1>2. CASE IsVector(item)
  <2>1. PICK n \in Nat, p \in Nat, a \in Nat \ {0} :
          n = Len(v) /\ p = Padding(Len(v)) /\ a = AlignCells
    BY LenProperties, PaddingTyped, CellsAssumption
  <2>2. Len(VectorCells(v)) = (2 + n) + p
    BY <2>1, VectorCellsAre
  <2>3. p = (-n) % a
    BY <2>1 DEF Padding
  <2>4. PICK s : s = ((n + a - 1) \div a) * a
    OBVIOUS
  <2>5. n + p = s
    BY <2>3, <2>4, PaddedLength
  <2>6. VectorIoSize(v) = 2 + s
    BY <2>1, <2>4 DEF VectorIoSize
  <2>7. 2 + s \in Nat /\ (2 + n) + p = 2 + s
    BY <2>5
  <2> QED BY <1>1, <1>2, <2>2, <2>6, <2>7 DEF ItemCells, ItemIoSize
<1>3. CASE ~IsVector(item)
  <2>1. Len(v) = WordCells(item)
    BY <1>1, <1>3 DEF Accepted
  <2> QED BY <1>1, <1>3, <2>1, LenProperties DEF ItemCells, ItemIoSize
<1> QED BY <1>2, <1>3

\* A level has finitely many members.
LEMMA ItemsFinite == IsFiniteSet(Items)
<1>1. ASSUME NEW s, NEW S, Listed(s, S) PROVE IsFiniteSet(S)
  <2>1. PICK n \in Nat : n = Len(s) /\ DOMAIN s = 1 .. n
    BY <1>1, LenProperties DEF Listed
  <2>2. s \in [1 .. n -> S]
    BY <1>1, <2>1, LenProperties DEF Listed
  <2>3. \A y \in S : \E x \in 1 .. n : s[x] = y
    BY <1>1, <2>1 DEF Listed, Range
  <2>4. s \in Surjection(1 .. n, S)
    BY <2>2, <2>3 DEF Surjection
  <2>5. IsFiniteSet(1 .. n)
    BY FS_Interval
  <2> QED BY <2>4, <2>5, FS_Surjection
<1>2. IsFiniteSet(HeadSet) /\ IsFiniteSet(TailSet)
  BY <1>1, HeadListed, TailListed
<1> QED BY <1>2, ItemsAre, FS_Union

\* The sizes of a level's members, and what some of them add up to.
SizesOf(level) == [item \in Items |-> ItemIoSize(level, item)]

\* io_size of a level adds them up.
LEMMA LevelSizes ==
  ASSUME NEW level \in Levels, Accepted(level)
  PROVE  /\ SizesOf(level) \in [Items -> Int]
         /\ \E g : SumsUp(g, SizesOf(level), Items) /\ LevelIoSize(level) = g[Items]
<1> DEFINE S == Items
           f == SizesOf(level)
           Adds(g) == [s \in SUBSET S |->
                         IF s = {} THEN 0
                         ELSE ItemIoSize(level, CHOOSE x \in s : TRUE)
                              + g[s \ {CHOOSE x \in s : TRUE}]]
           sum == CHOOSE g : g = Adds(g)
<1>1. LevelIoSize(level) = sum[S]
  BY DEF LevelIoSize, MapThenSumSet, MapThenFoldSet
<1>2. f \in [S -> Int]
  BY ItemSizes DEF SizesOf
<1>3. \A g : g = Adds(g) <=> SumsUp(g, f, S)
  <2> SUFFICES ASSUME NEW g
               PROVE  Adds(g) = [s \in SUBSET S |-> IF s = {} THEN 0
                                                  ELSE f[SomeOf(s)] + g[s \ {SomeOf(s)}]]
    BY DEF SumsUp
  <2>1. ASSUME NEW s \in SUBSET S, s # {}
        PROVE  f[SomeOf(s)] = ItemIoSize(level, CHOOSE x \in s : TRUE)
    BY <2>1 DEF SomeOf, SizesOf
  <2> QED BY <2>1 DEF SomeOf
<1>4. SumsUp(sum, f, S)
  <2>1. PICK g : SumsUp(g, f, S)
    <3> HIDE DEF f
    <3> QED BY <1>2, ItemsFinite, SumExists
  <2>2. \E h : h = Adds(h)
    <3> HIDE DEF Adds
    <3> QED BY <1>3, <2>1
  <2>3. sum = Adds(sum)
    <3> HIDE DEF Adds
    <3> QED BY <2>2
  <2> HIDE DEF sum, Adds, f
  <2> QED BY <1>3, <2>3
<1> QED BY <1>1, <1>2, <1>4

\* The members of a list up to one of them.
FirstOf(items, i) == {items[j] : j \in 1 .. i}

\* What the members S count for after those in K.
Takes(n, g, K, S) == n = g[K \cup S] - g[K]

\* Members of a level that lie in the file take what io_size counts for them;
\* those in K are counted already.
LEMMA PartsSizes ==
  ASSUME NEW cells, NEW level \in Levels, Accepted(level), NEW K \in SUBSET Items,
         NEW S \in SUBSET Items, K \cap S = {}, NEW items, Listed(items, S),
         NEW g, SumsUp(g, SizesOf(level), Items), NEW a \in Int, NEW b \in Int,
         Laid(cells, a, LevelParts(level, items), b)
  PROVE  Takes(b - a, g, K, S)
<1>1. items \in Seq(Items) /\ items \in Seq(S)
  BY SeqMonotonic DEF Listed
<1>2. PICK n \in Nat : n = Len(items) /\ DOMAIN items = 1 .. n
  BY <1>1, LenProperties
<1>3. PICK parts : parts = LevelParts(level, items)
  OBVIOUS
<1>4. /\ parts \in Seq(Seq(Nat)) /\ Len(parts) = n
      /\ \A i \in 1 .. n : /\ items[i] \in Items
                           /\ Len(parts[i]) = ItemIoSize(level, items[i])
                           /\ ItemIoSize(level, items[i]) \in Nat
  BY <1>1, <1>2, <1>3, LevelPartsTyped, ItemSizes
<1>5. PICK o : LaidAt(cells, o, parts, n) /\ o[0] = a /\ o[n] = b
  BY <1>3, <1>4 DEF Laid
<1>6. /\ \A s \in SUBSET Items : g[s] \in Int
      /\ \A s \in SUBSET Items : \A x \in s : g[s] = SizesOf(level)[x] + g[s \ {x}]
  <2>1. SizesOf(level) \in [Items -> Int]
    BY LevelSizes
  <2>2. PICK f : f = SizesOf(level)
    OBVIOUS
  <2>3. PICK V : V = Items
    OBVIOUS
  <2>4. IsFiniteSet(V) /\ f \in [V -> Int] /\ SumsUp(g, f, V)
    BY <2>1, <2>2, <2>3, ItemsFinite
  <2>5. /\ g[{}] = 0
        /\ \A s \in SUBSET V : g[s] \in Int
        /\ \A s \in SUBSET V : \A x \in s : g[s] = f[x] + g[s \ {x}]
    BY ONLY <2>4, SumAdds
  <2> QED BY <2>2, <2>3, <2>5
<1>7. ASSUME NEW i \in 1 .. n
      PROVE  /\ items[i] \in S
             /\ K \cup FirstOf(items, i) \in SUBSET Items
             /\ g[K \cup FirstOf(items, i)]
                  = ItemIoSize(level, items[i]) + g[K \cup FirstOf(items, i - 1)]
  <2>1. \A j \in 1 .. n : items[j] \in S
    BY <1>1, <1>2, ElementOfSeq
  <2>2. \A j \in 1 .. i : j \in 1 .. n /\ (j # i => j \in 1 .. i - 1)
    OBVIOUS
  <2>3. \A j \in 1 .. i - 1 : j \in 1 .. n /\ j # i /\ j \in 1 .. i
    OBVIOUS
  <2>4. \A j \in 1 .. i - 1 : items[j] # items[i]
    BY <1>2, <2>3 DEF Listed
  <2>5. K \cup FirstOf(items, i) \in SUBSET Items
    BY <2>1, <2>2 DEF FirstOf
  <2>6. i \in 1 .. i /\ items[i] \in K \cup FirstOf(items, i)
    BY DEF FirstOf
  <2>7. items[i] \notin K
    BY <2>1
  <2>8. (K \cup FirstOf(items, i)) \ {items[i]} = K \cup FirstOf(items, i - 1)
    BY <2>2, <2>3, <2>4, <2>6, <2>7 DEF FirstOf
  <2>9. SizesOf(level)[items[i]] = ItemIoSize(level, items[i])
    BY <1>4 DEF SizesOf
  <2>10. PICK X, x : X = K \cup FirstOf(items, i) /\ x = items[i]
    OBVIOUS
  <2>11. X \in SUBSET Items /\ x \in X /\ X \ {x} = K \cup FirstOf(items, i - 1)
    BY <2>5, <2>6, <2>8, <2>10
  <2>12. g[X] = SizesOf(level)[x] + g[X \ {x}]
    BY <1>6, <2>11
  <2> QED BY <2>1, <2>5, <2>9, <2>10, <2>11, <2>12
<1>8. \A i \in 0 .. n : K \cup FirstOf(items, i) \in SUBSET Items
  <2> TAKE i \in 0 .. n
  <2>1. CASE i = 0
    <3>1. 1 .. 0 = {}
      OBVIOUS
    <3> QED BY <2>1, <3>1 DEF FirstOf
  <2>2. CASE i # 0
    <3>1. i \in 1 .. n
      BY <2>2
    <3> QED BY <1>7, <3>1
  <2> QED BY <2>1, <2>2
<1> DEFINE Bad == {i \in 0 .. n : o[i] - a # g[K \cup FirstOf(items, i)] - g[K]}
<1>9. Bad = {}
  <2> SUFFICES ASSUME Bad # {} PROVE FALSE
    OBVIOUS
  <2>1. PICK i \in Bad : \A j \in Bad : i <= j
    <3>1. Bad \subseteq Nat
      OBVIOUS
    <3> HIDE DEF Bad
    <3> QED BY <3>1, LeastElement
  <2>2. i # 0
    <3> SUFFICES ASSUME i = 0 PROVE FALSE
      OBVIOUS
    <3>1. FirstOf(items, 0) = {}
      <4>1. 1 .. 0 = {}
        OBVIOUS
      <4> QED BY <4>1 DEF FirstOf
    <3>2. K \cup FirstOf(items, 0) = K
      BY <3>1
    <3>3. g[K] \in Int
      BY <1>6
    <3>4. o[0] - a = 0 /\ g[K] - g[K] = 0
      BY <1>5, <3>3
    <3> QED BY <2>1, <3>2, <3>4
  <2>3. i \in 1 .. n /\ i - 1 \in 0 .. n /\ ~(i <= i - 1) /\ i \in 0 .. n
    BY <2>1, <2>2
  <2>4. o[i - 1] - a = g[K \cup FirstOf(items, i - 1)] - g[K]
    BY <2>1, <2>3
  <2>5. o[i] = o[i - 1] + ItemIoSize(level, items[i]) /\ o[i] \in Nat /\ o[i - 1] \in Nat
    BY <1>4, <1>5, <2>3 DEF LaidAt
  <2>6. PICK x \in Int, y \in Int, z \in Int, u \in Int, v \in Int, w \in Int :
          /\ x = g[K \cup FirstOf(items, i - 1)] /\ y = g[K \cup FirstOf(items, i)]
          /\ z = g[K] /\ u = o[i - 1] /\ v = o[i] /\ w = ItemIoSize(level, items[i])
    <3>1. g[K \cup FirstOf(items, i - 1)] \in Int /\ g[K \cup FirstOf(items, i)] \in Int
      BY <1>6, <1>8, <2>3
    <3>2. g[K] \in Int
      BY <1>6
    <3>3. o[i - 1] \in Int /\ o[i] \in Int /\ ItemIoSize(level, items[i]) \in Int
      BY SMTT(30), <1>4, <2>3, <2>5
    <3> QED BY <3>1, <3>2, <3>3
  <2>7. u - a = x - z /\ v = u + w /\ y = w + x
    BY <1>7, <2>3, <2>4, <2>5, <2>6
  <2>8. v - a = y - z
    BY <2>7
  <2> QED BY <2>1, <2>6, <2>8
<1>10. n \in 0 .. n /\ FirstOf(items, n) = S
  <2>1. Range(items) = S
    BY DEF Listed
  <2> QED BY <1>2, <2>1 DEF FirstOf, Range
<1> QED BY <1>5, <1>9, <1>10 DEF Takes

\* Members before and after the levels below: the space of a level.
LEMMA LevelSize ==
  ASSUME NEW cells, NEW level \in Levels, Accepted(level),
         NEW a \in Int, NEW c \in Int, NEW d \in Int, NEW b \in Int,
         Laid(cells, a, LevelParts(level, HeadItems), c), Laid(cells, d, LevelParts(level, TailItems), b)
  PROVE  LevelIoSize(level) \in Int /\ (c - a) + (b - d) = LevelIoSize(level)
<1>1. PICK g : SumsUp(g, SizesOf(level), Items) /\ LevelIoSize(level) = g[Items]
  BY LevelSizes
<1>2. PICK H \in SUBSET Items, T \in SUBSET Items, E \in SUBSET Items :
        H = HeadSet /\ T = TailSet /\ E = {}
  BY ItemsTyped
<1>3. E \cap H = {} /\ E \cup H = H /\ H \cap T = {} /\ H \cup T = Items
  BY <1>2, ItemsAre
<1>4. Listed(HeadItems, H) /\ Listed(TailItems, T)
  BY <1>2, HeadListed, TailListed
<1>5. Takes(c - a, g, E, H)
  BY <1>1, <1>3, <1>4, PartsSizes
<1>6. Takes(b - d, g, H, T)
  BY <1>1, <1>3, <1>4, PartsSizes
<1>7. g[E] = 0 /\ g[H] \in Int /\ g[Items] \in Int
  <2>1. PICK V, f : V = Items /\ f = SizesOf(level)
    OBVIOUS
  <2>2. IsFiniteSet(V) /\ f \in [V -> Int] /\ SumsUp(g, f, V)
    BY <1>1, <2>1, ItemsFinite, LevelSizes
  <2>3. /\ g[{}] = 0
        /\ \A s \in SUBSET V : g[s] \in Int
        /\ \A s \in SUBSET V : \A x \in s : g[s] = f[x] + g[s \ {x}]
    BY ONLY <2>2, SumAdds
  <2>4. Items \in SUBSET Items
    OBVIOUS
  <2> QED BY <1>2, <2>1, <2>3, <2>4
<1>8. PICK x \in Int, y \in Int : x = g[H] /\ y = g[Items]
  BY <1>7
<1>9. c - a = x - 0 /\ b - d = y - x
  BY <1>3, <1>5, <1>6, <1>7, <1>8 DEF Takes
<1>10. (c - a) + (b - d) = y
  BY <1>9
<1> QED BY <1>1, <1>8, <1>10

\* The sizes of the levels of a trie.
LevelSizesOf(trie) == [l \in 1 .. Len(trie) |-> LevelIoSize(trie[l])]

\* io_size of a trie adds those up.
LEMMA TrieSizes ==
  ASSUME NEW trie \in Tries, NEW n \in Nat, n = Len(trie)
  PROVE  /\ LevelSizesOf(trie) \in [1 .. n -> Int]
         /\ \E g : /\ SumsUp(g, LevelSizesOf(trie), 1 .. n)
                   /\ IoSize(trie) = Len(HeaderCells) + g[1 .. n]
<1> DEFINE S == 1 .. n
           f == LevelSizesOf(trie)
           Adds(g) == [s \in SUBSET S |->
                         IF s = {} THEN 0
                         ELSE LevelIoSize(trie[CHOOSE x \in s : TRUE])
                              + g[s \ {CHOOSE x \in s : TRUE}]]
           sum == CHOOSE g : g = Adds(g)
<1>0. DOMAIN trie = S
  BY LevelOfTrie
<1>1. IoSize(trie) = Len(HeaderCells) + sum[S]
  BY <1>0 DEF IoSize, MapThenSumSet, MapThenFoldSet
<1>2. f \in [S -> Int] /\ IsFiniteSet(S)
  <2>1. ASSUME NEW l \in 1 .. n PROVE LevelIoSize(trie[l]) \in Int
    <3>1. PICK level \in Levels : level = trie[l] /\ Accepted(level)
      BY LevelOfTrie
    <3>2. PICK g : SumsUp(g, SizesOf(level), Items) /\ LevelIoSize(level) = g[Items]
      BY <3>1, LevelSizes
    <3>3. PICK V, e : V = Items /\ e = SizesOf(level)
      OBVIOUS
    <3>4. IsFiniteSet(V) /\ e \in [V -> Int] /\ SumsUp(g, e, V)
      BY <3>1, <3>2, <3>3, ItemsFinite, LevelSizes
    <3>5. /\ g[{}] = 0
          /\ \A s \in SUBSET V : g[s] \in Int
          /\ \A s \in SUBSET V : \A x \in s : g[s] = e[x] + g[s \ {x}]
      BY ONLY <3>4, SumAdds
    <3>6. V \in SUBSET V
      OBVIOUS
    <3> QED BY <3>1, <3>2, <3>3, <3>5, <3>6
  <2>2. IsFiniteSet(1 .. n)
    BY FS_Interval
  <2> QED BY <2>1, <2>2 DEF LevelSizesOf
<1> HIDE DEF S
<1>3. \A g : g = Adds(g) <=> SumsUp(g, f, S)
  <2> SUFFICES ASSUME NEW g
               PROVE  Adds(g) = [s \in SUBSET S |-> IF s = {} THEN 0
                                                  ELSE f[SomeOf(s)] + g[s \ {SomeOf(s)}]]
    BY DEF SumsUp
  <2>1. ASSUME NEW s \in SUBSET S, s # {}
        PROVE  f[SomeOf(s)] = LevelIoSize(trie[CHOOSE x \in s : TRUE])
    BY <2>1 DEF SomeOf, LevelSizesOf, S
  <2> QED BY <2>1 DEF SomeOf
<1>4. SumsUp(sum, f, S)
  <2>1. PICK g : SumsUp(g, f, S)
    <3> HIDE DEF f
    <3> QED BY <1>2, SumExists
  <2>2. \E h : h = Adds(h)
    <3> HIDE DEF Adds
    <3> QED BY <1>3, <2>1
  <2>3. sum = Adds(sum)
    <3> HIDE DEF Adds
    <3> QED BY <2>2
  <2> HIDE DEF sum, Adds, f
  <2> QED BY <1>3, <2>3
<1> QED BY <1>1, <1>2, <1>4 DEF S

\* A level and those below it take what io_size counts for them.
LevelsTake(cells, P, g, n) ==
  \A l \in 1 .. n : \A a, b \in Int : Laid(cells, a, P[l], b) => b - a = g[l .. n]

\* Level by level, from the last one up.
LEMMA LevelsSizes ==
  ASSUME NEW cells, NEW trie \in Tries, NEW n \in Nat, n = Len(trie), NEW P, LevelsRun(P, trie),
         NEW g, SumsUp(g, LevelSizesOf(trie), 1 .. n)
  PROVE  LevelsTake(cells, P, g, n)
<1>1. /\ g[{}] = 0
      /\ \A s \in SUBSET (1 .. n) : g[s] \in Int
      /\ \A s \in SUBSET (1 .. n) : \A x \in s : g[s] = LevelSizesOf(trie)[x] + g[s \ {x}]
  <2>1. PICK V, f : V = 1 .. n /\ f = LevelSizesOf(trie)
    OBVIOUS
  <2>2. IsFiniteSet(V) /\ f \in [V -> Int] /\ SumsUp(g, f, V)
    <3>1. IsFiniteSet(1 .. n)
      BY FS_Interval
    <3>2. LevelSizesOf(trie) \in [1 .. n -> Int]
      BY TrieSizes
    <3> QED BY <2>1, <3>1, <3>2
  <2>3. /\ g[{}] = 0
        /\ \A s \in SUBSET V : g[s] \in Int
        /\ \A s \in SUBSET V : \A x \in s : g[s] = f[x] + g[s \ {x}]
    BY ONLY <2>2, SumAdds
  <2> QED BY <2>1, <2>3
<1> DEFINE Right(l) == \A a, b \in Int : Laid(cells, a, P[l], b) => b - a = g[l .. n]
\* A level is right when the one below is.
<1>2. ASSUME NEW l \in 1 .. n, l < n => Right(l + 1)
      PROVE  Right(l)
  <2> SUFFICES ASSUME NEW a \in Int, NEW b \in Int, Laid(cells, a, P[l], b)
               PROVE  b - a = g[l .. n]
    OBVIOUS
  <2>1. PICK level \in Levels : level = trie[l] /\ Accepted(level)
    BY LevelOfTrie
  <2>2. PICK A \in Seq(Seq(Nat)), C \in Seq(Seq(Nat)) :
          A = LevelParts(level, HeadItems) /\ C = LevelParts(level, TailItems)
    BY <2>1, ItemsTyped, LevelPartsTyped
  <2>3. PICK M \in Seq(Seq(Nat)) : M = IF l < n THEN P[l + 1] ELSE <<>>
    <3>1. l < n => P[l + 1] \in Seq(Seq(Nat))
      <4> HAVE l < n
      <4>1. l + 1 \in 1 .. n
        OBVIOUS
      <4> QED BY <4>1 DEF LevelsRun
    <3>2. <<>> \in Seq(Seq(Nat))
      BY EmptySeq
    <3> QED BY <3>1, <3>2
  <2>4. P[l] = (A \o M) \o C
    BY <2>1, <2>2, <2>3 DEF LevelsRun
  <2>5. A \o M \in Seq(Seq(Nat))
    BY ConcatProperties
  <2>6. PICK d \in Nat : Laid(cells, a, A \o M, d) /\ Laid(cells, d, C, b)
    BY <2>4, <2>5, LaidSplits
  <2>7. PICK c \in Nat : Laid(cells, a, A, c) /\ Laid(cells, c, M, d)
    BY <2>6, LaidSplits
  <2>8. PICK s \in Int : s = LevelIoSize(level) /\ (c - a) + (b - d) = s
    BY <2>1, <2>2, <2>6, <2>7, LevelSize
  <2>9. l .. n \in SUBSET (1 .. n) /\ l \in l .. n /\ (l .. n) \ {l} = l + 1 .. n
        /\ l + 1 .. n \in SUBSET (1 .. n)
    OBVIOUS
  <2>10. g[l .. n] = s + g[l + 1 .. n] /\ g[l + 1 .. n] \in Int
    <3>1. PICK X : X = l .. n
      OBVIOUS
    <3>2. g[X] = LevelSizesOf(trie)[l] + g[X \ {l}]
      BY <1>1, <2>9, <3>1
    <3>3. LevelSizesOf(trie)[l] = s
      BY <2>1, <2>8 DEF LevelSizesOf
    <3> QED BY <1>1, <2>9, <3>1, <3>2, <3>3
  <2>11. d - c = g[l + 1 .. n]
    <3>1. CASE l < n
      <4>1. M = P[l + 1] /\ Right(l + 1) /\ c \in Int /\ d \in Int
        BY <1>2, <2>3, <3>1
      <4> QED BY <2>7, <4>1
    <3>2. CASE ~(l < n)
      <4>1. M = <<>>
        BY <2>3, <3>2
      <4>2. c = d
        BY <2>7, <4>1, LaidNothing
      <4>3. l + 1 .. n = {}
        BY <3>2
      <4>4. d - c = 0 /\ g[{}] = 0
        BY <1>1, <4>2
      <4>5. g[l + 1 .. n] = g[{}]
        BY <4>3
      <4> QED BY <4>4, <4>5
    <3> QED BY <3>1, <3>2
  <2>12. PICK x \in Int : x = g[l + 1 .. n]
    BY <2>10
  <2>13. b - a = s + x
    BY <2>8, <2>11, <2>12
  <2> QED BY <2>10, <2>12, <2>13
<1> DEFINE Bad == {k \in 0 .. n - 1 : ~Right(n - k)}
<1>3. Bad = {}
  <2> SUFFICES ASSUME Bad # {} PROVE FALSE
    OBVIOUS
  <2>1. PICK k \in Bad : \A j \in Bad : k <= j
    <3>1. Bad \subseteq Nat
      OBVIOUS
    <3> HIDE DEF Bad
    <3> QED BY <3>1, LeastElement
  <2>2. PICK l \in 1 .. n : l = n - k
    OBVIOUS
  <2>3. l < n => Right(l + 1)
    <3> HAVE l < n
    <3>1. k - 1 \in 0 .. n - 1 /\ ~(k <= k - 1) /\ n - (k - 1) = l + 1
      BY <2>2
    <3>2. k - 1 \notin Bad
      BY <2>1, <3>1
    <3> HIDE DEF Right
    <3> QED BY <3>1, <3>2
  <2>4. ~Right(l)
    BY <2>1, <2>2
  <2> HIDE DEF Right, Bad
  <2> QED BY <1>2, <2>3, <2>4
<1>4. \A l \in 1 .. n : Right(l)
  <2> TAKE l \in 1 .. n
  <2>1. n - l \in 0 .. n - 1 /\ n - (n - l) = l
    OBVIOUS
  <2> HIDE DEF Right
  <2> QED BY <1>3, <2>1
<1> QED BY <1>4 DEF LevelsTake

\* A trie takes its io_size.
LEMMA TrieSize ==
  ASSUME NEW cells, NEW trie \in Tries, NEW a \in Nat, NEW b \in Nat,
         Laid(cells, a, TrieParts(trie), b)
  PROVE  b - a = IoSize(trie)
<1>1. PICK n \in Nat \ {0} : n = Len(trie)
  BY LevelOfTrie
<1>2. PICK h \in Nat : h = Len(HeaderCells)
  BY TriePartsAre, LenProperties
<1>3. PICK c \in Nat : Laid(cells, a, <<HeaderCells>>, c) /\ Laid(cells, c, LevelsParts(trie), b)
  <2>1. <<HeaderCells>> \in Seq(Seq(Nat))
    BY TriePartsAre
  <2> QED BY <2>1, TriePartsAre, LaidSplits
<1>4. c = a + h
  BY <1>2, <1>3, TriePartsAre, LaidOne
<1>5. PICK P : LevelsRun(P, trie)
  BY LevelsPartsRun
<1>6. PICK g : SumsUp(g, LevelSizesOf(trie), 1 .. n) /\ IoSize(trie) = h + g[1 .. n]
  <2>1. n \in Nat
    OBVIOUS
  <2> QED BY <1>1, <1>2, <2>1, TrieSizes
<1>7. b - c = g[1 .. n]
  <2>1. LevelsTake(cells, P, g, n)
    BY <1>1, <1>5, <1>6, LevelsSizes
  <2>2. 1 \in 1 .. n /\ c \in Int /\ b \in Int /\ P[1] = LevelsParts(trie)
    BY <1>5 DEF LevelsRun
  <2> QED BY <1>3, <2>1, <2>2 DEF LevelsTake
<1>8. b - a = h + (b - c)
  BY <1>4
<1> QED BY <1>6, <1>7, <1>8

\* Between writes, for every trie of the file.
LEMMA InvSizes == FileInv => IoSizeIsWritten
<1> SUFFICES ASSUME FileInv PROVE IoSizeIsWritten
  OBVIOUS
<1>1. file \in Seq(Nat) /\ written \in Seq(Tries)
  BY DEF FileInv, FileTypeOK
<1>2. PICK n \in Nat : n = Len(written) /\ DOMAIN written = 1 .. n
  BY <1>1, LenProperties
<1>3. PICK e : FileHolds(file, written, e)
  BY DEF FileInv, FileState
<1>4. \A k \in 0 .. n : EndOf[k] = e[k]
  BY <1>1, <1>2, <1>3, EndsAre
<1>5. ASSUME NEW k \in 1 .. n PROVE EndOf[k] - EndOf[k - 1] = IoSize(written[k])
  <2>1. k \in 0 .. n /\ k - 1 \in 0 .. n
    OBVIOUS
  <2>2. PICK t \in Tries : t = written[k]
    BY <1>1, <1>2, ElementOfSeq
  <2>3. e[k] \in Nat /\ e[k - 1] \in Nat
    BY <1>1, <1>2, <1>3, <2>1, HoldsWithin
  <2>4. Laid(file, e[k - 1], TrieParts(t), e[k])
    BY <1>2, <1>3, <2>2 DEF FileHolds
  <2>5. e[k] - e[k - 1] = IoSize(t)
    BY <2>3, <2>4, TrieSize
  <2> QED BY <1>4, <2>1, <2>2, <2>5
<1> QED BY <1>2, <1>5 DEF IoSizeIsWritten

\* io_size is the number of cells that writing a trie takes, headers, padding and
\* all levels included.
THEOREM IoSizeCorrect == SpecFile => []IoSizeIsWritten
<1> QED BY InvSizes, FileInvariant, PTL

===========================================================================
