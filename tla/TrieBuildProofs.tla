-------------------------- MODULE TrieBuildProofs --------------------------
(***************************************************************************)
(* Proofs about the build of a trie, for any keys, labels and config.      *)
(*                                                                         *)
(* One level: the builder works on a sorted array and on ranges of it.  A  *)
(* range holds the keys that extend what its node spells, sorting makes    *)
(* the keys that stop at the node come first and keeps each next character *)
(* together, and therefore the groups of a range are again such ranges.    *)
(*                                                                         *)
(* All levels: on the way down each level that is finished holds the keys  *)
(* it was given, once its links are read as the strings passed below; the  *)
(* tail gives back its entries; on the way back each level's links get the *)
(* places of those strings.  At the end the strings passed below are what  *)
(* the level below spells backwards, so the levels spell the keyset.       *)
(***************************************************************************)
EXTENDS TrieBuild, ProofLemmas, SequenceTheorems

---------------------------------------------------------------------------
(* Sorted keys and ranges of them.                                         *)

KeysTyped == keys \in Seq(KeyType)

SortedKeys == \A i, j \in DOMAIN keys : i < j => StrLeq(keys[i].str, keys[j].str)

\* The keys begin .. end - 1 are those that begin with the same n characters.
Extensions(begin, end, n) ==
  \A i \in begin .. end - 1 :
    /\ i \in DOMAIN keys
    /\ Len(keys[i].str) >= n
    /\ \A j \in DOMAIN keys :
         j \in begin .. end - 1 <=>
           /\ Len(keys[j].str) >= n
           /\ \A q \in 1 .. n : keys[j].str[q] = keys[i].str[q]

\* The places of keys are numbers from 1, their characters labels.
LEMMA KeyFacts ==
  ASSUME KeysTyped
  PROVE  /\ Len(keys) \in Nat /\ DOMAIN keys = 1 .. Len(keys)
         /\ \A i \in DOMAIN keys :
              /\ keys[i] \in KeyType
              /\ keys[i].str \in Strings
              /\ Len(keys[i].str) \in Nat
              /\ DOMAIN keys[i].str = 1 .. Len(keys[i].str)
              /\ \A q \in 1 .. Len(keys[i].str) :
                   keys[i].str[q] \in Labels /\ keys[i].str[q] \in Int
<1>1. Len(keys) \in Nat /\ DOMAIN keys = 1 .. Len(keys)
  BY DEF KeysTyped
<1>2. ASSUME NEW i \in DOMAIN keys
      PROVE  /\ keys[i] \in KeyType
             /\ keys[i].str \in Seq(Labels)
  <2>1. keys[i] \in KeyType
    BY <1>1 DEF KeysTyped
  <2> QED BY <2>1 DEF KeyType, Strings
<1>3. ASSUME NEW s \in Seq(Labels)
      PROVE  /\ Len(s) \in Nat /\ DOMAIN s = 1 .. Len(s)
             /\ \A q \in 1 .. Len(s) : s[q] \in Labels /\ s[q] \in Int
  BY LabelSizeAssumption DEF Labels
<1> QED BY <1>1, <1>2, <1>3 DEF Strings

\* Among keys that share n characters, the later one is not shorter than n+1
\* when the earlier one is longer, and its next character is not smaller.
LEMMA SortedPair ==
  ASSUME KeysTyped, SortedKeys, NEW n \in Nat,
         NEW i \in DOMAIN keys, NEW j \in DOMAIN keys, i < j,
         Len(keys[i].str) > n, Len(keys[j].str) >= n,
         \A q \in 1 .. n : keys[i].str[q] = keys[j].str[q]
  PROVE  Len(keys[j].str) > n /\ keys[i].str[n + 1] <= keys[j].str[n + 1]
<1> DEFINE a == keys[i].str
           b == keys[j].str
<1>1. /\ Len(a) \in Nat /\ Len(b) \in Nat
      /\ \A q \in 1 .. Len(a) : a[q] \in Int
      /\ \A q \in 1 .. Len(b) : b[q] \in Int
  BY KeyFacts
<1>2. StrLeq(a, b)
  BY DEF SortedKeys
<1> HIDE DEF a, b
<1>3. \A q \in 1 .. n : a[q] = b[q]
  BY DEF a, b
<1>4. Len(a) > n /\ Len(b) >= n
  BY DEF a, b
<1>5. CASE Len(a) <= Len(b) /\ \A q \in 1 .. Len(a) : a[q] = b[q]
  <2>1. Len(b) > n /\ a[n + 1] = b[n + 1] /\ a[n + 1] \in Int
    BY <1>1, <1>4, <1>5
  <2> QED BY <2>1 DEF a, b
<1>6. CASE \E k \in 1 .. Len(a) :
             /\ k <= Len(b) /\ a[k] < b[k] /\ \A q \in 1 .. k - 1 : a[q] = b[q]
  <2>1. PICK k \in 1 .. Len(a) :
             /\ k <= Len(b) /\ a[k] < b[k] /\ \A q \in 1 .. k - 1 : a[q] = b[q]
    BY <1>6
  <2>2. k > n
    BY <2>1, <1>1, <1>3
  <2>3. Len(b) > n /\ a[n + 1] <= b[n + 1]
    <3>1. CASE k = n + 1
      BY <3>1, <2>1, <1>1
    <3>2. CASE k > n + 1
      <4>1. n + 1 \in 1 .. k - 1 /\ n + 1 \in 1 .. Len(a) /\ Len(b) > n
        BY <3>2, <2>1, <1>1, <1>4
      <4> QED BY <4>1, <2>1, <1>1
    <3> QED BY <2>2, <3>1, <3>2
  <2> QED BY <2>3 DEF a, b
<1> QED BY <1>2, <1>5, <1>6 DEF StrLeq

\* The keys of a range that end at its node come first.
LEMMA AliveKeys ==
  ASSUME KeysTyped, SortedKeys, NEW r \in RangeType, r.begin <= r.end,
         r.end <= Len(keys) + 1,
         Extensions(r.begin, r.end, r.keyPos)
  PROVE  /\ FirstAlive(r) \in r.begin .. r.end
         /\ \A i \in r.begin .. FirstAlive(r) - 1 : Len(keys[i].str) = r.keyPos
         /\ \A i \in FirstAlive(r) .. r.end - 1 : Len(keys[i].str) > r.keyPos
<1> DEFINE Alive == {i \in r.begin .. r.end - 1 : Len(keys[i].str) # r.keyPos}
           a == FirstAlive(r)
<1>1. r.begin \in Nat \ {0} /\ r.end \in Nat \ {0} /\ r.keyPos \in Nat
  BY DEF RangeType
<1>2. /\ a \in Alive \cup {r.end}
      /\ \A i \in Alive \cup {r.end} : a <= i
  <2>1. Alive \cup {r.end} \subseteq Nat /\ Alive \cup {r.end} # {}
    BY <1>1
  <2>2. a = Min(Alive \cup {r.end})
    BY DEF FirstAlive
  <2> HIDE DEF Alive, a
  <2> QED BY <2>1, <2>2, MinOfSet
<1>3. a \in r.begin .. r.end
  BY <1>1, <1>2
<1>4. ASSUME NEW i \in r.begin .. a - 1
      PROVE  Len(keys[i].str) = r.keyPos
  BY <1>1, <1>2, <1>3
<1>5. ASSUME NEW i \in a .. r.end - 1
      PROVE  Len(keys[i].str) > r.keyPos
  <2>1. /\ i \in r.begin .. r.end - 1 /\ i \in DOMAIN keys /\ Len(keys[i].str) \in Nat
        /\ a \in r.begin .. r.end - 1 /\ a \in DOMAIN keys /\ Len(keys[a].str) \in Nat
    BY <1>1, <1>3, KeyFacts DEF Extensions
  <2>2. Len(keys[a].str) > r.keyPos
    BY <2>1, <1>1, <1>2 DEF Extensions
  <2>3. CASE a = i
    BY <2>2, <2>3
  <2>4. CASE a < i
    <3>1. Len(keys[i].str) >= r.keyPos /\ \A q \in 1 .. r.keyPos : keys[a].str[q] = keys[i].str[q]
      BY <2>1 DEF Extensions
    <3> QED BY <3>1, <2>1, <2>2, <2>4, <1>1, SortedPair
  <2> QED BY <2>1, <2>3, <2>4, <1>1, <1>3
<1> QED BY <1>3, <1>4, <1>5

---------------------------------------------------------------------------
(* The groups of a range: the keys alive have one more character each, and *)
(* the keys that agree on it are next to each other.                       *)

\* What is known of the keys begin .. end - 1 when they are grouped.
Groupable(begin, end, n) ==
  /\ begin \in Nat \ {0} /\ end \in Nat /\ n \in Nat
  /\ begin < end /\ end <= Len(keys) + 1
  /\ \A i \in begin .. end - 1 :
       /\ i \in DOMAIN keys
       /\ Len(keys[i].str) > n
       /\ \A j \in begin .. end - 1 : \A q \in 1 .. n : keys[i].str[q] = keys[j].str[q]

\* The character the keys are grouped by.
Char(i, n) == keys[i].str[n + 1]

\* Past the keys that end, the next characters of a range never go down.
LEMMA CharsGoUp ==
  ASSUME KeysTyped, SortedKeys, NEW begin, NEW end, NEW n, Groupable(begin, end, n),
         NEW i \in begin .. end - 1, NEW j \in begin .. end - 1, i <= j
  PROVE  Char(i, n) \in Int /\ Char(j, n) \in Int /\ Char(i, n) <= Char(j, n)
<1>1. /\ i \in DOMAIN keys /\ j \in DOMAIN keys /\ n \in Nat
      /\ i \in Int /\ j \in Int
      /\ Len(keys[i].str) > n /\ Len(keys[j].str) > n
      /\ \A q \in 1 .. n : keys[i].str[q] = keys[j].str[q]
  BY DEF Groupable
<1>2. Char(i, n) \in Int /\ Char(j, n) \in Int
  <2>1. n + 1 \in 1 .. Len(keys[i].str) /\ n + 1 \in 1 .. Len(keys[j].str)
    BY <1>1, KeyFacts
  <2> QED BY <2>1, <1>1, KeyFacts DEF Char
<1>3. CASE i = j
  BY <1>2, <1>3
<1>4. CASE i < j
  <2>1. Len(keys[j].str) >= n
    BY <1>1, KeyFacts
  <2> QED BY <2>1, <1>1, <1>2, <1>4, SortedPair DEF Char
<1> QED BY <1>1, <1>2, <1>3, <1>4

\* A group goes from where the character changes to where it changes again.
LEMMA GroupFacts ==
  ASSUME KeysTyped, SortedKeys, NEW begin, NEW end, NEW n, Groupable(begin, end, n),
         NEW b \in GroupBegins(begin, end, n)
  PROVE  LET e == GroupEnd(b, end, n) IN
         /\ b \in begin .. end - 1 /\ e \in b + 1 .. end
         /\ \A i \in begin .. end - 1 : i \in b .. e - 1 <=> Char(i, n) = Char(b, n)
         /\ e < end => e \in GroupBegins(begin, end, n)
         /\ \A c \in GroupBegins(begin, end, n) : c > b => e <= c
<1> DEFINE e == GroupEnd(b, end, n)
           Changes == {i \in b + 1 .. end - 1 : Char(i - 1, n) # Char(i, n)}
<1>1. begin \in Nat \ {0} /\ end \in Nat /\ n \in Nat /\ begin < end
  BY DEF Groupable
<1>2. b \in begin .. end - 1
  BY <1>1 DEF GroupBegins
<1>3. e \in Changes \cup {end} /\ \A i \in Changes \cup {end} : e <= i
  <2>1. Changes \cup {end} \subseteq Nat /\ Changes \cup {end} # {}
    BY <1>1, <1>2
  <2>2. e = Min(Changes \cup {end})
    BY DEF GroupEnd, Char
  <2> HIDE DEF Changes, e
  <2> QED BY <2>1, <2>2, MinOfSet
<1>4. e \in b + 1 .. end
  BY <1>1, <1>2, <1>3
<1>5. \A i \in b .. e - 1 : Char(i, n) = Char(b, n)
  <2> DEFINE f == [i \in b .. e - 1 |-> Char(i, n)]
  <2>1. \A j \in b + 1 .. e - 1 : f[j - 1] = f[j]
    BY <1>1, <1>2, <1>3, <1>4
  <2>2. b \in Nat /\ e - 1 \in Nat
    BY <1>1, <1>2, <1>4
  <2>3. \A j \in b .. e - 1 : f[j] = f[b]
    <3> HIDE DEF f, e
    <3> QED BY <2>1, <2>2, ConstantOnInterval
  <2>4. b \in b .. e - 1
    BY <1>1, <1>2, <1>4
  <2> QED BY <2>3, <2>4
<1>6. ASSUME NEW i \in begin .. end - 1, Char(i, n) = Char(b, n), i < b
      PROVE  FALSE
  <2>1. b \in begin + 1 .. end - 1 /\ Char(b - 1, n) # Char(b, n)
    BY <1>1, <1>2, <1>6 DEF GroupBegins, Char
  <2>2. b - 1 \in begin .. end - 1 /\ i <= b - 1 /\ b - 1 <= b
    BY <1>1, <1>2, <1>6, <2>1
  <2>3. Char(i, n) <= Char(b - 1, n) /\ Char(b - 1, n) <= Char(b, n)
        /\ Char(i, n) \in Int /\ Char(b - 1, n) \in Int /\ Char(b, n) \in Int
    BY <1>2, <2>2, CharsGoUp
  <2> QED BY <2>1, <2>3, <1>6
<1>7. ASSUME NEW i \in begin .. end - 1, Char(i, n) = Char(b, n), e <= i
      PROVE  FALSE
  <2>1. e \in begin .. end - 1 /\ e - 1 \in begin .. end - 1 /\ e - 1 \in b .. e - 1 /\ e - 1 <= e
    BY <1>1, <1>2, <1>4, <1>7
  <2>2. Char(e - 1, n) # Char(e, n)
    BY <1>1, <1>3, <2>1
  <2>3. Char(e - 1, n) <= Char(e, n) /\ Char(e, n) <= Char(i, n)
        /\ Char(e - 1, n) \in Int /\ Char(e, n) \in Int /\ Char(i, n) \in Int
    BY <1>7, <2>1, CharsGoUp
  <2> QED BY <1>5, <2>1, <2>2, <2>3, <1>7
<1>8. e < end => e \in GroupBegins(begin, end, n)
  BY <1>1, <1>2, <1>3, <1>4 DEF GroupBegins, Char
<1>9. \A c \in GroupBegins(begin, end, n) : c > b => e <= c
  BY <1>1, <1>2, <1>3 DEF GroupBegins, Char
<1> HIDE DEF e
<1> QED BY <1>1, <1>2, <1>4, <1>5, <1>6, <1>7, <1>8, <1>9 DEF e

\* Every key is in a group, and groups do not overlap.
LEMMA GroupsPartition ==
  ASSUME KeysTyped, SortedKeys, NEW begin, NEW end, NEW n, Groupable(begin, end, n),
         NEW i \in begin .. end - 1
  PROVE  \E b \in GroupBegins(begin, end, n) :
           /\ i \in b .. GroupEnd(b, end, n) - 1
           /\ \A c \in GroupBegins(begin, end, n) :
                i \in c .. GroupEnd(c, end, n) - 1 => c = b
<1>1. begin \in Nat \ {0} /\ end \in Nat /\ n \in Nat /\ begin < end
  BY DEF Groupable
<1>2. GroupBegins(begin, end, n) \subseteq begin .. end - 1 /\ begin \in GroupBegins(begin, end, n)
  BY <1>1 DEF GroupBegins
<1>3. PICK b \in GroupBegins(begin, end, n) :
        b <= i /\ \A c \in GroupBegins(begin, end, n) : c <= i => c <= b
  <2>1. GroupBegins(begin, end, n) \subseteq Nat /\ i \in Nat /\ begin <= i
    BY <1>1, <1>2
  <2> QED BY <2>1, <1>2, LastElementUpTo
<1>4. i < GroupEnd(b, end, n) /\ GroupEnd(b, end, n) \in b + 1 .. end
  BY <1>1, <1>2, <1>3, GroupFacts
<1>5. ASSUME NEW c \in GroupBegins(begin, end, n), i \in c .. GroupEnd(c, end, n) - 1
      PROVE  c = b
  <2>1. c <= b /\ b \in Int /\ c \in Int
    BY <1>1, <1>2, <1>3, <1>5
  <2>2. ~ c < b
    <3>1. ASSUME c < b PROVE GroupEnd(c, end, n) <= b /\ GroupEnd(c, end, n) \in Int
      BY <3>1, <1>2, <1>1, GroupFacts
    <3> QED BY <3>1, <1>3, <1>5, <2>1
  <2> QED BY <2>1, <2>2
<1>6. i \in b .. GroupEnd(b, end, n) - 1
  BY <1>1, <1>2, <1>3, <1>4
<1> QED BY <1>5, <1>6

\* w_ranges has one range per group, in whatever order the config asks for.
LEMMA ChildRangesFacts ==
  ASSUME NEW begin \in Nat, NEW end \in Nat, begin < end, NEW n \in Nat,
         NEW ws \in ChildRanges(begin, end, n)
  PROVE  LET begins == GroupBegins(begin, end, n) IN
         /\ ws \in Seq(Range(ws))
         /\ \A p \in 1 .. Len(ws) :
              /\ ws[p].begin \in begins
              /\ ws[p].end = GroupEnd(ws[p].begin, end, n)
              /\ ws[p].keyPos = n
         /\ \A b \in begins : \E p \in 1 .. Len(ws) : ws[p].begin = b
         /\ \A p, q \in 1 .. Len(ws) : ws[p].begin = ws[q].begin => p = q
<1> DEFINE begins == GroupBegins(begin, end, n)
           Child(b) == [begin |-> b, end |-> GroupEnd(b, end, n), keyPos |-> n,
                        weight |-> GroupWeight(b, GroupEnd(b, end, n))]
           children == [b \in begins |-> Child(b)]
           N == Cardinality(begins)
<1>1. IsFiniteSet(begins) /\ N \in Nat
  <2>1. begins \in SUBSET (begin .. end - 1) /\ begin \in Int /\ end - 1 \in Int
    BY DEF GroupBegins
  <2> HIDE DEF begins
  <2> QED BY <2>1, FS_Interval, FS_Subset, FS_CardinalityType
<1>2. PICK order \in [1 .. N -> begins] :
        /\ \A b \in begins : \E i \in DOMAIN order : order[i] = b
        /\ ws = [i \in DOMAIN order |-> children[order[i]]]
  BY DEF ChildRanges
<1>3. \A i, j \in 1 .. N : order[i] = order[j] => i = j
  <2>1. order \in Surjection(1 .. N, begins)
    BY <1>2 DEF Surjection
  <2>2. IsFiniteSet(1 .. N) /\ Cardinality(1 .. N) = Cardinality(begins)
    BY <1>1, FS_Interval
  <2>3. order \in Injection(1 .. N, begins)
    <3> HIDE DEF begins, N
    <3> QED BY <2>1, <2>2, FS_SurjSameCardinalityImpliesInj
  <2> QED BY <2>3 DEF Injection, IsInjective
<1>4. /\ ws = [i \in 1 .. N |-> children[order[i]]]
      /\ \A i \in 1 .. N : order[i] \in begins
  BY <1>2
<1>5. /\ DOMAIN ws = 1 .. N
      /\ \A p \in 1 .. N :
           /\ ws[p].begin = order[p]
           /\ ws[p].end = GroupEnd(order[p], end, n)
           /\ ws[p].keyPos = n
  <2> HIDE DEF begins, N
  <2> QED BY <1>4
<1>6. ws \in Seq(Range(ws)) /\ Len(ws) = N
  <2>1. ws \in [1 .. N -> Range(ws)]
    BY <1>4, <1>5 DEF Range
  <2> HIDE DEF N
  <2> QED BY <1>1, <2>1
<1> HIDE DEF begins, N, children
<1>7. /\ \A p \in 1 .. Len(ws) :
              /\ ws[p].begin \in begins
              /\ ws[p].end = GroupEnd(ws[p].begin, end, n)
              /\ ws[p].keyPos = n
      /\ \A b \in begins : \E p \in 1 .. Len(ws) : ws[p].begin = b
  BY <1>2, <1>4, <1>5, <1>6
<1>8. \A p, q \in 1 .. Len(ws) : ws[p].begin = ws[q].begin => p = q
  BY <1>3, <1>5, <1>6
<1> QED BY <1>6, <1>7, <1>8 DEF begins

---------------------------------------------------------------------------
(* A child is extended while its keys agree.                               *)

\* The loop that extends a child stops, within its first key, where its keys
\* still agree on all characters before.
LEMMA ChildKeyPosFacts ==
  ASSUME KeysTyped, SortedKeys, NEW w, w.begin \in Nat \ {0}, w.end \in Nat, w.keyPos \in Nat,
         w.begin < w.end, w.end <= Len(keys) + 1,
         Extensions(w.begin, w.end, w.keyPos + 1)
  PROVE  /\ ChildKeyPos(w) \in w.keyPos + 1 .. Len(keys[w.begin].str)
         /\ Extensions(w.begin, w.end, ChildKeyPos(w))
<1> DEFINE first == keys[w.begin].str
           Stops == {k \in w.keyPos + 1 .. Len(first) : StopsAt(w, k)}
           k == ChildKeyPos(w)
<1>1. /\ w.begin \in DOMAIN keys /\ Len(first) \in Nat /\ w.keyPos + 1 <= Len(first)
      /\ w.begin \in w.begin .. w.end - 1
  <2>1. w.begin \in w.begin .. w.end - 1
    OBVIOUS
  <2> QED BY <2>1, KeyFacts DEF Extensions
<1>2. /\ k \in w.keyPos + 1 .. Len(first)
      /\ \A q \in w.keyPos + 1 .. k - 1 : ~StopsAt(w, q)
  <2>1. Len(first) \in Stops
    BY <1>1 DEF StopsAt
  <2>2. Stops \subseteq Nat
    BY <1>1
  <2>3. PICK m \in Stops : \A q \in Stops : m <= q
    <3> HIDE DEF Stops
    <3> QED BY <2>1, <2>2, LeastElement
  <2>4. /\ m \in w.keyPos + 1 .. Len(first) /\ StopsAt(w, m)
        /\ \A q \in w.keyPos + 1 .. m - 1 : ~StopsAt(w, q)
    BY <1>1, <2>3
  <2> QED BY <2>4 DEF ChildKeyPos
<1>3. \A i \in w.begin .. w.end - 1 :
        /\ i \in DOMAIN keys /\ Len(keys[i].str) \in Nat /\ Len(keys[i].str) >= w.keyPos + 1
        /\ \A q \in 1 .. w.keyPos + 1 : keys[i].str[q] = first[q]
  BY <1>1, KeyFacts DEF Extensions
<1>4. \A i \in w.begin .. w.end - 1 :
        Len(keys[i].str) >= k /\ \A q \in 1 .. k : keys[i].str[q] = first[q]
  <2> HIDE DEF k
  <2> DEFINE Agree(q) == \A i \in w.begin .. w.end - 1 :
                           Len(keys[i].str) >= q /\ keys[i].str[q] = first[q]
             Wrong == {q \in 1 .. k : ~Agree(q)}
  <2>1. ASSUME Wrong # {}
        PROVE  FALSE
    <3>1. PICK q \in Wrong : \A p \in Wrong : q <= p
      <4>1. Wrong \subseteq Nat
        BY <1>2
      <4> HIDE DEF Wrong
      <4> QED BY <4>1, <2>1, LeastElement
    <3> DEFINE n == q - 1
    <3>2. q \in 1 .. k /\ q > w.keyPos + 1 /\ n \in w.keyPos + 1 .. k - 1 /\ n \in Nat
          /\ n + 1 = q /\ n < Len(first) /\ k \in Nat
      <4>1. q \in 1 .. k /\ ~Agree(q) /\ k \in Nat /\ k <= Len(first) /\ Len(first) \in Nat
        BY <1>1, <1>2
      <4>2. \A p \in 1 .. w.keyPos + 1 : Agree(p)
        BY SMTT(30), <1>3
      <4>3. ~ q <= w.keyPos + 1
        BY <4>1, <4>2
      <4> HIDE DEF Agree, Wrong, first, k
      <4> QED BY <4>1, <4>3
    <3>3. \A p \in 1 .. n : Agree(p)
      <4>1. \A p \in 1 .. n : p \in 1 .. k /\ ~ q <= p
        BY <3>2
      <4> HIDE DEF Agree
      <4> QED BY <4>1, <3>1
    <3>4. \A i \in w.begin .. w.end - 1 :
            Len(keys[i].str) >= n /\ \A p \in 1 .. n : keys[i].str[p] = first[p]
      <4>1. n \in 1 .. n
        BY <3>2
      <4> QED BY <3>3, <4>1
    <3>5. ~StopsAt(w, n)
      BY <1>2, <3>2
    <3>6. \A j \in w.begin + 1 .. w.end - 1 : keys[j - 1].str[q] = keys[j].str[q]
      BY <3>2, <3>5 DEF StopsAt
    <3>7. \A i \in w.begin .. w.end - 1 : keys[i].str[q] = first[q]
      <4> DEFINE f == [i \in w.begin .. w.end - 1 |-> keys[i].str[q]]
      <4>1. \A j \in w.begin + 1 .. w.end - 1 : f[j - 1] = f[j]
        BY <3>6
      <4>2. \A i \in w.begin .. w.end - 1 : f[i] = f[w.begin]
        <5>1. w.begin \in Nat /\ w.end - 1 \in Nat
          OBVIOUS
        <5> HIDE DEF f
        <5> QED BY <4>1, <5>1, ConstantOnInterval
      <4> QED BY <4>2, <1>1
    <3>8. ASSUME NEW i \in w.begin .. w.end - 1
          PROVE  Len(keys[i].str) >= q
      <4>1. CASE i = w.begin
        BY <4>1, <1>1, <3>2
      <4>2. CASE w.begin < i
        <5>1. /\ i \in DOMAIN keys /\ Len(keys[i].str) \in Nat
              /\ Len(first) > n /\ Len(keys[i].str) >= n
              /\ \A p \in 1 .. n : first[p] = keys[i].str[p]
          BY <1>1, <1>3, <3>2, <3>4
        <5>2. Len(keys[i].str) > n
          BY <5>1, <1>1, <3>2, <4>2, SortedPair
        <5> QED BY <5>1, <5>2, <3>2
      <4> QED BY <4>1, <4>2
    <3> QED BY <3>1, <3>7, <3>8
  <2>2. \A q \in 1 .. k : Agree(q)
    BY <2>1
  <2>3. k \in 1 .. k
    BY <1>1, <1>2
  <2> QED BY <2>2, <2>3
<1>5. ASSUME NEW i \in w.begin .. w.end - 1, NEW j \in DOMAIN keys
      PROVE  j \in w.begin .. w.end - 1 <=>
               /\ Len(keys[j].str) >= k
               /\ \A q \in 1 .. k : keys[j].str[q] = keys[i].str[q]
  <2>1. CASE j \in w.begin .. w.end - 1
    BY <2>1, <1>4
  <2>2. ASSUME Len(keys[j].str) >= k, \A q \in 1 .. k : keys[j].str[q] = keys[i].str[q]
        PROVE  j \in w.begin .. w.end - 1
    <3>1. /\ Len(keys[j].str) \in Nat /\ k \in Nat /\ w.keyPos + 1 <= k
      BY <1>1, <1>2, KeyFacts
    <3>2. /\ Len(keys[j].str) >= w.keyPos + 1
          /\ \A q \in 1 .. w.keyPos + 1 : keys[j].str[q] = keys[i].str[q]
      BY <2>2, <3>1
    <3> QED BY <3>2 DEF Extensions
  <2> QED BY <2>1, <2>2
<1> HIDE DEF k
<1>6. Extensions(w.begin, w.end, k)
  BY <1>3, <1>4, <1>5 DEF Extensions
<1> QED BY <1>2, <1>6 DEF k

---------------------------------------------------------------------------
(* The inductive invariant.                                                *)

\* Between the steps of the builder: what it has not begun with is empty.
StepShape ==
  /\ pc = "begin" => keys = MakeKeys(input) /\ queue = <<>>
  /\ pc # "push" => wRanges = <<>>
  /\ wRanges \in Seq(Range(wRanges))

\* Every key of the input is among the sorted keys under its id.
KeysOfInput ==
  /\ \A k \in DOMAIN input : \E i \in DOMAIN keys : keys[i].id = k
  /\ \A i \in DOMAIN keys :
       keys[i].id \in DOMAIN input /\ keys[i].str = input[keys[i].id].str

RangesInBounds ==
  /\ \A p \in DOMAIN queue :
       queue[p].begin <= queue[p].end /\ queue[p].end <= Len(keys) + 1
  /\ \A p \in DOMAIN wRanges :
       wRanges[p].begin < wRanges[p].end /\ wRanges[p].end <= Len(keys) + 1

\* RangesHoldExtensions, for the queue and for the children apart.
RangesExtend ==
  /\ \A p \in DOMAIN queue :
       Extensions(queue[p].begin, queue[p].end, queue[p].keyPos)
  /\ \A p \in DOMAIN wRanges :
       Extensions(wRanges[p].begin, wRanges[p].end, wRanges[p].keyPos + 1)

InQueue(i) == \E p \in DOMAIN queue : i \in Within(queue[p])
InChildren(i) == \E p \in DOMAIN wRanges : i \in Within(wRanges[p])

\* PendingKeysOnce, for the queue and for the children apart.
KeysOnce ==
  \A i \in DOMAIN keys :
    /\ keys[i].data.kind = "weight" <=> InQueue(i) \/ InChildren(i)
    /\ ~(InQueue(i) /\ InChildren(i))
    /\ \A p, q \in DOMAIN queue :
         i \in Within(queue[p]) /\ i \in Within(queue[q]) => p = q
    /\ \A p, q \in DOMAIN wRanges :
         i \in Within(wRanges[p]) /\ i \in Within(wRanges[q]) => p = q

\* Nodes are numbered in the order of the queue: those that are not in it
\* have been expanded.
NodesCounted ==
  /\ Len(queue) <= Len(linkFlags)
  /\ pc = "push" => Len(queue) < Len(linkFlags) /\ nodeId = Len(linkFlags) - Len(queue) - 1

\* A key that ended has the number of a node that was expanded, the same as
\* its duplicates and no other key; no key that goes on equals it.
EndedKeys ==
  \A i, j \in DOMAIN keys :
    keys[i].data.kind = "terminal" =>
      /\ keys[i].data.val < Len(linkFlags) - Len(queue)
      /\ keys[j].data.kind = "terminal" =>
           (keys[i].data.val = keys[j].data.val <=> keys[i].str = keys[j].str)
      /\ keys[j].data.kind = "weight" => keys[i].str # keys[j].str

BuildInv ==
  /\ SortedKeys /\ KeysOfInput
  /\ RangesInBounds /\ RangesExtend /\ KeysOnce
  /\ NodesCounted /\ EndedKeys

IInv ==
  /\ TypeOK /\ StepShape
  /\ Building => BuildInv
  /\ TerminalsIdentifyKeys

\* The children's ranges share out the keys that go on, and each holds the
\* keys that extend the node by its character.
LEMMA SplitRange ==
  ASSUME KeysTyped, SortedKeys, NEW r \in RangeType, r.begin <= r.end,
         r.end <= Len(keys) + 1,
         Extensions(r.begin, r.end, r.keyPos),
         FirstAlive(r) # r.end,
         NEW ws \in ChildRanges(FirstAlive(r), r.end, r.keyPos)
  PROVE  LET alive == FirstAlive(r) IN
         /\ ws \in Seq(Range(ws))
         /\ \A p \in 1 .. Len(ws) :
              /\ MakeRange(ws[p].begin, ws[p].end, ws[p].keyPos) \in RangeType
              /\ ws[p].begin < ws[p].end /\ ws[p].end <= Len(keys) + 1
              /\ Within(ws[p]) \subseteq alive .. r.end - 1
              /\ ws[p].keyPos = r.keyPos
              /\ Extensions(ws[p].begin, ws[p].end, ws[p].keyPos + 1)
         /\ \A i \in alive .. r.end - 1 : \E p \in 1 .. Len(ws) : i \in Within(ws[p])
         /\ \A i \in alive .. r.end - 1 : \A p, q \in 1 .. Len(ws) :
              i \in Within(ws[p]) /\ i \in Within(ws[q]) => p = q
<1> DEFINE alive == FirstAlive(r)
           end == r.end
           n == r.keyPos
           begins == GroupBegins(alive, end, n)
<1>1. r.begin \in Nat \ {0} /\ end \in Nat \ {0} /\ n \in Nat
  BY DEF RangeType
<1>2. /\ alive \in r.begin .. end /\ alive < end
      /\ \A i \in alive .. end - 1 : Len(keys[i].str) > n
  BY <1>1, AliveKeys
<1>3. Groupable(alive, end, n)
  <2>1. alive \in Nat \ {0} /\ end \in Nat /\ n \in Nat
    BY <1>1, <1>2
  <2>2. ASSUME NEW i \in alive .. end - 1
        PROVE  /\ i \in DOMAIN keys /\ Len(keys[i].str) > n
               /\ \A j \in alive .. end - 1 :
                    \A q \in 1 .. n : keys[i].str[q] = keys[j].str[q]
    <3>1. \A j \in alive .. end - 1 : j \in r.begin .. r.end - 1
      BY <1>1, <1>2
    <3>2. i \in DOMAIN keys /\ \A j \in alive .. end - 1 : j \in DOMAIN keys
      BY <3>1 DEF Extensions
    <3> QED BY <1>2, <3>1, <3>2 DEF Extensions
  <2> HIDE DEF alive, end, n
  <2>3. end <= Len(keys) + 1
    BY DEF end
  <2> QED BY <1>2, <2>1, <2>2, <2>3 DEF Groupable
<1>4. ASSUME NEW b \in begins
      PROVE  LET e == GroupEnd(b, end, n) IN
             /\ b \in alive .. end - 1 /\ e \in b + 1 .. end
             /\ \A i \in alive .. end - 1 : i \in b .. e - 1 <=> Char(i, n) = Char(b, n)
  <2> HIDE DEF alive, end, n
  <2> QED BY <1>3, GroupFacts
<1>5. ASSUME NEW b \in begins
      PROVE  Extensions(b, GroupEnd(b, end, n), n + 1)
  <2> DEFINE e == GroupEnd(b, end, n)
  <2> SUFFICES ASSUME NEW i \in b .. e - 1, NEW j \in DOMAIN keys
               PROVE  /\ i \in DOMAIN keys
                      /\ Len(keys[i].str) >= n + 1
                      /\ j \in b .. e - 1 <=>
                           /\ Len(keys[j].str) >= n + 1
                           /\ \A q \in 1 .. n + 1 : keys[j].str[q] = keys[i].str[q]
    <3>1. b \in b .. e - 1
      BY <1>1, <1>2, <1>4
    <3>2. \A i \in b .. e - 1 : i \in alive .. end - 1
      BY <1>1, <1>2, <1>4
    <3>3. \A i \in b .. e - 1 : i \in DOMAIN keys /\ Len(keys[i].str) > n
                               /\ Len(keys[i].str) \in Nat
      BY <3>2, <1>3, KeyFacts DEF Groupable
    <3> HIDE DEF alive, end, n, e
    <3> QED BY <3>3, <1>1 DEF Extensions, e
  <2>1. i \in alive .. end - 1 /\ i \in r.begin .. r.end - 1 /\ Char(i, n) = Char(b, n)
    BY <1>1, <1>2, <1>4
  <2>2. i \in DOMAIN keys /\ Len(keys[i].str) \in Nat /\ Len(keys[i].str) > n
        /\ Len(keys[j].str) \in Nat
    BY <2>1, <1>3, KeyFacts DEF Groupable
  <2>3. ASSUME j \in b .. e - 1
        PROVE  /\ Len(keys[j].str) >= n + 1
               /\ \A q \in 1 .. n + 1 : keys[j].str[q] = keys[i].str[q]
    <3>1. j \in alive .. end - 1 /\ Char(j, n) = Char(b, n)
      BY <1>1, <1>2, <1>4, <2>3
    <3>2. /\ Len(keys[j].str) > n
          /\ \A q \in 1 .. n : keys[j].str[q] = keys[i].str[q]
          /\ keys[j].str[n + 1] = keys[i].str[n + 1]
      BY <3>1, <2>1, <1>3 DEF Groupable, Char
    <3> HIDE DEF alive, end, n, e
    <3> QED BY <3>2, <2>2, <1>1
  <2>4. ASSUME Len(keys[j].str) >= n + 1,
               \A q \in 1 .. n + 1 : keys[j].str[q] = keys[i].str[q]
        PROVE  j \in b .. e - 1
    <3>1. Len(keys[j].str) >= n /\ \A q \in 1 .. n : keys[j].str[q] = keys[i].str[q]
      BY <2>4, <2>2, <1>1
    <3>2. j \in r.begin .. r.end - 1
      BY <3>1, <2>1 DEF Extensions
    <3>3. j \in alive .. end - 1
      <4>1. ASSUME j \in r.begin .. alive - 1 PROVE FALSE
        <5>1. Len(keys[j].str) = n
          BY <4>1, <1>1, AliveKeys
        <5> QED BY <5>1, <2>4, <1>1
      <4> QED BY <4>1, <3>2, <1>1, <1>2
    <3>4. Char(j, n) = Char(i, n)
      BY <2>4, <1>1 DEF Char
    <3> QED BY <3>3, <3>4, <2>1, <1>4
  <2> QED BY <2>2, <2>3, <2>4, <1>1
<1>6. /\ ws \in Seq(Range(ws))
      /\ \A p \in 1 .. Len(ws) :
           /\ ws[p].begin \in begins
           /\ ws[p].end = GroupEnd(ws[p].begin, end, n)
           /\ ws[p].keyPos = n
      /\ \A b \in begins : \E p \in 1 .. Len(ws) : ws[p].begin = b
      /\ \A p, q \in 1 .. Len(ws) : ws[p].begin = ws[q].begin => p = q
  <2>1. alive \in Nat /\ end \in Nat /\ n \in Nat /\ ws \in ChildRanges(alive, end, n)
    BY <1>1, <1>2
  <2> HIDE DEF alive, end, n
  <2> QED BY <2>1, <1>2, ChildRangesFacts
<1>7. end <= Len(keys) + 1 /\ Len(keys) \in Nat
  BY KeyFacts
<1> HIDE DEF alive, end, n, begins
<1>8. ASSUME NEW p \in 1 .. Len(ws)
      PROVE  /\ MakeRange(ws[p].begin, ws[p].end, ws[p].keyPos) \in RangeType
             /\ ws[p].begin < ws[p].end /\ ws[p].end <= Len(keys) + 1
             /\ Within(ws[p]) \subseteq alive .. end - 1
             /\ ws[p].keyPos = n
             /\ Extensions(ws[p].begin, ws[p].end, ws[p].keyPos + 1)
  <2>1. /\ ws[p].begin \in alive .. end - 1
        /\ ws[p].end \in ws[p].begin + 1 .. end
        /\ ws[p].keyPos = n
        /\ Extensions(ws[p].begin, ws[p].end, ws[p].keyPos + 1)
    BY <1>4, <1>5, <1>6
  <2>2. ws[p].begin \in Nat \ {0} /\ ws[p].end \in Nat \ {0} /\ ws[p].begin < ws[p].end
        /\ ws[p].end <= end /\ alive <= ws[p].begin
    BY SMTT(30), <2>1, <1>1, <1>2
  <2>3. MakeRange(ws[p].begin, ws[p].end, ws[p].keyPos) \in RangeType
    BY <2>1, <2>2, <1>1 DEF MakeRange, RangeType
  <2>4. Within(ws[p]) \subseteq alive .. end - 1
    BY <2>2, <1>1, <1>2 DEF Within
  <2> QED BY <2>1, <2>2, <2>3, <2>4, <1>1, <1>7
<1>9. ASSUME NEW i \in alive .. end - 1
      PROVE  /\ \E p \in 1 .. Len(ws) : i \in Within(ws[p])
             /\ \A p, q \in 1 .. Len(ws) :
                  i \in Within(ws[p]) /\ i \in Within(ws[q]) => p = q
  <2>1. PICK b \in begins :
          /\ i \in b .. GroupEnd(b, end, n) - 1
          /\ \A c \in begins : i \in c .. GroupEnd(c, end, n) - 1 => c = b
    BY <1>3, GroupsPartition DEF begins
  <2>2. \E p \in 1 .. Len(ws) : i \in Within(ws[p])
    BY <2>1, <1>6 DEF Within
  <2>3. ASSUME NEW p \in 1 .. Len(ws), i \in Within(ws[p])
        PROVE  ws[p].begin = b
    BY <2>1, <2>3, <1>6 DEF Within
  <2>4. \A p, q \in 1 .. Len(ws) :
          i \in Within(ws[p]) /\ i \in Within(ws[q]) => p = q
    BY <2>3, <1>6
  <2> QED BY <2>2, <2>4
<1> QED BY <1>6, <1>8, <1>9 DEF alive, end, n

---------------------------------------------------------------------------
(* Every step keeps the invariant.                                         *)

\* The keys of a level have their types, their strings and no terminal.
LEMMA MakeKeysFacts ==
  ASSUME NEW new \in NewKeys
  PROVE  /\ MakeKeys(new) \in Seq(KeyType)
         /\ Len(MakeKeys(new)) = Len(new) /\ Len(new) \in Nat
         /\ DOMAIN new = 1 .. Len(new)
         /\ \A i \in 1 .. Len(new) :
              MakeKeys(new)[i].str = new[i].str /\ MakeKeys(new)[i].data.kind = "weight"
<1>1. /\ Len(new) \in Nat /\ DOMAIN new = 1 .. Len(new)
      /\ \A i \in 1 .. Len(new) : new[i] \in [str : Strings, weight : Nat]
  <2> DEFINE New == [str : Strings, weight : Nat]
  <2> HIDE DEF New
  <2>1. new \in Seq(New)
    BY DEF NewKeys, New
  <2>2. Len(new) \in Nat /\ DOMAIN new = 1 .. Len(new) /\ \A i \in 1 .. Len(new) : new[i] \in New
    BY <2>1
  <2> QED BY <2>2 DEF New
<1>2. \A i \in 1 .. Len(new) :
        [str |-> new[i].str, id |-> 0, data |-> Weight(new[i].weight)] \in KeyType
  BY <1>1 DEF KeyType, Weight
<1> QED BY <1>1, <1>2 DEF MakeKeys, Weight

\* A level has nothing to be wrong before it begins.
LEMMA InitKeeps == Init => IInv
<1> SUFFICES ASSUME Init
             PROVE  IInv
  OBVIOUS
<1> USE DEF Init
<1>1. trieId \in Nat \ {0} /\ input \in NewKeys
  BY InputsAssumption
<1>2. keys = MakeKeys(input)
  OBVIOUS
<1>3. TypeOK
  BY <1>1, <1>2, MakeKeysFacts DEF TypeOK
<1>4. StepShape
  BY <1>2 DEF StepShape
<1> QED BY <1>3, <1>4 DEF IInv, Building, TerminalsIdentifyKeys

\* After the sort, the root's range holds all the keys.
LEMMA BeginKeeps == IInv /\ Begin => IInv'
<1> SUFFICES ASSUME IInv, Begin
             PROVE  IInv'
  OBVIOUS
<1>1. TypeOK /\ StepShape /\ pc = "begin" /\ pc' = "take"
  BY DEF IInv, Begin
<1>2. keys = MakeKeys(input) /\ input \in NewKeys /\ input' = input /\ queue = <<>> /\ wRanges = <<>>
      /\ wRanges' = <<>> /\ keys \in Seq(KeyType) /\ Len(keys) = Len(input)
  BY <1>1 DEF Begin, TypeOK, StepShape
<1>3. /\ Len(input) \in Nat /\ DOMAIN input = 1 .. Len(input) /\ DOMAIN keys = 1 .. Len(input)
      /\ \A i \in 1 .. Len(input) :
           /\ keys[i] \in KeyType /\ keys[i].str = input[i].str
           /\ keys[i].data.kind = "weight"
  <2>1. DOMAIN keys = DOMAIN input
    BY <1>2 DEF MakeKeys
  <2>2. /\ Len(input) \in Nat /\ DOMAIN input = 1 .. Len(input)
        /\ \A i \in 1 .. Len(input) :
             keys[i].str = input[i].str /\ keys[i].data.kind = "weight"
    BY <1>2, MakeKeysFacts
  <2>3. \A i \in 1 .. Len(input) : keys[i] \in KeyType
    BY <1>2, <2>2, ElementOfSeq
  <2> QED BY <2>1, <2>2, <2>3
<1>4. PICK order \in SortedOrders([i \in DOMAIN keys |-> keys[i].str]) :
        keys' = [i \in DOMAIN keys |-> [keys[order[i]] EXCEPT !.id = order[i]]]
  BY DEF Begin
<1>5. /\ order \in [1 .. Len(input) -> 1 .. Len(input)]
      /\ \A k \in 1 .. Len(input) : \E i \in 1 .. Len(input) : order[i] = k
      /\ \A i, j \in 1 .. Len(input) :
           i < j => StrLeq(keys[order[i]].str, keys[order[j]].str)
  <2> DEFINE strs == [i \in 1 .. Len(input) |-> keys[i].str]
  <2>1. order \in SortedOrders(strs) /\ DOMAIN strs = 1 .. Len(input)
    BY <1>3
  <2>2. \A i \in 1 .. Len(input) : strs[i] = keys[i].str
    OBVIOUS
  <2> HIDE DEF strs
  <2>3. /\ order \in [1 .. Len(input) -> 1 .. Len(input)]
        /\ \A k \in 1 .. Len(input) : \E i \in 1 .. Len(input) : order[i] = k
        /\ \A i, j \in 1 .. Len(input) : i < j => StrLeq(strs[order[i]], strs[order[j]])
    BY <2>1 DEF SortedOrders, Bijection, Injection, Surjection
  <2> QED BY <2>2, <2>3
<1>6. /\ keys' \in Seq(KeyType) /\ Len(keys') = Len(input) /\ DOMAIN keys' = 1 .. Len(input)
      /\ \A i \in 1 .. Len(input) :
           /\ keys'[i].str = keys[order[i]].str /\ keys'[i].id = order[i]
           /\ keys'[i].data.kind = "weight"
  <2>1. keys' = [i \in 1 .. Len(input) |-> [keys[order[i]] EXCEPT !.id = order[i]]]
    BY <1>3, <1>4
  <2>2. \A i \in 1 .. Len(input) :
          /\ order[i] \in 1 .. Len(input) /\ order[i] \in Nat /\ keys[order[i]] \in KeyType
          /\ keys[order[i]].data.kind = "weight"
    BY SMTT(30), <1>3, <1>5
  <2>3. ASSUME NEW key \in KeyType, NEW id \in Nat
        PROVE  /\ [key EXCEPT !.id = id] \in KeyType
               /\ [key EXCEPT !.id = id].str = key.str
               /\ [key EXCEPT !.id = id].id = id
               /\ [key EXCEPT !.id = id].data = key.data
    BY DEF KeyType
  <2>4. \A i \in 1 .. Len(input) :
          LET key == [keys[order[i]] EXCEPT !.id = order[i]] IN
          /\ key \in KeyType /\ key.str = keys[order[i]].str /\ key.id = order[i]
          /\ key.data.kind = "weight"
    BY <2>2, <2>3
  <2>5. DOMAIN keys' = 1 .. Len(input)
        /\ \A i \in 1 .. Len(input) :
             /\ keys'[i] \in KeyType /\ keys'[i].str = keys[order[i]].str
             /\ keys'[i].id = order[i] /\ keys'[i].data.kind = "weight"
    BY <2>1, <2>4
  <2>6. keys' \in Seq(KeyType) /\ Len(keys') = Len(input)
    <3>1. keys' \in [1 .. Len(input) -> KeyType]
      BY <2>1, <2>5
    <3> HIDE DEF KeyType
    <3> QED BY <1>3, <3>1
  <2> QED BY <2>5, <2>6
<1>7. /\ queue' = <<MakeRange(1, Len(input) + 1, 0)>> /\ Len(queue') = 1 /\ DOMAIN queue' = {1}
      /\ queue'[1] = [begin |-> 1, end |-> Len(input) + 1, keyPos |-> 0]
      /\ linkFlags' = <<FALSE>> /\ Len(linkFlags') = 1
      /\ louds' = <<TRUE, FALSE>> /\ bases' = <<0>> /\ Len(bases') = 1
  BY <1>2 DEF Begin, MakeRange
<1>8. TypeOK'
  <2>1. queue' \in Seq(RangeType)
    BY <1>3, <1>7 DEF RangeType
  <2>2. bases' \in Seq(Labels)
    BY <1>7, LabelSizeAssumption DEF Labels
  <2>3. louds' \in Seq(BOOLEAN) /\ linkFlags' \in Seq(BOOLEAN)
    BY <1>7
  <2> QED BY <1>1, <1>2, <1>6, <1>7, <2>1, <2>2, <2>3 DEF TypeOK, Begin
<1>9. StepShape'
  BY <1>1, <1>2 DEF StepShape
<1>10. BuildInv'
  <2>1. SortedKeys'
    <3>1. \A i, j \in 1 .. Len(input) : i < j => StrLeq(keys'[i].str, keys'[j].str)
      <4> SUFFICES ASSUME NEW i \in 1 .. Len(input), NEW j \in 1 .. Len(input), i < j
                   PROVE  StrLeq(keys'[i].str, keys'[j].str)
        OBVIOUS
      <4>1. keys'[i].str = keys[order[i]].str /\ keys'[j].str = keys[order[j]].str
        BY <1>6
      <4>2. StrLeq(keys[order[i]].str, keys[order[j]].str)
        BY <1>5
      <4> QED BY <4>1, <4>2
    <3> QED BY <3>1, <1>6 DEF SortedKeys
  <2>2. KeysOfInput'
    <3>1. \A k \in 1 .. Len(input) : \E i \in 1 .. Len(input) : keys'[i].id = k
      <4> SUFFICES ASSUME NEW k \in 1 .. Len(input)
                   PROVE  \E i \in 1 .. Len(input) : keys'[i].id = k
        OBVIOUS
      <4>1. PICK i \in 1 .. Len(input) : order[i] = k
        BY <1>5
      <4> QED BY <4>1, <1>6
    <3>2. ASSUME NEW i \in 1 .. Len(input)
          PROVE  keys'[i].id \in 1 .. Len(input) /\ keys'[i].str = input[keys'[i].id].str
      <4>1. order[i] \in 1 .. Len(input)
        BY <1>5
      <4> QED BY <4>1, <1>3, <1>6
    <3> QED BY <3>1, <3>2, <1>2, <1>3, <1>6 DEF KeysOfInput
  <2>3. RangesInBounds'
    BY <1>2, <1>3, <1>6, <1>7 DEF RangesInBounds
  <2>4. RangesExtend'
    <3>1. \A i \in 1 .. Len(input) : Len(keys'[i].str) \in Nat
      BY <1>6 DEF KeyType, Strings
    <3>2. Extensions(1, Len(input) + 1, 0)'
      BY <1>2, <1>3, <1>6, <3>1 DEF Extensions
    <3> QED BY <1>2, <1>7, <3>2 DEF RangesExtend
  <2>5. KeysOnce'
    BY <1>2, <1>3, <1>6, <1>7 DEF KeysOnce, InQueue, InChildren, Within
  <2>6. NodesCounted'
    BY <1>1, <1>7 DEF NodesCounted
  <2>7. EndedKeys'
    BY <1>6 DEF EndedKeys
  <2> QED BY <2>1, <2>2, <2>3, <2>4, <2>5, <2>6, <2>7 DEF BuildInv
<1> QED BY <1>1, <1>8, <1>9, <1>10 DEF IInv, TerminalsIdentifyKeys

\* A zero in the LOUDS changes nothing that is said of keys and ranges.
LEMMA CloseNodeKeeps == IInv /\ CloseNode => IInv'
<1> SUFFICES ASSUME IInv, CloseNode
             PROVE  IInv'
  OBVIOUS
<1>1. TypeOK /\ StepShape /\ BuildInv /\ pc = "push" /\ pc' = "take" /\ wRanges = <<>>
  BY DEF IInv, CloseNode, Building
<1> USE DEF CloseNode
<1>2. TypeOK'
  <2>1. louds' \in Seq(BOOLEAN)
    BY <1>1 DEF TypeOK
  <2> QED BY <1>1, <2>1 DEF TypeOK
<1>3. StepShape'
  BY <1>1 DEF StepShape
<1>4. BuildInv'
  <2>1. SortedKeys' /\ KeysOfInput'
    BY <1>1 DEF BuildInv, SortedKeys, KeysOfInput
  <2>2. RangesInBounds' /\ RangesExtend'
    BY <1>1 DEF BuildInv, RangesInBounds, RangesExtend, Extensions
  <2>3. KeysOnce'
    BY <1>1 DEF BuildInv, KeysOnce, InQueue, InChildren, Within
  <2>4. NodesCounted' /\ EndedKeys'
    BY <1>1 DEF BuildInv, NodesCounted, EndedKeys
  <2> QED BY <2>1, <2>2, <2>3, <2>4 DEF BuildInv
<1> QED BY <1>1, <1>2, <1>3, <1>4 DEF IInv, TerminalsIdentifyKeys

\* build_terminals hands every key the node it ended at.
LEMMA FinishTerminals ==
  ASSUME IInv, Finish
  PROVE  /\ Len(input) \in Nat /\ DOMAIN input = 1 .. Len(input) /\ DOMAIN keys = 1 .. Len(input)
         /\ \A i \in 1 .. Len(input) : keys[i].data.kind = "terminal" /\ keys[i].data.val \in Nat
         /\ \A k \in 1 .. Len(input) : \E i \in 1 .. Len(input) :
              /\ keys[i].id = k /\ keys[i].str = input[k].str
              /\ terminals'[k] = keys[i].data.val
         /\ DOMAIN terminals' = 1 .. Len(input)
         /\ terminals' = [k \in 1 .. Len(input) |-> terminals'[k]]
<1>1. TypeOK /\ StepShape /\ BuildInv /\ pc = "take" /\ pc' = "built" /\ queue = <<>>
      /\ wRanges = <<>> /\ keys \in Seq(KeyType) /\ Len(keys) = Len(input)
      /\ input' = input /\ terminals' = TerminalsByInput
  BY DEF IInv, Finish, Building, StepShape, TypeOK
<1>2. /\ Len(input) \in Nat /\ DOMAIN input = 1 .. Len(input) /\ DOMAIN keys = 1 .. Len(input)
      /\ \A i \in 1 .. Len(input) : keys[i].data.val \in Nat
                                  /\ keys[i].data.kind \in {"weight", "terminal"}
  <2>1. DOMAIN input = 1 .. Len(input)
    BY <1>1, MakeKeysFacts DEF TypeOK
  <2>2. Len(input) \in Nat /\ DOMAIN keys = 1 .. Len(input)
        /\ \A i \in 1 .. Len(input) : keys[i] \in KeyType
    BY <1>1, ElementOfSeq
  <2> QED BY <2>1, <2>2 DEF KeyType
<1>3. \A i \in 1 .. Len(input) : keys[i].data.kind = "terminal"
  BY <1>1, <1>2 DEF BuildInv, KeysOnce, InQueue, InChildren
<1>4. \A k \in 1 .. Len(input) : \E i \in 1 .. Len(input) :
        /\ keys[i].id = k /\ keys[i].str = input[k].str
        /\ terminals'[k] = keys[i].data.val
  <2> SUFFICES ASSUME NEW k \in 1 .. Len(input)
               PROVE  \E i \in 1 .. Len(input) :
                        /\ keys[i].id = k /\ keys[i].str = input[k].str
                        /\ terminals'[k] = keys[i].data.val
    OBVIOUS
  <2> DEFINE i == CHOOSE i \in DOMAIN keys : keys[i].id = k
  <2>1. i \in 1 .. Len(input) /\ keys[i].id = k
    BY <1>1, <1>2 DEF BuildInv, KeysOfInput
  <2>2. keys[i].str = input[k].str
    BY <2>1, <1>1, <1>2 DEF BuildInv, KeysOfInput
  <2>3. terminals'[k] = keys[i].data.val
    BY <1>1, <1>2 DEF TerminalsByInput
  <2> HIDE DEF i
  <2> QED BY <2>1, <2>2, <2>3
<1>5. DOMAIN terminals' = 1 .. Len(input) /\ terminals' = [k \in 1 .. Len(input) |-> terminals'[k]]
  BY <1>1, <1>2 DEF TerminalsByInput
<1> QED BY <1>2, <1>3, <1>4, <1>5

\* The level is built.
LEMMA FinishKeeps == IInv /\ Finish => IInv'
<1> SUFFICES ASSUME IInv, Finish
             PROVE  IInv'
  OBVIOUS
<1>1. TypeOK /\ StepShape /\ BuildInv /\ pc = "take" /\ pc' = "built" /\ queue = <<>>
      /\ wRanges = <<>> /\ keys \in Seq(KeyType) /\ Len(keys) = Len(input)
      /\ input' = input /\ terminals' = TerminalsByInput
  BY DEF IInv, Finish, Building, StepShape, TypeOK
<1>2. /\ Len(input) \in Nat /\ DOMAIN input = 1 .. Len(input) /\ DOMAIN keys = 1 .. Len(input)
      /\ \A i \in 1 .. Len(input) : keys[i].data.val \in Nat
  BY FinishTerminals
<1>3. \A i \in 1 .. Len(input) : keys[i].data.kind = "terminal"
  BY FinishTerminals
<1>4. \A k \in 1 .. Len(input) : \E i \in 1 .. Len(input) :
        /\ keys[i].id = k /\ keys[i].str = input[k].str
        /\ terminals'[k] = keys[i].data.val
  BY FinishTerminals
<1>5. DOMAIN terminals' = 1 .. Len(input) /\ terminals' = [k \in 1 .. Len(input) |-> terminals'[k]]
  BY FinishTerminals
<1>6. terminals' \in Seq(Nat)
  BY <1>2, <1>4, <1>5
<1>7. TypeOK'
  <2>1. louds' \in Seq(BOOLEAN)
    BY <1>1 DEF TypeOK, Finish
  <2> QED BY <1>1, <1>6, <2>1 DEF TypeOK, Finish
<1>8. StepShape'
  BY <1>1 DEF StepShape, Finish
<1>9. TerminalsIdentifyKeys'
  <2> SUFFICES ASSUME NEW k \in 1 .. Len(input), NEW l \in 1 .. Len(input)
               PROVE  terminals'[k] = terminals'[l] <=> input[k].str = input[l].str
    BY <1>1, <1>2 DEF TerminalsIdentifyKeys
  <2>1. PICK i \in 1 .. Len(input) :
          keys[i].str = input[k].str /\ terminals'[k] = keys[i].data.val
    BY <1>4
  <2>2. PICK j \in 1 .. Len(input) :
          keys[j].str = input[l].str /\ terminals'[l] = keys[j].data.val
    BY <1>4
  <2>3. keys[i].data.val = keys[j].data.val <=> keys[i].str = keys[j].str
    BY <1>1, <1>2, <1>3 DEF BuildInv, EndedKeys
  <2> QED BY <2>1, <2>2, <2>3
<1> QED BY <1>1, <1>7, <1>8, <1>9 DEF IInv, Building

\* A child's range moves from w_ranges to the queue with a longer key_pos.
LEMMA PushChildKeeps == IInv /\ PushChild => IInv'
<1> SUFFICES ASSUME IInv, PushChild
             PROVE  IInv'
  OBVIOUS
<1> DEFINE w == Head(wRanges)
           keyPos == ChildKeyPos(w)
           label == keys[w.begin].str[w.keyPos + 1]
           linked == keyPos # w.keyPos + 1
           pushed == MakeRange(w.begin, w.end, keyPos)
           n == Len(queue)
           m == Len(wRanges)
<1>1. /\ TypeOK /\ StepShape /\ BuildInv /\ pc = "push" /\ pc' = "push" /\ wRanges # <<>>
      /\ input' = input /\ keys' = keys /\ nodeId' = nodeId
      /\ linkFlags' = Append(linkFlags, linked)
      /\ bases' = Append(bases, IF linked THEN 0 ELSE label)
      /\ louds' = Append(louds, TRUE)
      /\ queue' = Append(queue, pushed)
      /\ wRanges' = Tail(wRanges)
  BY DEF IInv, PushChild, Building
<1>2. KeysTyped /\ SortedKeys /\ Len(keys) \in Nat /\ DOMAIN keys = 1 .. Len(keys)
  <2>1. KeysTyped /\ SortedKeys
    BY <1>1 DEF TypeOK, KeysTyped, BuildInv
  <2> QED BY <2>1, KeyFacts
<1>3. /\ n \in Nat /\ DOMAIN queue = 1 .. n /\ queue \in Seq(RangeType)
      /\ m \in Nat \ {0} /\ DOMAIN wRanges = 1 .. m /\ wRanges \in Seq(Range(wRanges))
      /\ w = wRanges[1]
  BY <1>1 DEF TypeOK, StepShape
<1>4. /\ w.begin \in Nat \ {0} /\ w.end \in Nat \ {0} /\ w.keyPos \in Nat
      /\ w.begin < w.end /\ w.end <= Len(keys) + 1
      /\ Extensions(w.begin, w.end, w.keyPos + 1)
  <2>1. 1 \in DOMAIN wRanges
    BY <1>3
  <2>2. MakeRange(w.begin, w.end, w.keyPos) \in RangeType
    BY <1>1, <1>3, <2>1 DEF TypeOK
  <2>3. w.begin < w.end /\ w.end <= Len(keys) + 1 /\ Extensions(w.begin, w.end, w.keyPos + 1)
    BY <1>1, <1>3, <2>1 DEF BuildInv, RangesInBounds, RangesExtend
  <2> QED BY <2>2, <2>3 DEF MakeRange, RangeType
<1>5. /\ keyPos \in w.keyPos + 1 .. Len(keys[w.begin].str)
      /\ Extensions(w.begin, w.end, keyPos)
  <2> HIDE DEF w
  <2> QED BY <1>2, <1>4, ChildKeyPosFacts
<1>6. /\ w.begin \in DOMAIN keys /\ Len(keys[w.begin].str) \in Nat
      /\ label \in Labels
  <2>1. w.begin \in w.begin .. w.end - 1
    BY <1>4
  <2>2. w.begin \in DOMAIN keys
    BY <1>4, <2>1 DEF Extensions
  <2>3. w.keyPos + 1 \in 1 .. Len(keys[w.begin].str) /\ Len(keys[w.begin].str) \in Nat
    BY <1>2, <1>4, <1>5, <2>2, KeyFacts
  <2> QED BY <1>2, <2>2, <2>3, KeyFacts
<1>7. /\ pushed \in RangeType
      /\ pushed.begin = w.begin /\ pushed.end = w.end /\ pushed.keyPos = keyPos
  <2>1. keyPos \in Nat
    BY <1>4, <1>5, <1>6
  <2> HIDE DEF w, keyPos
  <2> QED BY <1>4, <2>1 DEF MakeRange, RangeType
<1> HIDE DEF w, keyPos, label, linked, pushed, n, m
<1>8. /\ queue' \in Seq(RangeType) /\ Len(queue') = n + 1 /\ DOMAIN queue' = 1 .. n + 1
      /\ \A p \in 1 .. n : queue'[p] = queue[p]
      /\ queue'[n + 1] = pushed
  <2>1. /\ queue' \in Seq(RangeType) /\ Len(queue') = n + 1
        /\ \A p \in 1 .. n : queue'[p] = queue[p]
        /\ queue'[n + 1] = pushed
    BY <1>1, <1>3, <1>7, AppendProperties DEF n
  <2> QED BY <2>1, LenProperties
<1>9. /\ wRanges' \in Seq(Range(wRanges')) /\ Len(wRanges') = m - 1
      /\ DOMAIN wRanges' = 1 .. m - 1
      /\ \A p \in 1 .. m - 1 : wRanges'[p] = wRanges[p + 1]
  <2>1. /\ Tail(wRanges) \in Seq(Range(wRanges)) /\ Len(Tail(wRanges)) = m - 1
        /\ \A p \in 1 .. m - 1 : Tail(wRanges)[p] = wRanges[p + 1]
    BY <1>1, <1>3, HeadTailProperties DEF m
  <2>2. DOMAIN Tail(wRanges) = 1 .. m - 1 /\ Tail(wRanges) \in Seq(Range(Tail(wRanges)))
    BY <2>1, LenProperties, SeqOfRange
  <2> QED BY <1>1, <2>1, <2>2
<1>10. /\ linkFlags' \in Seq(BOOLEAN) /\ louds' \in Seq(BOOLEAN) /\ bases' \in Seq(Labels)
       /\ Len(linkFlags') = Len(linkFlags) + 1 /\ Len(bases') = Len(bases) + 1
       /\ Len(linkFlags) \in Nat
  <2>1. linked \in BOOLEAN /\ (IF linked THEN 0 ELSE label) \in Labels
    BY <1>6, LabelSizeAssumption DEF linked, Labels
  <2>2. linkFlags \in Seq(BOOLEAN) /\ louds \in Seq(BOOLEAN) /\ bases \in Seq(Labels)
    BY <1>1 DEF TypeOK
  <2>3. linkFlags' \in Seq(BOOLEAN) /\ Len(linkFlags') = Len(linkFlags) + 1
    BY <1>1, <2>1, <2>2, AppendProperties
  <2>4. bases' \in Seq(Labels) /\ Len(bases') = Len(bases) + 1
    BY <1>1, <2>1, <2>2, AppendProperties
  <2>5. louds' \in Seq(BOOLEAN)
    BY <1>1, <2>2, AppendProperties
  <2>6. Len(linkFlags) \in Nat
    BY <2>2, LenProperties
  <2> QED BY <2>3, <2>4, <2>5, <2>6
<1>11. TypeOK'
  <2>1. ASSUME NEW p \in DOMAIN wRanges'
        PROVE  MakeRange(wRanges'[p].begin, wRanges'[p].end, wRanges'[p].keyPos) \in RangeType
    <3>1. p + 1 \in DOMAIN wRanges /\ wRanges'[p] = wRanges[p + 1]
      BY <1>3, <1>9
    <3> QED BY <1>1, <3>1 DEF TypeOK
  <2>2. numL1Nodes' = numL1Nodes /\ terminals' = terminals /\ trieId' = trieId
    BY DEF PushChild
  <2> QED BY <1>1, <1>8, <1>10, <2>1, <2>2 DEF TypeOK
<1>12. StepShape'
  BY <1>1, <1>9 DEF StepShape
<1>13. SortedKeys' /\ KeysOfInput'
  BY <1>1 DEF BuildInv, SortedKeys, KeysOfInput
<1>14. RangesInBounds'
  <2>1. ASSUME NEW p \in DOMAIN queue'
        PROVE  queue'[p].begin <= queue'[p].end /\ queue'[p].end <= Len(keys) + 1
    <3>1. CASE p \in 1 .. n
      BY <3>1, <1>1, <1>3, <1>8 DEF BuildInv, RangesInBounds
    <3>2. CASE p = n + 1
      BY <3>2, <1>4, <1>7, <1>8
    <3> QED BY <3>1, <3>2, <1>3, <1>8
  <2>2. ASSUME NEW p \in DOMAIN wRanges'
        PROVE  wRanges'[p].begin < wRanges'[p].end /\ wRanges'[p].end <= Len(keys) + 1
    <3>1. p + 1 \in DOMAIN wRanges /\ wRanges'[p] = wRanges[p + 1]
      BY <1>3, <1>9
    <3> QED BY <1>1, <3>1 DEF BuildInv, RangesInBounds
  <2> QED BY <2>1, <2>2, <1>1 DEF RangesInBounds
<1>15. RangesExtend'
  <2>1. ASSUME NEW p \in DOMAIN queue'
        PROVE  Extensions(queue'[p].begin, queue'[p].end, queue'[p].keyPos)
    <3>1. CASE p \in 1 .. n
      BY <3>1, <1>1, <1>3, <1>8 DEF BuildInv, RangesExtend
    <3>2. CASE p = n + 1
      BY <3>2, <1>5, <1>7, <1>8
    <3> QED BY <3>1, <3>2, <1>3, <1>8
  <2>2. ASSUME NEW p \in DOMAIN wRanges'
        PROVE  Extensions(wRanges'[p].begin, wRanges'[p].end, wRanges'[p].keyPos + 1)
    <3>1. p + 1 \in DOMAIN wRanges /\ wRanges'[p] = wRanges[p + 1]
      BY <1>3, <1>9
    <3> QED BY <1>1, <3>1 DEF BuildInv, RangesExtend
  <2> QED BY SMTT(30), <2>1, <2>2, <1>1 DEF RangesExtend, Extensions
<1>16. KeysOnce'
  <2>1. \A i : i \in Within(pushed) <=> i \in Within(wRanges[1])
    BY <1>3, <1>7 DEF Within
  <2> SUFFICES ASSUME NEW i \in DOMAIN keys
               PROVE  /\ keys[i].data.kind = "weight" <=> InQueue(i)' \/ InChildren(i)'
                      /\ ~(InQueue(i)' /\ InChildren(i)')
                      /\ \A p, q \in DOMAIN queue' :
                           i \in Within(queue'[p]) /\ i \in Within(queue'[q]) => p = q
                      /\ \A p, q \in DOMAIN wRanges' :
                           i \in Within(wRanges'[p]) /\ i \in Within(wRanges'[q]) => p = q
    BY <1>1 DEF KeysOnce, Within
  <2>2. /\ keys[i].data.kind = "weight" <=> InQueue(i) \/ InChildren(i)
        /\ ~(InQueue(i) /\ InChildren(i))
        /\ \A p, q \in 1 .. n : i \in Within(queue[p]) /\ i \in Within(queue[q]) => p = q
        /\ \A p, q \in 1 .. m : i \in Within(wRanges[p]) /\ i \in Within(wRanges[q]) => p = q
    BY <1>1, <1>3 DEF BuildInv, KeysOnce
  <2>3. InQueue(i)' <=> InQueue(i) \/ i \in Within(wRanges[1])
    <3>1. InQueue(i)' <=> \E p \in 1 .. n + 1 : i \in Within(queue'[p])
      BY <1>8 DEF InQueue, Within
    <3>2. (\E p \in 1 .. n + 1 : i \in Within(queue'[p]))
            <=> (\E p \in 1 .. n : i \in Within(queue[p])) \/ i \in Within(pushed)
      <4>1. \A p \in 1 .. n + 1 : p \in 1 .. n \/ p = n + 1
        BY <1>3
      <4>2. (\A p \in 1 .. n : p \in 1 .. n + 1) /\ n + 1 \in 1 .. n + 1
        BY <1>3
      <4> QED BY <4>1, <4>2, <1>8
    <3> QED BY <3>1, <3>2, <2>1, <1>3 DEF InQueue
  <2>4. InChildren(i)' <=> \E p \in 2 .. m : i \in Within(wRanges[p])
    <3>1. InChildren(i)' <=> \E p \in 1 .. m - 1 : i \in Within(wRanges'[p])
      BY <1>9 DEF InChildren, Within
    <3>2. \A p \in 2 .. m : p - 1 \in 1 .. m - 1 /\ wRanges'[p - 1] = wRanges[p]
      BY <1>3, <1>9
    <3>3. \A p \in 1 .. m - 1 : p + 1 \in 2 .. m /\ wRanges'[p] = wRanges[p + 1]
      BY <1>3, <1>9
    <3> QED BY <3>1, <3>2, <3>3
  <2>5. InChildren(i) <=> i \in Within(wRanges[1]) \/ \E p \in 2 .. m : i \in Within(wRanges[p])
    <3>1. \A p \in 1 .. m : p = 1 \/ p \in 2 .. m
      BY <1>3
    <3>2. (\A p \in 2 .. m : p \in 1 .. m) /\ 1 \in 1 .. m
      BY <1>3
    <3> QED BY <3>1, <3>2, <1>3 DEF InChildren
  <2>6. ~(i \in Within(wRanges[1]) /\ \E p \in 2 .. m : i \in Within(wRanges[p]))
    <3>1. \A p \in 2 .. m : p \in 1 .. m /\ p # 1 /\ 1 \in 1 .. m
      BY <1>3
    <3> QED BY <2>2, <3>1
  <2>7. \A p, q \in DOMAIN queue' : i \in Within(queue'[p]) /\ i \in Within(queue'[q]) => p = q
    <3> SUFFICES ASSUME NEW p \in 1 .. n + 1, NEW q \in 1 .. n + 1,
                        i \in Within(queue'[p]), i \in Within(queue'[q])
                 PROVE  p = q
      BY <1>8
    <3>1. ASSUME NEW r \in 1 .. n, i \in Within(queue'[r])
          PROVE  i \in Within(queue[r]) /\ ~ i \in Within(pushed)
      <4>1. i \in Within(queue[r]) /\ InQueue(i)
        BY <3>1, <1>3, <1>8 DEF InQueue
      <4> QED BY <4>1, <2>1, <2>2, <2>5
    <3>2. (p \in 1 .. n \/ p = n + 1) /\ (q \in 1 .. n \/ q = n + 1)
      BY <1>3
    <3> QED BY <3>1, <3>2, <2>2, <1>8
  <2>8. \A p, q \in DOMAIN wRanges' : i \in Within(wRanges'[p]) /\ i \in Within(wRanges'[q]) => p = q
    <3> SUFFICES ASSUME NEW p \in 1 .. m - 1, NEW q \in 1 .. m - 1,
                        i \in Within(wRanges'[p]), i \in Within(wRanges'[q])
                 PROVE  p = q
      BY <1>9
    <3>1. p + 1 \in 1 .. m /\ q + 1 \in 1 .. m /\ p \in Int /\ q \in Int
      BY <1>3
    <3>2. p + 1 = q + 1
      BY <3>1, <2>2, <1>9
    <3> QED BY <3>1, <3>2
  <2> QED BY <2>2, <2>3, <2>4, <2>5, <2>6, <2>7, <2>8
<1>17. NodesCounted'
  BY <1>1, <1>3, <1>8, <1>10 DEF BuildInv, NodesCounted, n
<1>18. EndedKeys'
  <2>1. Len(linkFlags') - Len(queue') = Len(linkFlags) - Len(queue)
    BY <1>3, <1>8, <1>10 DEF n
  <2> QED BY <2>1, <1>1 DEF BuildInv, EndedKeys
<1> QED BY <1>1, <1>11, <1>12, <1>13, <1>14, <1>15, <1>16, <1>17, <1>18
        DEF IInv, BuildInv, TerminalsIdentifyKeys

\* What TakeRange leaves in w_ranges when every key of the range ends there.
LEMMA NoChildren ==
  ASSUME NEW r, NEW ws, ws = <<>>, NEW alive, alive = r.end, r.end \in Int
  PROVE  /\ ws \in Seq(Range(ws)) /\ Len(ws) = 0
         /\ alive .. r.end - 1 = {}
OBVIOUS

\* The node's range is replaced by those of its children, and its other keys
\* end there.
LEMMA TakeRangeKeeps == IInv /\ TakeRange => IInv'
<1> SUFFICES ASSUME IInv, TakeRange
             PROVE  IInv'
  OBVIOUS
<1> DEFINE r == Head(queue)
           alive == FirstAlive(r)
           n == Len(queue)
           Ended == r.begin .. alive - 1
           Going == alive .. r.end - 1
<1>1. /\ TypeOK /\ StepShape /\ BuildInv /\ pc = "take" /\ pc' = "push"
      /\ queue # <<>> /\ wRanges = <<>>
      /\ input' = input /\ linkFlags' = linkFlags /\ bases' = bases /\ louds' = louds
      /\ trieId' = trieId /\ terminals' = terminals
      /\ queue' = Tail(queue)
      /\ nodeId' = Len(linkFlags) - Len(queue)
      /\ keys' = [i \in DOMAIN keys |->
                    IF i \in Ended THEN [keys[i] EXCEPT !.data = Terminal(nodeId')]
                    ELSE keys[i]]
      /\ IF alive = r.end THEN wRanges' = <<>> /\ numL1Nodes' = numL1Nodes
         ELSE /\ wRanges' \in ChildRanges(alive, r.end, r.keyPos)
              /\ numL1Nodes' = IF nodeId' = 0 THEN Len(wRanges') ELSE numL1Nodes
  BY DEF IInv, TakeRange, Building, StepShape
<1>2. KeysTyped /\ SortedKeys /\ Len(keys) \in Nat /\ DOMAIN keys = 1 .. Len(keys)
  <2>1. KeysTyped /\ SortedKeys
    BY <1>1 DEF TypeOK, KeysTyped, BuildInv
  <2> QED BY <2>1, KeyFacts
<1>3. /\ n \in Nat \ {0} /\ DOMAIN queue = 1 .. n /\ queue \in Seq(RangeType)
      /\ r = queue[1] /\ r \in RangeType /\ 1 \in DOMAIN queue
  BY <1>1 DEF TypeOK
<1>4. /\ r.begin \in Nat \ {0} /\ r.end \in Nat \ {0} /\ r.keyPos \in Nat
      /\ r.begin <= r.end /\ r.end <= Len(keys) + 1
      /\ Extensions(r.begin, r.end, r.keyPos)
  <2>1. r.begin <= r.end /\ r.end <= Len(keys) + 1 /\ Extensions(r.begin, r.end, r.keyPos)
    BY <1>1, <1>3 DEF BuildInv, RangesInBounds, RangesExtend
  <2> QED BY <2>1, <1>3 DEF RangeType
<1>5. /\ alive \in r.begin .. r.end
      /\ \A i \in Ended : Len(keys[i].str) = r.keyPos
      /\ \A i \in Going : Len(keys[i].str) > r.keyPos
  <2> HIDE DEF r
  <2> QED BY <1>2, <1>3, <1>4, AliveKeys
<1>6. /\ wRanges' \in Seq(Range(wRanges'))
      /\ \A p \in 1 .. Len(wRanges') :
           /\ MakeRange(wRanges'[p].begin, wRanges'[p].end, wRanges'[p].keyPos) \in RangeType
           /\ wRanges'[p].begin < wRanges'[p].end /\ wRanges'[p].end <= Len(keys) + 1
           /\ Within(wRanges'[p]) \subseteq Going
           /\ Extensions(wRanges'[p].begin, wRanges'[p].end, wRanges'[p].keyPos + 1)
      /\ \A i \in Going : \E p \in 1 .. Len(wRanges') : i \in Within(wRanges'[p])
      /\ \A i \in Going : \A p, q \in 1 .. Len(wRanges') :
           i \in Within(wRanges'[p]) /\ i \in Within(wRanges'[q]) => p = q
  <2>1. CASE alive = r.end
    <3>1. Going = {} /\ wRanges' = <<>>
      BY <2>1, <1>1, <1>4, NoChildren
    <3> HIDE DEF Going
    <3> QED BY <3>1
  <2>2. CASE alive # r.end
    <3>1. wRanges' \in ChildRanges(alive, r.end, r.keyPos)
      BY <2>2, <1>1
    <3> HIDE DEF r
    <3> QED BY <2>2, <3>1, <1>2, <1>3, <1>4, SplitRange
  <2> QED BY <2>1, <2>2
<1> HIDE DEF r, alive, n
<1>7. /\ queue' \in Seq(RangeType) /\ Len(queue') = n - 1 /\ DOMAIN queue' = 1 .. n - 1
      /\ \A p \in 1 .. n - 1 : queue'[p] = queue[p + 1]
  <2>1. /\ queue' \in Seq(RangeType) /\ Len(queue') = n - 1
        /\ \A p \in 1 .. n - 1 : queue'[p] = queue[p + 1]
    BY <1>1, <1>3, HeadTailProperties DEF n
  <2> QED BY <2>1, LenProperties
<1>8. Len(wRanges') \in Nat /\ DOMAIN wRanges' = 1 .. Len(wRanges')
  BY <1>6, LenProperties
<1>9. Len(linkFlags) \in Nat /\ n <= Len(linkFlags) /\ nodeId' \in Nat
      /\ nodeId' = Len(linkFlags) - n
  BY <1>1, <1>3 DEF TypeOK, BuildInv, NodesCounted, n
<1>10. /\ DOMAIN keys' = DOMAIN keys /\ keys' \in Seq(KeyType) /\ Len(keys') = Len(keys)
       /\ \A i \in DOMAIN keys :
            /\ keys'[i].str = keys[i].str /\ keys'[i].id = keys[i].id
            /\ i \in Ended => keys'[i].data.kind = "terminal" /\ keys'[i].data.val = nodeId'
            /\ i \notin Ended => keys'[i].data = keys[i].data
  <2>1. ASSUME NEW key \in KeyType
        PROVE  LET new == [key EXCEPT !.data = Terminal(nodeId')] IN
               /\ new \in KeyType /\ new.str = key.str /\ new.id = key.id
               /\ new.data.kind = "terminal" /\ new.data.val = nodeId'
    BY <1>9 DEF KeyType, Terminal
  <2>2. \A i \in DOMAIN keys : keys[i] \in KeyType
    BY <1>2, KeyFacts
  <2>3. \A i \in DOMAIN keys :
          /\ keys'[i] \in KeyType
          /\ keys'[i].str = keys[i].str /\ keys'[i].id = keys[i].id
          /\ i \in Ended => keys'[i].data.kind = "terminal" /\ keys'[i].data.val = nodeId'
          /\ i \notin Ended => keys'[i].data = keys[i].data
    <3> SUFFICES ASSUME NEW i \in DOMAIN keys
                 PROVE  /\ keys'[i] \in KeyType
                        /\ keys'[i].str = keys[i].str /\ keys'[i].id = keys[i].id
                        /\ i \in Ended => /\ keys'[i].data.kind = "terminal"
                                         /\ keys'[i].data.val = nodeId'
                        /\ i \notin Ended => keys'[i].data = keys[i].data
      OBVIOUS
    <3>1. CASE i \in Ended
      <4>1. keys'[i] = [keys[i] EXCEPT !.data = Terminal(nodeId')]
        BY <3>1, <1>1
      <4> HIDE DEF Ended
      <4> QED BY <3>1, <4>1, <2>1, <2>2
    <3>2. CASE i \notin Ended
      <4>1. keys'[i] = keys[i]
        BY <3>2, <1>1
      <4> QED BY <3>2, <4>1, <2>2
    <3> QED BY <3>1, <3>2
  <2>4. DOMAIN keys' = DOMAIN keys
    BY <1>1
  <2>5. keys' \in Seq(KeyType) /\ Len(keys') = Len(keys)
    <3>1. keys' \in [1 .. Len(keys) -> KeyType]
      <4>1. keys' = [i \in 1 .. Len(keys) |-> keys'[i]]
        BY <1>1, <1>2
      <4> HIDE DEF KeyType
      <4> QED BY <4>1, <2>3, <1>2
    <3> HIDE DEF KeyType
    <3> QED BY <3>1, <1>2
  <2> QED BY <2>3, <2>4, <2>5
<1>11. TypeOK'
  <2>1. numL1Nodes' \in Nat
    BY <1>1, <1>8 DEF TypeOK
  <2> QED BY <1>1, <1>6, <1>7, <1>8, <1>9, <1>10, <2>1 DEF TypeOK
<1>12. StepShape'
  BY <1>1, <1>6 DEF StepShape
<1>13. SortedKeys' /\ KeysOfInput'
  <2>1. SortedKeys /\ KeysOfInput
    BY <1>1 DEF BuildInv
  <2>2. SortedKeys'
    BY <2>1, <1>10 DEF SortedKeys
  <2>3. KeysOfInput'
    BY <2>1, <1>1, <1>10 DEF KeysOfInput
  <2> QED BY <2>2, <2>3
<1>14. \A p \in DOMAIN queue' : p + 1 \in DOMAIN queue /\ queue'[p] = queue[p + 1]
  BY <1>3, <1>7
<1>15. RangesInBounds'
  BY <1>1, <1>6, <1>8, <1>10, <1>14 DEF BuildInv, RangesInBounds
<1>16. RangesExtend'
  <2> DEFINE ExtensionsAfter(begin, end, k) ==
               \A i \in begin .. end - 1 :
                 /\ i \in DOMAIN keys'
                 /\ Len(keys'[i].str) >= k
                 /\ \A j \in DOMAIN keys' :
                      j \in begin .. end - 1 <=>
                        /\ Len(keys'[j].str) >= k
                        /\ \A q \in 1 .. k : keys'[j].str[q] = keys'[i].str[q]
  <2>1. ASSUME NEW begin, NEW end, NEW k, Extensions(begin, end, k)
        PROVE  ExtensionsAfter(begin, end, k)
    <3> SUFFICES ASSUME NEW i \in begin .. end - 1
                 PROVE  /\ i \in DOMAIN keys'
                        /\ Len(keys'[i].str) >= k
                        /\ \A j \in DOMAIN keys' :
                             j \in begin .. end - 1 <=>
                               /\ Len(keys'[j].str) >= k
                               /\ \A q \in 1 .. k : keys'[j].str[q] = keys'[i].str[q]
      OBVIOUS
    <3>1. i \in DOMAIN keys /\ Len(keys[i].str) >= k
      BY <2>1 DEF Extensions
    <3>2. \A j \in DOMAIN keys :
            j \in begin .. end - 1 <=>
              /\ Len(keys[j].str) >= k
              /\ \A q \in 1 .. k : keys[j].str[q] = keys[i].str[q]
      BY <2>1 DEF Extensions
    <3>3. \A j \in DOMAIN keys' : j \in DOMAIN keys /\ keys'[j].str = keys[j].str
      BY <1>10
    <3>4. i \in DOMAIN keys' /\ keys'[i].str = keys[i].str
      BY <3>1, <1>10
    <3> QED BY <3>1, <3>2, <3>3, <3>4
  <2> HIDE DEF ExtensionsAfter
  <2>2. \A p \in DOMAIN queue' :
          ExtensionsAfter(queue'[p].begin, queue'[p].end, queue'[p].keyPos)
    BY <2>1, <1>1, <1>14 DEF BuildInv, RangesExtend
  <2>3. \A p \in DOMAIN wRanges' :
          ExtensionsAfter(wRanges'[p].begin, wRanges'[p].end, wRanges'[p].keyPos + 1)
    BY <2>1, <1>6, <1>8
  <2> QED BY <2>2, <2>3 DEF RangesExtend, Extensions, ExtensionsAfter
<1>17. \A i \in DOMAIN keys : i \in Within(r) <=> i \in Ended \/ i \in Going
  BY <1>2, <1>4, <1>5 DEF Within
<1>18. \A i \in Ended : i \notin Going
  BY <1>4, <1>5
<1> HIDE DEF Ended, Going
<1>19. KeysOnce'
  <2> SUFFICES ASSUME NEW i \in DOMAIN keys
               PROVE  /\ keys'[i].data.kind = "weight" <=> InQueue(i)' \/ InChildren(i)'
                      /\ ~(InQueue(i)' /\ InChildren(i)')
                      /\ \A p, q \in DOMAIN queue' :
                           i \in Within(queue'[p]) /\ i \in Within(queue'[q]) => p = q
                      /\ \A p, q \in DOMAIN wRanges' :
                           i \in Within(wRanges'[p]) /\ i \in Within(wRanges'[q]) => p = q
    BY <1>10 DEF KeysOnce, Within
  <2> DEFINE Rest == \E p \in 2 .. n : i \in Within(queue[p])
  <2>1. /\ keys[i].data.kind = "weight" <=> InQueue(i)
        /\ \A p, q \in 1 .. n : i \in Within(queue[p]) /\ i \in Within(queue[q]) => p = q
    BY <1>1, <1>3 DEF BuildInv, KeysOnce, InChildren
  <2>2. /\ InQueue(i) <=> i \in Within(r) \/ Rest
        /\ ~(i \in Within(r) /\ Rest)
    <3>1. \A p \in 1 .. n : p = 1 \/ p \in 2 .. n
      BY <1>3
    <3>2. (\A p \in 2 .. n : p \in 1 .. n /\ p # 1) /\ 1 \in 1 .. n
      BY <1>3
    <3> QED BY <3>1, <3>2, <2>1, <1>3 DEF InQueue
  <2>3. InQueue(i)' <=> Rest
    <3>1. InQueue(i)' <=> \E p \in 1 .. n - 1 : i \in Within(queue'[p])
      BY <1>7 DEF InQueue, Within
    <3>2. \A p \in 2 .. n : p - 1 \in 1 .. n - 1 /\ queue'[p - 1] = queue[p]
      BY <1>3, <1>7
    <3>3. \A p \in 1 .. n - 1 : p + 1 \in 2 .. n /\ queue'[p] = queue[p + 1]
      BY <1>3, <1>7
    <3> QED BY <3>1, <3>2, <3>3
  <2>4. InChildren(i)' <=> i \in Going
    <3>1. InChildren(i)' <=> \E p \in 1 .. Len(wRanges') : i \in Within(wRanges'[p])
      BY <1>8 DEF InChildren, Within
    <3> QED BY <3>1, <1>6
  <2>5. \A p, q \in DOMAIN queue' : i \in Within(queue'[p]) /\ i \in Within(queue'[q]) => p = q
    <3> SUFFICES ASSUME NEW p \in 1 .. n - 1, NEW q \in 1 .. n - 1,
                        i \in Within(queue'[p]), i \in Within(queue'[q])
                 PROVE  p = q
      BY <1>7
    <3>1. p + 1 \in 1 .. n /\ q + 1 \in 1 .. n /\ p \in Int /\ q \in Int
      BY <1>3
    <3>2. p + 1 = q + 1
      BY <3>1, <2>1, <1>7
    <3> QED BY <3>1, <3>2
  <2>6. \A p, q \in DOMAIN wRanges' : i \in Within(wRanges'[p]) /\ i \in Within(wRanges'[q]) => p = q
    <3> SUFFICES ASSUME NEW p \in 1 .. Len(wRanges'), NEW q \in 1 .. Len(wRanges'),
                        i \in Within(wRanges'[p]), i \in Within(wRanges'[q])
                 PROVE  p = q
      BY <1>8
    <3>1. i \in Going
      BY <1>6
    <3> QED BY <3>1, <1>6
  <2>7. keys'[i].data.kind = "weight" <=> i \notin Ended /\ keys[i].data.kind = "weight"
    BY <1>10
  <2> HIDE DEF Rest
  <2> QED BY <2>1, <2>2, <2>3, <2>4, <2>5, <2>6, <2>7, <1>17, <1>18
<1>20. NodesCounted'
  BY <1>1, <1>3, <1>7, <1>9 DEF NodesCounted, n
<1>21. EndedKeys'
  <2>1. \A i \in DOMAIN keys : /\ keys[i].str \in Seq(Labels) /\ Len(keys[i].str) \in Nat
                             /\ keys[i].data.val \in Nat
    BY <1>2, KeyFacts DEF KeyType, Strings
  <2>2. Len(linkFlags') - Len(queue') = nodeId' + 1
    BY <1>1, <1>3, <1>7, <1>9
  <2>3. EndedKeys /\ Len(linkFlags) - Len(queue) = nodeId'
    BY <1>1, <1>9 DEF BuildInv, n
  <2>4. ASSUME NEW i \in Ended
        PROVE  /\ i \in DOMAIN keys /\ i \in r.begin .. r.end - 1 /\ Len(keys[i].str) = r.keyPos
               /\ keys[i].data.kind = "weight"
    <3>1. i \in r.begin .. r.end - 1 /\ Len(keys[i].str) = r.keyPos
      BY <1>4, <1>5 DEF Ended
    <3>2. i \in DOMAIN keys
      BY <1>4, <3>1 DEF Extensions
    <3>3. InQueue(i)
      BY <1>3, <3>1 DEF InQueue, Within
    <3> QED BY <3>1, <3>2, <3>3, <1>1 DEF BuildInv, KeysOnce
  <2>5. ASSUME NEW i \in Ended, NEW j \in Ended
        PROVE  keys[i].str = keys[j].str
    <3>1. /\ keys[i].str \in Seq(Labels) /\ keys[j].str \in Seq(Labels)
          /\ Len(keys[i].str) = r.keyPos /\ Len(keys[j].str) = r.keyPos
          /\ \A q \in 1 .. r.keyPos : keys[j].str[q] = keys[i].str[q]
      BY <2>1, <2>4, <1>4 DEF Extensions
    <3> QED BY <3>1, SeqEqual
  <2>6. ASSUME NEW i \in Ended, NEW j \in DOMAIN keys, j \notin Ended
        PROVE  /\ keys[i].str # keys[j].str
               /\ keys[j].data.kind = "terminal" => keys[j].data.val < nodeId'
    <3>1. ASSUME keys[i].str = keys[j].str PROVE FALSE
      <4>1. Len(keys[j].str) = r.keyPos /\ \A q \in 1 .. r.keyPos : keys[j].str[q] = keys[i].str[q]
        BY <3>1, <2>4
      <4>2. j \in r.begin .. r.end - 1
        BY <4>1, <2>4, <1>4 DEF Extensions
      <4>3. j \in Going
        BY <4>2, <2>6, <1>17 DEF Within
      <4> QED BY <4>1, <4>3, <1>4, <1>5 DEF Going
    <3>2. keys[j].data.kind = "terminal" => keys[j].data.val < nodeId'
      BY <2>3, <2>6 DEF EndedKeys
    <3> QED BY <3>1, <3>2
  <2> SUFFICES ASSUME NEW i \in DOMAIN keys, NEW j \in DOMAIN keys,
                      keys'[i].data.kind = "terminal"
               PROVE  /\ keys'[i].data.val < Len(linkFlags') - Len(queue')
                      /\ keys'[j].data.kind = "terminal" =>
                           (keys'[i].data.val = keys'[j].data.val <=> keys'[i].str = keys'[j].str)
                      /\ keys'[j].data.kind = "weight" => keys'[i].str # keys'[j].str
    BY <1>10 DEF EndedKeys
  <2>7. CASE i \in Ended
    <3>1. keys'[i].data.val = nodeId' /\ keys'[i].str = keys[i].str /\ keys'[j].str = keys[j].str
      BY <2>7, <1>10
    <3>2. CASE j \in Ended
      BY <2>2, <2>5, <2>7, <3>1, <3>2, <1>9, <1>10
    <3>3. CASE j \notin Ended
      BY <2>1, <2>2, <2>6, <2>7, <3>1, <3>3, <1>9, <1>10
    <3> QED BY <3>2, <3>3
  <2>8. CASE i \notin Ended
    <3>1. /\ keys[i].data.kind = "terminal" /\ keys'[i].data.val = keys[i].data.val
          /\ keys'[i].str = keys[i].str /\ keys'[j].str = keys[j].str
          /\ keys[i].data.val < nodeId'
      BY <2>3, <2>8, <1>10 DEF EndedKeys
    <3>2. CASE j \in Ended
      BY <2>1, <2>2, <2>6, <2>8, <3>1, <3>2, <1>9, <1>10
    <3>3. CASE j \notin Ended
      <4>1. keys'[j].data = keys[j].data
        BY <3>3, <1>10
      <4>2. keys[i].data.val < nodeId' + 1
        BY <2>1, <3>1, <1>9
      <4> QED BY <2>2, <2>3, <3>1, <4>1, <4>2 DEF EndedKeys
    <3> QED BY <3>2, <3>3
  <2> QED BY <2>7, <2>8
<1> QED BY <1>1, <1>11, <1>12, <1>13, <1>15, <1>16, <1>19, <1>20, <1>21
        DEF IInv, BuildInv, TerminalsIdentifyKeys

---------------------------------------------------------------------------
(* The theorems.                                                           *)

\* Every step of build_current_trie keeps the invariant.
LEMMA StepKeeps ==
  ASSUME IInv, [Next]_currentVars
  PROVE  IInv'
<1>1. CASE Begin
  BY <1>1, BeginKeeps
<1>2. CASE TakeRange
  BY <1>2, TakeRangeKeeps
<1>3. CASE PushChild
  BY <1>3, PushChildKeeps
<1>4. CASE CloseNode
  BY <1>4, CloseNodeKeeps
<1>5. CASE Finish
  BY <1>5, FinishKeeps
<1>6. CASE UNCHANGED currentVars
  <2> USE <1>6 DEF currentVars, trieVars, levelVars
  <2>1. TypeOK' /\ StepShape' /\ TerminalsIdentifyKeys'
    BY DEF IInv, TypeOK, StepShape, TerminalsIdentifyKeys
  <2>2. Building => BuildInv'
    <3> SUFFICES ASSUME BuildInv
                 PROVE  BuildInv'
      BY DEF IInv
    <3>1. SortedKeys' /\ KeysOfInput' /\ RangesInBounds'
      BY DEF BuildInv, SortedKeys, KeysOfInput, RangesInBounds
    <3>2. RangesExtend'
      BY DEF BuildInv, RangesExtend, Extensions
    <3>3. KeysOnce'
      BY DEF BuildInv, KeysOnce, InQueue, InChildren, Within
    <3>4. NodesCounted' /\ EndedKeys'
      BY DEF BuildInv, NodesCounted, EndedKeys
    <3> QED BY <3>1, <3>2, <3>3, <3>4 DEF BuildInv
  <2> QED BY <2>1, <2>2 DEF IInv, Building
<1> QED BY <1>1, <1>2, <1>3, <1>4, <1>5, <1>6 DEF Next, NextCurrent

\* The invariant holds in every state of a build.
THEOREM Invariant == Spec => []IInv
<1>1. Init => IInv
  BY InitKeeps
<1>2. IInv /\ [Next]_currentVars => IInv'
  BY StepKeeps
<1> QED BY <1>1, <1>2, PTL DEF Spec

\* build_current_trie's variables have their types, and as many keys as they
\* came, whatever keys, labels and config a level is built with.
THEOREM TypeCorrect == Spec => []TypeOK
<1>1. IInv => TypeOK
  BY DEF IInv
<1> QED BY <1>1, Invariant, PTL

\* build_current_trie gives two keys the same node exactly when they are
\* equal, for keysets of every size.
THEOREM TerminalsAreKeys == Spec => []TerminalsIdentifyKeys
<1>1. IInv => TerminalsIdentifyKeys
  BY DEF IInv
<1> QED BY <1>1, Invariant, PTL

\* Pending as one sequence: the queue, then the children.
LEMMA PendingFacts ==
  ASSUME TypeOK, StepShape
  PROVE  /\ Len(queue) \in Nat /\ DOMAIN queue = 1 .. Len(queue)
         /\ Len(wRanges) \in Nat /\ DOMAIN wRanges = 1 .. Len(wRanges)
         /\ DOMAIN Pending = 1 .. Len(queue) + Len(wRanges)
         /\ \A p \in DOMAIN Pending :
              \/ p \in DOMAIN queue /\ Pending[p] = queue[p]
              \/ /\ p > Len(queue) /\ p - Len(queue) \in DOMAIN wRanges
                 /\ Pending[p] = wRanges[p - Len(queue)]
<1>1. queue \in Seq(RangeType \cup Range(wRanges)) /\ wRanges \in Seq(RangeType \cup Range(wRanges))
  BY SeqMonotonic DEF TypeOK, StepShape
<1>2. /\ Len(queue) \in Nat /\ DOMAIN queue = 1 .. Len(queue)
      /\ Len(wRanges) \in Nat /\ DOMAIN wRanges = 1 .. Len(wRanges)
  BY <1>1, LenProperties
<1>3. /\ Pending \in Seq(RangeType \cup Range(wRanges))
      /\ Len(Pending) = Len(queue) + Len(wRanges)
      /\ \A p \in 1 .. Len(queue) + Len(wRanges) :
           Pending[p] = IF p <= Len(queue) THEN queue[p] ELSE wRanges[p - Len(queue)]
  BY <1>1, ConcatProperties DEF Pending
<1>4. DOMAIN Pending = 1 .. Len(queue) + Len(wRanges)
  BY <1>3, LenProperties
<1> QED BY <1>2, <1>3, <1>4

\* No weight is read from a key that has ended, and none is lost: while a
\* level is built each key is in one pending range, or ended and in none.
THEOREM KeysPendOnce == Spec => []PendingKeysOnce
<1>1. IInv => PendingKeysOnce
  <2> SUFFICES ASSUME TypeOK, StepShape, KeysOnce, NEW i \in DOMAIN keys
               PROVE  IF keys[i].data.kind = "weight"
                      THEN \E p \in DOMAIN Pending :
                             /\ i \in Within(Pending[p])
                             /\ \A q \in DOMAIN Pending : i \in Within(Pending[q]) => q = p
                      ELSE \A p \in DOMAIN Pending : i \notin Within(Pending[p])
    BY DEF IInv, BuildInv, PendingKeysOnce
  <2>1. /\ \A p \in DOMAIN queue : p \in DOMAIN Pending /\ Pending[p] = queue[p]
        /\ \A p \in DOMAIN wRanges : /\ p + Len(queue) \in DOMAIN Pending
                                     /\ Pending[p + Len(queue)] = wRanges[p]
    BY PendingFacts
  <2>2. \A p \in DOMAIN Pending : i \in Within(Pending[p]) =>
          \/ p \in DOMAIN queue /\ i \in Within(queue[p]) /\ InQueue(i)
          \/ /\ p - Len(queue) \in DOMAIN wRanges /\ i \in Within(wRanges[p - Len(queue)])
             /\ InChildren(i)
    BY PendingFacts DEF InQueue, InChildren
  <2>3. \A p, q \in DOMAIN Pending : i \in Within(Pending[p]) /\ i \in Within(Pending[q]) => q = p
    <3> SUFFICES ASSUME NEW p \in DOMAIN Pending, NEW q \in DOMAIN Pending,
                        i \in Within(Pending[p]), i \in Within(Pending[q])
                 PROVE  q = p
      OBVIOUS
    <3>1. p \in Int /\ q \in Int /\ Len(queue) \in Int
      BY PendingFacts
    <3>2. CASE InQueue(i)
      BY <2>2, <3>2 DEF KeysOnce
    <3>3. CASE InChildren(i)
      <4>1. p - Len(queue) = q - Len(queue)
        BY <2>2, <3>3 DEF KeysOnce
      <4> QED BY <3>1, <4>1
    <3> QED BY <2>2, <3>2, <3>3
  <2>4. keys[i].data.kind = "weight" <=> \E p \in DOMAIN Pending : i \in Within(Pending[p])
    BY <2>1, <2>2 DEF KeysOnce, InQueue, InChildren
  <2> QED BY <2>3, <2>4
<1> QED BY <1>1, Invariant, PTL

\* The ranges are the subtrees: a pending range holds all the keys that extend
\* what its node spells and no other, so no key is read past its end.
THEOREM RangesAreSubtrees == Spec => []RangesHoldExtensions
<1>1. IInv => RangesHoldExtensions
  <2> SUFFICES ASSUME TypeOK, StepShape, RangesExtend, NEW p \in DOMAIN Pending
               PROVE  Extensions(Pending[p].begin, Pending[p].end, SharedLen(p))
    BY DEF IInv, BuildInv, RangesHoldExtensions, Extensions, Within
  <2>1. CASE p \in DOMAIN queue /\ Pending[p] = queue[p]
    <3>1. SharedLen(p) = queue[p].keyPos
      <4>1. ~ p > Len(queue) /\ queue[p] \in RangeType
        BY <2>1, PendingFacts DEF TypeOK
      <4> QED BY <4>1, <2>1 DEF SharedLen, RangeType
    <3> QED BY <2>1, <3>1 DEF RangesExtend
  <2>2. CASE /\ p > Len(queue) /\ p - Len(queue) \in DOMAIN wRanges
             /\ Pending[p] = wRanges[p - Len(queue)]
    <3>1. SharedLen(p) = wRanges[p - Len(queue)].keyPos + 1
      BY <2>2 DEF SharedLen
    <3> QED BY <2>2, <3>1 DEF RangesExtend
  <2> QED BY <2>1, <2>2, PendingFacts
<1> QED BY <1>1, Invariant, PTL

---------------------------------------------------------------------------
(* Bit vectors that grow at their end.                                     *)

\* Position p is that of the n-th one.
OneAt(bits, p, n) == p \in 0 .. Len(bits) - 1 /\ At(bits, p) /\ Rank1(bits, p) = n

\* A rank is a number.
LEMMA RankIsNat ==
  ASSUME NEW bits, NEW i \in Nat
  PROVE  Rank1(bits, i) \in Nat /\ IsFiniteSet({p \in 1 .. i : bits[p]})
<1>1. IsFiniteSet(1 .. i)
  BY i \in Int, FS_Interval
<1>2. IsFiniteSet({p \in 1 .. i : bits[p]})
  BY <1>1, FS_Subset
<1> QED BY <1>2, FS_CardinalityType DEF Rank1

\* A rank is that of the position before, and one more after a one.
LEMMA RankNext ==
  ASSUME NEW bits, NEW i \in Nat
  PROVE  /\ bits[i + 1] => Rank1(bits, i + 1) = Rank1(bits, i) + 1
         /\ ~bits[i + 1] => Rank1(bits, i + 1) = Rank1(bits, i)
<1> DEFINE Ones(k) == {p \in 1 .. k : bits[p]}
<1>1. IsFiniteSet(Ones(i)) /\ i + 1 \notin Ones(i)
  <2>1. i + 1 \notin 1 .. i
    OBVIOUS
  <2> QED BY <2>1, RankIsNat
<1>2. ASSUME bits[i + 1] PROVE Ones(i + 1) = Ones(i) \cup {i + 1}
  BY <1>2
<1>3. ASSUME ~bits[i + 1] PROVE Ones(i + 1) = Ones(i)
  BY <1>3
<1>4. Cardinality(Ones(i) \cup {i + 1}) = Cardinality(Ones(i)) + 1
  <2> HIDE DEF Ones
  <2> QED BY <1>1, FS_AddElement
<1> QED BY <1>2, <1>3, <1>4 DEF Rank1

\* Ranks grow with the position.
LEMMA RankGrows ==
  ASSUME NEW bits, NEW i \in Nat, NEW j \in Nat, i <= j
  PROVE  Rank1(bits, i) <= Rank1(bits, j)
<1>1. {p \in 1 .. i : bits[p]} \subseteq {p \in 1 .. j : bits[p]}
  OBVIOUS
<1> QED BY <1>1, RankIsNat, FS_Subset DEF Rank1

\* There is one n-th one.
LEMMA OneIsUnique ==
  ASSUME NEW bits \in Seq(BOOLEAN), NEW n, NEW p, NEW q, OneAt(bits, p, n), OneAt(bits, q, n)
  PROVE  p = q
<1>1. p \in Nat /\ q \in Nat /\ bits[p + 1] /\ bits[q + 1]
      /\ Rank1(bits, p) = n /\ Rank1(bits, q) = n
  BY DEF OneAt, At
<1>2. n \in Nat /\ Rank1(bits, p + 1) = n + 1 /\ Rank1(bits, q + 1) = n + 1
  BY <1>1, RankNext, RankIsNat
<1>3. ~(p + 1 <= q) /\ ~(q + 1 <= p)
  <2>1. p + 1 \in Nat /\ q + 1 \in Nat
    BY <1>1
  <2>2. p + 1 <= q => n + 1 <= n
    BY <1>1, <1>2, <2>1, RankGrows
  <2>3. q + 1 <= p => n + 1 <= n
    BY <1>1, <1>2, <2>1, RankGrows
  <2> QED BY <1>2, <2>2, <2>3
<1> QED BY <1>1, <1>3

\* select1 finds the one, wherever it is.
LEMMA SelectIs ==
  ASSUME NEW bits \in Seq(BOOLEAN), NEW n, NEW p, OneAt(bits, p, n)
  PROVE  Select1(bits, n) = p
<1>1. p \in 0 .. Len(bits) - 1 /\ At(bits, p) /\ Rank1(bits, p) = n
  BY DEF OneAt
<1>2. OneAt(bits, Select1(bits, n), n)
  BY <1>1 DEF Select1, OneAt
<1> QED BY <1>2, OneIsUnique

\* What a vector answers stays when a bit is added.
LEMMA RankAppend ==
  ASSUME NEW bits \in Seq(BOOLEAN), NEW b \in BOOLEAN, NEW i \in 0 .. Len(bits)
  PROVE  Rank1(Append(bits, b), i) = Rank1(bits, i)
<1>1. \A p \in 1 .. i : Append(bits, b)[p] = bits[p]
  BY AppendProperties
<1>2. {p \in 1 .. i : Append(bits, b)[p]} = {p \in 1 .. i : bits[p]}
  BY <1>1
<1> QED BY <1>2 DEF Rank1

\* A bit at the end: the ones there are, and the one it may be.
LEMMA OnesAppend ==
  ASSUME NEW bits \in Seq(BOOLEAN), NEW b \in BOOLEAN
  PROVE  /\ Len(Append(bits, b)) = Len(bits) + 1 /\ Append(bits, b) \in Seq(BOOLEAN)
         /\ NumOnes(bits) \in Nat
         /\ b => /\ NumOnes(Append(bits, b)) = NumOnes(bits) + 1
                 /\ OneAt(Append(bits, b), Len(bits), NumOnes(bits))
         /\ ~b => NumOnes(Append(bits, b)) = NumOnes(bits)
<1>1. /\ Len(bits) \in Nat /\ Len(Append(bits, b)) = Len(bits) + 1
      /\ Append(bits, b)[Len(bits) + 1] = b /\ Append(bits, b) \in Seq(BOOLEAN)
  BY AppendProperties
<1>2. Rank1(Append(bits, b), Len(bits)) = NumOnes(bits) /\ NumOnes(bits) \in Nat
  <2>1. Len(bits) \in 0 .. Len(bits)
    BY <1>1
  <2> QED BY <1>1, <2>1, RankAppend, RankIsNat DEF NumOnes
<1>3. /\ b => Rank1(Append(bits, b), Len(bits) + 1) = NumOnes(bits) + 1
      /\ ~b => Rank1(Append(bits, b), Len(bits) + 1) = NumOnes(bits)
  BY <1>1, <1>2, RankNext
<1>4. b => OneAt(Append(bits, b), Len(bits), NumOnes(bits))
  BY <1>1, <1>2 DEF OneAt, At
<1> QED BY <1>1, <1>2, <1>3, <1>4 DEF NumOnes

\* A one keeps its number when a bit follows.
LEMMA OneStays ==
  ASSUME NEW bits \in Seq(BOOLEAN), NEW b \in BOOLEAN, NEW n, NEW p, OneAt(bits, p, n)
  PROVE  OneAt(Append(bits, b), p, n)
<1>1. /\ Len(bits) \in Nat /\ Len(Append(bits, b)) = Len(bits) + 1
      /\ p \in 0 .. Len(bits) /\ p \in 0 .. Len(bits) - 1 /\ p + 1 \in 1 .. Len(bits)
  BY AppendProperties DEF OneAt
<1>2. Append(bits, b)[p + 1] = bits[p + 1]
  BY <1>1, AppendProperties
<1>3. p \in 0 .. Len(bits) + 1 - 1
  BY <1>1
<1> QED BY <1>1, <1>2, <1>3, RankAppend DEF OneAt, At

\* Two pieces of a string that meet.
LEMMA SubSeqJoin ==
  ASSUME NEW S, NEW s \in Seq(S), NEW a \in Nat, NEW b \in Nat, a <= b, b <= Len(s)
  PROVE  SubSeq(s, 1, a) \o SubSeq(s, a + 1, b) = SubSeq(s, 1, b)
<1>1. Len(s) \in Nat
  BY LenProperties
<1>2. /\ SubSeq(s, 1, a) \in Seq(S) /\ Len(SubSeq(s, 1, a)) = a
      /\ \A i \in 1 .. a : SubSeq(s, 1, a)[i] = s[i]
  BY <1>1, SubSeqProperties
<1>3. /\ SubSeq(s, 1, b) \in Seq(S) /\ Len(SubSeq(s, 1, b)) = b
      /\ \A i \in 1 .. b : SubSeq(s, 1, b)[i] = s[i]
  BY <1>1, SubSeqProperties
<1>4. /\ SubSeq(s, a + 1, b) \in Seq(S) /\ Len(SubSeq(s, a + 1, b)) = b - a
      /\ \A i \in 1 .. b - a : SubSeq(s, a + 1, b)[i] = s[a + i]
  BY <1>1, SubSeqProperties
<1> DEFINE t == SubSeq(s, 1, a) \o SubSeq(s, a + 1, b)
<1>5. /\ t \in Seq(S) /\ Len(t) = b
      /\ \A i \in 1 .. b : t[i] = s[i]
  <2>1. t \in Seq(S) /\ Len(t) = a + (b - a)
        /\ \A i \in 1 .. a + (b - a) :
             t[i] = IF i <= a THEN SubSeq(s, 1, a)[i] ELSE SubSeq(s, a + 1, b)[i - a]
    <3>1. PICK u \in Seq(S), v \in Seq(S) : u = SubSeq(s, 1, a) /\ v = SubSeq(s, a + 1, b)
      BY <1>2, <1>4
    <3>2. /\ u \o v \in Seq(S) /\ Len(u \o v) = Len(u) + Len(v)
          /\ \A i \in 1 .. Len(u) + Len(v) : (u \o v)[i] = IF i <= Len(u) THEN u[i] ELSE v[i - Len(u)]
      BY ConcatProperties
    <3>3. Len(u) = a /\ Len(v) = b - a
      BY <1>2, <1>4, <3>1
    <3> QED BY <3>1, <3>2, <3>3
  <2>2. a + (b - a) = b
    OBVIOUS
  <2>3. ASSUME NEW i \in 1 .. b PROVE t[i] = s[i]
    <3>1. CASE i <= a
      BY <3>1, <2>1, <2>2, <1>2
    <3>2. CASE ~(i <= a)
      <4>1. i - a \in 1 .. b - a /\ a + (i - a) = i
        BY <3>2
      <4> QED BY <3>2, <4>1, <2>1, <2>2, <1>4
    <3> QED BY <3>1, <3>2
  <2> QED BY <2>1, <2>2, <2>3
<1> HIDE DEF t
<1> QED BY <1>3, <1>5, SeqEqual DEF t

---------------------------------------------------------------------------
(* The strings that nodes spell.                                           *)

\* The LOUDS so far has a one for every node and a zero for every node that is
\* closed, after those of the super root.
LoudsCounted ==
  /\ NumOnes(louds) = Len(linkFlags)
  /\ Len(louds) = Len(linkFlags) + 1 + (IF pc = "push" THEN nodeId ELSE Len(linkFlags) - Len(queue))

\* Every node has its one, and a parent that was numbered before it.
ParentsBefore ==
  \A n \in Nodes :
    /\ \E p \in Nat : OneAt(louds, p, n)
    /\ n # 0 => ParentOf(n) \in 0 .. n - 1

\* There is a string for the next level for every node that is a link.
LinksNumbered ==
  /\ nextKeys \in Seq(Range(nextKeys))
  /\ \A k \in 1 .. Len(nextKeys) : nextKeys[k].str \in Strings
  /\ Len(nextKeys) = NumOnes(linkFlags)

\* g gives the strings of the paths, as PathTo does.
Walks(g) ==
  \A n \in Nodes : g[n] = IF n = 0 THEN <<>> ELSE g[ParentOf(n)] \o LabelOf(n)

\* By g, the key that has ended is spelled by its node, and a range by the node
\* it is for: one to come from the queue, or the one at hand.
Spells(g) ==
  /\ \A i \in DOMAIN keys :
       keys[i].data.kind = "terminal" => g[keys[i].data.val] = keys[i].str
  /\ keys # <<>> =>
       \A p \in DOMAIN queue :
         /\ queue[p].begin < queue[p].end
         /\ g[Len(linkFlags) - Len(queue) + p - 1] =
              SubSeq(keys[queue[p].begin].str, 1, queue[p].keyPos)
  /\ \A p \in DOMAIN wRanges :
       g[nodeId] = SubSeq(keys[wRanges[p].begin].str, 1, wRanges[p].keyPos)

PathsSpelled == \E g \in [Nodes -> Strings] : Walks(g) /\ Spells(g)

PathInv == LoudsCounted /\ ParentsBefore /\ LinksNumbered /\ PathsSpelled

\* There is one such function, and PathTo is it.
LEMMA PathToWalks ==
  ASSUME TypeOK, ParentsBefore, NEW g \in [Nodes -> Strings], Walks(g)
  PROVE  PathTo = g
<1> DEFINE F(f) == [n \in Nodes |-> IF n = 0 THEN <<>> ELSE f[ParentOf(n)] \o LabelOf(n)]
<1>1. g = F(g)
  BY DEF Walks
<1>2. PathTo = CHOOSE f : f = F(f)
  BY DEF PathTo
<1>3. PathTo = F(PathTo)
  <2> HIDE DEF F
  <2> QED BY <1>1, <1>2
<1>4. /\ \A n \in Nodes : PathTo[n] = IF n = 0 THEN <<>> ELSE PathTo[ParentOf(n)] \o LabelOf(n)
      /\ DOMAIN PathTo = Nodes /\ PathTo = [n \in Nodes |-> PathTo[n]]
  <2> PICK f : f = PathTo
    OBVIOUS
  <2> HIDE DEF PathTo
  <2> QED BY <1>3
<1> PICK f : f = PathTo
  OBVIOUS
<1>5. Nodes \subseteq Nat
  BY DEF Nodes
<1>6. \A n \in Nodes : f[n] = g[n]
  <2> DEFINE Bad == {n \in Nodes : f[n] # g[n]}
  <2> SUFFICES ASSUME Bad # {} PROVE FALSE
    OBVIOUS
  <2>1. PICK n \in Bad : \A k \in Bad : n <= k
    <3>1. Bad \subseteq Nat
      BY <1>5
    <3> HIDE DEF Bad
    <3> QED BY <3>1, LeastElement
  <2>2. n # 0
    BY <1>4 DEF Walks
  <2>3. n \in Nodes /\ ParentOf(n) \in 0 .. n - 1
    BY <2>2 DEF ParentsBefore
  <2>4. ParentOf(n) \in Nodes /\ ParentOf(n) \notin Bad
    BY <2>1, <2>3 DEF Nodes
  <2> QED BY <1>4, <2>2, <2>4 DEF Walks
<1> QED BY <1>4, <1>6

PathIInv ==
  /\ pc = "begin" => nextKeys = <<>>
  /\ Building => PathInv

\* Keys of a range agree on what their node spells.
LEMMA SamePrefix ==
  ASSUME KeysTyped, NEW begin, NEW end, NEW n \in Nat, Extensions(begin, end, n),
         NEW i \in begin .. end - 1, NEW j \in begin .. end - 1
  PROVE  /\ SubSeq(keys[i].str, 1, n) = SubSeq(keys[j].str, 1, n)
         /\ Len(keys[i].str) = n => keys[i].str = SubSeq(keys[j].str, 1, n)
<1>1. PICK s \in Seq(Labels), t \in Seq(Labels) :
        s = keys[i].str /\ t = keys[j].str /\ Len(s) >= n /\ Len(t) >= n
        /\ \A q \in 1 .. n : s[q] = t[q]
  BY KeyFacts DEF Extensions, Strings
<1>2. Len(s) \in Nat /\ Len(t) \in Nat
  BY LenProperties
<1>3. /\ SubSeq(s, 1, n) \in Seq(Labels) /\ Len(SubSeq(s, 1, n)) = n
      /\ \A q \in 1 .. n : SubSeq(s, 1, n)[q] = s[q]
  BY <1>1, <1>2, SubSeqProperties
<1>4. /\ SubSeq(t, 1, n) \in Seq(Labels) /\ Len(SubSeq(t, 1, n)) = n
      /\ \A q \in 1 .. n : SubSeq(t, 1, n)[q] = t[q]
  BY <1>1, <1>2, SubSeqProperties
<1>5. SubSeq(s, 1, n) = SubSeq(t, 1, n)
  BY <1>1, <1>3, <1>4, SeqEqual
<1>6. Len(s) = n => s = SubSeq(t, 1, n)
  BY <1>1, <1>4, SeqEqual
<1> QED BY <1>1, <1>5, <1>6

\* Before build_current_trie begins there are no paths.
LEMMA InitPaths == Init => PathIInv
BY DEF Init, PathIInv, Building

\* The root spells nothing.
LEMMA BeginPaths ==
  ASSUME IInv, PathIInv, Begin
  PROVE  PathIInv'
<1>1. IInv' /\ TypeOK' /\ BuildInv'
  BY BeginKeeps DEF IInv, Begin, Building
<1>2. /\ queue' = <<MakeRange(1, Len(keys) + 1, 0)>> /\ linkFlags' = <<FALSE>>
      /\ louds' = <<TRUE, FALSE>> /\ wRanges' = <<>> /\ nextKeys' = <<>> /\ pc' = "take"
      /\ Len(keys) = Len(input) /\ input' = input
  BY DEF IInv, StepShape, TypeOK, PathIInv, Begin
<1>3. /\ Len(keys) = Len(keys') /\ KeysTyped'
      /\ Len(keys) \in Nat /\ DOMAIN keys' = 1 .. Len(keys)
  <2>1. keys' \in Seq(KeyType) /\ Len(keys') = Len(keys)
    BY <1>1, <1>2 DEF TypeOK
  <2> QED BY <2>1, LenProperties DEF KeysTyped
<1>4. /\ Len(queue') = 1 /\ DOMAIN queue' = {1} /\ Len(linkFlags') = 1 /\ Nodes' = {0}
      /\ queue'[1].begin = 1 /\ queue'[1].end = Len(keys) + 1 /\ queue'[1].keyPos = 0
  BY <1>2 DEF MakeRange, Nodes
<1>5. ASSUME NEW b PROVE Rank1(b, 0) = 0
  <2>1. {p \in 1 .. 0 : b[p]} = {}
    OBVIOUS
  <2> QED BY <2>1, FS_EmptySet DEF Rank1
<1>6. /\ <<TRUE, FALSE>>[1] /\ ~<<TRUE, FALSE>>[2] /\ Len(<<TRUE, FALSE>>) = 2
      /\ ~<<FALSE>>[1] /\ Len(<<FALSE>>) = 1
  OBVIOUS
<1>7. /\ NumOnes(louds') = 1 /\ Len(louds') = 2 /\ OneAt(louds', 0, 0)
      /\ NumOnes(linkFlags') = 0
  <2>1. ASSUME NEW b, b[1], ~b[2], Len(b) = 2
        PROVE  NumOnes(b) = 1 /\ OneAt(b, 0, 0)
    <3>1. Rank1(b, 0 + 1) = 0 + 1
      BY <1>5, <2>1, RankNext
    <3>2. Rank1(b, 1 + 1) = 1
      BY <3>1, <2>1, RankNext
    <3> QED BY <1>5, <2>1, <3>2 DEF NumOnes, OneAt, At
  <2>2. ASSUME NEW b, ~b[1], Len(b) = 1 PROVE NumOnes(b) = 0
    <3>1. Rank1(b, 0 + 1) = 0
      BY <1>5, <2>2, RankNext
    <3> QED BY <2>2, <3>1 DEF NumOnes
  <2> QED BY <1>2, <1>6, <2>1, <2>2
<1>8. LoudsCounted' /\ ParentsBefore' /\ LinksNumbered'
  <2>1. LoudsCounted'
    BY <1>2, <1>4, <1>7 DEF LoudsCounted
  <2>2. ParentsBefore'
    BY <1>4, <1>7 DEF ParentsBefore
  <2>3. LinksNumbered'
    BY <1>2, <1>5, <1>7 DEF LinksNumbered
  <2> QED BY <2>1, <2>2, <2>3
<1>9. ASSUME NEW i \in DOMAIN keys' PROVE keys'[i].data.kind = "weight"
  <2>1. i \in Within(queue'[1])
    BY <1>3, <1>4 DEF Within
  <2>2. InQueue(i)'
    BY <1>4, <2>1 DEF InQueue, Within
  <2> QED BY <1>1, <2>2 DEF BuildInv, KeysOnce
<1>10. PathsSpelled'
  <2> PICK g : g = [n \in {0} |-> <<>>]
    OBVIOUS
  <2>1. g \in [Nodes' -> Strings] /\ g[0] = <<>>
    <3>1. <<>> \in Seq(Labels)
      OBVIOUS
    <3> QED BY <1>4, <3>1 DEF Strings
  <2>2. Walks(g)'
    BY <1>4, <2>1 DEF Walks
  <2>3. Spells(g)'
    <3>1. ASSUME keys' # <<>>
          PROVE  1 < Len(keys) + 1 /\ <<>> = SubSeq(keys'[1].str, 1, 0)
      <4>1. Len(keys) # 0 /\ 1 \in DOMAIN keys'
        <5>1. keys' \in Seq(KeyType)
          BY <1>3 DEF KeysTyped
        <5>2. Len(keys) # 0
          BY <1>3, <3>1, <5>1, EmptySeq
        <5> QED BY <1>3, <5>2
      <4>2. keys'[1].str \in Seq(Labels)
        <5>1. keys'[1] \in KeyType
          BY <1>3, <4>1, ElementOfSeq DEF KeysTyped
        <5> QED BY <5>1 DEF KeyType, Strings
      <4> QED BY <1>3, <4>1, <4>2, SubSeqProperties
    <3>2. Len(linkFlags') - Len(queue') + 1 - 1 = 0
      BY <1>4
    <3>3. Spells(g)' <=>
            /\ \A i \in DOMAIN keys' :
                 keys'[i].data.kind = "terminal" => g[keys'[i].data.val] = keys'[i].str
            /\ keys' # <<>> =>
                 \A p \in {1} :
                   /\ queue'[p].begin < queue'[p].end
                   /\ g[Len(linkFlags') - Len(queue') + p - 1] =
                        SubSeq(keys'[queue'[p].begin].str, 1, queue'[p].keyPos)
            /\ \A p \in DOMAIN wRanges' :
                 g[nodeId'] = SubSeq(keys'[wRanges'[p].begin].str, 1, wRanges'[p].keyPos)
      BY <1>4 DEF Spells
    <3>4. DOMAIN wRanges' = {}
      BY <1>2
    <3> QED BY <1>4, <1>9, <2>1, <3>1, <3>2, <3>3, <3>4
  <2> QED BY <2>1, <2>2, <2>3 DEF PathsSpelled
<1> QED BY <1>2, <1>8, <1>10 DEF PathIInv, PathInv

\* Closing a node leaves the parents of the nodes where they are.
LEMMA CloseKeepsParents ==
  ASSUME IInv, PathIInv, CloseNode
  PROVE  /\ Nodes' = Nodes
         /\ \A n \in Nodes :
              /\ ParentOf(n)' = ParentOf(n) /\ LabelOf(n)' = LabelOf(n)
              /\ \E p \in Nat : OneAt(louds', p, n)
<1>1. /\ PathInv /\ louds \in Seq(BOOLEAN) /\ louds' = Append(louds, FALSE)
      /\ UNCHANGED <<linkFlags, bases, nextKeys>>
  BY DEF IInv, TypeOK, PathIInv, CloseNode, Building
<1>2. ASSUME NEW n \in Nodes PROVE ParentOf(n)' = ParentOf(n) /\ \E p \in Nat : OneAt(louds', p, n)
  <2>1. PICK p \in Nat : OneAt(louds, p, n)
    BY <1>1 DEF PathInv, ParentsBefore
  <2>2. FALSE \in BOOLEAN
    OBVIOUS
  <2>3. OneAt(louds', p, n) /\ louds' \in Seq(BOOLEAN)
    BY <1>1, <2>1, <2>2, OneStays, OnesAppend
  <2>4. Select1(louds', n) = p /\ Select1(louds, n) = p
    BY <1>1, <2>1, <2>3, SelectIs
  <2> QED BY <2>3, <2>4 DEF ParentOf
<1> QED BY <1>1, <1>2 DEF Nodes, LabelOf

\* A zero closes a node, and the next one is at hand.
LEMMA ClosePaths ==
  ASSUME IInv, PathIInv, CloseNode
  PROVE  PathIInv'
<1>1. /\ TypeOK /\ BuildInv /\ PathInv /\ pc = "push" /\ pc' = "take" /\ wRanges = <<>>
      /\ louds' = Append(louds, FALSE)
      /\ UNCHANGED <<keys, queue, wRanges, nodeId, bases, linkFlags, nextKeys>>
  BY DEF IInv, PathIInv, CloseNode, Building
<1>2. louds \in Seq(BOOLEAN) /\ Len(linkFlags) \in Nat /\ Len(queue) \in Nat
  BY <1>1, LenProperties DEF TypeOK
<1>3. LoudsCounted'
  <2>1. NumOnes(louds') = NumOnes(louds) /\ Len(louds') = Len(louds) + 1
    BY <1>1, <1>2, OnesAppend
  <2>2. nodeId = Len(linkFlags) - Len(queue) - 1
    BY <1>1 DEF BuildInv, NodesCounted
  <2>3. LoudsCounted /\ Len(linkFlags)' = Len(linkFlags) /\ Len(queue)' = Len(queue)
    BY <1>1 DEF PathInv
  <2>4. NumOnes(louds) = Len(linkFlags) /\ Len(louds) = Len(linkFlags) + 1 + nodeId
    BY <1>1, <2>3 DEF LoudsCounted
  <2>5. Len(louds') = Len(linkFlags) + 1 + (Len(linkFlags) - Len(queue))
    BY <1>2, <2>1, <2>2, <2>4
  <2> QED BY <1>1, <2>1, <2>3, <2>4, <2>5 DEF LoudsCounted
<1>4. \A n \in Nodes : ParentOf(n)' = ParentOf(n) /\ \E p \in Nat : OneAt(louds', p, n)
  BY CloseKeepsParents
<1>5. Nodes' = Nodes /\ \A n \in Nodes : LabelOf(n)' = LabelOf(n)
  BY CloseKeepsParents
<1>6. ParentsBefore' /\ LinksNumbered'
  BY <1>1, <1>4, <1>5 DEF PathInv, ParentsBefore, LinksNumbered
<1>7. PathsSpelled'
  <2>1. PICK g \in [Nodes -> Strings] : Walks(g) /\ Spells(g)
    BY <1>1 DEF PathInv, PathsSpelled
  <2>2. Walks(g)' /\ Spells(g)'
    BY <1>1, <1>4, <1>5, <2>1 DEF Walks, Spells
  <2> QED BY <1>5, <2>1, <2>2 DEF PathsSpelled
<1> QED BY <1>1, <1>3, <1>6, <1>7 DEF PathIInv, PathInv

\* When the level is built nothing more is asked of its paths.
LEMMA FinishPaths ==
  ASSUME IInv, PathIInv, Finish
  PROVE  PathIInv'
BY DEF PathIInv, Finish, Building

\* The node at hand has the next number, which its range was spelled by; the
\* keys that end there are its string, and its children begin with it.
LEMMA TakePaths ==
  ASSUME IInv, PathIInv, TakeRange
  PROVE  PathIInv'
<1> DEFINE r == Head(queue)
           alive == FirstAlive(r)
           n == Len(queue)
           N == Len(linkFlags)
           Ended == r.begin .. alive - 1
<1>1. /\ TypeOK /\ StepShape /\ BuildInv /\ PathInv /\ pc = "take" /\ pc' = "push"
      /\ queue # <<>> /\ queue' = Tail(queue)
      /\ UNCHANGED <<louds, bases, linkFlags, nextKeys>>
      /\ nodeId' = N - n
      /\ keys' = [i \in DOMAIN keys |->
                    IF i \in Ended THEN [keys[i] EXCEPT !.data = Terminal(nodeId')]
                    ELSE keys[i]]
      /\ IF alive = r.end THEN wRanges' = <<>> ELSE wRanges' \in ChildRanges(alive, r.end, r.keyPos)
  BY DEF IInv, PathIInv, TakeRange, Building, StepShape
<1>2. KeysTyped /\ SortedKeys /\ Len(keys) \in Nat /\ DOMAIN keys = 1 .. Len(keys)
  <2>1. KeysTyped /\ SortedKeys
    BY <1>1 DEF TypeOK, KeysTyped, BuildInv
  <2> QED BY <2>1, KeyFacts
<1>3. /\ n \in Nat \ {0} /\ DOMAIN queue = 1 .. n /\ queue \in Seq(RangeType)
      /\ r = queue[1] /\ r \in RangeType /\ 1 \in DOMAIN queue
      /\ N \in Nat /\ n <= N
  BY <1>1 DEF TypeOK, BuildInv, NodesCounted
<1>4. /\ r.begin \in Nat \ {0} /\ r.end \in Nat \ {0} /\ r.keyPos \in Nat
      /\ r.begin <= r.end /\ r.end <= Len(keys) + 1
      /\ Extensions(r.begin, r.end, r.keyPos)
  <2>1. r.begin <= r.end /\ r.end <= Len(keys) + 1 /\ Extensions(r.begin, r.end, r.keyPos)
    BY <1>1, <1>3 DEF BuildInv, RangesInBounds, RangesExtend
  <2> QED BY <2>1, <1>3 DEF RangeType
<1>5. /\ alive \in r.begin .. r.end
      /\ \A i \in Ended : Len(keys[i].str) = r.keyPos
  <2> HIDE DEF r
  <2> QED BY <1>2, <1>3, <1>4, AliveKeys
<1>6. \A p \in DOMAIN wRanges' :
        wRanges'[p].begin \in r.begin .. r.end - 1 /\ wRanges'[p].keyPos = r.keyPos
  <2>1. CASE alive = r.end
    <3>1. wRanges' = <<>>
      BY <2>1, <1>1
    <3> QED BY <3>1
  <2>2. CASE alive # r.end
    <3>1. wRanges' \in ChildRanges(alive, r.end, r.keyPos)
      BY <2>2, <1>1
    <3>2. /\ wRanges' \in Seq(Range(wRanges'))
          /\ \A p \in 1 .. Len(wRanges') :
               /\ MakeRange(wRanges'[p].begin, wRanges'[p].end, wRanges'[p].keyPos) \in RangeType
               /\ wRanges'[p].begin < wRanges'[p].end
               /\ Within(wRanges'[p]) \subseteq alive .. r.end - 1
               /\ wRanges'[p].keyPos = r.keyPos
      <4> HIDE DEF r
      <4> QED BY <2>2, <3>1, <1>2, <1>3, <1>4, SplitRange
    <3>3. DOMAIN wRanges' = 1 .. Len(wRanges')
      BY <3>2, LenProperties
    <3>4. ASSUME NEW p \in 1 .. Len(wRanges') PROVE wRanges'[p].begin \in r.begin .. r.end - 1
      <4>1. wRanges'[p].begin \in Nat /\ wRanges'[p].end \in Nat
        BY <3>2 DEF MakeRange, RangeType
      <4>2. wRanges'[p].begin \in Within(wRanges'[p])
        BY <4>1, <3>2 DEF Within
      <4>3. wRanges'[p].begin \in alive .. r.end - 1
        BY <4>2, <3>2
      <4> HIDE DEF alive, r
      <4> QED BY <4>1, <4>3, <1>4, <1>5
    <3> QED BY <3>2, <3>3, <3>4
  <2> QED BY <2>1, <2>2
<1> HIDE DEF r, alive, n, N
<1>7. /\ Len(queue') = n - 1 /\ DOMAIN queue' = 1 .. n - 1
      /\ \A p \in 1 .. n - 1 : queue'[p] = queue[p + 1]
  <2>1. /\ Tail(queue) \in Seq(RangeType) /\ Len(Tail(queue)) = n - 1
        /\ \A p \in 1 .. n - 1 : Tail(queue)[p] = queue[p + 1]
    BY <1>1, <1>3, HeadTailProperties DEF n
  <2> QED BY <1>1, <2>1, LenProperties
<1>8. /\ DOMAIN keys' = DOMAIN keys
      /\ \A i \in DOMAIN keys :
           /\ keys'[i].str = keys[i].str
           /\ i \in Ended => keys'[i].data.kind = "terminal" /\ keys'[i].data.val = nodeId'
           /\ i \notin Ended => keys'[i] = keys[i]
  <2>1. ASSUME NEW k \in KeyType
        PROVE  /\ [k EXCEPT !.data = Terminal(nodeId')].str = k.str
               /\ [k EXCEPT !.data = Terminal(nodeId')].data = Terminal(nodeId')
    BY DEF KeyType
  <2>2. Terminal(nodeId').kind = "terminal" /\ Terminal(nodeId').val = nodeId'
    BY DEF Terminal
  <2>3. \A i \in DOMAIN keys : keys[i] \in KeyType
    BY <1>2, KeyFacts
  <2> QED BY <1>1, <2>1, <2>2, <2>3
<1>9. LoudsCounted' /\ ParentsBefore' /\ LinksNumbered' /\ Nodes' = Nodes
      /\ \A g : Walks(g)' <=> Walks(g)
  <2>1. LoudsCounted'
    BY <1>1 DEF PathInv, LoudsCounted, N, n
  <2>2. Nodes' = Nodes /\ \A k : ParentOf(k)' = ParentOf(k) /\ LabelOf(k)' = LabelOf(k)
    BY <1>1 DEF Nodes, ParentOf, LabelOf
  <2>3. ParentsBefore' /\ LinksNumbered'
    BY <1>1, <2>2 DEF PathInv, ParentsBefore, LinksNumbered
  <2> QED BY <2>1, <2>2, <2>3 DEF Walks
<1>10. PICK g \in [Nodes -> Strings] : Walks(g) /\ Spells(g)
  BY <1>1 DEF PathInv, PathsSpelled
<1>11. ASSUME keys # <<>>
       PROVE  r.begin \in r.begin .. r.end - 1 /\ g[nodeId'] = SubSeq(keys[r.begin].str, 1, r.keyPos)
  <2>1. r.begin < r.end /\ g[N - n + 1 - 1] = SubSeq(keys[r.begin].str, 1, r.keyPos)
    BY <1>3, <1>10, <1>11 DEF Spells, N, n
  <2>2. N - n + 1 - 1 = N - n
    BY <1>3
  <2> QED BY <2>1, <2>2, <1>1, <1>4
<1>12. \A i \in DOMAIN keys : keys # <<>>
  OBVIOUS
<1>13. ASSUME NEW i \in r.begin .. r.end - 1, NEW j \in r.begin .. r.end - 1
       PROVE  /\ SubSeq(keys[i].str, 1, r.keyPos) = SubSeq(keys[j].str, 1, r.keyPos)
              /\ Len(keys[i].str) = r.keyPos => keys[i].str = SubSeq(keys[j].str, 1, r.keyPos)
  <2>1. PICK b, e, k : b = r.begin /\ e = r.end /\ k = r.keyPos
    OBVIOUS
  <2>2. k \in Nat /\ Extensions(b, e, k) /\ i \in b .. e - 1 /\ j \in b .. e - 1
    BY <1>4, <2>1
  <2>3. /\ SubSeq(keys[i].str, 1, k) = SubSeq(keys[j].str, 1, k)
        /\ Len(keys[i].str) = k => keys[i].str = SubSeq(keys[j].str, 1, k)
    BY ONLY <1>2, <2>2, SamePrefix
  <2> QED BY <2>1, <2>3
<1>14. Spells(g)'
  <2>1. ASSUME NEW i \in DOMAIN keys', keys'[i].data.kind = "terminal"
        PROVE  g[keys'[i].data.val] = keys'[i].str
    <3>1. CASE i \in Ended
      <4>1. i \in r.begin .. r.end - 1 /\ Len(keys[i].str) = r.keyPos
        BY <3>1, <1>4, <1>5
      <4>2. r.begin \in r.begin .. r.end - 1 /\ g[nodeId'] = SubSeq(keys[r.begin].str, 1, r.keyPos)
        BY <1>8, <1>11, <1>12, <2>1
      <4>3. keys[i].str = SubSeq(keys[r.begin].str, 1, r.keyPos)
        BY <1>13, <4>1, <4>2
      <4> QED BY <3>1, <4>2, <4>3, <1>8, <2>1
    <3>2. CASE i \notin Ended
      BY <3>2, <1>8, <1>10, <2>1 DEF Spells
    <3> QED BY <3>1, <3>2
  <2>2. ASSUME keys' # <<>>, NEW p \in DOMAIN queue'
        PROVE  /\ queue'[p].begin < queue'[p].end
               /\ g[Len(linkFlags') - Len(queue') + p - 1] =
                    SubSeq(keys'[queue'[p].begin].str, 1, queue'[p].keyPos)
    <3>1. p \in 1 .. n - 1 /\ p + 1 \in 1 .. n /\ queue'[p] = queue[p + 1]
      BY <1>3, <1>7, <2>2
    <3>2. keys # <<>>
      BY <1>1, <2>2
    <3>3. /\ queue[p + 1].begin < queue[p + 1].end
          /\ g[N - n + (p + 1) - 1] =
               SubSeq(keys[queue[p + 1].begin].str, 1, queue[p + 1].keyPos)
      BY <1>3, <1>10, <3>1, <3>2 DEF Spells, N, n
    <3>4. Len(linkFlags') - Len(queue') + p - 1 = N - n + (p + 1) - 1
      BY <1>1, <1>3, <1>7, <3>1 DEF N
    <3>5. queue[p + 1].begin \in DOMAIN keys
      <4>1. /\ queue[p + 1] \in RangeType /\ queue[p + 1].end <= Len(keys) + 1
        BY <1>1, <1>3, <3>1 DEF BuildInv, RangesInBounds
      <4> QED BY <1>2, <3>3, <4>1 DEF RangeType
    <3> QED BY <3>1, <3>3, <3>4, <3>5, <1>8
  <2>3. ASSUME NEW p \in DOMAIN wRanges'
        PROVE  g[nodeId'] = SubSeq(keys'[wRanges'[p].begin].str, 1, wRanges'[p].keyPos)
    <3>1. wRanges'[p].begin \in r.begin .. r.end - 1 /\ wRanges'[p].keyPos = r.keyPos
      BY <1>6, <2>3
    <3>2. wRanges'[p].begin \in DOMAIN keys
      BY <1>4, <3>1 DEF Extensions
    <3>3. r.begin \in r.begin .. r.end - 1 /\ g[nodeId'] = SubSeq(keys[r.begin].str, 1, r.keyPos)
      BY <3>2, <1>11, <1>12
    <3>4. SubSeq(keys[wRanges'[p].begin].str, 1, r.keyPos) = SubSeq(keys[r.begin].str, 1, r.keyPos)
      BY <1>13, <3>1, <3>3
    <3> QED BY <3>1, <3>2, <3>3, <3>4, <1>8
  <2> QED BY <2>1, <2>2, <2>3 DEF Spells
<1>15. PathsSpelled'
  BY <1>9, <1>10, <1>14 DEF PathsSpelled
<1> QED BY <1>1, <1>9, <1>15 DEF PathIInv, PathInv

\* The first character of a substring.
LEMMA SubSeqHead ==
  ASSUME NEW S, NEW s \in Seq(S), NEW d \in 1 .. Len(s), NEW e \in d .. Len(s)
  PROVE  SubSeq(s, d, e)[1] = s[d]
<1>1. Len(s) \in Nat
  BY LenProperties
<1>2. d \in 1 .. Len(s) + 1 /\ e \in d - 1 .. Len(s)
  BY <1>1
<1>3. \A i \in 1 .. e - d + 1 : SubSeq(s, d, e)[i] = s[d + i - 1]
  BY <1>1, <1>2, SubSeqProperties
<1>4. 1 \in 1 .. e - d + 1 /\ (d + 1) - 1 = d
  BY <1>1
<1> QED BY <1>3, <1>4

\* One character.
LEMMA SubSeqOne ==
  ASSUME NEW S, NEW s \in Seq(S), NEW k \in 1 .. Len(s)
  PROVE  SubSeq(s, k, k) = <<s[k]>>
<1>1. Len(s) \in Nat
  BY LenProperties
<1>2. SubSeq(s, k, k) \in Seq(S) /\ Len(SubSeq(s, k, k)) = 1 /\ SubSeq(s, k, k)[1] = s[k]
  BY <1>1, SubSeqProperties
<1>3. s[k] \in S
  BY ElementOfSeq
<1>4. PICK c \in S : c = s[k]
  BY <1>3
<1>5. <<c>> \in Seq(S) /\ Len(<<c>>) = 1 /\ <<c>>[1] = c
  OBVIOUS
<1>6. PICK t, u : t = SubSeq(s, k, k) /\ u = <<c>>
  OBVIOUS
<1>7. /\ t \in Seq(S) /\ u \in Seq(S) /\ Len(t) = Len(u)
      /\ \A i \in 1 .. Len(t) : t[i] = u[i]
  BY <1>2, <1>4, <1>5, <1>6
<1>8. t = u
  BY ONLY <1>7, SeqEqual
<1> QED BY <1>4, <1>6, <1>8

\* A link's number is less than the number of links.
LEMMA RankOfOne ==
  ASSUME NEW bits \in Seq(BOOLEAN), NEW i \in 0 .. Len(bits) - 1, At(bits, i)
  PROVE  Rank1(bits, i) + 1 \in 1 .. NumOnes(bits)
<1>1. i \in Nat /\ i + 1 \in Nat /\ i + 1 <= Len(bits) /\ Len(bits) \in Nat
  BY LenProperties
<1>2. Rank1(bits, i) \in Nat /\ Rank1(bits, i + 1) = Rank1(bits, i) + 1
  BY <1>1, RankIsNat, RankNext DEF At
<1>3. Rank1(bits, i + 1) <= NumOnes(bits) /\ NumOnes(bits) \in Nat
  BY <1>1, RankGrows, RankIsNat DEF NumOnes
<1> QED BY <1>2, <1>3

\* What a child adds to the vectors: the last one, its label and its parent.
PushedNode(w, keyPos) ==
  /\ LoudsCounted' /\ LinksNumbered'
  /\ \E N \in Nat :
       /\ N = Len(linkFlags) /\ Nodes' = 0 .. N /\ Nodes = 0 .. N - 1
       /\ \A n \in 0 .. N - 1 :
            /\ ParentOf(n)' = ParentOf(n) /\ LabelOf(n)' = LabelOf(n)
            /\ \E p \in Nat : OneAt(louds', p, n)
       /\ ParentOf(N)' = nodeId
       /\ \E p \in Nat : OneAt(louds', p, N)
       /\ LabelOf(N)' = SubSeq(keys[w.begin].str, w.keyPos + 1, keyPos)

\* The facts about the child that is pushed.
ChildAtHand(w, keyPos) ==
  /\ TypeOK /\ StepShape /\ BuildInv /\ pc = "push" /\ pc' = "push"
  /\ w = Head(wRanges) /\ keyPos = ChildKeyPos(w) /\ wRanges # <<>>
  /\ keys' = keys /\ nodeId' = nodeId
  /\ bases' = Append(bases, IF keyPos # w.keyPos + 1 THEN 0 ELSE keys[w.begin].str[w.keyPos + 1])
  /\ linkFlags' = Append(linkFlags, keyPos # w.keyPos + 1)
  /\ nextKeys' = IF keyPos # w.keyPos + 1 THEN Append(nextKeys, NextKey(w, keyPos)) ELSE nextKeys
  /\ queue' = Append(queue, MakeRange(w.begin, w.end, keyPos))
  /\ louds' = Append(louds, TRUE) /\ wRanges' = Tail(wRanges)
  /\ keys[w.begin].str \in Seq(Labels)
  /\ w.begin \in Nat /\ w.end \in Nat /\ w.begin < w.end /\ w.keyPos \in Nat
  /\ keyPos \in w.keyPos + 1 .. Len(keys[w.begin].str)
  /\ keys # <<>>

\* Where PushChild pushes a child, its range, key_pos and strings are as they should be.
LEMMA ChildFacts ==
  ASSUME IInv, PushChild
  PROVE  \E w, keyPos : ChildAtHand(w, keyPos)
<1> DEFINE w == Head(wRanges)
           keyPos == ChildKeyPos(w)
           m == Len(wRanges)
<1>1. /\ TypeOK /\ StepShape /\ BuildInv /\ pc = "push" /\ wRanges # <<>>
  BY DEF IInv, PushChild, Building
<1>2. KeysTyped /\ SortedKeys
  BY <1>1 DEF TypeOK, KeysTyped, BuildInv
<1>3. /\ m \in Nat \ {0} /\ DOMAIN wRanges = 1 .. m /\ wRanges \in Seq(Range(wRanges))
      /\ w = wRanges[1]
  BY <1>1 DEF TypeOK, StepShape
<1>4. /\ w.begin \in Nat \ {0} /\ w.end \in Nat \ {0} /\ w.keyPos \in Nat
      /\ w.begin < w.end /\ w.end <= Len(keys) + 1
      /\ Extensions(w.begin, w.end, w.keyPos + 1)
  <2>1. 1 \in DOMAIN wRanges
    BY <1>3
  <2>2. MakeRange(w.begin, w.end, w.keyPos) \in RangeType
    BY <1>1, <1>3, <2>1 DEF TypeOK
  <2>3. w.begin < w.end /\ w.end <= Len(keys) + 1 /\ Extensions(w.begin, w.end, w.keyPos + 1)
    BY <1>1, <1>3, <2>1 DEF BuildInv, RangesInBounds, RangesExtend
  <2> QED BY <2>2, <2>3 DEF MakeRange, RangeType
<1>5. keyPos \in w.keyPos + 1 .. Len(keys[w.begin].str)
  <2> HIDE DEF w
  <2> QED BY <1>2, <1>4, ChildKeyPosFacts
<1>6. w.begin \in DOMAIN keys /\ keys[w.begin].str \in Seq(Labels)
  <2>1. w.begin \in w.begin .. w.end - 1
    BY <1>4
  <2>2. w.begin \in DOMAIN keys
    BY <1>4, <2>1 DEF Extensions
  <2> QED BY <1>2, <2>2, KeyFacts DEF Strings
<1>7. keys # <<>>
  BY <1>6
<1>8. ChildAtHand(w, keyPos)
  BY <1>1, <1>4, <1>5, <1>6, <1>7 DEF ChildAtHand, PushChild
<1> QED BY <1>8

\* The child is the last node; the other nodes keep their parents and labels.
LEMMA PushedNodeFacts ==
  ASSUME PathInv, NEW w, NEW keyPos, ChildAtHand(w, keyPos)
  PROVE  PushedNode(w, keyPos)
<1>1. PICK N \in Nat, n \in Nat, first \in Seq(Labels), linked \in BOOLEAN, L \in Seq(Labels) :
        /\ N = Len(linkFlags) /\ n = Len(queue) /\ first = keys[w.begin].str
        /\ linked = (keyPos # w.keyPos + 1) /\ L = SubSeq(first, w.keyPos + 1, keyPos)
        /\ Len(bases) = N
  <2>1. Len(linkFlags) \in Nat /\ Len(queue) \in Nat /\ Len(bases) = Len(linkFlags)
    BY LenProperties DEF ChildAtHand, TypeOK
  <2>2. /\ keys[w.begin].str \in Seq(Labels) /\ w.keyPos \in Nat
        /\ keyPos \in w.keyPos + 1 .. Len(keys[w.begin].str)
    BY DEF ChildAtHand
  <2>3. Len(keys[w.begin].str) \in Nat
    BY <2>2, LenProperties
  <2>4. SubSeq(keys[w.begin].str, w.keyPos + 1, keyPos) \in Seq(Labels)
    BY <2>2, <2>3, SubSeqProperties
  <2> QED BY <2>1, <2>2, <2>4
<1>2. /\ louds \in Seq(BOOLEAN) /\ linkFlags \in Seq(BOOLEAN) /\ bases \in Seq(Labels)
      /\ nodeId \in Nat /\ nodeId = N - n - 1 /\ pc = "push" /\ pc' = "push" /\ nodeId' = nodeId
      /\ LoudsCounted /\ ParentsBefore /\ LinksNumbered
  BY <1>1 DEF ChildAtHand, TypeOK, BuildInv, NodesCounted, PathInv
<1>3. /\ louds' = Append(louds, TRUE) /\ linkFlags' = Append(linkFlags, linked)
      /\ NumOnes(louds) = N /\ Len(louds) = N + 1 + nodeId
  BY <1>1, <1>2 DEF ChildAtHand, LoudsCounted
<1>4. /\ louds' \in Seq(BOOLEAN) /\ Len(louds') = Len(louds) + 1 /\ NumOnes(louds') = N + 1
      /\ OneAt(louds', Len(louds), N)
  <2>1. TRUE \in BOOLEAN
    OBVIOUS
  <2> QED BY <1>2, <1>3, <2>1, OnesAppend
<1>5. /\ linkFlags' \in Seq(BOOLEAN) /\ Len(linkFlags') = N + 1
      /\ \A i \in 0 .. N - 1 : At(linkFlags', i) = At(linkFlags, i)
      /\ \A i \in 0 .. N : Rank1(linkFlags', i) = Rank1(linkFlags, i)
      /\ At(linkFlags', N) = linked
      /\ NumOnes(linkFlags) \in Nat
      /\ linked => NumOnes(linkFlags') = NumOnes(linkFlags) + 1
      /\ ~linked => NumOnes(linkFlags') = NumOnes(linkFlags)
  <2>1. \A i \in 0 .. N - 1 : i + 1 \in 1 .. N
    OBVIOUS
  <2>2. /\ linkFlags' \in Seq(BOOLEAN) /\ Len(linkFlags') = N + 1
        /\ \A i \in 1 .. N : linkFlags'[i] = linkFlags[i]
        /\ linkFlags'[N + 1] = linked
    BY <1>1, <1>2, <1>3, AppendProperties
  <2>3. \A i \in 0 .. N : Rank1(linkFlags', i) = Rank1(linkFlags, i)
    BY <1>1, <1>2, <1>3, RankAppend
  <2>4. /\ NumOnes(linkFlags) \in Nat
        /\ linked => NumOnes(linkFlags') = NumOnes(linkFlags) + 1
        /\ ~linked => NumOnes(linkFlags') = NumOnes(linkFlags)
    BY <1>2, <1>3, OnesAppend
  <2> QED BY <2>1, <2>2, <2>3, <2>4 DEF At
<1>6. /\ \A i \in 1 .. N : bases'[i] = bases[i]
      /\ ~linked => bases'[N + 1] = first[w.keyPos + 1]
  <2>1. bases' = Append(bases, IF linked THEN 0 ELSE first[w.keyPos + 1])
    BY <1>1 DEF ChildAtHand
  <2>2. PICK e : e = (IF linked THEN 0 ELSE first[w.keyPos + 1])
    OBVIOUS
  <2>3. PICK S : S = Labels \cup {e}
    OBVIOUS
  <2>4. bases \in Seq(S) /\ e \in S
    BY <1>2, <2>3, SeqMonotonic
  <2>5. /\ \A i \in 1 .. Len(bases) : Append(bases, e)[i] = bases[i]
        /\ Append(bases, e)[Len(bases) + 1] = e
    BY <2>4, AppendProperties
  <2> QED BY <1>1, <2>1, <2>2, <2>5
<1>7. /\ w.keyPos \in Nat /\ keyPos \in w.keyPos + 1 .. Len(first) /\ Len(first) \in Nat
      /\ L \in Seq(Labels)
  <2>1. w.keyPos \in Nat /\ keyPos \in w.keyPos + 1 .. Len(first) /\ Len(first) \in Nat
    BY <1>1, LenProperties DEF ChildAtHand
  <2> QED BY <1>1, <2>1, SubSeqProperties
<1>8. /\ Len(nextKeys) \in Nat /\ Len(nextKeys) = NumOnes(linkFlags)
      /\ \A k \in 1 .. Len(nextKeys) : nextKeys'[k] = nextKeys[k]
      /\ linked => nextKeys'[Len(nextKeys) + 1].str = L
      /\ LinksNumbered'
  <2>1. /\ nextKeys \in Seq(Range(nextKeys)) /\ Len(nextKeys) = NumOnes(linkFlags)
        /\ \A k \in 1 .. Len(nextKeys) : nextKeys[k].str \in Strings
    BY <1>2 DEF LinksNumbered
  <2>2. Len(nextKeys) \in Nat
    BY <2>1, LenProperties
  <2>3. CASE linked
    <3>1. PICK e : e = NextKey(w, keyPos) /\ e.str = L
      <4>1. NextKey(w, keyPos).str = SubSeq(keys[w.begin].str, w.keyPos + 1, keyPos)
        BY DEF NextKey
      <4> QED BY <4>1, <1>1
    <3>2. nextKeys' = Append(nextKeys, e)
      BY <1>1, <2>3, <3>1 DEF ChildAtHand
    <3>3. PICK S : S = Range(nextKeys) \cup {e}
      OBVIOUS
    <3>4. nextKeys \in Seq(S) /\ e \in S
      BY <2>1, <3>3, SeqMonotonic
    <3>5. /\ nextKeys' \in Seq(S) /\ Len(nextKeys') = Len(nextKeys) + 1
          /\ \A k \in 1 .. Len(nextKeys) : nextKeys'[k] = nextKeys[k]
          /\ nextKeys'[Len(nextKeys) + 1] = e
      BY <3>2, <3>4, AppendProperties
    <3>6. nextKeys' \in Seq(Range(nextKeys'))
      BY <3>5, SeqOfRange
    <3>7. \A k \in 1 .. Len(nextKeys') : nextKeys'[k].str \in Strings
      <4>1. \A k \in 1 .. Len(nextKeys') : k \in 1 .. Len(nextKeys) \/ k = Len(nextKeys) + 1
        BY <2>2, <3>5
      <4> QED BY <4>1, <2>1, <3>1, <3>5, <1>7 DEF Strings
    <3> QED BY <2>1, <2>2, <2>3, <3>1, <3>5, <3>6, <3>7, <1>5 DEF LinksNumbered
  <2>4. CASE ~linked
    <3>1. nextKeys' = nextKeys
      BY <1>1, <2>4 DEF ChildAtHand
    <3> QED BY <2>1, <2>2, <2>4, <3>1, <1>5 DEF LinksNumbered
  <2> QED BY <2>3, <2>4
<1>9. /\ Nodes' = 0 .. N /\ Nodes = 0 .. N - 1
      /\ LoudsCounted'
  <2>1. Nodes = 0 .. N - 1
    BY <1>1 DEF Nodes
  <2>2. Nodes' = 0 .. N
    BY <1>5 DEF Nodes
  <2>3. LoudsCounted'
    <3>1. PICK m \in Nat : m = nodeId
      BY <1>2
    <3>2. Len(louds) = N + 1 + m /\ Len(louds') = Len(louds) + 1
      BY <1>3, <1>4, <3>1
    <3>3. Len(louds') = (N + 1) + 1 + m
      BY ONLY <3>1, <3>2, N \in Nat
    <3> QED BY <3>1, <3>3, <1>2, <1>4, <1>5 DEF LoudsCounted
  <2> QED BY <2>1, <2>2, <2>3
<1>10. ASSUME NEW i \in Nodes
       PROVE  ParentOf(i)' = ParentOf(i) /\ \E p \in Nat : OneAt(louds', p, i)
  <2>1. PICK p \in Nat : OneAt(louds, p, i)
    BY <1>2 DEF ParentsBefore
  <2>2. OneAt(louds', p, i)
    <3>1. TRUE \in BOOLEAN
      OBVIOUS
    <3> QED BY <1>2, <1>3, <2>1, <3>1, OneStays
  <2>3. Select1(louds', i) = p /\ Select1(louds, i) = p
    BY <1>2, <1>4, <2>1, <2>2, SelectIs
  <2> QED BY <2>2, <2>3 DEF ParentOf
<1>11. ASSUME NEW i \in Nodes PROVE LabelOf(i)' = LabelOf(i)
  <2>1. /\ At(linkFlags', i) = At(linkFlags, i) /\ Rank1(linkFlags', i) = Rank1(linkFlags, i)
        /\ At(bases', i) = At(bases, i)
    <3>1. i \in 0 .. N - 1 /\ i \in 0 .. N /\ i + 1 \in 1 .. N
      BY <1>9
    <3> QED BY <3>1, <1>5, <1>6 DEF At
  <2>2. At(linkFlags, i) => At(nextKeys', Rank1(linkFlags, i)) = At(nextKeys, Rank1(linkFlags, i))
    <3>1. ASSUME At(linkFlags, i) PROVE Rank1(linkFlags, i) + 1 \in 1 .. NumOnes(linkFlags)
      BY <1>1, <1>2, <1>9, <3>1, RankOfOne
    <3> QED BY <3>1, <1>8 DEF At
  <2> QED BY <2>1, <2>2 DEF LabelOf
<1>12. ParentOf(N)' = nodeId /\ \E p \in Nat : OneAt(louds', p, N)
  <2>1. Len(louds) \in Nat
    BY <1>2, LenProperties
  <2>2. Select1(louds', N) = Len(louds)
    BY <1>4, <2>1, SelectIs
  <2>3. ParentOf(N)' = Len(louds) - N - 1
    BY <1>1, <2>2 DEF ParentOf
  <2>4. Len(louds) - N - 1 = nodeId
    BY <1>2, <1>3
  <2> QED BY <1>4, <2>1, <2>3, <2>4
<1>13. LabelOf(N)' = L
  <2>1. CASE linked
    <3>1. N \in 0 .. N /\ Rank1(linkFlags, N) = Len(nextKeys)
      BY <1>1, <1>8 DEF NumOnes
    <3>2. At(nextKeys', Rank1(linkFlags', N)).str = L
      BY <3>1, <1>5, <1>8, <2>1 DEF At
    <3> QED BY <3>2, <1>5, <2>1 DEF LabelOf
  <2>2. CASE ~linked
    <3>1. keyPos = w.keyPos + 1
      BY <1>1, <2>2
    <3>2. L = <<first[w.keyPos + 1]>>
      <4>1. w.keyPos + 1 \in 1 .. Len(first)
        BY <1>7, <3>1
      <4> QED BY <4>1, <3>1, <1>1, SubSeqOne
    <3>3. At(bases', N) = first[w.keyPos + 1]
      BY <1>6, <2>2 DEF At
    <3> QED BY <3>2, <3>3, <1>5, <2>2 DEF LabelOf
  <2> QED BY <2>1, <2>2
<1> QED BY <1>1, <1>8, <1>9, <1>10, <1>11, <1>12, <1>13 DEF PushedNode

\* A child's path is its parent's followed by its label; every other node keeps
\* its own.
LEMMA PushPaths ==
  ASSUME IInv, PathIInv, PushChild
  PROVE  PathIInv'
<1>1. PICK w, keyPos : ChildAtHand(w, keyPos)
  BY ChildFacts
<1>2. /\ TypeOK /\ StepShape /\ BuildInv /\ PathInv /\ pc' = "push"
      /\ keys' = keys /\ nodeId' = nodeId /\ keys # <<>>
  BY <1>1 DEF ChildAtHand, PathIInv, Building
<1>3. PushedNode(w, keyPos)
  BY <1>1, <1>2, PushedNodeFacts
<1>4. PICK N \in Nat, first \in Seq(Labels), L \in Strings, c \in Nat, from \in Nat :
        /\ N = Len(linkFlags) /\ Nodes' = 0 .. N /\ Nodes = 0 .. N - 1
        /\ \A i \in 0 .. N - 1 :
             /\ ParentOf(i)' = ParentOf(i) /\ LabelOf(i)' = LabelOf(i)
             /\ \E p \in Nat : OneAt(louds', p, i)
        /\ ParentOf(N)' = c
        /\ \E p \in Nat : OneAt(louds', p, N)
        /\ LabelOf(N)' = L
        /\ first = keys[w.begin].str /\ c = nodeId /\ from = w.keyPos
        /\ L = SubSeq(first, from + 1, keyPos)
  <2>1. /\ keys[w.begin].str \in Seq(Labels) /\ w.keyPos \in Nat /\ nodeId \in Nat
        /\ keyPos \in w.keyPos + 1 .. Len(keys[w.begin].str)
    BY <1>1 DEF ChildAtHand, TypeOK
  <2>2. Len(keys[w.begin].str) \in Nat
    BY <2>1, LenProperties
  <2>3. SubSeq(keys[w.begin].str, w.keyPos + 1, keyPos) \in Strings
    BY <2>1, <2>2, SubSeqProperties DEF Strings
  <2> QED BY <2>1, <2>3, <1>3 DEF PushedNode
<1>5. PICK n \in Nat : n = Len(queue)
  BY <1>2, LenProperties DEF TypeOK
<1>6. c \in 0 .. N - 1 /\ c = N - n - 1 /\ N \in 1 .. N /\ n <= N
  <2>1. nodeId \in Nat /\ nodeId = Len(linkFlags) - Len(queue) - 1
    BY <1>1, <1>2 DEF ChildAtHand, TypeOK, BuildInv, NodesCounted
  <2>2. c \in Nat /\ c = N - n - 1
    BY <2>1, <1>4, <1>5
  <2> QED BY <2>2
<1>7. /\ from \in Nat /\ keyPos \in from + 1 .. Len(first) /\ Len(first) \in Nat
      /\ keyPos \in Nat /\ from <= keyPos /\ keyPos <= Len(first)
  <2>1. w.keyPos \in Nat /\ keyPos \in w.keyPos + 1 .. Len(keys[w.begin].str)
    BY <1>1 DEF ChildAtHand
  <2>2. Len(first) \in Nat
    BY LenProperties
  <2> QED BY <2>1, <2>2, <1>4
<1>8. PICK g \in [0 .. N - 1 -> Strings] : Walks(g) /\ Spells(g)
  BY <1>2, <1>4 DEF PathInv, PathsSpelled
<1>9. /\ Len(queue') = n + 1 /\ DOMAIN queue' = 1 .. n + 1
      /\ \A p \in 1 .. n : queue'[p] = queue[p]
      /\ queue'[n + 1] = MakeRange(w.begin, w.end, keyPos)
      /\ DOMAIN queue = 1 .. n
  <2>1. /\ queue' = Append(queue, MakeRange(w.begin, w.end, keyPos)) /\ queue \in Seq(RangeType)
        /\ w.begin \in Nat /\ w.end \in Nat /\ w.begin < w.end
    BY <1>1 DEF ChildAtHand, TypeOK
  <2>2. PICK e, S : e = MakeRange(w.begin, w.end, keyPos) /\ S = RangeType \cup {e}
    OBVIOUS
  <2>3. queue \in Seq(S) /\ e \in S
    BY <2>1, <2>2, SeqMonotonic
  <2>4. /\ queue' \in Seq(S) /\ Len(queue') = n + 1 /\ queue'[n + 1] = e
        /\ \A p \in 1 .. n : queue'[p] = queue[p]
    BY <2>1, <2>2, <2>3, <1>5, AppendProperties
  <2> QED BY <2>2, <2>3, <2>4, <1>5, LenProperties
<1>10. /\ \A p \in DOMAIN wRanges' : p + 1 \in DOMAIN wRanges /\ wRanges'[p] = wRanges[p + 1]
       /\ 1 \in DOMAIN wRanges /\ wRanges[1] = w
  <2>1. PICK S : S = Range(wRanges) /\ wRanges \in Seq(S)
    BY <1>2 DEF StepShape
  <2>2. /\ wRanges # <<>> /\ w = Head(wRanges) /\ wRanges' = Tail(wRanges)
    BY <1>1 DEF ChildAtHand
  <2>3. PICK m \in Nat \ {0} : m = Len(wRanges) /\ DOMAIN wRanges = 1 .. m /\ w = wRanges[1]
    BY <2>1, <2>2, LenProperties, HeadTailProperties, EmptySeq
  <2>4. /\ wRanges' \in Seq(S) /\ Len(wRanges') = m - 1
        /\ \A p \in 1 .. m - 1 : wRanges'[p] = wRanges[p + 1]
    BY <2>1, <2>2, <2>3, HeadTailProperties
  <2>5. DOMAIN wRanges' = 1 .. m - 1
    BY <2>4, LenProperties
  <2> QED BY <2>3, <2>4, <2>5
<1>11. g[c] = SubSeq(first, 1, from)
  BY <1>4, <1>8, <1>10 DEF Spells
<1>12. SubSeq(first, 1, from) \o L = SubSeq(first, 1, keyPos)
  <2>1. SubSeq(first, 1, from) \o SubSeq(first, from + 1, keyPos) = SubSeq(first, 1, keyPos)
    BY ONLY <1>7, first \in Seq(Labels), SubSeqJoin
  <2> QED BY <2>1, <1>4
<1>13. PICK h \in [0 .. N -> Strings] :
         /\ \A i \in 0 .. N - 1 : h[i] = g[i]
         /\ h[N] = SubSeq(first, 1, keyPos)
  <2>1. SubSeq(first, 1, keyPos) \in Strings
    BY <1>7, SubSeqProperties DEF Strings
  <2>2. PICK s \in Strings : s = SubSeq(first, 1, keyPos)
    BY <2>1
  <2>3. PICK h : h = [i \in 0 .. N |-> IF i = N THEN s ELSE g[i]]
    OBVIOUS
  <2>4. \A i \in 0 .. N : i = N \/ i \in 0 .. N - 1
    OBVIOUS
  <2>5. \A i \in 0 .. N - 1 : i \in 0 .. N /\ i # N
    OBVIOUS
  <2>6. h \in [0 .. N -> Strings]
    BY <2>3, <2>4
  <2>7. N \in 0 .. N
    OBVIOUS
  <2> QED BY <2>2, <2>3, <2>5, <2>6, <2>7
<1>14. ParentsBefore'
  <2>1. ASSUME NEW i \in 0 .. N
        PROVE  (\E p \in Nat : OneAt(louds', p, i)) /\ (i # 0 => ParentOf(i)' \in 0 .. i - 1)
    <3>1. CASE i = N
      BY <3>1, <1>4, <1>6
    <3>2. CASE i # N
      <4>1. i \in 0 .. N - 1
        BY <3>2
      <4>2. i # 0 => ParentOf(i) \in 0 .. i - 1
        BY <4>1, <1>2, <1>4 DEF PathInv, ParentsBefore
      <4> QED BY <4>1, <4>2, <1>4
    <3> QED BY <3>1, <3>2
  <2> QED BY <2>1, <1>4 DEF ParentsBefore
<1>15. Walks(h)'
  <2>1. ASSUME NEW i \in 0 .. N
        PROVE  h[i] = IF i = 0 THEN <<>> ELSE h[ParentOf(i)'] \o LabelOf(i)'
    <3>1. CASE i = N
      <4>1. h[c] = g[c] /\ i # 0
        BY <3>1, <1>6, <1>13
      <4> QED BY <3>1, <4>1, <1>4, <1>11, <1>12, <1>13
    <3>2. CASE i # N
      <4>1. i \in 0 .. N - 1
        BY <3>2
      <4>2. g[i] = IF i = 0 THEN <<>> ELSE g[ParentOf(i)] \o LabelOf(i)
        BY <4>1, <1>4, <1>8 DEF Walks
      <4>3. i # 0 => ParentOf(i) \in 0 .. i - 1
        BY <4>1, <1>2, <1>4 DEF PathInv, ParentsBefore
      <4>4. i # 0 => ParentOf(i) \in 0 .. N - 1
        BY <4>1, <4>3
      <4> QED BY <4>1, <4>2, <4>4, <1>4, <1>13
    <3> QED BY <3>1, <3>2
  <2> QED BY <2>1, <1>4 DEF Walks
<1>16. Len(linkFlags') = N + 1
  <2>1. linkFlags' = Append(linkFlags, keyPos # w.keyPos + 1) /\ linkFlags \in Seq(BOOLEAN)
    BY <1>1 DEF ChildAtHand, TypeOK
  <2>2. PICK b \in BOOLEAN : b = (keyPos # w.keyPos + 1)
    OBVIOUS
  <2> QED BY <2>1, <2>2, <1>4, AppendProperties
<1>17. ASSUME NEW i \in DOMAIN keys, keys[i].data.kind = "terminal"
       PROVE  h[keys[i].data.val] = keys[i].str
  <2>1. keys[i].data.val < N - n
    BY <1>2, <1>4, <1>5, <1>17 DEF BuildInv, EndedKeys
  <2>2. keys[i].data.val \in Nat
    <3>1. keys[i] \in KeyType
      BY <1>2, <1>1, KeyFacts DEF TypeOK, KeysTyped, ChildAtHand
    <3> QED BY <3>1 DEF KeyType
  <2>3. keys[i].data.val \in 0 .. N - 1
    BY <2>1, <2>2, <1>6
  <2>4. g[keys[i].data.val] = keys[i].str
    BY <1>8, <1>17 DEF Spells
  <2> QED BY <2>3, <2>4, <1>13
<1>18. ASSUME NEW p \in 1 .. n + 1
       PROVE  /\ queue'[p].begin < queue'[p].end
              /\ h[(N + 1) - (n + 1) + p - 1] =
                   SubSeq(keys[queue'[p].begin].str, 1, queue'[p].keyPos)
  <2>1. CASE p = n + 1
    <3>1. (N + 1) - (n + 1) + p - 1 = N
      BY <2>1, <1>6
    <3>2. queue'[p].begin = w.begin /\ queue'[p].end = w.end /\ queue'[p].keyPos = keyPos
      BY <2>1, <1>9 DEF MakeRange
    <3>3. w.begin < w.end
      BY <1>1 DEF ChildAtHand
    <3> QED BY <3>1, <3>2, <3>3, <1>4, <1>13
  <2>2. CASE p # n + 1
    <3>1. p \in 1 .. n /\ queue'[p] = queue[p]
      BY <2>2, <1>9
    <3>2. (N + 1) - (n + 1) + p - 1 = N - n + p - 1 /\ N - n + p - 1 \in 0 .. N - 1
      BY <3>1, <1>6
    <3>3. /\ queue[p].begin < queue[p].end
          /\ g[N - n + p - 1] = SubSeq(keys[queue[p].begin].str, 1, queue[p].keyPos)
      BY <3>1, <1>2, <1>4, <1>5, <1>8, <1>9 DEF Spells
    <3> QED BY <3>1, <3>2, <3>3, <1>13
  <2> QED BY <2>1, <2>2
<1>19. ASSUME NEW p \in DOMAIN wRanges'
       PROVE  h[c] = SubSeq(keys[wRanges'[p].begin].str, 1, wRanges'[p].keyPos)
  <2>1. g[c] = SubSeq(keys[wRanges'[p].begin].str, 1, wRanges'[p].keyPos)
    BY <1>4, <1>8, <1>10, <1>19 DEF Spells
  <2> QED BY <2>1, <1>6, <1>13
<1>20. Spells(h)'
  <2>1. Spells(h)' <=>
          /\ \A i \in DOMAIN keys :
               keys[i].data.kind = "terminal" => h[keys[i].data.val] = keys[i].str
          /\ keys # <<>> =>
               \A p \in 1 .. n + 1 :
                 /\ queue'[p].begin < queue'[p].end
                 /\ h[(N + 1) - (n + 1) + p - 1] =
                      SubSeq(keys[queue'[p].begin].str, 1, queue'[p].keyPos)
          /\ \A p \in DOMAIN wRanges' :
               h[c] = SubSeq(keys[wRanges'[p].begin].str, 1, wRanges'[p].keyPos)
    BY <1>2, <1>4, <1>9, <1>16 DEF Spells
  <2> QED BY <2>1, <1>17, <1>18, <1>19
<1>21. PathsSpelled'
  BY <1>4, <1>13, <1>15, <1>20 DEF PathsSpelled
<1> QED BY <1>2, <1>3, <1>14, <1>21 DEF PathIInv, PathInv, PushedNode

---------------------------------------------------------------------------
\* Every step of build_current_trie keeps what the paths spell.
LEMMA StepPaths ==
  ASSUME IInv, PathIInv, [Next]_currentVars
  PROVE  PathIInv'
<1>1. CASE Begin
  BY <1>1, BeginPaths
<1>2. CASE TakeRange
  BY <1>2, TakePaths
<1>3. CASE PushChild
  BY <1>3, PushPaths
<1>4. CASE CloseNode
  BY <1>4, ClosePaths
<1>5. CASE Finish
  BY <1>5, FinishPaths
<1>6. CASE UNCHANGED currentVars
  <2>1. UNCHANGED <<pc, keys, queue, wRanges, nodeId, louds, bases, linkFlags, nextKeys>>
    BY <1>6 DEF currentVars, trieVars, levelVars
  <2>2. Building' = Building /\ Nodes' = Nodes
        /\ \A k : ParentOf(k)' = ParentOf(k) /\ LabelOf(k)' = LabelOf(k)
    BY <2>1 DEF Building, Nodes, ParentOf, LabelOf
  <2>3. LoudsCounted' = LoudsCounted /\ LinksNumbered' = LinksNumbered
    BY <2>1 DEF LoudsCounted, LinksNumbered
  <2>4. ParentsBefore => ParentsBefore'
    BY <2>1, <2>2 DEF ParentsBefore
  <2>5. PathsSpelled => PathsSpelled'
    BY <2>1, <2>2 DEF PathsSpelled, Walks, Spells
  <2> QED BY <2>1, <2>2, <2>3, <2>4, <2>5 DEF PathIInv, PathInv
<1> QED BY <1>1, <1>2, <1>3, <1>4, <1>5, <1>6 DEF Next, NextCurrent

\* The LOUDS, the labels and the strings for the next level give every node a
\* path, and that path is what its keys begin with.
THEOREM PathInvariant == Spec => [](IInv /\ PathIInv)
<1>1. Init => IInv /\ PathIInv
  BY InitPaths, InitKeeps
<1>2. IInv /\ PathIInv /\ [Next]_currentVars => PathIInv'
  BY StepPaths
<1>3. Spec => []IInv
  BY Invariant
<1> QED BY <1>1, <1>2, <1>3, PTL DEF Spec

\* PathsSpellKeys always holds: going up the LOUDS of build_current_trie from
\* the node a key ended at spells the key, and the numbers that the queued
\* ranges will get spell what their keys share.
THEOREM PathsAlwaysSpell == Spec => []PathsSpellKeys
<1>1. ASSUME IInv, PathIInv PROVE PathsSpellKeys
  <2> SUFFICES ASSUME Building PROVE PathsSpellKeys
    BY DEF PathsSpellKeys
  <2>1. TypeOK /\ PathInv
    BY <1>1 DEF IInv, PathIInv
  <2>2. PICK g \in [Nodes -> Strings] : Walks(g) /\ Spells(g)
    BY <2>1 DEF PathInv, PathsSpelled
  <2>3. PathTo = g
    BY <2>1, <2>2, PathToWalks DEF PathInv
  <2> HIDE DEF PathTo
  <2> QED BY <2>2, <2>3 DEF PathsSpellKeys, Spells
<1> QED BY <1>1, PathInvariant, PTL

---------------------------------------------------------------------------
(* Exclusive or, which spreads the cache.                                 *)

\* There is an exclusive or of every two numbers, and it is a number.
LEMMA XorValue ==
  \A a, b \in Nat :
    /\ Xor[<<a, b>>] \in Nat
    /\ Xor[<<a, b>>] = IF a = 0 \/ b = 0 THEN a + b
                       ELSE ((a + b) % 2) + 2 * Xor[<<a \div 2, b \div 2>>]
<1> DEFINE D == Nat \X Nat
           m == [p \in D |-> p[1]]
           next == [p \in D |-> <<p[1] \div 2, p[2] \div 2>>]
           stop == {p \in D : p[1] = 0 \/ p[2] = 0}
           b0 == [p \in D |-> p[1] + p[2]]
           h == [x \in D \X Nat |-> ((x[1][1] + x[1][2]) % 2) + 2 * x[2]]
<1>1. \A p \in D : p[1] \in Nat /\ p[2] \in Nat /\ p = <<p[1], p[2]>>
  OBVIOUS
<1>2. \A k \in Nat : k \div 2 \in Nat /\ k % 2 \in 0 .. 1 /\ (k # 0 => k \div 2 < k)
  OBVIOUS
<1>3. /\ next \in [D -> D] /\ m \in [D -> Nat] /\ stop \in SUBSET D
      /\ \A p \in D \ stop : m[next[p]] < m[p]
  <2>1. \A p \in D : next[p] = <<p[1] \div 2, p[2] \div 2>> /\ next[p] \in D
    BY <1>1, <1>2
  <2>2. \A p \in D : m[p] = p[1]
    OBVIOUS
  <2>3. \A p \in D : m[next[p]] = p[1] \div 2
    BY <2>1, <2>2
  <2>4. \A p \in D \ stop : p[1] # 0 /\ p \in D
    BY <1>1
  <2> QED BY <1>1, <1>2, <2>1, <2>2, <2>3, <2>4
<1>4. b0 \in [D -> Nat]
  BY <1>1
<1>5. h \in [D \X Nat -> Nat]
  <2>1. ASSUME NEW x \in D \X Nat PROVE ((x[1][1] + x[1][2]) % 2) + 2 * x[2] \in Nat
    <3>1. x[1][1] \in Nat /\ x[1][2] \in Nat /\ x[2] \in Nat
      OBVIOUS
    <3> QED BY <3>1, <1>2
  <2> QED BY <2>1
<1>6. PICK f \in [D -> Nat] : \A p \in D : Recurs(f, p, stop, b0, h, next)
  <2> HIDE DEF D, next, m, b0, h, stop
  <2> QED BY <1>3, <1>4, <1>5, RecursionHasSolution
<1> DEFINE Body(g, p) == IF p[1] = 0 \/ p[2] = 0 THEN p[1] + p[2]
                         ELSE ((p[1] + p[2]) % 2) + 2 * g[<<p[1] \div 2, p[2] \div 2>>]
<1>7. ASSUME NEW p \in D PROVE f[p] = Body(f, p)
  <2>1. Recurs(f, p, stop, b0, h, next)
    BY <1>6
  <2>2. next[p] = <<p[1] \div 2, p[2] \div 2>> /\ next[p] \in D /\ f[next[p]] \in Nat
    BY <1>3
  <2>3. h[<<p, f[next[p]]>>] = ((p[1] + p[2]) % 2) + 2 * f[next[p]]
    BY <2>2
  <2>4. b0[p] = p[1] + p[2]
    OBVIOUS
  <2>5. p \in stop <=> p[1] = 0 \/ p[2] = 0
    OBVIOUS
  <2> HIDE DEF h, b0, next, stop
  <2> QED BY <2>1, <2>2, <2>3, <2>4, <2>5 DEF Recurs
<1>8. f = [p \in D |-> Body(f, p)]
  <2>1. f = [p \in D |-> f[p]]
    OBVIOUS
  <2> HIDE DEF Body, D
  <2> QED BY <1>7, <2>1
<1>9. Xor = CHOOSE g : g = [p \in D |-> Body(g, p)]
  BY DEF Xor
<1>10. Xor = [p \in D |-> Body(Xor, p)]
  <2> HIDE DEF Body, D
  <2> QED BY <1>8, <1>9
<1>11. \A p \in D : Xor[p] = Body(Xor, p)
  <2> PICK g : g = Xor
    OBVIOUS
  <2>1. g = [p \in D |-> Body(g, p)]
    BY <1>10
  <2> HIDE DEF Body, D
  <2> QED BY <2>1
<1>12. ASSUME NEW a \in Nat, NEW b \in Nat
       PROVE  Xor[<<a, b>>] = IF a = 0 \/ b = 0 THEN a + b
                              ELSE ((a + b) % 2) + 2 * Xor[<<a \div 2, b \div 2>>]
  <2> <<a, b>> \in D
    OBVIOUS
  <2> HIDE DEF D
  <2> QED BY <1>11
<1>13. \A a, b \in Nat : Xor[<<a, b>>] \in Nat
  <2> DEFINE Bad == {k \in Nat : \E b \in Nat : Xor[<<k, b>>] \notin Nat}
  <2> SUFFICES ASSUME Bad # {} PROVE FALSE
    OBVIOUS
  <2>1. PICK k \in Bad : \A j \in Bad : k <= j
    <3>1. Bad \subseteq Nat
      OBVIOUS
    <3> HIDE DEF Bad
    <3> QED BY <3>1, LeastElement
  <2>2. PICK b \in Nat : Xor[<<k, b>>] \notin Nat
    OBVIOUS
  <2>3. k \in Nat /\ k # 0 /\ b # 0
    <3>1. k \in Nat
      OBVIOUS
    <3>2. k = 0 \/ b = 0 => Xor[<<k, b>>] = k + b
      BY <3>1, <1>12
    <3>3. k + b \in Nat
      BY <3>1
    <3> QED BY <3>1, <3>2, <3>3, <2>2
  <2>4. k \div 2 \in Nat /\ b \div 2 \in Nat /\ ~(k <= k \div 2)
    BY <2>3
  <2>5. Xor[<<k \div 2, b \div 2>>] \in Nat
    BY <2>1, <2>4
  <2>6. (k + b) % 2 \in Nat
    BY <2>3
  <2> QED BY <1>12, <2>2, <2>3, <2>5, <2>6
<1> QED BY <1>12, <1>13

\* The last bit of an exclusive or, and the others.
LEMMA XorBits ==
  ASSUME NEW a \in Nat, NEW b \in Nat
  PROVE  /\ Xor[<<a, b>>] % 2 = (a + b) % 2
         /\ Xor[<<a, b>>] \div 2 = Xor[<<a \div 2, b \div 2>>]
<1>1. PICK c \in Nat, d \in Nat, x \in Nat, y \in Nat :
        c = a \div 2 /\ d = b \div 2 /\ x = Xor[<<a, b>>] /\ y = Xor[<<a \div 2, b \div 2>>]
  <2>1. a \div 2 \in Nat /\ b \div 2 \in Nat
    OBVIOUS
  <2> QED BY <2>1, XorValue
<1>2. /\ x = IF a = 0 \/ b = 0 THEN a + b ELSE ((a + b) % 2) + 2 * y
      /\ y = IF c = 0 \/ d = 0 THEN c + d ELSE y
  BY <1>1, XorValue
<1>3. x % 2 = (a + b) % 2 /\ x \div 2 = y
  <2>1. CASE a = 0 \/ b = 0
    <3>1. x = a + b /\ y = c + d
      BY <2>1, <1>1, <1>2
    <3> QED BY <2>1, <3>1, <1>1
  <2>2. CASE ~(a = 0 \/ b = 0)
    <3>1. PICK r \in 0 .. 1 : r = (a + b) % 2
      OBVIOUS
    <3>2. x = 2 * y + r
      BY <2>2, <3>1, <1>2
    <3> QED BY <3>1, <3>2
  <2> QED BY <2>1, <2>2
<1> QED BY <1>1, <1>3

\* An exclusive or with a number of m bits tells it from the others in its last
\* m bits.
LEMMA XorSeparates ==
  ASSUME NEW m \in Nat, NEW x \in Nat, NEW a \in Nat, NEW b \in Nat,
         a < 2 ^ m, b < 2 ^ m, Xor[<<x, a>>] % 2 ^ m = Xor[<<x, b>>] % 2 ^ m
  PROVE  a = b
<1> DEFINE Differ(k, y, c, d) ==
             /\ c < 2 ^ k /\ d < 2 ^ k /\ c # d
             /\ Xor[<<y, c>>] % 2 ^ k = Xor[<<y, d>>] % 2 ^ k
           Bad == {k \in Nat : \E y, c, d \in Nat : Differ(k, y, c, d)}
<1>1. SUFFICES Bad = {}
  <2> SUFFICES ASSUME a # b PROVE FALSE
    OBVIOUS
  <2>1. Differ(m, x, a, b)
    OBVIOUS
  <2> HIDE DEF Differ
  <2> QED BY <1>1, <2>1
<1> SUFFICES ASSUME Bad # {} PROVE FALSE
  OBVIOUS
<1>2. PICK k \in Bad : \A j \in Bad : k <= j
  <2>1. Bad \subseteq Nat
    OBVIOUS
  <2> HIDE DEF Bad
  <2> QED BY <2>1, LeastElement
<1>3. PICK y \in Nat, c \in Nat, d \in Nat : Differ(k, y, c, d)
  <2> HIDE DEF Differ
  <2> QED OBVIOUS
<1>4. k \in Nat /\ k # 0
  <2>1. 2 ^ 0 = 1
    BY PowerOfTwo
  <2>2. k = 0 => FALSE
    BY <1>3, <2>1
  <2> HIDE DEF Differ
  <2> QED BY <2>2
<1>5. PICK j \in Nat : k = j + 1 /\ ~(k <= j)
  <2>1. k - 1 \in Nat /\ k = (k - 1) + 1 /\ ~(k <= k - 1)
    BY <1>4
  <2> QED BY <2>1
<1>6. PICK w \in Nat \ {0} : w = 2 ^ j /\ 2 ^ k = 2 * w
  BY <1>5, PowerOfTwo
<1>7. /\ c < 2 * w /\ d < 2 * w /\ c # d
      /\ Xor[<<y, c>>] % (2 * w) = Xor[<<y, d>>] % (2 * w)
  BY <1>3, <1>6
<1>8. PICK s \in Nat, t \in Nat : s = Xor[<<y, c>>] /\ t = Xor[<<y, d>>]
  BY XorValue
<1>9. s % 2 = t % 2 /\ (s \div 2) % w = (t \div 2) % w
  <2>1. /\ s % (2 * w) = 2 * ((s \div 2) % w) + (s % 2)
        /\ t % (2 * w) = 2 * ((t \div 2) % w) + (t % 2)
    BY ModTwice
  <2>2. s % 2 \in 0 .. 1 /\ t % 2 \in 0 .. 1 /\ s \div 2 \in Nat /\ t \div 2 \in Nat
    OBVIOUS
  <2>3. (s \div 2) % w \in 0 .. w - 1 /\ (t \div 2) % w \in 0 .. w - 1
    BY <2>2, DivModNat
  <2>4. PICK e \in Nat, f \in Nat, g \in 0 .. 1, h \in 0 .. 1 :
          /\ e = (s \div 2) % w /\ f = (t \div 2) % w /\ g = s % 2 /\ h = t % 2
    BY <2>2, <2>3
  <2>5. 2 * e + g = 2 * f + h
    BY <1>7, <1>8, <2>1, <2>4
  <2>6. e = f /\ g = h
    BY <2>5
  <2> QED BY <2>4, <2>6
<1>10. s % 2 = (y + c) % 2 /\ t % 2 = (y + d) % 2
  BY <1>8, XorBits
<1>11. s \div 2 = Xor[<<y \div 2, c \div 2>>] /\ t \div 2 = Xor[<<y \div 2, d \div 2>>]
  BY <1>8, XorBits
<1>12. c \div 2 # d \div 2
  BY <1>7, <1>9, <1>10
<1>13. /\ c \div 2 \in Nat /\ d \div 2 \in Nat /\ y \div 2 \in Nat
       /\ c \div 2 < w /\ d \div 2 < w
  BY <1>7
<1>14. Differ(j, y \div 2, c \div 2, d \div 2)
  BY <1>6, <1>9, <1>11, <1>12, <1>13
<1>15. j \in Bad
  <2> HIDE DEF Differ
  <2> QED BY <1>13, <1>14
<1> QED BY <1>2, <1>5, <1>15

---------------------------------------------------------------------------
(* What the cache holds.                                                   *)

NumSlots == Cardinality(DOMAIN cache)

\* A slot's entry is a node and its parent, and the slot is where the node
\* belongs: by its parent and its label on level 1, by its number below.
EntryHolds(slot) ==
  LET entry == cache[slot] IN
  entry.child # 0 =>
    /\ entry.child \in Nodes /\ entry.parent \in Nat
    /\ ParentOf(entry.child) = entry.parent
    /\ trieId = 1 =>
         /\ LabelOf(entry.child)[1] \in Labels
         /\ CacheIdByLabel(NumSlots, entry.parent, LabelOf(entry.child)[1]) = slot
    /\ trieId # 1 => CacheIdByChild(NumSlots, entry.child) = slot

\* On level 1 there are a multiple of the labels.
SlotsCounted == trieId = 1 => \E k \in Nat : NumSlots = LabelSize * 2 ^ k

CacheInv == SlotsCounted /\ \A slot \in DOMAIN cache : EntryHolds(slot)

CacheIInv ==
  /\ pc = "begin" => config.cacheLevel \in Nat \ {0}
  /\ Building => CacheInv

\* sort counts no more strings than there are.
LEMMA SortCountBound ==
  ASSUME NEW n \in Nat, NEW strs, DOMAIN strs = 1 .. n, strs = [i \in 1 .. n |-> strs[i]]
  PROVE  SortCount(strs) \in 0 .. n
<1>1. Len(strs) = n
  <2>1. PICK S : S = {strs[i] : i \in 1 .. n}
    OBVIOUS
  <2>2. strs \in [1 .. n -> S]
    BY <2>1
  <2>3. strs \in Seq(S)
    BY <2>2, SeqDef
  <2>4. Len(strs) \in Nat /\ DOMAIN strs = 1 .. Len(strs)
    BY <2>3, LenProperties
  <2> QED BY <2>4
<1>2. IsFiniteSet(1 .. n) /\ Cardinality(1 .. n) = n
  BY FS_Interval
<1>3. PICK T : T = {strs[i] : i \in DOMAIN strs}
  OBVIOUS
<1>4. IsFiniteSet(T) /\ Cardinality(T) <= Cardinality(1 .. n)
  <2>1. strs \in Surjection(1 .. n, T)
    BY <1>3 DEF Surjection
  <2> QED BY <1>2, <2>1, FS_Surjection
<1>5. Cardinality(T) \in Nat
  BY <1>4, FS_CardinalityType
<1> QED BY <1>1, <1>2, <1>3, <1>4, <1>5 DEF SortCount

\* reserve_cache finds a size: one of its powers of two is large enough.
LEMMA CacheSizeIs ==
  ASSUME keys \in Seq(KeyType), config.cacheLevel \in Nat \ {0}
  PROVE  \E k \in Nat : CacheSize = (IF trieId = 1 THEN LabelSize ELSE 1) * 2 ^ k
<1>1. PICK n \in Nat, u \in Nat \ {0}, level \in Nat \ {0} :
        /\ n = Len(keys) /\ u = (IF trieId = 1 THEN LabelSize ELSE 1) /\ level = config.cacheLevel
        /\ DOMAIN keys = 1 .. n
  <2>1. Len(keys) \in Nat /\ DOMAIN keys = 1 .. Len(keys)
    BY LenProperties
  <2>2. (IF trieId = 1 THEN LabelSize ELSE 1) \in Nat \ {0}
    BY LabelSizeAssumption
  <2> QED BY <2>1, <2>2
<1>2. PICK c \in 0 .. n : c = SortCount([i \in DOMAIN keys |-> keys[i].str])
  <2>1. PICK strs : strs = [i \in 1 .. n |-> keys[i].str]
    OBVIOUS
  <2>2. SortCount(strs) \in 0 .. n
    BY <2>1, SortCountBound
  <2> QED BY <1>1, <2>1, <2>2
<1>3. PICK q \in 0 .. n : q = c \div level
  <2>1. c \div level \in Nat /\ c % level \in 0 .. level - 1 /\ c = level * (c \div level) + (c % level)
    BY c \in Nat, DivModNat
  <2>2. PICK q \in Nat, r \in Nat : q = c \div level /\ c = level * q + r
    BY <2>1
  <2>3. q <= level * q
    OBVIOUS
  <2>4. q <= n
    BY <2>2, <2>3
  <2> QED BY <2>2, <2>4
<1>4. PICK S : S = {s \in {u * 2 ^ k : k \in 0 .. n} : s >= q}
  OBVIOUS
<1>5. CacheSize = Min(S)
  BY <1>1, <1>2, <1>3, <1>4 DEF CacheSize
<1>6. S \subseteq Nat
  <2>1. ASSUME NEW k \in 0 .. n PROVE u * 2 ^ k \in Nat
    <3>1. 2 ^ k \in Nat
      BY PowerOfTwo
    <3> QED BY <3>1
  <2> QED BY <2>1, <1>4
<1>7. S # {}
  <2>1. PICK w \in Nat : w = 2 ^ n /\ n < w
    BY PowerOfTwo, PowerIsMore
  <2>2. u * w >= q
    <3>1. u * w >= w
      OBVIOUS
    <3> QED BY <2>1, <3>1
  <2>3. n \in 0 .. n /\ u * 2 ^ n >= q
    BY <2>1, <2>2
  <2>4. u * 2 ^ n \in S
    BY <2>3, <1>4
  <2> QED BY <2>4
<1>8. Min(S) \in S
  BY <1>6, <1>7, MinOfSet
<1>9. PICK k \in 0 .. n : Min(S) = u * 2 ^ k
  BY <1>4, <1>8
<1> QED BY <1>1, <1>5, <1>9

\* The level of the cache is a number that reserve_cache can divide by.
LEMMA InitCache == Init => CacheIInv
BY InputsAssumption DEF Init, CacheIInv, Building

\* The cache is reserved, and empty.
LEMMA BeginCache ==
  ASSUME IInv, CacheIInv, Begin
  PROVE  CacheIInv'
<1>1. /\ keys \in Seq(KeyType) /\ config.cacheLevel \in Nat \ {0} /\ trieId' = trieId
      /\ pc' = "take" /\ cache' = [slot \in 0 .. CacheSize - 1 |-> EmptyCache]
  BY DEF IInv, TypeOK, CacheIInv, Begin
<1>2. PICK k \in Nat : CacheSize = (IF trieId = 1 THEN LabelSize ELSE 1) * 2 ^ k
  BY <1>1, CacheSizeIs
<1>3. PICK s \in Nat : s = CacheSize
  <2>1. (IF trieId = 1 THEN LabelSize ELSE 1) \in Nat /\ 2 ^ k \in Nat
    BY LabelSizeAssumption, PowerOfTwo
  <2> QED BY <1>2, <2>1
<1>4. DOMAIN cache' = 0 .. s - 1 /\ Cardinality(0 .. s - 1) = s
  <2>1. 0 \in Int /\ s - 1 \in Int
    OBVIOUS
  <2>2. Cardinality(0 .. s - 1) = s
    BY <2>1, FS_Interval
  <2> QED BY <1>1, <1>3, <2>2
<1>5. SlotsCounted'
  <2>1. SlotsCounted' <=> (trieId = 1 => \E j \in Nat : Cardinality(DOMAIN cache') = LabelSize * 2 ^ j)
    BY <1>1 DEF SlotsCounted, NumSlots
  <2> QED BY <2>1, <1>2, <1>3, <1>4
<1>6. \A slot \in DOMAIN cache' : EntryHolds(slot)'
  <2>1. \A slot \in DOMAIN cache' : cache'[slot].child = 0
    BY <1>1 DEF EmptyCache
  <2> QED BY <2>1 DEF EntryHolds
<1> QED BY <1>1, <1>5, <1>6 DEF CacheIInv, CacheInv

\* A step that leaves the nodes and the cache alone keeps what it holds.
LEMMA SameEntries ==
  ASSUME CacheInv, Nodes' = Nodes, cache' = cache, trieId' = trieId,
         \A n \in Nodes : ParentOf(n)' = ParentOf(n) /\ LabelOf(n)' = LabelOf(n)
  PROVE  CacheInv'
<1>1. NumSlots' = NumSlots
  BY DEF NumSlots
<1>2. SlotsCounted'
  BY <1>1 DEF CacheInv, SlotsCounted
<1>3. ASSUME NEW slot \in DOMAIN cache PROVE EntryHolds(slot)'
  <2>1. EntryHolds(slot)
    BY DEF CacheInv
  <2>2. PICK child, parent : child = cache[slot].child /\ parent = cache[slot].parent
    OBVIOUS
  <2>3. CASE child = 0
    BY <2>2, <2>3 DEF EntryHolds
  <2>4. CASE child # 0
    <3>1. /\ child \in Nodes /\ parent \in Nat /\ ParentOf(child) = parent
          /\ trieId = 1 =>
               /\ LabelOf(child)[1] \in Labels
               /\ CacheIdByLabel(NumSlots, parent, LabelOf(child)[1]) = slot
          /\ trieId # 1 => CacheIdByChild(NumSlots, child) = slot
      BY <2>1, <2>2, <2>4 DEF EntryHolds
    <3>2. EntryHolds(slot)' <=>
            /\ child \in Nodes' /\ parent \in Nat /\ ParentOf(child)' = parent
            /\ trieId = 1 =>
                 /\ LabelOf(child)'[1] \in Labels
                 /\ CacheIdByLabel(NumSlots, parent, LabelOf(child)'[1]) = slot
            /\ trieId # 1 => CacheIdByChild(NumSlots, child) = slot
      BY <1>1, <2>2, <2>4 DEF EntryHolds, CacheIdByLabel, CacheIdByChild
    <3> QED BY <3>1, <3>2
  <2> QED BY <2>3, <2>4
<1> QED BY <1>2, <1>3 DEF CacheInv

\* TakeRange leaves the cache alone.
LEMMA TakeCache ==
  ASSUME CacheIInv, TakeRange
  PROVE  CacheIInv'
<1>1. /\ CacheInv /\ pc' = "push"
      /\ UNCHANGED <<trieId, louds, bases, linkFlags, cache, nextKeys>>
  BY DEF CacheIInv, TakeRange, Building
<1>2. Nodes' = Nodes /\ \A n : ParentOf(n)' = ParentOf(n) /\ LabelOf(n)' = LabelOf(n)
  BY <1>1 DEF Nodes, ParentOf, LabelOf
<1>3. CacheInv'
  BY <1>1, <1>2, SameEntries
<1> QED BY <1>1, <1>3 DEF CacheIInv

\* So does CloseNode.
LEMMA CloseCache ==
  ASSUME IInv, PathIInv, CacheIInv, CloseNode
  PROVE  CacheIInv'
<1>1. CacheInv /\ pc' = "take" /\ UNCHANGED <<trieId, cache>>
  BY DEF CacheIInv, CloseNode, Building
<1>2. CacheInv'
  BY <1>1, CloseKeepsParents, SameEntries
<1> QED BY <1>1, <1>2 DEF CacheIInv

\* The child is cached where it belongs, or not at all.
LEMMA PushCache ==
  ASSUME IInv, PathIInv, CacheIInv, PushChild
  PROVE  CacheIInv'
<1>1. PICK w, keyPos : ChildAtHand(w, keyPos)
  BY ChildFacts
<1>2. /\ TypeOK /\ BuildInv /\ PathInv /\ CacheInv /\ pc' = "push" /\ trieId' = trieId
  BY <1>1 DEF ChildAtHand, PathIInv, CacheIInv, Building, PushChild
<1>3. PushedNode(w, keyPos)
  BY <1>1, <1>2, PushedNodeFacts
<1>4. PICK N \in Nat, first \in Seq(Labels), c \in Nat, from \in Nat :
        /\ N = Len(linkFlags) /\ Nodes' = 0 .. N /\ Nodes = 0 .. N - 1
        /\ \A i \in 0 .. N - 1 : ParentOf(i)' = ParentOf(i) /\ LabelOf(i)' = LabelOf(i)
        /\ ParentOf(N)' = c
        /\ LabelOf(N)' = SubSeq(first, from + 1, keyPos)
        /\ first = keys[w.begin].str /\ c = nodeId /\ from = w.keyPos
        /\ keyPos \in from + 1 .. Len(first) /\ Len(first) \in Nat
  <2>1. /\ keys[w.begin].str \in Seq(Labels) /\ nodeId \in Nat /\ w.keyPos \in Nat
        /\ keyPos \in w.keyPos + 1 .. Len(keys[w.begin].str)
    BY <1>1, <1>2 DEF ChildAtHand, TypeOK
  <2>2. Len(keys[w.begin].str) \in Nat
    BY <2>1, LenProperties
  <2> QED BY <2>1, <2>2, <1>3 DEF PushedNode
<1>5. PICK label \in Labels : label = first[from + 1] /\ LabelOf(N)'[1] = label
  <2>1. from + 1 \in 1 .. Len(first)
    BY <1>4
  <2>2. first[from + 1] \in Labels
    BY <2>1, ElementOfSeq
  <2>3. SubSeq(first, from + 1, keyPos)[1] = first[from + 1]
    <3>1. PICK d \in Nat : d = from + 1 /\ d \in 1 .. Len(first) /\ d <= keyPos /\ keyPos \in d .. Len(first)
      BY <1>4
    <3>2. SubSeq(first, d, keyPos)[1] = first[d]
      BY <3>1, <1>4, SubSeqHead
    <3> QED BY <3>1, <3>2
  <2> QED BY <2>2, <2>3, <1>4
<1>6. PICK slot, entry :
        /\ slot = CacheSlot(c, N, label)
        /\ entry.parent = c /\ entry.child = N
        /\ cache' = [cache EXCEPT ![slot] = entry] \/ cache' = cache
  <2>1. Len(bases) = N
    BY <1>2, <1>4 DEF TypeOK
  <2>2. cache' = CacheAfter(nodeId, Len(bases), w.weight, keys[w.begin].str[w.keyPos + 1])
    BY <1>1 DEF PushChild, ChildAtHand
  <2>3. cache' = CacheAfter(c, N, w.weight, label)
    BY <2>1, <2>2, <1>4, <1>5
  <2>4. PICK e : e = [parent |-> c, child |-> N, weight |-> w.weight] /\ e.parent = c /\ e.child = N
    <3>1. PICK v : v = w.weight
      OBVIOUS
    <3>2. [parent |-> c, child |-> N, weight |-> v].parent = c
      OBVIOUS
    <3>3. [parent |-> c, child |-> N, weight |-> v].child = N
      OBVIOUS
    <3> QED BY <3>1, <3>2, <3>3
  <2>5. CASE w.weight > cache[CacheSlot(c, N, label)].weight
    BY <2>3, <2>4, <2>5 DEF CacheAfter
  <2>6. CASE ~(w.weight > cache[CacheSlot(c, N, label)].weight)
    BY <2>3, <2>4, <2>6 DEF CacheAfter
  <2> QED BY <2>5, <2>6
<1>7. /\ DOMAIN cache' = DOMAIN cache /\ NumSlots' = NumSlots
      /\ \A s \in DOMAIN cache : cache'[s] = cache[s] \/ (s = slot /\ cache'[s] = entry)
  <2>1. /\ DOMAIN cache' = DOMAIN cache
        /\ \A s \in DOMAIN cache : cache'[s] = cache[s] \/ (s = slot /\ cache'[s] = entry)
    BY <1>6
  <2> QED BY <2>1 DEF NumSlots
<1>8. SlotsCounted'
  BY <1>2, <1>7 DEF CacheInv, SlotsCounted
<1>9. ASSUME NEW s \in DOMAIN cache PROVE EntryHolds(s)'
  <2>1. PICK child, parent : child = cache'[s].child /\ parent = cache'[s].parent
    OBVIOUS
  <2>2. CASE child = 0
    BY <2>1, <2>2 DEF EntryHolds
  <2>3. CASE child # 0
    <3>1. EntryHolds(s)' <=>
            /\ child \in 0 .. N /\ parent \in Nat /\ ParentOf(child)' = parent
            /\ trieId = 1 =>
                 /\ LabelOf(child)'[1] \in Labels
                 /\ CacheIdByLabel(NumSlots, parent, LabelOf(child)'[1]) = s
            /\ trieId # 1 => CacheIdByChild(NumSlots, child) = s
      BY <1>2, <1>4, <1>7, <2>1, <2>3 DEF EntryHolds, CacheIdByLabel, CacheIdByChild
    <3>2. CASE cache'[s] = cache[s]
      <4>1. /\ child \in 0 .. N - 1 /\ parent \in Nat /\ ParentOf(child) = parent
            /\ trieId = 1 =>
                 /\ LabelOf(child)[1] \in Labels
                 /\ CacheIdByLabel(NumSlots, parent, LabelOf(child)[1]) = s
            /\ trieId # 1 => CacheIdByChild(NumSlots, child) = s
        BY <1>2, <1>4, <2>1, <2>3, <3>2 DEF CacheInv, EntryHolds
      <4>2. child \in 0 .. N
        BY <4>1
      <4> QED BY <3>1, <4>1, <4>2, <1>4
    <3>3. CASE s = slot /\ cache'[s] = entry
      <4>1. child = N /\ parent = c /\ N \in 0 .. N
        BY <3>3, <1>6, <2>1
      <4>2. /\ trieId = 1 => CacheIdByLabel(NumSlots, c, label) = s
            /\ trieId # 1 => CacheIdByChild(NumSlots, N) = s
        BY <3>3, <1>6 DEF CacheSlot, NumSlots
      <4> QED BY <3>1, <4>1, <4>2, <1>4, <1>5
    <3> QED BY <3>2, <3>3, <1>7
  <2> QED BY <2>2, <2>3
<1> QED BY <1>2, <1>7, <1>8, <1>9 DEF CacheIInv, CacheInv

\* Where the number of slots is a multiple of the number of labels, a parent's
\* children have slots of their own.
LEMMA SlotsTellLabels ==
  ASSUME NEW k \in Nat, NEW s, s = LabelSize * 2 ^ k, NEW parent \in Nat,
         NEW a \in Labels, NEW b \in Labels,
         CacheIdByLabel(s, parent, a) = CacheIdByLabel(s, parent, b)
  PROVE  a = b
<1>1. PICK m \in 0 .. LabelSize : LabelSize = 2 ^ m
  BY LabelBitsAssumption
<1>2. m \in Nat
  OBVIOUS
<1>3. PICK w \in Nat \ {0}, j \in Nat \ {0} : w = 2 ^ m /\ j = 2 ^ k /\ s = w * j /\ LabelSize = w
  BY <1>1, <1>2, PowerOfTwo
<1>4. PICK x \in Nat : x = Xor[<<parent, parent * 2 ^ CacheShift>>]
  <2>1. 2 ^ CacheShift \in Nat
    BY CacheShiftAssumption, PowerOfTwo
  <2>2. parent * 2 ^ CacheShift \in Nat
    BY <2>1
  <2> QED BY <2>2, XorValue
<1>5. a \in Nat /\ b \in Nat /\ a < w /\ b < w
  BY <1>3 DEF Labels
<1>6. PICK y \in Nat, z \in Nat : y = Xor[<<x, a>>] /\ z = Xor[<<x, b>>]
  BY <1>5, XorValue
<1>7. y % (w * j) = z % (w * j)
  BY <1>3, <1>4, <1>6 DEF CacheIdByLabel
<1>8. y % w = z % w
  BY <1>7, ModOfMultiple
<1> QED BY <1>2, <1>3, <1>5, <1>6, <1>8, XorSeparates

\* Every step of build_current_trie keeps what the cache holds.
LEMMA StepCache ==
  ASSUME IInv, PathIInv, CacheIInv, [Next]_currentVars
  PROVE  CacheIInv'
<1>1. CASE Begin
  BY <1>1, BeginCache
<1>2. CASE TakeRange
  BY <1>2, TakeCache
<1>3. CASE PushChild
  BY <1>3, PushCache
<1>4. CASE CloseNode
  BY <1>4, CloseCache
<1>5. CASE Finish
  BY <1>5 DEF Finish, CacheIInv, Building
<1>6. CASE UNCHANGED currentVars
  <2>1. UNCHANGED <<pc, config, trieId, cache, louds, bases, linkFlags, nextKeys>>
    BY <1>6 DEF currentVars, trieVars, levelVars
  <2>2. Building' = Building /\ Nodes' = Nodes
        /\ \A k : ParentOf(k)' = ParentOf(k) /\ LabelOf(k)' = LabelOf(k)
    BY <2>1 DEF Building, Nodes, ParentOf, LabelOf
  <2>3. CacheInv => CacheInv'
    BY <2>1, <2>2, SameEntries
  <2> QED BY <2>1, <2>2, <2>3 DEF CacheIInv
<1> QED BY <1>1, <1>2, <1>3, <1>4, <1>5, <1>6 DEF Next, NextCurrent

\* Every entry of the cache is a node and its parent, in the node's own slot.
THEOREM CacheInvariant == Spec => [](IInv /\ PathIInv /\ CacheIInv)
<1>1. Init => CacheIInv
  BY InitCache
<1>2. IInv /\ PathIInv /\ CacheIInv /\ [Next]_currentVars => CacheIInv'
  BY StepCache
<1> QED BY <1>1, <1>2, PathInvariant, PTL DEF Spec

\* CacheHitsAreChildren always holds: a slot of build_current_trie's cache whose
\* parent is a node holds the child with the label that was looked up there, and
\* one whose child is a node holds that node's parent.
THEOREM CacheAlwaysHits == Spec => []CacheHitsAreChildren
<1>1. ASSUME CacheIInv PROVE CacheHitsAreChildren
  <2> SUFFICES ASSUME Building, NEW slot \in DOMAIN cache, cache[slot].child # 0
               PROVE  /\ ParentOf(cache[slot].child) = cache[slot].parent
                      /\ trieId = 1 =>
                           \A label \in Labels :
                             CacheIdByLabel(NumSlots, cache[slot].parent, label) = slot
                               => LabelOf(cache[slot].child)[1] = label
                      /\ trieId # 1 => CacheIdByChild(NumSlots, cache[slot].child) = slot
    BY DEF CacheHitsAreChildren, NumSlots
  <2>1. SlotsCounted /\ EntryHolds(slot)
    BY <1>1 DEF CacheIInv, CacheInv
  <2>2. PICK child, parent, label :
          /\ child = cache[slot].child /\ parent = cache[slot].parent
          /\ label = LabelOf(child)[1]
    OBVIOUS
  <2>3. /\ parent \in Nat /\ ParentOf(child) = parent
        /\ trieId = 1 => label \in Labels /\ CacheIdByLabel(NumSlots, parent, label) = slot
        /\ trieId # 1 => CacheIdByChild(NumSlots, child) = slot
    BY <2>1, <2>2 DEF EntryHolds
  <2>4. ASSUME trieId = 1, NEW other \in Labels,
               CacheIdByLabel(NumSlots, parent, other) = slot
        PROVE  label = other
    <3>1. PICK k \in Nat : NumSlots = LabelSize * 2 ^ k
      BY <2>1, <2>4 DEF SlotsCounted
    <3>2. PICK s : s = NumSlots
      OBVIOUS
    <3>3. /\ s = LabelSize * 2 ^ k /\ parent \in Nat /\ label \in Labels
          /\ CacheIdByLabel(s, parent, label) = CacheIdByLabel(s, parent, other)
      BY <2>3, <2>4, <3>1, <3>2
    <3> QED BY ONLY <3>3, k \in Nat, other \in Labels, SlotsTellLabels
  <2> QED BY <2>2, <2>3, <2>4
<1> QED BY <1>1, CacheInvariant, PTL

---------------------------------------------------------------------------
(* What a level keeps for the levels around it.                            *)

\* The strings for the next level are there to be split, with weights.
LinksTyped ==
  /\ nextKeys \in Seq([str : Strings, weight : Nat])
  /\ \A k \in 1 .. Len(nextKeys) : Len(nextKeys[k].str) > 0

WeightsTyped == \A p \in DOMAIN wRanges : wRanges[p].weight \in Nat

\* The root's children are the nodes up to num_l1_nodes.
RootsChildren ==
  /\ pc = "push" /\ nodeId = 0 => numL1Nodes = Len(linkFlags) - 1 + Len(wRanges)
  /\ ~(pc = "push" /\ nodeId = 0) => numL1Nodes < Len(linkFlags)
  /\ pc = "take" /\ Len(queue) = Len(linkFlags) => Len(linkFlags) = 1
  /\ \A n \in Nodes : n # 0 => (ParentOf(n) = 0 <=> n <= numL1Nodes)

RootPlain == Len(linkFlags) > 0 /\ ~At(linkFlags, 0)

\* Whatever begins a key that has ended has ended, at a node before.
Begins(s, t) == Len(s) <= Len(t) /\ \A q \in 1 .. Len(s) : s[q] = t[q]

PrefixesEnd ==
  \A i, j \in DOMAIN keys :
    keys[j].data.kind = "terminal" /\ Begins(keys[i].str, keys[j].str) =>
      keys[i].data.kind = "terminal" /\ keys[i].data.val <= keys[j].data.val

LevelInv == LinksTyped /\ WeightsTyped /\ RootsChildren /\ RootPlain /\ PrefixesEnd

LevelIInv ==
  /\ pc = "begin" => nextKeys = <<>> /\ numL1Nodes = 0
  /\ Building => LevelInv

\* A sum of natural numbers is one.
LEMMA SumIsNat ==
  ASSUME NEW S, IsFiniteSet(S), NEW f \in [S -> Int], \A x \in S : f[x] \in Nat,
         NEW g, SumsUp(g, f, S)
  PROVE  g[S] \in Nat
<1>1. /\ g[{}] = 0
      /\ \A s \in SUBSET S : \A x \in s : g[s] = f[x] + g[s \ {x}]
  BY SumAdds
<1>2. ASSUME NEW s \in SUBSET S PROVE IsFiniteSet(s) /\ Cardinality(s) \in Nat
  BY FS_Subset, FS_CardinalityType
<1> DEFINE Bad == {n \in Nat : \E t \in SUBSET S : Cardinality(t) = n /\ g[t] \notin Nat}
<1>3. Bad = {}
  <2> SUFFICES ASSUME Bad # {} PROVE FALSE
    OBVIOUS
  <2>1. PICK n \in Bad : \A k \in Bad : n <= k
    <3>1. Bad \subseteq Nat
      OBVIOUS
    <3> HIDE DEF Bad
    <3> QED BY <3>1, LeastElement
  <2>2. PICK t \in SUBSET S : Cardinality(t) = n /\ g[t] \notin Nat
    OBVIOUS
  <2>3. PICK x \in t : TRUE
    BY <1>1, <2>2
  <2>4. Cardinality(t \ {x}) = Cardinality(t) - 1 /\ t \ {x} \in SUBSET S
    BY <1>2, <2>3, FS_RemoveElement
  <2>5. Cardinality(t \ {x}) \in Nat /\ ~(n <= Cardinality(t \ {x}))
    BY <1>2, <2>2, <2>4
  <2>6. g[t \ {x}] \in Nat
    BY <2>1, <2>4, <2>5
  <2>7. g[t] = f[x] + g[t \ {x}] /\ f[x] \in Nat
    BY <1>1, <2>3
  <2> QED BY <2>2, <2>6, <2>7
<1>4. Cardinality(S) \in Nat /\ S \in SUBSET S
  BY <1>2
<1> QED BY <1>3, <1>4

\* A sum of weights is a number.
LEMMA GroupWeightIsNat ==
  ASSUME KeysTyped, NEW begin \in Nat, NEW end \in Nat, begin .. end - 1 \subseteq DOMAIN keys
  PROVE  GroupWeight(begin, end) \in Nat
<1> DEFINE S == begin .. end - 1
           f == [i \in S |-> keys[i].data.val]
           Adds(g) == [s \in SUBSET S |->
                         IF s = {} THEN 0
                         ELSE keys[CHOOSE x \in s : TRUE].data.val + g[s \ {CHOOSE x \in s : TRUE}]]
           sum == CHOOSE g : g = Adds(g)
<1>1. GroupWeight(begin, end) = sum[S]
  BY DEF GroupWeight, MapThenSumSet, MapThenFoldSet
<1>2. IsFiniteSet(S) /\ f \in [S -> Int] /\ \A i \in S : f[i] \in Nat
  <2>1. \A i \in S : keys[i].data.val \in Nat
    BY KeyFacts DEF KeyType
  <2>2. IsFiniteSet(S)
    BY FS_Interval
  <2> HIDE DEF S
  <2> QED BY <2>1, <2>2
<1> HIDE DEF S
<1>3. \A g : g = Adds(g) <=> SumsUp(g, f, S)
  <2> SUFFICES ASSUME NEW g
               PROVE  Adds(g) = [s \in SUBSET S |-> IF s = {} THEN 0
                                                  ELSE f[SomeOf(s)] + g[s \ {SomeOf(s)}]]
    BY DEF SumsUp
  <2>1. ASSUME NEW s \in SUBSET S, s # {}
        PROVE  f[SomeOf(s)] = keys[CHOOSE x \in s : TRUE].data.val
    BY <2>1 DEF SomeOf
  <2> QED BY <2>1 DEF SomeOf
<1>4. SumsUp(sum, f, S)
  <2>1. PICK g : SumsUp(g, f, S)
    <3> HIDE DEF f
    <3> QED BY <1>2, SumExists
  <2>2. \E h : h = Adds(h)
    <3> HIDE DEF Adds
    <3> QED BY <1>3, <2>1
  <2>3. sum = Adds(sum)
    <3> HIDE DEF Adds
    <3> QED BY <2>2
  <2> HIDE DEF sum, Adds, f
  <2> QED BY <1>3, <2>3
<1>5. sum[S] \in Nat
  <2> HIDE DEF sum, f
  <2> QED BY <1>2, <1>4, SumIsNat
<1> QED BY <1>1, <1>5

\* A child's weight is that of its keys.
LEMMA ChildWeights ==
  ASSUME NEW begin, NEW end, NEW n, NEW ws \in ChildRanges(begin, end, n)
  PROVE  \A p \in DOMAIN ws : ws[p].weight = GroupWeight(ws[p].begin, ws[p].end)
<1> DEFINE begins == GroupBegins(begin, end, n)
           Child(b) == [begin |-> b, end |-> GroupEnd(b, end, n), keyPos |-> n,
                        weight |-> GroupWeight(b, GroupEnd(b, end, n))]
           children == [b \in begins |-> Child(b)]
<1>1. PICK order \in [1 .. Cardinality(begins) -> begins] :
        ws = [i \in DOMAIN order |-> children[order[i]]]
  BY DEF ChildRanges
<1>2. ASSUME NEW b \in begins
      PROVE  children[b].weight = GroupWeight(children[b].begin, children[b].end)
  OBVIOUS
<1>3. \A i \in DOMAIN order : order[i] \in begins
  OBVIOUS
<1> HIDE DEF children, begins
<1> QED BY <1>1, <1>2, <1>3

\* What TakeRange does to the node's range r, whose keys end before alive.
Taken(r, alive) ==
  /\ TypeOK /\ StepShape /\ BuildInv /\ pc = "take" /\ pc' = "push"
  /\ queue # <<>> /\ wRanges = <<>> /\ Len(queue) \in Nat \ {0}
  /\ UNCHANGED <<input, linkFlags, bases, louds, trieId, terminals, nextKeys>>
  /\ queue' = Tail(queue) /\ nodeId' = Len(linkFlags) - Len(queue)
  /\ r = queue[1] /\ 1 \in DOMAIN queue /\ r \in RangeType
  /\ Len(keys) \in Nat /\ DOMAIN keys = 1 .. Len(keys) /\ KeysTyped /\ SortedKeys
  /\ r.begin \in Nat \ {0} /\ r.end \in Nat /\ r.keyPos \in Nat
  /\ r.begin <= r.end /\ r.end <= Len(keys) + 1
  /\ Extensions(r.begin, r.end, r.keyPos)
  /\ alive \in r.begin .. r.end
  /\ \A i \in r.begin .. alive - 1 : Len(keys[i].str) = r.keyPos
  /\ \A i \in alive .. r.end - 1 : Len(keys[i].str) > r.keyPos
  /\ DOMAIN keys' = DOMAIN keys
  /\ \A i \in DOMAIN keys :
       /\ keys'[i].str = keys[i].str
       /\ i \in r.begin .. alive - 1 => keys'[i].data = Terminal(nodeId')
       /\ i \notin r.begin .. alive - 1 => keys'[i].data = keys[i].data
  /\ IF alive = r.end THEN wRanges' = <<>> /\ numL1Nodes' = numL1Nodes
     ELSE /\ wRanges' \in ChildRanges(alive, r.end, r.keyPos)
          /\ numL1Nodes' = IF nodeId' = 0 THEN Len(wRanges') ELSE numL1Nodes

\* TakeRange ends the keys that stop at the node.
LEMMA TakeFacts ==
  ASSUME IInv, TakeRange
  PROVE  \E r, alive : Taken(r, alive)
<1> DEFINE r == Head(queue)
           alive == FirstAlive(r)
           Ended == r.begin .. alive - 1
<1>1. /\ TypeOK /\ StepShape /\ BuildInv /\ pc = "take" /\ pc' = "push"
      /\ queue # <<>> /\ wRanges = <<>>
      /\ input' = input /\ linkFlags' = linkFlags /\ bases' = bases /\ louds' = louds
      /\ trieId' = trieId /\ terminals' = terminals /\ nextKeys' = nextKeys
      /\ queue' = Tail(queue)
      /\ nodeId' = Len(linkFlags) - Len(queue)
      /\ keys' = [i \in DOMAIN keys |->
                    IF i \in Ended THEN [keys[i] EXCEPT !.data = Terminal(nodeId')]
                    ELSE keys[i]]
      /\ IF alive = r.end THEN wRanges' = <<>> /\ numL1Nodes' = numL1Nodes
         ELSE /\ wRanges' \in ChildRanges(alive, r.end, r.keyPos)
              /\ numL1Nodes' = IF nodeId' = 0 THEN Len(wRanges') ELSE numL1Nodes
  BY DEF IInv, TakeRange, Building, StepShape
<1>2. KeysTyped /\ SortedKeys /\ Len(keys) \in Nat /\ DOMAIN keys = 1 .. Len(keys)
  <2>1. KeysTyped /\ SortedKeys
    BY <1>1 DEF TypeOK, KeysTyped, BuildInv
  <2> QED BY <2>1, KeyFacts
<1>3. /\ Len(queue) \in Nat \ {0} /\ queue \in Seq(RangeType)
      /\ r = queue[1] /\ r \in RangeType /\ 1 \in DOMAIN queue
  BY <1>1 DEF TypeOK
<1>4. /\ r.begin \in Nat \ {0} /\ r.end \in Nat \ {0} /\ r.keyPos \in Nat
      /\ r.begin <= r.end /\ r.end <= Len(keys) + 1
      /\ Extensions(r.begin, r.end, r.keyPos)
  <2>1. r.begin <= r.end /\ r.end <= Len(keys) + 1 /\ Extensions(r.begin, r.end, r.keyPos)
    BY <1>1, <1>3 DEF BuildInv, RangesInBounds, RangesExtend
  <2> QED BY <2>1, <1>3 DEF RangeType
<1>5. /\ alive \in r.begin .. r.end
      /\ \A i \in Ended : Len(keys[i].str) = r.keyPos
      /\ \A i \in alive .. r.end - 1 : Len(keys[i].str) > r.keyPos
  <2> HIDE DEF r
  <2> QED BY <1>2, <1>3, <1>4, AliveKeys
<1> HIDE DEF r, alive
<1>6. /\ DOMAIN keys' = DOMAIN keys
      /\ \A i \in DOMAIN keys :
           /\ keys'[i].str = keys[i].str
           /\ i \in Ended => keys'[i].data = Terminal(nodeId')
           /\ i \notin Ended => keys'[i].data = keys[i].data
  <2>1. ASSUME NEW key \in KeyType, NEW d
        PROVE  [key EXCEPT !.data = d].data = d /\ [key EXCEPT !.data = d].str = key.str
    BY DEF KeyType
  <2>2. \A i \in DOMAIN keys : keys[i] \in KeyType
    BY <1>2, KeyFacts
  <2> SUFFICES ASSUME NEW i \in DOMAIN keys
               PROVE  /\ keys'[i].str = keys[i].str
                      /\ i \in Ended => keys'[i].data = Terminal(nodeId')
                      /\ i \notin Ended => keys'[i].data = keys[i].data
    BY <1>1
  <2>3. CASE i \in Ended
    <3>1. keys'[i] = [keys[i] EXCEPT !.data = Terminal(nodeId')]
      BY <2>3, <1>1
    <3> HIDE DEF Ended
    <3> QED BY <2>3, <3>1, <2>1, <2>2
  <2>4. CASE i \notin Ended
    <3>1. keys'[i] = keys[i]
      BY <2>4, <1>1
    <3> QED BY <2>4, <3>1
  <2> QED BY <2>3, <2>4
<1>7. Taken(r, alive)
  BY <1>1, <1>2, <1>3, <1>4, <1>5, <1>6 DEF Taken
<1> QED BY <1>7

\* The children that TakeRange pushes weigh what their keys do.
LEMMA TakeWeights ==
  ASSUME NEW r, NEW alive, Taken(r, alive)
  PROVE  WeightsTyped'
<1>1. CASE wRanges' = <<>>
  BY <1>1 DEF WeightsTyped
<1>2. CASE alive # r.end
  <2>1. /\ wRanges' \in ChildRanges(alive, r.end, r.keyPos)
        /\ KeysTyped /\ SortedKeys /\ r \in RangeType
        /\ r.begin <= r.end /\ r.end <= Len(keys) + 1
        /\ Extensions(r.begin, r.end, r.keyPos) /\ alive \in r.begin .. r.end
        /\ \A i \in alive .. r.end - 1 : Len(keys[i].str) > r.keyPos
        /\ Len(keys) \in Nat /\ DOMAIN keys = 1 .. Len(keys)
        /\ r.begin \in Nat \ {0} /\ r.end \in Nat /\ r.keyPos \in Nat
    BY <1>2 DEF Taken
  <2>2. PICK ws : ws = wRanges'
    OBVIOUS
  <2>3. alive \in Nat /\ alive < r.end /\ ws \in ChildRanges(alive, r.end, r.keyPos)
    BY <1>2, <2>1, <2>2
  <2>4. /\ ws \in Seq(Range(ws))
        /\ \A p \in 1 .. Len(ws) :
             /\ ws[p].begin \in GroupBegins(alive, r.end, r.keyPos)
             /\ ws[p].end = GroupEnd(ws[p].begin, r.end, r.keyPos)
    <3>1. PICK b \in Nat, x \in Nat, n \in Nat : b = alive /\ x = r.end /\ n = r.keyPos
      BY <2>1, <2>3
    <3>2. b < x /\ ws \in ChildRanges(b, x, n)
      BY <2>3, <3>1
    <3>3. /\ ws \in Seq(Range(ws))
          /\ \A p \in 1 .. Len(ws) :
               ws[p].begin \in GroupBegins(b, x, n) /\ ws[p].end = GroupEnd(ws[p].begin, x, n)
      <4>1. /\ ws \in Seq(Range(ws))
            /\ \A p \in 1 .. Len(ws) :
                 /\ ws[p].begin \in GroupBegins(b, x, n)
                 /\ ws[p].end = GroupEnd(ws[p].begin, x, n)
                 /\ ws[p].keyPos = n
            /\ \A c \in GroupBegins(b, x, n) : \E p \in 1 .. Len(ws) : ws[p].begin = c
            /\ \A p, q \in 1 .. Len(ws) : ws[p].begin = ws[q].begin => p = q
        BY ONLY <3>2, b \in Nat, x \in Nat, n \in Nat, ChildRangesFacts
      <4> QED BY <4>1
    <3> QED BY <3>1, <3>3
  <2>5. DOMAIN ws = 1 .. Len(ws)
    BY <2>4
  <2>6. ASSUME NEW p \in 1 .. Len(ws) PROVE ws[p].weight \in Nat
    <3>1. ws[p].weight = GroupWeight(ws[p].begin, ws[p].end)
      BY <2>3, <2>5, ChildWeights
    <3>2. /\ ws[p].begin \in Nat /\ ws[p].begin >= alive
          /\ ws[p].end \in Nat /\ ws[p].end <= r.end
      <4>1. PICK b : b = ws[p].begin
        OBVIOUS
      <4>2. PICK x \in Nat : x = r.end
        BY <2>1
      <4>3. /\ b \in GroupBegins(alive, x, r.keyPos) /\ ws[p].end = GroupEnd(b, x, r.keyPos)
            /\ alive \in Nat /\ alive < x
        BY <2>3, <2>4, <4>1, <4>2
      <4>4. b \in alive .. x - 1
        BY <4>3 DEF GroupBegins
      <4>5. GroupEnd(b, x, r.keyPos) \in Nat /\ GroupEnd(b, x, r.keyPos) <= x
        <5> DEFINE E == {i \in b + 1 .. x - 1 :
                           keys[i - 1].str[r.keyPos + 1] # keys[i].str[r.keyPos + 1]} \cup {x}
        <5>1. E \subseteq Nat /\ x \in E
          BY <4>3, <4>4
        <5>2. GroupEnd(b, x, r.keyPos) = Min(E)
          BY DEF GroupEnd
        <5> HIDE DEF E
        <5> QED BY <5>1, <5>2, MinOfSet
      <4> QED BY <4>1, <4>2, <4>3, <4>4, <4>5
    <3>3. PICK b \in Nat, e \in Nat : b = ws[p].begin /\ e = ws[p].end /\ b >= alive /\ e <= r.end
      BY <3>2
    <3>4. b .. e - 1 \subseteq DOMAIN keys
      <4>0. PICK s \in Nat, c \in Nat, d \in Nat, L \in Nat :
              s = r.begin /\ c = alive /\ d = r.end /\ L = Len(keys)
        BY <2>1, <2>3
      <4>1. /\ c = alive /\ d = r.end /\ L = Len(keys) /\ c >= 1 /\ d <= L + 1
        <5>1. s >= 1 /\ s <= c /\ d <= L + 1
          BY <2>1, <4>0
        <5> QED BY ONLY <4>0, <5>1, s \in Nat, c \in Nat
      <4>2. b >= c /\ e <= d
        BY <3>3, <4>1
      <4>3. b .. e - 1 \subseteq 1 .. L
        BY ONLY <4>1, <4>2, b \in Nat, e \in Nat
      <4> QED BY <2>1, <4>1, <4>3
    <3> QED BY <2>1, <3>1, <3>3, <3>4, GroupWeightIsNat
  <2> QED BY <2>2, <2>5, <2>6 DEF WeightsTyped
<1> QED BY <1>1, <1>2 DEF Taken

\* The level is empty, or has the root, which no key has reached.
LEMMA BeginLevel ==
  ASSUME IInv, LevelIInv, Begin
  PROVE  LevelIInv'
<1>1. /\ IInv' /\ pc = "begin" /\ pc' = "take" /\ nextKeys = <<>> /\ nextKeys' = <<>>
      /\ numL1Nodes' = 0 /\ linkFlags' = <<FALSE>> /\ wRanges' = wRanges /\ wRanges = <<>>
      /\ queue' = <<MakeRange(1, Len(keys) + 1, 0)>>
  BY BeginKeeps DEF LevelIInv, Begin, IInv, StepShape
<1>2. Len(linkFlags') = 1 /\ Len(queue') = 1 /\ linkFlags'[1] = FALSE
  BY <1>1
<1>3. LinksTyped' /\ WeightsTyped' /\ RootPlain'
  BY <1>1, <1>2 DEF LinksTyped, WeightsTyped, RootPlain, At
<1>4. RootsChildren'
  <2>1. \A n \in Nodes' : n = 0
    BY <1>2 DEF Nodes
  <2> QED BY <1>1, <1>2, <2>1 DEF RootsChildren
<1>5. PrefixesEnd'
  <2>1. TypeOK' /\ EndedKeys'
    BY <1>1 DEF IInv, Building, BuildInv
  <2>2. keys' \in Seq(KeyType)
    BY <1>1, <2>1 DEF TypeOK
  <2>3. ASSUME NEW j \in DOMAIN keys', keys'[j].data.kind = "terminal" PROVE FALSE
    <3>1. keys'[j].data.val < 1 - 1
      BY <1>2, <2>1, <2>3 DEF EndedKeys
    <3>2. keys'[j].data.val \in Nat
      <4>1. keys'[j] \in KeyType
        BY <2>2, <2>3, ElementOfSeq
      <4> QED BY <4>1 DEF KeyType
    <3> QED BY <3>1, <3>2
  <2> QED BY <2>3 DEF PrefixesEnd
<1> QED BY <1>1, <1>3, <1>4, <1>5 DEF LevelIInv, LevelInv

\* What begins a key that ends now is in the same range, or has ended before.
LEMMA TakePrefixes ==
  ASSUME PrefixesEnd, NEW r, NEW alive, Taken(r, alive)
  PROVE  PrefixesEnd'
<1>1. /\ Len(keys) \in Nat /\ DOMAIN keys = 1 .. Len(keys) /\ KeysTyped
      /\ r.begin \in Nat \ {0} /\ r.end \in Nat /\ r.keyPos \in Nat
      /\ alive \in r.begin .. r.end /\ r.end <= Len(keys) + 1
      /\ Extensions(r.begin, r.end, r.keyPos)
      /\ \A i \in r.begin .. alive - 1 : Len(keys[i].str) = r.keyPos
      /\ \A i \in alive .. r.end - 1 : Len(keys[i].str) > r.keyPos
      /\ DOMAIN keys' = DOMAIN keys
      /\ \A i \in DOMAIN keys :
           /\ keys'[i].str = keys[i].str
           /\ i \in r.begin .. alive - 1 => keys'[i].data = Terminal(nodeId')
           /\ i \notin r.begin .. alive - 1 => keys'[i].data = keys[i].data
      /\ nodeId' = Len(linkFlags) - Len(queue)
      /\ KeysOnce /\ EndedKeys /\ RangesExtend /\ queue \in Seq(RangeType)
      /\ r = queue[1] /\ 1 \in DOMAIN queue /\ wRanges = <<>>
      /\ Len(linkFlags) \in Nat /\ Len(queue) \in Nat
  BY LenProperties DEF Taken, BuildInv, TypeOK
<1>2. \A i \in DOMAIN keys :
        /\ Len(keys[i].str) \in Nat /\ keys[i].data.kind \in {"weight", "terminal"}
        /\ keys[i].data.val \in Nat
  BY <1>1, KeyFacts DEF KeyType
<1>3. \A i \in r.begin .. alive - 1 :
        /\ i \in DOMAIN keys /\ i \in Within(r) /\ keys[i].data.kind = "weight"
        /\ keys'[i].data.kind = "terminal" /\ keys'[i].data.val = nodeId'
  <2> TAKE i \in r.begin .. alive - 1
  <2>1. i \in r.begin .. r.end - 1 /\ i \in DOMAIN keys
    BY <1>1
  <2>2. i \in Within(queue[1])
    BY <1>1, <2>1 DEF Within
  <2>3. keys[i].data.kind = "weight"
    BY <1>1, <2>1, <2>2 DEF KeysOnce, InQueue
  <2> QED BY <1>1, <2>1, <2>2, <2>3 DEF Terminal
<1>4. SUFFICES ASSUME NEW i \in DOMAIN keys, NEW j \in DOMAIN keys,
                      keys'[j].data.kind = "terminal", Begins(keys[i].str, keys[j].str)
               PROVE  keys'[i].data.kind = "terminal" /\ keys'[i].data.val <= keys'[j].data.val
  BY <1>1 DEF PrefixesEnd
<1>5. CASE j \notin r.begin .. alive - 1
  <2>1. keys[i].data.kind = "terminal" /\ keys[i].data.val <= keys[j].data.val
    BY <1>1, <1>4, <1>5 DEF PrefixesEnd
  <2>2. i \notin r.begin .. alive - 1
    BY <1>3, <2>1
  <2> QED BY <1>1, <1>5, <2>1, <2>2
<1>6. CASE j \in r.begin .. alive - 1
  <2>1. CASE keys[i].data.kind = "terminal"
    <3>1. keys[i].data.val < Len(linkFlags) - Len(queue) /\ i \notin r.begin .. alive - 1
      BY <1>1, <1>3, <2>1 DEF EndedKeys
    <3> QED BY <1>1, <1>2, <1>3, <1>6, <2>1, <3>1
  <2>2. CASE keys[i].data.kind = "weight"
    <3>1. PICK p \in DOMAIN queue : i \in Within(queue[p])
      BY <1>1, <2>2 DEF KeysOnce, InQueue, InChildren
    <3> DEFINE s == keys[i].str
               t == keys[j].str
               k == queue[p].keyPos
    <3>2. /\ s = keys[i].str /\ t = keys[j].str /\ k = queue[p].keyPos /\ k \in Nat
          /\ Len(s) \in Nat /\ Len(t) \in Nat /\ Len(s) <= Len(t)
          /\ \A q \in 1 .. Len(s) : s[q] = t[q]
      <4>1. queue[p] \in RangeType
        BY <1>1, ElementOfSeq
      <4>2. queue[p].keyPos \in Nat
        BY <4>1 DEF RangeType
      <4>3. /\ Len(keys[i].str) \in Nat /\ Len(keys[j].str) \in Nat
            /\ Len(keys[i].str) <= Len(keys[j].str)
            /\ \A q \in 1 .. Len(keys[i].str) : keys[i].str[q] = keys[j].str[q]
        BY <1>2, <1>4 DEF Begins
      <4> QED BY <4>2, <4>3
    <3> HIDE DEF s, t, k
    <3>3. /\ Len(s) >= k
          /\ \A m \in DOMAIN keys :
               m \in Within(queue[p]) <=> /\ Len(keys[m].str) >= k
                                          /\ \A q \in 1 .. k : keys[m].str[q] = s[q]
      <4>1. Extensions(queue[p].begin, queue[p].end, k)
        BY <1>1, <3>2 DEF RangesExtend
      <4>2. i \in queue[p].begin .. queue[p].end - 1
        BY <3>1 DEF Within
      <4>3. /\ Len(keys[i].str) >= k
            /\ \A m \in DOMAIN keys :
                 m \in queue[p].begin .. queue[p].end - 1 <=>
                   /\ Len(keys[m].str) >= k
                   /\ \A q \in 1 .. k : keys[m].str[q] = keys[i].str[q]
        BY <4>1, <4>2 DEF Extensions
      <4> QED BY <3>2, <4>3 DEF Within
    <3>4. Len(t) >= k /\ \A q \in 1 .. k : t[q] = s[q]
      BY <3>2, <3>3
    <3>5. j \in Within(queue[p])
      BY <3>2, <3>3, <3>4
    <3>6. p = 1
      BY <1>1, <1>3, <1>6, <3>5 DEF KeysOnce
    <3>7. i \in r.begin .. r.end - 1 /\ k = r.keyPos
      BY <1>1, <3>1, <3>2, <3>6 DEF Within
    <3>8. i \in r.begin .. alive - 1
      <4>1. Len(t) = r.keyPos
        BY <1>1, <1>6, <3>2
      <4>2. ~(i \in alive .. r.end - 1)
        BY <1>1, <3>2, <3>7, <4>1
      <4> QED BY <1>1, <3>7, <4>2
    <3> QED BY <1>1, <1>3, <1>6, <3>8
  <2> QED BY <1>2, <2>1, <2>2
<1> QED BY <1>5, <1>6

\* TakeRange counts the root's children.
LEMMA TakeLevel ==
  ASSUME IInv, LevelIInv, TakeRange
  PROVE  LevelIInv'
<1>1. PICK r, alive : Taken(r, alive)
  BY TakeFacts
<1>2. /\ LevelInv /\ pc = "take" /\ pc' = "push" /\ wRanges = <<>>
      /\ UNCHANGED <<linkFlags, louds, nextKeys>>
      /\ Len(queue) \in Nat \ {0} /\ nodeId' = Len(linkFlags) - Len(queue)
      /\ numL1Nodes' = IF alive # r.end /\ nodeId' = 0 THEN Len(wRanges') ELSE numL1Nodes
      /\ alive = r.end => wRanges' = <<>>
      /\ numL1Nodes \in Nat /\ Len(linkFlags) \in Nat
  BY <1>1, LenProperties DEF Taken, LevelIInv, Building, TypeOK
<1>3. LinksTyped' /\ RootPlain'
  BY <1>2 DEF LevelInv, LinksTyped, RootPlain
<1>4. WeightsTyped' /\ PrefixesEnd'
  BY <1>1, <1>2, TakeWeights, TakePrefixes DEF LevelInv
<1>5. RootsChildren'
  <2>1. Nodes' = Nodes /\ \A n : ParentOf(n)' = ParentOf(n)
    BY <1>2 DEF Nodes, ParentOf
  <2>2. /\ numL1Nodes < Len(linkFlags)
        /\ Len(queue) = Len(linkFlags) => Len(linkFlags) = 1
        /\ \A n \in Nodes : n # 0 => (ParentOf(n) = 0 <=> n <= numL1Nodes)
    BY <1>2 DEF LevelInv, RootsChildren
  <2>3. CASE nodeId' # 0
    BY <1>2, <2>1, <2>2, <2>3 DEF RootsChildren
  <2>4. CASE nodeId' = 0
    <3>1. Len(linkFlags) = 1 /\ numL1Nodes = 0
      <4>1. PICK a \in Nat, b \in Nat : a = Len(linkFlags) /\ b = Len(queue)
        BY <1>2
      <4>2. a - b = 0
        BY <1>2, <2>4, <4>1
      <4>3. a = b
        BY <4>2
      <4> QED BY <1>2, <2>2, <4>1, <4>3
    <3>2. numL1Nodes' = Len(wRanges')
      BY <1>2, <2>4, <3>1
    <3>3. \A n \in Nodes' : n = 0
      BY <2>1, <3>1 DEF Nodes
    <3>4. Len(wRanges') \in Nat
      <4>1. IInv'
        BY TakeRangeKeeps
      <4>2. wRanges' \in Seq(Range(wRanges'))
        BY <4>1 DEF IInv, StepShape
      <4> QED BY <4>2, LenProperties
    <3> QED BY <1>2, <2>4, <3>1, <3>2, <3>3, <3>4 DEF RootsChildren
  <2> QED BY <2>3, <2>4
<1> QED BY <1>2, <1>3, <1>4, <1>5 DEF LevelIInv, LevelInv

\* A link hands a string down; a child of the root is one that was counted.
LEMMA PushLevel ==
  ASSUME IInv, PathIInv, LevelIInv, PushChild
  PROVE  LevelIInv'
<1>1. PICK w, keyPos : ChildAtHand(w, keyPos)
  BY ChildFacts
<1>2. /\ TypeOK /\ StepShape /\ BuildInv /\ PathInv /\ LevelInv /\ pc = "push" /\ pc' = "push"
      /\ numL1Nodes' = numL1Nodes /\ nodeId' = nodeId /\ keys' = keys
      /\ wRanges \in Seq(Range(wRanges)) /\ wRanges # <<>> /\ wRanges' = Tail(wRanges)
      /\ w = Head(wRanges)
  BY <1>1 DEF ChildAtHand, PathIInv, LevelIInv, Building, PushChild, StepShape
<1>3. PushedNode(w, keyPos)
  BY <1>1, <1>2, PushedNodeFacts
<1>4. /\ Len(wRanges) \in Nat /\ DOMAIN wRanges = 1 .. Len(wRanges) /\ 1 \in DOMAIN wRanges
      /\ w = wRanges[1] /\ Len(wRanges') = Len(wRanges) - 1 /\ Len(wRanges) > 0
      /\ DOMAIN wRanges' = 1 .. Len(wRanges')
      /\ \A p \in 1 .. Len(wRanges') : wRanges'[p] = wRanges[p + 1]
  BY <1>2, LenProperties, HeadTailProperties
<1>5. WeightsTyped' /\ w.weight \in Nat
  <2>1. \A p \in DOMAIN wRanges : wRanges[p].weight \in Nat
    BY <1>2 DEF LevelInv, WeightsTyped
  <2>2. \A p \in 1 .. Len(wRanges') : p + 1 \in DOMAIN wRanges
    BY <1>4
  <2> QED BY <1>4, <2>1, <2>2 DEF WeightsTyped
<1>6. LinksTyped'
  <2> DEFINE NewKey == [str : Strings, weight : Nat]
             first == keys[w.begin].str
  <2>1. nextKeys \in Seq(NewKey) /\ \A k \in 1 .. Len(nextKeys) : Len(nextKeys[k].str) > 0
    BY <1>2 DEF LevelInv, LinksTyped
  <2>2. /\ first \in Seq(Labels) /\ w.keyPos \in Nat /\ keyPos \in w.keyPos + 1 .. Len(first)
        /\ \/ nextKeys' = nextKeys
           \/ nextKeys' = Append(nextKeys, NextKey(w, keyPos))
    BY <1>1 DEF ChildAtHand
  <2>3. PICK key : key = NextKey(w, keyPos)
    OBVIOUS
  <2>4. key \in NewKey /\ Len(key.str) > 0
    <3>1. PICK s : s = SubSeq(first, w.keyPos + 1, keyPos)
      OBVIOUS
    <3>2. Len(first) \in Nat /\ w.keyPos + 1 \in 1 .. Len(first) /\ keyPos \in w.keyPos + 1 .. Len(first)
      BY <2>2, LenProperties
    <3>3. s \in Seq(Labels) /\ Len(s) = keyPos - (w.keyPos + 1) + 1
      <4>1. PICK a \in Nat, b \in Nat, f \in Seq(Labels) :
              a = w.keyPos + 1 /\ b = keyPos /\ f = first /\ a \in 1 .. Len(f) /\ b \in a .. Len(f)
        BY <2>2, <3>2
      <4>2. SubSeq(f, a, b) \in Seq(Labels) /\ Len(SubSeq(f, a, b)) = b - a + 1
        BY <4>1, SubSeqProperties
      <4> QED BY <3>1, <4>1, <4>2
    <3>4. Len(s) > 0
      BY <2>2, <3>2, <3>3
    <3>5. key = [str |-> s, weight |-> w.weight]
      BY <2>3, <3>1 DEF NextKey
    <3>6. key.str = s /\ key \in NewKey
      BY <1>5, <3>3, <3>5 DEF Strings
    <3> QED BY <3>4, <3>6
  <2> HIDE DEF NewKey, first
  <2>5. CASE nextKeys' = nextKeys
    BY <2>1, <2>5 DEF LinksTyped, NewKey
  <2>6. CASE nextKeys' = Append(nextKeys, key)
    <3>1. /\ nextKeys' \in Seq(NewKey) /\ Len(nextKeys') = Len(nextKeys) + 1
          /\ Len(nextKeys) \in Nat /\ nextKeys'[Len(nextKeys) + 1] = key
          /\ \A k \in 1 .. Len(nextKeys) : nextKeys'[k] = nextKeys[k]
      BY <2>1, <2>4, <2>6, AppendProperties, LenProperties
    <3>2. \A k \in 1 .. Len(nextKeys') : k \in 1 .. Len(nextKeys) \/ k = Len(nextKeys) + 1
      BY <3>1
    <3> QED BY <2>1, <2>4, <3>1, <3>2 DEF LinksTyped, NewKey
  <2> QED BY <2>2, <2>3, <2>5, <2>6
<1>7. PICK N \in Nat :
        /\ N = Len(linkFlags) /\ Nodes' = 0 .. N /\ Nodes = 0 .. N - 1
        /\ \A n \in 0 .. N - 1 : ParentOf(n)' = ParentOf(n)
        /\ ParentOf(N)' = nodeId
        /\ Len(linkFlags') = N + 1 /\ \A n \in 1 .. N : linkFlags'[n] = linkFlags[n]
  <2>1. /\ linkFlags \in Seq(BOOLEAN) /\ linkFlags' = Append(linkFlags, keyPos # w.keyPos + 1)
    BY <1>1, <1>2 DEF ChildAtHand, TypeOK
  <2>2. /\ Len(linkFlags') = Len(linkFlags) + 1
        /\ \A n \in 1 .. Len(linkFlags) : linkFlags'[n] = linkFlags[n]
    BY <2>1, AppendProperties
  <2> QED BY <1>3, <2>2 DEF PushedNode
<1>8. RootPlain'
  <2>1. N > 0 /\ ~linkFlags[1]
    BY <1>2, <1>7 DEF LevelInv, RootPlain, At
  <2> QED BY <1>7, <2>1 DEF RootPlain, At
<1>9. RootsChildren'
  <2>1. /\ nodeId = 0 => numL1Nodes = N - 1 + Len(wRanges)
        /\ nodeId # 0 => numL1Nodes < N
        /\ \A n \in Nodes : n # 0 => (ParentOf(n) = 0 <=> n <= numL1Nodes)
        /\ numL1Nodes \in Nat
    BY <1>2, <1>7 DEF LevelInv, RootsChildren, TypeOK
  <2>2. /\ nodeId = 0 => numL1Nodes = N + 1 - 1 + Len(wRanges')
        /\ nodeId # 0 => numL1Nodes < N + 1
    BY <1>4, <2>1
  <2>3. ASSUME NEW n \in 0 .. N, n # 0
        PROVE  ParentOf(n)' = 0 <=> n <= numL1Nodes
    <3>1. CASE n = N
      <4>1. nodeId = 0 => N <= numL1Nodes
        BY <1>4, <2>1
      <4> QED BY <1>7, <2>1, <3>1, <4>1
    <3>2. CASE n # N
      <4>1. n \in 0 .. N - 1
        BY <3>2
      <4> QED BY <1>7, <2>1, <2>3, <4>1
    <3> QED BY <3>1, <3>2
  <2> QED BY <1>2, <1>7, <2>2, <2>3 DEF RootsChildren
<1>10. PrefixesEnd'
  BY <1>2 DEF LevelInv, PrefixesEnd
<1> QED BY <1>2, <1>5, <1>6, <1>8, <1>9, <1>10 DEF LevelIInv, LevelInv

\* Closing a node changes nothing of this.
LEMMA CloseLevel ==
  ASSUME IInv, PathIInv, LevelIInv, CloseNode
  PROVE  LevelIInv'
<1>1. /\ LevelInv /\ TypeOK /\ BuildInv /\ pc = "push" /\ pc' = "take" /\ wRanges = <<>>
      /\ UNCHANGED <<nextKeys, numL1Nodes, linkFlags, wRanges, queue, keys>>
  BY DEF LevelIInv, CloseNode, Building, IInv
<1>2. Nodes' = Nodes /\ \A n \in Nodes : ParentOf(n)' = ParentOf(n)
  BY CloseKeepsParents
<1>3. LinksTyped' /\ WeightsTyped' /\ RootPlain' /\ PrefixesEnd'
  BY <1>1 DEF LevelInv, LinksTyped, WeightsTyped, RootPlain, PrefixesEnd
<1>4. RootsChildren'
  <2>1. /\ nodeId = 0 => numL1Nodes = Len(linkFlags) - 1 + Len(wRanges)
        /\ nodeId # 0 => numL1Nodes < Len(linkFlags)
        /\ \A n \in Nodes : n # 0 => (ParentOf(n) = 0 <=> n <= numL1Nodes)
        /\ numL1Nodes \in Nat /\ Len(linkFlags) \in Nat /\ Len(wRanges) = 0
        /\ Len(queue) < Len(linkFlags) /\ Len(queue) \in Nat
    BY <1>1, LenProperties DEF LevelInv, RootsChildren, TypeOK, BuildInv, NodesCounted
  <2>2. numL1Nodes < Len(linkFlags)
    BY <2>1
  <2> QED BY <1>1, <1>2, <2>1, <2>2 DEF RootsChildren
<1> QED BY <1>1, <1>3, <1>4 DEF LevelIInv, LevelInv

\* Every step of build_current_trie keeps what the level hands on.
LEMMA StepLevel ==
  ASSUME IInv, PathIInv, LevelIInv, [Next]_currentVars
  PROVE  LevelIInv'
<1>1. CASE Begin
  BY <1>1, BeginLevel
<1>2. CASE TakeRange
  BY <1>2, TakeLevel
<1>3. CASE PushChild
  BY <1>3, PushLevel
<1>4. CASE CloseNode
  BY <1>4, CloseLevel
<1>5. CASE Finish
  BY <1>5 DEF Finish, LevelIInv, Building
<1>6. CASE UNCHANGED currentVars
  <2>1. UNCHANGED <<pc, keys, queue, wRanges, nodeId, louds, linkFlags, numL1Nodes, nextKeys>>
    BY <1>6 DEF currentVars, trieVars, levelVars
  <2>2. Building' = Building /\ Nodes' = Nodes /\ \A k : ParentOf(k)' = ParentOf(k)
    BY <2>1 DEF Building, Nodes, ParentOf
  <2>3. RootsChildren => RootsChildren'
    BY <2>1, <2>2 DEF RootsChildren
  <2>4. LevelInv => LevelInv'
    BY <2>1, <2>3 DEF LevelInv, LinksTyped, WeightsTyped, RootPlain, PrefixesEnd
  <2> QED BY <2>1, <2>2, <2>4 DEF LevelIInv
<1> QED BY <1>1, <1>2, <1>3, <1>4, <1>5, <1>6 DEF Next, NextCurrent

---------------------------------------------------------------------------
(* A level that is built, as the record it is kept in.                     *)

NodesIn(t) == 0 .. Len(t.bases) - 1

ParentIn(t, n) == Select1(t.louds, n) - n - 1

\* below holds the strings of the level's links.
LabelIn(t, below, n) ==
  IF At(t.linkFlags, n) THEN At(below, Rank1(t.linkFlags, n)).str ELSE <<At(t.bases, n)>>

TreeHolds(t) ==
  /\ t.louds \in Seq(BOOLEAN) /\ t.linkFlags \in Seq(BOOLEAN) /\ t.bases \in Strings
  /\ Len(t.bases) = Len(t.linkFlags) /\ Len(t.bases) > 0
  /\ ~At(t.linkFlags, 0) /\ t.numL1Nodes \in Nat
  /\ \A n \in NodesIn(t) : n # 0 =>
       ParentIn(t, n) \in 0 .. n - 1 /\ (ParentIn(t, n) = 0 <=> n <= t.numL1Nodes)

\* Every key of the level has a node, its own and after those of its prefixes.
TerminalsHold(t, in) ==
  /\ t.terminals \in Seq(Nat) /\ Len(t.terminals) = Len(in)
  /\ \A k \in 1 .. Len(in) : t.terminals[k] \in NodesIn(t)
  /\ \A j, k \in 1 .. Len(in) :
       /\ t.terminals[j] = t.terminals[k] <=> in[j].str = in[k].str
       /\ Begins(in[j].str, in[k].str) => t.terminals[j] <= t.terminals[k]

LinksHold(t, below) ==
  /\ below \in NewKeys /\ Len(below) = NumOnes(t.linkFlags)
  /\ \A k \in 1 .. Len(below) : Len(below[k].str) > 0

SpelledBy(t, in, below, g) ==
  /\ \A n \in NodesIn(t) :
       g[n] = IF n = 0 THEN <<>> ELSE g[ParentIn(t, n)] \o LabelIn(t, below, n)
  /\ \A k \in 1 .. Len(in) : g[t.terminals[k]] = in[k].str

\* The level t holds the keys in, given the strings below of its links.
LevelHolds(t, in, below) ==
  /\ TreeHolds(t) /\ TerminalsHold(t, in) /\ LinksHold(t, below)
  /\ \E g \in [NodesIn(t) -> Strings] : SpelledBy(t, in, below, g)

CacheHolds(t) ==
  \A slot \in DOMAIN t.cache :
    t.cache[slot].child # 0 =>
      t.cache[slot].child \in NodesIn(t) /\ t.cache[slot].parent = ParentIn(t, t.cache[slot].child)

\* Closing the LOUDS leaves every node's one where it was.
LEMMA FinishParents ==
  ASSUME IInv, PathIInv, Finish
  PROVE  \A n \in Nodes : Select1(louds', n) = Select1(louds, n)
<1>1. /\ louds \in Seq(BOOLEAN) /\ louds' = Append(louds, FALSE) /\ ParentsBefore
  BY DEF IInv, TypeOK, PathIInv, PathInv, Building, Finish
<1> SUFFICES ASSUME NEW n \in Nodes PROVE Select1(louds', n) = Select1(louds, n)
  OBVIOUS
<1>2. PICK p \in Nat : OneAt(louds, p, n)
  BY <1>1 DEF ParentsBefore
<1>3. OneAt(louds', p, n) /\ louds' \in Seq(BOOLEAN)
  BY <1>1, <1>2, OneStays, AppendProperties
<1> QED BY <1>1, <1>2, <1>3, SelectIs

\* build_current_trie leaves a level that holds its keys.
LEMMA FinishHolds ==
  ASSUME IInv, PathIInv, LevelIInv, Finish
  PROVE  LevelHolds(CurrentTrie', input', nextKeys')
<1>1. PICK t :
        /\ t.louds = Append(louds, FALSE) /\ t.bases = bases /\ t.linkFlags = linkFlags
        /\ t.numL1Nodes = numL1Nodes /\ t.terminals = terminals'
        /\ t = CurrentTrie'
  <2>1. /\ CurrentTrie'.louds = louds' /\ CurrentTrie'.bases = bases'
        /\ CurrentTrie'.linkFlags = linkFlags' /\ CurrentTrie'.numL1Nodes = numL1Nodes'
        /\ CurrentTrie'.terminals = terminals'
    BY DEF CurrentTrie
  <2>2. /\ louds' = Append(louds, FALSE) /\ bases' = bases /\ linkFlags' = linkFlags
        /\ numL1Nodes' = numL1Nodes
    BY DEF Finish
  <2> HIDE DEF CurrentTrie
  <2> QED BY <2>1, <2>2
<1>0. PICK in, below : /\ in = input /\ below = nextKeys
                       /\ input' = input /\ nextKeys' = nextKeys
  BY DEF Finish
<1>2. /\ TypeOK /\ BuildInv /\ PathInv /\ LevelInv /\ pc = "take" /\ queue = <<>>
  BY DEF IInv, PathIInv, LevelIInv, Building, Finish
<1>3. /\ louds \in Seq(BOOLEAN) /\ linkFlags \in Seq(BOOLEAN) /\ bases \in Strings
      /\ Len(bases) = Len(linkFlags) /\ numL1Nodes \in Nat
      /\ Len(linkFlags) \in Nat /\ Len(linkFlags) > 0 /\ ~At(linkFlags, 0)
      /\ Len(queue) = 0
  BY <1>2, LenProperties DEF TypeOK, Strings, LevelInv, RootPlain
<1>4. NodesIn(t) = Nodes
  BY <1>1, <1>3 DEF NodesIn, Nodes
<1>5. \A n \in Nodes : ParentIn(t, n) = ParentOf(n)
  <2> TAKE n \in Nodes
  <2>1. Select1(t.louds, n) = Select1(louds, n)
    BY <1>1, FinishParents DEF Finish
  <2> QED BY <2>1 DEF ParentIn, ParentOf
<1>6. TreeHolds(t)
  <2>1. t.louds \in Seq(BOOLEAN)
    BY <1>1, <1>3, AppendProperties
  <2>2. \A n \in Nodes : n # 0 => ParentOf(n) \in 0 .. n - 1 /\ (ParentOf(n) = 0 <=> n <= numL1Nodes)
    BY <1>2 DEF PathInv, ParentsBefore, LevelInv, RootsChildren
  <2> QED BY <1>1, <1>3, <1>4, <1>5, <2>1, <2>2 DEF TreeHolds
<1>7. /\ Len(in) \in Nat /\ DOMAIN keys = 1 .. Len(in) /\ terminals' \in Seq(Nat)
      /\ Len(terminals') = Len(in)
      /\ \A i \in 1 .. Len(in) : keys[i].data.kind = "terminal" /\ keys[i].data.val \in Nat
      /\ \A k \in 1 .. Len(in) : \E i \in 1 .. Len(in) :
           keys[i].str = in[k].str /\ terminals'[k] = keys[i].data.val
  <2>1. /\ Len(input) \in Nat /\ DOMAIN keys = 1 .. Len(input)
        /\ \A i \in 1 .. Len(input) : keys[i].data.kind = "terminal" /\ keys[i].data.val \in Nat
        /\ \A k \in 1 .. Len(input) : \E i \in 1 .. Len(input) :
             /\ keys[i].id = k /\ keys[i].str = input[k].str
             /\ terminals'[k] = keys[i].data.val
        /\ DOMAIN terminals' = 1 .. Len(input)
    BY FinishTerminals
  <2>2. terminals' \in Seq(Nat)
    BY FinishKeeps DEF IInv, TypeOK
  <2>3. Len(terminals') = Len(input)
    BY <2>1, <2>2, LenProperties
  <2> QED BY <1>0, <1>1, <2>1, <2>2, <2>3
<1>8. TerminalsHold(t, in)
  <2>1. \A i, j \in 1 .. Len(in) :
          /\ keys[i].data.val < Len(linkFlags)
          /\ keys[i].data.val = keys[j].data.val <=> keys[i].str = keys[j].str
    <3>1. EndedKeys
      BY <1>2 DEF BuildInv
    <3>2. \A i, j \in 1 .. Len(in) :
            /\ keys[i].data.val < Len(linkFlags) - Len(queue)
            /\ keys[i].data.val = keys[j].data.val <=> keys[i].str = keys[j].str
      <4> SUFFICES ASSUME NEW i \in 1 .. Len(in), NEW j \in 1 .. Len(in)
                   PROVE  /\ keys[i].data.val < Len(linkFlags) - Len(queue)
                          /\ (keys[i].data.val = keys[j].data.val <=> keys[i].str = keys[j].str)
        OBVIOUS
      <4>1. /\ i \in DOMAIN keys /\ j \in DOMAIN keys
            /\ keys[i].data.kind = "terminal" /\ keys[j].data.kind = "terminal"
        BY <1>7
      <4> QED BY <3>1, <4>1 DEF EndedKeys
    <3>3. Len(linkFlags) - Len(queue) = Len(linkFlags)
      BY <1>3
    <3> QED BY <3>2, <3>3
  <2>2. \A i, j \in 1 .. Len(in) :
          Begins(keys[i].str, keys[j].str) => keys[i].data.val <= keys[j].data.val
    BY <1>2, <1>7 DEF LevelInv, PrefixesEnd
  <2>3. ASSUME NEW j \in 1 .. Len(in), NEW k \in 1 .. Len(in)
        PROVE  /\ terminals'[k] \in Nodes
               /\ terminals'[j] = terminals'[k] <=> in[j].str = in[k].str
               /\ Begins(in[j].str, in[k].str) => terminals'[j] <= terminals'[k]
    <3>1. PICK a \in 1 .. Len(in) : keys[a].str = in[j].str /\ terminals'[j] = keys[a].data.val
      BY <1>7
    <3>2. PICK b \in 1 .. Len(in) : keys[b].str = in[k].str /\ terminals'[k] = keys[b].data.val
      BY <1>7
    <3>3. terminals'[k] \in Nodes
      <4>1. keys[b].data.val \in Nat /\ keys[b].data.val < Len(linkFlags)
        BY <1>7, <2>1
      <4>2. \A v, m \in Nat : v < m => v \in 0 .. m - 1
        OBVIOUS
      <4>3. keys[b].data.val \in 0 .. Len(linkFlags) - 1
        BY <1>3, <4>1, <4>2
      <4> QED BY <3>2, <4>3 DEF Nodes
    <3>4. terminals'[j] = terminals'[k] <=> in[j].str = in[k].str
      BY <2>1, <3>1, <3>2
    <3>5. Begins(in[j].str, in[k].str) => terminals'[j] <= terminals'[k]
      BY <2>2, <3>1, <3>2
    <3> QED BY <3>3, <3>4, <3>5
  <2>4. /\ t.terminals \in Seq(Nat) /\ Len(t.terminals) = Len(in)
        /\ \A k \in 1 .. Len(in) : t.terminals[k] \in NodesIn(t)
    BY <1>0, <1>1, <1>4, <1>7, <2>3
  <2>5. \A j, k \in 1 .. Len(in) :
          /\ t.terminals[j] = t.terminals[k] <=> in[j].str = in[k].str
          /\ Begins(in[j].str, in[k].str) => t.terminals[j] <= t.terminals[k]
    BY <1>1, <2>3
  <2> QED BY <2>4, <2>5 DEF TerminalsHold
<1>9. LinksHold(t, below)
  <2>1. below \in NewKeys /\ \A k \in 1 .. Len(below) : Len(below[k].str) > 0
    BY <1>0, <1>2 DEF LevelInv, LinksTyped, NewKeys
  <2>2. Len(below) = NumOnes(t.linkFlags)
    BY <1>0, <1>1, <1>2 DEF PathInv, LinksNumbered
  <2> QED BY <2>1, <2>2 DEF LinksHold
<1>10. PICK g \in [Nodes -> Strings] : Walks(g) /\ Spells(g)
  BY <1>2 DEF PathInv, PathsSpelled
<1>11. SpelledBy(t, in, below, g)
  <2>1. \A n \in Nodes : LabelIn(t, below, n) = LabelOf(n)
    BY <1>0, <1>1 DEF LabelIn, LabelOf
  <2>2. ASSUME NEW n \in Nodes
        PROVE  g[n] = IF n = 0 THEN <<>> ELSE g[ParentIn(t, n)] \o LabelIn(t, below, n)
    <3>1. g[n] = IF n = 0 THEN <<>> ELSE g[ParentOf(n)] \o LabelOf(n)
      BY <1>10 DEF Walks
    <3> QED BY <1>5, <2>1, <3>1
  <2>3. ASSUME NEW k \in 1 .. Len(in) PROVE g[t.terminals[k]] = in[k].str
    <3>1. PICK i \in 1 .. Len(in) : keys[i].str = in[k].str /\ terminals'[k] = keys[i].data.val
      BY <1>7
    <3>2. g[keys[i].data.val] = keys[i].str
      BY <1>7, <1>10 DEF Spells
    <3> QED BY <1>1, <3>1, <3>2
  <2> QED BY <1>4, <2>2, <2>3 DEF SpelledBy
<1>12. LevelHolds(t, in, below)
  BY <1>4, <1>6, <1>8, <1>9, <1>10, <1>11 DEF LevelHolds
<1> QED BY <1>0, <1>1, <1>12

\* And a cache of parents and children.
LEMMA FinishCache ==
  ASSUME IInv, PathIInv, CacheIInv, Finish
  PROVE  CacheHolds(CurrentTrie')
<1>1. PICK t :
        /\ t.louds = louds' /\ t.bases = bases /\ t.cache = cache
        /\ t = CurrentTrie'
  BY DEF Finish, CurrentTrie
<1>2. TypeOK /\ CacheInv
  BY DEF IInv, CacheIInv, Building, Finish
<1>3. NodesIn(t) = Nodes
  BY <1>1, <1>2 DEF NodesIn, Nodes, TypeOK
<1>4. ASSUME NEW slot \in DOMAIN cache, cache[slot].child # 0
      PROVE  cache[slot].child \in NodesIn(t)
             /\ cache[slot].parent = ParentIn(t, cache[slot].child)
  <2>1. cache[slot].child \in Nodes /\ ParentOf(cache[slot].child) = cache[slot].parent
    BY <1>2, <1>4 DEF CacheInv, EntryHolds
  <2>2. Select1(louds', cache[slot].child) = Select1(louds, cache[slot].child)
    BY <2>1, FinishParents
  <2> QED BY <1>1, <1>3, <2>1, <2>2 DEF ParentIn, ParentOf
<1>5. CacheHolds(t)
  BY <1>1, <1>4 DEF CacheHolds
<1> QED BY <1>1, <1>5

---------------------------------------------------------------------------
(* The tail.                                                               *)

\* The characters of e are in the tail from off on, and end there.
Fits(buf, flags, mode, off, e) ==
  /\ off \in Nat /\ off + Len(e) <= Len(buf)
  /\ \A q \in 1 .. Len(e) : buf[off + q] = e[q]
  /\ mode = "text" => off + Len(e) + 1 <= Len(buf) /\ buf[off + Len(e) + 1] = NUL
  /\ mode = "binary" => \A q \in 1 .. Len(e) : flags[off + q] = (q = Len(e))

FlagsFit(buf, flags, mode) ==
  /\ mode = "text" => flags = <<>>
  /\ mode = "binary" => Len(flags) = Len(buf)

\* What is in the tail stays when more follows.
LEMMA FitsStays ==
  ASSUME NEW S, NEW buf \in Seq(S), NEW more \in Seq(S),
         NEW flags \in Seq(BOOLEAN), NEW moreFlags \in Seq(BOOLEAN),
         NEW mode \in {"text", "binary"}, FlagsFit(buf, flags, mode),
         NEW off, NEW e \in Seq(S), Fits(buf, flags, mode, off, e)
  PROVE  Fits(buf \o more, flags \o moreFlags, mode, off, e)
<1>1. /\ Len(buf) \in Nat /\ Len(more) \in Nat /\ Len(e) \in Nat /\ Len(flags) \in Nat
      /\ Len(moreFlags) \in Nat
  BY LenProperties
<1>2. /\ Len(buf \o more) = Len(buf) + Len(more)
      /\ \A i \in 1 .. Len(buf) : (buf \o more)[i] = buf[i]
  BY <1>1, ConcatProperties
<1>3. \A i \in 1 .. Len(flags) : (flags \o moreFlags)[i] = flags[i]
  BY <1>1, ConcatProperties
<1>4. /\ off \in Nat /\ off + Len(e) <= Len(buf)
      /\ \A q \in 1 .. Len(e) : buf[off + q] = e[q]
  BY DEF Fits
<1>5. \A q \in 1 .. Len(e) : off + q \in 1 .. Len(buf)
  BY <1>1, <1>4
<1>6. off + Len(e) <= Len(buf \o more)
  BY <1>1, <1>2, <1>4
<1>7. \A q \in 1 .. Len(e) : (buf \o more)[off + q] = e[q]
  BY <1>2, <1>4, <1>5
<1>8. mode = "text" => /\ off + Len(e) + 1 <= Len(buf \o more)
                       /\ (buf \o more)[off + Len(e) + 1] = NUL
  <2> SUFFICES ASSUME mode = "text"
               PROVE  /\ off + Len(e) + 1 <= Len(buf \o more)
                      /\ (buf \o more)[off + Len(e) + 1] = NUL
    OBVIOUS
  <2>1. off + Len(e) + 1 <= Len(buf) /\ buf[off + Len(e) + 1] = NUL
    BY DEF Fits
  <2>2. off + Len(e) + 1 \in 1 .. Len(buf) /\ off + Len(e) + 1 <= Len(buf) + Len(more)
    BY <1>1, <1>4, <2>1
  <2> QED BY <1>2, <2>1, <2>2
<1>9. mode = "binary" => \A q \in 1 .. Len(e) : (flags \o moreFlags)[off + q] = (q = Len(e))
  <2> SUFFICES ASSUME mode = "binary", NEW q \in 1 .. Len(e)
               PROVE  (flags \o moreFlags)[off + q] = (q = Len(e))
    OBVIOUS
  <2>1. flags[off + q] = (q = Len(e)) /\ Len(flags) = Len(buf)
    BY DEF Fits, FlagsFit
  <2> QED BY <1>3, <1>5, <2>1
<1> QED BY <1>4, <1>6, <1>7, <1>8, <1>9 DEF Fits

\* What build_ adds to the tail after the entries before.
Ending(mode) == IF mode = "text" THEN <<NUL>> ELSE <<>>
EntryFlags(mode, e) == IF mode = "text" THEN <<>> ELSE [i \in DOMAIN e |-> i = Len(e)]

\* A new entry is where the tail ended.
LEMMA FitsNew ==
  ASSUME NEW S, NUL \in S, NEW buf \in Seq(S), NEW flags \in Seq(BOOLEAN),
         NEW mode \in {"text", "binary"}, FlagsFit(buf, flags, mode),
         NEW e \in Seq(S), Len(e) > 0
  PROVE  /\ buf \o e \o Ending(mode) \in Seq(S)
         /\ Len(buf \o e \o Ending(mode)) > 0
         /\ flags \o EntryFlags(mode, e) \in Seq(BOOLEAN)
         /\ FlagsFit(buf \o e \o Ending(mode), flags \o EntryFlags(mode, e), mode)
         /\ Fits(buf \o e \o Ending(mode), flags \o EntryFlags(mode, e), mode, Len(buf), e)
<1>1. /\ Len(buf) \in Nat /\ Len(e) \in Nat /\ DOMAIN e = 1 .. Len(e)
      /\ Len(flags) \in Nat
  BY LenProperties
<1>2. Ending(mode) \in Seq(S) /\ Len(Ending(mode)) = (IF mode = "text" THEN 1 ELSE 0)
      /\ (mode = "text" => Ending(mode)[1] = NUL)
  BY DEF Ending
<1>3. EntryFlags(mode, e) \in Seq(BOOLEAN)
      /\ (mode = "binary" => /\ Len(EntryFlags(mode, e)) = Len(e)
                             /\ \A q \in 1 .. Len(e) : EntryFlags(mode, e)[q] = (q = Len(e)))
  <2>1. CASE mode = "text"
    BY <2>1 DEF EntryFlags
  <2>2. CASE mode = "binary"
    <3>1. EntryFlags(mode, e) = [i \in 1 .. Len(e) |-> i = Len(e)]
      BY <1>1, <2>2 DEF EntryFlags
    <3>2. PICK f : f = [i \in 1 .. Len(e) |-> i = Len(e)]
      OBVIOUS
    <3>3. f \in [1 .. Len(e) -> BOOLEAN] /\ \A q \in 1 .. Len(e) : f[q] = (q = Len(e))
      BY <3>2, Zenon
    <3>4. f \in Seq(BOOLEAN)
      <4>1. \A n \in Nat : \A g \in [1 .. n -> BOOLEAN] : g \in Seq(BOOLEAN)
        BY SeqDef
      <4> QED BY ONLY <1>1, <3>3, <4>1
    <3>5. Len(f) = Len(e)
      <4>1. DOMAIN f = 1 .. Len(e) /\ DOMAIN f = 1 .. Len(f) /\ Len(f) \in Nat
        BY <3>3, <3>4, LenProperties
      <4> QED BY <1>1, <4>1
    <3>6. f = EntryFlags(mode, e)
      BY <3>1, <3>2
    <3> QED BY <3>3, <3>4, <3>5, <3>6
  <2> QED BY <2>1, <2>2
<1>4. PICK b \in Seq(S), end \in Seq(S), c \in Seq(S) :
        b = buf \o e /\ end = Ending(mode) /\ c = b \o end
  BY <1>2, ConcatProperties
<1>5. /\ Len(b) = Len(buf) + Len(e)
      /\ \A i \in 1 .. Len(e) : b[Len(buf) + i] = e[i]
  <2>1. /\ Len(b) = Len(buf) + Len(e)
        /\ \A i \in 1 .. Len(buf) + Len(e) : b[i] = IF i <= Len(buf) THEN buf[i] ELSE e[i - Len(buf)]
    BY <1>4, ConcatProperties
  <2>2. ASSUME NEW i \in 1 .. Len(e) PROVE b[Len(buf) + i] = e[i]
    <3>1. /\ Len(buf) + i \in 1 .. Len(buf) + Len(e) /\ ~(Len(buf) + i <= Len(buf))
          /\ (Len(buf) + i) - Len(buf) = i
      BY <1>1
    <3> QED BY <2>1, <3>1
  <2> QED BY <2>1, <2>2
<1>6. /\ Len(c) = Len(buf) + Len(e) + (IF mode = "text" THEN 1 ELSE 0)
      /\ \A i \in 1 .. Len(e) : c[Len(buf) + i] = e[i]
      /\ mode = "text" => c[Len(buf) + Len(e) + 1] = NUL
  <2>1. /\ Len(c) = Len(b) + Len(end)
        /\ \A i \in 1 .. Len(b) + Len(end) : c[i] = IF i <= Len(b) THEN b[i] ELSE end[i - Len(b)]
    BY <1>4, ConcatProperties
  <2>2. Len(end) = (IF mode = "text" THEN 1 ELSE 0) /\ (mode = "text" => end[1] = NUL)
    BY <1>2, <1>4
  <2>3. ASSUME NEW i \in 1 .. Len(e) PROVE c[Len(buf) + i] = e[i]
    <3>1. Len(buf) + i \in 1 .. Len(b) + Len(end) /\ Len(buf) + i <= Len(b)
      BY <1>1, <1>5, <2>2
    <3> QED BY <1>5, <2>1, <3>1
  <2>4. ASSUME mode = "text" PROVE c[Len(buf) + Len(e) + 1] = NUL
    <3>1. /\ Len(b) + 1 \in 1 .. Len(b) + Len(end) /\ ~(Len(b) + 1 <= Len(b))
          /\ (Len(b) + 1) - Len(b) = 1 /\ Len(buf) + Len(e) + 1 = Len(b) + 1
      BY <1>1, <1>5, <2>2, <2>4
    <3> QED BY <2>1, <2>2, <2>4, <3>1
  <2> QED BY <1>5, <2>1, <2>2, <2>3, <2>4
<1>7. PICK f \in Seq(BOOLEAN), g \in Seq(BOOLEAN) :
        f = EntryFlags(mode, e) /\ g = flags \o f
  BY <1>3, ConcatProperties
<1>8. mode = "binary" =>
        /\ Len(g) = Len(buf) + Len(e)
        /\ \A q \in 1 .. Len(e) : g[Len(buf) + q] = (q = Len(e))
  <2> SUFFICES ASSUME mode = "binary"
               PROVE  /\ Len(g) = Len(buf) + Len(e)
                      /\ \A q \in 1 .. Len(e) : g[Len(buf) + q] = (q = Len(e))
    OBVIOUS
  <2>1. /\ Len(g) = Len(flags) + Len(f)
        /\ \A i \in 1 .. Len(flags) + Len(f) :
             g[i] = IF i <= Len(flags) THEN flags[i] ELSE f[i - Len(flags)]
    BY <1>7, ConcatProperties
  <2>2. /\ Len(flags) = Len(buf) /\ Len(f) = Len(e)
        /\ \A q \in 1 .. Len(e) : f[q] = (q = Len(e))
    BY <1>3, <1>7 DEF FlagsFit
  <2>3. ASSUME NEW q \in 1 .. Len(e) PROVE g[Len(buf) + q] = (q = Len(e))
    <3>1. /\ Len(buf) + q \in 1 .. Len(flags) + Len(f) /\ ~(Len(buf) + q <= Len(flags))
          /\ (Len(buf) + q) - Len(flags) = q
      <4>1. Len(buf) \in Nat /\ Len(e) \in Nat /\ Len(flags) = Len(buf) /\ Len(f) = Len(e)
        BY <1>1, <2>2
      <4> QED BY ONLY <4>1, q \in 1 .. Len(e)
    <3> QED BY <2>1, <2>2, <3>1
  <2> QED BY <2>1, <2>2, <2>3
<1>9. mode = "text" => g = <<>>
  <2>1. mode = "text" => flags = <<>> /\ f = <<>>
    BY <1>7 DEF FlagsFit, EntryFlags
  <2> QED BY <1>7, <2>1
<1>10. Len(c) > 0 /\ FlagsFit(c, g, mode)
  <2>1. Len(c) > 0
    BY <1>1, <1>6
  <2>2. mode = "binary" => Len(g) = Len(c)
    <3> SUFFICES ASSUME mode = "binary" PROVE Len(g) = Len(c)
      OBVIOUS
    <3>1. Len(g) = Len(buf) + Len(e)
      BY <1>8
    <3>2. mode # "text" /\ Len(c) = Len(buf) + Len(e) + 0
      BY <1>6
    <3> QED BY <1>1, <3>1, <3>2
  <2> QED BY <1>9, <2>1, <2>2 DEF FlagsFit
<1>11. Fits(c, g, mode, Len(buf), e)
  <2>1. Len(buf) + Len(e) <= Len(c) /\ (mode = "text" => Len(buf) + Len(e) + 1 <= Len(c))
    BY <1>1, <1>6
  <2> QED BY <1>1, <1>6, <1>8, <2>1 DEF Fits
<1>12. c = buf \o e \o Ending(mode) /\ g = flags \o EntryFlags(mode, e)
  BY <1>4, <1>7
<1> QED BY <1>10, <1>11, <1>12

\* An entry that the last one ends with is there where that one is.
LEMMA FitsSuffix ==
  ASSUME NEW S, NEW buf \in Seq(S), NEW flags \in Seq(BOOLEAN), NEW mode \in {"text", "binary"},
         NEW off, NEW last \in Seq(S), Fits(buf, flags, mode, off, last),
         NEW e \in Seq(S), EndsInside(e, last)
  PROVE  Fits(buf, flags, mode, off + Len(last) - Len(e), e)
<1>1. Len(last) \in Nat /\ Len(e) \in Nat /\ Len(buf) \in Nat /\ off \in Nat
  BY LenProperties DEF Fits
<1>2. Len(e) <= Len(last) /\ \A q \in 1 .. Len(e) : e[q] = last[Len(last) - Len(e) + q]
  <2>1. PICK r, s : r = Reverse(e) /\ s = Reverse(last)
    OBVIOUS
  <2>2. /\ r = [i \in 1 .. Len(e) |-> e[(Len(e) - i) + 1]]
        /\ s = [i \in 1 .. Len(last) |-> last[(Len(last) - i) + 1]]
    BY <2>1 DEF Reverse
  <2>3. Len(r) = Len(e) /\ Len(s) = Len(last)
    BY <1>1, <2>2
  <2>4. Len(r) <= Len(s) /\ SubSeq(r, 1, Len(r)) = SubSeq(s, 1, Len(r))
    BY <2>1 DEF EndsInside, IsSuffix, IsPrefix
  <2>5. \A i \in 1 .. Len(e) : r[i] \in S
    <3> TAKE i \in 1 .. Len(e)
    <3>1. (Len(e) - i) + 1 \in 1 .. Len(e)
      BY <1>1
    <3> QED BY <2>2, <3>1, ElementOfSeq
  <2>6. \A i \in 1 .. Len(e) : s[i] \in S
    <3> TAKE i \in 1 .. Len(e)
    <3>1. (Len(last) - i) + 1 \in 1 .. Len(last) /\ i \in 1 .. Len(last)
      BY <1>1, <2>3, <2>4
    <3> QED BY <2>2, <3>1, ElementOfSeq
  <2>7. \A i \in 1 .. Len(e) : SubSeq(r, 1, Len(e))[i] = r[i] /\ SubSeq(s, 1, Len(e))[i] = s[i]
    <3>1. 1 \in Int /\ Len(e) \in Int
      BY <1>1
    <3>2. \A i \in 1 .. Len(e) - 1 + 1 : SubSeq(r, 1, Len(e))[i] = r[1 + i - 1]
      BY ONLY <2>5, <3>1, SubSeqProperties
    <3>3. \A i \in 1 .. Len(e) - 1 + 1 : SubSeq(s, 1, Len(e))[i] = s[1 + i - 1]
      BY ONLY <2>6, <3>1, SubSeqProperties
    <3>4. Len(e) - 1 + 1 = Len(e) /\ \A i \in 1 .. Len(e) : 1 + i - 1 = i
      BY <1>1
    <3> QED BY <3>2, <3>3, <3>4
  <2>8. \A i \in 1 .. Len(e) : r[i] = s[i]
    BY <2>3, <2>4, <2>7
  <2>9. Len(e) <= Len(last)
    BY <2>3, <2>4
  <2>10. ASSUME NEW q \in 1 .. Len(e) PROVE e[q] = last[Len(last) - Len(e) + q]
    <3> DEFINE i == (Len(e) - q) + 1
    <3>1. /\ i \in 1 .. Len(e) /\ i \in 1 .. Len(last)
          /\ (Len(e) - i) + 1 = q /\ (Len(last) - i) + 1 = Len(last) - Len(e) + q
      BY <1>1, <2>9
    <3> HIDE DEF i
    <3>2. r[i] = e[q] /\ s[i] = last[Len(last) - Len(e) + q]
      BY <2>2, <3>1
    <3> QED BY <2>8, <3>1, <3>2
  <2> QED BY <2>9, <2>10
<1>3. PICK d, m, n, k :
        /\ m = Len(last) /\ n = Len(e) /\ k = off /\ d = m - n
        /\ m \in Nat /\ n \in Nat /\ k \in Nat /\ n <= m
  BY <1>1, <1>2
<1>33. d \in Nat
  BY ONLY <1>3
<1>4. /\ off + Len(last) - Len(e) = off + d /\ off + d \in Nat
      /\ off + d + Len(e) = off + Len(last)
      /\ \A q \in 1 .. Len(e) : d + q \in 1 .. Len(last) /\ off + d + q = off + (d + q)
      /\ \A q \in 1 .. Len(e) : (q = Len(e) <=> d + q = Len(last))
  <2>1. /\ k + m - n = k + d /\ k + d \in Nat /\ k + d + n = k + m
        /\ \A q \in 1 .. n : d + q \in 1 .. m /\ k + d + q = k + (d + q)
        /\ \A q \in 1 .. n : (q = n <=> d + q = m)
    <3>1. m \in Nat /\ n \in Nat /\ k \in Nat /\ n <= m /\ d = m - n
      BY <1>3
    <3> QED BY ONLY <3>1
  <2> QED BY <1>3, <2>1
<1>5. \A q \in 1 .. Len(e) : buf[off + d + q] = e[q]
  <2>1. \A q \in 1 .. Len(last) : buf[off + q] = last[q]
    BY DEF Fits
  <2> QED BY <1>2, <1>3, <1>33, <1>4, <2>1
<1>6. ASSUME mode = "binary", NEW q \in 1 .. Len(e) PROVE flags[off + d + q] = (q = Len(e))
  <2>1. \A p \in 1 .. Len(last) : flags[off + p] = (p = Len(last))
    BY <1>6 DEF Fits
  <2> QED BY <1>4, <2>1
<1>7. /\ off + Len(last) <= Len(buf)
      /\ mode = "text" => off + Len(last) + 1 <= Len(buf) /\ buf[off + Len(last) + 1] = NUL
  BY DEF Fits
<1>8. Fits(buf, flags, mode, off + d, e)
  <2>1. /\ off + d + Len(e) <= Len(buf)
        /\ mode = "text" => off + d + Len(e) + 1 <= Len(buf) /\ buf[off + d + Len(e) + 1] = NUL
    BY <1>4, <1>7
  <2> QED BY <1>4, <1>5, <1>6, <2>1 DEF Fits
<1> QED BY <1>4, <1>8

\* restore gives it back.
LEMMA FitsRestores ==
  ASSUME NEW S, NEW tl, tl.buf \in Seq(S), tl.endFlags \in Seq(BOOLEAN),
         NEW mode \in {"text", "binary"}, FlagsFit(tl.buf, tl.endFlags, mode),
         NEW off, NEW e \in Seq(S), Fits(tl.buf, tl.endFlags, mode, off, e), Len(e) > 0,
         mode = "text" => \A q \in 1 .. Len(e) : e[q] # NUL
  PROVE  TailRestore(tl, off) = e
<1>1. PICK buf \in Seq(S), flags \in Seq(BOOLEAN) : buf = tl.buf /\ flags = tl.endFlags
  OBVIOUS
<1>2. Len(e) \in Nat /\ Len(buf) \in Nat /\ off \in Nat /\ off + Len(e) <= Len(buf)
      /\ \A q \in 1 .. Len(e) : buf[off + q] = e[q]
  BY <1>1, LenProperties DEF Fits
<1>3. SubSeq(buf, off + 1, off + Len(e)) = e
  <2>1. off + 1 \in Int /\ off + Len(e) \in Int /\ off + 1 <= off + Len(e)
        /\ (off + Len(e)) - (off + 1) + 1 = Len(e)
        /\ \A i \in off + 1 .. off + Len(e) : i \in 1 .. Len(buf)
        /\ \A q \in 1 .. Len(e) : off + 1 + q - 1 = off + q
    BY <1>2
  <2>2. \A i \in off + 1 .. off + Len(e) : buf[i] \in S
    BY <2>1, ElementOfSeq
  <2>3. /\ SubSeq(buf, off + 1, off + Len(e)) \in Seq(S)
        /\ Len(SubSeq(buf, off + 1, off + Len(e))) =
             IF off + 1 <= off + Len(e) THEN (off + Len(e)) - (off + 1) + 1 ELSE 0
        /\ \A i \in 1 .. (off + Len(e)) - (off + 1) + 1 :
             SubSeq(buf, off + 1, off + Len(e))[i] = buf[off + 1 + i - 1]
    BY ONLY <2>1, <2>2, SubSeqProperties
  <2>4. PICK t \in Seq(S) : t = SubSeq(buf, off + 1, off + Len(e))
    BY <2>3
  <2>5. Len(t) = Len(e) /\ \A q \in 1 .. Len(e) : t[q] = e[q]
    BY <1>2, <2>1, <2>3, <2>4
  <2> QED BY <2>4, <2>5, SeqEqual
<1>4. CASE mode = "text"
  <2>1. TailMode(tl) = "text"
    BY <1>4 DEF FlagsFit, TailMode
  <2> DEFINE Ends(p) == buf[p] = NUL /\ \A q \in off + 1 .. p - 1 : buf[q] # NUL
             end == CHOOSE p \in off + 1 .. Len(buf) : Ends(p)
  <2>2. TailRestore(tl, off) = SubSeq(buf, off + 1, end - 1)
    BY <1>1, <2>1 DEF TailRestore
  <2>3. off + Len(e) + 1 \in off + 1 .. Len(buf) /\ buf[off + Len(e) + 1] = NUL
    BY <1>1, <1>2, <1>4 DEF Fits
  <2>4. \A q \in off + 1 .. off + Len(e) : buf[q] # NUL
    <3> TAKE q \in off + 1 .. off + Len(e)
    <3>1. q - off \in 1 .. Len(e) /\ off + (q - off) = q
      BY <1>2
    <3>2. buf[off + (q - off)] = e[q - off] /\ e[q - off] # NUL
      BY <1>2, <1>4, <3>1
    <3> QED BY <3>1, <3>2
  <2>5. Ends(off + Len(e) + 1)
    <3>1. (off + Len(e) + 1) - 1 = off + Len(e)
      BY <1>2
    <3> QED BY <2>3, <2>4, <3>1
  <2>6. end \in off + 1 .. Len(buf) /\ Ends(end)
    <3> HIDE DEF Ends
    <3> QED BY <2>3, <2>5
  <2>7. end = off + Len(e) + 1
    <3>1. PICK p \in off + 1 .. Len(buf) : p = end /\ Ends(p)
      BY <2>6
    <3>2. ~(p <= off + Len(e))
      BY <2>4, <3>1
    <3>3. ~(off + Len(e) + 1 <= p - 1)
      BY <2>3, <3>1
    <3>4. p = off + Len(e) + 1
      <4>1. off \in Nat /\ Len(e) \in Nat /\ Len(buf) \in Nat
        BY <1>2
      <4> QED BY ONLY <3>2, <3>3, <4>1, p \in off + 1 .. Len(buf)
    <3> QED BY <3>1, <3>4
  <2>8. end - 1 = off + Len(e)
    <3> HIDE DEF end
    <3>1. off \in Nat /\ Len(e) \in Nat
      BY <1>2
    <3> QED BY <2>7, <3>1
  <2> QED BY <1>3, <2>2, <2>8
<1>5. CASE mode = "binary"
  <2>1. TailMode(tl) = "binary"
    <3>1. Len(tl.endFlags) > 0
      BY <1>1, <1>2, <1>5 DEF FlagsFit
    <3> QED BY <3>1 DEF TailMode
  <2> DEFINE Ends(p) == flags[p] /\ \A q \in off + 1 .. p - 1 : ~flags[q]
             end == CHOOSE p \in off + 1 .. Len(buf) : Ends(p)
  <2>2. TailRestore(tl, off) = SubSeq(buf, off + 1, end)
    BY <1>1, <2>1 DEF TailRestore
  <2>3. off + Len(e) \in off + 1 .. Len(buf)
    BY <1>2
  <2>4. \A q \in off + 1 .. off + Len(e) : flags[q] = (q = off + Len(e))
    <3> TAKE q \in off + 1 .. off + Len(e)
    <3>1. q - off \in 1 .. Len(e) /\ off + (q - off) = q /\ (q - off = Len(e) <=> q = off + Len(e))
      BY <1>2
    <3>2. flags[off + (q - off)] = (q - off = Len(e))
      BY <1>1, <1>5, <3>1 DEF Fits
    <3> QED BY <3>1, <3>2
  <2>5. Ends(off + Len(e))
    <3>1. off + Len(e) \in off + 1 .. off + Len(e)
      BY <1>2
    <3>2. \A q \in off + 1 .. (off + Len(e)) - 1 : q \in off + 1 .. off + Len(e) /\ q # off + Len(e)
      BY <1>2
    <3> QED BY <2>4, <3>1, <3>2
  <2>6. end \in off + 1 .. Len(buf) /\ Ends(end)
    <3> HIDE DEF Ends
    <3> QED BY <2>3, <2>5
  <2>7. end = off + Len(e)
    <3>1. PICK p \in off + 1 .. Len(buf) : p = end /\ Ends(p)
      BY <2>6
    <3>2. p <= off + Len(e) => p = off + Len(e)
      <4>1. p <= off + Len(e) => p \in off + 1 .. off + Len(e)
        BY <1>2
      <4> QED BY <2>4, <3>1, <4>1
    <3>3. ~(off + Len(e) <= p - 1)
      BY <2>3, <2>5, <3>1
    <3>4. p = off + Len(e)
      BY <1>2, <3>2, <3>3
    <3> QED BY <3>1, <3>4
  <2> QED BY <1>3, <2>2, <2>7
<1> QED BY <1>4, <1>5

\* What Tail::build_ has when the entries from the i-th in order are in.
TailSoFar(S, entries, order, mode, i, r) ==
  /\ r.buf \in Seq(S) /\ r.endFlags \in Seq(BOOLEAN)
  /\ FlagsFit(r.buf, r.endFlags, mode)
  /\ r.offsets \in [1 .. Len(entries) -> Nat]
  /\ i <= Len(entries) <=> Len(r.buf) > 0
  /\ \A j \in i .. Len(entries) :
       Fits(r.buf, r.endFlags, mode, r.offsets[order[j]], entries[order[j]])

TailRecord(S, n) ==
  [buf : Seq(S), endFlags : Seq(BOOLEAN), offsets : [1 .. n -> Int]]

\* One entry, stored or found inside the one before.
TailStep(entries, order, mode, i, later) ==
  LET entry == entries[order[i]]
      last == entries[order[i + 1]]
  IN  IF i < Len(entries) /\ EndsInside(entry, last)
      THEN [later EXCEPT !.offsets[order[i]] =
              later.offsets[order[i + 1]] + Len(last) - Len(entry)]
      ELSE AppendEntry(later, order[i], entry, mode)

\* The arguments of Tail::build_ after EffectiveMode.
TailArgs(S, entries, order, mode) ==
  /\ NUL \in S /\ mode \in {"text", "binary"}
  /\ Len(entries) \in Nat /\ entries \in Seq(Seq(S))
  /\ \A k \in 1 .. Len(entries) : Len(entries[k]) > 0
  /\ order \in Bijection(1 .. Len(entries), 1 .. Len(entries))

\* One more entry, in the order of the tail: what the tail gives back stays so.
LEMMA TailStepHolds ==
  ASSUME NEW S, NEW entries, NEW order, NEW mode, TailArgs(S, entries, order, mode),
         NEW i \in 1 .. Len(entries), NEW later, later \in TailRecord(S, Len(entries)),
         TailSoFar(S, entries, order, mode, i + 1, later)
  PROVE  TailSoFar(S, entries, order, mode, i, TailStep(entries, order, mode, i, later))
<1> DEFINE N == Len(entries)
<1>1. /\ NUL \in S /\ mode \in {"text", "binary"} /\ N \in Nat /\ entries \in Seq(Seq(S))
      /\ \A k \in 1 .. N : Len(entries[k]) > 0 /\ entries[k] \in Seq(S)
      /\ order \in [1 .. N -> 1 .. N] /\ \A j, k \in 1 .. N : order[j] = order[k] => j = k
  BY ElementOfSeq DEF TailArgs, Bijection, Injection, IsInjective
<1> HIDE DEF N
<1>2. PICK buf, flags, offsets :
        /\ buf = later.buf /\ flags = later.endFlags /\ offsets = later.offsets
        /\ buf \in Seq(S) /\ flags \in Seq(BOOLEAN) /\ FlagsFit(buf, flags, mode)
        /\ offsets \in [1 .. N -> Nat]
        /\ i + 1 <= N <=> Len(buf) > 0
        /\ \A j \in i + 1 .. N : Fits(buf, flags, mode, offsets[order[j]], entries[order[j]])
  BY DEF TailSoFar, N
<1>3. later = [buf |-> buf, endFlags |-> flags, offsets |-> offsets]
  BY <1>2 DEF TailRecord
<1>4. /\ i \in Nat /\ i \in 1 .. N /\ order[i] \in 1 .. N /\ Len(buf) \in Nat
      /\ \A j \in i .. N : j = i \/ j \in i + 1 .. N
      /\ \A j \in i + 1 .. N : j \in 1 .. N /\ j # i
  <2>1. i \in 1 .. N /\ N \in Nat
    BY <1>1 DEF N
  <2>2. /\ i \in Nat
        /\ \A j \in i .. N : j = i \/ j \in i + 1 .. N
        /\ \A j \in i + 1 .. N : j \in 1 .. N /\ j # i
    BY ONLY <2>1
  <2>3. Len(buf) \in Nat
    BY <1>2, LenProperties
  <2> QED BY <1>1, <2>1, <2>2, <2>3
<1>5. PICK k, entry : /\ k = order[i] /\ entry = entries[k] /\ k \in 1 .. N
                      /\ entry \in Seq(S) /\ Len(entry) > 0
  BY <1>1, <1>4
\* It is enough to say where the new entry is.
<1>6. ASSUME NEW buf2 \in Seq(S), NEW flags2 \in Seq(BOOLEAN), NEW off \in Nat,
             FlagsFit(buf2, flags2, mode), Len(buf2) > 0,
             Fits(buf2, flags2, mode, off, entry),
             \A o : \A e \in Seq(S) :
               Fits(buf, flags, mode, o, e) => Fits(buf2, flags2, mode, o, e),
             NEW r, r = [buf |-> buf2, endFlags |-> flags2, offsets |-> [offsets EXCEPT ![k] = off]]
      PROVE  TailSoFar(S, entries, order, mode, i, r)
  <2>1. PICK offsets2 : offsets2 = [offsets EXCEPT ![k] = off]
    OBVIOUS
  <2>2. /\ offsets2 \in [1 .. N -> Nat] /\ offsets2[k] = off
        /\ \A j \in 1 .. N : j # k => offsets2[j] = offsets[j]
    BY <1>2, <1>5, <2>1
  <2>3. r.buf = buf2 /\ r.endFlags = flags2 /\ r.offsets = offsets2
    BY <1>6, <2>1
  <2>4. ASSUME NEW j \in i .. N PROVE Fits(buf2, flags2, mode, offsets2[order[j]], entries[order[j]])
    <3>1. CASE j = i
      BY <1>5, <1>6, <2>2, <3>1
    <3>2. CASE j \in i + 1 .. N
      <4>1. order[j] \in 1 .. N /\ order[j] # k
        BY <1>1, <1>4, <1>5, <3>2
      <4>2. offsets2[order[j]] = offsets[order[j]] /\ entries[order[j]] \in Seq(S)
        BY <1>1, <2>2, <4>1
      <4> QED BY <1>2, <1>6, <3>2, <4>2
    <3> QED BY <1>4, <3>1, <3>2
  <2>5. i <= N <=> Len(buf2) > 0
    BY <1>4, <1>6
  <2> QED BY <1>6, <2>2, <2>3, <2>4, <2>5 DEF TailSoFar, N
<1>7. CASE i < N /\ EndsInside(entry, entries[order[i + 1]])
  <2>1. PICK last, o : last = entries[order[i + 1]] /\ o = offsets[order[i + 1]]
    OBVIOUS
  <2>2. i + 1 \in 1 .. N /\ i + 1 \in i + 1 .. N /\ order[i + 1] \in 1 .. N /\ i + 1 <= N
    BY <1>1, <1>4, <1>7
  <2>3. last \in Seq(S) /\ Fits(buf, flags, mode, o, last)
    BY <1>1, <1>2, <2>1, <2>2
  <2>4. Fits(buf, flags, mode, o + Len(last) - Len(entry), entry)
    <3>1. /\ buf \in Seq(S) /\ flags \in Seq(BOOLEAN) /\ mode \in {"text", "binary"}
          /\ last \in Seq(S) /\ Fits(buf, flags, mode, o, last)
          /\ entry \in Seq(S) /\ EndsInside(entry, last)
      BY <1>1, <1>2, <1>5, <1>7, <2>1, <2>3
    <3> QED BY ONLY <3>1, FitsSuffix
  <2>5. o + Len(last) - Len(entry) \in Nat
    BY <2>4 DEF Fits
  <2>6. TailStep(entries, order, mode, i, later) =
          [later EXCEPT !.offsets[k] = o + Len(last) - Len(entry)]
    BY <1>2, <1>5, <1>7, <2>1 DEF TailStep, N
  <2>7. PICK off \in Nat : off = o + Len(last) - Len(entry)
    BY <2>5
  <2>8. TailStep(entries, order, mode, i, later) =
          [buf |-> buf, endFlags |-> flags, offsets |-> [offsets EXCEPT ![k] = off]]
    <3>1. [later EXCEPT !.offsets[k] = off] =
            [buf |-> buf, endFlags |-> flags, offsets |-> [offsets EXCEPT ![k] = off]]
      BY ONLY <1>3
    <3> QED BY <2>6, <2>7, <3>1
  <2>9. Len(buf) > 0
    BY <1>2, <2>2
  <2> QED BY <1>2, <1>6, <2>4, <2>7, <2>8, <2>9
<1>8. CASE ~(i < N /\ EndsInside(entry, entries[order[i + 1]]))
  <2>1. TailStep(entries, order, mode, i, later) = AppendEntry(later, k, entry, mode)
    BY <1>5, <1>8 DEF TailStep, N
  <2>2. PICK buf2, flags2 :
          buf2 = buf \o entry \o Ending(mode) /\ flags2 = flags \o EntryFlags(mode, entry)
    OBVIOUS
  <2>3. /\ buf2 \in Seq(S) /\ Len(buf2) > 0 /\ flags2 \in Seq(BOOLEAN)
        /\ FlagsFit(buf2, flags2, mode) /\ Fits(buf2, flags2, mode, Len(buf), entry)
    <3>1. /\ NUL \in S /\ buf \in Seq(S) /\ flags \in Seq(BOOLEAN)
          /\ mode \in {"text", "binary"} /\ FlagsFit(buf, flags, mode)
          /\ entry \in Seq(S) /\ Len(entry) > 0
      BY <1>1, <1>2, <1>5
    <3>2. /\ buf \o entry \o Ending(mode) \in Seq(S)
          /\ Len(buf \o entry \o Ending(mode)) > 0
          /\ flags \o EntryFlags(mode, entry) \in Seq(BOOLEAN)
          /\ FlagsFit(buf \o entry \o Ending(mode), flags \o EntryFlags(mode, entry), mode)
          /\ Fits(buf \o entry \o Ending(mode), flags \o EntryFlags(mode, entry), mode,
                  Len(buf), entry)
      BY ONLY <3>1, FitsNew
    <3> QED BY ONLY <2>2, <3>2
  <2>4. AppendEntry(later, k, entry, mode) =
          [buf |-> buf2, endFlags |-> flags2, offsets |-> [offsets EXCEPT ![k] = Len(buf)]]
    <3>1. (IF mode = "text" THEN <<>> ELSE flags \o [j \in DOMAIN entry |-> j = Len(entry)])
            = flags2
      <4>1. CASE mode = "text"
        <5>1. flags2 = <<>>
          BY <2>3, <4>1 DEF FlagsFit
        <5> QED BY <4>1, <5>1
      <4>2. CASE mode # "text"
        BY <2>2, <4>2 DEF EntryFlags
      <4> QED BY <4>1, <4>2
    <3>2. buf2 = buf \o entry \o (IF mode = "text" THEN <<NUL>> ELSE <<>>)
      BY <2>2 DEF Ending
    <3> QED BY <1>2, <3>1, <3>2 DEF AppendEntry
  <2>5. \A o : \A e \in Seq(S) :
          Fits(buf, flags, mode, o, e) => Fits(buf2, flags2, mode, o, e)
    <3> SUFFICES ASSUME NEW o, NEW e \in Seq(S), Fits(buf, flags, mode, o, e)
                 PROVE  Fits(buf2, flags2, mode, o, e)
      OBVIOUS
    <3>1. /\ entry \o Ending(mode) \in Seq(S) /\ EntryFlags(mode, entry) \in Seq(BOOLEAN)
          /\ buf2 = buf \o (entry \o Ending(mode))
      <4>1. Ending(mode) \in Seq(S)
        BY <1>1 DEF Ending
      <4>2. EntryFlags(mode, entry) \in Seq(BOOLEAN)
        <5>1. CASE mode = "text"
          BY <5>1 DEF EntryFlags
        <5>2. CASE mode # "text"
          <6>1. DOMAIN entry = 1 .. Len(entry) /\ Len(entry) \in Nat
            BY <1>5, LenProperties
          <6>2. [j \in DOMAIN entry |-> j = Len(entry)] \in [1 .. Len(entry) -> BOOLEAN]
            BY <6>1, Zenon
          <6>3. [j \in DOMAIN entry |-> j = Len(entry)] \in Seq(BOOLEAN)
            BY <6>1, <6>2, SeqDef
          <6> QED BY <5>2, <6>3 DEF EntryFlags
        <5> QED BY <5>1, <5>2
      <4>3. PICK end \in Seq(S) : end = Ending(mode)
        BY <4>1
      <4>4. entry \o end \in Seq(S)
        BY <1>5, ConcatProperties
      <4>5. (buf \o entry) \o end = buf \o (entry \o end)
        <5>1. buf \in Seq(S) /\ entry \in Seq(S)
          BY <1>2, <1>5
        <5> QED BY ONLY <5>1, end \in Seq(S), ConcatAssociative
      <4> QED BY <2>2, <4>2, <4>3, <4>4, <4>5
    <3>2. PICK more \in Seq(S), moreFlags \in Seq(BOOLEAN) :
            more = entry \o Ending(mode) /\ moreFlags = EntryFlags(mode, entry)
      BY <3>1
    <3>3. buf2 = buf \o more /\ flags2 = flags \o moreFlags
      BY <2>2, <3>1, <3>2
    <3>4. /\ buf \in Seq(S) /\ flags \in Seq(BOOLEAN) /\ mode \in {"text", "binary"}
          /\ FlagsFit(buf, flags, mode)
      BY <1>1, <1>2
    <3>5. Fits(buf \o more, flags \o moreFlags, mode, o, e)
      BY ONLY <3>4, more \in Seq(S), moreFlags \in Seq(BOOLEAN), e \in Seq(S),
              Fits(buf, flags, mode, o, e), FitsStays
    <3> QED BY <3>3, <3>5
  <2> QED BY <1>4, <1>6, <2>1, <2>3, <2>4, <2>5
<1> QED BY <1>7, <1>8

\* From of TailBuild.
TailFrom(entries, order, mode, from) ==
  from = [i \in 1 .. Len(entries) + 1 |->
            IF i > Len(entries)
            THEN [buf |-> <<>>, endFlags |-> <<>>, offsets |-> [k \in DOMAIN entries |-> 0]]
            ELSE TailStep(entries, order, mode, i, from[i + 1])]

PutOffset(r, k, off) == [r EXCEPT !.offsets[k] = off]

\* Only the offset of one entry changes.
LEMMA OffsetPut ==
  ASSUME NEW buf, NEW flags, NEW offsets,
         NEW r, r = [buf |-> buf, endFlags |-> flags, offsets |-> offsets], NEW k, NEW off
  PROVE  PutOffset(r, k, off) =
           [buf |-> buf, endFlags |-> flags, offsets |-> [offsets EXCEPT ![k] = off]]
BY DEF PutOffset

\* One more entry leaves a buffer, end flags and offsets.
LEMMA TailStepTyped ==
  ASSUME NEW S, NEW entries, NEW order, NEW mode, TailArgs(S, entries, order, mode),
         NEW i \in 1 .. Len(entries), NEW later \in TailRecord(S, Len(entries))
  PROVE  TailStep(entries, order, mode, i, later) \in TailRecord(S, Len(entries))
<1> DEFINE N == Len(entries)
<1>0. /\ NUL \in S /\ mode \in {"text", "binary"} /\ N \in Nat /\ entries \in Seq(Seq(S))
      /\ DOMAIN entries = 1 .. N
      /\ \A k \in 1 .. N : entries[k] \in Seq(S) /\ Len(entries[k]) \in Nat
      /\ order \in [1 .. N -> 1 .. N]
  BY ElementOfSeq, LenProperties DEF TailArgs, Bijection, Injection
<1> HIDE DEF N
<1>1. PICK buf \in Seq(S), flags \in Seq(BOOLEAN), offsets \in [1 .. N -> Int] :
        later = [buf |-> buf, endFlags |-> flags, offsets |-> offsets]
  BY DEF TailRecord, N
<1>2. PICK k \in 1 .. N, entry \in Seq(S) : k = order[i] /\ entry = entries[k]
  <2>1. i \in 1 .. N
    BY DEF N
  <2>2. order[i] \in 1 .. N /\ entries[order[i]] \in Seq(S)
    BY <1>0, <2>1
  <2> QED BY <2>2
<1>3. CASE i < N /\ EndsInside(entry, entries[order[i + 1]])
  <2>1. i + 1 \in 1 .. N /\ order[i + 1] \in 1 .. N
    <3>1. i \in 1 .. N /\ N \in Nat /\ i < N
      BY <1>0, <1>3 DEF N
    <3>2. i + 1 \in 1 .. N
      BY ONLY <3>1
    <3> QED BY <1>0, <3>2
  <2>2. PICK off \in Int :
          off = later.offsets[order[i + 1]] + Len(entries[order[i + 1]]) - Len(entry)
    <3>1. later.offsets[order[i + 1]] \in Int /\ Len(entries[order[i + 1]]) \in Nat /\ Len(entry) \in Nat
      BY <1>0, <1>1, <1>2, <2>1
    <3>2. PICK x \in Int : x = later.offsets[order[i + 1]]
      BY <3>1
    <3>3. PICK y \in Nat : y = Len(entries[order[i + 1]])
      BY <3>1
    <3>4. PICK z \in Nat : z = Len(entry)
      BY <3>1
    <3>5. x + y - z \in Int
      BY ONLY x \in Int, y \in Nat, z \in Nat
    <3> QED BY ONLY <3>2, <3>3, <3>4, <3>5
  <2>3. TailStep(entries, order, mode, i, later) = [later EXCEPT !.offsets[k] = off]
    BY <1>2, <1>3, <2>2 DEF TailStep, N
  <2>4. [later EXCEPT !.offsets[k] = off] =
          [buf |-> buf, endFlags |-> flags, offsets |-> [offsets EXCEPT ![k] = off]]
    <3>1. later = [buf |-> buf, endFlags |-> flags, offsets |-> offsets]
      BY <1>1
    <3>2. PutOffset(later, k, off) =
            [buf |-> buf, endFlags |-> flags, offsets |-> [offsets EXCEPT ![k] = off]]
      BY <3>1, OffsetPut
    <3> QED BY ONLY <3>2, Zenon DEF PutOffset
  <2>5. [offsets EXCEPT ![k] = off] \in [1 .. N -> Int]
    OBVIOUS
  <2> QED BY <2>3, <2>4, <2>5 DEF TailRecord, N
<1>4. CASE ~(i < N /\ EndsInside(entry, entries[order[i + 1]]))
  <2>1. TailStep(entries, order, mode, i, later) = AppendEntry(later, k, entry, mode)
    BY <1>2, <1>4 DEF TailStep, N
  <2>2. Len(buf) \in Nat /\ DOMAIN entry = 1 .. Len(entry) /\ Len(entry) \in Nat
    BY LenProperties
  <2>3. PICK buf2, flags2 :
          /\ buf2 = buf \o entry \o (IF mode = "text" THEN <<NUL>> ELSE <<>>)
          /\ flags2 = IF mode = "text" THEN <<>>
                      ELSE flags \o [j \in DOMAIN entry |-> j = Len(entry)]
    OBVIOUS
  <2>4. buf2 \in Seq(S)
    <3>1. PICK end \in Seq(S) : end = IF mode = "text" THEN <<NUL>> ELSE <<>>
      <4>1. <<>> \in Seq(S) /\ <<NUL>> \in Seq(S)
        BY <1>0
      <4> QED BY <4>1
    <3>2. buf \o entry \in Seq(S)
      BY ConcatProperties
    <3>3. (buf \o entry) \o end \in Seq(S)
      BY <3>2, ConcatProperties
    <3> QED BY <2>3, <3>1, <3>3
  <2>5. flags2 \in Seq(BOOLEAN)
    <3>1. [j \in DOMAIN entry |-> j = Len(entry)] \in [1 .. Len(entry) -> BOOLEAN]
      BY <2>2, Zenon
    <3>2. PICK f \in Seq(BOOLEAN) : f = [j \in DOMAIN entry |-> j = Len(entry)]
      <4>1. PICK f \in [1 .. Len(entry) -> BOOLEAN] : f = [j \in DOMAIN entry |-> j = Len(entry)]
        BY <3>1, Zenon
      <4>2. f \in Seq(BOOLEAN)
        BY <2>2, SeqDef
      <4> QED BY <4>1, <4>2, Zenon
    <3>3. flags \o f \in Seq(BOOLEAN) /\ <<>> \in Seq(BOOLEAN)
      BY ConcatProperties
    <3> QED BY <2>3, <3>2, <3>3
  <2>6. AppendEntry(later, k, entry, mode) =
          [buf |-> buf2, endFlags |-> flags2, offsets |-> [offsets EXCEPT ![k] = Len(buf)]]
    BY <1>1, <2>3 DEF AppendEntry
  <2>7. [offsets EXCEPT ![k] = Len(buf)] \in [1 .. N -> Int]
    BY <2>2
  <2> QED BY <2>1, <2>4, <2>5, <2>6, <2>7 DEF TailRecord, N
<1> QED BY <1>3, <1>4

\* The tail, from its last entry down: the recursion that builds it has a value.
LEMMA TailFromExists ==
  ASSUME NEW S, NEW entries, NEW order, NEW mode, TailArgs(S, entries, order, mode)
  PROVE  \E from : TailFrom(entries, order, mode, from)
<1> DEFINE N == Len(entries)
           D == 1 .. N + 1
           V == TailRecord(S, N)
           stop == {N + 1}
           m == [i \in D |-> N + 1 - i]
           next == [i \in D |-> IF i > N THEN i ELSE i + 1]
           none == [buf |-> <<>>, endFlags |-> <<>>, offsets |-> [k \in DOMAIN entries |-> 0]]
           b == [i \in D |-> none]
           h == [p \in D \X V |-> IF p[1] > N THEN p[2]
                                  ELSE TailStep(entries, order, mode, p[1], p[2])]
<1>1. /\ NUL \in S /\ mode \in {"text", "binary"} /\ N \in Nat /\ entries \in Seq(Seq(S))
      /\ DOMAIN entries = 1 .. N
      /\ \A k \in 1 .. N : entries[k] \in Seq(S) /\ Len(entries[k]) \in Nat
      /\ order \in [1 .. N -> 1 .. N]
  BY ElementOfSeq, LenProperties DEF TailArgs, Bijection, Injection
<1>2. none \in V
  BY <1>1 DEF TailRecord
<1>3. \A i \in 1 .. N : \A later \in V : TailStep(entries, order, mode, i, later) \in V
  BY TailStepTyped
<1>4. /\ stop \in SUBSET D /\ m \in [D -> Nat] /\ next \in [D -> D]
      /\ b \in [D -> V]
  <2>1. b \in [D -> V]
    <3> HIDE DEF none, V, D
    <3> QED BY <1>2
  <2>2. N \in Nat
    BY <1>1
  <2> HIDE DEF b, V, N
  <2> QED BY <2>1, <2>2
<1>5. h \in [D \X V -> V]
  <2>1. ASSUME NEW i \in D, NEW later \in V
        PROVE  (IF i > N THEN later ELSE TailStep(entries, order, mode, i, later)) \in V
    <3>1. i > N \/ i \in 1 .. N
      BY <1>1
    <3> HIDE DEF V, D, N
    <3> QED BY <1>3, <3>1
  <2> HIDE DEF V, D, N
  <2> QED BY <2>1
<1>6. \A i \in D \ stop : m[next[i]] < m[i]
  BY <1>1
<1>7. PICK f \in [D -> V] : \A i \in D : Recurs(f, i, stop, b, h, next)
  <2> HIDE DEF D, V, stop, m, next, b, h
  <2> QED BY <1>4, <1>5, <1>6, RecursionHasSolution
<1>8. ASSUME NEW i \in D
      PROVE  f[i] = IF i > N THEN none ELSE TailStep(entries, order, mode, i, f[i + 1])
  <2>1. f[i] = IF i \in stop THEN b[i] ELSE h[<<i, f[next[i]]>>]
    BY <1>7 DEF Recurs
  <2>2. CASE i > N
    <3>1. i = N + 1 /\ b[i] = none
      BY <1>1, <2>2
    <3> QED BY <2>1, <2>2, <3>1
  <2>3. CASE ~(i > N)
    <3>1. i \notin stop /\ next[i] = i + 1 /\ i + 1 \in D
      BY <1>1, <2>3
    <3>2. f[i + 1] \in V
      BY <3>1
    <3>3. h[<<i, f[i + 1]>>] = TailStep(entries, order, mode, i, f[i + 1])
      <4> HIDE DEF V, D, N
      <4> QED BY <2>3, <3>2
    <3> HIDE DEF h, b, next, stop, none
    <3> QED BY <2>1, <2>3, <3>1, <3>3
  <2> QED BY <2>2, <2>3
<1>9. f = [i \in D |-> f[i]]
  <2> HIDE DEF D, V
  <2> QED BY <1>7
<1>10. f = [i \in D |-> IF i > N THEN none ELSE TailStep(entries, order, mode, i, f[i + 1])]
  <2> HIDE DEF D, V, N, none
  <2> QED BY <1>8, <1>9
<1> QED BY <1>10 DEF TailFrom

\* All the entries are in the tail.
LEMMA TailFromHolds ==
  ASSUME NEW S, NEW entries, NEW order, NEW mode, TailArgs(S, entries, order, mode),
         NEW from, TailFrom(entries, order, mode, from)
  PROVE  TailSoFar(S, entries, order, mode, 1, from[1])
<1> DEFINE N == Len(entries)
           none == [buf |-> <<>>, endFlags |-> <<>>, offsets |-> [k \in DOMAIN entries |-> 0]]
           So(i) == /\ TailSoFar(S, entries, order, mode, i, from[i])
                    /\ from[i] \in TailRecord(S, N)
           Bad == {d \in Nat : d <= N /\ ~So(N + 1 - d)}
<1>1. N \in Nat /\ DOMAIN entries = 1 .. N /\ mode \in {"text", "binary"}
  BY LenProperties DEF TailArgs
<1>2. \A i \in 1 .. N + 1 :
        from[i] = IF i > N THEN none ELSE TailStep(entries, order, mode, i, from[i + 1])
  BY DEF TailFrom
<1>3. TailSoFar(S, entries, order, mode, N + 1, none) /\ none \in TailRecord(S, N)
  <2>1. none.buf = <<>> /\ none.endFlags = <<>> /\ none.offsets = [k \in 1 .. N |-> 0]
    BY <1>1
  <2>2. FlagsFit(<<>>, <<>>, mode)
    BY DEF FlagsFit
  <2>3. none \in TailRecord(S, N)
    BY <1>1 DEF TailRecord
  <2> QED BY <1>1, <2>1, <2>2, <2>3 DEF TailSoFar
<1>4. Bad = {}
  <2> SUFFICES ASSUME Bad # {} PROVE FALSE
    OBVIOUS
  <2>1. PICK d \in Bad : \A e \in Bad : d <= e
    <3>1. Bad \subseteq Nat
      OBVIOUS
    <3> HIDE DEF Bad
    <3> QED BY <3>1, LeastElement
  <2>2. d \in Nat /\ d <= N /\ ~So(N + 1 - d)
    OBVIOUS
  <2>3. CASE d = 0
    <3>1. N + 1 - d = N + 1 /\ N + 1 \in 1 .. N + 1 /\ N + 1 > N
      BY <1>1, <2>3
    <3>2. from[N + 1] = none
      BY <1>2, <3>1
    <3> HIDE DEF none
    <3> QED BY <1>3, <2>2, <3>1, <3>2
  <2>4. CASE d # 0
    <3>1. PICK i : i = N + 1 - d
      OBVIOUS
    <3>2. /\ i \in 1 .. N /\ i \in 1 .. N + 1 /\ ~(i > N) /\ d - 1 \in Nat /\ d - 1 <= N
          /\ N + 1 - (d - 1) = i + 1 /\ ~(d <= d - 1)
      BY <1>1, <2>2, <2>4, <3>1
    <3>3. d - 1 \notin Bad
      BY <2>1, <3>2
    <3>4. So(i + 1)
      BY <3>2, <3>3
    <3>5. from[i + 1] \in TailRecord(S, N)
      BY <3>4
    <3>6. from[i] = TailStep(entries, order, mode, i, from[i + 1])
      BY <1>2, <3>2
    <3>7. So(i)
      <4>1. i \in 1 .. Len(entries) /\ from[i + 1] \in TailRecord(S, Len(entries))
        BY <3>2, <3>5
      <4>2. TailArgs(S, entries, order, mode)
        OBVIOUS
      <4>3. TailSoFar(S, entries, order, mode, i, TailStep(entries, order, mode, i, from[i + 1]))
        <5>1. TailSoFar(S, entries, order, mode, i + 1, from[i + 1])
          BY <3>4
        <5> QED BY ONLY <4>1, <4>2, <5>1, TailStepHolds
      <4>4. TailStep(entries, order, mode, i, from[i + 1]) \in TailRecord(S, N)
        BY ONLY <4>1, <4>2, TailStepTyped
      <4> QED BY <3>6, <4>3, <4>4
    <3> QED BY <2>2, <3>1, <3>7
  <2> QED BY <2>3, <2>4
<1>5. N \notin Bad /\ N + 1 - N = 1
  <2> HIDE DEF Bad
  <2> QED BY <1>1, <1>4
<1> QED BY <1>1, <1>5

\* The tail gives back the entries.
TailHolds(tl, entries, offs) ==
  /\ offs \in Seq(Nat) /\ Len(offs) = Len(entries)
  /\ \A k \in 1 .. Len(entries) :
       TailRestore(tl, offs[k]) = entries[k] /\ offs[k] < Len(tl.buf)

\* The characters of a reversed string, which reversed again is the string.
LEMMA ReverseTyped ==
  ASSUME NEW S, NEW s \in Seq(S)
  PROVE  /\ Reverse(s) \in Seq(S) /\ Len(Reverse(s)) = Len(s)
         /\ \A i \in 1 .. Len(s) : Reverse(s)[i] = s[(Len(s) - i) + 1]
         /\ Reverse(Reverse(s)) = s
<1>1. Len(s) \in Nat
  BY LenProperties
<1>2. \A i \in 1 .. Len(s) : (Len(s) - i) + 1 \in 1 .. Len(s)
                             /\ (Len(s) - ((Len(s) - i) + 1)) + 1 = i
  BY <1>1
<1>3. PICK r : r = Reverse(s)
  OBVIOUS
<1>4. r = [i \in 1 .. Len(s) |-> s[(Len(s) - i) + 1]]
  BY <1>3 DEF Reverse
<1>5. r \in [1 .. Len(s) -> S]
  BY <1>2, <1>4, ElementOfSeq
<1>6. r \in Seq(S) /\ Len(r) = Len(s)
  <2>1. r \in Seq(S)
    BY <1>1, <1>5, SeqDef
  <2>2. DOMAIN r = 1 .. Len(s) /\ DOMAIN r = 1 .. Len(r) /\ Len(r) \in Nat
    BY <1>5, <2>1, LenProperties
  <2> QED BY <1>1, <2>1, <2>2
<1>7. PICK t : t = Reverse(r)
  OBVIOUS
<1>8. t = [i \in 1 .. Len(s) |-> r[(Len(s) - i) + 1]]
  BY <1>6, <1>7 DEF Reverse
<1>9. \A i \in 1 .. Len(s) : t[i] = s[i]
  <2> TAKE i \in 1 .. Len(s)
  <2>1. r[(Len(s) - i) + 1] = s[(Len(s) - ((Len(s) - i) + 1)) + 1]
    BY <1>2, <1>4
  <2> QED BY <1>2, <1>8, <2>1
<1>10. t \in [1 .. Len(s) -> S]
  <2>1. DOMAIN t = 1 .. Len(s) /\ t = [i \in 1 .. Len(s) |-> t[i]]
    BY <1>8
  <2>2. \A i \in 1 .. Len(s) : t[i] \in S
    BY <1>9, ElementOfSeq
  <2> QED BY <2>1, <2>2
<1>11. t = s
  <2>1. s \in [1 .. Len(s) -> S]
    BY LenProperties
  <2> QED BY <1>9, <1>10, <2>1
<1> QED BY <1>3, <1>4, <1>6, <1>7, <1>11

\* The order in which the tail is built names each entry once.
LEMMA EntryOrderIs ==
  ASSUME NEW S \in SUBSET Nat, NEW entries \in Seq(Seq(S))
  PROVE  EntryOrder(entries) \in Bijection(1 .. Len(entries), 1 .. Len(entries))
<1> DEFINE strs == [i \in DOMAIN entries |-> Reverse(entries[i])]
<1>1. Len(entries) \in Nat /\ DOMAIN entries = 1 .. Len(entries)
  BY LenProperties
<1>2. DOMAIN strs = 1 .. Len(entries)
  BY <1>1
<1>3. ASSUME NEW i \in 1 .. Len(entries) PROVE strs[i] \in Seq(Nat)
  <2>1. entries[i] \in Seq(S)
    BY ElementOfSeq
  <2>2. Reverse(entries[i]) \in Seq(S)
    BY <2>1, ReverseTyped
  <2>3. Reverse(entries[i]) \in Seq(Nat)
    BY <2>2, SeqMonotonic
  <2> QED BY <1>1, <2>3
<1>4. EntryOrder(entries) \in SortedOrders(strs)
  <2>1. SortedOrders(strs) # {}
    <3> HIDE DEF strs
    <3> QED BY <1>1, <1>2, <1>3, OrderExists
  <2>2. EntryOrder(entries) = CHOOSE o \in SortedOrders(strs) : TRUE
    BY DEF EntryOrder
  <2> HIDE DEF strs
  <2> QED BY <2>1, <2>2
<1> HIDE DEF strs
<1> QED BY <1>2, <1>4 DEF SortedOrders

\* What Tail::build_ leaves gives back each entry at its offset.
LEMMA TailBuilt ==
  ASSUME NEW S \in SUBSET Nat, NUL \in S, NEW entries \in Seq(Seq(S)),
         \A k \in 1 .. Len(entries) : Len(entries[k]) > 0,
         NEW asked \in {"text", "binary"}, NEW built, built = TailBuild(entries, asked),
         NEW tl, tl = [buf |-> built.buf, endFlags |-> built.endFlags]
  PROVE  /\ tl.buf \in Seq(S) /\ TailHolds(tl, entries, built.offsets)
         /\ tl.buf # <<>> <=> Len(entries) # 0
         /\ TailMode(tl) = "binary" <=>
              /\ Len(entries) # 0
              /\ asked = "binary" \/ \E k \in 1 .. Len(entries) : NUL \in Range(entries[k])
<1>1. Len(entries) \in Nat /\ DOMAIN entries = 1 .. Len(entries)
  BY LenProperties
<1>2. PICK mode, order : mode = EffectiveMode(entries, asked) /\ order = EntryOrder(entries)
  OBVIOUS
<1>3. /\ mode \in {"text", "binary"}
      /\ mode = "binary" <=>
           asked = "binary" \/ \E k \in 1 .. Len(entries) : NUL \in Range(entries[k])
  BY <1>1, <1>2 DEF EffectiveMode
<1>4. TailArgs(S, entries, order, mode)
  BY <1>1, <1>2, <1>3, EntryOrderIs DEF TailArgs
<1>5. TailBuild(entries, asked) = (CHOOSE from : TailFrom(entries, order, mode, from))[1]
  BY <1>2 DEF TailBuild, TailFrom, TailStep
<1>6. PICK from : TailFrom(entries, order, mode, from) /\ built = from[1]
  <2>1. TailFrom(entries, order, mode, CHOOSE from : TailFrom(entries, order, mode, from))
    BY <1>4, TailFromExists
  <2> QED BY <1>5, <2>1
<1>7. TailSoFar(S, entries, order, mode, 1, built)
  BY <1>4, <1>6, TailFromHolds
<1>8. /\ built.buf \in Seq(S) /\ built.endFlags \in Seq(BOOLEAN)
      /\ FlagsFit(built.buf, built.endFlags, mode)
      /\ built.offsets \in [1 .. Len(entries) -> Nat]
      /\ 1 <= Len(entries) <=> Len(built.buf) > 0
      /\ \A j \in 1 .. Len(entries) :
           Fits(built.buf, built.endFlags, mode, built.offsets[order[j]], entries[order[j]])
  BY <1>7 DEF TailSoFar
<1>9. PICK buf \in Seq(S), flags \in Seq(BOOLEAN), offs \in [1 .. Len(entries) -> Nat] :
        buf = built.buf /\ flags = built.endFlags /\ offs = built.offsets
  BY <1>8
<1>10. tl.buf = buf /\ tl.endFlags = flags
  BY <1>9
<1>11. offs \in Seq(Nat) /\ Len(offs) = Len(entries)
  <2>1. offs \in [1 .. Len(entries) -> Nat]
    BY <1>8, <1>9
  <2>2. offs \in Seq(Nat)
    <3>1. \A n \in Nat : \A f \in [1 .. n -> Nat] : f \in Seq(Nat)
      BY SeqDef
    <3> QED BY ONLY <1>1, <2>1, <3>1
  <2>3. DOMAIN offs = 1 .. Len(entries) /\ DOMAIN offs = 1 .. Len(offs) /\ Len(offs) \in Nat
    BY <2>1, <2>2, LenProperties
  <2> QED BY <1>1, <2>2, <2>3
<1>12. ASSUME NEW k \in 1 .. Len(entries)
       PROVE  TailRestore(tl, offs[k]) = entries[k] /\ offs[k] < Len(tl.buf)
  <2>1. PICK j \in 1 .. Len(entries) : order[j] = k
    BY <1>4 DEF TailArgs, Bijection, Surjection
  <2>2. PICK e \in Seq(S), off \in Nat : e = entries[k] /\ off = offs[k] /\ Len(e) > 0
    BY ElementOfSeq, <1>11
  <2>3. Fits(buf, flags, mode, off, e)
    BY <1>8, <1>9, <2>1, <2>2
  <2>4. mode = "text" => \A q \in 1 .. Len(e) : e[q] # NUL
    <3>1. DOMAIN e = 1 .. Len(e)
      BY LenProperties
    <3>2. mode = "text" => NUL \notin Range(e)
      BY <1>3, <2>2
    <3> QED BY <3>1, <3>2 DEF Range
  <2>5. /\ tl.buf \in Seq(S) /\ tl.endFlags \in Seq(BOOLEAN)
        /\ FlagsFit(tl.buf, tl.endFlags, mode) /\ Fits(tl.buf, tl.endFlags, mode, off, e)
    BY <1>8, <1>9, <1>10, <2>3
  <2>6. TailRestore(tl, off) = e
    <3>1. /\ mode \in {"text", "binary"} /\ Len(e) > 0
          /\ (mode = "text" => \A q \in 1 .. Len(e) : e[q] # NUL)
      BY <1>3, <2>2, <2>4
    <3>2. tl.buf \in Seq(S) /\ tl.endFlags \in Seq(BOOLEAN)
      BY <2>5
    <3>3. FlagsFit(tl.buf, tl.endFlags, mode) /\ Fits(tl.buf, tl.endFlags, mode, off, e)
      BY <2>5
    <3> QED BY ONLY <3>1, <3>2, <3>3, e \in Seq(S), FitsRestores
  <2>7. off < Len(tl.buf)
    <3>1. off \in Nat /\ off + Len(e) <= Len(buf) /\ Len(e) > 0
      BY <2>2, <2>3 DEF Fits
    <3>2. Len(e) \in Nat /\ Len(buf) \in Nat
      BY LenProperties
    <3> QED BY ONLY <1>10, <3>1, <3>2
  <2> QED BY <2>2, <2>6, <2>7
<1>13. tl.buf # <<>> <=> Len(entries) # 0
  <2>1. 1 <= Len(entries) <=> Len(buf) > 0
    BY <1>8, <1>9
  <2>2. Len(buf) > 0 <=> buf # <<>>
    BY EmptySeq, LenProperties
  <2>3. 1 <= Len(entries) <=> Len(entries) # 0
    BY <1>1
  <2> QED BY <1>10, <2>1, <2>2, <2>3
<1>14. TailMode(tl) = "binary" <=> Len(entries) # 0 /\ mode = "binary"
  <2>1. TailMode(tl) = "binary" <=> flags # <<>>
    BY <1>10 DEF TailMode
  <2>2. FlagsFit(buf, flags, mode)
    BY <1>8, <1>9
  <2>3. CASE mode = "text"
    BY <2>1, <2>2, <2>3 DEF FlagsFit
  <2>4. CASE mode = "binary"
    <3>1. Len(flags) = Len(buf)
      BY <2>2, <2>4 DEF FlagsFit
    <3>2. flags # <<>> <=> buf # <<>>
      <4>1. Len(buf) = 0 <=> buf = <<>>
        BY EmptySeq, LenProperties
      <4>2. Len(flags) = 0 <=> flags = <<>>
        BY EmptySeq, LenProperties
      <4> QED BY <3>1, <4>1, <4>2
    <3> QED BY <1>10, <1>13, <2>1, <2>4, <3>2
  <2> QED BY <1>3, <2>3, <2>4
<1> QED BY <1>3, <1>8, <1>9, <1>10, <1>11, <1>12, <1>13, <1>14 DEF TailHolds

---------------------------------------------------------------------------
(* All the levels.                                                         *)

InLevel == pc \in {"begin", "take", "push", "built"}

\* The strings of the links of level id, as level id + 1 stores them, and as
\* the tail does.
Reversed(id, ks) ==
  [i \in DOMAIN ks |->
     [ks[i] EXCEPT !.str = IF id = 1 THEN Reverse(ks[i].str) ELSE ks[i].str]]

EntriesOf(id, ks) ==
  [i \in DOMAIN ks |-> IF id = 1 THEN ks[i].str ELSE Reverse(ks[i].str)]

\* b[l] are the strings of the links of level l.
InputOf(b, l) == IF l = 1 THEN keyset ELSE Reversed(l - 1, b[l - 1])

IsTrie(t) ==
  t = [louds |-> t.louds, bases |-> t.bases, linkFlags |-> t.linkFlags, extras |-> t.extras,
       cache |-> t.cache, numL1Nodes |-> t.numL1Nodes, terminals |-> t.terminals,
       config |-> t.config]

\* A level holds its keys, and there is a next one only for strings.
StackHolds(b) ==
  /\ b \in [1 .. Len(tries) -> NewKeys]
  /\ \A l \in 1 .. Len(tries) :
       /\ IsTrie(tries[l]) /\ tries[l].extras \in Seq(Nat)
       /\ LevelHolds(tries[l], InputOf(b, l), b[l])
       /\ l # Len(tries) => Len(b[l]) > 0

LevelAtHand == IInv /\ PathIInv /\ CacheIInv /\ LevelIInv

\* On the way down: one more level is at hand.
Descends(b) ==
  /\ trieId = Len(tries) + 1 /\ trieId <= config.numTries
  /\ LevelAtHand /\ input = InputOf(b, trieId)
  /\ pc = "built" =>
       /\ LevelHolds(CurrentTrie, input, nextKeys) /\ CacheHolds(CurrentTrie)
       /\ keys = MakeKeys(nextKeys)
  /\ nextTerminals = <<>> /\ tail = EmptyTail /\ terminalFlags = <<>> /\ ids = <<>>
  /\ \A l \in 1 .. Len(tries) : CacheHolds(tries[l]) /\ Len(b[l]) > 0

\* Where the strings of the links of level l are.
PlacesOf(offs, l) == IF l = Len(tries) THEN offs ELSE tries[l + 1].terminals

CacheFilled(t) ==
  \A slot \in DOMAIN t.cache :
    LET entry == t.cache[slot] IN
    entry.child # Unused =>
      /\ entry.child \in NodesIn(t) /\ entry.parent = ParentIn(t, entry.child)
      /\ entry.base = At(t.bases, entry.child)
      /\ entry.extra = IF ~At(t.linkFlags, entry.child) THEN InvalidExtra
                       ELSE At(t.extras, Rank1(t.linkFlags, entry.child))

LinkIn(t, n) == At(t.bases, n) + At(t.extras, Rank1(t.linkFlags, n)) * LabelSize

LevelLinked(t, places) ==
  /\ Len(t.extras) = Len(places)
  /\ \A n \in NodesIn(t) : At(t.linkFlags, n) => LinkIn(t, n) = At(places, Rank1(t.linkFlags, n))
  /\ CacheFilled(t)

ConfigOf(l) ==
  [numTries |-> Len(tries) - l + 1, tailMode |-> TailMode(tail), nodeOrder |-> config.nodeOrder]

TerminalFlagsOf(t) ==
  [i \in 1 .. Len(t.bases) + 1 |-> \E k \in DOMAIN t.terminals : t.terminals[k] = i - 1]

\* On the way back: the levels after trieId are linked.
Ascends(b, offs) ==
  /\ Len(tries) > 0 /\ trieId \in 0 .. Len(tries) /\ (trieId = 0 <=> pc # "link")
  /\ TailHolds(tail, EntriesOf(Len(tries), b[Len(tries)]), offs)
  /\ tail.buf \in Strings
  /\ tail.buf # <<>> <=> Len(b[Len(tries)]) > 0
  /\ TailMode(tail) = "binary" <=>
       /\ Len(b[Len(tries)]) > 0
       /\ config.tailMode = "binary" \/
          \E k \in 1 .. Len(b[Len(tries)]) :
            NUL \in Range(EntriesOf(Len(tries), b[Len(tries)])[k])
  /\ nextTerminals = PlacesOf(offs, trieId)
  /\ \A l \in 1 .. trieId : CacheHolds(tries[l])
  /\ \A l \in trieId + 1 .. Len(tries) :
       LevelLinked(tries[l], PlacesOf(offs, l)) /\ tries[l].config = ConfigOf(l)
  /\ IF pc = "done"
     THEN /\ terminalFlags = TerminalFlagsOf(tries[1])
          /\ ids = [k \in DOMAIN tries[1].terminals |->
                      IdOfTerminal(terminalFlags, tries[1].terminals[k])]
     ELSE terminalFlags = <<>> /\ ids = <<>>

BuildIInv ==
  /\ pc \in {"begin", "take", "push", "built", "link", "number", "done"}
  /\ keyset \in NewKeys /\ config.cacheLevel \in Nat \ {0}
  /\ config.numTries \in Nat \ {0} /\ config.tailMode \in {"text", "binary"}
  /\ tries \in Seq(Range(tries)) /\ Len(tries) <= config.numTries
  /\ \E b : /\ StackHolds(b)
            /\ InLevel => Descends(b)
            /\ ~InLevel => \E offs : Ascends(b, offs)

\* A level starts with nothing to be wrong.
LEMMA StartHolds ==
  ASSUME NEW id \in Nat \ {0}, NEW new \in NewKeys, config.cacheLevel \in Nat \ {0},
         config' = config, StartLevel(id, new)
  PROVE  LevelAtHand'
<1> USE DEF StartLevel
<1>1. trieId' \in Nat \ {0} /\ input' \in NewKeys /\ keys' = MakeKeys(input')
  OBVIOUS
<1>2. TypeOK'
  BY <1>1, MakeKeysFacts DEF TypeOK
<1>3. StepShape'
  BY <1>1 DEF StepShape
<1>4. IInv'
  BY <1>2, <1>3 DEF IInv, Building, TerminalsIdentifyKeys
<1>5. PathIInv' /\ CacheIInv' /\ LevelIInv'
  BY DEF PathIInv, CacheIInv, LevelIInv, Building
<1> QED BY <1>4, <1>5 DEF LevelAtHand

\* The keys passed to the next level: those of the first level's links are reversed.
LEMMA ReversedFacts ==
  ASSUME NEW id, NEW ks \in NewKeys
  PROVE  /\ Reversed(id, ks) \in NewKeys /\ Len(Reversed(id, ks)) = Len(ks) /\ Len(ks) \in Nat
         /\ \A i \in 1 .. Len(ks) :
              /\ ks[i].str \in Strings
              /\ Reversed(id, ks)[i].str =
                   IF id = 1 THEN Reverse(ks[i].str) ELSE ks[i].str
<1>1. /\ Len(ks) \in Nat /\ DOMAIN ks = 1 .. Len(ks)
      /\ \A i \in 1 .. Len(ks) : ks[i] \in [str : Strings, weight : Nat]
  BY LenProperties, ElementOfSeq DEF NewKeys
<1> DEFINE S(i) == IF id = 1 THEN Reverse(ks[i].str) ELSE ks[i].str
<1>2. \A i \in 1 .. Len(ks) : ks[i].str \in Strings /\ ks[i].weight \in Nat
  BY <1>1
<1>3. \A i \in 1 .. Len(ks) : S(i) \in Strings
  BY <1>2, ReverseTyped DEF Strings
<1>4. ASSUME NEW i \in 1 .. Len(ks)
      PROVE  /\ [ks[i] EXCEPT !.str = S(i)] = [str |-> S(i), weight |-> ks[i].weight]
             /\ [ks[i] EXCEPT !.str = S(i)] \in [str : Strings, weight : Nat]
  <2>1. PICK key \in [str : Strings, weight : Nat] : key = ks[i]
    BY <1>1
  <2>2. PICK s \in Strings : s = S(i)
    BY <1>3
  <2>3. [key EXCEPT !.str = s] = [str |-> s, weight |-> key.weight]
    BY ONLY key \in [str : Strings, weight : Nat]
  <2>4. [str |-> s, weight |-> key.weight] \in [str : Strings, weight : Nat]
    OBVIOUS
  <2> HIDE DEF S
  <2> QED BY <2>1, <2>2, <2>3, <2>4
<1>5. PICK r : r = Reversed(id, ks)
  OBVIOUS
<1>6. r = [i \in 1 .. Len(ks) |-> [ks[i] EXCEPT !.str = S(i)]]
  BY <1>1, <1>5 DEF Reversed
<1>7. r \in [1 .. Len(ks) -> [str : Strings, weight : Nat]]
      /\ \A i \in 1 .. Len(ks) : r[i].str = S(i)
  <2> HIDE DEF S
  <2> QED BY <1>4, <1>6
<1>8. r \in NewKeys
  BY <1>1, <1>7, SeqDef DEF NewKeys
<1>9. Len(r) = Len(ks)
  <2>1. DOMAIN r = 1 .. Len(ks) /\ DOMAIN r = 1 .. Len(r) /\ Len(r) \in Nat
    BY <1>7, <1>8, LenProperties DEF NewKeys
  <2> QED BY <1>1, <2>1
<1> QED BY <1>1, <1>2, <1>5, <1>7, <1>8, <1>9

\* The entries of the tail: those of a later level's links are reversed back.
LEMMA EntriesFacts ==
  ASSUME NEW id, NEW ks \in NewKeys
  PROVE  /\ EntriesOf(id, ks) \in Seq(Strings) /\ Len(EntriesOf(id, ks)) = Len(ks)
         /\ \A i \in 1 .. Len(ks) :
              EntriesOf(id, ks)[i] = IF id = 1 THEN ks[i].str ELSE Reverse(ks[i].str)
<1>1. /\ Len(ks) \in Nat /\ DOMAIN ks = 1 .. Len(ks)
      /\ \A i \in 1 .. Len(ks) : ks[i] \in [str : Strings, weight : Nat]
  BY LenProperties, ElementOfSeq DEF NewKeys
<1> DEFINE S(i) == IF id = 1 THEN ks[i].str ELSE Reverse(ks[i].str)
<1>2. \A i \in 1 .. Len(ks) : S(i) \in Strings
  BY <1>1, ReverseTyped DEF Strings
<1>3. PICK r : r = EntriesOf(id, ks)
  OBVIOUS
<1>4. r = [i \in 1 .. Len(ks) |-> S(i)]
  BY <1>1, <1>3 DEF EntriesOf
<1>5. r \in [1 .. Len(ks) -> Strings] /\ \A i \in 1 .. Len(ks) : r[i] = S(i)
  <2> HIDE DEF S
  <2> QED BY <1>2, <1>4
<1>6. r \in Seq(Strings)
  BY <1>1, <1>5, SeqDef
<1>7. Len(r) = Len(ks)
  <2>1. DOMAIN r = 1 .. Len(ks) /\ DOMAIN r = 1 .. Len(r) /\ Len(r) \in Nat
    BY <1>5, <1>6, LenProperties
  <2> QED BY <1>1, <2>1
<1> QED BY <1>3, <1>5, <1>6, <1>7

\* Before anything is built.
LEMMA InitHolds == InitBuild => BuildIInv
<1> SUFFICES ASSUME InitBuild PROVE BuildIInv
  OBVIOUS
<1>1. PICK in \in Inputs :
        trieId = in.trieId /\ config = in.config /\ input = in.keys
  BY DEF InitBuild, Init
<1>2. /\ pc = "begin" /\ keyset = input /\ tries = <<>> /\ nextTerminals = <<>>
      /\ tail = EmptyTail /\ terminalFlags = <<>> /\ ids = <<>> /\ Init
  BY DEF InitBuild, Init
<1>3. /\ trieId = 1 /\ keyset \in NewKeys /\ config.cacheLevel \in Nat \ {0}
      /\ config.numTries \in Nat \ {0} /\ config.tailMode \in {"text", "binary"}
  BY <1>1, <1>2, InputsAssumption, BuildInputsAssumption
<1>4. LevelAtHand
  <2>1. LevelIInv
    BY DEF InitBuild, Init, LevelIInv, Building
  <2> QED BY <1>2, <2>1, InitKeeps, InitPaths, InitCache DEF LevelAtHand
<1>5. Len(tries) = 0 /\ tries \in Seq(Range(tries)) /\ 1 .. Len(tries) = {}
  BY <1>2
<1>6. PICK b : b = [l \in 1 .. Len(tries) |-> <<>>]
  OBVIOUS
<1>7. StackHolds(b)
  BY <1>5, <1>6 DEF StackHolds
<1>8. input = InputOf(b, trieId)
  BY <1>2, <1>3 DEF InputOf
<1>9. Descends(b)
  BY <1>2, <1>3, <1>4, <1>5, <1>8 DEF Descends
<1> QED BY <1>2, <1>3, <1>5, <1>7, <1>9 DEF BuildIInv, InLevel

---------------------------------------------------------------------------
(* Every step of the builder keeps its invariant.                          *)

\* A level that is built joins the others.
LEMMA PushedStack ==
  ASSUME NEW b, StackHolds(b), Descends(b), pc = "built", tries \in Seq(Range(tries)),
         tries' = Append(tries, CurrentTrie), keyset' = keyset,
         NEW b2, b2 = [l \in 1 .. Len(tries) + 1 |-> IF l = Len(tries) + 1 THEN nextKeys ELSE b[l]]
  PROVE  /\ tries' \in Seq(Range(tries')) /\ Len(tries) \in Nat /\ Len(tries') = Len(tries) + 1
         /\ StackHolds(b2)' /\ nextKeys \in NewKeys
         /\ b2[Len(tries) + 1] = nextKeys /\ \A l \in 1 .. Len(tries) : b2[l] = b[l]
         /\ tries'[Len(tries) + 1] = CurrentTrie
         /\ \A l \in 1 .. Len(tries) + 1 : CacheHolds(tries'[l])
<1>1. PICK cur, n : cur = CurrentTrie /\ n = Len(tries) + 1
  OBVIOUS
<1>2. /\ n \in Nat \ {0} /\ Len(tries) = n - 1 /\ tries' = Append(tries, cur)
      /\ \A l \in 1 .. n : l = n \/ l \in 1 .. n - 1
      /\ \A l \in 1 .. n - 1 : l \in 1 .. n /\ l # n
      /\ 1 .. n = 1 .. n - 1 \cup {n}
  <2>1. Len(tries) \in Nat
    BY LenProperties
  <2> QED BY <1>1, <2>1
<1>3. /\ tries' \in Seq(Range(tries')) /\ Len(tries') = n /\ tries'[n] = cur
      /\ \A l \in 1 .. n - 1 : tries'[l] = tries[l]
  <2> DEFINE T == Range(tries) \cup {cur}
  <2>1. tries \in Seq(T) /\ cur \in T
    <3>1. Range(tries) \subseteq T /\ cur \in T
      OBVIOUS
    <3> HIDE DEF T
    <3> QED BY <3>1, SeqMonotonic
  <2> HIDE DEF T
  <2>2. /\ Append(tries, cur) \in Seq(T) /\ Len(Append(tries, cur)) = Len(tries) + 1
        /\ \A i \in 1 .. Len(tries) : Append(tries, cur)[i] = tries[i]
        /\ Append(tries, cur)[Len(tries) + 1] = cur
    BY <2>1, AppendProperties
  <2>3. tries' \in Seq(Range(tries'))
    BY <1>2, <2>2, SeqOfRange
  <2> QED BY <1>1, <1>2, <2>2, <2>3
<1>4. /\ LevelHolds(cur, input, nextKeys) /\ CacheHolds(cur) /\ input = InputOf(b, n)
      /\ \A l \in 1 .. n - 1 : CacheHolds(tries[l]) /\ Len(b[l]) > 0
  BY <1>1, <1>2 DEF Descends
<1>5. nextKeys \in NewKeys
  BY <1>4 DEF LevelHolds, LinksHold
<1>6. /\ b \in [1 .. n - 1 -> NewKeys]
      /\ \A l \in 1 .. n - 1 :
           /\ IsTrie(tries[l]) /\ tries[l].extras \in Seq(Nat)
           /\ LevelHolds(tries[l], InputOf(b, l), b[l])
  BY <1>2 DEF StackHolds
<1>7. b2 \in [1 .. n -> NewKeys] /\ b2[n] = nextKeys /\ \A l \in 1 .. n - 1 : b2[l] = b[l]
  <2>1. b2 = [l \in 1 .. n |-> IF l = n THEN nextKeys ELSE b[l]]
    BY <1>1
  <2>2. \A l \in 1 .. n : (IF l = n THEN nextKeys ELSE b[l]) \in NewKeys
    BY <1>2, <1>5, <1>6
  <2>3. n \in 1 .. n /\ \A l \in 1 .. n - 1 : l \in 1 .. n /\ l # n
    BY <1>2
  <2> QED BY <2>1, <2>2, <2>3
<1>8. \A l \in 1 .. n : InputOf(b2, l)' = InputOf(b, l)
  <2> TAKE l \in 1 .. n
  <2>1. CASE l = 1
    BY <2>1 DEF InputOf
  <2>2. CASE l # 1
    <3>1. l - 1 \in 1 .. n - 1
      BY <1>2, <2>2
    <3>2. b2[l - 1] = b[l - 1]
      BY <1>7, <3>1
    <3> QED BY <2>2, <3>2 DEF InputOf
  <2> QED BY <2>1, <2>2
<1>9. IsTrie(cur) /\ cur.extras \in Seq(Nat)
  <2>1. cur = CurrentTrie
    BY <1>1
  <2> QED BY <2>1 DEF CurrentTrie, IsTrie
<1>10. ASSUME NEW l \in 1 .. n
       PROVE  /\ IsTrie(tries'[l]) /\ tries'[l].extras \in Seq(Nat)
              /\ LevelHolds(tries'[l], InputOf(b, l), b2[l])
              /\ l # n => Len(b2[l]) > 0
              /\ CacheHolds(tries'[l])
  <2>1. CASE l = n
    BY <1>3, <1>4, <1>7, <1>9, <2>1
  <2>2. CASE l \in 1 .. n - 1
    BY <1>3, <1>4, <1>6, <1>7, <2>2
  <2> QED BY <1>2, <2>1, <2>2
<1>11. StackHolds(b2)'
  BY <1>3, <1>7, <1>8, <1>10 DEF StackHolds
<1>12. Len(tries) \in Nat /\ Len(tries) + 1 = n /\ n - 1 = Len(tries)
  BY <1>1, <1>2
<1>13. Len(tries') = Len(tries) + 1 /\ tries'[Len(tries) + 1] = CurrentTrie
  BY <1>1, <1>3, <1>12
<1>14. b2[Len(tries) + 1] = nextKeys /\ \A l \in 1 .. Len(tries) : b2[l] = b[l]
  BY <1>7, <1>12
<1>15. \A l \in 1 .. Len(tries) + 1 : CacheHolds(tries'[l])
  BY <1>10, <1>12
<1> QED BY <1>3, <1>5, <1>11, <1>12, <1>13, <1>14, <1>15

\* What a level's links hold, for the level below or the tail.
LEMMA BuildLevelHolds ==
  ASSUME BuildIInv, BuildLevel
  PROVE  BuildIInv'
<1>1. PICK b : StackHolds(b) /\ (InLevel => Descends(b))
  BY DEF BuildIInv
<1>2. /\ NextCurrent
      /\ keyset' = keyset /\ tries' = tries /\ nextTerminals' = nextTerminals /\ tail' = tail
      /\ terminalFlags' = terminalFlags /\ ids' = ids
  BY DEF BuildLevel
<1>3. /\ pc \in {"begin", "take", "push"} /\ pc' \in {"begin", "take", "push", "built"}
      /\ config' = config /\ trieId' = trieId /\ input' = input
      /\ pc' = "built" => Finish
  BY <1>2 DEF NextCurrent, Begin, TakeRange, PushChild, CloseNode, Finish
<1>4. Descends(b)
  BY <1>1, <1>3 DEF InLevel
<1>5. LevelAtHand'
  <2>1. IInv /\ PathIInv /\ CacheIInv /\ LevelIInv
    BY <1>4 DEF Descends, LevelAtHand
  <2>2. [Next]_currentVars
    BY <1>2 DEF Next
  <2> QED BY <2>1, <2>2, StepKeeps, StepPaths, StepCache, StepLevel DEF LevelAtHand
<1>6. StackHolds(b)'
  BY <1>1, <1>2 DEF StackHolds, InputOf
<1>7. pc' = "built" =>
        /\ LevelHolds(CurrentTrie', input', nextKeys') /\ CacheHolds(CurrentTrie')
        /\ keys' = MakeKeys(nextKeys')
  <2> SUFFICES ASSUME Finish
               PROVE  /\ LevelHolds(CurrentTrie', input', nextKeys') /\ CacheHolds(CurrentTrie')
                      /\ keys' = MakeKeys(nextKeys')
    BY <1>3
  <2>1. IInv /\ PathIInv /\ CacheIInv /\ LevelIInv
    BY <1>4 DEF Descends, LevelAtHand
  <2>2. keys' = MakeKeys(nextKeys')
    BY DEF Finish
  <2> QED BY <2>1, <2>2, FinishHolds, FinishCache
<1>8. Descends(b)'
  <2>1. /\ trieId' = Len(tries') + 1 /\ trieId' <= config'.numTries
        /\ input' = InputOf(b, trieId)'
        /\ nextTerminals' = <<>> /\ tail' = EmptyTail /\ terminalFlags' = <<>> /\ ids' = <<>>
        /\ \A l \in 1 .. Len(tries') : CacheHolds(tries'[l]) /\ Len(b[l]) > 0
    BY <1>2, <1>3, <1>4 DEF Descends, InputOf
  <2> QED BY <1>5, <1>7, <2>1 DEF Descends
<1>9. /\ keyset' \in NewKeys /\ config'.cacheLevel \in Nat \ {0}
      /\ config'.numTries \in Nat \ {0} /\ config'.tailMode \in {"text", "binary"}
      /\ tries' \in Seq(Range(tries')) /\ Len(tries') <= config'.numTries
  BY <1>2, <1>3 DEF BuildIInv
<1>10. InLevel' /\ pc' \in {"begin", "take", "push", "built", "link", "number", "done"}
  BY <1>3 DEF InLevel
<1> QED BY <1>6, <1>8, <1>9, <1>10 DEF BuildIInv

\* Descending to the next level preserves the invariant.
LEMMA BuildNextTrieHolds ==
  ASSUME BuildIInv, BuildNextTrie
  PROVE  BuildIInv'
<1>1. /\ pc = "built" /\ keys # <<>> /\ trieId # config.numTries
      /\ tries' = Append(tries, CurrentTrie) /\ StartLevel(trieId + 1, StringsBelow(trieId))
      /\ config' = config /\ keyset' = keyset /\ nextTerminals' = nextTerminals /\ tail' = tail
      /\ terminalFlags' = terminalFlags /\ ids' = ids
  BY DEF BuildNextTrie
<1>2. PICK b : StackHolds(b) /\ Descends(b)
  BY <1>1 DEF BuildIInv, InLevel
<1>3. /\ keyset \in NewKeys /\ config.cacheLevel \in Nat \ {0}
      /\ config.numTries \in Nat \ {0} /\ config.tailMode \in {"text", "binary"}
      /\ tries \in Seq(Range(tries)) /\ Len(tries) <= config.numTries
  BY DEF BuildIInv
<1>4. PICK b2 : b2 = [l \in 1 .. Len(tries) + 1 |-> IF l = Len(tries) + 1 THEN nextKeys ELSE b[l]]
  OBVIOUS
<1>5. /\ tries' \in Seq(Range(tries')) /\ Len(tries) \in Nat /\ Len(tries') = Len(tries) + 1
      /\ StackHolds(b2)' /\ nextKeys \in NewKeys
      /\ b2[Len(tries) + 1] = nextKeys /\ \A l \in 1 .. Len(tries) : b2[l] = b[l]
      /\ \A l \in 1 .. Len(tries) + 1 : CacheHolds(tries'[l])
  BY <1>1, <1>2, <1>3, <1>4, PushedStack
<1>6. /\ trieId = Len(tries) + 1 /\ trieId <= config.numTries /\ keys = MakeKeys(nextKeys)
      /\ nextTerminals = <<>> /\ tail = EmptyTail /\ terminalFlags = <<>> /\ ids = <<>>
      /\ \A l \in 1 .. Len(tries) : Len(b[l]) > 0
  BY <1>1, <1>2 DEF Descends
<1>7. /\ trieId \in Nat \ {0} /\ trieId + 1 \in Nat \ {0} /\ trieId + 1 <= config.numTries
      /\ trieId' = trieId + 1 /\ trieId' = Len(tries') + 1 /\ Len(tries') = trieId
      /\ Len(tries') <= config.numTries
  BY <1>1, <1>3, <1>5, <1>6 DEF StartLevel
<1>8. StringsBelow(trieId) = Reversed(trieId, nextKeys) /\ StringsBelow(trieId) \in NewKeys
  <2>1. StringsBelow(trieId) = Reversed(trieId, nextKeys)
    BY DEF StringsBelow, Reversed
  <2> QED BY <1>5, <2>1, ReversedFacts
<1>9. LevelAtHand'
  BY <1>1, <1>3, <1>7, <1>8, StartHolds
<1>10. pc' = "begin" /\ input' = Reversed(trieId, nextKeys)
  BY <1>1, <1>8 DEF StartLevel
<1>11. input' = InputOf(b2, trieId)'
  <2>1. trieId + 1 # 1 /\ (trieId + 1) - 1 = trieId
    BY <1>7
  <2>2. b2[trieId] = nextKeys
    BY <1>5, <1>6
  <2> QED BY <1>7, <1>10, <2>1, <2>2 DEF InputOf
<1>12. Len(nextKeys) > 0
  <2>1. Len(nextKeys) \in Nat /\ Len(MakeKeys(nextKeys)) = Len(nextKeys) /\ MakeKeys(nextKeys) \in Seq(KeyType)
    BY <1>5, MakeKeysFacts
  <2>2. Len(keys) # 0
    BY <1>1, <1>6, <2>1, EmptySeq
  <2> QED BY <1>6, <2>1, <2>2
<1>13. \A l \in 1 .. Len(tries) + 1 : Len(b2[l]) > 0
  <2> TAKE l \in 1 .. Len(tries) + 1
  <2>1. l = Len(tries) + 1 \/ l \in 1 .. Len(tries)
    BY <1>5
  <2> QED BY <1>5, <1>6, <1>12, <2>1
<1>14. Descends(b2)'
  BY <1>1, <1>5, <1>6, <1>7, <1>9, <1>10, <1>11, <1>13 DEF Descends
<1>15. InLevel' /\ pc' \in {"begin", "take", "push", "built", "link", "number", "done"}
  BY <1>10 DEF InLevel
<1> QED BY <1>1, <1>3, <1>5, <1>7, <1>14, <1>15 DEF BuildIInv

\* A level that is built has as many strings to pass on as keys to build from.
LEMMA BuiltKeys ==
  ASSUME nextKeys \in NewKeys, keys = MakeKeys(nextKeys)
  PROVE  Len(nextKeys) \in Nat /\ (keys = <<>> <=> Len(nextKeys) = 0)
<1>1. Len(nextKeys) \in Nat /\ Len(MakeKeys(nextKeys)) = Len(nextKeys)
      /\ MakeKeys(nextKeys) \in Seq(KeyType)
  BY MakeKeysFacts
<1> QED BY <1>1, EmptySeq

\* The strings a level passes to the tail are not empty.
LEMMA TailEntriesHold ==
  ASSUME NEW id, NEW ks \in NewKeys, \A k \in 1 .. Len(ks) : Len(ks[k].str) > 0
  PROVE  \A k \in 1 .. Len(EntriesOf(id, ks)) : Len(EntriesOf(id, ks)[k]) > 0
<1>1. /\ Len(EntriesOf(id, ks)) = Len(ks)
      /\ \A i \in 1 .. Len(ks) :
           EntriesOf(id, ks)[i] = IF id = 1 THEN ks[i].str ELSE Reverse(ks[i].str)
  BY EntriesFacts
<1>2. \A i \in 1 .. Len(ks) : ks[i].str \in Seq(Labels)
  BY ReversedFacts DEF Strings
<1>3. \A i \in 1 .. Len(ks) : Len(Reverse(ks[i].str)) = Len(ks[i].str)
  BY <1>2, ReverseTyped
<1> QED BY <1>1, <1>3

\* The strings that are left when no level is go to the tail.
LEMMA BuildTailHolds ==
  ASSUME BuildIInv, BuildTail
  PROVE  BuildIInv'
<1>1. /\ pc = "built" /\ keys # <<>> /\ trieId = config.numTries
      /\ tries' = Append(tries, CurrentTrie) /\ pc' = "link"
      /\ config' = config /\ keyset' = keyset /\ trieId' = trieId
      /\ terminalFlags' = terminalFlags /\ ids' = ids
  BY DEF BuildTail, levelVars
<1>2. PICK b : StackHolds(b) /\ Descends(b)
  BY <1>1 DEF BuildIInv, InLevel
<1>3. /\ keyset \in NewKeys /\ config.cacheLevel \in Nat \ {0}
      /\ config.numTries \in Nat \ {0} /\ config.tailMode \in {"text", "binary"}
      /\ tries \in Seq(Range(tries)) /\ Len(tries) <= config.numTries
  BY DEF BuildIInv
<1>4. PICK b2 : b2 = [l \in 1 .. Len(tries) + 1 |-> IF l = Len(tries) + 1 THEN nextKeys ELSE b[l]]
  OBVIOUS
<1>5. /\ tries' \in Seq(Range(tries')) /\ Len(tries) \in Nat /\ Len(tries') = Len(tries) + 1
      /\ StackHolds(b2)' /\ nextKeys \in NewKeys
      /\ b2[Len(tries) + 1] = nextKeys
      /\ \A l \in 1 .. Len(tries) + 1 : CacheHolds(tries'[l])
  BY <1>1, <1>2, <1>3, <1>4, PushedStack
<1>6. /\ trieId = Len(tries) + 1 /\ trieId <= config.numTries /\ keys = MakeKeys(nextKeys)
      /\ terminalFlags = <<>> /\ ids = <<>>
      /\ LevelHolds(CurrentTrie, input, nextKeys)
  BY <1>1, <1>2 DEF Descends
<1>7. Len(nextKeys) \in Nat /\ Len(nextKeys) > 0
  BY <1>1, <1>5, <1>6, BuiltKeys
<1>8. PICK entries : entries = EntriesOf(trieId, nextKeys)
  OBVIOUS
<1>9. PICK built, tl :
        /\ built = TailBuild(entries, config.tailMode)
        /\ tl = [buf |-> built.buf, endFlags |-> built.endFlags]
        /\ tail' = tl /\ nextTerminals' = built.offsets
  <2>1. TailEntries(trieId) = entries
    BY <1>8 DEF TailEntries, EntriesOf
  <2> QED BY <2>1 DEF BuildTail
<1>10. entries \in Seq(Strings) /\ Len(entries) = Len(nextKeys)
  BY <1>5, <1>8, EntriesFacts
<1>11. \A k \in 1 .. Len(entries) : Len(entries[k]) > 0
  <2>1. \A k \in 1 .. Len(nextKeys) : Len(nextKeys[k].str) > 0
    BY <1>6 DEF LevelHolds, LinksHold
  <2> QED BY <1>5, <1>8, <2>1, TailEntriesHold
<1>12. Labels \in SUBSET Nat /\ NUL \in Labels
  BY LabelSizeAssumption DEF Labels, NUL
<1>13. /\ tl.buf \in Strings /\ TailHolds(tl, entries, built.offsets)
       /\ tl.buf # <<>>
       /\ TailMode(tl) = "binary" <=>
            config.tailMode = "binary" \/ \E k \in 1 .. Len(entries) : NUL \in Range(entries[k])
  <2> HIDE DEF Labels, TailHolds, TailMode, NUL
  <2>1. /\ tl.buf \in Seq(Labels) /\ TailHolds(tl, entries, built.offsets)
        /\ tl.buf # <<>> <=> Len(entries) # 0
        /\ TailMode(tl) = "binary" <=>
             /\ Len(entries) # 0
             /\ config.tailMode = "binary"
                \/ \E k \in 1 .. Len(entries) : NUL \in Range(entries[k])
    BY <1>3, <1>9, <1>10, <1>11, <1>12, TailBuilt DEF Strings
  <2>2. Len(entries) # 0
    BY <1>7, <1>10
  <2> QED BY <2>1, <2>2 DEF Strings
<1>14. PICK n : n = Len(tries')
  OBVIOUS
<1>15. /\ n \in Nat /\ n > 0 /\ trieId' = n /\ b2[n] = nextKeys /\ n = trieId
       /\ n \in 0 .. n /\ n + 1 .. n = {} /\ n <= config'.numTries /\ n # 0
  BY <1>1, <1>5, <1>6, <1>14
<1>16. Ascends(b2, built.offsets)'
  <2>1. /\ Len(tries') > 0 /\ trieId' \in 0 .. Len(tries') /\ (trieId' = 0 <=> pc' # "link")
    BY <1>1, <1>14, <1>15
  <2>2. EntriesOf(Len(tries), b2[Len(tries)])' = entries
    BY <1>8, <1>14, <1>15
  <2>3. TailHolds(tail', entries, built.offsets) /\ tail'.buf \in Strings
        /\ tail'.buf # <<>> /\ Len(b2[n]) > 0 /\ Len(b2[n]) = Len(entries)
    BY <1>7, <1>9, <1>10, <1>13, <1>15
  <2>4. TailMode(tail') = "binary" <=>
          config'.tailMode = "binary" \/ \E k \in 1 .. Len(entries) : NUL \in Range(entries[k])
    BY <1>1, <1>9, <1>13
  <2>5. nextTerminals' = PlacesOf(built.offsets, trieId)'
    BY <1>9, <1>14, <1>15 DEF PlacesOf
  <2>6. \A l \in 1 .. trieId' : CacheHolds(tries'[l])
    BY <1>5, <1>14, <1>15
  <2>7. pc' # "done" /\ terminalFlags' = <<>> /\ ids' = <<>>
    BY <1>1, <1>6
  <2>8. trieId' + 1 .. Len(tries') = {}
    BY <1>14, <1>15
  <2> QED BY <1>14, <2>1, <2>2, <2>3, <2>4, <2>5, <2>6, <2>7, <2>8 DEF Ascends
<1>17. ~InLevel' /\ pc' \in {"begin", "take", "push", "built", "link", "number", "done"}
  BY <1>1 DEF InLevel
<1> QED BY <1>1, <1>3, <1>5, <1>14, <1>15, <1>16, <1>17 DEF BuildIInv

\* Without links there is no tail.
LEMMA SkipNextTrieHolds ==
  ASSUME BuildIInv, SkipNextTrie
  PROVE  BuildIInv'
<1>1. /\ pc = "built" /\ keys = <<>> /\ nextTerminals' = <<>>
      /\ tries' = Append(tries, CurrentTrie) /\ pc' = "link"
      /\ config' = config /\ keyset' = keyset /\ trieId' = trieId /\ tail' = tail
      /\ terminalFlags' = terminalFlags /\ ids' = ids
  BY DEF SkipNextTrie, levelVars
<1>2. PICK b : StackHolds(b) /\ Descends(b)
  BY <1>1 DEF BuildIInv, InLevel
<1>3. /\ keyset \in NewKeys /\ config.cacheLevel \in Nat \ {0}
      /\ config.numTries \in Nat \ {0} /\ config.tailMode \in {"text", "binary"}
      /\ tries \in Seq(Range(tries)) /\ Len(tries) <= config.numTries
  BY DEF BuildIInv
<1>4. PICK b2 : b2 = [l \in 1 .. Len(tries) + 1 |-> IF l = Len(tries) + 1 THEN nextKeys ELSE b[l]]
  OBVIOUS
<1>5. /\ tries' \in Seq(Range(tries')) /\ Len(tries) \in Nat /\ Len(tries') = Len(tries) + 1
      /\ StackHolds(b2)' /\ nextKeys \in NewKeys
      /\ b2[Len(tries) + 1] = nextKeys
      /\ \A l \in 1 .. Len(tries) + 1 : CacheHolds(tries'[l])
  BY <1>1, <1>2, <1>3, <1>4, PushedStack
<1>6. /\ trieId = Len(tries) + 1 /\ trieId <= config.numTries /\ keys = MakeKeys(nextKeys)
      /\ terminalFlags = <<>> /\ ids = <<>> /\ tail = EmptyTail
  BY <1>1, <1>2 DEF Descends
<1>7. Len(nextKeys) = 0
  BY <1>1, <1>5, <1>6, BuiltKeys
<1>8. PICK entries, n : entries = EntriesOf(trieId, nextKeys) /\ n = Len(tries')
  OBVIOUS
<1>9. Len(entries) = 0
  BY <1>5, <1>7, <1>8, EntriesFacts
<1>10. tail.buf = <<>> /\ tail.endFlags = <<>>
  BY <1>6 DEF EmptyTail
<1>11. tail.buf \in Strings /\ TailMode(tail) = "text" /\ TailHolds(tail, entries, <<>>)
  BY <1>9, <1>10 DEF TailMode, TailHolds, Strings
<1>12. /\ n \in Nat /\ n > 0 /\ trieId' = n /\ b2[n] = nextKeys /\ n = trieId
       /\ n \in 0 .. n /\ n + 1 .. n = {} /\ n <= config'.numTries /\ n # 0
  BY <1>1, <1>5, <1>6, <1>8
<1>13. Ascends(b2, <<>>)'
  <2>1. /\ Len(tries') > 0 /\ trieId' \in 0 .. Len(tries') /\ (trieId' = 0 <=> pc' # "link")
    BY <1>1, <1>8, <1>12
  <2>2. EntriesOf(Len(tries), b2[Len(tries)])' = entries
    BY <1>8, <1>12
  <2>3. TailHolds(tail', entries, <<>>) /\ tail'.buf \in Strings
        /\ tail'.buf = <<>> /\ Len(b2[n]) = 0 /\ TailMode(tail') # "binary"
    BY <1>1, <1>7, <1>10, <1>11, <1>12
  <2>4. nextTerminals' = PlacesOf(<<>>, trieId)'
    BY <1>1, <1>8, <1>12 DEF PlacesOf
  <2>5. \A l \in 1 .. trieId' : CacheHolds(tries'[l])
    BY <1>5, <1>8, <1>12
  <2>6. pc' # "done" /\ terminalFlags' = <<>> /\ ids' = <<>>
    BY <1>1, <1>6
  <2>7. trieId' + 1 .. Len(tries') = {}
    BY <1>8, <1>12
  <2>8. ~(0 > 0)
    OBVIOUS
  <2> QED BY <1>8, <2>1, <2>2, <2>3, <2>4, <2>5, <2>6, <2>7, <2>8 DEF Ascends
<1>14. ~InLevel' /\ pc' \in {"begin", "take", "push", "built", "link", "number", "done"}
  BY <1>1 DEF InLevel
<1> QED BY <1>1, <1>3, <1>5, <1>8, <1>12, <1>13, <1>14 DEF BuildIInv

\* What linking a level writes, field by field.
LinkedTrie(t, cfg, bs, ex) ==
  [louds |-> t.louds, bases |-> bs, linkFlags |-> t.linkFlags, extras |-> ex,
   cache |-> t.cache, numL1Nodes |-> t.numL1Nodes, terminals |-> t.terminals, config |-> cfg]

\* As LinkLevel writes it: the cache comes last.
LinkedOnly(t, cfg, bs, ex) == [t EXCEPT !.config = cfg, !.bases = bs, !.extras = ex]

Relinked(t, cfg, bs, ex, ch) ==
  [[t EXCEPT !.config = cfg, !.bases = bs, !.extras = ex] EXCEPT !.cache = ch]

\* Linking a level changes its bases, its extras and its cache alone.
LEMMA LinkedFields ==
  ASSUME NEW t, IsTrie(t), NEW cfg, NEW bs, NEW ex, NEW x, NEW ch,
         x = Relinked(t, cfg, bs, ex, ch)
  PROVE  /\ LinkedOnly(t, cfg, bs, ex) = LinkedTrie(t, cfg, bs, ex)
         /\ x.louds = t.louds /\ x.bases = bs /\ x.linkFlags = t.linkFlags /\ x.extras = ex
         /\ x.cache = ch /\ x.numL1Nodes = t.numL1Nodes /\ x.terminals = t.terminals
         /\ x.config = cfg /\ IsTrie(x)
<1>1. PICK a1, a2, a3, a4, a5, a6, a7, a8 :
        /\ a1 = t.louds /\ a2 = t.bases /\ a3 = t.linkFlags /\ a4 = t.extras /\ a5 = t.cache
        /\ a6 = t.numL1Nodes /\ a7 = t.terminals /\ a8 = t.config
  OBVIOUS
<1>2. t = [louds |-> a1, bases |-> a2, linkFlags |-> a3, extras |-> a4, cache |-> a5,
           numL1Nodes |-> a6, terminals |-> a7, config |-> a8]
  BY <1>1 DEF IsTrie
<1>3. PICK u : u = [t EXCEPT !.config = cfg, !.bases = bs, !.extras = ex]
  OBVIOUS
<1>4. u = [louds |-> a1, bases |-> bs, linkFlags |-> a3, extras |-> ex, cache |-> a5,
           numL1Nodes |-> a6, terminals |-> a7, config |-> cfg]
  BY ONLY <1>2, <1>3
<1>5. x = [louds |-> a1, bases |-> bs, linkFlags |-> a3, extras |-> ex, cache |-> ch,
           numL1Nodes |-> a6, terminals |-> a7, config |-> cfg]
  <2>1. x = [u EXCEPT !.cache = ch]
    BY <1>3 DEF Relinked
  <2> QED BY ONLY <1>4, <2>1
<1>6. /\ x.louds = a1 /\ x.bases = bs /\ x.linkFlags = a3 /\ x.extras = ex
      /\ x.cache = ch /\ x.numL1Nodes = a6 /\ x.terminals = a7 /\ x.config = cfg
  BY ONLY <1>5
<1>7. IsTrie(x)
  BY <1>5, <1>6 DEF IsTrie
<1>8. u = LinkedTrie(t, cfg, bs, ex)
  BY <1>1, <1>4 DEF LinkedTrie
<1> QED BY <1>1, <1>3, <1>6, <1>7, <1>8 DEF LinkedOnly

\* A level holds the same keys once its link nodes have bases.
LEMMA SameLevel ==
  ASSUME NEW t, NEW x, NEW in, NEW below, LevelHolds(t, in, below),
         x.louds = t.louds, x.linkFlags = t.linkFlags, x.numL1Nodes = t.numL1Nodes,
         x.terminals = t.terminals, x.bases \in Strings, Len(x.bases) = Len(t.bases),
         \A n \in NodesIn(t) : ~At(t.linkFlags, n) => At(x.bases, n) = At(t.bases, n)
  PROVE  LevelHolds(x, in, below)
<1>1. NodesIn(x) = NodesIn(t)
  BY DEF NodesIn
<1>2. \A n \in NodesIn(t) : /\ ParentIn(x, n) = ParentIn(t, n)
                            /\ LabelIn(x, below, n) = LabelIn(t, below, n)
  BY DEF ParentIn, LabelIn
<1>3. TreeHolds(x)
  <2>1. TreeHolds(t)
    BY DEF LevelHolds
  <2> QED BY <1>1, <1>2, <2>1 DEF TreeHolds
<1>4. TerminalsHold(x, in) /\ LinksHold(x, below)
  BY <1>1 DEF LevelHolds, TerminalsHold, LinksHold
<1>5. PICK g \in [NodesIn(t) -> Strings] : SpelledBy(t, in, below, g)
  BY DEF LevelHolds
<1>6. SpelledBy(x, in, below, g)
  <2>1. \A n \in NodesIn(x) :
          g[n] = IF n = 0 THEN <<>> ELSE g[ParentIn(x, n)] \o LabelIn(x, below, n)
    BY <1>1, <1>2, <1>5 DEF SpelledBy
  <2>2. \A k \in 1 .. Len(in) : g[x.terminals[k]] = in[k].str
    BY <1>5 DEF SpelledBy
  <2> QED BY <2>1, <2>2 DEF SpelledBy
<1> QED BY <1>1, <1>3, <1>4, <1>5, <1>6 DEF LevelHolds

\* The places of a level's strings, one per link.
LEMMA PlacesHold ==
  ASSUME NEW b, NEW offs, StackHolds(b), Ascends(b, offs), Len(tries) \in Nat,
         NEW l \in 1 .. Len(tries)
  PROVE  /\ PlacesOf(offs, l) \in Seq(Nat) /\ Len(PlacesOf(offs, l)) = Len(b[l])
         /\ Len(b[l]) = NumOnes(tries[l].linkFlags) /\ b[l] \in NewKeys
<1>1. /\ b[l] \in NewKeys /\ Len(b[l]) = NumOnes(tries[l].linkFlags)
  BY DEF StackHolds, LevelHolds, LinksHold
<1>2. CASE l = Len(tries)
  <2>1. offs \in Seq(Nat) /\ Len(offs) = Len(EntriesOf(l, b[l]))
    BY <1>2 DEF Ascends, TailHolds
  <2>2. Len(EntriesOf(l, b[l])) = Len(b[l])
    BY <1>1, EntriesFacts
  <2> QED BY <1>1, <1>2, <2>1, <2>2 DEF PlacesOf
<1>3. CASE l # Len(tries)
  <2>1. l + 1 \in 1 .. Len(tries) /\ l + 1 # 1 /\ (l + 1) - 1 = l
    BY <1>3
  <2>2. /\ tries[l + 1].terminals \in Seq(Nat)
        /\ Len(tries[l + 1].terminals) = Len(InputOf(b, l + 1))
    BY <2>1 DEF StackHolds, LevelHolds, TerminalsHold
  <2>3. InputOf(b, l + 1) = Reversed(l, b[l])
    BY <2>1 DEF InputOf
  <2>4. Len(Reversed(l, b[l])) = Len(b[l])
    BY <1>1, ReversedFacts
  <2> QED BY <1>1, <1>3, <2>2, <2>3, <2>4 DEF PlacesOf
<1> QED BY <1>2, <1>3

\* The bases and extras of a level's links are its strings' places.
LEMMA LinkedBasesHold ==
  ASSUME NEW t, TreeHolds(t), nextTerminals \in Seq(Nat),
         Len(nextTerminals) = NumOnes(t.linkFlags), NEW bs, bs = LinkedBases(t),
         NEW ex, ex = [i \in DOMAIN nextTerminals |-> LinkExtra(nextTerminals[i])]
  PROVE  /\ bs \in Strings /\ Len(bs) = Len(t.bases)
         /\ ex \in Seq(Nat) /\ Len(ex) = Len(nextTerminals)
         /\ \A n \in NodesIn(t) : ~At(t.linkFlags, n) => At(bs, n) = At(t.bases, n)
         /\ \A n \in NodesIn(t) : At(t.linkFlags, n) =>
              At(bs, n) + At(ex, Rank1(t.linkFlags, n)) * LabelSize
                = At(nextTerminals, Rank1(t.linkFlags, n))
<1>1. /\ t.linkFlags \in Seq(BOOLEAN) /\ t.bases \in Seq(Labels) /\ Len(t.bases) = Len(t.linkFlags)
      /\ Len(t.bases) \in Nat /\ DOMAIN t.bases = 1 .. Len(t.bases)
      /\ Len(nextTerminals) \in Nat /\ DOMAIN nextTerminals = 1 .. Len(nextTerminals)
      /\ \A i \in 1 .. Len(nextTerminals) : nextTerminals[i] \in Nat
      /\ \A i \in 1 .. Len(t.bases) : t.bases[i] \in Labels
  BY LenProperties, ElementOfSeq DEF TreeHolds, Strings
<1>0. /\ \A n \in Nat : \A f \in [1 .. n -> Labels] : f \in Seq(Labels)
      /\ \A n \in Nat : \A f \in [1 .. n -> Nat] : f \in Seq(Nat)
  BY SeqDef
<1>2. \A p \in Nat : /\ LinkBase(p) \in Labels /\ LinkExtra(p) \in Nat
                     /\ LinkBase(p) + LinkExtra(p) * LabelSize = p
  <2> TAKE p \in Nat
  <2>1. LabelSize \in Nat \ {0}
    BY LabelSizeAssumption
  <2>2. PICK d, m : d = p \div LabelSize /\ m = p % LabelSize
    OBVIOUS
  <2>3. d \in Nat /\ m \in 0 .. LabelSize - 1 /\ p = LabelSize * d + m
    BY ONLY p \in Nat, <2>1, <2>2, DivModNat
  <2>4. m + d * LabelSize = p
    BY ONLY <2>1, <2>3
  <2> QED BY <2>2, <2>3, <2>4 DEF LinkBase, LinkExtra, Labels
<1> DEFINE R(n) == Rank1(t.linkFlags, n)
<1>3. \A n \in NodesIn(t) : n \in Nat /\ n + 1 \in 1 .. Len(t.bases) /\ (n + 1) - 1 = n
  BY <1>1 DEF NodesIn
<1>4. \A n \in NodesIn(t) : At(t.linkFlags, n) => R(n) + 1 \in 1 .. Len(nextTerminals)
  BY <1>1, RankOfOne DEF NodesIn
<1>5. bs = [i \in 1 .. Len(t.bases) |->
              IF t.linkFlags[i] THEN LinkBase(nextTerminals[R(i - 1) + 1]) ELSE t.bases[i]]
  BY <1>1 DEF LinkedBases, At
<1> HIDE DEF R
<1>6. \A i \in 1 .. Len(t.bases) :
        (IF t.linkFlags[i] THEN LinkBase(nextTerminals[R(i - 1) + 1]) ELSE t.bases[i]) \in Labels
  <2> SUFFICES ASSUME NEW i \in 1 .. Len(t.bases), t.linkFlags[i]
               PROVE  LinkBase(nextTerminals[R(i - 1) + 1]) \in Labels
    BY <1>1
  <2>1. i - 1 \in NodesIn(t) /\ (i - 1) + 1 = i
    BY <1>1 DEF NodesIn
  <2>2. R(i - 1) + 1 \in 1 .. Len(nextTerminals)
    BY <1>4, <2>1 DEF At
  <2> QED BY <1>1, <1>2, <2>2
<1>7. /\ bs \in [1 .. Len(t.bases) -> Labels]
      /\ \A i \in 1 .. Len(t.bases) :
           bs[i] = IF t.linkFlags[i] THEN LinkBase(nextTerminals[R(i - 1) + 1]) ELSE t.bases[i]
  BY <1>5, <1>6
<1>8. bs \in Strings /\ Len(bs) = Len(t.bases)
  <2>1. bs \in Seq(Labels)
    BY <1>1, <1>7, <1>0
  <2>2. DOMAIN bs = 1 .. Len(t.bases) /\ DOMAIN bs = 1 .. Len(bs) /\ Len(bs) \in Nat
    BY <1>7, <2>1, LenProperties
  <2> QED BY <1>1, <2>1, <2>2 DEF Strings
<1>9. \A i \in 1 .. Len(nextTerminals) : ex[i] = LinkExtra(nextTerminals[i]) /\ ex[i] \in Nat
  BY <1>1, <1>2
<1>10. ex \in Seq(Nat) /\ Len(ex) = Len(nextTerminals)
  <2>1. ex \in [1 .. Len(nextTerminals) -> Nat]
    BY <1>1, <1>2
  <2>2. ex \in Seq(Nat)
    BY <1>0, <1>1, <2>1
  <2>3. DOMAIN ex = 1 .. Len(nextTerminals) /\ DOMAIN ex = 1 .. Len(ex) /\ Len(ex) \in Nat
    BY <2>1, <2>2, LenProperties
  <2> QED BY <1>1, <2>2, <2>3
<1>11. \A n \in NodesIn(t) : ~At(t.linkFlags, n) => At(bs, n) = At(t.bases, n)
  BY <1>3, <1>7 DEF At
<1>12. ASSUME NEW n \in NodesIn(t), At(t.linkFlags, n)
       PROVE  At(bs, n) + At(ex, R(n)) * LabelSize = At(nextTerminals, R(n))
  <2>1. R(n) + 1 \in 1 .. Len(nextTerminals)
    BY <1>4, <1>12
  <2>2. PICK p \in Nat : p = nextTerminals[R(n) + 1]
    BY <1>1, <2>1
  <2>3. bs[n + 1] = LinkBase(p) /\ ex[R(n) + 1] = LinkExtra(p)
    BY <1>3, <1>7, <1>9, <1>12, <2>1, <2>2 DEF At
  <2> QED BY <1>2, <2>2, <2>3 DEF At
<1> QED BY <1>8, <1>10, <1>11, <1>12 DEF R

\* The cache answers for the children it was filled with.
LEMMA FilledHolds ==
  ASSUME NEW t, CacheHolds(t), NEW linked, NEW x, linked = LinkedTrie(t, x.config, x.bases, x.extras),
         x.cache = FilledCache(linked), x.louds = t.louds, x.linkFlags = t.linkFlags,
         Len(x.bases) = Len(t.bases)
  PROVE  CacheFilled(x)
<1>1. /\ linked.cache = t.cache /\ linked.bases = x.bases /\ linked.extras = x.extras
      /\ linked.linkFlags = t.linkFlags
  BY DEF LinkedTrie
<1>2. NodesIn(x) = NodesIn(t) /\ \A n : ParentIn(x, n) = ParentIn(t, n)
  BY DEF NodesIn, ParentIn
<1>3. SUFFICES ASSUME NEW slot \in DOMAIN x.cache, x.cache[slot].child # Unused
               PROVE  LET entry == x.cache[slot] IN
                      /\ entry.child \in NodesIn(x) /\ entry.parent = ParentIn(x, entry.child)
                      /\ entry.base = At(x.bases, entry.child)
                      /\ entry.extra = IF ~At(x.linkFlags, entry.child) THEN InvalidExtra
                                       ELSE At(x.extras, Rank1(x.linkFlags, entry.child))
  BY DEF CacheFilled
<1>4. PICK child : child = t.cache[slot].child
  OBVIOUS
<1>5. slot \in DOMAIN t.cache /\
      x.cache[slot] =
        IF child # 0
        THEN [parent |-> t.cache[slot].parent, child |-> child,
              base |-> At(x.bases, child),
              extra |-> IF ~At(t.linkFlags, child) THEN InvalidExtra
                        ELSE At(x.extras, Rank1(t.linkFlags, child))]
        ELSE [parent |-> Unused, child |-> Unused, base |-> 0, extra |-> 0]
  BY <1>1, <1>3, <1>4 DEF FilledCache
<1>6. child # 0
  BY <1>3, <1>5
<1>7. /\ x.cache[slot].child = child /\ x.cache[slot].parent = t.cache[slot].parent
      /\ x.cache[slot].base = At(x.bases, child)
      /\ x.cache[slot].extra = IF ~At(t.linkFlags, child) THEN InvalidExtra
                               ELSE At(x.extras, Rank1(t.linkFlags, child))
  BY <1>5, <1>6
<1>8. child \in NodesIn(t) /\ t.cache[slot].parent = ParentIn(t, child)
  BY <1>4, <1>5, <1>6 DEF CacheHolds
<1> QED BY <1>2, <1>7, <1>8

\* A level's report of itself.
LEMMA BuiltConfigIs ==
  ASSUME NEW l \in 1 .. Len(tries), Len(tries) \in Nat, trieId = l,
         l # Len(tries) => tries[l + 1].config = ConfigOf(l + 1)
  PROVE  BuiltConfig = ConfigOf(l)
<1>1. CASE l = Len(tries)
  <2>1. Len(tries) - l + 1 = 1
    BY <1>1
  <2> QED BY <1>1, <2>1 DEF BuiltConfig, ConfigOf
<1>2. CASE l # Len(tries)
  <2>1. PICK m, k : m = Len(tries) - (l + 1) + 1 /\ k = Len(tries) - l + 1 /\ m + 1 = k
    OBVIOUS
  <2>2. BuiltConfig = [ConfigOf(l + 1) EXCEPT !.numTries = @ + 1]
    BY <1>2 DEF BuiltConfig
  <2>3. ConfigOf(l + 1) = [numTries |-> m, tailMode |-> TailMode(tail),
                           nodeOrder |-> config.nodeOrder]
    BY <2>1 DEF ConfigOf
  <2>4. ConfigOf(l) = [numTries |-> k, tailMode |-> TailMode(tail),
                       nodeOrder |-> config.nodeOrder]
    BY <2>1 DEF ConfigOf
  <2>5. BuiltConfig = [numTries |-> k, tailMode |-> TailMode(tail),
                       nodeOrder |-> config.nodeOrder]
    BY <2>1, <2>2, <2>3
  <2> QED BY <2>4, <2>5
<1> QED BY <1>1, <1>2

\* Linking a level on the way back preserves the invariant.
LEMMA LinkLevelHolds ==
  ASSUME BuildIInv, LinkLevel
  PROVE  BuildIInv'
<1>1. /\ pc = "link" /\ trieId' = trieId - 1 /\ pc' = IF trieId = 1 THEN "number" ELSE "link"
      /\ nextTerminals' = tries[trieId].terminals
      /\ config' = config /\ keyset' = keyset /\ tail' = tail
      /\ terminalFlags' = terminalFlags /\ ids' = ids
  BY DEF LinkLevel
<1>2. PICK b, offs : StackHolds(b) /\ Ascends(b, offs)
  BY <1>1 DEF BuildIInv, InLevel
<1>3. /\ keyset \in NewKeys /\ config.cacheLevel \in Nat \ {0}
      /\ config.numTries \in Nat \ {0} /\ config.tailMode \in {"text", "binary"}
      /\ tries \in Seq(Range(tries)) /\ Len(tries) <= config.numTries
  BY DEF BuildIInv
<1>4. PICK n, l, t : n = Len(tries) /\ l = trieId /\ t = tries[l]
  OBVIOUS
<1>5. n \in Nat /\ n > 0 /\ l \in 1 .. n
  <2>1. n \in Nat /\ n > 0 /\ l \in 0 .. n /\ l # 0
    BY <1>1, <1>2, <1>3, <1>4, LenProperties DEF Ascends
  <2> QED BY <2>1
<1>6. PICK cfg, bs, ex, ch :
        /\ cfg = BuiltConfig /\ bs = LinkedBases(t)
        /\ ex = [i \in DOMAIN nextTerminals |-> LinkExtra(nextTerminals[i])]
        /\ ch = FilledCache([t EXCEPT !.config = cfg, !.bases = bs, !.extras = ex])
  OBVIOUS
<1>7. PICK x : /\ x = [[t EXCEPT !.config = cfg, !.bases = bs, !.extras = ex] EXCEPT !.cache = ch]
               /\ tries' = [tries EXCEPT ![l] = x]
  BY <1>4, <1>6 DEF LinkLevel
<1>8. /\ IsTrie(t) /\ LevelHolds(t, InputOf(b, l), b[l]) /\ TreeHolds(t)
      /\ l # n => Len(b[l]) > 0
  BY <1>2, <1>4, <1>5 DEF StackHolds, LevelHolds
<1>9. /\ [t EXCEPT !.config = cfg, !.bases = bs, !.extras = ex] = LinkedTrie(t, cfg, bs, ex)
      /\ x.louds = t.louds /\ x.bases = bs /\ x.linkFlags = t.linkFlags /\ x.extras = ex
      /\ x.cache = ch /\ x.numL1Nodes = t.numL1Nodes /\ x.terminals = t.terminals
      /\ x.config = cfg /\ IsTrie(x)
  <2>1. IsTrie(t) /\ x = Relinked(t, cfg, bs, ex, ch)
    BY <1>7, <1>8, Zenon DEF Relinked
  <2>2. /\ LinkedOnly(t, cfg, bs, ex) = LinkedTrie(t, cfg, bs, ex)
        /\ x.louds = t.louds /\ x.bases = bs /\ x.linkFlags = t.linkFlags /\ x.extras = ex
        /\ x.cache = ch /\ x.numL1Nodes = t.numL1Nodes /\ x.terminals = t.terminals
        /\ x.config = cfg /\ IsTrie(x)
    BY ONLY <2>1, LinkedFields
  <2> QED BY <2>2, Zenon DEF LinkedOnly
<1>10. /\ nextTerminals = PlacesOf(offs, l) /\ nextTerminals \in Seq(Nat)
       /\ Len(nextTerminals) = NumOnes(t.linkFlags)
  <2>1. nextTerminals = PlacesOf(offs, l)
    BY <1>2, <1>4 DEF Ascends
  <2> QED BY <1>2, <1>4, <1>5, <2>1, PlacesHold
<1>11. /\ bs \in Strings /\ Len(bs) = Len(t.bases)
       /\ ex \in Seq(Nat) /\ Len(ex) = Len(nextTerminals)
       /\ \A m \in NodesIn(t) : ~At(t.linkFlags, m) => At(bs, m) = At(t.bases, m)
       /\ \A m \in NodesIn(t) : At(t.linkFlags, m) =>
            At(bs, m) + At(ex, Rank1(t.linkFlags, m)) * LabelSize
              = At(nextTerminals, Rank1(t.linkFlags, m))
  BY <1>6, <1>8, <1>10, LinkedBasesHold
<1>12. LevelHolds(x, InputOf(b, l), b[l])
  BY <1>8, <1>9, <1>11, SameLevel
<1>13. LevelLinked(x, PlacesOf(offs, l))
  <2>1. CacheHolds(t)
    BY <1>2, <1>4, <1>5 DEF Ascends
  <2>2. CacheFilled(x)
    BY <1>6, <1>9, <1>11, <2>1, FilledHolds
  <2>3. NodesIn(x) = NodesIn(t)
    BY <1>9, <1>11 DEF NodesIn
  <2> QED BY <1>9, <1>10, <1>11, <2>2, <2>3 DEF LevelLinked, LinkIn
<1>14. cfg = ConfigOf(l)
  <2>1. l # n => tries[l + 1].config = ConfigOf(l + 1)
    <3>1. l # n => l + 1 \in l + 1 .. n
      BY <1>5
    <3> QED BY <1>2, <1>4, <3>1 DEF Ascends
  <2> QED BY <1>4, <1>5, <1>6, <2>1, BuiltConfigIs
<1>15. /\ tries' \in Seq(Range(tries')) /\ Len(tries') = n
       /\ \A k \in 1 .. n : tries'[k] = IF k = l THEN x ELSE tries[k]
  <2> DEFINE T == Range(tries) \cup {x}
  <2>1. tries \in Seq(T) /\ x \in T
    <3>1. Range(tries) \subseteq T /\ x \in T
      OBVIOUS
    <3> HIDE DEF T
    <3> QED BY <1>3, <3>1, SeqMonotonic
  <2> HIDE DEF T
  <2>2. PICK tr : tr = tries'
    OBVIOUS
  <2>3. /\ tr \in Seq(T) /\ Len(tr) = Len(tries)
        /\ \A k \in 1 .. Len(tries) : tr[k] = IF k = l THEN x ELSE tries[k]
    BY <1>4, <1>5, <1>7, <2>1, <2>2, ExceptSeq
  <2>4. tr \in Seq(Range(tr))
    BY <2>3, SeqOfRange
  <2> QED BY <1>4, <2>2, <2>3, <2>4
<1>16. StackHolds(b)'
  <2>1. b \in [1 .. n -> NewKeys]
    BY <1>2, <1>4 DEF StackHolds
  <2>2. \A k : InputOf(b, k)' = InputOf(b, k)
    BY <1>1 DEF InputOf
  <2>3. ASSUME NEW k \in 1 .. n
        PROVE  /\ IsTrie(tries'[k]) /\ tries'[k].extras \in Seq(Nat)
               /\ LevelHolds(tries'[k], InputOf(b, k), b[k])
               /\ k # n => Len(b[k]) > 0
    <3>1. CASE k = l
      BY <1>8, <1>9, <1>11, <1>12, <1>15, <3>1
    <3>2. CASE k # l
      BY <1>2, <1>4, <1>15, <3>2 DEF StackHolds
    <3> QED BY <3>1, <3>2
  <2> QED BY <1>15, <2>1, <2>2, <2>3 DEF StackHolds
<1>17. Ascends(b, offs)'
  <2>1. Len(tries') > 0 /\ trieId' = l - 1 /\ l - 1 \in 0 .. n /\ (l - 1 = 0 <=> pc' # "link")
    BY <1>1, <1>4, <1>5, <1>15
  <2>2. /\ TailHolds(tail, EntriesOf(n, b[n]), offs)
        /\ tail.buf \in Strings
        /\ tail.buf # <<>> <=> Len(b[n]) > 0
        /\ TailMode(tail) = "binary" <=>
             /\ Len(b[n]) > 0
             /\ config.tailMode = "binary" \/
                \E k \in 1 .. Len(b[n]) : NUL \in Range(EntriesOf(n, b[n])[k])
    BY <1>2, <1>4 DEF Ascends
  <2>3. \A k \in 1 .. n : k # l - 1 => PlacesOf(offs, k)' = PlacesOf(offs, k)
    <3> TAKE k \in 1 .. n
    <3> HAVE k # l - 1
    <3>1. k # n => k + 1 \in 1 .. n /\ k + 1 # l
      BY <1>5
    <3> QED BY <1>4, <1>15, <3>1 DEF PlacesOf
  <2>4. nextTerminals' = PlacesOf(offs, l - 1)'
    <3>1. l - 1 # n /\ (l - 1) + 1 = l
      BY <1>5
    <3>2. tries'[l].terminals = t.terminals
      BY <1>5, <1>9, <1>15
    <3> QED BY <1>1, <1>4, <1>15, <3>1, <3>2 DEF PlacesOf
  <2>5. \A k \in 1 .. l - 1 : CacheHolds(tries'[k])
    <3> TAKE k \in 1 .. l - 1
    <3>1. k \in 1 .. n /\ k # l /\ k \in 1 .. l
      BY <1>5
    <3>2. CacheHolds(tries[k])
      BY <1>2, <1>4, <3>1 DEF Ascends
    <3> QED BY <1>15, <3>1, <3>2
  <2>6. \A k : ConfigOf(k)' = ConfigOf(k)
    BY <1>1, <1>4, <1>15 DEF ConfigOf
  <2>7. \A k \in (l - 1) + 1 .. n :
          LevelLinked(tries'[k], PlacesOf(offs, k)') /\ tries'[k].config = ConfigOf(k)'
    <3> TAKE k \in (l - 1) + 1 .. n
    <3>1. k \in 1 .. n /\ k # l - 1 /\ (k = l \/ k \in l + 1 .. n)
      BY <1>5
    <3>2. CASE k = l
      <4>1. tries'[k] = x /\ x.config = ConfigOf(k)'
        BY <1>9, <1>14, <1>15, <2>6, <3>1, <3>2
      <4> QED BY <1>13, <2>3, <3>1, <3>2, <4>1
    <3>3. CASE k # l
      <4>1. LevelLinked(tries[k], PlacesOf(offs, k)) /\ tries[k].config = ConfigOf(k)
        BY <1>2, <1>4, <3>1, <3>3 DEF Ascends
      <4>2. tries'[k] = tries[k]
        BY <1>15, <3>1, <3>3
      <4>3. PlacesOf(offs, k)' = PlacesOf(offs, k) /\ ConfigOf(k)' = ConfigOf(k)
        BY <2>3, <2>6, <3>1
      <4> HIDE DEF LevelLinked, PlacesOf, ConfigOf
      <4> QED BY <4>1, <4>2, <4>3
    <3> QED BY <3>2, <3>3
  <2>8. pc' # "done" /\ terminalFlags' = <<>> /\ ids' = <<>>
    BY <1>1, <1>2 DEF Ascends
  <2> QED BY <1>1, <1>4, <1>15, <2>1, <2>2, <2>4, <2>5, <2>7, <2>8 DEF Ascends
<1>18. ~InLevel' /\ pc' \in {"begin", "take", "push", "built", "link", "number", "done"}
  BY <1>1 DEF InLevel
<1> QED BY <1>1, <1>3, <1>4, <1>15, <1>16, <1>17, <1>18 DEF BuildIInv

\* Level 1 numbers its terminals.
LEMMA NumberKeysHolds ==
  ASSUME BuildIInv, NumberKeys
  PROVE  BuildIInv'
<1>1. /\ pc = "number" /\ pc' = "done"
      /\ config' = config /\ keyset' = keyset /\ tail' = tail /\ tries' = tries
      /\ trieId' = trieId /\ nextTerminals' = nextTerminals
      /\ terminalFlags' = [i \in 1 .. Len(tries[1].bases) + 1 |->
                             \E k \in DOMAIN nextTerminals : nextTerminals[k] = i - 1]
      /\ ids' = [k \in DOMAIN nextTerminals |-> IdOfTerminal(terminalFlags', nextTerminals[k])]
  BY DEF NumberKeys, levelVars
<1>2. PICK b, offs : StackHolds(b) /\ Ascends(b, offs)
  BY <1>1 DEF BuildIInv, InLevel
<1>3. /\ keyset \in NewKeys /\ config.cacheLevel \in Nat \ {0}
      /\ config.numTries \in Nat \ {0} /\ config.tailMode \in {"text", "binary"}
      /\ tries \in Seq(Range(tries)) /\ Len(tries) <= config.numTries
  BY DEF BuildIInv
<1>4. trieId = 0 /\ Len(tries) # 0
  BY <1>1, <1>2 DEF Ascends
<1>5. nextTerminals = tries[1].terminals
  <2>1. nextTerminals = PlacesOf(offs, 0)
    BY <1>2, <1>4 DEF Ascends
  <2>2. 0 + 1 = 1
    OBVIOUS
  <2> QED BY <1>4, <2>1, <2>2 DEF PlacesOf
<1>6. StackHolds(b)'
  BY <1>1, <1>2 DEF StackHolds, InputOf
<1>7. /\ terminalFlags' = TerminalFlagsOf(tries[1])
      /\ ids' = [k \in DOMAIN tries[1].terminals |->
                   IdOfTerminal(terminalFlags', tries[1].terminals[k])]
  <2>1. terminalFlags' = TerminalFlagsOf(tries[1])
    BY <1>1, <1>5, Zenon DEF TerminalFlagsOf
  <2> QED BY <1>1, <1>5, <2>1
<1>8. Ascends(b, offs)'
  <2>1. /\ Len(tries) > 0 /\ 0 \in 0 .. Len(tries)
        /\ TailHolds(tail, EntriesOf(Len(tries), b[Len(tries)]), offs)
        /\ tail.buf \in Strings
        /\ tail.buf # <<>> <=> Len(b[Len(tries)]) > 0
        /\ TailMode(tail) = "binary" <=>
             /\ Len(b[Len(tries)]) > 0
             /\ config.tailMode = "binary" \/
                \E k \in 1 .. Len(b[Len(tries)]) :
                  NUL \in Range(EntriesOf(Len(tries), b[Len(tries)])[k])
        /\ nextTerminals = PlacesOf(offs, 0)
        /\ \A l \in 1 .. 0 : CacheHolds(tries[l])
        /\ \A l \in 0 + 1 .. Len(tries) :
             LevelLinked(tries[l], PlacesOf(offs, l)) /\ tries[l].config = ConfigOf(l)
    BY <1>2, <1>4 DEF Ascends
  <2>2. \A l : PlacesOf(offs, l)' = PlacesOf(offs, l) /\ ConfigOf(l)' = ConfigOf(l)
    BY <1>1 DEF PlacesOf, ConfigOf
  <2>3. PICK nt, tl, tr, cf : /\ nt = nextTerminals /\ tl = tail /\ tr = tries /\ cf = config
                              /\ nextTerminals' = nt /\ tail' = tl /\ tries' = tr /\ config' = cf
    BY <1>1
  <2> HIDE DEF PlacesOf, ConfigOf, TailMode, EntriesOf, TailHolds, CacheHolds, LevelLinked
  <2>4. trieId' = 0 /\ pc' = "done"
    BY <1>1, <1>4
  <2>5. /\ Len(tries') > 0 /\ trieId' \in 0 .. Len(tries') /\ (trieId' = 0 <=> pc' # "link")
        /\ nextTerminals' = PlacesOf(offs, trieId)'
        /\ \A l \in 1 .. trieId' : CacheHolds(tries'[l])
        /\ \A l \in trieId' + 1 .. Len(tries') :
             LevelLinked(tries'[l], PlacesOf(offs, l)') /\ tries'[l].config = ConfigOf(l)'
    BY <2>1, <2>2, <2>3, <2>4
  <2> QED BY <1>7, <2>1, <2>3, <2>4, <2>5 DEF Ascends
<1>9. ~InLevel' /\ pc' \in {"begin", "take", "push", "built", "link", "number", "done"}
  BY <1>1 DEF InLevel
<1> QED BY <1>1, <1>3, <1>6, <1>8, <1>9 DEF BuildIInv

\* A step of the builder keeps what is built.
LEMMA BuildStep ==
  ASSUME BuildIInv, [NextBuild]_buildVars
  PROVE  BuildIInv'
<1>1. CASE NextBuild
  BY <1>1, BuildLevelHolds, BuildNextTrieHolds, BuildTailHolds, SkipNextTrieHolds,
     LinkLevelHolds, NumberKeysHolds DEF NextBuild
<1>2. CASE UNCHANGED buildVars
  <2>1. /\ pc' = pc /\ config' = config /\ trieId' = trieId /\ input' = input /\ keys' = keys
        /\ nextKeys' = nextKeys /\ keyset' = keyset /\ tries' = tries
        /\ nextTerminals' = nextTerminals /\ tail' = tail
        /\ terminalFlags' = terminalFlags /\ ids' = ids /\ UNCHANGED currentVars
        /\ louds' = louds /\ bases' = bases /\ linkFlags' = linkFlags /\ cache' = cache
        /\ numL1Nodes' = numL1Nodes /\ terminals' = terminals
    BY <1>2 DEF buildVars, currentVars, levelVars, trieVars
  <2>2. LevelAtHand => LevelAtHand'
    <3>1. [Next]_currentVars
      BY <2>1
    <3> QED BY <3>1, StepKeeps, StepPaths, StepCache, StepLevel DEF LevelAtHand
  <2>3. CurrentTrie' = CurrentTrie
    BY <2>1 DEF CurrentTrie
  <2>4. PICK b : /\ StackHolds(b) /\ (InLevel => Descends(b))
                 /\ ~InLevel => \E offs : Ascends(b, offs)
    BY DEF BuildIInv
  <2>5. StackHolds(b)' /\ (InLevel' <=> InLevel)
    BY <2>1, <2>4 DEF StackHolds, InputOf, InLevel
  <2>6. Descends(b) => Descends(b)'
    BY <2>1, <2>2, <2>3 DEF Descends, InputOf
  <2>7. \A offs : Ascends(b, offs) => Ascends(b, offs)'
    <3> TAKE offs
    <3>1. \A l : PlacesOf(offs, l)' = PlacesOf(offs, l) /\ ConfigOf(l)' = ConfigOf(l)
      BY <2>1 DEF PlacesOf, ConfigOf
    <3> QED BY <2>1, <3>1, Zenon DEF Ascends
  <2>8. \E offs : ~InLevel => Ascends(b, offs)
    BY <2>4
  <2>9. /\ pc' \in {"begin", "take", "push", "built", "link", "number", "done"}
        /\ keyset' \in NewKeys /\ config'.cacheLevel \in Nat \ {0}
        /\ config'.numTries \in Nat \ {0} /\ config'.tailMode \in {"text", "binary"}
        /\ tries' \in Seq(Range(tries')) /\ Len(tries') <= config'.numTries
    BY <2>1 DEF BuildIInv
  <2> QED BY <2>4, <2>5, <2>6, <2>7, <2>8, <2>9 DEF BuildIInv
<1> QED BY <1>1, <1>2

\* What the whole builder keeps, on the way down and back.
THEOREM BuildInvariant == SpecBuild => []BuildIInv
<1>1. InitBuild => BuildIInv
  BY InitHolds
<1>2. BuildIInv /\ [NextBuild]_buildVars => BuildIInv'
  BY BuildStep
<1> QED BY <1>1, <1>2, PTL DEF SpecBuild

---------------------------------------------------------------------------
(* What a trie that is built answers of itself.                            *)

\* Types, on the way back.
LEMMA AscendTypes ==
  ASSUME NEW b, NEW offs, StackHolds(b), Ascends(b, offs), tries \in Seq(Range(tries))
  PROVE  /\ nextTerminals \in Seq(Nat) /\ terminalFlags \in Seq(BOOLEAN) /\ ids \in Seq(Nat)
         /\ Len(tries) \in Nat /\ Len(tries) > 0
<1>1. Len(tries) \in Nat /\ Len(tries) > 0 /\ trieId \in 0 .. Len(tries)
  BY LenProperties DEF Ascends
<1>2. 1 \in 1 .. Len(tries)
  BY <1>1
<1>3. PICK t : t = tries[1]
  OBVIOUS
<1>4. TerminalsHold(t, InputOf(b, 1)) /\ TreeHolds(t)
  BY <1>2, <1>3 DEF StackHolds, LevelHolds
<1>5. /\ t.terminals \in Seq(Nat) /\ DOMAIN t.terminals = 1 .. Len(t.terminals)
      /\ Len(t.terminals) \in Nat /\ \A k \in 1 .. Len(t.terminals) : t.terminals[k] \in Nat
  BY <1>4, LenProperties, ElementOfSeq DEF TerminalsHold
<1>6. Len(t.bases) + 1 \in Nat
  BY <1>4, LenProperties DEF TreeHolds, Strings
<1>7. nextTerminals \in Seq(Nat)
  <2>1. CASE trieId = 0
    <3>1. Len(tries) # 0 /\ 0 + 1 = 1
      BY <1>1
    <3> QED BY <1>3, <1>5, <2>1, <3>1 DEF Ascends, PlacesOf
  <2>2. CASE trieId # 0
    <3>1. trieId \in 1 .. Len(tries)
      BY <1>1, <2>2
    <3> QED BY <1>1, <3>1, PlacesHold DEF Ascends
  <2> QED BY <2>1, <2>2
<1>8. CASE pc # "done"
  BY <1>1, <1>7, <1>8 DEF Ascends
<1>9. CASE pc = "done"
  <2>1. /\ terminalFlags = TerminalFlagsOf(t)
        /\ ids = [k \in DOMAIN t.terminals |-> IdOfTerminal(terminalFlags, t.terminals[k])]
    BY <1>3, <1>9 DEF Ascends
  <2>2. \A n \in Nat : \A f \in [1 .. n -> BOOLEAN] : f \in Seq(BOOLEAN)
    BY SeqDef
  <2>3. terminalFlags \in [1 .. Len(t.bases) + 1 -> BOOLEAN]
    BY <2>1, Zenon DEF TerminalFlagsOf
  <2>4. \A n \in Nat : \A f \in [1 .. n -> Nat] : f \in Seq(Nat)
    BY SeqDef
  <2>5. \A k \in 1 .. Len(t.terminals) : IdOfTerminal(terminalFlags, t.terminals[k]) \in Nat
    BY <1>5, RankIsNat DEF IdOfTerminal
  <2>6. ids \in [1 .. Len(t.terminals) -> Nat]
    BY <1>5, <2>1, <2>5
  <2> QED BY <1>1, <1>5, <1>6, <1>7, <2>2, <2>3, <2>4, <2>6
<1> QED BY <1>8, <1>9

\* The vectors, the places, the tail and the ids keep their types.
THEOREM BuildTypeCorrect == SpecBuild => []BuildTypeOK
<1>1. BuildIInv => BuildTypeOK
  <2> SUFFICES ASSUME BuildIInv PROVE BuildTypeOK
    OBVIOUS
  <2>1. /\ pc \in {"begin", "take", "push", "built", "link", "number", "done"}
        /\ keyset \in NewKeys /\ config.numTries \in Nat \ {0}
        /\ tries \in Seq(Range(tries)) /\ Len(tries) <= config.numTries
    BY DEF BuildIInv
  <2>2. PICK b : /\ StackHolds(b) /\ (InLevel => Descends(b))
                 /\ ~InLevel => \E offs : Ascends(b, offs)
    BY DEF BuildIInv
  <2>3. Len(tries) \in Nat /\ DOMAIN tries = 1 .. Len(tries)
    BY <2>1, LenProperties
  <2>4. \A l \in DOMAIN tries : tries[l].bases \in Strings /\ tries[l].extras \in Seq(Nat)
    BY <2>2, <2>3 DEF StackHolds, LevelHolds, TreeHolds
  <2>5. CASE InLevel
    <3>1. /\ trieId = Len(tries) + 1 /\ trieId <= config.numTries
          /\ nextTerminals = <<>> /\ tail = EmptyTail /\ terminalFlags = <<>> /\ ids = <<>>
      BY <2>2, <2>5 DEF Descends
    <3>2. trieId \in 0 .. config.numTries
      BY <2>1, <2>3, <3>1
    <3>3. tail.buf \in Strings
      BY <3>1 DEF EmptyTail, Strings
    <3> QED BY <2>1, <2>4, <3>1, <3>2, <3>3 DEF BuildTypeOK
  <2>6. CASE ~InLevel
    <3>1. PICK offs : Ascends(b, offs)
      BY <2>2, <2>6
    <3>2. /\ nextTerminals \in Seq(Nat) /\ terminalFlags \in Seq(BOOLEAN) /\ ids \in Seq(Nat)
      BY <2>1, <2>2, <3>1, AscendTypes
    <3>3. tail.buf \in Strings /\ trieId \in 0 .. Len(tries)
      BY <3>1 DEF Ascends
    <3>4. trieId \in 0 .. config.numTries
      BY <2>1, <2>3, <3>3
    <3> QED BY <2>1, <2>4, <3>2, <3>3, <3>4 DEF BuildTypeOK
  <2> QED BY <2>5, <2>6
<1> QED BY <1>1, BuildInvariant, PTL

\* At the end every level is linked.
LEMMA DoneHolds ==
  ASSUME BuildIInv, Done
  PROVE  \E b, offs :
           /\ StackHolds(b) /\ Ascends(b, offs) /\ trieId = 0 /\ pc = "done"
           /\ Len(tries) \in Nat /\ Len(tries) > 0 /\ DOMAIN tries = 1 .. Len(tries)
           /\ \A l \in 1 .. Len(tries) :
                LevelLinked(tries[l], PlacesOf(offs, l)) /\ tries[l].config = ConfigOf(l)
<1>1. pc = "done" /\ ~InLevel
  BY DEF Done, InLevel
<1>2. PICK b, offs : StackHolds(b) /\ Ascends(b, offs)
  BY <1>1 DEF BuildIInv
<1>3. tries \in Seq(Range(tries))
  BY DEF BuildIInv
<1>4. Len(tries) \in Nat /\ Len(tries) > 0 /\ DOMAIN tries = 1 .. Len(tries) /\ trieId = 0
  BY <1>1, <1>2, <1>3, LenProperties DEF Ascends
<1>5. 0 + 1 = 1
  OBVIOUS
<1> QED BY <1>1, <1>2, <1>4, <1>5 DEF Ascends

\* A trie file tells how many levels there are: links that the tail does not
\* hold have a level below them.
THEOREM NestingAlwaysInferred == SpecBuild => []NestingInferred
<1>1. BuildIInv => NestingInferred
  <2> SUFFICES ASSUME BuildIInv, Done, NEW l \in DOMAIN tries
               PROVE  (NumOnes(tries[l].linkFlags) # 0 /\ ~(l = Len(tries) /\ tail.buf # <<>>))
                        <=> l < Len(tries)
    BY DEF NestingInferred
  <2>1. PICK b, offs :
          /\ StackHolds(b) /\ Ascends(b, offs)
          /\ Len(tries) \in Nat /\ Len(tries) > 0 /\ DOMAIN tries = 1 .. Len(tries)
    BY DoneHolds
  <2>2. Len(b[l]) = NumOnes(tries[l].linkFlags) /\ b[l] \in NewKeys
    BY <2>1, PlacesHold
  <2>3. Len(b[l]) \in Nat
    BY <2>2, LenProperties DEF NewKeys
  <2>4. l # Len(tries) => Len(b[l]) > 0
    BY <2>1 DEF StackHolds
  <2>5. tail.buf # <<>> <=> Len(b[Len(tries)]) > 0
    BY <2>1 DEF Ascends
  <2> QED BY <2>1, <2>2, <2>3, <2>4, <2>5
<1> QED BY <1>1, BuildInvariant, PTL

\* Every number below the number of ones is the rank of a one.
LEMMA RankReaches ==
  ASSUME NEW bits \in Seq(BOOLEAN), NEW k \in 1 .. NumOnes(bits)
  PROVE  \E i \in 0 .. Len(bits) - 1 : At(bits, i) /\ Rank1(bits, i) = k - 1
<1> DEFINE S == {j \in Nat : j <= Len(bits) /\ k <= Rank1(bits, j)}
<1>1. /\ Len(bits) \in Nat /\ NumOnes(bits) \in Nat /\ k \in Nat /\ k >= 1
      /\ \A i \in Nat : Rank1(bits, i) \in Nat
      /\ \A i \in 1 .. Len(bits) : bits[i] \in BOOLEAN
  <2>1. Len(bits) \in Nat /\ k \in Nat /\ k >= 1
    BY LenProperties
  <2>2. \A i \in 1 .. Len(bits) : bits[i] \in BOOLEAN
    BY ElementOfSeq
  <2> QED BY <2>1, <2>2, RankIsNat DEF NumOnes
<1>2. Rank1(bits, 0) = 0
  <2>1. {p \in 1 .. 0 : bits[p]} = {}
    OBVIOUS
  <2> QED BY <2>1, FS_EmptySet DEF Rank1
<1>3. Len(bits) \in S
  BY <1>1 DEF NumOnes
<1>4. PICK j \in S : \A m \in S : j <= m
  <2>1. S \subseteq Nat
    OBVIOUS
  <2> HIDE DEF S
  <2> QED BY <1>3, <2>1, LeastElement
<1>5. j \in Nat /\ j # 0 /\ j <= Len(bits) /\ k <= Rank1(bits, j)
  BY <1>1, <1>2, <1>4
<1>6. /\ j - 1 \in Nat /\ (j - 1) + 1 = j /\ j - 1 \in 0 .. Len(bits) - 1 /\ j \in 1 .. Len(bits)
      /\ j - 1 <= Len(bits) /\ ~(j <= j - 1)
  BY <1>1, <1>5
<1>7. ~(k <= Rank1(bits, j - 1))
  BY <1>4, <1>6
<1>8. /\ bits[j] => Rank1(bits, j) = Rank1(bits, j - 1) + 1
      /\ ~bits[j] => Rank1(bits, j) = Rank1(bits, j - 1)
  <2>1. PICK i \in Nat : i = j - 1 /\ i + 1 = j
    BY <1>6
  <2> QED BY <2>1, RankNext
<1>9. bits[j] /\ Rank1(bits, j - 1) = k - 1
  <2>1. Rank1(bits, j) \in Nat /\ Rank1(bits, j - 1) \in Nat
    BY <1>1, <1>5, <1>6
  <2>2. bits[j]
    BY <1>5, <1>7, <1>8, <2>1
  <2>3. Rank1(bits, j) = Rank1(bits, j - 1) + 1
    BY <1>8, <2>2
  <2>4. \A r, s, m \in Nat : (m <= s /\ ~(m <= r) /\ s = r + 1) => r = m - 1
    OBVIOUS
  <2>5. Rank1(bits, j - 1) = k - 1
    BY <1>1, <1>5, <1>7, <2>1, <2>3, <2>4
  <2> QED BY <2>2, <2>5
<1> QED BY <1>6, <1>9 DEF At

\* What the links of a level spell.
LinksOf(l) ==
  {LinkText(l, LinkOf(l, n)) :
     n \in {m \in 0 .. Len(tries[l].bases) - 1 : At(tries[l].linkFlags, m)}}

\* The links of the last level are the entries of the tail.
LEMMA LastLinks ==
  ASSUME NEW b, NEW offs, StackHolds(b), Ascends(b, offs), Len(tries) \in Nat,
         NEW last, last = Len(tries), last > 0,
         LevelLinked(tries[last], PlacesOf(offs, last)), NEW entries,
         entries = EntriesOf(last, b[last])
  PROVE  LinksOf(last) = {entries[k] : k \in 1 .. Len(b[last])}
<1>1. PICK t : t = tries[last]
  OBVIOUS
<1>2. last \in 1 .. Len(tries)
  OBVIOUS
<1>3. /\ t.linkFlags \in Seq(BOOLEAN) /\ Len(t.bases) = Len(t.linkFlags)
      /\ Len(b[last]) = NumOnes(t.linkFlags) /\ b[last] \in NewKeys
  BY <1>1, <1>2, PlacesHold DEF StackHolds, LevelHolds, TreeHolds
<1>4. Len(entries) = Len(b[last])
  BY <1>3, EntriesFacts
<1>5. \A k \in 1 .. Len(b[last]) : TailRestore(tail, offs[k]) = entries[k]
  BY <1>4 DEF Ascends, TailHolds
<1>6. \A n \in 0 .. Len(t.bases) - 1 : At(t.linkFlags, n) =>
        LinkText(last, LinkOf(last, n)) = TailRestore(tail, offs[Rank1(t.linkFlags, n) + 1])
  BY <1>1 DEF LinkText, LevelLinked, PlacesOf, LinkIn, LinkOf, NodesIn, At
<1>7. \A n \in 0 .. Len(t.bases) - 1 : At(t.linkFlags, n) =>
        Rank1(t.linkFlags, n) + 1 \in 1 .. Len(b[last])
  BY <1>3, RankOfOne
<1>8. ASSUME NEW k \in 1 .. Len(b[last])
      PROVE  \E n \in 0 .. Len(t.bases) - 1 :
               At(t.linkFlags, n) /\ Rank1(t.linkFlags, n) + 1 = k
  <2>1. PICK i \in 0 .. Len(t.linkFlags) - 1 :
          At(t.linkFlags, i) /\ Rank1(t.linkFlags, i) = k - 1
    BY <1>3, RankReaches
  <2>2. (k - 1) + 1 = k
    OBVIOUS
  <2> QED BY <1>3, <2>1, <2>2
<1> DEFINE F == {m \in 0 .. Len(t.bases) - 1 : At(t.linkFlags, m)}
           Text(n) == LinkText(last, LinkOf(last, n))
<1>9. \A n \in F : Rank1(t.linkFlags, n) + 1 \in 1 .. Len(b[last])
                  /\ Text(n) = entries[Rank1(t.linkFlags, n) + 1]
  BY <1>5, <1>6, <1>7
<1>10. \A k \in 1 .. Len(b[last]) : \E n \in F : Text(n) = entries[k]
  <2> TAKE k \in 1 .. Len(b[last])
  <2>1. PICK n \in 0 .. Len(t.bases) - 1 : At(t.linkFlags, n) /\ Rank1(t.linkFlags, n) + 1 = k
    BY <1>8
  <2>2. n \in F /\ Text(n) = entries[k]
    BY <1>9, <2>1
  <2> QED BY <2>2
<1>11. {Text(n) : n \in F} = {entries[k] : k \in 1 .. Len(b[last])}
  <2> HIDE DEF F, Text
  <2> QED BY <1>9, <1>10
<1> QED BY <1>1, <1>11 DEF LinksOf

\* What a trie reports of itself is what was built.
THEOREM LevelsAlwaysReport == SpecBuild => []LevelsReportBuild
<1>1. BuildIInv => LevelsReportBuild
  <2> SUFFICES ASSUME BuildIInv, Done PROVE LevelsReportBuild
    BY DEF LevelsReportBuild
  <2>1. PICK b, offs :
          /\ StackHolds(b) /\ Ascends(b, offs)
          /\ Len(tries) \in Nat /\ Len(tries) > 0 /\ DOMAIN tries = 1 .. Len(tries)
          /\ \A l \in 1 .. Len(tries) :
               LevelLinked(tries[l], PlacesOf(offs, l)) /\ tries[l].config = ConfigOf(l)
    BY DoneHolds
  <2>2. \A l \in DOMAIN tries :
          tries[l].config = [numTries |-> Len(tries) - l + 1,
                             tailMode |-> TailMode(tail), nodeOrder |-> config.nodeOrder]
    BY <2>1 DEF ConfigOf
  <2>3. PICK last, entries, links :
          /\ last = Len(tries) /\ entries = EntriesOf(last, b[last])
          /\ links = {LinkText(last, LinkOf(last, n)) :
                        n \in {m \in 0 .. Len(tries[last].bases) - 1 :
                                At(tries[last].linkFlags, m)}}
    OBVIOUS
  <2>4. links = {entries[k] : k \in 1 .. Len(b[last])}
    <3>1. last \in 1 .. Len(tries) /\ last > 0
      BY <2>1, <2>3
    <3>2. LevelLinked(tries[last], PlacesOf(offs, last))
      BY <2>1, <3>1
    <3>3. /\ StackHolds(b) /\ Ascends(b, offs) /\ Len(tries) \in Nat /\ last = Len(tries)
          /\ entries = EntriesOf(last, b[last])
      BY <2>1, <2>3
    <3>4. LinksOf(last) = {entries[k] : k \in 1 .. Len(b[last])}
      BY ONLY <3>1, <3>2, <3>3, LastLinks
    <3> QED BY <2>3, <3>4, Zenon DEF LinksOf
  <2>5. Len(b[last]) \in Nat
    <3>1. last \in 1 .. Len(tries)
      BY <2>1, <2>3
    <3>2. b[last] \in NewKeys
      BY <2>1, <3>1, PlacesHold
    <3> QED BY <3>2, LenProperties DEF NewKeys
  <2>6. /\ links # {} <=> Len(b[last]) > 0
        /\ (\E str \in links : NUL \in Range(str)) <=>
             \E k \in 1 .. Len(b[last]) : NUL \in Range(entries[k])
    BY <2>4, <2>5
  <2>7. TailMode(tail) = "binary" <=>
          /\ Len(b[last]) > 0
          /\ config.tailMode = "binary" \/
             \E k \in 1 .. Len(b[last]) : NUL \in Range(entries[k])
    BY <2>1, <2>3 DEF Ascends
  <2>8. TailMode(tail) = "binary" <=>
          /\ links # {}
          /\ config.tailMode = "binary" \/ \E str \in links : NUL \in Range(str)
    BY <2>6, <2>7
  <2> QED BY <2>2, <2>3, <2>8, Zenon DEF LevelsReportBuild
<1> QED BY <1>1, BuildInvariant, PTL

\* The terminal flags are set where keys end.
LEMMA TerminalFlagsAre ==
  ASSUME NEW t, NEW in, TreeHolds(t), TerminalsHold(t, in), NEW flags, flags = TerminalFlagsOf(t)
  PROVE  /\ flags \in Seq(BOOLEAN) /\ Len(in) \in Nat /\ DOMAIN t.terminals = 1 .. Len(in)
         /\ \A k \in 1 .. Len(in) : /\ t.terminals[k] \in Nat /\ At(flags, t.terminals[k])
                                    /\ t.terminals[k] \in 0 .. Len(flags) - 1
         /\ \A i \in 0 .. Len(flags) - 1 :
              At(flags, i) => \E k \in 1 .. Len(in) : t.terminals[k] = i
<1>1. /\ t.terminals \in Seq(Nat) /\ Len(t.terminals) = Len(in)
      /\ \A k \in 1 .. Len(in) : t.terminals[k] \in 0 .. Len(t.bases) - 1
  BY DEF TerminalsHold, NodesIn
<1>2. DOMAIN t.terminals = 1 .. Len(in) /\ Len(in) \in Nat
  BY <1>1, LenProperties
<1>3. Len(t.bases) \in Nat
  BY LenProperties DEF TreeHolds, Strings
<1>4. PICK N \in Nat : N = Len(t.bases) + 1
  BY <1>3
<1>5. /\ flags \in [1 .. N -> BOOLEAN]
      /\ \A i \in 1 .. N : flags[i] = (\E k \in DOMAIN t.terminals : t.terminals[k] = i - 1)
  BY <1>4, Zenon DEF TerminalFlagsOf
<1>6. flags \in Seq(BOOLEAN) /\ Len(flags) = N
  <2>1. \A n \in Nat : \A f \in [1 .. n -> BOOLEAN] : f \in Seq(BOOLEAN)
    BY SeqDef
  <2>2. flags \in Seq(BOOLEAN)
    BY <1>5, <2>1
  <2>3. DOMAIN flags = 1 .. N /\ DOMAIN flags = 1 .. Len(flags) /\ Len(flags) \in Nat
    BY <1>5, <2>2, LenProperties
  <2> QED BY <2>2, <2>3
<1>7. ASSUME NEW k \in 1 .. Len(in)
      PROVE  /\ t.terminals[k] \in Nat /\ At(flags, t.terminals[k])
             /\ t.terminals[k] \in 0 .. Len(flags) - 1
  <2>1. PICK i : i = t.terminals[k] /\ i \in 0 .. Len(t.bases) - 1
    BY <1>1
  <2>2. i \in Nat /\ i + 1 \in 1 .. N /\ (i + 1) - 1 = i /\ i \in 0 .. Len(flags) - 1
    <3>1. PICK M \in Nat : M = Len(t.bases) /\ N = M + 1 /\ Len(flags) = N
      BY <1>3, <1>4, <1>6
    <3>2. i \in 0 .. M - 1
      BY <2>1, <3>1
    <3> QED BY ONLY <3>1, <3>2, N \in Nat
  <2>3. \E j \in DOMAIN t.terminals : t.terminals[j] = (i + 1) - 1
    BY <1>2, <2>1, <2>2
  <2>4. flags[i + 1]
    BY <1>5, <2>2, <2>3
  <2> QED BY <2>1, <2>2, <2>4 DEF At
<1>8. ASSUME NEW i \in 0 .. Len(flags) - 1, At(flags, i)
      PROVE  \E k \in 1 .. Len(in) : t.terminals[k] = i
  <2>1. i + 1 \in 1 .. N /\ (i + 1) - 1 = i
    BY <1>6
  <2>2. flags[i + 1]
    BY <1>8 DEF At
  <2>3. \E k \in DOMAIN t.terminals : t.terminals[k] = (i + 1) - 1
    BY <1>5, <2>1, <2>2
  <2> QED BY <1>2, <2>1, <2>3
<1> QED BY <1>2, <1>6, <1>7, <1>8

\* There are as many terminals as different keys.
LEMMA TerminalsCount ==
  ASSUME NEW t, NEW in, TreeHolds(t), TerminalsHold(t, in), NEW flags, flags = TerminalFlagsOf(t)
  PROVE  NumOnes(flags) = Cardinality({in[k].str : k \in 1 .. Len(in)})
<1>1. /\ flags \in Seq(BOOLEAN) /\ Len(in) \in Nat /\ DOMAIN t.terminals = 1 .. Len(in)
      /\ \A k \in 1 .. Len(in) : /\ t.terminals[k] \in Nat /\ At(flags, t.terminals[k])
                                 /\ t.terminals[k] \in 0 .. Len(flags) - 1
      /\ \A i \in 0 .. Len(flags) - 1 :
           At(flags, i) => \E k \in 1 .. Len(in) : t.terminals[k] = i
  BY TerminalFlagsAre
<1>2. \A j, k \in 1 .. Len(in) : t.terminals[j] = t.terminals[k] <=> in[j].str = in[k].str
  BY DEF TerminalsHold
<1>3. Len(flags) \in Nat
  BY <1>1, LenProperties
<1> DEFINE A == {p \in 1 .. Len(flags) : flags[p]}
           B == {in[k].str : k \in 1 .. Len(in)}
           K(p) == CHOOSE k \in 1 .. Len(in) : t.terminals[k] + 1 = p
           f == [p \in A |-> in[K(p)].str]
<1>4. \A p \in A : K(p) \in 1 .. Len(in) /\ t.terminals[K(p)] + 1 = p
  <2> TAKE p \in A
  <2>1. p - 1 \in 0 .. Len(flags) - 1 /\ (p - 1) + 1 = p /\ At(flags, p - 1)
    BY <1>3 DEF At
  <2>2. PICK k \in 1 .. Len(in) : t.terminals[k] = p - 1
    BY <1>1, <2>1
  <2>3. t.terminals[k] + 1 = p
    BY <2>1, <2>2
  <2> QED BY <2>3
<1>5. \A k \in 1 .. Len(in) : t.terminals[k] + 1 \in A
  BY <1>1, <1>3 DEF At
<1> HIDE DEF K, A
<1>6. f \in [A -> B] /\ \A p \in A : f[p] = in[K(p)].str
  BY <1>4
<1>7. \A p, q \in A : f[p] = f[q] => p = q
  <2> SUFFICES ASSUME NEW p \in A, NEW q \in A, f[p] = f[q] PROVE p = q
    OBVIOUS
  <2>1. t.terminals[K(p)] = t.terminals[K(q)]
    BY <1>2, <1>4, <1>6
  <2> QED BY <1>4, <2>1
<1>8. \A s \in B : \E p \in A : f[p] = s
  <2> SUFFICES ASSUME NEW k \in 1 .. Len(in) PROVE \E p \in A : f[p] = in[k].str
    OBVIOUS
  <2>1. PICK p \in A : p = t.terminals[k] + 1
    BY <1>5
  <2>2. K(p) \in 1 .. Len(in) /\ t.terminals[K(p)] + 1 = t.terminals[k] + 1
    BY <1>4, <2>1
  <2>3. t.terminals[K(p)] \in Nat /\ t.terminals[k] \in Nat
    BY <1>1, <2>2
  <2>4. t.terminals[K(p)] = t.terminals[k]
    BY <2>2, <2>3
  <2> QED BY <1>2, <1>6, <2>2, <2>4
<1>9. IsFiniteSet(A) /\ NumOnes(flags) = Cardinality(A)
  BY <1>3, RankIsNat DEF NumOnes, Rank1, A
<1>10. f \in Bijection(A, B)
  <2> HIDE DEF f, B
  <2> QED BY <1>6, <1>7, <1>8 DEF Bijection, Injection, Surjection, IsInjective
<1>11. ExistsBijection(A, B)
  <2> HIDE DEF f, B
  <2> QED BY <1>10 DEF ExistsBijection
<1>12. Cardinality(B) = Cardinality(A)
  <2> HIDE DEF f, B
  <2> QED BY <1>9, <1>11, FS_Bijection
<1> QED BY <1>9, <1>12

\* A prefix by SequencesExt is a beginning, character by character.
LEMMA PrefixBegins ==
  ASSUME NEW S, NEW s \in Seq(S), NEW t \in Seq(S), IsPrefix(s, t)
  PROVE  Begins(s, t)
<1>1. /\ Len(s) \in Nat /\ Len(t) \in Nat /\ Len(s) <= Len(t)
      /\ SubSeq(s, 1, Len(s)) = SubSeq(t, 1, Len(s))
      /\ \A i \in 1 .. Len(s) : s[i] \in S /\ t[i] \in S
  BY LenProperties, ElementOfSeq DEF IsPrefix
<1>2. PICK n \in Nat : n = Len(s)
  BY <1>1
<1>3. \A i \in 1 .. n - 1 + 1 : /\ SubSeq(s, 1, n)[i] = s[1 + i - 1]
                                /\ SubSeq(t, 1, n)[i] = t[1 + i - 1]
  BY <1>1, <1>2, SubSeqProperties
<1>4. ASSUME NEW i \in 1 .. n PROVE s[i] = t[i]
  <2>1. i \in 1 .. n - 1 + 1 /\ 1 + i - 1 = i
    OBVIOUS
  <2>2. s[1 + i - 1] = t[1 + i - 1]
    BY <1>1, <1>2, <1>3, <2>1
  <2> QED BY <2>1, <2>2
<1> QED BY <1>1, <1>2, <1>4 DEF Begins

\* Ids number the different keys from 0, prefixes first.
THEOREM IdsAlwaysNumber == SpecBuild => []IdsNumberKeys
<1>1. BuildIInv => IdsNumberKeys
  <2> SUFFICES ASSUME BuildIInv, Done PROVE IdsNumberKeys
    BY DEF IdsNumberKeys
  <2>1. PICK b, offs :
          /\ StackHolds(b) /\ Ascends(b, offs) /\ pc = "done"
          /\ Len(tries) \in Nat /\ Len(tries) > 0
    BY DoneHolds
  <2>2. keyset \in NewKeys
    BY DEF BuildIInv
  <2>3. PICK t, flags : /\ t = tries[1] /\ flags = TerminalFlagsOf(t) /\ terminalFlags = flags
                        /\ ids = [k \in DOMAIN t.terminals |-> Rank1(flags, t.terminals[k])]
    BY <2>1 DEF Ascends, IdOfTerminal
  <2>4. TreeHolds(t) /\ TerminalsHold(t, keyset)
    <3>1. 1 \in 1 .. Len(tries) /\ InputOf(b, 1) = keyset
      BY <2>1 DEF InputOf
    <3> QED BY <2>1, <2>3, <3>1 DEF StackHolds, LevelHolds
  <2>5. /\ flags \in Seq(BOOLEAN) /\ Len(keyset) \in Nat /\ DOMAIN t.terminals = 1 .. Len(keyset)
        /\ \A k \in 1 .. Len(keyset) : /\ t.terminals[k] \in Nat /\ At(flags, t.terminals[k])
                                       /\ t.terminals[k] \in 0 .. Len(flags) - 1
        /\ \A i \in 0 .. Len(flags) - 1 :
             At(flags, i) => \E k \in 1 .. Len(keyset) : t.terminals[k] = i
    BY <2>3, <2>4, TerminalFlagsAre
  <2>6. DOMAIN keyset = 1 .. Len(keyset)
    BY <2>2, LenProperties DEF NewKeys
  <2>7. \A k \in 1 .. Len(keyset) : ids[k] = Rank1(flags, t.terminals[k])
    BY <2>3, <2>5
  <2>8. NumOnes(flags) \in Nat
    <3>1. Len(flags) \in Nat
      BY <2>5, LenProperties
    <3> QED BY <3>1, RankIsNat DEF NumOnes
  <2>9. \A k \in 1 .. Len(keyset) : ids[k] \in 0 .. NumOnes(flags) - 1
    <3> TAKE k \in 1 .. Len(keyset)
    <3>1. PICK i \in 0 .. Len(flags) - 1 : i = t.terminals[k]
      BY <2>5
    <3>2. Rank1(flags, i) + 1 \in 1 .. NumOnes(flags)
      BY <2>5, <3>1, RankOfOne
    <3>3. Rank1(flags, i) \in Nat
      BY <2>5, <3>1, RankIsNat
    <3> QED BY <2>7, <2>8, <3>1, <3>2, <3>3
  <2>10. ASSUME NEW m \in 0 .. NumOnes(flags) - 1
         PROVE  \E k \in 1 .. Len(keyset) : ids[k] = m
    <3>1. m + 1 \in 1 .. NumOnes(flags) /\ (m + 1) - 1 = m
      BY <2>8
    <3>2. PICK i \in 0 .. Len(flags) - 1 : At(flags, i) /\ Rank1(flags, i) = (m + 1) - 1
      BY <2>5, <3>1, RankReaches
    <3>3. PICK k \in 1 .. Len(keyset) : t.terminals[k] = i
      BY <2>5, <3>2
    <3> QED BY <2>7, <3>1, <3>2, <3>3
  <2>11. {ids[k] : k \in DOMAIN keyset}
           = 0 .. Cardinality({keyset[k].str : k \in DOMAIN keyset}) - 1
    <3>1. NumOnes(flags) = Cardinality({keyset[k].str : k \in 1 .. Len(keyset)})
      BY <2>3, <2>4, TerminalsCount
    <3>2. {ids[k] : k \in 1 .. Len(keyset)} = 0 .. NumOnes(flags) - 1
      BY <2>9, <2>10
    <3> QED BY <2>6, <3>1, <3>2
  <2>12. ASSUME NEW j \in DOMAIN keyset, NEW k \in DOMAIN keyset,
                IsPrefix(keyset[j].str, keyset[k].str)
         PROVE  ids[j] <= ids[k]
    <3>1. keyset[j].str \in Seq(Labels) /\ keyset[k].str \in Seq(Labels)
      <4>1. \A i \in 1 .. Len(keyset) : keyset[i].str \in Strings
        BY <2>2, ReversedFacts
      <4> QED BY <2>6, <4>1 DEF Strings
    <3>2. Begins(keyset[j].str, keyset[k].str)
      BY <2>12, <3>1, PrefixBegins
    <3>3. t.terminals[j] <= t.terminals[k]
      BY <2>4, <2>6, <3>2 DEF TerminalsHold
    <3>4. t.terminals[j] \in Nat /\ t.terminals[k] \in Nat
      BY <2>5, <2>6
    <3> QED BY <2>6, <2>7, <3>3, <3>4, RankGrows
  <2> QED BY <2>11, <2>12 DEF IdsNumberKeys
<1> QED BY <1>1, BuildInvariant, PTL

---------------------------------------------------------------------------
(* What the levels spell together.                                         *)

\* Two strings reversed, one after the other.
LEMMA ReverseJoin ==
  ASSUME NEW S, NEW s \in Seq(S), NEW t \in Seq(S)
  PROVE  Reverse(s \o t) = Reverse(t) \o Reverse(s)
<1>1. PICK m \in Nat, n \in Nat : m = Len(s) /\ n = Len(t)
  BY LenProperties
<1>2. PICK u : u = s \o t
  OBVIOUS
<1>3. /\ u \in Seq(S) /\ Len(u) = m + n /\ \A i \in 1 .. m : u[i] = s[i]
      /\ \A i \in 1 .. m + n : u[i] = IF i <= m THEN s[i] ELSE t[i - m]
  BY <1>1, <1>2, ConcatProperties
<1>4. PICK r, rs, rt : r = Reverse(u) /\ rs = Reverse(s) /\ rt = Reverse(t)
  OBVIOUS
<1>5. /\ r \in Seq(S) /\ Len(r) = m + n /\ \A i \in 1 .. m + n : r[i] = u[((m + n) - i) + 1]
      /\ rs \in Seq(S) /\ Len(rs) = m /\ \A i \in 1 .. m : rs[i] = s[(m - i) + 1]
      /\ rt \in Seq(S) /\ Len(rt) = n /\ \A i \in 1 .. n : rt[i] = t[(n - i) + 1]
  <2>1. /\ r \in Seq(S) /\ Len(r) = Len(u) /\ \A i \in 1 .. Len(u) : r[i] = u[(Len(u) - i) + 1]
    BY ONLY <1>3, <1>4, ReverseTyped
  <2>2. /\ rs \in Seq(S) /\ Len(rs) = Len(s) /\ \A i \in 1 .. Len(s) : rs[i] = s[(Len(s) - i) + 1]
    BY ONLY s \in Seq(S), <1>4, ReverseTyped
  <2>3. /\ rt \in Seq(S) /\ Len(rt) = Len(t) /\ \A i \in 1 .. Len(t) : rt[i] = t[(Len(t) - i) + 1]
    BY ONLY t \in Seq(S), <1>4, ReverseTyped
  <2> QED BY <1>1, <1>3, <2>1, <2>2, <2>3
<1>6. PICK v : v = rt \o rs
  OBVIOUS
<1>7. /\ v \in Seq(S) /\ Len(v) = n + m
      /\ \A i \in 1 .. n + m : v[i] = IF i <= n THEN rt[i] ELSE rs[i - n]
  <2>1. /\ v \in Seq(S) /\ Len(v) = Len(rt) + Len(rs)
        /\ \A i \in 1 .. Len(rt) + Len(rs) : v[i] = IF i <= Len(rt) THEN rt[i] ELSE rs[i - Len(rt)]
    <3>1. rt \in Seq(S) /\ rs \in Seq(S)
      BY <1>5
    <3> QED BY ONLY <3>1, <1>6, ConcatProperties
  <2> QED BY <1>5, <2>1
<1>8. ASSUME NEW i \in 1 .. m + n PROVE r[i] = v[i]
  <2>1. PICK j : j = ((m + n) - i) + 1 /\ j \in 1 .. m + n /\ r[i] = u[j]
    BY <1>5
  <2>2. CASE i <= n
    <3>1. ~(j <= m) /\ j - m = (n - i) + 1 /\ i \in 1 .. n /\ i \in 1 .. n + m
      BY <2>1, <2>2
    <3>2. v[i] = t[(n - i) + 1]
      BY <1>5, <1>7, <2>2, <3>1
    <3>3. u[j] = t[j - m]
      BY <1>3, <2>1, <3>1
    <3> QED BY <2>1, <3>1, <3>2, <3>3
  <2>3. CASE ~(i <= n)
    <3>1. j <= m /\ j = (m - (i - n)) + 1 /\ i - n \in 1 .. m /\ i \in 1 .. n + m
      BY <2>1, <2>3
    <3>2. v[i] = s[(m - (i - n)) + 1]
      BY <1>5, <1>7, <2>3, <3>1
    <3>3. u[j] = s[j]
      BY <1>3, <2>1, <3>1
    <3> QED BY <2>1, <3>1, <3>2, <3>3
  <2> QED BY <2>2, <2>3
<1>9. Len(r) = Len(v)
  BY <1>5, <1>7
<1>10. \A i \in 1 .. Len(r) : r[i] = v[i]
  BY <1>5, <1>8
<1>11. r = v
  BY <1>5, <1>7, <1>9, <1>10, SeqEqual
<1> QED BY <1>2, <1>4, <1>6, <1>11

\* Strings of at most one character are their own reverse.
LEMMA ReverseShort ==
  /\ Reverse(<<>>) = <<>>
  /\ \A x : Reverse(<<x>>) = <<x>>
<1>1. Reverse(<<>>) = <<>>
  <2>1. <<>> \in Seq({}) /\ Len(<<>>) = 0
    OBVIOUS
  <2>2. Reverse(<<>>) \in Seq({}) /\ Len(Reverse(<<>>)) = 0
    BY <2>1, ReverseTyped
  <2> QED BY <2>2, EmptySeq
<1>2. ASSUME NEW x PROVE Reverse(<<x>>) = <<x>>
  <2>0. \A S : \A e \in S : <<e>> \in Seq(S) /\ Len(<<e>>) = 1 /\ <<e>>[1] = e
    OBVIOUS
  <2>1. PICK s : s = <<x>> /\ s \in Seq({x}) /\ Len(s) = 1 /\ s[1] = x
    BY <2>0
  <2>2. PICK r : r = Reverse(s) /\ r \in Seq({x}) /\ Len(r) = 1
    BY <2>1, ReverseTyped
  <2>3. r[1] = x
    BY <2>2, ElementOfSeq
  <2>4. \A i \in 1 .. 1 : r[i] = s[i]
    BY <2>1, <2>3
  <2>5. r = s
    BY <2>1, <2>2, <2>4, SeqEqual
  <2> QED BY <2>1, <2>2, <2>5
<1> QED BY <1>1, <1>2

\* A trie that is built, given the strings of its links and their places.
AllLinked(b, offs) ==
  /\ StackHolds(b) /\ Ascends(b, offs)
  /\ Len(tries) \in Nat /\ Len(tries) > 0 /\ DOMAIN tries = 1 .. Len(tries)
  /\ \A l \in 1 .. Len(tries) : LevelLinked(tries[l], PlacesOf(offs, l))

\* The paths of every level.
AllSpelled(b, gs) ==
  \A l \in 1 .. Len(tries) :
    /\ gs[l] \in [NodesIn(tries[l]) -> Strings]
    /\ SpelledBy(tries[l], InputOf(b, l), b[l], gs[l])

\* What the levels say from a node up: its label on level 1, and the path to
\* it backwards below.
Want(b, gs, l, n) ==
  IF l = 1 THEN LabelIn(tries[1], b[1], n)
  ELSE IF n = 0 THEN <<At(tries[l].bases, 0)>> ELSE Reverse(gs[l][n])

\* Up, unfolded once.
UpLabel(f, l, n) ==
  IF ~At(tries[l].linkFlags, n) THEN <<At(tries[l].bases, n)>>
  ELSE IF l = Len(tries) THEN TailRestore(tail, LinkOf(l, n))
  ELSE f[<<l + 1, LinkOf(l, n)>>]

UpBody(f, l, n) ==
  UpLabel(f, l, n)
  \o (IF l = 1 \/ n <= tries[l].numL1Nodes THEN <<>> ELSE f[<<l, Parent(l, n)>>])

\* Where a link leads.
LEMMA LinkLeads ==
  ASSUME NEW b, NEW offs, AllLinked(b, offs), NEW l \in 1 .. Len(tries),
         NEW n \in NodesIn(tries[l]), At(tries[l].linkFlags, n)
  PROVE  \E k \in 1 .. Len(b[l]) :
           /\ LinkOf(l, n) = PlacesOf(offs, l)[k]
           /\ LabelIn(tries[l], b[l], n) = b[l][k].str
           /\ b[l][k].str \in Strings /\ Len(b[l][k].str) > 0
<1>1. PICK t : t = tries[l]
  OBVIOUS
<1>2. /\ TreeHolds(t) /\ LinksHold(t, b[l]) /\ b[l] \in NewKeys
      /\ Len(b[l]) = NumOnes(t.linkFlags)
  BY <1>1, PlacesHold DEF AllLinked, StackHolds, LevelHolds
<1>3. PICK k : k = Rank1(t.linkFlags, n) + 1
  OBVIOUS
<1>4. k \in 1 .. Len(b[l])
  BY <1>1, <1>2, <1>3, RankOfOne DEF TreeHolds, NodesIn
<1>5. LinkIn(t, n) = PlacesOf(offs, l)[k]
  BY <1>1, <1>3 DEF AllLinked, LevelLinked, At
<1>6. LinkOf(l, n) = LinkIn(t, n)
  BY <1>1 DEF LinkOf, LinkIn
<1>7. LabelIn(t, b[l], n) = b[l][k].str
  BY <1>1, <1>3 DEF LabelIn, At
<1>8. b[l][k].str \in Strings
  BY <1>2, <1>4, ReversedFacts
<1>9. Len(b[l][k].str) > 0
  BY <1>2, <1>4 DEF LinksHold
<1> QED BY <1>1, <1>4, <1>5, <1>6, <1>7, <1>8, <1>9

\* A node's label, in the order of the text.
LEMMA UpLabelIs ==
  ASSUME NEW b, NEW offs, AllLinked(b, offs), NEW gs, AllSpelled(b, gs),
         NEW l \in 1 .. Len(tries), NEW n \in NodesIn(tries[l]), NEW f,
         l # Len(tries) => \A m \in NodesIn(tries[l + 1]) : f[<<l + 1, m>>] = Want(b, gs, l + 1, m)
  PROVE  /\ LabelIn(tries[l], b[l], n) \in Strings
         /\ UpLabel(f, l, n) = IF l = 1 THEN LabelIn(tries[l], b[l], n)
                               ELSE Reverse(LabelIn(tries[l], b[l], n))
<1>1. PICK t, s : t = tries[l] /\ s = LabelIn(t, b[l], n)
  OBVIOUS
<1>2. TreeHolds(t) /\ b[l] \in NewKeys
  BY <1>1, PlacesHold DEF AllLinked, StackHolds, LevelHolds
<1>3. CASE ~At(t.linkFlags, n)
  <2>1. s = <<At(t.bases, n)>> /\ UpLabel(f, l, n) = <<At(t.bases, n)>>
    BY <1>1, <1>3 DEF LabelIn, UpLabel
  <2>2. At(t.bases, n) \in Labels
    <3>1. t.bases \in Seq(Labels) /\ Len(t.bases) \in Nat /\ n \in 0 .. Len(t.bases) - 1
      BY <1>1, <1>2, LenProperties DEF TreeHolds, Strings, NodesIn
    <3>2. n + 1 \in 1 .. Len(t.bases)
      BY <3>1
    <3> QED BY <3>1, <3>2, ElementOfSeq DEF At
  <2>3. s \in Strings
    BY <2>1, <2>2 DEF Strings
  <2> QED BY <1>1, <2>1, <2>3, ReverseShort
<1>4. CASE At(t.linkFlags, n)
  <2>1. PICK k \in 1 .. Len(b[l]) :
           /\ LinkOf(l, n) = PlacesOf(offs, l)[k] /\ s = b[l][k].str
           /\ s \in Strings /\ Len(s) > 0
    <3>1. At(tries[l].linkFlags, n)
      BY <1>1, <1>4
    <3>2. \E k \in 1 .. Len(b[l]) :
            /\ LinkOf(l, n) = PlacesOf(offs, l)[k] /\ LabelIn(tries[l], b[l], n) = b[l][k].str
            /\ b[l][k].str \in Strings /\ Len(b[l][k].str) > 0
      BY <3>1, LinkLeads
    <3> QED BY <1>1, <3>2
  <2>2. CASE l = Len(tries)
    <3>1. UpLabel(f, l, n) = TailRestore(tail, offs[k])
      BY <1>1, <1>4, <2>1, <2>2 DEF UpLabel, PlacesOf
    <3>2. Len(EntriesOf(l, b[l])) = Len(b[l])
          /\ EntriesOf(l, b[l])[k] = IF l = 1 THEN b[l][k].str ELSE Reverse(b[l][k].str)
      BY <1>2, EntriesFacts
    <3>3. TailRestore(tail, offs[k]) = EntriesOf(l, b[l])[k]
      BY <2>2, <3>2 DEF AllLinked, Ascends, TailHolds
    <3> QED BY <1>1, <2>1, <3>1, <3>2, <3>3
  <2>3. CASE l # Len(tries)
    <3>1. /\ l + 1 \in 1 .. Len(tries) /\ l + 1 # 1 /\ (l + 1) - 1 = l
      BY <2>3 DEF AllLinked
    <3>2. PICK m, u, g : m = tries[l + 1].terminals[k] /\ u = tries[l + 1] /\ g = gs[l + 1]
      OBVIOUS
    <3>3. UpLabel(f, l, n) = f[<<l + 1, m>>]
      BY <1>1, <1>4, <2>1, <2>3, <3>2 DEF UpLabel, PlacesOf
    <3>4. InputOf(b, l + 1) = Reversed(l, b[l])
      BY <3>1 DEF InputOf
    <3>5. /\ Len(Reversed(l, b[l])) = Len(b[l])
          /\ Reversed(l, b[l])[k].str = IF l = 1 THEN Reverse(s) ELSE s
      BY <1>2, <2>1, ReversedFacts
    <3>6. /\ TerminalsHold(u, Reversed(l, b[l])) /\ SpelledBy(u, Reversed(l, b[l]), b[l + 1], g)
          /\ TreeHolds(u)
      BY <3>1, <3>2, <3>4 DEF AllLinked, StackHolds, LevelHolds, AllSpelled
    <3>7. m \in NodesIn(u) /\ g[m] = IF l = 1 THEN Reverse(s) ELSE s
      BY <3>2, <3>5, <3>6 DEF TerminalsHold, SpelledBy
    <3>8. s \in Seq(Labels) /\ Reverse(s) \in Seq(Labels) /\ Len(Reverse(s)) > 0 /\ Reverse(Reverse(s)) = s
      BY <2>1, ReverseTyped DEF Strings
    <3>9. m # 0
      <4>1. 0 \in NodesIn(u) => g[0] = <<>>
        BY <3>6 DEF SpelledBy
      <4>2. Len(g[m]) > 0
        BY <2>1, <3>7, <3>8
      <4> QED BY <3>7, <4>1, <4>2
    <3>10. f[<<l + 1, m>>] = Reverse(g[m])
      BY <2>3, <3>1, <3>2, <3>7, <3>9 DEF Want
    <3> QED BY <1>1, <2>1, <3>3, <3>7, <3>8, <3>10
  <2> QED BY <2>2, <2>3
<1> QED BY <1>3, <1>4

\* One step of Up.
LEMMA UpStep ==
  ASSUME NEW b, NEW offs, AllLinked(b, offs), NEW gs, AllSpelled(b, gs),
         NEW l \in 1 .. Len(tries), NEW n \in NodesIn(tries[l]), NEW f,
         l # Len(tries) => \A m \in NodesIn(tries[l + 1]) : f[<<l + 1, m>>] = Want(b, gs, l + 1, m),
         \A m \in 0 .. n - 1 : f[<<l, m>>] = Want(b, gs, l, m)
  PROVE  UpBody(f, l, n) = Want(b, gs, l, n) /\ Want(b, gs, l, n) \in Strings
<1>1. PICK t, s, g, lab : /\ t = tries[l] /\ s = LabelIn(t, b[l], n) /\ g = gs[l]
                          /\ lab = UpLabel(f, l, n)
  OBVIOUS
<1>2. s \in Seq(Labels) /\ lab = IF l = 1 THEN s ELSE Reverse(s)
  BY <1>1, UpLabelIs DEF Strings
<1>3. /\ TreeHolds(t) /\ g \in [NodesIn(t) -> Strings] /\ SpelledBy(t, InputOf(b, l), b[l], g)
  BY <1>1 DEF AllLinked, StackHolds, LevelHolds, AllSpelled
<1>4. Reverse(s) \in Seq(Labels) /\ s \o <<>> = s /\ Reverse(s) \o <<>> = Reverse(s)
      /\ <<>> \o s = s
  <2>1. Reverse(s) \in Seq(Labels)
    BY <1>2, ReverseTyped
  <2> QED BY <1>2, <2>1, ConcatEmptySeq
<1>5. CASE l = 1
  <2>1. Want(b, gs, l, n) = s
    BY <1>1, <1>5 DEF Want
  <2>2. UpBody(f, l, n) = s \o <<>>
    BY <1>1, <1>2, <1>5 DEF UpBody
  <2> QED BY <1>2, <1>4, <2>1, <2>2 DEF Strings
<1>6. CASE l # 1 /\ n = 0
  <2>1. ~At(t.linkFlags, 0) /\ t.numL1Nodes \in Nat
    BY <1>3 DEF TreeHolds
  <2>2. lab = <<At(t.bases, 0)>> /\ s = <<At(t.bases, 0)>>
    BY <1>1, <1>6, <2>1 DEF UpLabel, LabelIn
  <2>3. Want(b, gs, l, n) = s
    BY <1>1, <1>6, <2>2 DEF Want
  <2>4. n <= t.numL1Nodes
    BY <1>6, <2>1
  <2>5. UpBody(f, l, n) = lab \o <<>>
    BY <1>1, <2>4 DEF UpBody
  <2> QED BY <1>2, <1>4, <2>2, <2>3, <2>5 DEF Strings
<1>7. CASE l # 1 /\ n # 0
  <2>1. PICK p : p = ParentIn(t, n) /\ p \in 0 .. n - 1 /\ (p = 0 <=> n <= t.numL1Nodes)
    BY <1>1, <1>3, <1>7 DEF TreeHolds
  <2>2. Parent(l, n) = p
    BY <1>1, <2>1 DEF Parent, ParentIn
  <2>3. p \in NodesIn(t) /\ n \in NodesIn(t) /\ 0 \in NodesIn(t)
    <3>1. n \in Nat /\ n \in 0 .. Len(t.bases) - 1 /\ Len(t.bases) \in Nat
      BY <1>1, <1>3, LenProperties DEF NodesIn, TreeHolds, Strings
    <3> QED BY <1>1, <2>1, <3>1 DEF NodesIn
  <2>4. g[n] = g[p] \o s /\ g[p] \in Seq(Labels) /\ g[n] \in Seq(Labels) /\ g[0] = <<>>
    BY <1>1, <1>3, <1>7, <2>1, <2>3 DEF SpelledBy, Strings
  <2>5. Reverse(g[n]) = Reverse(s) \o Reverse(g[p]) /\ Reverse(g[n]) \in Seq(Labels)
    <3>1. PICK a \in Seq(Labels), c \in Seq(Labels) : a = g[p] /\ c = g[n]
      BY <2>4
    <3>2. Reverse(a \o s) = Reverse(s) \o Reverse(a)
      <4>1. s \in Seq(Labels) /\ a \in Seq(Labels)
        BY <1>2
      <4> QED BY ONLY <4>1, ReverseJoin
    <3>3. Reverse(c) \in Seq(Labels)
      BY ONLY c \in Seq(Labels), ReverseTyped
    <3> QED BY <2>4, <3>1, <3>2, <3>3
  <2>6. Want(b, gs, l, n) = Reverse(s) \o Reverse(g[p])
    BY <1>1, <1>7, <2>5 DEF Want
  <2>7. UpBody(f, l, n) = Reverse(s) \o (IF p = 0 THEN <<>> ELSE f[<<l, p>>])
    BY <1>1, <1>2, <1>7, <2>1, <2>2 DEF UpBody
  <2>8. p # 0 => f[<<l, p>>] = Reverse(g[p])
    BY <1>1, <1>7, <2>1 DEF Want
  <2>9. p = 0 => Reverse(g[p]) = <<>>
    BY <2>4, ReverseShort
  <2>10. Want(b, gs, l, n) \in Strings
    BY <2>5, <2>6 DEF Strings
  <2> QED BY <2>6, <2>7, <2>8, <2>9, <2>10
<1> QED BY <1>5, <1>6, <1>7

\* A place of a trie that is built.
LEMMA PlacesAre ==
  ASSUME NEW b, NEW offs, AllLinked(b, offs)
  PROVE  /\ \A l \in 1 .. Len(tries) : NodesOf(l) = NodesIn(tries[l])
         /\ \A p : p \in Places <=>
              \E l \in 1 .. Len(tries) : \E n \in NodesIn(tries[l]) : p = <<l, n>>
<1>1. \A l : NodesOf(l) = NodesIn(tries[l])
  BY DEF NodesOf, NodesIn
<1>2. DOMAIN tries = 1 .. Len(tries)
  BY DEF AllLinked
<1> QED BY <1>1, <1>2 DEF Places

\* Up is what the levels say.
LEMMA UpIs ==
  ASSUME NEW b, NEW offs, AllLinked(b, offs), NEW gs, AllSpelled(b, gs)
  PROVE  \A l \in 1 .. Len(tries) : \A n \in NodesIn(tries[l]) : Up[<<l, n>>] = Want(b, gs, l, n)
<1> DEFINE R(f) == [p \in Places |-> UpBody(f, p[1], p[2])]
<1>1. PICK N \in Nat : N = Len(tries)
  BY DEF AllLinked
<1>2. /\ \A l \in 1 .. N : \A n \in NodesIn(tries[l]) : <<l, n>> \in Places
      /\ \A p \in Places : \E l \in 1 .. N : \E n \in NodesIn(tries[l]) : p = <<l, n>>
  BY <1>1, PlacesAre
<1>3. Up = CHOOSE f : f = R(f)
  BY Zenon DEF Up, UpBody, UpLabel
<1>4. \A l \in 1 .. N : l # N => l + 1 \in 1 .. N
  OBVIOUS
<1>5. \A l \in 1 .. N : \A n \in NodesIn(tries[l]) : \A m \in 0 .. n - 1 : m \in NodesIn(tries[l])
  <2> SUFFICES ASSUME NEW l \in 1 .. N, NEW n \in NodesIn(tries[l]), NEW m \in 0 .. n - 1
               PROVE  m \in NodesIn(tries[l])
    OBVIOUS
  <2>1. TreeHolds(tries[l])
    BY <1>1 DEF AllLinked, StackHolds, LevelHolds
  <2>2. Len(tries[l].bases) \in Nat
    BY <2>1, LenProperties DEF TreeHolds, Strings
  <2> QED BY <2>2 DEF NodesIn
<1>6. \E f : f = R(f)
  <2> DEFINE W == [p \in Places |-> Want(b, gs, p[1], p[2])]
  <2>1. \A l \in 1 .. N : \A n \in NodesIn(tries[l]) : W[<<l, n>>] = Want(b, gs, l, n)
    BY <1>2
  <2> HIDE DEF W
  <2>2. ASSUME NEW l \in 1 .. N, NEW n \in NodesIn(tries[l])
        PROVE  UpBody(W, l, n) = Want(b, gs, l, n)
    <3>1. l # Len(tries) =>
            \A m \in NodesIn(tries[l + 1]) : W[<<l + 1, m>>] = Want(b, gs, l + 1, m)
      BY <1>1, <1>4, <2>1
    <3>2. \A m \in 0 .. n - 1 : W[<<l, m>>] = Want(b, gs, l, m)
      BY <1>5, <2>1
    <3> QED BY <1>1, <3>1, <3>2, UpStep
  <2>3. \A p \in Places : UpBody(W, p[1], p[2]) = Want(b, gs, p[1], p[2])
    <3> TAKE p \in Places
    <3>1. PICK l \in 1 .. N : \E n \in NodesIn(tries[l]) : p = <<l, n>>
      BY <1>2
    <3>2. PICK n \in NodesIn(tries[l]) : p = <<l, n>>
      BY <3>1
    <3>3. p[1] = l /\ p[2] = n
      BY <3>2
    <3> QED BY <2>2, <3>3
  <2>4. W = R(W)
    BY <2>3 DEF W
  <2> QED BY <2>4
<1>7. Up = R(Up)
  <2> HIDE DEF R
  <2>1. PICK u : u = CHOOSE f : f = R(f)
    OBVIOUS
  <2>2. u = R(u)
    BY <1>6, <2>1
  <2>3. Up = u
    BY <1>3, <2>1
  <2> QED BY <2>2, <2>3, Zenon
<1>8. PICK U : U = Up
  OBVIOUS
<1>9. \A l \in 1 .. N : \A n \in NodesIn(tries[l]) : U[<<l, n>>] = UpBody(U, l, n)
  <2>1. U = R(U)
    BY <1>7, <1>8, Zenon
  <2> QED BY <1>2, <2>1
<1> HIDE DEF R
<1> DEFINE BadIn(l) == {n \in NodesIn(tries[l]) : U[<<l, n>>] # Want(b, gs, l, n)}
           Bad == {d \in 0 .. N : N - d \in 1 .. N /\ BadIn(N - d) # {}}
<1>10. Bad = {}
  <2> SUFFICES ASSUME Bad # {} PROVE FALSE
    OBVIOUS
  <2>1. PICK d \in Bad : \A c \in Bad : d <= c
    <3>1. Bad \subseteq Nat
      OBVIOUS
    <3> HIDE DEF Bad
    <3> QED BY <3>1, LeastElement
  <2>2. PICK l \in 1 .. N : l = N - d /\ BadIn(l) # {}
    BY <2>1
  <2>3. PICK n \in BadIn(l) : \A m \in BadIn(l) : n <= m
    <3>1. NodesIn(tries[l]) \subseteq Nat
      BY DEF NodesIn
    <3>2. BadIn(l) \subseteq Nat
      BY <3>1
    <3> HIDE DEF BadIn
    <3> QED BY <2>2, <3>2, LeastElement
  <2>4. n \in NodesIn(tries[l]) /\ U[<<l, n>>] # Want(b, gs, l, n) /\ n \in Nat
    BY <2>3 DEF NodesIn
  <2>5. l # Len(tries) =>
          \A m \in NodesIn(tries[l + 1]) : U[<<l + 1, m>>] = Want(b, gs, l + 1, m)
    <3> SUFFICES ASSUME l # N PROVE BadIn(l + 1) = {}
      BY <1>1
    <3>1. N - (d - 1) = l + 1 /\ l + 1 \in 1 .. N /\ d - 1 \in 0 .. N /\ ~(d <= d - 1)
      BY <2>1, <2>2
    <3>2. d - 1 \notin Bad
      BY <2>1, <3>1
    <3> QED BY <3>1, <3>2
  <2>6. \A m \in 0 .. n - 1 : U[<<l, m>>] = Want(b, gs, l, m)
    <3> TAKE m \in 0 .. n - 1
    <3>1. m \in NodesIn(tries[l]) /\ ~(n <= m)
      BY <1>5, <2>4
    <3> QED BY <2>3, <3>1
  <2>7. UpBody(U, l, n) = Want(b, gs, l, n)
    BY <1>1, <2>4, <2>5, <2>6, UpStep
  <2> QED BY <1>9, <2>4, <2>7
<1>11. ASSUME NEW l \in 1 .. N, NEW n \in NodesIn(tries[l]) PROVE U[<<l, n>>] = Want(b, gs, l, n)
  <2>1. N - l \in 0 .. N /\ N - (N - l) = l
    OBVIOUS
  <2>2. BadIn(l) = {}
    BY <1>10, <2>1
  <2> QED BY <2>2
<1> QED BY <1>1, <1>8, <1>11

\* The paths of level 1, which Down spells.
LEMMA DownIs ==
  ASSUME NEW b, NEW offs, AllLinked(b, offs), NEW gs, AllSpelled(b, gs)
  PROVE  \A n \in NodesIn(tries[1]) : Down[n] = gs[1][n]
<1> DEFINE D == NodesOf(1)
           R(f) == [n \in D |-> IF n = 0 THEN <<>> ELSE f[Parent(1, n)] \o Up[<<1, n>>]]
<1>1. PICK t, g : t = tries[1] /\ g = gs[1]
  OBVIOUS
<1>2. 1 \in 1 .. Len(tries)
  BY DEF AllLinked
<1>3. /\ TreeHolds(t) /\ g \in [NodesIn(t) -> Strings] /\ SpelledBy(t, InputOf(b, 1), b[1], g)
  BY <1>1, <1>2 DEF AllLinked, StackHolds, LevelHolds, AllSpelled
<1>4. D = NodesIn(t) /\ D = 0 .. Len(t.bases) - 1 /\ Len(t.bases) \in Nat
  BY <1>1, <1>3, LenProperties DEF NodesOf, NodesIn, TreeHolds, Strings
<1>5. ASSUME NEW n \in D, n # 0
      PROVE  /\ Parent(1, n) \in 0 .. n - 1 /\ Parent(1, n) \in D /\ n \in Nat
             /\ g[n] = g[Parent(1, n)] \o Up[<<1, n>>]
  <2>1. Parent(1, n) = ParentIn(t, n)
    BY <1>1 DEF Parent, ParentIn
  <2>2. ParentIn(t, n) \in 0 .. n - 1 /\ n \in Nat
    BY <1>3, <1>4, <1>5 DEF TreeHolds
  <2>3. ParentIn(t, n) \in D
    BY <1>4, <2>2
  <2>4. Up[<<1, n>>] = Want(b, gs, 1, n)
    BY <1>1, <1>2, <1>4, UpIs
  <2>5. Up[<<1, n>>] = LabelIn(t, b[1], n)
    BY <1>1, <2>4, Zenon DEF Want
  <2>6. g[n] = g[ParentIn(t, n)] \o LabelIn(t, b[1], n)
    BY <1>3, <1>4, <1>5 DEF SpelledBy
  <2> QED BY <2>1, <2>2, <2>3, <2>5, <2>6
<1>6. g[0] = <<>> \/ 0 \notin D
  BY <1>3, <1>4 DEF SpelledBy
<1>7. Down = CHOOSE f : f = R(f)
  BY Zenon DEF Down
<1>8. \E f : f = R(f)
  <2>1. g = [n \in D |-> g[n]]
    BY <1>3, <1>4
  <2>2. \A n \in D : g[n] = IF n = 0 THEN <<>> ELSE g[Parent(1, n)] \o Up[<<1, n>>]
    BY <1>5, <1>6
  <2> HIDE DEF D
  <2>3. g = R(g)
    BY <2>1, <2>2
  <2> QED BY <2>3
<1>9. Down = R(Down)
  <2> HIDE DEF R
  <2>1. PICK u : u = CHOOSE f : f = R(f)
    OBVIOUS
  <2>2. u = R(u)
    BY <1>8, <2>1
  <2>3. Down = u
    BY <1>7, <2>1
  <2> QED BY <2>2, <2>3, Zenon
<1>10. PICK U : U = Down
  OBVIOUS
<1>11. \A n \in D : U[n] = IF n = 0 THEN <<>> ELSE U[Parent(1, n)] \o Up[<<1, n>>]
  <2>1. U = R(U)
    BY <1>9, <1>10, Zenon
  <2> HIDE DEF D
  <2> QED BY <2>1
<1> HIDE DEF R
<1> DEFINE Bad == {n \in D : U[n] # g[n]}
<1>12. Bad = {}
  <2> SUFFICES ASSUME Bad # {} PROVE FALSE
    OBVIOUS
  <2>1. PICK n \in Bad : \A m \in Bad : n <= m
    <3>1. Bad \subseteq Nat
      BY <1>4
    <3> HIDE DEF Bad
    <3> QED BY <3>1, LeastElement
  <2>2. n # 0
    BY <1>6, <1>11, <2>1
  <2>3. PICK p : p = Parent(1, n) /\ p \in 0 .. n - 1 /\ p \in D /\ n \in Nat
                 /\ g[n] = g[p] \o Up[<<1, n>>]
    BY <1>5, <2>1, <2>2
  <2>4. ~(n <= p)
    BY <2>3
  <2>5. U[p] = g[p]
    BY <2>1, <2>3, <2>4
  <2> QED BY <1>11, <2>1, <2>2, <2>3, <2>5
<1> QED BY <1>1, <1>4, <1>10, <1>12

\* The levels have paths.
LEMMA PathsExist ==
  ASSUME NEW b, NEW offs, AllLinked(b, offs)
  PROVE  \E gs : AllSpelled(b, gs)
<1> DEFINE G(l) == CHOOSE g \in [NodesIn(tries[l]) -> Strings] :
                     SpelledBy(tries[l], InputOf(b, l), b[l], g)
           gs == [l \in 1 .. Len(tries) |-> G(l)]
<1>1. ASSUME NEW l \in 1 .. Len(tries)
      PROVE  /\ G(l) \in [NodesIn(tries[l]) -> Strings]
             /\ SpelledBy(tries[l], InputOf(b, l), b[l], G(l))
  <2>1. \E g \in [NodesIn(tries[l]) -> Strings] : SpelledBy(tries[l], InputOf(b, l), b[l], g)
    BY DEF AllLinked, StackHolds, LevelHolds
  <2> QED BY <2>1, Zenon
<1>2. \A l \in 1 .. Len(tries) : gs[l] = G(l)
  OBVIOUS
<1> HIDE DEF gs, G
<1>3. AllSpelled(b, gs)
  BY <1>1, <1>2 DEF AllSpelled
<1> QED BY <1>3

\* When the build is done every level is linked and the ids are numbered.
LEMMA DoneLinked ==
  ASSUME BuildIInv, Done
  PROVE  \E b, offs : /\ AllLinked(b, offs) /\ keyset \in NewKeys
                      /\ terminalFlags = TerminalFlagsOf(tries[1])
                      /\ ids = [k \in DOMAIN tries[1].terminals |->
                                  Rank1(terminalFlags, tries[1].terminals[k])]
<1>1. PICK b, offs :
        /\ StackHolds(b) /\ Ascends(b, offs) /\ pc = "done"
        /\ Len(tries) \in Nat /\ Len(tries) > 0 /\ DOMAIN tries = 1 .. Len(tries)
        /\ \A l \in 1 .. Len(tries) : LevelLinked(tries[l], PlacesOf(offs, l))
  BY DoneHolds
<1>2. AllLinked(b, offs)
  BY <1>1 DEF AllLinked
<1>3. /\ terminalFlags = TerminalFlagsOf(tries[1])
      /\ ids = [k \in DOMAIN tries[1].terminals |->
                  Rank1(terminalFlags, tries[1].terminals[k])]
  BY <1>1 DEF Ascends, IdOfTerminal
<1> QED BY <1>2, <1>3 DEF BuildIInv

\* The node an id selects spells the key that was given the id, through all
\* the levels and the tail.
THEOREM TrieAlwaysHolds == SpecBuild => []TrieHoldsKeyset
<1>1. BuildIInv => TrieHoldsKeyset
  <2> SUFFICES ASSUME BuildIInv, Done, NEW k \in DOMAIN keyset
               PROVE  Down[NodeOf(ids[k])] = keyset[k].str
    BY DEF TrieHoldsKeyset
  <2>1. PICK b, offs :
          /\ AllLinked(b, offs) /\ keyset \in NewKeys
          /\ terminalFlags = TerminalFlagsOf(tries[1])
          /\ ids = [j \in DOMAIN tries[1].terminals |->
                      Rank1(terminalFlags, tries[1].terminals[j])]
    BY DoneLinked
  <2>2. PICK gs : AllSpelled(b, gs)
    BY <2>1, PathsExist
  <2>3. PICK t, flags : t = tries[1] /\ flags = terminalFlags
    OBVIOUS
  <2>4. 1 \in 1 .. Len(tries) /\ InputOf(b, 1) = keyset
    BY <2>1 DEF AllLinked, InputOf
  <2>5. TreeHolds(t) /\ TerminalsHold(t, keyset) /\ SpelledBy(t, keyset, b[1], gs[1])
    BY <2>1, <2>2, <2>3, <2>4 DEF AllLinked, StackHolds, LevelHolds, AllSpelled
  <2>6. k \in 1 .. Len(keyset)
    BY <2>1, LenProperties DEF NewKeys
  <2>7. PICK n : n = t.terminals[k]
    OBVIOUS
  <2>8. /\ flags \in Seq(BOOLEAN) /\ At(flags, n) /\ n \in 0 .. Len(flags) - 1
        /\ DOMAIN t.terminals = 1 .. Len(keyset)
    BY <2>1, <2>3, <2>5, <2>6, <2>7, TerminalFlagsAre
  <2>9. ids[k] = Rank1(flags, n)
    BY <2>1, <2>3, <2>6, <2>7, <2>8
  <2>10. NodeOf(ids[k]) = n
    <3>1. OneAt(flags, n, Rank1(flags, n))
      BY <2>8 DEF OneAt
    <3> QED BY <2>3, <2>8, <2>9, <3>1, SelectIs DEF NodeOf
  <2>11. n \in NodesIn(t)
    BY <2>5, <2>6, <2>7 DEF TerminalsHold
  <2>12. gs[1][n] = keyset[k].str
    BY <2>5, <2>6, <2>7 DEF SpelledBy
  <2>13. Down[n] = gs[1][n]
    BY <2>1, <2>2, <2>3, <2>11, DownIs
  <2> QED BY <2>10, <2>12, <2>13
<1> QED BY <1>1, BuildInvariant, PTL

\* Neither a level nor the tail reaches the places whose extra would be
\* MARISA_INVALID_EXTRA: 2 ^ 32 - 256 nodes or characters.
SizesFit ==
  /\ \A l \in DOMAIN tries : Len(tries[l].bases) <= InvalidExtra * LabelSize
  /\ Len(tail.buf) <= InvalidExtra * LabelSize

\* A link below the bound does not have the extra that marks a node without link.
LEMMA ExtraFits ==
  ASSUME NEW base \in Nat, NEW extra \in Nat, NEW invalid \in Nat, NEW size \in Nat \ {0},
         base + extra * size < invalid * size
  PROVE  extra # invalid
<1> SUFFICES ASSUME extra = invalid PROVE FALSE
  OBVIOUS
<1>1. PICK m \in Nat : m = invalid * size /\ m = extra * size
  OBVIOUS
<1> QED BY ONLY base \in Nat, <1>1, base + extra * size < invalid * size

\* The extra of a link is not the mark of a node without link.
LEMMA ExtrasValid ==
  ASSUME NEW b, NEW offs, AllLinked(b, offs), SizesFit, NEW l \in 1 .. Len(tries),
         NEW n \in NodesIn(tries[l]), At(tries[l].linkFlags, n)
  PROVE  At(tries[l].extras, Rank1(tries[l].linkFlags, n)) # InvalidExtra
<1>0. InvalidExtra * LabelSize \in Nat
  <2>1. InvalidExtra \in Nat /\ LabelSize \in Nat
    BY InvalidExtraAssumption, LabelSizeAssumption
  <2> QED BY ONLY <2>1
<1>1. PICK t, r : t = tries[l] /\ r = Rank1(t.linkFlags, n)
  OBVIOUS
<1>2. PICK k \in 1 .. Len(b[l]) : LinkOf(l, n) = PlacesOf(offs, l)[k]
  BY LinkLeads
<1>3. /\ TreeHolds(t) /\ b[l] \in NewKeys /\ t.extras \in Seq(Nat)
      /\ PlacesOf(offs, l) \in Seq(Nat) /\ Len(PlacesOf(offs, l)) = Len(b[l])
  BY <1>1, PlacesHold DEF AllLinked, StackHolds, LevelHolds
<1>4. PICK place \in Nat : place = LinkOf(l, n)
  BY <1>2, <1>3, ElementOfSeq
<1>5. place < InvalidExtra * LabelSize
  <2>1. CASE l = Len(tries)
    <3>1. place = offs[k]
      BY <1>2, <1>4, <2>1 DEF PlacesOf
    <3>2. Len(EntriesOf(l, b[l])) = Len(b[l])
      BY <1>3, EntriesFacts
    <3>3. offs[k] < Len(tail.buf) /\ tail.buf \in Strings
      BY <2>1, <3>2 DEF AllLinked, Ascends, TailHolds
    <3>4. PICK m \in Nat, s \in Nat : m = InvalidExtra * LabelSize /\ s = Len(tail.buf)
      BY <3>3, LenProperties, InvalidExtraAssumption, LabelSizeAssumption DEF Strings
    <3>5. s <= m
      BY <3>4 DEF SizesFit
    <3> QED BY <3>1, <3>3, <3>4, <3>5
  <2>2. CASE l # Len(tries)
    <3>1. l + 1 \in 1 .. Len(tries) /\ l + 1 # 1 /\ (l + 1) - 1 = l /\ l + 1 \in DOMAIN tries
      <4>1. DOMAIN tries = 1 .. Len(tries) /\ Len(tries) \in Nat
        BY DEF AllLinked
      <4>2. \A i, m \in Nat : (i \in 1 .. m /\ i # m) =>
              (i + 1 \in 1 .. m /\ i + 1 # 1 /\ (i + 1) - 1 = i)
        OBVIOUS
      <4>3. l \in Nat
        BY <4>1
      <4>4. l + 1 \in 1 .. Len(tries) /\ l + 1 # 1 /\ (l + 1) - 1 = l
        BY <2>2, <4>1, <4>2, <4>3
      <4> QED BY <4>1, <4>4
    <3>2. PICK u : u = tries[l + 1]
      OBVIOUS
    <3>3. place = u.terminals[k]
      BY <1>2, <1>4, <2>2, <3>2 DEF PlacesOf
    <3>4. InputOf(b, l + 1) = Reversed(l, b[l]) /\ Len(Reversed(l, b[l])) = Len(b[l])
      BY <1>3, <3>1, ReversedFacts DEF InputOf
    <3>5. TerminalsHold(u, Reversed(l, b[l])) /\ TreeHolds(u)
      BY <3>1, <3>2, <3>4 DEF AllLinked, StackHolds, LevelHolds
    <3>6. place \in 0 .. Len(u.bases) - 1
      BY <3>3, <3>4, <3>5 DEF TerminalsHold, NodesIn
    <3>7. PICK m \in Nat, s \in Nat : m = InvalidExtra * LabelSize /\ s = Len(u.bases)
      <4>1. Len(u.bases) \in Nat
        BY <3>5, LenProperties DEF TreeHolds, Strings
      <4> QED BY ONLY <1>0, <4>1
    <3>8. s <= m
      BY <3>1, <3>2, <3>7 DEF SizesFit
    <3> QED BY <3>6, <3>7, <3>8
  <2> QED BY <2>1, <2>2
<1>6. PICK base \in Nat : base = At(t.bases, n)
  <2>1. t.bases \in Seq(Labels) /\ n + 1 \in 1 .. Len(t.bases)
    <3>1. t.bases \in Seq(Labels) /\ Len(t.bases) \in Nat /\ n \in 0 .. Len(t.bases) - 1
      BY <1>1, <1>3, LenProperties DEF TreeHolds, Strings, NodesIn
    <3> QED BY <3>1
  <2>2. Labels \subseteq Nat
    BY LabelSizeAssumption DEF Labels
  <2>3. t.bases[n + 1] \in Nat
    BY <2>1, <2>2, ElementOfSeq
  <2> QED BY <2>3 DEF At
<1>7. PICK extra \in Nat : extra = At(t.extras, r)
  <2>1. t.extras[r + 1] \in Nat
    <3>1. r + 1 \in 1 .. Len(t.extras)
      <4>1. Len(t.extras) = NumOnes(t.linkFlags)
        BY <1>1, <1>3, PlacesHold DEF AllLinked, LevelLinked
      <4> QED BY <1>1, <1>3, <4>1, RankOfOne DEF TreeHolds, NodesIn
    <3> QED BY <1>3, <3>1, ElementOfSeq
  <2> QED BY <2>1 DEF At
<1>8. place = base + extra * LabelSize
  BY <1>1, <1>4, <1>6, <1>7 DEF LinkOf
<1>9. base + extra * LabelSize < InvalidExtra * LabelSize
  BY <1>5, <1>8
<1>10. extra # InvalidExtra
  BY ONLY <1>9, base \in Nat, extra \in Nat, InvalidExtraAssumption, LabelSizeAssumption, ExtraFits
<1> QED BY <1>1, <1>7, <1>10

\* A cache entry gives what the walk it replaces would.
THEOREM CachesAlwaysGive == SpecBuild => [](SizesFit => CachesGiveLabels)
<1>1. BuildIInv => (SizesFit => CachesGiveLabels)
  <2> SUFFICES ASSUME BuildIInv, SizesFit, Done,
                      NEW l \in DOMAIN tries, NEW slot \in DOMAIN tries[l].cache,
                      NEW entry, entry = tries[l].cache[slot], entry.child # Unused
               PROVE  /\ entry.parent = Parent(l, entry.child)
                      /\ CachedLabel(l, entry) =
                           IF At(tries[l].linkFlags, entry.child)
                           THEN LinkText(l, LinkOf(l, entry.child))
                           ELSE <<At(tries[l].bases, entry.child)>>
    BY DEF CachesGiveLabels
  <2>1. PICK b, offs : AllLinked(b, offs)
    BY DoneLinked
  <2>2. PICK t, n : t = tries[l] /\ n = entry.child
    OBVIOUS
  <2>3. l \in 1 .. Len(tries)
    BY <2>1 DEF AllLinked
  <2>4. /\ n \in NodesIn(t) /\ entry.parent = ParentIn(t, n)
        /\ entry.base = At(t.bases, n)
        /\ entry.extra = IF ~At(t.linkFlags, n) THEN InvalidExtra
                         ELSE At(t.extras, Rank1(t.linkFlags, n))
    BY <2>1, <2>2, <2>3 DEF AllLinked, LevelLinked, CacheFilled
  <2>5. entry.parent = Parent(l, n)
    BY <2>2, <2>4 DEF Parent, ParentIn
  <2>6. CASE ~At(t.linkFlags, n)
    BY <2>2, <2>4, <2>5, <2>6 DEF CachedLabel
  <2>7. CASE At(t.linkFlags, n)
    <3>1. entry.extra # InvalidExtra
      BY <2>1, <2>2, <2>3, <2>4, <2>7, ExtrasValid
    <3>2. entry.base + entry.extra * LabelSize = LinkOf(l, n)
      BY <2>2, <2>4, <2>7 DEF LinkOf
    <3> QED BY <2>2, <2>5, <2>7, <3>1, <3>2 DEF CachedLabel
  <2> QED BY <2>6, <2>7
<1>2. BuildIInv => (SizesFit => CachesGiveLabels)
  BY <1>1
<1> QED BY <1>2, BuildInvariant, PTL

===========================================================================
