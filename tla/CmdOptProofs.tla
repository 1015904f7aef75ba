---------------------------- MODULE CmdOptProofs ---------------------------
(***************************************************************************)
(* Proofs about the parser of command lines, for any options and any       *)
(* command line: what moving operands does to argv.                        *)
(*                                                                         *)
(* The argument is about three parts of argv: what was read, what is still *)
(* to be read (from optind on) and what was moved (from optnum on).  Each  *)
(* operand is moved behind those moved before it, and it was given after   *)
(* them, since everything that was moved was given before all that is      *)
(* still to be read.                                                       *)
(***************************************************************************)
EXTENDS CmdOpt, SequenceTheorems, TLAPS

---------------------------------------------------------------------------
(* The inductive invariant.                                                *)

Places == /\ line \in Seq(Seq(STRING))
          /\ argv \in Seq(1 .. Len(line)) /\ Len(argv) = Len(line)
          /\ optnum \in 1 .. Len(line) + 1 /\ optind \in 1 .. optnum

\* No argument is lost.
AllIn(v) == \A k \in 1 .. Len(v) : \E i \in 1 .. Len(v) : v[i] = k

\* Neither the arguments before num nor those from it on change their order.
PartsInOrder(v, num) ==
  /\ \A i, j \in 1 .. num - 1 : i < j => v[i] < v[j]
  /\ \A i, j \in num .. Len(v) : i < j => v[i] < v[j]

\* What was moved was given before what is still to be read.
MovedGivenBefore(v, ind, num) ==
  \A i \in ind .. num - 1, j \in num .. Len(v) : v[j] < v[i]

IOpt == /\ Places /\ AllIn(argv)
        /\ PartsInOrder(argv, optnum) /\ MovedGivenBefore(argv, optind, optnum)

---------------------------------------------------------------------------
(* What a rotation leaves at each position.                                *)

\* The part of a sequence between two positions.
LEMMA PartFacts ==
  ASSUME NEW S, NEW v \in Seq(S), NEW a \in 1 .. Len(v) + 1, NEW m \in Nat,
         a + m <= Len(v) + 1
  PROVE  /\ SubSeq(v, a, a + m - 1) \in Seq(S)
         /\ Len(SubSeq(v, a, a + m - 1)) = m
         /\ \A j \in 1 .. m : SubSeq(v, a, a + m - 1)[j] = v[a + j - 1]
<1>1. Len(v) \in Nat /\ a \in Int /\ a + m - 1 \in Int
  BY LenProperties
<1>2. \A i \in a .. a + m - 1 : v[i] \in S
  BY <1>1, ElementOfSeq
<1>3. /\ SubSeq(v, a, a + m - 1) \in Seq(S)
      /\ Len(SubSeq(v, a, a + m - 1)) =
           IF a <= a + m - 1 THEN (a + m - 1) - a + 1 ELSE 0
      /\ \A j \in 1 .. (a + m - 1) - a + 1 : SubSeq(v, a, a + m - 1)[j] = v[a + j - 1]
  BY <1>1, <1>2, SubSeqProperties
<1>4. (a + m - 1) - a + 1 = m /\ (~(a <= a + m - 1) => m = 0)
  BY <1>1
<1> QED
  BY <1>3, <1>4

\* A sequence and the one that follows it.
LEMMA JoinFacts ==
  ASSUME NEW S, NEW s \in Seq(S), NEW t \in Seq(S)
  PROVE  /\ s \o t \in Seq(S) /\ Len(s \o t) = Len(s) + Len(t)
         /\ \A j \in 1 .. Len(s) : (s \o t)[j] = s[j]
         /\ \A j \in 1 .. Len(t) : (s \o t)[Len(s) + j] = t[j]
<1>1. Len(s) \in Nat /\ Len(t) \in Nat
  BY LenProperties
<1>2. /\ s \o t \in Seq(S) /\ Len(s \o t) = Len(s) + Len(t)
      /\ \A j \in 1 .. Len(s) + Len(t) :
           (s \o t)[j] = IF j <= Len(s) THEN s[j] ELSE t[j - Len(s)]
  BY ConcatProperties
<1>3. ASSUME NEW j \in 1 .. Len(s) PROVE (s \o t)[j] = s[j]
  <2>1. j \in 1 .. Len(s) + Len(t) /\ j <= Len(s)
    BY <1>1
  <2> QED BY <1>2, <2>1
<1>4. ASSUME NEW j \in 1 .. Len(t) PROVE (s \o t)[Len(s) + j] = t[j]
  <2>1. /\ Len(s) + j \in 1 .. Len(s) + Len(t) /\ ~(Len(s) + j <= Len(s))
        /\ (Len(s) + j) - Len(s) = j
    BY <1>1
  <2> QED BY <1>2, <2>1
<1> QED
  BY <1>2, <1>3, <1>4

\* The m elements after the first k go to the end.
ToEnd(v, k, m) ==
  SubSeq(v, 1, k) \o SubSeq(v, k + m + 1, Len(v)) \o SubSeq(v, k + 1, k + m)

\* w has the parts of v of lengths k, m and l, the last two the other way round.
Exchanged(w, v, k, m, l) ==
  /\ \A j \in 1 .. k : w[j] = v[j]
  /\ \A j \in 1 .. l : w[k + j] = v[k + m + j]
  /\ \A j \in 1 .. m : w[k + l + j] = v[k + j]

\* Where the arguments lie after the m ones behind the first k were put at the end.
LEMMA ExchangeFacts ==
  ASSUME NEW S, NEW v \in Seq(S), NEW k \in Nat, NEW m \in Nat, NEW l \in Nat,
         Len(v) = k + m + l,
         NEW w, w = ToEnd(v, k, m)
  PROVE  w \in Seq(S) /\ Len(w) = Len(v) /\ Exchanged(w, v, k, m, l)
<1> DEFINE front == SubSeq(v, 1, k)
           back == SubSeq(v, k + m + 1, Len(v))
           middle == SubSeq(v, k + 1, k + m)
<1>1. front \in Seq(S) /\ Len(front) = k /\ \A j \in 1 .. k : front[j] = v[j]
  <2>1. 1 \in 1 .. Len(v) + 1 /\ 1 + k <= Len(v) + 1 /\ 1 + k - 1 = k
        /\ \A j \in 1 .. k : 1 + j - 1 = j
    OBVIOUS
  <2> QED BY <2>1, PartFacts
<1>2. back \in Seq(S) /\ Len(back) = l /\ \A j \in 1 .. l : back[j] = v[k + m + j]
  <2>1. /\ k + m + 1 \in 1 .. Len(v) + 1 /\ (k + m + 1) + l <= Len(v) + 1
        /\ (k + m + 1) + l - 1 = Len(v)
        /\ \A j \in 1 .. l : (k + m + 1) + j - 1 = k + m + j
    OBVIOUS
  <2> DEFINE a == k + m + 1
  <2>2. a \in 1 .. Len(v) + 1 /\ a + l <= Len(v) + 1
    BY <2>1
  <2> HIDE DEF a
  <2>3. /\ SubSeq(v, a, a + l - 1) \in Seq(S) /\ Len(SubSeq(v, a, a + l - 1)) = l
        /\ \A j \in 1 .. l : SubSeq(v, a, a + l - 1)[j] = v[a + j - 1]
    BY <2>2, PartFacts
  <2> QED BY <2>1, <2>3 DEF a
<1>3. middle \in Seq(S) /\ Len(middle) = m /\ \A j \in 1 .. m : middle[j] = v[k + j]
  <2>1. /\ k + 1 \in 1 .. Len(v) + 1 /\ (k + 1) + m <= Len(v) + 1 /\ (k + 1) + m - 1 = k + m
        /\ \A j \in 1 .. m : (k + 1) + j - 1 = k + j
    OBVIOUS
  <2>2. /\ SubSeq(v, k + 1, (k + 1) + m - 1) \in Seq(S)
        /\ Len(SubSeq(v, k + 1, (k + 1) + m - 1)) = m
        /\ \A j \in 1 .. m : SubSeq(v, k + 1, (k + 1) + m - 1)[j] = v[(k + 1) + j - 1]
    BY <2>1, PartFacts
  <2> QED BY <2>1, <2>2
<1>4. w = (front \o back) \o middle
  BY DEF ToEnd
<1> HIDE DEF front, back, middle
<1>5. /\ front \o back \in Seq(S) /\ Len(front \o back) = k + l
      /\ \A j \in 1 .. k : (front \o back)[j] = front[j]
      /\ \A j \in 1 .. l : (front \o back)[k + j] = back[j]
  <2>1. front \in Seq(S) /\ back \in Seq(S)
    BY <1>1, <1>2
  <2>2. /\ front \o back \in Seq(S) /\ Len(front \o back) = Len(front) + Len(back)
        /\ \A j \in 1 .. Len(front) : (front \o back)[j] = front[j]
        /\ \A j \in 1 .. Len(back) : (front \o back)[Len(front) + j] = back[j]
    BY <2>1, JoinFacts
  <2> QED BY <1>1, <1>2, <2>2
<1>6. /\ w \in Seq(S) /\ Len(w) = k + l + m
      /\ \A j \in 1 .. k + l : w[j] = (front \o back)[j]
      /\ \A j \in 1 .. m : w[k + l + j] = middle[j]
  <2> DEFINE both == front \o back
  <2>1. both \in Seq(S) /\ middle \in Seq(S)
    BY <1>3, <1>5
  <2>2. Len(both) = k + l /\ w = both \o middle
    BY <1>4, <1>5
  <2> HIDE DEF both
  <2>3. /\ both \o middle \in Seq(S) /\ Len(both \o middle) = Len(both) + Len(middle)
        /\ \A j \in 1 .. Len(both) : (both \o middle)[j] = both[j]
        /\ \A j \in 1 .. Len(middle) : (both \o middle)[Len(both) + j] = middle[j]
    BY <2>1, JoinFacts
  <2>4. /\ w \in Seq(S) /\ Len(w) = k + l + m
        /\ \A j \in 1 .. k + l : w[j] = both[j]
        /\ \A j \in 1 .. m : w[k + l + j] = middle[j]
    BY <1>3, <2>2, <2>3
  <2> QED BY <2>4 DEF both
<1>7. ASSUME NEW j \in 1 .. k PROVE w[j] = v[j]
  <2>1. j \in 1 .. k + l
    OBVIOUS
  <2> QED BY <1>1, <1>5, <1>6, <2>1
<1>8. ASSUME NEW j \in 1 .. l PROVE w[k + j] = v[k + m + j]
  <2>1. k + j \in 1 .. k + l
    OBVIOUS
  <2> QED BY <1>2, <1>5, <1>6, <2>1
<1>9. k + l + m = Len(v)
  OBVIOUS
<1> QED
  BY <1>3, <1>6, <1>7, <1>8, <1>9 DEF Exchanged


\* When the m arguments at k + 1 are still to be read and go to the end, the
\* order stays what it was, with m arguments more behind num.
LEMMA ExchangeKeepsOrder ==
  ASSUME NEW k \in Nat, NEW m \in Nat, NEW l \in Nat, NEW n \in Nat, n = k + m + l,
         NEW v, Len(v) = n, NEW w, Len(w) = n, Exchanged(w, v, k, m, l),
         NEW num \in k + m + 1 .. n + 1,
         AllIn(v), PartsInOrder(v, num), MovedGivenBefore(v, k + 1, num)
  PROVE  AllIn(w) /\ PartsInOrder(w, num - m) /\ MovedGivenBefore(w, k + 1, num - m)
<1>0. ASSUME NEW j \in Int, 1 <= j, j <= k PROVE w[j] = v[j]
  BY <1>0 DEF Exchanged
<1>1. ASSUME NEW j \in Int, k < j, j <= k + l PROVE w[j] = v[j + m]
  <2>1. j - k \in 1 .. l /\ k + (j - k) = j /\ k + m + (j - k) = j + m
    BY <1>1
  <2>2. w[k + (j - k)] = v[k + m + (j - k)]
    BY <2>1 DEF Exchanged
  <2> QED BY <2>1, <2>2
<1>2. ASSUME NEW j \in Int, k + l < j, j <= n PROVE w[j] = v[j - l]
  <2>1. j - (k + l) \in 1 .. m /\ k + l + (j - (k + l)) = j /\ k + (j - (k + l)) = j - l
    BY <1>2
  <2>2. w[k + l + (j - (k + l))] = v[k + (j - (k + l))]
    BY <2>1 DEF Exchanged
  <2> QED BY <2>1, <2>2
<1>3. /\ \A i, j \in 1 .. num - 1 : i < j => v[i] < v[j]
      /\ \A i, j \in num .. n : i < j => v[i] < v[j]
      /\ \A i \in k + 1 .. num - 1, j \in num .. n : v[j] < v[i]
  BY DEF PartsInOrder, MovedGivenBefore
<1>4. AllIn(w)
  <2> SUFFICES ASSUME NEW a \in 1 .. n PROVE \E i \in 1 .. n : w[i] = a
    BY DEF AllIn
  <2>1. PICK i \in 1 .. n : v[i] = a
    BY DEF AllIn
  <2>2. CASE i <= k
    <3>1. w[i] = v[i]
      BY <1>0, <2>2
    <3> QED BY <2>1, <3>1
  <2>3. CASE k < i /\ i <= k + m
    <3>1. i + l \in 1 .. n /\ k + l < i + l /\ (i + l) - l = i
      BY <2>3
    <3>2. w[i + l] = v[(i + l) - l]
      BY <1>2, <3>1
    <3> QED BY <2>1, <3>1, <3>2
  <2>4. CASE k + m < i
    <3>1. i - m \in 1 .. n /\ k < i - m /\ i - m <= k + l /\ (i - m) + m = i
      BY <2>4
    <3>2. w[i - m] = v[(i - m) + m]
      BY <1>1, <3>1
    <3> QED BY <2>1, <3>1, <3>2
  <2> QED BY <2>2, <2>3, <2>4
<1>5. ASSUME NEW i \in 1 .. num - m - 1, NEW j \in 1 .. num - m - 1, i < j
      PROVE  w[i] < w[j]
  <2>1. CASE j <= k
    <3>1. /\ w[i] = v[i] /\ w[j] = v[j]
          /\ i \in 1 .. num - 1 /\ j \in 1 .. num - 1
      BY <1>0, <1>5, <2>1
    <3> QED BY <1>3, <1>5, <3>1
  <2>2. CASE i <= k /\ k < j
    <3>1. /\ w[i] = v[i] /\ w[j] = v[j + m]
          /\ i \in 1 .. num - 1 /\ j + m \in 1 .. num - 1 /\ i < j + m
      BY SMTT(30), <1>0, <1>1, <1>5, <2>2
    <3> QED BY <1>3, <3>1
  <2>3. CASE k < i
    <3>1. i + m \in 1 .. num - 1 /\ j + m \in 1 .. num - 1 /\ i + m < j + m
      BY <1>5, <2>3
    <3>2. w[i] = v[i + m] /\ w[j] = v[j + m]
      BY <1>1, <1>5, <2>3
    <3> QED BY <1>3, <3>1, <3>2
  <2> QED BY <1>5, <2>1, <2>2, <2>3
<1>6. ASSUME NEW i \in num - m .. n, NEW j \in num - m .. n, i < j
      PROVE  w[i] < w[j]
  <2>1. CASE j <= k + l
    <3>1. i + m \in num .. n /\ j + m \in num .. n /\ i + m < j + m
      BY <1>6, <2>1
    <3>2. w[i] = v[i + m] /\ w[j] = v[j + m]
      BY <1>1, <1>6, <2>1
    <3> QED BY <1>3, <3>1, <3>2
  <2>2. CASE i <= k + l /\ k + l < j
    <3>1. /\ w[i] = v[i + m] /\ w[j] = v[j - l]
          /\ i + m \in num .. n /\ j - l \in k + 1 .. num - 1
      BY <1>1, <1>2, <1>6, <2>2
    <3> QED BY <1>3, <3>1
  <2>3. CASE k + l < i
    <3>1. i - l \in 1 .. num - 1 /\ j - l \in 1 .. num - 1 /\ i - l < j - l
      BY <1>6, <2>3
    <3>2. w[i] = v[i - l] /\ w[j] = v[j - l]
      <4>1. /\ i \in 1 .. n /\ j \in 1 .. n /\ k + l < i /\ k + l < j
        BY <1>6, <2>3
      <4> QED BY <1>2, <4>1
    <3> QED BY <1>3, <3>1, <3>2
  <2> QED BY <1>6, <2>1, <2>2, <2>3
<1>7. ASSUME NEW i \in k + 1 .. num - m - 1, NEW j \in num - m .. n PROVE w[j] < w[i]
  <2>1. w[i] = v[i + m] /\ i + m \in k + 1 .. num - 1 /\ i + m \in 1 .. num - 1
    BY <1>1, <1>7
  <2>2. CASE j <= k + l
    <3>1. w[j] = v[j + m] /\ j + m \in num .. n
      BY <1>1, <1>7, <2>2
    <3> QED BY <1>3, <2>1, <3>1
  <2>3. CASE k + l < j
    <3>1. w[j] = v[j - l] /\ j - l \in 1 .. num - 1 /\ j - l < i + m
      BY <1>2, <1>7, <2>3
    <3> QED BY <1>3, <2>1, <3>1
  <2> QED BY <1>7, <2>2, <2>3
<1> QED
  BY <1>4, <1>5, <1>6, <1>7 DEF PartsInOrder, MovedGivenBefore


---------------------------------------------------------------------------
(* Every step keeps the invariant.                                         *)

\* The indices of the parser are places of argv, or the one behind it.
LEMMA PlacesFacts ==
  ASSUME Places
  PROVE  /\ Len(line) \in Nat /\ DOMAIN line = 1 .. Len(line)
         /\ argv \in Seq(1 .. Len(line)) /\ Len(argv) = Len(line)
         /\ optnum \in Nat /\ 1 <= optnum /\ optnum <= Len(line) + 1
         /\ optind \in Nat /\ 1 <= optind /\ optind <= optnum
<1>1. Len(line) \in Nat /\ DOMAIN line = 1 .. Len(line)
  BY LenProperties DEF Places
<1> QED
  BY <1>1 DEF Places

\* The arguments start out in the order of the command line.
LEMMA InitOrdered == InitOpt => IOpt
<1> SUFFICES ASSUME InitOpt PROVE IOpt
  OBVIOUS
<1>1. line \in Seq(Seq(STRING))
  BY CommandLinesAssumption DEF InitOpt
<1>2. Len(line) \in Nat
  BY <1>1, LenProperties
<1>3. argv = [i \in 1 .. Len(line) |-> i] /\ optind = 1 /\ optnum = Len(line) + 1
  BY DEF InitOpt
<1>4. argv \in Seq(1 .. Len(line)) /\ Len(argv) = Len(line)
  BY <1>2, <1>3
<1>5. Places
  BY <1>1, <1>2, <1>3, <1>4 DEF Places
<1>6. \A i \in 1 .. Len(line) : argv[i] = i
  BY <1>3
<1>7. AllIn(argv) /\ PartsInOrder(argv, optnum) /\ MovedGivenBefore(argv, optind, optnum)
  BY <1>2, <1>3, <1>4, <1>6 DEF AllIn, PartsInOrder, MovedGivenBefore
<1> QED
  BY <1>5, <1>7 DEF IOpt

\* The m arguments after the first k, none of them moved yet, go to the end.
LEMMA RotationKeeps ==
  ASSUME IOpt, NEW k \in Nat, NEW m \in Nat, k + m < optnum, optind <= k + 1,
         line' = line, optnum' = optnum - m, optind' = k + 1,
         argv' = ToEnd(argv, k, m)
  PROVE  IOpt'
<1> DEFINE n == Len(line)
           l == n - (k + m)
<1>1. /\ n \in Nat /\ argv \in Seq(1 .. n) /\ Len(argv) = n
      /\ optnum \in Nat /\ optnum <= n + 1 /\ optind \in Nat
  BY PlacesFacts DEF IOpt
<1>2. l \in Nat /\ n = k + m + l /\ optnum \in k + m + 1 .. n + 1
  BY <1>1
<1>3. MovedGivenBefore(argv, k + 1, optnum)
  BY <1>1 DEF IOpt, MovedGivenBefore
<1>4. AllIn(argv) /\ PartsInOrder(argv, optnum) /\ line \in Seq(Seq(STRING))
  BY DEF IOpt, Places
<1> DEFINE w == argv'
<1>w. w = ToEnd(argv, k, m)
  OBVIOUS
<1> HIDE DEF n, l, w
<1>5. w \in Seq(1 .. n) /\ Len(w) = n /\ Exchanged(w, argv, k, m, l)
  BY <1>1, <1>2, <1>w, ExchangeFacts, SMTT(60)
<1>6. AllIn(w) /\ PartsInOrder(w, optnum - m) /\ MovedGivenBefore(w, k + 1, optnum - m)
  BY <1>1, <1>2, <1>3, <1>4, <1>5, ExchangeKeepsOrder, SMTT(60)
<1>7. optnum - m \in 1 .. n + 1 /\ k + 1 \in 1 .. optnum - m
  BY <1>1, <1>2
<1>8. Places'
  BY <1>4, <1>5, <1>7 DEF Places, n, w
<1> QED
  BY <1>6, <1>8 DEF IOpt, w

\* One argument is the part between a position and itself.
LEMMA OnePart ==
  ASSUME NEW S, NEW v \in Seq(S), NEW i \in 1 .. Len(v)
  PROVE  SubSeq(v, i, i) = <<v[i]>>
<1>1. Len(v) \in Nat
  BY LenProperties
<1>2. /\ SubSeq(v, i, i + 1 - 1) \in Seq(S) /\ Len(SubSeq(v, i, i + 1 - 1)) = 1
      /\ \A j \in 1 .. 1 : SubSeq(v, i, i + 1 - 1)[j] = v[i + j - 1]
  <2>1. i \in 1 .. Len(v) + 1 /\ 1 \in Nat /\ i + 1 <= Len(v) + 1
    BY <1>1
  <2> QED BY <2>1, PartFacts
<1>3. i + 1 - 1 = i
  BY <1>1
<1>4. SubSeq(v, i, i) \in Seq(S) /\ Len(SubSeq(v, i, i)) = 1 /\ SubSeq(v, i, i)[1] = v[i]
  BY <1>2, <1>3
<1>5. <<v[i]>> \in Seq(S) /\ Len(<<v[i]>>) = 1 /\ <<v[i]>>[1] = v[i]
  BY ElementOfSeq
<1> QED
  <2> DEFINE s == SubSeq(v, i, i)
             t == <<v[i]>>
  <2>1. s \in Seq(S) /\ t \in Seq(S) /\ Len(s) = Len(t)
    BY <1>4, <1>5
  <2>2. \A j \in 1 .. Len(s) : s[j] = t[j]
    BY <1>4, <1>5
  <2> HIDE DEF s, t
  <2>3. s = t
    BY <2>1, <2>2, SeqEqual
  <2> QED BY <2>3 DEF s, t

\* Moving an operand to the end preserves the invariant.
LEMMA ShiftKeeps == IOpt /\ Shift => IOpt'
<1> SUFFICES ASSUME IOpt, Shift PROVE IOpt'
  OBVIOUS
<1> DEFINE k == optind - 1
<1>1. /\ Len(line) \in Nat /\ argv \in Seq(1 .. Len(line)) /\ Len(argv) = Len(line)
      /\ optnum \in Nat /\ optnum <= Len(line) + 1 /\ optind \in Nat /\ 1 <= optind
  BY PlacesFacts DEF IOpt
<1>2. /\ line' = line /\ optind' = optind /\ optnum' = optnum - 1 /\ optind < optnum
      /\ argv' = Rotated(argv, optind)
  BY DEF Shift
<1>3. k \in Nat /\ k + 1 < optnum /\ optind <= k + 1 /\ optind' = k + 1 /\ 1 \in Nat
  BY <1>1, <1>2
<1>4. argv' = ToEnd(argv, k, 1)
  <2>1. k + 1 = optind /\ k + 1 + 1 = optind + 1 /\ optind - 1 = k
    BY <1>1
  <2>2. optind \in 1 .. Len(argv)
    BY <1>1, <1>2
  <2>3. SubSeq(argv, optind, optind) = <<argv[optind]>>
    BY <1>1, <2>2, OnePart
  <2> HIDE DEF k
  <2>4. ToEnd(argv, k, 1) =
          SubSeq(argv, 1, k) \o SubSeq(argv, k + 1 + 1, Len(argv)) \o SubSeq(argv, k + 1, k + 1)
    BY DEF ToEnd
  <2>5. argv' = SubSeq(argv, 1, optind - 1) \o SubSeq(argv, optind + 1, Len(argv)) \o <<argv[optind]>>
    BY <1>2 DEF Rotated
  <2> QED BY <2>1, <2>3, <2>4, <2>5
<1> HIDE DEF k
<1> QED
  BY <1>2, <1>3, <1>4, RotationKeeps

\* Moving all operands behind -- preserves the invariant.
LEMMA EndOfOptionsKeeps == IOpt /\ EndOfOptions => IOpt'
<1> SUFFICES ASSUME IOpt, EndOfOptions PROVE IOpt'
  OBVIOUS
<1> DEFINE m == optnum - 1 - optind
<1>1. optnum \in Nat /\ optind \in Nat
  BY PlacesFacts DEF IOpt
<1>2. /\ line' = line /\ optind' = optind + 1 /\ optnum' = optind + 1 /\ optind < optnum
      /\ argv' = RotatedRest(argv, optind + 1, optnum)
  BY DEF EndOfOptions
<1>3. /\ m \in Nat /\ optind + m < optnum /\ optind <= optind + 1 /\ optnum' = optnum - m
  BY <1>1, <1>2
<1>4. argv' = ToEnd(argv, optind, m)
  <2>1. (optind + 1) - 1 = optind /\ optind + m + 1 = optnum /\ optind + m = optnum - 1
    BY <1>1
  <2> HIDE DEF m
  <2>2. ToEnd(argv, optind, m) =
          SubSeq(argv, 1, optind) \o SubSeq(argv, optind + m + 1, Len(argv))
            \o SubSeq(argv, optind + 1, optind + m)
    BY DEF ToEnd
  <2>3. RotatedRest(argv, optind + 1, optnum) =
          SubSeq(argv, 1, (optind + 1) - 1) \o SubSeq(argv, optnum, Len(argv))
            \o SubSeq(argv, optind + 1, optnum - 1)
    BY DEF RotatedRest
  <2> QED BY <1>2, <2>1, <2>2, <2>3
<1> HIDE DEF m
<1> QED
  BY <1>1, <1>2, <1>3, <1>4, RotationKeeps

\* The other steps move nothing and leave optind at or before optnum.
LEMMA ReadingKeeps ==
  ASSUME IOpt, line' = line, argv' = argv, optnum' = optnum,
         optind <= optind', optind' <= optnum, optind' \in Nat
  PROVE  IOpt'
<1>1. /\ optind \in Nat /\ 1 <= optind /\ optnum \in Nat
  BY PlacesFacts DEF IOpt
<1>2. Places'
  <2>1. optind' \in 1 .. optnum
    BY <1>1
  <2> QED BY <2>1 DEF IOpt, Places
<1>3. MovedGivenBefore(argv, optind', optnum)
  BY <1>1 DEF IOpt, MovedGivenBefore
<1> QED
  BY <1>2, <1>3 DEF IOpt

\* An argument that is read with its option has not been moved.
LEMMA FollowingArgFacts ==
  ASSUME Places, optind < optnum
  PROVE  /\ optind <= FollowingArg.optind /\ FollowingArg.optind <= optnum
         /\ FollowingArg.optind \in Nat
<1>1. optind \in Nat /\ optnum \in Nat
  BY PlacesFacts
<1>2. CASE optind + 1 < optnum
  <2>1. FollowingArg.optind = optind + 2
    BY <1>2 DEF FollowingArg
  <2> QED BY <1>1, <1>2, <2>1
<1>3. CASE ~(optind + 1 < optnum)
  <2>1. FollowingArg.optind = optind + 1
    BY <1>3 DEF FollowingArg
  <2> QED BY <1>1, <2>1
<1> QED
  BY <1>2, <1>3

\* Every step preserves the invariant.
LEMMA StepKeeps == IOpt /\ [NextOpt]_optVars => IOpt'
<1> SUFFICES ASSUME IOpt, [NextOpt]_optVars PROVE IOpt'
  OBVIOUS
<1>1. /\ optind \in Nat /\ optnum \in Nat /\ optind <= optnum /\ Places
      /\ optind < optnum => optind + 1 <= optnum
  BY PlacesFacts DEF IOpt
<1>2. CASE Shift
  BY <1>2, ShiftKeeps
<1>3. CASE EndOfOptions
  BY <1>3, EndOfOptionsKeeps
<1>4. CASE BeginOption
  BY <1>1, <1>4, ReadingKeeps DEF BeginOption
<1>5. CASE EndOfWord
  BY <1>1, <1>5, ReadingKeeps DEF EndOfWord
<1>6. CASE EndOfArguments
  BY <1>1, <1>6, ReadingKeeps DEF EndOfArguments
<1>7. CASE ShortOption
  <2>1. optind < optnum /\ line' = line /\ argv' = argv /\ optnum' = optnum
    BY <1>7 DEF ShortOption
  <2>2. \/ optind' = optind
        \/ optind' = optind + 1
        \/ optind' = FollowingArg.optind
    BY <1>7 DEF ShortOption
  <2> QED BY <1>1, <2>1, <2>2, FollowingArgFacts, ReadingKeeps
<1>8. CASE LongOption
  <2>1. optind < optnum /\ line' = line /\ argv' = argv /\ optnum' = optnum
    BY <1>8 DEF LongOption
  <2>2. \/ optind' = optind
        \/ optind' = optind + 1
        \/ optind' = FollowingArg.optind
    BY <1>8 DEF LongOption
  <2> QED BY <1>1, <2>1, <2>2, FollowingArgFacts, ReadingKeeps
<1>9. CASE UNCHANGED optVars
  BY <1>1, <1>9, ReadingKeeps DEF optVars
<1> QED
  BY <1>2, <1>3, <1>4, <1>5, <1>6, <1>7, <1>8, <1>9 DEF NextOpt

---------------------------------------------------------------------------
(* The theorems.                                                           *)

\* The invariant gives OperandsInOrder.
LEMMA InvariantImplies == IOpt => OperandsInOrder
<1> SUFFICES ASSUME IOpt PROVE OperandsInOrder
  OBVIOUS
<1> DEFINE n == Len(line)
<1>1. /\ n \in Nat /\ DOMAIN line = 1 .. n /\ argv \in Seq(1 .. n) /\ Len(argv) = n
      /\ optnum \in Nat /\ 1 <= optnum /\ optnum <= n + 1
  BY PlacesFacts DEF IOpt
<1>2. /\ \A i, j \in 1 .. optnum - 1 : i < j => argv[i] < argv[j]
      /\ \A i, j \in optnum .. n : i < j => argv[i] < argv[j]
      /\ \A k \in 1 .. n : \E i \in 1 .. n : argv[i] = k
  BY <1>1 DEF IOpt, PartsInOrder, AllIn
<1> HIDE DEF n
<1>3. Increasing(SubSeq(argv, 1, optnum - 1))
  <2> DEFINE m == optnum - 1
             part == SubSeq(argv, 1, m)
  <2>1. m \in Nat /\ 1 \in 1 .. Len(argv) + 1 /\ 1 + m <= Len(argv) + 1 /\ 1 + m - 1 = m
    BY <1>1
  <2> HIDE DEF m
  <2>2. /\ part \in Seq(1 .. n) /\ Len(part) = m
        /\ \A j \in 1 .. m : part[j] = argv[1 + j - 1]
    BY <1>1, <2>1, PartFacts
  <2> HIDE DEF part
  <2>3. DOMAIN part = 1 .. m
    BY <2>2, LenProperties
  <2>4. \A j \in 1 .. m : part[j] = argv[j]
    BY <2>2
  <2>5. Increasing(part)
    BY <1>2, <2>3, <2>4 DEF Increasing, m
  <2> QED BY <2>5 DEF part, m
<1>4. Increasing(SubSeq(argv, optnum, Len(argv)))
  <2> DEFINE m == n + 1 - optnum
             part == SubSeq(argv, optnum, n)
  <2>1. /\ m \in Nat /\ optnum \in 1 .. Len(argv) + 1 /\ optnum + m <= Len(argv) + 1
        /\ optnum + m - 1 = n
    BY <1>1
  <2>2. ASSUME NEW j \in 1 .. m PROVE optnum + j - 1 \in optnum .. n
    BY <1>1, <2>2
  <2> HIDE DEF m
  <2>3. /\ part \in Seq(1 .. n) /\ Len(part) = m
        /\ \A j \in 1 .. m : part[j] = argv[optnum + j - 1]
    BY <1>1, <2>1, PartFacts
  <2> HIDE DEF part
  <2>4. DOMAIN part = 1 .. m
    BY <2>3, LenProperties
  <2>5. ASSUME NEW i \in 1 .. m, NEW j \in 1 .. m, i < j PROVE part[i] < part[j]
    <3>1. optnum + i - 1 < optnum + j - 1
      BY <1>1, <2>5
    <3>2. argv[optnum + i - 1] < argv[optnum + j - 1]
      BY <1>2, <2>2, <3>1
    <3> QED BY <2>3, <3>2
  <2>6. Increasing(part)
    BY <2>4, <2>5 DEF Increasing
  <2> QED BY <1>1, <2>6 DEF part
<1>5. ToSet(argv) = DOMAIN line
  <2>1. DOMAIN argv = 1 .. n /\ \A i \in 1 .. n : argv[i] \in 1 .. n
    BY <1>1, LenProperties, ElementOfSeq
  <2> QED BY <1>1, <1>2, <2>1 DEF ToSet
<1> QED
  BY <1>3, <1>4, <1>5 DEF OperandsInOrder

\* The three parts of argv stay in the order of the command line.
THEOREM CommandLineInvariant == SpecOpt => []IOpt
<1> QED
  BY InitOrdered, StepKeeps, PTL DEF SpecOpt

\* Whatever the options and the command line are, cmdopt_get loses no argument,
\* puts every operand that it has passed behind the options and keeps the order
\* of both (cmdopt_shift and the end of options, cmdopt.cc:8-20 and 82-88).
THEOREM OperandsKeepOrder == SpecOpt => []OperandsInOrder
<1> QED
  BY CommandLineInvariant, InvariantImplies, PTL

===========================================================================
