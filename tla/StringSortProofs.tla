-------------------------- MODULE StringSortProofs -------------------------
(***************************************************************************)
(* What algorithm::sort does, for every input and threshold: the strings   *)
(* come out sorted, none lost and none twice, the result is the number of  *)
(* distinct ones, the strings of a call agree up to its depth, and the     *)
(* stack is no deeper than log2 of their number.                           *)
(*                                                                         *)
(* The invariant, SortInv, has a conjunct per reason: two strings that no  *)
(* call has both of are in order (Ordered) and differ if one is in a call  *)
(* (Distinguished); the labels on either side of the marks compare with    *)
(* the pivot (Partitioned); what insertion has passed is sorted (Inserted);*)
(* count is the number of distinct strings outside the calls and behind    *)
(* the insertion (Counted).                                                *)
(***************************************************************************)
EXTENDS StringSort, ProofLemmas, SequenceTheorems

---------------------------------------------------------------------------
(* The order of strings, further.                                         *)

\* Strings that agree in their first d characters compare as what follows.
SharePrefix(a, b, d) == d <= Len(a) /\ d <= Len(b) /\ \A q \in 1 .. d : a[q] = b[q]

\* Strings that share a beginning are ordered by what follows it.
LEMMA StrLeqSuffix ==
  ASSUME NEW a \in Seq(Nat), NEW b \in Seq(Nat), NEW d \in Nat, SharePrefix(a, b, d)
  PROVE  StrLeq(SubSeq(a, d + 1, Len(a)), SubSeq(b, d + 1, Len(b))) <=> StrLeq(a, b)
<1> DEFINE x == SubSeq(a, d + 1, Len(a))
           y == SubSeq(b, d + 1, Len(b))
<1>1. /\ Len(a) \in Nat /\ Len(b) \in Nat /\ d <= Len(a) /\ d <= Len(b)
      /\ \A q \in 1 .. Len(a) : a[q] \in Nat
      /\ \A q \in 1 .. Len(b) : b[q] \in Nat
      /\ \A q \in 1 .. d : a[q] = b[q]
  BY LenProperties, ElementOfSeq DEF SharePrefix
<1>2. /\ Len(x) = Len(a) - d /\ \A q \in 1 .. Len(a) - d : x[q] = a[d + q]
  BY <1>1, SubSeqProperties
<1>3. /\ Len(y) = Len(b) - d /\ \A q \in 1 .. Len(b) - d : y[q] = b[d + q]
  BY <1>1, SubSeqProperties
<1> HIDE DEF x, y
<1>4. ASSUME StrLeq(x, y) PROVE StrLeq(a, b)
  <2>1. CASE Len(x) <= Len(y) /\ \A q \in 1 .. Len(x) : x[q] = y[q]
    <3>1. Len(a) <= Len(b)
      BY <1>1, <1>2, <1>3, <2>1
    <3>2. ASSUME NEW q \in 1 .. Len(a) PROVE a[q] = b[q]
      <4>1. CASE q <= d
        BY <1>1, <4>1
      <4>2. CASE q > d
        <5>1. q - d \in 1 .. Len(x) /\ d + (q - d) = q /\ q - d \in 1 .. Len(y)
          BY <1>1, <1>2, <1>3, <2>1, <4>2
        <5> QED BY <1>2, <1>3, <2>1, <5>1
      <4> QED BY <1>1, <4>1, <4>2
    <3> QED BY <3>1, <3>2 DEF StrLeq
  <2>2. ASSUME NEW k \in 1 .. Len(x), k <= Len(y), x[k] < y[k], \A q \in 1 .. k - 1 : x[q] = y[q]
        PROVE  StrLeq(a, b)
    <3>1. d + k \in 1 .. Len(a) /\ d + k <= Len(b) /\ a[d + k] < b[d + k]
      BY <1>1, <1>2, <1>3, <2>2
    <3>2. ASSUME NEW q \in 1 .. d + k - 1 PROVE a[q] = b[q]
      <4>1. CASE q <= d
        BY <1>1, <4>1
      <4>2. CASE q > d
        <5>1. q - d \in 1 .. k - 1 /\ d + (q - d) = q /\ q - d \in 1 .. Len(y) /\ q - d \in 1 .. Len(x)
          BY <1>1, <1>2, <1>3, <2>2, <4>2
        <5> QED BY <1>2, <1>3, <2>2, <5>1
      <4> QED BY <1>1, <4>1, <4>2
    <3> QED BY <3>1, <3>2 DEF StrLeq
  <2> QED BY <1>4, <2>1, <2>2 DEF StrLeq
<1>5. ASSUME StrLeq(a, b) PROVE StrLeq(x, y)
  <2>1. CASE Len(a) <= Len(b) /\ \A q \in 1 .. Len(a) : a[q] = b[q]
    <3>1. Len(x) <= Len(y)
      BY <1>1, <1>2, <1>3, <2>1
    <3>2. ASSUME NEW q \in 1 .. Len(x) PROVE x[q] = y[q]
      <4>1. d + q \in 1 .. Len(a) /\ q \in 1 .. Len(a) - d /\ q \in 1 .. Len(b) - d
        BY <1>1, <1>2, <1>3, <2>1
      <4> QED BY <1>2, <1>3, <2>1, <4>1
    <3> QED BY <3>1, <3>2 DEF StrLeq
  <2>2. ASSUME NEW k \in 1 .. Len(a), k <= Len(b), a[k] < b[k], \A q \in 1 .. k - 1 : a[q] = b[q]
        PROVE  StrLeq(x, y)
    <3>1. k > d
      BY <1>1, <2>2
    <3>2. k - d \in 1 .. Len(x) /\ k - d <= Len(y) /\ d + (k - d) = k /\ k - d \in 1 .. Len(b) - d
      BY <1>1, <1>2, <1>3, <2>2, <3>1
    <3>3. x[k - d] < y[k - d]
      BY <1>2, <1>3, <2>2, <3>2
    <3>4. ASSUME NEW q \in 1 .. k - d - 1 PROVE x[q] = y[q]
      <4>1. q \in 1 .. Len(a) - d /\ q \in 1 .. Len(b) - d /\ d + q \in 1 .. k - 1
        BY <1>1, <2>2, <3>1
      <4> QED BY <1>2, <1>3, <2>2, <4>1
    <3> QED BY <3>2, <3>3, <3>4 DEF StrLeq
  <2> QED BY <1>5, <2>1, <2>2 DEF StrLeq
<1> QED BY <1>4, <1>5 DEF x, y

---------------------------------------------------------------------------
(* The calls.                                                              *)

CallSet == [l : Nat, r : Nat, depth : Nat, level : Nat]

Apart(c, d) == c.r <= d.l \/ d.r <= c.l
AllApart(calls) == \A k, m \in DOMAIN calls : k # m => Apart(calls[k], calls[m])

Rest == Range(Tail(work))

\* The calls of the stack are the current one and the rest, all apart.
LEMMA WorkRest ==
  ASSUME work \in Seq(CallSet), work # <<>>, AllApart(work)
  PROVE  /\ Range(work) = {Current} \cup Rest /\ Current \in CallSet
         /\ Tail(work) \in Seq(CallSet) /\ AllApart(Tail(work))
         /\ \A c \in Rest : c \in CallSet /\ Apart(Current, c)
<1> DEFINE n == Len(work)
           t == Tail(work)
<1>1. /\ n \in Nat /\ n >= 1 /\ DOMAIN work = 1 .. n /\ Current = work[1]
      /\ t \in Seq(CallSet) /\ Len(t) = n - 1 /\ DOMAIN t = 1 .. n - 1
      /\ \A k \in 1 .. n - 1 : t[k] = work[k + 1]
      /\ \A k \in 1 .. n : work[k] \in CallSet
  <2>1. n \in Nat /\ n >= 1
    BY LenProperties, EmptySeq
  <2>2. t \in Seq(CallSet) /\ Len(t) = n - 1 /\ \A k \in 1 .. n - 1 : t[k] = work[k + 1]
    BY HeadTailProperties
  <2>3. \A k \in 1 .. n : work[k] \in CallSet
    BY ElementOfSeq
  <2> QED BY <2>1, <2>2, <2>3, LenProperties DEF Current
<1> HIDE DEF n, t
<1>2. \A k \in 1 .. n - 1 : k + 1 \in 1 .. n /\ k + 1 # 1
  BY <1>1
<1>3. \A k \in 1 .. n : k = 1 \/ (k - 1 \in 1 .. n - 1 /\ (k - 1) + 1 = k)
  BY <1>1
<1>4. Range(work) = {Current} \cup Range(t)
  <2>1. ASSUME NEW k \in 1 .. n PROVE work[k] \in {Current} \cup Range(t)
    <3>1. CASE k = 1
      BY <1>1, <3>1
    <3>2. CASE k # 1
      <4>1. k - 1 \in DOMAIN t /\ t[k - 1] = work[k]
        BY <1>1, <1>3, <3>2
      <4> QED BY <4>1 DEF Range
    <3> QED BY <3>1, <3>2
  <2>2. \A k \in 1 .. n - 1 : t[k] \in Range(work)
    BY <1>1, <1>2 DEF Range
  <2>3. Current \in Range(work)
    BY <1>1 DEF Range
  <2> QED BY <1>1, <2>1, <2>2, <2>3 DEF Range
<1>5. AllApart(t)
  <2> SUFFICES ASSUME NEW k \in 1 .. n - 1, NEW m \in 1 .. n - 1, k # m PROVE Apart(t[k], t[m])
    BY <1>1 DEF AllApart
  <2>1. k + 1 \in 1 .. n /\ m + 1 \in 1 .. n /\ k + 1 # m + 1
    BY <1>1
  <2> QED BY <1>1, <2>1 DEF AllApart
<1>6. \A c \in Range(t) : c \in CallSet /\ Apart(Current, c)
  <2> SUFFICES ASSUME NEW k \in 1 .. n - 1 PROVE t[k] \in CallSet /\ Apart(Current, t[k])
    BY <1>1 DEF Range
  <2>1. k + 1 \in 1 .. n /\ 1 \in 1 .. n /\ k + 1 # 1
    BY <1>1
  <2> QED BY <1>1, <2>1 DEF AllApart
<1> QED BY <1>1, <1>4, <1>5, <1>6 DEF Rest, t

\* Two stacks of calls that are apart make one stack.
LEMMA ConcatCalls ==
  ASSUME NEW s \in Seq(CallSet), NEW t \in Seq(CallSet), AllApart(s), AllApart(t),
         \A c \in Range(s), d \in Range(t) : Apart(c, d)
  PROVE  s \o t \in Seq(CallSet) /\ AllApart(s \o t) /\ Range(s \o t) = Range(s) \cup Range(t)
<1> DEFINE u == s \o t
<1>1. /\ Len(s) \in Nat /\ Len(t) \in Nat /\ u \in Seq(CallSet) /\ Len(u) = Len(s) + Len(t)
      /\ \A i \in 1 .. Len(s) + Len(t) : u[i] = IF i <= Len(s) THEN s[i] ELSE t[i - Len(s)]
      /\ DOMAIN s = 1 .. Len(s) /\ DOMAIN t = 1 .. Len(t) /\ DOMAIN u = 1 .. Len(s) + Len(t)
  BY ConcatProperties, LenProperties
<1> HIDE DEF u
<1>2. ASSUME NEW i \in DOMAIN u
      PROVE  \/ i \in DOMAIN s /\ u[i] = s[i]
             \/ i - Len(s) \in DOMAIN t /\ u[i] = t[i - Len(s)] /\ i \notin DOMAIN s
  BY <1>1
<1>3. \A i \in DOMAIN s : i \in DOMAIN u /\ u[i] = s[i]
  BY <1>1
<1>4. ASSUME NEW i \in DOMAIN t PROVE i + Len(s) \in DOMAIN u /\ u[i + Len(s)] = t[i]
  <2>1. i + Len(s) \in 1 .. Len(s) + Len(t) /\ ~(i + Len(s) <= Len(s)) /\ (i + Len(s)) - Len(s) = i
    BY <1>1
  <2> QED BY <1>1, <2>1
<1>5. Range(u) = Range(s) \cup Range(t)
  BY <1>2, <1>3, <1>4 DEF Range
<1>6. AllApart(u)
  <2> SUFFICES ASSUME NEW k \in DOMAIN u, NEW m \in DOMAIN u, k # m PROVE Apart(u[k], u[m])
    BY DEF AllApart
  <2>1. CASE k \in DOMAIN s /\ m \in DOMAIN s
    BY <1>3, <2>1 DEF AllApart
  <2>2. CASE k \in DOMAIN s /\ m \notin DOMAIN s
    <3>1. u[k] \in Range(s) /\ u[m] \in Range(t)
      BY <1>2, <1>3, <2>2 DEF Range
    <3> QED BY <3>1
  <2>3. CASE k \notin DOMAIN s /\ m \in DOMAIN s
    <3>1. u[m] \in Range(s) /\ u[k] \in Range(t)
      BY <1>2, <1>3, <2>3 DEF Range
    <3> QED BY <3>1 DEF Apart
  <2>4. CASE k \notin DOMAIN s /\ m \notin DOMAIN s
    <3>1. k - Len(s) # m - Len(s)
      BY <1>1
    <3> QED BY <1>2, <2>4, <3>1 DEF AllApart
  <2> QED BY <2>1, <2>2, <2>3, <2>4
<1> QED BY <1>1, <1>5, <1>6 DEF u

\* So do three.
LEMMA ThreeCalls ==
  ASSUME NEW s \in Seq(CallSet), NEW t \in Seq(CallSet), NEW u \in Seq(CallSet),
         AllApart(s), AllApart(t), AllApart(u),
         \A c \in Range(s), d \in Range(t) : Apart(c, d),
         \A c \in Range(s), d \in Range(u) : Apart(c, d),
         \A c \in Range(t), d \in Range(u) : Apart(c, d)
  PROVE  /\ s \o t \o u \in Seq(CallSet) /\ AllApart(s \o t \o u)
         /\ Range(s \o t \o u) = Range(s) \cup Range(t) \cup Range(u)
<1>1. PICK v : v = s \o t
  OBVIOUS
<1>2. v \in Seq(CallSet) /\ AllApart(v) /\ Range(v) = Range(s) \cup Range(t)
  BY <1>1, ConcatCalls
<1>3. v \o u \in Seq(CallSet) /\ AllApart(v \o u) /\ Range(v \o u) = Range(v) \cup Range(u)
  BY <1>2, ConcatCalls
<1> QED BY <1>1, <1>2, <1>3

\* A range is called just if it has two strings or more.
LEMMA OneCall ==
  ASSUME NEW c \in CallSet
  PROVE  /\ Calls(c) \in Seq(CallSet) /\ AllApart(Calls(c))
         /\ Range(Calls(c)) = {d \in {c} : Size(d) > 1}
<1>1. CASE Size(c) > 1
  <2>1. Calls(c) = <<c>>
    BY <1>1 DEF Calls
  <2>2. {d \in {c} : Size(d) > 1} = {c}
    BY <1>1
  <2>3. <<c>> \in Seq(CallSet) /\ AllApart(<<c>>) /\ Range(<<c>>) = {c}
    BY DEF AllApart, Range
  <2> QED BY <2>1, <2>2, <2>3
<1>2. CASE ~(Size(c) > 1)
  <2>1. Calls(c) = <<>> /\ {d \in {c} : Size(d) > 1} = {}
    BY <1>2 DEF Calls
  <2>2. <<>> \in Seq(CallSet) /\ AllApart(<<>>) /\ Range(<<>>) = {}
    BY DEF AllApart, Range
  <2> QED BY <2>1, <2>2
<1> QED BY <1>1, <1>2

\* The parts that Split makes calls for.
MidLargest == MiddleIsLargest(Current.l, Current.r)
GreaterLargest == ~MidLargest /\ pl - Current.l < Current.r - pr
NextLevel(largest) == Current.level + IF largest THEN 0 ELSE 1
LessPart == Call(Current.l, pl, Current.depth, NextLevel(~MidLargest /\ ~GreaterLargest))
GreaterPart == Call(pr, Current.r, Current.depth, NextLevel(GreaterLargest))
MiddlePart == Call(pl, pr, NextDepth(Current.depth), NextLevel(MidLargest))
Parts == {LessPart, GreaterPart} \cup (IF IsEnd(pivot) THEN {} ELSE {MiddlePart})

\* The calls that a split leaves are its parts with two strings or more.
LEMMA SplitCalls ==
  ASSUME Current \in CallSet, pl \in Nat, pr \in Nat,
         Current.l <= pl, pl <= pr, pr <= Current.r
  PROVE  /\ SplitParts.calls \in Seq(CallSet) /\ AllApart(SplitParts.calls)
         /\ Range(SplitParts.calls) = {c \in Parts : Size(c) > 1}
         /\ Parts \subseteq CallSet
<1> DEFINE ofMiddle == IF IsEnd(pivot) THEN <<>> ELSE Calls(MiddlePart)
           M == IF IsEnd(pivot) THEN {} ELSE {MiddlePart}
<1>1. SplitParts.calls = IF MidLargest THEN Calls(LessPart) \o Calls(GreaterPart) \o ofMiddle
                 ELSE IF GreaterLargest THEN ofMiddle \o Calls(LessPart) \o Calls(GreaterPart)
                 ELSE ofMiddle \o Calls(GreaterPart) \o Calls(LessPart)
  BY DEF SplitParts, MidLargest, GreaterLargest, NextLevel, LessPart, GreaterPart, MiddlePart
<1>2. /\ Current.l \in Nat /\ Current.r \in Nat /\ Current.depth \in Nat /\ Current.level \in Nat
  BY DEF CallSet
<1>3. /\ LessPart \in CallSet /\ GreaterPart \in CallSet /\ MiddlePart \in CallSet
      /\ Apart(LessPart, GreaterPart) /\ Apart(LessPart, MiddlePart) /\ Apart(GreaterPart, MiddlePart)
      /\ Apart(GreaterPart, LessPart) /\ Apart(MiddlePart, LessPart) /\ Apart(MiddlePart, GreaterPart)
  BY <1>2 DEF LessPart, GreaterPart, MiddlePart, Call, CallSet, Apart, NextLevel, NextDepth
<1>4. /\ ofMiddle \in Seq(CallSet) /\ AllApart(ofMiddle)
      /\ Range(ofMiddle) = {c \in M : Size(c) > 1}
  <2>1. CASE IsEnd(pivot)
    <3>1. <<>> \in Seq(CallSet) /\ AllApart(<<>>) /\ Range(<<>>) = {}
      BY DEF AllApart, Range
    <3> QED BY <2>1, <3>1
  <2>2. CASE ~IsEnd(pivot)
    BY <1>3, <2>2, OneCall
  <2> QED BY <2>1, <2>2
<1>5. /\ Calls(LessPart) \in Seq(CallSet) /\ AllApart(Calls(LessPart))
      /\ Range(Calls(LessPart)) = {c \in {LessPart} : Size(c) > 1}
      /\ Calls(GreaterPart) \in Seq(CallSet) /\ AllApart(Calls(GreaterPart))
      /\ Range(Calls(GreaterPart)) = {c \in {GreaterPart} : Size(c) > 1}
  BY <1>3, OneCall
<1> HIDE DEF ofMiddle
<1> DEFINE a == Calls(LessPart)
           b == Calls(GreaterPart)
           m == ofMiddle
<1>6. /\ \A c \in Range(a), d \in Range(b) : Apart(c, d) /\ Apart(d, c)
      /\ \A c \in Range(a), d \in Range(m) : Apart(c, d) /\ Apart(d, c)
      /\ \A c \in Range(b), d \in Range(m) : Apart(c, d) /\ Apart(d, c)
  <2>1. /\ \A c \in Range(a) : c = LessPart
        /\ \A c \in Range(b) : c = GreaterPart
        /\ \A c \in Range(m) : c = MiddlePart
    BY <1>4, <1>5
  <2> QED BY <1>3, <2>1
<1>7. {c \in Parts : Size(c) > 1} = Range(a) \cup Range(b) \cup Range(m)
  BY <1>4, <1>5 DEF Parts
<1>8. Parts \subseteq CallSet
  BY <1>3 DEF Parts
<1> HIDE DEF a, b, M
<1> HIDE DEF Parts
<1>9. CASE MidLargest
  <2>1. SplitParts.calls = a \o b \o m
    BY <1>1, <1>9 DEF a, b
  <2>2. /\ a \o b \o m \in Seq(CallSet) /\ AllApart(a \o b \o m)
        /\ Range(a \o b \o m) = Range(a) \cup Range(b) \cup Range(m)
    BY <1>4, <1>5, <1>6, ThreeCalls DEF a, b
  <2> QED BY <1>7, <1>8, <2>1, <2>2
<1>10. CASE ~MidLargest /\ GreaterLargest
  <2>1. SplitParts.calls = m \o a \o b
    BY <1>1, <1>10 DEF a, b
  <2>2. /\ m \o a \o b \in Seq(CallSet) /\ AllApart(m \o a \o b)
        /\ Range(m \o a \o b) = Range(m) \cup Range(a) \cup Range(b)
    BY <1>4, <1>5, <1>6, ThreeCalls DEF a, b
  <2> QED BY <1>7, <1>8, <2>1, <2>2
<1>11. CASE ~MidLargest /\ ~GreaterLargest
  <2>1. SplitParts.calls = m \o b \o a
    BY <1>1, <1>11 DEF a, b
  <2>2. /\ m \o b \o a \in Seq(CallSet) /\ AllApart(m \o b \o a)
        /\ Range(m \o b \o a) = Range(m) \cup Range(b) \cup Range(a)
    BY <1>4, <1>5, <1>6, ThreeCalls DEF a, b
  <2> QED BY <1>7, <1>8, <2>1, <2>2
<1> QED BY <1>9, <1>10, <1>11

---------------------------------------------------------------------------
(* The strings.                                                            *)

\* The strings of a range in another order, the others as they were.
Places(p, n, lo, hi) ==
  /\ p \in Bijection(1 .. n, 1 .. n)
  /\ \A i \in 1 .. n : p[i] = i \/ (i \in lo + 1 .. hi /\ p[i] \in lo + 1 .. hi)

Rearranged(u, v, lo, hi) ==
  /\ v \in Seq(Seq(Nat)) /\ Len(v) = Len(u)
  /\ \E p : Places(p, Len(u), lo, hi) /\ \A i \in 1 .. Len(u) : v[i] = u[p[i]]

\* Strings read through a permutation of the places of a range are rearranged in it.
LEMMA ByPlaces ==
  ASSUME NEW u \in Seq(Seq(Nat)), NEW lo \in Nat, NEW hi \in Nat, hi <= Len(u),
         NEW v, DOMAIN v = 1 .. Len(u), NEW p, Places(p, Len(u), lo, hi),
         \A i \in 1 .. Len(u) : v[i] = u[p[i]], v = [i \in DOMAIN v |-> v[i]]
  PROVE  Rearranged(u, v, lo, hi)
<1>1. Len(u) \in Nat /\ \A i \in 1 .. Len(u) : u[i] \in Seq(Nat)
  BY LenProperties, ElementOfSeq
<1>2. \A i \in 1 .. Len(u) : p[i] \in 1 .. Len(u)
  BY DEF Places, Bijection, Injection, Surjection
<1>3. v \in [1 .. Len(u) -> Seq(Nat)]
  BY <1>1, <1>2
<1>4. v \in Seq(Seq(Nat)) /\ Len(v) = Len(u)
  <2>1. v \in Seq(Seq(Nat))
    <3>1. PICK S : S = Seq(Nat)
      OBVIOUS
    <3>2. PICK n \in Nat : v \in [1 .. n -> S]
      BY <1>1, <1>3, <3>1
    <3>3. v \in Seq(S)
      BY <3>2, SeqDef
    <3> QED BY <3>1, <3>3
  <2> QED BY <1>1, <2>1, LenProperties
<1> QED BY <1>4 DEF Rearranged

\* Where nothing moves, the strings are rearranged trivially.
LEMMA NothingMoved ==
  ASSUME NEW u \in Seq(Seq(Nat)), NEW lo \in Nat, NEW hi \in Nat
  PROVE  Rearranged(u, u, lo, hi)
<1> DEFINE p == [i \in 1 .. Len(u) |-> i]
<1>1. p \in Bijection(1 .. Len(u), 1 .. Len(u))
  BY Fun_IsBij
<1>2. Places(p, Len(u), lo, hi) /\ \A i \in 1 .. Len(u) : u[i] = u[p[i]]
  BY <1>1 DEF Places
<1> HIDE DEF p
<1> QED BY <1>2 DEF Rearranged

\* A swap rearranges the strings of the range it is in.
LEMMA SwapMoves ==
  ASSUME units \in Seq(Seq(Nat)), NEW lo \in Nat, NEW hi \in Nat, hi <= Len(units),
         NEW i \in lo .. hi - 1, NEW j \in lo .. hi - 1
  PROVE  /\ Rearranged(units, Swapped(i, j), lo, hi)
         /\ \A k \in 0 .. Len(units) - 1 :
              Swapped(i, j)[k + 1] = IF k = j THEN units[i + 1]
                                     ELSE IF k = i THEN units[j + 1] ELSE units[k + 1]
<1> DEFINE n == Len(units)
           v == Swapped(i, j)
           p == [k \in 1 .. n |-> IF k = j + 1 THEN i + 1 ELSE IF k = i + 1 THEN j + 1 ELSE k]
<1>1. n \in Nat /\ DOMAIN units = 1 .. n
  BY LenProperties
<1>2. i + 1 \in 1 .. n /\ j + 1 \in 1 .. n /\ i + 1 \in lo + 1 .. hi /\ j + 1 \in lo + 1 .. hi
  BY <1>1
<1>3. /\ DOMAIN v = 1 .. n /\ v = [k \in DOMAIN v |-> v[k]]
      /\ \A k \in 1 .. n : v[k] = IF k = j + 1 THEN units[i + 1]
                                  ELSE IF k = i + 1 THEN units[j + 1] ELSE units[k]
  BY <1>1, <1>2 DEF Swapped
<1> HIDE DEF v, n
<1>4. p \in [1 .. n -> 1 .. n]
  BY <1>2
<1>5. \A k \in 1 .. n : p[p[k]] = k
  BY <1>2
<1>6. Places(p, n, lo, hi)
  <2>1. \A k \in 1 .. n : p[k] = k \/ (k \in lo + 1 .. hi /\ p[k] \in lo + 1 .. hi)
    BY <1>2
  <2> HIDE DEF p
  <2>2. \A k, m \in 1 .. n : p[k] = p[m] => k = m
    BY <1>5
  <2>3. \A m \in 1 .. n : \E k \in 1 .. n : p[k] = m
    BY <1>4, <1>5
  <2>4. p \in Bijection(1 .. n, 1 .. n)
    BY <1>4, <2>2, <2>3, Fun_IsBij
  <2> QED BY <2>1, <2>4 DEF Places
<1>7. \A k \in 1 .. n : v[k] = units[p[k]]
  BY <1>3
<1> HIDE DEF p
<1>8. Rearranged(units, v, lo, hi)
  BY <1>3, <1>6, <1>7, ByPlaces DEF n
<1>9. \A k \in 0 .. n - 1 : v[k + 1] = IF k = j THEN units[i + 1]
                                      ELSE IF k = i THEN units[j + 1] ELSE units[k + 1]
  <2> TAKE k \in 0 .. n - 1
  <2>1. k + 1 \in 1 .. n /\ (k + 1 = j + 1 <=> k = j) /\ (k + 1 = i + 1 <=> k = i)
    BY <1>1
  <2> QED BY <1>3, <2>1
<1> QED BY <1>8, <1>9 DEF v, n

\* v is u with the string at i + 1 put behind the one at j.
PutBehind(u, v, i, j) ==
  /\ v[j + 1] = u[i + 1]
  /\ \A q \in j + 2 .. i + 1 : v[q] = u[q - 1]
  /\ \A q \in 1 .. Len(u) : q \notin j + 1 .. i + 1 => v[q] = u[q]

\* The string at i goes to j, those between move up.
PutIn(u, v, i, j) ==
  /\ DOMAIN v = DOMAIN u /\ v = [q \in DOMAIN v |-> v[q]]
  /\ \A q \in DOMAIN u : v[q] = IF q = j + 1 THEN u[i + 1]
                                 ELSE IF q - 1 \in j + 1 .. i THEN u[q - 1] ELSE u[q]

\* So does the insertion of one string before others.
LEMMA InsertMoves ==
  ASSUME NEW u \in Seq(Seq(Nat)), NEW lo \in Nat, NEW hi \in Nat, hi <= Len(u),
         NEW i \in lo .. hi - 1, NEW j \in lo .. i,
         NEW v, PutIn(u, v, i, j)
  PROVE  Rearranged(u, v, lo, hi) /\ PutBehind(u, v, i, j)
<1> DEFINE n == Len(u)
           p == [q \in 1 .. n |-> IF q = j + 1 THEN i + 1
                                  ELSE IF q - 1 \in j + 1 .. i THEN q - 1 ELSE q]
<1>1. n \in Nat /\ DOMAIN u = 1 .. n
  BY LenProperties
<1> HIDE DEF n
<1>0. /\ i \in Int /\ j \in Int /\ j + 1 >= 1 /\ j <= i /\ i + 1 <= n
      /\ \A q \in 1 .. n : q \in Int /\ q >= 1 /\ q <= n
  BY <1>1 DEF n
<1>2. /\ DOMAIN v = 1 .. n /\ v = [q \in DOMAIN v |-> v[q]]
      /\ \A q \in 1 .. n : v[q] = IF q = j + 1 THEN u[i + 1]
                                  ELSE IF q - 1 \in j + 1 .. i THEN u[q - 1] ELSE u[q]
  BY <1>1 DEF PutIn
<1>3. i + 1 \in 1 .. n /\ j + 1 \in 1 .. n /\ n >= hi
  BY <1>1 DEF n
<1>4. p \in [1 .. n -> 1 .. n]
  BY <1>1, <1>3
<1>5. \A q \in 1 .. n : p[q] = q \/ (q \in lo + 1 .. hi /\ p[q] \in lo + 1 .. hi)
  BY <1>1, <1>3
<1>6. ASSUME NEW q \in 1 .. n, NEW r \in 1 .. n, p[q] = p[r] PROVE q = r
  <2>1. p[q] = IF q = j + 1 THEN i + 1 ELSE IF j + 1 <= q - 1 /\ q - 1 <= i THEN q - 1 ELSE q
    BY <1>0
  <2>2. p[r] = IF r = j + 1 THEN i + 1 ELSE IF j + 1 <= r - 1 /\ r - 1 <= i THEN r - 1 ELSE r
    BY <1>0
  <2> HIDE DEF p
  <2>3. (IF q = j + 1 THEN i + 1 ELSE IF j + 1 <= q - 1 /\ q - 1 <= i THEN q - 1 ELSE q)
         = IF r = j + 1 THEN i + 1 ELSE IF j + 1 <= r - 1 /\ r - 1 <= i THEN r - 1 ELSE r
    BY <1>6, <2>1, <2>2
  <2>4. q \in Int /\ r \in Int /\ i \in Int /\ j \in Int /\ j <= i
    BY <1>0
  <2> QED BY <2>3, <2>4
<1>7. ASSUME NEW m \in 1 .. n PROVE \E q \in 1 .. n : p[q] = m
  <2>1. CASE m = i + 1
    BY <1>3, <2>1
  <2>2. CASE m \in j + 1 .. i
    <3>1. m + 1 \in 1 .. n /\ m + 1 # j + 1 /\ (m + 1) - 1 = m
      BY <1>0, <1>1, <2>2
    <3>2. p[m + 1] = m
      BY <2>2, <3>1
    <3> QED BY <3>1, <3>2
  <2>3. CASE m # i + 1 /\ m \notin j + 1 .. i
    <3>1. m # j + 1 /\ m - 1 \notin j + 1 .. i
      BY <2>3
    <3>2. p[m] = m
      BY <3>1
    <3> QED BY <3>2
  <2> QED BY <2>1, <2>2, <2>3
<1>8. \A q \in 1 .. n : v[q] = u[p[q]]
  BY <1>2
<1> HIDE DEF p
<1>9. Places(p, n, lo, hi)
  BY <1>4, <1>5, <1>6, <1>7, Fun_IsBij DEF Places
<1>10. Rearranged(u, v, lo, hi)
  BY <1>2, <1>8, <1>9, ByPlaces DEF n
<1>11. v[j + 1] = u[i + 1]
  BY <1>2, <1>3
<1>12. \A q \in j + 2 .. i + 1 : v[q] = u[q - 1]
  <2> TAKE q \in j + 2 .. i + 1
  <2>1. q \in 1 .. n /\ q # j + 1 /\ q - 1 \in j + 1 .. i
    BY <1>0, <1>1
  <2> QED BY <1>2, <2>1
<1>13. \A q \in 1 .. n : q \notin j + 1 .. i + 1 => v[q] = u[q]
  <2> TAKE q \in 1 .. n
  <2> HAVE q \notin j + 1 .. i + 1
  <2>1. q # j + 1 /\ q - 1 \notin j + 1 .. i
    BY <1>3
  <2> QED BY <1>2, <2>1
<1> QED BY <1>10, <1>11, <1>12, <1>13 DEF n, PutBehind

---------------------------------------------------------------------------
(* The invariant.  Elements of units are counted from 1: a call owns those *)
(* from l + 1 to r.                                                        *)

Owns(c, i) == c.l < i /\ i <= c.r

\* The strings are those that were given.
Permuted(g, u) ==
  \E p \in Bijection(1 .. Len(g), 1 .. Len(g)) : \A i \in 1 .. Len(g) : u[i] = g[p[i]]

\* Two strings that no call has both of are in order,
Ordered(u, calls) ==
  \A i, j \in 1 .. Len(u) :
    i < j => StrLeq(u[i], u[j]) \/ \E c \in calls : Owns(c, i) /\ Owns(c, j)

\* and different if one of them is in a call.
Distinguished(u, calls) ==
  \A c \in calls : \A i, j \in 1 .. Len(u) : Owns(c, i) /\ ~Owns(c, j) => u[i] # u[j]

Prefixed(u, calls) ==
  \A c \in calls : \A i, j \in 1 .. Len(u) :
    Owns(c, i) /\ Owns(c, j) => SharePrefix(u[i], u[j], c.depth)

\* The strings that are in no call any more.
Outside(n, calls) == {i \in 1 .. n : \A c \in calls : ~Owns(c, i)}
Names(u, S) == {u[i] : i \in S}

Halved(n, calls) == \A c \in calls : Size(c) * 2 ^ c.level <= n

Scanning == {"left", "right"}
Gathering == {"gatherLeft", "gatherRight", "split"}

SortTyped ==
  /\ given \in Seq(Seq(Nat)) /\ units \in Seq(Seq(Nat)) /\ Len(units) = Len(given)
  /\ work \in Seq(CallSet) /\ AllApart(work)
  /\ \A c \in Range(work) : c.l <= c.r /\ c.r <= Len(given)
  /\ pl \in Nat /\ pr \in Nat /\ pivotL \in Nat /\ pivotR \in Nat /\ pivot \in Int
  /\ count \in Nat
  /\ step \in {"sort", "insert"} \cup Scanning \cup Gathering

\* The marks of the call at hand.
Marked ==
  /\ step # "sort" => work # <<>>
  /\ step \in Scanning \cup Gathering =>
       /\ Current.l <= pivotL /\ pivotL <= pl /\ pl <= pr /\ pr <= pivotR
       /\ pivotR <= Current.r
  /\ step \in {"gatherRight", "split"} => pivotL = Current.l
  /\ step = "split" => pivotR = Current.r
  /\ step = "insert" => Current.l < pl /\ pl <= Current.r

\* The labels on either side of the marks.
Partitioned ==
  step \in Scanning \cup Gathering =>
    /\ \A i \in Current.l .. Current.r - 1 :
         /\ i < pivotL \/ pivotR <= i => LabelAt(i) = pivot
         /\ pivotL <= i /\ i < pl => LabelAt(i) < pivot
         /\ pr <= i /\ i < pivotR => LabelAt(i) > pivot
         /\ step \in Gathering /\ pl <= i /\ i < pr => LabelAt(i) = pivot
    /\ step = "right" /\ pl < pr => LabelAt(pl) > pivot

Inserted ==
  step = "insert" =>
    \A i, j \in Current.l + 1 .. pl : i < j => StrLeq(units[i], units[j])

Counted ==
  /\ Len(given) > 1 =>
       /\ \A c \in Range(work) : Size(c) > 1
       /\ count = Cardinality(Names(units, Outside(Len(units), Range(work)) \cup
                                    IF step = "insert" THEN Current.l + 1 .. pl ELSE {}))
  /\ Len(given) <= 1 => count = 0 /\ step = "sort" /\ \A c \in Range(work) : Size(c) <= 1

Content ==
  /\ Permuted(given, units)
  /\ Ordered(units, Range(work)) /\ Distinguished(units, Range(work))
  /\ Prefixed(units, Range(work)) /\ Halved(Len(given), Range(work))

SortInv == SortTyped /\ Marked /\ Partitioned /\ Inserted /\ Counted /\ Content

\* Moving strings about in the range of a call.
LEMMA OwnsSame ==
  ASSUME NEW calls \in SUBSET CallSet, NEW c \in calls,
         \A d \in calls : d = c \/ Apart(c, d),
         NEW n \in Nat, NEW p, Places(p, n, c.l, c.r), NEW i \in 1 .. n
  PROVE  /\ p[i] \in 1 .. n
         /\ p[i] = i \/ (Owns(c, i) /\ Owns(c, p[i]))
         /\ \A d \in calls : Owns(d, i) <=> Owns(d, p[i])
<1>1. p[i] \in 1 .. n
  BY DEF Places, Bijection, Injection, Surjection
<1>2. p[i] = i \/ (i \in c.l + 1 .. c.r /\ p[i] \in c.l + 1 .. c.r)
  BY DEF Places
<1>3. c.l \in Nat /\ c.r \in Nat
  BY DEF CallSet
<1>4. p[i] = i \/ (Owns(c, i) /\ Owns(c, p[i]))
  BY <1>1, <1>2, <1>3 DEF Owns
<1>5. ASSUME NEW d \in calls PROVE Owns(d, i) <=> Owns(d, p[i])
  <2>1. CASE d = c \/ p[i] = i
    BY <1>4, <2>1
  <2>2. CASE d # c /\ p[i] # i
    <3>1. Apart(c, d) /\ d.l \in Nat /\ d.r \in Nat
      BY <2>2 DEF CallSet
    <3>2. Owns(c, i) /\ Owns(c, p[i])
      BY <1>4, <2>2
    <3> QED BY <1>1, <1>3, <3>1, <3>2 DEF Apart, Owns
  <2> QED BY <2>1, <2>2
<1> QED BY <1>1, <1>4, <1>5

\* Rearranging one call changes nothing that is said of the calls and between them.
LEMMA RearrangingKeeps ==
  ASSUME NEW calls \in SUBSET CallSet, NEW c \in calls,
         \A d \in calls : d = c \/ Apart(c, d),
         NEW u \in Seq(Seq(Nat)), NEW v, Rearranged(u, v, c.l, c.r),
         NEW g, Len(g) = Len(u), Permuted(g, u), Ordered(u, calls), Distinguished(u, calls),
         Prefixed(u, calls)
  PROVE  /\ Permuted(g, v) /\ Ordered(v, calls) /\ Distinguished(v, calls) /\ Prefixed(v, calls)
         /\ v \in Seq(Seq(Nat)) /\ Len(v) = Len(u)
         /\ Names(v, Outside(Len(v), calls)) = Names(u, Outside(Len(u), calls))
<1>1. PICK n \in Nat : n = Len(u) /\ n = Len(v) /\ n = Len(g)
  BY LenProperties DEF Rearranged
<1>2. v \in Seq(Seq(Nat))
  BY DEF Rearranged
<1>3. PICK p : Places(p, n, c.l, c.r) /\ \A i \in 1 .. n : v[i] = u[p[i]]
  BY <1>1 DEF Rearranged
<1>4. ASSUME NEW i \in 1 .. n
      PROVE  /\ p[i] \in 1 .. n /\ v[i] = u[p[i]]
             /\ p[i] = i \/ (Owns(c, i) /\ Owns(c, p[i]))
             /\ \A d \in calls : Owns(d, i) <=> Owns(d, p[i])
  <2>1. Places(p, n, c.l, c.r) /\ v[i] = u[p[i]]
    BY <1>3
  <2>2. /\ p[i] \in 1 .. n
        /\ p[i] = i \/ (Owns(c, i) /\ Owns(c, p[i]))
        /\ \A d \in calls : Owns(d, i) <=> Owns(d, p[i])
    BY ONLY <2>1, OwnsSame, n \in Nat, i \in 1 .. n, calls \in SUBSET CallSet, c \in calls,
            \A d \in calls : d = c \/ Apart(c, d)
  <2> QED BY <2>1, <2>2
<1>5. Permuted(g, v)
  <2>1. PICK q \in Bijection(1 .. n, 1 .. n) : \A i \in 1 .. n : u[i] = g[q[i]]
    BY <1>1 DEF Permuted
  <2> DEFINE s == [i \in 1 .. n |-> q[p[i]]]
  <2>2. \A i \in 1 .. n : q[i] \in 1 .. n
    BY DEF Bijection, Injection, Surjection
  <2>3. s \in [1 .. n -> 1 .. n]
    BY <1>4, <2>2
  <2>4. \A i, j \in 1 .. n : p[i] = p[j] => i = j
    BY <1>3 DEF Places, Bijection, Injection, IsInjective
  <2>5. \A i, j \in 1 .. n : q[i] = q[j] => i = j
    BY DEF Bijection, Injection, IsInjective
  <2>6. \A j \in 1 .. n : \E i \in 1 .. n : p[i] = j
    BY <1>3 DEF Places, Bijection, Surjection
  <2>7. \A j \in 1 .. n : \E i \in 1 .. n : q[i] = j
    BY DEF Bijection, Surjection
  <2>8. \A i, j \in 1 .. n : s[i] = s[j] => i = j
    BY <1>4, <2>4, <2>5
  <2>9. \A j \in 1 .. n : \E i \in 1 .. n : s[i] = j
    BY <2>6, <2>7
  <2>10. s \in Bijection(1 .. n, 1 .. n)
    <3> HIDE DEF s
    <3> QED BY <2>3, <2>8, <2>9, Fun_IsBij
  <2>11. \A i \in 1 .. n : v[i] = g[s[i]]
    BY <1>4, <2>1
  <2> HIDE DEF s
  <2> QED BY <1>1, <2>10, <2>11 DEF Permuted
<1>6. Ordered(v, calls)
  <2> SUFFICES ASSUME NEW i \in 1 .. n, NEW j \in 1 .. n, i < j,
                      ~ \E d \in calls : Owns(d, i) /\ Owns(d, j)
               PROVE  StrLeq(v[i], v[j])
    BY <1>1 DEF Ordered
  <2>1. ~ \E d \in calls : Owns(d, p[i]) /\ Owns(d, p[j])
    BY <1>4
  <2>2. p[i] < p[j]
    <3>1. c.l \in Nat /\ c.r \in Nat
      BY DEF CallSet
    <3> QED BY <1>4, <2>1, <3>1 DEF Owns
  <2>3. StrLeq(u[p[i]], u[p[j]])
    BY <1>1, <1>4, <2>1, <2>2 DEF Ordered
  <2> QED BY <1>4, <2>3
<1>7. Distinguished(v, calls)
  <2> SUFFICES ASSUME NEW d \in calls, NEW i \in 1 .. n, NEW j \in 1 .. n, Owns(d, i), ~Owns(d, j)
               PROVE  v[i] # v[j]
    BY <1>1 DEF Distinguished
  <2>1. /\ p[i] \in 1 .. n /\ p[j] \in 1 .. n /\ v[i] = u[p[i]] /\ v[j] = u[p[j]]
        /\ Owns(d, p[i]) /\ ~Owns(d, p[j])
    BY <1>4
  <2>2. u[p[i]] # u[p[j]]
    BY <1>1, <2>1 DEF Distinguished
  <2> QED BY <2>1, <2>2
<1>8. Prefixed(v, calls)
  BY <1>1, <1>4 DEF Prefixed
<1>9. \A i \in Outside(n, calls) : v[i] = u[i]
  <2> TAKE i \in Outside(n, calls)
  <2>1. i \in 1 .. n /\ ~Owns(c, i)
    BY DEF Outside
  <2> QED BY <1>4, <2>1
<1>10. Names(v, Outside(n, calls)) = Names(u, Outside(n, calls))
  BY <1>9 DEF Names
<1> QED BY <1>1, <1>2, <1>5, <1>6, <1>7, <1>8, <1>10

\* A step that moves strings about in the range of the call at hand, or none.
LEMMA StepInRange ==
  ASSUME SortInv, work # <<>>, UNCHANGED <<given, work, count>>,
         Rearranged(units, units', Current.l, Current.r),
         step \in {"sort"} \cup Scanning \cup Gathering, Size(Current) > 1,
         step' \in Scanning \cup Gathering,
         {pl', pr', pivotL', pivotR'} \subseteq Nat, pivot' \in Int
  PROVE  SortTyped' /\ Inserted' /\ Counted' /\ Content'
<1> DEFINE calls == Range(work)
           c == Current
<1>1. /\ calls \in SUBSET CallSet /\ c \in calls /\ \A d \in calls : d = c \/ Apart(c, d)
  BY WorkRest DEF SortInv, SortTyped
<1>2. /\ units \in Seq(Seq(Nat)) /\ Len(units) = Len(given)
      /\ Permuted(given, units) /\ Ordered(units, calls) /\ Distinguished(units, calls)
      /\ Prefixed(units, calls)
  BY DEF SortInv, SortTyped, Content
<1>3. calls' = calls
  OBVIOUS
<1> HIDE DEF calls, c
<1>4. /\ Permuted(given, units') /\ Ordered(units', calls) /\ Distinguished(units', calls)
      /\ Prefixed(units', calls) /\ units' \in Seq(Seq(Nat)) /\ Len(units') = Len(units)
      /\ Names(units', Outside(Len(units'), calls)) = Names(units, Outside(Len(units), calls))
  <2>1. Rearranged(units, units', c.l, c.r)
    BY DEF c
  <2> QED BY <1>1, <1>2, <2>1, RearrangingKeeps
<1>5. SortTyped'
  BY <1>2, <1>4 DEF SortInv, SortTyped
<1>6. step # "insert" /\ step' # "insert"
  BY DEF Scanning, Gathering
<1>7. Inserted'
  BY <1>6 DEF Inserted
<1>8. ~(Len(given) <= 1) /\ (\A d \in Range(work) : Size(d) > 1)
  <2>1. Len(given) <= 1 => Size(c) <= 1
    BY <1>1 DEF SortInv, Counted, calls
  <2>2. Len(given) \in Nat /\ Size(c) \in Int
    BY <1>1, <1>2, LenProperties DEF SortInv, SortTyped, Size, CallSet
  <2>3. ~(Len(given) <= 1)
    BY <2>1, <2>2 DEF c
  <2> QED BY <2>2, <2>3 DEF SortInv, Counted
<1>9. Counted'
  <2>1. Len(given) > 1
    BY <1>2, <1>8, LenProperties DEF SortInv, SortTyped
  <2>2. count = Cardinality(Names(units, Outside(Len(units), calls) \cup {}))
    BY <1>6, <2>1 DEF SortInv, Counted, calls
  <2>3. count' = Cardinality(Names(units', Outside(Len(units'), calls') \cup {}))
    BY <1>3, <1>4, <2>2
  <2>4. (IF step' = "insert" THEN (Current.l + 1 .. pl)' ELSE {}) = {}
    BY <1>6
  <2> QED BY <1>8, <2>1, <2>3, <2>4 DEF Counted, calls
<1>10. Content'
  BY <1>4 DEF SortInv, Content, calls
<1> QED BY <1>5, <1>7, <1>9, <1>10

---------------------------------------------------------------------------
(* The partition.  L has the labels of the range from l to r - 1; before a *)
(* and from d on they are the pivot x, from a to b less, from c to d       *)
(* greater.                                                                *)

Sides(L, l, r, a, b, c, d, x) ==
  \A i \in l .. r - 1 :
    /\ i < a \/ d <= i => L[i] = x
    /\ a <= i /\ i < b => L[i] < x
    /\ c <= i /\ i < d => L[i] > x

Middle(L, l, r, b, c, x) == \A i \in l .. r - 1 : b <= i /\ i < c => L[i] = x

Exchanged(L, M, l, r, i, j) ==
  \A k \in l .. r - 1 : M[k] = IF k = j THEN L[i] ELSE IF k = i THEN L[j] ELSE L[k]

InOrder(l, r, a, b, c, d) == l <= a /\ a <= b /\ b <= c /\ c <= d /\ d <= r

\* Each exchange and each advance of a mark keeps the labels on their sides of the pivot.
LEMMA SidesExchanged ==
  ASSUME NEW l \in Nat, NEW r \in Nat, NEW a \in Nat, NEW b \in Nat, NEW c \in Nat, NEW d \in Nat,
         NEW x \in Int, NEW L \in [l .. r - 1 -> Int], NEW M \in [l .. r - 1 -> Int],
         InOrder(l, r, a, b, c, d), Sides(L, l, r, a, b, c, d, x)
  PROVE  /\ b < c /\ L[b] = x /\ Exchanged(L, M, l, r, b, a) => Sides(M, l, r, a + 1, b + 1, c, d, x)
         /\ b < c /\ L[b] < x => Sides(L, l, r, a, b + 1, c, d, x)
         /\ b < c /\ L[b] > x /\ L[c - 1] < x /\ Exchanged(L, M, l, r, b, c - 1) =>
              Sides(M, l, r, a, b + 1, c - 1, d, x) /\ b + 1 <= c - 1
         /\ b < c /\ L[b] > x /\ L[c - 1] = x /\ Exchanged(L, M, l, r, c - 1, d - 1) =>
              /\ Sides(M, l, r, a, b, c - 1, d - 1, x) /\ b <= c - 1
              /\ b < c - 1 => M[b] > x
         /\ b < c /\ L[c - 1] > x => Sides(L, l, r, a, b, c - 1, d, x)
         /\ l < a /\ Middle(L, l, r, b, c, x) /\ Exchanged(L, M, l, r, a - 1, b - 1) =>
              Sides(M, l, r, a - 1, b - 1, c, d, x) /\ Middle(M, l, r, b - 1, c, x)
         /\ d < r /\ Middle(L, l, r, b, c, x) /\ Exchanged(L, M, l, r, d, c) =>
              Sides(M, l, r, a, b, c + 1, d + 1, x) /\ Middle(M, l, r, b, c + 1, x)
<1>1. ASSUME b < c, L[b] = x, Exchanged(L, M, l, r, b, a) PROVE Sides(M, l, r, a + 1, b + 1, c, d, x)
  BY <1>1 DEF InOrder, Sides, Exchanged
<1>2. ASSUME b < c, L[b] < x PROVE Sides(L, l, r, a, b + 1, c, d, x)
  <2> SUFFICES ASSUME NEW i \in l .. r - 1
               PROVE  /\ i < a \/ d <= i => L[i] = x
                      /\ a <= i /\ i < b + 1 => L[i] < x
                      /\ c <= i /\ i < d => L[i] > x
    BY DEF Sides
  <2>1. i \in Int /\ (i < b + 1 <=> i < b \/ i = b)
    OBVIOUS
  <2> QED BY <1>2, <2>1 DEF Sides
<1>3. ASSUME b < c, L[b] > x, L[c - 1] < x, Exchanged(L, M, l, r, b, c - 1)
      PROVE  Sides(M, l, r, a, b + 1, c - 1, d, x) /\ b + 1 <= c - 1
  <2>1. b \in l .. r - 1 /\ c - 1 \in l .. r - 1
    BY <1>3 DEF InOrder
  <2>2. L[b] \in Int /\ L[c - 1] \in Int
    BY <2>1
  <2>3. b # c - 1
    BY <1>3, <2>2
  <2> QED BY <1>3, <2>1, <2>3 DEF InOrder, Sides, Exchanged
<1>4. ASSUME b < c, L[b] > x, L[c - 1] = x, Exchanged(L, M, l, r, c - 1, d - 1)
      PROVE  /\ Sides(M, l, r, a, b, c - 1, d - 1, x) /\ b <= c - 1
             /\ b < c - 1 => M[b] > x
  <2>1. c - 1 \in l .. r - 1 /\ d - 1 \in l .. r - 1 /\ b \in l .. r - 1
    BY <1>4 DEF InOrder
  <2> QED BY <1>4, <2>1 DEF InOrder, Sides, Exchanged
<1>5. ASSUME b < c, L[c - 1] > x PROVE Sides(L, l, r, a, b, c - 1, d, x)
  BY SMTT(30), <1>5 DEF InOrder, Sides
<1>6. ASSUME l < a, Middle(L, l, r, b, c, x), Exchanged(L, M, l, r, a - 1, b - 1)
      PROVE  Sides(M, l, r, a - 1, b - 1, c, d, x) /\ Middle(M, l, r, b - 1, c, x)
  <2>1. a - 1 \in l .. r - 1 /\ b - 1 \in l .. r - 1
    BY <1>6 DEF InOrder
  <2> QED BY <1>6, <2>1 DEF InOrder, Sides, Middle, Exchanged
<1>7. ASSUME d < r, Middle(L, l, r, b, c, x), Exchanged(L, M, l, r, d, c)
      PROVE  Sides(M, l, r, a, b, c + 1, d + 1, x) /\ Middle(M, l, r, b, c + 1, x)
  <2>1. d \in l .. r - 1 /\ c \in l .. r - 1
    BY <1>7 DEF InOrder
  <2> QED BY SMTT(30), <1>7, <2>1 DEF InOrder, Sides, Middle, Exchanged
<1> QED BY <1>1, <1>2, <1>3, <1>4, <1>5, <1>6, <1>7

\* The labels of a call's strings.
Labels(u, c) == [i \in c.l .. c.r - 1 |-> GetLabel(u[i + 1], c.depth)]

\* The labels of a call are numbers, -1 at the end of a string.
LEMMA LabelsOf ==
  ASSUME NEW u \in Seq(Seq(Nat)), NEW c \in CallSet, c.r <= Len(u)
  PROVE  /\ Labels(u, c) \in [c.l .. c.r - 1 -> Int]
         /\ \A i \in c.l .. c.r - 1 : Labels(u, c)[i] = GetLabel(u[i + 1], c.depth)
<1>1. /\ c.l \in Nat /\ c.r \in Nat /\ c.depth \in Nat /\ Len(u) \in Nat
  BY LenProperties DEF CallSet
<1>2. ASSUME NEW i \in c.l .. c.r - 1 PROVE GetLabel(u[i + 1], c.depth) \in Int
  <2>1. i + 1 \in 1 .. Len(u)
    BY <1>1
  <2>2. u[i + 1] \in Seq(Nat)
    BY <2>1, ElementOfSeq
  <2>3. PICK s \in Seq(Nat) : s = u[i + 1]
    BY <2>2
  <2>4. Len(s) \in Nat /\ \A k \in 1 .. Len(s) : s[k] \in Nat
    BY <2>3, LenProperties, ElementOfSeq
  <2>5. c.depth < Len(s) => c.depth + 1 \in 1 .. Len(s)
    BY <1>1, <2>4
  <2> QED BY <2>3, <2>4, <2>5 DEF GetLabel
<1> QED BY <1>2 DEF Labels

\* Swapping two strings exchanges their labels.
LEMMA LabelsExchanged ==
  ASSUME units \in Seq(Seq(Nat)), NEW c \in CallSet, c.r <= Len(units),
         NEW i \in c.l .. c.r - 1, NEW j \in c.l .. c.r - 1
  PROVE  Exchanged(Labels(units, c), Labels(Swapped(i, j), c), c.l, c.r, i, j)
<1>1. c.l \in Nat /\ c.r \in Nat /\ Len(units) \in Nat
  BY LenProperties DEF CallSet
<1>2. \A k \in 0 .. Len(units) - 1 :
        Swapped(i, j)[k + 1] = IF k = j THEN units[i + 1]
                               ELSE IF k = i THEN units[j + 1] ELSE units[k + 1]
  <2>1. /\ DOMAIN units = 1 .. Len(units)
        /\ \A k \in 0 .. Len(units) - 1 : k + 1 \in 1 .. Len(units) /\ k \in Int
        /\ i \in Int /\ j \in Int
    BY <1>1, LenProperties
  <2>2. \A k \in 0 .. Len(units) - 1 : (k + 1 = j + 1 <=> k = j) /\ (k + 1 = i + 1 <=> k = i)
    BY <2>1
  <2> QED BY <2>1, <2>2 DEF Swapped
<1>3. \A k \in c.l .. c.r - 1 : k \in 0 .. Len(units) - 1
  BY <1>1
<1> QED BY <1>2, <1>3 DEF Exchanged, Labels

\* Partitioned in these terms.
LEMMA PartitionedIs ==
  ASSUME step \in Scanning \cup Gathering
  PROVE  Partitioned <=>
           /\ Sides(Labels(units, Current), Current.l, Current.r, pivotL, pl, pr, pivotR, pivot)
           /\ step \in Gathering => Middle(Labels(units, Current), Current.l, Current.r, pl, pr, pivot)
           /\ step = "right" /\ pl < pr => LabelAt(pl) > pivot
<1>1. \A i \in Current.l .. Current.r - 1 : LabelAt(i) = Labels(units, Current)[i]
  BY DEF LabelAt, Labels
<1> QED BY <1>1 DEF Partitioned, Sides, Middle

\* A step of the partition leaves it partitioned if it keeps the sides of the labels.
LEMMA PartitionedNext ==
  ASSUME step' \in Scanning \cup Gathering, work' = work,
         Sides(Labels(units', Current), Current.l, Current.r, pivotL', pl', pr', pivotR', pivot'),
         step' \in Gathering =>
           Middle(Labels(units', Current), Current.l, Current.r, pl', pr', pivot'),
         step' = "right" /\ pl' < pr' => Labels(units', Current)[pl'] > pivot',
         {pl', pr'} \subseteq Nat, pl' \in Current.l .. Current.r - 1 \/ pl' >= pr'
  PROVE  Partitioned'
<1>1. Current' = Current
  BY DEF Current
<1>2. \A i \in Current.l .. Current.r - 1 :
        GetLabel(units'[i + 1], Current.depth) = Labels(units', Current)[i]
  BY DEF Labels
<1>3. step' = "right" /\ pl' < pr' => GetLabel(units'[pl' + 1], Current.depth) > pivot'
  <2>1. CASE pl' \in Current.l .. Current.r - 1
    BY <1>2, <2>1
  <2>2. CASE pl' >= pr' /\ {pl', pr'} \subseteq Nat
    BY <2>2
  <2> QED BY <2>1, <2>2
<1>4. \A i \in Current.l .. Current.r - 1 :
         /\ i < pivotL' \/ pivotR' <= i => GetLabel(units'[i + 1], Current.depth) = pivot'
         /\ pivotL' <= i /\ i < pl' => GetLabel(units'[i + 1], Current.depth) < pivot'
         /\ pr' <= i /\ i < pivotR' => GetLabel(units'[i + 1], Current.depth) > pivot'
         /\ step' \in Gathering /\ pl' <= i /\ i < pr' =>
              GetLabel(units'[i + 1], Current.depth) = pivot'
  BY <1>2 DEF Sides, Middle
<1> QED BY <1>1, <1>3, <1>4 DEF Partitioned, LabelAt

\* What is known of the call at hand.
LEMMA AtHand ==
  ASSUME SortTyped, work # <<>>
  PROVE  /\ Current \in CallSet /\ Current \in Range(work)
         /\ Current.l \in Nat /\ Current.r \in Nat /\ Current.depth \in Nat /\ Current.level \in Nat
         /\ Current.l <= Current.r /\ Current.r <= Len(units) /\ Len(units) \in Nat
         /\ Len(given) = Len(units)
         /\ Range(work) \in SUBSET CallSet
         /\ \A d \in Range(work) : d = Current \/ Apart(Current, d)
<1>1. Current \in CallSet /\ Current \in Range(work) /\ Range(work) \in SUBSET CallSet
      /\ \A d \in Range(work) : d = Current \/ Apart(Current, d)
  BY WorkRest DEF SortTyped
<1> QED BY <1>1, LenProperties DEF SortTyped, CallSet

\* The marks while a partition is made.
LEMMA WhilePartitioning ==
  ASSUME SortInv, step \in Scanning \cup Gathering
  PROVE  /\ work # <<>> /\ Size(Current) > 1
         /\ {pl, pr, pivotL, pivotR} \subseteq Nat /\ pivot \in Int
         /\ InOrder(Current.l, Current.r, pivotL, pl, pr, pivotR)
         /\ Sides(Labels(units, Current), Current.l, Current.r, pivotL, pl, pr, pivotR, pivot)
         /\ step \in Gathering => Middle(Labels(units, Current), Current.l, Current.r, pl, pr, pivot)
         /\ step = "right" /\ pl < pr => Labels(units, Current)[pl] > pivot
         /\ Labels(units, Current) \in [Current.l .. Current.r - 1 -> Int]
         /\ \A i \in Current.l .. Current.r - 1 : LabelAt(i) = Labels(units, Current)[i]
<1>1. work # <<>> /\ step # "sort"
  BY DEF SortInv, Marked, Scanning, Gathering
<1>2. Size(Current) > 1
  <2>1. Len(given) > 1 \/ Len(given) <= 1
    BY LenProperties DEF SortInv, SortTyped
  <2> QED BY <1>1, <2>1, AtHand DEF SortInv, Counted
<1>3. {pl, pr, pivotL, pivotR} \subseteq Nat /\ pivot \in Int
  BY DEF SortInv, SortTyped
<1>4. InOrder(Current.l, Current.r, pivotL, pl, pr, pivotR)
  BY DEF SortInv, Marked, InOrder
<1>5. Labels(units, Current) \in [Current.l .. Current.r - 1 -> Int]
  BY <1>1, AtHand, LabelsOf DEF SortInv, SortTyped
<1>6. \A i \in Current.l .. Current.r - 1 : LabelAt(i) = Labels(units, Current)[i]
  BY DEF LabelAt, Labels
<1>7. /\ Sides(Labels(units, Current), Current.l, Current.r, pivotL, pl, pr, pivotR, pivot)
      /\ step \in Gathering => Middle(Labels(units, Current), Current.l, Current.r, pl, pr, pivot)
      /\ step = "right" /\ pl < pr => LabelAt(pl) > pivot
  BY PartitionedIs DEF SortInv
<1>8. step = "right" /\ pl < pr => Labels(units, Current)[pl] > pivot
  <2>1. pl < pr => pl \in Current.l .. Current.r - 1
    BY <1>1, <1>3, <1>4, AtHand DEF InOrder, SortInv
  <2> QED BY <1>6, <1>7, <2>1
<1> QED BY <1>1, <1>2, <1>3, <1>4, <1>5, <1>6, <1>7, <1>8

\* A step of the partition that exchanges two strings of the range, or none.
LEMMA PartitionStep ==
  ASSUME SortInv, step \in Scanning \cup Gathering, UNCHANGED <<given, work, count, pivot>>,
         \/ units' = units
         \/ \E i, j \in Current.l .. Current.r - 1 : units' = Swapped(i, j),
         step' \in Scanning \cup Gathering,
         {pl', pr', pivotL', pivotR'} \subseteq Nat,
         InOrder(Current.l, Current.r, pivotL', pl', pr', pivotR'),
         step' \in {"gatherRight", "split"} => pivotL' = Current.l,
         step' = "split" => pivotR' = Current.r,
         Sides(Labels(units', Current), Current.l, Current.r, pivotL', pl', pr', pivotR', pivot),
         step' \in Gathering =>
           Middle(Labels(units', Current), Current.l, Current.r, pl', pr', pivot),
         step' = "right" /\ pl' < pr' => Labels(units', Current)[pl'] > pivot
  PROVE  SortInv'
<1>1. work # <<>> /\ Size(Current) > 1 /\ pivot \in Int
  BY WhilePartitioning
<1>2. PICK c \in CallSet : c = Current
  BY <1>1, AtHand DEF SortInv
<1>3. /\ c.l \in Nat /\ c.r \in Nat /\ c.r <= Len(units) /\ Len(units) \in Nat
      /\ units \in Seq(Seq(Nat))
  BY <1>1, <1>2, AtHand DEF SortInv, SortTyped
<1>4. Rearranged(units, units', c.l, c.r)
  <2>1. CASE units' = units
    BY <1>3, <2>1, NothingMoved
  <2>2. ASSUME NEW i \in c.l .. c.r - 1, NEW j \in c.l .. c.r - 1, units' = Swapped(i, j)
        PROVE  Rearranged(units, units', c.l, c.r)
    BY <1>3, <2>2, SwapMoves
  <2> QED BY <1>2, <2>1, <2>2
<1>5. SortTyped' /\ Inserted' /\ Counted' /\ Content'
  BY <1>1, <1>2, <1>4, StepInRange
<1>6. Current' = Current
  BY DEF Current
<1>7. Marked'
  <2>1. step' # "sort" /\ step' # "insert"
    BY DEF Scanning, Gathering
  <2> QED BY <1>1, <1>6, <2>1 DEF Marked, InOrder
<1>8. Partitioned'
  <2>1. pl' \in c.l .. c.r - 1 \/ pl' >= pr'
    BY <1>2, <1>3 DEF InOrder
  <2> QED BY <1>2, <2>1, PartitionedNext
<1> QED BY <1>5, <1>7, <1>8 DEF SortInv

\* Choosing a pivot preserves the invariant: no label has a side yet.
LEMMA BeginPartitionKeeps ==
  ASSUME SortInv, BeginPartition
  PROVE  SortInv'
<1>1. work # <<>> /\ step = "sort" /\ UNCHANGED <<given, units, work, count>> /\ step' = "left"
  BY DEF BeginPartition
<1>2. PICK c \in CallSet : c = Current
  BY <1>1, AtHand DEF SortInv
<1>3. /\ c.l \in Nat /\ c.r \in Nat /\ c.l <= c.r /\ c.r <= Len(units) /\ Len(units) \in Nat
      /\ units \in Seq(Seq(Nat))
  BY <1>1, <1>2, AtHand DEF SortInv, SortTyped
<1>4. Size(c) > 1 /\ pl' = c.l /\ pr' = c.r /\ pivotL' = c.l /\ pivotR' = c.r
  <2>1. Size(c) > Threshold /\ pl' = c.l /\ pr' = c.r /\ pivotL' = c.l /\ pivotR' = c.r
    BY <1>2 DEF BeginPartition
  <2> QED BY <1>3, <2>1, ThresholdAssumption DEF Size
<1>5. pivot' \in Int
  <2>1. \A i \in c.l .. c.r - 1 : LabelAt(i) \in Int
    BY <1>2, <1>3, LabelsOf DEF LabelAt, Labels
  <2>2. /\ c.l \in c.l .. c.r - 1 /\ c.r - 1 \in c.l .. c.r - 1
        /\ c.l + Size(c) \div 2 \in c.l .. c.r - 1
    BY SMTT(30), <1>3, <1>4 DEF Size
  <2>3. PICK x \in Int, y \in Int, z \in Int :
          /\ x = LabelAt(Current.l) /\ y = LabelAt(Current.l + Size(Current) \div 2)
          /\ z = LabelAt(Current.r - 1)
    BY <1>2, <2>1, <2>2
  <2>4. pivot' = Median(x, y, z)
    BY <2>3 DEF BeginPartition
  <2> QED BY <2>4 DEF Median
<1>6. SortTyped' /\ Inserted' /\ Counted' /\ Content'
  <2>1. Rearranged(units, units', c.l, c.r)
    BY <1>1, <1>3, NothingMoved
  <2> QED BY <1>1, <1>2, <1>3, <1>4, <1>5, <2>1, StepInRange DEF Scanning
<1>7. Current' = Current
  BY <1>1 DEF Current
<1>8. Marked'
  BY <1>1, <1>2, <1>3, <1>4, <1>7 DEF Marked, Scanning, Gathering
<1>9. Partitioned'
  <2>1. Sides(Labels(units', c), c.l, c.r, c.l, c.l, c.r, c.r, pivot')
    BY <1>3 DEF Sides
  <2>2. step' \in Scanning /\ step' \notin Gathering /\ step' # "right"
    BY <1>1 DEF Scanning, Gathering
  <2>3. {pl', pr'} \subseteq Nat /\ pl' \in c.l .. c.r - 1
    BY <1>3, <1>4 DEF Size
  <2> QED BY <1>1, <1>2, <1>4, <2>1, <2>2, <2>3, PartitionedNext
<1> QED BY <1>6, <1>8, <1>9 DEF SortInv

\* The scan from the left preserves the invariant.
LEMMA ScanLeftKeeps ==
  ASSUME SortInv, ScanLeft
  PROVE  SortInv'
<1>1. step = "left" /\ UNCHANGED <<given, work, count, pr, pivotR, pivot>>
  BY DEF ScanLeft
<1>2. step \in Scanning \cup Gathering
  BY <1>1 DEF Scanning
<1>3. PICK c \in CallSet : c = Current
  BY <1>2, AtHand, WhilePartitioning DEF SortInv
<1>4. /\ c.l \in Nat /\ c.r \in Nat /\ c.r <= Len(units) /\ units \in Seq(Seq(Nat))
      /\ pl \in Nat /\ pr \in Nat /\ pivotL \in Nat /\ pivotR \in Nat /\ pivot \in Int
      /\ InOrder(c.l, c.r, pivotL, pl, pr, pivotR)
      /\ Sides(Labels(units, c), c.l, c.r, pivotL, pl, pr, pivotR, pivot)
      /\ Labels(units, c) \in [c.l .. c.r - 1 -> Int]
      /\ \A i \in c.l .. c.r - 1 : LabelAt(i) = Labels(units, c)[i]
  BY <1>2, <1>3, AtHand, WhilePartitioning DEF SortInv, SortTyped
<1> DEFINE L == Labels(units, c)
           M == Labels(units', c)
<1>5. CASE ~(pl < pr /\ LabelAt(pl) <= pivot)
  <2>1. step' = "right" /\ UNCHANGED <<pl, units, pivotL>>
    BY <1>5 DEF ScanLeft
  <2>2. pl < pr => L[pl] > pivot
    <3>1. pl < pr => pl \in c.l .. c.r - 1
      BY <1>4 DEF InOrder
    <3> QED BY <1>4, <1>5, <3>1
  <2>3. /\ step' \in Scanning \cup Gathering /\ step' \notin Gathering
        /\ step' \notin {"gatherRight", "split"}
    BY <2>1 DEF Scanning, Gathering
  <2> QED BY <1>1, <1>2, <1>3, <1>4, <2>1, <2>2, <2>3, PartitionStep
<1>6. CASE pl < pr /\ LabelAt(pl) <= pivot
  <2>1. /\ pl' = pl + 1 /\ step' = step
        /\ IF LabelAt(pl) = pivot THEN units' = Swapped(pl, pivotL) /\ pivotL' = pivotL + 1
                                  ELSE UNCHANGED <<units, pivotL>>
    BY <1>6 DEF ScanLeft
  <2>2. pl \in c.l .. c.r - 1 /\ pivotL \in c.l .. c.r - 1 /\ LabelAt(pl) = L[pl]
    BY <1>4, <1>6 DEF InOrder
  <2>3. /\ step' \in Scanning \cup Gathering /\ step' \notin Gathering /\ step' # "right"
        /\ step' \notin {"gatherRight", "split"}
    BY <1>1, <2>1 DEF Scanning, Gathering
  <2>4. CASE LabelAt(pl) = pivot
    <3>1. units' = Swapped(pl, pivotL) /\ pivotL' = pivotL + 1
      BY <2>1, <2>4
    <3>2. Exchanged(L, M, c.l, c.r, pl, pivotL)
      BY <1>4, <2>2, <3>1, LabelsExchanged
    <3>3. M \in [c.l .. c.r - 1 -> Int]
      <4>1. Rearranged(units, units', c.l, c.r)
        BY <1>4, <2>2, <3>1, SwapMoves
      <4> QED BY <1>4, <4>1, LabelsOf DEF Rearranged
    <3>4. Sides(M, c.l, c.r, pivotL', pl', pr', pivotR', pivot)
      <4> HIDE DEF L, M
      <4>1. Sides(M, c.l, c.r, pivotL + 1, pl + 1, pr, pivotR, pivot)
        BY <1>4, <1>6, <2>2, <2>4, <3>2, <3>3, SidesExchanged DEF L
      <4> QED BY <1>1, <2>1, <3>1, <4>1
    <3>5. InOrder(c.l, c.r, pivotL', pl', pr', pivotR')
      BY <1>1, <1>4, <1>6, <2>1, <3>1 DEF InOrder
    <3>6. {pl', pr', pivotL', pivotR'} \subseteq Nat
      BY <1>1, <1>4, <2>1, <3>1
    <3>7. \E i, j \in Current.l .. Current.r - 1 : units' = Swapped(i, j)
      BY <1>3, <2>2, <3>1
    <3> QED BY <1>1, <1>2, <1>3, <2>3, <3>4, <3>5, <3>6, <3>7, PartitionStep
  <2>5. CASE LabelAt(pl) # pivot
    <3>1. UNCHANGED <<units, pivotL>>
      BY <2>1, <2>5
    <3>2. L[pl] < pivot
      BY SMTT(30), <1>4, <1>6, <2>2, <2>5
    <3>3. Sides(L, c.l, c.r, pivotL', pl', pr', pivotR', pivot)
      <4> HIDE DEF L
      <4>1. Sides(L, c.l, c.r, pivotL, pl + 1, pr, pivotR, pivot)
        BY <1>4, <1>6, <3>2, SidesExchanged DEF L
      <4> QED BY <1>1, <2>1, <3>1, <4>1
    <3>4. InOrder(c.l, c.r, pivotL', pl', pr', pivotR')
      BY <1>1, <1>4, <1>6, <2>1, <3>1 DEF InOrder
    <3>5. {pl', pr', pivotL', pivotR'} \subseteq Nat
      BY <1>1, <1>4, <2>1, <3>1
    <3> QED BY <1>1, <1>2, <1>3, <2>3, <3>1, <3>3, <3>4, <3>5, PartitionStep
  <2> QED BY <2>4, <2>5
<1> QED BY <1>5, <1>6

\* The labels after a swap.
LEMMA LabelsNext ==
  ASSUME units \in Seq(Seq(Nat)), NEW c \in CallSet, c.r <= Len(units),
         NEW i \in c.l .. c.r - 1, NEW j \in c.l .. c.r - 1, units' = Swapped(i, j)
  PROVE  /\ Labels(units', c) \in [c.l .. c.r - 1 -> Int]
         /\ Exchanged(Labels(units, c), Labels(units', c), c.l, c.r, i, j)
<1>1. Rearranged(units, units', c.l, c.r)
  <2>1. PICK lo \in Nat, hi \in Nat : lo = c.l /\ hi = c.r
    BY DEF CallSet
  <2> QED BY <2>1, SwapMoves
<1> QED BY <1>1, LabelsOf, LabelsExchanged DEF Rearranged

\* The scan from the right preserves the invariant.
LEMMA ScanRightKeeps ==
  ASSUME SortInv, ScanRight
  PROVE  SortInv'
<1>1. step = "right" /\ UNCHANGED <<given, work, count, pivotL, pivot>>
  BY DEF ScanRight
<1>2. step \in Scanning \cup Gathering
  BY <1>1 DEF Scanning
<1>3. PICK c \in CallSet : c = Current
  BY <1>2, AtHand, WhilePartitioning DEF SortInv
<1>4. /\ c.l \in Nat /\ c.r \in Nat /\ c.r <= Len(units) /\ units \in Seq(Seq(Nat))
      /\ pl \in Nat /\ pr \in Nat /\ pivotL \in Nat /\ pivotR \in Nat /\ pivot \in Int
      /\ InOrder(c.l, c.r, pivotL, pl, pr, pivotR)
      /\ Sides(Labels(units, c), c.l, c.r, pivotL, pl, pr, pivotR, pivot)
      /\ Labels(units, c) \in [c.l .. c.r - 1 -> Int]
      /\ \A i \in c.l .. c.r - 1 : LabelAt(i) = Labels(units, c)[i]
      /\ pl < pr => Labels(units, c)[pl] > pivot
  BY <1>1, <1>2, <1>3, AtHand, WhilePartitioning DEF SortInv, SortTyped
<1> DEFINE L == Labels(units, c)
           M == Labels(units', c)
<1>5. CASE pl >= pr
  <2>1. step' = "gatherLeft" /\ UNCHANGED <<units, pl, pr, pivotR>>
    BY <1>5 DEF ScanRight
  <2>2. step' \in Scanning \cup Gathering /\ step' # "right" /\ step' \notin {"gatherRight", "split"}
    BY <2>1 DEF Scanning, Gathering
  <2>3. Middle(L, c.l, c.r, pl, pr, pivot)
    BY <1>4, <1>5 DEF Middle
  <2> QED BY <1>1, <1>2, <1>3, <1>4, <2>1, <2>2, <2>3, PartitionStep
<1>6. CASE pl < pr
  <2>1. /\ pr' = pr - 1
        /\ \/ /\ LabelAt(pr - 1) < pivot
              /\ units' = Swapped(pl, pr - 1) /\ pl' = pl + 1 /\ pivotR' = pivotR
              /\ step' = "left"
           \/ /\ LabelAt(pr - 1) = pivot
              /\ units' = Swapped(pr - 1, pivotR - 1) /\ pivotR' = pivotR - 1
              /\ UNCHANGED <<pl, step>>
           \/ /\ LabelAt(pr - 1) > pivot
              /\ UNCHANGED <<units, pl, pivotR, step>>
    BY <1>4, <1>6 DEF ScanRight
  <2>2. /\ pl \in c.l .. c.r - 1 /\ pr - 1 \in c.l .. c.r - 1 /\ pivotR - 1 \in c.l .. c.r - 1
        /\ LabelAt(pr - 1) = L[pr - 1] /\ L[pl] > pivot
    <3>1. /\ pl \in c.l .. c.r - 1 /\ pr - 1 \in c.l .. c.r - 1 /\ pivotR - 1 \in c.l .. c.r - 1
      <4>1. PICK l \in Nat, r \in Nat : l = c.l /\ r = c.r
        BY <1>4
      <4>2. l <= pl /\ pl < pr /\ pr <= pivotR /\ pivotR <= r
        BY <1>4, <1>6, <4>1 DEF InOrder
      <4>3. pl \in l .. r - 1 /\ pr - 1 \in l .. r - 1 /\ pivotR - 1 \in l .. r - 1
        BY <1>4, <4>2
      <4> QED BY <4>1, <4>3
    <3>2. PICK q \in c.l .. c.r - 1 : q = pr - 1
      BY <3>1
    <3>3. LabelAt(q) = L[q]
      BY <1>4
    <3> QED BY <1>4, <1>6, <3>1, <3>2, <3>3
  <2>3. CASE /\ LabelAt(pr - 1) < pivot
             /\ units' = Swapped(pl, pr - 1) /\ pl' = pl + 1 /\ pivotR' = pivotR
             /\ step' = "left"
    <3>1. M \in [c.l .. c.r - 1 -> Int] /\ Exchanged(L, M, c.l, c.r, pl, pr - 1)
      BY <1>4, <2>2, <2>3, LabelsNext
    <3>0. L[pr - 1] < pivot /\ L[pl] > pivot
      BY <2>2, <2>3
    <3>2. Sides(M, c.l, c.r, pivotL', pl', pr', pivotR', pivot) /\ pl + 1 <= pr - 1
      <4> HIDE DEF L, M
      <4>1. Sides(M, c.l, c.r, pivotL, pl + 1, pr - 1, pivotR, pivot) /\ pl + 1 <= pr - 1
        BY <1>4, <1>6, <3>1, <3>0, SidesExchanged DEF L
      <4> QED BY <1>1, <2>1, <2>3, <4>1
    <3>3. InOrder(c.l, c.r, pivotL', pl', pr', pivotR')
      BY <1>1, <1>4, <1>6, <2>1, <2>3, <3>2 DEF InOrder
    <3>4. {pl', pr', pivotL', pivotR'} \subseteq Nat
      BY <1>1, <1>4, <1>6, <2>1, <2>3
    <3>5. \E i, j \in Current.l .. Current.r - 1 : units' = Swapped(i, j)
      BY <1>3, <2>2, <2>3
    <3>6. /\ step' \in Scanning \cup Gathering /\ step' \notin Gathering /\ step' # "right"
          /\ step' \notin {"gatherRight", "split"}
      BY <2>3 DEF Scanning, Gathering
    <3> QED BY <1>1, <1>2, <1>3, <3>2, <3>3, <3>4, <3>5, <3>6, PartitionStep
  <2>4. CASE /\ LabelAt(pr - 1) = pivot
             /\ units' = Swapped(pr - 1, pivotR - 1) /\ pivotR' = pivotR - 1
             /\ UNCHANGED <<pl, step>>
    <3>1. M \in [c.l .. c.r - 1 -> Int] /\ Exchanged(L, M, c.l, c.r, pr - 1, pivotR - 1)
      BY <1>4, <2>2, <2>4, LabelsNext
    <3>2. /\ Sides(M, c.l, c.r, pivotL', pl', pr', pivotR', pivot) /\ pl <= pr - 1
          /\ pl' < pr' => M[pl'] > pivot
      <4>0. L[pr - 1] = pivot /\ L[pl] > pivot
        BY <2>2, <2>4
      <4> HIDE DEF L, M
      <4>1. /\ Sides(M, c.l, c.r, pivotL, pl, pr - 1, pivotR - 1, pivot) /\ pl <= pr - 1
            /\ pl < pr - 1 => M[pl] > pivot
        <5>1. PICK q \in Nat : q = pr
          BY <1>4
        <5>2. Exchanged(L, M, c.l, c.r, q - 1, pivotR - 1) /\ L[q - 1] = pivot
          BY <3>1, <4>0, <5>1
        <5> QED BY <1>4, <1>6, <3>1, <4>0, <5>1, <5>2, SidesExchanged DEF L
      <4> QED BY <1>1, <2>1, <2>4, <4>1
    <3>3. InOrder(c.l, c.r, pivotL', pl', pr', pivotR')
      BY <1>1, <1>4, <1>6, <2>1, <2>4, <3>2 DEF InOrder
    <3>4. {pl', pr', pivotL', pivotR'} \subseteq Nat
      BY <1>1, <1>4, <1>6, <2>1, <2>2, <2>4
    <3>5. \E i, j \in Current.l .. Current.r - 1 : units' = Swapped(i, j)
      BY <1>3, <2>2, <2>4
    <3>6. /\ step' \in Scanning \cup Gathering /\ step' \notin Gathering
          /\ step' \notin {"gatherRight", "split"}
      BY <1>1, <2>4 DEF Scanning, Gathering
    <3> QED BY <1>1, <1>2, <1>3, <3>2, <3>3, <3>4, <3>5, <3>6, PartitionStep
  <2>5. CASE /\ LabelAt(pr - 1) > pivot
             /\ UNCHANGED <<units, pl, pivotR, step>>
    <3>1. Sides(L, c.l, c.r, pivotL', pl', pr', pivotR', pivot)
      <4> HIDE DEF L
      <4>1. Sides(L, c.l, c.r, pivotL, pl, pr - 1, pivotR, pivot)
        BY <1>4, <1>6, <2>2, <2>5, SidesExchanged DEF L
      <4> QED BY <1>1, <2>1, <2>5, <4>1
    <3>2. InOrder(c.l, c.r, pivotL', pl', pr', pivotR')
      BY <1>1, <1>4, <1>6, <2>1, <2>5 DEF InOrder
    <3>3. {pl', pr', pivotL', pivotR'} \subseteq Nat
      BY <1>1, <1>4, <1>6, <2>1, <2>5
    <3>4. /\ step' \in Scanning \cup Gathering /\ step' \notin Gathering
          /\ step' \notin {"gatherRight", "split"}
      BY <1>1, <2>5 DEF Scanning, Gathering
    <3>5. pl' < pr' => L[pl'] > pivot
      BY <2>2, <2>5
    <3> QED BY <1>1, <1>2, <1>3, <2>5, <3>1, <3>2, <3>3, <3>4, <3>5, PartitionStep
  <2> QED BY <2>1, <2>3, <2>4, <2>5
<1> QED BY <1>4, <1>5, <1>6

\* Moving equal labels from the left end to the middle preserves the invariant.
LEMMA GatherLeftKeeps ==
  ASSUME SortInv, GatherLeft
  PROVE  SortInv'
<1>1. step = "gatherLeft" /\ UNCHANGED <<given, work, count, pr, pivotR, pivot>>
  BY DEF GatherLeft
<1>2. step \in Scanning \cup Gathering /\ step \in Gathering
  BY <1>1 DEF Gathering
<1>3. PICK c \in CallSet : c = Current
  BY <1>2, AtHand, WhilePartitioning DEF SortInv
<1>4. /\ c.l \in Nat /\ c.r \in Nat /\ c.r <= Len(units) /\ units \in Seq(Seq(Nat))
      /\ pl \in Nat /\ pr \in Nat /\ pivotL \in Nat /\ pivotR \in Nat /\ pivot \in Int
      /\ InOrder(c.l, c.r, pivotL, pl, pr, pivotR)
      /\ Sides(Labels(units, c), c.l, c.r, pivotL, pl, pr, pivotR, pivot)
      /\ Middle(Labels(units, c), c.l, c.r, pl, pr, pivot)
      /\ Labels(units, c) \in [c.l .. c.r - 1 -> Int]
  BY <1>2, <1>3, AtHand, WhilePartitioning DEF SortInv, SortTyped
<1> DEFINE L == Labels(units, c)
           M == Labels(units', c)
<1>5. CASE pivotL > c.l
  <2>1. /\ units' = Swapped(pivotL - 1, pl - 1)
        /\ pivotL' = pivotL - 1 /\ pl' = pl - 1 /\ step' = step
    BY <1>3, <1>5 DEF GatherLeft
  <2>2. pivotL - 1 \in c.l .. c.r - 1 /\ pl - 1 \in c.l .. c.r - 1
    BY SMTT(30), <1>4, <1>5 DEF InOrder
  <2>3. M \in [c.l .. c.r - 1 -> Int] /\ Exchanged(L, M, c.l, c.r, pivotL - 1, pl - 1)
    BY <1>4, <2>1, <2>2, LabelsNext
  <2>4. Sides(M, c.l, c.r, pivotL', pl', pr', pivotR', pivot) /\ Middle(M, c.l, c.r, pl', pr', pivot)
    <3> HIDE DEF L, M
    <3>1. /\ Sides(M, c.l, c.r, pivotL - 1, pl - 1, pr, pivotR, pivot)
          /\ Middle(M, c.l, c.r, pl - 1, pr, pivot)
      <4>1. c.l < pivotL
        BY <1>4, <1>5
      <4> QED BY <1>4, <2>3, <4>1, SidesExchanged DEF L
    <3> QED BY <1>1, <2>1, <3>1
  <2>5. InOrder(c.l, c.r, pivotL', pl', pr', pivotR')
    BY <1>1, <1>4, <1>5, <2>1 DEF InOrder
  <2>6. {pl', pr', pivotL', pivotR'} \subseteq Nat
    BY <1>1, <1>4, <2>1, <2>2
  <2>7. \E i, j \in Current.l .. Current.r - 1 : units' = Swapped(i, j)
    BY <1>3, <2>1, <2>2
  <2>8. step' \in Scanning \cup Gathering /\ step' # "right" /\ step' \notin {"gatherRight", "split"}
    BY <1>1, <2>1 DEF Gathering
  <2> QED BY <1>1, <1>2, <1>3, <2>4, <2>5, <2>6, <2>7, <2>8, PartitionStep
<1>6. CASE ~(pivotL > c.l)
  <2>1. step' = "gatherRight" /\ UNCHANGED <<units, pivotL, pl>>
    BY <1>3, <1>6 DEF GatherLeft
  <2>2. step' \in Scanning \cup Gathering /\ step' # "right" /\ step' # "split"
    BY <2>1 DEF Gathering
  <2>3. pivotL' = c.l
    BY <1>4, <1>6, <2>1 DEF InOrder
  <2> QED BY <1>1, <1>2, <1>3, <1>4, <2>1, <2>2, <2>3, PartitionStep
<1> QED BY <1>5, <1>6

\* Moving equal labels from the right end to the middle preserves the invariant.
LEMMA GatherRightKeeps ==
  ASSUME SortInv, GatherRight
  PROVE  SortInv'
<1>1. step = "gatherRight" /\ UNCHANGED <<given, work, count, pl, pivotL, pivot>>
  BY DEF GatherRight
<1>2. step \in Scanning \cup Gathering /\ step \in Gathering
  BY <1>1 DEF Gathering
<1>3. PICK c \in CallSet : c = Current
  BY <1>2, AtHand, WhilePartitioning DEF SortInv
<1>4. /\ c.l \in Nat /\ c.r \in Nat /\ c.r <= Len(units) /\ units \in Seq(Seq(Nat))
      /\ pl \in Nat /\ pr \in Nat /\ pivotL \in Nat /\ pivotR \in Nat /\ pivot \in Int
      /\ InOrder(c.l, c.r, pivotL, pl, pr, pivotR)
      /\ Sides(Labels(units, c), c.l, c.r, pivotL, pl, pr, pivotR, pivot)
      /\ Middle(Labels(units, c), c.l, c.r, pl, pr, pivot)
      /\ Labels(units, c) \in [c.l .. c.r - 1 -> Int]
      /\ pivotL = c.l
  BY <1>1, <1>2, <1>3, AtHand, WhilePartitioning DEF SortInv, SortTyped, Marked
<1> DEFINE L == Labels(units, c)
           M == Labels(units', c)
<1>5. CASE pivotR < c.r
  <2>1. /\ units' = Swapped(pivotR, pr)
        /\ pivotR' = pivotR + 1 /\ pr' = pr + 1 /\ step' = step
    BY <1>3, <1>5 DEF GatherRight
  <2>2. pivotR \in c.l .. c.r - 1 /\ pr \in c.l .. c.r - 1
    BY SMTT(30), <1>4, <1>5 DEF InOrder
  <2>3. M \in [c.l .. c.r - 1 -> Int] /\ Exchanged(L, M, c.l, c.r, pivotR, pr)
    BY <1>4, <2>1, <2>2, LabelsNext
  <2>4. Sides(M, c.l, c.r, pivotL', pl', pr', pivotR', pivot) /\ Middle(M, c.l, c.r, pl', pr', pivot)
    <3> HIDE DEF L, M
    <3>1. /\ Sides(M, c.l, c.r, pivotL, pl, pr + 1, pivotR + 1, pivot)
          /\ Middle(M, c.l, c.r, pl, pr + 1, pivot)
      BY <1>4, <1>5, <2>3, SidesExchanged DEF L
    <3> QED BY <1>1, <2>1, <3>1
  <2>5. InOrder(c.l, c.r, pivotL', pl', pr', pivotR')
    BY <1>1, <1>4, <1>5, <2>1 DEF InOrder
  <2>6. {pl', pr', pivotL', pivotR'} \subseteq Nat
    BY <1>1, <1>4, <2>1, <2>2
  <2>7. \E i, j \in Current.l .. Current.r - 1 : units' = Swapped(i, j)
    BY <1>3, <2>1, <2>2
  <2>8. step' \in Scanning \cup Gathering /\ step' # "right" /\ step' # "split" /\ pivotL' = c.l
    BY <1>1, <1>4, <2>1 DEF Gathering
  <2> QED BY <1>1, <1>2, <1>3, <2>4, <2>5, <2>6, <2>7, <2>8, PartitionStep
<1>6. CASE ~(pivotR < c.r)
  <2>1. step' = "split" /\ UNCHANGED <<units, pivotR, pr>>
    BY <1>3, <1>6 DEF GatherRight
  <2>2. step' \in Scanning \cup Gathering /\ step' # "right" /\ pivotL' = c.l
    BY <1>1, <1>4, <2>1 DEF Gathering
  <2>3. pivotR' = c.r
    BY <1>4, <1>6, <2>1 DEF InOrder
  <2> QED BY <1>1, <1>2, <1>3, <1>4, <2>1, <2>2, <2>3, PartitionStep
<1> QED BY <1>5, <1>6

---------------------------------------------------------------------------
(* What Split does to the range of a call.                                 *)

\* A label is the next character, or -1, which is before them all.
LEMMA LabelIs ==
  ASSUME NEW s \in Seq(Nat), NEW d \in Nat, d <= Len(s)
  PROVE  /\ GetLabel(s, d) = -1 => Len(s) = d
         /\ GetLabel(s, d) # -1 => d + 1 \in 1 .. Len(s) /\ GetLabel(s, d) = s[d + 1]
         /\ GetLabel(s, d) \in Int /\ GetLabel(s, d) >= -1
<1>1. Len(s) \in Nat /\ \A q \in 1 .. Len(s) : s[q] \in Nat
  BY LenProperties, ElementOfSeq
<1>2. CASE d < Len(s)
  <2>1. d + 1 \in 1 .. Len(s) /\ GetLabel(s, d) = s[d + 1]
    BY <1>1, <1>2 DEF GetLabel
  <2>2. PICK k \in Nat : k = GetLabel(s, d)
    BY <1>1, <2>1
  <2> QED BY <2>1, <2>2
<1>3. CASE d >= Len(s)
  <2>1. GetLabel(s, d) = -1 /\ Len(s) = d
    BY <1>1, <1>3 DEF GetLabel
  <2> QED BY <2>1
<1> QED BY <1>1, <1>2, <1>3

\* Strings that agree up to here compare as their labels do.
LEMMA LabelDecides ==
  ASSUME NEW a \in Seq(Nat), NEW b \in Seq(Nat), NEW d \in Nat, SharePrefix(a, b, d)
  PROVE  /\ GetLabel(a, d) < GetLabel(b, d) => StrLeq(a, b)
         /\ GetLabel(a, d) = GetLabel(b, d) /\ GetLabel(a, d) # -1 => SharePrefix(a, b, d + 1)
         /\ GetLabel(a, d) = GetLabel(b, d) /\ GetLabel(a, d) = -1 => a = b
<1>1. /\ Len(a) \in Nat /\ Len(b) \in Nat /\ d <= Len(a) /\ d <= Len(b)
      /\ \A q \in 1 .. d : a[q] = b[q]
  BY LenProperties DEF SharePrefix
<1>2. PICK x \in Int : /\ x = GetLabel(a, d) /\ x >= -1
                       /\ x = -1 => Len(a) = d
                       /\ x # -1 => d + 1 \in 1 .. Len(a) /\ x = a[d + 1]
  BY <1>1, LabelIs
<1>3. PICK y \in Int : /\ y = GetLabel(b, d) /\ y >= -1
                       /\ y = -1 => Len(b) = d
                       /\ y # -1 => d + 1 \in 1 .. Len(b) /\ y = b[d + 1]
  BY <1>1, LabelIs
<1>4. ASSUME x < y PROVE StrLeq(a, b)
  <2>1. y # -1
    BY <1>2, <1>4
  <2>2. CASE x = -1
    BY <1>1, <1>2, <1>3, <2>1, <2>2 DEF StrLeq
  <2>3. CASE x # -1
    <3>1. d + 1 \in 1 .. Len(a) /\ d + 1 <= Len(b) /\ a[d + 1] < b[d + 1]
      BY <1>2, <1>3, <1>4, <2>1, <2>3
    <3>2. \A q \in 1 .. (d + 1) - 1 : a[q] = b[q]
      BY <1>1
    <3> QED BY <3>1, <3>2 DEF StrLeq
  <2> QED BY <2>2, <2>3
<1>5. ASSUME x = y, x # -1 PROVE SharePrefix(a, b, d + 1)
  <2>1. d + 1 \in 1 .. Len(a) /\ d + 1 \in 1 .. Len(b) /\ a[d + 1] = b[d + 1]
    BY <1>2, <1>3, <1>5
  <2>2. \A q \in 1 .. d + 1 : q \in 1 .. d \/ q = d + 1
    OBVIOUS
  <2>3. \A q \in 1 .. d + 1 : a[q] = b[q]
    BY <1>1, <2>1, <2>2
  <2> QED BY <1>1, <2>1, <2>3 DEF SharePrefix
<1>6. ASSUME x = y, x = -1 PROVE a = b
  <2>1. Len(a) = d /\ Len(b) = d
    BY <1>2, <1>3, <1>6
  <2> QED BY <1>1, <2>1, SeqEqual
<1> QED BY <1>2, <1>3, <1>4, <1>5, <1>6

\* The range of c with its labels split at the pivot x: those up to a, up to b
\* and up to the end.
Split3(u, c, a, b, x) ==
  /\ a \in Nat /\ b \in Nat /\ x \in Int
  /\ c.l <= a /\ a <= b /\ b <= c.r /\ c.r <= Len(u)
  /\ \A i \in 1 .. Len(u) : Owns(c, i) =>
       /\ GetLabel(u[i], c.depth) \in Int
       /\ i <= a => GetLabel(u[i], c.depth) < x
       /\ a < i /\ i <= b => GetLabel(u[i], c.depth) = x
       /\ b < i => GetLabel(u[i], c.depth) > x

PartsAt(c, a, b, x, less, greater, middle) ==
  /\ {less, greater, middle} \subseteq CallSet
  /\ less.l = c.l /\ less.r = a /\ less.depth = c.depth
  /\ middle.l = a /\ middle.r = b /\ middle.depth = c.depth + 1
  /\ greater.l = b /\ greater.r = c.r /\ greater.depth = c.depth

PartSet(x, less, greater, middle) ==
  {d \in {less, greater} \cup (IF x = -1 THEN {} ELSE {middle}) : Size(d) > 1}

\* A string of the range is in one of the parts.
LEMMA InAPart ==
  ASSUME NEW c \in CallSet, NEW n \in Nat, NEW a, NEW b, NEW x,
         NEW less, NEW greater, NEW middle, PartsAt(c, a, b, x, less, greater, middle),
         c.l <= a, a <= b, b <= c.r, NEW i \in 1 .. n
  PROVE  /\ Owns(c, i) <=> (Owns(less, i) \/ Owns(middle, i) \/ Owns(greater, i))
         /\ Owns(less, i) <=> Owns(c, i) /\ i <= a
         /\ Owns(middle, i) <=> Owns(c, i) /\ a < i /\ i <= b
         /\ Owns(greater, i) <=> Owns(c, i) /\ b < i
<1>1. c.l \in Nat /\ c.r \in Nat /\ a \in Nat /\ b \in Nat
  BY DEF PartsAt, CallSet
<1> QED BY <1>1 DEF PartsAt, Owns

\* A string of one part of a split differs from those of the other parts.
LEMMA SplitDistinguishes ==
  ASSUME NEW u \in Seq(Seq(Nat)), NEW c \in CallSet, NEW rest \in SUBSET CallSet,
         NEW a, NEW b, NEW x, Split3(u, c, a, b, x),
         NEW less, NEW greater, NEW middle, PartsAt(c, a, b, x, less, greater, middle),
         Distinguished(u, {c} \cup rest)
  PROVE  \A d \in {less, greater, middle} \cup rest : \A i, j \in 1 .. Len(u) :
           Owns(d, i) /\ ~Owns(d, j) => u[i] # u[j]
<1>1. Len(u) \in Nat /\ a \in Nat /\ b \in Nat /\ x \in Int /\ c.l <= a /\ a <= b /\ b <= c.r
  BY LenProperties DEF Split3
<1>2. SUFFICES ASSUME NEW d \in {less, greater, middle} \cup rest,
                      NEW i \in 1 .. Len(u), NEW j \in 1 .. Len(u), Owns(d, i), ~Owns(d, j)
               PROVE  u[i] # u[j]
  OBVIOUS
<1>3. CASE d \in rest
  BY <1>2, <1>3 DEF Distinguished
<1>4. CASE d \in {less, greater, middle}
  <2>0. \A k \in 1 .. Len(u) :
          /\ Owns(c, k) <=> (Owns(less, k) \/ Owns(middle, k) \/ Owns(greater, k))
          /\ Owns(less, k) <=> Owns(c, k) /\ k <= a
          /\ Owns(middle, k) <=> Owns(c, k) /\ a < k /\ k <= b
          /\ Owns(greater, k) <=> Owns(c, k) /\ b < k
    <3>1. PICK n \in Nat : n = Len(u)
      BY <1>1
    <3> QED BY <1>1, <3>1, InAPart
  <2>1. Owns(c, i)
    BY <1>2, <1>4, <2>0
  <2>2. CASE ~Owns(c, j)
    BY <2>1, <2>2 DEF Distinguished
  <2>3. CASE Owns(c, j)
    <3>1. /\ Owns(less, i) <=> i <= a
          /\ Owns(middle, i) <=> a < i /\ i <= b
          /\ Owns(greater, i) <=> b < i
          /\ Owns(less, j) <=> j <= a
          /\ Owns(middle, j) <=> a < j /\ j <= b
          /\ Owns(greater, j) <=> b < j
      BY <2>0, <2>1, <2>3
    <3>2. /\ GetLabel(u[i], c.depth) \in Int
          /\ i <= a => GetLabel(u[i], c.depth) < x
          /\ a < i /\ i <= b => GetLabel(u[i], c.depth) = x
          /\ b < i => GetLabel(u[i], c.depth) > x
      BY <2>1 DEF Split3
    <3>3. /\ j <= a => GetLabel(u[j], c.depth) < x
          /\ a < j /\ j <= b => GetLabel(u[j], c.depth) = x
          /\ b < j => GetLabel(u[j], c.depth) > x
      BY <2>3 DEF Split3
    <3>4. u[i] = u[j] => GetLabel(u[i], c.depth) = GetLabel(u[j], c.depth)
      OBVIOUS
    <3> QED
      <4>1. CASE d = less
        <5>1. i <= a /\ ~(j <= a)
          BY <1>2, <3>1, <4>1
        <5>2. (a < j /\ j <= b) \/ b < j
          BY <1>1, <5>1
        <5> QED BY <1>1, <3>2, <3>3, <3>4, <5>1, <5>2
      <4>2. CASE d = middle
        <5>1. a < i /\ i <= b /\ ~(a < j /\ j <= b)
          BY <1>2, <3>1, <4>2
        <5>2. j <= a \/ b < j
          BY <1>1, <5>1
        <5> QED BY <1>1, <3>2, <3>3, <3>4, <5>1, <5>2
      <4>3. CASE d = greater
        <5>1. b < i /\ ~(b < j)
          BY <1>2, <3>1, <4>3
        <5>2. j <= a \/ (a < j /\ j <= b)
          BY <1>1, <5>1
        <5> QED BY <1>1, <3>2, <3>3, <3>4, <5>1, <5>2
      <4> QED BY <1>4, <4>1, <4>2, <4>3
  <2> QED BY <2>2, <2>3
<1> QED BY <1>3, <1>4

\* Each string of a call that is split is in one of the three parts, by its place.
LEMMA InParts ==
  ASSUME NEW u \in Seq(Seq(Nat)), NEW c \in CallSet,
         NEW a, NEW b, NEW x, Split3(u, c, a, b, x),
         NEW less, NEW greater, NEW middle, PartsAt(c, a, b, x, less, greater, middle)
  PROVE  \A k \in 1 .. Len(u) :
           /\ Owns(c, k) <=> (Owns(less, k) \/ Owns(middle, k) \/ Owns(greater, k))
           /\ Owns(less, k) <=> Owns(c, k) /\ k <= a
           /\ Owns(middle, k) <=> Owns(c, k) /\ a < k /\ k <= b
           /\ Owns(greater, k) <=> Owns(c, k) /\ b < k
<1>1. Len(u) \in Nat /\ c.l <= a /\ a <= b /\ b <= c.r
  BY LenProperties DEF Split3
<1>2. PICK n \in Nat : n = Len(u)
  BY <1>1
<1> QED BY <1>1, <1>2, InAPart

\* A call with two places has two strings.
LEMMA TwoInACall ==
  ASSUME NEW d \in CallSet, NEW i \in Nat, NEW j \in Nat, i < j, Owns(d, i), Owns(d, j)
  PROVE  Size(d) > 1
BY DEF CallSet, Owns, Size

\* Strings of different parts of a split are in order.
LEMMA SplitOrders ==
  ASSUME NEW u \in Seq(Seq(Nat)), NEW c \in CallSet, NEW rest \in SUBSET CallSet,
         NEW a, NEW b, NEW x, Split3(u, c, a, b, x),
         NEW less, NEW greater, NEW middle, PartsAt(c, a, b, x, less, greater, middle),
         Ordered(u, {c} \cup rest), Prefixed(u, {c} \cup rest)
  PROVE  Ordered(u, PartSet(x, less, greater, middle) \cup rest)
<1>1. Len(u) \in Nat /\ a \in Nat /\ b \in Nat /\ x \in Int /\ c.depth \in Nat
  BY LenProperties DEF Split3, CallSet
<1>2. SUFFICES ASSUME NEW i \in 1 .. Len(u), NEW j \in 1 .. Len(u), i < j,
                      ~StrLeq(u[i], u[j])
               PROVE  \E d \in PartSet(x, less, greater, middle) \cup rest : Owns(d, i) /\ Owns(d, j)
  BY DEF Ordered
<1>3. PICK d \in {c} \cup rest : Owns(d, i) /\ Owns(d, j)
  BY <1>2 DEF Ordered
<1>4. CASE d \in rest
  BY <1>3, <1>4
<1>5. CASE d = c
  <2>1. i \in Nat /\ j \in Nat /\ u[i] \in Seq(Nat) /\ u[j] \in Seq(Nat)
    BY <1>1, ElementOfSeq
  <2>2. SharePrefix(u[i], u[j], c.depth)
    BY <1>3, <1>5 DEF Prefixed
  <2>3. PICK y \in Int, z \in Int : y = GetLabel(u[i], c.depth) /\ z = GetLabel(u[j], c.depth)
    BY <1>3, <1>5 DEF Split3
  <2>4. ~(y < z) /\ ~(y = z /\ y = -1)
    <3>1. StrLeq(u[i], u[i])
      BY <2>1, StrLeqDecides
    <3> QED BY <1>1, <1>2, <2>1, <2>2, <2>3, <3>1, LabelDecides
  <2>5. /\ i <= a => y < x
        /\ a < i /\ i <= b => y = x
        /\ b < i => y > x
        /\ j <= a => z < x
        /\ a < j /\ j <= b => z = x
        /\ b < j => z > x
    BY <1>3, <1>5, <2>3 DEF Split3
  <2>6. \/ i <= a /\ j <= a
        \/ a < i /\ i <= b /\ a < j /\ j <= b /\ x # -1
        \/ b < i /\ b < j
    BY <1>1, <1>2, <2>1, <2>3, <2>4, <2>5
  <2>7. /\ less \in CallSet /\ greater \in CallSet /\ middle \in CallSet
    BY DEF PartsAt
  <2>8. CASE i <= a /\ j <= a
    <3>1. Owns(less, i) /\ Owns(less, j)
      BY <1>3, <1>5, <2>8, InParts
    <3>2. less \in PartSet(x, less, greater, middle)
      BY <1>2, <2>1, <2>7, <3>1, TwoInACall DEF PartSet
    <3> QED BY <3>1, <3>2
  <2>9. CASE a < i /\ i <= b /\ a < j /\ j <= b /\ x # -1
    <3>1. Owns(middle, i) /\ Owns(middle, j)
      BY <1>3, <1>5, <2>9, InParts
    <3>2. middle \in PartSet(x, less, greater, middle)
      BY <1>2, <2>1, <2>7, <2>9, <3>1, TwoInACall DEF PartSet
    <3> QED BY <3>1, <3>2
  <2>10. CASE b < i /\ b < j
    <3>1. Owns(greater, i) /\ Owns(greater, j)
      BY <1>3, <1>5, <2>10, InParts
    <3>2. greater \in PartSet(x, less, greater, middle)
      BY <1>2, <2>1, <2>7, <3>1, TwoInACall DEF PartSet
    <3> QED BY <3>1, <3>2
  <2> QED BY <2>6, <2>8, <2>9, <2>10
<1> QED BY <1>3, <1>4, <1>5

\* The strings of a part agree up to its depth: one deeper in the middle part.
LEMMA SplitPrefixes ==
  ASSUME NEW u \in Seq(Seq(Nat)), NEW c \in CallSet, NEW rest \in SUBSET CallSet,
         NEW a, NEW b, NEW x, Split3(u, c, a, b, x),
         NEW less, NEW greater, NEW middle, PartsAt(c, a, b, x, less, greater, middle),
         Prefixed(u, {c} \cup rest)
  PROVE  Prefixed(u, PartSet(x, less, greater, middle) \cup rest)
<1>1. Len(u) \in Nat /\ a \in Nat /\ b \in Nat /\ x \in Int /\ c.depth \in Nat
  BY LenProperties DEF Split3, CallSet
<1>2. SUFFICES ASSUME NEW d \in PartSet(x, less, greater, middle) \cup rest,
                      NEW i \in 1 .. Len(u), NEW j \in 1 .. Len(u), Owns(d, i), Owns(d, j)
               PROVE  SharePrefix(u[i], u[j], d.depth)
  BY DEF Prefixed
<1>3. CASE d \in rest
  BY <1>2, <1>3 DEF Prefixed
<1>4. CASE d \in {less, greater}
  <2>1. Owns(c, i) /\ Owns(c, j)
    BY <1>2, <1>4, InParts
  <2>2. d.depth = c.depth
    BY <1>4 DEF PartsAt
  <2> QED BY <2>1, <2>2 DEF Prefixed
<1>5. CASE d = middle /\ x # -1
  <2>1. Owns(c, i) /\ Owns(c, j) /\ a < i /\ i <= b /\ a < j /\ j <= b
    BY <1>2, <1>5, InParts
  <2>2. SharePrefix(u[i], u[j], c.depth)
    BY <2>1 DEF Prefixed
  <2>3. GetLabel(u[i], c.depth) = x /\ GetLabel(u[j], c.depth) = x
    BY <2>1 DEF Split3
  <2>4. u[i] \in Seq(Nat) /\ u[j] \in Seq(Nat)
    BY <1>1, ElementOfSeq
  <2>5. SharePrefix(u[i], u[j], c.depth + 1)
    BY <1>1, <1>5, <2>2, <2>3, <2>4, LabelDecides
  <2>6. d.depth = c.depth + 1
    BY <1>5 DEF PartsAt
  <2> QED BY <2>5, <2>6
<1> QED BY <1>2, <1>3, <1>4, <1>5 DEF PartSet

\* A part that is not the largest has at most half of the strings.
LEMMA PartSizes ==
  ASSUME NEW l \in Nat, NEW a \in Nat, NEW b \in Nat, NEW r \in Nat, l <= a, a <= b, b <= r,
         NEW mid \in BOOLEAN, mid <=> a - l <= b - a /\ r - b <= b - a,
         NEW gr \in BOOLEAN, gr <=> ~mid /\ a - l < r - b
  PROVE  /\ mid \/ gr => 2 * (a - l) <= r - l
         /\ ~gr => 2 * (r - b) <= r - l
         /\ ~mid => 2 * (b - a) <= r - l
         /\ a - l <= r - l /\ r - b <= r - l /\ b - a <= r - l
OBVIOUS

\* A call at the next level has at most half of the strings.
LEMMA HalfAndLevel ==
  ASSUME NEW s \in Nat, NEW m \in Nat, NEW k \in Nat, NEW n \in Nat, s * 2 ^ k <= n
  PROVE  /\ m <= s => m * 2 ^ k <= n
         /\ 2 * m <= s => m * 2 ^ (k + 1) <= n
<1>1. PICK w \in Nat : w = 2 ^ k /\ 2 ^ (k + 1) = 2 * w
  BY PowerOfTwo
<1>2. \A y \in Nat : y <= s => y * w <= s * w
  <2> TAKE y \in Nat
  <2> HAVE y <= s
  <2>1. PICK z \in Nat : s = y + z
    <3>1. s - y \in Nat /\ s = y + (s - y)
      OBVIOUS
    <3> QED BY <3>1
  <2>2. s * w = y * w + z * w /\ z * w \in Nat /\ y * w \in Nat
    BY <2>1
  <2> QED BY <2>2
<1>3. s * w \in Nat /\ s * w <= n
  BY <1>1
<1>4. m <= s => m * w <= n
  <2>1. m * w \in Nat
    OBVIOUS
  <2> QED BY <1>2, <1>3, <2>1
<1>5. 2 * m <= s => m * (2 * w) <= n
  <2>1. 2 * m \in Nat /\ (2 * m) * w = m * (2 * w) /\ m * (2 * w) \in Nat
    OBVIOUS
  <2> QED BY <1>2, <1>3, <2>1
<1> QED BY <1>1, <1>4, <1>5

\* Finitely many places have finitely many strings.
LEMMA NamesFinite ==
  ASSUME NEW u, NEW n \in Nat, NEW S \in SUBSET (1 .. n)
  PROVE  IsFiniteSet(Names(u, S)) /\ Cardinality(Names(u, S)) \in Nat
<1>1. IsFiniteSet(1 .. n)
  <2>1. 1 \in Int /\ n \in Int
    OBVIOUS
  <2> QED BY <2>1, FS_Interval
<1>2. IsFiniteSet(S)
  BY <1>1, FS_Subset
<1> DEFINE f == [i \in S |-> u[i]]
<1>3. f \in Surjection(S, Names(u, S))
  BY DEF Names, Surjection
<1> HIDE DEF f
<1>4. IsFiniteSet(Names(u, S))
  BY <1>2, <1>3, FS_Surjection
<1> QED BY <1>4, FS_CardinalityType

\* What was in a call that is no more.
LEMMA OutsideWithout ==
  ASSUME NEW n \in Nat, NEW calls \in SUBSET CallSet, NEW d \in CallSet, d.r <= n,
         \A e \in calls : Apart(d, e), NEW all, all = {d} \cup calls
  PROVE  Outside(n, calls) = Outside(n, all) \cup (d.l + 1 .. d.r)
<1>1. d.l \in Nat /\ d.r \in Nat /\ \A e \in calls : e.l \in Nat /\ e.r \in Nat
  BY DEF CallSet
<1>2. \A i \in 1 .. n : Owns(d, i) <=> i \in d.l + 1 .. d.r
  BY <1>1 DEF Owns
<1>3. \A i \in d.l + 1 .. d.r : i \in 1 .. n
  BY <1>1
<1>4. ASSUME NEW i \in 1 .. n, Owns(d, i), NEW e \in calls PROVE ~Owns(e, i)
  <2>1. e.l \in Nat /\ e.r \in Nat /\ Apart(d, e)
    BY <1>1
  <2> QED BY <1>1, <1>4, <2>1 DEF Owns, Apart
<1> QED BY <1>2, <1>3, <1>4 DEF Outside

\* A call given up adds one name if all its strings are the same.
LEMMA GiveUp ==
  ASSUME NEW u, NEW n \in Nat, NEW calls \in SUBSET CallSet, NEW d \in CallSet, d.r <= n,
         \A e \in calls : Apart(d, e), NEW all, all = {d} \cup calls, d.l <= d.r,
         \A i, j \in 1 .. n : Owns(d, i) /\ ~Owns(d, j) => u[i] # u[j],
         \A i, j \in 1 .. n : Owns(d, i) /\ Owns(d, j) => u[i] = u[j]
  PROVE  /\ Cardinality(Names(u, Outside(n, calls))) =
              Cardinality(Names(u, Outside(n, all))) + IF Size(d) > 0 THEN 1 ELSE 0
         /\ Cardinality(Names(u, Outside(n, all))) \in Nat
<1>1. d.l \in Nat /\ d.r \in Nat
  BY DEF CallSet
<1> DEFINE S == Outside(n, all)
<1>2. S \in SUBSET (1 .. n) /\ \A j \in S : ~Owns(d, j)
  BY DEF Outside
<1>3. IsFiniteSet(Names(u, S)) /\ Cardinality(Names(u, S)) \in Nat
  <2> HIDE DEF S
  <2> QED BY <1>2, NamesFinite
<1>4. CASE ~(Size(d) > 0)
  <2>1. d.l + 1 .. d.r = {}
    BY <1>1, <1>4 DEF Size
  <2>2. Outside(n, calls) = S
    <3>1. Outside(n, calls) = Outside(n, all) \cup (d.l + 1 .. d.r)
      BY OutsideWithout
    <3> QED BY <2>1, <3>1
  <2> QED BY <1>3, <1>4, <2>2
<1>5. CASE Size(d) > 0
  <2>1. /\ d.l + 1 \in 1 .. n /\ Owns(d, d.l + 1) /\ d.l + 1 \in d.l + 1 .. d.r
        /\ \A i \in d.l + 1 .. d.r : i \in 1 .. n /\ Owns(d, i)
    BY <1>1, <1>5 DEF Size, Owns
  <2>2. PICK s : s = u[d.l + 1]
    OBVIOUS
  <2>3. \A i \in d.l + 1 .. d.r : u[i] = s
    BY <2>1, <2>2
  <2>4. s \notin Names(u, S)
    BY <1>2, <2>1, <2>2 DEF Names
  <2>5. Outside(n, calls) = S \cup (d.l + 1 .. d.r)
    BY OutsideWithout
  <2> HIDE DEF S
  <2>6. Names(u, S \cup (d.l + 1 .. d.r)) = Names(u, S) \cup {s}
    BY <2>1, <2>3 DEF Names
  <2>7. Cardinality(Names(u, S) \cup {s}) = Cardinality(Names(u, S)) + 1
    BY <1>3, <2>4, FS_AddElement
  <2> QED BY <1>3, <1>5, <2>5, <2>6, <2>7 DEF S
<1> QED BY <1>4, <1>5

AfterSplit(x, less, greater, middle, rest) == PartSet(x, less, greater, middle) \cup rest

\* A split adds to the count the strings that leave the pending calls with it.
LEMMA SplitCounts ==
  ASSUME NEW u \in Seq(Seq(Nat)), NEW c \in CallSet, NEW rest \in SUBSET CallSet,
         NEW a, NEW b, NEW x, Split3(u, c, a, b, x),
         NEW less, NEW greater, NEW middle, PartsAt(c, a, b, x, less, greater, middle),
         NEW old, old = {c} \cup rest, Distinguished(u, old), Prefixed(u, old),
         \A e \in rest : Apart(c, e),
         NEW new, new = AfterSplit(x, less, greater, middle, rest),
         NEW ofMiddle, ofMiddle = IF x = -1 /\ Size(middle) > 0 THEN 1 ELSE Counts(middle)
  PROVE  Cardinality(Names(u, Outside(Len(u), new))) =
           Cardinality(Names(u, Outside(Len(u), old))) +
           (Counts(less) + Counts(greater) + ofMiddle)
<1>1. /\ Len(u) \in Nat /\ a \in Nat /\ b \in Nat /\ x \in Int /\ c.depth \in Nat
      /\ c.l \in Nat /\ c.r \in Nat /\ c.l <= a /\ a <= b /\ b <= c.r /\ c.r <= Len(u)
  BY LenProperties DEF Split3, CallSet
<1>2. PICK n \in Nat : n = Len(u)
  BY <1>1
<1>3. /\ less \in CallSet /\ greater \in CallSet /\ middle \in CallSet
      /\ less.l = c.l /\ less.r = a /\ middle.l = a /\ middle.r = b
      /\ greater.l = b /\ greater.r = c.r
  BY DEF PartsAt
<1>4. /\ Apart(less, greater) /\ Apart(less, middle) /\ Apart(greater, less)
      /\ Apart(greater, middle) /\ Apart(middle, less) /\ Apart(middle, greater)
  BY <1>1, <1>3 DEF Apart
<1>5. \A e \in rest : Apart(less, e) /\ Apart(greater, e) /\ Apart(middle, e)
  <2> TAKE e \in rest
  <2>1. Apart(c, e) /\ e.l \in Nat /\ e.r \in Nat
    BY DEF CallSet
  <2> QED BY <1>1, <1>3, <2>1 DEF Apart
<1>6. \A d \in {less, greater, middle} : \A i, j \in 1 .. n : Owns(d, i) /\ ~Owns(d, j) => u[i] # u[j]
  BY <1>2, SplitDistinguishes
<1>7. Outside(n, {c} \cup rest) = Outside(n, {less} \cup ({greater} \cup ({middle} \cup rest)))
  <2>1. \A k \in 1 .. n : Owns(c, k) <=> (Owns(less, k) \/ Owns(middle, k) \/ Owns(greater, k))
    BY <1>2, InParts
  <2> QED BY <2>1 DEF Outside
<1> DEFINE kl == Size(less) > 1
           kg == Size(greater) > 1
           km == Size(middle) > 1 /\ x # -1
           KL == IF kl THEN {less} ELSE {}
           KG == IF kg THEN {greater} ELSE {}
           KM == IF km THEN {middle} ELSE {}
           N(calls) == Cardinality(Names(u, Outside(n, calls)))
<1>8. \A d \in {less, greater, middle} : Size(d) \in Nat /\ d.r <= n /\ d.l <= d.r
  BY <1>1, <1>2, <1>3 DEF Size
<1>9. ASSUME NEW d \in {less, greater, middle}, ~(Size(d) > 1), NEW i \in 1 .. n, NEW j \in 1 .. n,
             Owns(d, i), Owns(d, j)
      PROVE  u[i] = u[j]
  <2>1. d \in CallSet /\ i \in Nat /\ j \in Nat
    BY <1>3
  <2>2. ~(i < j) /\ ~(j < i)
    BY <1>9, <2>1, TwoInACall
  <2> QED BY <2>1, <2>2
<1>10. ASSUME x = -1, NEW i \in 1 .. n, NEW j \in 1 .. n, Owns(middle, i), Owns(middle, j)
       PROVE  u[i] = u[j]
  <2>1. Owns(c, i) /\ Owns(c, j) /\ a < i /\ i <= b /\ a < j /\ j <= b
    BY <1>2, <1>10, InParts
  <2>2. SharePrefix(u[i], u[j], c.depth)
    BY <1>2, <2>1 DEF Prefixed
  <2>3. GetLabel(u[i], c.depth) = x /\ GetLabel(u[j], c.depth) = x
    BY <1>2, <2>1 DEF Split3
  <2>4. u[i] \in Seq(Nat) /\ u[j] \in Seq(Nat)
    BY <1>2, ElementOfSeq
  <2> QED BY <1>1, <1>10, <2>2, <2>3, <2>4, LabelDecides
<1>11. N(KL \cup ({greater} \cup ({middle} \cup rest))) =
         N({less} \cup ({greater} \cup ({middle} \cup rest))) + IF ~kl /\ Size(less) > 0 THEN 1 ELSE 0
  <2>1. {greater} \cup ({middle} \cup rest) \in SUBSET CallSet
    BY <1>3
  <2>2. \A e \in {greater} \cup ({middle} \cup rest) : Apart(less, e)
    BY <1>4, <1>5
  <2>3. kl \/ \A i, j \in 1 .. n : Owns(less, i) /\ Owns(less, j) => u[i] = u[j]
    BY <1>9
  <2>4. PICK t \in SUBSET CallSet : t = {greater} \cup ({middle} \cup rest)
    BY <2>1
  <2>5. PICK all \in SUBSET CallSet : all = {less} \cup t
    BY <1>3
  <2>6. /\ less \in CallSet /\ less.r <= n /\ less.l <= less.r /\ \A e \in t : Apart(less, e)
        /\ \A i, j \in 1 .. n : Owns(less, i) /\ ~Owns(less, j) => u[i] # u[j]
    BY <1>3, <1>6, <1>8, <2>2, <2>4
  <2>7. CASE kl
    <3>1. KL \cup t = all
      BY <2>5, <2>7
    <3>2. Outside(n, all) \in SUBSET (1 .. n)
      BY DEF Outside
    <3>3. N(all) \in Nat
      BY <3>2, NamesFinite
    <3> HIDE DEF kl, N
    <3> QED BY <2>4, <2>5, <2>7, <3>1, <3>3
  <2>8. CASE ~kl
    <3>1. KL \cup t = t
      BY <2>8
    <3>2. N(t) = N(all) + IF Size(less) > 0 THEN 1 ELSE 0
      BY ONLY n \in Nat, <2>3, <2>4, <2>5, <2>6, <2>8, GiveUp
    <3> HIDE DEF kl, N
    <3> QED BY <2>4, <2>5, <2>8, <3>1, <3>2
  <2> QED BY <2>7, <2>8
<1>12. N(KG \cup (KL \cup ({middle} \cup rest))) =
         N({greater} \cup (KL \cup ({middle} \cup rest))) + IF ~kg /\ Size(greater) > 0 THEN 1 ELSE 0
  <2>1. KL \cup ({middle} \cup rest) \in SUBSET CallSet
    BY <1>3
  <2>2. \A e \in KL \cup ({middle} \cup rest) : Apart(greater, e)
    BY <1>4, <1>5
  <2>3. kg \/ \A i, j \in 1 .. n : Owns(greater, i) /\ Owns(greater, j) => u[i] = u[j]
    BY <1>9
  <2>4. PICK t \in SUBSET CallSet : t = KL \cup ({middle} \cup rest)
    BY <2>1
  <2>5. PICK all \in SUBSET CallSet : all = {greater} \cup t
    BY <1>3
  <2>6. /\ greater \in CallSet /\ greater.r <= n /\ greater.l <= greater.r /\ \A e \in t : Apart(greater, e)
        /\ \A i, j \in 1 .. n : Owns(greater, i) /\ ~Owns(greater, j) => u[i] # u[j]
    BY <1>3, <1>6, <1>8, <2>2, <2>4
  <2>7. CASE kg
    <3>1. KG \cup t = all
      BY <2>5, <2>7
    <3>2. Outside(n, all) \in SUBSET (1 .. n)
      BY DEF Outside
    <3>3. N(all) \in Nat
      BY <3>2, NamesFinite
    <3> HIDE DEF kg, N
    <3> QED BY <2>4, <2>5, <2>7, <3>1, <3>3
  <2>8. CASE ~kg
    <3>1. KG \cup t = t
      BY <2>8
    <3>2. N(t) = N(all) + IF Size(greater) > 0 THEN 1 ELSE 0
      BY ONLY n \in Nat, <2>3, <2>4, <2>5, <2>6, <2>8, GiveUp
    <3> HIDE DEF kg, N
    <3> QED BY <2>4, <2>5, <2>8, <3>1, <3>2
  <2> QED BY <2>7, <2>8
<1>13. N(KM \cup (KG \cup (KL \cup rest))) =
         N({middle} \cup (KG \cup (KL \cup rest))) + IF ~km /\ Size(middle) > 0 THEN 1 ELSE 0
  <2>1. KG \cup (KL \cup rest) \in SUBSET CallSet
    BY <1>3
  <2>2. \A e \in KG \cup (KL \cup rest) : Apart(middle, e)
    BY <1>4, <1>5
  <2>3. km \/ \A i, j \in 1 .. n : Owns(middle, i) /\ Owns(middle, j) => u[i] = u[j]
    BY <1>9, <1>10
  <2>4. PICK t \in SUBSET CallSet : t = KG \cup (KL \cup rest)
    BY <2>1
  <2>5. PICK all \in SUBSET CallSet : all = {middle} \cup t
    BY <1>3
  <2>6. /\ middle \in CallSet /\ middle.r <= n /\ middle.l <= middle.r /\ \A e \in t : Apart(middle, e)
        /\ \A i, j \in 1 .. n : Owns(middle, i) /\ ~Owns(middle, j) => u[i] # u[j]
    BY <1>3, <1>6, <1>8, <2>2, <2>4
  <2>7. CASE km
    <3>1. KM \cup t = all
      BY <2>5, <2>7
    <3>2. Outside(n, all) \in SUBSET (1 .. n)
      BY DEF Outside
    <3>3. N(all) \in Nat
      BY <3>2, NamesFinite
    <3> HIDE DEF km, N
    <3> QED BY <2>4, <2>5, <2>7, <3>1, <3>3
  <2>8. CASE ~km
    <3>1. KM \cup t = t
      BY <2>8
    <3>3. \A i, j \in 1 .. n : Owns(middle, i) /\ Owns(middle, j) => u[i] = u[j]
      BY <2>3, <2>8
    <3>2. N(t) = N(all) + IF Size(middle) > 0 THEN 1 ELSE 0
      BY ONLY n \in Nat, <3>3, <2>4, <2>5, <2>6, GiveUp
    <3> HIDE DEF km, N
    <3> QED BY <2>4, <2>5, <2>8, <3>1, <3>2
  <2> QED BY <2>7, <2>8
<1>14. /\ KG \cup (KL \cup ({middle} \cup rest)) = {middle} \cup (KG \cup (KL \cup rest))
       /\ KL \cup ({greater} \cup ({middle} \cup rest)) = {greater} \cup (KL \cup ({middle} \cup rest))
  <2> HIDE DEF KL, KG
  <2> QED OBVIOUS
<1>15. KM \cup (KG \cup (KL \cup rest)) = PartSet(x, less, greater, middle) \cup rest
  <2>1. PartSet(x, less, greater, middle) = KM \cup (KG \cup KL)
    BY DEF PartSet
  <2> HIDE DEF KM, KG, KL
  <2> QED BY <2>1
<1>16. /\ (IF ~kl /\ Size(less) > 0 THEN 1 ELSE 0) = Counts(less)
       /\ (IF ~kg /\ Size(greater) > 0 THEN 1 ELSE 0) = Counts(greater)
       /\ (IF ~km /\ Size(middle) > 0 THEN 1 ELSE 0) =
            (IF x = -1 /\ Size(middle) > 0 THEN 1 ELSE Counts(middle))
  BY <1>8 DEF Counts
<1>17. Counts(less) \in Nat /\ Counts(greater) \in Nat /\ Counts(middle) \in Nat
  BY DEF Counts
<1>18. N({c} \cup rest) \in Nat
  <2>1. Outside(n, {c} \cup rest) \in SUBSET (1 .. n)
    BY DEF Outside
  <2> QED BY <2>1, NamesFinite
<1>19. N(PartSet(x, less, greater, middle) \cup rest) =
         N({c} \cup rest) + Counts(less) + Counts(greater) +
         IF x = -1 /\ Size(middle) > 0 THEN 1 ELSE Counts(middle)
  <2> HIDE DEF KL, KG, KM, kl, kg, km
  <2>1. N({c} \cup rest) = N({less} \cup ({greater} \cup ({middle} \cup rest)))
    BY <1>7
  <2> HIDE DEF N
  <2> QED BY <1>11, <1>12, <1>13, <1>14, <1>15, <1>16, <2>1
<1>20. PICK y \in Nat : y = IF x = -1 /\ Size(middle) > 0 THEN 1 ELSE Counts(middle)
  BY <1>17
<1> HIDE DEF N
<1>21. N(PartSet(x, less, greater, middle) \cup rest) =
         N({c} \cup rest) + (Counts(less) + Counts(greater) + y)
  BY <1>17, <1>18, <1>19, <1>20
<1> QED BY <1>2, <1>20, <1>21 DEF N, AfterSplit

\* The partition is made: the parts are what Split makes calls for.
LEMMA SplitShape ==
  ASSUME SortInv, step = "split"
  PROVE  /\ Current.l <= pl /\ pl <= pr /\ pr <= Current.r /\ pl \in Nat /\ pr \in Nat /\ pivot \in Int
         /\ work # <<>> /\ Size(Current) > 1
         /\ Split3(units, Current, pl, pr, pivot)
         /\ PartsAt(Current, pl, pr, pivot, LessPart, GreaterPart, MiddlePart)
         /\ PartSet(pivot, LessPart, GreaterPart, MiddlePart) = Range(SplitParts.calls)
         /\ SplitParts.calls \in Seq(CallSet) /\ AllApart(SplitParts.calls)
<1>1. step \in Scanning \cup Gathering /\ step \in Gathering
  BY DEF Gathering
<1>2. /\ work # <<>> /\ Size(Current) > 1
      /\ pl \in Nat /\ pr \in Nat /\ pivot \in Int
      /\ InOrder(Current.l, Current.r, pivotL, pl, pr, pivotR)
      /\ Sides(Labels(units, Current), Current.l, Current.r, pivotL, pl, pr, pivotR, pivot)
      /\ Middle(Labels(units, Current), Current.l, Current.r, pl, pr, pivot)
      /\ Labels(units, Current) \in [Current.l .. Current.r - 1 -> Int]
  BY <1>1, WhilePartitioning
<1>3. pivotL = Current.l /\ pivotR = Current.r
  BY DEF SortInv, Marked
<1>4. /\ Current \in CallSet
      /\ Current.l \in Nat /\ Current.r \in Nat /\ Current.depth \in Nat /\ Current.level \in Nat
      /\ Current.r <= Len(units) /\ Len(units) \in Nat
  BY <1>2, AtHand DEF SortInv
<1>5. Current.l <= pl /\ pl <= pr /\ pr <= Current.r
  BY <1>2, <1>3 DEF InOrder
<1>6. Split3(units, Current, pl, pr, pivot)
  <2>1. PICK c \in CallSet : c = Current
    BY <1>4
  <2>2. PICK L \in [c.l .. c.r - 1 -> Int] : L = Labels(units, c)
    BY <1>2, <2>1
  <2> SUFFICES ASSUME NEW i \in 1 .. Len(units), Owns(c, i)
               PROVE  /\ GetLabel(units[i], c.depth) \in Int
                      /\ i <= pl => GetLabel(units[i], c.depth) < pivot
                      /\ pl < i /\ i <= pr => GetLabel(units[i], c.depth) = pivot
                      /\ pr < i => GetLabel(units[i], c.depth) > pivot
    BY <1>2, <1>4, <1>5, <2>1 DEF Split3
  <2>3. PICK k \in c.l .. c.r - 1 : i = k + 1 /\ k = i - 1
    <3>1. i - 1 \in c.l .. c.r - 1 /\ i = (i - 1) + 1
      BY <1>4, <2>1 DEF Owns
    <3> QED BY <3>1
  <2>4. GetLabel(units[i], c.depth) = L[k]
    BY <2>2, <2>3 DEF Labels
  <2>5. /\ k < pl => L[k] < pivot
        /\ pl <= k /\ k < pr => L[k] = pivot
        /\ pr <= k => L[k] > pivot
    <3>1. c.l <= k /\ k < c.r /\ k \in Int
      BY <1>4, <2>1
    <3> QED BY <1>2, <1>3, <2>1, <2>2, <3>1 DEF Sides, Middle
  <2>6. (i <= pl <=> k < pl) /\ (pl < i <=> pl <= k) /\ (i <= pr <=> k < pr) /\ (pr < i <=> pr <= k)
    BY <1>2, <1>4, <2>1, <2>3
  <2> QED BY <2>4, <2>5, <2>6
<1>7. PartsAt(Current, pl, pr, pivot, LessPart, GreaterPart, MiddlePart)
  BY <1>2, <1>4 DEF PartsAt, LessPart, GreaterPart, MiddlePart, Call, CallSet, NextLevel, NextDepth
<1>8. /\ SplitParts.calls \in Seq(CallSet) /\ AllApart(SplitParts.calls)
      /\ Range(SplitParts.calls) = {c \in Parts : Size(c) > 1}
  BY <1>2, <1>4, <1>5, SplitCalls
<1>9. PartSet(pivot, LessPart, GreaterPart, MiddlePart) = {c \in Parts : Size(c) > 1}
  BY DEF PartSet, Parts, IsEnd
<1> QED BY <1>2, <1>5, <1>6, <1>7, <1>8, <1>9

\* The parts that get a level of their own have at most half of the strings.
LEMMA SplitHalves ==
  ASSUME SortInv, step = "split", NEW d \in {LessPart, GreaterPart, MiddlePart}
  PROVE  Size(d) * 2 ^ d.level <= Len(given)
<1>1. /\ Current.l <= pl /\ pl <= pr /\ pr <= Current.r /\ pl \in Nat /\ pr \in Nat
      /\ work # <<>>
  BY SplitShape
<1>2. /\ Current.l \in Nat /\ Current.r \in Nat /\ Current.level \in Nat /\ Len(given) \in Nat
      /\ Current \in Range(work)
  BY <1>1, AtHand DEF SortInv
<1>3. PICK l \in Nat, r \in Nat, k \in Nat, n \in Nat :
        l = Current.l /\ r = Current.r /\ k = Current.level /\ n = Len(given)
  BY <1>2
<1>4. (r - l) * 2 ^ k <= n
  BY <1>2, <1>3 DEF SortInv, Content, Halved, Size
<1>5. PICK mid \in BOOLEAN : mid <=> MidLargest
  BY Zenon
<1>6. PICK gr \in BOOLEAN : gr <=> GreaterLargest
  BY Zenon
<1>7. mid <=> pl - l <= pr - pl /\ r - pr <= pr - pl
  BY <1>3, <1>5 DEF MidLargest, MiddleIsLargest
<1>8. gr <=> ~mid /\ pl - l < r - pr
  BY <1>3, <1>5, <1>6 DEF GreaterLargest
<1>9. /\ mid \/ gr => 2 * (pl - l) <= r - l
      /\ ~gr => 2 * (r - pr) <= r - l
      /\ ~mid => 2 * (pr - pl) <= r - l
      /\ pl - l <= r - l /\ r - pr <= r - l /\ pr - pl <= r - l
      /\ pl - l \in Nat /\ r - pr \in Nat /\ pr - pl \in Nat /\ r - l \in Nat
  <2>1. l <= pl /\ pl <= pr /\ pr <= r /\ pl \in Nat /\ pr \in Nat
    BY <1>1, <1>3
  <2>2. pl - l \in Nat /\ r - pr \in Nat /\ pr - pl \in Nat /\ r - l \in Nat
    BY <2>1
  <2>3. PICK x \in Nat, y \in Nat : x = pl /\ y = pr
    BY <2>1
  <2>4. l <= x /\ x <= y /\ y <= r /\ (mid <=> x - l <= y - x /\ r - y <= y - x)
        /\ (gr <=> ~mid /\ x - l < r - y)
    BY <1>7, <1>8, <2>1, <2>3
  <2>5. /\ mid \/ gr => 2 * (x - l) <= r - l
        /\ ~gr => 2 * (r - y) <= r - l
        /\ ~mid => 2 * (y - x) <= r - l
        /\ x - l <= r - l /\ r - y <= r - l /\ y - x <= r - l
    BY ONLY l \in Nat, r \in Nat, x \in Nat, y \in Nat, <2>4
  <2> QED BY <2>2, <2>3, <2>5
<1>10. ASSUME NEW m \in Nat, m <= r - l PROVE m * 2 ^ k <= n /\ (2 * m <= r - l => m * 2 ^ (k + 1) <= n)
  <2>1. PICK s \in Nat : s = r - l
    BY <1>9
  <2>2. s * 2 ^ k <= n
    BY <1>4, <2>1
  <2>3. m <= s
    BY <1>10, <2>1
  <2> QED BY <2>1, <2>2, <2>3, HalfAndLevel
<1>11. CASE d = LessPart
  <2>1. Size(d) = pl - l /\ d.level = k + IF ~mid /\ ~gr THEN 0 ELSE 1
    BY <1>3, <1>5, <1>6, <1>11 DEF LessPart, Call, Size, NextLevel
  <2>2. PICK m \in Nat : m = pl - l
    BY <1>9
  <2>3. m <= r - l /\ (mid \/ gr => 2 * m <= r - l)
    BY <1>9, <2>2
  <2>4. m * 2 ^ k <= n /\ (2 * m <= r - l => m * 2 ^ (k + 1) <= n)
    BY <1>10, <2>3
  <2>5. CASE ~mid /\ ~gr
    <3>1. d.level = k
      BY <2>1, <2>5
    <3> QED BY <1>3, <2>1, <2>2, <2>4, <3>1
  <2>6. CASE mid \/ gr
    <3>1. d.level = k + 1
      BY <2>1, <2>6
    <3> QED BY <1>3, <2>1, <2>2, <2>3, <2>4, <2>6, <3>1
  <2> QED BY <2>5, <2>6
<1>12. CASE d = GreaterPart
  <2>1. Size(d) = r - pr /\ d.level = k + IF gr THEN 0 ELSE 1
    BY <1>3, <1>6, <1>12 DEF GreaterPart, Call, Size, NextLevel
  <2>2. PICK m \in Nat : m = r - pr
    BY <1>9
  <2>3. m <= r - l /\ (~gr => 2 * m <= r - l)
    BY <1>9, <2>2
  <2>4. m * 2 ^ k <= n /\ (2 * m <= r - l => m * 2 ^ (k + 1) <= n)
    BY <1>10, <2>3
  <2>5. CASE gr
    <3>1. d.level = k
      BY <2>1, <2>5
    <3> QED BY <1>3, <2>1, <2>2, <2>4, <3>1
  <2>6. CASE ~gr
    <3>1. d.level = k + 1
      BY <2>1, <2>6
    <3> QED BY <1>3, <2>1, <2>2, <2>3, <2>4, <2>6, <3>1
  <2> QED BY <2>5, <2>6
<1>13. CASE d = MiddlePart
  <2>1. Size(d) = pr - pl /\ d.level = k + IF mid THEN 0 ELSE 1
    BY <1>3, <1>5, <1>13 DEF MiddlePart, Call, Size, NextLevel
  <2>2. PICK m \in Nat : m = pr - pl
    BY <1>9
  <2>3. m <= r - l /\ (~mid => 2 * m <= r - l)
    BY <1>9, <2>2
  <2>4. m * 2 ^ k <= n /\ (2 * m <= r - l => m * 2 ^ (k + 1) <= n)
    BY <1>10, <2>3
  <2>5. CASE mid
    <3>1. d.level = k
      BY <2>1, <2>5
    <3> QED BY <1>3, <2>1, <2>2, <2>4, <3>1
  <2>6. CASE ~mid
    <3>1. d.level = k + 1
      BY <2>1, <2>6
    <3> QED BY <1>3, <2>1, <2>2, <2>3, <2>4, <2>6, <3>1
  <2> QED BY <2>5, <2>6
<1> QED BY <1>11, <1>12, <1>13

\* No call is at hand: what SortInv says between two of them.
LEMMA BetweenCalls ==
  ASSUME SortTyped', step' = "sort", Counted', Content'
  PROVE  SortInv'
BY DEF SortInv, Marked, Partitioned, Inserted, Scanning, Gathering

\* Splitting a call preserves the invariant.
LEMMA SplitKeeps ==
  ASSUME SortInv, Split
  PROVE  SortInv'
<1>1. /\ step = "split" /\ step' = "sort" /\ work' = SplitParts.calls \o Tail(work)
      /\ count' = count + SplitParts.count
      /\ UNCHANGED <<given, units, pl, pr, pivotL, pivotR, pivot>>
  BY DEF Split
<1> DEFINE new == PartSet(pivot, LessPart, GreaterPart, MiddlePart)
<1>2. /\ work # <<>> /\ Size(Current) > 1 /\ pl \in Nat /\ pr \in Nat /\ pivot \in Int
      /\ Current.l <= pl /\ pl <= pr /\ pr <= Current.r
      /\ Split3(units, Current, pl, pr, pivot)
      /\ PartsAt(Current, pl, pr, pivot, LessPart, GreaterPart, MiddlePart)
      /\ new = Range(SplitParts.calls)
      /\ SplitParts.calls \in Seq(CallSet) /\ AllApart(SplitParts.calls)
  BY <1>1, SplitShape
<1>3. /\ Current \in CallSet /\ Current.l \in Nat /\ Current.r \in Nat
      /\ Current.r <= Len(units) /\ Len(units) \in Nat /\ Len(given) = Len(units)
      /\ units \in Seq(Seq(Nat))
  BY <1>2, AtHand DEF SortInv, SortTyped
<1>4. /\ Range(work) = {Current} \cup Rest /\ Rest \in SUBSET CallSet
      /\ Tail(work) \in Seq(CallSet) /\ AllApart(Tail(work)) /\ Rest = Range(Tail(work))
      /\ \A c \in Rest : Apart(Current, c)
  BY <1>2, WorkRest DEF SortInv, SortTyped, Rest
<1>5. PICK c \in CallSet : c = Current
  BY <1>3
<1>6. PICK less, greater, middle : less = LessPart /\ greater = GreaterPart /\ middle = MiddlePart
  OBVIOUS
<1>7. PICK rest \in SUBSET CallSet : rest = Rest
  BY <1>4
<1>8. /\ Split3(units, c, pl, pr, pivot) /\ PartsAt(c, pl, pr, pivot, less, greater, middle)
      /\ new = PartSet(pivot, less, greater, middle)
  BY <1>2, <1>5, <1>6
<1>9. /\ Ordered(units, {c} \cup rest) /\ Distinguished(units, {c} \cup rest)
      /\ Prefixed(units, {c} \cup rest) /\ Permuted(given, units)
      /\ \A d \in {c} \cup rest : Size(d) * 2 ^ d.level <= Len(given)
  BY <1>4, <1>5, <1>7 DEF SortInv, Content, Halved
<1>10. new \subseteq {less, greater, middle} /\ \A d \in new : Size(d) > 1
  BY <1>8 DEF PartSet
<1> HIDE DEF new
<1>11. \A d \in new : d \in CallSet /\ c.l <= d.l /\ d.l <= d.r /\ d.r <= c.r
  <2>1. /\ less \in CallSet /\ greater \in CallSet /\ middle \in CallSet
        /\ less.l = c.l /\ less.r = pl /\ middle.l = pl /\ middle.r = pr
        /\ greater.l = pr /\ greater.r = c.r
    BY <1>8 DEF PartsAt
  <2>2. c.l \in Nat /\ c.r \in Nat /\ c.l <= pl /\ pl <= pr /\ pr <= c.r
    BY <1>2, <1>3, <1>5
  <2>3. \A d \in {less, greater, middle} :
          d \in CallSet /\ c.l <= d.l /\ d.l <= d.r /\ d.r <= c.r
    <3>1. pl \in Nat /\ pr \in Nat
      BY <1>2
    <3> QED BY <2>1, <2>2, <3>1
  <2> QED BY <1>10, <2>3
<1>12. \A d \in new, e \in rest : Apart(d, e)
  <2> TAKE d \in new, e \in rest
  <2>1. /\ c.l \in Nat /\ c.r \in Nat /\ d.l \in Nat /\ d.r \in Nat /\ e.l \in Nat /\ e.r \in Nat
        /\ Apart(c, e) /\ c.l <= d.l /\ d.r <= c.r
    BY <1>4, <1>5, <1>7, <1>11 DEF CallSet
  <2> QED BY <2>1 DEF Apart
<1>13. work' \in Seq(CallSet) /\ AllApart(work') /\ Range(work') = new \cup rest
  BY <1>1, <1>2, <1>4, <1>7, <1>12, ConcatCalls
<1>14. /\ SplitParts.count = Counts(less) + Counts(greater) +
                             IF pivot = -1 /\ Size(middle) > 0 THEN 1 ELSE Counts(middle)
       /\ SplitParts.count \in Nat
  <2>1. SplitParts.count = Counts(LessPart) + Counts(GreaterPart) +
          IF IsEnd(pivot) /\ Size(MiddlePart) > 0 THEN 1 ELSE Counts(MiddlePart)
    BY DEF SplitParts, MidLargest, GreaterLargest, NextLevel, LessPart, GreaterPart, MiddlePart
  <2>2. \A d \in {less, greater, middle} : Counts(d) \in Nat
    BY DEF Counts
  <2>3. SplitParts.count = Counts(less) + Counts(greater) +
          IF pivot = -1 /\ Size(middle) > 0 THEN 1 ELSE Counts(middle)
    BY <1>6, <2>1 DEF IsEnd
  <2> QED BY <2>2, <2>3
<1>15. SortTyped'
  <2>1. count' \in Nat
    BY <1>1, <1>14 DEF SortInv, SortTyped
  <2>2. \A d \in Range(work') : d.l <= d.r /\ d.r <= Len(given)
    <3> TAKE d \in Range(work')
    <3>1. CASE d \in new
      <4>1. d.r \in Nat
        BY <1>11, <3>1 DEF CallSet
      <4> QED BY <1>3, <1>5, <1>11, <3>1, <4>1
    <3>2. CASE d \in rest
      BY <1>4, <1>7, <3>2 DEF SortInv, SortTyped
    <3> QED BY <1>13, <3>1, <3>2
  <2> QED BY <1>1, <1>13, <2>1, <2>2 DEF SortInv, SortTyped
<1>16. Content'
  <2>1. Ordered(units, new \cup rest) /\ Prefixed(units, new \cup rest)
    BY <1>3, <1>8, <1>9, SplitOrders, SplitPrefixes
  <2>2. Distinguished(units, new \cup rest)
    <3>1. \A d \in {less, greater, middle} \cup rest : \A i, j \in 1 .. Len(units) :
            Owns(d, i) /\ ~Owns(d, j) => units[i] # units[j]
      BY <1>3, <1>8, <1>9, SplitDistinguishes
    <3> QED BY <1>10, <3>1 DEF Distinguished
  <2>3. Halved(Len(given), new \cup rest)
    <3>1. \A d \in {less, greater, middle} : Size(d) * 2 ^ d.level <= Len(given)
      BY <1>1, <1>6, SplitHalves
    <3> QED BY <1>9, <1>10, <3>1 DEF Halved
  <2> QED BY <1>1, <1>9, <1>13, <2>1, <2>2, <2>3 DEF Content
<1>17. Counted'
  <2>1. Len(given) > 1
    BY <1>2, <1>3 DEF Size
  <2>2. /\ \A d \in Range(work) : Size(d) > 1
        /\ count = Cardinality(Names(units, Outside(Len(units), Range(work)) \cup
                                     IF step = "insert" THEN Current.l + 1 .. pl ELSE {}))
    BY <2>1 DEF SortInv, Counted
  <2>3. count = Cardinality(Names(units, Outside(Len(units), {c} \cup rest)))
    <3>1. \A S : S \cup {} = S
      OBVIOUS
    <3> QED BY <1>1, <1>4, <1>5, <1>7, <2>2, <3>1
  <2>4. \A d \in new \cup rest : Size(d) > 1
    BY <1>4, <1>7, <1>10, <2>2
  <2>5. Cardinality(Names(units, Outside(Len(units), new \cup rest))) = count + SplitParts.count
    <3>1. \A e \in rest : Apart(c, e)
      BY <1>4, <1>5, <1>7
    <3>2. Cardinality(Names(units, Outside(Len(units), new \cup rest))) =
             Cardinality(Names(units, Outside(Len(units), {c} \cup rest))) +
             (Counts(less) + Counts(greater) +
              IF pivot = -1 /\ Size(middle) > 0 THEN 1 ELSE Counts(middle))
      <4>1. PICK a, b, x : a = pl /\ b = pr /\ x = pivot
        OBVIOUS
      <4>2. /\ Split3(units, c, a, b, x) /\ PartsAt(c, a, b, x, less, greater, middle)
            /\ new = PartSet(x, less, greater, middle)
        BY <1>8, <4>1
      <4>3. PICK u \in Seq(Seq(Nat)) : u = units
        BY <1>3
      <4>4. /\ Split3(u, c, a, b, x) /\ Distinguished(u, {c} \cup rest)
            /\ Prefixed(u, {c} \cup rest) /\ PartsAt(c, a, b, x, less, greater, middle)
        BY <1>9, <4>2, <4>3
      <4>5. PICK old, after, m : /\ old = {c} \cup rest
                                 /\ after = AfterSplit(x, less, greater, middle, rest)
                                 /\ m = IF x = -1 /\ Size(middle) > 0 THEN 1 ELSE Counts(middle)
        OBVIOUS
      <4>6. Cardinality(Names(u, Outside(Len(u), after))) =
               Cardinality(Names(u, Outside(Len(u), old))) + (Counts(less) + Counts(greater) + m)
        <5>1. Distinguished(u, old) /\ Prefixed(u, old)
          BY <4>4, <4>5
        <5> QED BY ONLY c \in CallSet, rest \in SUBSET CallSet, u \in Seq(Seq(Nat)),
                        <3>1, <4>4, <4>5, <5>1, SplitCounts
      <4> QED BY <4>1, <4>2, <4>3, <4>5, <4>6 DEF AfterSplit
    <3> QED BY <1>14, <2>3, <3>2
  <2>6. count' = Cardinality(Names(units', Outside(Len(units'), Range(work')) \cup {}))
    <3>1. \A S : S \cup {} = S
      OBVIOUS
    <3> QED BY <1>1, <1>13, <2>5, <3>1
  <2>7. (IF step' = "insert" THEN (Current.l + 1 .. pl)' ELSE {}) = {}
    BY <1>1
  <2>8. ~(Len(given') <= 1) /\ Len(given') > 1
    BY <1>1, <1>3, <2>1
  <2> QED BY <1>13, <2>4, <2>6, <2>7, <2>8 DEF Counted
<1> QED BY <1>1, <1>15, <1>16, <1>17, BetweenCalls

\* A sort begins with all strings in one call.
LEMMA InitKeeps ==
  ASSUME InitSort
  PROVE  SortInv
<1>1. /\ given \in Seq(Seq(Nat)) /\ units = given /\ work = <<Call(0, Len(given), 0, 0)>>
      /\ count = 0 /\ step = "sort"
      /\ pl = 0 /\ pr = 0 /\ pivotL = 0 /\ pivotR = 0 /\ pivot = 0
  BY SortInputsAssumption DEF InitSort
<1>2. PICK n \in Nat : n = Len(given)
  BY <1>1, LenProperties
<1>3. PICK c \in CallSet : c = Call(0, n, 0, 0) /\ c.l = 0 /\ c.r = n /\ c.depth = 0 /\ c.level = 0
  <2>1. Call(0, n, 0, 0) \in CallSet
    BY DEF CallSet, Call
  <2>2. /\ Call(0, n, 0, 0).l = 0 /\ Call(0, n, 0, 0).r = n /\ Call(0, n, 0, 0).depth = 0
        /\ Call(0, n, 0, 0).level = 0
    BY DEF Call
  <2> QED BY <2>1, <2>2
<1>4. work \in Seq(CallSet) /\ Range(work) = {c} /\ AllApart(work)
  <2>1. work = <<c>>
    BY <1>1, <1>2, <1>3
  <2> QED BY <2>1 DEF Range, AllApart
<1>5. \A i \in 1 .. n : Owns(c, i)
  BY <1>3 DEF Owns
<1>6. SortTyped
  <2>1. \A d \in Range(work) : d.l <= d.r /\ d.r <= Len(given)
    BY <1>2, <1>3, <1>4
  <2> QED BY <1>1, <1>4, <2>1 DEF SortTyped
<1>7. Size(c) = n
  BY <1>3 DEF Size
<1>8. Counted
  <2>1. Outside(n, {c}) = {}
    BY <1>5 DEF Outside
  <2>2. Names(units, Outside(n, {c}) \cup {}) = {}
    BY <2>1 DEF Names
  <2>3. count = Cardinality(Names(units, Outside(Len(units), Range(work)) \cup
                                     IF step = "insert" THEN Current.l + 1 .. pl ELSE {}))
    BY <1>1, <1>2, <1>4, <2>2, FS_EmptySet
  <2> QED BY <1>1, <1>2, <1>4, <1>7, <2>3 DEF Counted
<1>9. Permuted(given, units)
  <2> DEFINE p == [i \in 1 .. n |-> i]
  <2>1. p \in Bijection(1 .. n, 1 .. n)
    BY Fun_IsBij
  <2>2. \A i \in 1 .. n : units[i] = given[p[i]]
    BY <1>1
  <2> HIDE DEF p
  <2> QED BY <1>2, <2>1, <2>2 DEF Permuted
<1>10. Content
  <2>1. Ordered(units, {c}) /\ Distinguished(units, {c})
    BY <1>1, <1>2, <1>5 DEF Ordered, Distinguished
  <2>2. Prefixed(units, {c})
    <3> SUFFICES ASSUME NEW i \in 1 .. Len(units), NEW j \in 1 .. Len(units)
                 PROVE  SharePrefix(units[i], units[j], 0)
      BY <1>3 DEF Prefixed
    <3>1. Len(units[i]) \in Nat /\ Len(units[j]) \in Nat
      <4>1. units[i] \in Seq(Nat) /\ units[j] \in Seq(Nat)
        BY <1>1, ElementOfSeq
      <4> QED BY <4>1, LenProperties
    <3> QED BY <3>1 DEF SharePrefix
  <2>3. Halved(Len(given), {c})
    <3>1. n * 1 = n /\ n <= n
      OBVIOUS
    <3>2. Size(c) * 2 ^ c.level = n * 1
      BY <1>3, <1>7, PowerOfTwo
    <3> QED BY <3>2, <1>2, <1>3, <1>7, <3>1, PowerOfTwo DEF Halved
  <2> QED BY <1>4, <1>9, <2>1, <2>2, <2>3 DEF Content
<1> QED BY <1>1, <1>6, <1>8, <1>10 DEF SortInv, Marked, Partitioned, Inserted, Scanning, Gathering

---------------------------------------------------------------------------
(* insertion_sort.                                                         *)

SortedFrom(u, l, m) == \A i, j \in l + 1 .. m : i < j => StrLeq(u[i], u[j])

\* A string put behind those before it and before those behind it leaves them sorted.
LEMMA PutInOrder ==
  ASSUME NEW u \in Seq(Seq(Nat)), NEW l \in Nat, NEW i \in Nat, l < i, i < Len(u),
         NEW j \in l .. i, NEW v, PutBehind(u, v, i, j), SortedFrom(u, l, i),
         \A p \in j + 1 .. i : StrLeq(u[i + 1], u[p]),
         \A p \in l + 1 .. j : StrLeq(u[p], u[i + 1])
  PROVE  SortedFrom(v, l, i + 1)
<1>1. SUFFICES ASSUME NEW p \in l + 1 .. i + 1, NEW q \in l + 1 .. i + 1, p < q
               PROVE  StrLeq(v[p], v[q])
  BY DEF SortedFrom
<1>2. /\ p \in Nat /\ q \in Nat /\ j \in Nat /\ l <= j /\ j <= i /\ l + 1 <= p /\ q <= i + 1
      /\ Len(u) \in Nat
  BY LenProperties
<1>3. ASSUME NEW k \in Nat, l + 1 <= k, k <= i + 1
      PROVE  /\ k <= j => v[k] = u[k] /\ k \in l + 1 .. j
             /\ k = j + 1 => v[k] = u[i + 1]
             /\ k > j + 1 => v[k] = u[k - 1] /\ k - 1 \in j + 1 .. i
  <2>1. k \in 1 .. Len(u)
    BY <1>2, <1>3
  <2>2. k <= j => k \notin j + 1 .. i + 1 /\ k \in l + 1 .. j
    BY <1>2, <1>3
  <2>3. k > j + 1 => k \in j + 2 .. i + 1 /\ k - 1 \in j + 1 .. i
    BY <1>2, <1>3
  <2> QED BY <2>1, <2>2, <2>3 DEF PutBehind
<1>4. CASE q <= j
  <2>1. p <= j /\ v[p] = u[p] /\ v[q] = u[q] /\ p \in l + 1 .. i /\ q \in l + 1 .. i
    <3>1. p <= j /\ p <= i + 1 /\ l + 1 <= q /\ p \in l + 1 .. i /\ q \in l + 1 .. i
      BY <1>1, <1>2, <1>4
    <3> QED BY <1>2, <1>3, <1>4, <3>1
  <2> QED BY <1>1, <2>1 DEF SortedFrom
<1>5. CASE q = j + 1
  <2>1. p <= j
    BY <1>1, <1>2, <1>5
  <2>2. p <= i + 1 /\ l + 1 <= q
    BY <1>2, <1>5, <2>1
  <2>3. v[p] = u[p] /\ p \in l + 1 .. j /\ v[q] = u[i + 1]
    BY <1>2, <1>3, <1>5, <2>1, <2>2
  <2> QED BY <2>3
<1>6. CASE q > j + 1
  <2>1. v[q] = u[q - 1] /\ q - 1 \in j + 1 .. i /\ q - 1 \in l + 1 .. i
    BY <1>2, <1>3, <1>6
  <2>2. CASE p <= j
    <3>1. v[p] = u[p] /\ p \in l + 1 .. i /\ p < q - 1
      BY <1>2, <1>3, <1>6, <2>2
    <3> QED BY <2>1, <3>1 DEF SortedFrom
  <2>3. CASE p = j + 1
    BY <1>2, <1>3, <2>1, <2>3
  <2>4. CASE p > j + 1
    <3>1. v[p] = u[p - 1] /\ p - 1 \in l + 1 .. i /\ p - 1 < q - 1
      BY <1>1, <1>2, <1>3, <2>4
    <3> QED BY <2>1, <3>1 DEF SortedFrom
  <2> QED BY <1>2, <2>2, <2>3, <2>4
<1> QED BY <1>2, <1>4, <1>5, <1>6

OutOf(S, n, l, i) == S \subseteq 1 .. n /\ \A q \in S : q \notin l + 1 .. i + 1
AndRange(S, l, m) == S \cup (l + 1 .. m)

\* The names of what is outside and sorted, with the new one.
LEMMA PutNames ==
  ASSUME NEW u \in Seq(Seq(Nat)), NEW l \in Nat, NEW i \in Nat, l < i, i < Len(u),
         NEW j \in l .. i, NEW v, PutBehind(u, v, i, j),
         NEW S, OutOf(S, Len(u), l, i)
  PROVE  Names(v, AndRange(S, l, i + 1)) = Names(u, AndRange(S, l, i)) \cup {u[i + 1]}
<1>1. j \in Nat /\ l <= j /\ j <= i /\ Len(u) \in Nat
  BY LenProperties
<1>2. \A q \in S : v[q] = u[q]
  <2> TAKE q \in S
  <2>0. q \in 1 .. Len(u) /\ q \notin l + 1 .. i + 1
    BY DEF OutOf
  <2>1. q \notin j + 1 .. i + 1
    BY <1>1, <2>0
  <2> QED BY <2>0, <2>1 DEF PutBehind
<1>3. ASSUME NEW q \in l + 1 .. i + 1
      PROVE  v[q] = u[i + 1] \/ \E p \in l + 1 .. i : v[q] = u[p]
  <2>1. q \in 1 .. Len(u)
    BY <1>1
  <2>2. CASE q <= j
    <3>1. q \notin j + 1 .. i + 1 /\ q \in l + 1 .. i
      BY <1>1, <2>2
    <3> QED BY <2>1, <3>1 DEF PutBehind
  <2>3. CASE q = j + 1
    BY <2>3 DEF PutBehind
  <2>4. CASE q > j + 1
    <3>1. q \in j + 2 .. i + 1 /\ q - 1 \in l + 1 .. i
      BY <1>1, <2>4
    <3> QED BY <3>1 DEF PutBehind
  <2> QED BY <1>1, <2>2, <2>3, <2>4
<1>4. ASSUME NEW p \in l + 1 .. i PROVE \E q \in l + 1 .. i + 1 : v[q] = u[p]
  <2>1. CASE p <= j
    <3>1. p \notin j + 1 .. i + 1 /\ p \in l + 1 .. i + 1 /\ p \in 1 .. Len(u)
      BY <1>1, <2>1
    <3> QED BY <3>1 DEF PutBehind
  <2>2. CASE p > j
    <3>1. p + 1 \in j + 2 .. i + 1 /\ p + 1 \in l + 1 .. i + 1 /\ (p + 1) - 1 = p
      BY <1>1, <2>2
    <3> QED BY <3>1 DEF PutBehind
  <2> QED BY <1>1, <2>1, <2>2
<1>5. j + 1 \in l + 1 .. i + 1 /\ v[j + 1] = u[i + 1]
  BY <1>1 DEF PutBehind
<1>6. \A n \in Names(v, S \cup (l + 1 .. i + 1)) : n \in Names(u, S \cup (l + 1 .. i)) \cup {u[i + 1]}
  BY <1>2, <1>3 DEF Names
<1>7. \A n \in Names(u, S \cup (l + 1 .. i)) \cup {u[i + 1]} : n \in Names(v, S \cup (l + 1 .. i + 1))
  <2>1. \A n \in Names(u, S \cup (l + 1 .. i)) : n \in Names(v, S \cup (l + 1 .. i + 1))
    BY <1>2, <1>4 DEF Names
  <2>2. u[i + 1] \in Names(v, S \cup (l + 1 .. i + 1))
    BY <1>5 DEF Names
  <2> QED BY <2>1, <2>2
<1> QED BY <1>6, <1>7 DEF AndRange

\* compare from depth on decides as from the beginning.
LEMMA GreaterIs ==
  ASSUME NEW a \in Seq(Nat), NEW b \in Seq(Nat), NEW d \in Nat, SharePrefix(a, b, d)
  PROVE  Greater(a, b, d) <=> ~StrLeq(a, b)
BY StrLeqSuffix DEF Greater

\* Where the string goes exists.
LEMMA InsertAtIs ==
  ASSUME Current.l \in Nat, NEW i \in Nat, Current.l < i
  PROVE  /\ InsertAt(i) \in Current.l .. i
         /\ \A k \in InsertAt(i) .. i - 1 : Greater(units[k + 1], units[i + 1], Current.depth)
         /\ InsertAt(i) > Current.l => ~Greater(units[InsertAt(i)], units[i + 1], Current.depth)
<1>1. PICK l \in Nat : l = Current.l
  OBVIOUS
<1> DEFINE G(k) == Greater(units[k + 1], units[i + 1], Current.depth)
           Ok == {j \in l .. i : \A k \in j .. i - 1 : G(k)}
<1>2. i \in Ok /\ Ok \subseteq Nat
  BY <1>1
<1>3. PICK j \in Ok : \A m \in Ok : j <= m
  <2> HIDE DEF Ok
  <2> QED BY <1>2, LeastElement
<1>4. j \in l .. i /\ \A k \in j .. i - 1 : G(k)
  OBVIOUS
<1>5. j > l => ~G(j - 1)
  <2> SUFFICES ASSUME j > l, G(j - 1) PROVE FALSE
    OBVIOUS
  <2>1. j - 1 \in l .. i
    BY <1>4
  <2>2. \A k \in j - 1 .. i - 1 : k = j - 1 \/ k \in j .. i - 1
    BY <1>4
  <2>3. j - 1 \in Ok
    <3> HIDE DEF G
    <3> QED BY <1>4, <2>1, <2>2
  <2>4. j <= j - 1
    BY <1>3, <2>3
  <2> QED BY <1>4, <2>4
<1>6. j > l => ~Greater(units[j], units[i + 1], Current.depth)
  <2>1. (j - 1) + 1 = j
    BY <1>4
  <2> QED BY <1>5, <2>1
<1>7. \E m \in Current.l .. i :
        /\ \A k \in m .. i - 1 : Greater(units[k + 1], units[i + 1], Current.depth)
        /\ m > Current.l => ~Greater(units[m], units[i + 1], Current.depth)
  BY <1>1, <1>4, <1>6
<1> QED BY <1>7 DEF InsertAt

\* The insertion sort begins with its first string passed.
LEMMA BeginInsertionKeeps ==
  ASSUME SortInv, BeginInsertion
  PROVE  SortInv'
<1>1. /\ step = "sort" /\ work # <<>> /\ UNCHANGED <<given, units, pr, pivotL, pivotR, pivot>>
  BY DEF BeginInsertion
<1>2. /\ Current \in CallSet /\ Current.l \in Nat /\ Current.r \in Nat /\ Current \in Range(work)
      /\ Current.l <= Current.r /\ Current.r <= Len(units) /\ Len(units) \in Nat
      /\ Len(given) = Len(units)
  BY <1>1, AtHand DEF SortInv
<1>3. CASE Size(Current) > 1
  <2>1. step' = "insert" /\ pl' = Current.l + 1 /\ count' = count + 1 /\ work' = work
    BY <1>3 DEF BeginInsertion
  <2>2. Current' = Current /\ Range(work') = Range(work)
    BY <2>1 DEF Current
  <2>3. SortTyped' /\ Content'
    BY <1>1, <1>2, <2>1 DEF SortInv, SortTyped, Content
  <2>4. Marked' /\ Partitioned'
    BY <1>1, <1>2, <1>3, <2>1, <2>2 DEF Marked, Partitioned, Size, Scanning, Gathering
  <2>5. Inserted'
    <3>1. \A i, j \in Current.l + 1 .. Current.l + 1 : ~(i < j)
      BY <1>2
    <3> QED BY <2>1, <2>2, <3>1 DEF Inserted
  <2>6. Counted'
    <3>1. Len(given) > 1
      BY <1>2, <1>3 DEF Size
    <3>2. PICK S : S = Outside(Len(units), Range(work))
      OBVIOUS
    <3>3. S \in SUBSET (1 .. Len(units)) /\ \A j \in S : ~Owns(Current, j)
      BY <1>2, <3>2 DEF Outside
    <3>4. /\ \A c \in Range(work) : Size(c) > 1
          /\ count = Cardinality(Names(units, S \cup {}))
      BY <1>1, <3>1, <3>2 DEF SortInv, Counted
    <3>5. PICK k \in 1 .. Len(units) : k = Current.l + 1 /\ Owns(Current, k)
      <4>1. Current.l + 1 \in 1 .. Len(units) /\ Owns(Current, Current.l + 1)
        BY <1>2, <1>3 DEF Size, Owns
      <4> QED BY <4>1
    <3>6. units[k] \notin Names(units, S)
      <4>1. Distinguished(units, Range(work))
        BY DEF SortInv, Content
      <4>2. \A j \in S : units[k] # units[j]
        BY <1>2, <3>3, <3>5, <4>1 DEF Distinguished
      <4> QED BY <4>2 DEF Names
    <3>7. IsFiniteSet(Names(units, S)) /\ S \cup {} = S
      BY <1>2, <3>3, NamesFinite
    <3>8. Cardinality(Names(units, S) \cup {units[k]}) = count + 1
      BY <3>4, <3>6, <3>7, FS_AddElement
    <3>9. Names(units, S \cup {k}) = Names(units, S) \cup {units[k]}
      BY DEF Names
    <3>10. (IF step' = "insert" THEN (Current.l + 1 .. pl)' ELSE {}) = {k}
      BY <1>2, <2>1, <2>2, <3>5
    <3>11. count' = Cardinality(Names(units', Outside(Len(units'), Range(work')) \cup {k}))
      BY <1>1, <2>1, <2>2, <3>2, <3>8, <3>9
    <3>12. Len(given') > 1 /\ ~(Len(given') <= 1)
      BY <1>1, <1>2, <3>1
    <3> QED BY <2>2, <3>4, <3>10, <3>11, <3>12 DEF Counted
  <2> QED BY <2>3, <2>4, <2>5, <2>6 DEF SortInv
<1>4. CASE ~(Size(Current) > 1)
  <2>1. work' = Tail(work) /\ step' = "sort" /\ UNCHANGED <<pl, count>>
    BY <1>1, <1>4 DEF BeginInsertion
  <2>2. Range(work') \subseteq Range(work) /\ work' \in Seq(CallSet) /\ AllApart(work')
    BY <1>1, <2>1, WorkRest DEF SortInv, SortTyped, Rest
  <2>3. Len(given) <= 1 /\ \A c \in Range(work) : Size(c) <= 1
    <3>1. ~(Len(given) > 1)
      BY <1>2, <1>4 DEF SortInv, Counted
    <3> QED BY <1>2, <3>1 DEF SortInv, Counted
  <2>4. SortTyped'
    BY <1>1, <2>1, <2>2 DEF SortInv, SortTyped
  <2>5. Counted'
    <3>1. Len(given') <= 1 /\ ~(Len(given') > 1)
      BY <1>1, <1>2, <2>3
    <3>2. count = 0
      BY <2>3 DEF SortInv, Counted
    <3> QED BY <2>1, <2>2, <2>3, <3>1, <3>2 DEF Counted
  <2>6. Content'
    <3>1. Ordered(units, Range(work'))
      <4>1. \A i, j \in 1 .. Len(units) : ~(i < j)
        BY <1>2, <2>3
      <4> QED BY <4>1 DEF Ordered
    <3>2. /\ Distinguished(units, Range(work')) /\ Prefixed(units, Range(work'))
          /\ Halved(Len(given), Range(work'))
      BY <2>2 DEF SortInv, Content, Distinguished, Prefixed, Halved
    <3> QED BY <1>1, <3>1, <3>2 DEF SortInv, Content
  <2> QED BY <2>1, <2>4, <2>5, <2>6, BetweenCalls
<1> QED BY <1>3, <1>4

\* The insertion sort ends with the range sorted and counted.
LEMMA EndInsertionKeeps ==
  ASSUME SortInv, EndInsertion
  PROVE  SortInv'
<1>1. /\ step = "insert" /\ pl = Current.r /\ work' = Tail(work) /\ step' = "sort"
      /\ UNCHANGED <<given, units, count, pl, pr, pivotL, pivotR, pivot>>
  BY DEF EndInsertion
<1>2. work # <<>>
  BY <1>1 DEF SortInv, Marked
<1>3. /\ Current \in CallSet /\ Current.l \in Nat /\ Current.r \in Nat /\ Current \in Range(work)
      /\ Current.l <= Current.r /\ Current.r <= Len(units) /\ Len(units) \in Nat
      /\ Len(given) = Len(units) /\ units \in Seq(Seq(Nat))
  BY <1>2, AtHand DEF SortInv, SortTyped
<1>4. /\ Range(work) = {Current} \cup Rest /\ Rest \in SUBSET CallSet
      /\ work' \in Seq(CallSet) /\ AllApart(work') /\ Range(work') = Rest
      /\ \A c \in Rest : Apart(Current, c)
  BY <1>1, <1>2, WorkRest DEF SortInv, SortTyped, Rest
<1>5. SortTyped'
  BY <1>1, <1>4 DEF SortInv, SortTyped
<1>6. Content'
  <2>1. Ordered(units, Rest)
    <3> SUFFICES ASSUME NEW i \in 1 .. Len(units), NEW j \in 1 .. Len(units), i < j,
                        ~StrLeq(units[i], units[j])
                 PROVE  \E c \in Rest : Owns(c, i) /\ Owns(c, j)
      BY DEF Ordered
    <3>1. PICK c \in {Current} \cup Rest : Owns(c, i) /\ Owns(c, j)
      BY <1>4 DEF SortInv, Content, Ordered
    <3>2. c # Current
      <4>1. Owns(Current, i) /\ Owns(Current, j) => i \in Current.l + 1 .. pl /\ j \in Current.l + 1 .. pl
        BY <1>1, <1>3 DEF Owns
      <4>2. ~(i \in Current.l + 1 .. pl /\ j \in Current.l + 1 .. pl)
        BY <1>1 DEF SortInv, Inserted
      <4> QED BY <3>1, <4>1, <4>2
    <3> QED BY <3>1, <3>2
  <2>2. Distinguished(units, Rest) /\ Prefixed(units, Rest) /\ Halved(Len(given), Rest)
    BY <1>4 DEF SortInv, Content, Distinguished, Prefixed, Halved
  <2> QED BY <1>1, <1>4, <2>1, <2>2 DEF SortInv, Content
<1>7. Counted'
  <2>1. Len(given) > 1
    BY <1>1, <1>3 DEF SortInv, Counted
  <2>2. /\ \A c \in Range(work) : Size(c) > 1
        /\ count = Cardinality(Names(units, Outside(Len(units), Range(work)) \cup
                                     IF step = "insert" THEN Current.l + 1 .. pl ELSE {}))
    BY <2>1 DEF SortInv, Counted
  <2>3. PICK rest \in SUBSET CallSet : rest = Rest
    BY <1>4
  <2>4. Outside(Len(units), rest) = Outside(Len(units), Range(work)) \cup (Current.l + 1 .. Current.r)
    <3>1. PICK c \in CallSet, n \in Nat : c = Current /\ n = Len(units)
      BY <1>3
    <3>2. c.r <= n /\ (\A e \in rest : Apart(c, e)) /\ Range(work) = {c} \cup rest
      BY <1>3, <1>4, <2>3, <3>1
    <3>3. Outside(n, rest) = Outside(n, Range(work)) \cup (c.l + 1 .. c.r)
      BY <3>2, OutsideWithout
    <3> QED BY <3>1, <3>3
  <2>5. count = Cardinality(Names(units, Outside(Len(units), Rest)))
    BY <1>1, <2>2, <2>3, <2>4
  <2>6. count' = Cardinality(Names(units', Outside(Len(units'), Range(work')) \cup {}))
    <3>1. \A S : S \cup {} = S
      OBVIOUS
    <3> QED BY <1>1, <1>4, <2>5, <3>1
  <2>7. (IF step' = "insert" THEN (Current.l + 1 .. pl)' ELSE {}) = {}
    BY <1>1
  <2>8. Len(given') > 1 /\ ~(Len(given') <= 1)
    BY <1>1, <1>3, <2>1
  <2> QED BY <1>4, <2>2, <2>6, <2>7, <2>8 DEF Counted
<1> QED BY <1>1, <1>5, <1>6, <1>7, BetweenCalls

\* Inserting a string preserves the invariant, and counts it if it is new.
LEMMA InsertKeeps ==
  ASSUME SortInv, Insert
  PROVE  SortInv'
<1>1. /\ step = "insert" /\ pl < Current.r /\ pl' = pl + 1
      /\ UNCHANGED <<given, work, step, pr, pivotL, pivotR, pivot>>
  BY DEF Insert
<1>2. work # <<>> /\ Current.l < pl /\ pl \in Nat
  BY <1>1 DEF SortInv, SortTyped, Marked
<1>3. PICK c \in CallSet : c = Current
  BY <1>2, AtHand DEF SortInv
<1>4. /\ c.l \in Nat /\ c.r \in Nat /\ c.depth \in Nat /\ c \in Range(work)
      /\ c.l <= c.r /\ c.r <= Len(units) /\ Len(units) \in Nat
      /\ Len(given) = Len(units) /\ units \in Seq(Seq(Nat))
      /\ Range(work) \in SUBSET CallSet
      /\ \A d \in Range(work) : d = c \/ Apart(c, d)
  BY <1>2, <1>3, AtHand DEF SortInv, SortTyped
<1>5. PICK u \in Seq(Seq(Nat)), l \in Nat, r \in Nat, i \in Nat, n \in Nat :
        u = units /\ l = c.l /\ r = c.r /\ i = pl /\ n = Len(u)
  BY <1>2, <1>4
<1>6. l < i /\ i < r /\ r <= n /\ i < Len(u)
  BY <1>1, <1>2, <1>3, <1>4, <1>5
<1>7. PICK j : j = InsertAt(pl)
  OBVIOUS
<1>8. /\ j \in l .. i
      /\ \A k \in j .. i - 1 : Greater(u[k + 1], u[i + 1], c.depth)
      /\ j > l => ~Greater(u[j], u[i + 1], c.depth)
  BY <1>2, <1>3, <1>5, <1>6, <1>7, InsertAtIs
<1>9. j \in Nat /\ l <= j /\ j <= i
  BY <1>8
<1> DEFINE repeated == j > l /\ ~Greater(u[i + 1], u[j], c.depth)
<1>10. /\ units' = [q \in DOMAIN u |-> IF q = j + 1 THEN u[i + 1]
                                       ELSE IF q - 1 \in j + 1 .. i THEN u[q - 1] ELSE u[q]]
       /\ count' = count + IF repeated THEN 0 ELSE 1
  BY <1>3, <1>5, <1>7 DEF Insert
<1> HIDE DEF repeated
<1>11. PICK v : v = units'
  OBVIOUS
<1>12. Rearranged(u, v, l, r) /\ PutBehind(u, v, i, j)
  <2>1. i \in l .. r - 1 /\ r <= Len(u)
    BY <1>5, <1>6
  <2>2. PutIn(u, v, i, j)
    BY <1>10, <1>11 DEF PutIn
  <2>3. j \in l .. i
    BY <1>8
  <2> QED BY ONLY u \in Seq(Seq(Nat)), l \in Nat, r \in Nat, i \in Nat, <2>1, <2>2, <2>3, InsertMoves
<1>13. /\ Permuted(given, u) /\ Ordered(u, Range(work)) /\ Distinguished(u, Range(work))
       /\ Prefixed(u, Range(work)) /\ Halved(Len(given), Range(work)) /\ SortedFrom(u, l, i)
  <2>1. SortedFrom(u, l, i)
    BY <1>1, <1>3, <1>5 DEF SortInv, Inserted, SortedFrom
  <2> QED BY <1>5, <2>1 DEF SortInv, Content
<1>14. /\ Permuted(given, v) /\ Ordered(v, Range(work)) /\ Distinguished(v, Range(work))
       /\ Prefixed(v, Range(work)) /\ v \in Seq(Seq(Nat)) /\ Len(v) = Len(u)
       /\ Names(v, Outside(Len(v), Range(work))) = Names(u, Outside(Len(u), Range(work)))
  <2>1. Rearranged(u, v, c.l, c.r) /\ Len(given) = Len(u)
    BY <1>4, <1>5, <1>12
  <2>2. PICK calls \in SUBSET CallSet : calls = Range(work)
    BY <1>4
  <2>3. /\ c \in calls /\ \A d \in calls : d = c \/ Apart(c, d)
        /\ Permuted(given, u) /\ Ordered(u, calls) /\ Distinguished(u, calls) /\ Prefixed(u, calls)
    BY <1>4, <1>13, <2>2
  <2>4. PICK g : g = given
    OBVIOUS
  <2>5. Len(g) = Len(u) /\ Permuted(g, u)
    BY <2>1, <2>3, <2>4
  <2>6. /\ Permuted(g, v) /\ Ordered(v, calls) /\ Distinguished(v, calls) /\ Prefixed(v, calls)
        /\ v \in Seq(Seq(Nat)) /\ Len(v) = Len(u)
        /\ Names(v, Outside(Len(v), calls)) = Names(u, Outside(Len(u), calls))
    BY ONLY c \in CallSet, u \in Seq(Seq(Nat)), calls \in SUBSET CallSet, <2>1, <2>3, <2>5, RearrangingKeeps
  <2> QED BY <2>2, <2>4, <2>6
\* The strings of the call agree up to its depth.
<1>15. \A p \in l + 1 .. r : p \in 1 .. n /\ Owns(c, p) /\ u[p] \in Seq(Nat)
  <2> TAKE p \in l + 1 .. r
  <2>1. p \in 1 .. n /\ Owns(c, p)
    BY <1>5, <1>6 DEF Owns
  <2> QED BY <1>5, <2>1, ElementOfSeq
<1>16. ASSUME NEW p \in l + 1 .. r, NEW q \in l + 1 .. r
       PROVE  Greater(u[p], u[q], c.depth) <=> ~StrLeq(u[p], u[q])
  <2>1. SharePrefix(u[p], u[q], c.depth)
    BY <1>4, <1>5, <1>13, <1>15 DEF Prefixed
  <2> QED BY <1>4, <1>15, <2>1, GreaterIs
<1>17. i + 1 \in l + 1 .. r /\ u[i + 1] \in Seq(Nat) /\ i + 1 \in 1 .. n /\ Owns(c, i + 1)
  <2>1. i + 1 \in l + 1 .. r
    BY <1>6
  <2> QED BY <1>15, <2>1
<1>18. ASSUME NEW p \in j + 1 .. i
       PROVE  StrLeq(u[i + 1], u[p]) /\ ~StrLeq(u[p], u[i + 1])
  <2>1. p \in l + 1 .. r /\ p - 1 \in j .. i - 1 /\ (p - 1) + 1 = p
    BY <1>6, <1>9
  <2>2. Greater(u[p], u[i + 1], c.depth)
    BY <1>8, <2>1
  <2>3. ~StrLeq(u[p], u[i + 1])
    BY <1>16, <1>17, <2>1, <2>2
  <2> QED BY <1>15, <1>17, <2>1, <2>3, StrLeqTotal
<1>19. ASSUME NEW p \in l + 1 .. j PROVE StrLeq(u[p], u[j]) /\ StrLeq(u[p], u[i + 1])
  <2>1. p \in l + 1 .. r /\ j \in l + 1 .. r /\ j > l /\ p \in l + 1 .. i /\ j \in l + 1 .. i
    BY <1>6, <1>9
  <2>2. StrLeq(u[j], u[i + 1])
    BY <1>8, <1>16, <1>17, <2>1
  <2>3. StrLeq(u[p], u[j])
    <3>1. CASE p = j
      BY <1>15, <2>1, <3>1, StrLeqDecides
    <3>2. CASE p # j
      <4>1. p < j
        BY <1>9, <3>2
      <4> QED BY <1>13, <2>1, <4>1 DEF SortedFrom
    <3> QED BY <3>1, <3>2
  <2> QED BY <1>15, <1>17, <2>1, <2>2, <2>3, StrLeqTransitive
<1>20. SortedFrom(v, l, i + 1)
  BY <1>6, <1>8, <1>12, <1>13, <1>18, <1>19, PutInOrder
<1>21. repeated <=> \E p \in l + 1 .. i : u[p] = u[i + 1]
  <2>1. ASSUME repeated PROVE \E p \in l + 1 .. i : u[p] = u[i + 1]
    <3>1. j \in l + 1 .. i /\ j \in l + 1 .. r /\ j \in l + 1 .. j /\ ~Greater(u[i + 1], u[j], c.depth)
      BY <1>6, <1>9, <2>1 DEF repeated
    <3>2. StrLeq(u[i + 1], u[j]) /\ StrLeq(u[j], u[i + 1])
      BY <1>16, <1>17, <1>19, <3>1
    <3>3. u[j] = u[i + 1]
      BY <1>15, <1>17, <3>1, <3>2, StrLeqAntisymmetric
    <3> QED BY <3>1, <3>3
  <2>2. ASSUME NEW p \in l + 1 .. i, u[p] = u[i + 1] PROVE repeated
    <3>1. p \in l + 1 .. r
      BY <1>6
    <3>2. StrLeq(u[p], u[i + 1])
      BY <1>17, <2>2, StrLeqDecides
    <3>3. p \notin j + 1 .. i
      BY <1>18, <3>2
    <3>4. j > l /\ p \in l + 1 .. j /\ j \in l + 1 .. r
      BY <1>6, <1>9, <3>3
    <3>5. StrLeq(u[i + 1], u[j])
      BY <1>19, <2>2, <3>4
    <3> QED BY <1>16, <1>17, <3>4, <3>5 DEF repeated
  <2> QED BY <2>1, <2>2
<1>22. SortTyped'
  <2>1. /\ given' \in Seq(Seq(Nat)) /\ units' \in Seq(Seq(Nat)) /\ Len(units') = Len(given')
        /\ work' \in Seq(CallSet) /\ AllApart(work')
        /\ \A d \in Range(work') : d.l <= d.r /\ d.r <= Len(given')
    BY <1>1, <1>4, <1>5, <1>11, <1>14 DEF SortInv, SortTyped
  <2>2. pl' \in Nat /\ count' \in Nat
    <3>1. count \in Nat
      BY DEF SortInv, SortTyped
    <3> QED BY <1>1, <1>2, <1>10, <3>1
  <2> QED BY <1>1, <2>1, <2>2 DEF SortInv, SortTyped
<1>23. Current' = Current
  BY <1>1 DEF Current
<1>24. Marked' /\ Partitioned'
  BY <1>1, <1>2, <1>3, <1>4, <1>23 DEF Marked, Partitioned, Scanning, Gathering
<1>25. Inserted'
  BY <1>1, <1>3, <1>5, <1>11, <1>20, <1>23 DEF Inserted, SortedFrom
<1>26. Content'
  BY <1>1, <1>11, <1>13, <1>14 DEF Content
<1>27. Counted'
  <2>1. Len(given) > 1
    BY <1>1, <1>4 DEF SortInv, Counted
  <2>2. PICK S : S = Outside(Len(u), Range(work))
    OBVIOUS
  <2>3. S \in SUBSET (1 .. Len(u)) /\ \A q \in S : ~Owns(c, q)
    BY <1>4, <2>2 DEF Outside
  <2>4. /\ \A d \in Range(work) : Size(d) > 1
        /\ count = Cardinality(Names(u, S \cup (l + 1 .. i)))
    BY <1>1, <1>3, <1>5, <2>1, <2>2 DEF SortInv, Counted
  <2>5. \A q \in S : q \notin l + 1 .. i + 1
    <3>1. \A q \in l + 1 .. i + 1 : q \in l + 1 .. r
      BY <1>6
    <3> QED BY <1>15, <2>3, <3>1
  <2>6. Names(v, S \cup (l + 1 .. i + 1)) = Names(u, S \cup (l + 1 .. i)) \cup {u[i + 1]}
    <3>1. j \in l .. i /\ PutBehind(u, v, i, j) /\ OutOf(S, Len(u), l, i)
      BY <1>8, <1>12, <2>3, <2>5 DEF OutOf
    <3>2. l < i /\ i < Len(u)
      BY <1>6
    <3>3. Names(v, AndRange(S, l, i + 1)) = Names(u, AndRange(S, l, i)) \cup {u[i + 1]}
      BY ONLY u \in Seq(Seq(Nat)), l \in Nat, i \in Nat, <3>1, <3>2, PutNames
    <3> QED BY <3>3 DEF AndRange
  <2>7. u[i + 1] \in Names(u, S \cup (l + 1 .. i)) <=> repeated
    <3>1. \A q \in S : u[i + 1] # u[q]
      BY <1>4, <1>5, <1>13, <1>17, <2>3 DEF Distinguished
    <3> QED BY <1>21, <3>1 DEF Names
  <2>8. IsFiniteSet(Names(u, S \cup (l + 1 .. i))) /\ count \in Nat
    <3>1. S \cup (l + 1 .. i) \in SUBSET (1 .. n)
      <4>1. \A q \in l + 1 .. i : q \in 1 .. n
        BY <1>6
      <4> QED BY <1>5, <2>3, <4>1
    <3> QED BY <2>4, <3>1, NamesFinite
  <2>9. Cardinality(Names(v, S \cup (l + 1 .. i + 1))) = count + IF repeated THEN 0 ELSE 1
    <3>1. Cardinality(Names(u, S \cup (l + 1 .. i)) \cup {u[i + 1]}) =
            IF u[i + 1] \in Names(u, S \cup (l + 1 .. i)) THEN count ELSE count + 1
      BY <2>4, <2>8, FS_AddElement
    <3>2. CASE repeated
      <4>1. Cardinality(Names(v, S \cup (l + 1 .. i + 1))) = count
        BY <2>6, <2>7, <3>1, <3>2
      <4> QED BY <2>8, <3>2, <4>1
    <3>3. CASE ~repeated
      BY <2>6, <2>7, <2>8, <3>1, <3>3
    <3> QED BY <3>2, <3>3
  <2>10. (IF step' = "insert" THEN (Current.l + 1 .. pl)' ELSE {}) = l + 1 .. i + 1
    BY <1>1, <1>3, <1>5, <1>23
  <2>11. Names(v, Outside(Len(v), Range(work)) \cup (l + 1 .. i + 1)) =
           Names(v, S \cup (l + 1 .. i + 1))
    BY <1>14, <2>2
  <2>12. count' = Cardinality(Names(units', Outside(Len(units'), Range(work')) \cup (l + 1 .. i + 1)))
    BY <1>1, <1>10, <1>11, <2>9, <2>11
  <2>13. Len(given') > 1 /\ ~(Len(given') <= 1)
    BY <1>1, <1>4, <2>1
  <2> QED BY <1>1, <2>4, <2>10, <2>12, <2>13 DEF Counted
<1> QED BY <1>22, <1>24, <1>25, <1>26, <1>27 DEF SortInv

\* Every step keeps it.
LEMMA SortInvariant == SpecSort => []SortInv
<1>1. InitSort => SortInv
  BY InitKeeps
<1>2. SortInv /\ [NextSort]_sortVars => SortInv'
  <2> SUFFICES ASSUME SortInv, [NextSort]_sortVars PROVE SortInv'
    OBVIOUS
  <2>1. CASE BeginPartition
    BY <2>1, BeginPartitionKeeps
  <2>2. CASE ScanLeft
    BY <2>2, ScanLeftKeeps
  <2>3. CASE ScanRight
    BY <2>3, ScanRightKeeps
  <2>4. CASE GatherLeft
    BY <2>4, GatherLeftKeeps
  <2>5. CASE GatherRight
    BY <2>5, GatherRightKeeps
  <2>6. CASE Split
    BY <2>6, SplitKeeps
  <2>7. CASE BeginInsertion
    BY <2>7, BeginInsertionKeeps
  <2>8. CASE Insert
    BY <2>8, InsertKeeps
  <2>9. CASE EndInsertion
    BY <2>9, EndInsertionKeeps
  <2>10. CASE UNCHANGED sortVars
    <3>1. UNCHANGED <<given, units, work, count, step, pl, pr, pivotL, pivotR, pivot>>
      BY <2>10 DEF sortVars
    <3>2. Current' = Current
      BY <3>1 DEF Current
    <3> QED BY <3>1, <3>2 DEF SortInv, SortTyped, Marked, Partitioned, Inserted, Counted, Content, LabelAt
  <2> QED BY <2>1, <2>2, <2>3, <2>4, <2>5, <2>6, <2>7, <2>8, <2>9, <2>10 DEF NextSort
<1> QED BY <1>1, <1>2, PTL DEF SpecSort

\* The invariant gives CallsSharePrefix.
LEMMA SharedPrefix ==
  ASSUME SortInv
  PROVE  CallsSharePrefix
<1> SUFFICES ASSUME NEW k \in DOMAIN work, NEW i \in work[k].l + 1 .. work[k].r
             PROVE  /\ work[k].depth <= Len(units[i])
                    /\ SubSeq(units[i], 1, work[k].depth) =
                         SubSeq(units[work[k].l + 1], 1, work[k].depth)
  BY DEF CallsSharePrefix
<1>1. PICK c \in CallSet : c = work[k] /\ c \in Range(work)
  BY ElementOfSeq, LenProperties DEF SortInv, SortTyped, Range
<1>2. /\ c.l \in Nat /\ c.r \in Nat /\ c.depth \in Nat /\ c.r <= Len(units) /\ Len(units) \in Nat
      /\ i \in c.l + 1 .. c.r
  BY <1>1, LenProperties DEF SortInv, SortTyped, CallSet
<1>3. PICK j : j = c.l + 1
  OBVIOUS
<1>4. i \in 1 .. Len(units) /\ j \in 1 .. Len(units) /\ Owns(c, i) /\ Owns(c, j)
  BY <1>2, <1>3 DEF Owns
<1>5. SharePrefix(units[i], units[j], c.depth)
  BY <1>1, <1>4 DEF SortInv, Content, Prefixed
<1>6. PICK a \in Seq(Nat), b \in Seq(Nat), d \in Nat : a = units[i] /\ b = units[j] /\ d = c.depth
  BY <1>2, <1>4, ElementOfSeq DEF SortInv, SortTyped
<1>7. /\ d <= Len(a) /\ d <= Len(b) /\ \A q \in 1 .. d : a[q] = b[q]
      /\ Len(a) \in Nat /\ Len(b) \in Nat
  BY <1>5, <1>6, LenProperties DEF SharePrefix
<1>8. SubSeq(a, 1, d) = SubSeq(b, 1, d)
  <2>1. /\ SubSeq(a, 1, d) \in Seq(Nat) /\ Len(SubSeq(a, 1, d)) = d
        /\ \A q \in 1 .. d : SubSeq(a, 1, d)[q] = a[q]
    BY <1>7, SubSeqProperties
  <2>2. /\ SubSeq(b, 1, d) \in Seq(Nat) /\ Len(SubSeq(b, 1, d)) = d
        /\ \A q \in 1 .. d : SubSeq(b, 1, d)[q] = b[q]
    BY <1>7, SubSeqProperties
  <2>3. PICK x \in Seq(Nat), y \in Seq(Nat) : x = SubSeq(a, 1, d) /\ y = SubSeq(b, 1, d)
    BY <2>1, <2>2
  <2>4. Len(x) = Len(y) /\ \A q \in 1 .. Len(x) : x[q] = y[q]
    BY <1>7, <2>1, <2>2, <2>3
  <2> QED BY <2>3, <2>4, SeqEqual
<1> QED BY <1>1, <1>3, <1>6, <1>7, <1>8

\* The invariant gives StackIsLogarithmic.
LEMMA HalvedStack ==
  ASSUME SortInv
  PROVE  StackIsLogarithmic
<1> SUFFICES ASSUME NEW k \in DOMAIN work
             PROVE  Size(work[k]) * 2 ^ work[k].level <= Len(given)
  BY DEF StackIsLogarithmic
<1>1. work[k] \in Range(work)
  BY DEF Range
<1> QED BY <1>1 DEF SortInv, Content, Halved

\* When no call is pending, everything is ordered and counted.
LEMMA SortedAndCounted ==
  ASSUME SortInv, Sorted
  PROVE  /\ \A i \in 1 .. Len(units) - 1 : StrLeq(units[i], units[i + 1])
         /\ \A i \in DOMAIN given :
              Cardinality({j \in DOMAIN units : units[j] = given[i]}) =
                Cardinality({j \in DOMAIN given : given[j] = given[i]})
         /\ count = SortCount(given)
<1>1. PICK n \in Nat : n = Len(units) /\ n = Len(given) /\ DOMAIN units = 1 .. n /\ DOMAIN given = 1 .. n
  BY LenProperties DEF SortInv, SortTyped
<1>2. Range(work) = {} /\ step = "sort"
  BY DEF SortInv, Marked, Sorted, Range
<1>3. PICK p \in Bijection(1 .. n, 1 .. n) : \A i \in 1 .. n : units[i] = given[p[i]]
  BY <1>1 DEF SortInv, Content, Permuted
<1>4. /\ \A i \in 1 .. n : p[i] \in 1 .. n
      /\ \A i, j \in 1 .. n : p[i] = p[j] => i = j
      /\ \A j \in 1 .. n : \E i \in 1 .. n : p[i] = j
  BY DEF Bijection, Injection, Surjection, IsInjective
<1>5. \A i \in 1 .. n - 1 : StrLeq(units[i], units[i + 1])
  <2> TAKE i \in 1 .. n - 1
  <2>1. i \in 1 .. n /\ i + 1 \in 1 .. n /\ i < i + 1
    OBVIOUS
  <2> QED BY <1>1, <1>2, <2>1 DEF SortInv, Content, Ordered
<1>6. ASSUME NEW s
      PROVE  Cardinality({j \in 1 .. n : units[j] = s}) = Cardinality({j \in 1 .. n : given[j] = s})
  <2> DEFINE A == {j \in 1 .. n : units[j] = s}
             B == {j \in 1 .. n : given[j] = s}
             f == [j \in A |-> p[j]]
  <2>1. f \in [A -> B]
    BY <1>3, <1>4
  <2>2. \A i, j \in A : f[i] = f[j] => i = j
    BY <1>4
  <2>3. ASSUME NEW m \in B PROVE \E j \in A : f[j] = m
    <3>1. PICK j \in 1 .. n : p[j] = m
      BY <1>4
    <3>2. j \in A /\ f[j] = m
      BY <1>3, <3>1
    <3> QED BY <3>2
  <2>4. A \in SUBSET (1 .. n)
    OBVIOUS
  <2>5. IsFiniteSet(A)
    <3> HIDE DEF A
    <3>1. 1 \in Int /\ n \in Int
      OBVIOUS
    <3>2. IsFiniteSet(1 .. n)
      BY <3>1, FS_Interval
    <3> QED BY <2>4, <3>2, FS_Subset
  <2> HIDE DEF A, B, f
  <2>6. f \in Bijection(A, B)
    BY <2>1, <2>2, <2>3, Fun_IsBij
  <2>7. ExistsBijection(A, B)
    BY <2>6 DEF ExistsBijection
  <2>8. Cardinality(A) = Cardinality(B)
    BY <2>5, <2>7, FS_Bijection
  <2> QED BY <2>8 DEF A, B
<1>7. count = SortCount(given)
  <2>1. CASE n <= 1
    BY <1>1, <2>1 DEF SortInv, Counted, SortCount
  <2>2. CASE n > 1
    <3>1. count = Cardinality(Names(units, Outside(n, {}) \cup {}))
      BY <1>1, <1>2, <2>2 DEF SortInv, Counted
    <3>2. Outside(n, {}) \cup {} = 1 .. n
      BY DEF Outside
    <3>3. Names(units, 1 .. n) = {given[i] : i \in DOMAIN given}
      <4>1. \A i \in 1 .. n : units[i] \in {given[j] : j \in 1 .. n}
        BY <1>3, <1>4
      <4>2. ASSUME NEW j \in 1 .. n PROVE given[j] \in Names(units, 1 .. n)
        <5>1. PICK i \in 1 .. n : p[i] = j
          BY <1>4
        <5> QED BY <1>3, <5>1 DEF Names
      <4> QED BY <1>1, <4>1, <4>2 DEF Names
    <3>4. SortCount(given) = Cardinality({given[i] : i \in DOMAIN given})
      BY <1>1, <2>2 DEF SortCount
    <3> QED BY <3>1, <3>2, <3>3, <3>4
  <2> QED BY <2>1, <2>2
<1> QED BY <1>1, <1>5, <1>6, <1>7

---------------------------------------------------------------------------
\* In every state of a sort, the strings of every call that is to be made agree
\* up to its depth, so that get_label and compare never look behind their end.
THEOREM PrefixesAlwaysShared == SpecSort => []CallsSharePrefix
<1>1. SortInv => CallsSharePrefix
  BY SharedPrefix
<1> QED BY <1>1, SortInvariant, PTL

\* However bad the pivots, no call is deeper than log2 of the number of strings:
\* the largest part is never recursed into.
THEOREM StackAlwaysLogarithmic == SpecSort => []StackIsLogarithmic
<1>1. SortInv => StackIsLogarithmic
  BY HalvedStack
<1> QED BY <1>1, SortInvariant, PTL

\* When sort returns, the strings are the given ones in order and the result is
\* the number of distinct ones.
THEOREM AlwaysSortsAndCounts == SpecSort => []SortsAndCounts
<1>1. SortInv => SortsAndCounts
  BY SortedAndCounted DEF SortsAndCounts
<1> QED BY <1>1, SortInvariant, PTL

===========================================================================
