--------------------------- MODULE SortedStrings --------------------------
(***************************************************************************)
(* Strings of unsigned characters and the order algorithm::sort puts them  *)
(* in.  sort is an unstable quicksort, so equal strings may end up in any  *)
(* order: it is modelled by the set of orders it may produce.              *)
(***************************************************************************)
EXTENDS Integers, Sequences, FiniteSets, Functions

\* By the first character that differs, a prefix before what it begins.
StrLeq(a, b) ==
  \/ Len(a) <= Len(b) /\ \A q \in 1 .. Len(a) : a[q] = b[q]
  \/ \E k \in 1 .. Len(a) :
       /\ k <= Len(b)
       /\ a[k] < b[k]
       /\ \A q \in 1 .. k - 1 : a[q] = b[q]

\* The orders in which the elements of strs are sorted.
SortedOrders(strs) ==
  {p \in Bijection(DOMAIN strs, DOMAIN strs) :
     \A i, j \in DOMAIN strs : i < j => StrLeq(strs[p[i]], strs[p[j]])}

\* What algorithm::sort returns, the number of distinct strings; it does not
\* count a string that is alone.
SortCount(strs) ==
  IF Len(strs) <= 1 THEN 0 ELSE Cardinality({strs[i] : i \in DOMAIN strs})

===========================================================================
