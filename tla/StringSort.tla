----------------------------- MODULE StringSort ----------------------------
(***************************************************************************)
(* algorithm::sort: a quicksort of strings by one character at a time.  A  *)
(* range whose strings share their first depth characters is split into    *)
(* those whose next character is less than, equal to and greater than a    *)
(* pivot; equal ones gather at both ends and are brought to the middle.    *)
(* Short ranges are sorted by insertion.  It returns how many distinct     *)
(* strings there are.                                                      *)
(*                                                                         *)
(* Iterators are counted from 0.  work has the calls that are to be made,  *)
(* the one at hand first, each at its level of the recursion.              *)
(***************************************************************************)
EXTENDS SortedStrings

CONSTANTS
  Threshold,   \* MARISA_INSERTION_SORT_THRESHOLD
  SortInputs   \* sequences of strings to sort

ASSUME ThresholdAssumption == Threshold \in Nat \ {0}

\* Characters are unsigned, so that the end of a string, -1, is before them all.
ASSUME SortInputsAssumption == SortInputs \subseteq Seq(Seq(Nat))

VARIABLES
  given,        \* what is sorted
  units,        \* the range begin .. end
  work, count,
  step,         \* "sort", "left", "right", "gatherLeft", "gatherRight", "split", "insert"
  pl, pr, pivotL, pivotR, pivot  \* locals of the call at hand; pl is i of insertion_sort

sortVars == <<given, units, work, count, step, pl, pr, pivotL, pivotR, pivot>>

Call(l, r, depth, level) == [l |-> l, r |-> r, depth |-> depth, level |-> level]

Current == Head(work)
Size(c) == c.r - c.l

GetLabel(unit, depth) == IF depth < Len(unit) THEN unit[depth + 1] ELSE -1
LabelAt(i) == GetLabel(units[i + 1], Current.depth)

\* The label that is neither the least nor the greatest of three.
Median(x, y, z) ==
  IF x < y THEN (IF y < z THEN y ELSE IF x < z THEN z ELSE x)
  ELSE IF x < z THEN x ELSE IF y < z THEN z ELSE y

Swapped(i, j) == [units EXCEPT ![i + 1] = units[j + 1], ![j + 1] = units[i + 1]]

InitSort ==
  /\ given \in SortInputs /\ units = given
  /\ work = <<Call(0, Len(given), 0, 0)>> /\ count = 0
  /\ step = "sort"
  /\ pl = 0 /\ pr = 0 /\ pivotL = 0 /\ pivotR = 0 /\ pivot = 0

---------------------------------------------------------------------------
BeginPartition ==
  /\ step = "sort" /\ work # <<>> /\ Size(Current) > Threshold
  /\ pl' = Current.l /\ pr' = Current.r
  /\ pivotL' = Current.l /\ pivotR' = Current.r
  /\ pivot' = Median(LabelAt(Current.l), LabelAt(Current.l + Size(Current) \div 2),
                     LabelAt(Current.r - 1))
  /\ step' = "left"
  /\ UNCHANGED <<given, units, work, count>>

\* The first inner loop: up to a label that is greater.
ScanLeft ==
  /\ step = "left"
  /\ IF pl < pr /\ LabelAt(pl) <= pivot
     THEN /\ pl' = pl + 1 /\ step' = step
          /\ IF LabelAt(pl) = pivot THEN units' = Swapped(pl, pivotL) /\ pivotL' = pivotL + 1
                                    ELSE UNCHANGED <<units, pivotL>>
     ELSE step' = "right" /\ UNCHANGED <<pl, units, pivotL>>
  /\ UNCHANGED <<given, work, count, pr, pivotR, pivot>>

\* The second one: down to a label that is less, which changes places with the
\* greater one.
ScanRight ==
  /\ step = "right"
  /\ IF pl >= pr THEN step' = "gatherLeft" /\ UNCHANGED <<units, pl, pr, pivotR>>
     ELSE /\ pr' = pr - 1
          /\ \/ /\ LabelAt(pr - 1) < pivot
                /\ units' = Swapped(pl, pr - 1) /\ pl' = pl + 1 /\ pivotR' = pivotR
                /\ step' = "left"
             \/ /\ LabelAt(pr - 1) = pivot
                /\ units' = Swapped(pr - 1, pivotR - 1) /\ pivotR' = pivotR - 1
                /\ UNCHANGED <<pl, step>>
             \/ /\ LabelAt(pr - 1) > pivot
                /\ UNCHANGED <<units, pl, pivotR, step>>
  /\ UNCHANGED <<given, work, count, pivotL, pivot>>

\* Mutant: the equal ones of the left end stay there.
GatherLeftNot ==
  /\ step = "gatherLeft"
  /\ step' = "gatherRight"
  /\ UNCHANGED <<given, units, work, count, pl, pr, pivotL, pivotR, pivot>>

\* The equal ones move from the left end to the middle,
GatherLeft ==
  /\ step = "gatherLeft"
  /\ IF pivotL > Current.l
     THEN /\ units' = Swapped(pivotL - 1, pl - 1)
          /\ pivotL' = pivotL - 1 /\ pl' = pl - 1 /\ step' = step
     ELSE step' = "gatherRight" /\ UNCHANGED <<units, pivotL, pl>>
  /\ UNCHANGED <<given, work, count, pr, pivotR, pivot>>

\* and from the right end.
GatherRight ==
  /\ step = "gatherRight"
  /\ IF pivotR < Current.r
     THEN /\ units' = Swapped(pivotR, pr)
          /\ pivotR' = pivotR + 1 /\ pr' = pr + 1 /\ step' = step
     ELSE step' = "split" /\ UNCHANGED <<units, pivotR, pr>>
  /\ UNCHANGED <<given, work, count, pl, pivotL, pivot>>

\* A part of one string counts without a call; so does the middle part where
\* the pivot is the end of the strings.
Calls(c) == IF Size(c) > 1 THEN <<c>> ELSE <<>>
Counts(c) == IF Size(c) = 1 THEN 1 ELSE 0

\* Mutant: the call at hand always goes on with the middle part.
MiddleAlwaysLargest(l, r) == TRUE
MiddleIsLargest(l, r) == pl - l <= pr - pl /\ r - pr <= pr - pl

\* Mutant: strings that end here are told apart further on.
NoEnd(label) == FALSE
IsEnd(label) == label = -1

\* Mutant: strings with the same label are compared by it again.
SameDepth(depth) == depth
NextDepth(depth) == depth + 1

\* Recursive calls for two of the parts, at the next level; the call at hand
\* goes on with the largest.
SplitParts ==
  LET c == Current
      Part(l, r, depth, largest) == Call(l, r, depth, c.level + IF largest THEN 0 ELSE 1)
      middleLargest == MiddleIsLargest(c.l, c.r)
      greaterLargest == ~middleLargest /\ pl - c.l < c.r - pr
      less    == Part(c.l, pl, c.depth, ~middleLargest /\ ~greaterLargest)
      greater == Part(pr, c.r, c.depth, greaterLargest)
      middle  == Part(pl, pr, NextDepth(c.depth), middleLargest)
      ofMiddle == IF IsEnd(pivot) THEN <<>> ELSE Calls(middle)
  IN  [calls |-> IF middleLargest THEN Calls(less) \o Calls(greater) \o ofMiddle
                 ELSE IF greaterLargest THEN ofMiddle \o Calls(less) \o Calls(greater)
                 ELSE ofMiddle \o Calls(greater) \o Calls(less),
       count |-> Counts(less) + Counts(greater) +
                 IF IsEnd(pivot) /\ Size(middle) > 0 THEN 1 ELSE Counts(middle)]

Split ==
  /\ step = "split"
  /\ work' = SplitParts.calls \o Tail(work)
  /\ count' = count + SplitParts.count
  /\ step' = "sort"
  /\ UNCHANGED <<given, units, pl, pr, pivotL, pivotR, pivot>>

\* insertion_sort starts with the first string sorted and counted; a call for
\* one string or none does nothing.
BeginInsertion ==
  /\ step = "sort" /\ work # <<>> /\ Size(Current) <= Threshold
  /\ IF Size(Current) > 1
     THEN step' = "insert" /\ pl' = Current.l + 1 /\ count' = count + 1 /\ work' = work
     ELSE work' = Tail(work) /\ UNCHANGED <<step, pl, count>>
  /\ UNCHANGED <<given, units, pr, pivotL, pivotR, pivot>>

\* compare(lhs, rhs, depth) > 0.
Greater(a, b, depth) ==
  ~StrLeq(SubSeq(a, depth + 1, Len(a)), SubSeq(b, depth + 1, Len(b)))

\* Where the i-th string goes: behind the last one that is not greater.
InsertAt(i) ==
  CHOOSE j \in Current.l .. i :
    /\ \A k \in j .. i - 1 : Greater(units[k + 1], units[i + 1], Current.depth)
    /\ j > Current.l => ~Greater(units[j], units[i + 1], Current.depth)

\* A turn of the loop: it counts unless the last comparison was 0.
Insert ==
  /\ step = "insert" /\ pl < Current.r
  /\ LET j == InsertAt(pl)
         repeated == j > Current.l /\ ~Greater(units[pl + 1], units[j], Current.depth)
     IN  /\ units' = [q \in DOMAIN units |-> IF q = j + 1 THEN units[pl + 1]
                                             ELSE IF q - 1 \in j + 1 .. pl THEN units[q - 1]
                                             ELSE units[q]]
         /\ count' = count + IF repeated THEN 0 ELSE 1
  /\ pl' = pl + 1
  /\ UNCHANGED <<given, work, step, pr, pivotL, pivotR, pivot>>

EndInsertion ==
  /\ step = "insert" /\ pl = Current.r
  /\ work' = Tail(work) /\ step' = "sort"
  /\ UNCHANGED <<given, units, count, pl, pr, pivotL, pivotR, pivot>>

NextSort ==
  \/ BeginPartition \/ ScanLeft \/ ScanRight \/ GatherLeft \/ GatherRight \/ Split
  \/ BeginInsertion \/ Insert \/ EndInsertion

\* Fairness: the caller waits for sort, which nothing else stops.
SpecSort == InitSort /\ [][NextSort]_sortVars /\ WF_sortVars(NextSort)

---------------------------------------------------------------------------
Sorted == work = <<>>

\* The strings come out sorted, none lost and none twice, and the result is the
\* number of distinct ones, on which build_current_trie relies for the size of
\* its cache: what SortedStrings says.
SortsAndCounts ==
  Sorted =>
    /\ \A i \in 1 .. Len(units) - 1 : StrLeq(units[i], units[i + 1])
    /\ \A i \in DOMAIN given :
         Cardinality({j \in DOMAIN units : units[j] = given[i]}) =
           Cardinality({j \in DOMAIN given : given[j] = given[i]})
    /\ count = SortCount(given)

\* get_label's and compare's assertion that depth is within the strings, and
\* why: the strings of a call agree up to its depth.
CallsSharePrefix ==
  \A k \in DOMAIN work :
    LET c == work[k] IN
    \A i \in c.l + 1 .. c.r :
      /\ c.depth <= Len(units[i])
      /\ SubSeq(units[i], 1, c.depth) = SubSeq(units[c.l + 1], 1, c.depth)

\* Every recursive call has at most half of the strings of the one it is made
\* from, so that the stack is no deeper than log2 of their number, whatever
\* the pivots are.
StackIsLogarithmic ==
  \A k \in DOMAIN work : Size(work[k]) * 2 ^ work[k].level <= Len(given)

\* sort ends.
SortTerminates == <>Sorted

===========================================================================
