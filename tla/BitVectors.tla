---------------------------- MODULE BitVectors ----------------------------
(***************************************************************************)
(* What grimoire::vector::BitVector answers.  The code counts with a       *)
(* two-level rank index and 64-bit words; a LOUDS trie only depends on the *)
(* answers, so a bit vector is a sequence of Booleans here and rank and    *)
(* select are counted.  Positions are the code's, counted from 0: bit p of *)
(* a vector is element p + 1 of the sequence.                              *)
(***************************************************************************)
EXTENDS Integers, Sequences, FiniteSets

\* Element i of a vector, counted from 0.
At(vec, i) == vec[i + 1]

\* The number of ones, and of zeros, before position i.
Rank1(bits, i) == Cardinality({p \in 1 .. i : bits[p]})
Rank0(bits, i) == Cardinality({p \in 1 .. i : ~bits[p]})

NumOnes(bits) == Rank1(bits, Len(bits))

\* The position of the i-th one, and of the i-th zero, i counted from 0.
Select1(bits, i) ==
  CHOOSE p \in 0 .. Len(bits) - 1 : At(bits, p) /\ Rank1(bits, p) = i
Select0(bits, i) ==
  CHOOSE p \in 0 .. Len(bits) - 1 : ~At(bits, p) /\ Rank0(bits, p) = i

\* Bitwise exclusive or, of a pair.
Xor[ab \in Nat \X Nat] ==
  LET a == ab[1]  b == ab[2] IN
  IF a = 0 \/ b = 0 THEN a + b
  ELSE ((a + b) % 2) + 2 * Xor[<<a \div 2, b \div 2>>]

===========================================================================
