--------------------------- MODULE BitVectorIndex --------------------------
(***************************************************************************)
(* grimoire::vector::BitVector: bits are pushed into words, then           *)
(* build_index counts them once.  Each block of 8 groups (512 bits) has a  *)
(* count of the ones before it and 7 counts relative to that, and one bit  *)
(* out of 512 ones (or zeros) has its position stored.  rank and select    *)
(* start from these and finish inside a group (64 bits).  A unit is one    *)
(* group in a 64-bit build and half of one in a 32-bit build.              *)
(*                                                                         *)
(* A unit is the set of the positions at which it has a one.  BitVectors   *)
(* has what rank and select must answer.                                   *)
(***************************************************************************)
EXTENDS BitVectors, FiniteSetsExt

CONSTANTS
  GroupBits,     \* 64
  ByteBits,      \* 8
  LinearBlocks,  \* 10: select looks at so many blocks one by one
  BitInputs      \* [bits, select0, select1, unitsPerGroup]: what is built

ASSUME GroupBitsAssumption ==
  /\ GroupBits \in Nat \ {0} /\ ByteBits \in Nat \ {0} /\ GroupBits % ByteBits = 0
  /\ LinearBlocks \in Nat

ASSUME BitInputsAssumption ==
  \A in \in BitInputs :
    /\ in.bits \in Seq(BOOLEAN)
    /\ in.select0 \in BOOLEAN /\ in.select1 \in BOOLEAN
    /\ in.unitsPerGroup \in {1, 2} /\ GroupBits % in.unitsPerGroup = 0

GroupsPerBlock == 8
BlockBits == GroupsPerBlock * GroupBits

VARIABLES
  source,    \* what is pushed and how it is indexed
  stage,     \* "push", "index", "built"
  units, size, num1s,       \* BitVector members
  ranks, select0s, select1s,
  unitId, zerosSoFar, onesSoFar  \* locals of build_index

bitVars == <<source, stage, units, size, num1s, ranks, select0s, select1s,
             unitId, zerosSoFar, onesSoFar>>

UnitsPerGroup == source.unitsPerGroup
UnitBits == GroupBits \div UnitsPerGroup

---------------------------------------------------------------------------
(* Words.                                                                  *)

Popcount(unit) == Cardinality(unit)
Complement(word, bits) == (0 .. bits - 1) \ word

\* The ones of a word up to the end of a byte, and the byte itself.
Accumulated(word, byte) == Popcount({p \in word : p < (byte + 1) * ByteBits})
ByteOf(word, byte) == {p \in 0 .. ByteBits - 1 : byte * ByteBits + p \in word}

\* SELECT_TABLE: the i-th one of a byte, or its last bit if there are not so many.
SelectTable(i, byte) ==
  Min({ByteBits - 1} \cup {p \in byte : Cardinality({q \in byte : q < p}) = i})

\* Where the i-th one of a word is that starts at position base: the bytes that
\* end before it are skipped at once, and a table has the place in its byte.
SelectBit(i, base, word) ==
  LET skip == Cardinality({b \in 0 .. GroupBits \div ByteBits - 1 : Accumulated(word, b) <= i})
      before == IF skip = 0 THEN 0 ELSE Accumulated(word, skip - 1)
  IN  base + skip * ByteBits + SelectTable(i - before, ByteOf(word, skip))

\* A whole group, of one unit or two.
GroupWord(g) ==
  IF UnitsPerGroup = 1 THEN At(units, g)
  ELSE At(units, 2 * g) \cup {b + UnitBits : b \in At(units, 2 * g + 1)}

\* Mutant: a bit less for rel1, which must also hold 64.
RelModulusTight(k) ==
  CASE k = 1 -> GroupBits
    [] k \in {2, 3} -> 4 * GroupBits
    [] OTHER -> 8 * GroupBits

\* RankIndex: rel1 has 7 bits, rel2 and rel3 have 8, the others 9.
RelModulus(k) ==
  CASE k = 1 -> 2 * GroupBits
    [] k \in {2, 3} -> 4 * GroupBits
    [] OTHER -> 8 * GroupBits

NewRank == [abs |-> 0, rel |-> [k \in 1 .. GroupsPerBlock - 1 |-> 0]]

SetRel(rank, k, value) == [rank EXCEPT !.rel[k] = value % RelModulus(k)]

---------------------------------------------------------------------------
InitBits ==
  /\ source \in BitInputs
  /\ stage = "push"
  /\ units = <<>> /\ size = 0 /\ num1s = 0
  /\ ranks = <<>> /\ select0s = <<>> /\ select1s = <<>>
  /\ unitId = 0 /\ zerosSoFar = 0 /\ onesSoFar = 0

\* push_back: units are added a whole group at a time.
PushBack ==
  /\ stage = "push" /\ size < Len(source.bits)
  /\ LET grown == IF size = UnitBits * Len(units)
                  THEN units \o [i \in 1 .. UnitsPerGroup |-> {}] ELSE units
         bit == At(source.bits, size)
     IN  /\ units' = IF bit
                     THEN [grown EXCEPT ![size \div UnitBits + 1] = @ \cup {size % UnitBits}]
                     ELSE grown
         /\ num1s' = num1s + IF bit THEN 1 ELSE 0
  /\ size' = size + 1
  /\ UNCHANGED <<source, stage, ranks, select0s, select1s, unitId, zerosSoFar, onesSoFar>>

\* build, the head of build_index: a block more than there are bits for.
BeginIndex ==
  /\ stage = "push" /\ size = Len(source.bits)
  /\ ranks' = [b \in 1 .. size \div BlockBits + (IF size % BlockBits # 0 THEN 1 ELSE 0) + 1
                 |-> NewRank]
  /\ stage' = "index"
  /\ UNCHANGED <<source, units, size, num1s, select0s, select1s, unitId, zerosSoFar, onesSoFar>>

\* Mutant: the count of the block is not taken off.
RanksAtGroupAbsolute(g) ==
  LET b == g \div GroupsPerBlock + 1
      k == g % GroupsPerBlock
  IN  IF k = 0 THEN [ranks EXCEPT ![b].abs = onesSoFar]
      ELSE [ranks EXCEPT ![b] = SetRel(@, k, onesSoFar)]

\* The count at the start of a group, stored in its block.
RanksAtGroup(g) ==
  LET b == g \div GroupsPerBlock + 1
      k == g % GroupsPerBlock
  IN  IF k = 0 THEN [ranks EXCEPT ![b].abs = onesSoFar]
      ELSE [ranks EXCEPT ![b] = SetRel(@, k, onesSoFar - @.abs)]

\* Each bit whose number is a multiple of 512 is stored, where seen bits of
\* its kind came before the unit and inUnit are in it.
Sampled(samples, seen, inUnit, word, base) ==
  LET next == (-seen) % BlockBits IN
  IF inUnit > next THEN Append(samples, SelectBit(next, base, word)) ELSE samples

\* The zeros of a unit: the last one may be filled in part.  In a 32-bit build
\* a unit may lie wholly beyond the bits; the unsigned difference is then large.
UnitZeros(u, ones) ==
  LET remaining == size - u * UnitBits IN
  (IF remaining \in 0 .. UnitBits THEN remaining ELSE UnitBits) - ones

IndexUnit ==
  /\ stage = "index" /\ unitId < Len(units)
  /\ LET unit == At(units, unitId)
         base == unitId * UnitBits
         ones == Popcount(unit)
         zeros == UnitZeros(unitId, ones)
     IN  /\ ranks' = IF base % GroupBits = 0 THEN RanksAtGroup(base \div GroupBits) ELSE ranks
         /\ IF source.select0
            THEN /\ select0s' = Sampled(select0s, zerosSoFar, zeros,
                                        Complement(unit, UnitBits), base)
                 /\ zerosSoFar' = zerosSoFar + zeros
            ELSE UNCHANGED <<select0s, zerosSoFar>>
         /\ select1s' = IF source.select1 THEN Sampled(select1s, onesSoFar, ones, unit, base)
                                          ELSE select1s
         /\ onesSoFar' = onesSoFar + ones
  /\ unitId' = unitId + 1
  /\ UNCHANGED <<source, stage, units, size, num1s>>

\* The tail of build_index: the groups of the last block that have no bits
\* count all ones, and so does the block after the last.
RanksClosed ==
  LET last == (size - 1) \div BlockBits + 1
      groups == ((size - 1) \div GroupBits) % GroupsPerBlock
      filled == IF size % BlockBits = 0 THEN ranks
                ELSE [ranks EXCEPT ![last].rel =
                        [k \in DOMAIN @ |-> IF k > groups
                                            THEN (onesSoFar - ranks[last].abs) % RelModulus(k)
                                            ELSE @[k]]]
  IN  [filled EXCEPT ![Len(ranks)].abs = onesSoFar]

FinishIndex ==
  /\ stage = "index" /\ unitId = Len(units)
  /\ ranks' = RanksClosed
  /\ select0s' = IF source.select0 THEN Append(select0s, size) ELSE select0s
  /\ select1s' = IF source.select1 THEN Append(select1s, size) ELSE select1s
  /\ stage' = "built"
  /\ UNCHANGED <<source, units, size, num1s, unitId, zerosSoFar, onesSoFar>>

NextBits == PushBack \/ BeginIndex \/ IndexUnit \/ FinishIndex

SpecBits == InitBits /\ [][NextBits]_bitVars

---------------------------------------------------------------------------
(* Queries.                                                                *)

\* The ones before the k-th group of a block, as its rank record says.
Rel(rank, k) == IF k = 0 THEN 0 ELSE rank.rel[k]

Rank1Of(i) ==
  LET rank == At(ranks, i \div BlockBits)
      u == i \div UnitBits
  IN  rank.abs + Rel(rank, (i \div GroupBits) % GroupsPerBlock)
      + (IF u % UnitsPerGroup = 1 THEN Popcount(At(units, u - 1)) ELSE 0)
      + Popcount({b \in At(units, u) : b < i % UnitBits})

\* The bits of the kind that is selected before block b, and before group k of it.
BeforeBlock(bit, b) ==
  IF bit THEN At(ranks, b).abs ELSE b * BlockBits - At(ranks, b).abs
BeforeGroup(bit, rank, k) ==
  IF bit THEN Rel(rank, k) ELSE k * GroupBits - Rel(rank, k)

\* Blocks looked at one by one, where the samples are close together,
LinearBlock(bit, i, begin) ==
  Min({b \in begin .. Len(ranks) - 2 : i < BeforeBlock(bit, b + 1)})

\* or by halving.
BisectedBlock(bit, i, first, last) ==
  LET Bisect[range \in Nat \X Nat] ==
        LET begin == range[1]
            end == range[2]
            middle == (begin + end) \div 2
        IN  IF begin + 1 >= end THEN begin
            ELSE IF i < BeforeBlock(bit, middle) THEN Bisect[<<begin, middle>>]
            ELSE Bisect[<<middle, end>>]
  IN  Bisect[<<first, last>>]

\* Mutant: the block the next sample lies in is not looked at.
SampleEndShort(position) == position \div BlockBits

\* The block after the ones to look at.
SampleEnd(position) == (position + BlockBits - 1) \div BlockBits

BlockOf(bit, i, samples) ==
  LET begin == At(samples, i \div BlockBits) \div BlockBits
      end == SampleEnd(At(samples, i \div BlockBits + 1))
  IN  IF begin + LinearBlocks >= end THEN LinearBlock(bit, i, begin)
                                     ELSE BisectedBlock(bit, i, begin, end)

\* The group in a block that has bit i of the block: three comparisons.
GroupOf(bit, i, rank) ==
  LET half == IF i < BeforeGroup(bit, rank, 4) THEN 0 ELSE 4
      quarter == half + IF i < BeforeGroup(bit, rank, half + 2) THEN 0 ELSE 2
  IN  quarter + IF i < BeforeGroup(bit, rank, quarter + 1) THEN 0 ELSE 1

SelectInBlock(bit, i, b) ==
  LET rank == At(ranks, b)
      k == GroupOf(bit, i, rank)
      g == b * GroupsPerBlock + k
  IN  SelectBit(i - BeforeGroup(bit, rank, k), g * GroupBits,
                IF bit THEN GroupWord(g) ELSE Complement(GroupWord(g), GroupBits))

\* select1 where bit is TRUE, select0 where it is FALSE.
SelectOf(bit, i) ==
  LET samples == IF bit THEN select1s ELSE select0s
      b == BlockOf(bit, i, samples)
  IN  IF i % BlockBits = 0 THEN At(samples, i \div BlockBits)
      ELSE SelectInBlock(bit, i - BeforeBlock(bit, b), b)

---------------------------------------------------------------------------
BitsTypeOK ==
  /\ source \in BitInputs
  /\ stage \in {"push", "index", "built"}
  /\ units \in Seq(SUBSET (0 .. UnitBits - 1))
  /\ size \in 0 .. Len(source.bits) /\ num1s \in 0 .. size
  /\ \A b \in DOMAIN ranks :
       /\ ranks[b].abs \in 0 .. num1s
       /\ \A k \in 1 .. GroupsPerBlock - 1 : ranks[b].rel[k] \in 0 .. k * GroupBits
  /\ select0s \in Seq(0 .. UnitBits * Len(units)) /\ select1s \in Seq(0 .. size)
  /\ unitId \in 0 .. Len(units)
  /\ zerosSoFar \in Nat /\ onesSoFar \in 0 .. num1s

Pushed == SubSeq(source.bits, 1, size)

\* rank1 (lookup's ids, the number of a link) counts the ones before every
\* position from its block, group and unit, in either build, also in a block
\* that is filled in part.
RanksCount ==
  stage = "built" =>
    \A i \in 0 .. size - 1 : Rank1Of(i) = Rank1(Pushed, i)

\* select0 and select1 (the children of a node, its parent, the node of an id)
\* find every one and every zero: from the samples, over blocks one by one or
\* by halving, and in the group the counts lead to.
SelectsFind ==
  stage = "built" =>
    \A p \in 0 .. size - 1 :
      IF At(Pushed, p) THEN source.select1 => SelectOf(TRUE, Rank1(Pushed, p)) = p
                       ELSE source.select0 => SelectOf(FALSE, Rank0(Pushed, p)) = p

===========================================================================
