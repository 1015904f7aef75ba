--------------------------- MODULE MCLevelStorage --------------------------
EXTENDS LevelStorage

MCWordBits == [u \in {1, 2} |-> IF u = 1 THEN 8 ELSE 4]

\* Lengths around a unit, a group and a block, and some with several blocks.
MCLengths == {0, 1, 3, 4, 5, 31, 32, 33, 64, 66, 98, 163}

\* Dense, sparse, empty and uneven ones: p is counted from 0.
Patterns(len) ==
  {[p \in 1 .. len |-> FALSE],
   [p \in 1 .. len |-> TRUE],
   [p \in 1 .. len |-> p % 2 = 0],
   [p \in 1 .. len |-> p % 3 # 0],
   [p \in 1 .. len |-> p = len],
   [p \in 1 .. len |-> p = 1],
   [p \in 1 .. len |-> p # len \div 2 + 1],
   [p \in 1 .. len |-> (p \div 32) % 2 = 0],
   [p \in 1 .. len |-> p < 10 \/ p > 120],
   [p \in 1 .. len |-> p \in 10 .. 140]}

MCBitInputs ==
  [bits : UNION {Patterns(len) : len \in MCLengths},
   select0 : {TRUE}, select1 : {TRUE}, unitsPerGroup : {1, 2}]
  \cup
  [bits : Patterns(33), select0 : BOOLEAN, select1 : BOOLEAN, unitsPerGroup : {1, 2}]

MCLinkTables ==
  {[i \in 1 .. 163 |-> (i * 7) % 16], [i \in 1 .. 163 |-> (i * 5) % 6],
   [i \in 1 .. 163 |-> i % 2]}

===========================================================================
