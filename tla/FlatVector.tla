----------------------------- MODULE FlatVector ----------------------------
(***************************************************************************)
(* grimoire::vector::FlatVector: numbers packed into words, each in as     *)
(* many bits as the largest needs, so that a number may lie in two words.  *)
(* The words come from an allocation that is not cleared: a bit of a word  *)
(* is 0, 1 or Unset, which stands for whatever was in the memory.          *)
(***************************************************************************)
EXTENDS Integers, Sequences, FiniteSetsExt

CONSTANT
  WordBits   \* the bits of a unit for a given number of units per 64 bits

ASSUME WordBitsAssumption == \A u \in {1, 2} : WordBits[u] \in Nat \ {0}

VARIABLES
  values,      \* what is packed
  flatStage,   \* "wait", "set", "packed"
  words,       \* units_
  unitsPer64,  \* 64 / MARISA_WORD_SIZE
  valueSize,   \* value_size_; mask_ has as many ones
  packed       \* how many values are set

flatVars == <<values, flatStage, words, unitsPer64, valueSize, packed>>

Unset == 2
W == WordBits[unitsPer64]

Word(bits, content) == [b \in 0 .. bits - 1 |-> content]

\* Bit j of a number.
BitOf(n, j) == (n \div 2 ^ j) % 2

\* The bits that the largest value has.
BitLength[n \in Nat] == IF n = 0 THEN 0 ELSE 1 + BitLength[n \div 2]

ValueSize(vals) == BitLength[Max({0} \cup {vals[i] : i \in DOMAIN vals})]

\* In a 32-bit build the number of units is made even.
NumUnits(vals, per64) ==
  LET needed == (ValueSize(vals) * Len(vals) + WordBits[per64] - 1) \div WordBits[per64] IN
  IF vals = <<>> THEN 0
  ELSE IF ValueSize(vals) = 0 THEN per64
  ELSE needed + (needed % per64)

\* Mutant: the last unit is left as it was allocated.
NewWordsUncleared(vals, per64) ==
  [k \in 1 .. NumUnits(vals, per64) |-> Word(WordBits[per64], Unset)]

\* The last unit is cleared before values are set.
NewWords(vals, per64) ==
  [k \in 1 .. NumUnits(vals, per64) |->
     Word(WordBits[per64], IF k = NumUnits(vals, per64) THEN 0 ELSE Unset)]

\* Mutant: the shift into the next word is one short.
PutAcrossShort(unitsNow, pos, value) ==
  LET u == pos \div W
      offset == pos % W
  IN  [k \in DOMAIN unitsNow |->
         [b \in 0 .. W - 1 |->
            IF k = u + 1 /\ b \in offset .. offset + valueSize - 1 THEN BitOf(value, b - offset)
            ELSE IF k = u + 2 /\ b + W < offset + valueSize - 1 THEN BitOf(value, b + W - offset)
            ELSE unitsNow[k][b]]]

\* A value in the bits from pos on: what leaves the word goes to the next one.
PutAcross(unitsNow, pos, value) ==
  LET u == pos \div W
      offset == pos % W
  IN  [k \in DOMAIN unitsNow |->
         [b \in 0 .. W - 1 |->
            IF k = u + 1 /\ b \in offset .. offset + valueSize - 1 THEN BitOf(value, b - offset)
            ELSE IF k = u + 2 /\ b + W < offset + valueSize THEN BitOf(value, b + W - offset)
            ELSE unitsNow[k][b]]]

\* operator[]: bit j of the value, from the word it is in.
ValueBit(i, j) ==
  LET pos == i * valueSize
      u == pos \div W
      offset == pos % W
  IN  IF offset + j < W THEN words[u + 1][offset + j] ELSE words[u + 2][offset + j - W]

---------------------------------------------------------------------------
InitFlat ==
  /\ values = <<>> /\ flatStage = "wait" /\ words = <<>>
  /\ unitsPer64 = 1 /\ valueSize = 0 /\ packed = 0

\* build_, up to its last loop.
BuildFlat(vals, per64) ==
  /\ flatStage = "wait"
  /\ values' = vals /\ unitsPer64' = per64
  /\ valueSize' = ValueSize(vals)
  /\ words' = NewWords(vals, per64)
  /\ packed' = 0
  /\ flatStage' = "set"

\* One turn of the loop: set.
SetValue ==
  /\ flatStage = "set" /\ packed < Len(values)
  /\ words' = PutAcross(words, packed * valueSize, values[packed + 1])
  /\ packed' = packed + 1
  /\ UNCHANGED <<values, flatStage, unitsPer64, valueSize>>

FinishFlat ==
  /\ flatStage = "set" /\ packed = Len(values)
  /\ flatStage' = "packed"
  /\ UNCHANGED <<values, words, unitsPer64, valueSize, packed>>

NextFlat == SetValue \/ FinishFlat

---------------------------------------------------------------------------
\* Setting a value leaves the ones before it as they are, whatever words they
\* share, and each is read back bit by bit from where it was put.
PackedValuesRead ==
  \A i \in 0 .. packed - 1, j \in 0 .. valueSize - 1 :
    ValueBit(i, j) = BitOf(values[i + 1], j)

\* In a 64-bit build no bit of the words that are saved to a file is left as
\* it was in memory.  (A 32-bit build clears the padding unit instead of the
\* last one with values.)
NoMemoryLeaks ==
  flatStage = "packed" /\ unitsPer64 = 1 =>
    \A k \in DOMAIN words : \A b \in 0 .. W - 1 : words[k][b] # Unset

===========================================================================
