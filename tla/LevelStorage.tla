---------------------------- MODULE LevelStorage ---------------------------
(***************************************************************************)
(* The storage of one level's links, as build_trie leaves it: link_flags_  *)
(* is a BitVector, the low part of each link is in bases_ and the rest in  *)
(* extras_, a FlatVector with one entry per flag that is set.  get_link    *)
(* joins them through rank1.                                               *)
(***************************************************************************)
EXTENDS BitVectorIndex, FlatVector

CONSTANTS
  LabelSize,   \* 256
  LinkTables   \* where the level below may have put the strings of the links

ASSUME LabelSizeAssumption == LabelSize \in Nat \ {0}

\* What is left of a link is a UInt32: it fits in a unit.
ASSUME LinkTablesAssumption ==
  \A table \in LinkTables, in \in BitInputs : \A i \in 1 .. NumOnes(in.bits) :
    table[i] \in Nat /\ table[i] \div LabelSize < 2 ^ WordBits[in.unitsPerGroup]

VARIABLES
  nextTerminals,  \* a link for every flag
  bases           \* bases_ of the nodes that are links, 0 elsewhere

storageVars == <<bitVars, flatVars, nextTerminals, bases>>

InitStorage ==
  /\ InitBits /\ InitFlat
  /\ nextTerminals \in {[i \in 1 .. NumOnes(source.bits) |-> table[i]] : table \in LinkTables}
  /\ bases = <<>>

PushFlag == NextBits /\ UNCHANGED <<flatVars, nextTerminals, bases>>

LinkBase(link) == link % LabelSize

\* Mutant: the division is forgotten.
LinkExtraWhole(link) == link
LinkExtra(link) == link \div LabelSize

\* The loop over next_terminals in build_trie: the i-th goes to the base of
\* the i-th node with a flag, and what is left of it to extras_.
SplitLinks ==
  /\ stage = "built"
  /\ bases' = [n \in 1 .. size |->
                 IF source.bits[n] THEN LinkBase(nextTerminals[Rank1(source.bits, n)]) ELSE 0]
  /\ BuildFlat([i \in DOMAIN nextTerminals |-> LinkExtra(nextTerminals[i])], UnitsPerGroup)
  /\ UNCHANGED <<bitVars, nextTerminals>>

PackExtra == NextFlat /\ UNCHANGED <<bitVars, nextTerminals, bases>>

NextStorage == PushFlag \/ SplitLinks \/ PackExtra

SpecStorage == InitStorage /\ [][NextStorage]_storageVars

---------------------------------------------------------------------------
ExtraAt(i) == MapThenSumSet(LAMBDA j : ValueBit(i, j) * 2 ^ j, 0 .. valueSize - 1)

GetLink(n) == At(bases, n) + ExtraAt(Rank1Of(n)) * LabelSize

\* A link node finds its own link again, through the index of link_flags_ and
\* the words of extras_: no other node's, whatever lies between them.
LinksRead ==
  flatStage = "packed" =>
    \A n \in 0 .. size - 1 :
      At(source.bits, n) => GetLink(n) = nextTerminals[Rank1(source.bits, n + 1)]

===========================================================================
