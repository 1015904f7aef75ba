----------------------------- MODULE TrieBuild -----------------------------
(***************************************************************************)
(* LoudsTrie::build_: all the levels of a trie.  Each level is built by    *)
(* BuildCurrentTrie; the strings of its link nodes are the keys of the     *)
(* next level, or the entries of the tail at the last level allowed.  The  *)
(* way back gives every link node the place of its string one level below  *)
(* (base and extra) and completes the cache; level 1 then numbers the      *)
(* terminal nodes.                                                         *)
(***************************************************************************)
EXTENDS BuildCurrentTrie, TailBuffer

CONSTANT
  InvalidExtra  \* MARISA_INVALID_EXTRA: the extra of a cached node without link

ASSUME InvalidExtraAssumption == InvalidExtra \in Nat \ {0}

\* LoudsTrie::build begins with level 1, and with a config that was parsed.
ASSUME BuildInputsAssumption ==
  \A in \in Inputs :
    /\ in.trieId = 1 /\ in.config.numTries \in Nat \ {0}
    /\ in.config.tailMode \in {"text", "binary"}

VARIABLES
  keyset,         \* the keys of the trie, unsorted
  tries,          \* the levels built so far, the outermost first
  nextTerminals,  \* where the level below put the strings of the link nodes
  tail,           \* the tail of the last level
  terminalFlags,  \* terminal_flags_ of level 1
  ids             \* the id of each key of the keyset, in its order

buildVars == <<currentVars, keyset, tries, nextTerminals, tail, terminalFlags, ids>>

\* The value of parent and child in a cache entry that is not used: UINT32_MAX.
Unused == -1

---------------------------------------------------------------------------
\* What a level reports of itself, until build_trie knows.
DefaultConfig == [numTries |-> 3, tailMode |-> "text", nodeOrder |-> "weight"]

\* The level just built; its extras and config come on the way back.
CurrentTrie ==
  [louds |-> louds, bases |-> bases, linkFlags |-> linkFlags, extras |-> <<>>,
   cache |-> cache, numL1Nodes |-> numL1Nodes, terminals |-> terminals,
   config |-> DefaultConfig]

\* Mutant: level 2 reads its keys forwards.
StringsForward(id) == nextKeys

\* ReverseKey reads backwards what Key read forwards, so level 2 stores the
\* strings of level 1 reversed; ReverseKeys go down as they are.
StringsBelow(id) ==
  [i \in DOMAIN nextKeys |->
     [nextKeys[i] EXCEPT !.str = IF id = 1 THEN Reverse(nextKeys[i].str)
                                           ELSE nextKeys[i].str]]

\* The tail stores strings in the order of the text at every level.
TailEntries(id) ==
  [i \in DOMAIN nextKeys |-> IF id = 1 THEN nextKeys[i].str ELSE Reverse(nextKeys[i].str)]

InitBuild ==
  /\ Init
  /\ keyset = input
  /\ tries = <<>> /\ nextTerminals = <<>> /\ tail = EmptyTail
  /\ terminalFlags = <<>> /\ ids = <<>>

\* A step of build_current_trie on the level at hand.
BuildLevel ==
  /\ NextCurrent
  /\ UNCHANGED <<keyset, tries, nextTerminals, tail, terminalFlags, ids>>

\* Mutant: there is one more level also when no link is left.
BuildNextTrieAlways ==
  /\ pc = "built" /\ trieId # config.numTries
  /\ tries' = Append(tries, CurrentTrie)
  /\ StartLevel(trieId + 1, StringsBelow(trieId))
  /\ UNCHANGED <<config, keyset, nextTerminals, tail, terminalFlags, ids>>

\* build_next_trie: the link strings go to one more level,
BuildNextTrie ==
  /\ pc = "built" /\ keys # <<>> /\ trieId # config.numTries
  /\ tries' = Append(tries, CurrentTrie)
  /\ StartLevel(trieId + 1, StringsBelow(trieId))
  /\ UNCHANGED <<config, keyset, nextTerminals, tail, terminalFlags, ids>>

\* or to the tail at the last level;
BuildTail ==
  /\ pc = "built" /\ keys # <<>> /\ trieId = config.numTries
  /\ tries' = Append(tries, CurrentTrie)
  /\ LET built == TailBuild(TailEntries(trieId), config.tailMode)
     IN  /\ tail' = [buf |-> built.buf, endFlags |-> built.endFlags]
         /\ nextTerminals' = built.offsets
  /\ pc' = "link"
  /\ UNCHANGED <<config, keyset, trieVars, levelVars, terminalFlags, ids>>

\* without link nodes there is nothing below.
SkipNextTrie ==
  /\ pc = "built" /\ keys = <<>>
  /\ tries' = Append(tries, CurrentTrie)
  /\ nextTerminals' = <<>>
  /\ pc' = "link"
  /\ UNCHANGED <<config, keyset, trieVars, levelVars, tail, terminalFlags, ids>>

\* The place of the i-th link node's string, split as get_link joins it.
\* Mutant: the part for the extra is not taken off.
LinkBaseWhole(link) == link
LinkBase(link) == link % LabelSize
LinkExtra(link) == link \div LabelSize

\* The bases of a level, its link nodes' included: one per next terminal.
LinkedBases(t) ==
  [i \in DOMAIN t.bases |->
     IF t.linkFlags[i]
     THEN LinkBase(At(nextTerminals, Rank1(t.linkFlags, i - 1))) ELSE t.bases[i]]

\* Mutant: the cache is filled before the link nodes get their bases.
FilledCacheEarly(t) ==
  [slot \in DOMAIN t.cache |->
     LET child == t.cache[slot].child IN
     IF child # 0
     THEN [parent |-> t.cache[slot].parent, child |-> child,
           base |-> IF At(t.linkFlags, child) THEN 0 ELSE At(t.bases, child),
           extra |-> IF ~At(t.linkFlags, child) THEN InvalidExtra
                     ELSE At(t.extras, Rank1(t.linkFlags, child))]
     ELSE [parent |-> Unused, child |-> Unused, base |-> 0, extra |-> 0]]

\* fill_cache: the base and extra of the child take the place of the weight.
FilledCache(t) ==
  [slot \in DOMAIN t.cache |->
     LET child == t.cache[slot].child IN
     IF child # 0
     THEN [parent |-> t.cache[slot].parent, child |-> child,
           base |-> At(t.bases, child),
           extra |-> IF ~At(t.linkFlags, child) THEN InvalidExtra
                     ELSE At(t.extras, Rank1(t.linkFlags, child))]
     ELSE [parent |-> Unused, child |-> Unused, base |-> 0, extra |-> 0]]

\* Mutant: the last level reports the tail that was asked for.
BuiltConfigAsked ==
  IF trieId = Len(tries)
  THEN [numTries |-> 1, tailMode |-> config.tailMode, nodeOrder |-> config.nodeOrder]
  ELSE [tries[trieId + 1].config EXCEPT !.numTries = @ + 1]

\* config_ of a level, from the level below or the tail.
BuiltConfig ==
  IF trieId = Len(tries)
  THEN [numTries |-> 1, tailMode |-> TailMode(tail), nodeOrder |-> config.nodeOrder]
  ELSE [tries[trieId + 1].config EXCEPT !.numTries = @ + 1]

\* The rest of build_trie on one level, innermost first.
LinkLevel ==
  /\ pc = "link"
  /\ LET t == tries[trieId]
         linked == [t EXCEPT !.config = BuiltConfig, !.bases = LinkedBases(t),
                             !.extras = [i \in DOMAIN nextTerminals |->
                                           LinkExtra(nextTerminals[i])]]
     IN  /\ tries' = [tries EXCEPT ![trieId] = [linked EXCEPT !.cache = FilledCache(linked)]]
         /\ nextTerminals' = t.terminals
  /\ trieId' = trieId - 1
  /\ pc' = IF trieId = 1 THEN "number" ELSE "link"
  /\ UNCHANGED <<config, keyset, trieVars, input, keys, queue, wRanges, nodeId, nextKeys,
                 terminals, tail, terminalFlags, ids>>

\* Mutant: the terminal itself is counted.
IdOfTerminalInclusive(flags, n) == Rank1(flags, n + 1)

\* The id of the key that ends at a terminal node.
IdOfTerminal(flags, n) == Rank1(flags, n)

\* build_: mark the terminals of level 1, and give each key the number of
\* terminals before its own as id.
NumberKeys ==
  /\ pc = "number"
  /\ terminalFlags' = [i \in 1 .. Len(tries[1].bases) + 1 |->
                         \E k \in DOMAIN nextTerminals : nextTerminals[k] = i - 1]
  /\ ids' = [k \in DOMAIN nextTerminals |-> IdOfTerminal(terminalFlags', nextTerminals[k])]
  /\ pc' = "done"
  /\ UNCHANGED <<config, keyset, trieVars, levelVars, tries, nextTerminals, tail>>

NextBuild ==
  \/ BuildLevel \/ BuildNextTrie \/ BuildTail \/ SkipNextTrie
  \/ LinkLevel \/ NumberKeys

SpecBuild == InitBuild /\ [][NextBuild]_buildVars

---------------------------------------------------------------------------
LinkOf(l, n) ==
  At(tries[l].bases, n) +
    At(tries[l].extras, Rank1(tries[l].linkFlags, n)) * LabelSize

Parent(l, n) == Select1(tries[l].louds, n) - n - 1

NodesOf(l) == 0 .. Len(tries[l].bases) - 1

Places == UNION {{l} \X NodesOf(l) : l \in DOMAIN tries}

\* What the levels below level 1 store, without any cache: the characters
\* from node n of level l up to the top, which is the order of the text.
Up[place \in Places] ==
  LET l == place[1]  n == place[2] IN
  (IF ~At(tries[l].linkFlags, n) THEN <<At(tries[l].bases, n)>>
   ELSE IF l = Len(tries) THEN TailRestore(tail, LinkOf(l, n))
   ELSE Up[<<l + 1, LinkOf(l, n)>>])
  \o (IF l = 1 \/ n <= tries[l].numL1Nodes THEN <<>> ELSE Up[<<l, Parent(l, n)>>])

\* The string of a link that is stored on level l.
LinkText(l, link) ==
  IF l = Len(tries) THEN TailRestore(tail, link) ELSE Up[<<l + 1, link>>]

\* The string from the root of level 1 to a node.
Down[n \in NodesOf(1)] == IF n = 0 THEN <<>> ELSE Down[Parent(1, n)] \o Up[<<1, n>>]

NodeOf(id) == Select1(terminalFlags, id)

Done == pc = "done"

BuildTypeOK ==
  /\ pc \in {"begin", "take", "push", "built", "link", "number", "done"}
  /\ keyset \in NewKeys
  /\ trieId \in 0 .. config.numTries
  /\ Len(tries) <= config.numTries
  /\ \A l \in DOMAIN tries : tries[l].bases \in Strings /\ tries[l].extras \in Seq(Nat)
  /\ nextTerminals \in Seq(Nat)
  /\ tail.buf \in Strings
  /\ terminalFlags \in Seq(BOOLEAN)
  /\ ids \in Seq(Nat)

\* The levels, the tail and the terminal flags together hold the keyset: the
\* node an id selects spells the key the id was given to, through links that
\* alternate between forward and reversed levels and suffixes shared in the
\* tail.
TrieHoldsKeyset ==
  Done => \A k \in DOMAIN keyset : Down[NodeOf(ids[k])] = keyset[k].str

\* Ids number the distinct keys from 0, and a key is numbered before every
\* key it is a prefix of (nodes are numbered level by level).
IdsNumberKeys ==
  Done =>
    /\ {ids[k] : k \in DOMAIN keyset} =
         0 .. Cardinality({keyset[k].str : k \in DOMAIN keyset}) - 1
    /\ \A j, k \in DOMAIN keyset :
         IsPrefix(keyset[j].str, keyset[k].str) => ids[j] <= ids[k]

\* A cache entry replaces the walk from its parent to its child, or from the
\* child up: read the way find_child and restore_ read it, as a link unless
\* its extra is MARISA_INVALID_EXTRA, it gives the label of the child.
CachedLabel(l, entry) ==
  IF entry.extra # InvalidExtra THEN LinkText(l, entry.base + entry.extra * LabelSize)
                                ELSE <<entry.base>>

CachesGiveLabels ==
  Done =>
    \A l \in DOMAIN tries : \A slot \in DOMAIN tries[l].cache :
      LET entry == tries[l].cache[slot] IN
      entry.child # Unused =>
        /\ entry.parent = Parent(l, entry.child)
        /\ CachedLabel(l, entry) =
             IF At(tries[l].linkFlags, entry.child)
             THEN LinkText(l, LinkOf(l, entry.child)) ELSE <<At(tries[l].bases, entry.child)>>

\* A trie file does not say how many levels it has: map_ and read_ go on to
\* another level where there are links and no tail.  That is so exactly for
\* the levels that have one below them.
NestingInferred ==
  Done =>
    \A l \in DOMAIN tries :
      (NumOnes(tries[l].linkFlags) # 0 /\ ~(l = Len(tries) /\ tail.buf # <<>>))
        <=> l < Len(tries)

\* What num_tries, tail_mode and node_order answer of a trie is what was
\* built, not what was asked for: there are fewer levels when the links run
\* out, a text tail turns binary for a '\0' in a link, and a binary tail of no
\* entries is a text tail.
LevelsReportBuild ==
  Done =>
    /\ \A l \in DOMAIN tries :
         tries[l].config = [numTries |-> Len(tries) - l + 1,
                            tailMode |-> TailMode(tail), nodeOrder |-> config.nodeOrder]
    /\ LET last == Len(tries)
           links == {LinkText(last, LinkOf(last, n)) :
                       n \in {m \in 0 .. Len(tries[last].bases) - 1 :
                               At(tries[last].linkFlags, m)}}
       IN  TailMode(tail) = "binary" <=>
             /\ links # {}
             /\ config.tailMode = "binary" \/ \E str \in links : NUL \in Range(str)

===========================================================================
