------------------------- MODULE BuildCurrentTrie -------------------------
(***************************************************************************)
(* LoudsTrie::build_current_trie: one level of a nested LOUDS trie, built  *)
(* breadth first from an array of keys.                                    *)
(*                                                                         *)
(* The keys are sorted; a queue holds, for every node that exists and has  *)
(* not been expanded, the range of keys below it and how many of their     *)
(* characters the path to the node spells.  Expanding a node ends the keys *)
(* that stop there, splits the others by their next character and pushes   *)
(* one child per group.  A child that would have a single path below it is *)
(* merged with it: the node is a link and the merged string becomes a key  *)
(* of the next level (or of the tail).                                     *)
(*                                                                         *)
(* The same template builds every level: with Key on level 1, and with     *)
(* ReverseKey, whose operator[] counts from the end, below.  A key's str   *)
(* is in the order operator[] reads it, so the model needs one version.    *)
(* Keys and nodes: keys are elements 1 .. Len(keys), a range is            *)
(* begin .. end - 1; nodes and LOUDS positions are counted from 0.         *)
(***************************************************************************)
EXTENDS BitVectors, SortedStrings, FiniteSetsExt

CONSTANTS
  LabelSize,    \* how many character values there are: 256 in the code
  CacheShift,   \* the shift of get_cache_id: 5 in the code
  Inputs        \* what may be built: [trieId, config, keys] records

Labels == 0 .. LabelSize - 1

Strings == Seq(Labels)

NewKeys == Seq([str : Strings, weight : Nat])

ASSUME LabelSizeAssumption == LabelSize \in Nat \ {0}
ASSUME CacheShiftAssumption == CacheShift \in Nat

\* Characters are all that a number of bits may hold.
ASSUME LabelBitsAssumption == \E k \in 0 .. LabelSize : LabelSize = 2 ^ k

ASSUME InputsAssumption ==
  \A input \in Inputs :
    /\ input.trieId \in Nat \ {0} /\ input.keys \in NewKeys
    /\ input.config.cacheLevel \in Nat \ {0}

VARIABLES
  pc,           \* what the builder does next
  config,       \* [numTries, tailMode, nodeOrder, cacheLevel]
  trieId,       \* the level being built, 1 for the outermost
  input,        \* the keys the level was asked to store (not in the code)
  keys,         \* the same keys, sorted, with their ids and terminals
  queue,        \* ranges of the nodes to expand
  wRanges,      \* ranges of the children still to push
  nodeId,       \* the node being expanded
  louds, bases, linkFlags, cache, numL1Nodes,
  nextKeys,     \* the strings of the link nodes, in node order
  terminals     \* the node each key of the input ends at

trieVars == <<louds, bases, linkFlags, cache, numL1Nodes>>
levelVars == <<trieId, input, keys, queue, wRanges, nodeId, nextKeys, terminals>>
currentVars == <<pc, config, trieVars, levelVars>>

---------------------------------------------------------------------------
\* Key holds weight and terminal in a union: what was stored last is there.
Weight(w) == [kind |-> "weight", val |-> w]
\* Mutant: a node id taken after the queue is popped.
TerminalAfterPop(n) == [kind |-> "terminal", val |-> n - 1]

Terminal(n) == [kind |-> "terminal", val |-> n]

MakeKeys(new) ==
  [i \in DOMAIN new |-> [str |-> new[i].str, id |-> 0, data |-> Weight(new[i].weight)]]

MakeRange(begin, end, keyPos) == [begin |-> begin, end |-> end, keyPos |-> keyPos]

\* Mutant: level 1 starts from a single slot, as the levels below.
CacheSizeFromOne ==
  Min({s \in {2^k : k \in 0 .. Len(keys)} :
         s >= SortCount([i \in DOMAIN keys |-> keys[i].str]) \div config.cacheLevel})

\* reserve_cache: a power of two that grows with the keys, never less than
\* the number of labels on level 1.
CacheSize ==
  Min({s \in {(IF trieId = 1 THEN LabelSize ELSE 1) * 2^k : k \in 0 .. Len(keys)} :
         s >= SortCount([i \in DOMAIN keys |-> keys[i].str]) \div config.cacheLevel})

EmptyCache == [parent |-> 0, child |-> 0, weight |-> 0]

\* get_cache_id, by parent and label and by child.
CacheIdByLabel(size, node, label) ==
  Xor[<<Xor[<<node, node * 2^CacheShift>>], label>>] % size
CacheIdByChild(size, node) == node % size

\* The slot of a new child: Key caches by parent and label, for lookups that
\* go down; ReverseKey by child, for restores and matches that go up.
CacheSlot(node, child, label) ==
  IF trieId = 1 THEN CacheIdByLabel(Cardinality(DOMAIN cache), node, label)
                ELSE CacheIdByChild(Cardinality(DOMAIN cache), child)

\* cache<T>: the heaviest child keeps the slot.  Weight 0 stands for
\* FLT_MIN, which an unused entry holds.
CacheAfter(node, child, weight, label) ==
  LET slot == CacheSlot(node, child, label) IN
  IF weight > cache[slot].weight
  THEN [cache EXCEPT ![slot] = [parent |-> node, child |-> child, weight |-> weight]]
  ELSE cache

---------------------------------------------------------------------------
\* The first key of a range that does not end at its node.
FirstAlive(range) ==
  Min({i \in range.begin .. range.end - 1 : Len(keys[i].str) # range.keyPos}
        \cup {range.end})

\* Mutant: the last group is cut one key short.
GroupEndShort(begin, end, keyPos) ==
  Min({i \in begin + 1 .. end - 1 :
         keys[i - 1].str[keyPos + 1] # keys[i].str[keyPos + 1]} \cup {end - 1})

\* Where the keys from begin on change their next character.
GroupEnd(begin, end, keyPos) ==
  Min({i \in begin + 1 .. end - 1 :
         keys[i - 1].str[keyPos + 1] # keys[i].str[keyPos + 1]} \cup {end})

GroupBegins(begin, end, keyPos) ==
  {begin} \cup {i \in begin + 1 .. end - 1 :
                  keys[i - 1].str[keyPos + 1] # keys[i].str[keyPos + 1]}

GroupWeight(begin, end) ==
  MapThenSumSet(LAMBDA i : keys[i].data.val, begin .. end - 1)

\* w_ranges: one range per next character, in label order or, by a stable
\* sort, heaviest first.
Precedes(v, w) ==
  \/ config.nodeOrder = "weight" /\ v.weight > w.weight
  \/ (config.nodeOrder = "weight" => v.weight = w.weight) /\ v.begin < w.begin

ChildRanges(begin, end, keyPos) ==
  LET begins == GroupBegins(begin, end, keyPos)
      Child(b) ==
        LET e == GroupEnd(b, end, keyPos) IN
        [begin |-> b, end |-> e, keyPos |-> keyPos, weight |-> GroupWeight(b, e)]
      children == [b \in begins |-> Child(b)]
  IN  {[i \in DOMAIN order |-> children[order[i]]] :
         order \in {o \in [1 .. Cardinality(begins) -> begins] :
                      /\ \A b \in begins : \E i \in DOMAIN o : o[i] = b
                      /\ \A i, j \in DOMAIN o :
                           i < j => Precedes(children[o[i]], children[o[j]])}}

\* Mutant: only the first two keys of the range are compared.
StopsAtFirstTwo(w, k) ==
  \/ k = Len(keys[w.begin].str)
  \/ w.begin + 1 < w.end /\ keys[w.begin].str[k + 1] # keys[w.begin + 1].str[k + 1]

\* The inner loop that extends a child's key_pos: the first position where
\* its first key stops or its keys differ.
StopsAt(w, k) ==
  \/ k = Len(keys[w.begin].str)
  \/ \E j \in w.begin + 1 .. w.end - 1 :
       keys[j - 1].str[k + 1] # keys[j].str[k + 1]

ChildKeyPos(w) ==
  CHOOSE k \in w.keyPos + 1 .. Len(keys[w.begin].str) :
    /\ StopsAt(w, k)
    /\ \A q \in w.keyPos + 1 .. k - 1 : ~StopsAt(w, q)

\* Mutant: the substring starts one character late.
NextKeyLate(w, keyPos) ==
  [str |-> SubSeq(keys[w.begin].str, w.keyPos + 2, keyPos), weight |-> w.weight]

\* The string of a link node: from the group's character up to its key_pos.
NextKey(w, keyPos) ==
  [str |-> SubSeq(keys[w.begin].str, w.keyPos + 1, keyPos), weight |-> w.weight]

---------------------------------------------------------------------------
\* A level starts with its arguments and an empty LoudsTrie.
StartLevel(id, new) ==
  /\ trieId' = id
  /\ input' = new
  /\ keys' = MakeKeys(new)
  /\ queue' = <<>> /\ wRanges' = <<>> /\ nodeId' = 0
  /\ nextKeys' = <<>> /\ terminals' = <<>>
  /\ louds' = <<>> /\ bases' = <<>> /\ linkFlags' = <<>>
  /\ cache' = <<>> /\ numL1Nodes' = 0
  /\ pc' = "begin"

Init ==
  \E in \in Inputs :
    /\ trieId = in.trieId /\ config = in.config /\ input = in.keys
    /\ keys = MakeKeys(in.keys)
    /\ queue = <<>> /\ wRanges = <<>> /\ nodeId = 0
    /\ nextKeys = <<>> /\ terminals = <<>>
    /\ louds = <<>> /\ bases = <<>> /\ linkFlags = <<>>
    /\ cache = <<>> /\ numL1Nodes = 0
    /\ pc = "begin"

\* Number and sort the keys, reserve the cache, push the super root and the
\* root.
Begin ==
  /\ pc = "begin"
  /\ \E order \in SortedOrders([i \in DOMAIN keys |-> keys[i].str]) :
       keys' = [i \in DOMAIN keys |-> [keys[order[i]] EXCEPT !.id = order[i]]]
  /\ cache' = [slot \in 0 .. CacheSize - 1 |-> EmptyCache]
  /\ louds' = <<TRUE, FALSE>>
  /\ bases' = <<0>>
  /\ linkFlags' = <<FALSE>>
  /\ queue' = <<MakeRange(1, Len(keys) + 1, 0)>>
  /\ pc' = "take"
  /\ UNCHANGED <<config, trieId, input, wRanges, nodeId, nextKeys, terminals, numL1Nodes>>

\* Pop a node, end the keys that stop there and group the others.
TakeRange ==
  /\ pc = "take" /\ queue # <<>>
  /\ LET range == Head(queue)
         alive == FirstAlive(range)
     IN  /\ nodeId' = Len(linkFlags) - Len(queue)
         /\ keys' = [i \in DOMAIN keys |->
                       IF i \in range.begin .. alive - 1
                       THEN [keys[i] EXCEPT !.data = Terminal(nodeId')] ELSE keys[i]]
         /\ IF alive = range.end
            THEN wRanges' = <<>> /\ UNCHANGED numL1Nodes
            ELSE /\ wRanges' \in ChildRanges(alive, range.end, range.keyPos)
                 /\ numL1Nodes' = IF nodeId' = 0 THEN Len(wRanges') ELSE numL1Nodes
  /\ queue' = Tail(queue)
  /\ pc' = "push"
  /\ UNCHANGED <<config, trieId, input, louds, bases, linkFlags, cache, nextKeys, terminals>>

\* Push one child: its label is a character, or a link to a string that the
\* next level stores.
PushChild ==
  /\ pc = "push" /\ wRanges # <<>>
  /\ LET w == Head(wRanges)
         str == keys[w.begin].str
         keyPos == ChildKeyPos(w)
         label == str[w.keyPos + 1]
         linked == keyPos # w.keyPos + 1
     IN  /\ cache' = CacheAfter(nodeId, Len(bases), w.weight, label)
         /\ bases' = Append(bases, IF linked THEN 0 ELSE label)
         /\ linkFlags' = Append(linkFlags, linked)
         /\ nextKeys' = IF linked THEN Append(nextKeys, NextKey(w, keyPos)) ELSE nextKeys
         /\ queue' = Append(queue, MakeRange(w.begin, w.end, keyPos))
  /\ louds' = Append(louds, TRUE)
  /\ wRanges' = Tail(wRanges)
  /\ UNCHANGED <<pc, config, trieId, input, keys, nodeId, numL1Nodes, terminals>>

\* The node has no more children.
CloseNode ==
  /\ pc = "push" /\ wRanges = <<>>
  /\ louds' = Append(louds, FALSE)
  /\ pc' = "take"
  /\ UNCHANGED <<config, trieId, input, keys, queue, wRanges, nodeId, bases,
                 linkFlags, cache, numL1Nodes, nextKeys, terminals>>

\* Mutant: terminals in the order of the sorted keys.
TerminalsBySort == [i \in DOMAIN keys |-> keys[i].data.val]

\* build_terminals: back to the order the keys came in.
TerminalsByInput ==
  [k \in DOMAIN keys |-> keys[CHOOSE i \in DOMAIN keys : keys[i].id = k].data.val]

\* Every node is expanded: close the LOUDS, hand out the terminals, and leave
\* the link strings in keys for the next level.
Finish ==
  /\ pc = "take" /\ queue = <<>>
  /\ louds' = Append(louds, FALSE)
  /\ terminals' = TerminalsByInput
  /\ keys' = MakeKeys(nextKeys)
  /\ pc' = "built"
  /\ UNCHANGED <<config, trieId, input, queue, wRanges, nodeId, bases, linkFlags,
                 cache, numL1Nodes, nextKeys>>

NextCurrent == Begin \/ TakeRange \/ PushChild \/ CloseNode \/ Finish

Next == NextCurrent

Spec == Init /\ [][Next]_currentVars

---------------------------------------------------------------------------
RangeType == [begin : Nat \ {0}, end : Nat \ {0}, keyPos : Nat]

KeyType ==
  [str : Strings, id : Nat, data : [kind : {"weight", "terminal"}, val : Nat]]

\* Type correctness of one level (build_current_trie's locals and members).
\* Sums of weights only order children, so they carry no type here.
TypeOK ==
  /\ pc \in {"begin", "take", "push", "built"}
  /\ trieId \in Nat \ {0}
  /\ input \in NewKeys
  /\ pc # "built" => keys \in Seq(KeyType) /\ Len(keys) = Len(input)
  /\ queue \in Seq(RangeType)
  /\ \A i \in DOMAIN wRanges :
       MakeRange(wRanges[i].begin, wRanges[i].end, wRanges[i].keyPos) \in RangeType
  /\ nodeId \in Nat
  /\ louds \in Seq(BOOLEAN) /\ bases \in Seq(Labels) /\ linkFlags \in Seq(BOOLEAN)
  /\ Len(bases) = Len(linkFlags)
  /\ numL1Nodes \in Nat
  /\ terminals \in Seq(Nat)

\* The ranges of the nodes not expanded yet, the children being pushed last.
Pending == queue \o wRanges

Within(r) == r.begin .. r.end - 1

Building == pc \in {"take", "push"}

\* Each key is in exactly one pending range until its terminal is stored, and
\* in none afterwards: no weight is read from a key whose union already holds
\* its terminal, and no key is dropped or reaches two nodes.
PendingKeysOnce ==
  Building =>
    \A i \in DOMAIN keys :
      IF keys[i].data.kind = "weight"
      THEN \E p \in DOMAIN Pending :
             /\ i \in Within(Pending[p])
             /\ \A q \in DOMAIN Pending : i \in Within(Pending[q]) => q = p
      ELSE \A p \in DOMAIN Pending : i \notin Within(Pending[p])

\* How many characters the keys of a pending range share: a child range that
\* is not pushed yet was grouped by one character more than its key_pos.
SharedLen(p) == Pending[p].keyPos + (IF p > Len(queue) THEN 1 ELSE 0)

\* A pending range holds exactly the keys that begin with the characters its
\* node spells, however the keys were merged into links or split by the sort;
\* so key[key_pos] is never read past the end of a key.
RangesHoldExtensions ==
  Building =>
    \A p \in DOMAIN Pending : \A i \in Within(Pending[p]) :
      /\ i \in DOMAIN keys
      /\ Len(keys[i].str) >= SharedLen(p)
      /\ \A j \in DOMAIN keys :
           j \in Within(Pending[p]) <=>
             /\ Len(keys[j].str) >= SharedLen(p)
             /\ \A q \in 1 .. SharedLen(p) : keys[j].str[q] = keys[i].str[q]

\* Two keys of a level end at the same node exactly when they are equal: a
\* node identifies one string, so ids are unique and duplicates share theirs.
TerminalsIdentifyKeys ==
  pc = "built" =>
    \A i, j \in DOMAIN input :
      terminals[i] = terminals[j] <=> input[i].str = input[j].str

\* The parent of a node, as the LOUDS gives it.
ParentOf(n) == Select1(louds, n) - n - 1

\* The string that leads to a node: link nodes take theirs from the next level.
LabelOf(n) ==
  IF At(linkFlags, n) THEN At(nextKeys, Rank1(linkFlags, n)).str ELSE <<At(bases, n)>>

Nodes == 0 .. Len(linkFlags) - 1

PathTo[n \in Nodes] == IF n = 0 THEN <<>> ELSE PathTo[ParentOf(n)] \o LabelOf(n)

\* Going up the LOUDS from the node where a key ended spells the key, and the
\* node numbers that TakeRange will give to the queued ranges spell what their
\* keys share: numbering by the queue agrees with the bit vectors.
PathsSpellKeys ==
  Building =>
    /\ \A i \in DOMAIN keys :
         keys[i].data.kind = "terminal" => PathTo[keys[i].data.val] = keys[i].str
    /\ keys # <<>> =>
         \A p \in DOMAIN queue :
           PathTo[Len(linkFlags) - Len(queue) + p - 1] =
             SubSeq(keys[queue[p].begin].str, 1, queue[p].keyPos)

\* find_child takes a cache entry whose parent is the current node without
\* comparing the label, and restore_ one whose child is the current node:
\* whatever is cached, such a hit is the child with that label, or the node
\* and its parent.
CacheHitsAreChildren ==
  Building =>
    \A slot \in DOMAIN cache :
      LET entry == cache[slot] IN
      entry.child # 0 =>
        /\ ParentOf(entry.child) = entry.parent
        /\ trieId = 1 =>
             \A label \in Labels :
               CacheIdByLabel(Cardinality(DOMAIN cache), entry.parent, label) = slot
                 => LabelOf(entry.child)[1] = label
        /\ trieId # 1 => CacheIdByChild(Cardinality(DOMAIN cache), entry.child) = slot

===========================================================================
