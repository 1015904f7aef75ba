# A TLA+ verification of marisa-trie

marisa-trie is a C++ library for static dictionaries of strings. A keyset is
built once into a *nested LOUDS trie*; the trie numbers the keys and answers
four queries through an `Agent`. This directory holds TLA+ models of its core,
the TLC configurations that check them on small instances, and TLAPS proofs.

All paths below are relative to the repository; `louds-trie.cc` stands for
`lib/marisa/grimoire/trie/louds-trie.cc`, and so on.

## 1. The system

| Component | State | Operations | Talks to |
|---|---|---|---|
| `Keyset` (keyset.cc, key.h) | blocks of characters and of keys; a key has a weight *or* an id | push_back, reset, clear, swap | read by a build, which writes the ids back |
| Level builder (`build_current_trie`) | keys, queue of ranges, LOUDS bits, bases, link flags, cache | one call per level | sorts keys; leaves the strings of link nodes to the next level |
| `LoudsTrie` (louds-trie.cc) | levels linked by `next_trie_`, `tail_`, `extras_`, `terminal_flags_`, `cache_`, `config_` | build, map, read, write, four searches | uses all of grimoire |
| `Tail` (tail.cc) | `buf_`, `end_flags_` | build, restore, match, prefix_match | holds the last level's strings |
| `Agent`, `State`, `History` | query, key, status, node, query position, key buffer, history | set_query, init_state, copies, moves, swap, clear | carries a search from one call to the next |
| `BitVector`, `FlatVector`, `Vector`, `RankIndex` | words, index blocks, owned or mapped memory | push_back, build, rank, select | storage of all of the above |
| `sort` (sort.h) | - | in-place string quicksort, counts distinct strings | called by level builder and tail |
| `Trie` handle (trie.cc) | `trie_` or null | every API call | builds or loads a temporary and swaps it in |
| `Reader`, `Writer`, `Mapper`, `Header` | file, descriptor, stream or memory | open, read, write, map, seek | save, load and mmap |
| Config (config.h) | number of tries, cache level, tail mode, node order | parse | drives a build |
| `cmdopt` (tools/cmdopt.cc) | argv as it is reordered, optind, nextchar, optnum | cmdopt_get, called until there are no more options | the command line of every tool |
| stdio/iostream wrappers, tools, bindings | - | - | clients of the handle |

The library has no threads, no messages and no timers. What is hard about it:

* **Nesting.** A node's label may be a link whose string is a path *up* another
  trie whose labels are again links, stored reversed below level 1 and forward
  again in the tail.
* **Two sources for everything.** Caches answer in place of the bit vectors,
  and a hit is taken without comparing the label.
* **Implicit numbers.** Node numbers, ids, link numbers and positions are never
  stored; they are counted from queue sizes and ranks, or counted on from the
  last one.
* **Unions.** weight/terminal, weight/link and weight/id share their bytes.
* **Searches that pause.** A search returns one key and goes on in the next
  call, while the client may change the query, use the agent for another kind
  of search, or copy, move and swap it.
* **Files.** Loading infers the nesting from the vectors, and saving is not
  atomic: a crash or a full disk leaves any prefix. Streams hold several tries.
* **Indices and packing.** rank and select add up three layers of counts and
  search between samples; packed numbers cross words of memory that nobody
  cleared.
* **Memory that is kept.** A keyset reuses its blocks after `reset`, and any
  allocation in the middle of a `push_back` may throw.

The hazards are listed in `PROJECT.json`, each with its line, and the
properties below are aimed at them.

What makes each component correct:

* level builder: every key ends at one node, nodes are strings, the path to a
  node spells it, cached edges are real;
* LoudsTrie: the levels hold the keyset, ids are a numbering of it, caches and
  vectors agree, and each search returns what a dictionary would, and returns;
* tail: `restore` gives back what was put in, whatever shares its bytes;
* agent: a continued search is not disturbed by what happened around it, and
  the key of an agent reads as what was found;
* vectors: rank and select count, packed values read back;
* serialization: what is written is what is read, and a strict prefix of it is
  refused; handle: all or nothing;
* keyset: keys keep their characters, and no block has two owners;
* sort: sorted, counted, within the strings and within the stack, and it ends;
* cmdopt: the options and operands it returns while it reorders argv are the
  ones that were typed.

## 2. Modules

    BitVectors     SortedStrings
         \          /      \
       BuildCurrentTrie   TailBuffer
              \            /
               TrieBuild
                   |
               TrieSearch  --- implements --->  Dictionary

    BitVectors                                  SortedStrings
         |                                           |
    BitVectorIndex   FlatVector                 StringSort
              \       /
             LevelStorage

    Config
       |
    TrieFile  --- implements --->  TrieStore

    CmdOpt, AgentKey, Keyset (on their own)

    TrieBuild <- TrieBuildProofs, which also has BuildCurrentTrie's theorems;
    M <- MProofs for the other M that have some; ProofLemmas under them

**BitVectors** has the answers of `BitVector`: access, rank, select. Bits are
sequences of Booleans, positions count from 0 as in the code (`At`).

**SortedStrings** has the order of `algorithm::sort`. Quicksort is unstable,
so `SortedOrders` is the set of permutations it may return, and a build picks
any of them. `StringSort` shows that the quicksort does return one.

**BuildCurrentTrie** is `LoudsTrie::build_current_trie`, for any level.
`Begin` is lines 326-341 (numbering, sort, reserve_cache, super root and
root), `TakeRange` the head of the queue loop (342-380: node number, ended
keys, grouping into `w_ranges`, weight order, `num_l1_nodes_`), `PushChild` one
turn of the child loop (382-417: extension, `cache<T>`, label or link, push),
`CloseNode` the zero that ends a node's children, `Finish` lines 421-426 with
`build_terminals`. Between two actions no other code runs; the steps are there
so that the invariants speak of the middle of the algorithm. `Key` and
`ReverseKey` instantiate one template: a key's `str` is in the order that
`operator[]` reads, and `trieId` chooses between the two versions of `cache<T>`
and of `reserve_cache`. The union of weight and terminal is a tagged value, so
reading the wrong member is visible.

**TailBuffer** is `Tail`: building with suffix sharing, switching to a binary
tail, `restore`, `match` and `prefix_match`, as operators.

**TrieBuild** is `build_`, `build_trie` and `build_next_trie`. `BuildLevel` is
a step of the level at hand; `BuildNextTrie`, `BuildTail` and `SkipNextTrie`
descend; `LinkLevel` is the rest of `build_trie` on the way back (config,
bases, extras, `fill_cache`), innermost first; `NumberKeys` sets the terminal
flags and the ids. The recursion of the code becomes the sequence `tries`.

**TrieSearch** is the four searches. A call starts (`StartLookup`, ...), takes
one step per `find_child`, per node up or per turn of the loop of
`predictive_search`, and ends by setting `answer`. `FindChild` and the
operators under it are the code's, cache first. `restore_`, `match_` and
`prefix_match_` are recursive functions over level and node. The agent's
`State` is kept between calls as in the code: `set_query` resets only its status.

**Dictionary** is the promise: a set of strings, a numbering in which prefixes
come first, lookup by string and by id, prefixes by length, extensions with a
key before those it begins, in label order where the trie is built so; each
once, and nothing after the end until the client changes its query or kind of
search. It knows no nodes, links or caches. `TrieSearch!ImplementsDictionary`
is the refinement: content is the keyset's strings, `idOf` the ids written to
the keyset, the search in progress is read off the status code.

**AgentKey** is about memory: where an agent's key points while agents search,
are copied (`UpdateAgentAfterCopyingState`), moved, swapped and cleared. What a
search finds is left open, and so is whether a growing buffer moves.

**ProofLemmas** has what the proofs share (least elements, order-preserving
counting, division, functions defined by recursion, the order of strings); each module
**`...Proofs`** proves theorems of the module in its name (section 4).

**BitVectorIndex** is the code under `BitVectors`. `PushBack` is `push_back`;
`BeginIndex`, one `IndexUnit` per unit and `FinishIndex` are `build_index`,
with the counts of a group, of a block and the closing of ranks that no unit
reached; `RelModulus` gives each `rel` its width (7, 8 or 9 bits). `Rank1Of` and
`SelectOf` are `rank1`, `select0` and `select1`: samples, linear or bisecting
search for the block, the tree over its `rel`s, and `SelectBit` inside a
group. `unitsPerGroup` is 1 for a 64-bit build and 2 for a 32-bit one, whose
unsigned difference at the last group `UnitZeros` keeps. A unit is the set of
its ones, so `popcount` is a cardinality.

**FlatVector** packs numbers into words, each bit 0, 1 or `Unset` (whatever the
allocation had). `BuildFlat` is the head of `build_`, `SetValue` one turn of
its loop, `FinishFlat` what follows. **LevelStorage** puts both together as
`build_trie` does: a link per flag that is set, its low part in `bases_`, the
rest in `extras_`, joined by `get_link` through `rank1`.

**StringSort** is `algorithm::sort`. The recursion is the stack `work` with
each call's level; the actions are a comparison or a swap of `sort_`
(`ScanLeft`, `ScanRight`, `GatherLeft`, `GatherRight`), the calls it makes
(`Split`) and the insertion sort of short ranges (`Insert`).

**Keyset** is `marisa::Keyset` over a heap of blocks. `PushString` and
`PushKey` are the three `push_back`s with their copies (`PushKey` also for a
key of the same keyset), `PushFails` is any of them when an allocation throws,
which leaves the arrays grown and the counts as they were; `Reset`, `Clear`
and `Swap` are what they are called. Block and array sizes are constants; the
heap's cells are garbage until they are written.

**Config** has the flags as numbers, since a file stores them and `read_`
parses them again. **TrieFile** is the `Trie` handle with its files. `Save`,
`Write` and the `WritePart`s after them are `save` and `write`: one action per
`Writer` call, `WriteFails` and `Crash` between any two cells. `Load` stands
for `load`, `mmap` and `map` of a file, `Read` for the descriptor, FILE and
stream forms, which continue where the last one stopped. Reading goes into a
temporary that is swapped in at its end, so it is one action; `ReadLevels`
takes the cells apart in the order of `read_` and `map_`, with every check that
throws, and infers the nesting (`HasNext`). **TrieStore** is the promise: a
file is a sequence of whole tries and perhaps one that is not complete, a
handle has a trie or none. `TrieFile!FileImplementsStore` is the refinement:
`stored` is what was completely written, `partial` says that a write is under
way or was cut short.

**CmdOpt** is `cmdopt_get`, a pass of its loop per action: `Shift` moves an
operand behind the rest of argv, `BeginOption`, `ShortOption`, `LongOption`,
`EndOfWord`, `EndOfArguments` and `EndOfOptions` are its branches. A tool
calls it until the options are at an end or one of them is wrong (':' or '?').

`MC...` modules give inputs for TLC. Operators marked `Mutant` are plausible
bugs; `PROJECT.json` pairs every checked property with one that breaks it.

## 3. What TLC checks

| Run | Bounds | Shows |
|---|---|---|
| `build_level` | 2 labels, cache shift 1, every sequence of up to 3 keys of up to 3 characters (with duplicates and the empty key) on level 1 in both node orders, of 2 to 3 characters on level 2; weights 1, 2, 0 | `PendingKeysOnce`, `RangesHoldExtensions`, `TerminalsIdentifyKeys`, `PathsSpellKeys`, `CacheHitsAreChildren` |
| `build_trie` | every set of up to 3 keys of up to 3 characters, 1, 2 and 3 levels, both tail modes, both orders | `TrieHoldsKeyset`, `IdsNumberKeys`, `CachesGiveLabels`, `LevelsReportBuild`, `NestingInferred` |
| `search` | 4 keysets in 3 configs, all queries of up to 3 characters and all ids, 4 changes of query or search (`MaxChanges`), unbounded continued calls | `ImplementsDictionary`, `HistoryFollowsLevels` |
| `search_returns` | the same keysets, queries of up to 2 characters, 2 changes | `CallsReturn` |
| `agent_keys` | 2 agents, 2 strings, 3 blocks | `PredictiveKeysRead`, one owner per block |
| `agent_repointing` | the same | a violation, see below |
| `level_storage` | groups of 4 bits (blocks of 32), bytes of 2; 10 patterns in 12 lengths up to 163 bits, with and without the select indices, 64-bit and 32-bit builds; 3 link tables | `RanksCount`, `SelectsFind`, `PackedValuesRead`, `NoMemoryLeaks`, `LinksRead` |
| `trie_file` | 2 handles, a trie of one level and one of two, cells of 4 bytes padded to 2, up to 2 tries in the file (`MaxStored`), a crash or failed write after any cell | `FileReadsBack`, `IoSizeIsWritten`, `StreamAtNextTrie`, `FileImplementsStore` |
| `keyset` | 2 keysets (symmetric), blocks of 3, 2 and 2, keys of 0, 1 and 2 characters, 4 blocks (`MaxBlocks`), 6 operations (`MaxSteps`) | `KeysReadBack`, `BlocksOwnedOnce` |
| `string_sort` | threshold 2; every input of up to 5 of 5 strings, and inputs of 8 to 13 strings of 3 characters | `SortsAndCounts`, `CallsSharePrefix`, `StackIsLogarithmic`, `SortTerminates` |
| `command_line` | every line of up to 3 of 15 words and of 4 of 5; 3 short options, 3 long ones | `OperandsInOrder`, `OptionsAsGiven` |
| `command_line_prefix` | every line of up to 3 of 4 words | a violation, see below |

Why the bounds are enough. Two labels make siblings, prefixes, common
suffixes, `'\0'` (label 0) and cache collisions: with 2 to 4 slots instead of
256, collisions between parents and replaced entries happen in most builds. A
third key is needed for a group with two members beside another group; three
characters give a link below a link. The keysets of `search` are picked so
that links nest three deep, tails share suffixes, and siblings mix links and
labels. `MaxChanges` 4 covers a search that is dropped for another one, resumed
under a new query and mixed with lookups. Only the number of changes is
bounded: steps of a call and continued calls are not. Three blocks are one per agent and one to move to or copy into.
`InvalidExtra` is set above every offset of the small instances.

The lengths of `level_storage` lie around the end of a unit, a group and a
block; six blocks are enough for several samples of select, for blocks
without ones or zeros between two of them, for the bisecting search
(`LinearBlocks` is 1 where the code has 10) and for a last block that is filled
in part. The tries of `trie_file` have vectors of odd and even lengths, empty
ones, and one level that has another below it; two in a file are what a read
can leave in the wrong place. Six operations of `keyset` reach a `reset` of a
keyset with base, extra and key blocks and two keys after it; a second
keyset is needed for `swap` and for copies. A threshold of 2 makes the
quicksort partition ranges that it would leave to the insertion sort, and 8 to
13 strings give calls three levels deep, where equal labels gather at both
ends. Three words of a command line are an option, its argument and an
operand in every order; four are needed for an operand on each side of `--`.

The builds are deterministic but for the sort, so these runs stop when the
trie is done, and the searches stop when the client has used up its changes
and ended its search: their configurations say `CHECK_DEADLOCK FALSE`. So do
those of `level_storage`, `string_sort` and `command_line`, which stop when
they are built, sorted and parsed, and of `keyset`, which stops at its bound.
`agent_keys` and `trie_file` never stop and are checked for deadlock.

**Fairness.** `search_returns` assumes weak fairness of `Running`, the steps of
a call that has started, and `string_sort` of `NextSort`. Both are plain loops
in the caller's thread, so they take their next step. Nothing is assumed of the
client, who may never call again.

**Findings.** `agent_repointing` shows that the comment in `agent.cc:25-26` ("In
other states, they key is either null, or points to the query, so we do not
need to repoint it.") is not what the code does. `reverse_lookup` puts its key
in the State's buffer (`louds-trie.cc:96`) and leaves the status
`MARISA_READY_TO_ALL` (`state.h:83`). An agent copied or assigned afterwards has
a key in the other State's buffer, which dangles when that State goes away.
`PredictiveKeysRead` holds: for the predictive search the repointing works.

`command_line_prefix` shows that `cmdopt_match_len`, which "Returns a negative
value in case of a perfect match." (`cmdopt.cc:109`), takes every prefix of a
long option for one: its loop ends at the end of what was typed, and nothing
looks whether the option's name ends there. The first option with the prefix
wins, and the code after it that finds the longest match and refuses when
"There are other candidates." (`cmdopt.cc:138-140`) is never effective.
`OptionsAsGiven` has the code's rule: the first option whose name begins with
what was typed.

## 4. What TLAPS proves

### One level

`TrieBuildProofs` proves, for every set of inputs, number of labels,
cache shift and level, under the assumptions that `BuildCurrentTrie` states
(`LabelSize` is a power of two, the code's 256; inputs are sequences of strings
over the labels with natural weights, at a cache level to divide by; the shift
is a number):

* `TypeCorrect`: `Spec => []TypeOK`;
* `KeysPendOnce`: `Spec => []PendingKeysOnce`;
* `RangesAreSubtrees`: `Spec => []RangesHoldExtensions`;
* `TerminalsAreKeys`: `Spec => []TerminalsIdentifyKeys`;
* `PathsAlwaysSpell`: `Spec => []PathsSpellKeys`;
* `CacheAlwaysHits`: `Spec => []CacheHitsAreChildren`.

None of these is inductive. `Invariant` proves `Spec => []IInv`, whose parts
lean on each other:

* the keys are sorted and are the input, permuted by their ids (`SortedKeys`,
  `KeysOfInput`);
* pending ranges are within the array and hold exactly the keys that extend
  their node's string (`RangesInBounds`, `RangesExtend`);
* a key is in one pending range or has ended, never both (`KeysOnce`);
* the queue and `link_flags_` determine the next node number (`NodesCounted`);
* keys that ended have numbers of expanded nodes, equal just for equal strings
  (`EndedKeys`).

The argument: in a sorted range of keys that share n characters, those of
length n come first (`AliveKeys`) and the next characters of the others never
go down (`CharsGoUp`); hence the groups partition the range and each next
character has one group (`GroupFacts`, `GroupsPartition`), whatever the order
they are pushed in (`ChildRangesFacts`). Extending a child keeps its keys'
characters equal (`ChildKeyPosFacts`). So each group is again a range of that
kind (`SplitRange`). A node number is new when it is used, because the queue
shrinks as it is taken, so keys that end later never share it. `ProofLemmas`
has the facts about `Min`, which the code's loops are written with.

`PathInvariant` ties the vectors to that numbering (`PathIInv`). The LOUDS has a
one for every node and a zero for every node closed, after the super root's
(`LoudsCounted`), so the one that `PushChild` appends is the number of the new
node and the zeros before it are the number of its parent (`PushedNodeFacts`);
bits at the end move neither the ones nor the ranks before them (`OneStays`,
`RankAppend`), so no node changes its parent or label. Parents have smaller
numbers (`ParentsBefore`), hence the equation that defines `PathTo` has one
solution (`PathToWalks`), and the invariant may speak of any function that
solves it (`PathsSpelled`): a child's path is its parent's, which its range was
spelled by, followed by its label (`PushPaths`).

`CacheInvariant` adds what the cache holds (`CacheIInv`): an entry's child is a
node, its parent is that node's parent and its slot is the one they hash to,
and on level 1 there are a multiple of `LabelSize` slots, which is what
`reserve_cache` ends with (`CacheSizeIs`). A lookup compares no label, and need
not: an exclusive or with numbers of m bits tells them apart in its last m bits
(`XorSeparates`), so the labels of one parent have slots of their own
(`SlotsTellLabels`).

### All levels

`TrieBuildProofs` then proves, for any keysets and configs with at least one
level and one of the two tail modes (`BuildInputsAssumption`: what `build`
starts with, level 1 and a config that `Config` has parsed):

* `BuildTypeCorrect`: `SpecBuild => []BuildTypeOK`;
* `TrieAlwaysHolds`: `SpecBuild => []TrieHoldsKeyset`;
* `IdsAlwaysNumber`: `SpecBuild => []IdsNumberKeys`;
* `CachesAlwaysGive`: `SpecBuild => [](SizesFit => CachesGiveLabels)`;
* `LevelsAlwaysReport`: `SpecBuild => []LevelsReportBuild`;
* `NestingAlwaysInferred`: `SpecBuild => []NestingInferred`.

They follow from `BuildInvariant`: `SpecBuild => []BuildIInv`. The difficulty is
that the properties read a trie that is finished, while a level's links are
strings when it is left and get numbers only on the way back, when the levels
below have been built from those strings, reversed, sorted and with equal ones
at one node. The invariant therefore has witnesses: `b[l]`, the strings that level l passed on,
and `offs`, where the tail put its entries.

* On the way down (`Descends`), the level at hand keeps the level's own
  invariant described above, which each `StartLevel` establishes anew
  (`StartHolds`). A level that is finished holds the keys it was given provided
  that its links spell `b[l]` (`LevelHolds`): some function from nodes to strings
  walks up the vectors and spells every key at its terminal, equal keys have
  equal terminals, and prefixes come no later.
* At the bottom, `TailBuilt` has that the buffer gives each entry back at its
  offset, before its end (`TailHolds`). An entry that ends the one stored before
  it has no characters of its own but shares that one's, so what is proved of
  every turn (`TailStepHolds`) is that what is laid there is not written again
  and ends where a NUL or an end flag is. `EntryOrderIs` needs that the order of
  strings is total and transitive, and that a finite set of them has a first one.
* On the way back (`Ascends`), the levels that were passed have their links at
  the places of those strings (`LevelLinked`, `PlacesOf`): the terminals of the
  level below, or the offsets; `LinkIn` puts base and extra together again. Cache
  entries have what their child has (`CacheFilled`).

At the end, what `Up` reads from the place of a link on the level below is the
string of the link in the order of the text, for that level spells it backwards
from its root (`UpIs`), and `Down` spells the keys of level 1 (`DownIs`).
That the models' recursive functions have these values is by a least
counterexample: a node goes to a smaller node or to a deeper level. Ids are ranks of terminals, and ranks of nodes with a key number
them in order, from 0 and without gaps.

`CachesGiveLabels` needs `SizesFit`: no level has more nodes, nor the tail more
characters, than `InvalidExtra * LabelSize`, which is 2^32 - 256. The extra of a
cached link is otherwise `MARISA_INVALID_EXTRA` itself and the entry reads as a
label. The code refuses a tail only from 2^32 characters on (`tail.cc:193`), so
the last 255 admitted sizes are outside the theorem. The other five have no such
hypothesis.

### The other components

`CmdOptProofs` proves, for any options and any command line that is a sequence
of strings of characters (`CommandLinesAssumption`):

* `OperandsKeepOrder`: `SpecOpt => []OperandsInOrder`.

That what was moved is in order is not inductive: the next operand goes behind
it, so it must have been given later. `CommandLineInvariant` proves
`SpecOpt => []IOpt`, which adds `MovedGivenBefore`: everything that was moved
was given before everything that is still to be read. Both movements of the
code, one operand (`cmdopt_shift`) and all after `--`, put the m arguments after
the first k at the end of argv; `ExchangeFacts` says where each lands and
`ExchangeKeepsOrder` that the order is kept. The other steps only move `optind`,
and `FollowingArgFacts` has that an option's argument was not moved.

`AgentKeyProofs` proves, for any agents and texts and any finite memory
(`MemoryAssumption`, `FreedAssumption`):

* `BlocksKept`: `Spec => []TypeOK`;
* `PredictiveKeysAlwaysRead`: `Spec => []PredictiveKeysRead`.

The two are inductive together (`AgentInv`), not apart: a key in a buffer reads
what it should only while no other agent writes into that buffer or frees it.
Every action is one of four things that happen to an agent: it keeps its block
(`KeepsBlock`), writes its text into its block or a spare one (`WritesBlock`),
gives its State up, or takes another agent's.

`LevelStorageProofs` proves, for any bit vectors, values and link tables, units
and groups of any width, 64-bit and 32-bit builds, and any number of blocks to
look at one by one:

* `BitsAlwaysTyped`: `SpecStorage => []BitsTypeOK`;
* `RanksAlwaysCount`: `SpecStorage => []RanksCount`;
* `SelectsAlwaysFind`: `SpecStorage => []SelectsFind`;
* `PackedValuesAlwaysRead`: `SpecStorage => []PackedValuesRead`;
* `MemoryNeverLeaks`: `SpecStorage => []NoMemoryLeaks`;
* `LinksAlwaysRead`: `SpecStorage => []LinksRead`.

`StorageInv` has three parts. `BitsInv`: the units hold the bits that were
pushed, and every group before the unit at hand has its counts (`GroupCounted`),
with the groups that no unit reached closed when the index is finished;
`rank1` of a position is then the count of its block, of its group and of the
units before it. `FlatInv`: the values that are set read back (`ValuesSet`),
and a bit is 0 or 1 if it belongs to one of them or is in the last word
(`BitsSet`), which `build_` cleared; a value either lies in one word or in
two, and `set` keeps the other bits of both. `LinksInv`: so many links were taken as there are
flags behind, so the rank of a node is the number of its link; low part and
rest give the link back by division. `LinkTablesAssumption` says that the rest
is a `UInt32` and fits in a unit, as in the code.

`select` needs more of the index (`IndexInv`). `RanksFull`: at the end every
group of every block has its count, also the groups behind the last bit, and the
block after the last has all ones. `SamplesOK`: every bit whose number in its
kind is a multiple of a block is stored in the place of that multiple
(`SamplesHold`), and nothing that is stored has too small a number; the number
of samples follows the number of bits counted (`SoManySamples`). In a 32-bit build
a unit may lie behind the bits and its zeros are counted or not, so beyond the
end only the bounds hold. Ones and zeros are then one argument about a set of
places: a number is less than another just if its place is (`NumberTells`), so
each comparison of a count tells on which side the place is. The samples
at a number and after it are on either side of the place (`SamplesAround`), so
are the blocks they lie in (`BlockEnds`), and both searches end at the block of
the place (`LinearFinds`, `HalvingFinds`); three comparisons find its group
(`GroupOfFinds`), and `SelectBitFinds` its byte and bit.

`StringSortProofs` proves, for any threshold and any sequences of strings whose
characters are naturals (`SortInputsAssumption`: `std::uint8_t`, so the end of
a string, -1, is before them all):

* `AlwaysSortsAndCounts`: `SpecSort => []SortsAndCounts`;
* `PrefixesAlwaysShared`: `SpecSort => []CallsSharePrefix`;
* `StackAlwaysLogarithmic`: `SpecSort => []StackIsLogarithmic`.

`SortInv` says what is true in the middle of it: two strings that no pending
call has both of are in order (`Ordered`), and differ if one of them is in a
call (`Distinguished`); those of a call agree up to its depth (`Prefixed`); the
labels on either side of the marks compare with the pivot (`Partitioned`);
what the insertion has passed is sorted (`Inserted`); the count is the number
of distinct strings that no call has, or that the insertion has passed
(`Counted`). A swap or an insertion permutes the strings of the first call and
leaves those relations of the others alone. The three parts of a split have
fewer, equal and greater next characters, which orders them and makes a string
of one differ from those of the others, and the two that are called are at most half of the range
(`Halved`).

`KeysetProofs` proves, for any number of keysets, blocks of any sizes
(`BlockSizesAssumption`: an extra block's threshold is no more than a base
block) and any sequences of characters (`StringsAssumption`), up to any bound of
the heap (`MaxBlocksAssumption`):

* `KeysetTypeCorrect`: `SpecKeyset => []KeysetTypeOK`;
* `KeysAlwaysReadBack`: `SpecKeyset => []KeysReadBack`;
* `BlocksAlwaysOwnedOnce`: `SpecKeyset => []BlocksOwnedOnce`.

`KeysetInv` speaks of the places of blocks, keyset by keyset and array by array:
a place that is not empty has a block that is there and in no other place, and
every block that is there has a place (`Owns`). The arrays fill from their
start, a base block keeps its length, and the block that is being filled is the
last one in use (`ArraysOK`, `BaseFull`). Every key lies in a block in use, and
before `ptr_` if that is the one being filled (`KeyHeld`). `reserve` gives room
beyond `ptr_`, in a base block that a `reset` left or in a block past the heap's
end (`Reserved`), so what is copied there changes no key (`Kept`,
`KeysStayHeld`), and the extra block it deletes was not in use. The sizes of the
arrays play no part: an array that has grown holds the same blocks in the same
places (`RoomIn`). A key copied from a keyset reads as what was pushed there, so
`PushKey` is a push of characters like any other. That the place of a block lies
within the heap's bound, which `BlocksOwnedOnce` counts up to, is a pigeonhole:
the slots before it hold as many blocks (`SlotBounded`).

`TrieFileProofs` proves, for any number of handles, any tries, any width of the
alignment and any header:

* `FileTypeCorrect`: `SpecFile => []FileTypeOK`;
* `FilesReadBack`: `SpecFile => []FileReadsBack`;
* `StreamsAtNextTrie`: `SpecFile => []StreamAtNextTrie`;
* `IoSizeCorrect`: `SpecFile => []IoSizeIsWritten`;
* `FilesImplementStore`: `SpecFile => FileImplementsStore`, the refinement of
  `TrieStore`.

`CellsAssumption` says that there is a handle, that the alignment is not zero
and that the header and the cells are numbers. `TriesAssumption` says what
`LoudsTrie` builds: at least one level, vectors of whole objects, single words
that reading accepts (`flags` that `Config` parses to themselves, no more ones
than bits) and a next level just where reading infers one, which `TrieBuild`
checks as `NestingInferred`. Without it the theorems are false: a level whose
links are empty is read as the last one.

`FileInv` is `FileTypeOK` and `FileState`, which is about where the parts of
tries lie. `Laid(cells, a, parts, b)` says that nothing in the file contradicts
the parts lying one after the other from a to b, even where the file ends before
b. There are positions e such that each complete trie is laid from e[k - 1] to
e[k] (`FileHolds`); behind the last e lies nothing, or what a trie being written
has beside its pending parts, or, after a crash or a full disk, the start of
some trie that ends beyond the file (`EndsWith`); and the stream is at the e of
the next trie, or at the end of a file that is cut (`StreamAt`).

A trie that is laid is read back when it ends within the file and is not read
when it does not (`ReadWhole`): reading only asks for cells that writing would
have put there, one member (`HeadReadsBack`), one level and one nesting after
the other, and the last part of a trie always takes some cells (`LastCounts`),
so one that is cut lacks a cell that reading asks for. The levels below a level
lie in its middle, so this is an argument about a recursion that counts down the
levels. The positions that a run computes by reading, `EndOf`, are therefore
those e (`EndsAre`). `ReadLevels` recurses over positions, and each level takes
some, which gives the number that grows (`ReadLevelsGoesOn`). `IoSizeCorrect`
adds up the lengths of the same parts (`SumAdds`), as `io_size` does.

For the refinement, a part that is passed on is a stutter of the store, a write
that ends is the step that stores its trie, and a read is the store's read of
the next trie, or its failure.

**Recursion.** The provers have no induction over data, but some of the models'
functions are recursive where a proof needs them: `BitLength`, `Xor`, the
building and restoring of a tail, paths through a level and through all of them,
the levels of a file, the halving of blocks and the sum of the groups in a rank.
`RecursionHasSolution` (`ProofLemmas`) shows that a function defined by a step
down to a smaller number exists, with the least counterexample in place of
induction, and its recursion equation is then a fact like any other. Strings are
compared by the first place where they differ, without recursion.

Left to TLC: `CallsReturn` and `SortTerminates` (liveness, and fairness means
ENABLED); `SearchTypeOK`, `HistoryFollowsLevels` and the refinement of
`Dictionary`, which need an invariant for every point at which one of the four
searches can be in the middle of a level; `OptionsAsGiven` (its reference is a
parser by recursion over the whole line).

## 5. What is abstracted, and what is not modelled

* 32-bit widths and 8-bit labels: numbers are naturals, `LabelSize` takes the
  place of 256. The boundary `MARISA_INVALID_EXTRA` and the 4 GiB mask of
  `io_size` (`vector.h:199`) are listed as hazards; no small instance reaches
  them.
* Weights are naturals and add up exactly; weight 0 stands for `FLT_MIN`, the
  weight of an unused cache entry. The weights' only effects are the order of
  siblings and what is cached, both covered for different weights.
* Failed allocations are modelled in `Keyset`, failed writes and reads in
  `TrieFile`; elsewhere lack of memory is not, and of the exceptions for invalid
  arguments only the id out of range.
* Files: one process at a time. Saving over a file that a trie is mapped from
  (the pages under the trie change) and writing behind a trie that is cut are
  excluded by the guards of `Save` and `Write` and listed as hazards. Reading is
  atomic, for nothing of it is seen before it ends. `write(fd)` appends to what
  the file has.
* `rank1` of a vector at `i = size()`: its assertion admits it, and when the
  size is a multiple of 64 it reads the unit after the last. No caller asks it.
* `FlatVector` in a 32-bit build clears the padding word and not the last one
  with values; `NoMemoryLeaks` speaks of 64-bit builds.
* `Vector`'s reserve, growth and copies are sequences. Popcount and the SIMD
  variants of `select_bit` are pure functions of one word; the model has what
  they answer, and the byte-wise search of the portable one.
* `cmdopt`: warnings, and options that store into a variable (no tool has one).
* `cache_level` is not persisted or reported by `flags()` (see `Config!Flags`)
  and only scales the cache.
* Not modelled: the tools' main functions (loops of calls and printing) and the
  language bindings. The bindings are wrappers that SWIG generated, 24,000 of
  the 34,500 lines of implementation under `src/`, and a class whose methods
  forward to the library one by one: no state of their own. Any share of the
  lines that the models stand for is to be read against the other 10,000.

## 6. Plan

Done: level builder, nested build, searches and their dictionary, agent keys;
files and handles with their store; bit vector index, packed vectors and their
composition; keyset; string sort; command lines. Proved: the level builder's
ranges, terminals, paths and cache, the nested build with its tail, links, ids
and caches, agent keys, keysets, ranks, selects, packed values and links, the
string sort, the order of operands, files and their store.

Left, in this order:

1. The invariant of the searches: `TrieSearch` starts in the states that
   `BuildIInv` ends in, and each search is at a node whose path is what it has
   read of the query.
2. The refinement of `Dictionary` from it.
3. Inputs of `build_trie` at the `InvalidExtra` boundary.

## 7. Running

    tlasany TrieSearch.tla
    tlc -workers 2 -config MCTrieSearch.cfg MCTrieSearch
    tlapm TrieBuildProofs.tla

`PROJECT.json` lists the runs with their modules and configurations, the
mutants, and for each definition the source lines it models.
