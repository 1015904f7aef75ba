------------------------------- MODULE Keyset ------------------------------
(***************************************************************************)
(* marisa::Keyset: keys are copied into blocks of characters, small ones   *)
(* side by side in base blocks and a large one in an extra block of its    *)
(* own; the Key objects lie in key blocks.  The arrays of blocks double    *)
(* when full.  reset forgets the keys and keeps the blocks.  Any           *)
(* allocation may throw.                                                   *)
(***************************************************************************)
EXTENDS Integers, Sequences, SequencesExt

CONSTANTS
  BaseBlockSize, ExtraBlockSize, KeyBlockSize,  \* 4096, 1024, 256
  Keysets, Strings, Weights, Marker,
  MaxBlocks,  \* bound: blocks of characters ever allocated
  MaxSteps    \* bound: operations

ASSUME BlockSizesAssumption ==
  /\ KeyBlockSize \in Nat \ {0}
  /\ ExtraBlockSize \in Nat /\ BaseBlockSize \in Nat /\ ExtraBlockSize <= BaseBlockSize

ASSUME StringsAssumption == \A str \in Strings : str \in Seq(Range(str))

ASSUME MaxBlocksAssumption == MaxBlocks \in Nat

VARIABLES
  keysets,  \* the members of each Keyset
  heap,     \* the characters of every block, <<>> once it is deleted
  pushed,   \* what was pushed since the keyset was last emptied
  steps     \* operations so far

keysetVars == <<keysets, heap, pushed, steps>>

Null == 0            \* a block that is not allocated
Garbage == "garbage" \* what new char[] finds in the memory

EmptyKeyset ==
  [base |-> <<>>, baseSize |-> 0, extra |-> <<>>, extraSize |-> 0,
   keyBlocks |-> <<>>, keySize |-> 0, block |-> Null, ptr |-> 0, avail |-> 0,
   size |-> 0, totalLength |-> 0]

NoKey == [block |-> Null, at |-> 0, length |-> 0, union |-> 0]

---------------------------------------------------------------------------
\* Mutant: the new array does not get the last of the old blocks.
GrowLosingLast(blocks, used, none) ==
  IF used # Len(blocks) THEN blocks
  ELSE SubSeq(blocks, 1, used - 1) \o [i \in 1 .. (IF used = 0 THEN 1 ELSE used + 1) |-> none]

\* The array of blocks has room for one more: it doubles when it is full.
Grow(blocks, used, none) ==
  IF used # Len(blocks) THEN blocks
  ELSE blocks \o [i \in 1 .. (IF used = 0 THEN 1 ELSE used) |-> none]

\* append_key_block.
WithKeyBlock(r) ==
  [r EXCEPT !.keyBlocks = [Grow(@, r.keySize, <<>>) EXCEPT ![r.keySize + 1] =
                             [i \in 1 .. KeyBlockSize |-> NoKey]],
            !.keySize = @ + 1]

\* append_base_block: a block that a reset left is used again.
NeedsBaseBlock(r) == Grow(r.base, r.baseSize, Null)[r.baseSize + 1] = Null

WithBaseBlock(r, new) ==
  LET blocks == Grow(r.base, r.baseSize, Null)
      block == IF NeedsBaseBlock(r) THEN new ELSE blocks[r.baseSize + 1]
  IN  [r EXCEPT !.base = [blocks EXCEPT ![r.baseSize + 1] = block],
                !.baseSize = @ + 1,
                !.block = block, !.ptr = 0, !.avail = BaseBlockSize]

\* append_extra_block: a block that a reset left is deleted.
WithExtraBlock(r, new) ==
  [r EXCEPT !.extra = [Grow(@, r.extraSize, Null) EXCEPT ![r.extraSize + 1] = new],
            !.extraSize = @ + 1]

ReplacedExtra(r) == Grow(r.extra, r.extraSize, Null)[r.extraSize + 1]

NeedsKeyBlock(r) == r.size \div KeyBlockSize = r.keySize
KeyReady(r) == IF NeedsKeyBlock(r) THEN WithKeyBlock(r) ELSE r

NewBlock == Len(heap) + 1
Allocated(n) == Append(heap, [i \in 1 .. n |-> Garbage])

\* Mutant: the block that is filled is left with what it had available.
ReserveStale(r, n) ==
  IF n > ExtraBlockSize
  THEN [r |-> WithExtraBlock(r, NewBlock), block |-> NewBlock, at |-> 0,
        heap |-> IF ReplacedExtra(r) = Null THEN Allocated(n)
                 ELSE [Allocated(n) EXCEPT ![ReplacedExtra(r)] = <<>>]]
  ELSE LET s == IF n > r.avail THEN WithBaseBlock(r, NewBlock) ELSE r
       IN  [r |-> [s EXCEPT !.avail = @ - n], block |-> s.block, at |-> s.ptr,
            heap |-> IF n > r.avail /\ NeedsBaseBlock(r) THEN Allocated(BaseBlockSize) ELSE heap]

\* reserve: where n characters go, with the keyset and the heap afterwards.
Reserve(r, n) ==
  IF n > ExtraBlockSize
  THEN [r |-> WithExtraBlock(r, NewBlock), block |-> NewBlock, at |-> 0,
        heap |-> IF ReplacedExtra(r) = Null THEN Allocated(n)
                 ELSE [Allocated(n) EXCEPT ![ReplacedExtra(r)] = <<>>]]
  ELSE LET s == IF n > r.avail THEN WithBaseBlock(r, NewBlock) ELSE r
       IN  [r |-> [s EXCEPT !.ptr = @ + n, !.avail = @ - n], block |-> s.block, at |-> s.ptr,
            heap |-> IF n > r.avail /\ NeedsBaseBlock(r) THEN Allocated(BaseBlockSize) ELSE heap]

\* memcpy; nothing is copied to or from a null pointer.
Copied(blocks, block, at, chars) ==
  IF chars = <<>> THEN blocks
  ELSE [blocks EXCEPT ![block] =
          SubSeq(@, 1, at) \o chars \o SubSeq(@, at + Len(chars) + 1, Len(@))]

\* operator[], with i from 0, and str.
KeyAt(r, i) == r.keyBlocks[i \div KeyBlockSize + 1][(i % KeyBlockSize) + 1]

StrOf(key) ==
  IF key.length = 0 THEN <<>> ELSE SubSeq(heap[key.block], key.at + 1, key.at + key.length)

---------------------------------------------------------------------------
InitKeyset ==
  /\ keysets = [k \in Keysets |-> EmptyKeyset]
  /\ heap = <<>>
  /\ pushed = [k \in Keysets |-> <<>>]
  /\ steps = 0

\* Room for a key, its characters (with an end marker or none) and its length.
PushChars(k, str, marker, union) ==
  LET chars == str \o marker
      room == Reserve(KeyReady(keysets[k]), Len(chars))
      n == room.r.size
      key == [block |-> room.block, at |-> room.at, length |-> Len(str), union |-> union]
  IN  /\ Len(room.heap) <= MaxBlocks
      /\ heap' = Copied(room.heap, room.block, room.at, chars)
      /\ keysets' = [keysets EXCEPT ![k] =
                       [room.r EXCEPT !.keyBlocks[n \div KeyBlockSize + 1][(n % KeyBlockSize) + 1] = key,
                                      !.size = @ + 1, !.totalLength = @ + Len(str)]]
      /\ pushed' = [pushed EXCEPT ![k] =
                      Append(@, [str |-> str, marker |-> marker, union |-> union])]

\* push_back of a string with a weight.
PushString(k) ==
  \E str \in Strings, weight \in Weights : PushChars(k, str, <<>>, weight)

\* push_back of a key, with an end marker or without: a key of this keyset or of
\* another; what its union holds is copied as it is.
PushKey(k) ==
  \E j \in Keysets : \E i \in 0 .. keysets[j].size - 1 : \E marker \in {<<>>, <<Marker>>} :
    LET key == KeyAt(keysets[j], i) IN PushChars(k, StrOf(key), marker, key.union)

\* An allocation throws: for the key block, or after it for the characters; the
\* array may have grown before that.
PushFails(k) ==
  LET r == keysets[k]
      ready == KeyReady(r)
      KeyFailures ==
        IF ~NeedsKeyBlock(r) THEN {} ELSE {r, [r EXCEPT !.keyBlocks = Grow(@, r.keySize, <<>>)]}
      ExtraFailures == {ready, [ready EXCEPT !.extra = Grow(@, r.extraSize, Null)]}
      BaseFailures ==
        IF ~NeedsBaseBlock(r) THEN {} ELSE {ready, [ready EXCEPT !.base = Grow(@, r.baseSize, Null)]}
  IN  /\ \E failed \in KeyFailures \cup ExtraFailures \cup BaseFailures :
           keysets' = [keysets EXCEPT ![k] = failed]
      /\ UNCHANGED <<heap, pushed>>

\* Mutant: the block that was being filled is forgotten, not its room.
ResetKeepsAvail(k) ==
  /\ keysets' = [keysets EXCEPT ![k] =
                   [@ EXCEPT !.baseSize = 0, !.extraSize = 0, !.block = Null, !.ptr = 0,
                             !.size = 0, !.totalLength = 0]]
  /\ pushed' = [pushed EXCEPT ![k] = <<>>]
  /\ UNCHANGED heap

\* reset: key_blocks_size_ stays as it is.
Reset(k) ==
  /\ keysets' = [keysets EXCEPT ![k] =
                   [@ EXCEPT !.baseSize = 0, !.extraSize = 0, !.block = Null, !.ptr = 0,
                             !.avail = 0, !.size = 0, !.totalLength = 0]]
  /\ pushed' = [pushed EXCEPT ![k] = <<>>]
  /\ UNCHANGED heap

OwnedBlocks(r) == (Range(r.base) \cup Range(r.extra)) \ {Null}

\* clear: everything is deleted.
Clear(k) ==
  /\ heap' = [b \in DOMAIN heap |-> IF b \in OwnedBlocks(keysets[k]) THEN <<>> ELSE heap[b]]
  /\ keysets' = [keysets EXCEPT ![k] = EmptyKeyset]
  /\ pushed' = [pushed EXCEPT ![k] = <<>>]

Swap(j, k) ==
  /\ keysets' = [keysets EXCEPT ![j] = keysets[k], ![k] = keysets[j]]
  /\ pushed' = [pushed EXCEPT ![j] = pushed[k], ![k] = pushed[j]]
  /\ UNCHANGED heap

NextKeyset ==
  /\ steps < MaxSteps /\ steps' = steps + 1
  /\ \/ \E k \in Keysets : PushString(k) \/ PushKey(k) \/ PushFails(k) \/ Reset(k) \/ Clear(k)
     \/ \E j, k \in Keysets : Swap(j, k)

SpecKeyset == InitKeyset /\ [][NextKeyset]_keysetVars

---------------------------------------------------------------------------
KeysetTypeOK ==
  \A k \in Keysets :
    LET r == keysets[k] IN
    /\ r.baseSize \in 0 .. Len(r.base) /\ r.extraSize \in 0 .. Len(r.extra)
    /\ r.keySize \in 0 .. Len(r.keyBlocks)
    /\ r.size \in 0 .. r.keySize * KeyBlockSize
    /\ r.ptr + r.avail \in {0, BaseBlockSize}
    /\ OwnedBlocks(r) \subseteq DOMAIN heap

\* Every key reads as it was pushed, with its weight or id and with its end
\* marker behind it, whatever was pushed, reset, swapped or failed after it,
\* and total_length adds them up.
KeysReadBack ==
  \A k \in Keysets :
    LET r == keysets[k] IN
    /\ r.size = Len(pushed[k])
    /\ \A i \in 0 .. r.size - 1 :
         LET key == KeyAt(r, i)
             p == pushed[k][i + 1]
         IN  /\ StrOf([key EXCEPT !.length = @ + Len(p.marker)]) = p.str \o p.marker
             /\ key.length = Len(p.str) /\ key.union = p.union
    /\ r.totalLength = FoldFunction(LAMBDA p, n : Len(p.str) + n, 0, pushed[k])

\* No block is leaked, owned twice or used after it was deleted: the blocks
\* that are there are just those in the arrays of the keysets.
BlocksOwnedOnce ==
  LET Places == {<<k, "base", i>> : k \in Keysets, i \in 1 .. MaxBlocks} \cup
                {<<k, "extra", i>> : k \in Keysets, i \in 1 .. MaxBlocks}
      Holds(p, b) == p[3] \in DOMAIN keysets[p[1]][p[2]] /\ keysets[p[1]][p[2]][p[3]] = b
  IN  \A b \in DOMAIN heap :
        Cardinality({p \in Places : Holds(p, b)}) = IF heap[b] = <<>> THEN 0 ELSE 1

===========================================================================
