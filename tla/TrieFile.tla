------------------------------ MODULE TrieFile -----------------------------
(***************************************************************************)
(* Trie handles and the file format: LoudsTrie::write writes a header and  *)
(* the vectors of every level, one after the other and flushed one by one, *)
(* so that a crash or a full disk leaves any prefix; read and map take it  *)
(* apart again and find out from what they have read whether another level *)
(* follows.  TrieStore is what this must amount to.                        *)
(*                                                                         *)
(* A cell stands for four bytes (an object of one byte is given a whole    *)
(* cell); vectors are padded to AlignCells.  A level is a function from    *)
(* its members (Items) to their cells.                                     *)
(***************************************************************************)
EXTENDS Config, Sequences, SequencesExt

CONSTANTS
  Handles, Tries, NoTrie,
  AlignCells,     \* 8 bytes
  HeaderCells,    \* "We love Marisa."
  MaxValueSize,   \* 32
  MaxStored       \* bound: tries in one file

ASSUME CellsAssumption ==
  /\ AlignCells \in Nat \ {0} /\ HeaderCells \in Seq(Nat) /\ MaxValueSize \in Nat
  /\ Handles # {}

VARIABLES
  handles,   \* trie_ of each Trie
  mapped,    \* the handles that own a Mapper of the file
  file,      \* cells of the file
  pending,   \* the parts of a trie still to be written, <<>> between writes
  position,  \* of the stream that is read from
  \* What happened, for the comparison with TrieStore:
  writer,    \* the handle that is being written
  written,   \* the tries that are complete in the file
  cut,       \* the last trie of the file is not complete and will not be
  taken      \* tries read from the stream

fileVars == <<handles, mapped, file, pending, position, writer, written, cut, taken>>

---------------------------------------------------------------------------
(* The order of the members in a file.                                     *)

BitVectorItems(v) ==
  <<<<v, "units">>, <<v, "size">>, <<v, "num1s">>, <<v, "ranks">>,
    <<v, "select0s">>, <<v, "select1s">>>>

FlatVectorItems(v) == <<<<v, "units">>, <<v, "valueSize">>, <<v, "mask">>, <<v, "values">>>>

\* Before the next level, and after it.
HeadItems ==
  BitVectorItems("louds") \o BitVectorItems("terminalFlags") \o BitVectorItems("linkFlags")
  \o <<<<"bases", "bytes">>>> \o FlatVectorItems("extras")
  \o <<<<"tail", "bytes">>>> \o BitVectorItems("endFlags")

TailItems == <<<<"cache", "entries">>, <<"numL1Nodes", "word">>, <<"config", "word">>>>

Items == Range(HeadItems) \cup Range(TailItems)

\* sizeof of the objects of a vector: 64-bit units (or two of 32 bits),
\* RankIndex and Cache with 12 bytes.
ObjectCells(item) ==
  CASE item[2] = "units" -> 2
    [] item[2] \in {"ranks", "entries"} -> 3
    [] item[2] \in {"select0s", "select1s", "bytes"} -> 1

WordCells(item) == IF item[2] = "values" THEN 2 ELSE 1

IsVector(item) ==
  item[2] \in {"units", "ranks", "select0s", "select1s", "bytes", "entries"}

Padding(n) == (-n) % AlignCells

\* A 64-bit size: its low half and its high half.
SizeCells(n) == <<n, 0>>

\* Vector::write_: total_size, the objects, zeros up to a multiple of 8.
VectorCells(cells) ==
  SizeCells(Len(cells)) \o cells \o [i \in 1 .. Padding(Len(cells)) |-> 0]

ItemCells(level, item) == IF IsVector(item) THEN VectorCells(level[item]) ELSE level[item]

LevelParts(level, items) == [i \in DOMAIN items |-> ItemCells(level, items[i])]

\* write_: a level writes the next one in the middle of itself.
LevelsParts(trie) ==
  LET From[l \in Nat] ==
        LevelParts(trie[l], HeadItems)
        \o (IF l < Len(trie) THEN From[l + 1] ELSE <<>>)
        \o LevelParts(trie[l], TailItems)
  IN  From[1]

TrieParts(trie) == <<HeaderCells>> \o LevelsParts(trie)

\* io_size of a vector and of a trie.
VectorIoSize(cells) ==
  2 + ((Len(cells) + AlignCells - 1) \div AlignCells) * AlignCells

ItemIoSize(level, item) == IF IsVector(item) THEN VectorIoSize(level[item]) ELSE WordCells(item)

LevelIoSize(level) == MapThenSumSet(LAMBDA item : ItemIoSize(level, item), Items)

\* Mutant: every level counts a header.
IoSizeHeaders(trie) ==
  MapThenSumSet(LAMBDA l : Len(HeaderCells) + LevelIoSize(trie[l]), DOMAIN trie)

IoSize(trie) ==
  Len(HeaderCells) + MapThenSumSet(LAMBDA l : LevelIoSize(trie[l]), DOMAIN trie)

---------------------------------------------------------------------------
(* Reading.  What is read so far is a record: whether nothing was wrong,   *)
(* the position, and the members of the level.                             *)

\* A short read uses up the file.
Short(r, cells) == [r EXCEPT !.ok = FALSE, !.pos = Len(cells)]
Wrong(r, pos) == [r EXCEPT !.ok = FALSE, !.pos = pos]
Got(r, item, value, pos) ==
  [r EXCEPT !.pos = pos,
            !.level = [x \in {item} \cup DOMAIN r.level |-> IF x = item THEN value ELSE r.level[x]]]

\* Vector::read_ and map_.
ReadVector(cells, r, item) ==
  LET first == r.pos + 2
      n == cells[r.pos + 1]
      last == first + n
  IN  IF first > Len(cells) THEN Short(r, cells)
      ELSE IF cells[first] # 0 THEN Short(r, cells)
      ELSE IF n % ObjectCells(item) # 0 THEN Wrong(r, first)
      ELSE IF last + Padding(n) > Len(cells) THEN Short(r, cells)
      ELSE Got(r, item, SubSeq(cells, first + 1, last), last + Padding(n))

\* What BitVector, FlatVector and Config throw for.
WordAccepted(level, item, value) ==
  CASE item[2] = "num1s" -> value[1] <= level[<<item[1], "size">>][1]
    [] item[2] = "valueSize" -> value[1] <= MaxValueSize
    [] item[1] = "config" -> ValidFlags(value[1])
    [] OTHER -> TRUE

\* config_ is kept as a Config.
Kept(item, value) == IF item[1] = "config" THEN <<Flags(Parse(value[1]))>> ELSE value

\* Mutant: the end of the file is taken for a zero.
ReadWordAtEnd(cells, r, item) ==
  LET last == r.pos + WordCells(item)
      value == SubSeq(cells, r.pos + 1, last)
  IN  IF last > Len(cells) THEN Got(r, item, <<0>>, Len(cells))
      ELSE IF ~WordAccepted(r.level, item, value) THEN Wrong(r, last)
      ELSE Got(r, item, value, last)

ReadWord(cells, r, item) ==
  LET last == r.pos + WordCells(item)
      value == SubSeq(cells, r.pos + 1, last)
  IN  IF last > Len(cells) THEN Short(r, cells)
      ELSE IF ~WordAccepted(r.level, item, value) THEN Wrong(r, last)
      ELSE Got(r, item, Kept(item, value), last)

ReadItem(cells, r, item) ==
  IF ~r.ok THEN r
  ELSE IF IsVector(item) THEN ReadVector(cells, r, item) ELSE ReadWord(cells, r, item)

ReadItems(cells, start, items) ==
  LET Upto[i \in 0 .. Len(items)] ==
        IF i = 0 THEN start ELSE ReadItem(cells, Upto[i - 1], items[i])
  IN  Upto[Len(items)]

HasNext(level) ==
  level[<<"linkFlags", "num1s">>][1] # 0 /\ level[<<"tail", "bytes">>] = <<>>

\* What LoudsTrie builds: vectors of whole objects, words that reading accepts
\* and keeps, and a next level just where reading looks for one (TrieBuild has
\* that as NestingInferred).
ASSUME TriesAssumption ==
  /\ NoTrie \notin Tries
  /\ \A trie \in Tries :
       /\ trie \in Seq([Items -> Seq(Nat)]) /\ trie # <<>>
       /\ \A l \in DOMAIN trie :
            /\ \A item \in Items :
                 IF IsVector(item) THEN Len(trie[l][item]) % ObjectCells(item) = 0
                 ELSE /\ Len(trie[l][item]) = WordCells(item)
                      /\ WordAccepted(trie[l], item, trie[l][item])
                      /\ Kept(item, trie[l][item]) = trie[l][item]
            /\ HasNext(trie[l]) <=> l < Len(trie)

\* read_ and map_ of a level and those below it.
ReadLevels(cells, start) ==
  LET From[pos \in Nat] ==
        LET head == ReadItems(cells, [ok |-> TRUE, pos |-> pos, level |-> <<>>], HeadItems)
            below == IF head.ok /\ HasNext(head.level) THEN From[head.pos]
                     ELSE [ok |-> head.ok, pos |-> head.pos, trie |-> <<>>]
            done == ReadItems(cells, [ok |-> below.ok, pos |-> below.pos,
                                      level |-> head.level], TailItems)
        IN  [ok |-> done.ok, pos |-> done.pos, trie |-> <<done.level>> \o below.trie]
  IN  From[start]

\* LoudsTrie::read and map: the header, then the levels.
ReadTrie(cells, start) ==
  LET levels == start + Len(HeaderCells) IN
  IF levels > Len(cells) THEN [ok |-> FALSE, pos |-> Len(cells), trie |-> <<>>]
  ELSE IF SubSeq(cells, start + 1, levels) # HeaderCells
       THEN [ok |-> FALSE, pos |-> levels, trie |-> <<>>]
  ELSE ReadLevels(cells, levels)

---------------------------------------------------------------------------
(* Operations of Trie.                                                     *)

InitFile ==
  /\ handles = [h \in Handles |-> NoTrie] /\ mapped = {}
  /\ file = <<>> /\ pending = <<>> /\ position = 0
  /\ writer = (CHOOSE h \in Handles : TRUE) /\ written = <<>> /\ cut = FALSE /\ taken = 0

Idle == pending = <<>>

FileUnchanged == UNCHANGED <<file, pending, writer, written, cut>>
StreamUnchanged == UNCHANGED <<position, taken>>

\* build: into a temporary that is swapped in.  One that throws changes
\* nothing.
Build(h) ==
  /\ Idle
  /\ \E t \in Tries : handles' = [handles EXCEPT ![h] = t]
  /\ mapped' = mapped \ {h}
  /\ FileUnchanged /\ StreamUnchanged

Clear(h) ==
  /\ Idle
  /\ handles' = [handles EXCEPT ![h] = NoTrie] /\ mapped' = mapped \ {h}
  /\ FileUnchanged /\ StreamUnchanged

\* Mutant: the Mapper stays behind.
SwapTriesOnly(g, h) ==
  /\ Idle
  /\ handles' = [handles EXCEPT ![g] = handles[h], ![h] = handles[g]]
  /\ mapped' = mapped
  /\ FileUnchanged /\ StreamUnchanged

\* swap exchanges the pointers, and the Mapper goes with its trie.
Swap(g, h) ==
  /\ Idle
  /\ handles' = [handles EXCEPT ![g] = handles[h], ![h] = handles[g]]
  /\ mapped' = {k \in Handles : (CASE k = g -> h [] k = h -> g [] OTHER -> k) \in mapped}
  /\ FileUnchanged /\ StreamUnchanged

\* Mutant: the file is opened before the handle is looked at.
SaveOpensFirst(h) ==
  /\ Idle /\ mapped = {}
  /\ file' = <<>> /\ pending' = IF handles[h] # NoTrie THEN TrieParts(handles[h]) ELSE <<>>
  /\ writer' = h /\ written' = <<>> /\ cut' = FALSE
  /\ position' = 0 /\ taken' = 0
  /\ UNCHANGED <<handles, mapped>>

\* save: a handle without a trie throws before the file is touched; "wb"
\* empties the file.  (It is not saved over a file that is mapped.)
Save(h) ==
  /\ Idle /\ handles[h] # NoTrie /\ mapped = {}
  /\ file' = <<>> /\ pending' = TrieParts(handles[h])
  /\ writer' = h /\ written' = <<>> /\ cut' = FALSE
  /\ position' = 0 /\ taken' = 0
  /\ UNCHANGED <<handles, mapped>>

\* write to a descriptor, FILE or stream, after what it has.  (Nobody goes on
\* after a write that failed.)
Write(h) ==
  /\ Idle /\ handles[h] # NoTrie /\ ~cut /\ Len(written) < MaxStored
  /\ pending' = TrieParts(handles[h]) /\ writer' = h
  /\ UNCHANGED <<handles, mapped, file, written, cut>> /\ StreamUnchanged

\* The next part, with the flush of write_data.
WritePart ==
  /\ ~Idle
  /\ file' = file \o Head(pending) /\ pending' = Tail(pending)
  /\ written' = IF Len(pending) = 1 THEN Append(written, handles[writer]) ELSE written
  /\ UNCHANGED <<handles, mapped, writer, cut>> /\ StreamUnchanged

\* A write error: some of the part is in the file, and save or write throws.
WriteFails ==
  /\ ~Idle
  /\ \E n \in 0 .. Len(Head(pending)) - 1 : file' = file \o SubSeq(Head(pending), 1, n)
  /\ pending' = <<>> /\ cut' = TRUE
  /\ UNCHANGED <<handles, mapped, writer, written>> /\ StreamUnchanged

\* The program is killed, between two writes or within one, and started again.
Crash ==
  /\ \/ Idle /\ file' = file /\ cut' = cut
     \/ /\ ~Idle /\ cut' = TRUE
        /\ \E n \in 0 .. Len(Head(pending)) - 1 : file' = file \o SubSeq(Head(pending), 1, n)
  /\ pending' = <<>>
  /\ handles' = [h \in Handles |-> NoTrie] /\ mapped' = {}
  /\ position' = 0 /\ taken' = 0
  /\ UNCHANGED <<writer, written>>

\* load, and mmap or map: a temporary is read from the start of the file and
\* swapped in, unless reading throws.
LoadAs(h, mappedAfter) ==
  /\ Idle
  /\ LET r == ReadTrie(file, 0) IN
     /\ r.ok
     /\ handles' = [handles EXCEPT ![h] = r.trie] /\ mapped' = mappedAfter
  /\ FileUnchanged /\ StreamUnchanged

Load(h) == LoadAs(h, mapped \ {h})
Map(h)  == LoadAs(h, mapped \cup {h})

\* Mutant: the reader takes all there is into a buffer.
ReadAhead(h) ==
  /\ Idle
  /\ LET r == ReadTrie(file, position) IN
     /\ handles' = IF r.ok THEN [handles EXCEPT ![h] = r.trie] ELSE handles
     /\ mapped' = IF r.ok THEN mapped \ {h} ELSE mapped
     /\ position' = Len(file) /\ taken' = IF r.ok THEN taken + 1 ELSE taken
  /\ FileUnchanged

\* read, fread and >>: from where the stream is.  One that throws has moved it.
Read(h) ==
  /\ Idle
  /\ LET r == ReadTrie(file, position) IN
     /\ handles' = IF r.ok THEN [handles EXCEPT ![h] = r.trie] ELSE handles
     /\ mapped' = IF r.ok THEN mapped \ {h} ELSE mapped
     /\ position' = r.pos /\ taken' = IF r.ok THEN taken + 1 ELSE taken
  /\ FileUnchanged

\* The stream is opened again.
Rewind ==
  /\ Idle /\ position' = 0 /\ taken' = 0
  /\ UNCHANGED <<handles, mapped>> /\ FileUnchanged

NextFile ==
  \/ \E h \in Handles : Build(h) \/ Clear(h) \/ Save(h) \/ Write(h)
                        \/ Load(h) \/ Map(h) \/ Read(h)
  \/ \E g, h \in Handles : Swap(g, h)
  \/ WritePart \/ WriteFails \/ Crash \/ Rewind

SpecFile == InitFile /\ [][NextFile]_fileVars

---------------------------------------------------------------------------
FileTypeOK ==
  /\ handles \in [Handles -> Tries \cup {NoTrie}]
  /\ mapped \subseteq {h \in Handles : handles[h] # NoTrie}
  /\ file \in Seq(Nat) /\ pending \in Seq(Seq(Nat))
  /\ position \in 0 .. Len(file)
  /\ writer \in Handles /\ written \in Seq(Tries) /\ cut \in BOOLEAN
  /\ taken \in 0 .. Len(written)

\* Where the k-th trie of the file ends.
EndOf[k \in Nat] == IF k = 0 THEN 0 ELSE ReadTrie(file, EndOf[k - 1]).pos

\* The tries that are complete in the file are read back, one after the other,
\* and what follows them, which a crash or a full disk may have cut anywhere,
\* never passes for a trie: not even where all that is missing is the end of
\* its first level, written after the levels below it.
FileReadsBack ==
  /\ \A k \in DOMAIN written :
       LET r == ReadTrie(file, EndOf[k - 1]) IN r.ok /\ r.trie = written[k]
  /\ ~ReadTrie(file, EndOf[Len(written)]).ok

\* io_size is the space that writing a trie takes, levels and padding included.
IoSizeIsWritten ==
  Idle => \A k \in DOMAIN written : EndOf[k] - EndOf[k - 1] = IoSize(written[k])

\* A stream is left where the next trie begins, also by a read that came too
\* early, so that reading goes on once another trie is written.
StreamAtNextTrie ==
  Idle /\ (~cut \/ taken < Len(written)) => position = EndOf[taken]

Store == INSTANCE TrieStore WITH stored <- written, partial <- cut \/ ~Idle

\* The files, handles and streams are those of TrieStore: a save that is
\* interrupted leaves a file without a trie, one of a handle without a trie
\* leaves the file alone, and a handle only ever changes to a whole trie.
FileImplementsStore == Store!StoreSpec

===================================================================================================================================================
