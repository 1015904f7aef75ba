---------------------------- MODULE TailBuffer ----------------------------
(***************************************************************************)
(* Tail: the strings of the link nodes of the last level, stored one after *)
(* the other in buf_.  A text tail ends each with '\0'; a binary tail has  *)
(* a bit per character that is set at the last one.  An entry that is a    *)
(* suffix of another one is stored inside it.                              *)
(***************************************************************************)
EXTENDS SortedStrings, SequencesExt

NUL == 0

EmptyTail == [buf |-> <<>>, endFlags |-> <<>>]

\* Tail::build: '\0' in an entry makes a text tail binary.
EffectiveMode(entries, mode) ==
  IF \E i \in DOMAIN entries : NUL \in Range(entries[i]) THEN "binary" ELSE mode

\* Entry's operator[] counts from the end, so the sort puts an entry next to
\* those it is a suffix of; equal entries may come in any order.
EntryOrder(entries) ==
  CHOOSE o \in SortedOrders([i \in DOMAIN entries |-> Reverse(entries[i])]) : TRUE

\* Whether entry is stored inside last, the one handled just before.
EndsInside(entry, last) == IsSuffix(entry, last)

\* What an entry adds to the tail after the ones in later.
AppendEntry(later, id, entry, mode) ==
  [buf |-> later.buf \o entry \o (IF mode = "text" THEN <<NUL>> ELSE <<>>),
   endFlags |-> IF mode = "text" THEN <<>>
                ELSE later.endFlags \o [i \in DOMAIN entry |-> i = Len(entry)],
   offsets |-> [later.offsets EXCEPT ![id] = Len(later.buf)]]

\* Tail::build_: from the last entry to the first; offsets by entry id.
TailBuild(entries, requestedMode) ==
  LET mode == EffectiveMode(entries, requestedMode)
      order == EntryOrder(entries)
      From[i \in 1 .. Len(entries) + 1] ==
        IF i > Len(entries)
        THEN [buf |-> <<>>, endFlags |-> <<>>, offsets |-> [k \in DOMAIN entries |-> 0]]
        ELSE LET later == From[i + 1]
                 entry == entries[order[i]]
                 last == entries[order[i + 1]]
             IN  IF i < Len(entries) /\ EndsInside(entry, last)
                 THEN [later EXCEPT !.offsets[order[i]] =
                         later.offsets[order[i + 1]] + Len(last) - Len(entry)]
                 ELSE AppendEntry(later, order[i], entry, mode)
  IN  From[1]

TailMode(tail) == IF tail.endFlags = <<>> THEN "text" ELSE "binary"

\* Tail::restore: the characters from offset to the end of their entry.
TailRestore(tail, offset) ==
  IF TailMode(tail) = "text"
  THEN LET end == CHOOSE p \in offset + 1 .. Len(tail.buf) :
                    /\ tail.buf[p] = NUL
                    /\ \A q \in offset + 1 .. p - 1 : tail.buf[q] # NUL
       IN  SubSeq(tail.buf, offset + 1, end - 1)
  ELSE LET end == CHOOSE p \in offset + 1 .. Len(tail.buf) :
                    /\ tail.endFlags[p]
                    /\ \A q \in offset + 1 .. p - 1 : ~tail.endFlags[q]
       IN  SubSeq(tail.buf, offset + 1, end)

\* How many characters of the entry the query has from position pos on.
Agreeing(entry, query, pos) ==
  CHOOSE m \in 0 .. Len(entry) :
    /\ \A i \in 1 .. m : pos + i <= Len(query) /\ entry[i] = query[pos + i]
    /\ \/ m = Len(entry) \/ pos + m = Len(query)
       \/ pos + m < Len(query) /\ entry[m + 1] # query[pos + m + 1]

\* Mutant: a query that ends inside the entry matches.
TailMatchInside(tail, offset, query, pos) ==
  LET entry == TailRestore(tail, offset)
      m == Agreeing(entry, query, pos)
  IN  [ok |-> m = Len(entry) \/ pos + m = Len(query), pos |-> pos + m, out |-> <<>>]

\* Tail::match: the whole entry must be in the query; it puts nothing out.
TailMatch(tail, offset, query, pos) ==
  LET entry == TailRestore(tail, offset)
      m == Agreeing(entry, query, pos)
  IN  [ok |-> m = Len(entry), pos |-> pos + m, out |-> <<>>]

\* Tail::prefix_match: the query may also end inside the entry; out is what
\* the key buffer receives.
TailPrefixMatch(tail, offset, query, pos) ==
  LET entry == TailRestore(tail, offset)
      m == Agreeing(entry, query, pos)
      ok == m = Len(entry) \/ pos + m = Len(query)
  IN  [ok |-> ok, pos |-> pos + m, out |-> IF ok THEN entry ELSE SubSeq(entry, 1, m)]

===========================================================================
