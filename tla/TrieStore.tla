------------------------------ MODULE TrieStore ----------------------------
(***************************************************************************)
(* What Trie, its files and its streams promise, without any bytes: a      *)
(* handle has a trie or none; a file is the tries that were written to it  *)
(* one after the other, and it may end in one that is not complete.  A     *)
(* trie is loaded whole or the handle keeps what it had.                   *)
(***************************************************************************)
EXTENDS Integers, Sequences

CONSTANTS
  Handles,  \* Trie objects of the program
  Tries,    \* what may be built
  NoTrie    \* a handle without a trie

VARIABLES
  handles,  \* the trie of each handle
  mapped,   \* the handles whose trie lies in the mapped file
  stored,   \* the tries in the file
  partial,  \* whether a trie that is not complete follows them
  taken     \* how many were read since the file was opened for reading

storeVars == <<handles, mapped, stored, partial, taken>>

StoreInit ==
  /\ handles = [h \in Handles |-> NoTrie] /\ mapped = {}
  /\ stored = <<>> /\ partial = FALSE /\ taken = 0

Give(h, t) == handles' = [handles EXCEPT ![h] = t]

PutTrie(h) ==
  /\ \E t \in Tries : Give(h, t)
  /\ mapped' = mapped \ {h}
  /\ UNCHANGED <<stored, partial, taken>>

DropTrie(h) ==
  /\ Give(h, NoTrie) /\ mapped' = mapped \ {h}
  /\ UNCHANGED <<stored, partial, taken>>

Exchange(g, h) ==
  /\ handles' = [handles EXCEPT ![g] = handles[h], ![h] = handles[g]]
  /\ mapped' = {k \in Handles : (CASE k = g -> h [] k = h -> g [] OTHER -> k) \in mapped}
  /\ UNCHANGED <<stored, partial, taken>>

\* A trie is being written: over the file, or after the tries it has.
StartOver ==
  /\ mapped = {}
  /\ stored' = <<>> /\ partial' = TRUE /\ taken' = 0
  /\ UNCHANGED <<handles, mapped>>

StartAppending ==
  /\ ~partial /\ partial' = TRUE
  /\ UNCHANGED <<handles, mapped, stored, taken>>

\* Its last byte is in the file.
Complete(h) ==
  /\ partial /\ handles[h] # NoTrie
  /\ stored' = Append(stored, handles[h]) /\ partial' = FALSE
  /\ UNCHANGED <<handles, mapped, taken>>

\* The first trie of the file, copied or mapped.
LoadFirst(h) ==
  /\ stored # <<>>
  /\ Give(h, Head(stored))
  /\ mapped' \in {mapped \ {h}, mapped \cup {h}}
  /\ UNCHANGED <<stored, partial, taken>>

\* The next trie of the file.
ReadNext(h) ==
  /\ taken < Len(stored)
  /\ Give(h, stored[taken + 1]) /\ mapped' = mapped \ {h}
  /\ taken' = taken + 1
  /\ UNCHANGED <<stored, partial>>

Reopen ==
  /\ taken' = 0
  /\ UNCHANGED <<handles, mapped, stored, partial>>

\* The program ends: what was in memory is gone.
Restart ==
  /\ handles' = [h \in Handles |-> NoTrie] /\ mapped' = {} /\ taken' = 0
  /\ UNCHANGED <<stored, partial>>

StoreNext ==
  \/ \E h \in Handles :
       PutTrie(h) \/ DropTrie(h) \/ Complete(h) \/ LoadFirst(h) \/ ReadNext(h)
  \/ \E g, h \in Handles : Exchange(g, h)
  \/ StartOver \/ StartAppending \/ Reopen \/ Restart

StoreSpec == StoreInit /\ [][StoreNext]_storeVars

===========================================================================
