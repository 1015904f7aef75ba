---------------------------- MODULE TrieSearch ----------------------------
(***************************************************************************)
(* The searches of LoudsTrie over a built trie: lookup, reverse_lookup,    *)
(* common_prefix_search and predictive_search, by an Agent whose State is  *)
(* kept between calls.  A call starts, runs its loop one find_child, one   *)
(* node up, or one turn of predictive_search's loop at a time, and returns *)
(* an answer.  The two iterating searches go on where the last call left   *)
(* them, unless the client changed the query or used the agent for another *)
(* search in between.                                                      *)
(***************************************************************************)
EXTENDS TrieBuild

CONSTANTS
  Queries,     \* the strings a client may ask for
  MaxChanges   \* bound on how often the client changes its query or its search

ASSUME QueriesAssumption == Queries \subseteq Strings /\ MaxChanges \in Nat

VARIABLES
  query,       \* Agent::query_: [str, id]
  status, node, queryPos, keyBuf, history, historyPos,  \* Agent::state_
  call,        \* the call that is running, or "none"
  answer,      \* what the last call returned, with Agent::key_
  yielded,     \* the keys the current search returned so far (not in the code)
  changes      \* how often the client changed its mind (not in the code)

stateVars == <<status, node, queryPos, keyBuf, history, historyPos>>
agentVars == <<query, stateVars, call, answer, yielded, changes>>
searchVars == <<buildVars, agentVars>>

InvalidId == -1   \* MARISA_INVALID_LINK_ID, MARISA_INVALID_KEY_ID

NoAnswer == [result |-> "none", str |-> <<>>, id |-> 0]
Answer(result, str, id) == [result |-> result, str |-> str, id |-> id]

---------------------------------------------------------------------------
(* Going up a level below level 1: restore_, match_ and prefix_match_.     *)

\* What these read at a node: the cache entry that holds it, or the vectors.
EdgeRead(l, n, entry) ==
  IF entry.child = n
  THEN [linked |-> entry.extra # InvalidExtra, label |-> entry.base,
        link |-> entry.base + entry.extra * LabelSize,
        top |-> entry.parent = 0, parent |-> entry.parent]
  ELSE [linked |-> At(tries[l].linkFlags, n), label |-> At(tries[l].bases, n),
        link |-> IF At(tries[l].linkFlags, n) THEN LinkOf(l, n) ELSE 0,
        top |-> n <= tries[l].numL1Nodes, parent |-> Parent(l, n)]

Edge(l, n) ==
  EdgeRead(l, n, tries[l].cache[CacheIdByChild(Cardinality(DOMAIN tries[l].cache), n)])

RestoreUp[l \in Nat, n \in Nat] ==
  LET From(e) ==
        (IF ~e.linked THEN <<e.label>>
         ELSE IF l = Len(tries) THEN TailRestore(tail, e.link)
         ELSE RestoreUp[l + 1, e.link])
        \o (IF e.top THEN <<>> ELSE RestoreUp[l, e.parent])
  IN  From(Edge(l, n))

\* restore: append what a link of level 1 stands for.
Restore(link) ==
  IF Len(tries) = 1 THEN TailRestore(tail, link) ELSE RestoreUp[2, link]

\* Compare one character; out is what prefix_match_ appends to the key buffer.
MatchLabel(label, pos) ==
  IF label = At(query.str, pos) THEN [ok |-> TRUE, pos |-> pos + 1, out |-> <<label>>]
                                ELSE [ok |-> FALSE, pos |-> pos, out |-> <<>>]

MatchUp[l \in Nat, n \in Nat, pos \in Nat] ==
  LET Own(e) == IF ~e.linked THEN MatchLabel(e.label, pos)
                ELSE IF l = Len(tries) THEN TailMatch(tail, e.link, query.str, pos)
                ELSE MatchUp[l + 1, e.link, pos]
      Above(e, m) == IF ~m.ok \/ e.top THEN m
                     ELSE IF m.pos >= Len(query.str) THEN [m EXCEPT !.ok = FALSE]
                     ELSE MatchUp[l, e.parent, m.pos]
      From(e) == Above(e, Own(e))
  IN  From(Edge(l, n))

PrefixMatchUp[l \in Nat, n \in Nat, pos \in Nat] ==
  LET Own(e) == IF ~e.linked THEN MatchLabel(e.label, pos)
                ELSE IF l = Len(tries) THEN TailPrefixMatch(tail, e.link, query.str, pos)
                ELSE PrefixMatchUp[l + 1, e.link, pos]
      After(m, rest) == [rest EXCEPT !.out = m.out \o rest.out]
      Above(e, m) ==
        IF ~m.ok \/ e.top THEN m
        ELSE IF m.pos >= Len(query.str)
        THEN After(m, [ok |-> TRUE, pos |-> m.pos, out |-> RestoreUp[l, e.parent]])
        ELSE After(m, PrefixMatchUp[l, e.parent, m.pos])
      From(e) == Above(e, Own(e))
  IN  From(Edge(l, n))

\* match and prefix_match: the query against a link of level 1.
Match(link, pos) ==
  IF Len(tries) = 1 THEN TailMatch(tail, link, query.str, pos) ELSE MatchUp[2, link, pos]

PrefixMatch(link, pos) ==
  IF Len(tries) = 1 THEN TailPrefixMatch(tail, link, query.str, pos)
                    ELSE PrefixMatchUp[2, link, pos]

---------------------------------------------------------------------------
(* Going down level 1.                                                     *)

Outer == tries[1]

IsTerminal(n) == At(terminalFlags, n)
IdOf(n) == Rank1(terminalFlags, n)

\* Level 1's extras are read in the order of its link nodes.
UpdateLinkId(linkId, n) ==
  IF linkId = InvalidId THEN Rank1(Outer.linkFlags, n) ELSE linkId + 1

LinkById(n, linkId) == At(Outer.bases, n) + At(Outer.extras, linkId) * LabelSize

TryLink(link, predictive) ==
  IF predictive THEN PrefixMatch(link, queryPos) ELSE Match(link, queryPos)

\* Compare the label of a node, or the link it has.
TryNode(n, linkId, predictive) ==
  IF At(Outer.linkFlags, n) THEN TryLink(LinkById(n, linkId), predictive)
                            ELSE MatchLabel(At(Outer.bases, n), queryPos)

\* The siblings from LOUDS position p on, until one matches or takes a part
\* of the query, or a zero ends them.
ScanChildren(first, predictive) ==
  LET Scan[p \in Nat, lastLink \in Int] ==
        LET n == p - node - 1
            linkId == IF At(Outer.linkFlags, n) THEN UpdateLinkId(lastLink, n) ELSE lastLink
            After(m) ==
              IF m.ok \/ m.pos # queryPos
              THEN [ok |-> m.ok, node |-> n, pos |-> m.pos, out |-> m.out]
              ELSE IF At(Outer.louds, p + 1) THEN Scan[p + 1, linkId]
              ELSE [ok |-> FALSE, node |-> n + 1, pos |-> queryPos, out |-> <<>>]
        IN  After(TryNode(n, linkId, predictive))
  IN  Scan[first, InvalidId]

\* What the cache answers in place of the scan: it holds one child of node.
CachedChild(entry, predictive) ==
  LET Result(m) == [ok |-> m.ok, node |-> IF m.ok THEN entry.child ELSE node,
                    pos |-> m.pos, out |-> m.out]
  IN  IF entry.extra # InvalidExtra
      THEN Result(TryLink(entry.base + entry.extra * LabelSize, predictive))
      ELSE Result([ok |-> TRUE, pos |-> queryPos + 1, out |-> <<entry.base>>])

\* By the cache entry of the character, or from the children that start at
\* LOUDS position first.
FindChildFrom(entry, first, predictive) ==
  IF entry.parent = node THEN CachedChild(entry, predictive)
  ELSE IF ~At(Outer.louds, first)
  THEN [ok |-> FALSE, node |-> node, pos |-> queryPos, out |-> <<>>]
  ELSE ScanChildren(first, predictive)

\* find_child, and predictive_find_child which also fills the key buffer.
FindChild(predictive) ==
  FindChildFrom(Outer.cache[CacheIdByLabel(Cardinality(DOMAIN Outer.cache), node,
                                           At(query.str, queryPos))],
                Select0(Outer.louds, node) + 1, predictive)

---------------------------------------------------------------------------
(* The client.                                                             *)

InitSearch ==
  /\ InitBuild
  /\ query \in [str : Queries, id : {0}]
  /\ status = "all" /\ node = 0 /\ queryPos = 0 /\ keyBuf = <<>>
  /\ history = <<>> /\ historyPos = 0
  /\ call = "none" /\ answer = NoAnswer /\ yielded = <<>> /\ changes = 0

Idle == pc = "done" /\ call = "none"

\* Bound: only so many changes of query or of search.
Change == changes < MaxChanges /\ changes' = changes + 1

\* A call returns: with a key, or without.
ReturnKey(str, id) ==
  /\ call' = "none"
  /\ answer' = Answer("found", str, id)
  /\ yielded' = Append(yielded, str)

ReturnNothing ==
  /\ call' = "none"
  /\ answer' = Answer("nothing", <<>>, 0)
  /\ UNCHANGED yielded

\* Agent::set_query, with a string or with an id.
SetQuery ==
  /\ Idle /\ Change
  /\ \/ \E str \in Queries : query' = [query EXCEPT !.str = str]
     \/ \E id \in 0 .. NumOnes(terminalFlags) : query' = [query EXCEPT !.id = id]
  /\ status' = "all"
  /\ UNCHANGED <<buildVars, node, queryPos, keyBuf, history, historyPos, call, answer, yielded>>

---------------------------------------------------------------------------
StartLookup ==
  /\ Idle /\ Change
  /\ call' = "lookup"
  /\ node' = 0 /\ queryPos' = 0 /\ status' = "all" /\ yielded' = <<>>
  /\ UNCHANGED <<buildVars, query, keyBuf, history, historyPos, answer>>

LookupStep ==
  /\ call = "lookup" /\ queryPos < Len(query.str)
  /\ LET found == FindChild(FALSE) IN
       /\ node' = found.node /\ queryPos' = found.pos
       /\ IF found.ok THEN UNCHANGED <<call, answer, yielded>> ELSE ReturnNothing
  /\ UNCHANGED <<buildVars, query, status, keyBuf, history, historyPos, changes>>

LookupEnd ==
  /\ call = "lookup" /\ queryPos = Len(query.str)
  /\ IF IsTerminal(node) THEN ReturnKey(query.str, IdOf(node)) ELSE ReturnNothing
  /\ UNCHANGED <<buildVars, query, stateVars, changes>>

---------------------------------------------------------------------------
StartReverseLookup ==
  /\ Idle /\ Change
  /\ IF query.id >= NumOnes(terminalFlags)
     THEN /\ answer' = Answer("out_of_range", <<>>, 0)
          /\ UNCHANGED <<stateVars, call, yielded>>
     ELSE /\ node' = Select1(terminalFlags, query.id)
          /\ keyBuf' = <<>> /\ status' = "all"
          /\ IF node' = 0
             THEN call' = "none" /\ answer' = Answer("found", <<>>, query.id) /\ yielded' = <<<<>>>>
             ELSE call' = "reverse" /\ yielded' = <<>> /\ UNCHANGED answer
          /\ UNCHANGED <<queryPos, history, historyPos>>
  /\ UNCHANGED <<buildVars, query>>

\* One node up: a link's string is appended reversed, and the whole key is
\* reversed at the end.
ReverseStep ==
  /\ call = "reverse"
  /\ LET restored == keyBuf \o (IF At(Outer.linkFlags, node)
                                THEN Reverse(Restore(LinkOf(1, node)))
                                ELSE <<At(Outer.bases, node)>>)
     IN  IF node <= Outer.numL1Nodes
         THEN keyBuf' = Reverse(restored) /\ ReturnKey(keyBuf', query.id) /\ UNCHANGED node
         ELSE /\ keyBuf' = restored /\ node' = Parent(1, node)
              /\ UNCHANGED <<call, answer, yielded>>
  /\ UNCHANGED <<buildVars, query, status, queryPos, history, historyPos, changes>>

---------------------------------------------------------------------------
\* The client goes on with a search, or begins it anew.
Continues(code) == status = code /\ UNCHANGED changes

StartPrefixSearch ==
  /\ Idle
  /\ \/ /\ Continues("prefix_end")
        /\ ReturnNothing
        /\ UNCHANGED stateVars
     \/ /\ Continues("prefix")
        /\ call' = "prefix"
        /\ UNCHANGED <<stateVars, answer, yielded>>
     \/ /\ status \notin {"prefix", "prefix_end"} /\ Change
        /\ node' = 0 /\ queryPos' = 0 /\ status' = "prefix"
        /\ IF IsTerminal(0)
           THEN call' = "none" /\ answer' = Answer("found", <<>>, IdOf(0)) /\ yielded' = <<<<>>>>
           ELSE call' = "prefix" /\ yielded' = <<>> /\ UNCHANGED answer
        /\ UNCHANGED <<keyBuf, history, historyPos>>
  /\ UNCHANGED <<buildVars, query>>

PrefixStep ==
  /\ call = "prefix" /\ queryPos < Len(query.str)
  /\ LET found == FindChild(FALSE) IN
       /\ node' = found.node /\ queryPos' = found.pos
       /\ status' = IF found.ok THEN status ELSE "prefix_end"
       /\ IF ~found.ok THEN ReturnNothing
          ELSE IF IsTerminal(found.node)
          THEN ReturnKey(SubSeq(query.str, 1, found.pos), IdOf(found.node))
          ELSE UNCHANGED <<call, answer, yielded>>
  /\ UNCHANGED <<buildVars, query, keyBuf, history, historyPos, changes>>

\* Mutant: the end is noted but the call goes on.
PrefixEndStays ==
  /\ call = "prefix" /\ queryPos = Len(query.str)
  /\ status' = "prefix_end"
  /\ UNCHANGED <<buildVars, query, node, queryPos, keyBuf, history, historyPos, changes,
                 call, answer, yielded>>

PrefixEnd ==
  /\ call = "prefix" /\ queryPos = Len(query.str)
  /\ status' = "prefix_end"
  /\ ReturnNothing
  /\ UNCHANGED <<buildVars, query, node, queryPos, keyBuf, history, historyPos, changes>>

---------------------------------------------------------------------------
\* Mutant: the node one too low.
NewHistoryLow(n, pos, keyPos) ==
  [node |-> n - 1, loudsPos |-> pos, keyPos |-> keyPos, linkId |-> InvalidId, keyId |-> InvalidId]

NewHistory(n, pos, keyPos) ==
  [node |-> n, loudsPos |-> pos, keyPos |-> keyPos, linkId |-> InvalidId, keyId |-> InvalidId]

StartPredictiveSearch ==
  /\ Idle
  /\ \/ /\ Continues("predictive_end")
        /\ ReturnNothing
        /\ UNCHANGED stateVars
     \/ /\ Continues("predictive")
        /\ call' = "predict"
        /\ UNCHANGED <<stateVars, answer, yielded>>
     \/ /\ status \notin {"predictive", "predictive_end"} /\ Change
        /\ node' = 0 /\ queryPos' = 0 /\ keyBuf' = <<>> /\ history' = <<>> /\ historyPos' = 0
        /\ status' = "predictive"
        /\ call' = "descend" /\ yielded' = <<>> /\ UNCHANGED answer
  /\ UNCHANGED <<buildVars, query>>

DescendStep ==
  /\ call = "descend" /\ queryPos < Len(query.str)
  /\ LET found == FindChild(TRUE) IN
       /\ node' = found.node /\ queryPos' = found.pos /\ keyBuf' = keyBuf \o found.out
       /\ IF found.ok THEN UNCHANGED <<status, call, answer, yielded>>
                      ELSE status' = "predictive_end" /\ ReturnNothing
  /\ UNCHANGED <<buildVars, query, history, historyPos, changes>>

\* The query is spelled: its node is the root of what the search will visit.
DescendEnd ==
  /\ call = "descend" /\ queryPos = Len(query.str)
  /\ history' = Append(history, NewHistory(node, 0, Len(keyBuf)))
  /\ historyPos' = 1
  /\ IF IsTerminal(node) THEN ReturnKey(keyBuf, IdOf(node))
                         ELSE call' = "predict" /\ UNCHANGED <<answer, yielded>>
  /\ UNCHANGED <<buildVars, query, status, node, queryPos, keyBuf, changes>>

\* The history with an entry for the depth to look at: a depth met for the
\* first time starts at the first child of the node above.
Deepened ==
  IF historyPos < Len(history) THEN history
  ELSE LET above == history[Len(history)]
           pos == Select0(Outer.louds, above.node) + 1
       IN  Append(history, NewHistory(pos - above.node - 1, pos, 0))

\* Mutant: the key id is looked up once per depth and not counted on.
VisitKeepingId(next, buf) ==
  [next EXCEPT
     !.loudsPos = @ + 1,
     !.linkId = IF At(Outer.linkFlags, next.node) THEN UpdateLinkId(@, next.node) ELSE @,
     !.keyPos = Len(buf),
     !.keyId = IF IsTerminal(next.node) /\ @ = InvalidId THEN IdOf(next.node) ELSE @]

\* Visit the child an entry stands at: link and key ids go up by one from a
\* node to the next one visited at the same depth.
Visit(next, buf) ==
  [next EXCEPT
     !.loudsPos = @ + 1,
     !.linkId = IF At(Outer.linkFlags, next.node) THEN UpdateLinkId(@, next.node) ELSE @,
     !.keyPos = Len(buf),
     !.keyId = IF ~IsTerminal(next.node) THEN @
               ELSE IF @ = InvalidId THEN IdOf(next.node) ELSE @ + 1]

PredictDown ==
  /\ call = "predict"
  /\ LET next == Deepened[historyPos + 1]
         linkId == UpdateLinkId(next.linkId, next.node)
         visited == Visit(next, keyBuf')
     IN  /\ At(Outer.louds, next.loudsPos)
         /\ keyBuf' = keyBuf \o (IF At(Outer.linkFlags, next.node)
                                 THEN Restore(LinkById(next.node, linkId))
                                 ELSE <<At(Outer.bases, next.node)>>)
         /\ history' = [Deepened EXCEPT ![historyPos + 1] = visited]
         /\ historyPos' = historyPos + 1
         /\ IF IsTerminal(next.node) THEN ReturnKey(keyBuf', visited.keyId)
                                     ELSE UNCHANGED <<call, answer, yielded>>
  /\ UNCHANGED <<buildVars, query, status, node, queryPos, changes>>

\* No more children: back to the node above and on to its next sibling, or
\* the end when the query's node is reached.
PredictUp ==
  /\ call = "predict"
  /\ ~At(Outer.louds, Deepened[historyPos + 1].loudsPos)
  /\ LET passed == [Deepened EXCEPT ![historyPos + 1].loudsPos = @ + 1] IN
     IF historyPos # 1
     THEN /\ history' = [passed EXCEPT ![historyPos].node = @ + 1]
          /\ keyBuf' = SubSeq(keyBuf, 1, passed[historyPos - 1].keyPos)
          /\ historyPos' = historyPos - 1
          /\ UNCHANGED <<status, call, answer, yielded>>
     ELSE /\ history' = passed
          /\ status' = "predictive_end"
          /\ ReturnNothing
          /\ UNCHANGED <<keyBuf, historyPos>>
  /\ UNCHANGED <<buildVars, query, node, queryPos, changes>>

---------------------------------------------------------------------------
Running ==
  \/ LookupStep \/ LookupEnd \/ ReverseStep
  \/ PrefixStep \/ PrefixEnd
  \/ DescendStep \/ DescendEnd \/ PredictDown \/ PredictUp

NextSearch ==
  \/ NextBuild /\ UNCHANGED agentVars
  \/ SetQuery
  \/ StartLookup \/ StartReverseLookup \/ StartPrefixSearch \/ StartPredictiveSearch
  \/ Running

SpecSearch == InitSearch /\ [][NextSearch]_searchVars

---------------------------------------------------------------------------
KeyStrings == {keyset[k].str : k \in DOMAIN keyset}

SearchInProgress ==
  [kind |-> CASE status \in {"prefix", "prefix_end"} -> "prefix"
              [] status \in {"predictive", "predictive_end"} -> "predictive"
              [] OTHER -> "none",
   ended |-> status \in {"prefix_end", "predictive_end"}]

Promised == INSTANCE Dictionary WITH
  Asked <- Queries,
  content <- KeyStrings,
  labelOrder <- config.nodeOrder = "label",
  idOf <- IF pc # "done" THEN <<>>
          ELSE [str \in KeyStrings |-> ids[CHOOSE k \in DOMAIN keyset : keyset[k].str = str]],
  search <- SearchInProgress,
  busy <- IF call \in {"descend", "predict"} THEN "predictive" ELSE call

\* Every search returns what the dictionary promises, in its order, once: from
\* whatever level, link, cache entry or history it takes its answer, and
\* however the client mixes its calls.
ImplementsDictionary == Promised!Spec

SearchTypeOK ==
  /\ query \in [str : Strings, id : Nat]
  /\ status \in {"all", "prefix", "prefix_end", "predictive", "predictive_end"}
  /\ node \in Nat /\ queryPos \in Nat /\ keyBuf \in Strings
  /\ history \in Seq([node : Nat, loudsPos : Nat, keyPos : Nat,
                      linkId : Nat \cup {InvalidId}, keyId : Nat \cup {InvalidId}])
  /\ historyPos \in 0 .. Len(history)
  /\ call \in {"none", "lookup", "reverse", "prefix", "descend", "predict"}
  /\ answer.result \in {"none", "found", "nothing", "out_of_range"}
  /\ changes \in 0 .. MaxChanges

\* predictive_search never looks a link or a key up again at a depth it has
\* been to: it counts on from the last one.  Each entry of the history still
\* agrees with the bit vectors, although whole subtrees were visited between
\* two of its nodes.
HistoryFollowsLevels ==
  status = "predictive" =>
    \A h \in 2 .. Len(history) :
      LET entry == history[h]
          passed == entry.node + (IF h <= historyPos THEN 1 ELSE 0)
      IN  /\ Rank1(Outer.louds, entry.loudsPos) = passed
          /\ entry.linkId # InvalidId => Rank1(Outer.linkFlags, passed) = entry.linkId + 1
          /\ entry.keyId # InvalidId => Rank1(terminalFlags, passed) = entry.keyId + 1
          /\ h <= historyPos => entry.keyPos <= Len(keyBuf)

\* Every call returns, given that a running call goes on.
CallsReturn == call # "none" ~> call = "none"

FairSearch == SpecSearch /\ WF_searchVars(Running)

===========================================================================
