---------------------------- MODULE Dictionary ----------------------------
(***************************************************************************)
(* What marisa promises: a static dictionary of strings numbered from 0,   *)
(* looked up by string or by id, and searched for the keys that a query    *)
(* begins with or that begin with the query, one key per call.  It knows   *)
(* nothing of nodes, levels or caches.  TrieSearch implements it.          *)
(***************************************************************************)
EXTENDS SortedStrings, SequencesExt

CONSTANT
  Asked         \* the strings a client may ask for

VARIABLES
  content,      \* the strings of the dictionary
  labelOrder,   \* whether the extensions of a query come in the strings' order
  idOf,         \* their ids, once it is built: <<>> before
  query,        \* the client's query: [str, id]
  search,       \* the search in progress: [kind, ended]
  busy,         \* the kind of call that is running, or "none"
  yielded,      \* what the search in progress has returned
  answer        \* what the last call returned: [result, str, id]

vars == <<content, labelOrder, idOf, query, search, busy, yielded, answer>>

NoSearch == [kind |-> "none", ended |-> FALSE]

Built == idOf # <<>> \/ content = {}

Init ==
  /\ content \in SUBSET Seq(Nat)
  /\ labelOrder \in BOOLEAN
  /\ idOf = <<>>
  /\ query \in [str : Asked, id : {0}]
  /\ search = NoSearch /\ busy = "none" /\ yielded = <<>>
  /\ answer = [result |-> "none", str |-> <<>>, id |-> 0]

\* Every key gets an id of its own from 0 .. n - 1, prefixes first.
Build ==
  /\ idOf = <<>>
  /\ idOf' \in [content -> 0 .. Cardinality(content) - 1]
  /\ \A s, t \in content : IsStrictPrefix(s, t) => idOf'[s] < idOf'[t]
  /\ \A s, t \in content : idOf'[s] = idOf'[t] => s = t
  /\ UNCHANGED <<content, labelOrder, query, search, busy, yielded, answer>>

SetQuery ==
  /\ Built /\ busy = "none"
  /\ query' \in [str : Asked \cup {query.str}, id : 0 .. Cardinality(content) \cup {query.id}]
  /\ search' = NoSearch
  /\ UNCHANGED <<content, labelOrder, idOf, busy, yielded, answer>>

\* Begin a call that begins a search of its own.
Start(kind, iterates) ==
  /\ Built /\ busy = "none"
  /\ busy' = kind
  /\ search' = IF iterates THEN [kind |-> kind, ended |-> FALSE] ELSE NoSearch
  /\ yielded' = <<>>
  /\ UNCHANGED <<content, labelOrder, idOf, query, answer>>

\* Begin a call that goes on with the search in progress.
Continue(kind) ==
  /\ Built /\ busy = "none"
  /\ search = [kind |-> kind, ended |-> FALSE]
  /\ busy' = kind
  /\ UNCHANGED <<content, labelOrder, idOf, query, search, yielded, answer>>

Found(str) ==
  /\ answer' = [result |-> "found", str |-> str, id |-> idOf[str]]
  /\ yielded' = Append(yielded, str)

Nothing ==
  /\ answer' = [result |-> "nothing", str |-> <<>>, id |-> 0]
  /\ UNCHANGED yielded

Return == busy # "none" /\ busy' = "none" /\ UNCHANGED <<content, labelOrder, idOf, query>>

ReturnLookup ==
  /\ busy = "lookup" /\ Return
  /\ IF query.str \in content THEN Found(query.str) ELSE Nothing
  /\ UNCHANGED search

ReturnReverseLookup ==
  /\ busy = "reverse" /\ Return
  /\ \E str \in content : idOf[str] = query.id /\ Found(str)
  /\ UNCHANGED search

\* The candidates of a search that it has not returned yet.
Remaining(Candidate(_)) == {str \in content : Candidate(str)} \ ToSet(yielded)

\* The shortest prefix of the query comes next.
ReturnPrefix ==
  /\ busy = "prefix" /\ Return
  /\ LET left == Remaining(LAMBDA str : IsPrefix(str, query.str)) IN
     IF left = {} THEN Nothing /\ search' = [search EXCEPT !.ended = TRUE]
     ELSE /\ \E str \in left :
               (\A other \in left : Len(str) <= Len(other)) /\ Found(str)
          /\ UNCHANGED search

\* A key comes before those it is a prefix of; in label order, the keys come
\* in the order of the strings.
ReturnExtension ==
  /\ busy = "predictive" /\ Return
  /\ LET left == Remaining(LAMBDA str : IsPrefix(query.str, str)) IN
     IF left = {} THEN Nothing /\ search' = [search EXCEPT !.ended = TRUE]
     ELSE /\ \E str \in left :
               /\ \A other \in left : ~IsStrictPrefix(other, str)
               /\ labelOrder => \A other \in left : StrLeq(str, other)
               /\ Found(str)
          /\ UNCHANGED search

\* An id that no key has is refused, and a search that has ended stays ended;
\* neither disturbs the search in progress.
RefuseReverseLookup ==
  /\ Built /\ busy = "none"
  /\ query.id >= Cardinality(content)
  /\ answer' = [result |-> "out_of_range", str |-> <<>>, id |-> 0]
  /\ UNCHANGED <<content, labelOrder, idOf, query, search, busy, yielded>>

StayEnded ==
  /\ busy = "none" /\ search.ended
  /\ Nothing
  /\ UNCHANGED <<content, labelOrder, idOf, query, search, busy>>

\* The empty string may be answered at once, before any step of a search.
AnswerAtOnce(kind, iterates) ==
  /\ Built /\ busy = "none"
  /\ <<>> \in content
  /\ kind = "reverse" => idOf[<<>>] = query.id
  /\ search' = IF iterates THEN [kind |-> kind, ended |-> FALSE] ELSE NoSearch
  /\ answer' = [result |-> "found", str |-> <<>>, id |-> idOf[<<>>]]
  /\ yielded' = <<<<>>>>
  /\ UNCHANGED <<content, labelOrder, idOf, query, busy>>

Next ==
  \/ Build \/ SetQuery
  \/ Start("lookup", FALSE) \/ Start("reverse", FALSE)
  \/ Start("prefix", TRUE) \/ Start("predictive", TRUE)
  \/ Continue("prefix") \/ Continue("predictive")
  \/ ReturnLookup \/ ReturnReverseLookup \/ ReturnPrefix \/ ReturnExtension
  \/ RefuseReverseLookup \/ StayEnded
  \/ AnswerAtOnce("reverse", FALSE) \/ AnswerAtOnce("prefix", TRUE)

Spec == Init /\ [][Next]_vars

===========================================================================
