--------------------------- MODULE MCTrieSearch ---------------------------
EXTENDS TrieSearch

CONSTANT MaxQuery

MCQueries == UNION {[1 .. n -> Labels] : n \in 0 .. MaxQuery}

Config(n, mode, order) ==
  [numTries |-> n, tailMode |-> mode, nodeOrder |-> order, cacheLevel |-> 1]

MCConfigs ==
  {Config(1, "text", "label"), Config(2, "binary", "weight"), Config(3, "text", "weight")}

Weighted(strs) ==
  [i \in DOMAIN strs |-> [str |-> strs[i], weight |-> (<<1, 2, 0, 1, 3>>)[i]]]

\* Keysets picked for what they lead to: nothing, the empty key, keys that
\* are prefixes of keys, long links with a common suffix, siblings of which
\* some are links, and duplicates.
MCKeysets ==
  {<<>>,
   << <<>>, <<1>>, <<1, 1>> >>,
   << <<1, 0, 1>>, <<0, 0, 1>>, <<1, 0, 1, 1>> >>,
   << <<1, 1, 0, 0>>, <<0>>, <<1, 1, 0, 0>>, <<1, 1, 1, 0>>, <<0, 1, 0, 0>> >>}

MCInputs ==
  [trieId : {1}, config : MCConfigs, keys : {Weighted(strs) : strs \in MCKeysets}]

===========================================================================
