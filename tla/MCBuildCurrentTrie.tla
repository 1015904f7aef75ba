------------------------ MODULE MCBuildCurrentTrie ------------------------
EXTENDS BuildCurrentTrie

CONSTANTS MaxKeys, MaxLength

Words(min, max) == UNION {[1 .. n -> Labels] : n \in min .. max}

\* Weights go by the place of a key, so every assignment occurs.
PlaceWeight == <<1, 2, 0, 1>>

KeysFrom(words) ==
  {[i \in DOMAIN s |-> [str |-> s[i], weight |-> PlaceWeight[i]]] :
     s \in UNION {[1 .. n -> words] : n \in 0 .. MaxKeys}}

Config(order) ==
  [numTries |-> 2, tailMode |-> "text", nodeOrder |-> order, cacheLevel |-> 1]

\* Level 1 may hold any keys, also twice; the strings that reach a deeper
\* level have two characters at least.
MCInputs ==
  [trieId : {1}, config : {Config("label"), Config("weight")},
   keys : KeysFrom(Words(0, MaxLength))]
  \cup
  [trieId : {2}, config : {Config("weight")}, keys : KeysFrom(Words(2, MaxLength)) \ {<<>>}]

===========================================================================
