---------------------------- MODULE MCTrieBuild ----------------------------
EXTENDS TrieBuild

CONSTANTS MaxKeys, MaxLength

Words == UNION {[1 .. n -> Labels] : n \in 0 .. MaxLength}

\* Some numbering of a set of words, with weights that differ.
Number(words) == LET s == SetToSeq(words) IN
  [i \in DOMAIN s |-> [str |-> s[i], weight |-> (<<1, 2, 0, 1>>)[i]]]

\* The config of a build, and what may follow: one level or three, both tails.
Config(n, mode, order) ==
  [numTries |-> n, tailMode |-> mode, nodeOrder |-> order, cacheLevel |-> 1]

MCConfigs ==
  {Config(1, "text", "label"), Config(2, "binary", "weight"), Config(3, "text", "weight")}

MCInputs ==
  [trieId : {1}, config : MCConfigs,
   keys : {Number(words) : words \in UNION {kSubset(n, Words) : n \in 0 .. MaxKeys}}]

===========================================================================
