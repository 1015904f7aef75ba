------------------------------- MODULE Config ------------------------------
(***************************************************************************)
(* grimoire::trie::Config: the flags of a build as four fields of one      *)
(* number.  A trie file has the flags of every level, so that reading one  *)
(* parses them again.                                                      *)
(***************************************************************************)
EXTENDS Integers

\* The fields, as powers of two: MARISA_NUM_TRIES_MASK is 0x7F, and so on.
NumTriesOf(flags)   == flags % 128
CacheLevelOf(flags) == (flags % 4096) - (flags % 128)
TailModeOf(flags)   == (flags % 65536) - (flags % 4096)
NodeOrderOf(flags)  == flags - (flags % 65536)

CacheLevels == {128, 256, 512, 1024, 2048}   \* huge, large, normal, small, tiny
TailModes   == {4096, 8192}                  \* text, binary
NodeOrders  == {65536, 131072}               \* label, weight

DefaultConfig == [numTries |-> 3, cacheLevel |-> 512, tailMode |-> 4096, nodeOrder |-> 131072]

\* parse throws for a bit outside the fields and for a field with two bits.
ValidFlags(flags) ==
  /\ 0 <= flags /\ flags < 1048576
  /\ CacheLevelOf(flags) \in {0} \cup CacheLevels
  /\ TailModeOf(flags) \in {0} \cup TailModes
  /\ NodeOrderOf(flags) \in {0} \cup NodeOrders

\* An empty field has its default.
Parse(flags) ==
  LET OrDefault(value, default) == IF value = 0 THEN default ELSE value
  IN  [numTries   |-> OrDefault(NumTriesOf(flags), DefaultConfig.numTries),
       cacheLevel |-> OrDefault(CacheLevelOf(flags), DefaultConfig.cacheLevel),
       tailMode   |-> OrDefault(TailModeOf(flags), DefaultConfig.tailMode),
       nodeOrder  |-> OrDefault(NodeOrderOf(flags), DefaultConfig.nodeOrder)]

\* Config::flags: the cache level of a build is not kept.
Flags(config) == config.numTries + config.tailMode + config.nodeOrder

===========================================================================
