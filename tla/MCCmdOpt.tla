------------------------------ MODULE MCCmdOpt -----------------------------
EXTENDS CmdOpt

MCShort == [h |-> "none", n |-> "required", v |-> "optional"]

\* Two names with a common prefix, and one that is a prefix of another.
MCLong == <<[name |-> <<"a", "b">>, hasArg |-> 1, val |-> "n"],
            [name |-> <<"a", "c">>, hasArg |-> 0, val |-> "h"],
            [name |-> <<"a", "b", "c">>, hasArg |-> 0, val |-> "h"]>>

MCWords ==
  {<<"f">>, <<"-">>, <<"-", "-">>,
   <<"-", "h">>, <<"-", "h", "n">>, <<"-", "n", "f">>, <<"-", "v">>, <<"-", "h", "-">>, <<"-", "u">>,
   <<"-", "-", "a", "b">>, <<"-", "-", "a", "b", "=", "f">>, <<"-", "-", "a", "c">>,
   <<"-", "-", "a", "c", "=">>, <<"-", "-", "a", "b", "c">>, <<"-", "-", "f">>}

MCCommandLines == UNION {[1 .. n -> MCWords] : n \in 0 .. 3}
                    \cup [1 .. 4 -> {<<"f">>, <<"-">>, <<"-", "-">>, <<"-", "h", "n">>, <<"-", "-", "a", "b">>}]

MCTypedPrefixes == UNION {[1 .. n -> {<<"f">>, <<"-", "h">>, <<"-", "-", "a">>, <<"-", "-", "a", "b">>}]
                            : n \in 1 .. 3}

===========================================================================
