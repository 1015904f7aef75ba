---------------------------- MODULE MCStringSort ---------------------------
EXTENDS StringSort

CONSTANT MaxStrings

MCStrings == {<<>>, <<1>>, <<1, 1>>, <<1, 2>>, <<2>>}

\* Strings of three characters, so that calls nest.
Mixed(n, a, b) ==
  [i \in 1 .. n |-> <<(i * a) % 3, (i * b) % 2, i % 2>>]

MCSortInputs ==
  UNION {[1 .. n -> MCStrings] : n \in 0 .. MaxStrings}
  \cup {Mixed(n, a, b) : n \in 8 .. 13, a \in {1, 2, 4, 5}, b \in 1 .. 3}

===========================================================================
