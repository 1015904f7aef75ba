------------------------------ MODULE MCKeyset -----------------------------
EXTENDS Keyset

\* An empty key and two small ones, one of which is large with an end marker.
MCStrings == {<<>>, <<"a">>, <<"b", "c">>}

MCSymmetry == Permutations(Keysets)

===========================================================================
