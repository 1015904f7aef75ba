----------------------------- MODULE MCTrieFile ----------------------------
EXTENDS TrieFile

Counted(n) == [i \in 1 .. n |-> i % 3]

\* A level with vectors of lengths that need padding and of lengths that do
\* not, n and m objects in most of them.
Level(n, m, links, tail, flags) ==
  [item \in Items |->
     CASE item[2] \in {"units", "values"} -> Counted(2)
       [] item[2] = "ranks" -> Counted(3 * m)
       [] item = <<"endFlags", "select0s">> -> <<>>
       [] item[2] \in {"select0s", "select1s"} -> Counted(n)
       [] item = <<"bases", "bytes">> -> Counted(n + 1)
       [] item = <<"tail", "bytes">> -> tail
       [] item[2] = "entries" -> Counted(3 * n)
       [] item[2] = "size" -> <<n + m>>
       [] item = <<"linkFlags", "num1s">> -> <<links>>
       [] item[2] = "num1s" -> <<1>>
       [] item[2] \in {"valueSize", "mask"} -> <<m>>
       [] item = <<"config", "word">> -> <<flags>>
       [] OTHER -> <<n>>]

\* A level without links; one with links to a level below, whose links are in
\* its tail.
MCNoLinks == <<Level(2, 1, 0, <<>>, 1 + 4096 + 65536)>>
MCNested ==
  <<Level(1, 1, 2, <<>>, 2 + 8192 + 131072), Level(1, 2, 1, <<3, 4, 0>>, 1 + 8192 + 131072)>>

MCTries == {MCNoLinks, MCNested}
MCHeader == <<5, 1, 2, 3>>

===========================================================================
