------------------------------ MODULE MCRouter -------------------------------
(* Two connections; urls of at most two words; queries of up to three pairs. *)
EXTENDS Router, TLC

CONSTANTS T1, T2

MCThreads == {T1, T2}
MCParams  == {":p", ":q"}
MCTypes   == {"GET", "HEAD", "BREW"}
MCPaths   == {<<>>, <<"w">>, <<":p">>, <<":p", ":q">>, <<":p", ":p">>, <<"w", ":p">>}

Text(path, query) == [valid |-> TRUE, path |-> path, query |-> query]
Get(text) == [type |-> "GET", url |-> text]

MCRequests ==
  {Get([valid |-> FALSE, path |-> <<>>, query |-> <<>>]),
   Get(Text(<<>>, <<>>)),
   Get(Text(<<"w">>, <<<<"a", "1">>>>)),
   Get(Text(<<"x">>, <<<<"a", "1">>, <<"b", "2">>, <<"c", "1">>>>)),
   Get(Text(<<"w", "x">>, <<<<"a", "1">>, <<"b", "1">>>>)),
   Get(Text(<<":p", "w">>, <<>>)),
   [type |-> "HEAD", url |-> Text(<<"w">>, <<>>)],
   [type |-> "BREW", url |-> Text(<<"w">>, <<>>)]}

Symmetry == Permutations(MCThreads)
=============================================================================
