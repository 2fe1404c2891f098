---------------------------- MODULE MCPostProcess ----------------------------
EXTENDS PostProcess

MCRoot == <<"r">>

\* A tree with nested directories, a product directory "o", a compiled
\* file and a name with a space; the tool also read "u/z" outside the root.
MCNested ==
  [dirs  |-> {<<>>, <<"r">>, <<"r", "a">>, <<"r", "a", "b">>, <<"r", "o">>,
              <<"u">>},
   files |-> {<<"r", "f">>, <<"r", "a", "g">>, <<"r", "a", "x.pyc">>,
              <<"r", "a", "b", "h">>, <<"r", "a", "b", "s p">>,
              <<"r", "o", "p">>, <<"u", "z">>}]

\* A flat checkout: the root holds files and its .svn directory only.
MCFlat ==
  [dirs  |-> {<<>>, <<"r">>, <<"r", ".svn">>, <<"u">>},
   files |-> {<<"r", "f">>, <<"r", "s p">>, <<"r", ".svn", "e">>,
              <<"u", "z">>}]

MCTrees == {MCNested, MCFlat}
MCExcluded == {".svn", "x.pyc"}
MCSpaced == {"s p"}
MCCwdDirs == {<<>>, <<".">>, <<"a">>}
MCProductDirs == {<<"o">>, <<"a", "b">>}
MCProcCwd == <<"h">>
MCFlavor == "linux"
MCSpelling == NoFn

\* A checkout with a file whose name holds a quote, "q'" (spelt as two
\* pieces, the letter run and the quote), beside a file "g" that keeps its
\* directory from being collapsed when only "q'" is traced.
MCQuote ==
  [dirs  |-> {<<>>, <<"r">>, <<"r", "a">>},
   files |-> {<<"r", "f">>, <<"r", "a", "g">>, <<"r", "a", "q'">>}]
MCQuoteTrees == {MCQuote}
MCQuoteSpelling == "q'" :> <<"q", Q>>

====
