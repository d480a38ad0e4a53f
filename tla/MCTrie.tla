------------------------------- MODULE MCTrie -------------------------------
(* The names /, /a, /b, /a/b, /a/b/a and /a/b/b: a chain to prune and forks.   *)
EXTENDS TrieWithPolicy, SequencesExt

CONSTANTS a, b

MCNames == {<<>>, <<a>>, <<b>>, <<a, b>>, <<a, b, a>>, <<a, b, b>>}
MCRoot == <<>>
MCPre == [n \in MCNames |-> {m \in MCNames : IsPrefix(m, n)}]
MCPreds == {{n \in MCNames : Len(n) \in {1, 3}}}
=============================================================================
