---------------------------- MODULE MCDomainScan ----------------------------
(* Constants for DomainScan: three files, of one or two lines.              *)
EXTENDS DomainScan, TLC

CONSTANTS f, g, h

F(lines) == [type |-> "file", lines |-> lines]
E(path, mode, stage) == [path |-> path, mode |-> mode, stage |-> stage]

MCTrees == {(f :> F(x)) @@ (g :> F(<<y>>)) @@ (h :> F(<<"plain">>)) :
              x \in {<<"plain", "guarded">>, <<"host", "plain">>, <<"opener", "guarded">>},
              y \in {"plain", "host"}}
\* Two batches of at most two files; the last file of the index may be the second batch.
MCPlainIndexes == {<<E(f, "file", 0), E(g, "file", 0), E(h, "file", 0)>>,
              <<E(h, "file", 0), E(g, "file", 0), E(f, "file", 0)>>}
\* An empty index, a tracked link, a submodule, an unmerged entry, an unknown mode.
MCOddIndexes == {<<>>, <<E(f, "symlink", 0), E(g, "file", 0)>>,
                 <<E(f, "file", 0), E(g, "gitlink", 0)>>, <<E(f, "file", 0), E(g, "file", 1)>>,
                 <<E(f, "file", 0), E(g, "tree", 0)>>}
MCIndexes == MCPlainIndexes \cup MCOddIndexes
=============================================================================
