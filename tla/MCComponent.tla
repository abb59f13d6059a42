---------------------------- MODULE MCComponent ----------------------------
(* Two versions and the main build of one component, and one of another. *)
EXTENDS Component, TLC

MCProducts == {<<"client", "v1">>, <<"client", "v2">>, <<"mds", "main">>}
MCRank == [v1 |-> 1, v2 |-> 2, main |-> 0]
\* The mirror has every product, or lacks the first version of client.
MCFirstBuilds == {[x \in MCProducts |-> IF x[2] = "v1" THEN b ELSE 1] : b \in {0, 1}}

Request(op, args, force) == [op |-> op, args |-> args, force |-> force]
MCRequests ==
    {Request("update", <<<<"client", Latest>>>>, FALSE),
     Request("install", <<<<"mds", "main">>, <<"client", "v1">>>>, FALSE),
     Request("update", <<<<"client", "v1">>>>, FALSE),
     Request("updateall", <<>>, FALSE),
     Request("use", <<<<"client", "v1">>>>, FALSE),
     Request("uninstall", <<<<"client", "v1">>>>, FALSE),
     Request("uninstall", <<<<"client", "v2">>>>, TRUE),
     Request("uninstallall", <<<<"client", Latest>>>>, FALSE),
     Request("start", <<<<"client", Latest>>>>, FALSE)}

Symmetry == Permutations(Proc)
=============================================================================
