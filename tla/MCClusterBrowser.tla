-------------------------- MODULE MCClusterBrowser --------------------------
(***************************************************************************)
(* A repository with a pair and a single, and another with one cluster; a   *)
(* refresh of the store brings an archive without the single.               *)
(***************************************************************************)
EXTENDS ClusterBrowser

BrowsedClusters == {1, 2, 3}
BrowsedRepoOf   == [c \in BrowsedClusters |-> IF c = 3 THEN "other" ELSE "first"]
BrowsedMembers  == [c \in BrowsedClusters |-> CASE c = 1 -> {1, 2} [] c = 2 -> {3} [] c = 3 -> {4}]
BrowsedMatching == {2}
CopiedClusters  == {1, 3}
=============================================================================
