----------------------------- MODULE MCCluster ------------------------------
(* Cluster for TLC: what the program asks of which node. *)
EXTENDS Cluster
CONSTANTS n1, n2, n3, a

(* n1 adds the others, as in main.go, and puts an item.  n2, which leads   *)
(* nothing at first, is asked to add n1 as well, and to remove it.         *)
Asks ==
  {<<n1, "add", n2>>, <<n1, "add", n3>>, <<n2, "add", n1>>,
   <<n1, "put", a>>, <<n2, "remove", n1>>}

(* n1 adds n2, and both are asked to put an item.                          *)
Joining == {<<n1, "add", n2>>, <<n1, "put", a>>, <<n2, "put", a>>}
=============================================================================
