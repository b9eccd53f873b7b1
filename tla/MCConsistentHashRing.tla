------------------------ MODULE MCConsistentHashRing ------------------------
(* Five servers with two virtual nodes each on a ring of 16 positions, and *)
(* one key for every position: keys at a node, between nodes and past the  *)
(* last node all occur.                                                    *)
EXTENDS ConsistentHashRing, TLC

MCServer == 0..4

MCKey == 0..15

MCVnodeHash ==
  (0 :> {1, 9}) @@ (1 :> {2, 3}) @@ (2 :> {6, 14}) @@ (3 :> {7, 8})
    @@ (4 :> {11, 4})

MCKeyHash == [k \in MCKey |-> k]
=============================================================================
