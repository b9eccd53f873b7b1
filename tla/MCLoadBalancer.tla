--------------------------- MODULE MCLoadBalancer ---------------------------
(* Two servers; every key ranks them in id order.                          *)
EXTENDS LoadBalancer, TLC

MCRank == [k \in Key |-> [s \in Server |-> s]]

(* Requesters that make one request each are alike. *)
MCOnce == [r \in Requester |-> 1]

MCSymmetry == Permutations(Requester)

(* A requester that meets the session its first request has made.          *)
MCTwice == [r \in Requester |-> 2]
=============================================================================
