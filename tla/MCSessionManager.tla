-------------------------- MODULE MCSessionManager --------------------------
(* Up to three servers; keys that rank them differently.                   *)
EXTENDS SessionManager, TLC

CONSTANTS k1, k2

MCRank ==
  [k \in Key |->
     IF k = k1 THEN [s \in Server |-> s] ELSE [s \in Server |-> 10 - s]]

(* -1 goes back to the default, 0 expires at the next tick, 2 outlasts the *)
(* default.                                                                *)
MCCustomTimeout == {-1, 0, 2}

(* A session given 0 lapses, and one set back to the default revives.      *)
MCShortTimeout == {-1, 0}
=============================================================================
