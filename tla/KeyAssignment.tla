--------------------------- MODULE KeyAssignment ----------------------------
(***************************************************************************)
(* What a user of the consistent hash ring sees of it, as key after key is *)
(* looked up: which server each key is assigned to.  A server that joins   *)
(* takes over the keys that rank it before their server; a server that     *)
(* leaves gives each of its keys, and no other, to the server next in that *)
(* key's ranking.                                                          *)
(***************************************************************************)
EXTENDS Integers

CONSTANTS
  Server,     \* the backend ids
  Key,        \* the session keys
  Rank        \* Rank[k][s]: how far server s is from key k

VARIABLES
  up,         \* the servers that have joined and not left
  owner       \* owner[k]: the server of key k

vars == <<up, owner>>

Nobody == -1

Best(k, S) == CHOOSE s \in S : \A t \in S : Rank[k][s] <= Rank[k][t]

Init ==
  /\ up = {}
  /\ owner = [k \in Key |-> Nobody]

Join(s) ==
  /\ s \notin up
  /\ up' = up \cup {s}
  /\ owner' = [k \in Key |->
       IF up = {} \/ Rank[k][s] < Rank[k][owner[k]] THEN s ELSE owner[k]]

Leave(s) ==
  /\ s \in up
  /\ up' = up \ {s}
  /\ owner' = [k \in Key |->
       IF owner[k] # s THEN owner[k]
       ELSE IF up' = {} THEN Nobody ELSE Best(k, up')]

Next == \E s \in Server : Join(s) \/ Leave(s)

Spec == Init /\ [][Next]_vars
=============================================================================
