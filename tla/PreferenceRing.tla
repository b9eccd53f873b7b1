--------------------------- MODULE PreferenceRing ---------------------------
(***************************************************************************)
(* What ConsistentHashRing promises to the rest of the engine, with the    *)
(* hash positions abstracted away: every key ranks the servers in a fixed  *)
(* order that does not depend on which servers are up, and getServer       *)
(* returns the active server the key likes best.  ConsistentHashRing.tla   *)
(* shows that the lookups of the ring of virtual nodes are these; the      *)
(* modules above the ring use this one.                                    *)
(***************************************************************************)
EXTENDS ServerList

CONSTANTS
  Server,     \* the backend ids, 0 .. NUM_BACKEND_SERVERS - 1
  Key,        \* the session keys, FiveTuple::toKey()
  Rank        \* Rank[k][s]: how far server s is from key k, clockwise

ASSUME ServerAssumption == Server \subseteq Nat

ASSUME RankAssumption ==
  /\ Rank \in [Key -> [Server -> Nat]]
  /\ \A k \in Key : \A s, t \in Server : Rank[k][s] = Rank[k][t] => s = t

VARIABLE active_servers     \* the ids on the ring, in the order added

(* The value getServer returns when there is nobody to return. *)
NoServer == -1

OnRing == Members(active_servers)

(* The server of S that key k ranks first. *)
Closest(k, S) == CHOOSE s \in S : \A t \in S : Rank[k][s] <= Rank[k][t]

getServer(k) ==
  IF active_servers = <<>> THEN NoServer ELSE Closest(k, OnRing)

(* The first active server other than s, in list order: forceReassign asks *)
(* getActiveServers for it.                                                *)
FirstOther(s) ==
  active_servers[CHOOSE i \in 1..Len(active_servers) :
                   /\ active_servers[i] # s
                   /\ \A j \in 1..(i - 1) : active_servers[j] = s]

(* addServer returns early, changing nothing, for a server already active. *)
addServer(s) ==
  /\ s \notin OnRing
  /\ active_servers' = Append(active_servers, s)

removeServer(s) ==
  active_servers' = Without(active_servers, s)
-----------------------------------------------------------------------------
RingInit == active_servers = <<>>

RingNext == \E s \in Server : addServer(s) \/ removeServer(s)

RingTypeOK ==
  /\ active_servers \in Seq(Server)
  /\ NoRepeats(active_servers)
=============================================================================
