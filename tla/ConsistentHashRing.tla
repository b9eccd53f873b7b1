------------------------- MODULE ConsistentHashRing -------------------------
(***************************************************************************)
(* The consistent hash ring (consistent_hash.cpp): a sorted map from hash  *)
(* positions to server ids, in which every active server owns the          *)
(* positions of its virtual nodes, and the list of active servers.  Every  *)
(* method holds the ring's own mutex, so each is one atomic step.          *)
(***************************************************************************)
EXTENDS ServerList, FiniteSetsExt

CONSTANTS
  Server,     \* the backend ids
  Key,        \* the session keys
  HashSize,   \* the number of hash values: 2^64 in the code
  VnodeHash,  \* VnodeHash[s]: hashKey of "server_<s>_vnode_<i>", every i
  KeyHash     \* KeyHash[k]: hashKey(k)

Hash == 0..(HashSize - 1)

ASSUME RingConstants ==
  /\ Server \subseteq Nat
  /\ HashSize \in Nat \ {0}
  /\ VnodeHash \in [Server -> SUBSET Hash]
  /\ KeyHash \in [Key -> Hash]

(* vnodes_per_server_ is positive, and no two servers have virtual nodes   *)
(* of the same hash: so for the 8 * 150 names of the shipped configuration *)
ASSUME VnodeLayout ==
  /\ \A s \in Server : VnodeHash[s] # {}
  /\ \A s, t \in Server : s # t => VnodeHash[s] \cap VnodeHash[t] = {}

VARIABLES
  ring,            \* ring_: a function from some hash values to server ids
  active_servers   \* active_servers_: the ids added, in the order added

vars == <<ring, active_servers>>

NoServer == -1

OnRing == Members(active_servers)

(* Mutant: upper_bound, which skips a node exactly at the key's hash.      *)
StrictlyAfter(H, h) ==
  LET later == {g \in H : g > h}
  IN  IF later # {} THEN Min(later) ELSE Min(H)

(* std::map::lower_bound on the map's hash values H, and the wrap to       *)
(* begin() past the last node.                                             *)
AtOrAfter(H, h) ==
  LET later == {g \in H : g >= h}
  IN  IF later # {} THEN Min(later) ELSE Min(H)

(* Mutant: the textbook alternative to a ring, hash modulo server count.   *)
getServerModulo(k) ==
  IF active_servers = <<>> THEN NoServer
  ELSE active_servers[(KeyHash[k] % Len(active_servers)) + 1]

getServer(k) ==
  IF DOMAIN ring = {} THEN NoServer
  ELSE ring[AtOrAfter(DOMAIN ring, KeyHash[k])]

(* Mutant: the search of the active list is left out.                      *)
addServerAgain(s) ==
  /\ ring' = [h \in DOMAIN ring \cup VnodeHash[s] |->
                IF h \in VnodeHash[s] THEN s ELSE ring[h]]
  /\ Len(active_servers) < 2 * Cardinality(Server)
  /\ active_servers' = Append(active_servers, s)

(* addServer returns early, changing nothing, for a server already active. *)
addServer(s) ==
  /\ s \notin OnRing
  /\ ring' = [h \in DOMAIN ring \cup VnodeHash[s] |->
                IF h \in VnodeHash[s] THEN s ELSE ring[h]]
  /\ active_servers' = Append(active_servers, s)

(* Mutant: the server leaves the list and its virtual nodes stay.          *)
removeServerListOnly(s) ==
  /\ ring' = ring
  /\ active_servers' = Without(active_servers, s)

(* Mutant: the loop over the virtual nodes stops one short.                *)
removeServerButOne(s) ==
  /\ ring' = [h \in DOMAIN ring \ (VnodeHash[s] \ {Max(VnodeHash[s])}) |->
                ring[h]]
  /\ active_servers' = Without(active_servers, s)

(* The hashes of the server's virtual nodes are erased whoever owns them.  *)
removeServer(s) ==
  /\ ring' = [h \in DOMAIN ring \ VnodeHash[s] |-> ring[h]]
  /\ active_servers' = Without(active_servers, s)
-----------------------------------------------------------------------------
Init ==
  /\ ring = [h \in {} |-> NoServer]
  /\ active_servers = <<>>

Next == \E s \in Server : addServer(s) \/ removeServer(s)

Spec == Init /\ [][Next]_vars
-----------------------------------------------------------------------------
(* The ring maps hash values to servers; the list has no id twice.         *)
TypeOK ==
  /\ DOMAIN ring \subseteq Hash
  /\ ring \in [DOMAIN ring -> Server]
  /\ active_servers \in Seq(Server)
  /\ NoRepeats(active_servers)

(* After any sequence of additions and removals the ring holds exactly the *)
(* virtual nodes of the servers in the active list, each mapped to its     *)
(* owner: removeServer (consistent_hash.cpp) erases nothing of another     *)
(* server, leaves nothing of its own behind, and the two pieces of state   *)
(* never drift apart, so getServer only returns servers that are active.   *)
RingExact ==
  /\ DOMAIN ring = UNION {VnodeHash[s] : s \in OnRing}
  /\ \A s \in OnRing : \A h \in VnodeHash[s] : ring[h] = s

DisruptionStep(k) ==
  getServer(k)' # getServer(k) =>
    getServer(k) \notin OnRing' \/ getServer(k)' \notin OnRing

(* Minimal disruption (the promise of consistent_hash.h, lines 6-7): a key *)
(* changes server in a step only if its old server left the ring in that   *)
(* step, or its new server joined in it.                                   *)
MinimalDisruption == [][\A k \in Key : DisruptionStep(k)]_vars
-----------------------------------------------------------------------------
(* The clockwise distance from key k to the nearest virtual node of s.     *)
Distance(k, s) == Min({(h - KeyHash[k]) % HashSize : h \in VnodeHash[s]})

Ranking == [k \in Key |-> [s \in Server |-> Distance(k, s)]]

Abstract == INSTANCE PreferenceRing WITH Rank <- Ranking

(* Every lookup, wrap-around included, returns the active server nearest   *)
(* in clockwise distance: what getServer of the abstract ring returns.     *)
LookupIsClosest == \A k \in Key : getServer(k) = Abstract!getServer(k)

Assignment == INSTANCE KeyAssignment WITH
  Rank <- Ranking,
  up <- OnRing,
  owner <- [k \in Key |-> getServer(k)]

(* The ring of virtual nodes implements the assignment of keys to servers, *)
(* seen through getServer alone: by addServer and removeServer every key   *)
(* goes where the clockwise distances say and from nowhere else, and a     *)
(* call that is repeated, or names a server that is not there, moves none. *)
ImplementsAssignment == Assignment!Spec
=============================================================================
