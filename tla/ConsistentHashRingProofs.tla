---------------------- MODULE ConsistentHashRingProofs ----------------------
(***************************************************************************)
(* Proofs about the ring of virtual nodes, for every number of servers and *)
(* virtual nodes and every layout in which no two servers collide.         *)
(***************************************************************************)
EXTENDS ConsistentHashRing, ListTheorems

(* The minimum of a set of hash values is the one element below the rest.  *)
LEMMA LeastHash ==
  ASSUME NEW H, H \subseteq Nat, H # {}
  PROVE  /\ Min(H) \in H
         /\ \A h \in H : Min(H) <= h
         /\ \A x \in H : (\A h \in H : x <= h) => x = Min(H)
<1>1. \E x \in H : \A h \in H : x <= h
  BY LeastNatural
<1>2. Min(H) \in H /\ \A h \in H : Min(H) <= h
  BY <1>1 DEF Min
<1>3. ASSUME NEW x \in H, \A h \in H : x <= h
      PROVE  x = Min(H)
  <2>1. x <= Min(H) /\ Min(H) <= x /\ x \in Nat /\ Min(H) \in Nat
    BY <1>2, <1>3
  <2> QED BY <2>1
<1> QED BY <1>2, <1>3

(* The clockwise walk ends at a node of the ring.                          *)
LEMMA WalkEnds ==
  ASSUME NEW H, H \subseteq Nat, H # {}, NEW h \in Nat
  PROVE  AtOrAfter(H, h) \in H
<1> DEFINE later == {g \in H : g >= h}
<1>1. CASE later # {}
  <2>1. Min(later) \in later
    BY <1>1, LeastHash
  <2> QED BY <1>1, <2>1 DEF AtOrAfter
<1>2. CASE later = {}
  BY <1>2, LeastHash DEF AtOrAfter
<1> QED BY <1>1, <1>2

(* If the walk on a ring ends at a node that a part of the ring has too,   *)
(* the walk on that part ends there as well.                               *)
LEMMA WalkOnPart ==
  ASSUME NEW H, H \subseteq Nat, NEW G, G \subseteq H, NEW h \in Nat,
         AtOrAfter(H, h) \in G
  PROVE  AtOrAfter(G, h) = AtOrAfter(H, h)
<1> DEFINE laterH == {g \in H : g >= h}
           laterG == {g \in G : g >= h}
           p == AtOrAfter(H, h)
<1>1. laterG \subseteq laterH /\ laterH \subseteq Nat /\ G # {} /\ H # {}
  OBVIOUS
<1>2. CASE laterH # {}
  <2>1. p = Min(laterH)
    BY <1>2 DEF AtOrAfter
  <2>2. p \in laterH /\ \A g \in laterH : p <= g
    BY <1>1, <1>2, <2>1, LeastHash
  <2>3. p \in laterG /\ \A g \in laterG : p <= g
    BY <2>2
  <2>4. p = Min(laterG)
    BY <1>1, <2>3, LeastHash
  <2> QED BY <2>3, <2>4 DEF AtOrAfter
<1>3. CASE laterH = {}
  <2>1. p = Min(H) /\ laterG = {}
    BY <1>1, <1>3 DEF AtOrAfter
  <2>2. p \in G /\ \A g \in G : p <= g
    <3>1. \A g \in H : Min(H) <= g
      BY <1>1, LeastHash
    <3>2. \A g \in H : p <= g
      BY <2>1, <3>1
    <3> QED BY <3>2
  <2>3. p = Min(G)
    BY <1>1, <2>2, LeastHash
  <2>4. AtOrAfter(G, h) = Min(G)
    BY <2>1 DEF AtOrAfter
  <2> QED BY <2>3, <2>4
<1> QED BY <1>2, <1>3
-----------------------------------------------------------------------------
(* The inductive invariant: the list is well formed and the ring is the    *)
(* union of the layouts of its members.                                    *)
Inv == TypeOK /\ RingExact

(* An addition keeps the invariant and puts exactly the server's virtual   *)
(* nodes on the ring.                                                      *)
LEMMA AddStep ==
  ASSUME Inv, NEW s \in Server, addServer(s)
  PROVE  /\ Inv'
         /\ OnRing' = OnRing \cup {s}
         /\ DOMAIN ring' = DOMAIN ring \cup VnodeHash[s]
         /\ \A h \in DOMAIN ring : h \notin VnodeHash[s] => ring'[h] = ring[h]
<1> USE DEF Inv, TypeOK
<1>1. /\ active_servers' \in Seq(Server)
      /\ NoRepeats(active_servers')
      /\ OnRing' = OnRing \cup {s}
  BY AppendMembers DEF addServer, OnRing
<1>2. /\ DOMAIN ring' = DOMAIN ring \cup VnodeHash[s]
      /\ \A h \in DOMAIN ring' :
           ring'[h] = IF h \in VnodeHash[s] THEN s ELSE ring[h]
      /\ ring' = [h \in DOMAIN ring' |-> ring'[h]]
  BY DEF addServer
<1>3. VnodeHash[s] \subseteq Hash
  BY RingConstants
<1>4. \A h \in DOMAIN ring' : ring'[h] \in Server
  BY <1>2
<1>5. OnRing \subseteq Server
  BY MembersType DEF OnRing
<1>6. DOMAIN ring' = UNION {VnodeHash[t] : t \in OnRing'}
  BY <1>1, <1>2 DEF RingExact
<1>7. ASSUME NEW t \in OnRing', NEW h \in VnodeHash[t]
      PROVE  ring'[h] = t
  <2>1. h \in DOMAIN ring'
    BY <1>6
  <2>2. CASE t = s
    BY <1>2, <2>1, <2>2
  <2>3. CASE t # s
    <3>1. t \in OnRing /\ t \in Server
      BY <1>1, <1>5, <2>3
    <3>2. h \notin VnodeHash[s]
      BY <2>3, <3>1, VnodeLayout
    <3> QED BY <1>2, <2>1, <3>1, <3>2 DEF RingExact
  <2> QED BY <2>2, <2>3
<1>8. TypeOK'
  BY <1>1, <1>2, <1>3, <1>4
<1>9. RingExact'
  BY <1>6, <1>7 DEF RingExact
<1> QED BY <1>1, <1>2, <1>8, <1>9

(* A removal keeps the invariant and takes exactly the server's virtual    *)
(* nodes off the ring.                                                     *)
LEMMA RemoveStep ==
  ASSUME Inv, NEW s \in Server, removeServer(s)
  PROVE  /\ Inv'
         /\ OnRing' = OnRing \ {s}
         /\ DOMAIN ring' = DOMAIN ring \ VnodeHash[s]
         /\ \A h \in DOMAIN ring' : ring'[h] = ring[h]
<1> USE DEF Inv, TypeOK
<1>1. /\ active_servers' \in Seq(Server)
      /\ NoRepeats(active_servers')
      /\ OnRing' = OnRing \ {s}
  BY WithoutMembers DEF removeServer, OnRing
<1>2. /\ DOMAIN ring' = DOMAIN ring \ VnodeHash[s]
      /\ \A h \in DOMAIN ring' : ring'[h] = ring[h]
      /\ ring' = [h \in DOMAIN ring' |-> ring'[h]]
  BY DEF removeServer
<1>3. OnRing \subseteq Server
  BY MembersType DEF OnRing
<1>4. \A t \in OnRing : t # s => VnodeHash[t] \cap VnodeHash[s] = {}
  BY <1>3, VnodeLayout
<1>5. DOMAIN ring' = UNION {VnodeHash[t] : t \in OnRing'}
  BY <1>1, <1>2, <1>4 DEF RingExact
<1>6. ASSUME NEW t \in OnRing', NEW h \in VnodeHash[t]
      PROVE  ring'[h] = t
  <2>1. t \in OnRing /\ h \in DOMAIN ring'
    BY <1>1, <1>5
  <2> QED BY <1>2, <2>1 DEF RingExact
<1>7. TypeOK'
  BY <1>1, <1>2
<1>8. RingExact'
  BY <1>5, <1>6 DEF RingExact
<1> QED BY <1>1, <1>2, <1>7, <1>8

(* The ring and the list start empty together and stay together.           *)
LEMMA InvInductive == Spec => []Inv
<1>1. Init => Inv
  BY DEF Init, Inv, TypeOK, RingExact, NoRepeats, OnRing, Members
<1>2. ASSUME Inv, [Next]_vars PROVE Inv'
  <2>1. CASE UNCHANGED vars
    BY <1>2, <2>1 DEF vars, Inv, TypeOK, RingExact, OnRing
  <2>2. CASE Next
    BY <1>2, <2>2, AddStep, RemoveStep DEF Next
  <2> QED BY <1>2, <2>1, <2>2
<1> QED BY <1>1, <1>2, PTL DEF Spec

(* The type invariant of the ring.                                         *)
THEOREM RingTypeCorrect == Spec => []TypeOK
BY InvInductive, PTL DEF Inv

(* The ring holds the virtual nodes of the active servers and no others.   *)
THEOREM RingExactHolds == Spec => []RingExact
BY InvInductive, PTL DEF Inv
-----------------------------------------------------------------------------
(* A lookup returns the owner of the node it ends at, an active server, or *)
(* -1 on an empty ring.                                                    *)
LEMMA LookupActive ==
  ASSUME Inv, NEW k \in Key
  PROVE  /\ DOMAIN ring = {} => getServer(k) \notin OnRing
         /\ DOMAIN ring # {} =>
              /\ AtOrAfter(DOMAIN ring, KeyHash[k]) \in DOMAIN ring
              /\ getServer(k) = ring[AtOrAfter(DOMAIN ring, KeyHash[k])]
<1>1. OnRing \subseteq Nat /\ DOMAIN ring \subseteq Nat /\ KeyHash[k] \in Nat
  <2>1. OnRing \subseteq Server
    BY MembersType DEF Inv, TypeOK, OnRing
  <2>2. Hash \subseteq Nat
    BY RingConstants DEF Hash
  <2> QED BY <2>1, <2>2, RingConstants DEF Inv, TypeOK
<1>2. CASE DOMAIN ring = {}
  BY <1>1, <1>2 DEF getServer, NoServer
<1>3. CASE DOMAIN ring # {}
  BY <1>1, <1>3, WalkEnds DEF getServer
<1> QED BY <1>2, <1>3

(* Minimal disruption: a step moves only the keys of a server that leaves, *)
(* or moves keys only to a server that joins.                              *)
THEOREM MinimalDisruptionHolds == Spec => MinimalDisruption
<1>1. ASSUME Inv, NEW s \in Server, addServer(s), NEW k \in Key
      PROVE  DisruptionStep(k)
  <2> DEFINE h == KeyHash[k]
             D == DOMAIN ring
             E == DOMAIN ring'
  <2>1. /\ Inv' /\ E = D \cup VnodeHash[s] /\ s \notin OnRing
        /\ \A g \in D : g \notin VnodeHash[s] => ring'[g] = ring[g]
    BY <1>1, AddStep DEF addServer
  <2>2. E # {} /\ VnodeHash[s] \subseteq E /\ s \in OnRing'
    BY <1>1, <2>1, AddStep, VnodeLayout
  <2>3. E \subseteq Nat /\ h \in Nat
    BY <2>1, RingConstants DEF Inv, TypeOK, Hash
  <2>4. AtOrAfter(E, h) \in E /\ getServer(k)' = ring'[AtOrAfter(E, h)]
    BY <2>2, <2>3, WalkEnds DEF getServer
  <2>5. CASE AtOrAfter(E, h) \in VnodeHash[s]
    <3>1. getServer(k)' = s
      BY <2>1, <2>2, <2>4, <2>5 DEF Inv, RingExact
    <3> QED BY <2>1, <3>1 DEF DisruptionStep
  <2>6. CASE AtOrAfter(E, h) \notin VnodeHash[s]
    <3>1. AtOrAfter(E, h) \in D
      BY <2>1, <2>4, <2>6
    <3>2. AtOrAfter(D, h) = AtOrAfter(E, h)
      BY <2>1, <2>3, <3>1, WalkOnPart
    <3>3. getServer(k) = ring[AtOrAfter(D, h)]
      BY <1>1, <3>1, LookupActive
    <3>4. getServer(k)' = getServer(k)
      BY <2>1, <2>4, <2>6, <3>1, <3>2, <3>3
    <3> QED BY <3>4 DEF DisruptionStep
  <2> QED BY <2>5, <2>6
<1>2. ASSUME Inv, NEW s \in Server, removeServer(s), NEW k \in Key
      PROVE  DisruptionStep(k)
  <2> DEFINE h == KeyHash[k]
             D == DOMAIN ring
             E == DOMAIN ring'
  <2>1. /\ Inv' /\ E = D \ VnodeHash[s] /\ OnRing' = OnRing \ {s}
        /\ \A g \in E : ring'[g] = ring[g]
    BY <1>2, RemoveStep
  <2>2. D \subseteq Nat /\ h \in Nat
    BY <1>2, RingConstants DEF Inv, TypeOK, Hash
  <2>3. CASE D = {}
    <3>1. getServer(k) \notin OnRing
      BY <1>2, <2>3, LookupActive
    <3> QED BY <2>1, <3>1 DEF DisruptionStep
  <2>4. CASE D # {} /\ AtOrAfter(D, h) \in E
    <3>1. AtOrAfter(E, h) = AtOrAfter(D, h)
      BY <2>1, <2>2, <2>4, WalkOnPart
    <3>2. getServer(k) = ring[AtOrAfter(D, h)]
      BY <1>2, <2>4, LookupActive
    <3>3. getServer(k)' = ring'[AtOrAfter(E, h)]
      BY <2>4 DEF getServer
    <3>4. getServer(k)' = getServer(k)
      BY <2>1, <2>4, <3>1, <3>2, <3>3
    <3> QED BY <3>4 DEF DisruptionStep
  <2>5. CASE D # {} /\ AtOrAfter(D, h) \notin E
    <3>1. AtOrAfter(D, h) \in D /\ getServer(k) = ring[AtOrAfter(D, h)]
      BY <1>2, <2>5, LookupActive
    <3>2. AtOrAfter(D, h) \in VnodeHash[s]
      BY <2>1, <2>5, <3>1
    <3>3. PICK t \in OnRing : AtOrAfter(D, h) \in VnodeHash[t]
      BY <1>2, <3>1 DEF Inv, RingExact
    <3>4. t \in Server
      BY <1>2, MembersType DEF Inv, TypeOK, OnRing
    <3>5. t = s
      BY <3>2, <3>3, <3>4, VnodeLayout
    <3>6. getServer(k) = s
      BY <1>2, <3>1, <3>3, <3>5 DEF Inv, RingExact
    <3> QED BY <2>1, <3>6 DEF DisruptionStep
  <2> QED BY <2>3, <2>4, <2>5
<1>3. ASSUME UNCHANGED vars, NEW k \in Key
      PROVE  DisruptionStep(k)
  BY <1>3 DEF vars, DisruptionStep, getServer
<1>4. Inv /\ [Next]_vars => [\A k \in Key : DisruptionStep(k)]_vars
  BY <1>1, <1>2, <1>3 DEF Next
<1> QED BY <1>4, InvInductive, PTL DEF Spec, MinimalDisruption
-----------------------------------------------------------------------------
(* Distances are taken modulo the number of hash values: going on from h   *)
(* past the last of them leads to the first.                               *)
LEMMA Clockwise ==
  ASSUME NEW h \in Hash, NEW g \in Hash
  PROVE  (g - h) % HashSize = IF g >= h THEN g - h ELSE (g - h) + HashSize
BY RingConstants DEF Hash

(* The walk ends at the node with the smallest clockwise distance, and no  *)
(* other node is as near.                                                  *)
LEMMA NearestNode ==
  ASSUME NEW H, H \subseteq Hash, H # {}, NEW h \in Hash, NEW g \in H,
         g # AtOrAfter(H, h)
  PROVE  (AtOrAfter(H, h) - h) % HashSize < (g - h) % HashSize
<1> DEFINE later == {f \in H : f >= h}
           p == AtOrAfter(H, h)
<1>1. HashSize \in Nat /\ h \in Nat /\ h < HashSize /\ H \subseteq Nat
  BY RingConstants DEF Hash
<1>2. p \in H /\ p \in Hash /\ g \in Hash /\ g # p
  BY <1>1, WalkEnds
<1>3. p \in Nat /\ g \in Nat /\ p < HashSize /\ g < HashSize
  BY <1>1, <1>2 DEF Hash
<1>4. /\ (p - h) % HashSize = IF p >= h THEN p - h ELSE (p - h) + HashSize
      /\ (g - h) % HashSize = IF g >= h THEN g - h ELSE (g - h) + HashSize
  BY <1>2, Clockwise
<1>5. CASE later # {}
  <2>1. p = Min(later)
    BY <1>5 DEF AtOrAfter
  <2>2. p \in later /\ \A f \in later : p <= f
    BY <1>1, <1>5, <2>1, LeastHash
  <2>3. p >= h /\ (g >= h => p <= g)
    BY <2>2
  <2>4. (p - h) % HashSize < (g - h) % HashSize
    <3> HIDE DEF p
    <3> QED BY <1>1, <1>2, <1>3, <1>4, <2>3
  <2> QED BY <2>4
<1>6. CASE later = {}
  <2>1. p = Min(H)
    BY <1>6 DEF AtOrAfter
  <2>2. \A f \in H : Min(H) <= f
    BY <1>1, LeastHash
  <2>3. p <= g /\ ~(g >= h) /\ ~(p >= h)
    BY <1>2, <1>6, <2>1, <2>2
  <2>4. (p - h) % HashSize < (g - h) % HashSize
    <3> HIDE DEF p
    <3> QED BY <1>1, <1>2, <1>3, <1>4, <2>3
  <2> QED BY <2>4
<1> QED BY <1>5, <1>6

(* A server's distance is that of one of its nodes, and none is nearer.    *)
LEMMA DistanceOfServer ==
  ASSUME NEW k \in Key, NEW s \in Server
  PROVE  /\ Distance(k, s) \in Nat
         /\ \E g \in VnodeHash[s] :
              Distance(k, s) = (g - KeyHash[k]) % HashSize
         /\ \A g \in VnodeHash[s] :
              Distance(k, s) <= (g - KeyHash[k]) % HashSize
<1> DEFINE D == {(g - KeyHash[k]) % HashSize : g \in VnodeHash[s]}
<1>1. /\ KeyHash[k] \in Hash /\ VnodeHash[s] \subseteq Hash
      /\ VnodeHash[s] # {}
  BY RingConstants, VnodeLayout
<1>2. \A g \in VnodeHash[s] : (g - KeyHash[k]) % HashSize \in Nat
  BY <1>1, RingConstants DEF Hash
<1>3. D \subseteq Nat /\ D # {}
  BY <1>1, <1>2
<1>4. Min(D) \in D /\ \A x \in D : Min(D) <= x
  BY <1>3, LeastHash
<1>5. Distance(k, s) = Min(D)
  BY DEF Distance
<1> HIDE DEF D
<1>6. Distance(k, s) \in D /\ \A x \in D : Distance(k, s) <= x
  BY <1>4, <1>5
<1> QED BY <1>3, <1>6 DEF D

(* A lookup on a ring with nodes returns the active server whose nearest   *)
(* virtual node is nearest of all, and no other is as near.                *)
Nearest(k) ==
  /\ OnRing \subseteq Server
  /\ OnRing = {} => getServer(k) = NoServer
  /\ OnRing # {} =>
       /\ getServer(k) \in OnRing
       /\ \A t \in OnRing \ {getServer(k)} :
            Distance(k, getServer(k)) < Distance(k, t)

(* The walk from the key to the next node finds it. *)
LEMMA LookupNearest ==
  ASSUME Inv, NEW k \in Key
  PROVE  Nearest(k)
<1> DEFINE h == KeyHash[k]
           p == AtOrAfter(DOMAIN ring, h)
           s == getServer(k)
<1>1. /\ DOMAIN ring \subseteq Hash /\ DOMAIN ring \subseteq Nat
      /\ h \in Hash /\ h \in Nat /\ OnRing \subseteq Server
  <2>1. OnRing \subseteq Server
    BY MembersType DEF Inv, TypeOK, OnRing
  <2> QED BY <2>1, RingConstants DEF Inv, TypeOK, Hash
<1>2. DOMAIN ring = UNION {VnodeHash[t] : t \in OnRing}
  BY DEF Inv, RingExact
<1>3. CASE OnRing = {}
  <2>1. DOMAIN ring = {}
    BY <1>2, <1>3
  <2> QED BY <1>1, <1>3, <2>1 DEF Nearest, getServer
<1>4. CASE OnRing # {}
  <2>1. DOMAIN ring # {}
    BY <1>1, <1>2, <1>4, VnodeLayout
  <2>2. p \in DOMAIN ring /\ s = ring[p]
    BY <2>1, LookupActive
  <2>3. s \in OnRing /\ p \in VnodeHash[s]
    <3>1. PICK u \in OnRing : p \in VnodeHash[u]
      BY <1>2, <2>2
    <3> QED BY <2>2, <3>1 DEF Inv, RingExact
  <2>4. s \in Server
    BY <1>1, <2>3
  <2>5. Distance(k, s) \in Nat /\ Distance(k, s) <= (p - h) % HashSize
    BY <2>3, <2>4, DistanceOfServer
  <2>6. ASSUME NEW t \in OnRing, t # s
        PROVE  Distance(k, s) < Distance(k, t)
    <3>1. t \in Server
      BY <1>1
    <3>2. Distance(k, t) \in Nat
      BY <3>1, DistanceOfServer
    <3>3. PICK g \in VnodeHash[t] : Distance(k, t) = (g - h) % HashSize
      BY <3>1, DistanceOfServer
    <3>4. g \in DOMAIN ring /\ g # p
      BY <1>2, <2>3, <2>4, <2>6, <3>1, VnodeLayout
    <3>5. (p - h) % HashSize < (g - h) % HashSize
      BY <1>1, <2>1, <3>4, NearestNode
    <3>6. (p - h) % HashSize \in Int
      BY <1>1, <2>2, RingConstants DEF Hash
    <3> HIDE DEF p, h, s
    <3> QED BY <2>5, <3>2, <3>3, <3>5, <3>6
  <2> HIDE DEF s
  <2> QED BY <1>1, <1>4, <2>3, <2>6 DEF Nearest, s
<1> QED BY <1>3, <1>4

(* The nearest server on the ring is the one that the abstract ring, and   *)
(* the assignment of keys, choose: there is no tie.                        *)
LEMMA Chosen ==
  ASSUME NEW k \in Key, NEW S \in SUBSET Server, NEW s \in S,
         \A t \in S \ {s} : Distance(k, s) < Distance(k, t)
  PROVE  /\ Abstract!Closest(k, S) = s
         /\ Assignment!Best(k, S) = s
<1> DEFINE Least(t) == \A v \in S : Distance(k, t) <= Distance(k, v)
<1>1. \A t \in S : Distance(k, t) \in Nat
  BY DistanceOfServer
<1>2. Least(s) /\ \A t \in S : Least(t) => t = s
  BY <1>1
<1>3. (CHOOSE t \in S : Least(t)) = s
  BY <1>2
<1>4. /\ Abstract!Closest(k, S) = CHOOSE t \in S : Least(t)
      /\ Assignment!Best(k, S) = CHOOSE t \in S : Least(t)
  BY DEF Abstract!Closest, Assignment!Best, Ranking
<1> QED BY <1>3, <1>4

(* Every lookup returns the active server nearest in clockwise distance.   *)
THEOREM LookupIsClosestHolds == Spec => []LookupIsClosest
<1>1. ASSUME Inv, NEW k \in Key
      PROVE  getServer(k) = Abstract!getServer(k)
  <2>1. Nearest(k)
    BY <1>1, LookupNearest
  <2>2. active_servers = <<>> <=> OnRing = {}
    <3>1. active_servers \in Seq(Server)
      BY <1>1 DEF Inv, TypeOK
    <3>2. active_servers # <<>> => 1 \in 1..Len(active_servers)
      BY <3>1
    <3> QED BY <3>2 DEF OnRing, Members
  <2>3. Abstract!OnRing = OnRing
    BY DEF Abstract!OnRing, Abstract!Members, OnRing, Members
  <2>4. CASE OnRing = {}
    BY <2>1, <2>2, <2>4 DEF Nearest, NoServer, Abstract!getServer,
                            Abstract!NoServer
  <2>5. CASE OnRing # {}
    <3>1. Abstract!Closest(k, OnRing) = getServer(k)
      BY <2>1, <2>5, Chosen DEF Nearest
    <3> QED BY <2>2, <2>3, <2>5, <3>1 DEF Abstract!getServer
  <2> QED BY <2>4, <2>5
<1>2. Inv => LookupIsClosest
  BY <1>1 DEF LookupIsClosest
<1> QED BY <1>2, InvInductive, PTL
-----------------------------------------------------------------------------
AllNearest == \A k \in Key : Nearest(k)

(* A server that joins takes over the keys it is nearest to.               *)
LEMMA JoinRefined ==
  ASSUME AllNearest, AllNearest', Inv, NEW s \in Server, addServer(s)
  PROVE  Assignment!Join(s)
<1>1. s \notin OnRing /\ OnRing' = OnRing \cup {s}
  BY AddStep DEF addServer
<1>2. ASSUME NEW k \in Key
      PROVE  getServer(k)' =
               IF OnRing = {} \/ Distance(k, s) < Distance(k, getServer(k))
               THEN s ELSE getServer(k)
  <2>1. /\ Nearest(k)
        /\ getServer(k)' \in OnRing'
        /\ \A t \in OnRing' \ {getServer(k)'} :
             Distance(k, getServer(k)') < Distance(k, t)
    BY <1>1 DEF AllNearest, Nearest, Distance
  <2>2. \A t \in OnRing' : Distance(k, t) \in Nat
    BY <1>1, <2>1, DistanceOfServer DEF Nearest
  <2> QED BY <1>1, <2>1, <2>2 DEF Nearest
<1>3. ASSUME NEW k \in Key
      PROVE  /\ Ranking[k][s] = Distance(k, s)
             /\ OnRing # {} => Ranking[k][getServer(k)]
                                = Distance(k, getServer(k))
  BY DEF Ranking, AllNearest, Nearest
<1> QED BY <1>1, <1>2, <1>3 DEF Assignment!Join

(* A server that leaves gives its keys, and no other, to the next nearest. *)
LEMMA LeaveRefined ==
  ASSUME AllNearest, AllNearest', Inv, NEW s \in OnRing, removeServer(s)
  PROVE  Assignment!Leave(s)
<1>1. s \in Server /\ OnRing' = OnRing \ {s}
  <2>1. OnRing \subseteq Server
    BY MembersType DEF Inv, TypeOK, OnRing
  <2> QED BY <2>1, RemoveStep
<1>2. ASSUME NEW k \in Key
      PROVE  getServer(k)' =
               IF getServer(k) # s THEN getServer(k)
               ELSE IF OnRing' = {} THEN Assignment!Nobody
               ELSE Assignment!Best(k, OnRing')
  <2>1. /\ getServer(k) \in OnRing
        /\ \A t \in OnRing \ {getServer(k)} :
             Distance(k, getServer(k)) < Distance(k, t)
        /\ OnRing \subseteq Server
    BY DEF AllNearest, Nearest
  <2>2. CASE OnRing' = {}
    <3>1. getServer(k)' = NoServer
      BY <2>2 DEF AllNearest, Nearest, NoServer
    <3> QED BY <1>1, <2>1, <2>2, <3>1 DEF NoServer, Assignment!Nobody
  <2>3. CASE OnRing' # {}
    <3>1. /\ getServer(k)' \in OnRing'
          /\ \A t \in OnRing' \ {getServer(k)'} :
               Distance(k, getServer(k)') < Distance(k, t)
      BY <2>3 DEF AllNearest, Nearest, Distance
    <3>2. Assignment!Best(k, OnRing') = getServer(k)'
      BY <1>1, <2>1, <3>1, Chosen
    <3>3. \A t \in OnRing : Distance(k, t) \in Nat
      BY <2>1, DistanceOfServer
    <3>4. getServer(k) # s => getServer(k)' = getServer(k)
      BY <1>1, <2>1, <3>1, <3>3
    <3> QED BY <2>3, <3>2, <3>4
  <2> QED BY <2>2, <2>3
<1> QED BY <1>1, <1>2 DEF Assignment!Leave

(* The removal of a server that is not there takes no node away. *)
LEMMA AbsentRemoval ==
  ASSUME Inv, NEW s \in Server, s \notin OnRing, removeServer(s)
  PROVE  ring' = ring
<1>1. OnRing \subseteq Server
  BY MembersType DEF Inv, TypeOK, OnRing
<1>2. DOMAIN ring \ VnodeHash[s] = DOMAIN ring
  BY <1>1, VnodeLayout DEF Inv, RingExact
<1>3. ring = [h \in DOMAIN ring |-> ring[h]]
  BY DEF Inv, TypeOK
<1> QED BY <1>2, <1>3 DEF removeServer

(* Seen through getServer, the ring is the assignment of keys: a step is   *)
(* a take-over or a hand-over by clockwise distance, or changes nothing.   *)
THEOREM ImplementsAssignmentHolds == Spec => ImplementsAssignment
<1>1. Init => Assignment!Init
  BY DEF Init, Assignment!Init, OnRing, Members, getServer, NoServer,
         Assignment!Nobody
<1>2. Inv => AllNearest
  BY LookupNearest DEF AllNearest
<1>3. ASSUME Inv, AllNearest, AllNearest', [Next]_vars
      PROVE  [Assignment!Next]_(Assignment!vars)
  <2>1. CASE UNCHANGED vars
    BY <2>1 DEF vars, Assignment!vars, OnRing, getServer
  <2>2. ASSUME NEW s \in Server, addServer(s)
        PROVE  Assignment!Next
    BY <1>3, <2>2, JoinRefined DEF Assignment!Next
  <2>3. ASSUME NEW s \in Server, removeServer(s), s \in OnRing
        PROVE  Assignment!Next
    BY <1>3, <2>3, LeaveRefined DEF Assignment!Next
  <2>4. ASSUME NEW s \in Server, removeServer(s), s \notin OnRing
        PROVE  UNCHANGED Assignment!vars
    <3>1. OnRing' = OnRing
      BY <1>3, <2>4, RemoveStep
    <3>2. ring' = ring
      BY <1>3, <2>4, AbsentRemoval
    <3> QED BY <3>1, <3>2 DEF getServer, Assignment!vars
  <2> QED BY <1>3, <2>1, <2>2, <2>3, <2>4 DEF Next
<1> QED BY <1>1, <1>2, <1>3, InvInductive, PTL
        DEF Spec, ImplementsAssignment, Assignment!Spec
=============================================================================
