------------------------- MODULE LoadBalancerProofs -------------------------
(***************************************************************************)
(* Proofs about concurrent calls of the load balancer, for any number of   *)
(* requesters, servers, keys and calls, and any ranking of the servers.    *)
(***************************************************************************)
EXTENDS LoadBalancer, ListTheorems, FiniteSetTheorems

(* getServer returns a member of the ring, or -1 exactly if it is empty.   *)
LEMMA GetServer ==
  ASSUME NEW k \in Key, RingTypeOK
  PROVE  /\ getServer(k) \in Server \cup {NoServer}
         /\ getServer(k) >= 0 <=> getServer(k) \in OnRing
         /\ getServer(k) < 0 <=> OnRing = {}
         /\ getServer(k) \in Int
<1>1. active_servers \in Seq(Server) /\ Rank[k] \in [Server -> Nat]
  BY RankAssumption DEF RingTypeOK
<1>2. active_servers # <<>> => getServer(k) \in OnRing
  BY <1>1, ClosestMember DEF getServer, Closest, OnRing
<1>3. active_servers = <<>> <=> OnRing = {}
  BY <1>1, ClosestMember DEF OnRing
<1>4. OnRing \subseteq Server
  BY <1>1, MembersType DEF OnRing
<1>5. active_servers = <<>> => getServer(k) = -1
  BY DEF getServer, NoServer
<1>6. getServer(k) \in OnRing => getServer(k) \in Nat
  BY <1>4, ServerAssumption
<1>7. CASE active_servers = <<>>
  BY <1>3, <1>5, <1>7 DEF NoServer
<1>8. CASE active_servers # <<>>
  <2>1. /\ getServer(k) \in OnRing /\ getServer(k) \in Server
        /\ getServer(k) \in Nat /\ OnRing # {}
    BY <1>2, <1>3, <1>4, <1>6, <1>8
  <2> QED BY <2>1
<1> QED BY <1>7, <1>8

(* An addition or a removal keeps the list well formed and changes the set *)
(* of active servers by at most that one server.                           *)
LEMMA RingStep ==
  ASSUME RingTypeOK, NEW s \in Server
  PROVE  /\ addServer(s) => RingTypeOK' /\ OnRing' = OnRing \cup {s}
         /\ removeServer(s) => RingTypeOK' /\ OnRing' = OnRing \ {s}
<1>1. ASSUME addServer(s)
      PROVE  RingTypeOK' /\ OnRing' = OnRing \cup {s}
  BY <1>1, AppendMembers DEF addServer, RingTypeOK, OnRing
<1>2. ASSUME removeServer(s)
      PROVE  RingTypeOK' /\ OnRing' = OnRing \ {s}
  BY <1>2, WithoutMembers DEF removeServer, RingTypeOK, OnRing
<1> QED BY <1>1, <1>2

(* What forceReassign finds in the list when there is a choice. *)
LEMMA OtherMember ==
  ASSUME RingTypeOK, NEW s, Len(active_servers) > 1
  PROVE  FirstOther(s) \in OnRing
<1> DEFINE n == Len(active_servers)
           T == {i \in 1..n : active_servers[i] # s}
<1>1. n \in Nat /\ T \subseteq Nat
  BY DEF RingTypeOK
<1>2. T # {}
  BY <1>1 DEF RingTypeOK, NoRepeats
<1>3. PICK m \in T : \A i \in T : m <= i
  BY <1>1, <1>2, LeastNatural
<1>4. \A j \in 1..(m - 1) : active_servers[j] = s
  BY <1>1, <1>3
<1>5. \E i \in 1..n : active_servers[i] # s
                     /\ \A j \in 1..(i - 1) : active_servers[j] = s
  BY <1>3, <1>4
<1>6. PICK i \in 1..n : FirstOther(s) = active_servers[i]
  BY <1>5 DEF FirstOther
<1> QED BY <1>6 DEF OnRing, Members

(* Where a thread works on a backend. *)
AtBackend ==
  {"forward", "drop", "recheck", "process", "serving", "evacuate",
   "evacuating", "remove", "add"}

(* What a thread has in its hands at each point of its call, and who is    *)
(* where: only operators remove and add, only administrators force, and    *)
(* only requesters do the rest.                                            *)
CallInv ==
  /\ \A t \in Thread :
       /\ pc[t] \in AtBackend => backend[t] \in Server
       /\ pc[t] \in {"remove", "add"} => t \in Operator
       /\ pc[t] \in {"force", "other", "rebind"} => t \in Administrator
       /\ pc[t] \notin {"idle", "evacuate", "evacuating", "remove", "add",
                       "force", "other", "rebind"} => t \in Requester
  /\ \A r \in Requester :
       pc[r] = "route" /\ retry[r] => backend[r] \in Server
  /\ \A r \in Router :
       pc[r] \in {"bind", "rebind"} => target[r] \in Server

(* The table's mutex is held by the thread that is between its look at the *)
(* table and its last write, and by no other.                              *)
MutexInv ==
  \A t \in Thread :
    mutex = t <=>
      pc[t] \in {"choose", "bind", "evacuating", "other", "rebind"}

(* The session of a forced move is there as long as the mutex is held. *)
HeldInv ==
  \A a \in Administrator :
    pc[a] \in {"other", "rebind"} => sessions[key[a]] # None

(* Thread t has still to visit session k on behalf of server s. *)
WillVisit(t, s, k) ==
  /\ backend[t] = s
  /\ pc[t] = "evacuate" \/ (pc[t] = "evacuating" /\ k \in todo[t])

(* The servers that left the ring, which has not run dry since. *)
Left == Server \ (OnRing \cup ranDry)

(* An empty ring is one that has run dry for every server. *)
DryInv == OnRing = {} => ranDry = Server

(* A live session on a server that left is still to be visited, unless it  *)
(* has been revived there.                                                 *)
SessionsInv ==
  \A s \in Left, k \in Key :
    Live(k) /\ sessions[k].backend_id = s =>
      \/ <<k, s>> \in revived
      \/ \E t \in Thread : WillVisit(t, s, k)

(* So is one that is about to be bound to such a server.  Its evacuation   *)
(* has not begun, since the one who binds holds the mutex.                 *)
BindingsInv ==
  \A s \in Left, r \in Router :
    pc[r] \in {"bind", "rebind"} /\ target[r] = s =>
      \E t \in Thread : pc[t] = "evacuate" /\ backend[t] = s

Inv ==
  /\ TypeOK /\ CallInv /\ MutexInv /\ HeldInv /\ DryInv
  /\ SessionsInv /\ BindingsInv
-----------------------------------------------------------------------------
(* The steps of a thread. *)

(* What the look at the ring returns. *)
LEMMA Choice ==
  ASSUME TypeOK, NEW k \in Key
  PROVE  /\ getServer(k) \in Server \cup {NoServer}
         /\ getServer(k) >= 0 <=> getServer(k) \in OnRing
         /\ getServer(k) < 0 <=> OnRing = {}
         /\ getServer(k) \in Int
BY GetServer DEF TypeOK

(* A forced move keeps its session while others move: they find the mutex  *)
(* taken, or leave the session in place.                                   *)
LEMMA StillHeld ==
  ASSUME Inv,
         \A a \in Administrator :
           pc'[a] \in {"other", "rebind"} =>
             pc'[a] = pc[a] /\ key'[a] = key[a],
         \/ mutex = None
         \/ mutex \in Thread /\ pc[mutex] \notin {"other", "rebind"}
         \/ \A k \in Key : sessions[k] # None => sessions'[k] # None
  PROVE  HeldInv'
<1> SUFFICES ASSUME NEW a \in Administrator, pc'[a] \in {"other", "rebind"}
             PROVE  sessions'[key'[a]] # None
  BY DEF HeldInv
<1>1. pc[a] \in {"other", "rebind"} /\ key'[a] = key[a]
  OBVIOUS
<1>2. sessions[key[a]] # None /\ key[a] \in Key
  BY <1>1 DEF Inv, HeldInv, TypeOK, Router
<1>3. mutex = a /\ a \in Thread
  BY <1>1 DEF Inv, MutexInv, Thread
<1>4. \A k \in Key : sessions[k] # None => sessions'[k] # None
  BY <1>1, <1>3, ThreadAssumption
<1> QED BY <1>1, <1>2, <1>4

(* routeRequest returns: the request goes on with the backend returned, or *)
(* ends and keeps none.                                                    *)
LEMMA Returned ==
  ASSUME TypeOK, NEW r \in Requester, NEW b \in Server \cup {NoServer},
         NEW st \in {"SUCCESS", "REASSIGNED", "SERVER_DOWN",
                      "SESSION_BLOCKED"},
         Return(r, st, b)
  PROVE  /\ \E p \in {"idle", "recheck", "forward"} :
              /\ pc' = [pc EXCEPT ![r] = p]
              /\ backend' = [backend EXCEPT ![r] =
                               IF p = "idle" THEN NoServer ELSE b]
              /\ p = "forward" => st # "SERVER_DOWN" /\ st # "SESSION_BLOCKED"
              /\ p = "forward" => ~retry[r]
              /\ p = "recheck" => retry[r]
         /\ status' = [status EXCEPT ![r] = st]
         /\ result' \in [Requester -> {"none", "served", "offline", "blocked",
                                       "unavailable"}]
<1>1. AfterRoute(retry[r], st) \in {"idle", "recheck", "forward"}
  BY DEF AfterRoute
<1>2. result' \in [Requester -> {"none", "served", "offline", "blocked",
                                "unavailable"}]
  BY DEF Return, TypeOK
<1> QED BY <1>2 DEF Return, AfterRoute

(* A step of a request that touches neither the table nor the ring, and is *)
(* not about to bind a session, leaves every promise to the sessions as it *)
(* was.                                                                    *)
LEMMA LocalStep ==
  ASSUME Inv, TypeOK', NEW r \in Requester,
         NEW b \in Server \cup {NoServer},
         NEW p \in {"idle", "route", "forward", "drop", "recheck", "process",
                    "serving"},
         pc[r] \in {"idle", "route", "forward", "recheck", "process",
                    "serving"},
         p \in AtBackend \/ (p = "route" /\ retry'[r]) => b \in Server,
         \A q \in Requester \ {r} : retry'[q] = retry[q],
         pc' = [pc EXCEPT ![r] = p],
         backend' = [backend EXCEPT ![r] = b],
         \A a \in Administrator : key'[a] = key[a],
         UNCHANGED <<active_servers, ranDry, revived, sessions, mutex, todo,
                     target>>
  PROVE  Inv'
<1> USE DEF Inv, Thread, Router
<1>1. OnRing' = OnRing
  BY DEF OnRing
<1>2. CallInv'
  BY DEF CallInv, TypeOK
<1>3. MutexInv'
  BY DEF MutexInv
<1>4. DryInv'
  BY <1>1 DEF DryInv
<1>5. SessionsInv'
  BY <1>1 DEF SessionsInv, Left, WillVisit, Live
<1>6. BindingsInv'
  BY <1>1 DEF BindingsInv, Left
<1>7. HeldInv'
  BY StillHeld, ThreadAssumption DEF TypeOK
<1> QED BY <1>2, <1>3, <1>4, <1>5, <1>6, <1>7

(* A blocked session; after the failover the request keeps its backend.    *)
LEMMA RouteBlockedStep ==
  ASSUME Inv, NEW r \in Requester, RouteBlocked(r)
  PROVE  Inv'
<1> USE DEF Inv, Thread, Router
<1>1. backend[r] \in Server \cup {NoServer}
  BY DEF TypeOK
<1>2. PICK p \in {"idle", "recheck", "forward"} :
           /\ pc' = [pc EXCEPT ![r] = p]
           /\ backend' = [backend EXCEPT ![r] =
                            IF p = "idle" THEN NoServer ELSE backend[r]]
           /\ p = "forward" => "SESSION_BLOCKED" # "SESSION_BLOCKED"
           /\ p = "recheck" => retry[r]
  BY <1>1, Returned DEF RouteBlocked
<1>3. /\ status' = [status EXCEPT ![r] = "SESSION_BLOCKED"]
      /\ result' \in [Requester -> {"none", "served", "offline", "blocked",
                                    "unavailable"}]
  BY <1>1, Returned DEF RouteBlocked
<1>4. TypeOK'
  BY <1>2, <1>3 DEF RouteBlocked, Unchanged_route, TypeOK, RingTypeOK
<1> DEFINE c == IF p = "idle" THEN NoServer ELSE backend[r]
<1>5. c \in Server \cup {NoServer} /\ (p \in AtBackend => c \in Server)
  BY <1>2 DEF RouteBlocked, AtRoute, CallInv, AtBackend
<1>6. backend' = [backend EXCEPT ![r] = c]
  BY <1>2
<1> HIDE DEF c
<1> QED BY <1>2, <1>4, <1>5, <1>6, LocalStep DEF RouteBlocked, Unchanged_route,
           AtRoute

(* A session that stays where it is. *)
LEMMA RouteStickyStep ==
  ASSUME Inv, NEW r \in Requester, RouteSticky(r)
  PROVE  Inv'
<1> USE DEF Inv, Thread, Router
<1>1. sessions[key[r]].backend_id \in Server \cup {NoServer}
  BY DEF RouteSticky, Live, TypeOK, Entry
<1>2. PICK p \in {"idle", "recheck", "forward"} :
           /\ pc' = [pc EXCEPT ![r] = p]
           /\ backend' = [backend EXCEPT ![r] =
                            IF p = "idle" THEN NoServer
                                          ELSE sessions[key[r]].backend_id]
           /\ p = "recheck" => retry[r]
  BY <1>1, Returned DEF RouteSticky
<1>3. /\ status' = [status EXCEPT ![r] = "SUCCESS"]
      /\ result' \in [Requester -> {"none", "served", "offline", "blocked",
                                    "unavailable"}]
  BY <1>1, Returned DEF RouteSticky
<1>4. TypeOK'
  BY <1>1, <1>2, <1>3 DEF RouteSticky, Unchanged_route, TypeOK, RingTypeOK
<1> DEFINE c == IF p = "idle" THEN NoServer ELSE sessions[key[r]].backend_id
<1>5. c \in Server \cup {NoServer} /\ (p \in AtBackend => c \in Server)
  BY DEF RouteSticky, TypeOK, AtBackend, Live, Entry
<1>6. backend' = [backend EXCEPT ![r] = c]
  BY <1>2
<1> HIDE DEF c
<1> QED BY <1>2, <1>4, <1>5, <1>6, LocalStep DEF RouteSticky, Unchanged_route,
           AtRoute

(* The online flag is looked at before forwarding. *)
LEMMA ForwardStep ==
  ASSUME Inv, NEW r \in Requester, Forward(r)
  PROVE  Inv'
<1> USE DEF Inv, Thread, Router
<1>1. CASE online[backend[r]]
  <2>1. /\ pc' = [pc EXCEPT ![r] = "process"]
        /\ backend' = [backend EXCEPT ![r] = backend[r]]
        /\ result' \in [Requester -> {"none", "served", "offline", "blocked",
                                      "unavailable"}]
    BY <1>1 DEF Forward, TypeOK
  <2>2. TypeOK'
    BY DEF Forward, Unchanged_route, TypeOK, RingTypeOK
  <2> QED BY <2>1, <2>2, LocalStep DEF Forward, Unchanged_route, CallInv,
           AtBackend, TypeOK
<1>2. CASE ~online[backend[r]]
  <2>1. /\ pc' = [pc EXCEPT ![r] = "drop"]
        /\ backend' = [backend EXCEPT ![r] = backend[r]]
        /\ result' \in [Requester -> {"none", "served", "offline", "blocked",
                                      "unavailable"}]
    BY <1>2 DEF Forward, TypeOK
  <2>2. TypeOK'
    BY DEF Forward, Unchanged_route, TypeOK, RingTypeOK
  <2> QED BY <2>1, <2>2, LocalStep DEF Forward, Unchanged_route, CallInv,
           AtBackend, TypeOK
<1> QED BY <1>1, <1>2

(* And again after the failover. *)
LEMMA RecheckStep ==
  ASSUME Inv, NEW r \in Requester, Recheck(r)
  PROVE  Inv'
<1> USE DEF Inv, Thread, Router
<1>1. CASE online[backend[r]]
  <2>1. /\ pc' = [pc EXCEPT ![r] = "process"]
        /\ backend' = [backend EXCEPT ![r] = backend[r]]
        /\ result' \in [Requester -> {"none", "served", "offline", "blocked",
                                      "unavailable"}]
    BY <1>1 DEF Recheck, TypeOK
  <2>2. TypeOK'
    BY <2>1 DEF Recheck, Unchanged_route, TypeOK, RingTypeOK
  <2> QED BY <2>1, <2>2, LocalStep DEF Recheck, Unchanged_route, CallInv,
           AtBackend, TypeOK
<1>2. CASE ~online[backend[r]]
  <2>1. /\ pc' = [pc EXCEPT ![r] = "idle"]
        /\ backend' = [backend EXCEPT ![r] = NoServer]
        /\ result' \in [Requester -> {"none", "served", "offline", "blocked",
                                      "unavailable"}]
    BY <1>2 DEF Recheck, End, TypeOK
  <2>2. TypeOK'
    BY <2>1 DEF Recheck, Unchanged_route, TypeOK, RingTypeOK
  <2> QED BY <2>1, <2>2, LocalStep DEF Recheck, Unchanged_route, CallInv,
           AtBackend, TypeOK
<1> QED BY <1>1, <1>2

(* And by processRequest. *)
LEMMA ProcessStep ==
  ASSUME Inv, NEW r \in Requester, Process(r)
  PROVE  Inv'
<1> USE DEF Inv, Thread, Router
<1>1. CASE online[backend[r]]
  <2>1. /\ pc' = [pc EXCEPT ![r] = "serving"]
        /\ backend' = [backend EXCEPT ![r] = backend[r]]
        /\ result' \in [Requester -> {"none", "served", "offline", "blocked",
                                      "unavailable"}]
    BY <1>1 DEF Process, TypeOK
  <2>2. TypeOK'
    BY <2>1 DEF Process, Unchanged_route, TypeOK, RingTypeOK
  <2> QED BY <2>1, <2>2, LocalStep DEF Process, Unchanged_route, CallInv,
           AtBackend, TypeOK
<1>2. CASE ~online[backend[r]]
  <2>1. /\ pc' = [pc EXCEPT ![r] = "idle"]
        /\ backend' = [backend EXCEPT ![r] = NoServer]
        /\ result' \in [Requester -> {"none", "served", "offline", "blocked",
                                      "unavailable"}]
    BY <1>2 DEF Process, End, TypeOK
  <2>2. TypeOK'
    BY <2>1 DEF Process, Unchanged_route, TypeOK, RingTypeOK
  <2> QED BY <2>1, <2>2, LocalStep DEF Process, Unchanged_route, CallInv,
           AtBackend, TypeOK
<1> QED BY <1>1, <1>2

(* The backend answers. *)
LEMMA RespondStep ==
  ASSUME Inv, NEW r \in Requester, Respond(r)
  PROVE  Inv'
<1> USE DEF Inv, Thread, Router
<1>1. TypeOK'
  BY DEF Respond, End, Unchanged_route, TypeOK, RingTypeOK
<1> QED BY <1>1, LocalStep DEF Respond, End, Unchanged_route, CallInv,
           AtBackend, TypeOK, NoServer

(* A request begins. *)
LEMMA BeginStep ==
  ASSUME Inv, NEW r \in Requester, NEW k \in Key, Begin(r, k)
  PROVE  Inv'
<1> USE DEF Inv, Thread, Router
<1>1. faults' \in [Requester -> 0..FaultCap]
  <2> DEFINE down == Cardinality({s \in Server : ~(online[s] /\ s \in OnRing)})
             F(n) == IF down < FaultCap THEN n = down ELSE n = FaultCap
  <2>1. down \in Nat
    BY FS_Subset, FS_CardinalityType, BackendAssumption
  <2>2. \E n \in 0..FaultCap : F(n)
    BY <2>1 DEF FaultCap
  <2>3. (CHOOSE n \in 0..FaultCap : F(n)) \in 0..FaultCap
    BY <2>2
  <2> QED BY <2>3 DEF Begin, TypeOK
<1>2. /\ left[r] \in Nat \ {0}
      /\ pc[r] = "idle" /\ pc' = [pc EXCEPT ![r] = "route"]
      /\ key' = [key EXCEPT ![r] = k]
      /\ retry' = [retry EXCEPT ![r] = FALSE]
      /\ result' = [result EXCEPT ![r] = "none"]
      /\ status' = [status EXCEPT ![r] = "NONE"]
      /\ backend' = [backend EXCEPT ![r] = NoServer]
      /\ left' = [left EXCEPT ![r] = @ - 1]
      /\ UNCHANGED <<active_servers, online, sessions, mutex, target, todo,
                     stops, stopped, ranDry, revived>>
  BY DEF Begin, TypeOK
<1>3. TypeOK'
  BY <1>1, <1>2 DEF TypeOK, RingTypeOK
<1>4. /\ "route" \notin AtBackend /\ ~retry'[r]
      /\ \A q \in Requester \ {r} : retry'[q] = retry[q]
      /\ \A a \in Administrator : key'[a] = key[a]
  BY <1>2, ThreadAssumption DEF TypeOK, AtBackend
<1> HIDE DEF Inv, Thread
<1> QED BY <1>2, <1>3, <1>4, LocalStep

(* routeRequest takes the mutex; an entry that has lapsed is erased.       *)
LEMMA RouteOnwardStep ==
  ASSUME Inv, NEW r \in Requester, RouteOnward(r)
  PROVE  Inv'
<1> USE DEF Inv, Thread, Router
<1>1. RingTypeOK' /\ OnRing' = OnRing
  BY DEF RouteOnward, Unchanged_route, TypeOK, RingTypeOK, OnRing
<1>2. \A k \in Key : Live(k)' => Live(k) /\ sessions'[k] = sessions[k]
  BY DEF RouteOnward, Live
<1>3. \A t \in Thread, s \in Server, k \in Key :
        WillVisit(t, s, k) => WillVisit(t, s, k)'
  BY DEF RouteOnward, WillVisit, Unchanged_route, AtRoute
<1>4. TypeOK'
  BY <1>1 DEF RouteOnward, Unchanged_route, TypeOK
<1>5. CallInv'
  BY DEF RouteOnward, Unchanged_route, CallInv, AtBackend
<1>6. MutexInv'
  BY ThreadAssumption DEF RouteOnward, MutexInv, TypeOK
<1>7. DryInv'
  BY <1>1 DEF RouteOnward, Unchanged_route, DryInv
<1>8. SessionsInv'
  BY <1>1, <1>2, <1>3 DEF RouteOnward, Unchanged_route, SessionsInv, Left
<1>9. BindingsInv'
  BY ThreadAssumption DEF RouteOnward, BindingsInv, MutexInv
<1>10. HeldInv'
  BY StillHeld, ThreadAssumption DEF RouteOnward, Unchanged_route, TypeOK
<1> QED BY <1>4, <1>5, <1>6, <1>7, <1>8, <1>9, <1>10

(* The ring is empty. *)
LEMMA RouteNowhereStep ==
  ASSUME Inv, NEW r \in Requester, RouteNowhere(r)
  PROVE  Inv'
<1> USE DEF Inv, Thread, Router
<1>1. RingTypeOK' /\ OnRing' = OnRing
  BY DEF RouteNowhere, Unchanged_route, TypeOK, RingTypeOK, OnRing
<1>2. \A t \in Thread, s \in Server, k \in Key :
        WillVisit(t, s, k) => WillVisit(t, s, k)'
  BY DEF RouteNowhere, Return, WillVisit, Unchanged_route
<1>3. TypeOK'
  BY <1>1 DEF RouteNowhere, Return, AfterRoute, Unchanged_route, TypeOK
<1>4. CallInv'
  BY DEF RouteNowhere, Return, AfterRoute, Unchanged_route, CallInv, AtBackend
<1>5. MutexInv'
  BY ThreadAssumption DEF RouteNowhere, Return, AfterRoute, MutexInv, TypeOK
<1>6. DryInv'
  BY <1>1 DEF RouteNowhere, Unchanged_route, DryInv
<1>7. SessionsInv'
  BY <1>1, <1>2 DEF RouteNowhere, Unchanged_route, SessionsInv, Left, Live
<1>8. BindingsInv'
  BY DEF RouteNowhere, Return, AfterRoute, BindingsInv, MutexInv
<1>9. HeldInv'
  BY StillHeld, ThreadAssumption DEF RouteNowhere, Return, Unchanged_route,
     TypeOK
<1> QED BY <1>3, <1>4, <1>5, <1>6, <1>7, <1>8, <1>9

(* The ring offers a server, which is on the ring at this moment.         *)
LEMMA RouteChooseStep ==
  ASSUME Inv, NEW r \in Requester, RouteChoose(r)
  PROVE  Inv'
<1> USE DEF Inv, Thread, Router
<1>1. RingTypeOK' /\ OnRing' = OnRing
  BY DEF RouteChoose, Unchanged_route, TypeOK, RingTypeOK, OnRing
<1>2. /\ getServer(key[r]) \in Server \cup {NoServer}
      /\ getServer(key[r]) >= 0 <=> getServer(key[r]) \in OnRing
      /\ getServer(key[r]) < 0 <=> OnRing = {}
      /\ getServer(key[r]) \in Int
  BY Choice DEF TypeOK
<1>3. \A t \in Thread, s \in Server, k \in Key :
        WillVisit(t, s, k) => WillVisit(t, s, k)'
  BY DEF RouteChoose, WillVisit, Unchanged_route
<1>4. TypeOK'
  BY <1>1, <1>2 DEF RouteChoose, Unchanged_route, TypeOK
<1>5. CallInv'
  BY <1>2 DEF RouteChoose, Unchanged_route, CallInv, AtBackend, TypeOK,
     NoServer
<1>6. MutexInv'
  BY DEF RouteChoose, MutexInv
<1>7. DryInv'
  BY <1>1, <1>2 DEF RouteChoose, DryInv
<1>8. SessionsInv'
  BY <1>1, <1>3 DEF RouteChoose, Unchanged_route, SessionsInv, Left, Live
<1>9. BindingsInv'
  BY <1>1, <1>2 DEF RouteChoose, BindingsInv, Left, MutexInv, TypeOK
<1>10. HeldInv'
  BY StillHeld, ThreadAssumption DEF RouteChoose, Unchanged_route, TypeOK
<1> QED BY <1>4, <1>5, <1>6, <1>7, <1>8, <1>9, <1>10

(* The session is bound.  If its server has left the ring since the look   *)
(* at it, an evacuation waits for the mutex.                               *)
LEMMA RouteBindStep ==
  ASSUME Inv, NEW r \in Requester, RouteBind(r)
  PROVE  Inv'
<1> USE DEF Inv, Thread, Router
<1>1. RingTypeOK' /\ OnRing' = OnRing
  BY DEF RouteBind, Unchanged_route, TypeOK, RingTypeOK, OnRing
<1>2. PICK p \in {"idle", "recheck", "forward"} :
           /\ pc' = [pc EXCEPT ![r] = p]
           /\ backend' = [backend EXCEPT ![r] =
                            IF p = "idle" THEN NoServer ELSE target[r]]
           /\ p = "forward" => ~retry[r]
           /\ p = "recheck" => retry[r]
  BY Returned DEF RouteBind, CallInv
<1>3. /\ sessions' \in [Key -> Entry \cup {None}]
      /\ \A k \in Key :
           IF k = key[r]
           THEN Live(k)' => sessions'[k].backend_id = target[r]
           ELSE sessions'[k] = sessions[k]
  <2>1. target[r] \in Server
    BY DEF RouteBind, CallInv
  <2> DEFINE e == IF Live(key[r])
                  THEN [sessions[key[r]] EXCEPT !.backend_id = target[r]]
                  ELSE [backend_id |-> target[r], blocked |-> FALSE,
                        lapsed |-> FALSE]
  <2>2. key[r] \in Key /\ sessions' = [sessions EXCEPT ![key[r]] = e]
    BY DEF RouteBind, TypeOK
  <2>3. e \in Entry /\ e.backend_id = target[r]
    BY <2>1 DEF Live, TypeOK, Entry
  <2> HIDE DEF e
  <2> QED BY <2>2, <2>3 DEF TypeOK
<1>4. status' \in [Requester -> {"NONE", "SUCCESS", "REASSIGNED",
                                "SERVER_DOWN", "SESSION_BLOCKED"}]
      /\ result' \in [Requester -> {"none", "served", "offline", "blocked",
                                    "unavailable"}]
  BY Returned DEF RouteBind, CallInv, TypeOK
<1>5. \A t \in Thread, s \in Server, k \in Key :
        WillVisit(t, s, k) => WillVisit(t, s, k)'
  BY <1>2 DEF RouteBind, WillVisit, Unchanged_route
<1>6. TypeOK'
  BY <1>1, <1>2, <1>3, <1>4 DEF RouteBind, Unchanged_route, TypeOK
<1>7. CallInv'
  BY <1>2, <1>3 DEF RouteBind, Unchanged_route, CallInv, AtBackend, TypeOK
<1>8. MutexInv'
  BY <1>2, ThreadAssumption DEF RouteBind, MutexInv, TypeOK
<1>9. DryInv'
  BY <1>1 DEF RouteBind, Unchanged_route, DryInv
<1>10. SessionsInv'
  <2> SUFFICES ASSUME NEW s \in Left', NEW k \in Key, Live(k)',
                      sessions'[k].backend_id = s, <<k, s>> \notin revived'
               PROVE  \E t \in Thread : WillVisit(t, s, k)'
    BY DEF SessionsInv
  <2>1. s \in Left /\ revived' = revived
    BY <1>1 DEF RouteBind, Left, Unchanged_route
  <2>2. CASE k = key[r]
    <3>1. PICK t \in Thread : pc[t] = "evacuate" /\ backend[t] = s
      BY <1>3, <2>1, <2>2 DEF RouteBind, BindingsInv
    <3> QED BY <1>5, <3>1 DEF WillVisit, Left
  <2>3. CASE k # key[r]
    BY <1>3, <1>5, <2>1, <2>3 DEF SessionsInv, Live, Left
  <2> QED BY <2>2, <2>3
<1>11. BindingsInv'
  BY <1>2 DEF RouteBind, BindingsInv, MutexInv, TypeOK
<1>12. HeldInv'
  BY StillHeld, ThreadAssumption DEF RouteBind, Return, Unchanged_route,
     MutexInv, TypeOK
<1> QED BY <1>6, <1>7, <1>8, <1>9, <1>10, <1>11, <1>12

(* The backend of a failover is taken off the ring, and is evacuated next.*)
LEMMA DropStep ==
  ASSUME Inv, NEW r \in Requester, Drop(r)
  PROVE  Inv'
<1> USE DEF Inv, Thread, Router
<1>1. backend[r] \in Server /\ RingTypeOK' /\ OnRing' = OnRing \ {backend[r]}
  BY RingStep DEF Drop, CallInv, AtBackend, TypeOK
<1>2. faults' \in [Requester -> 0..FaultCap]
  BY DEF Drop, NoteFault, FaultCap, TypeOK
<1>3. TypeOK'
  BY <1>1, <1>2 DEF Drop, NoteRing, TypeOK
<1>4. CallInv'
  BY <1>1 DEF Drop, CallInv
<1>5. MutexInv'
  BY DEF Drop, MutexInv
<1>6. DryInv'
  BY DEF Drop, NoteRing, DryInv
<1>7. SessionsInv'
  BY <1>1, ThreadAssumption DEF Drop, NoteRing, SessionsInv, Left, WillVisit,
     Live, TypeOK
<1>8. BindingsInv'
  BY <1>1, ThreadAssumption DEF Drop, NoteRing, BindingsInv, Left, TypeOK
<1>9. HeldInv'
  BY StillHeld, ThreadAssumption DEF Drop, TypeOK
<1> QED BY <1>3, <1>4, <1>5, <1>6, <1>7, <1>8, <1>9

(* Likewise by an operator. *)
LEMMA RemoveStep ==
  ASSUME Inv, NEW o \in Operator, Remove(o)
  PROVE  Inv'
<1> USE DEF Inv, Thread, Router
<1>1. backend[o] \in Server /\ RingTypeOK' /\ OnRing' = OnRing \ {backend[o]}
  BY RingStep DEF Remove, CallInv, AtBackend, TypeOK
<1>2. TypeOK'
  BY <1>1 DEF Remove, NoteRing, Unchanged_operate, TypeOK
<1>3. CallInv'
  BY <1>1 DEF Remove, Unchanged_operate, CallInv
<1>4. MutexInv'
  BY DEF Remove, Unchanged_operate, MutexInv
<1>5. DryInv'
  BY DEF Remove, NoteRing, DryInv
<1>6. SessionsInv'
  BY <1>1 DEF Remove, NoteRing, Unchanged_operate, SessionsInv, Left,
     WillVisit, Live, TypeOK
<1>7. BindingsInv'
  BY <1>1 DEF Remove, NoteRing, Unchanged_operate, BindingsInv, Left, TypeOK
<1>8. HeldInv'
  BY StillHeld, ThreadAssumption DEF Remove, Unchanged_operate, TypeOK
<1> QED BY <1>2, <1>3, <1>4, <1>5, <1>6, <1>7, <1>8

(* A server comes back on the ring. *)
LEMMA AddStep ==
  ASSUME Inv, NEW o \in Operator, Add(o)
  PROVE  Inv'
<1> USE DEF Inv, Thread, Router
<1>1. /\ backend[o] \in Server /\ RingTypeOK'
      /\ OnRing' = OnRing \cup {backend[o]}
  BY RingStep DEF Add, CallInv, AtBackend, TypeOK, RingTypeOK, OnRing
<1>2. faults' \in [Requester -> 0..FaultCap]
  BY DEF Add, NoteFault, FaultCap, TypeOK
<1>3. TypeOK'
  BY <1>1, <1>2 DEF Add, NoteRing, Unchanged_operate, TypeOK
<1>4. CallInv'
  BY DEF Add, Unchanged_operate, CallInv, AtBackend, TypeOK
<1>5. MutexInv'
  BY DEF Add, Unchanged_operate, MutexInv
<1>6. DryInv'
  BY <1>1 DEF DryInv
<1>7. SessionsInv'
  <2>1. \A t \in Thread, q \in Server, k \in Key :
          WillVisit(t, q, k) => WillVisit(t, q, k)'
    BY DEF Add, Unchanged_operate, WillVisit, TypeOK
  <2>2. /\ sessions' = sessions /\ Left' \subseteq Left
        /\ \A q \in Left', k \in Key :
             <<k, q>> \in revived => <<k, q>> \in revived'
    BY <1>1 DEF Add, NoteRing, Unchanged_operate, Left, TypeOK
  <2> QED BY <2>1, <2>2 DEF SessionsInv, Live, Left
<1>8. BindingsInv'
  BY <1>1 DEF Add, NoteRing, Unchanged_operate, BindingsInv, Left, TypeOK
<1>9. HeldInv'
  BY StillHeld, ThreadAssumption DEF Add, Unchanged_operate, TypeOK
<1> QED BY <1>3, <1>4, <1>5, <1>6, <1>7, <1>8, <1>9

(* The evacuation begins, with every session still to be visited.          *)
LEMMA EvacuateStep ==
  ASSUME Inv, NEW t \in Thread, Evacuate(t)
  PROVE  Inv'
<1> USE DEF Inv, Thread, Router
<1>1. RingTypeOK' /\ OnRing' = OnRing
  BY DEF Evacuate, Unchanged_evacuate, TypeOK, RingTypeOK, OnRing
<1>2. TypeOK'
  BY <1>1 DEF Evacuate, Unchanged_evacuate, TypeOK
<1>3. CallInv'
  BY DEF Evacuate, Unchanged_evacuate, CallInv, AtBackend
<1>4. MutexInv'
  BY ThreadAssumption DEF Evacuate, MutexInv, TypeOK
<1>5. DryInv'
  BY <1>1 DEF Evacuate, Unchanged_evacuate, DryInv
<1>6. SessionsInv'
  BY <1>1 DEF Evacuate, Unchanged_evacuate, SessionsInv, Left, WillVisit, Live,
     TypeOK
<1>7. BindingsInv'
  BY ThreadAssumption DEF Evacuate, BindingsInv, MutexInv
<1>8. HeldInv'
  BY StillHeld, ThreadAssumption DEF Evacuate, Unchanged_evacuate, TypeOK
<1> QED BY <1>2, <1>3, <1>4, <1>5, <1>6, <1>7, <1>8

(* A session is visited: unless it is on a server of the ring already, it  *)
(* is now, for the ring is not empty.                                      *)
LEMMA EvacuateOneStep ==
  ASSUME Inv, NEW t \in Thread, NEW k \in Key, EvacuateOne(t, k)
  PROVE  Inv'
<1> USE DEF Inv, Thread, Router
<1>1. RingTypeOK' /\ OnRing' = OnRing
  BY DEF EvacuateOne, Unchanged_evacuate, TypeOK, RingTypeOK, OnRing
<1>2. /\ getServer(k) \in Server \cup {NoServer}
      /\ getServer(k) >= 0 <=> getServer(k) \in OnRing
      /\ getServer(k) < 0 <=> OnRing = {}
      /\ getServer(k) \in Int
  BY Choice
<1>3. sessions' \in [Key -> Entry \cup {None}]
  <2>1. CASE Moves(k, backend[t])
    <3>1. getServer(k) \in Server
      BY <1>2, <2>1 DEF Moves, NoServer
    <3>2. [sessions[k] EXCEPT !.backend_id = getServer(k)] \in Entry
      BY <2>1, <3>1 DEF Moves, Live, TypeOK, Entry
    <3> QED BY <3>2 DEF EvacuateOne, TypeOK
  <2> QED BY <2>1 DEF EvacuateOne, TypeOK
<1>4. TypeOK'
  BY <1>1, <1>3 DEF EvacuateOne, Unchanged_evacuate, TypeOK
<1>5. CallInv'
  BY DEF EvacuateOne, Unchanged_evacuate, CallInv
<1>6. MutexInv'
  BY DEF EvacuateOne, MutexInv
<1>7. DryInv'
  BY <1>1 DEF EvacuateOne, Unchanged_evacuate, DryInv
<1>8. SessionsInv'
  BY <1>1, <1>2, <1>3 DEF EvacuateOne, Moves, Live, Unchanged_evacuate,
     SessionsInv, Left, WillVisit, DryInv
<1>9. BindingsInv'
  BY DEF EvacuateOne, BindingsInv, MutexInv
<1>10. HeldInv'
  BY StillHeld, ThreadAssumption DEF EvacuateOne, Unchanged_evacuate, MutexInv,
     TypeOK
<1> QED BY <1>4, <1>5, <1>6, <1>7, <1>8, <1>9, <1>10

(* The evacuation is over, nothing left to visit. *)
LEMMA EvacuatedStep ==
  ASSUME Inv, NEW t \in Thread, Evacuated(t)
  PROVE  Inv'
<1> USE DEF Inv, Thread, Router
<1>1. RingTypeOK' /\ OnRing' = OnRing
  BY DEF Evacuated, Unchanged_evacuate, TypeOK, RingTypeOK, OnRing
<1>2. PICK p \in {"idle", "route"}, b \in Server \cup {NoServer} :
        /\ pc' = [pc EXCEPT ![t] = p]
        /\ backend' = [backend EXCEPT ![t] = b]
        /\ p = "route" => t \in Requester /\ b \in Server
  <2>1. CASE t \in Requester
    <3>1. backend[t] \in Server /\ pc' = [pc EXCEPT ![t] = "route"]
      BY <2>1 DEF Evacuated, AfterEvacuation, CallInv, AtBackend
    <3>2. backend' = [backend EXCEPT ![t] = backend[t]]
      BY <2>1 DEF Evacuated, AfterEvacuation, TypeOK
    <3> QED BY <2>1, <3>1, <3>2
  <2>2. CASE t \notin Requester
    BY <2>2 DEF Evacuated, AfterEvacuation
  <2> QED BY <2>1, <2>2
<1>3. TypeOK'
  BY <1>1, <1>2 DEF Evacuated, Unchanged_evacuate, TypeOK
<1>4. CallInv'
  BY <1>2 DEF Evacuated, Unchanged_evacuate, CallInv, AtBackend, TypeOK
<1>5. MutexInv'
  BY <1>2, ThreadAssumption DEF Evacuated, MutexInv, TypeOK
<1>6. DryInv'
  BY <1>1 DEF Evacuated, Unchanged_evacuate, DryInv
<1>7. SessionsInv'
  BY <1>1, <1>2 DEF Evacuated, Unchanged_evacuate, SessionsInv, Left,
     WillVisit, Live
<1>8. BindingsInv'
  BY <1>2 DEF Evacuated, BindingsInv, MutexInv
<1>9. HeldInv'
  BY StillHeld, ThreadAssumption DEF Evacuated, AfterEvacuation,
     Unchanged_evacuate, CallInv, MutexInv, TypeOK
<1> QED BY <1>3, <1>4, <1>5, <1>6, <1>7, <1>8, <1>9

(* takeBackendOffline begins. *)
LEMMA OfflineStep ==
  ASSUME Inv, NEW o \in Operator, NEW s \in Server, Offline(o, s)
  PROVE  Inv'
<1> USE DEF Inv, Thread, Router
<1>1. RingTypeOK' /\ OnRing' = OnRing
  BY DEF Offline, TypeOK, RingTypeOK, OnRing
<1>2. TypeOK'
  BY <1>1 DEF Offline, stop, NoteFault, Unchanged_operate, TypeOK, FaultCap
<1>3. CallInv'
  BY DEF Offline, Unchanged_operate, CallInv, TypeOK
<1>4. MutexInv'
  BY DEF Offline, Unchanged_operate, MutexInv
<1>5. DryInv'
  BY <1>1 DEF Offline, DryInv
<1>6. SessionsInv'
  <2>1. \A t \in Thread, q \in Server, k \in Key :
          WillVisit(t, q, k) => WillVisit(t, q, k)'
    BY DEF Offline, Unchanged_operate, WillVisit, TypeOK
  <2>2. /\ sessions' = sessions /\ revived' = revived
        /\ Left' \subseteq Left
    BY <1>1 DEF Offline, Unchanged_operate, Left, TypeOK
  <2> QED BY <2>1, <2>2 DEF SessionsInv, Live, Left
<1>7. BindingsInv'
  BY <1>1 DEF Offline, Unchanged_operate, BindingsInv, Left
<1>8. HeldInv'
  BY StillHeld, ThreadAssumption DEF Offline, Unchanged_operate, TypeOK
<1> QED BY <1>2, <1>3, <1>4, <1>5, <1>6, <1>7, <1>8

(* bringBackendOnline begins. *)
LEMMA OnlineStep ==
  ASSUME Inv, NEW o \in Operator, NEW s \in Server, Online(o, s)
  PROVE  Inv'
<1> USE DEF Inv, Thread, Router
<1>1. RingTypeOK' /\ OnRing' = OnRing
  BY DEF Online, TypeOK, RingTypeOK, OnRing
<1>2. TypeOK'
  BY <1>1 DEF Online, start, Unchanged_operate, TypeOK
<1>3. CallInv'
  BY DEF Online, Unchanged_operate, CallInv, TypeOK
<1>4. MutexInv'
  BY DEF Online, Unchanged_operate, MutexInv
<1>5. DryInv'
  BY <1>1 DEF Online, DryInv
<1>6. SessionsInv'
  <2>1. \A t \in Thread, q \in Server, k \in Key :
          WillVisit(t, q, k) => WillVisit(t, q, k)'
    BY DEF Online, Unchanged_operate, WillVisit, TypeOK
  <2>2. /\ sessions' = sessions /\ revived' = revived
        /\ Left' \subseteq Left
    BY <1>1 DEF Online, Unchanged_operate, Left, TypeOK
  <2> QED BY <2>1, <2>2 DEF SessionsInv, Live, Left
<1>7. BindingsInv'
  BY <1>1 DEF Online, Unchanged_operate, BindingsInv, Left
<1>8. HeldInv'
  BY StillHeld, ThreadAssumption DEF Online, Unchanged_operate, TypeOK
<1> QED BY <1>2, <1>3, <1>4, <1>5, <1>6, <1>7, <1>8

(* A backend stops. *)
LEMMA StopStep ==
  ASSUME Inv, NEW s \in Server, Stop(s)
  PROVE  Inv'
<1> USE DEF Inv, Thread, Router
<1>1. RingTypeOK' /\ OnRing' = OnRing
  BY DEF Stop, TypeOK, RingTypeOK, OnRing
<1>2. TypeOK'
  BY <1>1, ThreadAssumption DEF Stop, stop, NoteFault, threadVars, TypeOK,
     FaultCap
<1>3. CallInv'
  BY DEF Stop, threadVars, CallInv
<1>4. MutexInv'
  BY DEF Stop, threadVars, MutexInv
<1>5. DryInv'
  BY <1>1 DEF Stop, DryInv
<1>6. SessionsInv'
  BY <1>1 DEF Stop, threadVars, SessionsInv, Left, WillVisit, Live
<1>7. BindingsInv'
  BY <1>1 DEF Stop, threadVars, BindingsInv, Left
<1>8. HeldInv'
  BY StillHeld, ThreadAssumption DEF Stop, threadVars, TypeOK
<1> QED BY <1>2, <1>3, <1>4, <1>5, <1>6, <1>7, <1>8

(* blockSession changes a flag, not a backend. *)
LEMMA BlockStep ==
  ASSUME Inv, NEW k \in Key, NEW block \in BOOLEAN, blockSession(k, block)
  PROVE  Inv'
<1> USE DEF Inv, Thread, Router
<1>1. RingTypeOK' /\ OnRing' = OnRing
  BY DEF blockSession, TypeOK, RingTypeOK, OnRing
<1>2. /\ sessions' \in [Key -> Entry \cup {None}]
      /\ \A j \in Key :
           Live(j)' =>
             Live(j) /\ sessions'[j].backend_id = sessions[j].backend_id
  <2> DEFINE e == [sessions[k] EXCEPT !.blocked = block]
  <2>1. sessions' = [sessions EXCEPT ![k] = e]
    BY DEF blockSession
  <2>2. sessions[k] \in Entry /\ sessions[k] # None
    BY DEF blockSession, TypeOK
  <2>3. /\ e \in Entry /\ e.backend_id = sessions[k].backend_id
        /\ ~e.lapsed => ~sessions[k].lapsed
    BY <2>2 DEF Entry
  <2> HIDE DEF e
  <2> QED BY <2>1, <2>2, <2>3 DEF TypeOK, Live
<1>3. TypeOK'
  BY <1>1, <1>2 DEF blockSession, threadVars, TypeOK
<1>4. CallInv'
  BY DEF blockSession, threadVars, CallInv
<1>5. MutexInv'
  BY DEF blockSession, threadVars, MutexInv
<1>6. DryInv'
  BY <1>1 DEF blockSession, DryInv
<1>7. SessionsInv'
  BY <1>1, <1>2 DEF blockSession, threadVars, SessionsInv, Left, WillVisit
<1>8. BindingsInv'
  BY ThreadAssumption DEF blockSession, threadVars, BindingsInv, MutexInv
<1>9. HeldInv'
  BY StillHeld, ThreadAssumption DEF blockSession, threadVars, TypeOK
<1> QED BY <1>3, <1>4, <1>5, <1>6, <1>7, <1>8, <1>9

(* Nor does the timeout. *)
LEMMA LapseStep ==
  ASSUME Inv, NEW k \in Key, Lapse(k)
  PROVE  Inv'
<1> USE DEF Inv, Thread, Router
<1>1. RingTypeOK' /\ OnRing' = OnRing
  BY DEF Lapse, TypeOK, RingTypeOK, OnRing
<1>2. /\ sessions' \in [Key -> Entry \cup {None}]
      /\ \A j \in Key :
           /\ sessions[j] # None => sessions'[j] # None
           /\ Live(j)' =>
                Live(j) /\ sessions'[j].backend_id = sessions[j].backend_id
  <2> DEFINE e == [sessions[k] EXCEPT !.lapsed = TRUE]
  <2>1. sessions' = [sessions EXCEPT ![k] = e]
    BY DEF Lapse
  <2>2. sessions[k] \in Entry /\ sessions[k] # None
    BY DEF Lapse, Live, TypeOK
  <2>3. /\ e \in Entry /\ e.backend_id = sessions[k].backend_id
        /\ ~e.lapsed => ~sessions[k].lapsed
    BY <2>2 DEF Entry
  <2> HIDE DEF e
  <2> QED BY <2>1, <2>2, <2>3, EntryAssumption DEF TypeOK, Live
<1>3. TypeOK'
  BY <1>1, <1>2 DEF Lapse, threadVars, TypeOK
<1>4. CallInv'
  BY DEF Lapse, threadVars, CallInv
<1>5. MutexInv'
  BY DEF Lapse, threadVars, MutexInv
<1>6. DryInv'
  BY <1>1 DEF Lapse, DryInv
<1>7. SessionsInv'
  BY <1>1, <1>2 DEF Lapse, threadVars, SessionsInv, Left, WillVisit
<1>8. BindingsInv'
  BY <1>1 DEF Lapse, threadVars, BindingsInv, Left
<1>9. HeldInv'
  BY <1>2, StillHeld DEF Lapse, threadVars
<1> QED BY <1>3, <1>4, <1>5, <1>6, <1>7, <1>8, <1>9

(* A step of a forced move that leaves the table alone.  A target comes    *)
(* from the ring of this moment.                                           *)
LEMMA ForceLocal ==
  ASSUME Inv, TypeOK', NEW a \in Administrator,
         NEW p \in {"idle", "force", "other", "rebind"},
         pc[a] \in {"idle", "force", "other"},
         pc' = [pc EXCEPT ![a] = p],
         \/ mutex' = mutex /\ (pc[a] = "other" <=> p \in {"other", "rebind"})
         \/ /\ mutex = None \/ mutex = a
            /\ mutex' = IF p \in {"other", "rebind"} THEN a ELSE None,
         p \in {"other", "rebind"} => sessions[key'[a]] # None,
         p = "rebind" => target'[a] \in OnRing /\ target'[a] \in Server,
         \A t \in Router \ {a} : key'[t] = key[t] /\ target'[t] = target[t],
         UNCHANGED <<active_servers, ranDry, revived, sessions, backend,
                     retry, todo>>
  PROVE  Inv'
<1> USE DEF Inv, Thread, Router
<1>1. OnRing' = OnRing
  BY DEF OnRing
<1>2. CallInv'
  BY ThreadAssumption DEF CallInv, AtBackend, TypeOK
<1>3. MutexInv'
  BY ThreadAssumption DEF MutexInv, TypeOK
<1>4. HeldInv'
  BY DEF HeldInv, TypeOK
<1>5. DryInv'
  BY <1>1 DEF DryInv
<1>6. SessionsInv'
  <2>1. \A t \in Thread, q \in Server, k \in Key :
          WillVisit(t, q, k) => WillVisit(t, q, k)'
    BY DEF WillVisit, TypeOK
  <2> QED BY <1>1, <2>1 DEF SessionsInv, Left, Live
<1>7. BindingsInv'
  <2>1. \A t \in Thread : pc[t] = "evacuate" => pc'[t] = "evacuate"
    BY DEF TypeOK
  <2> QED BY <1>1, <2>1 DEF BindingsInv, Left, TypeOK
<1> QED BY <1>2, <1>3, <1>4, <1>5, <1>6, <1>7

(* forceReassign is called. *)
LEMMA ForceStep ==
  ASSUME Inv, NEW a \in Administrator, NEW k \in Key, forceReassign(a, k)
  PROVE  Inv'
<1> USE DEF Inv, Thread, Router
<1>1. TypeOK'
  BY DEF forceReassign, Unchanged_force, TypeOK, RingTypeOK
<1> QED BY <1>1, ForceLocal DEF forceReassign, Unchanged_force, TypeOK

(* It finds no session, or no server. *)
LEMMA ForceNowhereStep ==
  ASSUME Inv, NEW a \in Administrator, ForceNowhere(a)
  PROVE  Inv'
<1> USE DEF Inv, Thread, Router
<1>1. TypeOK'
  BY DEF ForceNowhere, Unchanged_force, TypeOK, RingTypeOK
<1> QED BY <1>1, ForceLocal DEF ForceNowhere, Unchanged_force

(* The ring offers a server. *)
LEMMA ForceChooseStep ==
  ASSUME Inv, NEW a \in Administrator, ForceChoose(a)
  PROVE  Inv'
<1> USE DEF Inv, Thread, Router
<1> DEFINE g == getServer(key[a])
<1>1. g \in OnRing /\ g \in Server
  <2>1. key[a] \in Key /\ g >= 0
    BY DEF ForceChoose, TypeOK
  <2> QED BY <2>1, Choice DEF NoServer
<1>2. target' = [target EXCEPT ![a] = g]
  BY DEF ForceChoose
<1>3. PICK p \in {"other", "rebind"} : pc' = [pc EXCEPT ![a] = p]
  BY DEF ForceChoose
<1> HIDE DEF g
<1>4. TypeOK'
  BY <1>1, <1>2, <1>3 DEF ForceChoose, Unchanged_force, TypeOK, RingTypeOK
<1>5. target'[a] = g /\ \A t \in Router \ {a} : target'[t] = target[t]
  BY <1>2 DEF TypeOK
<1>6. /\ pc[a] = "force" /\ mutex = None /\ mutex' = a /\ key' = key
      /\ sessions[key'[a]] # None
      /\ UNCHANGED <<active_servers, ranDry, revived, sessions, backend,
                     retry, todo>>
  BY DEF ForceChoose, Unchanged_force
<1> QED BY ONLY Inv, a \in Administrator, <1>1, <1>3, <1>4, <1>5, <1>6,
           ForceLocal

(* There is no other server. *)
LEMMA ForceAloneStep ==
  ASSUME Inv, NEW a \in Administrator, ForceAlone(a)
  PROVE  Inv'
<1> USE DEF Inv, Thread, Router
<1>1. TypeOK'
  BY DEF ForceAlone, Unchanged_force, TypeOK, RingTypeOK
<1>2. mutex = a
  BY DEF ForceAlone, MutexInv
<1>3. \A t \in Router \ {a} : target'[t] = target[t]
  BY DEF ForceAlone, TypeOK
<1>4. /\ pc[a] = "other" /\ pc' = [pc EXCEPT ![a] = "idle"]
      /\ mutex' = None /\ key' = key
      /\ UNCHANGED <<active_servers, ranDry, revived, sessions, backend,
                     retry, todo>>
  BY DEF ForceAlone, Unchanged_force
<1> QED BY ONLY Inv, a \in Administrator, <1>1, <1>2, <1>3, <1>4, ForceLocal

(* There is one in the list. *)
LEMMA ForceOtherStep ==
  ASSUME Inv, NEW a \in Administrator, ForceOther(a)
  PROVE  Inv'
<1> USE DEF Inv, Thread, Router
<1> DEFINE g == FirstOther(sessions[key[a]].backend_id)
<1>1. g \in OnRing /\ g \in Server
  BY OtherMember, MembersType DEF ForceOther, TypeOK, RingTypeOK, OnRing
<1>2. target' = [target EXCEPT ![a] = g]
  BY DEF ForceOther
<1> HIDE DEF g
<1>3. TypeOK'
  BY <1>1, <1>2 DEF ForceOther, Unchanged_force, TypeOK, RingTypeOK
<1>4. target'[a] = g /\ \A t \in Router \ {a} : target'[t] = target[t]
  BY <1>2 DEF TypeOK
<1>5. /\ pc[a] = "other" /\ pc' = [pc EXCEPT ![a] = "rebind"]
      /\ mutex' = mutex /\ key' = key
      /\ UNCHANGED <<active_servers, ranDry, revived, sessions, backend,
                     retry, todo>>
  BY DEF ForceOther, Unchanged_force
<1>6. sessions[key'[a]] # None
  BY <1>5 DEF HeldInv
<1> QED BY ONLY Inv, a \in Administrator, <1>1, <1>3, <1>4, <1>5, <1>6,
           ForceLocal

(* The session is moved, and is live whether or not it was.  If its server *)
(* has left the ring since, an evacuation waits for the mutex.             *)
LEMMA ForceBindStep ==
  ASSUME Inv, NEW a \in Administrator, ForceBind(a)
  PROVE  Inv'
<1> USE DEF Inv, Thread, Router
<1>1. RingTypeOK' /\ OnRing' = OnRing
  BY DEF ForceBind, Unchanged_force, TypeOK, RingTypeOK, OnRing
<1>2. mutex = a /\ target[a] \in Server /\ key[a] \in Key
  BY DEF ForceBind, MutexInv, CallInv, TypeOK
<1>3. /\ sessions' \in [Key -> Entry \cup {None}]
      /\ \A k \in Key : IF k = key[a]
                        THEN sessions'[k].backend_id = target[a]
                        ELSE sessions'[k] = sessions[k]
  <2> DEFINE e == [backend_id |-> target[a],
                   blocked |-> sessions[key[a]].blocked, lapsed |-> FALSE]
  <2>1. sessions[key[a]] \in Entry
    BY <1>2 DEF ForceBind, HeldInv, TypeOK
  <2>2. e \in Entry /\ e.backend_id = target[a]
    BY <1>2, <2>1 DEF Entry
  <2>3. sessions' = [sessions EXCEPT ![key[a]] = e]
    BY <1>2 DEF ForceBind, TypeOK
  <2> HIDE DEF e
  <2> QED BY <1>2, <2>2, <2>3 DEF TypeOK
<1>4. TypeOK'
  BY <1>1, <1>3 DEF ForceBind, Unchanged_force, TypeOK
<1>5. CallInv'
  BY ThreadAssumption DEF ForceBind, Unchanged_force, CallInv, AtBackend,
     TypeOK
<1>6. MutexInv'
  BY ThreadAssumption DEF ForceBind, MutexInv, TypeOK
<1>7. HeldInv'
  BY <1>2, StillHeld DEF ForceBind, MutexInv, HeldInv, TypeOK
<1>8. DryInv'
  BY <1>1 DEF ForceBind, Unchanged_force, DryInv
<1>9. SessionsInv'
  <2> SUFFICES ASSUME NEW s \in Left', NEW k \in Key, Live(k)',
                      sessions'[k].backend_id = s, <<k, s>> \notin revived'
               PROVE  \E t \in Thread : WillVisit(t, s, k)'
    BY DEF SessionsInv
  <2>1. s \in Left /\ revived' = revived
    BY <1>1 DEF ForceBind, Left, Unchanged_force
  <2>2. \A t \in Thread : WillVisit(t, s, k) => WillVisit(t, s, k)'
    BY DEF ForceBind, WillVisit, Unchanged_force, TypeOK
  <2>3. CASE k = key[a]
    <3>1. PICK t \in Thread : pc[t] = "evacuate" /\ backend[t] = s
      BY <1>3, <2>1, <2>3 DEF ForceBind, BindingsInv
    <3> QED BY <2>2, <3>1 DEF WillVisit
  <2>4. CASE k # key[a]
    BY <1>3, <2>1, <2>2, <2>4 DEF SessionsInv, Live, Left
  <2> QED BY <2>3, <2>4
<1>10. BindingsInv'
  BY <1>2 DEF ForceBind, BindingsInv, MutexInv, TypeOK
<1> QED BY <1>4, <1>5, <1>6, <1>7, <1>8, <1>9, <1>10

(* setSessionExpiry: a session that comes alive on a server that is off    *)
(* the ring is noted.                                                      *)
LEMMA SetExpiryStep ==
  ASSUME Inv, NEW k \in Key, NEW flag \in BOOLEAN, setSessionExpiry(k, flag)
  PROVE  Inv'
<1> USE DEF Inv, Thread, Router
<1>1. RingTypeOK' /\ OnRing' = OnRing
  BY DEF setSessionExpiry, TypeOK, RingTypeOK, OnRing
<1>2. sessions[k] \in Entry /\ sessions[k] # None
  BY DEF setSessionExpiry, TypeOK
<1>3. /\ sessions' \in [Key -> Entry \cup {None}]
      /\ \A j \in Key \ {k} : sessions'[j] = sessions[j]
      /\ sessions'[k].backend_id = sessions[k].backend_id
      /\ sessions'[k].lapsed = flag
  <2> DEFINE e == [sessions[k] EXCEPT !.lapsed = flag]
  <2>1. sessions' = [sessions EXCEPT ![k] = e]
    BY DEF setSessionExpiry
  <2>2. /\ e \in Entry /\ e.backend_id = sessions[k].backend_id
        /\ e.lapsed = flag
    BY <1>2 DEF Entry
  <2> HIDE DEF e
  <2> QED BY <2>1, <2>2 DEF TypeOK
<1>4. revived \subseteq revived' /\ revived' \subseteq Key \X Server
  BY <1>2 DEF setSessionExpiry, TypeOK, Entry
<1>5. TypeOK'
  BY <1>1, <1>3, <1>4 DEF setSessionExpiry, threadVars, TypeOK
<1>6. CallInv'
  BY DEF setSessionExpiry, threadVars, CallInv
<1>7. MutexInv'
  BY DEF setSessionExpiry, threadVars, MutexInv
<1>8. HeldInv'
  BY StillHeld DEF setSessionExpiry, threadVars
<1>9. DryInv'
  BY <1>1 DEF setSessionExpiry, DryInv
<1>10. SessionsInv'
  <2> SUFFICES ASSUME NEW s \in Left', NEW j \in Key, Live(j)',
                      sessions'[j].backend_id = s, <<j, s>> \notin revived'
               PROVE  \E t \in Thread : WillVisit(t, s, j)'
    BY DEF SessionsInv
  <2>1. s \in Left /\ <<j, s>> \notin revived
    BY <1>1, <1>4 DEF setSessionExpiry, Left
  <2>2. j # k
    BY <1>3, <2>1 DEF setSessionExpiry, Live, Left
  <2>3. Live(j) /\ sessions[j].backend_id = s
    BY <1>3, <2>2 DEF Live
  <2> QED BY <2>1, <2>3 DEF setSessionExpiry, threadVars, SessionsInv,
             WillVisit, Left
<1>11. BindingsInv'
  BY <1>1 DEF setSessionExpiry, threadVars, BindingsInv, Left
<1> QED BY <1>5, <1>6, <1>7, <1>8, <1>9, <1>10, <1>11

(* cleanupExpired erases no live session. *)
LEMMA CleanupStep ==
  ASSUME Inv, cleanupExpired
  PROVE  Inv'
<1> USE DEF Inv, Thread, Router
<1>1. RingTypeOK' /\ OnRing' = OnRing
  BY DEF cleanupExpired, TypeOK, RingTypeOK, OnRing
<1>2. /\ sessions' \in [Key -> Entry \cup {None}]
      /\ \A j \in Key : Live(j)' => Live(j) /\ sessions'[j] = sessions[j]
  BY DEF cleanupExpired, Live, TypeOK
<1>3. TypeOK'
  BY <1>1, <1>2 DEF cleanupExpired, threadVars, TypeOK
<1>4. CallInv'
  BY DEF cleanupExpired, threadVars, CallInv
<1>5. MutexInv'
  BY DEF cleanupExpired, threadVars, MutexInv
<1>6. HeldInv'
  BY StillHeld DEF cleanupExpired, threadVars
<1>7. DryInv'
  BY <1>1 DEF cleanupExpired, DryInv
<1>8. SessionsInv'
  BY <1>1, <1>2 DEF cleanupExpired, threadVars, SessionsInv, Left, WillVisit
<1>9. BindingsInv'
  BY <1>1 DEF cleanupExpired, threadVars, BindingsInv, Left
<1> QED BY <1>3, <1>4, <1>5, <1>6, <1>7, <1>8, <1>9

(* At first every server is on the ring. *)
LEMMA FullRing ==
  ASSUME Init
  PROVE  /\ active_servers \in Seq(Server) /\ NoRepeats(active_servers)
         /\ OnRing = Server
<1>1. Cardinality(Server) \in Nat
  BY FS_CardinalityType, BackendAssumption
<1>2. active_servers = [i \in 1..Cardinality(Server) |-> i - 1]
  BY DEF Init
<1>3. /\ active_servers \in Seq(Server)
      /\ Len(active_servers) = Cardinality(Server)
  BY <1>1, <1>2, BackendAssumption
<1>4. \A s \in Server : s + 1 \in 1..Cardinality(Server)
  BY <1>1, BackendAssumption
<1>5. \A s \in Server : active_servers[s + 1] = s
  BY <1>1, <1>2, BackendAssumption
<1>6. OnRing = Server
  BY <1>3, <1>4, <1>5 DEF OnRing, Members
<1> QED BY <1>1, <1>2, <1>3, <1>6 DEF NoRepeats

(* No step of the system breaks the invariant. *)
LEMMA InvInductive == Spec => []Inv
<1>1. Init => Inv
  <2> SUFFICES ASSUME Init PROVE Inv
    OBVIOUS
  <2>1. /\ active_servers \in Seq(Server) /\ NoRepeats(active_servers)
        /\ OnRing = Server
    BY FullRing
  <2>2. TypeOK
    BY <2>1, ThreadAssumption, BackendAssumption DEF Init, TypeOK, RingTypeOK,
       Thread, Router, FaultCap
  <2>3. CallInv /\ MutexInv /\ HeldInv
    BY ThreadAssumption DEF Init, CallInv, MutexInv, HeldInv, Thread, Router,
       AtBackend
  <2>4. DryInv /\ SessionsInv /\ BindingsInv
    BY <2>1 DEF Init, DryInv, SessionsInv, BindingsInv, Left
  <2> QED BY <2>2, <2>3, <2>4 DEF Inv
<1>2. Inv /\ [Next]_vars => Inv'
  <2> SUFFICES ASSUME Inv, [Next]_vars PROVE Inv'
    OBVIOUS
  <2>1. ASSUME NEW t \in Thread, Continue(t) PROVE Inv'
    BY <2>1, RouteBlockedStep, RouteStickyStep, RouteOnwardStep,
       RouteNowhereStep, RouteChooseStep, RouteBindStep, ForwardStep, DropStep,
       RecheckStep, ProcessStep, RespondStep, RemoveStep, AddStep,
       EvacuateStep, EvacuateOneStep, EvacuatedStep, ForceNowhereStep,
       ForceChooseStep, ForceAloneStep, ForceOtherStep, ForceBindStep
       DEF Continue
  <2>2. CASE UNCHANGED vars
    BY <2>2 DEF Inv, vars, threadVars, TypeOK, RingTypeOK, CallInv, MutexInv,
       HeldInv, DryInv, SessionsInv, BindingsInv, Left, OnRing, WillVisit, Live
  <2> QED BY <2>1, <2>2, BeginStep, OfflineStep, OnlineStep, StopStep,
             ForceStep, BlockStep, SetExpiryStep, CleanupStep, LapseStep
             DEF Next
<1> QED BY <1>1, <1>2, PTL DEF Spec

(* Every variable has its type. *)
THEOREM TypeCorrect == Spec => []TypeOK
<1>1. Inv => TypeOK
  BY DEF Inv
<1> QED BY <1>1, InvInductive, PTL

(* No session is left behind, one revived by setSessionExpiry aside.       *)
THEOREM NoSessionLeftBehindHolds == Spec => []NoSessionLeftBehind
<1>1. Inv => NoSessionLeftBehind
  BY DEF Inv, NoSessionLeftBehind, SessionsInv, Left, WillVisit, Evacuating
<1> QED BY <1>1, InvInductive, PTL
-----------------------------------------------------------------------------
(* What holds as long as operations do not overlap, which nothing in the   *)
(* code sees to: two operators at once can leave a server on the ring that *)
(* offline until a request runs into it.  The shipped programs call        *)
(* everything from one thread.                                             *)

OneOperator == \A o, p \in Operator : o = p

(* The server of an operation under way: started or stopped, and nothing   *)
(* but a failure has interfered.                                           *)
OperationInv ==
  \A o \in Operator :
    /\ pc[o] = "add" => online[backend[o]] \/ backend[o] \in stopped
    /\ pc[o] = "remove" => ~online[backend[o]]

UpInv == OperationInv /\ RingServersUp

(* A step in which no operator begins or ends anything, no server joins    *)
(* the ring and none starts or stops.                                      *)
LEMMA StillUp ==
  ASSUME UpInv, UNCHANGED <<online, stopped>>, OnRing' \subseteq OnRing,
         \A o \in Operator :
           pc[o] \in {"add", "remove"} \/ pc'[o] \in {"add", "remove"} =>
             pc'[o] = pc[o] /\ backend'[o] = backend[o]
  PROVE  UpInv'
BY DEF UpInv, OperationInv, RingServersUp

(* Operators that work one after the other put no server on the ring that  *)
(* is offline.                                                             *)
LEMMA UpStep ==
  ASSUME OneOperator, Inv, UpInv, Next
  PROVE  UpInv'
<1> USE ThreadAssumption DEF Inv, Thread
<1>1. ASSUME NEW r \in Requester,
             \/ RouteBlocked(r) \/ RouteSticky(r) \/ RouteOnward(r)
             \/ RouteNowhere(r) \/ RouteChoose(r) \/ RouteBind(r)
             \/ Forward(r) \/ Recheck(r) \/ Process(r) \/ Respond(r)
      PROVE  UpInv'
  <2>1. UNCHANGED <<active_servers, online, stopped>>
    BY <1>1 DEF RouteBlocked, RouteSticky, RouteOnward, RouteNowhere,
       RouteChoose, RouteBind, Forward, Recheck, Process, Respond,
       Unchanged_route
  <2>2. \A o \in Operator : pc'[o] = pc[o] /\ backend'[o] = backend[o]
    BY <1>1 DEF RouteBlocked, RouteSticky, RouteOnward, RouteNowhere,
       RouteChoose, RouteBind, Forward, Recheck, Process, Respond, Return, End,
       TypeOK
  <2> QED BY <2>1, <2>2, StillUp DEF OnRing
<1>2. ASSUME NEW r \in Requester, Drop(r)
      PROVE  UpInv'
  <2>1. OnRing' \subseteq OnRing
    BY <1>2, RingStep DEF Drop, CallInv, AtBackend, TypeOK
  <2>2. \A o \in Operator : pc'[o] = pc[o] /\ backend'[o] = backend[o]
    BY <1>2 DEF Drop
  <2> QED BY <1>2, <2>1, StillUp DEF Drop
<1>3. ASSUME NEW t \in Thread,
             \/ Evacuate(t) \/ Evacuated(t)
             \/ \E k \in Key : EvacuateOne(t, k)
      PROVE  UpInv'
  <2>1. UNCHANGED <<active_servers, online, stopped>>
    BY <1>3 DEF Evacuate, Evacuated, EvacuateOne, Unchanged_evacuate
  <2>2. \A o \in Operator :
          pc[o] \in {"add", "remove"} \/ pc'[o] \in {"add", "remove"} =>
            pc'[o] = pc[o] /\ backend'[o] = backend[o]
    BY <1>3 DEF Evacuate, Evacuated, EvacuateOne, AfterEvacuation, TypeOK
  <2> QED BY <2>1, <2>2, StillUp DEF OnRing
<1>4. ASSUME NEW o \in Operator, Remove(o)
      PROVE  UpInv'
  <2>1. OnRing' = OnRing \ {backend[o]}
    BY <1>4, RingStep DEF Remove, CallInv, AtBackend, TypeOK
  <2> QED BY <1>4, <2>1 DEF Remove, UpInv, OperationInv, RingServersUp
<1>5. ASSUME NEW o \in Operator, Add(o)
      PROVE  UpInv'
  <2>1. OnRing' = OnRing \cup {backend[o]}
    BY <1>5, RingStep DEF Add, CallInv, AtBackend, TypeOK, OnRing
  <2> QED BY <1>5, <2>1 DEF Add, UpInv, OperationInv, RingServersUp, TypeOK
<1>6. ASSUME NEW o \in Operator, NEW s \in Server, Offline(o, s)
      PROVE  UpInv'
  <2>1. OnRing' = OnRing /\ OnRing \subseteq Server
    BY <1>6, MembersType DEF Offline, OnRing, TypeOK, RingTypeOK
  <2> QED BY <1>6, <2>1 DEF Offline, stop, UpInv, OperationInv, RingServersUp,
             OneOperator, TypeOK
<1>7. ASSUME NEW o \in Operator, NEW s \in Server, Online(o, s)
      PROVE  UpInv'
  <2>1. OnRing' = OnRing /\ OnRing \subseteq Server
    BY <1>7, MembersType DEF Online, OnRing, TypeOK, RingTypeOK
  <2> QED BY <1>7, <2>1 DEF Online, start, UpInv, OperationInv, RingServersUp,
             OneOperator, TypeOK
<1>8. ASSUME NEW s \in Server, Stop(s)
      PROVE  UpInv'
  <2>1. OnRing' = OnRing /\ OnRing \subseteq Server
    BY <1>8, MembersType DEF Stop, OnRing, TypeOK, RingTypeOK
  <2> QED BY <1>8, <2>1 DEF Stop, stop, threadVars, UpInv, OperationInv,
             RingServersUp
<1>9. ASSUME \/ \E k \in Key, flag \in BOOLEAN :
                  blockSession(k, flag) \/ setSessionExpiry(k, flag)
             \/ cleanupExpired
             \/ \E k \in Key : Lapse(k)
      PROVE  UpInv'
  BY <1>9, StillUp DEF blockSession, setSessionExpiry, cleanupExpired, Lapse,
     threadVars, OnRing
<1>10. ASSUME NEW r \in Requester, NEW k \in Key, Begin(r, k)
       PROVE  UpInv'
  <2>1. UNCHANGED <<active_servers, online, stopped>>
    BY <1>10 DEF Begin
  <2>2. /\ pc' = [pc EXCEPT ![r] = "route"]
        /\ backend' = [backend EXCEPT ![r] = NoServer]
    BY <1>10 DEF Begin
  <2>3. \A o \in Operator : pc'[o] = pc[o] /\ backend'[o] = backend[o]
    BY <2>2
  <2> QED BY <2>1, <2>3, StillUp DEF OnRing
<1>11. ASSUME NEW a \in Administrator,
              \/ ForceNowhere(a) \/ ForceChoose(a) \/ ForceAlone(a)
              \/ ForceOther(a) \/ ForceBind(a)
              \/ \E k \in Key : forceReassign(a, k)
       PROVE  UpInv'
  <2>1. UNCHANGED <<active_servers, online, stopped, backend>>
    BY <1>11 DEF ForceNowhere, ForceChoose, ForceAlone, ForceOther, ForceBind,
       forceReassign, Unchanged_force
  <2>2. \A o \in Operator : pc'[o] = pc[o]
    BY <1>11 DEF ForceNowhere, ForceChoose, ForceAlone, ForceOther, ForceBind,
       forceReassign, TypeOK
  <2> QED BY <2>1, <2>2, StillUp DEF OnRing
<1> QED BY <1>1, <1>2, <1>3, <1>4, <1>5, <1>6, <1>7, <1>8, <1>9, <1>10, <1>11
           DEF Next, Continue

(* The two stay true together: the ring offers no server that an operator  *)
(* has taken offline.                                                      *)
LEMMA UpInvariant ==
  ASSUME OneOperator
  PROVE  Spec => []UpInv
<1>1. Init => UpInv
  <2> SUFFICES ASSUME Init PROVE UpInv
    OBVIOUS
  <2>1. OnRing = Server
    BY FullRing
  <2> QED BY <2>1 DEF Init, UpInv, OperationInv, RingServersUp, Thread
<1>2. Inv /\ UpInv /\ [Next]_vars => UpInv'
  <2>1. ASSUME UpInv, UNCHANGED vars PROVE UpInv'
    BY <2>1, StillUp DEF vars, threadVars, OnRing
  <2> QED BY <2>1, UpStep
<1> QED BY <1>1, <1>2, InvInductive, PTL DEF Spec

(* Of the servers on the ring, those that are offline are about to be      *)
(* removed, or stopped by themselves.                                      *)
THEOREM RingServersUpHolds ==
  ASSUME OneOperator
  PROVE  Spec => []RingServersUp
<1>1. UpInv => RingServersUp
  BY DEF UpInv
<1> QED BY <1>1, UpInvariant, PTL
-----------------------------------------------------------------------------
(* The failures a request meets. *)

Down == {s \in Server : ~(online[s] /\ s \in OnRing)}

RingOnline(except) == \A s \in OnRing \ except : online[s]

(* On the way from its failover to the second choice of a backend. *)
Rerouting(r) ==
  retry[r] /\ pc[r] \in {"evacuate", "evacuating", "route", "choose", "bind"}

(* As long as a request has met no failure, no server is down, and as long *)
(* as it has met one, no more than one is.                                 *)
CountInv(r) ==
  pc[r] # "idle" =>
    /\ faults[r] = 0 => Down = {}
    /\ faults[r] = 1 => \A s, t \in Down : s = t

(* A failover is a failure met.  If it is the only one, the other servers  *)
(* on the ring are online, and the second choice will be one of them.      *)
FailoverInv(r) ==
  /\ pc[r] = "drop" => faults[r] >= 1
  /\ pc[r] # "idle" /\ retry[r] => faults[r] >= 1
  /\ pc[r] = "recheck" => retry[r]
  /\ faults[r] < 2 =>
       /\ pc[r] = "drop" => RingOnline({backend[r]})
       /\ Rerouting(r) => RingOnline({})
       /\ retry[r] /\ pc[r] = "bind" => online[target[r]]
       /\ pc[r] = "recheck" /\ status[r] # "SESSION_BLOCKED" =>
            online[backend[r]]

(* A request that is under way has no result; one that gave up before it   *)
(* was forwarded met two failures.                                         *)
ResultInv(r) ==
  /\ pc[r] # "idle" => result[r] = "none"
  /\ result[r] = "unavailable" /\ status[r] # "SESSION_BLOCKED" =>
       faults[r] >= 2

RequestInv(r) == CountInv(r) /\ FailoverInv(r) /\ ResultInv(r)

FaultsInv == \A r \in Requester : RequestInv(r)

(* A request stays where it is while others move. *)
Stays(r) ==
  /\ pc'[r] = pc[r] /\ retry'[r] = retry[r] /\ result'[r] = result[r]
  /\ status'[r] = status[r] /\ backend'[r] = backend[r]
  /\ target'[r] = target[r]

(* What others do without a failure harms no request. *)
LEMMA Unharmed ==
  ASSUME Inv, NEW r \in Requester, RequestInv(r), Stays(r),
         faults'[r] = faults[r], Down' \subseteq Down,
         \A s \in Server : online[s] => online'[s],
         \A s \in OnRing' : s \in OnRing \/ online'[s]
  PROVE  RequestInv(r)'
<1> USE DEF Stays, RequestInv
<1>1. CountInv(r)'
  BY DEF CountInv
<1>2. FailoverInv(r)'
  <2>1. OnRing \subseteq Server
    BY MembersType DEF Inv, TypeOK, RingTypeOK, OnRing
  <2>2. pc[r] = "bind" => target[r] \in Server
    BY DEF Inv, CallInv, Router
  <2>3. pc[r] = "recheck" => backend[r] \in Server
    BY DEF Inv, CallInv, AtBackend, Thread
  <2> QED BY <2>1, <2>2, <2>3 DEF FailoverInv, Rerouting, RingOnline
<1>3. ResultInv(r)'
  BY DEF ResultInv
<1> QED BY <1>1, <1>2, <1>3

(* A failure of one server is counted by every request under way. *)
LEMMA Harmed ==
  ASSUME Inv, NEW r \in Requester, RequestInv(r), Stays(r), NoteFault,
         NEW x, Down' \subseteq Down \cup {x}
  PROVE  RequestInv(r)'
<1>1. /\ faults[r] \in 0..2
      /\ faults'[r] = IF pc[r] = "idle" \/ faults[r] = 2
                      THEN faults[r] ELSE faults[r] + 1
  BY DEF NoteFault, FaultCap, Inv, TypeOK
<1> USE <1>1 DEF Stays, RequestInv
<1>2. CountInv(r)'
  BY DEF CountInv
<1>3. FailoverInv(r)'
  BY DEF FailoverInv, Rerouting
<1>4. ResultInv(r)'
  BY DEF ResultInv
<1> QED BY <1>2, <1>3, <1>4

(* A step of a request that leaves ring, flags and counts alone does not   *)
(* concern the others.                                                     *)
LEMMA OwnStep ==
  ASSUME Inv, FaultsInv, NEW r \in Requester, RequestInv(r)',
         UNCHANGED <<active_servers, online>>,
         \A q \in Requester \ {r} : Stays(q) /\ faults'[q] = faults[q]
  PROVE  FaultsInv'
<1>1. Down' = Down /\ OnRing' = OnRing
  BY DEF Down, OnRing
<1>2. ASSUME NEW q \in Requester \ {r}
      PROVE  RequestInv(q)'
  BY <1>1, Unharmed DEF FaultsInv
<1> QED BY <1>2 DEF FaultsInv

(* After the failover a blocked session only ends the search. *)
LEMMA RouteBlockedFaults ==
  ASSUME Inv, FaultsInv, NEW r \in Requester, RouteBlocked(r)
  PROVE  FaultsInv'
<1> USE ThreadAssumption DEF Inv, TypeOK, Thread, Router
<1>1. /\ UNCHANGED <<active_servers, online, faults>>
      /\ \A q \in Requester \ {r} : Stays(q)
  BY DEF RouteBlocked, Stays, Unchanged_route, Return
<1>2. Down' = Down /\ OnRing' = OnRing /\ OnRing \subseteq Server
  BY <1>1, MembersType DEF Down, OnRing, RingTypeOK
<1>4. RequestInv(r)'
  BY <1>2 DEF RouteBlocked, Unchanged_route, Return, AfterRoute, AtRoute,
     CountInv, FailoverInv, ResultInv, RequestInv, Rerouting, RingOnline,
     FaultsInv
<1> QED BY <1>1, <1>4, OwnStep

(* A session that stays after the failover stays on the ring. *)
LEMMA RouteStickyFaults ==
  ASSUME Inv, FaultsInv, NEW r \in Requester, RouteSticky(r)
  PROVE  FaultsInv'
<1> USE ThreadAssumption DEF Inv, TypeOK, Thread, Router
<1>1. /\ UNCHANGED <<active_servers, online, faults>>
      /\ \A q \in Requester \ {r} : Stays(q)
  BY DEF RouteSticky, Stays, Unchanged_route, Return
<1>2. Down' = Down /\ OnRing' = OnRing /\ OnRing \subseteq Server
  BY <1>1, MembersType DEF Down, OnRing, RingTypeOK
<1>4. RequestInv(r)'
  BY <1>2 DEF RouteSticky, Unchanged_route, Return, AfterRoute, AtRoute,
     CountInv, FailoverInv, ResultInv, RequestInv, Rerouting, RingOnline,
     FaultsInv
<1> QED BY <1>1, <1>4, OwnStep

(* The search goes on. *)
LEMMA RouteOnwardFaults ==
  ASSUME Inv, FaultsInv, NEW r \in Requester, RouteOnward(r)
  PROVE  FaultsInv'
<1> USE ThreadAssumption DEF Inv, TypeOK, Thread, Router
<1>1. /\ UNCHANGED <<active_servers, online, faults>>
      /\ \A q \in Requester \ {r} : Stays(q)
  BY DEF RouteOnward, Stays, Unchanged_route
<1>2. Down' = Down /\ OnRing' = OnRing /\ OnRing \subseteq Server
  BY <1>1, MembersType DEF Down, OnRing, RingTypeOK
<1>4. RequestInv(r)'
  BY <1>2 DEF RouteOnward, Unchanged_route, AtRoute, CountInv, FailoverInv,
     ResultInv, RequestInv, Rerouting, RingOnline, FaultsInv
<1> QED BY <1>1, <1>4, OwnStep

(* An empty ring: both servers, or more, are down. *)
LEMMA RouteNowhereFaults ==
  ASSUME Inv, FaultsInv, NEW r \in Requester, RouteNowhere(r),
         NEW s \in Server, NEW t \in Server, s # t
  PROVE  FaultsInv'
<1> USE ThreadAssumption DEF Inv, TypeOK, Thread, Router
<1>1. /\ UNCHANGED <<active_servers, online, faults>>
      /\ \A q \in Requester \ {r} : Stays(q)
  BY DEF RouteNowhere, Stays, Unchanged_route, Return
<1>2. Down' = Down /\ OnRing' = OnRing /\ OnRing \subseteq Server
  BY <1>1, MembersType DEF Down, OnRing, RingTypeOK
<1>3. faults[r] >= 2
  <2>1. OnRing = {}
    BY Choice DEF RouteNowhere
  <2>2. Down = Server
    BY <2>1 DEF Down
  <2>3. faults[r] # 0 /\ faults[r] # 1
    BY <2>2 DEF RouteNowhere, FaultsInv, RequestInv, CountInv
  <2> QED BY <2>3
<1>4. RequestInv(r)'
  BY <1>1, <1>3 DEF RouteNowhere, Return, AfterRoute, CountInv, FailoverInv,
     ResultInv, RequestInv
<1> QED BY <1>1, <1>4, OwnStep

(* The second choice is on the ring.                                      *)
LEMMA RouteChooseFaults ==
  ASSUME Inv, FaultsInv, NEW r \in Requester, RouteChoose(r)
  PROVE  FaultsInv'
<1> USE ThreadAssumption DEF Inv, TypeOK, Thread, Router
<1>1. /\ UNCHANGED <<active_servers, online, faults>>
      /\ \A q \in Requester \ {r} : Stays(q)
  BY DEF RouteChoose, Stays, Unchanged_route
<1>2. Down' = Down /\ OnRing' = OnRing /\ OnRing \subseteq Server
  BY <1>1, MembersType DEF Down, OnRing, RingTypeOK
<1>3. getServer(key[r]) \in OnRing
  BY Choice DEF RouteChoose
<1>4. RequestInv(r)'
  BY <1>2, <1>3 DEF RouteChoose, Unchanged_route, CountInv, FailoverInv,
     ResultInv, RequestInv, Rerouting, RingOnline, FaultsInv
<1> QED BY <1>1, <1>4, OwnStep

(* And becomes the backend. *)
LEMMA RouteBindFaults ==
  ASSUME Inv, FaultsInv, NEW r \in Requester, RouteBind(r)
  PROVE  FaultsInv'
<1> USE ThreadAssumption DEF Inv, TypeOK, Thread, Router
<1>1. /\ UNCHANGED <<active_servers, online, faults>>
      /\ \A q \in Requester \ {r} : Stays(q)
  BY DEF RouteBind, Stays, Unchanged_route, Return
<1>2. Down' = Down /\ OnRing' = OnRing /\ OnRing \subseteq Server
  BY <1>1, MembersType DEF Down, OnRing, RingTypeOK
<1>4. RequestInv(r)'
  BY <1>2 DEF RouteBind, Unchanged_route, Return, AfterRoute, CountInv,
     FailoverInv, ResultInv, RequestInv, Rerouting, RingOnline, FaultsInv
<1> QED BY <1>1, <1>4, OwnStep

(* A request whose backend is offline has met that failure. *)
LEMMA ForwardFaults ==
  ASSUME Inv, FaultsInv, NEW r \in Requester, Forward(r)
  PROVE  FaultsInv'
<1> USE ThreadAssumption DEF Inv, TypeOK, Thread, Router
<1>1. /\ UNCHANGED <<active_servers, online, faults>>
      /\ \A q \in Requester \ {r} : Stays(q)
  BY DEF Forward, Stays, Unchanged_route
<1>2. Down' = Down /\ OnRing' = OnRing /\ OnRing \subseteq Server
  BY <1>1, MembersType DEF Down, OnRing, RingTypeOK
<1>4. RequestInv(r)'
  BY <1>2 DEF Forward, Down, Unchanged_route, CountInv, FailoverInv, ResultInv,
     RequestInv, Rerouting, RingOnline, FaultsInv, CallInv, AtBackend
<1> QED BY <1>1, <1>4, OwnStep

(* A second backend that is offline is a second failure. *)
LEMMA RecheckFaults ==
  ASSUME Inv, FaultsInv, NEW r \in Requester, Recheck(r)
  PROVE  FaultsInv'
<1> USE ThreadAssumption DEF Inv, TypeOK, Thread, Router
<1>1. /\ UNCHANGED <<active_servers, online, faults>>
      /\ \A q \in Requester \ {r} : Stays(q)
  BY DEF Recheck, Stays, Unchanged_route, End
<1>2. Down' = Down /\ OnRing' = OnRing /\ OnRing \subseteq Server
  BY <1>1, MembersType DEF Down, OnRing, RingTypeOK
<1>4. RequestInv(r)'
  BY <1>1, <1>2 DEF Recheck, End, CountInv, FailoverInv, ResultInv, RequestInv,
     Rerouting, RingOnline, FaultsInv
<1> QED BY <1>1, <1>4, OwnStep

(* A request that was forwarded has another result. *)
LEMMA ProcessFaults ==
  ASSUME Inv, FaultsInv, NEW r \in Requester, Process(r)
  PROVE  FaultsInv'
<1> USE ThreadAssumption DEF Inv, TypeOK, Thread, Router
<1>1. /\ UNCHANGED <<active_servers, online, faults>>
      /\ \A q \in Requester \ {r} : Stays(q)
  BY DEF Process, Stays, Unchanged_route, End
<1>2. Down' = Down /\ OnRing' = OnRing /\ OnRing \subseteq Server
  BY <1>1, MembersType DEF Down, OnRing, RingTypeOK
<1>4. RequestInv(r)'
  BY <1>2 DEF Process, Unchanged_route, End, CountInv, FailoverInv, ResultInv,
     RequestInv, Rerouting, RingOnline, FaultsInv
<1> QED BY <1>1, <1>4, OwnStep

(* Likewise. *)
LEMMA RespondFaults ==
  ASSUME Inv, FaultsInv, NEW r \in Requester, Respond(r)
  PROVE  FaultsInv'
<1> USE ThreadAssumption DEF Inv, TypeOK, Thread, Router
<1>1. /\ UNCHANGED <<active_servers, online, faults>>
      /\ \A q \in Requester \ {r} : Stays(q)
  BY DEF Respond, Stays, Unchanged_route, End
<1>2. Down' = Down /\ OnRing' = OnRing /\ OnRing \subseteq Server
  BY <1>1, MembersType DEF Down, OnRing, RingTypeOK
<1>4. RequestInv(r)'
  BY DEF Respond, End, CountInv, FailoverInv, ResultInv, RequestInv, Rerouting
<1> QED BY <1>1, <1>4, OwnStep

(* An evacuation changes neither ring nor flags. *)
LEMMA EvacuateFaults ==
  ASSUME Inv, FaultsInv, NEW t \in Thread, Evacuate(t)
  PROVE  FaultsInv'
<1> USE ThreadAssumption DEF Inv, TypeOK, Thread, Router
<1>1. UNCHANGED <<active_servers, online, faults, retry, result, status,
                  target>>
  BY DEF Evacuate, Unchanged_evacuate
<1>2. Down' = Down /\ OnRing' = OnRing
  BY <1>1 DEF Down, OnRing
<1>3. ASSUME NEW r \in Requester \ {t}
      PROVE  RequestInv(r)'
  <2>1. Stays(r)
    BY <1>1 DEF Evacuate, Stays
  <2> QED BY <1>1, <1>2, <2>1, Unharmed DEF FaultsInv
<1>4. CASE t \in Requester
  <2>1. RequestInv(t)'
    BY <1>1, <1>2, <1>4 DEF Evacuate, CountInv, FailoverInv, ResultInv,
       RequestInv, Rerouting, RingOnline, FaultsInv
  <2> QED BY <1>3, <2>1 DEF FaultsInv
<1> QED BY <1>3, <1>4 DEF FaultsInv

(* Likewise. *)
LEMMA EvacuateOneFaults ==
  ASSUME Inv, FaultsInv, NEW t \in Thread, NEW k \in Key, EvacuateOne(t, k)
  PROVE  FaultsInv'
<1> USE ThreadAssumption DEF Inv, TypeOK, Thread, Router
<1>1. UNCHANGED <<active_servers, online, faults, retry, result, status,
                  target>>
  BY DEF EvacuateOne, Unchanged_evacuate
<1>2. Down' = Down /\ OnRing' = OnRing
  BY <1>1 DEF Down, OnRing
<1>3. ASSUME NEW r \in Requester \ {t}
      PROVE  RequestInv(r)'
  <2>1. Stays(r)
    BY <1>1 DEF EvacuateOne, Stays
  <2> QED BY <1>1, <1>2, <2>1, Unharmed DEF FaultsInv
<1>4. CASE t \in Requester
  <2>1. RequestInv(t)'
    BY <1>1, <1>2, <1>4 DEF EvacuateOne, CountInv, FailoverInv, ResultInv,
       RequestInv, Rerouting, RingOnline, FaultsInv
  <2> QED BY <1>3, <2>1 DEF FaultsInv
<1> QED BY <1>3, <1>4 DEF FaultsInv

(* Likewise. *)
LEMMA EvacuatedFaults ==
  ASSUME Inv, FaultsInv, NEW t \in Thread, Evacuated(t)
  PROVE  FaultsInv'
<1> USE ThreadAssumption DEF Inv, TypeOK, Thread, Router
<1>1. UNCHANGED <<active_servers, online, faults, retry, result, status,
                  target>>
  BY DEF Evacuated, Unchanged_evacuate
<1>2. Down' = Down /\ OnRing' = OnRing
  BY <1>1 DEF Down, OnRing
<1>3. ASSUME NEW r \in Requester \ {t}
      PROVE  RequestInv(r)'
  <2>1. Stays(r)
    BY <1>1 DEF Evacuated, Stays, AfterEvacuation
  <2> QED BY <1>1, <1>2, <2>1, Unharmed DEF FaultsInv
<1>4. CASE t \in Requester
  <2>1. RequestInv(t)'
    BY <1>1, <1>2, <1>4 DEF Evacuated, AfterEvacuation, CountInv, FailoverInv,
       ResultInv, RequestInv, Rerouting, RingOnline, FaultsInv
  <2> QED BY <1>3, <2>1 DEF FaultsInv
<1> QED BY <1>3, <1>4 DEF FaultsInv
(* A failover takes a server off the ring: a failure that the others count *)
(* unless it was counted when the server stopped.                          *)
LEMMA DropFaults ==
  ASSUME Inv, FaultsInv, NEW r \in Requester, Drop(r)
  PROVE  FaultsInv'
<1> USE ThreadAssumption DEF Inv, TypeOK, Thread, Router
<1> DEFINE b == backend[r]
<1>1. b \in Server /\ OnRing' = OnRing \ {b}
  BY RingStep DEF Drop, CallInv, AtBackend
<1>2. /\ online' = online
      /\ Down' = Down \cup {b}
      /\ \A q \in Requester \ {r} : Stays(q)
  BY <1>1 DEF Drop, Stays, Down
<1>3. ASSUME NEW q \in Requester \ {r}
      PROVE  RequestInv(q)'
  <2>1. CASE online[b] /\ b \in OnRing
    BY <1>2, <2>1, Harmed DEF Drop, FaultsInv
  <2>2. CASE ~(online[b] /\ b \in OnRing)
    <3>1. Down' = Down /\ faults' = faults
      BY <1>2, <2>2 DEF Drop, Down
    <3> QED BY <1>1, <1>2, <3>1, Unharmed DEF FaultsInv
  <2> QED BY <2>1, <2>2
<1>4. RequestInv(r)'
  <2>1. /\ pc[r] = "drop" /\ pc'[r] = "evacuate" /\ retry'[r]
        /\ result'[r] = result[r] /\ faults[r] \in 0..2
    BY DEF Drop, FaultCap
  <2>2. faults[r] >= 1 /\ result[r] = "none"
    BY <2>1 DEF FaultsInv, RequestInv, FailoverInv, ResultInv
  <2>3. CASE online[b] /\ b \in OnRing
    <3>1. faults'[r] = 2
      BY <2>2, <2>3 DEF Drop, NoteFault, FaultCap
    <3> QED BY <2>1, <2>2, <3>1 DEF RequestInv, CountInv, FailoverInv,
               ResultInv
  <2>4. CASE ~(online[b] /\ b \in OnRing)
    <3>1. Down' = Down /\ faults' = faults
      BY <1>2, <2>4 DEF Drop, Down
    <3>2. faults[r] < 2 => RingOnline({})'
      BY <1>1, <1>2, <2>1 DEF FaultsInv, RequestInv, FailoverInv, RingOnline
    <3>3. CountInv(r)'
      BY <2>1, <3>1 DEF FaultsInv, RequestInv, CountInv
    <3>4. FailoverInv(r)'
      BY ONLY <2>1, <2>2, <3>1, <3>2 DEF FailoverInv
    <3>5. ResultInv(r)'
      BY <2>1, <2>2 DEF ResultInv
    <3> QED BY <3>3, <3>4, <3>5 DEF RequestInv
  <2> QED BY <2>3, <2>4
<1> QED BY <1>3, <1>4 DEF FaultsInv

(* An operator removes a server that was counted when it stopped. *)
LEMMA RemoveFaults ==
  ASSUME Inv, UpInv, FaultsInv, NEW o \in Operator, Remove(o)
  PROVE  FaultsInv'
<1> USE ThreadAssumption DEF Inv, TypeOK, Thread, Router
<1>1. OnRing' = OnRing \ {backend[o]}
  BY RingStep DEF Remove, CallInv, AtBackend
<1>2. /\ online' = online /\ faults' = faults
      /\ \A r \in Requester : Stays(r)
  BY DEF Remove, Unchanged_operate, Stays
<1>3. Down' = Down
  BY <1>1 DEF Remove, UpInv, OperationInv, Down
<1> QED BY <1>1, <1>2, <1>3, Unharmed DEF FaultsInv

(* A server that joins the ring is online, or a failure that is counted.   *)
LEMMA AddFaults ==
  ASSUME Inv, FaultsInv, NEW o \in Operator, Add(o)
  PROVE  FaultsInv'
<1> USE ThreadAssumption DEF Inv, TypeOK, Thread, Router
<1>1. OnRing' = OnRing \cup {backend[o]}
  BY RingStep DEF Add, CallInv, AtBackend, OnRing
<1>2. /\ online' = online
      /\ \A r \in Requester : Stays(r)
  BY DEF Add, Unchanged_operate, Stays
<1>3. Down' \subseteq Down
  BY <1>1, <1>2 DEF Down
<1>4. CASE online[backend[o]]
  BY <1>1, <1>2, <1>3, <1>4, Unharmed DEF Add, FaultsInv
<1>5. CASE ~online[backend[o]]
  BY <1>2, <1>3, <1>5, Harmed DEF Add, FaultsInv
<1> QED BY <1>4, <1>5

(* A server goes offline, by an operator or by itself. *)
LEMMA OfflineFaults ==
  ASSUME Inv, FaultsInv, NEW s \in Server,
         Stop(s) \/ \E o \in Operator : Offline(o, s)
  PROVE  FaultsInv'
<1> USE ThreadAssumption DEF Inv, TypeOK, Thread, Router
<1>1. UNCHANGED active_servers /\ stop(s) /\ NoteFault
  BY DEF Offline, Stop
<1>2. Down' \subseteq Down \cup {s}
  BY <1>1 DEF stop, Down, OnRing
<1>3. \A r \in Requester : Stays(r)
  BY DEF Offline, Stop, Unchanged_operate, threadVars, Stays
<1> QED BY <1>1, <1>2, <1>3, Harmed DEF FaultsInv

(* A server comes online. *)
LEMMA OnlineFaults ==
  ASSUME Inv, FaultsInv, NEW o \in Operator, NEW s \in Server, Online(o, s)
  PROVE  FaultsInv'
<1> USE ThreadAssumption DEF Inv, TypeOK, Thread, Router
<1>1. OnRing' = OnRing /\ faults' = faults
  BY DEF Online, OnRing
<1>2. \A t \in Server : online[t] => online'[t]
  BY DEF Online, start
<1>3. Down' \subseteq Down
  BY <1>1, <1>2 DEF Down
<1>4. \A r \in Requester : Stays(r)
  <2>1. /\ UNCHANGED <<status, retry, result, target>>
        /\ pc' = [pc EXCEPT ![o] = "add"]
        /\ backend' = [backend EXCEPT ![o] = s]
    BY DEF Online, Unchanged_operate
  <2> QED BY <2>1 DEF Stays
<1> QED BY <1>1, <1>2, <1>3, <1>4, Unharmed DEF FaultsInv

(* A request begins with the failures that are there. *)
LEMMA BeginFaults ==
  ASSUME Inv, FaultsInv, NEW r \in Requester, NEW k \in Key, Begin(r, k)
  PROVE  FaultsInv'
<1> USE ThreadAssumption DEF Inv, TypeOK, Thread, Router
<1>1. /\ UNCHANGED <<active_servers, online>>
      /\ pc'[r] = "route" /\ ~retry'[r] /\ result'[r] = "none"
      /\ \A q \in Requester \ {r} : Stays(q) /\ faults'[q] = faults[q]
  BY DEF Begin, Stays
<1>2. /\ faults'[r] = 0 => Down = {}
      /\ faults'[r] = 1 => \A s, t \in Down : s = t
  <2> DEFINE n == Cardinality(Down)
             F(m) == IF n < FaultCap THEN m = n ELSE m = FaultCap
  <2>1. IsFiniteSet(Down) /\ n \in Nat
    BY FS_Subset, FS_CardinalityType, BackendAssumption DEF Down
  <2>2. \E m \in 0..FaultCap : F(m)
    BY <2>1 DEF FaultCap
  <2>3. F(CHOOSE m \in 0..FaultCap : F(m))
    OBVIOUS
  <2>4. faults'[r] = CHOOSE m \in 0..FaultCap : F(m)
    BY DEF Begin, Down
  <2>5. F(faults'[r])
    BY <2>4
  <2>6. n = 0 => Down = {}
    BY <2>1, FS_EmptySet
  <2>7. n = 1 => \A s, t \in Down : s = t
    BY <2>1, FS_Singleton
  <2> QED BY <2>5, <2>6, <2>7 DEF FaultCap
<1>3. Down' = Down
  BY <1>1 DEF Down, OnRing
<1>4. RequestInv(r)'
  BY <1>1, <1>2, <1>3 DEF RequestInv, CountInv, FailoverInv, ResultInv,
     Rerouting
<1> QED BY <1>1, <1>4, OwnStep

(* A forced move concerns neither servers nor requests. *)
LEMMA ForceFaults ==
  ASSUME Inv, FaultsInv, NEW a \in Administrator,
         \/ ForceNowhere(a) \/ ForceChoose(a) \/ ForceAlone(a)
         \/ ForceOther(a) \/ ForceBind(a)
         \/ \E k \in Key : forceReassign(a, k)
  PROVE  FaultsInv'
<1> USE ThreadAssumption DEF Inv, TypeOK, Thread, Router
<1>1. /\ UNCHANGED <<active_servers, online, faults>>
      /\ UNCHANGED <<retry, result, status, backend>>
  BY DEF ForceNowhere, ForceChoose, ForceAlone, ForceOther, ForceBind,
     forceReassign, Unchanged_force
<1>2. \A r \in Requester : pc'[r] = pc[r] /\ target'[r] = target[r]
  BY DEF ForceNowhere, ForceChoose, ForceAlone, ForceOther, ForceBind,
     forceReassign
<1>3. Down' = Down /\ OnRing' = OnRing
  BY <1>1 DEF Down, OnRing
<1> QED BY <1>1, <1>2, <1>3, Unharmed DEF FaultsInv, Stays

(* What changes nothing but sessions. *)
LEMMA StillFaults ==
  ASSUME Inv, FaultsInv,
         UNCHANGED <<active_servers, online, threadVars, faults>>
  PROVE  FaultsInv'
BY DEF FaultsInv, RequestInv, CountInv, FailoverInv, ResultInv, Rerouting,
   RingOnline, Down, OnRing, threadVars

(* The count is kept by every step, where there are two servers or more    *)
(* and operations do not overlap.                                          *)
LEMMA FaultsInvariant ==
  ASSUME OneOperator, NEW s \in Server, NEW t \in Server, s # t
  PROVE  Spec => []FaultsInv
<1>1. Init => FaultsInv
  BY DEF Init, FaultsInv, RequestInv, CountInv, FailoverInv, ResultInv,
     Rerouting, Thread
<1>2. Inv /\ UpInv /\ FaultsInv /\ [Next]_vars => FaultsInv'
  <2> SUFFICES ASSUME Inv, UpInv, FaultsInv, [Next]_vars
               PROVE  FaultsInv'
    OBVIOUS
  <2>1. ASSUME NEW u \in Thread, Continue(u) PROVE FaultsInv'
    BY <2>1, RouteBlockedFaults, RouteStickyFaults, RouteOnwardFaults,
       RouteNowhereFaults, RouteChooseFaults, RouteBindFaults, ForwardFaults,
       DropFaults, RecheckFaults, ProcessFaults, RespondFaults, RemoveFaults,
       AddFaults, EvacuateFaults, EvacuateOneFaults, EvacuatedFaults,
       ForceFaults DEF Continue
  <2>2. CASE \/ \E k \in Key, flag \in BOOLEAN :
                  blockSession(k, flag) \/ setSessionExpiry(k, flag)
             \/ cleanupExpired
             \/ \E k \in Key : Lapse(k)
    BY <2>2, StillFaults DEF blockSession, setSessionExpiry, cleanupExpired,
       Lapse
  <2>3. CASE UNCHANGED vars
    BY <2>3, StillFaults DEF vars
  <2> QED BY <2>1, <2>2, <2>3, BeginFaults, OfflineFaults, OnlineFaults,
             ForceFaults DEF Next
<1> QED BY <1>1, <1>2, InvInductive, UpInvariant, PTL DEF Spec

(* A request that gives up before it is forwarded has met two failures.    *)
THEOREM SingleFailureMaskedHolds ==
  ASSUME OneOperator, Cardinality(Server) >= 2
  PROVE  Spec => []SingleFailureMasked
<1>1. 0 \in Server /\ 1 \in Server /\ 0 # 1
  BY FS_CardinalityType, BackendAssumption
<1>2. Spec => []FaultsInv
  BY <1>1, FaultsInvariant
<1>3. FaultsInv => SingleFailureMasked
  BY DEF FaultsInv, RequestInv, ResultInv, SingleFailureMasked
<1> QED BY <1>2, <1>3, PTL
=============================================================================
