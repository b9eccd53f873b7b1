---------------------------- MODULE LoadBalancer ----------------------------
(***************************************************************************)
(* Concurrent calls of one or both load balancers on the state they share  *)
(* (load_balancer.cpp): requests on their way through handleRequest,       *)
(* operators in takeBackendOffline and bringBackendOnline, administrators  *)
(* at the session table, and backends that stop.  The table's mutex, the   *)
(* ring's mutex and the atomic online flags are held for less than a call, *)
(* so calls interleave between those pieces; this module has one action    *)
(* per piece.  Of a session it keeps the backend, the blocked flag, and    *)
(* whether its timeout has passed.                                         *)
(***************************************************************************)
EXTENDS PreferenceRing, FiniteSets

CONSTANTS
  Requester,      \* threads that call handleRequest
  Operator,       \* threads that take backends offline and online
  Administrator,  \* threads that call forceReassign
  MaxCalls,       \* bound: how many requests each requester makes
  MaxOps,         \* bound: operations per operator
  MaxForces,      \* bound: forced moves per administrator
  MaxStops,       \* bound: backends that stop by themselves
  None            \* no session; nobody holds the mutex

Thread == Requester \cup Operator \cup Administrator

Router == Requester \cup Administrator   \* those who choose a backend

ASSUME ThreadAssumption ==
  /\ Requester \cap Operator = {}
  /\ Administrator \cap (Requester \cup Operator) = {}
  /\ None \notin Thread
  /\ MaxCalls \in [Requester -> Nat] /\ MaxOps \in Nat /\ MaxForces \in Nat
  /\ MaxStops \in Nat

(* main1.cpp creates the backends 0 .. NUM_BACKEND_SERVERS - 1.            *)
ASSUME BackendAssumption ==
  Key # {} /\ IsFiniteSet(Server) /\ Server = 0..(Cardinality(Server) - 1)

VARIABLES
  online,     \* RequestHandler::online_ of every backend
  sessions,   \* SessionManager::sessions_: for each key, an entry or None
  mutex,      \* the thread that holds SessionManager::mutex_, or None
  pc,         \* where each thread is in its call
  key,        \* the session key of each router's call
  backend,    \* assigned_backend of a request; the argument of an operation
  target,     \* what getServer returned to the thread
  status,     \* what routeRequest returned
  retry,      \* whether the request is past its failover
  result,     \* how the thread's last request ended
  todo,       \* the keys handleServerDown has still to visit
  left        \* how many more calls each thread makes

threadVars == <<pc, key, backend, target, status, retry, result, todo, left>>

VARIABLES
  stops,      \* how many more backends may stop by themselves
  stopped,    \* history: backends that stopped and were not brought back
  ranDry,     \* history: servers off the ring at a moment it was empty
  revived,    \* history: sessions revived on a server that was off the ring
  faults      \* history: per request, the failures it met

vars ==
  <<active_servers, online, sessions, mutex, threadVars, stops, stopped,
    ranDry, revived, faults>>

Entry == [backend_id : Server, blocked : BOOLEAN, lapsed : BOOLEAN]

ASSUME EntryAssumption == None \notin Entry

Live(k) == sessions[k] # None /\ ~sessions[k].lapsed

(* Where a request goes once routeRequest has returned st.  After the      *)
(* failover only SERVER_DOWN is looked at.                                 *)
AfterRoute(again, st) ==
  CASE st = "SERVER_DOWN" -> "idle"
    [] st = "SESSION_BLOCKED" /\ ~again -> "idle"
    [] OTHER -> IF again THEN "recheck" ELSE "forward"

AtRoute(t) == pc[t] = "route"

(* A request ends, with the given result; its locals are gone.             *)
End(t, how) ==
  /\ pc' = [pc EXCEPT ![t] = "idle"]
  /\ result' = [result EXCEPT ![t] = how]
  /\ backend' = [backend EXCEPT ![t] = NoServer]

(* routeRequest returns st to the request; if that ends the request, this  *)
(* is how it ended.                                                        *)
Return(t, st, b) ==
  /\ status' = [status EXCEPT ![t] = st]
  /\ backend' = [backend EXCEPT ![t] =
       IF AfterRoute(retry[t], st) = "idle" THEN NoServer ELSE b]
  /\ pc' = [pc EXCEPT ![t] = AfterRoute(retry[t], st)]
  /\ result' = [result EXCEPT ![t] =
       CASE AfterRoute(retry[t], st) # "idle" -> @
         [] st = "SERVER_DOWN" -> "unavailable"
         [] OTHER -> "blocked"]

(* Every change of the ring also records whether it has run dry, and       *)
(* clears the history of the servers that are on it.                       *)
NoteRing ==
  /\ ranDry' = IF OnRing' = {} THEN Server ELSE ranDry \ OnRing'
  /\ revived' = {p \in revived : p[2] \notin OnRing'}

FaultCap == 2   \* bound: more failures than this are not told apart

(* A failure, counted for every request under way: a backend stops, one    *)
(* that is online is taken off the ring, or one that is not is put on it.  *)
NoteFault ==
  faults' = [r \in Requester |->
               IF pc[r] = "idle" \/ faults[r] = FaultCap
               THEN faults[r] ELSE faults[r] + 1]
-----------------------------------------------------------------------------
(* handleRequest. *)

(* The first three stages (role, validation, rate limit) let the request   *)
(* pass; routing is next.  A request they turn away returns without a      *)
(* change to any state of this module.                                     *)
Begin(r, k) ==
  /\ pc[r] = "idle"
  /\ left[r] > 0
  /\ pc' = [pc EXCEPT ![r] = "route"]
  /\ key' = [key EXCEPT ![r] = k]
  /\ retry' = [retry EXCEPT ![r] = FALSE]
  /\ result' = [result EXCEPT ![r] = "none"]
  /\ status' = [status EXCEPT ![r] = "NONE"]
  /\ backend' = [backend EXCEPT ![r] = NoServer]
  /\ left' = [left EXCEPT ![r] = @ - 1]
  /\ faults' = [faults EXCEPT ![r] =
       CHOOSE n \in 0..FaultCap :
         LET down == Cardinality({s \in Server : ~(online[s] /\ s \in OnRing)})
         IN  IF down < FaultCap THEN n = down ELSE n = FaultCap]
  /\ UNCHANGED <<active_servers, online, sessions, mutex, target, todo,
                 stops, stopped, ranDry, revived>>

Unchanged_route ==
  UNCHANGED <<active_servers, online, key, retry, todo, left, stops, stopped,
              ranDry, revived, faults>>

(* routeRequest up to the first look at the ring.  With the blocked flag   *)
(* or a live session on an active backend the call is over; otherwise it   *)
(* goes on with the mutex held, an expired entry erased.                   *)
RouteBlocked(r) ==
  /\ AtRoute(r)
  /\ mutex = None
  /\ sessions[key[r]] # None
  /\ sessions[key[r]].blocked
  /\ Return(r, "SESSION_BLOCKED", backend[r])
  /\ UNCHANGED <<sessions, mutex, target>>
  /\ Unchanged_route

RouteSticky(r) ==
  /\ AtRoute(r)
  /\ mutex = None
  /\ Live(key[r])
  /\ ~sessions[key[r]].blocked
  /\ sessions[key[r]].backend_id \in OnRing
  /\ Return(r, "SUCCESS", sessions[key[r]].backend_id)
  /\ UNCHANGED <<sessions, mutex, target>>
  /\ Unchanged_route

(* Mutant: routeRequest does not take the mutex.                           *)
RouteOnwardUnlocked(r) ==
  /\ AtRoute(r)
  /\ mutex = None
  /\ sessions[key[r]] # None => ~sessions[key[r]].blocked
  /\ Live(key[r]) => sessions[key[r]].backend_id \notin OnRing
  /\ sessions' = [sessions EXCEPT ![key[r]] = IF Live(key[r]) THEN @ ELSE None]
  /\ pc' = [pc EXCEPT ![r] = "choose"]
  /\ UNCHANGED <<mutex, backend, target, status, result>>
  /\ Unchanged_route

RouteOnward(r) ==
  /\ AtRoute(r)
  /\ mutex = None
  /\ sessions[key[r]] # None => ~sessions[key[r]].blocked
  /\ Live(key[r]) => sessions[key[r]].backend_id \notin OnRing
  /\ sessions' = [sessions EXCEPT ![key[r]] = IF Live(key[r]) THEN @ ELSE None]
  /\ mutex' = r
  /\ pc' = [pc EXCEPT ![r] = "choose"]
  /\ UNCHANGED <<backend, target, status, result>>
  /\ Unchanged_route

(* routeRequest asks the ring, a second look if the session is live.       *)
RouteNowhere(r) ==
  /\ pc[r] = "choose"
  /\ getServer(key[r]) < 0
  /\ Return(r, "SERVER_DOWN", backend[r])
  /\ mutex' = None
  /\ UNCHANGED <<sessions, target>>
  /\ Unchanged_route

(* Mutant: the -1 of an empty ring is not looked for.                      *)
RouteChooseAnyway(r) ==
  /\ pc[r] = "choose"
  /\ target' = [target EXCEPT ![r] = getServer(key[r])]
  /\ pc' = [pc EXCEPT ![r] = "bind"]
  /\ UNCHANGED <<sessions, mutex, backend, status, result>>
  /\ Unchanged_route

RouteChoose(r) ==
  /\ pc[r] = "choose"
  /\ getServer(key[r]) >= 0
  /\ target' = [target EXCEPT ![r] = getServer(key[r])]
  /\ pc' = [pc EXCEPT ![r] = "bind"]
  /\ UNCHANGED <<sessions, mutex, backend, status, result>>
  /\ Unchanged_route

(* routeRequest writes the entry, new or moved, and releases the mutex.    *)
RouteBind(r) ==
  /\ pc[r] = "bind"
  /\ sessions' = [sessions EXCEPT ![key[r]] =
       IF Live(key[r])
       THEN [@ EXCEPT !.backend_id = target[r]]
       ELSE [backend_id |-> target[r], blocked |-> FALSE, lapsed |-> FALSE]]
  /\ Return(r, IF Live(key[r]) THEN "REASSIGNED" ELSE "SUCCESS", target[r])
  /\ mutex' = None
  /\ target' = [target EXCEPT ![r] = NoServer]
  /\ Unchanged_route

(* The check of the online flag before forwarding, and the one after the   *)
(* failover.                                                               *)
Forward(r) ==
  /\ pc[r] = "forward"
  /\ pc' = [pc EXCEPT ![r] = IF online[backend[r]] THEN "process" ELSE "drop"]
  /\ UNCHANGED <<sessions, mutex, backend, target, status, result>>
  /\ Unchanged_route

(* Mutant: the target of the failover is not checked; the request gives up *)
(* whatever the target's state.                                            *)
RecheckNever(r) ==
  /\ pc[r] = "recheck"
  /\ End(r, "unavailable")
  /\ UNCHANGED <<sessions, mutex, target, status>>
  /\ Unchanged_route

Recheck(r) ==
  /\ pc[r] = "recheck"
  /\ IF online[backend[r]]
     THEN /\ pc' = [pc EXCEPT ![r] = "process"]
          /\ UNCHANGED <<backend, result>>
     ELSE End(r, "unavailable")
  /\ UNCHANGED <<sessions, mutex, target, status>>
  /\ Unchanged_route

(* The failover of a request: its backend is taken off the ring.  That is  *)
(* a failure for other requests if the backend is online again by now.     *)
Drop(r) ==
  /\ pc[r] = "drop"
  /\ removeServer(backend[r])
  /\ NoteRing
  /\ IF online[backend[r]] /\ backend[r] \in OnRing
     THEN NoteFault ELSE UNCHANGED faults
  /\ pc' = [pc EXCEPT ![r] = "evacuate"]
  /\ retry' = [retry EXCEPT ![r] = TRUE]
  /\ UNCHANGED <<online, sessions, mutex, key, backend, target, status,
                 result, todo, left, stops, stopped>>

(* processRequest looks at the online flag itself, then works on its       *)
(* local data without a lock.                                              *)
Process(r) ==
  /\ pc[r] = "process"
  /\ IF online[backend[r]]
     THEN /\ pc' = [pc EXCEPT ![r] = "serving"]
          /\ UNCHANGED <<backend, result>>
     ELSE End(r, "offline")
  /\ UNCHANGED <<sessions, mutex, target, status>>
  /\ Unchanged_route

Respond(r) ==
  /\ pc[r] = "serving"
  /\ End(r, "served")
  /\ UNCHANGED <<sessions, mutex, target, status>>
  /\ Unchanged_route
-----------------------------------------------------------------------------
(* handleServerDown(backend[t]), for a request or an operation.  The loop  *)
(* holds the mutex throughout and asks the ring for each session in turn.  *)

Unchanged_evacuate ==
  UNCHANGED <<active_servers, online, key, target, status, retry,
              result, left, stops, stopped, ranDry, revived, faults>>

Evacuate(t) ==
  /\ pc[t] = "evacuate"
  /\ mutex = None
  /\ mutex' = t
  /\ todo' = [todo EXCEPT ![t] = Key]
  /\ pc' = [pc EXCEPT ![t] = "evacuating"]
  /\ UNCHANGED <<sessions, backend>>
  /\ Unchanged_evacuate

Moves(k, s) ==
  Live(k) /\ sessions[k].backend_id = s
    /\ getServer(k) >= 0 /\ getServer(k) # s

EvacuateOne(t, k) ==
  /\ pc[t] = "evacuating"
  /\ k \in todo[t]
  /\ todo' = [todo EXCEPT ![t] = @ \ {k}]
  /\ sessions' = IF Moves(k, backend[t])
                 THEN [sessions EXCEPT ![k].backend_id = getServer(k)]
                 ELSE sessions
  /\ UNCHANGED <<mutex, pc, backend>>
  /\ Unchanged_evacuate

(* A request routes again, keeping assigned_backend; an operation ends.    *)
AfterEvacuation(t) ==
  IF t \in Requester
  THEN /\ pc' = [pc EXCEPT ![t] = "route"]
       /\ UNCHANGED backend
  ELSE /\ pc' = [pc EXCEPT ![t] = "idle"]
       /\ backend' = [backend EXCEPT ![t] = NoServer]

(* Mutant: the mutex is never released.                                    *)
EvacuatedLocked(t) ==
  /\ pc[t] = "evacuating"
  /\ todo[t] = {}
  /\ AfterEvacuation(t)
  /\ UNCHANGED <<sessions, todo, mutex>>
  /\ Unchanged_evacuate

Evacuated(t) ==
  /\ pc[t] = "evacuating"
  /\ todo[t] = {}
  /\ mutex' = None
  /\ AfterEvacuation(t)
  /\ UNCHANGED <<sessions, todo>>
  /\ Unchanged_evacuate
-----------------------------------------------------------------------------
(* Operators, and what happens to the backends.                            *)

Unchanged_operate ==
  UNCHANGED <<sessions, mutex, key, target, status, retry, result, todo,
              stops>>

(* RequestHandler::start and RequestHandler::stop. *)
start(s) == online' = [online EXCEPT ![s] = TRUE]

stop(s) == online' = [online EXCEPT ![s] = FALSE]

(* takeBackendOffline: stop, removeServer, then handleServerDown.          *)
Offline(o, s) ==
  /\ pc[o] = "idle"
  /\ left[o] > 0
  /\ stop(s)
  /\ NoteFault
  /\ backend' = [backend EXCEPT ![o] = s]
  /\ left' = [left EXCEPT ![o] = @ - 1]
  /\ pc' = [pc EXCEPT ![o] = "remove"]
  /\ UNCHANGED <<active_servers, stopped, ranDry, revived>>
  /\ Unchanged_operate

(* Mutant: the server stays on the ring.                                   *)
RemoveSkipped(o) ==
  /\ pc[o] = "remove"
  /\ pc' = [pc EXCEPT ![o] = "evacuate"]
  /\ UNCHANGED <<active_servers, ranDry, revived, online, backend, left,
                 stopped, faults>>
  /\ Unchanged_operate

(* The server leaves the ring, whoever stopped it.                         *)
Remove(o) ==
  /\ pc[o] = "remove"
  /\ removeServer(backend[o])
  /\ NoteRing
  /\ pc' = [pc EXCEPT ![o] = "evacuate"]
  /\ UNCHANGED <<online, backend, left, stopped, faults>>
  /\ Unchanged_operate

(* bringBackendOnline: start, then addServer.                              *)
Online(o, s) ==
  /\ pc[o] = "idle"
  /\ left[o] > 0
  /\ start(s)
  /\ stopped' = stopped \ {s}
  /\ backend' = [backend EXCEPT ![o] = s]
  /\ left' = [left EXCEPT ![o] = @ - 1]
  /\ pc' = [pc EXCEPT ![o] = "add"]
  /\ UNCHANGED <<active_servers, ranDry, revived, faults>>
  /\ Unchanged_operate

Add(o) ==
  /\ pc[o] = "add"
  /\ \/ addServer(backend[o])
     \/ backend[o] \in OnRing /\ UNCHANGED active_servers
  /\ NoteRing
  /\ IF online[backend[o]] THEN UNCHANGED faults ELSE NoteFault
  /\ pc' = [pc EXCEPT ![o] = "idle"]
  /\ backend' = [backend EXCEPT ![o] = NoServer]
  /\ UNCHANGED <<online, left, stopped>>
  /\ Unchanged_operate

(* A backend stops by itself: RequestHandler::stop outside the balancer.   *)
Stop(s) ==
  /\ stops > 0
  /\ online[s]
  /\ stop(s)
  /\ stops' = stops - 1
  /\ stopped' = stopped \cup {s}
  /\ NoteFault
  /\ UNCHANGED <<active_servers, sessions, mutex, threadVars, ranDry, revived>>

-----------------------------------------------------------------------------
(* Administration of the session table. *)

Unchanged_force ==
  UNCHANGED <<active_servers, online, backend, status, retry, result, todo,
              stops, stopped, ranDry, revived, faults>>

(* The call of forceReassign, for a session that may have lapsed.          *)
forceReassign(a, k) ==
  /\ pc[a] = "idle"
  /\ left[a] > 0
  /\ pc' = [pc EXCEPT ![a] = "force"]
  /\ key' = [key EXCEPT ![a] = k]
  /\ left' = [left EXCEPT ![a] = @ - 1]
  /\ UNCHANGED <<sessions, mutex, target>>
  /\ Unchanged_force

(* No such session, or no server: it returns false. *)
ForceNowhere(a) ==
  /\ pc[a] = "force"
  /\ mutex = None
  /\ sessions[key[a]] = None \/ getServer(key[a]) < 0
  /\ pc' = [pc EXCEPT ![a] = "idle"]
  /\ UNCHANGED <<sessions, mutex, key, target, left>>
  /\ Unchanged_force

(* It takes the mutex and asks the ring. *)
ForceChoose(a) ==
  /\ pc[a] = "force"
  /\ mutex = None
  /\ sessions[key[a]] # None
  /\ getServer(key[a]) >= 0
  /\ mutex' = a
  /\ target' = [target EXCEPT ![a] = getServer(key[a])]
  /\ pc' = [pc EXCEPT ![a] =
       IF getServer(key[a]) = sessions[key[a]].backend_id
       THEN "other" ELSE "rebind"]
  /\ UNCHANGED <<sessions, key, left>>
  /\ Unchanged_force

(* The ring's choice is where the session is already.  By a second look at *)
(* the ring there is no more than one server, or it takes the first that   *)
(* differs.                                                                *)
ForceAlone(a) ==
  /\ pc[a] = "other"
  /\ Len(active_servers) <= 1
  /\ mutex' = None
  /\ target' = [target EXCEPT ![a] = NoServer]
  /\ pc' = [pc EXCEPT ![a] = "idle"]
  /\ UNCHANGED <<sessions, key, left>>
  /\ Unchanged_force

ForceOther(a) ==
  /\ pc[a] = "other"
  /\ Len(active_servers) > 1
  /\ target' = [target EXCEPT ![a] =
       FirstOther(sessions[key[a]].backend_id)]
  /\ pc' = [pc EXCEPT ![a] = "rebind"]
  /\ UNCHANGED <<sessions, mutex, key, left>>
  /\ Unchanged_force

(* It moves the session, which counts as an access, and releases the       *)
(* mutex.                                                                  *)
ForceBind(a) ==
  /\ pc[a] = "rebind"
  /\ sessions' = [sessions EXCEPT ![key[a]] =
       [backend_id |-> target[a], blocked |-> @.blocked, lapsed |-> FALSE]]
  /\ mutex' = None
  /\ target' = [target EXCEPT ![a] = NoServer]
  /\ pc' = [pc EXCEPT ![a] = "idle"]
  /\ UNCHANGED <<key, left>>
  /\ Unchanged_force

(* blockSession, under the mutex from its first line to its last.          *)
blockSession(k, block) ==
  /\ mutex = None
  /\ sessions[k] # None
  /\ sessions[k].blocked # block
  /\ sessions' = [sessions EXCEPT ![k].blocked = block]
  /\ UNCHANGED <<active_servers, online, mutex, threadVars, stops, stopped,
                 ranDry, revived, faults>>

(* setSessionExpiry, likewise.  The new timeout may have passed already,   *)
(* and it may not yet have, also where the old one had: then a session     *)
(* that had lapsed and was not erased is live again, on the backend it     *)
(* was on.                                                                 *)
setSessionExpiry(k, lapsed) ==
  /\ mutex = None
  /\ sessions[k] # None
  /\ sessions[k].lapsed # lapsed
  /\ sessions' = [sessions EXCEPT ![k].lapsed = lapsed]
  /\ revived' = IF lapsed \/ sessions[k].backend_id \in OnRing
                THEN revived
                ELSE revived \cup {<<k, sessions[k].backend_id>>}
  /\ UNCHANGED <<active_servers, online, mutex, threadVars, stops, stopped,
                 ranDry, faults>>

(* cleanupExpired erases every session that has lapsed. *)
cleanupExpired ==
  /\ mutex = None
  /\ \E k \in Key : sessions[k] # None /\ sessions[k].lapsed
  /\ sessions' = [k \in Key |-> IF Live(k) THEN sessions[k] ELSE None]
  /\ UNCHANGED <<active_servers, online, mutex, threadVars, stops, stopped,
                 ranDry, revived, faults>>

(* A session's timeout passes.  While routeRequest is between its look at  *)
(* an entry and its write of last_access this makes no difference.         *)
Lapse(k) ==
  /\ Live(k)
  /\ \A r \in Requester : pc[r] \in {"choose", "bind"} => key[r] # k
  /\ sessions' = [sessions EXCEPT ![k].lapsed = TRUE]
  /\ UNCHANGED <<active_servers, online, mutex, threadVars, stops, stopped,
                 ranDry, revived, faults>>
-----------------------------------------------------------------------------
(* Every backend is online and on the ring, in id order (main1.cpp 36-54). *)
Init ==
  /\ active_servers = [i \in 1..Cardinality(Server) |-> i - 1]
  /\ online = [s \in Server |-> TRUE]
  /\ sessions = [k \in Key |-> None]
  /\ mutex = None
  /\ pc = [t \in Thread |-> "idle"]
  /\ key = [r \in Router |-> CHOOSE k \in Key : TRUE]
  /\ backend = [t \in Thread |-> NoServer]
  /\ target = [r \in Router |-> NoServer]
  /\ status = [r \in Requester |-> "NONE"]
  /\ retry = [r \in Requester |-> FALSE]
  /\ result = [r \in Requester |-> "none"]
  /\ todo = [t \in Thread |-> {}]
  /\ left = [t \in Thread |-> CASE t \in Requester -> MaxCalls[t]
                              [] t \in Operator -> MaxOps
                              [] OTHER -> MaxForces]
  /\ stops = MaxStops
  /\ stopped = {}
  /\ ranDry = {}
  /\ revived = {}
  /\ faults = [r \in Requester |-> 0]

(* What a thread in the middle of a call does next. *)
Continue(t) ==
  \/ /\ t \in Requester
     /\ \/ RouteBlocked(t) \/ RouteSticky(t) \/ RouteOnward(t)
        \/ RouteNowhere(t) \/ RouteChoose(t) \/ RouteBind(t)
        \/ Forward(t) \/ Drop(t) \/ Recheck(t) \/ Process(t) \/ Respond(t)
  \/ t \in Operator /\ (Remove(t) \/ Add(t))
  \/ /\ t \in Administrator
     /\ \/ ForceNowhere(t) \/ ForceChoose(t) \/ ForceAlone(t)
        \/ ForceOther(t) \/ ForceBind(t)
  \/ Evacuate(t)
  \/ \E k \in Key : EvacuateOne(t, k)
  \/ Evacuated(t)

Next ==
  \/ \E t \in Thread : Continue(t)
  \/ \E r \in Requester, k \in Key : Begin(r, k)
  \/ \E o \in Operator, s \in Server : Offline(o, s) \/ Online(o, s)
  \/ \E s \in Server : Stop(s)
  \/ \E a \in Administrator, k \in Key : forceReassign(a, k)
  \/ \E k \in Key, flag \in BOOLEAN :
       blockSession(k, flag) \/ setSessionExpiry(k, flag)
  \/ cleanupExpired
  \/ \E k \in Key : Lapse(k)

(* The scheduler runs every thread that can go on, and a thread that finds *)
(* the mutex free again and again gets it at last.                         *)
Fairness == \A t \in Thread : SF_vars(Continue(t))

Spec == Init /\ [][Next]_vars /\ Fairness
-----------------------------------------------------------------------------
(* Every variable has its type. *)
TypeOK ==
  /\ RingTypeOK
  /\ online \in [Server -> BOOLEAN]
  /\ sessions \in [Key -> Entry \cup {None}]
  /\ mutex \in Thread \cup {None}
  /\ pc \in [Thread -> {"idle", "route", "choose", "bind", "forward", "drop",
                        "recheck", "process", "serving", "evacuate",
                        "evacuating", "remove", "add", "force", "other",
                        "rebind"}]
  /\ key \in [Router -> Key]
  /\ backend \in [Thread -> Server \cup {NoServer}]
  /\ target \in [Router -> Server \cup {NoServer}]
  /\ status \in [Requester -> {"NONE", "SUCCESS", "REASSIGNED", "SERVER_DOWN",
                               "SESSION_BLOCKED"}]
  /\ retry \in [Requester -> BOOLEAN]
  /\ result \in [Requester -> {"none", "served", "offline", "blocked",
                               "unavailable"}]
  /\ todo \in [Thread -> SUBSET Key]
  /\ left \in [Thread -> Nat]
  /\ stops \in 0..MaxStops
  /\ stopped \subseteq Server
  /\ ranDry \subseteq Server
  /\ revived \subseteq Key \X Server
  /\ faults \in [Requester -> 0..FaultCap]

(* Somebody is on the way to, or in, handleServerDown(s). *)
Evacuating(s) ==
  \E t \in Thread : pc[t] \in {"evacuate", "evacuating"} /\ backend[t] = s

(* No session is left behind: once a server is off the ring and every      *)
(* handleServerDown for it has finished, no live session is bound to it,   *)
(* unless the ring was empty at some moment since, or setSessionExpiry has *)
(* revived the session since: handleServerDown skips one that has lapsed.  *)
(* A session that was being bound or forced to the server while it was     *)
(* being removed is no exception: who binds it holds the table's mutex     *)
(* until the binding is written, so the evacuation that follows the        *)
(* removal sees it, however the calls interleave.                          *)
NoSessionLeftBehind ==
  \A s \in Server \ (OnRing \cup ranDry) :
    ~Evacuating(s) =>
      \A k \in Key :
        Live(k) /\ sessions[k].backend_id = s => <<k, s>> \in revived

(* The ring never offers a server that an operator has taken offline: one  *)
(* on the ring that is not online is about to be removed by the operator,  *)
(* or stopped by itself and no request has noticed yet.  This holds while  *)
(* operations do not overlap: nothing makes the two steps of one atomic,   *)
(* and bringBackendOnline can add a server that a second operator has      *)
(* taken offline and removed in between.                                   *)
RingServersUp ==
  \A s \in OnRing :
    \/ online[s]
    \/ s \in stopped
    \/ \E o \in Operator : pc[o] = "remove" /\ backend[o] = s

(* One failure is masked: where there are two servers or more, a request   *)
(* that gives up before it is forwarded ("No backend servers available",   *)
(* "Failover target also unavailable") met at least two failures, servers  *)
(* that were down when it began included; a session blocked between the    *)
(* two routings aside.  Operations that overlap are excepted here as well. *)
SingleFailureMasked ==
  \A r \in Requester :
    result[r] = "unavailable" /\ status[r] # "SESSION_BLOCKED"
      => faults[r] >= 2

(* Every call returns: no interleaving of requests, evacuations and        *)
(* administrators leaves a thread waiting for the mutex for ever.          *)
CallsReturn == \A t \in Thread : pc[t] # "idle" ~> pc[t] = "idle"
-----------------------------------------------------------------------------
(* What the comments and documents of the repository say of concurrent use.*)

Quiet == \A t \in Thread : pc[t] = "idle"

(* "Session Affinity Engine.md", line 210: "bringBackendOnline(id): starts *)
(* server -> adds to hash ring -> new requests may route to it".  A        *)
(* request that saw the server offline before removes it from the ring     *)
(* after it has been added, and nothing adds it again.                     *)
OnlineIsOnRing == Quiet => \A s \in Server : online[s] => s \in OnRing

(* load_balancer.cpp, line 118: "Note if the session was reassigned        *)
(* (failover happened)".  handleServerDown has moved the session already,  *)
(* so the second routing finds it sticky and answers SUCCESS.              *)
FailoverIsNoted ==
  \A r \in Requester :
    result[r] = "served" /\ retry[r] => status[r] = "REASSIGNED"
=============================================================================
