--------------------------- MODULE SessionManager ---------------------------
(***************************************************************************)
(* The session table (session_manager.cpp): sticky routing, failover,      *)
(* lazy expiry, blocking, custom timeouts, forced reassignment and the     *)
(* path history, over the ring of PreferenceRing.  Every public method     *)
(* holds the table's mutex from its first line to its last, so each is one *)
(* step here; what concurrent calls on the ring change is the subject of   *)
(* LoadBalancer.tla.                                                       *)
(*                                                                         *)
(* Time is what expiry sees of it: an entry has the number of ticks since  *)
(* its last_access in place of a time point, counted up to MaxIdle, which  *)
(* is past every timeout.                                                  *)
(***************************************************************************)
EXTENDS PreferenceRing

CONSTANTS
  DefaultTimeout,   \* default_timeout_sec_, in ticks
  CustomTimeout,    \* the values callers pass to setSessionExpiry
  MaxIdle,          \* where the idle count saturates
  MaxHistory,       \* bound: the longest path history explored
  None              \* no session for a key; no answer to a request

Timeout == CustomTimeout \cup {-1}

ASSUME TimeoutAssumption ==
  /\ DefaultTimeout \in Nat
  /\ CustomTimeout \subseteq Int
  /\ MaxIdle \in Nat
  /\ \A t \in Timeout \cup {DefaultTimeout} : t < MaxIdle
  /\ MaxHistory \in Nat \ {0}

Reason == {"initial", "failover", "forced", "redistributed"}

(* PathHistoryEntry *)
Hop == [backend_id : Server, reason : Reason]

SessionEntry ==
  [backend_id : Server, blocked : BOOLEAN, custom_timeout : Timeout,
   idle : 0..MaxIdle, path_history : Seq(Hop)]

(* What routeRequest returns: the status and the out-parameter             *)
(* assigned_backend, which the error paths leave at -1.                    *)
Answer ==
  [key : Key,
   status : {"SUCCESS", "REASSIGNED", "SESSION_BLOCKED", "SERVER_DOWN"},
   backend_id : Server \cup {NoServer}]

ASSUME NoneAssumption ==
  None \notin SessionEntry /\ None \notin Answer /\ None \notin Server

VARIABLES
  sessions,   \* sessions_: for each key, its entry or None
  answer      \* what the last call of routeRequest returned; None after
              \* any other step

vars == <<active_servers, sessions, answer>>

isExpired(e) ==
  e.idle > (IF e.custom_timeout >= 0 THEN e.custom_timeout
                                     ELSE DefaultTimeout)

Present(k) == sessions[k] # None

(* A session that a request would still find: present and not expired.     *)
Live(k) == Present(k) /\ ~isExpired(sessions[k])

(* "backend_alive": the session's backend is in the list of active servers *)
BackendAlive(k) == sessions[k].backend_id \in OnRing
-----------------------------------------------------------------------------
(* Mutant: the new hop is not recorded.                                    *)
MovedUnrecorded(e, s, why) == [e EXCEPT !.backend_id = s, !.idle = 0]

(* Mutant: the history is restarted instead of extended.                   *)
MovedAfresh(e, s, why) ==
  [e EXCEPT !.backend_id = s,
            !.idle = 0,
            !.path_history = <<[backend_id |-> s, reason |-> why]>>]

(* Assignment of a new backend to an existing entry: the session counts as *)
(* accessed now, and the path history gains a hop.                         *)
Moved(e, s, why) ==
  [e EXCEPT !.backend_id = s,
            !.idle = 0,
            !.path_history = Append(@, [backend_id |-> s, reason |-> why])]

NewEntry(s) ==
  [backend_id |-> s, blocked |-> FALSE, custom_timeout |-> -1, idle |-> 0,
   path_history |-> <<[backend_id |-> s, reason |-> "initial"]>>]

Answered(k, st, s) == [key |-> k, status |-> st, backend_id |-> s]

HasRoom(k) == Len(sessions[k].path_history) < MaxHistory
-----------------------------------------------------------------------------
(* routeRequest, one action per way through it.                            *)

(* The blocked flag is read first: it holds for an expired session too.    *)
RejectBlocked(k) ==
  /\ Present(k)
  /\ sessions[k].blocked
  /\ answer' = Answered(k, "SESSION_BLOCKED", NoServer)
  /\ UNCHANGED sessions

Stick(k) ==
  /\ Live(k)
  /\ ~sessions[k].blocked
  /\ BackendAlive(k)
  /\ sessions' = [sessions EXCEPT ![k].idle = 0]
  /\ answer' = Answered(k, "SUCCESS", sessions[k].backend_id)

(* Mutant: the list of active servers is not consulted: the session is     *)
(* sent to where the ring would put it today.                              *)
FailOverEagerly(k) ==
  /\ Live(k)
  /\ ~sessions[k].blocked
  /\ getServer(k) # sessions[k].backend_id
  /\ getServer(k) >= 0
  /\ HasRoom(k)
  /\ sessions' = [sessions EXCEPT ![k] = Moved(@, getServer(k), "failover")]
  /\ answer' = Answered(k, "REASSIGNED", getServer(k))

(* Mutant: the old backend is answered after the entry has been moved.     *)
FailOverOldBackend(k) ==
  /\ Live(k)
  /\ ~sessions[k].blocked
  /\ ~BackendAlive(k)
  /\ getServer(k) >= 0
  /\ HasRoom(k)
  /\ sessions' = [sessions EXCEPT ![k] = Moved(@, getServer(k), "failover")]
  /\ answer' = Answered(k, "REASSIGNED", sessions[k].backend_id)

FailOver(k) ==
  /\ Live(k)
  /\ ~sessions[k].blocked
  /\ ~BackendAlive(k)
  /\ getServer(k) >= 0
  /\ HasRoom(k)
  /\ sessions' = [sessions EXCEPT ![k] = Moved(@, getServer(k), "failover")]
  /\ answer' = Answered(k, "REASSIGNED", getServer(k))

FailOverNowhere(k) ==
  /\ Live(k)
  /\ ~sessions[k].blocked
  /\ ~BackendAlive(k)
  /\ getServer(k) < 0
  /\ answer' = Answered(k, "SERVER_DOWN", NoServer)
  /\ UNCHANGED sessions

(* No entry for the key, or one that routeRequest erases as expired.       *)
Vacant(k) == Present(k) => isExpired(sessions[k]) /\ ~sessions[k].blocked

(* Mutant: the -1 of an empty ring is not looked for.                      *)
AdmitAnyway(k) ==
  /\ Vacant(k)
  /\ sessions' = [sessions EXCEPT ![k] = NewEntry(getServer(k))]
  /\ answer' = Answered(k, "SUCCESS", getServer(k))

Admit(k) ==
  /\ Vacant(k)
  /\ getServer(k) >= 0
  /\ sessions' = [sessions EXCEPT ![k] = NewEntry(getServer(k))]
  /\ answer' = Answered(k, "SUCCESS", getServer(k))

AdmitNowhere(k) ==
  /\ Vacant(k)
  /\ getServer(k) < 0
  /\ sessions' = [sessions EXCEPT ![k] = None]
  /\ answer' = Answered(k, "SERVER_DOWN", NoServer)

routeRequest(k) ==
  /\ \/ RejectBlocked(k)
     \/ Stick(k)
     \/ FailOver(k)
     \/ FailOverNowhere(k)
     \/ Admit(k)
     \/ AdmitNowhere(k)
  /\ UNCHANGED active_servers
-----------------------------------------------------------------------------
(* The administrative operations.  Each returns false and changes nothing  *)
(* for a key without an entry, blocked and expired entries are served.     *)

(* Mutant: the search for a different server is left out.                  *)
ForcedTargetAnyway(k, old) == getServer(k)

(* Where forceReassign sends a session that is on server `old`; NoServer   *)
(* where it gives up.                                                      *)
ForcedTarget(k, old) ==
  IF getServer(k) = old
  THEN IF Len(active_servers) <= 1 THEN NoServer ELSE FirstOther(old)
  ELSE getServer(k)

forceReassign(k) ==
  /\ Present(k)
  /\ ForcedTarget(k, sessions[k].backend_id) >= 0
  /\ HasRoom(k)
  /\ sessions' =
       [sessions EXCEPT
          ![k] = Moved(@, ForcedTarget(k, @.backend_id), "forced")]
  /\ answer' = None
  /\ UNCHANGED active_servers

blockSession(k, block) ==
  /\ Present(k)
  /\ sessions' = [sessions EXCEPT ![k].blocked = block]
  /\ answer' = None
  /\ UNCHANGED active_servers

setSessionExpiry(k, timeout) ==
  /\ Present(k)
  /\ sessions' = [sessions EXCEPT ![k].custom_timeout = timeout]
  /\ answer' = None
  /\ UNCHANGED active_servers
-----------------------------------------------------------------------------
(* The sessions handleServerDown moves away from server s. *)
Stranded(s) ==
  {k \in Key : /\ Live(k)
               /\ sessions[k].backend_id = s
               /\ getServer(k) >= 0
               /\ getServer(k) # s}

(* Both callers take s off the ring just before (load_balancer.cpp 100-101 *)
(* and 177-178).                                                           *)
handleServerDown(s) ==
  /\ s \notin OnRing
  /\ \A k \in Stranded(s) : HasRoom(k)
  /\ sessions' =
       [k \in Key |->
          IF k \in Stranded(s)
          THEN Moved(sessions[k], getServer(k), "redistributed")
          ELSE sessions[k]]
  /\ answer' = None
  /\ UNCHANGED active_servers

(* Mutant: the test for expiry is off by one.                              *)
cleanupEarly ==
  /\ sessions' =
       [k \in Key |->
          IF Present(k) /\ sessions[k].idle + 1 > DefaultTimeout
          THEN None ELSE sessions[k]]
  /\ answer' = None
  /\ UNCHANGED active_servers

cleanupExpired ==
  /\ sessions' =
       [k \in Key |->
          IF Present(k) /\ isExpired(sessions[k]) THEN None ELSE sessions[k]]
  /\ answer' = None
  /\ UNCHANGED active_servers

(* The steady clock advances. *)
Tick ==
  /\ sessions' =
       [k \in Key |->
          IF Present(k) /\ sessions[k].idle < MaxIdle
          THEN [sessions[k] EXCEPT !.idle = @ + 1] ELSE sessions[k]]
  /\ answer' = None
  /\ UNCHANGED active_servers

(* The load balancer adds a backend to the ring, or removes one.           *)
RingChange ==
  /\ RingNext
  /\ answer' = None
  /\ UNCHANGED sessions
-----------------------------------------------------------------------------
Init ==
  /\ RingInit
  /\ sessions = [k \in Key |-> None]
  /\ answer = None

Next ==
  \/ \E k \in Key : routeRequest(k)
  \/ \E k \in Key : forceReassign(k)
  \/ \E k \in Key, block \in BOOLEAN : blockSession(k, block)
  \/ \E k \in Key, t \in CustomTimeout : setSessionExpiry(k, t)
  \/ \E s \in Server : handleServerDown(s)
  \/ cleanupExpired
  \/ Tick
  \/ RingChange

Spec == Init /\ [][Next]_vars
-----------------------------------------------------------------------------
(* Each key has an entry of the declared shape or none.                    *)
TypeOK ==
  /\ RingTypeOK
  /\ sessions \in [Key -> SessionEntry \cup {None}]
  /\ answer \in Answer \cup {None}

Trail(e) ==
  LET h == e.path_history
  IN  /\ Len(h) >= 1
      /\ h[Len(h)].backend_id = e.backend_id
      /\ \A i \in 1..Len(h) : (h[i].reason = "initial") <=> (i = 1)
      /\ \A i \in 1..(Len(h) - 1) : h[i].backend_id # h[i + 1].backend_id

(* The path history is "a full audit trail" (session_manager.h, line 37):  *)
(* its first hop, and no other, is the initial assignment, its last hop is *)
(* the backend the session is on, and every hop goes to another backend    *)
(* than the one before, whichever of routeRequest, forceReassign and       *)
(* handleServerDown made it.                                               *)
AuditTrail == \A k \in Key : Present(k) => Trail(sessions[k])

StickyStep(k) ==
  Live(k) /\ Present(k)' /\ sessions'[k].backend_id # sessions[k].backend_id
    => LET h == sessions'[k].path_history
       IN  /\ sessions'[k].backend_id \in OnRing'
           /\ \/ sessions[k].backend_id \notin OnRing
              \/ h[Len(h)].reason = "forced"

(* Affinity: a session that has not expired stays on its backend as long   *)
(* as that backend is on the ring, however the ring changes otherwise; it  *)
(* moves only when an administrator forces it, or off a backend that is    *)
(* not on the ring, and then to a server that is on the ring.              *)
StickyAffinity == [][\A k \in Key : StickyStep(k)]_vars

LifeStep(k) ==
  Present(k) =>
    \/ /\ Present(k)'
       /\ LET h == sessions[k].path_history
              g == sessions'[k].path_history
          IN  Len(h) <= Len(g) /\ \A i \in 1..Len(h) : g[i] = h[i]
    \/ isExpired(sessions[k])

(* The life of an entry: one that has not expired is never dropped, by any *)
(* operation, and never loses or changes a hop of its history; an entry is *)
(* replaced by a new one only after it expired.                            *)
EntryLife == [][\A k \in Key : LifeStep(k)]_vars

(* An answer is honest: a backend that is answered is the one the table    *)
(* now holds for the key and is on the ring, REASSIGNED means that the     *)
(* history records a failover, and SERVER_DOWN means there is no backend   *)
(* on the ring at all.                                                     *)
HonestAnswer ==
  answer # None =>
    LET k == answer.key
    IN  CASE answer.status = "SERVER_DOWN" -> OnRing = {}
          [] answer.status = "SESSION_BLOCKED" -> sessions[k].blocked
          [] OTHER ->
               /\ Present(k)
               /\ ~sessions[k].blocked
               /\ answer.backend_id = sessions[k].backend_id
               /\ answer.backend_id \in OnRing
               /\ answer.status = "REASSIGNED" =>
                    LET h == sessions[k].path_history
                    IN  h[Len(h)].reason = "failover"
-----------------------------------------------------------------------------
(* The table as the promise sees it: which server each key is bound to,    *)
(* whose binding has run out, and who is blocked.                          *)
Bind == [k \in Key |-> IF Present(k) THEN sessions[k].backend_id ELSE None]

Lapsed == {k \in Key : Present(k) /\ isExpired(sessions[k])}

Barred == {k \in Key : Present(k) /\ sessions[k].blocked}

Promise == INSTANCE StickyTable WITH
  up <- OnRing, bind <- Bind, lapsed <- Lapsed, barred <- Barred

(* The session table implements the promise of session affinity: every     *)
(* step of every operation, seen through the bindings, is one the promise  *)
(* allows.                                                                 *)
KeepsPromise == Promise!Spec
=============================================================================
