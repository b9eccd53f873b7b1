-------------------------------- MODULE Engine --------------------------------
(***************************************************************************)
(* The whole engine as the demo program drives it (main.cpp): one thread,  *)
(* which starts the logger, sends requests through handleRequest and calls *)
(* the administrative operations in any order, while sessions expire and   *)
(* backends fail, and which shuts the logger down at the end.              *)
(*                                                                         *)
(* The session table enters with the specification it was shown to         *)
(* implement (StickyTable), the logger as it is (Logger), the ring as the  *)
(* set of servers on it (up).  What validation and the rate limiter decide *)
(* is left open here: Security and RateLimiter say when they refuse, and   *)
(* nothing behind them changes when they do.                               *)
(***************************************************************************)
EXTENDS Integers, Sequences, FiniteSets

CONSTANTS
  Server,       \* the backends 0 .. NUM_BACKEND_SERVERS - 1
  Key,          \* session keys
  None,         \* no session, no reply
  MaxCount,     \* bound: larger request counts are not told apart
  MaxFailures   \* bound: how often a backend stops by itself

ASSUME EngineAssumption ==
  /\ Key # {} /\ IsFiniteSet(Server) /\ Server = 0..(Cardinality(Server) - 1)
  /\ MaxCount \in Nat \ {0} /\ MaxFailures \in Nat

NoServer == -1

(* What handleRequest returns: how the request ended, which backend        *)
(* answered, if one did, and "request #N for this session".                *)
Outcome ==
  {"passive", "invalid", "limited", "blocked", "unavailable", "served",
   "offline"}

Response ==
  [key : Key,
   how : Outcome,
   backend_id : Server \cup {NoServer},
   number : 0..MaxCount]

VARIABLES up, bind, lapsed, barred, answer     \* of StickyTable
VARIABLES enabled, request_file, system_file   \* of Logger

Table == INSTANCE StickyTable
Log == INSTANCE Logger

ASSUME NoneAssumption ==
  None \notin Server \cup Key \cup Response \cup Table!Answer

VARIABLES
  phase,        \* where main() is
  online,       \* RequestHandler::online_ of every backend
  local_data,   \* request_count per backend and key; 0 where there is none
  failures,     \* how many more backends may stop by themselves
  stage,        \* where handleRequest, or takeBackendOffline, is
  key,          \* the request's key; None in takeBackendOffline and outside
  backend,      \* assigned_backend of the request; the argument of the other
  retry,        \* whether the request is past its failover
  trail,        \* what this request has added to requests.log
  reply,        \* the reply to the last request, None after anything else
  home          \* history: per key, the backend of the last reply; None once
                \* the session may move: it expired or was forced to move, or
                \* the backend went offline or off the ring

tableVars == <<up, bind, lapsed, barred, answer>>
loggerVars == <<enabled, request_file, system_file>>
callVars == <<stage, key, backend, retry>>
vars == <<tableVars, loggerVars, phase, online, local_data, failures,
          callVars, trail, reply, home>>

(* A line of requests.log: what was done, and how it went.                 *)
Action ==
  {"LB_CHECK", "SECURITY_CHECK", "SECURITY", "RATE_LIMIT", "ROUTE",
   "NEW_SESSION", "FAILOVER", "PROCESS", "COMPLETE"}

Status ==
  {"SUCCESS", "REASSIGNED", "REJECTED", "BLOCKED", "FAILED",
   "SESSION_BLOCKED", "SERVER_DOWN"}

(* Lines go to requests.log, or to system.log.                             *)
LogRequest(lines) ==
  /\ Log!logRequest
  /\ trail' = IF Log!Records(request_file) THEN trail \o lines ELSE trail

LogSystem == Log!logSystem

SystemOnly == LogSystem /\ UNCHANGED <<enabled, request_file, trail>>

RequestOnly(lines) == LogRequest(lines) /\ UNCHANGED <<enabled, system_file>>

NoLog == UNCHANGED <<loggerVars, trail>>

(* The history after a step in which the keys of Forced were reassigned.   *)
Rehome(Forced) ==
  home' = [k \in Key |->
             IF /\ home[k] # None
                /\ k \notin Forced \cup lapsed'
                /\ home[k] \in up' /\ online'[home[k]]
             THEN home[k] ELSE None]

(* The call is over; its locals are gone.                                  *)
Return ==
  /\ stage' = "idle"
  /\ key' = None
  /\ backend' = NoServer
  /\ retry' = FALSE

Replied(k, how, s, n) ==
  [key |-> k, how |-> how, backend_id |-> s, number |-> n]

(* The request ends without having been processed.                         *)
End(how) ==
  /\ Return
  /\ reply' = Replied(key, how, NoServer, 0)

Idle == phase = "running" /\ stage = "idle"
-----------------------------------------------------------------------------
(* handleRequest. *)

(* The lines a request leaves when a gate turns it away: its load balancer *)
(* is passive, it is not valid, or it is over the rate limit.              *)
GateLines(gate) ==
  CASE gate = "passive" -> <<<<"LB_CHECK", "REJECTED">>>>
    [] gate = "invalid" -> <<<<"SECURITY_CHECK", "REJECTED">>,
                             <<"SECURITY", "REJECTED">>>>
    [] gate = "limited" -> <<<<"RATE_LIMIT", "REJECTED">>>>

Gate == {"passive", "invalid", "limited"}

TurnAway(k, gate) ==
  /\ Idle
  /\ reply' = Replied(k, gate, NoServer, 0)
  /\ Log!logRequest
  /\ trail' = IF Log!Records(request_file) THEN GateLines(gate) ELSE <<>>
  /\ IF gate = "invalid" THEN LogSystem \/ UNCHANGED system_file
                         ELSE UNCHANGED system_file
  /\ UNCHANGED <<enabled, phase, tableVars, online, local_data, failures,
                 callVars, home>>

(* It passes the gates; routing is next.                                   *)
Accept(k) ==
  /\ Idle
  /\ stage' = "route"
  /\ key' = k
  /\ reply' = None
  /\ trail' = <<>>
  /\ UNCHANGED <<tableVars, loggerVars, phase, online, local_data, failures,
                 backend, retry, home>>

Unchanged_call ==
  UNCHANGED <<phase, online, local_data, failures, key, retry>>

(* routeRequest has chosen server s; what is checked next.                 *)
Routed(s) ==
  /\ backend' = s
  /\ stage' = IF retry THEN "recheck" ELSE "forward"
  /\ UNCHANGED reply
  /\ Unchanged_call
  /\ Rehome({})

(* Mutant: the blocked flag is not looked at.                              *)
RouteKeepBlocked ==
  /\ stage = "route"
  /\ key \in Table!Bound \ lapsed
  /\ bind[key] \in up
  /\ Table!Reply(key, "SUCCESS", bind[key])
  /\ UNCHANGED <<up, bind, lapsed, barred>>
  /\ RequestOnly(<<<<"ROUTE", "SUCCESS">>>>)
  /\ Routed(bind'[key])

RouteKeep ==
  /\ stage = "route"
  /\ Table!Keep(key)
  /\ RequestOnly(<<<<"ROUTE", "SUCCESS">>>>)
  /\ Routed(bind'[key])

(* Mutant: the table is not consulted; every request is a new session.     *)
RouteNewAlways ==
  /\ stage = "route"
  /\ \E s \in up :
       /\ bind' = [bind EXCEPT ![key] = s]
       /\ Table!Reply(key, "SUCCESS", s)
  /\ UNCHANGED <<up, lapsed, barred>>
  /\ RequestOnly(<<<<"NEW_SESSION", "SUCCESS">>>>)
  /\ Routed(bind'[key])

(* A new session, after an expired one has been erased.                    *)
RouteNew ==
  /\ stage = "route"
  /\ \E s \in up : Table!Assign(key, s)
  /\ LogRequest(<<<<"NEW_SESSION", "SUCCESS">>>>)
  /\ IF key \in lapsed THEN LogSystem ELSE UNCHANGED system_file
  /\ UNCHANGED enabled
  /\ Routed(bind'[key])

RouteMoved ==
  /\ stage = "route"
  /\ \E s \in up : Table!Relocate(key, s)
  /\ RequestOnly(<<<<"FAILOVER", "REASSIGNED">>>>)
  /\ Routed(bind'[key])

RouteNowhere ==
  /\ stage = "route"
  /\ Table!Fail(key)
  /\ LogRequest(<<<<"ROUTE", "FAILED">>>>)
  /\ IF key \in lapsed THEN LogSystem ELSE UNCHANGED system_file
  /\ UNCHANGED enabled
  /\ End("unavailable")
  /\ UNCHANGED <<phase, online, local_data, failures>>
  /\ Rehome({})

(* The second routing's answer that the session is blocked is not looked   *)
(* at (load_balancer.cpp 104-107); assigned_backend stays what it was.     *)
RouteBlocked ==
  /\ stage = "route"
  /\ Table!Refuse(key)
  /\ RequestOnly(<<<<"ROUTE", "BLOCKED">>>>)
  /\ IF retry
     THEN Routed(backend)
     ELSE /\ End("blocked")
          /\ UNCHANGED <<phase, online, local_data, failures, home>>

(* Mutant: the online flag is not looked at before forwarding.             *)
ForwardBlindly ==
  /\ stage \in {"forward", "recheck"}
  /\ stage' = "process"
  /\ NoLog
  /\ UNCHANGED <<tableVars, backend, reply, home>>
  /\ Unchanged_call

(* The backend is online, at first sight or after the failover.            *)
Forward ==
  /\ stage \in {"forward", "recheck"}
  /\ online[backend]
  /\ stage' = "process"
  /\ NoLog
  /\ UNCHANGED <<tableVars, backend, reply, home>>
  /\ Unchanged_call

(* Mutant: no failover.                                                    *)
DropNothing ==
  /\ stage = "forward"
  /\ ~online[backend]
  /\ End("unavailable")
  /\ NoLog
  /\ UNCHANGED <<tableVars, phase, online, local_data, failures, home>>

(* Mutant: the server is not taken off the ring.                           *)
DropInVain ==
  /\ stage = "forward"
  /\ ~online[backend]
  /\ retry' = TRUE
  /\ stage' = "route"
  /\ SystemOnly
  /\ UNCHANGED <<tableVars, phase, online, local_data, failures, key, backend,
                 reply, home>>

(* It is offline: the failover takes it off the ring.                      *)
Drop ==
  /\ stage = "forward"
  /\ ~online[backend]
  /\ Table!Resize
  /\ up' = up \ {backend}
  /\ retry' = TRUE
  /\ stage' = "evacuate"
  /\ SystemOnly
  /\ UNCHANGED <<phase, online, local_data, failures, key, backend, reply>>
  /\ Rehome({})

(* The failover's target is offline as well; it stays on the ring.         *)
GiveUp ==
  /\ stage = "recheck"
  /\ ~online[backend]
  /\ End("unavailable")
  /\ NoLog
  /\ UNCHANGED <<tableVars, phase, online, local_data, failures, home>>

Counted(n) == IF n < MaxCount THEN n + 1 ELSE n

(* processRequest, which looks at the online flag itself, and the last     *)
(* line of handleRequest, which is written whatever the answer.            *)
processRequest ==
  /\ stage = "process"
  /\ IF online[backend]
     THEN /\ local_data' = [local_data EXCEPT ![backend][key] = Counted(@)]
          /\ reply' =
               Replied(key, "served", backend, local_data'[backend][key])
          /\ home' = [home EXCEPT ![key] = backend]
          /\ RequestOnly(<<<<"PROCESS", "SUCCESS">>,
                           <<"COMPLETE", answer.status>>>>)
     ELSE /\ reply' = Replied(key, "offline", backend, 0)
          /\ RequestOnly(<<<<"COMPLETE", answer.status>>>>)
          /\ UNCHANGED <<local_data, home>>
  /\ Return
  /\ UNCHANGED <<tableVars, phase, online, failures>>
-----------------------------------------------------------------------------
(* handleServerDown(backend): every session bound to the server that has   *)
(* not expired moves to a server on the ring, if there is one.             *)
Stranded == {k \in Key \ lapsed : up # {} /\ bind[k] = backend}

(* A request routes again; takeBackendOffline is over.                     *)
handleServerDown ==
  /\ stage = "evacuate"
  /\ \E dest \in [Stranded -> up] : Table!Evacuate(Stranded, dest)
  /\ SystemOnly
  /\ IF key = None THEN Return
     ELSE stage' = "route" /\ UNCHANGED <<key, backend, retry>>
  /\ UNCHANGED <<phase, online, local_data, failures, reply>>
  /\ Rehome({})

(* What a request's step does not touch and every other step forgets.      *)
Forget == reply' = None /\ trail' = <<>>

Unchanged_admin == UNCHANGED <<phase, local_data, callVars>>

InRange(id) == id \in 0..(Cardinality(Server) - 1)

(* stop and removeServer; handleServerDown follows.                        *)
takeBackendOffline(id) ==
  /\ Idle
  /\ InRange(id)
  /\ online' = [online EXCEPT ![id] = FALSE]
  /\ Table!Resize
  /\ up' = up \ {id}
  /\ stage' = "evacuate"
  /\ backend' = id
  /\ LogSystem
  /\ Forget
  /\ UNCHANGED <<phase, local_data, failures, key, retry, enabled,
                 request_file>>
  /\ Rehome({})

(* Mutant: the range check is off by one.                                  *)
bringBackendOnlineBeyond(id) ==
  /\ Idle
  /\ id \in 0..Cardinality(Server)
  /\ online' = [online EXCEPT ![id] = TRUE]
  /\ up' = up \cup {id}
  /\ answer' = None
  /\ LogSystem
  /\ Forget
  /\ UNCHANGED <<bind, lapsed, barred, failures, enabled, request_file>>
  /\ Unchanged_admin
  /\ Rehome({})

bringBackendOnline(id) ==
  /\ Idle
  /\ InRange(id)
  /\ online' = [online EXCEPT ![id] = TRUE]
  /\ Table!Resize
  /\ up' = up \cup {id}
  /\ LogSystem
  /\ Forget
  /\ UNCHANGED <<failures, enabled, request_file>>
  /\ Unchanged_admin
  /\ Rehome({})

(* A backend fails: RequestHandler::stop, outside the load balancer.       *)
stop(s) ==
  /\ Idle
  /\ online[s]
  /\ failures > 0
  /\ failures' = failures - 1
  /\ online' = [online EXCEPT ![s] = FALSE]
  /\ LogSystem
  /\ Forget
  /\ UNCHANGED tableVars
  /\ UNCHANGED <<enabled, request_file>>
  /\ Unchanged_admin
  /\ Rehome({})

(* The session table's administration, and the passing of time.            *)
Administer ==
  /\ Idle
  /\ UNCHANGED <<online, failures, enabled, request_file>>
  /\ \/ /\ \E k \in Key, s \in Server : Table!Override(k, s) /\ Rehome({k})
        /\ LogSystem
     \/ /\ \/ \E k \in Key, B \in BOOLEAN : Table!Bar(k, B)
           \/ \E k \in Key : Table!Retime(k)
           \/ Table!Purge
        /\ Rehome({})
        /\ LogSystem
     \/ /\ Table!Age
        /\ Rehome({})
        /\ UNCHANGED system_file
  /\ Forget
  /\ Unchanged_admin
-----------------------------------------------------------------------------
(* main(). *)

Unchanged_main ==
  UNCHANGED <<tableVars, online, local_data, failures, callVars, home>>

(* Mutant: the result of init is not looked at.                            *)
StartAnyway ==
  /\ phase = "start"
  /\ Log!InitOff \/ Log!InitOn \/ Log!InitFails
  /\ phase' = "running"
  /\ UNCHANGED <<reply, trail>>
  /\ Unchanged_main

(* main stops at once where the log files cannot be opened.                *)
Start ==
  /\ phase = "start"
  /\ \/ (Log!InitOff \/ Log!InitOn) /\ phase' = "running"
     \/ Log!InitFails /\ phase' = "returned"
  /\ UNCHANGED <<reply, trail>>
  /\ Unchanged_main

(* The script is over.                                                     *)
Finish ==
  /\ Idle
  /\ Log!shutdown
  /\ phase' = "returned"
  /\ Forget
  /\ Unchanged_main

(* The logger's destructor runs after main has returned.                   *)
Exit ==
  /\ phase = "returned"
  /\ Log!shutdown
  /\ phase' = "exited"
  /\ UNCHANGED <<reply, trail>>
  /\ Unchanged_main

(* Every backend is online and on the ring; no sessions.                   *)
Init ==
  /\ up = Server
  /\ bind = [k \in Key |-> None]
  /\ lapsed = {}
  /\ barred = {}
  /\ answer = None
  /\ Log!Init
  /\ phase = "start"
  /\ online = [s \in Server |-> TRUE]
  /\ local_data = [s \in Server |-> [k \in Key |-> 0]]
  /\ failures = MaxFailures
  /\ stage = "idle"
  /\ key = None
  /\ backend = NoServer
  /\ retry = FALSE
  /\ trail = <<>>
  /\ reply = None
  /\ home = [k \in Key |-> None]

(* The thread goes on with the call it is in.                              *)
Continue ==
  \/ RouteKeep \/ RouteNew \/ RouteMoved \/ RouteNowhere \/ RouteBlocked
  \/ Forward \/ Drop \/ GiveUp \/ processRequest
  \/ handleServerDown

Next ==
  \/ Continue
  \/ \E k \in Key : Accept(k)
  \/ \E k \in Key, gate \in Gate : TurnAway(k, gate)
  \/ \E id \in -1..Cardinality(Server) :
       takeBackendOffline(id) \/ bringBackendOnline(id)
  \/ \E s \in Server : stop(s)
  \/ Administer
  \/ Start
  \/ Finish
  \/ Exit

Safety == Init /\ [][Next]_vars

(* The thread runs, and every client whose requests are answered with an   *)
(* error asks again and is let through the gates in the end.               *)
Spec ==
  /\ Safety
  /\ WF_vars(Continue)
  /\ \A k \in Key : SF_vars(Accept(k))
-----------------------------------------------------------------------------
(* Every variable has its type. *)
TypeOK ==
  /\ Table!TypeOK
  /\ Log!TypeOK
  /\ phase \in {"start", "running", "returned", "exited"}
  /\ online \in [Server -> BOOLEAN]
  /\ local_data \in [Server -> [Key -> 0..MaxCount]]
  /\ failures \in 0..MaxFailures
  /\ stage \in {"idle", "route", "forward", "evacuate", "recheck", "process"}
  /\ key \in Key \cup {None}
  /\ backend \in Server \cup {NoServer}
  /\ retry \in BOOLEAN
  /\ trail \in Seq(Action \X Status)
  /\ reply \in Response \cup {None}
  /\ home \in [Key -> Server \cup {None}]

Got(how) == reply # None /\ reply.how = how

(* A request is served by the right backend: the one that served it is     *)
(* online and on the ring, the table binds the session to it, and the      *)
(* session is neither expired nor blocked, on every way through the        *)
(* failover, although the second routing's answer is hardly looked at.     *)
ServedJustified ==
  Got("served") =>
    /\ reply.backend_id \in up
    /\ online[reply.backend_id]
    /\ bind[reply.key] = reply.backend_id
    /\ reply.key \notin lapsed \cup barred

(* Affinity from end to end: a client that is served again, with whatever  *)
(* requests, failures and operations in between, is served by the same     *)
(* backend, which counts on from the number it told the client before,     *)
(* unless the session expired or was forced to move, or that backend went  *)
(* offline or off the ring.                                                *)
AnswersContinue ==
  [][stage = "process" /\ home[key] # None
       => /\ Got("served")'
          /\ reply'.backend_id = home[key]
          /\ reply'.number = Counted(local_data[home[key]][key])]_vars

(* No request is given up lightly: "No backend servers available" and      *)
(* "Failover target also unavailable" are said only if the ring is empty,  *)
(* or if the session has been moved to a second backend that is offline.   *)
UnavailableJustified ==
  Got("unavailable") =>
    \/ up = {}
    \/ /\ bind[reply.key] \in up
       /\ ~online[bind[reply.key]]
       /\ \E s \in Server \ up : ~online[s]

(* Retries converge: a client that is told its backends are unavailable    *)
(* and keeps asking is served in the end, or is told it is blocked, unless *)
(* nothing on the ring is online.  Each failed attempt takes one dead      *)
(* server off the ring.                                                    *)
RetriesConverge ==
  \A k \in Key :
    Got("unavailable") /\ reply.key = k
      ~> \/ /\ reply # None
            /\ reply.key = k
            /\ reply.how \in {"served", "blocked"}
         \/ \A s \in up : ~online[s]
         \/ phase # "running"

(* How a reader of requests.log would say the request ended: by its last   *)
(* line.  A request that routes and leaves nothing further has met an      *)
(* offline backend twice.                                                  *)
ReadOff(lines) ==
  LET last == lines[Len(lines)]
  IN  CASE last[1] = "COMPLETE" -> "served"
        [] last[1] = "LB_CHECK" -> "passive"
        [] last[1] = "SECURITY" -> "invalid"
        [] last[1] = "RATE_LIMIT" -> "limited"
        [] last = <<"ROUTE", "BLOCKED">> -> "blocked"
        [] OTHER -> "unavailable"

(* The audit trail ("requests.log: Every request with tuple, action,       *)
(* status, details", Session Affinity Engine.md, line 221): with logging   *)
(* on, every request leaves lines, written by four components, the last of *)
(* which tells how it was answered; with logging off it leaves none.       *)
LogTellsOutcome ==
  reply # None =>
    IF enabled THEN trail # <<>> /\ reply.how = ReadOff(trail)
               ELSE trail = <<>>

(* The logger's life: while the engine runs with logging on, no line is    *)
(* dropped; and whichever way the program ends, also when only one of the  *)
(* two files could be opened, both are closed.                             *)
FilesOpenThenClosed ==
  /\ phase = "running" /\ enabled =>
       Log!Records(request_file) /\ Log!Records(system_file)
  /\ phase = "exited" => ~request_file.is_open /\ ~system_file.is_open
=============================================================================
