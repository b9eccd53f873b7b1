----------------------------- MODULE EngineProofs -----------------------------
(***************************************************************************)
(* Proofs about the engine as a whole, for every number of backends, every *)
(* set of session keys and any number of failures.                         *)
(***************************************************************************)
EXTENDS Engine, TLAPS

(* The logger's part of the invariant: the state of the two files at each  *)
(* stage of main.                                                          *)
BothOpen ==
  /\ request_file = [is_open |-> TRUE, good |-> TRUE]
  /\ system_file = [is_open |-> TRUE, good |-> TRUE]

BothClosed == ~request_file.is_open /\ ~system_file.is_open

FilesInv ==
  /\ phase = "start" => ~enabled /\ BothClosed
  /\ phase = "running" => IF enabled THEN BothOpen ELSE BothClosed
  /\ phase = "returned" => enabled \/ BothClosed
  /\ phase = "exited" => BothClosed

(* A request is between its failover and its second routing. *)
Resuming == (stage = "evacuate" /\ key # None) \/ (stage = "route" /\ retry)

(* A request has been routed. *)
HasBackend == stage \in {"forward", "recheck", "process"}

(* The part of the invariant about the call under way: what is known of    *)
(* its backend at each stage.  No operation comes between the routing and  *)
(* the reply, so what the table and the online flags said still holds.     *)
CallInv ==
  /\ stage # "idle" => phase = "running" /\ reply = None
  /\ phase = "start" => reply = None
  /\ stage = "idle" => key = None /\ ~retry
  /\ stage \in {"route", "forward", "recheck", "process"} => key \in Key
  /\ stage = "evacuate" => backend \in Server \ up /\ ~online[backend]
  /\ Resuming =>
       key \in Key \ barred /\ backend \in Server \ up /\ ~online[backend]
  /\ HasBackend =>
       /\ backend \in up
       /\ bind[key] = backend
       /\ key \notin lapsed \cup barred
  /\ stage = "recheck" => \E s \in Server \ up : ~online[s]
  /\ stage = "process" => online[backend]

(* The part about the history: a client's backend is the one its session   *)
(* is bound to.                                                            *)
HomeInv ==
  \A k \in Key :
    home[k] # None =>
      home[k] \in up /\ online[home[k]] /\ bind[k] = home[k] /\ k \notin lapsed

Line == Action \X Status

(* Lines that have their type and are read off as the outcome how.         *)
Reads(lines, how) ==
  lines \in Seq(Line) /\ lines # <<>> /\ ReadOff(lines) = how

(* The part about the request log: a request that has been routed, and has *)
(* left no line since, would be read off as given up.                      *)
TrailInv ==
  /\ ~enabled => trail = <<>>
  /\ HasBackend => answer \in Table!Answer
  /\ (Resuming \/ HasBackend) /\ enabled =>
       Reads(trail, "unavailable")

Inv ==
  /\ TypeOK
  /\ FilesInv
  /\ CallInv
  /\ HomeInv
  /\ TrailInv
  /\ ServedJustified
  /\ UnavailableJustified
  /\ LogTellsOutcome
-----------------------------------------------------------------------------
(* The session table as the engine uses it. *)

(* The promise of the session table keeps its own type.                    *)
LEMMA TableTyped ==
  ASSUME Table!TypeOK, Table!Next
  PROVE  Table!TypeOK'
<1> USE NoneAssumption DEF Table!TypeOK, Table!Answer, Table!Bound
<1>1. ASSUME NEW k \in Key, Table!Refuse(k) PROVE Table!TypeOK'
  BY <1>1 DEF Table!Refuse, Table!Reply
<1>2. ASSUME NEW k \in Key, Table!Keep(k) PROVE Table!TypeOK'
  BY <1>2 DEF Table!Keep, Table!Reply
<1>3. ASSUME NEW k \in Key, Table!Fail(k) PROVE Table!TypeOK'
  BY <1>3 DEF Table!Fail, Table!Reply
<1>4. ASSUME NEW k \in Key, Table!Retime(k) PROVE Table!TypeOK'
  BY <1>4 DEF Table!Retime
<1>5. ASSUME NEW k \in Key, NEW s \in Server, Table!Relocate(k, s)
      PROVE  Table!TypeOK'
  BY <1>5 DEF Table!Relocate, Table!Reply
<1>6. ASSUME NEW k \in Key, NEW s \in Server, Table!Assign(k, s)
      PROVE  Table!TypeOK'
  BY <1>6 DEF Table!Assign, Table!Reply
<1>7. ASSUME NEW k \in Key, NEW s \in Server, Table!Override(k, s)
      PROVE  Table!TypeOK'
  BY <1>7 DEF Table!Override
<1>8. ASSUME NEW k \in Key, NEW B \in BOOLEAN, Table!Bar(k, B)
      PROVE  Table!TypeOK'
  BY <1>8 DEF Table!Bar
<1>9. ASSUME NEW K \in SUBSET Key, NEW dest \in [K -> up],
             Table!Evacuate(K, dest)
      PROVE  Table!TypeOK'
  BY <1>9 DEF Table!Evacuate
<1>10. CASE Table!Purge
  BY <1>10 DEF Table!Purge
<1>11. CASE Table!Age
  BY <1>11 DEF Table!Age
<1>12. CASE Table!Resize
  BY <1>12 DEF Table!Resize
<1> HIDE DEF Table!TypeOK
<1> QED BY <1>1, <1>2, <1>3, <1>4, <1>5, <1>6, <1>7, <1>8, <1>9, <1>10, <1>11,
           <1>12 DEF Table!Next

(* Every step of the engine is one that the table promises, or leaves the  *)
(* table alone.                                                            *)
LEMMA TableUsed ==
  ASSUME Table!TypeOK, CallInv, Next
  PROVE  Table!Next \/ UNCHANGED tableVars
<1> USE DEF Table!Next
<1>1. CASE RouteKeep
  BY <1>1 DEF RouteKeep, CallInv
<1>2. CASE RouteNew
  BY <1>2 DEF RouteNew, CallInv, Table!TypeOK
<1>3. CASE RouteMoved
  BY <1>3 DEF RouteMoved, CallInv, Table!TypeOK
<1>4. CASE RouteNowhere
  BY <1>4 DEF RouteNowhere, CallInv
<1>5. CASE RouteBlocked
  BY <1>5 DEF RouteBlocked, CallInv
<1>6. CASE Drop
  BY <1>6 DEF Drop
<1>7. CASE handleServerDown
  <2>1. Stranded \in SUBSET Key
    BY DEF Stranded
  <2> QED BY <1>7, <2>1 DEF handleServerDown
<1>8. ASSUME NEW id, takeBackendOffline(id) \/ bringBackendOnline(id)
      PROVE  Table!Next
  BY <1>8 DEF takeBackendOffline, bringBackendOnline
<1>9. CASE Administer
  BY <1>9 DEF Administer
<1>10. CASE \/ Forward \/ GiveUp \/ processRequest \/ Start \/ Finish \/ Exit
            \/ \E k \in Key : Accept(k)
            \/ \E k \in Key, gate \in Gate : TurnAway(k, gate)
            \/ \E s \in Server : stop(s)
  BY <1>10 DEF Forward, GiveUp, processRequest, Start, Finish, Exit, Accept,
     TurnAway, stop, Unchanged_main
<1> HIDE DEF Table!Next
<1> QED BY <1>1, <1>2, <1>3, <1>4, <1>5, <1>6, <1>7, <1>8, <1>9, <1>10
           DEF Next, Continue
-----------------------------------------------------------------------------
(* The logger as the engine uses it. *)

(* While the engine runs, logging changes neither file's state, and a line *)
(* is recorded if and only if logging is on.                               *)
LEMMA LoggerRuns ==
  ASSUME Log!TypeOK, FilesInv, phase = "running"
  PROVE  /\ Log!logRequest => request_file' = request_file
         /\ LogSystem => system_file' = system_file
         /\ Log!Records(request_file) <=> enabled
         /\ Log!Records(system_file) <=> enabled
BY DEF Log!TypeOK, Log!Stream, FilesInv, BothOpen, LogSystem, Log!logRequest,
   Log!logSystem, Log!Records, Log!written

(* Opening, closing and writing to a stream give streams.                  *)
LEMMA StreamsTyped ==
  ASSUME NEW f \in Log!Stream, NEW ok \in BOOLEAN
  PROVE  /\ Log!opened(f, ok) \in Log!Stream
         /\ Log!closed(f) \in Log!Stream
         /\ Log!written(f) \in Log!Stream
<1>1. Log!opened(f, ok) \in Log!Stream
  BY DEF Log!opened, Log!Stream
<1>2. Log!closed(f) \in Log!Stream
  BY DEF Log!closed, Log!Stream
<1>3. Log!written(f) \in Log!Stream
  BY DEF Log!written, Log!Stream
<1> QED BY <1>1, <1>2, <1>3

(* The last line is what a reader goes by. *)
LEMMA LastLine ==
  ASSUME NEW t \in Seq(Line), NEW lines \in Seq(Line), lines # <<>>
  PROVE  /\ t \o lines \in Seq(Line)
         /\ t \o lines # <<>>
         /\ ReadOff(t \o lines) = ReadOff(lines)
<1>1. /\ t \o lines \in Seq(Line)
      /\ Len(t \o lines) = Len(t) + Len(lines)
      /\ Len(lines) \in Nat \ {0} /\ Len(t) \in Nat
      /\ (t \o lines)[Len(t) + Len(lines)] = lines[Len(lines)]
  OBVIOUS
<1>2. t \o lines # <<>>
  OBVIOUS
<1>3. ReadOff(t \o lines) = ReadOff(lines)
  BY <1>1, Zenon DEF ReadOff
<1> QED BY <1>3

(* One line, or two. *)
LEMMA Singles ==
  ASSUME NEW S, NEW x \in S, NEW y \in S
  PROVE  /\ <<x>> \in Seq(S) /\ <<x>> # <<>>
         /\ <<x, y>> \in Seq(S) /\ <<x, y>> # <<>>
OBVIOUS

(* What a single line is read off as.                                      *)
LEMMA OneLine ==
  ASSUME NEW a \in Action, NEW st \in Status
  PROVE  Reads(<<<<a, st>>>>, ReadOff(<<<<a, st>>>>))
BY DEF Line, Reads

(* What the lines that the engine writes are read off as.                  *)
LEMMA Lines ==
  /\ Reads(<<<<"ROUTE", "SUCCESS">>>>, "unavailable")
  /\ Reads(<<<<"NEW_SESSION", "SUCCESS">>>>, "unavailable")
  /\ Reads(<<<<"FAILOVER", "REASSIGNED">>>>, "unavailable")
  /\ Reads(<<<<"ROUTE", "FAILED">>>>, "unavailable")
  /\ Reads(<<<<"ROUTE", "BLOCKED">>>>, "blocked")
  /\ \A st \in Status :
       Reads(<<<<"PROCESS", "SUCCESS">>, <<"COMPLETE", st>>>>, "served")
  /\ \A gate \in Gate : Reads(GateLines(gate), gate)
<1> USE OneLine DEF Action, Status
<1>1. Reads(<<<<"ROUTE", "SUCCESS">>>>, "unavailable")
  <2>1. ReadOff(<<<<"ROUTE", "SUCCESS">>>>) = "unavailable"
    BY DEF ReadOff
  <2> QED BY <2>1
<1>2. Reads(<<<<"NEW_SESSION", "SUCCESS">>>>, "unavailable")
  <2>1. ReadOff(<<<<"NEW_SESSION", "SUCCESS">>>>) = "unavailable"
    BY DEF ReadOff
  <2> QED BY <2>1
<1>3. Reads(<<<<"FAILOVER", "REASSIGNED">>>>, "unavailable")
  <2>1. ReadOff(<<<<"FAILOVER", "REASSIGNED">>>>) = "unavailable"
    BY DEF ReadOff
  <2> QED BY <2>1
<1>4. Reads(<<<<"ROUTE", "FAILED">>>>, "unavailable")
  <2>1. ReadOff(<<<<"ROUTE", "FAILED">>>>) = "unavailable"
    BY DEF ReadOff
  <2> QED BY <2>1
<1>5. Reads(<<<<"ROUTE", "BLOCKED">>>>, "blocked")
  <2>1. ReadOff(<<<<"ROUTE", "BLOCKED">>>>) = "blocked"
    BY DEF ReadOff
  <2> QED BY <2>1
<1>6. ASSUME NEW st \in Status
      PROVE  Reads(<<<<"PROCESS", "SUCCESS">>, <<"COMPLETE", st>>>>, "served")
  <2>1. <<"PROCESS", "SUCCESS">> \in Line /\ <<"COMPLETE", st>> \in Line
    BY DEF Line
  <2>2. ReadOff(<<<<"PROCESS", "SUCCESS">>, <<"COMPLETE", st>>>>) = "served"
    BY DEF ReadOff
  <2> QED BY <2>1, <2>2 DEF Reads
<1>7. ASSUME NEW gate \in Gate
      PROVE  Reads(GateLines(gate), gate)
  <2>1. CASE gate = "passive"
    <3>1. GateLines(gate) = <<<<"LB_CHECK", "REJECTED">>>>
      BY <2>1 DEF GateLines
    <3>2. ReadOff(<<<<"LB_CHECK", "REJECTED">>>>) = gate
      BY <2>1 DEF ReadOff
    <3> QED BY <3>1, <3>2
  <2>2. CASE gate = "invalid"
    <3>1. GateLines(gate) = <<<<"SECURITY_CHECK", "REJECTED">>,
                             <<"SECURITY", "REJECTED">>>>
      BY <2>2 DEF GateLines
    <3>2. /\ <<"SECURITY_CHECK", "REJECTED">> \in Line
          /\ <<"SECURITY", "REJECTED">> \in Line
      BY DEF Line
    <3>3. ReadOff(<<<<"SECURITY_CHECK", "REJECTED">>,
                    <<"SECURITY", "REJECTED">>>>) = "invalid"
      BY DEF ReadOff
    <3> QED BY <2>2, <3>1, <3>2, <3>3, Singles DEF Reads
  <2>3. CASE gate = "limited"
    <3>1. GateLines(gate) = <<<<"RATE_LIMIT", "REJECTED">>>>
      BY <2>3 DEF GateLines
    <3>2. ReadOff(<<<<"RATE_LIMIT", "REJECTED">>>>) = gate
      BY <2>3 DEF ReadOff
    <3> QED BY <3>1, <3>2
  <2> QED BY <2>1, <2>2, <2>3 DEF Gate
<1> QED BY <1>1, <1>2, <1>3, <1>4, <1>5, <1>6, <1>7

(* The last line is what a reader goes by: after a step that adds lines,   *)
(* the trail is read off as they are.                                      *)
LEMMA Logged ==
  ASSUME trail \in Seq(Line), NEW lines, NEW how, Reads(lines, how),
         UNCHANGED enabled, trail' = IF enabled THEN trail \o lines ELSE trail
  PROVE  /\ trail' \in Seq(Line)
         /\ enabled' => Reads(trail', how)
         /\ ~enabled' => trail' = trail
<1>1. CASE enabled
  BY LastLine DEF Reads
<1>2. CASE ~enabled
  BY <1>2
<1> QED BY <1>1
-----------------------------------------------------------------------------
(* The steps of a request. *)

(* A reply has its type. *)
LEMMA ReplyTyped ==
  ASSUME NEW k \in Key, NEW how \in Outcome, NEW s \in Server \cup {NoServer},
         NEW n \in 0..MaxCount
  PROVE  Replied(k, how, s, n) \in Response /\ Replied(k, how, s, n) # None
<1>1. Replied(k, how, s, n) \in Response
  BY DEF Replied, Response
<1> QED BY <1>1, NoneAssumption

(* The session is alive: its backend is the one the table holds.           *)
LEMMA RouteKeepStep ==
  ASSUME Inv, Table!TypeOK', RouteKeep
  PROVE  Inv'
<1> USE DEF Inv
<1>1. /\ phase = "running" /\ UNCHANGED loggerVars
      /\ trail' = IF enabled THEN trail \o <<<<"ROUTE", "SUCCESS">>>>
                             ELSE trail
  BY LoggerRuns DEF RouteKeep, TypeOK, CallInv, loggerVars, RequestOnly,
     LogRequest
<1>2. /\ trail' \in Seq(Line)
      /\ enabled' => Reads(trail', "unavailable")
      /\ ~enabled' => trail' = trail
  BY <1>1, Logged, Lines DEF TypeOK, Line, loggerVars
<1>3. TypeOK'
  BY <1>1, <1>2 DEF RouteKeep, Table!Keep, Routed, Unchanged_call, Rehome,
     TypeOK, Line, loggerVars, Log!TypeOK, Table!TypeOK
<1>4. FilesInv'
  BY <1>1 DEF FilesInv, BothOpen, BothClosed, loggerVars, RouteKeep, Routed,
     Unchanged_call
<1>5. CallInv'
  BY DEF RouteKeep, Table!Keep, Routed, Unchanged_call, CallInv, Resuming
<1>6. HomeInv'
  BY DEF RouteKeep, Table!Keep, Routed, Rehome, HomeInv
<1>7. TrailInv' /\ LogTellsOutcome'
  BY <1>1, <1>2 DEF RouteKeep, Table!Keep, Table!Reply, Routed, CallInv,
     TrailInv, LogTellsOutcome, Table!TypeOK, Table!Answer
<1>8. ServedJustified' /\ UnavailableJustified'
  BY DEF RouteKeep, Routed, CallInv, Got, ServedJustified, UnavailableJustified
<1> QED BY <1>3, <1>4, <1>5, <1>6, <1>7, <1>8

(* The session is new or has expired: the ring chose its backend.          *)
LEMMA RouteNewStep ==
  ASSUME Inv, Table!TypeOK', RouteNew
  PROVE  Inv'
<1> USE DEF Inv
<1>1. /\ phase = "running" /\ UNCHANGED loggerVars
      /\ trail' = IF enabled THEN trail \o <<<<"NEW_SESSION", "SUCCESS">>>>
                             ELSE trail
  BY LoggerRuns DEF RouteNew, TypeOK, CallInv, loggerVars, LogRequest
<1>2. /\ trail' \in Seq(Line)
      /\ enabled' => Reads(trail', "unavailable")
      /\ ~enabled' => trail' = trail
  BY <1>1, Logged, Lines DEF TypeOK, Line, loggerVars
<1>3. TypeOK'
  BY <1>1, <1>2 DEF RouteNew, Table!Assign, Routed, Unchanged_call, Rehome,
     TypeOK, Line, loggerVars, Log!TypeOK, Table!TypeOK
<1>4. FilesInv'
  BY <1>1 DEF FilesInv, BothOpen, BothClosed, loggerVars, RouteNew, Routed,
     Unchanged_call
<1>5. CallInv'
  BY DEF RouteNew, Table!Assign, Routed, Unchanged_call, CallInv, Resuming,
     Table!TypeOK
<1>6. HomeInv'
  BY DEF RouteNew, Table!Assign, Table!Bound, Routed, Rehome, HomeInv
<1>7. TrailInv' /\ LogTellsOutcome'
  BY <1>2 DEF RouteNew, Table!Assign, Table!Reply, Routed, CallInv, TrailInv,
     LogTellsOutcome, Table!TypeOK, Table!Answer
<1>8. ServedJustified' /\ UnavailableJustified'
  BY DEF RouteNew, Routed, CallInv, Got, ServedJustified, UnavailableJustified
<1> QED BY <1>3, <1>4, <1>5, <1>6, <1>7, <1>8

(* The session's backend has left the ring: the routing moved it.          *)
LEMMA RouteMovedStep ==
  ASSUME Inv, Table!TypeOK', RouteMoved
  PROVE  Inv'
<1> USE DEF Inv
<1>1. /\ phase = "running" /\ UNCHANGED loggerVars
      /\ trail' = IF enabled THEN trail \o <<<<"FAILOVER", "REASSIGNED">>>>
                             ELSE trail
  BY LoggerRuns DEF RouteMoved, TypeOK, CallInv, loggerVars, RequestOnly,
     LogRequest
<1>2. /\ trail' \in Seq(Line)
      /\ enabled' => Reads(trail', "unavailable")
      /\ ~enabled' => trail' = trail
  BY <1>1, Logged, Lines DEF TypeOK, Line, loggerVars
<1>3. TypeOK'
  BY <1>1, <1>2 DEF RouteMoved, Table!Relocate, Routed, Unchanged_call, Rehome,
     TypeOK, Line, loggerVars, Log!TypeOK, Table!TypeOK
<1>4. FilesInv'
  BY <1>1 DEF FilesInv, BothOpen, BothClosed, loggerVars, RouteMoved, Routed,
     Unchanged_call
<1>5. CallInv'
  BY DEF RouteMoved, Table!Relocate, Routed, Unchanged_call, CallInv, Resuming,
     Table!TypeOK
<1>6. HomeInv'
  BY DEF RouteMoved, Table!Relocate, Routed, Rehome, HomeInv
<1>7. TrailInv' /\ LogTellsOutcome'
  BY <1>1, <1>2 DEF RouteMoved, Table!Relocate, Table!Reply, Routed, CallInv,
     TrailInv, LogTellsOutcome, Table!TypeOK, Table!Answer
<1>8. ServedJustified' /\ UnavailableJustified'
  BY DEF RouteMoved, Routed, CallInv, Got, ServedJustified,
     UnavailableJustified
<1> QED BY <1>3, <1>4, <1>5, <1>6, <1>7, <1>8

(* The ring is empty: the call ends with nothing available.                *)
LEMMA RouteNowhereStep ==
  ASSUME Inv, Table!TypeOK', RouteNowhere
  PROVE  Inv'
<1> USE DEF Inv
<1>1. /\ phase = "running" /\ UNCHANGED loggerVars
      /\ trail' = IF enabled THEN trail \o <<<<"ROUTE", "FAILED">>>> ELSE trail
  BY LoggerRuns DEF RouteNowhere, TypeOK, CallInv, loggerVars, LogRequest
<1>2. /\ trail' \in Seq(Line)
      /\ enabled' => Reads(trail', "unavailable")
      /\ ~enabled' => trail' = trail
  BY <1>1, Logged, Lines DEF TypeOK, Line, loggerVars
<1>3. reply' \in Response
  BY EngineAssumption, ReplyTyped DEF RouteNowhere, CallInv, End, Outcome
<1>4. TypeOK'
  BY <1>1, <1>2, <1>3 DEF RouteNowhere, End, Return, Rehome, TypeOK, Line,
     loggerVars, Log!TypeOK
<1>5. FilesInv'
  BY <1>1 DEF FilesInv, BothOpen, BothClosed, loggerVars, RouteNowhere
<1>6. CallInv'
  BY DEF RouteNowhere, End, Return, CallInv, HasBackend, Resuming
<1>7. HomeInv'
  BY DEF RouteNowhere, Table!Fail, Rehome, HomeInv
<1>8. TrailInv' /\ LogTellsOutcome'
  BY <1>2 DEF RouteNowhere, End, Return, Replied, HasBackend, TrailInv,
     LogTellsOutcome, Reads
<1>9. ServedJustified' /\ UnavailableJustified'
  BY DEF RouteNowhere, Table!Fail, End, Replied, Got, ServedJustified,
     UnavailableJustified
<1> QED BY <1>4, <1>5, <1>6, <1>7, <1>8, <1>9

(* The session is blocked: the call ends.  Never after a failover, whose   *)
(* session was not blocked when it was first routed.                       *)
LEMMA RouteBlockedStep ==
  ASSUME Inv, Table!TypeOK', RouteBlocked
  PROVE  Inv'
<1> USE DEF Inv
<1>1. ~retry
  BY DEF RouteBlocked, Table!Refuse, CallInv, Resuming
<1>2. /\ phase = "running" /\ UNCHANGED loggerVars
      /\ trail' = IF enabled THEN trail \o <<<<"ROUTE", "BLOCKED">>>>
                             ELSE trail
  BY LoggerRuns DEF RouteBlocked, TypeOK, CallInv, loggerVars, RequestOnly,
     LogRequest
<1>3. /\ trail' \in Seq(Line)
      /\ enabled' => Reads(trail', "blocked")
      /\ ~enabled' => trail' = trail
  BY <1>2, Logged, Lines DEF TypeOK, Line, loggerVars
<1>4. reply' \in Response
  BY <1>1, EngineAssumption, ReplyTyped DEF RouteBlocked, CallInv, End, Outcome
<1>5. TypeOK'
  BY <1>2, <1>3, <1>1, <1>4 DEF RouteBlocked, End, Return, TypeOK, Line,
     loggerVars, Log!TypeOK
<1>6. FilesInv'
  BY <1>2 DEF FilesInv, BothOpen, BothClosed, loggerVars, RouteBlocked, Routed,
     Unchanged_call
<1>7. CallInv'
  BY DEF RouteBlocked, Table!Refuse, End, Return, CallInv, HasBackend, Resuming
<1>8. HomeInv'
  BY DEF RouteBlocked, Table!Refuse, HomeInv, CallInv, Resuming
<1>9. TrailInv' /\ LogTellsOutcome'
  BY <1>2, <1>3 DEF RouteBlocked, Table!Refuse, End, Return, Replied, CallInv,
     HasBackend, Resuming, TrailInv, LogTellsOutcome, Reads
<1>10. ServedJustified' /\ UnavailableJustified'
  BY DEF RouteBlocked, End, Replied, Routed, CallInv, Got, ServedJustified,
     UnavailableJustified
<1> QED BY <1>5, <1>6, <1>7, <1>8, <1>9, <1>10

(* The backend is found online, or the failover begins.                    *)
LEMMA ForwardStep ==
  ASSUME Inv, Table!TypeOK', Forward
  PROVE  Inv'
<1> USE DEF Inv
<1>1. /\ phase = "running" /\ UNCHANGED loggerVars
      /\ trail' = trail
  BY DEF Forward, CallInv, NoLog
<1>2. TypeOK'
  BY <1>1 DEF Forward, loggerVars, Unchanged_call, TypeOK, Log!TypeOK
<1>3. FilesInv'
  BY <1>1 DEF FilesInv, BothOpen, BothClosed, loggerVars, Forward,
     Unchanged_call
<1>4. CallInv'
  BY DEF Forward, tableVars, Unchanged_call, CallInv, HasBackend, Resuming
<1>5. HomeInv'
  BY DEF Forward, tableVars, Unchanged_call, HomeInv
<1>6. TrailInv' /\ LogTellsOutcome'
  BY <1>1 DEF Forward, loggerVars, tableVars, HasBackend, TrailInv,
     LogTellsOutcome
<1>7. ServedJustified' /\ UnavailableJustified'
  BY DEF Forward, CallInv, Got, ServedJustified, UnavailableJustified
<1> QED BY <1>2, <1>3, <1>4, <1>5, <1>6, <1>7

(* The dead backend leaves the ring; the session may have to move.         *)
LEMMA DropStep ==
  ASSUME Inv, Table!TypeOK', Drop
  PROVE  Inv'
<1> USE DEF Inv
<1>1. /\ phase = "running" /\ UNCHANGED loggerVars
      /\ trail' = trail
  BY LoggerRuns DEF Drop, TypeOK, CallInv, loggerVars, SystemOnly
<1>2. TypeOK'
  BY <1>1 DEF Drop, Rehome, TypeOK, loggerVars, Log!TypeOK
<1>3. FilesInv'
  BY <1>1 DEF FilesInv, BothOpen, BothClosed, loggerVars, Drop
<1>4. CallInv'
  BY DEF Drop, Table!Resize, TypeOK, CallInv, HasBackend, Table!TypeOK
<1>5. HomeInv'
  BY DEF Drop, Table!Resize, Rehome, HomeInv
<1>6. TrailInv' /\ LogTellsOutcome'
  BY <1>1 DEF Drop, HasBackend, TrailInv, LogTellsOutcome, loggerVars
<1>7. ServedJustified' /\ UnavailableJustified'
  BY DEF Drop, CallInv, Got, ServedJustified, UnavailableJustified
<1> QED BY <1>2, <1>3, <1>4, <1>5, <1>6, <1>7

(* The second backend is dead as well: nothing available.                  *)
LEMMA GiveUpStep ==
  ASSUME Inv, Table!TypeOK', GiveUp
  PROVE  Inv'
<1> USE DEF Inv
<1>1. /\ phase = "running" /\ UNCHANGED loggerVars
      /\ trail' = trail
  BY DEF GiveUp, CallInv, NoLog
<1>2. reply' \in Response
  <2>1. key \in Key /\ reply' = Replied(key, "unavailable", NoServer, 0)
    BY DEF GiveUp, CallInv, End
  <2> QED BY <2>1, EngineAssumption, ReplyTyped DEF Outcome
<1>3. TypeOK'
  BY <1>1, <1>2 DEF GiveUp, End, Return, loggerVars, TypeOK, Log!TypeOK
<1>4. FilesInv'
  BY <1>1 DEF FilesInv, BothOpen, BothClosed, loggerVars, GiveUp
<1>5. CallInv'
  BY DEF GiveUp, End, Return, CallInv, HasBackend, Resuming
<1>6. HomeInv'
  BY DEF GiveUp, tableVars, HomeInv
<1>7. TrailInv' /\ LogTellsOutcome'
  BY <1>1 DEF GiveUp, End, Replied, loggerVars, tableVars, HasBackend,
     TrailInv, LogTellsOutcome, Reads
<1>8. ServedJustified' /\ UnavailableJustified'
  BY DEF GiveUp, End, Replied, tableVars, CallInv, HasBackend, Got,
     ServedJustified, UnavailableJustified
<1> QED BY <1>3, <1>4, <1>5, <1>6, <1>7, <1>8

(* The backend counts the request and answers; it is the one that has      *)
(* served the client since the last disturbance.                           *)
LEMMA processRequestStep ==
  ASSUME Inv, Table!TypeOK', processRequest
  PROVE  Inv'
<1> USE DEF Inv
<1>1. /\ online[backend] /\ backend \in Server /\ key \in Key
      /\ answer.status \in Status
  BY DEF processRequest, CallInv, HasBackend, TrailInv, TypeOK, Table!TypeOK,
     Table!Answer, Status
<1>2. /\ phase = "running" /\ UNCHANGED loggerVars
      /\ trail' = IF enabled THEN trail \o <<<<"PROCESS", "SUCCESS">>,
                                             <<"COMPLETE", answer.status>>>>
                             ELSE trail
  BY LoggerRuns DEF processRequest, TypeOK, CallInv, loggerVars, RequestOnly,
     LogRequest
<1>3. /\ trail' \in Seq(Line)
      /\ enabled' => Reads(trail', "served")
      /\ ~enabled' => trail' = trail
  BY <1>1, <1>2, Logged, Lines DEF TypeOK, Line, loggerVars
<1>4. /\ local_data' \in [Server -> [Key -> 0..MaxCount]]
      /\ home' \in [Key -> Server \cup {None}]
  <2>1. Counted(local_data[backend][key]) \in 0..MaxCount
    BY <1>1, EngineAssumption DEF Counted, TypeOK
  <2>2. /\ local_data' = [local_data EXCEPT ![backend][key] =
                            Counted(local_data[backend][key])]
        /\ home' = [home EXCEPT ![key] = backend]
    BY <1>1 DEF processRequest
  <2>3. local_data' \in [Server -> [Key -> 0..MaxCount]]
    BY <2>1, <2>2 DEF TypeOK
  <2> QED BY <2>2, <2>3 DEF TypeOK
<1>5. reply' \in Response
  BY <1>1, <1>4, ReplyTyped DEF processRequest, Outcome
<1>6. TypeOK'
  BY <1>2, <1>3, <1>4, <1>5 DEF processRequest, Return, TypeOK, Line,
     loggerVars, Log!TypeOK
<1>7. FilesInv'
  BY <1>2 DEF FilesInv, BothOpen, BothClosed, loggerVars, processRequest
<1>8. CallInv'
  BY DEF processRequest, Return, CallInv, HasBackend, Resuming
<1>9. HomeInv'
  <2>1. /\ home' = [home EXCEPT ![key] = backend]
        /\ UNCHANGED <<tableVars, online>>
    BY <1>1 DEF processRequest
  <2>2. backend \in up /\ bind[key] = backend /\ key \notin lapsed
    BY DEF processRequest, CallInv, HasBackend
  <2> QED BY <1>1, <2>1, <2>2 DEF HomeInv, tableVars
<1>10. TrailInv' /\ LogTellsOutcome'
  BY <1>2, <1>3 DEF processRequest, Return, Replied, CallInv, HasBackend,
     Resuming, TrailInv, LogTellsOutcome, Reads
<1>11. ServedJustified' /\ UnavailableJustified'
  BY DEF processRequest, Replied, tableVars, CallInv, HasBackend, Got,
     ServedJustified, UnavailableJustified
<1> QED BY <1>6, <1>7, <1>8, <1>9, <1>10, <1>11

(* The dead backend's live sessions are moved, if the ring has a server.   *)
LEMMA handleServerDownStep ==
  ASSUME Inv, Table!TypeOK', handleServerDown
  PROVE  Inv'
<1> USE DEF Inv
<1>1. /\ phase = "running" /\ UNCHANGED loggerVars
      /\ trail' = trail
  BY LoggerRuns DEF handleServerDown, TypeOK, CallInv, loggerVars, SystemOnly
<1>2. TypeOK'
  BY <1>1 DEF handleServerDown, Return, Rehome, TypeOK, loggerVars, Log!TypeOK
<1>3. FilesInv'
  BY <1>1 DEF FilesInv, BothOpen, BothClosed, loggerVars, handleServerDown
<1>4. CallInv'
  BY DEF handleServerDown, Table!Evacuate, Return, CallInv, HasBackend,
     Resuming
<1>5. HomeInv'
  BY DEF handleServerDown, Table!Evacuate, Rehome, HomeInv
<1>6. TrailInv' /\ LogTellsOutcome'
  BY <1>1 DEF handleServerDown, Return, HasBackend, Resuming, TrailInv,
     LogTellsOutcome, loggerVars
<1>7. ServedJustified' /\ UnavailableJustified'
  BY DEF handleServerDown, CallInv, Got, ServedJustified, UnavailableJustified
<1> QED BY <1>2, <1>3, <1>4, <1>5, <1>6, <1>7

(* A request passes the gates and its call begins.                         *)
LEMMA AcceptStep ==
  ASSUME Inv, Table!TypeOK', NEW k \in Key, Accept(k)
  PROVE  Inv'
<1> USE DEF Inv
<1>1. /\ phase = "running" /\ UNCHANGED loggerVars
      /\ trail' = <<>>
  BY DEF Accept, Idle
<1>2. TypeOK'
  BY DEF Accept, loggerVars, TypeOK, Log!TypeOK
<1>3. FilesInv'
  BY DEF FilesInv, BothOpen, BothClosed, loggerVars, Accept
<1>4. CallInv'
  BY DEF Accept, Idle, CallInv, HasBackend, Resuming
<1>5. HomeInv'
  BY DEF Accept, tableVars, HomeInv
<1>6. TrailInv' /\ LogTellsOutcome'
  BY DEF Accept, Idle, CallInv, HasBackend, Resuming, TrailInv, LogTellsOutcome
<1>7. ServedJustified' /\ UnavailableJustified'
  BY DEF Accept, Got, ServedJustified, UnavailableJustified
<1> QED BY <1>2, <1>3, <1>4, <1>5, <1>6, <1>7

(* A request is turned away before it is routed.                           *)
LEMMA TurnAwayStep ==
  ASSUME Inv, Table!TypeOK', NEW k \in Key, NEW gate \in Gate,
         TurnAway(k, gate)
  PROVE  Inv'
<1> USE DEF Inv
<1>1. /\ phase = "running" /\ UNCHANGED loggerVars
      /\ trail' = IF enabled THEN GateLines(gate) ELSE <<>>
  BY LoggerRuns DEF TurnAway, TypeOK, loggerVars, Idle
<1>2. reply' \in Response
  BY EngineAssumption, ReplyTyped DEF TurnAway, Gate, Outcome
<1>3. trail' \in Seq(Line)
  BY <1>1, Lines DEF Reads
<1>4. TypeOK'
  BY <1>1, <1>3, <1>2 DEF TurnAway, callVars, TypeOK, Line, loggerVars,
     Log!TypeOK
<1>5. FilesInv'
  BY <1>1 DEF FilesInv, BothOpen, BothClosed, loggerVars, TurnAway
<1>6. CallInv'
  BY DEF TurnAway, Idle, callVars, CallInv, HasBackend, Resuming
<1>7. HomeInv'
  BY DEF TurnAway, tableVars, HomeInv
<1>8. TrailInv' /\ LogTellsOutcome'
  BY <1>1, Lines DEF TurnAway, Idle, Replied, Gate, callVars, HasBackend,
     Resuming, TrailInv, LogTellsOutcome, Reads
<1>9. ServedJustified' /\ UnavailableJustified'
  BY DEF TurnAway, Replied, Gate, Got, ServedJustified, UnavailableJustified
<1> QED BY <1>4, <1>5, <1>6, <1>7, <1>8, <1>9

(* A backend is stopped and taken off the ring.                            *)
LEMMA takeBackendOfflineStep ==
  ASSUME Inv, Table!TypeOK', NEW id, takeBackendOffline(id)
  PROVE  Inv'
<1> USE DEF Inv
<1>1. id \in Server
  BY EngineAssumption DEF takeBackendOffline, InRange
<1>2. /\ phase = "running" /\ UNCHANGED loggerVars
      /\ trail' = <<>>
  BY LoggerRuns DEF takeBackendOffline, TypeOK, loggerVars, Idle, Forget
<1>3. TypeOK'
  BY <1>1, <1>2 DEF takeBackendOffline, Forget, Rehome, TypeOK, loggerVars,
     Log!TypeOK
<1>4. FilesInv'
  BY <1>2 DEF FilesInv, BothOpen, BothClosed, loggerVars, takeBackendOffline
<1>5. CallInv'
  BY EngineAssumption DEF takeBackendOffline, Idle, InRange, Forget, TypeOK,
     CallInv, HasBackend, Resuming
<1>6. HomeInv'
  BY DEF takeBackendOffline, Table!Resize, Rehome, HomeInv
<1>7. TrailInv' /\ LogTellsOutcome'
  BY DEF takeBackendOffline, Idle, Forget, CallInv, HasBackend, Resuming,
     TrailInv, LogTellsOutcome
<1>8. ServedJustified' /\ UnavailableJustified'
  BY DEF takeBackendOffline, Forget, Got, ServedJustified, UnavailableJustified
<1> QED BY <1>3, <1>4, <1>5, <1>6, <1>7, <1>8

(* A backend is started and put on the ring.                               *)
LEMMA bringBackendOnlineStep ==
  ASSUME Inv, Table!TypeOK', NEW id, bringBackendOnline(id)
  PROVE  Inv'
<1> USE DEF Inv
<1>1. /\ phase = "running" /\ UNCHANGED loggerVars
      /\ trail' = <<>>
  BY LoggerRuns DEF bringBackendOnline, TypeOK, loggerVars, Idle, Forget
<1>2. TypeOK'
  BY <1>1 DEF bringBackendOnline, Forget, Unchanged_admin, callVars, Rehome,
     TypeOK, loggerVars, Log!TypeOK, Table!TypeOK
<1>3. FilesInv'
  BY <1>1 DEF FilesInv, BothOpen, BothClosed, loggerVars, bringBackendOnline,
     Unchanged_admin
<1>4. CallInv'
  BY DEF bringBackendOnline, Idle, Unchanged_admin, callVars, CallInv,
     HasBackend, Resuming
<1>5. HomeInv'
  BY DEF bringBackendOnline, Table!Resize, Rehome, HomeInv
<1>6. TrailInv' /\ LogTellsOutcome'
  BY DEF bringBackendOnline, Idle, Forget, Unchanged_admin, callVars,
     HasBackend, Resuming, TrailInv, LogTellsOutcome
<1>7. ServedJustified' /\ UnavailableJustified'
  BY DEF bringBackendOnline, Forget, Got, ServedJustified, UnavailableJustified
<1> QED BY <1>2, <1>3, <1>4, <1>5, <1>6, <1>7

(* A backend fails without leaving the ring.                               *)
LEMMA stopStep ==
  ASSUME Inv, Table!TypeOK', NEW s \in Server, stop(s)
  PROVE  Inv'
<1> USE DEF Inv
<1>1. /\ phase = "running" /\ UNCHANGED loggerVars
      /\ trail' = <<>>
  BY LoggerRuns DEF stop, TypeOK, loggerVars, Idle, Forget
<1>2. TypeOK'
  BY <1>1, EngineAssumption DEF stop, Forget, Unchanged_admin, callVars,
     Rehome, TypeOK, loggerVars, Log!TypeOK
<1>3. FilesInv'
  BY <1>1 DEF FilesInv, BothOpen, BothClosed, loggerVars, stop, Unchanged_admin
<1>4. CallInv'
  BY DEF stop, Idle, Unchanged_admin, callVars, CallInv, HasBackend, Resuming
<1>5. HomeInv'
  BY DEF stop, tableVars, Rehome, HomeInv
<1>6. TrailInv' /\ LogTellsOutcome'
  BY DEF stop, Idle, Forget, Unchanged_admin, callVars, HasBackend, Resuming,
     TrailInv, LogTellsOutcome
<1>7. ServedJustified' /\ UnavailableJustified'
  BY DEF stop, Forget, Got, ServedJustified, UnavailableJustified
<1> QED BY <1>2, <1>3, <1>4, <1>5, <1>6, <1>7

(* Sessions are forced, blocked, unblocked, purged or age between calls.   *)
LEMMA AdministerStep ==
  ASSUME Inv, Table!TypeOK', Administer
  PROVE  Inv'
<1> USE DEF Inv
<1>1. /\ phase = "running" /\ UNCHANGED loggerVars
      /\ trail' = <<>>
  BY LoggerRuns DEF Administer, TypeOK, loggerVars, Idle, Forget
<1>2. TypeOK'
  BY <1>1 DEF Administer, Forget, Unchanged_admin, callVars, Rehome, TypeOK,
     loggerVars, Log!TypeOK
<1>3. FilesInv'
  BY <1>1 DEF FilesInv, BothOpen, BothClosed, loggerVars, Administer,
     Unchanged_admin
<1>4. CallInv'
  BY DEF Administer, Idle, Unchanged_admin, callVars, CallInv, HasBackend,
     Resuming
<1>5. HomeInv'
  BY DEF Administer, Table!Override, Table!Bar, Table!Retime, Table!Purge,
     Table!Age, Rehome, HomeInv, Table!TypeOK
<1>6. TrailInv' /\ LogTellsOutcome'
  BY DEF Administer, Idle, Forget, Unchanged_admin, callVars, HasBackend,
     Resuming, TrailInv, LogTellsOutcome
<1>7. ServedJustified' /\ UnavailableJustified'
  BY DEF Administer, Forget, Got, ServedJustified, UnavailableJustified
<1> QED BY <1>2, <1>3, <1>4, <1>5, <1>6, <1>7

(* main's own steps. *)
LEMMA MainStep ==
  ASSUME Inv, Table!TypeOK', Start \/ Finish \/ Exit
  PROVE  Inv'
<1> USE DEF Inv
<1>1. /\ stage = "idle" /\ UNCHANGED <<tableVars, online, callVars, home>>
      /\ UNCHANGED <<reply, trail>> \/ (reply' = None /\ trail' = <<>>)
  BY DEF Start, Finish, Exit, Idle, Forget, Unchanged_main, CallInv
<1>2. TypeOK'
  <2>1. Log!TypeOK'
    BY StreamsTyped DEF Start, Finish, Exit, TypeOK, Log!TypeOK, Log!InitOff,
       Log!InitOn, Log!InitFails, Log!shutdown
  <2>2. trail' \in Seq(Action \X Status) /\ reply' \in Response \cup {None}
    <3>1. /\ trail \in Seq(Action \X Status) /\ <<>> \in Seq(Action \X Status)
          /\ reply \in Response \cup {None}
      BY DEF TypeOK
    <3> QED BY <1>1, <3>1
  <2> QED BY <2>1, <2>2 DEF Start, Finish, Exit, TypeOK, Unchanged_main,
             callVars
<1>3. FilesInv'
  BY DEF Start, Finish, Exit, FilesInv, BothOpen, BothClosed, Log!TypeOK,
     Log!Stream, Log!InitOff, Log!InitOn, Log!InitFails, Log!shutdown,
     Log!opened, Log!closed, Log!written, TypeOK
<1>4. CallInv'
  BY DEF Start, Finish, Exit, Idle, Unchanged_main, CallInv, HasBackend,
     Resuming, callVars
<1>5. HomeInv'
  BY DEF Start, Finish, Exit, Unchanged_main, HomeInv, tableVars
<1>6. TrailInv' /\ LogTellsOutcome'
  BY DEF Start, Finish, Exit, Idle, Forget, Unchanged_main, CallInv, TrailInv,
     LogTellsOutcome, HasBackend, Resuming, callVars, FilesInv, Log!shutdown
<1>7. ServedJustified' /\ UnavailableJustified'
  BY DEF Start, Finish, Exit, Forget, Unchanged_main, ServedJustified,
     UnavailableJustified, Got, tableVars
<1> QED BY <1>2, <1>3, <1>4, <1>5, <1>6, <1>7
-----------------------------------------------------------------------------
(* The invariant holds of every reachable state. *)
LEMMA InvInductive ==
  Safety => []Inv
<1>1. Init => Inv
  <2> SUFFICES ASSUME Init PROVE Inv
    OBVIOUS
  <2> USE DEF Init
  <2>1. Table!TypeOK /\ Log!TypeOK
    BY DEF Table!TypeOK, Log!Init, Log!TypeOK, Log!Stream
  <2>2. TypeOK
    <3>1. local_data \in [Server -> [Key -> 0..MaxCount]]
      BY EngineAssumption
    <3>2. failures \in 0..MaxFailures
      BY EngineAssumption
    <3>3. trail \in Seq(Action \X Status)
      OBVIOUS
    <3> QED BY <2>1, <3>1, <3>2, <3>3 DEF TypeOK
  <2>3. FilesInv
    BY DEF FilesInv, BothClosed, Log!Init
  <2>4. CallInv /\ HomeInv
    BY DEF CallInv, Resuming, HasBackend, HomeInv
  <2>5. TrailInv /\ LogTellsOutcome
    BY DEF TrailInv, Resuming, HasBackend, LogTellsOutcome
  <2>6. ServedJustified /\ UnavailableJustified
    BY DEF ServedJustified, UnavailableJustified, Got
  <2> QED BY <2>2, <2>3, <2>4, <2>5, <2>6 DEF Inv
<1>2. ASSUME Inv, [Next]_vars PROVE Inv'
  <2>1. CASE UNCHANGED vars
    BY <1>2, <2>1 DEF vars, tableVars, loggerVars, callVars, Inv, TypeOK,
       Table!TypeOK, Table!Bound, Log!TypeOK, FilesInv, BothOpen, BothClosed,
       CallInv, Resuming, HasBackend, HomeInv, TrailInv, ServedJustified,
       UnavailableJustified, LogTellsOutcome, Got
  <2>2. CASE Next
    <3>1. Table!TypeOK'
      <4>1. Table!TypeOK
        BY <1>2 DEF Inv, TypeOK
      <4>2. CASE Table!Next
        BY <4>1, <4>2, TableTyped
      <4>3. CASE UNCHANGED tableVars
        BY <4>1, <4>3 DEF Table!TypeOK, Table!Bound, tableVars
      <4> QED BY <1>2, <2>2, <4>1, <4>2, <4>3, TableUsed DEF Inv
    <3>2. CASE Continue
      BY <1>2, <3>1, <3>2, RouteKeepStep, RouteNewStep, RouteMovedStep,
         RouteNowhereStep, RouteBlockedStep, ForwardStep, DropStep, GiveUpStep,
         processRequestStep, handleServerDownStep DEF Continue
    <3>3. ASSUME NEW k \in Key, Accept(k) PROVE Inv'
      BY <1>2, <3>1, <3>3, AcceptStep
    <3>4. ASSUME NEW k \in Key, NEW gate \in Gate, TurnAway(k, gate) PROVE Inv'
      BY <1>2, <3>1, <3>4, TurnAwayStep
    <3>5. ASSUME NEW id \in -1..Cardinality(Server),
                 takeBackendOffline(id) \/ bringBackendOnline(id)
          PROVE  Inv'
      BY <1>2, <3>1, <3>5, takeBackendOfflineStep, bringBackendOnlineStep
    <3>6. ASSUME NEW s \in Server, stop(s) PROVE Inv'
      BY <1>2, <3>1, <3>6, stopStep
    <3>7. CASE Administer
      BY <1>2, <3>1, <3>7, AdministerStep
    <3>8. CASE Start \/ Finish \/ Exit
      BY <1>2, <3>1, <3>8, MainStep
    <3> QED BY <2>2, <3>2, <3>3, <3>4, <3>5, <3>6, <3>7, <3>8 DEF Next
  <2> QED BY <1>2, <2>1, <2>2
<1> QED BY <1>1, <1>2, PTL DEF Safety

(* Every variable keeps its type. *)
THEOREM TypeCorrect == Spec => []TypeOK
BY InvInductive, PTL DEF Spec, Inv

(* A request is served by an online backend that the table binds it to.    *)
THEOREM ServedJustifiedHolds == Spec => []ServedJustified
BY InvInductive, PTL DEF Spec, Inv

(* A request is given up only with the ring empty or after two dead        *)
(* backends.                                                               *)
THEOREM UnavailableJustifiedHolds == Spec => []UnavailableJustified
BY InvInductive, PTL DEF Spec, Inv

(* The last line a request leaves tells how it was answered.               *)
THEOREM LogTellsOutcomeHolds == Spec => []LogTellsOutcome
BY InvInductive, PTL DEF Spec, Inv

(* No line is dropped while the engine runs; no file stays open after it.  *)
THEOREM FilesOpenThenClosedHolds == Spec => []FilesOpenThenClosed
<1>1. Inv => FilesOpenThenClosed
  BY DEF Inv, FilesInv, BothOpen, BothClosed, FilesOpenThenClosed, Log!Records
<1> QED BY <1>1, InvInductive, PTL DEF Spec

(* A client that is served again is served by the same backend, which      *)
(* counts on.                                                              *)
THEOREM AnswersContinueHolds == Spec => AnswersContinue
<1> DEFINE Continues ==
             stage = "process" /\ home[key] # None
               => /\ Got("served")'
                  /\ reply'.backend_id = home[key]
                  /\ reply'.number = Counted(local_data[home[key]][key])
<1>1. ASSUME Inv, Next, stage = "process", home[key] # None
      PROVE  Continues
  <2>1. processRequest
    BY <1>1 DEF Next, Continue, RouteKeep, RouteNew, RouteMoved, RouteNowhere,
       RouteBlocked, Forward, Drop, GiveUp, handleServerDown, Accept, TurnAway,
       takeBackendOffline, bringBackendOnline, stop, Administer, Start, Finish,
       Exit, Idle, Inv, CallInv
  <2>2. /\ key \in Key /\ backend \in Server /\ online[backend]
        /\ home[key] = backend
    BY <1>1 DEF Inv, TypeOK, CallInv, HasBackend, HomeInv
  <2>3. reply' = Replied(key, "served", backend, local_data'[backend][key])
    BY <2>1, <2>2 DEF processRequest
  <2>4. local_data'[backend][key] = Counted(local_data[backend][key])
    BY <1>1, <2>1, <2>2 DEF processRequest, Inv, TypeOK
  <2>5. reply' # None
    <3>1. Counted(local_data[backend][key]) \in 0..MaxCount
      BY <1>1, <2>2, EngineAssumption DEF Counted, Inv, TypeOK
    <3> QED BY <2>2, <2>3, <2>4, <3>1, ReplyTyped DEF Outcome
  <2> QED BY <2>2, <2>3, <2>4, <2>5 DEF Got, Replied
<1>2. Inv /\ [Next]_vars => [Continues]_vars
  BY <1>1
<1> QED BY <1>2, InvInductive, PTL DEF Spec, Safety, AnswersContinue
=============================================================================
