------------------------ MODULE SessionManagerProofs ------------------------
(***************************************************************************)
(* Proofs about the session table, for every set of servers and keys,      *)
(* every ranking and every choice of timeouts.                             *)
(***************************************************************************)
EXTENDS SessionManager, ListTheorems

(* getServer returns a member of the ring, or -1 exactly if it is empty.   *)
LEMMA GetServer ==
  ASSUME NEW k \in Key, RingTypeOK
  PROVE  /\ getServer(k) \in Server \cup {NoServer}
         /\ getServer(k) >= 0 <=> getServer(k) \in OnRing
         /\ getServer(k) < 0 <=> OnRing = {}
         /\ getServer(k) \in Int
<1>1. active_servers \in Seq(Server) /\ Rank[k] \in [Server -> Nat]
  BY RankAssumption DEF RingTypeOK
<1>2. active_servers # <<>> => getServer(k) \in OnRing
  BY <1>1, ClosestMember DEF getServer, Closest, OnRing
<1>3. active_servers = <<>> <=> OnRing = {}
  BY <1>1, ClosestMember DEF OnRing
<1>4. OnRing \subseteq Server
  BY <1>1, MembersType DEF OnRing
<1>5. active_servers = <<>> => getServer(k) = -1
  BY DEF getServer, NoServer
<1>6. getServer(k) \in OnRing => getServer(k) \in Nat
  BY <1>4, ServerAssumption
<1>7. CASE active_servers = <<>>
  BY <1>3, <1>5, <1>7 DEF NoServer
<1>8. CASE active_servers # <<>>
  <2>1. /\ getServer(k) \in OnRing /\ getServer(k) \in Server
        /\ getServer(k) \in Nat /\ OnRing # {}
    BY <1>2, <1>3, <1>4, <1>6, <1>8
  <2> QED BY <2>1
<1> QED BY <1>7, <1>8

(* An addition or a removal keeps the list well formed and changes the set *)
(* of active servers by at most that one server.                           *)
LEMMA RingStep ==
  ASSUME RingTypeOK, NEW s \in Server
  PROVE  /\ addServer(s) => RingTypeOK' /\ OnRing' = OnRing \cup {s}
         /\ removeServer(s) => RingTypeOK' /\ OnRing' = OnRing \ {s}
<1>1. ASSUME addServer(s)
      PROVE  RingTypeOK' /\ OnRing' = OnRing \cup {s}
  BY <1>1, AppendMembers DEF addServer, RingTypeOK, OnRing
<1>2. ASSUME removeServer(s)
      PROVE  RingTypeOK' /\ OnRing' = OnRing \ {s}
  BY <1>2, WithoutMembers DEF removeServer, RingTypeOK, OnRing
<1> QED BY <1>1, <1>2

(* A move to another server, for any reason but the initial one, keeps the *)
(* entry well formed and its history an audit trail.                       *)
LEMMA MovedEntry ==
  ASSUME NEW e \in SessionEntry, NEW s \in Server,
         NEW why \in Reason \ {"initial"}, s # e.backend_id, Trail(e)
  PROVE  Moved(e, s, why) \in SessionEntry /\ Trail(Moved(e, s, why))
<1> DEFINE h == e.path_history
           hop == [backend_id |-> s, reason |-> why]
           m == Moved(e, s, why)
           g == Append(h, hop)
<1>1. h \in Seq(Hop) /\ hop \in Hop
  BY DEF SessionEntry, Hop
<1>2. m.backend_id = s /\ m.path_history = g
  BY DEF Moved, SessionEntry
<1>3. g \in Seq(Hop)
  BY <1>1
<1>4. m \in SessionEntry
  <2>1. m = [e EXCEPT !.backend_id = s, !.idle = 0, !.path_history = g]
    BY DEF Moved
  <2>2. 0 \in 0..MaxIdle
    BY TimeoutAssumption
  <2> HIDE DEF m, g
  <2> QED BY <1>3, <2>1, <2>2 DEF SessionEntry
<1>5. /\ Len(h) \in Nat
      /\ Len(g) = Len(h) + 1
      /\ \A i \in 1..Len(h) : g[i] = h[i]
      /\ g[Len(h) + 1] = hop
  BY <1>1
<1>6. hop.backend_id = s /\ hop.reason # "initial"
  OBVIOUS
<1>7. /\ Len(h) >= 1
      /\ h[Len(h)].backend_id = e.backend_id
      /\ \A i \in 1..Len(h) : (h[i].reason = "initial") <=> (i = 1)
      /\ \A i \in 1..(Len(h) - 1) : h[i].backend_id # h[i + 1].backend_id
  BY DEF Trail
<1> HIDE DEF h, hop, m, g
<1>8. \A i \in 1..Len(g) : (g[i].reason = "initial") <=> (i = 1)
  BY <1>5, <1>6, <1>7
<1>9. \A i \in 1..(Len(g) - 1) : g[i].backend_id # g[i + 1].backend_id
  BY <1>5, <1>6, <1>7
<1>10. Len(g) >= 1 /\ g[Len(g)].backend_id = m.backend_id
  BY <1>2, <1>5, <1>6
<1> QED BY <1>2, <1>4, <1>8, <1>9, <1>10 DEF Trail, m

(* A new entry starts its audit trail.                                     *)
LEMMA FreshEntry ==
  ASSUME NEW s \in Server
  PROVE  NewEntry(s) \in SessionEntry /\ Trail(NewEntry(s))
<1> DEFINE hop == [backend_id |-> s, reason |-> "initial"]
           g == <<hop>>
<1>1. hop \in Hop
  BY DEF Hop, Reason
<1>2. g \in Seq(Hop) /\ Len(g) = 1 /\ g[1] = hop
  BY <1>1
<1>3. NewEntry(s) = [backend_id |-> s, blocked |-> FALSE,
                     custom_timeout |-> -1, idle |-> 0, path_history |-> g]
  BY DEF NewEntry
<1>4. hop.backend_id = s /\ hop.reason = "initial"
  OBVIOUS
<1> HIDE DEF hop, g
<1>5. NewEntry(s) \in SessionEntry
  BY <1>2, <1>3, TimeoutAssumption DEF SessionEntry, Timeout
<1>6. Trail(NewEntry(s))
  <2>1. NewEntry(s).path_history = g /\ NewEntry(s).backend_id = s
    BY <1>3
  <2>2. \A i \in 1..Len(g) : i = 1
    BY <1>2
  <2>3. \A i \in 1..(Len(g) - 1) : g[i].backend_id # g[i + 1].backend_id
    BY <1>2
  <2>4. Len(g) >= 1 /\ g[Len(g)].backend_id = s
    BY <1>2, <1>4
  <2>5. \A i \in 1..Len(g) : (g[i].reason = "initial") <=> (i = 1)
    BY <1>2, <1>4, <2>2
  <2> HIDE DEF NewEntry
  <2> QED BY <2>1, <2>3, <2>4, <2>5 DEF Trail
<1> QED BY <1>5, <1>6

(* forceReassign gives up or finds a server of the ring other than the     *)
(* session's own.                                                          *)
LEMMA ForcedTargetOther ==
  ASSUME RingTypeOK, NEW k \in Key, NEW old \in Server,
         ForcedTarget(k, old) >= 0
  PROVE  ForcedTarget(k, old) \in OnRing /\ ForcedTarget(k, old) # old
<1>1. CASE getServer(k) # old
  BY <1>1, GetServer DEF ForcedTarget
<1>2. CASE getServer(k) = old
  <2>1. active_servers \in Seq(Server) /\ Len(active_servers) \in Nat
    BY DEF RingTypeOK
  <2>2. ~(Len(active_servers) <= 1)
    BY <1>2 DEF ForcedTarget, NoServer
  <2>3. ForcedTarget(k, old) = FirstOther(old)
    BY <1>2, <2>2 DEF ForcedTarget
  <2>4. active_servers[1] # active_servers[2]
    BY <2>1, <2>2 DEF RingTypeOK, NoRepeats
  <2>5. \E i \in 1..Len(active_servers) :
          /\ active_servers[i] # old
          /\ \A j \in 1..(i - 1) : active_servers[j] = old
    <3>1. CASE active_servers[1] # old
      BY <3>1, <2>1, <2>2
    <3>2. CASE active_servers[1] = old
      <4>1. 2 \in 1..Len(active_servers)
        BY <2>1, <2>2
      <4>2. \A j \in 1..(2 - 1) : active_servers[j] = old
        BY <3>2
      <4> QED BY <4>1, <4>2, <3>2, <2>4
    <3> QED BY <3>1, <3>2
  <2>6. \E i \in 1..Len(active_servers) :
          FirstOther(old) = active_servers[i] /\ active_servers[i] # old
    BY <2>5 DEF FirstOther
  <2> QED BY <2>3, <2>6 DEF OnRing, Members
<1> QED BY <1>1, <1>2
-----------------------------------------------------------------------------
(* The inductive invariant: the table holds only well-formed entries whose *)
(* history is an audit trail.                                              *)
SoundEntry == {e \in SessionEntry : Trail(e)}

Sound ==
  /\ RingTypeOK
  /\ sessions \in [Key -> SoundEntry \cup {None}]
  /\ answer \in Answer \cup {None}

(* Changes of the fields that the history says nothing about.              *)
LEMMA FieldChange ==
  ASSUME NEW e \in SoundEntry
  PROVE  /\ [e EXCEPT !.idle = 0] \in SoundEntry
         /\ \A b \in BOOLEAN : [e EXCEPT !.blocked = b] \in SoundEntry
         /\ \A t \in CustomTimeout :
              [e EXCEPT !.custom_timeout = t] \in SoundEntry
         /\ e.idle < MaxIdle => [e EXCEPT !.idle = @ + 1] \in SoundEntry
<1>1. 0 \in 0..MaxIdle /\ MaxIdle \in Nat
  BY TimeoutAssumption
<1>2. [e EXCEPT !.idle = 0] \in SoundEntry
  BY <1>1 DEF SoundEntry, SessionEntry, Trail
<1>3. \A b \in BOOLEAN : [e EXCEPT !.blocked = b] \in SoundEntry
  BY DEF SoundEntry, SessionEntry, Trail
<1>4. \A t \in CustomTimeout : [e EXCEPT !.custom_timeout = t] \in SoundEntry
  BY DEF SoundEntry, SessionEntry, Trail, Timeout
<1>5. ASSUME e.idle < MaxIdle
      PROVE  [e EXCEPT !.idle = @ + 1] \in SoundEntry
  <2> DEFINE n == e.idle + 1
  <2>1. n \in 0..MaxIdle
    BY <1>1, <1>5 DEF SoundEntry, SessionEntry
  <2> HIDE DEF n
  <2>2. [e EXCEPT !.idle = n] \in SoundEntry
    BY <2>1 DEF SoundEntry, SessionEntry, Trail
  <2> QED BY <2>2 DEF n
<1> QED BY <1>2, <1>3, <1>4, <1>5

(* Every answer has the declared shape.                                    *)
LEMMA AnsweredType ==
  ASSUME NEW k \in Key,
         NEW st \in {"SUCCESS", "REASSIGNED",
                     "SESSION_BLOCKED", "SERVER_DOWN"},
         NEW s \in Server \cup {NoServer}
  PROVE  Answered(k, st, s) \in Answer
BY DEF Answered, Answer

(* Every way through routeRequest keeps the table sound.                   *)
LEMMA RouteSound ==
  ASSUME Sound, NEW k \in Key, routeRequest(k)
  PROVE  Sound'
<1> USE DEF Sound
<1>1. RingTypeOK'
  BY DEF routeRequest, RingTypeOK
<1>2. OnRing \subseteq Server /\ NoServer < 0
  BY MembersType DEF OnRing, RingTypeOK, NoServer
<1>3. CASE RejectBlocked(k)
  BY <1>1, <1>3, AnsweredType DEF RejectBlocked
<1>4. CASE Stick(k)
  <2>1. sessions[k] \in SoundEntry
    BY <1>4 DEF Stick, Live, Present
  <2>2. sessions[k].backend_id \in Server
    BY <2>1 DEF SoundEntry, SessionEntry
  <2>3. answer' \in Answer
    BY <1>4, <2>2, AnsweredType DEF Stick
  <2>4. sessions' = [sessions EXCEPT ![k] = [sessions[k] EXCEPT !.idle = 0]]
    BY <1>4 DEF Stick
  <2>5. [sessions[k] EXCEPT !.idle = 0] \in SoundEntry
    BY <2>1, FieldChange
  <2> QED BY <1>1, <2>3, <2>4, <2>5
<1>5. CASE FailOver(k)
  <2>1. sessions[k] \in SoundEntry
    BY <1>5 DEF FailOver, Live, Present
  <2>2. getServer(k) \in OnRing /\ getServer(k) # sessions[k].backend_id
    BY <1>5, GetServer DEF FailOver, BackendAlive
  <2>3. Moved(sessions[k], getServer(k), "failover") \in SoundEntry
    BY <2>1, <2>2, <1>2, MovedEntry DEF SoundEntry, Reason
  <2>4. answer' \in Answer
    BY <1>5, <2>2, <1>2, AnsweredType DEF FailOver
  <2> QED BY <1>1, <1>5, <2>3, <2>4 DEF FailOver
<1>6. CASE FailOverNowhere(k)
  BY <1>1, <1>6, AnsweredType DEF FailOverNowhere
<1>7. CASE Admit(k)
  <2>1. getServer(k) \in Server
    BY <1>7, <1>2, GetServer DEF Admit
  <2>2. NewEntry(getServer(k)) \in SoundEntry
    BY <2>1, FreshEntry DEF SoundEntry
  <2>3. answer' \in Answer
    BY <1>7, <2>1, AnsweredType DEF Admit
  <2> QED BY <1>1, <1>7, <2>2, <2>3 DEF Admit
<1>8. CASE AdmitNowhere(k)
  <2>1. answer' \in Answer
    BY <1>8, AnsweredType DEF AdmitNowhere
  <2> QED BY <1>1, <1>8, <2>1 DEF AdmitNowhere
<1> QED
  BY <1>3, <1>4, <1>5, <1>6, <1>7, <1>8 DEF routeRequest

(* Every step keeps the table sound.                                       *)
LEMMA SoundStep ==
  ASSUME Sound, [Next]_vars
  PROVE  Sound'
<1> USE DEF Sound
<1>1. OnRing \subseteq Server
  BY MembersType DEF OnRing, RingTypeOK
<1>2. \A k \in Key : Present(k) => sessions[k] \in SoundEntry
  BY DEF Present
<1>3. ASSUME NEW k \in Key, routeRequest(k) PROVE Sound'
  BY <1>3, RouteSound
<1>4. ASSUME NEW k \in Key, forceReassign(k) PROVE Sound'
  <2> DEFINE old == sessions[k].backend_id
             new == ForcedTarget(k, old)
  <2>1. sessions[k] \in SoundEntry /\ old \in Server
    BY <1>2, <1>4 DEF forceReassign, SoundEntry, SessionEntry
  <2>2. new >= 0
    BY <1>4 DEF forceReassign
  <2>3. new \in OnRing /\ new # old
    BY <2>1, <2>2, ForcedTargetOther
  <2>4. Moved(sessions[k], new, "forced") \in SoundEntry
    BY <1>1, <2>1, <2>3, MovedEntry DEF SoundEntry, Reason
  <2>5. sessions' = [sessions EXCEPT ![k] = Moved(sessions[k], new, "forced")]
    BY <1>4 DEF forceReassign
  <2>6. RingTypeOK' /\ answer' = None
    BY <1>4 DEF forceReassign, RingTypeOK
  <2> QED BY <2>4, <2>5, <2>6
<1>5. ASSUME NEW k \in Key, NEW b \in BOOLEAN, blockSession(k, b) PROVE Sound'
  <2>1. [sessions[k] EXCEPT !.blocked = b] \in SoundEntry
    BY <1>2, <1>5, FieldChange DEF blockSession
  <2>2. sessions' = [sessions EXCEPT ![k] = [sessions[k] EXCEPT !.blocked = b]]
    BY <1>5 DEF blockSession
  <2> QED BY <1>5, <2>1, <2>2 DEF blockSession, RingTypeOK
<1>6. ASSUME NEW k \in Key, NEW t \in CustomTimeout, setSessionExpiry(k, t)
      PROVE  Sound'
  <2>1. [sessions[k] EXCEPT !.custom_timeout = t] \in SoundEntry
    BY <1>2, <1>6, FieldChange DEF setSessionExpiry
  <2>2. sessions' =
          [sessions EXCEPT ![k] = [sessions[k] EXCEPT !.custom_timeout = t]]
    BY <1>6 DEF setSessionExpiry
  <2> QED BY <1>6, <2>1, <2>2 DEF setSessionExpiry, RingTypeOK
<1>7. ASSUME NEW s \in Server, handleServerDown(s) PROVE Sound'
  <2>1. ASSUME NEW k \in Stranded(s)
        PROVE  Moved(sessions[k], getServer(k), "redistributed") \in SoundEntry
    <3>1. k \in Key /\ sessions[k] \in SoundEntry /\ sessions[k].backend_id = s
      BY <1>2 DEF Stranded, Live
    <3>2. getServer(k) \in Server /\ getServer(k) # s
      BY <1>1, <3>1, GetServer DEF Stranded
    <3> QED BY <3>1, <3>2, MovedEntry DEF SoundEntry, Reason
  <2>2. \A k \in Key : sessions'[k] \in SoundEntry \cup {None}
    BY <1>7, <2>1 DEF handleServerDown
  <2> QED BY <1>7, <2>2 DEF handleServerDown, RingTypeOK
<1>8. ASSUME cleanupExpired PROVE Sound'
  BY <1>8 DEF cleanupExpired, RingTypeOK
<1>9. ASSUME Tick PROVE Sound'
  <2>1. \A k \in Key : sessions'[k] \in SoundEntry \cup {None}
    BY <1>2, <1>9, FieldChange DEF Tick
  <2> QED BY <1>9, <2>1 DEF Tick, RingTypeOK
<1>10. ASSUME RingChange PROVE Sound'
  BY <1>10, RingStep DEF RingChange, RingNext
<1>11. ASSUME UNCHANGED vars PROVE Sound'
  BY <1>11 DEF vars, RingTypeOK
<1> QED
  BY <1>3, <1>4, <1>5, <1>6, <1>7, <1>8, <1>9, <1>10, <1>11 DEF Next

(* The table is sound in every reachable state.                            *)
THEOREM SoundTable == Spec => []Sound
<1>1. Init => Sound
  BY DEF Init, Sound, RingInit, RingTypeOK, NoRepeats
<1>2. Sound /\ [Next]_vars => Sound'
  BY SoundStep
<1> QED BY <1>1, <1>2, PTL DEF Spec

(* The type invariant of the session table.                                *)
THEOREM TypeCorrect == Spec => []TypeOK
<1>1. Sound => TypeOK
  BY DEF Sound, SoundEntry, TypeOK
<1> QED BY <1>1, SoundTable, PTL

(* Every path history is a full audit trail.                               *)
THEOREM AuditTrailHolds == Spec => []AuditTrail
<1>1. Sound => AuditTrail
  BY DEF Sound, SoundEntry, AuditTrail, Present
<1> QED BY <1>1, SoundTable, PTL
-----------------------------------------------------------------------------
(* A move keeps the history and extends it by one hop.                     *)
LEMMA MovedHistory ==
  ASSUME NEW e \in SessionEntry, NEW s \in Server, NEW why \in Reason
  PROVE  LET h == e.path_history
             g == Moved(e, s, why).path_history
         IN  /\ Len(g) = Len(h) + 1
             /\ \A i \in 1..Len(h) : g[i] = h[i]
             /\ g[Len(g)].reason = why
             /\ Moved(e, s, why).backend_id = s
<1> DEFINE h == e.path_history
           hop == [backend_id |-> s, reason |-> why]
           g == Append(h, hop)
<1>1. h \in Seq(Hop) /\ hop \in Hop /\ hop.reason = why
  BY DEF SessionEntry, Hop
<1>2. Moved(e, s, why).path_history = g /\ Moved(e, s, why).backend_id = s
  BY DEF Moved, SessionEntry
<1> HIDE DEF hop
<1>3. /\ Len(h) \in Nat
      /\ Len(g) = Len(h) + 1
      /\ \A i \in 1..Len(h) : g[i] = h[i]
      /\ g[Len(h) + 1] = hop
  BY <1>1
<1> HIDE DEF h, g
<1>4. g[Len(g)].reason = why
  BY <1>1, <1>3
<1> QED BY <1>2, <1>3, <1>4 DEF h

(* What one step may do to the entry of one key: leave its backend and its *)
(* history alone; move it to an active server, extending the history by    *)
(* one hop, if its backend is not active or an administrator forced it;    *)
(* or drop or replace it, if it has expired.                               *)
Kept(k) ==
  /\ Present(k)'
  /\ sessions'[k].backend_id = sessions[k].backend_id
  /\ sessions'[k].path_history = sessions[k].path_history

Relocated(k) ==
  /\ Present(k)'
  /\ sessions'[k].backend_id \in OnRing'
  /\ LET h == sessions[k].path_history
         g == sessions'[k].path_history
     IN  /\ Len(g) = Len(h) + 1
         /\ \A i \in 1..Len(h) : g[i] = h[i]
         /\ sessions[k].backend_id \notin OnRing \/ g[Len(g)].reason = "forced"

(* Every step treats every entry in one of these ways.                     *)
LEMMA EntryStep ==
  ASSUME Sound, [Next]_vars, NEW k \in Key, Present(k)
  PROVE  Kept(k) \/ Relocated(k) \/ isExpired(sessions[k])
<1> USE DEF Sound
<1>1. OnRing \subseteq Server
  BY MembersType DEF OnRing, RingTypeOK
<1>2. /\ sessions[k] \in SoundEntry /\ sessions[k] \in SessionEntry
      /\ sessions' \in [Key -> SoundEntry \cup {None}]
      /\ None \notin SoundEntry
  BY SoundStep, NoneAssumption DEF Present, SoundEntry
<1>3. ASSUME NEW j \in Key, routeRequest(j)
      PROVE  Kept(k) \/ Relocated(k) \/ isExpired(sessions[k])
  <2>1. OnRing' = OnRing
    BY <1>3 DEF routeRequest, OnRing
  <2>2. CASE j # k
    <3>1. sessions'[k] = sessions[k]
      BY <1>3, <2>2 DEF routeRequest, RejectBlocked, Stick, FailOver,
                        FailOverNowhere, Admit, AdmitNowhere
    <3> QED BY <3>1 DEF Kept, Present
  <2>3. CASE j = k /\ (RejectBlocked(k) \/ FailOverNowhere(k))
    BY <2>3 DEF RejectBlocked, FailOverNowhere, Kept, Present
  <2>4. CASE j = k /\ Stick(k)
    <3>1. sessions'[k] = [sessions[k] EXCEPT !.idle = 0]
      BY <2>4 DEF Stick
    <3>2. sessions'[k] # None
      BY <1>2, <3>1, FieldChange
    <3> QED BY <1>2, <3>1, <3>2 DEF Kept, Present, SessionEntry
  <2>5. CASE j = k /\ FailOver(k)
    <3>1. sessions'[k] = Moved(sessions[k], getServer(k), "failover")
      BY <2>5 DEF FailOver
    <3>2. getServer(k) \in OnRing /\ sessions[k].backend_id \notin OnRing
      BY <2>5, GetServer DEF FailOver, BackendAlive
    <3>3. Moved(sessions[k], getServer(k), "failover") \in SessionEntry
      BY <1>1, <1>2, <3>2, MovedEntry DEF SoundEntry, Reason
    <3>4. sessions'[k] # None
      BY <3>1, <3>3, NoneAssumption
    <3> QED BY <1>1, <1>2, <2>1, <3>1, <3>2, <3>4, MovedHistory
            DEF Relocated, Present, Reason
  <2>6. CASE j = k /\ (Admit(k) \/ AdmitNowhere(k))
    BY <2>6 DEF Admit, AdmitNowhere, Vacant
  <2> QED BY <1>3, <2>2, <2>3, <2>4, <2>5, <2>6 DEF routeRequest
<1>4. ASSUME NEW j \in Key, forceReassign(j)
      PROVE  Kept(k) \/ Relocated(k)
  <2> DEFINE old == sessions[k].backend_id
             new == ForcedTarget(k, old)
  <2>1. CASE j # k
    <3>1. sessions'[k] = sessions[k]
      BY <1>4, <2>1 DEF forceReassign
    <3> QED BY <3>1 DEF Kept, Present
  <2>2. CASE j = k
    <3>1. old \in Server /\ new >= 0
      BY <1>2, <1>4, <2>2 DEF forceReassign, SessionEntry
    <3>2. new \in OnRing /\ new # old
      BY <3>1, ForcedTargetOther
    <3>3. sessions'[k] = Moved(sessions[k], new, "forced")
      BY <1>4, <2>2 DEF forceReassign
    <3>4. Moved(sessions[k], new, "forced") \in SessionEntry
      BY <1>1, <1>2, <3>2, MovedEntry DEF SoundEntry, Reason
    <3>5. sessions'[k] # None
      BY <3>3, <3>4, NoneAssumption
    <3>6. OnRing' = OnRing
      BY <1>4 DEF forceReassign, OnRing
    <3> HIDE DEF new
    <3> QED BY <1>1, <1>2, <3>2, <3>3, <3>5, <3>6, MovedHistory
            DEF Relocated, Present, Reason
  <2> QED BY <2>1, <2>2
<1>5. ASSUME NEW j \in Key, NEW b \in BOOLEAN, blockSession(j, b)
      PROVE  Kept(k)
  <2>1. [sessions[k] EXCEPT !.blocked = b] # None
    BY <1>2, FieldChange
  <2> QED BY <1>2, <1>5, <2>1 DEF blockSession, Kept, Present, SessionEntry
<1>6. ASSUME NEW j \in Key, NEW t \in CustomTimeout, setSessionExpiry(j, t)
      PROVE  Kept(k)
  <2>1. [sessions[k] EXCEPT !.custom_timeout = t] # None
    BY <1>2, FieldChange
  <2> QED
    BY <1>2, <1>6, <2>1 DEF setSessionExpiry, Kept, Present, SessionEntry
<1>7. ASSUME NEW s \in Server, handleServerDown(s)
      PROVE  Kept(k) \/ Relocated(k)
  <2>1. OnRing' = OnRing /\ s \notin OnRing
    BY <1>7 DEF handleServerDown, OnRing
  <2>2. CASE k \notin Stranded(s)
    BY <1>7, <2>2 DEF handleServerDown, Kept, Present
  <2>3. CASE k \in Stranded(s)
    <3>1. sessions'[k] = Moved(sessions[k], getServer(k), "redistributed")
      BY <1>7, <2>3 DEF handleServerDown
    <3>2. /\ getServer(k) \in OnRing
          /\ getServer(k) # s
          /\ sessions[k].backend_id = s
      BY <2>3, GetServer DEF Stranded
    <3>3. Moved(sessions[k], getServer(k), "redistributed") \in SessionEntry
      BY <1>1, <1>2, <3>2, MovedEntry DEF SoundEntry, Reason
    <3>4. sessions'[k] # None
      BY <3>1, <3>3, NoneAssumption
    <3> QED BY <1>1, <1>2, <2>1, <3>1, <3>2, <3>4, MovedHistory
            DEF Relocated, Present, Reason
  <2> QED BY <2>2, <2>3
<1>8. ASSUME cleanupExpired
      PROVE  Kept(k) \/ isExpired(sessions[k])
  BY <1>8 DEF cleanupExpired, Kept, Present
<1>9. ASSUME Tick PROVE Kept(k)
  <2>1. sessions[k].idle < MaxIdle =>
          [sessions[k] EXCEPT !.idle = @ + 1] # None
    BY <1>2, FieldChange
  <2> QED BY <1>2, <1>9, <2>1 DEF Tick, Kept, Present, SessionEntry
<1>10. ASSUME RingChange \/ UNCHANGED vars PROVE Kept(k)
  BY <1>10 DEF RingChange, vars, Kept, Present
<1> QED
  BY <1>3, <1>4, <1>5, <1>6, <1>7, <1>8, <1>9, <1>10 DEF Next

(* Affinity: a live session moves only when its backend is off the ring or *)
(* an administrator forces it, and then to a server on the ring.           *)
THEOREM StickyAffinityHolds == Spec => StickyAffinity
<1>1. ASSUME Sound, [Next]_vars, NEW k \in Key
      PROVE  StickyStep(k)
  <2>1. CASE Live(k)
    BY <1>1, <2>1, EntryStep DEF Live, Kept, Relocated, StickyStep
  <2>2. CASE ~Live(k)
    BY <2>2 DEF StickyStep
  <2> QED BY <2>1, <2>2
<1>2. Sound /\ [Next]_vars => [\A k \in Key : StickyStep(k)]_vars
  BY <1>1
<1> QED BY <1>2, SoundTable, PTL DEF Spec, StickyAffinity

(* The life of an entry: nothing drops or rewrites one before it expires.  *)
THEOREM EntryLifeHolds == Spec => EntryLife
<1>1. ASSUME Sound, [Next]_vars, NEW k \in Key, Present(k)
      PROVE  LifeStep(k)
  <2>1. Len(sessions[k].path_history) \in Nat
    BY <1>1 DEF Sound, Present, SoundEntry, SessionEntry
  <2>2. Kept(k) \/ Relocated(k) \/ isExpired(sessions[k])
    BY <1>1, EntryStep
  <2> QED BY <1>1, <2>1, <2>2 DEF Kept, Relocated, LifeStep
<1>2. Sound /\ [Next]_vars => [\A k \in Key : LifeStep(k)]_vars
  BY <1>1 DEF LifeStep
<1> QED BY <1>2, SoundTable, PTL DEF Spec, EntryLife

(* What routeRequest answers agrees with the table and the ring it leaves. *)
LEMMA AnswerStep ==
  ASSUME Sound, NEW k \in Key, routeRequest(k)
  PROVE  HonestAnswer'
<1> USE DEF Sound, Answered, HonestAnswer
<1>1. OnRing' = OnRing /\ OnRing \subseteq Server
  BY MembersType DEF routeRequest, OnRing, RingTypeOK
<1>2. None \notin SoundEntry
  BY NoneAssumption DEF SoundEntry
<1>3. CASE RejectBlocked(k)
  BY <1>3 DEF RejectBlocked
<1>4. CASE Stick(k)
  <2>1. sessions[k] \in SoundEntry /\ sessions[k] \in SessionEntry
    BY <1>4 DEF Stick, Live, Present, SoundEntry
  <2>2. sessions'[k] = [sessions[k] EXCEPT !.idle = 0]
    BY <1>4 DEF Stick
  <2>3. /\ sessions'[k].backend_id = sessions[k].backend_id
        /\ sessions'[k].blocked = sessions[k].blocked
    BY <2>1, <2>2 DEF SessionEntry
  <2>4. sessions'[k] # None
    BY <1>2, <2>1, <2>2, FieldChange
  <2> QED BY <1>1, <1>4, <2>3, <2>4 DEF Stick, BackendAlive, Present
<1>5. CASE FailOver(k)
  <2>1. sessions[k] \in SoundEntry /\ sessions[k] \in SessionEntry
    BY <1>5 DEF FailOver, Live, Present, SoundEntry
  <2>2. getServer(k) \in OnRing /\ getServer(k) # sessions[k].backend_id
    BY <1>5, GetServer DEF FailOver, BackendAlive
  <2>3. sessions'[k] = Moved(sessions[k], getServer(k), "failover")
    BY <1>5 DEF FailOver
  <2>4. sessions'[k] # None
    BY <1>1, <2>1, <2>2, <2>3, MovedEntry, NoneAssumption
      DEF SoundEntry, Reason
  <2>5. sessions'[k].blocked = sessions[k].blocked
    BY <2>1, <2>3 DEF Moved, SessionEntry
  <2>6. LET h == sessions'[k].path_history
        IN  h[Len(h)].reason = "failover"
    BY <1>1, <2>1, <2>2, <2>3, MovedHistory DEF Reason
  <2>7. sessions'[k].backend_id = getServer(k)
    BY <1>1, <2>1, <2>2, <2>3, MovedHistory DEF Reason
  <2>8. answer' = [key |-> k, status |-> "REASSIGNED",
                   backend_id |-> getServer(k)]
    BY <1>5 DEF FailOver
  <2> QED BY <1>1, <1>5, <2>2, <2>4, <2>5, <2>6, <2>7, <2>8
          DEF FailOver, Present
<1>6. CASE FailOverNowhere(k)
  BY <1>1, <1>6, GetServer DEF FailOverNowhere
<1>7. CASE Admit(k)
  <2>1. getServer(k) \in OnRing
    BY <1>7, GetServer DEF Admit
  <2>2. NewEntry(getServer(k)) \in SoundEntry
    BY <1>1, <2>1, FreshEntry DEF SoundEntry
  <2>3. sessions'[k] = NewEntry(getServer(k))
    BY <1>7 DEF Admit
  <2> QED BY <1>1, <1>2, <1>7, <2>1, <2>2, <2>3 DEF Admit, NewEntry, Present
<1>8. CASE AdmitNowhere(k)
  BY <1>1, <1>8, GetServer DEF AdmitNowhere
<1> QED BY <1>3, <1>4, <1>5, <1>6, <1>7, <1>8 DEF routeRequest

(* Every answer is honest: it names the backend the table holds for the    *)
(* key, that backend is on the ring, and SERVER_DOWN means an empty ring.  *)
THEOREM HonestAnswerHolds == Spec => []HonestAnswer
<1>1. Init => HonestAnswer
  BY DEF Init, HonestAnswer
<1>2. ASSUME Sound, HonestAnswer, [Next]_vars
      PROVE  HonestAnswer'
  <2>1. CASE \E k \in Key : routeRequest(k)
    BY <1>2, <2>1, AnswerStep
  <2>2. CASE answer' = None
    BY <2>2 DEF HonestAnswer
  <2>3. CASE UNCHANGED vars
    BY <1>2, <2>3 DEF HonestAnswer, vars, OnRing, Present
  <2> QED
    BY <1>2, <2>1, <2>2, <2>3
    DEF Next, forceReassign, blockSession, setSessionExpiry,
        handleServerDown, cleanupExpired, Tick, RingChange
<1> QED BY <1>1, <1>2, SoundTable, PTL DEF Spec
-----------------------------------------------------------------------------
(* The session table implements the promise of session affinity.           *)

(* What the promise sees of a step that writes the entry of one key.       *)
LEMMA WriteSeen ==
  ASSUME Sound, NEW k \in Key, NEW e \in SoundEntry,
         sessions' = [sessions EXCEPT ![k] = e]
  PROVE  /\ Bind' = [Bind EXCEPT ![k] = e.backend_id]
         /\ Lapsed' = IF isExpired(e) THEN Lapsed \cup {k} ELSE Lapsed \ {k}
         /\ Barred' = IF e.blocked THEN Barred \cup {k} ELSE Barred \ {k}
<1>1. e # None
  BY NoneAssumption DEF SoundEntry
<1>2. /\ sessions'[k] = e
      /\ \A j \in Key \ {k} : sessions'[j] = sessions[j]
  BY DEF Sound
<1>3. /\ Present(k)'
      /\ \A j \in Key \ {k} : Present(j)' <=> Present(j)
  BY <1>1, <1>2 DEF Present
<1>4. Bind' = [Bind EXCEPT ![k] = e.backend_id]
  <2>1. Bind' = [j \in Key |-> IF j = k THEN e.backend_id ELSE Bind[j]]
    <3>1. \A j \in Key :
             (IF Present(j)' THEN sessions'[j].backend_id ELSE None)
               = IF j = k THEN e.backend_id ELSE Bind[j]
      BY <1>2, <1>3 DEF Bind
    <3> QED BY <3>1, Zenon DEF Bind
  <2>2. Bind \in [Key -> Server \cup {None}]
    BY DEF Bind, Present, Sound, SoundEntry, SessionEntry
  <2> QED BY <2>1, <2>2
<1>5. Lapsed' = IF isExpired(e) THEN Lapsed \cup {k} ELSE Lapsed \ {k}
  BY <1>2, <1>3 DEF Lapsed, isExpired
<1>6. Barred' = IF e.blocked THEN Barred \cup {k} ELSE Barred \ {k}
  BY <1>2, <1>3 DEF Barred
<1> QED BY <1>4, <1>5, <1>6

(* What the promise sees of a step that erases entries.                    *)
LEMMA EraseSeen ==
  ASSUME Sound, NEW E \in SUBSET Key,
         sessions' = [k \in Key |-> IF k \in E THEN None ELSE sessions[k]]
  PROVE  /\ Bind' = [k \in Key |-> IF k \in E THEN None ELSE Bind[k]]
         /\ Lapsed' = Lapsed \ E
         /\ Barred' = Barred \ E
<1>1. \A k \in Key : Present(k)' <=> Present(k) /\ k \notin E
  BY DEF Present
<1>2. \A k \in Key \ E : sessions'[k] = sessions[k]
  OBVIOUS
<1>3. Bind' = [k \in Key |-> IF k \in E THEN None ELSE Bind[k]]
  BY <1>1, <1>2 DEF Bind
<1>4. Lapsed' = Lapsed \ E
  BY <1>1, <1>2 DEF Lapsed, isExpired
<1>5. Barred' = Barred \ E
  BY <1>1, <1>2 DEF Barred
<1> QED BY <1>3, <1>4, <1>5

(* The bound keys of the promise are those with an entry.                  *)
LEMMA BoundSeen ==
  ASSUME Sound
  PROVE  /\ \A k \in Key : Present(k) => sessions[k] \in SoundEntry
                                       /\ sessions[k] \in SessionEntry
         /\ \A k \in Key : Present(k) => Bind[k] = sessions[k].backend_id
         /\ Promise!Bound = {k \in Key : Present(k)}
<1>1. \A k \in Key : Present(k) => /\ sessions[k] \in SoundEntry
                                   /\ sessions[k] \in SessionEntry
  BY DEF Sound, Present, SoundEntry
<1>2. \A k \in Key : Present(k) => sessions[k].backend_id # None
  BY <1>1, NoneAssumption DEF SessionEntry
<1>3. Promise!Bound = {k \in Key : Present(k)}
  BY <1>2 DEF Promise!Bound, Bind
<1> QED BY <1>1, <1>3 DEF Bind

(* What expiry compares are integers.                                      *)
LEMMA TimeoutType ==
  ASSUME NEW e \in SessionEntry
  PROVE  DefaultTimeout \in Nat /\ e.custom_timeout \in Int
<1>1. e.custom_timeout \in Timeout
  BY DEF SessionEntry
<1>2. Timeout \subseteq Int
  BY TimeoutAssumption DEF Timeout
<1> QED BY <1>1, <1>2, TimeoutAssumption

(* An entry that has just been accessed has not expired.                   *)
LEMMA AccessedNow ==
  ASSUME NEW e \in SessionEntry, e.idle = 0
  PROVE  ~isExpired(e)
<1>1. DefaultTimeout \in Nat /\ e.custom_timeout \in Int
  BY TimeoutType
<1>2. ~(0 > IF e.custom_timeout >= 0 THEN e.custom_timeout ELSE DefaultTimeout)
  BY <1>1
<1> QED BY <1>2 DEF isExpired

(* A move, as the promise sees it, leaves the other fields alone.          *)
LEMMA MovedSeen ==
  ASSUME Sound, NEW k \in Key, Present(k), NEW s \in Server,
         NEW why \in Reason \ {"initial"}, s # sessions[k].backend_id
  PROVE  /\ Moved(sessions[k], s, why) \in SoundEntry
         /\ Moved(sessions[k], s, why).backend_id = s
         /\ Moved(sessions[k], s, why).blocked = sessions[k].blocked
         /\ ~isExpired(Moved(sessions[k], s, why))
<1>1. sessions[k] \in SoundEntry /\ sessions[k] \in SessionEntry
  BY BoundSeen
<1>2. Moved(sessions[k], s, why) \in SoundEntry
  BY <1>1, MovedEntry DEF SoundEntry
<1>3. /\ Moved(sessions[k], s, why).backend_id = s
      /\ Moved(sessions[k], s, why).blocked = sessions[k].blocked
      /\ Moved(sessions[k], s, why).idle = 0
  BY <1>1 DEF Moved, SessionEntry
<1>4. Moved(sessions[k], s, why) \in SessionEntry
  BY <1>2 DEF SoundEntry
<1> QED BY <1>2, <1>3, <1>4, AccessedNow
-----------------------------------------------------------------------------
(* Every way through routeRequest is a request of the promise.             *)
LEMMA RouteStep ==
  ASSUME Sound, NEW k \in Key, routeRequest(k)
  PROVE  [Promise!Next]_(Promise!vars)
<1> USE DEF Answered, Promise!Reply, NoServer
<1>1. OnRing' = OnRing /\ OnRing \subseteq Server
  BY MembersType DEF Sound, routeRequest, OnRing, RingTypeOK
<1>2. RingTypeOK
  BY DEF Sound
<1>3. CASE RejectBlocked(k)
  <2>1. Promise!Refuse(k)
    BY <1>1, <1>3
    DEF RejectBlocked, Promise!Refuse, Bind, Lapsed, Barred, Present
  <2> QED BY <2>1 DEF Promise!Next
<1>4. CASE Stick(k)
  <2> DEFINE e == [sessions[k] EXCEPT !.idle = 0]
  <2>1. /\ Present(k)
        /\ sessions[k] \in SoundEntry /\ sessions[k] \in SessionEntry
    BY <1>4, BoundSeen DEF Stick, Live
  <2>2. /\ e \in SoundEntry /\ e \in SessionEntry
        /\ e.backend_id = sessions[k].backend_id
        /\ e.blocked = sessions[k].blocked
        /\ e.idle = 0
    BY <2>1, FieldChange DEF SoundEntry, SessionEntry
  <2>3. sessions' = [sessions EXCEPT ![k] = e]
    BY <1>4 DEF Stick
  <2> HIDE DEF e
  <2>4. k \notin Lapsed /\ k \notin Barred
    BY <1>4 DEF Stick, Live, Lapsed, Barred
  <2>5. Bind' = Bind /\ Lapsed' = Lapsed /\ Barred' = Barred
    <3>1. Bind \in [Key -> Server \cup {None}] /\ Bind[k] = e.backend_id
      BY <2>1, <2>2 DEF Bind, Present, Sound, SoundEntry, SessionEntry
    <3>2. ~e.blocked /\ ~isExpired(e)
      BY <1>4, <2>2, AccessedNow DEF Stick
    <3>3. /\ Bind' = [Bind EXCEPT ![k] = e.backend_id]
          /\ Lapsed' = IF isExpired(e) THEN Lapsed \cup {k} ELSE Lapsed \ {k}
          /\ Barred' = IF e.blocked THEN Barred \cup {k} ELSE Barred \ {k}
      BY <2>2, <2>3, WriteSeen
    <3> QED BY <2>4, <3>1, <3>2, <3>3
  <2>6. Promise!Keep(k)
    BY <1>1, <1>4, <2>1, <2>4, <2>5, BoundSeen
    DEF Stick, BackendAlive, Promise!Keep
  <2> QED BY <2>6 DEF Promise!Next
<1>5. CASE FailOver(k)
  <2> DEFINE s == getServer(k)
             e == Moved(sessions[k], s, "failover")
  <2>1. Present(k) /\ k \notin Lapsed /\ k \notin Barred
    BY <1>5 DEF FailOver, Live, Lapsed, Barred
  <2>2. s \in OnRing /\ sessions[k].backend_id \notin OnRing
    BY <1>2, <1>5, GetServer DEF FailOver, BackendAlive
  <2>3. sessions' = [sessions EXCEPT ![k] = e]
    BY <1>5 DEF FailOver
  <2>4. /\ e \in SoundEntry
        /\ e.backend_id = s
        /\ ~e.blocked
        /\ ~isExpired(e)
    BY <1>1, <1>5, <2>1, <2>2, MovedSeen DEF Reason, FailOver
  <2>5. answer' = [key |-> k, status |-> "REASSIGNED", backend_id |-> s]
    BY <1>5 DEF FailOver
  <2> HIDE DEF e, s
  <2>6. /\ Bind' = [Bind EXCEPT ![k] = s]
        /\ Lapsed' = Lapsed /\ Barred' = Barred
    <3>1. /\ Bind' = [Bind EXCEPT ![k] = e.backend_id]
          /\ Lapsed' = IF isExpired(e) THEN Lapsed \cup {k} ELSE Lapsed \ {k}
          /\ Barred' = IF e.blocked THEN Barred \cup {k} ELSE Barred \ {k}
      BY <2>3, <2>4, WriteSeen
    <3> QED BY <2>1, <2>4, <3>1
  <2>7. Promise!Relocate(k, s)
    BY <1>1, <2>1, <2>2, <2>5, <2>6, BoundSeen DEF Promise!Relocate
  <2> QED BY <1>1, <2>2, <2>7 DEF Promise!Next
<1>6. CASE FailOverNowhere(k)
  <2>1. OnRing = {} /\ k \notin Lapsed /\ k \notin Barred
    BY <1>2, <1>6, GetServer DEF FailOverNowhere, Live, Lapsed, Barred
  <2>2. Bind' = Bind /\ Lapsed' = Lapsed /\ Barred' = Barred
    BY <1>6 DEF FailOverNowhere, Bind, Lapsed, Barred, Present
  <2>3. Promise!Fail(k)
    BY <1>1, <1>6, <2>1, <2>2 DEF FailOverNowhere, Promise!Fail
  <2> QED BY <2>3 DEF Promise!Next
<1>7. CASE Admit(k)
  <2> DEFINE s == getServer(k)
             e == NewEntry(s)
  <2>1. s \in OnRing /\ s \in Server
    BY <1>1, <1>2, <1>7, GetServer DEF Admit
  <2>2. /\ k \notin Barred
        /\ k \notin Promise!Bound \/ k \in Lapsed
    BY <1>7, BoundSeen DEF Admit, Vacant, Lapsed, Barred
  <2>3. /\ e \in SoundEntry /\ e \in SessionEntry
        /\ e.backend_id = s /\ ~e.blocked /\ e.idle = 0
    BY <2>1, FreshEntry DEF SoundEntry, NewEntry
  <2>4. sessions' = [sessions EXCEPT ![k] = e]
    BY <1>7 DEF Admit
  <2>5. answer' = [key |-> k, status |-> "SUCCESS", backend_id |-> s]
    BY <1>7 DEF Admit
  <2> HIDE DEF e, s
  <2>6. /\ Bind' = [Bind EXCEPT ![k] = s]
        /\ Lapsed' = Lapsed \ {k}
        /\ Barred' = Barred
    <3>1. /\ Bind' = [Bind EXCEPT ![k] = e.backend_id]
          /\ Lapsed' = IF isExpired(e) THEN Lapsed \cup {k} ELSE Lapsed \ {k}
          /\ Barred' = IF e.blocked THEN Barred \cup {k} ELSE Barred \ {k}
      BY <2>3, <2>4, WriteSeen
    <3>2. ~isExpired(e)
      BY <2>3, AccessedNow
    <3> QED BY <2>2, <2>3, <3>1, <3>2
  <2>7. Promise!Assign(k, s)
    BY <1>1, <2>1, <2>2, <2>5, <2>6 DEF Promise!Assign
  <2> QED BY <2>1, <2>7 DEF Promise!Next
<1>8. CASE AdmitNowhere(k)
  <2>1. OnRing = {} /\ k \notin Barred
    BY <1>2, <1>8, GetServer DEF AdmitNowhere, Vacant, Barred
  <2>2. sessions' = [j \in Key |-> IF j \in {k} THEN None ELSE sessions[j]]
    BY <1>8 DEF AdmitNowhere, Sound
  <2>3. /\ Bind' = [j \in Key |-> IF j \in {k} THEN None ELSE Bind[j]]
        /\ Lapsed' = Lapsed \ {k}
        /\ Barred' = Barred \ {k}
    BY <2>2, EraseSeen
  <2>4. Bind' = IF k \in Lapsed THEN [Bind EXCEPT ![k] = None] ELSE Bind
    <3>1. Bind \in [Key -> Server \cup {None}]
      BY DEF Bind, Present, Sound, SoundEntry, SessionEntry
    <3>2. k \notin Lapsed => Bind[k] = None
      BY <1>8 DEF AdmitNowhere, Vacant, Lapsed, Bind
    <3> QED BY <2>3, <3>1, <3>2
  <2>5. Promise!Fail(k)
    BY <1>1, <1>8, <2>1, <2>3, <2>4 DEF AdmitNowhere, Promise!Fail
  <2> QED BY <2>5 DEF Promise!Next
<1> QED BY <1>3, <1>4, <1>5, <1>6, <1>7, <1>8 DEF routeRequest
-----------------------------------------------------------------------------
(* The administrative operations are what the promise says of them.        *)
LEMMA AdministrationStep ==
  ASSUME Sound, NEW k \in Key,
         \/ forceReassign(k)
         \/ \E block \in BOOLEAN : blockSession(k, block)
         \/ \E t \in CustomTimeout : setSessionExpiry(k, t)
  PROVE  [Promise!Next]_(Promise!vars)
<1>1. OnRing' = OnRing /\ OnRing \subseteq Server /\ answer' = None
  BY MembersType
  DEF Sound, forceReassign, blockSession, setSessionExpiry, OnRing, RingTypeOK
<1>2. Present(k) /\ sessions[k] \in SoundEntry /\ sessions[k] \in SessionEntry
  BY BoundSeen DEF forceReassign, blockSession, setSessionExpiry
<1>3. k \in Promise!Bound /\ Bind[k] = sessions[k].backend_id
  BY <1>2, BoundSeen
<1>4. Bind \in [Key -> Server \cup {None}]
  BY DEF Bind, Present, Sound, SoundEntry, SessionEntry
<1>5. CASE forceReassign(k)
  <2> DEFINE s == ForcedTarget(k, sessions[k].backend_id)
             e == Moved(sessions[k], s, "forced")
  <2>1. sessions[k].backend_id \in Server /\ s >= 0
    BY <1>2, <1>5 DEF forceReassign, SessionEntry
  <2>2. s \in OnRing /\ s # sessions[k].backend_id
    BY <2>1, ForcedTargetOther DEF Sound
  <2>3. sessions' = [sessions EXCEPT ![k] = e]
    BY <1>5 DEF forceReassign
  <2> HIDE DEF s
  <2>4. /\ e \in SoundEntry
        /\ e.backend_id = s
        /\ e.blocked = sessions[k].blocked
        /\ ~isExpired(e)
    BY <1>1, <1>2, <2>2, MovedSeen DEF Reason
  <2> HIDE DEF e
  <2>5. /\ Bind' = [Bind EXCEPT ![k] = e.backend_id]
        /\ Lapsed' = IF isExpired(e) THEN Lapsed \cup {k} ELSE Lapsed \ {k}
        /\ Barred' = IF e.blocked THEN Barred \cup {k} ELSE Barred \ {k}
    BY <2>3, <2>4, WriteSeen
  <2>6. Barred' = Barred
    BY <1>2, <2>4, <2>5 DEF Barred
  <2>7. Promise!Override(k, s)
    BY <1>1, <1>3, <2>2, <2>4, <2>5, <2>6 DEF Promise!Override
  <2> QED BY <1>1, <2>2, <2>7 DEF Promise!Next
<1>6. ASSUME NEW block \in BOOLEAN, blockSession(k, block)
      PROVE  Promise!Bar(k, block)
  <2> DEFINE e == [sessions[k] EXCEPT !.blocked = block]
  <2>1. /\ e \in SoundEntry
        /\ e.backend_id = sessions[k].backend_id
        /\ e.blocked = block
        /\ isExpired(e) <=> isExpired(sessions[k])
    BY <1>2, FieldChange DEF SessionEntry, isExpired
  <2>2. sessions' = [sessions EXCEPT ![k] = e]
    BY <1>6 DEF blockSession
  <2> HIDE DEF e
  <2>3. /\ Bind' = [Bind EXCEPT ![k] = e.backend_id]
        /\ Lapsed' = IF isExpired(e) THEN Lapsed \cup {k} ELSE Lapsed \ {k}
        /\ Barred' = IF e.blocked THEN Barred \cup {k} ELSE Barred \ {k}
    BY <2>1, <2>2, WriteSeen
  <2>4. Bind' = Bind
    BY <1>3, <1>4, <2>1, <2>3
  <2>5. Lapsed' = Lapsed
    BY <1>2, <2>1, <2>3 DEF Lapsed
  <2> QED BY <1>1, <1>3, <2>1, <2>3, <2>4, <2>5 DEF Promise!Bar
<1>7. ASSUME NEW t \in CustomTimeout, setSessionExpiry(k, t)
      PROVE  Promise!Retime(k)
  <2> DEFINE e == [sessions[k] EXCEPT !.custom_timeout = t]
  <2>1. /\ e \in SoundEntry
        /\ e.backend_id = sessions[k].backend_id
        /\ e.blocked = sessions[k].blocked
    BY <1>2, FieldChange DEF SessionEntry
  <2>2. sessions' = [sessions EXCEPT ![k] = e]
    BY <1>7 DEF setSessionExpiry
  <2> HIDE DEF e
  <2>3. /\ Bind' = [Bind EXCEPT ![k] = e.backend_id]
        /\ Lapsed' = IF isExpired(e) THEN Lapsed \cup {k} ELSE Lapsed \ {k}
        /\ Barred' = IF e.blocked THEN Barred \cup {k} ELSE Barred \ {k}
    BY <2>1, <2>2, WriteSeen
  <2>4. Bind' = Bind
    BY <1>3, <1>4, <2>1, <2>3
  <2>5. Barred' = Barred
    BY <1>2, <2>1, <2>3 DEF Barred
  <2> QED BY <1>1, <1>3, <2>3, <2>4, <2>5 DEF Promise!Retime
<1> QED BY <1>5, <1>6, <1>7 DEF Promise!Next

(* An evacuation moves bindings of a server that is down to servers that   *)
(* are up, and nothing else.                                               *)
LEMMA EvacuationStep ==
  ASSUME Sound, NEW s \in Server, handleServerDown(s)
  PROVE  [Promise!Next]_(Promise!vars)
<1> DEFINE K == Stranded(s)
           dest == [k \in K |-> getServer(k)]
<1>1. OnRing' = OnRing /\ OnRing \subseteq Server /\ s \notin OnRing
  BY MembersType DEF Sound, handleServerDown, OnRing, RingTypeOK
<1>2. \A k \in K : /\ k \in Key /\ Present(k) /\ ~isExpired(sessions[k])
                   /\ sessions[k].backend_id = s
                   /\ getServer(k) \in OnRing /\ getServer(k) # s
  BY GetServer DEF Stranded, Live, Sound
<1>3. \A k \in Key : sessions'[k] = IF k \in K
                                   THEN Moved(sessions[k], getServer(k),
                                              "redistributed")
                                   ELSE sessions[k]
  BY DEF handleServerDown
<1> HIDE DEF K
<1>4. \A k \in K : /\ sessions'[k] # None
                   /\ sessions'[k].backend_id = getServer(k)
                   /\ sessions'[k].blocked = sessions[k].blocked
                   /\ ~isExpired(sessions'[k])
  <2> SUFFICES ASSUME NEW k \in K
               PROVE  /\ sessions'[k] # None
                      /\ sessions'[k].backend_id = getServer(k)
                      /\ sessions'[k].blocked = sessions[k].blocked
                      /\ ~isExpired(sessions'[k])
    OBVIOUS
  <2> DEFINE e == Moved(sessions[k], getServer(k), "redistributed")
  <2>1. /\ e \in SoundEntry
        /\ e.backend_id = getServer(k)
        /\ e.blocked = sessions[k].blocked
        /\ ~isExpired(e)
    BY <1>1, <1>2, MovedSeen DEF Reason
  <2>2. sessions'[k] = e
    BY <1>2, <1>3
  <2> HIDE DEF e
  <2> QED BY <2>1, <2>2, NoneAssumption DEF SoundEntry
<1>5. Bind' = [k \in Key |-> IF k \in K THEN dest[k] ELSE Bind[k]]
  <2>1. \A k \in Key :
           (IF Present(k)' THEN sessions'[k].backend_id ELSE None)
             = IF k \in K THEN dest[k] ELSE Bind[k]
    BY <1>3, <1>4 DEF Bind, Present
  <2> QED BY <2>1, Zenon DEF Bind
<1>6. Lapsed' = Lapsed
  BY <1>2, <1>3, <1>4 DEF Lapsed, Present, isExpired
<1>7. Barred' = Barred
  BY <1>2, <1>3, <1>4 DEF Barred, Present
<1>8. K \subseteq Promise!Bound \ Lapsed
  BY <1>2, BoundSeen DEF Lapsed
<1>9. \A k \in K : Bind[k] \notin OnRing
  BY <1>1, <1>2, BoundSeen
<1>10. Promise!Evacuate(K, dest)
  BY <1>1, <1>5, <1>6, <1>7, <1>8, <1>9
  DEF handleServerDown, Promise!Evacuate
<1>11. K \in SUBSET Key /\ dest \in [K -> OnRing]
  BY <1>2
<1> QED BY <1>10, <1>11 DEF Promise!Next

(* Time only ends bindings.                                                *)
LEMMA TickStep ==
  ASSUME Sound, Tick
  PROVE  [Promise!Next]_(Promise!vars)
<1>1. \A k \in Key : Present(k) =>
        /\ sessions'[k] # None
        /\ sessions'[k].backend_id = sessions[k].backend_id
        /\ sessions'[k].blocked = sessions[k].blocked
        /\ isExpired(sessions[k]) => isExpired(sessions'[k])
  <2> SUFFICES ASSUME NEW k \in Key, Present(k)
               PROVE  /\ sessions'[k] # None
                      /\ sessions'[k].backend_id = sessions[k].backend_id
                      /\ sessions'[k].blocked = sessions[k].blocked
                      /\ isExpired(sessions[k]) => isExpired(sessions'[k])
    OBVIOUS
  <2>1. sessions[k] \in SoundEntry /\ sessions[k] \in SessionEntry
    BY BoundSeen
  <2>2. CASE sessions[k].idle < MaxIdle
    <3> DEFINE e == [sessions[k] EXCEPT !.idle = @ + 1]
    <3>1. /\ e \in SoundEntry
          /\ e.backend_id = sessions[k].backend_id
          /\ e.blocked = sessions[k].blocked
          /\ e.custom_timeout = sessions[k].custom_timeout
          /\ e.idle = sessions[k].idle + 1
      BY <2>1, <2>2, FieldChange DEF SessionEntry
    <3>2. sessions'[k] = e
      BY <2>2 DEF Tick
    <3>3. sessions[k].idle \in Nat
      BY <2>1, TimeoutAssumption DEF SessionEntry
    <3>4. sessions[k].custom_timeout \in Int /\ DefaultTimeout \in Int
      BY <2>1, TimeoutType
    <3> HIDE DEF e
    <3>5. isExpired(sessions[k]) => isExpired(e)
      BY <3>1, <3>3, <3>4 DEF isExpired
    <3> QED BY <3>1, <3>2, <3>5, NoneAssumption DEF SoundEntry
  <2>3. CASE ~(sessions[k].idle < MaxIdle)
    BY <2>3 DEF Tick, Present
  <2> QED BY <2>2, <2>3
<1>2. \A k \in Key : ~Present(k) => sessions'[k] = None
  BY DEF Tick, Present
<1>3. Bind' = Bind
  <2>1. \A k \in Key :
           (IF Present(k)' THEN sessions'[k].backend_id ELSE None)
             = IF Present(k) THEN sessions[k].backend_id ELSE None
    BY <1>1, <1>2 DEF Present
  <2> QED BY <2>1, Zenon DEF Bind
<1>4. Barred' = Barred
  BY <1>1, <1>2 DEF Barred, Present
<1>5. Lapsed \subseteq Lapsed'
  BY <1>1 DEF Lapsed, Present, isExpired
<1>6. Lapsed' \in SUBSET Promise!Bound
  BY <1>2, BoundSeen DEF Lapsed, Present
<1>7. OnRing' = OnRing /\ answer' = None
  BY DEF Tick, OnRing
<1>8. Promise!Age
  BY <1>3, <1>4, <1>5, <1>6, <1>7 DEF Promise!Age
<1> QED BY <1>8 DEF Promise!Next

(* The session table implements the promise of session affinity.           *)
THEOREM KeepsPromiseHolds == Spec => KeepsPromise
<1>1. Init => Promise!Init
  BY DEF Init, RingInit, OnRing, Members, Bind, Lapsed, Barred, Present,
         Promise!Init
<1>2. ASSUME Sound, [Next]_vars
      PROVE  [Promise!Next]_(Promise!vars)
  <2>1. CASE \E k \in Key : routeRequest(k)
    BY <1>2, <2>1, RouteStep
  <2>2. CASE \/ \E k \in Key : forceReassign(k)
             \/ \E k \in Key, block \in BOOLEAN : blockSession(k, block)
             \/ \E k \in Key, t \in CustomTimeout : setSessionExpiry(k, t)
    BY <1>2, <2>2, AdministrationStep
  <2>3. CASE \E s \in Server : handleServerDown(s)
    BY <1>2, <2>3, EvacuationStep
  <2>4. CASE cleanupExpired
    <3>1. sessions' =
            [k \in Key |-> IF k \in Lapsed THEN None ELSE sessions[k]]
      BY <2>4 DEF cleanupExpired, Lapsed
    <3>2. Lapsed \in SUBSET Key
      BY DEF Lapsed
    <3>3. /\ Bind' = [k \in Key |-> IF k \in Lapsed THEN None ELSE Bind[k]]
          /\ Lapsed' = Lapsed \ Lapsed
          /\ Barred' = Barred \ Lapsed
      BY <1>2, <3>1, <3>2, EraseSeen
    <3>4. Promise!Purge
      BY <2>4, <3>3 DEF cleanupExpired, OnRing, Promise!Purge
    <3> QED BY <3>4 DEF Promise!Next
  <2>5. CASE Tick
    BY <1>2, <2>5, TickStep
  <2>6. CASE RingChange
    <3>1. OnRing' \in SUBSET Server
      BY <1>2, SoundStep, MembersType DEF Sound, OnRing, RingTypeOK
    <3>2. Bind' = Bind /\ Lapsed' = Lapsed /\ Barred' = Barred
      BY <2>6 DEF RingChange, Bind, Lapsed, Barred, Present
    <3>3. Promise!Resize
      BY <2>6, <3>1, <3>2 DEF RingChange, Promise!Resize
    <3> QED BY <3>3 DEF Promise!Next
  <2>7. CASE UNCHANGED vars
    BY <2>7 DEF vars, Promise!vars, OnRing, Bind, Lapsed, Barred, Present
  <2> QED
    BY <1>2, <2>1, <2>2, <2>3, <2>4, <2>5, <2>6, <2>7 DEF Next
<1> QED BY <1>1, <1>2, SoundTable, PTL DEF Spec, KeepsPromise, Promise!Spec
=============================================================================
