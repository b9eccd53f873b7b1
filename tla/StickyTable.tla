---------------------------- MODULE StickyTable ----------------------------
(***************************************************************************)
(* The promise of session affinity, without time, history or the ring's    *)
(* choice of server: a key is bound to a server that was up when it was    *)
(* bound; the binding holds until it lapses, until its server goes down,   *)
(* or until an administrator overrides it; a barred key is refused.        *)
(* SessionManager.tla implements this specification.                       *)
(***************************************************************************)
EXTENDS Integers

CONSTANTS Server, Key, None, NoServer

VARIABLES
  up,       \* the servers that may be given work
  bind,     \* for each key, the server it is bound to, or None
  lapsed,   \* the keys whose binding has run out but is still on record
  barred,   \* the keys an administrator has blocked
  answer    \* the answer to the last request, None after any other step

vars == <<up, bind, lapsed, barred, answer>>

Bound == {k \in Key : bind[k] # None}

Answer ==
  [key : Key,
   status : {"SUCCESS", "REASSIGNED", "SESSION_BLOCKED", "SERVER_DOWN"},
   backend_id : Server \cup {NoServer}]

TypeOK ==
  /\ up \subseteq Server
  /\ bind \in [Key -> Server \cup {None}]
  /\ lapsed \subseteq Bound
  /\ barred \subseteq Bound
  /\ answer \in Answer \cup {None}

Reply(k, st, s) ==
  answer' = [key |-> k, status |-> st, backend_id |-> s]

Init ==
  /\ up = {}
  /\ bind = [k \in Key |-> None]
  /\ lapsed = {}
  /\ barred = {}
  /\ answer = None
-----------------------------------------------------------------------------
(* Requests. *)

Refuse(k) ==
  /\ k \in barred
  /\ Reply(k, "SESSION_BLOCKED", NoServer)
  /\ UNCHANGED <<up, bind, lapsed, barred>>

Keep(k) ==
  /\ k \in Bound \ (lapsed \cup barred)
  /\ bind[k] \in up
  /\ Reply(k, "SUCCESS", bind[k])
  /\ UNCHANGED <<up, bind, lapsed, barred>>

Relocate(k, s) ==
  /\ k \in Bound \ (lapsed \cup barred)
  /\ bind[k] \notin up
  /\ s \in up
  /\ bind' = [bind EXCEPT ![k] = s]
  /\ Reply(k, "REASSIGNED", s)
  /\ UNCHANGED <<up, lapsed, barred>>

Assign(k, s) ==
  /\ k \notin barred
  /\ k \notin Bound \/ k \in lapsed
  /\ s \in up
  /\ bind' = [bind EXCEPT ![k] = s]
  /\ lapsed' = lapsed \ {k}
  /\ Reply(k, "SUCCESS", s)
  /\ UNCHANGED <<up, barred>>

Fail(k) ==
  /\ k \notin barred
  /\ up = {}
  /\ bind' = IF k \in lapsed THEN [bind EXCEPT ![k] = None] ELSE bind
  /\ lapsed' = lapsed \ {k}
  /\ Reply(k, "SERVER_DOWN", NoServer)
  /\ UNCHANGED <<up, barred>>
-----------------------------------------------------------------------------
(* Everything else. *)

Override(k, s) ==
  /\ k \in Bound
  /\ s \in up \ {bind[k]}
  /\ bind' = [bind EXCEPT ![k] = s]
  /\ lapsed' = lapsed \ {k}
  /\ answer' = None
  /\ UNCHANGED <<up, barred>>

Bar(k, B) ==
  /\ k \in Bound
  /\ barred' = IF B THEN barred \cup {k} ELSE barred \ {k}
  /\ answer' = None
  /\ UNCHANGED <<up, bind, lapsed>>

(* A change of one key's timeout can end its binding, or revive it.        *)
Retime(k) ==
  /\ k \in Bound
  /\ lapsed' \in {lapsed \cup {k}, lapsed \ {k}}
  /\ answer' = None
  /\ UNCHANGED <<up, bind, barred>>

(* The bindings of a server that is down move to servers that are up.      *)
Evacuate(K, dest) ==
  /\ K \subseteq Bound \ lapsed
  /\ \A k \in K : bind[k] \notin up
  /\ bind' = [k \in Key |-> IF k \in K THEN dest[k] ELSE bind[k]]
  /\ answer' = None
  /\ UNCHANGED <<up, lapsed, barred>>

(* Bindings that have lapsed are dropped, and what was barred with them.   *)
Purge ==
  /\ bind' = [k \in Key |-> IF k \in lapsed THEN None ELSE bind[k]]
  /\ lapsed' = {}
  /\ barred' = barred \ lapsed
  /\ answer' = None
  /\ UNCHANGED up

Age ==
  /\ lapsed' \in {lapsed \cup L : L \in SUBSET Bound}
  /\ answer' = None
  /\ UNCHANGED <<up, bind, barred>>

Resize ==
  /\ up' \in SUBSET Server
  /\ answer' = None
  /\ UNCHANGED <<bind, lapsed, barred>>
-----------------------------------------------------------------------------
Next ==
  \/ \E k \in Key : Refuse(k) \/ Keep(k) \/ Fail(k) \/ Retime(k)
  \/ \E k \in Key, s \in Server :
       Relocate(k, s) \/ Assign(k, s) \/ Override(k, s)
  \/ \E k \in Key, B \in BOOLEAN : Bar(k, B)
  \/ \E K \in SUBSET Key : \E dest \in [K -> up] : Evacuate(K, dest)
  \/ Purge
  \/ Age
  \/ Resize

Spec == Init /\ [][Next]_vars
=============================================================================
