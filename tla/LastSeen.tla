------------------------------ MODULE LastSeen ------------------------------
(***************************************************************************)
(* What spoof detection promises: for every subnet the hosts seen in the   *)
(* last Window ticks, each with the time since it was last seen, and a     *)
(* request is rejected if more than MaxHosts of them are on record once    *)
(* it has been noted.  Security.tla, which keeps one entry per request and *)
(* evicts lazily, implements this.                                         *)
(***************************************************************************)
EXTENDS Integers, FiniteSets

CONSTANTS Subnet, Host, Window, MaxHosts, NoVerdict

VARIABLES
  seen,      \* per subnet, the hosts in the window and how long ago
  verdict    \* the verdict on the last request

vars == <<seen, verdict>>

Noted(f, h) == [g \in DOMAIN f \cup {h} |-> IF g = h THEN 0 ELSE f[g]]

Aged(f) == [h \in {g \in DOMAIN f : f[g] < Window} |-> f[h] + 1]

Init ==
  /\ seen = [n \in Subnet |-> [h \in {} |-> 0]]
  /\ verdict = NoVerdict

Request(n, h) ==
  /\ seen' = [seen EXCEPT ![n] = Noted(@, h)]
  /\ verdict' = IF Cardinality(DOMAIN Noted(seen[n], h)) > MaxHosts
                THEN "spoofing" ELSE "valid"

(* A request that is not well formed is turned away without a trace.       *)
Malformed ==
  /\ verdict' \in {"payload", "tuple"}
  /\ UNCHANGED seen

Tick ==
  /\ seen' = [n \in Subnet |-> Aged(seen[n])]
  /\ verdict' = NoVerdict

Next == (\E n \in Subnet, h \in Host : Request(n, h)) \/ Malformed \/ Tick

Spec == Init /\ [][Next]_vars
=============================================================================
