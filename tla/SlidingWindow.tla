--------------------------- MODULE SlidingWindow ---------------------------
(***************************************************************************)
(* What an exact sliding-window limiter promises: each client has the log  *)
(* of its requests of the last Window ticks, entries leave the log at the  *)
(* moment they become older than that, and a request is allowed if the log *)
(* has fewer than MaxRequests entries.  RateLimiter.tla, which evicts only *)
(* when the client's next request arrives, implements this.                *)
(***************************************************************************)
EXTENDS Integers, Sequences, FiniteSets

CONSTANTS Client, Window, MaxRequests

VARIABLES
  log,       \* per client, its requests in the window, oldest first
  verdict    \* the verdict on the last request, and whose it was

vars == <<log, verdict>>

(* The entries of q that are in the window, in their order. *)
Young(q) ==
  LET young == {i \in 1..Len(q) : q[i].age <= Window}
      Nth(n) == CHOOSE i \in young :
                  Cardinality({j \in young : j <= i}) = n
  IN  [n \in 1..Cardinality(young) |-> q[Nth(n)]]

Aged(q) == [i \in 1..Len(q) |-> [q[i] EXCEPT !.age = @ + 1]]

Init ==
  /\ log = [c \in Client |-> <<>>]
  /\ verdict = <<>>

Request(c) ==
  LET st == IF Len(log[c]) < MaxRequests THEN "ALLOWED" ELSE "REJECTED"
  IN  /\ log' = [log EXCEPT ![c] = Append(@, [age |-> 0, status |-> st])]
      /\ verdict' = <<c, st>>

Tick ==
  /\ log' = [c \in Client |-> Young(Aged(log[c]))]
  /\ verdict' = <<>>

Reset ==
  /\ log' = [c \in Client |-> <<>>]
  /\ verdict' = <<>>

Next == (\E c \in Client : Request(c)) \/ Tick \/ Reset

Spec == Init /\ [][Next]_vars
=============================================================================
