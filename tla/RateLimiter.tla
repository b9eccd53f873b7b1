---------------------------- MODULE RateLimiter ----------------------------
(***************************************************************************)
(* The per-client rate limiter (rate_limiter.cpp).  Each client has a      *)
(* queue of request records; allowRequest first pops the expired records   *)
(* from the front, then compares the queue's length with the limit, and    *)
(* records the request, allowed or not.  Every method holds the limiter's  *)
(* mutex: one step each.  A record has its age in ticks in place of its    *)
(* timestamp, counted up to Window + 1, which is expired.                  *)
(***************************************************************************)
EXTENDS Integers, Sequences, FiniteSets

CONSTANTS
  Client,        \* the client keys, FiveTuple::toKey()
  Window,        \* window_seconds_, in ticks
  MaxRequests,   \* max_requests_
  MaxQueue       \* bound: the longest queue explored

ASSUME LimiterAssumption ==
  /\ Window \in Nat
  /\ MaxRequests \in Nat
  /\ MaxQueue \in Nat

VARIABLES
  client_queues,   \* client_queues_: per client its records, oldest first
  verdict          \* the client and the verdict of the last allowRequest;
                   \* empty after any other step

vars == <<client_queues, verdict>>

Status == {"ALLOWED", "REJECTED"}

RequestRecord == [age : 0..(Window + 1), status : Status]

Expired(r) == r.age > Window

(* The loop of evictExpired pops from the front as long as the front is    *)
(* expired: ExpiredFront is the number of records it pops.                 *)
ExpiredFront(q) ==
  CHOOSE n \in 0..Len(q) :
    /\ \A i \in 1..n : Expired(q[i])
    /\ n < Len(q) => ~Expired(q[n + 1])

(* Mutant: if instead of while.                                            *)
evictOne(q) ==
  IF q # <<>> /\ Expired(q[1]) THEN SubSeq(q, 2, Len(q)) ELSE q

(* Mutant: a record exactly as old as the window is popped.                *)
evictEarly(q) ==
  IF q # <<>> /\ q[1].age >= Window THEN SubSeq(q, 2, Len(q)) ELSE q

evictExpired(q) ==
  [i \in 1..(Len(q) - ExpiredFront(q)) |-> q[i + ExpiredFront(q)]]

(* Mutant: the record is stamped ahead of the clock that expires it.       *)
RecordAhead(st) == [age |-> -1, status |-> st]

Record(st) == [age |-> 0, status |-> st]

(* Mutant: off by one at the limit.                                        *)
DecisionOffByOne(q) == IF Len(q) > MaxRequests THEN "REJECTED" ELSE "ALLOWED"

Decision(q) == IF Len(q) >= MaxRequests THEN "REJECTED" ELSE "ALLOWED"

allowRequest(c) ==
  LET q == evictExpired(client_queues[c])
  IN  /\ Len(q) < MaxQueue
      /\ client_queues' =
           [client_queues EXCEPT ![c] = Append(q, Record(Decision(q)))]
      /\ verdict' = <<c, Decision(q)>>

reset ==
  /\ client_queues' = [c \in Client |-> <<>>]
  /\ verdict' = <<>>

currentCount(c) == Len(client_queues[c])

Older(r) == [r EXCEPT !.age = IF @ <= Window THEN @ + 1 ELSE @]

(* The steady clock advances. *)
Tick ==
  /\ client_queues' =
       [c \in Client |->
          [i \in 1..Len(client_queues[c]) |-> Older(client_queues[c][i])]]
  /\ verdict' = <<>>
-----------------------------------------------------------------------------
Init ==
  /\ client_queues = [c \in Client |-> <<>>]
  /\ verdict = <<>>

Next == (\E c \in Client : allowRequest(c)) \/ Tick \/ reset

Spec == Init /\ [][Next]_vars
-----------------------------------------------------------------------------
(* Every queue is a sequence of records.                                   *)
TypeOK == client_queues \in [Client -> Seq(RequestRecord)]

(* The positions of the allowed requests of the last Window ticks.         *)
Granted(c) ==
  {i \in 1..Len(client_queues[c]) :
     client_queues[c][i].status = "ALLOWED" /\ ~Expired(client_queues[c][i])}

(* No queue ever holds more than MaxRequests allowed requests, wherever    *)
(* the window is put: rejected requests are recorded in the same queue and *)
(* never make room for one allowed too many (rate_limiter.h, "Maximum      *)
(* requests allowed in the window").                                       *)
WindowLimit == \A c \in Client : Cardinality(Granted(c)) <= MaxRequests

(* The queue is in order of age, so popping from the front is enough: once *)
(* a request has been decided, no record of its client is expired.         *)
EvictionComplete ==
  verdict # <<>> =>
    \A i \in 1..Len(client_queues[verdict[1]]) :
      ~Expired(client_queues[verdict[1]][i])
-----------------------------------------------------------------------------
(* The log of a client is its queue as its next request would find it.     *)
Exact == INSTANCE SlidingWindow WITH
  log <- [c \in Client |-> evictExpired(client_queues[c])]

(* Evicting lazily, at a client's next request, decides every request as   *)
(* an exact sliding window would: "Exact sliding window - no burst-at-     *)
(* boundary problem" (Session Affinity Engine.md, line 158).               *)
ImplementsSlidingWindow == Exact!Spec
=============================================================================
