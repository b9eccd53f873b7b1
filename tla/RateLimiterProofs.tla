------------------------- MODULE RateLimiterProofs -------------------------
(***************************************************************************)
(* Proofs about the rate limiter, for every window, limit and number of    *)
(* clients.                                                                *)
(***************************************************************************)
EXTENDS RateLimiter, ListTheorems, FiniteSetTheorems

(* The records of a queue are in order of age, and the allowed ones are    *)
(* all among its first MaxRequests: popping only moves them forward, and a *)
(* new one is pushed only onto a queue shorter than that.                  *)
Ordered(q) ==
  \A i, j \in 1..Len(q) : i <= j => q[i].age >= q[j].age

AllowedFirst(q) ==
  \A i \in 1..Len(q) : q[i].status = "ALLOWED" => i <= MaxRequests

SoundQueue == {q \in Seq(RequestRecord) : Ordered(q) /\ AllowedFirst(q)}

Inv ==
  /\ client_queues \in [Client -> SoundQueue]
  /\ verdict # <<>> => verdict[1] \in Client

(* The ages of a queue are numbers.                                        *)
LEMMA RecordAge ==
  ASSUME NEW q \in Seq(RequestRecord), NEW i \in 1..Len(q)
  PROVE  q[i] \in RequestRecord /\ q[i].age \in Nat
<1>1. q[i] \in RequestRecord
  OBVIOUS
<1>2. \A r \in RequestRecord : r.age \in 0..(Window + 1)
  BY DEF RequestRecord
<1>3. 0..(Window + 1) \subseteq Nat
  BY LimiterAssumption
<1> QED BY <1>1, <1>2, <1>3

(* The loop of evictExpired stops: at the first young record or the end.   *)
LEMMA EvictionStops ==
  ASSUME NEW q \in Seq(RequestRecord)
  PROVE  /\ ExpiredFront(q) \in 0..Len(q)
         /\ \A i \in 1..ExpiredFront(q) : Expired(q[i])
         /\ ExpiredFront(q) < Len(q) => ~Expired(q[ExpiredFront(q) + 1])
<1> DEFINE E == {i \in 1..Len(q) : Expired(q[i])}
<1>1. Len(q) \in Nat
  OBVIOUS
<1>2. \E n \in 0..Len(q) :
        /\ \A i \in 1..n : i \in E
        /\ n < Len(q) => n + 1 \notin E
  BY <1>1, ScanStops
<1>3. \E n \in 0..Len(q) :
        /\ \A i \in 1..n : Expired(q[i])
        /\ n < Len(q) => ~Expired(q[n + 1])
  BY <1>1, <1>2
<1> QED BY <1>3 DEF ExpiredFront

(* After eviction the queue is sound and none of its records is expired.   *)
LEMMA EvictedQueue ==
  ASSUME NEW q \in SoundQueue
  PROVE  /\ evictExpired(q) \in SoundQueue
         /\ \A i \in 1..Len(evictExpired(q)) : ~Expired(evictExpired(q)[i])
<1> DEFINE n == ExpiredFront(q)
           p == evictExpired(q)
<1>1. /\ q \in Seq(RequestRecord) /\ Len(q) \in Nat
      /\ Ordered(q) /\ AllowedFirst(q)
  BY DEF SoundQueue
<1>2. n \in 0..Len(q) /\ (n < Len(q) => ~Expired(q[n + 1]))
  BY <1>1, EvictionStops
<1> HIDE DEF n
<1>3. /\ p \in Seq(RequestRecord)
      /\ Len(p) = Len(q) - n
      /\ \A i \in 1..(Len(q) - n) : p[i] = q[i + n] /\ i + n \in 1..Len(q)
  <2>1. Len(q) - n \in Nat
    BY <1>1, <1>2
  <2>2. \A i \in 1..(Len(q) - n) : i + n \in 1..Len(q)
    BY <1>1, <1>2
  <2>3. p = [i \in 1..(Len(q) - n) |-> q[i + n]]
    BY DEF evictExpired, n
  <2>4. p \in [1..(Len(q) - n) -> RequestRecord]
    BY <1>1, <2>2, <2>3
  <2> QED BY <2>1, <2>2, <2>3, <2>4
<1> HIDE DEF p
<1>4. Ordered(p)
  <2> SUFFICES ASSUME NEW i \in 1..Len(p), NEW j \in 1..Len(p), i <= j
               PROVE  p[i].age >= p[j].age
    BY DEF Ordered
  <2>1. /\ i + n \in 1..Len(q) /\ j + n \in 1..Len(q) /\ i + n <= j + n
        /\ p[i] = q[i + n] /\ p[j] = q[j + n]
    BY <1>1, <1>2, <1>3
  <2> QED BY <1>1, <2>1 DEF Ordered
<1>5. AllowedFirst(p)
  <2> SUFFICES ASSUME NEW i \in 1..Len(p), p[i].status = "ALLOWED"
               PROVE  i <= MaxRequests
    BY DEF AllowedFirst
  <2>1. i + n <= MaxRequests
    BY <1>1, <1>3 DEF AllowedFirst
  <2> QED BY <1>1, <1>2, <1>3, <2>1, LimiterAssumption
<1>6. \A i \in 1..Len(p) : ~Expired(p[i])
  <2> SUFFICES ASSUME NEW i \in 1..Len(p)
               PROVE  ~Expired(p[i])
    OBVIOUS
  <2>1. /\ n + 1 \in 1..Len(q) /\ i + n \in 1..Len(q) /\ n + 1 <= i + n
        /\ p[i] = q[i + n] /\ n < Len(q)
    BY <1>1, <1>2, <1>3
  <2>2. q[n + 1].age >= q[i + n].age
    BY <1>1, <2>1 DEF Ordered
  <2>3. q[n + 1].age \in Int /\ q[i + n].age \in Int
    BY <1>1, <2>1, RecordAge
  <2>4. ~Expired(q[n + 1])
    BY <1>2, <2>1
  <2> QED BY <2>1, <2>2, <2>3, <2>4, LimiterAssumption DEF Expired
<1> QED BY <1>3, <1>4, <1>5, <1>6 DEF SoundQueue, p

(* Recording a decision on a queue of young records keeps it sound.        *)
LEMMA RecordedQueue ==
  ASSUME NEW p \in SoundQueue, \A i \in 1..Len(p) : ~Expired(p[i])
  PROVE  LET g == Append(p, Record(Decision(p)))
         IN  g \in SoundQueue /\ \A i \in 1..Len(g) : ~Expired(g[i])
<1> DEFINE r == Record(Decision(p))
           g == Append(p, r)
<1>1. /\ p \in Seq(RequestRecord) /\ Len(p) \in Nat
      /\ Ordered(p) /\ AllowedFirst(p)
  BY DEF SoundQueue
<1>2. /\ r \in RequestRecord /\ r.age = 0
      /\ r.status = "ALLOWED" => Len(p) < MaxRequests
  BY <1>1, LimiterAssumption DEF Record, Decision, RequestRecord, Status
<1> HIDE DEF r
<1>3. /\ g \in Seq(RequestRecord)
      /\ Len(g) = Len(p) + 1
      /\ \A i \in 1..Len(p) : g[i] = p[i]
      /\ g[Len(p) + 1] = r
  BY <1>1, <1>2
<1>4. \A i \in 1..Len(p) : p[i].age \in Nat
  BY <1>1, RecordAge
<1> HIDE DEF g
<1>5. Ordered(g)
  BY <1>1, <1>2, <1>3, <1>4 DEF Ordered
<1>6. AllowedFirst(g)
  BY <1>1, <1>2, <1>3, LimiterAssumption DEF AllowedFirst
<1>7. ~Expired(r)
  BY <1>2, LimiterAssumption DEF Expired
<1>8. \A i \in 1..Len(g) : ~Expired(g[i])
  BY <1>1, <1>3, <1>7
<1> QED BY <1>3, <1>5, <1>6, <1>8 DEF SoundQueue, g, r

(* The clock ages all records of a queue alike.                            *)
LEMMA AgedQueue ==
  ASSUME NEW q \in SoundQueue
  PROVE  [i \in 1..Len(q) |-> Older(q[i])] \in SoundQueue
<1> DEFINE g == [i \in 1..Len(q) |-> Older(q[i])]
<1>1. /\ q \in Seq(RequestRecord) /\ Len(q) \in Nat
      /\ Ordered(q) /\ AllowedFirst(q)
  BY DEF SoundQueue
<1>2. ASSUME NEW r \in RequestRecord
      PROVE  /\ Older(r) \in RequestRecord
             /\ Older(r).status = r.status
             /\ Older(r).age = IF r.age <= Window THEN r.age + 1 ELSE r.age
  BY LimiterAssumption DEF Older, RequestRecord
<1>3. \A i \in 1..Len(q) : q[i] \in RequestRecord /\ q[i].age \in Nat
  BY <1>1, RecordAge
<1>4. g \in Seq(RequestRecord) /\ Len(g) = Len(q)
  <2>1. g \in [1..Len(q) -> RequestRecord]
    BY <1>2, <1>3
  <2> QED BY <1>1, <2>1
<1>5. \A i \in 1..Len(q) : g[i] = Older(q[i])
  OBVIOUS
<1> HIDE DEF g
<1>6. Ordered(g)
  <2> SUFFICES ASSUME NEW i \in 1..Len(q), NEW j \in 1..Len(q), i <= j
               PROVE  g[i].age >= g[j].age
    BY <1>4 DEF Ordered
  <2>1. q[i].age >= q[j].age
    BY <1>1 DEF Ordered
  <2>2. /\ g[i].age = IF q[i].age <= Window THEN q[i].age + 1 ELSE q[i].age
        /\ g[j].age = IF q[j].age <= Window THEN q[j].age + 1 ELSE q[j].age
    BY <1>2, <1>3, <1>5
  <2>3. q[i].age \in Nat /\ q[j].age \in Nat
    BY <1>3
  <2> QED BY <2>1, <2>2, <2>3, LimiterAssumption
<1>7. AllowedFirst(g)
  BY <1>1, <1>2, <1>3, <1>4, <1>5 DEF AllowedFirst
<1> QED BY <1>4, <1>6, <1>7 DEF SoundQueue, g

(* A client's queue is empty at first, and every step keeps it sound.      *)
LEMMA InvInductive == Spec => []Inv
<1>1. <<>> \in SoundQueue
  BY DEF SoundQueue, Ordered, AllowedFirst
<1>2. Init => Inv
  BY <1>1 DEF Init, Inv
<1>3. ASSUME Inv, [Next]_vars PROVE Inv'
  <2>1. ASSUME NEW c \in Client, allowRequest(c) PROVE Inv'
    <3> DEFINE p == evictExpired(client_queues[c])
               g == Append(p, Record(Decision(p)))
    <3>1. g \in SoundQueue
      BY <1>3, EvictedQueue, RecordedQueue DEF Inv
    <3>2. client_queues' = [client_queues EXCEPT ![c] = g]
      BY <2>1 DEF allowRequest
    <3>3. verdict'[1] \in Client
      BY <2>1 DEF allowRequest
    <3> HIDE DEF g
    <3> QED BY <1>3, <3>1, <3>2, <3>3 DEF Inv
  <2>2. CASE Tick
    BY <1>3, <2>2, AgedQueue DEF Tick, Inv
  <2>3. CASE reset
    BY <1>1, <2>3 DEF reset, Inv
  <2>4. CASE UNCHANGED vars
    BY <1>3, <2>4 DEF vars, Inv
  <2> QED BY <1>3, <2>1, <2>2, <2>3, <2>4 DEF Next
<1> QED BY <1>2, <1>3, PTL DEF Spec

(* The type invariant of the limiter.                                      *)
THEOREM TypeCorrect == Spec => []TypeOK
<1>1. Inv => TypeOK
  BY DEF Inv, SoundQueue, TypeOK
<1> QED BY <1>1, InvInductive, PTL

(* No window of the clock sees more than MaxRequests allowed requests of   *)
(* one client.                                                             *)
THEOREM WindowLimitHolds == Spec => []WindowLimit
<1>1. ASSUME Inv, NEW c \in Client
      PROVE  Cardinality(Granted(c)) <= MaxRequests
  <2> DEFINE q == client_queues[c]
  <2>1. q \in Seq(RequestRecord) /\ Len(q) \in Nat /\ AllowedFirst(q)
    BY <1>1 DEF Inv, SoundQueue
  <2>2. Granted(c) \subseteq 1..MaxRequests
    BY <2>1, LimiterAssumption DEF Granted, AllowedFirst
  <2>3. /\ IsFiniteSet(1..MaxRequests)
        /\ Cardinality(1..MaxRequests) = MaxRequests
    BY LimiterAssumption, FS_Interval
  <2> QED BY <2>2, <2>3, FS_Subset
<1>2. Inv => WindowLimit
  BY <1>1 DEF WindowLimit
<1> QED BY <1>2, InvInductive, PTL

(* The front of the queue is all that has to be looked at: after a         *)
(* decision no record of the client is expired.                            *)
THEOREM EvictionCompleteHolds == Spec => []EvictionComplete
<1>1. Init => EvictionComplete
  BY DEF Init, EvictionComplete
<1>2. ASSUME Inv, EvictionComplete, [Next]_vars
      PROVE  EvictionComplete'
  <2>1. ASSUME NEW c \in Client, allowRequest(c) PROVE EvictionComplete'
    <3> DEFINE p == evictExpired(client_queues[c])
               g == Append(p, Record(Decision(p)))
    <3>1. \A i \in 1..Len(g) : ~Expired(g[i])
      BY <1>2, EvictedQueue, RecordedQueue DEF Inv
    <3>2. client_queues'[c] = g
      BY <1>2, <2>1 DEF allowRequest, Inv
    <3>3. verdict'[1] = c
      BY <2>1 DEF allowRequest
    <3> HIDE DEF g
    <3> QED BY <3>1, <3>2, <3>3 DEF EvictionComplete
  <2>2. CASE Tick \/ reset
    BY <2>2 DEF Tick, reset, EvictionComplete
  <2>3. CASE UNCHANGED vars
    BY <1>2, <2>3 DEF vars, EvictionComplete
  <2> QED BY <1>2, <2>1, <2>2, <2>3 DEF Next
<1> QED BY <1>1, <1>2, InvInductive, PTL DEF Spec
-----------------------------------------------------------------------------
(* The exact sliding window. *)

(* Where the loop stops is the only place where the front is young and     *)
(* everything before it is expired.                                        *)
LEMMA OneFront ==
  ASSUME NEW q \in Seq(RequestRecord), NEW n \in 0..Len(q),
         \A i \in 1..n : Expired(q[i]),
         n < Len(q) => ~Expired(q[n + 1])
  PROVE  ExpiredFront(q) = n
<1> DEFINE m == ExpiredFront(q)
<1>1. /\ m \in 0..Len(q) /\ Len(q) \in Nat
      /\ \A i \in 1..m : Expired(q[i])
      /\ m < Len(q) => ~Expired(q[m + 1])
  BY EvictionStops
<1> HIDE DEF m
<1>2. ~(n < m)
  <2> SUFFICES ASSUME n < m PROVE FALSE
    OBVIOUS
  <2>1. n + 1 \in 1..m /\ n < Len(q)
    BY <1>1
  <2> QED BY <1>1, <2>1
<1>3. ~(m < n)
  <2> SUFFICES ASSUME m < n PROVE FALSE
    OBVIOUS
  <2>1. m + 1 \in 1..n /\ m < Len(q)
    BY <1>1
  <2> QED BY <1>1, <2>1
<1> QED BY <1>1, <1>2, <1>3 DEF m

(* What the loop leaves is the rest of the queue. *)
LEMMA Evicted ==
  ASSUME NEW q \in Seq(RequestRecord), NEW n \in 0..Len(q), ExpiredFront(q) = n
  PROVE  /\ evictExpired(q) = [i \in 1..(Len(q) - n) |-> q[i + n]]
         /\ evictExpired(q) \in Seq(RequestRecord)
         /\ Len(evictExpired(q)) = Len(q) - n
         /\ \A i \in 1..(Len(q) - n) :
              evictExpired(q)[i] = q[i + n] /\ i + n \in 1..Len(q)
<1> DEFINE p == [i \in 1..(Len(q) - n) |-> q[i + n]]
<1>1. evictExpired(q) = p
  BY DEF evictExpired
<1>2. Len(q) - n \in Nat /\ \A i \in 1..(Len(q) - n) : i + n \in 1..Len(q)
  OBVIOUS
<1>3. p \in [1..(Len(q) - n) -> RequestRecord]
  BY <1>2
<1> QED BY <1>1, <1>2, <1>3

(* A queue of young records is left as it is. *)
LEMMA NothingToEvict ==
  ASSUME NEW q \in Seq(RequestRecord), \A i \in 1..Len(q) : ~Expired(q[i])
  PROVE  evictExpired(q) = q
<1>1. Len(q) \in Nat
  OBVIOUS
<1>2. 0 \in 0..Len(q) /\ (0 < Len(q) => ~Expired(q[0 + 1]))
  BY <1>1
<1>3. ExpiredFront(q) = 0
  BY <1>2, OneFront
<1>4. evictExpired(q) = [i \in 1..Len(q) |-> q[i]]
  BY <1>1, <1>3 DEF evictExpired
<1> QED BY <1>4

(* The instance counts as this module does. *)
LEMMA SameCardinality == \A S : Exact!Cardinality(S) = Cardinality(S)
BY DEF Exact!Cardinality, Cardinality

(* Of a queue in order of age, the front that has expired is everything    *)
(* that has: the loop leaves what a filter would.                          *)
LEMMA YoungIsEvicted ==
  ASSUME NEW q \in Seq(RequestRecord), Ordered(q)
  PROVE  Exact!Young(q) = evictExpired(q)
<1> DEFINE n == ExpiredFront(q)
           young == {i \in 1..Len(q) : q[i].age <= Window}
           Upto(i) == {j \in young : j <= i}
           Nth(k) == CHOOSE i \in young :
                       Exact!Cardinality({j \in young : j <= i}) = k
<1>1. /\ n \in 0..Len(q) /\ Len(q) \in Nat
      /\ \A i \in 1..n : Expired(q[i])
      /\ n < Len(q) => ~Expired(q[n + 1])
  BY EvictionStops
<1>2. \A i \in 1..Len(q) : q[i].age \in Nat
  BY RecordAge
<1> HIDE DEF n
<1>3. young = (n + 1)..Len(q)
  <2>1. ASSUME NEW i \in young
        PROVE  i \in (n + 1)..Len(q)
    BY <1>1, <1>2, <2>1, LimiterAssumption DEF Expired
  <2>2. ASSUME NEW i \in (n + 1)..Len(q)
        PROVE  i \in young
    <3>1. /\ n + 1 \in 1..Len(q) /\ i \in 1..Len(q) /\ n + 1 <= i
          /\ n < Len(q)
      BY <1>1
    <3>2. q[n + 1].age >= q[i].age
      BY <3>1 DEF Ordered
    <3> QED BY <1>1, <1>2, <3>1, <3>2, LimiterAssumption DEF Expired
  <2> QED BY <2>1, <2>2
<1> HIDE DEF young
<1>4. ASSUME NEW i \in young
      PROVE  Exact!Cardinality(Upto(i)) = i - n
  <2>1. Upto(i) = (n + 1)..i /\ i \in Int /\ i >= n + 1 /\ n + 1 \in Int
    BY <1>1, <1>3
  <2>2. Cardinality((n + 1)..i) = i - (n + 1) + 1
    BY <2>1, FS_Interval
  <2>3. Exact!Cardinality(Upto(i)) = Cardinality(Upto(i))
    BY SameCardinality
  <2>4. i - (n + 1) + 1 = i - n
    BY <1>1, <2>1
  <2> HIDE DEF Upto
  <2> QED BY <2>1, <2>2, <2>3, <2>4
<1>5. Exact!Cardinality(young) = Len(q) - n
  <2>1. n + 1 \in Int /\ Len(q) \in Int
    BY <1>1
  <2>2. Cardinality((n + 1)..Len(q)) =
          IF n + 1 > Len(q) THEN 0 ELSE Len(q) - (n + 1) + 1
    BY <2>1, FS_Interval
  <2>3. Cardinality((n + 1)..Len(q)) = Len(q) - n
    BY <1>1, <2>2
  <2> QED BY <1>3, <2>3, SameCardinality
<1>6. ASSUME NEW k \in 1..(Len(q) - n)
      PROVE  Nth(k) = k + n
  <2>1. k + n \in young /\ Exact!Cardinality(Upto(k + n)) = k
    <3> DEFINE i == k + n
    <3>1. i \in young /\ i - n = k
      BY <1>1, <1>3
    <3> HIDE DEF i, Upto
    <3>2. Exact!Cardinality(Upto(i)) = i - n
      BY <3>1, <1>4
    <3> QED BY <3>1, <3>2 DEF i
  <2>2. Nth(k) \in young /\ Exact!Cardinality(Upto(Nth(k))) = k
    BY <2>1
  <2> QED BY <1>1, <1>3, <1>4, <2>2
<1>7. Exact!Young(q) = [k \in 1..(Len(q) - n) |-> q[Nth(k)]]
  BY <1>5 DEF Exact!Young, young, Nth
<1> HIDE DEF Nth
<1> QED BY <1>6, <1>7 DEF evictExpired, n

(* Evicting before the clock advances as well makes no difference: what is *)
(* expired stays expired, and the log ages as the queue does.              *)
LEMMA EvictedLater ==
  ASSUME NEW q \in SoundQueue
  PROVE  evictExpired([i \in 1..Len(q) |-> Older(q[i])])
           = Exact!Young(Exact!Aged(evictExpired(q)))
<1> DEFINE n == ExpiredFront(q)
           p == evictExpired(q)
           old == [i \in 1..Len(q) |-> Older(q[i])]
           aged == Exact!Aged(p)
<1>1. /\ q \in Seq(RequestRecord) /\ Len(q) \in Nat
      /\ n \in 0..Len(q) /\ \A i \in 1..n : Expired(q[i])
  BY EvictionStops DEF SoundQueue
<1>2. /\ p \in SoundQueue /\ p \in Seq(RequestRecord)
      /\ Len(p) = Len(q) - n
      /\ \A i \in 1..(Len(q) - n) : p[i] = q[i + n] /\ i + n \in 1..Len(q)
      /\ \A i \in 1..Len(p) : ~Expired(p[i])
  BY <1>1, Evicted, EvictedQueue
<1> HIDE DEF n, p
<1>3. /\ old \in SoundQueue /\ old \in Seq(RequestRecord)
      /\ Len(old) = Len(q)
      /\ \A i \in 1..Len(q) : old[i] = Older(q[i])
  BY <1>1, AgedQueue DEF SoundQueue
<1>4. aged = [i \in 1..Len(p) |-> Older(p[i])]
  <2>1. ASSUME NEW i \in 1..Len(p)
        PROVE  [p[i] EXCEPT !.age = @ + 1] = Older(p[i])
    <3>1. p[i] \in RequestRecord /\ ~Expired(p[i]) /\ p[i].age \in Nat
      BY <1>2, RecordAge
    <3> QED BY <3>1, LimiterAssumption DEF Older, Expired
  <2> QED BY <2>1 DEF Exact!Aged
<1>5. /\ aged \in SoundQueue /\ aged \in Seq(RequestRecord) /\ Ordered(aged)
      /\ Len(aged) = Len(q) - n
      /\ \A i \in 1..(Len(q) - n) : aged[i] = Older(p[i])
  BY <1>1, <1>2, <1>4, AgedQueue DEF SoundQueue
<1> HIDE DEF old, aged
<1>6. \A i \in 1..(Len(q) - n) :
        i + n \in 1..Len(q) /\ aged[i] = old[i + n]
  BY <1>2, <1>3, <1>5
<1>7. \A i \in 1..n : Expired(old[i])
  <2> SUFFICES ASSUME NEW i \in 1..n PROVE Expired(old[i])
    OBVIOUS
  <2>1. i \in 1..Len(q) /\ q[i].age > Window
    BY <1>1 DEF Expired
  <2>2. Older(q[i]) = q[i]
    <3>1. q[i] \in RequestRecord /\ q[i].age \in Nat
      BY <1>1, <2>1, RecordAge
    <3> QED BY <2>1, <3>1, LimiterAssumption DEF Older, RequestRecord
  <2> QED BY <1>3, <2>1, <2>2 DEF Expired
<1> DEFINE m == ExpiredFront(aged)
<1>8. /\ m \in 0..(Len(q) - n)
      /\ \A i \in 1..m : Expired(aged[i])
      /\ m < Len(q) - n => ~Expired(aged[m + 1])
  BY <1>5, EvictionStops
<1> HIDE DEF m
<1>9. ExpiredFront(old) = n + m
  <2>1. n + m \in 0..Len(old)
    BY <1>1, <1>3, <1>8
  <2>2. ASSUME NEW i \in 1..(n + m) PROVE Expired(old[i])
    <3>1. CASE i \in 1..n
      BY <1>7, <3>1
    <3>2. CASE i \notin 1..n
      <4>1. i - n \in 1..m /\ i - n \in 1..(Len(q) - n) /\ i - n + n = i
        BY <1>1, <1>8, <3>2
      <4> QED BY <1>6, <1>8, <4>1
    <3> QED BY <3>1, <3>2
  <2>3. ASSUME n + m < Len(old) PROVE ~Expired(old[n + m + 1])
    <3>1. /\ m < Len(q) - n /\ m + 1 \in 1..(Len(q) - n)
          /\ m + 1 + n = n + m + 1
      BY <1>1, <1>3, <1>8, <2>3
    <3> QED BY <1>6, <1>8, <3>1
  <2> QED BY <1>3, <2>1, <2>2, <2>3, OneFront
<1>10. evictExpired(old) = evictExpired(aged)
  <2>1. evictExpired(aged) = [i \in 1..(Len(q) - n - m) |-> aged[i + m]]
    BY <1>5 DEF evictExpired, m
  <2>2. evictExpired(old) = [i \in 1..(Len(q) - (n + m)) |-> old[i + (n + m)]]
    BY <1>3, <1>9 DEF evictExpired
  <2>3. Len(q) - n - m = Len(q) - (n + m)
    BY <1>1, <1>8
  <2>4. \A i \in 1..(Len(q) - (n + m)) :
          /\ i + m \in 1..(Len(q) - n)
          /\ i + (n + m) = (i + m) + n
    BY <1>1, <1>8
  <2>5. \A i \in 1..(Len(q) - (n + m)) : aged[i + m] = old[i + (n + m)]
    BY <1>6, <2>4
  <2> QED BY <2>1, <2>2, <2>3, <2>5
<1> QED BY <1>5, <1>10, YoungIsEvicted DEF old, aged, p

(* The queues that are evicted only when their client asks again decide    *)
(* every request as logs from which entries vanish as they expire.         *)
THEOREM ImplementsSlidingWindowHolds == Spec => ImplementsSlidingWindow
<1> DEFINE log == [c \in Client |-> evictExpired(client_queues[c])]
<1>1. evictExpired(<<>>) = <<>>
  <2> DEFINE q == <<>>
  <2>1. q \in Seq(RequestRecord) /\ \A i \in 1..Len(q) : ~Expired(q[i])
    OBVIOUS
  <2> HIDE DEF q
  <2>2. evictExpired(q) = q
    BY <2>1, NothingToEvict
  <2> QED BY <2>2 DEF q
<1>2. Init => Exact!Init
  BY <1>1 DEF Init, Exact!Init
<1>3. ASSUME Inv, [Next]_vars
      PROVE  [Exact!Next]_Exact!vars
  <2>1. ASSUME NEW c \in Client, allowRequest(c)
        PROVE  Exact!Request(c)
    <3> DEFINE p == evictExpired(client_queues[c])
               g == Append(p, Record(Decision(p)))
    <3>1. /\ p \in SoundQueue /\ g \in SoundQueue
          /\ \A i \in 1..Len(g) : ~Expired(g[i])
      BY <1>3, EvictedQueue, RecordedQueue DEF Inv
    <3>2. /\ client_queues' = [client_queues EXCEPT ![c] = g]
          /\ verdict' = <<c, Decision(p)>>
      BY <2>1 DEF allowRequest
    <3>3. log[c] = p
      OBVIOUS
    <3>4. Decision(p) = IF Len(p) < MaxRequests THEN "ALLOWED" ELSE "REJECTED"
      BY <3>1, LimiterAssumption DEF Decision, SoundQueue
    <3>5. evictExpired(g) = g
      BY <3>1, NothingToEvict DEF SoundQueue
    <3> HIDE DEF g, p
    <3>6. log' = [log EXCEPT ![c] = g]
      BY <1>3, <3>2, <3>5 DEF Inv
    <3> HIDE DEF log
    <3>7. g = Append(p, [age |-> 0, status |-> Decision(p)])
      BY DEF g, Record
    <3>8. log' =
            [log EXCEPT ![c] = Append(@, [age |-> 0, status |-> Decision(p)])]
      BY <3>3, <3>6, <3>7
    <3> QED BY <3>2, <3>3, <3>4, <3>8 DEF Exact!Request, log
  <2>2. ASSUME Tick
        PROVE  Exact!Tick
    <3>1. ASSUME NEW c \in Client
          PROVE  evictExpired(client_queues'[c])
                   = Exact!Young(Exact!Aged(evictExpired(client_queues[c])))
      BY <1>3, <2>2, EvictedLater DEF Inv, Tick
    <3> QED BY <2>2, <3>1 DEF Tick, Exact!Tick
  <2>3. ASSUME reset
        PROVE  Exact!Reset
    BY <1>1, <2>3 DEF reset, Exact!Reset
  <2>4. ASSUME UNCHANGED vars
        PROVE  UNCHANGED Exact!vars
    BY <2>4 DEF vars, Exact!vars
  <2> QED BY <1>3, <2>1, <2>2, <2>3, <2>4 DEF Next, Exact!Next
<1> QED BY <1>2, <1>3, InvInductive, PTL
        DEF Spec, ImplementsSlidingWindow, Exact!Spec
=============================================================================
