------------------------------ MODULE Security ------------------------------
(***************************************************************************)
(* Input validation (security.cpp): the payload's size, the 5-tuple's      *)
(* fields, then the number of source addresses of one /24 subnet in a      *)
(* sliding window.  The first check that fails decides.  checkSpoofing     *)
(* holds spoof_mutex_ throughout, and nothing else has state: one step per *)
(* call of fullValidation.                                                 *)
(*                                                                         *)
(* An address is the sequence of its pieces between the dots (FiveTuple).  *)
(* An entry of a tracker has its age in ticks in place of its time,        *)
(* counted up to Window + 1, which is expired.                             *)
(***************************************************************************)
EXTENDS FiveTuple, FiniteSets

CONSTANTS
  Window,        \* SPOOF_DETECTION_WINDOW_SEC, in ticks
  MaxHosts,      \* SPOOF_DETECTION_THRESHOLD
  MaxPayload,    \* MAX_PAYLOAD_SIZE
  MaxEntries,    \* bound: the longest deque explored
  Requests       \* the tuples that arrive

ASSUME SecurityAssumption ==
  /\ Window \in Nat /\ MaxHosts \in Nat
  /\ MaxPayload \in Nat \ {0} /\ MaxEntries \in Nat
  /\ \A ft \in Requests : ft \in Tuple

VARIABLES
  subnet_trackers,   \* subnet_trackers_: for each subnet its entries
  verdict,           \* how the last fullValidation ended
  fault              \* history: what was wrong with its request

vars == <<subnet_trackers, verdict, fault>>

NoVerdict == "none"

Expired(e) == e.age > Window
-----------------------------------------------------------------------------
validatePayloadSize(size) == size <= MaxPayload /\ size # 0

(* Mutant: leading zeros are let through.                                  *)
ValidOctetPadded(o) ==
  /\ Len(o) \in 1..3
  /\ \A i \in 1..Len(o) : o[i] \in 0..9
  /\ stoi(o) <= 255

ValidOctet(o) ==
  /\ Len(o) \in 1..3
  /\ \A i \in 1..Len(o) : o[i] \in 0..9
  /\ Len(o) > 1 => o[1] # 0
  /\ stoi(o) <= 255

isValidIPv4(ip) ==
  LET octets == getline(ip)
  IN  Len(octets) = 4 /\ \A i \in 1..4 : ValidOctet(octets[i])

(* The text before the last dot; all of it where there is no dot.          *)
getSubnet(ip) == IF Len(ip) > 1 THEN SubSeq(ip, 1, Len(ip) - 1) ELSE ip

validateTuple(ft) ==
  /\ isValidIPv4(ft.src_ip)
  /\ isValidIPv4(ft.dst_ip)
  /\ ft.src_port # 0
  /\ ft.dst_port # 0
  /\ ft.protocol \in {TCP, UDP}

(* The addresses that reach spoof detection, and their subnets.            *)
Source == {ft.src_ip : ft \in {g \in Requests : validateTuple(g)}}

Subnet == {getSubnet(ip) : ip \in Source}

Entry == [age : 0..(Window + 1), ip : Source]

(* The loop pops expired entries from the front.                           *)
ExpiredFront(q) ==
  CHOOSE n \in 0..Len(q) :
    /\ \A i \in 1..n : Expired(q[i])
    /\ n < Len(q) => ~Expired(q[n + 1])

evictExpired(q) == SubSeq(q, ExpiredFront(q) + 1, Len(q))

uniqueIps(q) == {q[i].ip : i \in 1..Len(q)}

(* Mutant: an entry is stamped ahead of the clock that expires it.         *)
EntryAhead(ip) == [age |-> -1, ip |-> ip]

NewEntry(ip) == [age |-> 0, ip |-> ip]

(* Mutant: entries are counted instead of addresses.                       *)
checkSpoofingByEntries(ip) ==
  LET n == getSubnet(ip)
      q == Append(evictExpired(subnet_trackers[n]), NewEntry(ip))
  IN  /\ Len(q) <= MaxEntries
      /\ subnet_trackers' = [subnet_trackers EXCEPT ![n] = q]
      /\ verdict' = IF Len(q) > MaxHosts THEN "spoofing" ELSE "valid"

(* The address is recorded whatever the outcome.                           *)
checkSpoofing(ip) ==
  LET n == getSubnet(ip)
      q == Append(evictExpired(subnet_trackers[n]), NewEntry(ip))
  IN  /\ Len(q) <= MaxEntries
      /\ subnet_trackers' = [subnet_trackers EXCEPT ![n] = q]
      /\ verdict' = IF Cardinality(uniqueIps(q)) > MaxHosts
                    THEN "spoofing" ELSE "valid"

(* What security.h (lines 36-38) asks of a request: two dotted quads       *)
(* ("four octets, each 0-255"), ports ("1-65535"), a protocol of the       *)
(* whitelist.  One dot more at the end of an address is tolerated: it is   *)
(* all that the pieces of getline do not show.                             *)

(* The numerals of 0 .. 255, without leading zeros. *)
Numeral ==
  {<<n>> : n \in 0..9}
    \cup {<<n \div 10, n % 10>> : n \in 10..99}
    \cup {<<n \div 100, (n \div 10) % 10, n % 10>> : n \in 100..255}

DottedQuad(ip) ==
  /\ \A i \in 1..4 : i <= Len(ip) /\ ip[i] \in Numeral
  /\ Len(ip) = 4 \/ (Len(ip) = 5 /\ ip[5] = <<>>)

WellFormed(ft) ==
  /\ DottedQuad(ft.src_ip) /\ DottedQuad(ft.dst_ip)
  /\ ft.src_port \in 1..MaxPort /\ ft.dst_port \in 1..MaxPort
  /\ ft.protocol \in {TCP, UDP}

Fault(ft, size) ==
  CASE size \notin 1..MaxPayload -> "payload"
    [] size \in 1..MaxPayload /\ ~WellFormed(ft) -> "tuple"
    [] OTHER -> "none"

fullValidation(ft, size) ==
  /\ fault' = Fault(ft, size)
  /\ \/ /\ ~validatePayloadSize(size)
        /\ verdict' = "payload"
        /\ UNCHANGED subnet_trackers
     \/ /\ validatePayloadSize(size)
        /\ ~validateTuple(ft)
        /\ verdict' = "tuple"
        /\ UNCHANGED subnet_trackers
     \/ /\ validatePayloadSize(size)
        /\ validateTuple(ft)
        /\ checkSpoofing(ft.src_ip)

Older(e) == [e EXCEPT !.age = IF @ <= Window THEN @ + 1 ELSE @]

(* The steady clock advances. *)
Tick ==
  /\ subnet_trackers' =
       [n \in Subnet |->
          [i \in 1..Len(subnet_trackers[n]) |-> Older(subnet_trackers[n][i])]]
  /\ fault' = "none"
  /\ verdict' = NoVerdict
-----------------------------------------------------------------------------
Init ==
  /\ subnet_trackers = [n \in Subnet |-> <<>>]
  /\ fault = "none"
  /\ verdict = NoVerdict

Next ==
  \/ \E ft \in Requests, size \in {0, MaxPayload, MaxPayload + 1} :
       fullValidation(ft, size)
  \/ Tick

Spec == Init /\ [][Next]_vars
-----------------------------------------------------------------------------
(* Every tracker is a sequence of entries.                                 *)
TypeOK ==
  /\ subnet_trackers \in [Subnet -> Seq(Entry)]
  /\ verdict \in {NoVerdict, "payload", "tuple", "spoofing", "valid"}

(* A verdict names the first thing wrong with the request: its size, else  *)
(* its tuple.  No well-formed tuple is refused as invalid, and none that   *)
(* is not reaches spoof detection.                                         *)
VerdictJustified ==
  /\ fault # "none" => verdict = fault
  /\ fault = "none" => verdict \in {NoVerdict, "spoofing", "valid"}
-----------------------------------------------------------------------------
(* The tuples that deserialize gives back from their text, whatever the    *)
(* caller's tuple held before.                                             *)
Carried ==
  {ft \in Requests : \A out \in Requests :
     deserialize(serialize(ft), out) = [ok |-> TRUE, out |-> ft]}

(* What validation lets through, the wire carries (common.h, line 52:      *)
(* "Deserializes a pipe-delimited string back into a FiveTuple"): a tuple  *)
(* that reaches spoof detection survives serialize and deserialize, also   *)
(* where it was itself read from a text with more or less in it than       *)
(* serialize writes.                                                       *)
RoundTrip ==
  [][verdict' \in {"spoofing", "valid"} =>
       \A ft \in Requests :
         fullValidation(ft, MaxPayload) => ft \in Carried]_vars
-----------------------------------------------------------------------------
(* The addresses with an entry that has not expired.                       *)
Recent(q) == {q[i].ip : i \in {j \in 1..Len(q) : ~Expired(q[j])}}

(* The youngest age of an address among the entries.                       *)
Youngest(q, ip) ==
  CHOOSE a \in 0..Window :
    /\ \E i \in 1..Len(q) : q[i] = [age |-> a, ip |-> ip]
    /\ \A i \in 1..Len(q) : q[i].ip = ip => q[i].age >= a

LastAges(q) == [ip \in Recent(q) |-> Youngest(q, ip)]

Detector == INSTANCE LastSeen WITH
  Host <- Source,
  seen <- [n \in Subnet |-> LastAges(subnet_trackers[n])]

(* Keeping one entry per request and evicting at the subnet's next request *)
(* gives the verdicts of a table of when each address was last seen        *)
(* (security.h: "Tracks unique IPs per /24 subnet within a time window"),  *)
(* and a malformed request leaves no trace in it.                          *)
ImplementsLastSeen == Detector!Spec
=============================================================================
