---------------------------- MODULE ListTheorems ----------------------------
(***************************************************************************)
(* Facts about numbers, about scans that stop, and about the list of       *)
(* active servers, that the proofs cite.                                   *)
(***************************************************************************)
EXTENDS ServerList, WellFoundedInduction, TLAPS

(* The natural numbers are well ordered. *)
LEMMA LeastNatural ==
  ASSUME NEW T, T \subseteq Nat, T # {}
  PROVE  \E x \in T : \A y \in T : x <= y
<1>1. IsWellFoundedOn(OpToRel(<, Nat), Nat)
  BY NatLessThanWellFounded
<1>2. PICK x \in T : \A y \in T : ~ (<<y, x>> \in OpToRel(<, Nat))
  BY <1>1, WFMin
<1>3. ASSUME NEW y \in T PROVE x <= y
  <2>1. x \in Nat /\ y \in Nat
    OBVIOUS
  <2>2. y < x => <<y, x>> \in OpToRel(<, Nat)
    BY <2>1 DEF OpToRel
  <2>3. ~ (y < x)
    BY <1>2, <2>2, Zenon
  <2> QED BY <2>1, <2>3
<1> QED BY <1>3

(* A scan of 1..n that goes on as long as it meets members of E stops.     *)
LEMMA ScanStops ==
  ASSUME NEW n \in Nat, NEW E
  PROVE  \E m \in 0..n :
           /\ \A i \in 1..m : i \in E
           /\ m < n => m + 1 \notin E
<1> DEFINE T == {i \in 1..n : i \notin E}
<1>1. CASE T = {}
  <2>1. \A i \in 1..n : i \in E
    BY <1>1
  <2> QED BY <2>1
<1>2. CASE T # {}
  <2> T \subseteq Nat
    OBVIOUS
  <2>1. PICK k \in T : \A i \in T : k <= i
    BY <1>2, LeastNatural
  <2>2. k - 1 \in 0..n /\ (k - 1) + 1 = k
    BY <2>1
  <2>3. \A i \in 1..(k - 1) : i \in E
    BY <2>1
  <2> QED BY <2>1, <2>2, <2>3
<1> QED BY <1>1, <1>2

(* A stretch of a sequence is a sequence of entries of it, in order.       *)
LEMMA Stretch ==
  ASSUME NEW S, NEW q \in Seq(S), NEW n \in Nat, NEW m \in Nat,
         n <= m, m <= Len(q)
  PROVE  LET p == SubSeq(q, n + 1, m)
         IN  /\ p \in Seq(S)
             /\ Len(p) = m - n
             /\ \A i \in 1..(m - n) : p[i] = q[i + n] /\ i + n \in 1..Len(q)
<1> DEFINE p == SubSeq(q, n + 1, m)
<1>1. Len(q) \in Nat /\ m - n \in Nat
  OBVIOUS
<1>2. \A i \in 1..(m - n) : i + n \in 1..Len(q)
  BY <1>1
<1>3. p \in Seq(S) /\ Len(p) = m - n
  OBVIOUS
<1>4. \A i \in 1..(m - n) : p[i] = q[i + n]
  OBVIOUS
<1> QED BY <1>2, <1>3, <1>4

(* The members of a list are those of any set its entries come from.       *)
LEMMA MembersType ==
  ASSUME NEW S, NEW list \in Seq(S)
  PROVE  Members(list) \subseteq S
BY DEF Members

(* A list with members has one that a ranking puts before the others.      *)
LEMMA ClosestMember ==
  ASSUME NEW S, NEW list \in Seq(S), NEW rank \in [S -> Nat]
  PROVE  /\ list = <<>> <=> Members(list) = {}
         /\ list # <<>> => \E s \in Members(list) :
                             \A t \in Members(list) : rank[s] <= rank[t]
<1>1. list = <<>> <=> Members(list) = {}
  <2>1. list # <<>> => 1 \in 1..Len(list)
    OBVIOUS
  <2>2. list = <<>> => 1..Len(list) = {}
    OBVIOUS
  <2> QED BY <2>1, <2>2 DEF Members
<1>2. ASSUME list # <<>>
      PROVE  \E s \in Members(list) :
               \A t \in Members(list) : rank[s] <= rank[t]
  <2> DEFINE T == {rank[s] : s \in Members(list)}
  <2>1. T \subseteq Nat /\ T # {}
    BY <1>1, <1>2, MembersType
  <2>2. PICK x \in T : \A y \in T : x <= y
    BY <2>1, LeastNatural
  <2> QED BY <2>2
<1> QED BY <1>1, <1>2

(* push_back adds one member, and repeats nothing if that one is new.      *)
LEMMA AppendMembers ==
  ASSUME NEW S, NEW list \in Seq(S), NEW s \in S
  PROVE  /\ Append(list, s) \in Seq(S)
         /\ Members(Append(list, s)) = Members(list) \cup {s}
         /\ NoRepeats(list) /\ s \notin Members(list)
              => NoRepeats(Append(list, s))
<1> DEFINE new == Append(list, s)
<1>1. /\ new \in Seq(S)
      /\ Len(new) = Len(list) + 1
      /\ \A i \in 1..Len(list) : new[i] = list[i]
      /\ new[Len(list) + 1] = s
  OBVIOUS
<1>2. Len(list) \in Nat
  OBVIOUS
<1> HIDE DEF new
<1>3. Members(new) = Members(list) \cup {s}
  BY <1>1, <1>2 DEF Members
<1>4. ASSUME NoRepeats(list), s \notin Members(list)
      PROVE  NoRepeats(new)
  BY <1>1, <1>2, <1>4 DEF Members, NoRepeats
<1> QED BY <1>1, <1>3, <1>4 DEF new

(* Taking a server out of a list without repeats removes that member and   *)
(* nothing else, and repeats nothing.                                      *)
LEMMA WithoutMembers ==
  ASSUME NEW S, NEW list \in Seq(S), NEW s, NoRepeats(list)
  PROVE  /\ Without(list, s) \in Seq(S)
         /\ Members(Without(list, s)) = Members(list) \ {s}
         /\ NoRepeats(Without(list, s))
<1>1. CASE s \notin Members(list)
  BY <1>1 DEF Without
<1>2. CASE s \in Members(list)
  <2> DEFINE n == Len(list)
             p == IndexOf(list, s)
             new == [i \in 1..(n - 1) |->
                       IF i < p THEN list[i] ELSE list[i + 1]]
  <2>1. n \in Nat /\ \A i \in 1..n : list[i] \in S
    OBVIOUS
  <2>2. p \in 1..n /\ list[p] = s
    BY <1>2 DEF IndexOf, Members
  <2>3. Without(list, s) = new
    BY <1>2 DEF Without
  <2> HIDE DEF p, n
  <2>4. /\ new \in Seq(S)
        /\ Len(new) = n - 1
        /\ \A i \in 1..(n - 1) :
             new[i] = IF i < p THEN list[i] ELSE list[i + 1]
    <3>1. n - 1 \in Nat
      BY <2>1, <2>2
    <3>2. new \in [1..(n - 1) -> S]
      BY <2>1, <2>2
    <3> QED BY <3>1, <3>2
  <2> HIDE DEF new
  <2>5. \A i \in 1..n : list[i] = s => i = p
    BY <2>1, <2>2 DEF NoRepeats, n
  <2>6. Members(new) = Members(list) \ {s}
    <3>1. ASSUME NEW i \in 1..(n - 1)
          PROVE  new[i] \in Members(list) \ {s}
      BY <2>1, <2>2, <2>4, <2>5 DEF Members, n
    <3>2. ASSUME NEW j \in 1..n, list[j] # s
          PROVE  \E i \in 1..(n - 1) : new[i] = list[j]
      <4>1. CASE j < p
        BY <4>1, <2>1, <2>2, <2>4
      <4>2. CASE j > p
        <5>1. j - 1 \in 1..(n - 1) /\ ~(j - 1 < p)
          BY <4>2, <2>1, <2>2
        <5>2. new[j - 1] = list[(j - 1) + 1]
          BY <5>1, <2>4
        <5> QED BY <5>1, <5>2, <2>1
      <4> QED BY <3>2, <4>1, <4>2, <2>1, <2>2
    <3>3. Members(new) \subseteq Members(list) \ {s}
      BY <3>1, <2>4 DEF Members
    <3>4. ASSUME NEW x \in Members(list) \ {s}
          PROVE  x \in Members(new)
      <4>1. PICK j \in 1..n : list[j] = x
        BY <3>4 DEF Members, n
      <4> QED BY <4>1, <3>2, <2>4 DEF Members
    <3> QED BY <3>3, <3>4
  <2>7. NoRepeats(new)
    <3> SUFFICES ASSUME NEW i \in 1..(n - 1), NEW j \in 1..(n - 1),
                        new[i] = new[j]
                 PROVE  i = j
      BY <2>4 DEF NoRepeats
    <3>1. PICK a \in 1..n : /\ new[i] = list[a]
                            /\ a = IF i < p THEN i ELSE i + 1
      BY <2>1, <2>2, <2>4
    <3>2. PICK b \in 1..n : /\ new[j] = list[b]
                            /\ b = IF j < p THEN j ELSE j + 1
      BY <2>1, <2>2, <2>4
    <3>3. a = b
      BY <3>1, <3>2 DEF NoRepeats, n
    <3> QED BY <3>1, <3>2, <3>3, <2>1, <2>2
  <2> QED BY <2>3, <2>4, <2>6, <2>7
<1> QED BY <1>1, <1>2
=============================================================================
