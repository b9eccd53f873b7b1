--------------------------- MODULE SecurityProofs ---------------------------
(***************************************************************************)
(* Proofs about the text of a 5-tuple and about input validation, for any  *)
(* requests, window and limits.                                            *)
(***************************************************************************)
EXTENDS Security, ListTheorems, FiniteSetTheorems

(* The recursion of Values, up to n.                                       *)
IsValues(f, token, n) ==
  f = [i \in 0..n |-> IF i = 0 THEN 0 ELSE Pushed(f[i - 1], token[i])]

(* The recursion has a solution on every token.                            *)
LEMMA ValuesExist ==
  ASSUME NEW token, NEW n \in Nat
  PROVE  \E f : IsValues(f, token, n)
<1> DEFINE T == {m \in Nat : ~ \E f : IsValues(f, token, m)}
<1>1. ASSUME T # {} PROVE FALSE
  <2>1. PICK m \in T : \A k \in T : m <= k
    BY <1>1, LeastNatural
  <2>2. CASE m = 0
    <3> DEFINE f == [i \in 0..0 |-> 0]
    <3>1. f = [i \in 0..0 |-> IF i = 0 THEN 0 ELSE Pushed(f[i - 1], token[i])]
      OBVIOUS
    <3>2. IsValues(f, token, m)
      BY <3>1, <2>2 DEF IsValues
    <3> QED BY <3>2, <2>1
  <2>3. CASE m # 0
    <3>1. m - 1 \in Nat /\ m - 1 \notin T
      BY <2>1, <2>3
    <3>2. PICK f : IsValues(f, token, m - 1)
      BY <3>1
    <3> DEFINE g == [i \in 0..m |->
                       IF i = m THEN Pushed(f[m - 1], token[m]) ELSE f[i]]
    <3>3. \A i \in 0..(m - 1) :
            f[i] = IF i = 0 THEN 0 ELSE Pushed(f[i - 1], token[i])
      BY <3>2, <3>1, Zenon DEF IsValues
    <3>4. ASSUME NEW i \in 0..m
          PROVE  g[i] = IF i = 0 THEN 0 ELSE Pushed(g[i - 1], token[i])
      <4>1. CASE i = m
        <5>1. m - 1 \in 0..m /\ m - 1 # m /\ m \in 0..m
          BY <3>1, <2>1
        <5>2. g[m - 1] = f[m - 1] /\ g[m] = Pushed(f[m - 1], token[m])
          BY <5>1
        <5> QED BY <4>1, <5>2, <2>3
      <4>2. CASE i = 0 /\ i # m
        <5>1. 0 \in 0..(m - 1)
          BY <3>1
        <5> QED BY <4>2, <3>3, <5>1
      <4>3. CASE i # 0 /\ i # m
        <5>1. i \in 0..(m - 1) /\ i - 1 \in 0..m /\ i - 1 # m
          BY <4>3, <2>1, <3>1
        <5>2. g[i - 1] = f[i - 1] /\ g[i] = f[i]
          BY <5>1, <4>3
        <5> QED BY <5>1, <5>2, <4>3, <3>3
      <4> QED BY <4>1, <4>2, <4>3
    <3>5. g = [i \in 0..m |-> g[i]]
      OBVIOUS
    <3> HIDE DEF g
    <3>6. g = [i \in 0..m |-> IF i = 0 THEN 0 ELSE Pushed(g[i - 1], token[i])]
      BY <3>4, <3>5, Zenon
    <3>7. IsValues(g, token, m)
      BY <3>6, Zenon DEF IsValues
    <3> QED BY <3>7, <2>1
  <2> QED BY <2>2, <2>3
<1> QED BY <1>1

(* Values starts at 0 and pushes one character after the other.            *)
LEMMA ValuesStep ==
  ASSUME NEW S, NEW token \in Seq(S)
  PROVE  /\ Values(token)[0] = 0
         /\ \A i \in 1..Len(token) :
              Values(token)[i] = Pushed(Values(token)[i - 1], token[i])
<1>1. PICK f : IsValues(f, token, Len(token))
  BY ValuesExist
<1>2. IsValues(Values(token), token, Len(token))
  BY <1>1, Zenon DEF Values, IsValues
<1> DEFINE v == Values(token)
<1>3. \A i \in 0..Len(token) :
        v[i] = IF i = 0 THEN 0 ELSE Pushed(v[i - 1], token[i])
  BY <1>2, Zenon DEF IsValues
<1>4. /\ 0 \in 0..Len(token)
      /\ \A i \in 1..Len(token) : i \in 0..Len(token) /\ i # 0
  OBVIOUS
<1> QED BY <1>3, <1>4

(* Digits is the length of the longest prefix of digits.                   *)
LEMMA DigitsFound ==
  ASSUME NEW S, NEW token \in Seq(S)
  PROVE  /\ Digits(token) \in 0..Len(token)
         /\ \A i \in 1..Digits(token) : token[i] \in 0..9
         /\ Digits(token) < Len(token) => token[Digits(token) + 1] \notin 0..9
<1> DEFINE E == {i \in 1..Len(token) : token[i] \in 0..9}
<1>1. Len(token) \in Nat
  OBVIOUS
<1>2. \E m \in 0..Len(token) :
        /\ \A i \in 1..m : i \in E
        /\ m < Len(token) => m + 1 \notin E
  BY <1>1, ScanStops
<1>3. \E m \in 0..Len(token) :
        /\ \A i \in 1..m : token[i] \in 0..9
        /\ m < Len(token) => token[m + 1] \notin 0..9
  BY <1>1, <1>2
<1> QED BY <1>3 DEF Digits

(* A token of digits is one to its end.                                    *)
LEMMA AllDigits ==
  ASSUME NEW S, NEW token \in Seq(S),
         \A i \in 1..Len(token) : token[i] \in 0..9
  PROVE  Digits(token) = Len(token)
<1>1. /\ Digits(token) \in 0..Len(token)
      /\ Digits(token) < Len(token) => token[Digits(token) + 1] \notin 0..9
  BY DigitsFound
<1> QED BY <1>1

(* On a token of digits alone stoi is the value of all of it.              *)
LEMMA StoiOfDigits ==
  ASSUME NEW S, NEW token \in Seq(S), token # <<>>,
         \A i \in 1..Len(token) : token[i] \in 0..9
  PROVE  stoi(token) = Values(token)[Len(token)]
<1>1. Len(token) # 0 /\ 1 \in 1..Len(token)
  OBVIOUS
<1>2. token[1] # Minus
  BY <1>1 DEF Minus
<1>3. Digits(token) = Len(token)
  BY AllDigits
<1> QED BY <1>1, <1>2, <1>3 DEF stoi

(* A digit more, where it fits. *)
LEMMA PushFits ==
  ASSUME NEW v, NEW d, v # Thrown, v <= (MaxInt - d) \div 10
  PROVE  Pushed(v, d) = 10 * v + d
BY Zenon DEF Pushed

(* A digit more on a number no greater than a port.                        *)
LEMMA PushedExact ==
  ASSUME NEW v \in Nat, v <= MaxPort, NEW d \in 0..9
  PROVE  Pushed(v, d) = 10 * v + d
<1>1. v <= (MaxInt - d) \div 10
  <2>1. MaxInt - d \in Int /\ MaxInt - d >= 1000000
    BY SMT DEF MaxInt
  <2>2. \A m \in Int : m >= 1000000 => 100000 <= m \div 10
    BY SMT
  <2>3. v < 100000
    BY SMT DEF MaxPort
  <2> QED BY <2>1, <2>2, <2>3, SMT
<1>2. v # Thrown
  BY DEF Thrown
<1> QED BY <1>1, <1>2, PushFits, Zenon

(* What Tens holds. *)
LEMMA TensTable ==
  /\ Tens[1] = 1 /\ Tens[2] = 10 /\ Tens[3] = 100
  /\ Tens[4] = 1000 /\ Tens[5] = 10000 /\ Tens[6] = 100000
BY DEF Tens

(* Cutting one digit less off a port pushes that digit.                    *)
LEMMA CutAndPush ==
  ASSUME NEW n \in Nat, n <= MaxPort, NEW k \in 1..5
  PROVE  /\ (n \div Tens[k]) % 10 \in 0..9
         /\ Pushed(n \div Tens[k + 1], (n \div Tens[k]) % 10) = n \div Tens[k]
<1> DEFINE m == n \div Tens[k]
           high == n \div Tens[k + 1]
           low == m % 10
<1>1. m \in Nat /\ m <= n /\ high = m \div 10
  <2>1. CASE k = 1
    <3>1. Tens[k] = 1 /\ Tens[k + 1] = 10
      BY <2>1, TensTable, SMT
    <3>2. /\ n \div 1 \in Nat /\ n \div 1 <= n
          /\ n \div 10 = (n \div 1) \div 10
      BY SMT
    <3> QED BY <3>1, <3>2, SMT
  <2>2. CASE k = 2
    <3>1. Tens[k] = 10 /\ Tens[k + 1] = 100
      BY <2>2, TensTable, SMT
    <3>2. /\ n \div 10 \in Nat /\ n \div 10 <= n
          /\ n \div 100 = (n \div 10) \div 10
      BY SMT
    <3> QED BY <3>1, <3>2, SMT
  <2>3. CASE k = 3
    <3>1. Tens[k] = 100 /\ Tens[k + 1] = 1000
      BY <2>3, TensTable, SMT
    <3>2. /\ n \div 100 \in Nat /\ n \div 100 <= n
          /\ n \div 1000 = (n \div 100) \div 10
      BY SMT
    <3> QED BY <3>1, <3>2, SMT
  <2>4. CASE k = 4
    <3>1. Tens[k] = 1000 /\ Tens[k + 1] = 10000
      BY <2>4, TensTable, SMT
    <3>2. /\ n \div 1000 \in Nat /\ n \div 1000 <= n
          /\ n \div 10000 = (n \div 1000) \div 10
      BY SMT
    <3> QED BY <3>1, <3>2, SMT
  <2>5. CASE k = 5
    <3>1. Tens[k] = 10000 /\ Tens[k + 1] = 100000
      BY <2>5, TensTable, SMT
    <3>2. /\ n \div 10000 \in Nat /\ n \div 10000 <= n
          /\ n \div 100000 = (n \div 10000) \div 10
      BY SMT
    <3> QED BY <3>1, <3>2, SMT
  <2> QED BY <2>1, <2>2, <2>3, <2>4, <2>5, SMT
<1> HIDE DEF m, high
<1>2. /\ high \in Nat /\ high <= MaxPort
      /\ low \in 0..9 /\ low = m - 10 * high
  <2>1. \A x \in Nat : /\ x \div 10 \in Nat /\ x \div 10 <= x
                       /\ x % 10 \in 0..9 /\ x % 10 = x - 10 * (x \div 10)
    BY SMT
  <2>2. /\ m \div 10 \in Nat /\ m \div 10 <= m
        /\ m % 10 \in 0..9 /\ m % 10 = m - 10 * (m \div 10)
    BY <1>1, <2>1, SMT
  <2>3. MaxPort \in Nat
    BY SMT DEF MaxPort
  <2> QED BY <1>1, <2>2, <2>3, SMT
<1> HIDE DEF low
<1>3. Pushed(high, low) = 10 * high + low
  BY <1>2, PushedExact, Zenon
<1>4. Pushed(high, low) = m
  BY <1>1, <1>2, <1>3, SMT
<1> QED BY <1>2, <1>4, SMT DEF m, high, low

(* The text of a port has as many digits as the port has.                  *)
LEMMA PortText ==
  ASSUME NEW n \in Nat, n <= MaxPort
  PROVE  \E w \in 1..5 :
           /\ to_string(n) = [i \in 1..w |-> (n \div Tens[w - i + 1]) % 10]
           /\ n < Tens[w + 1]
<1>1. \E w \in 1..5 : n < Tens[w + 1] /\ (w > 1 => n >= Tens[w])
  <2> n < 100000
    BY SMT DEF MaxPort
  <2>1. CASE n < 10
    <3>1. n < Tens[1 + 1] /\ (1 > 1 => n >= Tens[1])
      BY <2>1, TensTable, SMT
    <3> QED BY <3>1, SMT
  <2>2. CASE n >= 10 /\ n < 100
    <3>1. n < Tens[2 + 1] /\ (2 > 1 => n >= Tens[2])
      BY <2>2, TensTable, SMT
    <3> QED BY <3>1, SMT
  <2>3. CASE n >= 100 /\ n < 1000
    <3>1. n < Tens[3 + 1] /\ (3 > 1 => n >= Tens[3])
      BY <2>3, TensTable, SMT
    <3> QED BY <3>1, SMT
  <2>4. CASE n >= 1000 /\ n < 10000
    <3>1. n < Tens[4 + 1] /\ (4 > 1 => n >= Tens[4])
      BY <2>4, TensTable, SMT
    <3> QED BY <3>1, SMT
  <2>5. CASE n >= 10000
    <3>1. n < Tens[5 + 1] /\ (5 > 1 => n >= Tens[5])
      BY <2>5, TensTable, SMT
    <3> QED BY <3>1, SMT
  <2> QED BY <2>1, <2>2, <2>3, <2>4, <2>5, SMT
<1> DEFINE width == CHOOSE w \in 1..5 :
                      n < Tens[w + 1] /\ (w > 1 => n >= Tens[w])
<1>2. width \in 1..5 /\ n < Tens[width + 1]
  BY <1>1
<1>3. to_string(n) = [i \in 1..width |-> (n \div Tens[width - i + 1]) % 10]
  BY Zenon DEF to_string
<1> QED BY <1>2, <1>3

(* stoi reads back what to_string writes, for every port.                  *)
THEOREM PortRoundTrip ==
  ASSUME NEW n \in Nat, n <= MaxPort
  PROVE  /\ to_string(n) \in Seq(0..9) /\ to_string(n) # <<>>
         /\ stoi(to_string(n)) = n
<1> DEFINE t == to_string(n)
           v == Values(t)
           cut(k) == n \div Tens[k]
<1>1. PICK w \in 1..5 : t = [i \in 1..w |-> cut(w - i + 1) % 10]
                        /\ n < Tens[w + 1]
  BY PortText, Zenon
<1>2. /\ t \in Seq(0..9) /\ Len(t) = w /\ t # <<>>
      /\ \A i \in 1..w : t[i] = cut(w - i + 1) % 10
  <2>1. \A i \in 1..w : w - i + 1 \in 1..5
    BY SMT
  <2>2. \A i \in 1..w : cut(w - i + 1) % 10 \in 0..9
    BY <2>1, CutAndPush, Zenon
  <2> HIDE DEF t, cut
  <2>3. t \in [1..w -> 0..9] /\ w \in Nat /\ w # 0
    BY <1>1, <2>2, SMT
  <2>4. t \in Seq(0..9) /\ Len(t) = w
    BY <2>3, SMT
  <2>5. t # <<>>
    BY <2>3, <2>4, SMT
  <2> QED BY <1>1, <2>4, <2>5, SMT
<1> HIDE DEF t
<1>3. v[0] = 0 /\ \A i \in 1..w : v[i] = Pushed(v[i - 1], t[i])
  BY <1>2, ValuesStep, Zenon
<1>4. \A k \in 1..5 : Pushed(cut(k + 1), cut(k) % 10) = cut(k)
  BY CutAndPush, Zenon
<1>5. cut(w + 1) = 0 /\ cut(1) = n
  <2>1. \A m \in Nat : n < m => n \div m = 0
    BY SMT
  <2>2. Tens[w + 1] \in Nat
    BY TensTable, SMT
  <2> QED BY <1>1, <2>1, <2>2, TensTable, SMT
<1> HIDE DEF v, cut
<1>6. ASSUME NEW i \in 1..w, v[i - 1] = cut((w - i + 1) + 1)
      PROVE  v[i] = cut(w - i + 1)
  <2>1. w - i + 1 \in 1..5
    BY SMT
  <2>2. v[i] = Pushed(v[i - 1], t[i]) /\ t[i] = cut(w - i + 1) % 10
    BY <1>2, <1>3, Zenon
  <2> QED BY <2>1, <2>2, <1>4, <1>6, Zenon
<1>7. ASSUME NEW i \in 1..w, v[i - 1] = cut(w - i + 2)
      PROVE  v[i] = cut(w - i + 1)
  BY <1>6, <1>7, SMT
<1>8. v[1] = cut(w)
  BY <1>3, <1>5, <1>7, SMT
<1>9. 2 <= w => v[2] = cut(w - 1)
  BY <1>7, <1>8, SMT
<1>10. 3 <= w => v[3] = cut(w - 2)
  BY <1>7, <1>9, SMT
<1>11. 4 <= w => v[4] = cut(w - 3)
  BY <1>7, <1>10, SMT
<1>12. 5 <= w => v[5] = cut(w - 4)
  BY <1>7, <1>11, SMT
<1>13. v[w] = cut(1)
  BY <1>8, <1>9, <1>10, <1>11, <1>12, SMT
<1>14. stoi(t) = Values(t)[w]
  <2>1. \A i \in 1..Len(t) : t[i] \in 0..9
    BY <1>2, SMT
  <2> QED BY <1>2, <2>1, StoiOfDigits, Zenon
<1> QED BY <1>2, <1>5, <1>13, <1>14, Zenon DEF t, v

(* The fields of a tuple; its protocol is not the empty text.              *)
LEMMA TupleFields ==
  ASSUME NEW ft \in Tuple
  PROVE  /\ ft.src_port \in Nat /\ ft.src_port <= MaxPort
         /\ ft.dst_port \in Nat /\ ft.dst_port <= MaxPort
         /\ ft.protocol # <<>>
<1>1. ft.src_port \in 0..MaxPort /\ ft.dst_port \in 0..MaxPort
  BY SMT DEF Tuple
<1>2. ft.protocol \in {TCP, UDP, ICMP}
  BY SMT DEF Tuple
<1>3. TCP # <<>> /\ UDP # <<>> /\ ICMP # <<>>
  BY SMT DEF TCP, UDP, ICMP
<1>4. MaxPort \in Int
  BY SMT DEF MaxPort
<1>5. ft.protocol # <<>>
  BY <1>2, <1>3, Zenon
<1> QED BY <1>1, <1>4, <1>5, SMT

(* The wire loses nothing: deserialize reads back the tuple whose text     *)
(* serialize wrote, whatever the caller's tuple held before.               *)
THEOREM WireRoundTrip ==
  ASSUME NEW ft \in Tuple, NEW out \in Tuple
  PROVE  deserialize(serialize(ft), out) = [ok |-> TRUE, out |-> ft]
<1> DEFINE text == serialize(ft)
           sp == to_string(ft.src_port)
           dp == to_string(ft.dst_port)
<1>1. /\ text[1] = ft.src_ip /\ text[2] = sp /\ text[3] = ft.dst_ip
      /\ text[4] = dp /\ text[5] = ft.protocol
      /\ Len(text) = 5 /\ text # <<>>
  BY SMT DEF serialize
<1>2. stoi(sp) = ft.src_port /\ stoi(dp) = ft.dst_port
  BY TupleFields, PortRoundTrip, Zenon
<1> HIDE DEF text, sp, dp
<1>3. getline(text) = text
  BY <1>1, TupleFields, Zenon DEF getline
<1>4. Port(text[2]) /\ Port(text[4])
  <2>1. ft.src_port \in 0..MaxPort /\ ft.dst_port \in 0..MaxPort
    BY SMT DEF Tuple
  <2> QED BY <1>1, <1>2, <2>1, Zenon DEF Port
<1> DEFINE read == [src_ip |-> ft.src_ip, src_port |-> ft.src_port,
                    dst_ip |-> ft.dst_ip, dst_port |-> ft.dst_port,
                    protocol |-> ft.protocol]
<1>5. deserialize(text, out) = [ok |-> TRUE, out |-> read]
  <2>1. ~(Len(text) < 5) /\ Len(text) >= 5
    BY <1>1, SMT
  <2> QED BY <1>1, <1>2, <1>3, <1>4, <2>1, Zenon DEF deserialize
<1>6. read = ft
  BY SMT DEF Tuple
<1> QED BY <1>5, <1>6, Zenon DEF text

(* What validation lets through, the wire carries.                         *)
THEOREM RoundTripHolds == Spec => RoundTrip
<1>1. \A ft \in Requests : ft \in Carried
  BY WireRoundTrip, SecurityAssumption, Zenon DEF Carried
<1>2. verdict' \in {"spoofing", "valid"} =>
        \A ft \in Requests : fullValidation(ft, MaxPayload) => ft \in Carried
  BY <1>1, Zenon
<1> QED BY <1>2, PTL DEF RoundTrip
-----------------------------------------------------------------------------
(* Two digits, and the number they write.                                  *)
LEMMA TwoDigits ==
  ASSUME NEW a \in 0..9, NEW b \in 0..9
  PROVE  LET n == 10 * a + b
         IN  /\ n \in Nat /\ n <= 99 /\ n \div 10 = a /\ n % 10 = b
             /\ a # 0 => n \in 10..99
BY SMT

(* What stoi makes of one, two or three digits.                            *)
LEMMA ShortStoi ==
  ASSUME NEW S, NEW o \in Seq(S), Len(o) \in 1..3,
         \A i \in 1..Len(o) : o[i] \in 0..9
  PROVE  /\ Len(o) = 1 => stoi(o) = o[1]
         /\ Len(o) = 2 => stoi(o) = 10 * o[1] + o[2]
         /\ Len(o) = 3 => stoi(o) = 10 * (10 * o[1] + o[2]) + o[3]
<1> DEFINE v == Values(o)
<1>1. o # <<>> /\ 1 \in 1..Len(o)
  BY SMT
<1>2. stoi(o) = v[Len(o)]
  BY <1>1, StoiOfDigits, Zenon
<1>3. v[0] = 0 /\ \A i \in 1..Len(o) : v[i] = Pushed(v[i - 1], o[i])
  BY ValuesStep, Zenon
<1> HIDE DEF v
<1>4. MaxPort \in Nat /\ 99 <= MaxPort
  BY SMT DEF MaxPort
<1>5. v[1] = Pushed(0, o[1])
  BY <1>1, <1>3, SMT
<1>6. Pushed(0, o[1]) = 10 * 0 + o[1]
  <2>1. 0 \in Nat /\ 0 <= MaxPort /\ o[1] \in 0..9
    BY <1>1, <1>4, SMT
  <2> QED BY <2>1, PushedExact, Zenon
<1>7. v[1] = o[1] /\ o[1] \in 0..9
  BY <1>1, <1>5, <1>6, SMT
<1>8. ASSUME Len(o) >= 2
      PROVE  v[2] = 10 * o[1] + o[2] /\ o[2] \in 0..9
  <2>1. v[2] = Pushed(o[1], o[2]) /\ o[2] \in 0..9
    BY <1>3, <1>7, <1>8, SMT
  <2>2. o[1] \in Nat /\ o[1] <= MaxPort
    BY <1>4, <1>7, SMT
  <2> QED BY <2>1, <2>2, PushedExact, Zenon
<1>9. ASSUME Len(o) = 3
      PROVE  v[3] = 10 * (10 * o[1] + o[2]) + o[3]
  <2>1. v[3] = Pushed(v[2], o[3]) /\ o[3] \in 0..9
    BY <1>3, <1>9, SMT
  <2>2. v[2] = 10 * o[1] + o[2] /\ o[2] \in 0..9
    BY <1>8, <1>9, SMT
  <2>3. v[2] \in Nat /\ v[2] <= 99
    BY <1>7, <2>2, TwoDigits, Zenon
  <2>4. v[2] <= MaxPort
    BY <1>4, <2>3, SMT
  <2>5. Pushed(v[2], o[3]) = 10 * v[2] + o[3]
    BY <2>1, <2>3, <2>4, PushedExact, Zenon
  <2> QED BY <2>1, <2>2, <2>5, Zenon
<1> QED BY <1>2, <1>7, <1>8, <1>9, SMT

(* The octets the code accepts are the numerals of 0 .. 255 without        *)
(* leading zeros.                                                          *)
LEMMA OctetIsNumeral ==
  ASSUME NEW o \in Seq(0..Letter)
  PROVE  ValidOctet(o) <=> o \in Numeral
<1>1. ASSUME ValidOctet(o)
      PROVE  o \in Numeral
  <2>1. /\ Len(o) \in 1..3
        /\ \A i \in 1..Len(o) : o[i] \in 0..9
        /\ Len(o) > 1 => o[1] # 0
        /\ stoi(o) <= 255
    BY <1>1, Zenon DEF ValidOctet
  <2>2. /\ Len(o) = 1 => stoi(o) = o[1]
        /\ Len(o) = 2 => stoi(o) = 10 * o[1] + o[2]
        /\ Len(o) = 3 => stoi(o) = 10 * (10 * o[1] + o[2]) + o[3]
    BY <2>1, ShortStoi, Zenon
  <2>3. CASE Len(o) = 1
    <3>1. o = <<o[1]>> /\ o[1] \in 0..9
      BY <2>1, <2>3, SMT
    <3> QED BY <3>1, Zenon DEF Numeral
  <2>4. CASE Len(o) = 2
    <3>1. o[1] \in 1..9 /\ o[2] \in 0..9 /\ o = <<o[1], o[2]>>
      BY <2>1, <2>4, SMT
    <3> DEFINE n == 10 * o[1] + o[2]
    <3>2. n \in 10..99 /\ n \div 10 = o[1] /\ n % 10 = o[2]
      <4>1. o[1] \in 0..9 /\ o[1] # 0
        BY <3>1, SMT
      <4> QED BY <3>1, <4>1, TwoDigits, Zenon
    <3> HIDE DEF n
    <3>3. o = <<n \div 10, n % 10>>
      BY <3>1, <3>2, Zenon
    <3> QED BY <3>2, <3>3, Zenon DEF Numeral
  <2>5. CASE Len(o) = 3
    <3>1. /\ o[1] \in 1..9 /\ o[2] \in 0..9 /\ o[3] \in 0..9
          /\ o = <<o[1], o[2], o[3]>>
      BY <2>1, <2>5, SMT
    <3> DEFINE n == stoi(o)
    <3>2. n = 10 * (10 * o[1] + o[2]) + o[3] /\ n <= 255
      BY <2>1, <2>2, <2>5, Zenon
    <3> HIDE DEF n
    <3>3. /\ n \in 100..255 /\ n \div 100 = o[1]
          /\ (n \div 10) % 10 = o[2] /\ n % 10 = o[3]
      <4>1. PICK a \in 1..9, b \in 0..9, c \in 0..9 :
              a = o[1] /\ b = o[2] /\ c = o[3]
        BY <3>1, Zenon
      <4>2. n = 10 * (10 * a + b) + c
        BY <3>2, <4>1, Zenon
      <4> DEFINE m == 10 * (10 * a + b) + c
      <4>3. m <= 255
        BY <3>2, <4>2, SMT
      <4>4. /\ m \in 100..255 /\ m \div 100 = a
            /\ (m \div 10) % 10 = b /\ m % 10 = c
        BY <4>3, SMT
      <4> HIDE DEF m
      <4> QED BY <4>1, <4>2, <4>4, SMT DEF m
    <3>4. o = <<n \div 100, (n \div 10) % 10, n % 10>>
      BY <3>1, <3>3, Zenon
    <3> QED BY <3>3, <3>4, SMT DEF Numeral
  <2> QED BY <2>1, <2>3, <2>4, <2>5, SMT
<1>2. ASSUME o \in Numeral
      PROVE  ValidOctet(o)
  <2>1. CASE \E n \in 0..9 : o = <<n>>
    <3>1. PICK n \in 0..9 : o = <<n>>
      BY <2>1
    <3>2. Len(o) = 1 /\ o[1] = n /\ \A i \in 1..Len(o) : o[i] \in 0..9
      BY <3>1, SMT
    <3>3. stoi(o) = n
      BY <3>2, ShortStoi, SMT
    <3> QED BY <3>2, <3>3, SMT DEF ValidOctet
  <2>2. CASE \E n \in 10..99 : o = <<n \div 10, n % 10>>
    <3>1. PICK n \in 10..99 : o = <<n \div 10, n % 10>>
      BY <2>2, Zenon
    <3>2. /\ n \div 10 \in 1..9 /\ n % 10 \in 0..9
          /\ n % 10 = n - 10 * (n \div 10)
      BY SMT
    <3>3. Len(o) = 2 /\ o[1] = n \div 10 /\ o[2] = n % 10
      BY <3>1, SMT
    <3>4. \A i \in 1..Len(o) : o[i] \in 0..9
      BY <3>2, <3>3, SMT
    <3>5. stoi(o) = 10 * o[1] + o[2]
      BY <3>3, <3>4, ShortStoi, SMT
    <3>6. stoi(o) <= 255
      BY <3>2, <3>3, <3>5, SMT
    <3> QED BY <3>2, <3>3, <3>4, <3>6, SMT DEF ValidOctet
  <2>3. CASE \E n \in 100..255 :
               o = <<n \div 100, (n \div 10) % 10, n % 10>>
    <3>1. PICK n \in 100..255 : o = <<n \div 100, (n \div 10) % 10, n % 10>>
      BY <2>3, Zenon
    <3>2. /\ n \div 100 \in 1..2
          /\ (n \div 10) % 10 \in 0..9 /\ n % 10 \in 0..9
          /\ 10 * (10 * (n \div 100) + ((n \div 10) % 10)) + (n % 10) <= 255
      BY SMT
    <3>3. /\ Len(o) = 3 /\ o[1] = n \div 100 /\ o[2] = (n \div 10) % 10
          /\ o[3] = n % 10
      BY <3>1, SMT
    <3>4. \A i \in 1..Len(o) : o[i] \in 0..9
      BY <3>2, <3>3, SMT
    <3>5. stoi(o) = 10 * (10 * o[1] + o[2]) + o[3]
      <4>1. Len(o) \in 1..3
        BY <3>3, SMT
      <4> QED BY <3>3, <3>4, <4>1, ShortStoi, Zenon
    <3>6. stoi(o) <= 255
      <4>1. stoi(o) = 10 * (10 * (n \div 100) + ((n \div 10) % 10)) + (n % 10)
        BY <3>3, <3>5, SMT
      <4> QED BY <3>2, <4>1, SMT
    <3> QED BY <3>2, <3>3, <3>4, <3>6, SMT DEF ValidOctet
  <2> QED BY <1>2, <2>1, <2>2, <2>3, Zenon DEF Numeral
<1> QED BY <1>1, <1>2

(* The addresses the code accepts are the dotted quads, also those with    *)
(* one dot too many at their end.                                          *)
LEMMA AddressIsQuad ==
  ASSUME NEW ip \in Address
  PROVE  isValidIPv4(ip) <=> DottedQuad(ip)
<1> DEFINE octets == getline(ip)
           stripped == ip # <<>> /\ ip[Len(ip)] = <<>>
<1>1. /\ Len(ip) \in Nat
      /\ \A i \in 1..Len(ip) : ip[i] \in Seq(0..Letter)
  BY SMT DEF Address
<1>2. \A i \in 1..Len(ip) : ValidOctet(ip[i]) <=> ip[i] \in Numeral
  BY <1>1, OctetIsNumeral, Zenon
<1>3. <<>> \notin Numeral
  <2>1. Len(<<>>) \notin 1..3 /\ <<>> \in Seq(0..Letter)
    BY SMT
  <2> QED BY <2>1, OctetIsNumeral, Zenon DEF ValidOctet
<1>4. CASE stripped
  <2>1. octets = SubSeq(ip, 1, Len(ip) - 1)
    BY <1>4, Zenon DEF getline
  <2>2. /\ Len(ip) >= 1
        /\ Len(octets) = Len(ip) - 1
        /\ \A i \in 1..(Len(ip) - 1) : octets[i] = ip[i]
    <3>1. ip \in Seq(Seq(0..Letter)) /\ ip # <<>>
      BY <1>4, Zenon DEF Address
    <3>2. /\ Len(ip) - 1 \in Nat /\ 0 <= Len(ip) - 1
          /\ Len(ip) - 1 <= Len(ip) /\ Len(ip) >= 1
      BY <3>1, SMT
    <3> HIDE DEF octets
    <3> DEFINE m == Len(ip) - 1
    <3>3. /\ Len(octets) = m - 0
          /\ \A i \in 1..(m - 0) : octets[i] = ip[i + 0]
      <4>1. octets = SubSeq(ip, 0 + 1, m)
        BY <2>1, SMT
      <4>2. m \in Nat /\ 0 \in Nat /\ 0 <= m /\ m <= Len(ip)
        BY <3>2, SMT
      <4> HIDE DEF m
      <4> QED BY <3>1, <4>1, <4>2, Stretch, Zenon
    <3> QED BY <1>1, <3>2, <3>3, SMT
  <2> HIDE DEF octets
  <2>3. isValidIPv4(ip) <=>
          Len(ip) = 5 /\ \A i \in 1..4 : ValidOctet(ip[i])
    <3>1. isValidIPv4(ip) <=>
            Len(octets) = 4 /\ \A i \in 1..4 : ValidOctet(octets[i])
      BY Zenon DEF isValidIPv4, octets
    <3>2. Len(octets) = 4 <=> Len(ip) = 5
      BY <1>1, <2>2, SMT
    <3>3. Len(ip) = 5 => \A i \in 1..4 : octets[i] = ip[i]
      BY <2>2, SMT
    <3> QED BY <3>1, <3>2, <3>3, SMT
  <2>4. DottedQuad(ip) <=>
          Len(ip) = 5 /\ \A i \in 1..4 : ip[i] \in Numeral
    <3>1. Len(ip) = 4 => ip[4] \notin Numeral
      BY <1>3, <1>4, Zenon
    <3>2. Len(ip) = 5 => ip[5] = <<>> /\ \A i \in 1..4 : i <= Len(ip)
      BY <1>4, SMT
    <3>3. 4 \in 1..4
      BY SMT
    <3> QED BY <3>1, <3>2, <3>3, Zenon DEF DottedQuad
  <2>5. Len(ip) = 5 =>
          \A i \in 1..4 : ValidOctet(ip[i]) <=> ip[i] \in Numeral
    BY <1>2, SMT
  <2> QED BY <2>3, <2>4, <2>5, Zenon
<1>5. CASE ~stripped
  <2>1. octets = ip
    BY <1>5, Zenon DEF getline
  <2>2. isValidIPv4(ip) <=>
          Len(ip) = 4 /\ \A i \in 1..4 : ValidOctet(ip[i])
    BY <2>1, Zenon DEF isValidIPv4
  <2>3. DottedQuad(ip) <=>
          Len(ip) = 4 /\ \A i \in 1..4 : ip[i] \in Numeral
    <3>1. Len(ip) = 5 => ip[5] # <<>>
      <4>1. Len(ip) = 5 => ip # <<>>
        BY SMT
      <4> QED BY <1>5, <4>1, Zenon
    <3>2. Len(ip) = 4 => \A i \in 1..4 : i <= Len(ip)
      BY SMT
    <3> QED BY <3>1, <3>2, Zenon DEF DottedQuad
  <2>4. Len(ip) = 4 =>
          \A i \in 1..4 : ValidOctet(ip[i]) <=> ip[i] \in Numeral
    BY <1>2, SMT
  <2> QED BY <2>2, <2>3, <2>4, Zenon
<1> QED BY <1>4, <1>5

(* validateTuple accepts exactly what security.h calls well formed.        *)
THEOREM ValidationExact ==
  ASSUME NEW ft \in Tuple
  PROVE  validateTuple(ft) <=> WellFormed(ft)
<1>1. ft.src_ip \in Address /\ ft.dst_ip \in Address
  BY SMT DEF Tuple
<1>2. \A n \in 0..MaxPort : n # 0 <=> n \in 1..MaxPort
  BY SMT
<1>3. ft.src_port \in 0..MaxPort /\ ft.dst_port \in 0..MaxPort
  BY SMT DEF Tuple
<1>4. /\ ft.src_port # 0 <=> ft.src_port \in 1..MaxPort
      /\ ft.dst_port # 0 <=> ft.dst_port \in 1..MaxPort
  BY <1>2, <1>3, Zenon
<1> QED BY <1>1, <1>4, AddressIsQuad, Zenon DEF validateTuple, WellFormed
-----------------------------------------------------------------------------
(* The entries of a tracker are in order of age: a new one goes to the     *)
(* back with age 0, and the clock ages all of them.                        *)
OldestFirst(q) ==
  \A i, j \in 1..Len(q) : i <= j => q[i].age >= q[j].age

Tracker == {q \in Seq(Entry) : OldestFirst(q)}

Verdict == {NoVerdict, "payload", "tuple", "spoofing", "valid"}

Inv == subnet_trackers \in [Subnet -> Tracker] /\ verdict \in Verdict

(* Nothing is expired in q. *)
Fresh(q) == \A i \in 1..Len(q) : ~Expired(q[i])

(* The ages of a tracker are numbers.                                      *)
LEMMA EntryFields ==
  ASSUME NEW e \in Entry
  PROVE  e.age \in Nat /\ e.age <= Window + 1 /\ e.ip \in Source
BY SecurityAssumption DEF Entry

(* The loop that evicts stops: at the first fresh entry or at the end.     *)
LEMMA EvictionStops ==
  ASSUME NEW q \in Seq(Entry)
  PROVE  /\ ExpiredFront(q) \in 0..Len(q)
         /\ \A i \in 1..ExpiredFront(q) : Expired(q[i])
         /\ ExpiredFront(q) < Len(q) => ~Expired(q[ExpiredFront(q) + 1])
<1> DEFINE E == {i \in 1..Len(q) : Expired(q[i])}
<1>1. Len(q) \in Nat
  OBVIOUS
<1>2. \E n \in 0..Len(q) :
        /\ \A i \in 1..n : i \in E
        /\ n < Len(q) => n + 1 \notin E
  BY <1>1, ScanStops
<1>3. \E n \in 0..Len(q) :
        /\ \A i \in 1..n : Expired(q[i])
        /\ n < Len(q) => ~Expired(q[n + 1])
  BY <1>1, <1>2
<1> QED BY <1>3 DEF ExpiredFront

(* Eviction leaves a tracker of the entries that are fresh, and all those. *)
LEMMA EvictedTracker ==
  ASSUME NEW q \in Tracker
  PROVE  /\ evictExpired(q) \in Tracker /\ Fresh(evictExpired(q))
         /\ \A i \in 1..Len(evictExpired(q)) :
              \E j \in 1..Len(q) : evictExpired(q)[i] = q[j]
         /\ \A j \in 1..Len(q) : ~Expired(q[j]) =>
              \E i \in 1..Len(evictExpired(q)) : evictExpired(q)[i] = q[j]
<1> DEFINE n == ExpiredFront(q)
           p == evictExpired(q)
<1>1. q \in Seq(Entry) /\ Len(q) \in Nat /\ OldestFirst(q)
  BY DEF Tracker
<1>2. /\ n \in 0..Len(q)
      /\ \A i \in 1..n : Expired(q[i])
      /\ n < Len(q) => ~Expired(q[n + 1])
  BY <1>1, EvictionStops
<1>3. \A i \in 1..Len(q) : q[i].age \in Nat
  BY <1>1, EntryFields
<1> HIDE DEF n
<1>4. /\ p \in Seq(Entry)
      /\ Len(p) = Len(q) - n
      /\ \A i \in 1..(Len(q) - n) : p[i] = q[i + n] /\ i + n \in 1..Len(q)
  <2>1. n \in Nat /\ n <= Len(q) /\ Len(q) <= Len(q)
    BY <1>1, <1>2
  <2> QED BY <1>1, <2>1, Stretch, Zenon DEF evictExpired, n
<1> HIDE DEF p
<1>5. OldestFirst(p)
  <2> SUFFICES ASSUME NEW i \in 1..Len(p), NEW j \in 1..Len(p), i <= j
               PROVE  p[i].age >= p[j].age
    BY DEF OldestFirst
  <2>1. /\ i + n \in 1..Len(q) /\ j + n \in 1..Len(q) /\ i + n <= j + n
        /\ p[i] = q[i + n] /\ p[j] = q[j + n]
    BY <1>1, <1>2, <1>4
  <2> QED BY <1>1, <2>1 DEF OldestFirst
<1>6. Fresh(p)
  <2> SUFFICES ASSUME NEW i \in 1..Len(p)
               PROVE  ~Expired(p[i])
    BY DEF Fresh
  <2>1. /\ n + 1 \in 1..Len(q) /\ i + n \in 1..Len(q) /\ n + 1 <= i + n
        /\ p[i] = q[i + n] /\ n < Len(q)
    BY <1>1, <1>2, <1>4
  <2>2. q[n + 1].age >= q[i + n].age
    BY <1>1, <2>1 DEF OldestFirst
  <2>3. q[n + 1].age \in Nat /\ q[i + n].age \in Nat
    BY <1>3, <2>1
  <2> QED BY <1>2, <2>1, <2>2, <2>3, SecurityAssumption DEF Expired
<1>7. \A i \in 1..Len(p) : \E j \in 1..Len(q) : p[i] = q[j]
  BY <1>4
<1>8. ASSUME NEW j \in 1..Len(q), ~Expired(q[j])
      PROVE  \E i \in 1..Len(p) : p[i] = q[j]
  <2>1. j \notin 1..n
    BY <1>2, <1>8
  <2>2. j - n \in 1..(Len(q) - n) /\ (j - n) + n = j
    BY <1>1, <1>2, <2>1
  <2> QED BY <1>4, <2>2
<1> QED BY <1>4, <1>5, <1>6, <1>7, <1>8 DEF Tracker, p

(* An address noted at the back of fresh entries keeps the order.          *)
LEMMA NotedTracker ==
  ASSUME NEW p \in Tracker, Fresh(p), NEW ip \in Source
  PROVE  LET g == Append(p, NewEntry(ip))
         IN  /\ g \in Tracker /\ Fresh(g)
             /\ Len(g) = Len(p) + 1
             /\ \A i \in 1..Len(p) : g[i] = p[i]
             /\ g[Len(p) + 1] = [age |-> 0, ip |-> ip]
<1> DEFINE r == NewEntry(ip)
           g == Append(p, r)
<1>1. p \in Seq(Entry) /\ Len(p) \in Nat /\ OldestFirst(p)
  BY DEF Tracker
<1>2. r \in Entry /\ r.age = 0 /\ r = [age |-> 0, ip |-> ip]
  BY SecurityAssumption DEF NewEntry, Entry
<1> HIDE DEF r
<1>3. /\ g \in Seq(Entry)
      /\ Len(g) = Len(p) + 1
      /\ \A i \in 1..Len(p) : g[i] = p[i]
      /\ g[Len(p) + 1] = r
  BY <1>1, <1>2
<1>4. \A i \in 1..Len(p) : p[i].age \in Nat
  BY <1>1, EntryFields
<1> HIDE DEF g
<1>5. OldestFirst(g)
  BY <1>1, <1>2, <1>3, <1>4 DEF OldestFirst
<1>6. ~Expired(r)
  BY <1>2, SecurityAssumption DEF Expired
<1>7. Fresh(g)
  BY <1>1, <1>3, <1>6 DEF Fresh
<1> QED BY <1>2, <1>3, <1>5, <1>7 DEF Tracker, g, r

(* The clock ages all entries of a tracker alike.                          *)
LEMMA AgedTracker ==
  ASSUME NEW q \in Tracker
  PROVE  LET g == [i \in 1..Len(q) |-> Older(q[i])]
         IN  /\ g \in Tracker /\ Len(g) = Len(q)
             /\ \A i \in 1..Len(q) :
                  /\ g[i].ip = q[i].ip
                  /\ g[i].age = IF q[i].age <= Window THEN q[i].age + 1
                                ELSE q[i].age
<1> DEFINE g == [i \in 1..Len(q) |-> Older(q[i])]
<1>1. q \in Seq(Entry) /\ Len(q) \in Nat /\ OldestFirst(q)
  BY DEF Tracker
<1>2. ASSUME NEW e \in Entry
      PROVE  /\ Older(e) \in Entry
             /\ Older(e).ip = e.ip
             /\ Older(e).age = IF e.age <= Window THEN e.age + 1 ELSE e.age
  BY SecurityAssumption DEF Older, Entry
<1>3. \A i \in 1..Len(q) : q[i] \in Entry /\ q[i].age \in Nat
  BY <1>1, EntryFields
<1>4. g \in Seq(Entry) /\ Len(g) = Len(q)
  <2>1. g \in [1..Len(q) -> Entry]
    BY <1>2, <1>3
  <2> QED BY <1>1, <2>1
<1>5. \A i \in 1..Len(q) :
        /\ g[i].ip = q[i].ip
        /\ g[i].age = IF q[i].age <= Window THEN q[i].age + 1 ELSE q[i].age
  BY <1>2, <1>3
<1> HIDE DEF g
<1>6. OldestFirst(g)
  <2> SUFFICES ASSUME NEW i \in 1..Len(q), NEW j \in 1..Len(q), i <= j
               PROVE  g[i].age >= g[j].age
    BY <1>4 DEF OldestFirst
  <2>1. q[i].age >= q[j].age
    BY <1>1 DEF OldestFirst
  <2>2. q[i].age \in Nat /\ q[j].age \in Nat
    BY <1>3
  <2> QED BY <1>5, <2>1, <2>2, SecurityAssumption
<1> QED BY <1>4, <1>5, <1>6 DEF Tracker, g

(* A request that gets to spoof detection comes from a known subnet.       *)
LEMMA ValidSource ==
  ASSUME NEW ft \in Requests, validateTuple(ft)
  PROVE  ft.src_ip \in Source /\ getSubnet(ft.src_ip) \in Subnet
BY DEF Source, Subnet

(* Every step keeps every tracker in order.                                *)
LEMMA InvInductive == Spec => []Inv
<1>1. Init => Inv
  <2>1. <<>> \in Tracker
    BY DEF Tracker, OldestFirst
  <2> QED BY <2>1 DEF Init, Inv, Verdict
<1>2. ASSUME Inv, [Next]_vars PROVE Inv'
  <2>1. ASSUME NEW ft \in Requests, NEW size, fullValidation(ft, size)
        PROVE  Inv'
    <3>1. CASE verdict' \in {"payload", "tuple"} /\ UNCHANGED subnet_trackers
      BY <1>2, <3>1 DEF Inv, Verdict
    <3>2. CASE validateTuple(ft) /\ checkSpoofing(ft.src_ip)
      <4> DEFINE n == getSubnet(ft.src_ip)
                 p == evictExpired(subnet_trackers[n])
                 q == Append(p, NewEntry(ft.src_ip))
      <4>1. n \in Subnet /\ ft.src_ip \in Source
        BY <3>2, ValidSource
      <4>2. p \in Tracker /\ Fresh(p)
        BY <1>2, <4>1, EvictedTracker DEF Inv
      <4>3. q \in Tracker
        BY <4>1, <4>2, NotedTracker
      <4>4. /\ subnet_trackers' = [subnet_trackers EXCEPT ![n] = q]
            /\ verdict' \in {"spoofing", "valid"}
        BY <3>2 DEF checkSpoofing
      <4> HIDE DEF q, n
      <4> QED BY <1>2, <4>1, <4>3, <4>4 DEF Inv, Verdict
    <3> QED BY <2>1, <3>1, <3>2 DEF fullValidation
  <2>2. CASE Tick
    BY <1>2, <2>2, AgedTracker DEF Tick, Inv, Verdict
  <2>3. CASE UNCHANGED vars
    BY <1>2, <2>3 DEF vars, Inv
  <2> QED BY <1>2, <2>1, <2>2, <2>3 DEF Next
<1> QED BY <1>1, <1>2, PTL DEF Spec

(* The trackers hold entries of the addresses that validation lets         *)
(* through, and there is a tracker for each of their subnets.              *)
THEOREM TypeCorrect == Spec => []TypeOK
<1>1. Inv => TypeOK
  BY DEF Inv, Tracker, TypeOK, Verdict
<1> QED BY <1>1, InvInductive, PTL

(* The first check that fails decides, and what fails it is wrong with the *)
(* request: the verdict is the fault.                                      *)
THEOREM VerdictJustifiedHolds == Spec => []VerdictJustified
<1>1. Init => VerdictJustified
  BY DEF Init, VerdictJustified
<1>2. ASSUME VerdictJustified, [Next]_vars PROVE VerdictJustified'
  <2>1. ASSUME NEW ft \in Requests,
               NEW size \in {0, MaxPayload, MaxPayload + 1},
               fullValidation(ft, size)
        PROVE  VerdictJustified'
    <3>1. validatePayloadSize(size) <=> size \in 1..MaxPayload
      BY SecurityAssumption, SMT DEF validatePayloadSize
    <3>2. validateTuple(ft) <=> WellFormed(ft)
      BY SecurityAssumption, ValidationExact, Zenon
    <3>3. fault' = Fault(ft, size)
      BY <2>1 DEF fullValidation
    <3>4. CASE ~validatePayloadSize(size)
      <4>1. verdict' = "payload"
        BY <2>1, <3>4 DEF fullValidation
      <4>2. fault' = "payload"
        BY <3>1, <3>3, <3>4, Zenon DEF Fault
      <4> QED BY <4>1, <4>2 DEF VerdictJustified
    <3>5. CASE validatePayloadSize(size) /\ ~validateTuple(ft)
      <4>1. verdict' = "tuple"
        BY <2>1, <3>5 DEF fullValidation
      <4>2. fault' = "tuple"
        BY <3>1, <3>2, <3>3, <3>5, Zenon DEF Fault
      <4> QED BY <4>1, <4>2 DEF VerdictJustified
    <3>6. CASE validatePayloadSize(size) /\ validateTuple(ft)
      <4>1. verdict' \in {"spoofing", "valid"}
        BY <2>1, <3>6 DEF fullValidation, checkSpoofing
      <4>2. fault' = "none"
        BY <3>1, <3>2, <3>3, <3>6, Zenon DEF Fault
      <4> QED BY <4>1, <4>2 DEF VerdictJustified
    <3> QED BY <3>4, <3>5, <3>6
  <2>2. CASE Tick
    BY <2>2 DEF Tick, VerdictJustified
  <2>3. CASE UNCHANGED vars
    BY <1>2, <2>3 DEF vars, VerdictJustified
  <2> QED BY <1>2, <2>1, <2>2, <2>3 DEF Next
<1> QED BY <1>1, <1>2, PTL DEF Spec
-----------------------------------------------------------------------------
(* The youngest age of an address that counts is the age of one of its     *)
(* entries, and no other number is the least of them.                      *)
LEMMA YoungestIs ==
  ASSUME NEW q \in Tracker, NEW ip \in Recent(q)
  PROVE  /\ Youngest(q, ip) \in 0..Window
         /\ \E i \in 1..Len(q) : q[i] = [age |-> Youngest(q, ip), ip |-> ip]
         /\ \A i \in 1..Len(q) : q[i].ip = ip => q[i].age >= Youngest(q, ip)
<1> DEFINE T == {q[i].age : i \in {j \in 1..Len(q) : q[j].ip = ip}}
<1>1. q \in Seq(Entry) /\ \A i \in 1..Len(q) : q[i] \in Entry
  BY DEF Tracker
<1>2. PICK j \in 1..Len(q) : q[j].ip = ip /\ ~Expired(q[j])
  BY DEF Recent
<1>3. T \subseteq Nat /\ T # {}
  BY <1>1, <1>2, EntryFields
<1>4. PICK a \in T : \A b \in T : a <= b
  BY <1>3, LeastNatural
<1>5. PICK i \in 1..Len(q) : q[i].ip = ip /\ q[i].age = a
  BY <1>4
<1>6. a \in Nat /\ a <= q[j].age /\ q[j].age <= Window /\ q[j].age \in Nat
  BY <1>1, <1>2, <1>3, <1>4, EntryFields, SecurityAssumption DEF Expired
<1>7. q[i] = [age |-> a, ip |-> ip]
  BY <1>1, <1>5 DEF Entry
<1>8. \A k \in 1..Len(q) : q[k].ip = ip => q[k].age >= a
  BY <1>1, <1>4, <1>6, EntryFields
<1>9. a \in 0..Window
  BY <1>6, SecurityAssumption
<1> QED BY <1>7, <1>8, <1>9, Zenon DEF Youngest

(* So what has these two properties is the youngest age.                   *)
LEMMA OneYoungest ==
  ASSUME NEW q \in Tracker, NEW ip \in Recent(q), NEW a \in Nat,
         \E i \in 1..Len(q) : q[i].ip = ip /\ q[i].age = a,
         \A i \in 1..Len(q) : q[i].ip = ip => q[i].age >= a
  PROVE  Youngest(q, ip) = a
<1> DEFINE y == Youngest(q, ip)
<1>1. PICK i \in 1..Len(q) : q[i] = [age |-> y, ip |-> ip]
  BY YoungestIs
<1>2. y \in 0..Window /\ \A k \in 1..Len(q) : q[k].ip = ip => q[k].age >= y
  BY YoungestIs, Zenon
<1> HIDE DEF y
<1>3. y >= a
  BY <1>1
<1>4. a >= y
  BY <1>2
<1> QED BY <1>2, <1>3, <1>4, SecurityAssumption DEF y

(* Noting a request leaves the last ages of the abstract table, and the    *)
(* addresses the code counts are those on record there.                    *)
LEMMA NotedAges ==
  ASSUME NEW q \in Tracker, NEW ip \in Source
  PROVE  LET g == Append(evictExpired(q), NewEntry(ip))
         IN  /\ uniqueIps(g) = Recent(q) \cup {ip}
             /\ LastAges(g) = Detector!Noted(LastAges(q), ip)
<1> DEFINE p == evictExpired(q)
           g == Append(p, NewEntry(ip))
           m == Len(p) + 1
<1>1. /\ p \in Tracker /\ Fresh(p)
      /\ \A i \in 1..Len(p) : \E j \in 1..Len(q) : p[i] = q[j]
      /\ \A j \in 1..Len(q) : ~Expired(q[j]) =>
           \E i \in 1..Len(p) : p[i] = q[j]
  BY EvictedTracker
<1> HIDE DEF p
<1>2. /\ g \in Tracker /\ Fresh(g) /\ Len(g) = m
      /\ \A i \in 1..Len(p) : g[i] = p[i]
      /\ g[m] = [age |-> 0, ip |-> ip]
  BY <1>1, NotedTracker
<1>3. Len(p) \in Nat /\ q \in Seq(Entry) /\ g \in Seq(Entry)
  BY <1>1, <1>2 DEF Tracker
<1> HIDE DEF g
<1>4. \A i \in 1..Len(g) : i = m \/ i \in 1..Len(p)
  BY <1>2, <1>3
<1>5. m \in 1..Len(g) /\ 1..Len(p) \subseteq 1..Len(g)
  BY <1>2, <1>3
<1> HIDE DEF m
<1>6. Recent(g) = Recent(q) \cup {ip}
  <2>1. ASSUME NEW i \in 1..Len(g)
        PROVE  g[i].ip \in Recent(q) \cup {ip}
    <3>1. CASE i = m
      BY <3>1, <1>2
    <3>2. CASE i \in 1..Len(p)
      <4>1. PICK j \in 1..Len(q) : p[i] = q[j]
        BY <1>1, <3>2
      <4>2. g[i] = q[j] /\ ~Expired(q[j])
        BY <1>1, <1>2, <3>2, <4>1 DEF Fresh
      <4> QED BY <4>2 DEF Recent
    <3> QED BY <1>4, <3>1, <3>2
  <2>2. ASSUME NEW j \in 1..Len(q), ~Expired(q[j])
        PROVE  q[j].ip \in Recent(g)
    <3>1. PICK i \in 1..Len(p) : p[i] = q[j]
      BY <1>1, <2>2
    <3>2. i \in 1..Len(g) /\ g[i] = q[j] /\ ~Expired(g[i])
      BY <1>2, <1>5, <3>1, <2>2
    <3> QED BY <3>2 DEF Recent
  <2>3. ip \in Recent(g)
    BY <1>2, <1>5 DEF Recent, Fresh
  <2> QED BY <2>1, <2>2, <2>3 DEF Recent
<1>7. uniqueIps(g) = Recent(g)
  BY <1>2 DEF uniqueIps, Recent, Fresh
<1>8. Youngest(g, ip) = 0
  <2>1. ip \in Recent(g) /\ 0 \in Nat
    BY <1>6
  <2>2. \A i \in 1..Len(g) : g[i].age >= 0
    BY <1>3, EntryFields
  <2>3. \E i \in 1..Len(g) : g[i].ip = ip /\ g[i].age = 0
    BY <1>2, <1>5
  <2> QED BY <1>2, <2>1, <2>2, <2>3, OneYoungest
<1>9. ASSUME NEW x \in Recent(q), x # ip
      PROVE  Youngest(g, x) = Youngest(q, x)
  <2> DEFINE a == Youngest(q, x)
  <2>1. PICK j \in 1..Len(q) : q[j] = [age |-> a, ip |-> x]
    BY YoungestIs
  <2>2. a \in 0..Window /\ \A k \in 1..Len(q) : q[k].ip = x => q[k].age >= a
    BY YoungestIs, Zenon
  <2> HIDE DEF a
  <2>3. ~Expired(q[j]) /\ a \in Nat
    BY <2>1, <2>2, SecurityAssumption DEF Expired
  <2>4. PICK i \in 1..Len(p) : p[i] = q[j]
    BY <1>1, <2>3
  <2>5. i \in 1..Len(g) /\ g[i].ip = x /\ g[i].age = a
    BY <1>2, <1>5, <2>1, <2>4
  <2>6. ASSUME NEW k \in 1..Len(g), g[k].ip = x
        PROVE  g[k].age >= a
    <3>1. k \in 1..Len(p)
      BY <1>2, <1>4, <1>9, <2>6
    <3>2. PICK l \in 1..Len(q) : p[k] = q[l]
      BY <1>1, <3>1
    <3> QED BY <1>2, <2>2, <2>6, <3>1, <3>2
  <2>7. x \in Recent(g)
    BY <1>6
  <2> QED BY <1>2, <2>3, <2>5, <2>6, <2>7, OneYoungest DEF a
<1>10. LastAges(g) = Detector!Noted(LastAges(q), ip)
  <2>1. DOMAIN LastAges(q) = Recent(q)
    BY DEF LastAges
  <2>2. \A x \in Recent(g) :
          Youngest(g, x) = IF x = ip THEN 0 ELSE LastAges(q)[x]
    BY <1>6, <1>8, <1>9 DEF LastAges
  <2> QED BY <1>6, <2>1, <2>2 DEF LastAges, Detector!Noted
<1> QED BY <1>6, <1>7, <1>10 DEF g, p

(* Ageing the entries ages the last ages, and lets the oldest go.          *)
LEMMA AgedAges ==
  ASSUME NEW q \in Tracker
  PROVE  LastAges([i \in 1..Len(q) |-> Older(q[i])])
           = Detector!Aged(LastAges(q))
<1> DEFINE g == [i \in 1..Len(q) |-> Older(q[i])]
           old == {x \in Recent(q) : Youngest(q, x) < Window}
<1>1. /\ g \in Tracker /\ Len(g) = Len(q)
      /\ \A i \in 1..Len(q) :
           /\ g[i].ip = q[i].ip
           /\ g[i].age = IF q[i].age <= Window THEN q[i].age + 1
                         ELSE q[i].age
  BY AgedTracker
<1> HIDE DEF g
<1>2. \A i \in 1..Len(q) : q[i].age \in Nat
  BY EntryFields DEF Tracker
<1>3. ASSUME NEW x \in Recent(g)
      PROVE  x \in old
  <2>1. PICK i \in 1..Len(q) : g[i].ip = x /\ ~Expired(g[i])
    BY <1>1 DEF Recent
  <2>2. q[i].ip = x /\ q[i].age < Window
    BY <1>1, <1>2, <2>1, SecurityAssumption DEF Expired
  <2>3. ~Expired(q[i])
    BY <1>2, <2>2, SecurityAssumption DEF Expired
  <2>4. x \in Recent(q)
    BY <2>2, <2>3 DEF Recent
  <2>5. Youngest(q, x) \in 0..Window /\ q[i].age >= Youngest(q, x)
    BY <2>2, <2>4, YoungestIs, Zenon
  <2>6. Youngest(q, x) < Window
    BY <1>2, <2>2, <2>5, SecurityAssumption
  <2> QED BY <2>4, <2>6
<1>4. ASSUME NEW x \in old
      PROVE  x \in Recent(g) /\ Youngest(g, x) = Youngest(q, x) + 1
  <2> DEFINE a == Youngest(q, x)
  <2>1. PICK i \in 1..Len(q) : q[i] = [age |-> a, ip |-> x]
    BY YoungestIs
  <2>2. a \in 0..Window /\ \A k \in 1..Len(q) : q[k].ip = x => q[k].age >= a
    BY YoungestIs, Zenon
  <2>3. a < Window
    OBVIOUS
  <2> HIDE DEF a
  <2>4. g[i].ip = x /\ g[i].age = a + 1 /\ a + 1 \in Nat
    BY <1>1, <2>1, <2>2, <2>3, SecurityAssumption
  <2>5. x \in Recent(g)
    BY <1>1, <2>2, <2>3, <2>4, SecurityAssumption DEF Recent, Expired
  <2>6. ASSUME NEW k \in 1..Len(g), g[k].ip = x
        PROVE  g[k].age >= a + 1
    <3>1. k \in 1..Len(q) /\ q[k].ip = x
      BY <1>1, <2>6
    <3>2. q[k].age \in Nat /\ q[k].age >= a /\ a \in Nat
      BY <1>2, <2>2, <3>1
    <3>3. g[k].age = IF q[k].age <= Window THEN q[k].age + 1 ELSE q[k].age
      BY <1>1, <3>1
    <3> HIDE DEF old
    <3> QED BY <2>3, <3>2, <3>3, SecurityAssumption
  <2>7. Youngest(g, x) = a + 1
    BY <1>1, <2>4, <2>5, <2>6, OneYoungest
  <2> QED BY <2>5, <2>7 DEF a
<1>5. Recent(g) = old
  BY <1>3, <1>4
<1>6. LastAges(g) = [x \in old |-> Youngest(q, x) + 1]
  BY <1>4, <1>5 DEF LastAges
<1>7. DOMAIN LastAges(q) = Recent(q)
  BY DEF LastAges
<1>8. \A x \in Recent(q) : LastAges(q)[x] = Youngest(q, x)
  BY DEF LastAges
<1> QED BY <1>6, <1>7, <1>8 DEF Detector!Aged, g

(* The abstract table counts as the code does.                             *)
LEMMA SameCardinality ==
  \A S : Detector!Cardinality(S) = Cardinality(S)
BY DEF Detector!Cardinality, Cardinality

(* One entry per request, popped once they have expired and only when the  *)
(* subnet is asked about again, decides every request as the table of when *)
(* each address was last seen does.                                        *)
THEOREM ImplementsLastSeenHolds == Spec => ImplementsLastSeen
<1> DEFINE seen == [n \in Subnet |-> LastAges(subnet_trackers[n])]
<1>1. Init => Detector!Init
  <2>1. Recent(<<>>) = {}
    BY DEF Recent
  <2>2. LastAges(<<>>) = [h \in {} |-> 0]
    BY <2>1 DEF LastAges
  <2> QED BY <2>2 DEF Init, Detector!Init
<1>2. ASSUME Inv, [Next]_vars
      PROVE  [Detector!Next]_Detector!vars
  <2>1. ASSUME NEW ft \in Requests, NEW size, fullValidation(ft, size)
        PROVE  \/ Detector!Malformed
               \/ \E n \in Subnet, h \in Source : Detector!Request(n, h)
    <3>1. CASE verdict' \in {"payload", "tuple"} /\ UNCHANGED subnet_trackers
      BY <3>1 DEF Detector!Malformed
    <3>2. CASE validateTuple(ft) /\ checkSpoofing(ft.src_ip)
      <4> DEFINE ip == ft.src_ip
                 n == getSubnet(ip)
                 old == subnet_trackers[n]
                 p == evictExpired(old)
                 q == Append(p, NewEntry(ip))
      <4>1. n \in Subnet /\ ip \in Source
        BY <3>2, ValidSource
      <4>2. old \in Tracker
        BY <1>2, <4>1 DEF Inv
      <4>3. uniqueIps(q) = Recent(old) \cup {ip}
        BY <4>1, <4>2, NotedAges, Zenon
      <4>4. LastAges(q) = Detector!Noted(LastAges(old), ip)
        BY <4>1, <4>2, NotedAges, Zenon
      <4>5. /\ subnet_trackers' = [subnet_trackers EXCEPT ![n] = q]
            /\ verdict' = IF Cardinality(uniqueIps(q)) > MaxHosts
                          THEN "spoofing" ELSE "valid"
        BY <3>2 DEF checkSpoofing
      <4>6. DOMAIN Detector!Noted(LastAges(old), ip) = uniqueIps(q)
        BY <4>3 DEF Detector!Noted, LastAges
      <4>7. seen[n] = LastAges(old)
        BY <4>1
      <4> HIDE DEF q, old, n, ip
      <4>8. seen' = [seen EXCEPT ![n] = LastAges(q)]
        BY <1>2, <4>1, <4>5 DEF Inv
      <4> HIDE DEF seen
      <4>9. seen' = [seen EXCEPT ![n] = Detector!Noted(@, ip)]
        BY <4>4, <4>7, <4>8
      <4>10. verdict' =
               IF Detector!Cardinality(DOMAIN Detector!Noted(seen[n], ip))
                    > MaxHosts
               THEN "spoofing" ELSE "valid"
        BY <4>5, <4>6, <4>7, SameCardinality
      <4>11. Detector!Request(n, ip)
        BY <4>9, <4>10 DEF Detector!Request, seen
      <4> QED BY <4>1, <4>11
    <3> QED BY <2>1, <3>1, <3>2 DEF fullValidation
  <2>2. ASSUME Tick
        PROVE  Detector!Tick
    <3>1. ASSUME NEW n \in Subnet
          PROVE  LastAges(subnet_trackers'[n])
                   = Detector!Aged(LastAges(subnet_trackers[n]))
      BY <1>2, <2>2, AgedAges DEF Inv, Tick
    <3> QED BY <2>2, <3>1 DEF Tick, Detector!Tick, NoVerdict
  <2>3. ASSUME UNCHANGED vars
        PROVE  UNCHANGED Detector!vars
    BY <2>3 DEF vars, Detector!vars
  <2> QED BY <1>2, <2>1, <2>2, <2>3 DEF Next, Detector!Next
<1> QED BY <1>1, <1>2, InvInductive, PTL
        DEF Spec, ImplementsLastSeen, Detector!Spec
=============================================================================
