------------------------------ MODULE FiveTuple ------------------------------
(***************************************************************************)
(* The 5-tuple that identifies a session, and its text on the wire         *)
(* (common.h).  A text is the sequence of the tokens between its           *)
(* separators, a token the sequence of its characters: 0 .. 9 for the      *)
(* digits, Letter and Minus; an address is in turn the sequence of its     *)
(* pieces between the dots, and the name of a protocol, which is compared  *)
(* as a whole, is one character of its own.                                *)
(***************************************************************************)
EXTENDS Integers, Sequences

Letter == 10
Minus == 11

TCP == <<12>>
UDP == <<13>>
ICMP == <<14>>

MaxPort == 65535

Address == Seq(Seq(0..Letter))

(* The protocol is that of the code in upper case. *)
Tuple ==
  [src_ip : Address, src_port : 0..MaxPort,
   dst_ip : Address, dst_port : 0..MaxPort,
   protocol : {TCP, UDP, ICMP}]

(* std::getline does not deliver an empty token at the end of the text.    *)
getline(tokens) ==
  IF tokens # <<>> /\ tokens[Len(tokens)] = <<>>
  THEN SubSeq(tokens, 1, Len(tokens) - 1) ELSE tokens

Tens == <<1, 10, 100, 1000, 10000, 100000>>

(* std::to_string of a port. *)
to_string(n) ==
  LET width == CHOOSE w \in 1..5 :
                 n < Tens[w + 1] /\ (w > 1 => n >= Tens[w])
  IN  [i \in 1..width |-> (n \div Tens[width - i + 1]) % 10]

MaxInt == 2147483647

(* Where stoi throws: its callers refuse a negative number all the same.   *)
Thrown == -1

(* One digit more, unless the number would not be an int.                  *)
Pushed(v, d) ==
  IF v # Thrown /\ v <= (MaxInt - d) \div 10 THEN 10 * v + d ELSE Thrown

(* What the first i characters of a token come to, for every i.            *)
Values(token) ==
  LET value[i \in 0..Len(token)] ==
        IF i = 0 THEN 0 ELSE Pushed(value[i - 1], token[i])
  IN  value

(* The number of digits a token starts with.                               *)
Digits(token) ==
  CHOOSE m \in 0..Len(token) :
    /\ \A i \in 1..m : token[i] \in 0..9
    /\ m < Len(token) => token[m + 1] \notin 0..9

(* std::stoi of a token without blanks: an optional sign, then as many     *)
(* digits as there are; what follows them is ignored.  It throws if there  *)
(* is no digit, or if the number is not an int.                            *)
stoi(token) ==
  LET negative == token # <<>> /\ token[1] = Minus
      rest == IF negative THEN Tail(token) ELSE token
      n == Digits(rest)
      v == Values(rest)[n]
  IN  IF n = 0 \/ v = Thrown THEN Thrown ELSE IF negative THEN -v ELSE v

serialize(ft) ==
  <<ft.src_ip, to_string(ft.src_port), ft.dst_ip, to_string(ft.dst_port),
    ft.protocol>>

(* Mutant: MaxPort is taken for one too many.                              *)
PortBelow(token) == stoi(token) \in 0..(MaxPort - 1)

Port(token) == stoi(token) \in 0..MaxPort

(* The result of deserialize, and what it leaves in the caller's tuple:    *)
(* the addresses and the protocol are written before the ports are read,   *)
(* a port only if both are good.                                           *)
deserialize(text, out) ==
  LET tokens == getline(text)
      WithPorts(sp, dp) ==
        [src_ip |-> tokens[1], src_port |-> sp,
         dst_ip |-> tokens[3], dst_port |-> dp, protocol |-> tokens[5]]
  IN  CASE Len(tokens) < 5 -> [ok |-> FALSE, out |-> out]
        [] Len(tokens) >= 5 /\ Port(tokens[2]) /\ Port(tokens[4]) ->
             [ok |-> TRUE,
              out |-> WithPorts(stoi(tokens[2]), stoi(tokens[4]))]
        [] OTHER ->
             [ok |-> FALSE, out |-> WithPorts(out.src_port, out.dst_port)]
=============================================================================
