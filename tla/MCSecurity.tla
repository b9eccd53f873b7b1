----------------------------- MODULE MCSecurity -----------------------------
(* Two addresses in one subnet, and one with a dot at its end, which the   *)
(* code files elsewhere; a second address in one window is one too many.   *)
(* The other tuples have one fault each.                                   *)
EXTENDS Security

Ip(a, b, c, d) == <<a, b, c, d>>

One == <<1>>
Ten == <<1, 0>>

Inside == Ip(Ten, <<0>>, <<0>>, One)

From(ip) ==
  [src_ip |-> ip, src_port |-> 1, dst_ip |-> Inside, dst_port |-> 65535,
   protocol |-> UDP]

First == Ip(Ten, <<2, 5, 5>>, <<0>>, One)

Crafted ==
  {From(First), From(Ip(Ten, <<2, 5, 5>>, <<0>>, <<2, 5, 4>>)),
   From(Append(First, <<>>))}
    \cup {[From(First) EXCEPT !.src_port = 0],
          [From(First) EXCEPT !.dst_port = 0],
          [From(First) EXCEPT !.protocol = ICMP],
          [From(First) EXCEPT !.dst_ip = Ip(One, One, One, <<2, 5, 6>>)]}
    \cup {From(ip) : ip \in
            {<<<<>>>>, <<Ten, One, One>>, <<Ten, One, One, One, One>>,
             <<Ten, <<>>, One, One>>, Ip(One, One, <<0, 1>>, One),
             Ip(One, One, One, <<Letter>>), Ip(<<1, 0, 0, 0>>, One, One, One),
             Ip(<<9, 9, 9>>, One, One, One),
             <<Ten, One, One, One, <<>>, <<>>>>}}

(* Texts as they may arrive: those of the requests, with a token more, a   *)
(* separator more, a token less; and ports that are signed, too large for  *)
(* a port or for an int, trailed by letters, padded or missing.            *)
Ports ==
  {<<>>, <<0>>, <<0, 8, 0>>, <<8, 0, Letter>>, <<Letter, 8>>, <<Minus, 8>>,
   <<Minus>>, <<6, 5, 5, 3, 5>>, <<6, 5, 5, 3, 6>>,
   <<2, 1, 4, 7, 4, 8, 3, 6, 4, 8>>, <<9, 9, 9, 9, 9, 9, 9, 9, 9, 9>>}

Texts ==
  LET Plain == {serialize(ft) : ft \in Crafted}
  IN  Plain
        \cup {Append(t, <<>>) : t \in Plain}
        \cup {Append(t, <<Letter>>) : t \in Plain}
        \cup {SubSeq(t, 1, 4) : t \in Plain}
        \cup {[serialize(From(First)) EXCEPT ![i] = p] :
                 i \in {2, 4}, p \in Ports}

Received == {deserialize(t, From(First)) : t \in Texts}

(* What arrives: the tuples above, and those read from a text.             *)
MCRequests == Crafted \cup {r.out : r \in {q \in Received : q.ok}}
=============================================================================
