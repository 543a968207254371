----------------------------- MODULE MCFtRounds -----------------------------
(* Values for TLC: rounds of two threads with two calls each, and all        *)
(* histories of three records over few tickets, values and times.            *)
EXTENDS FtRounds

Made ==
  {[ticket |-> t, values |-> v, start |-> i[1], end |-> i[2]] :
     t \in 0 .. 2, v \in {<<1>>, <<2>>, <<3>>, <<1, 2>>, <<2, 3>>},
     i \in {<<0, 0>>, <<0, 1>>, <<1, 1>>, <<1, 2>>, <<2, 2>>}}

MCHistories ==
  {<<<<r, s>>>> : r, s \in Made}
    \cup {<<<<r, s, t>>>> : r \in {m \in Made : m.ticket = 0 /\ m.values = <<1>>},
                            s, t \in {m \in Made : Len(m.values) = 1}}
=============================================================================
