----------------------------- MODULE MCSessions -----------------------------
(* Sessions for TLC: two clients, two grids, and two commanders at home on   *)
(* one of them with a third on the other.                                    *)
EXTENDS Sessions

CONSTANTS Alice, Bob

MCClients == {Alice, Bob}
MCGrids == 1..2
MCHomeGrid == [p \in Players |-> IF p = 3 THEN 2 ELSE 1]

=============================================================================
