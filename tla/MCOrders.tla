------------------------------ MODULE MCOrders ------------------------------
(* Two ships of different spool, a field, a station and one more place, and *)
(* the shortest clocks at which a straggler, a linger and a spool differ.   *)
EXTENDS Orders

CONSTANTS s1, s2

MCShips == {s1, s2}
MCSpoolTicks == [s \in Ships |-> IF s = s1 THEN 0 ELSE 1]

\* A spool longer than a leg.
MCLongSpoolTicks == [s \in Ships |-> 3]

=============================================================================
