------------------------------ MODULE MCMining ------------------------------
(* Two Miners at a site of two clusters, through one turn of the calendar   *)
(* that shuffles what lies where.  The first ore is bulky: a hold takes one *)
(* unit of it, or two of the second.                                        *)
EXTENDS Mining

MCPristine == [e \in 0..1 |-> IF e = 0 THEN <<<<2, 0>>, <<0, 1>>>> ELSE <<<<0, 1>>, <<0, 0>>>>]
MCVolume == <<1, 1>>
MCPerCycle == <<2, 1>>

=============================================================================
