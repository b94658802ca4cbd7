----------------------------- MODULE MCRefinery -----------------------------
(* Two commanders at a station of tier one that may be raised to two: the  *)
(* upgrade adds a slot, shortens a batch and starts to refund.             *)
EXTENDS Refinery

CONSTANTS p1, p2

MCPlayers == {p1, p2}
MCCargo == [p \in Players |-> IF p = p1 THEN 3 ELSE 2]
MCStored == [p \in Players |-> IF p = p1 THEN 1 ELSE 0]
MCBatches == {1, 2}
MCRecipeCap == <<1, 2>>
MCSlots == <<1, 2>>
MCRefundPct == <<0, 50>>
MCJobTicks == <<<<1, 3>>, <<1, 2>>>>
MCProjectCost == <<1, 2>>

=============================================================================
