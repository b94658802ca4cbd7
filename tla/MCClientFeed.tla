---------------------------- MODULE MCClientFeed ----------------------------
(* The instance of ClientFeed that TLC checks: a port and a gate in one      *)
(* system, the far side of the gate in another.  From the port a route to    *)
(* the other system has two legs.  Another commander may give one order at   *)
(* the port, the first of their client.                                      *)
EXTENDS ClientFeed, TLC

CONSTANTS port, gate, far

MCAnchors == {port, gate, far}
MCSystem == (port :> "here") @@ (gate :> "here") @@ (far :> "there")
MCPair == (gate :> far) @@ (far :> gate)
MCStrangers == {<<port, 1>>}
MCRouteOf == [p \in {"here", "there"} \X {"here", "there"} |->
                IF p[1] = p[2] THEN <<p[1]>> ELSE <<p[1], p[2]>>]
=============================================================================
