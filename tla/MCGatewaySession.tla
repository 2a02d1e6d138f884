--------------------------- MODULE MCGatewaySession ---------------------------
(* Instances of GatewaySession for TLC. *)
EXTENDS GatewaySession, TLC

CONSTANTS p1, p2, gwA, gwB, a1, a2, b1

\* One connection per instance, and a second one on gwA.
TwoGateways == a1 :> gwA @@ a2 :> gwA @@ b1 :> gwB
OnlyConn    == a1 :> gwA
FirstConns  == a1 :> gwA @@ b1 :> gwB

\* Distinct numbers; the two connections of gwA may come from the TCP and the
\* WebSocket server, whose counters both start at 1.
DistinctIDs == a1 :> 1 @@ a2 :> 2 @@ b1 :> 1
OnlyID      == a1 :> 1
CrossIDs    == a1 :> 1 @@ b1 :> 1

EveryPlayer == [c \in Conns |-> Players]

\* Both players use the first connection, in turn; p1 alone uses the others.
SharedConn == a1 :> {p1, p2} @@ a2 :> {p1} @@ b1 :> {p1}
===============================================================================
