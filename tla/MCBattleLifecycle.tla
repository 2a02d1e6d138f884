-------------------------- MODULE MCBattleLifecycle --------------------------
(* Instances of BattleLifecycle for TLC. *)
EXTENDS BattleLifecycle, TLC

CONSTANTS p1, p2, p3, a1, a2

\* Two connections of p1; the others never connect.
Takeover == a1 :> p1 @@ a2 :> p1
===============================================================================
