---------------------------- MODULE MCFrameDelta -----------------------------
(* Instances of FrameDelta for TLC. *)
EXTENDS FrameDelta, TLC

CONSTANTS a, b, x, y, s, t1, t2

\* Both players; one has gone and the other has a new input; nothing but time and a
\* snapshot has changed.
Both  == [time |-> t1, inputs |-> a :> x @@ b :> x, snap |-> None, hash |-> x]
Saved == [time |-> t2, inputs |-> a :> y @@ b :> None, snap |-> s, hash |-> x]


TwoContents == {Both, Saved}
===============================================================================
