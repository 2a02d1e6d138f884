----------------------------- MODULE FrameStream -----------------------------
(* What the downlink of a battle promises a client: every frame handed to the game is *)
(* a frame the battle has published, whole, and over an ordered connection the frames *)
(* only go forward. Which frames a client gets is not promised.                       *)
EXTENDS Naturals

CONSTANTS Clients, None

VARIABLES
    frames,     \* the frames published so far
    view,       \* the frame a client was handed last
    line        \* how a client is connected: "stream" or "datagram"

vars == <<frames, view, line>>

Init ==
    /\ frames = {}
    /\ view = [p \in Clients |-> None]
    /\ line \in [Clients -> {"stream", "datagram"}]

\* One more frame, with a number that has not been used.
Publish ==
    /\ \E f \in frames' : /\ frames' = frames \cup {f}
                          /\ \A g \in frames : g.id < f.id
    /\ UNCHANGED <<view, line>>

Later(f, g) == g = None \/ g.id < f.id

Deliver(p, f) ==
    /\ f \in frames
    /\ line[p] = "stream" => Later(f, view[p])
    /\ view' = [view EXCEPT ![p] = f]
    /\ UNCHANGED <<frames, line>>

Switch(p, l) ==
    /\ line' = [line EXCEPT ![p] = l]
    /\ UNCHANGED <<frames, view>>

Next ==
    \/ Publish
    \/ \E p \in Clients : \E f \in frames : Deliver(p, f)
    \/ \E p \in Clients, l \in {"stream", "datagram"} : Switch(p, l)

Spec == Init /\ [][Next]_vars
===============================================================================
