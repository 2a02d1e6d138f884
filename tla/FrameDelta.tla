------------------------------ MODULE FrameDelta ------------------------------
(* The frames of one battle on their way to its clients: the chain of differences and *)
(* the baseline of each connection in the stream registry (stream/delta.go,           *)
(* stream/registry.go), the wire, and the decoder of the client (lib/downlink).       *)
(* Publishing, negotiation and keyframe requests are turns of the battle actor and    *)
(* come one after the other; connections come and go in between their steps.          *)
EXTENDS Naturals, FiniteSets

CONSTANTS
    Players,     \* those with inputs in frames
    Clients,     \* those frames are published to
    Payloads, Times, Snapshots, Hashes,
    None,
    Contents,    \* what the session may put into a frame
    KeyEvery,    \* DeltaConfig.KeyframeEvery
    Datagrams,   \* numbers of connections over UDP
    MaxFrames,   \* bound: frames of the battle
    MaxConns,    \* bound: connections a client opens
    Faults       \* "loss", "push", "encode", "reorder"

\* The inputs of a frame by player, None where there is none; each carries the number of
\* its frame.
Input   == [frame : Nat, payload : Payloads]
Frame   == [id : Nat, time : Times, inputs : [Players -> Input \cup {None}],
            snap : Snapshots \cup {None}, hash : Hashes]
Content == [time : Times, inputs : [Players -> Payloads \cup {None}],
            snap : Snapshots \cup {None}, hash : Hashes]

ASSUME DeltaAssumption ==
    /\ KeyEvery \in Nat \ {0} /\ MaxFrames \in Nat /\ MaxConns \in Nat
    /\ Contents \subseteq Content
    /\ None \notin Frame /\ None \notin Input /\ None \notin Payloads

VARIABLES
    \* the registry
    link,        \* r.links: the frame published last
    conns,       \* r.conns: number of the client's registered connection, 0 without one
    lastSeq, payloadVer, wanted,   \* clientState: seq, "full" or "delta", keyframeRequested
    limited,     \* the window of lastKeyframeReq is open
    plan,        \* the tick being published
    \* clients and the wire
    conn,        \* the connection the client uses, 0 before the first
    open,
    wire,        \* messages to it under way
    ask,         \* a keyframe request under way
    view,        \* Decoder.full
    pending,     \* Decoder.pending
    \* history
    seq, frames, \* frames of the battle
    lossy,       \* something was lost on the connection
    calm, sent   \* messages since that have not been lost; number of the last one

registry == <<link, conns, lastSeq, payloadVer, wanted, limited, plan>>
states   == <<lastSeq, payloadVer, wanted, limited>>
client   == <<conn, open, wire, ask, view, pending>>
decoder  == <<ask, view, pending>>
record   == <<seq, frames, lossy, calm, sent>>
quality  == <<lossy, calm, sent>>
vars == <<registry, client, record>>

Target == [who : Clients, conn : Nat, full : {"yes", "no"}]

\* The fields of a difference that have changed, and a tick on its way to the clients.
Difference == [base : Nat, id : Nat, hash : Hashes, time : SUBSET Times,
               set : [Players -> Input \cup {None}], removed : SUBSET Players,
               snap : SUBSET (Snapshots \cup {None})]
PlanOf == [frame : Frame, todo : SUBSET Target, at : {"encode", "push"},
           sent : Target \cup {None}, delta : Difference \cup {None}]

ASSUME NoneAssumption == None \notin Target \cup PlanOf

Init ==
    /\ link = None
    /\ conns = [p \in Clients |-> 0]
    /\ lastSeq = [p \in Clients |-> 0]
    /\ payloadVer = [p \in Clients |-> "full"]
    /\ wanted = [p \in Clients |-> "no"] /\ limited = [p \in Clients |-> "no"]
    /\ plan = None
    /\ conn = [p \in Clients |-> 0] /\ open = [p \in Clients |-> "no"]
    /\ wire = [p \in Clients |-> {}] /\ ask = [p \in Clients |-> "no"]
    /\ view = [p \in Clients |-> None] /\ pending = [p \in Clients |-> "no"]
    /\ seq = 0 /\ frames = {}
    /\ lossy = [p \in Clients |-> "no"]
    /\ calm = [p \in Clients |-> 0] /\ sent = [p \in Clients |-> 0]

Set(f, p, v) == [f EXCEPT ![p] = v]
-------------------------------------------------------------------------------
(* The codec *)

\* onFrameResult: the frame of what the session has put together.
Stamp(c, n) ==
    [id |-> n, time |-> c.time, snap |-> c.snap, hash |-> c.hash,
     inputs |-> [q \in Players |->
                    IF c.inputs[q] = None THEN None
                    ELSE [frame |-> n, payload |-> c.inputs[q]]]]

SameInput(i, j) == i # None /\ j # None /\ i.payload = j.payload

\* diffFrames: a field that is not empty has changed.
Diff(prev, cur) ==
    [base |-> prev.id, id |-> cur.id, hash |-> cur.hash,
     time |-> IF prev.time = cur.time THEN {} ELSE {cur.time},
     set |-> [q \in Players |->
                 IF SameInput(prev.inputs[q], cur.inputs[q]) THEN None ELSE cur.inputs[q]],
     removed |-> {q \in Players : prev.inputs[q] # None /\ cur.inputs[q] = None},
     snap |-> IF prev.snap = cur.snap THEN {} ELSE {cur.snap}]

\* A field that is not among the changed ones keeps the value of the base.
Replaced(field, base) == IF field = {} THEN base ELSE CHOOSE v \in field : TRUE

\* rewriteFrame
Rewrite(i, n) == [frame |-> n, payload |-> i.payload]

MergeInput_KeepRemoved(i, d, q) ==
    IF d.set[q] # None THEN Rewrite(d.set[q], d.id)
    ELSE IF i = None THEN None
    ELSE Rewrite(i, d.id)

\* mergeInputs, for the input of one player.
MergeInput(i, d, q) ==
    IF d.set[q] # None THEN Rewrite(d.set[q], d.id)
    ELSE IF q \in d.removed \/ i = None THEN None
    ELSE Rewrite(i, d.id)

Merge(base, d) ==
    [id |-> d.id, time |-> Replaced(d.time, base.time),
     snap |-> Replaced(d.snap, base.snap), hash |-> d.hash,
     inputs |-> [q \in Players |-> MergeInput(base.inputs[q], d, q)]]
-------------------------------------------------------------------------------
(* A tick: PublishFrames *)

LinkOK(n) == link # None /\ link.id + 1 = n

Full_NoPeriod(p, n) ==
    \/ payloadVer[p] # "delta" \/ conns[p] \in Datagrams
    \/ ~LinkOK(n) \/ lastSeq[p] + 1 # n \/ wanted[p] = "yes"

\* decide: whether the client gets the whole frame.
Full(p, n) ==
    \/ payloadVer[p] # "delta" \/ conns[p] \in Datagrams
    \/ ~LinkOK(n) \/ lastSeq[p] + 1 # n \/ wanted[p] = "yes" \/ n % KeyEvery = 0

Targets(n) ==
    {[who |-> p, conn |-> conns[p], full |-> IF Full(p, n) THEN "yes" ELSE "no"] :
        p \in {q \in Clients : conns[q] # 0}}

\* buildPlan: the difference is computed once, and only if some connection gets it.
Plan(f) ==
    [frame |-> f, todo |-> Targets(f.id), at |-> "encode", sent |-> None,
     delta |-> IF \A t \in Targets(f.id) : t.full = "yes" THEN None ELSE Diff(link, f)]

Tick(c) ==
    /\ plan = None /\ seq < MaxFrames
    /\ seq' = seq + 1
    /\ frames' = frames \cup {Stamp(c, seq')}
    /\ plan' = Plan(Stamp(c, seq'))
    /\ UNCHANGED <<link, conns, states, client, quality>>

\* advanceLink, which is deferred.
Advance == link' = plan.frame /\ plan' = None

\* No target is left, or there was none.
Finish ==
    /\ plan # None /\ plan.todo = {} /\ plan.sent = None
    /\ Advance
    /\ UNCHANGED <<conns, states, client, record>>

EncodeFails ==
    /\ "encode" \in Faults
    /\ plan # None /\ plan.at = "encode" /\ plan.todo # {}
    /\ Advance
    /\ UNCHANGED <<conns, states, client, record>>

Message(t) ==
    IF t.full = "yes" THEN [kind |-> "full", id |-> plan.frame.id, body |-> plan.frame]
    ELSE [kind |-> "delta", id |-> plan.frame.id, body |-> plan.delta]

Taken(t, s) ==
    plan' = [frame |-> plan.frame, todo |-> plan.todo \ {t}, at |-> "push", sent |-> s,
             delta |-> plan.delta]

Alive(t) == t.conn = conn[t.who] /\ open[t.who] = "yes"

\* What is left of the client's session in the registry when its connection changes.
Reset(p) == lastSeq' = Set(lastSeq, p, 0) /\ wanted' = Set(wanted, p, "no")

Unregister(p) ==
    /\ conns' = Set(conns, p, 0)
    /\ Reset(p)
    /\ UNCHANGED <<payloadVer, limited>>

\* pushPlanned: the message is on its way to the client.
Push(t) ==
    /\ plan # None /\ t \in plan.todo /\ plan.sent = None
    /\ Alive(t)
    /\ wire' = Set(wire, t.who, wire[t.who] \cup {Message(t)})
    /\ calm' = Set(calm, t.who, calm[t.who] + 1)
    /\ sent' = Set(sent, t.who, plan.frame.id)
    /\ Taken(t, t)
    /\ UNCHANGED <<link, conns, states, conn, open, decoder, seq, frames, lossy>>

\* It is lost, or the client does not use the connection any more.
PushLost(t) ==
    /\ plan # None /\ t \in plan.todo /\ plan.sent = None
    /\ \/ Alive(t) /\ "loss" \in Faults
          /\ lossy' = Set(lossy, t.who, "yes") /\ calm' = Set(calm, t.who, 0)
       \/ ~Alive(t) /\ UNCHANGED <<lossy, calm>>
    /\ Taken(t, t)
    /\ UNCHANGED <<link, conns, states, client, seq, frames, sent>>

\* The connection is known to be dead, or the write fails.
PushFails(t) ==
    /\ plan # None /\ t \in plan.todo /\ plan.sent = None
    /\ \/ /\ ~Alive(t)
          /\ IF conns[t.who] = t.conn THEN Unregister(t.who) ELSE UNCHANGED <<conns, states>>
       \/ "push" \in Faults /\ UNCHANGED <<conns, states>>
    /\ Taken(t, None)
    /\ UNCHANGED <<link, client, record>>

Committed_Any(t) == conns[t.who] # 0

\* commitSend: only if the connection is still the client's.
Committed(t) == conns[t.who] = t.conn

Commit ==
    /\ plan # None /\ plan.sent # None
    /\ LET t == plan.sent
       IN  IF Committed(t)
           THEN /\ lastSeq' = Set(lastSeq, t.who, plan.frame.id)
                /\ wanted' = Set(wanted, t.who, IF t.full = "yes" THEN "no" ELSE wanted[t.who])
           ELSE UNCHANGED <<lastSeq, wanted>>
    /\ plan' = [frame |-> plan.frame, todo |-> plan.todo, at |-> plan.at, sent |-> None,
                delta |-> plan.delta]
    /\ UNCHANGED <<link, conns, payloadVer, limited, client, record>>
-------------------------------------------------------------------------------
(* Connections, negotiation and keyframe requests *)

\* The client opens its next connection and does not read the old one any more.
Dial(p) ==
    /\ conn[p] < MaxConns
    /\ conn' = Set(conn, p, conn[p] + 1) /\ open' = Set(open, p, "yes")
    /\ wire' = Set(wire, p, {})
    /\ lossy' = Set(lossy, p, "no") /\ calm' = Set(calm, p, 0)
    /\ UNCHANGED <<registry, decoder, seq, frames, sent>>

\* An operation of the client passes the check of its ticket, be it a late one of an
\* older connection: the other connection is closed.
Register(p, k) ==
    /\ k \in 1..conn[p]
    /\ conns[p] # k
    /\ conns' = Set(conns, p, k)
    /\ Reset(p)
    /\ IF conns[p] = conn[p]
       THEN open' = Set(open, p, "no") /\ wire' = Set(wire, p, {})
       ELSE UNCHANGED <<open, wire>>
    /\ UNCHANGED <<link, payloadVer, limited, plan, conn, decoder, record>>

\* The end of a connection is noticed.
Disconnect(p) ==
    /\ conns[p] # 0
    /\ conns[p] # conn[p] \/ open[p] = "no"
    /\ Unregister(p)
    /\ UNCHANGED <<link, plan, client, record>>

\* NegotiatePayloadVersion: what is agreed is written back every time.
Negotiate(p, accepts) ==
    /\ plan = None
    /\ payloadVer' = Set(payloadVer, p,
           IF accepts = "delta" /\ conns[p] # 0 /\ conns[p] \notin Datagrams
           THEN "delta" ELSE "full")
    /\ payloadVer' # payloadVer
    /\ UNCHANGED <<link, conns, lastSeq, wanted, limited, plan, client, record>>

\* RequestKeyframe: dropped without a connection or within the window of the last one.
RequestKeyframe(p) ==
    /\ plan = None /\ ask[p] = "yes"
    /\ ask' = Set(ask, p, "no")
    /\ IF conns[p] # 0 /\ limited[p] = "no"
       THEN wanted' = Set(wanted, p, "yes") /\ limited' = Set(limited, p, "yes")
       ELSE UNCHANGED <<wanted, limited>>
    /\ UNCHANGED <<link, conns, lastSeq, payloadVer, plan, conn, open, wire, view, pending,
                   record>>

RequestLost(p) ==
    /\ "loss" \in Faults /\ ask[p] = "yes"
    /\ ask' = Set(ask, p, "no")
    /\ UNCHANGED <<registry, conn, open, wire, view, pending, record>>

LimitEnds(p) ==
    /\ limited[p] = "yes"
    /\ limited' = Set(limited, p, "no")
    /\ UNCHANGED <<link, conns, lastSeq, payloadVer, wanted, plan, client, record>>
-------------------------------------------------------------------------------
(* The client *)

\* applyFull: the frame is the new base.
ApplyFull(p, m) ==
    /\ view' = Set(view, p, m.body)
    /\ pending' = Set(pending, p, "no")
    /\ UNCHANGED ask

\* requestKeyframe, once until a frame is handed over.
Ask(p) ==
    /\ ask' = Set(ask, p, IF pending[p] = "no" THEN "yes" ELSE ask[p])
    /\ pending' = Set(pending, p, "yes")
    /\ UNCHANGED view

Fits_AnyBase(p, d) == view[p] # None

\* The difference is one from the frame the client has.
Fits(p, d) == view[p] # None /\ d.id = view[p].id + 1 /\ d.base = view[p].id

Stale(p, d) == view[p] # None /\ d.id <= view[p].id

ApplyDelta(p, m) ==
    \/ /\ ~Stale(p, m.body) /\ Fits(p, m.body)
       /\ view' = Set(view, p, Merge(view[p], m.body))
       /\ pending' = Set(pending, p, "no")
       /\ UNCHANGED ask
    \/ /\ ~Stale(p, m.body) /\ ~Fits(p, m.body)
       /\ Ask(p)
    \/ /\ Stale(p, m.body)
       /\ UNCHANGED decoder

\* A stream keeps the order, datagrams may not.
Arrives(p, m) ==
    /\ m \in wire[p]
    /\ \/ \A o \in wire[p] : m.id <= o.id
       \/ conn[p] \in Datagrams /\ "reorder" \in Faults

Receive(p, m) ==
    /\ Arrives(p, m)
    /\ wire' = Set(wire, p, wire[p] \ {m})
    /\ \/ m.kind = "full" /\ ApplyFull(p, m)
       \/ m.kind = "delta" /\ ApplyDelta(p, m)
    /\ UNCHANGED <<registry, conn, open, record>>
-------------------------------------------------------------------------------
Publish ==
    \/ \E c \in Contents : Tick(c)
    \/ Finish \/ EncodeFails \/ Commit
    \/ plan # None /\ \E t \in plan.todo : Push(t) \/ PushLost(t) \/ PushFails(t)

Next ==
    \/ Publish
    \/ \E p \in Clients :
          \/ Dial(p) \/ Disconnect(p)
          \/ \E k \in 1..conn[p] : Register(p, k)
          \/ \E v \in {"full", "delta"} : Negotiate(p, v)
          \/ RequestKeyframe(p) \/ RequestLost(p) \/ LimitEnds(p)
          \/ \E m \in wire[p] : Receive(p, m)

Spec == Init /\ [][Next]_vars
-------------------------------------------------------------------------------
Switches == {"yes", "no"}

TypeOK ==
    /\ link \in Frame \cup {None} /\ frames \subseteq Frame /\ seq \in Nat
    /\ view \in [Clients -> Frame \cup {None}]
    /\ conns \in [Clients -> Nat] /\ conn \in [Clients -> Nat]
    /\ lastSeq \in [Clients -> Nat] /\ payloadVer \in [Clients -> {"full", "delta"}]
    /\ wanted \in [Clients -> Switches] /\ limited \in [Clients -> Switches]
    /\ open \in [Clients -> Switches] /\ ask \in [Clients -> Switches]
    /\ pending \in [Clients -> Switches] /\ lossy \in [Clients -> Switches]
    /\ calm \in [Clients -> Nat] /\ sent \in [Clients -> Nat]
    /\ DOMAIN wire = Clients

\* The inductive invariant behind the refinement. Frames are told apart by their numbers.
FramesNumbered ==
    /\ \A f \in frames : f.id \in 1..seq
    /\ \A f \in frames : \A q \in Players : f.inputs[q] # None => f.inputs[q].frame = f.id
    /\ \A f, g \in frames : f.id = g.id => f = g
    /\ link # None => link \in frames

\* What is sent of a tick are its frame and its difference from the frame before, to each
\* client at most once.
PlanFormed ==
    plan # None =>
        /\ plan.frame \in frames /\ plan.frame.id = seq
        /\ plan.todo \subseteq Target
        /\ plan.sent \in Target \cup {None}
        /\ \A t, u \in plan.todo : t.who = u.who => t = u
        /\ \A t \in plan.todo :
              t.full = "no" =>
                  link # None /\ link.id + 1 = seq /\ plan.delta = Diff(link, plan.frame)

IsFull(m)  == \E f \in frames : m = [kind |-> "full", id |-> f.id, body |-> f]
IsDelta(m) == \E f, g \in frames :
                  f.id + 1 = g.id /\ m = [kind |-> "delta", id |-> g.id, body |-> Diff(f, g)]

WireGenuine == \A p \in Clients : \A m \in wire[p] : IsFull(m) \/ IsDelta(m)

ViewExact == \A p \in Clients : view[p] # None => view[p] \in frames

\* A stream brings later frames only; what is still to be sent is later than all of it.
StreamsOrdered ==
    /\ \A p \in Clients : \A m, o \in wire[p] : m.id = o.id => m = o
    /\ \A p \in Clients : conn[p] \notin Datagrams /\ view[p] # None =>
           \A m \in wire[p] : view[p].id < m.id
    /\ plan # None =>
           \A t \in plan.todo :
              /\ view[t.who] # None => view[t.who].id < seq
              /\ \A m \in wire[t.who] : m.id < seq

DeltaInv == TypeOK /\ FramesNumbered /\ PlanFormed /\ WireGenuine /\ ViewExact /\ StreamsOrdered

\* Whatever went wrong before, lost requests included: after KeyEvery messages of a stream
\* in a row that were not lost the client has the newest frame sent to it.
RecoveryBound ==
    \A p \in Clients :
        calm[p] >= KeyEvery /\ wire[p] = {} /\ open[p] = "yes" /\ conn[p] \notin Datagrams =>
            view[p] # None /\ view[p].id = sent[p]

\* On a connection that has lost nothing, no difference is sent that does not fit.
CleanStreamsFit ==
    [][\A p \in Clients :
          lossy[p] = "no" => ~(pending[p] = "no" /\ pending'[p] = "yes")]_vars

\* What a client has is always a frame the battle published, field by field, however much
\* of it came as differences, and on a stream it only goes forward.
Line == [p \in Clients |-> IF conn[p] \in Datagrams THEN "datagram" ELSE "stream"]
Abstract == INSTANCE FrameStream WITH line <- Line
AbstractSpec == Abstract!Spec
===============================================================================
