--------------------------- MODULE FrameDeltaProofs ---------------------------
(* FrameDelta implements FrameStream: whatever is lost, reconnected, renegotiated or   *)
(* requested, what a client has is a published frame, and a stream only goes forward.  *)
(* A stream that has lost nothing fits, and one that has is whole again after KeyEvery *)
(* messages.                                                                           *)
EXTENDS FrameDelta, Integers, TLAPS

USE DeltaAssumption

\* The parts of the invariant, and their primed form.
LEMMA InvParts ==
  /\ DeltaInv <=> TypeOK /\ FramesNumbered /\ PlanFormed /\ WireGenuine /\ ViewExact
                  /\ StreamsOrdered
  /\ DeltaInv' <=> TypeOK' /\ FramesNumbered' /\ PlanFormed' /\ WireGenuine' /\ ViewExact'
                   /\ StreamsOrdered'
BY DEF DeltaInv

\* Types, one part at a time.
FrameTypes ==
    /\ link \in Frame \cup {None} /\ frames \subseteq Frame /\ seq \in Nat
    /\ view \in [Clients -> Frame \cup {None}]
RegistryTypes ==
    /\ conns \in [Clients -> Nat] /\ lastSeq \in [Clients -> Nat]
    /\ payloadVer \in [Clients -> {"full", "delta"}]
    /\ wanted \in [Clients -> Switches] /\ limited \in [Clients -> Switches]
ClientTypes ==
    /\ conn \in [Clients -> Nat]
    /\ open \in [Clients -> Switches] /\ ask \in [Clients -> Switches]
    /\ pending \in [Clients -> Switches]
    /\ DOMAIN wire = Clients
HistoryTypes ==
    /\ lossy \in [Clients -> Switches]
    /\ calm \in [Clients -> Nat] /\ sent \in [Clients -> Nat]

LEMMA TypeParts ==
  /\ TypeOK <=> FrameTypes /\ RegistryTypes /\ ClientTypes /\ HistoryTypes
  /\ TypeOK' <=> FrameTypes' /\ RegistryTypes' /\ ClientTypes' /\ HistoryTypes'
BY DEF TypeOK, FrameTypes, RegistryTypes, ClientTypes, HistoryTypes

\* Setting one entry of a function.
LEMMA SetType ==
  ASSUME NEW S, NEW f \in [Clients -> S], NEW p \in Clients, NEW v \in S
  PROVE  /\ Set(f, p, v) \in [Clients -> S]
         /\ Set(f, p, v)[p] = v
         /\ \A q \in Clients : q # p => Set(f, p, v)[q] = f[q]
BY DEF Set

\* Merge undoes Diff: the frame a client puts together is the frame of the server, with
\* the inputs that are gone removed, the others numbered anew, and a snapshot that is gone
\* cleared.
LEMMA MergeOfDiff ==
  ASSUME NEW prev \in Frame, NEW cur \in Frame,
         \A q \in Players : cur.inputs[q] # None => cur.inputs[q].frame = cur.id
  PROVE  Merge(prev, Diff(prev, cur)) = cur
<1> DEFINE d == Diff(prev, cur)
<1>1. d.id = cur.id /\ d.hash = cur.hash
  BY DEF Diff
<1>2. Replaced(d.time, prev.time) = cur.time
  <2>1. d.time = IF prev.time = cur.time THEN {} ELSE {cur.time}
    BY DEF Diff
  <2>2. CASE prev.time = cur.time
    BY <2>1, <2>2 DEF Replaced
  <2>3. CASE prev.time # cur.time
    <3>1. d.time = {cur.time}
      BY <2>1, <2>3
    <3>2. (CHOOSE v \in {cur.time} : TRUE) = cur.time
      OBVIOUS
    <3> HIDE DEF d
    <3> QED
      BY <3>1, <3>2 DEF Replaced
  <2> QED
    BY <2>2, <2>3
<1>3. Replaced(d.snap, prev.snap) = cur.snap
  <2>1. d.snap = IF prev.snap = cur.snap THEN {} ELSE {cur.snap}
    BY DEF Diff
  <2>2. CASE prev.snap = cur.snap
    BY <2>1, <2>2 DEF Replaced
  <2>3. CASE prev.snap # cur.snap
    <3>1. d.snap = {cur.snap}
      BY <2>1, <2>3
    <3>2. (CHOOSE v \in {cur.snap} : TRUE) = cur.snap
      OBVIOUS
    <3> HIDE DEF d
    <3> QED
      BY <3>1, <3>2 DEF Replaced
  <2> QED
    BY <2>2, <2>3
<1>4. ASSUME NEW q \in Players
      PROVE  MergeInput(prev.inputs[q], d, q) = cur.inputs[q]
  <2>1. /\ d.set[q] = IF SameInput(prev.inputs[q], cur.inputs[q]) THEN None ELSE cur.inputs[q]
        /\ q \in d.removed <=> prev.inputs[q] # None /\ cur.inputs[q] = None
    BY DEF Diff
  <2>2. prev.inputs[q] \in Input \cup {None} /\ cur.inputs[q] \in Input \cup {None}
    BY DEF Frame
  <2>3. \A i \in Input : i = [frame |-> i.frame, payload |-> i.payload]
    BY DEF Input
  <2>4. CASE cur.inputs[q] = None
    <3>1. d.set[q] = None
      BY <2>1, <2>4 DEF SameInput
    <3> HIDE DEF d
    <3> QED
      BY <2>1, <2>4, <3>1 DEF MergeInput
  <2>5. CASE cur.inputs[q] # None /\ SameInput(prev.inputs[q], cur.inputs[q])
    <3>1. d.set[q] = None /\ q \notin d.removed
      BY <2>1, <2>5
    <3>2. prev.inputs[q] # None /\ prev.inputs[q].payload = cur.inputs[q].payload
      BY <2>5 DEF SameInput
    <3>3. cur.inputs[q] = [frame |-> cur.id, payload |-> cur.inputs[q].payload]
      BY <2>2, <2>3, <2>5
    <3> HIDE DEF d
    <3> QED
      BY <1>1, <3>1, <3>2, <3>3 DEF MergeInput, Rewrite
  <2>6. CASE cur.inputs[q] # None /\ ~SameInput(prev.inputs[q], cur.inputs[q])
    <3>1. d.set[q] = cur.inputs[q]
      BY <2>1, <2>6
    <3>3. cur.inputs[q] = [frame |-> cur.id, payload |-> cur.inputs[q].payload]
      BY <2>2, <2>3, <2>6
    <3> HIDE DEF d
    <3> QED
      BY <1>1, <2>6, <3>1, <3>3 DEF MergeInput, Rewrite
  <2> QED
    BY <2>4, <2>5, <2>6
<1>5. [q \in Players |-> MergeInput(prev.inputs[q], d, q)] = cur.inputs
  BY <1>4 DEF Frame
<1>6. cur = [id |-> cur.id, time |-> cur.time, snap |-> cur.snap, hash |-> cur.hash,
             inputs |-> cur.inputs]
  BY DEF Frame
<1> HIDE DEF d
<1> QED
  BY <1>1, <1>2, <1>3, <1>5, <1>6 DEF Merge, d

\* A frame made of what the session put together.
LEMMA StampedFrame ==
  ASSUME NEW c \in Contents, NEW n \in Nat
  PROVE  /\ Stamp(c, n) \in Frame
         /\ Stamp(c, n).id = n
         /\ \A q \in Players : Stamp(c, n).inputs[q] # None => Stamp(c, n).inputs[q].frame = n
<1>1. c \in Content
  OBVIOUS
<1>2. ASSUME NEW q \in Players
      PROVE  Stamp(c, n).inputs[q] =
                IF c.inputs[q] = None THEN None ELSE [frame |-> n, payload |-> c.inputs[q]]
  BY DEF Stamp
<1>3. Stamp(c, n).inputs \in [Players -> Input \cup {None}]
  BY <1>1 DEF Stamp, Input, Content
<1>4. Stamp(c, n) \in Frame
  BY <1>1, <1>3 DEF Stamp, Frame, Content
<1>5. Stamp(c, n).id = n
  BY DEF Stamp
<1>6. ASSUME NEW q \in Players, Stamp(c, n).inputs[q] # None
      PROVE  Stamp(c, n).inputs[q].frame = n
  <2>1. Stamp(c, n).inputs[q] = [frame |-> n, payload |-> c.inputs[q]]
    BY <1>2, <1>6
  <2> QED
    BY <2>1
<1> QED
  BY <1>4, <1>5, <1>6

LEMMA InitDelta == Init => DeltaInv
<1> SUFFICES ASSUME Init
             PROVE  DeltaInv
  OBVIOUS
<1>1. TypeOK
  <2>1. FrameTypes
    BY DEF Init, FrameTypes
  <2>2. RegistryTypes
    BY DEF Init, RegistryTypes, Switches
  <2>3. ClientTypes
    BY DEF Init, ClientTypes, Switches
  <2>4. HistoryTypes
    BY DEF Init, HistoryTypes, Switches
  <2> QED
    BY <2>1, <2>2, <2>3, <2>4, TypeParts
<1>2. FramesNumbered /\ PlanFormed /\ WireGenuine /\ ViewExact /\ StreamsOrdered
  BY DEF Init, FramesNumbered, PlanFormed, WireGenuine, ViewExact, StreamsOrdered
<1> QED
  BY <1>1, <1>2, InvParts

\* Steps that leave the frames, the plan, the wire and what the clients have alone.
Untouched == UNCHANGED <<link, frames, seq, plan, wire, view, conn>>

LEMMA UntouchedKeeps ==
  ASSUME DeltaInv, Untouched, TypeOK'
  PROVE  DeltaInv'
<1> USE InvParts
<1>1. FramesNumbered' /\ ViewExact' /\ StreamsOrdered'
  BY DEF Untouched, FramesNumbered, ViewExact, StreamsOrdered
<1>2. PlanFormed'
  BY DEF Untouched, PlanFormed
<1>3. WireGenuine'
  BY DEF Untouched, WireGenuine, IsFull, IsDelta
<1> QED
  BY <1>1, <1>2, <1>3

\* The bookkeeping of the registry, and requests.
LEMMA QuietSteps ==
  ASSUME DeltaInv, NEW p \in Clients,
         \/ Disconnect(p) \/ RequestKeyframe(p) \/ RequestLost(p) \/ LimitEnds(p)
         \/ \E v \in {"full", "delta"} : Negotiate(p, v)
  PROVE  Untouched /\ TypeOK'
<1> USE InvParts, TypeParts
<1>1. CASE Disconnect(p)
  <2>1. /\ conns' = Set(conns, p, 0) /\ lastSeq' = Set(lastSeq, p, 0)
        /\ wanted' = Set(wanted, p, "no")
        /\ UNCHANGED <<link, plan, client, record, payloadVer, limited>>
    BY <1>1 DEF Disconnect, Unregister, Reset
  <2>2. RegistryTypes'
    BY <2>1, SetType DEF RegistryTypes, Switches
  <2>3. FrameTypes' /\ ClientTypes' /\ HistoryTypes' /\ Untouched
    BY <2>1 DEF FrameTypes, ClientTypes, HistoryTypes, Untouched, client, record
  <2> QED
    BY <2>2, <2>3
<1>2. CASE RequestKeyframe(p)
  <2>1. RegistryTypes'
    <3>1. CASE conns[p] # 0 /\ limited[p] = "no"
      <4>1. wanted' = Set(wanted, p, "yes") /\ limited' = Set(limited, p, "yes")
            /\ UNCHANGED <<conns, lastSeq, payloadVer>>
        BY <1>2, <3>1 DEF RequestKeyframe
      <4> QED
        BY <4>1, SetType DEF RegistryTypes, Switches
    <3>2. CASE ~(conns[p] # 0 /\ limited[p] = "no")
      BY <1>2, <3>2 DEF RequestKeyframe, RegistryTypes
    <3> QED
      BY <3>1, <3>2
  <2>2. ClientTypes'
    <3>1. ask' = Set(ask, p, "no") /\ UNCHANGED <<conn, open, wire, pending>>
      BY <1>2 DEF RequestKeyframe
    <3> QED
      BY <3>1, SetType DEF ClientTypes, Switches
  <2>3. FrameTypes' /\ HistoryTypes' /\ Untouched
    BY <1>2 DEF RequestKeyframe, FrameTypes, HistoryTypes, Untouched, record
  <2> QED
    BY <2>1, <2>2, <2>3
<1>3. CASE RequestLost(p)
  BY <1>3, SetType DEF RequestLost, Untouched, registry, record,
     FrameTypes, RegistryTypes, ClientTypes, HistoryTypes, Switches
<1>4. CASE LimitEnds(p)
  <2>1. RegistryTypes'
    BY <1>4, SetType DEF LimitEnds, RegistryTypes, Switches
  <2>2. FrameTypes' /\ ClientTypes' /\ HistoryTypes' /\ Untouched
    BY <1>4 DEF LimitEnds, FrameTypes, ClientTypes, HistoryTypes, Untouched, client, record
  <2> QED
    BY <2>1, <2>2
<1>5. CASE \E v \in {"full", "delta"} : Negotiate(p, v)
  <2>1. payloadVer' = Set(payloadVer, p, "delta") \/ payloadVer' = Set(payloadVer, p, "full")
    BY <1>5 DEF Negotiate
  <2>2. UNCHANGED <<conns, lastSeq, wanted, limited>>
    BY <1>5 DEF Negotiate
  <2>3. payloadVer' \in [Clients -> {"full", "delta"}]
    BY <2>1 DEF Set, RegistryTypes
  <2>4. RegistryTypes'
    BY <2>2, <2>3 DEF RegistryTypes
  <2>5. FrameTypes' /\ ClientTypes' /\ HistoryTypes' /\ Untouched
    BY <1>5 DEF Negotiate, FrameTypes, ClientTypes, HistoryTypes, Untouched, client, record
  <2> QED
    BY <2>4, <2>5
<1> QED
  BY <1>1, <1>2, <1>3, <1>4, <1>5

\* A tick: the frame is a new one, and a difference is only planned for a client whose
\* last message was the frame before.
LEMMA TickStep ==
  ASSUME DeltaInv, NEW c \in Contents, Tick(c)
  PROVE  DeltaInv'
<1> USE InvParts, TypeParts
<1> DEFINE f == Stamp(c, seq')
<1>1. seq' = seq + 1 /\ seq \in Nat /\ seq' \in Nat /\ plan = None
  BY DEF Tick, FrameTypes
<1>2. f \in Frame /\ f.id = seq + 1
      /\ \A q \in Players : f.inputs[q] # None => f.inputs[q].frame = f.id
  BY <1>1, StampedFrame
<1>3. frames' = frames \cup {f} /\ plan' = Plan(f)
      /\ UNCHANGED <<link, conns, states, client, quality>>
  BY DEF Tick
<1> HIDE DEF f
<1>4. TypeOK'
  <2>1. FrameTypes'
    BY <1>1, <1>2, <1>3 DEF FrameTypes, client
  <2>2. RegistryTypes' /\ ClientTypes' /\ HistoryTypes'
    BY <1>3 DEF RegistryTypes, ClientTypes, HistoryTypes, states, client, quality
  <2> QED
    BY <2>1, <2>2
<1>5. FramesNumbered'
  <2>1. \A g \in frames : g.id < f.id
    BY <1>1, <1>2 DEF FramesNumbered
  <2>2. \A g \in frames' : g.id \in 1..seq'
    BY <1>1, <1>2, <1>3 DEF FramesNumbered
  <2>3. \A g \in frames' : \A q \in Players : g.inputs[q] # None => g.inputs[q].frame = g.id
    BY <1>2, <1>3 DEF FramesNumbered
  <2>4. \A g, h \in frames' : g.id = h.id => g = h
    BY <1>3, <2>1, <1>1, <1>2 DEF FramesNumbered
  <2>5. link' # None => link' \in frames'
    BY <1>3 DEF FramesNumbered
  <2> QED
    BY <2>2, <2>3, <2>4, <2>5 DEF FramesNumbered
<1>6. /\ plan'.frame = f /\ plan'.sent = None /\ plan'.todo = Targets(f.id)
      /\ plan'.delta = IF \A t \in Targets(f.id) : t.full = "yes" THEN None ELSE Diff(link, f)
  BY <1>3 DEF Plan
<1>7. Targets(f.id) \subseteq Target
  BY DEF Targets, Target, RegistryTypes
<1>8. \A t \in Targets(f.id) : t.full = "no" => LinkOK(f.id)
  BY DEF Targets, Full
<1>9. \A t, u \in Targets(f.id) : t.who = u.who => t = u
  BY DEF Targets
<1>10. PlanFormed'
  <2>1. plan'.frame \in frames' /\ plan'.frame.id = seq'
    BY <1>1, <1>2, <1>3, <1>6
  <2>2. \A t \in plan'.todo : t.full = "no" =>
          link' # None /\ link'.id + 1 = seq' /\ plan'.delta = Diff(link', plan'.frame)
    BY <1>1, <1>2, <1>3, <1>6, <1>8 DEF LinkOK
  <2> QED
    BY <1>6, <1>7, <1>9, <2>1, <2>2 DEF PlanFormed
<1>11. WireGenuine'
  BY <1>3 DEF WireGenuine, IsFull, IsDelta, client
<1>12. ViewExact'
  BY <1>3 DEF ViewExact, client
<1>13. StreamsOrdered'
  <2>1. \A p \in Clients : \A m \in wire[p] : m.id \in Nat /\ m.id <= seq
    BY <1>1 DEF WireGenuine, IsFull, IsDelta, FramesNumbered
  <2>2. \A p \in Clients : view[p] # None => view[p].id \in Nat /\ view[p].id <= seq
    BY <1>1 DEF ViewExact, FramesNumbered
  <2>3. \A t \in Targets(f.id) : t.who \in Clients
    BY <1>7 DEF Target
  <2>4. \A t \in plan'.todo :
           /\ view'[t.who] # None => view'[t.who].id < seq'
           /\ \A m \in wire'[t.who] : m.id < seq'
    BY <1>1, <1>3, <1>6, <2>1, <2>2, <2>3 DEF client
  <2> QED
    BY <1>3, <2>4 DEF StreamsOrdered, client
<1> QED
  BY <1>4, <1>5, <1>10, <1>11, <1>12, <1>13

\* The end of a tick.
LEMMA EndStep ==
  ASSUME DeltaInv, Finish \/ EncodeFails
  PROVE  DeltaInv'
<1> USE InvParts, TypeParts
<1>1. /\ plan # None /\ link' = plan.frame /\ plan' = None
      /\ UNCHANGED <<conns, states, client, record>>
  BY DEF Finish, EncodeFails, Advance
<1>2. plan.frame \in frames
  BY <1>1 DEF PlanFormed
<1>3. FrameTypes'
  BY <1>1, <1>2 DEF FrameTypes, client, record
<1>4. RegistryTypes' /\ ClientTypes' /\ HistoryTypes'
  BY <1>1 DEF RegistryTypes, ClientTypes, HistoryTypes, states, client, record
<1>5. FramesNumbered'
  BY <1>1, <1>2 DEF FramesNumbered, record
<1>6. PlanFormed' /\ ViewExact' /\ StreamsOrdered'
  BY <1>1 DEF PlanFormed, ViewExact, StreamsOrdered, client, record
<1>7. WireGenuine'
  BY <1>1 DEF WireGenuine, IsFull, IsDelta, client, record
<1> QED
  BY <1>3, <1>4, <1>5, <1>6, <1>7

\* What is sent of the plan is genuine.
LEMMA GenuineMessage ==
  ASSUME DeltaInv, plan # None, NEW t \in plan.todo
  PROVE  /\ IsFull(Message(t)) \/ IsDelta(Message(t))
         /\ Message(t).id = seq
         /\ t \in Target /\ t.who \in Clients
<1> USE InvParts
<1>1. plan.frame \in frames /\ plan.frame.id = seq /\ t \in Target /\ t.who \in Clients
      /\ t.full \in {"yes", "no"}
  BY DEF PlanFormed, Target
<1>2. CASE t.full = "yes"
  <2>1. Message(t) = [kind |-> "full", id |-> plan.frame.id, body |-> plan.frame]
    BY <1>2 DEF Message
  <2> QED
    BY <1>1, <2>1 DEF IsFull
<1>3. CASE t.full = "no"
  <2>1. link # None /\ link.id + 1 = seq /\ plan.delta = Diff(link, plan.frame)
    BY <1>3 DEF PlanFormed
  <2>2. link \in frames
    BY <2>1 DEF FramesNumbered
  <2>3. Message(t) = [kind |-> "delta", id |-> plan.frame.id, body |-> plan.delta]
    BY <1>3 DEF Message
  <2>4. Message(t) = [kind |-> "delta", id |-> plan.frame.id, body |-> Diff(link, plan.frame)]
    BY <2>1, <2>3
  <2>5. link.id + 1 = plan.frame.id
    BY <1>1, <2>1
  <2>6. IsDelta(Message(t))
    BY <1>1, <2>2, <2>4, <2>5 DEF IsDelta
  <2>7. Message(t).id = plan.frame.id
    BY <2>4
  <2> QED
    BY <1>1, <2>6, <2>7
<1> QED
  BY <1>1, <1>2, <1>3

\* A target that has been dealt with.
LEMMA TakenPlan ==
  ASSUME DeltaInv, plan # None, NEW t \in plan.todo, NEW s \in Target \cup {None},
         Taken(t, s), UNCHANGED <<link, frames, seq>>
  PROVE  /\ PlanFormed'
         /\ plan' # None => plan'.todo = plan.todo \ {t}
<1> USE InvParts
<1>1. plan'.frame = plan.frame /\ plan'.todo = plan.todo \ {t} /\ plan'.sent = s
      /\ plan'.delta = plan.delta
  BY DEF Taken
<1>2. /\ plan.frame \in frames /\ plan.frame.id = seq
      /\ plan.todo \subseteq Target
      /\ \A u, v \in plan.todo : u.who = v.who => u = v
      /\ \A u \in plan.todo :
            u.full = "no" =>
                link # None /\ link.id + 1 = seq /\ plan.delta = Diff(link, plan.frame)
  BY DEF PlanFormed
<1> QED
  BY <1>1, <1>2 DEF PlanFormed

LEMMA PushStep ==
  ASSUME DeltaInv, plan # None, NEW t \in plan.todo, Push(t)
  PROVE  DeltaInv'
<1> USE InvParts, TypeParts
<1> DEFINE m == Message(t)
           p == t.who
<1>1. /\ IsFull(m) \/ IsDelta(m)
      /\ m.id = seq /\ t \in Target /\ p \in Clients
  BY GenuineMessage
<1> HIDE DEF m
<1>2. wire' = Set(wire, p, wire[p] \cup {m}) /\ Taken(t, t)
      /\ UNCHANGED <<link, conns, states, conn, open, decoder, seq, frames, lossy>>
  BY DEF Push, m
<1>3. TypeOK'
  <2>1. FrameTypes' /\ RegistryTypes' /\ ClientTypes'
    BY <1>2 DEF FrameTypes, RegistryTypes, ClientTypes, states, decoder, Set
  <2>2. calm[p] + 1 \in Nat /\ plan.frame.id \in Nat
    BY <1>1 DEF HistoryTypes, PlanFormed, FrameTypes
  <2>3. calm' \in [Clients -> Nat]
    BY <1>1, <2>2, SetType DEF Push, HistoryTypes
  <2>4. sent' \in [Clients -> Nat]
    BY <1>1, <2>2, SetType DEF Push, HistoryTypes
  <2> QED
    BY <1>2, <2>1, <2>3, <2>4 DEF HistoryTypes
<1>4. PlanFormed' /\ plan'.todo = plan.todo \ {t}
  BY <1>1, <1>2, TakenPlan DEF Taken
<1>5. FramesNumbered' /\ ViewExact'
  BY <1>2 DEF FramesNumbered, ViewExact, decoder
<1> DEFINE w == wire[p] \cup {m}
<1>6. \A q \in Clients : wire'[q] = IF q = p THEN w ELSE wire[q]
  BY <1>2 DEF Set, ClientTypes
<1>7. \A q \in Clients : \A o \in wire'[q] : o \in wire[q] \/ (q = p /\ o = m)
  BY <1>6
<1>8. WireGenuine'
  <2>1. frames' = frames
    BY <1>2
  <2>2. \A o : IsFull(o) \/ IsDelta(o) => IsFull(o)' \/ IsDelta(o)'
    BY <2>1 DEF IsFull, IsDelta
  <2>3. \A q \in Clients : \A o \in wire'[q] : IsFull(o) \/ IsDelta(o)
    BY <1>1, <1>7 DEF WireGenuine
  <2> QED
    BY <2>2, <2>3 DEF WireGenuine
<1>9. /\ view[p] # None => view[p].id < seq
      /\ \A o \in wire[p] : o.id < seq
  BY DEF StreamsOrdered
<1>10. seq \in Nat /\ \A q \in Clients : \A o \in wire[q] : o.id \in Nat
  BY DEF FrameTypes, WireGenuine, IsFull, IsDelta, FramesNumbered
<1>11. StreamsOrdered'
  <2>1. \A q \in Clients : \A o, u \in wire'[q] : o.id = u.id => o = u
    BY <1>1, <1>7, <1>9, <1>10 DEF StreamsOrdered
  <2>2. \A q \in Clients : conn'[q] \notin Datagrams /\ view'[q] # None =>
            \A o \in wire'[q] : view'[q].id < o.id
    BY <1>1, <1>2, <1>7, <1>9 DEF StreamsOrdered, decoder
  <2>3. \A u \in plan'.todo : u \in plan.todo /\ u.who # p /\ u.who \in Clients
    BY <1>4 DEF PlanFormed, Target
  <2>4. \A u \in plan'.todo :
           /\ view'[u.who] # None => view'[u.who].id < seq'
           /\ \A o \in wire'[u.who] : o.id < seq'
    BY <1>2, <1>7, <2>3 DEF StreamsOrdered, decoder
  <2> QED
    BY <2>1, <2>2, <2>4 DEF StreamsOrdered
<1> QED
  BY <1>3, <1>4, <1>5, <1>8, <1>11

\* A message that is not sent, and the end of sending one.
LEMMA UnsentSteps ==
  ASSUME DeltaInv, plan # None,
         Commit \/ \E t \in plan.todo : PushLost(t) \/ PushFails(t)
  PROVE  DeltaInv'
<1> USE InvParts, TypeParts
<1>1. UNCHANGED <<link, client, seq, frames, sent>>
  BY DEF Commit, PushLost, PushFails, record
<1>2. FramesNumbered' /\ ViewExact'
  BY <1>1 DEF FramesNumbered, ViewExact, client
<1>3. WireGenuine'
  BY <1>1 DEF WireGenuine, IsFull, IsDelta, client
<1>4. FrameTypes' /\ ClientTypes'
  BY <1>1 DEF FrameTypes, ClientTypes, client
<1>5. ASSUME plan'.todo \subseteq plan.todo
      PROVE  StreamsOrdered'
  BY <1>1, <1>5 DEF StreamsOrdered, client
<1>6. CASE Commit
  <2> DEFINE t == plan.sent
  <2>1. t \in Target /\ t.who \in Clients /\ plan.frame.id \in Nat
    BY <1>6 DEF Commit, PlanFormed, Target, FrameTypes
  <2>2. RegistryTypes'
    <3>1. UNCHANGED <<conns, payloadVer, limited>>
      BY <1>6 DEF Commit
    <3>2. CASE Committed(t)
      <4>1. lastSeq' = Set(lastSeq, t.who, plan.frame.id)
            /\ wanted' = Set(wanted, t.who, IF t.full = "yes" THEN "no" ELSE wanted[t.who])
        BY <1>6, <3>2 DEF Commit
      <4>2. (IF t.full = "yes" THEN "no" ELSE wanted[t.who]) \in Switches
        BY <2>1 DEF RegistryTypes, Switches
      <4>3. lastSeq' \in [Clients -> Nat]
        BY <2>1, <4>1, SetType DEF RegistryTypes
      <4>4. wanted' \in [Clients -> Switches]
        BY <4>1, <4>2 DEF RegistryTypes, Set
      <4> QED
        BY <3>1, <4>3, <4>4 DEF RegistryTypes
    <3>3. CASE ~Committed(t)
      BY <1>6, <3>1, <3>3 DEF Commit, RegistryTypes
    <3> QED
      BY <3>2, <3>3
  <2>3. HistoryTypes'
    BY <1>6 DEF Commit, HistoryTypes, record
  <2>4. plan'.frame = plan.frame /\ plan'.todo = plan.todo /\ plan'.sent = None
        /\ plan'.delta = plan.delta
    BY <1>6 DEF Commit
  <2>5. PlanFormed'
    BY <1>1, <2>4 DEF PlanFormed
  <2> QED
    BY <1>2, <1>3, <1>4, <1>5, <2>2, <2>3, <2>4, <2>5
<1>7. ASSUME NEW t \in plan.todo, PushLost(t)
      PROVE  DeltaInv'
  <2>1. t \in Target /\ t.who \in Clients
    BY DEF PlanFormed, Target
  <2>2. RegistryTypes'
    BY <1>7 DEF PushLost, RegistryTypes, states
  <2>3. HistoryTypes'
    <3>1. CASE UNCHANGED <<lossy, calm>>
      BY <1>1, <3>1 DEF HistoryTypes
    <3>2. CASE lossy' = Set(lossy, t.who, "yes") /\ calm' = Set(calm, t.who, 0)
      BY <1>1, <2>1, <3>2, SetType DEF HistoryTypes, Switches
    <3> QED
      BY <1>7, <3>1, <3>2 DEF PushLost
  <2>4. PlanFormed' /\ plan'.todo \subseteq plan.todo
    BY <1>1, <1>7, <2>1, TakenPlan DEF PushLost, Taken
  <2> QED
    BY <1>2, <1>3, <1>4, <1>5, <2>2, <2>3, <2>4
<1>8. ASSUME NEW t \in plan.todo, PushFails(t)
      PROVE  DeltaInv'
  <2>1. t \in Target /\ t.who \in Clients
    BY DEF PlanFormed, Target
  <2>2. RegistryTypes'
    <3>1. CASE UNCHANGED <<conns, states>>
      BY <3>1 DEF RegistryTypes, states
    <3>2. CASE Unregister(t.who)
      <4>1. conns' = Set(conns, t.who, 0) /\ lastSeq' = Set(lastSeq, t.who, 0)
            /\ wanted' = Set(wanted, t.who, "no") /\ UNCHANGED <<payloadVer, limited>>
        BY <3>2 DEF Unregister, Reset
      <4> QED
        BY <2>1, <4>1, SetType DEF RegistryTypes, Switches
    <3> QED
      BY <1>8, <3>1, <3>2 DEF PushFails
  <2>3. HistoryTypes'
    BY <1>8 DEF PushFails, HistoryTypes, record
  <2>4. PlanFormed' /\ plan'.todo \subseteq plan.todo
    BY <1>1, <1>8, <2>1, TakenPlan DEF PushFails, Taken
  <2> QED
    BY <1>2, <1>3, <1>4, <1>5, <2>2, <2>3, <2>4
<1> QED
  BY <1>6, <1>7, <1>8

\* Changes of a client's connection take what was on its way from the wire.
LEMMA WireCleared ==
  ASSUME DeltaInv, NEW p \in Clients, wire' = Set(wire, p, {}) \/ wire' = wire,
         UNCHANGED <<link, frames, seq, plan, view>>,
         \A q \in Clients : conn'[q] = conn[q] \/ wire'[q] = {}
  PROVE  FramesNumbered' /\ PlanFormed' /\ WireGenuine' /\ ViewExact' /\ StreamsOrdered'
<1> USE InvParts
<1>1. \A q \in Clients : wire'[q] \subseteq wire[q]
  BY TypeParts DEF Set, ClientTypes
<1>2. FramesNumbered' /\ ViewExact' /\ PlanFormed'
  BY DEF FramesNumbered, ViewExact, PlanFormed
<1>3. WireGenuine'
  BY <1>1 DEF WireGenuine, IsFull, IsDelta
<1>4. StreamsOrdered'
  <2>1. plan # None => \A t \in plan.todo : t.who \in Clients
    BY DEF PlanFormed, Target
  <2> QED
    BY <1>1, <2>1 DEF StreamsOrdered
<1> QED
  BY <1>2, <1>3, <1>4

LEMMA DialStep ==
  ASSUME DeltaInv, NEW p \in Clients, Dial(p)
  PROVE  DeltaInv'
<1> USE InvParts, TypeParts
<1>1. /\ conn' = Set(conn, p, conn[p] + 1) /\ open' = Set(open, p, "yes")
      /\ wire' = Set(wire, p, {})
      /\ lossy' = Set(lossy, p, "no") /\ calm' = Set(calm, p, 0)
      /\ UNCHANGED <<registry, decoder, seq, frames, sent>>
  BY DEF Dial
<1>2. FrameTypes' /\ RegistryTypes'
  BY <1>1 DEF FrameTypes, RegistryTypes, registry, decoder
<1>3. ClientTypes'
  <2>1. conn[p] + 1 \in Nat
    BY DEF ClientTypes
  <2>2. conn' \in [Clients -> Nat]
    BY <1>1, <2>1, SetType DEF ClientTypes
  <2>3. open' \in [Clients -> Switches]
    BY <1>1, SetType DEF ClientTypes, Switches
  <2>4. DOMAIN wire' = Clients
    BY <1>1 DEF Set, ClientTypes
  <2> QED
    BY <1>1, <2>2, <2>3, <2>4 DEF ClientTypes, decoder
<1>4. HistoryTypes'
  BY <1>1, SetType DEF HistoryTypes, Switches
<1>5. \A q \in Clients : conn'[q] = conn[q] \/ wire'[q] = {}
  BY <1>1 DEF Set, ClientTypes
<1> QED
  BY <1>1, <1>2, <1>3, <1>4, <1>5, WireCleared DEF registry, decoder

LEMMA RegisterStep ==
  ASSUME DeltaInv, NEW p \in Clients, NEW k \in 1..conn[p], Register(p, k)
  PROVE  DeltaInv'
<1> USE InvParts, TypeParts
<1>1. /\ conns' = Set(conns, p, k) /\ lastSeq' = Set(lastSeq, p, 0)
      /\ wanted' = Set(wanted, p, "no")
      /\ UNCHANGED <<link, payloadVer, limited, plan, conn, decoder, record>>
  BY DEF Register, Reset
<1>2. \/ open' = Set(open, p, "no") /\ wire' = Set(wire, p, {})
      \/ UNCHANGED <<open, wire>>
  BY DEF Register
<1>3. k \in Nat
  BY DEF ClientTypes
<1>4. RegistryTypes'
  BY <1>1, <1>3, SetType DEF RegistryTypes, Switches
<1>5. ClientTypes'
  <2>1. CASE open' = Set(open, p, "no") /\ wire' = Set(wire, p, {})
    <3>1. open' \in [Clients -> Switches]
      BY <2>1, SetType DEF ClientTypes, Switches
    <3>2. DOMAIN wire' = Clients
      BY <2>1 DEF Set, ClientTypes
    <3> QED
      BY <1>1, <3>1, <3>2 DEF ClientTypes, decoder
  <2>2. CASE UNCHANGED <<open, wire>>
    BY <1>1, <2>2 DEF ClientTypes, decoder
  <2> QED
    BY <1>2, <2>1, <2>2
<1>6. FrameTypes' /\ HistoryTypes'
  BY <1>1 DEF FrameTypes, HistoryTypes, decoder, record
<1> QED
  BY <1>1, <1>2, <1>4, <1>5, <1>6, WireCleared DEF decoder, record

\* The client reads a message: its frame is a published one, and a stream brings a later
\* one than it has.
LEMMA ReceiveView ==
  ASSUME DeltaInv, NEW p \in Clients, NEW m \in wire[p], Receive(p, m)
  PROVE  \/ view' = view
         \/ \E f \in frames : /\ view' = Set(view, p, f) /\ f.id = m.id
                              /\ conn[p] \notin Datagrams /\ view[p] # None => view[p].id < f.id
<1> USE InvParts
<1>1. IsFull(m) \/ IsDelta(m)
  BY DEF WireGenuine
<1>2. conn[p] \notin Datagrams /\ view[p] # None => view[p].id < m.id
  BY DEF StreamsOrdered
<1>3. CASE m.kind = "full"
  <2>1. IsFull(m)
    BY <1>1, <1>3 DEF IsDelta
  <2>2. PICK f \in frames : m = [kind |-> "full", id |-> f.id, body |-> f]
    BY <2>1 DEF IsFull
  <2>3. view' = Set(view, p, m.body)
    BY <1>3 DEF Receive, ApplyFull
  <2>4. m.id = f.id /\ m.body = f
    BY <2>2
  <2> QED
    BY <1>2, <2>3, <2>4
<1>4. CASE m.kind = "delta"
  <2>1. IsDelta(m)
    BY <1>1, <1>4 DEF IsFull
  <2>2. PICK f, g \in frames :
            f.id + 1 = g.id /\ m = [kind |-> "delta", id |-> g.id, body |-> Diff(f, g)]
    BY <2>1 DEF IsDelta
  <2>3. m.body = Diff(f, g) /\ m.id = g.id
    BY <2>2
  <2>4. m.body.id = g.id /\ m.body.base = f.id
    BY <2>3 DEF Diff
  <2>5. ApplyDelta(p, m)
    BY <1>4 DEF Receive
  <2>6. CASE Fits(p, m.body) /\ view' = Set(view, p, Merge(view[p], m.body))
    <3>1. view[p] \in frames /\ view[p].id = f.id
      BY <2>4, <2>6 DEF Fits, ViewExact
    <3>2. view[p] = f
      BY <3>1 DEF FramesNumbered
    <3>3. f \in Frame /\ g \in Frame
      BY DEF TypeOK
    <3>4. \A q \in Players : g.inputs[q] # None => g.inputs[q].frame = g.id
      BY DEF FramesNumbered
    <3>5. Merge(view[p], m.body) = g
      BY <2>3, <3>2, <3>3, <3>4, MergeOfDiff
    <3> QED
      BY <1>2, <2>3, <2>6, <3>5
  <2>7. \/ Fits(p, m.body) /\ view' = Set(view, p, Merge(view[p], m.body))
        \/ view' = view
    BY <2>5 DEF ApplyDelta, Ask, decoder
  <2> QED
    BY <2>6, <2>7
<1>5. m.kind = "full" \/ m.kind = "delta"
  BY DEF Receive
<1> QED
  BY <1>3, <1>4, <1>5

LEMMA ReceiveStep ==
  ASSUME DeltaInv, NEW p \in Clients, NEW m \in wire[p], Receive(p, m)
  PROVE  DeltaInv'
<1> USE InvParts, TypeParts
<1>1. /\ wire' = Set(wire, p, wire[p] \ {m})
      /\ UNCHANGED <<registry, conn, open, record>>
  BY DEF Receive
<1>2. \A q \in Clients : wire'[q] = IF q = p THEN wire[p] \ {m} ELSE wire[q]
  BY <1>1 DEF Set, ClientTypes
<1>3. \A q \in Clients : wire'[q] \subseteq wire[q]
  BY <1>2
<1>4. \/ view' = view
      \/ \E f \in frames : /\ view' = Set(view, p, f) /\ f.id = m.id
                           /\ conn[p] \notin Datagrams /\ view[p] # None => view[p].id < f.id
  BY ReceiveView
<1>5. FrameTypes'
  <2>1. view' \in [Clients -> Frame \cup {None}]
    <3>1. CASE view' = view
      BY <3>1 DEF FrameTypes
    <3>2. ASSUME NEW f \in frames, view' = Set(view, p, f)
          PROVE  view' \in [Clients -> Frame \cup {None}]
      <4>1. f \in Frame \cup {None}
        BY DEF FrameTypes
      <4> QED
        BY <3>2, <4>1, SetType DEF FrameTypes
    <3> QED
      BY <1>4, <3>1, <3>2
  <2> QED
    BY <1>1, <2>1 DEF FrameTypes, registry, record
<1>6. ClientTypes'
  <2>1. ask' \in [Clients -> Switches] /\ pending' \in [Clients -> Switches]
    <3>1. CASE UNCHANGED <<ask, pending>>
      BY <3>1 DEF ClientTypes
    <3>2. CASE UNCHANGED ask /\ pending' = Set(pending, p, "no")
      BY <3>2, SetType DEF ClientTypes, Switches
    <3>3. CASE Ask(p)
      <4>1. (IF pending[p] = "no" THEN "yes" ELSE ask[p]) \in Switches
        BY DEF ClientTypes, Switches
      <4>2. pending' \in [Clients -> Switches]
        BY <3>3, SetType DEF Ask, ClientTypes, Switches
      <4>3. ask' \in [Clients -> Switches]
        BY <3>3, <4>1 DEF Ask, ClientTypes, Set
      <4> QED
        BY <4>2, <4>3
    <3> QED
      BY <3>1, <3>2, <3>3 DEF Receive, ApplyFull, ApplyDelta, decoder
  <2>2. DOMAIN wire' = Clients
    BY <1>1 DEF Set, ClientTypes
  <2> QED
    BY <1>1, <2>1, <2>2 DEF ClientTypes
<1>7. RegistryTypes' /\ HistoryTypes'
  BY <1>1 DEF RegistryTypes, HistoryTypes, registry, record
<1>8. FramesNumbered' /\ PlanFormed'
  BY <1>1 DEF FramesNumbered, PlanFormed, registry, record
<1>9. WireGenuine'
  <2>1. frames' = frames
    BY <1>1 DEF record
  <2>2. \A o : IsFull(o) \/ IsDelta(o) => IsFull(o)' \/ IsDelta(o)'
    BY <2>1 DEF IsFull, IsDelta
  <2>3. \A q \in Clients : \A o \in wire'[q] : IsFull(o) \/ IsDelta(o)
    BY <1>3 DEF WireGenuine
  <2> QED
    BY <2>2, <2>3 DEF WireGenuine
<1>10. ViewExact'
  <2>1. frames' = frames
    BY <1>1 DEF record
  <2>2. \A q \in Clients : view'[q] = view[q] \/ view'[q] \in frames
    BY <1>4 DEF Set, FrameTypes
  <2> QED
    BY <2>1, <2>2 DEF ViewExact
<1>11. StreamsOrdered'
  <2>1. UNCHANGED <<plan, seq, conn>>
    BY <1>1 DEF registry, record
  <2>2. ASSUME NEW q \in Clients, conn[q] \notin Datagrams, view'[q] # None,
               NEW o \in wire'[q]
        PROVE  view'[q].id < o.id
    <3>1. CASE view'[q] = view[q]
      BY <1>3, <2>2, <3>1 DEF StreamsOrdered
    <3>2. CASE q = p /\ view'[q].id = m.id
      <4>1. m.id <= o.id
        BY <1>2, <2>2, <3>2 DEF Receive, Arrives
      <4>2. o # m /\ o \in wire[p]
        BY <1>2, <2>2, <3>2
      <4>3. m.id # o.id
        BY <4>2 DEF StreamsOrdered
      <4>4. m.id \in Nat /\ o.id \in Nat
        BY <4>2 DEF WireGenuine, IsFull, IsDelta, FramesNumbered
      <4> QED
        BY <3>2, <4>1, <4>3, <4>4
    <3> QED
      BY <1>4, <3>1, <3>2 DEF Set, FrameTypes
  <2>3. plan # None =>
           \A t \in plan.todo :
              /\ view'[t.who] # None => view'[t.who].id < seq
              /\ \A o \in wire'[t.who] : o.id < seq
    <3> SUFFICES ASSUME plan # None, NEW t \in plan.todo
                 PROVE  /\ view'[t.who] # None => view'[t.who].id < seq
                        /\ \A o \in wire'[t.who] : o.id < seq
      OBVIOUS
    <3>1. t.who \in Clients
      BY DEF PlanFormed, Target
    <3>2. \A o \in wire[t.who] : o.id < seq
      BY DEF StreamsOrdered
    <3>3. view[t.who] # None => view[t.who].id < seq
      BY DEF StreamsOrdered
    <3>4. view'[t.who] = view[t.who] \/ (t.who = p /\ view'[t.who].id = m.id)
      BY <1>4, <3>1 DEF Set, FrameTypes
    <3> QED
      BY <1>3, <3>1, <3>2, <3>3, <3>4
  <2>4. \A q \in Clients : \A o, u \in wire'[q] : o.id = u.id => o = u
    BY <1>3 DEF StreamsOrdered
  <2> QED
    BY <2>1, <2>2, <2>3, <2>4 DEF StreamsOrdered
<1> QED
  BY <1>5, <1>6, <1>7, <1>8, <1>9, <1>10, <1>11

LEMMA DeltaStep == DeltaInv /\ [Next]_vars => DeltaInv'
<1> SUFFICES ASSUME DeltaInv, [Next]_vars
             PROVE  DeltaInv'
  OBVIOUS
<1>1. CASE Publish
  <2>1. CASE \E c \in Contents : Tick(c)
    BY <2>1, TickStep
  <2>2. CASE Finish \/ EncodeFails
    BY <2>2, EndStep
  <2>3. CASE Commit
    <3>1. plan # None
      BY <2>3 DEF Commit
    <3> QED
      BY <2>3, <3>1, UnsentSteps
  <2>4. CASE plan # None /\ \E t \in plan.todo : Push(t) \/ PushLost(t) \/ PushFails(t)
    <3>1. CASE \E t \in plan.todo : Push(t)
      BY <2>4, <3>1, PushStep
    <3>2. CASE \E t \in plan.todo : PushLost(t) \/ PushFails(t)
      BY <2>4, <3>2, UnsentSteps
    <3> QED
      BY <2>4, <3>1, <3>2
  <2> QED
    BY <1>1, <2>1, <2>2, <2>3, <2>4 DEF Publish
<1>2. CASE \E p \in Clients :
             \/ Dial(p) \/ Disconnect(p)
             \/ \E k \in 1..conn[p] : Register(p, k)
             \/ \E v \in {"full", "delta"} : Negotiate(p, v)
             \/ RequestKeyframe(p) \/ RequestLost(p) \/ LimitEnds(p)
             \/ \E m \in wire[p] : Receive(p, m)
  BY <1>2, DialStep, RegisterStep, ReceiveStep, QuietSteps, UntouchedKeeps
<1>3. CASE UNCHANGED vars
  <2>1. TypeOK'
    BY <1>3, InvParts DEF vars, registry, client, record, TypeOK
  <2>2. Untouched
    BY <1>3 DEF vars, registry, client, record, Untouched
  <2> QED
    BY <2>1, <2>2, UntouchedKeeps
<1> QED
  BY <1>1, <1>2, <1>3 DEF Next

\* Every message on the wire is a published frame or the difference of two consecutive
\* ones, and what a client has is a published frame.
THEOREM DeltaInvariant == Spec => []DeltaInv
  BY InitDelta, DeltaStep, PTL DEF Spec

\* A message that is not about the client's frame leaves the promise alone.
LEMMA OtherSteps ==
  ASSUME UNCHANGED <<frames, view>>, UNCHANGED Line
  PROVE  UNCHANGED Abstract!vars
BY DEF Abstract!vars, Line

LEMMA AbstractInit == Init => Abstract!Init
<1> SUFFICES ASSUME Init
             PROVE  Abstract!Init
  OBVIOUS
<1>1. Line \in [Clients -> {"stream", "datagram"}]
  BY DEF Line
<1> QED
  BY <1>1 DEF Init, Abstract!Init

\* The mapping of the steps: a tick publishes a frame, a message that is read delivers one,
\* a new connection may change the line; the others do nothing the promise speaks of.
LEMMA AbstractStep == DeltaInv /\ [Next]_vars => [Abstract!Next]_(Abstract!vars)
<1> SUFFICES ASSUME DeltaInv, [Next]_vars
             PROVE  [Abstract!Next]_(Abstract!vars)
  OBVIOUS
<1> USE InvParts
<1>1. ASSUME NEW c \in Contents, Tick(c)
      PROVE  Abstract!Publish
  <2> DEFINE f == Stamp(c, seq')
  <2>1. seq' = seq + 1 /\ seq \in Nat /\ seq' \in Nat
    BY <1>1 DEF Tick, TypeOK
  <2>2. f.id = seq + 1
    BY <2>1, StampedFrame
  <2>3. frames' = frames \cup {f} /\ UNCHANGED <<view, conn>>
    BY <1>1 DEF Tick, client
  <2>4. \A g \in frames : g.id < f.id
    BY <2>1, <2>2 DEF FramesNumbered
  <2>5. UNCHANGED Line
    BY <2>3 DEF Line
  <2> HIDE DEF f
  <2> QED
    BY <2>3, <2>4, <2>5 DEF Abstract!Publish
<1>2. ASSUME NEW p \in Clients, NEW m \in wire[p], Receive(p, m)
      PROVE  [Abstract!Next]_(Abstract!vars)
  <2>1. frames' = frames /\ UNCHANGED Line
    BY <1>2 DEF Receive, record, Line
  <2>2. CASE view' = view
    BY <2>1, <2>2, OtherSteps
  <2>3. ASSUME NEW f \in frames, view' = Set(view, p, f),
               conn[p] \notin Datagrams /\ view[p] # None => view[p].id < f.id
        PROVE  Abstract!Deliver(p, f)
    BY <2>1, <2>3 DEF Abstract!Deliver, Abstract!Later, Line, Set
  <2> QED
    BY <1>2, <2>2, <2>3, ReceiveView DEF Abstract!Next
<1>3. ASSUME NEW p \in Clients, Dial(p)
      PROVE  \E l \in {"stream", "datagram"} : Abstract!Switch(p, l)
  <2> DEFINE l == IF conn[p] + 1 \in Datagrams THEN "datagram" ELSE "stream"
  <2>1. UNCHANGED <<frames, view>> /\ conn' = [conn EXCEPT ![p] = conn[p] + 1]
    BY <1>3 DEF Dial, decoder, Set
  <2>2. conn \in [Clients -> Nat]
    BY DEF TypeOK
  <2>3. Line' = [Line EXCEPT ![p] = l]
    BY <2>1, <2>2 DEF Line
  <2>4. l \in {"stream", "datagram"}
    OBVIOUS
  <2> HIDE DEF l
  <2> QED
    BY <2>1, <2>3, <2>4 DEF Abstract!Switch
<1>4. ASSUME UNCHANGED <<frames, view, conn>>
      PROVE  UNCHANGED Abstract!vars
  BY <1>4, OtherSteps DEF Line
<1>5. CASE Publish
  <2>1. CASE \E c \in Contents : Tick(c)
    BY <1>1, <2>1 DEF Abstract!Next
  <2>2. CASE Finish \/ EncodeFails \/ Commit
    BY <1>4, <2>2 DEF Finish, EncodeFails, Commit, client, record
  <2>3. CASE \E t \in plan.todo : Push(t) \/ PushLost(t) \/ PushFails(t)
    BY <1>4, <2>3 DEF Push, PushLost, PushFails, client, record, decoder
  <2> QED
    BY <1>5, <2>1, <2>2, <2>3 DEF Publish
<1>6. ASSUME NEW p \in Clients,
             \/ Disconnect(p) \/ RequestKeyframe(p) \/ RequestLost(p) \/ LimitEnds(p)
             \/ \E k \in 1..conn[p] : Register(p, k)
             \/ \E v \in {"full", "delta"} : Negotiate(p, v)
      PROVE  UNCHANGED Abstract!vars
  BY <1>4, <1>6 DEF Disconnect, RequestKeyframe, RequestLost, LimitEnds, Register, Negotiate,
     client, record, decoder
<1>7. CASE UNCHANGED vars
  BY <1>4, <1>7 DEF vars, client, record
<1> QED
  BY <1>2, <1>3, <1>5, <1>6, <1>7 DEF Next, Abstract!Next

\* The chain of differences implements the promise of the downlink.
THEOREM Implements == Spec => AbstractSpec
<1>1. Spec => []DeltaInv
  BY DeltaInvariant
<1> QED
  BY <1>1, AbstractInit, AbstractStep, PTL DEF Spec, AbstractSpec, Abstract!Spec
-------------------------------------------------------------------------------
(* Recovery: the invariant *)

\* A connection is registered at most once, and while it is open it stays registered: what
\* is planned for it, or being sent over it, is for a registered connection.
Handed == IF plan = None THEN {} ELSE plan.todo \cup ({plan.sent} \ {None})
Connected ==
    /\ \A p \in Clients : conns[p] <= conn[p] /\ (open[p] = "no" => wire[p] = {})
    /\ \A t \in Handed : /\ t.conn <= conn[t.who]
                         /\ Alive(t) => conns[t.who] = t.conn

\* One message at a time, and one to a client in a tick.
OneAtATime ==
    plan # None =>
        /\ plan.at \in {"encode", "push"} /\ plan.delta \in Difference \cup {None}
        /\ plan.sent # None => \A t \in plan.todo : t.who # plan.sent.who
        /\ plan.at = "encode" => plan.sent = None

\* A difference is planned for a client that the message before was sent to.
DeltasPlanned ==
    plan # None => \A t \in plan.todo : t.full = "no" =>
        /\ seq % KeyEvery # 0 /\ t.conn \notin Datagrams
        /\ Alive(t) => lastSeq[t.who] + 1 = seq

\* The number of the client's state is that of the last message, unless that one has been
\* lost or is being sent.
Live(p) == open[p] = "yes" /\ conns[p] = conn[p]
Committing(p) == plan # None /\ plan.sent # None /\ plan.sent.who = p /\ plan.sent.conn = conn[p]
Counted(p) ==
    Live(p) =>
        /\ calm[p] > 0 /\ Committing(p) => sent[p] = plan.frame.id
        /\ calm[p] > 0 /\ ~Committing(p) => lastSeq[p] \in {0, sent[p]}
        /\ calm[p] = 0 /\ lossy[p] = "no" => lastSeq[p] = 0 /\ ~Committing(p)

\* The messages that lead the client to the frame sent last: a whole frame, or what it has,
\* and all the messages after it.
Anchor(p, k) == \/ view[p] # None /\ view[p].id = k
                \/ \E m \in wire[p] : m.kind = "full" /\ m.id = k
Healed(p) ==
    \E k \in 0..sent[p] : /\ Anchor(p, k)
                          /\ \A j \in k + 1..sent[p] : \E m \in wire[p] : m.id = j

\* Nothing but differences has been sent since a loss.
Bare(p) == \A j \in 0..sent[p] : sent[p] < j + calm[p] => j % KeyEvery # 0

\* Nothing on the wire will be refused.
Chained(p) ==
    \A m \in wire[p] : \/ m.kind = "full"
                       \/ view[p] # None /\ view[p].id + 1 = m.id
                       \/ \E o \in wire[p] : o.id + 1 = m.id

Led(p) ==
    /\ \A m \in wire[p] : m.id <= sent[p] /\ (conn[p] \in Datagrams => m.kind = "full")
    /\ open[p] = "yes" /\ conn[p] \notin Datagrams =>
        /\ calm[p] > 0 => Healed(p) \/ Bare(p)
        /\ calm[p] > 0 /\ lossy[p] = "no" => Healed(p) 
        /\ calm[p] = 0 /\ lossy[p] = "no" => wire[p] = {}
        /\ lossy[p] = "no" => Chained(p)

LinkInv ==
    /\ Connected /\ OneAtATime /\ DeltasPlanned
    /\ \A p \in Clients : Counted(p) /\ Led(p)

\* Lemmas: what the invariant of the frames says of connections and numbers.
LEMMA LinkTypes ==
  ASSUME DeltaInv
  PROVE  /\ seq \in Nat /\ KeyEvery \in Nat \ {0}
         /\ \A p \in Clients : /\ conns[p] \in Nat /\ conn[p] \in Nat /\ lastSeq[p] \in Nat
                               /\ calm[p] \in Nat /\ sent[p] \in Nat
                               /\ open[p] \in {"yes", "no"} /\ lossy[p] \in {"yes", "no"}
                               /\ pending[p] \in {"yes", "no"}
                               /\ view[p] # None => view[p].id \in 1..seq
                               /\ \A m \in wire[p] : m.id \in 1..seq
         /\ \A t \in Handed : t.who \in Clients /\ t.conn \in Nat
<1> USE InvParts, TypeParts
<1>1. seq \in Nat /\ DOMAIN wire = Clients
  BY DEF FrameTypes, ClientTypes
<1>2. ASSUME NEW p \in Clients
      PROVE  /\ conns[p] \in Nat /\ conn[p] \in Nat /\ lastSeq[p] \in Nat
             /\ calm[p] \in Nat /\ sent[p] \in Nat
             /\ open[p] \in {"yes", "no"} /\ lossy[p] \in {"yes", "no"}
             /\ pending[p] \in {"yes", "no"}
  BY DEF RegistryTypes, ClientTypes, HistoryTypes, Switches
<1>3. ASSUME NEW p \in Clients, view[p] # None PROVE view[p].id \in 1..seq
  BY <1>3 DEF ViewExact, FramesNumbered
<1>4. ASSUME NEW p \in Clients, NEW m \in wire[p] PROVE m.id \in 1..seq
  BY DEF WireGenuine, IsFull, IsDelta, FramesNumbered
<1>5. ASSUME NEW t \in Handed PROVE t.who \in Clients /\ t.conn \in Nat
  <2>1. t \in Target
    BY DEF Handed, PlanFormed
  <2> QED
    BY <2>1 DEF Target
<1> QED
  BY <1>1, <1>2, <1>3, <1>4, <1>5

\* What a step leaves of a client.
SameLine(p) ==
    /\ conn'[p] = conn[p] /\ open'[p] = open[p]
    /\ wire'[p] = wire[p] /\ view'[p] = view[p]
    /\ lossy'[p] = lossy[p] /\ calm'[p] = calm[p] /\ sent'[p] = sent[p]
SameState(p) ==
    /\ conns'[p] = conns[p] /\ lastSeq'[p] = lastSeq[p]
    /\ Committing(p)' <=> Committing(p)
    /\ Committing(p) => plan'.frame = plan.frame

LEMMA LedSame ==
  ASSUME NEW p \in Clients, SameLine(p), Led(p)
  PROVE  Led(p)'
<1>1. (Healed(p) => Healed(p)') /\ (Bare(p) => Bare(p)') /\ (Chained(p) => Chained(p)')
  BY DEF SameLine, Healed, Anchor, Bare, Chained
<1> QED
  BY <1>1 DEF SameLine, Led

LEMMA CountedSame ==
  ASSUME NEW p \in Clients, SameLine(p), SameState(p), Counted(p)
  PROVE  Counted(p)'
  BY DEF SameLine, SameState, Counted, Live

\* Setting an entry leaves the others.
LEMMA SetOther ==
  ASSUME NEW f, DOMAIN f = Clients, NEW p \in Clients, NEW v
  PROVE  /\ Set(f, p, v)[p] = v
         /\ \A q \in Clients : q # p => Set(f, p, v)[q] = f[q]
  BY DEF Set

LEMMA Domains ==
  ASSUME DeltaInv
  PROVE  /\ DOMAIN conns = Clients /\ DOMAIN lastSeq = Clients /\ DOMAIN conn = Clients
         /\ DOMAIN open = Clients /\ DOMAIN wire = Clients /\ DOMAIN view = Clients
         /\ DOMAIN lossy = Clients /\ DOMAIN calm = Clients /\ DOMAIN sent = Clients
         /\ DOMAIN pending = Clients
  BY InvParts, TypeParts DEF FrameTypes, RegistryTypes, ClientTypes, HistoryTypes

LEMMA LinkInit == Init => LinkInv
<1> SUFFICES ASSUME Init PROVE LinkInv
  OBVIOUS
<1>1. Connected /\ OneAtATime /\ DeltasPlanned
  BY DEF Init, Connected, OneAtATime, DeltasPlanned, Handed
<1>2. \A p \in Clients : Counted(p) /\ Led(p)
  BY DEF Init, Counted, Led, Live
<1> QED
  BY <1>1, <1>2 DEF LinkInv

\* The steps of the actor that concern neither the connections nor what is sent.
LEMMA LinkQuiet ==
  ASSUME LinkInv,
         UNCHANGED <<plan, seq, conns, lastSeq, conn, open, wire, view, lossy, calm, sent>>
  PROVE  LinkInv'
<1>1. Connected' /\ OneAtATime' /\ DeltasPlanned'
  BY DEF LinkInv, Connected, OneAtATime, DeltasPlanned, Handed, Alive
<1>2. ASSUME NEW p \in Clients PROVE Counted(p)' /\ Led(p)'
  <2>1. SameLine(p) /\ SameState(p)
    BY DEF SameLine, SameState, Committing
  <2> QED
    BY <2>1, LedSame, CountedSame DEF LinkInv
<1> QED
  BY <1>1, <1>2 DEF LinkInv

LEMMA DiffType ==
  ASSUME NEW prev \in Frame, NEW cur \in Frame
  PROVE  Diff(prev, cur) \in Difference
<1>1. \A q \in Players : (IF SameInput(prev.inputs[q], cur.inputs[q]) THEN None ELSE cur.inputs[q])
                             \in Input \cup {None}
  BY DEF Frame
<1>2. prev.id \in Nat /\ cur.id \in Nat /\ cur.hash \in Hashes /\ cur.time \in Times
      /\ cur.snap \in Snapshots \cup {None}
  BY DEF Frame
<1> QED
  BY <1>1, <1>2 DEF Diff, Difference

\* A tick plans for the connections that are registered.
LEMMA LinkTick ==
  ASSUME DeltaInv, LinkInv, NEW c \in Contents, Tick(c)
  PROVE  LinkInv'
<1> DEFINE f == Stamp(c, seq')
<1>1. seq' = seq + 1 /\ seq \in Nat /\ plan = None
      /\ UNCHANGED <<conns, lastSeq, conn, open, wire, view, lossy, calm, sent>>
  BY LinkTypes DEF Tick, states, client, quality
<1>2. f.id = seq'
  BY <1>1, StampedFrame
<1>3. plan' = Plan(f)
  BY DEF Tick
<1> HIDE DEF f
<1>4. /\ plan' # None => plan'.sent = None /\ plan'.todo = Targets(seq')
      /\ Handed' \subseteq Targets(seq')
  BY <1>2, <1>3 DEF Plan, Handed
<1>5. \A t \in Targets(seq') :
         /\ t.who \in Clients /\ t.conn = conns[t.who]
         /\ t.full = "no" => ~Full(t.who, seq')
  BY DEF Targets
<1>6. Connected'
  BY <1>1, <1>4, <1>5 DEF LinkInv, Connected
<1>7. OneAtATime'
  <2>1. plan'.at = "encode"
        /\ plan'.delta = IF \A t \in Targets(seq') : t.full = "yes" THEN None ELSE Diff(link, f)
    BY <1>2, <1>3 DEF Plan
  <2>2. CASE \A t \in Targets(seq') : t.full = "yes"
    BY <1>4, <2>1, <2>2 DEF OneAtATime
  <2>3. CASE ~\A t \in Targets(seq') : t.full = "yes"
    <3>1. LinkOK(seq')
      BY <2>3 DEF Targets, Full
    <3>2. link \in Frame /\ f \in Frame
      BY <1>1, <3>1, StampedFrame DEF f, LinkOK, DeltaInv, TypeOK
    <3>3. Diff(link, f) \in Difference
      BY <3>2, DiffType
    <3> QED
      BY <1>4, <2>1, <2>3, <3>3 DEF OneAtATime
  <2> QED
    BY <2>2, <2>3
<1>8. DeltasPlanned'
  BY <1>1, <1>4, <1>5 DEF DeltasPlanned, Full
<1>9. ASSUME NEW p \in Clients PROVE Counted(p)' /\ Led(p)'
  <2>1. SameLine(p) /\ SameState(p)
    BY <1>1, <1>4 DEF SameLine, SameState, Committing
  <2> QED
    BY <2>1, LedSame, CountedSame DEF LinkInv
<1> QED
  BY <1>6, <1>7, <1>8, <1>9 DEF LinkInv

LEMMA LinkEnd ==
  ASSUME LinkInv, Finish \/ EncodeFails
  PROVE  LinkInv'
<1>1. plan' = None /\ UNCHANGED <<conns, lastSeq, conn, open, wire, view, lossy, calm, sent, seq>>
  BY DEF Finish, EncodeFails, Advance, states, client, record
<1>2. plan # None => plan.sent = None
  BY DEF Finish, EncodeFails, LinkInv, OneAtATime
<1>3. Connected' /\ OneAtATime' /\ DeltasPlanned'
  BY <1>1 DEF LinkInv, Connected, OneAtATime, DeltasPlanned, Handed
<1>4. ASSUME NEW p \in Clients PROVE Counted(p)' /\ Led(p)'
  <2>1. SameLine(p) /\ SameState(p)
    BY <1>1, <1>2 DEF SameLine, SameState, Committing
  <2> QED
    BY <2>1, LedSame, CountedSame DEF LinkInv
<1> QED
  BY <1>3, <1>4 DEF LinkInv

\* A target that has been dealt with, or whose message has been committed.
LEMMA LinkHanded ==
  ASSUME DeltaInv, LinkInv, plan # None,
         NEW t \in plan.todo, NEW s \in {t, None}, Taken(t, s)
  PROVE  /\ plan' # None => plan'.frame = plan.frame /\ plan'.todo = plan.todo \ {t} /\ plan'.sent = s
         /\ Handed' \subseteq Handed /\ t \in Handed
         /\ OneAtATime'
         /\ \A u \in plan.todo \ {t} : u.who # t.who
         /\ plan' # None /\ t # None
<1>1. /\ plan'.frame = plan.frame /\ plan'.todo = plan.todo \ {t} /\ plan'.sent = s
      /\ plan'.at = "push" /\ plan'.delta = plan.delta
  BY DEF Taken
<1>2. \A u \in plan.todo \ {t} : u.who # t.who
  BY DEF DeltaInv, PlanFormed
<1>3. OneAtATime'
  BY <1>1, <1>2 DEF LinkInv, OneAtATime
<1>4. Handed' \subseteq Handed /\ t \in Handed
  BY <1>1 DEF Handed
<1>5. t # None /\ t \in Target
  BY NoneAssumption DEF DeltaInv, PlanFormed
<1>6. plan' # None
  <2>1. /\ plan.frame \in Frame /\ plan.todo \ {t} \subseteq Target
        /\ plan.delta \in Difference \cup {None} /\ s \in Target \cup {None}
    BY <1>5 DEF DeltaInv, TypeOK, PlanFormed, LinkInv, OneAtATime
  <2>2. plan' \in PlanOf
    BY <2>1 DEF Taken, PlanOf
  <2> QED
    BY <2>2, NoneAssumption
<1> QED
  BY <1>1, <1>2, <1>3, <1>4, <1>5, <1>6

\* The message that is pushed: what the client's state says of the one before.
LEMMA PushedAfter ==
  ASSUME DeltaInv, LinkInv, plan # None, NEW t \in plan.todo, Alive(t), t.full = "no"
  PROVE  /\ ~Committing(t.who) /\ Live(t.who)
         /\ seq % KeyEvery # 0 /\ t.conn \notin Datagrams
         /\ calm[t.who] > 0 => sent[t.who] + 1 = seq
         /\ calm[t.who] = 0 => lossy[t.who] # "no"
<1> DEFINE p == t.who
<1>1. t \in Handed
  BY DEF Handed
<1>2. conns[p] = t.conn /\ conn[p] = t.conn /\ open[p] = "yes"
  BY <1>1 DEF LinkInv, Connected, Alive
<1>3. ~Committing(p)
  BY DEF LinkInv, OneAtATime, Committing
<1>4. seq % KeyEvery # 0 /\ t.conn \notin Datagrams /\ lastSeq[p] + 1 = seq
  BY DEF LinkInv, DeltasPlanned
<1>5. link # None /\ link.id + 1 = seq /\ link \in frames /\ link.id \in 1..seq
  BY DEF DeltaInv, PlanFormed, FramesNumbered
<1>6. p \in Clients /\ lastSeq[p] \in Nat /\ seq \in Nat /\ calm[p] \in Nat
  BY <1>1, LinkTypes
<1>7. lastSeq[p] # 0
  BY <1>4, <1>5, <1>6
<1>8. Counted(p)
  BY <1>6 DEF LinkInv
<1> QED
  BY <1>2, <1>3, <1>4, <1>6, <1>7, <1>8 DEF Counted, Live

\* A whole frame heals the stream; a difference lengthens what heals it, or the run of
\* differences since the loss.
LEMMA PushLed ==
  ASSUME DeltaInv, LinkInv, plan # None, NEW t \in plan.todo, Push(t)
  PROVE  Led(t.who)'
<1> DEFINE p == t.who
           m == Message(t)
<1>n. PICK n \in Nat : n = seq
  BY LinkTypes
<1>1. /\ m.id = seq /\ p \in Clients
      /\ m.kind = IF t.full = "yes" THEN "full" ELSE "delta"
  BY GenuineMessage DEF Message
<1>2. t.full \in {"yes", "no"} /\ plan.frame.id = seq
  BY DEF DeltaInv, PlanFormed, Target
<1>3. /\ wire'[p] = wire[p] \cup {m} /\ calm'[p] = calm[p] + 1 /\ sent'[p] = seq
      /\ UNCHANGED <<conn, open, view, lossy>>
      /\ t.conn = conn[p] /\ open[p] = "yes"
  <2>1. /\ wire' = Set(wire, p, wire[p] \cup {m}) /\ calm' = Set(calm, p, calm[p] + 1)
        /\ sent' = Set(sent, p, seq)
        /\ UNCHANGED <<conn, open, view, lossy>> /\ Alive(t)
    BY <1>2 DEF Push, decoder
  <2>2. DOMAIN wire = Clients /\ DOMAIN calm = Clients /\ DOMAIN sent = Clients
    BY Domains
  <2> HIDE DEF m
  <2>3. wire'[p] = wire[p] \cup {m}
    BY <1>1, <2>1, <2>2 DEF Set
  <2>4. calm'[p] = calm[p] + 1 /\ sent'[p] = seq
    BY <1>1, <2>1, <2>2, SetOther
  <2> QED
    BY <2>1, <2>3, <2>4 DEF Alive
<1>4. \A o \in wire[p] : o.id < seq /\ o.id \in Nat
  <2>1. \A o \in wire[p] : o.id < seq
    BY DEF DeltaInv, StreamsOrdered
  <2> QED
    BY <1>1, <2>1, LinkTypes
<1>5. seq \in Nat /\ calm[p] \in Nat /\ sent[p] \in Nat /\ KeyEvery \in Nat \ {0}
  BY <1>1, LinkTypes
<1>6. Led(p)
  BY <1>1 DEF LinkInv
<1> HIDE DEF m
<1>7. m \in wire'[p] /\ \A o \in wire[p] : o \in wire'[p]
  BY <1>3
<1>8. CASE t.full = "yes"
  <2>1. Anchor(p, n)'
    BY <1>1, <1>n, <1>7, <1>8 DEF Anchor
  <2>2. Healed(p)'
    BY <1>3, <1>n, <2>1 DEF Healed
  <2>3. Chained(p) => Chained(p)'
    BY <1>1, <1>3, <1>8 DEF Chained
  <2> QED
    BY <1>1, <1>3, <1>4, <1>5, <1>6, <1>8, <2>2, <2>3 DEF Led
<1>9. CASE t.full = "no"
  <2>1. /\ seq % KeyEvery # 0 /\ conn[p] \notin Datagrams
        /\ calm[p] > 0 => sent[p] + 1 = seq
        /\ calm[p] = 0 => lossy[p] # "no"
    BY <1>3, <1>9, PushedAfter DEF Alive
  <2>2. ASSUME calm[p] > 0, Healed(p)
        PROVE  Healed(p)' /\ (Chained(p) => Chained(p)')
    <3>1. PICK k \in 0..sent[p] : Anchor(p, k) /\ \A j \in k + 1..sent[p] : \E o \in wire[p] : o.id = j
      BY <2>2 DEF Healed
    <3>2. sent[p] + 1 = seq
      BY <2>1, <2>2
    <3>3. Anchor(p, k)' /\ k \in 0..seq
      BY <1>3, <1>5, <1>7, <3>1, <3>2 DEF Anchor
    <3>4. ASSUME NEW j \in k + 1..seq PROVE \E o \in wire'[p] : o.id = j
      BY <1>1, <1>5, <1>7, <3>1, <3>2
    <3>5. Healed(p)'
      BY <1>3, <3>3, <3>4 DEF Healed
    <3>6. \/ view[p] # None /\ view[p].id + 1 = seq
          \/ \E o \in wire[p] : o.id + 1 = seq
      <4>1. CASE k = sent[p]
        BY <3>1, <3>2, <4>1 DEF Anchor
      <4>2. CASE k # sent[p]
        <5>1. sent[p] \in k + 1..sent[p]
          BY <1>5, <3>1, <4>2
        <5> QED
          BY <3>1, <3>2, <5>1
      <4> QED
        BY <4>1, <4>2
    <3>7. ASSUME Chained(p) PROVE Chained(p)'
      <4>1. ASSUME NEW o \in wire'[p]
            PROVE  \/ o.kind = "full"
                   \/ view'[p] # None /\ view'[p].id + 1 = o.id
                   \/ \E u \in wire'[p] : u.id + 1 = o.id
        <5>1. CASE o = m
          BY <1>1, <1>3, <3>6, <5>1
        <5>2. CASE o # m
          BY <1>3, <3>7, <5>2 DEF Chained
        <5> QED
          BY <5>1, <5>2
      <4> QED
        BY <4>1 DEF Chained
    <3> QED
      BY <3>5, <3>7
  <2>3. ASSUME calm[p] = 0 \/ Bare(p) PROVE Bare(p)'
    <3>1. ASSUME NEW j \in 0..seq, seq < j + (calm[p] + 1) PROVE j % KeyEvery # 0
      <4>1. CASE j = seq
        BY <2>1, <4>1
      <4>2. CASE j # seq
        <5>1. calm[p] > 0 /\ sent[p] + 1 = seq /\ j \in 0..sent[p] /\ sent[p] < j + calm[p]
          BY <1>5, <2>1, <3>1, <4>2
        <5>2. Bare(p)
          BY <2>3, <5>1
        <5> QED
          BY <5>1, <5>2 DEF Bare
      <4> QED
        BY <4>1, <4>2
    <3> QED
      BY <1>3, <3>1 DEF Bare
  <2>4. CASE calm[p] = 0
    BY <1>1, <1>3, <1>4, <1>5, <1>6, <2>1, <2>3, <2>4 DEF Led
  <2>5. CASE calm[p] > 0
    BY <1>1, <1>3, <1>4, <1>5, <1>6, <2>1, <2>2, <2>3, <2>5 DEF Led
  <2> QED
    BY <1>5, <2>4, <2>5
<1> QED
  BY <1>2, <1>8, <1>9

LEMMA LinkPush ==
  ASSUME DeltaInv, LinkInv, plan # None, NEW t \in plan.todo, Push(t)
  PROVE  LinkInv'
<1> DEFINE p == t.who
<1>1. /\ plan' # None => plan'.frame = plan.frame /\ plan'.todo = plan.todo \ {t} /\ plan'.sent = t
      /\ Handed' \subseteq Handed /\ t \in Handed
      /\ OneAtATime'
      /\ \A u \in plan.todo \ {t} : u.who # t.who
      /\ plan' # None /\ t # None
  BY LinkHanded DEF Push
<1>2. p \in Clients /\ t.conn = conn[p] /\ open[p] = "yes" /\ conns[p] = conn[p]
  BY <1>1, LinkTypes DEF Push, Alive, LinkInv, Connected
<1>3. /\ UNCHANGED <<conns, lastSeq, conn, open, view, lossy, seq>>
      /\ calm'[p] = calm[p] + 1 /\ sent'[p] = plan.frame.id
      /\ \A q \in Clients : q # p => wire'[q] = wire[q] /\ calm'[q] = calm[q] /\ sent'[q] = sent[q]
  <2>1. /\ UNCHANGED <<conns, lastSeq, conn, open, view, lossy, seq>>
        /\ wire' = Set(wire, p, wire[p] \cup {Message(t)}) /\ calm' = Set(calm, p, calm[p] + 1)
        /\ sent' = Set(sent, p, plan.frame.id)
    BY DEF Push, decoder, states
  <2> QED
    BY <1>2, <2>1, Domains, SetOther
<1>4. plan.sent = None
  BY DEF Push
<1>5. Connected'
  BY <1>1, <1>2, <1>3 DEF LinkInv, Connected, Alive
<1>6. DeltasPlanned'
  BY <1>1, <1>3 DEF LinkInv, DeltasPlanned, Alive
<1>7. ASSUME NEW q \in Clients PROVE Counted(q)' /\ Led(q)'
  <2>1. CASE q = p
    <3>1. Committing(p)' => plan'.frame = plan.frame
      BY <1>1 DEF Committing
    <3>2. Committing(p)'
      BY <1>1, <1>2, <1>3 DEF Committing
    <3>3. calm[p] \in Nat
      BY <1>2, LinkTypes
    <3>4. Counted(p)'
      BY <1>3, <3>1, <3>2, <3>3 DEF Counted
    <3> QED
      BY <2>1, <3>4, PushLed
  <2>2. CASE q # p
    <3>1. ~Committing(q)' /\ ~Committing(q)
      BY <1>1, <1>4, <2>2 DEF Committing
    <3>2. SameLine(q) /\ SameState(q)
      BY <1>3, <2>2, <3>1 DEF SameLine, SameState
    <3> QED
      BY <3>2, LedSame, CountedSame DEF LinkInv
  <2> QED
    BY <2>1, <2>2
<1> QED
  BY <1>1, <1>5, <1>6, <1>7 DEF LinkInv

\* After a loss nothing is claimed until the next message.
LEMMA LinkPushLost ==
  ASSUME DeltaInv, LinkInv, plan # None, NEW t \in plan.todo, PushLost(t)
  PROVE  LinkInv'
<1> DEFINE p == t.who
<1>1. /\ plan'.frame = plan.frame /\ plan'.todo = plan.todo \ {t} /\ plan'.sent = t
      /\ Handed' \subseteq Handed /\ t \in Handed
      /\ OneAtATime'
      /\ \A u \in plan.todo \ {t} : u.who # t.who
      /\ plan' # None /\ t # None
  BY LinkHanded DEF PushLost
<1>2. p \in Clients /\ plan.sent = None /\ (Alive(t) => conns[p] = t.conn)
  BY <1>1, LinkTypes DEF PushLost, LinkInv, Connected
<1>3. UNCHANGED <<conns, lastSeq, conn, open, wire, view, seq, sent>>
  BY DEF PushLost, states, client
<1>4. \/ /\ Alive(t) /\ lossy'[p] = "yes" /\ calm'[p] = 0
         /\ \A q \in Clients : q # p => lossy'[q] = lossy[q] /\ calm'[q] = calm[q]
      \/ ~Alive(t) /\ UNCHANGED <<lossy, calm>>
  <2>1. \/ Alive(t) /\ lossy' = Set(lossy, p, "yes") /\ calm' = Set(calm, p, 0)
        \/ ~Alive(t) /\ UNCHANGED <<lossy, calm>>
    BY DEF PushLost
  <2>2. DOMAIN lossy = Clients /\ DOMAIN calm = Clients
    BY Domains
  <2> QED
    BY <1>2, <2>1, <2>2, SetOther
<1>5. Connected'
  BY <1>1, <1>3 DEF LinkInv, Connected, Alive
<1>6. DeltasPlanned'
  BY <1>1, <1>3 DEF LinkInv, DeltasPlanned, Alive
<1>7. ASSUME NEW q \in Clients PROVE Counted(q)' /\ Led(q)'
  <2>1. CASE q # p
    <3>1. ~Committing(q)' /\ ~Committing(q)
      BY <1>1, <1>2, <2>1 DEF Committing
    <3>2. SameLine(q) /\ SameState(q)
      BY <1>3, <1>4, <2>1, <3>1 DEF SameLine, SameState
    <3> QED
      BY <3>2, LedSame, CountedSame DEF LinkInv
  <2>2. CASE q = p /\ ~Alive(t)
    <3>1. SameLine(p)
      BY <1>3, <1>4, <2>2 DEF SameLine
    <3>2. Counted(p)'
      <4>1. CASE open[p] = "yes"
        <5>1. ~Committing(p)' /\ ~Committing(p)
          BY <1>1, <1>2, <1>3, <2>2, <4>1 DEF Committing, Alive
        <5>2. SameState(p)
          BY <1>3, <5>1 DEF SameState
        <5> QED
          BY <1>2, <3>1, <5>2, CountedSame DEF LinkInv
      <4>2. CASE open[p] # "yes"
        BY <1>3, <4>2 DEF Counted, Live
      <4> QED
        BY <4>1, <4>2
    <3> QED
      BY <1>2, <2>2, <3>1, <3>2, LedSame DEF LinkInv
  <2>3. CASE q = p /\ Alive(t)
    <3>1. lossy'[p] = "yes" /\ calm'[p] = 0
      BY <1>4, <2>3
    <3>2. Counted(p)'
      BY <3>1 DEF Counted
    <3>3. Led(p)
      BY <1>2 DEF LinkInv
    <3>4. Led(p)'
      BY <1>3, <3>1, <3>3 DEF Led
    <3> QED
      BY <2>3, <3>2, <3>4
  <2> QED
    BY <2>1, <2>2, <2>3
<1> QED
  BY <1>1, <1>5, <1>6, <1>7 DEF LinkInv

\* A message that is not sent leaves the client's number behind, so that the next one is a
\* whole frame; only connections that are not in use are unregistered.
LEMMA LinkPushFails ==
  ASSUME DeltaInv, LinkInv, plan # None, NEW t \in plan.todo, PushFails(t)
  PROVE  LinkInv'
<1> DEFINE p == t.who
<1>1. /\ plan'.frame = plan.frame /\ plan'.todo = plan.todo \ {t} /\ plan'.sent = None
      /\ Handed' \subseteq Handed /\ t \in Handed
      /\ OneAtATime'
      /\ \A u \in plan.todo \ {t} : u.who # t.who
      /\ plan' # None /\ t # None
  BY LinkHanded DEF PushFails
<1>2. p \in Clients /\ plan.sent = None /\ (Alive(t) => conns[p] = t.conn)
  BY <1>1, LinkTypes DEF PushFails, LinkInv, Connected
<1>3. UNCHANGED <<conn, open, wire, view, seq, sent, lossy, calm>>
  BY DEF PushFails, client, record
<1>4. \/ UNCHANGED <<conns, lastSeq>>
      \/ /\ ~Alive(t) /\ conns[p] = t.conn /\ conns'[p] = 0
         /\ \A q \in Clients : q # p => conns'[q] = conns[q] /\ lastSeq'[q] = lastSeq[q]
  <2>1. \/ UNCHANGED <<conns, lastSeq>>
        \/ /\ ~Alive(t) /\ conns[p] = t.conn
           /\ conns' = Set(conns, p, 0) /\ lastSeq' = Set(lastSeq, p, 0)
    BY DEF PushFails, Unregister, Reset, states
  <2>2. DOMAIN conns = Clients /\ DOMAIN lastSeq = Clients
    BY Domains
  <2> QED
    BY <1>2, <2>1, <2>2, SetOther
<1>5. Connected'
  <2>1. \A q \in Clients : conns'[q] <= conn'[q] /\ (open'[q] = "no" => wire'[q] = {})
    BY <1>3, <1>4, LinkTypes DEF LinkInv, Connected
  <2>2. ASSUME NEW u \in Handed'
        PROVE  u.conn <= conn'[u.who] /\ (Alive(u)' => conns'[u.who] = u.conn)
    <3>1. u \in Handed /\ u.who \in Clients /\ u.who # p
      BY <1>1, LinkTypes DEF Handed
    <3> QED
      BY <1>3, <1>4, <3>1 DEF LinkInv, Connected, Alive
  <2> QED
    BY <2>1, <2>2 DEF Connected
<1>6. DeltasPlanned'
  <2>1. ASSUME NEW u \in plan.todo, u # t
        PROVE  u.who # p /\ u.who \in Clients /\ (Alive(u)' <=> Alive(u)) /\ lastSeq'[u.who] = lastSeq[u.who]
    <3>1. u \in Handed /\ u.who # p
      BY <1>1, <2>1 DEF Handed
    <3> QED
      BY <1>3, <1>4, <3>1, LinkTypes DEF Alive
  <2> QED
    BY <1>1, <1>3, <2>1 DEF LinkInv, DeltasPlanned
<1>7. ASSUME NEW q \in Clients PROVE Counted(q)' /\ Led(q)'
  <2>1. SameLine(q) /\ ~Committing(q)' /\ ~Committing(q)
    BY <1>1, <1>2, <1>3 DEF SameLine, Committing
  <2>2. Led(q)'
    BY <2>1, LedSame DEF LinkInv
  <2>3. CASE conns'[q] = conns[q] /\ lastSeq'[q] = lastSeq[q]
    <3>1. SameState(q)
      BY <2>1, <2>3 DEF SameState
    <3> QED
      BY <2>1, <2>2, <3>1, CountedSame DEF LinkInv
  <2>4. CASE ~(conns'[q] = conns[q] /\ lastSeq'[q] = lastSeq[q])
    <3>1. q = p /\ ~Alive(t) /\ conns[p] = t.conn /\ conns'[p] = 0
      BY <1>4, <2>4
    <3>2. ~Live(q)'
      <4>1. CASE open[p] # "yes"
        BY <1>3, <3>1, <4>1 DEF Live
      <4>2. CASE open[p] = "yes"
        <5>1. conn[p] # t.conn /\ t.conn <= conn[p] /\ t.conn \in Nat /\ conn[p] \in Nat
          BY <1>1, <1>2, <3>1, <4>2, LinkTypes DEF Alive, LinkInv, Connected
        <5> QED
          BY <1>3, <3>1, <5>1 DEF Live
      <4> QED
        BY <4>1, <4>2
    <3> QED
      BY <2>2, <3>2 DEF Counted
  <2> QED
    BY <2>2, <2>3, <2>4
<1> QED
  BY <1>1, <1>5, <1>6, <1>7 DEF LinkInv

\* The number of the message is kept if the connection is still the client's.
LEMMA LinkCommit ==
  ASSUME DeltaInv, LinkInv, Commit
  PROVE  LinkInv'
<1>1. plan # None /\ plan.sent # None /\ plan.sent \in Handed
  BY DEF Commit, Handed
<1> DEFINE t == plan.sent
           p == t.who
<1>2. /\ plan'.frame = plan.frame /\ plan'.todo = plan.todo /\ plan'.sent = None
      /\ plan'.at = plan.at /\ plan'.delta = plan.delta
      /\ UNCHANGED <<conns, conn, open, wire, view, seq, sent, lossy, calm>>
  BY DEF Commit, client, record
<1>3. p \in Clients /\ Handed' \subseteq Handed /\ \A u \in plan.todo : u.who # p
  BY <1>1, <1>2, LinkTypes DEF Handed, LinkInv, OneAtATime
<1>4. /\ conns[p] = t.conn => lastSeq'[p] = plan.frame.id
      /\ conns[p] # t.conn => lastSeq' = lastSeq
      /\ \A q \in Clients : q # p => lastSeq'[q] = lastSeq[q]
  <2>1. lastSeq' = IF conns[p] = t.conn THEN Set(lastSeq, p, plan.frame.id) ELSE lastSeq
    BY DEF Commit, Committed
  <2>2. DOMAIN lastSeq = Clients
    BY Domains
  <2> QED
    BY <1>3, <2>1, <2>2 DEF Set
<1>5. Connected'
  BY <1>2, <1>3 DEF LinkInv, Connected, Alive
<1>6. OneAtATime'
  BY <1>1, <1>2 DEF LinkInv, OneAtATime
<1>7. DeltasPlanned'
  <2>1. ASSUME NEW u \in plan.todo
        PROVE  (Alive(u)' <=> Alive(u)) /\ lastSeq'[u.who] = lastSeq[u.who]
    <3>1. u \in Handed
      BY <1>1 DEF Handed
    <3> QED
      BY <1>2, <1>3, <1>4, <3>1, LinkTypes DEF Alive
  <2> QED
    BY <1>1, <1>2, <2>1 DEF LinkInv, DeltasPlanned
<1>8. ASSUME NEW q \in Clients PROVE Counted(q)' /\ Led(q)'
  <2>1. SameLine(q) /\ ~Committing(q)'
    BY <1>2 DEF SameLine, Committing
  <2>2. Led(q)'
    BY <2>1, LedSame DEF LinkInv
  <2>3. CASE ~Committing(q)
    <3>1. conns[q] = conn[q] => lastSeq'[q] = lastSeq[q]
      BY <1>1, <1>4, <2>3 DEF Committing
    <3>2. Counted(q)'
      BY <1>2, <2>1, <2>3, <3>1 DEF LinkInv, Counted, Live
    <3> QED
      BY <2>2, <3>2
  <2>4. CASE Committing(q)
    <3>1. q = p /\ t.conn = conn[p]
      BY <2>4 DEF Committing
    <3>2. Counted(q)
      BY DEF LinkInv
    <3>3. Counted(q)'
      <4>1. CASE Live(q)
        <5>1. lastSeq'[q] = plan.frame.id
          BY <1>4, <3>1, <4>1 DEF Live
        <5> QED
          BY <1>2, <2>1, <2>4, <3>2, <4>1, <5>1 DEF Counted
      <4>2. CASE ~Live(q)
        BY <1>2, <4>2 DEF Counted, Live
      <4> QED
        BY <4>1, <4>2
    <3> QED
      BY <2>2, <3>3
  <2> QED
    BY <2>3, <2>4
<1> QED
  BY <1>5, <1>6, <1>7, <1>8 DEF LinkInv

\* A new connection is not registered yet, and nothing has been sent over it.
LEMMA LinkDial ==
  ASSUME DeltaInv, LinkInv, NEW p \in Clients, Dial(p)
  PROVE  LinkInv'
<1>1. /\ conn'[p] = conn[p] + 1 /\ wire'[p] = {} /\ lossy'[p] = "no" /\ calm'[p] = 0
      /\ \A q \in Clients : q # p =>
            /\ conn'[q] = conn[q] /\ open'[q] = open[q] /\ wire'[q] = wire[q]
            /\ lossy'[q] = lossy[q] /\ calm'[q] = calm[q]
      /\ open'[p] = "yes"
      /\ UNCHANGED <<plan, conns, lastSeq, view, seq, sent>>
  <2>1. /\ conn' = Set(conn, p, conn[p] + 1) /\ open' = Set(open, p, "yes")
        /\ wire' = Set(wire, p, {})
        /\ lossy' = Set(lossy, p, "no") /\ calm' = Set(calm, p, 0)
        /\ UNCHANGED <<plan, conns, lastSeq, view, seq, sent>>
    BY DEF Dial, registry, decoder
  <2> QED
    BY <2>1, Domains, SetOther
<1>2. Handed' = Handed
  BY <1>1 DEF Handed
<1>3. ASSUME NEW t \in Handed
      PROVE  /\ t.conn <= conn'[t.who] /\ (t.who = p => ~Alive(t)')
             /\ Alive(t)' => Alive(t)
  <2>1. t.who \in Clients /\ t.conn \in Nat /\ t.conn <= conn[t.who] /\ conn[t.who] \in Nat
    BY LinkTypes DEF LinkInv, Connected
  <2> QED
    BY <1>1, <2>1 DEF Alive
<1>4. Connected'
  <2>1. \A q \in Clients : conns'[q] <= conn'[q] /\ (open'[q] = "no" => wire'[q] = {})
    BY <1>1, LinkTypes DEF LinkInv, Connected
  <2>2. \A t \in Handed' : t.conn <= conn'[t.who] /\ (Alive(t)' => conns'[t.who] = t.conn)
    BY <1>1, <1>2, <1>3 DEF LinkInv, Connected
  <2> QED
    BY <2>1, <2>2 DEF Connected
<1>5. OneAtATime'
  BY <1>1 DEF LinkInv, OneAtATime
<1>6. DeltasPlanned'
  BY <1>1, <1>3 DEF LinkInv, DeltasPlanned, Handed
<1>7. ASSUME NEW q \in Clients PROVE Counted(q)' /\ Led(q)'
  <2>1. CASE q = p
    <3>1. ~Live(p)'
      <4>1. conns[p] <= conn[p] /\ conns[p] \in Nat /\ conn[p] \in Nat
        BY LinkTypes DEF LinkInv, Connected
      <4> QED
        BY <1>1, <4>1 DEF Live
    <3>2. Led(p)'
      BY <1>1 DEF Led, Chained
    <3> QED
      BY <2>1, <3>1, <3>2 DEF Counted
  <2>2. CASE q # p
    <3>1. SameLine(q)
      BY <1>1, <2>2 DEF SameLine
    <3>2. SameState(q)
      BY <1>1, <2>2 DEF SameState, Committing
    <3> QED
      BY <3>1, <3>2, LedSame, CountedSame DEF LinkInv
  <2> QED
    BY <2>1, <2>2
<1> QED
  BY <1>4, <1>5, <1>6, <1>7 DEF LinkInv

\* A registration begins with no number; the connection it replaces is closed.
LEMMA LinkRegister ==
  ASSUME DeltaInv, LinkInv, NEW p \in Clients, NEW k \in 1..conn[p], Register(p, k)
  PROVE  LinkInv'
<1>1. /\ conns[p] # k /\ conns'[p] = k /\ lastSeq'[p] = 0
      /\ \A q \in Clients : q # p =>
            conns'[q] = conns[q] /\ lastSeq'[q] = lastSeq[q] /\ open'[q] = open[q] /\ wire'[q] = wire[q]
      /\ IF conns[p] = conn[p] THEN open'[p] = "no" /\ wire'[p] = {} ELSE UNCHANGED <<open, wire>>
      /\ UNCHANGED <<plan, conn, view, seq, lossy, calm, sent>>
  <2>1. /\ conns' = Set(conns, p, k) /\ lastSeq' = Set(lastSeq, p, 0) /\ conns[p] # k
        /\ IF conns[p] = conn[p] THEN open' = Set(open, p, "no") /\ wire' = Set(wire, p, {})
           ELSE UNCHANGED <<open, wire>>
        /\ UNCHANGED <<plan, conn, view, seq, lossy, calm, sent>>
    BY DEF Register, Reset, decoder, record
  <2>2. /\ DOMAIN conns = Clients /\ DOMAIN lastSeq = Clients
        /\ DOMAIN open = Clients /\ DOMAIN wire = Clients
    BY Domains
  <2>3. /\ conns'[p] = k /\ lastSeq'[p] = 0
        /\ \A q \in Clients : q # p => conns'[q] = conns[q] /\ lastSeq'[q] = lastSeq[q]
    BY <2>1, <2>2, SetOther
  <2>4. CASE conns[p] = conn[p]
    BY <2>1, <2>2, <2>3, <2>4, SetOther
  <2>5. CASE conns[p] # conn[p]
    BY <2>1, <2>3, <2>5
  <2> QED
    BY <2>4, <2>5
<1>2. Handed' = Handed
  BY <1>1 DEF Handed
<1>3. ASSUME NEW t \in Handed
      PROVE  /\ t.who \in Clients
             /\ t.who = p => ~Alive(t)'
             /\ t.who # p => (Alive(t)' <=> Alive(t))
  <2>1. t.who \in Clients /\ (Alive(t) => conns[t.who] = t.conn)
    BY LinkTypes DEF LinkInv, Connected
  <2> QED
    BY <1>1, <2>1 DEF Alive
<1>4. Connected'
  <2>1. \A q \in Clients : conns'[q] <= conn'[q] /\ (open'[q] = "no" => wire'[q] = {})
    BY <1>1, LinkTypes DEF LinkInv, Connected
  <2>2. \A t \in Handed' : t.conn <= conn'[t.who] /\ (Alive(t)' => conns'[t.who] = t.conn)
    BY <1>1, <1>2, <1>3 DEF LinkInv, Connected
  <2> QED
    BY <2>1, <2>2 DEF Connected
<1>5. OneAtATime'
  BY <1>1 DEF LinkInv, OneAtATime
<1>6. DeltasPlanned'
  <2>1. ASSUME NEW t \in Handed, Alive(t)' PROVE Alive(t) /\ lastSeq'[t.who] = lastSeq[t.who]
    BY <1>1, <1>3, <2>1
  <2> QED
    BY <1>1, <2>1 DEF LinkInv, DeltasPlanned, Handed
<1>7. ASSUME NEW q \in Clients PROVE Counted(q)' /\ Led(q)'
  <2>1. CASE q = p /\ conns[p] = conn[p]
    <3>1. open'[p] = "no" /\ wire'[p] = {}
      BY <1>1, <2>1
    <3> QED
      BY <2>1, <3>1 DEF Counted, Live, Led
  <2>2. CASE q = p /\ conns[p] # conn[p]
    <3>1. SameLine(p)
      BY <1>1, <2>2 DEF SameLine
    <3>2. Counted(p)'
      <4>1. ASSUME open[p] = "yes" PROVE ~Committing(p)'
        <5>1. plan' # None /\ plan'.sent # None => plan.sent \in Handed
          BY <1>1 DEF Handed
        <5> QED
          BY <1>1, <2>2, <4>1, <5>1 DEF Committing, LinkInv, Connected, Alive
      <4> QED
        BY <1>1, <3>1, <4>1 DEF Counted, Live, SameLine
    <3> QED
      BY <2>2, <3>1, <3>2, LedSame DEF LinkInv
  <2>3. CASE q # p
    <3>1. SameLine(q)
      BY <1>1, <2>3 DEF SameLine
    <3>2. SameState(q)
      BY <1>1, <2>3 DEF SameState, Committing
    <3> QED
      BY <3>1, <3>2, LedSame, CountedSame DEF LinkInv
  <2> QED
    BY <2>1, <2>2, <2>3
<1> QED
  BY <1>4, <1>5, <1>6, <1>7 DEF LinkInv

LEMMA LinkDisconnect ==
  ASSUME DeltaInv, LinkInv, NEW p \in Clients, Disconnect(p)
  PROVE  LinkInv'
<1>1. /\ conns[p] # conn[p] \/ open[p] = "no"
      /\ conns[p] # 0 /\ conns'[p] = 0
      /\ \A q \in Clients : q # p => conns'[q] = conns[q] /\ lastSeq'[q] = lastSeq[q]
      /\ UNCHANGED <<plan, conn, open, wire, view, seq, lossy, calm, sent>>
  <2>1. /\ conns[p] # conn[p] \/ open[p] = "no"
        /\ conns[p] # 0
        /\ conns' = Set(conns, p, 0) /\ lastSeq' = Set(lastSeq, p, 0)
        /\ UNCHANGED <<plan, conn, open, wire, view, seq, lossy, calm, sent>>
    BY DEF Disconnect, Unregister, Reset, client, record
  <2> QED
    BY <2>1, Domains, SetOther
<1>2. Handed' = Handed
  BY <1>1 DEF Handed
<1>3. ASSUME NEW t \in Handed
      PROVE  /\ t.who \in Clients /\ (Alive(t)' <=> Alive(t))
             /\ t.who = p => ~Alive(t)
  <2>1. t.who \in Clients /\ (Alive(t) => conns[t.who] = t.conn)
    BY LinkTypes DEF LinkInv, Connected
  <2> QED
    BY <1>1, <2>1 DEF Alive
<1>4. Connected'
  <2>1. \A q \in Clients : conns'[q] <= conn'[q] /\ (open'[q] = "no" => wire'[q] = {})
    BY <1>1, LinkTypes DEF LinkInv, Connected
  <2>2. \A t \in Handed' : t.conn <= conn'[t.who] /\ (Alive(t)' => conns'[t.who] = t.conn)
    BY <1>1, <1>2, <1>3 DEF LinkInv, Connected
  <2> QED
    BY <2>1, <2>2 DEF Connected
<1>5. OneAtATime'
  BY <1>1 DEF LinkInv, OneAtATime
<1>6. DeltasPlanned'
  <2>1. ASSUME NEW t \in Handed, Alive(t)' PROVE Alive(t) /\ lastSeq'[t.who] = lastSeq[t.who]
    BY <1>1, <1>3, <2>1
  <2> QED
    BY <1>1, <2>1 DEF LinkInv, DeltasPlanned, Handed
<1>7. ASSUME NEW q \in Clients PROVE Counted(q)' /\ Led(q)'
  <2>1. SameLine(q)
    BY <1>1 DEF SameLine
  <2>2. CASE q = p
    <3>1. ~Live(p)'
      <4>1. conns[p] <= conn[p] /\ conns[p] \in Nat /\ conn[p] \in Nat
        BY LinkTypes DEF LinkInv, Connected
      <4> QED
        BY <1>1, <4>1 DEF Live
    <3> QED
      BY <2>1, <2>2, <3>1, LedSame DEF LinkInv, Counted
  <2>3. CASE q # p
    <3>1. SameState(q)
      BY <1>1, <2>3 DEF SameState, Committing
    <3> QED
      BY <2>1, <3>1, LedSame, CountedSame DEF LinkInv
  <2> QED
    BY <2>2, <2>3
<1> QED
  BY <1>4, <1>5, <1>6, <1>7 DEF LinkInv

\* What a message does to the client: one that is whole, or follows what the client has,
\* becomes what it has, and ends a wait for a whole frame.
LEMMA ReceiveGoes ==
  ASSUME DeltaInv, NEW p \in Clients, NEW m \in wire[p], Receive(p, m)
  PROVE  /\ m.kind \in {"full", "delta"}
         /\ m.kind = "full" \/ (view[p] # None /\ view[p].id + 1 = m.id) =>
              view'[p] # None /\ view'[p].id = m.id /\ pending'[p] = "no"
         /\ view'[p] = view[p] \/ (view'[p] # None /\ view'[p].id = m.id)
         /\ \A q \in Clients : q # p => view'[q] = view[q] /\ pending'[q] = pending[q]
<1> USE InvParts
<1>1. IsFull(m) \/ IsDelta(m)
  BY DEF WireGenuine
<1>2. m.kind \in {"full", "delta"}
  BY DEF Receive
<1>3. DOMAIN view = Clients /\ DOMAIN pending = Clients
  BY Domains
<1>4. None \notin Frame /\ frames \subseteq Frame
  BY DEF TypeOK
<1>5. CASE m.kind = "full"
  <2>1. PICK f \in frames : m = [kind |-> "full", id |-> f.id, body |-> f]
    BY <1>1, <1>5 DEF IsFull, IsDelta
  <2>2. m.body = f /\ m.id = f.id /\ f # None
    BY <1>4, <2>1
  <2>3. view' = Set(view, p, m.body) /\ pending' = Set(pending, p, "no")
    BY <1>5 DEF Receive, ApplyFull
  <2>4. view'[p] = m.body /\ pending'[p] = "no"
        /\ \A q \in Clients : q # p => view'[q] = view[q] /\ pending'[q] = pending[q]
    BY <1>3, <2>3 DEF Set
  <2> QED
    BY <1>2, <2>2, <2>4
<1>6. CASE m.kind = "delta"
  <2>1. PICK f \in frames, g \in frames :
            f.id + 1 = g.id /\ m = [kind |-> "delta", id |-> g.id, body |-> Diff(f, g)]
    BY <1>1, <1>6 DEF IsFull, IsDelta
  <2>2. m.body = Diff(f, g) /\ m.id = g.id /\ f.id \in Nat /\ g.id \in Nat
    BY <1>4, <2>1 DEF Frame
  <2>3. m.body.id = m.id /\ m.body.base = f.id /\ f.id + 1 = m.id
    BY <2>1, <2>2 DEF Diff
  <2>4. ApplyDelta(p, m)
    BY <1>6 DEF Receive
  <2>5. view[p] # None => view[p].id \in Nat
    BY LinkTypes
  <2>6. CASE Fits(p, m.body) /\ ~Stale(p, m.body)
    <3>1. /\ view' = Set(view, p, Merge(view[p], m.body)) /\ pending' = Set(pending, p, "no")
      BY <2>4, <2>6 DEF ApplyDelta
    <3>2. view'[p] = Merge(view[p], m.body) /\ pending'[p] = "no"
          /\ \A q \in Clients : q # p => view'[q] = view[q] /\ pending'[q] = pending[q]
      BY <1>3, <3>1 DEF Set
    <3>3. Merge(view[p], m.body).id = m.id
      BY <2>3 DEF Merge
    <3>4. view'[p] # None
      <4>1. view[p] \in frames /\ view[p].id = f.id
        BY <2>3, <2>6 DEF Fits, ViewExact
      <4>2. view[p] = f
        BY <4>1 DEF FramesNumbered
      <4>3. f \in Frame /\ g \in Frame
        BY <1>4
      <4>4. \A q \in Players : g.inputs[q] # None => g.inputs[q].frame = g.id
        BY DEF FramesNumbered
      <4>5. Merge(view[p], m.body) = g
        BY <2>2, <4>2, <4>3, <4>4, MergeOfDiff
      <4> QED
        BY <1>4, <3>2, <4>5
    <3> QED
      BY <1>2, <3>2, <3>3, <3>4
  <2>7. CASE ~(Fits(p, m.body) /\ ~Stale(p, m.body))
    <3>1. view' = view
      BY <2>4, <2>7 DEF ApplyDelta, Ask, decoder
    <3>2. ~(view[p] # None /\ view[p].id + 1 = m.id)
      BY <2>2, <2>3, <2>5, <2>7 DEF Fits, Stale
    <3>3. \A q \in Clients : q # p => pending'[q] = pending[q]
      BY <1>3, <2>4, <2>7 DEF ApplyDelta, Ask, decoder, Set
    <3>4. m.kind # "full"
      BY <1>6
    <3> QED
      BY <1>2, <3>1, <3>2, <3>3, <3>4
  <2> QED
    BY <2>6, <2>7
<1> QED
  BY <1>2, <1>5, <1>6

\* A stream is read from its first message.
LEMMA ReadFirst ==
  ASSUME DeltaInv, NEW p \in Clients, NEW m \in wire[p], Receive(p, m), conn[p] \notin Datagrams
  PROVE  /\ m.id \in Nat /\ \A o \in wire[p] : o.id \in Nat
         /\ \A o \in wire[p] : o # m => m.id < o.id
         /\ view[p] # None => view[p].id \in Nat /\ view[p].id < m.id
<1>1. \A o \in wire[p] : o.id \in Nat /\ m.id <= o.id
  BY LinkTypes DEF Receive, Arrives
<1>2. \A o \in wire[p] : m.id = o.id => m = o
  BY DEF DeltaInv, StreamsOrdered
<1>3. view[p] # None => view[p].id \in Nat /\ view[p].id < m.id
  BY LinkTypes DEF DeltaInv, StreamsOrdered
<1> QED
  BY <1>1, <1>2, <1>3

\* What leads the client to the last frame leads it there still.
LEMMA HealedRead ==
  ASSUME DeltaInv, LinkInv, NEW p \in Clients, NEW m \in wire[p], Receive(p, m),
         conn[p] \notin Datagrams, Healed(p), wire'[p] = wire[p] \ {m}, sent'[p] = sent[p]
  PROVE  Healed(p)'
<1>1. PICK k \in 0..sent[p] : Anchor(p, k) /\ \A j \in k + 1..sent[p] : \E o \in wire[p] : o.id = j
  BY DEF Healed
<1>2. /\ m.id \in Nat /\ \A o \in wire[p] : o.id \in Nat
      /\ \A o \in wire[p] : o # m => m.id < o.id
      /\ view[p] # None => view[p].id \in Nat /\ view[p].id < m.id
  BY ReadFirst
<1>3. sent[p] \in Nat /\ m.id <= sent[p]
  BY LinkTypes DEF LinkInv, Led
<1>4. CASE view[p] # None /\ view[p].id = k
  <2>1. k + 1 \in k + 1..sent[p]
    BY <1>2, <1>3, <1>4
  <2>2. PICK o \in wire[p] : o.id = k + 1
    BY <1>1, <2>1
  <2>3. m.id = k + 1
    BY <1>2, <1>4, <2>2
  <2>4. view'[p] # None /\ view'[p].id = m.id
    BY <1>4, <2>3, ReceiveGoes
  <2>5. PICK i \in 0..sent[p] : i = m.id
    BY <1>2, <1>3
  <2>6. Anchor(p, i)'
    BY <2>4, <2>5 DEF Anchor
  <2>7. ASSUME NEW j \in i + 1..sent[p] PROVE \E u \in wire'[p] : u.id = j
    <3>1. PICK u \in wire[p] : u.id = j
      BY <1>1, <2>3, <2>5, <2>7
    <3> QED
      BY <1>2, <2>5, <2>7, <3>1
  <2> QED
    BY <2>6, <2>7 DEF Healed
<1>5. ASSUME NEW o \in wire[p], o.kind = "full", o.id = k
      PROVE  Healed(p)'
  <2>1. Anchor(p, k)'
    <3>1. CASE o = m
      BY <1>5, <3>1, ReceiveGoes DEF Anchor
    <3>2. CASE o # m
      BY <1>5, <3>2 DEF Anchor
    <3> QED
      BY <3>1, <3>2
  <2>2. m.id <= k
    BY <1>2, <1>5
  <2>3. ASSUME NEW j \in k + 1..sent[p] PROVE \E u \in wire'[p] : u.id = j
    <3>1. PICK u \in wire[p] : u.id = j
      BY <1>1
    <3> QED
      BY <1>2, <2>2, <3>1
  <2> QED
    BY <2>1, <2>3 DEF Healed
<1> QED
  BY <1>1, <1>4, <1>5 DEF Anchor

\* The first message of a stream that has lost nothing is taken, and the next follows it.
LEMMA ChainedRead ==
  ASSUME DeltaInv, NEW p \in Clients, NEW m \in wire[p], Receive(p, m),
         conn[p] \notin Datagrams, Chained(p), wire'[p] = wire[p] \ {m}
  PROVE  /\ m.kind = "full" \/ (view[p] # None /\ view[p].id + 1 = m.id)
         /\ Chained(p)'
<1>1. /\ m.id \in Nat /\ \A o \in wire[p] : o.id \in Nat
      /\ \A o \in wire[p] : o # m => m.id < o.id
      /\ view[p] # None => view[p].id \in Nat /\ view[p].id < m.id
  BY ReadFirst
<1>2. m.kind = "full" \/ (view[p] # None /\ view[p].id + 1 = m.id)
  BY <1>1 DEF Chained
<1>3. view'[p] # None /\ view'[p].id = m.id
  BY <1>2, ReceiveGoes
<1>4. ASSUME NEW o \in wire[p], o # m
      PROVE  \/ o.kind = "full"
             \/ view'[p] # None /\ view'[p].id + 1 = o.id
             \/ \E u \in wire'[p] : u.id + 1 = o.id
  <2>1. CASE view[p] # None /\ view[p].id + 1 = o.id
    BY <1>1, <1>4, <2>1
  <2>2. ASSUME NEW u \in wire[p], u.id + 1 = o.id
        PROVE  \/ view'[p] # None /\ view'[p].id + 1 = o.id
               \/ \E v \in wire'[p] : v.id + 1 = o.id
    <3>1. CASE u = m
      BY <1>3, <2>2, <3>1
    <3>2. CASE u # m
      BY <2>2, <3>2
    <3> QED
      BY <3>1, <3>2
  <2> QED
    BY <2>1, <2>2 DEF Chained
<1>5. Chained(p)'
  BY <1>4 DEF Chained
<1> QED
  BY <1>2, <1>5

LEMMA LinkReceive ==
  ASSUME DeltaInv, LinkInv, NEW p \in Clients, NEW m \in wire[p], Receive(p, m)
  PROVE  LinkInv'
<1>1. /\ wire'[p] = wire[p] \ {m} /\ \A q \in Clients : q # p => wire'[q] = wire[q]
      /\ \A q \in Clients : q # p => view'[q] = view[q]
      /\ UNCHANGED <<plan, conns, lastSeq, conn, open, seq, lossy, calm, sent>>
  <2>1. /\ wire' = Set(wire, p, wire[p] \ {m})
        /\ UNCHANGED <<plan, conns, lastSeq, conn, open, seq, lossy, calm, sent>>
    BY DEF Receive, registry, record
  <2>2. DOMAIN wire = Clients
    BY Domains
  <2> QED
    BY <2>1, <2>2, ReceiveGoes DEF Set
<1>2. Connected' /\ OneAtATime' /\ DeltasPlanned'
  <2>1. Handed' = Handed
    BY <1>1 DEF Handed
  <2>2. \A q \in Clients : wire'[q] \subseteq wire[q]
    BY <1>1
  <2> QED
    BY <1>1, <2>1, <2>2 DEF LinkInv, Connected, OneAtATime, DeltasPlanned, Alive
<1>3. ASSUME NEW q \in Clients PROVE Counted(q)' /\ Led(q)'
  <2>1. Counted(q)'
    BY <1>1 DEF LinkInv, Counted, Live, Committing
  <2>2. CASE q # p
    <3>1. SameLine(q)
      BY <1>1, <2>2 DEF SameLine
    <3> QED
      BY <2>1, <3>1, LedSame DEF LinkInv
  <2>3. CASE q = p
    <3>1. Led(p) /\ wire'[p] \subseteq wire[p]
      BY <1>1 DEF LinkInv
    <3>2. Bare(p) => Bare(p)'
      BY <1>1 DEF Bare
    <3>3. conn[p] \notin Datagrams => (Healed(p) => Healed(p)') /\ (Chained(p) => Chained(p)')
      BY <1>1, HealedRead, ChainedRead
    <3>4. Led(p)'
      BY <1>1, <3>1, <3>2, <3>3 DEF Led
    <3> QED
      BY <2>1, <2>3, <3>4
  <2> QED
    BY <2>2, <2>3
<1> QED
  BY <1>2, <1>3 DEF LinkInv

LEMMA LinkStep == DeltaInv /\ LinkInv /\ [Next]_vars => LinkInv'
<1> SUFFICES ASSUME DeltaInv, LinkInv, [Next]_vars
             PROVE  LinkInv'
  OBVIOUS
<1>1. CASE Publish
  <2>1. CASE \E c \in Contents : Tick(c)
    BY <2>1, LinkTick
  <2>2. CASE Finish \/ EncodeFails
    BY <2>2, LinkEnd
  <2>3. CASE Commit
    BY <2>3, LinkCommit
  <2>4. CASE plan # None /\ \E t \in plan.todo : Push(t) \/ PushLost(t) \/ PushFails(t)
    BY <2>4, LinkPush, LinkPushLost, LinkPushFails
  <2> QED
    BY <1>1, <2>1, <2>2, <2>3, <2>4 DEF Publish
<1>2. ASSUME NEW p \in Clients,
             \/ RequestKeyframe(p) \/ RequestLost(p) \/ LimitEnds(p)
             \/ \E v \in {"full", "delta"} : Negotiate(p, v)
      PROVE  LinkInv'
  <2>1. UNCHANGED <<plan, seq, conns, lastSeq, conn, open, wire, view, lossy, calm, sent>>
    BY <1>2 DEF RequestKeyframe, RequestLost, LimitEnds, Negotiate, registry, client, record
  <2> QED
    BY <2>1, LinkQuiet
<1>3. ASSUME NEW p \in Clients,
             \/ Dial(p) \/ Disconnect(p)
             \/ \E k \in 1..conn[p] : Register(p, k)
             \/ \E m \in wire[p] : Receive(p, m)
      PROVE  LinkInv'
  BY <1>3, LinkDial, LinkDisconnect, LinkRegister, LinkReceive
<1>4. CASE UNCHANGED vars
  BY <1>4, LinkQuiet DEF vars, registry, client, record
<1> QED
  BY <1>1, <1>2, <1>3, <1>4 DEF Next

LEMMA LinkAlways == Spec => [](DeltaInv /\ LinkInv)
  BY InitDelta, DeltaStep, LinkInit, LinkStep, PTL DEF Spec

\* Of as many numbers in a row as there are ticks from one whole frame to the next, one is
\* that of a whole frame.
LEMMA WholeFrameDue ==
  ASSUME NEW n \in Nat, NEW c \in Nat, c >= KeyEvery
  PROVE  \E j \in 0..n : n < j + c /\ j % KeyEvery = 0
<1>1. PICK K \in Nat \ {0} : K = KeyEvery
  OBVIOUS
<1>2. PICK q \in Nat, r \in Nat : n = K * q + r /\ r < K
  <2>1. n \div K \in Nat /\ n % K \in Nat /\ n % K < K /\ n = K * (n \div K) + (n % K)
    OBVIOUS
  <2> QED
    BY <2>1
<1>3. PICK j \in Nat : j = K * q
  <2>1. K * q \in Nat
    OBVIOUS
  <2> QED
    BY <2>1
<1>4. j \in 0..n /\ n < j + c
  BY <1>1, <1>2, <1>3
<1>5. j % K = 0
  <2>1. j \div K \in Nat /\ j % K \in Nat /\ j % K < K /\ j = K * (j \div K) + (j % K)
    OBVIOUS
  <2>2. PICK e \in Nat, s \in Nat : s = j % K /\ s < K /\ j = K * e + s
    BY <2>1
  <2>3. PICK d \in Int : d = q - e
    BY <2>2
  <2>4. K * d = s
    <3>1. K * d = K * q - K * e /\ K * q \in Nat /\ K * e \in Nat
      BY <2>3
    <3>2. K * q = K * e + s
      BY <1>3, <2>2
    <3>3. \A a, b \in Nat : a = b + s => a - b = s
      OBVIOUS
    <3> QED
      BY <3>1, <3>2, <3>3
  <2>5. d < 1
    <3>1. ASSUME d >= 1 PROVE FALSE
      <4>1. K * d = K + K * (d - 1) /\ K * (d - 1) >= 0
        BY <3>1
      <4> QED
        BY <2>2, <2>4, <4>1
    <3> QED
      BY <2>3, <3>1
  <2>6. d > -1
    <3>1. ASSUME d <= -1 PROVE FALSE
      <4>1. K * d = K * (d + 1) - K /\ K * (d + 1) <= 0
        BY <3>1
      <4> QED
        BY <2>2, <2>4, <4>1
    <3> QED
      BY <2>3, <3>1
  <2>7. d = 0
    BY <2>3, <2>5, <2>6
  <2> QED
    BY <2>2, <2>4, <2>7
<1> QED
  BY <1>1, <1>4, <1>5

\* However the stream was broken before, and whatever requests for a whole frame were lost:
\* once KeyEvery messages in a row have not been lost, the client that has read them has the
\* frame that was sent last.
THEOREM Recovery == Spec => []RecoveryBound
<1>1. ASSUME DeltaInv, LinkInv PROVE RecoveryBound
  <2> SUFFICES ASSUME NEW p \in Clients, calm[p] >= KeyEvery, wire[p] = {}, open[p] = "yes",
                      conn[p] \notin Datagrams
               PROVE  view[p] # None /\ view[p].id = sent[p]
    BY DEF RecoveryBound
  <2>1. calm[p] \in Nat /\ sent[p] \in Nat /\ calm[p] > 0
    BY <1>1, LinkTypes
  <2>2. ~Bare(p)
    BY <2>1, WholeFrameDue DEF Bare
  <2>3. Healed(p)
    BY <1>1, <2>1, <2>2 DEF LinkInv, Led
  <2>4. PICK k \in 0..sent[p] : Anchor(p, k) /\ \A j \in k + 1..sent[p] : \E m \in wire[p] : m.id = j
    BY <2>3 DEF Healed
  <2>5. k = sent[p]
    <3>1. k # sent[p] => sent[p] \in k + 1..sent[p]
      BY <2>1
    <3> QED
      BY <2>4, <3>1
  <2> QED
    BY <2>4, <2>5 DEF Anchor
<1> QED
  BY <1>1, LinkAlways, PTL

\* Only a message makes a client wait for a whole frame.
LEMMA OthersNeverWait ==
  ASSUME [Next]_vars, ~\E p \in Clients : \E m \in wire[p] : Receive(p, m)
  PROVE  pending' = pending
<1>1. CASE Publish
  BY <1>1 DEF Publish, Tick, Finish, EncodeFails, Commit, Push, PushLost, PushFails, client, decoder
<1>2. ASSUME NEW p \in Clients,
             \/ Dial(p) \/ Disconnect(p)
             \/ \E k \in 1..conn[p] : Register(p, k)
             \/ \E v \in {"full", "delta"} : Negotiate(p, v)
             \/ RequestKeyframe(p) \/ RequestLost(p) \/ LimitEnds(p)
      PROVE  pending' = pending
  BY <1>2 DEF Dial, Disconnect, Register, Negotiate, RequestKeyframe, RequestLost, LimitEnds,
     client, decoder
<1>3. CASE UNCHANGED vars
  BY <1>3 DEF vars, client
<1> QED
  BY <1>1, <1>2, <1>3 DEF Next

\* While a connection has lost nothing, no difference is refused by the client: the number the
\* registry keeps of it is the one of the message that was sent last.
THEOREM CleanStreams == Spec => CleanStreamsFit
<1>1. ASSUME DeltaInv, LinkInv, [Next]_vars
      PROVE  [\A p \in Clients : lossy[p] = "no" => ~(pending[p] = "no" /\ pending'[p] = "yes")]_vars
  <2>1. ASSUME NEW p \in Clients, NEW m \in wire[p], Receive(p, m)
        PROVE  \A q \in Clients : lossy[q] = "no" => ~(pending[q] = "no" /\ pending'[q] = "yes")
    <3>1. \A q \in Clients : q # p => pending'[q] = pending[q]
      BY <1>1, <2>1, ReceiveGoes
    <3>2. ASSUME lossy[p] = "no" PROVE pending'[p] = "no"
      <4>1. m.kind = "full" \/ (view[p] # None /\ view[p].id + 1 = m.id)
        <5>1. CASE conn[p] \in Datagrams
          BY <1>1, <5>1 DEF LinkInv, Led
        <5>2. CASE conn[p] \notin Datagrams
          <6>1. open[p] = "yes"
            BY <1>1, <2>1, LinkTypes DEF LinkInv, Connected
          <6>2. Chained(p)
            BY <1>1, <3>2, <5>2, <6>1 DEF LinkInv, Led
          <6>3. wire'[p] = wire[p] \ {m}
            BY <1>1, <2>1, Domains DEF Receive, Set
          <6> QED
            BY <1>1, <2>1, <5>2, <6>2, <6>3, ChainedRead
        <5> QED
          BY <5>1, <5>2
      <4> QED
        BY <1>1, <2>1, <4>1, ReceiveGoes
    <3> QED
      BY <3>1, <3>2
  <2>2. ASSUME ~\E p \in Clients : \E m \in wire[p] : Receive(p, m)
        PROVE  \A q \in Clients : lossy[q] = "no" => ~(pending[q] = "no" /\ pending'[q] = "yes")
    BY <1>1, <2>2, OthersNeverWait
  <2> QED
    BY <2>1, <2>2
<1> QED
  BY <1>1, LinkAlways, PTL DEF Spec, CleanStreamsFit
===============================================================================
