------------------------ MODULE BattleMigrationProofs ------------------------
(* A move that reports success has brought the state of the battle to its target: the *)
(* inductive invariant that says where the staged state is at each place of a move,   *)
(* for every number of nodes, players, moves and crashes, and every set of faults.    *)
EXTENDS BattleMigration, TLAPS

USE MigrationAssumption

\* Types, one part at a time.
InstanceOK ==
    /\ owner \in Nodes \cup {None} /\ epoch \in Nat
    /\ life \in {"none", "live", "dead"}
    /\ frame \in 0..MaxFrames /\ roster \in SUBSET Players
    /\ clock \in {"running", "paused"}
    /\ window \in {"open", "closed"} /\ seating \in {"open", "closed"}
NodesOK ==
    /\ up \in SUBSET Nodes /\ quarantined \in SUBSET Nodes /\ missed \in SUBSET Nodes
    /\ store \in [Nodes -> 0..MaxFrames]
    /\ inbox \in [Nodes -> State \cup {None}]
EndedOK == ledger \in {"absent", "recorded"} /\ result \in SUBSET (SUBSET Players)
MovesOK ==
    /\ job \in Job \cup {Idle} /\ state \in State \cup {None} /\ dropped \in {"yes", "no"}
    /\ moves \in Nat /\ crashes \in Nat

LEMMA TypeParts ==
  /\ TypeOK <=> InstanceOK /\ NodesOK /\ EndedOK /\ MovesOK
  /\ TypeOK' <=> InstanceOK' /\ NodesOK' /\ EndedOK' /\ MovesOK'
BY DEF TypeOK, InstanceOK, NodesOK, EndedOK, MovesOK

\* A job that is under way is one of Job.
LEMMA JobPlaces ==
  ASSUME MovesOK
  PROVE  /\ Moving => job \in Job
         /\ job \in Job => Moving
         /\ job.at = "idle" <=> ~Moving
         /\ Moving => job.at \in {"export", "deliver", "drain", "activate", "verify"}
         /\ Moving => job.on \in Nodes /\ job.from \in Nodes /\ job.to \in Nodes
                      /\ job.epoch \in Nat
  BY DEF MovesOK, Moving, Job, Idle

\* Placing a job keeps its nodes.
LEMMA PlacedJob ==
  ASSUME MovesOK, Moving, NEW e \in Nat,
         NEW s \in {"export", "deliver", "drain", "activate", "verify"}
  PROVE  /\ Placed(s, e) \in Job
         /\ Placed(s, e).at = s /\ Placed(s, e).epoch = e
         /\ Placed(s, e).from = job.from /\ Placed(s, e).to = job.to
  BY JobPlaces DEF Placed, Job

\* What a start leaves is well typed.
LEMMA StartedOK ==
  ASSUME TypeOK, NEW n \in Nodes, Started(n), UNCHANGED inbox \/ Take(n)
  PROVE  /\ InstanceOK'
         /\ store' \in [Nodes -> 0..MaxFrames]
         /\ owner' = n /\ life' = "live" /\ epoch' = epoch + 1
<1>1. epoch' \in Nat /\ owner' = n /\ life' = "live" /\ epoch' = epoch + 1
  BY DEF TypeOK, Started, ClaimEpoch
<1>2. frame' \in 0..MaxFrames /\ roster' \in SUBSET Players
      /\ store' \in [Nodes -> 0..MaxFrames]
  <2>1. CASE inbox[n] = None
    BY <2>1 DEF TypeOK, Started
  <2>2. CASE inbox[n] # None
    <3>1. inbox[n] \in State
      BY <2>2 DEF TypeOK
    <3>2. inbox[n].frame \in 0..MaxFrames /\ inbox[n].roster \in SUBSET Players
      BY <3>1 DEF State
    <3> QED
      BY <2>2, <3>2 DEF TypeOK, Started, Restored
  <2> QED
    BY <2>1, <2>2
<1> QED
  BY <1>1, <1>2 DEF InstanceOK, Started

\* The inbox stays well typed when a state is taken from it or staged in it.
LEMMA InboxOK ==
  ASSUME NodesOK, MovesOK, NEW n \in Nodes
  PROVE  /\ Take(n) => /\ inbox' \in [Nodes -> State \cup {None}]
                       /\ inbox'[n] = None
         /\ state \in State /\ Stage(n) => /\ inbox' \in [Nodes -> State \cup {None}]
                                           /\ inbox'[n] = state
  BY DEF NodesOK, MovesOK, Take, Stage

LEMMA GateOK ==
  ASSUME NodesOK, NEW n \in Nodes, GateAllows(n)
  PROVE  missed' \in SUBSET Nodes
  BY DEF NodesOK, GateAllows

LEMMA GoneOK ==
  ASSUME Gone
  PROVE  InstanceOK' /\ owner' = None /\ life' = "none" /\ epoch' = 0
  BY DEF Gone, InstanceOK

\* The initial states satisfy the invariant.
LEMMA InitMove == Init => MoveInv
  BY DEF Init, MoveInv, TypeOK, Moving, Idle, OwnerFormed, JobFormed, StagedForDrain,
         StagedForStart, StartedForVerify, ClockTurns
\* What the invariant says beyond types.
Shape == OwnerFormed /\ JobFormed /\ StagedForDrain /\ StagedForStart /\ StartedForVerify

LEMMA MoveInvParts == MoveInv <=> TypeOK /\ Shape /\ ClockTurns
  BY DEF MoveInv, Shape

\* The instance works on: frames only go up, and its place in the directory stays.
LEMMA InstanceSteps ==
  ASSUME TypeOK, Shape, Tick \/ SeatingEnds
  PROVE  TypeOK' /\ Shape'
<1>1. CASE Tick
  <2>1. TypeOK'
    <3>1. frame' \in 0..MaxFrames
      BY <1>1 DEF TypeOK, Tick
    <3>2. store' \in [Nodes -> 0..MaxFrames]
      BY <1>1, <3>1 DEF TypeOK, Tick
    <3> QED
      BY <1>1, <3>1, <3>2 DEF TypeOK, Tick, ended, migration, bounds
  <2>2. OwnerFormed' /\ JobFormed'
    BY <1>1 DEF Shape, OwnerFormed, JobFormed, Moving, Tick, migration
  <2>3. Carried /\ state \in State => Carried'
    BY <1>1 DEF Carried, Tick, migration, TypeOK, State
  <2>4. StagedForDrain'
    BY <1>1 DEF Shape, StagedForDrain, Forgiven, OnTarget, Tick, migration, ended
  <2>5. StagedForStart' /\ StartedForVerify'
    <3>1. Moving /\ job.at # "export" => state \in State
      BY DEF Shape, JobFormed
    <3>2. job.at \in {"activate", "verify"} => Moving
      BY DEF Moving, Idle
    <3> QED
      BY <1>1, <2>3, <3>1, <3>2 DEF Shape, StagedForStart, StartedForVerify, Forgiven,
         OnTarget, Tick, migration, ended
  <2> QED
    BY <2>1, <2>2, <2>4, <2>5 DEF Shape
<1>2. CASE SeatingEnds
  BY <1>2 DEF TypeOK, Shape, OwnerFormed, JobFormed, StagedForDrain, StagedForStart,
     StartedForVerify, Forgiven, OnTarget, Carried, Moving, SeatingEnds, pernode, ended,
     migration, bounds
<1> QED
  BY <1>1, <1>2

\* A settled battle forgives every move.
LEMMA SettleStep ==
  ASSUME TypeOK, Shape, Settle
  PROVE  TypeOK' /\ Shape'
<1>1. TypeOK'
  BY GoneOK DEF TypeOK, InstanceOK, Settle, pernode, migration, bounds
<1>2. Forgiven'
  BY DEF Settle, Forgiven
<1>3. OwnerFormed' /\ JobFormed'
  BY GoneOK DEF Shape, OwnerFormed, JobFormed, Moving, TypeOK, Settle, migration
<1> QED
  BY <1>1, <1>2, <1>3 DEF Shape, StagedForDrain, StagedForStart, StartedForVerify

\* A node starts the battle: from its inbox, and then with what was staged there, or
\* from its own storage, and then it is not the target of a move with a staged state.
LEMMA StartKeeps ==
  ASSUME TypeOK, Shape, NEW n \in Nodes, Claimable(n), Take(n), Started(n),
         UNCHANGED <<migration, ended>>
  PROVE  Shape'
<1>1. owner' = n /\ life' = "live" /\ epoch' = epoch + 1 /\ epoch \in Nat /\ life # "live"
  BY StartedOK DEF TypeOK, Claimable
<1>2. OwnerFormed' /\ JobFormed'
  BY <1>1 DEF Shape, OwnerFormed, JobFormed, Moving, migration
<1>3. Forgiven' <=> Forgiven
  BY DEF Forgiven, migration, ended
<1>4. ASSUME Moving, job.at # "export", n = job.to, inbox[n] = state
      PROVE  Carried'
  <2>1. state \in State
    BY <1>4 DEF Shape, JobFormed
  <2>2. inbox[n] # None
    BY <1>4, <2>1, NoneAssumption
  <2>3. frame' = state.frame /\ roster' = state.roster /\ state.frame \in Nat
    BY <1>4, <2>1, <2>2 DEF Started, Restored, State
  <2> QED
    BY <2>3 DEF Carried, migration
<1>5. ASSUME n # job.to
      PROVE  inbox'[job.to] = inbox[job.to]
  BY <1>5 DEF Take, TypeOK
<1>6. job.at \in {"drain", "activate", "verify"} => Moving /\ job.at # "export"
  BY DEF Moving, Idle
<1>7. StagedForDrain'
  BY <1>1, <1>3, <1>5 DEF Shape, StagedForDrain, OnTarget, migration
<1>8. StagedForStart'
  <2>1. CASE n = job.to
    BY <2>1, <1>1, <1>3, <1>4, <1>6 DEF Shape, StagedForStart, OnTarget, migration
  <2>2. CASE n # job.to
    BY <2>2, <1>1, <1>3, <1>5 DEF Shape, StagedForStart, OnTarget, migration
  <2> QED
    BY <2>1, <2>2
<1>9. StartedForVerify'
  <2>1. job.epoch \in Nat
    BY DEF TypeOK, Job, Idle
  <2> QED
    BY <1>1, <1>3, <2>1 DEF Shape, StartedForVerify, OnTarget, migration
<1> QED
  BY <1>2, <1>7, <1>8, <1>9 DEF Shape
\* A start that is refused drops the state a move had staged.
LEMMA RefuseKeeps ==
  ASSUME TypeOK, Shape, Refuse, UNCHANGED <<job, state, ended>>
  PROVE  Shape' /\ dropped' \in {"yes", "no"}
<1>1. Moving => Forgiven'
  BY DEF Refuse, Forgiven
<1>2. OwnerFormed' /\ JobFormed'
  BY GoneOK DEF Shape, OwnerFormed, JobFormed, Moving, Refuse
<1>3. job'.at \in {"drain", "activate", "verify"} => Moving
  BY DEF Moving, Idle
<1> QED
  BY <1>1, <1>2, <1>3 DEF Shape, StagedForDrain, StagedForStart, StartedForVerify, Refuse,
     TypeOK

LEMMA ActivateStep ==
  ASSUME TypeOK, Shape, NEW n \in Nodes, Activate(n)
  PROVE  TypeOK' /\ Shape'
<1> USE TypeParts
<1>1. missed' \in SUBSET Nodes /\ inbox' \in [Nodes -> State \cup {None}]
  BY GateOK, InboxOK DEF Activate
<1>2. CASE Started(n) /\ UNCHANGED dropped
  <2>1. Shape'
    BY <1>2, StartKeeps DEF Activate, migration
  <2>2. InstanceOK' /\ store' \in [Nodes -> 0..MaxFrames]
    BY <1>2, StartedOK DEF Activate
  <2>3. TypeOK'
    BY <1>1, <1>2, <2>2 DEF Activate, NodesOK, EndedOK, MovesOK, ended, bounds
  <2> QED
    BY <2>1, <2>3
<1>3. CASE Fenced(n) /\ Refuse /\ UNCHANGED store
  <2>1. Shape' /\ dropped' \in {"yes", "no"}
    BY <1>3, RefuseKeeps DEF Activate
  <2>2. InstanceOK'
    BY <1>3, GoneOK DEF Refuse
  <2>3. TypeOK'
    BY <1>1, <1>3, <2>1, <2>2 DEF Activate, NodesOK, EndedOK, MovesOK, ended, bounds
  <2> QED
    BY <2>1, <2>3
<1> QED
  BY <1>2, <1>3 DEF Activate

\* With no move under way there is nothing to say of one.
LEMMA IdleShape ==
  ASSUME Over, OwnerFormed'
  PROVE  Shape'
BY DEF Over, Idle, Shape, JobFormed, Moving, StagedForDrain, StagedForStart,
   StartedForVerify

LEMMA OverOK ==
  ASSUME Over
  PROVE  job' \in Job \cup {Idle} /\ state' \in State \cup {None}
BY DEF Over

LEMMA ExportSteps ==
  ASSUME TypeOK, Shape, Export \/ ExportFails
  PROVE  TypeOK' /\ Shape'
<1> USE TypeParts
<1>1. CASE Export
  <2>1. Moving /\ job.at = "export" /\ owner # None
    BY <1>1 DEF Export, Moving, Idle, Shape, OwnerFormed
  <2>2. job' \in Job /\ job'.at = "deliver" /\ job'.from = job.from /\ job'.to = job.to
    BY <1>1, <2>1, PlacedJob DEF Export
  <2>3. state' \in State
    BY <1>1 DEF Export, State, InstanceOK
  <2>4. TypeOK'
    BY <1>1, <2>2, <2>3
       DEF Export, EnterWindow, InstanceOK, NodesOK, EndedOK, MovesOK, pernode, ended, bounds
  <2>5. OwnerFormed'
    BY <1>1 DEF Shape, OwnerFormed, Export
  <2>6. JobFormed'
    BY <2>1, <2>2, <2>3 DEF Shape, JobFormed
  <2>7. StagedForDrain' /\ StagedForStart' /\ StartedForVerify'
    BY <2>2 DEF StagedForDrain, StagedForStart, StartedForVerify
  <2> QED
    BY <2>4, <2>5, <2>6, <2>7 DEF Shape
<1>2. CASE ExportFails
  <2>1. OwnerFormed'
    BY <1>2 DEF Shape, OwnerFormed, ExportFails
  <2>2. Shape'
    BY <1>2, <2>1, IdleShape DEF ExportFails
  <2>3. TypeOK'
    BY <1>2, OverOK
       DEF ExportFails, EnterWindow, LeaveWindow, InstanceOK, NodesOK, EndedOK, MovesOK,
           pernode, ended, bounds
  <2> QED
    BY <2>2, <2>3
<1> QED
  BY <1>1, <1>2

LEMMA DeliverSteps ==
  ASSUME TypeOK, Shape, Deliver \/ DeliverFails
  PROVE  TypeOK' /\ Shape'
<1> USE TypeParts
<1>1. CASE Deliver
  <2>1. Moving /\ job.at = "deliver" /\ state \in State /\ job.to \in Nodes
        /\ job.epoch \in Nat
    BY <1>1, JobPlaces DEF Deliver, Moving, Idle, Shape, JobFormed
  <2>2. job' \in Job /\ job'.at = "drain" /\ job'.from = job.from /\ job'.to = job.to
        /\ state' = state
    BY <1>1, <2>1, PlacedJob DEF Deliver, Goto
  <2>3. \/ inbox' \in [Nodes -> State \cup {None}] /\ inbox'[job.to] = state
           /\ dropped' = dropped
        \/ inbox' = inbox /\ dropped' = "yes"
    BY <1>1, <2>1, InboxOK DEF Deliver
  <2>4. TypeOK'
    BY <1>1, <2>2, <2>3
       DEF Deliver, InstanceOK, NodesOK, EndedOK, MovesOK, instance, ended, bounds
  <2>5. OwnerFormed'
    BY <1>1 DEF Shape, OwnerFormed, Deliver, instance
  <2>6. JobFormed'
    BY <2>1, <2>2 DEF Shape, JobFormed
  <2>7. StagedForDrain'
    BY <2>2, <2>3 DEF StagedForDrain, Forgiven
  <2>8. StagedForStart' /\ StartedForVerify'
    BY <2>2 DEF StagedForStart, StartedForVerify
  <2> QED
    BY <2>4, <2>5, <2>6, <2>7, <2>8 DEF Shape
<1>2. CASE DeliverFails
  <2>1. Shape'
    BY <1>2, IdleShape DEF DeliverFails, Shape, OwnerFormed, instance
  <2>2. TypeOK'
    BY <1>2, OverOK
       DEF DeliverFails, InstanceOK, NodesOK, EndedOK, MovesOK, instance, pernode, ended,
           bounds
  <2> QED
    BY <2>1, <2>2
<1> QED
  BY <1>1, <1>2

LEMMA DrainSteps ==
  ASSUME TypeOK, Shape, Drain \/ DrainFails
  PROVE  TypeOK' /\ Shape'
<1> USE TypeParts
<1>1. CASE Drain
  <2>1. Moving /\ job.at = "drain" /\ state \in State /\ job.on \in Nodes
        /\ job.epoch \in Nat /\ job.from # job.to /\ job.to \in Nodes
    BY <1>1, JobPlaces DEF Drain, Moving, Idle, Shape, JobFormed
  <2>2. job' \in Job /\ job'.at = "activate" /\ job'.from = job.from /\ job'.to = job.to
        /\ state' = state
    BY <1>1, <2>1, PlacedJob DEF Drain, Goto
  <2>3. InstanceOK' /\ life' = "none" /\ owner' = None /\ epoch' = 0
    BY <1>1, GoneOK DEF Drain
  <2>4. quarantined' \in SUBSET Nodes
    BY <1>1, <2>1 DEF Drain, Quarantine, NodesOK
  <2>5. TypeOK'
    BY <1>1, <2>2, <2>3, <2>4 DEF Drain, NodesOK, EndedOK, MovesOK, ended, bounds
  <2>6. OwnerFormed' /\ JobFormed'
    BY <2>1, <2>2, <2>3 DEF OwnerFormed, JobFormed
  <2>7. ~OnTarget
    <3>1. owner \in {job.from, None}
      BY <1>1 DEF Drain
    <3> QED
      BY <2>1, <3>1 DEF OnTarget
  <2>8. StagedForStart'
    BY <1>1, <2>1, <2>2, <2>3, <2>7
       DEF Drain, Shape, StagedForDrain, StagedForStart, Forgiven, OnTarget, ended
  <2>9. StagedForDrain' /\ StartedForVerify'
    BY <2>2 DEF StagedForDrain, StartedForVerify
  <2> QED
    BY <2>5, <2>6, <2>8, <2>9 DEF Shape
<1>2. CASE DrainFails
  <2>1. Shape'
    BY <1>2, IdleShape DEF DrainFails, Shape, OwnerFormed
  <2>2. TypeOK'
    BY <1>2, OverOK
       DEF DrainFails, LeaveWindow, InstanceOK, NodesOK, EndedOK, MovesOK, pernode, ended,
           bounds
  <2> QED
    BY <2>1, <2>2
<1> QED
  BY <1>1, <1>2
\* The target runs the battle, started for the move or found there.
LEMMA TargetSteps ==
  ASSUME TypeOK, Shape, ActivateTarget
  PROVE  TypeOK' /\ Shape'
<1> USE TypeParts
<1>1. Moving /\ job.at = "activate" /\ state \in State /\ job.to \in Nodes
      /\ job.from # job.to
  BY JobPlaces DEF ActivateTarget, Moving, Idle, Shape, JobFormed
<1>2. ASSUME TypeOK, NEW e \in Nat, Activated(e)
      PROVE  \/ job' = Idle /\ state' = None
             \/ job' \in Job /\ job'.at = "verify" /\ job'.epoch = e
                /\ job'.to = job.to /\ job'.from = job.from /\ state' = state
  BY <1>1, <1>2, PlacedJob DEF Activated, Over
<1>3. CASE /\ Claimable(job.to) /\ GateAllows(job.to)
           /\ Take(job.to) /\ Started(job.to)
           /\ Activated(epoch')
           /\ UNCHANGED <<up, quarantined>>
  <2>1. InstanceOK' /\ store' \in [Nodes -> 0..MaxFrames]
        /\ owner' = job.to /\ life' = "live" /\ epoch' \in Nat /\ life # "live"
    BY <1>1, <1>3, StartedOK DEF InstanceOK, Claimable
  <2>2. missed' \in SUBSET Nodes /\ inbox' \in [Nodes -> State \cup {None}]
    BY <1>1, <1>3, GateOK, InboxOK
  <2>3. \/ job' = Idle /\ state' = None
        \/ job' \in Job /\ job'.at = "verify" /\ job'.epoch = epoch'
           /\ job'.to = job.to /\ job'.from = job.from /\ state' = state
    BY <1>2, <1>3, <2>1
  <2>4. TypeOK'
    BY <1>3, <2>1, <2>2, <2>3 DEF ActivateTarget, NodesOK, EndedOK, MovesOK, ended, bounds
  <2>5. OwnerFormed'
    BY <1>1, <2>1, MigrationAssumption DEF OwnerFormed
  <2>6. JobFormed'
    BY <1>1, <2>3 DEF JobFormed, Moving
  <2>7. StartedForVerify'
    <3>1. Forgiven \/ inbox[job.to] = state
      BY <1>1, <2>1 DEF Shape, StagedForStart, OnTarget
    <3>2. ASSUME inbox[job.to] = state, state' = state
          PROVE  Carried'
      <4>1. inbox[job.to] # None
        BY <1>1, <3>2, NoneAssumption
      <4>2. frame' = state.frame /\ roster' = state.roster /\ state.frame \in Nat
        BY <1>1, <1>3, <3>2, <4>1 DEF Started, Restored, State
      <4> QED
        BY <3>2, <4>2 DEF Carried
    <3>3. UNCHANGED <<result, dropped>>
      BY DEF ActivateTarget, ended
    <3>4. owner' # None
      BY <1>1, <2>1, MigrationAssumption
    <3> QED
      BY <2>1, <2>3, <3>1, <3>2, <3>3, <3>4 DEF StartedForVerify, Forgiven, OnTarget, Idle
  <2>8. StagedForDrain' /\ StagedForStart'
    BY <2>3 DEF StagedForDrain, StagedForStart, Idle
  <2> QED
    BY <2>4, <2>5, <2>6, <2>7, <2>8 DEF Shape
<1>4. CASE /\ life = "live" /\ owner = job.to
           /\ Activated(epoch)
           /\ UNCHANGED <<instance, pernode>>
  <2>1. epoch \in Nat
    BY DEF InstanceOK
  <2>2. \/ job' = Idle /\ state' = None
        \/ job' \in Job /\ job'.at = "verify" /\ job'.epoch = epoch
           /\ job'.to = job.to /\ job'.from = job.from /\ state' = state
    BY <1>2, <1>4, <2>1
  <2>3. TypeOK'
    BY <1>4, <2>2
       DEF ActivateTarget, InstanceOK, NodesOK, EndedOK, MovesOK, instance, pernode, ended,
           bounds
  <2>4. OwnerFormed'
    BY <1>4 DEF Shape, OwnerFormed, instance
  <2>5. JobFormed'
    BY <1>1, <2>2 DEF JobFormed, Moving
  <2>6. StartedForVerify'
    <3>1. Forgiven \/ Carried
      BY <1>1, <1>4 DEF Shape, StagedForStart, OnTarget
    <3>2. UNCHANGED <<result, dropped>> /\ UNCHANGED instance
      BY <1>4 DEF ActivateTarget, ended
    <3>3. owner # None
      BY <1>1, <1>4, MigrationAssumption
    <3> QED
      BY <1>4, <2>1, <2>2, <3>1, <3>2, <3>3
         DEF StartedForVerify, Forgiven, OnTarget, Carried, Idle, instance
  <2>7. StagedForDrain' /\ StagedForStart'
    BY <2>2 DEF StagedForDrain, StagedForStart, Idle
  <2> QED
    BY <2>3, <2>4, <2>5, <2>6, <2>7 DEF Shape
<1> QED
  BY <1>3, <1>4 DEF ActivateTarget

\* The steps that end a move.
LEMMA EndingSteps ==
  ASSUME TypeOK, Shape, ActivateFails \/ Verify
  PROVE  TypeOK' /\ Shape'
<1> USE TypeParts
<1>1. CASE ActivateFails
  <2>1. Over /\ UNCHANGED <<ended, bounds>>
    BY <1>1 DEF ActivateFails
  <2>2. CASE /\ Claimable(job.to) /\ GateAllows(job.to) /\ Fenced(job.to)
             /\ Take(job.to) /\ Refuse
             /\ UNCHANGED <<up, store, quarantined>>
    <3>1. job.to \in Nodes
      BY <1>1, JobPlaces DEF ActivateFails
    <3>2. missed' \in SUBSET Nodes /\ inbox' \in [Nodes -> State \cup {None}]
      BY <2>2, <3>1, GateOK, InboxOK
    <3>3. InstanceOK' /\ owner' = None /\ life' = "none" /\ epoch' = 0
          /\ dropped' \in {"yes", "no"}
      BY <2>2, GoneOK DEF Refuse, MovesOK
    <3>4. TypeOK'
      BY <2>1, <2>2, <3>2, <3>3, OverOK DEF NodesOK, EndedOK, MovesOK, ended, bounds
    <3>5. Shape'
      BY <2>1, <3>3, IdleShape DEF OwnerFormed
    <3> QED
      BY <3>4, <3>5
  <2>3. CASE UNCHANGED <<instance, pernode, dropped>>
    <3>1. TypeOK'
      BY <2>1, <2>3, OverOK
         DEF InstanceOK, NodesOK, EndedOK, MovesOK, instance, pernode, ended, bounds
    <3>2. Shape'
      BY <2>1, <2>3, IdleShape DEF Shape, OwnerFormed, instance
    <3> QED
      BY <3>1, <3>2
  <2> QED
    BY <1>1, <2>2, <2>3 DEF ActivateFails
<1>2. CASE Verify
  <2>1. TypeOK'
    BY <1>2, OverOK
       DEF Verify, InstanceOK, NodesOK, EndedOK, MovesOK, instance, pernode, ended, bounds
  <2>2. Shape'
    BY <1>2, IdleShape DEF Verify, Shape, OwnerFormed, instance
  <2> QED
    BY <2>1, <2>2
<1> QED
  BY <1>1, <1>2

LEMMA MoveStartStep ==
  ASSUME TypeOK, Shape, NEW n \in Nodes, NEW to \in Nodes, MoveStart(n, to)
  PROVE  TypeOK' /\ Shape'
<1> USE TypeParts
<1>1. job' \in Job /\ job'.at = "export" /\ job'.from # job'.to
  BY DEF MoveStart, Job, InstanceOK
<1>2. TypeOK'
  BY <1>1 DEF MoveStart, InstanceOK, NodesOK, EndedOK, MovesOK, instance, pernode, ended
<1>3. OwnerFormed' /\ JobFormed'
  BY <1>1 DEF MoveStart, Shape, OwnerFormed, JobFormed, instance
<1>4. StagedForDrain' /\ StagedForStart' /\ StartedForVerify'
  BY <1>1 DEF StagedForDrain, StagedForStart, StartedForVerify
<1> QED
  BY <1>2, <1>3, <1>4 DEF Shape

\* Time passes on a node, or it comes back.
LEMMA NodeSteps ==
  ASSUME TypeOK, Shape, NEW n \in Nodes, QuarantineEnds(n) \/ MissEnds(n) \/ Restart(n)
  PROVE  TypeOK' /\ Shape'
<1>1. UNCHANGED <<instance, store, inbox, ended, migration, bounds>>
  BY DEF QuarantineEnds, MissEnds, Restart
<1>2. up' \in SUBSET Nodes /\ quarantined' \in SUBSET Nodes /\ missed' \in SUBSET Nodes
  BY DEF TypeOK, QuarantineEnds, MissEnds, Restart
<1>3. TypeOK'
  BY <1>1, <1>2 DEF TypeOK, instance, ended, migration, bounds
<1>4. Shape'
  BY <1>1 DEF Shape, OwnerFormed, JobFormed, Moving, StagedForDrain, StagedForStart,
     StartedForVerify, Forgiven, OnTarget, Carried, instance, ended, migration
<1> QED
  BY <1>3, <1>4

\* A lost node takes along what was staged on it: the move to it is forgiven unless the
\* battle had been started there, and then it is not live any more.
LEMMA CrashStep ==
  ASSUME TypeOK, Shape, NEW n \in Nodes, Crash(n)
  PROVE  TypeOK' /\ Shape'
<1> USE TypeParts
<1>1. inbox' \in [Nodes -> State \cup {None}] /\ store' \in [Nodes -> 0..MaxFrames]
  BY DEF Crash, NodesOK
<1>2. owner' = owner /\ epoch' = epoch
  BY DEF Crash
<1>3. \/ /\ owner = n /\ life = "live"
         /\ life' = "dead" /\ frame' = 0 /\ roster' = {}
         /\ clock' = "paused" /\ window' = "closed" /\ seating' = "closed"
      \/ /\ owner # n \/ life # "live"
         /\ UNCHANGED <<life, frame, roster, clock, window, seating>>
  BY DEF Crash
<1>4. \/ job' = Idle /\ state' = None
      \/ job' = job /\ state' = state
  BY DEF Crash, Over
<1>5. InstanceOK'
  BY <1>2, <1>3 DEF InstanceOK
<1>6. NodesOK'
  BY <1>1 DEF Crash, NodesOK
<1>7. EndedOK' /\ MovesOK'
  BY <1>4 DEF Crash, EndedOK, MovesOK, ended
<1>8. TypeOK'
  BY <1>5, <1>6, <1>7
<1>9. OwnerFormed'
  BY <1>2, <1>3 DEF Shape, OwnerFormed
<1>10. CASE job' = Idle /\ state' = None
  BY <1>8, <1>9, <1>10, IdleShape DEF Over
<1>11. CASE job' = job /\ state' = state
  <2>1. JobFormed'
    BY <1>11 DEF Shape, JobFormed, Moving
  <2>2. result' = result
    BY DEF Crash, ended
  <2>3. CASE job.to = n /\ Moving /\ job.at # "verify"
    <3>1. Forgiven'
      BY <2>3 DEF Crash, Forgiven
    <3> QED
      BY <1>8, <1>9, <1>11, <2>1, <2>3, <3>1
         DEF Shape, StagedForDrain, StagedForStart, StartedForVerify
  <2>4. CASE job.to # n \/ job.at = "verify"
    <3>1. dropped' = dropped
      BY <2>4 DEF Crash
    <3>2. OnTarget' => OnTarget /\ UNCHANGED <<frame, roster>>
      BY <1>2, <1>3, <1>11 DEF OnTarget
    <3>3. job.to # n => inbox'[job.to] = inbox[job.to] /\ (OnTarget => OnTarget')
      BY <1>2, <1>3, <1>11 DEF Crash, NodesOK, OnTarget
    <3>4. Carried /\ OnTarget' => Carried'
      BY <1>11, <3>2 DEF Carried
    <3>5. Forgiven' <=> Forgiven
      BY <2>2, <3>1 DEF Forgiven
    <3>6. StagedForDrain'
      BY <1>11, <2>4, <3>3, <3>5 DEF Shape, StagedForDrain
    <3>7. StagedForStart'
      BY <1>11, <2>4, <3>2, <3>3, <3>4, <3>5 DEF Shape, StagedForStart
    <3>8. StartedForVerify'
      BY <1>2, <1>11, <3>2, <3>4, <3>5 DEF Shape, StartedForVerify
    <3> QED
      BY <1>8, <1>9, <2>1, <3>6, <3>7, <3>8 DEF Shape
  <2>5. job.at # "verify" => job.to # n \/ Moving \/ job.at = "idle"
    BY DEF Moving, Idle
  <2>6. CASE ~Moving
    BY <1>8, <1>9, <1>11, <2>1, <2>6
       DEF Shape, StagedForDrain, StagedForStart, StartedForVerify, Moving, Idle
  <2> QED
    BY <2>3, <2>4, <2>6
<1> QED
  BY <1>4, <1>10, <1>11

LEMMA MoveSteps ==
  ASSUME TypeOK, Shape, Move
  PROVE  TypeOK' /\ Shape'
BY ExportSteps, DeliverSteps, DrainSteps, TargetSteps, EndingSteps DEF Move

\* The clock of an instance stands still only in a window or before its players are there.
LEMMA ClockStep ==
  ASSUME ClockTurns, [Next]_vars
  PROVE  ClockTurns'
<1>1. CASE Tick \/ SeatingEnds \/ Settle
  BY <1>1 DEF ClockTurns, Tick, SeatingEnds, Settle, Gone
<1>2. CASE Move
  <2>1. CASE Export \/ ExportFails \/ Drain \/ DrainFails
    BY <2>1 DEF ClockTurns, Export, ExportFails, Drain, DrainFails, EnterWindow,
       LeaveWindow, Gone
  <2>2. CASE Deliver \/ DeliverFails \/ Verify
    BY <2>2 DEF ClockTurns, Deliver, DeliverFails, Verify, instance
  <2>3. CASE ActivateTarget \/ ActivateFails
    BY <2>3 DEF ClockTurns, ActivateTarget, ActivateFails, Started, Refuse, Gone, instance
  <2> QED
    BY <1>2, <2>1, <2>2, <2>3 DEF Move
<1>3. CASE \E n \in Nodes :
              \/ \E to \in Nodes : MoveStart(n, to)
              \/ QuarantineEnds(n) \/ MissEnds(n) \/ Restart(n)
  BY <1>3 DEF ClockTurns, MoveStart, QuarantineEnds, MissEnds, Restart, instance
<1>4. CASE \E n \in Nodes : Activate(n) \/ Crash(n)
  BY <1>4 DEF ClockTurns, Activate, Crash, Started, Refuse, Gone
<1>5. CASE UNCHANGED vars
  BY <1>5 DEF ClockTurns, vars, instance
<1> QED
  BY <1>1, <1>2, <1>3, <1>4, <1>5 DEF Next

LEMMA MoveInvStep == MoveInv /\ [Next]_vars => MoveInv'
<1> SUFFICES ASSUME TypeOK, Shape, [Next]_vars
             PROVE  TypeOK' /\ Shape'
  BY ClockStep DEF MoveInv, Shape
<1>1. CASE Next
  BY <1>1, InstanceSteps, SettleStep, MoveSteps, MoveStartStep, ActivateStep, NodeSteps,
     CrashStep DEF Next
<1>2. CASE UNCHANGED vars
  BY <1>2 DEF vars, instance, pernode, ended, migration, bounds, TypeOK, Shape,
     OwnerFormed, JobFormed, Moving, StagedForDrain, StagedForStart, StartedForVerify,
     Forgiven, OnTarget, Carried
<1> QED
  BY <1>1, <1>2

\* Where a move stands, what it has staged is where the code expects it, unless it is
\* known to be gone: the inbox of the target until it starts, then its instance.
THEOREM MoveInvariant == Spec => []MoveInv
  BY InitMove, MoveInvStep, PTL DEF Spec

\* Ops.Migrate: a move that reports success has brought the frame and the roster to the
\* target, unless the battle has ended or what was staged is lost.
THEOREM SuccessCarriesState == Spec => MoveCarriesState
<1>1. ASSUME MoveInv, Verify, VerifyMatches
      PROVE  life # "live" \/ Carried \/ dropped = "yes" \/ result # {}
  BY <1>1 DEF MoveInv, Verify, VerifyMatches, StartedForVerify, Forgiven, OnTarget
<1>2. MoveInv => [Verify /\ VerifyMatches =>
          life # "live" \/ Carried \/ dropped = "yes" \/ result # {}]_vars
  BY <1>1
<1> QED
  BY <1>2, MoveInvariant, PTL DEF MoveCarriesState

\* The safety half of RevivalEnds: an instance whose clock stands still outside a migration
\* window has a seating window that will end (startBattle, resumeAfterMigration).
THEOREM ClockHeldInWindow == Spec => []ClockTurns
<1>1. MoveInv => ClockTurns
  BY DEF MoveInv
<1> QED
  BY <1>1, MoveInvariant, PTL

\* The other half: a battle on record as ended stays on record, and is started again only
\* on a node that has not forgotten it as missing, or whose lookup fails
\* (Gate.AllowActivation).
THEOREM EndedStaysOnRecord == Spec => RecordHolds
<1> DEFINE Holds == /\ ledger' = "recorded" /\ missed' \subseteq missed
                    /\ life # "live" /\ life' = "live" =>
                          owner' \in missed \/ "lookup" \in Faults
<1>1. ASSUME ledger = "recorded", Next PROVE Holds
  <2>1. CASE Tick \/ SeatingEnds \/ Settle
    BY <1>1, <2>1 DEF Tick, SeatingEnds, Settle, Gone, ended, pernode
  <2>2. CASE Move
    <3>1. CASE Export \/ ExportFails \/ Drain \/ DrainFails
      BY <1>1, <3>1 DEF Export, ExportFails, Drain, DrainFails, Gone, ended, pernode
    <3>2. CASE Deliver \/ DeliverFails \/ Verify
      BY <1>1, <3>2 DEF Deliver, DeliverFails, Verify, instance, ended, pernode
    <3>3. CASE ActivateTarget \/ ActivateFails
      BY <1>1, <3>3 DEF ActivateTarget, ActivateFails, Claimable, GateAllows, Started,
         Refuse, Gone, instance, ended, pernode
    <3> QED
      BY <2>2, <3>1, <3>2, <3>3 DEF Move
  <2>3. CASE \E n \in Nodes :
                \/ \E to \in Nodes : MoveStart(n, to)
                \/ QuarantineEnds(n) \/ MissEnds(n) \/ Restart(n)
    BY <1>1, <2>3 DEF MoveStart, QuarantineEnds, MissEnds, Restart, instance, ended, pernode
  <2>4. CASE \E n \in Nodes : Activate(n) \/ Crash(n)
    BY <1>1, <2>4 DEF Activate, Crash, GateAllows, Started, Refuse, Gone, ended
  <2> QED
    BY <1>1, <2>1, <2>2, <2>3, <2>4 DEF Next
<1>2. [Next]_vars => [ledger = "recorded" => Holds]_vars
  BY <1>1
<1> QED
  BY <1>2, PTL DEF Spec, RecordHolds
===============================================================================
