--------------------------- MODULE BattleMigration ---------------------------
(* One battle on a cluster of battle nodes: the move of its state from node to     *)
(* node (migrate/migrate.go, actor/battle_migrate.go, actor/migrate_inbox.go), the *)
(* lazy activation that races with it, and the record of ended battles that keeps  *)
(* a settled battle from being activated again (ledger/). The actor directory is   *)
(* the framework's: it lets one node claim a battle at a time, counts epochs from  *)
(* 1 and starts over when the record has been released.                            *)
EXTENDS Naturals, FiniteSets

CONSTANTS
    Nodes,
    Players,      \* the roster Admit has registered
    None,
    MaxFrames,    \* b.cfg.MaxFrames
    MaxMoves,     \* bound: moves asked for
    MaxCrashes,   \* bound: nodes lost
    Faults        \* calls that may fail: "export", "answer", "loss", "deliver",
                  \* "drain", "quarantine", "activate", "ledger", "lookup"

ASSUME MigrationAssumption ==
    /\ None \notin Nodes /\ Players # {}
    /\ MaxFrames \in Nat /\ MaxMoves \in Nat /\ MaxCrashes \in Nat

VARIABLES
    \* the directory's record of the battle, and its instance on that node
    owner, epoch,
    life,         \* "none", "live", or "dead": the record of a node that is gone
    frame, roster,
    clock,        \* the lockstep session: "running" or "paused"
    window,       \* b.migration
    seating,      \* b.seating
    \* per node
    up,
    store,        \* newest snapshot in the node's session storage
    inbox,        \* MigrationInbox.staged
    quarantined,
    missed,       \* Gate.missUntil: "not recorded" is still cached
    \* shared
    ledger,       \* the battle is in the shared record of ended battles
    result,       \* the roster of the saved result: none or one
    \* the move being made
    job, state,   \* its place and arguments; the exported state
    dropped,      \* history: the state this move staged is gone
    moves, crashes

instance  == <<owner, epoch, life, frame, roster, clock, window, seating>>
pernode   == <<up, store, inbox, quarantined, missed>>
ended     == <<ledger, result>>
migration == <<job, state, dropped>>
bounds    == <<moves, crashes>>
vars == <<instance, pernode, ended, migration, bounds>>

State == [frame : 0..MaxFrames, epoch : Nat, roster : SUBSET Players]
Job   == [at : {"export", "deliver", "drain", "activate", "verify"},
          on : Nodes, from : Nodes, to : Nodes, epoch : Nat]
Idle  == [at |-> "idle", on |-> None, from |-> None, to |-> None, epoch |-> 0]

ASSUME NoneAssumption == None \notin State

\* The battle has been admitted on some node and waits for its players, or plays.
Init ==
    /\ owner \in Nodes /\ epoch = 1 /\ life = "live"
    /\ frame = 0 /\ roster = Players
    /\ window = "closed"
    /\ \/ seating = "open" /\ clock = "paused"
       \/ seating = "closed" /\ clock = "running"
    /\ up = Nodes
    /\ store = [n \in Nodes |-> 0]
    /\ inbox = [n \in Nodes |-> None]
    /\ quarantined = {} /\ missed = {owner}
    /\ ledger = "absent" /\ result = {}
    /\ job = Idle /\ state = None /\ dropped = "no"
    /\ moves = 0 /\ crashes = 0

Moving == job # Idle
Placed(s, e) == [at |-> s, on |-> job.on, from |-> job.from, to |-> job.to, epoch |-> e]
Goto(s) == job' = Placed(s, job.epoch) /\ UNCHANGED state
Over == job' = Idle /\ state' = None
-------------------------------------------------------------------------------
(* The instance *)

\* A frame of the lockstep session.
Tick ==
    /\ life = "live" /\ clock = "running" /\ frame < MaxFrames
    /\ frame' = frame + 1
    /\ store' = [store EXCEPT ![owner] = frame']
    /\ UNCHANGED <<owner, epoch, life, roster, clock, window, seating, up, inbox,
                   quarantined, missed, ended, migration, bounds>>

\* startBattle: lets the clock run, whether a move has paused it or not.
SeatingEnds ==
    /\ life = "live" /\ seating = "open"
    /\ seating' = "closed" /\ clock' = "running"
    /\ UNCHANGED <<owner, epoch, life, frame, roster, window, pernode, ended, migration,
                   bounds>>

Gone ==
    /\ owner' = None /\ epoch' = 0 /\ life' = "none"
    /\ frame' = 0 /\ roster' = {}
    /\ clock' = "paused" /\ window' = "closed" /\ seating' = "closed"

\* settle: the shared record may fail, the result replaces what was saved, the actor
\* stops and gives up its place in the directory.
Settle ==
    /\ life = "live"
    /\ roster # {} \/ frame = MaxFrames
    /\ ledger' = "recorded" \/ ("ledger" \in Faults /\ ledger' = ledger)
    /\ result' = {roster}
    /\ Gone
    /\ UNCHANGED <<pernode, migration, bounds>>
-------------------------------------------------------------------------------
(* Activation *)

Claimable(n) == n \in up /\ n \notin quarantined /\ life # "live"

\* The epoch the directory gives to a claim: 1 for a released record.
ClaimEpoch == epoch + 1

GateAllows_CacheAll(n) ==
    \/ n \in missed /\ UNCHANGED missed
    \/ n \notin missed /\ ledger = "absent" /\ missed' = missed \cup {n}
    \/ n \notin missed /\ ledger = "recorded" /\ missed' = missed \cup {n}
    \/ n \notin missed /\ "lookup" \in Faults /\ UNCHANGED missed

\* AllowActivation: a cached miss and a failed lookup let the activation pass; a lookup
\* that misses is remembered.
GateAllows(n) ==
    \/ n \in missed /\ UNCHANGED missed
    \/ n \notin missed /\ ledger = "absent" /\ missed' = missed \cup {n}
    \/ n \notin missed /\ "lookup" \in Faults /\ UNCHANGED missed

\* The inbox hands a state out once.
Take(n) == inbox' = [inbox EXCEPT ![n] = None]

\* applyStagedState
Restored(n) == frame' = inbox[n].frame /\ roster' = inbox[n].roster

\* OnStart: restore what is staged, else what the storage of the node has of the session.
Started(n) ==
    /\ owner' = n /\ epoch' = ClaimEpoch /\ life' = "live"
    /\ IF inbox[n] = None
       THEN frame' = store[n] /\ roster' = {} /\ UNCHANGED store
       ELSE /\ inbox[n].epoch <= ClaimEpoch
            /\ Restored(n)
            /\ store' = [store EXCEPT ![n] = inbox[n].frame]
    /\ clock' = "running" /\ window' = "closed" /\ seating' = "closed"

\* The fence: a state of a higher epoch is refused, and has been taken all the same.
Fenced(n) == inbox[n] # None /\ inbox[n].epoch > ClaimEpoch

\* A start that fails gives the record up, and the move under way has nothing to rely on.
Refuse == Gone /\ dropped' = IF Moving THEN "yes" ELSE dropped

\* An operation reaches a node of the cluster that may activate the battle.
Activate(n) ==
    /\ Claimable(n) /\ GateAllows(n)
    /\ Take(n)
    /\ \/ Started(n) /\ UNCHANGED dropped
       \/ Fenced(n) /\ Refuse /\ UNCHANGED store
    /\ UNCHANGED <<up, quarantined, ended, job, state, bounds>>
-------------------------------------------------------------------------------
(* Ops.Migrate, in the inbox actor of a node *)

MoveStart(n, to) ==
    /\ ~Moving /\ moves < MaxMoves /\ n \in up
    /\ owner # None /\ owner # to
    /\ job' = [at |-> "export", on |-> n, from |-> owner, to |-> to, epoch |-> 0]
    /\ moves' = moves + 1
    /\ dropped' = "no"
    /\ UNCHANGED <<instance, pernode, ended, state, crashes>>

EnterWindow == window' = "open" /\ clock' = "paused"
LeaveWindow == window' = "closed" /\ clock' = "running"

\* export: the owner enters its window and hands out its state.
Export ==
    /\ job.at = "export" /\ life = "live"
    /\ EnterWindow
    /\ state' = [frame |-> frame, epoch |-> epoch, roster |-> roster]
    /\ job' = Placed("deliver", 0)
    /\ UNCHANGED <<owner, epoch, life, frame, roster, seating, pernode, ended, dropped,
                   bounds>>

\* There is no instance, its session does not answer, or its own answer is lost.
ExportFails ==
    /\ job.at = "export"
    /\ \/ life # "live" /\ UNCHANGED <<clock, window>>
       \/ life = "live" /\ "export" \in Faults /\ LeaveWindow
       \/ life = "live" /\ "answer" \in Faults /\ EnterWindow
    /\ Over
    /\ UNCHANGED <<owner, epoch, life, frame, roster, seating, pernode, ended,
                   dropped, bounds>>

Stage_KeepFirst(n) ==
    inbox' = [inbox EXCEPT ![n] = IF @ = None THEN state ELSE @]

\* onStage: the last state staged for the battle.
Stage(n) == inbox' = [inbox EXCEPT ![n] = state]

\* deliver: a Tell to the inbox of the target, which may be lost on its way.
Deliver ==
    /\ job.at = "deliver"
    /\ \/ /\ job.to \in up
          /\ Stage(job.to)
          /\ UNCHANGED dropped
       \/ /\ "loss" \in Faults \/ job.to \notin up
          /\ dropped' = "yes" /\ UNCHANGED inbox
    /\ Goto("drain")
    /\ UNCHANGED <<instance, up, store, quarantined, missed, ended, bounds>>

\* A Tell that fails ends the move; the owner is not told.
DeliverFails ==
    /\ job.at = "deliver"
    /\ "deliver" \in Faults \/ job.to \notin up
    /\ Over
    /\ UNCHANGED <<instance, pernode, ended, dropped, bounds>>

\* quarantineOldOwner: only the node that runs the move can shut itself out.
Quarantine ==
    \/ job.from = job.on /\ quarantined' = quarantined \cup {job.on}
    \/ (job.from # job.on \/ "quarantine" \in Faults) /\ UNCHANGED quarantined

\* DrainPIDOn: the instance stops and its record is released; none is fine as well.
Drain ==
    /\ job.at = "drain" /\ owner \in {job.from, None}
    /\ Gone
    /\ Quarantine
    /\ Goto("activate")
    /\ UNCHANGED <<up, store, inbox, missed, ended, dropped, bounds>>

\* The drain fails or the battle has another owner: resumeOldOwner.
DrainFails ==
    /\ job.at = "drain"
    /\ owner \notin {job.from, None} \/ "drain" \in Faults
    /\ \/ life = "live" /\ LeaveWindow
       \/ (life # "live" \/ "answer" \in Faults) /\ UNCHANGED <<clock, window>>
    /\ Over
    /\ UNCHANGED <<owner, epoch, life, frame, roster, seating, pernode, ended,
                   dropped, bounds>>

\* The epoch it runs at is not lower than the one it was exported at (ErrStaleEpoch).
Activated(e) ==
    \/ e < state.epoch /\ Over
    \/ /\ e >= state.epoch
       /\ job' = Placed("verify", e)
       /\ UNCHANGED state

\* ActivatePIDOn: starts the battle on the target, or finds it there.
ActivateTarget ==
    /\ job.at = "activate"
    /\ \/ /\ Claimable(job.to) /\ GateAllows(job.to)
          /\ Take(job.to) /\ Started(job.to)
          /\ Activated(epoch')
          /\ UNCHANGED <<up, quarantined>>
       \/ /\ life = "live" /\ owner = job.to
          /\ Activated(epoch)
          /\ UNCHANGED <<instance, pernode>>
    /\ UNCHANGED <<ended, state, dropped, bounds>>

\* The fence, the gate, the quarantine, another owner or a lost node refuses.
ActivateFails ==
    /\ job.at = "activate"
    /\ \/ /\ Claimable(job.to) /\ GateAllows(job.to) /\ Fenced(job.to)
          /\ Take(job.to) /\ Refuse
          /\ UNCHANGED <<up, store, quarantined>>
       \/ /\ \/ "activate" \in Faults \/ job.to \notin up \/ job.to \in quarantined
             \/ ledger = "recorded" /\ job.to \notin missed
             \/ life = "live" /\ owner # job.to
          /\ UNCHANGED <<instance, pernode, dropped>>
    /\ Over
    /\ UNCHANGED <<ended, bounds>>

VerifyMatches_NodeOnly == owner = job.to
VerifyMatches == owner = job.to /\ epoch = job.epoch

\* VerifyPIDOn: owner and epoch are still what the activation returned.
Verify ==
    /\ job.at = "verify"
    /\ Over
    /\ UNCHANGED <<instance, pernode, ended, dropped, bounds>>
-------------------------------------------------------------------------------
(* Time and crashes *)

QuarantineEnds(n) ==
    /\ n \in quarantined
    /\ quarantined' = quarantined \ {n}
    /\ UNCHANGED <<instance, up, store, inbox, missed, ended, migration, bounds>>

MissEnds(n) ==
    /\ n \in missed
    /\ missed' = missed \ {n}
    /\ UNCHANGED <<instance, up, store, inbox, quarantined, ended, migration, bounds>>

\* A node is lost with everything it has in memory, what was staged for a move included;
\* its record stays until it runs out.
Crash(n) ==
    /\ n \in up /\ crashes < MaxCrashes
    /\ crashes' = crashes + 1
    /\ up' = up \ {n}
    /\ store' = [store EXCEPT ![n] = 0]
    /\ inbox' = [inbox EXCEPT ![n] = None]
    /\ quarantined' = quarantined \ {n} /\ missed' = missed \ {n}
    /\ IF owner = n /\ life = "live"
       THEN /\ life' = "dead" /\ frame' = 0 /\ roster' = {}
            /\ clock' = "paused" /\ window' = "closed" /\ seating' = "closed"
       ELSE UNCHANGED <<life, frame, roster, clock, window, seating>>
    /\ IF Moving /\ job.on = n THEN Over ELSE UNCHANGED <<job, state>>
    /\ dropped' = IF Moving /\ job.to = n /\ job.at # "verify" THEN "yes" ELSE dropped
    /\ UNCHANGED <<owner, epoch, ended, moves>>

Restart(n) ==
    /\ n \notin up
    /\ up' = up \cup {n}
    /\ UNCHANGED <<instance, store, inbox, quarantined, missed, ended, migration, bounds>>
-------------------------------------------------------------------------------
Move ==
    \/ Export \/ ExportFails \/ Deliver \/ DeliverFails \/ Drain \/ DrainFails
    \/ ActivateTarget \/ ActivateFails \/ Verify

Next ==
    \/ Tick \/ SeatingEnds \/ Settle
    \/ Move
    \/ \E n, to \in Nodes : MoveStart(n, to)
    \/ \E n \in Nodes :
          Activate(n) \/ QuarantineEnds(n) \/ MissEnds(n) \/ Crash(n) \/ Restart(n)

Spec == Init /\ [][Next]_vars

\* The calls of a move have deadlines, the session ticks, a cached miss runs out.
Fairness ==
    /\ WF_vars(Move) /\ WF_vars(Tick) /\ WF_vars(SeatingEnds)
    /\ WF_vars(frame = MaxFrames /\ Settle)
    /\ \A n \in Nodes : WF_vars(MissEnds(n))

LiveSpec == Spec /\ Fairness
-------------------------------------------------------------------------------
TypeOK ==
    /\ owner \in Nodes \cup {None} /\ epoch \in Nat
    /\ life \in {"none", "live", "dead"}
    /\ frame \in 0..MaxFrames /\ roster \in SUBSET Players
    /\ clock \in {"running", "paused"}
    /\ window \in {"open", "closed"} /\ seating \in {"open", "closed"}
    /\ up \in SUBSET Nodes /\ quarantined \in SUBSET Nodes /\ missed \in SUBSET Nodes
    /\ store \in [Nodes -> 0..MaxFrames]
    /\ inbox \in [Nodes -> State \cup {None}]
    /\ ledger \in {"absent", "recorded"} /\ result \in SUBSET (SUBSET Players)
    /\ job \in Job \cup {Idle} /\ state \in State \cup {None} /\ dropped \in {"yes", "no"}
    /\ moves \in Nat /\ crashes \in Nat

Carried == frame >= state.frame /\ roster = state.roster

\* A move that reports success has brought the state to the target, unless the battle has
\* ended meanwhile or what was staged has gone: lost on its way, with the target, or at
\* the fence.
MoveCarriesState ==
    [][Verify /\ VerifyMatches =>
          life # "live" \/ Carried \/ dropped = "yes" \/ result # {}]_vars

\* The inductive invariant behind it: where the staged state is at each place of a move.
Forgiven == dropped = "yes" \/ result # {}
OnTarget == life = "live" /\ owner = job.to

OwnerFormed == (owner = None <=> life = "none") /\ (owner = None => epoch = 0)
JobFormed ==
    Moving =>
        /\ job.from # job.to
        /\ job.at # "export" => state \in State
StagedForDrain ==
    job.at = "drain" => Forgiven \/ inbox[job.to] = state \/ OnTarget
StagedForStart ==
    job.at = "activate" =>
        \/ Forgiven
        \/ inbox[job.to] = state /\ ~OnTarget
        \/ OnTarget /\ Carried
StartedForVerify ==
    job.at = "verify" =>
        \/ Forgiven
        \/ /\ owner # None /\ epoch >= job.epoch
           /\ OnTarget /\ epoch = job.epoch => Carried

\* Outside a migration window an instance plays, or is still waiting for its players.
ClockTurns ==
    life = "live" /\ window = "closed" => clock = "running" \/ seating = "open"

MoveInv ==
    TypeOK /\ OwnerFormed /\ JobFormed /\ StagedForDrain /\ StagedForStart
           /\ StartedForVerify /\ ClockTurns

\* migrate.go:131: a move that is given up does not leave the old owner with its timers
\* and its clock held.
AbortedMoveResumes == life = "live" /\ window = "open" => Moving

\* An entry in the record of ended battles is for good: the nodes that still let the battle
\* be activated only get fewer, and only one of them can start it, or one whose lookup
\* fails.
RecordHolds ==
    [][ledger = "recorded" =>
          /\ ledger' = "recorded" /\ missed' \subseteq missed
          /\ life # "live" /\ life' = "live" => owner' \in missed \/ "lookup" \in Faults]_vars

\* A battle on record as ended may be activated again while a miss is cached, but not
\* for ever: in the end nothing runs, unless an aborted move has left it in its window.
RevivalEnds == ledger = "recorded" ~> [](life # "live" \/ window = "open")
===============================================================================
