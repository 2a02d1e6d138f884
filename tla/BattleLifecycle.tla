--------------------------- MODULE BattleLifecycle ---------------------------
(* One battle on the node that runs it: the connections its players hold           *)
(* (stream/registry.go), the bridge that turns them into messages                  *)
(* (stream/bridge.go) and the battle actor that handles those                      *)
(* (actor/battle_*.go). The actor handles one message at a time; the connections   *)
(* live on goroutines of their own, which take the registry's lock and enqueue a   *)
(* message in two steps.                                                           *)
EXTENDS Naturals, Sequences, FiniteSets

CONSTANTS
    Players,        \* the roster the match was made with
    Conns,          \* connections to the frame faces of this node
    UsedBy,         \* the player whose ticket a connection presents
    None,
    MaxFrames,      \* b.cfg.MaxFrames
    SnapshotEvery,  \* b.cfg.SnapshotEvery
    MaxOpens,       \* bound: connections opened over the life of the battle
    MaxMoves,       \* bound: migration windows opened
    Faults          \* "push": a push finds its connection dead;
                    \* "pause": the session cannot be paused for seating;
                    \* "export": the state cannot be exported

ASSUME BattleAssumption ==
    /\ UsedBy \in [Conns -> Players]
    /\ None \notin Players \cup Conns
    /\ MaxFrames \in Nat \ {0} /\ SnapshotEvery \in Nat \ {0}
    /\ MaxOpens \in Nat /\ MaxMoves \in Nat

VARIABLES
    \* the battle actor
    roster,     \* b.players
    out,        \* players eliminated so far (history)
    met,        \* players who have had a connection: the session may have their input
    mark,       \* b.offline: no entry, an entry without or with a cancel function
    seating, seated,
    window,     \* b.migration
    outcome,    \* what settle recorded; the actor stops there
    \* its timers and its mailbox
    timer,      \* offline timers that have not fired or been cancelled
    seatTimer,
    mailbox,
    \* the lockstep session
    clock, frame,
    \* registry, transport and frame handlers
    conns,      \* r.conns: the current connection of a player
    ends,       \* r.endpoints: connections whose end can still be traced to the player
    link, at,   \* the transport's state of a connection; the place in its goroutine
    \* bounds
    opens, moves

actor    == <<roster, out, met, mark, seating, seated, window, outcome>>
timers   == <<timer, seatTimer>>
session  == <<clock, frame>>
registry == <<conns, ends>>
bounds   == <<opens, moves>>
vars == <<actor, timers, mailbox, session, registry, link, at, bounds>>

Online(p)   == [kind |-> "online", player |-> p]
Offline(p)  == [kind |-> "offline", player |-> p]
Timeout(p)  == [kind |-> "timeout", player |-> p]
SeatExpired == [kind |-> "seat", player |-> None]
Message == [kind : {"online", "offline", "timeout"}, player : Players]
               \cup {SeatExpired}

Outcome == [winner : Players \cup {None}, players : SUBSET Players]

ASSUME NoneAssumption == None \notin Outcome

\* The actor has just been activated for the Admit in its mailbox.
Init ==
    /\ roster = {} /\ out = {} /\ met = {}
    /\ mark = [p \in Players |-> "none"]
    /\ seating = FALSE /\ seated = {} /\ window = FALSE /\ outcome = None
    /\ timer = {} /\ seatTimer = FALSE /\ mailbox = <<>>
    /\ clock = "running" /\ frame = 0
    /\ conns = [p \in Players |-> None] /\ ends = {}
    /\ link = [c \in Conns |-> "down"] /\ at = [c \in Conns |-> "idle"]
    /\ opens = 0 /\ moves = 0

Admitted == roster # {} \/ out # {}
Stopped  == outcome # None
Running  == Admitted /\ ~Stopped
-------------------------------------------------------------------------------
(* Settlement and elimination, as the handlers call them *)

\* settle: record, close every connection of the battle, stop. The message queue goes
\* with the actor; the endpoints of connections taken over before stay traceable.
Settle(w) ==
    /\ outcome' = [winner |-> w, players |-> roster]
    /\ seating' = FALSE /\ seatTimer' = FALSE /\ timer' = {}
    /\ mailbox' = <<>>
    /\ clock' = "stopped"
    /\ LET closed == {conns[p] : p \in Players} \ {None} IN
       /\ link' = [c \in Conns |-> IF c \in closed /\ link[c] = "up"
                                   THEN "closed" ELSE link[c]]
       /\ ends' = ends \ closed
    /\ conns' = [p \in Players |-> None]

Clear(p) ==
    /\ mark' = [mark EXCEPT ![p] = "none"]
    /\ timer' = timer \ {p}

\* eliminate: the last one standing wins on the spot, with the full roster on record.
Eliminate(p) ==
    /\ out' = out \cup {p}
    /\ mark' = [mark EXCEPT ![p] = "none"]
    /\ \/ \E w \in roster \ {p} :
             /\ roster \ {p} = {w}
             /\ Settle(w)
             /\ UNCHANGED roster
       \/ /\ Cardinality(roster \ {p}) # 1
          /\ roster' = roster \ {p}
          /\ timer' = timer \ {p}
          /\ mailbox' = Tail(mailbox)
          /\ UNCHANGED <<seating, outcome, seatTimer, clock, registry, link>>

StartBattle_NoResume ==
    IF seating
    THEN seating' = FALSE /\ seatTimer' = FALSE /\ UNCHANGED clock
    ELSE UNCHANGED <<seating, seatTimer, clock>>

\* startBattle: ends the seating window once and lets the session's clock run.
StartBattle ==
    IF seating
    THEN seating' = FALSE /\ seatTimer' = FALSE /\ clock' = "running"
    ELSE UNCHANGED <<seating, seatTimer, clock>>
-------------------------------------------------------------------------------
(* Messages of the matcher and of the migration *)

Admit ==
    /\ ~Admitted /\ ~Stopped
    /\ roster' = Players
    /\ \/ seating' = TRUE /\ seatTimer' = TRUE /\ clock' = "paused"
       \/ "pause" \in Faults /\ UNCHANGED <<seating, seatTimer, clock>>
    /\ UNCHANGED <<out, met, mark, seated, window, outcome, timer, mailbox, frame,
                   registry, link, at, bounds>>

Marked == {p \in Players : mark[p] # "none"}

\* onPrepareMigration: timers held, clock paused; an export that fails leaves again.
PrepareMigration ==
    /\ Running /\ moves < MaxMoves
    /\ moves' = moves + 1
    /\ window' = TRUE
    /\ mark' = [p \in Players |-> IF mark[p] = "none" THEN "none" ELSE "held"]
    /\ timer' = {}
    /\ clock' = "paused"
    /\ UNCHANGED <<roster, out, met, seating, seated, outcome, seatTimer, mailbox,
                   frame, registry, link, at, opens>>

Resumed_Held ==
    /\ window' = FALSE /\ UNCHANGED <<mark, timer>>
    /\ clock' = "running"

Resumed ==
    /\ window' = FALSE
    /\ mark' = [p \in Players |-> IF mark[p] = "none" THEN "none" ELSE "armed"]
    /\ timer' = Marked
    /\ clock' = "running"

PrepareMigrationFails ==
    /\ "export" \in Faults
    /\ Running /\ moves < MaxMoves
    /\ moves' = moves + 1
    /\ Resumed
    /\ UNCHANGED <<roster, out, met, seating, seated, outcome, seatTimer, mailbox,
                   frame, registry, link, at, opens>>

ResumeMigration ==
    /\ Running /\ window
    /\ Resumed
    /\ UNCHANGED <<roster, out, met, seating, seated, outcome, seatTimer, mailbox,
                   frame, registry, link, at, bounds>>
-------------------------------------------------------------------------------
(* The mailbox *)

Receive(m) == Running /\ mailbox # <<>> /\ Head(mailbox) = m

\* onPlayerOnline: takes a seat and clears the mark.
OnOnline(p) ==
    /\ Receive(Online(p))
    /\ mailbox' = Tail(mailbox)
    /\ IF p \in roster
       THEN /\ Clear(p)
            /\ seated' = IF seating THEN seated \cup {p} ELSE seated
            /\ IF Cardinality(seated') >= Cardinality(roster)
               THEN StartBattle
               ELSE UNCHANGED <<seating, seatTimer, clock>>
       ELSE UNCHANGED <<mark, timer, seated, seating, seatTimer, clock>>
    /\ UNCHANGED <<roster, out, met, window, outcome, frame, registry, link, at, bounds>>

OnOffline_KeepSeat(p) ==
    /\ Receive(Offline(p))
    /\ mailbox' = Tail(mailbox)
    /\ IF p \notin roster \/ mark[p] # "none" \/ conns[p] # None
       THEN UNCHANGED <<mark, timer>>
       ELSE mark' = [mark EXCEPT ![p] = "armed"] /\ timer' = timer \cup {p}
    /\ UNCHANGED <<roster, out, met, seating, seated, window, outcome, seatTimer,
                   session, registry, link, at, bounds>>

\* onPlayerOffline: gives the seat back and marks the player, unless he is marked
\* already or the registry says that he holds another connection.
OnOffline(p) ==
    /\ Receive(Offline(p))
    /\ mailbox' = Tail(mailbox)
    /\ seated' = IF seating THEN seated \ {p} ELSE seated
    /\ IF p \notin roster \/ mark[p] # "none" \/ conns[p] # None
       THEN UNCHANGED <<mark, timer>>
       ELSE IF window
       THEN mark' = [mark EXCEPT ![p] = "held"] /\ UNCHANGED timer
       ELSE mark' = [mark EXCEPT ![p] = "armed"] /\ timer' = timer \cup {p}
    /\ UNCHANGED <<roster, out, met, seating, window, outcome, seatTimer, session,
                   registry, link, at, bounds>>

\* onOfflineTimeout: eliminates a player who is still marked and not connected.
TimeoutIgnored(p) ==
    /\ Receive(Timeout(p))
    /\ mailbox' = Tail(mailbox)
    /\ \/ mark[p] = "none" /\ UNCHANGED <<mark, timer>>
       \/ mark[p] # "none" /\ (p \notin roster \/ conns[p] # None) /\ Clear(p)
    /\ UNCHANGED <<roster, out, met, seating, seated, window, outcome, seatTimer,
                   session, registry, link, at, bounds>>

TimeoutEliminates(p) ==
    /\ Receive(Timeout(p))
    /\ mark[p] # "none" /\ p \in roster /\ conns[p] = None
    /\ Eliminate(p)
    /\ UNCHANGED <<met, seated, window, frame, at, bounds>>

\* onSeatWindowExpired
OnSeatExpired ==
    /\ Receive(SeatExpired)
    /\ mailbox' = Tail(mailbox)
    /\ StartBattle
    /\ UNCHANGED <<roster, out, met, mark, seated, window, outcome, timer, frame,
                   registry, link, at, bounds>>

OfflineFires(p) ==
    /\ Running /\ p \in timer
    /\ timer' = timer \ {p}
    /\ mailbox' = Append(mailbox, Timeout(p))
    /\ UNCHANGED <<actor, seatTimer, session, registry, link, at, bounds>>

SeatFires ==
    /\ Running /\ seatTimer
    /\ seatTimer' = FALSE
    /\ mailbox' = Append(mailbox, SeatExpired)
    /\ UNCHANGED <<actor, timer, session, registry, link, at, bounds>>
-------------------------------------------------------------------------------
(* The frame clock *)

\* A snapshot names the winner: a player who has reached the end of the track and, at the
\* last frame, whoever leads. The simulator goes by positions and knows nothing of
\* eliminations; any player it has had input from may be the one.
LastFrame  == frame + 1 >= MaxFrames
IsSnapshot == (frame + 1) % SnapshotEvery = 0
Winners    == IF LastFrame THEN met \cup {None} ELSE met

FrameResult ==
    /\ Running /\ clock = "running"
    /\ frame' = frame + 1
    /\ \/ /\ ~IsSnapshot \/ ~LastFrame
          /\ UNCHANGED <<seating, outcome, timers, mailbox, clock, registry, link>>
       \/ /\ IsSnapshot
          /\ \E w \in Winners : Settle(w)
    /\ UNCHANGED <<roster, out, met, mark, seated, window, at, bounds>>
-------------------------------------------------------------------------------
(* Connections: the goroutine of a connection *)

\* A client connects. Tickets are given out by Admit.
Open(c) ==
    /\ Admitted /\ opens < MaxOpens
    /\ link[c] = "down" /\ at[c] = "idle"
    /\ link' = [link EXCEPT ![c] = "up"]
    /\ opens' = opens + 1
    /\ UNCHANGED <<actor, timers, mailbox, session, registry, at, moves>>

\* A frame operation: the ticket's battle has not ended as far as the record says.
Identify(c) ==
    /\ link[c] = "up" /\ at[c] = "idle" /\ ~Stopped
    /\ at' = [at EXCEPT ![c] = "register"]
    /\ UNCHANGED <<actor, timers, mailbox, session, registry, link, bounds>>

\* Record, Register: a new connection takes over and closes the old one.
Register(c) ==
    /\ at[c] = "register"
    /\ LET p == UsedBy[c] IN
       /\ conns' = [conns EXCEPT ![p] = c]
       /\ met' = met \cup ({p} \cap roster)
       /\ IF conns[p] = c
          THEN at' = [at EXCEPT ![c] = "idle"] /\ UNCHANGED <<ends, link>>
          ELSE /\ at' = [at EXCEPT ![c] = "online"]
               /\ ends' = ends \cup {c}
               /\ link' = [d \in Conns |-> IF d = conns[p] /\ link[d] = "up"
                                           THEN "closed" ELSE link[d]]
    /\ UNCHANGED <<roster, out, mark, seating, seated, window, outcome, timers, mailbox,
                   session, bounds>>

\* Drop: the client, the network or an idle timeout ends the connection.
Drop(c) ==
    /\ link[c] = "up"
    /\ link' = [link EXCEPT ![c] = "closed"]
    /\ UNCHANGED <<actor, timers, mailbox, session, registry, at, bounds>>

Disconnect_AnyConn(c) ==
    /\ link[c] = "closed" /\ at[c] = "idle"
    /\ link' = [link EXCEPT ![c] = "down"]
    /\ IF c \in ends
       THEN /\ ends' = ends \ {c}
            /\ conns' = [conns EXCEPT ![UsedBy[c]] = None]
            /\ at' = [at EXCEPT ![c] = "offline"]
       ELSE UNCHANGED <<registry, at>>
    /\ UNCHANGED <<actor, timers, mailbox, session, bounds>>

\* The callback for a closed connection.
Disconnect(c) ==
    /\ link[c] = "closed" /\ at[c] = "idle"
    /\ link' = [link EXCEPT ![c] = "down"]
    /\ IF c \in ends
       THEN /\ ends' = ends \ {c}
            /\ conns' = [conns EXCEPT ![UsedBy[c]] = IF @ = c THEN None ELSE @]
            /\ at' = [at EXCEPT ![c] = "offline"]
       ELSE UNCHANGED <<registry, at>>
    /\ UNCHANGED <<actor, timers, mailbox, session, bounds>>

\* notify: to the actor if it still runs here, into the void otherwise.
Notify(c) ==
    /\ at[c] \in {"online", "offline"}
    /\ at' = [at EXCEPT ![c] = "idle"]
    /\ mailbox' = IF Stopped THEN mailbox
                  ELSE Append(mailbox, [kind |-> at[c], player |-> UsedBy[c]])
    /\ UNCHANGED <<actor, timers, session, registry, link, bounds>>

PushFails_Forget(p) ==
    /\ "push" \in Faults
    /\ conns[p] # None /\ link[conns[p]] # "up"
    /\ conns' = [conns EXCEPT ![p] = None]
    /\ ends' = ends \ {conns[p]}
    /\ UNCHANGED <<actor, timers, mailbox, session, link, at, bounds>>

\* A push that finds the connection dead takes it out of the registry.
PushFails(p) ==
    /\ "push" \in Faults
    /\ conns[p] # None /\ link[conns[p]] # "up"
    /\ conns' = [conns EXCEPT ![p] = None]
    /\ UNCHANGED <<actor, timers, mailbox, session, ends, link, at, bounds>>
-------------------------------------------------------------------------------
Handle ==
    \/ \E p \in Players :
          OnOnline(p) \/ OnOffline(p) \/ TimeoutIgnored(p) \/ TimeoutEliminates(p)
    \/ OnSeatExpired

Connection(c) == Register(c) \/ Notify(c) \/ Disconnect(c)

Next ==
    \/ Admit \/ PrepareMigration \/ PrepareMigrationFails \/ ResumeMigration
    \/ Handle
    \/ \E p \in Players : OfflineFires(p) \/ PushFails(p)
    \/ SeatFires \/ FrameResult
    \/ \E c \in Conns : Open(c) \/ Identify(c) \/ Drop(c) \/ Connection(c)

Spec == Init /\ [][Next]_vars

\* The actor and what sends to it run on: messages in a mailbox are handled, timers fire,
\* a session that is not paused ticks, and the orchestrator gives up a move it cannot
\* finish. Connections, clients and the network owe nothing.
Progress ==
    \/ Admit \/ Handle \/ FrameResult \/ SeatFires \/ ResumeMigration
    \/ \E p \in Players : OfflineFires(p)

LiveSpec == Spec /\ WF_vars(Progress)
-------------------------------------------------------------------------------
(* Properties *)

TypeOK ==
    /\ roster \subseteq Players /\ out \subseteq Players /\ met \subseteq Players
    /\ mark \in [Players -> {"none", "held", "armed"}]
    /\ seating \in BOOLEAN /\ seated \subseteq Players
    /\ window \in BOOLEAN /\ outcome \in Outcome \cup {None}
    /\ timer \subseteq Players /\ seatTimer \in BOOLEAN
    /\ mailbox \in Seq(Message)
    /\ clock \in {"running", "paused", "stopped"} /\ frame \in Nat
    /\ conns \in [Players -> Conns \cup {None}] /\ ends \subseteq Conns
    /\ link \in [Conns -> {"down", "up", "closed"}]
    /\ at \in [Conns -> {"idle", "register", "online", "offline"}]
    /\ opens \in Nat /\ moves \in Nat

Queued(m) == \E i \in 1..Len(mailbox) : mailbox[i] = m

\* Nothing about the presence of p is on its way to the actor.
Settled(p) ==
    /\ ~Queued(Online(p)) /\ ~Queued(Offline(p))
    /\ \A c \in Conns :
          UsedBy[c] = p => at[c] = "idle" /\ ~(c \in ends /\ link[c] = "closed")

\* No disconnection is lost between registry, bridge and mailbox: a player of the roster
\* who was connected and is not any more is marked as offline, however his connections
\* replaced one another and in whatever order their events arrived.
AbsentMarked ==
    \A p \in roster :
        Running /\ p \in met /\ conns[p] = None /\ Settled(p) => mark[p] # "none"

\* A mark runs out: outside a migration window its timer is running or its timeout is in
\* the mailbox; inside no timer runs.
MarksTimed ==
    Running =>
        IF window THEN timer = {}
        ELSE \A p \in Players :
                mark[p] # "none" => mark[p] = "armed" /\ (p \in timer \/ Queued(Timeout(p)))

\* The seats counted against the roster are seats of players in it who are not marked
\* as offline.
SeatsHeldByPresent ==
    seating => seated \subseteq {p \in roster : mark[p] = "none"}

\* Until the players are admitted nobody can have connected.
Fresh ==
    ~Admitted =>
        /\ met = {} /\ seated = {} /\ timer = {} /\ ~window
        /\ \A p \in Players : mark[p] = "none"
        /\ \A c \in Conns : link[c] = "down" /\ at[c] = "idle"

\* A current connection can be traced to its player, and one that is traceable without
\* being current is closed: its end is still to come.
ConnectionsTraced ==
    /\ \A p \in Players : conns[p] # None => conns[p] \in ends /\ UsedBy[conns[p]] = p
    /\ \A c \in Conns :
          /\ c \in ends \/ at[c] = "register" => link[c] # "down"
          /\ c \in ends /\ conns[UsedBy[c]] # c => link[c] = "closed"
          /\ Running /\ at[c] = "online" => c \in ends

\* The end of a connection of p is on its way to the mailbox.
EndPending(p) ==
    \E c \in Conns :
        UsedBy[c] = p /\ (at[c] = "offline" \/ (c \in ends /\ link[c] = "closed"))

OfflineIsLast(p) ==
    \E i \in 1..Len(mailbox) :
        /\ mailbox[i] = Offline(p)
        /\ \A j \in (i + 1)..Len(mailbox) : mailbox[j] # Online(p)

\* Who has been connected and is not is marked with nothing queued to clear the mark, or
\* a disconnection will be the last the actor hears of him.
AbsenceTracked ==
    Running =>
        \A p \in roster \cap met :
            \/ conns[p] # None
            \/ EndPending(p)
            \/ OfflineIsLast(p)
            \/ (mark[p] # "none" /\ ~Queued(Online(p)))

\* Who is connected, counted and marked hangs together.
PresenceInv ==
    /\ TypeOK /\ Fresh /\ ConnectionsTraced /\ AbsenceTracked
    /\ SeatsHeldByPresent /\ MarksTimed

\* A clock that stands still is started again: by the end of the migration window, or by
\* the expiry of the seating window, whose timer or message is still there.
ClockKept ==
    ~Stopped /\ clock # "running" =>
        window \/ (seating /\ (seatTimer \/ Queued(SeatExpired)))

\* No snapshot at or after the last frame is survived.
SnapshotsObeyed == ~Stopped => \A k \in MaxFrames..frame : k % SnapshotEvery # 0

\* The inductive invariant of the proofs.
LifecycleInv == PresenceInv /\ ClockKept /\ SnapshotsObeyed

\* A battle plays on at most to the first snapshot after its last frame.
FramesBounded == ~Stopped => frame < MaxFrames + SnapshotEvery

\* Every battle ends: no order of takeovers, disconnections, migration windows and timers
\* leaves it with a clock nobody starts again.
BattleEnds == Admitted ~> Stopped
===============================================================================
