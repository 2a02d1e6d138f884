-------------------------- MODULE MatchAdmission --------------------------
(***************************************************************************)
(* The matcher's queue and the admission of formed matches                 *)
(* (services/matcher/internal/biz/handler).  Players and parties queue     *)
(* tickets, the match making engine (external, in redis) turns tickets     *)
(* into matches or ends them, and for each ticket a goroutine of the       *)
(* instance that queued it waits for its end.  The first goroutine that    *)
(* sees a match admits it: it asks a battle node for entry tickets, links  *)
(* the players to the battle and publishes the start; when a step fails    *)
(* every ticket of the match is queued again, at most MaxRequeue times.    *)
(*                                                                         *)
(* Calls of one player are serial: they come from his actor, which waits   *)
(* for the reply.  A redis or engine call is one step.                     *)
(***************************************************************************)
EXTENDS FlexTeams, SequencesExt

CONSTANTS Players, Parties, Instances,
          MaxRequeue,   \* how often a ticket is queued again
          Faults,       \* which of "redis", "crash" may happen
          MaxFaults,    \* bound: faults that happen
          MaxCalls      \* bound: calls the players make

NoParty == "none"

ASSUME MatchAssumption ==
    /\ NoParty \notin Parties
    /\ MaxRequeue \in Nat
    /\ Faults \subseteq {"redis", "crash"}
    /\ MaxFaults \in Nat
    /\ MaxCalls \in Nat
    /\ Players \subseteq DOMAIN Level /\ \A p \in DOMAIN Level : Level[p] \in Nat

VARIABLES
    tickets,    \* engine: the tickets, by number
    matches,    \* engine: the matches formed, by number
    roster,     \* engine: the members of each party
    playerMap,  \* redis: the ticket a player is mapped to, 0 for none
    partyMap,   \* redis: the ticket a party is mapped to, 0 for none
    settled,    \* redis: the matches some goroutine has claimed
    link,       \* redis: the match a player is linked to, 0 for none
    watch,      \* the goroutine of each ticket
    job,        \* the admission of each match
    call,       \* the call of each player under way
    calls,      \* how many calls were made
    faults,     \* which faults happened
    started,    \* the matches whose start was published
    failed      \* the tickets whose failure was published

engine == <<tickets, matches, roster>>
redis == <<playerMap, partyMap, settled, link>>
published == <<started, failed>>
vars == <<engine, redis, watch, job, call, calls, faults, published>>

Nobody == "nobody"
Idle == [op |-> "idle"]
Tickets == DOMAIN tickets
Matches == DOMAIN matches
TicketsOf(m) == matches[m].red \cup matches[m].blue
PlayersOf(m) == UNION {tickets[t].players : t \in TicketsOf(m)}
Searching == {t \in Tickets : tickets[t].state = "searching"}

\* Parties live in redis: one may have been made before.
Init ==
    /\ tickets = <<>>
    /\ matches = <<>>
    /\ roster \in [Parties -> {{}} \cup {{p} : p \in Players}]
    /\ \A g, h \in Parties : g # h => roster[g] \cap roster[h] = {}
    /\ playerMap = [p \in Players |-> 0]
    /\ partyMap = [g \in Parties |-> 0]
    /\ settled = {}
    /\ link = [p \in Players |-> 0]
    /\ watch = <<>>
    /\ job = <<>>
    /\ call = [p \in Players |-> Idle]
    /\ calls = 0
    /\ faults = {}
    /\ started = {}
    /\ failed = {}

----------------------------------------------------------------------------
\* The engine (external).

NewTicket(players, party, count, from) ==
    [players |-> players, party |-> party, count |-> count, from |-> from,
     state |-> "searching", match |-> 0]

\* StartMatchmaking: a new ticket, which nobody watches yet.
Start(players, party, count, from) ==
    /\ tickets' = Append(tickets, NewTicket(players, party, count, from))
    /\ watch' = Append(watch, [step |-> "none"])

\* A round over the waiting tickets: the match function's matches complete
\* their tickets.
Tick ==
    LET batch == {[id |-> t, players |-> tickets[t].players] : t \in Searching}
        Ids(side) == {t.id : t \in side}
    IN  \E formed \in {SetToSeq({[red |-> Ids(m.red), blue |-> Ids(m.blue)] : m \in Run(batch)})} :
          LET MatchOf(t) == {k \in DOMAIN formed : t \in formed[k].red \cup formed[k].blue}
          IN  /\ Cardinality(Searching) >= 2
              /\ formed # <<>>
              /\ matches' = matches \o formed
              /\ job' = job \o [k \in DOMAIN formed |-> [step |-> "none"]]
              /\ tickets' = [t \in Tickets |->
                     IF MatchOf(t) = {} THEN tickets[t]
                     ELSE [tickets[t] EXCEPT !.state = "completed",
                                             !.match = Len(matches) + Max(MatchOf(t))]]
              /\ UNCHANGED <<roster, redis, watch, call, calls, faults, published>>

\* A ticket that waited too long.
TimeOut == \E t \in Searching :
    /\ tickets' = [tickets EXCEPT ![t].state = "failed"]
    /\ UNCHANGED <<matches, roster, redis, watch, job, call, calls, faults, published>>

----------------------------------------------------------------------------
\* The calls of the players.

Fault(kind) ==
    /\ kind \in Faults \ faults
    /\ Cardinality(faults) < MaxFaults
    /\ faults' = faults \cup {kind}

\* A redis or engine call that may be refused: the variables it would change
\* stay as they are.
Refused(unchanged) == Fault("redis") /\ UNCHANGED unchanged

Begin(p, c) ==
    /\ call[p] = Idle
    /\ calls < MaxCalls
    /\ calls' = calls + 1
    /\ call' = [call EXCEPT ![p] = c]

Return(p) == call' = [call EXCEPT ![p] = Idle]

\* The goroutine of a ticket starts in the instance that serves the call.
Watch(t, p) == \E i \in Instances :
    watch' = [watch EXCEPT ![t] = [step |-> "wait", at |-> i, player |-> p]]

\* QueueMatch: refused while the player is mapped; the error of the lookup is
\* not looked at.
QueueMatch(p) ==
    /\ \/ playerMap[p] = 0 /\ UNCHANGED faults
       \/ Fault("redis")
    /\ Begin(p, [op |-> "queue"])
    /\ UNCHANGED <<engine, redis, watch, job, published>>

QueueStart(p) ==
    /\ call[p].op = "queue"
    /\ \/ /\ Start({p}, NoParty, 0, 0)
          /\ call' = [call EXCEPT ![p] = [op |-> "map", ticket |-> Len(tickets) + 1]]
          /\ UNCHANGED faults
       \/ Refused(<<tickets, watch>>) /\ Return(p)
    /\ UNCHANGED <<matches, roster, redis, job, calls, published>>

\* The mapping first, then the goroutine; a ticket whose mapping failed has
\* neither.
QueueMap(p) ==
    LET c == call[p] IN
    /\ c.op = "map"
    /\ \/ /\ playerMap' = [playerMap EXCEPT ![p] = c.ticket]
          /\ Watch(c.ticket, p)
          /\ UNCHANGED faults
       \/ Refused(<<playerMap, watch>>)
    /\ Return(p)
    /\ UNCHANGED <<engine, partyMap, settled, link, job, calls, published>>

\* CancelMatch: the ticket the player is mapped to.
CancelMatch(p) ==
    /\ playerMap[p] # 0
    /\ Begin(p, [op |-> "cancel", ticket |-> playerMap[p]])
    /\ UNCHANGED <<engine, redis, watch, job, faults, published>>

Cancelled(t) ==
    tickets' = [tickets EXCEPT ![t].state = IF @ = "searching" THEN "failed" ELSE @]

\* The cancellation of a ticket that has ended may be answered with an error or
\* not.
CancelTicket(p) ==
    LET t == call[p].ticket IN
    /\ call[p].op = "cancel"
    /\ \/ /\ Cancelled(t)
          /\ call' = [call EXCEPT ![p] = [op |-> "unmap"]]
          /\ UNCHANGED faults
       \/ /\ \/ t \notin Searching /\ UNCHANGED faults
             \/ t \in Searching /\ Fault("redis")
          /\ Return(p)
          /\ UNCHANGED tickets
    /\ UNCHANGED <<matches, roster, redis, watch, job, calls, published>>

CancelUnmap(p) ==
    /\ call[p].op = "unmap"
    /\ \/ playerMap' = [playerMap EXCEPT ![p] = 0] /\ UNCHANGED faults
       \/ Refused(playerMap)
    /\ Return(p)
    /\ UNCHANGED <<engine, partyMap, settled, link, watch, job, calls, published>>

\* CreateParty and JoinParty: one call of the engine; a player's actor knows
\* his party and refuses a second one.
InParty(p) == \E g \in Parties : p \in roster[g]

JoinParty(p, g) ==
    /\ call[p] = Idle
    /\ ~InParty(p)
    /\ calls < MaxCalls
    /\ calls' = calls + 1
    /\ roster' = [roster EXCEPT ![g] = @ \cup {p}]
    /\ UNCHANGED <<tickets, matches, redis, watch, job, call, faults, published>>

\* QueueParty: refused while the party is mapped.
QueueParty(p, g) ==
    /\ p \in roster[g]
    /\ \/ partyMap[g] = 0 /\ UNCHANGED faults
       \/ Fault("redis")
    /\ Begin(p, [op |-> "party", party |-> g])
    /\ UNCHANGED <<engine, redis, watch, job, published>>

PartyStart(p) ==
    LET g == call[p].party IN
    /\ call[p].op = "party"
    /\ \/ /\ roster[g] # {}
          /\ Start(roster[g], g, 0, 0)
          /\ call' = [call EXCEPT ![p] =
                         [op |-> "partymap", party |-> g, ticket |-> Len(tickets) + 1]]
          /\ UNCHANGED faults
       \/ Refused(<<tickets, watch>>) /\ Return(p)
    /\ UNCHANGED <<matches, roster, redis, job, calls, published>>

\* The goroutine of a party's ticket is started for who leads the party by now (any
\* member, or nobody when there is none).
PartyMap(p) ==
    LET c == call[p] IN
    /\ c.op = "partymap"
    /\ \/ /\ partyMap' = [partyMap EXCEPT ![c.party] = c.ticket]
          /\ \E leader \in IF roster[c.party] = {} THEN {Nobody} ELSE roster[c.party] :
                Watch(c.ticket, leader)
          /\ UNCHANGED faults
       \/ Refused(<<partyMap, watch>>)
    /\ Return(p)
    /\ UNCHANGED <<engine, playerMap, settled, link, job, calls, published>>

\* LeaveParty: the party's ticket is cancelled and unmapped, then the player
\* leaves; only an error of the last step is looked at.
LeaveParty(p, g) ==
    /\ p \in roster[g]
    /\ \/ /\ Begin(p, [op |-> IF partyMap[g] = 0 THEN "leave" ELSE "leavecancel",
                       party |-> g, ticket |-> partyMap[g]])
          /\ UNCHANGED faults
       \/ /\ Fault("redis")
          /\ Begin(p, [op |-> "leave", party |-> g, ticket |-> 0])
    /\ UNCHANGED <<engine, redis, watch, job, published>>

LeaveCancel(p) ==
    /\ call[p].op = "leavecancel"
    /\ \/ Cancelled(call[p].ticket) /\ UNCHANGED faults
       \/ Refused(tickets)
    /\ call' = [call EXCEPT ![p].op = "leaveunmap"]
    /\ UNCHANGED <<matches, roster, redis, watch, job, calls, published>>

LeaveUnmap(p) ==
    /\ call[p].op = "leaveunmap"
    /\ \/ partyMap' = [partyMap EXCEPT ![call[p].party] = 0] /\ UNCHANGED faults
       \/ Refused(partyMap)
    /\ call' = [call EXCEPT ![p].op = "leave"]
    /\ UNCHANGED <<engine, playerMap, settled, link, watch, job, calls, published>>

Leave(p) ==
    /\ call[p].op = "leave"
    /\ \/ roster' = [roster EXCEPT ![call[p].party] = @ \ {p}] /\ UNCHANGED faults
       \/ Refused(roster)
    /\ Return(p)
    /\ UNCHANGED <<tickets, matches, redis, watch, job, calls, published>>

----------------------------------------------------------------------------
\* The goroutine of a ticket (watchTicket).

Waiting(t, state) == watch[t].step = "wait" /\ tickets[t].state = state

Finish(t) == watch' = [watch EXCEPT ![t].step = "done"]

\* Mutant: the claim is not looked at before the admission.
TrySettle_Unasked(t) ==
    LET m == tickets[t].match IN
    /\ Waiting(t, "completed")
    /\ settled' = settled \cup {m}
    /\ job' = [job EXCEPT ![m] = [step |-> "admit", at |-> watch[t].at,
                                 todo |-> TicketsOf(m)]]
    /\ Finish(t)
    /\ UNCHANGED <<engine, playerMap, partyMap, link, call, calls, faults, published>>

\* Mutant: the match is admitted and the claim never made.
TrySettle_Unclaimed(t) ==
    LET m == tickets[t].match IN
    /\ Waiting(t, "completed")
    /\ m \notin settled
    /\ job' = [job EXCEPT ![m] = [step |-> "admit", at |-> watch[t].at,
                                 todo |-> TicketsOf(m)]]
    /\ Finish(t)
    /\ UNCHANGED <<engine, redis, call, calls, faults, published>>

\* onCompleted: the first to claim the match admits it, the others are done;
\* an error of the claim, made or not, ends the goroutine.
TrySettle(t) ==
    LET m == tickets[t].match IN
    /\ Waiting(t, "completed")
    /\ \/ /\ m \notin settled
          /\ settled' = settled \cup {m}
          /\ job' = [job EXCEPT ![m] = [step |-> "admit", at |-> watch[t].at,
                                       todo |-> TicketsOf(m)]]
          /\ UNCHANGED faults
       \/ /\ m \in settled
          /\ UNCHANGED <<settled, job, faults>>
       \/ /\ settled' \in {settled, settled \cup {m}}
          /\ Refused(job)
    /\ Finish(t)
    /\ UNCHANGED <<engine, playerMap, partyMap, link, call, calls, published>>

\* Mutant: the event is published and the player stays mapped.
TellFailed_KeepMapped(t) ==
    /\ Waiting(t, "failed")
    /\ failed' = failed \cup {t}
    /\ Finish(t)
    /\ UNCHANGED <<engine, redis, job, call, calls, faults, started>>

\* onFailed: the event, then the player's mapping, whatever it points to.
TellFailed(t) ==
    /\ Waiting(t, "failed")
    /\ failed' = failed \cup {t}
    /\ watch' = [watch EXCEPT ![t].step = "unmap"]
    /\ UNCHANGED <<engine, redis, job, call, calls, faults, started>>

Unmap(t) ==
    /\ watch[t].step = "unmap"
    /\ \/ /\ playerMap' = [p \in Players |-> IF p = watch[t].player THEN 0 ELSE playerMap[p]]
          /\ UNCHANGED faults
       \/ Refused(playerMap)
    /\ Finish(t)
    /\ UNCHANGED <<engine, partyMap, settled, link, job, call, calls, published>>

----------------------------------------------------------------------------
\* The admission of a match (admitMatch), in the goroutine that claimed it.

At(m, step) == job[m].step = step
Goto(m, step) == job' = [job EXCEPT ![m].step = step]

\* Tickets of a battle node; or none: too long a wait for a slot, an error (one
\* of the transport after another try at another node) or an empty answer.
Admit(m) ==
    /\ At(m, "admit")
    /\ Goto(m, "link") \/ Goto(m, "requeue")
    /\ UNCHANGED <<engine, redis, watch, call, calls, faults, published>>

\* Redis writes in a loop over some keys, whose errors are not looked at: all
\* of them are made, or with a fault some.
Reaches(keys, all) ==
    \/ keys = all /\ UNCHANGED faults
    \/ keys # all /\ Fault("redis")

Link(m) ==
    /\ At(m, "link")
    /\ \E s \in SUBSET PlayersOf(m) :
          /\ Reaches(s, PlayersOf(m))
          /\ link' = [p \in Players |-> IF p \in s THEN m ELSE link[p]]
    /\ Goto(m, "publish")
    /\ UNCHANGED <<engine, playerMap, partyMap, settled, watch, call, calls, published>>

\* Mutant: the links stay when the start could not be published.
Publish_KeepLinks(m) ==
    /\ At(m, "publish")
    /\ \/ started' = started \cup {m} /\ Goto(m, "done")
       \/ UNCHANGED started /\ Goto(m, "requeue")
    /\ UNCHANGED <<engine, redis, watch, call, calls, faults, failed>>

Publish(m) ==
    /\ At(m, "publish")
    /\ \/ started' = started \cup {m} /\ Goto(m, "done")
       \/ UNCHANGED started /\ Goto(m, "unlink")
    /\ UNCHANGED <<engine, redis, watch, call, calls, faults, failed>>

Unlink(m) ==
    /\ At(m, "unlink")
    /\ \E s \in SUBSET PlayersOf(m) :
          /\ Reaches(s, PlayersOf(m))
          /\ link' = [p \in Players |-> IF p \in s THEN 0 ELSE link[p]]
    /\ Goto(m, "requeue")
    /\ UNCHANGED <<engine, playerMap, partyMap, settled, watch, call, calls, published>>

\* onAdmissionFailed and requeue: ticket after ticket, its failure is
\* published and it is queued again unless it has been too often.
\* Mutant: the first ticket ends the loop.
NextTicket_Return(m, t) == job' = [job EXCEPT ![m].todo = @ \ {t}, ![m].step = "done"]

NextTicket(m, t) ==
    job' = [job EXCEPT ![m].todo = @ \ {t},
                       ![m].step = IF job[m].todo = {t} THEN "done" ELSE "requeue"]

\* Mutant: the count of the old ticket is not carried over.
Requeue_Uncounted(m) ==
    LET t == Min(job[m].todo)
        old == tickets[t]
    IN  /\ At(m, "requeue")
        /\ failed' = failed \cup {t}
        /\ Start(old.players, old.party, 0, t)
        /\ Goto(m, "remap")
        /\ UNCHANGED <<matches, roster, redis, call, calls, faults, started>>

Requeue(m) ==
    LET t == Min(job[m].todo)
        old == tickets[t]
    IN  /\ At(m, "requeue")
        /\ failed' = failed \cup {t}
        /\ \/ /\ old.count < MaxRequeue
              /\ Start(old.players, old.party, old.count + 1, t)
              /\ Goto(m, "remap")
              /\ UNCHANGED faults
           \/ /\ \/ old.count >= MaxRequeue /\ UNCHANGED faults
                 \/ old.count < MaxRequeue /\ Fault("redis")
              /\ NextTicket(m, t)
              /\ UNCHANGED <<tickets, watch>>
        /\ UNCHANGED <<matches, roster, redis, call, calls, started>>

\* The mappings follow the new ticket, and a goroutine waits for it.
Remap(m) ==
    LET t == Min(job[m].todo)
        old == tickets[t]
        new == CHOOSE n \in Tickets : tickets[n].from = t
    IN  /\ At(m, "remap")
        /\ \E keys \in SUBSET (old.players \cup ({old.party} \ {NoParty})) :
              /\ Reaches(keys, old.players \cup ({old.party} \ {NoParty}))
              /\ playerMap' = [p \in Players |-> IF p \in keys THEN new ELSE playerMap[p]]
              /\ partyMap' = [g \in Parties |-> IF g \in keys THEN new ELSE partyMap[g]]
        /\ \E p \in old.players :
              watch' = [watch EXCEPT ![new] =
                           [step |-> "wait", at |-> job[m].at, player |-> p]]
        /\ NextTicket(m, t)
        /\ UNCHANGED <<engine, settled, link, call, calls, published>>

\* An instance dies with its goroutines and the calls it serves.
Crash(i) ==
    /\ Fault("crash")
    /\ watch' = [t \in Tickets |->
           IF watch[t].step \in {"wait", "unmap"} /\ watch[t].at = i
           THEN [step |-> "lost"] ELSE watch[t]]
    /\ job' = [m \in Matches |->
           IF job[m].step \notin {"none", "done"} /\ job[m].at = i
           THEN [step |-> "lost"] ELSE job[m]]
    /\ \E served \in SUBSET {p \in Players : call[p] # Idle} :
           call' = [p \in Players |-> IF p \in served THEN Idle ELSE call[p]]
    /\ UNCHANGED <<engine, redis, calls, published>>

----------------------------------------------------------------------------
Serve(p) ==
    \/ QueueStart(p) \/ QueueMap(p)
    \/ CancelTicket(p) \/ CancelUnmap(p)
    \/ PartyStart(p) \/ PartyMap(p)
    \/ LeaveCancel(p) \/ LeaveUnmap(p) \/ Leave(p)

Attend(t) == TrySettle(t) \/ TellFailed(t) \/ Unmap(t)

Work(m) ==
    \/ Admit(m) \/ Link(m) \/ Publish(m) \/ Unlink(m)
    \/ Requeue(m) \/ Remap(m)

Ask(p) ==
    \/ QueueMatch(p) \/ CancelMatch(p)
    \/ \E g \in Parties : JoinParty(p, g) \/ QueueParty(p, g) \/ LeaveParty(p, g)

Next ==
    \/ Tick
    \/ TimeOut
    \/ \E p \in Players : Ask(p) \/ Serve(p)
    \/ \E t \in Tickets : Attend(t)
    \/ \E m \in Matches : Work(m)
    \/ \E i \in Instances : Crash(i)

Spec == Init /\ [][Next]_vars

\* The calls that are under way are served and the goroutines run on.
Progress ==
    \/ \E p \in Players : Serve(p)
    \/ \E t \in Tickets : Attend(t)
    \/ \E m \in Matches : Work(m)

LiveSpec == Spec /\ WF_vars(Progress)

----------------------------------------------------------------------------
Calls ==
    {Idle}
    \cup [op : {"queue", "unmap"}]
    \cup [op : {"map", "cancel"}, ticket : Tickets]
    \cup [op : {"party"}, party : Parties]
    \cup [op : {"partymap", "leave", "leavecancel", "leaveunmap"},
          party : Parties, ticket : {0} \cup Tickets]

\* The shapes of the state, the numbers in it being those of tickets and
\* matches that exist.
TypeOK ==
    /\ \A t \in Tickets :
          /\ tickets[t].players \subseteq Players
          /\ tickets[t].party \in Parties \cup {NoParty}
          /\ tickets[t].count \in 0..MaxRequeue
          /\ tickets[t].from \in 0..t - 1
          /\ tickets[t].state \in {"searching", "completed", "failed"}
          /\ tickets[t].match \in {0} \cup Matches
    /\ DOMAIN watch = Tickets
    /\ DOMAIN job = Matches
    /\ roster \in [Parties -> SUBSET Players]
    /\ playerMap \in [Players -> {0} \cup Tickets]
    /\ partyMap \in [Parties -> {0} \cup Tickets]
    /\ link \in [Players -> {0} \cup Matches]
    /\ started \subseteq settled /\ settled \subseteq Matches
    /\ failed \subseteq Tickets
    /\ call \in [Players -> Calls]
    /\ calls \in 0..MaxCalls
    /\ faults \subseteq Faults

\* A match is fair: two sides of as many players and close levels, and no
\* ticket plays in two matches.
FairMatches == \A m \in Matches :
    LET Side(ids) == {[id |-> t, players |-> tickets[t].players] : t \in ids}
        Count(ids) == MapThenSumSet(Size, Side(ids))
        Mean(ids) == SideLevel(Side(ids), Count(ids))
        red == matches[m].red
        blue == matches[m].blue
    IN  /\ red \cap blue = {}
        /\ Count(red) = Count(blue) /\ Count(red) \in 1..MaxSide
        /\ Mean(red) - Mean(blue) \in (-MaxGap)..MaxGap
        /\ \A n \in Matches \ {m} : TicketsOf(m) \cap TicketsOf(n) = {}

\* Somebody is still to start the goroutine of a ticket: the call that queued it, or the
\* admission that queued it again.
Awaited(t) ==
    \/ \E p \in Players : call[p].op \in {"map", "partymap"} /\ call[p].ticket = t
    \/ \E m \in Matches : At(m, "remap") /\ tickets[t].from = Min(job[m].todo)

Watched(t) == watch[t].step \in {"wait", "unmap"} \/ (watch[t].step = "none" /\ Awaited(t))

Disposed(m) == m \in started \/ TicketsOf(m) \subseteq failed

\* A match is in hand: it is being admitted, or some goroutine will claim it.
Admitting(m) == job[m].step \notin {"none", "lost", "done"}
InHand(m) == IF m \in settled THEN Admitting(m) ELSE \E t \in TicketsOf(m) : Watched(t)

\* What a fault loses: a match claimed whose admission died or never began
\* (the claim was made, its answer did not arrive), or one that no goroutine
\* waits for or will.
Lost(m) ==
    /\ faults # {}
    /\ IF m \in settled THEN job[m].step \in {"none", "lost"}
       ELSE \A t \in TicketsOf(m) : ~Watched(t)

\* A match has one outcome, and it is not forgotten: a ticket is queued again at most
\* once, and never when the start of its match was published, whatever instance saw its
\* end; and a match that is neither started nor failed is in hand, unless a fault lost it.
OneOutcome ==
    /\ \A t \in Tickets :
          tickets[t].from # 0 =>
              /\ tickets[tickets[t].from].match \notin started
              /\ \A u \in Tickets \ {t} : tickets[u].from # tickets[t].from
    /\ \A m \in Matches : Disposed(m) \/ InHand(m) \/ Lost(m)

\* The lineage of a ticket is bounded: however matches fail, a call makes at
\* most 1 + MaxRequeue tickets.
MaxTickets == MaxCalls * (1 + MaxRequeue)
LineageBounded == Len(tickets) <= MaxTickets

\* A player is linked to a match whose start was published, or whose
\* admission is between the link and the publication; a link outlives them
\* when the instance dies there or redis refuses the removal.
LinksReal == \A p \in Players :
    LET m == link[p] IN
    \/ m = 0
    \/ m \in started
    \/ job[m].step \in {"publish", "unlink", "lost"}
    \/ "redis" \in faults

\* A player who queued alone is not left mapped to a ticket that has ended
\* without a match, so that he can queue again: its goroutine is still to
\* remove the mapping (or died, or redis refused).
DeadTicketUnmapped == \A p \in Players :
    LET t == playerMap[p] IN
    \/ t = 0
    \/ tickets[t].state # "failed" \/ tickets[t].party # NoParty
    \/ watch[t].step \in {"wait", "unmap", "lost"}
    \/ "redis" \in faults

\* Every match that is formed is started, or the failure of each of its
\* tickets is published, unless a fault loses it.
MatchesDisposed == \A m \in 1..(MaxTickets \div 2) :
    m \in Matches ~> m \in Matches /\ (Disposed(m) \/ Lost(m))

\* A player is in one ticket that waits at a time.
OneLiveTicket == \A t, u \in Searching :
    t # u => tickets[t].players \cap tickets[u].players = {}
=============================================================================
