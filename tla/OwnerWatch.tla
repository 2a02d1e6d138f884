------------------------------ MODULE OwnerWatch ------------------------------
(* Who owns a battle, as the edge knows it: the one watch of the directory shared by  *)
(* all battles (resolver/watchhub.go), the resolver's cache of owners fed by it       *)
(* (resolver/watchcache.go, resolver.go), and the guard that tears down the streams   *)
(* whose battle has moved (guard/guard.go). The watcher of the directory, its         *)
(* snapshot at the start of a watch included, and the streams are outside of src/.    *)
EXTENDS Naturals, Sequences, FiniteSets

CONSTANTS
    Battles, Nodes,
    Callers,     \* goroutines that resolve a battle and carry its stream
    None,
    MaxVer,      \* bound: changes of a battle's record
    MaxGen,      \* bound: watches of the directory
    MaxSubs,     \* bound: subscriptions
    Faults       \* "start" and "end": a watch does not start, or ends by itself;
                 \* "overlap": subscriptions at the same time; "age": time passes

ASSUME WatchAssumption ==
    /\ MaxVer \in Nat /\ MaxGen \in Nat /\ MaxSubs \in Nat
    /\ IsFiniteSet(Battles) /\ IsFiniteSet(Callers)
    /\ None \notin Nodes

Owners == Nodes \cup {None}
Kinds  == {"resolver", "guard"}
Known  == [owner : Owners, ver : 0..MaxVer]
News   == [battle : Battles, owner : Owners, ver : 0..MaxVer]
Sub    == [num : Nat, kind : Kinds]
Topic  == [no : Nat, subs : SUBSET Sub, owner : Owners, ver : 0..MaxVer, gen : 0..MaxGen]
Pending == [event : News, no : Nat, subs : SUBSET Sub]
Watch  == [up : {"yes", "no"}, idle : {"yes", "no"}]
Entry  == [owner : Owners, sub : Nat, phase : {"none", "starting", "backoff"},
           fresh : {"yes", "no"}, older : SUBSET Callers]
Guard  == [sub : Nat, streams : SUBSET Callers]

ASSUME NoneAssumption == None \notin Topic \cup Watch \cup Entry \cup Guard

VARIABLES
    \* the directory and its watcher
    rec,         \* record of a battle: owner, None without one, and its version
    chan,        \* events the watcher has not handed over
    \* watchHub
    stream,      \* h.streams of the prefix: whether the watch is up and the idle timer runs
    topics,      \* s.topics
    gen, seq,    \* watches started, h.seq
    batch,       \* deliveries of the dispatch that is running
    \* Resolver and OwnerGuard
    entry,       \* r.owners
    guarded,     \* g.battles
    \* callers
    pc, at, kind, found, topic, num, owed,
    evicted,     \* streams that were told to go
    \* history
    told,        \* version handed last to the subscription a caller is making
    unsure       \* battles queried without a watch, or whose entry has been given up

directory == <<rec, chan>>
hub     == <<stream, topics, gen, seq, batch>>
shared  == <<entry, unsure, guarded, evicted>>
locals  == <<at, kind, found, topic, num, owed>>
callers == <<pc, locals>>
vars == <<directory, hub, shared, callers, told>>

NoEvent == [owner |-> None, ver |-> 0]

Init ==
    /\ rec = [b \in Battles |-> NoEvent] /\ chan = <<>>
    /\ stream = None /\ topics = [b \in Battles |-> None]
    /\ gen = 0 /\ seq = 0 /\ batch = <<>>
    /\ entry = [b \in Battles |-> None] /\ guarded = [b \in Battles |-> None]
    /\ evicted = {}
    /\ pc = [t \in Callers |-> "idle"] /\ at = [t \in Callers |-> None]
    /\ kind = [t \in Callers |-> "resolver"] /\ found = [t \in Callers |-> None]
    /\ topic = [t \in Callers |-> 0] /\ num = [t \in Callers |-> 0]
    /\ owed = [t \in Callers |-> NoEvent]
    /\ told = [t \in Callers |-> 0]
    /\ unsure = {}

Set(f, x, v) == [f EXCEPT ![x] = v]
Go(t, l) == pc' = Set(pc, t, l)
Up == stream # None /\ stream.up = "yes"
Unused(ts) == \A b \in Battles : ts[b] = None
Subs(b) == IF topics[b] = None THEN {} ELSE topics[b].subs
-------------------------------------------------------------------------------
(* The directory *)

Event(b) == [battle |-> b, owner |-> rec[b].owner, ver |-> rec[b].ver]

\* A battle gets an owner, another one, or none.
Move(b, o) ==
    /\ rec[b].owner # o /\ rec[b].ver < MaxVer
    /\ rec' = Set(rec, b, [owner |-> o, ver |-> rec[b].ver + 1])
    /\ chan' = IF Up THEN Append(chan, Event(b)') ELSE chan
    /\ UNCHANGED <<hub, shared, callers, told>>

\* The owner's lease is renewed, which writes the record again.
Renew(b) ==
    /\ rec[b].owner # None /\ Up /\ chan = <<>>
    /\ chan' = <<Event(b)>>
    /\ UNCHANGED <<rec, hub, shared, callers, told>>
-------------------------------------------------------------------------------
(* The hub *)

Remaining_TopicGone(b, n) == None

\* unsubscribe
Remaining(b, n) ==
    IF topics[b] = None THEN None
    ELSE LET left == {s \in topics[b].subs : s.num # n}
         IN  IF left = {} THEN None ELSE [topics[b] EXCEPT !.subs = left]

Unsubscribe_NoTimer(b, n) ==
    IF stream = None THEN UNCHANGED <<topics, stream>>
    ELSE topics' = Set(topics, b, Remaining(b, n)) /\ UNCHANGED stream

Unsubscribe(b, n) ==
    IF stream = None THEN UNCHANGED <<topics, stream>>
    ELSE /\ topics' = Set(topics, b, Remaining(b, n))
         /\ stream' = IF ~Unused(topics') THEN stream
                      ELSE IF Up THEN [stream EXCEPT !.idle = "yes"] ELSE None

\* start: the watcher begins with the records there are.
Start ==
    /\ gen < MaxGen /\ gen' = gen + 1
    /\ stream' = [up |-> "yes", idle |-> "no"]
    /\ \E s \in [1..Cardinality({b \in Battles : rec[b].owner # None}) ->
                     {b \in Battles : rec[b].owner # None}] :
          /\ \A i, j \in DOMAIN s : i # j => s[i] # s[j]
          /\ chan' = [i \in DOMAIN s |-> Event(s[i])]

EnsureStream ==
    IF Up THEN stream' = [stream EXCEPT !.idle = "no"] /\ UNCHANGED <<chan, gen>>
    ELSE Start

\* A number that nobody holds.
NewTopic ==
    LET held == {topic[t] : t \in Callers} \cup {batch[i].no : i \in DOMAIN batch}
                \cup {topics[b].no : b \in {c \in Battles : topics[c] # None}}
    IN  [no |-> CHOOSE n \in 1..(Cardinality(held) + 1) : n \notin held,
         subs |-> {}, owner |-> None, ver |-> 0, gen |-> 0]

\* attach, up to the topic's lock.
Attach(t) ==
    /\ pc[t] = "attach" /\ seq < MaxSubs
    /\ EnsureStream
    /\ topics' = IF topics[at[t]] = None THEN Set(topics, at[t], NewTopic) ELSE topics
    /\ topic' = Set(topic, t, topics'[at[t]].no)
    /\ Go(t, "waiting")
    /\ UNCHANGED <<rec, seq, batch, shared, at, kind, found, num, owed, told>>

\* No watch: the resolver asks the directory each time, the guard does without.
AttachFails(t) ==
    /\ "start" \in Faults
    /\ pc[t] = "attach" /\ ~Up
    /\ stream' = IF Unused(topics) THEN None ELSE stream
    /\ IF kind[t] = "resolver"
       THEN /\ entry' = IF entry[at[t]] = None THEN entry
                        ELSE Set(entry, at[t], [entry[at[t]] EXCEPT !.phase = "backoff"])
            /\ Go(t, "query")
       ELSE Go(t, "streaming") /\ UNCHANGED entry
    /\ UNCHANGED <<directory, topics, gen, seq, batch, unsure, guarded, evicted, locals, told>>

Locked_Never(n) == FALSE

\* A caller holds the topic's lock while it hands over what is known.
Locked(n) == \E t \in Callers : pc[t] = "calling" /\ topic[t] = n

\* Between the insertion of a subscription and the reading of its number.
Attaching(t) == pc[t] \in {"calling", "returning"}

\* The rest of attach, with the topic's lock; a topic that is not in use any more is
\* looked for again.
Insert(t) ==
    /\ pc[t] = "waiting" /\ ~Locked(topic[t])
    /\ LET b == at[t] IN
       IF topics[b] = None \/ topics[b].no # topic[t]
       THEN Go(t, "attach") /\ UNCHANGED <<seq, topics, num, owed>>
       ELSE /\ seq < MaxSubs
            /\ "overlap" \in Faults \/ \A u \in Callers : ~Attaching(u)
            /\ seq' = seq + 1
            /\ topics' = Set(topics, b,
                   [topics[b] EXCEPT !.subs = @ \cup {[num |-> seq', kind |-> kind[t]]}])
            /\ num' = Set(num, t, seq')
            /\ owed' = Set(owed, t, [owner |-> topics[b].owner, ver |-> topics[b].ver])
            /\ Go(t, IF topics[b].owner = None THEN "returning" ELSE "calling")
    /\ UNCHANGED <<directory, stream, gen, batch, shared, at, kind, found, topic, told>>

\* onOwnerChange of the guard: streams that were connected to another owner have to go.
Evict(b, o) ==
    evicted' = IF guarded[b] = None THEN evicted
               ELSE evicted \cup {t \in guarded[b].streams : found[t] # o}

Resolves(t, b) == at[t] = b /\ pc[t] \notin {"resolved", "streaming"} /\ kind[t] = "resolver"

\* onOwnerChange of the resolver. Queries that are under way are older than the event.
Learn(b, o) ==
    \/ /\ entry[b] = None
       /\ UNCHANGED <<entry, unsure, topics, stream>>
    \/ /\ entry[b] # None /\ o = None
       /\ entry' = Set(entry, b, None) /\ unsure' = unsure \cup {b}
       /\ IF entry[b].sub # 0 THEN Unsubscribe(b, entry[b].sub) ELSE UNCHANGED <<topics, stream>>
    \/ /\ entry[b] # None /\ o # None
       /\ entry' = Set(entry, b, [entry[b] EXCEPT !.owner = o, !.fresh = "yes",
                                                  !.older = {t \in Callers : Resolves(t, b)}])
       /\ UNCHANGED <<unsure, topics, stream>>

Notify(b, kinds, o) ==
    /\ IF "guard" \in kinds THEN Evict(b, o) ELSE UNCHANGED evicted
    /\ IF "resolver" \in kinds THEN Learn(b, o) ELSE UNCHANGED <<entry, unsure, topics, stream>>

\* The new subscriber is told who owns the battle.
Call(t) ==
    /\ pc[t] = "calling"
    /\ Notify(at[t], {kind[t]}, owed[t].owner)
    /\ told' = Set(told, t, owed[t].ver)
    /\ Go(t, "returning")
    /\ UNCHANGED <<directory, gen, seq, batch, guarded, locals>>

\* attach returns h.seq, read after the lock is released; attachOwnerWatch and startWatch
\* keep what cancels the subscription of that number.
Return(t) ==
    /\ pc[t] = "returning"
    /\ \E n \in num[t]..seq :
       LET b == at[t] IN
       IF kind[t] = "resolver"
       THEN /\ Go(t, "query")
            /\ UNCHANGED guarded
            /\ IF entry[b] = None
               THEN Unsubscribe(b, n) /\ UNCHANGED entry
               ELSE /\ entry' = Set(entry, b, [entry[b] EXCEPT !.sub = n, !.phase = "none"])
                    /\ UNCHANGED <<topics, stream>>
       ELSE /\ Go(t, "streaming")
            /\ UNCHANGED entry
            /\ IF guarded[b] = None
               THEN Unsubscribe(b, n) /\ UNCHANGED guarded
               ELSE /\ guarded' = Set(guarded, b, [guarded[b] EXCEPT !.sub = n])
                    /\ UNCHANGED <<topics, stream>>
    /\ num' = Set(num, t, 0) /\ topic' = Set(topic, t, 0) /\ owed' = Set(owed, t, NoEvent)
    /\ told' = Set(told, t, 0)
    /\ UNCHANGED <<directory, gen, seq, batch, unsure, evicted, at, kind, found>>

\* dispatch: what is known of the topics and the subscribers at this moment.
Newest(b, es) ==
    LET own == {i \in DOMAIN es : es[i].battle = b}
        e   == es[CHOOSE i \in own : \A j \in own : j <= i]
    IN  IF own = {} THEN topics[b]
        ELSE [topics[b] EXCEPT !.owner = e.owner, !.ver = e.ver, !.gen = gen]

\* An event of a battle without a topic is delivered to nobody.
Delivery(e) == [event |-> e, subs |-> Subs(e.battle),
                no |-> IF topics[e.battle] = None THEN 0 ELSE topics[e.battle].no]

Dispatch(n) ==
    /\ Up /\ batch = <<>>
    /\ LET es == SubSeq(chan, 1, n)
       IN  /\ topics' = [b \in Battles |-> IF topics[b] = None THEN None ELSE Newest(b, es)]
           /\ batch' = [i \in DOMAIN es |-> Delivery(es[i])]
    /\ chan' = SubSeq(chan, n + 1, Len(chan))
    /\ UNCHANGED <<rec, stream, gen, seq, shared, callers, told>>

\* One topic of the batch, with its lock.
Deliver ==
    /\ batch # <<>> /\ ~Locked(Head(batch).no)
    /\ LET d == Head(batch)
       IN  /\ Notify(d.event.battle, {s.kind : s \in d.subs}, d.event.owner)
           /\ told' = [t \in Callers |->
                          IF Attaching(t) /\ \E s \in d.subs : s.num = num[t]
                          THEN d.event.ver ELSE told[t]]
    /\ batch' = Tail(batch)
    /\ UNCHANGED <<directory, gen, seq, guarded, callers>>

StreamEnded_KeepKnown ==
    /\ "end" \in Faults
    /\ Up /\ batch = <<>>
    /\ stream' = [stream EXCEPT !.up = "no"] /\ chan' = <<>>
    /\ UNCHANGED <<rec, topics, gen, seq, batch, shared, callers, told>>

\* The watch has ended by itself: what was known is forgotten.
StreamEnded ==
    /\ "end" \in Faults
    /\ Up /\ batch = <<>>
    /\ stream' = [stream EXCEPT !.up = "no"] /\ chan' = <<>>
    /\ topics' = [b \in Battles |->
                     IF topics[b] = None THEN None ELSE [topics[b] EXCEPT !.owner = None]]
    /\ UNCHANGED <<rec, gen, seq, batch, shared, callers, told>>

\* The idle timer; its minute is longer than a delivery takes.
CloseIdle ==
    /\ stream # None /\ stream.idle = "yes" /\ Unused(topics) /\ batch = <<>>
    /\ stream' = None /\ chan' = <<>>
    /\ UNCHANGED <<rec, topics, gen, seq, batch, shared, callers, told>>
-------------------------------------------------------------------------------
(* The resolver *)

Usable(e) == e # None /\ e.sub # 0 /\ e.owner # None /\ e.fresh = "yes"

\* lookupOwner; the time of the lookup is the time the query counts from.
Lookup(t, b) ==
    /\ pc[t] = "idle"
    /\ at' = Set(at, t, b)
    /\ IF Usable(entry[b])
       THEN Go(t, "resolved") /\ found' = Set(found, t, entry[b].owner)
       ELSE Go(t, "missed") /\ UNCHANGED found
    /\ entry' = [c \in Battles |->
                    IF entry[c] = None THEN None ELSE [entry[c] EXCEPT !.older = @ \ {t}]]
    /\ UNCHANGED <<directory, hub, unsure, guarded, evicted, kind, topic, num, owed, told>>

NewEntry == [owner |-> None, sub |-> 0, phase |-> "none", fresh |-> "yes", older |-> {}]

\* beginOwnerWatch
BeginOwnerWatch(t) ==
    /\ pc[t] = "missed"
    /\ LET b == at[t]
           e == IF entry[b] = None THEN NewEntry ELSE entry[b]
       IN  IF e.sub = 0 /\ e.phase = "none"
           THEN Go(t, "attach") /\ entry' = Set(entry, b, [e EXCEPT !.phase = "starting"])
           ELSE Go(t, "query") /\ entry' = Set(entry, b, e)
    /\ kind' = Set(kind, t, "resolver")
    /\ UNCHANGED <<directory, hub, unsure, guarded, evicted, at, found, topic, num, owed, told>>

\* The end of the backoff after a watch that did not start.
BackoffEnds(b) ==
    /\ entry[b] # None /\ entry[b].phase = "backoff"
    /\ entry' = Set(entry, b, [entry[b] EXCEPT !.phase = "none"])
    /\ UNCHANGED <<directory, hub, unsure, guarded, evicted, callers, told>>

\* OwnerNode: without an owner the battle cannot be reached.
Query(t) ==
    /\ pc[t] = "query"
    /\ IF rec[at[t]].owner = None
       THEN /\ Go(t, "idle") /\ at' = Set(at, t, None)
            /\ UNCHANGED found
       ELSE /\ Go(t, "store") /\ found' = Set(found, t, rec[at[t]].owner)
            /\ UNCHANGED at
    /\ unsure' = IF entry[at[t]] = None \/ entry[at[t]].sub = 0
                 THEN unsure \cup {at[t]} ELSE unsure
    /\ UNCHANGED <<directory, hub, entry, guarded, evicted, kind, topic, num, owed, told>>

Superseded_Never(e, t) == e = None \/ e.sub = 0

\* The result is kept only with a watch, and unless an event has come since the lookup.
Superseded(e, t) == e = None \/ e.sub = 0 \/ t \in e.older

\* storeOwner
StoreOwner(t) ==
    /\ pc[t] = "store"
    /\ LET b == at[t] IN
       entry' = IF Superseded(entry[b], t) THEN entry
                ELSE Set(entry, b, [entry[b] EXCEPT !.owner = found[t], !.fresh = "yes"])
    /\ Go(t, "resolved")
    /\ UNCHANGED <<directory, hub, unsure, guarded, evicted, locals, told>>

\* An entry reaches DefaultOwnerFreshTTL and, some time later, DefaultOwnerIdleTTL; both are
\* longer than a resolution takes.
Age(b) ==
    /\ "age" \in Faults
    /\ entry[b] # None /\ entry[b].fresh = "yes"
    /\ \A t \in Callers : ~Resolves(t, b)
    /\ entry' = Set(entry, b, [entry[b] EXCEPT !.fresh = "no"])
    /\ UNCHANGED <<directory, hub, unsure, guarded, evicted, callers, told>>

Sweep(b) ==
    /\ entry[b] # None /\ entry[b].fresh = "no"
    /\ \A t \in Callers : ~Resolves(t, b)
    /\ entry' = Set(entry, b, None) /\ unsure' = unsure \cup {b}
    /\ IF entry[b].sub # 0 THEN Unsubscribe(b, entry[b].sub) ELSE UNCHANGED <<topics, stream>>
    /\ UNCHANGED <<directory, gen, seq, batch, guarded, evicted, callers, told>>
-------------------------------------------------------------------------------
(* The guard *)

\* Register: the first stream of a battle starts the watch.
Register(t) ==
    /\ pc[t] = "resolved"
    /\ LET b == at[t] IN
       IF guarded[b] = None
       THEN /\ guarded' = Set(guarded, b, [sub |-> 0, streams |-> {t}])
            /\ Go(t, "attach")
       ELSE /\ guarded' = Set(guarded, b, [guarded[b] EXCEPT !.streams = @ \cup {t}])
            /\ Go(t, "streaming")
    /\ kind' = Set(kind, t, "guard")
    /\ UNCHANGED <<directory, hub, entry, unsure, evicted, at, found, topic, num, owed, told>>

Leave(t) ==
    /\ Go(t, "idle")
    /\ at' = Set(at, t, None) /\ found' = Set(found, t, None)
    /\ kind' = Set(kind, t, "resolver")
    /\ UNCHANGED <<topic, num, owed>>

\* The caller does not connect after all.
GiveUp(t) ==
    /\ pc[t] = "resolved"
    /\ Leave(t)
    /\ UNCHANGED <<directory, hub, shared, told>>

LastStream(b, t) == guarded[b].streams = {t}

\* unregister: the stream has ended, or was told to.
Unregister(t) ==
    /\ pc[t] = "streaming"
    /\ LET b == at[t] IN
       IF LastStream(b, t)
       THEN /\ guarded' = Set(guarded, b, None)
            /\ IF guarded[b].sub # 0 THEN Unsubscribe(b, guarded[b].sub)
               ELSE UNCHANGED <<topics, stream>>
       ELSE /\ guarded' = Set(guarded, b, [guarded[b] EXCEPT !.streams = @ \ {t}])
            /\ UNCHANGED <<topics, stream>>
    /\ evicted' = evicted \ {t}
    /\ Leave(t)
    /\ UNCHANGED <<directory, gen, seq, batch, entry, unsure, told>>
-------------------------------------------------------------------------------
Attached(t) == Attach(t) \/ AttachFails(t) \/ Insert(t) \/ Call(t) \/ Return(t)
Resolving(t) == BeginOwnerWatch(t) \/ Query(t) \/ StoreOwner(t)

Next ==
    \/ \E b \in Battles :
          \/ \E o \in Nodes \cup {None} : Move(b, o)
          \/ Renew(b) \/ BackoffEnds(b) \/ Age(b) \/ Sweep(b)
          \/ \E t \in Callers : Lookup(t, b)
    \/ \E n \in 1..Len(chan) : Dispatch(n)
    \/ Deliver \/ StreamEnded \/ CloseIdle
    \/ \E t \in Callers :
          Attached(t) \/ Resolving(t) \/ Register(t) \/ GiveUp(t) \/ Unregister(t)

Spec == Init /\ [][Next]_vars
-------------------------------------------------------------------------------
TypeOK ==
    /\ rec \in [Battles -> Known] /\ chan \in Seq(News)
    /\ stream \in Watch \cup {None}
    /\ topics \in [Battles -> Topic \cup {None}]
    /\ gen \in 0..MaxGen /\ seq \in 0..MaxSubs
    /\ batch \in Seq(Pending)
    /\ entry \in [Battles -> Entry \cup {None}]
    /\ guarded \in [Battles -> Guard \cup {None}]
    /\ pc \in [Callers -> {"idle", "missed", "attach", "waiting", "calling", "returning",
                           "query", "store", "resolved", "streaming"}]
    /\ at \in [Callers -> Battles \cup {None}]
    /\ \A t \in Callers : pc[t] # "idle" => at[t] \in Battles
    /\ kind \in [Callers -> Kinds] /\ found \in [Callers -> Owners]
    /\ topic \in [Callers -> Nat] /\ num \in [Callers -> 0..seq]
    /\ owed \in [Callers -> Known] /\ told \in [Callers -> 0..MaxVer]

\* A stream is told to go only while the guard still has it.
EvictedHeld == \A t \in evicted : \E b \in Battles : guarded[b] # None /\ t \in guarded[b].streams

\* The watch is not kept without need: when no battle is subscribed to, its timer runs.
IdleWatched ==
    /\ stream = None => Unused(topics)
    /\ stream # None /\ Unused(topics) => stream.idle = "yes"

\* The tables are well formed, a stream is evicted only while the guard still has it, and no
\* watch outlives its last subscription without a timer that will end it.
HubInv == TypeOK /\ EvictedHeld /\ IdleWatched

\* What is known of a battle was learnt from the watch that is up.
KnownOfGeneration ==
    \A b \in Battles :
        topics[b] # None /\ topics[b].owner # None => Up /\ topics[b].gen = gen

\* The subscription the resolver or the guard holds is one the hub serves.
HeldServed ==
    \A b \in Battles :
        /\ entry[b] # None /\ entry[b].sub # 0 =>
               [num |-> entry[b].sub, kind |-> "resolver"] \in Subs(b)
        /\ guarded[b] # None /\ guarded[b].sub # 0 =>
               [num |-> guarded[b].sub, kind |-> "guard"] \in Subs(b)

\* When nothing is under way, an entry that answers lookups has the owner the directory
\* has, unless the record was deleted in between: neither a late event nor the result of
\* a query that was overtaken stays.
UnderWay(b) ==
    \/ chan # <<>> \/ batch # <<>>
    \/ \E t \in Callers : at[t] = b /\ pc[t] \notin {"resolved", "streaming"}
Agrees(b) ==
    Up /\ ~UnderWay(b) /\ Usable(entry[b]) /\ rec[b].owner # None =>
        entry[b].owner = rec[b].owner
Settled == \A b \in Battles : b \notin unsure => Agrees(b)

\* A new subscriber is not handed the owner that was known when it came after a newer one.
NeverBack ==
    [][\A t \in Callers : Attaching(t) /\ Attaching(t)' => told'[t] >= told[t]]_vars
===============================================================================
