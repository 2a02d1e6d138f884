--------------------------- MODULE OwnerWatchProofs ---------------------------
(* What the hub of watches keeps, for every number of battles, nodes and callers and   *)
(* every set of faults: nothing is known from an older watch, no watch lives on without*)
(* subscriptions, and no new subscriber is told something older. When subscriptions do *)
(* not overlap, what the resolver and the guard hold is what the hub serves, and the   *)
(* resolver's entries agree with the directory.                                        *)
EXTENDS OwnerWatch, FiniteSetTheorems, SequenceTheorems, TLAPS

USE WatchAssumption, NoneAssumption

-------------------------------------------------------------------------------
(* Facts about data *)

\* A set of positions of a sequence that is not empty has a last one.
LEMMA LastPosition ==
  ASSUME NEW n \in Nat, NEW S, S \subseteq 1..n, S # {}
  PROVE  \E m \in S : \A j \in S : j <= m
<1> SUFFICES ASSUME \A m \in S : \E j \in S : ~(j <= m)
             PROVE  FALSE
  OBVIOUS
<1> DEFINE U == {i \in 1..n : \E j \in S : i <= j}
           g == [i \in U |-> i + 1]
<1>1. IsFiniteSet(U)
  <2>1. U \in SUBSET (1..n) /\ IsFiniteSet(1..n)
    BY FS_Interval, 1 \in Int, n \in Int
  <2> HIDE DEF U
  <2> QED
    BY <2>1, FS_Subset
<1>2. \A i \in U : i + 1 \in U
  <2> SUFFICES ASSUME NEW i \in U PROVE i + 1 \in U
    OBVIOUS
  <2>1. PICK j \in S : i <= j
    OBVIOUS
  <2>2. PICK k \in S : ~(k <= j)
    OBVIOUS
  <2>3. k \in 1..n /\ j \in 1..n /\ i \in 1..n /\ i + 1 <= k
    BY <2>1, <2>2
  <2> QED
    BY <2>3
<1>3. g \in Injection(U, U)
  <2>1. g \in [U -> U]
    BY <1>2
  <2>2. \A a, b \in U : g[a] = g[b] => a = b
    OBVIOUS
  <2> QED
    BY <2>1, <2>2 DEF Injection, IsInjective
<1>4. g \in Surjection(U, U)
  <2> HIDE DEF g, U
  <2> QED
    BY <1>1, <1>3, FS_Injection
<1>5. 1 \in U
  <2>1. PICK j \in S : j \in 1..n
    OBVIOUS
  <2> QED
    BY <2>1
<1>6. PICK i \in U : g[i] = 1
  BY <1>4, <1>5 DEF Surjection
<1>7. i + 1 = 1 /\ i \in 1..n
  BY <1>6
<1> QED
  BY <1>7

\* The values of a function on a finite set are finitely many.
LEMMA FiniteValues ==
  ASSUME NEW S, IsFiniteSet(S), NEW f, f = [x \in S |-> f[x]]
  PROVE  IsFiniteSet({f[x] : x \in S})
<1> DEFINE T == {f[x] : x \in S}
<1>1. f \in Surjection(S, T)
  BY DEF Surjection
<1> HIDE DEF T
<1>2. IsFiniteSet(T)
  BY <1>1, FS_Surjection
<1> QED
  BY <1>2 DEF T

\* Of one number more than a finite set has elements, one is not in the set.
LEMMA FreeNumber ==
  ASSUME NEW S, IsFiniteSet(S)
  PROVE  \E n \in 1..(Cardinality(S) + 1) : n \notin S
<1> DEFINE c == Cardinality(S)
<1>1. c \in Nat
  BY FS_CardinalityType
<1>2. Cardinality(1..(c + 1)) = c + 1
  <2> HIDE DEF c
  <2>1. 1 \in Int /\ c + 1 \in Int /\ 1 <= c + 1 /\ (c + 1) - 1 + 1 = c + 1
    BY <1>1
  <2> QED
    BY <2>1, FS_Interval
<1>3. SUFFICES ASSUME 1..(c + 1) \in SUBSET S PROVE FALSE
  OBVIOUS
<1>4. Cardinality(1..(c + 1)) <= c
  <2> HIDE DEF c
  <2> QED
    BY <1>3, FS_Subset DEF c
<1> HIDE DEF c
<1> QED
  BY <1>1, <1>2, <1>4

LEMMA SequenceOf ==
  ASSUME NEW S, NEW n \in Nat, NEW f \in [1..n -> S]
  PROVE  f \in Seq(S) /\ DOMAIN f = 1..n
  BY SeqDef
-------------------------------------------------------------------------------
(* The invariant *)

DirectoryOK == rec \in [Battles -> Known] /\ chan \in Seq(News)
HubOK ==
    /\ stream \in Watch \cup {None}
    /\ topics \in [Battles -> Topic \cup {None}]
    /\ gen \in 0..MaxGen /\ seq \in 0..MaxSubs
    /\ batch \in Seq(Pending)
TablesOK ==
    /\ entry \in [Battles -> Entry \cup {None}]
    /\ guarded \in [Battles -> Guard \cup {None}]
PlacesOK ==
    /\ pc \in [Callers -> {"idle", "missed", "attach", "waiting", "calling", "returning",
                           "query", "store", "resolved", "streaming"}]
    /\ at \in [Callers -> Battles \cup {None}]
    /\ \A t \in Callers : pc[t] # "idle" => at[t] \in Battles
    /\ kind \in [Callers -> Kinds]
LocalsOK ==
    /\ found \in [Callers -> Owners] /\ topic \in [Callers -> Nat]
    /\ num \in [Callers -> 0..seq]
    /\ owed \in [Callers -> Known] /\ told \in [Callers -> 0..MaxVer]

LEMMA TypeParts ==
  /\ TypeOK <=> DirectoryOK /\ HubOK /\ TablesOK /\ PlacesOK /\ LocalsOK
  /\ TypeOK' <=> DirectoryOK' /\ HubOK' /\ TablesOK' /\ PlacesOK' /\ LocalsOK'
  BY DEF TypeOK, DirectoryOK, HubOK, TablesOK, PlacesOK, LocalsOK

\* A caller works for the guard from Register until its stream ends, and the guard has
\* its stream all that time.
GuardPlaces ==
    \A t \in Callers :
        /\ pc[t] \in {"idle", "missed", "query", "store", "resolved"} => kind[t] = "resolver"
        /\ pc[t] = "streaming" => kind[t] = "guard"
        /\ kind[t] = "guard" => guarded[at[t]] # None /\ t \in guarded[at[t]].streams

\* The hub by itself: typed, watched by a timer when unused, and nothing known from an
\* older watch.
HubGood == HubOK /\ IdleWatched /\ KnownOfGeneration

WatchInv ==
    DirectoryOK /\ HubGood /\ TablesOK /\ PlacesOK /\ LocalsOK /\ GuardPlaces /\ EvictedHeld
-------------------------------------------------------------------------------
(* The hub *)

\* Removing a subscription changes one topic, drops it when it was the last of the
\* topic, and starts the timer or the end of the watch when it was the last of all.
LEMMA UnsubscribeKeeps ==
  ASSUME HubGood, NEW b \in Battles, NEW n \in Nat, Unsubscribe(b, n),
         UNCHANGED <<gen, seq>>, batch' \in Seq(Pending)
  PROVE  /\ HubGood'
         /\ \A c \in Battles :
               Subs(c)' = IF c = b THEN {s \in Subs(b) : s.num # n} ELSE Subs(c)
<1>1. CASE stream = None
  <2>1. topics' = topics /\ stream' = stream
    BY <1>1 DEF Unsubscribe
  <2>2. HubGood'
    BY <2>1 DEF HubGood, HubOK, IdleWatched, Unused, KnownOfGeneration, Up
  <2>3. \A c \in Battles : Subs(c) = {} /\ Subs(c)' = {}
    BY <1>1, <2>1 DEF HubGood, IdleWatched, Unused, Subs
  <2> QED
    BY <2>2, <2>3
<1>2. CASE stream # None
  <2>1. /\ topics' = [topics EXCEPT ![b] = Remaining(b, n)]
        /\ stream' = IF ~Unused(topics') THEN stream
                     ELSE IF Up THEN [stream EXCEPT !.idle = "yes"] ELSE None
    BY <1>2 DEF Unsubscribe, Set
  <2>2. stream \in Watch
    BY <1>2 DEF HubGood, HubOK
  <2>3. /\ Remaining(b, n) \in Topic \cup {None}
        /\ (IF Remaining(b, n) = None THEN {} ELSE Remaining(b, n).subs)
              = {s \in Subs(b) : s.num # n}
        /\ Remaining(b, n) # None => /\ topics[b] # None
                                     /\ Remaining(b, n).owner = topics[b].owner
                                     /\ Remaining(b, n).gen = topics[b].gen
    <3>1. CASE topics[b] = None
      BY <3>1 DEF Remaining, Subs
    <3>2. CASE topics[b] # None
      <4> DEFINE left == {s \in topics[b].subs : s.num # n}
      <4>1. topics[b] \in Topic /\ left \in SUBSET Sub
        BY <3>2 DEF HubGood, HubOK, Topic
      <4>2. CASE left = {}
        BY <3>2, <4>2 DEF Remaining, Subs
      <4>3. CASE left # {}
        <5>1. Remaining(b, n) = [topics[b] EXCEPT !.subs = left]
          BY <3>2, <4>3 DEF Remaining
        <5>2. /\ Remaining(b, n) \in Topic /\ Remaining(b, n).subs = left
              /\ Remaining(b, n).owner = topics[b].owner
              /\ Remaining(b, n).gen = topics[b].gen
          BY <4>1, <5>1 DEF Topic
        <5> QED
          BY <3>2, <5>2, NoneAssumption DEF Subs
      <4> QED
        BY <4>2, <4>3
    <3> QED
      BY <3>1, <3>2
  <2>4. \A c \in Battles : topics'[c] = IF c = b THEN Remaining(b, n) ELSE topics[c]
    BY <2>1 DEF HubGood, HubOK
  <2>5. topics' \in [Battles -> Topic \cup {None}]
    BY <2>1, <2>3 DEF HubGood, HubOK
  <2>6. stream' \in Watch \cup {None} /\ (Unused(topics') \/ stream' = stream)
    BY <2>1, <2>2 DEF Watch
  <2>7. HubOK'
    BY <2>5, <2>6 DEF HubGood, HubOK
  <2>8. IdleWatched'
    BY <1>2, <2>1, <2>2 DEF IdleWatched, Watch
  <2>9. KnownOfGeneration'
    <3>1. CASE Unused(topics')
      BY <3>1 DEF KnownOfGeneration, Unused
    <3>2. CASE stream' = stream
      BY <2>3, <2>4, <3>2 DEF HubGood, KnownOfGeneration, Up
    <3> QED
      BY <2>6, <3>1, <3>2
  <2>10. \A c \in Battles :
            Subs(c)' = IF c = b THEN {s \in Subs(b) : s.num # n} ELSE Subs(c)
    BY <2>3, <2>4 DEF Subs
  <2> QED
    BY <2>7, <2>8, <2>9, <2>10 DEF HubGood
<1> QED
  BY <1>1, <1>2

LEMMA TopicsStay ==
  ASSUME HubGood, UNCHANGED <<stream, topics, gen, seq>>, batch' \in Seq(Pending)
  PROVE  HubGood' /\ \A c \in Battles : Subs(c)' = Subs(c)
  BY DEF HubGood, HubOK, IdleWatched, Unused, KnownOfGeneration, Up, Subs

LEMMA HubStays ==
  ASSUME HubGood, UNCHANGED hub
  PROVE  HubGood' /\ \A c \in Battles : Subs(c)' = Subs(c)
  BY TopicsStay DEF HubGood, HubOK, hub

\* An event changes one entry: it is gone, with its subscription, or it has the owner.
LEMMA LearnKeeps ==
  ASSUME HubGood, TablesOK, NEW b \in Battles, NEW o \in Owners, Learn(b, o),
         UNCHANGED <<gen, seq>>, batch' \in Seq(Pending)
  PROVE  /\ HubGood' /\ entry' \in [Battles -> Entry \cup {None}]
         /\ \A c \in Battles : c # b => entry'[c] = entry[c] /\ Subs(c)' = Subs(c)
         /\ entry'[b] # None => entry[b] # None /\ entry'[b].sub = entry[b].sub
         /\ \/ Subs(b)' = Subs(b)
            \/ /\ entry'[b] = None /\ entry[b] # None /\ entry[b].sub # 0
               /\ Subs(b)' = {s \in Subs(b) : s.num # entry[b].sub}
<1>1. CASE entry[b] = None /\ UNCHANGED <<entry, unsure, topics, stream>>
  BY <1>1, TopicsStay DEF TablesOK
<1>2. CASE /\ entry[b] # None
           /\ entry' = Set(entry, b, None)
           /\ IF entry[b].sub # 0 THEN Unsubscribe(b, entry[b].sub)
              ELSE UNCHANGED <<topics, stream>>
  <2>1. entry[b] \in Entry /\ entry[b].sub \in Nat
    BY <1>2 DEF TablesOK, Entry
  <2>2. /\ entry' \in [Battles -> Entry \cup {None}] /\ entry'[b] = None
        /\ \A c \in Battles : c # b => entry'[c] = entry[c]
    BY <1>2 DEF TablesOK, Set
  <2>3. CASE entry[b].sub # 0
    <3>1. Unsubscribe(b, entry[b].sub)
      BY <1>2, <2>3
    <3>2. /\ HubGood'
          /\ \A c \in Battles :
                Subs(c)' = IF c = b THEN {s \in Subs(b) : s.num # entry[b].sub} ELSE Subs(c)
      BY <2>1, <3>1, UnsubscribeKeeps
    <3>3. Subs(b)' = {s \in Subs(b) : s.num # entry[b].sub}
      BY <3>2
    <3>4. \A c \in Battles : c # b => Subs(c)' = Subs(c)
      BY <3>2
    <3> QED
      BY <1>2, <2>2, <2>3, <3>2, <3>3, <3>4
  <2>4. CASE entry[b].sub = 0
    <3>1. UNCHANGED <<topics, stream>>
      BY <1>2, <2>4
    <3>2. HubGood' /\ \A c \in Battles : Subs(c)' = Subs(c)
      BY <3>1, TopicsStay
    <3> QED
      BY <2>2, <3>2
  <2> QED
    BY <2>3, <2>4
<1>3. CASE /\ entry[b] # None
           /\ entry' = Set(entry, b, [entry[b] EXCEPT !.owner = o, !.fresh = "yes",
                                           !.older = {t \in Callers : Resolves(t, b)}])
           /\ UNCHANGED <<unsure, topics, stream>>
  <2>1. entry[b] \in Entry
    BY <1>3 DEF TablesOK
  <2> DEFINE e == [entry[b] EXCEPT !.owner = o, !.fresh = "yes",
                                   !.older = {t \in Callers : Resolves(t, b)}]
  <2>2. e \in Entry /\ e.sub = entry[b].sub
    BY <2>1 DEF Entry
  <2>3. entry' = [entry EXCEPT ![b] = e]
    BY <1>3 DEF Set
  <2> HIDE DEF e
  <2>4. HubGood' /\ \A c \in Battles : Subs(c)' = Subs(c)
    BY <1>3, TopicsStay DEF hub
  <2> QED
    BY <1>3, <2>2, <2>3, <2>4 DEF TablesOK
<1> QED
  BY <1>1, <1>2, <1>3 DEF Learn

\* What a notification of battle b does to the entries and to the subscriptions.
Told(b) ==
    /\ \A c \in Battles : c # b => entry'[c] = entry[c] /\ Subs(c)' = Subs(c)
    /\ entry'[b] # None => entry[b] # None /\ entry'[b].sub = entry[b].sub
    /\ \/ Subs(b)' = Subs(b)
       \/ /\ entry'[b] = None /\ entry[b] # None /\ entry[b].sub # 0
          /\ Subs(b)' = {s \in Subs(b) : s.num # entry[b].sub}

LEMMA NotifyKeeps ==
  ASSUME HubGood, TablesOK, EvictedHeld, NEW b \in Battles, NEW o \in Owners,
         NEW kinds, Notify(b, kinds, o), UNCHANGED <<gen, seq, guarded>>, batch' \in Seq(Pending)
  PROVE  HubGood' /\ TablesOK' /\ EvictedHeld' /\ Told(b)
<1>1. EvictedHeld'
  BY DEF EvictedHeld, Notify, Evict
<1>2. CASE "resolver" \in kinds
  BY <1>1, <1>2, LearnKeeps DEF Notify, TablesOK, Told
<1>3. CASE "resolver" \notin kinds
  BY <1>1, <1>3, TopicsStay DEF Notify, TablesOK, hub, Told
<1> QED
  BY <1>2, <1>3

\* The number of a new topic is free, as finitely many are held.
LEMMA NewTopicOK ==
  ASSUME HubOK, LocalsOK
  PROVE  NewTopic \in Topic /\ NewTopic.subs = {} /\ NewTopic.owner = None
<1> DEFINE used == {c \in Battles : topics[c] # None}
           waited == {topic[t] : t \in Callers}
           pending == {batch[i].no : i \in DOMAIN batch}
           known == {topics[b].no : b \in used}
           held == waited \cup pending \cup known
<1>1. IsFiniteSet(waited)
  BY FiniteValues DEF LocalsOK
<1>2. IsFiniteSet(pending)
  <2> DEFINE f == [i \in DOMAIN batch |-> batch[i].no]
  <2>1. IsFiniteSet(DOMAIN batch)
    <3>1. Len(batch) \in Nat /\ DOMAIN batch = 1..Len(batch)
      BY DEF HubOK
    <3> QED
      BY <3>1, FS_Interval, 1 \in Int, Len(batch) \in Int
  <2>2. f = [i \in DOMAIN batch |-> f[i]] /\ pending = {f[i] : i \in DOMAIN batch}
    OBVIOUS
  <2> HIDE DEF f, pending
  <2> QED
    BY <2>1, <2>2, FiniteValues
<1>3. IsFiniteSet(known)
  <2> DEFINE f == [b \in used |-> topics[b].no]
  <2>1. IsFiniteSet(used)
    <3>1. used \in SUBSET Battles
      OBVIOUS
    <3> HIDE DEF used
    <3> QED
      BY <3>1, FS_Subset
  <2>2. f = [b \in used |-> f[b]] /\ known = {f[b] : b \in used}
    OBVIOUS
  <2> HIDE DEF f, known, used
  <2> QED
    BY <2>1, <2>2, FiniteValues
<1>4. IsFiniteSet(held)
  <2> HIDE DEF waited, pending, known
  <2> QED
    BY <1>1, <1>2, <1>3, FS_Union
<1>5. NewTopic = [no |-> CHOOSE n \in 1..(Cardinality(held) + 1) : n \notin held,
                  subs |-> {}, owner |-> None, ver |-> 0, gen |-> 0]
  BY DEF NewTopic
<1>6. (CHOOSE n \in 1..(Cardinality(held) + 1) : n \notin held) \in Nat
  <2> HIDE DEF held
  <2>1. \E n \in 1..(Cardinality(held) + 1) : n \notin held
    BY <1>4, FreeNumber
  <2>2. (CHOOSE n \in 1..(Cardinality(held) + 1) : n \notin held)
           \in 1..(Cardinality(held) + 1)
    BY <2>1
  <2> QED
    BY <2>2
<1> HIDE DEF held
<1> QED
  BY <1>5, <1>6 DEF Topic, Owners

\* What a dispatch makes known of a battle comes from the watch that is up.
LEMMA NewestOK ==
  ASSUME HubOK, NEW b \in Battles, topics[b] # None, NEW es \in Seq(News)
  PROVE  /\ Newest(b, es) \in Topic /\ Newest(b, es).subs = topics[b].subs
         /\ \/ Newest(b, es) = topics[b]
            \/ Newest(b, es).gen = gen
<1> DEFINE own == {i \in DOMAIN es : es[i].battle = b}
           i == CHOOSE i \in own : \A j \in own : j <= i
<1>1. topics[b] \in Topic /\ gen \in 0..MaxGen
  BY DEF HubOK
<1>2. CASE own = {}
  BY <1>1, <1>2 DEF Newest
<1>3. CASE own # {}
  <2>1. Len(es) \in Nat /\ DOMAIN es = 1..Len(es)
    OBVIOUS
  <2>2. own \subseteq 1..Len(es)
    BY <2>1
  <2>3. i \in own
    <3> HIDE DEF own
    <3>1. \E m \in own : \A j \in own : j <= m
      BY <1>3, <2>1, <2>2, LastPosition
    <3> QED
      BY <3>1
  <2>4. es[i] \in News
    <3> HIDE DEF own, i
    <3> QED
      BY <2>2, <2>3, ElementOfSeq
  <2>5. Newest(b, es) =
           [topics[b] EXCEPT !.owner = es[i].owner, !.ver = es[i].ver, !.gen = gen]
    BY <1>3 DEF Newest
  <2> HIDE DEF i
  <2> QED
    BY <1>1, <2>4, <2>5 DEF Topic, News
<1> QED
  BY <1>2, <1>3
-------------------------------------------------------------------------------
(* Every step keeps the invariant *)

LEMMA InitWatch == Init => WatchInv
  BY EmptySeq DEF Init, WatchInv, DirectoryOK, HubGood, HubOK, IdleWatched, Unused,
     KnownOfGeneration, TablesOK, PlacesOK, LocalsOK, GuardPlaces, EvictedHeld, NoEvent,
     Known, Owners, Kinds

\* The directory changes a record and the watcher gets the event.
LEMMA DirectorySteps ==
  ASSUME WatchInv, NEW b \in Battles, (\E o \in Owners : Move(b, o)) \/ Renew(b)
  PROVE  WatchInv' /\ UNCHANGED <<hub, shared, callers, told>>
<1>1. UNCHANGED <<hub, shared, callers, told>>
  BY DEF Move, Renew
<1>2. DirectoryOK'
  <2>1. ASSUME NEW o \in Owners, Move(b, o) PROVE DirectoryOK'
    <3>1. rec[b] \in Known /\ rec[b].ver + 1 \in 0..MaxVer
      BY <2>1 DEF WatchInv, DirectoryOK, Known, Move
    <3>2. rec' = [rec EXCEPT ![b] = [owner |-> o, ver |-> rec[b].ver + 1]]
      BY <2>1 DEF Move, Set
    <3>3. rec' \in [Battles -> Known]
      BY <3>1, <3>2 DEF WatchInv, DirectoryOK, Known
    <3>4. Event(b)' \in News
      BY <3>3 DEF Event, News, Known
    <3>5. Append(chan, Event(b)') \in Seq(News)
      BY <3>4 DEF WatchInv, DirectoryOK
    <3> QED
      BY <2>1, <3>3, <3>5 DEF WatchInv, DirectoryOK, Move
  <2>2. CASE Renew(b)
    <3>1. Event(b) \in News
      BY DEF WatchInv, DirectoryOK, Event, News, Known
    <3>2. <<Event(b)>> \in Seq(News)
      BY <3>1
    <3> QED
      BY <2>2, <3>2 DEF WatchInv, DirectoryOK, Renew
  <2> QED
    BY <2>1, <2>2
<1>3. HubGood'
  BY <1>1, HubStays DEF WatchInv
<1>4. TablesOK' /\ PlacesOK' /\ LocalsOK' /\ GuardPlaces' /\ EvictedHeld'
  BY <1>1 DEF WatchInv, TablesOK, PlacesOK, LocalsOK, GuardPlaces, EvictedHeld, hub,
     shared, callers, locals
<1> QED
  BY <1>1, <1>2, <1>3, <1>4 DEF WatchInv

\* A watch starts with the records there are, one event each.
LEMMA StartOK ==
  ASSUME DirectoryOK, HubOK, Start
  PROVE  chan' \in Seq(News) /\ gen' \in 0..MaxGen /\ stream' \in Watch
         /\ stream'.up = "yes" /\ stream'.idle = "no"
<1> DEFINE owned == {b \in Battles : rec[b].owner # None}
           n == Cardinality(owned)
<1>1. n \in Nat
  <2>1. owned \in SUBSET Battles
    OBVIOUS
  <2> HIDE DEF owned
  <2> QED
    BY <2>1, FS_Subset, FS_CardinalityType
<1>2. PICK s \in [1..n -> owned] : chan' = [i \in DOMAIN s |-> Event(s[i])]
  BY DEF Start
<1>3. chan' \in [1..n -> News]
  <2>1. ASSUME NEW i \in 1..n PROVE Event(s[i]) \in News
    BY <2>1 DEF DirectoryOK, Event, News, Known
  <2> HIDE DEF n, owned
  <2> QED
    BY <1>2, <2>1
<1>4. chan' \in Seq(News)
  <2> HIDE DEF n
  <2> QED
    BY <1>1, <1>3, SequenceOf
<1> QED
  BY <1>4 DEF Start, HubOK, Watch

\* A caller gets a topic, and a watch is up.
LEMMA AttachStep ==
  ASSUME WatchInv, NEW t \in Callers, Attach(t)
  PROVE  WatchInv' /\ \A b \in Battles : Subs(b)' = Subs(b)
<1>1. at[t] \in Battles /\ pc[t] = "attach"
  BY DEF WatchInv, PlacesOK, Attach
<1>2. /\ chan' \in Seq(News) /\ gen' \in 0..MaxGen
      /\ stream' \in Watch /\ stream'.up = "yes" /\ stream'.idle = "no"
      /\ Up => gen' = gen
  <2>1. CASE Up
    <3>1. stream \in Watch /\ stream' = [stream EXCEPT !.idle = "no"] /\ UNCHANGED <<chan, gen>>
      BY <2>1 DEF WatchInv, HubGood, HubOK, Attach, EnsureStream, Up
    <3> QED
      BY <2>1, <3>1 DEF WatchInv, DirectoryOK, HubGood, HubOK, Watch, Up
  <2>2. CASE ~Up
    BY <2>2, StartOK DEF WatchInv, HubGood, Attach, EnsureStream
  <2> QED
    BY <2>1, <2>2
<1>3. /\ topics' \in [Battles -> Topic \cup {None}]
      /\ topics'[at[t]] \in Topic
      /\ \A b \in Battles : topics'[b] # topics[b] =>
            topics[b] = None /\ topics'[b].owner = None /\ topics'[b].subs = {}
  <2>1. topics \in [Battles -> Topic \cup {None}]
    BY DEF WatchInv, HubGood, HubOK
  <2>2. NewTopic \in Topic /\ NewTopic.subs = {} /\ NewTopic.owner = None
    BY NewTopicOK DEF WatchInv, HubGood
  <2>3. topics' = IF topics[at[t]] = None THEN [topics EXCEPT ![at[t]] = NewTopic] ELSE topics
    BY DEF Attach, Set
  <2> QED
    BY <1>1, <2>1, <2>2, <2>3
<1>4. HubGood'
  <2>1. HubOK'
    BY <1>2, <1>3 DEF WatchInv, HubGood, HubOK, Attach
  <2>2. IdleWatched'
    BY <1>1, <1>2, <1>3, NoneAssumption DEF IdleWatched, Unused
  <2>3. KnownOfGeneration'
    <3>1. Up'
      BY <1>2, NoneAssumption DEF Up
    <3>2. ASSUME NEW b \in Battles, topics'[b] # None, topics'[b].owner # None
          PROVE  topics'[b].gen = gen'
      BY <3>2, <1>2, <1>3 DEF WatchInv, HubGood, KnownOfGeneration
    <3> QED
      BY <3>1, <3>2 DEF KnownOfGeneration
  <2> QED
    BY <2>1, <2>2, <2>3 DEF HubGood
<1>5. TablesOK' /\ EvictedHeld' /\ DirectoryOK'
  BY <1>2 DEF WatchInv, TablesOK, EvictedHeld, DirectoryOK, Attach, shared
<1>6. LocalsOK'
  BY <1>1, <1>3 DEF WatchInv, LocalsOK, Attach, Set, Topic
<1>7. PlacesOK' /\ GuardPlaces'
  BY <1>1 DEF WatchInv, PlacesOK, GuardPlaces, Attach, Go, Set, shared
<1>8. \A b \in Battles : Subs(b)' = Subs(b)
  BY <1>3, NoneAssumption DEF Subs
<1> QED
  BY <1>4, <1>5, <1>6, <1>7, <1>8 DEF WatchInv

\* Without a watch: the resolver queries, the guard goes on.
LEMMA AttachFailsStep ==
  ASSUME WatchInv, NEW t \in Callers, AttachFails(t)
  PROVE  WatchInv' /\ (\A b \in Battles : Subs(b)' = Subs(b))
         /\ \A b \in Battles : entry'[b] # None => entry[b] # None /\ entry'[b].sub = entry[b].sub
<1>1. at[t] \in Battles /\ pc[t] = "attach"
  BY DEF WatchInv, PlacesOK, AttachFails
<1>2. stream' \in {stream, None} /\ (stream' # stream => Unused(topics)) /\ (Unused(topics) => stream' = None)
  BY DEF AttachFails
<1>3. HubGood'
  BY <1>2, NoneAssumption DEF WatchInv, HubGood, HubOK, IdleWatched, KnownOfGeneration, Unused, Up,
     AttachFails
<1>4. entry' \in [Battles -> Entry \cup {None}]
      /\ \A b \in Battles : entry'[b] # None => entry[b] # None /\ entry'[b].sub = entry[b].sub
  <2>1. CASE entry' = entry
    BY <2>1 DEF WatchInv, TablesOK
  <2>2. CASE entry[at[t]] # None
             /\ entry' = [entry EXCEPT ![at[t]] = [entry[at[t]] EXCEPT !.phase = "backoff"]]
    <3>1. entry[at[t]] \in Entry
      BY <1>1, <2>2 DEF WatchInv, TablesOK
    <3>2. /\ [entry[at[t]] EXCEPT !.phase = "backoff"] \in Entry
          /\ [entry[at[t]] EXCEPT !.phase = "backoff"].sub = entry[at[t]].sub
      BY <3>1 DEF Entry
    <3> QED
      BY <1>1, <2>2, <3>2 DEF WatchInv, TablesOK
  <2> QED
    BY <2>1, <2>2 DEF AttachFails, Set
<1>5. DirectoryOK' /\ TablesOK' /\ LocalsOK' /\ EvictedHeld'
  BY <1>4 DEF WatchInv, DirectoryOK, TablesOK, LocalsOK, EvictedHeld, AttachFails, locals,
     directory
<1>6. PlacesOK' /\ GuardPlaces'
  BY <1>1 DEF WatchInv, PlacesOK, GuardPlaces, AttachFails, Go, Set, locals, Kinds
<1>7. \A b \in Battles : Subs(b)' = Subs(b)
  BY DEF Subs, AttachFails
<1> QED
  BY <1>3, <1>4, <1>5, <1>6, <1>7 DEF WatchInv

\* A subscription enters its topic with the next number, or the topic is looked for again.
LEMMA InsertStep ==
  ASSUME WatchInv, NEW t \in Callers, Insert(t)
  PROVE  /\ WatchInv'
         /\ \/ /\ UNCHANGED <<seq, num>> /\ Go(t, "attach")
               /\ \A b \in Battles : Subs(b)' = Subs(b)
            \/ /\ seq' = seq + 1 /\ num' = [num EXCEPT ![t] = seq'] /\ pc[t] = "waiting"
               /\ \E l \in {"calling", "returning"} : Go(t, l)
               /\ "overlap" \in Faults \/ \A u \in Callers : ~Attaching(u)
               /\ \A b \in Battles :
                     Subs(b)' = IF b = at[t]
                                THEN Subs(b) \cup {[num |-> seq', kind |-> kind[t]]}
                                ELSE Subs(b)
<1>1. at[t] \in Battles /\ pc[t] = "waiting"
  BY DEF WatchInv, PlacesOK, Insert
<1>2. CASE Go(t, "attach") /\ UNCHANGED <<seq, topics, num, owed>>
  <2>1. HubGood' /\ \A b \in Battles : Subs(b)' = Subs(b)
    BY <1>2, HubStays DEF WatchInv, Insert, hub
  <2>2. DirectoryOK' /\ TablesOK' /\ LocalsOK' /\ EvictedHeld'
    BY <1>2 DEF WatchInv, DirectoryOK, TablesOK, LocalsOK, EvictedHeld, Insert, directory,
       shared
  <2>3. PlacesOK' /\ GuardPlaces'
    BY <1>1, <1>2 DEF WatchInv, PlacesOK, GuardPlaces, Insert, Go, Set, shared
  <2> QED
    BY <1>2, <2>1, <2>2, <2>3 DEF WatchInv
<1>3. CASE ~(Go(t, "attach") /\ UNCHANGED <<seq, topics, num, owed>>)
  <2> DEFINE b == at[t]
             s == [num |-> seq + 1, kind |-> kind[t]]
             tp == [topics[b] EXCEPT !.subs = @ \cup {s}]
  <2>1. /\ topics[b] # None /\ seq < MaxSubs /\ seq' = seq + 1
        /\ "overlap" \in Faults \/ \A u \in Callers : ~Attaching(u)
        /\ topics' = [topics EXCEPT ![b] = tp] /\ num' = [num EXCEPT ![t] = seq']
        /\ owed' = [owed EXCEPT ![t] = [owner |-> topics[b].owner, ver |-> topics[b].ver]]
        /\ pc' = [pc EXCEPT ![t] = IF topics[b].owner = None THEN "returning" ELSE "calling"]
    BY <1>3 DEF Insert, Set, Go
  <2>2. topics[b] \in Topic /\ s \in Sub /\ seq + 1 \in 0..MaxSubs
    BY <1>1, <2>1 DEF WatchInv, HubGood, HubOK, PlacesOK, Sub
  <2>3. tp \in Topic /\ tp.subs = topics[b].subs \cup {s} /\ tp.owner = topics[b].owner
        /\ tp.gen = topics[b].gen
    BY <2>2 DEF Topic
  <2>4. [owner |-> topics[b].owner, ver |-> topics[b].ver] \in Known
    BY <2>2 DEF Topic, Known
  <2> HIDE DEF tp
  <2>5. HubGood'
    <3>1. HubOK'
      BY <1>1, <2>1, <2>2, <2>3 DEF WatchInv, HubGood, HubOK, Insert
    <3>2. IdleWatched'
      BY <1>1, <2>1, <2>3, NoneAssumption DEF WatchInv, HubGood, HubOK, IdleWatched, Unused,
         Insert
    <3>3. KnownOfGeneration'
      BY <1>1, <2>1, <2>3 DEF WatchInv, HubGood, HubOK, KnownOfGeneration, Up, Insert
    <3> QED
      BY <3>1, <3>2, <3>3 DEF HubGood
  <2>6. DirectoryOK' /\ TablesOK' /\ EvictedHeld'
    BY DEF WatchInv, DirectoryOK, TablesOK, EvictedHeld, Insert, directory, shared
  <2>7. LocalsOK'
    <3>1. num' \in [Callers -> 0..seq']
      BY <2>1, <2>2 DEF WatchInv, LocalsOK, HubGood, HubOK
    <3> QED
      BY <2>1, <2>4, <3>1 DEF WatchInv, LocalsOK, Insert
  <2>8. PlacesOK' /\ GuardPlaces'
    BY <1>1, <2>1 DEF WatchInv, PlacesOK, GuardPlaces, Insert, shared
  <2>9. \A c \in Battles :
           Subs(c)' = IF c = at[t] THEN Subs(c) \cup {[num |-> seq', kind |-> kind[t]]}
                      ELSE Subs(c)
    BY <1>1, <2>1, <2>3, NoneAssumption DEF WatchInv, HubGood, HubOK, Subs
  <2>10. \E l \in {"calling", "returning"} : Go(t, l)
    BY <2>1 DEF Go, Set
  <2> QED
    BY <1>1, <2>1, <2>5, <2>6, <2>7, <2>8, <2>9, <2>10 DEF WatchInv
<1> QED
  BY <1>2, <1>3

\* The caller is told the owner it was owed.
LEMMA CallStep ==
  ASSUME WatchInv, NEW t \in Callers, Call(t)
  PROVE  WatchInv' /\ at[t] \in Battles /\ Told(at[t])
<1>1. at[t] \in Battles /\ pc[t] = "calling" /\ owed[t] \in Known
  BY DEF WatchInv, PlacesOK, LocalsOK, Call
<1>2. owed[t].owner \in Owners /\ owed[t].ver \in 0..MaxVer
  BY <1>1 DEF Known
<1>3. /\ Notify(at[t], {kind[t]}, owed[t].owner)
      /\ UNCHANGED <<directory, gen, seq, batch, guarded, locals>>
  BY DEF Call
<1>4. HubGood' /\ TablesOK' /\ EvictedHeld' /\ Told(at[t])
  BY <1>1, <1>2, <1>3, NotifyKeeps DEF WatchInv, HubGood, HubOK
<1>5. DirectoryOK' /\ LocalsOK'
  BY <1>2, <1>3 DEF WatchInv, DirectoryOK, LocalsOK, directory, locals, Call, Set
<1>6. PlacesOK' /\ GuardPlaces'
  BY <1>1, <1>3 DEF WatchInv, PlacesOK, GuardPlaces, Call, Go, Set, locals
<1> QED
  BY <1>1, <1>4, <1>5, <1>6 DEF WatchInv

\* What the return of a subscription does: number n is held by the entry or by the guard,
\* or is removed as there is no entry any more.
Kept(t, n) ==
    \/ /\ UNCHANGED <<entry, guarded>>
       /\ \A c \in Battles :
             Subs(c)' = IF c = at[t] THEN {s \in Subs(c) : s.num # n} ELSE Subs(c)
    \/ /\ kind[t] = "resolver" /\ UNCHANGED guarded
       /\ \A c \in Battles : Subs(c)' = Subs(c)
       /\ \A c \in Battles : entry'[c] # None =>
             entry[c] # None /\ entry'[c].sub = IF c = at[t] THEN n ELSE entry[c].sub
    \/ /\ kind[t] = "guard" /\ UNCHANGED entry
       /\ \A c \in Battles : Subs(c)' = Subs(c)
       /\ \A c \in Battles : guarded'[c] # None =>
             guarded[c] # None /\ guarded'[c].sub = IF c = at[t] THEN n ELSE guarded[c].sub

LEMMA ReturnStep ==
  ASSUME WatchInv, NEW t \in Callers, Return(t)
  PROVE  WatchInv' /\ \E n \in num[t]..seq : Kept(t, n)
<1> DEFINE b == at[t]
<1>1. at[t] \in Battles /\ pc[t] = "returning" /\ num[t] \in Nat /\ seq \in Nat
      /\ kind[t] \in Kinds
  BY DEF WatchInv, PlacesOK, LocalsOK, HubGood, HubOK, Return
<1>2. PICK n \in num[t]..seq :
         IF kind[t] = "resolver"
         THEN /\ Go(t, "query") /\ UNCHANGED guarded
              /\ IF entry[b] = None
                 THEN Unsubscribe(b, n) /\ UNCHANGED entry
                 ELSE /\ entry' = Set(entry, b, [entry[b] EXCEPT !.sub = n, !.phase = "none"])
                      /\ UNCHANGED <<topics, stream>>
         ELSE /\ Go(t, "streaming") /\ UNCHANGED entry
              /\ IF guarded[b] = None
                 THEN Unsubscribe(b, n) /\ UNCHANGED guarded
                 ELSE /\ guarded' = Set(guarded, b, [guarded[b] EXCEPT !.sub = n])
                      /\ UNCHANGED <<topics, stream>>
  BY DEF Return
<1>3. n \in Nat
  BY <1>1
<1>4. UNCHANGED <<directory, gen, seq, batch, unsure, evicted, at, kind, found>>
  BY DEF Return
<1>5. HubGood' /\ TablesOK' /\ Kept(t, n) /\ EvictedHeld' /\ PlacesOK' /\ GuardPlaces'
  <2>1. CASE kind[t] = "resolver" /\ entry[b] = None
    <3>1. Unsubscribe(b, n) /\ UNCHANGED <<entry, guarded>> /\ Go(t, "query")
      BY <1>2, <2>1
    <3>2. HubGood' /\ Kept(t, n)
      <4>1. HubGood /\ batch' \in Seq(Pending)
        BY <1>4 DEF WatchInv, HubGood, HubOK
      <4> QED
        BY <1>1, <1>3, <1>4, <3>1, <4>1, UnsubscribeKeeps DEF Kept
    <3>3. TablesOK' /\ EvictedHeld'
      BY <1>4, <3>1 DEF WatchInv, TablesOK, EvictedHeld
    <3>4. PlacesOK' /\ GuardPlaces'
      BY <1>1, <1>4, <2>1, <3>1 DEF WatchInv, PlacesOK, GuardPlaces, Go, Set
    <3> QED
      BY <3>2, <3>3, <3>4
  <2>2. CASE kind[t] = "resolver" /\ entry[b] # None
    <3>1. /\ entry' = [entry EXCEPT ![b] = [entry[b] EXCEPT !.sub = n, !.phase = "none"]]
          /\ UNCHANGED <<topics, stream, guarded>> /\ Go(t, "query")
      BY <1>2, <2>2 DEF Set
    <3>2. HubGood' /\ \A c \in Battles : Subs(c)' = Subs(c)
      BY <1>4, <3>1, HubStays DEF WatchInv, hub
    <3>3. entry[b] \in Entry
      BY <1>1, <2>2 DEF WatchInv, TablesOK
    <3>4. [entry[b] EXCEPT !.sub = n, !.phase = "none"] \in Entry
          /\ [entry[b] EXCEPT !.sub = n, !.phase = "none"].sub = n
      BY <1>3, <3>3 DEF Entry
    <3>5. TablesOK'
      BY <1>1, <3>1, <3>4 DEF WatchInv, TablesOK
    <3>6. Kept(t, n)
      BY <1>1, <2>2, <3>1, <3>2, <3>4 DEF Kept, WatchInv, TablesOK
    <3>7. EvictedHeld'
      BY <1>4, <3>1 DEF WatchInv, EvictedHeld
    <3>8. PlacesOK' /\ GuardPlaces'
      BY <1>1, <1>4, <2>2, <3>1 DEF WatchInv, PlacesOK, GuardPlaces, Go, Set
    <3> QED
      BY <3>2, <3>5, <3>6, <3>7, <3>8
  <2>3. CASE kind[t] # "resolver"
    <3>1. kind[t] = "guard" /\ guarded[b] # None
      BY <1>1, <2>3 DEF WatchInv, GuardPlaces, Kinds
    <3>2. /\ guarded' = [guarded EXCEPT ![b] = [guarded[b] EXCEPT !.sub = n]]
          /\ UNCHANGED <<topics, stream, entry>> /\ Go(t, "streaming")
      BY <1>2, <2>3, <3>1 DEF Set
    <3>3. HubGood' /\ \A c \in Battles : Subs(c)' = Subs(c)
      BY <1>4, <3>2, HubStays DEF WatchInv, hub
    <3>4. guarded[b] \in Guard
      BY <1>1, <3>1 DEF WatchInv, TablesOK
    <3>5. [guarded[b] EXCEPT !.sub = n] \in Guard /\ [guarded[b] EXCEPT !.sub = n].sub = n
          /\ [guarded[b] EXCEPT !.sub = n].streams = guarded[b].streams
      BY <1>3, <3>4 DEF Guard
    <3>6. TablesOK'
      BY <1>1, <3>2, <3>5 DEF WatchInv, TablesOK
    <3>7. Kept(t, n)
      BY <1>1, <3>1, <3>2, <3>3, <3>5 DEF Kept, WatchInv, TablesOK
    <3>8. \A c \in Battles : guarded[c] # None =>
             guarded'[c] # None /\ guarded'[c].streams = guarded[c].streams
      BY <1>1, <3>2, <3>5, NoneAssumption DEF WatchInv, TablesOK
    <3>9. EvictedHeld'
      BY <1>4, <3>8 DEF WatchInv, EvictedHeld
    <3>10. PlacesOK'
      BY <1>1, <1>4, <3>2 DEF WatchInv, PlacesOK, Go, Set
    <3>11. GuardPlaces'
      BY <1>1, <1>4, <3>1, <3>2, <3>8 DEF WatchInv, PlacesOK, GuardPlaces, Kinds, Go, Set
    <3> QED
      BY <3>3, <3>6, <3>7, <3>9, <3>10, <3>11
  <2> QED
    BY <2>1, <2>2, <2>3
<1>6. DirectoryOK' /\ LocalsOK'
  BY <1>1, <1>4 DEF WatchInv, DirectoryOK, LocalsOK, Return, Set, directory, NoEvent, Known, Owners
<1> QED
  BY <1>5, <1>6 DEF WatchInv

\* A dispatch notes what is known and who has to be told.
LEMMA DispatchStep ==
  ASSUME WatchInv, NEW n \in 1..Len(chan), Dispatch(n)
  PROVE  WatchInv' /\ \A b \in Battles : Subs(b)' = Subs(b)
<1> DEFINE es == SubSeq(chan, 1, n)
<1>1. chan \in Seq(News) /\ Len(chan) \in Nat /\ n \in Nat
  BY DEF WatchInv, DirectoryOK
<1>2. es \in Seq(News) /\ chan' \in Seq(News)
  <2>1. \A i \in 1..n : chan[i] \in News
    BY <1>1, ElementOfSeq
  <2>2. \A i \in (n + 1)..Len(chan) : chan[i] \in News
    BY <1>1, ElementOfSeq
  <2>3. es \in Seq(News)
    BY <1>1, <2>1, SubSeqProperties, 1 \in Int, n \in Int
  <2>4. SubSeq(chan, n + 1, Len(chan)) \in Seq(News)
    BY <1>1, <2>2, SubSeqProperties, n + 1 \in Int, Len(chan) \in Int
  <2> QED
    BY <2>3, <2>4 DEF Dispatch
<1>3. /\ UNCHANGED <<rec, stream, gen, seq, shared, callers, told>> /\ Up
      /\ topics' = [b \in Battles |-> IF topics[b] = None THEN None ELSE Newest(b, es)]
      /\ batch' = [i \in DOMAIN es |-> Delivery(es[i])]
  BY DEF Dispatch
<1> HIDE DEF es
<1>4. batch' \in Seq(Pending)
  <2>1. ASSUME NEW i \in DOMAIN es PROVE Delivery(es[i]) \in Pending
    <3>1. es[i] \in News /\ es[i].battle \in Battles
      <4>1. i \in 1..Len(es)
        BY <1>2
      <4>2. es[i] \in News
        BY <1>2, <4>1, ElementOfSeq
      <4> QED
        BY <4>2 DEF News
    <3>2. /\ Subs(es[i].battle) \in SUBSET Sub
          /\ topics[es[i].battle] # None => topics[es[i].battle].no \in Nat
      BY <3>1 DEF WatchInv, HubGood, HubOK, Topic, Subs
    <3> QED
      BY <3>1, <3>2 DEF Delivery, Pending
  <2>2. DOMAIN es = 1..Len(es) /\ Len(es) \in Nat
    BY <1>2
  <2>3. batch' \in [1..Len(es) -> Pending]
    BY <1>3, <2>1, <2>2
  <2> QED
    BY <2>2, <2>3, SequenceOf
<1>5. \A b \in Battles :
         IF topics[b] = None THEN topics'[b] = None
         ELSE /\ topics'[b] \in Topic /\ topics'[b].subs = topics[b].subs
              /\ topics'[b] = topics[b] \/ topics'[b].gen = gen
  BY <1>2, <1>3, NewestOK DEF WatchInv, HubGood
<1>6. HubGood'
  <2>1. HubOK'
    BY <1>3, <1>4, <1>5 DEF WatchInv, HubGood, HubOK
  <2>2. IdleWatched'
    BY <1>3, <1>5, NoneAssumption DEF WatchInv, HubGood, IdleWatched, Unused
  <2>3. KnownOfGeneration'
    BY <1>3, <1>5 DEF WatchInv, HubGood, KnownOfGeneration, Up
  <2> QED
    BY <2>1, <2>2, <2>3 DEF HubGood
<1>7. DirectoryOK' /\ TablesOK' /\ PlacesOK' /\ LocalsOK' /\ GuardPlaces' /\ EvictedHeld'
  BY <1>2, <1>3 DEF WatchInv, DirectoryOK, TablesOK, PlacesOK, LocalsOK, GuardPlaces,
     EvictedHeld, shared, callers, locals
<1>8. \A b \in Battles : Subs(b)' = Subs(b)
  BY <1>5, NoneAssumption DEF Subs
<1> QED
  BY <1>6, <1>7, <1>8 DEF WatchInv

\* One delivery tells the subscribers of one battle.
LEMMA DeliverStep ==
  ASSUME WatchInv, Deliver
  PROVE  WatchInv' /\ \E b \in Battles : Told(b)
<1> DEFINE d == Head(batch)
           kinds == {s.kind : s \in d.subs}
<1>1. d \in Pending /\ Tail(batch) \in Seq(Pending)
  BY HeadTailProperties DEF WatchInv, HubGood, HubOK, Deliver
<1>2. d.event.battle \in Battles /\ d.event.owner \in Owners /\ d.event.ver \in 0..MaxVer
  BY <1>1 DEF Pending, News
<1>3. /\ Notify(d.event.battle, kinds, d.event.owner)
      /\ UNCHANGED <<directory, gen, seq, guarded, callers>>
      /\ batch' = Tail(batch)
  BY DEF Deliver
<1>4. told' \in [Callers -> 0..MaxVer]
  BY <1>2 DEF WatchInv, LocalsOK, Deliver
<1> HIDE DEF d, kinds
<1>5. HubGood' /\ TablesOK' /\ EvictedHeld' /\ Told(d.event.battle)
  BY <1>1, <1>2, <1>3, NotifyKeeps DEF WatchInv
<1>6. DirectoryOK' /\ LocalsOK' /\ PlacesOK' /\ GuardPlaces'
  BY <1>3, <1>4 DEF WatchInv, DirectoryOK, LocalsOK, PlacesOK, GuardPlaces, directory,
     callers, locals
<1> QED
  BY <1>2, <1>5, <1>6 DEF WatchInv

\* The end of the watch forgets what was known; the timer ends a watch without topics.
LEMMA WatchEnds ==
  ASSUME WatchInv, StreamEnded \/ CloseIdle
  PROVE  WatchInv' /\ \A b \in Battles : Subs(b)' = Subs(b)
<1>1. UNCHANGED <<rec, gen, seq, batch, shared, callers, told>> /\ chan' = <<>>
      /\ stream \in Watch
  BY NoneAssumption DEF StreamEnded, CloseIdle, WatchInv, HubGood, HubOK, Up
<1>2. DirectoryOK' /\ TablesOK' /\ PlacesOK' /\ LocalsOK' /\ GuardPlaces' /\ EvictedHeld'
  BY <1>1, EmptySeq DEF WatchInv, DirectoryOK, TablesOK, PlacesOK, LocalsOK, GuardPlaces,
     EvictedHeld, shared, callers, locals
<1>3. CASE StreamEnded
  <2>1. /\ stream' = [stream EXCEPT !.up = "no"]
        /\ topics' = [b \in Battles |->
                         IF topics[b] = None THEN None ELSE [topics[b] EXCEPT !.owner = None]]
    BY <1>3 DEF StreamEnded
  <2>2. stream' \in Watch /\ stream'.idle = stream.idle
    BY <1>1, <2>1 DEF Watch
  <2>3. \A b \in Battles :
           IF topics[b] = None THEN topics'[b] = None
           ELSE /\ topics'[b] \in Topic /\ topics'[b].owner = None
                /\ topics'[b].subs = topics[b].subs
    BY <2>1 DEF WatchInv, HubGood, HubOK, Topic, Owners
  <2>4. HubOK'
    BY <1>1, <2>1, <2>2, <2>3 DEF WatchInv, HubGood, HubOK
  <2>5. IdleWatched' /\ KnownOfGeneration'
    BY <1>1, <2>2, <2>3, NoneAssumption DEF WatchInv, HubGood, IdleWatched, Unused, KnownOfGeneration
  <2>6. \A b \in Battles : Subs(b)' = Subs(b)
    BY <2>3, NoneAssumption DEF Subs
  <2> QED
    BY <1>2, <2>4, <2>5, <2>6 DEF WatchInv, HubGood
<1>4. CASE CloseIdle
  BY <1>1, <1>2, <1>4 DEF CloseIdle, WatchInv, HubGood, HubOK, IdleWatched, Unused,
     KnownOfGeneration, Subs
<1> QED
  BY <1>3, <1>4

\* A step that leaves the hub, the guard and the subscriptions that are being made alone,
\* and gives no entry a subscription.
Quiet ==
    /\ UNCHANGED <<hub, guarded, evicted, num>>
    /\ \A c \in Battles : Subs(c)' = Subs(c)
    /\ \A c \in Battles : entry'[c] # None /\ entry'[c].sub # 0 =>
          entry[c] # None /\ entry'[c].sub = entry[c].sub
    /\ \A u \in Callers : Attaching(u)' <=> Attaching(u)
    /\ \A u \in Callers : Attaching(u) => at'[u] = at[u] /\ kind'[u] = kind[u]

\* The steps of the resolver that leave the hub and the guard alone: no entry gets a
\* subscription by them.
LEMMA ResolverSteps ==
  ASSUME WatchInv, NEW t \in Callers,
         (\E b \in Battles : Lookup(t, b)) \/ Resolving(t)
  PROVE  WatchInv' /\ Quiet
<1>0. (\E b \in Battles : Lookup(t, b)) \/ BeginOwnerWatch(t) \/ Query(t) \/ StoreOwner(t)
  BY DEF Resolving
<1>1. UNCHANGED <<hub, guarded, evicted, topic, num, owed, told>>
  BY <1>0 DEF Lookup, BeginOwnerWatch, Query, StoreOwner, locals
<1>2. HubGood' /\ \A c \in Battles : Subs(c)' = Subs(c)
  BY <1>1, HubStays DEF WatchInv
<1>3. /\ entry' \in [Battles -> Entry \cup {None}]
      /\ \A c \in Battles : entry'[c] # None /\ entry'[c].sub # 0 =>
            entry[c] # None /\ entry'[c].sub = entry[c].sub
  <2> DEFINE Good == /\ entry' \in [Battles -> Entry \cup {None}]
                     /\ \A c \in Battles : entry'[c] # None /\ entry'[c].sub # 0 =>
                           entry[c] # None /\ entry'[c].sub = entry[c].sub
  <2>0. entry \in [Battles -> Entry \cup {None}]
    BY DEF WatchInv, TablesOK
  <2>1. CASE \E b \in Battles : Lookup(t, b)
    <3>1. ASSUME NEW e \in Entry
          PROVE  /\ [e EXCEPT !.older = @ \ {t}] \in Entry
                 /\ [e EXCEPT !.older = @ \ {t}].sub = e.sub
      BY DEF Entry
    <3>2. entry' = [c \in Battles |->
             IF entry[c] = None THEN None ELSE [entry[c] EXCEPT !.older = @ \ {t}]]
      BY <2>1 DEF Lookup
    <3>3. \A c \in Battles : IF entry[c] = None THEN entry'[c] = None
                             ELSE entry'[c] \in Entry /\ entry'[c].sub = entry[c].sub
      BY <2>0, <3>1, <3>2
    <3> QED
      BY <3>2, <3>3
  <2>2. CASE BeginOwnerWatch(t)
    <3> DEFINE a == at[t]
               e == IF entry[a] = None THEN NewEntry ELSE entry[a]
    <3>1. a \in Battles
      BY <2>2 DEF WatchInv, PlacesOK, BeginOwnerWatch
    <3>2. e \in Entry /\ (entry[a] # None => e.sub = entry[a].sub)
          /\ (entry[a] = None => e.sub = 0)
      BY <2>0, <3>1 DEF NewEntry, Entry, Owners
    <3>3. [e EXCEPT !.phase = "starting"] \in Entry
          /\ [e EXCEPT !.phase = "starting"].sub = e.sub
      BY <3>2 DEF Entry
    <3>4. \/ entry' = [entry EXCEPT ![a] = [e EXCEPT !.phase = "starting"]]
          \/ entry' = [entry EXCEPT ![a] = e]
      BY <2>2 DEF BeginOwnerWatch, Set
    <3> HIDE DEF e, a
    <3> QED
      BY <2>0, <3>1, <3>2, <3>3, <3>4
  <2>3. ASSUME NEW c \in Battles, NEW e \in Entry, entry[c] # None, e.sub = entry[c].sub,
               entry' = Set(entry, c, e)
        PROVE  Good
    BY <2>0, <2>3 DEF Set
  <2>5. CASE Query(t)
    BY <2>0, <2>5 DEF Query
  <2>6. CASE StoreOwner(t)
    <3> DEFINE e == [entry[at[t]] EXCEPT !.owner = found[t], !.fresh = "yes"]
    <3>1. at[t] \in Battles /\ found[t] \in Owners
      BY <2>6 DEF WatchInv, PlacesOK, LocalsOK, StoreOwner
    <3>2. CASE Superseded(entry[at[t]], t)
      BY <2>0, <2>6, <3>2 DEF StoreOwner
    <3>3. CASE ~Superseded(entry[at[t]], t)
      <4>1. entry[at[t]] \in Entry
        BY <2>0, <3>1, <3>3 DEF Superseded
      <4>2. e \in Entry /\ e.sub = entry[at[t]].sub
        BY <3>1, <4>1 DEF Entry
      <4>3. entry' = Set(entry, at[t], e) /\ entry[at[t]] # None
        BY <2>6, <3>3 DEF StoreOwner, Superseded
      <4> QED
        BY <2>3, <3>1, <4>2, <4>3
    <3> QED
      BY <3>2, <3>3
  <2> QED
    BY <1>0, <2>1, <2>2, <2>5, <2>6
<1>4. DirectoryOK' /\ TablesOK' /\ EvictedHeld'
  <2>1. UNCHANGED directory
    BY <1>0 DEF Lookup, BeginOwnerWatch, Query, StoreOwner
  <2> QED
    BY <1>1, <1>3, <2>1 DEF WatchInv, DirectoryOK, directory, TablesOK, EvictedHeld
<1>5. found' \in [Callers -> Owners]
  <2>1. ASSUME NEW b \in Battles, Lookup(t, b) PROVE found' \in [Callers -> Owners]
    <3>1. Usable(entry[b]) => entry[b].owner \in Owners
      BY DEF Usable, WatchInv, TablesOK, Entry
    <3> QED
      BY <2>1, <3>1 DEF Lookup, WatchInv, LocalsOK, Set
  <2>2. CASE Query(t)
    <3>1. rec[at[t]].owner \in Owners
      BY <2>2 DEF Query, WatchInv, PlacesOK, DirectoryOK, Known
    <3> QED
      BY <2>2, <3>1 DEF Query, WatchInv, LocalsOK, Set
  <2> QED
    BY <1>0, <2>1, <2>2 DEF WatchInv, LocalsOK, BeginOwnerWatch, StoreOwner, locals
<1>6. LocalsOK'
  BY <1>1, <1>5 DEF WatchInv, LocalsOK, hub
<1>7. PlacesOK' /\ GuardPlaces' /\ (\A u \in Callers : Attaching(u)' <=> Attaching(u))
      /\ \A u \in Callers : Attaching(u) => at'[u] = at[u] /\ kind'[u] = kind[u]
  <2>1. CASE \E b \in Battles : Lookup(t, b)
    BY <1>1, <2>1 DEF WatchInv, PlacesOK, GuardPlaces, Attaching, Lookup, Go, Set
  <2>2. CASE BeginOwnerWatch(t)
    BY <1>1, <2>2 DEF WatchInv, PlacesOK, GuardPlaces, Attaching, BeginOwnerWatch, Go, Set, Kinds
  <2>3. CASE Query(t)
    BY <1>1, <2>3 DEF WatchInv, PlacesOK, GuardPlaces, Attaching, Query, Go, Set
  <2>4. CASE StoreOwner(t)
    BY <1>1, <2>4 DEF WatchInv, PlacesOK, GuardPlaces, Attaching, StoreOwner, Go, Set, locals
  <2> QED
    BY <1>0, <2>1, <2>2, <2>3, <2>4
<1> QED
  BY <1>1, <1>2, <1>3, <1>4, <1>6, <1>7 DEF WatchInv, Quiet

\* The backoff of an entry ends, or the entry gets old.
LEMMA TimerSteps ==
  ASSUME WatchInv, NEW b \in Battles, BackoffEnds(b) \/ Age(b)
  PROVE  WatchInv' /\ Quiet
<1>1. UNCHANGED <<directory, hub, guarded, evicted, callers, told>>
  BY DEF BackoffEnds, Age
<1>2. PICK e \in Entry : entry[b] # None /\ e.sub = entry[b].sub
                        /\ entry' = [entry EXCEPT ![b] = e]
  <2>1. entry[b] \in Entry /\ entry[b] # None
    BY DEF BackoffEnds, Age, WatchInv, TablesOK
  <2>2. /\ [entry[b] EXCEPT !.phase = "none"] \in Entry
        /\ [entry[b] EXCEPT !.phase = "none"].sub = entry[b].sub
        /\ [entry[b] EXCEPT !.fresh = "no"] \in Entry
        /\ [entry[b] EXCEPT !.fresh = "no"].sub = entry[b].sub
    BY <2>1 DEF Entry
  <2>3. \/ entry' = [entry EXCEPT ![b] = [entry[b] EXCEPT !.phase = "none"]]
        \/ entry' = [entry EXCEPT ![b] = [entry[b] EXCEPT !.fresh = "no"]]
    BY DEF BackoffEnds, Age, Set
  <2> QED
    BY <2>1, <2>2, <2>3
<1>3. HubGood' /\ \A c \in Battles : Subs(c)' = Subs(c)
  BY <1>1, HubStays DEF WatchInv
<1>4. TablesOK' /\ Quiet
  BY <1>1, <1>2, <1>3 DEF WatchInv, TablesOK, Quiet, Attaching, callers, locals
<1>5. DirectoryOK' /\ PlacesOK' /\ LocalsOK' /\ GuardPlaces' /\ EvictedHeld'
  BY <1>1 DEF WatchInv, DirectoryOK, PlacesOK, LocalsOK, GuardPlaces, EvictedHeld, directory,
     hub, callers, locals
<1> QED
  BY <1>3, <1>4, <1>5 DEF WatchInv

\* An entry that is too old goes, with its subscription.
LEMMA SweepStep ==
  ASSUME WatchInv, NEW b \in Battles, Sweep(b)
  PROVE  WatchInv' /\ Told(b) /\ UNCHANGED <<gen, seq, batch, guarded, callers>>
<1>1. /\ entry[b] # None /\ entry' = [entry EXCEPT ![b] = None]
      /\ UNCHANGED <<directory, gen, seq, batch, guarded, evicted, callers, told>>
      /\ IF entry[b].sub # 0 THEN Unsubscribe(b, entry[b].sub)
         ELSE UNCHANGED <<topics, stream>>
  BY DEF Sweep, Set
<1>2. HubGood /\ batch' \in Seq(Pending) /\ entry \in [Battles -> Entry \cup {None}]
  BY <1>1 DEF WatchInv, HubGood, HubOK, TablesOK
<1>3. entry[b].sub \in Nat
  BY <1>1, <1>2 DEF Entry
<1>4. HubGood' /\ Told(b)
  <2>1. /\ entry'[b] = None
        /\ \A c \in Battles : c # b => entry'[c] = entry[c]
    BY <1>1, <1>2
  <2>2. CASE entry[b].sub # 0
    <3>1. Unsubscribe(b, entry[b].sub)
      BY <1>1, <2>2
    <3>2. /\ HubGood'
          /\ \A c \in Battles :
                Subs(c)' = IF c = b THEN {s \in Subs(b) : s.num # entry[b].sub} ELSE Subs(c)
      BY <1>1, <1>2, <1>3, <3>1, UnsubscribeKeeps
    <3> QED
      BY <1>1, <2>1, <2>2, <3>2 DEF Told
  <2>3. CASE entry[b].sub = 0
    <3>1. UNCHANGED <<topics, stream>>
      BY <1>1, <2>3
    <3>2. HubGood' /\ \A c \in Battles : Subs(c)' = Subs(c)
      BY <1>1, <1>2, <3>1, TopicsStay
    <3> QED
      BY <2>1, <3>2 DEF Told
  <2> QED
    BY <2>2, <2>3
<1>5. DirectoryOK' /\ TablesOK' /\ PlacesOK' /\ LocalsOK' /\ GuardPlaces' /\ EvictedHeld'
  BY <1>1, <1>2 DEF WatchInv, DirectoryOK, TablesOK, PlacesOK, LocalsOK, GuardPlaces,
     EvictedHeld, directory, callers, locals
<1> QED
  BY <1>1, <1>4, <1>5 DEF WatchInv

\* A stream is registered before it is connected.
LEMMA RegisterStep ==
  ASSUME WatchInv, NEW t \in Callers, Register(t)
  PROVE  /\ WatchInv' /\ UNCHANGED <<hub, entry, at, num>>
         /\ pc[t] = "resolved" /\ \E l \in {"attach", "streaming"} : Go(t, l)
         /\ kind' = [kind EXCEPT ![t] = "guard"]
         /\ \A c \in Battles : guarded'[c] # None /\ guarded'[c].sub # 0 =>
               guarded[c] # None /\ guarded'[c].sub = guarded[c].sub
<1> DEFINE b == at[t]
<1>1. /\ b \in Battles /\ pc[t] = "resolved"
      /\ UNCHANGED <<directory, hub, entry, unsure, evicted, at, found, topic, num, owed, told>>
      /\ kind' = [kind EXCEPT ![t] = "guard"]
  BY DEF WatchInv, PlacesOK, Register, Set
<1>2. guarded \in [Battles -> Guard \cup {None}]
  BY DEF WatchInv, TablesOK
<1>3. /\ \E l \in {"attach", "streaming"} : Go(t, l)
      /\ guarded' \in [Battles -> Guard \cup {None}]
      /\ guarded'[b] \in Guard /\ t \in guarded'[b].streams
      /\ \A c \in Battles : guarded[c] # None =>
            guarded'[c] # None /\ guarded[c].streams \subseteq guarded'[c].streams
      /\ \A c \in Battles : guarded'[c] # None /\ guarded'[c].sub # 0 =>
            guarded[c] # None /\ guarded'[c].sub = guarded[c].sub
  <2>1. CASE guarded[b] = None
    <3> DEFINE g == [sub |-> 0, streams |-> {t}]
    <3>1. g \in Guard /\ g.sub = 0 /\ t \in g.streams
      BY DEF Guard
    <3>2. guarded' = [guarded EXCEPT ![b] = g] /\ Go(t, "attach")
      BY <2>1 DEF Register, Set
    <3> HIDE DEF g
    <3> QED
      BY <1>1, <1>2, <2>1, <3>1, <3>2
  <2>2. CASE guarded[b] # None
    <3> DEFINE g == [guarded[b] EXCEPT !.streams = @ \cup {t}]
    <3>1. guarded[b] \in Guard
      BY <1>1, <1>2, <2>2
    <3>2. g \in Guard /\ g.sub = guarded[b].sub /\ g.streams = guarded[b].streams \cup {t}
      BY <3>1 DEF Guard
    <3>3. guarded' = [guarded EXCEPT ![b] = g] /\ Go(t, "streaming")
      BY <2>2 DEF Register, Set
    <3> HIDE DEF g
    <3> QED
      BY <1>1, <1>2, <2>2, <3>2, <3>3, NoneAssumption
  <2> QED
    BY <2>1, <2>2
<1>4. HubGood'
  BY <1>1, HubStays DEF WatchInv
<1>5. DirectoryOK' /\ LocalsOK' /\ TablesOK' /\ EvictedHeld'
  BY <1>1, <1>3 DEF WatchInv, DirectoryOK, LocalsOK, TablesOK, EvictedHeld, directory, hub
<1>6. PlacesOK'
  BY <1>1, <1>3 DEF WatchInv, PlacesOK, Go, Set, Kinds
<1>7. GuardPlaces'
  <2>1. ASSUME NEW u \in Callers, u # t
        PROVE  pc'[u] = pc[u] /\ kind'[u] = kind[u] /\ at'[u] = at[u]
    BY <1>1, <1>3, <2>1 DEF WatchInv, PlacesOK, Go, Set
  <2>2. pc'[t] \in {"attach", "streaming"} /\ kind'[t] = "guard" /\ at'[t] = b
    BY <1>1, <1>3 DEF WatchInv, PlacesOK, Go, Set
  <2>3. guarded'[b] # None
    BY <1>3, NoneAssumption
  <2>4. ASSUME NEW u \in Callers, kind[u] = "guard" PROVE at[u] \in Battles
    BY <2>4 DEF WatchInv, PlacesOK, GuardPlaces
  <2> QED
    BY <1>3, <2>1, <2>2, <2>3, <2>4 DEF WatchInv, GuardPlaces
<1> QED
  BY <1>1, <1>3, <1>4, <1>5, <1>6, <1>7 DEF WatchInv

\* What the end of a stream of battle b does to the guard and to the subscriptions.
Released(b) ==
    /\ \A c \in Battles : c # b => guarded'[c] = guarded[c] /\ Subs(c)' = Subs(c)
    /\ guarded'[b] # None => guarded[b] # None /\ guarded'[b].sub = guarded[b].sub
    /\ \/ Subs(b)' = Subs(b)
       \/ /\ guarded'[b] = None /\ guarded[b] # None /\ guarded[b].sub # 0
          /\ Subs(b)' = {s \in Subs(b) : s.num # guarded[b].sub}

\* The last stream of a battle takes the subscription of the guard with it.
LEMMA UnregisterStep ==
  ASSUME WatchInv, NEW t \in Callers, Unregister(t)
  PROVE  /\ WatchInv' /\ UNCHANGED <<gen, seq, batch, entry, num>>
         /\ pc[t] = "streaming" /\ Leave(t)
         /\ \E b \in Battles : b = at[t] /\ Released(b)
<1>0. PICK b \in Battles : b = at[t]
  BY DEF WatchInv, PlacesOK, Unregister
<1>1. /\ b \in Battles /\ pc[t] = "streaming" /\ Leave(t)
      /\ UNCHANGED <<directory, gen, seq, batch, entry, unsure, told, topic, num, owed>>
      /\ evicted' = evicted \ {t}
  BY DEF WatchInv, PlacesOK, Unregister, Leave
<1>2. HubGood /\ batch' \in Seq(Pending) /\ guarded \in [Battles -> Guard \cup {None}]
  BY <1>1 DEF WatchInv, HubGood, HubOK, TablesOK
<1>3. guarded[b] \in Guard /\ guarded[b] # None /\ t \in guarded[b].streams
      /\ guarded[b].sub \in Nat
  BY <1>0, <1>1, <1>2 DEF WatchInv, GuardPlaces, Guard
<1>4. /\ HubGood' /\ Released(b) /\ guarded' \in [Battles -> Guard \cup {None}]
      /\ \A c \in Battles : \A u \in Callers \ {t} :
            guarded[c] # None /\ u \in guarded[c].streams =>
               guarded'[c] # None /\ u \in guarded'[c].streams
  <2>1. CASE LastStream(b, t)
    <3>1. guarded' = [guarded EXCEPT ![b] = None]
          /\ IF guarded[b].sub # 0 THEN Unsubscribe(b, guarded[b].sub)
             ELSE UNCHANGED <<topics, stream>>
      BY <1>0, <2>1 DEF Unregister, Set
    <3>2. /\ guarded' \in [Battles -> Guard \cup {None}] /\ guarded'[b] = None
          /\ \A c \in Battles : c # b => guarded'[c] = guarded[c]
          /\ guarded[b].streams = {t}
      BY <1>1, <1>2, <2>1, <3>1 DEF LastStream
    <3>3. CASE guarded[b].sub # 0
      <4>1. Unsubscribe(b, guarded[b].sub)
        BY <3>1, <3>3
      <4>2. /\ HubGood'
            /\ \A c \in Battles :
                  Subs(c)' = IF c = b THEN {s \in Subs(b) : s.num # guarded[b].sub} ELSE Subs(c)
        BY <1>1, <1>2, <1>3, <4>1, UnsubscribeKeeps
      <4>3. Released(b)
        BY <1>1, <1>3, <3>2, <3>3, <4>2 DEF Released
      <4> QED
        BY <1>1, <3>2, <4>2, <4>3
    <3>4. CASE guarded[b].sub = 0
      <4>1. UNCHANGED <<topics, stream>>
        BY <3>1, <3>4
      <4>2. HubGood' /\ \A c \in Battles : Subs(c)' = Subs(c)
        BY <1>1, <1>2, <4>1, TopicsStay
      <4>3. Released(b)
        BY <1>1, <3>2, <4>2 DEF Released
      <4> QED
        BY <1>1, <3>2, <4>2, <4>3
    <3> QED
      BY <3>3, <3>4
  <2>2. CASE ~LastStream(b, t)
    <3> DEFINE g == [guarded[b] EXCEPT !.streams = @ \ {t}]
    <3>1. guarded' = [guarded EXCEPT ![b] = g] /\ UNCHANGED <<topics, stream>>
      BY <1>0, <2>2 DEF Unregister, Set
    <3>2. g \in Guard /\ g.sub = guarded[b].sub /\ g.streams = guarded[b].streams \ {t}
      BY <1>3 DEF Guard
    <3>3. HubGood' /\ \A c \in Battles : Subs(c)' = Subs(c)
      BY <1>1, <1>2, <3>1, TopicsStay
    <3> HIDE DEF g
    <3>4. Released(b)
      BY <1>1, <1>2, <1>3, <3>1, <3>2, <3>3 DEF Released
    <3>5. g # None
      BY <3>2, NoneAssumption
    <3> QED
      BY <1>1, <1>2, <3>1, <3>2, <3>3, <3>4, <3>5
  <2> QED
    BY <2>1, <2>2
<1>5. DirectoryOK' /\ LocalsOK' /\ TablesOK'
  BY <1>1, <1>4 DEF WatchInv, DirectoryOK, LocalsOK, TablesOK, directory, Leave, Set, Owners
<1>6. EvictedHeld'
  <2>1. \A c \in Battles : guarded[c] # None => guarded[c].streams \in SUBSET Callers
    BY <1>2 DEF Guard
  <2> QED
    BY <1>1, <1>4, <2>1 DEF WatchInv, EvictedHeld
<1>7. PlacesOK'
  BY <1>1 DEF WatchInv, PlacesOK, Leave, Go, Set, Kinds
<1>8. GuardPlaces'
  <2>1. ASSUME NEW u \in Callers, u # t
        PROVE  pc'[u] = pc[u] /\ kind'[u] = kind[u] /\ at'[u] = at[u]
    BY <1>1, <2>1 DEF WatchInv, PlacesOK, Leave, Go, Set
  <2>2. pc'[t] = "idle" /\ kind'[t] = "resolver"
    BY <1>1 DEF WatchInv, PlacesOK, Leave, Go, Set
  <2>3. ASSUME NEW u \in Callers, kind[u] = "guard" PROVE at[u] \in Battles
    BY <2>3 DEF WatchInv, PlacesOK, GuardPlaces
  <2> QED
    BY <1>4, <2>1, <2>2, <2>3 DEF WatchInv, GuardPlaces
<1> QED
  BY <1>0, <1>1, <1>4, <1>5, <1>6, <1>7, <1>8 DEF WatchInv

LEMMA GiveUpStep ==
  ASSUME WatchInv, NEW t \in Callers, GiveUp(t)
  PROVE  WatchInv' /\ pc[t] = "resolved" /\ Leave(t) /\ UNCHANGED <<hub, shared>>
<1>1. pc[t] = "resolved" /\ Leave(t) /\ UNCHANGED <<directory, hub, shared, told>>
      /\ kind[t] = "resolver"
  BY DEF GiveUp, WatchInv, GuardPlaces
<1>2. HubGood'
  BY <1>1, HubStays DEF WatchInv
<1>3. DirectoryOK' /\ TablesOK' /\ LocalsOK' /\ EvictedHeld'
  BY <1>1 DEF WatchInv, DirectoryOK, TablesOK, LocalsOK, EvictedHeld, directory, hub, shared,
     Leave, Set, Owners
<1>4. PlacesOK' /\ GuardPlaces'
  BY <1>1 DEF WatchInv, PlacesOK, GuardPlaces, shared, Leave, Go, Set, Kinds
<1> QED
  BY <1>1, <1>2, <1>3, <1>4 DEF WatchInv

LEMMA WatchStep == WatchInv /\ [Next]_vars => WatchInv'
<1> SUFFICES ASSUME WatchInv, [Next]_vars PROVE WatchInv'
  OBVIOUS
<1>1. ASSUME NEW b \in Battles,
             \/ \E o \in Nodes \cup {None} : Move(b, o)
             \/ Renew(b) \/ BackoffEnds(b) \/ Age(b) \/ Sweep(b)
             \/ \E t \in Callers : Lookup(t, b)
      PROVE  WatchInv'
  <2>1. CASE (\E o \in Owners : Move(b, o)) \/ Renew(b)
    BY <2>1, DirectorySteps
  <2>2. CASE Sweep(b)
    BY <2>2, SweepStep
  <2>3. ASSUME NEW t \in Callers, Lookup(t, b) PROVE WatchInv'
    BY <2>3, ResolverSteps
  <2>4. CASE BackoffEnds(b) \/ Age(b)
    BY <2>4, TimerSteps
  <2> QED
    BY <1>1, <2>1, <2>2, <2>3, <2>4 DEF Owners
<1>2. ASSUME NEW n \in 1..Len(chan), Dispatch(n) PROVE WatchInv'
  BY <1>2, DispatchStep
<1>3. CASE Deliver
  BY <1>3, DeliverStep
<1>4. CASE StreamEnded \/ CloseIdle
  BY <1>4, WatchEnds
<1>5. ASSUME NEW t \in Callers,
             Attached(t) \/ Resolving(t) \/ Register(t) \/ GiveUp(t) \/ Unregister(t)
      PROVE  WatchInv'
  <2>1. CASE Attached(t)
    BY <2>1, AttachStep, AttachFailsStep, InsertStep, CallStep, ReturnStep DEF Attached
  <2>2. CASE Resolving(t)
    BY <2>2, ResolverSteps
  <2>3. CASE Register(t) \/ GiveUp(t) \/ Unregister(t)
    BY <2>3, RegisterStep, GiveUpStep, UnregisterStep
  <2> QED
    BY <1>5, <2>1, <2>2, <2>3
<1>6. CASE UNCHANGED vars
  <2>1. UNCHANGED <<directory, hub, shared, callers, told>>
    BY <1>6 DEF vars
  <2>2. HubGood'
    BY <2>1, HubStays DEF WatchInv
  <2> QED
    BY <2>1, <2>2 DEF WatchInv, DirectoryOK, TablesOK, PlacesOK, LocalsOK, GuardPlaces,
       EvictedHeld, directory, hub, shared, callers, locals
<1> QED
  BY <1>1, <1>2, <1>3, <1>4, <1>5, <1>6 DEF Next

\* The tables are well formed, a stream is evicted only while the guard has it, and a
\* watch without subscriptions has its timer running (unsubscribe, closeIdle).
THEOREM HubInvariant == Spec => []HubInv
<1>1. WatchInv => HubInv
  BY TypeParts DEF WatchInv, HubGood, HubInv
<1> QED
  BY <1>1, InitWatch, WatchStep, PTL DEF Spec

\* Whatever a topic says of an owner was learnt from the watch that is up (dispatch,
\* streamEnded).
THEOREM KnownFromTheWatch == Spec => []KnownOfGeneration
<1>1. WatchInv => KnownOfGeneration
  BY DEF WatchInv, HubGood
<1> QED
  BY <1>1, InitWatch, WatchStep, PTL DEF Spec
-------------------------------------------------------------------------------
(* Subscriptions that do not overlap *)

\* Numbers are given once.
Numbered ==
    /\ \A b \in Battles : \A s \in Subs(b) : s.num \in 1..seq
    /\ \A b, c \in Battles : \A s \in Subs(b), r \in Subs(c) :
          s.num = r.num => b = c /\ s = r

\* While a caller subscribes it is the only one, its number is the last one given, the
\* hub serves it, and nobody holds it yet.
AttachingAlone ==
    \A t \in Callers : Attaching(t) =>
        /\ num[t] = seq
        /\ \A b \in Battles : at[t] = b => [num |-> seq, kind |-> kind[t]] \in Subs(b)
        /\ \A u \in Callers : Attaching(u) => u = t
        /\ \A b \in Battles : entry[b] # None => entry[b].sub # seq
        /\ \A b \in Battles : guarded[b] # None => guarded[b].sub # seq

HeldInv == Numbered /\ AttachingAlone /\ HeldServed

LEMMA InitHeld == Init => HeldInv
  BY DEF Init, HeldInv, Numbered, AttachingAlone, HeldServed, Subs, Attaching

\* The callers that subscribe are the same, for the same battle.
SameAttaching ==
    \A u \in Callers : Attaching(u)' =>
        Attaching(u) /\ num'[u] = num[u] /\ at'[u] = at[u] /\ kind'[u] = kind[u]

\* A step after which the hub serves the same and nobody holds more keeps the invariant.
LEMMA NothingNew ==
  ASSUME WatchInv, HeldInv, seq' = seq, SameAttaching,
         \A b \in Battles : Subs(b)' = Subs(b),
         \A b \in Battles : entry'[b] # None /\ entry'[b].sub # 0 =>
            entry[b] # None /\ entry'[b].sub = entry[b].sub,
         \A b \in Battles : guarded'[b] # None /\ guarded'[b].sub # 0 =>
            guarded[b] # None /\ guarded'[b].sub = guarded[b].sub
  PROVE  HeldInv'
<1>1. Numbered'
  BY DEF HeldInv, Numbered
<1>2. HeldServed'
  BY DEF HeldInv, HeldServed
<1>3. AttachingAlone'
  <2> SUFFICES ASSUME NEW t \in Callers, Attaching(t)'
               PROVE  /\ num'[t] = seq'
                      /\ \A c \in Battles : at'[t] = c =>
                            [num |-> seq', kind |-> kind'[t]] \in Subs(c)'
                      /\ \A u \in Callers : Attaching(u)' => u = t
                      /\ \A b \in Battles : entry'[b] # None => entry'[b].sub # seq'
                      /\ \A b \in Battles : guarded'[b] # None => guarded'[b].sub # seq'
    BY DEF AttachingAlone
  <2>1. /\ Attaching(t) /\ at[t] \in Battles
        /\ num'[t] = num[t] /\ at'[t] = at[t] /\ kind'[t] = kind[t]
    BY DEF SameAttaching, Attaching, WatchInv, PlacesOK
  <2>2. [num |-> seq, kind |-> kind[t]] \in Subs(at[t])
    BY <2>1 DEF HeldInv, AttachingAlone
  <2>3. seq # 0
    BY <2>1, <2>2 DEF HeldInv, Numbered
  <2> QED
    BY <2>1, <2>2, <2>3 DEF HeldInv, AttachingAlone, SameAttaching
<1> QED
  BY <1>1, <1>2, <1>3 DEF HeldInv

\* What is removed has one number, and only the holder that gives it up had it.
LEMMA OneRemoved ==
  ASSUME WatchInv, HeldInv, seq' = seq, SameAttaching, NEW b \in Battles, NEW n,
         \A c \in Battles :
            Subs(c)' = IF c = b THEN {s \in Subs(c) : s.num # n} ELSE Subs(c),
         \A t \in Callers : Attaching(t)' => n # seq,
         \A c \in Battles : entry'[c] # None /\ entry'[c].sub # 0 =>
            entry[c] # None /\ entry'[c].sub = entry[c].sub /\ (c = b => entry[c].sub # n),
         \A c \in Battles : guarded'[c] # None /\ guarded'[c].sub # 0 =>
            guarded[c] # None /\ guarded'[c].sub = guarded[c].sub
            /\ (c = b => guarded[c].sub # n)
  PROVE  HeldInv'
<1>1. \A c \in Battles : Subs(c)' \subseteq Subs(c)
  OBVIOUS
<1>2. Numbered'
  BY <1>1 DEF HeldInv, Numbered
<1>3. HeldServed'
  BY DEF HeldInv, HeldServed
<1>4. AttachingAlone'
  <2> SUFFICES ASSUME NEW t \in Callers, Attaching(t)'
               PROVE  /\ num'[t] = seq'
                      /\ \A c \in Battles : at'[t] = c =>
                            [num |-> seq', kind |-> kind'[t]] \in Subs(c)'
                      /\ \A u \in Callers : Attaching(u)' => u = t
                      /\ \A c \in Battles : entry'[c] # None => entry'[c].sub # seq'
                      /\ \A c \in Battles : guarded'[c] # None => guarded'[c].sub # seq'
    BY DEF AttachingAlone
  <2>1. /\ Attaching(t) /\ at[t] \in Battles /\ n # seq
        /\ num'[t] = num[t] /\ at'[t] = at[t] /\ kind'[t] = kind[t]
    BY DEF SameAttaching, Attaching, WatchInv, PlacesOK
  <2>2. [num |-> seq, kind |-> kind[t]] \in Subs(at[t])
    BY <2>1 DEF HeldInv, AttachingAlone
  <2>3. seq # 0
    BY <2>1, <2>2 DEF HeldInv, Numbered
  <2> QED
    BY <2>1, <2>2, <2>3 DEF HeldInv, AttachingAlone, SameAttaching
<1> QED
  BY <1>2, <1>3, <1>4 DEF HeldInv

\* The resolver and the guard hold different numbers.
LEMMA HeldApart ==
  ASSUME HeldInv, NEW b \in Battles, entry[b] # None, entry[b].sub # 0,
         guarded[b] # None, guarded[b].sub # 0
  PROVE  entry[b].sub # guarded[b].sub
<1>1. /\ [num |-> entry[b].sub, kind |-> "resolver"] \in Subs(b)
      /\ [num |-> guarded[b].sub, kind |-> "guard"] \in Subs(b)
  BY DEF HeldInv, HeldServed
<1> QED
  BY <1>1 DEF HeldInv, Numbered

\* An event, or the sweep, takes the subscription of the resolver.
LEMMA ToldKeeps ==
  ASSUME WatchInv, HeldInv, NEW b \in Battles, Told(b), UNCHANGED <<seq, guarded>>,
         SameAttaching
  PROVE  HeldInv'
<1>1. CASE Subs(b)' = Subs(b)
  BY <1>1, NothingNew DEF Told
<1>2. CASE /\ entry'[b] = None /\ entry[b] # None /\ entry[b].sub # 0
           /\ Subs(b)' = {s \in Subs(b) : s.num # entry[b].sub}
  <2> DEFINE n == entry[b].sub
  <2>1. \A c \in Battles :
           Subs(c)' = IF c = b THEN {s \in Subs(c) : s.num # n} ELSE Subs(c)
    BY <1>2 DEF Told
  <2>2. \A t \in Callers : Attaching(t)' => n # seq
    BY <1>2 DEF SameAttaching, HeldInv, AttachingAlone
  <2>3. \A c \in Battles : entry'[c] # None /\ entry'[c].sub # 0 =>
           entry[c] # None /\ entry'[c].sub = entry[c].sub /\ (c = b => entry[c].sub # n)
    BY <1>2 DEF Told
  <2>4. \A c \in Battles : guarded'[c] # None /\ guarded'[c].sub # 0 =>
           guarded[c] # None /\ guarded'[c].sub = guarded[c].sub
           /\ (c = b => guarded[c].sub # n)
    BY <1>2, HeldApart
  <2> HIDE DEF n
  <2> QED
    BY <2>1, <2>2, <2>3, <2>4, OneRemoved
<1> QED
  BY <1>1, <1>2 DEF Told

\* The end of the last stream takes the subscription of the guard.
LEMMA ReleasedKeeps ==
  ASSUME WatchInv, HeldInv, NEW b \in Battles, Released(b), UNCHANGED <<seq, entry>>,
         SameAttaching
  PROVE  HeldInv'
<1>1. CASE Subs(b)' = Subs(b)
  BY <1>1, NothingNew DEF Released
<1>2. CASE /\ guarded'[b] = None /\ guarded[b] # None /\ guarded[b].sub # 0
           /\ Subs(b)' = {s \in Subs(b) : s.num # guarded[b].sub}
  <2> DEFINE n == guarded[b].sub
  <2>1. \A c \in Battles :
           Subs(c)' = IF c = b THEN {s \in Subs(c) : s.num # n} ELSE Subs(c)
    BY <1>2 DEF Released
  <2>2. \A t \in Callers : Attaching(t)' => n # seq
    BY <1>2 DEF SameAttaching, HeldInv, AttachingAlone
  <2>3. \A c \in Battles : guarded'[c] # None /\ guarded'[c].sub # 0 =>
           guarded[c] # None /\ guarded'[c].sub = guarded[c].sub
           /\ (c = b => guarded[c].sub # n)
    BY <1>2 DEF Released
  <2>4. \A c \in Battles : entry'[c] # None /\ entry'[c].sub # 0 =>
           entry[c] # None /\ entry'[c].sub = entry[c].sub /\ (c = b => entry[c].sub # n)
    BY <1>2, HeldApart
  <2> HIDE DEF n
  <2> QED
    BY <2>1, <2>2, <2>3, <2>4, OneRemoved
<1> QED
  BY <1>1, <1>2 DEF Released

\* A new subscription has a number of its own.
LEMMA InsertKeeps ==
  ASSUME WatchInv, HeldInv, "overlap" \notin Faults, NEW t \in Callers, Insert(t)
  PROVE  HeldInv'
<1>1. /\ at[t] \in Battles /\ pc[t] = "waiting" /\ seq \in Nat
      /\ UNCHANGED <<entry, guarded, at, kind>>
  BY DEF WatchInv, HubGood, HubOK, PlacesOK, Insert, shared
<1>2. CASE UNCHANGED <<seq, num>> /\ Go(t, "attach") /\ \A b \in Battles : Subs(b)' = Subs(b)
  <2>1. SameAttaching
    BY <1>1, <1>2 DEF SameAttaching, Attaching, Go, Set, WatchInv, PlacesOK
  <2> QED
    BY <1>1, <1>2, <2>1, NothingNew
<1>3. CASE /\ seq' = seq + 1 /\ num' = [num EXCEPT ![t] = seq']
           /\ \E l \in {"calling", "returning"} : Go(t, l)
           /\ \A u \in Callers : ~Attaching(u)
           /\ \A b \in Battles :
                 Subs(b)' = IF b = at[t]
                            THEN Subs(b) \cup {[num |-> seq', kind |-> kind[t]]}
                            ELSE Subs(b)
  <2> DEFINE new == [num |-> seq', kind |-> kind[t]]
  <2>1. new.num = seq + 1
    BY <1>3
  <2>2. \A b \in Battles : \A s \in Subs(b) : s.num \in 1..seq
    BY DEF HeldInv, Numbered
  <2>3. \A b \in Battles : \A s \in Subs(b)' :
           s \in Subs(b) \/ (s = new /\ b = at[t])
    BY <1>3
  <2> HIDE DEF new
  <2>4. Numbered'
    <3>1. \A b \in Battles : \A s \in Subs(b)' : s.num \in 1..seq'
      BY <1>1, <1>3, <2>1, <2>2, <2>3
    <3>2. ASSUME NEW b \in Battles, NEW c \in Battles, NEW s \in Subs(b)', NEW r \in Subs(c)',
                 s.num = r.num
          PROVE  b = c /\ s = r
      <4>1. (s \in Subs(b) \/ (s = new /\ b = at[t])) /\ (r \in Subs(c) \/ (r = new /\ c = at[t]))
        BY <2>3
      <4>2. s \in Subs(b) => s.num \in 1..seq
        BY <2>2
      <4>3. r \in Subs(c) => r.num \in 1..seq
        BY <2>2
      <4> QED
        BY <1>1, <2>1, <3>2, <4>1, <4>2, <4>3 DEF HeldInv, Numbered
    <3> QED
      BY <3>1, <3>2 DEF Numbered
  <2>5. HeldServed'
    BY <1>1, <1>3 DEF HeldInv, HeldServed
  <2>6. AttachingAlone'
    <3>1. \A u \in Callers : Attaching(u)' => u = t
      BY <1>1, <1>3 DEF Attaching, Go, Set, WatchInv, PlacesOK
    <3>2. num'[t] = seq'
      BY <1>3 DEF WatchInv, LocalsOK
    <3>3. \A b \in Battles : at'[t] = b => [num |-> seq', kind |-> kind'[t]] \in Subs(b)'
      BY <1>1, <1>3
    <3>4. ASSUME NEW b \in Battles
          PROVE  /\ entry[b] # None => entry[b].sub \in 0..seq
                 /\ guarded[b] # None => guarded[b].sub \in 0..seq
      <4>1. ASSUME entry[b] # None, entry[b].sub # 0 PROVE entry[b].sub \in 1..seq
        <5>1. [num |-> entry[b].sub, kind |-> "resolver"] \in Subs(b)
          BY <4>1 DEF HeldInv, HeldServed
        <5>2. [num |-> entry[b].sub, kind |-> "resolver"].num \in 1..seq
          BY <2>2, <5>1
        <5> QED
          BY <5>2
      <4>2. ASSUME guarded[b] # None, guarded[b].sub # 0 PROVE guarded[b].sub \in 1..seq
        <5>1. [num |-> guarded[b].sub, kind |-> "guard"] \in Subs(b)
          BY <4>2 DEF HeldInv, HeldServed
        <5>2. [num |-> guarded[b].sub, kind |-> "guard"].num \in 1..seq
          BY <2>2, <5>1
        <5> QED
          BY <5>2
      <4> QED
        BY <1>1, <4>1, <4>2
    <3>5. \A b \in Battles : /\ entry'[b] # None => entry'[b].sub # seq'
                             /\ guarded'[b] # None => guarded'[b].sub # seq'
      BY <1>1, <1>3, <3>4
    <3> QED
      BY <3>1, <3>2, <3>3, <3>5 DEF AttachingAlone
  <2> QED
    BY <2>4, <2>5, <2>6 DEF HeldInv
<1> QED
  BY <1>2, <1>3, InsertStep

\* What is returned is the number of the subscription that was made.
LEMMA ReturnKeeps ==
  ASSUME WatchInv, HeldInv, NEW t \in Callers, Return(t)
  PROVE  HeldInv'
<1>1. /\ pc[t] = "returning" /\ at[t] \in Battles /\ Attaching(t) /\ seq \in Nat
      /\ seq' = seq /\ \E l \in {"query", "streaming"} : Go(t, l)
  BY DEF Return, WatchInv, HubGood, HubOK, PlacesOK, Attaching
<1>2. /\ num[t] = seq /\ \A u \in Callers : Attaching(u) => u = t
      /\ [num |-> seq, kind |-> kind[t]] \in Subs(at[t])
      /\ \A b \in Battles : entry[b] # None => entry[b].sub # seq
      /\ \A b \in Battles : guarded[b] # None => guarded[b].sub # seq
  BY <1>1 DEF HeldInv, AttachingAlone
<1>3. Kept(t, seq)
  BY <1>1, <1>2, ReturnStep
<1>4. \A u \in Callers : ~Attaching(u)'
  BY <1>1, <1>2 DEF Attaching, Go, Set, WatchInv, PlacesOK
<1>5. AttachingAlone'
  BY <1>4 DEF AttachingAlone
<1>6. \A b \in Battles : Subs(b)' \subseteq Subs(b)
  BY <1>3 DEF Kept
<1>7. Numbered'
  BY <1>1, <1>6 DEF HeldInv, Numbered
<1>8. HeldServed'
  <2>1. CASE /\ UNCHANGED <<entry, guarded>>
             /\ \A c \in Battles :
                   Subs(c)' = IF c = at[t] THEN {s \in Subs(c) : s.num # seq} ELSE Subs(c)
    BY <1>2, <2>1 DEF HeldInv, HeldServed
  <2>2. CASE /\ kind[t] = "resolver" /\ UNCHANGED guarded
             /\ \A c \in Battles : Subs(c)' = Subs(c)
             /\ \A c \in Battles : entry'[c] # None =>
                   entry[c] # None /\ entry'[c].sub = IF c = at[t] THEN seq ELSE entry[c].sub
    BY <1>2, <2>2 DEF HeldInv, HeldServed
  <2>3. CASE /\ kind[t] = "guard" /\ UNCHANGED entry
             /\ \A c \in Battles : Subs(c)' = Subs(c)
             /\ \A c \in Battles : guarded'[c] # None =>
                   guarded[c] # None
                   /\ guarded'[c].sub = IF c = at[t] THEN seq ELSE guarded[c].sub
    BY <1>2, <2>3 DEF HeldInv, HeldServed
  <2> QED
    BY <1>3, <2>1, <2>2, <2>3 DEF Kept
<1> QED
  BY <1>5, <1>7, <1>8 DEF HeldInv

LEMMA HeldStep ==
  "overlap" \notin Faults /\ WatchInv /\ HeldInv /\ [Next]_vars => HeldInv'
<1> SUFFICES ASSUME "overlap" \notin Faults, WatchInv, HeldInv, [Next]_vars PROVE HeldInv'
  OBVIOUS
<1>1. ASSUME UNCHANGED <<seq, entry, guarded>>, SameAttaching,
             \A b \in Battles : Subs(b)' = Subs(b)
      PROVE  HeldInv'
  BY <1>1, NothingNew
<1>2. ASSUME Quiet PROVE HeldInv'
  <2>1. UNCHANGED <<seq, guarded>> /\ SameAttaching
    BY <1>2 DEF Quiet, hub, SameAttaching
  <2> QED
    BY <1>2, <2>1, NothingNew DEF Quiet
<1>3. ASSUME NEW b \in Battles, (\E o \in Owners : Move(b, o)) \/ Renew(b) PROVE HeldInv'
  <2>1. UNCHANGED <<hub, shared, callers>>
    BY <1>3 DEF Move, Renew
  <2> QED
    BY <1>1, <2>1, HubStays DEF hub, shared, callers, locals, SameAttaching, Attaching, WatchInv
<1>4. ASSUME NEW b \in Battles,
             BackoffEnds(b) \/ Age(b) \/ \E t \in Callers : Lookup(t, b)
      PROVE  HeldInv'
  BY <1>2, <1>4, TimerSteps, ResolverSteps
<1>5. ASSUME NEW b \in Battles, Sweep(b) PROVE HeldInv'
  <2>1. Told(b) /\ UNCHANGED <<seq, guarded, callers>>
    BY <1>5, SweepStep
  <2> QED
    BY <2>1, ToldKeeps DEF callers, locals, SameAttaching, Attaching
<1>6. ASSUME NEW n \in 1..Len(chan), Dispatch(n) PROVE HeldInv'
  <2>1. UNCHANGED <<seq, shared, callers>>
    BY <1>6 DEF Dispatch
  <2> QED
    BY <1>1, <1>6, <2>1, DispatchStep DEF shared, callers, locals, SameAttaching, Attaching
<1>7. CASE Deliver
  <2>1. UNCHANGED <<seq, guarded, callers>>
    BY <1>7 DEF Deliver
  <2> QED
    BY <1>7, <2>1, DeliverStep, ToldKeeps DEF callers, locals, SameAttaching, Attaching
<1>8. CASE StreamEnded \/ CloseIdle
  <2>1. UNCHANGED <<seq, shared, callers>>
    BY <1>8 DEF StreamEnded, CloseIdle
  <2> QED
    BY <1>1, <1>8, <2>1, WatchEnds DEF shared, callers, locals, SameAttaching, Attaching
<1>9. ASSUME NEW t \in Callers, Attached(t) PROVE HeldInv'
  <2>1. CASE Attach(t)
    <3>1. UNCHANGED <<seq, shared, at, kind, num>> /\ Go(t, "waiting")
      BY <2>1 DEF Attach
    <3>2. SameAttaching
      BY <3>1 DEF SameAttaching, Attaching, Go, Set, WatchInv, PlacesOK
    <3> QED
      BY <1>1, <2>1, <3>1, <3>2, AttachStep DEF shared
  <2>2. CASE AttachFails(t)
    <3>1. /\ UNCHANGED <<seq, guarded, locals>>
          /\ \E l \in {"query", "streaming"} : Go(t, l)
      BY <2>2 DEF AttachFails
    <3>2. SameAttaching
      BY <3>1 DEF SameAttaching, Attaching, Go, Set, WatchInv, PlacesOK, locals
    <3> QED
      BY <2>2, <3>1, <3>2, AttachFailsStep, NothingNew
  <2>3. CASE Insert(t)
    BY <2>3, InsertKeeps
  <2>4. CASE Call(t)
    <3>1. UNCHANGED <<seq, guarded, locals>> /\ Go(t, "returning") /\ pc[t] = "calling"
      BY <2>4 DEF Call
    <3>2. SameAttaching
      BY <3>1 DEF SameAttaching, Attaching, Go, Set, WatchInv, PlacesOK, locals
    <3>3. PICK b \in Battles : b = at[t]
      BY <2>4, CallStep
    <3>4. at' = at
      BY <3>1 DEF locals
    <3>5. Told(b)
      BY <2>4, <3>3, <3>4, CallStep DEF Told
    <3> QED
      BY <3>1, <3>2, <3>5, ToldKeeps
  <2>5. CASE Return(t)
    BY <2>5, ReturnKeeps
  <2> QED
    BY <1>9, <2>1, <2>2, <2>3, <2>4, <2>5 DEF Attached
<1>10. ASSUME NEW t \in Callers, Resolving(t) PROVE HeldInv'
  BY <1>2, <1>10, ResolverSteps
<1>11. ASSUME NEW t \in Callers, Register(t) PROVE HeldInv'
  <2>1. /\ UNCHANGED <<hub, entry, at, num>> /\ kind' = [kind EXCEPT ![t] = "guard"]
        /\ \E l \in {"attach", "streaming"} : Go(t, l)
        /\ \A c \in Battles : guarded'[c] # None /\ guarded'[c].sub # 0 =>
              guarded[c] # None /\ guarded'[c].sub = guarded[c].sub
    BY <1>11, RegisterStep
  <2>2. SameAttaching
    BY <2>1 DEF SameAttaching, Attaching, Go, Set, WatchInv, PlacesOK
  <2>3. UNCHANGED seq /\ \A b \in Battles : Subs(b)' = Subs(b)
    BY <2>1, HubStays DEF WatchInv, hub
  <2> QED
    BY <2>1, <2>2, <2>3, NothingNew
<1>12. ASSUME NEW t \in Callers, Leave(t), num' = num PROVE SameAttaching
  BY <1>12 DEF SameAttaching, Attaching, Leave, Go, Set, WatchInv, PlacesOK
<1>13. ASSUME NEW t \in Callers, GiveUp(t) PROVE HeldInv'
  <2>1. Leave(t) /\ UNCHANGED <<hub, shared>>
    BY <1>13, GiveUpStep
  <2>2. UNCHANGED <<seq, entry, guarded, num>>
    BY <2>1 DEF hub, shared, Leave
  <2> QED
    BY <1>1, <1>12, <2>1, <2>2, HubStays DEF WatchInv
<1>14. ASSUME NEW t \in Callers, Unregister(t) PROVE HeldInv'
  BY <1>12, <1>14, UnregisterStep, ReleasedKeeps
<1>15. CASE UNCHANGED vars
  <2>1. UNCHANGED <<hub, shared, callers>>
    BY <1>15 DEF vars
  <2> QED
    BY <1>1, <2>1, HubStays DEF hub, shared, callers, locals, SameAttaching, Attaching, WatchInv
<1> QED
  BY <1>3, <1>4, <1>5, <1>6, <1>7, <1>8, <1>9, <1>10, <1>11, <1>13, <1>14, <1>15
     DEF Next, Owners

\* When no two subscriptions overlap, what the resolver and the guard hold is a
\* subscription the hub serves, although attach returns h.seq read without the lock.
THEOREM HeldIsServed == ASSUME "overlap" \notin Faults PROVE Spec => []HeldServed
<1>1. HeldInv => HeldServed
  BY DEF HeldInv
<1>2. WatchInv /\ HeldInv /\ [Next]_vars => HeldInv'
  BY HeldStep
<1> QED
  BY <1>1, <1>2, InitWatch, InitHeld, WatchStep, PTL DEF Spec
-------------------------------------------------------------------------------
(* The order of events *)

\* An event on its way with the newest version of its battle's record.
Current(b) == \E j \in DOMAIN chan : chan[j].battle = b /\ chan[j].ver = rec[b].ver

\* Events are of the record or of an older one; those of a battle are in order, and the
\* newest of them is still to come.
Written(e) ==
    /\ e.ver <= rec[e.battle].ver
    /\ e.ver = rec[e.battle].ver => e.owner = rec[e.battle].owner
ChanOrdered ==
    \A i \in DOMAIN chan :
        /\ Written(chan[i])
        /\ \A j \in DOMAIN chan : i <= j /\ chan[j].battle = chan[i].battle =>
              chan[i].ver <= chan[j].ver
        /\ \E j \in DOMAIN chan : i <= j /\ chan[j].battle = chan[i].battle
              /\ chan[j].ver = rec[chan[i].battle].ver

\* A delivery comes before the events in the channel; those of a battle have the same
\* subscribers.
DeliveryOrdered(i) ==
    LET d == batch[i]
        b == d.event.battle
    IN  /\ Written(d.event)
        /\ \A j \in DOMAIN batch : i <= j /\ batch[j].event.battle = b =>
              d.event.ver <= batch[j].event.ver /\ batch[j].subs = d.subs
        /\ \A j \in DOMAIN chan : chan[j].battle = b => d.event.ver <= chan[j].ver
        /\ \/ Current(b)
           \/ \E j \in DOMAIN batch : i <= j /\ batch[j].event.battle = b
                 /\ batch[j].event.ver = rec[b].ver
BatchOrdered == \A i \in DOMAIN batch : DeliveryOrdered(i)

\* What a topic knows is not newer than what is on its way, and it is the owner, unless
\* a newer event is on its way.
KnownOrdered(b) ==
    topics[b] # None =>
        /\ topics[b].ver <= rec[b].ver
        /\ \A j \in DOMAIN chan : chan[j].battle = b => topics[b].ver <= chan[j].ver
        /\ topics[b].owner # None => Current(b) \/ topics[b].owner = rec[b].owner

FlowInv ==
    /\ ~Up => chan = <<>> /\ batch = <<>>
    /\ ChanOrdered /\ BatchOrdered /\ \A b \in Battles : KnownOrdered(b)

\* What is known of a topic only becomes less.
TopicsShrink ==
    \A b \in Battles : topics'[b] # None =>
        /\ topics[b] # None
        /\ topics'[b].owner = topics[b].owner /\ topics'[b].ver = topics[b].ver
        /\ topics'[b].no = topics[b].no /\ topics'[b].subs \subseteq topics[b].subs

\* A step that leaves the events alone.
FlowStays == UNCHANGED <<rec, chan, gen, seq>> /\ TopicsShrink /\ Up' = Up

LEMMA UnsubscribeShrinks ==
  ASSUME HubGood, NEW b \in Battles, NEW n, Unsubscribe(b, n)
  PROVE  TopicsShrink /\ Up' = Up
<1>1. CASE stream = None
  BY <1>1 DEF Unsubscribe, TopicsShrink, Up
<1>2. CASE stream # None
  <2>1. /\ topics' = [topics EXCEPT ![b] = Remaining(b, n)]
        /\ stream' = IF ~Unused(topics') THEN stream
                     ELSE IF Up THEN [stream EXCEPT !.idle = "yes"] ELSE None
    BY <1>2 DEF Unsubscribe, Set
  <2>2. stream \in Watch
    BY <1>2 DEF HubGood, HubOK
  <2>3. Up' = Up
    <3>1. [stream EXCEPT !.idle = "yes"] # None /\ [stream EXCEPT !.idle = "yes"].up = stream.up
      BY <2>2, NoneAssumption DEF Watch
    <3> QED
      BY <1>2, <2>1, <3>1 DEF Up
  <2>4. Remaining(b, n) # None =>
           /\ topics[b] # None
           /\ Remaining(b, n).owner = topics[b].owner /\ Remaining(b, n).ver = topics[b].ver
           /\ Remaining(b, n).no = topics[b].no /\ Remaining(b, n).subs \subseteq topics[b].subs
    <3> DEFINE left == {s \in topics[b].subs : s.num # n}
    <3>1. CASE topics[b] = None \/ left = {}
      BY <3>1 DEF Remaining
    <3>2. CASE topics[b] # None /\ left # {}
      <4>1. Remaining(b, n) = [topics[b] EXCEPT !.subs = left]
        BY <3>2 DEF Remaining
      <4>2. topics[b] \in Topic
        BY <3>2 DEF HubGood, HubOK
      <4> HIDE DEF left
      <4>3. /\ Remaining(b, n).owner = topics[b].owner /\ Remaining(b, n).ver = topics[b].ver
            /\ Remaining(b, n).no = topics[b].no /\ Remaining(b, n).subs = left
        BY <4>1, <4>2 DEF Topic
      <4> QED
        BY <3>2, <4>3 DEF left
    <3> QED
      BY <3>1, <3>2
  <2>5. \A c \in Battles : topics'[c] = IF c = b THEN Remaining(b, n) ELSE topics[c]
    BY <2>1 DEF HubGood, HubOK
  <2> QED
    BY <2>3, <2>4, <2>5 DEF TopicsShrink
<1> QED
  BY <1>1, <1>2

LEMMA FlowKept ==
  ASSUME FlowInv, UNCHANGED <<rec, chan, batch>>, Up' = Up,
         \A b \in Battles : topics'[b] # None =>
            /\ topics[b] # None /\ topics'[b].owner = topics[b].owner
            /\ topics'[b].ver = topics[b].ver
  PROVE  FlowInv'
<1>1. ChanOrdered'
  BY DEF FlowInv, ChanOrdered, Written
<1>2. BatchOrdered'
  BY DEF FlowInv, BatchOrdered, DeliveryOrdered, Written, Current
<1>3. ASSUME NEW b \in Battles PROVE KnownOrdered(b)'
  BY DEF FlowInv, KnownOrdered, Current
<1> QED
  BY <1>1, <1>2, <1>3 DEF FlowInv

LEMMA EventTypes ==
  ASSUME DirectoryOK
  PROVE  /\ Len(chan) \in Nat /\ DOMAIN chan = 1..Len(chan)
         /\ \A i \in DOMAIN chan : chan[i] \in News /\ chan[i].battle \in Battles
               /\ chan[i].owner \in Owners /\ chan[i].ver \in Nat
<1>1. chan \in Seq(News)
  BY DEF DirectoryOK
<1>2. Len(chan) \in Nat /\ DOMAIN chan = 1..Len(chan) /\ \A i \in DOMAIN chan : chan[i] \in News
  BY <1>1
<1> QED
  BY <1>2 DEF News

LEMMA DeliveryTypes ==
  ASSUME HubOK
  PROVE  /\ Len(batch) \in Nat /\ DOMAIN batch = 1..Len(batch)
         /\ \A i \in DOMAIN batch : batch[i] \in Pending /\ batch[i].event.battle \in Battles
               /\ batch[i].event.owner \in Owners /\ batch[i].event.ver \in Nat
               /\ batch[i].subs \subseteq Sub /\ batch[i].no \in Nat
<1>1. batch \in Seq(Pending)
  BY DEF HubOK
<1>2. /\ Len(batch) \in Nat /\ DOMAIN batch = 1..Len(batch)
      /\ \A i \in DOMAIN batch : batch[i] \in Pending
  BY <1>1
<1> QED
  BY <1>2 DEF News, Pending

\* The record of a battle changes, or is written again.
LEMMA FlowMoves ==
  ASSUME WatchInv, FlowInv, NEW b \in Battles, NEW o \in Owners, Move(b, o)
  PROVE  FlowInv'
<1> DEFINE v == rec[b].ver + 1
           e == Event(b)'
<1>1. /\ chan \in Seq(News) /\ rec \in [Battles -> Known] /\ UNCHANGED hub
      /\ rec[b].ver \in 0..MaxVer
  BY DEF WatchInv, DirectoryOK, Move, Known
<1>2. \A c \in Battles : rec'[c] = IF c = b THEN [owner |-> o, ver |-> v] ELSE rec[c]
  BY <1>1 DEF Move, Set
<1>3. e.battle = b /\ e.owner = o /\ e.ver = v /\ v > rec[b].ver /\ v \in Nat
  BY <1>1, <1>2 DEF Event
<1> HIDE DEF v, e
<1>4. chan' = IF Up THEN Append(chan, e) ELSE chan
  BY DEF Move, e
<1>5. UNCHANGED <<batch, topics>> /\ Up' = Up
  BY <1>1 DEF hub, Up
<1>6. \A i \in DOMAIN chan : chan[i].battle \in Battles
  BY EventTypes DEF WatchInv
<1>7. CASE ~Up
  <2>1. chan = <<>> /\ batch = <<>> /\ chan' = <<>> /\ batch' = <<>>
    BY <1>4, <1>5, <1>7 DEF FlowInv
  <2>2. ChanOrdered' /\ BatchOrdered'
    BY <2>1 DEF ChanOrdered, BatchOrdered
  <2>3. ASSUME NEW c \in Battles PROVE KnownOrdered(c)'
    <3>1. topics[c] # None => topics[c].owner = None
      BY <1>7 DEF WatchInv, HubGood, KnownOfGeneration
    <3>2. topics[c] # None => topics[c].ver \in Nat
      BY DEF WatchInv, HubGood, HubOK, Topic
    <3> QED
      BY <1>1, <1>2, <1>3, <1>5, <2>1, <3>1, <3>2 DEF FlowInv, KnownOrdered, Known
  <2> QED
    BY <1>5, <1>7, <2>1, <2>2, <2>3 DEF FlowInv
<1>8. CASE Up
  <2> DEFINE l == Len(chan)
  <2>1. /\ l \in Nat /\ DOMAIN chan = 1..l /\ DOMAIN chan' = 1..(l + 1)
        /\ chan'[l + 1] = e /\ \A i \in 1..l : chan'[i] = chan[i]
    BY <1>1, <1>4, <1>8
  <2>2. \A i \in 1..l : chan[i].ver \in Nat
    BY <2>1, EventTypes DEF WatchInv
  <2> HIDE DEF l
  <2>3. ASSUME NEW c \in Battles, Current(c) \/ c = b PROVE Current(c)'
    <3>1. CASE c = b
      <4>1. l + 1 \in DOMAIN chan' /\ chan'[l + 1].battle = b /\ chan'[l + 1].ver = rec'[b].ver
        BY <1>2, <1>3, <2>1
      <4> QED
        BY <3>1, <4>1 DEF Current
    <3>2. CASE c # b
      BY <1>2, <2>1, <2>3, <3>2 DEF Current
    <3> QED
      BY <3>1, <3>2
  <2>4. ChanOrdered'
    <3> SUFFICES ASSUME NEW i \in DOMAIN chan'
                 PROVE  /\ Written(chan[i])'
                        /\ \A j \in DOMAIN chan' : i <= j /\ chan'[j].battle = chan'[i].battle =>
                              chan'[i].ver <= chan'[j].ver
                        /\ \E j \in DOMAIN chan' : i <= j /\ chan'[j].battle = chan'[i].battle
                              /\ chan'[j].ver = rec'[chan'[i].battle].ver
      BY DEF ChanOrdered
    <3>1. CASE i = l + 1
      BY <1>2, <1>3, <2>1, <3>1 DEF Written
    <3>2. CASE i \in 1..l
      <4>1. /\ Written(chan[i])
            /\ \A j \in 1..l : i <= j /\ chan[j].battle = chan[i].battle =>
                  chan[i].ver <= chan[j].ver
        BY <2>1, <3>2 DEF FlowInv, ChanOrdered
      <4>2. Written(chan[i])' /\ chan[i].ver <= rec[chan[i].battle].ver
        <5>1. chan'[i] = chan[i] /\ chan[i].battle \in Battles /\ chan[i].ver \in Nat
          BY <1>6, <2>1, <2>2, <3>2
        <5>2. chan[i].ver <= rec[chan[i].battle].ver /\ rec[chan[i].battle].ver \in Nat
          BY <1>1, <4>1, <5>1 DEF Written, Known
        <5>3. CASE chan[i].battle = b
          BY <1>2, <1>3, <5>1, <5>2, <5>3 DEF Written
        <5>4. CASE chan[i].battle # b
          BY <1>2, <4>1, <5>1, <5>2, <5>4 DEF Written
        <5> QED
          BY <5>2, <5>3, <5>4
      <4>3. \A j \in DOMAIN chan' : i <= j /\ chan'[j].battle = chan'[i].battle =>
                chan'[i].ver <= chan'[j].ver
        BY <1>1, <1>3, <2>1, <2>2, <3>2, <4>1, <4>2
      <4>4. \E j \in DOMAIN chan' : i <= j /\ chan'[j].battle = chan'[i].battle
                /\ chan'[j].ver = rec'[chan'[i].battle].ver
        <5>1. CASE chan[i].battle = b
          BY <1>2, <1>3, <2>1, <3>2, <5>1
        <5>2. CASE chan[i].battle # b
          <6>1. PICK j \in DOMAIN chan : i <= j /\ chan[j].battle = chan[i].battle
                                        /\ chan[j].ver = rec[chan[i].battle].ver
            BY <2>1, <3>2 DEF FlowInv, ChanOrdered
          <6>2. rec'[chan[i].battle] = rec[chan[i].battle]
            BY <1>2, <1>6, <2>1, <3>2, <5>2
          <6>3. j \in 1..l /\ j \in DOMAIN chan' /\ chan'[j] = chan[j] /\ chan'[i] = chan[i]
            BY <2>1, <3>2
          <6> QED
            BY <6>1, <6>2, <6>3
        <5> QED
          BY <5>1, <5>2
      <4> QED
        BY <4>2, <4>3, <4>4
    <3> QED
      BY <2>1, <3>1, <3>2
  <2>5. BatchOrdered'
    <3> SUFFICES ASSUME NEW i \in DOMAIN batch PROVE DeliveryOrdered(i)'
      BY <1>5 DEF BatchOrdered
    <3>0. PICK d, c : d = batch[i] /\ c = d.event.battle
      OBVIOUS
    <3>1. c \in Battles /\ d.event.ver \in Nat
      BY <3>0, DeliveryTypes DEF WatchInv, HubGood
    <3>2. /\ Written(d.event)
          /\ \A j \in DOMAIN batch : i <= j /\ batch[j].event.battle = c =>
                d.event.ver <= batch[j].event.ver /\ batch[j].subs = d.subs
          /\ \A j \in DOMAIN chan : chan[j].battle = c => d.event.ver <= chan[j].ver
          /\ \/ Current(c)
             \/ \E j \in DOMAIN batch : i <= j /\ batch[j].event.battle = c
                   /\ batch[j].event.ver = rec[c].ver
      BY <3>0 DEF FlowInv, BatchOrdered, DeliveryOrdered
    <3>3. Written(d.event)' /\ d.event.ver <= rec[c].ver
      BY <1>1, <1>2, <1>3, <3>0, <3>1, <3>2 DEF Written, Known
    <3>4. \A j \in DOMAIN chan' : chan'[j].battle = c => d.event.ver <= chan'[j].ver
      BY <1>1, <1>3, <2>1, <3>1, <3>2, <3>3 DEF Known
    <3>5. Current(c)' \/ \E j \in DOMAIN batch : i <= j /\ batch[j].event.battle = c
                             /\ batch[j].event.ver = rec'[c].ver
      BY <1>2, <1>3, <2>1, <2>3, <3>1, <3>2
    <3> QED
      BY <1>5, <3>0, <3>2, <3>3, <3>4, <3>5 DEF DeliveryOrdered
  <2>6. ASSUME NEW c \in Battles PROVE KnownOrdered(c)'
    <3>1. topics[c] # None => topics[c].ver \in Nat
      BY DEF WatchInv, HubGood, HubOK, Topic
    <3>2. KnownOrdered(c) /\ rec[c].ver \in Nat
      BY <1>1 DEF FlowInv, Known
    <3>3. ASSUME topics[c] # None
          PROVE  /\ topics[c].ver <= rec'[c].ver
                 /\ \A j \in DOMAIN chan' : chan'[j].battle = c => topics[c].ver <= chan'[j].ver
      BY <1>2, <1>3, <2>1, <3>1, <3>2, <3>3 DEF KnownOrdered
    <3>4. topics[c] # None /\ topics[c].owner # None => Current(c)' \/ topics[c].owner = rec'[c].owner
      BY <1>2, <2>3, <3>2 DEF KnownOrdered
    <3> QED
      BY <1>5, <3>3, <3>4 DEF KnownOrdered
  <2> QED
    BY <1>5, <1>8, <2>4, <2>5, <2>6 DEF FlowInv
<1> QED
  BY <1>7, <1>8

\* The record is written again while nothing is on its way.
LEMMA FlowRenews ==
  ASSUME WatchInv, FlowInv, NEW b \in Battles, Renew(b)
  PROVE  FlowInv'
<1>1. /\ chan = <<>> /\ Up /\ rec' = rec /\ rec[b] \in Known
      /\ UNCHANGED <<batch, topics>> /\ Up' = Up
  BY DEF Renew, hub, Up, WatchInv, DirectoryOK
<1>2. PICK e : e = Event(b) /\ chan' = <<e>>
  BY DEF Renew
<1>3. /\ DOMAIN chan' = {1} /\ chan'[1] = e
      /\ e.battle = b /\ e.owner = rec[b].owner /\ e.ver = rec[b].ver
      /\ rec[b].ver \in Nat
  BY <1>1, <1>2 DEF Event, Known
<1>4. DOMAIN chan = {}
  BY <1>1
<1>5. ChanOrdered'
  BY <1>1, <1>3 DEF ChanOrdered, Written
<1>6. ASSUME NEW c \in Battles, Current(c) PROVE Current(c)'
  BY <1>4, <1>6 DEF Current
<1>7. BatchOrdered'
  <2> SUFFICES ASSUME NEW i \in DOMAIN batch PROVE DeliveryOrdered(i)'
    BY <1>1 DEF BatchOrdered
  <2>1. /\ DeliveryOrdered(i) /\ batch[i].event.battle \in Battles
        /\ batch[i].event.ver \in Nat /\ rec[batch[i].event.battle].ver \in Nat
    BY DeliveryTypes DEF FlowInv, BatchOrdered, WatchInv, HubGood, DirectoryOK, Known
  <2>2. ~Current(batch[i].event.battle)
    BY <1>4 DEF Current
  <2> QED
    BY <1>1, <1>3, <2>1, <2>2 DEF DeliveryOrdered, Written
<1>8. ASSUME NEW c \in Battles PROVE KnownOrdered(c)'
  BY <1>1, <1>3, <1>6 DEF FlowInv, KnownOrdered
<1> QED
  BY <1>1, <1>5, <1>7, <1>8 DEF FlowInv

\* As many different elements as a finite set has are all of it.
LEMMA AllListed ==
  ASSUME NEW S, IsFiniteSet(S), NEW s \in [1..Cardinality(S) -> S],
         \A i, j \in DOMAIN s : i # j => s[i] # s[j]
  PROVE  \A x \in S : \E i \in DOMAIN s : s[i] = x
<1> DEFINE D == 1..Cardinality(S)
<1>1. Cardinality(S) \in Nat
  BY FS_CardinalityType
<1>2. Cardinality(D) = Cardinality(S)
  <2>1. Cardinality(D) = IF 1 > Cardinality(S) THEN 0 ELSE Cardinality(S) - 1 + 1
    BY <1>1, FS_Interval
  <2> QED
    BY <1>1, <2>1
<1> HIDE DEF D
<1>3. s \in [D -> S] /\ DOMAIN s = D
  BY DEF D
<1>4. s \in Injection(D, S)
  BY <1>3 DEF Injection, IsInjective
<1>5. s \in Surjection(D, S)
  BY <1>2, <1>4, FS_Injection
<1> QED
  BY <1>3, <1>5 DEF Surjection

\* A watch starts: every record is on its way, as it is.
LEMMA StartTells ==
  ASSUME WatchInv, Start
  PROVE  /\ \A j \in DOMAIN chan' :
               /\ chan'[j].battle \in Battles
               /\ chan'[j].owner = rec[chan'[j].battle].owner
               /\ chan'[j].ver = rec[chan'[j].battle].ver
         /\ \A b \in Battles : rec[b].owner # None => \E j \in DOMAIN chan' : chan'[j].battle = b
<1> DEFINE owned == {b \in Battles : rec[b].owner # None}
<1>1. IsFiniteSet(owned)
  <2>1. owned \in SUBSET Battles
    OBVIOUS
  <2> HIDE DEF owned
  <2> QED
    BY <2>1, FS_Subset
<1>2. PICK s \in [1..Cardinality(owned) -> owned] :
         /\ \A i, j \in DOMAIN s : i # j => s[i] # s[j]
         /\ chan' = [i \in DOMAIN s |-> Event(s[i])]
  BY DEF Start
<1> HIDE DEF owned
<1>3. \A j \in DOMAIN chan' : s[j] \in owned /\ chan'[j] = Event(s[j])
  BY <1>2
<1>4. \A b \in owned : \E j \in DOMAIN chan' : s[j] = b
  BY <1>1, <1>2, AllListed
<1>5. \A j \in DOMAIN chan' : /\ chan'[j].battle = s[j]
                              /\ chan'[j].owner = rec[s[j]].owner
                              /\ chan'[j].ver = rec[s[j]].ver
  BY <1>3 DEF Event
<1>6. \A b \in Battles : rec[b].owner # None => b \in owned
  BY DEF owned
<1>7. owned \subseteq Battles
  BY DEF owned
<1> QED
  BY <1>3, <1>4, <1>5, <1>6, <1>7

LEMMA FlowStarts ==
  ASSUME WatchInv, FlowInv, NEW t \in Callers, Attach(t)
  PROVE  FlowInv' /\ (Up => chan' = chan) /\ Up'
         /\ (~Up => \A b \in Battles : rec[b].owner # None => \E j \in DOMAIN chan' : chan'[j].battle = b)
<1>1. /\ rec' = rec /\ batch' = batch /\ EnsureStream /\ at[t] \in Battles
      /\ topics' = IF topics[at[t]] = None THEN [topics EXCEPT ![at[t]] = NewTopic] ELSE topics
  BY DEF Attach, Set, WatchInv, PlacesOK
<1>2. NewTopic.owner = None /\ NewTopic.ver = 0
  <2>1. NewTopic.owner = None
    BY NewTopicOK DEF WatchInv, HubGood
  <2>2. NewTopic.ver = 0
    BY DEF NewTopic
  <2> QED
    BY <2>1, <2>2
<1>3. \A b \in Battles : topics'[b] = topics[b] \/ (topics'[b].owner = None /\ topics'[b].ver = 0)
  BY <1>1, <1>2 DEF WatchInv, HubGood, HubOK
<1>4. rec \in [Battles -> Known] /\ \A b \in Battles : rec[b].ver \in Nat
  BY DEF WatchInv, DirectoryOK, Known
<1>5. CASE Up
  <2>1. stream \in Watch /\ stream' = [stream EXCEPT !.idle = "no"] /\ chan' = chan
    BY <1>1, <1>5 DEF WatchInv, HubGood, HubOK, EnsureStream, Up
  <2>2. Up'
    BY <1>5, <2>1, NoneAssumption DEF Watch, Up
  <2>3. ChanOrdered'
    BY <1>1, <2>1 DEF FlowInv, ChanOrdered, Written
  <2>4. BatchOrdered'
    BY <1>1, <2>1 DEF FlowInv, BatchOrdered, DeliveryOrdered, Written, Current
  <2>5. ASSUME NEW b \in Battles PROVE KnownOrdered(b)'
    <3>1. \A j \in DOMAIN chan : chan[j].ver \in Nat
      BY EventTypes DEF WatchInv
    <3> QED
      BY <1>1, <1>3, <1>4, <2>1, <3>1 DEF FlowInv, KnownOrdered, Current
  <2> QED
    BY <1>5, <2>1, <2>2, <2>3, <2>4, <2>5 DEF FlowInv
<1>6. CASE ~Up
  <2>1. Start /\ batch = <<>>
    BY <1>1, <1>6 DEF EnsureStream, FlowInv
  <2>2. /\ \A j \in DOMAIN chan' :
               /\ chan'[j].battle \in Battles
               /\ chan'[j].owner = rec[chan'[j].battle].owner
               /\ chan'[j].ver = rec[chan'[j].battle].ver
        /\ \A b \in Battles : rec[b].owner # None => \E j \in DOMAIN chan' : chan'[j].battle = b
    BY <2>1, StartTells
  <2>3. Up'
    BY <2>1, StartOK, NoneAssumption DEF Up, WatchInv, HubGood
  <2>4. chan' \in Seq(News) /\ DOMAIN chan' \subseteq Nat
    BY <2>1, StartOK DEF WatchInv, HubGood
  <2>5. ChanOrdered'
    BY <1>1, <1>4, <2>2, <2>4 DEF ChanOrdered, Written
  <2>6. BatchOrdered'
    BY <1>1, <2>1 DEF BatchOrdered
  <2>7. ASSUME NEW b \in Battles PROVE KnownOrdered(b)'
    <3>1. topics[b] # None => topics[b].owner = None
      BY <1>6 DEF WatchInv, HubGood, KnownOfGeneration
    <3> QED
      BY <1>1, <1>3, <1>4, <2>2, <3>1 DEF FlowInv, KnownOrdered
  <2> QED
    BY <1>6, <2>2, <2>3, <2>5, <2>6, <2>7 DEF FlowInv
<1> QED
  BY <1>5, <1>6

\* The watch ends with nothing in its hands, and what was known is forgotten.
LEMMA FlowEnds ==
  ASSUME WatchInv, FlowInv, StreamEnded \/ CloseIdle
  PROVE  FlowInv' /\ ~Up' /\ chan' = <<>> /\ batch' = <<>> /\ batch = <<>>
<1>1. /\ rec' = rec /\ chan' = <<>> /\ batch = <<>> /\ batch' = <<>>
  BY DEF StreamEnded, CloseIdle
<1>2. ~Up' /\ \A b \in Battles : topics'[b] # None =>
         topics[b] # None /\ topics'[b].owner = None /\ topics'[b].ver = topics[b].ver
  <2>1. CASE StreamEnded
    <3>1. stream \in Watch /\ stream' = [stream EXCEPT !.up = "no"]
      BY <2>1 DEF StreamEnded, Up, WatchInv, HubGood, HubOK
    <3>2. ~Up'
      BY <3>1 DEF Up, Watch
    <3>3. ASSUME NEW b \in Battles, topics[b] # None
          PROVE  /\ [topics[b] EXCEPT !.owner = None].owner = None
                 /\ [topics[b] EXCEPT !.owner = None].ver = topics[b].ver
      BY <3>3 DEF WatchInv, HubGood, HubOK, Topic
    <3>4. \A b \in Battles : topics'[b] =
             IF topics[b] = None THEN None ELSE [topics[b] EXCEPT !.owner = None]
      BY <2>1 DEF StreamEnded
    <3> QED
      BY <3>2, <3>3, <3>4
  <2>2. CASE CloseIdle
    BY <2>2 DEF CloseIdle, Up, Unused
  <2> QED
    BY <2>1, <2>2
<1>3. ChanOrdered' /\ BatchOrdered'
  BY <1>1 DEF ChanOrdered, BatchOrdered
<1>4. ASSUME NEW b \in Battles PROVE KnownOrdered(b)'
  BY <1>1, <1>2 DEF FlowInv, KnownOrdered
<1> QED
  BY <1>1, <1>2, <1>3, <1>4 DEF FlowInv

\* A dispatch takes the first n events of the channel, and a topic knows the last of its
\* battle's among them.
Dispatched(n) ==
    /\ DOMAIN batch' = 1..n /\ DOMAIN chan' = 1..(Len(chan) - n)
    /\ \A i \in 1..n : /\ batch'[i].event = chan[i] /\ batch'[i].subs = Subs(chan[i].battle)
                       /\ topics[chan[i].battle] # None =>
                             batch'[i].no = topics[chan[i].battle].no
    /\ \A j \in 1..(Len(chan) - n) : chan'[j] = chan[n + j]
    /\ \A b \in Battles : topics'[b] # None =>
          /\ topics[b] # None /\ topics'[b].no = topics[b].no /\ topics'[b].subs = topics[b].subs
          /\ \/ /\ \A i \in 1..n : chan[i].battle # b
                /\ topics'[b] = topics[b]
             \/ \E i \in 1..n :
                   /\ chan[i].battle = b /\ \A j \in 1..n : chan[j].battle = b => j <= i
                   /\ topics'[b].owner = chan[i].owner /\ topics'[b].ver = chan[i].ver

LEMMA DispatchTakes ==
  ASSUME WatchInv, NEW n \in 1..Len(chan), Dispatch(n)
  PROVE  Dispatched(n)
<1> DEFINE es == SubSeq(chan, 1, n)
           rest == SubSeq(chan, n + 1, Len(chan))
<1>1. chan \in Seq(News) /\ Len(chan) \in Nat /\ n \in Nat /\ DOMAIN chan = 1..Len(chan)
  BY EventTypes DEF WatchInv, DirectoryOK
<1>2. DOMAIN es = 1..n /\ \A i \in 1..n : es[i] = chan[i]
  BY <1>1
<1>3. DOMAIN rest = 1..(Len(chan) - n) /\ \A j \in 1..(Len(chan) - n) : rest[j] = chan[n + j]
  BY <1>1
<1>4. /\ topics' = [b \in Battles |-> IF topics[b] = None THEN None ELSE Newest(b, es)]
      /\ batch' = [i \in DOMAIN es |-> Delivery(es[i])] /\ chan' = rest
  BY DEF Dispatch
<1> HIDE DEF es, rest
<1>5. \A i \in 1..n : /\ batch'[i].event = chan[i] /\ batch'[i].subs = Subs(chan[i].battle)
                      /\ topics[chan[i].battle] # None =>
                            batch'[i].no = topics[chan[i].battle].no
  BY <1>2, <1>4 DEF Delivery
<1>6. ASSUME NEW b \in Battles, topics'[b] # None
      PROVE  /\ topics[b] # None /\ topics'[b].no = topics[b].no /\ topics'[b].subs = topics[b].subs
             /\ \/ /\ \A i \in 1..n : chan[i].battle # b
                   /\ topics'[b] = topics[b]
                \/ \E i \in 1..n :
                      /\ chan[i].battle = b /\ \A j \in 1..n : chan[j].battle = b => j <= i
                      /\ topics'[b].owner = chan[i].owner /\ topics'[b].ver = chan[i].ver
  <2>1. topics[b] # None /\ topics'[b] = Newest(b, es) /\ topics[b] \in Topic
    BY <1>4, <1>6 DEF WatchInv, HubGood, HubOK
  <2> DEFINE own == {i \in DOMAIN es : es[i].battle = b}
             k == CHOOSE m \in own : \A j \in own : j <= m
  <2>2. own = {i \in 1..n : chan[i].battle = b}
    BY <1>2
  <2>3. CASE own = {}
    <3>1. Newest(b, es) = topics[b]
      BY <2>3 DEF Newest
    <3> QED
      BY <2>1, <2>2, <2>3, <3>1
  <2>4. CASE own # {}
    <3>1. Newest(b, es) =
             [topics[b] EXCEPT !.owner = es[k].owner, !.ver = es[k].ver, !.gen = gen]
      BY <2>4 DEF Newest
    <3>2. k \in own /\ \A j \in own : j <= k
      <4> HIDE DEF own
      <4>1. own \subseteq 1..n
        BY <2>2
      <4>2. \E m \in own : \A j \in own : j <= m
        BY <1>1, <2>4, <4>1, LastPosition
      <4> QED
        BY <4>2
    <3> HIDE DEF k, own
    <3>3. /\ topics'[b].no = topics[b].no /\ topics'[b].subs = topics[b].subs
          /\ topics'[b].owner = es[k].owner /\ topics'[b].ver = es[k].ver
      BY <2>1, <3>1 DEF Topic
    <3>4. k \in 1..n /\ chan[k].battle = b /\ \A j \in 1..n : chan[j].battle = b => j <= k
      BY <2>2, <3>2
    <3> QED
      BY <1>2, <2>1, <3>3, <3>4
  <2> QED
    BY <2>3, <2>4
<1> QED
  BY <1>2, <1>3, <1>4, <1>5, <1>6 DEF Dispatched

LEMMA FlowDispatches ==
  ASSUME WatchInv, FlowInv, NEW n \in 1..Len(chan), Dispatch(n)
  PROVE  FlowInv' /\ Dispatched(n) /\ batch = <<>> /\ Up' = Up /\ Up
<1> DEFINE l == Len(chan)
<1>1. /\ l \in Nat /\ n \in 1..l /\ DOMAIN chan = 1..l
      /\ \A i \in 1..l : chan[i].battle \in Battles /\ chan[i].ver \in Nat
  BY EventTypes DEF WatchInv
<1> HIDE DEF l
<1>2. /\ UNCHANGED <<rec, stream>> /\ Up /\ Up' = Up /\ batch = <<>>
  BY DEF Dispatch, Up
<1>3. Dispatched(n)
  BY DispatchTakes
<1>4. /\ DOMAIN batch' = 1..n /\ DOMAIN chan' = 1..(l - n)
      /\ \A i \in 1..n : batch'[i].event = chan[i] /\ batch'[i].subs = Subs(chan[i].battle)
      /\ \A j \in 1..(l - n) : chan'[j] = chan[n + j]
  BY <1>3 DEF Dispatched, l
<1>5. ASSUME NEW i \in 1..l
      PROVE  /\ Written(chan[i])
             /\ \A j \in 1..l : i <= j /\ chan[j].battle = chan[i].battle => chan[i].ver <= chan[j].ver
             /\ \E j \in 1..l : i <= j /\ chan[j].battle = chan[i].battle
                   /\ chan[j].ver = rec[chan[i].battle].ver
  BY <1>1 DEF FlowInv, ChanOrdered
<1>6. ASSUME NEW b \in Battles, NEW j \in 1..l, j > n, chan[j].battle = b,
             chan[j].ver = rec[b].ver
      PROVE  Current(b)'
  <2>1. j - n \in 1..(l - n) /\ n + (j - n) = j
    BY <1>1, <1>6
  <2>2. chan'[j - n] = chan[j]
    BY <1>4, <2>1
  <2> QED
    BY <1>2, <1>4, <1>6, <2>1, <2>2 DEF Current
<1>7. ChanOrdered'
  <2> SUFFICES ASSUME NEW i \in 1..(l - n)
               PROVE  /\ Written(chan[i])'
                      /\ \A j \in 1..(l - n) : i <= j /\ chan'[j].battle = chan'[i].battle =>
                            chan'[i].ver <= chan'[j].ver
                      /\ \E j \in 1..(l - n) : i <= j /\ chan'[j].battle = chan'[i].battle
                            /\ chan'[j].ver = rec'[chan'[i].battle].ver
    BY <1>4 DEF ChanOrdered
  <2>1. n + i \in 1..l /\ chan'[i] = chan[n + i]
    BY <1>1, <1>4
  <2>2. Written(chan[i])'
    BY <1>2, <1>5, <2>1 DEF Written
  <2>3. ASSUME NEW j \in 1..(l - n), i <= j, chan'[j].battle = chan'[i].battle
        PROVE  chan'[i].ver <= chan'[j].ver
    <3>1. n + j \in 1..l /\ n + i <= n + j /\ chan'[j] = chan[n + j]
      BY <1>1, <1>4, <2>3
    <3> QED
      BY <1>5, <2>1, <2>3, <3>1
  <2>4. PICK j \in 1..l : n + i <= j /\ chan[j].battle = chan[n + i].battle
                          /\ chan[j].ver = rec[chan[n + i].battle].ver
    BY <1>5, <2>1
  <2>5. j - n \in 1..(l - n) /\ i <= j - n /\ n + (j - n) = j
    BY <1>1, <2>4
  <2>6. chan'[j - n] = chan[j]
    BY <1>4, <2>5
  <2> QED
    BY <1>2, <2>1, <2>2, <2>3, <2>4, <2>5, <2>6
<1>8. BatchOrdered'
  <2> SUFFICES ASSUME NEW i \in 1..n PROVE DeliveryOrdered(i)'
    BY <1>4 DEF BatchOrdered
  <2>0. PICK b \in Battles : b = chan[i].battle
    BY <1>1
  <2>1. i \in 1..l /\ batch'[i].event = chan[i] /\ batch'[i].event.battle = b
    BY <1>1, <1>4, <2>0
  <2>2. Written(batch[i].event)'
    BY <1>2, <1>5, <2>1 DEF Written
  <2>3. ASSUME NEW j \in 1..n, i <= j, batch'[j].event.battle = b
        PROVE  batch'[i].event.ver <= batch'[j].event.ver /\ batch'[j].subs = batch'[i].subs
    <3>1. j \in 1..l /\ batch'[j].event = chan[j]
      BY <1>1, <1>4
    <3> QED
      BY <1>4, <1>5, <2>0, <2>1, <2>3, <3>1
  <2>4. ASSUME NEW j \in 1..(l - n), chan'[j].battle = b
        PROVE  batch'[i].event.ver <= chan'[j].ver
    <3>1. n + j \in 1..l /\ i <= n + j /\ chan'[j] = chan[n + j]
      BY <1>1, <1>4
    <3> QED
      BY <1>5, <2>0, <2>1, <2>4, <3>1
  <2>5. PICK j \in 1..l : i <= j /\ chan[j].battle = b /\ chan[j].ver = rec[b].ver
    BY <1>5, <2>0, <2>1
  <2>6. CASE j > n
    <3>1. Current(b)'
      BY <1>6, <2>5, <2>6
    <3>2. Current(batch[i].event.battle)'
      BY <2>1, <3>1 DEF Current
    <3> QED
      BY <1>4, <2>1, <2>2, <2>3, <2>4, <3>2 DEF DeliveryOrdered
  <2>7. CASE j \in 1..n
    <3>1. batch'[j].event.battle = b /\ batch'[j].event.ver = rec'[b].ver
      BY <1>2, <1>4, <2>5, <2>7
    <3> QED
      BY <1>4, <2>1, <2>2, <2>3, <2>4, <2>5, <2>7, <3>1 DEF DeliveryOrdered
  <2> QED
    BY <1>1, <2>5, <2>6, <2>7
<1>9. ASSUME NEW b \in Battles PROVE KnownOrdered(b)'
  <2> SUFFICES ASSUME topics'[b] # None
               PROVE  /\ topics'[b].ver <= rec'[b].ver
                      /\ \A j \in 1..(l - n) : chan'[j].battle = b => topics'[b].ver <= chan'[j].ver
                      /\ topics'[b].owner # None => Current(b)' \/ topics'[b].owner = rec'[b].owner
    BY <1>4 DEF KnownOrdered
  <2>1. topics[b] # None /\ KnownOrdered(b)
    BY <1>3 DEF Dispatched, FlowInv
  <2>2. ASSUME topics'[b] = topics[b], \A i \in 1..n : chan[i].battle # b
        PROVE  /\ topics'[b].ver <= rec'[b].ver
               /\ \A j \in 1..(l - n) : chan'[j].battle = b => topics'[b].ver <= chan'[j].ver
               /\ topics'[b].owner # None => Current(b)' \/ topics'[b].owner = rec'[b].owner
    <3>1. \A j \in 1..(l - n) : n + j \in 1..l
      BY <1>1
    <3>0. \A j \in 1..l : chan[j].battle = b => topics[b].ver <= chan[j].ver
      BY <1>1, <2>1 DEF KnownOrdered
    <3>2. topics'[b].ver <= rec'[b].ver
          /\ \A j \in 1..(l - n) : chan'[j].battle = b => topics'[b].ver <= chan'[j].ver
      <4>1. topics'[b].ver <= rec'[b].ver
        BY <1>2, <2>1, <2>2 DEF KnownOrdered
      <4>2. ASSUME NEW j \in 1..(l - n), chan'[j].battle = b PROVE topics'[b].ver <= chan'[j].ver
        BY <1>4, <2>2, <3>0, <3>1, <4>2
      <4> QED
        BY <4>1, <4>2
    <3>3. ASSUME Current(b) PROVE Current(b)'
      <4>1. PICK j \in 1..l : chan[j].battle = b /\ chan[j].ver = rec[b].ver
        BY <1>1, <3>3 DEF Current
      <4>2. j > n
        BY <1>1, <2>2, <4>1
      <4> QED
        BY <1>6, <4>1, <4>2
    <3> QED
      BY <1>2, <2>1, <2>2, <3>2, <3>3 DEF KnownOrdered
  <2>3. ASSUME NEW i \in 1..n, chan[i].battle = b, \A j \in 1..n : chan[j].battle = b => j <= i,
               topics'[b].owner = chan[i].owner, topics'[b].ver = chan[i].ver
        PROVE  /\ topics'[b].ver <= rec'[b].ver
               /\ \A j \in 1..(l - n) : chan'[j].battle = b => topics'[b].ver <= chan'[j].ver
               /\ topics'[b].owner # None => Current(b)' \/ topics'[b].owner = rec'[b].owner
    <3>1. i \in 1..l /\ Written(chan[i])
      BY <1>1, <1>5
    <3>2. ASSUME NEW j \in 1..(l - n), chan'[j].battle = b PROVE topics'[b].ver <= chan'[j].ver
      <4>1. n + j \in 1..l /\ i <= n + j /\ chan'[j] = chan[n + j]
        BY <1>1, <1>4
      <4> QED
        BY <1>5, <2>3, <3>1, <3>2, <4>1
    <3>3. PICK j \in 1..l : i <= j /\ chan[j].battle = b /\ chan[j].ver = rec[b].ver
      BY <1>5, <2>3, <3>1
    <3>4. CASE j > n
      <4>1. Current(b)'
        BY <1>6, <3>3, <3>4
      <4> QED
        BY <1>2, <2>3, <3>1, <3>2, <4>1 DEF Written
    <3>5. CASE j \in 1..n
      <4>1. j = i
        BY <1>1, <2>3, <3>3, <3>5
      <4> QED
        BY <1>2, <2>3, <3>1, <3>2, <3>3, <4>1 DEF Written
    <3> QED
      BY <1>1, <3>3, <3>4, <3>5
  <2> QED
    BY <1>3, <2>2, <2>3 DEF Dispatched
<1> QED
  BY <1>2, <1>3, <1>7, <1>8, <1>9 DEF FlowInv

\* What a notification does to the topics.
LEMMA NotifyShrinks ==
  ASSUME HubGood, TablesOK, NEW b \in Battles, NEW kinds, NEW o, Notify(b, kinds, o)
  PROVE  TopicsShrink /\ Up' = Up
<1>1. UNCHANGED <<topics, stream>> \/ Unsubscribe(b, entry[b].sub)
  BY DEF Notify, Learn
<1>2. CASE UNCHANGED <<topics, stream>>
  BY <1>2 DEF TopicsShrink, Up
<1>3. CASE Unsubscribe(b, entry[b].sub)
  BY <1>3, UnsubscribeShrinks
<1> QED
  BY <1>1, <1>2, <1>3

LEMMA DeliverTakes ==
  ASSUME WatchInv, Deliver
  PROVE  /\ Len(batch) \in Nat \ {0} /\ DOMAIN batch = 1..Len(batch)
         /\ Head(batch) = batch[1] /\ batch[1].event.battle \in Battles
         /\ DOMAIN batch' = 1..(Len(batch) - 1)
         /\ \A i \in 1..(Len(batch) - 1) : batch'[i] = batch[i + 1]
         /\ FlowStays /\ UNCHANGED <<guarded, callers>>
<1>1. batch \in Seq(Pending) /\ batch # <<>>
  BY DEF Deliver, WatchInv, HubGood, HubOK
<1>2. /\ Len(batch) \in Nat \ {0} /\ DOMAIN batch = 1..Len(batch) /\ Head(batch) = batch[1]
      /\ DOMAIN Tail(batch) = 1..(Len(batch) - 1)
      /\ \A i \in 1..(Len(batch) - 1) : Tail(batch)[i] = batch[i + 1]
  BY <1>1
<1>3. batch[1].event.battle \in Battles
  BY <1>2, DeliveryTypes DEF WatchInv, HubGood
<1>4. /\ Notify(batch[1].event.battle, {s.kind : s \in batch[1].subs}, batch[1].event.owner)
      /\ UNCHANGED <<directory, gen, seq, guarded, callers>> /\ batch' = Tail(batch)
  BY <1>2 DEF Deliver
<1>5. TopicsShrink /\ Up' = Up
  BY <1>3, <1>4, NotifyShrinks DEF WatchInv
<1> QED
  BY <1>2, <1>3, <1>4, <1>5 DEF FlowStays, directory

LEMMA FlowDelivers ==
  ASSUME WatchInv, FlowInv, Deliver
  PROVE  FlowInv'
<1> DEFINE m == Len(batch)
<1>1. /\ m \in Nat \ {0} /\ DOMAIN batch = 1..m /\ DOMAIN batch' = 1..(m - 1)
      /\ \A i \in 1..(m - 1) : i + 1 \in 1..m /\ batch'[i] = batch[i + 1]
      /\ UNCHANGED <<rec, chan>> /\ TopicsShrink /\ Up' = Up
  BY DeliverTakes DEF FlowStays
<1> HIDE DEF m
<1>2. ChanOrdered'
  BY <1>1 DEF FlowInv, ChanOrdered, Written
<1>3. ASSUME NEW b \in Battles PROVE KnownOrdered(b)'
  BY <1>1 DEF FlowInv, TopicsShrink, KnownOrdered, Current
<1>4. BatchOrdered'
  <2> SUFFICES ASSUME NEW i \in 1..(m - 1) PROVE DeliveryOrdered(i)'
    BY <1>1 DEF BatchOrdered
  <2>1. i + 1 \in 1..m /\ batch'[i] = batch[i + 1]
    BY <1>1
  <2>2. PICK d, b : d = batch[i + 1] /\ b = d.event.battle
    OBVIOUS
  <2>3. /\ Written(d.event)
        /\ \A j \in 1..m : i + 1 <= j /\ batch[j].event.battle = b =>
              d.event.ver <= batch[j].event.ver /\ batch[j].subs = d.subs
        /\ \A j \in DOMAIN chan : chan[j].battle = b => d.event.ver <= chan[j].ver
        /\ \/ Current(b)
           \/ \E j \in 1..m : i + 1 <= j /\ batch[j].event.battle = b
                 /\ batch[j].event.ver = rec[b].ver
    BY <1>1, <2>1, <2>2 DEF FlowInv, BatchOrdered, DeliveryOrdered
  <2>4. ASSUME NEW j \in 1..(m - 1), i <= j, batch'[j].event.battle = b
        PROVE  d.event.ver <= batch'[j].event.ver /\ batch'[j].subs = d.subs
    <3>1. j + 1 \in 1..m /\ i + 1 <= j + 1 /\ batch'[j] = batch[j + 1]
      BY <1>1, <2>1, <2>4
    <3> QED
      BY <2>3, <2>4, <3>1
  <2>5. Current(b)' \/ \E j \in 1..(m - 1) : i <= j /\ batch'[j].event.battle = b
                          /\ batch'[j].event.ver = rec'[b].ver
    <3>1. CASE Current(b)
      BY <1>1, <3>1 DEF Current
    <3>2. ASSUME NEW j \in 1..m, i + 1 <= j, batch[j].event.battle = b,
                 batch[j].event.ver = rec[b].ver
          PROVE  \E k \in 1..(m - 1) : i <= k /\ batch'[k].event.battle = b
                    /\ batch'[k].event.ver = rec'[b].ver
      <4>1. j - 1 \in 1..(m - 1) /\ i <= j - 1 /\ (j - 1) + 1 = j
        BY <1>1, <3>2
      <4>2. batch'[j - 1] = batch[j]
        BY <1>1, <4>1
      <4> QED
        BY <1>1, <3>2, <4>1, <4>2
    <3> QED
      BY <2>3, <3>1, <3>2
  <2>6. Written(d.event)' /\ batch'[i] = d /\ batch'[i].event.battle = b
    BY <1>1, <2>1, <2>2, <2>3 DEF Written
  <2>7. Written(batch[i].event)'
    BY <2>6 DEF Written
  <2>8. Current(batch[i].event.battle)' <=> Current(b)'
    BY <2>6 DEF Current
  <2> QED
    BY <1>1, <2>3, <2>4, <2>5, <2>6, <2>7, <2>8 DEF DeliveryOrdered
<1>5. ~Up' => chan' = <<>> /\ batch' = <<>>
  <2>1. ~Up' => batch = <<>>
    BY <1>1 DEF FlowInv
  <2>2. batch # <<>>
    BY DEF Deliver
  <2> QED
    BY <1>1, <2>1, <2>2 DEF FlowInv
<1> QED
  BY <1>2, <1>3, <1>4, <1>5 DEF FlowInv

\* The steps that leave events and deliveries alone.
Calm ==
    \/ \E b \in Battles : BackoffEnds(b) \/ Age(b) \/ Sweep(b) \/ \E t \in Callers : Lookup(t, b)
    \/ \E t \in Callers : \/ AttachFails(t) \/ Call(t) \/ Return(t) \/ Resolving(t)
                          \/ Register(t) \/ GiveUp(t) \/ Unregister(t)
    \/ UNCHANGED vars

LEMMA CalmStays ==
  ASSUME WatchInv, Calm
  PROVE  FlowStays /\ batch' = batch
<1>1. ASSUME UNCHANGED <<rec, chan, gen, seq, topics, stream>> PROVE FlowStays
  BY <1>1 DEF FlowStays, TopicsShrink, Up
<1>2. ASSUME UNCHANGED <<rec, chan, gen, seq>>, NEW b \in Battles, NEW n,
             Unsubscribe(b, n) \/ UNCHANGED <<topics, stream>>
      PROVE  FlowStays
  BY <1>1, <1>2, UnsubscribeShrinks DEF FlowStays, WatchInv
<1>3. ASSUME NEW b \in Battles,
             BackoffEnds(b) \/ Age(b) \/ \E t \in Callers : Lookup(t, b)
      PROVE  FlowStays /\ batch' = batch
  BY <1>1, <1>3 DEF BackoffEnds, Age, Lookup, directory, hub
<1>4. ASSUME NEW b \in Battles, Sweep(b) PROVE FlowStays /\ batch' = batch
  BY <1>2, <1>4 DEF Sweep, directory
<1>5. ASSUME NEW t \in Callers, AttachFails(t) PROVE FlowStays /\ batch' = batch
  <2>1. UNCHANGED <<rec, chan, gen, seq, topics, batch>> /\ ~Up /\ (stream' = stream \/ stream' = None)
    BY <1>5 DEF AttachFails, directory
  <2>2. Up' = Up
    BY <2>1 DEF Up
  <2> QED
    BY <2>1, <2>2 DEF FlowStays, TopicsShrink
<1>6. ASSUME NEW t \in Callers, Call(t) PROVE FlowStays /\ batch' = batch
  <2>1. /\ at[t] \in Battles /\ Notify(at[t], {kind[t]}, owed[t].owner)
        /\ UNCHANGED <<rec, chan, gen, seq, batch>>
    BY <1>6 DEF Call, directory, WatchInv, PlacesOK
  <2>2. TopicsShrink /\ Up' = Up
    BY <2>1, NotifyShrinks DEF WatchInv
  <2> QED
    BY <2>1, <2>2 DEF FlowStays
<1>7. ASSUME NEW t \in Callers, Return(t) PROVE FlowStays /\ batch' = batch
  <2>1. /\ at[t] \in Battles /\ UNCHANGED <<rec, chan, gen, seq, batch>>
    BY <1>7 DEF Return, directory, WatchInv, PlacesOK
  <2>2. \E n \in num[t]..seq : Unsubscribe(at[t], n) \/ UNCHANGED <<topics, stream>>
    BY <1>7 DEF Return
  <2> QED
    BY <1>2, <2>1, <2>2
<1>8. ASSUME NEW t \in Callers, Resolving(t) \/ Register(t) \/ GiveUp(t)
      PROVE  FlowStays /\ batch' = batch
  BY <1>1, <1>8 DEF Resolving, BeginOwnerWatch, Query, StoreOwner, Register, GiveUp, directory, hub
<1>9. ASSUME NEW t \in Callers, Unregister(t) PROVE FlowStays /\ batch' = batch
  <2>1. at[t] \in Battles /\ UNCHANGED <<rec, chan, gen, seq, batch>>
    BY <1>9 DEF Unregister, directory, WatchInv, PlacesOK
  <2>2. Unsubscribe(at[t], guarded[at[t]].sub) \/ UNCHANGED <<topics, stream>>
    BY <1>9 DEF Unregister
  <2> QED
    BY <1>2, <2>1, <2>2
<1>10. CASE UNCHANGED vars
  BY <1>1, <1>10 DEF vars, directory, hub
<1> QED
  BY <1>3, <1>4, <1>5, <1>6, <1>7, <1>8, <1>9, <1>10 DEF Calm

\* A new subscription changes the subscribers of its topic only.
LEMMA InsertGrows ==
  ASSUME WatchInv, NEW t \in Callers, Insert(t)
  PROVE  /\ UNCHANGED <<rec, chan, batch>> /\ Up' = Up
         /\ \A b \in Battles : topics'[b] # None =>
               /\ topics[b] # None /\ topics'[b].owner = topics[b].owner
               /\ topics'[b].ver = topics[b].ver /\ topics'[b].no = topics[b].no
<1>1. UNCHANGED <<rec, chan, batch, stream>> /\ at[t] \in Battles
  BY DEF Insert, directory, WatchInv, PlacesOK
<1>2. \A b \in Battles : topics'[b] # None =>
         /\ topics[b] # None /\ topics'[b].owner = topics[b].owner
         /\ topics'[b].ver = topics[b].ver /\ topics'[b].no = topics[b].no
  <2>1. CASE topics' = topics
    BY <2>1
  <2>2. CASE /\ topics[at[t]] # None
             /\ topics' = [topics EXCEPT ![at[t]] = [topics[at[t]] EXCEPT
                              !.subs = @ \cup {[num |-> seq', kind |-> kind[t]]}]]
    <3> DEFINE s == [num |-> seq', kind |-> kind[t]]
               tp == [topics[at[t]] EXCEPT !.subs = @ \cup {s}]
    <3>1. topics[at[t]] \in Topic
      BY <1>1, <2>2 DEF WatchInv, HubGood, HubOK
    <3> HIDE DEF s
    <3>2. tp.owner = topics[at[t]].owner /\ tp.ver = topics[at[t]].ver /\ tp.no = topics[at[t]].no
      BY <3>1 DEF Topic
    <3>3. topics' = [topics EXCEPT ![at[t]] = tp]
      BY <2>2 DEF s
    <3> HIDE DEF tp
    <3> QED
      BY <1>1, <2>2, <3>2, <3>3 DEF WatchInv, HubGood, HubOK
  <2> QED
    BY <2>1, <2>2 DEF Insert, Set
<1> QED
  BY <1>1, <1>2 DEF Up

LEMMA NextCases ==
  ASSUME [Next]_vars
  PROVE  \/ \E b \in Battles : (\E o \in Owners : Move(b, o)) \/ Renew(b)
         \/ \E n \in 1..Len(chan) : Dispatch(n)
         \/ Deliver \/ StreamEnded \/ CloseIdle \/ Calm
         \/ \E t \in Callers : Attach(t) \/ Insert(t)
  BY DEF Next, Calm, Attached, Owners

LEMMA FlowStep == WatchInv /\ FlowInv /\ [Next]_vars => FlowInv'
<1> SUFFICES ASSUME WatchInv, FlowInv, [Next]_vars PROVE FlowInv'
  OBVIOUS
<1>1. CASE Calm
  BY <1>1, CalmStays, FlowKept DEF FlowStays, TopicsShrink
<1>2. ASSUME NEW t \in Callers, Insert(t) PROVE FlowInv'
  BY <1>2, InsertGrows, FlowKept
<1> QED
  BY <1>1, <1>2, NextCases, FlowMoves, FlowRenews, FlowDispatches, FlowDelivers, FlowEnds,
     FlowStarts

LEMMA InitFlow == Init => FlowInv
  BY DEF Init, FlowInv, ChanOrdered, BatchOrdered, KnownOrdered
-------------------------------------------------------------------------------
(* No new subscriber is told something older *)

\* Numbers that the hub serves, or is about to notify, have been given.
Given ==
    /\ \A b \in Battles : \A s \in Subs(b) : s.num <= seq
    /\ \A i \in DOMAIN batch : \A s \in batch[i].subs : s.num <= seq

\* The number of a new subscription stands in the topic its caller found.
Placed(t) ==
    /\ \A b \in Battles : \A s \in Subs(b) : s.num = num[t] =>
          b = at[t] /\ topics[b].no = topic[t]
    /\ \A i \in DOMAIN batch : \A s \in batch[i].subs : s.num = num[t] =>
          batch[i].event.battle = at[t] /\ batch[i].no = topic[t]

\* The version a new subscription has been told, or is told first.
Heard(t) == IF pc[t] = "calling" THEN owed[t].ver ELSE told[t]

\* It is not newer than the record, and than what is still on its way to it.
HeardBefore(t) ==
    /\ Heard(t) <= rec[at[t]].ver
    /\ \A j \in DOMAIN chan : chan[j].battle = at[t] => Heard(t) <= chan[j].ver
    /\ \A i \in DOMAIN batch : \A s \in batch[i].subs : s.num = num[t] =>
          Heard(t) <= batch[i].event.ver

HeardInv ==
    /\ Given
    /\ \A t \in Callers :
          /\ Attaching(t) => Placed(t) /\ HeardBefore(t)
          /\ ~Attaching(t) \/ pc[t] = "calling" => told[t] = 0

LEMMA InitHeard == Init => HeardInv
  BY DEF Init, HeardInv, Given, Subs, Attaching

\* The new subscriptions have heard what they had heard.
SameHeard ==
    \A u \in Callers :
        /\ Attaching(u)' =>
              /\ Attaching(u) /\ num'[u] = num[u] /\ at'[u] = at[u] /\ topic'[u] = topic[u]
              /\ Heard(u)' = Heard(u) /\ (pc'[u] = "calling" => pc[u] = "calling")
        /\ ~Attaching(u)' \/ pc'[u] = "calling" => told'[u] = 0

LEMMA HeardTypes ==
  ASSUME WatchInv, NEW t \in Callers, Attaching(t)
  PROVE  at[t] \in Battles /\ Heard(t) \in Nat /\ rec[at[t]].ver \in Nat /\ num[t] \in Nat
         /\ seq \in Nat /\ num[t] <= seq
<1>1. at[t] \in Battles /\ num[t] \in 0..seq /\ seq \in Nat
  BY DEF WatchInv, PlacesOK, Attaching, LocalsOK, HubGood, HubOK
<1>2. owed[t] \in Known /\ told[t] \in Nat /\ rec[at[t]] \in Known
  BY <1>1 DEF WatchInv, LocalsOK, DirectoryOK
<1> QED
  BY <1>1, <1>2 DEF Known, Heard

\* Records go forward, new events are new, and what is delivered comes from the channel.
LEMMA HeardKept ==
  ASSUME WatchInv, WatchInv', HeardInv, SameHeard, seq' = seq,
         \A b \in Battles : rec[b].ver <= rec'[b].ver,
         \A j \in DOMAIN chan' :
            \/ \E i \in DOMAIN chan : chan[i].battle = chan'[j].battle /\ chan[i].ver = chan'[j].ver
            \/ rec[chan'[j].battle].ver <= chan'[j].ver,
         \A b \in Battles : \A s \in Subs(b)' : s \in Subs(b) /\ topics'[b].no = topics[b].no,
         \A i \in DOMAIN batch' :
            \/ \E j \in DOMAIN batch : batch'[i] = batch[j]
            \/ \E j \in DOMAIN chan :
                  /\ batch'[i].event = chan[j] /\ batch'[i].subs = Subs(chan[j].battle)
                  /\ topics[chan[j].battle] # None => batch'[i].no = topics[chan[j].battle].no
  PROVE  HeardInv'
<1>0. /\ \A i \in DOMAIN chan : chan[i].battle \in Battles /\ chan[i].ver \in Nat
      /\ \A i \in DOMAIN chan' : chan'[i].battle \in Battles /\ chan'[i].ver \in Nat
      /\ \A i \in DOMAIN batch' : batch'[i].event.ver \in Nat
  <2>1. chan' \in Seq(News) /\ batch' \in Seq(Pending)
    BY DEF WatchInv, DirectoryOK, HubGood, HubOK
  <2>2. \A i \in DOMAIN chan' : chan'[i] \in News
    BY <2>1
  <2>3. \A i \in DOMAIN batch' : batch'[i] \in Pending
    BY <2>1
  <2> QED
    BY <2>2, <2>3, EventTypes DEF WatchInv, News, Pending
<1>1. ASSUME NEW i \in DOMAIN batch', NEW s \in batch'[i].subs
      PROVE  \/ \E j \in DOMAIN batch : batch'[i] = batch[j] /\ s \in batch[j].subs
             \/ \E j \in DOMAIN chan :
                   /\ batch'[i].event = chan[j] /\ s \in Subs(chan[j].battle)
                   /\ batch'[i].no = topics[chan[j].battle].no
  BY <1>1 DEF Subs
<1>2. Given'
  <2>1. \A b \in Battles : \A s \in Subs(b)' : s.num <= seq'
    BY DEF HeardInv, Given
  <2>2. ASSUME NEW i \in DOMAIN batch', NEW s \in batch'[i].subs PROVE s.num <= seq'
    BY <1>0, <1>1, <2>2 DEF HeardInv, Given
  <2> QED
    BY <2>1, <2>2 DEF Given
<1>3. ASSUME NEW t \in Callers, Attaching(t)' PROVE Placed(t)' /\ HeardBefore(t)'
  <2>1. /\ Attaching(t) /\ num'[t] = num[t] /\ at'[t] = at[t] /\ topic'[t] = topic[t]
        /\ Heard(t)' = Heard(t)
    BY <1>3 DEF SameHeard
  <2>2. Placed(t) /\ HeardBefore(t)
    BY <2>1 DEF HeardInv
  <2>3. /\ at[t] \in Battles /\ Heard(t) \in Nat /\ rec[at[t]].ver \in Nat
        /\ rec'[at[t]].ver \in Nat
    <3>1. rec'[at[t]] \in Known
      BY <2>1, HeardTypes DEF WatchInv, DirectoryOK
    <3> QED
      BY <2>1, <3>1, HeardTypes DEF Known
  <2>4. \A b \in Battles : \A s \in Subs(b)' : s.num = num'[t] => b = at'[t] /\ topics'[b].no = topic'[t]
    BY <2>1, <2>2 DEF Placed
  <2>5. ASSUME NEW i \in DOMAIN batch', NEW s \in batch'[i].subs, s.num = num'[t]
        PROVE  /\ batch'[i].event.battle = at'[t] /\ batch'[i].no = topic'[t]
               /\ Heard(t) <= batch'[i].event.ver
    <3>1. CASE \E j \in DOMAIN batch : batch'[i] = batch[j] /\ s \in batch[j].subs
      BY <2>1, <2>2, <2>5, <3>1 DEF Placed, HeardBefore
    <3>2. ASSUME NEW j \in DOMAIN chan, batch'[i].event = chan[j], s \in Subs(chan[j].battle),
                 batch'[i].no = topics[chan[j].battle].no
          PROVE  /\ batch'[i].event.battle = at'[t] /\ batch'[i].no = topic'[t]
                 /\ Heard(t) <= batch'[i].event.ver
      BY <1>0, <2>1, <2>2, <2>5, <3>2 DEF Placed, HeardBefore
    <3> QED
      BY <1>1, <2>5, <3>1, <3>2
  <2>6. Heard(t) <= rec'[at[t]].ver
    BY <2>2, <2>3 DEF HeardBefore
  <2>7. ASSUME NEW j \in DOMAIN chan', chan'[j].battle = at[t] PROVE Heard(t) <= chan'[j].ver
    <3>1. CASE rec[chan'[j].battle].ver <= chan'[j].ver
      BY <1>0, <2>2, <2>3, <2>7, <3>1 DEF HeardBefore
    <3>2. CASE \E i \in DOMAIN chan : chan[i].battle = chan'[j].battle /\ chan[i].ver = chan'[j].ver
      BY <2>2, <2>7, <3>2 DEF HeardBefore
    <3> QED
      BY <3>1, <3>2
  <2>8. Placed(t)'
    BY <2>4, <2>5 DEF Placed
  <2>9. HeardBefore(t)'
    BY <2>1, <2>5, <2>6, <2>7 DEF HeardBefore
  <2> QED
    BY <2>8, <2>9
<1> QED
  BY <1>2, <1>3 DEF HeardInv, SameHeard

\* A new subscription is told what is known now, and nothing that is on its way is older.
LEMMA HeardInserts ==
  ASSUME WatchInv, FlowInv, HeardInv, NEW t \in Callers, Insert(t)
  PROVE  HeardInv'
<1>1. /\ WatchInv' /\ at[t] \in Battles /\ pc[t] = "waiting" /\ seq \in Nat
      /\ UNCHANGED <<rec, chan, batch, at, topic, told>>
      /\ \A b \in Battles : topics'[b] # None =>
               /\ topics[b] # None /\ topics'[b].no = topics[b].no
  <2>1. WatchInv'
    BY InsertStep
  <2>2. UNCHANGED <<at, topic, told>> /\ pc[t] = "waiting"
    BY DEF Insert
  <2>3. at[t] \in Battles
    BY <2>2 DEF WatchInv, PlacesOK
  <2>4. seq \in Nat
    BY DEF WatchInv, HubGood, HubOK
  <2> QED
    BY <2>1, <2>2, <2>3, <2>4, InsertGrows
<1>2. \A u \in Callers : u # t => pc'[u] = pc[u] /\ num'[u] = num[u] /\ owed'[u] = owed[u]
  BY DEF Insert, Go, Set, WatchInv, PlacesOK, LocalsOK
<1>3. \A u \in Callers : u # t => Heard(u)' = Heard(u) /\ (Attaching(u)' <=> Attaching(u))
  BY <1>1, <1>2 DEF Heard, Attaching
<1>4. told[t] = 0 /\ told'[t] = 0
  BY <1>1 DEF HeardInv, Attaching
<1>5. CASE UNCHANGED <<seq, num>> /\ Go(t, "attach") /\ \A b \in Battles : Subs(b)' = Subs(b)
  <2>1. pc'[t] = "attach"
    BY <1>5 DEF Go, Set, WatchInv, PlacesOK
  <2>2. SameHeard
    BY <1>1, <1>2, <1>3, <1>4, <2>1 DEF SameHeard, Attaching, HeardInv
  <2>3. \A b \in Battles : rec[b].ver <= rec'[b].ver
    BY <1>1 DEF WatchInv, DirectoryOK, Known
  <2>4. \A b \in Battles : \A s \in Subs(b)' : s \in Subs(b) /\ topics'[b].no = topics[b].no
    BY <1>1, <1>5 DEF Subs
  <2> QED
    BY <1>1, <1>5, <2>2, <2>3, <2>4, HeardKept
<1>6. CASE /\ seq' = seq + 1 /\ num' = [num EXCEPT ![t] = seq']
           /\ \E l \in {"calling", "returning"} : Go(t, l)
           /\ \A b \in Battles :
                 Subs(b)' = IF b = at[t]
                            THEN Subs(b) \cup {[num |-> seq', kind |-> kind[t]]}
                            ELSE Subs(b)
  <2>1. /\ topics[at[t]] # None /\ topics[at[t]].no = topic[t]
        /\ owed'[t].ver = topics[at[t]].ver /\ topics[at[t]].ver \in Nat
    <3>1. /\ ~(topics[at[t]] = None \/ topics[at[t]].no # topic[t])
          /\ owed' = [owed EXCEPT ![t] = [owner |-> topics[at[t]].owner, ver |-> topics[at[t]].ver]]
      BY <1>1, <1>6 DEF Insert, Set
    <3>2. owed \in [Callers -> Known] /\ topics[at[t]] \in Topic
      BY <1>1, <3>1 DEF WatchInv, LocalsOK, HubGood, HubOK
    <3> QED
      BY <3>1, <3>2 DEF Topic
  <2>2. num'[t] = seq + 1
    BY <1>6 DEF WatchInv, LocalsOK
  <2>3. /\ \A b \in Battles : \A s \in Subs(b) : s.num <= seq /\ s.num \in Nat
        /\ \A i \in DOMAIN batch : \A s \in batch[i].subs : s.num <= seq /\ s.num \in Nat
    <3>1. \A b \in Battles : Subs(b) \subseteq Sub
      BY DEF WatchInv, HubGood, HubOK, Subs, Topic
    <3>2. \A i \in DOMAIN batch : batch[i].subs \subseteq Sub
      BY DeliveryTypes DEF WatchInv, HubGood
    <3> QED
      BY <3>1, <3>2 DEF HeardInv, Given, Sub
  <2>4. \A b \in Battles : \A s \in Subs(b)' :
           \/ s \in Subs(b) /\ s.num # seq + 1
           \/ s.num = seq + 1 /\ b = at[t]
    <3>1. [num |-> seq', kind |-> kind[t]].num = seq + 1
      BY <1>6
    <3> QED
      BY <1>1, <1>6, <2>3, <3>1
  <2>5. Given'
    BY <1>1, <1>6, <2>3, <2>4 DEF Given
  <2>6. \A b \in Battles : Subs(b)' # {} => topics'[b].no = topics[b].no
    BY <1>1 DEF Subs
  <2>7. ASSUME NEW u \in Callers, Attaching(u)', u # t PROVE Placed(u)' /\ HeardBefore(u)'
    <3>1. Placed(u) /\ HeardBefore(u) /\ num[u] \in Nat /\ num[u] <= seq
      BY <1>3, <2>7, HeardTypes DEF HeardInv
    <3>2. Placed(u)'
      BY <1>1, <1>2, <2>4, <2>6, <2>7, <3>1 DEF Placed
    <3>3. HeardBefore(u)'
      BY <1>1, <1>2, <1>3, <2>7, <3>1 DEF HeardBefore
    <3> QED
      BY <3>2, <3>3
  <2>8. Placed(t)'
    <3>1. ASSUME NEW b \in Battles, NEW s \in Subs(b)', s.num = seq + 1
          PROVE  b = at[t] /\ topics'[b].no = topic[t]
      BY <2>1, <2>4, <2>6, <3>1
    <3> QED
      BY <1>1, <2>2, <2>3, <3>1 DEF Placed
  <2>9. HeardBefore(t)'
    <3>1. Heard(t)' = topics[at[t]].ver \/ Heard(t)' = 0
      BY <1>4, <2>1 DEF Heard
    <3>2. /\ topics[at[t]].ver <= rec[at[t]].ver
          /\ \A j \in DOMAIN chan : chan[j].battle = at[t] => topics[at[t]].ver <= chan[j].ver
      BY <1>1, <2>1 DEF FlowInv, KnownOrdered
    <3>3. rec[at[t]].ver \in Nat /\ \A j \in DOMAIN chan : chan[j].ver \in Nat
      BY <1>1, EventTypes DEF WatchInv, DirectoryOK, Known
    <3> QED
      BY <1>1, <2>2, <2>3, <3>1, <3>2, <3>3 DEF HeardBefore
  <2> QED
    BY <1>2, <1>1, <1>3, <1>4, <2>5, <2>7, <2>8, <2>9 DEF HeardInv
<1> QED
  BY <1>5, <1>6, InsertStep

\* A delivery tells new subscribers what is not older: it waits for the topic's lock.
LEMMA HeardDelivers ==
  ASSUME WatchInv, FlowInv, HeardInv, Deliver
  PROVE  HeardInv' /\ \A t \in Callers : Attaching(t) => told[t] <= told'[t]
<1> DEFINE m == Len(batch)
           d == batch[1]
<1>1. /\ m \in Nat \ {0} /\ DOMAIN batch = 1..m /\ DOMAIN batch' = 1..(m - 1)
      /\ Head(batch) = batch[1] /\ d.event.battle \in Battles
      /\ \A i \in 1..(m - 1) : batch'[i] = batch[i + 1]
      /\ FlowStays /\ UNCHANGED <<guarded, callers>>
  BY DeliverTakes
<1>2. \A i \in DOMAIN batch' : i + 1 \in DOMAIN batch /\ 1 <= i + 1 /\ batch'[i] = batch[i + 1]
  BY <1>1
<1>3. /\ told' = [t \in Callers |->
                     IF Attaching(t) /\ \E s \in d.subs : s.num = num[t]
                     THEN d.event.ver ELSE told[t]]
      /\ ~Locked(d.no)
  BY <1>1 DEF Deliver
<1>4. /\ UNCHANGED <<rec, chan, gen, seq>> /\ UNCHANGED <<pc, at, num, topic, owed>> /\ TopicsShrink
  BY <1>1 DEF FlowStays, callers, locals
<1>5. 1 \in DOMAIN batch /\ DeliveryOrdered(1)
  BY <1>1 DEF FlowInv, BatchOrdered
<1> HIDE DEF m
<1>6. PICK b, v : b = d.event.battle /\ v = d.event.ver
  OBVIOUS
<1>7. /\ v <= rec[b].ver /\ v \in Nat
      /\ \A j \in DOMAIN batch : 1 <= j /\ batch[j].event.battle = b => v <= batch[j].event.ver
      /\ \A j \in DOMAIN chan : chan[j].battle = b => v <= chan[j].ver
  BY <1>5, <1>6, DeliveryTypes DEF DeliveryOrdered, Written, WatchInv, HubGood
<1> HIDE DEF d
<1>8. ASSUME NEW t \in Callers, Attaching(t), NEW s \in d.subs, s.num = num[t]
      PROVE  /\ at[t] = b /\ Heard(t) = told[t] /\ Heard(t)' = v /\ told[t] <= v /\ told'[t] = v
             /\ pc[t] # "calling"
  <2>1. Placed(t) /\ HeardBefore(t)
    BY <1>8 DEF HeardInv
  <2>2. at[t] = b /\ d.no = topic[t] /\ Heard(t) <= v
    BY <1>5, <1>6, <1>8, <2>1 DEF Placed, HeardBefore, d
  <2>3. pc[t] # "calling"
    BY <1>3, <2>2 DEF Locked
  <2>4. told'[t] = v
    BY <1>3, <1>6, <1>8
  <2> QED
    BY <1>4, <2>2, <2>3, <2>4 DEF Heard
<1>9. ASSUME NEW t \in Callers, ~(Attaching(t) /\ \E s \in d.subs : s.num = num[t])
      PROVE  told'[t] = told[t] /\ Heard(t)' = Heard(t)
  BY <1>3, <1>4, <1>9 DEF Heard
<1>10. \A c \in Battles : \A s \in Subs(c)' : s \in Subs(c) /\ topics'[c].no = topics[c].no
  BY <1>4 DEF TopicsShrink, Subs
<1>11. Given'
  BY <1>2, <1>4, <1>10 DEF HeardInv, Given
<1>12. ASSUME NEW t \in Callers, Attaching(t) PROVE Placed(t)'
  BY <1>2, <1>4, <1>10, <1>12 DEF HeardInv, Placed
<1>13. ASSUME NEW t \in Callers, Attaching(t) PROVE HeardBefore(t)'
  <2>1. Placed(t) /\ HeardBefore(t)
    BY <1>13 DEF HeardInv
  <2>2. CASE \E s \in d.subs : s.num = num[t]
    <3>1. at[t] = b /\ Heard(t)' = v
      BY <1>8, <1>13, <2>2
    <3>2. ASSUME NEW i \in DOMAIN batch', NEW s \in batch'[i].subs, s.num = num[t]
          PROVE  v <= batch'[i].event.ver
      <4>1. i + 1 \in DOMAIN batch /\ 1 <= i + 1 /\ batch'[i] = batch[i + 1]
        BY <1>2
      <4>2. batch[i + 1].event.battle = b
        BY <2>1, <3>1, <3>2, <4>1 DEF Placed
      <4> QED
        BY <1>7, <4>1, <4>2
    <3> QED
      BY <1>4, <1>7, <3>1, <3>2 DEF HeardBefore
  <2>3. CASE ~\E s \in d.subs : s.num = num[t]
    BY <1>2, <1>4, <1>9, <2>1, <2>3 DEF HeardBefore
  <2> QED
    BY <2>2, <2>3
<1>14. ASSUME NEW t \in Callers, ~Attaching(t)' \/ pc'[t] = "calling" PROVE told'[t] = 0
  BY <1>4, <1>8, <1>9, <1>14 DEF HeardInv, Attaching
<1>15. ASSUME NEW t \in Callers, Attaching(t) PROVE told[t] <= told'[t]
  <2>1. told[t] \in Nat
    BY DEF WatchInv, LocalsOK
  <2> QED
    BY <1>8, <1>9, <1>15, <2>1
<1>16. \A t \in Callers : Attaching(t)' <=> Attaching(t)
  BY <1>4 DEF Attaching
<1> QED
  BY <1>11, <1>12, <1>13, <1>14, <1>15, <1>16 DEF HeardInv

\* No other step tells a new subscription anything but what it was owed.
LEMMA CalmHeard ==
  ASSUME WatchInv, HeardInv, Calm
  PROVE  SameHeard
<1>1. ASSUME UNCHANGED <<at, num, topic, owed, told>>,
             \A u \in Callers : (Attaching(u)' => pc'[u] = pc[u]) /\ (Attaching(u) => Attaching(u)')
      PROVE  SameHeard
  BY <1>1 DEF SameHeard, Attaching, Heard, HeardInv
<1>2. ASSUME NEW t \in Callers, ~Attaching(t), ~Attaching(t)', told' = told,
             \A u \in Callers : u # t => /\ pc'[u] = pc[u] /\ num'[u] = num[u] /\ at'[u] = at[u]
                                         /\ topic'[u] = topic[u] /\ owed'[u] = owed[u]
      PROVE  SameHeard
  <2>1. \A u \in Callers : u # t => (Attaching(u)' <=> Attaching(u)) /\ Heard(u)' = Heard(u)
    BY <1>2 DEF Attaching, Heard
  <2> QED
    BY <1>2, <2>1 DEF SameHeard, HeardInv
<1>3. ASSUME NEW b \in Battles, BackoffEnds(b) \/ Age(b) \/ Sweep(b) PROVE SameHeard
  <2>1. UNCHANGED <<pc, at, num, topic, owed, told>>
    BY <1>3 DEF BackoffEnds, Age, Sweep, callers, locals
  <2> QED
    BY <1>1, <2>1 DEF Attaching
<1>4. ASSUME NEW t \in Callers, NEW b \in Battles, Lookup(t, b) PROVE SameHeard
  <2>1. /\ pc[t] = "idle" /\ UNCHANGED <<num, topic, owed, told>> /\ at' = [at EXCEPT ![t] = b]
        /\ Go(t, "resolved") \/ Go(t, "missed")
    BY <1>4 DEF Lookup, Set
  <2> QED
    BY <1>2, <2>1 DEF Go, Set, Attaching, WatchInv, PlacesOK
<1>5. ASSUME NEW t \in Callers, AttachFails(t) PROVE SameHeard
  <2>1. /\ pc[t] = "attach" /\ UNCHANGED <<at, num, topic, owed, told>>
        /\ Go(t, "query") \/ Go(t, "streaming")
    BY <1>5 DEF AttachFails, locals
  <2> QED
    BY <1>2, <2>1 DEF Go, Set, Attaching, WatchInv, PlacesOK
<1>6. ASSUME NEW t \in Callers, Call(t) PROVE SameHeard
  <2>1. /\ pc[t] = "calling" /\ UNCHANGED <<at, num, topic, owed>>
        /\ pc' = [pc EXCEPT ![t] = "returning"] /\ told' = [told EXCEPT ![t] = owed[t].ver]
    BY <1>6 DEF Call, locals, Go, Set
  <2>2. pc \in [Callers -> {"idle", "missed", "attach", "waiting", "calling", "returning",
                            "query", "store", "resolved", "streaming"}]
        /\ told \in [Callers -> 0..MaxVer]
    BY DEF WatchInv, PlacesOK, LocalsOK
  <2>3. pc'[t] = "returning" /\ told'[t] = owed[t].ver
    BY <2>1, <2>2
  <2>4. \A u \in Callers : u # t => pc'[u] = pc[u] /\ told'[u] = told[u]
    BY <2>1, <2>2
  <2>5. Attaching(t) /\ Heard(t)' = Heard(t)
    BY <2>1, <2>3 DEF Attaching, Heard
  <2>6. \A u \in Callers : u # t => (Attaching(u)' <=> Attaching(u)) /\ Heard(u)' = Heard(u)
    BY <2>1, <2>4 DEF Attaching, Heard
  <2> QED
    BY <2>1, <2>3, <2>4, <2>5, <2>6 DEF SameHeard, HeardInv, Attaching
<1>7. ASSUME NEW t \in Callers, Return(t) PROVE SameHeard
  <2>1. /\ pc[t] = "returning" /\ at' = at
        /\ Go(t, "query") \/ Go(t, "streaming")
        /\ num' = [num EXCEPT ![t] = 0] /\ topic' = [topic EXCEPT ![t] = 0]
        /\ owed' = [owed EXCEPT ![t] = NoEvent] /\ told' = [told EXCEPT ![t] = 0]
    BY <1>7 DEF Return, Set
  <2>2. ~Attaching(t)' /\ told'[t] = 0
    BY <2>1 DEF Go, Set, Attaching, WatchInv, PlacesOK, LocalsOK
  <2>3. \A u \in Callers : u # t => /\ pc'[u] = pc[u] /\ num'[u] = num[u] /\ at'[u] = at[u]
                                    /\ topic'[u] = topic[u] /\ owed'[u] = owed[u] /\ told'[u] = told[u]
    BY <2>1 DEF Go, Set, WatchInv, PlacesOK, LocalsOK
  <2>4. \A u \in Callers : u # t => (Attaching(u)' <=> Attaching(u)) /\ Heard(u)' = Heard(u)
    BY <2>3 DEF Attaching, Heard
  <2> QED
    BY <2>2, <2>3, <2>4 DEF SameHeard, HeardInv
<1>8. ASSUME NEW t \in Callers, Resolving(t) PROVE SameHeard
  <2>1. CASE BeginOwnerWatch(t)
    <3>1. /\ pc[t] = "missed" /\ UNCHANGED <<at, num, topic, owed, told>>
          /\ Go(t, "attach") \/ Go(t, "query")
      BY <2>1 DEF BeginOwnerWatch
    <3> QED
      BY <1>2, <3>1 DEF Go, Set, Attaching, WatchInv, PlacesOK
  <2>2. CASE Query(t)
    <3>1. /\ pc[t] = "query" /\ UNCHANGED <<num, topic, owed, told>>
          /\ Go(t, "idle") \/ Go(t, "store")
          /\ at' = at \/ at' = [at EXCEPT ![t] = None]
      BY <2>2 DEF Query, Set
    <3> QED
      BY <1>2, <3>1 DEF Go, Set, Attaching, WatchInv, PlacesOK
  <2>3. CASE StoreOwner(t)
    <3>1. /\ pc[t] = "store" /\ UNCHANGED <<at, num, topic, owed, told>> /\ Go(t, "resolved")
      BY <2>3 DEF StoreOwner, locals
    <3> QED
      BY <1>2, <3>1 DEF Go, Set, Attaching, WatchInv, PlacesOK
  <2> QED
    BY <1>8, <2>1, <2>2, <2>3 DEF Resolving
<1>9. ASSUME NEW t \in Callers, Register(t) PROVE SameHeard
  <2>1. /\ pc[t] = "resolved" /\ UNCHANGED <<at, num, topic, owed, told>>
        /\ Go(t, "attach") \/ Go(t, "streaming")
    BY <1>9 DEF Register
  <2> QED
    BY <1>2, <2>1 DEF Go, Set, Attaching, WatchInv, PlacesOK
<1>10. ASSUME NEW t \in Callers, GiveUp(t) \/ Unregister(t) PROVE SameHeard
  <2>1. /\ pc[t] \in {"resolved", "streaming"} /\ UNCHANGED <<num, topic, owed, told>>
        /\ Go(t, "idle") /\ at' = [at EXCEPT ![t] = None]
    BY <1>10 DEF GiveUp, Unregister, Leave, Set
  <2> QED
    BY <1>2, <2>1 DEF Go, Set, Attaching, WatchInv, PlacesOK
<1>11. CASE UNCHANGED vars
  <2>1. UNCHANGED <<pc, at, num, topic, owed, told>>
    BY <1>11 DEF vars, callers, locals
  <2> QED
    BY <1>1, <2>1 DEF Attaching
<1> QED
  BY <1>3, <1>4, <1>5, <1>6, <1>7, <1>8, <1>9, <1>10, <1>11 DEF Calm

LEMMA HeardStep == WatchInv /\ FlowInv /\ HeardInv /\ [Next]_vars => HeardInv'
<1> SUFFICES ASSUME WatchInv, FlowInv, HeardInv, [Next]_vars PROVE HeardInv'
  OBVIOUS
<1>1. WatchInv'
  BY WatchStep
<1>2. \A b \in Battles : rec[b].ver \in Nat
  BY DEF WatchInv, DirectoryOK, Known
<1>3. ASSUME UNCHANGED <<pc, at, num, topic, owed, told>> PROVE SameHeard
  BY <1>3 DEF SameHeard, Attaching, Heard, HeardInv
<1>4. CASE Calm
  <2>1. FlowStays /\ batch' = batch
    BY <1>4, CalmStays
  <2>2. UNCHANGED <<rec, chan, batch, seq>> /\ TopicsShrink
    BY <2>1 DEF FlowStays
  <2>3. \A b \in Battles : \A s \in Subs(b)' : s \in Subs(b) /\ topics'[b].no = topics[b].no
    BY <2>2 DEF TopicsShrink, Subs
  <2> QED
    BY <1>1, <1>2, <1>4, <2>2, <2>3, CalmHeard, HeardKept
<1>5. ASSUME NEW b \in Battles, (\E o \in Owners : Move(b, o)) \/ Renew(b) PROVE HeardInv'
  <2>1. UNCHANGED <<seq, topics, batch>> /\ SameHeard
    BY <1>3, <1>5 DEF Move, Renew, hub, callers, locals
  <2>2. rec' = rec \/ \E o \in Owners : rec' = [rec EXCEPT ![b] = [owner |-> o, ver |-> rec[b].ver + 1]]
    BY <1>5 DEF Move, Renew, Set
  <2>3. \A c \in Battles : rec[c].ver <= rec'[c].ver
    BY <1>2, <2>2 DEF WatchInv, DirectoryOK
  <2>4. \A j \in DOMAIN chan' :
           \/ j \in DOMAIN chan /\ chan'[j] = chan[j]
           \/ chan'[j].battle = b /\ chan'[j].ver = rec'[b].ver
    <3>1. CASE \E o \in Owners : Move(b, o)
      <4>1. chan' = chan \/ chan' = Append(chan, Event(b)')
        BY <3>1 DEF Move
      <4>2. Event(b)'.battle = b /\ Event(b)'.ver = rec'[b].ver
        BY DEF Event
      <4>3. chan \in Seq(News) /\ Len(chan) \in Nat /\ DOMAIN chan = 1..Len(chan)
        BY EventTypes DEF WatchInv, DirectoryOK
      <4> DEFINE e == Event(b)'
      <4> HIDE DEF e
      <4>4. CASE chan' = Append(chan, e)
        <5>1. DOMAIN chan' = 1..(Len(chan) + 1) /\ chan'[Len(chan) + 1] = e
              /\ \A j \in 1..Len(chan) : chan'[j] = chan[j]
          BY <4>3, <4>4
        <5> QED
          BY <4>2, <4>3, <5>1 DEF e
      <4> QED
        BY <4>1, <4>4 DEF e
    <3>2. CASE Renew(b)
      <4>1. chan' = <<Event(b)>> /\ rec' = rec
        BY <3>2 DEF Renew
      <4>2. Event(b).battle = b /\ Event(b).ver = rec[b].ver
        BY DEF Event
      <4>3. \A j \in DOMAIN chan' : chan'[j] = Event(b)
        BY <4>1
      <4> QED
        BY <4>1, <4>2, <4>3
    <3> QED
      BY <1>5, <3>1, <3>2
  <2>5. \A j \in DOMAIN chan' :
            \/ \E i \in DOMAIN chan : chan[i].battle = chan'[j].battle /\ chan[i].ver = chan'[j].ver
            \/ rec[chan'[j].battle].ver <= chan'[j].ver
    BY <2>3, <2>4
  <2>6. \A c \in Battles : \A s \in Subs(c)' : s \in Subs(c) /\ topics'[c].no = topics[c].no
    BY <2>1 DEF Subs
  <2> QED
    BY <1>1, <2>1, <2>3, <2>5, <2>6, HeardKept
<1>6. ASSUME NEW n \in 1..Len(chan), Dispatch(n) PROVE HeardInv'
  <2>1. /\ UNCHANGED <<rec, seq>> /\ SameHeard
    BY <1>3, <1>6 DEF Dispatch, callers, locals
  <2>2. Dispatched(n) /\ Len(chan) \in Nat /\ DOMAIN chan = 1..Len(chan)
    BY <1>6, DispatchTakes, EventTypes DEF WatchInv
  <2>3. \A i \in DOMAIN batch' : \E j \in DOMAIN chan :
           /\ batch'[i].event = chan[j] /\ batch'[i].subs = Subs(chan[j].battle)
           /\ topics[chan[j].battle] # None => batch'[i].no = topics[chan[j].battle].no
    BY <2>2 DEF Dispatched
  <2>4. ASSUME NEW j \in DOMAIN chan' PROVE \E i \in DOMAIN chan : chan'[j] = chan[i]
    <3>1. j \in 1..(Len(chan) - n) /\ chan'[j] = chan[n + j]
      BY <2>2 DEF Dispatched
    <3>2. n + j \in DOMAIN chan
      BY <2>2, <3>1
    <3> QED
      BY <3>1, <3>2
  <2>5. \A b \in Battles : \A s \in Subs(b)' : s \in Subs(b) /\ topics'[b].no = topics[b].no
    BY <2>2 DEF Subs, Dispatched
  <2>6. \A j \in DOMAIN chan' :
           \E i \in DOMAIN chan : chan[i].battle = chan'[j].battle /\ chan[i].ver = chan'[j].ver
    BY <2>4
  <2> QED
    BY <1>1, <1>2, <2>1, <2>3, <2>5, <2>6, HeardKept
<1>7. CASE StreamEnded \/ CloseIdle
  <2>1. UNCHANGED <<rec, seq>> /\ SameHeard
    BY <1>3, <1>7 DEF StreamEnded, CloseIdle, callers, locals
  <2>2. DOMAIN chan' = {} /\ DOMAIN batch' = {}
    BY <1>7 DEF StreamEnded, CloseIdle
  <2>3. \A b \in Battles : \A s \in Subs(b)' : s \in Subs(b) /\ topics'[b].no = topics[b].no
    <3>1. \A b \in Battles : topics'[b] # None => topics[b] # None /\ topics'[b].no = topics[b].no
      <4>1. ASSUME NEW b \in Battles, topics[b] # None
            PROVE  [topics[b] EXCEPT !.owner = None].no = topics[b].no
        BY <4>1 DEF WatchInv, HubGood, HubOK, Topic
      <4> QED
        BY <1>7, <4>1 DEF StreamEnded, CloseIdle
    <3> QED
      BY <1>7, <3>1, WatchEnds DEF Subs
  <2> QED
    BY <1>1, <1>2, <2>1, <2>2, <2>3, HeardKept
<1>8. ASSUME NEW t \in Callers, Attach(t) PROVE HeardInv'
  <2>1. /\ pc[t] = "attach" /\ UNCHANGED <<rec, seq, batch, at, num, owed, told>>
        /\ pc' = [pc EXCEPT ![t] = "waiting"]
        /\ topic' = [topic EXCEPT ![t] = topics'[at[t]].no]
        /\ topics' = IF topics[at[t]] = None THEN [topics EXCEPT ![at[t]] = NewTopic] ELSE topics
    BY <1>8 DEF Attach, Go, Set
  <2>2. \A u \in Callers : u # t => pc'[u] = pc[u] /\ topic'[u] = topic[u]
    BY <2>1 DEF WatchInv, PlacesOK, LocalsOK
  <2>3. ~Attaching(t) /\ ~Attaching(t)'
    BY <2>1 DEF Attaching, WatchInv, PlacesOK
  <2>4. \A u \in Callers : u # t => (Attaching(u)' <=> Attaching(u)) /\ Heard(u)' = Heard(u)
    BY <2>1, <2>2 DEF Attaching, Heard
  <2>5. SameHeard
    BY <2>1, <2>2, <2>3, <2>4 DEF SameHeard, HeardInv
  <2>6. \A b \in Battles : \A s \in Subs(b)' : s \in Subs(b) /\ topics'[b].no = topics[b].no
    BY <1>8, <2>1, AttachStep DEF Subs, WatchInv, HubGood, HubOK
  <2>7. \A j \in DOMAIN chan' :
            \/ \E i \in DOMAIN chan : chan[i].battle = chan'[j].battle /\ chan[i].ver = chan'[j].ver
            \/ rec[chan'[j].battle].ver <= chan'[j].ver
    <3>1. CASE Up
      BY <1>8, <3>1, FlowStarts
    <3>2. CASE ~Up
      BY <1>2, <1>8, <3>2, StartTells DEF Attach, EnsureStream
    <3> QED
      BY <3>1, <3>2
  <2> QED
    BY <1>1, <1>2, <2>1, <2>5, <2>6, <2>7, HeardKept
<1> QED
  BY <1>4, <1>5, <1>6, <1>7, <1>8, NextCases, HeardInserts, HeardDelivers

\* A new subscriber is told the owner that was known when it came, and then newer ones:
\* the lock of its topic keeps the deliveries of a dispatch back until it has been told
\* (attach, deliver), also when subscriptions overlap.
THEOREM NothingOlder == Spec => NeverBack
<1>1. ASSUME WatchInv, FlowInv, HeardInv, [Next]_vars
      PROVE  [\A t \in Callers : Attaching(t) /\ Attaching(t)' => told'[t] >= told[t]]_vars
  <2> SUFFICES ASSUME NEW t \in Callers, Attaching(t), Attaching(t)' PROVE told[t] <= told'[t]
    BY <1>1 DEF WatchInv, LocalsOK
  <2>1. told[t] \in Nat
    BY <1>1 DEF WatchInv, LocalsOK
  <2>2. ASSUME SameHeard PROVE told[t] <= told'[t]
    <3>1. Heard(t)' = Heard(t) /\ (pc'[t] = "calling" => pc[t] = "calling")
      BY <1>1, <2>2 DEF SameHeard
    <3>2. pc[t] = "calling" => told[t] = 0
      BY <1>1 DEF HeardInv
    <3>3. told'[t] \in Nat
      BY <1>1, WatchStep DEF WatchInv, LocalsOK
    <3> QED
      BY <1>1, <2>1, <3>1, <3>2, <3>3 DEF Heard
  <2>3. CASE Deliver
    BY <1>1, <2>3, HeardDelivers
  <2>4. CASE Calm
    BY <1>1, <2>2, <2>4, CalmHeard
  <2>5. ASSUME NEW u \in Callers, Attach(u) \/ Insert(u) PROVE told[t] <= told'[t]
    BY <1>1, <2>1, <2>5 DEF Attach, Insert
  <2>6. ASSUME told' = told PROVE told[t] <= told'[t]
    BY <2>1, <2>6
  <2>7. ASSUME NEW b \in Battles, (\E o \in Owners : Move(b, o)) \/ Renew(b) PROVE told' = told
    BY <2>7 DEF Move, Renew
  <2>8. ASSUME NEW n \in 1..Len(chan), Dispatch(n) PROVE told' = told
    BY <2>8 DEF Dispatch
  <2>9. CASE StreamEnded \/ CloseIdle
    BY <2>6, <2>9 DEF StreamEnded, CloseIdle
  <2> QED
    BY <1>1, <2>3, <2>4, <2>5, <2>6, <2>7, <2>8, <2>9, NextCases
<1> QED
  BY <1>1, InitWatch, InitFlow, InitHeard, WatchStep, FlowStep, HeardStep, PTL
     DEF Spec, NeverBack
-------------------------------------------------------------------------------
(* The entries of the resolver agree with the directory *)

\* An owner that is not, or not any more, the one of the record.
Behind(b, o) == Up /\ rec[b].owner # None /\ rec[b].owner # o

\* An event of the battle that the resolver will hear of.
InChan(b) == \E j \in DOMAIN chan : chan[j].battle = b
InBatch(b) ==
    \E j \in DOMAIN batch : batch[j].event.battle = b /\ \E s \in batch[j].subs : s.kind = "resolver"
Awaited(b) == InChan(b) \/ InBatch(b)

\* A resolver's subscription belongs to an entry, which has its number or is getting it.
Subscribes(t, b) == Attaching(t) /\ at[t] = b /\ kind[t] = "resolver"
Claimed(b, n) ==
    entry[b] # None /\ (entry[b].sub # 0 \/ \E t \in Callers : Subscribes(t, b) /\ num[t] = n)
Claims(b) ==
    /\ \A s \in Subs(b) : s.kind = "resolver" => Claimed(b, s.num)
    /\ \A i \in DOMAIN batch : \A s \in batch[i].subs :
          batch[i].event.battle = b /\ s.kind = "resolver" => Claimed(b, s.num)

\* Without a number yet, an owner was told to the caller that is about to bring it.
Served(b) ==
    entry[b] # None /\ entry[b].owner # None /\ entry[b].sub = 0 =>
        \E t \in Callers : Subscribes(t, b) /\ pc[t] = "returning"

\* What an entry has, and what a query has found and will store, is the owner, or an event
\* is on its way.
Fresh(b) ==
    entry[b] # None /\ entry[b].owner # None /\ Behind(b, entry[b].owner) => Awaited(b)
Stores(t) ==
    pc[t] = "store" /\ t \notin entry[at[t]].older /\ Behind(at[t], found[t]) => Awaited(at[t])

\* So is what a new subscription is owed, and the event will be its own.
Calls(t) ==
    pc[t] = "calling" /\ Behind(at[t], owed[t].owner) =>
        \/ InChan(at[t])
        \/ \E j \in DOMAIN batch :
              batch[j].event.battle = at[t] /\ [num |-> num[t], kind |-> kind[t]] \in batch[j].subs

\* A resolution has its entry, and its result a watch.
EntryThere(t) ==
    kind[t] = "resolver" /\ pc[t] \in {"attach", "waiting", "calling", "returning", "query", "store"} =>
        entry[at[t]] # None /\ (pc[t] = "store" => entry[at[t]].sub # 0)

SettledInv ==
    /\ \A b \in Battles : b \notin unsure => Claims(b) /\ Served(b) /\ Fresh(b)
    /\ \A t \in Callers : at[t] \in Battles /\ at[t] \notin unsure => EntryThere(t) /\ Stores(t)
    /\ \A t \in Callers : Calls(t)

LEMMA InitSettled == Init => SettledInv
  BY DEF Init, SettledInv, Claims, Served, Fresh, EntryThere, Stores, Calls, Subs

\* Records that change, or start to be watched, are told.
NewsArrive ==
    /\ batch' = batch
    /\ \A b \in Battles : Up' /\ rec'[b].owner # None =>
          InChan(b)' \/ (Up /\ ~InChan(b) /\ rec'[b].owner = rec[b].owner)

\* A subscription of the resolver comes with a claim; entries keep theirs; an owner that
\* an entry gets is one it may have.
EntryKept(b) ==
    /\ \A s \in Subs(b)' : s.kind = "resolver" => s \in Subs(b) \/ Claimed(b, s.num)'
    /\ entry[b] # None =>
          /\ entry'[b] # None /\ (entry[b].sub # 0 => entry'[b].sub # 0)
          /\ \A u \in entry[b].older :
                pc'[u] = "store" /\ at'[u] = b => u \in entry'[b].older
    /\ \/ Served(b)' /\ Fresh(b)'
       \/ entry[b] # None /\ entry'[b].owner = entry[b].owner /\ entry'[b].sub = entry[b].sub
    /\ \/ entry'[b] # None /\ entry'[b].sub # 0
       \/ \A u \in Callers : Subscribes(u, b) =>
             Subscribes(u, b)' /\ num'[u] = num[u] /\ (pc[u] = "returning" => pc'[u] = "returning")

\* A caller stays where it is, or goes where it may.
CallerKept(u) ==
    \/ /\ pc'[u] = pc[u] /\ at'[u] = at[u] /\ kind'[u] = kind[u] /\ num'[u] = num[u]
       /\ found'[u] = found[u] /\ owed'[u] = owed[u]
    \/ /\ Calls(u)'
       /\ at'[u] \in Battles /\ at'[u] \notin unsure' => EntryThere(u)' /\ Stores(u)'

LEMMA SettledKept ==
  ASSUME WatchInv, SettledInv, NewsArrive, unsure \subseteq unsure',
         \A b \in Battles : b \notin unsure' => EntryKept(b),
         \A u \in Callers : CallerKept(u)
  PROVE  SettledInv'
<1>1. ASSUME NEW b \in Battles, NEW o, Behind(b, o)'
      PROVE  InChan(b)' \/ (Behind(b, o) /\ ~InChan(b))
  BY <1>1 DEF NewsArrive, Behind
<1>2. ASSUME NEW b \in Battles, InBatch(b) PROVE InBatch(b)'
  BY <1>2 DEF NewsArrive, InBatch
<1>3. ASSUME NEW b \in Battles, b \notin unsure' PROVE Claims(b)' /\ Served(b)' /\ Fresh(b)'
  <2>1. Claims(b) /\ Served(b) /\ Fresh(b) /\ EntryKept(b)
    BY <1>3 DEF SettledInv
  <2>2. ASSUME NEW n, Claimed(b, n) PROVE Claimed(b, n)'
    <3>1. entry[b] # None /\ entry'[b] # None
      BY <2>1, <2>2 DEF Claimed, EntryKept
    <3>2. CASE entry'[b].sub # 0
      BY <3>1, <3>2 DEF Claimed
    <3>3. CASE entry'[b].sub = 0
      <4>1. PICK t \in Callers : Subscribes(t, b) /\ num[t] = n
        BY <2>1, <2>2, <3>1, <3>3 DEF Claimed, EntryKept
      <4>2. Subscribes(t, b)' /\ num'[t] = n
        BY <2>1, <3>3, <4>1 DEF EntryKept
      <4> QED
        BY <3>1, <4>2 DEF Claimed
    <3> QED
      BY <3>2, <3>3
  <2>3. Claims(b)'
    <3>1. \A s \in Subs(b)' : s.kind = "resolver" => Claimed(b, s.num)'
      BY <2>1, <2>2 DEF Claims, EntryKept
    <3>2. batch' = batch
      BY DEF NewsArrive
    <3>3. \A i \in DOMAIN batch' : \A s \in batch'[i].subs :
             batch'[i].event.battle = b /\ s.kind = "resolver" => Claimed(b, s.num)'
      BY <2>1, <2>2, <3>2 DEF Claims
    <3> QED
      BY <3>1, <3>3 DEF Claims
  <2>4. ASSUME entry[b] # None, entry'[b].owner = entry[b].owner, entry'[b].sub = entry[b].sub
        PROVE  Served(b)' /\ Fresh(b)'
    <3>1. Served(b)'
      BY <2>1, <2>4 DEF Served, EntryKept
    <3>2. Fresh(b)'
      <4> SUFFICES ASSUME entry'[b].owner # None, Behind(b, entry[b].owner)' PROVE Awaited(b)'
        BY DEF Fresh
      <4>1. entry'[b].owner = entry[b].owner
        BY <2>4
      <4>2. PICK o : o = entry[b].owner
        OBVIOUS
      <4>3. Behind(b, o)'
        BY <2>4, <4>2 DEF Behind
      <4>4. Behind(b, o) => Awaited(b)
        BY <2>1, <2>4, <4>2 DEF Fresh
      <4> QED
        BY <1>1, <1>2, <4>3, <4>4 DEF Awaited
    <3> QED
      BY <3>1, <3>2
  <2> QED
    BY <2>1, <2>3, <2>4 DEF EntryKept
<1>4. ASSUME NEW u \in Callers, pc'[u] = pc[u], at'[u] = at[u], kind'[u] = kind[u],
             num'[u] = num[u], found'[u] = found[u], owed'[u] = owed[u]
      PROVE  /\ Calls(u)'
             /\ at'[u] \in Battles /\ at'[u] \notin unsure' => EntryThere(u)' /\ Stores(u)'
  <2>0. PICK b : b = at[u]
    OBVIOUS
  <2>1. Calls(u)'
    <3> SUFFICES ASSUME pc'[u] = "calling", Behind(at[u], owed[u].owner)'
                 PROVE  \/ InChan(at[u])'
                        \/ \E j \in DOMAIN batch' :
                              /\ batch'[j].event.battle = at'[u]
                              /\ [num |-> num'[u], kind |-> kind'[u]] \in batch'[j].subs
      BY DEF Calls
    <3>1. pc[u] = "calling" /\ b \in Battles
      BY <1>4, <2>0 DEF WatchInv, PlacesOK
    <3>2. PICK o : o = owed[u].owner
      OBVIOUS
    <3>3. Behind(b, o)'
      BY <1>4, <2>0, <3>2 DEF Behind
    <3>4. InChan(at[u])' <=> InChan(b)'
      BY <1>4, <2>0 DEF InChan
    <3>5. CASE Behind(b, o) /\ ~InChan(b)
      <4>1. Calls(u) /\ batch' = batch
        BY DEF SettledInv, NewsArrive
      <4> QED
        BY <1>4, <2>0, <3>1, <3>2, <3>5, <4>1 DEF Calls
    <3> QED
      BY <1>1, <3>1, <3>3, <3>4, <3>5
  <2>2. ASSUME at'[u] \in Battles, at'[u] \notin unsure' PROVE EntryThere(u)' /\ Stores(u)'
    <3>1. b \in Battles /\ b \notin unsure' /\ b \notin unsure /\ at'[u] = b
      BY <1>4, <2>0, <2>2
    <3>2. EntryThere(u) /\ Stores(u) /\ EntryKept(b)
      BY <2>0, <3>1 DEF SettledInv
    <3>3. EntryThere(u)'
      BY <1>4, <2>0, <3>1, <3>2 DEF EntryThere, EntryKept
    <3>4. Stores(u)'
      <4> SUFFICES ASSUME pc'[u] = "store", u \notin entry'[b].older, Behind(at[u], found[u])'
                   PROVE  Awaited(at[u])'
        BY <3>1 DEF Stores
      <4>1. PICK o : o = found[u]
        OBVIOUS
      <4>2. Behind(b, o)'
        BY <1>4, <3>1, <4>1 DEF Behind
      <4>3. entry[b] # None
        BY <1>4, <2>0, <3>2 DEF EntryThere, WatchInv, GuardPlaces
      <4>4. u \notin entry[b].older
        BY <3>1, <3>2, <4>3 DEF EntryKept
      <4>5. Behind(b, o) => Awaited(b)
        BY <1>4, <2>0, <3>2, <4>1, <4>4 DEF Stores
      <4>6. Awaited(b)'
        BY <1>1, <1>2, <3>1, <4>2, <4>5 DEF Awaited
      <4> QED
        BY <3>1, <4>6 DEF Awaited, InChan, InBatch
    <3> QED
      BY <3>3, <3>4
  <2> QED
    BY <2>1, <2>2
<1>5. \A u \in Callers :
         /\ Calls(u)'
         /\ at'[u] \in Battles /\ at'[u] \notin unsure' => EntryThere(u)' /\ Stores(u)'
  BY <1>4 DEF CallerKept
<1> QED
  BY <1>3, <1>5 DEF SettledInv

\* A caller does not move.
Still(u) ==
    /\ pc'[u] = pc[u] /\ at'[u] = at[u] /\ kind'[u] = kind[u] /\ num'[u] = num[u]
    /\ found'[u] = found[u] /\ owed'[u] = owed[u]

\* An entry keeps what it has, or is new and has nothing.
EntrySame(b) ==
    /\ entry[b] # None =>
          /\ entry'[b] # None /\ entry'[b].owner = entry[b].owner /\ entry'[b].sub = entry[b].sub
          /\ \A u \in entry[b].older : pc'[u] = "store" => u \in entry'[b].older
    /\ entry[b] = None => entry'[b] = None \/ (entry'[b].owner = None /\ entry'[b].sub = 0)

\* The steps of a caller that does not subscribe for the resolver.
LEMMA SettledCalm ==
  ASSUME WatchInv, SettledInv, FlowStays, batch' = batch, unsure \subseteq unsure',
         \A b \in Battles : b \notin unsure' => EntrySame(b),
         \A u \in Callers :
            \/ Still(u)
            \/ ~(Attaching(u) /\ kind[u] = "resolver") /\ CallerKept(u)
  PROVE  SettledInv'
<1>1. NewsArrive
  BY DEF FlowStays, NewsArrive, InChan
<1>2. ASSUME NEW b \in Battles, b \notin unsure' PROVE EntryKept(b)
  <2>1. EntrySame(b)
    BY <1>2
  <2>2. \A s \in Subs(b)' : s \in Subs(b)
    BY DEF FlowStays, TopicsShrink, Subs
  <2>3. \A u \in Callers : Subscribes(u, b) =>
           Subscribes(u, b)' /\ num'[u] = num[u] /\ (pc[u] = "returning" => pc'[u] = "returning")
    BY DEF Still, Subscribes, Attaching
  <2>4. \/ Served(b)' /\ Fresh(b)'
        \/ entry[b] # None /\ entry'[b].owner = entry[b].owner /\ entry'[b].sub = entry[b].sub
    BY <2>1 DEF EntrySame, Served, Fresh
  <2>5. entry[b] # None =>
          /\ entry'[b] # None /\ (entry[b].sub # 0 => entry'[b].sub # 0)
          /\ \A u \in entry[b].older : pc'[u] = "store" => u \in entry'[b].older
    BY <2>1 DEF EntrySame
  <2> QED
    BY <2>2, <2>3, <2>4, <2>5 DEF EntryKept
<1>3. \A u \in Callers : CallerKept(u)
  BY DEF Still, CallerKept
<1> QED
  BY <1>1, <1>2, <1>3, SettledKept

\* Nothing is asked of a caller that has no place in the hub, or works for the guard.
LEMMA CallerFree ==
  ASSUME NEW t \in Callers, pc'[t] \notin {"calling", "store"},
         \/ pc'[t] \in {"idle", "missed", "resolved", "streaming"} \/ kind'[t] = "guard"
         \/ entry'[at'[t]] # None \/ at'[t] \in unsure'
  PROVE  CallerKept(t)
  BY DEF CallerKept, Calls, EntryThere, Stores

LEMMA SettledTimes ==
  ASSUME WatchInv, SettledInv, NEW b \in Battles,
         BackoffEnds(b) \/ Age(b) \/ Sweep(b) \/ \E t \in Callers : Lookup(t, b)
  PROVE  SettledInv'
<1>0. FlowStays /\ batch' = batch
  BY CalmStays DEF Calm
<1>1. entry \in [Battles -> Entry \cup {None}]
  BY DEF WatchInv, TablesOK
<1>2. ASSUME UNCHANGED callers PROVE \A u \in Callers : Still(u)
  BY <1>2 DEF callers, locals, Still
<1>3. ASSUME BackoffEnds(b) \/ Age(b) PROVE SettledInv'
  <2> DEFINE x == [entry[b] EXCEPT !.phase = "none"]
             y == [entry[b] EXCEPT !.fresh = "no"]
  <2>1. /\ UNCHANGED callers /\ unsure' = unsure
        /\ entry[b] # None /\ (entry' = [entry EXCEPT ![b] = x] \/ entry' = [entry EXCEPT ![b] = y])
    BY <1>3 DEF BackoffEnds, Age, Set
  <2>2. entry[b] \in Entry
    BY <1>1, <2>1
  <2>3. \A e \in {x, y} : /\ e # None /\ e.owner = entry[b].owner /\ e.sub = entry[b].sub
                          /\ e.older = entry[b].older
    BY <2>2 DEF Entry
  <2> HIDE DEF x, y
  <2>4. \A c \in Battles : EntrySame(c)
    BY <1>1, <2>1, <2>3 DEF EntrySame
  <2> QED
    BY <1>0, <1>2, <2>1, <2>4, SettledCalm
<1>4. CASE Sweep(b)
  <2>1. UNCHANGED callers /\ unsure' = unsure \cup {b} /\ entry' = [entry EXCEPT ![b] = None]
    BY <1>4 DEF Sweep, Set
  <2>2. \A c \in Battles : c # b => EntrySame(c)
    BY <1>1, <2>1 DEF EntrySame
  <2> QED
    BY <1>0, <1>2, <2>1, <2>2, SettledCalm
<1>5. ASSUME NEW t \in Callers, Lookup(t, b) PROVE SettledInv'
  <2>1. /\ pc[t] = "idle" /\ at' = [at EXCEPT ![t] = b]
        /\ Go(t, "resolved") \/ Go(t, "missed")
        /\ found' = found \/ found' = [found EXCEPT ![t] = entry[b].owner]
        /\ UNCHANGED <<unsure, kind, num, owed>>
        /\ entry' = [c \in Battles |->
                        IF entry[c] = None THEN None ELSE [entry[c] EXCEPT !.older = @ \ {t}]]
    BY <1>5 DEF Lookup, Set
  <2>2. pc'[t] \in {"resolved", "missed"} /\ \A u \in Callers : u # t => Still(u)
    BY <2>1 DEF Go, Set, Still, WatchInv, PlacesOK, LocalsOK
  <2>3. ~(Attaching(t) /\ kind[t] = "resolver") /\ CallerKept(t)
    BY <2>1, <2>2, CallerFree DEF Attaching
  <2>4. ASSUME NEW c \in Battles PROVE EntrySame(c)
    <3>1. CASE entry[c] = None
      BY <2>1, <3>1 DEF EntrySame
    <3>2. CASE entry[c] # None
      <4> DEFINE e == [entry[c] EXCEPT !.older = @ \ {t}]
      <4>1. entry[c] \in Entry
        BY <1>1, <3>2
      <4>2. e # None /\ e.owner = entry[c].owner /\ e.sub = entry[c].sub /\ e.older = entry[c].older \ {t}
        BY <4>1 DEF Entry
      <4>3. entry'[c] = e
        BY <2>1, <3>2
      <4> HIDE DEF e
      <4> QED
        BY <2>2, <3>2, <4>2, <4>3 DEF EntrySame
    <3> QED
      BY <3>1, <3>2
  <2> QED
    BY <1>0, <2>1, <2>2, <2>3, <2>4, SettledCalm
<1> QED
  BY <1>3, <1>4, <1>5

LEMMA SettledResolves ==
  ASSUME WatchInv, SettledInv, NEW t \in Callers, Resolving(t)
  PROVE  SettledInv'
<1>0. FlowStays /\ batch' = batch
  BY CalmStays DEF Calm
<1>1. entry \in [Battles -> Entry \cup {None}] /\ pc[t] \in {"missed", "query", "store"}
      /\ ~Attaching(t) /\ at[t] \in Battles /\ kind[t] = "resolver"
  <2>1. pc[t] \in {"missed", "query", "store"}
    BY DEF Resolving, BeginOwnerWatch, Query, StoreOwner
  <2> QED
    BY <2>1 DEF WatchInv, TablesOK, PlacesOK, GuardPlaces, Attaching
<1>2. \A u \in Callers : u # t => Still(u)
  BY DEF Resolving, BeginOwnerWatch, Query, StoreOwner, Go, Set, locals, Still, WatchInv, PlacesOK, LocalsOK
<1>3. CASE BeginOwnerWatch(t)
  <2>0. PICK b : b = at[t]
    OBVIOUS
  <2> DEFINE e == IF entry[b] = None THEN NewEntry ELSE entry[b]
  <2>1. /\ at' = at /\ unsure' = unsure
        /\ \/ Go(t, "attach") /\ entry' = [entry EXCEPT ![b] = [e EXCEPT !.phase = "starting"]]
           \/ Go(t, "query") /\ entry' = [entry EXCEPT ![b] = e]
    BY <1>3, <2>0 DEF BeginOwnerWatch, Set
  <2>2. e \in Entry /\ (entry[b] # None => e = entry[b])
        /\ (entry[b] = None => e.owner = None /\ e.sub = 0)
    BY <1>1, <2>0 DEF NewEntry, Entry, Owners
  <2> HIDE DEF e
  <2> DEFINE x == [e EXCEPT !.phase = "starting"]
  <2>3. x.owner = e.owner /\ x.sub = e.sub /\ x.older = e.older /\ x \in Entry
    BY <2>2 DEF Entry
  <2> HIDE DEF x
  <2>4. entry' = [entry EXCEPT ![b] = x] \/ entry' = [entry EXCEPT ![b] = e]
    BY <2>1 DEF x
  <2>5. \A y \in Entry : y # None
    BY NoneAssumption
  <2>6. /\ entry'[b] # None
        /\ \A c \in Battles : c # b => entry'[c] = entry[c]
        /\ entry'[b] = x \/ entry'[b] = e
    BY <1>1, <2>0, <2>2, <2>3, <2>4, <2>5
  <2>7. \A c \in Battles : EntrySame(c)
    BY <2>2, <2>3, <2>6 DEF EntrySame
  <2>8. pc'[t] \in {"attach", "query"} /\ at'[t] = b
    BY <2>0, <2>1 DEF Go, Set, WatchInv, PlacesOK
  <2>9. CallerKept(t)
    BY <2>6, <2>8, CallerFree
  <2> QED
    BY <1>0, <1>1, <1>2, <2>1, <2>7, <2>9, SettledCalm
<1>4. CASE Query(t)
  <2>1. /\ entry' = entry /\ unsure \subseteq unsure'
        /\ entry[at[t]] = None \/ entry[at[t]].sub = 0 => at[t] \in unsure'
        /\ \/ Go(t, "idle")
           \/ Go(t, "store") /\ found' = [found EXCEPT ![t] = rec[at[t]].owner] /\ at' = at
    BY <1>4 DEF Query, Set
  <2>2. pc'[t] = "idle" \/ (pc'[t] = "store" /\ found'[t] = rec[at[t]].owner /\ at'[t] = at[t])
    BY <2>1 DEF Go, Set, WatchInv, PlacesOK, LocalsOK
  <2>3. CallerKept(t)
    <3>1. CASE pc'[t] = "idle"
      BY <3>1, CallerFree
    <3>2. CASE pc'[t] = "store" /\ found'[t] = rec[at[t]].owner /\ at'[t] = at[t]
      <4>1. Calls(t)'
        BY <3>2 DEF Calls
      <4>2. Stores(t)'
        BY <1>0, <3>2 DEF Stores, Behind, FlowStays
      <4>3. at[t] \notin unsure' => EntryThere(t)'
        BY <2>1, <3>2 DEF EntryThere
      <4> QED
        BY <3>2, <4>1, <4>2, <4>3 DEF CallerKept
    <3> QED
      BY <2>2, <3>1, <3>2
  <2>4. \A c \in Battles : EntrySame(c)
    BY <2>1 DEF EntrySame
  <2> QED
    BY <1>0, <1>1, <1>2, <2>1, <2>3, <2>4, SettledCalm
<1>5. CASE StoreOwner(t)
  <2>0. PICK b : b = at[t]
    OBVIOUS
  <2> DEFINE e == [entry[b] EXCEPT !.owner = found[t], !.fresh = "yes"]
  <2>1. /\ Go(t, "resolved") /\ at' = at /\ unsure' = unsure /\ found' = found
        /\ entry' = IF Superseded(entry[b], t) THEN entry ELSE [entry EXCEPT ![b] = e]
    BY <1>5, <2>0 DEF StoreOwner, Set, locals
  <2>2. pc'[t] = "resolved"
    BY <2>1 DEF Go, Set, WatchInv, PlacesOK
  <2>3. CallerKept(t)
    BY <2>2, CallerFree
  <2>4. CASE Superseded(entry[b], t)
    <3>1. \A c \in Battles : EntrySame(c)
      BY <2>1, <2>4 DEF EntrySame
    <3> QED
      BY <1>0, <1>1, <1>2, <2>1, <2>3, <3>1, SettledCalm
  <2>5. CASE ~Superseded(entry[b], t)
    <3>1. entry[b] # None /\ entry[b] \in Entry /\ entry[b].sub # 0 /\ t \notin entry[b].older
      BY <1>1, <2>0, <2>5 DEF Superseded
    <3>2. e # None /\ e.owner = found[t] /\ e.sub = entry[b].sub /\ e.older = entry[b].older
      <4>1. e.owner = found[t] /\ e.sub = entry[b].sub /\ e.older = entry[b].older /\ e \in Entry
        BY <3>1 DEF Entry, WatchInv, LocalsOK
      <4> QED
        BY <4>1, NoneAssumption
    <3> HIDE DEF e
    <3>3. entry'[b] = e /\ \A c \in Battles : c # b => entry'[c] = entry[c]
      BY <1>1, <2>0, <2>1, <2>5
    <3>4. NewsArrive
      BY <1>0 DEF FlowStays, NewsArrive, InChan
    <3>5. \A c \in Battles : \A s \in Subs(c)' : s \in Subs(c)
      BY <1>0 DEF FlowStays, TopicsShrink, Subs
    <3>6. \A c \in Battles : \A u \in Callers : Subscribes(u, c) =>
             Subscribes(u, c)' /\ num'[u] = num[u] /\ (pc[u] = "returning" => pc'[u] = "returning")
      BY <1>1, <1>2 DEF Still, Subscribes, Attaching
    <3>7. ASSUME b \notin unsure' PROVE EntryKept(b)
      <4>1. Served(b)'
        BY <3>1, <3>2, <3>3 DEF Served
      <4>2. Behind(b, found[t]) => Awaited(b)
        <5>1. Stores(t) /\ pc[t] = "store"
          BY <1>1, <1>5, <2>0, <2>1, <3>7 DEF SettledInv, StoreOwner
        <5> QED
          BY <2>0, <3>1, <5>1 DEF Stores
      <4>3. Fresh(b)'
        <5>1. Behind(b, entry[b].owner)' => Behind(b, found[t])
          BY <1>0, <3>2, <3>3 DEF Behind, FlowStays
        <5>2. Awaited(b)' <=> Awaited(b)
          BY <1>0 DEF Awaited, InChan, InBatch, FlowStays
        <5> QED
          BY <4>2, <5>1, <5>2 DEF Fresh
      <4> QED
        BY <1>1, <2>0, <3>1, <3>2, <3>3, <3>5, <4>1, <4>3 DEF EntryKept
    <3>8. ASSUME NEW c \in Battles, c # b PROVE EntryKept(c)
      <4>1. entry'[c] = entry[c]
        BY <3>3, <3>8
      <4>2. \/ Served(c)' /\ Fresh(c)'
            \/ entry[c] # None /\ entry'[c].owner = entry[c].owner /\ entry'[c].sub = entry[c].sub
        BY <4>1 DEF Served, Fresh
      <4> QED
        BY <3>5, <3>6, <4>1, <4>2 DEF EntryKept
    <3>9. \A u \in Callers : CallerKept(u)
      BY <1>2, <2>3 DEF Still, CallerKept
    <3> QED
      BY <2>1, <3>4, <3>7, <3>8, <3>9, SettledKept
  <2> QED
    BY <2>4, <2>5
<1> QED
  BY <1>3, <1>4, <1>5 DEF Resolving

\* Steps of the directory and of the watch that change no entry and no subscription.
LEMMA SettledNews ==
  ASSUME WatchInv, SettledInv, NewsArrive, UNCHANGED <<entry, unsure>>,
         \A b \in Battles : Subs(b)' = Subs(b),
         \A u \in Callers :
            \/ Still(u)
            \/ ~(Attaching(u) /\ kind[u] = "resolver") /\ CallerKept(u)
  PROVE  SettledInv'
<1>1. ASSUME NEW b \in Battles PROVE EntryKept(b)
  <2>1. \A u \in Callers : Subscribes(u, b) =>
           Subscribes(u, b)' /\ num'[u] = num[u] /\ (pc[u] = "returning" => pc'[u] = "returning")
    BY DEF Still, Subscribes, Attaching
  <2>2. \/ Served(b)' /\ Fresh(b)'
        \/ entry[b] # None /\ entry'[b].owner = entry[b].owner /\ entry'[b].sub = entry[b].sub
    BY DEF Served, Fresh
  <2> QED
    BY <2>1, <2>2 DEF EntryKept
<1>2. \A u \in Callers : CallerKept(u)
  BY DEF Still, CallerKept
<1> QED
  BY <1>1, <1>2, SettledKept

LEMMA SettledDirectory ==
  ASSUME WatchInv, SettledInv,
         \/ \E b \in Battles : (\E o \in Owners : Move(b, o)) \/ Renew(b)
         \/ StreamEnded \/ CloseIdle
  PROVE  SettledInv'
<1>1. ASSUME NEW b \in Battles, (\E o \in Owners : Move(b, o)) \/ Renew(b) PROVE SettledInv'
  <2>1. UNCHANGED <<topics, stream, batch, entry, unsure, callers>> /\ Up' = Up
    BY <1>1 DEF Move, Renew, hub, shared, Up
  <2>2. \A u \in Callers : Still(u)
    BY <2>1 DEF callers, locals, Still
  <2>3. \A c \in Battles : Subs(c)' = Subs(c)
    BY <2>1 DEF Subs
  <2>4. \A c \in Battles : c # b => rec'[c] = rec[c]
    BY <1>1 DEF Move, Renew, Set, WatchInv, DirectoryOK
  <2>5. ASSUME Up PROVE InChan(b)' /\ \A c \in Battles : InChan(c) => InChan(c)'
    <3>1. CASE \E o \in Owners : Move(b, o)
      <4>1. chan' = Append(chan, Event(b)')
        BY <2>5, <3>1 DEF Move
      <4>2. Event(b)'.battle = b
        BY DEF Event
      <4>3. chan \in Seq(News)
        BY DEF WatchInv, DirectoryOK
      <4> DEFINE e == Event(b)'
      <4> HIDE DEF e
      <4>4. chan' = Append(chan, e)
        BY <4>1 DEF e
      <4>5. /\ Len(chan) \in Nat /\ DOMAIN chan = 1..Len(chan) /\ DOMAIN chan' = 1..(Len(chan) + 1)
            /\ chan'[Len(chan) + 1] = e /\ \A j \in 1..Len(chan) : chan'[j] = chan[j]
        BY <4>3, <4>4
      <4>6. Len(chan) + 1 \in DOMAIN chan' /\ chan'[Len(chan) + 1].battle = b
        BY <4>2, <4>5 DEF e
      <4>7. InChan(b)'
        BY <4>6 DEF InChan
      <4>8. \A c \in Battles : InChan(c) => InChan(c)'
        BY <4>5 DEF InChan
      <4> QED
        BY <4>7, <4>8
    <3>2. CASE Renew(b)
      <4>1. chan' = <<Event(b)>> /\ chan = <<>>
        BY <3>2 DEF Renew
      <4>2. Event(b).battle = b
        BY DEF Event
      <4>3. 1 \in DOMAIN chan' /\ chan'[1].battle = b /\ DOMAIN chan = {}
        BY <4>1, <4>2
      <4> QED
        BY <4>3 DEF InChan
    <3> QED
      BY <1>1, <3>1, <3>2
  <2>6. NewsArrive
    BY <2>1, <2>4, <2>5 DEF NewsArrive
  <2> QED
    BY <2>1, <2>2, <2>3, <2>6, SettledNews
<1>2. CASE StreamEnded \/ CloseIdle
  <2>1. UNCHANGED <<rec, batch, entry, unsure, callers>>
    BY <1>2 DEF StreamEnded, CloseIdle, shared
  <2>2. \A u \in Callers : Still(u)
    BY <2>1 DEF callers, locals, Still
  <2>3. ~Up'
    <3>1. CASE CloseIdle
      BY <3>1 DEF CloseIdle, Up
    <3>2. CASE StreamEnded
      <4>1. stream \in Watch /\ stream' = [stream EXCEPT !.up = "no"]
        BY <3>2 DEF StreamEnded, Up, WatchInv, HubGood, HubOK
      <4>2. stream'.up = "no"
        BY <4>1 DEF Watch
      <4> QED
        BY <4>2 DEF Up
    <3> QED
      BY <1>2, <3>1, <3>2
  <2>4. NewsArrive
    BY <2>1, <2>3 DEF NewsArrive
  <2> QED
    BY <1>2, <2>1, <2>2, <2>4, WatchEnds, SettledNews
<1> QED
  BY <1>1, <1>2

LEMMA SettledGuards ==
  ASSUME WatchInv, SettledInv, NEW t \in Callers,
         AttachFails(t) \/ Register(t) \/ GiveUp(t) \/ Unregister(t)
  PROVE  SettledInv'
<1>0. FlowStays /\ batch' = batch
  BY CalmStays DEF Calm
<1>1. CASE AttachFails(t)
  <2>0. PICK b : b = at[t]
    OBVIOUS
  <2> DEFINE e == [entry[b] EXCEPT !.phase = "backoff"]
  <2>1. /\ pc[t] = "attach" /\ b \in Battles /\ unsure' = unsure /\ UNCHANGED locals
        /\ entry \in [Battles -> Entry \cup {None}]
    BY <1>1, <2>0 DEF AttachFails, WatchInv, PlacesOK, TablesOK
  <2>2. \/ entry' = entry
        \/ entry[b] # None /\ entry' = [entry EXCEPT ![b] = e]
    BY <1>1, <2>0 DEF AttachFails, Set
  <2>3. entry[b] # None => /\ e # None /\ e.owner = entry[b].owner /\ e.sub = entry[b].sub
                           /\ e.older = entry[b].older
    BY <2>1, NoneAssumption DEF Entry
  <2> HIDE DEF e
  <2>4. \A c \in Battles : EntrySame(c)
    BY <2>1, <2>2, <2>3 DEF EntrySame
  <2>5. /\ pc'[t] \in {"query", "streaming"} /\ (pc'[t] = "query" => kind[t] = "resolver")
        /\ \A u \in Callers : u # t => Still(u)
    BY <1>1, <2>1 DEF AttachFails, Go, Set, Still, locals, WatchInv, PlacesOK
  <2>6. CallerKept(t)
    <3>1. at[t] \notin unsure /\ kind[t] = "resolver" => entry[at[t]] # None
      BY <2>0, <2>1 DEF SettledInv, EntryThere
    <3>2. at'[t] = at[t] /\ (at[t] \notin unsure /\ kind[t] = "resolver" => entry'[at[t]] # None)
      BY <2>0, <2>1, <2>4, <3>1 DEF locals, EntrySame
    <3> QED
      BY <2>1, <2>5, <3>2, CallerFree
  <2>7. ~Attaching(t)
    BY <2>1 DEF Attaching
  <2> QED
    BY <1>0, <2>1, <2>4, <2>5, <2>6, <2>7, SettledCalm
<1>2. ASSUME UNCHANGED <<entry, unsure>>, ~Attaching(t), \A u \in Callers : u # t => Still(u),
             pc'[t] = "idle" \/ (pc'[t] \in {"attach", "streaming"} /\ kind'[t] = "guard")
      PROVE  SettledInv'
  <2>1. CallerKept(t)
    BY <1>2, CallerFree
  <2>2. \A b \in Battles : EntrySame(b)
    BY <1>2 DEF EntrySame
  <2> QED
    BY <1>0, <1>2, <2>1, <2>2, SettledCalm
<1>3. CASE Register(t)
  <2>1. /\ pc[t] = "resolved" /\ UNCHANGED <<entry, unsure, at, found, num, owed>>
        /\ Go(t, "attach") \/ Go(t, "streaming")
        /\ kind' = [kind EXCEPT ![t] = "guard"]
    BY <1>3 DEF Register, Set
  <2> QED
    BY <1>2, <2>1 DEF Go, Set, Still, Attaching, WatchInv, PlacesOK
<1>4. CASE GiveUp(t) \/ Unregister(t)
  <2>1. /\ pc[t] \in {"resolved", "streaming"} /\ UNCHANGED <<entry, unsure>> /\ Leave(t)
    BY <1>4 DEF GiveUp, Unregister, shared
  <2> QED
    BY <1>2, <2>1 DEF Leave, Go, Set, Still, Attaching, WatchInv, PlacesOK, LocalsOK
<1> QED
  BY <1>1, <1>3, <1>4

LEMMA SettledAttaches ==
  ASSUME WatchInv, FlowInv, SettledInv, NEW t \in Callers, Attach(t)
  PROVE  SettledInv'
<1>1. /\ pc[t] = "attach" /\ at[t] \in Battles
      /\ UNCHANGED <<rec, batch, entry, unsure, at, kind, found, num, owed>> /\ Go(t, "waiting")
  BY DEF Attach, shared, WatchInv, PlacesOK
<1>2. pc'[t] = "waiting" /\ \A u \in Callers : u # t => Still(u)
  BY <1>1 DEF Go, Set, Still, WatchInv, PlacesOK
<1>3. CallerKept(t)
  <2>1. at[t] \notin unsure /\ kind[t] = "resolver" => entry[at[t]] # None
    BY <1>1 DEF SettledInv, EntryThere
  <2> QED
    BY <1>1, <1>2, <2>1, CallerFree DEF WatchInv, PlacesOK, Kinds
<1>4. NewsArrive
  BY <1>1, FlowStarts DEF NewsArrive, InChan
<1> QED
  BY <1>1, <1>2, <1>3, <1>4, AttachStep, SettledNews DEF Attaching

LEMMA SettledInserts ==
  ASSUME WatchInv, FlowInv, SettledInv, NEW t \in Callers, Insert(t)
  PROVE  SettledInv'
<1>1. /\ pc[t] = "waiting" /\ at[t] \in Battles /\ topics[at[t]] \in Topic \cup {None}
      /\ UNCHANGED <<entry, unsure, at, kind, found>>
  BY DEF Insert, shared, WatchInv, PlacesOK, HubGood, HubOK
<1>2. UNCHANGED <<rec, chan, batch>> /\ Up' = Up
  BY InsertGrows
<1>3. \A u \in Callers : u # t => Still(u)
  BY <1>1 DEF Insert, Go, Set, Still, WatchInv, PlacesOK, LocalsOK
<1>4. NewsArrive /\ ~Attaching(t)
  BY <1>1, <1>2 DEF NewsArrive, InChan, Attaching
<1>5. at[t] \notin unsure /\ kind[t] = "resolver" => entry[at[t]] # None
  BY <1>1 DEF SettledInv, EntryThere
<1>6. CASE UNCHANGED <<seq, num>> /\ Go(t, "attach") /\ \A b \in Battles : Subs(b)' = Subs(b)
  <2>1. pc'[t] = "attach"
    BY <1>6 DEF Go, Set, WatchInv, PlacesOK
  <2>2. CallerKept(t)
    BY <1>1, <1>5, <2>1, CallerFree DEF WatchInv, PlacesOK, Kinds
  <2> QED
    BY <1>1, <1>3, <1>4, <1>6, <2>2, SettledNews
<1>7. CASE /\ seq' = seq + 1 /\ num' = [num EXCEPT ![t] = seq']
           /\ \E l \in {"calling", "returning"} : Go(t, l)
           /\ \A b \in Battles :
                 Subs(b)' = IF b = at[t]
                            THEN Subs(b) \cup {[num |-> seq', kind |-> kind[t]]}
                            ELSE Subs(b)
  <2>0. PICK b \in Battles : b = at[t]
    BY <1>1
  <2>1. /\ topics[b] # None /\ owed'[t].owner = topics[b].owner
        /\ Go(t, IF topics[b].owner = None THEN "returning" ELSE "calling")
    <3>1. ~(topics[b] = None \/ topics[b].no # topic[t])
      <4>1. pc'[t] \in {"calling", "returning"}
        BY <1>7 DEF Go, Set, WatchInv, PlacesOK
      <4>2. pc' # [pc EXCEPT ![t] = "attach"]
        BY <4>1 DEF WatchInv, PlacesOK
      <4> QED
        BY <2>0, <4>2 DEF Insert, Go, Set
    <3>2. /\ owed' = [owed EXCEPT ![t] = [owner |-> topics[b].owner, ver |-> topics[b].ver]]
          /\ Go(t, IF topics[b].owner = None THEN "returning" ELSE "calling")
      BY <2>0, <3>1 DEF Insert, Set
    <3>3. owed'[t] = [owner |-> topics[b].owner, ver |-> topics[b].ver]
      BY <3>2 DEF WatchInv, LocalsOK
    <3> QED
      BY <3>1, <3>2, <3>3
  <2>2. /\ num'[t] = seq' /\ at'[t] = b /\ kind'[t] = kind[t]
        /\ pc'[t] = IF topics[b].owner = None THEN "returning" ELSE "calling"
    BY <1>1, <1>7, <2>0, <2>1 DEF Go, Set, WatchInv, PlacesOK, LocalsOK
  <2>3. Calls(t)'
    <3> SUFFICES ASSUME pc'[t] = "calling", Behind(at[t], owed[t].owner)' PROVE InChan(at[t])'
      BY DEF Calls
    <3>1. topics[b].owner # None /\ rec[b].owner # topics[b].owner
      BY <1>2, <2>1, <2>2 DEF Behind
    <3>2. Current(b)
      BY <2>1, <3>1 DEF FlowInv, KnownOrdered
    <3> QED
      BY <1>2, <2>2, <3>2 DEF Current, InChan
  <2>4. CallerKept(t)
    <3>1. b \notin unsure => EntryThere(t)' /\ Stores(t)'
      BY <1>1, <1>5, <2>0, <2>2 DEF EntryThere, Stores
    <3> QED
      BY <1>1, <2>2, <2>3, <3>1 DEF CallerKept
  <2>5. ASSUME NEW c \in Battles, c \notin unsure PROVE EntryKept(c)
    <3>1. ASSUME NEW s \in Subs(c)', s.kind = "resolver"
          PROVE  s \in Subs(c) \/ Claimed(c, s.num)'
      <4>1. CASE s \in Subs(c)
        BY <4>1
      <4>2. CASE c = b /\ s = [num |-> seq', kind |-> kind[t]]
        <5>1. kind[t] = "resolver" /\ s.num = seq'
          BY <3>1, <4>2
        <5>2. Subscribes(t, b)'
          BY <2>2, <5>1 DEF Subscribes, Attaching
        <5>3. entry'[b] # None
          BY <1>1, <1>5, <2>0, <2>5, <4>2, <5>1
        <5> QED
          BY <2>2, <4>2, <5>1, <5>2, <5>3 DEF Claimed
      <4> QED
        BY <1>7, <2>0, <4>1, <4>2
    <3>2. \A u \in Callers : Subscribes(u, c) =>
             Subscribes(u, c)' /\ num'[u] = num[u] /\ (pc[u] = "returning" => pc'[u] = "returning")
      BY <1>3, <1>4 DEF Still, Subscribes, Attaching
    <3>3. \/ Served(c)' /\ Fresh(c)'
          \/ entry[c] # None /\ entry'[c].owner = entry[c].owner /\ entry'[c].sub = entry[c].sub
      BY <1>1 DEF Served, Fresh
    <3> QED
      BY <1>1, <3>1, <3>2, <3>3 DEF EntryKept
  <2>6. \A u \in Callers : CallerKept(u)
    BY <1>3, <2>4 DEF Still, CallerKept
  <2> QED
    BY <1>1, <1>4, <2>5, <2>6, SettledKept
<1> QED
  BY <1>6, <1>7, InsertStep

\* What an event does to the entries.
LEMMA LearnCases ==
  ASSUME TablesOK, NEW b \in Battles, NEW o \in Owners, Learn(b, o)
  PROVE  /\ unsure \subseteq unsure' /\ \A c \in Battles : c # b => entry'[c] = entry[c]
         /\ \/ entry[b] = None /\ entry'[b] = None
            \/ b \in unsure'
            \/ /\ entry[b] # None /\ entry'[b] # None
               /\ entry'[b].owner = o /\ entry'[b].sub = entry[b].sub
               /\ \A u \in Callers : Resolves(u, b) => u \in entry'[b].older
<1>1. CASE entry[b] = None /\ UNCHANGED <<entry, unsure, topics, stream>>
  BY <1>1
<1>2. CASE /\ entry[b] # None /\ o = None
           /\ entry' = Set(entry, b, None) /\ unsure' = unsure \cup {b}
  BY <1>2 DEF Set, TablesOK
<1>3. CASE /\ entry[b] # None /\ o # None
           /\ entry' = Set(entry, b, [entry[b] EXCEPT !.owner = o, !.fresh = "yes",
                                           !.older = {t \in Callers : Resolves(t, b)}])
           /\ UNCHANGED <<unsure, topics, stream>>
  <2> DEFINE e == [entry[b] EXCEPT !.owner = o, !.fresh = "yes",
                                   !.older = {t \in Callers : Resolves(t, b)}]
  <2>1. entry[b] \in Entry
    BY <1>3 DEF TablesOK
  <2>2. /\ e \in Entry /\ e.owner = o /\ e.sub = entry[b].sub
        /\ e.older = {t \in Callers : Resolves(t, b)}
    BY <2>1 DEF Entry
  <2>3. entry' = [entry EXCEPT ![b] = e]
    BY <1>3 DEF Set
  <2> HIDE DEF e
  <2>4. entry'[b] = e /\ e # None /\ \A c \in Battles : c # b => entry'[c] = entry[c]
    BY <2>2, <2>3, NoneAssumption DEF TablesOK
  <2> QED
    BY <1>3, <2>2, <2>4
<1> QED
  BY <1>1, <1>2, <1>3 DEF Learn

LEMMA SettledCalls ==
  ASSUME WatchInv, SettledInv, NEW t \in Callers, Call(t)
  PROVE  SettledInv'
<1>0. FlowStays /\ batch' = batch
  BY CalmStays DEF Calm
<1>1. PICK b \in Battles : b = at[t]
  BY DEF Call, WatchInv, PlacesOK
<1>2. PICK o \in Owners : o = owed[t].owner
  BY DEF WatchInv, LocalsOK, Known
<1>3. pc[t] = "calling" /\ pc' = [pc EXCEPT ![t] = "returning"] /\ UNCHANGED locals
      /\ Notify(b, {kind[t]}, o)
  BY <1>1, <1>2 DEF Call, Go, Set
<1>4. /\ pc'[t] = "returning" /\ at'[t] = b /\ kind'[t] = kind[t] /\ num'[t] = num[t]
      /\ \A u \in Callers : u # t => Still(u)
  BY <1>1, <1>3 DEF locals, Still, WatchInv, PlacesOK
<1>5. CASE kind[t] # "resolver"
  <2>1. UNCHANGED <<entry, unsure>>
    BY <1>3, <1>5 DEF Notify
  <2>2. CallerKept(t)
    BY <1>4, <1>5, CallerFree DEF WatchInv, PlacesOK, Kinds
  <2>3. \A c \in Battles : EntrySame(c)
    BY <2>1 DEF EntrySame
  <2> QED
    BY <1>0, <1>4, <1>5, <2>1, <2>2, <2>3, SettledCalm
<1>6. CASE kind[t] = "resolver"
  <2>1. Learn(b, o)
    BY <1>3, <1>6 DEF Notify
  <2>2. /\ unsure \subseteq unsure' /\ \A c \in Battles : c # b => entry'[c] = entry[c]
        /\ \/ entry[b] = None /\ entry'[b] = None
           \/ b \in unsure'
           \/ /\ entry[b] # None /\ entry'[b] # None
              /\ entry'[b].owner = o /\ entry'[b].sub = entry[b].sub
              /\ \A u \in Callers : Resolves(u, b) => u \in entry'[b].older
    BY <2>1, LearnCases DEF WatchInv
  <2>3. b \notin unsure => entry[b] # None
    BY <1>1, <1>3, <1>6 DEF SettledInv, EntryThere
  <2>4. \A c \in Battles : \A s \in Subs(c)' : s \in Subs(c)
    BY <1>0 DEF FlowStays, TopicsShrink, Subs
  <2>5. \A c \in Battles : \A u \in Callers : Subscribes(u, c) =>
           Subscribes(u, c)' /\ num'[u] = num[u] /\ (pc[u] = "returning" => pc'[u] = "returning")
    BY <1>1, <1>4 DEF Still, Subscribes, Attaching
  <2>6. NewsArrive
    BY <1>0 DEF FlowStays, NewsArrive, InChan
  <2>7. ASSUME b \notin unsure' PROVE EntryKept(b)
    <3>1. /\ entry[b] # None /\ entry'[b] # None /\ b \notin unsure
          /\ entry'[b].owner = o /\ entry'[b].sub = entry[b].sub
          /\ \A u \in Callers : Resolves(u, b) => u \in entry'[b].older
      BY <2>2, <2>3, <2>7
    <3>2. Subscribes(t, b)'
      BY <1>4, <1>6 DEF Subscribes, Attaching
    <3>3. Served(b)'
      BY <1>4, <3>2 DEF Served
    <3>4. Behind(b, o) => Awaited(b)
      <4>1. Calls(t)
        BY DEF SettledInv
      <4>2. [num |-> num[t], kind |-> kind[t]].kind = "resolver"
        BY <1>6
      <4> QED
        BY <1>1, <1>2, <1>3, <4>1, <4>2 DEF Calls, Awaited, InBatch
    <3>5. Fresh(b)'
      <4>1. Behind(b, entry[b].owner)' => Behind(b, o)
        BY <1>0, <3>1 DEF Behind, FlowStays
      <4>2. Awaited(b)' <=> Awaited(b)
        BY <1>0 DEF Awaited, InChan, InBatch, FlowStays
      <4> QED
        BY <3>4, <4>1, <4>2 DEF Fresh
    <3>6. ASSUME NEW u \in entry[b].older, pc'[u] = "store", at'[u] = b PROVE u \in entry'[b].older
      <4>1. u \in Callers
        <5>1. entry[b] \in Entry
          BY <3>1 DEF WatchInv, TablesOK
        <5> QED
          BY <5>1 DEF Entry
      <4>2. u # t /\ pc[u] = "store" /\ at[u] = b
        BY <1>4, <3>6, <4>1 DEF Still
      <4>3. Resolves(u, b)
        BY <4>1, <4>2 DEF Resolves, WatchInv, GuardPlaces
      <4> QED
        BY <3>1, <4>1, <4>3
    <3> QED
      BY <2>4, <2>5, <3>1, <3>3, <3>5, <3>6 DEF EntryKept
  <2>8. ASSUME NEW c \in Battles, c # b PROVE EntryKept(c)
    <3>1. entry'[c] = entry[c]
      BY <2>2, <2>8
    <3>2. \/ Served(c)' /\ Fresh(c)'
          \/ entry[c] # None /\ entry'[c].owner = entry[c].owner /\ entry'[c].sub = entry[c].sub
      BY <3>1 DEF Served, Fresh
    <3> QED
      BY <2>4, <2>5, <3>1, <3>2 DEF EntryKept
  <2>9. CallerKept(t)
    BY <1>4, <2>2, <2>3, CallerFree
  <2>10. \A u \in Callers : CallerKept(u)
    BY <1>4, <2>9 DEF Still, CallerKept
  <2> QED
    BY <2>2, <2>6, <2>7, <2>8, <2>10, SettledKept
<1> QED
  BY <1>5, <1>6

LEMMA SettledReturns ==
  ASSUME WatchInv, HeldInv, SettledInv, NEW t \in Callers, Return(t)
  PROVE  SettledInv'
<1>0. FlowStays /\ batch' = batch
  BY CalmStays DEF Calm
<1>1. PICK b \in Battles : b = at[t]
  BY DEF Return, WatchInv, PlacesOK
<1>2. /\ pc[t] = "returning" /\ UNCHANGED <<unsure, at, kind, found>> /\ Attaching(t)
      /\ seq \in Nat /\ entry \in [Battles -> Entry \cup {None}]
  BY DEF Return, WatchInv, HubGood, HubOK, TablesOK, Attaching
<1>3. num[t] = seq /\ seq # 0
  <2>1. num[t] = seq /\ [num |-> seq, kind |-> kind[t]] \in Subs(b)
    BY <1>1, <1>2 DEF HeldInv, AttachingAlone
  <2>2. [num |-> seq, kind |-> kind[t]].num \in 1..seq
    BY <2>1 DEF HeldInv, Numbered
  <2> QED
    BY <1>2, <2>1, <2>2
<1>4. ASSUME NEW l \in {"query", "streaming"}, Go(t, l)
      PROVE  pc'[t] = l /\ \A u \in Callers : u # t => Still(u)
  <2>1. /\ num' = [num EXCEPT ![t] = 0] /\ owed' = [owed EXCEPT ![t] = NoEvent]
        /\ pc' = [pc EXCEPT ![t] = l]
    BY <1>4 DEF Return, Set, Go
  <2> QED
    BY <1>2, <2>1 DEF Still, WatchInv, PlacesOK, LocalsOK
<1>5. CASE kind[t] # "resolver"
  <2>1. Go(t, "streaming") /\ entry' = entry
    BY <1>5 DEF Return
  <2>2. CallerKept(t)
    BY <1>4, <2>1, CallerFree
  <2>3. \A c \in Battles : EntrySame(c)
    BY <2>1 DEF EntrySame
  <2> QED
    BY <1>0, <1>2, <1>4, <1>5, <2>1, <2>2, <2>3, SettledCalm
<1>6. CASE kind[t] = "resolver"
  <2> DEFINE e == [entry[b] EXCEPT !.sub = seq, !.phase = "none"]
  <2>1. Go(t, "query") /\ entry' = IF entry[b] = None THEN entry ELSE [entry EXCEPT ![b] = e]
    BY <1>1, <1>2, <1>3, <1>6 DEF Return, Set
  <2>2. entry[b] # None => /\ e # None /\ e.owner = entry[b].owner /\ e.sub = seq
                           /\ e.older = entry[b].older
    <3>1. ASSUME entry[b] # None
          PROVE  e \in Entry /\ e.owner = entry[b].owner /\ e.sub = seq /\ e.older = entry[b].older
      <4>1. entry[b] \in Entry
        BY <1>2, <3>1
      <4> QED
        BY <1>2, <4>1 DEF Entry
    <3> QED
      BY <3>1, NoneAssumption
  <2> HIDE DEF e
  <2>3. b \notin unsure => entry[b] # None
    BY <1>1, <1>2, <1>6 DEF SettledInv, EntryThere
  <2>4. \A c \in Battles : \A s \in Subs(c)' : s \in Subs(c)
    BY <1>0 DEF FlowStays, TopicsShrink, Subs
  <2>5. \A c \in Battles : c # b => entry'[c] = entry[c]
    BY <1>2, <2>1
  <2>6. ASSUME b \notin unsure PROVE EntryKept(b)
    <3>1. /\ entry[b] # None /\ entry'[b] # None /\ entry'[b].owner = entry[b].owner
          /\ entry'[b].sub # 0 /\ entry'[b].older = entry[b].older
      BY <1>2, <1>3, <2>1, <2>2, <2>3, <2>6
    <3>2. Served(b)'
      BY <3>1 DEF Served
    <3>3. Fresh(b)'
      <4>1. Behind(b, entry[b].owner)' => Behind(b, entry[b].owner)
        BY <1>0, <3>1 DEF Behind, FlowStays
      <4>2. Awaited(b)' <=> Awaited(b)
        BY <1>0 DEF Awaited, InChan, InBatch, FlowStays
      <4>3. Fresh(b)
        BY <2>6 DEF SettledInv
      <4> QED
        BY <3>1, <4>1, <4>2, <4>3 DEF Fresh
    <3> QED
      BY <2>4, <3>1, <3>2, <3>3 DEF EntryKept
  <2>7. ASSUME NEW c \in Battles, c # b PROVE EntryKept(c)
    <3>1. entry'[c] = entry[c]
      BY <2>5, <2>7
    <3>2. \/ Served(c)' /\ Fresh(c)'
          \/ entry[c] # None /\ entry'[c].owner = entry[c].owner /\ entry'[c].sub = entry[c].sub
      BY <3>1 DEF Served, Fresh
    <3>3. \A u \in Callers : Subscribes(u, c) =>
             Subscribes(u, c)' /\ num'[u] = num[u] /\ (pc[u] = "returning" => pc'[u] = "returning")
      BY <1>1, <1>4, <2>1, <2>7 DEF Still, Subscribes, Attaching
    <3> QED
      BY <2>4, <3>1, <3>2, <3>3 DEF EntryKept
  <2>8. CallerKept(t)
    <3>1. pc'[t] = "query" /\ at'[t] = b
      BY <1>1, <1>2, <1>4, <2>1
    <3>2. b \notin unsure => entry'[b] # None
      BY <1>2, <2>1, <2>2, <2>3
    <3> QED
      BY <1>2, <3>1, <3>2, CallerFree
  <2>9. \A u \in Callers : CallerKept(u)
    BY <1>4, <2>1, <2>8 DEF Still, CallerKept
  <2>10. NewsArrive
    BY <1>0 DEF FlowStays, NewsArrive, InChan
  <2> QED
    BY <1>2, <2>6, <2>7, <2>9, <2>10, SettledKept
<1> QED
  BY <1>5, <1>6

\* A resolver whose entry is known to be served hears of what is dispatched.
LEMMA SettledDispatches ==
  ASSUME WatchInv, HeldInv, SettledInv, NEW n \in 1..Len(chan), Dispatch(n)
  PROVE  SettledInv'
<1>1. UNCHANGED <<rec, stream, entry, unsure, callers>> /\ Up' = Up /\ DOMAIN batch = {}
  BY DEF Dispatch, shared, Up
<1>2. Dispatched(n) /\ Len(chan) \in Nat /\ DOMAIN chan = 1..Len(chan)
      /\ \A i \in 1..Len(chan) : chan[i].battle \in Battles
  BY DispatchTakes, EventTypes DEF WatchInv
<1>3. \A b \in Battles : Subs(b)' = Subs(b)
  BY DispatchStep
<1>4. \A u \in Callers : Still(u)
  BY <1>1 DEF callers, locals, Still
<1>5. ASSUME NEW b \in Battles, InChan(b)
      PROVE  InChan(b)' \/ \E i \in DOMAIN batch' : batch'[i].event.battle = b /\ batch'[i].subs = Subs(b)
  <2>1. PICK j \in 1..Len(chan) : chan[j].battle = b
    BY <1>2, <1>5 DEF InChan
  <2>2. CASE j <= n
    <3>1. j \in 1..n /\ j \in DOMAIN batch' /\ batch'[j].event = chan[j] /\ batch'[j].subs = Subs(b)
      BY <1>2, <2>1, <2>2 DEF Dispatched
    <3> QED
      BY <2>1, <3>1
  <2>3. CASE n < j
    <3>1. j - n \in 1..(Len(chan) - n) /\ n + (j - n) = j
      BY <1>2, <2>1, <2>3
    <3>2. j - n \in DOMAIN chan' /\ chan'[j - n] = chan[j]
      BY <1>2, <3>1 DEF Dispatched
    <3> QED
      BY <2>1, <3>2 DEF InChan
  <2> QED
    BY <1>2, <2>2, <2>3
<1>6. ASSUME NEW b \in Battles, b \notin unsure, entry[b] # None,
             entry[b].sub # 0 \/ \E t \in Callers : Subscribes(t, b), Awaited(b)
      PROVE  Awaited(b)'
  <2>1. PICK s \in Subs(b) : s.kind = "resolver"
    <3>1. CASE entry[b].sub # 0
      <4>1. [num |-> entry[b].sub, kind |-> "resolver"] \in Subs(b)
        BY <1>6, <3>1 DEF HeldInv, HeldServed
      <4>2. [num |-> entry[b].sub, kind |-> "resolver"].kind = "resolver"
        OBVIOUS
      <4> QED
        BY <4>1, <4>2
    <3>2. ASSUME NEW t \in Callers, Subscribes(t, b) PROVE \E s \in Subs(b) : s.kind = "resolver"
      <4>1. [num |-> seq, kind |-> "resolver"] \in Subs(b)
        BY <3>2 DEF HeldInv, AttachingAlone, Subscribes
      <4>2. [num |-> seq, kind |-> "resolver"].kind = "resolver"
        OBVIOUS
      <4> QED
        BY <4>1, <4>2
    <3> QED
      BY <1>6, <3>1, <3>2
  <2>2. InChan(b)
    BY <1>1, <1>6 DEF Awaited, InBatch
  <2> QED
    BY <1>5, <2>1, <2>2 DEF Awaited, InBatch
<1>7. ASSUME NEW b \in Battles, NEW m, Claimed(b, m) PROVE Claimed(b, m)'
  BY <1>1, <1>4, <1>7 DEF Claimed, Still, Subscribes, Attaching
<1>8. ASSUME NEW b \in Battles, b \notin unsure' PROVE Claims(b)' /\ Served(b)' /\ Fresh(b)'
  <2>1. Claims(b) /\ Served(b) /\ Fresh(b) /\ b \notin unsure
    BY <1>1, <1>8 DEF SettledInv
  <2>2. Claims(b)'
    <3>1. \A s \in Subs(b) : s.kind = "resolver" => Claimed(b, s.num)'
      BY <1>7, <2>1 DEF Claims
    <3>2. \A i \in DOMAIN batch' : batch'[i].event.battle = b => batch'[i].subs = Subs(b)
      BY <1>2 DEF Dispatched
    <3> QED
      BY <1>3, <3>1, <3>2 DEF Claims
  <2>3. Served(b)'
    BY <1>1, <1>4, <2>1 DEF Served, Still, Subscribes, Attaching
  <2>4. Fresh(b)'
    <3> SUFFICES ASSUME entry'[b] # None, entry'[b].owner # None, Behind(b, entry[b].owner)'
                 PROVE  Awaited(b)'
      BY DEF Fresh
    <3>1. entry[b] # None /\ entry[b].owner # None /\ Behind(b, entry[b].owner)
      BY <1>1 DEF Behind
    <3>2. entry[b].sub # 0 \/ \E t \in Callers : Subscribes(t, b)
      BY <2>1, <3>1 DEF Served
    <3> QED
      BY <1>6, <2>1, <3>1, <3>2 DEF Fresh
  <2> QED
    BY <2>2, <2>3, <2>4
<1>9. ASSUME NEW t \in Callers PROVE Calls(t)'
  <2> SUFFICES ASSUME pc'[t] = "calling", Behind(at[t], owed[t].owner)'
               PROVE  \/ InChan(at[t])'
                      \/ \E j \in DOMAIN batch' :
                            /\ batch'[j].event.battle = at'[t]
                            /\ [num |-> num'[t], kind |-> kind'[t]] \in batch'[j].subs
    BY DEF Calls
  <2>1. pc[t] = "calling" /\ at[t] \in Battles /\ at' = at /\ num' = num /\ kind' = kind /\ owed' = owed
    BY <1>1 DEF callers, locals, WatchInv, PlacesOK
  <2>2. PICK b \in Battles : b = at[t]
    BY <2>1
  <2>3. Behind(at[t], owed[t].owner)
    BY <1>1, <2>1 DEF Behind
  <2>4. InChan(b)
    BY <1>1, <2>1, <2>2, <2>3 DEF SettledInv, Calls
  <2>5. [num |-> num[t], kind |-> kind[t]] \in Subs(b)
    BY <2>1, <2>2 DEF HeldInv, AttachingAlone, Attaching
  <2>6. InChan(b)' <=> InChan(at[t])'
    BY <2>1, <2>2 DEF InChan
  <2> QED
    BY <1>5, <2>1, <2>2, <2>4, <2>5, <2>6
<1>10. ASSUME NEW t \in Callers, at'[t] \in Battles, at'[t] \notin unsure'
       PROVE  EntryThere(t)' /\ Stores(t)'
  <2>1. PICK b \in Battles : b = at[t] /\ b \notin unsure /\ at'[t] = b
    BY <1>1, <1>10 DEF callers, locals
  <2>2. EntryThere(t) /\ Stores(t)
    BY <2>1 DEF SettledInv
  <2>3. EntryThere(t)'
    BY <1>1, <1>4, <2>2 DEF EntryThere, Still
  <2>4. Stores(t)'
    <3> SUFFICES ASSUME pc'[t] = "store", t \notin entry'[b].older, Behind(at[t], found[t])'
                 PROVE  Awaited(at[t])'
      BY <2>1 DEF Stores
    <3>1. pc[t] = "store" /\ t \notin entry[b].older /\ Behind(b, found[t])
      BY <1>1, <1>4, <2>1 DEF Behind, Still
    <3>2. Awaited(b) /\ entry[b] # None /\ entry[b].sub # 0
      BY <2>1, <2>2, <3>1 DEF Stores, EntryThere, WatchInv, GuardPlaces
    <3>3. Awaited(b)'
      BY <1>6, <2>1, <3>2
    <3> QED
      BY <2>1, <3>3 DEF Awaited, InChan, InBatch
  <2> QED
    BY <2>3, <2>4
<1> QED
  BY <1>8, <1>9, <1>10 DEF SettledInv

\* A delivery tells the resolver an owner; when it is not the newest, another event is on
\* its way to the same subscribers.
LEMMA SettledDelivers ==
  ASSUME WatchInv, FlowInv, HeardInv, SettledInv, Deliver
  PROVE  SettledInv'
<1> DEFINE m == Len(batch)
<1>1. /\ m \in Nat \ {0} /\ DOMAIN batch = 1..m /\ DOMAIN batch' = 1..(m - 1)
      /\ Head(batch) = batch[1] /\ batch[1].event.battle \in Battles
      /\ \A i \in 1..(m - 1) : batch'[i] = batch[i + 1]
      /\ FlowStays /\ UNCHANGED <<guarded, callers>>
  BY DeliverTakes
<1> HIDE DEF m
<1>2. PICK d : d = batch[1]
  OBVIOUS
<1>3. PICK b \in Battles, o \in Owners, v \in Nat :
         b = d.event.battle /\ o = d.event.owner /\ v = d.event.ver
  <2>1. 1 \in DOMAIN batch
    BY <1>1
  <2> QED
    BY <1>2, <2>1, DeliveryTypes DEF WatchInv, HubGood
<1>4. Notify(b, {s.kind : s \in d.subs}, o) /\ ~Locked(d.no)
  BY <1>1, <1>2, <1>3 DEF Deliver
<1>5. /\ UNCHANGED <<rec, chan>> /\ Up' = Up /\ \A c \in Battles : \A s \in Subs(c)' : s \in Subs(c)
  BY <1>1 DEF FlowStays, TopicsShrink, Subs
<1>6. \A u \in Callers : Still(u)
  BY <1>1 DEF callers, locals, Still
<1>7. ASSUME NEW j \in DOMAIN batch, j # 1 PROVE \E i \in DOMAIN batch' : batch'[i] = batch[j]
  <2>1. j - 1 \in 1..(m - 1) /\ (j - 1) + 1 = j
    BY <1>1, <1>7
  <2> QED
    BY <1>1, <2>1
<1>8. \A i \in DOMAIN batch' : \E j \in DOMAIN batch : batch'[i] = batch[j]
  <2> SUFFICES ASSUME NEW i \in DOMAIN batch' PROVE \E j \in DOMAIN batch : batch'[i] = batch[j]
    OBVIOUS
  <2>1. i + 1 \in DOMAIN batch /\ batch'[i] = batch[i + 1]
    BY <1>1
  <2> QED
    BY <2>1
<1>9. 1 \in DOMAIN batch /\ DeliveryOrdered(1)
  BY <1>1 DEF FlowInv, BatchOrdered
<1>10. \A c \in Battles : Awaited(c) =>
          Awaited(c)' \/ (c = b /\ \E s \in d.subs : s.kind = "resolver")
  <2> SUFFICES ASSUME NEW c \in Battles, Awaited(c), ~Awaited(c)'
               PROVE  c = b /\ \E s \in d.subs : s.kind = "resolver"
    OBVIOUS
  <2>1. ~InChan(c)
    BY <1>5 DEF Awaited, InChan
  <2>2. PICK j \in DOMAIN batch : /\ batch[j].event.battle = c
                                  /\ \E s \in batch[j].subs : s.kind = "resolver"
    BY <2>1 DEF Awaited, InBatch
  <2>3. j = 1
    BY <1>7, <2>2 DEF Awaited, InBatch
  <2> QED
    BY <1>2, <1>3, <2>2, <2>3
\* What happens to the entries.
<1>11. unsure \subseteq unsure' /\ \A c \in Battles : c # b => entry'[c] = entry[c]
  <2>1. CASE "resolver" \in {s.kind : s \in d.subs}
    BY <1>4, <2>1, LearnCases DEF Notify, WatchInv
  <2>2. CASE "resolver" \notin {s.kind : s \in d.subs}
    BY <1>4, <2>2 DEF Notify
  <2> QED
    BY <2>1, <2>2
<1>12. b \notin unsure' =>
          \/ entry'[b] = entry[b] /\ ~\E s \in d.subs : s.kind = "resolver"
          \/ /\ entry[b] # None /\ entry'[b] # None
             /\ entry'[b].owner = o /\ entry'[b].sub = entry[b].sub
             /\ \A u \in Callers : Resolves(u, b) => u \in entry'[b].older
             /\ \E s \in d.subs : s.kind = "resolver" /\ Claimed(b, s.num)
  <2>1. CASE "resolver" \in {s.kind : s \in d.subs}
    <3> SUFFICES ASSUME b \notin unsure'
                 PROVE  /\ entry[b] # None /\ entry'[b] # None
                        /\ entry'[b].owner = o /\ entry'[b].sub = entry[b].sub
                        /\ \A u \in Callers : Resolves(u, b) => u \in entry'[b].older
                        /\ \E s \in d.subs : s.kind = "resolver" /\ Claimed(b, s.num)
      OBVIOUS
    <3>1. Learn(b, o)
      BY <1>4, <2>1 DEF Notify
    <3>2. PICK s \in d.subs : s.kind = "resolver"
      BY <2>1
    <3>3. Claimed(b, s.num)
      <4>1. Claims(b)
        BY <1>11 DEF SettledInv
      <4> QED
        BY <1>2, <1>3, <1>9, <3>2, <4>1 DEF Claims
    <3>4. entry[b] # None
      BY <3>3 DEF Claimed
    <3> QED
      BY <3>1, <3>2, <3>3, <3>4, LearnCases DEF WatchInv
  <2>2. CASE "resolver" \notin {s.kind : s \in d.subs}
    <3>1. ~\E s \in d.subs : s.kind = "resolver"
      BY <2>2
    <3> QED
      BY <1>4, <2>2, <3>1 DEF Notify
  <2> QED
    BY <2>1, <2>2
<1>13. \A c \in Battles : c \notin unsure' =>
          /\ entry[c] # None => entry'[c] # None /\ entry'[c].sub = entry[c].sub
          /\ \A k : Claimed(c, k) => Claimed(c, k)'
  BY <1>6, <1>11, <1>12 DEF Claimed, Still, Subscribes, Attaching
<1>14. ASSUME NEW c \in Battles, c \notin unsure' PROVE Claims(c)' /\ Served(c)' /\ Fresh(c)'
  <2>1. Claims(c) /\ Served(c) /\ Fresh(c)
    BY <1>11, <1>14 DEF SettledInv
  <2>2. Claims(c)'
    <3>1. \A s \in Subs(c)' : s.kind = "resolver" => Claimed(c, s.num)'
      BY <1>5, <1>13, <1>14, <2>1 DEF Claims
    <3>2. \A i \in DOMAIN batch' : \A s \in batch'[i].subs :
             batch'[i].event.battle = c /\ s.kind = "resolver" => Claimed(c, s.num)'
      BY <1>8, <1>13, <1>14, <2>1 DEF Claims
    <3> QED
      BY <3>1, <3>2 DEF Claims
  <2>3. CASE entry'[c] = entry[c] /\ ~(c = b /\ \E s \in d.subs : s.kind = "resolver")
    <3>1. Served(c)'
      BY <1>6, <2>1, <2>3 DEF Served, Still, Subscribes, Attaching
    <3>2. Fresh(c)'
      <4>1. Behind(c, entry[c].owner)' => Behind(c, entry[c].owner)
        BY <1>5, <2>3 DEF Behind
      <4> QED
        BY <1>10, <2>1, <2>3, <4>1 DEF Fresh
    <3> QED
      BY <2>2, <3>1, <3>2
  <2>4. CASE /\ c = b /\ entry'[b] # None
             /\ entry'[b].owner = o /\ entry'[b].sub = entry[b].sub
             /\ \E s \in d.subs : s.kind = "resolver" /\ Claimed(b, s.num)
    <3>1. PICK s \in d.subs : s.kind = "resolver" /\ Claimed(b, s.num)
      BY <2>4
    <3>2. Served(b)'
      <4> SUFFICES ASSUME entry[b].sub = 0
                   PROVE  \E t \in Callers : Subscribes(t, b)' /\ pc'[t] = "returning"
        BY <2>4 DEF Served
      <4>1. PICK t \in Callers : Subscribes(t, b) /\ num[t] = s.num
        BY <3>1 DEF Claimed
      <4>2. d.no = topic[t]
        BY <1>2, <1>9, <3>1, <4>1 DEF HeardInv, Placed, Subscribes
      <4>3. pc[t] = "returning"
        BY <1>4, <4>1, <4>2 DEF Locked, Subscribes, Attaching
      <4> QED
        BY <1>6, <4>1, <4>3 DEF Still, Subscribes, Attaching
    <3>3. Fresh(b)'
      <4> SUFFICES ASSUME Behind(b, entry[b].owner)' PROVE Awaited(b)'
        BY DEF Fresh
      <4>1. rec[b].owner # o
        BY <1>5, <2>4 DEF Behind
      <4>2. v # rec[b].ver
        BY <1>2, <1>3, <1>9, <4>1 DEF DeliveryOrdered, Written
      <4>3. CASE Current(b)
        BY <1>5, <4>3 DEF Current, Awaited, InChan
      <4>4. CASE ~Current(b)
        <5>1. PICK j \in DOMAIN batch : /\ batch[j].event.battle = b /\ batch[j].event.ver = rec[b].ver
                                        /\ 1 <= j
          BY <1>2, <1>3, <1>9, <4>4 DEF DeliveryOrdered
        <5>2. batch[j].subs = d.subs
          BY <1>2, <1>3, <1>9, <5>1 DEF DeliveryOrdered
        <5>3. j # 1
          BY <1>2, <1>3, <4>2, <5>1
        <5> QED
          BY <1>7, <3>1, <5>1, <5>2, <5>3 DEF Awaited, InBatch
      <4> QED
        BY <4>3, <4>4
    <3> QED
      BY <2>2, <2>4, <3>2, <3>3
  <2> QED
    BY <1>11, <1>12, <1>14, <2>3, <2>4
<1>15. ASSUME NEW t \in Callers PROVE Calls(t)'
  <2> SUFFICES ASSUME pc'[t] = "calling", Behind(at[t], owed[t].owner)'
               PROVE  \/ InChan(at[t])'
                      \/ \E j \in DOMAIN batch' :
                            /\ batch'[j].event.battle = at'[t]
                            /\ [num |-> num'[t], kind |-> kind'[t]] \in batch'[j].subs
    BY DEF Calls
  <2>1. pc[t] = "calling" /\ UNCHANGED <<at, num, kind, owed>> /\ Behind(at[t], owed[t].owner)
    BY <1>1, <1>5 DEF callers, locals, Behind
  <2>2. CASE InChan(at[t])
    BY <1>5, <2>1, <2>2 DEF InChan
  <2>3. CASE ~InChan(at[t])
    <3>1. PICK j \in DOMAIN batch : /\ batch[j].event.battle = at[t]
                                    /\ [num |-> num[t], kind |-> kind[t]] \in batch[j].subs
      BY <2>1, <2>3 DEF SettledInv, Calls
    <3>2. batch[j].no = topic[t]
      <4>1. [num |-> num[t], kind |-> kind[t]].num = num[t]
        OBVIOUS
      <4>2. Placed(t)
        BY <2>1 DEF HeardInv, Attaching
      <4> QED
        BY <3>1, <4>1, <4>2 DEF Placed
    <3>3. j # 1
      BY <1>2, <1>4, <2>1, <3>2 DEF Locked
    <3> QED
      BY <1>7, <2>1, <3>1, <3>3
  <2> QED
    BY <2>2, <2>3
<1>16. ASSUME NEW t \in Callers, at'[t] \in Battles, at'[t] \notin unsure'
       PROVE  EntryThere(t)' /\ Stores(t)'
  <2>1. PICK c \in Battles : c = at[t] /\ c \notin unsure' /\ at'[t] = c
    BY <1>1, <1>16 DEF callers, locals
  <2>2. EntryThere(t) /\ Stores(t)
    BY <1>11, <2>1 DEF SettledInv
  <2>3. EntryThere(t)'
    BY <1>6, <1>13, <2>1, <2>2 DEF EntryThere, Still
  <2>4. Stores(t)'
    <3> SUFFICES ASSUME pc'[t] = "store", t \notin entry'[c].older, Behind(at[t], found[t])'
                 PROVE  Awaited(at[t])'
      BY <2>1 DEF Stores
    <3>1. pc[t] = "store" /\ kind[t] = "resolver" /\ Behind(c, found[t])
      BY <1>5, <1>6, <2>1 DEF Behind, Still, WatchInv, GuardPlaces
    <3>2. entry'[c] = entry[c] /\ ~(c = b /\ \E s \in d.subs : s.kind = "resolver")
      <4>1. Resolves(t, c)
        BY <2>1, <3>1 DEF Resolves
      <4> QED
        BY <1>11, <1>12, <2>1, <4>1
    <3>3. Awaited(c)
      BY <2>1, <2>2, <3>1, <3>2 DEF Stores
    <3>4. Awaited(c)'
      BY <1>10, <3>2, <3>3
    <3> QED
      BY <2>1, <3>4 DEF Awaited, InChan, InBatch
  <2> QED
    BY <2>3, <2>4
<1> QED
  BY <1>14, <1>15, <1>16 DEF SettledInv

LEMMA SettledStep ==
  WatchInv /\ FlowInv /\ HeardInv /\ HeldInv /\ SettledInv /\ [Next]_vars => SettledInv'
<1> SUFFICES ASSUME WatchInv, FlowInv, HeardInv, HeldInv, SettledInv, [Next]_vars PROVE SettledInv'
  OBVIOUS
<1>1. CASE UNCHANGED vars
  <2>1. FlowStays /\ batch' = batch
    BY <1>1, CalmStays DEF Calm
  <2>2. UNCHANGED <<entry, unsure>> /\ \A u \in Callers : Still(u)
    BY <1>1 DEF vars, shared, callers, locals, Still
  <2>3. \A b \in Battles : EntrySame(b)
    BY <2>2 DEF EntrySame
  <2> QED
    BY <2>1, <2>2, <2>3, SettledCalm
<1>2. CASE Calm
  BY <1>1, <1>2, SettledTimes, SettledResolves, SettledGuards, SettledCalls, SettledReturns DEF Calm
<1> QED
  BY <1>2, NextCases, SettledDirectory, SettledDispatches, SettledDelivers, SettledAttaches,
     SettledInserts

\* When nothing is under way, an entry that answers lookups has the owner of the record:
\* each event that matters reaches the subscription of the entry, from the moment it is
\* made, and a query that an event has overtaken is not stored (onOwnerChange, storeOwner).
\* Like the subscriptions that are served, this is so when no two of them overlap.
THEOREM EntriesSettle == ASSUME "overlap" \notin Faults PROVE Spec => []Settled
<1>1. WatchInv /\ SettledInv => Settled
  <2> SUFFICES ASSUME SettledInv, NEW b \in Battles, b \notin unsure, Up, ~UnderWay(b),
                      Usable(entry[b]), rec[b].owner # None
               PROVE  entry[b].owner = rec[b].owner
    BY DEF Settled, Agrees
  <2>1. ~Awaited(b)
    BY DEF UnderWay, Awaited, InChan, InBatch
  <2>2. Fresh(b)
    BY DEF SettledInv
  <2> QED
    BY <2>1, <2>2 DEF Fresh, Behind, Usable
<1>2. WatchInv /\ HeldInv /\ [Next]_vars => HeldInv'
  BY HeldStep
<1> QED
  BY <1>1, <1>2, InitWatch, InitFlow, InitHeard, InitHeld, InitSettled, WatchStep, FlowStep,
     HeardStep, SettledStep, PTL DEF Spec
===============================================================================
