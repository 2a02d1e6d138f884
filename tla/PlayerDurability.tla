--------------------------- MODULE PlayerDurability ---------------------------
(***************************************************************************)
(* The durability of one player of the game service: the aggregate         *)
(* PlayerActor holds in memory, its snapshot in redis and its document in  *)
(* mongo. The actor serves one message at a time, and every redis or mongo *)
(* call of a handler is a step, so that crashes, failed calls and the      *)
(* expiry of the snapshot fall between any two of them. Players share no   *)
(* state: one is enough.                                                   *)
(*                                                                         *)
(* The data of the aggregate is the number of changes it has been through. *)
(***************************************************************************)
EXTENDS Integers

CONSTANTS
    MaxChanges,   \* bound: changes in a behaviour
    MaxLogins,    \* bound: loads of the player in a behaviour
    StopTries,    \* stopRetryTimes
    Faults,       \* what may go wrong
    None

ASSUME DurabilityAssumption ==
    /\ MaxChanges \in Nat /\ MaxLogins \in Nat /\ StopTries \in Nat \ {0}
    /\ Faults \subseteq {"redis", "mongo", "ambiguous", "flap", "expiry", "idle", "crash", "shutdown"}

NoCRC    == -1
Copy     == [data : Nat, ver : Nat]
Snapshot == [data : Nat, ver : Nat, ttl : BOOLEAN]
Stages   == {"idle", "choose", "overwrite", "backfill", "expire", "flush", "redis",
             "degrade", "save", "persist"}
Player   == [data : Nat, ver : Nat, crc : Nat \cup {NoCRC}]
Handler  == [at : Stages, flow : {"tick", "stop"}, try : 0 .. StopTries,
             mongoDown : BOOLEAN, copy : Snapshot \cup {None}]

ASSUME NoneAssumption == None \notin Snapshot \cup Copy \cup Player

VARIABLES
    mem,      \* PlayerActor.player with lastCRC, or None
    frozen,   \* PlayerActor.frozen
    redis,    \* the snapshot, or None; ttl FALSE is a key that never expires
    mongo,    \* the document, or None before the registration
    op,       \* the handler being run
    logins    \* players loaded so far

vars == <<mem, frozen, redis, mongo, op, logins>>

\* at: the next call of the handler; flow: on whose behalf it flushes; try: of the stop
\* flow; mongoDown: mongo refused the last write of this try; copy: the snapshot a login
\* has read.
Flushing(at, flow, try, down) ==
    [at |-> at, flow |-> flow, try |-> try, mongoDown |-> down, copy |-> None]
Loading(at, rp) ==
    [at |-> at, flow |-> "tick", try |-> 0, mongoDown |-> FALSE, copy |-> rp]
Idle == Flushing("idle", "tick", 0, FALSE)

Init ==
    /\ mem = None /\ frozen = FALSE
    /\ redis = None /\ mongo = None
    /\ op = Idle /\ logins = 0

CopyOf(x) == [data |-> x.data, ver |-> x.ver]
Fresh(x)  == [data |-> x.data, ver |-> x.ver, crc |-> NoCRC]
Leased(x) == [data |-> x.data, ver |-> x.ver, ttl |-> TRUE]
Kept(x)   == [data |-> x.data, ver |-> x.ver, ttl |-> FALSE]

\* A write that fails leaves the store as it was or, when only its answer is lost, with
\* the new value.
RedisFails(new) ==
    /\ "redis" \in Faults
    /\ redis' \in {redis} \cup (IF "ambiguous" \in Faults THEN {new} ELSE {})
MongoFails(new) ==
    /\ "mongo" \in Faults
    /\ mongo' \in {mongo} \cup (IF "ambiguous" \in Faults THEN {new} ELSE {})

-------------------------------------------------------------------------------
(* Register, and Login with PlayerStore.LoadPlayer *)

Register ==
    /\ op = Idle /\ mem = None /\ mongo = None
    /\ mongo' = [data |-> 0, ver |-> 0]
    /\ UNCHANGED <<mem, frozen, redis, op, logins>>

\* The password is checked against the document and the snapshot read. A login that
\* finds the player in memory keeps it and changes nothing.
Login ==
    /\ op = Idle /\ mem = None /\ mongo # None
    /\ logins < MaxLogins
    /\ logins' = logins + 1
    /\ op' = Loading("choose", redis)
    /\ UNCHANGED <<mem, frozen, redis, mongo>>

\* A store that cannot be read refuses the login.
LoginRefused ==
    /\ op.at = "choose" /\ Faults \cap {"redis", "mongo"} # {}
    /\ op' = Idle
    /\ UNCHANGED <<mem, frozen, redis, mongo, logins>>

Loaded(x) == mem' = Fresh(x) /\ frozen' = FALSE /\ op' = Idle

\* Mutant: the snapshot wins whenever there is one.
MongoNewer_RedisFirst(rp) == FALSE

\* The larger persistVersion wins, the snapshot at equality.
MongoNewer(rp) == mongo.ver > rp.ver

LoginChoose ==
    /\ op.at = "choose"
    /\ IF op.copy = None
       THEN Loaded(mongo)
       ELSE /\ op' = Loading(IF MongoNewer(op.copy) THEN "overwrite" ELSE "backfill", op.copy)
            /\ UNCHANGED <<mem, frozen>>
    /\ UNCHANGED <<redis, mongo, logins>>

\* The document wins: it replaces the snapshot, or the login fails.
LoginOverwrite ==
    /\ op.at = "overwrite"
    /\ \/ redis' = Leased(mongo) /\ Loaded(mongo)
       \/ RedisFails(Leased(mongo)) /\ op' = Idle /\ UNCHANGED <<mem, frozen>>
    /\ UNCHANGED <<mongo, logins>>

\* The snapshot wins: it is written to mongo, and the login succeeds either way.
LoginBackfill ==
    LET rp == op.copy IN
    /\ op.at = "backfill"
    /\ \/ /\ mongo' = CopyOf(rp)
          /\ op' = Loading("expire", rp)
          /\ UNCHANGED <<mem, frozen>>
       \/ MongoFails(CopyOf(rp)) /\ Loaded(rp)
    /\ UNCHANGED <<redis, logins>>

\* Once mongo has it, a snapshot that never expired gets its lease back.
LoginExpire ==
    /\ op.at = "expire"
    /\ \/ redis' = IF redis = None THEN None ELSE Leased(redis)
       \/ RedisFails(IF redis = None THEN None ELSE Leased(redis))
    /\ Loaded(op.copy)
    /\ UNCHANGED <<mongo, logins>>

-------------------------------------------------------------------------------
(* Changes of the aggregate, refused while it is frozen *)

\* Mutant: OnBeforeAsk lets changes through while the player is frozen.
Change_Unguarded ==
    /\ op = Idle /\ mem # None
    /\ mem.data < MaxChanges
    /\ mem' = [mem EXCEPT !.data = @ + 1]
    /\ UNCHANGED <<frozen, redis, mongo, op, logins>>

Change ==
    /\ op = Idle /\ mem # None /\ ~frozen
    /\ mem.data < MaxChanges
    /\ mem' = [mem EXCEPT !.data = @ + 1]
    /\ UNCHANGED <<frozen, redis, mongo, op, logins>>

-------------------------------------------------------------------------------
(* FlushPlayer, for the tick (flushOrRetry) and for the stop flow (stopFlush) *)

Dirty == mem.crc # mem.data

\* Where a flush that wrote leaves the handler: a tick is over and thaws the player, the
\* stop flow goes on to mongo whatever redis said.
Flushed ==
    IF op.flow = "tick" THEN op' = Idle /\ frozen' = FALSE
    ELSE op' = [op EXCEPT !.at = "save"] /\ UNCHANGED frozen

Tick ==
    /\ op = Idle /\ mem # None
    /\ op' = Flushing("flush", "tick", 0, FALSE)
    /\ UNCHANGED <<mem, frozen, redis, mongo, logins>>

Logout ==
    /\ op = Idle /\ mem # None
    /\ op' = Flushing("flush", "stop", 1, FALSE)
    /\ UNCHANGED <<mem, frozen, redis, mongo, logins>>

\* Mutant: a dirty aggregate is written under the version it was loaded or flushed with.
Raised_Not == mem

Raised == [mem EXCEPT !.ver = @ + 1]

\* Unchanged data is skipped; otherwise the version is raised before the first write.
FlushBegin ==
    /\ op.at = "flush"
    /\ IF Dirty
       THEN /\ mem' = Raised
            /\ op' = [op EXCEPT !.at = "redis"]
            /\ UNCHANGED frozen
       ELSE Flushed /\ UNCHANGED mem
    /\ UNCHANGED <<redis, mongo, logins>>

FlushRedis ==
    /\ op.at = "redis"
    /\ \/ redis' = Leased(mem) /\ mem' = [mem EXCEPT !.crc = mem.data] /\ Flushed
       \/ RedisFails(Leased(mem)) /\ op' = [op EXCEPT !.at = "degrade"]
             /\ UNCHANGED <<mem, frozen>>
    /\ UNCHANGED <<mongo, logins>>

\* Both stores failed: the version goes back with the flush.
Unraised == [mem EXCEPT !.ver = @ - 1]

\* redis refused: the same version goes to mongo. A tick that only mongo took stops the
\* player, one that nobody took freezes it.
FlushMongo ==
    /\ op.at = "degrade"
    /\ \/ /\ mongo' = CopyOf(mem) /\ mem' = [mem EXCEPT !.crc = mem.data]
          /\ op' = IF op.flow = "tick" THEN Flushing("flush", "stop", 1, FALSE)
                   ELSE [op EXCEPT !.at = "save"]
          /\ UNCHANGED frozen
       \/ /\ MongoFails(CopyOf(mem)) /\ mem' = Unraised
          /\ IF op.flow = "tick" THEN op' = Idle /\ frozen' = TRUE
             ELSE op' = Flushing("save", "stop", op.try, TRUE) /\ UNCHANGED frozen
    /\ UNCHANGED <<redis, logins>>

\* Mutant: a try that failed is not counted.
NextTry_Forever == op.try

NextTry == op.try + 1

LastTry == op.try = StopTries

\* Unless mongo flaps, one that failed the flush does not take the save that follows it.
SaveReaches == ~op.mongoDown \/ "flap" \in Faults

\* The unconditional write to mongo of the stop flow.
StopSave ==
    /\ op.at = "save"
    /\ \/ /\ SaveReaches
          /\ mongo' = CopyOf(mem) /\ mem' = None /\ op' = Idle /\ frozen' = FALSE
       \/ /\ MongoFails(IF SaveReaches THEN CopyOf(mem) ELSE mongo)
          /\ op' = IF LastTry THEN [op EXCEPT !.at = "persist"]
                   ELSE Flushing("flush", "stop", NextTry, FALSE)
          /\ UNCHANGED <<mem, frozen>>
    /\ UNCHANGED <<redis, logins>>

\* Mutant: the snapshot keeps its lease.
PersistSnapshot_Lease == redis

\* PERSIST on the snapshot, whatever it holds.
PersistSnapshot == IF redis = None THEN None ELSE Kept(redis)

StopPersist ==
    /\ op.at = "persist"
    /\ redis' = PersistSnapshot \/ RedisFails(PersistSnapshot)
    /\ mem' = None /\ op' = Idle /\ frozen' = FALSE
    /\ UNCHANGED <<mongo, logins>>

-------------------------------------------------------------------------------
(* The environment *)

\* The snapshot's lease runs out; while the player is in memory only between handlers, when
\* his data has not been written for as long ("idle": unchanged data is not written again).
Expire ==
    /\ "expiry" \in Faults
    /\ mem # None => op = Idle /\ "idle" \in Faults
    /\ redis # None /\ redis.ttl
    /\ redis' = None
    /\ UNCHANGED <<mem, frozen, mongo, op, logins>>

Gone == mem' = None /\ frozen' = FALSE /\ op' = Idle

\* The node dies.
Crash ==
    /\ "crash" \in Faults
    /\ mem # None \/ op # Idle
    /\ Gone
    /\ UNCHANGED <<redis, mongo, logins>>

\* The node is shut down: Runtime.Shutdown kills the actors, and OnStop writes nothing.
Shutdown ==
    /\ "shutdown" \in Faults
    /\ op = Idle /\ mem # None
    /\ Gone
    /\ UNCHANGED <<redis, mongo, logins>>

Serve ==
    \/ LoginChoose \/ LoginOverwrite \/ LoginBackfill \/ LoginExpire
    \/ FlushBegin \/ FlushRedis \/ FlushMongo
    \/ StopSave \/ StopPersist

Next ==
    \/ Register \/ Login \/ LoginRefused
    \/ Change \/ Tick \/ Logout
    \/ Serve
    \/ Expire \/ Crash \/ Shutdown

Spec == Init /\ [][Next]_vars

\* A handler that has been entered runs to its end.
LiveSpec == Spec /\ WF_vars(Serve)

-------------------------------------------------------------------------------
(* Properties *)

TypeOK ==
    /\ mem \in Player \cup {None}
    /\ frozen \in BOOLEAN
    /\ redis \in Snapshot \cup {None}
    /\ mongo \in Copy \cup {None}
    /\ op \in Handler
    /\ logins \in Nat

\* persistVersion orders the copies: of the snapshot and the document, the one with the
\* larger version is not the older one, and equal versions hold equal data, however
\* writes failed, were half answered or were cut short by a crash. Login's choice of a
\* source is only as good as this.
VersionsOrderData ==
    redis # None /\ mongo # None =>
        /\ redis.ver > mongo.ver => redis.data >= mongo.data
        /\ mongo.ver > redis.ver => mongo.data >= redis.data
        /\ mongo.ver = redis.ver => mongo.data = redis.data

\* A login starts from the newest copy there is: it brings no old cache back.
LoginTakesNewest ==
    [][mem = None /\ mem' # None =>
        /\ mem'.data >= mongo.data
        /\ redis # None => mem'.data >= redis.data]_vars

\* No write replaces newer data of a store by older data: flushes, stop writes and the
\* alignment of a login only move a copy forward.
CopiesNeverRegress ==
    [][/\ redis # None /\ redis' # None => redis'.data >= redis.data
       /\ mongo # None => mongo'.data >= mongo.data]_vars

\* What the order rests on. Raised: the version has been raised for the write to come.
\* Held: the data cannot change before a flush succeeds.
IsRaised == op.at \in {"redis", "degrade"}
IsHeld   == frozen \/ op.flow = "stop"

\* A copy is never ahead of the data in memory. It is ahead of the version in memory only
\* when a write whose answer was lost has left the very data in memory there, under the
\* version the next flush will raise to, and that data is held.
Behind(x) ==
    x # None =>
        /\ x.data <= mem.data
        /\ x.ver <= IF IsRaised THEN mem.ver ELSE mem.ver + 1
        /\ IsRaised /\ x.ver = mem.ver => x.data = mem.data
        /\ ~IsRaised /\ x.ver = mem.ver + 1 => x.data = mem.data /\ IsHeld /\ Dirty
        /\ ~Dirty /\ x.ver = mem.ver => x.data = mem.data

\* A login works on the copy it has read: unless its lease has run out meanwhile, redis
\* still holds it.
LoginFormed ==
    /\ mem = None /\ mongo # None
    /\ op.copy = None => op.at = "choose" /\ redis = None
    /\ op.copy # None =>
          /\ op.copy.ver > mongo.ver => op.copy.data >= mongo.data
          /\ mongo.ver > op.copy.ver => mongo.data >= op.copy.data
          /\ mongo.ver = op.copy.ver => mongo.data = op.copy.data
          /\ redis # None => redis.data = op.copy.data /\ redis.ver = op.copy.ver
    /\ op.at = "overwrite" => mongo.ver > op.copy.ver
    /\ op.at = "backfill"  => mongo.ver <= op.copy.ver
    /\ op.at = "expire"    => mongo = CopyOf(op.copy)

FlushFormed ==
    /\ mem # None
    /\ IsRaised => Dirty /\ mem.ver > 0
    /\ op.at \in {"save", "persist"} => op.flow = "stop"
    /\ op.at = "save" /\ ~op.mongoDown => ~Dirty

LoginStages == {"choose", "overwrite", "backfill", "expire"}
FlushStages == {"flush", "redis", "degrade", "save", "persist"}

OrderInv ==
    /\ TypeOK /\ VersionsOrderData
    /\ mem # None \/ redis # None => mongo # None
    /\ op.at = "idle" => op = Idle
    /\ op.at \in LoginStages => LoginFormed
    /\ op.at \in FlushStages => FlushFormed
    /\ mem # None => mem.crc <= mem.data /\ Behind(redis) /\ Behind(mongo)

\* Once the player has logged out, a snapshot that may expire is backed by the document.
OfflineLeaseBacked ==
    op = Idle /\ mem = None /\ redis # None =>
        (redis.ttl => mongo.data >= redis.data)

\* The stop flow ends, whatever the stores do.
StopTerminates == op.flow = "stop" ~> mem = None

\* The calls a stop flow may still make: at most four in each try, and PERSIST.
StageCalls == [flush |-> 4, redis |-> 3, degrade |-> 2, save |-> 1, persist |-> 0]
StopCalls  == 4 * (StopTries - op.try) + StageCalls[op.at]

\* Nothing holds a stop flow up: whatever happens while it runs, answers, refusals and
\* the death of the node, ends it or leaves it fewer calls to make.
StopShortens ==
    [][op.flow = "stop" => mem' = None \/ (op'.flow = "stop" /\ StopCalls' < StopCalls)]_vars

\* The part of the order that no fault breaks: what a handler under way works on is there.
StageInv ==
    /\ TypeOK
    /\ mem # None \/ redis # None => mongo # None
    /\ op.at = "idle" => op = Idle
    /\ op.at \in LoginStages =>
          mongo # None /\ op.flow = "tick" /\ (op.copy = None => op.at = "choose")
    /\ op.at \in FlushStages => mem # None /\ (IsRaised => mem.ver > 0)
    /\ op.flow = "stop" => op.try > 0
===============================================================================
