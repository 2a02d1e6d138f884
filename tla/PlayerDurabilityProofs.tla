------------------------ MODULE PlayerDurabilityProofs ------------------------
(* Proofs about PlayerDurability, for any bounds, any number of tries and every      *)
(* fault but a mongo that takes the save of a try after failing its flush.           *)
EXTENDS PlayerDurability, TLAPS

\* The fault the order does not survive is left out.
NoFlap == "flap" \notin Faults

\* The copies a store, the memory or a handler holds are none of them None.
LEMMA Shapes ==
    ASSUME TypeOK
    PROVE  /\ mem # None =>
                 /\ mem \in Player /\ mem.data \in Nat /\ mem.ver \in Nat
                 /\ mem.crc \in Nat \cup {-1}
           /\ redis # None =>
                 redis \in Snapshot /\ redis.data \in Nat /\ redis.ver \in Nat
           /\ mongo # None => mongo \in Copy /\ mongo.data \in Nat /\ mongo.ver \in Nat
           /\ op.copy # None =>
                 op.copy \in Snapshot /\ op.copy.data \in Nat /\ op.copy.ver \in Nat
<1>1. mem # None =>
          /\ mem \in Player /\ mem.data \in Nat /\ mem.ver \in Nat
          /\ mem.crc \in Nat \cup {-1}
  BY DEF TypeOK, Player, NoCRC
<1>2. redis # None => redis \in Snapshot /\ redis.data \in Nat /\ redis.ver \in Nat
  BY DEF TypeOK, Snapshot
<1>3. mongo # None => mongo \in Copy /\ mongo.data \in Nat /\ mongo.ver \in Nat
  BY DEF TypeOK, Copy
<1>4. op.copy \in Snapshot \cup {None}
  BY DEF TypeOK, Handler
<1>5. op.copy # None =>
          op.copy \in Snapshot /\ op.copy.data \in Nat /\ op.copy.ver \in Nat
  BY <1>4 DEF Snapshot
<1> QED BY <1>1, <1>2, <1>3, <1>5

\* The records the handlers write have the shapes the stores hold.
LEMMA Copies ==
    ASSUME NEW x, x.data \in Nat, x.ver \in Nat
    PROVE  /\ CopyOf(x) \in Copy /\ CopyOf(x) # None
           /\ CopyOf(x).data = x.data /\ CopyOf(x).ver = x.ver
           /\ Fresh(x) \in Player /\ Fresh(x) # None
           /\ Fresh(x).data = x.data /\ Fresh(x).ver = x.ver /\ Fresh(x).crc = -1
           /\ Leased(x) \in Snapshot /\ Leased(x) # None
           /\ Leased(x).data = x.data /\ Leased(x).ver = x.ver
           /\ Kept(x) \in Snapshot /\ Kept(x) # None
           /\ Kept(x).data = x.data /\ Kept(x).ver = x.ver
<1>1. /\ CopyOf(x) \in Copy /\ Fresh(x) \in Player
      /\ Leased(x) \in Snapshot /\ Kept(x) \in Snapshot
  BY DEF CopyOf, Fresh, Leased, Kept, Copy, Player, Snapshot, NoCRC
<1>2. None \notin Snapshot /\ None \notin Copy /\ None \notin Player
  BY NoneAssumption
<1>3. /\ CopyOf(x).data = x.data /\ CopyOf(x).ver = x.ver
      /\ Fresh(x).data = x.data /\ Fresh(x).ver = x.ver /\ Fresh(x).crc = -1
      /\ Leased(x).data = x.data /\ Leased(x).ver = x.ver
      /\ Kept(x).data = x.data /\ Kept(x).ver = x.ver
  BY DEF CopyOf, Fresh, Leased, Kept, NoCRC
<1> QED BY <1>1, <1>2, <1>3

\* A registration's document.
LEMMA NewDocument ==
    /\ [data |-> 0, ver |-> 0] \in Copy /\ [data |-> 0, ver |-> 0] # None
    /\ [data |-> 0, ver |-> 0].data = 0 /\ [data |-> 0, ver |-> 0].ver = 0
BY NoneAssumption DEF Copy

\* The handler at rest, loading, and moved to another stage.
LEMMA IdleFormed ==
    /\ Idle \in Handler /\ Idle.at = "idle" /\ Idle.flow = "tick" /\ Idle.copy = None
<1>1. 0 \in 0 .. StopTries
  BY DurabilityAssumption
<1> QED BY <1>1 DEF Idle, Flushing, Handler, Stages

LEMMA LoadingFormed ==
    ASSUME NEW at \in Stages, NEW rp \in Snapshot \cup {None}
    PROVE  /\ Loading(at, rp) \in Handler
           /\ Loading(at, rp).at = at /\ Loading(at, rp).copy = rp
           /\ Loading(at, rp).flow = "tick"
<1>1. 0 \in 0 .. StopTries
  BY DurabilityAssumption
<1> QED BY <1>1 DEF Loading, Handler

LEMMA MovedFormed ==
    ASSUME NEW o \in Handler, NEW at \in Stages
    PROVE  /\ [o EXCEPT !.at = at] \in Handler
           /\ [o EXCEPT !.at = at].at = at /\ [o EXCEPT !.at = at].flow = o.flow
           /\ [o EXCEPT !.at = at].mongoDown = o.mongoDown
BY DEF Handler

\* The aggregate with one field replaced.
LEMMA VerReplaced ==
    ASSUME NEW m \in Player, NEW v \in Nat
    PROVE  /\ [m EXCEPT !.ver = v] \in Player
           /\ [m EXCEPT !.ver = v].data = m.data /\ [m EXCEPT !.ver = v].crc = m.crc
           /\ [m EXCEPT !.ver = v].ver = v
BY DEF Player

LEMMA DataReplaced ==
    ASSUME NEW m \in Player, NEW d \in Nat
    PROVE  /\ [m EXCEPT !.data = d] \in Player
           /\ [m EXCEPT !.data = d].ver = m.ver /\ [m EXCEPT !.data = d].crc = m.crc
           /\ [m EXCEPT !.data = d].data = d
BY DEF Player

LEMMA CRCReplaced ==
    ASSUME NEW m \in Player, NEW d \in Nat
    PROVE  /\ [m EXCEPT !.crc = d] \in Player
           /\ [m EXCEPT !.crc = d].data = m.data /\ [m EXCEPT !.crc = d].ver = m.ver
           /\ [m EXCEPT !.crc = d].crc = d
BY DEF Player

\* A save that fails has reached mongo or not.
LEMMA FailedSave ==
    MongoFails(IF SaveReaches THEN CopyOf(mem) ELSE mongo) =>
        mongo' = mongo \/ (SaveReaches /\ mongo' = CopyOf(mem))
<1>1. \A x : MongoFails(x) => mongo' = mongo \/ mongo' = x
  BY DEF MongoFails
<1>2. CASE SaveReaches
  BY <1>1, <1>2
<1>3. CASE ~SaveReaches
  BY <1>1, <1>3
<1> QED BY <1>2, <1>3

LEMMA NotNone == \A m \in Player : m # None
BY NoneAssumption

\* Every step keeps the order.
LEMMA OrderInductive == NoFlap /\ OrderInv /\ [Next]_vars => OrderInv'
<1> SUFFICES ASSUME NoFlap, OrderInv, [Next]_vars PROVE OrderInv'
  OBVIOUS
<1>0. /\ TypeOK /\ VersionsOrderData
      /\ mem # None \/ redis # None => mongo # None
      /\ op \in Handler /\ op.flow \in {"tick", "stop"} /\ op.try \in 0 .. StopTries
      /\ op.at \in Stages /\ op.mongoDown \in BOOLEAN
      /\ op.copy \in Snapshot \cup {None}
      /\ frozen \in BOOLEAN /\ logins \in Nat
      /\ redis \in Snapshot \cup {None} /\ mongo \in Copy \cup {None}
      /\ mem \in Player \cup {None}
  BY DEF OrderInv, TypeOK, Handler
<1>a. /\ 0 \in 0 .. StopTries /\ 1 \in 0 .. StopTries
      /\ {"idle", "choose", "overwrite", "backfill", "expire", "flush", "redis",
          "degrade", "save", "persist"} \subseteq Stages
  BY DurabilityAssumption DEF Stages
<1>b. /\ mem # None =>
            mem.crc <= mem.data /\ Behind(redis) /\ Behind(mongo)
      /\ op.at = "idle" => op = Idle
      /\ op.at \in {"choose", "overwrite", "backfill", "expire"} => LoginFormed
      /\ op.at \in {"flush", "redis", "degrade", "save", "persist"} => FlushFormed
  BY DEF OrderInv, LoginStages, FlushStages

<1>1. CASE Register
  <2>0. /\ mem = None /\ mongo = None /\ op = Idle /\ redis = None
    BY <1>0, <1>b, <1>1, Shapes DEF Register, LoginFormed, FlushFormed, IsRaised, Idle, Flushing
  <2>1. ASSUME op' = op,
               mem' = mem,
               frozen' = frozen,
               redis' = redis,
               mongo' = [data |-> 0, ver |-> 0],
               logins' = logins
        PROVE  OrderInv'
    <3>a. mongo' \in Copy /\ mongo' # None /\ mongo'.data = 0 /\ mongo'.ver = 0
      BY <2>1, NewDocument
    <3>1. TypeOK'
      BY <1>0, <1>a, <2>1, <3>a DEF TypeOK
    <3>2. VersionsOrderData'
      BY <1>0, <2>0, Shapes, <2>1, <3>a DEF VersionsOrderData, Behind, IsRaised, Dirty, LoginFormed
    <3>3. (mem # None \/ redis # None => mongo # None)'
      BY <1>0, <2>0, <2>1, <3>a
    <3>4. (op.at = "idle" => op = Idle)'
      BY <1>b, IdleFormed, <2>1, <3>a
    <3>5. (op.at \in LoginStages => LoginFormed)'
      BY <1>0, <1>b, <2>0, Shapes, <2>1, <3>a DEF LoginStages, LoginFormed, VersionsOrderData
    <3>6. (op.at \in FlushStages => FlushFormed)'
      BY <1>0, <1>b, <2>0, Shapes, <2>1, <3>a DEF FlushStages, FlushFormed, IsRaised, Dirty
    <3>7. (mem # None => mem.crc <= mem.data /\ Behind(redis) /\ Behind(mongo))'
      BY <1>0, <2>0, Shapes, <2>1, <3>a DEF Behind, IsRaised, IsHeld, Dirty, LoginFormed, VersionsOrderData
    <3> QED BY <3>1, <3>2, <3>3, <3>4, <3>5, <3>6, <3>7 DEF OrderInv
  <2> QED BY <1>0, <1>b, <1>1, <2>0, <2>1 DEF Register
<1>2. CASE Login
  <2>0. /\ mem = None /\ mongo # None
    BY <1>0, <1>b, <1>2, Shapes DEF Login, LoginFormed, FlushFormed, IsRaised, Idle, Flushing
  <2>1. ASSUME op' = Loading("choose", redis),
               mem' = mem,
               frozen' = frozen,
               redis' = redis,
               mongo' = mongo,
               logins' = logins + 1
        PROVE  OrderInv'
    <3>a. op' \in Handler /\ op'.at = "choose" /\ op'.copy = redis /\ op'.flow = "tick"
      BY <2>1, LoadingFormed, <1>0, <1>a
    <3>1. TypeOK'
      BY <1>0, <1>a, <2>1, <3>a DEF TypeOK
    <3>2. VersionsOrderData'
      BY <1>0, <2>0, Shapes, <2>1, <3>a DEF VersionsOrderData, Behind, IsRaised, Dirty, LoginFormed
    <3>3. (mem # None \/ redis # None => mongo # None)'
      BY <1>0, <2>0, <2>1, <3>a
    <3>4. (op.at = "idle" => op = Idle)'
      BY <1>b, IdleFormed, <2>1, <3>a
    <3>5. (op.at \in LoginStages => LoginFormed)'
      BY <1>0, <1>b, <2>0, Shapes, <2>1, <3>a DEF LoginStages, LoginFormed, VersionsOrderData
    <3>6. (op.at \in FlushStages => FlushFormed)'
      BY <1>0, <1>b, <2>0, Shapes, <2>1, <3>a DEF FlushStages
    <3>7. (mem # None => mem.crc <= mem.data /\ Behind(redis) /\ Behind(mongo))'
      BY <1>0, <2>0, Shapes, <2>1, <3>a DEF Behind, IsRaised, IsHeld, Dirty, LoginFormed, VersionsOrderData
    <3> QED BY <3>1, <3>2, <3>3, <3>4, <3>5, <3>6, <3>7 DEF OrderInv
  <2> QED BY <1>0, <1>b, <1>2, <2>0, <2>1 DEF Login
<1>3. CASE LoginRefused
  <2>0. /\ LoginFormed /\ mem = None /\ mongo # None
        /\ op.copy # None => op.copy.data \in Nat /\ op.copy.ver \in Nat
        /\ mongo.data \in Nat /\ mongo.ver \in Nat
        /\ op.at = "choose"
    BY <1>0, <1>b, <1>3, Shapes DEF LoginRefused, LoginFormed, FlushFormed, IsRaised
  <2>1. ASSUME op' = Idle,
               mem' = mem,
               frozen' = frozen,
               redis' = redis,
               mongo' = mongo,
               logins' = logins
        PROVE  OrderInv'
    <3>a. op' \in Handler /\ op' = Idle /\ op'.at = "idle" /\ op'.flow = "tick"
      BY <2>1, IdleFormed
    <3>1. TypeOK'
      BY <1>0, <1>a, <2>1, <3>a DEF TypeOK
    <3>2. VersionsOrderData'
      BY <1>0, <2>0, Shapes, <2>1, <3>a DEF VersionsOrderData, Behind, IsRaised, Dirty, LoginFormed
    <3>3. (mem # None \/ redis # None => mongo # None)'
      BY <1>0, <2>0, <2>1, <3>a
    <3>4. (op.at = "idle" => op = Idle)'
      BY <1>b, IdleFormed, <2>1, <3>a
    <3>5. (op.at \in LoginStages => LoginFormed)'
      BY <1>0, <1>b, <2>0, Shapes, <2>1, <3>a DEF LoginStages
    <3>6. (op.at \in FlushStages => FlushFormed)'
      BY <1>0, <1>b, <2>0, Shapes, <2>1, <3>a DEF FlushStages
    <3>7. (mem # None => mem.crc <= mem.data /\ Behind(redis) /\ Behind(mongo))'
      BY <1>0, <2>0, Shapes, <2>1, <3>a DEF Behind, IsRaised, IsHeld, Dirty, LoginFormed, VersionsOrderData
    <3> QED BY <3>1, <3>2, <3>3, <3>4, <3>5, <3>6, <3>7 DEF OrderInv
  <2> QED BY <1>0, <1>b, <1>3, <2>0, <2>1 DEF LoginRefused
<1>4. CASE LoginChoose
  <2>0. /\ LoginFormed /\ mem = None /\ mongo # None
        /\ op.copy # None => op.copy.data \in Nat /\ op.copy.ver \in Nat
        /\ mongo.data \in Nat /\ mongo.ver \in Nat
        /\ op.at = "choose"
    BY <1>0, <1>b, <1>4, Shapes DEF LoginChoose, LoginFormed, FlushFormed, IsRaised
  <2>1. ASSUME op.copy = None,
               op' = Idle,
               mem' = Fresh(mongo),
               frozen' = FALSE,
               redis' = redis,
               mongo' = mongo,
               logins' = logins
        PROVE  OrderInv'
    <3>a. op' \in Handler /\ op' = Idle /\ op'.at = "idle" /\ op'.flow = "tick"
      BY <2>1, IdleFormed
    <3>b. mem' \in Player /\ mem' # None
            /\ mem'.data = mongo.data /\ mem'.ver = mongo.ver /\ mem'.crc = -1
      BY <2>1, Copies, Shapes, <1>0, <2>0
    <3>1. TypeOK'
      BY <1>0, <1>a, <2>1, <3>a, <3>b DEF TypeOK
    <3>2. VersionsOrderData'
      BY <1>0, <2>0, Shapes, <2>1, <3>a, <3>b DEF VersionsOrderData, Behind, IsRaised, Dirty, LoginFormed
    <3>3. (mem # None \/ redis # None => mongo # None)'
      BY <1>0, <2>0, <2>1, <3>a, <3>b
    <3>4. (op.at = "idle" => op = Idle)'
      BY <1>b, IdleFormed, <2>1, <3>a, <3>b
    <3>5. (op.at \in LoginStages => LoginFormed)'
      BY <1>0, <1>b, <2>0, Shapes, <2>1, <3>a, <3>b DEF LoginStages
    <3>6. (op.at \in FlushStages => FlushFormed)'
      BY <1>0, <1>b, <2>0, Shapes, <2>1, <3>a, <3>b DEF FlushStages
    <3>7. (mem # None => mem.crc <= mem.data /\ Behind(redis) /\ Behind(mongo))'
      BY <1>0, <2>0, Shapes, <2>1, <3>a, <3>b DEF Behind, IsRaised, IsHeld, Dirty, LoginFormed, VersionsOrderData
    <3> QED BY <3>1, <3>2, <3>3, <3>4, <3>5, <3>6, <3>7 DEF OrderInv
  <2>2. ASSUME op.copy # None /\ mongo.ver > op.copy.ver,
               op' = Loading("overwrite", op.copy),
               mem' = mem,
               frozen' = frozen,
               redis' = redis,
               mongo' = mongo,
               logins' = logins
        PROVE  OrderInv'
    <3>a. op' \in Handler /\ op'.at = "overwrite" /\ op'.copy = op.copy /\ op'.flow = "tick"
      BY <2>2, LoadingFormed, <1>0, <1>a
    <3>1. TypeOK'
      BY <1>0, <1>a, <2>2, <3>a DEF TypeOK
    <3>2. VersionsOrderData'
      BY <1>0, <2>0, Shapes, <2>2, <3>a DEF VersionsOrderData, Behind, IsRaised, Dirty, LoginFormed
    <3>3. (mem # None \/ redis # None => mongo # None)'
      BY <1>0, <2>0, <2>2, <3>a
    <3>4. (op.at = "idle" => op = Idle)'
      BY <1>b, IdleFormed, <2>2, <3>a
    <3>5. (op.at \in LoginStages => LoginFormed)'
      BY <1>0, <1>b, <2>0, Shapes, <2>2, <3>a DEF LoginStages, LoginFormed, VersionsOrderData
    <3>6. (op.at \in FlushStages => FlushFormed)'
      BY <1>0, <1>b, <2>0, Shapes, <2>2, <3>a DEF FlushStages
    <3>7. (mem # None => mem.crc <= mem.data /\ Behind(redis) /\ Behind(mongo))'
      BY <1>0, <2>0, Shapes, <2>2, <3>a DEF Behind, IsRaised, IsHeld, Dirty, LoginFormed, VersionsOrderData
    <3> QED BY <3>1, <3>2, <3>3, <3>4, <3>5, <3>6, <3>7 DEF OrderInv
  <2>3. ASSUME op.copy # None /\ ~(mongo.ver > op.copy.ver),
               op' = Loading("backfill", op.copy),
               mem' = mem,
               frozen' = frozen,
               redis' = redis,
               mongo' = mongo,
               logins' = logins
        PROVE  OrderInv'
    <3>a. op' \in Handler /\ op'.at = "backfill" /\ op'.copy = op.copy /\ op'.flow = "tick"
      BY <2>3, LoadingFormed, <1>0, <1>a
    <3>1. TypeOK'
      BY <1>0, <1>a, <2>3, <3>a DEF TypeOK
    <3>2. VersionsOrderData'
      BY <1>0, <2>0, Shapes, <2>3, <3>a DEF VersionsOrderData, Behind, IsRaised, Dirty, LoginFormed
    <3>3. (mem # None \/ redis # None => mongo # None)'
      BY <1>0, <2>0, <2>3, <3>a
    <3>4. (op.at = "idle" => op = Idle)'
      BY <1>b, IdleFormed, <2>3, <3>a
    <3>5. (op.at \in LoginStages => LoginFormed)'
      BY <1>0, <1>b, <2>0, Shapes, <2>3, <3>a DEF LoginStages, LoginFormed, VersionsOrderData
    <3>6. (op.at \in FlushStages => FlushFormed)'
      BY <1>0, <1>b, <2>0, Shapes, <2>3, <3>a DEF FlushStages
    <3>7. (mem # None => mem.crc <= mem.data /\ Behind(redis) /\ Behind(mongo))'
      BY <1>0, <2>0, Shapes, <2>3, <3>a DEF Behind, IsRaised, IsHeld, Dirty, LoginFormed, VersionsOrderData
    <3> QED BY <3>1, <3>2, <3>3, <3>4, <3>5, <3>6, <3>7 DEF OrderInv
  <2> QED BY <1>0, <1>b, <1>4, <2>0, <2>1, <2>2, <2>3 DEF LoginChoose, Loaded, MongoNewer
<1>5. CASE LoginOverwrite
  <2>0. /\ LoginFormed /\ mem = None /\ mongo # None
        /\ op.copy # None => op.copy.data \in Nat /\ op.copy.ver \in Nat
        /\ mongo.data \in Nat /\ mongo.ver \in Nat
        /\ op.at = "overwrite" /\ op.copy # None /\ mongo.ver > op.copy.ver
    BY <1>0, <1>b, <1>5, Shapes DEF LoginOverwrite, LoginFormed, FlushFormed, IsRaised
  <2>1. ASSUME op' = Idle,
               mem' = Fresh(mongo),
               frozen' = FALSE,
               redis' = Leased(mongo),
               mongo' = mongo,
               logins' = logins
        PROVE  OrderInv'
    <3>a. op' \in Handler /\ op' = Idle /\ op'.at = "idle" /\ op'.flow = "tick"
      BY <2>1, IdleFormed
    <3>b. mem' \in Player /\ mem' # None
            /\ mem'.data = mongo.data /\ mem'.ver = mongo.ver /\ mem'.crc = -1
      BY <2>1, Copies, Shapes, <1>0, <2>0
    <3>c. redis' \in Snapshot /\ redis' # None /\ redis'.data = mongo.data /\ redis'.ver = mongo.ver
      BY <2>1, Copies, Shapes, <1>0, <2>0
    <3>1. TypeOK'
      BY <1>0, <1>a, <2>1, <3>a, <3>b, <3>c DEF TypeOK
    <3>2. VersionsOrderData'
      BY <1>0, <2>0, Shapes, <2>1, <3>a, <3>b, <3>c DEF VersionsOrderData, Behind, IsRaised, Dirty, LoginFormed
    <3>3. (mem # None \/ redis # None => mongo # None)'
      BY <1>0, <2>0, <2>1, <3>a, <3>b, <3>c
    <3>4. (op.at = "idle" => op = Idle)'
      BY <1>b, IdleFormed, <2>1, <3>a, <3>b, <3>c
    <3>5. (op.at \in LoginStages => LoginFormed)'
      BY <1>0, <1>b, <2>0, Shapes, <2>1, <3>a, <3>b, <3>c DEF LoginStages
    <3>6. (op.at \in FlushStages => FlushFormed)'
      BY <1>0, <1>b, <2>0, Shapes, <2>1, <3>a, <3>b, <3>c DEF FlushStages
    <3>7. (mem # None => mem.crc <= mem.data /\ Behind(redis) /\ Behind(mongo))'
      BY <1>0, <2>0, Shapes, <2>1, <3>a, <3>b, <3>c DEF Behind, IsRaised, IsHeld, Dirty, LoginFormed, VersionsOrderData
    <3> QED BY <3>1, <3>2, <3>3, <3>4, <3>5, <3>6, <3>7 DEF OrderInv
  <2>2. ASSUME op' = Idle,
               mem' = mem,
               frozen' = frozen,
               redis' \in {redis, Leased(mongo)},
               mongo' = mongo,
               logins' = logins
        PROVE  OrderInv'
    <3>a. op' \in Handler /\ op' = Idle /\ op'.at = "idle" /\ op'.flow = "tick"
      BY <2>2, IdleFormed
    <3>b. \/ redis' = redis
            \/ /\ redis' \in Snapshot /\ redis' # None
               /\ redis'.data = mongo.data /\ redis'.ver = mongo.ver
      BY <2>2, Copies, Shapes, <1>0, <2>0
    <3>1. TypeOK'
      BY <1>0, <1>a, <2>2, <3>a, <3>b DEF TypeOK
    <3>2. VersionsOrderData'
      BY <1>0, <2>0, Shapes, <2>2, <3>a, <3>b DEF VersionsOrderData, Behind, IsRaised, Dirty, LoginFormed
    <3>3. (mem # None \/ redis # None => mongo # None)'
      BY <1>0, <2>0, <2>2, <3>a, <3>b
    <3>4. (op.at = "idle" => op = Idle)'
      BY <1>b, IdleFormed, <2>2, <3>a, <3>b
    <3>5. (op.at \in LoginStages => LoginFormed)'
      BY <1>0, <1>b, <2>0, Shapes, <2>2, <3>a, <3>b DEF LoginStages
    <3>6. (op.at \in FlushStages => FlushFormed)'
      BY <1>0, <1>b, <2>0, Shapes, <2>2, <3>a, <3>b DEF FlushStages
    <3>7. (mem # None => mem.crc <= mem.data /\ Behind(redis) /\ Behind(mongo))'
      BY <1>0, <2>0, Shapes, <2>2, <3>a, <3>b DEF Behind, IsRaised, IsHeld, Dirty, LoginFormed, VersionsOrderData
    <3> QED BY <3>1, <3>2, <3>3, <3>4, <3>5, <3>6, <3>7 DEF OrderInv
  <2> QED BY <1>0, <1>b, <1>5, <2>0, <2>1, <2>2 DEF LoginOverwrite, Loaded, RedisFails
<1>6. CASE LoginBackfill
  <2>0. /\ LoginFormed /\ mem = None /\ mongo # None
        /\ op.copy # None => op.copy.data \in Nat /\ op.copy.ver \in Nat
        /\ mongo.data \in Nat /\ mongo.ver \in Nat
        /\ op.at = "backfill" /\ op.copy # None /\ mongo.ver <= op.copy.ver
    BY <1>0, <1>b, <1>6, Shapes DEF LoginBackfill, LoginFormed, FlushFormed, IsRaised
  <2>1. ASSUME op' = Loading("expire", op.copy),
               mem' = mem,
               frozen' = frozen,
               redis' = redis,
               mongo' = CopyOf(op.copy),
               logins' = logins
        PROVE  OrderInv'
    <3>a. op' \in Handler /\ op'.at = "expire" /\ op'.copy = op.copy /\ op'.flow = "tick"
      BY <2>1, LoadingFormed, <1>0, <1>a
    <3>b. mongo' \in Copy /\ mongo' # None /\ mongo'.data = op.copy.data /\ mongo'.ver = op.copy.ver
      BY <2>1, Copies, Shapes, <1>0, <2>0
    <3>1. TypeOK'
      BY <1>0, <1>a, <2>1, <3>a, <3>b DEF TypeOK
    <3>2. VersionsOrderData'
      BY <1>0, <2>0, Shapes, <2>1, <3>a, <3>b DEF VersionsOrderData, Behind, IsRaised, Dirty, LoginFormed
    <3>3. (mem # None \/ redis # None => mongo # None)'
      BY <1>0, <2>0, <2>1, <3>a, <3>b
    <3>4. (op.at = "idle" => op = Idle)'
      BY <1>b, IdleFormed, <2>1, <3>a, <3>b
    <3>5. (op.at \in LoginStages => LoginFormed)'
      BY <1>0, <1>b, <2>0, Shapes, <2>1, <3>a, <3>b DEF LoginStages, LoginFormed, VersionsOrderData
    <3>6. (op.at \in FlushStages => FlushFormed)'
      BY <1>0, <1>b, <2>0, Shapes, <2>1, <3>a, <3>b DEF FlushStages
    <3>7. (mem # None => mem.crc <= mem.data /\ Behind(redis) /\ Behind(mongo))'
      BY <1>0, <2>0, Shapes, <2>1, <3>a, <3>b DEF Behind, IsRaised, IsHeld, Dirty, LoginFormed, VersionsOrderData
    <3> QED BY <3>1, <3>2, <3>3, <3>4, <3>5, <3>6, <3>7 DEF OrderInv
  <2>2. ASSUME op' = Idle,
               mem' = Fresh(op.copy),
               frozen' = FALSE,
               redis' = redis,
               mongo' \in {mongo, CopyOf(op.copy)},
               logins' = logins
        PROVE  OrderInv'
    <3>a. op' \in Handler /\ op' = Idle /\ op'.at = "idle" /\ op'.flow = "tick"
      BY <2>2, IdleFormed
    <3>b. mem' \in Player /\ mem' # None
            /\ mem'.data = op.copy.data /\ mem'.ver = op.copy.ver /\ mem'.crc = -1
      BY <2>2, Copies, Shapes, <1>0, <2>0
    <3>c. \/ mongo' = mongo
            \/ /\ mongo' \in Copy /\ mongo' # None
               /\ mongo'.data = op.copy.data /\ mongo'.ver = op.copy.ver
      BY <2>2, Copies, Shapes, <1>0, <2>0
    <3>1. TypeOK'
      BY <1>0, <1>a, <2>2, <3>a, <3>b, <3>c DEF TypeOK
    <3>2. VersionsOrderData'
      BY <1>0, <2>0, Shapes, <2>2, <3>a, <3>b, <3>c DEF VersionsOrderData, Behind, IsRaised, Dirty, LoginFormed
    <3>3. (mem # None \/ redis # None => mongo # None)'
      BY <1>0, <2>0, <2>2, <3>a, <3>b, <3>c
    <3>4. (op.at = "idle" => op = Idle)'
      BY <1>b, IdleFormed, <2>2, <3>a, <3>b, <3>c
    <3>5. (op.at \in LoginStages => LoginFormed)'
      BY <1>0, <1>b, <2>0, Shapes, <2>2, <3>a, <3>b, <3>c DEF LoginStages
    <3>6. (op.at \in FlushStages => FlushFormed)'
      BY <1>0, <1>b, <2>0, Shapes, <2>2, <3>a, <3>b, <3>c DEF FlushStages
    <3>7. (mem # None => mem.crc <= mem.data /\ Behind(redis) /\ Behind(mongo))'
      BY <1>0, <2>0, Shapes, <2>2, <3>a, <3>b, <3>c DEF Behind, IsRaised, IsHeld, Dirty, LoginFormed, VersionsOrderData
    <3> QED BY <3>1, <3>2, <3>3, <3>4, <3>5, <3>6, <3>7 DEF OrderInv
  <2> QED BY <1>0, <1>b, <1>6, <2>0, <2>1, <2>2 DEF LoginBackfill, Loaded, MongoFails
<1>7. CASE LoginExpire
  <2>0. /\ LoginFormed /\ mem = None /\ mongo # None
        /\ op.copy # None => op.copy.data \in Nat /\ op.copy.ver \in Nat
        /\ mongo.data \in Nat /\ mongo.ver \in Nat
        /\ op.at = "expire" /\ op.copy # None
        /\ mongo.data = op.copy.data /\ mongo.ver = op.copy.ver
    BY <1>0, <1>b, <1>7, Shapes DEF LoginExpire, LoginFormed, FlushFormed, IsRaised, CopyOf
  <2>1. ASSUME redis = None,
               op' = Idle,
               mem' = Fresh(op.copy),
               frozen' = FALSE,
               redis' = None,
               mongo' = mongo,
               logins' = logins
        PROVE  OrderInv'
    <3>a. op' \in Handler /\ op' = Idle /\ op'.at = "idle" /\ op'.flow = "tick"
      BY <2>1, IdleFormed
    <3>b. mem' \in Player /\ mem' # None
            /\ mem'.data = op.copy.data /\ mem'.ver = op.copy.ver /\ mem'.crc = -1
      BY <2>1, Copies, Shapes, <1>0, <2>0
    <3>1. TypeOK'
      BY <1>0, <1>a, <2>1, <3>a, <3>b DEF TypeOK
    <3>2. VersionsOrderData'
      BY <1>0, <2>0, Shapes, <2>1, <3>a, <3>b DEF VersionsOrderData, Behind, IsRaised, Dirty, LoginFormed
    <3>3. (mem # None \/ redis # None => mongo # None)'
      BY <1>0, <2>0, <2>1, <3>a, <3>b
    <3>4. (op.at = "idle" => op = Idle)'
      BY <1>b, IdleFormed, <2>1, <3>a, <3>b
    <3>5. (op.at \in LoginStages => LoginFormed)'
      BY <1>0, <1>b, <2>0, Shapes, <2>1, <3>a, <3>b DEF LoginStages
    <3>6. (op.at \in FlushStages => FlushFormed)'
      BY <1>0, <1>b, <2>0, Shapes, <2>1, <3>a, <3>b DEF FlushStages
    <3>7. (mem # None => mem.crc <= mem.data /\ Behind(redis) /\ Behind(mongo))'
      BY <1>0, <2>0, Shapes, <2>1, <3>a, <3>b DEF Behind, IsRaised, IsHeld, Dirty, LoginFormed, VersionsOrderData
    <3> QED BY <3>1, <3>2, <3>3, <3>4, <3>5, <3>6, <3>7 DEF OrderInv
  <2>2. ASSUME redis # None,
               op' = Idle,
               mem' = Fresh(op.copy),
               frozen' = FALSE,
               redis' \in {redis, Leased(redis)},
               mongo' = mongo,
               logins' = logins
        PROVE  OrderInv'
    <3>a. op' \in Handler /\ op' = Idle /\ op'.at = "idle" /\ op'.flow = "tick"
      BY <2>2, IdleFormed
    <3>b. mem' \in Player /\ mem' # None
            /\ mem'.data = op.copy.data /\ mem'.ver = op.copy.ver /\ mem'.crc = -1
      BY <2>2, Copies, Shapes, <1>0, <2>0
    <3>c. redis' \in Snapshot /\ redis' # None
            /\ redis'.data = redis.data /\ redis'.ver = redis.ver
      BY <2>2, Copies, Shapes, <1>0, <2>0
    <3>1. TypeOK'
      BY <1>0, <1>a, <2>2, <3>a, <3>b, <3>c DEF TypeOK
    <3>2. VersionsOrderData'
      BY <1>0, <2>0, Shapes, <2>2, <3>a, <3>b, <3>c DEF VersionsOrderData, Behind, IsRaised, Dirty, LoginFormed
    <3>3. (mem # None \/ redis # None => mongo # None)'
      BY <1>0, <2>0, <2>2, <3>a, <3>b, <3>c
    <3>4. (op.at = "idle" => op = Idle)'
      BY <1>b, IdleFormed, <2>2, <3>a, <3>b, <3>c
    <3>5. (op.at \in LoginStages => LoginFormed)'
      BY <1>0, <1>b, <2>0, Shapes, <2>2, <3>a, <3>b, <3>c DEF LoginStages
    <3>6. (op.at \in FlushStages => FlushFormed)'
      BY <1>0, <1>b, <2>0, Shapes, <2>2, <3>a, <3>b, <3>c DEF FlushStages
    <3>7. (mem # None => mem.crc <= mem.data /\ Behind(redis) /\ Behind(mongo))'
      BY <1>0, <2>0, Shapes, <2>2, <3>a, <3>b, <3>c DEF Behind, IsRaised, IsHeld, Dirty, LoginFormed, VersionsOrderData
    <3> QED BY <3>1, <3>2, <3>3, <3>4, <3>5, <3>6, <3>7 DEF OrderInv
  <2> QED BY <1>0, <1>b, <1>7, <2>0, <2>1, <2>2 DEF LoginExpire, Loaded, RedisFails
<1>8. CASE Change
  <2>0. /\ mem \in Player /\ mem # None /\ mongo # None
        /\ mem.crc <= mem.data /\ Behind(redis) /\ Behind(mongo)
        /\ op = Idle /\ op.at = "idle" /\ op.flow = "tick" /\ ~frozen
    BY <1>0, <1>b, <1>8, Shapes DEF Change, LoginFormed, FlushFormed, IsRaised, Idle, Flushing
  <2>1. ASSUME op' = op,
               mem' = [mem EXCEPT !.data = @ + 1],
               frozen' = frozen,
               redis' = redis,
               mongo' = mongo,
               logins' = logins
        PROVE  OrderInv'
    <3>a. mem' \in Player /\ mem' # None
            /\ mem'.data = mem.data + 1 /\ mem'.crc = mem.crc /\ mem'.ver = mem.ver
      BY <2>1, DataReplaced, NotNone, Shapes, <1>0, <2>0
    <3>1. TypeOK'
      BY <1>0, <1>a, <2>1, <3>a DEF TypeOK
    <3>2. VersionsOrderData'
      BY <1>0, <2>0, Shapes, <2>1, <3>a DEF VersionsOrderData, Behind, IsRaised, Dirty, LoginFormed
    <3>3. (mem # None \/ redis # None => mongo # None)'
      BY <1>0, <2>0, <2>1, <3>a
    <3>4. (op.at = "idle" => op = Idle)'
      BY <1>b, IdleFormed, <2>1, <3>a
    <3>5. (op.at \in LoginStages => LoginFormed)'
      BY <1>0, <1>b, <2>0, Shapes, <2>1, <3>a DEF LoginStages, LoginFormed, VersionsOrderData
    <3>6. (op.at \in FlushStages => FlushFormed)'
      BY <1>0, <1>b, <2>0, Shapes, <2>1, <3>a DEF FlushStages, FlushFormed, IsRaised, Dirty
    <3>7. (mem # None => mem.crc <= mem.data /\ Behind(redis) /\ Behind(mongo))'
      BY <1>0, <2>0, Shapes, <2>1, <3>a DEF Behind, IsRaised, IsHeld, Dirty, LoginFormed, VersionsOrderData
    <3> QED BY <3>1, <3>2, <3>3, <3>4, <3>5, <3>6, <3>7 DEF OrderInv
  <2> QED BY <1>0, <1>b, <1>8, <2>0, <2>1 DEF Change
<1>9. CASE Tick
  <2>0. /\ mem \in Player /\ mem # None /\ mongo # None
        /\ mem.crc <= mem.data /\ Behind(redis) /\ Behind(mongo)
        /\ op = Idle /\ op.at = "idle" /\ op.flow = "tick"
    BY <1>0, <1>b, <1>9, Shapes DEF Tick, LoginFormed, FlushFormed, IsRaised, Idle, Flushing
  <2>1. ASSUME op' = [at |-> "flush", flow |-> "tick", try |-> 0, mongoDown |-> FALSE, copy |-> None],
               mem' = mem,
               frozen' = frozen,
               redis' = redis,
               mongo' = mongo,
               logins' = logins
        PROVE  OrderInv'
    <3>a. op' \in Handler /\ op'.at = "flush" /\ op'.flow = "tick" /\ op'.mongoDown = FALSE
      BY <2>1, <1>0, <1>a DEF Handler
    <3>1. TypeOK'
      BY <1>0, <1>a, <2>1, <3>a DEF TypeOK
    <3>2. VersionsOrderData'
      BY <1>0, <2>0, Shapes, <2>1, <3>a DEF VersionsOrderData, Behind, IsRaised, Dirty, LoginFormed
    <3>3. (mem # None \/ redis # None => mongo # None)'
      BY <1>0, <2>0, <2>1, <3>a
    <3>4. (op.at = "idle" => op = Idle)'
      BY <1>b, IdleFormed, <2>1, <3>a
    <3>5. (op.at \in LoginStages => LoginFormed)'
      BY <1>0, <1>b, <2>0, Shapes, <2>1, <3>a DEF LoginStages
    <3>6. (op.at \in FlushStages => FlushFormed)'
      BY <1>0, <1>b, <2>0, Shapes, <2>1, <3>a DEF FlushStages, FlushFormed, IsRaised, Dirty
    <3>7. (mem # None => mem.crc <= mem.data /\ Behind(redis) /\ Behind(mongo))'
      BY <1>0, <2>0, Shapes, <2>1, <3>a DEF Behind, IsRaised, IsHeld, Dirty, LoginFormed, VersionsOrderData
    <3> QED BY <3>1, <3>2, <3>3, <3>4, <3>5, <3>6, <3>7 DEF OrderInv
  <2> QED BY <1>0, <1>b, <1>9, <2>0, <2>1 DEF Tick, Flushing
<1>10. CASE Logout
  <2>0. /\ mem \in Player /\ mem # None /\ mongo # None
        /\ mem.crc <= mem.data /\ Behind(redis) /\ Behind(mongo)
        /\ op = Idle /\ op.at = "idle" /\ op.flow = "tick"
    BY <1>0, <1>b, <1>10, Shapes DEF Logout, LoginFormed, FlushFormed, IsRaised, Idle, Flushing
  <2>1. ASSUME op' = [at |-> "flush", flow |-> "stop", try |-> 1, mongoDown |-> FALSE, copy |-> None],
               mem' = mem,
               frozen' = frozen,
               redis' = redis,
               mongo' = mongo,
               logins' = logins
        PROVE  OrderInv'
    <3>a. op' \in Handler /\ op'.at = "flush" /\ op'.flow = "stop" /\ op'.mongoDown = FALSE
      BY <2>1, <1>0, <1>a DEF Handler
    <3>1. TypeOK'
      BY <1>0, <1>a, <2>1, <3>a DEF TypeOK
    <3>2. VersionsOrderData'
      BY <1>0, <2>0, Shapes, <2>1, <3>a DEF VersionsOrderData, Behind, IsRaised, Dirty, LoginFormed
    <3>3. (mem # None \/ redis # None => mongo # None)'
      BY <1>0, <2>0, <2>1, <3>a
    <3>4. (op.at = "idle" => op = Idle)'
      BY <1>b, IdleFormed, <2>1, <3>a
    <3>5. (op.at \in LoginStages => LoginFormed)'
      BY <1>0, <1>b, <2>0, Shapes, <2>1, <3>a DEF LoginStages
    <3>6. (op.at \in FlushStages => FlushFormed)'
      BY <1>0, <1>b, <2>0, Shapes, <2>1, <3>a DEF FlushStages, FlushFormed, IsRaised, Dirty
    <3>7. (mem # None => mem.crc <= mem.data /\ Behind(redis) /\ Behind(mongo))'
      BY <1>0, <2>0, Shapes, <2>1, <3>a DEF Behind, IsRaised, IsHeld, Dirty, LoginFormed, VersionsOrderData
    <3> QED BY <3>1, <3>2, <3>3, <3>4, <3>5, <3>6, <3>7 DEF OrderInv
  <2> QED BY <1>0, <1>b, <1>10, <2>0, <2>1 DEF Logout, Flushing
<1>11. CASE FlushBegin
  <2>0. /\ mem \in Player /\ mem # None /\ mongo # None
        /\ mem.crc <= mem.data /\ Behind(redis) /\ Behind(mongo)
        /\ op.at = "flush"
    BY <1>0, <1>b, <1>11, Shapes DEF FlushBegin, LoginFormed, FlushFormed, IsRaised
  <2>1. ASSUME Dirty,
               op' = [op EXCEPT !.at = "redis"],
               mem' = Raised,
               frozen' = frozen,
               redis' = redis,
               mongo' = mongo,
               logins' = logins
        PROVE  OrderInv'
    <3>a. op' \in Handler /\ op'.at = "redis" /\ op'.flow = op.flow
            /\ op'.mongoDown = op.mongoDown
      BY <2>1, MovedFormed, <1>0, <1>a
    <3>b. mem' \in Player /\ mem' # None
            /\ mem'.data = mem.data /\ mem'.crc = mem.crc /\ mem'.ver = mem.ver + 1
      BY <2>1, VerReplaced, NotNone, Shapes, <1>0, <2>0 DEF Raised, Unraised
    <3>1. TypeOK'
      BY <1>0, <1>a, <2>1, <3>a, <3>b DEF TypeOK
    <3>2. VersionsOrderData'
      BY <1>0, <2>0, Shapes, <2>1, <3>a, <3>b DEF VersionsOrderData, Behind, IsRaised, Dirty, LoginFormed
    <3>3. (mem # None \/ redis # None => mongo # None)'
      BY <1>0, <2>0, <2>1, <3>a, <3>b
    <3>4. (op.at = "idle" => op = Idle)'
      BY <1>b, IdleFormed, <2>1, <3>a, <3>b
    <3>5. (op.at \in LoginStages => LoginFormed)'
      BY <1>0, <1>b, <2>0, Shapes, <2>1, <3>a, <3>b DEF LoginStages
    <3>6. (op.at \in FlushStages => FlushFormed)'
      BY <1>0, <1>b, <2>0, Shapes, <2>1, <3>a, <3>b DEF FlushStages, FlushFormed, IsRaised, Dirty
    <3>7. (mem # None => mem.crc <= mem.data /\ Behind(redis) /\ Behind(mongo))'
      BY <1>0, <2>0, Shapes, <2>1, <3>a, <3>b DEF Behind, IsRaised, IsHeld, Dirty, LoginFormed, VersionsOrderData
    <3> QED BY <3>1, <3>2, <3>3, <3>4, <3>5, <3>6, <3>7 DEF OrderInv
  <2>2. ASSUME ~Dirty /\ op.flow = "tick",
               op' = Idle,
               mem' = mem,
               frozen' = FALSE,
               redis' = redis,
               mongo' = mongo,
               logins' = logins
        PROVE  OrderInv'
    <3>a. op' \in Handler /\ op' = Idle /\ op'.at = "idle" /\ op'.flow = "tick"
      BY <2>2, IdleFormed
    <3>1. TypeOK'
      BY <1>0, <1>a, <2>2, <3>a DEF TypeOK
    <3>2. VersionsOrderData'
      BY <1>0, <2>0, Shapes, <2>2, <3>a DEF VersionsOrderData, Behind, IsRaised, Dirty, LoginFormed
    <3>3. (mem # None \/ redis # None => mongo # None)'
      BY <1>0, <2>0, <2>2, <3>a
    <3>4. (op.at = "idle" => op = Idle)'
      BY <1>b, IdleFormed, <2>2, <3>a
    <3>5. (op.at \in LoginStages => LoginFormed)'
      BY <1>0, <1>b, <2>0, Shapes, <2>2, <3>a DEF LoginStages
    <3>6. (op.at \in FlushStages => FlushFormed)'
      BY <1>0, <1>b, <2>0, Shapes, <2>2, <3>a DEF FlushStages
    <3>7. (mem # None => mem.crc <= mem.data /\ Behind(redis) /\ Behind(mongo))'
      BY <1>0, <2>0, Shapes, <2>2, <3>a DEF Behind, IsRaised, IsHeld, Dirty, LoginFormed, VersionsOrderData
    <3> QED BY <3>1, <3>2, <3>3, <3>4, <3>5, <3>6, <3>7 DEF OrderInv
  <2>3. ASSUME ~Dirty /\ op.flow = "stop",
               op' = [op EXCEPT !.at = "save"],
               mem' = mem,
               frozen' = frozen,
               redis' = redis,
               mongo' = mongo,
               logins' = logins
        PROVE  OrderInv'
    <3>a. op' \in Handler /\ op'.at = "save" /\ op'.flow = op.flow
            /\ op'.mongoDown = op.mongoDown
      BY <2>3, MovedFormed, <1>0, <1>a
    <3>1. TypeOK'
      BY <1>0, <1>a, <2>3, <3>a DEF TypeOK
    <3>2. VersionsOrderData'
      BY <1>0, <2>0, Shapes, <2>3, <3>a DEF VersionsOrderData, Behind, IsRaised, Dirty, LoginFormed
    <3>3. (mem # None \/ redis # None => mongo # None)'
      BY <1>0, <2>0, <2>3, <3>a
    <3>4. (op.at = "idle" => op = Idle)'
      BY <1>b, IdleFormed, <2>3, <3>a
    <3>5. (op.at \in LoginStages => LoginFormed)'
      BY <1>0, <1>b, <2>0, Shapes, <2>3, <3>a DEF LoginStages
    <3>6. (op.at \in FlushStages => FlushFormed)'
      BY <1>0, <1>b, <2>0, Shapes, <2>3, <3>a DEF FlushStages, FlushFormed, IsRaised, Dirty
    <3>7. (mem # None => mem.crc <= mem.data /\ Behind(redis) /\ Behind(mongo))'
      BY <1>0, <2>0, Shapes, <2>3, <3>a DEF Behind, IsRaised, IsHeld, Dirty, LoginFormed, VersionsOrderData
    <3> QED BY <3>1, <3>2, <3>3, <3>4, <3>5, <3>6, <3>7 DEF OrderInv
  <2> QED BY <1>0, <1>b, <1>11, <2>0, <2>1, <2>2, <2>3 DEF FlushBegin, Flushed
<1>12. CASE FlushRedis
  <2>0. /\ mem \in Player /\ mem # None /\ mongo # None
        /\ mem.crc <= mem.data /\ Behind(redis) /\ Behind(mongo)
        /\ op.at = "redis" /\ Dirty /\ mem.ver > 0
    BY <1>0, <1>b, <1>12, Shapes DEF FlushRedis, LoginFormed, FlushFormed, IsRaised
  <2>1. ASSUME op.flow = "tick",
               op' = Idle,
               mem' = [mem EXCEPT !.crc = mem.data],
               frozen' = FALSE,
               redis' = Leased(mem),
               mongo' = mongo,
               logins' = logins
        PROVE  OrderInv'
    <3>a. op' \in Handler /\ op' = Idle /\ op'.at = "idle" /\ op'.flow = "tick"
      BY <2>1, IdleFormed
    <3>b. mem' \in Player /\ mem' # None
            /\ mem'.data = mem.data /\ mem'.crc = mem.data /\ mem'.ver = mem.ver
      BY <2>1, CRCReplaced, NotNone, Shapes, <1>0, <2>0
    <3>c. redis' \in Snapshot /\ redis' # None /\ redis'.data = mem.data /\ redis'.ver = mem.ver
      BY <2>1, Copies, Shapes, <1>0, <2>0
    <3>1. TypeOK'
      BY <1>0, <1>a, <2>1, <3>a, <3>b, <3>c DEF TypeOK
    <3>2. VersionsOrderData'
      BY <1>0, <2>0, Shapes, <2>1, <3>a, <3>b, <3>c DEF VersionsOrderData, Behind, IsRaised, Dirty, LoginFormed
    <3>3. (mem # None \/ redis # None => mongo # None)'
      BY <1>0, <2>0, <2>1, <3>a, <3>b, <3>c
    <3>4. (op.at = "idle" => op = Idle)'
      BY <1>b, IdleFormed, <2>1, <3>a, <3>b, <3>c
    <3>5. (op.at \in LoginStages => LoginFormed)'
      BY <1>0, <1>b, <2>0, Shapes, <2>1, <3>a, <3>b, <3>c DEF LoginStages
    <3>6. (op.at \in FlushStages => FlushFormed)'
      BY <1>0, <1>b, <2>0, Shapes, <2>1, <3>a, <3>b, <3>c DEF FlushStages
    <3>7. (mem # None => mem.crc <= mem.data /\ Behind(redis) /\ Behind(mongo))'
      BY <1>0, <2>0, Shapes, <2>1, <3>a, <3>b, <3>c DEF Behind, IsRaised, IsHeld, Dirty, LoginFormed, VersionsOrderData
    <3> QED BY <3>1, <3>2, <3>3, <3>4, <3>5, <3>6, <3>7 DEF OrderInv
  <2>2. ASSUME op.flow = "stop",
               op' = [op EXCEPT !.at = "save"],
               mem' = [mem EXCEPT !.crc = mem.data],
               frozen' = frozen,
               redis' = Leased(mem),
               mongo' = mongo,
               logins' = logins
        PROVE  OrderInv'
    <3>a. op' \in Handler /\ op'.at = "save" /\ op'.flow = op.flow
            /\ op'.mongoDown = op.mongoDown
      BY <2>2, MovedFormed, <1>0, <1>a
    <3>b. mem' \in Player /\ mem' # None
            /\ mem'.data = mem.data /\ mem'.crc = mem.data /\ mem'.ver = mem.ver
      BY <2>2, CRCReplaced, NotNone, Shapes, <1>0, <2>0
    <3>c. redis' \in Snapshot /\ redis' # None /\ redis'.data = mem.data /\ redis'.ver = mem.ver
      BY <2>2, Copies, Shapes, <1>0, <2>0
    <3>1. TypeOK'
      BY <1>0, <1>a, <2>2, <3>a, <3>b, <3>c DEF TypeOK
    <3>2. VersionsOrderData'
      BY <1>0, <2>0, Shapes, <2>2, <3>a, <3>b, <3>c DEF VersionsOrderData, Behind, IsRaised, Dirty, LoginFormed
    <3>3. (mem # None \/ redis # None => mongo # None)'
      BY <1>0, <2>0, <2>2, <3>a, <3>b, <3>c
    <3>4. (op.at = "idle" => op = Idle)'
      BY <1>b, IdleFormed, <2>2, <3>a, <3>b, <3>c
    <3>5. (op.at \in LoginStages => LoginFormed)'
      BY <1>0, <1>b, <2>0, Shapes, <2>2, <3>a, <3>b, <3>c DEF LoginStages
    <3>6. (op.at \in FlushStages => FlushFormed)'
      BY <1>0, <1>b, <2>0, Shapes, <2>2, <3>a, <3>b, <3>c DEF FlushStages, FlushFormed, IsRaised, Dirty
    <3>7. (mem # None => mem.crc <= mem.data /\ Behind(redis) /\ Behind(mongo))'
      BY <1>0, <2>0, Shapes, <2>2, <3>a, <3>b, <3>c DEF Behind, IsRaised, IsHeld, Dirty, LoginFormed, VersionsOrderData
    <3> QED BY <3>1, <3>2, <3>3, <3>4, <3>5, <3>6, <3>7 DEF OrderInv
  <2>3. ASSUME op' = [op EXCEPT !.at = "degrade"],
               mem' = mem,
               frozen' = frozen,
               redis' \in {redis, Leased(mem)},
               mongo' = mongo,
               logins' = logins
        PROVE  OrderInv'
    <3>a. op' \in Handler /\ op'.at = "degrade" /\ op'.flow = op.flow
            /\ op'.mongoDown = op.mongoDown
      BY <2>3, MovedFormed, <1>0, <1>a
    <3>b. \/ redis' = redis
            \/ /\ redis' \in Snapshot /\ redis' # None
               /\ redis'.data = mem.data /\ redis'.ver = mem.ver
      BY <2>3, Copies, Shapes, <1>0, <2>0
    <3>1. TypeOK'
      BY <1>0, <1>a, <2>3, <3>a, <3>b DEF TypeOK
    <3>2. VersionsOrderData'
      BY <1>0, <2>0, Shapes, <2>3, <3>a, <3>b DEF VersionsOrderData, Behind, IsRaised, Dirty, LoginFormed
    <3>3. (mem # None \/ redis # None => mongo # None)'
      BY <1>0, <2>0, <2>3, <3>a, <3>b
    <3>4. (op.at = "idle" => op = Idle)'
      BY <1>b, IdleFormed, <2>3, <3>a, <3>b
    <3>5. (op.at \in LoginStages => LoginFormed)'
      BY <1>0, <1>b, <2>0, Shapes, <2>3, <3>a, <3>b DEF LoginStages
    <3>6. (op.at \in FlushStages => FlushFormed)'
      BY <1>0, <1>b, <2>0, Shapes, <2>3, <3>a, <3>b DEF FlushStages, FlushFormed, IsRaised, Dirty
    <3>7. (mem # None => mem.crc <= mem.data /\ Behind(redis) /\ Behind(mongo))'
      BY <1>0, <2>0, Shapes, <2>3, <3>a, <3>b DEF Behind, IsRaised, IsHeld, Dirty, LoginFormed, VersionsOrderData
    <3> QED BY <3>1, <3>2, <3>3, <3>4, <3>5, <3>6, <3>7 DEF OrderInv
  <2> QED BY <1>0, <1>b, <1>12, <2>0, <2>1, <2>2, <2>3 DEF FlushRedis, Flushed, RedisFails
<1>13. CASE FlushMongo
  <2>0. /\ mem \in Player /\ mem # None /\ mongo # None
        /\ mem.crc <= mem.data /\ Behind(redis) /\ Behind(mongo)
        /\ op.at = "degrade" /\ Dirty /\ mem.ver > 0
    BY <1>0, <1>b, <1>13, Shapes DEF FlushMongo, LoginFormed, FlushFormed, IsRaised
  <2>1. ASSUME op.flow = "tick",
               op' = [at |-> "flush", flow |-> "stop", try |-> 1, mongoDown |-> FALSE, copy |-> None],
               mem' = [mem EXCEPT !.crc = mem.data],
               frozen' = frozen,
               redis' = redis,
               mongo' = CopyOf(mem),
               logins' = logins
        PROVE  OrderInv'
    <3>a. op' \in Handler /\ op'.at = "flush" /\ op'.flow = "stop" /\ op'.mongoDown = FALSE
      BY <2>1, <1>0, <1>a DEF Handler
    <3>b. mem' \in Player /\ mem' # None
            /\ mem'.data = mem.data /\ mem'.crc = mem.data /\ mem'.ver = mem.ver
      BY <2>1, CRCReplaced, NotNone, Shapes, <1>0, <2>0
    <3>c. mongo' \in Copy /\ mongo' # None /\ mongo'.data = mem.data /\ mongo'.ver = mem.ver
      BY <2>1, Copies, Shapes, <1>0, <2>0
    <3>1. TypeOK'
      BY <1>0, <1>a, <2>1, <3>a, <3>b, <3>c DEF TypeOK
    <3>2. VersionsOrderData'
      BY <1>0, <2>0, Shapes, <2>1, <3>a, <3>b, <3>c DEF VersionsOrderData, Behind, IsRaised, Dirty, LoginFormed
    <3>3. (mem # None \/ redis # None => mongo # None)'
      BY <1>0, <2>0, <2>1, <3>a, <3>b, <3>c
    <3>4. (op.at = "idle" => op = Idle)'
      BY <1>b, IdleFormed, <2>1, <3>a, <3>b, <3>c
    <3>5. (op.at \in LoginStages => LoginFormed)'
      BY <1>0, <1>b, <2>0, Shapes, <2>1, <3>a, <3>b, <3>c DEF LoginStages
    <3>6. (op.at \in FlushStages => FlushFormed)'
      BY <1>0, <1>b, <2>0, Shapes, <2>1, <3>a, <3>b, <3>c DEF FlushStages, FlushFormed, IsRaised, Dirty
    <3>7. (mem # None => mem.crc <= mem.data /\ Behind(redis) /\ Behind(mongo))'
      BY <1>0, <2>0, Shapes, <2>1, <3>a, <3>b, <3>c DEF Behind, IsRaised, IsHeld, Dirty, LoginFormed, VersionsOrderData
    <3> QED BY <3>1, <3>2, <3>3, <3>4, <3>5, <3>6, <3>7 DEF OrderInv
  <2>2. ASSUME op.flow = "stop",
               op' = [op EXCEPT !.at = "save"],
               mem' = [mem EXCEPT !.crc = mem.data],
               frozen' = frozen,
               redis' = redis,
               mongo' = CopyOf(mem),
               logins' = logins
        PROVE  OrderInv'
    <3>a. op' \in Handler /\ op'.at = "save" /\ op'.flow = op.flow
            /\ op'.mongoDown = op.mongoDown
      BY <2>2, MovedFormed, <1>0, <1>a
    <3>b. mem' \in Player /\ mem' # None
            /\ mem'.data = mem.data /\ mem'.crc = mem.data /\ mem'.ver = mem.ver
      BY <2>2, CRCReplaced, NotNone, Shapes, <1>0, <2>0
    <3>c. mongo' \in Copy /\ mongo' # None /\ mongo'.data = mem.data /\ mongo'.ver = mem.ver
      BY <2>2, Copies, Shapes, <1>0, <2>0
    <3>1. TypeOK'
      BY <1>0, <1>a, <2>2, <3>a, <3>b, <3>c DEF TypeOK
    <3>2. VersionsOrderData'
      BY <1>0, <2>0, Shapes, <2>2, <3>a, <3>b, <3>c DEF VersionsOrderData, Behind, IsRaised, Dirty, LoginFormed
    <3>3. (mem # None \/ redis # None => mongo # None)'
      BY <1>0, <2>0, <2>2, <3>a, <3>b, <3>c
    <3>4. (op.at = "idle" => op = Idle)'
      BY <1>b, IdleFormed, <2>2, <3>a, <3>b, <3>c
    <3>5. (op.at \in LoginStages => LoginFormed)'
      BY <1>0, <1>b, <2>0, Shapes, <2>2, <3>a, <3>b, <3>c DEF LoginStages
    <3>6. (op.at \in FlushStages => FlushFormed)'
      BY <1>0, <1>b, <2>0, Shapes, <2>2, <3>a, <3>b, <3>c DEF FlushStages, FlushFormed, IsRaised, Dirty
    <3>7. (mem # None => mem.crc <= mem.data /\ Behind(redis) /\ Behind(mongo))'
      BY <1>0, <2>0, Shapes, <2>2, <3>a, <3>b, <3>c DEF Behind, IsRaised, IsHeld, Dirty, LoginFormed, VersionsOrderData
    <3> QED BY <3>1, <3>2, <3>3, <3>4, <3>5, <3>6, <3>7 DEF OrderInv
  <2>3. ASSUME op.flow = "tick",
               op' = Idle,
               mem' = Unraised,
               frozen' = TRUE,
               redis' = redis,
               mongo' \in {mongo, CopyOf(mem)},
               logins' = logins
        PROVE  OrderInv'
    <3>a. op' \in Handler /\ op' = Idle /\ op'.at = "idle" /\ op'.flow = "tick"
      BY <2>3, IdleFormed
    <3>b. mem' \in Player /\ mem' # None
            /\ mem'.data = mem.data /\ mem'.crc = mem.crc /\ mem'.ver = mem.ver - 1
      BY <2>3, VerReplaced, NotNone, Shapes, <1>0, <2>0 DEF Raised, Unraised
    <3>c. \/ mongo' = mongo
            \/ /\ mongo' \in Copy /\ mongo' # None
               /\ mongo'.data = mem.data /\ mongo'.ver = mem.ver
      BY <2>3, Copies, Shapes, <1>0, <2>0
    <3>1. TypeOK'
      BY <1>0, <1>a, <2>3, <3>a, <3>b, <3>c DEF TypeOK
    <3>2. VersionsOrderData'
      BY <1>0, <2>0, Shapes, <2>3, <3>a, <3>b, <3>c DEF VersionsOrderData, Behind, IsRaised, Dirty, LoginFormed
    <3>3. (mem # None \/ redis # None => mongo # None)'
      BY <1>0, <2>0, <2>3, <3>a, <3>b, <3>c
    <3>4. (op.at = "idle" => op = Idle)'
      BY <1>b, IdleFormed, <2>3, <3>a, <3>b, <3>c
    <3>5. (op.at \in LoginStages => LoginFormed)'
      BY <1>0, <1>b, <2>0, Shapes, <2>3, <3>a, <3>b, <3>c DEF LoginStages
    <3>6. (op.at \in FlushStages => FlushFormed)'
      BY <1>0, <1>b, <2>0, Shapes, <2>3, <3>a, <3>b, <3>c DEF FlushStages
    <3>7. (mem # None => mem.crc <= mem.data /\ Behind(redis) /\ Behind(mongo))'
      BY <1>0, <2>0, Shapes, <2>3, <3>a, <3>b, <3>c DEF Behind, IsRaised, IsHeld, Dirty, LoginFormed, VersionsOrderData
    <3> QED BY <3>1, <3>2, <3>3, <3>4, <3>5, <3>6, <3>7 DEF OrderInv
  <2>4. ASSUME op.flow = "stop",
               op' = [at |-> "save", flow |-> "stop", try |-> op.try, mongoDown |-> TRUE, copy |-> None],
               mem' = Unraised,
               frozen' = frozen,
               redis' = redis,
               mongo' \in {mongo, CopyOf(mem)},
               logins' = logins
        PROVE  OrderInv'
    <3>a. op' \in Handler /\ op'.at = "save" /\ op'.flow = "stop" /\ op'.mongoDown = TRUE
      BY <2>4, <1>0, <1>a DEF Handler
    <3>b. mem' \in Player /\ mem' # None
            /\ mem'.data = mem.data /\ mem'.crc = mem.crc /\ mem'.ver = mem.ver - 1
      BY <2>4, VerReplaced, NotNone, Shapes, <1>0, <2>0 DEF Raised, Unraised
    <3>c. \/ mongo' = mongo
            \/ /\ mongo' \in Copy /\ mongo' # None
               /\ mongo'.data = mem.data /\ mongo'.ver = mem.ver
      BY <2>4, Copies, Shapes, <1>0, <2>0
    <3>1. TypeOK'
      BY <1>0, <1>a, <2>4, <3>a, <3>b, <3>c DEF TypeOK
    <3>2. VersionsOrderData'
      BY <1>0, <2>0, Shapes, <2>4, <3>a, <3>b, <3>c DEF VersionsOrderData, Behind, IsRaised, Dirty, LoginFormed
    <3>3. (mem # None \/ redis # None => mongo # None)'
      BY <1>0, <2>0, <2>4, <3>a, <3>b, <3>c
    <3>4. (op.at = "idle" => op = Idle)'
      BY <1>b, IdleFormed, <2>4, <3>a, <3>b, <3>c
    <3>5. (op.at \in LoginStages => LoginFormed)'
      BY <1>0, <1>b, <2>0, Shapes, <2>4, <3>a, <3>b, <3>c DEF LoginStages
    <3>6. (op.at \in FlushStages => FlushFormed)'
      BY <1>0, <1>b, <2>0, Shapes, <2>4, <3>a, <3>b, <3>c DEF FlushStages, FlushFormed, IsRaised, Dirty
    <3>7. (mem # None => mem.crc <= mem.data /\ Behind(redis) /\ Behind(mongo))'
      BY <1>0, <2>0, Shapes, <2>4, <3>a, <3>b, <3>c DEF Behind, IsRaised, IsHeld, Dirty, LoginFormed, VersionsOrderData
    <3> QED BY <3>1, <3>2, <3>3, <3>4, <3>5, <3>6, <3>7 DEF OrderInv
  <2> QED BY <1>0, <1>b, <1>13, <2>0, <2>1, <2>2, <2>3, <2>4 DEF FlushMongo, MongoFails, Flushing
<1>14. CASE StopSave
  <2>0. /\ mem \in Player /\ mem # None /\ mongo # None
        /\ mem.crc <= mem.data /\ Behind(redis) /\ Behind(mongo)
        /\ op.at = "save" /\ op.flow = "stop" /\ (~op.mongoDown => ~Dirty)
        /\ SaveReaches => ~op.mongoDown
    BY <1>0, <1>b, <1>14, Shapes DEF StopSave, LoginFormed, FlushFormed, IsRaised, SaveReaches, NoFlap
  <2>1. ASSUME ~op.mongoDown,
               op' = Idle,
               mem' = None,
               frozen' = FALSE,
               redis' = redis,
               mongo' = CopyOf(mem),
               logins' = logins
        PROVE  OrderInv'
    <3>a. op' \in Handler /\ op' = Idle /\ op'.at = "idle" /\ op'.flow = "tick"
      BY <2>1, IdleFormed
    <3>b. mongo' \in Copy /\ mongo' # None /\ mongo'.data = mem.data /\ mongo'.ver = mem.ver
      BY <2>1, Copies, Shapes, <1>0, <2>0
    <3>1. TypeOK'
      BY <1>0, <1>a, <2>1, <3>a, <3>b DEF TypeOK
    <3>2. VersionsOrderData'
      BY <1>0, <2>0, Shapes, <2>1, <3>a, <3>b DEF VersionsOrderData, Behind, IsRaised, Dirty, LoginFormed
    <3>3. (mem # None \/ redis # None => mongo # None)'
      BY <1>0, <2>0, <2>1, <3>a, <3>b
    <3>4. (op.at = "idle" => op = Idle)'
      BY <1>b, IdleFormed, <2>1, <3>a, <3>b
    <3>5. (op.at \in LoginStages => LoginFormed)'
      BY <1>0, <1>b, <2>0, Shapes, <2>1, <3>a, <3>b DEF LoginStages
    <3>6. (op.at \in FlushStages => FlushFormed)'
      BY <1>0, <1>b, <2>0, Shapes, <2>1, <3>a, <3>b DEF FlushStages
    <3>7. (mem # None => mem.crc <= mem.data /\ Behind(redis) /\ Behind(mongo))'
      BY <1>0, <2>0, Shapes, <2>1, <3>a, <3>b DEF Behind, IsRaised, IsHeld, Dirty, LoginFormed, VersionsOrderData
    <3> QED BY <3>1, <3>2, <3>3, <3>4, <3>5, <3>6, <3>7 DEF OrderInv
  <2>2. ASSUME op' = [op EXCEPT !.at = "persist"],
               mem' = mem,
               frozen' = frozen,
               redis' = redis,
               (mongo' = mongo \/ (~op.mongoDown /\ mongo' = CopyOf(mem))),
               logins' = logins
        PROVE  OrderInv'
    <3>a. op' \in Handler /\ op'.at = "persist" /\ op'.flow = op.flow
            /\ op'.mongoDown = op.mongoDown
      BY <2>2, MovedFormed, <1>0, <1>a
    <3>b. \/ mongo' = mongo
            \/ /\ ~op.mongoDown /\ mongo' \in Copy /\ mongo' # None
               /\ mongo'.data = mem.data /\ mongo'.ver = mem.ver
      BY <2>2, Copies, Shapes, <1>0, <2>0
    <3>1. TypeOK'
      BY <1>0, <1>a, <2>2, <3>a, <3>b DEF TypeOK
    <3>2. VersionsOrderData'
      BY <1>0, <2>0, Shapes, <2>2, <3>a, <3>b DEF VersionsOrderData, Behind, IsRaised, Dirty, LoginFormed
    <3>3. (mem # None \/ redis # None => mongo # None)'
      BY <1>0, <2>0, <2>2, <3>a, <3>b
    <3>4. (op.at = "idle" => op = Idle)'
      BY <1>b, IdleFormed, <2>2, <3>a, <3>b
    <3>5. (op.at \in LoginStages => LoginFormed)'
      BY <1>0, <1>b, <2>0, Shapes, <2>2, <3>a, <3>b DEF LoginStages
    <3>6. (op.at \in FlushStages => FlushFormed)'
      BY <1>0, <1>b, <2>0, Shapes, <2>2, <3>a, <3>b DEF FlushStages, FlushFormed, IsRaised, Dirty
    <3>7. (mem # None => mem.crc <= mem.data /\ Behind(redis) /\ Behind(mongo))'
      BY <1>0, <2>0, Shapes, <2>2, <3>a, <3>b DEF Behind, IsRaised, IsHeld, Dirty, LoginFormed, VersionsOrderData
    <3> QED BY <3>1, <3>2, <3>3, <3>4, <3>5, <3>6, <3>7 DEF OrderInv
  <2>3. ASSUME op.try # StopTries,
               op' = [at |-> "flush", flow |-> "stop", try |-> (op.try + 1), mongoDown |-> FALSE, copy |-> None],
               mem' = mem,
               frozen' = frozen,
               redis' = redis,
               (mongo' = mongo \/ (~op.mongoDown /\ mongo' = CopyOf(mem))),
               logins' = logins
        PROVE  OrderInv'
    <3>a. op' \in Handler /\ op'.at = "flush" /\ op'.flow = "stop" /\ op'.mongoDown = FALSE
      BY <2>3, <1>0, <1>a, DurabilityAssumption DEF Handler
    <3>b. \/ mongo' = mongo
            \/ /\ ~op.mongoDown /\ mongo' \in Copy /\ mongo' # None
               /\ mongo'.data = mem.data /\ mongo'.ver = mem.ver
      BY <2>3, Copies, Shapes, <1>0, <2>0
    <3>1. TypeOK'
      BY <1>0, <1>a, <2>3, <3>a, <3>b DEF TypeOK
    <3>2. VersionsOrderData'
      BY <1>0, <2>0, Shapes, <2>3, <3>a, <3>b DEF VersionsOrderData, Behind, IsRaised, Dirty, LoginFormed
    <3>3. (mem # None \/ redis # None => mongo # None)'
      BY <1>0, <2>0, <2>3, <3>a, <3>b
    <3>4. (op.at = "idle" => op = Idle)'
      BY <1>b, IdleFormed, <2>3, <3>a, <3>b
    <3>5. (op.at \in LoginStages => LoginFormed)'
      BY <1>0, <1>b, <2>0, Shapes, <2>3, <3>a, <3>b DEF LoginStages
    <3>6. (op.at \in FlushStages => FlushFormed)'
      BY <1>0, <1>b, <2>0, Shapes, <2>3, <3>a, <3>b DEF FlushStages, FlushFormed, IsRaised, Dirty
    <3>7. (mem # None => mem.crc <= mem.data /\ Behind(redis) /\ Behind(mongo))'
      BY <1>0, <2>0, Shapes, <2>3, <3>a, <3>b DEF Behind, IsRaised, IsHeld, Dirty, LoginFormed, VersionsOrderData
    <3> QED BY <3>1, <3>2, <3>3, <3>4, <3>5, <3>6, <3>7 DEF OrderInv
  <2>4. ASSUME MongoFails(IF SaveReaches THEN CopyOf(mem) ELSE mongo)
        PROVE  mongo' = mongo \/ (~op.mongoDown /\ mongo' = CopyOf(mem))
    BY <2>0, <2>4, FailedSave
  <2>5. CASE SaveReaches /\ mongo' = CopyOf(mem) /\ mem' = None /\ op' = Idle /\ frozen' = FALSE
    BY <1>14, <2>0, <2>1, <2>5 DEF StopSave
  <2>6. CASE /\ MongoFails(IF SaveReaches THEN CopyOf(mem) ELSE mongo)
             /\ op' = IF LastTry THEN [op EXCEPT !.at = "persist"]
                      ELSE Flushing("flush", "stop", NextTry, FALSE)
             /\ UNCHANGED <<mem, frozen>>
    <3>1. CASE LastTry
      BY <1>14, <2>2, <2>4, <2>6, <3>1 DEF StopSave
    <3>2. CASE ~LastTry
      BY <1>14, <2>3, <2>4, <2>6, <3>2 DEF StopSave, LastTry, NextTry, Flushing
    <3> QED BY <3>1, <3>2
  <2> QED BY <1>14, <2>5, <2>6 DEF StopSave
<1>15. CASE StopPersist
  <2>0. /\ mem \in Player /\ mem # None /\ mongo # None
        /\ mem.crc <= mem.data /\ Behind(redis) /\ Behind(mongo)
        /\ op.at = "persist"
    BY <1>0, <1>b, <1>15, Shapes DEF StopPersist, LoginFormed, FlushFormed, IsRaised
  <2>1. ASSUME redis = None,
               op' = Idle,
               mem' = None,
               frozen' = FALSE,
               redis' = None,
               mongo' = mongo,
               logins' = logins
        PROVE  OrderInv'
    <3>a. op' \in Handler /\ op' = Idle /\ op'.at = "idle" /\ op'.flow = "tick"
      BY <2>1, IdleFormed
    <3>1. TypeOK'
      BY <1>0, <1>a, <2>1, <3>a DEF TypeOK
    <3>2. VersionsOrderData'
      BY <1>0, <2>0, Shapes, <2>1, <3>a DEF VersionsOrderData, Behind, IsRaised, Dirty, LoginFormed
    <3>3. (mem # None \/ redis # None => mongo # None)'
      BY <1>0, <2>0, <2>1, <3>a
    <3>4. (op.at = "idle" => op = Idle)'
      BY <1>b, IdleFormed, <2>1, <3>a
    <3>5. (op.at \in LoginStages => LoginFormed)'
      BY <1>0, <1>b, <2>0, Shapes, <2>1, <3>a DEF LoginStages
    <3>6. (op.at \in FlushStages => FlushFormed)'
      BY <1>0, <1>b, <2>0, Shapes, <2>1, <3>a DEF FlushStages
    <3>7. (mem # None => mem.crc <= mem.data /\ Behind(redis) /\ Behind(mongo))'
      BY <1>0, <2>0, Shapes, <2>1, <3>a DEF Behind, IsRaised, IsHeld, Dirty, LoginFormed, VersionsOrderData
    <3> QED BY <3>1, <3>2, <3>3, <3>4, <3>5, <3>6, <3>7 DEF OrderInv
  <2>2. ASSUME redis # None,
               op' = Idle,
               mem' = None,
               frozen' = FALSE,
               redis' \in {redis, Kept(redis)},
               mongo' = mongo,
               logins' = logins
        PROVE  OrderInv'
    <3>a. op' \in Handler /\ op' = Idle /\ op'.at = "idle" /\ op'.flow = "tick"
      BY <2>2, IdleFormed
    <3>b. redis' \in Snapshot /\ redis' # None
            /\ redis'.data = redis.data /\ redis'.ver = redis.ver
      BY <2>2, Copies, Shapes, <1>0, <2>0
    <3>1. TypeOK'
      BY <1>0, <1>a, <2>2, <3>a, <3>b DEF TypeOK
    <3>2. VersionsOrderData'
      BY <1>0, <2>0, Shapes, <2>2, <3>a, <3>b DEF VersionsOrderData, Behind, IsRaised, Dirty, LoginFormed
    <3>3. (mem # None \/ redis # None => mongo # None)'
      BY <1>0, <2>0, <2>2, <3>a, <3>b
    <3>4. (op.at = "idle" => op = Idle)'
      BY <1>b, IdleFormed, <2>2, <3>a, <3>b
    <3>5. (op.at \in LoginStages => LoginFormed)'
      BY <1>0, <1>b, <2>0, Shapes, <2>2, <3>a, <3>b DEF LoginStages
    <3>6. (op.at \in FlushStages => FlushFormed)'
      BY <1>0, <1>b, <2>0, Shapes, <2>2, <3>a, <3>b DEF FlushStages
    <3>7. (mem # None => mem.crc <= mem.data /\ Behind(redis) /\ Behind(mongo))'
      BY <1>0, <2>0, Shapes, <2>2, <3>a, <3>b DEF Behind, IsRaised, IsHeld, Dirty, LoginFormed, VersionsOrderData
    <3> QED BY <3>1, <3>2, <3>3, <3>4, <3>5, <3>6, <3>7 DEF OrderInv
  <2> QED BY <1>0, <1>b, <1>15, <2>0, <2>1, <2>2 DEF StopPersist, RedisFails, PersistSnapshot
<1>16. CASE Expire
  <2>0. /\ redis # None
        /\ mem # None => mongo # None /\ mem.crc <= mem.data /\ Behind(mongo)
    BY <1>0, <1>b, <1>16, Shapes DEF Expire, LoginFormed, FlushFormed, IsRaised
  <2>1. ASSUME op' = op,
               mem' = mem,
               frozen' = frozen,
               redis' = None,
               mongo' = mongo,
               logins' = logins
        PROVE  OrderInv'
    <3>1. TypeOK'
      BY <1>0, <1>a, <2>1 DEF TypeOK
    <3>2. VersionsOrderData'
      BY <1>0, <2>0, Shapes, <2>1 DEF VersionsOrderData, Behind, IsRaised, Dirty, LoginFormed
    <3>3. (mem # None \/ redis # None => mongo # None)'
      BY <1>0, <2>0, <2>1
    <3>4. (op.at = "idle" => op = Idle)'
      BY <1>b, IdleFormed, <2>1
    <3>5. (op.at \in LoginStages => LoginFormed)'
      BY <1>0, <1>b, <2>0, Shapes, <2>1 DEF LoginStages, LoginFormed, VersionsOrderData
    <3>6. (op.at \in FlushStages => FlushFormed)'
      BY <1>0, <1>b, <2>0, Shapes, <2>1 DEF FlushStages, FlushFormed, IsRaised, Dirty
    <3>7. (mem # None => mem.crc <= mem.data /\ Behind(redis) /\ Behind(mongo))'
      BY <1>0, <2>0, Shapes, <2>1 DEF Behind, IsRaised, IsHeld, Dirty, LoginFormed, VersionsOrderData
    <3> QED BY <3>1, <3>2, <3>3, <3>4, <3>5, <3>6, <3>7 DEF OrderInv
  <2> QED BY <1>0, <1>b, <1>16, <2>0, <2>1 DEF Expire
<1>17. CASE Crash
  <2>0. TRUE
    BY <1>0, <1>b, <1>17, Shapes DEF Crash, LoginFormed, FlushFormed, IsRaised
  <2>1. ASSUME op' = Idle,
               mem' = None,
               frozen' = FALSE,
               redis' = redis,
               mongo' = mongo,
               logins' = logins
        PROVE  OrderInv'
    <3>a. op' \in Handler /\ op' = Idle /\ op'.at = "idle" /\ op'.flow = "tick"
      BY <2>1, IdleFormed
    <3>1. TypeOK'
      BY <1>0, <1>a, <2>1, <3>a DEF TypeOK
    <3>2. VersionsOrderData'
      BY <1>0, <2>0, Shapes, <2>1, <3>a DEF VersionsOrderData, Behind, IsRaised, Dirty, LoginFormed
    <3>3. (mem # None \/ redis # None => mongo # None)'
      BY <1>0, <2>0, <2>1, <3>a
    <3>4. (op.at = "idle" => op = Idle)'
      BY <1>b, IdleFormed, <2>1, <3>a
    <3>5. (op.at \in LoginStages => LoginFormed)'
      BY <1>0, <1>b, <2>0, Shapes, <2>1, <3>a DEF LoginStages
    <3>6. (op.at \in FlushStages => FlushFormed)'
      BY <1>0, <1>b, <2>0, Shapes, <2>1, <3>a DEF FlushStages
    <3>7. (mem # None => mem.crc <= mem.data /\ Behind(redis) /\ Behind(mongo))'
      BY <1>0, <2>0, Shapes, <2>1, <3>a DEF Behind, IsRaised, IsHeld, Dirty, LoginFormed, VersionsOrderData
    <3> QED BY <3>1, <3>2, <3>3, <3>4, <3>5, <3>6, <3>7 DEF OrderInv
  <2> QED BY <1>0, <1>b, <1>17, <2>0, <2>1 DEF Crash, Gone
<1>18. CASE Shutdown
  <2>0. TRUE
    BY <1>0, <1>b, <1>18, Shapes DEF Shutdown, LoginFormed, FlushFormed, IsRaised
  <2>1. ASSUME op' = Idle,
               mem' = None,
               frozen' = FALSE,
               redis' = redis,
               mongo' = mongo,
               logins' = logins
        PROVE  OrderInv'
    <3>a. op' \in Handler /\ op' = Idle /\ op'.at = "idle" /\ op'.flow = "tick"
      BY <2>1, IdleFormed
    <3>1. TypeOK'
      BY <1>0, <1>a, <2>1, <3>a DEF TypeOK
    <3>2. VersionsOrderData'
      BY <1>0, <2>0, Shapes, <2>1, <3>a DEF VersionsOrderData, Behind, IsRaised, Dirty, LoginFormed
    <3>3. (mem # None \/ redis # None => mongo # None)'
      BY <1>0, <2>0, <2>1, <3>a
    <3>4. (op.at = "idle" => op = Idle)'
      BY <1>b, IdleFormed, <2>1, <3>a
    <3>5. (op.at \in LoginStages => LoginFormed)'
      BY <1>0, <1>b, <2>0, Shapes, <2>1, <3>a DEF LoginStages
    <3>6. (op.at \in FlushStages => FlushFormed)'
      BY <1>0, <1>b, <2>0, Shapes, <2>1, <3>a DEF FlushStages
    <3>7. (mem # None => mem.crc <= mem.data /\ Behind(redis) /\ Behind(mongo))'
      BY <1>0, <2>0, Shapes, <2>1, <3>a DEF Behind, IsRaised, IsHeld, Dirty, LoginFormed, VersionsOrderData
    <3> QED BY <3>1, <3>2, <3>3, <3>4, <3>5, <3>6, <3>7 DEF OrderInv
  <2> QED BY <1>0, <1>b, <1>18, <2>0, <2>1 DEF Shutdown, Gone
<1>19. CASE UNCHANGED vars
  BY <1>19 DEF vars, OrderInv, TypeOK, VersionsOrderData, LoginFormed, FlushFormed, Behind,
              IsRaised, IsHeld, Dirty
<1> QED
  BY <1>1, <1>2, <1>3, <1>4, <1>5, <1>6, <1>7, <1>8, <1>9, <1>10, <1>11, <1>12, <1>13, <1>14, <1>15, <1>16, <1>17, <1>18, <1>19 DEF Next, Serve

\* The order holds initially.
LEMMA OrderInitially == Init => OrderInv
<1> SUFFICES ASSUME Init PROVE OrderInv
  OBVIOUS
<1>1. TypeOK
  BY IdleFormed DEF Init, TypeOK
<1>2. op.at = "idle" /\ op.at \notin LoginStages /\ op.at \notin FlushStages
  BY IdleFormed DEF Init, LoginStages, FlushStages
<1> QED BY <1>1, <1>2 DEF Init, OrderInv, VersionsOrderData

\* The persistVersions of the two stored copies order their data through every failed
\* write, lost answer, expiry and crash, with all that rests on it: what a handler under
\* way has read or raised, and where memory stands to both copies.
THEOREM OrderKept == NoFlap /\ Spec => []OrderInv
<1>1. CASE ~NoFlap
  BY <1>1
<1>2. CASE NoFlap
  <2>1. OrderInv /\ [Next]_vars => OrderInv'
    BY <1>2, OrderInductive
  <2> QED BY <2>1, OrderInitially, PTL DEF Spec
<1> QED BY <1>1, <1>2

\* Whichever copy a login prefers by its version is at least as new as the other one.
THEOREM CopiesOrdered == NoFlap /\ Spec => []VersionsOrderData
<1>1. OrderInv => VersionsOrderData
  BY DEF OrderInv
<1> QED BY <1>1, OrderKept, PTL

\* What one step does to the copies and to the memory, in a state where the order holds.
LoginStep ==
    mem = None /\ mem' # None =>
        /\ mem'.data >= mongo.data
        /\ redis # None => mem'.data >= redis.data
CopyStep ==
    /\ redis # None /\ redis' # None => redis'.data >= redis.data
    /\ mongo # None => mongo'.data >= mongo.data

LEMMA StepsForward == OrderInv /\ [Next]_vars => LoginStep /\ CopyStep
<1> SUFFICES ASSUME OrderInv, [Next]_vars PROVE LoginStep /\ CopyStep
  OBVIOUS
<1>0. /\ TypeOK
      /\ mem # None => Behind(redis) /\ Behind(mongo)
      /\ op.at \in {"choose", "overwrite", "backfill", "expire"} => LoginFormed
      /\ op.at \in {"flush", "redis", "degrade", "save", "persist"} => mem # None
  BY DEF OrderInv, LoginStages, FlushStages, FlushFormed
<1>r. \A x : RedisFails(x) => redis' = redis \/ redis' = x
  BY DEF RedisFails
<1>m. \A x : MongoFails(x) => mongo' = mongo \/ mongo' = x
  BY DEF MongoFails

<1>1. CASE Register
  BY <1>0, <1>1, Shapes DEF LoginStep, CopyStep, Register
<1>2. CASE Login
  BY <1>0, <1>2, Shapes DEF LoginStep, CopyStep, Login
<1>3. CASE LoginRefused
  BY <1>0, <1>3, Shapes DEF LoginStep, CopyStep, LoginRefused
<1>4. CASE Tick
  BY <1>0, <1>4, Shapes DEF LoginStep, CopyStep, Tick
<1>5. CASE Logout
  BY <1>0, <1>5, Shapes DEF LoginStep, CopyStep, Logout
<1>6. CASE Expire
  BY <1>0, <1>6, Shapes DEF LoginStep, CopyStep, Expire
<1>7. CASE Crash
  BY <1>0, <1>7, Shapes DEF LoginStep, CopyStep, Crash, Gone
<1>8. CASE Shutdown
  BY <1>0, <1>8, Shapes DEF LoginStep, CopyStep, Shutdown, Gone
<1>9. CASE LoginChoose
  BY <1>0, <1>9, Shapes, Copies DEF LoginStep, CopyStep, LoginChoose, Loaded, MongoNewer, LoginFormed
<1>10. CASE LoginOverwrite
  BY <1>0, <1>10, Shapes, <1>r, Copies DEF LoginStep, CopyStep, LoginOverwrite, Loaded, LoginFormed
<1>11. CASE LoginBackfill
  <2>1. /\ mem = None /\ mongo # None /\ op.copy # None /\ redis' = redis
        /\ mongo.data <= op.copy.data
        /\ redis # None => redis.data = op.copy.data
    BY <1>0, <1>11, Shapes DEF LoginBackfill, LoginFormed
  <2>2. mongo' = mongo \/ mongo' = CopyOf(op.copy)
    BY <1>11, <1>m DEF LoginBackfill
  <2>3. mem' = mem \/ mem' = Fresh(op.copy)
    BY <1>11 DEF LoginBackfill, Loaded
  <2> QED BY <1>0, <2>1, <2>2, <2>3, Shapes, Copies DEF LoginStep, CopyStep
<1>12. CASE LoginExpire
  <2>1. /\ op.copy # None /\ mongo # None /\ LoginFormed
        /\ mem' = Fresh(op.copy) /\ mongo' = mongo /\ mongo = CopyOf(op.copy)
        /\ redis # None => redis' = redis \/ redis' = Leased(redis)
    BY <1>0, <1>12, <1>r DEF LoginExpire, Loaded, LoginFormed
  <2> QED BY <1>0, <2>1, Shapes, Copies DEF LoginStep, CopyStep, LoginFormed
<1>13. CASE Change
  BY <1>0, <1>13, Shapes DEF LoginStep, CopyStep, Change
<1>14. CASE FlushBegin
  BY <1>0, <1>14, Shapes DEF LoginStep, CopyStep, FlushBegin, Raised
<1>15. CASE FlushRedis
  BY <1>0, <1>15, Shapes, <1>r, Copies DEF LoginStep, CopyStep, FlushRedis, Behind
<1>16. CASE FlushMongo
  <2>1. mem # None /\ Behind(mongo) /\ redis' = redis
    BY <1>0, <1>16 DEF FlushMongo
  <2>2. mongo' = mongo \/ mongo' = CopyOf(mem)
    BY <1>16, <1>m DEF FlushMongo
  <2> QED BY <1>0, <2>1, <2>2, Shapes, Copies DEF LoginStep, CopyStep, Behind
<1>17. CASE StopSave
  <2>1. mem # None /\ Behind(mongo) /\ redis' = redis
    BY <1>0, <1>17 DEF StopSave
  <2>2. mongo' = mongo \/ mongo' = CopyOf(mem)
    BY <1>17, FailedSave DEF StopSave
  <2> QED BY <1>0, <2>1, <2>2, Shapes, Copies DEF LoginStep, CopyStep, Behind
<1>18. CASE StopPersist
  <2>1. /\ mem' = None /\ mongo' = mongo
        /\ redis # None => redis' = redis \/ redis' = Kept(redis)
    BY <1>18, <1>r DEF StopPersist, PersistSnapshot
  <2> QED BY <1>0, <2>1, Shapes, Copies DEF LoginStep, CopyStep
<1>19. CASE UNCHANGED vars
  BY <1>0, <1>19, Shapes DEF LoginStep, CopyStep, vars
<1> QED
  BY <1>1, <1>2, <1>3, <1>4, <1>5, <1>6, <1>7, <1>8, <1>9, <1>10, <1>11, <1>12, <1>13, <1>14, <1>15, <1>16, <1>17, <1>18, <1>19 DEF Next, Serve

\* No login starts from a copy that is older than another one.
THEOREM LoginsTakeNewest == NoFlap /\ Spec => LoginTakesNewest
<1>1. OrderInv /\ [Next]_vars =>
          [mem = None /\ mem' # None =>
              /\ mem'.data >= mongo.data
              /\ redis # None => mem'.data >= redis.data]_vars
  BY StepsForward DEF LoginStep
<1> QED BY <1>1, OrderKept, PTL DEF Spec, LoginTakesNewest

\* No write of any handler moves a store's copy back.
THEOREM CopiesForward == NoFlap /\ Spec => CopiesNeverRegress
<1>1. OrderInv /\ [Next]_vars =>
          [/\ redis # None /\ redis' # None => redis'.data >= redis.data
           /\ mongo # None => mongo'.data >= mongo.data]_vars
  BY StepsForward DEF CopyStep
<1> QED BY <1>1, OrderKept, PTL DEF Spec, CopiesNeverRegress

\* With no failing redis and no node that dies, a snapshot in redis whose lease is running
\* after the player has left memory holds nothing mongo has not got.
NoLoss == NoFlap /\ Faults \cap {"redis", "crash", "shutdown"} = {}
LeaseInv == mem = None /\ redis # None /\ redis.ttl => mongo.data >= redis.data

LEMMA LeaseInductive == NoLoss /\ OrderInv /\ LeaseInv /\ [Next]_vars => LeaseInv'
<1> SUFFICES ASSUME NoLoss, OrderInv, LeaseInv, [Next]_vars PROVE LeaseInv'
  OBVIOUS
<1>0. /\ TypeOK
      /\ mem # None => Behind(redis)
      /\ mem # None \/ redis # None => mongo # None
      /\ op.at \in {"choose", "overwrite", "backfill", "expire"} => LoginFormed
      /\ op.at \in {"flush", "redis", "degrade", "save", "persist"} => mem # None
  BY DEF OrderInv, LoginStages, FlushStages, FlushFormed
<1>1. CASE /\ UNCHANGED <<mem, redis, mongo>>
  BY <1>1 DEF LeaseInv
<1>2. CASE Register
  BY <1>0, <1>2, Shapes, NewDocument DEF Register, LeaseInv
<1>3. CASE LoginChoose
  BY <1>3, Copies, Shapes, <1>0 DEF LoginChoose, Loaded, LoginFormed, LeaseInv
<1>4. CASE LoginOverwrite
  BY <1>4, Copies, Shapes, <1>0 DEF LoginOverwrite, Loaded, LoginFormed, LeaseInv, RedisFails, NoLoss
<1>5. CASE LoginBackfill
  <2>1. (mem' = mem /\ mongo' = CopyOf(op.copy)) \/ mem' = Fresh(op.copy)
    BY <1>5 DEF LoginBackfill, Loaded
  <2>2. redis' = redis /\ op.copy # None /\ (redis # None => redis.data = op.copy.data)
    BY <1>0, <1>5 DEF LoginBackfill, LoginFormed
  <2> QED BY <2>1, <2>2, Copies, Shapes, <1>0 DEF LeaseInv
<1>6. CASE LoginExpire
  <2>1. mem' = Fresh(op.copy) /\ op.copy # None
    BY <1>0, <1>6 DEF LoginExpire, Loaded, LoginFormed
  <2> QED BY <2>1, Copies, Shapes, <1>0 DEF LeaseInv
<1>7. CASE Change
  BY <1>7, <1>0, Shapes, DataReplaced, NotNone DEF Change, LeaseInv
<1>8. CASE FlushBegin
  <2>1. mem # None /\ (mem' = mem \/ mem' = Raised)
    BY <1>0, <1>8 DEF FlushBegin
  <2> QED BY <2>1, <1>0, Shapes, VerReplaced, NotNone DEF Raised, LeaseInv
<1>9. CASE FlushRedis
  <2>1. mem # None /\ (mem' = mem \/ mem' = [mem EXCEPT !.crc = mem.data])
    BY <1>0, <1>9 DEF FlushRedis
  <2> QED BY <2>1, <1>0, Shapes, CRCReplaced, NotNone DEF LeaseInv
<1>10. CASE FlushMongo
  <2>1. mem # None /\ mem.ver > 0 /\ Behind(mongo)
    BY <1>10 DEF FlushMongo, OrderInv, FlushStages, FlushFormed, IsRaised
  <2>2. mem' \in {Unraised, [mem EXCEPT !.crc = mem.data]}
    BY <1>10 DEF FlushMongo
  <2> QED BY <2>1, <2>2, <1>0, Shapes, VerReplaced, CRCReplaced, NotNone
          DEF Unraised, LeaseInv
<1>11. CASE StopSave
  <2>1. mem # None /\ Behind(redis) /\ redis' = redis
    BY <1>0, <1>11 DEF StopSave
  <2>2. mongo' = CopyOf(mem) \/ mem' = mem
    BY <1>11 DEF StopSave
  <2> QED BY <2>1, <2>2, Copies, Shapes, <1>0 DEF LeaseInv, Behind
<1>12. CASE StopPersist
  <2>1. redis' = PersistSnapshot
    BY <1>12 DEF StopPersist, RedisFails, NoLoss
  <2>2. redis' # None => redis'.ttl = FALSE
    BY <2>1 DEF PersistSnapshot, Kept
  <2> QED BY <2>2 DEF LeaseInv
<1>13. CASE Expire
  BY <1>13 DEF Expire, LeaseInv
<1>14. ~Crash /\ ~Shutdown
  BY DEF NoLoss, Crash, Shutdown
<1>15. Login \/ LoginRefused \/ Tick \/ Logout \/ UNCHANGED vars =>
           UNCHANGED <<mem, redis, mongo>>
  BY DEF Login, LoginRefused, Tick, Logout, vars
<1> QED
  BY <1>1, <1>2, <1>3, <1>4, <1>5, <1>6, <1>7, <1>8, <1>9, <1>10, <1>11, <1>12, <1>13,
     <1>14, <1>15 DEF Next, Serve

\* Without them, no lease of a player that has logged out is running over data mongo has
\* not got: the TTL takes nothing away.
THEOREM OfflineLeasesBacked == NoLoss /\ Spec => []OfflineLeaseBacked
<1>1. CASE ~NoLoss
  BY <1>1
<1>2. CASE NoLoss
  <2>1. OrderInv /\ LeaseInv /\ [Next]_vars => LeaseInv'
    BY <1>2, LeaseInductive
  <2>2. Init => LeaseInv
    BY DEF Init, LeaseInv
  <2>3. LeaseInv => OfflineLeaseBacked
    BY DEF LeaseInv, OfflineLeaseBacked
  <2>4. NoFlap
    BY <1>2 DEF NoLoss
  <2> QED BY <2>1, <2>2, <2>3, <2>4, OrderKept, PTL DEF Spec
<1> QED BY <1>1, <1>2

-------------------------------------------------------------------------------
(* What holds under every fault, a mongo that flaps included *)

\* Where a handler goes that starts a flush or the save of a stop flow.
LEMMA TickFlow ==
    ASSUME op' = Flushing("flush", "tick", 0, FALSE)
    PROVE  op' \in Handler /\ op'.at = "flush" /\ op'.flow = "tick"
<1>1. 0 \in 0 .. StopTries
  BY DurabilityAssumption
<1> QED BY <1>1 DEF Flushing, Handler, Stages

LEMMA StopFlow ==
    ASSUME NEW try \in 0 .. StopTries, op' = Flushing("flush", "stop", try, FALSE)
    PROVE  op' \in Handler /\ op'.at = "flush" /\ op'.flow = "stop" /\ op'.try = try
BY DEF Flushing, Handler, Stages

LEMMA SaveFlow ==
    ASSUME NEW try \in 0 .. StopTries, op' = Flushing("save", "stop", try, TRUE)
    PROVE  op' \in Handler /\ op'.at = "save" /\ op'.flow = "stop" /\ op'.try = try
BY DEF Flushing, Handler, Stages

LEMMA StagesFormed ==
    ASSUME StageInv
    PROVE  /\ op \in Handler /\ op.at \in Stages /\ op.flow \in {"tick", "stop"}
           /\ op.try \in 0 .. StopTries /\ op.copy \in Snapshot \cup {None}
           /\ mem \in Player \cup {None} /\ frozen \in BOOLEAN /\ logins \in Nat
           /\ redis \in Snapshot \cup {None} /\ mongo \in Copy \cup {None}
           /\ op.at \in {"flush", "redis", "degrade", "save", "persist"} => mem # None
BY DEF StageInv, TypeOK, Handler, FlushStages

\* What a login leaves in memory, once the document is there.
LEMMA StageLoaded ==
    ASSUME StageInv, mongo # None,
           Loaded(mongo) \/ (op.copy # None /\ Loaded(op.copy)),
           redis' \in Snapshot \cup {None}, mongo' \in Copy, mongo' # None, logins' \in Nat
    PROVE  StageInv'
<1>1. mem' \in Player /\ mem' # None
  <2>1. Fresh(mongo) \in Player /\ (op.copy # None => Fresh(op.copy) \in Player)
    BY Shapes, Copies DEF StageInv
  <2> QED BY <2>1, NotNone DEF Loaded
<1>2. op' = Idle /\ frozen' = FALSE
  BY DEF Loaded
<1>3. "idle" \notin LoginStages /\ "idle" \notin FlushStages
  BY DEF LoginStages, FlushStages
<1> QED BY <1>1, <1>2, <1>3, IdleFormed DEF StageInv, TypeOK

\* A handler that ends, or a node that goes down, leaves nothing to check of the handler.
LEMMA StageOver ==
    ASSUME StageInv, op' = Idle, mem' \in Player \cup {None}, frozen' \in BOOLEAN,
           redis' \in Snapshot \cup {None}, mongo' \in Copy \cup {None}, logins' \in Nat,
           mem' # None \/ redis' # None => mongo' # None
    PROVE  StageInv'
<1>1. "idle" \notin LoginStages /\ "idle" \notin FlushStages
  BY DEF LoginStages, FlushStages
<1> QED BY <1>1, IdleFormed DEF StageInv, TypeOK

\* A flush or a stop flow that goes on.
LEMMA StageGoes ==
    ASSUME StageInv, mongo # None, op' \in Handler, op'.at \in FlushStages,
           op'.flow = "stop" => op'.try > 0,
           mem' \in Player, op'.at \in {"redis", "degrade"} => mem'.ver > 0,
           frozen' \in BOOLEAN, redis' \in Snapshot \cup {None}, mongo' \in Copy, logins' \in Nat
    PROVE  StageInv'
<1>1. op'.at # "idle" /\ op'.at \notin LoginStages
  BY DEF LoginStages, FlushStages
<1>2. mem' # None /\ mongo' # None
  BY NotNone, NoneAssumption
<1> QED BY <1>1, <1>2 DEF StageInv, TypeOK, IsRaised

\* A flush that wrote, or had nothing to write.
LEMMA StageFlushed ==
    ASSUME StageInv, Flushed, mongo # None, mem' \in Player, op.at \in FlushStages,
           redis' \in Snapshot \cup {None}, mongo' = mongo, logins' \in Nat
    PROVE  StageInv'
<1>0. op \in Handler /\ frozen \in BOOLEAN /\ mongo \in Copy /\ (op.flow = "stop" => op.try > 0)
  BY StagesFormed DEF StageInv
<1>1. CASE op.flow = "tick"
  BY <1>0, <1>1, StageOver DEF Flushed
<1>2. CASE op.flow # "tick"
  <2>1. op' = [op EXCEPT !.at = "save"] /\ frozen' = frozen
    BY <1>2 DEF Flushed
  <2>2. op' \in Handler /\ op'.at = "save" /\ op'.flow = op.flow /\ op'.try = op.try
    BY <1>0, <2>1 DEF Handler, Stages
  <2>3. "save" \in FlushStages
    BY DEF FlushStages
  <2> QED BY <1>0, <2>1, <2>2, <2>3, StageGoes
<1> QED BY <1>1, <1>2

LEMMA StageInductive == StageInv /\ [Next]_vars => StageInv'
<1> SUFFICES ASSUME StageInv, [Next]_vars PROVE StageInv'
  OBVIOUS
<1>0. /\ TypeOK /\ op \in Handler /\ op.at \in Stages /\ op.flow \in {"tick", "stop"}
      /\ op.try \in 0 .. StopTries /\ op.copy \in Snapshot \cup {None}
      /\ mem \in Player \cup {None} /\ frozen \in BOOLEAN /\ logins \in Nat
      /\ redis \in Snapshot \cup {None} /\ mongo \in Copy \cup {None}
      /\ mem # None \/ redis # None => mongo # None
      /\ op.at \in {"flush", "redis", "degrade", "save", "persist"} => mem # None
      /\ op.at \in {"redis", "degrade"} => mem.ver > 0
      /\ op.at \in {"choose", "overwrite", "backfill", "expire"} =>
            mongo # None /\ op.flow = "tick" /\ (op.copy = None => op.at = "choose")
      /\ op.flow = "stop" => op.try > 0
      /\ op.at = "idle" => op = Idle
  BY StagesFormed DEF StageInv, FlushStages, LoginStages, IsRaised
<1>a. /\ 0 \in 0 .. StopTries /\ 1 \in 0 .. StopTries
      /\ FlushStages = {"flush", "redis", "degrade", "save", "persist"}
      /\ LoginStages = {"choose", "overwrite", "backfill", "expire"}
      /\ FlushStages \subseteq Stages /\ LoginStages \subseteq Stages
  BY DurabilityAssumption DEF Stages, FlushStages, LoginStages
<1>b. op = Idle => op.at = "idle" /\ op.flow = "tick"
  BY IdleFormed
\* What the calls write.
<1>c. /\ mem # None =>
            /\ mem \in Player /\ mem.data \in Nat /\ mem.ver \in Nat
            /\ CopyOf(mem) \in Copy /\ Leased(mem) \in Snapshot
            /\ [mem EXCEPT !.crc = mem.data] \in Player
            /\ [mem EXCEPT !.crc = mem.data].ver = mem.ver
      /\ op.copy # None => CopyOf(op.copy) \in Copy
      /\ mongo # None => mongo \in Copy /\ Leased(mongo) \in Snapshot
      /\ redis # None => Leased(redis) \in Snapshot /\ Kept(redis) \in Snapshot
  BY <1>0, Shapes, Copies, CRCReplaced
<1>d. \A x \in Copy : x # None
  BY NoneAssumption
<1>e. /\ \A x \in Snapshot \cup {None} : RedisFails(x) => redis' \in Snapshot \cup {None}
      /\ \A x \in Copy : mongo # None /\ MongoFails(x) => mongo' \in Copy
  BY <1>0, <1>c DEF RedisFails, MongoFails
<1>g. \A at \in FlushStages :
          /\ [op EXCEPT !.at = at] \in Handler /\ [op EXCEPT !.at = at].at = at
          /\ [op EXCEPT !.at = at].flow = op.flow /\ [op EXCEPT !.at = at].try = op.try
  BY <1>0, <1>a DEF Handler
<1>h. {"flush", "redis", "degrade", "save", "persist"} \subseteq FlushStages
  BY <1>a
<1>1. CASE Register
  <2>1. mongo' \in Copy /\ mongo' # None
    BY <1>1, NewDocument DEF Register
  <2> QED BY <1>0, <1>1, <2>1, StageOver DEF Register
<1>2. CASE Login
  <2>1. Loading("choose", redis) \in Handler /\ Loading("choose", redis).at = "choose"
        /\ Loading("choose", redis).flow = "tick"
    BY <1>0, <1>a, LoadingFormed
  <2> QED BY <1>0, <1>a, <1>2, <2>1 DEF Login, StageInv, TypeOK
<1>3. CASE LoginRefused
  BY <1>0, <1>3, StageOver DEF LoginRefused
<1>4. CASE LoginChoose
  <2>1. CASE op.copy = None
    BY <1>0, <1>c, <1>4, <2>1, StageLoaded DEF LoginChoose
  <2>2. CASE op.copy # None
    <3>1. PICK at \in {"overwrite", "backfill"} : op' = Loading(at, op.copy)
      BY <1>4, <2>2 DEF LoginChoose
    <3>2. op' \in Handler /\ op'.at = at /\ op'.copy = op.copy /\ op'.flow = "tick"
      BY <1>0, <1>a, <3>1, LoadingFormed
    <3> QED BY <1>0, <1>a, <1>4, <2>2, <3>2 DEF LoginChoose, StageInv, TypeOK
  <2> QED BY <2>1, <2>2
<1>5. CASE LoginOverwrite
  <2>1. CASE redis' = Leased(mongo) /\ Loaded(mongo)
    BY <1>0, <1>c, <1>5, <2>1, StageLoaded DEF LoginOverwrite
  <2>2. CASE RedisFails(Leased(mongo)) /\ op' = Idle /\ UNCHANGED <<mem, frozen>>
    BY <1>0, <1>c, <1>e, <1>5, <2>2, StageOver DEF LoginOverwrite
  <2> QED BY <1>5, <2>1, <2>2 DEF LoginOverwrite
<1>6. CASE LoginBackfill
  <2>0. op.copy # None /\ mongo # None /\ CopyOf(op.copy) \in Copy
    BY <1>0, <1>c, <1>6 DEF LoginBackfill
  <2>1. CASE mongo' = CopyOf(op.copy) /\ op' = Loading("expire", op.copy) /\ UNCHANGED <<mem, frozen>>
    <3>1. op' \in Handler /\ op'.at = "expire" /\ op'.copy = op.copy /\ op'.flow = "tick"
      BY <1>0, <1>a, <2>1, LoadingFormed
    <3> QED BY <1>0, <1>a, <1>d, <1>6, <2>0, <2>1, <3>1 DEF LoginBackfill, StageInv, TypeOK
  <2>2. CASE MongoFails(CopyOf(op.copy)) /\ Loaded(op.copy)
    <3>1. mongo' \in Copy /\ mongo' # None
      BY <1>d, <1>e, <2>0, <2>2
    <3> QED BY <1>0, <1>6, <2>0, <2>2, <3>1, StageLoaded DEF LoginBackfill
  <2> QED BY <1>6, <2>1, <2>2 DEF LoginBackfill
<1>7. CASE LoginExpire
  <2>1. redis' \in Snapshot \cup {None}
    BY <1>0, <1>c, <1>e, <1>7 DEF LoginExpire
  <2> QED BY <1>0, <1>c, <1>7, <2>1, StageLoaded DEF LoginExpire
<1>8. CASE Change
  <2>1. mem' \in Player /\ op' = Idle
    BY <1>0, <1>c, <1>8, DataReplaced DEF Change
  <2> QED BY <1>0, <1>8, <2>1, StageOver DEF Change
<1>9. CASE Tick \/ Logout
  <2>1. mem # None /\ mongo # None /\ UNCHANGED <<mem, frozen, redis, mongo, logins>>
    BY <1>0, <1>9 DEF Tick, Logout
  <2>2. op' \in Handler /\ op'.at = "flush" /\ (op'.flow = "stop" => op'.try > 0)
    <3>1. CASE Tick
      BY <3>1, TickFlow DEF Tick
    <3>2. CASE Logout
      <4>1. op' = Flushing("flush", "stop", 1, FALSE)
        BY <3>2 DEF Logout
      <4>2. op' \in Handler /\ op'.at = "flush" /\ op'.try = 1
        BY <1>a, <4>1, StopFlow
      <4> QED BY <4>2
    <3> QED BY <1>9, <3>1, <3>2
  <2>3. mem' \in Player /\ mongo' \in Copy
    BY <1>0, <2>1
  <2>4. /\ op'.at \in FlushStages /\ op'.at \notin {"redis", "degrade"}
        /\ frozen' \in BOOLEAN /\ redis' \in Snapshot \cup {None} /\ logins' \in Nat
    BY <1>0, <1>h, <2>1, <2>2
  <2> QED BY <2>1, <2>2, <2>3, <2>4, StageGoes
<1>10. CASE FlushBegin
  <2>0. mem # None /\ mongo # None /\ UNCHANGED <<redis, mongo, logins>>
    BY <1>0, <1>10 DEF FlushBegin
  <2>1. CASE Dirty
    <3>1. mem' = [mem EXCEPT !.ver = mem.ver + 1] /\ op' = [op EXCEPT !.at = "redis"] /\ frozen' = frozen
      BY <1>10, <2>1 DEF FlushBegin, Raised
    <3>2. mem' \in Player /\ mem'.ver > 0
      BY <1>c, <2>0, <3>1, VerReplaced
    <3>3. op' \in Handler /\ op'.at = "redis" /\ op'.flow = op.flow /\ op'.try = op.try
      BY <1>0, <1>a, <3>1, MovedFormed DEF Handler
    <3> QED BY <1>0, <1>a, <1>c, <2>0, <3>1, <3>2, <3>3, StageGoes
  <2>2. CASE ~Dirty
    BY <1>0, <1>a, <1>c, <1>10, <2>0, <2>2, StageFlushed DEF FlushBegin
  <2> QED BY <2>1, <2>2
<1>11. CASE FlushRedis
  <2>0. mem # None /\ mongo # None /\ mem.ver > 0 /\ UNCHANGED <<mongo, logins>>
    BY <1>0, <1>11 DEF FlushRedis
  <2>1. CASE redis' = Leased(mem) /\ mem' = [mem EXCEPT !.crc = mem.data] /\ Flushed
    <3>1. mem' \in Player /\ op.at \in FlushStages /\ redis' \in Snapshot \cup {None}
          /\ mongo' = mongo /\ logins' \in Nat
      BY <1>0, <1>c, <1>h, <1>11, <2>0, <2>1 DEF FlushRedis
    <3> QED BY <2>0, <2>1, <3>1, StageFlushed
  <2>2. CASE RedisFails(Leased(mem)) /\ op' = [op EXCEPT !.at = "degrade"] /\ UNCHANGED <<mem, frozen>>
    <3>1. op' \in Handler /\ op'.at = "degrade" /\ op'.flow = op.flow /\ op'.try = op.try
      BY <1>0, <1>a, <2>2, MovedFormed DEF Handler
    <3> QED BY <1>0, <1>a, <1>c, <1>e, <2>0, <2>2, <3>1, StageGoes
  <2> QED BY <1>11, <2>1, <2>2 DEF FlushRedis
<1>12. CASE FlushMongo
  <2>0. mem # None /\ mongo # None /\ mem.ver > 0 /\ UNCHANGED <<redis, logins>>
    BY <1>0, <1>12 DEF FlushMongo
  <2>1. CASE /\ mongo' = CopyOf(mem) /\ mem' = [mem EXCEPT !.crc = mem.data] /\ UNCHANGED frozen
             /\ op' = IF op.flow = "tick" THEN Flushing("flush", "stop", 1, FALSE)
                      ELSE [op EXCEPT !.at = "save"]
    <3>1. op' \in Handler /\ op'.at \in {"flush", "save"} /\ (op'.flow = "stop" => op'.try > 0)
      <4>1. CASE op.flow = "tick"
        <5>1. op' = Flushing("flush", "stop", 1, FALSE)
          BY <2>1, <4>1
        <5>2. op' \in Handler /\ op'.at = "flush" /\ op'.try = 1
          BY <1>a, <5>1, StopFlow
        <5> QED BY <5>2
      <4>2. CASE op.flow # "tick"
        BY <1>0, <1>g, <1>h, <2>1, <4>2
      <4> QED BY <4>1, <4>2
    <3>2. mem' \in Player /\ mongo' \in Copy /\ frozen' \in BOOLEAN
          /\ redis' \in Snapshot \cup {None} /\ logins' \in Nat
      BY <1>0, <1>c, <2>0, <2>1
    <3>3. op'.at \in FlushStages /\ op'.at \notin {"redis", "degrade"}
      BY <1>h, <3>1
    <3> QED BY <2>0, <3>1, <3>2, <3>3, StageGoes
  <2>2. CASE /\ MongoFails(CopyOf(mem)) /\ mem' = Unraised
             /\ IF op.flow = "tick" THEN op' = Idle /\ frozen' = TRUE
                ELSE op' = Flushing("save", "stop", op.try, TRUE) /\ UNCHANGED frozen
    <3>1. mem' \in Player /\ mongo' \in Copy
      BY <1>c, <1>e, <2>0, <2>2, VerReplaced DEF Unraised
    <3>2. CASE op.flow = "tick"
      BY <1>0, <1>d, <2>0, <2>2, <3>1, <3>2, StageOver
    <3>3. CASE op.flow # "tick"
      <4>1. op' \in Handler /\ op'.at = "save" /\ op'.try > 0
        <5>1. op' = Flushing("save", "stop", op.try, TRUE) /\ op.try \in 0 .. StopTries /\ op.try > 0
          BY <1>0, <2>2, <3>3
        <5> QED BY <5>1, SaveFlow
      <4> QED BY <1>0, <1>a, <2>0, <2>2, <3>1, <3>3, <4>1, StageGoes
    <3> QED BY <3>2, <3>3
  <2> QED BY <1>12, <2>1, <2>2 DEF FlushMongo
<1>13. CASE StopSave
  <2>0. mem # None /\ mongo # None /\ mem \in Player /\ UNCHANGED <<redis, logins>>
    BY <1>0, <1>13 DEF StopSave
  <2>1. CASE mongo' = CopyOf(mem) /\ mem' = None /\ op' = Idle /\ frozen' = FALSE
    BY <1>0, <1>c, <1>d, <2>0, <2>1, StageOver
  <2>2. CASE /\ MongoFails(IF SaveReaches THEN CopyOf(mem) ELSE mongo) /\ UNCHANGED <<mem, frozen>>
             /\ op' = IF LastTry THEN [op EXCEPT !.at = "persist"]
                      ELSE Flushing("flush", "stop", NextTry, FALSE)
    <3>1. mongo' \in Copy
      BY <1>0, <1>c, <2>0, <2>2, FailedSave
    <3>2. op' \in Handler /\ op'.at \in {"persist", "flush"} /\ (op'.flow = "stop" => op'.try > 0)
      <4>1. CASE LastTry
        BY <1>0, <1>a, <2>2, <4>1, MovedFormed DEF Handler
      <4>2. CASE ~LastTry
        <5>1. NextTry \in 0 .. StopTries /\ NextTry > 0
          BY <1>0, <4>2, DurabilityAssumption DEF NextTry, LastTry
        <5>2. op' = Flushing("flush", "stop", NextTry, FALSE)
          BY <2>2, <4>2
        <5>3. op' \in Handler /\ op'.at = "flush" /\ op'.try = NextTry
          BY <5>1, <5>2, StopFlow
        <5> QED BY <5>1, <5>3
      <4> QED BY <4>1, <4>2
    <3>3. mem' \in Player /\ frozen' \in BOOLEAN /\ redis' \in Snapshot \cup {None} /\ logins' \in Nat
      BY <1>0, <2>0, <2>2
    <3>4. op'.at \in FlushStages /\ op'.at \notin {"redis", "degrade"}
      BY <1>h, <3>2
    <3> QED BY <2>0, <3>1, <3>2, <3>3, <3>4, StageGoes
  <2> QED BY <1>13, <2>1, <2>2 DEF StopSave
<1>14. CASE StopPersist
  <2>1. redis' \in Snapshot \cup {None} /\ mongo # None /\ mongo' = mongo /\ logins' = logins
        /\ mem' = None /\ op' = Idle /\ frozen' = FALSE
    BY <1>0, <1>c, <1>e, <1>14 DEF StopPersist, PersistSnapshot
  <2> QED BY <1>0, <2>1, StageOver
<1>15. CASE Expire
  <2>1. redis' = None /\ mongo # None /\ UNCHANGED <<mem, frozen, mongo, op, logins>>
    BY <1>0, <1>15 DEF Expire
  <2>2. TypeOK'
    BY <1>0, <2>1 DEF TypeOK
  <2>3. IsRaised' = IsRaised
    BY <2>1 DEF IsRaised
  <2> QED BY <2>1, <2>2, <2>3 DEF StageInv
<1>16. CASE Crash \/ Shutdown
  BY <1>0, <1>16, StageOver DEF Crash, Shutdown, Gone
<1>17. CASE UNCHANGED vars
  BY <1>17 DEF vars, StageInv, TypeOK, IsRaised
<1> QED
  BY <1>1, <1>2, <1>3, <1>4, <1>5, <1>6, <1>7, <1>8, <1>9, <1>10, <1>11, <1>12, <1>13,
     <1>14, <1>15, <1>16, <1>17 DEF Next, Serve

LEMMA StageInitially == Init => StageInv
<1>1. "idle" \notin LoginStages /\ "idle" \notin FlushStages
  BY DEF LoginStages, FlushStages
<1> SUFFICES ASSUME Init PROVE StageInv
  OBVIOUS
<1>2. TypeOK
  BY IdleFormed DEF Init, TypeOK
<1> QED BY <1>1, <1>2, IdleFormed DEF Init, StageInv

\* Every store, the memory and the handler hold values of their shape, under every fault.
THEOREM TypeCorrect == Spec => []TypeOK
<1>1. StageInv => TypeOK
  BY DEF StageInv
<1> QED BY <1>1, StageInductive, StageInitially, PTL DEF Spec

\* A stop flow is some calls away from its end, and one step brings it nearer.
LEMMA StopStep ==
    ASSUME StageInv, StageInv', Next, op.flow = "stop"
    PROVE  mem' = None \/ (op'.flow = "stop" /\ StopCalls' < StopCalls)
<1>0. /\ op \in Handler /\ op' \in Handler /\ op.at \in FlushStages /\ mem # None
      /\ op.try \in 1 .. StopTries /\ op.at # "idle" /\ op # Idle
  <2>1. op \in Handler /\ op.at \in Stages /\ op.try \in 0 .. StopTries /\ op # Idle
    BY StagesFormed, IdleFormed
  <2>2. op' \in Handler
    BY DEF StageInv, TypeOK
  <2> QED BY <2>1, <2>2 DEF StageInv, Stages, FlushStages, LoginStages
<1>1. StopTries \in Nat
  BY DurabilityAssumption
<1>m. ASSUME NEW at \in FlushStages, op' = [op EXCEPT !.at = at], StageCalls[at] < StageCalls[op.at]
      PROVE  op'.flow = "stop" /\ StopCalls' < StopCalls
  <2>1. op'.flow = "stop" /\ op'.at = at /\ op'.try = op.try
    BY <1>0, <1>m DEF Handler
  <2>2. \A a \in FlushStages : StageCalls[a] \in Nat
    BY DEF StageCalls, FlushStages
  <2>3. PICK x, y : x = StageCalls[at] /\ y = StageCalls[op.at]
    OBVIOUS
  <2> QED BY <1>0, <1>1, <1>m, <2>1, <2>2, <2>3 DEF StopCalls
<1>s. /\ StageCalls["redis"] < StageCalls["flush"] /\ StageCalls["save"] < StageCalls["flush"]
      /\ StageCalls["degrade"] < StageCalls["redis"] /\ StageCalls["save"] < StageCalls["redis"]
      /\ StageCalls["save"] < StageCalls["degrade"] /\ StageCalls["persist"] < StageCalls["save"]
      /\ {"flush", "redis", "degrade", "save", "persist"} \subseteq FlushStages
  BY DEF StageCalls, FlushStages
<1>2. CASE FlushBegin \/ FlushRedis \/ (FlushMongo /\ op' = [op EXCEPT !.at = "save"])
  <2>1. CASE FlushBegin
    <3>1. op.at = "flush" /\ op' \in {[op EXCEPT !.at = "redis"], [op EXCEPT !.at = "save"]}
      BY <2>1 DEF FlushBegin, Flushed
    <3> QED BY <1>m, <1>s, <3>1
  <2>2. CASE FlushRedis
    <3>1. op.at = "redis" /\ op' \in {[op EXCEPT !.at = "degrade"], [op EXCEPT !.at = "save"]}
      BY <2>2 DEF FlushRedis, Flushed
    <3> QED BY <1>m, <1>s, <3>1
  <2>3. CASE FlushMongo /\ op' = [op EXCEPT !.at = "save"]
    BY <1>m, <1>s, <2>3 DEF FlushMongo
  <2> QED BY <1>2, <2>1, <2>2, <2>3
<1>f. ASSUME NEW at, NEW try, NEW down, op' = Flushing(at, "stop", try, down)
      PROVE  op'.flow = "stop" /\ op'.at = at /\ op'.try = try
  BY <1>f DEF Flushing
<1>3. CASE FlushMongo /\ op' = Flushing("save", "stop", op.try, TRUE)
  <2>1. op'.flow = "stop" /\ op'.at = "save" /\ op'.try = op.try /\ op.at = "degrade"
    BY <1>3, <1>f DEF FlushMongo
  <2> QED BY <1>0, <1>1, <2>1 DEF StopCalls, StageCalls
<1>4. CASE StopSave
  <2>1. CASE mem' = None
    BY <2>1
  <2>2. CASE LastTry /\ op' = [op EXCEPT !.at = "persist"]
    BY <1>m, <1>s, <1>4, <2>2 DEF StopSave
  <2>3. CASE op' = Flushing("flush", "stop", NextTry, FALSE)
    <3>1. op'.flow = "stop" /\ op'.at = "flush" /\ op'.try = op.try + 1 /\ op.at = "save"
      BY <1>4, <1>f, <2>3 DEF StopSave, NextTry
    <3> QED BY <1>0, <1>1, <3>1 DEF StopCalls, StageCalls
  <2> QED BY <1>4, <2>1, <2>2, <2>3 DEF StopSave
<1>c. FlushMongo => op' \in {[op EXCEPT !.at = "save"], Flushing("save", "stop", op.try, TRUE)}
  BY DEF FlushMongo
<1>5. CASE StopPersist \/ Crash
  BY <1>5 DEF StopPersist, Crash, Gone
<1> QED
  BY <1>0, <1>c, <1>2, <1>3, <1>4, <1>5 DEF Next, Serve, Register, Login, LoginRefused, Change, Tick, Logout,
     LoginChoose, LoginOverwrite, LoginBackfill, LoginExpire, Expire, Shutdown, FlushStages

\* Once a stop flow runs, no fault and no interleaving makes it longer than four calls
\* for each try and the last one: what is left to fairness is only that its calls return.
THEOREM StopsShorten == Spec => StopShortens
<1>1. StageInv /\ StageInv' /\ [Next]_vars =>
         [op.flow = "stop" => mem' = None \/ (op'.flow = "stop" /\ StopCalls' < StopCalls)]_vars
  BY StopStep
<1> QED BY <1>1, StageInductive, StageInitially, PTL DEF Spec, StopShortens
===============================================================================
