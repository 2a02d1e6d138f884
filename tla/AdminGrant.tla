------------------------------ MODULE AdminGrant ------------------------------
(***************************************************************************)
(* The grants of the game's admin interface (biz/handler/admin.go) on top   *)
(* of the player they change. A request names an idempotency key: the       *)
(* handler claims the key with an audit record, asks the player's actor for *)
(* the change, and closes the record; a request whose key is taken is       *)
(* answered from the record. Requests run in several instances; the audit   *)
(* records are in the same mongo as the player's document.                  *)
(***************************************************************************)
EXTENDS PlayerDurability

CONSTANTS
    Requests,   \* handlers of requests, each used again and again
    Keys,       \* idempotency keys
    Params,     \* hashes of the parameters of a grant
    MaxAsks     \* bound: requests in a behaviour

ASSUME GrantAssumption == MaxAsks \in Nat

Record == [hash : Params, result : {"pending", "success", "failed"}]
Grant  == [key : Keys, hash : Params]
Free   == "free"

ASSUME RecordAssumption == None \notin Record

VARIABLES
    audit,     \* the record of each key, or None
    request,   \* what a handler does and for which grant
    mail,      \* grants on their way to the actor
    granted,   \* history: grants that changed the player, with the data they made
    told,      \* history: grants answered as applied
    asks       \* requests made

admin == <<audit, request, mail, granted, told, asks>>

AdminInit ==
    /\ audit = [k \in Keys |-> None]
    /\ request \in [Requests -> {[at |-> Free, of |-> g] : g \in Grant}]
    /\ mail = {} /\ granted = {} /\ told = {} /\ asks = 0

Goto(r, at) == request' = [request EXCEPT ![r].at = at]
Key(r)      == request[r].of.key
Waits(g)    == {r \in Requests : request[r] = [at |-> "wait", of |-> g]}
PlayerStays == UNCHANGED vars

\* validateGrant has accepted the request. A dry run takes no key and changes nothing: it
\* is left out.
Ask(r, g) ==
    /\ request[r].at = Free /\ asks < MaxAsks
    /\ asks' = asks + 1
    /\ request' = [request EXCEPT ![r] = [at |-> "insert", of |-> g]]
    /\ PlayerStays /\ UNCHANGED <<audit, mail, granted, told>>

Claimed(r) == [audit EXCEPT ![Key(r)] = [hash |-> request[r].of.hash, result |-> "pending"]]

\* Mutant: the index on the key is not unique.
InsertAudit_NotUnique(r) ==
    /\ request[r].at = "insert"
    /\ audit' = Claimed(r) /\ Goto(r, "send")
    /\ PlayerStays /\ UNCHANGED <<mail, granted, told, asks>>

\* The key's record is inserted, or found to exist; an insertion that fails, arrived or
\* not, refuses the request.
InsertAudit(r) ==
    /\ request[r].at = "insert"
    /\ \/ audit[Key(r)] = None /\ audit' = Claimed(r) /\ Goto(r, "send")
       \/ audit[Key(r)] # None /\ UNCHANGED audit /\ Goto(r, "replay")
       \/ /\ "mongo" \in Faults /\ Goto(r, Free)
          /\ audit' \in {audit} \cup
                (IF "ambiguous" \in Faults /\ audit[Key(r)] = None THEN {Claimed(r)} ELSE {})
    /\ PlayerStays /\ UNCHANGED <<mail, granted, told, asks>>

\* replayGrant: the record's success answers a request for the same parameters. Other
\* parameters, a record that is pending or failed and one that cannot be read are errors.
ReplayGrant(r) ==
    LET g == request[r].of
        same == audit[g.key].hash = g.hash /\ audit[g.key].result = "success" IN
    /\ request[r].at = "replay"
    /\ \/ told' = (IF same THEN told \cup {g} ELSE told)
       \/ "mongo" \in Faults /\ UNCHANGED told
    /\ Goto(r, Free)
    /\ PlayerStays /\ UNCHANGED <<audit, mail, granted, asks>>

Send(r) ==
    /\ request[r].at = "send"
    /\ mail' = mail \cup {request[r].of}
    /\ Goto(r, "wait")
    /\ PlayerStays /\ UNCHANGED <<audit, granted, told, asks>>

\* The reply reaches the handler that waits for it, if one still does.
Reply(g, at) ==
    request' = [r \in Requests |-> IF r \in Waits(g) THEN [at |-> at, of |-> g] ELSE request[r]]

\* PlayerActor.GrantItem: a player who is not online, or frozen, is refused.
Deliver(g) ==
    /\ g \in mail /\ op = Idle
    /\ mail' = mail \ {g}
    /\ \/ /\ Change
          /\ granted' = granted \cup {[of |-> g, data |-> mem'.data]}
          /\ Reply(g, "success")
       \/ /\ mem = None \/ frozen
          /\ Reply(g, "failed")
          /\ PlayerStays /\ UNCHANGED granted
    /\ UNCHANGED <<audit, told, asks>>

\* A message is lost, on its way or with the node of the actor.
Lose(g) ==
    /\ g \in mail
    /\ mail' = mail \ {g}
    /\ PlayerStays /\ UNCHANGED <<audit, request, granted, told, asks>>

\* The deadline of the call: its message may still arrive.
TimeOut(r) ==
    /\ request[r].at = "wait"
    /\ Goto(r, "failed")
    /\ PlayerStays /\ UNCHANGED <<audit, mail, granted, told, asks>>

Closed(r) == [audit EXCEPT ![Key(r)].result = request[r].at]

\* finishAudit, whose failure is not looked at, and the answer.
FinishAudit(r) ==
    /\ request[r].at \in {"success", "failed"}
    /\ \/ audit' = Closed(r)
       \/ "mongo" \in Faults
             /\ audit' \in {audit} \cup (IF "ambiguous" \in Faults THEN {Closed(r)} ELSE {})
    /\ told' = (IF request[r].at = "success" THEN told \cup {request[r].of} ELSE told)
    /\ Goto(r, Free)
    /\ PlayerStays /\ UNCHANGED <<mail, granted, asks>>

\* The instance that runs the handler dies.
Die(r) ==
    /\ request[r].at # Free
    /\ Goto(r, Free)
    /\ PlayerStays /\ UNCHANGED <<audit, mail, granted, told, asks>>

AdminStep ==
    \/ \E r \in Requests :
          \/ \E g \in Grant : Ask(r, g)
          \/ InsertAudit(r) \/ ReplayGrant(r) \/ Send(r) \/ TimeOut(r) \/ FinishAudit(r)
          \/ Die(r)
    \/ \E g \in Grant : Deliver(g) \/ Lose(g)

GrantNext ==
    \/ Next /\ UNCHANGED admin
    \/ AdminStep

allVars == <<vars, admin>>

GrantSpec == Init /\ AdminInit /\ [][GrantNext]_allVars

\* A handler of the actor that has been entered runs to its end.
LiveGrantSpec == GrantSpec /\ WF_allVars(Serve /\ UNCHANGED admin)

-------------------------------------------------------------------------------
(* Properties *)

Places == {Free, "insert", "replay", "send", "wait", "success", "failed"}

AdminTypeOK ==
    /\ audit \in [Keys -> Record \cup {None}]
    /\ request \in [Requests -> [at : Places, of : Grant]]
    /\ mail \subseteq Grant /\ told \subseteq Grant
    /\ \A x \in granted : x.of \in Grant

IsGranted(g) == \E x \in granted : x.of = g
Recorded(g)  == audit[g.key] # None /\ audit[g.key].hash = g.hash

\* However often a request is repeated, times out, arrives late or is cut short: a key
\* changes the player at most once, never without a record of the same parameters, and a
\* record of success and an answer that says so tell of a change that was made.
AuditHonest ==
    /\ \A x, y \in granted : x.of.key = y.of.key => x = y
    /\ \A x \in granted : Recorded(x.of)
    /\ \A g \in Grant : Recorded(g) /\ audit[g.key].result = "success" => IsGranted(g)
    /\ \A g \in told : IsGranted(g)

\* A request that has claimed its key is the only one that may send for it.
Holds(r) == request[r].at \in {"send", "wait", "success", "failed"}

KeysHeld ==
    /\ \A r \in Requests : Holds(r) => Recorded(request[r].of)
    /\ \A r, q \in Requests : Holds(r) /\ Holds(q) /\ Key(r) = Key(q) => r = q
    /\ \A r \in Requests : request[r].at = "replay" => audit[Key(r)] # None

\* What is on its way was sent once and has not arrived, and a success was told by the actor.
SentOnce ==
    /\ \A r \in Requests : request[r].at = "send" =>
          request[r].of \notin mail /\ ~IsGranted(request[r].of)
    /\ \A r \in Requests : request[r].at = "success" => IsGranted(request[r].of)
    /\ \A g \in mail : ~IsGranted(g) /\ Recorded(g)

AuditInv == AdminTypeOK /\ AuditHonest /\ KeysHeld /\ SentOnce

\* With redis up and no node lost, a grant that was made stays: the player in memory has
\* it, and one who has left comes back with it, whatever mongo did at his logins and
\* logouts.
Has(g, x) == x # None /\ x.data >= g.data

GrantsKept ==
    \A g \in granted :
        IF mem # None THEN Has(g, mem)
        ELSE Has(g, mongo) \/ (Has(g, redis) /\ ~redis.ttl)
===============================================================================
