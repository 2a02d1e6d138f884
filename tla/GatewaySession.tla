---------------------------- MODULE GatewaySession ----------------------------
(***************************************************************************)
(* The distributed business session of the gateway service: the local      *)
(* session table of every gateway instance (session.Manager), the route    *)
(* table they share in redis, the login, resume, logout and heartbeat      *)
(* handlers, the expiry sweep, and the kick notices instances send each    *)
(* other over NATS.                                                        *)
(*                                                                         *)
(* One action is one critical section of the manager's mutex, one redis    *)
(* command or one remote call, so that every interleaving of concurrent    *)
(* handlers the code allows is a behaviour.                                *)
(***************************************************************************)
EXTENDS Naturals

CONSTANTS
    Players,
    Instances,  \* gateway instances
    Conns,      \* client connections, a connection never moves
    Home,       \* Home[c]: the instance connection c terminates on
    ConnID,     \* ConnID[c]: the transport's number for c, unique per transport
    UsableBy,   \* UsableBy[c]: the players that log in over c
    MaxLogins,  \* bound: logins, hence session tokens, in a behaviour
    Requests,   \* the client requests of the workload
    Faults,     \* the faults of the environment
    None

ASSUME GatewayAssumption ==
    /\ Home \in [Conns -> Instances]
    /\ ConnID \in [Conns -> Nat \ {0}]
    /\ UsableBy \in [Conns -> SUBSET Players]
    /\ MaxLogins \in Nat
    /\ Requests \subseteq {"login", "resume", "logout", "heartbeat"}
    /\ Faults \subseteq {"lapse", "loss", "redis"}

\* Tokens are random in the code: numbering them in order of issue makes them distinct.
Token   == 1 .. MaxLogins
Session == [token : Token, conn : Conns, lapsed : BOOLEAN]
\* Route.InstanceID is Home[conn]; the connection's number is ConnID[conn].
Route   == [conn : Conns, token : Token]

ASSUME NoneAssumption ==
    None \notin Players \cup Conns \cup Session \cup Route

ReqSteps   == {"idle", "bind", "route", "kick", "resumeBind", "resumeRoute",
               "unbind", "check", "delete", "stop", "renew"}
KickSteps  == {"idle", "unbind", "check", "delete"}
SweepSteps == {"idle", "next", "taken", "check", "delete"}

\* Where a handler stands, and its local variables.
Request == [at : ReqSteps, player : Players \cup {None}, token : Token \cup {0},
            old : Route \cup {None}]
Kick    == [at : KickSteps, player : Players \cup {None}, conn : Conns \cup {None}]
Sweep   == [at : SweepSteps, todo : SUBSET Players, player : Players \cup {None},
            conn : Conns \cup {None}, swept : SUBSET Players]

VARIABLES
    local,    \* local[i][p]: the session of p in the table of instance i
    refs,     \* refs[c]: the player connection c stands for (index by Conn.Ref)
    toks,     \* toks[i][t]: the player token t stands for on i (index by token)
    route,    \* route[p]: the redis route of p
    issued,   \* issued[t]: the player token t was issued to
    granted,  \* tokens whose login has been answered, hence known to the client
    retired,  \* history: tokens overwritten in redis by a later registration
    actor,    \* actor[p]: game has p loaded (PlayerActor between Login and Logout)
    req,      \* req[c]: the request being served on connection c
    notices,  \* kick notices published and not yet delivered
    kick,     \* kick[i]: the kick notice being handled on instance i
    sweep     \* sweep[i]: the expiry sweep of instance i

tables  == <<local, refs, toks>>
tokens  == <<issued, granted, retired>>
vars    == <<tables, route, tokens, actor, req, notices, kick, sweep>>

Idle      == [at |-> "idle", player |-> None, token |-> 0, old |-> None]
KickIdle  == [at |-> "idle", player |-> None, conn |-> None]
SweepIdle == [at |-> "idle", todo |-> {}, player |-> None, conn |-> None, swept |-> {}]

Init ==
    /\ local   = [i \in Instances |-> [p \in Players |-> None]]
    /\ refs    = [c \in Conns |-> None]
    /\ toks    = [i \in Instances |-> [t \in Token |-> None]]
    /\ route   = [p \in Players |-> None]
    /\ issued  = [t \in Token |-> None]
    /\ granted = {}
    /\ retired = {}
    /\ actor   = [p \in Players |-> FALSE]
    /\ req     = [c \in Conns |-> Idle]
    /\ notices = {}
    /\ kick    = [i \in Instances |-> KickIdle]
    /\ sweep   = [i \in Instances |-> SweepIdle]

-------------------------------------------------------------------------------
(* session.Manager *)

\* Mutant: dropStaleRefs is forgotten, the old connection keeps its identity.
BindLocal_StaleRef(i, p, c, t) ==
    LET prev == local[i][p] IN
    /\ local' = [local EXCEPT ![i][p] = [token |-> t, conn |-> c, lapsed |-> FALSE]]
    /\ refs' = [refs EXCEPT ![c] = p]
    /\ toks' = [toks EXCEPT ![i] = [s \in Token |->
                  IF s = t THEN p
                  ELSE IF prev # None /\ s = prev.token THEN None ELSE toks[i][s]]]

\* Mutant: the replaced session's token stays in the index.
BindLocal_StaleToken(i, p, c, t) ==
    LET prev == local[i][p] IN
    /\ local' = [local EXCEPT ![i][p] = [token |-> t, conn |-> c, lapsed |-> FALSE]]
    /\ refs' = [d \in Conns |->
                  IF d = c THEN p
                  ELSE IF prev # None /\ d = prev.conn THEN None ELSE refs[d]]
    /\ toks' = [toks EXCEPT ![i][t] = p]

\* Mutant: the old connection is dropped after the new one is indexed, and without
\* comparing the two.
BindLocal_DropLast(i, p, c, t) ==
    LET prev == local[i][p] IN
    /\ local' = [local EXCEPT ![i][p] = [token |-> t, conn |-> c, lapsed |-> FALSE]]
    /\ refs' = [d \in Conns |->
                  IF prev # None /\ d = prev.conn THEN None
                  ELSE IF d = c THEN p ELSE refs[d]]
    /\ toks' = [toks EXCEPT ![i] = [s \in Token |->
                  IF s = t THEN p
                  ELSE IF prev # None /\ s = prev.token THEN None ELSE toks[i][s]]]

\* bindLocal: the new session replaces the old one, whose indexes are dropped.
BindLocal(i, p, c, t) ==
    LET prev == local[i][p] IN
    /\ local' = [local EXCEPT ![i][p] = [token |-> t, conn |-> c, lapsed |-> FALSE]]
    /\ refs' = [d \in Conns |->
                  IF d = c THEN p
                  ELSE IF prev # None /\ d = prev.conn THEN None ELSE refs[d]]
    /\ toks' = [toks EXCEPT ![i] = [s \in Token |->
                  IF s = t THEN p
                  ELSE IF prev # None /\ s = prev.token THEN None ELSE toks[i][s]]]

\* Mutant: the removal forgets the token index.
DropLocal_KeepToken(i, p) ==
    /\ local' = [local EXCEPT ![i][p] = None]
    /\ refs'  = [refs EXCEPT ![local[i][p].conn] = None]
    /\ UNCHANGED toks

\* The locked removal shared by Unbind and SweepOnce.
DropLocal(i, p) ==
    /\ local' = [local EXCEPT ![i][p] = None]
    /\ refs'  = [refs EXCEPT ![local[i][p].conn] = None]
    /\ toks'  = [toks EXCEPT ![i][local[i][p].token] = None]

\* Mutant: Unbind removes whatever session the player has.
UnbindMatches_Any(i, p, id) == local[i][p] # None

\* The lock section of Unbind: only the connection number is compared.
UnbindMatches(i, p, id) == local[i][p] # None /\ ConnID[local[i][p].conn] = id

\* persistRoute: one atomic SET .. GET; the value it replaces is returned.
WriteRoute(p, c, t) ==
    /\ route' = [route EXCEPT ![p] = [conn |-> c, token |-> t]]
    /\ retired' = retired \cup (IF route[p] = None THEN {} ELSE {route[p].token} \ {t})

\* The comparison of deleteRouteIfOwned, made on a value read before the delete.
Owned(i, p, id) ==
    route[p] # None /\ Home[route[p].conn] = i /\ ConnID[route[p].conn] = id

\* routeTakenOver
TakenOver(i, p, id) == route[p] # None /\ ~Owned(i, p, id)

RedisFails == "redis" \in Faults

-------------------------------------------------------------------------------
(* Requests: Gateway.Login, Resume, Logout, Heartbeat *)

Goto(c, at) == req' = [req EXCEPT ![c].at = at]
Done(c)     == req' = [req EXCEPT ![c] = Idle]

\* Login, up to the answer of game: a token is issued and the player loaded.
LoginStart(c, p) ==
    /\ "login" \in Requests
    /\ req[c] = Idle /\ p \in UsableBy[c]
    /\ \E t \in Token :
          /\ issued[t] = None /\ \A s \in Token : s < t => issued[s] # None
          /\ issued' = [issued EXCEPT ![t] = p]
          /\ req' = [req EXCEPT ![c] = [at |-> "bind", player |-> p, token |-> t, old |-> None]]
    /\ actor' = [actor EXCEPT ![p] = TRUE]
    /\ UNCHANGED <<tables, route, granted, retired, notices, kick, sweep>>

LoginBind(c) ==
    /\ req[c].at = "bind"
    /\ BindLocal(Home[c], req[c].player, c, req[c].token)
    /\ Goto(c, "route")
    /\ UNCHANGED <<route, tokens, actor, notices, kick, sweep>>

LoginRoute(c) ==
    /\ req[c].at = "route"
    /\ WriteRoute(req[c].player, c, req[c].token)
    /\ req' = [req EXCEPT ![c] = [at |-> "kick", player |-> @.player, token |-> @.token,
                                  old |-> route[@.player]]]
    /\ UNCHANGED <<tables, issued, granted, actor, notices, kick, sweep>>

\* redis refuses the write: Login fails, the local binding stays.
LoginRouteFails(c) ==
    /\ RedisFails
    /\ req[c].at \in {"route", "resumeRoute"}
    /\ Done(c)
    /\ UNCHANGED <<tables, route, tokens, actor, notices, kick, sweep>>

\* kickOld, then the reply. The old session of this instance is only pushed a
\* notification: its connection stays open and its table entry is already gone.
LoginKick(c) ==
    LET old == req[c].old IN
    /\ req[c].at = "kick"
    /\ notices' = IF old # None /\ Home[old.conn] # Home[c]
                  THEN notices \cup {[to |-> Home[old.conn], player |-> req[c].player,
                                      by |-> req[c].token]}
                  ELSE notices
    /\ granted' = granted \cup {req[c].token}
    /\ Done(c)
    /\ UNCHANGED <<tables, route, issued, retired, actor, kick, sweep>>

\* Resume: the credential is compared with the local session, then bound again.
ResumeStart(c, t) ==
    /\ "resume" \in Requests
    /\ req[c] = Idle /\ t \in granted /\ issued[t] \in UsableBy[c]
    /\ local[Home[c]][issued[t]] # None
    /\ local[Home[c]][issued[t]].token = t
    /\ req' = [req EXCEPT ![c] = [at |-> "resumeBind", player |-> issued[t],
                                  token |-> t, old |-> None]]
    /\ UNCHANGED <<tables, route, tokens, actor, notices, kick, sweep>>

ResumeBind(c) ==
    /\ req[c].at = "resumeBind"
    /\ BindLocal(Home[c], req[c].player, c, req[c].token)
    /\ Goto(c, "resumeRoute")
    /\ UNCHANGED <<route, tokens, actor, notices, kick, sweep>>

\* Resume ignores the old route: nobody is kicked.
ResumeRoute(c) ==
    /\ req[c].at = "resumeRoute"
    /\ WriteRoute(req[c].player, c, req[c].token)
    /\ Done(c)
    /\ UNCHANGED <<tables, issued, granted, actor, notices, kick, sweep>>

LogoutStart(c) ==
    /\ "logout" \in Requests
    /\ req[c] = Idle /\ refs[c] # None
    /\ req' = [req EXCEPT ![c] = [at |-> "unbind", player |-> refs[c],
                                  token |-> 0, old |-> None]]
    /\ UNCHANGED <<tables, route, tokens, actor, notices, kick, sweep>>

LogoutUnbind(c) ==
    LET i == Home[c]
        p == req[c].player IN
    /\ req[c].at = "unbind"
    /\ IF UnbindMatches(i, p, ConnID[c])
       THEN DropLocal(i, p) /\ Goto(c, "check")
       ELSE Goto(c, "stop") /\ UNCHANGED tables
    /\ UNCHANGED <<route, tokens, actor, notices, kick, sweep>>

LogoutCheck(c) ==
    /\ req[c].at = "check"
    /\ \/ Owned(Home[c], req[c].player, ConnID[c]) /\ Goto(c, "delete")
       \/ (~Owned(Home[c], req[c].player, ConnID[c]) \/ RedisFails) /\ Goto(c, "stop")
    /\ UNCHANGED <<tables, route, tokens, actor, notices, kick, sweep>>

LogoutDelete(c) ==
    /\ req[c].at = "delete"
    /\ route' = [route EXCEPT ![req[c].player] = None]
    /\ Goto(c, "stop")
    /\ UNCHANGED <<tables, tokens, actor, notices, kick, sweep>>

\* The Logout message to game: the player is flushed and unloaded.
LogoutStop(c) ==
    /\ req[c].at = "stop"
    /\ actor' = [actor EXCEPT ![req[c].player] = FALSE]
    /\ Done(c)
    /\ UNCHANGED <<tables, route, tokens, notices, kick, sweep>>

HeartbeatStart(c) ==
    /\ "heartbeat" \in Requests
    /\ req[c] = Idle /\ refs[c] # None
    /\ req' = [req EXCEPT ![c] = [at |-> "renew", player |-> refs[c],
                                  token |-> 0, old |-> None]]
    /\ UNCHANGED <<tables, route, tokens, actor, notices, kick, sweep>>

\* The lease is renewed with the local session's own token. EXPIRE restarts the
\* TTL of whatever route is there and succeeds when there is none: see RouteExpires.
HeartbeatRenew(c) ==
    LET i == Home[c]
        p == req[c].player IN
    /\ req[c].at = "renew"
    /\ local' = IF local[i][p] = None THEN local
                ELSE [local EXCEPT ![i][p].lapsed = FALSE]
    /\ Done(c)
    /\ UNCHANGED <<refs, toks, route, tokens, actor, notices, kick, sweep>>

-------------------------------------------------------------------------------
(* Kick notices: onKickNotice on the instance's control channel *)

\* The notice names the player only: whatever session the instance has is taken.
KickStart(i, n) ==
    /\ kick[i] = KickIdle /\ n.to = i
    /\ notices' = notices \ {n}
    /\ kick' = IF local[i][n.player] = None THEN kick
               ELSE [kick EXCEPT ![i] = [at |-> "unbind", player |-> n.player,
                                         conn |-> local[i][n.player].conn]]
    /\ UNCHANGED <<tables, route, tokens, actor, req, sweep>>

\* Mutant: the old connection is notified, its session stays.
KickUnbind_NotifyOnly(i) ==
    /\ kick[i].at = "unbind"
    /\ kick' = [kick EXCEPT ![i] = KickIdle]
    /\ UNCHANGED <<tables, route, tokens, actor, req, notices, sweep>>

KickUnbind(i) ==
    LET k == kick[i] IN
    /\ k.at = "unbind"
    /\ IF UnbindMatches(i, k.player, ConnID[k.conn])
       THEN DropLocal(i, k.player) /\ kick' = [kick EXCEPT ![i].at = "check"]
       ELSE kick' = [kick EXCEPT ![i] = KickIdle] /\ UNCHANGED tables
    /\ UNCHANGED <<route, tokens, actor, req, notices, sweep>>

KickCheck(i) ==
    LET owned == Owned(i, kick[i].player, ConnID[kick[i].conn]) IN
    /\ kick[i].at = "check"
    /\ \/ owned /\ kick' = [kick EXCEPT ![i].at = "delete"]
       \/ (~owned \/ RedisFails) /\ kick' = [kick EXCEPT ![i] = KickIdle]
    /\ UNCHANGED <<tables, route, tokens, actor, req, notices, sweep>>

KickDelete(i) ==
    /\ kick[i].at = "delete"
    /\ route' = [route EXCEPT ![kick[i].player] = None]
    /\ kick' = [kick EXCEPT ![i] = KickIdle]
    /\ UNCHANGED <<tables, tokens, actor, req, notices, sweep>>

\* NATS delivers at most once.
NoticeLost(n) ==
    /\ "loss" \in Faults
    /\ notices' = notices \ {n}
    /\ UNCHANGED <<tables, route, tokens, actor, req, kick, sweep>>

-------------------------------------------------------------------------------
(* Time and SweepOnce *)

\* A session that is being renewed.
Live(i, p) == local[i][p] # None /\ ~local[i][p].lapsed

\* A session has not been renewed for a TTL. The sweep compares with a deadline
\* fixed when it starts: a session it is looking at cannot lapse for it.
Lapse(i, p) ==
    /\ "lapse" \in Faults
    /\ Live(i, p)
    /\ p \notin sweep[i].todo /\ sweep[i].player # p
    /\ local' = [local EXCEPT ![i][p].lapsed = TRUE]
    /\ UNCHANGED <<refs, toks, route, tokens, actor, req, notices, kick, sweep>>

\* The route's TTL runs out: no session that renews it has been renewed for a TTL.
RouteExpires(p) ==
    /\ "lapse" \in Faults
    /\ route[p] # None
    /\ \A i \in Instances : ~Live(i, p)
    /\ route' = [route EXCEPT ![p] = None]
    /\ UNCHANGED <<tables, tokens, actor, req, notices, kick, sweep>>

Lapsed(i) == {p \in Players : local[i][p] # None /\ local[i][p].lapsed}

SweepScan(i) ==
    /\ sweep[i].at = "idle" /\ Lapsed(i) # {}
    /\ sweep' = [sweep EXCEPT ![i] = [at |-> "next", todo |-> Lapsed(i), player |-> None,
                                      conn |-> None, swept |-> @.swept]]
    /\ UNCHANGED <<tables, route, tokens, actor, req, notices, kick>>

\* Mutant: the sweep reports a lapsed session and forgets to remove it.
SweepRecheck_Keep(i, p) ==
    LET sess == local[i][p] IN
    /\ sweep[i].at = "next" /\ p \in sweep[i].todo
    /\ UNCHANGED tables
    /\ sweep' = [sweep EXCEPT ![i] =
                    [at |-> "taken", todo |-> @.todo \ {p}, player |-> p,
                     conn |-> IF sess = None THEN None ELSE sess.conn, swept |-> @.swept]]
    /\ UNCHANGED <<route, tokens, actor, req, notices, kick>>

\* The second look, under the lock. The connection is remembered whether or not
\* the session was removed.
SweepRecheck(i, p) ==
    LET sess == local[i][p] IN
    /\ sweep[i].at = "next" /\ p \in sweep[i].todo
    /\ IF sess # None /\ sess.lapsed THEN DropLocal(i, p) ELSE UNCHANGED tables
    /\ sweep' = [sweep EXCEPT ![i] =
                    [at |-> "taken", todo |-> @.todo \ {p}, player |-> p,
                     conn |-> IF sess = None THEN None ELSE sess.conn, swept |-> @.swept]]
    /\ UNCHANGED <<route, tokens, actor, req, notices, kick>>

SweepConnID(i) == IF sweep[i].conn = None THEN 0 ELSE ConnID[sweep[i].conn]

SweepOn(s, swept) ==
    [at |-> "next", todo |-> s.todo, player |-> None, conn |-> None, swept |-> swept]
NextPlayer(s)   == SweepOn(s, s.swept)
ReportPlayer(s) == SweepOn(s, s.swept \cup {s.player})

SweepTaken(i) ==
    LET taken == TakenOver(i, sweep[i].player, SweepConnID(i)) IN
    /\ sweep[i].at = "taken"
    /\ \/ taken /\ sweep' = [sweep EXCEPT ![i] = NextPlayer(@)]
       \/ (~taken \/ RedisFails) /\ sweep' = [sweep EXCEPT ![i].at = "check"]
    /\ UNCHANGED <<tables, route, tokens, actor, req, notices, kick>>

SweepCheck(i) ==
    LET owned == Owned(i, sweep[i].player, SweepConnID(i)) IN
    /\ sweep[i].at = "check"
    /\ \/ owned /\ sweep' = [sweep EXCEPT ![i].at = "delete"]
       \/ (~owned \/ RedisFails) /\ sweep' = [sweep EXCEPT ![i] = ReportPlayer(@)]
    /\ UNCHANGED <<tables, route, tokens, actor, req, notices, kick>>

SweepDelete(i) ==
    /\ sweep[i].at = "delete"
    /\ route' = [route EXCEPT ![sweep[i].player] = None]
    /\ sweep' = [sweep EXCEPT ![i] = ReportPlayer(@)]
    /\ UNCHANGED <<tables, tokens, actor, req, notices, kick>>

\* onSessionsExpired: a Logout to game for every player reported.
SweepHook(i) ==
    /\ sweep[i].at = "next" /\ sweep[i].todo = {}
    /\ IF sweep[i].swept = {}
       THEN sweep' = [sweep EXCEPT ![i] = SweepIdle] /\ UNCHANGED actor
       ELSE \E p \in sweep[i].swept :
               /\ actor' = [actor EXCEPT ![p] = FALSE]
               /\ sweep' = [sweep EXCEPT ![i].swept = @ \ {p}]
    /\ UNCHANGED <<tables, route, tokens, req, notices, kick>>

-------------------------------------------------------------------------------
Serve(c) ==
    \/ LoginBind(c) \/ LoginRoute(c) \/ LoginKick(c)
    \/ ResumeBind(c) \/ ResumeRoute(c)
    \/ LogoutUnbind(c) \/ LogoutCheck(c) \/ LogoutDelete(c) \/ LogoutStop(c)
    \/ HeartbeatRenew(c)

Client(c) ==
    \/ \E p \in Players : LoginStart(c, p)
    \/ \E t \in Token : ResumeStart(c, t)
    \/ LogoutStart(c)
    \/ HeartbeatStart(c)

HandleKick(i) ==
    \/ \E n \in notices : KickStart(i, n)
    \/ KickUnbind(i) \/ KickCheck(i) \/ KickDelete(i)

SweepOnce(i) ==
    \/ SweepScan(i)
    \/ \E p \in Players : SweepRecheck(i, p)
    \/ SweepTaken(i) \/ SweepCheck(i) \/ SweepDelete(i) \/ SweepHook(i)

Environment ==
    \/ \E c \in Conns : LoginRouteFails(c)
    \/ \E n \in notices : NoticeLost(n)
    \/ \E i \in Instances, p \in Players : Lapse(i, p)
    \/ \E p \in Players : RouteExpires(p)

Next ==
    \/ \E c \in Conns : Client(c) \/ Serve(c)
    \/ \E i \in Instances : HandleKick(i) \/ SweepOnce(i)
    \/ Environment

Spec == Init /\ [][Next]_vars

\* A handler that has started runs on, the subscription goroutine and the sweep's
\* ticker are always scheduled; clients and the environment owe nothing.
Fairness ==
    /\ \A c \in Conns : WF_vars(Serve(c))
    /\ \A i \in Instances : WF_vars(HandleKick(i)) /\ WF_vars(SweepOnce(i))

LiveSpec == Spec /\ Fairness
-------------------------------------------------------------------------------
(* Properties *)

TypeOK ==
    /\ local \in [Instances -> [Players -> Session \cup {None}]]
    /\ refs \in [Conns -> Players \cup {None}]
    /\ toks \in [Instances -> [Token -> Players \cup {None}]]
    /\ route \in [Players -> Route \cup {None}]
    /\ issued \in [Token -> Players \cup {None}]
    /\ granted \subseteq Token /\ retired \subseteq Token
    /\ actor \in [Players -> BOOLEAN]
    /\ req \in [Conns -> Request]
    /\ notices \subseteq [to : Instances, player : Players, by : Token]
    /\ kick \in [Instances -> Kick]
    /\ sweep \in [Instances -> Sweep]

\* PlayerByRef never answers for a session that has moved to another connection,
\* was taken over, unbound or swept: an indexed connection is the very connection
\* of a session in the local table.
RefsSound ==
    \A c \in Conns, p \in Players :
        refs[c] = p => local[Home[c]][p] # None /\ local[Home[c]][p].conn = c

\* PlayerByToken answers exactly for the tokens of the sessions in the table: no
\* interleaving of logins, resumes and removals leaves a dead token usable, or a
\* live session without its token.
TokensExact ==
    \A i \in Instances, p \in Players, t \in Token :
        toks[i][t] = p <=> local[i][p] # None /\ local[i][p].token = t

\* Business requests are identified by their connection: the connection of a live
\* session stands for its player, unless another player logs in over it too (his
\* next login elsewhere then drops the identity of both).
ConnIdentified ==
    \A i \in Instances, p \in Players :
        local[i][p] # None /\ UsableBy[local[i][p].conn] = {p}
            => refs[local[i][p].conn] = p

\* The late unbind of an old connection never removes the session of a newer one:
\* a session that has not lapsed is removed only by a logout on its own connection
\* or by a kick notice that found that connection.
StaleUnbindHarmless ==
    [][\A i \in Instances, p \in Players :
        Live(i, p) /\ local'[i][p] = None =>
            \/ LET rq == req[local[i][p].conn] IN rq.at = "unbind" /\ rq.player = p
            \/ kick[i].at = "unbind" /\ kick[i].player = p
                  /\ kick[i].conn = local[i][p].conn]_vars

\* The expiry hook is told only of players without a live session here at the
\* moment they are reported (onSessionsExpired stops the player actor).
SweepSparesLive ==
    [][\A i \in Instances : \A p \in sweep'[i].swept \ sweep[i].swept : ~Live(i, p)]_vars

\* A lapsed session is eventually renewed or removed, whatever else goes on.
LapsedSwept ==
    \A i \in Instances, p \in Players :
        (local[i][p] # None /\ local[i][p].lapsed)
            ~> ~(local[i][p] # None /\ local[i][p].lapsed)

\* A session another instance has taken over does not survive its kick notice.
KickedGone ==
    \A i \in Instances, p \in Players, t \in Token :
        (/\ local[i][p] # None /\ local[i][p].token = t
         /\ \E n \in notices : n.to = i /\ n.player = p)
            ~> ~(local[i][p] # None /\ local[i][p].token = t)
-------------------------------------------------------------------------------
(* The inductive invariant behind RefsSound, TokensExact and ConnIdentified *)

Binding   == {"bind", "route", "kick", "resumeBind", "resumeRoute"}
Unbinding == {"unbind", "check", "delete", "stop", "renew"}

\* A request being served knows its player, and binds only a token issued to that
\* player over a connection the player uses.
RequestsFormed ==
    \A c \in Conns :
        /\ req[c].at \in Unbinding => req[c].player \in Players
        /\ req[c].at \in Binding =>
              /\ req[c].player \in UsableBy[c]
              /\ req[c].token \in Token
              /\ issued[req[c].token] = req[c].player
HandlersFormed ==
    \A i \in Instances :
        /\ kick[i].at # "idle" =>
              /\ kick[i].player \in Players /\ kick[i].conn \in Conns
              /\ Home[kick[i].conn] = i
        /\ sweep[i].at \in {"taken", "check", "delete"} => sweep[i].player \in Players

\* A session sits on the instance its connection terminates on, with a token issued
\* to its player.
SessionsFormed ==
    \A i \in Instances, p \in Players :
        local[i][p] # None =>
            /\ Home[local[i][p].conn] = i
            /\ p \in UsableBy[local[i][p].conn]
            /\ issued[local[i][p].token] = p

IndexInv ==
    /\ TypeOK /\ RequestsFormed /\ HandlersFormed /\ SessionsFormed
    /\ RefsSound /\ TokensExact

\* Connection numbers of an instance are distinct.
DistinctConnIDs ==
    \A c, d \in Conns : Home[c] = Home[d] /\ ConnID[c] = ConnID[d] => c = d
===============================================================================
