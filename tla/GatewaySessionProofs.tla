------------------------- MODULE GatewaySessionProofs -------------------------
(* Proofs about GatewaySession, for any number of players, instances and      *)
(* connections, every workload and every fault.                               *)
EXTENDS GatewaySession, TLAPS

\* What bindLocal leaves behind, for any player, connection and token.
LEMMA BindLocalPreserves ==
    ASSUME IndexInv,
           NEW c \in Conns, NEW p \in UsableBy[c], NEW t \in Token,
           issued[t] = p, issued' = issued,
           BindLocal(Home[c], p, c, t)
    PROVE  /\ local' \in [Instances -> [Players -> Session \cup {None}]]
           /\ refs' \in [Conns -> Players \cup {None}]
           /\ toks' \in [Instances -> [Token -> Players \cup {None}]]
           /\ SessionsFormed' /\ RefsSound' /\ TokensExact'
<1> DEFINE i == Home[c]
<1> DEFINE prev == local[i][p]
<1>0. /\ i \in Instances /\ p \in Players
      /\ prev \in Session \cup {None}
      /\ None \notin Session /\ None \notin Players
  BY GatewayAssumption, NoneAssumption DEF IndexInv, TypeOK
<1> HIDE DEF i
<1>1. local' \in [Instances -> [Players -> Session \cup {None}]]
  BY <1>0 DEF BindLocal, IndexInv, TypeOK, Session, i
<1>2. refs' \in [Conns -> Players \cup {None}]
  BY <1>0 DEF BindLocal, IndexInv, TypeOK, i
<1>3. toks' \in [Instances -> [Token -> Players \cup {None}]]
  BY <1>0 DEF BindLocal, IndexInv, TypeOK, i
<1>4. \A j \in Instances, q \in Players :
         local'[j][q] = IF j = i /\ q = p
                        THEN [token |-> t, conn |-> c, lapsed |-> FALSE] ELSE local[j][q]
  BY <1>0 DEF BindLocal, IndexInv, TypeOK, i
<1>5. SessionsFormed'
  BY <1>0, <1>4 DEF IndexInv, SessionsFormed, i
<1>6. RefsSound'
  <2> SUFFICES ASSUME NEW d \in Conns, NEW q \in Players, refs'[d] = q
               PROVE  local'[Home[d]][q] # None /\ local'[Home[d]][q].conn = d
    BY DEF RefsSound
  <2>1. refs'[d] = IF d = c THEN p
                   ELSE IF prev # None /\ d = prev.conn THEN None ELSE refs[d]
    BY <1>0 DEF BindLocal, i
  <2>2. CASE d = c
    <3>1. q = p /\ Home[d] = i
      BY <2>1, <2>2 DEF i
    <3>2. [token |-> t, conn |-> c, lapsed |-> FALSE] \in Session
      BY DEF Session
    <3>3. local'[i][p] = [token |-> t, conn |-> c, lapsed |-> FALSE]
      BY <1>0, <1>4
    <3>4. local'[i][p] # None
      BY <1>0, <3>2, <3>3
    <3>5. local'[i][p].conn = d
      BY <2>2, <3>3
    <3> QED BY <3>1, <3>4, <3>5
  <2>3. CASE d # c
    <3>1. refs[d] = q /\ ~(prev # None /\ d = prev.conn)
      BY <1>0, <2>1, <2>3
    <3>2. Home[d] \in Instances /\ local[Home[d]][q] # None /\ local[Home[d]][q].conn = d
      BY <3>1, GatewayAssumption DEF IndexInv, RefsSound
    <3>3. ~(Home[d] = i /\ q = p)
      BY <3>1, <3>2
    <3> QED BY <1>4, <3>2, <3>3
  <2> QED BY <2>2, <2>3
<1>7. TokensExact'
  <2> SUFFICES ASSUME NEW j \in Instances, NEW q \in Players, NEW s \in Token
               PROVE  toks'[j][s] = q <=> local'[j][q] # None /\ local'[j][q].token = s
    BY DEF TokensExact
  <2>0. toks[j][s] = q <=> local[j][q] # None /\ local[j][q].token = s
    BY DEF IndexInv, TokensExact
  <2>1. toks'[j][s] = IF j # i THEN toks[j][s]
                      ELSE IF s = t THEN p
                      ELSE IF prev # None /\ s = prev.token THEN None ELSE toks[j][s]
    BY <1>0 DEF BindLocal, IndexInv, TypeOK, i
  <2>2. local[j][q] # None => issued[local[j][q].token] = q
    BY DEF IndexInv, SessionsFormed
  <2>3. prev # None => issued[prev.token] = p
    BY <1>0 DEF IndexInv, SessionsFormed
  <2>4. CASE j # i
    BY <1>4, <2>0, <2>1, <2>4
  <2>5. CASE j = i /\ q = p
    <3>1. [token |-> t, conn |-> c, lapsed |-> FALSE] \in Session
      BY DEF Session
    <3>2. local'[j][q] # None /\ local'[j][q].token = t
      BY <1>0, <1>4, <2>5, <3>1
    <3>3. s # t => toks'[j][s] # p
      BY <1>0, <2>0, <2>1, <2>5
    <3> QED BY <2>1, <2>5, <3>2, <3>3
  <2>6. CASE j = i /\ q # p
    BY <1>0, <1>4, <2>0, <2>1, <2>2, <2>3, <2>6
  <2> QED BY <2>4, <2>5, <2>6
<1> QED BY <1>1, <1>2, <1>3, <1>5, <1>6, <1>7

\* What the removal of a session leaves behind.
LEMMA DropLocalPreserves ==
    ASSUME IndexInv,
           NEW i \in Instances, NEW p \in Players, local[i][p] # None,
           issued' = issued, DropLocal(i, p)
    PROVE  /\ local' \in [Instances -> [Players -> Session \cup {None}]]
           /\ refs' \in [Conns -> Players \cup {None}]
           /\ toks' \in [Instances -> [Token -> Players \cup {None}]]
           /\ SessionsFormed' /\ RefsSound' /\ TokensExact'
<1>0. /\ local[i][p] \in Session
      /\ None \notin Session /\ None \notin Players
      /\ Home \in [Conns -> Instances]
  BY GatewayAssumption, NoneAssumption DEF IndexInv, TypeOK
<1>1. local' \in [Instances -> [Players -> Session \cup {None}]]
  BY DEF DropLocal, IndexInv, TypeOK
<1>2. refs' \in [Conns -> Players \cup {None}]
  BY DEF DropLocal, IndexInv, TypeOK
<1>3. toks' \in [Instances -> [Token -> Players \cup {None}]]
  BY DEF DropLocal, IndexInv, TypeOK
<1>4. \A j \in Instances, q \in Players :
         local'[j][q] = IF j = i /\ q = p THEN None ELSE local[j][q]
  BY DEF DropLocal, IndexInv, TypeOK
<1>5. SessionsFormed'
  BY <1>4 DEF IndexInv, SessionsFormed
<1>6. RefsSound'
  <2> SUFFICES ASSUME NEW d \in Conns, NEW q \in Players, refs'[d] = q
               PROVE  local'[Home[d]][q] # None /\ local'[Home[d]][q].conn = d
    BY DEF RefsSound
  <2>1. d # local[i][p].conn /\ refs[d] = q
    BY <1>0 DEF DropLocal, IndexInv, TypeOK
  <2>2. Home[d] \in Instances /\ local[Home[d]][q] # None /\ local[Home[d]][q].conn = d
    BY <1>0, <2>1 DEF IndexInv, RefsSound
  <2> QED BY <1>4, <2>1, <2>2
<1>7. TokensExact'
  <2> SUFFICES ASSUME NEW j \in Instances, NEW q \in Players, NEW s \in Token
               PROVE  toks'[j][s] = q <=> local'[j][q] # None /\ local'[j][q].token = s
    BY DEF TokensExact
  <2>0. toks[j][s] = q <=> local[j][q] # None /\ local[j][q].token = s
    BY DEF IndexInv, TokensExact
  <2>1. toks'[j][s] = IF j = i /\ s = local[i][p].token THEN None ELSE toks[j][s]
    BY <1>0 DEF DropLocal, IndexInv, TypeOK, Session
  <2>2. /\ local[j][q] # None => issued[local[j][q].token] = q
        /\ issued[local[i][p].token] = p
    BY DEF IndexInv, SessionsFormed
  <2> QED BY <1>0, <1>4, <2>0, <2>1, <2>2
<1> QED BY <1>1, <1>2, <1>3, <1>5, <1>6, <1>7

\* Steps that leave every session its connection and its token leave the indexes right.
LEMMA SameIdentities ==
    ASSUME IndexInv, UNCHANGED <<refs, toks>>,
           local' \in [Instances -> [Players -> Session \cup {None}]],
           \A i \in Instances, p \in Players :
               /\ local'[i][p] = None <=> local[i][p] = None
               /\ local'[i][p].conn = local[i][p].conn
               /\ local'[i][p].token = local[i][p].token,
           \A t \in Token : issued[t] # None => issued'[t] = issued[t]
    PROVE  SessionsFormed' /\ RefsSound' /\ TokensExact'
<1>1. SessionsFormed'
  <2> SUFFICES ASSUME NEW i \in Instances, NEW p \in Players, local'[i][p] # None
               PROVE  /\ Home[local'[i][p].conn] = i
                      /\ p \in UsableBy[local'[i][p].conn]
                      /\ issued'[local'[i][p].token] = p
    BY DEF SessionsFormed
  <2>1. local[i][p] \in Session /\ issued[local[i][p].token] = p
    BY DEF IndexInv, TypeOK, SessionsFormed
  <2>2. local[i][p].token \in Token
    BY <2>1 DEF Session
  <2>3. issued'[local[i][p].token] = p
    BY <2>1, <2>2, NoneAssumption
  <2> QED BY <2>3 DEF IndexInv, SessionsFormed
<1>2. RefsSound'
  BY GatewayAssumption DEF IndexInv, RefsSound
<1>3. TokensExact'
  BY DEF IndexInv, TokensExact
<1> QED BY <1>1, <1>2, <1>3

\* A request whose stage alone changes, to one that needs no more than the old one.
LEMMA GotoPreserves ==
    ASSUME IndexInv, NEW c \in Conns, NEW at \in ReqSteps, Goto(c, at), issued' = issued,
           \/ req[c].at \in Binding /\ at \in Binding
           \/ req[c].at \in Unbinding /\ at \in Unbinding
    PROVE  /\ RequestsFormed'
           /\ req' \in [Conns -> Request]
<1>1. \A d \in Conns : req'[d] = IF d = c THEN [req[c] EXCEPT !.at = at] ELSE req[d]
  BY DEF Goto, IndexInv, TypeOK
<1>2. Binding \cap Unbinding = {}
  BY DEF Binding, Unbinding
<1>3. /\ req'[c].at = at /\ req'[c].player = req[c].player
      /\ req'[c].token = req[c].token
  BY <1>1 DEF IndexInv, TypeOK, Request
<1>4. RequestsFormed'
  BY <1>1, <1>2, <1>3 DEF IndexInv, RequestsFormed
<1>5. [req[c] EXCEPT !.at = at] \in Request
  <2>1. req[c] \in Request
    BY DEF IndexInv, TypeOK
  <2> QED BY <2>1 DEF Request
<1>6. req' = [d \in Conns |-> req'[d]]
  BY DEF Goto, IndexInv, TypeOK
<1> QED BY <1>1, <1>4, <1>5, <1>6 DEF IndexInv, TypeOK

\* A request that ends.
LEMMA DonePreserves ==
    ASSUME IndexInv, NEW c \in Conns, Done(c), issued' = issued
    PROVE  /\ RequestsFormed'
           /\ req' \in [Conns -> Request]
<1>1. \A d \in Conns : req'[d] = IF d = c THEN Idle ELSE req[d]
  BY DEF Done, IndexInv, TypeOK
<1>2. RequestsFormed'
  BY <1>1 DEF IndexInv, RequestsFormed, Idle, Binding, Unbinding
<1> QED BY <1>2 DEF Done, Idle, IndexInv, TypeOK, Request, ReqSteps

\* A request that starts without a token.
LEMMA StartPreserves ==
    ASSUME IndexInv, NEW c \in Conns, NEW at \in Unbinding, NEW p \in Players,
           req' = [req EXCEPT ![c] = [at |-> at, player |-> p, token |-> 0, old |-> None]],
           issued' = issued
    PROVE  /\ RequestsFormed'
           /\ req' \in [Conns -> Request]
<1>1. \A d \in Conns :
         req'[d] = IF d = c THEN [at |-> at, player |-> p, token |-> 0, old |-> None]
                   ELSE req[d]
  BY DEF IndexInv, TypeOK
<1>2. RequestsFormed'
  BY <1>1 DEF IndexInv, RequestsFormed, Binding, Unbinding
<1>3. at \in ReqSteps
  BY DEF ReqSteps, Unbinding
<1> QED BY <1>2, <1>3 DEF IndexInv, TypeOK, Request

\* The parts of IndexInv a step on the tables alone, on the requests alone or on the
\* handlers alone can disturb.
TablesInv ==
    /\ local \in [Instances -> [Players -> Session \cup {None}]]
    /\ refs \in [Conns -> Players \cup {None}]
    /\ toks \in [Instances -> [Token -> Players \cup {None}]]
    /\ SessionsFormed /\ RefsSound /\ TokensExact
RequestsInv == req \in [Conns -> Request] /\ RequestsFormed
HandlersInv ==
    kick \in [Instances -> Kick] /\ sweep \in [Instances -> Sweep] /\ HandlersFormed
OthersType ==
    /\ route \in [Players -> Route \cup {None}]
    /\ issued \in [Token -> Players \cup {None}]
    /\ granted \subseteq Token /\ retired \subseteq Token
    /\ actor \in [Players -> BOOLEAN]
    /\ notices \subseteq [to : Instances, player : Players, by : Token]

LEMMA Parts == IndexInv <=> TablesInv /\ RequestsInv /\ HandlersInv /\ OthersType
BY DEF IndexInv, TypeOK, TablesInv, RequestsInv, HandlersInv, OthersType

\* The same parts after a step.
LEMMA PartsAfter ==
    TablesInv' /\ RequestsInv' /\ HandlersInv' /\ OthersType' => IndexInv'
BY DEF IndexInv, TypeOK, TablesInv, RequestsInv, HandlersInv, OthersType

LEMMA TablesUnchanged ==
    ASSUME IndexInv, UNCHANGED tables,
           \A t \in Token : issued[t] # None => issued'[t] = issued[t]
    PROVE  TablesInv'
BY SameIdentities DEF tables, TablesInv, IndexInv, TypeOK

LEMMA RequestsUnchanged == IndexInv /\ UNCHANGED <<req, issued>> => RequestsInv'
BY DEF RequestsInv, IndexInv, TypeOK, RequestsFormed

LEMMA HandlersUnchanged == IndexInv /\ UNCHANGED <<kick, sweep>> => HandlersInv'
BY DEF HandlersInv, IndexInv, TypeOK, HandlersFormed

\* A renewal or a lapse.
LEMMA LapsedPreserves ==
    ASSUME IndexInv, NEW i \in Instances, NEW p \in Players, NEW b \in BOOLEAN,
           local[i][p] # None, local' = [local EXCEPT ![i][p].lapsed = b],
           UNCHANGED <<refs, toks, issued>>
    PROVE  TablesInv'
<1> DEFINE new == [local[i][p] EXCEPT !.lapsed = b]
<1>1. local[i][p] \in Session
  BY DEF IndexInv, TypeOK
<1>2. /\ new \in Session
      /\ new.conn = local[i][p].conn /\ new.token = local[i][p].token
  BY <1>1 DEF Session
<1>3. new # None
  BY <1>2, NoneAssumption
<1> HIDE DEF new
<1>4. \A j \in Instances, q \in Players :
         local'[j][q] = IF j = i /\ q = p THEN new ELSE local[j][q]
  BY DEF IndexInv, TypeOK, new
<1>5. local' \in [Instances -> [Players -> Session \cup {None}]]
  BY <1>2 DEF IndexInv, TypeOK, new
<1>6. \A j \in Instances, q \in Players :
         /\ local'[j][q] = None <=> local[j][q] = None
         /\ local'[j][q].conn = local[j][q].conn
         /\ local'[j][q].token = local[j][q].token
  BY <1>2, <1>3, <1>4
<1> QED BY <1>5, <1>6, SameIdentities DEF TablesInv, IndexInv, TypeOK

\* A kick notice or a sweep that moves on.
LEMMA KickMoves ==
    ASSUME IndexInv, NEW i \in Instances, NEW k \in Kick,
           kick' = [kick EXCEPT ![i] = k], sweep' = sweep,
           k.at # "idle" =>
               k.player \in Players /\ k.conn \in Conns /\ Home[k.conn] = i
    PROVE  HandlersInv'
<1>1. \A j \in Instances : kick'[j] = IF j = i THEN k ELSE kick[j]
  BY DEF IndexInv, TypeOK
<1>2. HandlersFormed'
  BY <1>1 DEF IndexInv, HandlersFormed
<1> QED BY <1>2 DEF HandlersInv, IndexInv, TypeOK

LEMMA SweepMoves ==
    ASSUME IndexInv, NEW i \in Instances, NEW s \in Sweep,
           sweep' = [sweep EXCEPT ![i] = s], kick' = kick,
           s.at \in {"taken", "check", "delete"} => s.player \in Players
    PROVE  HandlersInv'
<1>1. \A j \in Instances : sweep'[j] = IF j = i THEN s ELSE sweep[j]
  BY DEF IndexInv, TypeOK
<1>2. HandlersFormed'
  BY <1>1 DEF IndexInv, HandlersFormed
<1> QED BY <1>2 DEF HandlersInv, IndexInv, TypeOK

\* Every step keeps the indexes in order.
LEMMA IndexInductive == IndexInv /\ [Next]_vars => IndexInv'
<1> SUFFICES ASSUME IndexInv, [Next]_vars PROVE IndexInv'
  OBVIOUS
<1> USE DEF tokens

<1>1. ASSUME NEW c \in Conns, NEW p \in Players, LoginStart(c, p)
       PROVE  IndexInv'
  <2>1. TablesInv'
    <3>1. \A t \in Token : issued[t] # None => issued'[t] = issued[t]
      BY <1>1 DEF LoginStart, IndexInv, TypeOK
    <3> QED BY <1>1, <3>1, TablesUnchanged DEF LoginStart
  <2>2. RequestsInv'
    <3>1. PICK t \in Token :
             /\ issued[t] = None /\ issued' = [issued EXCEPT ![t] = p]
             /\ req' = [req EXCEPT ![c] = [at |-> "bind", player |-> p, token |-> t,
                                           old |-> None]]
      BY <1>1 DEF LoginStart
    <3>2. [at |-> "bind", player |-> p, token |-> t, old |-> None] \in Request
      BY DEF Request, ReqSteps
    <3>3. req' \in [Conns -> Request]
      BY <3>1, <3>2 DEF IndexInv, TypeOK
    <3>4. \A d \in Conns : req'[d] = IF d = c THEN [at |-> "bind", player |-> p,
                                                    token |-> t, old |-> None] ELSE req[d]
      BY <3>1 DEF IndexInv, TypeOK
    <3>5. \A s \in Token : issued'[s] = IF s = t THEN p ELSE issued[s]
      BY <3>1 DEF IndexInv, TypeOK
    <3>6. \A d \in Conns : req[d].at \in Binding => req[d].token # t
      BY <3>1, NoneAssumption, GatewayAssumption DEF IndexInv, RequestsFormed
    <3>7. p \in UsableBy[c]
      BY <1>1 DEF LoginStart
    <3>8. RequestsFormed'
      BY <3>4, <3>5, <3>6, <3>7 DEF IndexInv, RequestsFormed, Binding, Unbinding
    <3> QED BY <3>3, <3>8 DEF RequestsInv
  <2>3. HandlersInv'
    BY <1>1, HandlersUnchanged DEF LoginStart
  <2>4. OthersType'
    BY <1>1 DEF LoginStart, OthersType, IndexInv, TypeOK
  <2> QED BY <2>1, <2>2, <2>3, <2>4, PartsAfter
<1>2. ASSUME NEW c \in Conns, LoginBind(c)
       PROVE  IndexInv'
  <2>1. TablesInv'
    <3>1. req[c].at \in Binding
      BY <1>2 DEF LoginBind, Binding
    <3>2. /\ req[c].player \in UsableBy[c] /\ req[c].token \in Token
          /\ issued[req[c].token] = req[c].player
      BY <3>1 DEF IndexInv, RequestsFormed
    <3> QED BY <1>2, <3>2, BindLocalPreserves DEF LoginBind, TablesInv
  <2>2. RequestsInv'
    <3>1. req[c].at = "bind" /\ Goto(c, "route") /\ issued' = issued
      BY <1>2 DEF LoginBind
    <3>2. "route" \in ReqSteps
      BY DEF ReqSteps
    <3> QED BY <3>1, <3>2, GotoPreserves DEF Binding, Unbinding, RequestsInv
  <2>3. HandlersInv'
    BY <1>2, HandlersUnchanged DEF LoginBind
  <2>4. OthersType'
    BY <1>2 DEF LoginBind, OthersType, IndexInv, TypeOK
  <2> QED BY <2>1, <2>2, <2>3, <2>4, PartsAfter
<1>3. ASSUME NEW c \in Conns, LoginRoute(c)
       PROVE  IndexInv'
  <2>1. TablesInv'
    BY <1>3, TablesUnchanged DEF LoginRoute, WriteRoute
  <2>2. RequestsInv'
    <3>1. /\ req[c].at = "route" /\ issued' = issued
          /\ req' = [req EXCEPT ![c] = [at |-> "kick", player |-> @.player,
                                        token |-> @.token, old |-> route[@.player]]]
      BY <1>3 DEF LoginRoute
    <3>2. /\ req[c].player \in UsableBy[c] /\ req[c].token \in Token
          /\ req[c].player \in Players
          /\ issued[req[c].token] = req[c].player
      BY <3>1, GatewayAssumption DEF IndexInv, RequestsFormed, Binding
    <3>3. [at |-> "kick", player |-> req[c].player, token |-> req[c].token,
           old |-> route[req[c].player]] \in Request
      BY <3>2 DEF Request, ReqSteps, IndexInv, TypeOK
    <3>4. \A d \in Conns :
             req'[d] = IF d = c THEN [at |-> "kick", player |-> req[c].player,
                                      token |-> req[c].token, old |-> route[req[c].player]]
                       ELSE req[d]
      BY <3>1 DEF IndexInv, TypeOK
    <3>5. RequestsFormed'
      BY <3>1, <3>2, <3>4 DEF IndexInv, RequestsFormed, Binding, Unbinding
    <3> QED BY <3>1, <3>3, <3>5 DEF RequestsInv, IndexInv, TypeOK
  <2>3. HandlersInv'
    BY <1>3, HandlersUnchanged DEF LoginRoute
  <2>4. OthersType'
    <3>1. req[c].at \in Binding
      BY <1>3 DEF LoginRoute, Binding
    <3>2. req[c].player \in Players /\ req[c].token \in Token
      BY <3>1, GatewayAssumption DEF IndexInv, RequestsFormed
    <3>3. [conn |-> c, token |-> req[c].token] \in Route
      BY <3>2 DEF Route
    <3>4. route' \in [Players -> Route \cup {None}]
      BY <1>3, <3>3 DEF LoginRoute, WriteRoute, IndexInv, TypeOK
    <3>5. route[req[c].player] # None => route[req[c].player].token \in Token
      BY <3>2 DEF IndexInv, TypeOK, Route
    <3>6. retired' \subseteq Token
      BY <1>3, <3>5 DEF LoginRoute, WriteRoute, IndexInv, TypeOK
    <3> QED BY <1>3, <3>4, <3>6 DEF LoginRoute, OthersType, IndexInv, TypeOK
  <2> QED BY <2>1, <2>2, <2>3, <2>4, PartsAfter
<1>4. ASSUME NEW c \in Conns, LoginRouteFails(c)
       PROVE  IndexInv'
  <2>1. TablesInv'
    BY <1>4, TablesUnchanged DEF LoginRouteFails
  <2>2. RequestsInv'
    BY <1>4, DonePreserves DEF LoginRouteFails, RequestsInv
  <2>3. HandlersInv'
    BY <1>4, HandlersUnchanged DEF LoginRouteFails
  <2>4. OthersType'
    BY <1>4 DEF LoginRouteFails, OthersType, IndexInv, TypeOK
  <2> QED BY <2>1, <2>2, <2>3, <2>4, PartsAfter
<1>5. ASSUME NEW c \in Conns, LoginKick(c)
       PROVE  IndexInv'
  <2>1. TablesInv'
    BY <1>5, TablesUnchanged DEF LoginKick
  <2>2. RequestsInv'
    BY <1>5, DonePreserves DEF LoginKick, RequestsInv
  <2>3. HandlersInv'
    BY <1>5, HandlersUnchanged DEF LoginKick
  <2>4. OthersType'
    <3>1. req[c].at \in Binding
      BY <1>5 DEF LoginKick, Binding
    <3>2. req[c].player \in Players /\ req[c].token \in Token
      BY <3>1, GatewayAssumption DEF IndexInv, RequestsFormed
    <3>3. req[c].old # None => req[c].old.conn \in Conns
      BY DEF IndexInv, TypeOK, Request, Route
    <3>4. notices' \subseteq [to : Instances, player : Players, by : Token]
      BY <1>5, <3>2, <3>3, GatewayAssumption DEF LoginKick, IndexInv, TypeOK
    <3> QED BY <1>5, <3>2, <3>4 DEF LoginKick, OthersType, IndexInv, TypeOK
  <2> QED BY <2>1, <2>2, <2>3, <2>4, PartsAfter
<1>6. ASSUME NEW c \in Conns, NEW t \in Token, ResumeStart(c, t)
       PROVE  IndexInv'
  <2>1. TablesInv'
    BY <1>6, TablesUnchanged DEF ResumeStart
  <2>2. RequestsInv'
    <3>1. /\ issued[t] \in UsableBy[c] /\ issued' = issued
          /\ req' = [req EXCEPT ![c] = [at |-> "resumeBind", player |-> issued[t], token |-> t,
                                        old |-> None]]
      BY <1>6 DEF ResumeStart
    <3>2. [at |-> "resumeBind", player |-> issued[t], token |-> t, old |-> None] \in Request
      BY DEF Request, ReqSteps, IndexInv, TypeOK
    <3>3. \A d \in Conns :
             req'[d] = IF d = c THEN [at |-> "resumeBind", player |-> issued[t], token |-> t,
                                      old |-> None]
                       ELSE req[d]
      BY <3>1 DEF IndexInv, TypeOK
    <3>4. RequestsFormed'
      BY <3>1, <3>3 DEF IndexInv, RequestsFormed, Binding, Unbinding
    <3> QED BY <3>1, <3>2, <3>4 DEF RequestsInv, IndexInv, TypeOK
  <2>3. HandlersInv'
    BY <1>6, HandlersUnchanged DEF ResumeStart
  <2>4. OthersType'
    BY <1>6 DEF ResumeStart, OthersType, IndexInv, TypeOK
  <2> QED BY <2>1, <2>2, <2>3, <2>4, PartsAfter
<1>7. ASSUME NEW c \in Conns, ResumeBind(c)
       PROVE  IndexInv'
  <2>1. TablesInv'
    <3>1. req[c].at \in Binding
      BY <1>7 DEF ResumeBind, Binding
    <3>2. /\ req[c].player \in UsableBy[c] /\ req[c].token \in Token
          /\ issued[req[c].token] = req[c].player
      BY <3>1 DEF IndexInv, RequestsFormed
    <3> QED BY <1>7, <3>2, BindLocalPreserves DEF ResumeBind, TablesInv
  <2>2. RequestsInv'
    <3>1. req[c].at = "resumeBind" /\ Goto(c, "resumeRoute") /\ issued' = issued
      BY <1>7 DEF ResumeBind
    <3>2. "resumeRoute" \in ReqSteps
      BY DEF ReqSteps
    <3> QED BY <3>1, <3>2, GotoPreserves DEF Binding, Unbinding, RequestsInv
  <2>3. HandlersInv'
    BY <1>7, HandlersUnchanged DEF ResumeBind
  <2>4. OthersType'
    BY <1>7 DEF ResumeBind, OthersType, IndexInv, TypeOK
  <2> QED BY <2>1, <2>2, <2>3, <2>4, PartsAfter
<1>8. ASSUME NEW c \in Conns, ResumeRoute(c)
       PROVE  IndexInv'
  <2>1. TablesInv'
    BY <1>8, TablesUnchanged DEF ResumeRoute, WriteRoute
  <2>2. RequestsInv'
    BY <1>8, DonePreserves DEF ResumeRoute, RequestsInv
  <2>3. HandlersInv'
    BY <1>8, HandlersUnchanged DEF ResumeRoute
  <2>4. OthersType'
    <3>1. req[c].at \in Binding
      BY <1>8 DEF ResumeRoute, Binding
    <3>2. req[c].player \in Players /\ req[c].token \in Token
      BY <3>1, GatewayAssumption DEF IndexInv, RequestsFormed
    <3>3. [conn |-> c, token |-> req[c].token] \in Route
      BY <3>2 DEF Route
    <3>4. route' \in [Players -> Route \cup {None}]
      BY <1>8, <3>3 DEF ResumeRoute, WriteRoute, IndexInv, TypeOK
    <3>5. route[req[c].player] # None => route[req[c].player].token \in Token
      BY <3>2 DEF IndexInv, TypeOK, Route
    <3>6. retired' \subseteq Token
      BY <1>8, <3>5 DEF ResumeRoute, WriteRoute, IndexInv, TypeOK
    <3> QED BY <1>8, <3>4, <3>6 DEF ResumeRoute, OthersType, IndexInv, TypeOK
  <2> QED BY <2>1, <2>2, <2>3, <2>4, PartsAfter
<1>9. ASSUME NEW c \in Conns, LogoutStart(c)
       PROVE  IndexInv'
  <2>1. TablesInv'
    BY <1>9, TablesUnchanged DEF LogoutStart
  <2>2. RequestsInv'
    <3>1. refs[c] \in Players /\ "unbind" \in Unbinding
      BY <1>9 DEF LogoutStart, IndexInv, TypeOK, Unbinding
    <3> QED BY <1>9, <3>1, StartPreserves DEF LogoutStart, RequestsInv
  <2>3. HandlersInv'
    BY <1>9, HandlersUnchanged DEF LogoutStart
  <2>4. OthersType'
    BY <1>9 DEF LogoutStart, OthersType, IndexInv, TypeOK
  <2> QED BY <2>1, <2>2, <2>3, <2>4, PartsAfter
<1>10. ASSUME NEW c \in Conns, LogoutUnbind(c)
       PROVE  IndexInv'
  <2>1. TablesInv'
    <3>1. Home[c] \in Instances /\ req[c].player \in Players
      BY <1>10, GatewayAssumption DEF LogoutUnbind, IndexInv, RequestsFormed, Unbinding
    <3>2. CASE UnbindMatches(Home[c], req[c].player, ConnID[c])
      BY <1>10, <3>1, <3>2, DropLocalPreserves DEF LogoutUnbind, UnbindMatches, TablesInv
    <3>3. CASE ~UnbindMatches(Home[c], req[c].player, ConnID[c])
      BY <1>10, <3>3, TablesUnchanged DEF LogoutUnbind
    <3> QED BY <3>2, <3>3
  <2>2. RequestsInv'
    <3>1. /\ req[c].at = "unbind" /\ issued' = issued
          /\ Goto(c, "check") \/ Goto(c, "stop")
      BY <1>10 DEF LogoutUnbind
    <3>2. {"check", "stop"} \subseteq ReqSteps
      BY DEF ReqSteps
    <3> QED BY <3>1, <3>2, GotoPreserves DEF Binding, Unbinding, RequestsInv
  <2>3. HandlersInv'
    BY <1>10, HandlersUnchanged DEF LogoutUnbind
  <2>4. OthersType'
    BY <1>10 DEF LogoutUnbind, OthersType, IndexInv, TypeOK
  <2> QED BY <2>1, <2>2, <2>3, <2>4, PartsAfter
<1>11. ASSUME NEW c \in Conns, LogoutCheck(c)
       PROVE  IndexInv'
  <2>1. TablesInv'
    BY <1>11, TablesUnchanged DEF LogoutCheck
  <2>2. RequestsInv'
    <3>1. /\ req[c].at = "check" /\ issued' = issued
          /\ Goto(c, "delete") \/ Goto(c, "stop")
      BY <1>11 DEF LogoutCheck
    <3>2. {"delete", "stop"} \subseteq ReqSteps
      BY DEF ReqSteps
    <3> QED BY <3>1, <3>2, GotoPreserves DEF Binding, Unbinding, RequestsInv
  <2>3. HandlersInv'
    BY <1>11, HandlersUnchanged DEF LogoutCheck
  <2>4. OthersType'
    BY <1>11 DEF LogoutCheck, OthersType, IndexInv, TypeOK
  <2> QED BY <2>1, <2>2, <2>3, <2>4, PartsAfter
<1>12. ASSUME NEW c \in Conns, LogoutDelete(c)
       PROVE  IndexInv'
  <2>1. TablesInv'
    BY <1>12, TablesUnchanged DEF LogoutDelete
  <2>2. RequestsInv'
    <3>1. req[c].at = "delete" /\ Goto(c, "stop") /\ issued' = issued
      BY <1>12 DEF LogoutDelete
    <3>2. "stop" \in ReqSteps
      BY DEF ReqSteps
    <3> QED BY <3>1, <3>2, GotoPreserves DEF Binding, Unbinding, RequestsInv
  <2>3. HandlersInv'
    BY <1>12, HandlersUnchanged DEF LogoutDelete
  <2>4. OthersType'
    BY <1>12 DEF LogoutDelete, OthersType, IndexInv, TypeOK
  <2> QED BY <2>1, <2>2, <2>3, <2>4, PartsAfter
<1>13. ASSUME NEW c \in Conns, LogoutStop(c)
       PROVE  IndexInv'
  <2>1. TablesInv'
    BY <1>13, TablesUnchanged DEF LogoutStop
  <2>2. RequestsInv'
    BY <1>13, DonePreserves DEF LogoutStop, RequestsInv
  <2>3. HandlersInv'
    BY <1>13, HandlersUnchanged DEF LogoutStop
  <2>4. OthersType'
    BY <1>13 DEF LogoutStop, OthersType, IndexInv, TypeOK
  <2> QED BY <2>1, <2>2, <2>3, <2>4, PartsAfter
<1>14. ASSUME NEW c \in Conns, HeartbeatStart(c)
       PROVE  IndexInv'
  <2>1. TablesInv'
    BY <1>14, TablesUnchanged DEF HeartbeatStart
  <2>2. RequestsInv'
    <3>1. refs[c] \in Players /\ "renew" \in Unbinding
      BY <1>14 DEF HeartbeatStart, IndexInv, TypeOK, Unbinding
    <3> QED BY <1>14, <3>1, StartPreserves DEF HeartbeatStart, RequestsInv
  <2>3. HandlersInv'
    BY <1>14, HandlersUnchanged DEF HeartbeatStart
  <2>4. OthersType'
    BY <1>14 DEF HeartbeatStart, OthersType, IndexInv, TypeOK
  <2> QED BY <2>1, <2>2, <2>3, <2>4, PartsAfter
<1>15. ASSUME NEW c \in Conns, HeartbeatRenew(c)
       PROVE  IndexInv'
  <2>1. TablesInv'
    <3>1. Home[c] \in Instances /\ req[c].player \in Players
      BY <1>15, GatewayAssumption DEF HeartbeatRenew, IndexInv, RequestsFormed, Unbinding
    <3>2. CASE local[Home[c]][req[c].player] = None
      BY <1>15, <3>2, TablesUnchanged DEF HeartbeatRenew, tables
    <3>3. CASE local[Home[c]][req[c].player] # None
      BY <1>15, <3>1, <3>3, LapsedPreserves DEF HeartbeatRenew
    <3> QED BY <3>2, <3>3
  <2>2. RequestsInv'
    BY <1>15, DonePreserves DEF HeartbeatRenew, RequestsInv
  <2>3. HandlersInv'
    BY <1>15, HandlersUnchanged DEF HeartbeatRenew
  <2>4. OthersType'
    BY <1>15 DEF HeartbeatRenew, OthersType, IndexInv, TypeOK
  <2> QED BY <2>1, <2>2, <2>3, <2>4, PartsAfter
<1>16. ASSUME NEW i \in Instances, NEW n \in notices, KickStart(i, n)
       PROVE  IndexInv'
  <2>1. TablesInv'
    BY <1>16, TablesUnchanged DEF KickStart
  <2>2. RequestsInv'
    BY <1>16, RequestsUnchanged DEF KickStart
  <2>3. HandlersInv'
    <3>1. n.player \in Players
      BY DEF IndexInv, TypeOK
    <3>2. CASE local[i][n.player] = None
      BY <1>16, <3>2, HandlersUnchanged DEF KickStart
    <3>3. CASE local[i][n.player] # None
      <4> DEFINE k == [at |-> "unbind", player |-> n.player, conn |-> local[i][n.player].conn]
      <4>1. local[i][n.player] \in Session /\ Home[local[i][n.player].conn] = i
        BY <3>1, <3>3, <1>16 DEF KickStart, IndexInv, TypeOK, SessionsFormed
      <4>3. k \in Kick /\ k.player \in Players /\ k.conn \in Conns /\ Home[k.conn] = i
        BY <3>1, <4>1 DEF Kick, KickSteps, Session
      <4>2. kick' = [kick EXCEPT ![i] = k] /\ sweep' = sweep
        BY <1>16, <3>3 DEF KickStart
      <4> HIDE DEF k
      <4> QED BY <4>2, <4>3, KickMoves
    <3> QED BY <3>2, <3>3
  <2>4. OthersType'
    BY <1>16 DEF KickStart, OthersType, IndexInv, TypeOK
  <2> QED BY <2>1, <2>2, <2>3, <2>4, PartsAfter
<1>17. ASSUME NEW i \in Instances, KickUnbind(i)
       PROVE  IndexInv'
  <2>1. TablesInv'
    <3>1. kick[i].player \in Players
      BY <1>17 DEF KickUnbind, IndexInv, HandlersFormed
    <3>2. CASE UnbindMatches(i, kick[i].player, ConnID[kick[i].conn])
      BY <1>17, <3>1, <3>2, DropLocalPreserves DEF KickUnbind, UnbindMatches, TablesInv
    <3>3. CASE ~UnbindMatches(i, kick[i].player, ConnID[kick[i].conn])
      BY <1>17, <3>3, TablesUnchanged DEF KickUnbind
    <3> QED BY <3>2, <3>3
  <2>2. RequestsInv'
    BY <1>17, RequestsUnchanged DEF KickUnbind
  <2>3. HandlersInv'
    <3>1. KickIdle \in Kick /\ KickIdle.at = "idle"
      BY DEF KickIdle, Kick, KickSteps
    <3>2. /\ kick[i] \in Kick
          /\ kick[i].player \in Players /\ kick[i].conn \in Conns /\ Home[kick[i].conn] = i
      BY <1>17 DEF KickUnbind, IndexInv, TypeOK, HandlersFormed
    <3>3. PICK k \in {KickIdle, [kick[i] EXCEPT !.at = "check"]} : kick' = [kick EXCEPT ![i] = k]
      BY <1>17 DEF KickUnbind
    <3>4. /\ k \in Kick
          /\ k.at # "idle" => k.player \in Players /\ k.conn \in Conns /\ Home[k.conn] = i
      BY <3>1, <3>2, <3>3 DEF Kick, KickSteps
    <3> QED BY <1>17, <3>3, <3>4, KickMoves DEF KickUnbind
  <2>4. OthersType'
    BY <1>17 DEF KickUnbind, OthersType, IndexInv, TypeOK
  <2> QED BY <2>1, <2>2, <2>3, <2>4, PartsAfter
<1>18. ASSUME NEW i \in Instances, KickCheck(i)
       PROVE  IndexInv'
  <2>1. TablesInv'
    BY <1>18, TablesUnchanged DEF KickCheck
  <2>2. RequestsInv'
    BY <1>18, RequestsUnchanged DEF KickCheck
  <2>3. HandlersInv'
    <3>1. KickIdle \in Kick /\ KickIdle.at = "idle"
      BY DEF KickIdle, Kick, KickSteps
    <3>2. /\ kick[i] \in Kick
          /\ kick[i].player \in Players /\ kick[i].conn \in Conns /\ Home[kick[i].conn] = i
      BY <1>18 DEF KickCheck, IndexInv, TypeOK, HandlersFormed
    <3>3. PICK k \in {KickIdle, [kick[i] EXCEPT !.at = "delete"]} : kick' = [kick EXCEPT ![i] = k]
      BY <1>18 DEF KickCheck
    <3>4. /\ k \in Kick
          /\ k.at # "idle" => k.player \in Players /\ k.conn \in Conns /\ Home[k.conn] = i
      BY <3>1, <3>2, <3>3 DEF Kick, KickSteps
    <3> QED BY <1>18, <3>3, <3>4, KickMoves DEF KickCheck
  <2>4. OthersType'
    BY <1>18 DEF KickCheck, OthersType, IndexInv, TypeOK
  <2> QED BY <2>1, <2>2, <2>3, <2>4, PartsAfter
<1>19. ASSUME NEW i \in Instances, KickDelete(i)
       PROVE  IndexInv'
  <2>1. TablesInv'
    BY <1>19, TablesUnchanged DEF KickDelete
  <2>2. RequestsInv'
    BY <1>19, RequestsUnchanged DEF KickDelete
  <2>3. HandlersInv'
    <3>1. KickIdle \in Kick /\ KickIdle.at = "idle"
      BY DEF KickIdle, Kick, KickSteps
    <3> QED BY <1>19, <3>1, KickMoves DEF KickDelete
  <2>4. OthersType'
    BY <1>19 DEF KickDelete, OthersType, IndexInv, TypeOK
  <2> QED BY <2>1, <2>2, <2>3, <2>4, PartsAfter
<1>20. ASSUME NEW n \in notices, NoticeLost(n)
       PROVE  IndexInv'
  <2>1. TablesInv'
    BY <1>20, TablesUnchanged DEF NoticeLost
  <2>2. RequestsInv'
    BY <1>20, RequestsUnchanged DEF NoticeLost
  <2>3. HandlersInv'
    BY <1>20, HandlersUnchanged DEF NoticeLost
  <2>4. OthersType'
    BY <1>20 DEF NoticeLost, OthersType, IndexInv, TypeOK
  <2> QED BY <2>1, <2>2, <2>3, <2>4, PartsAfter
<1>21. ASSUME NEW i \in Instances, NEW p \in Players, Lapse(i, p)
       PROVE  IndexInv'
  <2>1. TablesInv'
    BY <1>21, LapsedPreserves DEF Lapse, Live
  <2>2. RequestsInv'
    BY <1>21, RequestsUnchanged DEF Lapse
  <2>3. HandlersInv'
    BY <1>21, HandlersUnchanged DEF Lapse
  <2>4. OthersType'
    BY <1>21 DEF Lapse, OthersType, IndexInv, TypeOK
  <2> QED BY <2>1, <2>2, <2>3, <2>4, PartsAfter
<1>22. ASSUME NEW p \in Players, RouteExpires(p)
       PROVE  IndexInv'
  <2>1. TablesInv'
    BY <1>22, TablesUnchanged DEF RouteExpires
  <2>2. RequestsInv'
    BY <1>22, RequestsUnchanged DEF RouteExpires
  <2>3. HandlersInv'
    BY <1>22, HandlersUnchanged DEF RouteExpires
  <2>4. OthersType'
    BY <1>22 DEF RouteExpires, OthersType, IndexInv, TypeOK
  <2> QED BY <2>1, <2>2, <2>3, <2>4, PartsAfter
<1>23. ASSUME NEW i \in Instances, SweepScan(i)
       PROVE  IndexInv'
  <2>1. TablesInv'
    BY <1>23, TablesUnchanged DEF SweepScan
  <2>2. RequestsInv'
    BY <1>23, RequestsUnchanged DEF SweepScan
  <2>3. HandlersInv'
    <3>1. sweep[i] \in Sweep
      BY DEF IndexInv, TypeOK
    <3>2. PICK s \in {[at |-> "next", todo |-> Lapsed(i), player |-> None,
                   conn |-> None, swept |-> sweep[i].swept]} :
             sweep' = [sweep EXCEPT ![i] = s]
      BY <1>23 DEF SweepScan
    <3>3. s \in Sweep /\ (s.at \in {"taken", "check", "delete"} => s.player \in Players)
      BY <3>1, <3>2 DEF Lapsed, Sweep, SweepSteps
    <3> QED BY <1>23, <3>2, <3>3, SweepMoves DEF SweepScan
  <2>4. OthersType'
    BY <1>23 DEF SweepScan, OthersType, IndexInv, TypeOK
  <2> QED BY <2>1, <2>2, <2>3, <2>4, PartsAfter
<1>24. ASSUME NEW i \in Instances, NEW p \in Players, SweepRecheck(i, p)
       PROVE  IndexInv'
  <2>1. TablesInv'
    <3>1. CASE local[i][p] # None /\ local[i][p].lapsed
      BY <1>24, <3>1, DropLocalPreserves DEF SweepRecheck, TablesInv
    <3>2. CASE ~(local[i][p] # None /\ local[i][p].lapsed)
      BY <1>24, <3>2, TablesUnchanged DEF SweepRecheck
    <3> QED BY <3>1, <3>2
  <2>2. RequestsInv'
    BY <1>24, RequestsUnchanged DEF SweepRecheck
  <2>3. HandlersInv'
    <3> DEFINE s == [at |-> "taken", todo |-> sweep[i].todo \ {p}, player |-> p,
                   conn |-> IF local[i][p] = None THEN None ELSE local[i][p].conn,
                   swept |-> sweep[i].swept]
    <3>1. sweep[i] \in Sweep
      BY DEF IndexInv, TypeOK
    <3>2. (IF local[i][p] = None THEN None ELSE local[i][p].conn) \in Conns \cup {None}
      BY DEF IndexInv, TypeOK, Session
    <3>3. s \in Sweep /\ s.player \in Players
      BY <3>1, <3>2 DEF Sweep, SweepSteps
    <3>4. sweep' = [sweep EXCEPT ![i] = s]
      BY <1>24 DEF SweepRecheck
    <3> HIDE DEF s
    <3> QED BY <1>24, <3>3, <3>4, SweepMoves DEF SweepRecheck
  <2>4. OthersType'
    BY <1>24 DEF SweepRecheck, OthersType, IndexInv, TypeOK
  <2> QED BY <2>1, <2>2, <2>3, <2>4, PartsAfter
<1>25. ASSUME NEW i \in Instances, SweepTaken(i)
       PROVE  IndexInv'
  <2>1. TablesInv'
    BY <1>25, TablesUnchanged DEF SweepTaken
  <2>2. RequestsInv'
    BY <1>25, RequestsUnchanged DEF SweepTaken
  <2>3. HandlersInv'
    <3>0. sweep[i].player \in Players
      BY <1>25 DEF SweepTaken, IndexInv, HandlersFormed
    <3>1. sweep[i] \in Sweep
      BY DEF IndexInv, TypeOK
    <3>2. PICK s \in {NextPlayer(sweep[i]), [sweep[i] EXCEPT !.at = "check"]} :
             sweep' = [sweep EXCEPT ![i] = s]
      BY <1>25 DEF SweepTaken
    <3>3. s \in Sweep /\ (s.at \in {"taken", "check", "delete"} => s.player \in Players)
      BY <3>0, <3>1, <3>2 DEF NextPlayer, SweepOn, Sweep, SweepSteps
    <3> QED BY <1>25, <3>2, <3>3, SweepMoves DEF SweepTaken
  <2>4. OthersType'
    BY <1>25 DEF SweepTaken, OthersType, IndexInv, TypeOK
  <2> QED BY <2>1, <2>2, <2>3, <2>4, PartsAfter
<1>26. ASSUME NEW i \in Instances, SweepCheck(i)
       PROVE  IndexInv'
  <2>1. TablesInv'
    BY <1>26, TablesUnchanged DEF SweepCheck
  <2>2. RequestsInv'
    BY <1>26, RequestsUnchanged DEF SweepCheck
  <2>3. HandlersInv'
    <3>0. sweep[i].player \in Players
      BY <1>26 DEF SweepCheck, IndexInv, HandlersFormed
    <3>1. sweep[i] \in Sweep
      BY DEF IndexInv, TypeOK
    <3>2. PICK s \in {ReportPlayer(sweep[i]), [sweep[i] EXCEPT !.at = "delete"]} :
             sweep' = [sweep EXCEPT ![i] = s]
      BY <1>26 DEF SweepCheck
    <3>3. s \in Sweep /\ (s.at \in {"taken", "check", "delete"} => s.player \in Players)
      BY <3>0, <3>1, <3>2 DEF ReportPlayer, SweepOn, Sweep, SweepSteps
    <3> QED BY <1>26, <3>2, <3>3, SweepMoves DEF SweepCheck
  <2>4. OthersType'
    BY <1>26 DEF SweepCheck, OthersType, IndexInv, TypeOK
  <2> QED BY <2>1, <2>2, <2>3, <2>4, PartsAfter
<1>27. ASSUME NEW i \in Instances, SweepDelete(i)
       PROVE  IndexInv'
  <2>1. TablesInv'
    BY <1>27, TablesUnchanged DEF SweepDelete
  <2>2. RequestsInv'
    BY <1>27, RequestsUnchanged DEF SweepDelete
  <2>3. HandlersInv'
    <3>0. sweep[i].player \in Players
      BY <1>27 DEF SweepDelete, IndexInv, HandlersFormed
    <3>1. sweep[i] \in Sweep
      BY DEF IndexInv, TypeOK
    <3>2. PICK s \in {ReportPlayer(sweep[i])} :
             sweep' = [sweep EXCEPT ![i] = s]
      BY <1>27 DEF SweepDelete
    <3>3. s \in Sweep /\ (s.at \in {"taken", "check", "delete"} => s.player \in Players)
      BY <3>0, <3>1, <3>2 DEF ReportPlayer, SweepOn, Sweep, SweepSteps
    <3> QED BY <1>27, <3>2, <3>3, SweepMoves DEF SweepDelete
  <2>4. OthersType'
    BY <1>27 DEF SweepDelete, OthersType, IndexInv, TypeOK
  <2> QED BY <2>1, <2>2, <2>3, <2>4, PartsAfter
<1>28. ASSUME NEW i \in Instances, SweepHook(i)
       PROVE  IndexInv'
  <2>1. TablesInv'
    BY <1>28, TablesUnchanged DEF SweepHook
  <2>2. RequestsInv'
    BY <1>28, RequestsUnchanged DEF SweepHook
  <2>3. HandlersInv'
    <3>1. SweepIdle \in Sweep /\ SweepIdle.at = "idle"
      BY DEF SweepIdle, Sweep, SweepSteps
    <3>2. sweep[i] \in Sweep
      BY DEF IndexInv, TypeOK
    <3>3. CASE sweep[i].swept = {}
      BY <1>28, <3>1, <3>3, SweepMoves DEF SweepHook
    <3>4. CASE sweep[i].swept # {}
      <4>1. PICK p \in sweep[i].swept :
               sweep' = [sweep EXCEPT ![i].swept = sweep[i].swept \ {p}]
        BY <1>28, <3>4 DEF SweepHook
      <4> DEFINE s == [sweep[i] EXCEPT !.swept = sweep[i].swept \ {p}]
      <4>2. s \in Sweep /\ s.at = "next"
        BY <1>28, <3>2 DEF SweepHook, Sweep
      <4>3. sweep' = [sweep EXCEPT ![i] = s]
        BY <4>1
      <4> HIDE DEF s
      <4> QED BY <1>28, <4>2, <4>3, SweepMoves DEF SweepHook
    <3> QED BY <3>3, <3>4
  <2>4. OthersType'
    BY <1>28 DEF SweepHook, OthersType, IndexInv, TypeOK
  <2> QED BY <2>1, <2>2, <2>3, <2>4, PartsAfter
<1>29. CASE UNCHANGED vars
  BY <1>29 DEF vars, tables, IndexInv, TypeOK, RequestsFormed, HandlersFormed,
              SessionsFormed, RefsSound, TokensExact
<1> QED
  BY <1>1, <1>2, <1>3, <1>4, <1>5, <1>6, <1>7, <1>8, <1>9, <1>10,
     <1>11, <1>12, <1>13, <1>14, <1>15, <1>16, <1>17, <1>18, <1>19, <1>20,
     <1>21, <1>22, <1>23, <1>24, <1>25, <1>26, <1>27, <1>28, <1>29
     DEF Next, Client, Serve, HandleKick, SweepOnce, Environment

THEOREM IndexesInvariant == Spec => []IndexInv
<1>1. Init => IndexInv
  BY GatewayAssumption, NoneAssumption
     DEF Init, IndexInv, TypeOK, RequestsFormed, HandlersFormed, SessionsFormed, RefsSound,
         TokensExact, Idle, KickIdle, SweepIdle, Request, Kick, Sweep, ReqSteps, KickSteps,
         SweepSteps, Binding, Unbinding
<1> QED
  BY <1>1, IndexInductive, PTL DEF Spec

\* Type correctness: every reachable state is of the declared shape.
THEOREM TypeCorrect == Spec => []TypeOK
<1>1. IndexInv => TypeOK
  BY DEF IndexInv
<1> QED
  BY <1>1, IndexesInvariant, PTL

\* PlayerByRef never answers for a session that is gone or has moved.
THEOREM ConnectionsIndexLiveSessions == Spec => []RefsSound
<1>1. IndexInv => RefsSound
  BY DEF IndexInv
<1> QED
  BY <1>1, IndexesInvariant, PTL

\* PlayerByToken answers exactly for the tokens of the sessions in the table.
THEOREM TokensIndexLiveSessions == Spec => []TokensExact
<1>1. IndexInv => TokensExact
  BY DEF IndexInv
<1> QED
  BY <1>1, IndexesInvariant, PTL

-------------------------------------------------------------------------------
\* What bindLocal and the locked removal do to the identity of the connections.
LEMMA BindKeepsIdentity ==
    ASSUME IndexInv, ConnIdentified,
           NEW c \in Conns, NEW p \in UsableBy[c], NEW t \in Token,
           BindLocal(Home[c], p, c, t)
    PROVE  ConnIdentified'
<1> DEFINE i == Home[c]
<1> DEFINE prev == local[i][p]
<1>0. i \in Instances /\ p \in Players /\ prev \in Session \cup {None}
  BY GatewayAssumption DEF IndexInv, TypeOK
<1> SUFFICES ASSUME NEW j \in Instances, NEW q \in Players, local'[j][q] # None,
                    UsableBy[local'[j][q].conn] = {q}
             PROVE  refs'[local'[j][q].conn] = q
  BY DEF ConnIdentified
<1>1. \A d \in Conns : refs'[d] = IF d = c THEN p
                                 ELSE IF prev # None /\ d = prev.conn THEN None ELSE refs[d]
  BY DEF BindLocal
<1>2. CASE j = i /\ q = p
  <2>1. local'[j][q].conn = c
    BY <1>0, <1>2 DEF BindLocal, IndexInv, TypeOK
  <2> QED BY <1>1, <1>2, <2>1
<1>3. CASE ~(j = i /\ q = p)
  <2>1. local'[j][q] = local[j][q]
    BY <1>0, <1>3 DEF BindLocal, IndexInv, TypeOK
  <2>2. /\ local[j][q].conn \in Conns /\ Home[local[j][q].conn] = j
        /\ q \in UsableBy[local[j][q].conn] /\ refs[local[j][q].conn] = q
    BY <2>1 DEF IndexInv, TypeOK, Session, SessionsFormed, ConnIdentified
  <2>3. local[j][q].conn # c
    BY <1>3, <2>1, <2>2
  <2>4. prev # None => prev.conn \in Conns /\ Home[prev.conn] = i /\ p \in UsableBy[prev.conn]
    BY <1>0 DEF IndexInv, Session, SessionsFormed
  <2>5. prev # None => local[j][q].conn # prev.conn
    BY <1>3, <2>1, <2>2, <2>4
  <2> QED BY <1>1, <2>1, <2>2, <2>3, <2>5
<1> QED BY <1>2, <1>3

LEMMA DropKeepsIdentity ==
    ASSUME IndexInv, ConnIdentified,
           NEW i \in Instances, NEW p \in Players, local[i][p] # None, DropLocal(i, p)
    PROVE  ConnIdentified'
<1> SUFFICES ASSUME NEW j \in Instances, NEW q \in Players, local'[j][q] # None,
                    UsableBy[local'[j][q].conn] = {q}
             PROVE  refs'[local'[j][q].conn] = q
  BY DEF ConnIdentified
<1>1. ~(j = i /\ q = p) /\ local'[j][q] = local[j][q]
  BY DEF DropLocal, IndexInv, TypeOK
<1>2. /\ local[j][q].conn \in Conns /\ Home[local[j][q].conn] = j
      /\ q \in UsableBy[local[j][q].conn] /\ refs[local[j][q].conn] = q
      /\ local[i][p].conn \in Conns /\ Home[local[i][p].conn] = i
      /\ p \in UsableBy[local[i][p].conn]
  BY <1>1 DEF IndexInv, TypeOK, Session, SessionsFormed, ConnIdentified
<1>3. local[j][q].conn # local[i][p].conn
  BY <1>1, <1>2
<1> QED BY <1>1, <1>2, <1>3 DEF DropLocal, IndexInv, TypeOK

\* The table steps of Next, and nothing else, touch the table and the connection index.
LEMMA TableSteps ==
    ASSUME IndexInv, [Next]_vars
    PROVE  \/ \E c \in Conns, t \in Token :
                \E p \in UsableBy[c] : BindLocal(Home[c], p, c, t)
           \/ \E i \in Instances, p \in Players :
                /\ local[i][p] # None /\ DropLocal(i, p)
                /\ \/ local[i][p].lapsed
                   \/ \E c \in Conns :
                         /\ i = Home[c] /\ req[c].at = "unbind" /\ req[c].player = p
                         /\ ConnID[local[i][p].conn] = ConnID[c]
                   \/ /\ kick[i].at = "unbind" /\ kick[i].player = p
                      /\ ConnID[local[i][p].conn] = ConnID[kick[i].conn]
           \/ \E i \in Instances, p \in Players, b \in BOOLEAN :
                /\ local[i][p] # None /\ local' = [local EXCEPT ![i][p].lapsed = b]
                /\ refs' = refs
           \/ UNCHANGED <<local, refs>>
<1> USE DEF tables
<1>1. ASSUME NEW c \in Conns, LoginBind(c) \/ ResumeBind(c)
      PROVE  \E t \in Token : \E p \in UsableBy[c] : BindLocal(Home[c], p, c, t)
  BY <1>1 DEF LoginBind, ResumeBind, IndexInv, RequestsFormed, Binding
<1>2. ASSUME NEW c \in Conns, LogoutUnbind(c), ~UNCHANGED tables
      PROVE  LET p == req[c].player IN
             /\ Home[c] \in Instances /\ p \in Players /\ local[Home[c]][p] # None
             /\ DropLocal(Home[c], p) /\ req[c].at = "unbind"
             /\ ConnID[local[Home[c]][p].conn] = ConnID[c]
  BY <1>2, GatewayAssumption
     DEF LogoutUnbind, UnbindMatches, IndexInv, RequestsFormed, Unbinding
<1>3. ASSUME NEW c \in Conns, HeartbeatRenew(c), ~UNCHANGED tables
      PROVE  LET p == req[c].player IN
             /\ Home[c] \in Instances /\ p \in Players /\ local[Home[c]][p] # None
             /\ local' = [local EXCEPT ![Home[c]][p].lapsed = FALSE] /\ refs' = refs
  BY <1>3, GatewayAssumption DEF HeartbeatRenew, IndexInv, RequestsFormed, Unbinding
<1>4. ASSUME NEW i \in Instances, KickUnbind(i), ~UNCHANGED tables
      PROVE  LET p == kick[i].player IN
             /\ p \in Players /\ local[i][p] # None /\ DropLocal(i, p)
             /\ kick[i].at = "unbind"
             /\ ConnID[local[i][p].conn] = ConnID[kick[i].conn]
  BY <1>4 DEF KickUnbind, UnbindMatches, IndexInv, HandlersFormed
<1>5. ASSUME NEW i \in Instances, NEW p \in Players, SweepRecheck(i, p), ~UNCHANGED tables
      PROVE  local[i][p] # None /\ local[i][p].lapsed /\ DropLocal(i, p)
  BY <1>5 DEF SweepRecheck
<1>6. ASSUME NEW i \in Instances, NEW p \in Players, Lapse(i, p)
      PROVE  /\ local[i][p] # None /\ refs' = refs
             /\ local' = [local EXCEPT ![i][p].lapsed = TRUE]
  BY <1>6 DEF Lapse, Live
<1>7. ASSUME NEW c \in Conns, Client(c) \/ Serve(c)
      PROVE  \/ LoginBind(c) \/ ResumeBind(c) \/ LogoutUnbind(c) \/ HeartbeatRenew(c)
             \/ UNCHANGED tables
  BY <1>7 DEF Client, Serve, LoginStart, ResumeStart, LogoutStart, HeartbeatStart,
              LoginRoute, LoginKick, ResumeRoute, LogoutCheck, LogoutDelete, LogoutStop
<1>8. ASSUME NEW i \in Instances, HandleKick(i) \/ SweepOnce(i)
      PROVE  \/ KickUnbind(i) \/ (\E p \in Players : SweepRecheck(i, p))
             \/ UNCHANGED tables
  BY <1>8 DEF HandleKick, SweepOnce, KickStart, KickCheck, KickDelete, SweepScan, SweepTaken,
              SweepCheck, SweepDelete, SweepHook
<1>9. Environment => \/ \E i \in Instances, p \in Players : Lapse(i, p)
                     \/ UNCHANGED tables
  BY DEF Environment, LoginRouteFails, NoticeLost, RouteExpires
<1>10. CASE UNCHANGED tables
  BY <1>10
<1>11. CASE ~UNCHANGED tables
  <2>1. \/ \E c \in Conns : \/ LoginBind(c) \/ ResumeBind(c)
                            \/ LogoutUnbind(c) \/ HeartbeatRenew(c)
        \/ \E i \in Instances : KickUnbind(i) \/ \E p \in Players : SweepRecheck(i, p)
        \/ \E i \in Instances, p \in Players : Lapse(i, p)
    BY <1>7, <1>8, <1>9, <1>11 DEF Next, vars
  <2>2. ASSUME NEW c \in Conns, LoginBind(c) \/ ResumeBind(c)
        PROVE  \E d \in Conns, t \in Token :
                   \E p \in UsableBy[d] : BindLocal(Home[d], p, d, t)
    BY <1>1, <2>2
  <2>3. ASSUME NEW c \in Conns, LogoutUnbind(c)
        PROVE  \E i \in Instances, p \in Players :
                 /\ local[i][p] # None /\ DropLocal(i, p)
                 /\ i = Home[c] /\ req[c].at = "unbind" /\ req[c].player = p
                 /\ ConnID[local[i][p].conn] = ConnID[c]
    BY <1>2, <1>11, <2>3
  <2>4. ASSUME NEW c \in Conns, HeartbeatRenew(c)
        PROVE  \E i \in Instances, p \in Players, b \in BOOLEAN :
                 /\ local[i][p] # None /\ local' = [local EXCEPT ![i][p].lapsed = b]
                 /\ refs' = refs
    BY <1>3, <1>11, <2>4
  <2>5. ASSUME NEW i \in Instances, KickUnbind(i)
        PROVE  \E p \in Players :
                 /\ local[i][p] # None /\ DropLocal(i, p)
                 /\ kick[i].at = "unbind" /\ kick[i].player = p
                 /\ ConnID[local[i][p].conn] = ConnID[kick[i].conn]
    BY <1>4, <1>11, <2>5
  <2>6. CASE \E c \in Conns : LoginBind(c) \/ ResumeBind(c)
    BY <2>2, <2>6
  <2>7. CASE \E c \in Conns : LogoutUnbind(c)
    <3>1. PICK c \in Conns : LogoutUnbind(c)
      BY <2>7
    <3> QED BY <2>3, <3>1
  <2>8. CASE \E c \in Conns : HeartbeatRenew(c)
    BY <2>4, <2>8
  <2>9. CASE \E i \in Instances : KickUnbind(i)
    BY <2>5, <2>9
  <2>10. CASE \E i \in Instances, p \in Players : SweepRecheck(i, p)
    BY <1>5, <1>11, <2>10
  <2>11. CASE \E i \in Instances, p \in Players : Lapse(i, p)
    BY <1>6, <2>11
  <2> QED BY <2>1, <2>6, <2>7, <2>8, <2>9, <2>10, <2>11
<1> QED BY <1>10, <1>11

\* Every live session's connection is identified, unless another player uses it too.
THEOREM SessionsIdentified == Spec => []ConnIdentified
<1>1. Init => ConnIdentified
  BY NoneAssumption DEF Init, ConnIdentified
<1>2. IndexInv /\ ConnIdentified /\ [Next]_vars => ConnIdentified'
  <2> SUFFICES ASSUME IndexInv, ConnIdentified, [Next]_vars PROVE ConnIdentified'
    OBVIOUS
  <2>1. ASSUME NEW i \in Instances, NEW p \in Players, NEW b \in BOOLEAN,
               local[i][p] # None, local' = [local EXCEPT ![i][p].lapsed = b], refs' = refs
        PROVE  ConnIdentified'
    <3> SUFFICES ASSUME NEW j \in Instances, NEW q \in Players, local'[j][q] # None,
                        UsableBy[local'[j][q].conn] = {q}
                 PROVE  refs[local'[j][q].conn] = q
      BY <2>1 DEF ConnIdentified
    <3>1. local[j][q] # None
      BY <2>1 DEF IndexInv, TypeOK
    <3>2. local'[j][q].conn = local[j][q].conn
      BY <2>1, <3>1 DEF IndexInv, TypeOK, Session
    <3> QED BY <3>1, <3>2 DEF ConnIdentified
  <2>2. CASE UNCHANGED <<local, refs>>
    BY <2>2 DEF ConnIdentified
  <2> QED BY <2>1, <2>2, BindKeepsIdentity, DropKeepsIdentity, TableSteps
<1> QED BY <1>1, <1>2, IndexesInvariant, PTL DEF Spec

\* If the connection numbers of an instance are distinct, a live session is removed only
\* through its own connection.
THEOREM UnbindSparesOthers == DistinctConnIDs /\ Spec => StaleUnbindHarmless
<1> DEFINE Harmless ==
      \A i \in Instances, p \in Players :
        Live(i, p) /\ local'[i][p] = None =>
            \/ LET rq == req[local[i][p].conn] IN rq.at = "unbind" /\ rq.player = p
            \/ kick[i].at = "unbind" /\ kick[i].player = p
                  /\ kick[i].conn = local[i][p].conn
<1>1. DistinctConnIDs /\ IndexInv /\ [Next]_vars => Harmless
  <2> SUFFICES ASSUME DistinctConnIDs, IndexInv, [Next]_vars,
                      NEW i \in Instances, NEW p \in Players,
                      Live(i, p), local'[i][p] = None
               PROVE  \/ LET rq == req[local[i][p].conn] IN rq.at = "unbind" /\ rq.player = p
                      \/ kick[i].at = "unbind" /\ kick[i].player = p
                            /\ kick[i].conn = local[i][p].conn
    OBVIOUS
  <2>1. /\ local[i][p] # None /\ local[i][p] \in Session /\ ~local[i][p].lapsed
        /\ local[i][p].conn \in Conns /\ Home[local[i][p].conn] = i
    BY DEF Live, IndexInv, TypeOK, Session, SessionsFormed
  <2>2. ASSUME NEW c \in Conns, NEW t \in Token, NEW q \in UsableBy[c],
               BindLocal(Home[c], q, c, t)
        PROVE  FALSE
    <3>1. [token |-> t, conn |-> c, lapsed |-> FALSE] \in Session
      BY DEF Session
    <3>2. local'[i][p] \in {local[i][p], [token |-> t, conn |-> c, lapsed |-> FALSE]}
      BY <2>2 DEF BindLocal, IndexInv, TypeOK
    <3> QED BY <2>1, <3>1, <3>2, NoneAssumption
  <2>3. ASSUME NEW j \in Instances, NEW q \in Players, DropLocal(j, q)
        PROVE  j = i /\ q = p
    BY <2>1, <2>3 DEF DropLocal, IndexInv, TypeOK
  <2>4. ASSUME NEW j \in Instances, NEW q \in Players, NEW b \in BOOLEAN,
               local[j][q] # None, local' = [local EXCEPT ![j][q].lapsed = b]
        PROVE  FALSE
    <3>1. [local[i][p] EXCEPT !.lapsed = b] \in Session
      BY <2>1 DEF Session
    <3>2. local'[i][p] \in {local[i][p], [local[i][p] EXCEPT !.lapsed = b]}
      BY <2>4 DEF IndexInv, TypeOK
    <3> QED BY <2>1, <3>1, <3>2, NoneAssumption
  <2>5. ASSUME NEW c \in Conns, i = Home[c], req[c].at = "unbind", req[c].player = p,
               ConnID[local[i][p].conn] = ConnID[c]
        PROVE  c = local[i][p].conn
    BY <2>1, <2>5 DEF DistinctConnIDs
  <2>6. ASSUME kick[i].at = "unbind", ConnID[local[i][p].conn] = ConnID[kick[i].conn]
        PROVE  kick[i].conn = local[i][p].conn
    BY <2>1, <2>6 DEF DistinctConnIDs, IndexInv, HandlersFormed
  <2>7. ~UNCHANGED <<local, refs>>
    BY <2>1
  <2>8. PICK j \in Instances, q \in Players :
           /\ DropLocal(j, q)
           /\ \/ local[j][q].lapsed
              \/ \E c \in Conns :
                    /\ j = Home[c] /\ req[c].at = "unbind" /\ req[c].player = q
                    /\ ConnID[local[j][q].conn] = ConnID[c]
              \/ /\ kick[j].at = "unbind" /\ kick[j].player = q
                 /\ ConnID[local[j][q].conn] = ConnID[kick[j].conn]
    BY <2>2, <2>4, <2>7, TableSteps
  <2>9. j = i /\ q = p
    BY <2>3, <2>8
  <2> QED BY <2>1, <2>5, <2>6, <2>8, <2>9
<1>2. CASE DistinctConnIDs
  <2>1. IndexInv /\ [Next]_vars => [Harmless]_vars
    BY <1>1, <1>2
  <2>2. Spec => [][Harmless]_vars
    BY <2>1, IndexesInvariant, PTL DEF Spec
  <2> QED BY <2>2 DEF StaleUnbindHarmless
<1>3. CASE ~DistinctConnIDs
  BY <1>3
<1> QED BY <1>2, <1>3

===============================================================================
