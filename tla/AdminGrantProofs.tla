--------------------------- MODULE AdminGrantProofs ---------------------------
(* Proofs about AdminGrant, for any requests, keys, parameters, bounds and faults.  *)
EXTENDS AdminGrant, PlayerDurabilityProofs

-------------------------------------------------------------------------------
(* The grants are messages of the player's actor like any other *)

\* What the handlers of the grants do to the player is nothing, or a change he may make.
LEMMA PlayersStep == [GrantNext]_allVars => [Next]_vars
<1> SUFFICES ASSUME [GrantNext]_allVars PROVE [Next]_vars
  OBVIOUS
<1>1. CASE UNCHANGED allVars
  BY <1>1 DEF allVars
<1>2. CASE Next /\ UNCHANGED admin
  BY <1>2
<1>3. ASSUME NEW r \in Requests, \E g \in Grant : Ask(r, g) PROVE UNCHANGED vars
  BY <1>3 DEF Ask, PlayerStays
<1>4. ASSUME NEW r \in Requests,
             InsertAudit(r) \/ ReplayGrant(r) \/ Send(r) \/ TimeOut(r) \/ FinishAudit(r) \/ Die(r)
      PROVE  UNCHANGED vars
  BY <1>4 DEF InsertAudit, ReplayGrant, Send, TimeOut, FinishAudit, Die, PlayerStays
<1>5. ASSUME NEW g \in Grant, Deliver(g) PROVE [Next]_vars
  BY <1>5 DEF Deliver, PlayerStays, Next
<1>6. ASSUME NEW g \in Grant, Lose(g) PROVE UNCHANGED vars
  BY <1>6 DEF Lose, PlayerStays
<1> QED BY <1>1, <1>2, <1>3, <1>4, <1>5, <1>6 DEF GrantNext, AdminStep

\* The composition implements the player: what is proved of his copies alone holds with
\* the grants of the admin interface among his messages.
THEOREM GrantsImplementPlayer == GrantSpec => Spec
<1> QED BY PlayersStep, PTL DEF GrantSpec, Spec

-------------------------------------------------------------------------------
(* The records of the audit *)

\* A handler that moves on keeps its grant, and the others stay where they are.
LEMMA Moves ==
    ASSUME AdminTypeOK, NEW r \in Requests, NEW at \in Places, Goto(r, at)
    PROVE  /\ request' \in [Requests -> [at : Places, of : Grant]]
           /\ request'[r].at = at
           /\ \A q \in Requests : request'[q].of = request[q].of
           /\ \A q \in Requests : q # r => request'[q] = request[q]
BY DEF AdminTypeOK, Goto

\* A grant is its key and its parameters.
LEMMA GrantIs ==
    ASSUME NEW g \in Grant, NEW h \in Grant, g.key = h.key, g.hash = h.hash
    PROVE  g = h
BY DEF Grant

\* Closing a record changes its result only.
LEMMA Closes ==
    ASSUME AuditInv, NEW r \in Requests, request[r].at \in {"success", "failed"}
    PROVE  /\ Closed(r) \in [Keys -> Record \cup {None}]
           /\ \A k \in Keys : Closed(r)[k] # None <=> audit[k] # None
           /\ \A k \in Keys : audit[k] # None => Closed(r)[k].hash = audit[k].hash
           /\ \A k \in Keys : k # Key(r) => Closed(r)[k] = audit[k]
           /\ Closed(r)[Key(r)].result = request[r].at
<1>1. Key(r) \in Keys /\ audit[Key(r)] # None
  BY DEF AuditInv, AdminTypeOK, KeysHeld, Holds, Recorded, Grant, Key
<1>2. audit[Key(r)] \in Record
  BY <1>1 DEF AuditInv, AdminTypeOK
<1>3. Closed(r)[Key(r)] = [audit[Key(r)] EXCEPT !.result = request[r].at]
  BY <1>1 DEF AuditInv, AdminTypeOK, Closed
<1>4. /\ Closed(r)[Key(r)] \in Record /\ Closed(r)[Key(r)].hash = audit[Key(r)].hash
      /\ Closed(r)[Key(r)].result = request[r].at
  BY <1>2, <1>3 DEF Record
<1>5. \A j \in Keys : j # Key(r) => Closed(r)[j] = audit[j]
  BY DEF AuditInv, AdminTypeOK, Closed
<1>6. Closed(r) \in [Keys -> Record \cup {None}]
  BY <1>4, <1>5 DEF AuditInv, AdminTypeOK, Closed
<1> QED BY <1>1, <1>2, <1>4, <1>5, <1>6, RecordAssumption

LEMMA AuditInitially == AdminInit => AuditInv
<1> SUFFICES ASSUME AdminInit PROVE AuditInv
  OBVIOUS
<1>1. AdminTypeOK
  BY DEF AdminInit, AdminTypeOK, Places
<1>2. \A r \in Requests : request[r].at = Free
  BY DEF AdminInit
<1>3. \A g \in Grant : ~Recorded(g)
  BY DEF AdminInit, Recorded, Grant
<1> QED BY <1>1, <1>2, <1>3
        DEF AdminInit, AuditInv, AuditHonest, KeysHeld, SentOnce, Holds, Free

\* What holds at the end of a step in which no request but r moves, none is told more, and
\* nothing is granted or sent.
LEMMA Waiting ==
    ASSUME AuditInv, NEW r \in Requests, UNCHANGED <<audit, mail, granted, told>>,
           request' \in [Requests -> [at : Places, of : Grant]],
           \A q \in Requests : q # r => request'[q] = request[q],
           \/ request'[r].at \in {Free, "insert"}
           \/ request[r].at = "wait" /\ request'[r].at = "failed" /\ request'[r].of = request[r].of
    PROVE  AuditInv'
<1>1. AdminTypeOK'
  BY DEF AuditInv, AdminTypeOK
<1>2. \A g : IsGranted(g)' <=> IsGranted(g)
  BY DEF IsGranted
<1>3. \A g : Recorded(g)' <=> Recorded(g)
  BY DEF Recorded
<1>4. AuditHonest'
  BY <1>2, <1>3 DEF AuditInv, AuditHonest
<1>5. \A q \in Requests : Holds(q)' => Holds(q) /\ request'[q].of = request[q].of
  BY DEF Holds, Free
<1>6. KeysHeld'
  BY <1>3, <1>5 DEF AuditInv, KeysHeld, Key, Free
<1>7. SentOnce'
  BY <1>2, <1>3 DEF AuditInv, SentOnce, Free
<1> QED BY <1>1, <1>4, <1>6, <1>7 DEF AuditInv

LEMMA InsertKeeps ==
    ASSUME AuditInv, NEW r \in Requests, InsertAudit(r)
    PROVE  AuditInv'
<1> DEFINE g == request[r].of
<1>1. g \in Grant /\ g.key \in Keys /\ g.hash \in Params /\ Key(r) = g.key
  BY DEF AuditInv, AdminTypeOK, Grant, Key
<1>2. CASE UNCHANGED audit /\ Goto(r, Free)
  <2>1. UNCHANGED <<mail, granted, told>>
    BY DEF InsertAudit
  <2> QED BY <1>2, <2>1, Moves, Waiting DEF AuditInv, Places
<1>3. CASE audit[g.key] # None /\ UNCHANGED audit /\ Goto(r, "replay")
  <2>1. /\ request' \in [Requests -> [at : Places, of : Grant]]
        /\ request'[r].at = "replay"
        /\ \A q \in Requests : request'[q].of = request[q].of
        /\ \A q \in Requests : q # r => request'[q] = request[q]
    BY <1>3, Moves DEF AuditInv, Places
  <2>2. UNCHANGED <<audit, mail, granted, told>>
    BY <1>3 DEF InsertAudit
  <2>3. AdminTypeOK' /\ AuditHonest'
    BY <2>1, <2>2 DEF AuditInv, AdminTypeOK, AuditHonest, IsGranted, Recorded
  <2>4. KeysHeld'
    BY <1>3, <2>1, <2>2 DEF AuditInv, KeysHeld, Holds, Key, Recorded, Free
  <2>5. SentOnce'
    BY <2>1, <2>2 DEF AuditInv, SentOnce, IsGranted, Recorded, Free
  <2> QED BY <2>3, <2>4, <2>5 DEF AuditInv
<1>4. ASSUME audit[g.key] = None, audit' = Claimed(r), NEW at \in {"send", Free}, Goto(r, at)
      PROVE  AuditInv'
  <2>1. /\ request' \in [Requests -> [at : Places, of : Grant]]
        /\ request'[r].at = at
        /\ \A q \in Requests : request'[q].of = request[q].of
        /\ \A q \in Requests : q # r => request'[q] = request[q]
    BY <1>4, Moves DEF AuditInv, Places
  <2>2. UNCHANGED <<mail, granted, told>>
    BY DEF InsertAudit
  <2>3. /\ audit' \in [Keys -> Record \cup {None}]
        /\ audit'[g.key] = [hash |-> g.hash, result |-> "pending"]
        /\ audit'[g.key] # None
        /\ \A k \in Keys : k # g.key => audit'[k] = audit[k]
    BY <1>1, <1>4, RecordAssumption DEF Claimed, AuditInv, AdminTypeOK, Record
  <2>4. AdminTypeOK'
    BY <2>1, <2>2, <2>3 DEF AuditInv, AdminTypeOK
  <2>5. \A h \in Grant : Recorded(h) =>
            Recorded(h)' /\ h.key # g.key /\ audit'[h.key] = audit[h.key]
    BY <1>4, <2>3 DEF Recorded, Grant
  <2>6. \A h : IsGranted(h)' <=> IsGranted(h)
    BY <2>2 DEF IsGranted
  <2>7. \A h \in Grant : Recorded(h)' => Recorded(h) \/ audit'[h.key].result = "pending"
    BY <2>3 DEF Recorded, Grant
  <2>8. AuditHonest'
    <3>1. (\A x, y \in granted : x.of.key = y.of.key => x = y)'
      BY <2>2 DEF AuditInv, AuditHonest
    <3>2. (\A x \in granted : Recorded(x.of))'
      BY <2>2, <2>5 DEF AuditInv, AuditHonest, AdminTypeOK
    <3>3. (\A h \in Grant : Recorded(h) /\ audit[h.key].result = "success" => IsGranted(h))'
      BY <2>5, <2>6, <2>7 DEF AuditInv, AuditHonest
    <3>4. (\A h \in told : IsGranted(h))'
      BY <2>2, <2>6 DEF AuditInv, AuditHonest
    <3> QED BY <3>1, <3>2, <3>3, <3>4 DEF AuditHonest
  <2>9. \A q \in Requests : q # r /\ Holds(q) => Key(q) # g.key
    BY <1>4, <2>5 DEF AuditInv, AdminTypeOK, KeysHeld, Recorded, Key
  <2>10. \A q \in Requests : Holds(q)' => q = r \/ Holds(q)
    BY <2>1 DEF Holds
  <2>11. \A h : h = g => Recorded(h)'
    BY <2>3 DEF Recorded
  <2>12. \A q \in Requests : Key(q)' = Key(q)
    BY <2>1 DEF Key
  <2>13. KeysHeld'
    <3>1. (\A q \in Requests : Holds(q) => Recorded(request[q].of))'
      BY <2>1, <2>5, <2>10, <2>11 DEF AuditInv, AdminTypeOK, KeysHeld
    <3>2. (\A q, p \in Requests : Holds(q) /\ Holds(p) /\ Key(q) = Key(p) => q = p)'
      BY <1>1, <2>9, <2>10, <2>12 DEF AuditInv, KeysHeld
    <3>3. (\A q \in Requests : request[q].at = "replay" => audit[Key(q)] # None)'
      BY <2>1, <2>3, <2>12 DEF AuditInv, AdminTypeOK, KeysHeld, Key, Grant, Free
    <3> QED BY <3>1, <3>2, <3>3 DEF KeysHeld
  <2>14. g \notin mail /\ ~IsGranted(g)
    BY <1>4 DEF AuditInv, AuditHonest, SentOnce, Recorded, IsGranted
  <2>15. SentOnce'
    <3>1. (\A q \in Requests : request[q].at = "send" =>
              request[q].of \notin mail /\ ~IsGranted(request[q].of))'
      BY <2>1, <2>2, <2>6, <2>14 DEF AuditInv, SentOnce
    <3>2. (\A q \in Requests : request[q].at = "success" => IsGranted(request[q].of))'
      BY <2>1, <2>6, <1>4 DEF AuditInv, SentOnce, Free
    <3>3. (\A h \in mail : ~IsGranted(h) /\ Recorded(h))'
      BY <2>2, <2>5, <2>6 DEF AuditInv, AdminTypeOK, SentOnce
    <3> QED BY <3>1, <3>2, <3>3 DEF SentOnce
  <2> QED BY <2>4, <2>8, <2>13, <2>15 DEF AuditInv
<1> QED BY <1>1, <1>2, <1>3, <1>4 DEF InsertAudit

LEMMA ReplayKeeps ==
    ASSUME AuditInv, NEW r \in Requests, ReplayGrant(r)
    PROVE  AuditInv'
<1> DEFINE g == request[r].of
<1>1. /\ request' \in [Requests -> [at : Places, of : Grant]]
      /\ request'[r].at = Free
      /\ \A q \in Requests : q # r => request'[q] = request[q]
  BY Moves DEF ReplayGrant, AuditInv, Places
<1>2. g \in Grant /\ audit[g.key] # None
  BY DEF ReplayGrant, AuditInv, AdminTypeOK, KeysHeld, Key
<1>3. \A h \in told' : h \in told \/ (h = g /\ IsGranted(g))
  BY <1>2 DEF ReplayGrant, AuditInv, AuditHonest, Recorded
<1>4. UNCHANGED <<audit, mail, granted>>
  BY DEF ReplayGrant
<1>5. AdminTypeOK'
  BY <1>1, <1>2, <1>3, <1>4 DEF AuditInv, AdminTypeOK
<1>6. \A h : (IsGranted(h)' <=> IsGranted(h)) /\ (Recorded(h)' <=> Recorded(h))
  BY <1>4 DEF IsGranted, Recorded
<1>7. AuditHonest'
  BY <1>3, <1>4, <1>6 DEF AuditInv, AuditHonest
<1>8. KeysHeld'
  BY <1>1, <1>4, <1>6 DEF AuditInv, KeysHeld, Holds, Key, Free
<1>9. SentOnce'
  BY <1>1, <1>4, <1>6 DEF AuditInv, SentOnce, Free
<1> QED BY <1>5, <1>7, <1>8, <1>9 DEF AuditInv

LEMMA SendKeeps ==
    ASSUME AuditInv, NEW r \in Requests, Send(r)
    PROVE  AuditInv'
<1> DEFINE g == request[r].of
<1>1. /\ request' \in [Requests -> [at : Places, of : Grant]]
      /\ request'[r].at = "wait"
      /\ \A q \in Requests : request'[q].of = request[q].of
      /\ \A q \in Requests : q # r => request'[q] = request[q]
  BY Moves DEF Send, AuditInv, Places
<1>2. g \in Grant /\ Recorded(g) /\ ~IsGranted(g)
  BY DEF Send, AuditInv, AdminTypeOK, KeysHeld, SentOnce, Holds
<1>3. mail' = mail \cup {g} /\ UNCHANGED <<audit, granted, told>>
  BY DEF Send
<1>4. \A h : (IsGranted(h)' <=> IsGranted(h)) /\ (Recorded(h)' <=> Recorded(h))
  BY <1>3 DEF IsGranted, Recorded
<1>5. \A q \in Requests : Holds(q)' <=> Holds(q)
  BY <1>1 DEF Send, Holds
<1>6. AdminTypeOK' /\ AuditHonest'
  BY <1>1, <1>2, <1>3, <1>4 DEF AuditInv, AdminTypeOK, AuditHonest
<1>7. KeysHeld'
  BY <1>1, <1>3, <1>4, <1>5 DEF AuditInv, KeysHeld, Key
<1>8. \A q \in Requests : q # r /\ request[q].at = "send" => request[q].of # g
  BY DEF Send, AuditInv, KeysHeld, Holds, Key
<1>9. SentOnce'
  BY <1>1, <1>2, <1>3, <1>4, <1>8 DEF AuditInv, SentOnce
<1> QED BY <1>6, <1>7, <1>9 DEF AuditInv

LEMMA DeliverKeeps ==
    ASSUME AuditInv, NEW g \in Grant, Deliver(g)
    PROVE  AuditInv'
<1>1. PICK at \in {"success", "failed"} : Reply(g, at)
  BY DEF Deliver
<1>2. \A q \in Requests :
          request'[q] = IF q \in Waits(g) THEN [at |-> at, of |-> g] ELSE request[q]
  BY <1>1 DEF Reply
<1>3. \A q \in Requests : q \in Waits(g) => request[q].at = "wait" /\ request[q].of = g
  BY DEF Waits
<1>4. /\ request' \in [Requests -> [at : Places, of : Grant]]
      /\ \A q \in Requests : request'[q].of = request[q].of
      /\ \A q \in Requests : q \in Waits(g) => request'[q].at = at
      /\ \A q \in Requests : q \notin Waits(g) => request'[q] = request[q]
  <2>1. [at |-> at, of |-> g] \in [at : Places, of : Grant]
    BY DEF Places
  <2>2. request' \in [Requests -> [at : Places, of : Grant]]
    BY <1>1, <1>2, <2>1 DEF Reply, AuditInv, AdminTypeOK
  <2> QED BY <1>2, <1>3, <2>2
<1>5. g \in mail /\ mail' = mail \ {g} /\ UNCHANGED <<audit, told>>
  BY DEF Deliver
<1>6. Recorded(g) /\ ~IsGranted(g)
  BY <1>5 DEF AuditInv, SentOnce
<1>7. \A h : Recorded(h)' <=> Recorded(h)
  BY <1>5 DEF Recorded
<1>8. \A q \in Requests : Holds(q)' <=> Holds(q)
  <2>1. \A q \in Requests : q \in Waits(g) => Holds(q) /\ Holds(q)'
    BY <1>3, <1>4 DEF Holds
  <2>2. \A q \in Requests : q \notin Waits(g) => (Holds(q)' <=> Holds(q))
    BY <1>4 DEF Holds
  <2> QED BY <2>1, <2>2
<1>9. KeysHeld'
  <2>1. \A q \in Requests : Key(q)' = Key(q)
    BY <1>4 DEF Key
  <2>2. (\A q \in Requests : Holds(q) => Recorded(request[q].of))'
    BY <1>4, <1>7, <1>8 DEF AuditInv, KeysHeld
  <2>3. (\A q, p \in Requests : Holds(q) /\ Holds(p) /\ Key(q) = Key(p) => q = p)'
    BY <1>8, <2>1 DEF AuditInv, KeysHeld
  <2>4. (\A q \in Requests : request[q].at = "replay" => audit[Key(q)] # None)'
    BY <1>4, <1>5, <2>1 DEF AuditInv, KeysHeld
  <2> QED BY <2>2, <2>3, <2>4 DEF KeysHeld
<1>10. \A q \in Requests : request[q].at = "send" => request[q].of # g
  BY <1>5 DEF AuditInv, SentOnce
<1>11. CASE granted' = granted \cup {[of |-> g, data |-> mem'.data]} /\ Reply(g, "success")
  <2> DEFINE new == [of |-> g, data |-> mem'.data]
  <2>1. new.of = g /\ granted' = granted \cup {new}
    BY <1>11
  <2> HIDE DEF new
  <2>2. \A h : IsGranted(h)' <=> IsGranted(h) \/ h = g
    BY <2>1 DEF IsGranted
  <2>3. \A y \in granted : y.of.key # g.key
    <3>1. SUFFICES ASSUME NEW y \in granted, y.of.key = g.key PROVE FALSE
      OBVIOUS
    <3>2. y.of \in Grant /\ y.of.hash = g.hash
      BY <1>6, <3>1 DEF AuditInv, AdminTypeOK, AuditHonest, Recorded
    <3>3. y.of = g
      BY <3>1, <3>2, GrantIs
    <3> QED BY <1>6, <3>3 DEF IsGranted
  <2>4. AdminTypeOK'
    BY <1>4, <1>5, <2>1 DEF AuditInv, AdminTypeOK
  <2>5. AuditHonest'
    <3>1. (\A x, y \in granted : x.of.key = y.of.key => x = y)'
      BY <2>1, <2>3 DEF AuditInv, AuditHonest
    <3>2. (\A x \in granted : Recorded(x.of))'
      BY <1>6, <1>7, <2>1 DEF AuditInv, AuditHonest
    <3>3. (\A h \in Grant : Recorded(h) /\ audit[h.key].result = "success" => IsGranted(h))'
      BY <1>5, <1>7, <2>2 DEF AuditInv, AuditHonest
    <3>4. (\A h \in told : IsGranted(h))'
      BY <1>5, <2>2 DEF AuditInv, AuditHonest
    <3> QED BY <3>1, <3>2, <3>3, <3>4 DEF AuditHonest
  <2>6. SentOnce'
    <3>1. (\A q \in Requests : request[q].at = "send" =>
              request[q].of \notin mail /\ ~IsGranted(request[q].of))'
      BY <1>4, <1>5, <1>10, <2>2 DEF AuditInv, SentOnce
    <3>2. (\A q \in Requests : request[q].at = "success" => IsGranted(request[q].of))'
      BY <1>3, <1>4, <2>2 DEF AuditInv, SentOnce
    <3>3. (\A h \in mail : ~IsGranted(h) /\ Recorded(h))'
      BY <1>5, <1>7, <2>2 DEF AuditInv, SentOnce
    <3> QED BY <3>1, <3>2, <3>3 DEF SentOnce
  <2> QED BY <1>9, <2>4, <2>5, <2>6 DEF AuditInv
<1>12. CASE UNCHANGED granted /\ Reply(g, "failed")
  <2>1. \A h : IsGranted(h)' <=> IsGranted(h)
    BY <1>12 DEF IsGranted
  <2>2. \A q \in Requests : q \in Waits(g) => request'[q].at = "failed"
    BY <1>12 DEF Reply
  <2>3. AdminTypeOK' /\ AuditHonest'
    BY <1>4, <1>5, <1>7, <1>12, <2>1 DEF AuditInv, AdminTypeOK, AuditHonest
  <2>4. SentOnce'
    BY <1>4, <1>5, <1>7, <2>1, <2>2 DEF AuditInv, SentOnce
  <2> QED BY <1>9, <2>3, <2>4 DEF AuditInv
<1> QED BY <1>11, <1>12 DEF Deliver

LEMMA LoseKeeps ==
    ASSUME AuditInv, NEW g \in Grant, Lose(g)
    PROVE  AuditInv'
<1>1. mail' = mail \ {g} /\ UNCHANGED <<audit, request, granted, told>>
  BY DEF Lose
<1>2. \A h : (IsGranted(h)' <=> IsGranted(h)) /\ (Recorded(h)' <=> Recorded(h))
  BY <1>1 DEF IsGranted, Recorded
<1>3. AdminTypeOK' /\ AuditHonest'
  BY <1>1, <1>2 DEF AuditInv, AdminTypeOK, AuditHonest
<1>4. KeysHeld'
  BY <1>1, <1>2 DEF AuditInv, KeysHeld, Holds, Key
<1>5. SentOnce'
  BY <1>1, <1>2 DEF AuditInv, SentOnce
<1> QED BY <1>3, <1>4, <1>5 DEF AuditInv

LEMMA FinishKeeps ==
    ASSUME AuditInv, NEW r \in Requests, FinishAudit(r)
    PROVE  AuditInv'
<1> DEFINE g == request[r].of
<1>1. /\ request' \in [Requests -> [at : Places, of : Grant]]
      /\ request'[r].at = Free
      /\ \A q \in Requests : q # r => request'[q] = request[q]
      /\ \A q \in Requests : request'[q].of = request[q].of
  BY Moves DEF FinishAudit, AuditInv, Places
<1>2. request[r].at \in {"success", "failed"} /\ g \in Grant /\ Recorded(g) /\ Key(r) = g.key
  BY DEF FinishAudit, AuditInv, AdminTypeOK, KeysHeld, Holds, Key
<1>3. request[r].at = "success" => IsGranted(g)
  BY DEF AuditInv, SentOnce
<1>4. audit' \in {audit, Closed(r)} /\ UNCHANGED <<mail, granted>>
  BY DEF FinishAudit
<1>6. /\ audit' \in [Keys -> Record \cup {None}]
      /\ \A k \in Keys : audit'[k] # None <=> audit[k] # None
      /\ \A k \in Keys : audit[k] # None => audit'[k].hash = audit[k].hash
      /\ \A k \in Keys : k # g.key => audit'[k] = audit[k]
      /\ audit'[g.key] = audit[g.key] \/ audit'[g.key].result = request[r].at
  BY <1>2, <1>4, Closes DEF AuditInv, AdminTypeOK
<1>7. \A h \in told' : h \in told \/ (h = g /\ IsGranted(g))
  BY <1>3 DEF FinishAudit
<1>8. \A h : IsGranted(h)' <=> IsGranted(h)
  BY <1>4 DEF IsGranted
<1>9. \A h \in Grant : Recorded(h)' <=> Recorded(h)
  BY <1>6 DEF Recorded, Grant
<1>10. AdminTypeOK'
  BY <1>1, <1>2, <1>4, <1>6, <1>7 DEF AuditInv, AdminTypeOK
<1>11. AuditHonest'
  <2>1. (\A x, y \in granted : x.of.key = y.of.key => x = y)'
    BY <1>4 DEF AuditInv, AuditHonest
  <2>2. (\A x \in granted : Recorded(x.of))'
    BY <1>4, <1>9 DEF AuditInv, AuditHonest, AdminTypeOK
  <2>3. (\A h \in Grant : Recorded(h) /\ audit[h.key].result = "success" => IsGranted(h))'
    <3>1. SUFFICES ASSUME NEW h \in Grant, Recorded(h), audit'[h.key].result = "success"
                   PROVE  IsGranted(h)
      BY <1>8, <1>9
    <3>2. CASE audit'[h.key] = audit[h.key]
      BY <3>1, <3>2 DEF AuditInv, AuditHonest
    <3>3. CASE h.key = g.key /\ audit'[h.key].result = request[r].at
      <4>1. h = g
        BY <1>2, <3>1, <3>3, GrantIs DEF Recorded
      <4> QED BY <1>3, <3>1, <3>3, <4>1
    <3> QED BY <1>6, <3>2, <3>3 DEF Grant
  <2>4. (\A h \in told : IsGranted(h))'
    BY <1>7, <1>8 DEF AuditInv, AuditHonest
  <2> QED BY <2>1, <2>2, <2>3, <2>4 DEF AuditHonest
<1>12. \A q \in Requests : Holds(q)' => Holds(q)
  BY <1>1 DEF Holds, Free
<1>13. KeysHeld'
  <2>1. \A q \in Requests : Key(q)' = Key(q) /\ Key(q) \in Keys
    BY <1>1 DEF Key, AuditInv, AdminTypeOK, Grant
  <2>2. (\A q \in Requests : Holds(q) => Recorded(request[q].of))'
    BY <1>1, <1>9, <1>12 DEF AuditInv, AdminTypeOK, KeysHeld
  <2>3. (\A q, p \in Requests : Holds(q) /\ Holds(p) /\ Key(q) = Key(p) => q = p)'
    BY <1>12, <2>1 DEF AuditInv, KeysHeld
  <2>4. (\A q \in Requests : request[q].at = "replay" => audit[Key(q)] # None)'
    BY <1>1, <1>6, <2>1 DEF AuditInv, KeysHeld, Free
  <2> QED BY <2>2, <2>3, <2>4 DEF KeysHeld
<1>14. SentOnce'
  <2>1. (\A q \in Requests : request[q].at = "send" =>
            request[q].of \notin mail /\ ~IsGranted(request[q].of))'
    BY <1>1, <1>4, <1>8 DEF AuditInv, SentOnce, Free
  <2>2. (\A q \in Requests : request[q].at = "success" => IsGranted(request[q].of))'
    BY <1>1, <1>8 DEF AuditInv, SentOnce, Free
  <2>3. (\A h \in mail : ~IsGranted(h) /\ Recorded(h))'
    BY <1>4, <1>8, <1>9 DEF AuditInv, AdminTypeOK, SentOnce
  <2> QED BY <2>1, <2>2, <2>3 DEF SentOnce
<1> QED BY <1>10, <1>11, <1>13, <1>14 DEF AuditInv

\* The invariant of the audit is inductive.
LEMMA AuditInductive == AuditInv /\ [GrantNext]_allVars => AuditInv'
<1> SUFFICES ASSUME AuditInv, [GrantNext]_allVars PROVE AuditInv'
  OBVIOUS
<1>1. CASE UNCHANGED admin
  BY <1>1 DEF admin, AuditInv, AdminTypeOK, AuditHonest, KeysHeld, SentOnce, Holds, Key,
              IsGranted, Recorded
<1>2. ASSUME NEW r \in Requests, NEW g \in Grant, Ask(r, g) PROVE AuditInv'
  <2>1. request' = [request EXCEPT ![r] = [at |-> "insert", of |-> g]]
    BY <1>2 DEF Ask
  <2>2. /\ request' \in [Requests -> [at : Places, of : Grant]]
        /\ request'[r].at = "insert"
        /\ \A q \in Requests : q # r => request'[q] = request[q]
    BY <2>1 DEF AuditInv, AdminTypeOK, Places
  <2> QED BY <1>2, <2>2, Waiting DEF Ask
<1>3. ASSUME NEW r \in Requests, TimeOut(r) PROVE AuditInv'
  BY <1>3, Moves, Waiting DEF TimeOut, AuditInv, Places
<1>4. ASSUME NEW r \in Requests, Die(r) PROVE AuditInv'
  BY <1>4, Moves, Waiting DEF Die, AuditInv, Places
<1> QED
  BY <1>1, <1>2, <1>3, <1>4, InsertKeeps, ReplayKeeps, SendKeeps, DeliverKeeps, LoseKeeps,
     FinishKeeps
  DEF GrantNext, AdminStep, allVars

\* A key changes the player at most once, under the parameters it was first used with, and
\* no record and no answer claims a change that was not made: whatever is lost, late, cut
\* short, or asked again.
THEOREM AuditInvariant == GrantSpec => []AuditInv
<1> QED BY AuditInitially, AuditInductive, PTL DEF GrantSpec

-------------------------------------------------------------------------------
(* What has been granted stays *)

\* With no failing redis, no node that dies and no lease that ends behind a player in memory,
\* redis has the data of an aggregate that is not dirty, and a stop flow that has flushed
\* leaves none behind.
NoIdle  == NoLoss /\ "idle" \notin Faults
Flushes == /\ mem # None /\ ~Dirty => redis # None /\ redis.data = mem.data
           /\ op.at \in {"save", "persist"} => ~Dirty
           /\ op.at # "degrade"

\* Data d, or what came after it, is in memory, in mongo, or in a snapshot without a lease.
Safe(d) == IF mem # None THEN mem.data >= d
           ELSE \/ mongo # None /\ mongo.data >= d
                \/ redis # None /\ redis.data >= d /\ ~redis.ttl

\* What the cases of a step start from.
LEMMA Formed ==
    ASSUME OrderInv
    PROVE  /\ TypeOK
           /\ mem # None => mem.crc <= mem.data
           /\ mem # None \/ redis # None => mongo # None
           /\ op.at = "idle" => op = Idle
           /\ op.at \in {"choose", "overwrite", "backfill", "expire"} => LoginFormed
           /\ op.at \in {"flush", "redis", "degrade", "save", "persist"} => mem # None
BY DEF OrderInv, LoginStages, FlushStages, FlushFormed

\* A player just loaded is dirty: no fingerprint is remembered.
LEMMA LoadedDirty ==
    ASSUME NEW x, x.data \in Nat, x.ver \in Nat, Loaded(x)
    PROVE  Flushes'
<1>1. mem' # None /\ mem'.crc = -1 /\ mem'.data \in Nat
  BY Copies DEF Loaded
<1>2. op'.at = "idle"
  BY IdleFormed DEF Loaded
<1> QED BY <1>1, <1>2 DEF Flushes, Dirty

LEMMA FlushesInductive == NoIdle /\ OrderInv /\ Flushes /\ [Next]_vars => Flushes'
<1> SUFFICES ASSUME NoIdle, OrderInv, Flushes, [Next]_vars PROVE Flushes'
  OBVIOUS
<1>0. "redis" \notin Faults /\ "idle" \notin Faults /\ ~Crash /\ ~Shutdown
  BY DEF NoIdle, NoLoss, Crash, Shutdown
<1>a. /\ [op EXCEPT !.at = "save"].at = "save" /\ [op EXCEPT !.at = "persist"].at = "persist"
      /\ [op EXCEPT !.at = "redis"].at = "redis"
  BY Formed DEF TypeOK, Handler
<1>1. ASSUME UNCHANGED mem, mem = None, op'.at \notin {"save", "persist", "degrade"}
      PROVE  Flushes'
  BY <1>1 DEF Flushes
<1>2. CASE UNCHANGED <<mem, redis, op>>
  BY <1>2 DEF Flushes, Dirty
<1>3. CASE Register
  BY <1>2, <1>3 DEF Register
<1>4. CASE Login \/ LoginRefused
  <2>1. op'.at \in {"choose", "idle"} /\ UNCHANGED mem /\ mem = None
    BY <1>4, IdleFormed, Formed DEF Login, LoginRefused, Loading, LoginFormed
  <2> QED BY <1>1, <2>1
<1>5. CASE LoginChoose \/ LoginOverwrite \/ LoginBackfill \/ LoginExpire
  <2>1. LoginFormed /\ mem = None /\ mongo # None
    BY <1>5, Formed DEF LoginChoose, LoginOverwrite, LoginBackfill, LoginExpire, LoginFormed
  <2>2. op.at \in {"overwrite", "backfill", "expire"} => op.copy # None
    BY <2>1 DEF LoginFormed
  <2>3. \/ Loaded(mongo)
        \/ op.copy # None /\ Loaded(op.copy)
        \/ UNCHANGED mem /\ op'.at \in {"idle", "overwrite", "backfill", "expire"}
    BY <1>5, <2>2, IdleFormed DEF LoginChoose, LoginOverwrite, LoginBackfill, LoginExpire, Loading
  <2> QED BY <1>1, <2>1, <2>3, LoadedDirty, Shapes, Formed
<1>6. CASE Change
  <2>1. mem # None /\ mem' # None /\ mem'.crc = mem.crc /\ mem'.data = mem.data + 1
    BY <1>6, Formed, Shapes, DataReplaced, NotNone DEF Change
  <2>2. mem'.crc # mem'.data
    BY <2>1, Formed, Shapes
  <2> QED BY <1>6, <2>2, IdleFormed DEF Change, Flushes, Dirty
<1>7. CASE Tick \/ Logout
  <2>1. op'.at = "flush" /\ UNCHANGED <<mem, redis>>
    BY <1>7 DEF Tick, Logout, Flushing
  <2> QED BY <2>1 DEF Flushes, Dirty
<1>8. CASE FlushBegin
  <2>1. CASE Dirty
    <3>1. mem' = Raised /\ op' = [op EXCEPT !.at = "redis"] /\ redis' = redis
      BY <1>8, <2>1 DEF FlushBegin
    <3>2. mem # None
      BY <1>8, Formed DEF FlushBegin
    <3>3. mem'.crc = mem.crc /\ mem'.data = mem.data /\ op'.at = "redis"
      BY <1>a, <3>1, <3>2, Formed, Shapes, VerReplaced DEF Raised
    <3> QED BY <2>1, <3>3 DEF Flushes, Dirty
  <2>2. CASE ~Dirty
    <3>1. UNCHANGED <<mem, redis>> /\ op'.at \in {"idle", "save"}
      BY <1>a, <1>8, <2>2, IdleFormed DEF FlushBegin, Flushed
    <3> QED BY <2>2, <3>1 DEF Flushes, Dirty
  <2> QED BY <2>1, <2>2
<1>9. CASE FlushRedis
  <2>0. mem # None
    BY <1>9, Formed DEF FlushRedis
  <2>1. redis' = Leased(mem) /\ mem' = [mem EXCEPT !.crc = mem.data] /\ Flushed
    BY <1>0, <1>9 DEF FlushRedis, RedisFails
  <2>2. redis' # None /\ redis'.data = mem.data
    BY <2>0, <2>1, Formed, Shapes, Copies
  <2>3. mem'.crc = mem.data /\ mem'.data = mem.data
    BY <2>0, <2>1, Formed, Shapes, CRCReplaced
  <2>4. op'.at \in {"idle", "save"}
    BY <1>a, <2>1, IdleFormed DEF Flushed
  <2> QED BY <2>2, <2>3, <2>4 DEF Flushes, Dirty
<1>10. ~FlushMongo
  BY DEF FlushMongo, Flushes
<1>11. CASE StopSave
  <2>0. redis' = redis
    BY <1>11 DEF StopSave
  <2>1. CASE mem' = None /\ op' = Idle
    BY <2>1, IdleFormed DEF Flushes
  <2>2. CASE UNCHANGED mem /\ op'.at \in {"persist", "flush"}
    BY <1>11, <2>0, <2>2 DEF StopSave, Flushes, Dirty
  <2>3. \/ mem' = None /\ op' = Idle
        \/ UNCHANGED mem /\ (\/ op' = [op EXCEPT !.at = "persist"]
                             \/ op' = Flushing("flush", "stop", NextTry, FALSE))
    BY <1>11 DEF StopSave
  <2>4. Flushing("flush", "stop", NextTry, FALSE).at = "flush"
    BY DEF Flushing
  <2> QED BY <1>a, <2>1, <2>2, <2>3, <2>4
<1>12. CASE StopPersist
  BY <1>12, IdleFormed DEF StopPersist, Flushes
<1>13. CASE Expire
  <2>1. mem = None /\ UNCHANGED <<mem, op>>
    BY <1>0, <1>13 DEF Expire
  <2> QED BY <2>1 DEF Flushes, Dirty
<1>14. CASE UNCHANGED vars
  BY <1>2, <1>14 DEF vars
<1> QED
  BY <1>0, <1>3, <1>4, <1>5, <1>6, <1>7, <1>8, <1>9, <1>10, <1>11, <1>12, <1>13, <1>14
  DEF Next, Serve

\* No step loses data that is safe.
LEMMA SafeStep ==
    ASSUME NoIdle, OrderInv, Flushes, [Next]_vars, NEW d \in Nat, Safe(d)
    PROVE  Safe(d)'
<1>1. "redis" \notin Faults /\ "idle" \notin Faults /\ ~Crash /\ ~Shutdown
  BY DEF NoIdle, NoLoss, Crash, Shutdown
<1>2. CASE UNCHANGED <<mem, redis, mongo>>
  BY <1>2 DEF Safe
<1>3. ASSUME mem # None, mem' # None, mem'.data \in Nat, mem'.data >= mem.data PROVE Safe(d)'
  BY <1>3, Formed, Shapes DEF Safe
<1>4. ASSUME NEW x, x.data \in Nat, x.ver \in Nat, Loaded(x), x.data >= d PROVE Safe(d)'
  BY <1>4, Copies DEF Loaded, Safe
<1>5. ~Register
  BY Formed DEF Register, Safe
\* What a login finds: the larger of the document and the copy it has read is safe.
<1>6. ASSUME op.at \in {"choose", "overwrite", "backfill", "expire"}
      PROVE  /\ mem = None /\ mongo # None /\ mongo.data \in Nat /\ mongo.ver \in Nat
             /\ op.copy = None => op.at = "choose" /\ mongo.data >= d
             /\ op.copy # None =>
                   /\ op.copy.data \in Nat /\ op.copy.ver \in Nat
                   /\ mongo.ver > op.copy.ver => mongo.data >= d
                   /\ mongo.ver <= op.copy.ver => op.copy.data >= d
  <2>1. LoginFormed
    BY <1>6, Formed
  <2>2. mem = None /\ mongo # None /\ mongo.data \in Nat /\ mongo.ver \in Nat
    BY <2>1, Formed, Shapes DEF LoginFormed
  <2>3. mongo.data >= d \/ (redis # None /\ redis.data >= d)
    BY <2>2 DEF Safe
  <2>4. op.copy = None => op.at = "choose" /\ mongo.data >= d
    BY <2>1, <2>3 DEF LoginFormed
  <2>5. ASSUME op.copy # None
        PROVE  /\ op.copy.data \in Nat /\ op.copy.ver \in Nat
               /\ mongo.ver > op.copy.ver => mongo.data >= d
               /\ mongo.ver <= op.copy.ver => op.copy.data >= d
    <3>1. op.copy.data \in Nat /\ op.copy.ver \in Nat
      BY <2>5, Formed, Shapes
    <3>2. mongo.data >= d \/ op.copy.data >= d
      BY <2>1, <2>3, <2>5 DEF LoginFormed
    <3>3. /\ mongo.ver > op.copy.ver => mongo.data >= op.copy.data
          /\ op.copy.ver > mongo.ver => op.copy.data >= mongo.data
          /\ mongo.ver = op.copy.ver => mongo.data = op.copy.data
      BY <2>1, <2>5 DEF LoginFormed
    <3> QED BY <2>2, <3>1, <3>2, <3>3
  <2> QED BY <2>2, <2>4, <2>5
<1>7. CASE LoginChoose
  <2>1. (Loaded(mongo) /\ op.copy = None) \/ UNCHANGED <<mem, redis, mongo>>
    BY <1>7 DEF LoginChoose
  <2> QED BY <1>2, <1>4, <1>6, <1>7, <2>1 DEF LoginChoose
<1>8. CASE LoginOverwrite
  <2>1. Loaded(mongo) /\ op.at = "overwrite"
    BY <1>1, <1>8 DEF LoginOverwrite, RedisFails
  <2>2. op.copy # None /\ mongo.ver > op.copy.ver
    BY <2>1, Formed DEF LoginFormed
  <2> QED BY <1>4, <1>6, <2>1, <2>2
<1>9. CASE LoginBackfill
  <2>1. op.copy # None /\ mongo.ver <= op.copy.ver
    BY <1>9, Formed DEF LoginBackfill, LoginFormed
  <2>2. op.copy.data \in Nat /\ op.copy.ver \in Nat /\ op.copy.data >= d
    BY <1>6, <1>9, <2>1 DEF LoginBackfill
  <2>3. CASE Loaded(op.copy)
    BY <1>4, <2>2, <2>3
  <2>4. CASE mongo' = CopyOf(op.copy) /\ UNCHANGED mem
    BY <1>6, <1>9, <2>2, <2>4, Copies DEF LoginBackfill, Safe
  <2> QED BY <1>9, <2>3, <2>4 DEF LoginBackfill
<1>10. CASE LoginExpire
  <2>1. op.copy # None /\ mongo = CopyOf(op.copy)
    BY <1>10, Formed DEF LoginExpire, LoginFormed
  <2>2. op.copy.data \in Nat /\ op.copy.ver \in Nat /\ op.copy.data >= d
    BY <1>6, <1>10, <2>1, Copies DEF LoginExpire
  <2> QED BY <1>4, <1>10, <2>2 DEF LoginExpire
<1>11. CASE Change
  <2>1. mem # None /\ mem' # None /\ mem'.data = mem.data + 1
    BY <1>11, Formed, Shapes, DataReplaced, NotNone DEF Change
  <2> QED BY <1>3, <2>1, Formed, Shapes
<1>12. CASE FlushBegin
  <2>1. mem # None /\ (mem' = mem \/ mem' = Raised)
    BY <1>12, Formed DEF FlushBegin
  <2>2. mem' # None /\ mem'.data = mem.data /\ mem.data \in Nat
    <3>1. mem \in Player /\ mem.ver + 1 \in Nat /\ mem.data \in Nat
      BY <2>1, Formed, Shapes
    <3>2. Raised \in Player /\ Raised.data = mem.data
      BY <3>1, VerReplaced DEF Raised
    <3> QED BY <2>1, <3>1, <3>2, NotNone
  <2>3. mem.data >= mem.data
    BY <2>2
  <2> QED BY <1>3, <2>1, <2>2, <2>3
<1>13. CASE FlushRedis
  <2>1. mem # None /\ (mem' = mem \/ mem' = [mem EXCEPT !.crc = mem.data])
    BY <1>13, Formed DEF FlushRedis
  <2>2. mem' # None /\ mem'.data = mem.data /\ mem.data \in Nat
    BY <2>1, Formed, Shapes, CRCReplaced, NotNone
  <2>3. mem.data >= mem.data
    BY <2>2
  <2> QED BY <1>3, <2>1, <2>2, <2>3
<1>14. ~FlushMongo
  BY DEF FlushMongo, Flushes
<1>15. CASE StopSave
  <2>1. mem # None
    BY <1>15, Formed DEF StopSave
  <2>2. (mongo' = CopyOf(mem) /\ mem' = None) \/ mem' = mem
    BY <1>15 DEF StopSave
  <2>3. CASE mongo' = CopyOf(mem) /\ mem' = None
    BY <2>1, <2>3, Formed, Shapes, Copies DEF Safe
  <2> QED BY <1>3, <2>1, <2>2, <2>3, Formed, Shapes
<1>16. CASE StopPersist
  <2>1. mem # None /\ redis # None /\ redis.data = mem.data
    BY <1>16, Formed DEF StopPersist, Flushes
  <2>2. redis' = Kept(redis) /\ mem' = None
    BY <1>1, <1>16, <2>1 DEF StopPersist, RedisFails, PersistSnapshot
  <2>3. redis' # None /\ redis'.data = mem.data
    BY <2>1, <2>2, Formed, Shapes, Copies
  <2>4. ~redis'.ttl
    BY <2>2 DEF Kept
  <2> QED BY <2>1, <2>2, <2>3, <2>4 DEF Safe
<1>17. CASE Expire
  BY <1>1, <1>17 DEF Expire, Safe
<1>18. Login \/ LoginRefused \/ Tick \/ Logout \/ UNCHANGED vars =>
           UNCHANGED <<mem, redis, mongo>>
  BY DEF Login, LoginRefused, Tick, Logout, vars
<1> QED
  BY <1>1, <1>2, <1>5, <1>7, <1>8, <1>9, <1>10, <1>11, <1>12, <1>13, <1>14, <1>15, <1>16,
     <1>17, <1>18 DEF Next, Serve

\* The data a grant made is a number, and safe from then on.
KeptInv == \A x \in granted : x.data \in Nat /\ Safe(x.data)

LEMMA KeptInductive ==
    NoIdle /\ OrderInv /\ OrderInv' /\ Flushes /\ KeptInv /\ [GrantNext]_allVars => KeptInv'
<1> SUFFICES ASSUME NoIdle, OrderInv, OrderInv', Flushes, KeptInv, [GrantNext]_allVars,
                    NEW x \in granted'
             PROVE  x.data \in Nat /\ Safe(x.data)'
  BY DEF KeptInv
<1>1. CASE x \in granted
  <2>1. x.data \in Nat /\ Safe(x.data)
    BY <1>1 DEF KeptInv
  <2> QED BY <2>1, PlayersStep, SafeStep
<1>2. CASE x \notin granted
  <2>1. PICK g \in Grant : Deliver(g)
    BY <1>2 DEF GrantNext, AdminStep, allVars, admin, Ask, InsertAudit, ReplayGrant, Send,
                TimeOut, FinishAudit, Die, Lose
  <2>2. Change /\ x = [of |-> g, data |-> mem'.data]
    BY <1>2, <2>1 DEF Deliver
  <2>3. mem' # None /\ x.data = mem'.data /\ mem'.data \in Nat
    BY <2>2, Formed, Shapes, DataReplaced, NotNone DEF Change
  <2> QED BY <2>3 DEF Safe
<1> QED BY <1>1, <1>2

\* With redis up, no node that dies and no player who stays unchanged for longer than a
\* lease, no grant that was made is lost, for any number of grants, logins and tries.
THEOREM GrantsStay == NoIdle /\ GrantSpec => []GrantsKept
<1>1. CASE ~NoIdle
  BY <1>1
<1>2. CASE NoIdle
  <2>1. NoFlap
    BY <1>2 DEF NoIdle, NoLoss
  <2>2. Init => Flushes
    BY IdleFormed DEF Init, Flushes
  <2>3. OrderInv /\ Flushes /\ [Next]_vars => Flushes'
    BY <1>2, FlushesInductive
  <2>4. AdminInit => KeptInv
    BY DEF AdminInit, KeptInv
  <2>5. OrderInv /\ OrderInv' /\ Flushes /\ KeptInv /\ [GrantNext]_allVars => KeptInv'
    BY <1>2, KeptInductive
  <2>6. KeptInv => GrantsKept
    BY DEF KeptInv, Safe, GrantsKept, Has
  <2>7. GrantSpec => []OrderInv
    BY <2>1, GrantsImplementPlayer, OrderKept, PTL
  <2>8. GrantSpec => []Flushes
    BY <2>2, <2>3, <2>7, PlayersStep, PTL DEF GrantSpec
  <2> QED BY <2>4, <2>5, <2>6, <2>7, <2>8, PTL DEF GrantSpec
<1> QED BY <1>1, <1>2
===============================================================================
