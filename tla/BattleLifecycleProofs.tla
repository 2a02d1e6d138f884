------------------------ MODULE BattleLifecycleProofs ------------------------
(* Proofs about BattleLifecycle, for any roster, any connections, every bound and   *)
(* every fault.                                                                     *)
EXTENDS BattleLifecycle, Integers, TLAPS
-------------------------------------------------------------------------------
(* Messages and the mailbox *)

\* What the head of a mailbox leaves behind.
LEMMA TailFacts ==
    ASSUME NEW s \in Seq(Message), s # <<>>
    PROVE  /\ Tail(s) \in Seq(Message)
           /\ Len(s) \in Nat \ {0} /\ Len(Tail(s)) = Len(s) - 1
           /\ Head(s) = s[1]
           /\ \A i \in 1..Len(Tail(s)) : Tail(s)[i] = s[i + 1]
  OBVIOUS

\* What a message appended to a mailbox changes.
LEMMA AppendFacts ==
    ASSUME NEW s \in Seq(Message), NEW m \in Message
    PROVE  /\ Append(s, m) \in Seq(Message)
           /\ Len(s) \in Nat /\ Len(Append(s, m)) = Len(s) + 1
           /\ Append(s, m)[Len(s) + 1] = m
           /\ \A i \in 1..Len(s) : Append(s, m)[i] = s[i]
  OBVIOUS

\* The messages of two players or of two kinds differ.
LEMMA MessagesDiffer ==
    ASSUME NEW p \in Players, NEW q \in Players
    PROVE  /\ Online(p) \in Message /\ Offline(p) \in Message /\ Timeout(p) \in Message
           /\ SeatExpired \in Message
           /\ Online(p) # Offline(q) /\ Online(p) # Timeout(q) /\ Offline(p) # Timeout(q)
           /\ Online(p) # SeatExpired /\ Offline(p) # SeatExpired
           /\ Timeout(p) # SeatExpired
           /\ Online(p) = Online(q) => p = q
           /\ Offline(p) = Offline(q) => p = q
           /\ Timeout(p) = Timeout(q) => p = q
<1>1. \A x : /\ Online(x).kind = "online" /\ Online(x).player = x
             /\ Offline(x).kind = "offline" /\ Offline(x).player = x
             /\ Timeout(x).kind = "timeout" /\ Timeout(x).player = x
  BY DEF Online, Offline, Timeout
<1>2. SeatExpired.kind = "seat"
  BY DEF SeatExpired
<1>3. /\ Online(p) \in Message /\ Offline(p) \in Message /\ Timeout(p) \in Message
      /\ SeatExpired \in Message
  BY DEF Online, Offline, Timeout, Message
<1> QED BY <1>1, <1>2, <1>3

\* Handling a message leaves the others queued and queues no new one.
LEMMA QueuedAfterTail ==
    ASSUME mailbox \in Seq(Message), mailbox # <<>>, mailbox' = Tail(mailbox),
           NEW m
    PROVE  /\ Queued(m) /\ m # Head(mailbox) => Queued(m)'
           /\ Queued(m)' => Queued(m)
<1>1. /\ Len(mailbox) \in Nat \ {0} /\ Len(mailbox') = Len(mailbox) - 1
      /\ Head(mailbox) = mailbox[1]
      /\ \A i \in 1..Len(mailbox') : mailbox'[i] = mailbox[i + 1]
  BY TailFacts
<1>2. ASSUME Queued(m), m # Head(mailbox) PROVE Queued(m)'
  <2>1. PICK i \in 1..Len(mailbox) : mailbox[i] = m
    BY <1>2 DEF Queued
  <2>2. i # 1
    BY <1>1, <1>2, <2>1
  <2>3. i - 1 \in 1..Len(mailbox') /\ (i - 1) + 1 = i
    BY <1>1, <2>2
  <2>4. mailbox'[i - 1] = m
    BY <1>1, <2>1, <2>3
  <2> QED BY <2>3, <2>4 DEF Queued
<1>3. ASSUME Queued(m)' PROVE Queued(m)
  <2>1. PICK i \in 1..Len(mailbox') : mailbox'[i] = m
    BY <1>3 DEF Queued
  <2>2. i + 1 \in 1..Len(mailbox) /\ mailbox[i + 1] = m
    BY <1>1, <2>1
  <2> QED BY <2>2 DEF Queued
<1> QED BY <1>2, <1>3

\* Appending a message queues that one and no other.
LEMMA QueuedAfterAppend ==
    ASSUME mailbox \in Seq(Message), NEW x \in Message, mailbox' = Append(mailbox, x),
           NEW m
    PROVE  Queued(m)' <=> Queued(m) \/ m = x
<1>1. /\ Len(mailbox) \in Nat /\ Len(mailbox') = Len(mailbox) + 1
      /\ mailbox'[Len(mailbox) + 1] = x
      /\ \A i \in 1..Len(mailbox) : mailbox'[i] = mailbox[i]
  BY AppendFacts
<1>2. Queued(m) => Queued(m)'
  BY <1>1 DEF Queued
<1>3. m = x => Queued(m)'
  <2>1. Len(mailbox) + 1 \in 1..Len(mailbox')
    BY <1>1
  <2> QED BY <1>1, <2>1 DEF Queued
<1>4. Queued(m)' => Queued(m) \/ m = x
  BY <1>1 DEF Queued
<1> QED BY <1>2, <1>3, <1>4

\* The last word about a player stays his disconnection until that is handled; then
\* nothing is queued to clear his mark.
LEMMA LastAfterTail ==
    ASSUME mailbox \in Seq(Message), mailbox # <<>>, mailbox' = Tail(mailbox),
           NEW p \in Players, OfflineIsLast(p)
    PROVE  \/ OfflineIsLast(p)'
           \/ Head(mailbox) = Offline(p) /\ ~Queued(Online(p))'
<1>1. /\ Len(mailbox) \in Nat \ {0} /\ Len(mailbox') = Len(mailbox) - 1
      /\ Head(mailbox) = mailbox[1]
      /\ \A i \in 1..Len(mailbox') : mailbox'[i] = mailbox[i + 1]
  BY TailFacts
<1>2. PICK i \in 1..Len(mailbox) :
         /\ mailbox[i] = Offline(p)
         /\ \A j \in (i + 1)..Len(mailbox) : mailbox[j] # Online(p)
  BY DEF OfflineIsLast
<1>3. CASE i = 1
  <2>1. ASSUME NEW k \in 1..Len(mailbox'), mailbox'[k] = Online(p) PROVE FALSE
    <3>1. k + 1 \in (i + 1)..Len(mailbox) /\ mailbox[k + 1] = Online(p)
      BY <1>1, <1>3, <2>1
    <3> QED BY <1>2, <3>1
  <2> QED BY <1>1, <1>2, <1>3, <2>1 DEF Queued
<1>4. CASE i # 1
  <2>1. i - 1 \in 1..Len(mailbox') /\ (i - 1) + 1 = i
    BY <1>1, <1>4
  <2>3. mailbox'[i - 1] = Offline(p)
    BY <1>1, <1>2, <2>1
  <2>2. ASSUME NEW j \in ((i - 1) + 1)..Len(mailbox') PROVE mailbox'[j] # Online(p)
    <3>1. j + 1 \in (i + 1)..Len(mailbox) /\ mailbox'[j] = mailbox[j + 1]
      BY <1>1, <2>2
    <3> QED BY <1>2, <3>1
  <2> QED BY <2>1, <2>2, <2>3 DEF OfflineIsLast
<1> QED BY <1>3, <1>4

\* Only a connection that comes up again has more to say than a disconnection.
LEMMA LastAfterAppend ==
    ASSUME mailbox \in Seq(Message), NEW x \in Message, mailbox' = Append(mailbox, x),
           NEW p \in Players
    PROVE  /\ OfflineIsLast(p) /\ x # Online(p) => OfflineIsLast(p)'
           /\ x = Offline(p) => OfflineIsLast(p)'
<1>1. /\ Len(mailbox) \in Nat /\ Len(mailbox') = Len(mailbox) + 1
      /\ mailbox'[Len(mailbox) + 1] = x
      /\ \A i \in 1..Len(mailbox) : mailbox'[i] = mailbox[i]
  BY AppendFacts
<1>2. ASSUME OfflineIsLast(p), x # Online(p) PROVE OfflineIsLast(p)'
  <2>1. PICK i \in 1..Len(mailbox) :
           /\ mailbox[i] = Offline(p)
           /\ \A j \in (i + 1)..Len(mailbox) : mailbox[j] # Online(p)
    BY <1>2 DEF OfflineIsLast
  <2>2. i \in 1..Len(mailbox') /\ mailbox'[i] = Offline(p)
    BY <1>1, <2>1
  <2>3. ASSUME NEW j \in (i + 1)..Len(mailbox') PROVE mailbox'[j] # Online(p)
    <3>1. j = Len(mailbox) + 1 \/ j \in (i + 1)..Len(mailbox)
      BY <1>1
    <3> QED BY <1>1, <1>2, <2>1, <3>1
  <2> QED BY <2>2, <2>3 DEF OfflineIsLast
<1>3. ASSUME x = Offline(p) PROVE OfflineIsLast(p)'
  <2>1. Len(mailbox) + 1 \in 1..Len(mailbox') /\ mailbox'[Len(mailbox) + 1] = Offline(p)
    BY <1>1, <1>3
  <2>2. \A j \in ((Len(mailbox) + 1) + 1)..Len(mailbox') : mailbox'[j] # Online(p)
    BY <1>1
  <2> QED BY <2>1, <2>2 DEF OfflineIsLast
<1> QED BY <1>2, <1>3
-------------------------------------------------------------------------------
(* The invariant, one lemma per step *)

\* A battle that has just been activated satisfies the invariant.
LEMMA InitialInv == Init => PresenceInv
<1> SUFFICES ASSUME Init PROVE PresenceInv
  OBVIOUS
<1>1. TypeOK
  <2>1. mailbox \in Seq(Message)
    BY DEF Init
  <2>2. /\ mark \in [Players -> {"none", "held", "armed"}]
        /\ conns \in [Players -> Conns \cup {None}]
        /\ link \in [Conns -> {"down", "up", "closed"}]
        /\ at \in [Conns -> {"idle", "register", "online", "offline"}]
    BY DEF Init
  <2> QED BY <2>1, <2>2 DEF Init, TypeOK
<1>2. Fresh /\ ConnectionsTraced
  BY NoneAssumption, BattleAssumption
     DEF Init, Fresh, ConnectionsTraced, Admitted, Running, Stopped
<1>3. AbsenceTracked /\ SeatsHeldByPresent /\ MarksTimed
  BY DEF Init, AbsenceTracked, SeatsHeldByPresent, MarksTimed, Running, Admitted, Stopped
<1> QED BY <1>1, <1>2, <1>3 DEF PresenceInv

\* Settlement: the actor stops, and of its connections only those remain traceable that
\* had been replaced before.
LEMMA SettleInv ==
    ASSUME PresenceInv, Admitted, NEW w \in Players \cup {None}, Settle(w),
           roster' = roster, met' = met, at' = at, opens' = opens, moves' = moves,
           out \subseteq out', out' \subseteq Players, seated' = seated, window' = window,
           mark' \in [Players -> {"none", "held", "armed"}], frame' \in Nat
    PROVE  PresenceInv'
<1>1. outcome' \in Outcome /\ Stopped'
  <2>1. outcome' = [winner |-> w, players |-> roster] /\ roster \in SUBSET Players
    BY DEF Settle, PresenceInv, TypeOK
  <2>2. outcome' \in Outcome
    BY <2>1 DEF Outcome
  <2> QED BY <2>2, NoneAssumption DEF Stopped
<1>2. TypeOK'
  <2>1. mailbox' \in Seq(Message)
    BY DEF Settle
  <2>2. conns' \in [Players -> Conns \cup {None}]
    BY DEF Settle
  <2>3. link' \in [Conns -> {"down", "up", "closed"}]
    BY DEF Settle, PresenceInv, TypeOK
  <2>4. ends' \subseteq Conns
    BY DEF Settle, PresenceInv, TypeOK
  <2> QED BY <1>1, <2>1, <2>2, <2>3, <2>4 DEF Settle, PresenceInv, TypeOK
<1>3. Fresh'
  BY DEF Fresh, Admitted
<1>4. ConnectionsTraced'
  <2>1. UsedBy \in [Conns -> Players] /\ None \notin Conns
    BY BattleAssumption
  <2>2. \A q \in Players : conns'[q] = None
    BY DEF Settle
  <2>3. ASSUME NEW c \in Conns, c \in ends' PROVE link'[c] # "down" /\ link'[c] = "closed"
    <3>1. c \in ends /\ c \notin {conns[q] : q \in Players} \ {None}
      BY <2>3 DEF Settle
    <3>2. conns[UsedBy[c]] # c
      BY <2>1, <3>1
    <3>3. link[c] = "closed"
      BY <3>1, <3>2 DEF PresenceInv, ConnectionsTraced
    <3> QED BY <3>3 DEF Settle
  <2>4. ASSUME NEW c \in Conns, at'[c] = "register" PROVE link'[c] # "down"
    <3>1. link[c] # "down"
      BY <2>4 DEF PresenceInv, ConnectionsTraced
    <3> QED BY <3>1 DEF Settle
  <2> QED BY <1>1, <2>2, <2>3, <2>4 DEF ConnectionsTraced, Running
<1>5. AbsenceTracked' /\ MarksTimed'
  BY <1>1 DEF AbsenceTracked, MarksTimed, Running
<1>6. SeatsHeldByPresent'
  BY DEF Settle, SeatsHeldByPresent
<1> QED BY <1>2, <1>3, <1>4, <1>5, <1>6 DEF PresenceInv

\* Admission: nobody has connected yet.
LEMMA AdmitInv == PresenceInv /\ Admit => PresenceInv'
<1> SUFFICES ASSUME PresenceInv, Admit PROVE PresenceInv'
  OBVIOUS
<1>0. Fresh /\ ~Admitted
  BY DEF PresenceInv, Admit
<1>1. TypeOK'
  BY DEF Admit, PresenceInv, TypeOK, bounds, registry
<1>2. Fresh'
  BY <1>0 DEF Fresh, Admit
<1>3. ConnectionsTraced'
  BY <1>0 DEF PresenceInv, ConnectionsTraced, Fresh, Admit, registry
<1>4. AbsenceTracked'
  BY <1>0 DEF AbsenceTracked, Fresh, Admit
<1>5. SeatsHeldByPresent' /\ MarksTimed'
  BY <1>0 DEF SeatsHeldByPresent, MarksTimed, Fresh, Admit
<1> QED BY <1>1, <1>2, <1>3, <1>4, <1>5 DEF PresenceInv

\* Opening a migration window holds every timer and keeps every mark.
LEMMA PrepareMigrationInv == PresenceInv /\ PrepareMigration => PresenceInv'
<1> SUFFICES ASSUME PresenceInv, PrepareMigration PROVE PresenceInv'
  OBVIOUS
<1>1. TypeOK'
  BY DEF PrepareMigration, PresenceInv, TypeOK, registry
<1>2. Fresh'
  BY DEF Fresh, PrepareMigration, Running, Admitted
<1>3. ConnectionsTraced'
  BY DEF PresenceInv, ConnectionsTraced, PrepareMigration, registry, Running, Admitted, Stopped
<1>4. AbsenceTracked'
  BY DEF PresenceInv, TypeOK, AbsenceTracked, PrepareMigration, registry, Running, Admitted,
         Stopped, EndPending, OfflineIsLast, Queued
<1>5. SeatsHeldByPresent' /\ MarksTimed'
  BY DEF PresenceInv, TypeOK, SeatsHeldByPresent, MarksTimed, PrepareMigration
<1> QED BY <1>1, <1>2, <1>3, <1>4, <1>5 DEF PresenceInv

\* Leaving the migration window, whether the export failed or the move was given up.
LEMMA ResumedInv ==
    ASSUME PresenceInv, Running, Resumed, moves' \in Nat, opens' = opens,
           UNCHANGED <<roster, out, met, seating, seated, outcome, seatTimer, mailbox,
                       frame, registry, link, at>>
    PROVE  PresenceInv'
<1>1. TypeOK'
  BY DEF Resumed, Marked, PresenceInv, TypeOK, registry
<1>2. Fresh'
  BY DEF Fresh, Running, Admitted
<1>3. ConnectionsTraced'
  BY DEF PresenceInv, ConnectionsTraced, registry, Running, Admitted, Stopped
<1>4. AbsenceTracked'
  BY DEF PresenceInv, TypeOK, AbsenceTracked, Resumed, registry, Running, Admitted,
         Stopped, EndPending, OfflineIsLast, Queued
<1>5. SeatsHeldByPresent' /\ MarksTimed'
  BY DEF PresenceInv, TypeOK, SeatsHeldByPresent, MarksTimed, Resumed, Marked
<1> QED BY <1>1, <1>2, <1>3, <1>4, <1>5 DEF PresenceInv

\* Both ways out of a migration window.
LEMMA ResumeInv ==
    PresenceInv /\ (PrepareMigrationFails \/ ResumeMigration) => PresenceInv'
<1>1. PresenceInv /\ PrepareMigrationFails => PresenceInv'
  BY ResumedInv DEF PrepareMigrationFails, PresenceInv, TypeOK
<1>2. PresenceInv /\ ResumeMigration => PresenceInv'
  BY ResumedInv DEF ResumeMigration, PresenceInv, TypeOK, bounds
<1> QED BY <1>1, <1>2
-------------------------------------------------------------------------------
(* Messages handled *)

\* Handling a message that changes no connection keeps the absent tracked, if it clears
\* nobody's mark but that of a player with news queued or a connection, and marks the
\* player a disconnection is about.
LEMMA TrackedAfterTail ==
    ASSUME PresenceInv, Running, mailbox # <<>>, mailbox' = Tail(mailbox),
           UNCHANGED <<conns, ends, link, at, met>>, roster' \subseteq roster,
           \A p \in roster' :
              mark[p] # "none" /\ ~Queued(Online(p)) /\ conns[p] = None => mark'[p] # "none",
           \A p \in roster' :
              Head(mailbox) = Offline(p) /\ conns[p] = None => mark'[p] # "none"
    PROVE  AbsenceTracked'
<1> SUFFICES ASSUME NEW p \in roster' \cap met', conns'[p] = None, ~EndPending(p)'
             PROVE  \/ OfflineIsLast(p)'
                    \/ mark'[p] # "none" /\ ~Queued(Online(p))'
  BY DEF AbsenceTracked
<1>1. p \in Players /\ mailbox \in Seq(Message)
  BY DEF PresenceInv, TypeOK
<1>2. conns[p] = None /\ ~EndPending(p)
  BY DEF EndPending
<1>3. OfflineIsLast(p) \/ (mark[p] # "none" /\ ~Queued(Online(p)))
  BY <1>2 DEF PresenceInv, AbsenceTracked
<1>4. CASE OfflineIsLast(p)
  <2>1. OfflineIsLast(p)' \/ (Head(mailbox) = Offline(p) /\ ~Queued(Online(p))')
    BY <1>1, <1>4, LastAfterTail
  <2> QED BY <1>2, <2>1
<1>5. CASE mark[p] # "none" /\ ~Queued(Online(p))
  <2>1. ~Queued(Online(p))'
    BY <1>1, <1>5, QueuedAfterTail
  <2> QED BY <1>2, <1>5, <2>1
<1> QED BY <1>3, <1>4, <1>5

\* Handling a message keeps the marks timed, if it neither is the timeout of a player who
\* stays marked nor marks or cancels anything but what it times.
LEMMA TimedAfterTail ==
    ASSUME PresenceInv, Running, mailbox # <<>>, mailbox' = Tail(mailbox),
           window' = window, window => timer' = {},
           \A p \in Players :
              ~window /\ mark'[p] # "none" =>
                 \/ mark'[p] = "armed" /\ p \in timer'
                 \/ mark'[p] = mark[p] /\ (p \in timer => p \in timer')
                       /\ Head(mailbox) # Timeout(p)
    PROVE  MarksTimed'
<1> SUFFICES ASSUME ~window, NEW p \in Players, mark'[p] # "none"
             PROVE  mark'[p] = "armed" /\ (p \in timer' \/ Queued(Timeout(p))')
  BY DEF MarksTimed
<1>1. mailbox \in Seq(Message)
  BY DEF PresenceInv, TypeOK
<1>2. CASE mark'[p] = "armed" /\ p \in timer'
  BY <1>2
<1>3. CASE mark'[p] = mark[p] /\ (p \in timer => p \in timer') /\ Head(mailbox) # Timeout(p)
  <2>1. mark[p] = "armed" /\ (p \in timer \/ Queued(Timeout(p)))
    BY <1>3 DEF PresenceInv, MarksTimed
  <2>2. Queued(Timeout(p)) => Queued(Timeout(p))'
    BY <1>1, <1>3, QueuedAfterTail
  <2> QED BY <1>3, <2>1, <2>2
<1> QED BY <1>2, <1>3

\* Who touches no connection leaves them traceable.
LEMMA SameConnections ==
    ASSUME PresenceInv, Running' => Running, UNCHANGED <<conns, ends, link, at>>
    PROVE  ConnectionsTraced'
  BY DEF PresenceInv, ConnectionsTraced

\* The mailbox keeps its type when a message is taken out.
LEMMA TailOfMailbox ==
    ASSUME PresenceInv, mailbox # <<>>, mailbox' = Tail(mailbox)
    PROVE  mailbox' \in Seq(Message)
  BY TailFacts DEF PresenceInv, TypeOK

\* An online event clears the mark of its player, who is no longer absent.
LEMMA OnOnlineInv ==
    ASSUME PresenceInv, NEW p \in Players, OnOnline(p) PROVE PresenceInv'
<1>0. /\ Running /\ mailbox # <<>> /\ Head(mailbox) = Online(p) /\ mailbox' = Tail(mailbox)
      /\ UNCHANGED <<roster, out, met, window, outcome, frame, conns, ends, link, at>>
      /\ opens' = opens /\ moves' = moves
  BY DEF OnOnline, Receive, registry, bounds
<1>1. /\ \/ p \in roster /\ mark' = [mark EXCEPT ![p] = "none"] /\ timer' = timer \ {p}
               /\ seated' = IF seating THEN seated \cup {p} ELSE seated
         \/ mark' = mark /\ timer' = timer /\ seated' = seated
      /\ \/ UNCHANGED <<seating, seatTimer, clock>>
         \/ seating' = FALSE /\ seatTimer' = FALSE /\ clock' = "running"
  BY DEF OnOnline, Clear, StartBattle
<1>2. TypeOK'
  BY <1>0, <1>1, TailOfMailbox DEF PresenceInv, TypeOK
<1>3. Running' /\ Admitted'
  BY <1>0 DEF Running, Admitted, Stopped
<1>4. Fresh' /\ ConnectionsTraced'
  BY <1>0, <1>3, SameConnections DEF Fresh
<1>5. AbsenceTracked'
  <2>1. Queued(Online(p))
    <3>1. mailbox[1] = Online(p) /\ Len(mailbox) \in Nat \ {0}
      BY <1>0, TailFacts DEF PresenceInv, TypeOK
    <3> QED BY <3>1 DEF Queued
  <2>2. \A q \in roster' :
           mark[q] # "none" /\ ~Queued(Online(q)) /\ conns[q] = None => mark'[q] # "none"
    BY <1>0, <1>1, <2>1 DEF PresenceInv, TypeOK
  <2>3. \A q \in roster' : Head(mailbox) # Offline(q)
    BY <1>0, MessagesDiffer DEF PresenceInv, TypeOK
  <2> QED BY <1>0, <2>2, <2>3, TrackedAfterTail
<1>6. SeatsHeldByPresent'
  <2>1. SUFFICES ASSUME seating, seating' PROVE seated' \subseteq {q \in roster' : mark'[q] = "none"}
    BY <1>1 DEF SeatsHeldByPresent
  <2>2. seated \subseteq {q \in roster : mark[q] = "none"}
    BY <2>1 DEF PresenceInv, SeatsHeldByPresent
  <2>3. CASE p \in roster /\ mark' = [mark EXCEPT ![p] = "none"] /\ seated' = seated \cup {p}
    BY <1>0, <2>2, <2>3 DEF PresenceInv, TypeOK
  <2>4. CASE mark' = mark /\ seated' = seated
    BY <1>0, <2>2, <2>4
  <2> QED BY <1>1, <2>1, <2>3, <2>4
<1>7. MarksTimed'
  <2>1. \A q \in Players : Head(mailbox) # Timeout(q)
    BY <1>0, MessagesDiffer
  <2>2. \A q \in Players : mark'[q] # "none" => mark'[q] = mark[q] /\ (q \in timer => q \in timer')
    BY <1>1 DEF PresenceInv, TypeOK
  <2>3. window => timer' = {}
    BY <1>0, <1>1 DEF PresenceInv, MarksTimed
  <2> QED BY <1>0, <2>1, <2>2, <2>3, TimedAfterTail
<1> QED BY <1>2, <1>4, <1>5, <1>6, <1>7 DEF PresenceInv

\* An offline event marks its player if the registry has no connection of his.
LEMMA OnOfflineInv ==
    ASSUME PresenceInv, NEW p \in Players, OnOffline(p) PROVE PresenceInv'
<1>0. /\ Running /\ mailbox # <<>> /\ Head(mailbox) = Offline(p) /\ mailbox' = Tail(mailbox)
      /\ UNCHANGED <<roster, out, met, window, outcome, frame, conns, ends, link, at>>
      /\ UNCHANGED <<seating, seatTimer, clock>>
      /\ opens' = opens /\ moves' = moves
      /\ seated' = IF seating THEN seated \ {p} ELSE seated
  BY DEF OnOffline, Receive, registry, bounds, session
<1>1. \/ (p \notin roster \/ mark[p] # "none" \/ conns[p] # None)
            /\ mark' = mark /\ timer' = timer
      \/ window /\ mark' = [mark EXCEPT ![p] = "held"] /\ timer' = timer
      \/ ~window /\ mark' = [mark EXCEPT ![p] = "armed"] /\ timer' = timer \cup {p}
  BY DEF OnOffline
<1>2. TypeOK'
  BY <1>0, <1>1, TailOfMailbox DEF PresenceInv, TypeOK
<1>3. Running' /\ Admitted'
  BY <1>0 DEF Running, Admitted, Stopped
<1>4. Fresh' /\ ConnectionsTraced'
  BY <1>0, <1>3, SameConnections DEF Fresh
<1>5. AbsenceTracked'
  <2>1. \A q \in roster' : mark[q] # "none" => mark'[q] # "none"
    BY <1>0, <1>1 DEF PresenceInv, TypeOK
  <2>2. p \in roster' /\ conns[p] = None => mark'[p] # "none"
    BY <1>0, <1>1 DEF PresenceInv, TypeOK
  <2>3. \A q \in roster' : Head(mailbox) = Offline(q) => q = p
    BY <1>0, MessagesDiffer DEF PresenceInv, TypeOK
  <2> QED BY <1>0, <2>1, <2>2, <2>3, TrackedAfterTail
<1>6. SeatsHeldByPresent'
  BY <1>0, <1>1 DEF PresenceInv, TypeOK, SeatsHeldByPresent
<1>7. MarksTimed'
  <2>1. \A q \in Players : Head(mailbox) # Timeout(q)
    BY <1>0, MessagesDiffer
  <2>2. \A q \in Players :
           ~window => \/ mark'[q] = "armed" /\ q \in timer'
                      \/ mark'[q] = mark[q] /\ (q \in timer => q \in timer')
    BY <1>1 DEF PresenceInv, TypeOK
  <2>3. window => timer' = {}
    BY <1>0, <1>1 DEF PresenceInv, MarksTimed
  <2> QED BY <1>0, <2>1, <2>2, <2>3, TimedAfterTail
<1> QED BY <1>2, <1>4, <1>5, <1>6, <1>7 DEF PresenceInv

\* A timeout that comes too late clears at most the mark of a connected player.
LEMMA TimeoutIgnoredInv ==
    ASSUME PresenceInv, NEW p \in Players, TimeoutIgnored(p) PROVE PresenceInv'
<1>0. /\ Running /\ mailbox # <<>> /\ Head(mailbox) = Timeout(p) /\ mailbox' = Tail(mailbox)
      /\ UNCHANGED <<roster, out, met, window, outcome, frame, conns, ends, link, at>>
      /\ UNCHANGED <<seating, seated, seatTimer, clock>>
      /\ opens' = opens /\ moves' = moves
  BY DEF TimeoutIgnored, Receive, registry, bounds, session
<1>1. \/ mark[p] = "none" /\ mark' = mark /\ timer' = timer
      \/ /\ p \notin roster \/ conns[p] # None
         /\ mark' = [mark EXCEPT ![p] = "none"] /\ timer' = timer \ {p}
  BY DEF TimeoutIgnored, Clear
<1>2. TypeOK'
  BY <1>0, <1>1, TailOfMailbox DEF PresenceInv, TypeOK
<1>3. Running' /\ Admitted'
  BY <1>0 DEF Running, Admitted, Stopped
<1>4. Fresh' /\ ConnectionsTraced'
  BY <1>0, <1>3, SameConnections DEF Fresh
<1>5. AbsenceTracked'
  <2>1. \A q \in roster' : mark[q] # "none" /\ conns[q] = None => mark'[q] # "none"
    BY <1>0, <1>1 DEF PresenceInv, TypeOK
  <2>2. \A q \in roster' : Head(mailbox) # Offline(q)
    BY <1>0, MessagesDiffer DEF PresenceInv, TypeOK
  <2> QED BY <1>0, <2>1, <2>2, TrackedAfterTail
<1>6. SeatsHeldByPresent'
  BY <1>0, <1>1 DEF PresenceInv, TypeOK, SeatsHeldByPresent
<1>7. MarksTimed'
  <2>1. \A q \in Players : q # p => Head(mailbox) # Timeout(q)
    BY <1>0, MessagesDiffer
  <2>2. \A q \in Players :
           mark'[q] # "none" => q # p /\ mark'[q] = mark[q] /\ (q \in timer => q \in timer')
    BY <1>1 DEF PresenceInv, TypeOK
  <2>3. window => timer' = {}
    BY <1>0, <1>1 DEF PresenceInv, MarksTimed
  <2> QED BY <1>0, <2>1, <2>2, <2>3, TimedAfterTail
<1> QED BY <1>2, <1>4, <1>5, <1>6, <1>7 DEF PresenceInv

\* A timeout that eliminates takes a marked player out, or settles.
LEMMA TimeoutEliminatesInv ==
    ASSUME PresenceInv, NEW p \in Players, TimeoutEliminates(p) PROVE PresenceInv'
<1>0. /\ Running /\ Admitted /\ mailbox # <<>> /\ Head(mailbox) = Timeout(p)
      /\ mark[p] # "none" /\ p \in roster
      /\ UNCHANGED <<met, seated, window, frame, at>> /\ opens' = opens /\ moves' = moves
      /\ out' = out \cup {p} /\ mark' = [mark EXCEPT ![p] = "none"]
  BY DEF TimeoutEliminates, Receive, bounds, Eliminate, Running
<1>1. \/ \E w \in roster \ {p} : Settle(w) /\ roster' = roster
      \/ /\ roster' = roster \ {p} /\ timer' = timer \ {p} /\ mailbox' = Tail(mailbox)
         /\ UNCHANGED <<seating, outcome, seatTimer, clock, conns, ends, link>>
  BY DEF TimeoutEliminates, Eliminate, registry
<1>2. /\ out \subseteq out' /\ out' \subseteq Players
      /\ mark' \in [Players -> {"none", "held", "armed"}] /\ frame' \in Nat
      /\ roster \subseteq Players
  BY <1>0 DEF PresenceInv, TypeOK
<1>3. ASSUME NEW w \in roster \ {p}, Settle(w), roster' = roster PROVE PresenceInv'
  BY <1>0, <1>2, <1>3, SettleInv
<1>4. ASSUME roster' = roster \ {p}, timer' = timer \ {p}, mailbox' = Tail(mailbox),
             UNCHANGED <<seating, outcome, seatTimer, clock, conns, ends, link>>
      PROVE PresenceInv'
  <2>1. TypeOK'
    BY <1>0, <1>2, <1>4, TailOfMailbox DEF PresenceInv, TypeOK
  <2>2. Running' => Running
    BY <1>0
  <2>3. Fresh' /\ ConnectionsTraced'
    <3>1. Admitted'
      BY <1>0 DEF Admitted
    <3> QED BY <1>0, <1>4, <2>2, <3>1, SameConnections DEF Fresh
  <2>4. AbsenceTracked'
    <3>1. \A q \in roster' : mark[q] # "none" => mark'[q] # "none"
      BY <1>0, <1>4 DEF PresenceInv, TypeOK
    <3>2. \A q \in roster' : Head(mailbox) # Offline(q)
      BY <1>0, <1>4, MessagesDiffer DEF PresenceInv, TypeOK
    <3> QED BY <1>0, <1>4, <3>1, <3>2, TrackedAfterTail
  <2>5. SeatsHeldByPresent'
    BY <1>0, <1>4 DEF PresenceInv, TypeOK, SeatsHeldByPresent
  <2>6. MarksTimed'
    <3>1. \A q \in Players : q # p => Head(mailbox) # Timeout(q)
      BY <1>0, MessagesDiffer
    <3>2. \A q \in Players :
             mark'[q] # "none" => q # p /\ mark'[q] = mark[q] /\ (q \in timer => q \in timer')
      BY <1>0, <1>4 DEF PresenceInv, TypeOK
    <3>3. window => timer' = {}
      BY <1>0, <1>4 DEF PresenceInv, MarksTimed
    <3> QED BY <1>0, <1>4, <3>1, <3>2, <3>3, TimedAfterTail
  <2> QED BY <2>1, <2>3, <2>4, <2>5, <2>6 DEF PresenceInv
<1> QED BY <1>1, <1>3, <1>4

\* The end of the seating window touches the clock only.
LEMMA OnSeatExpiredInv ==
    ASSUME PresenceInv, OnSeatExpired PROVE PresenceInv'
<1>0. /\ Running /\ mailbox # <<>> /\ Head(mailbox) = SeatExpired /\ mailbox' = Tail(mailbox)
      /\ UNCHANGED <<roster, out, met, mark, seated, window, outcome, timer, frame>>
      /\ UNCHANGED <<conns, ends, link, at>> /\ opens' = opens /\ moves' = moves
      /\ \/ UNCHANGED <<seating, seatTimer, clock>>
         \/ seating' = FALSE /\ seatTimer' = FALSE /\ clock' = "running"
  BY DEF OnSeatExpired, Receive, StartBattle, registry, bounds
<1>1. TypeOK'
  BY <1>0, TailOfMailbox DEF PresenceInv, TypeOK
<1>2. Running' /\ Admitted'
  BY <1>0 DEF Running, Admitted, Stopped
<1>3. Fresh' /\ ConnectionsTraced'
  BY <1>0, <1>2, SameConnections DEF Fresh
<1>4. \A q \in Players : Head(mailbox) # Offline(q) /\ Head(mailbox) # Timeout(q)
  BY <1>0, MessagesDiffer
<1>5. AbsenceTracked'
  BY <1>0, <1>4, TrackedAfterTail DEF PresenceInv, TypeOK
<1>6. SeatsHeldByPresent'
  BY <1>0 DEF PresenceInv, SeatsHeldByPresent
<1>7. MarksTimed'
  <2>1. window => timer' = {}
    BY <1>0 DEF PresenceInv, MarksTimed
  <2> QED BY <1>0, <1>4, <2>1, TimedAfterTail
<1> QED BY <1>1, <1>3, <1>5, <1>6, <1>7 DEF PresenceInv
-------------------------------------------------------------------------------
(* Timers and frames *)

\* A timer that sends its message: nothing but the mailbox, the timers and what the
\* timers are for changes.
LEMMA TrackedAfterAppend ==
    ASSUME PresenceInv, NEW x \in Message, mailbox' = Append(mailbox, x),
           \A p \in Players : x # Online(p),
           UNCHANGED <<roster, out, outcome, met, mark, conns, ends, link, at>>
    PROVE  AbsenceTracked'
<1> SUFFICES ASSUME Running', NEW p \in roster \cap met, conns[p] = None, ~EndPending(p)'
             PROVE  \/ OfflineIsLast(p)'
                    \/ mark[p] # "none" /\ ~Queued(Online(p))'
  BY DEF AbsenceTracked
<1>1. p \in Players /\ mailbox \in Seq(Message) /\ Running
  BY DEF PresenceInv, TypeOK, Running, Admitted, Stopped
<1>2. ~EndPending(p)
  BY DEF EndPending
<1>3. OfflineIsLast(p) \/ (mark[p] # "none" /\ ~Queued(Online(p)))
  BY <1>1, <1>2 DEF PresenceInv, AbsenceTracked
<1>4. OfflineIsLast(p) => OfflineIsLast(p)'
  BY <1>1, LastAfterAppend
<1>5. ~Queued(Online(p)) => ~Queued(Online(p))'
  BY <1>1, QueuedAfterAppend
<1> QED BY <1>3, <1>4, <1>5

\* The mailbox keeps its type when a message arrives.
LEMMA AppendToMailbox ==
    ASSUME PresenceInv, NEW x \in Message, mailbox' = Append(mailbox, x)
    PROVE  mailbox' \in Seq(Message)
  BY AppendFacts DEF PresenceInv, TypeOK

\* A timer that fires leaves its message in its place.
LEMMA OfflineFiresInv ==
    ASSUME PresenceInv, NEW p \in Players, OfflineFires(p) PROVE PresenceInv'
<1>0. /\ Running /\ p \in timer /\ timer' = timer \ {p}
      /\ mailbox' = Append(mailbox, Timeout(p)) /\ Timeout(p) \in Message
      /\ UNCHANGED <<roster, out, met, mark, seating, seated, window, outcome>>
      /\ UNCHANGED <<seatTimer, clock, frame, conns, ends, link, at>>
      /\ opens' = opens /\ moves' = moves
  BY MessagesDiffer DEF OfflineFires, actor, session, registry, bounds
<1>1. TypeOK'
  BY <1>0, AppendToMailbox DEF PresenceInv, TypeOK
<1>2. Admitted' /\ Running'
  BY <1>0 DEF Running, Admitted, Stopped
<1>3. Fresh' /\ ConnectionsTraced'
  BY <1>0, <1>2, SameConnections DEF Fresh
<1>4. AbsenceTracked'
  BY <1>0, MessagesDiffer, TrackedAfterAppend
<1>5. SeatsHeldByPresent'
  BY <1>0 DEF PresenceInv, SeatsHeldByPresent
<1>6. MarksTimed'
  <2>1. ~window /\ mailbox \in Seq(Message)
    BY <1>0 DEF PresenceInv, MarksTimed, TypeOK
  <2>2. ASSUME NEW q \in Players, mark[q] # "none"
        PROVE  mark[q] = "armed" /\ (q \in timer' \/ Queued(Timeout(q))')
    <3>1. mark[q] = "armed" /\ (q \in timer \/ Queued(Timeout(q)))
      BY <1>0, <2>1, <2>2 DEF PresenceInv, MarksTimed
    <3>2. Queued(Timeout(q)) \/ q = p => Queued(Timeout(q))'
      BY <1>0, <2>1, QueuedAfterAppend
    <3> QED BY <1>0, <3>1, <3>2
  <2> QED BY <1>0, <2>1, <2>2 DEF MarksTimed
<1> QED BY <1>1, <1>3, <1>4, <1>5, <1>6 DEF PresenceInv

\* The seating timer sends a message nobody's presence depends on.
LEMMA SeatFiresInv == ASSUME PresenceInv, SeatFires PROVE PresenceInv'
<1>0. /\ Running /\ seatTimer' = FALSE
      /\ mailbox' = Append(mailbox, SeatExpired) /\ SeatExpired \in Message
      /\ UNCHANGED <<roster, out, met, mark, seating, seated, window, outcome>>
      /\ UNCHANGED <<timer, clock, frame, conns, ends, link, at>>
      /\ opens' = opens /\ moves' = moves
  BY DEF SeatFires, actor, session, registry, bounds, SeatExpired, Message
<1>1. TypeOK'
  BY <1>0, AppendToMailbox DEF PresenceInv, TypeOK
<1>2. Admitted' /\ Running'
  BY <1>0 DEF Running, Admitted, Stopped
<1>3. Fresh' /\ ConnectionsTraced'
  BY <1>0, <1>2, SameConnections DEF Fresh
<1>4. AbsenceTracked'
  BY <1>0, MessagesDiffer, TrackedAfterAppend
<1>5. SeatsHeldByPresent'
  BY <1>0 DEF PresenceInv, SeatsHeldByPresent
<1>6. MarksTimed'
  <2>1. \A q \in Players : Queued(Timeout(q)) => Queued(Timeout(q))'
    BY <1>0, QueuedAfterAppend DEF PresenceInv, TypeOK
  <2> QED BY <1>0, <2>1 DEF PresenceInv, MarksTimed
<1> QED BY <1>1, <1>3, <1>4, <1>5, <1>6 DEF PresenceInv

\* Steps that change nothing but the frame and the bounds, or nothing at all.
LEMMA IdleInv ==
    ASSUME PresenceInv,
           UNCHANGED <<actor, timers, mailbox, clock, registry, link, at>>,
           frame' \in Nat, opens' \in Nat, moves' \in Nat
    PROVE  PresenceInv'
<1>0. /\ UNCHANGED <<roster, out, met, mark, seating, seated, window, outcome>>
      /\ UNCHANGED <<timer, seatTimer, mailbox, clock, conns, ends, link, at>>
  BY DEF actor, timers, registry
<1>1. TypeOK'
  BY <1>0 DEF PresenceInv, TypeOK
<1>2. Running' = Running /\ Admitted' = Admitted
  BY <1>0 DEF Running, Admitted, Stopped
<1>3. Fresh' /\ ConnectionsTraced'
  BY <1>0, <1>2 DEF PresenceInv, Fresh, ConnectionsTraced
<1>4. AbsenceTracked'
  BY <1>0, <1>2 DEF PresenceInv, AbsenceTracked, EndPending, OfflineIsLast, Queued
<1>5. SeatsHeldByPresent' /\ MarksTimed'
  BY <1>0, <1>2 DEF PresenceInv, SeatsHeldByPresent, MarksTimed, Queued
<1> QED BY <1>1, <1>3, <1>4, <1>5 DEF PresenceInv

\* A frame changes nothing but its number, or settles.
LEMMA FrameResultInv == ASSUME PresenceInv, FrameResult PROVE PresenceInv'
<1>0. /\ Running /\ Admitted /\ frame' \in Nat /\ at' = at
      /\ UNCHANGED <<roster, out, met, mark, seated, window>>
      /\ opens' = opens /\ moves' = moves /\ opens \in Nat /\ moves \in Nat
      /\ out \subseteq Players /\ mark \in [Players -> {"none", "held", "armed"}]
  BY DEF FrameResult, Running, bounds, PresenceInv, TypeOK
<1>1. \/ UNCHANGED <<seating, outcome, timers, mailbox, clock, registry, link>>
      \/ \E w \in Winners : Settle(w)
  BY DEF FrameResult
<1>2. CASE UNCHANGED <<seating, outcome, timers, mailbox, clock, registry, link>>
  BY <1>0, <1>2, IdleInv DEF actor
<1>3. ASSUME NEW w \in Winners, Settle(w) PROVE PresenceInv'
  <2>1. w \in Players \cup {None}
    BY DEF Winners, PresenceInv, TypeOK
  <2> QED BY <1>0, <1>3, <2>1, SettleInv
<1> QED BY <1>1, <1>2, <1>3
-------------------------------------------------------------------------------
(* Connections *)

\* The tables of a connection step that leaves the actor, its timers and the mailbox
\* alone: what remains to show is where the connections stand.
LEMMA ActorUnchanged ==
    ASSUME PresenceInv, UNCHANGED <<roster, out, mark, seating, seated, window, outcome>>,
           UNCHANGED <<timer, seatTimer, mailbox, clock, frame>>
    PROVE  /\ Running' = Running /\ Admitted' = Admitted
           /\ SeatsHeldByPresent' /\ MarksTimed'
           /\ \A p : OfflineIsLast(p)' = OfflineIsLast(p)
           /\ \A p : Queued(Online(p))' = Queued(Online(p))
<1>1. Running' = Running /\ Admitted' = Admitted
  BY DEF Running, Admitted, Stopped
<1>2. SeatsHeldByPresent' /\ MarksTimed'
  BY <1>1 DEF PresenceInv, SeatsHeldByPresent, MarksTimed, Queued
<1>3. /\ \A p : OfflineIsLast(p)' = OfflineIsLast(p)
      /\ \A p : Queued(Online(p))' = Queued(Online(p))
  BY DEF OfflineIsLast, Queued
<1> QED BY <1>1, <1>2, <1>3

\* Such a step keeps the absent tracked if ends that were pending stay so and whoever
\* loses his connection has an end pending.
LEMMA TrackedByActor ==
    ASSUME PresenceInv, UNCHANGED <<roster, out, mark, seating, seated, window, outcome>>,
           UNCHANGED <<timer, seatTimer, mailbox, clock, frame, met>>,
           \A p \in Players :
              conns'[p] = None => \/ EndPending(p)'
                                  \/ conns[p] = None /\ ~EndPending(p)
    PROVE  AbsenceTracked'
<1> SUFFICES ASSUME Running', NEW p \in roster \cap met, conns'[p] = None, ~EndPending(p)'
             PROVE  \/ OfflineIsLast(p)'
                    \/ mark[p] # "none" /\ ~Queued(Online(p))'
  BY DEF AbsenceTracked
<1>1. p \in Players
  BY DEF PresenceInv, TypeOK
<1>2. conns[p] = None /\ ~EndPending(p) /\ Running
  BY <1>1, ActorUnchanged
<1>3. OfflineIsLast(p) \/ (mark[p] # "none" /\ ~Queued(Online(p)))
  BY <1>2 DEF PresenceInv, AbsenceTracked
<1> QED BY <1>3, ActorUnchanged

\* A connection that comes up is not known to the registry yet.
LEMMA OpenInv == ASSUME PresenceInv, NEW c \in Conns, Open(c) PROVE PresenceInv'
<1>0. /\ Admitted /\ link[c] = "down" /\ link' = [link EXCEPT ![c] = "up"]
      /\ UNCHANGED <<roster, out, mark, seating, seated, window, outcome>>
      /\ UNCHANGED <<timer, seatTimer, mailbox, clock, frame, met>>
      /\ UNCHANGED <<conns, ends, at, moves>> /\ opens' = opens + 1
  BY DEF Open, actor, timers, session, registry
<1>1. TypeOK'
  BY <1>0 DEF PresenceInv, TypeOK
<1>2. Running' = Running /\ Admitted' /\ SeatsHeldByPresent' /\ MarksTimed'
  BY <1>0, ActorUnchanged
<1>3. Fresh'
  BY <1>2 DEF Fresh
<1>4. ConnectionsTraced'
  BY <1>0, <1>2 DEF PresenceInv, TypeOK, ConnectionsTraced
<1>5. AbsenceTracked'
  <2>1. \A p \in Players : EndPending(p) => EndPending(p)'
    BY <1>0 DEF EndPending, PresenceInv, TypeOK
  <2> QED BY <1>0, <2>1, TrackedByActor
<1> QED BY <1>1, <1>2, <1>3, <1>4, <1>5 DEF PresenceInv

\* A frame operation that passes the check has changed nothing so far.
LEMMA IdentifyInv == ASSUME PresenceInv, NEW c \in Conns, Identify(c) PROVE PresenceInv'
<1>0. /\ link[c] = "up" /\ at[c] = "idle" /\ at' = [at EXCEPT ![c] = "register"]
      /\ UNCHANGED <<roster, out, mark, seating, seated, window, outcome>>
      /\ UNCHANGED <<timer, seatTimer, mailbox, clock, frame, met>>
      /\ UNCHANGED <<conns, ends, link, moves, opens>>
  BY DEF Identify, actor, timers, session, registry, bounds
<1>1. TypeOK'
  BY <1>0 DEF PresenceInv, TypeOK
<1>2. Running' = Running /\ Admitted' = Admitted /\ SeatsHeldByPresent' /\ MarksTimed'
  BY <1>0, ActorUnchanged
<1>3. Fresh'
  BY <1>0, <1>2 DEF PresenceInv, Fresh
<1>4. ConnectionsTraced'
  BY <1>0, <1>2 DEF PresenceInv, TypeOK, ConnectionsTraced
<1>5. AbsenceTracked'
  <2>1. \A p \in Players : EndPending(p) => EndPending(p)'
    BY <1>0 DEF EndPending, PresenceInv, TypeOK
  <2> QED BY <1>0, <2>1, TrackedByActor
<1> QED BY <1>1, <1>2, <1>3, <1>4, <1>5 DEF PresenceInv

\* A connection that ends has its end pending if it is known.
LEMMA DropInv == ASSUME PresenceInv, NEW c \in Conns, Drop(c) PROVE PresenceInv'
<1>0. /\ link[c] = "up" /\ link' = [link EXCEPT ![c] = "closed"]
      /\ UNCHANGED <<roster, out, mark, seating, seated, window, outcome>>
      /\ UNCHANGED <<timer, seatTimer, mailbox, clock, frame, met>>
      /\ UNCHANGED <<conns, ends, at, moves, opens>>
  BY DEF Drop, actor, timers, session, registry, bounds
<1>1. TypeOK'
  BY <1>0 DEF PresenceInv, TypeOK
<1>2. Running' = Running /\ Admitted' = Admitted /\ SeatsHeldByPresent' /\ MarksTimed'
  BY <1>0, ActorUnchanged
<1>3. Fresh'
  BY <1>0, <1>2 DEF PresenceInv, Fresh
<1>4. ConnectionsTraced'
  BY <1>0, <1>2 DEF PresenceInv, TypeOK, ConnectionsTraced
<1>5. AbsenceTracked'
  <2>1. \A p \in Players : EndPending(p) => EndPending(p)'
    BY <1>0 DEF EndPending, PresenceInv, TypeOK
  <2> QED BY <1>0, <2>1, TrackedByActor
<1> QED BY <1>1, <1>2, <1>3, <1>4, <1>5 DEF PresenceInv

\* A registration makes the connection current and closes the one before, whose end
\* stays traceable.
LEMMA RegisterInv == ASSUME PresenceInv, NEW c \in Conns, Register(c) PROVE PresenceInv'
<1> DEFINE p == UsedBy[c]
<1>0. /\ at[c] = "register" /\ conns' = [conns EXCEPT ![p] = c]
      /\ met' = met \cup ({p} \cap roster)
      /\ UNCHANGED <<roster, out, mark, seating, seated, window, outcome>>
      /\ UNCHANGED <<timer, seatTimer, mailbox, clock, frame>>
      /\ UNCHANGED <<moves, opens>>
  BY DEF Register, timers, session, bounds
<1>1. \/ conns[p] = c /\ at' = [at EXCEPT ![c] = "idle"] /\ ends' = ends /\ link' = link
      \/ /\ conns[p] # c /\ at' = [at EXCEPT ![c] = "online"] /\ ends' = ends \cup {c}
         /\ link' = [d \in Conns |-> IF d = conns[p] /\ link[d] = "up"
                                     THEN "closed" ELSE link[d]]
  BY DEF Register
<1>2. /\ p \in Players /\ None \notin Conns /\ UsedBy \in [Conns -> Players]
      /\ TypeOK /\ ConnectionsTraced
  BY BattleAssumption DEF PresenceInv
<1>3. /\ link' \in [Conns -> {"down", "up", "closed"}]
      /\ \A d \in Conns : link'[d] = link[d] \/ (d = conns[p] /\ link'[d] = "closed")
      /\ \A d \in Conns : (d = conns[p] /\ d # c) => link'[d] # "up"
  BY <1>1, <1>2 DEF TypeOK
<1>4. /\ at' \in [Conns -> {"idle", "register", "online", "offline"}]
      /\ at'[c] \in {"idle", "online"}
      /\ \A d \in Conns : d # c => at'[d] = at[d]
  BY <1>1, <1>2 DEF TypeOK
<1>5. c \in ends' /\ ends \subseteq ends' /\ ends' \subseteq ends \cup {c}
  BY <1>1, <1>2 DEF TypeOK, ConnectionsTraced
<1>6. conns' \in [Players -> Conns \cup {None}] /\ conns'[p] = c
      /\ \A q \in Players : q # p => conns'[q] = conns[q]
  BY <1>0, <1>2 DEF TypeOK
<1> HIDE DEF p
<1>7. TypeOK'
  BY <1>0, <1>2, <1>3, <1>6, <1>4, <1>5 DEF TypeOK
<1>8. Running' = Running /\ Admitted' = Admitted /\ SeatsHeldByPresent' /\ MarksTimed'
  BY <1>0, ActorUnchanged
<1>9. Fresh'
  <2>1. Admitted
    BY <1>0 DEF PresenceInv, Fresh
  <2> QED BY <1>8, <2>1 DEF Fresh
<1>10. ConnectionsTraced'
  <2>1. ASSUME NEW q \in Players, conns'[q] # None
        PROVE  conns'[q] \in ends' /\ UsedBy[conns'[q]] = q
    BY <1>2, <1>6, <1>5, <2>1 DEF ConnectionsTraced, p
  <2>2. ASSUME NEW d \in Conns, d \in ends' \/ at'[d] = "register" PROVE link'[d] # "down"
    <3>1. d \in ends \/ at[d] = "register"
      BY <1>0, <1>4, <1>5, <2>2
    <3> QED BY <1>2, <1>3, <3>1 DEF ConnectionsTraced
  <2>3. ASSUME NEW d \in Conns, d \in ends', conns'[UsedBy[d]] # d
        PROVE  link'[d] = "closed"
    <3>1. d # c /\ d \in ends /\ UsedBy[d] \in Players
      BY <1>2, <1>6, <1>5, <2>3 DEF p
    <3>2. CASE conns[UsedBy[d]] # d
      BY <1>2, <1>3, <3>1, <3>2 DEF ConnectionsTraced
    <3>3. CASE conns[UsedBy[d]] = d
      <4>1. UsedBy[d] = p /\ link'[d] # "up"
        BY <1>3, <1>6, <2>3, <3>1, <3>3
      <4>2. link'[d] # "down"
        BY <2>2, <2>3
      <4> QED BY <1>3, <4>1, <4>2
    <3> QED BY <3>2, <3>3
  <2>4. ASSUME NEW d \in Conns, Running', at'[d] = "online" PROVE d \in ends'
    BY <1>2, <1>8, <1>4, <1>5, <2>4 DEF ConnectionsTraced
  <2> QED BY <2>1, <2>2, <2>3, <2>4 DEF ConnectionsTraced
<1>11. AbsenceTracked'
  <2> SUFFICES ASSUME Running', NEW q \in roster \cap met', conns'[q] = None, ~EndPending(q)'
               PROVE  \/ OfflineIsLast(q)'
                      \/ mark[q] # "none" /\ ~Queued(Online(q))'
    BY <1>0 DEF AbsenceTracked
  <2>1. q \in Players /\ q # p /\ q \in met /\ conns[q] = None
    BY <1>0, <1>2, <1>6 DEF TypeOK
  <2>2. ~EndPending(q)
    <3> SUFFICES ASSUME NEW d \in Conns, UsedBy[d] = q,
                        at[d] = "offline" \/ (d \in ends /\ link[d] = "closed")
                 PROVE  FALSE
      BY DEF EndPending
    <3>1. d # c
      BY <2>1 DEF p
    <3>2. at'[d] = "offline" \/ (d \in ends' /\ link'[d] = "closed")
      BY <1>3, <1>4, <1>5, <3>1
    <3> QED BY <3>2 DEF EndPending
  <2>3. OfflineIsLast(q) \/ (mark[q] # "none" /\ ~Queued(Online(q)))
    BY <1>8, <2>1, <2>2 DEF PresenceInv, AbsenceTracked
  <2> QED BY <1>0, <2>3, ActorUnchanged
<1> QED BY <1>7, <1>8, <1>9, <1>10, <1>11 DEF PresenceInv

\* The end of a traceable connection moves from the registry to the bridge.
LEMMA DisconnectInv == ASSUME PresenceInv, NEW c \in Conns, Disconnect(c) PROVE PresenceInv'
<1>0. /\ link[c] = "closed" /\ at[c] = "idle" /\ link' = [link EXCEPT ![c] = "down"]
      /\ UNCHANGED <<roster, out, mark, seating, seated, window, outcome>>
      /\ UNCHANGED <<timer, seatTimer, mailbox, clock, frame, met>>
      /\ UNCHANGED <<moves, opens>>
  BY DEF Disconnect, actor, timers, session, bounds
<1>1. \/ /\ c \in ends /\ ends' = ends \ {c} /\ at' = [at EXCEPT ![c] = "offline"]
         /\ conns' = [conns EXCEPT ![UsedBy[c]] = IF @ = c THEN None ELSE @]
      \/ c \notin ends /\ ends' = ends /\ at' = at /\ conns' = conns
  BY DEF Disconnect, registry
<1>2. UsedBy[c] \in Players /\ None \notin Conns /\ UsedBy \in [Conns -> Players]
  BY BattleAssumption
<1>3. TypeOK'
  <2>1. /\ ends' \subseteq Conns
        /\ conns' \in [Players -> Conns \cup {None}]
        /\ at' \in [Conns -> {"idle", "register", "online", "offline"}]
        /\ link' \in [Conns -> {"down", "up", "closed"}]
    BY <1>0, <1>1 DEF PresenceInv, TypeOK
  <2> QED BY <1>0, <2>1 DEF PresenceInv, TypeOK
<1>4. Running' = Running /\ Admitted' = Admitted /\ SeatsHeldByPresent' /\ MarksTimed'
  BY <1>0, ActorUnchanged
<1>5. Admitted
  BY <1>0 DEF PresenceInv, Fresh
<1>6. Fresh'
  BY <1>4, <1>5 DEF Fresh
<1>7. ConnectionsTraced'
  <2>1. \A q \in Players : conns'[q] # None => conns'[q] = conns[q] /\ conns[q] # c
    BY <1>1, <1>2 DEF PresenceInv, TypeOK, ConnectionsTraced
  <2>2. \A d \in Conns : /\ d # c => link'[d] = link[d] /\ at'[d] = at[d]
                         /\ d \in ends' => d # c /\ d \in ends
                         /\ d # c /\ d \in ends => d \in ends'
    BY <1>0, <1>1 DEF PresenceInv, TypeOK
  <2>3. at'[c] # "register" /\ at'[c] # "online"
    BY <1>0, <1>1 DEF PresenceInv, TypeOK
  <2>4. \A d \in Conns : d # c /\ conns[UsedBy[d]] = d => conns'[UsedBy[d]] = d
    BY <1>1, <1>2 DEF PresenceInv, TypeOK
  <2>5. ASSUME NEW q \in Players, conns'[q] # None
        PROVE  conns'[q] \in ends' /\ UsedBy[conns'[q]] = q
    <3>1. conns[q] \in ends /\ conns[q] \in Conns /\ UsedBy[conns[q]] = q
      BY <2>1, <2>5 DEF PresenceInv, TypeOK, ConnectionsTraced
    <3> QED BY <2>1, <2>2, <2>5, <3>1
  <2>6. ASSUME NEW d \in Conns
        PROVE  /\ d \in ends' \/ at'[d] = "register" => link'[d] # "down"
               /\ d \in ends' /\ conns'[UsedBy[d]] # d => link'[d] = "closed"
               /\ Running' /\ at'[d] = "online" => d \in ends'
    BY <1>4, <2>2, <2>3, <2>4 DEF PresenceInv, ConnectionsTraced
  <2> QED BY <2>5, <2>6 DEF ConnectionsTraced
<1>8. AbsenceTracked'
  <2>1. ASSUME NEW q \in Players, conns'[q] = None
        PROVE  EndPending(q)' \/ (conns[q] = None /\ ~EndPending(q))
    <3>1. CASE c \in ends /\ UsedBy[c] = q
      <4>1. at'[c] = "offline"
        BY <1>1, <3>1 DEF PresenceInv, TypeOK
      <4> QED BY <3>1, <4>1 DEF EndPending
    <3>2. CASE ~(c \in ends /\ UsedBy[c] = q)
      <4>1. conns[q] = None
        BY <1>1, <1>2, <2>1, <3>2 DEF PresenceInv, TypeOK
      <4>2. ASSUME NEW d \in Conns, UsedBy[d] = q,
                   at[d] = "offline" \/ (d \in ends /\ link[d] = "closed")
            PROVE  at'[d] = "offline" \/ (d \in ends' /\ link'[d] = "closed")
        <5>1. d # c
          BY <1>0, <3>2, <4>2
        <5> QED BY <1>0, <1>1, <4>2, <5>1 DEF PresenceInv, TypeOK
      <4> QED BY <4>1, <4>2 DEF EndPending
    <3> QED BY <3>1, <3>2
  <2> QED BY <1>0, <2>1, TrackedByActor
<1> QED BY <1>3, <1>4, <1>6, <1>7, <1>8 DEF PresenceInv

\* A push that takes a dead connection out leaves its end pending.
LEMMA PushFailsInv == ASSUME PresenceInv, NEW p \in Players, PushFails(p) PROVE PresenceInv'
<1>0. /\ conns[p] # None /\ link[conns[p]] # "up"
      /\ conns' = [conns EXCEPT ![p] = None]
      /\ UNCHANGED <<roster, out, mark, seating, seated, window, outcome>>
      /\ UNCHANGED <<timer, seatTimer, mailbox, clock, frame, met>>
      /\ UNCHANGED <<ends, link, at, moves, opens>>
  BY DEF PushFails, actor, timers, session, bounds
<1>1. TypeOK'
  BY <1>0 DEF PresenceInv, TypeOK
<1>2. Running' = Running /\ Admitted' = Admitted /\ SeatsHeldByPresent' /\ MarksTimed'
  BY <1>0, ActorUnchanged
<1>3. Fresh'
  BY <1>0, <1>2 DEF PresenceInv, Fresh
<1>4. /\ conns[p] \in Conns /\ conns[p] \in ends /\ UsedBy[conns[p]] = p
      /\ link[conns[p]] = "closed"
  BY <1>0 DEF PresenceInv, TypeOK, ConnectionsTraced
<1>5. \A q \in Players : conns'[q] = IF q = p THEN None ELSE conns[q]
  BY <1>0 DEF PresenceInv, TypeOK
<1>6. ConnectionsTraced'
  <2>1. \A q \in Players : conns'[q] # None => conns'[q] \in ends' /\ UsedBy[conns'[q]] = q
    BY <1>0, <1>5 DEF PresenceInv, ConnectionsTraced
  <2>2. ASSUME NEW d \in Conns, d \in ends', conns'[UsedBy[d]] # d PROVE link'[d] = "closed"
    <3>1. UsedBy[d] \in Players
      BY BattleAssumption
    <3>2. conns[UsedBy[d]] # d \/ d = conns[p]
      BY <1>5, <2>2, <3>1
    <3> QED BY <1>0, <1>4, <2>2, <3>2 DEF PresenceInv, ConnectionsTraced
  <2> QED BY <1>0, <1>2, <2>1, <2>2 DEF PresenceInv, ConnectionsTraced
<1>7. AbsenceTracked'
  <2>1. EndPending(p)'
    BY <1>0, <1>4 DEF EndPending
  <2>2. \A q \in Players : EndPending(q) => EndPending(q)'
    BY <1>0 DEF EndPending
  <2> QED BY <1>0, <1>5, <2>1, <2>2, TrackedByActor
<1> QED BY <1>1, <1>2, <1>3, <1>6, <1>7 DEF PresenceInv

\* An event enters the mailbox: a disconnection as the last word, a connection only for
\* one that is current or whose end is pending.
LEMMA NotifyInv == ASSUME PresenceInv, NEW c \in Conns, Notify(c) PROVE PresenceInv'
<1> DEFINE p == UsedBy[c]
<1> DEFINE x == [kind |-> at[c], player |-> p]
<1>0. /\ at[c] \in {"online", "offline"} /\ at' = [at EXCEPT ![c] = "idle"]
      /\ UNCHANGED <<roster, out, met, mark, seating, seated, window, outcome>>
      /\ UNCHANGED <<timer, seatTimer, clock, frame>>
      /\ UNCHANGED <<conns, ends, link, moves, opens>>
  BY DEF Notify, actor, timers, session, registry, bounds
<1>1. IF Stopped THEN mailbox' = mailbox ELSE mailbox' = Append(mailbox, x)
  BY DEF Notify
<1>2. p \in Players /\ UsedBy \in [Conns -> Players]
  BY BattleAssumption
<1>3. /\ at[c] = "online" => x = Online(p)
      /\ at[c] = "offline" => x = Offline(p)
      /\ x \in Message
  BY <1>0, <1>2 DEF Online, Offline, Message
<1> HIDE DEF x
<1>4. Running' = Running /\ Admitted' = Admitted /\ Admitted
  BY <1>0 DEF Running, Admitted, Stopped, PresenceInv, Fresh
<1>5. TypeOK'
  BY <1>0, <1>1, <1>3, AppendToMailbox DEF PresenceInv, TypeOK
<1>6. Fresh'
  BY <1>4 DEF Fresh
<1>7. ConnectionsTraced'
  <2>1. \A d \in Conns : at'[d] = at[d] \/ at'[d] = "idle"
    BY <1>0 DEF PresenceInv, TypeOK
  <2> QED BY <1>0, <1>4, <2>1 DEF PresenceInv, ConnectionsTraced
<1>8. SeatsHeldByPresent'
  BY <1>0 DEF PresenceInv, SeatsHeldByPresent
<1>9. CASE ~Running
  BY <1>4, <1>5, <1>6, <1>7, <1>8, <1>9 DEF PresenceInv, AbsenceTracked, MarksTimed
<1>10. CASE Running
  <2>0. mailbox' = Append(mailbox, x) /\ mailbox \in Seq(Message)
    BY <1>1, <1>10 DEF Running, PresenceInv, TypeOK
  <2>1. MarksTimed'
    <3>1. \A q \in Players : Queued(Timeout(q)) => Queued(Timeout(q))'
      BY <1>3, <2>0, QueuedAfterAppend
    <3> QED BY <1>0, <1>10, <3>1 DEF PresenceInv, MarksTimed
  <2>2. AbsenceTracked'
    <3> SUFFICES ASSUME NEW q \in roster \cap met, conns[q] = None, ~EndPending(q)'
                 PROVE  \/ OfflineIsLast(q)'
                        \/ mark[q] # "none" /\ ~Queued(Online(q))'
      BY <1>0 DEF AbsenceTracked
    <3>1. q \in Players
      BY DEF PresenceInv, TypeOK
    <3>2. CASE q = p /\ at[c] = "offline"
      BY <1>2, <1>3, <2>0, <3>2, LastAfterAppend
    <3>3. CASE q = p /\ at[c] = "online"
      <4>1. c \in ends /\ conns[UsedBy[c]] # c
        BY <1>10, <3>3, BattleAssumption DEF PresenceInv, ConnectionsTraced
      <4>2. link[c] = "closed"
        BY <4>1 DEF PresenceInv, ConnectionsTraced
      <4> QED BY <1>0, <3>3, <4>1, <4>2 DEF EndPending
    <3>4. CASE q # p
      <4>1. ~EndPending(q)
        <5> SUFFICES ASSUME NEW d \in Conns, UsedBy[d] = q,
                            at[d] = "offline" \/ (d \in ends /\ link[d] = "closed")
                     PROVE  FALSE
          BY DEF EndPending
        <5>1. d # c
          BY <3>4
        <5>2. at'[d] = at[d]
          BY <1>0, <5>1 DEF PresenceInv, TypeOK
        <5> QED BY <1>0, <5>2 DEF EndPending
      <4>2. OfflineIsLast(q) \/ (mark[q] # "none" /\ ~Queued(Online(q)))
        BY <1>10, <4>1 DEF PresenceInv, AbsenceTracked
      <4>3. x # Online(q)
        BY <1>0, <1>2, <1>3, <3>1, <3>4, MessagesDiffer
      <4>4. OfflineIsLast(q) => OfflineIsLast(q)'
        BY <1>3, <2>0, <3>1, <4>3, LastAfterAppend
      <4>5. ~Queued(Online(q)) => ~Queued(Online(q))'
        BY <1>3, <2>0, <4>3, QueuedAfterAppend
      <4> QED BY <4>2, <4>4, <4>5
    <3> QED BY <1>0, <3>2, <3>3, <3>4
  <2> QED BY <1>5, <1>6, <1>7, <1>8, <2>1, <2>2 DEF PresenceInv
<1> QED BY <1>9, <1>10
-------------------------------------------------------------------------------
(* The clock *)

\* Until the battle runs its clock does, and no frame was played past a snapshot.
LEMMA InitialClock == Init => ClockKept /\ SnapshotsObeyed
<1> SUFFICES ASSUME Init PROVE ClockKept /\ SnapshotsObeyed
  OBVIOUS
<1>1. ClockKept
  BY DEF Init, ClockKept, Running, Admitted, Stopped
<1>2. MaxFrames..frame = {}
  BY BattleAssumption DEF Init
<1> QED BY <1>1, <1>2 DEF SnapshotsObeyed

\* A battle that is settled needs no clock.
LEMMA SettleClock ==
    ASSUME TypeOK, NEW w \in Players \cup {None}, Settle(w)
    PROVE  ClockKept' /\ SnapshotsObeyed'
<1>1. outcome' = [winner |-> w, players |-> roster] /\ roster \in SUBSET Players
  BY DEF Settle, TypeOK
<1>2. outcome' \in Outcome
  BY <1>1 DEF Outcome
<1>3. Stopped'
  BY <1>2, NoneAssumption DEF Stopped
<1> QED BY <1>3 DEF ClockKept, SnapshotsObeyed, Running

\* A message that is handled or comes in leaves the expiry of the seating window queued.
LEMMA ExpiryStaysQueued ==
    ASSUME TypeOK, Queued(SeatExpired),
           \/ mailbox' = mailbox
           \/ \E m \in Message : mailbox' = Append(mailbox, m)
           \/ mailbox # <<>> /\ Head(mailbox) # SeatExpired /\ mailbox' = Tail(mailbox)
    PROVE  Queued(SeatExpired)'
<1>1. mailbox \in Seq(Message)
  BY DEF TypeOK
<1>2. CASE mailbox' = mailbox
  BY <1>2 DEF Queued
<1>3. CASE \E m \in Message : mailbox' = Append(mailbox, m)
  BY <1>1, <1>3, QueuedAfterAppend
<1>4. CASE mailbox # <<>> /\ Head(mailbox) # SeatExpired /\ mailbox' = Tail(mailbox)
  BY <1>1, <1>4, QueuedAfterTail
<1> QED BY <1>2, <1>3, <1>4

\* Steps that leave the windows and the clock alone, and all but the expiry in the mailbox.
LEMMA ClockUntouched ==
    ASSUME ClockKept,
           outcome' = outcome, window' = window, seating' = seating, seatTimer' = seatTimer,
           clock' = clock, Queued(SeatExpired) => Queued(SeatExpired)'
    PROVE  ClockKept'
  BY DEF ClockKept, Running, Stopped

\* A handler that starts the battle starts its clock.
LEMMA StartClock ==
    ASSUME ClockKept, outcome' = outcome, window' = window, StartBattle
    PROVE  ClockKept'
  BY DEF ClockKept, Running, Stopped, StartBattle

LEMMA HandleClock ==
    ASSUME TypeOK, ClockKept, SnapshotsObeyed, Handle
    PROVE  ClockKept' /\ SnapshotsObeyed'
<1>0. Running /\ Admitted /\ ~Stopped /\ mailbox # <<>>
  BY DEF Handle, OnOnline, OnOffline, TimeoutIgnored, TimeoutEliminates, OnSeatExpired,
         Receive, Running
<1>1. ASSUME NEW p \in Players, OnOnline(p) PROVE ClockKept' /\ SnapshotsObeyed'
  <2>1. /\ Admitted' /\ outcome' = outcome /\ window' = window /\ frame' = frame
        /\ Head(mailbox) # SeatExpired /\ mailbox' = Tail(mailbox)
        /\ StartBattle \/ UNCHANGED <<seating, seatTimer, clock>>
    BY <1>0, <1>1, MessagesDiffer DEF OnOnline, Receive, Admitted
  <2>2. Queued(SeatExpired) => Queued(SeatExpired)'
    BY <1>0, <2>1, ExpiryStaysQueued
  <2>3. ClockKept'
    BY <1>0, <2>1, <2>2, ClockUntouched, StartClock
  <2> QED BY <2>1, <2>3 DEF SnapshotsObeyed, Stopped
<1>2. ASSUME NEW p \in Players, OnOffline(p) \/ TimeoutIgnored(p)
      PROVE  ClockKept' /\ SnapshotsObeyed'
  <2>1. /\ Admitted' /\ outcome' = outcome /\ window' = window /\ frame' = frame
        /\ Head(mailbox) # SeatExpired /\ mailbox' = Tail(mailbox)
        /\ UNCHANGED <<seating, seatTimer, clock>>
    BY <1>0, <1>2, MessagesDiffer DEF OnOffline, TimeoutIgnored, Receive, Admitted, session
  <2>2. Queued(SeatExpired) => Queued(SeatExpired)'
    BY <1>0, <2>1, ExpiryStaysQueued
  <2>3. ClockKept'
    BY <1>0, <2>1, <2>2, ClockUntouched
  <2> QED BY <2>1, <2>3 DEF SnapshotsObeyed, Stopped
<1>3. ASSUME NEW p \in Players, TimeoutEliminates(p) PROVE ClockKept' /\ SnapshotsObeyed'
  <2>1. CASE \E w \in Players : Settle(w)
    BY <2>1, SettleClock
  <2>2. CASE ~ \E w \in Players : Settle(w)
    <3>1. /\ outcome' = outcome /\ window' = window /\ frame' = frame
          /\ Head(mailbox) # SeatExpired /\ mailbox' = Tail(mailbox)
          /\ UNCHANGED <<seating, seatTimer, clock>>
      BY <1>3, <2>2, MessagesDiffer DEF TimeoutEliminates, Eliminate, Receive, TypeOK
    <3>2. Admitted'
      BY <1>3 DEF TimeoutEliminates, Eliminate, Admitted
    <3>3. Queued(SeatExpired) => Queued(SeatExpired)'
      BY <1>0, <3>1, ExpiryStaysQueued
    <3>4. ClockKept'
      BY <1>0, <3>1, <3>2, <3>3, ClockUntouched
    <3> QED BY <3>1, <3>4 DEF SnapshotsObeyed, Stopped
  <2> QED BY <2>1, <2>2
<1>4. CASE OnSeatExpired
  <2>1. /\ Admitted' /\ outcome' = outcome /\ window' = window /\ frame' = frame /\ StartBattle
    BY <1>0, <1>4 DEF OnSeatExpired, Admitted
  <2>2. ClockKept'
    BY <1>0, <2>1, StartClock
  <2> QED BY <2>1, <2>2 DEF SnapshotsObeyed, Stopped
<1> QED BY <1>1, <1>2, <1>3, <1>4 DEF Handle

\* Past the last frame the session plays up to the next snapshot.
LEMMA FrameClock ==
    ASSUME TypeOK, ClockKept, SnapshotsObeyed, FrameResult
    PROVE  ClockKept' /\ SnapshotsObeyed'
<1>1. CASE \E w \in Winners : Settle(w)
  <2>1. Winners \subseteq Players \cup {None}
    BY DEF Winners, TypeOK
  <2> QED BY <1>1, <2>1, SettleClock
<1>2. CASE ~ \E w \in Winners : Settle(w)
  <2>1. /\ Running /\ frame' = frame + 1 /\ (~IsSnapshot \/ ~LastFrame)
        /\ outcome' = outcome /\ seatTimer' = seatTimer
        /\ UNCHANGED <<roster, out, seating, window, mailbox, clock>>
    BY <1>2 DEF FrameResult, timers
  <2>2. ClockKept'
    BY <2>1, ClockUntouched DEF Running, Admitted, Queued
  <2>3. ASSUME NEW k \in MaxFrames..frame' PROVE k % SnapshotEvery # 0
    <3>1. CASE k \in MaxFrames..frame
      BY <2>1, <3>1 DEF SnapshotsObeyed, Running
    <3>2. CASE k \notin MaxFrames..frame
      <4>1. frame \in Nat /\ MaxFrames \in Nat
        BY BattleAssumption DEF TypeOK
      <4>2. k = frame + 1 /\ frame + 1 >= MaxFrames
        BY <2>1, <2>3, <3>2, <4>1
      <4> QED BY <2>1, <4>2 DEF IsSnapshot, LastFrame
    <3> QED BY <3>1, <3>2
  <2> QED BY <2>2, <2>3 DEF SnapshotsObeyed
<1> QED BY <1>1, <1>2

LEMMA StepClock ==
    ASSUME TypeOK, ClockKept, SnapshotsObeyed, [Next]_vars
    PROVE  ClockKept' /\ SnapshotsObeyed'
<1>1. CASE Admit
  <2>1. /\ ~Stopped /\ outcome' = outcome /\ frame' = frame
        /\ \/ seating' = TRUE /\ seatTimer' = TRUE
           \/ UNCHANGED <<seating, seatTimer, clock, window, mailbox>>
    BY <1>1 DEF Admit
  <2>2. ClockKept'
    BY <2>1 DEF ClockKept, Stopped, Queued
  <2> QED BY <2>1, <2>2 DEF SnapshotsObeyed, Stopped
<1>2. CASE PrepareMigration
  <2>1. Running /\ Admitted' /\ window' = TRUE /\ outcome' = outcome /\ frame' = frame
    BY <1>2 DEF PrepareMigration, Running, Admitted
  <2> QED BY <2>1 DEF ClockKept, SnapshotsObeyed, Stopped
<1>3. CASE PrepareMigrationFails \/ ResumeMigration
  <2>1. clock' = "running" /\ outcome' = outcome /\ frame' = frame
    BY <1>3 DEF PrepareMigrationFails, ResumeMigration, Resumed
  <2> QED BY <2>1 DEF ClockKept, SnapshotsObeyed, Stopped
<1>4. CASE Handle
  BY <1>4, HandleClock
<1>5. CASE FrameResult
  BY <1>5, FrameClock
<1>6. CASE SeatFires
  <2>1. /\ Running /\ Running' /\ mailbox' = Append(mailbox, SeatExpired)
        /\ UNCHANGED <<seating, window, clock, frame, outcome>>
    BY <1>6 DEF SeatFires, actor, session, Running, Admitted, Stopped
  <2>2. SeatExpired \in Message
    BY DEF SeatExpired, Message
  <2>3. Queued(SeatExpired)'
    BY <2>1, <2>2, QueuedAfterAppend DEF TypeOK
  <2> QED BY <2>1, <2>3 DEF ClockKept, SnapshotsObeyed, Stopped, Running
<1>7. CASE \/ UNCHANGED vars
           \/ \E p \in Players : OfflineFires(p) \/ PushFails(p)
           \/ \E c \in Conns : Open(c) \/ Identify(c) \/ Drop(c) \/ Connection(c)
  <2>1. /\ UNCHANGED <<roster, out, outcome, window, seating, seatTimer, clock, frame>>
        /\ mailbox' = mailbox \/ \E m \in Message : mailbox' = Append(mailbox, m)
    <3> DEFINE Quiet ==
          /\ UNCHANGED <<roster, out, outcome, window, seating, seatTimer, clock, frame>>
          /\ mailbox' = mailbox \/ \E m \in Message : mailbox' = Append(mailbox, m)
    <3>1. ASSUME NEW p \in Players, OfflineFires(p) PROVE Quiet
      BY <3>1, MessagesDiffer DEF OfflineFires, actor, session
    <3>2. ASSUME NEW p \in Players, PushFails(p) PROVE Quiet
      BY <3>2 DEF PushFails, actor, session, timers
    <3>3. ASSUME NEW c \in Conns, Open(c) \/ Identify(c) \/ Drop(c) \/ Register(c) \/ Disconnect(c)
          PROVE  Quiet
      BY <3>3 DEF Open, Identify, Drop, Register, Disconnect, actor, session, timers
    <3>4. ASSUME NEW c \in Conns, Notify(c) PROVE Quiet
      <4>1. [kind |-> at[c], player |-> UsedBy[c]] \in Message
        BY <3>4, BattleAssumption DEF Notify, Message
      <4> QED BY <3>4, <4>1 DEF Notify, actor, session, timers
    <3>5. UNCHANGED vars => Quiet
      BY DEF vars, actor, session, timers
    <3> QED BY <1>7, <3>1, <3>2, <3>3, <3>4, <3>5 DEF Connection
  <2>2. Queued(SeatExpired) => Queued(SeatExpired)'
    BY <2>1, ExpiryStaysQueued
  <2>3. ClockKept'
    BY <2>1, <2>2 DEF ClockKept, Running, Admitted, Stopped
  <2> QED BY <2>1, <2>3 DEF SnapshotsObeyed, Stopped
<1> QED BY <1>1, <1>2, <1>3, <1>4, <1>5, <1>6, <1>7 DEF Next

-------------------------------------------------------------------------------
(* Theorems *)

\* No step of the actor, its timers, its session or a connection breaks the invariant.
LEMMA StepInv == PresenceInv /\ [Next]_vars => PresenceInv'
<1> SUFFICES ASSUME PresenceInv, [Next]_vars PROVE PresenceInv'
  OBVIOUS
<1>1. CASE Admit \/ PrepareMigration \/ PrepareMigrationFails \/ ResumeMigration
  BY <1>1, AdmitInv, PrepareMigrationInv, ResumeInv
<1>2. CASE Handle
  BY <1>2, OnOnlineInv, OnOfflineInv, TimeoutIgnoredInv, TimeoutEliminatesInv,
     OnSeatExpiredInv DEF Handle
<1>3. CASE \E p \in Players : OfflineFires(p) \/ PushFails(p)
  BY <1>3, OfflineFiresInv, PushFailsInv
<1>4. CASE SeatFires \/ FrameResult
  BY <1>4, SeatFiresInv, FrameResultInv
<1>5. CASE \E c \in Conns : Open(c) \/ Identify(c) \/ Drop(c) \/ Connection(c)
  BY <1>5, OpenInv, IdentifyInv, DropInv, RegisterInv, NotifyInv, DisconnectInv
     DEF Connection
<1>6. CASE UNCHANGED vars
  BY <1>6, IdleInv DEF vars, session, bounds, PresenceInv, TypeOK
<1> QED BY <1>1, <1>2, <1>3, <1>4, <1>5, <1>6 DEF Next

\* Registry, bridge, mailbox and actor keep the invariant of the lifecycle.
THEOREM LifecycleInvariant == Spec => []LifecycleInv
<1>1. Init => LifecycleInv
  BY InitialInv, InitialClock DEF LifecycleInv
<1>2. LifecycleInv /\ [Next]_vars => LifecycleInv'
  BY StepInv, StepClock DEF LifecycleInv, PresenceInv
<1> QED BY <1>1, <1>2, PTL DEF Spec

\* Every variable keeps its type.
THEOREM TypeCorrect == Spec => []TypeOK
<1>1. LifecycleInv => TypeOK
  BY DEF LifecycleInv, PresenceInv
<1> QED BY <1>1, LifecycleInvariant, PTL

\* Only players who are in the roster and not marked as offline are counted as seated.
THEOREM SeatsOfPresentPlayers == Spec => []SeatsHeldByPresent
<1>1. LifecycleInv => SeatsHeldByPresent
  BY DEF LifecycleInv, PresenceInv
<1> QED BY <1>1, LifecycleInvariant, PTL

\* Outside a migration window every mark runs out; inside none does.
THEOREM MarksRunOut == Spec => []MarksTimed
<1>1. LifecycleInv => MarksTimed
  BY DEF LifecycleInv, PresenceInv
<1> QED BY <1>1, LifecycleInvariant, PTL

\* No disconnection is lost: once nothing about an absent player is on its way, he is
\* marked.
THEOREM NoDisconnectionLost == Spec => []AbsentMarked
<1>1. ASSUME LifecycleInv PROVE AbsentMarked
  <2> SUFFICES ASSUME NEW p \in roster, Running, p \in met, conns[p] = None, Settled(p)
               PROVE  mark[p] # "none"
    BY DEF AbsentMarked
  <2>1. ~EndPending(p) /\ ~Queued(Offline(p))
    BY DEF Settled, EndPending
  <2>2. ~OfflineIsLast(p)
    BY <2>1 DEF OfflineIsLast, Queued
  <2> QED BY <1>1, <2>1, <2>2 DEF LifecycleInv, PresenceInv, AbsenceTracked
<1> QED BY <1>1, LifecycleInvariant, PTL

\* The safety half of BattleEnds: a battle that is not settled is never left with a clock
\* that nothing will start, however takeovers, windows and timers follow each other
\* (startBattle, onPrepareMigration, onResumeMigration).
THEOREM ClockComesBack == Spec => []ClockKept
<1>1. LifecycleInv => ClockKept
  BY DEF LifecycleInv
<1> QED BY <1>1, LifecycleInvariant, PTL

\* A multiple leaves no remainder.
LEMMA MultipleDue ==
    ASSUME NEW e \in Nat \ {0}, NEW q \in Nat
    PROVE  (e * q) % e = 0
<1>1. PICK j \in Nat : j = e * q
  <2>1. e * q \in Nat
    OBVIOUS
  <2> QED BY <2>1
<1>2. PICK a \in Nat, s \in Nat : s = j % e /\ s < e /\ j = e * a + s
  <2>1. j \div e \in Nat /\ j % e \in Nat /\ j % e < e /\ j = e * (j \div e) + (j % e)
    OBVIOUS
  <2> QED BY <2>1
<1>3. PICK d \in Int : d = q - a
  OBVIOUS
<1>4. e * d = s
  <2>1. e * d = e * q - e * a /\ e * q \in Nat /\ e * a \in Nat
    BY <1>3
  <2>2. e * q = e * a + s
    BY <1>1, <1>2
  <2>3. \A x, y \in Nat : x = y + s => x - y = s
    OBVIOUS
  <2> QED BY <2>1, <2>2, <2>3
<1>5. d < 1
  <2>1. ASSUME d >= 1 PROVE FALSE
    <3>1. e * d = e + e * (d - 1) /\ e * (d - 1) >= 0
      BY <2>1
    <3> QED BY <1>2, <1>4, <3>1
  <2> QED BY <1>3, <2>1
<1>6. d > -1
  <2>1. ASSUME d <= -1 PROVE FALSE
    <3>1. e * d = e * (d + 1) - e /\ e * (d + 1) <= 0
      BY <2>1
    <3> QED BY <1>2, <1>4, <3>1
  <2> QED BY <1>3, <2>1
<1>7. d = 0
  BY <1>3, <1>5, <1>6
<1>8. s = 0
  BY <1>4, <1>7
<1> QED BY <1>1, <1>2, <1>8

\* Of any SnapshotEvery numbers in a row one is a multiple of it.
LEMMA SnapshotDue ==
    ASSUME NEW n \in Nat, NEW e \in Nat \ {0}
    PROVE  \E k \in n..n + e - 1 : k % e = 0
<1>1. CASE n % e = 0
  BY <1>1
<1>2. CASE n % e # 0
  <2>1. PICK q \in Nat, r \in 0..e - 1 : n = e * q + r /\ r = n % e
    OBVIOUS
  <2>2. n + e - r = e * (q + 1)
    BY <2>1
  <2>3. (n + e - r) % e = 0
    <3>1. (e * (q + 1)) % e = 0
      BY MultipleDue
    <3> QED BY <2>2, <3>1
  <2>4. n + e - r \in n..n + e - 1
    BY <1>2, <2>1
  <2> QED BY <2>3, <2>4
<1> QED BY <1>1, <1>2

\* The other half: a battle plays fewer than SnapshotEvery frames past its last one, since
\* the first snapshot there settles it (onFrameResult).
THEOREM BattleBounded == Spec => []FramesBounded
<1>1. ASSUME LifecycleInv PROVE FramesBounded
  <2> SUFFICES ASSUME ~Stopped, frame >= MaxFrames + SnapshotEvery PROVE FALSE
    BY <1>1, BattleAssumption DEF FramesBounded, LifecycleInv, PresenceInv, TypeOK
  <2>1. frame \in Nat /\ MaxFrames \in Nat /\ SnapshotEvery \in Nat \ {0}
    BY <1>1, BattleAssumption DEF LifecycleInv, PresenceInv, TypeOK
  <2>2. PICK k \in MaxFrames..MaxFrames + SnapshotEvery - 1 : k % SnapshotEvery = 0
    BY <2>1, SnapshotDue
  <2>3. k \in MaxFrames..frame
    BY <2>1
  <2> QED BY <1>1, <2>2, <2>3 DEF LifecycleInv, SnapshotsObeyed
<1> QED BY <1>1, LifecycleInvariant, PTL
===============================================================================
