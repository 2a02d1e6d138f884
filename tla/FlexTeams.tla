----------------------------- MODULE FlexTeams -----------------------------
(***************************************************************************)
(* The match function of the casual rule set                               *)
(* (services/matcher/internal/biz/matchfunc/flex_teams.go): it takes a     *)
(* batch of tickets, each of one or more players, and forms matches of two *)
(* sides with the same number of players and close average levels.         *)
(* The tickets are records with an `id' and a set of `players'.            *)
(***************************************************************************)
EXTENDS Integers, FiniteSets, FiniteSetsExt

CONSTANTS Level,    \* the level of each player
          MaxGap,   \* the largest difference between the sides' levels
          MaxSide   \* the largest number of players of a side

ASSUME FlexAssumption == MaxGap \in Nat /\ MaxSide \in Nat \ {0}

Size(t) == Cardinality(t.players)

\* avgLevel: the integer mean of the ticket's levels.
AvgLevel(t) == MapThenSumSet(LAMBDA p : Level[p], t.players) \div Size(t)

\* sortedTickets: by level, equal levels by ticket.
Before(s, t) ==
    \/ AvgLevel(s) < AvgLevel(t)
    \/ AvgLevel(s) = AvgLevel(t) /\ s.id < t.id

First(tickets) == CHOOSE t \in tickets : \A u \in tickets \ {t} : Before(t, u)

\* sideLevel: the mean of the tickets' rounded means, weighted by size.
SideLevel(side, size) ==
    MapThenSumSet(LAMBDA t : AvgLevel(t) * Size(t), side) \div size

\* No side of the size asked for (dfsSide's false); a side is never empty.
NoSide == {}

\* Mutant: a ticket that fits is kept although the rest cannot be filled.
PickSide_Greedy(tickets, size) ==
    LET dfs[rest \in SUBSET tickets] == [r \in 0..size |->
            IF rest = {} THEN NoSide
            ELSE LET t == First(rest)
                     others == rest \ {t}
                 IN  IF Size(t) = r THEN {t}
                     ELSE IF Size(t) < r
                          THEN IF dfs[others][r - Size(t)] = NoSide THEN NoSide
                               ELSE {t} \cup dfs[others][r - Size(t)]
                          ELSE dfs[others][r]]
    IN  dfs[tickets][size]

\* pickSide and dfsSide: the first combination, in the order of the search,
\* whose tickets hold exactly `size' players.
PickSide(tickets, size) ==
    LET dfs[rest \in SUBSET tickets] == [r \in 0..size |->
            IF rest = {} THEN NoSide
            ELSE LET t == First(rest)
                     others == rest \ {t}
                 IN  IF Size(t) = r THEN {t}
                     ELSE IF Size(t) < r /\ dfs[others][r - Size(t)] # NoSide
                          THEN {t} \cup dfs[others][r - Size(t)]
                          ELSE dfs[others][r]]
    IN  dfs[tickets][size]

\* Mutant: the blue side is looked for among all the tickets.
SidesOf_Overlap(tickets, size) ==
    [red |-> PickSide(tickets, size), blue |-> PickSide(tickets, size)]

\* One attempt of formOne at sides of `size' players: the red side is the
\* first that fits and the blue side the first of what it leaves.
SidesOf(tickets, size) ==
    LET sides[red \in SUBSET tickets] ==
            [red |-> red, blue |-> PickSide(tickets \ red, size)]
    IN  sides[PickSide(tickets, size)]

Formed(m, size) ==
    LET Apart(a, b) == IF a < b THEN b - a ELSE a - b
    IN  /\ m.red # NoSide
        /\ m.blue # NoSide
        /\ Apart(SideLevel(m.red, size), SideLevel(m.blue, size)) <= MaxGap

\* formOne: the match with the largest sides of those that can be formed, as
\* a set of one match, or of none.
FormOne(tickets) ==
    LET half == MapThenSumSet(Size, tickets) \div 2
        tried == {[n |-> n, match |-> SidesOf(tickets, n)] : n \in {n \in 1..MaxSide : n <= half}}
        formed == {s \in tried : Formed(s.match, s.n)}
    IN  {s.match : s \in {s \in formed : \A o \in formed : o.n <= s.n}}

\* FlexTeams.Run: matches are formed until none can be.
Run(candidates) ==
    LET run[rest \in SUBSET candidates] ==
            UNION {{m} \cup run[rest \ (m.red \cup m.blue)] : m \in FormOne(rest)}
    IN  IF Cardinality(candidates) < 2 THEN {} ELSE run[candidates]
=============================================================================
