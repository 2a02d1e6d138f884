-------------------------- MODULE MCMatchAdmission --------------------------
EXTENDS MatchRounds

CONSTANT low

\* Players of the batches: of two levels that are too far apart.
Pool == (1..4) \X (1..3) \X {1, 5}

\* One player of a lower level, just within the gap of the others.
Levels == [p \in Players \cup Pool |->
             IF p \in Pool THEN p[3] ELSE IF p = low THEN 1 ELSE 4]

\* Two to four tickets of one to three players.
SmallBatches ==
    {{[id |-> t, players |-> {<<t, k, b[t][2]>> : k \in 1..b[t][1]}] : t \in DOMAIN b} :
        b \in UNION {[1..n -> (1..3) \X {1, 5}] : n \in 2..4}}
=============================================================================
