---------------------------- MODULE MatchRounds ----------------------------
(***************************************************************************)
(* The match function (module FlexTeams) against what a match is, over     *)
(* batches of tickets that the engine may hand to a round.                 *)
(***************************************************************************)
EXTENDS MatchAdmission

CONSTANT Batches   \* the batches whose rounds are looked at

\* Tickets with numbers of their own, and players whose levels are known.
IsBatch(batch) ==
    /\ IsFiniteSet(batch)
    /\ \A t \in batch :
          /\ t.id \in Nat
          /\ t.players \subseteq DOMAIN Level /\ t.players # {} /\ IsFiniteSet(t.players)
    /\ \A t, u \in batch : t.id = u.id => t = u

ASSUME BatchesAssumption == \A batch \in Batches : IsBatch(batch)

Headcount(side) == MapThenSumSet(Size, side)

TicketsIn(m) == m.red \cup m.blue

\* A match of tickets of a batch, whatever is left of it.
Holds(batch, m) ==
    /\ m.red # {} /\ m.blue # {}
    /\ m.red \cap m.blue = {}
    /\ TicketsIn(m) \subseteq batch
    /\ Headcount(m.red) = Headcount(m.blue) /\ Headcount(m.red) <= MaxSide
    /\ LET n == Headcount(m.red)
       IN  SideLevel(m.red, n) - SideLevel(m.blue, n) \in (-MaxGap)..MaxGap

Rounds == {[batch |-> b, round |-> Run(b)] : b \in Batches}

\* For every batch: the search for a side finds one whenever some tickets of
\* the batch hold that many players; the matches of a round are matches and
\* share no ticket; and when all levels are within MaxGap no match is left to
\* form in what a round leaves (with levels further apart one may be: the
\* first two sides are the only ones compared).  Looked at in the initial
\* states.
BatchesMatched ==
    calls = 0 /\ tickets = <<>> => \A r \in Rounds :
        /\ \A n \in 1..MaxSide :
             (\E side \in SUBSET r.batch : Headcount(side) = n)
                => Headcount(PickSide(r.batch, n)) = n
        /\ \A m \in r.round : Holds(r.batch, m)
        /\ \A m, k \in r.round : m # k => TicketsIn(m) \cap TicketsIn(k) = {}
        /\ (\A t, u \in r.batch : AvgLevel(t) - AvgLevel(u) <= MaxGap) =>
             \A red, blue \in SUBSET (r.batch \ UNION {TicketsIn(m) : m \in r.round}) :
                ~Holds(r.batch, [red |-> red, blue |-> blue])
=============================================================================
