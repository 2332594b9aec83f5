------------------------------- MODULE DvRib --------------------------------
(***************************************************************************)
(* The cost table of one destination in a router's RIB (dv/table/rib.go),  *)
(* its two lowest costs, and what a router makes of a neighbour's          *)
(* advertisement (updateRib of dv/dv/table_algo.go).                       *)
(*                                                                         *)
(* A router is the hash of its name, a positive number; 0 is the hash the  *)
(* code uses for "no next hop".  A next hop that is missing from a cost    *)
(* table and one whose cost was reset to infinity are told apart by no     *)
(* operation, so a cost table gives every router a cost.                   *)
(***************************************************************************)
EXTENDS Naturals

CONSTANTS
    Node,       \* routers
    Infinity    \* config.CostInfinity

ASSUME DvRibAssumption ==
    /\ Node \subseteq Nat \ {0}
    /\ Infinity \in Nat \ {0}

NoHop == 0
Cost == 0..Infinity
CostTable == [Node -> Cost]

\* The next hops and costs a RIB entry keeps.
Lowest == [hop1 : Node \cup {NoHop}, cost1 : Cost,
           hop2 : Node \cup {NoHop}, cost2 : Cost]

\* No next hop: how refresh starts.
Unreachable == [hop1 |-> NoHop, cost1 |-> Infinity, hop2 |-> NoHop, cost2 |-> Infinity]

\* By cost, then by hash.
Precedes(costs, h, k) == costs[h] < costs[k] \/ (costs[h] = costs[k] /\ h < k)

\* h is the best of the next hops in S that reach the destination.
IsBest(costs, S, h) ==
    /\ h \in S /\ costs[h] < Infinity
    /\ \A k \in S \ {h} : costs[k] < Infinity => Precedes(costs, h, k)

\* Reference definition of refresh: the best next hop in S, NoHop if none,
\* and the best of the others.
IsLowest(low, costs, S) ==
    /\ \/ IsBest(costs, S, low.hop1) /\ low.cost1 = costs[low.hop1]
       \/ /\ \A k \in S : costs[k] = Infinity
          /\ low.hop1 = NoHop /\ low.cost1 = Infinity
    /\ \/ IsBest(costs, S \ {low.hop1}, low.hop2) /\ low.cost2 = costs[low.hop2]
       \/ /\ \A k \in S \ {low.hop1} : costs[k] = Infinity
          /\ low.hop2 = NoHop /\ low.cost2 = Infinity

BestHop(costs, S) ==
    IF \A k \in S : costs[k] = Infinity THEN NoHop
    ELSE CHOOSE h \in S : IsBest(costs, S, h)

CostOf(costs, h) == IF h = NoHop THEN Infinity ELSE costs[h]

\* The outcome of refresh on a whole cost table.
Refresh(costs) ==
    LET h1 == BestHop(costs, Node)
        h2 == BestHop(costs, Node \ {h1})
    IN  [hop1 |-> h1, cost1 |-> CostOf(costs, h1),
         hop2 |-> h2, cost2 |-> CostOf(costs, h2)]

----------------------------------------------------------------------------
(* Advertisements *)

LocalCost == 1

\* What an advertised entry costs router n: the neighbour's cost to the
\* destination, or its other cost when its next hop is n (poison reverse).
AdvertisedCost(n, entry) ==
    LET c == (IF entry.hop1 = n THEN entry.cost2 ELSE entry.cost1) + LocalCost
    IN  IF c >= Infinity THEN Infinity ELSE c
=============================================================================
