----------------------------- MODULE RibRefresh -----------------------------
(***************************************************************************)
(* RibEntry.refresh of dv/table/rib.go, step by step: a loop over a Go map *)
(* that visits the next hops in any order.                                 *)
(***************************************************************************)
EXTENDS DvRib

VARIABLES
    costs,      \* the entry's cost table
    visited,    \* next hops the loop has seen
    low         \* lowest1, nextHop1, lowest2, nextHop2

vars == <<costs, visited, low>>

Init ==
    /\ costs \in CostTable
    /\ visited = {}
    /\ low = Unreachable

\* The next hop becomes the best, and the best the second.
TakesFirst(h) ==
    \/ costs[h] < low.cost1
    \/ costs[h] = low.cost1 /\ h < low.hop1

InsertFirst(h) ==
    [hop1 |-> h, cost1 |-> costs[h], hop2 |-> low.hop1, cost2 |-> low.cost1]

TakesSecond(h) ==
    \/ costs[h] < low.cost2
    \/ costs[h] = low.cost2 /\ h < low.hop2

\* One iteration of the loop.
Visit(h) ==
    /\ h \notin visited
    /\ visited' = visited \cup {h}
    /\ low' = IF TakesFirst(h) THEN InsertFirst(h)
              ELSE IF TakesSecond(h) THEN [low EXCEPT !.hop2 = h, !.cost2 = costs[h]]
              ELSE low
    /\ UNCHANGED costs

Next == \E h \in Node : Visit(h)

Spec == Init /\ [][Next]_vars

----------------------------------------------------------------------------
(* Properties *)

\* Every variable has its type.
TypeOK ==
    /\ costs \in CostTable
    /\ visited \in SUBSET Node
    /\ low \in Lowest

\* The loop has the two lowest of the next hops it has seen, ties broken by
\* hash, in whatever order the map yields them; infinite costs never count.
LowestOfVisited == IsLowest(low, costs, visited)

\* So two runs of refresh on one cost table agree, and an advertisement
\* changes only when a cost does.
OrderIndependent == visited = Node => low = Refresh(costs)
=============================================================================
