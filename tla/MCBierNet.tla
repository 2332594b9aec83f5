----------------------------- MODULE MCBierNet ------------------------------
(* BierNet for TLC: topologies, shortest paths and the tables they give. *)
EXTENDS BierNet

CONSTANTS x1, x2

MCNode == 1..5
TwoNonces == {x1, x2}

\* The next hops of all shortest paths, per router and destination: in a
\* diamond with a tail, 1 - {2, 3} - 4 - 5, and in the ring 1 - 2 - 3 - 4 - 5 - 1.
Diamond ==
    << <<{}, {2}, {3}, {2, 3}, {2, 3}>>,
      <<{1}, {}, {1, 4}, {4}, {4}>>,
      <<{1}, {1, 4}, {}, {4}, {4}>>,
      <<{2, 3}, {2}, {3}, {}, {5}>>,
      <<{4}, {4}, {4}, {4}, {}>>>>
Ring ==
    << <<{}, {2}, {2}, {5}, {5}>>,
      <<{1}, {}, {3}, {3}, {1}>>,
      <<{2}, {2}, {}, {4}, {4}>>,
      <<{5}, {3}, {3}, {}, {5}>>,
      <<{1}, {1}, {4}, {4}, {}>>>>

\* One of them everywhere, the first in one order of the neighbours.
FirstHop(fib) ==
    [n \in Node |-> [d \in Node |->
        IF fib[n][d] = {} THEN None
        ELSE CHOOSE m \in fib[n][d] : \A o \in fib[n][d] : m <= o]]

\* Every router knows every member; all groups, and consumers at router 1 and
\* at any other.
Converged ==
    UNION {{[source |-> s, group |-> m, pet |-> [n \in Node |-> m \ {n}],
             fib |-> g, bift |-> FirstHop(g), lossy |-> FALSE, settled |-> TRUE] :
               m \in SUBSET Node, s \in {f \in [Nonce -> Node] : f[x1] = 1}} : g \in {Diamond, Ring}}

\* Tables in transition: on the way to the members 4 and 5 any neighbour,
\* right or wrong, may be the next hop of a router, so that next hops loop.
Transient ==
    LET first == FirstHop(Diamond)
        hops(n, nbrs, dests) ==
            {h \in [Node -> Node \cup {None}] : \A d \in Node :
                IF d \in dests THEN h[d] \in nbrs ELSE h[d] = first[n][d]}
        scenario(b) ==
            [source |-> [x \in Nonce |-> IF x = x1 THEN 1 ELSE 2], group |-> {4, 5},
             pet |-> [n \in Node |-> {4, 5} \ {n}],
             fib |-> [n \in Node |-> [d \in Node |-> {b[n][d]} \ {None}]],
             bift |-> b, lossy |-> TRUE, settled |-> FALSE]
    IN  {scenario(<<b1, b2, b3, b4, first[5]>>) :
             b1 \in hops(1, {2, 3}, {5}), b2 \in hops(2, {1, 4}, {4, 5}),
             b3 \in hops(3, {1, 4}, {4, 5}), b4 \in hops(4, {2, 3, 5}, {5})}

AllScenarios == Converged \cup Transient
=============================================================================
