--------------------------- MODULE GroupDelivery ----------------------------
(***************************************************************************)
(* What BIER forwarding promises a group (the header of                    *)
(* fw/bier_tests/bier_topo_test.go): after a consumer has expressed an     *)
(* Interest, the application of every other member gets it once.           *)
(***************************************************************************)
EXTENDS Naturals

CONSTANTS Node, Nonce

VARIABLES
    members,    \* Nonce -> the routers whose applications are to get it
    pending,    \* Interests not expressed yet
    delivered   \* Node -> nonce -> deliveries

vars == <<members, pending, delivered>>

Init ==
    /\ members \in [Nonce -> SUBSET Node]
    /\ pending = Nonce
    /\ delivered = [n \in Node |-> [x \in Nonce |-> 0]]

Express(x) ==
    /\ x \in pending
    /\ pending' = pending \ {x}
    /\ UNCHANGED <<members, delivered>>

Deliver(n, x) ==
    /\ x \notin pending
    /\ n \in members[x]
    /\ delivered[n][x] = 0
    /\ delivered' = [delivered EXCEPT ![n][x] = 1]
    /\ UNCHANGED <<members, pending>>

Next ==
    \/ \E x \in Nonce : Express(x)
    \/ \E n \in Node, x \in Nonce : Deliver(n, x)

Spec == Init /\ [][Next]_vars
=============================================================================
