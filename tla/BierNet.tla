------------------------------ MODULE BierNet -------------------------------
(***************************************************************************)
(* A network of forwarders that carry one Interest name, the name of a     *)
(* group whose members are the applications that registered the prefix.    *)
(* Every router runs the Interest pipeline of fw/fw/thread.go with the     *)
(* BIER strategy of fw/fw/bier_strategy.go: the ingress router encodes the *)
(* egress routers it knows into a bit string, every router delivers to its *)
(* own application, clears its bit and replicates the rest by its BIFT.    *)
(*                                                                         *)
(* A router's BFR-ID is the router itself and a face is the neighbour at   *)
(* its other end, so a bit string is a set of routers.  The tables are     *)
(* those of a finished rebuild (module Bift): one next hop per router,     *)
(* which makes the masks of the faces disjoint.  PIT entries live longer   *)
(* than an Interest travels, nothing is in the content stores, and the     *)
(* Interests carry no hop limit, forwarding hint or NextHopFaceId.         *)
(***************************************************************************)
EXTENDS Naturals, FiniteSets

CONSTANTS
    Node,       \* routers
    Nonce,      \* one Interest of one consumer each
    Scenarios,  \* initial tables: records with the fields of Scenario
    App,        \* the face of a router's application
    None        \* no router, no nonce

VARIABLES
    tables,     \* the scenario, which does not change
    inRecords,  \* Node -> face -> latest nonce or None
    outRecords, \* Node -> faces with an out-record
    deadNonces, \* Node -> nonces in the dead nonce list
    net,        \* packets under way
    pending,    \* Interests not expressed yet
    delivered   \* Node -> nonce -> deliveries to the application

vars == <<tables, inRecords, outRecords, deadNonces, net, pending, delivered>>

Face == Node \cup {App}
Packet == [from : Node, to : Node, nonce : Nonce, bier : SUBSET Node,
           egress : Node \cup {None}]

\* source: the router of each Interest's consumer; group: routers with a
\* member application; pet: the egress routers each router knows for the
\* prefix; fib: next hops to each router; bift: the next hop of each BFR-ID,
\* None where the table has none; lossy: whether a face may drop a packet;
\* settled: whether the tables are those of shortest paths, with ties broken
\* the same way everywhere.
Scenario == [source : [Nonce -> Node], group : SUBSET Node,
             pet : [Node -> SUBSET Node],
             fib : [Node -> [Node -> SUBSET Node]],
             bift : [Node -> [Node -> Node \cup {None}]],
             lossy : BOOLEAN, settled : BOOLEAN]

ASSUME BierNetAssumption ==
    /\ Scenarios \subseteq Scenario
    /\ None \notin Node \cup Nonce
    /\ App \notin Node

Init ==
    /\ tables \in Scenarios
    /\ inRecords = [n \in Node |-> [f \in Face |-> None]]
    /\ outRecords = [n \in Node |-> {}]
    /\ deadNonces = [n \in Node |-> {}]
    /\ net = {}
    /\ pending = Nonce
    /\ delivered = [n \in Node |-> [x \in Nonce |-> 0]]

----------------------------------------------------------------------------
(* Lookups *)

\* Faulty variant: asks the dead nonce list only.
LoopingDeadOnly(n, in, x) == x \in deadNonces[n]

\* The nonce is in the dead nonce list, or another face has it in the PIT.
Looping(n, in, x) ==
    \/ x \in deadNonces[n]
    \/ \E f \in Face \ {in} : inRecords[n][f] = x

\* twoPhaseLookup, network part: pairs of a next hop and its egress router.
NextNet(n, egress) ==
    IF egress = None
    THEN UNION {{<<h, e>> : h \in tables.fib[n][e]} : e \in tables.pet[n]}
    ELSE {<<h, egress>> : h \in IF egress = n THEN {} ELSE tables.fib[n][egress]}

\* The pairs that remain: not the incoming face, no face with an in-record.
AllowedNet(n, in, egress) ==
    {p \in NextNet(n, egress) : p[1] # in /\ inRecords[n][p[1]] = None}

\* The application takes the Interest unless it came from it or it has an
\* in-record of its own; the local bit plays no role.
AllowedLocal(n, in, egress) ==
    /\ n \in tables.group
    /\ egress \in {None, n}
    /\ in # App
    /\ inRecords[n][App] = None

\* The bits left after local delivery.
AfterLocal(n, in, bier, egress) ==
    IF AllowedLocal(n, in, egress) THEN bier \ {n} ELSE bier

\* Local delivery was all there was to do.
Captured(n, in, bier, egress) ==
    /\ AllowedLocal(n, in, egress)
    /\ AfterLocal(n, in, bier, egress) = {}

\* Faulty variant: encodes the next hops instead of the egress routers.
EncodeNextHops(n, in, bier, egress) ==
    LET pairs == AllowedNet(n, in, egress)
    IN  IF bier = {} /\ Cardinality(pairs) > 1 THEN {p[1] : p \in pairs} ELSE bier

\* The ingress router encodes the egress routers when it has several choices.
Encode(n, in, bier, egress) ==
    LET pairs == AllowedNet(n, in, egress)
    IN  IF bier = {} /\ Cardinality(pairs) > 1 THEN {p[2] : p \in pairs} ELSE bier

\* Faulty variant: copies the whole bit string to every neighbour in need.
CopiesUnmasked(n, in, x, bier) ==
    LET fbm(f) == {d \in Node : tables.bift[n][d] = f}
    IN  {[from |-> n, to |-> f, nonce |-> x, bier |-> bier \ {n}, egress |-> None] :
            f \in {g \in Node \ {in} : (bier \ {n}) \cap fbm(g) # {}}}

\* bierReplicate with disjoint masks: one copy per neighbour with bits to
\* reach, never back; copies carry no egress router.
Copies(n, in, x, bier) ==
    LET fbm(f) == {d \in Node : tables.bift[n][d] = f}
        mask(f) == (bier \ {n}) \cap fbm(f)
    IN  {[from |-> n, to |-> f, nonce |-> x, bier |-> mask(f), egress |-> None] :
            f \in {g \in Node \ {in} : mask(g) # {}}}

----------------------------------------------------------------------------
(* The Interest pipeline of router n for nonce x arriving on face in; rest  *)
(* is the network without the arriving packet.                              *)

\* In-record; a retransmission's previous nonce goes to the dead nonce list.
Record(n, in, x) ==
    /\ inRecords' = [inRecords EXCEPT ![n][in] = x]
    /\ deadNonces' = [deadNonces EXCEPT ![n] = @ \cup ({inRecords[n][in]} \ {None})]

\* Delivery to the application, when it is allowed.
Deliver(n, in, x, egress) ==
    delivered' = [delivered EXCEPT ![n][x] =
                     IF AllowedLocal(n, in, egress) THEN @ + 1 ELSE @]

DropLooping(n, in, x, rest) ==
    /\ Looping(n, in, x)
    /\ net' = rest
    /\ UNCHANGED <<inRecords, outRecords, deadNonces, delivered>>

\* Delivered and done, or nowhere to go.
Finish(n, in, x, bier, egress, rest) ==
    /\ ~Looping(n, in, x)
    /\ \/ Captured(n, in, bier, egress)
       \/ AllowedNet(n, in, egress) = {}
    /\ Record(n, in, x)
    /\ Deliver(n, in, x, egress)
    /\ net' = rest
    /\ outRecords' = [outRecords EXCEPT ![n] = @ \cup
                         (IF AllowedLocal(n, in, egress) THEN {App} ELSE {})]

\* BIER strategy, on the bit string that arrived or was encoded here.
Replicate(n, in, x, bier, egress, rest) ==
    LET bits == Encode(n, in, AfterLocal(n, in, bier, egress), egress)
        copies == Copies(n, in, x, bits)
    IN  /\ ~Looping(n, in, x)
        /\ ~Captured(n, in, bier, egress)
        /\ AllowedNet(n, in, egress) # {}
        /\ bits # {}
        /\ Record(n, in, x)
        /\ Deliver(n, in, x, egress)
        /\ net' = rest \cup copies
        /\ outRecords' = [outRecords EXCEPT ![n] =
              @ \cup {c.to : c \in copies}
                \cup (IF AllowedLocal(n, in, egress) THEN {App} ELSE {})]

\* Best-route strategy on the only next hop, tagged with its egress router;
\* an out-record suppresses it, or does not when it is older than the
\* suppression time.
Unicast(n, in, x, bier, egress, rest) ==
    LET bits == Encode(n, in, AfterLocal(n, in, bier, egress), egress)
    IN  /\ ~Looping(n, in, x)
        /\ ~Captured(n, in, bier, egress)
        /\ bits = {}
        /\ Record(n, in, x)
        /\ \E p \in AllowedNet(n, in, egress) :
              \/ /\ net' = rest \cup {[from |-> n, to |-> p[1], nonce |-> x,
                                       bier |-> {}, egress |-> p[2]]}
                 /\ outRecords' = [outRecords EXCEPT ![n] = @ \cup {p[1]}]
              \/ /\ p[1] \in outRecords[n]
                 /\ net' = rest
                 /\ UNCHANGED outRecords
        /\ UNCHANGED delivered

ProcessIncomingInterest(n, in, x, bier, egress, rest) ==
    \/ DropLooping(n, in, x, rest)
    \/ Finish(n, in, x, bier, egress, rest)
    \/ Replicate(n, in, x, bier, egress, rest)
    \/ Unicast(n, in, x, bier, egress, rest)

----------------------------------------------------------------------------

\* A consumer expresses its Interest at its router.
Express(x) ==
    /\ x \in pending
    /\ pending' = pending \ {x}
    /\ ProcessIncomingInterest(tables.source[x], App, x, {}, None, net)
    /\ UNCHANGED tables

\* A router takes a packet off the wire; packets overtake one another.
Receive(p) ==
    /\ p \in net
    /\ ProcessIncomingInterest(p.to, p.from, p.nonce, p.bier, p.egress, net \ {p})
    /\ UNCHANGED <<tables, pending>>

\* A full queue drops a packet.
Drop(p) ==
    /\ tables.lossy
    /\ p \in net
    /\ net' = net \ {p}
    /\ UNCHANGED <<tables, inRecords, outRecords, deadNonces, pending, delivered>>

Next ==
    \/ \E x \in Nonce : Express(x)
    \/ \E p \in net : Receive(p)
    \/ \E p \in net : Drop(p)

Fairness ==
    /\ \A x \in Nonce : WF_vars(Express(x))
    /\ WF_vars(\E p \in net : Receive(p))

Spec == Init /\ [][Next]_vars
FairSpec == Spec /\ Fairness

----------------------------------------------------------------------------
(* Properties *)

\* Every variable has its type.
TypeOK ==
    /\ tables \in Scenarios
    /\ inRecords \in [Node -> [Face -> Nonce \cup {None}]]
    /\ outRecords \in [Node -> SUBSET Face]
    /\ deadNonces \in [Node -> SUBSET Nonce]
    /\ net \subseteq Packet
    /\ pending \subseteq Nonce
    /\ delivered \in [Node -> [Nonce -> Nat]]

\* However wrong the tables are, loops of next hops included, the network
\* delivers an Interest only after it was expressed, only to members other
\* than the consumer's router, and at most once: the PIT, the dead nonce list
\* and the bit strings stop every other copy.
Service ==
    INSTANCE GroupDelivery WITH
        members <- [x \in Nonce |-> tables.group \ {tables.source[x]}]
ImplementsGroupDelivery == Service!Spec

\* Replication over any number of hops never makes two copies that both
\* travel to the same egress router.
EachBitCarriedOnce ==
    \A p, q \in net : p # q /\ p.nonce = q.nonce => p.bier \cap q.bier = {}

\* With settled tables and faces that lose nothing, every member's application
\* gets an Interest, by BIER or by the only egress router's name, even when two
\* consumers ask at the same time and routers between them take one Interest
\* for the other's retransmission.
AllMembersReached ==
    \A n \in Node :
        <>(/\ tables.settled /\ ~tables.lossy
           /\ n \in tables.group \ {tables.source[x] : x \in Nonce}
           => \E x \in Nonce : delivered[n][x] = 1)

=============================================================================
