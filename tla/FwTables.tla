------------------------------ MODULE FwTables ------------------------------
(***************************************************************************)
(* The tables of a forwarder that management commands write and that a     *)
(* face leaves behind when it closes: the face table (fw/face/table.go),   *)
(* the RIB (fw/table/rib.go) with the FIB it is flattened into             *)
(* (fw/table/fib-strategy-tree.go) and the Prefix Egress Table             *)
(* (fw/table/pet.go).                                                      *)
(*                                                                         *)
(* A command that names a face checks the face and then writes, and        *)
(* Table.Remove runs on the thread of the face, between and around those   *)
(* two steps.  Each table is written under its own mutex.                  *)
(***************************************************************************)
EXTENDS Naturals, Sequences, FiniteSets, SequencesExt, FiniteSetsExt

CONSTANTS
    Component,
    RibName,    \* the names of rib commands
    FibName,    \* the names of fib commands
    PetName,    \* the names of pet commands
    Face,       \* face IDs, never used twice
    Router,
    Cost,
    Route       \* the routes of rib commands

ASSUME FwTablesAssumption ==
    /\ RibName \cup FibName \cup PetName \subseteq Seq(Component)
    /\ IsFiniteSet(RibName)
    /\ Cost \subseteq Nat
    /\ \A r \in Route : /\ r.face \in Face /\ r.cost \in Cost
                        /\ {r.inherit, r.capture} \subseteq BOOLEAN

VARIABLES
    stage,      \* of each face: see Stage
    rib,        \* name |-> the routes of its entry, in the order they were added
    nodes,      \* the names that have an entry in the RIB tree
    fib,        \* name |-> its next hops, face |-> cost
    pet,        \* name |-> its egress routers, next hops and multicast flag
    req         \* the commands checked and not yet carried out: one, or none

vars == <<stage, rib, nodes, fib, pet, req>>

Root == <<>>

\* Every name that may become a node of the RIB tree.
RibNode == {Root} \cup UNION {Prefixes(n) : n \in RibName}

FibNode == RibNode \cup FibName

\* In the table, deleted from it, its routes cleaned up, its PET next hops too.
Stage == {"new", "up", "deleted", "ribClean", "gone"}

NoEntry == [egress |-> {}, hops |-> {}, multicast |-> FALSE]

Below(n) == {m \in nodes : IsPrefix(n, m)}

-----------------------------------------------------------------------------
(***************************************************************************)
(* Flattening                                                              *)
(***************************************************************************)
\* The break at a capture route leaves the routes of that entry only.
Inheritable(routes) ==
    {routes[i] : i \in {j \in DOMAIN routes :
        /\ routes[j].inherit
        /\ \A k \in 1..(j - 1) : ~routes[k].capture}}

Flatten(table, n) ==
    LET own    == Range(table[n])
        usable == IF own = {} THEN {}
                  ELSE IF \E r \in own : r.capture THEN own
                  ELSE own \cup UNION {Inheritable(table[p]) :
                                        p \in {q \in RibNode : IsPrefix(q, n)}}
    IN  [f \in {r.face : r \in usable} |->
            Min({r.cost : r \in {s \in usable : s.face = f}})]

\* ClearNextHopsEnc leaves the root alone, so there the new hops join the old.
Replace(n, hops) ==
    IF n = Root
    THEN [f \in DOMAIN hops \cup DOMAIN fib[n] |->
            IF f \in DOMAIN hops THEN hops[f] ELSE fib[n][f]]
    ELSE hops

\* Faulty variant: the entries below are not updated.
UpdateOwnNexthops(table, tops) ==
    [n \in FibNode |-> IF n \in tops THEN Replace(n, Flatten(table, n)) ELSE fib[n]]

UpdateNexthops(table, tops) ==
    [n \in FibNode |-> IF n \in tops \cup UNION {Below(t) : t \in tops}
                       THEN Replace(n, Flatten(table, n)) ELSE fib[n]]

-----------------------------------------------------------------------------
(***************************************************************************)
(* The RIB                                                                 *)
(***************************************************************************)
SameRoute(r, face, origin) == r.face = face /\ r.origin = origin

AddEncRoute(n, route) ==
    LET at == {i \in DOMAIN rib[n] : SameRoute(rib[n][i], route.face, route.origin)}
    IN  /\ rib' = [rib EXCEPT ![n] = IF at = {} THEN Append(@, route)
                                     ELSE [i \in DOMAIN @ |-> IF i \in at THEN route ELSE @[i]]]
        /\ nodes' = nodes \cup Prefixes(n)
        /\ fib' = UpdateNexthops(rib', {n})

\* The routes without the one at place i, if there is one.
Without(routes, i) == IF i = 0 THEN routes ELSE RemoveAt(routes, i)

\* pruneIfEmpty unlinks the entry before it steps up: the ancestors stay.
Prunes(n, routes) == routes = <<>> /\ Below(n) = {n} /\ n # Root

RouteAt(routes, face, origin) == SelectInSeq(routes, LAMBDA r : SameRoute(r, face, origin))

RemoveRouteEnc(n, face, origin) ==
    /\ n \in nodes
    /\ rib' = [rib EXCEPT ![n] = Without(@, RouteAt(@, face, origin))]
    /\ nodes' = IF Prunes(n, rib'[n]) THEN nodes \ {n} ELSE nodes
    /\ fib' = UpdateNexthops(rib', {n})

FirstOf(routes, f) == SelectInSeq(routes, LAMBDA r : r.face = f)

\* Faulty variant: the face is removed from the topmost of its entries.
DropFaceTop(f) ==
    [n \in RibNode |->
        IF \E m \in RibNode \ {n} : IsPrefix(m, n) /\ FirstOf(rib[m], f) # 0 THEN rib[n]
        ELSE Without(rib[n], FirstOf(rib[n], f))]

\* cleanUpFace returns after the first route of the face in an entry.
DropFace(f) == [n \in RibNode |-> Without(rib[n], FirstOf(rib[n], f))]

\* The children of an entry are cleaned, pruned and updated before the entry,
\* so what stays is what the topmost changed entry writes last.
CleanUpFaceRib(f) ==
    LET changed == {n \in nodes : FirstOf(rib[n], f) # 0}
    IN  /\ rib' = DropFace(f)
        /\ nodes' = {n \in nodes : \/ n = Root
                                   \/ \E m \in Below(n) : m \notin changed \/ rib'[m] # <<>>}
        /\ fib' = UpdateNexthops(rib', changed)

-----------------------------------------------------------------------------
(***************************************************************************)
(* The PET                                                                 *)
(***************************************************************************)
\* An entry without egress routers and next hops is dropped, its flag with it.
Kept(entry) == IF entry.egress = {} /\ entry.hops = {} THEN NoEntry ELSE entry

AddEgressEnc(n, router, multicast) ==
    /\ pet' = [pet EXCEPT ![n].egress = @ \cup {router}, ![n].multicast = @ \/ multicast]
    /\ UNCHANGED <<stage, rib, nodes, fib, req>>

RemoveEgressEnc(n, router) ==
    /\ pet' = [pet EXCEPT ![n] = Kept([@ EXCEPT !.egress = @ \ {router}])]
    /\ UNCHANGED <<stage, rib, nodes, fib, req>>

RemoveNextHopEnc(n, f) ==
    /\ pet' = [pet EXCEPT ![n] = Kept([@ EXCEPT !.hops = @ \ {f}])]
    /\ UNCHANGED <<stage, rib, nodes, fib, req>>

-----------------------------------------------------------------------------
(***************************************************************************)
(* Faces                                                                   *)
(***************************************************************************)
Add(f) ==
    /\ stage[f] = "new"
    /\ stage' = [stage EXCEPT ![f] = "up"]
    /\ UNCHANGED <<rib, nodes, fib, pet, req>>

\* Table.Remove, one action per table.
Delete(f) ==
    /\ stage[f] = "up"
    /\ stage' = [stage EXCEPT ![f] = "deleted"]
    /\ UNCHANGED <<rib, nodes, fib, pet, req>>

CleanRib(f) ==
    /\ stage[f] = "deleted"
    /\ CleanUpFaceRib(f)
    /\ stage' = [stage EXCEPT ![f] = "ribClean"]
    /\ UNCHANGED <<pet, req>>

CleanPet(f) ==
    /\ stage[f] = "ribClean"
    /\ pet' = [n \in PetName |-> Kept([pet[n] EXCEPT !.hops = @ \ {f}])]
    /\ stage' = [stage EXCEPT ![f] = "gone"]
    /\ UNCHANGED <<rib, nodes, fib, req>>

-----------------------------------------------------------------------------
(***************************************************************************)
(* Management: one thread, so one command at a time                        *)
(***************************************************************************)
Request ==
    [cmd : {"register"}, name : RibName, route : Route]
        \cup [cmd : {"fib"}, name : FibName, face : Face, cost : Cost]
        \cup [cmd : {"pet"}, name : PetName, face : Face]

FaceOf(c) == IF c.cmd = "register" THEN c.route.face ELSE c.face

\* FaceTable.Get, or the receipt of a command for its own face.
CheckFace(c) ==
    /\ req = {}
    /\ stage[FaceOf(c)] = "up"
    /\ req' = {c}
    /\ UNCHANGED <<stage, rib, nodes, fib, pet>>

Register(c) ==
    /\ c.cmd = "register"
    /\ AddEncRoute(c.name, c.route)
    /\ req' = {}
    /\ UNCHANGED <<stage, pet>>

InsertNextHopEnc(c) ==
    /\ c.cmd = "fib"
    /\ fib' = [fib EXCEPT ![c.name] = [f \in DOMAIN @ \cup {c.face} |->
                                        IF f = c.face THEN c.cost ELSE @[f]]]
    /\ req' = {}
    /\ UNCHANGED <<stage, rib, nodes, pet>>

AddNextHopEnc(c) ==
    /\ c.cmd = "pet"
    /\ pet' = [pet EXCEPT ![c.name].hops = @ \cup {c.face}]
    /\ req' = {}
    /\ UNCHANGED <<stage, rib, nodes, fib>>

Unregister(n, f, origin) ==
    /\ req = {}
    /\ RemoveRouteEnc(n, f, origin)
    /\ UNCHANGED <<stage, pet, req>>

RemoveFibNextHop(n, f) ==
    /\ req = {}
    /\ fib' = [fib EXCEPT ![n] = [g \in DOMAIN @ \ {f} |-> @[g]]]
    /\ UNCHANGED <<stage, rib, nodes, pet, req>>

PetCommand(n) ==
    /\ req = {}
    /\ \/ \E r \in Router, m \in BOOLEAN : AddEgressEnc(n, r, m)
       \/ \E r \in Router : RemoveEgressEnc(n, r)
       \/ \E f \in Face : RemoveNextHopEnc(n, f)

-----------------------------------------------------------------------------
Init ==
    /\ stage = [f \in Face |-> "new"]
    /\ rib = [n \in RibNode |-> <<>>]
    /\ nodes = {Root}
    /\ fib = [n \in FibNode |-> <<>>]
    /\ pet = [n \in PetName |-> NoEntry]
    /\ req = {}

Next ==
    \/ \E f \in Face : Add(f) \/ Delete(f) \/ CleanRib(f) \/ CleanPet(f)
    \/ \E c \in Request : CheckFace(c)
    \/ \E c \in req : Register(c) \/ InsertNextHopEnc(c) \/ AddNextHopEnc(c)
    \/ \E n \in RibName, r \in Route : Unregister(n, r.face, r.origin)
    \/ \E n \in FibName, f \in Face : RemoveFibNextHop(n, f)
    \/ \E n \in PetName : PetCommand(n)

Spec == Init /\ [][Next]_vars

-----------------------------------------------------------------------------
(***************************************************************************)
(* Properties                                                              *)
(***************************************************************************)
\* After every command and every clean-up the FIB holds exactly the next hops
\* that the routes of a name and of the names above it flatten to, whichever
\* entry was changed last (updateNexthopsEnc).  The root's are never cleared,
\* and fib commands write theirs past the RIB.
FibFollowsRib == \A n \in RibNode \ (FibName \cup {Root}) : fib[n] = Flatten(rib, n)

OneRoutePerEntry(f) ==
    \A n \in RibNode : \A i, j \in DOMAIN rib[n] :
        rib[n][i].face = f /\ rib[n][j].face = f => i = j

\* When Rib.CleanUpFace returns, no entry has a route over the face, provided
\* that none had more than one, of different origins.
CleanUpRemovesFace ==
    [][\A f \in Face : /\ stage[f] = "deleted" /\ stage'[f] = "ribClean"
                       /\ OneRoutePerEntry(f)
            => \A n \in RibNode : FirstOf(rib'[n], f) = 0]_vars
=============================================================================
