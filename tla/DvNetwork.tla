----------------------------- MODULE DvNetwork ------------------------------
(***************************************************************************)
(* A network of distance vector routers (ndn-dv): each keeps a RIB with a  *)
(* cost per destination and neighbour, advertises its two lowest costs,    *)
(* applies its neighbours' advertisements and installs two next hops per   *)
(* destination in its FIB.                                                 *)
(*                                                                         *)
(* Everything that runs in one goroutine under the router's mutex is one   *)
(* action; what a goroutine starts with "go" is a job that runs later.     *)
(* Sync Interests are repeated by the heartbeat and fetches are retried,   *)
(* so a lost one only delays; the versions they carry are the subject of   *)
(* module DvAdvert.  A face is the neighbour at its other end: RecvPing's  *)
(* move of a known neighbour to another face, and its preference of active *)
(* pings over passive ones, are left out.                                  *)
(***************************************************************************)
EXTENDS DvRib, FiniteSets

CONSTANTS
    Dest,       \* the destinations looked at, routers themselves
    Links,      \* links that may exist, sets of two routers
    UpAtStart,  \* possible sets of links at the start
    MaxChanges, \* how often a link goes down or comes up
    None        \* no advertisement

VARIABLES
    up,         \* links that work
    changes,    \* link changes so far
    rib,        \* Node -> Dest -> cost table
    nbrs,       \* Node -> neighbour table
    stored,     \* Node -> neighbour -> its advertisement (ns.Advert) or None
    updates,    \* Node -> neighbours for which updateRib was started
    jobs,       \* Node -> jobs started by updateRib and the others
    fib,        \* Node -> Dest -> FIB entries
    advert      \* Node -> latest advertisement

vars == <<up, changes, rib, nbrs, stored, updates, jobs, fib, advert>>

\* updateFib alone; postUpdateRib before updateFib; postUpdateRib after it.
Job == {"fib", "post", "generate"}

AdvEntry == [hop1 : Node \cup {NoHop}, cost1 : Cost, cost2 : Cost]
Advertisement == [Dest -> AdvEntry]
FibEntry == [face : Node, cost : Cost]

ASSUME DvNetworkAssumption ==
    /\ Dest \subseteq Node
    /\ \A l \in Links : \E n, m \in Node : n # m /\ l = {n, m}
    /\ UpAtStart \subseteq SUBSET Links
    /\ MaxChanges \in Nat
    /\ None \notin Advertisement

----------------------------------------------------------------------------

\* Rib.Advert: the lowest cost with its next hop, and the second lowest cost.
AdvertOf(table) ==
    [d \in Dest |-> LET low == Refresh(table[d])
                    IN  [hop1 |-> low.hop1, cost1 |-> low.cost1, cost2 |-> low.cost2]]

\* GetFibEntries: up to two next hops that are in the neighbour table.
FibEntries(n, d, table, neighbours) ==
    LET low == Refresh(table[d])
    IN  IF d = n THEN {}
        ELSE {e \in {[face |-> low.hop1, cost |-> low.cost1],
                     [face |-> low.hop2, cost |-> low.cost2]} :
                 e.face \in neighbours /\ e.cost < Infinity}

FibOf(n, table, neighbours) == [d \in Dest |-> FibEntries(n, d, table, neighbours)]

\* Faulty variant: looks at the lowest cost only.
ChangedCost(old, new) == \E d \in Dest : Refresh(old[d]).cost1 # Refresh(new[d]).cost1

\* The return values of Set, RemoveNextHop and Prune together: some entry's
\* lowest costs or next hops changed.
Changed(old, new) == \E d \in Dest : Refresh(old[d]) # Refresh(new[d])

\* The RIB that holds only the router itself.
InitialRib(n) ==
    [d \in Dest |-> [k \in Node |-> IF d = n /\ k = n THEN 0 ELSE Infinity]]

Init ==
    /\ up \in UpAtStart
    /\ changes = 0
    /\ rib = [n \in Node |-> InitialRib(n)]
    /\ nbrs = [n \in Node |-> {}]
    /\ stored = [n \in Node |-> [m \in Node |-> None]]
    /\ updates = [n \in Node |-> {}]
    /\ jobs = [n \in Node |-> {}]
    /\ fib = [n \in Node |-> [d \in Dest |-> {}]]
    /\ advert = [n \in Node |-> AdvertOf(InitialRib(n))]

----------------------------------------------------------------------------
(* Actions of router n *)

\* A sync Interest of a router that is not in the neighbour table.
OnStateVector(n, m) ==
    /\ {n, m} \in up
    /\ m \notin nbrs[n]
    /\ nbrs' = [nbrs EXCEPT ![n] = @ \cup {m}]
    /\ jobs' = [jobs EXCEPT ![n] = @ \cup {"fib"}]
    /\ UNCHANGED <<up, changes, rib, stored, updates, fib, advert>>

\* The advertisement of neighbour m has been fetched.
DataHandler(n, m) ==
    /\ {n, m} \in up
    /\ m \in nbrs[n]
    /\ stored[n][m] # advert[m]
    /\ stored' = [stored EXCEPT ![n][m] = advert[m]]
    /\ updates' = [updates EXCEPT ![n] = @ \cup {m}]
    /\ UNCHANGED <<up, changes, rib, nbrs, jobs, fib, advert>>

\* Faulty variant: keeps the costs of destinations that the neighbour does
\* not reach any more.
ApplyAdvertMerge(n, m) ==
    [d \in Dest |-> [rib[n][d] EXCEPT ![m] =
        LET c == AdvertisedCost(n, stored[n][m][d])
        IN  IF c = Infinity THEN @ ELSE c]]

\* DirtyResetNextHop followed by Set for every advertised destination.
ApplyAdvert(n, m) ==
    [d \in Dest |-> [rib[n][d] EXCEPT ![m] = AdvertisedCost(n, stored[n][m][d])]]

UpdateRib(n, m) ==
    /\ m \in updates[n]
    /\ updates' = [updates EXCEPT ![n] = @ \ {m}]
    /\ rib' = [rib EXCEPT ![n] = ApplyAdvert(n, m)]
    /\ jobs' = [jobs EXCEPT ![n] =
                   IF Changed(rib[n], ApplyAdvert(n, m)) THEN @ \cup {"post"} ELSE @]
    /\ UNCHANGED <<up, changes, nbrs, stored, fib, advert>>

\* Faulty variant: leaves the routes of a dead neighbour in the RIB.
RemoveNextHopsNot(n, dead) == rib[n]

\* Rib.RemoveNextHop for every dead neighbour.
RemoveNextHops(n, dead) ==
    [d \in Dest |-> [k \in Node |-> IF k \in dead THEN Infinity ELSE rib[n][d][k]]]

\* The neighbours in dead have not been heard of for too long.  Their state
\* loses its advertisement, so a pending updateRib finds nothing to do.
CheckDeadNeighbors(n, dead) ==
    /\ dead # {}
    /\ nbrs' = [nbrs EXCEPT ![n] = @ \ dead]
    /\ stored' = [stored EXCEPT ![n] =
                     [m \in Node |-> IF m \in dead THEN None ELSE @[m]]]
    /\ updates' = [updates EXCEPT ![n] = @ \ dead]
    /\ rib' = [rib EXCEPT ![n] = RemoveNextHops(n, dead)]
    /\ jobs' = [jobs EXCEPT ![n] =
                   IF Changed(rib[n], RemoveNextHops(n, dead)) THEN @ \cup {"post"} ELSE @]
    /\ UNCHANGED <<up, changes, fib, advert>>

\* updateFib on its own, or as the first half of postUpdateRib.
UpdateFib(n, job) ==
    /\ job \in jobs[n] \cap {"fib", "post"}
    /\ fib' = [fib EXCEPT ![n] = FibOf(n, rib[n], nbrs[n])]
    /\ jobs' = [jobs EXCEPT ![n] =
                   (@ \ {job}) \cup (IF job = "post" THEN {"generate"} ELSE {})]
    /\ UNCHANGED <<up, changes, rib, nbrs, stored, updates, advert>>

\* The second half of postUpdateRib.
Generate(n) ==
    /\ "generate" \in jobs[n]
    /\ advert' = [advert EXCEPT ![n] = AdvertOf(rib[n])]
    /\ jobs' = [jobs EXCEPT ![n] = @ \ {"generate"}]
    /\ UNCHANGED <<up, changes, rib, nbrs, stored, updates, fib>>

\* A link goes down or comes up.
LinkChange(l) ==
    /\ changes < MaxChanges
    /\ changes' = changes + 1
    /\ up' = IF l \in up THEN up \ {l} ELSE up \cup {l}
    /\ UNCHANGED <<rib, nbrs, stored, updates, jobs, fib, advert>>

\* Neighbours whose link is down fall silent.
Silent(n) == {m \in nbrs[n] : {n, m} \notin up}

\* What router n does: the heartbeat repeats sync Interests, fetches are
\* retried, the dead check is periodic and goroutines run.
RouterStep(n) ==
    \/ \E m \in Node : OnStateVector(n, m) \/ DataHandler(n, m) \/ UpdateRib(n, m)
    \/ \E dead \in SUBSET Silent(n) : CheckDeadNeighbors(n, dead)
    \/ \E job \in Job : UpdateFib(n, job)
    \/ Generate(n)

Next == (\E n \in Node : RouterStep(n)) \/ (\E l \in Links : LinkChange(l))

\* No router stops; which of its goroutines runs next is left open.
Fairness == \A n \in Node : WF_vars(RouterStep(n))

Spec == Init /\ [][Next]_vars
FairSpec == Spec /\ Fairness

----------------------------------------------------------------------------
(* Properties *)

\* Every variable has its type.
TypeOK ==
    /\ up \in SUBSET Links
    /\ changes \in 0..MaxChanges
    /\ rib \in [Node -> [Dest -> CostTable]]
    /\ nbrs \in [Node -> SUBSET Node]
    /\ stored \in [Node -> [Node -> Advertisement \cup {None}]]
    /\ updates \in [Node -> SUBSET Node]
    /\ jobs \in [Node -> SUBSET Job]
    /\ fib \in [Node -> [Dest -> SUBSET FibEntry]]
    /\ advert \in [Node -> Advertisement]

\* The return values that decide whether postUpdateRib runs miss no change:
\* a router's latest advertisement is that of its RIB, or a new one is due.
AdvertFollowsRib ==
    \A n \in Node : \/ advert[n] = AdvertOf(rib[n])
                    \/ jobs[n] \cap {"post", "generate"} # {}

\* The same for the FIB, neighbours that were removed included.
FibFollowsRib ==
    \A n \in Node : \/ fib[n] = FibOf(n, rib[n], nbrs[n])
                    \/ jobs[n] \cap {"fib", "post"} # {}

\* A route is backed by the advertisement of a neighbour that is in the
\* neighbour table: a dead neighbour leaves nothing behind, even when one of
\* its advertisements is being applied.
RoutesFollowAdverts ==
    \A n, m \in Node : m \notin updates[n] /\ m # n =>
        \A d \in Dest :
            rib[n][d][m] = IF m \in nbrs[n] /\ stored[n][m] # None
                           THEN AdvertisedCost(n, stored[n][m][d]) ELSE Infinity

\* Routers within k links of d.
Within(d) ==
    LET ball[k \in Cost] ==
            IF k = 0 THEN {d}
            ELSE LET inner == ball[k - 1]
                 IN  inner \cup {n \in Node : \E m \in inner : {n, m} \in up}
    IN  ball

\* The length of a shortest path to d, Infinity where there is none.
Distances(d) ==
    LET ball == [k \in 0..(Infinity - 1) |-> Within(d)[k]]
    IN  [n \in Node |-> CHOOSE k \in Cost :
            /\ k < Infinity => n \in ball[k]
            /\ \A j \in 0..(k - 1) : n \notin ball[j]]

\* The best FIB entry leads one link closer; no entry where there is no path.
Routed(n, d, distance) ==
    IF distance[n] = Infinity THEN fib[n][d] = {}
    ELSE \E e \in fib[n][d] :
            /\ e.cost = distance[n]
            /\ {n, e.face} \in up /\ distance[e.face] + LocalCost = e.cost

\* After links stop changing the FIBs get to shortest paths, and routes to
\* destinations that became unreachable count up to infinity and go away.
Converges ==
    <>[](\A d \in Dest : LET distance == Distances(d)
                         IN  \A n \in Node \ {d} : Routed(n, d, distance))
=============================================================================
