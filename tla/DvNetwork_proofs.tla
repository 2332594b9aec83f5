-------------------------- MODULE DvNetwork_proofs --------------------------
(***************************************************************************)
(* Proofs about DvNetwork for any number of routers, any links and any     *)
(* value of CostInfinity, and about the loop of refresh (RibRefresh).      *)
(*                                                                         *)
(* AdvertFollowsRib and FibFollowsRib are inductive by what Changed says:  *)
(* when it is false no entry has other lowest costs, so neither the        *)
(* advertisement nor the FIB is another one.  Removing a dead neighbour    *)
(* also changes the neighbour table, but then it is a next hop no more.    *)
(* RoutesFollowAdverts needs that updateRib is pending only for neighbours *)
(* in the table whose advertisement is known.                              *)
(***************************************************************************)
EXTENDS DvNetwork, WellFoundedInduction, TLAPS

\* A set of naturals has a least element.
LEMMA LeastNatural ==
    ASSUME NEW T \in SUBSET Nat, T # {}
    PROVE  \E x \in T : \A y \in T : x <= y
<1> DEFINE R == OpToRel(<, Nat)
<1>1. IsWellFoundedOn(R, Nat)
  BY NatLessThanWellFounded
<1>2. \A a, b \in Nat : a < b => <<a, b>> \in R
  BY DEF OpToRel
<1> HIDE DEF R
<1>3. PICK x \in T : \A y \in T : ~(<<y, x>> \in R)
  BY <1>1, WFMin
<1>4. ASSUME NEW y \in T PROVE x <= y
  <2>1. x \in Nat /\ y \in Nat /\ ~(y < x)
    BY <1>2, <1>3
  <2>2. QED
    BY <2>1
<1>5. QED
  BY <1>4

\* Where some next hop reaches the destination there is a best one.
LEMMA BestExists ==
    ASSUME NEW c \in CostTable, NEW S \in SUBSET Node,
           ~\A k \in S : c[k] = Infinity
    PROVE  \E h \in S : IsBest(c, S, h)
<1>1. \A k \in S : k \in Nat /\ c[k] \in Nat /\ c[k] <= Infinity
  BY DvRibAssumption DEF CostTable, Cost
<1> DEFINE values == {c[k] : k \in S}
<1>2. PICK v \in values : \A w \in values : v <= w
  <2>1. values \in SUBSET Nat /\ values # {}
    BY <1>1
  <2> HIDE DEF values
  <2>2. QED
    BY <2>1, LeastNatural
<1>3. v \in Nat /\ v < Infinity /\ \A k \in S : v <= c[k]
  BY <1>1, <1>2, DvRibAssumption
<1> DEFINE hops == {k \in S : c[k] = v}
<1>4. PICK h \in hops : \A k \in hops : h <= k
  <2>1. hops \in SUBSET Nat /\ hops # {}
    BY <1>1, <1>2
  <2> HIDE DEF hops
  <2>2. QED
    BY <2>1, LeastNatural
<1>5. ASSUME NEW k \in S \ {h}
      PROVE  Precedes(c, h, k)
  <2>1. h \in S /\ c[h] = v /\ h \in Nat /\ k \in Nat /\ c[k] \in Nat /\ v <= c[k] /\ h # k
    BY <1>1, <1>3
  <2>2. c[k] = v => h <= k
    BY <1>4
  <2>3. QED
    BY <1>3, <2>1, <2>2 DEF Precedes
<1>6. QED
  BY <1>3, <1>4, <1>5 DEF IsBest

\* What refresh returns.
LEMMA RefreshType ==
    ASSUME NEW c \in CostTable
    PROVE  /\ Refresh(c) \in Lowest
           /\ Refresh(c).cost1 < Infinity =>
                 Refresh(c).hop1 \in Node /\ c[Refresh(c).hop1] = Refresh(c).cost1
           /\ Refresh(c).cost2 < Infinity =>
                 Refresh(c).hop2 \in Node /\ c[Refresh(c).hop2] = Refresh(c).cost2
<1> DEFINE h1 == BestHop(c, Node)
           h2 == BestHop(c, Node \ {h1})
<1>1. ASSUME NEW S \in SUBSET Node
      PROVE  BestHop(c, S) \in Node \cup {NoHop}
  <2>1. CASE \A k \in S : c[k] = Infinity
    BY <2>1 DEF BestHop
  <2>2. CASE ~\A k \in S : c[k] = Infinity
    BY <2>2, BestExists DEF BestHop
  <2>3. QED
    BY <2>1, <2>2
<1>2. h1 \in Node \cup {NoHop}
  BY <1>1
<1>3. h2 \in Node \cup {NoHop}
  <2> HIDE DEF h1
  <2>1. Node \ {h1} \in SUBSET Node
    OBVIOUS
  <2>2. QED
    BY <1>1, <2>1
<1>4. ASSUME NEW h \in Node \cup {NoHop}
      PROVE  /\ CostOf(c, h) \in Cost
             /\ CostOf(c, h) < Infinity => h \in Node /\ c[h] = CostOf(c, h)
  BY DvRibAssumption DEF CostOf, CostTable, Cost, NoHop
<1>5. Refresh(c) = [hop1 |-> h1, cost1 |-> CostOf(c, h1),
                    hop2 |-> h2, cost2 |-> CostOf(c, h2)]
  BY DEF Refresh
<1> HIDE DEF h1, h2
<1>6. QED
  BY <1>2, <1>3, <1>4, <1>5 DEF Lowest

\* What a router advertises is an advertisement.
LEMMA AdvertType ==
    ASSUME NEW table \in [Dest -> CostTable]
    PROVE  AdvertOf(table) \in Advertisement
<1>1. \A d \in Dest : Refresh(table[d]) \in Lowest
  BY RefreshType
<1>2. ASSUME NEW low \in Lowest
      PROVE  [hop1 |-> low.hop1, cost1 |-> low.cost1, cost2 |-> low.cost2] \in AdvEntry
  BY DEF Lowest, AdvEntry
<1>3. QED
  BY <1>1, <1>2 DEF AdvertOf, Advertisement

\* An advertised cost is a cost.
LEMMA AdvertisedCostType ==
    ASSUME NEW n, NEW e \in AdvEntry
    PROVE  AdvertisedCost(n, e) \in Cost
  BY DvRibAssumption DEF AdvEntry, AdvertisedCost, Cost, LocalCost

\* The FIB of a router is a FIB.
LEMMA FibType ==
    ASSUME NEW n \in Node, NEW table \in [Dest -> CostTable], NEW S \in SUBSET Node
    PROVE  FibOf(n, table, S) \in [Dest -> SUBSET FibEntry]
<1>1. ASSUME NEW d \in Dest
      PROVE  FibEntries(n, d, table, S) \in SUBSET FibEntry
  <2>1. Refresh(table[d]) \in Lowest
    BY RefreshType
  <2>2. Refresh(table[d]).cost1 \in Cost /\ Refresh(table[d]).cost2 \in Cost
    BY <2>1 DEF Lowest
  <2>3. QED
    BY <2>2 DEF FibEntries, FibEntry
<1>2. QED
  BY <1>1 DEF FibOf

----------------------------------------------------------------------------

\* updateRib is pending only for a neighbour with an advertisement.
UpdatesBacked ==
    \A n \in Node : \A m \in updates[n] : m \in nbrs[n] /\ stored[n][m] # None

\* Only neighbours have advertisements.
StoredBacked == \A n, m \in Node : stored[n][m] # None => m \in nbrs[n]

DvInv ==
    /\ TypeOK
    /\ AdvertFollowsRib
    /\ FibFollowsRib
    /\ UpdatesBacked /\ StoredBacked
    /\ RoutesFollowAdverts

\* No route of the table goes through the routers in dead.
Avoids(table, dead) == \A d \in Dest : \A k \in dead : table[d][k] = Infinity

\* A RIB change that Changed does not report changes no advertisement and no
\* FIB, even when next hops whose cost is now infinite leave the table.
LEMMA UnchangedMeansSame ==
    ASSUME NEW n \in Node, NEW old \in [Dest -> CostTable],
           NEW new \in [Dest -> CostTable], ~Changed(old, new),
           NEW S, NEW dead, Avoids(new, dead)
    PROVE  /\ AdvertOf(new) = AdvertOf(old)
           /\ FibOf(n, new, S \ dead) = FibOf(n, old, S)
<1>1. \A d \in Dest : Refresh(old[d]) = Refresh(new[d])
  BY DEF Changed
<1>2. AdvertOf(new) = AdvertOf(old)
  BY <1>1 DEF AdvertOf
<1>3. ASSUME NEW d \in Dest
      PROVE  FibEntries(n, d, new, S \ dead) = FibEntries(n, d, old, S)
  <2> DEFINE low == Refresh(new[d])
  <2>1. /\ low.cost1 < Infinity => new[d][low.hop1] < Infinity
        /\ low.cost2 < Infinity => new[d][low.hop2] < Infinity
    BY RefreshType
  <2>2. \A k \in dead : ~(new[d][k] < Infinity)
    BY DvRibAssumption DEF Avoids
  <2>3. /\ low.cost1 < Infinity => low.hop1 \notin dead
        /\ low.cost2 < Infinity => low.hop2 \notin dead
    BY <2>1, <2>2
  <2>4. Refresh(old[d]) = low
    BY <1>1
  <2> HIDE DEF low
  <2> DEFINE both == {[face |-> low.hop1, cost |-> low.cost1],
                      [face |-> low.hop2, cost |-> low.cost2]}
  <2>5. \A e \in both : e.cost < Infinity => e.face \notin dead
    BY <2>3
  <2>6. {e \in both : e.face \in S \ dead /\ e.cost < Infinity} =
        {e \in both : e.face \in S /\ e.cost < Infinity}
    BY <2>5
  <2>7. QED
    BY <2>4, <2>6 DEF FibEntries, low
<1>4. QED
  BY <1>2, <1>3 DEF FibOf

\* The initial states.
LEMMA DvInit == Init => DvInv
<1> SUFFICES ASSUME Init PROVE DvInv
  OBVIOUS
<1>1. \A n \in Node : InitialRib(n) \in [Dest -> CostTable]
  BY DvRibAssumption DEF InitialRib, CostTable, Cost
<1>2. TypeOK
  <2>1. advert \in [Node -> Advertisement]
    BY <1>1, AdvertType DEF Init
  <2>2. up \in SUBSET Links /\ changes \in 0..MaxChanges
    BY DvNetworkAssumption DEF Init
  <2>3. QED
    BY <1>1, <2>1, <2>2 DEF Init, TypeOK
<1>3. AdvertFollowsRib
  BY DEF Init, AdvertFollowsRib
<1>4. FibFollowsRib
  <2>1. ASSUME NEW n \in Node, NEW d \in Dest
        PROVE  FibEntries(n, d, rib[n], {}) = {}
    BY DEF FibEntries
  <2>2. QED
    BY <2>1 DEF Init, FibFollowsRib, FibOf
<1>5. UpdatesBacked /\ StoredBacked
  BY DEF Init, UpdatesBacked, StoredBacked
<1>6. RoutesFollowAdverts
  BY DEF Init, RoutesFollowAdverts, InitialRib
<1>7. QED
  BY <1>2, <1>3, <1>4, <1>5, <1>6 DEF DvInv

\* A new neighbour.
LEMMA OnStateVectorKeeps ==
    ASSUME DvInv, NEW n \in Node, NEW m \in Node, OnStateVector(n, m)
    PROVE  DvInv'
<1> USE DEF DvInv, TypeOK, OnStateVector
<1>1. TypeOK'
  BY DEF Job
<1>2. AdvertFollowsRib'
  BY DEF AdvertFollowsRib
<1>3. FibFollowsRib'
  BY DEF FibFollowsRib
<1>4. UpdatesBacked' /\ StoredBacked'
  BY DEF UpdatesBacked, StoredBacked
<1>5. RoutesFollowAdverts'
  BY DEF RoutesFollowAdverts, StoredBacked
<1>6. QED
  BY <1>1, <1>2, <1>3, <1>4, <1>5

\* A fetched advertisement.
LEMMA DataHandlerKeeps ==
    ASSUME DvInv, NEW n \in Node, NEW m \in Node, DataHandler(n, m)
    PROVE  DvInv'
<1> USE DEF DvInv, TypeOK, DataHandler
<1>1. TypeOK'
  OBVIOUS
<1>2. AdvertFollowsRib' /\ FibFollowsRib'
  BY DEF AdvertFollowsRib, FibFollowsRib
<1>3. advert[m] # None
  BY DvNetworkAssumption
<1>4. UpdatesBacked' /\ StoredBacked'
  BY <1>3 DEF UpdatesBacked, StoredBacked
<1>5. RoutesFollowAdverts'
  BY DEF RoutesFollowAdverts
<1>6. QED
  BY <1>1, <1>2, <1>4, <1>5

\* Applying an advertisement.
LEMMA UpdateRibKeeps ==
    ASSUME DvInv, NEW n \in Node, NEW m \in Node, UpdateRib(n, m)
    PROVE  DvInv'
<1> DEFINE new == ApplyAdvert(n, m)
<1>1. m \in nbrs[n] /\ stored[n][m] \in Advertisement
  BY DEF DvInv, TypeOK, UpdateRib, UpdatesBacked
<1>2. \A d \in Dest : AdvertisedCost(n, stored[n][m][d]) \in Cost
  BY <1>1, AdvertisedCostType DEF Advertisement
<1>3. new \in [Dest -> CostTable]
  BY <1>2 DEF DvInv, TypeOK, ApplyAdvert, CostTable
<1>4. /\ \A d \in Dest : new[d][m] = AdvertisedCost(n, stored[n][m][d])
      /\ \A d \in Dest, k \in Node \ {m} : new[d][k] = rib[n][d][k]
  BY DEF DvInv, TypeOK, ApplyAdvert, CostTable
<1>5. /\ rib' = [rib EXCEPT ![n] = new]
      /\ updates' = [updates EXCEPT ![n] = @ \ {m}]
      /\ jobs' = [jobs EXCEPT ![n] = IF Changed(rib[n], new) THEN @ \cup {"post"} ELSE @]
      /\ UNCHANGED <<up, changes, nbrs, stored, fib, advert>>
  BY DEF UpdateRib
<1> HIDE DEF new
<1>6. TypeOK'
  BY <1>3, <1>5 DEF DvInv, TypeOK, Job
<1>7. ASSUME Changed(rib[n], new)
      PROVE  AdvertFollowsRib' /\ FibFollowsRib'
  <2>1. "post" \in jobs'[n] /\ \A k \in Node : jobs[k] \subseteq jobs'[k]
    BY <1>5, <1>7 DEF DvInv, TypeOK
  <2>2. AdvertFollowsRib' /\ FibFollowsRib'
    BY <1>5, <2>1 DEF DvInv, TypeOK, AdvertFollowsRib, FibFollowsRib
  <2>3. QED
    BY <2>2
<1>8. ASSUME ~Changed(rib[n], new)
      PROVE  AdvertFollowsRib' /\ FibFollowsRib'
  <2>1. jobs' = jobs
    BY <1>5, <1>8 DEF DvInv, TypeOK
  <2>2. rib[n] \in [Dest -> CostTable]
    BY DEF DvInv, TypeOK
  <2>3. /\ AdvertOf(new) = AdvertOf(rib[n])
        /\ FibOf(n, new, nbrs[n]) = FibOf(n, rib[n], nbrs[n])
    <3>1. ASSUME NEW S
          PROVE  AdvertOf(new) = AdvertOf(rib[n]) /\ FibOf(n, new, S) = FibOf(n, rib[n], S)
      <4>1. Avoids(new, {})
        BY DEF Avoids
      <4>2. AdvertOf(new) = AdvertOf(rib[n]) /\ FibOf(n, new, S \ {}) = FibOf(n, rib[n], S)
        BY <1>3, <1>8, <2>2, <4>1, UnchangedMeansSame
      <4>3. S \ {} = S
        OBVIOUS
      <4>4. QED
        BY <4>2, <4>3
    <3>2. QED
      BY <3>1
  <2>4. AdvertFollowsRib' /\ FibFollowsRib'
    BY <1>5, <2>1, <2>3 DEF DvInv, TypeOK, AdvertFollowsRib, FibFollowsRib
  <2>5. QED
    BY <2>4
<1>9. UpdatesBacked' /\ StoredBacked'
  BY <1>5 DEF DvInv, TypeOK, UpdatesBacked, StoredBacked
<1>10. RoutesFollowAdverts'
  <2> SUFFICES ASSUME NEW a \in Node, NEW k \in Node, k \notin updates'[a], k # a,
                      NEW d \in Dest
               PROVE  rib'[a][d][k] = IF k \in nbrs[a] /\ stored[a][k] # None
                                      THEN AdvertisedCost(a, stored[a][k][d]) ELSE Infinity
    BY <1>5 DEF RoutesFollowAdverts
  <2>1. CASE a = n /\ k = m
    <3>1. stored[n][m] # None
      BY <1>1, DvNetworkAssumption
    <3>2. rib'[n] = new
      BY <1>5 DEF DvInv, TypeOK
    <3>3. QED
      BY <1>1, <1>4, <2>1, <3>1, <3>2
  <2>2. CASE ~(a = n /\ k = m)
    <3>1. rib'[a][d][k] = rib[a][d][k] /\ k \notin updates[a]
      BY <1>4, <1>5, <2>2 DEF DvInv, TypeOK
    <3>2. QED
      BY <3>1 DEF DvInv, RoutesFollowAdverts
  <2>3. QED
    BY <2>1, <2>2
<1>11. QED
  BY <1>6, <1>7, <1>8, <1>9, <1>10 DEF DvInv

\* Removing dead neighbours.
LEMMA CheckDeadKeeps ==
    ASSUME DvInv, NEW n \in Node, NEW dead \in SUBSET Silent(n),
           CheckDeadNeighbors(n, dead)
    PROVE  DvInv'
<1> DEFINE new == RemoveNextHops(n, dead)
<1>1. dead \subseteq nbrs[n] /\ dead \subseteq Node
  BY DEF Silent, DvInv, TypeOK
<1>2. new \in [Dest -> CostTable]
  BY DvRibAssumption DEF DvInv, TypeOK, RemoveNextHops, CostTable, Cost
<1>3. Avoids(new, dead)
  BY <1>1 DEF Avoids, RemoveNextHops
<1>4. \A d \in Dest, k \in Node \ dead : new[d][k] = rib[n][d][k]
  BY DEF RemoveNextHops
<1>5. /\ nbrs' = [nbrs EXCEPT ![n] = @ \ dead]
      /\ stored' = [stored EXCEPT ![n] =
                       [m \in Node |-> IF m \in dead THEN None ELSE @[m]]]
      /\ updates' = [updates EXCEPT ![n] = @ \ dead]
      /\ rib' = [rib EXCEPT ![n] = new]
      /\ jobs' = [jobs EXCEPT ![n] = IF Changed(rib[n], new) THEN @ \cup {"post"} ELSE @]
      /\ UNCHANGED <<up, changes, fib, advert>>
  BY DEF CheckDeadNeighbors
<1> HIDE DEF new
<1>6. /\ rib'[n] = new /\ nbrs'[n] = nbrs[n] \ dead /\ updates'[n] = updates[n] \ dead
      /\ \A m \in Node : stored'[n][m] = IF m \in dead THEN None ELSE stored[n][m]
      /\ \A a \in Node \ {n} : /\ rib'[a] = rib[a] /\ nbrs'[a] = nbrs[a]
                                /\ updates'[a] = updates[a] /\ stored'[a] = stored[a]
  BY <1>5 DEF DvInv, TypeOK
<1>7. TypeOK'
  <2>1. stored' \in [Node -> [Node -> Advertisement \cup {None}]]
    BY <1>5 DEF DvInv, TypeOK
  <2>2. jobs' \in [Node -> SUBSET Job]
    BY <1>5 DEF DvInv, TypeOK, Job
  <2>3. QED
    BY <1>2, <1>5, <2>1, <2>2 DEF DvInv, TypeOK
<1>8. ASSUME Changed(rib[n], new)
      PROVE  AdvertFollowsRib' /\ FibFollowsRib'
  <2>1. "post" \in jobs'[n] /\ \A k \in Node : jobs[k] \subseteq jobs'[k]
    BY <1>5, <1>8 DEF DvInv, TypeOK
  <2>2. QED
    BY <1>5, <1>6, <2>1 DEF DvInv, AdvertFollowsRib, FibFollowsRib
<1>9. ASSUME ~Changed(rib[n], new)
      PROVE  AdvertFollowsRib' /\ FibFollowsRib'
  <2>1. jobs' = jobs
    BY <1>5, <1>9 DEF DvInv, TypeOK
  <2>2. rib[n] \in [Dest -> CostTable]
    BY DEF DvInv, TypeOK
  <2>3. /\ AdvertOf(new) = AdvertOf(rib[n])
        /\ FibOf(n, new, nbrs[n] \ dead) = FibOf(n, rib[n], nbrs[n])
    BY <1>2, <1>3, <1>9, <2>2, UnchangedMeansSame
  <2>4. QED
    BY <1>5, <1>6, <2>1, <2>3 DEF DvInv, AdvertFollowsRib, FibFollowsRib
<1>10. UpdatesBacked' /\ StoredBacked'
  <2>1. UpdatesBacked'
    <3> SUFFICES ASSUME NEW a \in Node, NEW m \in updates'[a]
                 PROVE  m \in nbrs'[a] /\ stored'[a][m] # None
      BY DEF UpdatesBacked
    <3>1. m \in updates[a] /\ (a = n => m \notin dead)
      BY <1>6
    <3>2. m \in nbrs[a] /\ stored[a][m] # None /\ m \in Node
      BY <3>1 DEF DvInv, TypeOK, UpdatesBacked
    <3>3. QED
      BY <1>6, <3>1, <3>2
  <2>2. StoredBacked'
    BY <1>6 DEF DvInv, StoredBacked
  <2>3. QED
    BY <2>1, <2>2
<1>11. RoutesFollowAdverts'
  <2> SUFFICES ASSUME NEW a \in Node, NEW k \in Node, k \notin updates'[a], k # a,
                      NEW d \in Dest
               PROVE  rib'[a][d][k] = IF k \in nbrs'[a] /\ stored'[a][k] # None
                                      THEN AdvertisedCost(a, stored'[a][k][d]) ELSE Infinity
    BY DEF RoutesFollowAdverts
  <2>1. CASE a = n /\ k \in dead
    BY <1>3, <1>6, <2>1 DEF Avoids
  <2>2. CASE ~(a = n /\ k \in dead)
    <3>1. /\ rib'[a][d][k] = rib[a][d][k] /\ k \notin updates[a]
          /\ stored'[a][k] = stored[a][k] /\ (k \in nbrs'[a] <=> k \in nbrs[a])
      BY <1>4, <1>6, <2>2
    <3>2. QED
      BY <3>1 DEF DvInv, RoutesFollowAdverts
  <2>3. QED
    BY <2>1, <2>2
<1>12. QED
  BY <1>7, <1>8, <1>9, <1>10, <1>11 DEF DvInv

\* A FIB update.
LEMMA UpdateFibKeeps ==
    ASSUME DvInv, NEW n \in Node, NEW job \in Job, UpdateFib(n, job)
    PROVE  DvInv'
<1>1. FibOf(n, rib[n], nbrs[n]) \in [Dest -> SUBSET FibEntry]
  BY FibType DEF DvInv, TypeOK
<1>2. TypeOK'
  BY <1>1 DEF DvInv, TypeOK, UpdateFib, Job
<1>3. AdvertFollowsRib'
  BY DEF DvInv, TypeOK, UpdateFib, AdvertFollowsRib
<1>4. FibFollowsRib'
  BY DEF DvInv, TypeOK, UpdateFib, FibFollowsRib
<1>5. UpdatesBacked' /\ StoredBacked' /\ RoutesFollowAdverts'
  BY DEF DvInv, UpdateFib, UpdatesBacked, StoredBacked, RoutesFollowAdverts
<1>6. QED
  BY <1>2, <1>3, <1>4, <1>5 DEF DvInv

\* A new advertisement.
LEMMA GenerateKeeps ==
    ASSUME DvInv, NEW n \in Node, Generate(n)
    PROVE  DvInv'
<1>1. AdvertOf(rib[n]) \in Advertisement
  BY AdvertType DEF DvInv, TypeOK
<1>2. TypeOK'
  BY <1>1 DEF DvInv, TypeOK, Generate
<1>3. AdvertFollowsRib'
  BY DEF DvInv, TypeOK, Generate, AdvertFollowsRib
<1>4. FibFollowsRib'
  BY DEF DvInv, TypeOK, Generate, FibFollowsRib
<1>5. UpdatesBacked' /\ StoredBacked' /\ RoutesFollowAdverts'
  BY DEF DvInv, Generate, UpdatesBacked, StoredBacked, RoutesFollowAdverts
<1>6. QED
  BY <1>2, <1>3, <1>4, <1>5 DEF DvInv

\* The invariant holds in every reachable state.
LEMMA DvInvariant == Spec => []DvInv
<1>1. DvInv /\ [Next]_vars => DvInv'
  <2> SUFFICES ASSUME DvInv, [Next]_vars
               PROVE  DvInv'
    OBVIOUS
  <2>1. CASE \E l \in Links : LinkChange(l)
    <3>1. TypeOK'
      BY <2>1, DvNetworkAssumption DEF DvInv, TypeOK, LinkChange
    <3>2. QED
      BY <2>1, <3>1 DEF DvInv, LinkChange, AdvertFollowsRib, FibFollowsRib, UpdatesBacked,
         StoredBacked, RoutesFollowAdverts
  <2>2. CASE UNCHANGED vars
    BY <2>2 DEF vars, DvInv, TypeOK, AdvertFollowsRib, FibFollowsRib, UpdatesBacked,
       StoredBacked, RoutesFollowAdverts
  <2>3. CASE \E n, m \in Node : OnStateVector(n, m) \/ DataHandler(n, m) \/ UpdateRib(n, m)
    BY <2>3, OnStateVectorKeeps, DataHandlerKeeps, UpdateRibKeeps
  <2>4. CASE \E n \in Node : \E dead \in SUBSET Silent(n) : CheckDeadNeighbors(n, dead)
    BY <2>4, CheckDeadKeeps
  <2>5. CASE \E n \in Node : \E job \in Job : UpdateFib(n, job)
    BY <2>5, UpdateFibKeeps
  <2>6. CASE \E n \in Node : Generate(n)
    BY <2>6, GenerateKeeps
  <2>7. QED
    BY <2>1, <2>2, <2>3, <2>4, <2>5, <2>6 DEF Next, RouterStep
<1>2. QED
  BY <1>1, DvInit, PTL DEF Spec

\* Type correctness: costs never exceed infinity, next hops are routers.
THEOREM DvTypeCorrect == Spec => []TypeOK
<1>1. DvInv => TypeOK
  BY DEF DvInv
<1>2. QED
  BY <1>1, DvInvariant, PTL

\* No change of a RIB is lost: what the neighbours are told is what the RIB
\* says, or a new advertisement is due.
THEOREM AdvertsFollowRibs == Spec => []AdvertFollowsRib
<1>1. DvInv => AdvertFollowsRib
  BY DEF DvInv
<1>2. QED
  BY <1>1, DvInvariant, PTL

\* The FIB is that of the RIB and the neighbour table, or an update is due.
THEOREM FibsFollowRibs == Spec => []FibFollowsRib
<1>1. DvInv => FibFollowsRib
  BY DEF DvInv
<1>2. QED
  BY <1>1, DvInvariant, PTL

\* Every route is backed by the stored advertisement of a live neighbour.
THEOREM RoutesBacked == Spec => []RoutesFollowAdverts
<1>1. DvInv => RoutesFollowAdverts
  BY DEF DvInv
<1>2. QED
  BY <1>1, DvInvariant, PTL

-----------------------------------------------------------------------------
(***************************************************************************)
(* RibEntry.refresh: the loop over the next hops computes the two lowest   *)
(* costs for every number of next hops and every iteration order.          *)
(*                                                                         *)
(* LowestOfVisited is inductive together with the types: an iteration that *)
(* knows the two lowest of the next hops visited so far has those of one   *)
(* more afterwards.                                                        *)
(***************************************************************************)
VARIABLES costs, visited, low

Loop == INSTANCE RibRefresh

\* Nothing is best where nothing reaches the destination.
LEMMA NoBest ==
    ASSUME NEW c, NEW S, \A k \in S : c[k] = Infinity
    PROVE  \A h : ~Loop!IsBest(c, S, h)
  BY DvRibAssumption DEF Loop!IsBest

\* A next hop that does not precede the best one leaves it the best.
LEMMA BestStays ==
    ASSUME NEW c \in Loop!CostTable, NEW S \in SUBSET Node, NEW g, NEW h \in Node,
           h \notin S, Loop!IsBest(c, S, g), ~(c[h] < c[g] \/ (c[h] = c[g] /\ h < g))
    PROVE  Loop!IsBest(c, S \cup {h}, g)
<1>1. g \in Node /\ g \in Nat /\ h \in Nat /\ g # h /\ g \in S
  BY DvRibAssumption DEF Loop!IsBest
<1>2. c[g] \in Nat /\ c[h] \in Nat
  BY <1>1, DvRibAssumption DEF Loop!CostTable, Loop!Cost
<1>3. Loop!Precedes(c, g, h)
  BY <1>1, <1>2 DEF Loop!Precedes
<1>4. QED
  BY <1>1, <1>3 DEF Loop!IsBest

\* One that precedes it, or reaches the destination first, replaces it.
LEMMA BestReplaced ==
    ASSUME NEW c \in Loop!CostTable, NEW S \in SUBSET Node, NEW g, NEW h \in Node,
           h \notin S, c[h] < Infinity,
           \/ \A k \in S : c[k] = Infinity
           \/ Loop!IsBest(c, S, g) /\ (c[h] < c[g] \/ (c[h] = c[g] /\ h < g))
    PROVE  Loop!IsBest(c, S \cup {h}, h)
<1>1. \A k \in S \cup {h} : k \in Nat /\ c[k] \in Nat
  BY DvRibAssumption DEF Loop!CostTable, Loop!Cost
<1>2. ASSUME NEW k \in S, c[k] < Infinity
      PROVE  Loop!Precedes(c, h, k)
  <2>1. Loop!IsBest(c, S, g) /\ (c[h] < c[g] \/ (c[h] = c[g] /\ h < g))
    BY <1>1, <1>2, DvRibAssumption
  <2>2. g \in S /\ (k = g \/ Loop!Precedes(c, g, k))
    BY <1>2, <2>1 DEF Loop!IsBest
  <2>3. QED
    BY <1>1, <2>1, <2>2 DEF Loop!Precedes
<1>3. QED
  BY <1>2 DEF Loop!IsBest

\* One iteration, for any next hop that has not been visited.
LEMMA VisitKeepsLowest ==
    ASSUME Loop!TypeOK, Loop!LowestOfVisited, NEW h \in Node, Loop!Visit(h)
    PROVE  Loop!TypeOK' /\ Loop!LowestOfVisited'
<1> USE DvRibAssumption
<1>1. /\ costs \in [Node -> 0..Infinity] /\ costs' = costs
      /\ visited \subseteq Node /\ visited' = visited \cup {h} /\ h \notin visited
      /\ low.hop1 \in Node \cup {0} /\ low.hop2 \in Node \cup {0}
      /\ low.cost1 \in 0..Infinity /\ low.cost2 \in 0..Infinity
  BY DEF Loop!TypeOK, Loop!CostTable, Loop!Cost, Loop!Lowest, Loop!NoHop, Loop!Visit
<1>2. /\ costs[h] \in 0..Infinity /\ h \in Nat /\ h # 0 /\ 0 \notin Node
      /\ \A k \in Node : costs[k] \in Nat /\ costs[k] <= Infinity /\ k \in Nat
  BY <1>1
<1>3. CASE Loop!TakesFirst(h)
  <2>1. low' = Loop!InsertFirst(h)
    BY <1>3 DEF Loop!Visit
  <2>2. /\ low'.hop1 = h /\ low'.cost1 = costs[h]
        /\ low'.hop2 = low.hop1 /\ low'.cost2 = low.cost1
        /\ low' \in Loop!Lowest
    BY <1>1, <1>2, <2>1 DEF Loop!InsertFirst, Loop!Lowest, Loop!NoHop, Loop!Cost
  <2>3. visited' \ {h} = visited
    BY <1>1
  <2>4. \/ Loop!IsBest(costs, visited, low.hop1) /\ low.cost1 = costs[low.hop1]
        \/ /\ \A k \in visited : costs[k] = Infinity
           /\ low.hop1 = Loop!NoHop /\ low.cost1 = Infinity
    BY DEF Loop!LowestOfVisited, Loop!IsLowest
  <2>5. Loop!IsBest(costs, visited', h)
    <3>1. costs[h] < Infinity
      <4>1. CASE Loop!IsBest(costs, visited, low.hop1) /\ low.cost1 = costs[low.hop1]
        <5>1. low.cost1 \in Nat /\ low.cost1 < Infinity
          BY <1>1, <4>1 DEF Loop!IsBest
        <5>2. costs[h] <= low.cost1
          BY <1>2, <1>3, <5>1 DEF Loop!TakesFirst
        <5>3. QED
          BY <1>2, <5>1, <5>2
      <4>2. CASE low.hop1 = Loop!NoHop /\ low.cost1 = Infinity
        BY <1>2, <1>3, <4>2 DEF Loop!TakesFirst, Loop!NoHop
      <4>3. QED
        BY <2>4, <4>1, <4>2
    <3>2. \/ \A k \in visited : costs[k] = Infinity
          \/ /\ Loop!IsBest(costs, visited, low.hop1)
             /\ costs[h] < costs[low.hop1] \/ (costs[h] = costs[low.hop1] /\ h < low.hop1)
      BY <1>3, <2>4 DEF Loop!TakesFirst
    <3>3. QED
      BY <1>1, <3>1, <3>2, BestReplaced DEF Loop!TypeOK
  <2>6. Loop!IsLowest(low', costs, visited')
    BY <2>2, <2>3, <2>4, <2>5 DEF Loop!IsLowest
  <2>7. QED
    BY <1>1, <2>2, <2>6 DEF Loop!TypeOK, Loop!LowestOfVisited
<1>4. CASE ~Loop!TakesFirst(h) /\ Loop!TakesSecond(h)
  <2>1. low' = [low EXCEPT !.hop2 = h, !.cost2 = costs[h]]
    BY <1>4 DEF Loop!Visit
  <2>2. /\ low'.hop1 = low.hop1 /\ low'.cost1 = low.cost1
        /\ low'.hop2 = h /\ low'.cost2 = costs[h]
        /\ low' \in Loop!Lowest
    BY <1>1, <1>2, <2>1 DEF Loop!TypeOK, Loop!Lowest, Loop!Cost
  <2>3. Loop!IsBest(costs, visited, low.hop1) /\ low.cost1 = costs[low.hop1]
    BY <1>1, <1>2, <1>4
    DEF Loop!TakesFirst, Loop!TakesSecond, Loop!LowestOfVisited, Loop!IsLowest, Loop!IsBest, Loop!NoHop
  <2>4. Loop!IsBest(costs, visited', low.hop1)
    BY <1>1, <1>4, <2>3, BestStays DEF Loop!TakesFirst, Loop!TypeOK
  <2>5. Loop!IsBest(costs, visited' \ {low.hop1}, h)
    <3>1. h # low.hop1
      BY <1>1, <2>3 DEF Loop!IsBest
    <3>2. costs[h] < Infinity
      BY <1>1, <1>2, <1>4
      DEF Loop!TakesSecond, Loop!LowestOfVisited, Loop!IsLowest, Loop!IsBest, Loop!NoHop
    <3>3. \/ \A k \in visited \ {low.hop1} : costs[k] = Infinity
          \/ /\ Loop!IsBest(costs, visited \ {low.hop1}, low.hop2)
             /\ costs[h] < costs[low.hop2] \/ (costs[h] = costs[low.hop2] /\ h < low.hop2)
      BY <1>4 DEF Loop!TakesSecond, Loop!LowestOfVisited, Loop!IsLowest
    <3>4. /\ visited' \ {low.hop1} = (visited \ {low.hop1}) \cup {h}
          /\ visited \ {low.hop1} \in SUBSET Node
          /\ h \notin visited \ {low.hop1}
      BY <1>1, <3>1
    <3>5. QED
      BY <3>2, <3>3, <3>4, BestReplaced DEF Loop!TypeOK
  <2>6. Loop!IsLowest(low', costs, visited')
    BY <2>2, <2>3, <2>4, <2>5 DEF Loop!IsLowest
  <2>7. QED
    BY <1>1, <2>2, <2>6 DEF Loop!TypeOK, Loop!LowestOfVisited
<1>5. CASE ~Loop!TakesFirst(h) /\ ~Loop!TakesSecond(h)
  <2>1. low' = low
    BY <1>5 DEF Loop!Visit
  <2>2. CASE \A k \in visited : costs[k] = Infinity
    <3>1. low.hop1 = Loop!NoHop /\ low.cost1 = Infinity
      BY <2>2, NoBest DEF Loop!LowestOfVisited, Loop!IsLowest
    <3>2. low.hop2 = Loop!NoHop /\ low.cost2 = Infinity
      <4>1. \A k \in visited \ {low.hop1} : costs[k] = Infinity
        BY <2>2
      <4>2. QED
        BY <4>1, NoBest DEF Loop!LowestOfVisited, Loop!IsLowest
    <3>3. costs[h] = Infinity
      BY <1>1, <1>2, <1>5, <3>1 DEF Loop!TakesFirst
    <3>4. \A k \in visited' : costs[k] = Infinity
      BY <1>1, <2>2, <3>3
    <3>5. Loop!IsLowest(low', costs, visited')
      BY <2>1, <3>1, <3>2, <3>4 DEF Loop!IsLowest
    <3>6. QED
      BY <1>1, <2>1, <3>5 DEF Loop!TypeOK, Loop!LowestOfVisited
  <2>3. CASE ~\A k \in visited : costs[k] = Infinity
    <3>1. Loop!IsBest(costs, visited, low.hop1) /\ low.cost1 = costs[low.hop1]
      BY <2>3 DEF Loop!LowestOfVisited, Loop!IsLowest
    <3>2. h # low.hop1 /\ low.hop1 \in visited
      BY <1>1, <3>1 DEF Loop!IsBest
    <3>3. Loop!IsBest(costs, visited', low.hop1)
      BY <1>1, <1>5, <3>1, BestStays DEF Loop!TakesFirst, Loop!TypeOK
    <3>4. visited' \ {low.hop1} = (visited \ {low.hop1}) \cup {h}
      BY <1>1, <3>2
    <3>5. CASE Loop!IsBest(costs, visited \ {low.hop1}, low.hop2) /\ low.cost2 = costs[low.hop2]
      <4>1. h # low.hop2 /\ low.hop2 \in visited
        BY <1>1, <3>5 DEF Loop!IsBest
      <4>2. Loop!IsBest(costs, visited' \ {low.hop1}, low.hop2)
        <5>1. visited \ {low.hop1} \in SUBSET Node /\ h \notin visited \ {low.hop1}
          BY <1>1
        <5>2. QED
          BY <1>5, <3>4, <3>5, <5>1, BestStays DEF Loop!TakesSecond, Loop!TypeOK
      <4>3. Loop!IsLowest(low', costs, visited')
        BY <2>1, <3>1, <3>3, <3>5, <4>2 DEF Loop!IsLowest
      <4>4. QED
        BY <1>1, <2>1, <4>3 DEF Loop!TypeOK, Loop!LowestOfVisited
    <3>6. CASE /\ \A k \in visited \ {low.hop1} : costs[k] = Infinity
               /\ low.hop2 = Loop!NoHop /\ low.cost2 = Infinity
      <4>1. costs[h] = Infinity
        BY <1>1, <1>2, <1>5, <3>6 DEF Loop!TakesSecond
      <4>2. \A k \in visited' \ {low.hop1} : costs[k] = Infinity
        BY <3>4, <3>6, <4>1
      <4>3. Loop!IsLowest(low', costs, visited')
        BY <2>1, <3>1, <3>3, <3>6, <4>2 DEF Loop!IsLowest
      <4>4. QED
        BY <1>1, <2>1, <4>3 DEF Loop!TypeOK, Loop!LowestOfVisited
    <3>7. QED
      BY <3>5, <3>6 DEF Loop!LowestOfVisited, Loop!IsLowest
  <2>4. QED
    BY <2>2, <2>3
<1>6. QED
  BY <1>3, <1>4, <1>5

\* The loop invariant.
LEMMA RefreshInvariant == Loop!Spec => [](Loop!TypeOK /\ Loop!LowestOfVisited)
<1>1. Loop!Init => Loop!TypeOK /\ Loop!LowestOfVisited
  BY DvRibAssumption
  DEF Loop!Init, Loop!TypeOK, Loop!LowestOfVisited, Loop!IsLowest, Loop!Unreachable, Loop!Lowest,
      Loop!Cost, Loop!NoHop
<1>2. Loop!TypeOK /\ Loop!LowestOfVisited /\ [Loop!Next]_Loop!vars
        => (Loop!TypeOK /\ Loop!LowestOfVisited)'
  <2>1. CASE UNCHANGED Loop!vars
    BY <2>1 DEF Loop!vars, Loop!TypeOK, Loop!LowestOfVisited
  <2>2. QED
    BY <2>1, VisitKeepsLowest DEF Loop!Next
<1>3. QED
  BY <1>1, <1>2, PTL DEF Loop!Spec

\* After any number of iterations in any order, the loop holds the two lowest
\* costs of the next hops it has visited.
THEOREM RefreshFindsLowest == Loop!Spec => []Loop!LowestOfVisited
  BY RefreshInvariant, PTL

\* There is at most one best next hop.
LEMMA BestUnique ==
    ASSUME NEW c \in Loop!CostTable, NEW S \in SUBSET Node, NEW h, NEW k,
           Loop!IsBest(c, S, h), Loop!IsBest(c, S, k)
    PROVE  h = k
  BY DvRibAssumption DEF Loop!CostTable, Loop!Cost, Loop!IsBest, Loop!Precedes

\* The reference definition of refresh leaves no choice.
LEMMA RefreshIsLowest ==
    ASSUME NEW c \in Loop!CostTable, NEW low1 \in Loop!Lowest, Loop!IsLowest(low1, c, Node)
    PROVE  low1 = Loop!Refresh(c)
<1>1. ASSUME NEW S \in SUBSET Node, NEW h,
             \/ Loop!IsBest(c, S, h)
             \/ (\A k \in S : c[k] = Infinity) /\ h = Loop!NoHop
      PROVE  Loop!BestHop(c, S) = h
  <2>1. CASE Loop!IsBest(c, S, h)
    <3>1. ~\A k \in S : c[k] = Infinity
      BY <2>1, NoBest
    <3>2. Loop!IsBest(c, S, CHOOSE g \in S : Loop!IsBest(c, S, g))
      BY <2>1 DEF Loop!IsBest
    <3>3. QED
      BY <2>1, <3>1, <3>2, BestUnique DEF Loop!BestHop
  <2>2. CASE (\A k \in S : c[k] = Infinity) /\ h = Loop!NoHop
    BY <2>2 DEF Loop!BestHop
  <2>3. QED
    BY <1>1, <2>1, <2>2
<1>2. Loop!BestHop(c, Node) = low1.hop1
  BY <1>1 DEF Loop!IsLowest
<1>3. Loop!BestHop(c, Node \ {low1.hop1}) = low1.hop2
  <2> DEFINE S == Node \ {low1.hop1}
  <2>1. S \in SUBSET Node
    OBVIOUS
  <2>2. \/ Loop!IsBest(c, S, low1.hop2)
        \/ (\A k \in S : c[k] = Infinity) /\ low1.hop2 = Loop!NoHop
    BY DEF Loop!IsLowest
  <2> HIDE DEF S
  <2>3. Loop!BestHop(c, S) = low1.hop2
    BY <1>1, <2>1, <2>2
  <2>4. QED
    BY <2>3 DEF S
<1>4. /\ Loop!CostOf(c, low1.hop1) = low1.cost1
      /\ Loop!CostOf(c, low1.hop2) = low1.cost2
  BY DvRibAssumption DEF Loop!IsLowest, Loop!IsBest, Loop!CostOf, Loop!NoHop
<1>5. QED
  BY <1>2, <1>3, <1>4 DEF Loop!Refresh, Loop!Lowest

\* When the loop has visited every next hop it holds what Loop!Refresh defines,
\* however the map orders the next hops.
THEOREM RefreshDeterministic == Loop!Spec => []Loop!OrderIndependent
<1>1. Loop!TypeOK /\ Loop!LowestOfVisited => Loop!OrderIndependent
  BY RefreshIsLowest DEF Loop!TypeOK, Loop!LowestOfVisited, Loop!OrderIndependent
<1>2. QED
  BY <1>1, RefreshInvariant, PTL
=============================================================================
