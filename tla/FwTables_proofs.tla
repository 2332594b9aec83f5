-------------------------- MODULE FwTables_proofs ---------------------------
(***************************************************************************)
(* Proofs about the parts of the forwarder that MCFwTables puts together:  *)
(* the tables that commands and closing faces write (FwTables), the FIB as *)
(* a hash table (FibHash) and reassembly (LpLink).                         *)
(***************************************************************************)
EXTENDS MCFwTables, FiniteSetTheorems, TLAPS

-----------------------------------------------------------------------------
(***************************************************************************)
(* Names and routes                                                        *)
(***************************************************************************)
\* The names of the RIB tree are the prefixes of the names of rib commands.
LEMMA RibNodeSpelledOut ==
    ASSUME NEW n
    PROVE  n \in RibNode <=> n = Root \/ \E l \in RibName : \E k \in 0..Len(l) : n = SubSeq(l, 1, k)
<1>1. \A l : n \in Prefixes(l) <=> \E k \in 0..Len(l) : n = SubSeq(l, 1, k)
  BY DEF Prefixes
<1>2. n \in RibNode <=> n = Root \/ \E l \in RibName : n \in Prefixes(l)
  BY DEF RibNode
<1> QED
  BY <1>1, <1>2

\* The names of the RIB tree are sequences, and each is a prefix of itself.
LEMMA RibNodesAreNames ==
    /\ RibName \subseteq RibNode
    /\ \A n \in RibNode : n \in Seq(Component) /\ IsPrefix(n, n)
<1>1. \A n \in RibName : n \in Seq(Component) /\ Len(n) \in Nat
  BY FwTablesAssumption
<1>2. ASSUME NEW n \in RibName PROVE n \in RibNode
  <2>1. SubSeq(n, 1, Len(n)) = n /\ Len(n) \in 0..Len(n)
    BY <1>1
  <2> QED
    BY <2>1, RibNodeSpelledOut
<1>3. ASSUME NEW n \in RibNode PROVE n \in Seq(Component)
  <2>1. CASE n = Root
    BY <2>1 DEF Root
  <2>2. CASE n # Root
    <3>1. PICK l \in RibName : \E k \in 0..Len(l) : n = SubSeq(l, 1, k)
      BY <2>2, RibNodeSpelledOut
    <3>2. PICK k \in 0..Len(l) : n = SubSeq(l, 1, k)
      BY <3>1
    <3> QED
      BY <1>1, <3>2
  <2> QED
    BY <2>1, <2>2
<1>4. \A n \in RibNode : Len(n) \in Nat /\ IsPrefix(n, n)
  BY <1>3 DEF IsPrefix
<1> QED
  BY <1>2, <1>3, <1>4

\* The ancestors of a name of the tree, the root and the name among them, are
\* names of the tree.
LEMMA AncestorsAreNodes ==
    ASSUME NEW n \in RibName
    PROVE  Prefixes(n) \subseteq RibNode
BY DEF RibNode

\* A set of natural numbers has a least one.
LEMMA LeastOfNaturals ==
    ASSUME NEW T \in SUBSET Nat, T # {}
    PROVE  Min(T) \in T /\ \A i \in T : Min(T) <= i
<1> DEFINE less == OpToRel(<, Nat)
<1>1. IsWellFoundedOn(less, Nat)
  BY NatLessThanWellFounded
<1>2. \A i, j \in Nat : i < j => <<i, j>> \in less
  BY DEF OpToRel
<1> HIDE DEF less
<1>3. PICK i \in T : \A j \in T : ~(<<j, i>> \in less)
  BY <1>1, WFMin
<1>4. ASSUME NEW j \in T PROVE i <= j
  <2>1. i \in Nat /\ j \in Nat /\ ~(j < i)
    BY <1>2, <1>3
  <2> QED
    BY <2>1
<1> QED
  BY <1>4 DEF Min

\* FirstOf is 0 exactly when no route of the entry goes over the face, and
\* otherwise the place of such a route.
LEMMA FirstOfFace ==
    ASSUME NEW S, NEW routes \in Seq(S), NEW f
    PROVE  /\ FirstOf(routes, f) = 0 \/ FirstOf(routes, f) \in 1..Len(routes)
           /\ FirstOf(routes, f) # 0 => routes[FirstOf(routes, f)].face = f
           /\ FirstOf(routes, f) = 0 <=> \A i \in 1..Len(routes) : routes[i].face # f
<1> DEFINE T == {i \in 1..Len(routes) : routes[i].face = f}
<1>1. FirstOf(routes, f) = IF T # {} THEN Min(T) ELSE 0
  BY DEF FirstOf, SelectInSeq
<1>2. T \subseteq Nat
  OBVIOUS
<1>3. T # {} => Min(T) \in T
  BY <1>2, LeastOfNaturals
<1> HIDE DEF FirstOf
<1> QED
  BY <1>1, <1>3

\* What is left when the route at a place is removed.
LEMMA RemovedAt ==
    ASSUME NEW S, NEW routes \in Seq(S), NEW at \in 1..Len(routes)
    PROVE  /\ RemoveAt(routes, at) \in Seq(S)
           /\ Len(RemoveAt(routes, at)) = Len(routes) - 1
           /\ \A i \in 1..(Len(routes) - 1) :
                 RemoveAt(routes, at)[i] = IF i < at THEN routes[i] ELSE routes[i + 1]
<1> DEFINE left == RemoveAt(routes, at)
           l == SubSeq(routes, 1, at - 1)
           r == SubSeq(routes, at + 1, Len(routes))
<1>1. /\ l \in Seq(S) /\ Len(l) = at - 1
      /\ \A i \in 1..(at - 1) : l[i] = routes[i]
  OBVIOUS
<1>2. /\ r \in Seq(S) /\ Len(r) = Len(routes) - at
      /\ \A i \in 1..(Len(routes) - at) : r[i] = routes[at + i]
  OBVIOUS
<1>3. left = l \o r
  BY DEF RemoveAt
<1> HIDE DEF l, r, left
<1>4. left \in Seq(S) /\ Len(left) = Len(l) + Len(r)
  <2>1. \A p, q \in Seq(S) : p \o q \in Seq(S) /\ Len(p \o q) = Len(p) + Len(q)
    OBVIOUS
  <2> QED
    BY <1>1, <1>2, <1>3, <2>1
<1>5. Len(left) = Len(routes) - 1
  BY <1>1, <1>2, <1>4
<1>6. ASSUME NEW i \in 1..(Len(routes) - 1)
      PROVE  left[i] = IF i < at THEN routes[i] ELSE routes[i + 1]
  <2>1. CASE i < at
    BY <1>1, <1>2, <1>3, <2>1
  <2>2. CASE ~(i < at)
    <3>1. i - (at - 1) \in 1..(Len(routes) - at) /\ at + (i - (at - 1)) = i + 1
      BY <2>2
    <3>2. left[i] = r[i - (at - 1)]
      BY <1>1, <1>2, <1>3, <2>2
    <3> QED
      BY <1>2, <2>2, <3>1, <3>2
  <2> QED
    BY <2>1, <2>2
<1> QED
  BY <1>4, <1>5, <1>6 DEF left

\* Removing the one route over a face leaves none.
LEMMA WithoutTheFirst ==
    ASSUME NEW S, NEW routes \in Seq(S), NEW f
    PROVE  /\ Without(routes, FirstOf(routes, f)) \in Seq(S)
           /\ (\A i, j \in DOMAIN routes : routes[i].face = f /\ routes[j].face = f => i = j)
                => FirstOf(Without(routes, FirstOf(routes, f)), f) = 0
<1> DEFINE at == FirstOf(routes, f)
           left == Without(routes, at)
<1>1. CASE at = 0
  BY <1>1 DEF Without
<1>2. CASE at # 0
  <2>1. at \in 1..Len(routes) /\ routes[at].face = f
    BY <1>2, FirstOfFace
  <2> HIDE DEF at
  <2>2. left = RemoveAt(routes, at)
    BY <1>2 DEF Without
  <2>3. /\ left \in Seq(S)
        /\ Len(left) = Len(routes) - 1
        /\ \A i \in 1..(Len(routes) - 1) : left[i] = IF i < at THEN routes[i] ELSE routes[i + 1]
    BY <2>1, <2>2, RemovedAt
  <2> HIDE DEF left
  <2>4. ASSUME \A i, j \in DOMAIN routes : routes[i].face = f /\ routes[j].face = f => i = j,
               NEW i \in 1..Len(left)
        PROVE  left[i].face # f
    BY <2>1, <2>3, <2>4
  <2>5. (\A i \in 1..Len(left) : left[i].face # f) => FirstOf(left, f) = 0
    BY <2>3, FirstOfFace
  <2> QED
    BY <2>3, <2>4, <2>5 DEF at, left
<1> QED
  BY <1>1, <1>2

\* The route that RemoveRouteEnc takes out is one of the entry.
LEMMA WithoutRoute ==
    ASSUME NEW S, NEW routes \in Seq(S), NEW face, NEW origin
    PROVE  Without(routes, RouteAt(routes, face, origin)) \in Seq(S)
<1> DEFINE T == {i \in 1..Len(routes) : SameRoute(routes[i], face, origin)}
<1>1. RouteAt(routes, face, origin) = IF T # {} THEN Min(T) ELSE 0
  BY DEF RouteAt, SelectInSeq
<1>2. T # {} => Min(T) \in T
  BY LeastOfNaturals
<1>3. RouteAt(routes, face, origin) = 0 \/ RouteAt(routes, face, origin) \in 1..Len(routes)
  BY <1>1, <1>2
<1> QED
  BY <1>3, RemovedAt DEF Without

-----------------------------------------------------------------------------
(***************************************************************************)
(* The FIB follows the RIB                                                 *)
(***************************************************************************)
\* A name that is not in the tree has no routes, so that updateNexthopsEnc,
\* which walks the tree, misses nothing.
RibInv ==
    /\ rib \in [RibNode -> Seq(Route)]
    /\ DOMAIN fib = FibNode
    /\ nodes \subseteq RibNode
    /\ req \subseteq Request
    /\ \A n \in RibNode \ nodes : rib[n] = <<>>

FollowInv == RibInv /\ FibFollowsRib

\* Flattening looks at the routes of the name and of its prefixes only, and a
\* name without routes has no next hops.
LEMMA FlattenSame ==
    ASSUME NEW t, NEW u, NEW n \in RibNode,
           t[n] = u[n],
           t[n] # <<>> => \A p \in RibNode : IsPrefix(p, n) => t[p] = u[p]
    PROVE  Flatten(t, n) = Flatten(u, n)
<1> DEFINE own == Range(t[n])
           above(v) == UNION {Inheritable(v[p]) : p \in {q \in RibNode : IsPrefix(q, n)}}
           usable(v) == IF own = {} THEN {}
                        ELSE IF \E r \in own : r.capture THEN own
                        ELSE own \cup above(v)
           hops(set) == [f \in {r.face : r \in set} |->
                           Min({r.cost : r \in {s \in set : s.face = f}})]
<1>1. Flatten(t, n) = hops(usable(t))
  BY DEF Flatten
<1>2. Flatten(u, n) = hops(usable(u))
  BY DEF Flatten
<1> HIDE DEF hops
<1>3. own # {} => t[n] # <<>>
  BY DEF Range
<1>4. t[n] # <<>> => above(t) = above(u)
  OBVIOUS
<1>5. usable(t) = usable(u)
  <2> HIDE DEF above, own
  <2> QED
    BY <1>3, <1>4
<1> HIDE DEF usable
<1> QED
  BY <1>1, <1>2, <1>5

\* updateNexthopsEnc below every changed entry brings the FIB in line with the
\* new routes.
LEMMA UpdateFollows ==
    ASSUME RibInv, FibFollowsRib, NEW table, NEW tops \in SUBSET RibNode,
           \A n \in RibNode \ tops : table[n] = rib[n],
           fib' = UpdateNexthops(table, tops)
    PROVE  /\ DOMAIN fib' = FibNode
           /\ \A n \in RibNode \ (FibName \cup {Root}) : fib'[n] = Flatten(table, n)
<1> DEFINE reached == tops \cup UNION {Below(t) : t \in tops}
<1>1. fib' = [n \in FibNode |-> IF n \in reached THEN Replace(n, Flatten(table, n)) ELSE fib[n]]
  BY DEF UpdateNexthops
<1>2. \A n : n \in reached <=> n \in tops \/ \E t \in tops : n \in nodes /\ IsPrefix(t, n)
  BY DEF Below
<1> HIDE DEF reached
<1>3. ASSUME NEW n \in RibNode \ (FibName \cup {Root}) PROVE fib'[n] = Flatten(table, n)
  <2>1. n \in FibNode /\ n # Root
    BY DEF FibNode
  <2>2. CASE n \in reached
    BY <1>1, <2>1, <2>2 DEF Replace
  <2>3. CASE n \notin reached
    <3>1. n \notin tops /\ table[n] = rib[n]
      BY <1>2, <2>3
    <3>2. ASSUME rib[n] # <<>>, NEW p \in RibNode, IsPrefix(p, n) PROVE rib[p] = table[p]
      <4>1. n \in nodes
        BY <3>2 DEF RibInv
      <4>2. p \notin tops
        BY <1>2, <2>3, <3>2, <4>1
      <4> QED
        BY <4>2
    <3>3. Flatten(rib, n) = Flatten(table, n)
      BY <3>1, <3>2, FlattenSame
    <3> QED
      BY <1>1, <2>1, <2>3, <3>3 DEF FibFollowsRib
  <2> QED
    BY <2>2, <2>3
<1> QED
  BY <1>1, <1>3

\* A command that registers a route.
LEMMA RegisterFollows ==
    ASSUME FollowInv, NEW c \in req, Register(c)
    PROVE  FollowInv'
<1> USE DEF FollowInv, RibInv
<1> DEFINE n == c.name
<1>1. n \in RibName /\ c.route \in Route
  BY DEF Register, Request
<1>2. n \in RibNode /\ Prefixes(n) \subseteq RibNode
  BY <1>1, RibNodesAreNames, AncestorsAreNodes
<1>3. n \in Prefixes(n)
  <2>1. SubSeq(n, 1, Len(n)) = n /\ Len(n) \in 0..Len(n)
    BY <1>1, FwTablesAssumption
  <2> QED
    BY <2>1 DEF Prefixes
<1> DEFINE at == {i \in DOMAIN rib[n] : SameRoute(rib[n][i], c.route.face, c.route.origin)}
           routes == IF at = {} THEN Append(rib[n], c.route)
                     ELSE [i \in DOMAIN rib[n] |-> IF i \in at THEN c.route ELSE rib[n][i]]
<1>4. /\ rib' = [rib EXCEPT ![n] = routes]
      /\ nodes' = nodes \cup Prefixes(n)
      /\ fib' = UpdateNexthops(rib', {n})
      /\ req' = {}
  BY DEF Register, AddEncRoute
<1>5. routes \in Seq(Route)
  <2>1. rib[n] \in Seq(Route)
    BY <1>2
  <2> HIDE DEF at
  <2>2. [i \in DOMAIN rib[n] |-> IF i \in at THEN c.route ELSE rib[n][i]] \in Seq(Route)
    BY <1>1, <2>1
  <2> QED
    BY <1>1, <2>1, <2>2
<1> HIDE DEF n, routes
<1>6. rib' \in [RibNode -> Seq(Route)] /\ \A o \in RibNode \ {n} : rib'[o] = rib[o]
  BY <1>2, <1>4, <1>5
<1>7. /\ DOMAIN fib' = FibNode
      /\ \A o \in RibNode \ (FibName \cup {Root}) : fib'[o] = Flatten(rib', o)
  <2>1. RibInv /\ FibFollowsRib
    OBVIOUS
  <2>2. {n} \in SUBSET RibNode
    BY <1>2
  <2> HIDE DEF RibInv, FollowInv
  <2> QED
    BY <1>2, <1>4, <1>6, <2>1, <2>2, UpdateFollows
<1>8. \A o \in RibNode \ nodes' : rib'[o] = <<>>
  BY <1>3, <1>4, <1>6
<1>9. FibFollowsRib'
  BY <1>7 DEF FibFollowsRib
<1> QED
  BY <1>2, <1>4, <1>6, <1>7, <1>8, <1>9

\* A command that takes a route back; its entry may be pruned.
LEMMA UnregisterFollows ==
    ASSUME FollowInv, NEW n \in RibName, NEW face, NEW origin, Unregister(n, face, origin)
    PROVE  FollowInv'
<1> USE DEF FollowInv, RibInv
<1>1. n \in RibNode /\ rib[n] \in Seq(Route)
  BY RibNodesAreNames
<1> DEFINE routes == Without(rib[n], RouteAt(rib[n], face, origin))
<1>2. /\ rib' = [rib EXCEPT ![n] = routes]
      /\ nodes' = nodes \/ (nodes' = nodes \ {n} /\ rib'[n] = <<>>)
      /\ fib' = UpdateNexthops(rib', {n})
      /\ req' = req
      /\ n \in nodes
  BY DEF Unregister, RemoveRouteEnc, Prunes
<1>3. routes \in Seq(Route)
  BY <1>1, WithoutRoute
<1> HIDE DEF routes
<1>4. rib' \in [RibNode -> Seq(Route)] /\ \A o \in RibNode \ {n} : rib'[o] = rib[o]
  BY <1>1, <1>2, <1>3
<1>5. /\ DOMAIN fib' = FibNode
      /\ \A o \in RibNode \ (FibName \cup {Root}) : fib'[o] = Flatten(rib', o)
  <2>1. RibInv /\ FibFollowsRib
    OBVIOUS
  <2>2. {n} \in SUBSET RibNode
    BY <1>1
  <2> HIDE DEF RibInv, FollowInv
  <2> QED
    BY <1>1, <1>2, <1>4, <2>1, <2>2, UpdateFollows
<1>6. \A o \in RibNode \ nodes' : rib'[o] = <<>>
  BY <1>2, <1>4
<1>7. FibFollowsRib'
  BY <1>5 DEF FibFollowsRib
<1> QED
  BY <1>2, <1>4, <1>5, <1>6, <1>7

\* The clean-up of a face that was deleted.
LEMMA CleanRibFollows ==
    ASSUME FollowInv, NEW f \in Face, CleanRib(f)
    PROVE  FollowInv'
<1> USE DEF FollowInv, RibInv
<1> DEFINE changed == {n \in nodes : FirstOf(rib[n], f) # 0}
<1>1. /\ rib' = [n \in RibNode |-> Without(rib[n], FirstOf(rib[n], f))]
      /\ nodes' = {n \in nodes : \/ n = Root
                                 \/ \E l \in Below(n) : l \notin changed \/ rib'[l] # <<>>}
      /\ fib' = UpdateNexthops(rib', changed)
      /\ req' = req
  BY DEF CleanRib, CleanUpFaceRib, DropFace
<1>2. rib' \in [RibNode -> Seq(Route)]
  BY <1>1, WithoutTheFirst
<1>3. ASSUME NEW n \in RibNode \ changed PROVE rib'[n] = rib[n]
  <2>1. FirstOf(rib[n], f) = 0
    <3>1. CASE n \in nodes
      BY <3>1
    <3>2. CASE n \notin nodes
      <4>1. rib[n] = <<>> /\ rib[n] \in Seq(Route)
        BY <3>2
      <4> QED
        BY <4>1, FirstOfFace
    <3> QED
      BY <3>1, <3>2
  <2> QED
    BY <1>1, <2>1 DEF Without
<1>4. changed \in SUBSET RibNode
  OBVIOUS
<1> HIDE DEF changed
<1>5. /\ DOMAIN fib' = FibNode
      /\ \A o \in RibNode \ (FibName \cup {Root}) : fib'[o] = Flatten(rib', o)
  <2>1. RibInv /\ FibFollowsRib
    OBVIOUS
  <2>2. changed \in SUBSET RibNode
    BY <1>4
  <2> HIDE DEF RibInv, FollowInv
  <2> QED
    BY <1>1, <1>3, <1>4, <2>1, <2>2, UpdateFollows
<1>6. ASSUME NEW n \in RibNode \ nodes' PROVE rib'[n] = <<>>
  <2>1. CASE n \notin nodes
    <3>1. n \notin changed
      BY <2>1 DEF changed
    <3> QED
      BY <1>3, <2>1, <3>1
  <2>2. CASE n \in nodes
    <3>1. n \in Below(n)
      BY <2>2, RibNodesAreNames DEF Below
    <3> QED
      BY <1>1, <2>2, <3>1
  <2> QED
    BY <2>1, <2>2
<1>7. FibFollowsRib'
  BY <1>5 DEF FibFollowsRib
<1> QED
  BY <1>1, <1>2, <1>5, <1>6, <1>7

\* The other steps write no route, and those that write the FIB do so at the
\* names of fib commands.
LEMMA OthersFollow ==
    ASSUME FollowInv, UNCHANGED <<rib, nodes>>, req' \subseteq Request,
           \/ UNCHANGED fib
           \/ \E n \in FibName : \E hops : fib' = [fib EXCEPT ![n] = hops]
    PROVE  FollowInv'
<1>1. DOMAIN fib' = FibNode
  BY DEF FollowInv, RibInv
<1>2. \A n \in FibNode \ FibName : fib'[n] = fib[n]
  BY DEF FollowInv, RibInv
<1>3. FibFollowsRib'
  <2>1. \A n \in RibNode \ (FibName \cup {Root}) : fib'[n] = fib[n]
    BY <1>2 DEF FibNode
  <2>2. \A n \in RibNode \ (FibName \cup {Root}) : fib'[n] = Flatten(rib, n)
    BY <2>1 DEF FollowInv, FibFollowsRib
  <2> QED
    BY <2>2 DEF FibFollowsRib
<1> QED
  BY <1>1, <1>3 DEF FollowInv, RibInv

\* Every step keeps the FIB in line with the RIB.
LEMMA FollowStep == FollowInv /\ [Next]_vars => FollowInv'
<1> SUFFICES ASSUME FollowInv, [Next]_vars PROVE FollowInv'
  OBVIOUS
<1>0. req \subseteq Request
  BY DEF FollowInv, RibInv
<1>1. ASSUME NEW f \in Face, Add(f) \/ Delete(f) \/ CleanPet(f) PROVE FollowInv'
  BY <1>0, <1>1, OthersFollow DEF Add, Delete, CleanPet
<1>2. ASSUME NEW f \in Face, CleanRib(f) PROVE FollowInv'
  BY <1>2, CleanRibFollows
<1>3. ASSUME NEW c \in Request, CheckFace(c) PROVE FollowInv'
  <2>1. req' \subseteq Request /\ UNCHANGED <<rib, nodes, fib>>
    BY <1>3 DEF CheckFace
  <2> QED
    BY <2>1, OthersFollow
<1>4. ASSUME NEW c \in req, Register(c) PROVE FollowInv'
  BY <1>4, RegisterFollows
<1>5. ASSUME NEW c \in req, InsertNextHopEnc(c) PROVE FollowInv'
  <2>1. c.name \in FibName
    BY <1>0, <1>5 DEF InsertNextHopEnc, Request
  <2>2. \E hops : fib' = [fib EXCEPT ![c.name] = hops]
    BY <1>5 DEF InsertNextHopEnc
  <2>3. req' \subseteq Request /\ UNCHANGED <<rib, nodes>>
    BY <1>5 DEF InsertNextHopEnc
  <2> QED
    BY <2>1, <2>2, <2>3, OthersFollow
<1>6. ASSUME NEW c \in req, AddNextHopEnc(c) PROVE FollowInv'
  <2>1. req' \subseteq Request /\ UNCHANGED <<rib, nodes, fib>>
    BY <1>6 DEF AddNextHopEnc
  <2> QED
    BY <2>1, OthersFollow
<1>7. ASSUME NEW n \in RibName, NEW r \in Route, Unregister(n, r.face, r.origin)
      PROVE  FollowInv'
  BY <1>7, UnregisterFollows
<1>8. ASSUME NEW n \in FibName, NEW f \in Face, RemoveFibNextHop(n, f) PROVE FollowInv'
  <2>1. \E hops : fib' = [fib EXCEPT ![n] = hops]
    BY <1>8 DEF RemoveFibNextHop
  <2>2. req' \subseteq Request /\ UNCHANGED <<rib, nodes>>
    BY <1>0, <1>8 DEF RemoveFibNextHop
  <2> QED
    BY <2>1, <2>2, OthersFollow
<1>9. ASSUME NEW n \in PetName, PetCommand(n) PROVE FollowInv'
  <2>1. UNCHANGED <<rib, nodes, fib, req>>
    BY <1>9 DEF PetCommand, AddEgressEnc, RemoveEgressEnc, RemoveNextHopEnc
  <2> QED
    BY <1>0, <2>1, OthersFollow
<1>10. CASE UNCHANGED vars
  BY <1>0, <1>10, OthersFollow DEF vars
<1> QED
  BY <1>1, <1>2, <1>3, <1>4, <1>5, <1>6, <1>7, <1>8, <1>9, <1>10 DEF Next

\* At the start there are no routes, and no next hops.
LEMMA FollowInit == Init => FollowInv
<1> SUFFICES ASSUME Init PROVE FollowInv
  OBVIOUS
<1>1. Root \in RibNode
  BY DEF RibNode
<1>2. \A n \in RibNode : n \in FibNode /\ rib[n] = <<>>
  BY DEF Init, FibNode
<1>3. ASSUME NEW n \in RibNode PROVE Flatten(rib, n) = <<>>
  <2>1. Range(rib[n]) = {}
    BY <1>2 DEF Range
  <2> QED
    BY <2>1 DEF Flatten
<1>4. FibFollowsRib
  BY <1>2, <1>3 DEF FibFollowsRib, Init
<1>5. rib \in [RibNode -> Seq(Route)]
  BY DEF Init
<1> QED
  BY <1>1, <1>4, <1>5 DEF FollowInv, RibInv, Init

\* After every command and every clean-up of a face the FIB holds the next
\* hops that the RIB flattens to (updateNexthopsEnc): for every tree of names,
\* and any routes with any inheritance and capture flags.
THEOREM FibIsFlattenedRib == Spec => []FibFollowsRib
<1>1. FollowInv => FibFollowsRib
  BY DEF FollowInv
<1> QED
  BY FollowInit, FollowStep, <1>1, PTL DEF Spec

\* Every face is at some stage: a step is one of the face, or leaves all stages.
LEMMA StageStep ==
    ASSUME DOMAIN stage = Face, Next
    PROVE  /\ DOMAIN stage' = Face
           /\ \/ stage' = stage
              \/ \E g \in Face : Add(g) \/ Delete(g) \/ CleanRib(g) \/ CleanPet(g)
<1>1. ASSUME NEW g \in Face, Add(g) \/ Delete(g) \/ CleanRib(g) \/ CleanPet(g)
      PROVE  DOMAIN stage' = Face
  BY <1>1 DEF Add, Delete, CleanRib, CleanPet
<1>2. \/ stage' = stage
      \/ \E g \in Face : Add(g) \/ Delete(g) \/ CleanRib(g) \/ CleanPet(g)
  BY DEF Next, CheckFace, Register, InsertNextHopEnc, AddNextHopEnc, Unregister,
         RemoveFibNextHop, PetCommand, AddEgressEnc, RemoveEgressEnc, RemoveNextHopEnc
<1> QED
  BY <1>1, <1>2

\* Rib.CleanUpFace leaves no route over the face in any entry, if no entry
\* had two.
THEOREM CleanUpIsThorough == Spec => CleanUpRemovesFace
<1> DEFINE CleanInv == FollowInv /\ DOMAIN stage = Face
<1>1. ASSUME CleanInv, Next, NEW f \in Face, stage[f] = "deleted", stage'[f] = "ribClean",
             OneRoutePerEntry(f), NEW n \in RibNode
      PROVE  FirstOf(rib'[n], f) = 0
  <2>1. ASSUME NEW g \in Face, Add(g) \/ Delete(g) \/ CleanPet(g) PROVE FALSE
    BY <1>1, <2>1 DEF Add, Delete, CleanPet
  <2>2. ASSUME NEW g \in Face, CleanRib(g), g # f PROVE FALSE
    BY <1>1, <2>2 DEF CleanRib
  <2>3. stage' # stage
    BY <1>1
  <2>4. CleanRib(f)
    BY <1>1, <2>1, <2>2, <2>3, StageStep
  <2>5. rib'[n] = Without(rib[n], FirstOf(rib[n], f))
    BY <2>4 DEF CleanRib, CleanUpFaceRib, DropFace
  <2>6. rib[n] \in Seq(Route)
    BY <1>1 DEF FollowInv, RibInv
  <2> QED
    BY <1>1, <2>5, <2>6, WithoutTheFirst DEF OneRoutePerEntry
<1>2. CleanInv /\ [Next]_vars =>
        [\A f \in Face : /\ stage[f] = "deleted" /\ stage'[f] = "ribClean"
                         /\ OneRoutePerEntry(f)
            => \A n \in RibNode : FirstOf(rib'[n], f) = 0]_vars
  BY <1>1
<1>3. Init => CleanInv
  BY FollowInit DEF Init
<1>4. CleanInv /\ [Next]_vars => CleanInv'
  BY FollowStep, StageStep DEF vars
<1> HIDE DEF CleanInv
<1> QED
  BY <1>2, <1>3, <1>4, PTL DEF Spec, CleanUpRemovesFace

-----------------------------------------------------------------------------
(***************************************************************************)
(* Reassembly                                                              *)
(***************************************************************************)
Part == [of : Nat, idx : Nat]

\* The part p is the one at place k of a packet of so many fragments.
PartAt(p, k, count) == p.idx = k - 1 /\ p.of \in 1..Len(sent) /\ sent[p.of] = count

Present(buffer) == {k \in 1..Len(buffer) : buffer[k] # Link!Missing}

\* A frame, sent or still to be sent, has a part of a packet of that many
\* fragments; so has every filled place of a buffer.
FrameOK(f) ==
    /\ f.seq \in Nat /\ f.count \in Nat
    /\ f.part \in Part /\ f.part.idx < f.count
    /\ PartAt(f.part, f.part.idx + 1, f.count)

BufferOK(buffer) ==
    /\ buffer \in Seq(Part)
    /\ \A k \in Present(buffer) : PartAt(buffer[k], k, Len(buffer))

OutFrame == [seq : Nat, count : Nat, part : Part, length : Int, extra : Extra]

\* All the fields that computeHeaderOverhead counts.
MaxOverhead == Link!lpPacketOverhead + Link!fragmentOverhead + Link!incomingFaceOverhead

LinkTyped ==
    /\ overhead \in 0..MaxOverhead
    /\ mtu \in Mtu /\ nextSequence \in Nat /\ ringIndex \in Nat
    /\ sent \in Seq(Nat)
    /\ out \in Seq(OutFrame)
    /\ DOMAIN ring = Link!Slot
    /\ \A s \in Link!Slot : ring[s] \in [seq : Int, buffer : Seq(Part)]
    /\ delivered \in Seq(Seq(Part))

Frames == {out[i] : i \in DOMAIN out} \cup net

Cut(f) == f.count > 1

PartsPlaced ==
    /\ \A f \in Frames : FrameOK(f)
    /\ \A s \in Link!Slot : BufferOK(ring[s].buffer)
    /\ \A i \in DOMAIN delivered : \A k \in 1..Len(delivered[i]) :
          PartAt(delivered[i][k], k, Len(delivered[i]))

\* Of fragments that are on their way or in a buffer, those with the same base
\* sequence are of the same packet, as long as the sender has not started again.
OneRun == "restarted" \notin faults

BasesDistinct ==
    /\ \A f, g \in Frames : Cut(f) /\ Cut(g) /\ Link!baseSequence(f) = Link!baseSequence(g)
            => f.part.of = g.part.of
    /\ \A f \in Frames : Cut(f) => Link!baseSequence(f) <= nextSequence
    /\ \A s \in Link!Slot : ring[s].seq <= nextSequence
    /\ \A s \in Link!Slot : \A k, l \in Present(ring[s].buffer) :
          ring[s].buffer[k].of = ring[s].buffer[l].of
    /\ \A s \in Link!Slot : \A k \in Present(ring[s].buffer) : \A f \in Frames :
          Cut(f) /\ Link!baseSequence(f) = ring[s].seq => f.part.of = ring[s].buffer[k].of
    /\ \A i \in DOMAIN delivered : \A k, l \in 1..Len(delivered[i]) :
          delivered[i][k].of = delivered[i][l].of

DeliveredFull == \A i \in DOMAIN delivered : delivered[i] # <<>>

LinkInv == LinkTyped /\ PartsPlaced /\ DeliveredFull /\ (OneRun => BasesDistinct)

\* A packet keeps its number of fragments when others are sent.
LEMMA SentGrows ==
    ASSUME sent \in Seq(Nat), sent' = sent \/ \E n \in Nat : sent' = Append(sent, n)
    PROVE  /\ sent' \in Seq(Nat)
           /\ \A p, k, count : PartAt(p, k, count) => PartAt(p, k, count)'
<1>1. sent' \in Seq(Nat) /\ Len(sent) <= Len(sent') /\ \A i \in 1..Len(sent) : sent'[i] = sent[i]
  OBVIOUS
<1>2. Len(sent) \in Nat /\ Len(sent') \in Nat
  BY <1>1
<1> QED
  BY <1>1, <1>2 DEF PartAt

\* The buffers and what was delivered stay in order when they do not change.
LEMMA PlacesKept ==
    ASSUME LinkTyped, PartsPlaced, UNCHANGED <<ring, delivered>>,
           sent' = sent \/ \E n \in Nat : sent' = Append(sent, n),
           \A f \in Frames' : FrameOK(f)'
    PROVE  PartsPlaced'
<1>1. \A p, k, count : PartAt(p, k, count) => PartAt(p, k, count)'
  BY SentGrows DEF LinkTyped
<1>2. ASSUME NEW s \in Link!Slot PROVE BufferOK(ring[s].buffer)'
  <2>1. BufferOK(ring[s].buffer)
    BY DEF PartsPlaced
  <2>2. \A buffer : BufferOK(buffer) => BufferOK(buffer)'
    BY <1>1 DEF BufferOK
  <2> QED
    BY <2>1, <2>2
<1>3. (\A i \in DOMAIN delivered : \A k \in 1..Len(delivered[i]) :
          PartAt(delivered[i][k], k, Len(delivered[i])))'
  BY <1>1 DEF PartsPlaced
<1> QED
  BY <1>2, <1>3 DEF PartsPlaced

\* Frames that are sent, lost or forgotten: nothing new is on its way.
LEMMA FewerFrames ==
    ASSUME LinkTyped, PartsPlaced, DeliveredFull, UNCHANGED <<ring, delivered>>,
           sent' = sent \/ \E n \in Nat : sent' = Append(sent, n),
           \A f \in Frames' : \E g \in Frames :
               f.seq = g.seq /\ f.count = g.count /\ f.part = g.part
    PROVE  /\ PartsPlaced' /\ DeliveredFull'
           /\ BasesDistinct /\ nextSequence' = nextSequence => BasesDistinct'
<1>1. \A p, k, count : PartAt(p, k, count) => PartAt(p, k, count)'
  BY SentGrows DEF LinkTyped
<1>2. ASSUME NEW f \in Frames' PROVE FrameOK(f)'
  <2>1. PICK g \in Frames : f.seq = g.seq /\ f.count = g.count /\ f.part = g.part
    OBVIOUS
  <2>2. FrameOK(g)
    BY DEF PartsPlaced
  <2> QED
    BY <1>1, <2>1, <2>2 DEF FrameOK
<1>3. PartsPlaced'
  BY <1>2, PlacesKept
<1>4. ASSUME BasesDistinct, nextSequence' = nextSequence PROVE BasesDistinct'
  <2>1. ASSUME NEW f \in Frames'
        PROVE  \E g \in Frames : /\ f.part = g.part /\ Cut(f) = Cut(g)
                                 /\ Link!baseSequence(f) = Link!baseSequence(g)
    BY DEF Cut, Link!baseSequence
  <2>2. \A f, g \in Frames' : Cut(f) /\ Cut(g) /\ Link!baseSequence(f) = Link!baseSequence(g)
            => f.part.of = g.part.of
    BY <1>4, <2>1 DEF BasesDistinct
  <2>3. \A f \in Frames' : Cut(f) => Link!baseSequence(f) <= nextSequence'
    BY <1>4, <2>1 DEF BasesDistinct
  <2>4. ASSUME NEW s \in Link!Slot, NEW k \in Present(ring[s].buffer), NEW f \in Frames',
               Cut(f), Link!baseSequence(f) = ring[s].seq
        PROVE  f.part.of = ring[s].buffer[k].of
    BY <1>4, <2>1, <2>4 DEF BasesDistinct
  <2> QED
    BY <1>4, <2>2, <2>3, <2>4 DEF BasesDistinct, Present
<1> QED
  BY <1>3, <1>4 DEF DeliveredFull

\* What the proofs need of the lengths of packets.
LEMMA PacketSizes ==
    ASSUME NEW bytes \in PacketSize
    PROVE  bytes \in Nat /\ bytes <= Link!TwoBytes
BY LinkAssumed DEF Link!LpLinkAssumption

\* Whatever the MTU, a frame has room for a fragment.
LEMMA RoomForFragment ==
    ASSUME mtu \in Mtu, overhead \in 0..MaxOverhead, NEW token \in BOOLEAN, NEW marked \in BOOLEAN
    PROVE  Link!effectiveMtu(token, marked) \in Nat \ {0}
BY LinkAssumed DEF MaxOverhead, Link!LpLinkAssumption, Link!effectiveMtu,
   Link!lpPacketOverhead, Link!fragmentOverhead, Link!incomingFaceOverhead,
   Link!pitTokenOverhead, Link!congestionMarkOverhead

\* The number of fragments of a packet.
LEMMA FragmentCount ==
    ASSUME NEW bytes \in Nat, NEW fit \in Nat \ {0}, bytes > fit
    PROVE  (bytes + fit - 1) \div fit \in Nat
OBVIOUS

\* A packet is cut: its fragments have a base sequence that no other has.
LEMMA FragmentStep ==
    ASSUME LinkInv, NEW bytes \in PacketSize, NEW token \in BOOLEAN, NEW marked \in BOOLEAN,
           NEW extra \in Extra, Link!Fragment(bytes, token, marked, extra)
    PROVE  LinkInv'
<1> DEFINE fit == Link!effectiveMtu(token, marked)
           count == (bytes + fit - 1) \div fit
           size(i) == IF i = count - 1 THEN bytes - fit * (count - 1) ELSE fit
           cut(k) == [seq |-> Link!SequenceOf(k - 1), count |-> count,
                      part |-> [of |-> Len(sent) + 1, idx |-> k - 1],
                      length |-> Link!FieldsLength(size(k - 1), TRUE, k - 1, count, token, marked, extra),
                      extra |-> extra]
<1>1. /\ LinkTyped /\ PartsPlaced /\ DeliveredFull /\ (OneRun => BasesDistinct)
      /\ mtu \in Mtu /\ overhead \in 0..MaxOverhead
      /\ nextSequence \in Nat /\ sent \in Seq(Nat) /\ Len(sent) \in Nat
  BY DEF LinkInv, LinkTyped
<1>2. fit \in Nat \ {0}
  BY <1>1, RoomForFragment
<1>3. bytes \in Nat /\ bytes > fit
  BY LinkAssumed DEF Link!LpLinkAssumption, Link!Fragment
<1> HIDE DEF fit
<1>4. count \in Nat
  BY <1>2, <1>3, FragmentCount
<1>5. /\ out = <<>>
      /\ out' = [k \in 1..count |-> cut(k)]
      /\ nextSequence' = nextSequence + count
      /\ sent' = Append(sent, count)
      /\ UNCHANGED <<mtu, overhead, net, ring, ringIndex, delivered>>
      /\ OneRun' = OneRun
  BY DEF Link!Fragment, Link!Sized, OneRun, fit
<1>6. \A i \in Int : size(i) \in Int
  BY <1>2, <1>3, <1>4
<1> HIDE DEF count, size
<1>7. ASSUME NEW k \in 1..count, NEW f, f = cut(k)
      PROVE  /\ f \in OutFrame
             /\ f.part.idx < f.count
             /\ PartAt(f.part, f.part.idx + 1, f.count)'
             /\ Link!baseSequence(f) = nextSequence + 1
             /\ f.part.of = Len(sent) + 1
  <2>1. k \in Nat /\ k - 1 \in Nat /\ k - 1 < count
    BY <1>4
  <2>2. extra \in Nat
    BY LinkAssumed DEF Link!LpLinkAssumption
  <2>3. Link!FieldsLength(size(k - 1), TRUE, k - 1, count, token, marked, extra) \in Int
    BY <1>4, <1>6, <2>1, <2>2 DEF Link!FieldsLength, Link!TLNum, Link!NatLength, Link!pitTokenOverhead
  <2>4. Link!SequenceOf(k - 1) = nextSequence + k
    BY <1>1, <2>1 DEF Link!SequenceOf
  <2>5. f.part = [of |-> Len(sent) + 1, idx |-> k - 1] /\ f.part \in Part
    BY <1>1, <1>7, <2>1 DEF Part
  <2>6. /\ f.seq = nextSequence + k /\ f.count = count /\ f.extra = extra
        /\ f.length = Link!FieldsLength(size(k - 1), TRUE, k - 1, count, token, marked, extra)
        /\ f = [seq |-> f.seq, count |-> f.count, part |-> f.part, length |-> f.length, extra |-> f.extra]
    BY <1>7, <2>4
  <2>7. f \in OutFrame
    <3>1. nextSequence + k \in Nat
      BY <1>1, <2>1
    <3>2. f.seq \in Nat /\ f.count \in Nat /\ f.length \in Int
      BY <1>4, <2>3, <2>6, <3>1, Zenon
    <3> QED
      BY <2>5, <2>6, <3>2 DEF OutFrame
  <2>8. f.part.idx = k - 1 /\ f.part.of = Len(sent) + 1
    BY <2>5
  <2>9. f.part.idx + 1 = k
    BY <2>1, <2>8
  <2>10. Link!baseSequence(f) = nextSequence + 1
    BY <1>1, <2>1, <2>6, <2>8 DEF Link!baseSequence
  <2>11. PartAt(f.part, f.part.idx + 1, f.count)'
    <3>1. sent' \in Seq(Nat) /\ Len(sent') = Len(sent) + 1 /\ sent'[Len(sent) + 1] = count
      BY <1>1, <1>4, <1>5
    <3>2. f.part.of \in 1..Len(sent')
      BY <1>1, <2>8, <3>1
    <3> QED
      BY <2>1, <2>6, <2>8, <2>9, <3>1, <3>2 DEF PartAt
  <2> QED
    BY <2>1, <2>6, <2>7, <2>8, <2>10, <2>11
<1> HIDE DEF cut
<1>8. \A f \in Frames' : f \in net \/ \E k \in 1..count : f = cut(k)
  BY <1>5 DEF Frames
<1>9. net \subseteq Frames
  BY DEF Frames
<1>10. LinkTyped'
  <2>1. out' \in Seq(OutFrame)
    BY <1>4, <1>5, <1>7
  <2>2. sent' \in Seq(Nat) /\ nextSequence' \in Nat
    BY <1>1, <1>4, <1>5
  <2> QED
    BY <1>1, <1>5, <2>1, <2>2 DEF LinkTyped
<1>11. \A p, k, c : PartAt(p, k, c) => PartAt(p, k, c)'
  BY <1>1, <1>4, <1>5, SentGrows
<1>12. ASSUME NEW f \in Frames' PROVE FrameOK(f)'
  <2>1. CASE f \in net
    <3>1. FrameOK(f)
      BY <1>1, <1>9, <2>1 DEF PartsPlaced
    <3> QED
      BY <1>11, <3>1 DEF FrameOK
  <2>2. CASE \E k \in 1..count : f = cut(k)
    BY <1>7, <2>2 DEF FrameOK, OutFrame
  <2> QED
    BY <1>8, <2>1, <2>2
<1>13. PartsPlaced'
  BY <1>1, <1>4, <1>5, <1>12, PlacesKept
<1>14. DeliveredFull'
  BY <1>1, <1>5 DEF DeliveredFull
<1>15. ASSUME OneRun' PROVE BasesDistinct'
  <2>1. BasesDistinct
    BY <1>1, <1>5, <1>15 DEF OneRun
  <2>2. ASSUME NEW f \in net, Cut(f)
        PROVE  Link!baseSequence(f) \in Int /\ Link!baseSequence(f) <= nextSequence
    <3>1. f \in Frames /\ FrameOK(f)
      BY <1>1, <1>9 DEF PartsPlaced
    <3> QED
      BY <2>1, <2>2, <3>1 DEF BasesDistinct, FrameOK, Link!baseSequence, Part
  <2>3. \A f, g \in Frames' : Cut(f) /\ Cut(g) /\ Link!baseSequence(f) = Link!baseSequence(g)
            => f.part.of = g.part.of
    <3> SUFFICES ASSUME NEW f \in Frames', NEW g \in Frames', Cut(f), Cut(g),
                        Link!baseSequence(f) = Link!baseSequence(g)
                 PROVE  f.part.of = g.part.of
      OBVIOUS
    <3>1. CASE f \in net /\ g \in net
      BY <1>9, <2>1, <3>1 DEF BasesDistinct
    <3>2. CASE ~(f \in net /\ g \in net)
      BY <1>1, <1>7, <1>8, <2>2, <3>2
    <3> QED
      BY <3>1, <3>2
  <2>4. \A f \in Frames' : Cut(f) => Link!baseSequence(f) <= nextSequence'
    <3> SUFFICES ASSUME NEW f \in Frames', Cut(f)
                 PROVE  Link!baseSequence(f) <= nextSequence + count
      BY <1>5
    <3>1. CASE f \in net
      BY <1>1, <1>4, <2>2, <3>1
    <3>2. CASE f \notin net
      <4>1. PICK k \in 1..count : f = cut(k)
        BY <1>8, <3>2
      <4>2. Link!baseSequence(f) = nextSequence + 1
        BY <1>7, <4>1
      <4> QED
        BY <1>1, <1>4, <4>2
    <3> QED
      BY <3>1, <3>2
  <2>5. \A s \in Link!Slot : ring[s].seq \in Int /\ ring[s].seq <= nextSequence
    BY <1>1, <2>1 DEF BasesDistinct, LinkTyped
  <2>6. \A s \in Link!Slot : ring'[s].seq <= nextSequence'
    BY <1>1, <1>4, <1>5, <2>5
  <2>7. ASSUME NEW s \in Link!Slot, NEW k \in Present(ring[s].buffer), NEW f \in Frames',
               Cut(f), Link!baseSequence(f) = ring[s].seq
        PROVE  f.part.of = ring[s].buffer[k].of
    <3>1. CASE f \in net
      BY <1>9, <2>1, <2>7, <3>1 DEF BasesDistinct
    <3>2. CASE f \notin net
      BY <1>1, <1>7, <1>8, <2>5, <2>7, <3>2
    <3> QED
      BY <3>1, <3>2
  <2> QED
    BY <1>5, <2>1, <2>3, <2>4, <2>6, <2>7 DEF BasesDistinct, Present
<1> QED
  BY <1>10, <1>13, <1>14, <1>15 DEF LinkInv

\* A packet goes into one frame, which no buffer is for.
LEMMA SendWholeStep ==
    ASSUME LinkInv, NEW bytes \in PacketSize, NEW token \in BOOLEAN, NEW marked \in BOOLEAN,
           NEW extra \in Extra, Link!SendWhole(bytes, token, marked, extra)
    PROVE  LinkInv'
<1> DEFINE whole == [seq |-> 0, count |-> 1, part |-> [of |-> Len(sent) + 1, idx |-> 0],
                     length |-> Link!FieldsLength(bytes, FALSE, 0, 1, token, marked, extra),
                     extra |-> extra]
<1>1. /\ LinkTyped /\ PartsPlaced /\ DeliveredFull /\ (OneRun => BasesDistinct)
      /\ nextSequence \in Nat /\ sent \in Seq(Nat) /\ Len(sent) \in Nat
  BY DEF LinkInv, LinkTyped
<1>2. /\ out = <<>>
      /\ out' = <<whole>>
      /\ sent' = Append(sent, 1)
      /\ UNCHANGED <<mtu, overhead, nextSequence, net, ring, ringIndex, delivered>>
      /\ OneRun' = OneRun
  BY DEF Link!SendWhole, Link!Sized, OneRun
<1>3. ASSUME NEW f, f = whole
      PROVE  /\ f \in OutFrame
             /\ FrameOK(f)' /\ ~Cut(f)
  <2>1. bytes \in Nat /\ extra \in Nat
    BY LinkAssumed DEF Link!LpLinkAssumption
  <2>2. Link!FieldsLength(bytes, FALSE, 0, 1, token, marked, extra) \in Int
    BY <2>1 DEF Link!FieldsLength, Link!TLNum, Link!pitTokenOverhead
  <2>3. f.part = [of |-> Len(sent) + 1, idx |-> 0] /\ f.part \in Part
    BY <1>1, <1>3 DEF Part
  <2>4. f.seq = 0 /\ f.count = 1 /\ f.part.idx = 0 /\ f.part.of = Len(sent) + 1
    BY <1>3, <2>3
  <2>5. f \in OutFrame
    BY <1>3, <2>2, <2>3 DEF OutFrame
  <2>6. sent' \in Seq(Nat) /\ Len(sent') = Len(sent) + 1 /\ sent'[Len(sent) + 1] = 1
    BY <1>1, <1>2
  <2>7. PartAt(f.part, f.part.idx + 1, f.count)'
    BY <1>1, <2>4, <2>6 DEF PartAt
  <2> QED
    BY <2>3, <2>4, <2>5, <2>7 DEF FrameOK, Cut
<1> HIDE DEF whole
<1>4. \A f \in Frames' : f \in Frames \/ f = whole
  BY <1>2 DEF Frames
<1>5. LinkTyped'
  <2>1. sent' \in Seq(Nat)
    BY <1>1, <1>2
  <2>2. out' \in Seq(OutFrame)
    BY <1>2, <1>3
  <2> QED
    BY <1>1, <1>2, <2>1, <2>2 DEF LinkTyped
<1>6. \A p, k, c : PartAt(p, k, c) => PartAt(p, k, c)'
  BY <1>1, <1>2, SentGrows
<1>7. \A f \in Frames' : FrameOK(f)'
  BY <1>1, <1>3, <1>4, <1>6 DEF PartsPlaced, FrameOK
<1>8. PartsPlaced'
  BY <1>1, <1>2, <1>7, PlacesKept
<1>9. BasesDistinct => BasesDistinct'
  <2>1. \A f \in Frames' : Cut(f) => f \in Frames
    BY <1>3, <1>4
  <2> QED
    BY <1>2, <2>1 DEF BasesDistinct, Present
<1> QED
  BY <1>1, <1>2, <1>5, <1>8, <1>9 DEF LinkInv, DeliveredFull, OneRun

\* The steps that send, lose or drop frames, and those of management: no frame
\* is made, and no buffer touched.
LEMMA QuietLinkStep ==
    ASSUME LinkInv,
           \/ \E bytes \in PacketSize, token, marked \in BOOLEAN : Link!DropLarge(bytes, token, marked)
           \/ Link!SendFrame
           \/ \E n \in Mtu : Link!SetMTU(n)
           \/ \E i \in Indicating : Link!SetOptions(i)
           \/ \E sum \in Link!OverheadSums : Link!computeHeaderOverhead(sum)
           \/ Link!Restart
           \/ \E f \in net : Link!Lose(f)
           \/ UNCHANGED Link!vars
    PROVE  LinkInv'
<1>1. /\ LinkTyped /\ PartsPlaced /\ DeliveredFull /\ (OneRun => BasesDistinct)
      /\ out \in Seq(OutFrame)
      /\ sent \in Seq(Nat)
  BY DEF LinkInv, LinkTyped
<1>2. /\ UNCHANGED <<ring, ringIndex, delivered>>
      /\ mtu' \in Mtu /\ nextSequence' \in Nat /\ overhead' \in 0..MaxOverhead
      /\ sent' = sent \/ \E n \in Nat : sent' = Append(sent, n)
      /\ faults \subseteq faults'
      /\ nextSequence' = nextSequence \/ "restarted" \in faults'
  <2>1. Link!headerOverhead \in 0..MaxOverhead /\ Link!OverheadSums \subseteq 0..MaxOverhead
    BY DEF MaxOverhead, Link!OverheadSums, Link!headerOverhead, Link!lpPacketOverhead,
           Link!fragmentOverhead, Link!incomingFaceOverhead
  <2>2. overhead' \in 0..MaxOverhead
    BY <1>1, <2>1 DEF LinkTyped, Link!DropLarge, Link!SendFrame, Link!SetMTU, Link!SetOptions,
              Link!computeHeaderOverhead, Link!Restart, Link!Lose, Link!vars
  <2> QED
    BY <1>1, <2>2 DEF LinkTyped, Link!DropLarge, Link!SendFrame, Link!SetMTU, Link!SetOptions,
              Link!computeHeaderOverhead, Link!Changed, Link!Restart, Link!Lose, Link!vars
<1>3. /\ out' = out \/ out' = <<>> \/ (out # <<>> /\ out' = Tail(out))
      /\ \/ net' \subseteq net
         \/ /\ out # <<>>
            /\ net' = net \cup {[seq |-> Head(out).seq, count |-> Head(out).count, part |-> Head(out).part]}
  BY DEF Link!DropLarge, Link!SendFrame, Link!SetMTU, Link!SetOptions, Link!computeHeaderOverhead,
         Link!Restart, Link!Lose, Link!vars
<1>4. \A f \in Frames' : \E g \in Frames : f.seq = g.seq /\ f.count = g.count /\ f.part = g.part
  <2>1. ASSUME NEW i \in DOMAIN out' PROVE out'[i] \in Frames
    <3>1. CASE out # <<>> /\ out' = Tail(out)
      <4>1. i + 1 \in DOMAIN out /\ out'[i] = out[i + 1]
        BY <1>1, <3>1
      <4> QED
        BY <4>1 DEF Frames
    <3>2. CASE out' = out
      BY <3>2 DEF Frames
    <3>3. CASE out' = <<>>
      BY <3>3
    <3> QED
      BY <1>3, <3>1, <3>2, <3>3
  <2>2. ASSUME NEW f \in net'
        PROVE  \E g \in Frames : f.seq = g.seq /\ f.count = g.count /\ f.part = g.part
    <3>1. CASE f \in net
      BY <3>1 DEF Frames
    <3>2. CASE f \notin net
      <4>1. /\ out # <<>>
            /\ f = [seq |-> Head(out).seq, count |-> Head(out).count, part |-> Head(out).part]
        BY <1>3, <3>2
      <4>2. Head(out) \in Frames
        <5>1. Head(out) = out[1] /\ 1 \in DOMAIN out
          BY <1>1, <4>1
        <5> QED
          BY <5>1 DEF Frames
      <4> QED
        BY <4>1, <4>2
    <3> QED
      BY <3>1, <3>2
  <2> QED
    BY <2>1, <2>2 DEF Frames
<1>5. /\ PartsPlaced' /\ DeliveredFull'
      /\ BasesDistinct /\ nextSequence' = nextSequence => BasesDistinct'
  BY <1>1, <1>2, <1>4, FewerFrames
<1>6. LinkTyped'
  <2>1. sent' \in Seq(Nat)
    BY <1>1, <1>2, SentGrows
  <2>2. out' \in Seq(OutFrame)
    <3>1. <<>> \in Seq(OutFrame)
      OBVIOUS
    <3>2. out # <<>> => Tail(out) \in Seq(OutFrame)
      BY <1>1
    <3> QED
      BY <1>1, <1>3, <3>1, <3>2
  <2> QED
    BY <1>1, <1>2, <2>1, <2>2 DEF LinkTyped
<1>7. OneRun' => OneRun /\ nextSequence' = nextSequence
  BY <1>2 DEF OneRun
<1> QED
  BY <1>1, <1>5, <1>6, <1>7 DEF LinkInv

\* The least element of a set of slots, as LpLink takes it.
LEMMA LeastSlot ==
    ASSUME NEW T \in SUBSET Link!Slot, T # {}
    PROVE  Link!Min(T) \in T
<1>1. Link!Min(T) = Min(T)
  BY DEF Link!Min, Min
<1>2. T \in SUBSET Nat
  BY LinkAssumed DEF Link!Slot, Link!LpLinkAssumption
<1> QED
  BY <1>1, <1>2, LeastOfNaturals

\* The buffer that reassemble finds or opens for a fragment: of the right base
\* sequence, and without a part of another packet.
LEMMA OpenedBuffer ==
    ASSUME LinkInv, NEW f \in net, Cut(f), NEW s, s = Link!bufIndex(Link!baseSequence(f)),
           NEW opened, opened = Link!Opened(f)
    PROVE  /\ s \in Link!Slot /\ DOMAIN opened = Link!Slot
           /\ \A t \in Link!Slot \ {s} : opened[t] = ring[t]
           /\ opened[s] \in [seq : Int, buffer : Seq(Part)]
           /\ opened[s].seq = Link!baseSequence(f)
           /\ BufferOK(opened[s].buffer)
           /\ OneRun => \A k \in Present(opened[s].buffer) : opened[s].buffer[k].of = f.part.of
<1> DEFINE base == Link!baseSequence(f)
<1>1. f \in Frames /\ FrameOK(f) /\ LinkTyped /\ PartsPlaced /\ (OneRun => BasesDistinct)
  BY DEF LinkInv, PartsPlaced, Frames
<1>2. base \in Int
  BY <1>1 DEF FrameOK, Part, Link!baseSequence
<1> HIDE DEF base
<1>3. CASE Link!Found(base)
  <2>1. opened = ring /\ s = Link!Min(Link!Matches(base)) /\ Link!Matches(base) # {}
    BY <1>3 DEF Link!Opened, Link!bufIndex, Link!Found, base
  <2>2. s \in Link!Matches(base)
    BY <2>1, LeastSlot DEF Link!Matches
  <2>3. s \in Link!Slot /\ ring[s].seq = base
    BY <2>2 DEF Link!Matches
  <2>4. OneRun => \A k \in Present(ring[s].buffer) : ring[s].buffer[k].of = f.part.of
    BY <1>1, <2>3 DEF BasesDistinct, base
  <2> QED
    BY <1>1, <2>1, <2>3, <2>4 DEF LinkTyped, PartsPlaced, base
<1>4. CASE ~Link!Found(base)
  <2> DEFINE empty == [k \in 1..f.count |-> Link!Missing]
  <2>1. s = (ringIndex + 1) % RingSize /\ opened = [ring EXCEPT ![s] = [seq |-> base, buffer |-> empty]]
    BY <1>4 DEF Link!Opened, Link!bufIndex, base
  <2>2. s \in Link!Slot
    <3>1. RingSize \in Nat \ {0} /\ ringIndex \in Nat
      BY <1>1, LinkAssumed DEF LinkTyped, Link!LpLinkAssumption
    <3> QED
      BY <2>1, <3>1 DEF Link!Slot
  <2>3. empty \in Seq(Part) /\ Len(empty) = f.count /\ \A k \in 1..f.count : empty[k] = Link!Missing
    <3>1. f.count \in Nat /\ Link!Missing \in Part
      BY <1>1 DEF FrameOK, Link!Missing, Part
    <3> QED
      BY <3>1
  <2> HIDE DEF empty
  <2>4. Present(empty) = {}
    BY <2>3 DEF Present
  <2>5. opened[s] = [seq |-> base, buffer |-> empty] /\ DOMAIN opened = Link!Slot
    BY <1>1, <2>1, <2>2 DEF LinkTyped
  <2> QED
    BY <1>1, <1>2, <2>1, <2>2, <2>3, <2>4, <2>5 DEF LinkTyped, BufferOK, base
<1> QED
  BY <1>3, <1>4

\* The buffer with the fragment, if it can be one of its packet.
Filled(f, old) ==
    IF f.count = Len(old) /\ f.part.idx < f.count
    THEN [old EXCEPT ![f.part.idx + 1] = f.part] ELSE old

\* A fragment is put at its place in a buffer for its packet.
LEMMA FilledBuffer ==
    ASSUME NEW f, FrameOK(f), NEW old, BufferOK(old), NEW new,
           new = Filled(f, old)
    PROVE  /\ BufferOK(new) /\ Len(new) = Len(old)
           /\ (\A k \in Present(old) : old[k].of = f.part.of)
                => \A k \in Present(new) : new[k].of = f.part.of
<1>1. CASE f.count = Len(old) /\ f.part.idx < f.count
  <2>1. /\ f.part.idx + 1 \in 1..Len(old) /\ f.part \in Part
        /\ PartAt(f.part, f.part.idx + 1, Len(old))
    BY <1>1 DEF FrameOK, Part
  <2>2. new = [old EXCEPT ![f.part.idx + 1] = f.part] /\ old \in Seq(Part)
    BY <1>1 DEF BufferOK, Filled
  <2>3. /\ new \in Seq(Part) /\ Len(new) = Len(old)
        /\ new[f.part.idx + 1] = f.part
        /\ \A k \in 1..Len(old) : k # f.part.idx + 1 => new[k] = old[k]
    BY <2>1, <2>2
  <2>4. ASSUME NEW k \in Present(new)
        PROVE  k = f.part.idx + 1 \/ (k \in Present(old) /\ new[k] = old[k])
    BY <2>3 DEF Present
  <2>5. BufferOK(new)
    BY <2>1, <2>3, <2>4 DEF BufferOK
  <2> QED
    BY <2>3, <2>4, <2>5
<1>2. CASE ~(f.count = Len(old) /\ f.part.idx < f.count)
  BY <1>2 DEF Filled
<1> QED
  BY <1>1, <1>2

\* A frame comes in: a fragment joins its buffer, and a complete packet is
\* handed on.
LEMMA ReceiveStep ==
    ASSUME LinkInv, NEW f \in net, NEW copy \in BOOLEAN, Link!handleIncomingFrame(f, copy)
    PROVE  LinkInv'
<1>1. /\ LinkTyped /\ PartsPlaced /\ DeliveredFull /\ (OneRun => BasesDistinct)
      /\ f \in Frames /\ FrameOK(f) /\ delivered \in Seq(Seq(Part))
  BY DEF LinkInv, LinkTyped, PartsPlaced, Frames
<1>2. /\ UNCHANGED <<mtu, overhead, nextSequence, out, sent>>
      /\ net' \subseteq net
      /\ faults \subseteq faults'
      /\ Link!ReceiveWhole(f) \/ Link!Reassemble(f)
  BY DEF Link!handleIncomingFrame
<1>3. Frames' \subseteq Frames /\ (OneRun' => OneRun)
  BY <1>2 DEF Frames, OneRun
<1>4. \A p, k, count : PartAt(p, k, count) => PartAt(p, k, count)'
  BY <1>2 DEF PartAt
<1>5. \A g \in Frames' : FrameOK(g)'
  BY <1>1, <1>3, <1>4 DEF PartsPlaced, FrameOK
<1>6. \A buffer : BufferOK(buffer) => BufferOK(buffer)'
  BY <1>4 DEF BufferOK
<1>7. ASSUME NEW d \in Seq(Part), d # <<>>, delivered' = Append(delivered, d),
             \A k \in 1..Len(d) : PartAt(d[k], k, Len(d)),
             OneRun => \A k, l \in 1..Len(d) : d[k].of = d[l].of
      PROVE  /\ delivered' \in Seq(Seq(Part)) /\ DeliveredFull'
             /\ (\A i \in DOMAIN delivered : \A k \in 1..Len(delivered[i]) :
                   PartAt(delivered[i][k], k, Len(delivered[i])))'
             /\ OneRun' => \A i \in DOMAIN delivered' : \A k, l \in 1..Len(delivered'[i]) :
                             delivered'[i][k].of = delivered'[i][l].of
  <2>1. /\ delivered' \in Seq(Seq(Part))
        /\ \A i \in DOMAIN delivered' : delivered'[i] = d \/ (i \in DOMAIN delivered /\ delivered'[i] = delivered[i])
    BY <1>1, <1>7
  <2>2. DeliveredFull'
    BY <1>1, <1>7, <2>1 DEF DeliveredFull
  <2>3. (\A i \in DOMAIN delivered : \A k \in 1..Len(delivered[i]) :
           PartAt(delivered[i][k], k, Len(delivered[i])))'
    BY <1>1, <1>4, <1>7, <2>1 DEF PartsPlaced
  <2>4. OneRun' => \A i \in DOMAIN delivered' : \A k, l \in 1..Len(delivered'[i]) :
                             delivered'[i][k].of = delivered'[i][l].of
    BY <1>1, <1>3, <1>7, <2>1 DEF BasesDistinct
  <2> QED
    BY <2>1, <2>2, <2>3, <2>4
<1>8. ASSUME UNCHANGED delivered
      PROVE  /\ delivered' \in Seq(Seq(Part)) /\ DeliveredFull'
             /\ (\A i \in DOMAIN delivered : \A k \in 1..Len(delivered[i]) :
                   PartAt(delivered[i][k], k, Len(delivered[i])))'
             /\ OneRun' => \A i \in DOMAIN delivered' : \A k, l \in 1..Len(delivered'[i]) :
                             delivered'[i][k].of = delivered'[i][l].of
  BY <1>1, <1>3, <1>4, <1>8 DEF PartsPlaced, BasesDistinct, DeliveredFull
<1>9. CASE Link!ReceiveWhole(f)
  <2>1. delivered' = Append(delivered, <<f.part>>) /\ f.count = 1 /\ UNCHANGED <<ring, ringIndex>>
    BY <1>9 DEF Link!ReceiveWhole
  <2> DEFINE d == <<f.part>>
  <2>2. d \in Seq(Part) /\ d # <<>> /\ Len(d) = 1 /\ d[1] = f.part
    BY <1>1 DEF FrameOK
  <2>3. f.part.idx + 1 = 1
    BY <1>1, <2>1 DEF FrameOK, Part
  <2>4. delivered' = Append(delivered, d)
    BY <2>1
  <2> HIDE DEF d
  <2>5. PartAt(d[1], 1, Len(d))
    BY <1>1, <2>1, <2>2, <2>3 DEF FrameOK
  <2>6. /\ \A k \in 1..Len(d) : PartAt(d[k], k, Len(d))
        /\ \A k, l \in 1..Len(d) : d[k].of = d[l].of
    BY <2>2, <2>5
  <2>7. LinkTyped'
    BY <1>1, <1>2, <1>7, <2>1, <2>2, <2>4, <2>6 DEF LinkTyped
  <2>8. \A s \in Link!Slot : BufferOK(ring[s].buffer)'
    BY <1>1, <1>6, <2>1 DEF PartsPlaced
  <2>9. PartsPlaced' /\ DeliveredFull'
    BY <1>5, <1>7, <2>2, <2>4, <2>6, <2>8 DEF PartsPlaced
  <2>10. OneRun' => BasesDistinct'
    BY <1>1, <1>2, <1>3, <1>7, <2>1, <2>2, <2>4, <2>6 DEF BasesDistinct, Present
  <2> QED
    BY <2>7, <2>9, <2>10 DEF LinkInv
<1>10. CASE Link!Reassemble(f)
  <2>1. PICK s : s = Link!bufIndex(Link!baseSequence(f))
    OBVIOUS
  <2>2. PICK opened : opened = Link!Opened(f)
    OBVIOUS
  <2>0. PICK old : old = opened[s].buffer
    OBVIOUS
  <2>3. PICK buf : buf = Filled(f, old)
    OBVIOUS
  <2>4. PICK complete \in BOOLEAN :
            complete = (f.count = Len(old) /\ f.part.idx < f.count /\ Link!Complete(buf))
    OBVIOUS
  <2>5. /\ Cut(f)
        /\ ringIndex' = ringIndex \/ ringIndex' = s
        /\ ring' = [opened EXCEPT ![s] = IF complete THEN Link!Free ELSE [@ EXCEPT !.buffer = buf]]
        /\ delivered' = IF complete THEN Append(delivered, buf) ELSE delivered
    BY <1>10, <2>0, <2>1, <2>2, <2>3, <2>4 DEF Link!Reassemble, Link!Freed, Cut, Filled
  <2>6. /\ s \in Link!Slot /\ DOMAIN opened = Link!Slot
        /\ \A t \in Link!Slot \ {s} : opened[t] = ring[t]
        /\ opened[s] \in [seq : Int, buffer : Seq(Part)]
        /\ opened[s].seq = Link!baseSequence(f)
        /\ BufferOK(opened[s].buffer)
        /\ OneRun => \A k \in Present(opened[s].buffer) : opened[s].buffer[k].of = f.part.of
    BY <2>1, <2>2, <2>5, OpenedBuffer
  <2>7. /\ BufferOK(buf) /\ buf \in Seq(Part) /\ Len(buf) = Len(opened[s].buffer)
        /\ OneRun => \A k \in Present(buf) : buf[k].of = f.part.of
    <3>1. FrameOK(f) /\ BufferOK(old)
      BY <1>1, <2>0, <2>6
    <3>2. /\ BufferOK(buf) /\ Len(buf) = Len(old)
          /\ (\A k \in Present(old) : old[k].of = f.part.of)
                => \A k \in Present(buf) : buf[k].of = f.part.of
      BY <2>3, <3>1, FilledBuffer
    <3> QED
      BY <2>0, <2>6, <3>2 DEF BufferOK
  <2>8. /\ DOMAIN ring' = Link!Slot
        /\ \A t \in Link!Slot \ {s} : ring'[t] = ring[t]
        /\ ring'[s] = IF complete THEN Link!Free ELSE [seq |-> Link!baseSequence(f), buffer |-> buf]
    <3>1. [opened[s] EXCEPT !.buffer = buf] = [seq |-> Link!baseSequence(f), buffer |-> buf]
      BY <2>6
    <3> QED
      BY <2>5, <2>6, <3>1
  <2>9. /\ ring'[s] \in [seq : Int, buffer : Seq(Part)]
        /\ BufferOK(ring'[s].buffer)
        /\ OneRun => \A k \in Present(ring'[s].buffer) : ring'[s].buffer[k].of = f.part.of
        /\ ring'[s].seq = 0 \/ ring'[s].seq = Link!baseSequence(f)
        /\ ring'[s].buffer = <<>> \/ ring'[s].seq = Link!baseSequence(f)
    <3>1. CASE complete
      <4>1. ring'[s] = [seq |-> 0, buffer |-> <<>>]
        BY <2>8, <3>1 DEF Link!Free
      <4>2. Present(<<>>) = {} /\ BufferOK(<<>>)
        BY DEF Present, BufferOK
      <4> QED
        BY <4>1, <4>2
    <3>2. CASE ~complete
      <4>1. ring'[s] = [seq |-> Link!baseSequence(f), buffer |-> buf]
        BY <2>8, <3>2
      <4>2. Link!baseSequence(f) \in Int
        BY <2>6
      <4> QED
        BY <2>7, <4>1, <4>2
    <3> QED
      BY <3>1, <3>2
  <2>10. /\ delivered' \in Seq(Seq(Part)) /\ DeliveredFull'
         /\ (\A i \in DOMAIN delivered : \A k \in 1..Len(delivered[i]) :
               PartAt(delivered[i][k], k, Len(delivered[i])))'
         /\ OneRun' => \A i \in DOMAIN delivered' : \A k, l \in 1..Len(delivered'[i]) :
                         delivered'[i][k].of = delivered'[i][l].of
    <3>1. CASE complete
      <4>1. Len(buf) = f.count /\ Present(buf) = 1..Len(buf)
        BY <2>0, <2>4, <2>7, <3>1 DEF Link!Complete, Present
      <4>2. buf # <<>>
        BY <2>5, <4>1 DEF Cut
      <4>3. /\ \A k \in 1..Len(buf) : PartAt(buf[k], k, Len(buf))
            /\ OneRun => \A k, l \in 1..Len(buf) : buf[k].of = buf[l].of
        BY <2>7, <4>1 DEF BufferOK
      <4> QED
        BY <1>7, <2>5, <2>7, <3>1, <4>2, <4>3
    <3>2. CASE ~complete
      BY <1>8, <2>5, <3>2
    <3> QED
      BY <3>1, <3>2
  <2>11. LinkTyped'
    <3>1. s \in Nat
      BY <2>6, LinkAssumed DEF Link!Slot, Link!LpLinkAssumption
    <3>2. \A t \in Link!Slot : ring'[t] \in [seq : Int, buffer : Seq(Part)]
      BY <1>1, <2>8, <2>9 DEF LinkTyped
    <3> QED
      BY <1>1, <1>2, <2>5, <2>8, <2>10, <3>1, <3>2 DEF LinkTyped
  <2>12. PartsPlaced'
    <3>1. \A t \in Link!Slot : BufferOK(ring'[t].buffer)
      BY <1>1, <2>8, <2>9 DEF PartsPlaced
    <3>2. \A t \in Link!Slot : BufferOK(ring[t].buffer)'
      BY <1>2, <3>1 DEF BufferOK, Present, PartAt
    <3> QED
      BY <1>5, <2>10, <3>2 DEF PartsPlaced
  <2>13. ASSUME OneRun' PROVE BasesDistinct'
    <3>1. OneRun /\ BasesDistinct
      BY <1>1, <1>3, <2>13
    <3>2. \A t \in Link!Slot : ring'[t].seq <= nextSequence'
      <4>1. nextSequence \in Nat /\ Link!baseSequence(f) <= nextSequence
        BY <1>1, <2>5, <3>1 DEF BasesDistinct, LinkTyped
      <4> QED
        BY <1>2, <2>8, <2>9, <3>1, <4>1 DEF BasesDistinct
    <3>3. \A t \in Link!Slot : \A k, l \in Present(ring'[t].buffer) :
              ring'[t].buffer[k].of = ring'[t].buffer[l].of
      BY <2>8, <2>9, <3>1 DEF BasesDistinct
    <3>4. ASSUME NEW t \in Link!Slot, NEW k \in Present(ring'[t].buffer), NEW g \in Frames',
                 Cut(g), Link!baseSequence(g) = ring'[t].seq
          PROVE  g.part.of = ring'[t].buffer[k].of
      <4>1. g \in Frames
        BY <1>3
      <4>2. CASE t = s
        <5>1. ring'[s].buffer # <<>>
          BY <3>4, <4>2 DEF Present
        <5>2. Link!baseSequence(g) = Link!baseSequence(f)
          BY <2>9, <3>4, <4>2, <5>1
        <5>3. g.part.of = f.part.of
          BY <1>1, <2>5, <3>1, <3>4, <4>1, <5>2 DEF BasesDistinct
        <5> QED
          BY <2>9, <3>1, <3>4, <4>2, <5>3
      <4>3. CASE t # s
        BY <2>8, <3>1, <3>4, <4>1, <4>3 DEF BasesDistinct
      <4> QED
        BY <4>2, <4>3
    <3>5. /\ \A g, h \in Frames' : Cut(g) /\ Cut(h) /\ Link!baseSequence(g) = Link!baseSequence(h)
                => g.part.of = h.part.of
          /\ \A g \in Frames' : Cut(g) => Link!baseSequence(g) <= nextSequence'
      BY <1>2, <1>3, <3>1 DEF BasesDistinct
    <3> QED
      BY <2>10, <2>13, <3>2, <3>3, <3>4, <3>5 DEF BasesDistinct, Present
  <2> QED
    BY <2>10, <2>11, <2>12, <2>13 DEF LinkInv
<1> QED
  BY <1>2, <1>9, <1>10

\* Every step of the link keeps the parts in place.
LEMMA LinkStep == LinkInv /\ [Link!Next]_Link!vars => LinkInv'
<1> SUFFICES ASSUME LinkInv, [Link!Next]_Link!vars PROVE LinkInv'
  OBVIOUS
<1>1. ASSUME NEW bytes \in PacketSize, NEW token \in BOOLEAN, NEW marked \in BOOLEAN,
             NEW extra \in Extra,
             Link!Fragment(bytes, token, marked, extra) \/ Link!SendWhole(bytes, token, marked, extra)
      PROVE  LinkInv'
  BY <1>1, FragmentStep, SendWholeStep
<1>2. ASSUME NEW f \in net, NEW copy \in BOOLEAN, Link!handleIncomingFrame(f, copy)
      PROVE  LinkInv'
  BY <1>2, ReceiveStep
<1>3. CASE \/ \E bytes \in PacketSize, token, marked \in BOOLEAN : Link!DropLarge(bytes, token, marked)
           \/ Link!SendFrame
           \/ \E n \in Mtu : Link!SetMTU(n)
           \/ \E i \in Indicating : Link!SetOptions(i)
           \/ \E sum \in Link!OverheadSums : Link!computeHeaderOverhead(sum)
           \/ Link!Restart
           \/ \E f \in net : Link!Lose(f)
           \/ UNCHANGED Link!vars
  BY <1>3, QuietLinkStep
<1> QED
  BY <1>1, <1>2, <1>3 DEF Link!Next

\* Nothing is on its way at the start, and the buffers are free.
LEMMA LinkInit == Link!Init => LinkInv
<1> SUFFICES ASSUME Link!Init PROVE LinkInv
  OBVIOUS
<1>1. /\ out = <<>> /\ net = {} /\ delivered = <<>> /\ sent = <<>> /\ nextSequence = 0 /\ ringIndex = 0
      /\ mtu \in Mtu /\ overhead = Link!headerOverhead
      /\ ring = [s \in Link!Slot |-> Link!Free]
  BY DEF Link!Init
<1>0. overhead \in 0..MaxOverhead
  BY <1>1 DEF MaxOverhead, Link!headerOverhead, Link!lpPacketOverhead, Link!fragmentOverhead,
              Link!incomingFaceOverhead
<1>2. Frames = {}
  BY <1>1 DEF Frames
<1>3. /\ Link!Free \in [seq : Int, buffer : Seq(Part)] /\ Link!Free.seq = 0
      /\ BufferOK(Link!Free.buffer) /\ Present(Link!Free.buffer) = {}
  BY DEF Link!Free, BufferOK, Present
<1> QED
  BY <1>0, <1>1, <1>2, <1>3 DEF LinkInv, LinkTyped, PartsPlaced, DeliveredFull, BasesDistinct

\* Parts in place make whole packets.
LEMMA PlacedIsWhole == LinkInv => Link!WholePacketsOnly
<1> SUFFICES ASSUME LinkInv, NEW i \in DOMAIN delivered
             PROVE  /\ OneRun => \E p \in 1..Len(sent) : delivered[i] = Link!Whole(p)
                    /\ \A k \in 1..Len(delivered[i]) : /\ delivered[i][k].idx = k - 1
                                                       /\ sent[delivered[i][k].of] = Len(delivered[i])
  BY DEF Link!WholePacketsOnly, Link!Range, OneRun
<1> DEFINE d == delivered[i]
<1>1. /\ d \in Seq(Part) /\ d # <<>>
      /\ \A k \in 1..Len(d) : PartAt(d[k], k, Len(d))
      /\ OneRun => \A k, l \in 1..Len(d) : d[k].of = d[l].of
  BY DEF LinkInv, LinkTyped, PartsPlaced, DeliveredFull, BasesDistinct
<1> HIDE DEF d
<1>2. 1 \in 1..Len(d)
  BY <1>1
<1>3. ASSUME OneRun PROVE d = Link!Whole(d[1].of) /\ d[1].of \in 1..Len(sent)
  <2>1. d[1].of \in 1..Len(sent) /\ sent[d[1].of] = Len(d)
    BY <1>1, <1>2 DEF PartAt
  <2>2. ASSUME NEW k \in 1..Len(d) PROVE d[k] = [of |-> d[1].of, idx |-> k - 1]
    <3>1. d[k] \in Part /\ d[k].of = d[1].of /\ d[k].idx = k - 1
      BY <1>1, <1>2, <1>3 DEF PartAt
    <3> QED
      BY <3>1 DEF Part
  <2>3. d = [k \in 1..Len(d) |-> d[k]]
    BY <1>1
  <2>4. d = [k \in 1..Len(d) |-> [of |-> d[1].of, idx |-> k - 1]]
    BY <2>2, <2>3
  <2> QED
    BY <2>1, <2>4 DEF Link!Whole
<1> QED
  BY <1>1, <1>3 DEF PartAt, d

\* What reassembly hands on is a packet that was sent, whole, on a link that
\* loses, repeats and reorders frames, with a ring of any size, while the MTU
\* and the options change; and after a restart of the sender, which uses its
\* sequence numbers again, still a packet of the right length with every part
\* at its place (handleIncomingFrame, reassemble).
THEOREM ReassemblyIsWhole == PartsSpec => []WholePacketsOnly
<1> DEFINE FrameInv == part = "frame" => LinkInv
<1>1. PartsInit => FrameInv
  BY LinkInit DEF PartsInit
<1>2. FrameInv /\ [PartsNext]_<<part, vars, hashVars, codecVars, linkVars>> => FrameInv'
  <2> SUFFICES ASSUME FrameInv, [PartsNext]_<<part, vars, hashVars, codecVars, linkVars>>,
                      part' = "frame"
               PROVE  LinkInv'
    OBVIOUS
  <2>1. part = "frame" /\ [Link!Next]_Link!vars
    BY DEF PartsNext, linkVars, Link!vars
  <2> QED
    BY <2>1, LinkStep
<1>3. FrameInv => WholePacketsOnly
  BY PlacedIsWhole DEF WholePacketsOnly
<1> HIDE DEF FrameInv
<1> QED
  BY <1>1, <1>2, <1>3, PTL DEF PartsSpec

-----------------------------------------------------------------------------
(***************************************************************************)
(* A link without losses                                                   *)
(***************************************************************************)
\* Cutting into as many fragments as sendPacket computes leaves no fragment
\* larger than what a frame can carry.
LEMMA CutSizes ==
    ASSUME NEW bytes \in Nat, NEW fit \in Nat \ {0}, bytes > fit,
           NEW count, count = (bytes + fit - 1) \div fit
    PROVE  count \in Nat \ {0} /\ bytes - fit * (count - 1) <= fit /\ count <= bytes
<1>1. count \in Int /\ fit * count <= bytes + fit - 1 /\ bytes + fit - 1 < fit * count + fit
  OBVIOUS
<1>2. fit * (count - 1) = fit * count - fit
  BY <1>1
<1>3. count > 0
  <2> SUFFICES ASSUME count <= 0 PROVE FALSE
    BY <1>1
  <2>1. fit * count <= 0
    BY <1>1
  <2> QED
    BY <1>1, <2>1
<1>4. fit * (count - 1) >= count - 1
  BY <1>1, <1>3
<1> QED
  BY <1>1, <1>2, <1>3, <1>4

\* What computeHeaderOverhead comes to is a number.
LEMMA HeaderOverheadIsNat == Link!headerOverhead \in Nat
BY DEF Link!headerOverhead, Link!lpPacketOverhead, Link!fragmentOverhead, Link!incomingFaceOverhead

\* The length of a frame is at most what effectiveMtu allows for.
LEMMA FrameLengthBound ==
    ASSUME NEW size \in Int, NEW idx \in Nat, NEW count \in Nat, NEW token \in BOOLEAN,
           NEW marked \in BOOLEAN, NEW cut \in BOOLEAN, cut => fragmenting, mtu \in Mtu,
           idx <= Link!TwoBytes, count <= Link!TwoBytes,
           overhead \in Nat, overhead >= Link!headerOverhead,
           size <= Link!effectiveMtu(token, marked),
           NEW f, f.length = Link!FieldsLength(size, cut, idx, count, token, marked, 0)
    PROVE  Link!FrameLength(f) <= mtu
<1> DEFINE inc == IF indicating THEN 12 ELSE 0
           tok == IF token THEN 8 ELSE 0
           mrk == IF marked THEN 5 ELSE 0
           frg == IF fragmenting THEN 18 ELSE 0
<1>0. mtu \in Nat /\ mtu <= Link!TwoBytes /\ Link!TwoBytes \in Nat
  BY LinkAssumed DEF Link!LpLinkAssumption, Link!MaxNDNPacketSize, Link!TwoBytes
<1>1. inc \in Nat /\ tok \in Nat /\ mrk \in Nat /\ frg \in Nat
  OBVIOUS
<1>2. size <= mtu - 8 - frg - inc - tok - mrk
  BY <1>0 DEF Link!effectiveMtu, Link!headerOverhead,
   Link!lpPacketOverhead, Link!fragmentOverhead, Link!incomingFaceOverhead,
   Link!pitTokenOverhead, Link!congestionMarkOverhead
<1>3. f.length <= frg + tok + mrk + 4 + size /\ f.length \in Int
  <2>1. \A n \in Nat : n <= Link!TwoBytes => Link!NatLength(n) \in 1..2
    BY DEF Link!NatLength
  <2>2. \A n \in Int : n <= Link!TwoBytes => Link!TLNum(n) \in 1..3
    BY DEF Link!TLNum
  <2>3. Link!NatLength(idx) \in 1..2 /\ Link!NatLength(count) \in 1..2 /\ Link!TLNum(size) \in 1..3
    BY <1>0, <1>1, <1>2, <2>1, <2>2
  <2> QED
    BY <2>3 DEF Link!FieldsLength, Link!pitTokenOverhead
<1>4. Link!FrameLength(f) <= 4 + f.length + inc
  BY <1>0, <1>1, <1>2, <1>3 DEF Link!FrameLength, Link!TLNum, Link!incomingFaceOverhead
<1> HIDE DEF inc, tok, mrk, frg
<1>5. Link!FrameLength(f) \in Int
  BY <1>1, <1>3 DEF Link!FrameLength, Link!TLNum, Link!incomingFaceOverhead
<1> QED
  BY <1>0, <1>1, <1>2, <1>3, <1>4, <1>5

\* The k-th fragment of a packet.
PartOf(p, k) == [of |-> p, idx |-> k - 1]

\* A buffer in use has a sequence number of its own, at least one fragment, and
\* is not complete.
SlotsInUse ==
    /\ \A f \in Frames : Cut(f) => Link!baseSequence(f) >= 1
    /\ \A s \in Link!Slot : ring[s] # Link!Free =>
          ring[s].seq >= 1 /\ Present(ring[s].buffer) # {} /\ ~Link!Complete(ring[s].buffer)
    /\ \A s, t \in Link!Slot : ring[s].seq = ring[t].seq /\ ring[s].seq # 0 => s = t

\* The fragments of a packet have one base sequence, on their way and in buffers.
HasBase(p, v) ==
    \/ \E f \in Frames : Cut(f) /\ f.part.of = p /\ Link!baseSequence(f) = v
    \/ \E s \in Link!Slot : \E k \in Present(ring[s].buffer) :
          ring[s].seq = v /\ ring[s].buffer[k].of = p

OneBase == \A p, v, w : HasBase(p, v) /\ HasBase(p, w) => v = w

\* No fragment of a packet that is still to be delivered is lost.
Somewhere(p, k) ==
    \/ \E f \in Frames : f.part = PartOf(p, k)
    \/ \E s \in Link!Slot : k \in 1..Len(ring[s].buffer) /\ ring[s].buffer[k] = PartOf(p, k)

Delivered(p) == \E i \in DOMAIN delivered : delivered[i] = Link!Whole(p)

NoneLost == \A p \in 1..Len(sent) : Delivered(p) \/ \A k \in 1..sent[p] : Somewhere(p, k)

\* A fragment that never came twice is in one place, and a packet is delivered
\* when none of its fragments is anywhere else.
Once ==
    /\ \A i, j \in DOMAIN out : out[i].part = out[j].part => i = j
    /\ \A f, g \in net : f.part = g.part => f = g
    /\ \A i \in DOMAIN out : \A f \in net : out[i].part # f.part
    /\ \A s \in Link!Slot : \A k \in Present(ring[s].buffer) : \A f \in Frames :
          ring[s].buffer[k] # f.part
    /\ \A i, j \in DOMAIN delivered : delivered[i][1].of = delivered[j][1].of => i = j
    /\ \A i \in DOMAIN delivered : \A f \in Frames : f.part.of # delivered[i][1].of
    /\ \A i \in DOMAIN delivered : \A s \in Link!Slot : \A k \in Present(ring[s].buffer) :
          ring[s].buffer[k].of # delivered[i][1].of

\* The frames that are still to be sent are not too large.
FramesFit ==
    "changed" \notin faults =>
        /\ 0 \notin refused
        /\ \A i \in DOMAIN out : out[i].extra = 0 => Link!FrameLength(out[i]) <= mtu

\* Every packet has at least one fragment.
SentSome == \A p \in 1..Len(sent) : sent[p] # 0

\* Nothing was lost and no buffer taken from another packet.
Quiet == faults \subseteq {"duplicated", "changed"}

\* The inductive invariant of NothingStuck.
StuckInv ==
    /\ LinkInv /\ SlotsInUse /\ SentSome /\ FramesFit
    /\ Quiet => OneBase /\ NoneLost
    /\ Quiet /\ "duplicated" \notin faults => Once

\* Nothing in the network, in a buffer or delivered is of a packet still to come.
LEMMA OldPackets ==
    ASSUME LinkInv
    PROVE  /\ \A f \in Frames : f.part.of \in 1..Len(sent)
           /\ \A s \in Link!Slot : \A k \in Present(ring[s].buffer) :
                 ring[s].buffer[k].of \in 1..Len(sent)
           /\ \A i \in DOMAIN delivered : delivered[i][1].of \in 1..Len(sent)
<1>1. LinkTyped /\ PartsPlaced /\ DeliveredFull
  BY DEF LinkInv
<1>2. \A f \in Frames : f.part.of \in 1..Len(sent)
  BY <1>1 DEF PartsPlaced, FrameOK, PartAt
<1>3. \A s \in Link!Slot : \A k \in Present(ring[s].buffer) : ring[s].buffer[k].of \in 1..Len(sent)
  BY <1>1 DEF PartsPlaced, BufferOK, PartAt
<1>4. ASSUME NEW i \in DOMAIN delivered PROVE delivered[i][1].of \in 1..Len(sent)
  <2>1. delivered[i] \in Seq(Part) /\ delivered[i] # <<>>
    BY <1>1 DEF LinkTyped, DeliveredFull
  <2>2. 1 \in 1..Len(delivered[i])
    BY <2>1
  <2> QED
    BY <1>1, <2>2 DEF PartsPlaced, PartAt
<1> QED
  BY <1>2, <1>3, <1>4

\* A packet is cut, or goes into one frame.
LEMMA NewPacket ==
    ASSUME StuckInv, out = <<>>, NEW count \in Nat \ {0}, out' \in Seq(OutFrame), Len(out') = count,
           \A i \in 1..count : /\ out'[i].part = PartOf(Len(sent) + 1, i)
                               /\ Cut(out'[i]) => Link!baseSequence(out'[i]) = nextSequence + 1,
           sent' = Append(sent, count), UNCHANGED <<net, ring, delivered>>,
           faults' = faults \/ faults' = faults \cup {"changed"}
    PROVE  /\ SlotsInUse' /\ SentSome'
           /\ Quiet' => OneBase' /\ NoneLost'
           /\ Quiet' /\ "duplicated" \notin faults' => Once'
<1> DEFINE new == Len(sent) + 1
<1>1. /\ sent \in Seq(Nat) /\ Len(sent) \in Nat /\ new \notin 1..Len(sent) /\ nextSequence \in Nat
      /\ sent' \in Seq(Nat) /\ Len(sent') = new /\ sent'[new] = count
      /\ \A p \in 1..Len(sent) : sent'[p] = sent[p]
  BY DEF StuckInv, LinkInv, LinkTyped
<1>2. DOMAIN out' = 1..count /\ DOMAIN out = {}
  OBVIOUS
<1>3. Frames = net /\ \A f \in Frames' : f \in net \/ \E i \in 1..count : f = out'[i]
  BY <1>2 DEF Frames
<1>4. /\ \A f \in net : f.part.of \in 1..Len(sent)
      /\ \A s \in Link!Slot : \A k \in Present(ring[s].buffer) : ring[s].buffer[k].of \in 1..Len(sent)
      /\ \A i \in DOMAIN delivered : delivered[i][1].of \in 1..Len(sent)
  BY <1>3, OldPackets DEF StuckInv
<1>5. \A i \in 1..count : out'[i].part.of = new /\ out'[i].part.idx = i - 1 /\ out'[i] \in Frames'
  <2>1. ASSUME NEW i \in 1..count PROVE out'[i].part.of = new /\ out'[i].part.idx = i - 1
    <3>1. out'[i].part = [of |-> new, idx |-> i - 1]
      BY DEF PartOf
    <3> QED
      BY <3>1
  <2>2. \A i \in 1..count : out'[i] \in Frames'
    BY <1>2 DEF Frames
  <2> QED
    BY <2>1, <2>2
<1>6. SlotsInUse'
  <2>1. \A f \in Frames' : Cut(f) => Link!baseSequence(f) >= 1
    BY <1>1, <1>3 DEF StuckInv, SlotsInUse
  <2> QED
    BY <2>1 DEF StuckInv, SlotsInUse, Present, Link!Complete
<1>7. SentSome'
  <2> SUFFICES ASSUME NEW p \in 1..Len(sent') PROVE sent'[p] # 0
    BY DEF SentSome
  <2>1. CASE p = new
    BY <1>1, <2>1
  <2>2. CASE p # new
    <3>1. p \in 1..Len(sent)
      BY <1>1, <2>2
    <3> QED
      BY <1>1, <3>1 DEF StuckInv, SentSome
  <2> QED
    BY <2>1, <2>2
<1> HIDE DEF new
<1>8. ASSUME Quiet' PROVE OneBase'
  <2>1. OneBase
    BY <1>8 DEF StuckInv, Quiet
  <2>2. ASSUME NEW p, NEW v, HasBase(p, v)'
        PROVE  (p = new /\ v = nextSequence + 1) \/ (p \in 1..Len(sent) /\ HasBase(p, v))
    <3>1. CASE \E f \in Frames' : Cut(f) /\ f.part.of = p /\ Link!baseSequence(f) = v
      <4>1. PICK f \in Frames' : Cut(f) /\ f.part.of = p /\ Link!baseSequence(f) = v
        BY <3>1
      <4>2. CASE f \in net
        BY <1>3, <1>4, <4>1, <4>2 DEF HasBase
      <4>3. CASE f \notin net
        <5>1. PICK i \in 1..count : f = out'[i]
          BY <1>3, <4>3
        <5> QED
          BY <1>5, <4>1, <5>1
      <4> QED
        BY <4>2, <4>3
    <3>2. CASE \E s \in Link!Slot : \E k \in Present(ring[s].buffer) :
                  ring[s].seq = v /\ ring[s].buffer[k].of = p
      BY <1>4, <3>2 DEF HasBase
    <3> QED
      BY <2>2, <3>1, <3>2 DEF HasBase, Present
  <2> QED
    BY <1>1, <2>1, <2>2 DEF OneBase
<1>9. ASSUME Quiet' PROVE NoneLost'
  <2> SUFFICES ASSUME NEW p \in 1..Len(sent') PROVE (Delivered(p) \/ \A k \in 1..sent[p] : Somewhere(p, k))'
    BY DEF NoneLost
  <2>1. CASE p = new
    <3>1. \A k \in 1..sent'[p] : \E f \in Frames' : f.part = PartOf(p, k)
      BY <1>1, <1>5, <2>1 DEF new
    <3> QED
      BY <3>1 DEF Somewhere, PartOf
  <2>2. CASE p # new
    <3>1. p \in 1..Len(sent)
      BY <1>1, <2>2 DEF new
    <3>2. Delivered(p) \/ \A k \in 1..sent[p] : Somewhere(p, k)
      BY <1>9, <3>1 DEF StuckInv, Quiet, NoneLost
    <3>3. Delivered(p) => Delivered(p)'
      BY <1>1, <3>1 DEF Delivered, Link!Whole
    <3>4. Frames \subseteq Frames'
      BY <1>3 DEF Frames
    <3>5. \A k : Somewhere(p, k) => Somewhere(p, k)'
      BY <3>4 DEF Somewhere, PartOf
    <3> QED
      BY <1>1, <3>1, <3>2, <3>3, <3>5
  <2> QED
    BY <2>1, <2>2
<1>10. ASSUME Quiet', "duplicated" \notin faults' PROVE Once'
  <2>1. Once
    BY <1>10 DEF StuckInv, Quiet
  <2>2. \A i, j \in DOMAIN out' : out'[i].part = out'[j].part => i = j
    BY <1>2, <1>5
  <2>3. \A i \in DOMAIN out' : \A f \in net : out'[i].part # f.part
    BY <1>1, <1>2, <1>4, <1>5 DEF new
  <2>4. \A s \in Link!Slot : \A k \in Present(ring[s].buffer) : \A f \in Frames' :
          ring[s].buffer[k] # f.part
    <3> SUFFICES ASSUME NEW s \in Link!Slot, NEW k \in Present(ring[s].buffer), NEW f \in Frames'
                 PROVE  ring[s].buffer[k] # f.part
      OBVIOUS
    <3>1. CASE f \in net
      BY <1>3, <2>1, <3>1 DEF Once
    <3>2. CASE f \notin net
      <4>1. f.part.of = new
        BY <1>3, <1>5, <3>2
      <4>2. ring[s].buffer[k].of \in 1..Len(sent)
        BY <1>4
      <4> QED
        BY <1>1, <4>1, <4>2
    <3> QED
      BY <3>1, <3>2
  <2>5. \A i \in DOMAIN delivered : \A f \in Frames' : f.part.of # delivered[i][1].of
    BY <1>1, <1>3, <1>4, <1>5, <2>1 DEF new, Once
  <2> QED
    BY <2>1, <2>2, <2>3, <2>4, <2>5 DEF Once, Present
<1> QED
  BY <1>6, <1>7, <1>8, <1>9, <1>10

\* The steps that send a packet.
LEMMA FragmentStuck ==
    ASSUME StuckInv, NEW bytes \in PacketSize, NEW token \in BOOLEAN, NEW marked \in BOOLEAN,
           NEW extra \in Extra, Link!Fragment(bytes, token, marked, extra)
    PROVE  StuckInv'
<1> DEFINE fit == Link!effectiveMtu(token, marked)
           count == (bytes + fit - 1) \div fit
           size(i) == IF i = count - 1 THEN bytes - fit * (count - 1) ELSE fit
           cut(k) == [seq |-> Link!SequenceOf(k - 1), count |-> count,
                      part |-> [of |-> Len(sent) + 1, idx |-> k - 1],
                      length |-> Link!FieldsLength(size(k - 1), TRUE, k - 1, count, token, marked, extra),
                      extra |-> extra]
<1>1. /\ LinkInv /\ LinkInv' /\ mtu \in Mtu /\ overhead \in 0..MaxOverhead /\ overhead \in Nat
      /\ nextSequence \in Nat /\ out' \in Seq(OutFrame)
  BY FragmentStep DEF StuckInv, LinkInv, LinkTyped
<1>2. fit \in Nat \ {0} /\ bytes \in Nat /\ bytes <= Link!TwoBytes /\ bytes > fit /\ fragmenting
  BY <1>1, RoomForFragment, LinkAssumed DEF Link!LpLinkAssumption, Link!Fragment
<1>3. /\ out = <<>>
      /\ out' = [k \in 1..count |-> cut(k)]
      /\ sent' = Append(sent, count)
      /\ UNCHANGED <<mtu, indicating, net, ring, delivered, refused>>
      /\ faults' = IF overhead < Link!headerOverhead THEN faults \cup {"changed"} ELSE faults
  BY DEF Link!Fragment, Link!Sized
<1> HIDE DEF fit
<1>4. count \in Nat \ {0} /\ bytes - fit * (count - 1) <= fit
  BY <1>2, CutSizes
<1>11. count <= Link!TwoBytes
  BY <1>2, CutSizes DEF Link!TwoBytes
<1>5. \A i \in Int : size(i) \in Int /\ size(i) <= fit
  BY <1>2, <1>4
<1> HIDE DEF count, size
<1>6. ASSUME NEW i \in 1..count
      PROVE  /\ out'[i].part = PartOf(Len(sent) + 1, i)
             /\ Link!baseSequence(out'[i]) = nextSequence + 1
             /\ out'[i].length = Link!FieldsLength(size(i - 1), TRUE, i - 1, count, token, marked, extra)
             /\ out'[i].extra = extra
  <2>1. out'[i] = cut(i)
    BY <1>3
  <2>2. /\ out'[i].seq = Link!SequenceOf(i - 1)
        /\ out'[i].part = [of |-> Len(sent) + 1, idx |-> i - 1]
    BY <2>1
  <2>3. out'[i].part.idx = i - 1 /\ out'[i].seq = nextSequence + (i - 1) + 1
    BY <2>2 DEF Link!SequenceOf
  <2>4. Link!baseSequence(out'[i]) = nextSequence + 1
    BY <1>1, <1>4, <2>3 DEF Link!baseSequence
  <2> QED
    BY <2>1, <2>2, <2>4 DEF PartOf
<1> HIDE DEF cut
<1>7. Len(out') = count
  BY <1>3, <1>4
<1>8. /\ SlotsInUse' /\ SentSome'
      /\ Quiet' => OneBase' /\ NoneLost'
      /\ Quiet' /\ "duplicated" \notin faults' => Once'
  BY <1>1, <1>3, <1>4, <1>6, <1>7, NewPacket
<1>9. ASSUME NEW i \in DOMAIN out', out'[i].extra = 0, overhead >= Link!headerOverhead
      PROVE  (Link!FrameLength(out[i]) <= mtu)'
  <2>1. i \in 1..count /\ i - 1 \in Nat /\ count \in Nat
    BY <1>3, <1>4
  <2>4. i - 1 <= Link!TwoBytes
    BY <1>11, <2>1 DEF Link!TwoBytes
  <2>2. /\ size(i - 1) \in Int /\ size(i - 1) <= Link!effectiveMtu(token, marked)
        /\ out'[i].length = Link!FieldsLength(size(i - 1), TRUE, i - 1, count, token, marked, 0)
    <3>1. size(i - 1) \in Int /\ size(i - 1) <= fit
      BY <1>5, <2>1
    <3>2. extra = 0
      BY <1>6, <1>9, <2>1
    <3>3. out'[i].length = Link!FieldsLength(size(i - 1), TRUE, i - 1, count, token, marked, 0)
      BY <1>6, <2>1, <3>2
    <3> QED
      BY <3>1, <3>3 DEF fit
  <2>3. Link!FrameLength(out'[i]) <= mtu
    <3>1. /\ mtu \in Mtu /\ overhead \in Nat /\ overhead >= Link!headerOverhead /\ fragmenting
          /\ i - 1 \in Nat /\ count \in Nat /\ i - 1 <= Link!TwoBytes /\ count <= Link!TwoBytes
      BY <1>1, <1>2, <1>9, <1>11, <2>1, <2>4
    <3> QED
      BY <2>2, <3>1, FrameLengthBound, Zenon
  <2> QED
    BY <1>3, <2>3 DEF Link!FrameLength
<1>10. FramesFit'
  BY <1>1, <1>3, <1>9, HeaderOverheadIsNat DEF StuckInv, FramesFit
<1> QED
  BY <1>1, <1>8, <1>10 DEF StuckInv

\* A packet that fits keeps the invariant too.
LEMMA SendWholeStuck ==
    ASSUME StuckInv, NEW bytes \in PacketSize, NEW token \in BOOLEAN, NEW marked \in BOOLEAN,
           NEW extra \in Extra, Link!SendWhole(bytes, token, marked, extra)
    PROVE  StuckInv'
<1> DEFINE whole == [seq |-> 0, count |-> 1, part |-> [of |-> Len(sent) + 1, idx |-> 0],
                     length |-> Link!FieldsLength(bytes, FALSE, 0, 1, token, marked, extra),
                     extra |-> extra]
<1>1. /\ LinkInv /\ LinkInv' /\ mtu \in Mtu /\ overhead \in Nat
      /\ nextSequence \in Nat /\ out' \in Seq(OutFrame)
  BY SendWholeStep DEF StuckInv, LinkInv, LinkTyped
<1>2. bytes \in Int /\ bytes <= Link!effectiveMtu(token, marked)
  BY <1>1, LinkAssumed DEF Link!LpLinkAssumption, Link!SendWhole
<1>3. /\ out = <<>>
      /\ out' = <<whole>>
      /\ sent' = Append(sent, 1)
      /\ UNCHANGED <<mtu, indicating, net, ring, delivered, refused>>
      /\ faults' = IF overhead < Link!headerOverhead THEN faults \cup {"changed"} ELSE faults
  BY DEF Link!SendWhole, Link!Sized
<1>4. Len(out') = 1 /\ out'[1] = whole /\ DOMAIN out' = {1}
  BY <1>3
<1>5. /\ out'[1].part = PartOf(Len(sent) + 1, 1) /\ ~Cut(out'[1])
      /\ out'[1].length = Link!FieldsLength(bytes, FALSE, 0, 1, token, marked, extra)
      /\ out'[1].extra = extra
  BY <1>4 DEF PartOf, Cut
<1> HIDE DEF whole
<1>6. \A i \in 1..1 : /\ out'[i].part = PartOf(Len(sent) + 1, i)
                      /\ Cut(out'[i]) => Link!baseSequence(out'[i]) = nextSequence + 1
  <2>1. \A i \in 1..1 : i = 1
    OBVIOUS
  <2> QED
    BY <1>5, <2>1
<1>7. /\ SlotsInUse' /\ SentSome'
      /\ Quiet' => OneBase' /\ NoneLost'
      /\ Quiet' /\ "duplicated" \notin faults' => Once'
  <2>1. 1 \in Nat \ {0}
    OBVIOUS
  <2> QED
    BY <1>1, <1>3, <1>4, <1>6, <2>1, NewPacket
<1>8. ASSUME extra = 0, overhead >= Link!headerOverhead PROVE (Link!FrameLength(out[1]) <= mtu)'
  <2>1. out'[1].length = Link!FieldsLength(bytes, FALSE, 0, 1, token, marked, 0)
    BY <1>5, <1>8
  <2>2. 0 \in Nat /\ 1 \in Nat /\ 0 <= Link!TwoBytes /\ 1 <= Link!TwoBytes
    BY DEF Link!TwoBytes
  <2>3. Link!FrameLength(out'[1]) <= mtu
    BY <1>1, <1>2, <1>8, <2>1, <2>2, FrameLengthBound, Zenon
  <2> QED
    BY <1>3, <2>3 DEF Link!FrameLength
<1>9. FramesFit'
  BY <1>1, <1>3, <1>4, <1>5, <1>8, HeaderOverheadIsNat DEF StuckInv, FramesFit
<1> QED
  BY <1>1, <1>7, <1>9 DEF StuckInv

\* What SlotsInUse and OneBase say does not depend on frames that are gone.
LEMMA FewerBases ==
    ASSUME UNCHANGED ring,
           \A f \in Frames' : \E g \in Frames :
               f.seq = g.seq /\ f.count = g.count /\ f.part = g.part
    PROVE  /\ SlotsInUse => SlotsInUse'
           /\ OneBase => OneBase'
<1>1. ASSUME NEW f \in Frames'
      PROVE  \E g \in Frames : /\ f.part = g.part /\ Cut(f) = Cut(g)
                               /\ Link!baseSequence(f) = Link!baseSequence(g)
  BY DEF Cut, Link!baseSequence
<1>2. SlotsInUse => SlotsInUse'
  <2>1. SlotsInUse => \A f \in Frames' : Cut(f) => Link!baseSequence(f) >= 1
    BY <1>1 DEF SlotsInUse
  <2> QED
    BY <2>1 DEF SlotsInUse, Present, Link!Complete
<1>3. ASSUME NEW p, NEW v, HasBase(p, v)' PROVE HasBase(p, v)
  <2>1. CASE \E f \in Frames' : Cut(f) /\ f.part.of = p /\ Link!baseSequence(f) = v
    BY <1>1, <2>1 DEF HasBase
  <2>2. CASE \E s \in Link!Slot : \E k \in Present(ring[s].buffer) :
                ring[s].seq = v /\ ring[s].buffer[k].of = p
    BY <2>2 DEF HasBase
  <2> QED
    BY <1>3, <2>1, <2>2 DEF HasBase, Present
<1> QED
  BY <1>2, <1>3 DEF OneBase

\* The steps of management, and those that lose frames.
LEMMA ManagementStuck ==
    ASSUME StuckInv,
           \/ \E bytes \in PacketSize, token, marked \in BOOLEAN : Link!DropLarge(bytes, token, marked)
           \/ \E n \in Mtu : Link!SetMTU(n)
           \/ \E i \in Indicating : Link!SetOptions(i)
           \/ \E sum \in Link!OverheadSums : Link!computeHeaderOverhead(sum)
           \/ Link!Restart
           \/ \E f \in net : Link!Lose(f)
           \/ UNCHANGED Link!vars
    PROVE  StuckInv'
<1>1. LinkInv /\ LinkInv' /\ sent \in Seq(Nat)
  BY QuietLinkStep DEF StuckInv, LinkInv, LinkTyped
<1>2. /\ UNCHANGED <<ring, delivered, refused>>
      /\ out' = out \/ out' = <<>>
      /\ net' \subseteq net
      /\ sent' = sent \/ sent' = Append(sent, 1)
      /\ "changed" \notin faults' => "changed" \notin faults /\ (out' = <<>> \/ UNCHANGED <<out, mtu, indicating>>)
      /\ "lost" \notin faults' => UNCHANGED <<out, net, sent>>
      /\ faults \subseteq faults'
  BY DEF Link!DropLarge, Link!SetMTU, Link!SetOptions, Link!Changed, Link!computeHeaderOverhead,
         Link!Restart, Link!Lose, Link!vars
<1>3. Frames' \subseteq Frames
  BY <1>2 DEF Frames
<1>4. SlotsInUse' /\ (OneBase => OneBase')
  BY <1>2, <1>3, FewerBases DEF StuckInv
<1>5. SentSome'
  BY <1>1, <1>2 DEF StuckInv, SentSome
<1>6. FramesFit'
  <2>1. CASE out' = <<>>
    BY <1>2, <2>1 DEF StuckInv, FramesFit
  <2>2. CASE out' # <<>>
    BY <1>2, <2>2 DEF StuckInv, FramesFit, Link!FrameLength
  <2> QED
    BY <2>1, <2>2
<1>7. ASSUME Quiet' PROVE Quiet /\ UNCHANGED <<out, net, sent>>
  BY <1>2, <1>7 DEF Quiet
<1>8. ASSUME Quiet' PROVE NoneLost'
  <2>1. NoneLost
    BY <1>7, <1>8 DEF StuckInv
  <2>2. \A p : Delivered(p)' <=> Delivered(p)
    BY <1>2, <1>7, <1>8 DEF Delivered, Link!Whole
  <2>3. \A p, k : Somewhere(p, k)' <=> Somewhere(p, k)
    BY <1>2, <1>7, <1>8 DEF Somewhere, Frames, PartOf
  <2> QED
    BY <1>7, <1>8, <2>1, <2>2, <2>3 DEF NoneLost
<1>9. ASSUME Quiet', "duplicated" \notin faults' PROVE Once'
  BY <1>2, <1>7, <1>9 DEF StuckInv, Once, Frames, Present
<1> QED
  BY <1>1, <1>4, <1>5, <1>6, <1>7, <1>8, <1>9 DEF StuckInv

\* The next frame is sent, or refused for its length.
LEMMA SendFrameStuck ==
    ASSUME StuckInv, Link!SendFrame
    PROVE  StuckInv'
<1> DEFINE head == [seq |-> out[1].seq, count |-> out[1].count, part |-> out[1].part]
           fits == Link!FrameLength(out[1]) <= mtu
<1>1. LinkInv /\ LinkInv' /\ out \in Seq(OutFrame)
  BY QuietLinkStep DEF StuckInv, LinkInv, LinkTyped
<1>2. /\ out # <<>> /\ out' = Tail(out)
      /\ net' = IF fits THEN net \cup {head} ELSE net
      /\ refused' = IF fits THEN refused ELSE refused \cup {out[1].extra}
      /\ faults' = IF fits THEN faults ELSE faults \cup {"lost"}
      /\ UNCHANGED <<mtu, indicating, sent, ring, delivered>>
  <2>1. out # <<>>
    BY DEF Link!SendFrame
  <2>2. Head(out) = out[1]
    BY <1>1, <2>1
  <2> QED
    BY <2>2 DEF Link!SendFrame
<1>3. /\ 1 \in DOMAIN out /\ DOMAIN out = 1..Len(out) /\ Len(out) \in Nat
      /\ \A i \in DOMAIN out' : i \in Nat /\ i + 1 \in DOMAIN out /\ i + 1 # 1 /\ out'[i] = out[i + 1]
      /\ \A j \in DOMAIN out : j = 1 \/ (j - 1 \in DOMAIN out' /\ out'[j - 1] = out[j])
  BY <1>1, <1>2
<1>4. /\ head.seq = out[1].seq /\ head.count = out[1].count /\ head.part = out[1].part
      /\ out[1] \in Frames
  BY <1>3 DEF Frames
<1> HIDE DEF head
<1>5. \A f \in Frames' : \E g \in Frames : f.seq = g.seq /\ f.count = g.count /\ f.part = g.part
  <2>1. \A i \in DOMAIN out' : out'[i] \in Frames
    BY <1>3 DEF Frames
  <2>2. \A f \in net' : f \in Frames \/ f = head
    BY <1>2 DEF Frames
  <2> QED
    BY <1>4, <2>1, <2>2 DEF Frames
<1>6. SlotsInUse' /\ (OneBase => OneBase')
  BY <1>2, <1>5, FewerBases DEF StuckInv
<1>7. SentSome'
  BY <1>2 DEF StuckInv, SentSome
<1>8. FramesFit'
  <2> SUFFICES ASSUME "changed" \notin faults'
               PROVE  0 \notin refused' /\ \A i \in DOMAIN out' : out'[i].extra = 0 => (Link!FrameLength(out[i]) <= mtu)'
    BY DEF FramesFit
  <2>1. "changed" \notin faults
    BY <1>2
  <2>2. /\ 0 \notin refused
        /\ \A i \in DOMAIN out : out[i].extra = 0 => Link!FrameLength(out[i]) <= mtu
    BY <2>1 DEF StuckInv, FramesFit
  <2>3. 0 \notin refused'
    BY <1>2, <1>3, <2>2
  <2>4. \A i \in DOMAIN out' : out'[i].extra = 0 => (Link!FrameLength(out[i]) <= mtu)'
    BY <1>2, <1>3, <2>2 DEF Link!FrameLength
  <2> QED
    BY <2>3, <2>4
<1>9. ASSUME Quiet' PROVE fits /\ Quiet
  BY <1>2, <1>9 DEF Quiet
<1> HIDE DEF fits
<1>10. ASSUME Quiet' PROVE NoneLost'
  <2>1. NoneLost
    BY <1>9, <1>10 DEF StuckInv
  <2>2. \A p : Delivered(p)' <=> Delivered(p)
    BY <1>2 DEF Delivered, Link!Whole
  <2>3. ASSUME NEW f \in Frames PROVE \E g \in Frames' : g.part = f.part
    <3>1. CASE f \in net
      BY <1>2, <1>9, <1>10, <3>1 DEF Frames
    <3>2. CASE f \notin net
      <4>1. PICK j \in DOMAIN out : f = out[j]
        BY <3>2 DEF Frames
      <4>2. CASE j = 1
        BY <1>2, <1>4, <1>9, <1>10, <4>1, <4>2 DEF Frames
      <4>3. CASE j # 1
        BY <1>3, <4>1, <4>3 DEF Frames
      <4> QED
        BY <4>2, <4>3
    <3> QED
      BY <3>1, <3>2
  <2>4. \A p, k : Somewhere(p, k) => Somewhere(p, k)'
    BY <1>2, <2>3 DEF Somewhere, PartOf
  <2> QED
    BY <1>2, <2>1, <2>2, <2>4 DEF NoneLost
<1>11. ASSUME Quiet', "duplicated" \notin faults' PROVE Once'
  <2>1. Once
    BY <1>2, <1>9, <1>11 DEF StuckInv
  <2>2. net' = net \cup {head}
    BY <1>2, <1>9, <1>11
  <2>3. \A i, j \in DOMAIN out' : out'[i].part = out'[j].part => i = j
    <3> SUFFICES ASSUME NEW i \in DOMAIN out', NEW j \in DOMAIN out', out'[i].part = out'[j].part
                 PROVE  i = j
      OBVIOUS
    <3>1. i + 1 = j + 1
      BY <1>3, <2>1 DEF Once
    <3> QED
      BY <1>3, <3>1
  <2>4. \A f, g \in net' : f.part = g.part => f = g
    BY <1>3, <1>4, <2>1, <2>2 DEF Once
  <2>5. \A i \in DOMAIN out' : \A f \in net' : out'[i].part # f.part
    <3> SUFFICES ASSUME NEW i \in DOMAIN out', NEW f \in net' PROVE out'[i].part # f.part
      OBVIOUS
    <3>1. i + 1 \in DOMAIN out /\ i + 1 # 1 /\ out'[i] = out[i + 1]
      BY <1>3
    <3> QED
      BY <1>3, <1>4, <2>1, <2>2, <3>1 DEF Once
  <2>6. \A s \in Link!Slot : \A k \in Present(ring[s].buffer) : \A f \in Frames' : ring[s].buffer[k] # f.part
    BY <1>5, <2>1 DEF Once
  <2>7. \A i \in DOMAIN delivered : \A f \in Frames' : f.part.of # delivered[i][1].of
    BY <1>5, <2>1 DEF Once
  <2> QED
    BY <1>2, <2>1, <2>3, <2>4, <2>5, <2>6, <2>7 DEF Once, Present
<1> QED
  BY <1>1, <1>6, <1>7, <1>8, <1>9, <1>10, <1>11 DEF StuckInv

\* The frame of a whole packet comes in.
LEMMA ReceiveWholeStuck ==
    ASSUME StuckInv, NEW f \in net, NEW copy \in BOOLEAN, Link!handleIncomingFrame(f, copy),
           Link!ReceiveWhole(f)
    PROVE  StuckInv'
<1> DEFINE q == f.part.of
<1>1. /\ LinkInv /\ LinkInv' /\ LinkTyped /\ PartsPlaced /\ delivered \in Seq(Seq(Part))
      /\ f \in Frames /\ FrameOK(f)
  BY ReceiveStep DEF StuckInv, LinkInv, LinkTyped, PartsPlaced, Frames
<1>2. /\ UNCHANGED <<mtu, indicating, out, sent, refused, ring>>
      /\ f.count = 1 /\ delivered' = Append(delivered, <<f.part>>)
      /\ net' = IF copy THEN net ELSE net \ {f}
      /\ faults' = faults \cup (IF copy THEN {"duplicated"} ELSE {})
  BY DEF Link!handleIncomingFrame, Link!ReceiveWhole, Link!Evicts
<1>3. Frames' \subseteq Frames /\ \A g \in Frames : g \in Frames' \/ g.part.of = q
  BY <1>2 DEF Frames
<1>4. SlotsInUse' /\ (OneBase => OneBase')
  BY <1>2, <1>3, FewerBases DEF StuckInv
<1>5. SentSome' /\ FramesFit'
  BY <1>2 DEF StuckInv, SentSome, FramesFit, Link!FrameLength
<1>6. f.part = PartOf(q, 1) /\ q \in 1..Len(sent) /\ sent[q] = 1
  <2>1. f.part \in Part /\ f.part.idx = 0 /\ q \in 1..Len(sent) /\ sent[q] = 1
    BY <1>1, <1>2 DEF FrameOK, Part, PartAt
  <2> QED
    BY <2>1 DEF Part, PartOf
<1>7. /\ Len(delivered') = Len(delivered) + 1 /\ delivered'[Len(delivered) + 1] = <<f.part>>
      /\ Len(delivered) \in Nat
      /\ \A i \in DOMAIN delivered : i \in DOMAIN delivered' /\ delivered'[i] = delivered[i]
      /\ DOMAIN delivered' = DOMAIN delivered \cup {Len(delivered) + 1}
  BY <1>1, <1>2
<1> HIDE DEF q
<1>8. ASSUME Quiet' PROVE Quiet /\ NoneLost'
  <2>0. Quiet /\ NoneLost
    BY <1>2, <1>8 DEF StuckInv, Quiet
  <2>1. Delivered(q)'
    <3>1. <<f.part>> = [k \in 1..1 |-> [of |-> q, idx |-> k - 1]]
      BY <1>6 DEF PartOf
    <3>2. Link!Whole(q)' = <<f.part>>
      BY <1>2, <1>6, <3>1 DEF Link!Whole
    <3> QED
      BY <1>7, <3>2 DEF Delivered
  <2>2. \A p : Delivered(p) => Delivered(p)'
    BY <1>2, <1>7 DEF Delivered, Link!Whole
  <2>3. ASSUME NEW p, NEW k, p # q, Somewhere(p, k) PROVE Somewhere(p, k)'
    <3>1. PartOf(p, k).of = p
      BY DEF PartOf
    <3> QED
      BY <1>2, <1>3, <2>3, <3>1 DEF Somewhere, PartOf
  <2> QED
    BY <1>2, <2>0, <2>1, <2>2, <2>3 DEF NoneLost
<1>9. ASSUME Quiet', "duplicated" \notin faults' PROVE Once'
  <2>1. Once
    BY <1>2, <1>8, <1>9 DEF StuckInv
  <2>2. net' = net \ {f} /\ out' = out
    BY <1>2, <1>9
  <2>3. ASSUME NEW g \in Frames' PROVE g.part.of # q /\ g.part # f.part
    <3>1. g \in Frames /\ FrameOK(g)
      BY <1>1, <1>3 DEF PartsPlaced
    <3>2. g.part # f.part
      BY <2>1, <2>2 DEF Once, Frames
    <3>3. ASSUME g.part.of = q PROVE FALSE
      <4>1. g.part \in Part /\ g.part.idx = 0
        BY <1>6, <3>1, <3>3 DEF FrameOK, PartAt, Part
      <4>2. g.part = PartOf(q, 1)
        BY <3>3, <4>1 DEF Part, PartOf
      <4> QED
        BY <1>6, <3>2, <4>2
    <3> QED
      BY <3>2, <3>3
  <2>4. ASSUME NEW s \in Link!Slot, NEW k \in Present(ring[s].buffer) PROVE ring[s].buffer[k].of # q
    <3>1. SUFFICES ASSUME ring[s].buffer[k].of = q PROVE FALSE
      OBVIOUS
    <3>2. /\ ring[s].buffer \in Seq(Part) /\ k \in 1..Len(ring[s].buffer)
          /\ PartAt(ring[s].buffer[k], k, Len(ring[s].buffer))
      BY <1>1 DEF PartsPlaced, BufferOK, Present
    <3>3. Len(ring[s].buffer) = 1 /\ ring[s].buffer[k].idx = k - 1
      BY <1>6, <3>1, <3>2, Zenon DEF PartAt
    <3>4. k = 1
      BY <3>2, <3>3
    <3>5. ring[s].buffer[k] \in Part /\ ring[s].buffer[k].idx = 0
      BY <3>2, <3>3, <3>4
    <3>6. ring[s].buffer[k] = PartOf(q, 1)
      BY <3>1, <3>5 DEF Part, PartOf
    <3> QED
      BY <1>1, <1>6, <2>1, <3>6 DEF Once
  <2>5. <<f.part>>[1].of = q /\ \A i \in DOMAIN delivered : delivered[i][1].of # q
    BY <1>1, <2>1 DEF Once, q
  <2>6. \A i, j \in DOMAIN delivered' : delivered'[i][1].of = delivered'[j][1].of => i = j
    BY <1>7, <2>1, <2>5 DEF Once
  <2>7. \A i \in DOMAIN delivered' : \A g \in Frames' : g.part.of # delivered'[i][1].of
    BY <1>3, <1>7, <2>1, <2>3, <2>5 DEF Once
  <2>8. \A i \in DOMAIN delivered' : \A s \in Link!Slot : \A k \in Present(ring[s].buffer) :
          ring[s].buffer[k].of # delivered'[i][1].of
    BY <1>7, <2>1, <2>4, <2>5 DEF Once
  <2> QED
    BY <1>2, <1>3, <2>1, <2>2, <2>6, <2>7, <2>8 DEF Once, Present
<1> QED
  BY <1>1, <1>4, <1>5, <1>8, <1>9 DEF StuckInv

\* What reassemble does with a fragment: the slot s, its buffer before and after,
\* and whether the packet is complete with it.
Reassembled(f, s, old, buf, complete) ==
    /\ s = Link!bufIndex(Link!baseSequence(f)) /\ s \in Link!Slot
    /\ old = Link!Opened(f)[s].buffer /\ buf = Filled(f, old)
    /\ complete = (f.count = Len(old) /\ f.part.idx < f.count /\ Link!Complete(buf))
    /\ BufferOK(old) /\ BufferOK(buf) /\ Len(buf) = Len(old)
    /\ OneRun => /\ \A k \in Present(old) : old[k].of = f.part.of
                 /\ \A k \in Present(buf) : buf[k].of = f.part.of
    /\ DOMAIN ring' = Link!Slot
    /\ \A t \in Link!Slot \ {s} : ring'[t] = ring[t]
    /\ ring'[s] = IF complete THEN Link!Free ELSE [seq |-> Link!baseSequence(f), buffer |-> buf]
    /\ delivered' = IF complete THEN Append(delivered, buf) ELSE delivered
    /\ ringIndex' = ringIndex \/ ringIndex' = s

\* Every step of reassemble is one of these.
LEMMA ReassembleEffect ==
    ASSUME LinkInv, NEW f \in net, Link!Reassemble(f)
    PROVE  Cut(f) /\ \E s, old, buf : \E complete \in BOOLEAN : Reassembled(f, s, old, buf, complete)
<1>1. PICK s : s = Link!bufIndex(Link!baseSequence(f))
  OBVIOUS
<1>2. PICK opened : opened = Link!Opened(f)
  OBVIOUS
<1>3. PICK old : old = opened[s].buffer
  OBVIOUS
<1>4. PICK buf : buf = Filled(f, old)
  OBVIOUS
<1>5. PICK complete \in BOOLEAN :
          complete = (f.count = Len(old) /\ f.part.idx < f.count /\ Link!Complete(buf))
  OBVIOUS
<1>6. /\ Cut(f)
      /\ ringIndex' = ringIndex \/ ringIndex' = s
      /\ ring' = [opened EXCEPT ![s] = IF complete THEN Link!Free ELSE [@ EXCEPT !.buffer = buf]]
      /\ delivered' = IF complete THEN Append(delivered, buf) ELSE delivered
  BY <1>1, <1>2, <1>3, <1>4, <1>5 DEF Link!Reassemble, Link!Freed, Cut, Filled
<1>7. /\ s \in Link!Slot /\ DOMAIN opened = Link!Slot
      /\ \A t \in Link!Slot \ {s} : opened[t] = ring[t]
      /\ opened[s] \in [seq : Int, buffer : Seq(Part)]
      /\ opened[s].seq = Link!baseSequence(f)
      /\ BufferOK(old)
      /\ OneRun => \A k \in Present(old) : old[k].of = f.part.of
  BY <1>1, <1>2, <1>3, <1>6, OpenedBuffer
<1>8. /\ BufferOK(buf) /\ Len(buf) = Len(old)
      /\ (\A k \in Present(old) : old[k].of = f.part.of)
            => \A k \in Present(buf) : buf[k].of = f.part.of
  <2>1. FrameOK(f)
    BY DEF LinkInv, PartsPlaced, Frames
  <2> QED
    BY <1>4, <1>7, <2>1, FilledBuffer
<1>9. /\ DOMAIN ring' = Link!Slot
      /\ \A t \in Link!Slot \ {s} : ring'[t] = ring[t]
      /\ ring'[s] = IF complete THEN Link!Free ELSE [seq |-> Link!baseSequence(f), buffer |-> buf]
  <2>1. [opened[s] EXCEPT !.buffer = buf] = [seq |-> Link!baseSequence(f), buffer |-> buf]
    BY <1>7
  <2> QED
    BY <1>6, <1>7, <2>1
<1>10. Reassembled(f, s, old, buf, complete)
  BY <1>1, <1>2, <1>3, <1>4, <1>5, <1>6, <1>7, <1>8, <1>9, Zenon DEF Reassembled
<1> QED
  BY <1>6, <1>10

\* The slot is in use for the packet, or none is and the slot was free, or is
\* taken from another packet.
LEMMA SlotFound ==
    ASSUME LinkInv, SlotsInUse, NEW f \in net, Cut(f),
           NEW s \in Link!Slot, s = Link!bufIndex(Link!baseSequence(f)),
           NEW old, old = Link!Opened(f)[s].buffer
    PROVE  /\ Link!baseSequence(f) \in Int /\ Link!baseSequence(f) >= 1
           /\ \/ ring[s].seq = Link!baseSequence(f) /\ ring[s] # Link!Free /\ old = ring[s].buffer
              \/ /\ \A t \in Link!Slot : ring[t].seq # Link!baseSequence(f)
                 /\ ring[s] = Link!Free \/ Link!Evicts(f)
                 /\ Len(old) = f.count /\ Present(old) = {}
<1> DEFINE base == Link!baseSequence(f)
<1>1. f \in Frames /\ FrameOK(f) /\ LinkTyped
  BY DEF LinkInv, PartsPlaced, Frames
<1>2. base \in Int /\ base >= 1
  BY <1>1 DEF SlotsInUse, FrameOK, Part, Link!baseSequence
<1> HIDE DEF base
<1>3. ASSUME NEW t \in Link!Slot, ring[t].seq = base
      PROVE  ring[t] # Link!Free /\ ring[t].buffer # <<>>
  <2>1. ring[t] # Link!Free
    BY <1>2, <1>3 DEF Link!Free
  <2>2. Present(ring[t].buffer) # {}
    BY <2>1 DEF SlotsInUse
  <2>3. Present(<<>>) = {}
    BY DEF Present
  <2> QED
    BY <2>1, <2>2, <2>3
<1>4. CASE Link!Found(base)
  <2>1. s = Link!Min(Link!Matches(base)) /\ Link!Matches(base) # {} /\ Link!Opened(f) = ring
    BY <1>4 DEF Link!bufIndex, Link!Found, Link!Opened, base
  <2>2. s \in Link!Matches(base)
    BY <2>1, LeastSlot DEF Link!Matches
  <2> QED
    BY <1>2, <1>3, <2>1, <2>2 DEF Link!Matches, base
<1>5. CASE ~Link!Found(base)
  <2>1. \A t \in Link!Slot : ring[t].seq # base
    <3> SUFFICES ASSUME NEW t \in Link!Slot, ring[t].seq = base PROVE FALSE
      OBVIOUS
    <3>1. t \in Link!Matches(base)
      BY DEF Link!Matches
    <3>2. Link!Min(Link!Matches(base)) \in Link!Matches(base)
      BY <3>1, LeastSlot DEF Link!Matches
    <3> QED
      BY <1>3, <1>5, <3>1, <3>2 DEF Link!Found, Link!Matches
  <2> DEFINE empty == [k \in 1..f.count |-> Link!Missing]
  <2>2. old = empty
    <3>1. Link!Opened(f) = [ring EXCEPT ![s] = [seq |-> base, buffer |-> empty]]
      BY <1>5 DEF Link!Opened, base
    <3> QED
      BY <1>1, <3>1 DEF LinkTyped
  <2>3. f.count \in Nat /\ f.count > 1
    BY <1>1 DEF FrameOK, Cut
  <2>4. Len(old) = f.count /\ \A k \in 1..f.count : old[k] = Link!Missing
    BY <2>2, <2>3
  <2>5. Present(old) = {}
    BY <2>4 DEF Present
  <2>6. ring[s] = Link!Free \/ Link!Evicts(f)
    BY <1>5, <2>3 DEF Link!Evicts, base
  <2> QED
    BY <1>2, <2>1, <2>4, <2>5, <2>6 DEF base
<1> QED
  BY <1>4, <1>5

\* A fragment comes in.
LEMMA ReassembleStuck ==
    ASSUME StuckInv, NEW f \in net, NEW copy \in BOOLEAN, Link!handleIncomingFrame(f, copy),
           Link!Reassemble(f)
    PROVE  StuckInv'
<1> DEFINE q == f.part.of
           base == Link!baseSequence(f)
           place == f.part.idx + 1
<1>1. /\ LinkInv /\ LinkInv' /\ LinkTyped /\ PartsPlaced /\ delivered \in Seq(Seq(Part)) /\ SlotsInUse
      /\ f \in Frames /\ FrameOK(f)
  BY ReceiveStep DEF StuckInv, LinkInv, LinkTyped, PartsPlaced, Frames
<1>2. /\ UNCHANGED <<mtu, indicating, out, sent, refused>>
      /\ net' = IF copy THEN net ELSE net \ {f}
      /\ faults' = faults \cup (IF copy THEN {"duplicated"} ELSE {})
                          \cup (IF Link!Evicts(f) THEN {"evicted"} ELSE {})
  BY DEF Link!handleIncomingFrame
<1>3. Cut(f) /\ \E s, old, buf : \E complete \in BOOLEAN : Reassembled(f, s, old, buf, complete)
  BY <1>1, ReassembleEffect
<1>4. PICK s, old, buf : \E complete \in BOOLEAN : Reassembled(f, s, old, buf, complete)
  BY <1>3
<1>5. PICK complete \in BOOLEAN : Reassembled(f, s, old, buf, complete)
  BY <1>4
<1>6. /\ s = Link!bufIndex(base) /\ s \in Link!Slot /\ old = Link!Opened(f)[s].buffer
      /\ buf = Filled(f, old) /\ BufferOK(old) /\ BufferOK(buf) /\ Len(buf) = Len(old)
      /\ complete = (f.count = Len(old) /\ f.part.idx < f.count /\ Link!Complete(buf))
      /\ OneRun => /\ \A k \in Present(old) : old[k].of = q
                   /\ \A k \in Present(buf) : buf[k].of = q
      /\ DOMAIN ring' = Link!Slot
      /\ \A t \in Link!Slot \ {s} : ring'[t] = ring[t]
      /\ ring'[s] = IF complete THEN Link!Free ELSE [seq |-> base, buffer |-> buf]
      /\ delivered' = IF complete THEN Append(delivered, buf) ELSE delivered
  BY <1>5, Zenon DEF Reassembled
<1>7. /\ base \in Int /\ base >= 1
      /\ \/ ring[s].seq = base /\ ring[s] # Link!Free /\ old = ring[s].buffer
         \/ /\ \A t \in Link!Slot : ring[t].seq # base
            /\ ring[s] = Link!Free \/ Link!Evicts(f)
            /\ Len(old) = f.count /\ Present(old) = {}
  BY <1>1, <1>3, <1>6, SlotFound
<1>8. /\ f.part \in Part /\ f.part.idx < f.count /\ q \in 1..Len(sent) /\ sent[q] = f.count
      /\ place \in 1..f.count /\ f.part = PartOf(q, place) /\ f.part # Link!Missing
  <2>1. /\ f.part \in Part /\ f.part.idx < f.count /\ q \in 1..Len(sent) /\ sent[q] = f.count
        /\ f.count \in Nat
    BY <1>1 DEF FrameOK, PartAt
  <2>2. place \in 1..f.count /\ f.part.idx = place - 1
    BY <2>1 DEF Part
  <2>3. f.part = PartOf(q, place)
    BY <2>1, <2>2 DEF Part, PartOf
  <2>4. f.part # Link!Missing
    BY <2>1 DEF Link!Missing
  <2> QED
    BY <2>1, <2>2, <2>3, <2>4
<1> HIDE DEF q, base, place
\* The buffer with the fragment.
<1>9. ASSUME f.count = Len(old)
      PROVE  /\ buf[place] = f.part /\ place \in Present(buf)
             /\ \A k \in 1..Len(old) : k # place => buf[k] = old[k]
             /\ \A k \in Present(buf) : k = place \/ (k \in Present(old) /\ buf[k] = old[k])
             /\ \A k \in Present(old) : k \in Present(buf)
  <2>1. buf = [old EXCEPT ![place] = f.part] /\ old \in Seq(Part) /\ place \in 1..Len(old)
    BY <1>6, <1>8, <1>9 DEF Filled, place, BufferOK
  <2>2. buf[place] = f.part /\ \A k \in 1..Len(old) : k # place => buf[k] = old[k]
    BY <2>1
  <2>3. place \in Present(buf)
    BY <1>6, <1>8, <2>1, <2>2 DEF Present
  <2>4. \A k \in Present(buf) : k = place \/ (k \in Present(old) /\ buf[k] = old[k])
    BY <1>6, <2>2 DEF Present
  <2>5. \A k \in Present(old) : k \in Present(buf)
    BY <1>6, <2>2, <2>3 DEF Present
  <2> QED
    BY <2>2, <2>3, <2>4, <2>5
<1>10. f.count # Len(old) =>
           /\ buf = old /\ ~complete /\ old = ring[s].buffer
           /\ Present(old) # {} /\ ~Link!Complete(old)
  <2> SUFFICES ASSUME f.count # Len(old)
               PROVE  /\ buf = old /\ ~complete /\ old = ring[s].buffer
                      /\ Present(old) # {} /\ ~Link!Complete(old)
    OBVIOUS
  <2>1. buf = old /\ ~complete
    BY <1>6 DEF Filled
  <2>2. ring[s] # Link!Free /\ old = ring[s].buffer
    BY <1>7
  <2> QED
    BY <1>1, <1>6, <2>1, <2>2 DEF SlotsInUse
<1>11. Frames' \subseteq Frames /\ \A g \in Frames : g \in Frames' \/ g = f
  BY <1>2 DEF Frames
\* The properties that hold through faults.
<1>12. SlotsInUse'
  <2>1. \A g \in Frames' : Cut(g) => Link!baseSequence(g) >= 1
    BY <1>1, <1>11 DEF SlotsInUse
  <2>2. ASSUME ring'[s] # Link!Free
        PROVE  ring'[s].seq >= 1 /\ Present(ring'[s].buffer) # {} /\ ~Link!Complete(ring'[s].buffer)
    <3>1. ~complete /\ ring'[s].seq = base /\ ring'[s].buffer = buf
      BY <1>6, <2>2
    <3>2. Present(buf) # {} /\ ~Link!Complete(buf)
      BY <1>6, <1>8, <1>9, <1>10, <3>1
    <3> QED
      BY <1>7, <3>1, <3>2
  <2>3. ring'[s].seq = 0 \/ ring'[s].seq = base
    BY <1>6 DEF Link!Free
  <2>4. \A t \in Link!Slot \ {s} : ring[t].seq # base
    BY <1>1, <1>6, <1>7 DEF SlotsInUse
  <2>5. \A t, u \in Link!Slot : ring'[t].seq = ring'[u].seq /\ ring'[t].seq # 0 => t = u
    BY <1>1, <1>6, <2>3, <2>4 DEF SlotsInUse
  <2>6. \A t \in Link!Slot : ring'[t] # Link!Free =>
          ring'[t].seq >= 1 /\ Present(ring'[t].buffer) # {} /\ ~Link!Complete(ring'[t].buffer)
    BY <1>1, <1>6, <2>2 DEF SlotsInUse
  <2> QED
    BY <2>1, <2>5, <2>6 DEF SlotsInUse, Present, Link!Complete
<1>13. SentSome' /\ FramesFit'
  BY <1>2 DEF StuckInv, SentSome, FramesFit, Link!FrameLength
\* Without faults the slot was free, or holds fragments of this packet.
<1>14. ASSUME Quiet'
       PROVE  /\ Quiet /\ OneRun /\ OneBase /\ NoneLost /\ f.count = Len(old)
              /\ \A k \in Present(ring[s].buffer) : k \in Present(old) /\ ring[s].buffer[k] = old[k]
  <2>1. Quiet /\ OneRun /\ OneBase /\ NoneLost /\ ~Link!Evicts(f)
    BY <1>2, <1>14 DEF StuckInv, Quiet, OneRun
  <2>2. CASE old = ring[s].buffer /\ ring[s] # Link!Free
    <3>1. PICK k : k \in Present(old)
      BY <1>1, <1>6, <2>2 DEF SlotsInUse
    <3>2. old[k].of = q /\ PartAt(old[k], k, Len(old))
      BY <1>6, <2>1, <3>1 DEF BufferOK
    <3> QED
      BY <1>8, <2>1, <2>2, <3>2 DEF PartAt
  <2>3. CASE ring[s] = Link!Free /\ Len(old) = f.count
    <3>1. Present(ring[s].buffer) = {}
      BY <2>3 DEF Link!Free, Present
    <3> QED
      BY <2>1, <2>3, <3>1
  <2> QED
    BY <1>7, <2>1, <2>2, <2>3
<1>15. ASSUME Quiet' PROVE OneBase'
  <2>1. HasBase(q, base)
    BY <1>1, <1>3 DEF HasBase, q, base
  <2>2. ASSUME NEW p, NEW v, HasBase(p, v)' PROVE HasBase(p, v)
    <3>1. CASE \E g \in Frames' : Cut(g) /\ g.part.of = p /\ Link!baseSequence(g) = v
      BY <1>11, <3>1 DEF HasBase
    <3>2. CASE \E t \in Link!Slot : \E k \in Present(ring'[t].buffer) :
                  ring'[t].seq = v /\ ring'[t].buffer[k].of = p
      <4>0. PICK t \in Link!Slot : \E k \in Present(ring'[t].buffer) :
                ring'[t].seq = v /\ ring'[t].buffer[k].of = p
        BY <3>2
      <4>1. PICK k \in Present(ring'[t].buffer) : ring'[t].seq = v /\ ring'[t].buffer[k].of = p
        BY <4>0
      <4>2. CASE t # s
        BY <1>6, <4>1, <4>2 DEF HasBase
      <4>3. CASE t = s
        <5>1. Present(<<>>) = {}
          BY DEF Present
        <5>2. ring'[s] = [seq |-> base, buffer |-> buf]
          BY <1>6, <4>1, <4>3, <5>1 DEF Link!Free
        <5>3. v = base /\ p = q
          BY <1>6, <1>14, <1>15, <4>1, <4>3, <5>2
        <5> QED
          BY <2>1, <5>3
      <4> QED
        BY <4>2, <4>3
    <3> QED
      BY <2>2, <3>1, <3>2 DEF HasBase, Present
  <2> QED
    BY <1>14, <1>15, <2>2 DEF OneBase
\* A complete buffer is the packet.
<1>16. ASSUME Quiet', complete
       PROVE  /\ buf = Link!Whole(q) /\ Len(buf) = sent[q] /\ buf # <<>> /\ buf[1].of = q
              /\ \A k \in 1..Len(buf) : k \in Present(buf) /\ buf[k] = PartOf(q, k)
  <2>1. buf \in Seq(Part) /\ Len(buf) = sent[q] /\ Len(buf) > 1 /\ Present(buf) = 1..Len(buf)
    BY <1>3, <1>6, <1>8, <1>16 DEF Link!Complete, Present, BufferOK, Cut
  <2>2. ASSUME NEW k \in 1..Len(buf) PROVE buf[k] = PartOf(q, k)
    <3>1. buf[k].of = q /\ PartAt(buf[k], k, Len(buf)) /\ buf[k] \in Part
      BY <1>6, <1>14, <1>16, <2>1 DEF BufferOK
    <3>2. buf[k].idx = k - 1
      BY <3>1 DEF PartAt
    <3> QED
      BY <3>1, <3>2 DEF Part, PartOf
  <2>3. buf = [k \in 1..Len(buf) |-> buf[k]]
    BY <2>1
  <2>4. buf = [k \in 1..Len(buf) |-> [of |-> q, idx |-> k - 1]]
    BY <2>2, <2>3 DEF PartOf
  <2>5. 1 \in 1..Len(buf)
    BY <2>1
  <2>6. buf[1].of = q
    <3>1. buf[1] = PartOf(q, 1)
      BY <2>2, <2>5
    <3> QED
      BY <3>1 DEF PartOf
  <2>7. buf # <<>>
    <3>1. Len(<<>>) = 0
      OBVIOUS
    <3> QED
      BY <2>1, <3>1
  <2> QED
    BY <2>1, <2>2, <2>4, <2>6, <2>7 DEF Link!Whole
<1>17. /\ complete => /\ delivered'[Len(delivered) + 1] = buf
                      /\ DOMAIN delivered' = DOMAIN delivered \cup {Len(delivered) + 1}
       /\ ~complete => delivered' = delivered
       /\ \A i \in DOMAIN delivered : i \in DOMAIN delivered' /\ delivered'[i] = delivered[i]
  <2>1. CASE complete
    <3>1. delivered' = Append(delivered, buf) /\ buf \in Seq(Part)
      BY <1>6, <2>1 DEF BufferOK
    <3> QED
      BY <1>1, <2>1, <3>1
  <2>2. CASE ~complete
    BY <1>6, <2>2
  <2> QED
    BY <2>1, <2>2
<1>18. ASSUME Quiet' PROVE NoneLost'
  <2>1. complete => Delivered(q)'
    <3> SUFFICES ASSUME complete PROVE Delivered(q)'
      OBVIOUS
    <3>1. buf = Link!Whole(q)'
      BY <1>2, <1>16, <1>18 DEF Link!Whole
    <3> QED
      BY <1>17, <3>1 DEF Delivered
  <2>2. \A p : Delivered(p) => Delivered(p)'
    BY <1>2, <1>17 DEF Delivered, Link!Whole
  <2>3. ASSUME NEW p \in 1..Len(sent), NEW k \in Nat, Somewhere(p, k), ~(p = q /\ complete)
        PROVE  Somewhere(p, k)'
    <3>0. PartOf(p, k).of = p /\ PartOf(p, k) # Link!Missing
      BY DEF PartOf, Link!Missing
    <3>1. CASE PartOf(p, k) = f.part
      <4>1. p = q /\ k = place /\ ~complete
        BY <1>8, <2>3, <3>0, <3>1 DEF PartOf
      <4>2. ring'[s].buffer = buf /\ Len(buf) = f.count /\ buf[place] = f.part
        BY <1>6, <1>9, <1>14, <1>18, <4>1
      <4> QED
        BY <1>6, <1>8, <3>1, <4>1, <4>2 DEF Somewhere, PartOf
    <3>2. CASE (\E g \in Frames : g.part = PartOf(p, k)) /\ PartOf(p, k) # f.part
      BY <1>11, <3>2 DEF Somewhere, PartOf
    <3>3. CASE /\ \E t \in Link!Slot : k \in 1..Len(ring[t].buffer) /\ ring[t].buffer[k] = PartOf(p, k)
               /\ PartOf(p, k) # f.part
      <4>1. PICK t \in Link!Slot : k \in 1..Len(ring[t].buffer) /\ ring[t].buffer[k] = PartOf(p, k)
        BY <3>3
      <4>2. CASE t # s
        BY <1>6, <4>1, <4>2 DEF Somewhere, PartOf
      <4>3. CASE t = s
        <5>1. k \in Present(ring[s].buffer)
          BY <3>0, <4>1, <4>3 DEF Present
        <5>2. k \in Present(old) /\ old[k] = PartOf(p, k)
          BY <1>14, <1>18, <4>1, <4>3, <5>1
        <5>3. p = q
          BY <1>6, <1>14, <1>18, <3>0, <5>2
        <5>4. ~complete /\ ring'[s].buffer = buf
          BY <1>6, <2>3, <5>3
        <5>5. k \in 1..Len(old) /\ k # place
          <6>1. k \in 1..Len(old)
            BY <5>2 DEF Present
          <6>2. k # place
            BY <1>8, <3>3, <5>3
          <6> QED
            BY <6>1, <6>2
        <5>6. buf[k] = PartOf(p, k) /\ k \in 1..Len(buf)
          BY <1>6, <1>9, <1>14, <1>18, <5>2, <5>5
        <5> QED
          BY <1>6, <5>4, <5>6 DEF Somewhere, PartOf
      <4> QED
        BY <4>2, <4>3
    <3> QED
      BY <2>3, <3>1, <3>2, <3>3 DEF Somewhere
  <2>4. ASSUME NEW p \in 1..Len(sent) PROVE Delivered(p)' \/ \A k \in 1..sent[p] : Somewhere(p, k)'
    <3>1. \A k \in 1..sent[p] : k \in Nat
      OBVIOUS
    <3> QED
      BY <1>14, <1>18, <2>1, <2>2, <2>3, <3>1 DEF NoneLost
  <2> QED
    BY <1>2, <2>4 DEF NoneLost
<1>19. ASSUME Quiet', "duplicated" \notin faults' PROVE Once'
  <2>1. Once
    BY <1>2, <1>14, <1>19 DEF StuckInv
  <2>2. net' = net \ {f} /\ out' = out
    BY <1>2, <1>19
  <2>3. f.count = Len(old) /\ OneRun /\ OneBase
    BY <1>14, <1>19
  <2>4. ASSUME NEW g \in Frames' PROVE g \in Frames /\ g.part # f.part
    BY <1>11, <2>1, <2>2 DEF Once, Frames
  <2>5. ASSUME NEW k \in Present(old) PROVE old = ring[s].buffer
    BY <1>7
  <2>6. ASSUME NEW k \in Present(buf), NEW g \in Frames' PROVE buf[k] # g.part
    <3>1. CASE k = place
      BY <1>9, <2>3, <2>4, <3>1
    <3>2. CASE k # place
      <4>1. k \in Present(old) /\ buf[k] = old[k]
        BY <1>9, <2>3, <3>2
      <4>2. k \in Present(ring[s].buffer) /\ buf[k] = ring[s].buffer[k]
        BY <2>5, <4>1
      <4>3. g \in Frames /\ s \in Link!Slot
        BY <1>6, <2>4
      <4>4. ring[s].buffer[k] # g.part
        BY <2>1, <4>2, <4>3 DEF Once
      <4> QED
        BY <4>2, <4>4
    <3> QED
      BY <3>1, <3>2
  <2>7. ASSUME NEW t \in Link!Slot, NEW k \in Present(ring'[t].buffer)
        PROVE  \/ t # s /\ k \in Present(ring[t].buffer) /\ ring'[t] = ring[t]
               \/ t = s /\ ~complete /\ k \in Present(buf) /\ ring'[t].buffer = buf
    <3>1. Present(<<>>) = {}
      BY DEF Present
    <3> QED
      BY <1>6, <2>7, <3>1 DEF Link!Free
  <2>8. \A t \in Link!Slot : \A k \in Present(ring'[t].buffer) : \A g \in Frames' :
          ring'[t].buffer[k] # g.part
    BY <2>1, <2>4, <2>6, <2>7 DEF Once
  <2>9. \A i \in DOMAIN delivered : delivered[i][1].of # q
    <3>1. q = f.part.of
      BY DEF q
    <3> QED
      BY <1>1, <2>1, <3>1, Zenon DEF Once
  <2>10. \A i \in DOMAIN delivered : \A t \in Link!Slot : \A k \in Present(ring'[t].buffer) :
           ring'[t].buffer[k].of # delivered[i][1].of
    <3> SUFFICES ASSUME NEW i \in DOMAIN delivered, NEW t \in Link!Slot,
                        NEW k \in Present(ring'[t].buffer)
                 PROVE  ring'[t].buffer[k].of # delivered[i][1].of
      OBVIOUS
    <3>1. CASE t # s /\ k \in Present(ring[t].buffer) /\ ring'[t] = ring[t]
      BY <2>1, <3>1 DEF Once
    <3>2. CASE k \in Present(buf) /\ ring'[t].buffer = buf
      <4>1. buf[k].of = q
        BY <1>6, <2>3, <3>2
      <4> QED
        BY <2>9, <3>2, <4>1
    <3> QED
      BY <2>7, <3>1, <3>2
  <2>11. complete => \A g \in Frames' : g.part.of # q
    <3> SUFFICES ASSUME complete, NEW g \in Frames', g.part.of = q PROVE FALSE
      OBVIOUS
    <3>1. FrameOK(g)
      BY <1>1, <2>4 DEF PartsPlaced
    <3>2. g.part \in Part /\ g.part.idx < sent[q] /\ sent[q] \in Nat
      BY <3>1 DEF FrameOK, PartAt
    <3>3. g.part.idx + 1 \in 1..Len(buf) /\ g.part = PartOf(q, g.part.idx + 1)
      <4>1. Len(buf) = sent[q]
        BY <1>16, <1>19
      <4>2. g.part.idx + 1 \in 1..Len(buf) /\ g.part.idx = (g.part.idx + 1) - 1
        BY <3>2, <4>1 DEF Part
      <4> QED
        BY <3>2, <4>2 DEF Part, PartOf
    <3> QED
      BY <1>16, <1>19, <2>6, <3>3
  <2>12. complete => \A t \in Link!Slot : \A k \in Present(ring'[t].buffer) : ring'[t].buffer[k].of # q
    <3> SUFFICES ASSUME complete, NEW t \in Link!Slot, NEW k \in Present(ring'[t].buffer),
                        ring'[t].buffer[k].of = q
                 PROVE  FALSE
      OBVIOUS
    <3>1. t # s /\ k \in Present(ring[t].buffer) /\ ring'[t] = ring[t]
      BY <2>7
    <3>2. HasBase(q, ring[t].seq)
      BY <3>1 DEF HasBase
    <3>3. HasBase(q, base)
      BY <1>1, <1>3 DEF HasBase, q, base
    <3>4. ring[t].seq = base
      BY <2>3, <3>2, <3>3 DEF OneBase
    <3> QED
      BY <1>1, <1>6, <1>7, <3>1, <3>4 DEF SlotsInUse
  <2>13. \A i, j \in DOMAIN delivered' : delivered'[i][1].of = delivered'[j][1].of => i = j
    <3>1. CASE complete
      BY <1>16, <1>17, <1>19, <2>1, <2>9, <3>1 DEF Once
    <3>2. CASE ~complete
      BY <1>17, <2>1, <3>2 DEF Once
    <3> QED
      BY <3>1, <3>2
  <2>14. \A i \in DOMAIN delivered' : \A g \in Frames' : g.part.of # delivered'[i][1].of
    <3>1. CASE complete
      BY <1>16, <1>17, <1>19, <2>1, <2>4, <2>11, <3>1 DEF Once
    <3>2. CASE ~complete
      BY <1>17, <2>1, <2>4, <3>2 DEF Once
    <3> QED
      BY <3>1, <3>2
  <2>15. \A i \in DOMAIN delivered' : \A t \in Link!Slot : \A k \in Present(ring'[t].buffer) :
           ring'[t].buffer[k].of # delivered'[i][1].of
    <3>1. CASE complete
      BY <1>16, <1>17, <1>19, <2>10, <2>12, <3>1
    <3>2. CASE ~complete
      BY <1>17, <2>10, <3>2
    <3> QED
      BY <3>1, <3>2
  <2>16. /\ \A i, j \in DOMAIN out' : out'[i].part = out'[j].part => i = j
         /\ \A g, h \in net' : g.part = h.part => g = h
         /\ \A i \in DOMAIN out' : \A g \in net' : out'[i].part # g.part
    BY <2>1, <2>2 DEF Once
  <2> QED
    BY <2>8, <2>13, <2>14, <2>15, <2>16 DEF Once, Present
<1> QED
  BY <1>1, <1>12, <1>13, <1>15, <1>18, <1>19 DEF StuckInv

\* Every step keeps the inductive invariant of what is still to come.
LEMMA StuckStep == StuckInv /\ [Link!Next]_Link!vars => StuckInv'
<1> SUFFICES ASSUME StuckInv, [Link!Next]_Link!vars PROVE StuckInv'
  OBVIOUS
<1>1. ASSUME NEW bytes \in PacketSize, NEW token \in BOOLEAN, NEW marked \in BOOLEAN,
             NEW extra \in Extra,
             Link!Fragment(bytes, token, marked, extra) \/ Link!SendWhole(bytes, token, marked, extra)
      PROVE  StuckInv'
  BY <1>1, FragmentStuck, SendWholeStuck
<1>2. ASSUME NEW f \in net, NEW copy \in BOOLEAN, Link!handleIncomingFrame(f, copy)
      PROVE  StuckInv'
  <2>1. Link!ReceiveWhole(f) \/ Link!Reassemble(f)
    BY <1>2 DEF Link!handleIncomingFrame
  <2> QED
    BY <1>2, <2>1, ReceiveWholeStuck, ReassembleStuck
<1>3. CASE \/ \E bytes \in PacketSize, token, marked \in BOOLEAN : Link!DropLarge(bytes, token, marked)
           \/ \E n \in Mtu : Link!SetMTU(n)
           \/ \E i \in Indicating : Link!SetOptions(i)
           \/ \E sum \in Link!OverheadSums : Link!computeHeaderOverhead(sum)
           \/ Link!Restart
           \/ \E f \in net : Link!Lose(f)
           \/ UNCHANGED Link!vars
  BY <1>3, ManagementStuck
<1>4. CASE Link!SendFrame
  BY <1>4, SendFrameStuck
<1> QED
  BY <1>1, <1>2, <1>3, <1>4 DEF Link!Next

\* At the start no packet is sent.
LEMMA StuckInit == Link!Init => StuckInv
<1> SUFFICES ASSUME Link!Init PROVE StuckInv
  OBVIOUS
<1>1. /\ LinkInv
      /\ out = <<>> /\ net = {} /\ delivered = <<>> /\ sent = <<>> /\ refused = {}
      /\ ring = [s \in Link!Slot |-> Link!Free]
  BY LinkInit DEF Link!Init
<1>2. Frames = {} /\ DOMAIN out = {} /\ DOMAIN delivered = {} /\ 1..Len(sent) = {}
  BY <1>1 DEF Frames
<1>3. \A s \in Link!Slot : ring[s].seq = 0 /\ Present(ring[s].buffer) = {}
  <2>1. Link!Free.seq = 0 /\ Present(Link!Free.buffer) = {}
    BY DEF Link!Free, Present
  <2> QED
    BY <1>1, <2>1
<1>4. SlotsInUse
  BY <1>1, <1>2, <1>3 DEF SlotsInUse
<1>5. SentSome /\ FramesFit
  BY <1>1, <1>2 DEF SentSome, FramesFit
<1>6. OneBase /\ NoneLost
  BY <1>2, <1>3 DEF OneBase, HasBase, NoneLost
<1>7. Once
  BY <1>1, <1>2, <1>3 DEF Once
<1> QED
  BY <1>1, <1>4, <1>5, <1>6, <1>7 DEF StuckInv

\* A packet that is not delivered has a fragment on its way: all of them in
\* buffers would be in one, and that would be complete.
LEMMA WaitingIsComing ==
    ASSUME StuckInv, Quiet, Frames = {}, NEW p \in 1..Len(sent)
    PROVE  Delivered(p)
<1> SUFFICES ASSUME ~Delivered(p) PROVE FALSE
  OBVIOUS
<1>1. LinkInv /\ SlotsInUse /\ OneBase /\ sent \in Seq(Nat) /\ sent[p] \in Nat \ {0}
  BY DEF StuckInv, SentSome, LinkInv, LinkTyped
<1>2. ASSUME NEW k \in 1..sent[p]
      PROVE  \E s \in Link!Slot : k \in 1..Len(ring[s].buffer) /\ ring[s].buffer[k] = PartOf(p, k)
  BY DEF StuckInv, NoneLost, Somewhere
<1>3. \A k \in Nat : PartOf(p, k).of = p /\ PartOf(p, k) # Link!Missing
  <2>1. p # 0
    OBVIOUS
  <2> QED
    BY <2>1 DEF PartOf, Link!Missing
<1>4. PICK s \in Link!Slot : 1 \in 1..Len(ring[s].buffer) /\ ring[s].buffer[1] = PartOf(p, 1)
  BY <1>1, <1>2
<1>5. 1 \in Present(ring[s].buffer) /\ HasBase(p, ring[s].seq)
  BY <1>3, <1>4 DEF Present, HasBase
<1>6. ring[s] # Link!Free
  <2>1. Len(Link!Free.buffer) = 0
    BY DEF Link!Free
  <2> QED
    BY <1>4, <2>1
<1>7. ring[s].seq >= 1 /\ ~Link!Complete(ring[s].buffer)
  BY <1>1, <1>6 DEF SlotsInUse
<1>8. Len(ring[s].buffer) = sent[p]
  <2>1. BufferOK(ring[s].buffer)
    BY <1>1 DEF LinkInv, PartsPlaced
  <2>2. PartAt(ring[s].buffer[1], 1, Len(ring[s].buffer))
    BY <1>5, <2>1 DEF BufferOK
  <2> QED
    BY <1>3, <1>4, <2>2 DEF PartAt
<1>9. ASSUME NEW k \in 1..sent[p] PROVE ring[s].buffer[k] # Link!Missing
  <2>1. PICK t \in Link!Slot : k \in 1..Len(ring[t].buffer) /\ ring[t].buffer[k] = PartOf(p, k)
    BY <1>2
  <2>2. k \in Present(ring[t].buffer) /\ HasBase(p, ring[t].seq)
    BY <1>3, <2>1 DEF Present, HasBase
  <2>3. ring[t].seq = ring[s].seq
    BY <1>1, <1>5, <2>2 DEF OneBase
  <2>4. t = s
    BY <1>1, <1>7, <2>3 DEF SlotsInUse
  <2> QED
    BY <2>2, <2>4 DEF Present
<1> QED
  BY <1>7, <1>8, <1>9 DEF Link!Complete

\* Packets that are delivered once each are as many as were sent.
LEMMA DeliveredOnce ==
    ASSUME StuckInv, Quiet, Once, \A p \in 1..Len(sent) : Delivered(p)
    PROVE  Len(delivered) = Len(sent)
<1>1. LinkInv /\ sent \in Seq(Nat) /\ delivered \in Seq(Seq(Part))
  BY DEF StuckInv, LinkInv, LinkTyped
<1> DEFINE packetOf == [i \in 1..Len(delivered) |-> delivered[i][1].of]
<1>2. Len(sent) \in Nat /\ Len(delivered) \in Nat /\ DOMAIN delivered = 1..Len(delivered)
  BY <1>1
<1>3. \A i \in 1..Len(delivered) : delivered[i][1].of \in 1..Len(sent)
  BY <1>1, <1>2, OldPackets
<1>4. \A i, j \in 1..Len(delivered) : delivered[i][1].of = delivered[j][1].of => i = j
  BY <1>2 DEF Once
<1>5. ASSUME NEW p \in 1..Len(sent) PROVE \E i \in 1..Len(delivered) : delivered[i][1].of = p
  <2>1. PICK i \in 1..Len(delivered) : delivered[i] = Link!Whole(p)
    BY <1>2 DEF Delivered
  <2>2. 1 \in 1..sent[p]
    BY <1>1 DEF StuckInv, SentSome
  <2>3. Link!Whole(p)[1] = [of |-> p, idx |-> 1 - 1]
    BY <2>2 DEF Link!Whole
  <2> QED
    BY <2>1, <2>3
<1>6. packetOf \in Bijection(1..Len(delivered), 1..Len(sent))
  BY <1>3, <1>4, <1>5 DEF Bijection, Injection, Surjection, IsInjective
<1>7. ExistsBijection(1..Len(delivered), 1..Len(sent))
  BY <1>6 DEF ExistsBijection
<1>8. Cardinality(1..Len(sent)) = Len(delivered)
  BY <1>2, <1>7, FS_CountingElements
<1>9. Cardinality(1..Len(sent)) = Len(sent)
  <2>1. 1 \in Int /\ Len(sent) \in Int
    BY <1>2
  <2>2. Cardinality(1..Len(sent)) = IF 1 > Len(sent) THEN 0 ELSE Len(sent) - 1 + 1
    BY <2>1, FS_Interval, Zenon
  <2> QED
    BY <1>2, <2>2
<1> QED
  BY <1>8, <1>9

\* Nothing is stuck in a state of the inductive invariant.
LEMMA StuckImplies == StuckInv => Link!NothingStuck
<1> SUFFICES ASSUME StuckInv PROVE Link!NothingStuck
  OBVIOUS
<1>1. ASSUME out = <<>>, net = {}, Quiet
      PROVE  /\ \A p \in 1..Len(sent) : Link!Whole(p) \in Link!Range(delivered)
             /\ "duplicated" \notin faults => Len(delivered) = Len(sent)
  <2>1. Frames = {}
    BY <1>1 DEF Frames
  <2>2. \A p \in 1..Len(sent) : Delivered(p)
    BY <1>1, <2>1, WaitingIsComing
  <2>3. \A p \in 1..Len(sent) : Link!Whole(p) \in Link!Range(delivered)
    BY <2>2 DEF Delivered, Link!Range
  <2>4. "duplicated" \notin faults => Len(delivered) = Len(sent)
    BY <1>1, <2>2, DeliveredOnce DEF StuckInv
  <2> QED
    BY <2>3, <2>4
<1>2. 0 \in refused => "changed" \in faults
  BY DEF StuckInv, FramesFit
<1> QED
  BY <1>1, <1>2 DEF Link!NothingStuck, Quiet

\* Whatever the sizes of packets, rings and MTUs: when all frames have come and
\* none was lost or evicted, sendPacket and reassemble have got every packet
\* through, exactly once unless a frame came twice; and the transport refuses
\* no frame for its length, but for EgressRouter and BIER fields or a change
\* of the MTU or the options within a packet.
THEOREM NothingStays == PartsSpec => []NothingStuck
<1> DEFINE FrameInv == part = "frame" => StuckInv
<1>1. PartsInit => FrameInv
  BY StuckInit DEF PartsInit
<1>2. FrameInv /\ [PartsNext]_<<part, vars, hashVars, codecVars, linkVars>> => FrameInv'
  <2> SUFFICES ASSUME FrameInv, [PartsNext]_<<part, vars, hashVars, codecVars, linkVars>>,
                      part' = "frame"
               PROVE  StuckInv'
    OBVIOUS
  <2>1. part = "frame" /\ [Link!Next]_Link!vars
    BY DEF PartsNext, linkVars, Link!vars
  <2> QED
    BY <2>1, StuckStep
<1>3. FrameInv => NothingStuck
  BY StuckImplies DEF NothingStuck
<1> HIDE DEF FrameInv
<1> QED
  BY <1>1, <1>2, <1>3, PTL DEF PartsSpec

-----------------------------------------------------------------------------
(***************************************************************************)
(* The hash table                                                          *)
(***************************************************************************)
\* The entries are what was registered.
EntriesRegistered ==
    /\ registered \in [HashName -> [hops : SUBSET Face, strategy : Strategy \cup {None}]]
    /\ DOMAIN realTable \subseteq HashName
    /\ \A n \in DOMAIN realTable :
          realTable[n] = [nexthops |-> registered[n].hops, strategy |-> registered[n].strategy]
    /\ \A n \in HashName \ DOMAIN realTable : registered[n] = [hops |-> {}, strategy |-> None]
    /\ <<>> \in DOMAIN realTable /\ registered[<<>>].strategy # None
    /\ update \in [name : HashName, todo : SUBSET Face]

\* Every entry that is long enough is known to its virtual node, whose depth
\* is at least the entry's.
DepthsReach ==
    /\ \A v \in DOMAIN virtTable : virtTable[v] \in Nat
    /\ \A v \in DOMAIN virtTableNames :
          /\ v \in DOMAIN virtTable
          /\ \A n \in virtTableNames[v] : n \in HashName /\ Len(n) <= virtTable[v]
    /\ \A n \in DOMAIN realTable : Len(n) >= m =>
          /\ Hash!VirtualName(n) \in DOMAIN virtTableNames
          /\ n \in virtTableNames[Hash!VirtualName(n)]

HashInv == EntriesRegistered /\ DepthsReach

\* The larger and the smaller of two numbers, as FibHash takes them.
LEMMA OfTwo ==
    ASSUME NEW i \in Nat, NEW j \in Nat
    PROVE  /\ Hash!Max({i, j}) = IF i <= j THEN j ELSE i
           /\ Hash!Min({i, j}) = IF i <= j THEN i ELSE j
BY DEF Hash!Max, Hash!Min

\* Of names no longer than some length, one is the longest.
LEMMA LongestOne ==
    ASSUME NEW T, T # {}, NEW top \in Nat, \A n \in T : Len(n) \in Nat /\ Len(n) <= top
    PROVE  Hash!Longest(T) \in T /\ \A n \in T : Len(n) <= Len(Hash!Longest(T))
<1> DEFINE gaps == {top - Len(n) : n \in T}
<1>1. gaps \in SUBSET Nat /\ gaps # {}
  OBVIOUS
<1>2. PICK g \in gaps : \A h \in gaps : g <= h
  <2>1. Min(gaps) \in gaps /\ \A h \in gaps : Min(gaps) <= h
    BY <1>1, LeastOfNaturals
  <2> QED
    BY <2>1
<1>3. PICK n \in T : g = top - Len(n)
  OBVIOUS
<1>4. ASSUME NEW o \in T PROVE Len(o) <= Len(n)
  <2>1. top - Len(o) \in gaps
    OBVIOUS
  <2>2. top - Len(n) <= top - Len(o)
    BY <1>2, <1>3, <2>1
  <2> QED
    BY <2>2
<1> QED
  BY <1>4 DEF Hash!Longest

\* Names and their lengths.
LEMMA HashNames ==
    /\ m \in Nat \ {0}
    /\ \A n \in HashName \cup HashLookup : n \in Seq(Component) /\ Len(n) \in Nat
    /\ <<>> \in HashName /\ Len(<<>>) = 0
    /\ Default \in Strategy /\ None \notin Strategy
BY HashAssumed DEF Hash!FibHashAssumption

\* A prefix is no longer than the name and, if it is long enough, below the
\* same virtual node.
LEMMA PrefixFacts ==
    ASSUME NEW n \in HashName, NEW name \in HashLookup, Hash!IsPrefix(n, name)
    PROVE  /\ Len(n) <= Len(name)
           /\ Len(n) >= m => Hash!VirtualName(n) = Hash!VirtualName(name)
<1>1. n \in Seq(Component) /\ name \in Seq(Component) /\ m \in Nat
  BY HashNames
<1>2. Len(n) <= Len(name) /\ SubSeq(n, 1, Len(n)) = SubSeq(name, 1, Len(n))
  BY DEF Hash!IsPrefix
<1>3. ASSUME NEW i \in 1..Len(n) PROVE n[i] = name[i]
  <2>1. SubSeq(n, 1, Len(n))[i] = n[i]
    BY <1>1
  <2>2. SubSeq(name, 1, Len(n))[i] = name[i]
    BY <1>1, <1>2
  <2> QED
    BY <1>2, <2>1, <2>2
<1>4. ASSUME Len(n) >= m PROVE SubSeq(n, 1, m) = SubSeq(name, 1, m)
  <2>1. /\ SubSeq(n, 1, m) \in Seq(Component) /\ SubSeq(name, 1, m) \in Seq(Component)
        /\ Len(SubSeq(n, 1, m)) = m /\ Len(SubSeq(name, 1, m)) = m
    BY <1>1, <1>2, <1>4
  <2>2. \A i \in 1..m : SubSeq(n, 1, m)[i] = n[i] /\ SubSeq(name, 1, m)[i] = name[i]
    BY <1>1, <1>2, <1>4
  <2>3. \A i \in 1..m : SubSeq(n, 1, m)[i] = SubSeq(name, 1, m)[i]
    BY <1>1, <1>3, <1>4, <2>2
  <2> QED
    BY <2>1, <2>3
<1> QED
  BY <1>2, <1>4 DEF Hash!VirtualName

\* The entries for prefixes of a name.
PrefixesOf(name) == {n \in DOMAIN realTable : Hash!IsPrefix(n, name)}

\* The search finds the longest prefix that has an entry: above m it goes as
\* deep as the virtual node says, which is deep enough.
LEMMA LongestMatch ==
    ASSUME HashInv, NEW name \in HashLookup
    PROVE  /\ Hash!findLongestPrefixMatch(name) \in PrefixesOf(name)
           /\ \A n \in PrefixesOf(name) : Len(n) <= Len(Hash!findLongestPrefixMatch(name))
<1> DEFINE found == Hash!findLongestPrefixMatch(name)
           low == Hash!RealPrefixes(name, 0, Hash!Min({m, Len(name)}))
           below == IF Len(name) <= m THEN {}
                    ELSE Hash!RealPrefixes(name, m + 1, Hash!SearchDepth(name))
<1>1. found = IF below # {} THEN Hash!Longest(below) ELSE Hash!Longest(low)
  BY DEF Hash!findLongestPrefixMatch
<1>2. m \in Nat \ {0} /\ name \in Seq(Component) /\ Len(name) \in Nat
  BY HashNames
<1>3. ASSUME NEW n \in PrefixesOf(name)
      PROVE  /\ n \in HashName /\ n \in DOMAIN realTable /\ Len(n) \in Nat /\ Len(n) <= Len(name)
             /\ Hash!IsPrefix(n, name)
             /\ Len(n) >= m => Hash!VirtualName(n) = Hash!VirtualName(name)
  <2>1. n \in HashName /\ n \in DOMAIN realTable /\ Hash!IsPrefix(n, name)
    BY DEF PrefixesOf, HashInv, EntriesRegistered
  <2> QED
    BY <2>1, HashNames, PrefixFacts
<1>4. low = {n \in PrefixesOf(name) : Len(n) <= m}
  <2>1. Hash!Min({m, Len(name)}) = IF m <= Len(name) THEN m ELSE Len(name)
    BY <1>2, OfTwo
  <2>2. \A n : n \in low <=> n \in PrefixesOf(name) /\ 0 <= Len(n) /\ Len(n) <= Hash!Min({m, Len(name)})
    BY DEF Hash!RealPrefixes, PrefixesOf
  <2> HIDE DEF low
  <2>3. ASSUME NEW n \in PrefixesOf(name)
        PROVE  (0 <= Len(n) /\ Len(n) <= Hash!Min({m, Len(name)})) <=> Len(n) <= m
    BY <1>2, <1>3, <2>1
  <2> QED
    BY <2>2, <2>3
<1>5. below = {n \in PrefixesOf(name) : Len(n) > m}
  <2>1. CASE Len(name) <= m
    <3>1. \A n \in PrefixesOf(name) : ~(Len(n) > m)
      BY <1>2, <1>3, <2>1
    <3> QED
      BY <2>1, <3>1
  <2>2. CASE ~(Len(name) <= m)
    <3>1. \A n : n \in below <=>
              n \in PrefixesOf(name) /\ m + 1 <= Len(n) /\ Len(n) <= Hash!SearchDepth(name)
      BY <2>2 DEF Hash!RealPrefixes, PrefixesOf
    <3> HIDE DEF below
    <3>2. ASSUME NEW n \in PrefixesOf(name), Len(n) > m
          PROVE  m + 1 <= Len(n) /\ Len(n) <= Hash!SearchDepth(name)
      <4> DEFINE v == Hash!VirtualName(name)
      <4>1. v = Hash!VirtualName(n) /\ n \in DOMAIN realTable /\ Len(n) \in Nat /\ Len(n) >= m
        BY <1>2, <1>3, <3>2
      <4> HIDE DEF v
      <4>2. /\ v \in DOMAIN virtTableNames /\ v \in DOMAIN virtTable
            /\ virtTable[v] \in Nat /\ Len(n) <= virtTable[v]
        BY <4>1 DEF HashInv, DepthsReach
      <4>3. Hash!SearchDepth(name) = Hash!Min({virtTable[v], Len(name)})
        BY <4>2 DEF Hash!SearchDepth, v
      <4>4. Hash!SearchDepth(name) = IF virtTable[v] <= Len(name) THEN virtTable[v] ELSE Len(name)
        BY <1>2, <4>2, <4>3, OfTwo
      <4>5. Len(n) <= Len(name)
        BY <1>3
      <4> QED
        BY <1>2, <3>2, <4>1, <4>2, <4>4, <4>5
    <3>3. ASSUME NEW n \in PrefixesOf(name), m + 1 <= Len(n) PROVE Len(n) > m
      BY <1>2, <1>3, <3>3
    <3> QED
      BY <3>1, <3>2, <3>3
  <2> QED
    BY <2>1, <2>2
<1> HIDE DEF found, low, below
<1>6. CASE below # {}
  <2>1. found \in below /\ \A n \in below : Len(n) <= Len(found)
    BY <1>1, <1>2, <1>3, <1>5, <1>6, LongestOne
  <2>2. ASSUME NEW n \in PrefixesOf(name) PROVE Len(n) <= Len(found)
    <3>1. CASE Len(n) > m
      BY <1>5, <2>1, <3>1
    <3>2. CASE ~(Len(n) > m)
      <4>1. found \in PrefixesOf(name) /\ Len(found) > m
        BY <1>5, <2>1
      <4> QED
        BY <1>2, <1>3, <3>2, <4>1
    <3> QED
      BY <3>1, <3>2
  <2> QED
    BY <1>5, <2>1, <2>2 DEF found
<1>7. CASE below = {}
  <2>1. <<>> \in PrefixesOf(name)
    BY <1>2 DEF PrefixesOf, HashInv, EntriesRegistered, Hash!IsPrefix
  <2>2. low = PrefixesOf(name)
    BY <1>2, <1>3, <1>4, <1>5, <1>7
  <2>3. found \in low /\ \A n \in low : Len(n) <= Len(found)
    BY <1>1, <1>2, <1>3, <1>7, <2>1, <2>2, LongestOne
  <2> QED
    BY <2>2, <2>3 DEF found
<1> QED
  BY <1>6, <1>7

\* So a lookup sees every entry for a prefix.
LEMMA LookupSeesAll ==
    ASSUME HashInv, NEW name \in HashLookup
    PROVE  Hash!RealPrefixes(name, 0, Len(Hash!findLongestPrefixMatch(name))) = PrefixesOf(name)
<1>1. \A n \in PrefixesOf(name) : Len(n) \in Nat
  BY HashNames DEF PrefixesOf, HashInv, EntriesRegistered
<1> QED
  BY <1>1, LongestMatch DEF PrefixesOf, Hash!RealPrefixes

\* Entries that are what was registered, found without exception, give the
\* next hops and the strategy registered at the longest prefix.
LEMMA FindsTheLongest == HashInv => Hash!FindsLongest
<1> SUFFICES ASSUME HashInv, NEW name \in HashLookup
             PROVE  /\ Hash!FindNextHops(name) = IF Hash!WithHops(name) = {} THEN {}
                                                 ELSE registered[Hash!Longest(Hash!WithHops(name))].hops
                    /\ Hash!FindStrategy(name) = registered[Hash!Longest(Hash!WithStrategy(name))].strategy
  BY DEF Hash!FindsLongest
<1> DEFINE all == PrefixesOf(name)
           hops == {n \in all : realTable[n].nexthops # {}}
           strategies == {n \in all : realTable[n].strategy # None}
<1>1. \A n \in all : /\ n \in HashName /\ Len(n) \in Nat /\ Len(n) <= Len(name)
                     /\ realTable[n].nexthops = registered[n].hops
                     /\ realTable[n].strategy = registered[n].strategy
  BY HashNames, PrefixFacts DEF PrefixesOf, HashInv, EntriesRegistered
<1>2. \A n \in HashName : Hash!IsPrefix(n, name) /\ n \notin all =>
          registered[n].hops = {} /\ registered[n].strategy = None
  BY DEF PrefixesOf, HashInv, EntriesRegistered
<1>3. <<>> \in all /\ registered[<<>>].strategy # None
  BY HashNames DEF PrefixesOf, HashInv, EntriesRegistered, Hash!IsPrefix
<1>4. Hash!WithHops(name) = hops /\ Hash!WithStrategy(name) = strategies
  <2>1. \A n \in all : Hash!IsPrefix(n, name)
    BY DEF PrefixesOf
  <2> HIDE DEF all
  <2> QED
    BY <1>1, <1>2, <2>1 DEF Hash!WithHops, Hash!WithStrategy
<1>5. /\ Hash!FindNextHops(name) = IF hops = {} THEN {} ELSE realTable[Hash!Longest(hops)].nexthops
      /\ Hash!FindStrategy(name) = IF strategies = {} THEN None
                                   ELSE realTable[Hash!Longest(strategies)].strategy
  BY LookupSeesAll DEF Hash!FindNextHops, Hash!FindStrategy
<1> HIDE DEF all
<1>6. Len(name) \in Nat
  BY HashNames
<1>7. hops # {} => Hash!Longest(hops) \in hops
  BY <1>1, <1>6, LongestOne
<1>8. strategies # {} /\ Hash!Longest(strategies) \in strategies
  <2>1. strategies # {}
    BY <1>1, <1>3
  <2> QED
    BY <1>1, <1>6, <2>1, LongestOne
<1> QED
  BY <1>1, <1>4, <1>5, <1>7, <1>8

\* An operation that inserts: the entry of a name becomes what is registered.
LEMMA InsertKeeps ==
    ASSUME HashInv, NEW name \in HashName, NEW entry,
           Hash!InsertEntry(name, entry),
           NEW reg \in [hops : SUBSET Face, strategy : Strategy \cup {None}],
           entry = [nexthops |-> reg.hops, strategy |-> reg.strategy],
           name = <<>> => reg.strategy # None,
           registered' = [registered EXCEPT ![name] = reg],
           update' \in [name : HashName, todo : SUBSET Face]
    PROVE  HashInv'
<1>1. realTable' = [n \in DOMAIN realTable \cup {name} |-> IF n = name THEN entry ELSE realTable[n]]
  BY DEF Hash!InsertEntry, Hash!Put
<1>2. EntriesRegistered'
  BY <1>1 DEF HashInv, EntriesRegistered
<1>3. m \in Nat \ {0} /\ \A n \in HashName : n \in Seq(Component) /\ Len(n) \in Nat
  BY HashNames
<1>4. CASE ~(Len(name) >= m)
  <2>1. UNCHANGED <<virtTable, virtTableNames>>
    BY <1>4 DEF Hash!InsertEntry
  <2>2. \A n \in DOMAIN realTable' : n \in DOMAIN realTable \/ n = name
    BY <1>1
  <2>3. DepthsReach'
    BY <1>4, <2>1, <2>2 DEF HashInv, DepthsReach
  <2> QED
    BY <1>2, <2>3 DEF HashInv
<1>5. CASE Len(name) >= m
  <2> DEFINE v == Hash!VirtualName(name)
             depth == Hash!Depth(v)
             names == Hash!Below(v)
  <2>1. depth \in Nat /\ (v \in DOMAIN virtTable => depth = virtTable[v])
    BY DEF HashInv, DepthsReach, Hash!Depth
  <2>2. /\ v \in DOMAIN virtTableNames => names = virtTableNames[v]
        /\ \A n \in names : n \in HashName /\ Len(n) <= depth
    <3>1. CASE v \in DOMAIN virtTableNames
      <4>1. names = virtTableNames[v] /\ v \in DOMAIN virtTable
        BY <3>1 DEF Hash!Below, HashInv, DepthsReach
      <4> QED
        BY <2>1, <3>1, <4>1 DEF HashInv, DepthsReach
    <3>2. CASE v \notin DOMAIN virtTableNames
      BY <3>2 DEF Hash!Below
    <3> QED
      BY <3>1, <3>2
  <2>3. Hash!Deeper(name) = IF depth <= Len(name) THEN Len(name) ELSE depth
    BY <1>3, <2>1, OfTwo DEF Hash!Deeper
  <2> DEFINE deeper == Hash!Deeper(name)
  <2>4. deeper \in Nat /\ depth <= deeper /\ Len(name) <= deeper
    BY <1>3, <2>1, <2>3
  <2>5. /\ virtTable' = [z \in DOMAIN virtTable \cup {v} |-> IF z = v THEN deeper ELSE virtTable[z]]
        /\ virtTableNames' = [z \in DOMAIN virtTableNames \cup {v} |->
                                 IF z = v THEN names \cup {name} ELSE virtTableNames[z]]
    BY <1>5 DEF Hash!InsertEntry, Hash!Put
  <2> HIDE DEF depth, names, deeper
  <2>6. \A z \in DOMAIN virtTable' : virtTable'[z] \in Nat
    BY <2>4, <2>5 DEF HashInv, DepthsReach
  <2>7. ASSUME NEW z \in DOMAIN virtTableNames'
        PROVE  /\ z \in DOMAIN virtTable'
               /\ \A n \in virtTableNames'[z] : n \in HashName /\ Len(n) <= virtTable'[z]
    <3>1. CASE z = v
      <4>1. virtTable'[z] = deeper /\ virtTableNames'[z] = names \cup {name} /\ z \in DOMAIN virtTable'
        BY <2>5, <3>1
      <4>2. ASSUME NEW n \in names \cup {name} PROVE n \in HashName /\ Len(n) <= deeper
        <5>1. CASE n = name
          BY <2>4, <5>1
        <5>2. CASE n \in names
          <6>1. n \in HashName /\ Len(n) <= depth
            BY <2>2, <5>2
          <6> QED
            BY <1>3, <2>1, <2>4, <6>1
        <5> QED
          BY <5>1, <5>2
      <4> QED
        BY <4>1, <4>2
    <3>2. CASE z # v
      <4>1. /\ z \in DOMAIN virtTableNames /\ z \in DOMAIN virtTable
            /\ \A n \in virtTableNames[z] : n \in HashName /\ Len(n) <= virtTable[z]
        BY <2>5, <3>2 DEF HashInv, DepthsReach
      <4>2. /\ virtTableNames'[z] = virtTableNames[z] /\ virtTable'[z] = virtTable[z]
            /\ z \in DOMAIN virtTable'
        BY <2>5, <3>2, <4>1
      <4> QED
        BY <4>1, <4>2
    <3> QED
      BY <3>1, <3>2
  <2>8. ASSUME NEW n \in DOMAIN realTable', Len(n) >= m
        PROVE  /\ Hash!VirtualName(n) \in DOMAIN virtTableNames'
               /\ n \in virtTableNames'[Hash!VirtualName(n)]
    <3>1. CASE n = name
      BY <2>5, <3>1
    <3>2. CASE n # name
      <4>1. n \in DOMAIN realTable
        BY <1>1, <3>2
      <4>2. /\ Hash!VirtualName(n) \in DOMAIN virtTableNames
            /\ n \in virtTableNames[Hash!VirtualName(n)]
        BY <2>8, <4>1 DEF HashInv, DepthsReach
      <4> QED
        BY <2>2, <2>5, <4>2
    <3> QED
      BY <3>1, <3>2
  <2>9. DepthsReach'
    BY <2>6, <2>7, <2>8 DEF DepthsReach
  <2> QED
    BY <1>2, <2>9 DEF HashInv
<1> QED
  BY <1>4, <1>5

\* An operation that changes an entry and prunes: an entry is removed when
\* nothing is registered, and the virtual node keeps those that are left.
LEMMA PruneKeeps ==
    ASSUME HashInv, NEW name \in DOMAIN realTable, NEW entry,
           Hash!PruneTables(name, entry),
           NEW reg \in [hops : SUBSET Face, strategy : Strategy \cup {None}],
           entry = [nexthops |-> reg.hops, strategy |-> reg.strategy],
           name = <<>> => reg.strategy # None,
           registered' = [registered EXCEPT ![name] = reg],
           update' \in [name : HashName, todo : SUBSET Face]
    PROVE  HashInv'
<1> DEFINE v == Hash!VirtualName(name)
           left == Hash!Below(v) \ {name}
<1>1. m \in Nat \ {0} /\ \A n \in HashName : n \in Seq(Component) /\ Len(n) \in Nat
  BY HashNames
<1>2. name \in HashName
  BY DEF HashInv, EntriesRegistered
<1>3. CASE ~Hash!Unused(entry)
  <2>1. /\ realTable' = [n \in DOMAIN realTable \cup {name} |-> IF n = name THEN entry ELSE realTable[n]]
        /\ UNCHANGED <<virtTable, virtTableNames>>
    BY <1>3 DEF Hash!PruneTables, Hash!Put
  <2>2. EntriesRegistered'
    BY <1>2, <2>1 DEF HashInv, EntriesRegistered
  <2>3. DOMAIN realTable' = DOMAIN realTable
    BY <2>1
  <2>4. DepthsReach'
    BY <2>1, <2>3 DEF HashInv, DepthsReach
  <2> QED
    BY <2>2, <2>4 DEF HashInv
<1>4. CASE Hash!Unused(entry)
  <2>1. realTable' = [n \in DOMAIN realTable \ {name} |-> realTable[n]]
    BY <1>4 DEF Hash!PruneTables, Hash!Drop
  <2>2. reg = [hops |-> {}, strategy |-> None] /\ name # <<>>
    BY <1>4 DEF Hash!Unused
  <2>3. EntriesRegistered'
    BY <1>2, <2>1, <2>2 DEF HashInv, EntriesRegistered
  <2>4. ASSUME NEW n \in DOMAIN realTable', Len(n) >= m
        PROVE  /\ n \in DOMAIN realTable /\ n # name
               /\ Hash!VirtualName(n) \in DOMAIN virtTableNames
               /\ n \in virtTableNames[Hash!VirtualName(n)]
               /\ Hash!VirtualName(n) = v => n \in left
    BY <2>1, <2>4 DEF HashInv, DepthsReach, Hash!Below
  <2>5. CASE ~(Len(name) >= m /\ v \in DOMAIN virtTable)
    <3>1. UNCHANGED <<virtTable, virtTableNames>>
      BY <1>4, <2>5 DEF Hash!PruneTables
    <3>2. DepthsReach'
      BY <2>4, <3>1 DEF HashInv, DepthsReach
    <3> QED
      BY <2>3, <3>2 DEF HashInv
  <2>6. CASE Len(name) >= m /\ v \in DOMAIN virtTable
    <3>1. /\ virtTableNames' = IF left = {} THEN Hash!Drop(virtTableNames, v)
                               ELSE Hash!Put(virtTableNames, v, left)
          /\ virtTable' = IF Len(name) # virtTable[v] THEN virtTable
                          ELSE IF left = {} THEN Hash!Drop(virtTable, v)
                          ELSE Hash!Put(virtTable, v, Hash!Max({virtTable[v]} \cup {Len(n) : n \in left}))
      BY <1>4, <2>6 DEF Hash!PruneTables
    <3>2. virtTable[v] \in Nat /\ \A n \in left : n \in HashName /\ Len(n) <= virtTable[v]
      BY <2>6 DEF HashInv, DepthsReach, Hash!Below
    <3>3. Hash!Max({virtTable[v]} \cup {Len(n) : n \in left}) = virtTable[v]
      <4> HIDE DEF v, left
      <4> DEFINE lengths == {virtTable[v]} \cup {Len(n) : n \in left}
      <4>1. \A i \in lengths : i \in Nat /\ i <= virtTable[v]
        BY <1>1, <3>2
      <4>2. virtTable[v] \in lengths
        OBVIOUS
      <4> HIDE DEF lengths
      <4>3. \A i \in lengths : (\A j \in lengths : i >= j) => i = virtTable[v]
        BY <3>2, <4>1, <4>2
      <4>4. \A j \in lengths : virtTable[v] >= j
        BY <3>2, <4>1
      <4>5. Hash!Max(lengths) = virtTable[v]
        BY <4>2, <4>3, <4>4 DEF Hash!Max
      <4> QED
        BY <4>5 DEF lengths
    <3> HIDE DEF left, v
    <3>4. CASE left = {}
      <4>1. virtTableNames' = [z \in DOMAIN virtTableNames \ {v} |-> virtTableNames[z]]
        BY <3>1, <3>4 DEF Hash!Drop
      <4>2. virtTable' = virtTable \/ virtTable' = [z \in DOMAIN virtTable \ {v} |-> virtTable[z]]
        BY <3>1, <3>4 DEF Hash!Drop
      <4>3. \A n \in DOMAIN realTable' : Len(n) >= m => Hash!VirtualName(n) # v
        BY <2>4, <3>4
      <4>4. DepthsReach'
        BY <2>4, <4>1, <4>2, <4>3 DEF HashInv, DepthsReach
      <4> QED
        BY <2>3, <4>4 DEF HashInv
    <3>5. CASE left # {}
      <4>1. virtTableNames' = [z \in DOMAIN virtTableNames \cup {v} |-> IF z = v THEN left ELSE virtTableNames[z]]
        BY <3>1, <3>5 DEF Hash!Put
      <4>2. DOMAIN virtTable' = DOMAIN virtTable /\ \A z \in DOMAIN virtTable : virtTable'[z] = virtTable[z]
        BY <2>6, <3>1, <3>3, <3>5 DEF Hash!Put
      <4>3. \A z \in DOMAIN virtTableNames' :
                /\ z \in DOMAIN virtTable'
                /\ \A n \in virtTableNames'[z] : n \in HashName /\ Len(n) <= virtTable'[z]
        BY <2>6, <3>2, <4>1, <4>2 DEF HashInv, DepthsReach
      <4>4. \A n \in DOMAIN realTable' : Len(n) >= m =>
                /\ Hash!VirtualName(n) \in DOMAIN virtTableNames'
                /\ n \in virtTableNames'[Hash!VirtualName(n)]
        BY <2>4, <4>1
      <4>5. DepthsReach'
        BY <4>2, <4>3, <4>4 DEF HashInv, DepthsReach
      <4> QED
        BY <2>3, <4>5 DEF HashInv
    <3> QED
      BY <3>4, <3>5
  <2> QED
    BY <2>5, <2>6
<1> QED
  BY <1>3, <1>4

\* The entry of a name, there or not, is what is registered for it.
LEMMA EntryOf ==
    ASSUME HashInv, NEW name \in HashName
    PROVE  /\ Hash!Entry(name) = [nexthops |-> registered[name].hops, strategy |-> registered[name].strategy]
           /\ registered[name] \in [hops : SUBSET Face, strategy : Strategy \cup {None}]
           /\ name = <<>> => registered[name].strategy # None
<1>1. CASE name \in DOMAIN realTable
  BY <1>1 DEF HashInv, EntriesRegistered, Hash!Entry
<1>2. CASE name \notin DOMAIN realTable
  <2>1. registered[name] = [hops |-> {}, strategy |-> None] /\ name # <<>>
    BY <1>2 DEF HashInv, EntriesRegistered
  <2>2. Hash!Entry(name) = [nexthops |-> {}, strategy |-> None]
    BY <1>2 DEF Hash!Entry, Hash!NewEntry
  <2>3. registered[name] \in [hops : SUBSET Face, strategy : Strategy \cup {None}]
    BY <2>1
  <2> QED
    BY <2>1, <2>2, <2>3
<1> QED
  BY <1>1, <1>2

\* A next hop is inserted.
LEMMA InsertStep ==
    ASSUME HashInv, NEW name \in HashName, NEW f \in Face, Hash!Insert(name, f),
           update' \in [name : HashName, todo : SUBSET Face]
    PROVE  HashInv'
<1>1. PICK old : old = registered[name]
  OBVIOUS
<1>2. PICK reg : reg = [old EXCEPT !.hops = @ \cup {f}]
  OBVIOUS
<1>3. PICK entry : entry = [Hash!Entry(name) EXCEPT !.nexthops = @ \cup {f}]
  OBVIOUS
<1>4. /\ old \in [hops : SUBSET Face, strategy : Strategy \cup {None}]
      /\ name = <<>> => old.strategy # None
      /\ Hash!Entry(name) = [nexthops |-> old.hops, strategy |-> old.strategy]
  BY <1>1, EntryOf
<1>5. /\ reg \in [hops : SUBSET Face, strategy : Strategy \cup {None}]
      /\ reg.hops = old.hops \cup {f} /\ reg.strategy = old.strategy
  BY <1>2, <1>4
<1>6. entry = [nexthops |-> reg.hops, strategy |-> reg.strategy]
  <2>1. [[nexthops |-> old.hops, strategy |-> old.strategy] EXCEPT !.nexthops = @ \cup {f}]
            = [nexthops |-> old.hops \cup {f}, strategy |-> old.strategy]
    OBVIOUS
  <2> QED
    BY <1>3, <1>4, <1>5, <2>1
<1>7. Hash!InsertEntry(name, entry) /\ registered' = [registered EXCEPT ![name] = reg]
  BY <1>1, <1>2, <1>3 DEF Hash!Insert
<1> QED
  BY <1>4, <1>5, <1>6, <1>7, InsertKeeps

\* A strategy is set.
LEMMA SetStrategyStep ==
    ASSUME HashInv, NEW name \in HashName, NEW s \in Strategy, Hash!SetStrategy(name, s)
    PROVE  HashInv'
<1>1. PICK old : old = registered[name]
  OBVIOUS
<1>2. PICK reg : reg = [old EXCEPT !.strategy = s]
  OBVIOUS
<1>3. PICK entry : entry = [Hash!Entry(name) EXCEPT !.strategy = s]
  OBVIOUS
<1>4. /\ old \in [hops : SUBSET Face, strategy : Strategy \cup {None}]
      /\ Hash!Entry(name) = [nexthops |-> old.hops, strategy |-> old.strategy]
  BY <1>1, EntryOf
<1>5. /\ reg \in [hops : SUBSET Face, strategy : Strategy \cup {None}]
      /\ reg.hops = old.hops /\ reg.strategy = s
  BY <1>2, <1>4
<1>6. entry = [nexthops |-> reg.hops, strategy |-> reg.strategy]
  BY <1>3, <1>4, <1>5
<1>7. /\ Hash!InsertEntry(name, entry) /\ registered' = [registered EXCEPT ![name] = reg]
      /\ update' \in [name : HashName, todo : SUBSET Face]
  BY <1>1, <1>2, <1>3 DEF Hash!SetStrategy, HashInv, EntriesRegistered
<1>8. reg.strategy # None
  BY <1>5, HashNames
<1> QED
  BY <1>5, <1>6, <1>7, <1>8, InsertKeeps

\* A next hop, all of them or a strategy is taken back.
LEMMA TakeBackStep ==
    ASSUME HashInv, NEW name \in DOMAIN realTable, NEW reg, NEW entry,
           \/ \E gone \in SUBSET Face :
                 /\ reg = [registered[name] EXCEPT !.hops = @ \ gone]
                 /\ entry = [realTable[name] EXCEPT !.nexthops = @ \ gone]
           \/ /\ name # <<>>
              /\ reg = [registered[name] EXCEPT !.strategy = None]
              /\ entry = [realTable[name] EXCEPT !.strategy = None],
           Hash!PruneTables(name, entry),
           registered' = [registered EXCEPT ![name] = reg],
           update' \in [name : HashName, todo : SUBSET Face]
    PROVE  HashInv'
<1>1. PICK old : old = registered[name]
  OBVIOUS
<1>2. /\ old \in [hops : SUBSET Face, strategy : Strategy \cup {None}]
      /\ realTable[name] = [nexthops |-> old.hops, strategy |-> old.strategy]
      /\ name = <<>> => old.strategy # None
  BY <1>1 DEF HashInv, EntriesRegistered
<1>3. CASE \E gone \in SUBSET Face :
              /\ reg = [registered[name] EXCEPT !.hops = @ \ gone]
              /\ entry = [realTable[name] EXCEPT !.nexthops = @ \ gone]
  <2>1. PICK gone \in SUBSET Face :
              /\ reg = [old EXCEPT !.hops = @ \ gone]
              /\ entry = [realTable[name] EXCEPT !.nexthops = @ \ gone]
    BY <1>1, <1>3
  <2>2. /\ reg \in [hops : SUBSET Face, strategy : Strategy \cup {None}]
        /\ reg.hops = old.hops \ gone /\ reg.strategy = old.strategy
    BY <1>2, <2>1
  <2>3. entry = [nexthops |-> reg.hops, strategy |-> reg.strategy]
    <3>1. realTable[name].nexthops = old.hops
      BY <1>2
    <3>2. entry = [realTable[name] EXCEPT !.nexthops = old.hops \ gone]
      BY <2>1, <3>1
    <3>3. \A left : [[nexthops |-> old.hops, strategy |-> old.strategy] EXCEPT !.nexthops = left]
                       = [nexthops |-> left, strategy |-> old.strategy]
      OBVIOUS
    <3> QED
      BY <1>2, <2>2, <3>2, <3>3
  <2> QED
    BY <1>2, <2>2, <2>3, PruneKeeps
<1>4. CASE /\ name # <<>>
           /\ reg = [registered[name] EXCEPT !.strategy = None]
           /\ entry = [realTable[name] EXCEPT !.strategy = None]
  <2>1. /\ reg \in [hops : SUBSET Face, strategy : Strategy \cup {None}]
        /\ reg.hops = old.hops /\ reg.strategy = None
    BY <1>1, <1>2, <1>4
  <2>2. entry = [nexthops |-> reg.hops, strategy |-> reg.strategy]
    BY <1>2, <1>4, <2>1
  <2> QED
    BY <1>4, <2>1, <2>2, PruneKeeps
<1> QED
  BY <1>3, <1>4

\* The RIB clears the next hops of a name before it inserts the new ones.
LEMMA ClearStep ==
    ASSUME HashInv, NEW name \in HashName, NEW hops \in SUBSET Face, Hash!ClearNextHops(name, hops)
    PROVE  HashInv'
<1>1. update' \in [name : HashName, todo : SUBSET Face]
  BY HashNames DEF Hash!ClearNextHops, Hash!NoUpdate
<1>2. PICK reg : reg = [registered[name] EXCEPT !.hops = {}]
  OBVIOUS
<1>3. registered' = [registered EXCEPT ![name] = reg]
  BY <1>2 DEF Hash!ClearNextHops
<1>4. registered[name] \in [hops : SUBSET Face, strategy : Strategy \cup {None}]
  BY DEF HashInv, EntriesRegistered
<1>5. CASE name \in DOMAIN realTable
  <2>1. PICK entry : entry = [realTable[name] EXCEPT !.nexthops = {}]
    OBVIOUS
  <2>2. Hash!PruneTables(name, entry)
    BY <1>5, <2>1 DEF Hash!ClearNextHops
  <2>3. realTable[name] = [nexthops |-> registered[name].hops, strategy |-> registered[name].strategy]
    BY <1>5 DEF HashInv, EntriesRegistered
  <2>4. reg = [registered[name] EXCEPT !.hops = @ \ Face]
    BY <1>2, <1>4
  <2>5. entry = [realTable[name] EXCEPT !.nexthops = @ \ Face]
    BY <1>4, <2>1, <2>3
  <2>6. \E gone \in SUBSET Face : /\ reg = [registered[name] EXCEPT !.hops = @ \ gone]
                                  /\ entry = [realTable[name] EXCEPT !.nexthops = @ \ gone]
    BY <2>4, <2>5
  <2> QED
    BY <1>1, <1>3, <1>5, <2>2, <2>6, TakeBackStep
<1>6. CASE name \notin DOMAIN realTable
  <2>1. UNCHANGED <<realTable, virtTable, virtTableNames>>
    BY <1>6 DEF Hash!ClearNextHops
  <2>2. registered[name] = [hops |-> {}, strategy |-> None]
    BY <1>6 DEF HashInv, EntriesRegistered
  <2>3. registered' = registered
    BY <1>2, <1>3, <2>2 DEF HashInv, EntriesRegistered
  <2> QED
    BY <1>1, <2>1, <2>3 DEF HashInv, EntriesRegistered, DepthsReach
<1> QED
  BY <1>5, <1>6

\* Every operation keeps the table in line with what is registered.
LEMMA HashStep == HashInv /\ [Hash!Next]_Hash!vars => HashInv'
<1> SUFFICES ASSUME HashInv, [Hash!Next]_Hash!vars PROVE HashInv'
  OBVIOUS
<1>0. /\ DOMAIN realTable \subseteq HashName
      /\ update \in [name : HashName, todo : SUBSET Face]
      /\ registered \in [HashName -> [hops : SUBSET Face, strategy : Strategy \cup {None}]]
  BY DEF HashInv, EntriesRegistered
<1>1. ASSUME NEW name \in HashName, NEW f \in Face, Hash!InsertNextHop(name, f) PROVE HashInv'
  BY <1>0, <1>1, InsertStep DEF Hash!InsertNextHop
<1>2. ASSUME NEW name \in HashName, NEW f \in Face, Hash!RemoveNextHop(name, f) PROVE HashInv'
  <2>1. PICK reg : reg = [registered[name] EXCEPT !.hops = @ \ {f}]
    OBVIOUS
  <2>2. PICK entry : entry = [realTable[name] EXCEPT !.nexthops = @ \ {f}]
    OBVIOUS
  <2>3. /\ name \in DOMAIN realTable /\ Hash!PruneTables(name, entry) /\ update' = update
        /\ registered' = [registered EXCEPT ![name] = reg]
    BY <1>2, <2>1, <2>2 DEF Hash!RemoveNextHop
  <2>4. \E gone \in SUBSET Face : /\ reg = [registered[name] EXCEPT !.hops = @ \ gone]
                                  /\ entry = [realTable[name] EXCEPT !.nexthops = @ \ gone]
    <3>1. {f} \in SUBSET Face
      OBVIOUS
    <3> QED
      BY <2>1, <2>2, <3>1
  <2> QED
    BY <1>0, <2>3, <2>4, TakeBackStep
<1>3. ASSUME NEW name \in HashName, NEW s \in Strategy, Hash!SetStrategy(name, s) PROVE HashInv'
  BY <1>3, SetStrategyStep
<1>4. ASSUME NEW name \in HashName, Hash!UnSetStrategy(name) PROVE HashInv'
  <2>1. PICK reg : reg = [registered[name] EXCEPT !.strategy = None]
    OBVIOUS
  <2>2. PICK entry : entry = [realTable[name] EXCEPT !.strategy = None]
    OBVIOUS
  <2>3. /\ name # <<>> /\ name \in DOMAIN realTable /\ Hash!PruneTables(name, entry) /\ update' = update
        /\ registered' = [registered EXCEPT ![name] = reg]
    BY <1>4, <2>1, <2>2 DEF Hash!UnSetStrategy
  <2> QED
    BY <1>0, <2>1, <2>2, <2>3, TakeBackStep
<1>5. ASSUME NEW name \in HashName, NEW hops \in SUBSET Face, Hash!ClearNextHops(name, hops)
      PROVE  HashInv'
  BY <1>5, ClearStep
<1>6. ASSUME NEW f \in Face, Hash!UpdateNextHop(f) PROVE HashInv'
  <2>1. PICK name : name = update.name
    OBVIOUS
  <2>2. name \in HashName /\ Hash!Insert(name, f)
    BY <1>0, <1>6, <2>1 DEF Hash!UpdateNextHop
  <2>3. update' \in [name : HashName, todo : SUBSET Face]
    BY <1>0, <1>6, HashNames DEF Hash!UpdateNextHop, Hash!NoUpdate
  <2> QED
    BY <2>2, <2>3, InsertStep
<1>7. CASE UNCHANGED Hash!vars
  BY <1>7 DEF Hash!vars, HashInv, EntriesRegistered, DepthsReach
<1> QED
  BY <1>1, <1>2, <1>3, <1>4, <1>5, <1>6, <1>7 DEF Hash!Next

\* The new table has the default strategy at the root, and nothing else.
LEMMA HashInit == Hash!Init => HashInv
<1> SUFFICES ASSUME Hash!Init PROVE HashInv
  OBVIOUS
<1>1. /\ realTable = [n \in {<<>>} |-> [nexthops |-> {}, strategy |-> Default]]
      /\ virtTable = <<>> /\ virtTableNames = <<>>
      /\ update = [name |-> <<>>, todo |-> {}]
      /\ registered = [n \in HashName |-> [hops |-> {}, strategy |-> IF n = <<>> THEN Default ELSE None]]
  BY DEF Hash!Init, Hash!NoUpdate
<1>2. m \in Nat \ {0} /\ <<>> \in HashName /\ Len(<<>>) = 0 /\ Default \in Strategy /\ None \notin Strategy
  BY HashNames
<1>3. EntriesRegistered
  <2>1. registered \in [HashName -> [hops : SUBSET Face, strategy : Strategy \cup {None}]]
    BY <1>1, <1>2
  <2>2. registered[<<>>] = [hops |-> {}, strategy |-> Default]
    BY <1>1, <1>2
  <2>3. \A n \in HashName \ {<<>>} : registered[n] = [hops |-> {}, strategy |-> None]
    BY <1>1
  <2>4. DOMAIN realTable = {<<>>} /\ realTable[<<>>] = [nexthops |-> {}, strategy |-> Default]
    BY <1>1
  <2>5. update \in [name : HashName, todo : SUBSET Face]
    BY <1>1, <1>2
  <2>6. registered[<<>>].hops = {} /\ registered[<<>>].strategy = Default
    BY <2>2
  <2> QED
    BY <1>2, <2>1, <2>3, <2>4, <2>5, <2>6 DEF EntriesRegistered
<1>4. DepthsReach
  <2>1. DOMAIN virtTable = {} /\ DOMAIN virtTableNames = {}
    BY <1>1
  <2>2. \A n \in DOMAIN realTable : ~(Len(n) >= m)
    BY <1>1, <1>2
  <2> QED
    BY <2>1, <2>2 DEF DepthsReach
<1> QED
  BY <1>3, <1>4 DEF HashInv

\* Whatever was inserted, updated, removed and pruned, the hash table finds
\* the next hops and the strategy registered at the longest prefix
\* (findLongestPrefixMatch, FindNextHopsEnc, FindStrategyEnc), for any m and
\* any set of names.
THEOREM HashFindsLongest == PartsSpec => []FindsLongest
<1> DEFINE TableInv == part = "hash" => HashInv
<1>1. PartsInit => TableInv
  BY HashInit DEF PartsInit
<1>2. TableInv /\ [PartsNext]_<<part, vars, hashVars, codecVars, linkVars>> => TableInv'
  <2> SUFFICES ASSUME TableInv, [PartsNext]_<<part, vars, hashVars, codecVars, linkVars>>,
                      part' = "hash"
               PROVE  HashInv'
    OBVIOUS
  <2>1. part = "hash" /\ [Hash!Next]_Hash!vars
    BY DEF PartsNext, hashVars, Hash!vars
  <2> QED
    BY <2>1, HashStep
<1>3. TableInv => FindsLongest
  BY FindsTheLongest DEF FindsLongest
<1> HIDE DEF TableInv
<1> QED
  BY <1>1, <1>2, <1>3, PTL DEF PartsSpec
=============================================================================
