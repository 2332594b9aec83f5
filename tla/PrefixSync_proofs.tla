------------------------- MODULE PrefixSync_proofs --------------------------
(***************************************************************************)
(* Proofs about State Vector Sync (Svs), for any number of instances and   *)
(* of boot times, and about the copy of a router's prefixes (PrefixSync),  *)
(* for any number of prefixes, publications and boots, as MCPrefixSync     *)
(* puts the two side by side.                                              *)
(*                                                                         *)
(* PassiveCanTell is inductive once it is said of an instance that is not  *)
(* running too, and once every vector, wherever it is kept, has numbers:   *)
(* an entry of a vector is newer than what is known, older, or the same.   *)
(*                                                                         *)
(* CopyLacksNothing is inductive together with what the publisher and the  *)
(* subscriber know: what was published is what the router has, a snapshot  *)
(* holds no less than the publications it covers, older boots are blocked, *)
(* and nothing is fetched or known that was not published.  What a run of  *)
(* publications leaves is a recursive function: that the functions of all  *)
(* lengths agree is proved by induction over sets of numbers.              *)
(***************************************************************************)
EXTENDS MCPrefixSync, FiniteSetTheorems, TLAPS

Vector(sv) == \A e \in DOMAIN sv : sv[e] \in Nat

\* The vectors that an instance keeps, has stored and has yet to handle.
VectorsTyped ==
    /\ \A v \in {state, wires, stored, inbox} : DOMAIN v = Node
    /\ \A n \in Node :
          /\ Vector(state[n])
          /\ \A e \in DOMAIN wires[n] : Vector(wires[n][e])
          /\ \A sv \in stored[n] \cup inbox[n] : Vector(sv)

CanTell(n) ==
    \A e \in DOMAIN state[n] :
        e \in DOMAIN wires[n] /\ Sync!Get(wires[n][e], e) = state[n][e]

TellInv ==
    /\ passive \subseteq Node
    /\ VectorsTyped
    /\ \A n \in passive : CanTell(n)

\* A vector is handled.
LEMMA ReceiveKeeps ==
    ASSUME TellInv, NEW n \in Node, NEW sv \in inbox[n], Sync!onReceiveStateVector(n, sv)
    PROVE  TellInv'
<1> DEFINE newer == Sync!Newer(n, sv)
           kept == Sync!Buffered(n, sv)
           newState == Sync!Over(Sync!Restrict(sv, newer), state[n])
           newWires == Sync!Over([e \in kept |-> sv], wires[n])
<1>1. /\ state' = [state EXCEPT ![n] = newState]
      /\ wires' = [wires EXCEPT ![n] = newWires]
      /\ inbox' = [inbox EXCEPT ![n] = @ \ {sv}]
      /\ UNCHANGED <<passive, stored>>
  BY DEF Sync!onReceiveStateVector
<1>2. /\ DOMAIN state = Node /\ DOMAIN wires = Node /\ DOMAIN inbox = Node /\ DOMAIN stored = Node
      /\ Vector(sv) /\ Vector(state[n])
      /\ passive \subseteq Node
  BY DEF TellInv, VectorsTyped
<1>3. /\ newer \subseteq DOMAIN sv
      /\ DOMAIN newState = newer \cup DOMAIN state[n]
      /\ \A e \in newer : newState[e] = sv[e]
      /\ \A e \in DOMAIN state[n] \ newer : newState[e] = state[n][e]
  <2>1. newer \subseteq DOMAIN sv
    BY DEF Sync!Newer, Sync!Taken
  <2> HIDE DEF newer
  <2>2. DOMAIN Sync!Restrict(sv, newer) = newer /\ \A e \in newer : Sync!Restrict(sv, newer)[e] = sv[e]
    BY <2>1 DEF Sync!Restrict
  <2> QED
    BY <2>1, <2>2 DEF Sync!Over
<1>4. /\ DOMAIN newWires = kept \cup DOMAIN wires[n]
      /\ \A e \in kept : newWires[e] = sv
      /\ \A e \in DOMAIN wires[n] \ kept : newWires[e] = wires[n][e]
  <2>1. DOMAIN [e \in kept |-> sv] = kept /\ \A e \in kept : [i \in kept |-> sv][e] = sv
    OBVIOUS
  <2> QED
    BY <2>1 DEF Sync!Over
<1>5. Vector(newState)
  BY <1>2, <1>3 DEF Vector
<1>6. \A e \in DOMAIN newWires : Vector(newWires[e])
  BY <1>2, <1>4 DEF TellInv, VectorsTyped
<1>7. ASSUME n \in passive, NEW e \in DOMAIN newState
      PROVE  e \in DOMAIN newWires /\ Sync!Get(newWires[e], e) = newState[e]
  <2>1. kept = Sync!Taken(sv) \ Sync!Older(n, sv)
    BY <1>7 DEF Sync!Buffered
  <2>2. Sync!Taken(sv) \subseteq DOMAIN sv
    BY DEF Sync!Taken
  <2>3. \A i \in Sync!Taken(sv) : sv[i] \in Nat /\ Sync!Get(state[n], i) \in Nat
    BY <1>2, <2>2 DEF Vector, Sync!Get
  <2>4. CASE e \in newer
    <3>1. e \in kept /\ newState[e] = sv[e] /\ e \in DOMAIN sv
      BY <1>3, <2>1, <2>3, <2>4 DEF Sync!Newer, Sync!Older
    <3> QED
      BY <1>4, <3>1 DEF Sync!Get
  <2>5. CASE e \notin newer
    <3>1. e \in DOMAIN state[n] /\ newState[e] = state[n][e]
      BY <1>3, <1>7, <2>5
    <3>2. e \in DOMAIN wires[n] /\ Sync!Get(wires[n][e], e) = state[n][e]
      BY <1>7, <3>1 DEF TellInv, CanTell
    <3>3. CASE e \in kept
      <4>1. e \in Sync!Taken(sv) /\ ~(sv[e] > state[n][e]) /\ ~(sv[e] < state[n][e])
        BY <2>1, <2>5, <3>1, <3>3 DEF Sync!Newer, Sync!Older, Sync!Get
      <4>2. sv[e] = state[n][e] /\ e \in DOMAIN sv
        BY <2>2, <2>3, <3>1, <4>1 DEF Sync!Get
      <4> QED
        BY <1>4, <3>1, <3>3, <4>2 DEF Sync!Get
    <3>4. CASE e \notin kept
      BY <1>4, <3>1, <3>2, <3>4
    <3> QED
      BY <3>3, <3>4
  <2> QED
    BY <2>4, <2>5
<1> HIDE DEF newState, newWires
<1>8. VectorsTyped'
  BY <1>1, <1>2, <1>5, <1>6 DEF TellInv, VectorsTyped
<1>9. ASSUME NEW r \in passive' PROVE CanTell(r)'
  BY <1>1, <1>2, <1>7, <1>9 DEF TellInv, CanTell
<1> QED
  BY <1>1, <1>2, <1>8, <1>9 DEF TellInv

\* The other steps leave what an instance knows, make it forget everything, or
\* are publications of one that is not passive.
LEMMA OthersKeep ==
    ASSUME TellInv, NEW n \in Node,
           \/ Sync!Start(n)
           \/ \E crash \in BOOLEAN, b \in boots[n]..MaxBoots : Sync!Stop(n, crash, b)
           \/ \E seq \in 1..MaxNumber : Sync!SetSeqNo(n, seq)
           \/ \E to \in SUBSET Sync!Reached(n) : Sync!sendSyncInterest(n, to)
           \/ Sync!timerExpired(n) \/ Sync!FaceUp(n) \/ Sync!PeriodEnds(n)
           \/ Sync!persistPassiveWires(n)
    PROVE  TellInv'
<1>0. /\ DOMAIN state = Node /\ DOMAIN wires = Node /\ DOMAIN inbox = Node /\ DOMAIN stored = Node
      /\ passive \subseteq Node
      /\ Vector(Sync!Nothing) /\ DOMAIN Sync!Nothing = {}
  BY DEF TellInv, VectorsTyped, Vector, Sync!Nothing
<1>1. CASE Sync!Start(n)
  BY <1>0, <1>1 DEF Sync!Start, TellInv, VectorsTyped, CanTell
<1>2. ASSUME NEW crash \in BOOLEAN, NEW b \in boots[n]..MaxBoots, Sync!Stop(n, crash, b)
      PROVE  TellInv'
  <2>1. /\ state' = [state EXCEPT ![n] = state'[n]]
        /\ state'[n] = Sync!Nothing \/ (state'[n] = state[n] /\ n \notin passive)
        /\ wires' = [wires EXCEPT ![n] = Sync!Nothing]
        /\ inbox' = [inbox EXCEPT ![n] = {}]
        /\ UNCHANGED passive
    BY <1>0, <1>2 DEF Sync!Stop
  <2>2. /\ DOMAIN stored' = Node /\ \A r \in Node \ {n} : stored'[r] = stored[r]
        /\ stored'[n] = stored[n] \/ stored'[n] = Sync!Range(wires[n])
    BY <1>0, <1>2 DEF Sync!Stop
  <2>3. \A sv \in Sync!Range(wires[n]) : Vector(sv)
    BY DEF Sync!Range, TellInv, VectorsTyped
  <2>4. VectorsTyped'
    <3>1. Vector(state'[n]) /\ wires'[n] = Sync!Nothing /\ inbox'[n] = {}
      BY <1>0, <2>1 DEF TellInv, VectorsTyped
    <3>2. \A sv \in stored'[n] : Vector(sv)
      BY <2>2, <2>3 DEF TellInv, VectorsTyped
    <3>3. ASSUME NEW r \in Node \ {n}
          PROVE  /\ state'[r] = state[r] /\ wires'[r] = wires[r]
                 /\ stored'[r] = stored[r] /\ inbox'[r] = inbox[r]
      BY <1>0, <2>1, <2>2
    <3>4. DOMAIN state' = Node /\ DOMAIN wires' = Node /\ DOMAIN inbox' = Node /\ DOMAIN stored' = Node
      BY <1>0, <2>1, <2>2
    <3> QED
      BY <1>0, <3>1, <3>2, <3>3, <3>4 DEF TellInv, VectorsTyped
  <2>5. ASSUME NEW r \in passive' PROVE CanTell(r)'
    BY <1>0, <2>1, <2>5 DEF TellInv, CanTell
  <2> QED
    BY <1>0, <2>1, <2>4, <2>5 DEF TellInv
<1>3. ASSUME NEW seq \in 1..MaxNumber, Sync!SetSeqNo(n, seq) PROVE TellInv'
  <2> DEFINE new == [e \in {<<n, boots[n]>>} |-> seq]
  <2>1. /\ state' = [state EXCEPT ![n] = Sync!Over(new, state[n])]
        /\ n \notin passive /\ UNCHANGED <<passive, wires, stored, inbox>>
    BY <1>3 DEF Sync!SetSeqNo
  <2>2. Vector(new) /\ Vector(state[n])
    BY DEF Vector, TellInv, VectorsTyped
  <2> HIDE DEF new
  <2>3. Vector(Sync!Over(new, state[n]))
    BY <2>2 DEF Vector, Sync!Over
  <2>4. VectorsTyped'
    BY <1>0, <2>1, <2>3 DEF TellInv, VectorsTyped
  <2>5. ASSUME NEW r \in passive' PROVE CanTell(r)'
    BY <1>0, <2>1, <2>5 DEF TellInv, CanTell
  <2> QED
    BY <1>0, <2>1, <2>4, <2>5 DEF TellInv
<1>4. ASSUME NEW to \in SUBSET Sync!Reached(n), Sync!sendSyncInterest(n, to) PROVE TellInv'
  <2>1. /\ UNCHANGED <<passive, state, wires, stored>>
        /\ DOMAIN inbox' = Node
        /\ \A r \in Node : inbox'[r] \subseteq inbox[r] \cup Sync!SyncData(n)
    BY <1>4 DEF Sync!sendSyncInterest
  <2>2. \A sv \in Sync!SyncData(n) : Vector(sv)
    BY DEF Sync!SyncData, Sync!Range, TellInv, VectorsTyped
  <2>3. VectorsTyped'
    BY <1>0, <2>1, <2>2 DEF TellInv, VectorsTyped
  <2> QED
    BY <1>0, <2>1, <2>3 DEF TellInv, CanTell
<1>5. CASE Sync!timerExpired(n) \/ Sync!FaceUp(n) \/ Sync!PeriodEnds(n)
  <2>1. UNCHANGED <<passive, state, wires, stored, inbox>>
    BY <1>5 DEF Sync!timerExpired, Sync!FaceUp, Sync!PeriodEnds
  <2> QED
    BY <2>1 DEF TellInv, VectorsTyped, CanTell
<1>6. CASE Sync!persistPassiveWires(n)
  <2>1. /\ UNCHANGED <<passive, state, wires, inbox>>
        /\ DOMAIN stored' = Node /\ \A r \in Node \ {n} : stored'[r] = stored[r]
        /\ stored'[n] = stored[n] \/ stored'[n] = Sync!Range(wires[n])
    BY <1>0, <1>6 DEF Sync!persistPassiveWires
  <2>2. \A sv \in Sync!Range(wires[n]) : Vector(sv)
    BY DEF Sync!Range, TellInv, VectorsTyped
  <2>3. VectorsTyped'
    BY <1>0, <2>1, <2>2 DEF TellInv, VectorsTyped
  <2> QED
    BY <1>0, <2>1, <2>3 DEF TellInv, CanTell
<1> QED
  BY <1>1, <1>2, <1>3, <1>4, <1>5, <1>6

\* Whatever a passive instance knows, it has a signed vector of, whatever it
\* received in which order, from whom, and loaded after which crash
\* (onReceiveStateVector, onRecvSvPassive, persistPassiveWires).
THEOREM PassiveTells == SyncSpec => []PassiveCanTell
<1> DEFINE allVars == <<layer, vars, svsVars>>
<1>1. SyncInit => TellInv
  <2> SUFFICES ASSUME SyncInit PROVE TellInv
    OBVIOUS
  <2>1. /\ state = [n \in Node |-> Sync!Nothing] /\ wires = [n \in Node |-> Sync!Nothing]
        /\ stored = [n \in Node |-> {}] /\ inbox = [n \in Node |-> {}]
        /\ passive \in SUBSET MayBePassive
    BY DEF SyncInit, Sync!Init
  <2>2. MayBePassive \subseteq Node
    BY SvsAssumed DEF Sync!SvsAssumption
  <2>3. DOMAIN Sync!Nothing = {}
    BY DEF Sync!Nothing
  <2> QED
    BY <2>1, <2>2, <2>3 DEF TellInv, VectorsTyped, CanTell, Vector
<1>2. TellInv /\ [SyncNext]_allVars => TellInv'
  <2> SUFFICES ASSUME TellInv, [SyncNext]_allVars PROVE TellInv'
    OBVIOUS
  <2>1. CASE Sync!Next
    BY <2>1, ReceiveKeeps, OthersKeep DEF Sync!Next
  <2>2. CASE UNCHANGED svsVars
    BY <2>2 DEF svsVars, TellInv, VectorsTyped, CanTell
  <2> QED
    BY <2>1, <2>2 DEF SyncNext
<1>3. TellInv => PassiveCanTell
  BY DEF TellInv, CanTell, PassiveCanTell, Sync!PassiveCanTell
<1> QED
  BY <1>1, <1>2, <1>3, PTL DEF SyncSpec

-----------------------------------------------------------------------------
(***************************************************************************)
(* What a run of publications leaves (Applied), by induction over sets of  *)
(* numbers                                                                 *)
(***************************************************************************)
\* A set of naturals has a least element.
LEMMA LeastNatural ==
    ASSUME NEW T \in SUBSET Nat, T # {}
    PROVE  \E x \in T : \A y \in T : x <= y
<1> DEFINE less == OpToRel(<, Nat)
<1>1. IsWellFoundedOn(less, Nat)
  BY NatLessThanWellFounded
<1>2. \A i, j \in Nat : i < j => <<i, j>> \in less
  BY DEF OpToRel
<1> HIDE DEF less
<1>3. PICK x \in T : \A y \in T : ~(<<y, x>> \in less)
  BY <1>1, WFMin
<1>4. ASSUME NEW y \in T PROVE x <= y
  <2>1. x \in Nat /\ y \in Nat /\ ~(y < x)
    BY <1>2, <1>3
  <2> QED
    BY <2>1
<1> QED
  BY <1>4

\* Induction, for a set of numbers.
LEMMA AllNaturals ==
    ASSUME NEW T \in SUBSET Nat, 0 \in T, \A n \in T : n + 1 \in T
    PROVE  T = Nat
<1> SUFFICES ASSUME Nat \ T # {} PROVE FALSE
  OBVIOUS
<1>1. PICK k \in Nat \ T : \A n \in Nat \ T : k <= n
  <2>1. Nat \ T \in SUBSET Nat
    OBVIOUS
  <2> QED
    BY <2>1, LeastNatural, Zenon
<1>2. k - 1 \in Nat /\ k - 1 \in T /\ (k - 1) + 1 = k
  BY <1>1
<1> QED
  BY <1>1, <1>2

\* A run that is right up to k: Applied computes one.
RunsTo(g, k, from, pubs, low) ==
    \A n \in 0..k : g[n] = IF n <= low THEN from ELSE ApplyOps(g[n - 1], pubs[n])

\* The run that Applied chooses.
IsRun(g, from, pubs, low) ==
    /\ \A k \in Nat : RunsTo(g, k, from, pubs, low)
    /\ \A high : Applied(from, pubs, low, high) = g[high]

\* Such a run exists, up to any number.
LEMMA RunExists ==
    ASSUME NEW from, NEW pubs, NEW low \in Nat, NEW k \in Nat
    PROVE  \E g : RunsTo(g, k, from, pubs, low)
<1> DEFINE T == {n \in Nat : \E g : RunsTo(g, n, from, pubs, low)}
<1>1. 0 \in T
  <2>1. RunsTo([n \in {0} |-> from], 0, from, pubs, low)
    BY DEF RunsTo
  <2> QED
    BY <2>1
<1>2. ASSUME NEW n \in T PROVE n + 1 \in T
  <2>1. PICK g : RunsTo(g, n, from, pubs, low)
    OBVIOUS
  <2>2. PICK h : h = [i \in 0..(n + 1) |->
                        IF i <= n THEN g[i]
                        ELSE IF i <= low THEN from ELSE ApplyOps(g[n], pubs[i])]
    OBVIOUS
  <2>3. ASSUME NEW i \in 0..(n + 1)
        PROVE  h[i] = IF i <= low THEN from ELSE ApplyOps(h[i - 1], pubs[i])
    <3>1. CASE i <= n /\ i <= low
      BY <2>1, <2>2, <3>1 DEF RunsTo
    <3>2. CASE i <= n /\ ~(i <= low)
      <4>1. i - 1 \in 0..(n + 1) /\ i - 1 <= n /\ i \in 0..n
        BY <3>2
      <4>2. h[i - 1] = g[i - 1] /\ h[i] = g[i]
        BY <2>2, <3>2, <4>1
      <4> QED
        BY <2>1, <3>2, <4>1, <4>2 DEF RunsTo
    <3>3. CASE ~(i <= n)
      <4>1. i = n + 1 /\ n \in 0..(n + 1) /\ i - 1 = n /\ n <= n
        BY <3>3
      <4>2. h[n] = g[n]
        BY <2>2, <4>1
      <4> QED
        BY <2>2, <3>3, <4>1, <4>2
    <3> QED
      BY <3>1, <3>2, <3>3
  <2>4. RunsTo(h, n + 1, from, pubs, low)
    BY <2>3 DEF RunsTo
  <2> QED
    BY <2>4
<1>3. T = Nat
  <2> HIDE DEF T
  <2>1. T \in SUBSET Nat
    BY DEF T
  <2> QED
    BY <1>1, <1>2, <2>1, AllNaturals
<1> QED
  BY <1>3

\* Two runs over the same publications are the same.
LEMMA RunsSame ==
    ASSUME NEW from, NEW pubs, NEW other, NEW low \in Nat, NEW top \in Nat, NEW g, NEW h,
           RunsTo(g, top, from, pubs, low), RunsTo(h, top, from, other, low),
           \A n \in (low + 1)..top : pubs[n] = other[n]
    PROVE  \A n \in 0..top : g[n] = h[n]
<1> DEFINE T == {n \in Nat : n <= top => g[n] = h[n]}
<1>1. 0 \in T
  BY DEF RunsTo
<1>2. ASSUME NEW n \in T PROVE n + 1 \in T
  <2> SUFFICES ASSUME n + 1 <= top PROVE g[n + 1] = h[n + 1]
    OBVIOUS
  <2>1. g[n] = h[n] /\ (n + 1) - 1 = n /\ n + 1 \in 0..top
    OBVIOUS
  <2>2. /\ g[n + 1] = IF n + 1 <= low THEN from ELSE ApplyOps(g[n], pubs[n + 1])
        /\ h[n + 1] = IF n + 1 <= low THEN from ELSE ApplyOps(h[n], other[n + 1])
    BY <2>1 DEF RunsTo
  <2>3. n + 1 <= low \/ pubs[n + 1] = other[n + 1]
    OBVIOUS
  <2> QED
    BY <2>1, <2>2, <2>3
<1>3. T = Nat
  <2> HIDE DEF T
  <2>1. T \in SUBSET Nat
    BY DEF T
  <2> QED
    BY <1>1, <1>2, <2>1, AllNaturals
<1> QED
  BY <1>3

\* What Applied computes is a run.
LEMMA AppliedRuns ==
    ASSUME NEW from, NEW pubs, NEW low \in Nat
    PROVE  \E g : IsRun(g, from, pubs, low)
<1> DEFINE upTo(k) == CHOOSE g : RunsTo(g, k, from, pubs, low)
           Right(r) == r = [n \in Nat |-> IF n <= low THEN from ELSE ApplyOps(r[n - 1], pubs[n])]
           whole == [n \in Nat |-> upTo(n)[n]]
           run == CHOOSE r : Right(r)
<1>1. \A k \in Nat : RunsTo(upTo(k), k, from, pubs, low)
  BY RunExists, Zenon
<1>2. ASSUME NEW n \in Nat
      PROVE  whole[n] = IF n <= low THEN from ELSE ApplyOps(whole[n - 1], pubs[n])
  <2> HIDE DEF upTo
  <2>1. whole[n] = IF n <= low THEN from ELSE ApplyOps(upTo(n)[n - 1], pubs[n])
    BY <1>1 DEF RunsTo
  <2>2. ~(n <= low) => upTo(n)[n - 1] = upTo(n - 1)[n - 1]
    <3> SUFFICES ASSUME ~(n <= low) PROVE upTo(n)[n - 1] = upTo(n - 1)[n - 1]
      OBVIOUS
    <3>1. n - 1 \in Nat /\ n - 1 <= n /\ n - 1 <= n - 1 /\ n - 1 \in 0..(n - 1)
      OBVIOUS
    <3>2. PICK m \in Nat : m = n - 1
      BY <3>1
    <3>3. PICK g : g = upTo(n)
      OBVIOUS
    <3>4. PICK h : h = upTo(m)
      OBVIOUS
    <3>5. RunsTo(g, m, from, pubs, low) /\ RunsTo(h, m, from, pubs, low)
      BY <1>1, <3>1, <3>2, <3>3, <3>4 DEF RunsTo
    <3>6. m <= n /\ m <= m /\ m \in 0..m
      BY <3>1, <3>2
    <3>7. \A i \in (low + 1)..m : pubs[i] = pubs[i]
      OBVIOUS
    <3>8. \A i \in 0..m : g[i] = h[i]
      BY <3>5, <3>6, <3>7, RunsSame
    <3> QED
      BY <3>2, <3>3, <3>4, <3>6, <3>8
  <2>3. ~(n <= low) => n - 1 \in Nat
    OBVIOUS
  <2> QED
    BY <2>1, <2>2, <2>3
<1>3. Right(whole)
  <2> HIDE DEF upTo
  <2> QED
    BY <1>2
<1>4. Right(run)
  <2> HIDE DEF Right, whole
  <2> QED
    BY <1>3, Zenon
<1>5. \A high : Applied(from, pubs, low, high) = run[high]
  BY DEF Applied
<1>6. \A k \in Nat : RunsTo(run, k, from, pubs, low)
  <2> HIDE DEF run
  <2>1. \A n \in Nat : run[n] = IF n <= low THEN from ELSE ApplyOps(run[n - 1], pubs[n])
    BY <1>4
  <2> QED
    BY <2>1 DEF RunsTo
<1> QED
  BY <1>5, <1>6 DEF IsRun

\* No publications leave the state as it is.
LEMMA AppliedBase ==
    ASSUME NEW from, NEW pubs, NEW low \in Nat
    PROVE  Applied(from, pubs, low, low) = from
<1>1. PICK g : IsRun(g, from, pubs, low)
  BY AppliedRuns, Zenon
<1>2. RunsTo(g, low, from, pubs, low) /\ low \in 0..low /\ low <= low
  BY <1>1 DEF IsRun
<1> QED
  BY <1>1, <1>2 DEF RunsTo, IsRun

\* One more publication is applied last.
LEMMA AppliedStep ==
    ASSUME NEW from, NEW pubs, NEW low \in Nat, NEW high \in Nat, low <= high
    PROVE  Applied(from, pubs, low, high + 1) =
              ApplyOps(Applied(from, pubs, low, high), pubs[high + 1])
<1>1. PICK g : IsRun(g, from, pubs, low)
  BY AppliedRuns, Zenon
<1>2. RunsTo(g, high + 1, from, pubs, low) /\ high + 1 \in 0..(high + 1)
      /\ ~(high + 1 <= low) /\ (high + 1) - 1 = high
  BY <1>1 DEF IsRun
<1> QED
  BY <1>1, <1>2 DEF RunsTo, IsRun

\* Only the publications in between count.
LEMMA AppliedSame ==
    ASSUME NEW from, NEW pubs, NEW other, NEW low \in Nat, NEW high \in Nat,
           \A n \in (low + 1)..high : pubs[n] = other[n]
    PROVE  Applied(from, pubs, low, high) = Applied(from, other, low, high)
<1>1. PICK g : IsRun(g, from, pubs, low)
  BY AppliedRuns, Zenon
<1>2. PICK h : IsRun(h, from, other, low)
  BY AppliedRuns, Zenon
<1>3. RunsTo(g, high, from, pubs, low) /\ RunsTo(h, high, from, other, low)
  BY <1>1, <1>2 DEF IsRun
<1>4. high <= high /\ high \in 0..high
  OBVIOUS
<1>5. \A n \in 0..high : g[n] = h[n]
  BY <1>3, <1>4, RunsSame
<1> QED
  BY <1>1, <1>2, <1>4, <1>5 DEF IsRun

\* A publication does not make the copy lack anything.
LEMMA ApplyKeeps ==
    ASSUME NEW r, NEW a, NEW op, Included(Valid(r), Valid(a))
    PROVE  Included(Valid(ApplyOps(r, op)), Valid(ApplyOps(a, op)))
<1>1. \A p : p \in DOMAIN r /\ r[p] \notin expired => p \in DOMAIN a /\ a[p] = r[p]
  BY DEF Included, Valid, Without
<1> DEFINE of(f) == ApplyOps(f, op)
<1>2. ASSUME NEW f
      PROVE  /\ DOMAIN of(f) = (DOMAIN op.adds \cup (IF op.reset THEN {} ELSE DOMAIN f)) \ op.removes
             /\ \A p \in DOMAIN of(f) : of(f)[p] = IF p \in DOMAIN op.adds THEN op.adds[p] ELSE f[p]
  <2>1. DOMAIN NoPrefixes = {}
    BY DEF NoPrefixes
  <2>2. CASE op.reset
    BY <2>1, <2>2 DEF ApplyOps, Without, Over
  <2>3. CASE ~op.reset
    BY <2>1, <2>3 DEF ApplyOps, Without, Over
  <2> QED
    BY <2>2, <2>3
<1> HIDE DEF of
<1>3. ASSUME NEW p \in DOMAIN of(r), of(r)[p] \notin expired
      PROVE  p \in DOMAIN of(a) /\ of(a)[p] = of(r)[p]
  BY <1>1, <1>2, <1>3
<1>4. Included(Valid(of(r)), Valid(of(a)))
  BY <1>3 DEF Included, Valid, Without
<1> QED
  BY <1>4 DEF of

\* Nor does a run of them, over what the first ones left.
LEMMA ReplayKeeps ==
    ASSUME NEW pubs, NEW low \in Nat, NEW a, Included(Valid(Replay(pubs, low)), Valid(a)),
           NEW high \in Nat, low <= high
    PROVE  Included(Valid(Replay(pubs, high)), Valid(Applied(a, pubs, low, high)))
<1> DEFINE T == {n \in Nat : low <= n =>
                    Included(Valid(Replay(pubs, n)), Valid(Applied(a, pubs, low, n)))}
<1>1. low \in T
  BY AppliedBase
<1>2. ASSUME NEW n \in Nat, low <= n, n \in T PROVE n + 1 \in T
  <2>1. Included(Valid(Replay(pubs, n)), Valid(Applied(a, pubs, low, n)))
    BY <1>2
  <2>2. Included(Valid(ApplyOps(Replay(pubs, n), pubs[n + 1])),
                 Valid(ApplyOps(Applied(a, pubs, low, n), pubs[n + 1])))
    BY <2>1, ApplyKeeps, Zenon
  <2>3. 0 \in Nat /\ 0 <= n
    OBVIOUS
  <2>4. Replay(pubs, n + 1) = ApplyOps(Replay(pubs, n), pubs[n + 1])
    BY <2>3, AppliedStep, Zenon DEF Replay
  <2>5. Applied(a, pubs, low, n + 1) = ApplyOps(Applied(a, pubs, low, n), pubs[n + 1])
    BY <1>2, AppliedStep, Zenon
  <2> QED
    BY <2>2, <2>4, <2>5
<1> HIDE DEF T
<1>3. ASSUME NEW n \in Nat, n \in T PROVE n + 1 \in T
  <2>1. CASE low <= n
    BY <1>2, <1>3, <2>1
  <2>2. CASE ~(low <= n)
    <3>1. n + 1 = low \/ ~(low <= n + 1)
      BY <2>2
    <3> QED
      BY <1>1, <3>1 DEF T
  <2> QED
    BY <2>1, <2>2
<1>4. 0 \in T
  BY <1>1 DEF T
<1>5. T = Nat
  <2>1. T \in SUBSET Nat
    BY DEF T
  <2> QED
    BY <1>3, <1>4, <2>1, AllNaturals
<1> QED
  BY <1>5 DEF T

-----------------------------------------------------------------------------
(***************************************************************************)
(* The copy of a router's prefixes                                         *)
(***************************************************************************)
\* The operations a router publishes.
PrefixOp == {OpReset} \cup {OpAdd(p, v) : p \in Prefix, v \in Validity} \cup {OpRemove(p) : p \in Prefix}

\* svsDataState.
DataState == [known : Nat, latest : Nat, pending : Nat, pubs : SUBSET Nat, block : {-1, 0, 1}]

\* The last boot that the subscriber has heard of.
LastSeen(d, b) == d[b].latest > 0 /\ \A c \in Boot : c > b => d[c].latest = 0

\* The same prefixes with the same validity.
SameMap(f, g) == DOMAIN f = DOMAIN g /\ \A p \in DOMAIN f : f[p] = g[p]

\* What the router published is what it has, and what a snapshot holds is no
\* less than what was published when it was taken.
PublisherInv ==
    /\ boot \in Boot
    /\ log \in [Boot -> Seq(PrefixOp)]
    /\ Len(log[boot]) > 0
    /\ \A b \in Boot : b > boot => Len(log[b]) = 0
    /\ DOMAIN snap = Boot
    /\ \A b \in Boot :
          /\ snap[b].version \in Nat /\ snap[b].version <= Len(log[b])
          /\ snap[b].version > 0 =>
                /\ snap[b].content.reset /\ snap[b].content.removes = {}
                /\ Included(Replay(log[b], snap[b].version), snap[b].content.adds)
    /\ \A p \in DOMAIN me : me[p] \in [validity : Validity, hops : SUBSET Face]
    /\ SameMap(Replay(log[boot], Len(log[boot])), Validities(me))

\* The subscriber, with the data d, the fetches f and s under way and the
\* copy a: it is behind the publisher, fetches what it has heard of, and the
\* copy lacks nothing of the last boot.
SubscriberInv(d, f, s, a) ==
    /\ d \in [Boot -> DataState]
    /\ \A b \in Boot :
          /\ d[b].known <= Len(log[b]) /\ d[b].latest <= Len(log[b])
          /\ d[b].pubs \subseteq 1..Len(log[b])
          /\ d[b].latest = 0 => d[b].known = 0
    /\ f \in [Boot \X SeqNo -> Nat]
    /\ \A b \in Boot, n \in SeqNo : f[<<b, n>>] > 0 => n <= d[b].latest
    /\ s \subseteq Seen(d)
    /\ \A b \in Boot : LastSeen(d, b) => Included(Valid(Replay(log[b], d[b].known)), Valid(a))

\* onUpdate has blocked the older boots for good.
OlderBlocked == \A b \in Boot : data[b].latest > 0 /\ ~LastSeen(data, b) => data[b].block = -1

CopyInv ==
    /\ PublisherInv
    /\ SubscriberInv(data, fetches, snapFetch, app)
    /\ OlderBlocked

\* Boots are numbers.
LEMMA BootNat == Boot \in SUBSET Nat /\ MaxBoot \in Nat
  BY PrefixSyncAssumption DEF Boot

\* The last boot heard of.
LEMMA SeenMax ==
    ASSUME NEW d \in [Boot -> DataState], Seen(d) # {}
    PROVE  Max(Seen(d)) \in Seen(d) /\ LastSeen(d, Max(Seen(d)))
<1>1. Seen(d) \subseteq Boot /\ \A b \in Boot : d[b].latest \in Nat
  BY DEF Seen, DataState
<1> DEFINE left == {MaxBoot - b : b \in Seen(d)}
<1>2. left \in SUBSET Nat /\ left # {}
  BY <1>1, BootNat DEF Boot
<1>3. PICK x \in left : \A y \in left : x <= y
  <2> HIDE DEF left
  <2> QED
    BY <1>2, LeastNatural
<1>4. PICK b \in Seen(d) : x = MaxBoot - b
  BY <1>3
<1>5. \A c \in Seen(d) : b >= c
  <2> SUFFICES ASSUME NEW c \in Seen(d) PROVE b >= c
    OBVIOUS
  <2>1. MaxBoot - b <= MaxBoot - c
    BY <1>3, <1>4
  <2>2. b \in Nat /\ c \in Nat /\ MaxBoot \in Nat
    BY <1>1, BootNat
  <2> QED
    BY <2>1, <2>2
<1>6. Max(Seen(d)) \in Seen(d) /\ \A c \in Seen(d) : Max(Seen(d)) >= c
  BY <1>5, Zenon DEF Max
<1>7. PICK m : m = Max(Seen(d))
  OBVIOUS
<1>8. m \in Seen(d) /\ m \in Boot /\ \A c \in Seen(d) : m >= c
  BY <1>1, <1>6, <1>7
<1>9. \A c \in Boot : c > m => d[c].latest = 0
  BY <1>1, <1>8, BootNat DEF Seen
<1>10. d[m].latest > 0
  BY <1>8 DEF Seen
<1> QED
  BY <1>7, <1>8, <1>9, <1>10 DEF LastSeen

\* The pipeline does not go beyond the latest number heard of.
LEMMA ReachBound ==
    ASSUME NEW e \in DataState, NEW p \in Reach(e)
    PROVE  p \in Nat /\ (p = e.pending \/ p <= e.latest)
<1>0. e.known \in Nat /\ e.latest \in Nat /\ e.pending \in Nat /\ e.block \in {-1, 0, 1}
      /\ MaxPipeline \in Nat
  BY PrefixSyncAssumption DEF DataState
<1>1. CASE e.block # 0 \/ e.pending < e.known \/ e.pending >= e.latest
  BY <1>0, <1>1 DEF Reach
<1>2. CASE ~(e.block # 0 \/ e.pending < e.known \/ e.pending >= e.latest)
  <2> DEFINE most == MaxOf(e.pending, MinOf(e.latest, e.known + MaxPipeline + 1))
             least == MaxOf(e.pending, MinOf(e.latest, e.known + 2))
  <2>1. most \in Nat /\ most <= e.latest
    BY <1>0, <1>2 DEF MaxOf, MinOf
  <2>2. least \in Nat /\ MinOf(least, most) \in Nat
    BY <1>0, <1>2 DEF MaxOf, MinOf
  <2>3. p \in MinOf(least, most)..most \/ p = most
    BY <1>2 DEF Reach
  <2> HIDE DEF most, least
  <2> QED
    BY <2>1, <2>2, <2>3, <1>0
<1> QED
  BY <1>1, <1>2

\* What consumeCheck leaves: older boots are blocked, and only they forget
\* what is missing.
LEMMA Checked ==
    ASSUME NEW d \in [Boot -> DataState], NEW f \in [Boot \X SeqNo -> Nat], NEW s,
           Seen(d) # {}, ConsumeCheck(d, f, s)
    PROVE  /\ data' \in [Boot -> DataState]
           /\ \A b \in Boot :
                 /\ data'[b].latest = d[b].latest /\ data'[b].pubs = d[b].pubs
                 /\ LastSeen(d, b) \/ d[b].latest = 0 => data'[b].known = d[b].known
                 /\ data'[b].known = d[b].known \/ data'[b].known = d[b].latest
                 /\ d[b].latest > 0 /\ ~LastSeen(d, b) => data'[b].block = -1
           /\ fetches' \in [Boot \X SeqNo -> Nat]
           /\ \A b \in Boot, n \in SeqNo :
                 fetches'[<<b, n>>] = f[<<b, n>>] \/ n <= d[b].latest
           /\ snapFetch' \subseteq s \cup Seen(d)
<1> DEFINE last == Max(Seen(d))
           checked == OnUpdate(d)
<1>1. last \in Seen(d) /\ LastSeen(d, last)
  BY SeenMax
<1>2. last \in Boot /\ \A b \in Boot : d[b] \in DataState
  BY <1>1 DEF Seen
<1>4. PICK p \in Reach(checked[last]) :
         /\ data' = [checked EXCEPT ![last].pending = p]
         /\ fetches' = [x \in DOMAIN f |->
              IF x[1] = last /\ x[2] \in (checked[last].pending + 1)..p THEN f[x] + 1 ELSE f[x]]
         /\ snapFetch' = IF WantsSnap(d[last]) THEN s \cup {last} ELSE s
  BY Zenon DEF ConsumeCheck
<1>5. ASSUME NEW b \in Boot
      PROVE  checked[b] = IF b \notin Seen(d) THEN d[b]
                          ELSE IF b # last THEN IF d[b].block = -1 THEN d[b] ELSE Blocked(d[b])
                          ELSE IF WantsSnap(d[b]) THEN [d[b] EXCEPT !.block = 1] ELSE d[b]
  BY <1>1 DEF OnUpdate
<1>9. DOMAIN checked = Boot
  BY DEF OnUpdate
<1> HIDE DEF last, checked
<1>6. ASSUME NEW b \in Boot
      PROVE  /\ Blocked(d[b]) \in DataState
             /\ Blocked(d[b]).latest = d[b].latest /\ Blocked(d[b]).pubs = d[b].pubs
             /\ Blocked(d[b]).known = d[b].latest /\ Blocked(d[b]).block = -1
             /\ [d[b] EXCEPT !.block = 1] \in DataState
             /\ [d[b] EXCEPT !.block = 1].latest = d[b].latest
             /\ [d[b] EXCEPT !.block = 1].pubs = d[b].pubs
             /\ [d[b] EXCEPT !.block = 1].known = d[b].known
  BY <1>2 DEF Blocked, DataState
<1>7. \A b \in Boot : /\ LastSeen(d, b) => b = last
                      /\ b \notin Seen(d) <=> d[b].latest = 0
  BY <1>1, <1>2, BootNat DEF LastSeen, Seen, DataState
<1>8. ASSUME NEW b \in Boot
      PROVE  /\ checked[b] \in DataState
             /\ checked[b].latest = d[b].latest /\ checked[b].pubs = d[b].pubs
             /\ LastSeen(d, b) \/ d[b].latest = 0 => checked[b].known = d[b].known
             /\ checked[b].known = d[b].known \/ checked[b].known = d[b].latest
             /\ d[b].latest > 0 /\ ~LastSeen(d, b) => checked[b].block = -1
  <2>1. CASE b \notin Seen(d)
    <3>1. checked[b] = d[b] /\ d[b].latest = 0
      BY <1>5, <1>7, <2>1
    <3> QED
      BY <1>2, <3>1
  <2>2. CASE b \in Seen(d) /\ b # last
    <3>1. ~LastSeen(d, b) /\ d[b].latest # 0
      BY <1>7, <2>2
    <3>2. (checked[b] = d[b] /\ d[b].block = -1) \/ checked[b] = Blocked(d[b])
      BY <1>5, <2>2
    <3> QED
      BY <1>2, <1>6, <3>1, <3>2
  <2>3. CASE b = last
    <3>1. checked[b] = d[b] \/ checked[b] = [d[b] EXCEPT !.block = 1]
      BY <1>1, <1>5, <2>3
    <3> QED
      BY <1>1, <1>2, <1>6, <2>3, <3>1
  <2> QED
    BY <2>1, <2>2, <2>3
<1>10. p \in Nat /\ (p = checked[last].pending \/ p <= d[last].latest)
       /\ checked[last].pending \in Nat /\ d[last].latest \in Nat
  <2>1. checked[last] \in DataState /\ checked[last].latest = d[last].latest
    BY <1>2, <1>8
  <2>2. PICK e \in DataState : e = checked[last]
    BY <2>1
  <2>3. p \in Nat /\ (p = e.pending \/ p <= e.latest) /\ e.pending \in Nat /\ e.latest \in Nat
    BY <2>2, ReachBound DEF DataState
  <2> QED
    BY <2>1, <2>2, <2>3
<1>11. ASSUME NEW b \in Boot
       PROVE  /\ data'[b] \in DataState
              /\ data'[b].latest = checked[b].latest /\ data'[b].pubs = checked[b].pubs
              /\ data'[b].known = checked[b].known /\ data'[b].block = checked[b].block
  <2>1. CASE b = last
    <3>1. data'[b] = [checked[b] EXCEPT !.pending = p]
      BY <1>2, <1>4, <1>9, <2>1
    <3> QED
      BY <1>8, <1>10, <3>1 DEF DataState
  <2>2. CASE b # last
    <3>1. data'[b] = checked[b]
      BY <1>4, <1>9, <2>2
    <3> QED
      BY <1>8, <3>1
  <2> QED
    BY <2>1, <2>2
<1>12. data' \in [Boot -> DataState]
  <2>1. data' = [b \in Boot |-> data'[b]]
    BY <1>4, <1>9
  <2> QED
    BY <1>11, <2>1
<1>13. ASSUME NEW b \in Boot, NEW n \in SeqNo
       PROVE  /\ fetches'[<<b, n>>] \in Nat
              /\ fetches'[<<b, n>>] = f[<<b, n>>] \/ n <= d[b].latest
  <2>1. <<b, n>> \in DOMAIN f /\ f[<<b, n>>] \in Nat /\ <<b, n>>[1] = b /\ <<b, n>>[2] = n /\ n \in Nat
    BY DEF SeqNo
  <2>2. fetches'[<<b, n>>] = IF b = last /\ n \in (checked[last].pending + 1)..p
                             THEN f[<<b, n>>] + 1 ELSE f[<<b, n>>]
    BY <1>4, <2>1
  <2> QED
    BY <1>10, <2>1, <2>2
<1>14. fetches' \in [Boot \X SeqNo -> Nat]
  <2>1. fetches' = [x \in Boot \X SeqNo |-> fetches'[x]]
    BY <1>4
  <2>2. \A x \in Boot \X SeqNo : fetches'[x] \in Nat
    BY <1>13
  <2> QED
    BY <2>1, <2>2
<1>15. snapFetch' \subseteq s \cup Seen(d)
  BY <1>1, <1>4
<1> QED
  BY <1>8, <1>11, <1>12, <1>13, <1>14, <1>15

\* After a step of the subscriber: consumeCheck keeps the invariant.
LEMMA CheckKeeps ==
    ASSUME PublisherInv, UNCHANGED <<boot, log, snap, me, expired>>,
           NEW d, NEW f, NEW s, SubscriberInv(d, f, s, app'), Seen(d) # {}, ConsumeCheck(d, f, s)
    PROVE  CopyInv'
<1>1. d \in [Boot -> DataState] /\ f \in [Boot \X SeqNo -> Nat]
  BY DEF SubscriberInv
<1>2. /\ data' \in [Boot -> DataState]
      /\ \A b \in Boot :
                 /\ data'[b].latest = d[b].latest /\ data'[b].pubs = d[b].pubs
                 /\ LastSeen(d, b) \/ d[b].latest = 0 => data'[b].known = d[b].known
                 /\ data'[b].known = d[b].known \/ data'[b].known = d[b].latest
                 /\ d[b].latest > 0 /\ ~LastSeen(d, b) => data'[b].block = -1
      /\ fetches' \in [Boot \X SeqNo -> Nat]
      /\ \A b \in Boot, n \in SeqNo :
                 fetches'[<<b, n>>] = f[<<b, n>>] \/ n <= d[b].latest
      /\ snapFetch' \subseteq s \cup Seen(d)
  BY <1>1, Checked
<1>3. PublisherInv'
  BY DEF PublisherInv
<1>4. Seen(data') = Seen(d) /\ \A b \in Boot : LastSeen(data', b) <=> LastSeen(d, b)
  BY <1>2 DEF Seen, LastSeen
<1>5. OlderBlocked'
  BY <1>2, <1>4 DEF OlderBlocked
<1>6. ASSUME NEW b \in Boot, LastSeen(data', b)
      PROVE  Included(Valid(Replay(log[b], data'[b].known)), Valid(app'))
  <2>1. LastSeen(d, b) /\ data'[b].known = d[b].known
    BY <1>2, <1>4, <1>6
  <2> QED
    BY <2>1 DEF SubscriberInv
<1>7. SubscriberInv(data', fetches', snapFetch', app')
  BY <1>2, <1>4, <1>6 DEF SubscriberInv
<1>8. SubscriberInv(data, fetches, snapFetch, app)'
  BY <1>7 DEF SubscriberInv, Valid, Seen, LastSeen
<1> QED
  BY <1>3, <1>5, <1>8 DEF CopyInv

\* One boot's data changes, and not its latest number.
LEMMA DataKeeps ==
    ASSUME CopyInv, NEW b \in Boot, NEW e \in DataState, NEW a, NEW f, NEW s,
           data[b].latest > 0, e.latest = data[b].latest, e.known <= Len(log[b]),
           e.pubs \subseteq 1..Len(log[b]),
           f \in [Boot \X SeqNo -> Nat], \A x \in Boot \X SeqNo : f[x] <= fetches[x],
           s \subseteq snapFetch,
           LastSeen(data, b) => Included(Valid(Replay(log[b], e.known)), Valid(a)),
           ~LastSeen(data, b) => a = app
    PROVE  LET d == [data EXCEPT ![b] = e]
           IN  SubscriberInv(d, f, s, a) /\ Seen(d) # {}
<1> DEFINE d == [data EXCEPT ![b] = e]
<1>0. data \in [Boot -> DataState]
  BY DEF CopyInv, SubscriberInv
<1>1. d[b] = e /\ \A c \in Boot \ {b} : d[c] = data[c]
  BY <1>0
<1>2. d \in [Boot -> DataState]
  BY <1>0
<1> HIDE DEF d
<1>3. \A c \in Boot : d[c].latest = data[c].latest
  BY <1>1
<1>4. Seen(d) = Seen(data) /\ \A c \in Boot : LastSeen(d, c) <=> LastSeen(data, c)
  BY <1>3 DEF Seen, LastSeen
<1>5. ASSUME NEW c \in Boot
      PROVE  /\ d[c].known <= Len(log[c]) /\ d[c].latest <= Len(log[c])
             /\ d[c].pubs \subseteq 1..Len(log[c])
             /\ d[c].latest = 0 => d[c].known = 0
  <2>1. CASE c = b
    BY <1>1, <2>1 DEF CopyInv, SubscriberInv, DataState
  <2>2. CASE c # b
    BY <1>1, <2>2 DEF CopyInv, SubscriberInv
  <2> QED
    BY <2>1, <2>2
<1>6. ASSUME NEW c \in Boot, NEW n \in SeqNo, f[<<c, n>>] > 0
      PROVE  n <= d[c].latest
  <2>1. fetches[<<c, n>>] \in Nat /\ f[<<c, n>>] \in Nat /\ f[<<c, n>>] <= fetches[<<c, n>>]
    BY DEF CopyInv, SubscriberInv
  <2>2. fetches[<<c, n>>] > 0
    BY <1>6, <2>1
  <2> QED
    BY <1>3, <2>2 DEF CopyInv, SubscriberInv
<1>7. ASSUME NEW c \in Boot, LastSeen(data, c)
      PROVE  Included(Valid(Replay(log[c], d[c].known)), Valid(a))
  <2>1. CASE c = b
    BY <1>1, <1>7, <2>1
  <2>2. CASE c # b
    <3>1. data[b].latest \in Nat /\ data[c].latest \in Nat /\ b \in Nat /\ c \in Nat
      BY <1>0, BootNat DEF DataState
    <3>2. ~LastSeen(data, b)
      BY <1>7, <2>2, <3>1 DEF LastSeen
    <3> QED
      BY <1>1, <1>7, <2>2, <3>2 DEF CopyInv, SubscriberInv
  <2> QED
    BY <2>1, <2>2
<1>8. s \subseteq Seen(d)
  BY <1>4 DEF CopyInv, SubscriberInv
<1>9. b \in Seen(d)
  BY <1>3 DEF Seen
<1>10. SubscriberInv(d, f, s, a)
  BY <1>2, <1>4, <1>5, <1>6, <1>7, <1>8 DEF SubscriberInv
<1> QED
  BY <1>9, <1>10 DEF d

\* What the invariant says, for reference.
LEMMA Facts ==
    ASSUME CopyInv
    PROVE  /\ PublisherInv
           /\ data \in [Boot -> DataState] /\ fetches \in [Boot \X SeqNo -> Nat]
           /\ snapFetch \subseteq Boot
           /\ \A b \in Boot :
                 /\ data[b] \in DataState
                 /\ data[b].known \in Nat /\ data[b].latest \in Nat /\ data[b].pending \in Nat
                 /\ data[b].pubs \in SUBSET Nat
                 /\ Len(log[b]) \in Nat
                 /\ data[b].known <= Len(log[b]) /\ data[b].latest <= Len(log[b])
                 /\ data[b].pubs \subseteq 1..Len(log[b])
                 /\ LastSeen(data, b) => Included(Valid(Replay(log[b], data[b].known)), Valid(app))
                 /\ b \in snapFetch => data[b].latest > 0
                 /\ data[b].latest > 0 /\ data[b].block # -1 => LastSeen(data, b)
           /\ \A b \in Boot, n \in SeqNo :
                 fetches[<<b, n>>] > 0 => n <= data[b].latest /\ data[b].latest > 0
<1>1. \A n \in SeqNo : n \in Nat /\ n > 0
  BY DEF SeqNo
<1>2. data \in [Boot -> DataState] /\ fetches \in [Boot \X SeqNo -> Nat]
  BY DEF CopyInv, SubscriberInv
<1>3. ASSUME NEW b \in Boot
      PROVE  /\ data[b] \in DataState
             /\ data[b].known \in Nat /\ data[b].latest \in Nat /\ data[b].pending \in Nat
             /\ data[b].pubs \in SUBSET Nat
             /\ Len(log[b]) \in Nat
  <2>1. log[b] \in Seq(PrefixOp)
    BY DEF CopyInv, PublisherInv
  <2> QED
    BY <1>2, <2>1 DEF DataState
<1>4. ASSUME NEW b \in Boot
      PROVE  /\ data[b].known <= Len(log[b]) /\ data[b].latest <= Len(log[b])
             /\ data[b].pubs \subseteq 1..Len(log[b])
             /\ LastSeen(data, b) => Included(Valid(Replay(log[b], data[b].known)), Valid(app))
             /\ b \in snapFetch => data[b].latest > 0
             /\ data[b].latest > 0 /\ data[b].block # -1 => LastSeen(data, b)
  BY DEF CopyInv, SubscriberInv, OlderBlocked, Seen
<1>5. ASSUME NEW b \in Boot, NEW n \in SeqNo, fetches[<<b, n>>] > 0
      PROVE  n <= data[b].latest /\ data[b].latest > 0
  BY <1>1, <1>3, <1>5 DEF CopyInv, SubscriberInv
<1>6. snapFetch \subseteq Boot
  BY DEF CopyInv, SubscriberInv, Seen
<1> QED
  BY <1>2, <1>3, <1>4, <1>5, <1>6 DEF CopyInv

\* A fetch less is under way.
LEMMA FetchEnds ==
    ASSUME CopyInv, NEW b \in Boot, NEW n \in SeqNo, fetches[<<b, n>>] > 0
    PROVE  LET f == [fetches EXCEPT ![<<b, n>>] = @ - 1]
           IN  f \in [Boot \X SeqNo -> Nat] /\ \A x \in Boot \X SeqNo : f[x] <= fetches[x]
<1>1. fetches \in [Boot \X SeqNo -> Nat] /\ <<b, n>> \in Boot \X SeqNo
  BY DEF CopyInv, SubscriberInv
<1>2. PICK y \in Boot \X SeqNo : y = <<b, n>> /\ fetches[y] > 0
  BY <1>1
<1>3. fetches[y] - 1 \in Nat /\ \A x \in Boot \X SeqNo : fetches[x] \in Nat
  BY <1>1, <1>2
<1> QED
  BY <1>1, <1>2, <1>3

\* onSvsUpdate: what is new of a boot was not known, and what is new is not
\* beyond what was published.
LEMMA LearnKeeps ==
    ASSUME CopyInv, UNCHANGED <<me, expired>>, NEW b \in Boot, NEW n \in SeqNo, Learn(b, n)
    PROVE  CopyInv'
<1> DEFINE d == [data EXCEPT ![b].latest = n]
<1>0. /\ n > data[b].latest /\ n <= Len(log[b]) /\ n \in Nat /\ n > 0
      /\ ConsumeCheck(d, fetches, snapFetch)
      /\ UNCHANGED <<boot, log, snap, app>>
  BY DEF Learn, pubVars, SeqNo
<1>1. /\ data \in [Boot -> DataState] /\ \A c \in Boot : data[c] \in DataState
      /\ \A c \in Boot : data[c].latest \in Nat
  BY Facts
<1>2. d[b] = [data[b] EXCEPT !.latest = n] /\ \A c \in Boot \ {b} : d[c] = data[c]
  BY <1>1
<1>3. d[b] \in DataState /\ d[b].latest = n /\ d[b].known = data[b].known /\ d[b].pubs = data[b].pubs
  BY <1>0, <1>1, <1>2 DEF DataState
<1>4. d \in [Boot -> DataState]
  BY <1>1, <1>2, <1>3
<1> HIDE DEF d
<1>5. ASSUME NEW c \in Boot PROVE data[c].latest <= d[c].latest
  <2>1. data[c].latest \in Nat
    BY <1>1
  <2>2. CASE c = b
    BY <1>0, <1>3, <2>1, <2>2
  <2>3. CASE c # b
    BY <1>2, <2>1, <2>3
  <2> QED
    BY <2>2, <2>3
<1>6. Seen(data) \subseteq Seen(d) /\ b \in Seen(d)
  <2>1. \A c \in Boot : data[c].latest \in Nat /\ d[c].latest \in Nat
    BY <1>1, <1>4 DEF DataState
  <2>2. \A c \in Boot : data[c].latest > 0 => d[c].latest > 0
    BY <1>5, <2>1
  <2> QED
    BY <1>0, <1>3, <2>2 DEF Seen
<1>7. ASSUME NEW c \in Boot
      PROVE  /\ d[c].known <= Len(log[c]) /\ d[c].latest <= Len(log[c])
             /\ d[c].pubs \subseteq 1..Len(log[c])
             /\ d[c].latest = 0 => d[c].known = 0
  <2>1. CASE c = b
    BY <1>0, <1>3, <2>1 DEF CopyInv, SubscriberInv
  <2>2. CASE c # b
    BY <1>2, <2>2 DEF CopyInv, SubscriberInv
  <2> QED
    BY <2>1, <2>2
<1>8. ASSUME NEW c \in Boot, NEW m \in SeqNo, fetches[<<c, m>>] > 0 PROVE m <= d[c].latest
  <2>1. m <= data[c].latest /\ m \in Nat /\ data[c].latest \in Nat
    BY <1>1, <1>8, Facts DEF SeqNo
  <2>2. d[c].latest \in Nat /\ data[c].latest <= d[c].latest
    BY <1>4, <1>5 DEF DataState
  <2> QED
    BY <2>1, <2>2
<1>9. ASSUME NEW c \in Boot, LastSeen(d, c)
      PROVE  Included(Valid(Replay(log[c], d[c].known)), Valid(app'))
  <2>0. app' = app
    BY <1>0
  <2>1. d[c].known = data[c].known
    BY <1>2, <1>3
  <2>2. CASE data[c].latest = 0
    <3>1. data[c].known = 0
      BY <2>2 DEF CopyInv, SubscriberInv
    <3>2. Replay(log[c], 0) = NoPrefixes /\ DOMAIN NoPrefixes = {}
      BY AppliedBase DEF Replay, NoPrefixes
    <3> QED
      BY <2>1, <3>1, <3>2 DEF Included, Valid, Without
  <2>3. CASE data[c].latest # 0
    <3>1. \A i \in Boot : data[i].latest \in Nat /\ d[i].latest \in Nat
      BY <1>1, <1>4 DEF DataState
    <3>2. LastSeen(data, c)
      BY <1>5, <1>9, <2>3, <3>1 DEF LastSeen
    <3> QED
      BY <2>0, <2>1, <3>2, Facts
  <2> QED
    BY <2>2, <2>3
<1>10. SubscriberInv(d, fetches, snapFetch, app')
  <2>1. snapFetch \subseteq Seen(d) /\ fetches \in [Boot \X SeqNo -> Nat]
    BY <1>6 DEF CopyInv, SubscriberInv
  <2> QED
    BY <1>4, <1>7, <1>8, <1>9, <2>1 DEF SubscriberInv
<1>11. UNCHANGED <<boot, log, snap, me, expired>> /\ PublisherInv
  BY <1>0, Facts
<1>12. Seen(d) # {} /\ ConsumeCheck(d, fetches, snapFetch)
  BY <1>0, <1>6
<1> QED
  BY <1>10, <1>11, <1>12, CheckKeeps, Zenon

\* A fetch that comes back late, or during a snapshot fetch, or fails.
LEMMA FetchesKeep ==
    ASSUME CopyInv, UNCHANGED <<me, expired>>, NEW b \in Boot, NEW n \in SeqNo,
           FetchLate(b, n) \/ FetchBlocked(b, n) \/ FetchError(b, n)
    PROVE  CopyInv'
<1> DEFINE less == [fetches EXCEPT ![<<b, n>>] = @ - 1]
           back == [data EXCEPT ![b].pending = MinOf(@, n - 1)]
<1>0. fetches[<<b, n>>] > 0 /\ UNCHANGED <<boot, log, snap, app>>
  BY DEF FetchLate, FetchBlocked, FetchError, pubVars
<1>1. /\ less \in [Boot \X SeqNo -> Nat] /\ \A x \in Boot \X SeqNo : less[x] <= fetches[x]
      /\ fetches \in [Boot \X SeqNo -> Nat] /\ \A x \in Boot \X SeqNo : fetches[x] <= fetches[x]
  <2>1. fetches \in [Boot \X SeqNo -> Nat]
    BY Facts
  <2>2. \A x \in Boot \X SeqNo : fetches[x] <= fetches[x]
    BY <2>1
  <2> QED
    BY <1>0, <2>1, <2>2, FetchEnds
<1>2. \/ ConsumeCheck(data, less, snapFetch)
      \/ ConsumeCheck(back, less, snapFetch)
      \/ ConsumeCheck(data, fetches, snapFetch)
  BY DEF FetchLate, FetchBlocked, FetchError
<1>3. /\ data \in [Boot -> DataState] /\ data[b] \in DataState /\ data[b].latest > 0
      /\ data[b].known <= Len(log[b]) /\ data[b].pubs \subseteq 1..Len(log[b])
      /\ LastSeen(data, b) => Included(Valid(Replay(log[b], data[b].known)), Valid(app'))
      /\ data[b].pending \in Nat /\ PublisherInv
      /\ UNCHANGED <<boot, log, snap, me, expired>>
  BY <1>0, Facts
<1> DEFINE e == [data[b] EXCEPT !.pending = MinOf(@, n - 1)]
<1>4. /\ e \in DataState /\ e.latest = data[b].latest /\ e.known = data[b].known
      /\ e.pubs = data[b].pubs
  <2>1. MinOf(data[b].pending, n - 1) \in Nat
    BY <1>3 DEF MinOf, SeqNo
  <2> QED
    BY <1>3, <2>1 DEF DataState
<1>5. back = [data EXCEPT ![b] = e] /\ data = [data EXCEPT ![b] = data[b]]
  BY <1>3
<1> HIDE DEF e, back, less
<1>6. /\ SubscriberInv(back, less, snapFetch, app') /\ Seen(back) # {}
      /\ SubscriberInv(data, less, snapFetch, app') /\ Seen(data) # {}
      /\ SubscriberInv(data, fetches, snapFetch, app')
  <2>1. snapFetch \subseteq snapFetch /\ app' = app
    BY <1>0
  <2>2. SubscriberInv(back, less, snapFetch, app') /\ Seen(back) # {}
    BY <1>1, <1>3, <1>4, <1>5, <2>1, DataKeeps
  <2>3. SubscriberInv(data, less, snapFetch, app') /\ Seen(data) # {}
    <3>1. data[b].latest = data[b].latest /\ (~LastSeen(data, b) => app' = app)
      BY <2>1
    <3>2. /\ SubscriberInv([data EXCEPT ![b] = data[b]], less, snapFetch, app')
          /\ Seen([data EXCEPT ![b] = data[b]]) # {}
      BY <1>1, <1>3, <2>1, <3>1, DataKeeps, Zenon
    <3> QED
      BY <1>5, <3>2
  <2>4. SubscriberInv(data, fetches, snapFetch, app')
    <3>1. data[b].latest = data[b].latest /\ (~LastSeen(data, b) => app' = app)
      BY <2>1
    <3>2. SubscriberInv([data EXCEPT ![b] = data[b]], fetches, snapFetch, app')
      BY <1>1, <1>3, <2>1, <3>1, DataKeeps, Zenon
    <3> QED
      BY <1>5, <3>2
  <2> QED
    BY <2>2, <2>3, <2>4
<1> QED
  BY <1>2, <1>3, <1>6, CheckKeeps, Zenon

\* What becomes known was fetched, so it was published.
LEMMA DeliverKnown ==
    ASSUME NEW e \in DataState, NEW len \in Nat, e.pubs \subseteq 1..len, e.known <= len,
           NEW n \in 1..len
    PROVE  LET r == Deliver(e, n)
           IN  /\ r \in DataState /\ r.latest = e.latest
               /\ e.known <= r.known /\ r.known <= len
               /\ r.pubs \subseteq 1..len
<1> DEFINE got == [e EXCEPT !.pubs = @ \cup {n}]
           ready == Ready(got)
           r == Deliver(e, n)
<1>0. e.known \in Nat /\ e.latest \in Nat /\ e.pubs \in SUBSET Nat
  BY DEF DataState
<1>1. got \in DataState /\ got.known = e.known /\ got.latest = e.latest /\ got.pubs = e.pubs \cup {n}
  BY <1>0 DEF DataState
<1>2. ready \subseteq (e.known + 1)..len
  <2> SUFFICES ASSUME NEW i \in ready PROVE i \in (e.known + 1)..len
    OBVIOUS
  <2>1. i \in Nat /\ i > e.known /\ \A m \in (e.known + 1)..i : m \in got.pubs
    BY <1>1 DEF Ready, SeqNo
  <2>2. i \in got.pubs
    BY <1>0, <2>1
  <2> QED
    BY <1>0, <1>1, <2>1, <2>2
<1>3. /\ IsFiniteSet((e.known + 1)..len)
      /\ Cardinality((e.known + 1)..len) <= len - e.known
  <2>1. e.known + 1 \in Int /\ len \in Int
    BY <1>0
  <2>2. /\ IsFiniteSet((e.known + 1)..len)
        /\ Cardinality((e.known + 1)..len) =
              IF e.known + 1 > len THEN 0 ELSE len - (e.known + 1) + 1
    BY <2>1, FS_Interval, Zenon
  <2> QED
    BY <1>0, <2>2
<1>4. Cardinality(ready) \in Nat /\ Cardinality(ready) <= len - e.known
  <2> HIDE DEF ready
  <2>1. IsFiniteSet(ready) /\ Cardinality(ready) <= Cardinality((e.known + 1)..len)
    BY <1>2, <1>3, FS_Subset, Zenon
  <2>2. Cardinality(ready) \in Nat /\ Cardinality((e.known + 1)..len) \in Nat
    BY <1>3, <2>1, FS_CardinalityType, Zenon
  <2> QED
    BY <1>0, <1>3, <2>1, <2>2
<1>5. r = [got EXCEPT !.known = e.known + Cardinality(ready), !.pubs = @ \ ready]
  BY DEF Deliver
<1> HIDE DEF got, ready, r
<1>6. r \in DataState /\ r.latest = e.latest /\ r.known = e.known + Cardinality(ready)
      /\ r.pubs = got.pubs \ ready
  <2>1. PICK k \in Nat : k = e.known + Cardinality(ready)
    BY <1>0, <1>4
  <2>2. PICK q \in SUBSET Nat : q = got.pubs \ ready
    BY <1>1 DEF DataState
  <2>3. r = [got EXCEPT !.known = k, !.pubs = q]
    BY <1>5, <2>1, <2>2
  <2>4. r \in DataState /\ r.latest = got.latest /\ r.known = k /\ r.pubs = q
    BY <1>1, <2>3 DEF DataState
  <2> QED
    BY <1>1, <2>1, <2>2, <2>4
<1>7. e.known <= r.known /\ r.known <= len
  BY <1>0, <1>4, <1>6
<1>8. r.pubs \subseteq 1..len
  BY <1>1, <1>6
<1> QED
  BY <1>6, <1>7, <1>8 DEF r

\* Publications are delivered to the copy.
LEMMA FetchDataKeeps ==
    ASSUME CopyInv, UNCHANGED <<me, expired>>, NEW b \in Boot, NEW n \in SeqNo, FetchData(b, n)
    PROVE  CopyInv'
<1> DEFINE e == Deliver(data[b], n)
           less == [fetches EXCEPT ![<<b, n>>] = @ - 1]
<1>0. /\ fetches[<<b, n>>] > 0 /\ n > data[b].known /\ data[b].block = 0
      /\ app' = Applied(app, log[b], data[b].known, e.known)
      /\ ConsumeCheck([data EXCEPT ![b] = e], less, snapFetch)
      /\ UNCHANGED <<boot, log, snap>>
  BY DEF FetchData, pubVars
<1>1. less \in [Boot \X SeqNo -> Nat] /\ \A x \in Boot \X SeqNo : less[x] <= fetches[x]
  BY <1>0, FetchEnds
<1>2. /\ data[b] \in DataState /\ data[b].latest > 0 /\ data[b].latest \in Nat
      /\ n <= data[b].latest /\ data[b].latest <= Len(log[b]) /\ Len(log[b]) \in Nat
      /\ data[b].known \in Nat
      /\ data[b].known <= Len(log[b]) /\ data[b].pubs \subseteq 1..Len(log[b])
      /\ PublisherInv
  BY <1>0, Facts
<1>3. /\ LastSeen(data, b)
      /\ Included(Valid(Replay(log[b], data[b].known)), Valid(app))
  BY <1>0, <1>2, Facts
<1>4. n \in 1..Len(log[b])
  BY <1>2 DEF SeqNo
<1>5. /\ e \in DataState /\ e.latest = data[b].latest
      /\ data[b].known <= e.known /\ e.known <= Len(log[b])
      /\ e.pubs \subseteq 1..Len(log[b])
  BY <1>2, <1>4, DeliverKnown
<1> HIDE DEF e, less
<1>6. Included(Valid(Replay(log[b], e.known)), Valid(app'))
  <2>1. e.known \in Nat
    BY <1>5 DEF DataState
  <2> QED
    BY <1>0, <1>2, <1>3, <1>5, <2>1, ReplayKeeps
<1>7. SubscriberInv([data EXCEPT ![b] = e], less, snapFetch, app') /\ Seen([data EXCEPT ![b] = e]) # {}
  <2>1. snapFetch \subseteq snapFetch
    OBVIOUS
  <2> QED
    BY <1>1, <1>2, <1>3, <1>5, <1>6, <2>1, DataKeeps, Zenon
<1>8. UNCHANGED <<boot, log, snap, me, expired>>
  BY <1>0
<1> QED
  BY <1>0, <1>2, <1>7, <1>8, CheckKeeps, Zenon

\* A snapshot fetch ends.
LEMMA SnapKeeps ==
    ASSUME CopyInv, UNCHANGED <<me, expired>>, NEW b \in Boot, SnapError(b) \/ SnapData(b)
    PROVE  CopyInv'
<1>0. /\ b \in snapFetch /\ data \in [Boot -> DataState] /\ data[b] \in DataState
      /\ data[b].latest > 0 /\ data[b].latest \in Nat
      /\ data[b].known \in Nat /\ data[b].pending \in Nat
      /\ data[b].known <= Len(log[b]) /\ data[b].pubs \subseteq 1..Len(log[b])
      /\ PublisherInv
      /\ UNCHANGED <<boot, log, snap, me, expired>>
  BY Facts DEF SnapError, SnapData, pubVars
<1>1. /\ fetches \in [Boot \X SeqNo -> Nat] /\ \A x \in Boot \X SeqNo : fetches[x] <= fetches[x]
      /\ snapFetch \ {b} \subseteq snapFetch
  <2>1. fetches \in [Boot \X SeqNo -> Nat]
    BY Facts
  <2> QED
    BY <2>1
<1>2. CASE SnapError(b)
  <2> DEFINE e == [data[b] EXCEPT !.block = IF @ = 1 THEN 0 ELSE @]
  <2>1. ConsumeCheck([data EXCEPT ![b] = e], fetches, snapFetch \ {b}) /\ app' = app
    <3>1. [data EXCEPT ![b].block = IF @ = 1 THEN 0 ELSE @] = [data EXCEPT ![b] = e]
      BY <1>0
    <3> QED
      BY <1>2, <3>1 DEF SnapError
  <2>2. e \in DataState /\ e.latest = data[b].latest /\ e.known = data[b].known
        /\ e.pubs = data[b].pubs
    BY <1>0 DEF DataState
  <2> HIDE DEF e
  <2>3. /\ LastSeen(data, b) => Included(Valid(Replay(log[b], e.known)), Valid(app'))
        /\ ~LastSeen(data, b) => app' = app
        /\ e.known <= Len(log[b]) /\ e.pubs \subseteq 1..Len(log[b])
    BY <1>0, <2>1, <2>2, Facts
  <2>4. /\ SubscriberInv([data EXCEPT ![b] = e], fetches, snapFetch \ {b}, app')
        /\ Seen([data EXCEPT ![b] = e]) # {}
    BY <1>0, <1>1, <2>2, <2>3, DataKeeps, Zenon
  <2> QED
    BY <1>0, <2>1, <2>4, CheckKeeps, Zenon
<1>3. CASE SnapData(b)
  <2> DEFINE v == snap[b].version
             e == SnapTaken(data[b], v)
  <2>1. /\ ConsumeCheck([data EXCEPT ![b] = e], fetches, snapFetch \ {b})
        /\ app' = ApplyOps(app, snap[b].content)
        /\ data[b].block = 1 /\ data[b].known < v
    <3>1. [data EXCEPT ![b] = SnapTaken(@, v)] = [data EXCEPT ![b] = e]
      BY <1>0
    <3> QED
      BY <1>3, <3>1 DEF SnapData
  <2>2. v \in Nat /\ v <= Len(log[b])
    BY <1>0 DEF PublisherInv
  <2>3. v > 0
    BY <1>0, <2>1, <2>2
  <2>4. /\ snap[b].content.reset /\ snap[b].content.removes = {}
        /\ Included(Replay(log[b], v), snap[b].content.adds)
    BY <1>0, <2>3 DEF PublisherInv
  <2>5. /\ e \in DataState /\ e.latest = data[b].latest /\ e.known = v
        /\ e.pubs = data[b].pubs
    <3>1. MaxOf(data[b].pending, v) \in Nat
      BY <1>0, <2>2 DEF MaxOf
    <3> QED
      BY <1>0, <2>2, <3>1 DEF SnapTaken, DataState
  <2>6. LastSeen(data, b)
    BY <1>0, <2>1, Facts
  <2> HIDE DEF e, v
  <2>7. /\ DOMAIN app' = DOMAIN snap[b].content.adds
        /\ \A p \in DOMAIN app' : app'[p] = snap[b].content.adds[p]
    <3>1. DOMAIN NoPrefixes = {}
      BY DEF NoPrefixes
    <3> QED
      BY <2>1, <2>4, <3>1 DEF ApplyOps, Without, Over
  <2>8. Included(Valid(Replay(log[b], v)), Valid(app'))
    BY <2>4, <2>7 DEF Included, Valid, Without
  <2>9. /\ SubscriberInv([data EXCEPT ![b] = e], fetches, snapFetch \ {b}, app')
        /\ Seen([data EXCEPT ![b] = e]) # {}
    BY <1>0, <1>1, <2>2, <2>5, <2>6, <2>8, DataKeeps
  <2> QED
    BY <1>0, <2>1, <2>9, CheckKeeps, Zenon
<1> QED
  BY <1>2, <1>3

\* The steps of the subscriber keep the invariant.
LEMMA SubscriberKeeps ==
    ASSUME CopyInv, UNCHANGED <<me, expired>>, Subscriber
    PROVE  CopyInv'
<1>1. CASE \E b \in Boot, n \in SeqNo : Learn(b, n) \/ Receive(b, n) \/ FetchError(b, n)
  BY <1>1, LearnKeeps, FetchesKeep, FetchDataKeeps DEF Receive
<1>2. CASE \E b \in Boot : SnapError(b) \/ SnapData(b)
  BY <1>2, SnapKeeps
<1> QED
  BY <1>1, <1>2 DEF Subscriber

\* A later state of a log has the same beginning.
Extends(longer, shorter) ==
    /\ Len(shorter) <= Len(longer)
    /\ \A i \in 1..Len(shorter) : longer[i] = shorter[i]

\* What publications leave does not change when more are made.
LEMMA ReplaySame ==
    ASSUME NEW longer, NEW shorter, Extends(longer, shorter), Len(shorter) \in Nat,
           NEW n \in Nat, n <= Len(shorter)
    PROVE  Replay(longer, n) = Replay(shorter, n)
<1>1. 0 \in Nat /\ \A i \in (0 + 1)..n : longer[i] = shorter[i]
  BY DEF Extends
<1> QED
  BY <1>1, AppliedSame DEF Replay

\* Publishing takes nothing from the copy.
LEMMA SubscriberStays ==
    ASSUME CopyInv, PublisherInv', UNCHANGED <<data, fetches, snapFetch, app, expired>>,
           \A b \in Boot : Extends(log'[b], log[b])
    PROVE  CopyInv'
<1>1. \A b \in Boot : /\ data[b].known \in Nat /\ Len(log[b]) \in Nat /\ Len(log'[b]) \in Nat
                      /\ data[b].latest \in Nat /\ data[b].pubs \in SUBSET Nat
                      /\ data[b].known <= Len(log[b]) /\ Len(log[b]) <= Len(log'[b])
                      /\ data[b].latest <= Len(log[b]) /\ data[b].pubs \subseteq 1..Len(log[b])
  <2>1. \A b \in Boot : log'[b] \in Seq(PrefixOp)
    BY DEF PublisherInv
  <2>2. \A b \in Boot : Len(log'[b]) \in Nat
    BY <2>1
  <2>3. \A b \in Boot : Len(log[b]) <= Len(log'[b])
    BY DEF Extends
  <2> QED
    BY <2>2, <2>3, Facts
<1>2. ASSUME NEW b \in Boot
      PROVE  /\ data[b].known <= Len(log'[b]) /\ data[b].latest <= Len(log'[b])
             /\ data[b].pubs \subseteq 1..Len(log'[b])
  BY <1>1
<1>3. ASSUME NEW b \in Boot, LastSeen(data, b)
      PROVE  Included(Valid(Replay(log'[b], data[b].known)), Valid(app))
  <2>1. Included(Valid(Replay(log[b], data[b].known)), Valid(app))
    BY <1>3, Facts
  <2>2. Replay(log'[b], data[b].known) = Replay(log[b], data[b].known)
    BY <1>1, ReplaySame
  <2> QED
    BY <2>1, <2>2
<1>4. \A b \in Boot : LastSeen(data, b)' <=> LastSeen(data, b)
  BY DEF LastSeen
<1>5. SubscriberInv(data, fetches, snapFetch, app)'
  BY <1>2, <1>3, <1>4 DEF CopyInv, SubscriberInv, Valid, Seen
<1>6. OlderBlocked'
  BY <1>4 DEF CopyInv, OlderBlocked
<1> QED
  BY <1>5, <1>6 DEF CopyInv

\* An operation does the same to the same prefixes.
LEMMA ApplySame ==
    ASSUME NEW f, NEW g, NEW op, SameMap(f, g)
    PROVE  SameMap(ApplyOps(f, op), ApplyOps(g, op))
<1>1. CASE op.reset
  BY <1>1 DEF ApplyOps, SameMap
<1>2. CASE ~op.reset
  BY <1>2 DEF ApplyOps, SameMap, Without, Over
<1> QED
  BY <1>1, <1>2

\* One publication, of what changes.
LEMMA PublishKeeps ==
    ASSUME CopyInv, UNCHANGED <<boot, data, fetches, snapFetch, app, expired>>,
           NEW op \in PrefixOp, NEW content, Publish(op, content),
           content.reset, content.removes = {}, Included(Validities(me'), content.adds),
           SameMap(ApplyOps(Validities(me), op), Validities(me')),
           \A p \in DOMAIN me' : me'[p] \in [validity : Validity, hops : SUBSET Face]
    PROVE  CopyInv'
<1> DEFINE seq == Len(log[boot]) + 1
<1>0. /\ boot \in Boot /\ log \in [Boot -> Seq(PrefixOp)] /\ log[boot] \in Seq(PrefixOp)
      /\ DOMAIN snap = Boot /\ seq \in Nat
      /\ \A b \in Boot : Len(log[b]) \in Nat
  BY Facts DEF PublisherInv
<1>1. /\ log' = [log EXCEPT ![boot] = Append(@, op)]
      /\ \/ snap' = [snap EXCEPT ![boot] = [version |-> seq, content |-> content]]
         \/ snap' = snap
  BY DEF Publish
<1>2. log'[boot] = Append(log[boot], op) /\ \A b \in Boot \ {boot} : log'[b] = log[b]
  BY <1>0, <1>1
<1>3. /\ log'[boot] \in Seq(PrefixOp) /\ Len(log'[boot]) = seq /\ log'[boot][seq] = op
      /\ \A i \in 1..Len(log[boot]) : log'[boot][i] = log[boot][i]
  BY <1>0, <1>2
<1>4. log' \in [Boot -> Seq(PrefixOp)]
  BY <1>0, <1>1, <1>2, <1>3
<1>5. ASSUME NEW b \in Boot PROVE Extends(log'[b], log[b])
  <2>1. CASE b = boot
    BY <1>0, <1>3, <2>1 DEF Extends
  <2>2. CASE b # boot
    BY <1>0, <1>2, <2>2 DEF Extends
  <2> QED
    BY <2>1, <2>2
<1>6. SameMap(Replay(log'[boot], seq), Validities(me'))
  <2>1. Replay(log'[boot], Len(log[boot])) = Replay(log[boot], Len(log[boot]))
    <3>1. Len(log[boot]) \in Nat /\ Len(log[boot]) <= Len(log[boot]) /\ Extends(log'[boot], log[boot])
      BY <1>0, <1>5
    <3> QED
      BY <3>1, ReplaySame
  <2>2. Replay(log'[boot], seq) = ApplyOps(Replay(log'[boot], Len(log[boot])), op)
    <3>1. PICK n \in Nat : n = Len(log[boot])
      BY <1>0
    <3>2. PICK pubs : pubs = log'[boot]
      OBVIOUS
    <3>3. 0 \in Nat /\ 0 <= n
      OBVIOUS
    <3>4. Replay(pubs, n + 1) = ApplyOps(Replay(pubs, n), pubs[n + 1])
      BY <3>3, AppliedStep, Zenon DEF Replay
    <3> QED
      BY <1>3, <3>1, <3>2, <3>4
  <2>3. SameMap(Replay(log[boot], Len(log[boot])), Validities(me))
    BY Facts DEF PublisherInv
  <2>4. SameMap(Replay(log'[boot], seq), ApplyOps(Validities(me), op))
    BY <2>1, <2>2, <2>3, ApplySame
  <2> QED
    BY <2>4 DEF SameMap
<1>7. ASSUME NEW b \in Boot
      PROVE  /\ snap'[b].version \in Nat /\ snap'[b].version <= Len(log'[b])
             /\ snap'[b].version > 0 =>
                   /\ snap'[b].content.reset /\ snap'[b].content.removes = {}
                   /\ Included(Replay(log'[b], snap'[b].version), snap'[b].content.adds)
  <2>1. CASE b = boot /\ snap' # snap
    <3>1. snap'[b] = [version |-> seq, content |-> content]
      BY <1>0, <1>1, <2>1
    <3>2. snap'[b].version = seq /\ snap'[b].content = content
      BY <3>1
    <3>3. Included(Replay(log'[boot], seq), content.adds)
      BY <1>6 DEF SameMap, Included
    <3> QED
      BY <1>0, <1>3, <2>1, <3>2, <3>3
  <2>2. CASE ~(b = boot /\ snap' # snap)
    <3>1. snap'[b] = snap[b]
      BY <1>0, <1>1, <2>2
    <3>2. /\ snap[b].version \in Nat /\ snap[b].version <= Len(log[b])
          /\ snap[b].version > 0 =>
                /\ snap[b].content.reset /\ snap[b].content.removes = {}
                /\ Included(Replay(log[b], snap[b].version), snap[b].content.adds)
      BY Facts DEF PublisherInv
    <3>3. Replay(log'[b], snap[b].version) = Replay(log[b], snap[b].version)
      BY <1>0, <1>5, <3>2, ReplaySame
    <3>4. Len(log[b]) <= Len(log'[b]) /\ Len(log'[b]) \in Nat /\ Len(log[b]) \in Nat
      BY <1>0, <1>4, <1>5 DEF Extends
    <3>5. snap[b].version <= Len(log'[b])
      BY <3>2, <3>4
    <3> QED
      BY <3>1, <3>2, <3>3, <3>5
  <2> QED
    BY <2>1, <2>2
<1>8. PublisherInv'
  <2>1. DOMAIN snap' = Boot
    BY <1>0, <1>1
  <2>2. Len(log'[boot]) > 0
    BY <1>0, <1>3
  <2>3. ASSUME NEW b \in Boot, b > boot PROVE Len(log'[b]) = 0
    <3>1. b # boot /\ Len(log[b]) = 0
      BY <1>0, <2>3, Facts, BootNat DEF PublisherInv
    <3> QED
      BY <1>2, <3>1
  <2>4. boot' = boot /\ SameMap(Replay(log'[boot], Len(log'[boot])), Validities(me'))
    BY <1>3, <1>6
  <2> QED
    BY <1>0, <1>4, <1>7, <2>1, <2>2, <2>3, <2>4 DEF PublisherInv
<1> QED
  BY <1>5, <1>8, SubscriberStays

\* Nothing is published when no validity changes.
LEMMA QuietKeeps ==
    ASSUME CopyInv, UNCHANGED <<boot, log, snap, data, fetches, snapFetch, app, expired>>,
           SameMap(Validities(me), Validities(me')),
           \A p \in DOMAIN me' : me'[p] \in [validity : Validity, hops : SUBSET Face]
    PROVE  CopyInv'
<1>1. \A b \in Boot : Extends(log'[b], log[b])
  <2>1. \A b \in Boot : Len(log[b]) \in Nat
    BY Facts
  <2> QED
    BY <2>1 DEF Extends
<1>2. SameMap(Replay(log[boot], Len(log[boot])), Validities(me'))
  <2>1. SameMap(Replay(log[boot], Len(log[boot])), Validities(me))
    BY Facts DEF PublisherInv
  <2> QED
    BY <2>1 DEF SameMap
<1>3. PublisherInv'
  BY <1>2 DEF CopyInv, PublisherInv
<1> QED
  BY <1>1, <1>3, SubscriberStays

\* An announcement is published if it changes the validity period.
LEMMA AnnounceKeeps ==
    ASSUME CopyInv, NEW p \in Prefix, NEW f \in Face \cup {0}, NEW v \in Validity, Announce(p, f, v)
    PROVE  CopyInv'
<1> DEFINE hops == IF f = 0 THEN {} ELSE {f} \cup (IF p \in DOMAIN me THEN me[p].hops ELSE {})
<1>0. /\ me' = Over([q \in {p} |-> [validity |-> v, hops |-> hops]], me)
      /\ IF NeedsAdd(p, v) THEN Publish(OpAdd(p, v), Snap(me')) ELSE UNCHANGED <<log, snap>>
      /\ UNCHANGED <<boot, data, fetches, snapFetch, app, expired>>
  BY DEF Announce, copy
<1>1. \A q \in DOMAIN me : me[q] \in [validity : Validity, hops : SUBSET Face]
  BY DEF CopyInv, PublisherInv
<1>2. hops \in SUBSET Face
  BY <1>1
<1> HIDE DEF hops
<1>3. /\ DOMAIN me' = {p} \cup DOMAIN me
      /\ me'[p] = [validity |-> v, hops |-> hops]
      /\ \A q \in DOMAIN me \ {p} : me'[q] = me[q]
  BY <1>0 DEF Over
<1>4. \A q \in DOMAIN me' : me'[q] \in [validity : Validity, hops : SUBSET Face]
  BY <1>1, <1>2, <1>3
<1>5. /\ DOMAIN Validities(me') = {p} \cup DOMAIN me
      /\ Validities(me')[p] = v
      /\ \A q \in DOMAIN me \ {p} : Validities(me')[q] = me[q].validity
      /\ DOMAIN Validities(me) = DOMAIN me
      /\ \A q \in DOMAIN me : Validities(me)[q] = me[q].validity
  BY <1>3 DEF Validities
<1>6. CASE NeedsAdd(p, v)
  <2> DEFINE op == OpAdd(p, v)
  <2>1. op \in PrefixOp /\ ~op.reset /\ op.removes = {} /\ op.adds = [q \in {p} |-> v]
    <3>1. op \in PrefixOp
      BY DEF PrefixOp
    <3>2. ~op.reset /\ op.removes = {} /\ op.adds = [q \in {p} |-> v]
      BY DEF OpAdd
    <3> QED
      BY <3>1, <3>2
  <2>2. /\ DOMAIN ApplyOps(Validities(me), op) = {p} \cup DOMAIN me
        /\ ApplyOps(Validities(me), op)[p] = v
        /\ \A q \in DOMAIN me \ {p} : ApplyOps(Validities(me), op)[q] = me[q].validity
    BY <1>5, <2>1 DEF ApplyOps, Without, Over
  <2>3. SameMap(ApplyOps(Validities(me), op), Validities(me'))
    BY <1>5, <2>2 DEF SameMap
  <2>4. /\ Snap(me').reset /\ Snap(me').removes = {}
        /\ Included(Validities(me'), Snap(me').adds)
    BY DEF Snap, Included
  <2>5. Publish(op, Snap(me'))
    BY <1>0, <1>6
  <2> HIDE DEF op
  <2> QED
    BY <1>0, <1>4, <2>1, <2>3, <2>4, <2>5, PublishKeeps
<1>7. CASE ~NeedsAdd(p, v)
  <2>1. p \in DOMAIN me /\ me[p].validity = v
    BY <1>7 DEF NeedsAdd
  <2>2. SameMap(Validities(me), Validities(me'))
    BY <1>5, <2>1 DEF SameMap
  <2> QED
    BY <1>0, <1>4, <1>7, <2>2, QuietKeeps
<1> QED
  BY <1>6, <1>7

\* A removal is published, with a snapshot that may still hold the prefix.
LEMMA RemoveKeeps ==
    ASSUME CopyInv, NEW p \in Prefix, p \in DOMAIN me, RemoveEntry(p),
           UNCHANGED <<boot, data, fetches, snapFetch, app, expired>>
    PROVE  CopyInv'
<1>0. Publish(OpRemove(p), Snap(me)) /\ me' = Without(me, {p})
  BY DEF RemoveEntry
<1>1. DOMAIN me' = DOMAIN me \ {p} /\ \A q \in DOMAIN me' : me'[q] = me[q]
  BY <1>0 DEF Without
<1>2. \A q \in DOMAIN me' : me'[q] \in [validity : Validity, hops : SUBSET Face]
  BY <1>1 DEF CopyInv, PublisherInv
<1>3. /\ DOMAIN Validities(me') = DOMAIN me \ {p}
      /\ \A q \in DOMAIN me \ {p} : Validities(me')[q] = me[q].validity
      /\ DOMAIN Validities(me) = DOMAIN me
      /\ \A q \in DOMAIN me : Validities(me)[q] = me[q].validity
  BY <1>1 DEF Validities
<1> DEFINE op == OpRemove(p)
<1>4. op \in PrefixOp /\ ~op.reset /\ op.removes = {p} /\ DOMAIN op.adds = {}
  <2>1. op \in PrefixOp
    BY DEF PrefixOp
  <2>2. ~op.reset /\ op.removes = {p} /\ DOMAIN op.adds = {}
    BY DEF OpRemove, NoPrefixes
  <2> QED
    BY <2>1, <2>2
<1>5. SameMap(ApplyOps(Validities(me), op), Validities(me'))
  BY <1>3, <1>4 DEF ApplyOps, Without, Over, SameMap
<1>6. /\ Snap(me).reset /\ Snap(me).removes = {}
      /\ Included(Validities(me'), Snap(me).adds)
  BY <1>3 DEF Snap, Included
<1>7. Publish(op, Snap(me))
  BY <1>0
<1> HIDE DEF op
<1> QED
  BY <1>2, <1>4, <1>5, <1>6, <1>7, PublishKeeps

\* A reset is published.
LEMMA ResetKeeps ==
    ASSUME CopyInv, Reset
    PROVE  CopyInv'
<1>0. /\ me' = NoPrefixes /\ Publish(OpReset, Snap(NoPrefixes))
      /\ UNCHANGED <<boot, data, fetches, snapFetch, app, expired>>
  BY DEF Reset, copy
<1>1. DOMAIN NoPrefixes = {} /\ DOMAIN Validities(NoPrefixes) = {}
  BY DEF NoPrefixes, Validities
<1> DEFINE op == OpReset
           content == Snap(NoPrefixes)
<1>2. op \in PrefixOp /\ op.reset /\ op.removes = {} /\ op.adds = NoPrefixes
  BY DEF OpReset, PrefixOp
<1>3. /\ content.reset /\ content.removes = {} /\ Included(Validities(me'), content.adds)
      /\ \A p \in DOMAIN me' : me'[p] \in [validity : Validity, hops : SUBSET Face]
  BY <1>0, <1>1 DEF Snap, Included
<1>4. SameMap(ApplyOps(Validities(me), op), Validities(me'))
  BY <1>0, <1>1, <1>2 DEF ApplyOps, Without, Over, SameMap
<1>5. Publish(op, content)
  BY <1>0
<1> HIDE DEF op, content
<1> QED
  BY <1>0, <1>2, <1>3, <1>4, <1>5, PublishKeeps

\* The last face to withdraw a prefix removes it.
LEMMA WithdrawKeeps ==
    ASSUME CopyInv, NEW p \in Prefix, NEW f \in Face, Withdraw(p, f)
    PROVE  CopyInv'
<1>0. p \in DOMAIN me /\ UNCHANGED <<boot, data, fetches, snapFetch, app, expired>>
  BY DEF Withdraw, copy
<1>1. CASE RemoveEntry(p)
  BY <1>0, <1>1, RemoveKeeps
<1>2. CASE ~RemoveEntry(p)
  <2>1. me' = [me EXCEPT ![p].hops = @ \ {f}] /\ UNCHANGED <<log, snap>>
    BY <1>2 DEF Withdraw
  <2>2. \A q \in DOMAIN me : me[q] \in [validity : Validity, hops : SUBSET Face]
    BY DEF CopyInv, PublisherInv
  <2>3. /\ DOMAIN me' = DOMAIN me /\ \A q \in DOMAIN me \ {p} : me'[q] = me[q]
        /\ me'[p] = [me[p] EXCEPT !.hops = @ \ {f}]
    BY <1>0, <2>1
  <2>4. me'[p] \in [validity : Validity, hops : SUBSET Face] /\ me'[p].validity = me[p].validity
    BY <1>0, <2>2, <2>3
  <2>5. \A q \in DOMAIN me' : me'[q] \in [validity : Validity, hops : SUBSET Face]
    BY <2>2, <2>3, <2>4
  <2>6. SameMap(Validities(me), Validities(me'))
    BY <2>3, <2>4 DEF SameMap, Validities
  <2> QED
    BY <1>0, <2>1, <2>5, <2>6, QuietKeeps
<1> QED
  BY <1>1, <1>2

\* A restart publishes a reset, and the last boot heard of is an older one.
LEMMA RestartKeeps ==
    ASSUME CopyInv, RestartRouter
    PROVE  CopyInv'
<1> DEFINE new == boot + 1
<1>0. /\ boot < MaxBoot /\ boot' = new
      /\ log' = [log EXCEPT ![new] = <<OpReset>>]
      /\ snap' = [snap EXCEPT ![new] = [version |-> 1, content |-> Snap(NoPrefixes)]]
      /\ me' = NoPrefixes
      /\ UNCHANGED <<data, fetches, snapFetch, app, expired>>
  BY DEF RestartRouter, Restart, copy
<1>1. /\ boot \in Boot /\ boot \in Nat /\ new \in Boot /\ new \in Nat /\ new > boot
      /\ log \in [Boot -> Seq(PrefixOp)] /\ DOMAIN snap = Boot
      /\ \A b \in Boot : Len(log[b]) \in Nat
      /\ Len(log[new]) = 0
  <2>1. boot \in Boot /\ log \in [Boot -> Seq(PrefixOp)] /\ DOMAIN snap = Boot
        /\ \A b \in Boot : Len(log[b]) \in Nat /\ (b > boot => Len(log[b]) = 0)
    BY Facts DEF PublisherInv
  <2>2. boot \in Nat /\ new \in Boot /\ new > boot
    BY <1>0, <2>1, PrefixSyncAssumption DEF Boot
  <2> QED
    BY <2>1, <2>2
<1> HIDE DEF new
<1>2. log'[new] = <<OpReset>> /\ \A b \in Boot \ {new} : log'[b] = log[b]
  BY <1>0, <1>1
<1>3. log'[new] \in Seq(PrefixOp) /\ Len(log'[new]) = 1 /\ log'[new][1] = OpReset
  <2>1. OpReset \in PrefixOp
    BY DEF PrefixOp
  <2> QED
    BY <1>2, <2>1
<1>4. log' \in [Boot -> Seq(PrefixOp)]
  BY <1>0, <1>1, <1>2, <1>3
<1>5. ASSUME NEW b \in Boot PROVE Extends(log'[b], log[b])
  <2>1. CASE b = new
    BY <1>1, <1>3, <2>1 DEF Extends
  <2>2. CASE b # new
    <3>1. log'[b] = log[b] /\ Len(log[b]) \in Nat
      BY <1>1, <1>2, <2>2
    <3> QED
      BY <3>1 DEF Extends
  <2> QED
    BY <2>1, <2>2
<1>6. DOMAIN NoPrefixes = {} /\ DOMAIN Validities(NoPrefixes) = {}
  BY DEF NoPrefixes, Validities
<1>7. Replay(log'[new], 1) = ApplyOps(NoPrefixes, OpReset)
  <2>1. PICK pubs : pubs = log'[new]
    OBVIOUS
  <2>2. 0 \in Nat /\ 0 <= 0 /\ 0 + 1 = 1
    OBVIOUS
  <2>3. Replay(pubs, 0 + 1) = ApplyOps(Replay(pubs, 0), pubs[0 + 1])
    BY <2>2, AppliedStep, Zenon DEF Replay
  <2>4. Replay(pubs, 0) = NoPrefixes
    BY <2>2, AppliedBase, Zenon DEF Replay
  <2> QED
    BY <1>3, <2>1, <2>2, <2>3, <2>4
<1>8. DOMAIN Replay(log'[new], 1) = {}
  BY <1>6, <1>7 DEF ApplyOps, OpReset, Without, Over
<1>9. ASSUME NEW b \in Boot
      PROVE  /\ snap'[b].version \in Nat /\ snap'[b].version <= Len(log'[b])
             /\ snap'[b].version > 0 =>
                   /\ snap'[b].content.reset /\ snap'[b].content.removes = {}
                   /\ Included(Replay(log'[b], snap'[b].version), snap'[b].content.adds)
  <2>1. CASE b = new
    <3>1. snap'[b] = [version |-> 1, content |-> Snap(NoPrefixes)]
      BY <1>0, <1>1, <2>1
    <3>2. Snap(NoPrefixes).reset /\ Snap(NoPrefixes).removes = {}
      BY DEF Snap
    <3>3. Included(Replay(log'[b], 1), Snap(NoPrefixes).adds)
      BY <1>8, <2>1 DEF Included
    <3> QED
      BY <1>3, <2>1, <3>1, <3>2, <3>3
  <2>2. CASE b # new
    <3>1. snap'[b] = snap[b] /\ log'[b] = log[b]
      BY <1>0, <1>1, <1>2, <2>2
    <3> QED
      BY <3>1 DEF CopyInv, PublisherInv
  <2> QED
    BY <2>1, <2>2
<1>10. PublisherInv'
  <2>1. DOMAIN snap' = Boot /\ Len(log'[new]) > 0
    BY <1>0, <1>1, <1>3
  <2>2. ASSUME NEW b \in Boot, b > new PROVE Len(log'[b]) = 0
    <3>1. b # new /\ b > boot
      BY <1>1, <2>2, BootNat
    <3>2. Len(log[b]) = 0
      BY <3>1 DEF CopyInv, PublisherInv
    <3> QED
      BY <1>2, <3>1, <3>2
  <2>3. SameMap(Replay(log'[new], Len(log'[new])), Validities(me'))
    BY <1>0, <1>3, <1>6, <1>8 DEF SameMap
  <2>4. \A p \in DOMAIN me' : me'[p] \in [validity : Validity, hops : SUBSET Face]
    BY <1>0, <1>6
  <2>5. boot' = new /\ new \in Boot
    BY <1>0, <1>1
  <2>6. /\ boot' \in Boot /\ Len(log'[boot']) > 0
        /\ \A b \in Boot : b > boot' => Len(log'[b]) = 0
        /\ SameMap(Replay(log'[boot'], Len(log'[boot'])), Validities(me'))
    BY <2>1, <2>2, <2>3, <2>5
  <2> QED
    BY <1>4, <1>9, <2>1, <2>4, <2>6 DEF PublisherInv
<1> QED
  BY <1>0, <1>5, <1>10, SubscriberStays

\* The end of a validity period, and what is dropped after it.
LEMMA ExpiryKeeps ==
    ASSUME CopyInv, (\E p \in Prefix : PruneCopy(p)) \/ (\E v \in Validity : Expire(v))
    PROVE  CopyInv'
<1>1. /\ UNCHANGED <<boot, log, snap, data, fetches, snapFetch, me>>
      /\ expired \subseteq expired'
      /\ \/ app' = app
         \/ \E p \in DOMAIN app : app[p] \in expired' /\ app' = Without(app, {p})
  BY DEF PruneCopy, Expire, copy
<1>2. ASSUME NEW r, Included(Valid(r), Valid(app))
      PROVE  Included(Valid(r)', Valid(app)')
  <2>1. \A p : p \in DOMAIN r /\ r[p] \notin expired => p \in DOMAIN app /\ app[p] = r[p]
    BY <1>2 DEF Included, Valid, Without
  <2>2. ASSUME NEW p \in DOMAIN r, r[p] \notin expired'
        PROVE  p \in DOMAIN app' /\ app'[p] = r[p]
    <3>1. p \in DOMAIN app /\ app[p] = r[p]
      BY <1>1, <2>1, <2>2
    <3> QED
      BY <1>1, <2>2, <3>1 DEF Without
  <2> QED
    BY <2>2 DEF Included, Valid, Without
<1>3. PublisherInv'
  BY <1>1 DEF CopyInv, PublisherInv
<1>4. \A b \in Boot : LastSeen(data, b)' <=> LastSeen(data, b)
  BY <1>1 DEF LastSeen
<1>5. ASSUME NEW b \in Boot, LastSeen(data, b)
      PROVE  Included(Valid(Replay(log[b], data[b].known)), Valid(app))'
  <2>1. Included(Valid(Replay(log[b], data[b].known)), Valid(app))
    BY <1>5, Facts
  <2>2. PICK r : r = Replay(log[b], data[b].known)
    OBVIOUS
  <2>3. Included(Valid(r), Valid(app))
    BY <2>1, <2>2
  <2>4. Included(Valid(r)', Valid(app)')
    BY <1>2, <2>3
  <2> QED
    BY <1>1, <2>2, <2>4 DEF Valid
<1>6. SubscriberInv(data, fetches, snapFetch, app)'
  BY <1>1, <1>4, <1>5 DEF CopyInv, SubscriberInv, Seen
<1>7. OlderBlocked'
  BY <1>1, <1>4 DEF CopyInv, OlderBlocked
<1> QED
  BY <1>3, <1>6, <1>7 DEF CopyInv

\* Every step keeps the invariant.
LEMMA CopyInvNext ==
    ASSUME CopyInv, Next
    PROVE  CopyInv'
<1>1. CASE Own
  <2>1. CASE \E p \in Prefix : WithdrawRoute(p) \/ PruneOwn(p)
    BY <2>1, RemoveKeeps DEF WithdrawRoute, PruneOwn, copy
  <2> QED
    BY <1>1, <2>1, AnnounceKeeps, WithdrawKeeps, ResetKeeps, RestartKeeps DEF Own
<1>2. CASE (\E p \in Prefix : PruneCopy(p)) \/ (\E v \in Validity : Expire(v))
  BY <1>2, ExpiryKeeps
<1>3. CASE Subscriber /\ UNCHANGED <<me, expired>>
  BY <1>3, SubscriberKeeps
<1> QED
  BY <1>1, <1>2, <1>3 DEF Next

\* The invariant holds at first.
LEMMA CopyInvInit == Init => CopyInv
<1> SUFFICES ASSUME Init PROVE CopyInv
  OBVIOUS
<1>0. /\ boot = 1
      /\ log = [b \in Boot |-> IF b = 1 THEN <<OpReset>> ELSE <<>>]
      /\ snap = [b \in Boot |-> IF b = 1 THEN [version |-> 1, content |-> Snap(NoPrefixes)] ELSE NoSnap]
      /\ data = [b \in Boot |-> NoData]
      /\ fetches = [x \in Boot \X SeqNo |-> 0]
      /\ snapFetch = {} /\ app = NoPrefixes /\ me = NoPrefixes
  BY DEF Init, AloInit
<1>1. 1 \in Boot
  BY PrefixSyncAssumption DEF Boot
<1>2. /\ log[1] = <<OpReset>> /\ \A b \in Boot \ {1} : log[b] = <<>>
      /\ snap[1] = [version |-> 1, content |-> Snap(NoPrefixes)]
      /\ \A b \in Boot \ {1} : snap[b] = NoSnap
      /\ \A b \in Boot : data[b] = NoData
  BY <1>0, <1>1
<1>3. log \in [Boot -> Seq(PrefixOp)]
  <2>1. OpReset \in PrefixOp
    BY DEF PrefixOp
  <2> QED
    BY <1>0, <2>1
<1>4. Len(log[1]) = 1 /\ log[1][1] = OpReset /\ \A b \in Boot \ {1} : Len(log[b]) = 0
  BY <1>2
<1>5. DOMAIN NoPrefixes = {} /\ DOMAIN Validities(NoPrefixes) = {}
  BY DEF NoPrefixes, Validities
<1>6. DOMAIN Replay(log[1], 1) = {}
  <2>1. PICK pubs : pubs = log[1]
    OBVIOUS
  <2>2. 0 \in Nat /\ 0 <= 0 /\ 0 + 1 = 1
    OBVIOUS
  <2>3. Replay(pubs, 0 + 1) = ApplyOps(Replay(pubs, 0), pubs[0 + 1])
    BY <2>2, AppliedStep, Zenon DEF Replay
  <2>4. Replay(pubs, 0) = NoPrefixes
    BY <2>2, AppliedBase, Zenon DEF Replay
  <2>5. Replay(log[1], 1) = ApplyOps(NoPrefixes, OpReset)
    BY <1>4, <2>1, <2>2, <2>3, <2>4
  <2> QED
    BY <1>5, <2>5 DEF ApplyOps, OpReset, Without, Over
<1>7. ASSUME NEW b \in Boot
      PROVE  /\ snap[b].version \in Nat /\ snap[b].version <= Len(log[b])
             /\ snap[b].version > 0 =>
                   /\ snap[b].content.reset /\ snap[b].content.removes = {}
                   /\ Included(Replay(log[b], snap[b].version), snap[b].content.adds)
  <2>1. CASE b = 1
    <3>1. Snap(NoPrefixes).reset /\ Snap(NoPrefixes).removes = {}
      BY DEF Snap
    <3>2. Included(Replay(log[1], 1), Snap(NoPrefixes).adds)
      BY <1>6 DEF Included
    <3> QED
      BY <1>2, <1>4, <2>1, <3>1, <3>2
  <2>2. CASE b # 1
    BY <1>2, <1>4, <2>2 DEF NoSnap
  <2> QED
    BY <2>1, <2>2
<1>8. PublisherInv
  <2>1. SameMap(Replay(log[boot], Len(log[boot])), Validities(me))
    BY <1>0, <1>4, <1>5, <1>6 DEF SameMap
  <2>2. \A b \in Boot : b > boot => Len(log[b]) = 0
    BY <1>0, <1>4
  <2>3. \A p \in DOMAIN me : me[p] \in [validity : Validity, hops : SUBSET Face]
    BY <1>0, <1>5
  <2>4. DOMAIN snap = Boot /\ boot \in Boot /\ Len(log[boot]) > 0
    BY <1>0, <1>1, <1>4
  <2> QED
    BY <1>3, <1>7, <2>1, <2>2, <2>3, <2>4 DEF PublisherInv
<1>9. data \in [Boot -> DataState]
  <2>1. NoData \in DataState
    BY DEF NoData, DataState
  <2> QED
    BY <1>0, <2>1
<1>10. \A b \in Boot : data[b].known = 0 /\ data[b].latest = 0 /\ data[b].pubs = {}
  BY <1>2 DEF NoData
<1>11. \A b \in Boot : Len(log[b]) \in Nat
  BY <1>1, <1>4
<1>12. SubscriberInv(data, fetches, snapFetch, app)
  <2>1. \A b \in Boot : ~LastSeen(data, b)
    BY <1>10 DEF LastSeen
  <2>2. fetches \in [Boot \X SeqNo -> Nat] /\ \A b \in Boot, n \in SeqNo : fetches[<<b, n>>] = 0
    BY <1>0
  <2> QED
    BY <1>0, <1>9, <1>10, <1>11, <2>1, <2>2 DEF SubscriberInv
<1>13. OlderBlocked
  BY <1>10 DEF OlderBlocked
<1> QED
  BY <1>8, <1>12, <1>13 DEF CopyInv

\* The invariant implies the property.
LEMMA CopyInvLacksNothing == CopyInv => CopyLacksNothing
<1> SUFFICES ASSUME CopyInv PROVE CopyLacksNothing
  OBVIOUS
<1>0. \A b \in Boot : /\ data[b].known \in Nat /\ data[b].latest \in Nat
                      /\ data[b].latest = 0 => data[b].known = 0
  BY Facts DEF CopyInv, SubscriberInv
<1>1. ASSUME NEW b \in Boot, Heard(b)
      PROVE  Included(Valid(Replay(log[b], data[b].known)), Valid(app))
  <2>1. LastSeen(data, b)
    BY <1>0, <1>1 DEF Heard, LastSeen
  <2> QED
    BY <2>1, Facts
<1>2. ASSUME data[boot].known = Len(log[boot])
      PROVE  Included(Valid(Validities(me)), Valid(app))
  <2>1. /\ boot \in Boot /\ Len(log[boot]) > 0 /\ Len(log[boot]) \in Nat
        /\ \A b \in Boot : b > boot => Len(log[b]) = 0
        /\ SameMap(Replay(log[boot], Len(log[boot])), Validities(me))
    BY Facts DEF PublisherInv
  <2>2. \A b \in Boot : b > boot => data[b].latest = 0
    BY <1>0, <2>1, Facts
  <2>3. Heard(boot)
    BY <1>2, <2>1, <2>2 DEF Heard
  <2>4. Included(Valid(Replay(log[boot], Len(log[boot]))), Valid(app))
    BY <1>1, <1>2, <2>1, <2>3
  <2> QED
    BY <2>1, <2>4 DEF SameMap, Included, Valid, Without
<1> QED
  BY <1>1, <1>2 DEF CopyLacksNothing

\* When the behaviour is one of SVS, there is nothing to copy.
LEMMA UnpublishedLacksNothing == Unpublished => CopyLacksNothing
<1> SUFFICES ASSUME Unpublished PROVE CopyLacksNothing
  OBVIOUS
<1>1. DOMAIN me = {} /\ DOMAIN Validities(me) = {}
  BY DEF Unpublished, NoPrefixes, Validities
<1>2. \A b \in Boot : ~Heard(b)
  BY DEF Unpublished, NoData, Heard
<1>3. Included(Valid(Validities(me)), Valid(app))
  BY <1>1 DEF Included, Valid, Without
<1> QED
  BY <1>2, <1>3 DEF CopyLacksNothing

\* A router's copy of another router's prefixes lacks nothing that the
\* publications it covers leave valid, and nothing of the router's own prefixes
\* once it covers them all, whatever is lost, late or fetched twice, and through
\* restarts, snapshots and expiry (consumeCheck, consumeObject, handleSnap,
\* PrefixEgreState.Apply and Snap).
THEOREM CopyComplete == SyncSpec => []CopyLacksNothing
<1> DEFINE Inv == \/ layer = "prefixes" /\ CopyInv
                  \/ layer = "svs" /\ Unpublished
           allVars == <<layer, vars, svsVars>>
<1>1. SyncInit => Inv
  BY CopyInvInit DEF SyncInit
<1>2. Inv /\ [SyncNext]_allVars => Inv'
  <2> SUFFICES ASSUME Inv, [SyncNext]_allVars PROVE Inv'
    OBVIOUS
  <2>1. CASE layer = "prefixes" /\ Next /\ UNCHANGED <<layer, svsVars>>
    BY <2>1, CopyInvNext
  <2>2. CASE UNCHANGED <<layer, vars>>
    <3>1. UNCHANGED <<layer, boot, log, snap, data, fetches, snapFetch, app, me, expired>>
      BY <2>2 DEF vars
    <3>2. CopyInv => CopyInv'
      BY <3>1 DEF CopyInv, PublisherInv, SubscriberInv, OlderBlocked, LastSeen, Seen, Valid
    <3>3. Unpublished => Unpublished'
      BY <3>1 DEF Unpublished
    <3> QED
      BY <3>1, <3>2, <3>3
  <2> QED
    BY <2>1, <2>2 DEF SyncNext
<1>3. Inv => CopyLacksNothing
  BY CopyInvLacksNothing, UnpublishedLacksNothing
<1> QED
  BY <1>1, <1>2, <1>3, PTL DEF SyncSpec
=============================================================================
