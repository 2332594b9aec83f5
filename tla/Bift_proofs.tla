---------------------------- MODULE Bift_proofs ----------------------------
(***************************************************************************)
(* Proofs about Bift for any number of routers, bit positions, faces and   *)
(* forwarding threads.                                                     *)
(***************************************************************************)
EXTENDS Bift, TLAPS

\* While a rebuild is under way nothing unregisters, so the snapshot's
\* BFR-IDs still have a router when their next hop is looked up.
TodoRegistered == mgmt.todo \subseteq Registered

TypeInv == BiftTypeOK /\ TodoRegistered

\* The faces of the best next hops are faces.
LEMMA BestFacesType ==
    ASSUME NEW H \in SUBSET FibNextHop
    PROVE  BestFaces(H) \subseteq BiftFace
  BY DEF BestFaces, FibNextHop

\* GetNeighborEntries pairs faces with masks.
LEMMA NeighborEntriesType == NeighborEntries \subseteq [BiftFace -> Bits]
  BY DEF NeighborEntries

\* The steps of the environment and the management thread keep the types.
LEMMA TypeMgmt ==
    ASSUME TypeInv,
           \/ \E r \in Router, f \in BiftFace, c \in Cost : InsertNextHop(r, f, c)
           \/ \E r \in Router, f \in BiftFace : RemoveNextHop(r, f)
           \/ \E r \in Router, i \in BfrId : RegisterRouter(r, i)
           \/ BuildFromFibPet
           \/ MgmtStep
    PROVE  TypeInv'
<1> USE BiftAssumption DEF TypeInv, BiftTypeOK, TodoRegistered, Registered
<1>1. CASE \E r \in Router, f \in BiftFace, c \in Cost : InsertNextHop(r, f, c)
  BY <1>1 DEF InsertNextHop, Change, FibNextHop
<1>2. CASE \E r \in Router, f \in BiftFace : RemoveNextHop(r, f)
  BY <1>2 DEF RemoveNextHop, Change
<1>3. CASE \E r \in Router, i \in BfrId : RegisterRouter(r, i)
  <2> PICK r \in Router, i \in BfrId : RegisterRouter(r, i)
    BY <1>3
  <2>1. [Unregistered EXCEPT !.router = r] \in BiftEntry
    BY DEF Unregistered, BiftEntry, NextHop, Bits
  <2>2. entries' \in [BfrId -> BiftEntry]
    BY <2>1 DEF RegisterRouter
  <2>3. entries'[i].router = r /\ \A j \in BfrId \ {i} : entries'[j] = entries[j]
    BY DEF RegisterRouter, Unregistered
  <2>4. QED
    BY <2>2, <2>3 DEF RegisterRouter, Change, Bits
<1>4. CASE BuildFromFibPet
  BY <1>4 DEF BuildFromFibPet, MgmtState, Bits
<1>5. CASE \E i \in BfrId : LookupNextHop(i)
  <2> PICK i \in BfrId : LookupNextHop(i)
    BY <1>5
  <2>1. fib[entries[i].router] \in SUBSET FibNextHop
    BY DEF LookupNextHop, BiftEntry
  <2>2. BestFaces(fib[entries[i].router]) \subseteq NextHop
    BY <2>1, BestFacesType DEF NextHop
  <2>3. mgmt' \in MgmtState /\ mgmt'.todo \subseteq mgmt.todo
    <3>1. CASE mgmt' = [mgmt EXCEPT !.todo = @ \ {i}]
      BY <3>1 DEF MgmtState, Bits
    <3>2. ASSUME NEW f \in NextHop,
                 mgmt' = [mgmt EXCEPT !.pc = "update", !.todo = @ \ {i},
                                      !.id = i, !.hop = f]
          PROVE  mgmt' \in MgmtState /\ mgmt'.todo \subseteq mgmt.todo
      BY <3>2 DEF MgmtState, Bits
    <3>3. QED
      BY <2>2, <3>1, <3>2 DEF LookupNextHop
  <2>4. QED
    BY <2>3 DEF LookupNextHop
<1>6. CASE UpdateNextHop
  <2>1. mgmt.id \in BfrId /\ mgmt.hop \in NextHop /\ mgmt.todo \in Bits
    BY DEF MgmtState
  <2>2. /\ entries' \in [BfrId -> BiftEntry]
        /\ \A j \in BfrId : entries'[j].router = entries[j].router
    BY <1>6, <2>1 DEF UpdateNextHop, BiftEntry
  <2>3. mgmt' \in MgmtState /\ mgmt'.todo = mgmt.todo
    BY <1>6, <2>1 DEF UpdateNextHop, MgmtState, MgmtIdle, NextHop, Bits
  <2>4. QED
    BY <1>6, <2>2, <2>3 DEF UpdateNextHop
<1>7. CASE RebuildFbm
  <2>1. \A j \in BfrId : FaceGroup(entries[j].nextHop) \in Bits
    BY DEF FaceGroup, Bits
  <2>2. entries' \in [BfrId -> BiftEntry]
    BY <1>7, <2>1 DEF RebuildFbm, BiftEntry
  <2>3. MgmtIdle \in MgmtState /\ MgmtIdle.todo = {}
    BY DEF MgmtIdle, MgmtState, Bits, NextHop
  <2>4. QED
    BY <1>7, <2>2, <2>3 DEF RebuildFbm
<1>8. QED
  BY <1>1, <1>2, <1>3, <1>4, <1>5, <1>6, <1>7 DEF MgmtStep

\* The steps of a forwarding thread keep its state's type.
LEMMA TypeThread ==
    ASSUME TypeInv, NEW t \in Thread,
           \/ \E f \in BiftFace, bs \in BitString : ReceiveBier(t, f, bs)
           \/ \E e \in Egress : EncodeBier(t, e)
           \/ ThreadStep(t)
    PROVE  TypeInv'
<1> USE BiftAssumption DEF TypeInv, BiftTypeOK, TodoRegistered, Registered
<1>1. ASSUME NEW f \in NextHop, NEW bs \in Bits, StartReplication(t, f, bs)
      PROVE  TypeInv'
  <2> PICK nbrs \in NeighborEntries :
         thr' = [thr EXCEPT ![t] =
                    [pc |-> "replicate", inFace |-> f, incoming |-> bs,
                     bits |-> WithoutLocal(bs), nbrs |-> nbrs,
                     todo |-> {g \in BiftFace : nbrs[g] # {}},
                     sent |-> [g \in BiftFace |-> {}]]]
    BY <1>1 DEF StartReplication
  <2>1. nbrs \in [BiftFace -> Bits]
    BY NeighborEntriesType
  <2>2. WithoutLocal(bs) \in Bits
    BY DEF WithoutLocal, Bits
  <2>3. thr' \in [Thread -> ThreadState]
    BY <2>1, <2>2 DEF ThreadState, Bits
  <2>4. QED
    BY <1>1, <2>3 DEF StartReplication
<1>2. ASSUME NEW f \in BiftFace, ReplicateTo(t, f)
      PROVE  TypeInv'
  <2> DEFINE th == thr[t]
             mask == th.bits \cap th.nbrs[f]
  <2>1. th \in ThreadState /\ mask \in Bits
    BY DEF ThreadState, Bits
  <2>2. CASE thr' = [thr EXCEPT ![t].todo = @ \ {f}]
    <3>1. thr' \in [Thread -> ThreadState]
      BY <2>1, <2>2 DEF ThreadState
    <3>2. QED
      BY <1>2, <3>1 DEF ReplicateTo
  <2>3. CASE thr' = [thr EXCEPT ![t].todo = @ \ {f}, ![t].sent[f] = mask,
                                ![t].bits = Remaining(@, th.nbrs[f])]
    <3>1. Remaining(th.bits, th.nbrs[f]) \in Bits
      BY <2>1 DEF Remaining, ThreadState, Bits
    <3>2. [th EXCEPT !.todo = @ \ {f}, !.sent[f] = mask,
                     !.bits = Remaining(th.bits, th.nbrs[f])] \in ThreadState
      BY <2>1, <3>1 DEF ThreadState
    <3>3. thr' \in [Thread -> ThreadState]
      BY <2>3, <3>2
    <3>4. QED
      BY <1>2, <3>3 DEF ReplicateTo
  <2>4. QED
    BY <1>2, <2>2, <2>3 DEF ReplicateTo
<1>3. ASSUME EndReplication(t)
      PROVE  TypeInv'
  <2>1. ThreadIdle \in ThreadState
    BY DEF ThreadIdle, ThreadState, NextHop, Bits
  <2>2. QED
    BY <1>3, <2>1 DEF EndReplication
<1>4. \A e \in Egress : BuildBierBitString(e) \in Bits
  BY DEF BuildBierBitString, Bits
<1>5. BiftFace \subseteq NextHop /\ 0 \in NextHop /\ BitString \subseteq Bits
  BY DEF NextHop, Bits
<1>6. CASE \E f \in BiftFace, bs \in BitString : ReceiveBier(t, f, bs)
  BY <1>1, <1>5, <1>6 DEF ReceiveBier
<1>7. CASE \E e \in Egress : EncodeBier(t, e)
  BY <1>1, <1>4, <1>5, <1>7 DEF EncodeBier
<1>8. QED
  BY <1>2, <1>3, <1>6, <1>7 DEF ThreadStep

\* The type invariant with its strengthening is inductive.
LEMMA TypeInvariant == BiftSpec => []TypeInv
<1>1. BiftInit => TypeInv
  <2>1. Unregistered \in BiftEntry
    BY DEF Unregistered, BiftEntry, NextHop, Bits
  <2>2. MgmtIdle \in MgmtState /\ MgmtIdle.todo = {}
    BY BiftAssumption DEF MgmtIdle, MgmtState, NextHop, Bits
  <2>3. ThreadIdle \in ThreadState
    BY DEF ThreadIdle, ThreadState, NextHop, Bits
  <2> SUFFICES ASSUME BiftInit PROVE TypeInv
    OBVIOUS
  <2>4. fibMoved \in BOOLEAN /\ mgmt \in MgmtState /\ mgmt.todo = {}
    BY <2>2 DEF BiftInit
  <2>5. /\ entries \in [BfrId -> BiftEntry]
        /\ routerBit \in [Router -> Bits]
        /\ fib \in [Router -> SUBSET FibNextHop]
        /\ thr \in [Thread -> ThreadState]
        /\ changes \in Nat
    BY <2>1, <2>3 DEF BiftInit, Bits
  <2>6. QED
    BY <2>4, <2>5 DEF TypeInv, BiftTypeOK, TodoRegistered
<1>2. TypeInv /\ [BiftNext]_biftVars => TypeInv'
  <2> SUFFICES ASSUME TypeInv, [BiftNext]_biftVars
               PROVE  TypeInv'
    OBVIOUS
  <2>1. CASE UNCHANGED biftVars
    BY <2>1 DEF biftVars, TypeInv, BiftTypeOK, TodoRegistered, Registered
  <2>2. CASE BiftNext
    BY <2>2, TypeMgmt, TypeThread DEF BiftNext
  <2>3. QED
    BY <2>1, <2>2
<1>3. QED
  BY <1>1, <1>2, PTL DEF BiftSpec

\* Type correctness: in every reachable state of the BIFT and the threads
\* that use it, every variable has its type.
THEOREM TypeCorrect == BiftSpec => []BiftTypeOK
<1>1. TypeInv => BiftTypeOK
  BY DEF TypeInv
<1>2. QED
  BY <1>1, TypeInvariant, PTL

----------------------------------------------------------------------------
(***************************************************************************)
(* Replication.  The loop invariant of bierReplicate: the working bits are *)
(* incoming bits, sent copies share no bit with one another or with the    *)
(* working bits, every incoming bit is still in the working bits or in a   *)
(* copy, and a neighbour that has been visited leads to none of the        *)
(* working bits.                                                           *)
(***************************************************************************)

LoopInv(th) ==
    /\ th.bits \subseteq th.incoming \ {LocalId}
    /\ \A f \in BiftFace :
          /\ th.sent[f] \subseteq th.incoming \ {LocalId}
          /\ th.sent[f] \cap th.bits = {}
          /\ \A g \in BiftFace \ {f} : th.sent[f] \cap th.sent[g] = {}
          /\ f = th.inFace \/ f \in th.todo => th.sent[f] = {}
          /\ f # th.inFace /\ f \notin th.todo => th.nbrs[f] \cap th.bits = {}
    /\ \A i \in th.incoming \ {LocalId} :
          i \in th.bits \/ \E g \in BiftFace : i \in th.sent[g]

ReplicationInv == \A t \in Thread : LoopInv(thr[t])

\* A thread that does nothing satisfies the loop invariant.
LEMMA LoopIdle == LoopInv(ThreadIdle)
  BY DEF LoopInv, ThreadIdle

\* So does one that enters the loop.
LEMMA LoopStart ==
    ASSUME NEW inFace \in NextHop, NEW bs \in Bits, NEW nbrs \in [BiftFace -> Bits]
    PROVE  LoopInv([pc |-> "replicate", inFace |-> inFace, incoming |-> bs,
                    bits |-> WithoutLocal(bs), nbrs |-> nbrs,
                    todo |-> {f \in BiftFace : nbrs[f] # {}},
                    sent |-> [f \in BiftFace |-> {}]])
  BY DEF LoopInv, WithoutLocal, Bits

\* An iteration that skips its neighbour keeps the loop invariant.
LEMMA LoopSkip ==
    ASSUME NEW th \in ThreadState, NEW f \in BiftFace, LoopInv(th),
           f = th.inFace \/ th.bits \cap th.nbrs[f] = {}
    PROVE  LoopInv([th EXCEPT !.todo = @ \ {f}])
  BY DEF LoopInv, ThreadState, Bits

\* An iteration that sends a copy keeps the loop invariant.
LEMMA LoopSend ==
    ASSUME NEW th \in ThreadState, NEW f \in BiftFace, LoopInv(th),
           f # th.inFace, f \in th.todo,
           NEW nt, nt = [th EXCEPT !.todo = @ \ {f},
                                   !.sent[f] = th.bits \cap th.nbrs[f],
                                   !.bits = Remaining(@, th.nbrs[f])]
    PROVE  LoopInv(nt)
<1> USE DEF ThreadState, Bits
<1>1. /\ nt.todo = th.todo \ {f}
      /\ nt.bits = th.bits \ th.nbrs[f]
      /\ nt.inFace = th.inFace /\ nt.incoming = th.incoming /\ nt.nbrs = th.nbrs
      /\ nt.sent[f] = th.bits \cap th.nbrs[f]
      /\ \A g \in BiftFace \ {f} : nt.sent[g] = th.sent[g]
  BY DEF Remaining
<1>2. nt.bits \subseteq nt.incoming \ {LocalId}
  BY <1>1 DEF LoopInv
<1>3. ASSUME NEW g \in BiftFace
      PROVE  /\ nt.sent[g] \subseteq nt.incoming \ {LocalId}
             /\ nt.sent[g] \cap nt.bits = {}
             /\ g = nt.inFace \/ g \in nt.todo => nt.sent[g] = {}
             /\ g # nt.inFace /\ g \notin nt.todo => nt.nbrs[g] \cap nt.bits = {}
  <2>1. CASE g = f
    BY <1>1, <2>1 DEF LoopInv
  <2>2. CASE g # f
    BY <1>1, <2>2 DEF LoopInv
  <2>3. QED
    BY <2>1, <2>2
<1>4. ASSUME NEW g \in BiftFace, NEW h \in BiftFace \ {g}
      PROVE  nt.sent[g] \cap nt.sent[h] = {}
  BY <1>1 DEF LoopInv
<1>5. ASSUME NEW i \in nt.incoming \ {LocalId}
      PROVE  i \in nt.bits \/ \E g \in BiftFace : i \in nt.sent[g]
  <2>1. CASE i \in th.bits
    BY <1>1, <2>1
  <2>2. CASE i \notin th.bits
    <3> PICK g \in BiftFace : i \in th.sent[g]
      BY <1>1, <2>2 DEF LoopInv
    <3>1. g # f
      BY DEF LoopInv
    <3>2. QED
      BY <1>1, <3>1
  <2>3. QED
    BY <2>1, <2>2
<1>6. QED
  BY <1>2, <1>3, <1>4, <1>5 DEF LoopInv

\* A step of a forwarding thread keeps the loop invariant of every thread.
LEMMA ReplicationStep ==
    ASSUME TypeInv, ReplicationInv, NEW t \in Thread,
           \/ \E f \in BiftFace, bs \in BitString : ReceiveBier(t, f, bs)
           \/ \E e \in Egress : EncodeBier(t, e)
           \/ ThreadStep(t)
    PROVE  ReplicationInv'
<1> USE DEF ReplicationInv
<1>1. thr \in [Thread -> ThreadState]
  BY DEF TypeInv, BiftTypeOK
<1>2. ASSUME NEW x, thr' = [thr EXCEPT ![t] = x], LoopInv(x)
      PROVE  ReplicationInv'
  BY <1>1, <1>2 DEF LoopInv
<1>3. ASSUME NEW f \in NextHop, NEW bs \in Bits, StartReplication(t, f, bs)
      PROVE  ReplicationInv'
  BY <1>2, <1>3, LoopStart, NeighborEntriesType DEF StartReplication
<1>4. ASSUME NEW f \in BiftFace, ReplicateTo(t, f)
      PROVE  ReplicationInv'
  <2> DEFINE th == thr[t]
  <2>1. th \in ThreadState /\ LoopInv(th)
    BY <1>1
  <2>2. CASE /\ f = th.inFace \/ th.bits \cap th.nbrs[f] = {}
             /\ thr' = [thr EXCEPT ![t].todo = @ \ {f}]
    <3>1. LoopInv([th EXCEPT !.todo = @ \ {f}])
      BY <2>1, <2>2, LoopSkip
    <3>2. QED
      BY <1>2, <2>2, <3>1
  <2>3. CASE /\ f # th.inFace
             /\ thr' = [thr EXCEPT ![t].todo = @ \ {f},
                                   ![t].sent[f] = th.bits \cap th.nbrs[f],
                                   ![t].bits = Remaining(@, th.nbrs[f])]
    <3> DEFINE nt == [th EXCEPT !.todo = @ \ {f},
                                !.sent[f] = th.bits \cap th.nbrs[f],
                                !.bits = Remaining(@, th.nbrs[f])]
    <3>1. f \in th.todo
      BY <1>4 DEF ReplicateTo
    <3>2. LoopInv(nt)
      BY <2>1, <2>3, <3>1, LoopSend
    <3>3. thr' = [thr EXCEPT ![t] = nt]
      BY <1>1, <2>3 DEF ThreadState
    <3>4. QED
      BY <1>2, <3>2, <3>3
  <2>4. QED
    BY <1>4, <2>2, <2>3 DEF ReplicateTo
<1>5. CASE EndReplication(t)
  BY <1>2, <1>5, LoopIdle DEF EndReplication
<1>6. /\ \A e \in Egress : BuildBierBitString(e) \in Bits
      /\ BiftFace \subseteq NextHop /\ 0 \in NextHop /\ BitString \subseteq Bits
  BY BiftAssumption DEF TypeInv, BiftTypeOK, BuildBierBitString, NextHop, Bits
<1>7. CASE \E f \in BiftFace, bs \in BitString : ReceiveBier(t, f, bs)
  BY <1>3, <1>6, <1>7 DEF ReceiveBier
<1>8. CASE \E e \in Egress : EncodeBier(t, e)
  BY <1>3, <1>6, <1>8 DEF EncodeBier
<1>9. QED
  BY <1>4, <1>5, <1>7, <1>8 DEF ThreadStep

\* The management thread and the FIB leave the threads' states alone: they
\* work on copies of the masks.
LEMMA ReplicationOthers ==
    ASSUME ReplicationInv,
           \/ \E r \in Router, f \in BiftFace, c \in Cost : InsertNextHop(r, f, c)
           \/ \E r \in Router, f \in BiftFace : RemoveNextHop(r, f)
           \/ \E r \in Router, i \in BfrId : RegisterRouter(r, i)
           \/ BuildFromFibPet
           \/ MgmtStep
           \/ UNCHANGED biftVars
    PROVE  ReplicationInv'
<1>1. thr' = thr
  BY DEF InsertNextHop, RemoveNextHop, RegisterRouter, BuildFromFibPet,
         MgmtStep, LookupNextHop, UpdateNextHop, RebuildFbm, biftVars
<1>2. QED
  BY <1>1 DEF ReplicationInv, LoopInv

\* The loop invariant holds for every thread at all times.
LEMMA ReplicationInvariant == BiftSpec => []ReplicationInv
<1>1. BiftInit => ReplicationInv
  BY LoopIdle DEF BiftInit, ReplicationInv
<1>2. TypeInv /\ ReplicationInv /\ [BiftNext]_biftVars => ReplicationInv'
  BY ReplicationStep, ReplicationOthers DEF BiftNext
<1>3. QED
  BY <1>1, <1>2, TypeInvariant, PTL DEF BiftSpec

\* Loop suppression, for any table and any interleaving with rebuilds: no bit
\* of a BIER Interest leaves on two faces.
THEOREM ReplicationSendsEachBitOnce == BiftSpec => []EachBitLeavesOnce
<1>1. ReplicationInv => EachBitLeavesOnce
  BY DEF ReplicationInv, LoopInv, EachBitLeavesOnce
<1>2. QED
  BY <1>1, ReplicationInvariant, PTL

\* A copy carries only bits the Interest asked for, and none goes back.
THEOREM ReplicationStaysWithinRequest == BiftSpec => []CopiesWithinRequest
<1>1. ReplicationInv => CopiesWithinRequest
  BY DEF ReplicationInv, LoopInv, CopiesWithinRequest
<1>2. QED
  BY <1>1, ReplicationInvariant, PTL

\* The loop's early exits lose no bit that a neighbour leads to.
THEOREM ReplicationSkipsNoBit == BiftSpec => []NoBitSkipped
<1>1. TypeInv /\ ReplicationInv => NoBitSkipped
  <2> SUFFICES ASSUME TypeInv, ReplicationInv, NEW t \in Thread,
                      thr[t].todo = {} \/ thr[t].bits = {},
                      NEW f \in BiftFace \ {thr[t].inFace}, NEW i \in thr[t].nbrs[f],
                      i \in thr[t].incoming \ {LocalId}
               PROVE  \E g \in BiftFace : i \in thr[t].sent[g]
    BY DEF NoBitSkipped
  <2>1. i \notin thr[t].bits
    BY DEF ReplicationInv, LoopInv
  <2>2. QED
    BY <2>1 DEF ReplicationInv, LoopInv
<1>2. QED
  BY <1>1, TypeInvariant, ReplicationInvariant, PTL

----------------------------------------------------------------------------
(***************************************************************************)
(* The masks between rebuilds.  QuiescentMasksPartition is inductive given *)
(* the types: RebuildFbm establishes it, a registration only takes entries *)
(* out of use, and nothing else touches the table while no rebuild runs.   *)
(***************************************************************************)

\* RebuildFbm leaves masks that partition the bits by face.
LEMMA RebuildPartitions ==
    ASSUME TypeInv, RebuildFbm
    PROVE  QuiescentMasksPartition'
<1> SUFFICES ASSUME NEW i \in Usable', NEW j \in Usable'
             PROVE  IF entries'[i].nextHop = entries'[j].nextHop
                    THEN entries'[i].fbm = entries'[j].fbm
                    ELSE entries'[i].fbm \cap entries'[j].fbm = {}
  BY DEF QuiescentMasksPartition
<1>1. \A k \in BfrId : entries[k] \in BiftEntry
  BY DEF TypeInv, BiftTypeOK
<1>2. \A k \in Usable' : /\ k \in BfrId
                         /\ entries'[k].nextHop = entries[k].nextHop
                         /\ entries'[k].fbm = FaceGroup(entries[k].nextHop)
  BY <1>1 DEF RebuildFbm, Usable, BiftEntry
<1>3. CASE entries[i].nextHop = entries[j].nextHop
  BY <1>2, <1>3
<1>4. CASE entries[i].nextHop # entries[j].nextHop
  <2>1. FaceGroup(entries[i].nextHop) \cap FaceGroup(entries[j].nextHop) = {}
    BY <1>4 DEF FaceGroup
  <2>2. QED
    BY <1>2, <1>4, <2>1
<1>5. QED
  BY <1>3, <1>4

\* A registration keeps the partition.
LEMMA RegisterPartitions ==
    ASSUME TypeInv, QuiescentMasksPartition,
           NEW r \in Router, NEW k \in BfrId, RegisterRouter(r, k)
    PROVE  QuiescentMasksPartition'
<1>1. mgmt.pc = "idle"
  BY DEF RegisterRouter
<1>2. entries'[k].nextHop = 0 /\ \A j \in BfrId \ {k} : entries'[j] = entries[j]
  BY DEF RegisterRouter, Unregistered, TypeInv, BiftTypeOK
<1>3. Usable' \subseteq Usable \ {k}
  BY <1>2 DEF Usable
<1>4. QED
  BY <1>1, <1>2, <1>3 DEF QuiescentMasksPartition, Usable

\* Whenever no rebuild is under way, the masks partition the bits by face.
THEOREM MasksPartitionBetweenRebuilds == BiftSpec => []QuiescentMasksPartition
<1>1. BiftInit => QuiescentMasksPartition
  BY DEF BiftInit, QuiescentMasksPartition, Usable, Unregistered
<1>2. TypeInv /\ QuiescentMasksPartition /\ [BiftNext]_biftVars
        => QuiescentMasksPartition'
  <2> SUFFICES ASSUME TypeInv, QuiescentMasksPartition, [BiftNext]_biftVars
               PROVE  QuiescentMasksPartition'
    OBVIOUS
  <2>1. CASE entries' = entries /\ mgmt' = mgmt
    BY <2>1 DEF QuiescentMasksPartition, Usable
  <2>2. CASE mgmt'.pc # "idle"
    BY <2>2 DEF QuiescentMasksPartition
  <2>3. CASE RebuildFbm
    BY <2>3, RebuildPartitions
  <2>4. CASE \E r \in Router, i \in BfrId : RegisterRouter(r, i)
    BY <2>4, RegisterPartitions
  <2>5. CASE BuildFromFibPet \/ UpdateNextHop \/ \E i \in BfrId : LookupNextHop(i)
    <3>1. mgmt'.pc # "idle"
      BY <2>5 DEF BuildFromFibPet, UpdateNextHop, LookupNextHop, TypeInv, BiftTypeOK,
                  MgmtState, MgmtIdle
    <3>2. QED
      BY <2>2, <3>1
  <2>6. CASE \/ \E r \in Router, f \in BiftFace, c \in Cost : InsertNextHop(r, f, c)
             \/ \E r \in Router, f \in BiftFace : RemoveNextHop(r, f)
             \/ \E t \in Thread, f \in BiftFace, bs \in BitString : ReceiveBier(t, f, bs)
             \/ \E t \in Thread, e \in Egress : EncodeBier(t, e)
             \/ \E t \in Thread : ThreadStep(t)
             \/ UNCHANGED biftVars
    BY <2>1, <2>6 DEF InsertNextHop, RemoveNextHop, ReceiveBier, EncodeBier,
         StartReplication, ThreadStep, ReplicateTo, EndReplication, biftVars
  <2>7. QED
    BY <2>3, <2>4, <2>5, <2>6 DEF BiftNext, MgmtStep
<1>3. QED
  BY <1>1, <1>2, TypeInvariant, PTL DEF BiftSpec

----------------------------------------------------------------------------
(* What a rebuild leaves *)

\* f leads to the router of i at the lowest cost, if anything does.
Best(i, f) ==
    \A h \in fib[entries[i].router] :
        \E b \in fib[entries[i].router] : b.face = f /\ b.cost <= h.cost

\* What RebuildPicksBestHop rests on: as long as the FIB stands still, the
\* entries that the rebuild has dealt with have their best next hop, and the one
\* it is about to update is about to get it.
HopInv ==
    mgmt.pc # "idle" /\ ~fibMoved =>
        /\ \A i \in Registered \ mgmt.todo :
              (mgmt.pc = "update" /\ i = mgmt.id) \/ Best(i, entries[i].nextHop)
        /\ mgmt.pc = "update" => Best(mgmt.id, mgmt.hop)

\* The steps of the rebuild.
LEMMA HopMgmt ==
    ASSUME TypeInv, HopInv, MgmtStep
    PROVE  HopInv'
<1> USE BiftAssumption DEF TypeInv, BiftTypeOK, TodoRegistered, HopInv, Best, Registered
<1>1. ASSUME NEW i \in BfrId, LookupNextHop(i) PROVE HopInv'
  <2>1. mgmt.pc = "lookup" /\ UNCHANGED <<entries, fib, fibMoved>>
    BY <1>1 DEF LookupNextHop
  <2>2. CASE fib[entries[i].router] = {} /\ mgmt' = [mgmt EXCEPT !.todo = @ \ {i}]
    BY <2>1, <2>2 DEF MgmtState
  <2>3. ASSUME NEW f \in BestFaces(fib[entries[i].router]),
               mgmt' = [mgmt EXCEPT !.pc = "update", !.todo = @ \ {i}, !.id = i, !.hop = f]
        PROVE  HopInv'
    <3>1. Best(i, f)
      BY <2>3 DEF BestFaces
    <3>2. mgmt'.pc = "update" /\ mgmt'.todo = mgmt.todo \ {i} /\ mgmt'.id = i /\ mgmt'.hop = f
      BY <2>3 DEF MgmtState
    <3> QED
      BY <2>1, <3>1, <3>2
  <2> QED
    BY <1>1, <2>2, <2>3 DEF LookupNextHop
<1>2. ASSUME UpdateNextHop PROVE HopInv'
  <2>1. mgmt.id \in BfrId /\ mgmt.todo \in Bits
    BY DEF MgmtState
  <2>2. /\ \A j \in BfrId : entries'[j].router = entries[j].router
        /\ \A j \in BfrId \ {mgmt.id} : entries'[j].nextHop = entries[j].nextHop
        /\ entries'[mgmt.id].nextHop = mgmt.hop
    BY <1>2, <2>1 DEF UpdateNextHop, BiftEntry
  <2>3. mgmt'.pc = "lookup" /\ mgmt'.todo = mgmt.todo
    BY <1>2, <2>1 DEF UpdateNextHop, MgmtIdle
  <2>4. mgmt.pc = "update" /\ UNCHANGED <<fib, fibMoved>>
    BY <1>2 DEF UpdateNextHop
  <2> QED
    BY <2>1, <2>2, <2>3, <2>4
<1>3. ASSUME RebuildFbm PROVE HopInv'
  BY <1>3 DEF RebuildFbm, MgmtIdle
<1> QED
  BY <1>1, <1>2, <1>3 DEF MgmtStep

\* Every other step moves the FIB, happens between two rebuilds, begins one, or
\* is a forwarding thread's.
LEMMA HopStep == TypeInv /\ HopInv /\ [BiftNext]_biftVars => HopInv'
<1> SUFFICES ASSUME TypeInv, HopInv, [BiftNext]_biftVars PROVE HopInv'
  OBVIOUS
<1>1. CASE \/ \E r \in Router, f \in BiftFace, c \in Cost : InsertNextHop(r, f, c)
           \/ \E r \in Router, f \in BiftFace : RemoveNextHop(r, f)
  BY <1>1 DEF InsertNextHop, RemoveNextHop, HopInv
<1>2. CASE \E r \in Router, i \in BfrId : RegisterRouter(r, i)
  BY <1>2 DEF RegisterRouter, HopInv
<1>3. CASE BuildFromFibPet
  <2>1. mgmt'.todo = Registered /\ mgmt'.pc = "lookup" /\ UNCHANGED entries
    BY <1>3 DEF BuildFromFibPet, TypeInv, BiftTypeOK, MgmtState
  <2> QED
    BY <2>1 DEF HopInv, Registered
<1>4. CASE MgmtStep
  BY <1>4, HopMgmt
<1>5. CASE \/ \E t \in Thread, f \in BiftFace, bs \in BitString : ReceiveBier(t, f, bs)
           \/ \E t \in Thread, e \in Egress : EncodeBier(t, e)
           \/ \E t \in Thread : ThreadStep(t)
           \/ UNCHANGED biftVars
  <2>1. UNCHANGED <<entries, fib, mgmt, fibMoved>>
    BY <1>5 DEF ReceiveBier, EncodeBier, StartReplication, ThreadStep, ReplicateTo,
                EndReplication, biftVars
  <2> QED
    BY <2>1 DEF HopInv, Best, Registered
<1> QED
  BY <1>1, <1>2, <1>3, <1>4, <1>5 DEF BiftNext

\* A rebuild during which the FIB stands still gives every registered router a
\* next hop of the lowest cost, whichever of several sort.Slice puts first
\* (BuildFromFibPet, UpdateNextHop, RebuildFbm).
THEOREM RebuildPicksBest == BiftSpec => RebuildPicksBestHop
<1>1. BiftInit => HopInv
  BY DEF BiftInit, HopInv, MgmtIdle
<1>2. ASSUME TypeInv, HopInv, [BiftNext]_biftVars,
             mgmt.pc = "lookup", mgmt'.pc = "idle", ~fibMoved,
             NEW i \in Registered, NEW h \in fib[entries[i].router]
      PROVE  \E b \in fib[entries[i].router] : b.face = entries'[i].nextHop /\ b.cost <= h.cost
  <2>1. RebuildFbm
    <3>1. CASE \E j \in BfrId : LookupNextHop(j)
      BY <1>2, <3>1 DEF LookupNextHop, TypeInv, BiftTypeOK, MgmtState
    <3>2. CASE MgmtStep
      BY <1>2, <3>1, <3>2 DEF MgmtStep, UpdateNextHop
    <3>3. CASE ~MgmtStep
      BY <1>2, <3>3 DEF BiftNext, biftVars, InsertNextHop, RemoveNextHop, RegisterRouter,
                        BuildFromFibPet, ReceiveBier, EncodeBier, StartReplication, ThreadStep,
                        ReplicateTo, EndReplication
    <3> QED
      BY <3>2, <3>3
  <2>2. i \in BfrId /\ entries'[i].nextHop = entries[i].nextHop /\ mgmt.todo = {}
    BY <2>1 DEF RebuildFbm, Registered, TypeInv, BiftTypeOK, BiftEntry
  <2> QED
    BY <1>2, <2>2 DEF HopInv, Best
<1>3. TypeInv /\ HopInv /\ [BiftNext]_biftVars =>
        [mgmt.pc = "lookup" /\ mgmt'.pc = "idle" /\ ~fibMoved =>
            \A i \in Registered : \A h \in fib[entries[i].router] :
                \E b \in fib[entries[i].router] :
                    b.face = entries'[i].nextHop /\ b.cost <= h.cost]_biftVars
  BY <1>2
<1> QED
  BY <1>1, <1>3, HopStep, TypeInvariant, PTL DEF BiftSpec, RebuildPicksBestHop
=============================================================================
