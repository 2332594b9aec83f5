-------------------------------- MODULE Bift --------------------------------
(***************************************************************************)
(* The Bit Index Forwarding Table of one forwarder (fw/fw/bier.go) and the *)
(* threads that use it at the same time:                                   *)
(*   - the management thread (fw/mgmt/bift.go), which registers routers    *)
(*     and rebuilds the table from the FIB, one management command after   *)
(*     the other.  A rebuild takes the table's lock once for its snapshot, *)
(*     once per updated entry and once for the masks, so others run        *)
(*     between these steps;                                                *)
(*   - the forwarding threads, which snapshot the neighbours under the     *)
(*     read lock and then replicate a BIER Interest copy by copy           *)
(*     (bierReplicate of fw/fw/bier_strategy.go);                          *)
(*   - whoever changes the FIB: a face that goes down does so from its own *)
(*     goroutine, at any moment.                                           *)
(* A bit string is the set of the BFR-IDs whose bit is set.  The empty set *)
(* stands for the nil mask of a fresh entry: a mask that RebuildFbm builds *)
(* is never empty.                                                         *)
(***************************************************************************)
EXTENDS Naturals, FiniteSets

CONSTANTS
    Router,     \* router names
    BfrId,      \* bit positions an operator may assign
    BiftFace,       \* face identifiers; 0 is "no next hop"
    Cost,       \* costs of FIB next hops
    Thread,     \* forwarding threads
    BitString,  \* bit strings that neighbours send
    Egress,     \* sets of egress routers of local consumers' Interests
    LocalId,    \* this router's bit position (CfgBierIndex)
    NoRouter,   \* the router of an unregistered BFR-ID
    MaxChanges  \* bound on registrations and FIB changes

ASSUME BiftAssumption ==
    /\ BiftFace \subseteq Nat \ {0}
    /\ Cost \subseteq Nat
    /\ BitString \subseteq SUBSET BfrId
    /\ Egress \subseteq SUBSET Router
    /\ LocalId \in BfrId
    /\ NoRouter \notin Router
    /\ MaxChanges \in Nat

VARIABLES
    entries,    \* BfrId -> BIFT entry
    routerBit,  \* Router -> its BFR-ID, as a set of at most one element
    fib,        \* Router -> its next hops, a set of [face, cost] records
    mgmt,       \* the management thread's position in a rebuild
    fibMoved,   \* history: has the FIB changed since the rebuild began?
    thr,        \* Thread -> its position in bierReplicate
    changes     \* registrations and FIB changes so far, at most MaxChanges

biftVars == <<entries, routerBit, fib, mgmt, fibMoved, thr, changes>>

----------------------------------------------------------------------------
(* Values *)

NextHop == BiftFace \cup {0}
Bits == SUBSET BfrId

BiftEntry == [router : Router \cup {NoRouter}, nextHop : NextHop, fbm : Bits]
Unregistered == [router |-> NoRouter, nextHop |-> 0, fbm |-> {}]
FibNextHop == [face : BiftFace, cost : Cost]
MgmtState == [pc : {"idle", "lookup", "update"},
              todo : Bits, id : BfrId, hop : NextHop]
ThreadState == [pc : {"idle", "replicate"}, inFace : NextHop, incoming : Bits,
                bits : Bits, nbrs : [BiftFace -> Bits], todo : SUBSET BiftFace,
                sent : [BiftFace -> Bits]]

MgmtIdle == [pc |-> "idle", todo |-> {}, id |-> LocalId, hop |-> 0]
ThreadIdle == [pc |-> "idle", inFace |-> 0, incoming |-> {}, bits |-> {},
               nbrs |-> [f \in BiftFace |-> {}], todo |-> {},
               sent |-> [f \in BiftFace |-> {}]]

BiftInit ==
    /\ entries = [i \in BfrId |-> Unregistered]
    /\ routerBit = [r \in Router |-> {}]
    /\ fib = [r \in Router |-> {}]
    /\ mgmt = MgmtIdle
    /\ fibMoved = FALSE
    /\ thr = [t \in Thread |-> ThreadIdle]
    /\ changes = 0

\* Input from outside, bounded.
Change ==
    /\ changes < MaxChanges
    /\ changes' = changes + 1

----------------------------------------------------------------------------
(* The FIB entry of a router's name *)

\* Adds a next hop or replaces its cost.
InsertNextHop(r, f, c) ==
    /\ Change
    /\ fib' = [fib EXCEPT ![r] =
                  {h \in @ : h.face # f} \cup {[face |-> f, cost |-> c]}]
    /\ fibMoved' = TRUE
    /\ UNCHANGED <<entries, routerBit, mgmt, thr>>

\* Withdraws a next hop.
RemoveNextHop(r, f) ==
    /\ Change
    /\ \E h \in fib[r] : h.face = f
    /\ fib' = [fib EXCEPT ![r] = {h \in @ : h.face # f}]
    /\ fibMoved' = TRUE
    /\ UNCHANGED <<entries, routerBit, mgmt, thr>>

\* Faulty variant: takes any next hop, as if the sort were missing.
BestFacesUnsorted(nexthops) == {h.face : h \in nexthops}

\* The faces sort.Slice may put first: it is not a stable sort.
BestFaces(nexthops) ==
    {h.face : h \in {b \in nexthops : \A o \in nexthops : b.cost <= o.cost}}

----------------------------------------------------------------------------
(* The management thread *)

Registered == {i \in BfrId : entries[i].router # NoRouter}

\* A fresh entry replaces whatever the BFR-ID had; the name's previous
\* BFR-ID keeps its entry.
RegisterRouter(r, i) ==
    /\ Change
    /\ mgmt.pc = "idle"
    /\ entries' = [entries EXCEPT ![i] = [Unregistered EXCEPT !.router = r]]
    /\ routerBit' = [routerBit EXCEPT ![r] = {i}]
    /\ UNCHANGED <<fib, mgmt, fibMoved, thr>>

\* BuildFromFibPet, first lock: the snapshot of the entries.
BuildFromFibPet ==
    /\ mgmt.pc = "idle"
    /\ mgmt' = [mgmt EXCEPT !.pc = "lookup", !.todo = Registered]
    /\ fibMoved' = FALSE
    /\ UNCHANGED <<entries, routerBit, fib, thr, changes>>

\* BuildFromFibPet, the FIB lookup for one entry of the snapshot; an entry
\* without next hops in the FIB is left as it is.
LookupNextHop(i) ==
    /\ mgmt.pc = "lookup"
    /\ i \in mgmt.todo
    /\ LET nexthops == fib[entries[i].router]
       IN  \/ /\ nexthops = {}
              /\ mgmt' = [mgmt EXCEPT !.todo = @ \ {i}]
           \/ \E f \in BestFaces(nexthops) :
                 mgmt' = [mgmt EXCEPT !.pc = "update", !.todo = @ \ {i},
                                      !.id = i, !.hop = f]
    /\ UNCHANGED <<entries, routerBit, fib, fibMoved, thr, changes>>

\* UpdateNextHop, with its own lock.
UpdateNextHop ==
    /\ mgmt.pc = "update"
    /\ entries' = [entries EXCEPT ![mgmt.id].nextHop = mgmt.hop]
    /\ mgmt' = [MgmtIdle EXCEPT !.pc = "lookup", !.todo = mgmt.todo]
    /\ UNCHANGED <<routerBit, fib, fibMoved, thr, changes>>

\* The BFR-IDs reached through a face: faceFbm of RebuildFbm.
FaceGroup(f) == {i \in BfrId : entries[i].nextHop = f}

\* Faulty variant: computes a mask only for entries that have none yet.
RebuildFbmOnce ==
    /\ mgmt.pc = "lookup"
    /\ mgmt.todo = {}
    /\ entries' = [i \in BfrId |->
                      IF entries[i].nextHop = 0 \/ entries[i].fbm # {} THEN entries[i]
                      ELSE [entries[i] EXCEPT !.fbm = FaceGroup(entries[i].nextHop)]]
    /\ mgmt' = MgmtIdle
    /\ UNCHANGED <<routerBit, fib, fibMoved, thr, changes>>

\* RebuildFbm, with its own lock: one mask per face, shared by its entries.
RebuildFbm ==
    /\ mgmt.pc = "lookup"
    /\ mgmt.todo = {}
    /\ entries' = [i \in BfrId |->
                      IF entries[i].nextHop = 0 THEN entries[i]
                      ELSE [entries[i] EXCEPT !.fbm = FaceGroup(entries[i].nextHop)]]
    /\ mgmt' = MgmtIdle
    /\ UNCHANGED <<routerBit, fib, fibMoved, thr, changes>>

----------------------------------------------------------------------------
(* The forwarding threads *)

\* Entries GetNeighborEntries looks at.
Usable == {i \in BfrId : entries[i].nextHop # 0 /\ entries[i].fbm # {}}

\* GetNeighborEntries: for each face the mask of the entry the iteration over
\* the map happens to meet first; {} for a face that is no neighbour.
NeighborEntries ==
    {nbrs \in [BiftFace -> Bits] :
        \A f \in BiftFace :
            LET via == {i \in Usable : entries[i].nextHop = f}
            IN  IF via = {} THEN nbrs[f] = {}
                ELSE \E i \in via : nbrs[f] = entries[i].fbm}

\* BuildBierBitString: egress routers without a BFR-ID contribute no bit.
BuildBierBitString(egress) == UNION {routerBit[r] : r \in egress}

\* Local delivery is none of the neighbours' business.
WithoutLocal(bs) == bs \ {LocalId}

\* bierReplicate up to its loop, for a bit string that arrived on inFace or
\* that this router has just encoded for a local consumer's Interest.
StartReplication(t, inFace, bs) ==
    LET bits == WithoutLocal(bs)
    IN  /\ thr[t].pc = "idle"
        /\ bits # {}
        /\ \E nbrs \in NeighborEntries :
              thr' = [thr EXCEPT ![t] =
                         [pc |-> "replicate", inFace |-> inFace,
                          incoming |-> bs, bits |-> bits, nbrs |-> nbrs,
                          todo |-> {f \in BiftFace : nbrs[f] # {}},
                          sent |-> [f \in BiftFace |-> {}]]]
        /\ UNCHANGED <<entries, routerBit, fib, mgmt, fibMoved, changes>>

\* A BIER Interest arrives from a neighbour.
ReceiveBier(t, inFace, bs) == StartReplication(t, inFace, bs)

\* The ingress router encodes a bit string for the egress routers of a local
\* consumer's Interest; the consumer's face, 0 here, is no BIFT neighbour.
EncodeBier(t, egress) == StartReplication(t, 0, BuildBierBitString(egress))

\* Faulty variants: the forwarded bits are not cleared; all bits are.
RemainingAll(bits, fbm) == bits
RemainingNone(bits, fbm) == {}

\* What an iteration leaves of the working bit string.
Remaining(bits, fbm) == bits \ fbm

\* One iteration of the loop over the neighbours, which come in any order:
\* the incoming face and an empty intersection are skipped, otherwise the
\* copy leaves and its mask is cleared from the working bit string.
ReplicateTo(t, f) ==
    LET th == thr[t]
        mask == th.bits \cap th.nbrs[f]
    IN  /\ th.pc = "replicate"
        /\ th.bits # {}
        /\ f \in th.todo
        /\ \/ /\ f = th.inFace \/ mask = {}
              /\ thr' = [thr EXCEPT ![t].todo = @ \ {f}]
           \/ /\ f # th.inFace
              /\ mask # {}
              /\ thr' = [thr EXCEPT ![t].todo = @ \ {f},
                                    ![t].sent[f] = mask,
                                    ![t].bits = Remaining(@, th.nbrs[f])]
        /\ UNCHANGED <<entries, routerBit, fib, mgmt, fibMoved, changes>>

\* The loop ends: no neighbour or no bit is left.
EndReplication(t) ==
    /\ thr[t].pc = "replicate"
    /\ thr[t].todo = {} \/ thr[t].bits = {}
    /\ thr' = [thr EXCEPT ![t] = ThreadIdle]
    /\ UNCHANGED <<entries, routerBit, fib, mgmt, fibMoved, changes>>

----------------------------------------------------------------------------

MgmtStep ==
    \/ \E i \in BfrId : LookupNextHop(i)
    \/ UpdateNextHop
    \/ RebuildFbm

ThreadStep(t) ==
    \/ \E f \in BiftFace : ReplicateTo(t, f)
    \/ EndReplication(t)

BiftNext ==
    \/ \E r \in Router, f \in BiftFace, c \in Cost : InsertNextHop(r, f, c)
    \/ \E r \in Router, f \in BiftFace : RemoveNextHop(r, f)
    \/ \E r \in Router, i \in BfrId : RegisterRouter(r, i)
    \/ BuildFromFibPet
    \/ MgmtStep
    \/ \E t \in Thread, f \in BiftFace, bs \in BitString : ReceiveBier(t, f, bs)
    \/ \E t \in Thread, e \in Egress : EncodeBier(t, e)
    \/ \E t \in Thread : ThreadStep(t)

BiftSpec == BiftInit /\ [][BiftNext]_biftVars

----------------------------------------------------------------------------
(* Properties *)

\* Every variable has its type.
BiftTypeOK ==
    /\ entries \in [BfrId -> BiftEntry]
    /\ routerBit \in [Router -> Bits]
    /\ fib \in [Router -> SUBSET FibNextHop]
    /\ mgmt \in MgmtState
    /\ fibMoved \in BOOLEAN
    /\ thr \in [Thread -> ThreadState]
    /\ changes \in Nat

\* Loop suppression of bierReplicate: whatever masks a concurrent rebuild
\* leaves in the table, no bit leaves on two faces, and a bit that is still to
\* be forwarded has not been forwarded yet.
EachBitLeavesOnce ==
    \A t \in Thread, f \in BiftFace :
        /\ thr[t].sent[f] \cap thr[t].bits = {}
        /\ \A g \in BiftFace \ {f} : thr[t].sent[f] \cap thr[t].sent[g] = {}

\* A copy asks only for what the Interest asked for: its bits are incoming
\* bits, never this router's own, and none goes back where it came from.
CopiesWithinRequest ==
    \A t \in Thread, f \in BiftFace :
        /\ thr[t].sent[f] \subseteq thr[t].incoming \ {LocalId}
        /\ f = thr[t].inFace => thr[t].sent[f] = {}

\* When the loop is over, a bit that was not forwarded is a bit that no
\* neighbour other than the incoming face leads to: breaking out of the loop
\* early and skipping neighbours loses nothing.
NoBitSkipped ==
    \A t \in Thread :
        thr[t].pc = "replicate" /\ (thr[t].todo = {} \/ thr[t].bits = {}) =>
            \A f \in BiftFace \ {thr[t].inFace} : \A i \in thr[t].nbrs[f] :
                i \in thr[t].incoming \ {LocalId}
                    => \E g \in BiftFace : i \in thr[t].sent[g]

\* While no rebuild is under way the masks are a partition by face, routers
\* registered since the last rebuild included: every entry of a face has the
\* same mask, so the order of the map's iteration does not matter, and the
\* masks of two faces have no bit in common.
QuiescentMasksPartition ==
    mgmt.pc = "idle" =>
        \A i, j \in Usable :
            IF entries[i].nextHop = entries[j].nextHop
            THEN entries[i].fbm = entries[j].fbm
            ELSE entries[i].fbm \cap entries[j].fbm = {}

\* A rebuild during which the FIB stands still gives every registered router
\* that has a route a next hop of the lowest cost.
RebuildPicksBestHop ==
    [][mgmt.pc = "lookup" /\ mgmt'.pc = "idle" /\ ~fibMoved =>
          \A i \in Registered : \A h \in fib[entries[i].router] :
              \E b \in fib[entries[i].router] :
                  b.face = entries'[i].nextHop /\ b.cost <= h.cost]_biftVars
=============================================================================
