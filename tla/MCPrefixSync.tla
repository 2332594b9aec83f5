---------------------------- MODULE MCPrefixSync ----------------------------
(***************************************************************************)
(* Synchronisation, for TLC: how a router's prefixes get to another router *)
(* by way of the publications that SVS announces (PrefixSync), and how SVS *)
(* announces them (Svs).  What SVS promises, that every instance learns of *)
(* the latest number after a while, is what PrefixSync builds on as the    *)
(* fairness of Learn.  The two share no state, and a behaviour is one of   *)
(* either.                                                                 *)
(***************************************************************************)
EXTENDS PrefixSync

CONSTANTS Node, MayBePassive, MaxNumber, MaxBoots, Future, MaxEvents, MaxInbox

VARIABLES
    layer,          \* "prefixes" or "svs"
    passive, running, boots, state, recent, suppress, merge, wires, stored, due, persist, inbox,
    events

Sync == INSTANCE Svs WITH boot <- boots, MaxSeq <- MaxNumber, MaxBoot <- MaxBoots

ASSUME SvsAssumed == Sync!SvsAssumption

svsVars == <<passive, running, boots, state, recent, suppress, merge, wires, stored, due, persist,
             inbox, events>>

\* A router that has not published anything.
Unpublished ==
    /\ boot = 1 /\ app = NoPrefixes /\ me = NoPrefixes /\ expired = {}
    /\ log = [b \in Boot |-> <<>>] /\ snap = [b \in Boot |-> NoSnap]
    /\ data = [b \in Boot |-> NoData]
    /\ fetches = [x \in Boot \X SeqNo |-> 0] /\ snapFetch = {}

SyncInit == /\ Sync!Init
            /\ layer \in {"prefixes", "svs"}
            /\ IF layer = "prefixes" THEN Init /\ passive = {} ELSE Unpublished

SyncNext ==
    \/ layer = "prefixes" /\ Next /\ UNCHANGED <<layer, svsVars>>
    \/ layer = "svs" /\ Sync!Next /\ UNCHANGED <<layer, vars>>

\* In the behaviours of one of the two, nothing that the fairness of the other
\* one asks for is enabled.
SyncSpec == /\ SyncInit /\ [][SyncNext]_<<layer, vars, svsVars>>
            /\ SubscriberFairness /\ Sync!Fairness

\* Sync!PassiveCanTell: whatever a passive instance knows, it has a signed
\* vector of.
PassiveCanTell == Sync!PassiveCanTell

\* Sync!VectorsAgree: the instances come to know the same.
VectorsAgree == Sync!VectorsAgree
=============================================================================
