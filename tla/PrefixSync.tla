----------------------------- MODULE PrefixSync -----------------------------
(***************************************************************************)
(* The prefix egress state of a router (dv/table/prefix_state.go) and its  *)
(* copy at another router, kept up by SvsALO (SvsAlo).                     *)
(*                                                                         *)
(* The router changes its own prefixes on behalf of applications, publishes*)
(* each change as a list of operations, and gives its whole state as the   *)
(* snapshot.  The other router applies what it is given.  Both drop        *)
(* prefixes whose validity period is over.                                 *)
(***************************************************************************)
EXTENDS Integers, Sequences, FiniteSets

CONSTANTS
    Threshold, MaxPipeline, MaxSeq, MaxBoot, MayCongest,    \* see SvsAlo
    Prefix,
    Face,       \* without 0, the face of a route-only announcement
    Validity,   \* validity periods, Always among them
    Always      \* no validity period

ASSUME PrefixSyncAssumption ==
    /\ {Threshold, MaxPipeline, MaxSeq, MaxBoot} \subseteq Nat \ {0}
    /\ MaxPipeline <= Threshold      \* 10 and 50: see EventuallyInSync
    /\ MayCongest \in BOOLEAN
    /\ 0 \notin Face /\ Always \in Validity

VARIABLES
    boot, log, snap, data, fetches, snapFetch,      \* see SvsAlo
    app,        \* at the other router: prefix |-> validity
    me,         \* at the router itself: prefix |-> validity and next hops
    expired     \* the validity periods that are over

NoPrefixes == <<>>

Without(f, S) == [p \in DOMAIN f \ S |-> f[p]]
Over(f, g) == [p \in DOMAIN f \cup DOMAIN g |-> IF p \in DOMAIN f THEN f[p] ELSE g[p]]

\* PrefixEgreState.Apply: reset, then the additions, then the removals.
ApplyOps(pfxs, op) ==
    Without(Over(op.adds, IF op.reset THEN NoPrefixes ELSE pfxs), op.removes)

INSTANCE SvsAlo WITH Apply <- ApplyOps, Empty <- NoPrefixes

copy == <<data, fetches, snapFetch, app>>
vars == <<boot, log, snap, data, fetches, snapFetch, app, me, expired>>

OpReset == [reset |-> TRUE, adds |-> NoPrefixes, removes |-> {}]
OpAdd(p, v) == [reset |-> FALSE, adds |-> [q \in {p} |-> v], removes |-> {}]
OpRemove(p) == [reset |-> FALSE, adds |-> NoPrefixes, removes |-> {p}]

Validities(pfxs) == [p \in DOMAIN pfxs |-> pfxs[p].validity]

\* PrefixEgreState.Snap: a reset and an addition for every prefix.
Snap(pfxs) == [reset |-> TRUE, adds |-> Validities(pfxs), removes |-> {}]

-----------------------------------------------------------------------------
(***************************************************************************)
(* The router itself                                                       *)
(***************************************************************************)
NeedsAdd(p, v) == p \in DOMAIN me => me[p].validity # v

\* Face 0 is for a route-only announcement, which keeps no next hops.
Announce(p, f, v) ==
    LET hops == IF f = 0 THEN {} ELSE {f} \cup (IF p \in DOMAIN me THEN me[p].hops ELSE {})
    IN  /\ v \notin expired
        /\ me' = Over([q \in {p} |-> [validity |-> v, hops |-> hops]], me)
        /\ IF NeedsAdd(p, v) THEN Publish(OpAdd(p, v), Snap(me')) ELSE UNCHANGED <<log, snap>>
        /\ UNCHANGED <<boot, copy, expired>>

\* The removal is published before the prefix is deleted.
RemoveEntry(p) ==
    /\ Publish(OpRemove(p), Snap(me))
    /\ me' = Without(me, {p})

WithdrawRoute(p) ==
    /\ p \in DOMAIN me
    /\ RemoveEntry(p)
    /\ UNCHANGED <<boot, copy, expired>>

Withdraw(p, f) ==
    /\ p \in DOMAIN me
    /\ IF me[p].hops \subseteq {f}
       THEN RemoveEntry(p)
       ELSE me' = [me EXCEPT ![p].hops = @ \ {f}] /\ UNCHANGED <<log, snap>>
    /\ UNCHANGED <<boot, copy, expired>>

Reset ==
    /\ me' = NoPrefixes
    /\ Publish(OpReset, Snap(NoPrefixes))
    /\ UNCHANGED <<boot, copy, expired>>

\* PruneExpired, one prefix at a time.
PruneOwn(p) ==
    /\ p \in DOMAIN me /\ me[p].validity \in expired
    /\ RemoveEntry(p)
    /\ UNCHANGED <<boot, copy, expired>>

\* The router starts over without prefixes, and resets its copies.
RestartRouter ==
    /\ Restart(OpReset, Snap(NoPrefixes))
    /\ me' = NoPrefixes
    /\ UNCHANGED <<copy, expired>>

-----------------------------------------------------------------------------
(***************************************************************************)
(* The other router, and time                                              *)
(***************************************************************************)
PruneCopy(p) ==
    /\ p \in DOMAIN app /\ app[p] \in expired
    /\ app' = Without(app, {p})
    /\ UNCHANGED <<boot, log, snap, data, fetches, snapFetch, me, expired>>

Expire(v) ==
    /\ v \in Validity \ (expired \cup {Always})
    /\ expired' = expired \cup {v}
    /\ UNCHANGED <<boot, log, snap, copy, me>>

-----------------------------------------------------------------------------
Init ==
    /\ AloInit(OpReset, Snap(NoPrefixes))
    /\ me = NoPrefixes
    /\ expired = {}

Own ==
    \/ \E p \in Prefix :
        \/ \E f \in Face \cup {0}, v \in Validity : Announce(p, f, v)
        \/ \E f \in Face : Withdraw(p, f)
        \/ WithdrawRoute(p)
        \/ PruneOwn(p)
    \/ Reset
    \/ RestartRouter

Next ==
    \/ Own
    \/ \E p \in Prefix : PruneCopy(p)
    \/ \E v \in Validity : Expire(v)
    \/ Subscriber /\ UNCHANGED <<me, expired>>

Spec == Init /\ [][Next]_vars
FairSpec == Spec /\ SubscriberFairness

-----------------------------------------------------------------------------
(***************************************************************************)
(* Properties                                                              *)
(***************************************************************************)
Valid(pfxs) == Without(pfxs, {p \in DOMAIN pfxs : pfxs[p] \in expired})

Included(f, g) == \A p \in DOMAIN f : p \in DOMAIN g /\ f[p] = g[p]

\* The last boot the other router knows of, once it has anything of it.
Heard(b) == data[b].known > 0 /\ \A c \in Boot : c > b => data[c].latest = 0

\* The copy lacks no prefix that the publications it covers leave valid,
\* whether it was built from publications or from a snapshot; and nothing of
\* the router's own prefixes once it covers all publications, through
\* announcements for several faces, changes of the validity period,
\* withdrawals and expiry, of which each is to be published.
CopyLacksNothing ==
    /\ \A b \in Boot : Heard(b) => Included(Valid(Replay(log[b], data[b].known)), Valid(app))
    /\ data[boot].known = Len(log[boot]) => Included(Valid(Validities(me)), Valid(app))
=============================================================================
