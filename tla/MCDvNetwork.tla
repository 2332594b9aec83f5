---------------------------- MODULE MCDvNetwork -----------------------------
(***************************************************************************)
(* The routing protocol for TLC: DvNetwork on a line 2 - 3 - 4 whose end   *)
(* comes and goes, and on a triangle 1 - 2 - 3 with 4 behind it that       *)
(* breaks off once the routes are in place; and the exchange of numbered   *)
(* advertisements between two routers that DvNetwork takes for one step    *)
(* (DvAdvert).  They share no state, and a behaviour is one of either.     *)
(***************************************************************************)
EXTENDS DvNetwork, DvAdvert

VARIABLE part       \* "network" or "advert"

Line == {{2, 3}, {3, 4}}
Triangle == {{1, 2}, {1, 3}}
Tailed == Line \cup Triangle

Start == {Tailed, Line, {}}

\* Every advertisement parses, or the first one does not.
MCUnreadable == {{}, {<<1, 1>>}}

\* An exchange with nothing to do: number 0, which no advertisement has, is
\* announced, known and applied.
ExchangeAtRest ==
    /\ boot = 1 /\ seq = 0
    /\ syncs = {<<1, 0>>} /\ timers = {} /\ fetching = {} /\ handlers = {}
    /\ known = <<1, 0>> /\ nsAdvert = <<1, 0>> /\ applied = <<1, 0>>
    /\ update = FALSE /\ faults = 0 /\ bad = {}

\* Routers without links have nothing to do either.
PartsInit ==
    /\ part \in {"network", "advert"}
    /\ Init /\ (up = {} <=> part = "advert")
    /\ IF part = "advert" THEN AdvertInit ELSE ExchangeAtRest

PartsNext ==
    \/ part = "network" /\ Next /\ UNCHANGED <<part, advertVars>>
    \/ part = "advert" /\ AdvertNext /\ UNCHANGED <<part, vars>>

\* What each of them assumes; in the other's behaviours nothing that one of
\* them asks for is enabled.
PartsSpec == /\ PartsInit /\ [][PartsNext]_<<part, vars, advertVars>>
             /\ Fairness /\ AdvertFairness

----------------------------------------------------------------------------

\* Nothing to do for router n.
Quiet(n) ==
    /\ updates[n] = {} /\ jobs[n] = {}
    /\ nbrs[n] = {m \in Node : {n, m} \in up}
    /\ \A m \in nbrs[n] : stored[n][m] = advert[m]

\* In the line the link to 4 changes at any time.
LineChanges == up' \in {up, up \cup {{3, 4}}, up \ {{3, 4}}}

\* With the triangle, until the link change the routers take turns, lowest
\* first, and only the tail changes, once they are done.
TailBreaks ==
    IF changes' = 0
    THEN \A n \in Node : <<nbrs[n], stored[n], updates[n], jobs[n]>>' #
                         <<nbrs[n], stored[n], updates[n], jobs[n]>>
                            => \A k \in 1..(n - 1) : Quiet(k)
    ELSE changes = 0 => (\A n \in Node : Quiet(n)) /\ up' = up \ {{3, 4}}

LinkChanges ==
    IF Triangle \cap up = {} THEN LineChanges ELSE changes' <= 1 /\ TailBreaks
=============================================================================
