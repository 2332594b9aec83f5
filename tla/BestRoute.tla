----------------------------- MODULE BestRoute -----------------------------
(***************************************************************************)
(* The choice of a next hop by the best-route strategy (bestroute.go).     *)
(* Next hops are records with a face and a cost, at their places in a      *)
(* list some of which may be left out; an out-record is the time of the    *)
(* last Interest sent to a face, or Never.                                 *)
(***************************************************************************)
EXTENDS Naturals, Sequences, FiniteSetsExt

CONSTANTS
    SuppressionTime,
    Never           \* no out-record

ASSUME BestRouteAssumption == SuppressionTime \in Nat /\ Never \notin Nat

\* The orders sort.Slice may leave: by cost, ties in any order.
SortedHops(hops) ==
    LET idx == DOMAIN hops
        ordered(p) == \A i, j \in idx : i < j => hops[p[i]].cost <= hops[p[j]].cost
    IN  {[i \in idx |-> hops[p[i]]] : p \in {q \in [idx -> idx] :
            (\A i, j \in idx : q[i] = q[j] => i = j) /\ ordered(q)}}

\* Faulty variant: a tick short.
SuppressedShort(out, f, now) == out[f] # Never /\ out[f] + SuppressionTime > now + 1

Suppressed(out, f, now) == out[f] # Never /\ out[f] + SuppressionTime > now

\* Where the first pass ends: at a face used too recently, or at one without
\* out-record that takes the Interest.
FirstPassStops(sorted, out, usable, now) ==
    {i \in DOMAIN sorted : \/ Suppressed(out, sorted[i].face, now)
                           \/ out[sorted[i].face] = Never /\ sorted[i].face \in usable}

\* The second pass takes the first hop that works.
SecondPassStops(sorted, usable) == {i \in DOMAIN sorted : sorted[i].face \in usable}

\* The place of the hop that gets the Interest, 0 if none does.
ChosenHop(sorted, out, usable, now) ==
    LET first == FirstPassStops(sorted, out, usable, now)
        second == SecondPassStops(sorted, usable)
    IN  IF first # {}
        THEN IF Suppressed(out, sorted[Min(first)].face, now) THEN 0 ELSE Min(first)
        ELSE IF second # {} THEN Min(second) ELSE 0
=============================================================================
