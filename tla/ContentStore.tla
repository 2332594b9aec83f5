---------------------------- MODULE ContentStore ----------------------------
(***************************************************************************)
(* The Content Store of a forwarding thread (the CS half of pit-cs-tree.go *)
(* with the replacement policy cs-lru.go).  A store is the LRU queue of    *)
(* names, the next to be evicted first, and the time each stored Data      *)
(* becomes stale; its contents are the names that have such a time.        *)
(***************************************************************************)
EXTENDS Naturals, Sequences, SequencesExt

CONSTANTS
    Name,
    Prefix      \* pairs <<n, m>> of names with n a prefix of m

\* Prefixes are ordered, and a name has only so many.
ASSUME ContentStoreAssumption ==
    /\ Prefix \subseteq Name \X Name
    /\ \A n \in Name : <<n, n>> \in Prefix
    /\ \A m, n \in Name : <<m, n>> \in Prefix /\ <<n, m>> \in Prefix => m = n
    /\ \A l, m, n \in Name : <<l, m>> \in Prefix /\ <<m, n>> \in Prefix => <<l, n>> \in Prefix
    /\ \A n \in Name : IsFiniteSet({m \in Name : <<m, n>> \in Prefix})

Extends(n) == {m \in Name : <<n, m>> \in Prefix}

EmptyCs == [queue |-> <<>>, stale |-> <<>>]

Stored(cs) == DOMAIN cs.stale

\* Move to the back, the place of the most recently used.
Touch(queue, n) == Append(SelectSeq(queue, LAMBDA m : m # n), n)

\* The front of the queue is erased until the rest fits.
EvictEntries(cs, capacity) ==
    LET over == IF Len(cs.queue) > capacity THEN Len(cs.queue) - capacity ELSE 0
        erased == Range(SubSeq(cs.queue, 1, over))
    IN  [queue |-> SubSeq(cs.queue, over + 1, Len(cs.queue)),
         stale |-> [n \in Stored(cs) \ erased |-> cs.stale[n]]]

\* Only a name that is new to the store makes room.
InsertData(cs, n, staleTime, capacity) ==
    LET added == [queue |-> Touch(cs.queue, n),
                  stale |-> [m \in Stored(cs) \cup {n} |->
                                IF m = n THEN staleTime ELSE cs.stale[m]]]
    IN  IF n \in Stored(cs) THEN added ELSE EvictEntries(added, capacity)

Acceptable(cs, n, mustBeFresh, now) ==
    n \in Stored(cs) /\ (mustBeFresh => now < cs.stale[n])

\* The names FindMatchingDataFromCS may return: with CanBePrefix the first that
\* is acceptable on some path down from the Interest's name, in map order.
FindMatching(cs, key, now) ==
    IF key.canBePrefix
    THEN LET found == {n \in Extends(key.name) : Acceptable(cs, n, key.mustBeFresh, now)}
         IN  {n \in found : \A m \in found : n \in Extends(m) => m = n}
    ELSE {n \in {key.name} : Acceptable(cs, n, key.mustBeFresh, now)}

\* A prefix match does not call BeforeUse.
Use(cs, key, n) ==
    IF key.canBePrefix THEN cs ELSE [cs EXCEPT !.queue = Touch(@, n)]
=============================================================================
