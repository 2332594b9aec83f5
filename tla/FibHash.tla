------------------------------- MODULE FibHash ------------------------------
(***************************************************************************)
(* The FIB and strategy table as a hash table:                             *)
(* fw/table/fib-strategy-hashtable.go.                                     *)
(*                                                                         *)
(* Names shorter than m components are looked up one length after the      *)
(* other.  For longer ones a virtual node, the prefix of m components,     *)
(* says how long the longest entry below it is.  A hash is taken to be the *)
(* name itself; an entry has a set of next hops, as their order and costs  *)
(* matter to no operation of the table.                                    *)
(*                                                                         *)
(* Commands write single next hops and strategies; the RIB                 *)
(* (fw/table/rib.go) clears the next hops of a name and inserts the new    *)
(* ones, one critical section each.                                        *)
(***************************************************************************)
EXTENDS Naturals, Sequences, FiniteSets, FiniteSetsExt, SequencesExt

CONSTANTS
    m,          \* the length of virtual names
    Component,
    Name,       \* the names entries are made for, the empty one among them
    Lookup,     \* the names that are looked up
    Face,
    Strategy, Default,  \* strategies, and the one of the root
    None        \* no strategy

FibHashAssumption ==
    /\ m \in Nat \ {0}
    /\ Name \cup Lookup \subseteq Seq(Component)
    /\ <<>> \in Name
    /\ Default \in Strategy /\ None \notin Strategy

VARIABLES
    realTable,      \* the entries by name
    virtTable,      \* md by virtual name
    virtTableNames, \* sets of names by virtual name
    update,         \* updateNexthopsEnc of the RIB: the next hops still to insert
    registered      \* what was asked for: next hops and strategy of each name

vars == <<realTable, virtTable, virtTableNames, update, registered>>

NoUpdate == [name |-> <<>>, todo |-> {}]

\* newFibStrategyTableHashTable.
Init ==
    /\ realTable = [n \in {<<>>} |-> [nexthops |-> {}, strategy |-> Default]]
    /\ virtTable = <<>> /\ virtTableNames = <<>>
    /\ update = NoUpdate
    /\ registered = [n \in Name |-> [hops |-> {}, strategy |-> IF n = <<>> THEN Default ELSE None]]

-----------------------------------------------------------------------------
(* Lookups. *)

RealPrefixes(name, from, to) == {n \in DOMAIN realTable : IsPrefix(n, name) /\ from <= Len(n) /\ Len(n) <= to}

Longest(names) == CHOOSE n \in names : \A o \in names : Len(o) <= Len(n)

VirtualName(name) == SubSeq(name, 1, m)

\* The longest name below the virtual node there may be an entry for.
SearchDepth(name) ==
    IF VirtualName(name) \in DOMAIN virtTable THEN Min({virtTable[VirtualName(name)], Len(name)}) ELSE 0

findLongestPrefixMatch(name) ==
    LET below == IF Len(name) <= m THEN {} ELSE RealPrefixes(name, m + 1, SearchDepth(name))
    IN  IF below # {} THEN Longest(below) ELSE Longest(RealPrefixes(name, 0, Min({m, Len(name)})))

\* "Go backwards to find the first entry with nexthops".
FindNextHops(name) ==
    LET with == {n \in RealPrefixes(name, 0, Len(findLongestPrefixMatch(name))) : realTable[n].nexthops # {}}
    IN  IF with = {} THEN {} ELSE realTable[Longest(with)].nexthops

FindStrategy(name) ==
    LET with == {n \in RealPrefixes(name, 0, Len(findLongestPrefixMatch(name))) : realTable[n].strategy # None}
    IN  IF with = {} THEN None ELSE realTable[Longest(with)].strategy

-----------------------------------------------------------------------------
(* Insertion and pruning. *)

\* f with x mapped to y, and f without x.
Put(f, x, y) == [z \in DOMAIN f \cup {x} |-> IF z = x THEN y ELSE f[z]]
Drop(f, x) == [z \in DOMAIN f \ {x} |-> f[z]]

NewEntry == [nexthops |-> {}, strategy |-> None]

Entry(name) == IF name \in DOMAIN realTable THEN realTable[name] ELSE NewEntry

Depth(v) == IF v \in DOMAIN virtTable THEN virtTable[v] ELSE 0
Below(v) == IF v \in DOMAIN virtTableNames THEN virtTableNames[v] ELSE {}

\* md once the name is there.
Deeper(name) == Max({Depth(VirtualName(name)), Len(name)})

\* insertEntryEnc: the tables with an entry for the name.
InsertEntry(name, entry) ==
    /\ realTable' = Put(realTable, name, entry)
    /\ IF Len(name) >= m
       THEN /\ virtTable' = Put(virtTable, VirtualName(name), Deeper(name))
            /\ virtTableNames' = Put(virtTableNames, VirtualName(name), Below(VirtualName(name)) \cup {name})
       ELSE UNCHANGED <<virtTable, virtTableNames>>

\* Faulty variant: an entry without next hops is removed, its strategy with it.
UnusedHopless(entry) == entry.nexthops = {}

\* An entry without next hops and strategy is removed.
Unused(entry) == entry.nexthops = {} /\ entry.strategy = None

\* pruneTables, of an entry that is to be changed to the given one.  md is
\* updated to the largest of itself and the lengths that are left.
PruneTables(name, entry) ==
    LET v == VirtualName(name)
        left == Below(v) \ {name}
    IN  IF ~Unused(entry)
        THEN realTable' = Put(realTable, name, entry) /\ UNCHANGED <<virtTable, virtTableNames>>
        ELSE /\ realTable' = Drop(realTable, name)
             /\ IF Len(name) >= m /\ v \in DOMAIN virtTable
                THEN /\ virtTableNames' = IF left = {} THEN Drop(virtTableNames, v)
                                          ELSE Put(virtTableNames, v, left)
                     /\ virtTable' = IF Len(name) # virtTable[v] THEN virtTable
                                     ELSE IF left = {} THEN Drop(virtTable, v)
                                     ELSE Put(virtTable, v, Max({virtTable[v]} \cup {Len(n) : n \in left}))
                ELSE UNCHANGED <<virtTable, virtTableNames>>

-----------------------------------------------------------------------------
(* Operations, each under the table's mutex. *)

Insert(name, f) ==
    /\ InsertEntry(name, [Entry(name) EXCEPT !.nexthops = @ \cup {f}])
    /\ registered' = [registered EXCEPT ![name].hops = @ \cup {f}]

\* A fib/add-nexthop command.
InsertNextHop(name, f) == Insert(name, f) /\ UNCHANGED update

\* A fib/remove-nexthop command.
RemoveNextHop(name, f) ==
    /\ name \in DOMAIN realTable /\ f \in realTable[name].nexthops
    /\ PruneTables(name, [realTable[name] EXCEPT !.nexthops = @ \ {f}])
    /\ registered' = [registered EXCEPT ![name].hops = @ \ {f}]
    /\ UNCHANGED update

SetStrategy(name, s) ==
    /\ InsertEntry(name, [Entry(name) EXCEPT !.strategy = s])
    /\ registered' = [registered EXCEPT ![name].strategy = s]
    /\ UNCHANGED update

\* Management refuses to unset the strategy of the root.
UnSetStrategy(name) ==
    /\ name # <<>> /\ name \in DOMAIN realTable
    /\ PruneTables(name, [realTable[name] EXCEPT !.strategy = None])
    /\ registered' = [registered EXCEPT ![name].strategy = None]
    /\ UNCHANGED update

\* updateNexthopsEnc, for a command or for a face that is removed: the next
\* hops of the name are cleared ...
ClearNextHops(name, hops) ==
    /\ update = NoUpdate
    /\ IF name \in DOMAIN realTable
       THEN PruneTables(name, [realTable[name] EXCEPT !.nexthops = {}])
       ELSE UNCHANGED <<realTable, virtTable, virtTableNames>>
    /\ update' = IF hops = {} THEN NoUpdate ELSE [name |-> name, todo |-> hops]
    /\ registered' = [registered EXCEPT ![name].hops = {}]

\* ... and inserted one by one.
UpdateNextHop(f) ==
    /\ f \in update.todo
    /\ update' = IF update.todo = {f} THEN NoUpdate ELSE [update EXCEPT !.todo = @ \ {f}]
    /\ Insert(update.name, f)

Next ==
    \/ \E name \in Name :
           \/ \E f \in Face : InsertNextHop(name, f) \/ RemoveNextHop(name, f)
           \/ \E s \in Strategy : SetStrategy(name, s)
           \/ UnSetStrategy(name)
           \/ \E hops \in SUBSET Face : ClearNextHops(name, hops)
    \/ \E f \in Face : UpdateNextHop(f)

Spec == Init /\ [][Next]_vars

-----------------------------------------------------------------------------
(* Properties. *)

\* What was asked for at the longest prefix it was asked for.
WithHops(name) == {n \in Name : IsPrefix(n, name) /\ registered[n].hops # {}}
WithStrategy(name) == {n \in Name : IsPrefix(n, name) /\ registered[n].strategy # None}

\* Whatever was inserted, updated, removed and pruned, a lookup over the
\* virtual nodes finds the next hops and the strategy of the longest prefix
\* that has any.
FindsLongest ==
    \A name \in Lookup :
        /\ FindNextHops(name) = IF WithHops(name) = {} THEN {} ELSE registered[Longest(WithHops(name))].hops
        /\ FindStrategy(name) = registered[Longest(WithStrategy(name))].strategy

=============================================================================
