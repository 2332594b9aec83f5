------------------------------ MODULE MCClient ------------------------------
(***************************************************************************)
(* A client for TLC: the objects it fetches (SegFetch), and the Interests  *)
(* it expresses and answers (Engine).  SegFetch takes from the engine that *)
(* an Interest is called back once.  The two share no state, and a         *)
(* behaviour is one of either.                                             *)
(***************************************************************************)
EXTENDS TLC

CONSTANTS
    Digest, None, MaxCalls,
    Window, Timer, MaxFaults, a, b

VARIABLES
    layer,          \* "object" or "interest"
    running, fib, pit, handlers, asked, late, timers, firing, answering, expiring, called, attached,
    load, phase, tries, streams, rrIndex, outstanding, retxQueue, txCounter, segCnt,
    pending, fetching, content, result, flight, validating, pc, faults, excuse

\* A prefix and a name under it.
Names == {<<1>>, <<1, 1>>}

Load(size, latest, cached, maxRetries) ==
    [size |-> size, latest |-> latest, cached |-> cached, maxRetries |-> maxRetries]

\* An object of two segments that may be asked for twice, one whose certificate
\* is to be fetched, and two objects that compete for the window.
Workloads ==
    {Load(a :> 2, {}, TRUE, 2), Load(a :> 2, {}, FALSE, 1), Load(a :> 1 @@ b :> 1, {b}, TRUE, 1)}

Interests == INSTANCE Engine WITH Name <- Names
Objects == INSTANCE SegFetch WITH Loads <- Workloads

ASSUME Interests!EngineAssumption
ASSUME Objects!SegFetchAssumption

engineVars == <<running, fib, pit, handlers, asked, late, timers, firing, answering, expiring,
                called, attached>>
fetchVars == <<load, phase, tries, streams, rrIndex, outstanding, retxQueue, txCounter,
               segCnt, pending, fetching, content, result, flight, validating, pc, faults, excuse>>

ClientInit ==
    /\ layer \in {"object", "interest"}
    /\ Interests!Init /\ Objects!Init
    /\ layer # "object" => load = CHOOSE l \in Workloads : TRUE

ClientNext ==
    \/ layer = "interest" /\ Interests!Next /\ UNCHANGED <<layer, fetchVars>>
    \/ layer = "object" /\ Objects!Next /\ UNCHANGED <<layer, engineVars>>

\* What each assumes; nothing of it is enabled in the one that has not been
\* asked for anything.
ClientSpec ==
    /\ ClientInit /\ [][ClientNext]_<<layer, engineVars, fetchVars>>
    /\ Interests!Fairness /\ Objects!Fairness

\* Interests!CalledBackOnce: every Interest is called back just once.
CalledBackOnce == Interests!CalledBackOnce

\* Interests!EntriesFound: what is pending or attached is found in its trie.
EntriesFound == Interests!EntriesFound

\* Objects!FetchesWhole: every fetch ends but for named reasons, and what it
\* got is whole.
FetchesWhole == Objects!FetchesWhole
=============================================================================
