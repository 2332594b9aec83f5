------------------------------- MODULE Engine -------------------------------
(***************************************************************************)
(* The engine of an application (std/engine/basic): the Interests it has   *)
(* expressed, and the handlers for Interests it gets.                      *)
(*                                                                         *)
(* Data and Nacks are handled by the engine's own goroutine; the timeout   *)
(* of an Interest by a goroutine of its own, which holds the node that the *)
(* Interest was put into.  The callbacks run after the lock on the PIT is  *)
(* given back.  A callback may express the next Interest, as anybody may   *)
(* at any time.                                                            *)
(***************************************************************************)
EXTENDS NameTrie, FiniteSets

CONSTANTS
    Name,           \* names, as sequences of components
    Digest,         \* implicit digests of Data
    None,
    MaxCalls        \* bound: calls of Express and AttachHandler

EngineAssumption ==
    /\ Name \subseteq Seq(Nat) /\ <<>> \notin Name
    /\ None \notin Digest
    /\ MaxCalls \in Nat

VARIABLES
    running,    \* the engine's goroutine runs
    fib, pit,   \* name tries: of handlers, and of sets of pending Interests
    handlers,   \* the prefixes with a handler that nobody has detached
    asked,      \* the Interests in the order of Express
    late,       \* those whose deadline has passed
    timers,     \* those whose timer is set
    firing,     \* those whose timer is up: onExpressTimeout is about to run
    answering,  \* popped by the engine's goroutine, their callbacks due
    expiring,   \* popped by a timeout, their callbacks due
    called,     \* how many times the callback of each was called
    attached    \* calls of AttachHandler

vars == <<running, fib, pit, handlers, asked, late, timers, firing, answering, expiring, called,
          attached>>

Init ==
    /\ running = FALSE
    /\ fib = NewNameTrie(None) /\ pit = NewNameTrie({})
    /\ handlers = {} /\ attached = 0
    /\ asked = <<>> /\ called = <<>>
    /\ late = {} /\ timers = {} /\ firing = {} /\ answering = {} /\ expiring = {}

MayCall == Len(asked) + attached < MaxCalls

-----------------------------------------------------------------------------
(* The engine's goroutine, and handlers. *)

Start ==
    /\ ~running
    /\ running' = TRUE
    /\ UNCHANGED <<fib, pit, handlers, asked, late, timers, firing, answering, expiring, called,
                   attached>>

\* The goroutine ends between two packets.
Stop ==
    /\ running /\ answering = {}
    /\ running' = FALSE
    /\ UNCHANGED <<fib, pit, handlers, asked, late, timers, firing, answering, expiring, called,
                   attached>>

AttachHandler(p) ==
    LET t == WithNode(fib, p, None)
        n == ExactMatch(t, p)
    IN  /\ MayCall /\ attached' = attached + 1
        /\ fib' = [t EXCEPT ![n].val = IF @ = None THEN p ELSE @]
        /\ handlers' = handlers \cup {p}
        /\ UNCHANGED <<running, pit, asked, late, timers, firing, answering, expiring, called>>

DetachHandler(p) ==
    LET n == ExactMatch(fib, p)
    IN  /\ n # NoNode
        /\ fib' = Prune([fib EXCEPT ![n].val = None], n)
        /\ handlers' = handlers \ {p}
        /\ UNCHANGED <<running, pit, asked, late, timers, firing, answering, expiring, called,
                       attached>>

\* The handler that onInterest calls.
HandlerOf(name) ==
    LET holders == {n \in OnPath(fib, name) : fib[n].val # None}
    IN  IF holders = {} THEN None
        ELSE fib[CHOOSE n \in holders :
                     \A m \in holders : Len(fib[m].name) <= Len(fib[n].name)].val

-----------------------------------------------------------------------------
(* Interests. *)

Empty(val) == val = {}

\* Faulty variant: the timer is up before the deadline.
UpEarly(i) == i \in timers

\* The timer is set to the lifetime and TimeoutMargin.
Up(i) == i \in timers \cap late

\* Whether or not the face takes the Interest, it is pending.
Express(name, canBePrefix, digest) ==
    LET t == WithNode(pit, name, {})
        n == ExactMatch(t, name)
        i == Len(asked) + 1
    IN  /\ MayCall
        /\ pit' = [t EXCEPT ![n].val = @ \cup {i}]
        /\ asked' = Append(asked, [node |-> n, name |-> name, canBePrefix |-> canBePrefix,
                                   digest |-> digest])
        /\ called' = Append(called, 0)
        /\ timers' = timers \cup {i}
        /\ UNCHANGED <<running, fib, handlers, late, firing, answering, expiring, attached>>

\* The Interests that a Data packet satisfies, at the nodes of its prefixes.
Satisfied(name, digest) ==
    {i \in UNION {pit[n].val : n \in OnPath(pit, name)} :
        /\ asked[i].name = name \/ asked[i].canBePrefix
        /\ asked[i].digest \in {None, digest}}

\* OnDataHook comes first.  Its error is what the callbacks are told in place
\* of the Data: they are called all the same, and the PIT is no different.
onData(name, digest) ==
    LET got == Satisfied(name, digest)
    IN  /\ running /\ answering = {} /\ got # {}
        /\ pit' = PruneIf([n \in DOMAIN pit |-> [pit[n] EXCEPT !.val = @ \ got]],
                          PrefixMatch(pit, name), Empty)
        /\ answering' = got
        /\ UNCHANGED <<running, fib, handlers, asked, late, timers, firing, expiring, called,
                       attached>>

onNack(name) ==
    LET n == ExactMatch(pit, name)
    IN  /\ running /\ answering = {} /\ n # NoNode
        /\ answering' = pit[n].val
        /\ pit' = Prune([pit EXCEPT ![n].val = {}], n)
        /\ UNCHANGED <<running, fib, handlers, asked, late, timers, firing, expiring, called,
                       attached>>

\* The next callback of the engine's goroutine, after the timer is cancelled.
Answer(i) ==
    /\ i \in answering
    /\ answering' = answering \ {i}
    /\ timers' = timers \ {i}
    /\ called' = [called EXCEPT ![i] = @ + 1]
    /\ UNCHANGED <<running, fib, pit, handlers, asked, late, firing, expiring, attached>>

DeadlinePasses(i) ==
    /\ i \in DOMAIN asked \ late /\ called[i] = 0
    /\ late' = late \cup {i}
    /\ UNCHANGED <<running, fib, pit, handlers, asked, timers, firing, answering, expiring,
                   called, attached>>

TimerFires(i) ==
    /\ Up(i)
    /\ timers' = timers \ {i} /\ firing' = firing \cup {i}
    /\ UNCHANGED <<running, fib, pit, handlers, asked, late, answering, expiring, called,
                   attached>>

\* All of the node's Interests whose deadline has passed, not only this one.
onExpressTimeout(i) ==
    LET n   == asked[i].node
        out == pit[n].val \cap late
    IN  /\ i \in firing
        /\ firing' = firing \ {i}
        /\ expiring' = expiring \cup out
        /\ pit' = PruneIf([pit EXCEPT ![n].val = @ \ out], n, Empty)
        /\ UNCHANGED <<running, fib, handlers, asked, late, timers, answering, called, attached>>

\* The callback for a timeout.
TimedOut(i) ==
    /\ i \in expiring
    /\ expiring' = expiring \ {i}
    /\ called' = [called EXCEPT ![i] = @ + 1]
    /\ UNCHANGED <<running, fib, pit, handlers, asked, late, timers, firing, answering, attached>>

-----------------------------------------------------------------------------
Next ==
    \/ Start \/ Stop
    \/ \E p \in Name : AttachHandler(p) \/ DetachHandler(p)
    \/ \E name \in Name :
        \/ \E canBePrefix \in BOOLEAN, digest \in Digest \cup {None} :
               Express(name, canBePrefix, digest)
        \/ \E digest \in Digest : onData(name, digest)
        \/ onNack(name)
    \/ \E i \in DOMAIN asked :
        Answer(i) \/ DeadlinePasses(i) \/ TimerFires(i) \/ onExpressTimeout(i) \/ TimedOut(i)

\* Time passes, and goroutines run.
Fairness ==
    \A i \in 1 .. MaxCalls :
        /\ WF_vars(i \in DOMAIN asked /\ DeadlinePasses(i))
        /\ WF_vars(i \in DOMAIN asked /\ (TimerFires(i) \/ onExpressTimeout(i)))
        /\ WF_vars(i \in DOMAIN asked /\ (Answer(i) \/ TimedOut(i)))

Spec == Init /\ [][Next]_vars /\ Fairness

-----------------------------------------------------------------------------
(* Properties. *)

\* Every Interest is called back just once, however its Data, its Nack, its
\* own timeout and that of other Interests for the name race, and also if the
\* engine stops or its node is deleted from the trie.
CalledBackOnce ==
    /\ [](\A i \in DOMAIN called : called[i] <= 1)
    /\ \A i \in 1 .. MaxCalls : i \in DOMAIN called ~> i \in DOMAIN called /\ called[i] = 1

\* "PruneIf deletes the node and its ancestors if they are empty": what is
\* pending is found when its Data comes, and the handlers that are attached
\* are found when an Interest comes.
EntriesFound ==
    /\ \A n \in DOMAIN pit : pit[n].val # {} => n \in Found(pit)
    /\ \A p \in handlers : HandlerOf(p) = p
=============================================================================
