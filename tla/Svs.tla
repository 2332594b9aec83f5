-------------------------------- MODULE Svs ---------------------------------
(***************************************************************************)
(* State Vector Sync (std/sync/svs.go, svs_map.go): the instances of one   *)
(* group, each under a name of its own, and the Sync Interests between     *)
(* them.                                                                   *)
(*                                                                         *)
(* An instance keeps the latest number of every name and boot time it      *)
(* knows of, sends this vector when it publishes and when its timer        *)
(* expires, and merges the vectors it gets.  One that gets an outdated     *)
(* vector waits a short time whether others answer.  A passive instance    *)
(* publishes nothing and cannot sign: it keeps what it got and sends that. *)
(* SvsAlo stands on this: there, the latest number is learned at any time. *)
(*                                                                         *)
(* Time is left out: a timer may expire at any moment, and "updated within *)
(* the suppression period" may end at any moment.                          *)
(***************************************************************************)
EXTENDS Naturals, FiniteSets, Functions

CONSTANTS
    Node,           \* the names, numbered in the canonical order
    MayBePassive,   \* the instances that an operator may start as passive ones
    MaxSeq,         \* bound: publications under one boot time
    MaxBoot,        \* bound: boot times
    Future,         \* boot times more than a day in the future of the others
    MaxEvents,      \* bound: publications and stops, of all instances
    MaxInbox        \* bound: vectors an instance has yet to handle

SvsAssumption ==
    /\ Node \subseteq Nat /\ MayBePassive \subseteq Node
    /\ {MaxSeq, MaxBoot, MaxInbox} \subseteq Nat \ {0} /\ MaxEvents \in Nat
    /\ Future \subseteq 2 .. MaxBoot

VARIABLES
    passive,    \* the instances that run with o.Passive
    running,    \* the instances that run
    boot,       \* o.BootTime of each
    state,      \* the vector: <<name, boot time>> |-> number
    recent,     \* the names updated within the last SuppressionPeriod, by mtime
    suppress, merge,    \* merge is empty outside of suppression, where nobody reads it
    wires,      \* passiveWiresSv: <<name, boot time>> |-> a vector as received
    stored,     \* the wires in the store
    due,        \* the instances with a goroutine in sendSyncInterest
    persist,    \* passiveWillPersist
    inbox,      \* the vectors received and not yet handled
    events      \* how many publications and stops there have been

vars == <<passive, running, boot, state, recent, suppress, merge, wires, stored, due, persist,
          inbox, events>>

Boot == 1 .. MaxBoot
Nothing == <<>>

Get(sv, e) == IF e \in DOMAIN sv THEN sv[e] ELSE 0

\* The first entries of f, or of g where f has none.
Over(f, g) == [e \in DOMAIN f \cup DOMAIN g |-> IF e \in DOMAIN f THEN f[e] ELSE g[e]]

MergeMax(f, g) ==
    [e \in DOMAIN f \cup DOMAIN g |-> IF Get(f, e) > Get(g, e) THEN f[e] ELSE g[e]]

IsNewerThan(sv, other, newer(_, _)) ==
    \E e \in DOMAIN sv : e \in DOMAIN other => newer(sv[e], other[e])

\* An instance that is not up yet.
Init ==
    /\ passive \in SUBSET MayBePassive
    /\ running = {}
    /\ boot = [n \in Node |-> 1]
    /\ state = [n \in Node |-> Nothing]
    /\ recent = [n \in Node |-> {}]
    /\ suppress = [n \in Node |-> FALSE]
    /\ merge = [n \in Node |-> Nothing]
    /\ wires = [n \in Node |-> Nothing]
    /\ stored = [n \in Node |-> {}]
    /\ due = {} /\ persist = {}
    /\ inbox = [n \in Node |-> {}]
    /\ events = 0

-----------------------------------------------------------------------------
(* Starting and stopping. *)

\* NewSvSync and main.  A passive instance loads its wires, as if it received
\* them, and sends when they are handled.
Start(n) ==
    /\ n \notin running
    /\ running' = running \cup {n}
    /\ due' = IF n \in passive /\ stored[n] = {} THEN due ELSE due \cup {n}
    /\ inbox' = [inbox EXCEPT ![n] = IF n \in passive THEN stored[n] ELSE {}]
    /\ UNCHANGED <<passive, boot, state, recent, suppress, merge, wires, stored, persist,
                   events>>

\* The instance ends.  Stop persists the wires, a crash does not; the next
\* one starts under a later boot time, or from the persisted vector.
Stop(n, crash, b) ==
    /\ n \in running /\ events < MaxEvents
    /\ n \in passive => b = boot[n]
    /\ events' = events + 1
    /\ running' = running \ {n}
    /\ boot' = [boot EXCEPT ![n] = b]
    /\ state' = [state EXCEPT ![n] = IF b = boot[n] /\ n \notin passive THEN @ ELSE Nothing]
    /\ stored' = [stored EXCEPT ![n] = IF crash \/ wires[n] = Nothing THEN @ ELSE Range(wires[n])]
    /\ wires' = [wires EXCEPT ![n] = Nothing]
    /\ merge' = [merge EXCEPT ![n] = Nothing] /\ suppress' = [suppress EXCEPT ![n] = FALSE]
    /\ recent' = [recent EXCEPT ![n] = {}] /\ inbox' = [inbox EXCEPT ![n] = {}]
    /\ due' = due \ {n} /\ persist' = persist \ {n}
    /\ UNCHANGED passive

-----------------------------------------------------------------------------
(* Sending. *)

\* IncrSeqNo, and SetSeqNo of any later number.
SetSeqNo(n, seq) ==
    /\ n \in running \ passive
    /\ seq > Get(state[n], <<n, boot[n]>>)
    /\ events < MaxEvents /\ events' = events + 1
    /\ state' = [state EXCEPT ![n] = Over([e \in {<<n, boot[n]>>} |-> seq], @)]
    /\ due' = due \cup {n}
    /\ UNCHANGED <<passive, running, boot, recent, suppress, merge, wires, stored, persist, inbox>>

enterSteadyState(n) ==
    /\ suppress' = [suppress EXCEPT ![n] = FALSE]
    /\ merge' = [merge EXCEPT ![n] = Nothing]

\* What an instance sends: its vector, or the wires it has.
SyncData(n) == IF n \in passive THEN Range(wires[n]) ELSE {state[n]}

\* sendSyncInterest reaches some of the others.  encodeSyncData, which a
\* passive instance does not call, enters the steady state.
sendSyncInterest(n, to) ==
    /\ n \in due
    /\ due' = due \ {n}
    /\ inbox' = [r \in Node |-> IF r \in to THEN inbox[r] \cup SyncData(n) ELSE inbox[r]]
    /\ IF n \in passive THEN UNCHANGED <<suppress, merge>> ELSE enterSteadyState(n)
    /\ UNCHANGED <<passive, running, boot, state, recent, wires, stored, persist, events>>

Reached(n) == {r \in running \ {n} : Cardinality(inbox[r]) < MaxInbox}

\* Faulty variant: silent while somebody else has sent.
UpToDateAny(n) == merge[n] # Nothing

\* "MergedStateVector is up-to-date; no inconsistency".
UpToDate(n) == ~IsNewerThan(state[n], merge[n], >)

timerExpired(n) ==
    /\ n \in running
    /\ IF suppress[n] /\ UpToDate(n)
       THEN enterSteadyState(n) /\ UNCHANGED due
       ELSE due' = due \cup {n} /\ UNCHANGED <<suppress, merge>>
    /\ UNCHANGED <<passive, running, boot, state, recent, wires, stored, persist, inbox, events>>

-----------------------------------------------------------------------------
(* Receiving. *)

\* The entries are taken in the order of the names, the newest boot time of a
\* name first.
Before(e, f) == e[1] < f[1] \/ (e[1] = f[1] /\ e[2] > f[2])

\* "If any received BootstrapTime is more than 86400s in the future": the loop
\* ends there, and what came before has been taken.
FarFuture(sv) == {e \in DOMAIN sv : e[2] \in Future}
Taken(sv) == {e \in DOMAIN sv : \A f \in FarFuture(sv) : Before(e, f)}

Newer(n, sv) == {e \in Taken(sv) : sv[e] > Get(state[n], e)}
Older(n, sv) == {e \in Taken(sv) : sv[e] < Get(state[n], e)}

\* Faulty variant: every wire is kept, also an outdated one.
BufferedLast(n, sv) == IF n \in passive THEN Taken(sv) ELSE {}

Buffered(n, sv) == IF n \in passive THEN Taken(sv) \ Older(n, sv) ELSE {}

\* "If every node with an outdated sequence number in the incoming state
\* vector was updated in the last SuppressionPeriod", this vector included.
CanDrop(n, sv) ==
    /\ Older(n, sv) # {}
    /\ \A e \in Older(n, sv) :
           e[1] \in recent[n] \/ \E f \in Newer(n, sv) : f[1] = e[1] /\ Before(f, e)

Outdated(n, sv) == Older(n, sv) # {} \/ ~(DOMAIN state[n] \subseteq DOMAIN sv)

\* What the rest of onReceiveStateVector makes of the suppression state.
Suppressed(n, sv) ==
    IF FarFuture(sv) # {} THEN suppress[n]
    ELSE Outdated(n, sv) /\ (suppress[n] \/ ~CanDrop(n, sv))

onReceiveStateVector(n, sv) ==
    /\ sv \in inbox[n]
    /\ inbox' = [inbox EXCEPT ![n] = @ \ {sv}]
    /\ state' = [state EXCEPT ![n] = Over(Restrict(sv, Newer(n, sv)), @)]
    /\ recent' = [recent EXCEPT ![n] = @ \cup {e[1] : e \in Newer(n, sv)}]
    /\ wires' = [wires EXCEPT ![n] = Over([e \in Buffered(n, sv) |-> sv], @)]
    /\ merge' = [merge EXCEPT ![n] = IF suppress[n] /\ Suppressed(n, sv)
                                     THEN MergeMax(@, Restrict(sv, Taken(sv))) ELSE Nothing]
    /\ suppress' = [suppress EXCEPT ![n] = Suppressed(n, sv)]
    /\ persist' = IF n \in passive /\ FarFuture(sv) = {} THEN persist \cup {n} ELSE persist
    /\ UNCHANGED <<passive, running, boot, stored, due, events>>

\* The face of the engine is up again.
FaceUp(n) ==
    /\ n \in running
    /\ due' = due \cup {n}
    /\ UNCHANGED <<passive, running, boot, state, recent, suppress, merge, wires, stored,
                   persist,
                   inbox, events>>

\* The suppression period after an update is over.
PeriodEnds(n) ==
    /\ recent[n] # {}
    /\ recent' = [recent EXCEPT ![n] = {}]
    /\ UNCHANGED <<passive, running, boot, state, suppress, merge, wires, stored, due,
                   persist, inbox, events>>

\* persistPassiveWires, 5 s after a vector was received.
persistPassiveWires(n) ==
    /\ n \in persist
    /\ persist' = persist \ {n}
    /\ stored' = [stored EXCEPT ![n] = IF wires[n] = Nothing THEN @ ELSE Range(wires[n])]
    /\ UNCHANGED <<passive, running, boot, state, recent, suppress, merge, wires, due,
                   inbox, events>>

-----------------------------------------------------------------------------
Next ==
    \/ \E n \in Node :
        \/ Start(n)
        \/ \E crash \in BOOLEAN, b \in boot[n] .. MaxBoot : Stop(n, crash, b)
        \/ \E seq \in 1 .. MaxSeq : SetSeqNo(n, seq)
        \/ \E to \in SUBSET Reached(n) : sendSyncInterest(n, to)
        \/ timerExpired(n) \/ FaceUp(n) \/ PeriodEnds(n) \/ persistPassiveWires(n)
        \/ \E sv \in inbox[n] : onReceiveStateVector(n, sv)

\* The timer of an instance expires again and again, unless vectors as new as
\* its own reset it over and over, and within the suppression period if none
\* does.  The goroutines run, time passes, and from one instance to another
\* not every Sync Interest is lost.
Fairness ==
    \A n \in Node :
        /\ WF_vars(timerExpired(n) \/ \E sv \in inbox[n] :
                        ~Outdated(n, sv) /\ onReceiveStateVector(n, sv))
        /\ WF_vars(suppress[n] /\ timerExpired(n))
        /\ WF_vars(\E to \in SUBSET Reached(n) : sendSyncInterest(n, to))
        /\ \A r \in Node \ {n} :
               SF_vars(\E to \in SUBSET Reached(n) : r \in to /\ sendSyncInterest(n, to))
        /\ WF_vars(\E sv \in inbox[n] : onReceiveStateVector(n, sv))
        /\ WF_vars(PeriodEnds(n))

Spec == Init /\ [][Next]_vars /\ Fairness

-----------------------------------------------------------------------------
(* Properties. *)

\* All that a passive instance knows, it can tell: for every name and boot
\* time it has a vector signed by a publisher that says the number it knows,
\* whatever it received in which order and loaded after which crash.
PassiveCanTell ==
    \A n \in passive \cap running : \A e \in DOMAIN state[n] :
        e \in DOMAIN wires[n] /\ Get(wires[n][e], e) = state[n][e]

\* The clock of an instance is, or was, a day ahead.
Skewed == \E n \in Node : boot[n] \in Future

\* When publications and restarts have ended, the instances that run come to
\* know the same, passive ones too and of publishers that are gone too,
\* although most of them stay silent most of the time.
VectorsAgree == <>[](Skewed \/ \A n, m \in running : state[n] = state[m])
=============================================================================
