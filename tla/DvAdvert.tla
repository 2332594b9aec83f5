------------------------------ MODULE DvAdvert ------------------------------
(***************************************************************************)
(* How a router learns of a neighbour's advertisements (advert_sync.go and *)
(* advert_data.go of dv/dv): the neighbour numbers its advertisements and  *)
(* announces the latest in sync Interests; the router fetches what it has  *)
(* not seen and applies it.  Timers, fetches and handlers run in their own *)
(* goroutines, and the neighbour may restart with a new boot time.         *)
(*                                                                         *)
(* An advertisement is its version, a pair of boot time and sequence       *)
(* number; Data of a version can still arrive after the neighbour          *)
(* restarted, since it may be under way or in a cache.                     *)
(***************************************************************************)
EXTENDS Naturals

CONSTANTS
    MaxSeq,     \* advertisements per boot of the neighbour
    MaxFaults,  \* restarts of the neighbour and times it is taken for dead
    Unreadable, \* possible sets of versions whose content does not parse
    NoVersion   \* no version

VARIABLES
    boot, seq,  \* the neighbour's bootTime and seq
    syncs,      \* versions in sync Interests sent so far
    known,      \* AdvertBoot and AdvertSeq of the neighbour, if it is in the table
    timers,     \* versions whose dataFetch was scheduled
    fetching,   \* versions that Consume is fetching
    handlers,   \* versions whose Data a dataHandler goroutine holds
    nsAdvert,   \* ns.Advert
    update,     \* updateRib was started
    applied,    \* the advertisement the RIB reflects
    faults,
    bad         \* versions whose content ParseAdvertisement refuses

advertVars == <<boot, seq, syncs, known, timers, fetching, handlers, nsAdvert, update,
                applied, faults, bad>>

Boot == 1..(MaxFaults + 1)
Version == Boot \X (1..MaxSeq)

ASSUME DvAdvertAssumption ==
    /\ MaxSeq \in Nat \ {0} /\ MaxFaults \in Nat
    /\ Unreadable \subseteq SUBSET Version
    /\ NoVersion \notin Version

AdvertInit ==
    /\ boot = 1 /\ seq = 1
    /\ syncs = {} /\ timers = {} /\ fetching = {} /\ handlers = {}
    /\ known = NoVersion /\ nsAdvert = NoVersion /\ applied = NoVersion
    /\ update = FALSE
    /\ faults = 0
    /\ bad \in Unreadable

----------------------------------------------------------------------------
(* The neighbour *)

generate ==
    /\ seq < MaxSeq
    /\ seq' = seq + 1
    /\ UNCHANGED <<boot, syncs, known, timers, fetching, handlers, nsAdvert, update,
                   applied, faults, bad>>

\* By generate, and again with every heartbeat.
SendSyncInterest ==
    /\ syncs' = syncs \cup {<<boot, seq>>}
    /\ UNCHANGED <<boot, seq, known, timers, fetching, handlers, nsAdvert, update,
                   applied, faults, bad>>

Restart ==
    /\ faults < MaxFaults
    /\ faults' = faults + 1
    /\ boot' = boot + 1
    /\ seq' = 1
    /\ UNCHANGED <<syncs, known, timers, fetching, handlers, nsAdvert, update, applied, bad>>

----------------------------------------------------------------------------
(* The router *)

\* The test of onStateVector for "nothing has changed".
NothingNew(v) == known # NoVersion /\ known[1] >= v[1] /\ known[2] >= v[2]

\* A sync Interest arrives with something new and its validation finishes, at
\* any time after it was sent and more than once, or never.
onStateVector(v) ==
    /\ v \in syncs
    /\ ~NothingNew(v)
    /\ known' = v
    /\ timers' = timers \cup {v}
    /\ UNCHANGED <<boot, seq, syncs, fetching, handlers, nsAdvert, update, applied,
                   faults, bad>>

\* The timer fires; the fetch starts unless another version is wanted by now.
DataFetch(v) ==
    /\ v \in timers
    /\ timers' = timers \ {v}
    /\ fetching' = IF known = v THEN fetching \cup {v} ELSE fetching
    /\ UNCHANGED <<boot, seq, syncs, known, handlers, nsAdvert, update, applied, faults, bad>>

\* Faulty variant: a failed fetch is not repeated.
FetchFailedOnce(v) ==
    /\ v \in fetching
    /\ fetching' = fetching \ {v}
    /\ UNCHANGED <<boot, seq, syncs, known, timers, handlers, nsAdvert, update, applied,
                   faults, bad>>

\* A failed fetch is repeated a second later.
FetchFailed(v) ==
    /\ v \in fetching
    /\ fetching' = fetching \ {v}
    /\ timers' = timers \cup {v}
    /\ UNCHANGED <<boot, seq, syncs, known, handlers, nsAdvert, update, applied, faults, bad>>

FetchDone(v) ==
    /\ v \in fetching
    /\ fetching' = fetching \ {v}
    /\ handlers' = handlers \cup {v}
    /\ UNCHANGED <<boot, seq, syncs, known, timers, nsAdvert, update, applied, faults, bad>>

\* Faulty variant: takes what it fetched for the latest.
IsLatestAlways(v) == known # NoVersion

\* dataHandler's test for the latest advertisement: only the sequence number.
IsLatest(v) == known # NoVersion /\ known[2] = v[2]

\* Data that is not of the latest advertisement, or does not parse, is dropped.
dataHandler(v) ==
    LET stores == IsLatest(v) /\ v \notin bad
    IN  /\ v \in handlers
        /\ handlers' = handlers \ {v}
        /\ nsAdvert' = IF stores THEN v ELSE nsAdvert
        /\ update' = (update \/ stores)
        /\ UNCHANGED <<boot, seq, syncs, known, timers, fetching, applied, faults, bad>>

\* updateRib applies what is stored when it runs.
updateRib ==
    /\ update
    /\ update' = FALSE
    /\ applied' = nsAdvert
    /\ UNCHANGED <<boot, seq, syncs, known, timers, fetching, handlers, nsAdvert, faults, bad>>

\* checkDeadNeighbors removes the neighbour, its advertisement and routes; a
\* pending updateRib has nothing to do.
Dead ==
    /\ faults < MaxFaults
    /\ known # NoVersion
    /\ faults' = faults + 1
    /\ known' = NoVersion /\ nsAdvert' = NoVersion /\ applied' = NoVersion
    /\ update' = FALSE
    /\ UNCHANGED <<boot, seq, syncs, timers, fetching, handlers, bad>>

AdvertNext ==
    \/ generate \/ SendSyncInterest \/ Restart
    \/ \E v \in Version : \/ onStateVector(v) \/ DataFetch(v)
                          \/ FetchFailed(v) \/ FetchDone(v)
                          \/ dataHandler(v)
    \/ updateRib \/ Dead

\* Heartbeats repeat sync Interests and fetches are retried: what the
\* neighbour sends again and again, and what is fetched from it again and
\* again, gets through some time.  Timers fire and goroutines run.
AdvertFairness ==
    /\ WF_advertVars(SendSyncInterest)
    /\ SF_advertVars(onStateVector(<<boot, seq>>))
    /\ SF_advertVars(FetchDone(<<boot, seq>>))
    /\ WF_advertVars(\E v \in Version : DataFetch(v))
    /\ WF_advertVars(\E v \in Version : dataHandler(v))
    /\ WF_advertVars(updateRib)

AdvertSpec == AdvertInit /\ [][AdvertNext]_advertVars
AdvertFairSpec == AdvertSpec /\ AdvertFairness

----------------------------------------------------------------------------
(* Properties *)

\* Every variable has its type.
AdvertTypeOK ==
    /\ boot \in 1..(faults + 1) /\ seq \in 1..MaxSeq
    /\ syncs \in SUBSET Version /\ timers \in SUBSET Version
    /\ fetching \in SUBSET Version /\ handlers \in SUBSET Version
    /\ known \in Version \cup {NoVersion}
    /\ nsAdvert \in Version \cup {NoVersion} /\ applied \in Version \cup {NoVersion}
    /\ update \in BOOLEAN
    /\ faults \in 0..MaxFaults
    /\ bad \in SUBSET Version

\* As long as the neighbour has not restarted, an advertisement is never
\* replaced by an older one, however late its Data comes.
AdvertNeverOlder ==
    [][boot' = 1 /\ nsAdvert # NoVersion /\ nsAdvert' # NoVersion
           => nsAdvert'[2] >= nsAdvert[2]]_advertVars

\* The latest advertisement of a neighbour that does not restart is applied
\* in the end, unless it does not parse: with lost sync Interests, failed fetches,
\* false deaths, and others before it that were dropped.
EventuallyLatest == <>[](boot > 1 \/ applied = <<boot, seq>> \/ <<boot, seq>> \in bad)

\* What the router wants is never forgotten, across restarts, deaths and failed
\* fetches: it is about to be fetched, being fetched or handled, or an
\* advertisement of that number is stored and applied or about to be.  Only what
\* does not parse is given up.
WantedNotForgotten ==
    known # NoVersion /\ known \notin bad =>
        \/ known \in timers \cup fetching \cup handlers
        \/ /\ nsAdvert # NoVersion /\ nsAdvert[2] = known[2]
           /\ update \/ applied = nsAdvert
=============================================================================
