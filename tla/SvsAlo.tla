------------------------------- MODULE SvsAlo -------------------------------
(***************************************************************************)
(* The Sync transport of the prefix egress state (std/sync/svs_alo.go,     *)
(* svs_alo_data.go) with the snapshot strategy SnapshotNodeLatest: one     *)
(* publisher, which may restart under a later boot time, and one           *)
(* subscriber.                                                             *)
(*                                                                         *)
(* The publisher numbers its publications, keeps the recent ones, and      *)
(* keeps one snapshot of its state.  The subscriber learns the latest      *)
(* number from Sync Interests (here: at any time), fetches publications in *)
(* a pipeline, hands them to the application in order, and fetches the     *)
(* snapshot instead when it is new or too far behind.                      *)
(*                                                                         *)
(* A publication leaves for the application in the step that makes it      *)
(* known: the pipe in between is first-in first-out with one reader.       *)
(***************************************************************************)
EXTENDS Integers, Sequences, SequencesExt, FiniteSetsExt

CONSTANTS
    Threshold,      \* publications between two snapshots
    MaxPipeline,    \* MaxPipelineSize
    MaxSeq,         \* bound: publications of all boots together
    MaxBoot,        \* bound: boots of the publisher
    MayCongest,     \* whether the client may report congestion
    Empty,          \* the application before the first delivery
    Apply(_, _)     \* the application after a publication or a snapshot

Boot == 1..MaxBoot
SeqNo == 1..MaxSeq

VARIABLES
    boot,       \* of the publisher
    log,        \* boot |-> what it published
    snap,       \* boot |-> its snapshot, the number it covers and its content
    data,       \* boot |-> svsDataState of the subscriber
    fetches,    \* <<boot, seq>> |-> fetches under way, a retry timer included
    snapFetch,  \* the boots whose snapshot is being fetched
    app

pubVars == <<boot, log, snap>>
aloVars == <<boot, log, snap, data, fetches, snapFetch, app>>

\* NoSnap covers nothing.
NoSnap == [version |-> 0, content |-> Empty]

NoData == [known |-> 0, latest |-> 0, pending |-> 0, pubs |-> {}, block |-> 0]

MaxOf(a, b) == IF a > b THEN a ELSE b
MinOf(a, b) == IF a < b THEN a ELSE b

-----------------------------------------------------------------------------
(***************************************************************************)
(* The publisher                                                           *)
(***************************************************************************)
\* onPublication: at the threshold, and after the first publication.
SnapDue(seq, prevSeq) == seq - prevSeq >= Threshold \/ (prevSeq = 0 /\ seq > 0)

\* takeSnap evicts what is far behind the snapshot.
Stored(b, seq) ==
    ~(/\ snap[b].version >= 4 * Threshold
      /\ seq <= snap[b].version - 3 * Threshold)

Published == FoldFunction(LAMBDA pubs, n : n + Len(pubs), 0, log)

\* produceObject: the snapshot is taken inside the call, of the state that
\* the application has at that time.
Publish(op, state) ==
    LET seq == Len(log[boot]) + 1
    IN  /\ Published < MaxSeq
        /\ log' = [log EXCEPT ![boot] = Append(@, op)]
        /\ snap' = IF SnapDue(seq, snap[boot].version)
                   THEN [snap EXCEPT ![boot] = [version |-> seq, content |-> state]]
                   ELSE snap

-----------------------------------------------------------------------------
(***************************************************************************)
(* The subscriber                                                          *)
(***************************************************************************)
Seen(d) == {b \in Boot : d[b].latest > 0}

\* onUpdate, for the last boot.  The difference latest - pending is unsigned: a
\* snapshot newer than the latest number heard of makes it huge.
WantsSnap(e) ==
    /\ e.block = 0
    /\ e.latest < e.pending \/ e.latest - e.pending >= 2 * Threshold \/ e.known = 0

Blocked(e) == [e EXCEPT !.block = -1, !.known = e.latest, !.pending = e.latest]

\* Faulty variant: older boots go on.
OnUpdateLast(d) ==
    [b \in Boot |-> IF b = Max(Seen(d)) /\ WantsSnap(d[b]) THEN [d[b] EXCEPT !.block = 1]
                    ELSE d[b]]

\* onUpdate: older boots are blocked for good.
OnUpdate(d) ==
    [b \in Boot |->
        IF b \notin Seen(d) THEN d[b]
        ELSE IF b # Max(Seen(d)) THEN IF d[b].block = -1 THEN d[b] ELSE Blocked(d[b])
        ELSE IF WantsSnap(d[b]) THEN [d[b] EXCEPT !.block = 1] ELSE d[b]]

\* How far consumeCheck may go: no further when blocked, up to a pipeline that
\* is over its limit, and with congestion no further than two.  The difference
\* pending - known is unsigned: below zero it is a huge pipeline.
Reach(e) ==
    IF e.block # 0 \/ e.pending < e.known \/ e.pending >= e.latest THEN {e.pending}
    ELSE LET most == MaxOf(e.pending, MinOf(e.latest, e.known + MaxPipeline + 1))
             least == MaxOf(e.pending, MinOf(e.latest, e.known + 2))
         IN  IF MayCongest THEN MinOf(least, most)..most ELSE {most}

\* consumeCheck on the state d, with the fetches f and s under way.
ConsumeCheck(d, f, s) ==
    LET last == Max(Seen(d))
        checked == OnUpdate(d)
        e == checked[last]
    IN  \E p \in Reach(e) :
            /\ data' = [checked EXCEPT ![last].pending = p]
            /\ fetches' = [x \in DOMAIN f |->
                    IF x[1] = last /\ x[2] \in (e.pending + 1)..p THEN f[x] + 1 ELSE f[x]]
            /\ snapFetch' = IF WantsSnap(d[last]) THEN s \cup {last} ELSE s

\* onSvsUpdate.
Learn(b, high) ==
    /\ high > data[b].latest /\ high <= Len(log[b])
    /\ ConsumeCheck([data EXCEPT ![b].latest = high], fetches, snapFetch)
    /\ UNCHANGED <<pubVars, app>>

\* The publications that become known when seq is fetched: all in sequence.
Ready(e) ==
    {n \in SeqNo : n > e.known /\ \A m \in (e.known + 1)..n : m \in e.pubs}

Deliver(e, seq) ==
    LET got == [e EXCEPT !.pubs = @ \cup {seq}]
    IN  [got EXCEPT !.known = e.known + Cardinality(Ready(got)),
                    !.pubs = @ \ Ready(got)]

\* A fetch comes back when it is no longer wanted.
FetchLate(b, seq) ==
    /\ fetches[b, seq] > 0
    /\ seq <= data[b].known
    /\ ConsumeCheck(data, [fetches EXCEPT ![<<b, seq>>] = @ - 1], snapFetch)
    /\ UNCHANGED <<pubVars, app>>

\* A fetch comes back during a snapshot fetch: to be fetched again.
FetchBlocked(b, seq) ==
    /\ fetches[b, seq] > 0
    /\ seq > data[b].known /\ data[b].block # 0
    /\ ConsumeCheck([data EXCEPT ![b].pending = MinOf(@, seq - 1)],
                    [fetches EXCEPT ![<<b, seq>>] = @ - 1], snapFetch)
    /\ UNCHANGED <<pubVars, app>>

\* A fetch fails: a timer starts it again.
FetchError(b, seq) ==
    /\ fetches[b, seq] > 0
    /\ seq > data[b].known /\ data[b].block = 0
    /\ ConsumeCheck(data, fetches, snapFetch)
    /\ UNCHANGED <<pubVars, app>>

\* The application after the publications that follow one number up to another.
Applied(state, pubs, low, high) ==
    LET run[n \in Nat] == IF n <= low THEN state ELSE Apply(run[n - 1], pubs[n])
    IN  run[high]

FetchData(b, seq) ==
    LET e == Deliver(data[b], seq)
    IN  /\ fetches[b, seq] > 0
        /\ seq > data[b].known /\ data[b].block = 0
        /\ Stored(b, seq)
        /\ app' = Applied(app, log[b], data[b].known, e.known)
        /\ ConsumeCheck([data EXCEPT ![b] = e],
                        [fetches EXCEPT ![<<b, seq>>] = @ - 1], snapFetch)
        /\ UNCHANGED pubVars

\* Faulty variant: only a snapshot ends the block.
SnapErrorKeeps(b) ==
    /\ b \in snapFetch
    /\ ConsumeCheck(data, fetches, snapFetch \ {b})
    /\ UNCHANGED <<pubVars, app>>

\* handleSnap with an error, or for a boot that was blocked meanwhile.
SnapError(b) ==
    /\ b \in snapFetch
    /\ ConsumeCheck([data EXCEPT ![b].block = IF @ = 1 THEN 0 ELSE @],
                    fetches, snapFetch \ {b})
    /\ UNCHANGED <<pubVars, app>>

SnapTaken(e, version) ==
    [e EXCEPT !.block = 0, !.known = version, !.pending = MaxOf(@, version)]

SnapData(b) ==
    /\ b \in snapFetch
    /\ data[b].block = 1 /\ data[b].known < snap[b].version
    /\ app' = Apply(app, snap[b].content)
    /\ ConsumeCheck([data EXCEPT ![b] = SnapTaken(@, snap[b].version)],
                    fetches, snapFetch \ {b})
    /\ UNCHANGED pubVars

-----------------------------------------------------------------------------
AloInit(first, state) ==
    /\ boot = 1
    /\ log = [b \in Boot |-> IF b = 1 THEN <<first>> ELSE <<>>]
    /\ snap = [b \in Boot |-> IF b = 1 THEN [version |-> 1, content |-> state] ELSE NoSnap]
    /\ data = [b \in Boot |-> NoData]
    /\ fetches = [x \in Boot \X SeqNo |-> 0]
    /\ snapFetch = {}
    /\ app = Empty

\* The publisher starts over, and publishes first.
Restart(first, state) ==
    /\ boot < MaxBoot /\ Published < MaxSeq
    /\ boot' = boot + 1
    /\ log' = [log EXCEPT ![boot + 1] = <<first>>]
    /\ snap' = [snap EXCEPT ![boot + 1] = [version |-> 1, content |-> state]]

Receive(b, seq) ==
    /\ seq \in SeqNo
    /\ FetchLate(b, seq) \/ FetchBlocked(b, seq) \/ FetchData(b, seq)

Subscriber ==
    \/ \E b \in Boot, n \in SeqNo :
          Learn(b, n) \/ Receive(b, n) \/ FetchError(b, n)
    \/ \E b \in Boot : SnapError(b) \/ SnapData(b)

\* Sync Interests are repeated, failed fetches are retried, and one that is
\* retried for ever comes through in the end.
SubscriberFairness ==
    /\ WF_aloVars(Learn(boot, Len(log[boot])))
    /\ SF_aloVars(Receive(boot, data[boot].known + 1))
    /\ SF_aloVars(SnapData(boot))
    /\ WF_aloVars(SnapError(boot))

-----------------------------------------------------------------------------
\* What the application holds after the first n of the publications.
Replay(pubs, n) == Applied(Empty, pubs, 0, n)

\* Every publication is delivered, once the publisher is quiet: the subscriber
\* leaves no gap behind, whatever is lost, delayed or restarted on the way ("At
\* Least One delivery semantics", svs_alo.go).
EventuallyInSync == <>[](data[boot].known = Len(log[boot]))
=============================================================================
