------------------------------ MODULE PetSync -------------------------------
(***************************************************************************)
(* How a router installs its prefix egress state (PES) in the PET of its   *)
(* forwarder.  Several goroutines change the PES through PrefixModule      *)
(* (dv/dv/prefix.go, dv/dv/insertion.go): each change is made under the    *)
(* module's mutex together with petPrefixes, and the PET commands it calls *)
(* for are put into the channel of the nfdc thread after the mutex was     *)
(* released.  The nfdc thread (dv/nfdc/nfdc.go) executes them one by one   *)
(* and repeats a command that fails.                                       *)
(*                                                                         *)
(* The goroutines: "mgmt", the management commands, which the router's own *)
(* mutex keeps one after the other; the Inserters, one for each prefix     *)
(* insertion under way; "prune", the ticker; "svs", SvsALO.run, which      *)
(* subscribes to the other router and applies what it publishes; and       *)
(* "main", which starts and stops the router.  SvSync's own goroutine      *)
(* tells SvsALO.run of publishers through the channel publpipe.            *)
(* A validity period is what tells two announcements apart; that of an     *)
(* insertion is the version of its object.                                 *)
(***************************************************************************)
EXTENDS Naturals, Sequences, FiniteSets, SequencesExt

CONSTANTS
    Prefix,
    Face,           \* local faces; 0 is the face of a route-only announcement
    Me, Other,      \* the router and another one
    Validity,       \* validity periods of commands and publications
    Always,         \* no validity period
    Inserter,       \* goroutines of onInsertion
    MaxVersion,     \* versions of insertion objects
    Scenarios,      \* what may happen in a behaviour: sets of names, see Happens
    MaxCalls,       \* commands, insertions and publications
    MaxVectors,     \* state vectors that bring something new
    ChannelSize,    \* capacity of the nfdc channel (4096 in the code)
    PublSize,       \* capacity of publpipe (16 in the code)
    Group,          \* the name under which the other router's state is replicated
    None            \* no command

\* The PET commands.
Command ==
    [verb : {"add-egress", "remove-egress"}, name : Prefix, arg : {Me, Other}]
        \cup [verb : {"add-nexthop", "remove-nexthop"}, name : Prefix, arg : Face]
        \cup [verb : {"add-egress"}, name : {Group}, arg : {Other}]

PetSyncAssumption ==
    /\ Me # Other /\ 0 \notin Face /\ Always \in Validity /\ Group \notin Prefix
    /\ IsFiniteSet(Prefix)
    /\ None \notin Command
    /\ Inserter \cap {"mgmt", "prune", "svs", "main"} = {}
    /\ MaxVersion \in Nat /\ MaxCalls \in Nat /\ MaxVectors \in Nat
    /\ ChannelSize \in Nat \ {0} /\ PublSize \in Nat \ {0}
    /\ Scenarios \subseteq SUBSET {"mgmt", "prune", "svs", "insert", "early", "faces", "stop"}

Router == {Me, Other}
Version == 1..MaxVersion
Period == Validity \cup Version
Thread == {"mgmt", "prune", "svs", "main"} \cup Inserter

VARIABLES
    pes,            \* router -> prefix -> validity and local next hops
    petPrefixes,    \* pairs of router and prefix the PET is to have
    pend,           \* thread -> the commands it has yet to put into the channel
    channel, cur,   \* the nfdc thread's channel and the command it executes
    egress, hops,   \* the PET: pairs of prefix and router, of prefix and face
    alive, missing, \* faces that are there; those the router knows to be gone
    stale,          \* the routes pruneMissingFaces is withdrawing
    expired,        \* validity periods that are over
    seenVersion,    \* prefix -> last version of an insertion, 0 for none
    inserting,      \* Inserter -> the insertion past its version check
    main, calls,
    svs,            \* where SvSync's goroutine is
    publpipe,       \* how many names are in the channel
    subscribed,     \* to the other router
    vectors,        \* state vectors received
    scenario,       \* what happens in this behaviour
    overlap         \* a change found commands for the same part of the PET that
                    \* another goroutine had yet to put into the channel

vars == <<pes, petPrefixes, pend, channel, cur, egress, hops, alive, missing, stale,
          expired, seenVersion, inserting, main, calls, svs, publpipe, subscribed, vectors,
          scenario, overlap>>
table == <<pes, petPrefixes, overlap>>
nfdc == <<channel, cur, egress, hops>>
world == <<alive, missing, expired, scenario>>
inserts == <<seenVersion, inserting>>
sync == <<svs, publpipe, subscribed, vectors>>

\* "mgmt", "prune", "svs", "insert": that goroutine acts; "early": before the
\* router has started, too; "faces": faces are removed; "stop": the router stops.
Happens(what) == what \in scenario

Insertion == [name : Prefix, version : Version, face : Face]

NoPrefixes == <<>>

Init ==
    /\ pes = [r \in Router |-> NoPrefixes]
    /\ petPrefixes = {}
    /\ pend = [t \in Thread |-> <<>>]
    /\ channel = <<>> /\ cur = None /\ egress = {} /\ hops = {}
    /\ alive = Face /\ missing = {} /\ stale = {} /\ expired = {}
    /\ seenVersion = [p \in Prefix |-> 0]
    /\ inserting = [t \in Inserter |-> None]
    /\ main = "new" /\ calls = 0
    /\ svs = "select" /\ publpipe = 0 /\ subscribed = FALSE /\ vectors = 0
    /\ scenario \in Scenarios /\ overlap = FALSE

Without(f, S) == [p \in DOMAIN f \ S |-> f[p]]

\* The prefixes S, with what is known of each, over those of f.
With(S, known, f) == [p \in S \cup DOMAIN f |-> IF p \in S THEN known ELSE f[p]]

-----------------------------------------------------------------------------
(***************************************************************************)
(* petPrefixes, and the commands a change of it calls for                  *)
(***************************************************************************)
PrefixesOf(r) == {p \in Prefix : <<r, p>> \in petPrefixes}

EgressCmds(verb, r, S) == SetToSeq({[verb |-> verb, name |-> p, arg |-> r] : p \in S})
HopCmds(verb, p, f) == IF f = 0 THEN <<>> ELSE <<[verb |-> verb, name |-> p, arg |-> f]>>

\* resetRouterPet, addRouterPrefixPet and removeRouterPrefixPet, in the order
\* in which processUpdate calls them, for sets of prefixes.
PetAfter(r, reset, adds, removes) ==
    LET kept == IF reset THEN petPrefixes \ ({r} \X Prefix) ELSE petPrefixes
    IN  (kept \cup ({r} \X adds)) \ ({r} \X removes)

PetCmds(r, reset, adds, removes) ==
    LET old == PrefixesOf(r)
        kept == IF reset THEN {} ELSE old
    IN  EgressCmds("remove-egress", r, old \ kept)
        \o EgressCmds("add-egress", r, adds \ kept)
        \o EgressCmds("remove-egress", r, removes \cap (kept \cup adds))

\* The critical section of goroutine t ends with these commands to execute.
Commit(t, cmds) ==
    /\ pend' = [pend EXCEPT ![t] = cmds]
    /\ overlap' = (overlap \/ \E u \in Thread \ {t}, c \in Range(cmds) : \E d \in Range(pend[u]) :
                                <<c.name, c.arg>> = <<d.name, d.arg>>)

\* What a change of router r's prefixes does, but for the PES itself.
Change(t, r, reset, adds, removes, more) ==
    /\ petPrefixes' = PetAfter(r, reset, adds, removes)
    /\ Commit(t, PetCmds(r, reset, adds, removes) \o more)

-----------------------------------------------------------------------------
(***************************************************************************)
(* Changes of the PES                                                      *)
(***************************************************************************)
Idle(t) == pend[t] = <<>>

\* A call from outside: a command, an insertion or a publication.
Call == calls < MaxCalls /\ calls' = calls + 1

\* The states of the deferred PrefixModule.Stop and nfdc.Stop: each waits for a
\* goroutine to end, the last one for the nfdc thread.
StopStates == {"stopFaces", "stopRun", "stopSvs", "stopNfdc"}

\* The handlers are registered before the state is reset.
Listening ==
    \/ main \in {"running"} \cup StopStates
    \/ Happens("early") /\ main \in {"new", "starting", "started"}

\* SvsALO.run is there until it takes the stop; the ticker may find, once it is to
\* stop, that its time has come again and again.
Running == main \in {"starting", "started", "running", "stopFaces", "stopRun"}
Ticking == main \notin {"new", "stopped"}

Announced(p, f, v) ==
    LET old == IF p \in DOMAIN pes[Me] THEN pes[Me][p].hops ELSE {}
    IN  With({p}, [validity |-> v, hops |-> IF f = 0 THEN {} ELSE old \cup {f}], pes[Me])

\* Faulty variant: only a new prefix calls for a next hop.
DoAnnounceOnce(t, p, f, v) ==
    /\ pes' = [pes EXCEPT ![Me] = Announced(p, f, v)]
    /\ Change(t, Me, FALSE, {p}, {}, IF <<Me, p>> \in petPrefixes THEN <<>> ELSE HopCmds("add-nexthop", p, f))

DoAnnounce(t, p, f, v) ==
    /\ pes' = [pes EXCEPT ![Me] = Announced(p, f, v)]
    /\ Change(t, Me, FALSE, {p}, {}, HopCmds("add-nexthop", p, f))

\* PrefixEgreState.Withdraw leaves no entry without next hops.
GoneAfter(p, f) == p \in DOMAIN pes[Me] => pes[Me][p].hops \subseteq {f}

Left(p, f) ==
    With({p}, [validity |-> pes[Me][p].validity, hops |-> pes[Me][p].hops \ {f}], pes[Me])

DoWithdraw(t, p, f) ==
    /\ pes' = [pes EXCEPT ![Me] = IF GoneAfter(p, f) THEN Without(@, {p}) ELSE Left(p, f)]
    /\ Change(t, Me, FALSE, {}, IF GoneAfter(p, f) THEN {p} ELSE {}, HopCmds("remove-nexthop", p, f))

\* The commands prefix/announce and prefix/withdraw (mgmtOnPrefix).
Announce(p, f, v) ==
    /\ Happens("mgmt") /\ Idle("mgmt") /\ Listening /\ Call
    /\ v \notin expired
    /\ f \in alive \cup {0}
    /\ DoAnnounce("mgmt", p, f, v)
    /\ UNCHANGED <<nfdc, world, stale, inserts, main, sync>>

Withdraw(p, f) ==
    /\ Happens("mgmt") /\ Idle("mgmt") /\ Listening /\ Call
    /\ DoWithdraw("mgmt", p, f)
    /\ UNCHANGED <<nfdc, world, stale, inserts, main, sync>>

WithdrawRoute(p) ==
    /\ Happens("mgmt") /\ Idle("mgmt") /\ Listening /\ Call
    /\ pes' = [pes EXCEPT ![Me] = Without(@, {p})]
    /\ Change("mgmt", Me, FALSE, {}, {p}, <<>>)
    /\ UNCHANGED <<nfdc, world, stale, inserts, main, sync>>

\* A publication or a snapshot of the other router (processUpdate, Apply).
ApplyUpdate(reset, adds, removes, v) ==
    /\ Happens("svs") /\ Idle("svs") /\ Running /\ subscribed /\ Call
    /\ pes' = [pes EXCEPT ![Other] =
                Without(With(adds, [validity |-> v, hops |-> {}],
                             IF reset THEN NoPrefixes ELSE @), removes)]
    /\ Change("svs", Other, reset, adds, removes, <<>>)
    /\ UNCHANGED <<nfdc, world, stale, inserts, main, sync>>

\* onInsertion until the version was checked and noted; what is wrong with
\* the content of the object shows only afterwards.
CheckVersion(t, i) ==
    /\ Happens("insert") /\ inserting[t] = None /\ Idle(t) /\ Listening /\ Call
    /\ seenVersion[i.name] < i.version
    /\ seenVersion' = [seenVersion EXCEPT ![i.name] = i.version]
    /\ inserting' = [inserting EXCEPT ![t] = i]
    /\ UNCHANGED <<table, pend, nfdc, world, stale, main, sync>>

RejectInsertion(t) ==
    /\ inserting[t] # None
    /\ inserting' = [inserting EXCEPT ![t] = None]
    /\ UNCHANGED <<table, pend, nfdc, world, stale, seenVersion, main, calls, sync>>

\* The object is good, and Announce is called.
Insert(t) ==
    /\ inserting[t] # None
    /\ inserting[t].version \notin expired
    /\ LET i == inserting[t] IN DoAnnounce(t, i.name, i.face, i.version)
    /\ inserting' = [inserting EXCEPT ![t] = None]
    /\ UNCHANGED <<nfdc, world, stale, seenVersion, main, calls, sync>>

-----------------------------------------------------------------------------
(***************************************************************************)
(* The ticker of startPrefixPrune                                          *)
(***************************************************************************)
\* pruneMissingFaces: the routes over faces that are known to be gone ...
FindStale ==
    /\ Happens("prune") /\ Idle("prune") /\ Ticking
    /\ stale = {}
    /\ stale' = {pf \in Prefix \X missing : pf[1] \in DOMAIN pes[Me] /\ pf[2] \in pes[Me][pf[1]].hops}
    /\ UNCHANGED <<table, pend, nfdc, world, inserts, main, calls, sync>>

\* ... are withdrawn one by one.
PruneRoute(p, f) ==
    /\ <<p, f>> \in stale /\ Idle("prune")
    /\ stale' = stale \ {<<p, f>>}
    /\ DoWithdraw("prune", p, f)
    /\ UNCHANGED <<nfdc, world, inserts, main, calls, sync>>

Over(r) == {p \in DOMAIN pes[r] : pes[r][p].validity \in expired}

PruneExpired ==
    /\ Happens("prune") /\ Idle("prune") /\ stale = {} /\ Ticking
    /\ pes' = [r \in Router |-> Without(pes[r], Over(r))]
    /\ petPrefixes' = {rp \in petPrefixes : rp[2] \notin Over(rp[1])}
    /\ Commit("prune", PetCmds(Me, FALSE, {}, Over(Me)) \o PetCmds(Other, FALSE, {}, Over(Other)))
    /\ UNCHANGED <<nfdc, world, stale, inserts, main, calls, sync>>

-----------------------------------------------------------------------------
(***************************************************************************)
(* Start and stop of the router                                            *)
(***************************************************************************)
\* PrefixModule.Start starts SVS, the ticker and the fetching of face events ...
Launch ==
    /\ main = "new"
    /\ main' = "starting"
    /\ UNCHANGED <<table, pend, nfdc, world, stale, inserts, calls, sync>>

\* ... and resets the PES without the mutex and without the PET.
Start ==
    /\ main = "starting"
    /\ main' = "started"
    /\ pes' = [pes EXCEPT ![Me] = NoPrefixes]
    /\ UNCHANGED <<petPrefixes, overlap, pend, nfdc, world, stale, inserts, calls, sync>>

\* PrefixModule.Reset.
Reset ==
    /\ main = "started"
    /\ main' = "running"
    /\ pes' = [pes EXCEPT ![Me] = NoPrefixes]
    /\ Change("main", Me, TRUE, {}, {}, <<>>)
    /\ UNCHANGED <<nfdc, world, stale, inserts, calls, sync>>

\* Router.Stop.  PrefixModule.Stop tells the ticker and the goroutine of the face
\* events to stop, and waits for the latter, whose request ends.
Stop ==
    /\ Happens("stop") /\ main = "running" /\ Idle("main")
    /\ main' = "stopFaces"
    /\ UNCHANGED <<table, pend, nfdc, world, stale, inserts, calls, sync>>

StopFaceEvents ==
    /\ main = "stopFaces"
    /\ main' = "stopRun"
    /\ UNCHANGED <<table, pend, nfdc, world, stale, inserts, calls, sync>>

\* SvsALO.Stop hands its message to run(), which takes it between two others ...
StopRun ==
    /\ main = "stopRun" /\ Idle("svs")
    /\ main' = "stopSvs"
    /\ UNCHANGED <<table, pend, nfdc, world, stale, inserts, calls, sync>>

\* ... and SvSync.Stop to the goroutine of SvSync, likewise.
StopSvs ==
    /\ main = "stopSvs" /\ svs = "select"
    /\ main' = "stopNfdc"
    /\ svs' = "ended"
    /\ UNCHANGED <<table, pend, nfdc, world, stale, inserts, calls, publpipe, subscribed, vectors>>

-----------------------------------------------------------------------------
(***************************************************************************)
(* SvSync's goroutine and publpipe                                         *)
(***************************************************************************)
\* A state vector brings an update of the other router (onSvsUpdate) ...
ReceiveVector ==
    /\ Happens("svs") /\ svs = "select" /\ main # "new" /\ vectors < MaxVectors
    /\ svs' = "notify"
    /\ vectors' = vectors + 1
    /\ UNCHANGED <<table, pend, nfdc, world, stale, inserts, main, calls, publpipe, subscribed>>

\* ... and its name goes into publpipe, which may be full.
Notify ==
    /\ svs = "notify" /\ publpipe < PublSize
    /\ svs' = "select"
    /\ publpipe' = publpipe + 1
    /\ UNCHANGED <<table, pend, nfdc, world, stale, inserts, main, calls, subscribed, vectors>>

\* SvsALO.run takes a name from publpipe: a new publisher is subscribed to.
OnPublisher ==
    /\ Idle("svs") /\ Running /\ publpipe > 0
    /\ publpipe' = publpipe - 1
    /\ subscribed' = TRUE
    /\ IF subscribed THEN UNCHANGED <<pend, overlap>>
       ELSE Commit("svs", <<[verb |-> "add-egress", name |-> Group, arg |-> Other]>>)
    /\ UNCHANGED <<pes, petPrefixes, nfdc, world, stale, inserts, main, calls, svs, vectors>>

-----------------------------------------------------------------------------
(***************************************************************************)
(* The nfdc thread and the forwarder                                       *)
(***************************************************************************)
\* applyPetOps and applyNextHopOps: Exec blocks while the channel is full.
Exec(t) ==
    /\ pend[t] # <<>> /\ Len(channel) < ChannelSize
    /\ channel' = Append(channel, Head(pend[t]))
    /\ pend' = [pend EXCEPT ![t] = Tail(@)]
    /\ UNCHANGED <<table, cur, egress, hops, world, stale, inserts, main, calls, sync>>

TakeCmd ==
    /\ cur = None /\ main # "stopped" /\ channel # <<>>
    /\ cur' = Head(channel)
    /\ channel' = Tail(channel)
    /\ UNCHANGED <<table, pend, egress, hops, world, stale, inserts, main, calls, sync>>


\* The PET module of the forwarder refuses a next hop over a face that is gone.
Succeeds(c) == c.verb = "add-nexthop" => c.arg \in alive

\* The PET commands of the forwarder.
EgressWith(c) ==
    CASE c.verb = "add-egress" -> egress \cup {<<c.name, c.arg>>}
      [] c.verb = "remove-egress" -> egress \ {<<c.name, c.arg>>}
      [] OTHER -> egress

HopsWith(c) ==
    CASE c.verb = "add-nexthop" -> hops \cup {<<c.name, c.arg>>}
      [] c.verb = "remove-nexthop" -> hops \ {<<c.name, c.arg>>}
      [] OTHER -> hops

\* One attempt that succeeds; its answer may get lost, and the command is
\* repeated.  One that fails changes nothing, and is repeated too.
ExecMgmtCmd ==
    /\ cur # None /\ Succeeds(cur)
    /\ egress' = EgressWith(cur)
    /\ hops' = HopsWith(cur)
    /\ cur' \in {None, cur}
    /\ UNCHANGED <<table, pend, channel, world, stale, inserts, main, calls, sync>>

\* The thread takes the stop message between two commands.
StopThread ==
    /\ cur = None /\ main = "stopNfdc"
    /\ main' = "stopped"
    /\ UNCHANGED <<table, pend, nfdc, world, stale, inserts, calls, sync>>

\* A face is removed from the forwarder, and from the PET with it.
FaceGoes(f) ==
    /\ Happens("faces") /\ f \in alive
    /\ alive' = alive \ {f}
    /\ hops' = hops \ (Prefix \X {f})
    /\ UNCHANGED <<table, pend, channel, cur, egress, missing, stale, expired, inserts, main, calls, sync, scenario>>

\* The router learns of it (FaceEvents); only the ticker makes use of that.
FaceEvent(f) ==
    /\ Happens("prune") /\ main \in {"starting", "started", "running", "stopFaces"}
    /\ f \in Face \ (alive \cup missing)
    /\ missing' = missing \cup {f}
    /\ UNCHANGED <<table, pend, nfdc, alive, stale, expired, inserts, main, calls, sync, scenario>>

Expire(v) ==
    /\ v \in Period \ (expired \cup {Always})
    /\ expired' = expired \cup {v}
    /\ UNCHANGED <<table, pend, nfdc, alive, missing, stale, inserts, main, calls, sync, scenario>>

-----------------------------------------------------------------------------
Commands ==
    \E p \in Prefix :
        \/ \E f \in Face \cup {0}, v \in Validity : Announce(p, f, v)
        \/ \E f \in Face : Withdraw(p, f)
        \/ WithdrawRoute(p)

Updates ==
    \E v \in Validity :
        \/ \E p \in Prefix : ApplyUpdate(FALSE, {p}, {}, v)
        \/ \E p \in Prefix : ApplyUpdate(FALSE, {}, {p}, v)
        \/ \E S \in SUBSET Prefix : ApplyUpdate(TRUE, S, {}, v)

Insertions ==
    \E t \in Inserter :
        \/ \E i \in Insertion : CheckVersion(t, i)
        \/ RejectInsertion(t)
        \/ Insert(t)

Prune == FindStale \/ PruneExpired \/ \E p \in Prefix, f \in Face : PruneRoute(p, f)

Next ==
    \/ Commands \/ Updates \/ Insertions \/ Prune
    \/ Launch \/ Start \/ Reset \/ Stop \/ StopFaceEvents \/ StopRun \/ StopSvs
    \/ ReceiveVector \/ Notify \/ OnPublisher
    \/ \E t \in Thread : Exec(t)
    \/ TakeCmd \/ ExecMgmtCmd \/ StopThread
    \/ \E f \in Face : FaceGoes(f) \/ FaceEvent(f)
    \/ \E v \in Period : Expire(v)

\* The goroutines go on; an answer gets through in the end.
Fairness ==
    /\ \A t \in Thread : WF_vars(Exec(t))
    /\ WF_vars(TakeCmd) /\ WF_vars(StopThread)
    /\ WF_vars(StopFaceEvents) /\ WF_vars(StopRun) /\ WF_vars(StopSvs)
    /\ WF_vars(Notify) /\ WF_vars(OnPublisher)
    /\ SF_vars(ExecMgmtCmd /\ cur' = None)

Spec == Init /\ [][Next]_vars /\ Fairness

-----------------------------------------------------------------------------
(***************************************************************************)
(* Properties                                                              *)
(***************************************************************************)
\* Nothing is under way from the PES to the PET.
AtRest ==
    /\ main = "running" /\ cur = None /\ channel = <<>>
    /\ \A t \in Thread : pend[t] = <<>>
    /\ stale = {}

\* The PET follows the PES, through announcements, withdrawals, expiry and
\* updates by several goroutines.  petPrefixes names exactly the prefixes of
\* the PES once the router has started (addRouterPrefixPet and its like skip
\* what is there already).  At rest, unless two goroutines changed the same
\* part at the same time, the egress routers in the PET are those of the PES
\* ("threadsafe as original caller used a mutex, to maintain existing
\* assumptions"), and no next hop over a face that is there is missing: an
\* application gets the Interests of the prefixes it announced.
PetFollowsPes ==
    /\ main \notin {"new", "starting", "started"} =>
           petPrefixes = {rp \in Router \X Prefix : rp[2] \in DOMAIN pes[rp[1]]}
    /\ AtRest /\ ~overlap =>
           /\ egress \cap (Prefix \X Router) = {pr \in Prefix \X Router : pr[1] \in DOMAIN pes[pr[2]]}
           /\ {pf \in Prefix \X alive :
                  pf[1] \in DOMAIN pes[Me] /\ pf[2] \in pes[Me][pf[1]].hops} \subseteq hops

\* The nfdc thread is at a command that fails for ever.
Stuck == cur # None /\ cur.verb = "add-nexthop" /\ cur.arg \notin alive

\* Nobody is left to take a name from the full publpipe.
Wedged == main = "stopSvs" /\ svs = "notify" /\ publpipe = PublSize


\* Router.Start "blocks until Stop() is called", and no longer.
StartReturns == main = "stopFaces" ~> main = "stopped"
=============================================================================
