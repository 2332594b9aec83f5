------------------------------ MODULE MCFaces -------------------------------
(***************************************************************************)
(* Faces, for TLC: what the router learns of the forwarder's faces         *)
(* (FaceEvents), one TCP face from within (TcpFace), and what the router   *)
(* installs in the PET for the faces and prefixes it has (PetSync).  They  *)
(* share no state, and a behaviour is one of either.                       *)
(***************************************************************************)
EXTENDS FaceEvents

CONSTANTS
    Closers, Socket, NoConn,
    Prefix, LocalFace, Me, Other, Validity, Always, Inserter, MaxVersion, MaxCalls, MaxVectors,
    ChannelSize, PublSize, Group, None

VARIABLES
    view,           \* "events", "tcp" or "pet"
    kind, conn, open, alive, up, closed, rechan, reader, dials, closer, sender, inTable,
    pes, petPrefixes, pend, channel, cur, egress, hops, present, missing, stale, expired,
    seenVersion, inserting, main, calls, svs, publpipe, subscribed, vectors, scenario, overlap

\* Accepted faces, which are not permanent to begin with, and dialled ones.
AllKinds == [outgoing : {TRUE}, permanent : BOOLEAN] \cup [outgoing : {FALSE}, permanent : {FALSE}]

Tcp == INSTANCE TcpFace WITH Kinds <- AllKinds, running <- up, recv <- reader

\* Commands with each of the other goroutines that change the PES, faces that go,
\* and a router that stops while commands or publications come.
AllScenarios ==
    {{"mgmt", "svs"}, {"svs", "prune"}, {"mgmt", "early", "prune"}, {"mgmt", "insert", "prune"},
     {"mgmt", "faces", "prune"}, {"mgmt", "faces", "stop"}, {"svs", "stop"}}

Pet == INSTANCE PetSync WITH Face <- LocalFace, Scenarios <- AllScenarios, alive <- present

ASSUME TcpAssumed == Tcp!TcpFaceAssumption
ASSUME PetAssumed == Pet!PetSyncAssumption

tcpVars == <<kind, conn, open, alive, up, closed, rechan, reader, dials, closer, sender, inTable>>
petVars == <<pes, petPrefixes, pend, channel, cur, egress, hops, present, missing, stale, expired,
             seenVersion, inserting, main, calls, svs, publpipe, subscribed, vectors, scenario, overlap>>

\* A TCP face that has come to its end: none of its goroutines goes on.
TcpEnded ==
    /\ kind = [outgoing |-> FALSE, permanent |-> FALSE]
    /\ conn = NoConn /\ open = {} /\ alive = {} /\ up = FALSE /\ closed = TRUE
    /\ rechan = <<>> /\ reader = "done" /\ dials = {}
    /\ closer = [c \in Closers |-> "done"] /\ sender = "idle" /\ inTable = FALSE

FacesInit ==
    /\ view \in {"events", "tcp", "pet"}
    /\ Init /\ Pet!Init
    /\ view # "pet" => scenario = CHOOSE s \in AllScenarios : TRUE
    /\ IF view = "tcp" THEN Tcp!Init ELSE TcpEnded

FacesNext ==
    \/ view = "events" /\ Next /\ UNCHANGED <<view, tcpVars, petVars>>
    \/ view = "tcp" /\ Tcp!Next /\ UNCHANGED <<view, vars, petVars>>
    \/ view = "pet" /\ Pet!Next /\ UNCHANGED <<view, vars, tcpVars>>

\* What each of them assumes; in the others' behaviours nothing that one of
\* them asks for is enabled.
FacesSpec == /\ FacesInit /\ [][FacesNext]_<<view, vars, tcpVars, petVars>>
             /\ Fairness /\ Tcp!Fairness /\ Pet!Fairness

\* Tcp!EndsClosed: a face that is not closed from outside leaves no socket.
EndsClosed == Tcp!EndsClosed

\* Tcp!NoSocketLost: nor does any other.
NoSocketLost == Tcp!NoSocketLost

\* Tcp!LossHandled: a face whose connection is lost gets another, or leaves.
LossHandled == Tcp!LossHandled

\* Pet!PetFollowsPes: the PET has what the router's prefix egress state calls
\* for, once the commands are through.
PetFollowsPes == Pet!PetFollowsPes


\* Pet!StartReturns: it stops.
StartReturns == Pet!StartReturns
=============================================================================
