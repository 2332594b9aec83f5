----------------------------- MODULE FaceEvents -----------------------------
(***************************************************************************)
(* How the router learns that a local face is gone: the forwarder's face   *)
(* table and transports report what happens to a face (fw/face/table.go,   *)
(* fw/face/transport.go), the management module keeps the last events      *)
(* under sequence numbers (fw/mgmt/face.go), and the router fetches them   *)
(* one by one and keeps the faces it saw and the faces it takes to be      *)
(* active (dv/dv/prefix.go), which decide the prefixes that are withdrawn. *)
(*                                                                         *)
(* The faces are those of local applications over a stream socket: up when *)
(* they are made, never up again once they are down.  Whoever changes a    *)
(* face reports it afterwards, in a step of its own.                       *)
(***************************************************************************)
EXTENDS Naturals, Sequences, FiniteSets

CONSTANTS
    Face,           \* face IDs, never used twice
    Destroyable,    \* the faces a management command may destroy
    HistoryLimit,   \* faceEventHistoryLimit: events kept (256 in the code)
    Nothing         \* no answer

ASSUME FaceEventsAssumption ==
    Destroyable \subseteq Face /\ HistoryLimit \in Nat \ {0} /\ IsFiniteSet(Face)

VARIABLES
    table,      \* the faces in the face table
    running,    \* the faces whose transport runs
    recv,       \* where the receiving goroutine of each face is
    due,        \* changes made and not yet reported: <<face, kind, who>>
    events,     \* every event recorded; its sequence number is its position
    nextSeq,    \* the router's: the event to ask for, 0 before the first
    answer,     \* the event the router was sent and has not applied
    active,     \* activeFaces
    seen        \* seenFaces

vars == <<table, running, recv, due, events, nextSeq, answer, active, seen>>
faceVars == <<table, running, recv, due>>
routerVars == <<nextSeq, answer, active, seen>>

Created   == "created"
Down      == "down"
Destroyed == "destroyed"

Event == [face : Face, kind : {Created, Down, Destroyed}]

TypeOK ==
    /\ table \subseteq Face /\ running \subseteq Face
    /\ recv \in [Face -> {"new", "adding", "reading", "closing", "reporting", "stopped", "done"}]
    /\ due \subseteq Face \X {Created, Down, Destroyed} \X {"run", "recv", "mgmt"}
    /\ events \in Seq(Event)
    /\ nextSeq \in 0..(Len(events) + 1)
    /\ answer \in {Nothing} \cup [seq : 1..Len(events), event : Event]
    /\ active \subseteq Face /\ seen \subseteq Face

Init ==
    /\ table = {} /\ running = {} /\ due = {}
    /\ recv = [f \in Face |-> "new"]
    /\ events = <<>>
    /\ nextSeq = 0 /\ answer = Nothing /\ active = {} /\ seen = {}

-----------------------------------------------------------------------------
(***************************************************************************)
(* The forwarder                                                           *)
(***************************************************************************)
\* Table.Add stores the face; its goroutines start when Add has returned.
Add(f) ==
    /\ recv[f] = "new"
    /\ recv' = [recv EXCEPT ![f] = "adding"]
    /\ table' = table \cup {f}
    /\ running' = running \cup {f}
    /\ due' = due \cup {<<f, Created, "run">>}
    /\ UNCHANGED <<events, routerVars>>

\* emitEvent, and recordFaceEvent: the event gets the next number.
Emit(e) ==
    /\ e \in due
    /\ due' = due \ {e}
    /\ events' = Append(events, [face |-> e[1], kind |-> e[2]])
    /\ recv' = [recv EXCEPT ![e[1]] =
                    CASE e[3] = "run" /\ e[2] = Created -> "reading"
                      [] e[3] = "recv" -> "stopped"
                      [] OTHER -> @]
    /\ UNCHANGED <<table, running, routerVars>>

\* Close from outside: running is swapped, Down is reported, and the socket
\* is closed, which the receiving goroutine notices.
Destroy(f) ==
    /\ f \in Destroyable \cap table \cap running
    /\ running' = running \ {f}
    /\ due' = due \cup {<<f, Down, "mgmt">>}
    /\ UNCHANGED <<table, recv, events, routerVars>>

\* The application closes the socket, or the forwarder did.
StreamEnds(f) ==
    /\ recv[f] = "reading"
    /\ recv' = [recv EXCEPT ![f] = "closing"]
    /\ UNCHANGED <<table, running, due, events, routerVars>>

\* The deferred Close of the receiving goroutine.
RecvClose(f) ==
    /\ recv[f] = "closing"
    /\ running' = running \ {f}
    /\ IF f \in running
       THEN due' = due \cup {<<f, Down, "recv">>} /\ recv' = [recv EXCEPT ![f] = "reporting"]
       ELSE recv' = [recv EXCEPT ![f] = "stopped"] /\ UNCHANGED due
    /\ UNCHANGED <<table, events, routerVars>>

\* runSend: Table.Remove.
Remove(f) ==
    /\ recv[f] = "stopped"
    /\ recv' = [recv EXCEPT ![f] = "done"]
    /\ table' = table \ {f}
    /\ due' = due \cup {<<f, Destroyed, "run">>}
    /\ UNCHANGED <<running, events, routerVars>>

-----------------------------------------------------------------------------
(***************************************************************************)
(* Fetching                                                                *)
(***************************************************************************)
\* The oldest event that is still kept.
OldestKept == IF Len(events) > HistoryLimit THEN Len(events) - HistoryLimit + 1 ELSE 1

\* The event a request is answered with, 0 for none: the latest when it has
\* no number, else the one it asks for, else the next one kept.
SelectFaceEvent(seq) ==
    IF seq = 0 THEN Len(events)
    ELSE IF seq > Len(events) THEN 0
    ELSE IF seq < OldestKept THEN OldestKept ELSE seq

\* The engine hands Data to the Interests whose name is a prefix of its name:
\* the event with another number than the one asked for reaches nobody.
Matches(seq, s) == seq = 0 \/ seq = s

\* fetchFaceEvent; without an answer it times out and is called again.
Fetch ==
    /\ answer = Nothing
    /\ LET s == SelectFaceEvent(nextSeq) IN
        /\ s # 0
        /\ Matches(nextSeq, s)
        /\ answer' = [seq |-> s, event |-> events[s]]
    /\ UNCHANGED <<faceVars, events, nextSeq, active, seen>>

\* A gap discards what is known.
Gap == nextSeq # 0 /\ answer.seq > nextSeq

Kept(faces) == IF Gap THEN {} ELSE faces

\* Faulty variant: a face that is down counts as missing.
ActiveAfterUp(e) ==
    IF e.kind = Created THEN Kept(active) \cup {e.face} ELSE Kept(active) \ {e.face}

\* Faulty variant: a destroyed face stays active.
ActiveAfterAny(e) == Kept(active) \cup {e.face}

\* applyFaceEvent: any event but Destroyed shows that the face is there.
ActiveAfter(e) ==
    IF e.kind = Destroyed THEN Kept(active) \ {e.face} ELSE Kept(active) \cup {e.face}

\* Faulty variant: the same event is asked for again.
HandleAgain ==
    /\ answer # Nothing
    /\ nextSeq' = answer.seq
    /\ seen' = Kept(seen) \cup {answer.event.face}
    /\ active' = ActiveAfter(answer.event)
    /\ answer' = Nothing
    /\ UNCHANGED <<faceVars, events>>

\* What runFaceEvents does with an event.
Handle ==
    /\ answer # Nothing
    /\ nextSeq' = answer.seq + 1
    /\ seen' = Kept(seen) \cup {answer.event.face}
    /\ active' = ActiveAfter(answer.event)
    /\ answer' = Nothing
    /\ UNCHANGED <<faceVars, events>>

-----------------------------------------------------------------------------
Next ==
    \/ \E f \in Face : Add(f) \/ Destroy(f) \/ StreamEnds(f) \/ RecvClose(f) \/ Remove(f)
    \/ \E e \in due : Emit(e)
    \/ Fetch \/ Handle

\* The loop of the router runs, and the forwarder's goroutines go on.
Fairness ==
    /\ WF_vars(Fetch) /\ WF_vars(Handle)
    /\ WF_vars(\E e \in due : Emit(e))
    /\ WF_vars(\E f \in Face : RecvClose(f) \/ Remove(f))

Spec == Init /\ [][Next]_vars /\ Fairness

-----------------------------------------------------------------------------
(***************************************************************************)
(* Properties                                                              *)
(***************************************************************************)
\* A face pruneMissingFaces takes to be missing is no longer in the face
\* table: no route of a face that is there is withdrawn, however old the
\* router's knowledge and whatever was lost.
MissingIsGone == (seen \ active) \cap table = {}

CaughtUp == nextSeq = Len(events) + 1 /\ due = {} /\ answer = Nothing

\* When the router has applied every event, the faces it takes to be active
\* are in the face table: "Keep parity with /faces/list snapshot semantics
\* (presence in FaceTable)".  Of a face that a command may destroy this is not
\* said, its Down may be recorded after its Destroyed.
ActiveIsThere == CaughtUp => active \ Destroyable \subseteq table

\* The event the router asks for has left the history.
FellBehind == nextSeq # 0 /\ nextSeq < OldestKept

\* The router gets to the last event again and again, unless it falls behind
\* the history, which runFaceEvents does not recover from.
KeepsUp == []<>(events = <<>> \/ nextSeq = Len(events) + 1 \/ FellBehind)
=============================================================================
