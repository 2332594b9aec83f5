------------------------------ MODULE TcpFace ------------------------------
(***************************************************************************)
(* The life of one TCP face of the forwarder:                              *)
(* fw/face/unicast-tcp-transport.go under fw/face/ndnlp-link-service.go.   *)
(*                                                                         *)
(* Four kinds of goroutines share the transport without a lock: the one    *)
(* that receives, the one that sends, those that reconnect, and whoever    *)
(* closes the face (a management command, the expiration handler, the      *)
(* forwarder when it stops).  They talk through the channel rechan and     *)
(* through the fields conn, running and closed.                            *)
(*                                                                         *)
(* A connection is a name; that a frame is read or written is left out,    *)
(* what a failed read or write leads to is not.                            *)
(***************************************************************************)
EXTENDS Naturals, Sequences, FiniteSets

CONSTANTS
    Kinds,      \* the faces to begin with: see Kind
    Closers,    \* the goroutines that call Close, each of them once
    Socket,     \* names of connections, used again once they are closed
    NoConn      \* the nil connection

\* MakeUnicastTCPTransport dials, AcceptUnicastTCPTransport is given its
\* connection and has no dialer; only a permanent face reconnects.
Kind == [outgoing : BOOLEAN, permanent : BOOLEAN]

TcpFaceAssumption == Kinds \subseteq Kind /\ NoConn \notin Socket

VARIABLES
    kind,       \* how the face was made, and its persistency
    conn,       \* t.conn
    open,       \* the connections whose socket is open at this end
    alive,      \* the connections the remote end has not shut down
    running,    \* t.running
    closed,     \* t.closed
    rechan,     \* what is in the channel
    recv,       \* where the receiving goroutine is
    dials,      \* the goroutines in reconnect: where each is, its new connection
                \* and whether it dials first for a face without connection
    closer,     \* where each closer is in Close
    sender,     \* where the sending goroutine is
    inTable     \* the face is in the face table

vars == <<kind, conn, open, alive, running, closed, rechan, recv, dials, closer, sender, inTable>>

\* The channel of an outgoing face holds two messages, of an accepted one one.
Capacity == IF kind.outgoing THEN 2 ELSE 1

Init ==
    /\ kind \in Kinds
    /\ IF kind.outgoing
       THEN conn = NoConn /\ open = {} /\ running = FALSE
       ELSE conn \in Socket /\ open = {conn} /\ running = TRUE
    /\ alive = open
    /\ closed = FALSE
    /\ rechan = <<>>
    /\ recv = "loop"
    /\ dials = {}
    /\ closer = [c \in Closers |-> "idle"]
    /\ sender = "idle"
    /\ inTable = TRUE

-----------------------------------------------------------------------------
(***************************************************************************)
(* Receiving                                                               *)
(***************************************************************************)
\* The face reconnects, or finds out in reconnect that it must not.
GoReconnect ==
    /\ dials' = dials \cup {[at |-> "begin", conn |-> NoConn, first |-> conn = NoConn]}
    /\ recv' = "wait"

\* The top of the loop: read from the connection, if there is one.
Loop ==
    /\ recv = "loop"
    /\ IF conn = NoConn THEN GoReconnect
       ELSE recv' = "read" /\ UNCHANGED dials
    /\ UNCHANGED <<kind, conn, open, alive, running, closed, rechan, closer, sender, inTable>>

\* The stream ends: EOF when the remote end shut it down in order.
ReadEnds(eof) ==
    /\ recv = "read"
    /\ conn \notin open \cap alive
    /\ eof => conn \in open
    /\ recv' = IF eof /\ ~kind.permanent THEN "setClosed" ELSE "failed"
    /\ UNCHANGED <<kind, conn, open, alive, running, closed, rechan, dials, closer, sender, inTable>>

ReadFailed ==
    /\ recv = "failed"
    /\ IF closed THEN recv' = "setClosed" /\ UNCHANGED dials ELSE GoReconnect
    /\ UNCHANGED <<kind, conn, open, alive, running, closed, rechan, closer, sender, inTable>>

\* The receiving goroutine takes whatever message comes first.
TakeRechan ==
    /\ recv = "wait"
    /\ rechan # <<>>
    /\ rechan' = Tail(rechan)
    /\ recv' = IF Head(rechan) THEN "up" ELSE "setClosed"
    /\ UNCHANGED <<kind, conn, open, alive, running, closed, dials, closer, sender, inTable>>

ConnectedUp ==
    /\ recv = "up"
    /\ running' = TRUE
    /\ recv' = "loop"
    /\ UNCHANGED <<kind, conn, open, alive, closed, rechan, dials, closer, sender, inTable>>

-----------------------------------------------------------------------------
(***************************************************************************)
(* Closing                                                                 *)
(***************************************************************************)
\* rechan <- v blocks while the channel is full.
Push(v) ==
    /\ Len(rechan) < Capacity
    /\ rechan' = Append(rechan, v)

\* The deferred Close of the receiving goroutine, and then l.stopped <- true.
RecvSetClosed ==
    /\ recv = "setClosed"
    /\ closed' = TRUE
    /\ recv' = "push"
    /\ UNCHANGED <<kind, conn, open, alive, running, rechan, dials, closer, sender, inTable>>

RecvPush ==
    /\ recv = "push"
    /\ Push(FALSE)
    /\ recv' = "down"
    /\ UNCHANGED <<kind, conn, open, alive, running, closed, dials, closer, sender, inTable>>

\* Faulty variant: only a Close from outside closes the connection.
RecvDownOnly ==
    /\ recv = "down"
    /\ running' = FALSE
    /\ recv' = "stop"
    /\ UNCHANGED <<kind, conn, open, alive, closed, rechan, dials, closer, sender, inTable>>

RecvDown ==
    /\ recv = "down"
    /\ running' = FALSE
    /\ recv' = IF running THEN "closeConn" ELSE "stop"
    /\ UNCHANGED <<kind, conn, open, alive, closed, rechan, dials, closer, sender, inTable>>

RecvCloseConn ==
    /\ recv = "closeConn"
    /\ open' = open \ {conn}
    /\ recv' = "stop"
    /\ UNCHANGED <<kind, conn, alive, running, closed, rechan, dials, closer, sender, inTable>>

\* runSend takes the stop, between two packets, and removes the face from the
\* table.
RemoveFace ==
    /\ recv = "stop" /\ sender = "idle"
    /\ inTable' = FALSE
    /\ recv' = "done"
    /\ UNCHANGED <<kind, conn, open, alive, running, closed, rechan, dials, closer, sender>>

\* Close, called from outside while the face is in the table.
CloseFace(c) ==
    /\ closer[c] = "idle"
    /\ inTable
    /\ closed' = TRUE
    /\ closer' = [closer EXCEPT ![c] = "push"]
    /\ UNCHANGED <<kind, conn, open, alive, running, rechan, recv, dials, sender, inTable>>

ClosePush(c) ==
    /\ closer[c] = "push"
    /\ Push(FALSE)
    /\ closer' = [closer EXCEPT ![c] = "down"]
    /\ UNCHANGED <<kind, conn, open, alive, running, closed, recv, dials, sender, inTable>>

CloseDown(c) ==
    /\ closer[c] = "down"
    /\ running' = FALSE
    /\ closer' = [closer EXCEPT ![c] = IF running THEN "closeConn" ELSE "done"]
    /\ UNCHANGED <<kind, conn, open, alive, closed, rechan, recv, dials, sender, inTable>>

CloseConn(c) ==
    /\ closer[c] = "closeConn"
    /\ open' = open \ {conn}
    /\ closer' = [closer EXCEPT ![c] = "done"]
    /\ UNCHANGED <<kind, conn, alive, running, closed, rechan, recv, dials, sender, inTable>>

-----------------------------------------------------------------------------
(***************************************************************************)
(* Sending                                                                 *)
(***************************************************************************)
\* A write fails, and sendFrame calls CloseConn: the face stays.  By then the
\* receiving goroutine may have another connection.
SendFails ==
    /\ inTable /\ sender = "idle"
    /\ running
    /\ conn \notin open \cap alive
    /\ sender' = "down"
    /\ UNCHANGED <<kind, conn, open, alive, running, closed, rechan, recv, dials, closer, inTable>>

SendDown ==
    /\ sender = "down"
    /\ running' = FALSE
    /\ sender' = IF running THEN "closeConn" ELSE "idle"
    /\ UNCHANGED <<kind, conn, open, alive, closed, rechan, recv, dials, closer, inTable>>

SendCloseConn ==
    /\ sender = "closeConn"
    /\ open' = open \ {conn}
    /\ sender' = "idle"
    /\ UNCHANGED <<kind, conn, alive, running, closed, rechan, recv, dials, closer, inTable>>

-----------------------------------------------------------------------------
(***************************************************************************)
(* Reconnecting                                                            *)
(***************************************************************************)
\* Shut down the existing socket.
Begin(d) ==
    /\ d.at = "begin"
    /\ open' = open \ {conn}
    /\ dials' = (dials \ {d}) \cup {[d EXCEPT !.at = "check"]}
    /\ UNCHANGED <<kind, conn, alive, running, closed, rechan, recv, closer, sender, inTable>>

\* Faulty variant: every face makes one attempt only.
GivesUpAlways(d) == ~d.first

\* Whether to dial (again).  The first attempt of a face that never had a
\* connection is made whatever its persistency.
GivesUp(d) == ~d.first /\ (~kind.permanent \/ closed)

Check(d) ==
    /\ d.at = "check"
    /\ IF GivesUp(d)
       THEN Push(FALSE) /\ dials' = dials \ {d}
       ELSE dials' = (dials \ {d}) \cup {[d EXCEPT !.at = "dial"]} /\ UNCHANGED rechan
    /\ UNCHANGED <<kind, conn, open, alive, running, closed, recv, closer, sender, inTable>>

\* The dial fails; the next attempt is not the first.
DialFails(d) ==
    /\ d.at = "dial" /\ kind.outgoing
    /\ dials' = (dials \ {d}) \cup {[d EXCEPT !.at = "check", !.first = FALSE]}
    /\ UNCHANGED <<kind, conn, open, alive, running, closed, rechan, recv, closer, sender, inTable>>

DialConnects(d) ==
    /\ d.at = "dial" /\ kind.outgoing
    /\ \E k \in Socket \ (open \cup {conn}) :
        /\ open' = open \cup {k}
        /\ alive' = alive \cup {k}
        /\ dials' = (dials \ {d}) \cup {[d EXCEPT !.at = "dialed", !.conn = k]}
    /\ UNCHANGED <<kind, conn, running, closed, rechan, recv, closer, sender, inTable>>

\* An accepted face that was made permanent has no dialer: the forwarder panics.
DialPanics(d) ==
    /\ d.at = "dial" /\ ~kind.outgoing
    /\ open' = {} /\ running' = FALSE /\ dials' = {} /\ inTable' = FALSE
    /\ recv' = "panicked" /\ sender' = "idle" /\ closer' = [c \in Closers |-> "done"]
    /\ UNCHANGED <<kind, conn, alive, closed, rechan>>

\* Closed meanwhile: the new connection is closed, and nobody is told.
Dialed(d) ==
    /\ d.at = "dialed"
    /\ IF closed
       THEN open' = open \ {d.conn} /\ dials' = dials \ {d}
       ELSE dials' = (dials \ {d}) \cup {[d EXCEPT !.at = "set"]} /\ UNCHANGED open
    /\ UNCHANGED <<kind, conn, alive, running, closed, rechan, recv, closer, sender, inTable>>

SetConn(d) ==
    /\ d.at = "set"
    /\ conn' = d.conn
    /\ dials' = (dials \ {d}) \cup {[d EXCEPT !.at = "push"]}
    /\ UNCHANGED <<kind, open, alive, running, closed, rechan, recv, closer, sender, inTable>>

\* rechan <- true: go on with the new connection.
Continue(d) ==
    /\ d.at = "push"
    /\ Push(TRUE)
    /\ dials' = dials \ {d}
    /\ UNCHANGED <<kind, conn, open, alive, running, closed, recv, closer, sender, inTable>>

\* The command faces/update.
SetPersistency(permanent) ==
    /\ inTable
    /\ kind' = [kind EXCEPT !.permanent = permanent]
    /\ UNCHANGED <<conn, open, alive, running, closed, rechan, recv, dials, closer, sender, inTable>>

\* The remote end shuts the connection down or becomes unreachable.
RemoteCloses(k) ==
    /\ k \in alive
    /\ alive' = alive \ {k}
    /\ UNCHANGED <<kind, conn, open, running, closed, rechan, recv, dials, closer, sender, inTable>>

-----------------------------------------------------------------------------
Receiving ==
    \/ Loop \/ ReadEnds(TRUE) \/ ReadEnds(FALSE) \/ ReadFailed
    \/ TakeRechan \/ ConnectedUp
    \/ RecvSetClosed \/ RecvPush \/ RecvDown \/ RecvCloseConn \/ RemoveFace

Closing(c) == ClosePush(c) \/ CloseDown(c) \/ CloseConn(c)

Sending == SendDown \/ SendCloseConn

Dialing(d) == Begin(d) \/ Check(d) \/ Dialed(d) \/ SetConn(d) \/ Continue(d) \/ DialPanics(d)

Next ==
    \/ Receiving
    \/ \E c \in Closers : CloseFace(c) \/ Closing(c)
    \/ SendFails \/ Sending
    \/ \E d \in dials : Dialing(d) \/ DialFails(d) \/ DialConnects(d)
    \/ \E permanent \in BOOLEAN : SetPersistency(permanent)
    \/ \E k \in Socket : RemoteCloses(k)

\* The goroutines run; a dial ends, and of infinitely many one connects.
Fairness ==
    /\ WF_vars(Receiving)
    /\ \A c \in Closers : WF_vars(Closing(c))
    /\ WF_vars(Sending)
    /\ WF_vars(\E d \in dials : Dialing(d))
    /\ WF_vars(\E d \in dials : DialFails(d) \/ DialConnects(d))
    /\ SF_vars(\E d \in dials : DialConnects(d))

Spec == Init /\ [][Next]_vars /\ Fairness

-----------------------------------------------------------------------------
(***************************************************************************)
(* Properties                                                              *)
(***************************************************************************)
\* The face is gone, and so is every goroutine that may have closed a
\* connection of it.
Ended ==
    /\ ~inTable /\ dials = {}
    /\ \A c \in Closers : closer[c] \in {"idle", "done"}

\* A face that comes to its end leaves no socket open: "If the transport was
\* closed while we were trying to reconnect, close the new connection".
NoSocketLost == Ended => open = {}

\* A face that comes to its end by itself, and is not closed from outside,
\* leaves no socket open, however a failed write and changes of its persistency
\* fall between the attempts to reconnect.
EndsClosed == Ended /\ (\A c \in Closers : closer[c] = "idle") => open = {}

\* A permanent face that reconnects gets a working connection again, and any
\* other face leaves the table when its connection is lost, unless its
\* persistency changes meanwhile or somebody closes it: a Close from outside may
\* leave the receiving goroutine blocked on rechan.  An accepted face must not
\* have been made permanent.
LossHandled ==
    LET outside == \E c \in Closers : closer[c] # "idle"
    IN  /\ (kind.permanent /\ dials # {}) ~>
               (running \/ ~kind.permanent \/ outside \/ recv = "panicked")
        /\ (~kind.permanent /\ recv = "read" /\ conn \notin open \cap alive) ~>
               (~inTable \/ kind.permanent \/ outside)
=============================================================================
