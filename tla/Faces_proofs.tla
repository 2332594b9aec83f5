---------------------------- MODULE Faces_proofs ----------------------------
(***************************************************************************)
(* Proofs about the modules that MCFaces puts together: FaceEvents, for    *)
(* any set of faces and any length of the history; TcpFace, for any number *)
(* of goroutines that close the face and of connections; and PetSync, for  *)
(* any number of prefixes, faces and insertions and any size of the        *)
(* channel.                                                                *)
(***************************************************************************)
EXTENDS MCFaces, FiniteSetTheorems, TLAPS

-----------------------------------------------------------------------------
(***************************************************************************)
(* Missing faces.  The argument follows a Destroyed event backwards.  The  *)
(* face is in its last stage, "done", from the moment it leaves the face   *)
(* table; Destroyed is due, recorded, sent and applied only afterwards;    *)
(* and a face is seen and not active only by way of such an event.         *)
(***************************************************************************)
\* Faces that are done are not in the table.
GoneIsDone == \A f \in Face : recv[f] = "done" => f \notin table

DueIsDone == \A e \in due : e[2] = Destroyed => recv[e[1]] = "done"

RecordedIsDone ==
    \A s \in DOMAIN events : events[s].kind = Destroyed => recv[events[s].face] = "done"

AnswerIsDone ==
    answer # Nothing /\ answer.event.kind = Destroyed => recv[answer.event.face] = "done"

MissingIsDone == \A f \in seen \ active : recv[f] = "done"

\* The goroutine that owes a report is still at the place it reports from, so
\* that a report never takes a face out of its last stage.
ReporterWaits ==
    \A e \in due :
        /\ e[2] = Created => e[3] = "run" /\ recv[e[1]] = "adding"
        /\ e[3] = "recv" => e[2] = Down /\ recv[e[1]] = "reporting"

Inv ==
    /\ TypeOK
    /\ GoneIsDone
    /\ ReporterWaits
    /\ DueIsDone
    /\ RecordedIsDone
    /\ AnswerIsDone
    /\ MissingIsDone

-----------------------------------------------------------------------------
LEMMA InitInv == Init => Inv
<1> SUFFICES ASSUME Init PROVE Inv
  OBVIOUS
<1>1. TypeOK
  BY DEF Init, TypeOK, Created, Down, Destroyed
<1> QED
  BY <1>1 DEF Init, Inv, GoneIsDone, ReporterWaits, DueIsDone, RecordedIsDone, AnswerIsDone, MissingIsDone

\* What a request is answered with, when it is answered, was recorded.
LEMMA SelectedIsRecorded ==
  ASSUME NEW seq \in Nat, TypeOK, SelectFaceEvent(seq) # 0
  PROVE  SelectFaceEvent(seq) \in 1..Len(events)
<1>1. Len(events) \in Nat /\ HistoryLimit \in Nat \ {0}
  BY FaceEventsAssumption DEF TypeOK
<1> QED
  BY <1>1 DEF SelectFaceEvent, OldestKept

LEMMA FaceRecorded ==
  ASSUME TypeOK
  PROVE  \A s \in DOMAIN events : events[s].face \in Face
<1>1. events \in Seq(Event)
  BY DEF TypeOK
<1>2. \A s \in DOMAIN events : events[s] \in Event
  BY <1>1
<1> QED
  BY <1>2 DEF Event

LEMMA AddInv == ASSUME Inv, NEW f \in Face, Add(f) PROVE Inv'
<1> USE DEF Inv, Add, routerVars
<1>1. TypeOK'
  BY DEF TypeOK, Created, Down, Destroyed
<1>2. GoneIsDone'
  BY DEF TypeOK, GoneIsDone
<1>3. DueIsDone'
  BY DEF TypeOK, DueIsDone, Created, Destroyed
<1>4. ReporterWaits'
  BY DEF TypeOK, ReporterWaits, Created, Down
<1>5. RecordedIsDone' /\ AnswerIsDone' /\ MissingIsDone'
  BY DEF TypeOK, RecordedIsDone, AnswerIsDone, MissingIsDone, Event
<1> QED
  BY <1>1, <1>2, <1>3, <1>4, <1>5

LEMMA EmitInv == ASSUME Inv, NEW e \in due, Emit(e) PROVE Inv'
<1> USE DEF Inv, Emit, routerVars
<1> DEFINE ev == [face |-> e[1], kind |-> e[2]]
<1>1. /\ e \in Face \X {Created, Down, Destroyed} \X {"run", "recv", "mgmt"}
      /\ e[1] \in Face /\ ev \in Event
  BY DEF TypeOK, Event
<1>2. events' \in Seq(Event) /\ Len(events') = Len(events) + 1 /\ Len(events) \in Nat
  BY <1>1 DEF TypeOK
<1>3. TypeOK'
  <2>1. recv' \in [Face -> {"new", "adding", "reading", "closing", "reporting", "stopped", "done"}]
    BY <1>1 DEF TypeOK
  <2>2. nextSeq' \in 0..(Len(events') + 1)
    BY <1>2 DEF TypeOK
  <2>3. answer' \in {Nothing} \cup [seq : 1..Len(events'), event : Event]
    BY <1>2 DEF TypeOK
  <2> QED
    BY <1>2, <2>1, <2>2, <2>3 DEF TypeOK
<1>4. \A f \in Face : (recv[f] = "done") = (recv'[f] = "done")
  BY <1>1 DEF TypeOK, ReporterWaits
<1>5. GoneIsDone'
  BY <1>4 DEF GoneIsDone
<1>6. ReporterWaits'
  <2> SUFFICES ASSUME NEW d \in due, d # e
               PROVE  /\ d[2] = Created => d[3] = "run" /\ recv'[d[1]] = "adding"
                      /\ d[3] = "recv" => d[2] = Down /\ recv'[d[1]] = "reporting"
    BY DEF ReporterWaits
  <2>1. d \in Face \X {Created, Down, Destroyed} \X {"run", "recv", "mgmt"}
    BY DEF TypeOK
  <2>2. CASE d[1] # e[1]
    BY <1>1, <2>1, <2>2 DEF TypeOK, ReporterWaits
  <2>3. CASE d[1] = e[1]
    BY <1>1, <2>1, <2>3 DEF TypeOK, ReporterWaits, Created, Down
  <2> QED
    BY <2>2, <2>3
<1>7. DueIsDone'
  BY <1>4 DEF DueIsDone, TypeOK
<1>8. RecordedIsDone'
  <2> SUFFICES ASSUME NEW s \in DOMAIN events', events'[s].kind = Destroyed
               PROVE  recv'[events'[s].face] = "done"
    BY DEF RecordedIsDone
  <2>1. CASE s = Len(events) + 1
    BY <1>1, <1>2, <1>4, <2>1 DEF DueIsDone, TypeOK
  <2>2. CASE s # Len(events) + 1
    <3>1. s \in DOMAIN events /\ events'[s] = events[s] /\ events[s] \in Event
      BY <1>1, <1>2, <2>2 DEF TypeOK
    <3> QED
      BY <1>4, <3>1 DEF RecordedIsDone, Event
  <2> QED
    BY <2>1, <2>2
<1>9. AnswerIsDone' /\ MissingIsDone'
  BY <1>4 DEF AnswerIsDone, MissingIsDone, TypeOK, Event
<1> QED
  BY <1>3, <1>5, <1>6, <1>7, <1>8, <1>9

\* A step that reports nothing and leaves the router alone.
LEMMA FaceStepInv ==
  ASSUME Inv, NEW f \in Face, Destroy(f) \/ StreamEnds(f) \/ RecvClose(f) \/ Remove(f)
  PROVE  Inv'
<1> USE DEF Inv, Destroy, StreamEnds, RecvClose, Remove, routerVars
<1>1. TypeOK'
  BY DEF TypeOK, Created, Down, Destroyed
<1>2. \A g \in Face : recv[g] = "done" => recv'[g] = "done"
  BY DEF TypeOK
<1>3. GoneIsDone'
  BY DEF TypeOK, GoneIsDone
<1>4. ReporterWaits'
  <2>1. CASE Destroy(f)
    BY <2>1 DEF ReporterWaits, TypeOK, Created, Down
  <2>2. CASE StreamEnds(f)
    BY <2>2 DEF ReporterWaits, TypeOK, Created, Down
  <2>3. CASE RecvClose(f)
    BY <2>3 DEF ReporterWaits, TypeOK, Created, Down
  <2>4. CASE Remove(f)
    BY <2>4 DEF ReporterWaits, TypeOK, Created, Down, Destroyed
  <2> QED
    BY <2>1, <2>2, <2>3, <2>4
<1>5. DueIsDone'
  BY <1>2 DEF DueIsDone, TypeOK, Down, Destroyed
<1>6. UNCHANGED <<events, nextSeq, answer, active, seen>>
  OBVIOUS
<1>7. RecordedIsDone'
  BY <1>2, <1>6, FaceRecorded DEF RecordedIsDone
<1>8. AnswerIsDone'
  BY <1>2, <1>6 DEF AnswerIsDone, TypeOK, Event
<1>9. MissingIsDone'
  BY <1>2, <1>6 DEF MissingIsDone, TypeOK
<1> QED
  BY <1>1, <1>3, <1>4, <1>5, <1>7, <1>8, <1>9

LEMMA FetchInv == ASSUME Inv, Fetch PROVE Inv'
<1> USE DEF Inv, Fetch, faceVars
<1> DEFINE s == SelectFaceEvent(nextSeq)
<1>1. s \in 1..Len(events)
  BY SelectedIsRecorded DEF TypeOK
<1>2. events[s] \in Event
  BY <1>1 DEF TypeOK
<1>3. TypeOK'
  BY <1>1, <1>2 DEF TypeOK
<1>4. AnswerIsDone'
  BY <1>1, <1>2 DEF AnswerIsDone, RecordedIsDone, TypeOK
<1> QED
  BY <1>3, <1>4 DEF GoneIsDone, ReporterWaits, DueIsDone, RecordedIsDone, MissingIsDone

LEMMA HandleInv == ASSUME Inv, Handle PROVE Inv'
<1> USE DEF Inv, Handle, faceVars
<1>1. answer.seq \in 1..Len(events) /\ answer.event \in Event /\ Len(events) \in Nat
  BY DEF TypeOK
<1>2. TypeOK'
  BY <1>1 DEF TypeOK, ActiveAfter, Kept, Event
<1>3. MissingIsDone'
  <2> SUFFICES ASSUME NEW f \in seen' \ active'
               PROVE  recv'[f] = "done"
    BY DEF MissingIsDone
  <2>1. CASE f = answer.event.face
    BY <2>1 DEF ActiveAfter, AnswerIsDone
  <2>2. CASE f # answer.event.face
    BY <2>2 DEF ActiveAfter, Kept, MissingIsDone
  <2> QED
    BY <2>1, <2>2
<1> QED
  BY <1>2, <1>3 DEF GoneIsDone, ReporterWaits, DueIsDone, RecordedIsDone, AnswerIsDone

LEMMA StepInv == Inv /\ [Next]_vars => Inv'
<1> SUFFICES ASSUME Inv, [Next]_vars PROVE Inv'
  OBVIOUS
<1>1. CASE Next
  BY <1>1, AddInv, EmitInv, FaceStepInv, FetchInv, HandleInv DEF Next
<1>2. CASE UNCHANGED vars
  BY <1>2 DEF vars, Inv, TypeOK, GoneIsDone, ReporterWaits, DueIsDone,
              RecordedIsDone, AnswerIsDone, MissingIsDone
<1> QED
  BY <1>1, <1>2

LEMMA InvHolds == Spec => []Inv
BY InitInv, StepInv, PTL DEF Spec

\* The router asks at most for the event after the last one, and what it was
\* sent is an event that was recorded (runFaceEvents, selectFaceEvent).
THEOREM EventsTypeCorrect == Spec => []TypeOK
<1>1. Inv => TypeOK
  BY DEF Inv
<1> QED
  BY <1>1, InvHolds, PTL

\* A face that pruneMissingFaces takes to be missing has left the face table,
\* whichever events were lost on the way to the router.
THEOREM MissingFacesAreGone == Spec => []MissingIsGone
<1>1. Inv => MissingIsGone
  BY DEF Inv, TypeOK, GoneIsDone, MissingIsDone, MissingIsGone
<1> QED
  BY <1>1, InvHolds, PTL
-----------------------------------------------------------------------------
(***************************************************************************)
(* Active faces.  A face that no command destroys reports Created, Down    *)
(* and Destroyed in this order, and the router applies what it reports     *)
(* from some point on without a gap: a face is active only as long as the  *)
(* router has not come to its Destroyed, which is its last event.          *)
(***************************************************************************)
\* A face is in the table from Add to Remove.
TableFollows == \A f \in Face : f \in table <=> recv[f] \notin {"new", "done"}

\* Who reports what.
ReportsInOrder ==
    \A e \in due :
        /\ recv[e[1]] # "new"
        /\ e[3] = "mgmt" => e[1] \in Destroyable
        /\ e[3] = "run" => e[2] # Down
        /\ e[2] = Destroyed => e[3] = "run"

\* Only faces that were made have events.
RecordedNotNew == \A s \in DOMAIN events : recv[events[s].face] # "new"

\* A face that is gone has reported it, or will.
DoneIsReported ==
    \A f \in Face : recv[f] = "done" =>
        \/ <<f, Destroyed, "run">> \in due
        \/ \E s \in DOMAIN events : events[s] = [face |-> f, kind |-> Destroyed]

\* Destroyed is the last event of a face, and nothing else is due.
DestroyedIsLast ==
    \A s \in DOMAIN events : events[s].kind = Destroyed /\ events[s].face \notin Destroyable =>
        /\ \A t \in DOMAIN events : t > s => events[t].face # events[s].face
        /\ \A e \in due : e[1] # events[s].face

\* The router applies the events one after the other.
AnswerInOrder ==
    answer # Nothing => /\ answer.event = events[answer.seq]
                        /\ nextSeq = 0 \/ answer.seq = nextSeq

\* An active face is one that was made, and whose Destroyed is yet to come.
ActiveNotDestroyed ==
    /\ nextSeq = 0 => active = {}
    /\ \A f \in active :
          /\ recv[f] # "new"
          /\ f \notin Destroyable => \A s \in DOMAIN events :
                s < nextSeq => events[s] # [face |-> f, kind |-> Destroyed]

OrderInv ==
    /\ Inv
    /\ TableFollows /\ ReportsInOrder /\ RecordedNotNew /\ DoneIsReported /\ DestroyedIsLast
    /\ AnswerInOrder /\ ActiveNotDestroyed

\* A step of the forwarder that records nothing.
LEMMA FaceStepOrder ==
    ASSUME OrderInv, Inv', NEW f \in Face,
           Add(f) \/ Destroy(f) \/ StreamEnds(f) \/ RecvClose(f) \/ Remove(f)
    PROVE  OrderInv'
<1> USE DEF OrderInv, Inv, Add, Destroy, StreamEnds, RecvClose, Remove, routerVars
<1>1. /\ UNCHANGED <<events, nextSeq, answer, active, seen>>
      /\ \A g \in Face : recv[g] # "new" => recv'[g] # "new"
      /\ \A s \in DOMAIN events : events[s].face \in Face
  BY FaceRecorded DEF TypeOK
<1>2. TableFollows'
  BY DEF TableFollows, TypeOK
<1>3. ReportsInOrder'
  <2>1. CASE Add(f)
    BY <2>1 DEF ReportsInOrder, TypeOK, Created, Down, Destroyed
  <2>2. CASE Destroy(f)
    <3>1. recv[f] # "new"
      BY <2>2 DEF TypeOK, TableFollows
    <3> QED
      BY <2>2, <3>1 DEF ReportsInOrder, TypeOK, Created, Down, Destroyed
  <2>3. CASE StreamEnds(f)
    BY <2>3 DEF ReportsInOrder, TypeOK
  <2>4. CASE RecvClose(f)
    BY <2>4 DEF ReportsInOrder, TypeOK, Created, Down, Destroyed
  <2>5. CASE Remove(f)
    BY <2>5 DEF ReportsInOrder, TypeOK, Created, Down, Destroyed
  <2> QED
    BY <2>1, <2>2, <2>3, <2>4, <2>5
<1>4. RecordedNotNew'
  BY <1>1 DEF RecordedNotNew
<1>5. DoneIsReported'
  <2>1. CASE Remove(f)
    BY <2>1, <1>1 DEF DoneIsReported, TypeOK
  <2>2. CASE ~Remove(f)
    BY <2>2, <1>1 DEF DoneIsReported, TypeOK
  <2> QED
    BY <2>1, <2>2
<1>6. DestroyedIsLast'
  <2> SUFFICES ASSUME NEW s \in DOMAIN events, events[s].kind = Destroyed,
                      events[s].face \notin Destroyable
               PROVE  \A e \in due' : e[1] # events[s].face
    BY <1>1 DEF DestroyedIsLast
  <2>1. recv[events[s].face] = "done"
    BY DEF RecordedIsDone
  <2>2. \A e \in due' \ due : e[1] = f
    BY DEF TypeOK
  <2>3. due' # due => recv[f] # "done" \/ f \in Destroyable
    OBVIOUS
  <2> QED
    BY <2>1, <2>2, <2>3 DEF DestroyedIsLast
<1>7. AnswerInOrder' /\ ActiveNotDestroyed'
  BY <1>1 DEF AnswerInOrder, ActiveNotDestroyed, TypeOK
<1> QED
  BY <1>2, <1>3, <1>4, <1>5, <1>6, <1>7

LEMMA EmitOrder == ASSUME OrderInv, Inv', NEW e \in due, Emit(e) PROVE OrderInv'
<1> USE DEF OrderInv, Inv, Emit, routerVars
<1> DEFINE ev == [face |-> e[1], kind |-> e[2]]
           n == Len(events)
<1>1. /\ e \in Face \X {Created, Down, Destroyed} \X {"run", "recv", "mgmt"}
      /\ e[1] \in Face /\ ev \in Event
  BY DEF TypeOK, Event
<1>2. /\ n \in Nat /\ DOMAIN events = 1..n /\ DOMAIN events' = 1..(n + 1)
      /\ events'[n + 1] = ev /\ \A s \in 1..n : events'[s] = events[s]
  BY <1>1 DEF TypeOK
<1>3. UNCHANGED <<table, nextSeq, answer, active, seen>> /\ due' = due \ {e}
  OBVIOUS
<1>4. \A f \in Face : /\ recv[f] # "new" => recv'[f] # "new"
                      /\ (recv[f] = "done") = (recv'[f] = "done")
                      /\ recv'[f] = recv[f] \/ recv[f] \notin {"new", "done"}
  BY <1>1 DEF TypeOK, ReporterWaits
<1>5. \A s \in 1..n : events[s].face \in Face
  BY <1>2, FaceRecorded
<1> HIDE DEF n
<1>6. TableFollows'
  BY <1>3, <1>4 DEF TableFollows
<1>7. ReportsInOrder'
  BY <1>3, <1>4 DEF ReportsInOrder, TypeOK
<1>8. RecordedNotNew'
  <2> SUFFICES ASSUME NEW s \in 1..(n + 1) PROVE recv'[events'[s].face] # "new"
    BY <1>2 DEF RecordedNotNew
  <2>1. CASE s = n + 1
    BY <1>1, <1>2, <1>4, <2>1 DEF ReportsInOrder
  <2>2. CASE s # n + 1
    BY <1>2, <1>4, <1>5, <2>2 DEF RecordedNotNew
  <2> QED
    BY <2>1, <2>2
<1>9. DoneIsReported'
  <2> SUFFICES ASSUME NEW f \in Face, recv'[f] = "done"
               PROVE  \/ <<f, Destroyed, "run">> \in due'
                      \/ \E s \in 1..(n + 1) : events'[s] = [face |-> f, kind |-> Destroyed]
    BY <1>2 DEF DoneIsReported
  <2>1. CASE e = <<f, Destroyed, "run">>
    BY <1>2, <2>1
  <2>2. CASE e # <<f, Destroyed, "run">>
    BY <1>2, <1>3, <1>4, <2>2 DEF DoneIsReported
  <2> QED
    BY <2>1, <2>2
<1>10. DestroyedIsLast'
  <2> SUFFICES ASSUME NEW s \in 1..(n + 1), events'[s].kind = Destroyed,
                      events'[s].face \notin Destroyable
               PROVE  /\ \A t \in 1..(n + 1) : t > s => events'[t].face # events'[s].face
                      /\ \A d \in due' : d[1] # events'[s].face
    BY <1>2 DEF DestroyedIsLast
  <2>1. CASE s = n + 1
    <3>1. e[2] = Destroyed /\ e[3] = "run" /\ e[1] \notin Destroyable /\ recv[e[1]] = "done"
      BY <1>1, <1>2, <2>1 DEF ReportsInOrder, DueIsDone
    <3>2. ASSUME NEW d \in due, d[1] = e[1] PROVE d = e
      <4>1. d \in Face \X {Created, Down, Destroyed} \X {"run", "recv", "mgmt"}
        BY DEF TypeOK
      <4>2. d[3] = "run" /\ d[2] = Destroyed
        BY <3>1, <3>2, <4>1 DEF ReporterWaits, ReportsInOrder
      <4> QED
        BY <1>1, <3>1, <3>2, <4>1, <4>2
    <3> QED
      BY <1>1, <1>2, <1>3, <2>1, <3>2
  <2>2. CASE s # n + 1
    <3>1. s \in 1..n /\ events'[s] = events[s]
      BY <1>2, <2>2
    <3>2. e[1] # events[s].face
      BY <1>2, <3>1 DEF DestroyedIsLast
    <3>3. \A t \in 1..n : t > s => events'[t].face # events'[s].face
      BY <1>2, <3>1 DEF DestroyedIsLast
    <3>4. events'[n + 1].face # events'[s].face
      BY <1>2, <3>1, <3>2
    <3>5. \A t \in 1..(n + 1) : t \in 1..n \/ t = n + 1
      BY <1>2
    <3>6. \A d \in due' : d[1] # events'[s].face
      BY <1>2, <1>3, <3>1 DEF DestroyedIsLast
    <3> QED
      BY <3>3, <3>4, <3>5, <3>6
  <2> QED
    BY <2>1, <2>2
<1>11. AnswerInOrder'
  <2>1. answer # Nothing => answer.seq \in 1..n
    BY DEF TypeOK, n
  <2> QED
    BY <1>2, <1>3, <2>1 DEF AnswerInOrder
<1>12. ActiveNotDestroyed'
  <2>1. nextSeq \in 0..(n + 1)
    BY DEF TypeOK, n
  <2>2. ASSUME NEW f \in active, f \notin Destroyable, NEW s \in 1..(n + 1), s < nextSeq
        PROVE  events'[s] # [face |-> f, kind |-> Destroyed]
    BY <1>2, <2>1, <2>2 DEF ActiveNotDestroyed
  <2> QED
    BY <1>2, <1>3, <1>4, <2>2 DEF ActiveNotDestroyed, TypeOK
<1> QED
  BY <1>6, <1>7, <1>8, <1>9, <1>10, <1>11, <1>12

LEMMA FetchOrder == ASSUME OrderInv, Inv', Fetch PROVE OrderInv'
<1> USE DEF OrderInv, Inv, Fetch, faceVars
<1>1. UNCHANGED <<table, running, recv, due, events, nextSeq, active, seen>>
  OBVIOUS
<1>2. AnswerInOrder'
  BY DEF AnswerInOrder, Matches
<1> QED
  BY <1>1, <1>2 DEF TableFollows, ReportsInOrder, RecordedNotNew, DoneIsReported, DestroyedIsLast,
                    ActiveNotDestroyed

LEMMA HandleOrder == ASSUME OrderInv, Inv', Handle PROVE OrderInv'
<1> USE DEF OrderInv, Inv, Handle, faceVars
<1>1. /\ answer.seq \in 1..Len(events) /\ answer.event \in Event /\ Len(events) \in Nat
      /\ DOMAIN events = 1..Len(events) /\ nextSeq \in Nat /\ answer # Nothing
  BY DEF TypeOK
<1>2. ~Gap /\ answer.event = events[answer.seq] /\ nextSeq' = answer.seq + 1
      /\ (nextSeq = 0 \/ answer.seq = nextSeq)
  BY <1>1 DEF Gap, AnswerInOrder
<1>3. ActiveNotDestroyed'
  <2>1. nextSeq' # 0
    BY <1>1, <1>2
  <2>2. ASSUME NEW f \in active'
        PROVE  /\ recv[f] # "new"
               /\ f \notin Destroyable => \A s \in DOMAIN events :
                    s < nextSeq' => events[s] # [face |-> f, kind |-> Destroyed]
    <3>1. CASE f = answer.event.face
      <4>1. answer.event.kind # Destroyed
        BY <3>1 DEF ActiveAfter
      <4>2. recv[f] # "new"
        BY <1>1, <1>2, <3>1 DEF RecordedNotNew
      <4>3. ASSUME f \notin Destroyable, NEW s \in DOMAIN events, s < nextSeq',
                   events[s] = [face |-> f, kind |-> Destroyed]
            PROVE  FALSE
        <5>1. s # answer.seq
          BY <1>2, <4>1, <4>3
        <5>2. answer.seq > s
          BY <1>1, <1>2, <4>3, <5>1
        <5>3. events[answer.seq].face # events[s].face
          BY <1>1, <4>3, <5>2 DEF DestroyedIsLast
        <5> QED
          BY <1>2, <3>1, <4>3, <5>3
      <4> QED
        BY <4>2, <4>3
    <3>2. CASE f # answer.event.face
      <4>1. f \in active
        BY <1>2, <3>2 DEF ActiveAfter, Kept
      <4>2. nextSeq # 0 /\ answer.seq = nextSeq
        BY <1>2, <4>1 DEF ActiveNotDestroyed
      <4>3. ASSUME f \notin Destroyable, NEW s \in DOMAIN events, s < nextSeq'
            PROVE  events[s] # [face |-> f, kind |-> Destroyed]
        <5>1. CASE s = answer.seq
          BY <1>2, <3>2, <5>1
        <5>2. CASE s # answer.seq
          <6>1. s < nextSeq
            BY <1>1, <1>2, <4>2, <4>3, <5>2
          <6> QED
            BY <4>1, <4>3, <6>1 DEF ActiveNotDestroyed
        <5> QED
          BY <5>1, <5>2
      <4> QED
        BY <4>1, <4>3 DEF ActiveNotDestroyed
    <3> QED
      BY <3>1, <3>2
  <2> QED
    BY <2>1, <2>2 DEF ActiveNotDestroyed
<1> QED
  BY <1>3 DEF TableFollows, ReportsInOrder, RecordedNotNew, DoneIsReported, DestroyedIsLast,
              AnswerInOrder

LEMMA StepOrder == OrderInv /\ [Next]_vars => OrderInv'
<1> SUFFICES ASSUME OrderInv, [Next]_vars PROVE OrderInv'
  OBVIOUS
<1>0. Inv'
  BY StepInv DEF OrderInv
<1>1. CASE Next
  BY <1>0, <1>1, FaceStepOrder, EmitOrder, FetchOrder, HandleOrder DEF Next
<1>2. CASE UNCHANGED vars
  BY <1>0, <1>2
  DEF vars, OrderInv, TableFollows, ReportsInOrder, RecordedNotNew, DoneIsReported,
      DestroyedIsLast, AnswerInOrder, ActiveNotDestroyed
<1> QED
  BY <1>1, <1>2

\* A router that has applied every event takes no face for active that has
\* left the face table, unless a command may have destroyed it: for any
\* interleaving of faces, goroutines and fetches.
THEOREM ActiveFacesAreThere == Spec => []ActiveIsThere
<1>1. Init => OrderInv
  <2> SUFFICES ASSUME Init PROVE OrderInv
    OBVIOUS
  <2>1. Inv
    BY InitInv
  <2>2. DOMAIN events = {} /\ due = {} /\ table = {} /\ active = {} /\ \A f \in Face : recv[f] = "new"
    BY DEF Init
  <2>3. answer = Nothing
    BY DEF Init
  <2> QED
    BY <2>1, <2>2, <2>3
    DEF OrderInv, TableFollows, ReportsInOrder, RecordedNotNew, DoneIsReported, DestroyedIsLast,
        AnswerInOrder, ActiveNotDestroyed
<1>2. OrderInv => ActiveIsThere
  <2> SUFFICES ASSUME OrderInv, CaughtUp, NEW f \in active \ Destroyable, f \notin table
               PROVE  FALSE
    BY DEF ActiveIsThere
  <2>1. f \in Face /\ recv[f] = "done"
    BY DEF OrderInv, Inv, TypeOK, TableFollows, ActiveNotDestroyed
  <2>2. PICK s \in DOMAIN events : events[s] = [face |-> f, kind |-> Destroyed]
    BY <2>1 DEF OrderInv, DoneIsReported, CaughtUp
  <2>3. s < nextSeq
    <3>1. s \in 1..Len(events) /\ Len(events) \in Nat
      BY DEF OrderInv, Inv, TypeOK
    <3> QED
      BY <3>1 DEF CaughtUp
  <2> QED
    BY <2>2, <2>3 DEF OrderInv, ActiveNotDestroyed
<1> QED
  BY <1>1, <1>2, StepOrder, PTL DEF Spec

-----------------------------------------------------------------------------
(***************************************************************************)
(* TCP faces.  While nobody closes the face from outside, at any time just *)
(* one goroutine has the connection in its hands: the one that receives,   *)
(* or one in reconnect, or neither while the message of the latter waits   *)
(* in rechan.  A goroutine in reconnect has closed the old connection      *)
(* before it dials, and gives up with no connection open; a receiving one  *)
(* that ends finds the face up, or else its connection closed or the       *)
(* sending goroutine about to close it, which ends after that.             *)
(***************************************************************************)
\* A goroutine in reconnect, and what it holds.
Dial == [at : {"begin", "check", "dial", "dialed", "set", "push"},
         conn : Socket \cup {NoConn}, first : BOOLEAN]

TcpTypeOK ==
    /\ conn \in Socket \cup {NoConn} /\ open \subseteq Socket
    /\ dials \subseteq Dial
    /\ closer \in [Closers -> {"idle", "push", "down", "closeConn", "done"}]

\* Nobody has closed the face from outside.
Untouched == \A c \in Closers : closer[c] = "idle"

\* There is one goroutine in reconnect at most, the receiving one waits for it,
\* and the connection it replaces is closed until the new one is in its place.
DialState ==
    /\ \A d, e \in dials : d = e
    /\ \A d \in dials :
        /\ reader = "wait" /\ rechan = <<>>
        /\ d.at \in {"begin", "check", "dial"} => d.conn = NoConn
        /\ d.at \in {"check", "dial", "dialed", "set"} => conn \notin open
        /\ d.at = "push" => conn = d.conn
    /\ open \subseteq {conn} \cup {d.conn : d \in dials}

\* When the receiving goroutine waits and there is none in reconnect, its message
\* is there; a message that it gave up means that no connection is open.
WaitState ==
    /\ reader \in {"loop", "read", "failed", "up", "setClosed", "push"} => rechan = <<>>
    /\ reader = "wait" /\ dials = {} =>
          rechan = <<TRUE>> \/ (rechan = <<FALSE>> /\ conn \notin open)

\* The connection is closed, or the sending goroutine is about to close it.
Closes == sender = "closeConn" \/ conn \notin open

\* A connection that is in use is closed when the receiving goroutine ends.
EndState ==
    /\ reader \in {"loop", "read", "failed", "setClosed", "push", "down"} => up \/ Closes
    /\ reader = "stop" => Closes
    /\ reader \in {"done", "panicked"} => open = {}
    /\ closed => reader \in {"push", "down", "closeConn", "stop", "done", "panicked"}
    /\ ~inTable => reader \in {"done", "panicked"}

TcpState == DialState /\ WaitState /\ EndState

TcpInv == view = "tcp" => TcpTypeOK /\ (Untouched => TcpState)

\* A step of somebody who closes the face from outside leaves nothing to show.
LEMMA TcpTouched ==
    ASSUME TcpTypeOK, NEW c \in Closers, Tcp!CloseFace(c) \/ Tcp!Closing(c)
    PROVE  TcpTypeOK' /\ ~Untouched'
<1>1. /\ UNCHANGED <<conn, dials>> /\ open' \subseteq open
      /\ \E x \in {"push", "down", "closeConn", "done"} : closer' = [closer EXCEPT ![c] = x]
  BY DEF Tcp!CloseFace, Tcp!Closing, Tcp!ClosePush, Tcp!CloseDown, Tcp!CloseConn
<1> QED
  BY <1>1 DEF TcpTypeOK, Untouched

\* The receiving goroutine hands the connection to a new one.
LEMMA TcpGoReconnect ==
    ASSUME TcpTypeOK, TcpState, reader \in {"loop", "failed"}, ~closed, Tcp!GoReconnect,
           UNCHANGED <<conn, open, rechan, up, closed, closer, sender, inTable>>
    PROVE  TcpTypeOK' /\ TcpState'
<1> DEFINE d == [at |-> "begin", conn |-> NoConn, first |-> conn = NoConn]
<1>1. dials' = {d} /\ dials = {} /\ reader' = "wait" /\ rechan' = <<>>
  BY DEF Tcp!GoReconnect, TcpState, DialState, WaitState
<1>2. d \in Dial /\ d.at = "begin" /\ d.conn = NoConn
  BY DEF Dial
<1> HIDE DEF d
<1>3. TcpTypeOK'
  BY <1>1, <1>2 DEF TcpTypeOK
<1>4. DialState'
  BY <1>1, <1>2 DEF DialState, TcpState
<1>5. WaitState' /\ EndState'
  BY <1>1 DEF WaitState, EndState, TcpState
<1> QED
  BY <1>3, <1>4, <1>5 DEF TcpState

\* A step that neither uses a goroutine in reconnect nor rechan.
LEMMA TcpQuiet ==
    ASSUME TcpTypeOK, TcpState, dials = {}, UNCHANGED <<conn, dials, rechan, closer>>,
           open' \subseteq open, WaitState', EndState'
    PROVE  TcpTypeOK' /\ TcpState'
<1>1. TcpTypeOK' /\ DialState'
  BY DEF TcpTypeOK, TcpState, DialState
<1> QED
  BY <1>1 DEF TcpState

\* The only message of the channel is the first one.
LEMMA OneMessage == \A v : Head(<<v>>) = v /\ Tail(<<v>>) = <<>>
<1> SUFFICES ASSUME NEW v PROVE Head(<<v>>) = v /\ Tail(<<v>>) = <<>>
  OBVIOUS
<1> QED
  OBVIOUS

LEMMA TcpReceiving == ASSUME TcpTypeOK, TcpState, Tcp!Receiving PROVE TcpTypeOK' /\ TcpState'
<1>0. reader # "wait" => dials = {}
  BY DEF TcpState, DialState
<1>1. CASE Tcp!Loop
  <2>0. ~closed /\ reader = "loop"
    BY <1>1 DEF Tcp!Loop, TcpState, EndState
  <2>1. CASE conn = NoConn
    BY <1>1, <2>0, <2>1, TcpGoReconnect DEF Tcp!Loop
  <2>2. CASE conn # NoConn
    <3>1. WaitState' /\ EndState'
      BY <1>1, <2>2 DEF Tcp!Loop, TcpState, WaitState, EndState, Closes
    <3> QED
      BY <1>0, <1>1, <2>2, <3>1, TcpQuiet DEF Tcp!Loop
  <2> QED
    BY <2>1, <2>2
<1>2. CASE Tcp!ReadEnds(TRUE) \/ Tcp!ReadEnds(FALSE)
  <2>1. /\ reader = "read" /\ reader' \in {"setClosed", "failed"}
        /\ UNCHANGED <<conn, open, up, closed, rechan, dials, closer, sender, inTable>>
    BY <1>2, Zenon DEF Tcp!ReadEnds
  <2>2. WaitState' /\ EndState'
    BY <2>1 DEF TcpState, WaitState, EndState, Closes
  <2> QED
    BY <1>0, <2>1, <2>2, TcpQuiet
<1>3. CASE Tcp!ReadFailed
  <2>1. ~closed /\ reader = "failed"
    BY <1>3 DEF Tcp!ReadFailed, TcpState, EndState
  <2> QED
    BY <1>3, <2>1, TcpGoReconnect DEF Tcp!ReadFailed
<1>4. CASE Tcp!TakeRechan
  <2>1. /\ reader = "wait" /\ rechan # <<>> /\ rechan' = Tail(rechan)
        /\ UNCHANGED <<conn, open, dials, up, closed, closer, sender, inTable>>
        /\ reader' = IF Head(rechan) THEN "up" ELSE "setClosed"
    BY <1>4 DEF Tcp!TakeRechan
  <2>2. dials = {}
    BY <2>1 DEF TcpState, DialState
  <2>3. rechan' = <<>> /\ (reader' = "up" \/ (reader' = "setClosed" /\ conn \notin open))
    <3>1. CASE rechan = <<TRUE>>
      <4>1. Head(rechan) /\ Tail(rechan) = <<>>
        BY <3>1, OneMessage, Zenon
      <4> QED
        BY <2>1, <4>1, Zenon
    <3>2. CASE rechan = <<FALSE>> /\ conn \notin open
      <4>1. ~Head(rechan) /\ Tail(rechan) = <<>>
        BY <3>2, OneMessage, Zenon
      <4> QED
        BY <2>1, <3>2, <4>1, Zenon
    <3> QED
      BY <2>1, <2>2, <3>1, <3>2 DEF TcpState, WaitState
  <2>4. TcpTypeOK' /\ DialState'
    BY <2>1, <2>2 DEF TcpTypeOK, TcpState, DialState
  <2>5. WaitState' /\ EndState'
    BY <2>1, <2>3 DEF TcpState, WaitState, EndState, Closes
  <2> QED
    BY <2>4, <2>5 DEF TcpState
<1>5. CASE Tcp!ConnectedUp
  <2>1. WaitState' /\ EndState'
    BY <1>5 DEF Tcp!ConnectedUp, TcpState, WaitState, EndState, Closes
  <2> QED
    BY <1>0, <1>5, <2>1, TcpQuiet DEF Tcp!ConnectedUp
<1>6. CASE Tcp!RecvSetClosed
  <2>1. WaitState' /\ EndState'
    BY <1>6 DEF Tcp!RecvSetClosed, TcpState, WaitState, EndState, Closes
  <2> QED
    BY <1>0, <1>6, <2>1, TcpQuiet DEF Tcp!RecvSetClosed
<1>7. CASE Tcp!RecvPush
  <2>1. WaitState' /\ EndState'
    BY <1>7 DEF Tcp!RecvPush, TcpState, WaitState, EndState, Closes
  <2>2. TcpTypeOK' /\ DialState'
    BY <1>0, <1>7 DEF Tcp!RecvPush, TcpTypeOK, TcpState, DialState
  <2> QED
    BY <2>1, <2>2 DEF TcpState
<1>8. CASE Tcp!RecvDown
  <2>1. WaitState' /\ EndState'
    BY <1>8 DEF Tcp!RecvDown, TcpState, WaitState, EndState, Closes
  <2> QED
    BY <1>0, <1>8, <2>1, TcpQuiet DEF Tcp!RecvDown
<1>9. CASE Tcp!RecvCloseConn
  <2>1. WaitState' /\ EndState'
    BY <1>9 DEF Tcp!RecvCloseConn, TcpState, WaitState, EndState, Closes
  <2> QED
    BY <1>0, <1>9, <2>1, TcpQuiet DEF Tcp!RecvCloseConn
<1>10. CASE Tcp!RemoveFace
  <2>1. open = {}
    BY <1>0, <1>10 DEF Tcp!RemoveFace, TcpState, DialState, EndState, Closes
  <2>2. WaitState' /\ EndState'
    BY <1>10, <2>1 DEF Tcp!RemoveFace, TcpState, WaitState, EndState, Closes
  <2> QED
    BY <1>0, <1>10, <2>2, TcpQuiet DEF Tcp!RemoveFace
<1> QED
  BY <1>1, <1>2, <1>3, <1>4, <1>5, <1>6, <1>7, <1>8, <1>9, <1>10 DEF Tcp!Receiving

\* The sending goroutine, management and the remote end take no connection
\* from those that have it in their hands.
LEMMA TcpOthers ==
    ASSUME TcpTypeOK, TcpState,
           \/ Tcp!SendFails \/ Tcp!Sending
           \/ \E permanent \in BOOLEAN : Tcp!SetPersistency(permanent)
           \/ \E k \in Socket : Tcp!RemoteCloses(k)
    PROVE  TcpTypeOK' /\ TcpState'
<1>1. /\ UNCHANGED <<conn, dials, reader, rechan, closed, closer, inTable>>
      /\ open' = open \/ open' = open \ {conn}
  BY DEF Tcp!SendFails, Tcp!Sending, Tcp!SendDown, Tcp!SendCloseConn, Tcp!SetPersistency,
         Tcp!RemoteCloses
<1>2. up \/ Closes => up' \/ Closes'
  BY DEF Tcp!SendFails, Tcp!Sending, Tcp!SendDown, Tcp!SendCloseConn, Tcp!SetPersistency,
         Tcp!RemoteCloses, Closes
<1>3. Closes => Closes'
  BY DEF Tcp!SendFails, Tcp!Sending, Tcp!SendDown, Tcp!SendCloseConn, Tcp!SetPersistency,
         Tcp!RemoteCloses, Closes
<1>4. TcpTypeOK' /\ DialState' /\ WaitState'
  BY <1>1 DEF TcpTypeOK, TcpState, DialState, WaitState
<1>5. EndState'
  BY <1>1, <1>2, <1>3 DEF TcpState, EndState
<1> QED
  BY <1>4, <1>5 DEF TcpState

\* The goroutine in reconnect takes a step and goes on.
LEMMA TcpDialGoesOn ==
    ASSUME TcpTypeOK, TcpState, NEW d \in dials, NEW e \in Dial, dials' = (dials \ {d}) \cup {e},
           UNCHANGED <<rechan, reader, up, closed, closer, sender, inTable>>,
           conn' \in Socket \cup {NoConn}, open' \subseteq Socket,
           e.at \in {"begin", "check", "dial"} => e.conn = NoConn,
           e.at \in {"check", "dial", "dialed", "set"} => conn' \notin open',
           e.at = "push" => conn' = e.conn,
           open' \subseteq {conn', e.conn}
    PROVE  TcpTypeOK' /\ TcpState'
<1>1. dials' = {e} /\ reader = "wait" /\ rechan = <<>>
  BY DEF TcpState, DialState
<1>2. TcpTypeOK' /\ DialState'
  BY <1>1 DEF TcpTypeOK, DialState
<1>3. WaitState' /\ EndState'
  BY <1>1 DEF TcpState, WaitState, EndState
<1> QED
  BY <1>2, <1>3 DEF TcpState

\* It ends and leaves its message.
LEMMA TcpDialEnds ==
    ASSUME TcpTypeOK, TcpState, NEW d \in dials, dials' = dials \ {d}, NEW v \in BOOLEAN, Tcp!Push(v),
           UNCHANGED <<reader, conn, open, up, closed, closer, sender, inTable>>,
           open \subseteq {conn}, v = FALSE => conn \notin open
    PROVE  TcpTypeOK' /\ TcpState'
<1>1. dials' = {} /\ reader = "wait" /\ rechan = <<>>
  BY DEF TcpState, DialState
<1>2. rechan' = <<v>>
  BY <1>1 DEF Tcp!Push
<1>3. TcpTypeOK' /\ DialState'
  BY <1>1 DEF TcpTypeOK, DialState
<1>4. WaitState' /\ EndState'
  BY <1>1, <1>2 DEF TcpState, WaitState, EndState
<1> QED
  BY <1>3, <1>4 DEF TcpState

LEMMA TcpDialing ==
    ASSUME TcpTypeOK, TcpState, NEW d \in dials,
           Tcp!Dialing(d) \/ Tcp!DialFails(d) \/ Tcp!DialConnects(d)
    PROVE  TcpTypeOK' /\ (Untouched' => TcpState')
<1>0. /\ d \in Dial /\ dials = {d} /\ open \subseteq {conn, d.conn} /\ open \subseteq Socket
      /\ conn \in Socket \cup {NoConn} /\ NoConn \notin Socket
      /\ d.at \in {"begin", "check", "dial"} => d.conn = NoConn
      /\ d.at \in {"check", "dial", "dialed", "set"} => conn \notin open
      /\ d.at = "push" => conn = d.conn
      /\ ~closed /\ reader = "wait"
  <2>1. dials = {d} /\ reader = "wait"
    BY DEF TcpState, DialState
  <2> QED
    BY <2>1, TcpAssumed DEF TcpTypeOK, TcpState, DialState, EndState, Tcp!TcpFaceAssumption
<1>1. CASE Tcp!Begin(d)
  <2> DEFINE e == [d EXCEPT !.at = "check"]
  <2>1. e \in Dial /\ e.at = "check" /\ e.conn = NoConn
    BY <1>0, <1>1 DEF Dial, Tcp!Begin
  <2>2. /\ dials' = (dials \ {d}) \cup {e} /\ open' = open \ {conn}
        /\ UNCHANGED <<rechan, reader, conn, up, closed, closer, sender, inTable>>
    BY <1>1 DEF Tcp!Begin
  <2>3. open' \subseteq Socket /\ conn' \notin open' /\ open' \subseteq {conn', e.conn}
    BY <1>0, <1>1, <2>1, <2>2 DEF Tcp!Begin
  <2> HIDE DEF e
  <2> QED
    BY <1>0, <2>1, <2>2, <2>3, TcpDialGoesOn
<1>2. CASE Tcp!Check(d)
  <2>1. CASE Tcp!GivesUp(d)
    <3>1. open \subseteq {conn} /\ conn \notin open
      BY <1>0, <1>2 DEF Tcp!Check
    <3> QED
      BY <1>2, <2>1, <3>1, TcpDialEnds DEF Tcp!Check
  <2>2. CASE ~Tcp!GivesUp(d)
    <3> DEFINE e == [d EXCEPT !.at = "dial"]
    <3>1. e \in Dial /\ e.at = "dial" /\ e.conn = NoConn
      BY <1>0, <1>2 DEF Dial, Tcp!Check
    <3>2. /\ dials' = (dials \ {d}) \cup {e} /\ d.at = "check"
          /\ UNCHANGED <<rechan, reader, conn, open, up, closed, closer, sender, inTable>>
      BY <1>2, <2>2 DEF Tcp!Check
    <3> HIDE DEF e
    <3> QED
      BY <1>0, <3>1, <3>2, TcpDialGoesOn
  <2> QED
    BY <2>1, <2>2
<1>3. CASE Tcp!DialFails(d)
  <2> DEFINE e == [d EXCEPT !.at = "check", !.first = FALSE]
  <2>1. e \in Dial /\ e.at = "check" /\ e.conn = NoConn
    BY <1>0, <1>3 DEF Dial, Tcp!DialFails
  <2>2. /\ dials' = (dials \ {d}) \cup {e} /\ d.at = "dial"
        /\ UNCHANGED <<rechan, reader, conn, open, up, closed, closer, sender, inTable>>
    BY <1>3 DEF Tcp!DialFails
  <2> HIDE DEF e
  <2> QED
    BY <1>0, <2>1, <2>2, TcpDialGoesOn
<1>4. CASE Tcp!DialConnects(d)
  <2>1. PICK k \in Socket \ (open \cup {conn}) :
          /\ open' = open \cup {k}
          /\ dials' = (dials \ {d}) \cup {[d EXCEPT !.at = "dialed", !.conn = k]}
    BY <1>4 DEF Tcp!DialConnects
  <2> DEFINE e == [d EXCEPT !.at = "dialed", !.conn = k]
  <2>2. e \in Dial /\ e.at = "dialed" /\ e.conn = k
    BY <1>0, <1>4 DEF Dial, Tcp!DialConnects
  <2>3. UNCHANGED <<rechan, reader, conn, up, closed, closer, sender, inTable>> /\ d.at = "dial"
    BY <1>4 DEF Tcp!DialConnects
  <2>4. dials' = (dials \ {d}) \cup {e}
    BY <2>1
  <2> HIDE DEF e
  <2>5. open' \subseteq {conn', e.conn} /\ open' \subseteq Socket /\ conn' \notin open'
    BY <1>0, <2>1, <2>2, <2>3
  <2> QED
    BY <1>0, <2>2, <2>3, <2>4, <2>5, TcpDialGoesOn
<1>5. CASE Tcp!Dialed(d)
  <2> DEFINE e == [d EXCEPT !.at = "set"]
  <2>1. e \in Dial /\ e.at = "set" /\ e.conn = d.conn
    BY <1>0, <1>5 DEF Dial, Tcp!Dialed
  <2>2. /\ dials' = (dials \ {d}) \cup {e} /\ d.at = "dialed"
        /\ UNCHANGED <<rechan, reader, conn, open, up, closed, closer, sender, inTable>>
    BY <1>0, <1>5 DEF Tcp!Dialed
  <2> HIDE DEF e
  <2> QED
    BY <1>0, <2>1, <2>2, TcpDialGoesOn
<1>6. CASE Tcp!SetConn(d)
  <2> DEFINE e == [d EXCEPT !.at = "push"]
  <2>1. e \in Dial /\ e.at = "push" /\ e.conn = d.conn /\ d.conn \in Socket \cup {NoConn}
    BY <1>0, <1>6 DEF Dial, Tcp!SetConn
  <2>2. /\ dials' = (dials \ {d}) \cup {e} /\ d.at = "set" /\ conn' = d.conn
        /\ UNCHANGED <<rechan, reader, open, up, closed, closer, sender, inTable>>
    BY <1>6 DEF Tcp!SetConn
  <2> HIDE DEF e
  <2>3. open' \subseteq {conn', e.conn}
    BY <1>0, <2>1, <2>2
  <2> QED
    BY <1>0, <2>1, <2>2, <2>3, TcpDialGoesOn
<1>7. CASE Tcp!Continue(d)
  <2>1. open \subseteq {conn}
    BY <1>0, <1>7 DEF Tcp!Continue
  <2> QED
    BY <1>7, <2>1, TcpDialEnds DEF Tcp!Continue
<1>8. CASE Tcp!DialPanics(d)
  <2>1. TcpTypeOK'
    BY <1>8 DEF Tcp!DialPanics, TcpTypeOK
  <2>2. DialState' /\ WaitState' /\ EndState'
    BY <1>8 DEF Tcp!DialPanics, DialState, WaitState, EndState
  <2> QED
    BY <2>1, <2>2 DEF TcpState
<1> QED
  BY <1>1, <1>2, <1>3, <1>4, <1>5, <1>6, <1>7, <1>8 DEF Tcp!Dialing

\* Once touched, always touched; and the types are kept.
LEMMA TcpTouchedKeeps ==
    ASSUME TcpTypeOK, ~Untouched, Tcp!Next
    PROVE  TcpTypeOK' /\ ~Untouched'
<1>1. PICK c \in Closers : closer[c] # "idle"
  BY DEF Untouched
<1>2. CASE \E b \in Closers : Tcp!CloseFace(b) \/ Tcp!Closing(b)
  BY <1>2, TcpTouched
<1>3. CASE Tcp!Receiving \/ Tcp!SendFails \/ Tcp!Sending
           \/ (\E permanent \in BOOLEAN : Tcp!SetPersistency(permanent))
           \/ \E k \in Socket : Tcp!RemoteCloses(k)
  <2>1. UNCHANGED <<conn, closer>> /\ open' \subseteq open
    BY <1>3 DEF Tcp!Receiving, Tcp!Loop, Tcp!GoReconnect, Tcp!ReadEnds, Tcp!ReadFailed, Tcp!TakeRechan,
                Tcp!ConnectedUp, Tcp!RecvSetClosed, Tcp!RecvPush, Tcp!RecvDown, Tcp!RecvCloseConn,
                Tcp!RemoveFace, Tcp!SendFails, Tcp!Sending, Tcp!SendDown, Tcp!SendCloseConn,
                Tcp!SetPersistency, Tcp!RemoteCloses
  <2>2. dials' = dials \/ dials' = dials \cup {[at |-> "begin", conn |-> NoConn, first |-> conn = NoConn]}
    BY <1>3 DEF Tcp!Receiving, Tcp!Loop, Tcp!GoReconnect, Tcp!ReadEnds, Tcp!ReadFailed, Tcp!TakeRechan,
                Tcp!ConnectedUp, Tcp!RecvSetClosed, Tcp!RecvPush, Tcp!RecvDown, Tcp!RecvCloseConn,
                Tcp!RemoveFace, Tcp!SendFails, Tcp!Sending, Tcp!SendDown, Tcp!SendCloseConn,
                Tcp!SetPersistency, Tcp!RemoteCloses
  <2>3. [at |-> "begin", conn |-> NoConn, first |-> conn = NoConn] \in Dial
    BY DEF Dial
  <2> QED
    BY <1>1, <2>1, <2>2, <2>3 DEF TcpTypeOK, Untouched
<1>4. ASSUME NEW d \in dials, Tcp!Dialing(d) \/ Tcp!DialFails(d) \/ Tcp!DialConnects(d)
      PROVE  TcpTypeOK' /\ ~Untouched'
  <2>0. d \in Dial
    BY DEF TcpTypeOK
  <2>1. closer' = closer \/ closer' = [b \in Closers |-> "done"]
    BY <1>4 DEF Tcp!Dialing, Tcp!Begin, Tcp!Check, Tcp!Dialed, Tcp!SetConn, Tcp!Continue,
                Tcp!DialPanics, Tcp!DialFails, Tcp!DialConnects
  <2>2. open' \subseteq Socket /\ conn' \in {conn, d.conn}
    BY <1>4 DEF Tcp!Dialing, Tcp!Begin, Tcp!Check, Tcp!Dialed, Tcp!SetConn, Tcp!Continue,
                Tcp!DialPanics, Tcp!DialFails, Tcp!DialConnects, TcpTypeOK
  <2>3. dials' \subseteq Dial
    <3>1. /\ \A at \in {"begin", "check", "dial", "dialed", "set", "push"} : [d EXCEPT !.at = at] \in Dial
          /\ [d EXCEPT !.at = "check", !.first = FALSE] \in Dial
          /\ \A k \in Socket : [d EXCEPT !.at = "dialed", !.conn = k] \in Dial
      BY <2>0 DEF Dial
    <3>2. dials \subseteq Dial
      BY DEF TcpTypeOK
    <3>3. CASE Tcp!Dialing(d)
      BY <3>1, <3>2, <3>3 DEF Tcp!Dialing, Tcp!Begin, Tcp!Check, Tcp!Dialed, Tcp!SetConn, Tcp!Continue,
                              Tcp!DialPanics
    <3>4. CASE Tcp!DialFails(d)
      BY <3>1, <3>2, <3>4 DEF Tcp!DialFails
    <3>5. CASE Tcp!DialConnects(d)
      BY <3>1, <3>2, <3>5 DEF Tcp!DialConnects
    <3> QED
      BY <1>4, <3>3, <3>4, <3>5
  <2>4. d.conn \in Socket \cup {NoConn}
    BY <2>0 DEF Dial
  <2> QED
    BY <1>1, <2>1, <2>2, <2>3, <2>4 DEF TcpTypeOK, Untouched
<1> QED
  BY <1>2, <1>3, <1>4 DEF Tcp!Next

LEMMA TcpStep == TcpInv /\ [FacesNext]_<<view, vars, tcpVars, petVars>> => TcpInv'
<1>1. ASSUME TcpTypeOK, Untouched, TcpState, Tcp!Next PROVE TcpTypeOK' /\ (Untouched' => TcpState')
  <2>1. CASE \E c \in Closers : Tcp!CloseFace(c) \/ Tcp!Closing(c)
    BY <1>1, <2>1, TcpTouched
  <2> QED
    BY <1>1, <2>1, TcpReceiving, TcpOthers, TcpDialing DEF Tcp!Next
<1>2. ASSUME TcpInv, UNCHANGED <<view, tcpVars>> PROVE TcpInv'
  <2>1. /\ TcpTypeOK' <=> TcpTypeOK
        /\ Untouched' <=> Untouched
        /\ DialState' <=> DialState
        /\ WaitState' <=> WaitState
        /\ EndState' <=> EndState
    BY <1>2 DEF tcpVars, TcpTypeOK, Untouched, DialState, WaitState, EndState, Closes
  <2> QED
    BY <1>2, <2>1 DEF TcpInv, TcpState
<1>3. ASSUME TcpInv, view = "tcp", Tcp!Next, UNCHANGED view PROVE TcpInv'
  BY <1>1, <1>3, TcpTouchedKeeps DEF TcpInv
<1> QED
  BY <1>2, <1>3 DEF FacesNext

\* For any number of connections and attempts a TCP face that is not closed from
\* outside leaves no socket open, however writes fail and its persistency changes
\* while it reconnects or ends.
THEOREM TcpEndsClosed == FacesSpec => []EndsClosed
<1>1. FacesInit => TcpInv
  <2> SUFFICES ASSUME FacesInit, view = "tcp" PROVE TcpTypeOK /\ TcpState
    BY DEF TcpInv
  <2>1. /\ conn \in Socket \cup {NoConn} /\ open \subseteq {conn} /\ open \subseteq Socket
        /\ dials = {} /\ rechan = <<>> /\ reader = "loop" /\ ~closed /\ inTable
        /\ closer = [c \in Closers |-> "idle"] /\ (up \/ conn \notin open)
    BY DEF FacesInit, Tcp!Init
  <2>2. TcpTypeOK
    BY <2>1 DEF TcpTypeOK
  <2>3. DialState /\ WaitState
    BY <2>1 DEF DialState, WaitState
  <2>4. EndState
    <3>1. up \/ Closes
      BY <2>1 DEF Closes
    <3> QED
      BY <2>1, <3>1 DEF EndState
  <2> QED
    BY <2>2, <2>3, <2>4 DEF TcpState
<1>2. TcpInv /\ (view # "tcp" => open = {}) => EndsClosed
  BY DEF TcpInv, TcpState, EndState, EndsClosed, Tcp!EndsClosed, Tcp!Ended, Untouched
<1>3. FacesInit => (view # "tcp" => open = {})
  BY DEF FacesInit, TcpEnded
<1>4. (view # "tcp" => open = {}) /\ [FacesNext]_<<view, vars, tcpVars, petVars>>
        => (view # "tcp" => open = {})'
  BY DEF FacesNext, tcpVars
<1> QED
  BY <1>1, <1>2, <1>3, <1>4, TcpStep, PTL DEF FacesSpec

-----------------------------------------------------------------------------
(***************************************************************************)
(* The PET.  A command for a part of the PET (an egress router or a next   *)
(* hop of a prefix) is on its way in the hands of a goroutine, then in the *)
(* channel, then at the nfdc thread.  The last one on the way decides, and *)
(* it is the one that the state of the router calls for: a goroutine that  *)
(* adds a command behind others finds none for the same part in another    *)
(* goroutine's hands, or overlap says so.                                  *)
(***************************************************************************)
EgressVerbs == {"add-egress", "remove-egress"}
HopVerbs == {"add-nexthop", "remove-nexthop"}

\* The commands for one part of the PET.
Cmds(verbs, p, x) == [verb : verbs, name : {p}, arg : {x}]

\* No command of K is in s; the last command of K in s is one of G.
Free(s, K) == \A i \in DOMAIN s : s[i] \notin K

Ends(s, K, G) == \E i \in DOMAIN s : s[i] \in G /\ \A j \in DOMAIN s : j > i => s[j] \notin K

\* The last command of K on the way, if there is one, is one of G.
Coming(K, G) ==
    /\ \A t \in Pet!Thread : Free(pend[t], K) \/ Ends(pend[t], K, G)
    /\ (\A t \in Pet!Thread : Free(pend[t], K)) => Free(channel, K) \/ Ends(channel, K, G)
    /\ (\A t \in Pet!Thread : Free(pend[t], K)) /\ Free(channel, K) => cur \notin K \ G

\* None is on the way.
Arrived(K) ==
    /\ \A t \in Pet!Thread : Free(pend[t], K)
    /\ Free(channel, K)
    /\ cur \notin K

\* The first command of a sequence is taken.
LEMMA TailEnds ==
    ASSUME NEW C, NEW s \in Seq(C), s # <<>>, NEW K, NEW G \in SUBSET K
    PROVE  /\ Tail(s) \in Seq(C) /\ Head(s) \in C
           /\ Free(s, K) => Free(Tail(s), K) /\ Head(s) \notin K
           /\ Free(Tail(s), K) /\ Head(s) \notin K => Free(s, K)
           /\ Ends(s, K, G) => \/ Ends(Tail(s), K, G)
                               \/ Free(Tail(s), K) /\ Head(s) \in G
<1>1. /\ Tail(s) \in Seq(C) /\ Head(s) \in C /\ Head(s) = s[1]
      /\ Len(s) \in Nat \ {0} /\ DOMAIN s = 1..Len(s) /\ DOMAIN Tail(s) = 1..(Len(s) - 1)
      /\ \A i \in 1..(Len(s) - 1) : Tail(s)[i] = s[i + 1]
  OBVIOUS
<1>2. Free(s, K) => Free(Tail(s), K) /\ Head(s) \notin K
  BY <1>1 DEF Free
<1>3. Free(Tail(s), K) /\ Head(s) \notin K => Free(s, K)
  <2> SUFFICES ASSUME Free(Tail(s), K), Head(s) \notin K, NEW i \in 1..Len(s) PROVE s[i] \notin K
    BY <1>1 DEF Free
  <2>1. CASE i = 1
    BY <1>1, <2>1
  <2>2. CASE i > 1
    <3>1. i - 1 \in 1..(Len(s) - 1) /\ Tail(s)[i - 1] = s[i]
      BY <1>1, <2>2
    <3> QED
      BY <1>1, <3>1 DEF Free
  <2> QED
    BY <2>1, <2>2
<1>4. ASSUME Ends(s, K, G) PROVE Ends(Tail(s), K, G) \/ (Free(Tail(s), K) /\ Head(s) \in G)
  <2> PICK i \in 1..Len(s) : s[i] \in G /\ \A j \in 1..Len(s) : j > i => s[j] \notin K
    BY <1>1, <1>4 DEF Ends
  <2>1. CASE i = 1
    BY <1>1, <2>1 DEF Free
  <2>2. CASE i > 1
    <3>1. i - 1 \in 1..(Len(s) - 1) /\ Tail(s)[i - 1] = s[i]
      BY <1>1, <2>2
    <3>2. \A j \in 1..(Len(s) - 1) : j > i - 1 => Tail(s)[j] \notin K
      BY <1>1
    <3> QED
      BY <1>1, <3>1, <3>2 DEF Ends
  <2> QED
    BY <2>1, <2>2
<1> QED
  BY <1>1, <1>2, <1>3, <1>4

\* A command is put behind a sequence.
LEMMA AppendEnds ==
    ASSUME NEW C, NEW s \in Seq(C), NEW c \in C, NEW K, NEW G \in SUBSET K
    PROVE  /\ Append(s, c) \in Seq(C)
           /\ c \in G => Ends(Append(s, c), K, G)
           /\ c \notin K /\ Free(s, K) => Free(Append(s, c), K)
           /\ c \notin K /\ Ends(s, K, G) => Ends(Append(s, c), K, G)
           /\ Free(Append(s, c), K) => Free(s, K) /\ c \notin K
<1>1. /\ Append(s, c) \in Seq(C) /\ Len(s) \in Nat
      /\ DOMAIN s = 1..Len(s) /\ DOMAIN Append(s, c) = 1..(Len(s) + 1)
      /\ \A i \in 1..Len(s) : Append(s, c)[i] = s[i]
      /\ Append(s, c)[Len(s) + 1] = c
  OBVIOUS
<1>2. c \in G => Ends(Append(s, c), K, G)
  BY <1>1 DEF Ends
<1>3. /\ c \notin K /\ Free(s, K) => Free(Append(s, c), K)
      /\ Free(Append(s, c), K) => Free(s, K) /\ c \notin K
  BY <1>1 DEF Free
<1>4. ASSUME c \notin K, Ends(s, K, G) PROVE Ends(Append(s, c), K, G)
  <2> PICK i \in 1..Len(s) : s[i] \in G /\ \A j \in 1..Len(s) : j > i => s[j] \notin K
    BY <1>1, <1>4 DEF Ends
  <2>1. \A j \in 1..(Len(s) + 1) : j > i => Append(s, c)[j] \notin K
    BY <1>1, <1>4
  <2> QED
    BY <1>1, <2>1 DEF Ends
<1> QED
  BY <1>1, <1>2, <1>3, <1>4

\* Two sequences, one behind the other.
LEMMA ConcatEnds ==
    ASSUME NEW C, NEW s \in Seq(C), NEW u \in Seq(C), NEW K, NEW G \in SUBSET K
    PROVE  /\ s \o u \in Seq(C)
           /\ Ends(u, K, G) => Ends(s \o u, K, G)
           /\ Free(u, K) /\ Ends(s, K, G) => Ends(s \o u, K, G)
           /\ Free(u, K) /\ Free(s, K) => Free(s \o u, K)
<1>1. /\ s \o u \in Seq(C) /\ Len(s) \in Nat /\ Len(u) \in Nat
      /\ DOMAIN s = 1..Len(s) /\ DOMAIN u = 1..Len(u) /\ DOMAIN (s \o u) = 1..(Len(s) + Len(u))
      /\ \A i \in 1..Len(s) : (s \o u)[i] = s[i]
      /\ \A i \in 1..(Len(s) + Len(u)) : i > Len(s) => (s \o u)[i] = u[i - Len(s)]
  OBVIOUS
<1>2. ASSUME Ends(u, K, G) PROVE Ends(s \o u, K, G)
  <2> PICK i \in 1..Len(u) : u[i] \in G /\ \A j \in 1..Len(u) : j > i => u[j] \notin K
    BY <1>1, <1>2 DEF Ends
  <2>1. i + Len(s) \in 1..(Len(s) + Len(u)) /\ (s \o u)[i + Len(s)] = u[i]
    BY <1>1
  <2>2. ASSUME NEW j \in 1..(Len(s) + Len(u)), j > i + Len(s) PROVE (s \o u)[j] \notin K
    <3>1. j - Len(s) \in 1..Len(u) /\ j - Len(s) > i /\ (s \o u)[j] = u[j - Len(s)]
      BY <1>1, <2>2
    <3> QED
      BY <3>1
  <2> QED
    BY <1>1, <2>1, <2>2 DEF Ends
<1>3. ASSUME Free(u, K), NEW j \in 1..(Len(s) + Len(u)), j > Len(s) PROVE (s \o u)[j] \notin K
  <2>1. j - Len(s) \in 1..Len(u) /\ (s \o u)[j] = u[j - Len(s)]
    BY <1>1, <1>3
  <2> QED
    BY <1>1, <1>3, <2>1 DEF Free
<1>4. ASSUME Free(u, K), Ends(s, K, G) PROVE Ends(s \o u, K, G)
  <2> PICK i \in 1..Len(s) : s[i] \in G /\ \A j \in 1..Len(s) : j > i => s[j] \notin K
    BY <1>1, <1>4 DEF Ends
  <2>1. i \in 1..(Len(s) + Len(u)) /\ (s \o u)[i] \in G
    BY <1>1
  <2>2. \A j \in 1..(Len(s) + Len(u)) : j > i => (s \o u)[j] \notin K
    BY <1>1, <1>3, <1>4
  <2> QED
    BY <1>1, <2>1, <2>2 DEF Ends
<1>5. ASSUME Free(u, K), Free(s, K) PROVE Free(s \o u, K)
  BY <1>1, <1>3, <1>5 DEF Free
<1> QED
  BY <1>1, <1>2, <1>4, <1>5

\* PetSync's own copies of what FiniteSets defines.
LEMMA PetFinite ==
    ASSUME NEW S
    PROVE  Pet!Cardinality(S) = Cardinality(S) /\ Pet!IsFiniteSet(S) = IsFiniteSet(S)
BY DEF Pet!Cardinality, Cardinality, Pet!IsFiniteSet, IsFiniteSet

\* SetToSeq lists a finite set, every element once.
LEMMA SetToSeqLists ==
    ASSUME NEW S, IsFiniteSet(S)
    PROVE  LET s == Pet!SetToSeq(S)
           IN  /\ s \in Seq(S)
               /\ \A e \in S : \E i \in DOMAIN s : s[i] = e
               /\ \A i, j \in DOMAIN s : s[i] = s[j] => i = j
<1> DEFINE n == Cardinality(S)
           s == Pet!SetToSeq(S)
<1>1. n \in Nat /\ ExistsBijection(1..n, S)
  BY FS_CardinalityType
<1>2. PICK f \in Bijection(1..n, S) : TRUE
  BY <1>1 DEF ExistsBijection
<1>3. f \in [1..n -> S] /\ Pet!IsInjective(f)
  BY <1>2 DEF Bijection, Injection, IsInjective, Pet!IsInjective
<1>4. s = CHOOSE g \in [1..n -> S] : Pet!IsInjective(g)
  BY PetFinite DEF Pet!SetToSeq
<1>5. s \in [1..n -> S] /\ Pet!IsInjective(s)
  BY <1>3, <1>4
<1> HIDE DEF s
<1>6. s \in Injection(1..n, S)
  BY <1>5 DEF Injection, IsInjective, Pet!IsInjective
<1>7. IsFiniteSet(1..n) /\ Cardinality(1..n) = n
  BY <1>1, FS_Interval
<1>8. s \in Surjection(1..n, S)
  BY <1>6, <1>7, FS_Injection
<1> QED
  BY <1>1, <1>5, <1>8 DEF Surjection, Pet!IsInjective, s

\* EgressCmds: one command for each of the prefixes, and none for next hops.
LEMMA EgressCmdsOf ==
    ASSUME NEW verb \in EgressVerbs, NEW r \in Pet!Router, NEW S \in SUBSET Prefix
    PROVE  LET s == Pet!EgressCmds(verb, r, S)
           IN  /\ s \in Seq(Pet!Command)
               /\ \A p, x : p \in S /\ x = r => Ends(s, Cmds(EgressVerbs, p, x), Cmds({verb}, p, x))
               /\ \A p, x : p \notin S \/ x # r => Free(s, Cmds(EgressVerbs, p, x))
               /\ \A p, x : Free(s, Cmds(HopVerbs, p, x))
<1> DEFINE T == {[verb |-> verb, name |-> p, arg |-> r] : p \in S}
           s == Pet!EgressCmds(verb, r, S)
<1>1. IsFiniteSet(S)
  BY PetAssumed, PetFinite, FS_Subset DEF Pet!PetSyncAssumption
<1>2. IsFiniteSet(T)
  <2> DEFINE f == [p \in S |-> [verb |-> verb, name |-> p, arg |-> r]]
  <2>1. f \in Surjection(S, T)
    BY DEF Surjection
  <2> QED
    BY <1>1, <2>1, FS_Surjection
<1>3. s = Pet!SetToSeq(T)
  BY DEF Pet!EgressCmds
<1>4. /\ s \in Seq(T)
      /\ \A e \in T : \E i \in DOMAIN s : s[i] = e
      /\ \A i, j \in DOMAIN s : s[i] = s[j] => i = j
  BY <1>2, <1>3, SetToSeqLists
<1>5. T \subseteq Pet!Command
  BY DEF Pet!Command, Pet!Router, EgressVerbs
<1> HIDE DEF s
<1>6. s \in Seq(Pet!Command) /\ \A i \in DOMAIN s : s[i] \in T
  BY <1>4, <1>5
<1>7. \A c \in T : c.verb = verb /\ c.arg = r /\ c.name \in S
  OBVIOUS
<1>8. ASSUME NEW p \in S PROVE Ends(s, Cmds(EgressVerbs, p, r), Cmds({verb}, p, r))
  <2> DEFINE c == [verb |-> verb, name |-> p, arg |-> r]
  <2>1. c \in T /\ c \in Cmds({verb}, p, r)
    BY DEF Cmds
  <2>2. T \cap Cmds(EgressVerbs, p, r) \subseteq {c}
    BY DEF Cmds
  <2> HIDE DEF c, T
  <2>3. PICK i \in DOMAIN s : s[i] = c
    BY <1>4, <2>1
  <2>4. \A j \in DOMAIN s : j > i => s[j] \notin Cmds(EgressVerbs, p, r)
    <3> SUFFICES ASSUME NEW j \in DOMAIN s, j > i, s[j] \in Cmds(EgressVerbs, p, r) PROVE FALSE
      OBVIOUS
    <3>1. s[j] = s[i]
      BY <1>6, <2>2, <2>3
    <3>2. i = j /\ i \in Nat
      BY <1>4, <3>1
    <3> QED
      BY <3>2
  <2> QED
    BY <2>1, <2>3, <2>4 DEF Ends
<1>9. ASSUME NEW p, NEW x, p \notin S \/ x # r PROVE Free(s, Cmds(EgressVerbs, p, x))
  BY <1>6, <1>7, <1>9 DEF Free, Cmds
<1>10. ASSUME NEW p, NEW x PROVE Free(s, Cmds(HopVerbs, p, x))
  BY <1>6, <1>7 DEF Free, Cmds, HopVerbs, EgressVerbs
<1> QED
  BY <1>6, <1>8, <1>9, <1>10 DEF s

\* What a change leaves to be done for the part <<p, x>> of the PET: a command
\* that makes it what petPrefixes has after it, or nothing.
Called(s, p, x, before, after) ==
    \/ after /\ Ends(s, Cmds(EgressVerbs, p, x), Cmds({"add-egress"}, p, x))
    \/ ~after /\ Ends(s, Cmds(EgressVerbs, p, x), Cmds({"remove-egress"}, p, x))
    \/ (after <=> before) /\ Free(s, Cmds(EgressVerbs, p, x))

\* One verb of a part among several.
LEMMA CmdsOfVerb == ASSUME NEW p, NEW x
                    PROVE  /\ Cmds({"add-egress"}, p, x) \subseteq Cmds(EgressVerbs, p, x)
                           /\ Cmds({"remove-egress"}, p, x) \subseteq Cmds(EgressVerbs, p, x)
                           /\ Cmds({"add-nexthop"}, p, x) \subseteq Cmds(HopVerbs, p, x)
BY DEF Cmds, EgressVerbs, HopVerbs

\* PetCmds is what takes the PET from petPrefixes to PetAfter.
LEMMA PetCmdsOf ==
    ASSUME NEW r \in Pet!Router, NEW reset \in BOOLEAN,
           NEW adds \in SUBSET Prefix, NEW removes \in SUBSET Prefix
    PROVE  LET s == Pet!PetCmds(r, reset, adds, removes)
           IN  /\ s \in Seq(Pet!Command)
               /\ \A p, x : Free(s, Cmds(HopVerbs, p, x))
               /\ \A p \in Prefix, x \in Pet!Router :
                     /\ Called(s, p, x, <<x, p>> \in petPrefixes,
                               <<x, p>> \in Pet!PetAfter(r, reset, adds, removes))
                     /\ x # r => Free(s, Cmds(EgressVerbs, p, x))
<1> DEFINE old == Pet!PrefixesOf(r)
           kept == IF reset THEN {} ELSE old
           s1 == Pet!EgressCmds("remove-egress", r, old \ kept)
           s2 == Pet!EgressCmds("add-egress", r, adds \ kept)
           s3 == Pet!EgressCmds("remove-egress", r, removes \cap (kept \cup adds))
           s == Pet!PetCmds(r, reset, adds, removes)
<1>1. old \in SUBSET Prefix /\ kept \in SUBSET old
  BY DEF Pet!PrefixesOf
<1>2. s = s1 \o s2 \o s3
  BY DEF Pet!PetCmds
<1>3. ASSUME NEW verb \in EgressVerbs, NEW S \in SUBSET Prefix, NEW u, u = Pet!EgressCmds(verb, r, S)
      PROVE  /\ u \in Seq(Pet!Command)
             /\ \A p, x : p \in S /\ x = r => Ends(u, Cmds(EgressVerbs, p, x), Cmds({verb}, p, x))
             /\ \A p, x : p \notin S \/ x # r => Free(u, Cmds(EgressVerbs, p, x))
             /\ \A p, x : Free(u, Cmds(HopVerbs, p, x))
  BY <1>3, EgressCmdsOf
<1>4. "remove-egress" \in EgressVerbs /\ "add-egress" \in EgressVerbs
  BY DEF EgressVerbs
<1>5. /\ s1 \in Seq(Pet!Command) /\ s2 \in Seq(Pet!Command) /\ s3 \in Seq(Pet!Command)
      /\ s1 \o s2 \in Seq(Pet!Command) /\ s \in Seq(Pet!Command)
  <2>1. s1 \in Seq(Pet!Command) /\ s2 \in Seq(Pet!Command) /\ s3 \in Seq(Pet!Command)
    BY <1>1, <1>3, <1>4
  <2> HIDE DEF s1, s2, s3
  <2> QED
    BY <1>2, <2>1
<1>6. ASSUME NEW K, NEW G \in SUBSET K
      PROVE  /\ Ends(s3, K, G) => Ends(s, K, G)
             /\ Free(s3, K) /\ Ends(s2, K, G) => Ends(s, K, G)
             /\ Free(s3, K) /\ Free(s2, K) /\ Ends(s1, K, G) => Ends(s, K, G)
             /\ Free(s3, K) /\ Free(s2, K) /\ Free(s1, K) => Free(s, K)
  <2> HIDE DEF s1, s2, s3, s
  <2>1. /\ Ends(s2, K, G) => Ends(s1 \o s2, K, G)
        /\ Free(s2, K) /\ Ends(s1, K, G) => Ends(s1 \o s2, K, G)
        /\ Free(s2, K) /\ Free(s1, K) => Free(s1 \o s2, K)
    BY <1>5, ConcatEnds
  <2>2. /\ Ends(s3, K, G) => Ends(s, K, G)
        /\ Free(s3, K) /\ Ends(s1 \o s2, K, G) => Ends(s, K, G)
        /\ Free(s3, K) /\ Free(s1 \o s2, K) => Free(s, K)
    BY <1>2, <1>5, ConcatEnds
  <2> QED
    BY <2>1, <2>2
<1>7. ASSUME NEW p, NEW x PROVE Free(s, Cmds(HopVerbs, p, x))
  <2>1. Free(s1, Cmds(HopVerbs, p, x)) /\ Free(s2, Cmds(HopVerbs, p, x)) /\ Free(s3, Cmds(HopVerbs, p, x))
    BY <1>1, <1>3, <1>4
  <2> HIDE DEF s1, s2, s3, s
  <2> QED
    BY <1>6, <2>1
<1>8. ASSUME NEW p \in Prefix, NEW x \in Pet!Router
      PROVE  /\ Called(s, p, x, <<x, p>> \in petPrefixes,
                       <<x, p>> \in Pet!PetAfter(r, reset, adds, removes))
             /\ x # r => Free(s, Cmds(EgressVerbs, p, x))
  <2> DEFINE K == Cmds(EgressVerbs, p, x)
             AddK == Cmds({"add-egress"}, p, x)
             RemoveK == Cmds({"remove-egress"}, p, x)
             after == <<x, p>> \in Pet!PetAfter(r, reset, adds, removes)
             before == <<x, p>> \in petPrefixes
  <2>0. AddK \subseteq K /\ RemoveK \subseteq K
    BY CmdsOfVerb
  <2>1. /\ x = r /\ p \in old \ kept => Ends(s1, K, RemoveK)
        /\ x # r \/ p \notin old \ kept => Free(s1, K)
        /\ x = r /\ p \in adds \ kept => Ends(s2, K, AddK)
        /\ x # r \/ p \notin adds \ kept => Free(s2, K)
        /\ x = r /\ p \in removes \cap (kept \cup adds) => Ends(s3, K, RemoveK)
        /\ x # r \/ p \notin removes \cap (kept \cup adds) => Free(s3, K)
    BY <1>1, <1>3, <1>4
  <2>2. /\ x # r => (after <=> before)
        /\ x = r => (after <=> (p \in kept \/ p \in adds) /\ p \notin removes)
        /\ x = r => (before <=> p \in old)
    <3>1. x = r => (before <=> p \in old)
      BY DEF Pet!PrefixesOf
    <3>2. CASE reset
      BY <3>1, <3>2 DEF Pet!PetAfter
    <3>3. CASE ~reset
      BY <3>1, <3>3 DEF Pet!PetAfter
    <3> QED
      BY <3>1, <3>2, <3>3
  <2> HIDE DEF s1, s2, s3, s, K, AddK, RemoveK, after, before, kept, old
  <2>3. CASE x # r
    BY <1>6, <2>0, <2>1, <2>2, <2>3 DEF Called, K, AddK, RemoveK, after, before
  <2>4. CASE x = r /\ p \in removes \cap (kept \cup adds)
    BY <1>6, <2>0, <2>1, <2>2, <2>4 DEF Called, K, AddK, RemoveK, after, before
  <2>5. CASE x = r /\ p \notin removes \cap (kept \cup adds) /\ p \in adds \ kept
    BY <1>6, <2>0, <2>1, <2>2, <2>5 DEF Called, K, AddK, RemoveK, after, before
  <2>6. CASE x = r /\ p \notin removes \cap (kept \cup adds) /\ p \notin adds \ kept
    <3>1. CASE p \in old \ kept
      BY <1>6, <2>0, <2>1, <2>2, <2>6, <3>1 DEF Called, K, AddK, RemoveK, after, before
    <3>2. CASE p \notin old \ kept
      BY <1>1, <1>6, <2>0, <2>1, <2>2, <2>6, <3>2 DEF Called, K, AddK, RemoveK, after, before
    <3> QED
      BY <3>1, <3>2
  <2> QED
    BY <2>3, <2>4, <2>5, <2>6 DEF K, after, before
<1> QED
  BY <1>5, <1>7, <1>8

PetTyped ==
    /\ pend \in [Pet!Thread -> Seq(Pet!Command)]
    /\ channel \in Seq(Pet!Command)
    /\ cur \in Pet!Command \cup {None}
    /\ egress \subseteq (Prefix \cup {Group}) \X Pet!Router
    /\ petPrefixes \subseteq Pet!Router \X Prefix
    /\ DOMAIN pes = Pet!Router /\ \A r \in Pet!Router : DOMAIN pes[r] \subseteq Prefix
    /\ present \subseteq LocalFace
    /\ inserting \in [Inserter -> Pet!Insertion \cup {None}]

\* A goroutine that is about to change the PES has put all of its commands into
\* the channel.
HandsEmpty ==
    /\ \A t \in Inserter : inserting[t] # None => pend[t] = <<>>
    /\ main \in {"new", "starting", "started"} => pend["main"] = <<>>

\* petPrefixes names the prefixes of the PES, the router's own once it has reset
\* its state.
PrefixesFollow ==
    /\ \A p \in Prefix : <<Other, p>> \in petPrefixes <=> p \in DOMAIN pes[Other]
    /\ main \notin {"new", "starting", "started"} =>
           \A p \in Prefix : <<Me, p>> \in petPrefixes <=> p \in DOMAIN pes[Me]

EgressComes ==
    ~overlap =>
        \A p \in Prefix, r \in Pet!Router :
            IF <<r, p>> \in petPrefixes
            THEN /\ Coming(Cmds(EgressVerbs, p, r), Cmds({"add-egress"}, p, r))
                 /\ Arrived(Cmds(EgressVerbs, p, r)) => <<p, r>> \in egress
            ELSE /\ Coming(Cmds(EgressVerbs, p, r), Cmds({"remove-egress"}, p, r))
                 /\ Arrived(Cmds(EgressVerbs, p, r)) => <<p, r>> \notin egress

\* The next hops that the PES calls for, over faces that are there.
HopsWanted ==
    {pf \in Prefix \X present : pf[1] \in DOMAIN pes[Me] /\ pf[2] \in pes[Me][pf[1]].hops}

HopsCome ==
    ~overlap =>
        \A p, f : <<p, f>> \in HopsWanted =>
            /\ Coming(Cmds(HopVerbs, p, f), Cmds({"add-nexthop"}, p, f))
            /\ Arrived(Cmds(HopVerbs, p, f)) => <<p, f>> \in hops

PetInv == PetTyped /\ HandsEmpty /\ PrefixesFollow /\ EgressComes /\ HopsCome

\* A command that is put behind what is on the way, and none that is: what is
\* coming is still coming.
LEMMA CommitComing ==
    ASSUME PetTyped, NEW t \in Pet!Thread, NEW s \in Seq(Pet!Command), pend[t] = <<>>,
           Pet!Commit(t, s), UNCHANGED <<channel, cur>>, NEW K, NEW G \in SUBSET K
    PROVE  /\ pend' \in [Pet!Thread -> Seq(Pet!Command)]
           /\ Free(s, K) /\ Coming(K, G) => Coming(K, G)'
           /\ Free(s, K) /\ Arrived(K)' => Arrived(K)
           /\ /\ Ends(s, K, G) /\ ~overlap'
              /\ \A c, d \in K : c.name = d.name /\ c.arg = d.arg
              => Coming(K, G)' /\ ~Arrived(K)'
<1>1. /\ pend' \in [Pet!Thread -> Seq(Pet!Command)]
      /\ pend'[t] = s /\ \A u \in Pet!Thread \ {t} : pend'[u] = pend[u]
  BY DEF Pet!Commit, PetTyped
<1>2. Free(pend[t], K)
  BY DEF Free
<1>3. ASSUME Free(s, K), Coming(K, G) PROVE Coming(K, G)'
  BY <1>1, <1>2, <1>3 DEF Coming
<1>4. ASSUME Free(s, K), Arrived(K)' PROVE Arrived(K)
  BY <1>1, <1>2, <1>4 DEF Arrived
<1>5. ASSUME Ends(s, K, G), ~overlap', \A c, d \in K : c.name = d.name /\ c.arg = d.arg
      PROVE  Coming(K, G)' /\ ~Arrived(K)'
  <2>1. PICK i \in DOMAIN s : s[i] \in K
    BY <1>5 DEF Ends
  <2>2. ASSUME NEW u \in Pet!Thread \ {t} PROVE Free(pend[u], K)
    <3> SUFFICES ASSUME NEW j \in DOMAIN pend[u], pend[u][j] \in K PROVE FALSE
      BY DEF Free
    <3>1. s[i] \in Pet!Range(s) /\ pend[u][j] \in Pet!Range(pend[u])
      BY DEF Pet!Range
    <3>2. <<s[i].name, s[i].arg>> = <<pend[u][j].name, pend[u][j].arg>>
      BY <1>5, <2>1
    <3> QED
      BY <1>5, <3>1, <3>2 DEF Pet!Commit
  <2>3. ~Free(s, K)
    BY <2>1 DEF Free
  <2> QED
    BY <1>1, <1>5, <2>2, <2>3 DEF Coming, Arrived
<1> QED
  BY <1>1, <1>3, <1>4, <1>5

LEMMA OnePart == ASSUME NEW verbs, NEW p, NEW x
                 PROVE  \A c, d \in Cmds(verbs, p, x) : c.name = d.name /\ c.arg = d.arg
BY DEF Cmds

\* A change that calls for the right egress commands.
LEMMA EgressCommit ==
    ASSUME PetInv, NEW t \in Pet!Thread, NEW s \in Seq(Pet!Command), pend[t] = <<>>,
           Pet!Commit(t, s), UNCHANGED <<channel, cur, egress>>,
           \A p \in Prefix, x \in Pet!Router :
               Called(s, p, x, <<x, p>> \in petPrefixes, <<x, p>> \in petPrefixes')
    PROVE  EgressComes'
<1> SUFFICES ASSUME ~overlap', NEW p \in Prefix, NEW r \in Pet!Router
             PROVE  IF <<r, p>> \in petPrefixes'
                    THEN /\ Coming(Cmds(EgressVerbs, p, r), Cmds({"add-egress"}, p, r))'
                         /\ Arrived(Cmds(EgressVerbs, p, r))' => <<p, r>> \in egress
                    ELSE /\ Coming(Cmds(EgressVerbs, p, r), Cmds({"remove-egress"}, p, r))'
                         /\ Arrived(Cmds(EgressVerbs, p, r))' => <<p, r>> \notin egress
  BY DEF EgressComes
<1> DEFINE K == Cmds(EgressVerbs, p, r)
           AddK == Cmds({"add-egress"}, p, r)
           RemoveK == Cmds({"remove-egress"}, p, r)
<1>1. AddK \subseteq K /\ RemoveK \subseteq K /\ \A c, d \in K : c.name = d.name /\ c.arg = d.arg
  BY CmdsOfVerb, OnePart
<1>2. ~overlap
  BY DEF Pet!Commit
<1>3. IF <<r, p>> \in petPrefixes THEN Coming(K, AddK) /\ (Arrived(K) => <<p, r>> \in egress)
                                  ELSE Coming(K, RemoveK) /\ (Arrived(K) => <<p, r>> \notin egress)
  BY <1>2 DEF PetInv, EgressComes
<1>4. \/ <<r, p>> \in petPrefixes' /\ Ends(s, K, AddK)
      \/ <<r, p>> \notin petPrefixes' /\ Ends(s, K, RemoveK)
      \/ (<<r, p>> \in petPrefixes' <=> <<r, p>> \in petPrefixes) /\ Free(s, K)
  BY DEF Called
<1> HIDE DEF K, AddK, RemoveK
<1>5. /\ Free(s, K) /\ Coming(K, AddK) => Coming(K, AddK)'
      /\ Free(s, K) /\ Coming(K, RemoveK) => Coming(K, RemoveK)'
      /\ Free(s, K) /\ Arrived(K)' => Arrived(K)
      /\ Ends(s, K, AddK) => Coming(K, AddK)' /\ ~Arrived(K)'
      /\ Ends(s, K, RemoveK) => Coming(K, RemoveK)' /\ ~Arrived(K)'
  BY <1>1, CommitComing DEF PetInv
<1> QED
  BY <1>3, <1>4, <1>5 DEF K, AddK, RemoveK

\* A change that calls for the next hops that are new.
LEMMA HopCommit ==
    ASSUME PetInv, NEW t \in Pet!Thread, NEW s \in Seq(Pet!Command), pend[t] = <<>>,
           Pet!Commit(t, s), UNCHANGED <<channel, cur, hops>>,
           \A p, f : <<p, f>> \in HopsWanted' =>
               \/ Ends(s, Cmds(HopVerbs, p, f), Cmds({"add-nexthop"}, p, f))
               \/ <<p, f>> \in HopsWanted /\ Free(s, Cmds(HopVerbs, p, f))
    PROVE  HopsCome'
<1> SUFFICES ASSUME ~overlap', NEW p, NEW f, <<p, f>> \in HopsWanted'
             PROVE  /\ Coming(Cmds(HopVerbs, p, f), Cmds({"add-nexthop"}, p, f))'
                    /\ Arrived(Cmds(HopVerbs, p, f))' => <<p, f>> \in hops
  BY DEF HopsCome
<1> DEFINE K == Cmds(HopVerbs, p, f)
           AddK == Cmds({"add-nexthop"}, p, f)
<1>1. AddK \subseteq K /\ \A c, d \in K : c.name = d.name /\ c.arg = d.arg
  BY CmdsOfVerb, OnePart
<1>2. ~overlap
  BY DEF Pet!Commit
<1>3. <<p, f>> \in HopsWanted => Coming(K, AddK) /\ (Arrived(K) => <<p, f>> \in hops)
  BY <1>2 DEF PetInv, HopsCome
<1>4. Ends(s, K, AddK) \/ (<<p, f>> \in HopsWanted /\ Free(s, K))
  OBVIOUS
<1> HIDE DEF K, AddK
<1>5. /\ Free(s, K) /\ Coming(K, AddK) => Coming(K, AddK)'
      /\ Free(s, K) /\ Arrived(K)' => Arrived(K)
      /\ Ends(s, K, AddK) => Coming(K, AddK)' /\ ~Arrived(K)'
  BY <1>1, CommitComing DEF PetInv
<1> QED
  BY <1>3, <1>4, <1>5 DEF K, AddK

\* A goroutine puts its next command into the channel.
LEMMA ExecComing ==
    ASSUME PetTyped, NEW t \in Pet!Thread, Pet!Exec(t), NEW K, NEW G \in SUBSET K
    PROVE  /\ pend' \in [Pet!Thread -> Seq(Pet!Command)] /\ channel' \in Seq(Pet!Command)
           /\ Coming(K, G) => Coming(K, G)'
           /\ Arrived(K)' => Arrived(K)
<1> DEFINE h == Head(pend[t])
           rest == Tail(pend[t])
<1>1. pend[t] \in Seq(Pet!Command) /\ pend[t] # <<>> /\ channel \in Seq(Pet!Command)
  BY DEF PetTyped, Pet!Exec
<1>2. /\ rest \in Seq(Pet!Command) /\ h \in Pet!Command
      /\ Free(pend[t], K) => Free(rest, K) /\ h \notin K
      /\ Free(rest, K) /\ h \notin K => Free(pend[t], K)
      /\ Ends(pend[t], K, G) => Ends(rest, K, G) \/ (Free(rest, K) /\ h \in G)
  BY <1>1, TailEnds
<1>3. Ends(rest, K, G) => ~Free(rest, K)
  BY DEF Ends, Free
<1>4. channel' = Append(channel, h) /\ cur' = cur
      /\ pend' = [pend EXCEPT ![t] = rest]
  BY DEF Pet!Exec
<1> HIDE DEF h, rest
<1>5. /\ pend' \in [Pet!Thread -> Seq(Pet!Command)]
      /\ pend'[t] = rest /\ \A u \in Pet!Thread \ {t} : pend'[u] = pend[u]
  BY <1>2, <1>4 DEF PetTyped
<1>6. /\ channel' \in Seq(Pet!Command)
      /\ h \in G => Ends(channel', K, G)
      /\ h \notin K /\ Free(channel, K) => Free(channel', K)
      /\ h \notin K /\ Ends(channel, K, G) => Ends(channel', K, G)
      /\ Free(channel', K) => Free(channel, K) /\ h \notin K
  BY <1>1, <1>2, <1>4, AppendEnds
<1>7. (\A u \in Pet!Thread : Free(pend'[u], K)) /\ h \notin K => \A u \in Pet!Thread : Free(pend[u], K)
  BY <1>2, <1>5
<1>8. ASSUME Coming(K, G) PROVE Coming(K, G)'
  <2>1. \A u \in Pet!Thread : Free(pend'[u], K) \/ Ends(pend'[u], K, G)
    BY <1>2, <1>5, <1>8 DEF Coming
  <2>2. ASSUME \A u \in Pet!Thread : Free(pend'[u], K)
        PROVE  Free(channel', K) \/ Ends(channel', K, G)
    <3>1. CASE h \in K
      BY <1>2, <1>3, <1>5, <1>6, <1>8, <2>2, <3>1 DEF Coming
    <3>2. CASE h \notin K
      BY <1>6, <1>7, <1>8, <2>2, <3>2 DEF Coming
    <3> QED
      BY <3>1, <3>2
  <2>3. ASSUME \A u \in Pet!Thread : Free(pend'[u], K), Free(channel', K) PROVE cur' \notin K \ G
    BY <1>4, <1>6, <1>7, <1>8, <2>3 DEF Coming
  <2> QED
    BY <2>1, <2>2, <2>3 DEF Coming
<1>9. ASSUME Arrived(K)' PROVE Arrived(K)
  BY <1>4, <1>6, <1>7, <1>9 DEF Arrived
<1> QED
  BY <1>5, <1>6, <1>8, <1>9

\* The nfdc thread takes the next command.
LEMMA TakeComing ==
    ASSUME PetTyped, Pet!TakeCmd, NEW K, NEW G \in SUBSET K, K \subseteq Pet!Command
    PROVE  /\ channel' \in Seq(Pet!Command) /\ cur' \in Pet!Command
           /\ Coming(K, G) => Coming(K, G)'
           /\ Arrived(K)' => Arrived(K)
<1>1. channel \in Seq(Pet!Command) /\ channel # <<>> /\ cur = None
      /\ channel' = Tail(channel) /\ cur' = Head(channel) /\ UNCHANGED pend
  BY DEF PetTyped, Pet!TakeCmd
<1>2. cur \notin K
  BY <1>1, PetAssumed DEF Pet!PetSyncAssumption
<1>3. /\ channel' \in Seq(Pet!Command) /\ cur' \in Pet!Command
      /\ Free(channel, K) => Free(channel', K) /\ cur' \notin K
      /\ Free(channel', K) /\ cur' \notin K => Free(channel, K)
      /\ Ends(channel, K, G) => Ends(channel', K, G) \/ (Free(channel', K) /\ cur' \in G)
  BY <1>1, TailEnds
<1>4. Ends(channel', K, G) => ~Free(channel', K)
  BY DEF Ends, Free
<1>5. ASSUME Coming(K, G) PROVE Coming(K, G)'
  BY <1>1, <1>3, <1>4, <1>5 DEF Coming
<1>6. ASSUME Arrived(K)' PROVE Arrived(K)
  BY <1>1, <1>2, <1>3, <1>6 DEF Arrived
<1> QED
  BY <1>3, <1>5, <1>6

\* The nfdc thread executes it.
LEMMA MgmtComing ==
    ASSUME PetTyped, Pet!ExecMgmtCmd, NEW K, NEW G \in SUBSET K, K \subseteq Pet!Command
    PROVE  /\ Coming(K, G) => Coming(K, G)'
           /\ Arrived(K)' /\ cur \notin K => Arrived(K)
           /\ Arrived(K)' /\ Coming(K, G) => cur \notin K \ G
<1>1. UNCHANGED <<pend, channel>> /\ cur' \in {None, cur}
  BY DEF Pet!ExecMgmtCmd
<1>2. None \notin K
  BY PetAssumed DEF Pet!PetSyncAssumption
<1> QED
  BY <1>1, <1>2 DEF Coming, Arrived

LEMMA CmdsAre == ASSUME NEW p \in Prefix
                 PROVE  /\ \A r \in Pet!Router : Cmds(EgressVerbs, p, r) \subseteq Pet!Command
                        /\ \A f \in LocalFace : Cmds(HopVerbs, p, f) \subseteq Pet!Command
BY DEF Cmds, EgressVerbs, HopVerbs, Pet!Command, Pet!Router

\* The commands make their way to the PET.
LEMMA PipelineKeeps ==
    ASSUME PetInv, (\E t \in Pet!Thread : Pet!Exec(t)) \/ Pet!TakeCmd
    PROVE  PetInv'
<1>1. UNCHANGED <<pes, petPrefixes, overlap, egress, hops, present, inserting, main>>
  BY DEF Pet!Exec, Pet!TakeCmd, Pet!table, Pet!world, Pet!inserts
<1>2. PetTyped
  BY DEF PetInv
<1>3. PetTyped'
  <2>1. ASSUME NEW t \in Pet!Thread, Pet!Exec(t) PROVE PetTyped'
    <3>1. pend' \in [Pet!Thread -> Seq(Pet!Command)] /\ channel' \in Seq(Pet!Command) /\ cur' = cur
      BY <1>2, <2>1, ExecComing DEF Pet!Exec
    <3> QED
      BY <1>1, <1>2, <3>1 DEF PetTyped
  <2>2. CASE Pet!TakeCmd
    <3>1. channel' \in Seq(Pet!Command) /\ cur' \in Pet!Command /\ pend' = pend
      BY <1>2, <2>2, TakeComing DEF Pet!TakeCmd
    <3> QED
      BY <1>1, <1>2, <3>1 DEF PetTyped
  <2> QED
    BY <2>1, <2>2
<1>4. HandsEmpty'
  <2>1. ASSUME NEW t \in Pet!Thread, pend[t] = <<>> PROVE pend'[t] = <<>>
    BY <1>2, <2>1 DEF Pet!Exec, Pet!TakeCmd, PetTyped
  <2>2. Inserter \subseteq Pet!Thread /\ "main" \in Pet!Thread
    BY DEF Pet!Thread
  <2> QED
    BY <1>1, <2>1, <2>2 DEF PetInv, HandsEmpty
<1>5. ASSUME NEW K, NEW G \in SUBSET K, K \subseteq Pet!Command
      PROVE  (Coming(K, G) => Coming(K, G)') /\ (Arrived(K)' => Arrived(K))
  BY <1>2, <1>5, ExecComing, TakeComing
<1>6. EgressComes'
  <2> SUFFICES ASSUME ~overlap, NEW p \in Prefix, NEW r \in Pet!Router
               PROVE  IF <<r, p>> \in petPrefixes
                      THEN /\ Coming(Cmds(EgressVerbs, p, r), Cmds({"add-egress"}, p, r))'
                           /\ Arrived(Cmds(EgressVerbs, p, r))' => <<p, r>> \in egress
                      ELSE /\ Coming(Cmds(EgressVerbs, p, r), Cmds({"remove-egress"}, p, r))'
                           /\ Arrived(Cmds(EgressVerbs, p, r))' => <<p, r>> \notin egress
    BY <1>1 DEF EgressComes
  <2> QED
    BY <1>5, CmdsOfVerb, CmdsAre DEF PetInv, EgressComes
<1>7. HopsCome'
  <2> SUFFICES ASSUME ~overlap, NEW p, NEW f, <<p, f>> \in HopsWanted
               PROVE  /\ Coming(Cmds(HopVerbs, p, f), Cmds({"add-nexthop"}, p, f))'
                      /\ Arrived(Cmds(HopVerbs, p, f))' => <<p, f>> \in hops
    BY <1>1 DEF HopsCome, HopsWanted
  <2>1. p \in Prefix /\ f \in LocalFace
    BY <1>2 DEF HopsWanted, PetTyped
  <2> QED
    BY <1>5, <2>1, CmdsOfVerb, CmdsAre DEF PetInv, HopsCome
<1> QED
  BY <1>1, <1>3, <1>4, <1>6, <1>7 DEF PetInv, PrefixesFollow

\* A command is executed.
LEMMA MgmtKeeps == ASSUME PetInv, Pet!ExecMgmtCmd PROVE PetInv'
<1>1. /\ UNCHANGED <<pes, petPrefixes, overlap, pend, channel, present, inserting, main>>
      /\ cur \in Pet!Command /\ cur' \in {None, cur}
      /\ egress' = Pet!EgressWith(cur) /\ hops' = Pet!HopsWith(cur)
  BY DEF Pet!ExecMgmtCmd, Pet!table, Pet!world, Pet!inserts, PetInv, PetTyped
<1>2. PetTyped
  BY DEF PetInv
<1>3. /\ cur.verb = "add-egress" => /\ egress' = egress \cup {<<cur.name, cur.arg>>}
                                    /\ cur.name \in Prefix \cup {Group} /\ cur.arg \in Pet!Router
      /\ cur.verb = "remove-egress" => egress' = egress \ {<<cur.name, cur.arg>>}
      /\ cur.verb \notin EgressVerbs => egress' = egress
  BY <1>1 DEF Pet!EgressWith, EgressVerbs, Pet!Command, Pet!Router
<1>4. /\ cur.verb = "add-nexthop" => hops' = hops \cup {<<cur.name, cur.arg>>}
      /\ cur.verb = "remove-nexthop" => hops' = hops \ {<<cur.name, cur.arg>>}
      /\ cur.verb \notin HopVerbs => hops' = hops
  BY <1>1 DEF Pet!HopsWith, HopVerbs
<1>5. PetTyped'
  <2>1. egress' \subseteq (Prefix \cup {Group}) \X Pet!Router
    BY <1>2, <1>3 DEF PetTyped, EgressVerbs
  <2> QED
    BY <1>1, <1>2, <2>1 DEF PetTyped
<1>6. ASSUME NEW K, NEW G \in SUBSET K, K \subseteq Pet!Command, Coming(K, G)
      PROVE  /\ Coming(K, G)'
             /\ Arrived(K)' => IF cur \in K THEN cur \in G ELSE Arrived(K)
  BY <1>2, <1>6, MgmtComing
<1>7. ASSUME NEW verbs, NEW p, NEW x
      PROVE  cur \in Cmds(verbs, p, x) <=> cur.verb \in verbs /\ cur.name = p /\ cur.arg = x
  BY <1>1 DEF Cmds, Pet!Command
<1>8. EgressComes'
  <2> SUFFICES ASSUME ~overlap, NEW p \in Prefix, NEW r \in Pet!Router
               PROVE  IF <<r, p>> \in petPrefixes
                      THEN /\ Coming(Cmds(EgressVerbs, p, r), Cmds({"add-egress"}, p, r))'
                           /\ Arrived(Cmds(EgressVerbs, p, r))' => <<p, r>> \in egress'
                      ELSE /\ Coming(Cmds(EgressVerbs, p, r), Cmds({"remove-egress"}, p, r))'
                           /\ Arrived(Cmds(EgressVerbs, p, r))' => <<p, r>> \notin egress'
    BY <1>1 DEF EgressComes
  <2> DEFINE K == Cmds(EgressVerbs, p, r)
             AddK == Cmds({"add-egress"}, p, r)
             RemoveK == Cmds({"remove-egress"}, p, r)
  <2>1. AddK \subseteq K /\ RemoveK \subseteq K /\ K \subseteq Pet!Command
    BY CmdsOfVerb, CmdsAre
  <2>2. IF <<r, p>> \in petPrefixes THEN Coming(K, AddK) /\ (Arrived(K) => <<p, r>> \in egress)
                                    ELSE Coming(K, RemoveK) /\ (Arrived(K) => <<p, r>> \notin egress)
    BY DEF PetInv, EgressComes
  <2>3. /\ cur \in K <=> cur.verb \in EgressVerbs /\ cur.name = p /\ cur.arg = r
        /\ cur \in AddK <=> cur.verb = "add-egress" /\ cur.name = p /\ cur.arg = r
        /\ cur \in RemoveK <=> cur.verb = "remove-egress" /\ cur.name = p /\ cur.arg = r
    BY <1>7
  <2>4. /\ cur \notin K => (<<p, r>> \in egress' <=> <<p, r>> \in egress)
        /\ cur \in AddK => <<p, r>> \in egress'
        /\ cur \in RemoveK => <<p, r>> \notin egress'
    BY <1>3, <2>3 DEF EgressVerbs
  <2> HIDE DEF K, AddK, RemoveK
  <2>5. CASE <<r, p>> \in petPrefixes
    BY <1>6, <2>1, <2>2, <2>4, <2>5 DEF K, AddK
  <2>6. CASE <<r, p>> \notin petPrefixes
    BY <1>6, <2>1, <2>2, <2>4, <2>6 DEF K, RemoveK
  <2> QED
    BY <2>5, <2>6
<1>9. HopsCome'
  <2> SUFFICES ASSUME ~overlap, NEW p, NEW f, <<p, f>> \in HopsWanted
               PROVE  /\ Coming(Cmds(HopVerbs, p, f), Cmds({"add-nexthop"}, p, f))'
                      /\ Arrived(Cmds(HopVerbs, p, f))' => <<p, f>> \in hops'
    BY <1>1 DEF HopsCome, HopsWanted
  <2> DEFINE K == Cmds(HopVerbs, p, f)
             AddK == Cmds({"add-nexthop"}, p, f)
  <2>0. p \in Prefix /\ f \in LocalFace
    BY <1>2 DEF HopsWanted, PetTyped
  <2>1. AddK \subseteq K /\ K \subseteq Pet!Command
    BY <2>0, CmdsOfVerb, CmdsAre
  <2>2. Coming(K, AddK) /\ (Arrived(K) => <<p, f>> \in hops)
    BY DEF PetInv, HopsCome
  <2>3. /\ cur \in K <=> cur.verb \in HopVerbs /\ cur.name = p /\ cur.arg = f
        /\ cur \in AddK <=> cur.verb = "add-nexthop" /\ cur.name = p /\ cur.arg = f
    BY <1>7
  <2>4. /\ cur \notin K => (<<p, f>> \in hops' <=> <<p, f>> \in hops)
        /\ cur \in AddK => <<p, f>> \in hops'
    BY <1>4, <2>3 DEF HopVerbs
  <2> HIDE DEF K, AddK
  <2> QED
    BY <1>6, <2>1, <2>2, <2>4 DEF K, AddK
<1> QED
  BY <1>1, <1>5, <1>8, <1>9 DEF PetInv, PrefixesFollow, HandsEmpty

\* Goroutine t, with empty hands, ends a critical section in which it changed the
\* PES; the insertion is then over, or the reset done.
Mover(t) ==
    /\ pend[t] = <<>>
    /\ UNCHANGED <<channel, cur, egress, hops, present>>
    /\ inserting' = IF t \in Inserter THEN [inserting EXCEPT ![t] = None] ELSE inserting
    /\ main' = IF t = "main" THEN "running" ELSE main

\* The types, and that hands are empty where they are to be.
LEMMA MoverKeeps ==
    ASSUME PetInv, NEW t \in Pet!Thread, Mover(t), NEW s \in Seq(Pet!Command), Pet!Commit(t, s)
    PROVE  /\ HandsEmpty'
           /\ petPrefixes' \subseteq Pet!Router \X Prefix
              /\ DOMAIN pes' = Pet!Router /\ (\A x \in Pet!Router : DOMAIN pes'[x] \subseteq Prefix)
              => PetTyped'
<1>1. PetTyped /\ HandsEmpty
  BY DEF PetInv
<1>2. /\ pend' \in [Pet!Thread -> Seq(Pet!Command)]
      /\ \A u \in Pet!Thread \ {t} : pend'[u] = pend[u]
  BY <1>1 DEF Pet!Commit, PetTyped
<1>3. Inserter \subseteq Pet!Thread /\ "main" \in Pet!Thread /\ "main" \notin Inserter
  BY PetAssumed DEF Pet!Thread, Pet!PetSyncAssumption
<1>4. inserting' \in [Inserter -> Pet!Insertion \cup {None}]
  BY <1>1 DEF Mover, PetTyped
<1>5. \A u \in Inserter : inserting'[u] # None => u # t /\ inserting[u] # None
  BY <1>1 DEF Mover, PetTyped
<1>6. main' \in {"new", "starting", "started"} => t # "main" /\ main' = main
  BY DEF Mover
<1>7. HandsEmpty'
  BY <1>1, <1>2, <1>3, <1>5, <1>6 DEF HandsEmpty
<1> QED
  BY <1>1, <1>2, <1>4, <1>7 DEF Mover, PetTyped

\* What a change does to the prefixes of the PES, and the next-hop commands that
\* go with it.
PesChange(r, reset, adds, removes) ==
    /\ DOMAIN pes' = Pet!Router
    /\ \A x \in Pet!Router :
          DOMAIN pes'[x] = IF x = r THEN ((IF reset THEN {} ELSE DOMAIN pes[x]) \cup adds) \ removes
                           ELSE DOMAIN pes[x]

HopChange(more) ==
    /\ more \in Seq(Pet!Command)
    /\ \A p, x : Free(more, Cmds(EgressVerbs, p, x))
    /\ \A p, f : <<p, f>> \in HopsWanted' =>
          \/ Ends(more, Cmds(HopVerbs, p, f), Cmds({"add-nexthop"}, p, f))
          \/ <<p, f>> \in HopsWanted /\ Free(more, Cmds(HopVerbs, p, f))

\* A change of a router's prefixes, which calls for the PET commands that go
\* with it and for next hops.
LEMMA ChangeKeeps ==
    ASSUME PetInv, NEW t \in Pet!Thread, Mover(t),
           NEW r \in Pet!Router, NEW reset \in BOOLEAN,
           NEW adds \in SUBSET Prefix, NEW removes \in SUBSET Prefix, NEW more,
           Pet!Change(t, r, reset, adds, removes, more),
           PesChange(r, reset, adds, removes), HopChange(more),
           t = "main" => r = Me /\ reset
    PROVE  PetInv'
<1> DEFINE cmds == Pet!PetCmds(r, reset, adds, removes)
           s == cmds \o more
           after == Pet!PetAfter(r, reset, adds, removes)
<1>1. petPrefixes' = after /\ Pet!Commit(t, s)
  BY DEF Pet!Change
<1>2. /\ cmds \in Seq(Pet!Command)
      /\ \A p, x : Free(cmds, Cmds(HopVerbs, p, x))
      /\ \A p \in Prefix, x \in Pet!Router : Called(cmds, p, x, <<x, p>> \in petPrefixes, <<x, p>> \in after)
  BY PetCmdsOf
<1>3. /\ after \subseteq Pet!Router \X Prefix
      /\ \A p \in Prefix, x \in Pet!Router :
            <<x, p>> \in after <=> IF x = r
                                   THEN (p \in adds \/ (~reset /\ <<x, p>> \in petPrefixes)) /\ p \notin removes
                                   ELSE <<x, p>> \in petPrefixes
  <2>1. petPrefixes \subseteq Pet!Router \X Prefix
    BY DEF PetInv, PetTyped
  <2>2. CASE reset
    BY <2>1, <2>2 DEF Pet!PetAfter
  <2>3. CASE ~reset
    BY <2>1, <2>3 DEF Pet!PetAfter
  <2> QED
    BY <2>2, <2>3
<1> HIDE DEF cmds, after
<1>4. ASSUME NEW K, NEW G \in SUBSET K
      PROVE  /\ Ends(more, K, G) => Ends(s, K, G)
             /\ Free(more, K) /\ Ends(cmds, K, G) => Ends(s, K, G)
             /\ Free(more, K) /\ Free(cmds, K) => Free(s, K)
  BY <1>2, ConcatEnds DEF HopChange
<1>5. s \in Seq(Pet!Command)
  BY <1>2 DEF HopChange
<1> HIDE DEF s
<1>6. \A p \in Prefix, x \in Pet!Router : Called(s, p, x, <<x, p>> \in petPrefixes, <<x, p>> \in petPrefixes')
  BY <1>1, <1>2, <1>4, CmdsOfVerb DEF Called, HopChange
<1>7. EgressComes'
  BY <1>1, <1>5, <1>6, EgressCommit DEF Mover
<1>8. HopsCome'
  <2>1. \A p, f : <<p, f>> \in HopsWanted' =>
            \/ Ends(s, Cmds(HopVerbs, p, f), Cmds({"add-nexthop"}, p, f))
            \/ <<p, f>> \in HopsWanted /\ Free(s, Cmds(HopVerbs, p, f))
    BY <1>2, <1>4, CmdsOfVerb DEF HopChange
  <2> QED
    BY <1>1, <1>5, <2>1, HopCommit DEF Mover
<1>9. PetTyped' /\ HandsEmpty'
  <2>1. \A x \in Pet!Router : DOMAIN pes'[x] \subseteq Prefix
    BY DEF PetInv, PetTyped, PesChange
  <2> QED
    BY <1>1, <1>3, <1>5, <2>1, MoverKeeps DEF PesChange
<1>10. PrefixesFollow'
  <2>1. Me \in Pet!Router /\ Other \in Pet!Router /\ Me # Other
    BY PetAssumed DEF Pet!Router, Pet!PetSyncAssumption
  <2>2. main' = main \/ t = "main"
    BY DEF Mover
  <2>3. ASSUME NEW p \in Prefix PROVE <<Other, p>> \in petPrefixes' <=> p \in DOMAIN pes'[Other]
    BY <1>1, <1>3, <2>1 DEF PetInv, PrefixesFollow, PesChange
  <2>4. ASSUME main' \notin {"new", "starting", "started"}, NEW p \in Prefix
        PROVE  <<Me, p>> \in petPrefixes' <=> p \in DOMAIN pes'[Me]
    <3>1. CASE reset /\ r = Me
      BY <1>1, <1>3, <2>1, <3>1 DEF PesChange
    <3>2. CASE main' = main
      BY <1>1, <1>3, <2>1, <2>4, <3>2 DEF PetInv, PrefixesFollow, PesChange
    <3> QED
      BY <2>2, <3>1, <3>2
  <2> QED
    BY <2>3, <2>4 DEF PrefixesFollow
<1> QED
  BY <1>7, <1>8, <1>9, <1>10 DEF PetInv

\* The next-hop command of a change.
LEMMA HopCmdsOf ==
    ASSUME NEW verb \in HopVerbs, NEW p \in Prefix, NEW f \in LocalFace \cup {0}
    PROVE  LET s == Pet!HopCmds(verb, p, f)
           IN  /\ s \in Seq(Pet!Command)
               /\ \A q, x : Free(s, Cmds(EgressVerbs, q, x))
               /\ \A q, x : q # p \/ x # f => Free(s, Cmds(HopVerbs, q, x))
               /\ f # 0 => Ends(s, Cmds(HopVerbs, p, f), Cmds({verb}, p, f))
<1> DEFINE c == [verb |-> verb, name |-> p, arg |-> f]
<1>1. CASE f = 0
  BY <1>1 DEF Pet!HopCmds, Free
<1>2. CASE f # 0
  <2>1. Pet!HopCmds(verb, p, f) = <<c>> /\ c \in Pet!Command
    BY <1>2 DEF Pet!HopCmds, Pet!Command, HopVerbs
  <2>2. /\ \A q, x : c \notin Cmds(EgressVerbs, q, x)
        /\ \A q, x : q # p \/ x # f => c \notin Cmds(HopVerbs, q, x)
        /\ c \in Cmds({verb}, p, f)
    BY DEF Cmds, HopVerbs, EgressVerbs
  <2> HIDE DEF c
  <2> QED
    BY <1>2, <2>1, <2>2 DEF Free, Ends
<1> QED
  BY <1>1, <1>2

\* PrefixModule.Announce, by whichever goroutine.
LEMMA AnnounceKeeps ==
    ASSUME PetInv, NEW t \in Pet!Thread, Mover(t), t # "main", NEW p \in Prefix,
           NEW f \in LocalFace \cup {0}, NEW v, Pet!DoAnnounce(t, p, f, v)
    PROVE  PetInv'
<1> DEFINE more == Pet!HopCmds("add-nexthop", p, f)
           old == IF p \in DOMAIN pes[Me] THEN pes[Me][p].hops ELSE {}
           known == [validity |-> v, hops |-> IF f = 0 THEN {} ELSE old \cup {f}]
<1>1. PetTyped /\ Me \in Pet!Router
  BY DEF PetInv, Pet!Router
<1>2. /\ pes' = [pes EXCEPT ![Me] = Pet!With({p}, known, pes[Me])]
      /\ Pet!Change(t, Me, FALSE, {p}, {}, more)
  BY DEF Pet!DoAnnounce, Pet!Announced
<1>3. /\ DOMAIN pes' = Pet!Router
      /\ \A x \in Pet!Router \ {Me} : pes'[x] = pes[x]
      /\ DOMAIN pes'[Me] = DOMAIN pes[Me] \cup {p}
      /\ pes'[Me][p] = known
      /\ \A q \in DOMAIN pes[Me] \ {p} : pes'[Me][q] = pes[Me][q]
  <2> HIDE DEF known
  <2> QED
    BY <1>1, <1>2 DEF PetTyped, Pet!With
<1>4. "add-nexthop" \in HopVerbs
  BY DEF HopVerbs
<1>5. /\ more \in Seq(Pet!Command)
      /\ \A q, x : Free(more, Cmds(EgressVerbs, q, x))
      /\ \A q, x : q # p \/ x # f => Free(more, Cmds(HopVerbs, q, x))
      /\ f # 0 => Ends(more, Cmds(HopVerbs, p, f), Cmds({"add-nexthop"}, p, f))
  BY <1>4, HopCmdsOf
<1>6. ASSUME NEW q, NEW x, <<q, x>> \in HopsWanted'
      PROVE  \/ Ends(more, Cmds(HopVerbs, q, x), Cmds({"add-nexthop"}, q, x))
             \/ <<q, x>> \in HopsWanted /\ Free(more, Cmds(HopVerbs, q, x))
  <2>1. q \in Prefix /\ x \in present /\ q \in DOMAIN pes'[Me] /\ x \in pes'[Me][q].hops
    BY <1>6 DEF HopsWanted, Mover
  <2>2. CASE q = p
    <3>1. f # 0 /\ (x = f \/ (p \in DOMAIN pes[Me] /\ x \in pes[Me][p].hops))
      BY <1>3, <2>1, <2>2
    <3> HIDE DEF more, known
    <3> QED
      BY <1>5, <2>1, <2>2, <3>1 DEF HopsWanted
  <2>3. CASE q # p
    <3> HIDE DEF more, known
    <3> QED
      BY <1>3, <1>5, <2>1, <2>3 DEF HopsWanted
  <2> QED
    BY <2>2, <2>3
<1> HIDE DEF more, known
<1> DEFINE reset == FALSE
           adds == {p}
           removes == {}
<1>7. /\ reset \in BOOLEAN /\ adds \in SUBSET Prefix /\ removes \in SUBSET Prefix
      /\ Pet!Change(t, Me, reset, adds, removes, more)
      /\ PesChange(Me, reset, adds, removes)
  BY <1>2, <1>3 DEF PesChange
<1>8. HopChange(more)
  BY <1>5, <1>6 DEF HopChange
<1> HIDE DEF reset, adds, removes
<1> QED
  BY <1>1, <1>7, <1>8, ChangeKeeps

\* PrefixModule.Withdraw, by whichever goroutine.
LEMMA WithdrawKeeps ==
    ASSUME PetInv, NEW t \in Pet!Thread, Mover(t), t # "main", NEW p \in Prefix,
           NEW f \in LocalFace, Pet!DoWithdraw(t, p, f)
    PROVE  PetInv'
<1> DEFINE more == Pet!HopCmds("remove-nexthop", p, f)
           gone == Pet!GoneAfter(p, f)
           removes == IF gone THEN {p} ELSE {}
<1>1. PetTyped /\ Me \in Pet!Router
  BY DEF PetInv, Pet!Router
<1>2. /\ pes' = [pes EXCEPT ![Me] = IF gone THEN Pet!Without(@, {p}) ELSE Pet!Left(p, f)]
      /\ Pet!Change(t, Me, FALSE, {}, removes, more)
  BY DEF Pet!DoWithdraw
<1>3. /\ DOMAIN pes' = Pet!Router
      /\ \A x \in Pet!Router \ {Me} : pes'[x] = pes[x]
      /\ DOMAIN pes'[Me] = DOMAIN pes[Me] \ removes
      /\ \A q \in DOMAIN pes'[Me] : pes'[Me][q].hops = IF q = p THEN pes[Me][q].hops \ {f} ELSE pes[Me][q].hops
  <2>1. CASE gone
    <3> HIDE DEF gone
    <3> QED
      BY <1>1, <1>2, <2>1 DEF PetTyped, Pet!Without
  <2>2. CASE ~gone
    <3>1. p \in DOMAIN pes[Me]
      BY <2>2 DEF Pet!GoneAfter
    <3> HIDE DEF gone
    <3>2. /\ DOMAIN pes' = Pet!Router /\ \A x \in Pet!Router \ {Me} : pes'[x] = pes[x]
          /\ pes'[Me] = Pet!Left(p, f)
      BY <1>1, <1>2, <2>2 DEF PetTyped
    <3> QED
      BY <2>2, <3>1, <3>2 DEF Pet!Left, Pet!With
  <2> QED
    BY <2>1, <2>2
<1>4. "remove-nexthop" \in HopVerbs
  BY DEF HopVerbs
<1>5. /\ more \in Seq(Pet!Command)
      /\ \A q, x : Free(more, Cmds(EgressVerbs, q, x))
      /\ \A q, x : q # p \/ x # f => Free(more, Cmds(HopVerbs, q, x))
  BY <1>4, HopCmdsOf
<1> HIDE DEF more, gone
<1>6. ASSUME NEW q, NEW x, <<q, x>> \in HopsWanted'
      PROVE  <<q, x>> \in HopsWanted /\ Free(more, Cmds(HopVerbs, q, x))
  <2>1. q \in Prefix /\ x \in present /\ q \in DOMAIN pes'[Me] /\ x \in pes'[Me][q].hops
    BY <1>6 DEF HopsWanted, Mover
  <2> QED
    BY <1>3, <1>5, <2>1 DEF HopsWanted
<1> DEFINE reset == FALSE
           adds == {}
<1>7. /\ reset \in BOOLEAN /\ adds \in SUBSET Prefix /\ removes \in SUBSET Prefix
      /\ Pet!Change(t, Me, reset, adds, removes, more)
      /\ PesChange(Me, reset, adds, removes)
  BY <1>2, <1>3 DEF PesChange
<1>8. HopChange(more)
  BY <1>5, <1>6 DEF HopChange
<1> HIDE DEF reset, adds, removes
<1> QED
  BY <1>1, <1>7, <1>8, ChangeKeeps

\* The management commands and the publications of the other router.
LEMMA CommandsKeep == ASSUME PetInv, Pet!Commands \/ Pet!Updates PROVE PetInv'
<1>1. /\ {"mgmt", "svs"} \subseteq Pet!Thread \ Inserter
      /\ Me \in Pet!Router /\ Other \in Pet!Router /\ Me # Other
      /\ PetTyped
  BY PetAssumed DEF Pet!Thread, Pet!PetSyncAssumption, Pet!Router, PetInv
<1>2. ASSUME NEW p \in Prefix, NEW f \in LocalFace \cup {0}, NEW v, Pet!Announce(p, f, v) PROVE PetInv'
  <2>1. Mover("mgmt") /\ Pet!DoAnnounce("mgmt", p, f, v)
    BY <1>1, <1>2 DEF Pet!Announce, Pet!Idle, Mover, Pet!nfdc, Pet!world, Pet!inserts
  <2> QED
    BY <1>1, <2>1, AnnounceKeeps
<1>3. ASSUME NEW p \in Prefix, NEW f \in LocalFace, Pet!Withdraw(p, f) PROVE PetInv'
  <2>1. Mover("mgmt") /\ Pet!DoWithdraw("mgmt", p, f)
    BY <1>1, <1>3 DEF Pet!Withdraw, Pet!Idle, Mover, Pet!nfdc, Pet!world, Pet!inserts
  <2> QED
    BY <1>1, <2>1, WithdrawKeeps
<1>4. \A q, x, K : Free(<<>>, K)
  BY DEF Free
<1>5. ASSUME NEW p \in Prefix, Pet!WithdrawRoute(p) PROVE PetInv'
  <2> DEFINE reset == FALSE
             adds == {}
             removes == {p}
             more == <<>>
  <2>1. /\ Mover("mgmt") /\ Pet!Change("mgmt", Me, reset, adds, removes, more)
        /\ pes' = [pes EXCEPT ![Me] = Pet!Without(pes[Me], {p})] /\ UNCHANGED present
    BY <1>1, <1>5 DEF Pet!WithdrawRoute, Pet!Idle, Mover, Pet!nfdc, Pet!world, Pet!inserts
  <2>2. /\ DOMAIN pes' = Pet!Router /\ \A x \in Pet!Router \ {Me} : pes'[x] = pes[x]
        /\ DOMAIN pes'[Me] = DOMAIN pes[Me] \ {p}
        /\ \A q \in DOMAIN pes'[Me] : pes'[Me][q] = pes[Me][q]
    BY <1>1, <2>1 DEF PetTyped, Pet!Without
  <2>3. PesChange(Me, reset, adds, removes) /\ reset \in BOOLEAN
        /\ adds \in SUBSET Prefix /\ removes \in SUBSET Prefix
    BY <2>2 DEF PesChange
  <2>4. HopsWanted' \subseteq HopsWanted
    BY <2>1, <2>2 DEF HopsWanted
  <2>5. HopChange(more)
    BY <1>4, <2>4 DEF HopChange
  <2> HIDE DEF reset, adds, removes, more
  <2> QED
    BY <1>1, <2>1, <2>3, <2>5, ChangeKeeps
<1>6. ASSUME NEW reset \in BOOLEAN, NEW adds \in SUBSET Prefix, NEW removes \in SUBSET Prefix, NEW v,
             Pet!ApplyUpdate(reset, adds, removes, v)
      PROVE  PetInv'
  <2> DEFINE more == <<>>
             base == IF reset THEN Pet!NoPrefixes ELSE pes[Other]
             known == [validity |-> v, hops |-> {}]
  <2>1. /\ Mover("svs") /\ Pet!Change("svs", Other, reset, adds, removes, more)
        /\ pes' = [pes EXCEPT ![Other] = Pet!Without(Pet!With(adds, known, base), removes)]
        /\ UNCHANGED present
    BY <1>1, <1>6 DEF Pet!ApplyUpdate, Pet!Idle, Mover, Pet!nfdc, Pet!world, Pet!inserts
  <2>2. DOMAIN base = IF reset THEN {} ELSE DOMAIN pes[Other]
    BY DEF Pet!NoPrefixes
  <2> HIDE DEF base, known
  <2>3. /\ DOMAIN pes' = Pet!Router /\ \A x \in Pet!Router \ {Other} : pes'[x] = pes[x]
        /\ DOMAIN pes'[Other] = (DOMAIN base \cup adds) \ removes
    BY <1>1, <2>1 DEF PetTyped, Pet!Without, Pet!With
  <2>4. PesChange(Other, reset, adds, removes)
    BY <2>2, <2>3 DEF PesChange
  <2>5. HopsWanted' = HopsWanted
    BY <1>1, <2>1, <2>3 DEF HopsWanted
  <2>6. HopChange(more)
    BY <1>4, <2>5 DEF HopChange
  <2> HIDE DEF more
  <2> QED
    BY <1>1, <2>1, <2>4, <2>6, ChangeKeeps
<1> QED
  BY <1>2, <1>3, <1>5, <1>6 DEF Pet!Commands, Pet!Updates

\* A step that changes nothing of the PES, of the PET and of what is between them.
LEMMA QuietKeeps ==
    ASSUME PetInv, UNCHANGED <<pes, petPrefixes, overlap, pend, channel, cur, egress, hops, present>>,
           inserting' \in [Inserter -> Pet!Insertion \cup {None}],
           HandsEmpty', main' \notin {"new", "starting", "started"} => main \notin {"new", "starting", "started"}
    PROVE  PetInv'
<1>1. PetTyped' /\ PrefixesFollow'
  BY DEF PetInv, PetTyped, PrefixesFollow
<1>2. ASSUME NEW K, NEW G PROVE (Coming(K, G) => Coming(K, G)') /\ (Arrived(K)' => Arrived(K))
  BY DEF Coming, Arrived
<1>3. EgressComes'
  BY <1>2 DEF PetInv, EgressComes
<1>4. HopsCome'
  BY <1>2 DEF PetInv, HopsCome, HopsWanted
<1> QED
  BY <1>1, <1>3, <1>4 DEF PetInv

\* onInsertion.
LEMMA InsertionsKeep == ASSUME PetInv, Pet!Insertions PROVE PetInv'
<1>1. /\ Inserter \subseteq Pet!Thread /\ "main" \notin Inserter
      /\ PetTyped /\ HandsEmpty
  BY PetAssumed DEF Pet!Thread, Pet!PetSyncAssumption, PetInv
<1>2. ASSUME NEW t \in Inserter, NEW i \in Pet!Insertion, Pet!CheckVersion(t, i) PROVE PetInv'
  <2>1. /\ UNCHANGED <<pes, petPrefixes, overlap, pend, channel, cur, egress, hops, present, main>>
        /\ inserting' = [inserting EXCEPT ![t] = i] /\ pend[t] = <<>>
    BY <1>2 DEF Pet!CheckVersion, Pet!table, Pet!nfdc, Pet!world, Pet!Idle
  <2>2. inserting' \in [Inserter -> Pet!Insertion \cup {None}] /\ HandsEmpty'
    BY <1>1, <2>1 DEF PetTyped, HandsEmpty
  <2> QED
    BY <2>1, <2>2, QuietKeeps
<1>3. ASSUME NEW t \in Inserter, Pet!RejectInsertion(t) PROVE PetInv'
  <2>1. /\ UNCHANGED <<pes, petPrefixes, overlap, pend, channel, cur, egress, hops, present, main>>
        /\ inserting' = [inserting EXCEPT ![t] = None]
    BY <1>3 DEF Pet!RejectInsertion, Pet!table, Pet!nfdc, Pet!world
  <2>2. inserting' \in [Inserter -> Pet!Insertion \cup {None}] /\ HandsEmpty'
    BY <1>1, <2>1 DEF PetTyped, HandsEmpty
  <2> QED
    BY <2>1, <2>2, QuietKeeps
<1>4. ASSUME NEW t \in Inserter, Pet!Insert(t) PROVE PetInv'
  <2>1. /\ inserting[t] # None
        /\ Pet!DoAnnounce(t, inserting[t].name, inserting[t].face, inserting[t].version)
        /\ inserting' = [inserting EXCEPT ![t] = None]
        /\ UNCHANGED <<channel, cur, egress, hops, present, main>>
    BY <1>4 DEF Pet!Insert, Pet!nfdc, Pet!world
  <2>2. inserting[t].name \in Prefix /\ inserting[t].face \in LocalFace
    BY <1>1, <2>1 DEF PetTyped, Pet!Insertion
  <2>3. Mover(t) /\ t # "main"
    BY <1>1, <2>1 DEF Mover, HandsEmpty
  <2> QED
    BY <1>1, <2>1, <2>2, <2>3, AnnounceKeeps
<1> QED
  BY <1>2, <1>3, <1>4 DEF Pet!Insertions

\* The ticker.
LEMMA PruneKeeps == ASSUME PetInv, Pet!Prune PROVE PetInv'
<1>1. /\ "prune" \in Pet!Thread \ Inserter
      /\ Pet!Router = {Me, Other} /\ Me # Other
      /\ PetTyped
  BY PetAssumed DEF Pet!Thread, Pet!PetSyncAssumption, Pet!Router, PetInv
<1>2. CASE Pet!FindStale
  <2>1. UNCHANGED <<pes, petPrefixes, overlap, pend, channel, cur, egress, hops, present, inserting, main>>
    BY <1>2 DEF Pet!FindStale, Pet!table, Pet!nfdc, Pet!world, Pet!inserts
  <2>2. inserting' \in [Inserter -> Pet!Insertion \cup {None}] /\ HandsEmpty'
    BY <1>1, <2>1 DEF PetTyped, PetInv, HandsEmpty
  <2> QED
    BY <2>1, <2>2, QuietKeeps
<1>3. ASSUME NEW p \in Prefix, NEW f \in LocalFace, Pet!PruneRoute(p, f) PROVE PetInv'
  <2>1. Mover("prune") /\ Pet!DoWithdraw("prune", p, f)
    BY <1>1, <1>3 DEF Pet!PruneRoute, Pet!Idle, Mover, Pet!nfdc, Pet!world, Pet!inserts
  <2> QED
    BY <1>1, <2>1, WithdrawKeeps
<1>4. CASE Pet!PruneExpired
  <2> DEFINE mine == Pet!PetCmds(Me, FALSE, {}, Pet!Over(Me))
             theirs == Pet!PetCmds(Other, FALSE, {}, Pet!Over(Other))
             s == mine \o theirs
  <2>1. /\ Mover("prune") /\ Pet!Commit("prune", s)
        /\ pes' = [r \in Pet!Router |-> Pet!Without(pes[r], Pet!Over(r))]
        /\ petPrefixes' = {rp \in petPrefixes : rp[2] \notin Pet!Over(rp[1])}
        /\ UNCHANGED <<present, main>>
    BY <1>1, <1>4 DEF Pet!PruneExpired, Pet!Idle, Mover, Pet!nfdc, Pet!world, Pet!inserts
  <2>2. \A r \in Pet!Router : Pet!Over(r) \in SUBSET Prefix
    BY <1>1 DEF PetTyped, Pet!Over
  <2>3. ASSUME NEW r \in Pet!Router
        PROVE  LET cmds == Pet!PetCmds(r, FALSE, {}, Pet!Over(r))
               IN  /\ cmds \in Seq(Pet!Command)
                   /\ \A q, f : Free(cmds, Cmds(HopVerbs, q, f))
                   /\ \A p \in Prefix, x \in Pet!Router :
                        IF x = r THEN Called(cmds, p, x, <<x, p>> \in petPrefixes, <<x, p>> \in petPrefixes')
                                 ELSE Free(cmds, Cmds(EgressVerbs, p, x))
    <3> DEFINE cmds == Pet!PetCmds(r, FALSE, {}, Pet!Over(r))
               after == Pet!PetAfter(r, FALSE, {}, Pet!Over(r))
    <3>1. FALSE \in BOOLEAN /\ {} \in SUBSET Prefix /\ Pet!Over(r) \in SUBSET Prefix
      BY <2>2
    <3>2. /\ cmds \in Seq(Pet!Command)
          /\ \A q, f : Free(cmds, Cmds(HopVerbs, q, f))
          /\ \A p \in Prefix, x \in Pet!Router :
                /\ Called(cmds, p, x, <<x, p>> \in petPrefixes, <<x, p>> \in after)
                /\ x # r => Free(cmds, Cmds(EgressVerbs, p, x))
      BY <3>1, PetCmdsOf
    <3>3. \A p \in Prefix : <<r, p>> \in petPrefixes' <=> <<r, p>> \in after
      BY <2>1 DEF Pet!PetAfter
    <3> HIDE DEF cmds, after
    <3>4. \A p \in Prefix : Called(cmds, p, r, <<r, p>> \in petPrefixes, <<r, p>> \in petPrefixes')
      BY <3>2, <3>3 DEF Called
    <3> QED
      BY <3>2, <3>4 DEF cmds
  <2>4. /\ mine \in Seq(Pet!Command) /\ theirs \in Seq(Pet!Command)
        /\ \A q, f : Free(mine, Cmds(HopVerbs, q, f)) /\ Free(theirs, Cmds(HopVerbs, q, f))
        /\ \A p \in Prefix, x \in Pet!Router :
              /\ x = Me => /\ Called(mine, p, x, <<x, p>> \in petPrefixes, <<x, p>> \in petPrefixes')
                           /\ Free(theirs, Cmds(EgressVerbs, p, x))
              /\ x = Other => /\ Called(theirs, p, x, <<x, p>> \in petPrefixes, <<x, p>> \in petPrefixes')
                              /\ Free(mine, Cmds(EgressVerbs, p, x))
    BY <1>1, <2>3
  <2> HIDE DEF mine, theirs
  <2>5. ASSUME NEW K, NEW G \in SUBSET K
        PROVE  /\ Free(theirs, K) /\ Ends(mine, K, G) => Ends(s, K, G)
               /\ Ends(theirs, K, G) => Ends(s, K, G)
               /\ Free(mine, K) /\ Free(theirs, K) => Free(s, K)
    BY <2>4, ConcatEnds
  <2>6. s \in Seq(Pet!Command)
    BY <2>4
  <2> HIDE DEF s
  <2>7. \A p \in Prefix, x \in Pet!Router :
            Called(s, p, x, <<x, p>> \in petPrefixes, <<x, p>> \in petPrefixes')
    BY <1>1, <2>4, <2>5, CmdsOfVerb DEF Called
  <2>8. EgressComes'
    BY <1>1, <2>1, <2>6, <2>7, EgressCommit DEF Mover
  <2>9. /\ DOMAIN pes' = Pet!Router
        /\ \A x \in Pet!Router : DOMAIN pes'[x] = DOMAIN pes[x] \ Pet!Over(x)
        /\ \A x \in Pet!Router : \A q \in DOMAIN pes'[x] : pes'[x][q] = pes[x][q]
    BY <2>1 DEF Pet!Without
  <2>10. HopsCome'
    <3>1. HopsWanted' \subseteq HopsWanted
      BY <1>1, <2>1, <2>9 DEF HopsWanted
    <3>2. \A p, f : Free(s, Cmds(HopVerbs, p, f))
      BY <2>4, <2>5, CmdsOfVerb
    <3> QED
      BY <1>1, <2>1, <2>6, <3>1, <3>2, HopCommit DEF Mover
  <2>11. petPrefixes' \subseteq Pet!Router \X Prefix /\ \A x \in Pet!Router : DOMAIN pes'[x] \subseteq Prefix
    BY <1>1, <2>1, <2>9 DEF PetTyped
  <2>12. PetTyped' /\ HandsEmpty'
    BY <1>1, <2>1, <2>6, <2>9, <2>11, MoverKeeps
  <2>13. PrefixesFollow'
    BY <1>1, <2>1, <2>9 DEF PetInv, PrefixesFollow
  <2> QED
    BY <2>8, <2>10, <2>12, <2>13 DEF PetInv
<1> QED
  BY <1>2, <1>3, <1>4 DEF Pet!Prune

\* SVS tells of a publisher, and run() subscribes to it.
LEMMA PublishersKeep ==
    ASSUME PetInv, Pet!ReceiveVector \/ Pet!Notify \/ Pet!OnPublisher PROVE PetInv'
<1>1. "svs" \in Pet!Thread \ Inserter /\ PetTyped /\ HandsEmpty
  BY PetAssumed DEF Pet!Thread, Pet!PetSyncAssumption, PetInv
<1>2. CASE UNCHANGED <<pend, overlap>>
  <2>1. UNCHANGED <<pes, petPrefixes, overlap, pend, channel, cur, egress, hops, present, inserting, main>>
    BY <1>2 DEF Pet!ReceiveVector, Pet!Notify, Pet!OnPublisher, Pet!table, Pet!nfdc, Pet!world, Pet!inserts
  <2>2. inserting' \in [Inserter -> Pet!Insertion \cup {None}] /\ HandsEmpty'
    BY <1>1, <2>1 DEF PetTyped, HandsEmpty
  <2> QED
    BY <2>1, <2>2, QuietKeeps
<1>3. CASE ~UNCHANGED <<pend, overlap>>
  <2> DEFINE c == [verb |-> "add-egress", name |-> Group, arg |-> Other]
             s == <<c>>
  <2>1. /\ Mover("svs") /\ Pet!Commit("svs", s)
        /\ UNCHANGED <<pes, petPrefixes, present, main>>
    BY <1>1, <1>3 DEF Pet!ReceiveVector, Pet!Notify, Pet!OnPublisher, Pet!Idle, Mover, Pet!table, Pet!nfdc,
                      Pet!world, Pet!inserts
  <2>2. c \in Pet!Command /\ Group \notin Prefix
    BY PetAssumed DEF Pet!Command, Pet!PetSyncAssumption
  <2>3. s \in Seq(Pet!Command) /\ DOMAIN s = {1} /\ s[1] = c
    BY <2>2
  <2>4. /\ \A p \in Prefix : \A x : Free(s, Cmds(EgressVerbs, p, x))
        /\ \A p, x : Free(s, Cmds(HopVerbs, p, x))
    BY <2>2, <2>3 DEF Free, Cmds, HopVerbs
  <2> HIDE DEF s, c
  <2>5. EgressComes'
    <3>1. \A p \in Prefix, x \in Pet!Router :
              Called(s, p, x, <<x, p>> \in petPrefixes, <<x, p>> \in petPrefixes')
      BY <2>1, <2>4 DEF Called
    <3> QED
      BY <1>1, <2>1, <2>3, <3>1, EgressCommit DEF Mover
  <2>6. HopsCome'
    <3>1. HopsWanted' = HopsWanted
      BY <2>1 DEF HopsWanted
    <3> QED
      BY <1>1, <2>1, <2>3, <2>4, <3>1, HopCommit DEF Mover
  <2>7. PetTyped' /\ HandsEmpty'
    BY <1>1, <2>1, <2>3, MoverKeeps DEF PetTyped
  <2>8. PrefixesFollow'
    BY <2>1 DEF PetInv, PrefixesFollow
  <2> QED
    BY <2>5, <2>6, <2>7, <2>8 DEF PetInv
<1> QED
  BY <1>2, <1>3

\* Start and stop, faces and time.
LEMMA OthersKeepPet ==
    ASSUME PetInv, \/ Pet!Launch \/ Pet!Start \/ Pet!Reset \/ Pet!Stop \/ Pet!StopFaceEvents
                   \/ Pet!StopRun \/ Pet!StopSvs \/ Pet!StopThread
                   \/ \E f \in LocalFace : Pet!FaceGoes(f) \/ Pet!FaceEvent(f)
                   \/ \E v \in Pet!Period : Pet!Expire(v)
    PROVE  PetInv'
<1>1. /\ "main" \in Pet!Thread \ Inserter
      /\ Me \in Pet!Router /\ Other \in Pet!Router /\ Me # Other
      /\ PetTyped /\ HandsEmpty
  BY PetAssumed DEF Pet!Thread, Pet!PetSyncAssumption, Pet!Router, PetInv
<1>2. CASE \/ Pet!Launch \/ Pet!Stop \/ Pet!StopFaceEvents \/ Pet!StopRun \/ Pet!StopSvs
           \/ Pet!StopThread
           \/ \E f \in LocalFace : Pet!FaceEvent(f)
           \/ \E v \in Pet!Period : Pet!Expire(v)
  <2>1. UNCHANGED <<pes, petPrefixes, overlap, pend, channel, cur, egress, hops, present, inserting>>
    BY <1>2 DEF Pet!Launch, Pet!Stop, Pet!StopFaceEvents, Pet!StopRun, Pet!StopSvs, Pet!StopThread,
                Pet!FaceEvent, Pet!Expire, Pet!table, Pet!nfdc, Pet!world, Pet!inserts
  <2>2. main' = main \/ (main \in {"new", "starting", "started"} <=> main' \in {"new", "starting", "started"})
    BY <1>2 DEF Pet!Launch, Pet!Stop, Pet!StopFaceEvents, Pet!StopRun, Pet!StopSvs, Pet!StopThread,
                Pet!FaceEvent, Pet!Expire
  <2>3. inserting' \in [Inserter -> Pet!Insertion \cup {None}] /\ HandsEmpty'
    BY <1>1, <2>1, <2>2 DEF PetTyped, HandsEmpty
  <2> QED
    BY <2>1, <2>2, <2>3, QuietKeeps
<1>3. ASSUME NEW f \in LocalFace, Pet!FaceGoes(f) PROVE PetInv'
  <2>1. /\ UNCHANGED <<pes, petPrefixes, overlap, pend, channel, cur, egress, inserting, main>>
        /\ present' = present \ {f} /\ hops' = hops \ (Prefix \X {f})
    BY <1>3 DEF Pet!FaceGoes, Pet!table, Pet!inserts
  <2>2. ASSUME NEW K, NEW G PROVE (Coming(K, G) => Coming(K, G)') /\ (Arrived(K)' => Arrived(K))
    BY <2>1 DEF Coming, Arrived
  <2>3. EgressComes'
    BY <2>1, <2>2 DEF PetInv, EgressComes
  <2>4. HopsCome'
    <3> SUFFICES ASSUME ~overlap, NEW p, NEW g, <<p, g>> \in HopsWanted'
                 PROVE  /\ Coming(Cmds(HopVerbs, p, g), Cmds({"add-nexthop"}, p, g))'
                        /\ Arrived(Cmds(HopVerbs, p, g))' => <<p, g>> \in hops'
      BY <2>1 DEF HopsCome
    <3>1. <<p, g>> \in HopsWanted /\ g # f
      BY <2>1 DEF HopsWanted
    <3>2. <<p, g>> \in hops => <<p, g>> \in hops'
      BY <2>1, <3>1
    <3> QED
      BY <2>2, <3>1, <3>2 DEF PetInv, HopsCome
  <2>5. PetTyped' /\ HandsEmpty' /\ PrefixesFollow'
    BY <2>1 DEF PetInv, PetTyped, HandsEmpty, PrefixesFollow
  <2> QED
    BY <2>3, <2>4, <2>5 DEF PetInv
<1>4. CASE Pet!Start
  <2>1. /\ UNCHANGED <<petPrefixes, overlap, pend, channel, cur, egress, hops, present, inserting>>
        /\ pes' = [pes EXCEPT ![Me] = Pet!NoPrefixes]
        /\ main = "starting" /\ main' = "started"
    BY <1>4 DEF Pet!Start, Pet!nfdc, Pet!world, Pet!inserts
  <2>2. /\ DOMAIN pes' = Pet!Router /\ \A x \in Pet!Router \ {Me} : pes'[x] = pes[x]
        /\ DOMAIN pes'[Me] = {}
    BY <1>1, <2>1 DEF PetTyped, Pet!NoPrefixes
  <2>3. ASSUME NEW K, NEW G PROVE (Coming(K, G) => Coming(K, G)') /\ (Arrived(K)' => Arrived(K))
    BY <2>1 DEF Coming, Arrived
  <2>4. EgressComes'
    BY <2>1, <2>3 DEF PetInv, EgressComes
  <2>5. HopsCome'
    BY <2>2 DEF HopsCome, HopsWanted
  <2>6. PetTyped'
    BY <1>1, <2>1, <2>2 DEF PetTyped
  <2>7. HandsEmpty' /\ PrefixesFollow'
    BY <1>1, <2>1, <2>2 DEF PetInv, HandsEmpty, PrefixesFollow
  <2> QED
    BY <2>4, <2>5, <2>6, <2>7 DEF PetInv
<1>5. CASE Pet!Reset
  <2> DEFINE reset == TRUE
             adds == {}
             removes == {}
             more == <<>>
  <2>1. /\ Mover("main") /\ Pet!Change("main", Me, reset, adds, removes, more)
        /\ pes' = [pes EXCEPT ![Me] = Pet!NoPrefixes]
    BY <1>1, <1>5 DEF Pet!Reset, Mover, HandsEmpty, Pet!nfdc, Pet!world, Pet!inserts
  <2>2. /\ DOMAIN pes' = Pet!Router /\ \A x \in Pet!Router \ {Me} : pes'[x] = pes[x]
        /\ DOMAIN pes'[Me] = {}
    BY <1>1, <2>1 DEF PetTyped, Pet!NoPrefixes
  <2>3. PesChange(Me, reset, adds, removes) /\ reset \in BOOLEAN /\ reset
        /\ adds \in SUBSET Prefix /\ removes \in SUBSET Prefix
    BY <2>2 DEF PesChange
  <2>4. HopsWanted' = {}
    BY <2>2 DEF HopsWanted
  <2>5. HopChange(more)
    BY <2>4 DEF HopChange, Free
  <2> HIDE DEF reset, adds, removes, more
  <2> QED
    BY <1>1, <2>1, <2>3, <2>5, ChangeKeeps
<1> QED
  BY <1>2, <1>3, <1>4, <1>5

LEMMA PetStep == PetInv /\ [FacesNext]_<<view, vars, tcpVars, petVars>> => PetInv'
<1>1. ASSUME PetInv, Pet!Next PROVE PetInv'
  BY <1>1, CommandsKeep, InsertionsKeep, PruneKeeps, PipelineKeeps, MgmtKeeps, PublishersKeep,
     OthersKeepPet
     DEF Pet!Next
<1>2. ASSUME PetInv, UNCHANGED petVars PROVE PetInv'
  <2>1. UNCHANGED <<pes, petPrefixes, overlap, pend, channel, cur, egress, hops, present, inserting, main>>
    BY <1>2 DEF petVars
  <2>2. inserting' \in [Inserter -> Pet!Insertion \cup {None}] /\ HandsEmpty'
    BY <1>2, <2>1 DEF PetInv, PetTyped, HandsEmpty
  <2> QED
    BY <1>2, <2>1, <2>2, QuietKeeps
<1> QED
  BY <1>1, <1>2 DEF FacesNext

\* The PET follows the prefix egress state, for any number of prefixes, faces and
\* goroutines and any size of the channel: petPrefixes names the prefixes of the
\* PES, and once all commands are through, the egress routers and next hops are
\* those the PES calls for (PrefixModule, nfdc).
THEOREM PetIsInstalled == FacesSpec => []PetFollowsPes
<1>1. FacesInit => PetInv
  <2> SUFFICES ASSUME Pet!Init PROVE PetInv
    BY DEF FacesInit
  <2> USE DEF Pet!Init
  <2>1. PetTyped /\ HandsEmpty
    BY DEF PetTyped, HandsEmpty, Pet!NoPrefixes, Pet!Thread
  <2>2. PrefixesFollow
    BY DEF PrefixesFollow, Pet!NoPrefixes, Pet!Router
  <2>3. ASSUME NEW K, NEW G, K \subseteq Pet!Command PROVE Coming(K, G)
    BY <2>3, PetAssumed DEF Coming, Free, Pet!PetSyncAssumption
  <2>4. EgressComes
    BY <2>3, CmdsAre DEF EgressComes
  <2>5. HopsCome
    BY DEF HopsCome, HopsWanted, Pet!NoPrefixes, Pet!Router
  <2> QED
    BY <2>1, <2>2, <2>4, <2>5 DEF PetInv
<1>2. ASSUME PetInv PROVE PetFollowsPes
  <2>1. PetTyped /\ Pet!Router = {Me, Other}
    BY <1>2 DEF PetInv, Pet!Router
  <2>2. main \notin {"new", "starting", "started"} =>
            petPrefixes = {rp \in Pet!Router \X Prefix : rp[2] \in DOMAIN pes[rp[1]]}
    BY <1>2, <2>1 DEF PetInv, PrefixesFollow, PetTyped
  <2>3. ASSUME Pet!AtRest, ~overlap
        PROVE  /\ egress \cap (Prefix \X Pet!Router) = {pr \in Prefix \X Pet!Router : pr[1] \in DOMAIN pes[pr[2]]}
               /\ HopsWanted \subseteq hops
    <3>1. main = "running"
      BY <2>3 DEF Pet!AtRest
    <3>2. ASSUME NEW K, K \subseteq Pet!Command PROVE Arrived(K)
      BY <2>3, <3>2, PetAssumed DEF Pet!AtRest, Arrived, Free, Pet!PetSyncAssumption
    <3>3. ASSUME NEW p \in Prefix, NEW r \in Pet!Router PROVE <<p, r>> \in egress <=> <<r, p>> \in petPrefixes
      BY <1>2, <2>3, <3>2, CmdsAre DEF PetInv, EgressComes
    <3>4. ASSUME NEW pf \in HopsWanted PROVE pf \in hops
      <4> PICK p \in Prefix, f \in present : pf = <<p, f>>
        BY DEF HopsWanted
      <4> QED
        BY <1>2, <2>1, <2>3, <3>2, CmdsAre DEF PetInv, HopsCome, PetTyped
    <3>5. egress \cap (Prefix \X Pet!Router) = {pr \in Prefix \X Pet!Router : pr[1] \in DOMAIN pes[pr[2]]}
      <4>1. ASSUME NEW p \in Prefix, NEW r \in Pet!Router
            PROVE  <<p, r>> \in egress <=> p \in DOMAIN pes[r]
        BY <1>2, <2>1, <3>1, <3>3 DEF PetInv, PrefixesFollow
      <4>2. ASSUME NEW pr \in Prefix \X Pet!Router PROVE pr \in egress <=> pr[1] \in DOMAIN pes[pr[2]]
        <5> PICK p \in Prefix, r \in Pet!Router : pr = <<p, r>>
          OBVIOUS
        <5> QED
          BY <4>1
      <4> QED
        BY <4>2
    <3> QED
      BY <3>4, <3>5
  <2> QED
    BY <2>2, <2>3 DEF PetFollowsPes, Pet!PetFollowsPes, HopsWanted
<1> QED
  BY <1>1, <1>2, PetStep, PTL DEF FacesSpec
=============================================================================
