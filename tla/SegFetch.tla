------------------------------ MODULE SegFetch ------------------------------
(***************************************************************************)
(* How a client consumes objects (std/object/client_consume.go,            *)
(* client_consume_seg.go, expressr.go): the metadata of an object that is  *)
(* named without its version, and then its segments, those of all objects  *)
(* within one window of Interests.                                         *)
(*                                                                         *)
(* Data, Nacks and certificates come in on the engine's goroutine, each    *)
(* timeout on a goroutine of its own, and the application calls from its   *)
(* own too.  All of them look for more work in check.  That an Interest is *)
(* called back once, at any time, is what Engine says.                     *)
(***************************************************************************)
EXTENDS Integers, Sequences, FiniteSets, SequencesExt, FiniteSetsExt, BagsExt

CONSTANTS
    Loads,          \* what to consume: the segments of each object (size), those
                    \* named without their version (latest), whether their
                    \* certificates are at hand (cached), and maxRetries
    Window,         \* the fixed congestion window
    Timer,          \* goroutines of timeouts that may run at once
    MaxFaults       \* bound: Nacks, cancellations, Interests that cannot be sent, bad Data

SegFetchAssumption ==
    /\ \A l \in Loads : {l.maxRetries} \cup {l.size[s] : s \in DOMAIN l.size} \subseteq Nat \ {0}
    /\ \A l \in Loads : l.latest \subseteq DOMAIN l.size /\ l.cached \in BOOLEAN
    /\ Window \in Nat \ {0} /\ MaxFaults \in Nat

VARIABLES
    load,           \* the objects to consume
    phase,          \* of each stream: "new", "meta" or "added"
    tries,          \* retries left for the metadata
    streams, rrIndex, outstanding, retxQueue, txCounter,
    segCnt, pending, fetching, content,     \* of each ConsumeState
    result,         \* "none", or how the stream was completed
    flight,         \* a bag: the Interests not called back
    validating,     \* Data whose certificate is being fetched
    pc,             \* where each goroutine is
    faults,
    excuse          \* what has happened that FetchEnds allows for

vars == <<load, phase, tries, streams, rrIndex, outstanding, retxQueue, txCounter, segCnt,
          pending, fetching, content, result, flight, validating, pc, faults, excuse>>

queueVars == <<streams, rrIndex, retxQueue>>
streamVars == <<txCounter, segCnt, pending, fetching, content>>

\* The calls of Consume.
Stream == UNION {DOMAIN l.size : l \in Loads}
size == load.size
MaxRetries == load.maxRetries
cached == load.cached

Goroutine == Timer \cup {"engine", "app"}
Idle == [at |-> "idle"]
Checking == [at |-> "check"]
Sending(s, seg, retries, new) ==
    [at |-> "express", stream |-> s, seg |-> seg, retries |-> retries, new |-> new]
Unknown == -1

At(g, where) == pc' = [pc EXCEPT ![g] = where]
IsComplete(s) == result[s] # "none"

Init ==
    /\ load \in Loads
    /\ phase = [s \in Stream |-> "new"] /\ tries = [s \in Stream |-> MaxRetries]
    /\ streams = <<>> /\ rrIndex = 0 /\ outstanding = 0 /\ retxQueue = <<>>
    /\ txCounter = [s \in Stream |-> 0]
    /\ segCnt = [s \in Stream |-> Unknown]
    /\ pending = [s \in Stream |-> 0] /\ fetching = [s \in Stream |-> 0]
    /\ content = [s \in Stream |-> {}]
    /\ result = [s \in Stream |-> "none"]
    /\ flight = EmptyBag /\ validating = {}
    /\ pc = [g \in Goroutine |-> Idle]
    /\ faults = 0 /\ excuse = {}

Fault(excuses) ==
    /\ faults < MaxFaults /\ faults' = faults + 1
    /\ excuse' = excuse \cup excuses

NoFault == UNCHANGED <<faults, excuse>>

\* complete.Swap(true), and the callback if it was not complete.
Completed(s, how) == [result EXCEPT ![s] = IF @ = "none" THEN how ELSE @]

-----------------------------------------------------------------------------
(* The application, and the metadata. *)

\* rrSegFetcher.add, which ends in check.
Add(g, s) ==
    /\ pc[g] = Idle
    /\ phase' = [phase EXCEPT ![s] = "added"]
    /\ streams' = Append(streams, s)
    /\ At(g, Checking)
    /\ UNCHANGED <<load, tries, rrIndex, outstanding, retxQueue, streamVars, result,
                   flight, validating>>

\* ConsumeExt, of a name with its version.
Consume(s) ==
    /\ s \in DOMAIN size \ load.latest /\ phase[s] = "new"
    /\ Add("app", s) /\ NoFault

\* Of a name without: ExpressR for the metadata.
ConsumeLatest(s) ==
    /\ s \in load.latest /\ phase[s] = "new"
    /\ phase' = [phase EXCEPT ![s] = "meta"]
    /\ UNCHANGED <<load, tries, streams, rrIndex, outstanding, retxQueue, streamVars,
                   result, flight, validating, pc, faults, excuse>>

\* Consumed also by a stream that is complete.
MetaData(s) ==
    /\ phase[s] = "meta"
    /\ Add("engine", s) /\ NoFault

MetaEnds(s, how) ==
    /\ result' = Completed(s, how)
    /\ UNCHANGED <<load, streams, rrIndex, outstanding, retxQueue, streamVars, flight,
                   validating, pc>>

MetaTimeout(s) ==
    /\ phase[s] = "meta" /\ NoFault
    /\ IF tries[s] = 0
       THEN MetaEnds(s, "error") /\ phase' = [phase EXCEPT ![s] = "failed"] /\ UNCHANGED tries
       ELSE tries' = [tries EXCEPT ![s] = @ - 1]
            /\ UNCHANGED <<load, phase, streams, rrIndex, outstanding, retxQueue,
                           streamVars, result, flight, validating, pc>>

\* A Nack, metadata that is not valid, or an Interest that cannot be sent: this
\* one stays in the PIT, and its result comes after the error.
MetaError(s, sent) ==
    /\ phase[s] = "meta" /\ Fault({})
    /\ MetaEnds(s, "error")
    /\ phase' = [phase EXCEPT ![s] = IF sent THEN "failed" ELSE @]
    /\ UNCHANGED tries

\* Cancel calls nobody back.
Cancel(s) ==
    /\ phase[s] # "new" /\ ~IsComplete(s) /\ Fault({"cancel"})
    /\ result' = [result EXCEPT ![s] = "cancelled"]
    /\ UNCHANGED <<load, phase, tries, queueVars, outstanding, streamVars, flight,
                   validating, pc>>

-----------------------------------------------------------------------------
(* check, by any goroutine: the window is looked at, the next segment taken,
   its Interest expressed and then counted, each under a lock of its own and
   the numbering of segments under none. *)

Congested == outstanding >= Window

Check(g) ==
    /\ pc[g] = Checking
    /\ At(g, IF Congested THEN Idle ELSE [at |-> "pick"])
    /\ UNCHANGED <<load, phase, tries, queueVars, outstanding, streamVars, result, flight,
                   validating, faults, excuse>>

\* What findWork makes of the streams: the first one, from the one after
\* rrIndex, that has something to ask for; complete ones are removed on the way.
HasWork(s) ==
    /\ segCnt[s] = Unknown => pending[s] = 0
    /\ segCnt[s] > 0 => pending[s] < segCnt[s]

\* The streams in the order in which they are looked at, from 0.
Turns == 0 .. Len(streams) - 1
Turn(i) == streams[((rrIndex + 1 + i) % Len(streams)) + 1]
Stays == {i \in Turns : ~IsComplete(Turn(i))}
Works == {i \in Stays : HasWork(Turn(i))}

\* The last one looked at that stays, and the streams after the removal of
\* those that are complete and were looked at.
Stop == IF Works = {} THEN Max(Stays) ELSE Min(Works)
Left == SelectSeq(streams, LAMBDA s : s \notin {Turn(i) : i \in
                               {j \in Turns \ Stays : Works = {} \/ j < Stop}})

Retransmit(g) ==
    /\ retxQueue # <<>>
    /\ LET e == Head(retxQueue) IN At(g, Sending(e[1], e[2], e[3], FALSE))
    /\ retxQueue' = Tail(retxQueue)
    /\ UNCHANGED <<streams, rrIndex>>

FindWork(g) ==
    /\ retxQueue = <<>>
    /\ streams' = Left
    /\ rrIndex' = CASE streams = <<>> -> rrIndex
                    [] streams # <<>> /\ Stays = {} -> 0
                    [] OTHER -> (CHOOSE i \in DOMAIN Left : Left[i] = Turn(Stop)) - 1
    /\ At(g, IF Works = {} THEN Idle
             ELSE Sending(Turn(Stop), pending[Turn(Stop)], MaxRetries, TRUE))
    /\ UNCHANGED retxQueue

Pick(g) ==
    /\ pc[g].at = "pick"
    /\ Retransmit(g) \/ FindWork(g)
    /\ UNCHANGED <<load, phase, tries, outstanding, streamVars, result, flight, validating,
                   faults, excuse>>

\* For a new segment, seg := Pending; Pending++ without a lock: another goroutine
\* at it may have asked for the same segment, and what it wrote be overwritten.
Numbered(g, seg) ==
    LET s == pc[g].stream
    IN  IF pc[g].new
        THEN \E p \in {seg, pending[s]} : pending' = [pending EXCEPT ![s] = p + 1]
        ELSE UNCHANGED pending

Numbers(g) == {pc[g].seg} \cup IF pc[g].new THEN {pending[pc[g].stream]} ELSE {}
Race(g) == IF Cardinality(Numbers(g)) > 1 THEN {"race"} ELSE {}

Sent(g, seg) ==
    /\ Numbered(g, seg)
    /\ flight' = flight (+) SetToBag({<<pc[g].stream, seg, pc[g].retries>>})
    /\ UNCHANGED <<load, phase, tries, queueVars, txCounter, segCnt, fetching, content,
                   validating>>

Express(g) ==
    /\ pc[g].at = "express"
    /\ \E seg \in Numbers(g) : Sent(g, seg)
    /\ excuse' = excuse \cup Race(g)
    /\ At(g, [at |-> "count"])
    /\ UNCHANGED <<outstanding, result, faults>>

\* The Interest cannot be sent: an error, discounted though it was not counted,
\* and the Interest is in the PIT all the same.
ExpressFails(g) ==
    /\ pc[g].at = "express" /\ Fault(Race(g))
    /\ \E seg \in Numbers(g) : Sent(g, seg)
    /\ outstanding' = outstanding - 1
    /\ result' = Completed(pc[g].stream, "error")
    /\ At(g, IF IsComplete(pc[g].stream) THEN Idle ELSE Checking)

Count(g) ==
    /\ pc[g].at = "count"
    /\ outstanding' = outstanding + 1
    /\ At(g, Checking)
    /\ UNCHANGED <<load, phase, tries, queueVars, streamVars, result, flight, validating,
                   faults, excuse>>

-----------------------------------------------------------------------------
(* handleResult. *)

\* The callback for the Interest e on goroutine g.  Nothing is done, and no
\* work looked for, when the stream is complete.
Called(g, e) ==
    /\ pc[g] = Idle /\ e \in DOMAIN flight
    /\ flight' = flight (-) SetToBag({e})
    /\ outstanding' = outstanding - 1
    /\ At(g, IF IsComplete(e[1]) THEN Idle ELSE Checking)
    /\ UNCHANGED <<load, phase, tries, streams, rrIndex>>

\* Faulty variant: the last retry is not reported.
RetryOrFailSilent(e) ==
    /\ retxQueue' = IF IsComplete(e[1]) \/ e[3] = 1 THEN retxQueue
                    ELSE Append(retxQueue, <<e[1], e[2], e[3] - 1>>)
    /\ UNCHANGED result

\* enqueueForRetransmission.
RetryOrFail(e) ==
    /\ retxQueue' = IF IsComplete(e[1]) \/ e[3] = 1 THEN retxQueue
                    ELSE Append(retxQueue, <<e[1], e[2], e[3] - 1>>)
    /\ result' = IF e[3] = 1 THEN Completed(e[1], "error") ELSE result

Timeout(g, e) ==
    /\ g \in Timer
    /\ Called(g, e) /\ RetryOrFail(e) /\ NoFault
    /\ UNCHANGED <<streamVars, validating>>

Nack(e, reason) ==
    /\ Called("engine", e)
    /\ CASE reason = "duplicate"  -> Fault({"duplicate"}) /\ UNCHANGED <<retxQueue, result>>
         [] reason = "congestion" -> Fault({}) /\ RetryOrFail(e)
         [] OTHER -> Fault({}) /\ result' = Completed(e[1], "error") /\ UNCHANGED retxQueue
    /\ UNCHANGED <<streamVars, validating>>

\* handleValidatedData: Data of segment n of s.
Fetched(s, n, have) == Min({m \in 0 .. size[s] : m \notin have})

handleValidatedData(s, n) ==
    LET left == (IF segCnt[s] = Unknown THEN size[s] ELSE txCounter[s]) - 1
        have == content[s] \cup {n}
        next == IF fetching[s] = n THEN Fetched(s, n, have) ELSE fetching[s]
        all  == fetching[s] = n /\ next = size[s] /\ left = 0
    IN  /\ segCnt' = [segCnt EXCEPT ![s] = size[s]]
        /\ txCounter' = [txCounter EXCEPT ![s] = IF all THEN 0 ELSE left]
        /\ content' = [content EXCEPT ![s] = have]
        /\ fetching' = [fetching EXCEPT ![s] = next]
        /\ streams' = IF all THEN SelectSeq(streams, LAMBDA t : t # s) ELSE streams
        /\ result' = IF all THEN Completed(s, "ok") ELSE result
        /\ UNCHANGED pending

\* The signature is not valid, or the FinalBlockId is not one of an object: the
\* stream ends with an error.  (A FinalBlockId beyond maxObjectSeg also leaves
\* its number in segCnt and txCounter; the objects here have none such.)
NotValid(s) ==
    /\ result' = Completed(s, "error")
    /\ UNCHANGED <<streams, streamVars>>

\* Data of a segment that there is.
Data(e, valid) ==
    /\ e[2] < size[e[1]]
    /\ pc["engine"] = Idle /\ e \in DOMAIN flight
    /\ flight' = flight (-) SetToBag({e})
    /\ outstanding' = outstanding - 1
    /\ At("engine", IF IsComplete(e[1]) THEN Idle ELSE Checking)
    /\ CASE IsComplete(e[1]) -> UNCHANGED <<streams, streamVars, result, validating>> /\ NoFault
         [] ~IsComplete(e[1]) /\ ~cached ->
                validating' = validating \cup {<<e[1], e[2]>>}
                /\ UNCHANGED <<streams, streamVars, result>> /\ NoFault
         [] OTHER -> /\ IF valid THEN handleValidatedData(e[1], e[2]) /\ NoFault
                        ELSE NotValid(e[1]) /\ Fault({})
                     /\ UNCHANGED validating
    /\ UNCHANGED <<load, phase, tries, rrIndex, retxQueue>>

\* The certificate is there, or is not to be had.  Nobody calls check.
Certificate(s, n, valid) ==
    /\ <<s, n>> \in validating /\ pc["engine"] = Idle
    /\ validating' = validating \ {<<s, n>>}
    /\ IF valid THEN handleValidatedData(s, n) /\ NoFault ELSE NotValid(s) /\ Fault({})
    /\ UNCHANGED <<load, phase, tries, rrIndex, retxQueue, outstanding, flight, pc>>

-----------------------------------------------------------------------------
Goes(g) == Check(g) \/ Pick(g) \/ Express(g) \/ Count(g)

Answered(e) == \E valid \in BOOLEAN : Data(e, valid)

Next ==
    \/ \E s \in Stream :
        \/ Consume(s) \/ ConsumeLatest(s) \/ MetaData(s) \/ MetaTimeout(s) \/ Cancel(s)
        \/ \E sent \in BOOLEAN : MetaError(s, sent)
    \/ \E g \in Goroutine : Goes(g) \/ ExpressFails(g)
    \/ \E e \in DOMAIN flight :
        \/ \E g \in Timer : Timeout(g, e)
        \/ \E reason \in {"duplicate", "congestion", "other"} : Nack(e, reason)
        \/ Answered(e)
    \/ \E x \in validating, valid \in BOOLEAN : Certificate(x[1], x[2], valid)

\* Goroutines go on, Interests end, the metadata is found or not, and so are
\* certificates.
Fairness ==
    /\ \A g \in Goroutine : WF_vars(Goes(g))
    /\ WF_vars(\E e \in DOMAIN flight : (\E g \in Timer : Timeout(g, e)) \/ Answered(e))
    /\ \A s \in Stream : WF_vars(MetaData(s) \/ MetaTimeout(s))
    /\ WF_vars(\E x \in validating, valid \in BOOLEAN : Certificate(x[1], x[2], valid))

Spec == Init /\ [][Next]_vars /\ Fairness

-----------------------------------------------------------------------------
(* Properties. *)

\* A stream that is completed without an error has all its segments.
WholeObjects == \A s \in Stream : result[s] = "ok" => content[s] = 0 .. size[s] - 1

\* "Callback is called when data is available" (ConsumeExtArgs): every stream
\* ends, with the object or with an error.
FetchEnds == \A s \in Stream : phase[s] # "new" ~> IsComplete(s)

\* What is fetched is whole, and every stream ends, as long as Data is validated
\* at once, nothing is cancelled, no Nack says "duplicate" and no two goroutines
\* number a segment together: timeouts, other Nacks and Interests that cannot be
\* sent neither lose a segment nor fill the window for good.
FetchesWhole ==
    /\ []WholeObjects
    /\ \A s \in Stream : phase[s] # "new" ~> IsComplete(s) \/ ~cached \/ excuse # {}
=============================================================================
