------------------------------- MODULE LpLink -------------------------------
(***************************************************************************)
(* Two NDNLP link services and the datagrams between them:                 *)
(* fw/face/ndnlp-link-service.go over fw/face/unicast-udp-transport.go.    *)
(*                                                                         *)
(* The sender cuts a packet that is larger than what a frame can carry     *)
(* into fragments with consecutive sequence numbers.  The receiver         *)
(* collects them in a ring of buffers, over a network that loses,          *)
(* duplicates and reorders frames.  Lengths are in bytes, as the encoder   *)
(* computes them; a fragment's content is its packet and its place in it.  *)
(***************************************************************************)
EXTENDS Naturals, Sequences, FiniteSets, FiniteSetsExt, SequencesExt

CONSTANTS
    Mtu,            \* the MTUs management sets
    PacketSize,     \* lengths of packets
    Extra,          \* lengths of the EgressRouter and BIER fields, 0 for neither
    RingSize,       \* len(l.reassemblyBuffers), 16 in the code
    Fragmenting,    \* the values of IsFragmentationEnabled
    Indicating,     \* the values IsIncomingFaceIndicationEnabled takes
    Lossy,          \* the network loses frames
    MaxCopies,      \* bound: frames that come twice
    MaxPackets,     \* bound: packets sent
    MaxRestarts     \* bound: times the sender starts again

lpPacketOverhead == 1 + 3 + 1 + 3
fragmentOverhead == (1 + 1 + 8) + (1 + 1 + 2) + (1 + 1 + 2)
incomingFaceOverhead == 3 + 1 + 8
pitTokenOverhead == 1 + 1 + 6
congestionMarkOverhead == 3 + 1 + 8

MaxNDNPacketSize == 8800

\* The largest number of two bytes; of four, it is TwoBytes * (TwoBytes + 2).
TwoBytes == 65535

\* Management keeps an MTU to MaxNDNPacketSize, but does not check that it
\* leaves room for a fragment: with less than this sendPacket divides by zero.
\* computeHeaderOverhead leaves two bytes for a fragment's index, and nothing
\* checks that a packet has no more than 2^16 fragments.
LpLinkAssumption ==
    /\ Mtu \subseteq Nat
    /\ \A m \in Mtu : m > lpPacketOverhead + fragmentOverhead + incomingFaceOverhead
                            + pitTokenOverhead + congestionMarkOverhead
    /\ \A n \in Mtu : n <= MaxNDNPacketSize
    /\ PacketSize \subseteq Nat \ {0} /\ \A n \in PacketSize : n <= TwoBytes
    /\ Extra \subseteq Nat
    /\ RingSize \in Nat \ {0}
    /\ Fragmenting \subseteq BOOLEAN /\ Indicating \subseteq BOOLEAN
    /\ Lossy \in BOOLEAN
    /\ MaxCopies \in Nat /\ MaxPackets \in Nat /\ MaxRestarts \in Nat

VARIABLES
    mtu,            \* the transport's MTU
    fragmenting,    \* l.options.IsFragmentationEnabled
    indicating,     \* l.options.IsIncomingFaceIndicationEnabled
    overhead,       \* l.headerOverhead
    updating,       \* where management is in an update of the face: "no",
                    \* "options" to set, "overhead" to compute
    nextSequence,
    out,            \* the fragments sendPacket has still to send
    sent,           \* the number of fragments of each packet so far
    net,            \* the frames in the network
    ring,           \* l.reassemblyBuffers of the receiver
    ringIndex,      \* l.reassemblyIndex
    delivered,      \* the packets handed to the receiver's pipeline
    refused,        \* the Extra of the frames sendFrame was given that are
                    \* larger than the MTU
    copies, restarts,   \* how many there have been
    faults          \* what has happened: "lost", "duplicated", "evicted",
                    \* "restarted", "changed" (options, within a packet)

vars == <<mtu, fragmenting, indicating, overhead, updating, nextSequence, out, sent, net,
          ring, ringIndex, delivered, refused, copies, restarts, faults>>

\* What make(enc.Wire, n) holds in place of a fragment.
Missing == [of |-> 0, idx |-> 0]
Free == [seq |-> 0, buffer |-> <<>>]
Slot == 0 .. RingSize - 1

\* What computeHeaderOverhead comes to.
headerOverhead ==
    lpPacketOverhead + (IF fragmenting THEN fragmentOverhead ELSE 0)
                     + (IF indicating THEN incomingFaceOverhead ELSE 0)

Init ==
    /\ mtu \in Mtu /\ fragmenting \in Fragmenting /\ indicating \in Indicating
    /\ overhead = headerOverhead /\ updating = "no"
    /\ nextSequence = 0 /\ out = <<>> /\ sent = <<>>
    /\ net = {}
    /\ ring = [s \in Slot |-> Free] /\ ringIndex = 0
    /\ delivered = <<>>
    /\ refused = {} /\ copies = 0 /\ restarts = 0 /\ faults = {}

-----------------------------------------------------------------------------
(* Sending. *)

\* What of a packet fits into a frame, with a PIT token and a congestion mark.
effectiveMtu(token, mark) ==
    mtu - overhead - (IF token THEN pitTokenOverhead ELSE 0)
                   - (IF mark THEN congestionMarkOverhead ELSE 0)

\* The length of a length field, and of a number.
TLNum(n) ==
    IF n <= 252 THEN 1 ELSE IF n <= TwoBytes THEN 3
    ELSE IF n <= TwoBytes * (TwoBytes + 2) THEN 5 ELSE 9
NatLength(n) ==
    IF n <= 255 THEN 1 ELSE IF n <= TwoBytes THEN 2
    ELSE IF n <= TwoBytes * (TwoBytes + 2) THEN 4 ELSE 8

\* The length of the fields of a fragment's frame that sendPacket knows when
\* it cuts the packet: all but the incoming face.
FieldsLength(bytes, cut, idx, count, token, mark, extra) ==
    (IF cut THEN (1 + 1 + 8) + (1 + 1 + NatLength(idx)) + (1 + 1 + NatLength(count)) ELSE 0)
    + (IF token THEN pitTokenOverhead ELSE 0)
    + (IF mark THEN 3 + 1 + 1 ELSE 0)
    + extra
    + 1 + TLNum(bytes) + bytes

SequenceFromZero(i) == nextSequence + i

\* The sequence number of the fragment with index i.
SequenceOf(i) == nextSequence + i + 1

\* sendPacket reads l.headerOverhead while management computes it anew, and
\* may find less than the fields will need.
Sized == faults' = IF overhead < headerOverhead THEN faults \cup {"changed"} ELSE faults

\* sendPacket cuts a packet of so many bytes.  checkCongestion decides on a
\* mark, by the length of the transport's queue.
Fragment(bytes, token, mark, extra) ==
    /\ out = <<>> /\ Len(sent) < MaxPackets
    /\ bytes > effectiveMtu(token, mark) /\ fragmenting
    /\ LET fit == effectiveMtu(token, mark)
           count == (bytes + fit - 1) \div fit
           size(i) == IF i = count - 1 THEN bytes - fit * (count - 1) ELSE fit
       IN  /\ out' = [k \in 1 .. count |->
                         [seq |-> SequenceOf(k - 1), count |-> count,
                          part |-> [of |-> Len(sent) + 1, idx |-> k - 1],
                          length |-> FieldsLength(size(k - 1), TRUE, k - 1, count, token, mark, extra),
                          extra |-> extra]]
           /\ nextSequence' = nextSequence + count
           /\ sent' = Append(sent, count)
    /\ Sized
    /\ UNCHANGED <<mtu, fragmenting, indicating, overhead, updating, net, ring, ringIndex,
                   delivered, refused, copies, restarts>>

\* A packet that fits goes into one frame, without a sequence number.
SendWhole(bytes, token, mark, extra) ==
    /\ out = <<>> /\ Len(sent) < MaxPackets
    /\ bytes <= effectiveMtu(token, mark)
    /\ out' = << [seq |-> 0, count |-> 1, part |-> [of |-> Len(sent) + 1, idx |-> 0],
                  length |-> FieldsLength(bytes, FALSE, 0, 1, token, mark, extra), extra |-> extra] >>
    /\ sent' = Append(sent, 1)
    /\ Sized
    /\ UNCHANGED <<mtu, fragmenting, indicating, overhead, updating, nextSequence, net, ring,
                   ringIndex, delivered, refused, copies, restarts>>

\* "Attempted to send frame over MTU on link without fragmentation - DROP".
DropLarge(bytes, token, mark) ==
    /\ out = <<>> /\ Len(sent) < MaxPackets
    /\ bytes > effectiveMtu(token, mark) /\ ~fragmenting
    /\ sent' = Append(sent, 1) /\ faults' = faults \cup {"lost"}
    /\ UNCHANGED <<mtu, fragmenting, indicating, overhead, updating, nextSequence, out, net,
                   ring, ringIndex, delivered, refused, copies, restarts>>

\* The loop over the fragments adds the incoming face and encodes; the
\* transport refuses a frame that is larger than its MTU.
FrameLength(f) ==
    LET fields == f.length + (IF indicating THEN incomingFaceOverhead ELSE 0)
    IN  1 + TLNum(fields) + fields

SendFrame ==
    /\ out # <<>>
    /\ out' = Tail(out)
    /\ LET f == Head(out)
           fits == FrameLength(f) <= mtu
       IN  /\ net' = IF fits THEN net \cup {[seq |-> f.seq, count |-> f.count, part |-> f.part]} ELSE net
           /\ refused' = IF fits THEN refused ELSE refused \cup {f.extra}
           /\ faults' = IF fits THEN faults ELSE faults \cup {"lost"}
    /\ UNCHANGED <<mtu, fragmenting, indicating, overhead, updating, nextSequence, sent, ring,
                   ringIndex, delivered, copies, restarts>>

\* Management updates the face, which may be in the middle of a packet: the
\* MTU if the command has one, then the options, and with them the overhead.
Changed == faults' = IF out = <<>> THEN faults ELSE faults \cup {"changed"}

SetMTU(m) ==
    /\ updating = "no" /\ m # mtu
    /\ mtu' = m
    /\ updating' = "options"
    /\ Changed
    /\ UNCHANGED <<fragmenting, indicating, overhead, nextSequence, out, sent, net, ring,
                   ringIndex, delivered, refused, copies, restarts>>

SetOptions(b) ==
    /\ updating \in {"no", "options"}
    /\ indicating' = b
    /\ updating' = "overhead"
    /\ IF b = indicating THEN faults' = faults ELSE Changed
    /\ UNCHANGED <<mtu, fragmenting, overhead, nextSequence, out, sent, net, ring, ringIndex,
                   delivered, refused, copies, restarts>>

\* The sums computeHeaderOverhead assigns to l.headerOverhead on its way.
OverheadSums ==
    {lpPacketOverhead, headerOverhead}
        \cup (IF fragmenting THEN {lpPacketOverhead + (1 + 1 + 8),
                                  lpPacketOverhead + (1 + 1 + 8) + (1 + 1 + 2),
                                  lpPacketOverhead + fragmentOverhead} ELSE {})

computeHeaderOverhead(sum) ==
    /\ updating = "overhead"
    /\ sum = lpPacketOverhead \/ sum > overhead
    /\ overhead' = sum
    /\ updating' = IF sum = headerOverhead THEN "no" ELSE "overhead"
    /\ UNCHANGED <<mtu, fragmenting, indicating, nextSequence, out, sent, net, ring, ringIndex,
                   delivered, refused, copies, restarts, faults>>

\* The sending forwarder starts again: a new link service, for the receiver
\* the same face.
Restart ==
    /\ restarts < MaxRestarts
    /\ restarts' = restarts + 1
    /\ overhead' = headerOverhead /\ updating' = "no"
    /\ nextSequence' = 0 /\ out' = <<>>
    /\ faults' = faults \cup {"restarted", "lost"}
    /\ UNCHANGED <<mtu, fragmenting, indicating, sent, net, ring, ringIndex, delivered,
                   refused, copies>>

-----------------------------------------------------------------------------
(* Receiving. *)

baseSequence(f) == f.seq - f.part.idx

\* The buffer of a sequence number, if there is one.
Matches(base) == {s \in Slot : ring[s].seq = base}
Found(base) == Matches(base) # {} /\ ring[Min(Matches(base))].buffer # <<>>

bufIndex(base) ==
    IF Found(base) THEN Min(Matches(base)) ELSE (ringIndex + 1) % RingSize

OpenedAsLeft(f) ==
    IF Found(baseSequence(f)) THEN ring
    ELSE [ring EXCEPT ![bufIndex(baseSequence(f))] =
             [seq |-> baseSequence(f),
              buffer |-> IF @.buffer = <<>> THEN [k \in 1 .. f.count |-> Missing] ELSE @.buffer]]

\* The ring with a buffer for the fragment.
Opened(f) ==
    IF Found(baseSequence(f)) THEN ring
    ELSE [ring EXCEPT ![bufIndex(baseSequence(f))] =
             [seq |-> baseSequence(f), buffer |-> [k \in 1 .. f.count |-> Missing]]]

\* "Check if all fragments have been received".
Complete(buffer) == \A k \in 1 .. Len(buffer) : buffer[k] # Missing

\* "All fragments received, free up buffer".
Freed(slot) == Free

\* The first fragment of a packet alone is its content: no reassembly.
ReceiveWhole(f) ==
    /\ f.count = 1
    /\ delivered' = Append(delivered, <<f.part>>)
    /\ UNCHANGED <<ring, ringIndex>>

\* reassemble.
Reassemble(f) ==
    LET base == baseSequence(f)
        s == bufIndex(base)
        opened == Opened(f)
        valid == f.count = Len(opened[s].buffer) /\ f.part.idx < f.count
        buffer == IF valid THEN [opened[s].buffer EXCEPT ![f.part.idx + 1] = f.part]
                  ELSE opened[s].buffer
        complete == valid /\ Complete(buffer)
    IN  /\ f.count > 1
        /\ ringIndex' = IF Found(base) THEN ringIndex ELSE s
        /\ ring' = [opened EXCEPT ![s] = IF complete THEN Freed(@) ELSE [@ EXCEPT !.buffer = buffer]]
        /\ delivered' = IF complete THEN Append(delivered, buffer) ELSE delivered

\* Reassembly takes a buffer that another packet is still in.
Evicts(f) ==
    /\ f.count > 1
    /\ ~Found(baseSequence(f))
    /\ ring[bufIndex(baseSequence(f))] # Free

\* The network brings a frame, and may keep a copy of it.
handleIncomingFrame(f, copy) ==
    /\ ReceiveWhole(f) \/ Reassemble(f)
    /\ net' = IF copy THEN net ELSE net \ {f}
    /\ copies' = IF copy THEN copies + 1 ELSE copies
    /\ faults' = faults \cup (IF copy THEN {"duplicated"} ELSE {})
                        \cup (IF Evicts(f) THEN {"evicted"} ELSE {})
    /\ UNCHANGED <<mtu, fragmenting, indicating, overhead, updating, nextSequence, out, sent,
                   refused, restarts>>

Lose(f) ==
    /\ net' = net \ {f}
    /\ faults' = faults \cup {"lost"}
    /\ UNCHANGED <<mtu, fragmenting, indicating, overhead, updating, nextSequence, out, sent, ring,
                   ringIndex, delivered, refused, copies, restarts>>

Next ==
    \/ \E bytes \in PacketSize, token, mark \in BOOLEAN :
           \/ \E extra \in Extra : Fragment(bytes, token, mark, extra) \/ SendWhole(bytes, token, mark, extra)
           \/ DropLarge(bytes, token, mark)
    \/ SendFrame
    \/ \E m \in Mtu : SetMTU(m)
    \/ \E b \in Indicating : SetOptions(b)
    \/ \E sum \in OverheadSums : computeHeaderOverhead(sum)
    \/ Restart
    \/ \E f \in net : \/ handleIncomingFrame(f, FALSE)
                      \/ copies < MaxCopies /\ handleIncomingFrame(f, TRUE)
                      \/ Lossy /\ Lose(f)

Spec == Init /\ [][Next]_vars

-----------------------------------------------------------------------------
(* Properties. *)

\* A packet's fragments in order.
Whole(p) == [k \in 1 .. sent[p] |-> [of |-> p, idx |-> k - 1]]

\* What reassemble returns is a packet that was sent, whole: however the
\* frames of several packets are mixed, lost, repeated or evicted, no fragment
\* gets into another packet.  A sender that restarts uses the numbers again,
\* and fragments of its two runs may then meet in a buffer: but only those of
\* packets cut into as many, and each at its own place.
WholePacketsOnly ==
    \A d \in Range(delivered) :
        /\ "restarted" \notin faults => \E p \in 1 .. Len(sent) : d = Whole(p)
        /\ \A k \in 1 .. Len(d) : /\ d[k].idx = k - 1
                                 /\ sent[d[k].of] = Len(d)

\* When all frames have come and none was lost or evicted, every packet has
\* been delivered; exactly once if no frame came twice.  And the transport
\* loses none by refusing it: the effective MTU accounts for every field but
\* EgressRouter and BIER, unless the MTU or the options change in a packet
\* or it is cut while management computes the overhead.
NothingStuck ==
    /\ out = <<>> /\ net = {} /\ faults \subseteq {"duplicated", "changed"} =>
           /\ \A p \in 1 .. Len(sent) : Whole(p) \in Range(delivered)
           /\ "duplicated" \notin faults => Len(delivered) = Len(sent)
    /\ 0 \in refused => "changed" \in faults
=============================================================================
