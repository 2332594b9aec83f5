----------------------------- MODULE MCFwTables -----------------------------
(***************************************************************************)
(* The parts of the forwarder that work on their own, for TLC: FwTables on *)
(* the names /a, /a/x and /b, with routes that meet inheritance, capture   *)
(* and two costs; the other implementation of the FIB, FibHash, on names   *)
(* of up to three components over two; the messages that are read and      *)
(* written (Tlv); and the frames that carry their bytes (LpLink).  They    *)
(* share no state, and a behaviour is one of a single part.                *)
(***************************************************************************)
EXTENDS FwTables

CONSTANTS f1, f2, a, x, b

MCRibName == {<<a>>, <<a, x>>}
MCFibName == {<<b>>}

R(f, o, c, inherit, capture) ==
    [face |-> f, origin |-> o, cost |-> c, inherit |-> inherit, capture |-> capture]

MCRoutes ==
    {R(f1, "app", 1, TRUE, FALSE), R(f1, "app", 0, FALSE, FALSE),
     R(f2, "app", 0, TRUE, TRUE)}

CONSTANTS
    m, HashName, HashLookup, Strategy, Default, None,
    Extension, MaxVary,
    Mtu, PacketSize, Extra, RingSize, Fragmenting, Indicating, Lossy, MaxCopies, MaxPackets,
    MaxRestarts

VARIABLES
    part,       \* "tables", "hash", "message" or "frame"
    realTable, virtTable, virtTableNames, update, registered,
    msg, ignoreCritical, fields, input, pos, passed, handled, value, mark, covered, digested,
    status,
    mtu, fragmenting, indicating, overhead, updating, nextSequence, out, sent, net, ring,
    ringIndex, delivered, refused, copies, restarts, faults

\* Entries on both sides of m, and two below one virtual node.
MCName == {<<>>, <<a>>, <<a, b>>, <<a, b, a>>}

MCLookup == {<<a, b, a, b>>} \cup UNION {[1 .. k -> {a, b}] : k \in 0 .. 3}

Hash == INSTANCE FibHash WITH Name <- HashName, Lookup <- HashLookup
Codec == INSTANCE Tlv WITH sent <- fields
Link == INSTANCE LpLink

ASSUME HashAssumed == Hash!FibHashAssumption
ASSUME LinkAssumed == Link!LpLinkAssumption

hashVars == <<realTable, virtTable, virtTableNames, update, registered>>
codecVars == <<msg, ignoreCritical, fields, input, pos, passed, handled, value, mark, covered,
               digested, status>>
linkVars == <<mtu, fragmenting, indicating, overhead, updating, nextSequence, out, sent, net,
              ring, ringIndex, delivered, refused, copies, restarts, faults>>

\* Nothing to read, and a link of one kind.
NoMessage ==
    /\ msg = "none" /\ ignoreCritical = FALSE /\ fields = <<>> /\ input = <<>>
    /\ pos = 1 /\ passed = 0 /\ handled = {} /\ value = <<>> /\ mark = <<>>
    /\ covered = <<>> /\ digested = <<>> /\ status = "none"
OneLink == mtu = (CHOOSE n \in Mtu : TRUE) /\ fragmenting = TRUE /\ indicating = FALSE

PartsInit ==
    /\ part \in {"tables", "hash", "message", "frame"}
    /\ Init /\ Hash!Init
    /\ IF part = "message" THEN Codec!Init ELSE NoMessage
    /\ Link!Init /\ (part # "frame" => OneLink)

PartsNext ==
    \/ part = "tables" /\ Next /\ UNCHANGED <<part, hashVars, codecVars, linkVars>>
    \/ part = "hash" /\ Hash!Next /\ UNCHANGED <<part, vars, codecVars, linkVars>>
    \/ part = "message" /\ Codec!Next /\ UNCHANGED <<part, vars, hashVars, linkVars>>
    \/ part = "frame" /\ Link!Next /\ UNCHANGED <<part, vars, hashVars, codecVars>>

PartsSpec == PartsInit /\ [][PartsNext]_<<part, vars, hashVars, codecVars, linkVars>>

\* Hash!FindsLongest: the hash table finds the next hops and the strategy of
\* the longest prefix that has them.
FindsLongest == part = "hash" => Hash!FindsLongest

\* Codec!RoundTrip: a message is read as it was written, by a client or by
\* the forwarder, and its signature covers the same part for both.
RoundTrip == part = "message" => Codec!RoundTrip

\* Codec!ReadsWhatIsThere: a message with an element more, less, twice or
\* unreadable is refused or read exactly as its elements say.
ReadsWhatIsThere == part = "message" => Codec!ReadsWhatIsThere

\* Link!WholePacketsOnly: no fragment gets into another packet, however frames
\* are mixed, lost, repeated or evicted.
WholePacketsOnly == part = "frame" => Link!WholePacketsOnly

\* Link!NothingStuck: when all frames have come, every packet is delivered, and
\* the transport refuses none.
NothingStuck == part = "frame" => Link!NothingStuck
=============================================================================
