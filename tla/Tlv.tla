-------------------------------- MODULE Tlv ---------------------------------
(***************************************************************************)
(* Encoding and parsing of one message: the code that the generator of     *)
(* std/encoding/codegen puts around the tables of TlvNdn and TlvApps, and  *)
(* what std/ndn/spec_2022/spec.go adds for packets.                        *)
(*                                                                         *)
(* An element is its type number and, for its content, a number that says  *)
(* which occurrence of the field it is; 0 is a content that the parser of  *)
(* the name or message inside it refuses.  What is inside has a table of   *)
(* its own, and lengths are left out: every element fits its message.      *)
(*                                                                         *)
(* The parser takes one element a step.  Its input is what an encoder made *)
(* of a value, or that with one change.                                    *)
(***************************************************************************)
EXTENDS TlvApps, SequencesExt

CONSTANTS
    Extension,      \* type numbers that no table has
    MaxVary         \* how many fields differ from none or from all of them

VARIABLES
    msg,            \* the message
    ignoreCritical, \* an argument of the parser
    sent,           \* how often each field occurs in the value encoded
    input,          \* the elements
    pos,            \* the element the parser has come to
    passed,         \* rows it is past: progress + 1, of messages in order
    handled,        \* the rows whose handled_ flag is set
    value,          \* the contents it has read for each field
    mark,           \* the places it has noted
    covered,        \* the elements the signature covers
    digested,       \* the elements the digest in the name covers
    status          \* "parsing", "done" or "failed"

vars == <<msg, ignoreCritical, sent, input, pos, passed, handled, value, mark,
          covered, digested, status>>
given == <<msg, ignoreCritical, sent, input>>

\* A packet written by a client and read by the forwarder, or the reverse.
CrossMessage ==
    [ClientInterest |-> Msg(InterestEncoder, FwInterestParse),
     ClientData |-> Msg(DataEncoder, FwDataParse),
     ClientMetaInfo |-> Msg(MetaInfoEncoder, FwMetaInfoParse),
     ClientLp |-> Msg(LpPacketEncoder, FwLpPacketParse),
     ForwarderLp |-> Msg(FwLpPacketEncoder, LpPacketParse)]

Message == NdnMessage @@ AppMessage @@ CrossMessage

Element(t, k) == [typ |-> t, k |-> k]
Nested == {"sub", "subs", "iname"}
Repeated == {"many", "subs", "pairs"}

Types(table) == {table[i].typ : i \in DOMAIN table} \ {0}
RowOf(table, t) == CHOOSE i \in DOMAIN table : table[i].typ = t

-----------------------------------------------------------------------------
(* Encoding.                                                               *)

\* What the encoder writes for a row that occurs n times.
EncodeRow(row, n) ==
    FlattenSeq([k \in 1 .. n |->
        IF row.kind = "pairs" THEN <<Element(row.typ, k), Element(row.val, k)>>
                              ELSE <<Element(row.typ, k)>>])

EncodeRows(table, n, last) ==
    FlattenSeq([i \in 1 .. last |->
        IF table[i].typ = 0 THEN <<>> ELSE EncodeRow(table[i], n[table[i].typ])])

EncodeInto(table, n) == EncodeRows(table, n, Len(table))

\* The part the signer signs: the name of an Interest, and what is between
\* sigCoverStart and the signature.
NamePart(table, n) ==
    IF \E i \in DOMAIN table : table[i].kind = "iname" /\ n[table[i].typ] > 0
    THEN <<"name">> ELSE <<>>

SigCovered(table, n) ==
    LET sigs == {i \in DOMAIN table : table[i].kind = "sig" /\ n[table[i].typ] > 0}
        s == CHOOSE i \in sigs : TRUE
        from == CHOOSE i \in DOMAIN table : table[i] = Offset("sigCoverStart")
    IN NamePart(table, n) \o
       IF sigs = {} THEN <<>>
       ELSE SubSeq(EncodeInto(table, n), Len(EncodeRows(table, n, from)) + 1,
                   Len(EncodeRows(table, n, s - 1)))

\* The digest that MakeInterest puts into the name is that of the parameters
\* and of all that follows them.
ParamDigest(n) ==
    LET params == RowOf(InterestEncoder, 36)
    IN SubSeq(EncodeInto(InterestEncoder, n),
              Len(EncodeRows(InterestEncoder, n, params - 1)) + 1,
              Len(EncodeInto(InterestEncoder, n)))

-----------------------------------------------------------------------------
(* The values that are encoded.                                            *)

\* MakeInterest refuses to sign without parameters.
MakeInterest(n) == n[7] = 1 /\ n[44] = n[46] /\ (n[46] = 1 => n[36] = 1)

\* MakeData always writes MetaInfo, and SignatureInfo when there is a signer.
MakeData(n) == n[7] = 1 /\ n[20] = 1 /\ n[22] = n[23]

Makes(m, n) ==
    /\ m \in {"Interest", "ClientInterest"} => MakeInterest(n)
    /\ m \in {"Data", "ClientData"} => MakeData(n)

Few(S) == {{}} \cup {{f[i] : i \in 1 .. MaxVary} : f \in [1 .. MaxVary -> S]}

Values(m) ==
    LET table == Message[m].encoder
        must == {t \in Types(table) : table[RowOf(table, t)].kind = "req"}
        may == Types(table) \ must
        vary == Few(may) \cup {may \ S : S \in Few(may)}
        often(rep, t) == IF table[RowOf(table, t)].kind \in Repeated THEN rep ELSE 1
    IN {n \in {[t \in Types(table) |-> IF t \in P \cup must THEN often(rep, t) ELSE 0]
                : P \in vary, rep \in {1, 2}} : Makes(m, n)}

Full(m, n) == \A t \in DOMAIN n : n[t] > 0

\* One element more, one less, one twice or one that cannot be read.
Changed(s) ==
    {InsertAt(s, i, Element(t, 1)) : i \in 1 .. Len(s) + 1, t \in Extension}
    \cup {RemoveAt(s, i) : i \in 1 .. Len(s)}
    \cup {InsertAt(s, i, s[i]) : i \in 1 .. Len(s)}
    \cup {ReplaceAt(s, i, Element(s[i].typ, 0)) : i \in 1 .. Len(s)}

Inputs(m, n) ==
    LET s == EncodeInto(Message[m].encoder, n)
    IN {s} \cup IF Full(m, n) THEN Changed(s) ELSE {}

Parser == Message[msg].parse

Init ==
    /\ msg \in DOMAIN Message
    /\ ignoreCritical \in BOOLEAN
    /\ sent \in Values(msg)
    /\ input \in Inputs(msg, sent)
    /\ pos = 1
    /\ passed = 0
    /\ handled = {}
    /\ value = [t \in Types(Parser) |-> <<>>]
    /\ mark = [sigCoverStart |-> 1, digestCoverStart |-> 1]
    /\ covered = <<>>
    /\ digested = <<>>
    /\ status = "parsing"

-----------------------------------------------------------------------------
(* Parsing.                                                                *)

IsCritical(t) == t <= 31 \/ t % 2 = 1

AtElement == status = "parsing" /\ pos <= Len(input)
Here == input[pos]
Known == Here.typ \in Types(Parser)
Row == RowOf(Parser, Here.typ)

\* The key of a pair has to be followed by its value.
Followed == pos < Len(input) /\ input[pos + 1].typ = Parser[Row].val

\* Whether the reader of the field takes the content.
Readable ==
    /\ Parser[Row].kind \in Nested => Here.k # 0
    /\ Parser[Row].kind = "pairs" => Followed

\* Faulty: a second occurrence takes the place of the first.
ReadLast == [value EXCEPT ![Here.typ] = <<Here.k>>]

ReadFrom ==
    [value EXCEPT ![Here.typ] =
        IF Parser[Row].kind \in Repeated THEN Append(@, Here.k)
        ELSE IF Parser[Row].kind = "flag" THEN <<1>>
        ELSE <<Here.k>>]

Fail ==
    /\ status' = "failed"
    /\ UNCHANGED <<given, pos, passed, handled, value, mark, covered, digested>>

\* A field of a message in any order.
ParseField ==
    /\ AtElement /\ msg \notin Ordered /\ Known
    /\ IF Readable
       THEN /\ value' = ReadFrom
            /\ handled' = handled \cup {Row}
            /\ pos' = pos + IF Parser[Row].kind = "pairs" THEN 2 ELSE 1
            /\ UNCHANGED <<given, passed, mark, covered, digested, status>>
       ELSE Fail

\* Faulty: the place is noted once the element is read.
MarkAfter(rows) ==
    [m \in DOMAIN mark |->
        IF \E i \in rows : Parser[i] = Offset(m) THEN pos + 1 ELSE mark[m]]

\* The rows a parser in order goes past before it comes to row r: the fields
\* are missing, and the places are here.
Skipped(r) == passed + 1 .. r - 1

MarkAt(rows) ==
    [m \in DOMAIN mark |->
        IF \E i \in rows : Parser[i] = Offset(m) THEN pos ELSE mark[m]]

CoverAt(rows, end) ==
    IF \E i \in rows : Parser[i] = Cover("digestCoverStart")
    THEN SubSeq(input, MarkAt(rows).digestCoverStart, end - 1)
    ELSE digested

\* A field of a message in order that the parser is not yet past.
ParseInOrder ==
    /\ AtElement /\ msg \in Ordered /\ Known /\ passed < Row
    /\ IF Readable
       THEN /\ value' = ReadFrom
            /\ mark' = MarkAt(Skipped(Row))
            /\ covered' = CASE Parser[Row].kind = "sig" ->
                                    covered \o SubSeq(input, mark'.sigCoverStart, pos - 1)
                            [] Parser[Row].kind = "iname" -> Append(covered, "name")
                            [] OTHER -> covered
            /\ handled' = handled \cup Skipped(Row) \cup {Row}
            /\ passed' = Row
            /\ pos' = pos + 1
            /\ UNCHANGED <<given, digested, status>>
       ELSE Fail

\* The loop over the rows ends at the last one, and is not entered after it.
InLoop == msg \in Ordered => passed <= Len(Parser)

\* An element without a case.  In order, the counter of the loop moves on.
SkipUnknown ==
    /\ AtElement /\ ~Known /\ InLoop
    /\ IF ~ignoreCritical /\ IsCritical(Here.typ)
       THEN Fail
       ELSE /\ pos' = pos + 1
            /\ passed' = IF msg \in Ordered THEN passed + 1 ELSE passed
            /\ UNCHANGED <<given, handled, value, mark, covered, digested, status>>

\* A field the parser in order is past, or any element once it is past all.
\* The content is not skipped but taken for elements, with all that follows:
\* none is handled, and the end comes inside a number or after one.
PassedBy ==
    /\ AtElement /\ msg \in Ordered
    /\ (Known /\ Row <= passed) \/ ~InLoop
    /\ handled' = handled \cup Skipped(Len(Parser) + 1)
    /\ mark' = MarkAt(Skipped(Len(Parser) + 1))
    /\ digested' = CoverAt(Skipped(Len(Parser) + 1), pos)
    /\ passed' = Len(Parser) + 1
    /\ pos' = Len(input) + 1
    /\ status' \in {"parsing", "failed"}
    /\ UNCHANGED <<given, value, covered>>

\* Fields that are required and have not been seen.
Missing == \E i \in DOMAIN Parser \ handled : Parser[i].kind = "req"

\* ReadData wants a name; checkInterest a name, parameters under a signature,
\* and the digest that the sender has put into the name.
Acceptable(digest) ==
    /\ msg \in Ordered => value[7] # <<>>
    /\ msg = "Interest" =>
        /\ value[46] # <<>> => value[36] # <<>>
        /\ value[36] # <<>> => sent[36] > 0 /\ digest = ParamDigest(sent)

\* The end of the input: what has not been handled is skipped.
Finish ==
    /\ status = "parsing" /\ pos > Len(input)
    /\ mark' = MarkAt(DOMAIN Parser \ handled)
    /\ digested' = CoverAt(DOMAIN Parser \ handled, pos)
    /\ status' = IF Missing \/ ~Acceptable(digested') THEN "failed" ELSE "done"
    /\ UNCHANGED <<given, pos, passed, handled, value, covered>>

Next == ParseField \/ ParseInOrder \/ SkipUnknown \/ PassedBy \/ Finish

Spec == Init /\ [][Next]_vars

-----------------------------------------------------------------------------
(* Properties.                                                             *)

Ended == status # "parsing"
Unchanged == input = EncodeInto(Message[msg].encoder, sent)

\* The fields of the value encoded that the parser has a row for.
ValueOf(n) ==
    [t \in Types(Parser) |->
        IF t \notin DOMAIN n \/ n[t] = 0 THEN <<>>
        ELSE IF Parser[RowOf(Parser, t)].kind \in Repeated THEN [k \in 1 .. n[t] |-> k]
        ELSE <<1>>]

\* Whatever encoder and parser the two ends of an exchange have, a client and
\* the forwarder included, the parser accepts what the encoder wrote, critical
\* numbers and all, and reads every field it knows as it was; and the part of
\* a packet that the receiver takes the signature and the digest to cover is
\* the part the sender computed them over.
RoundTrip ==
    Ended /\ Unchanged =>
        /\ status = "done"
        /\ value = ValueOf(sent)
        /\ msg \in Ordered => covered = SigCovered(Message[msg].encoder, sent)

\* What a message in any order says, by its elements alone: the contents of a
\* repeated field in their order, and of another one the last.
IsValue(i) == i > 1 /\ \E r \in DOMAIN Parser :
                  /\ Parser[r].kind = "pairs"
                  /\ input[i - 1].typ = Parser[r].typ /\ input[i].typ = Parser[r].val
Contents(t) == LET s == SelectSeq(input, LAMBDA e : e.typ = t)
               IN [i \in DOMAIN s |-> s[i].k]
Said(t) ==
    LET kind == Parser[RowOf(Parser, t)].kind
        s == Contents(t)
    IN IF kind \in Repeated \/ s = <<>> THEN s
       ELSE IF kind = "flag" THEN <<1>>
       ELSE <<s[Len(s)]>>
Refused ==
    \/ \E i \in DOMAIN input :
        LET t == input[i].typ
            row == Parser[RowOf(Parser, t)]
        IN IF t \in Types(Parser)
           THEN \/ row.kind \in Nested /\ input[i].k = 0
                \/ row.kind = "pairs" /\ ~(i < Len(input) /\ IsValue(i + 1))
           ELSE ~IsValue(i) /\ ~ignoreCritical /\ IsCritical(t)
    \/ \E i \in DOMAIN Parser : Parser[i].kind = "req" /\ Contents(Parser[i].typ) = <<>>

\* With an element more or less, twice or unreadable, the parser of a message
\* in any order refuses it exactly when a required field is missing, a critical
\* element is unknown or a content cannot be read, and otherwise reads what
\* the elements say; that of a message in order reads no content as another's.
ReadsWhatIsThere ==
    Ended =>
        IF msg \in Ordered
        THEN status = "done" =>
                \A t \in Types(Parser) : value[t] # <<>> =>
                    \E i \in DOMAIN input :
                        /\ input[i].typ = t
                        /\ value[t] = <<input[i].k>> \/ Parser[RowOf(Parser, t)].kind = "flag"
        ELSE IF Refused THEN status = "failed"
        ELSE status = "done" /\ value = [t \in Types(Parser) |-> Said(t)]

\* An element of a number that is not critical and that no row has makes no
\* difference to what is read.
UnknownSkipped ==
    Ended /\ msg = "Data" =>
        \A i \in DOMAIN input :
            input[i].typ \in Extension /\ ~IsCritical(input[i].typ) =>
                status = "done" /\ value = ValueOf(sent)
=============================================================================
