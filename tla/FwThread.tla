------------------------------ MODULE FwThread ------------------------------
(***************************************************************************)
(* A forwarding thread (fw/fw/thread.go): its Interest and Data pipelines  *)
(* over the PIT, the Content Store and the dead nonce list, with the       *)
(* best-route and multicast strategies, and the two tickers that expire    *)
(* PIT entries and dead nonces.  One pass of the thread's select loop is   *)
(* one step.                                                               *)
(*                                                                         *)
(* FIB, PET and forwarding hints are fixed: they decide the next hops of a *)
(* key.  BIER packets are the subject of BierNet.  A PIT token names the   *)
(* entry it was made for; one that is gone counts as no token.             *)
(***************************************************************************)
EXTENDS ContentStore, BestRoute, FiniteSets

CONSTANTS
    Face, NonLocal,     \* all faces, and those that leave the host
    Nonce,
    Key,                \* what makes Interests share a PIT entry: name,
                        \* canBePrefix, mustBeFresh, hint
    Localhost, Localhop,  \* names under /localhost and /localhop
    LocalHops,          \* LocalHops[k]: PET next hops, in order
    NetHops,            \* NetHops[k]: FIB next hops with cost
    Strategy,           \* Strategy[k]: "best-route" or "multicast"
    Traffic,            \* sets of Interests and Data that faces may send
    Capacity,           \* of the Content Store, 0 if it does not admit
    DnlLifetime, DnlBatch,
    MaxTime,            \* bound on the clock
    None

VARIABLES
    pit,    \* pit[k]: the entry of key k, or None
    dnl,    \* dead nonces: <<name, nonce>> and their expiry
    cs,
    now,
    sent,   \* what the last step sent, and to which face
    traffic \* what faces send, one of Traffic

vars == <<pit, dnl, cs, now, sent, traffic>>

ASSUME FwThreadAssumption ==
    /\ None \notin Nat
    /\ \A k \in Key :
            /\ k.name \in Name
            /\ LocalHops[k] \in Seq(Face)
            /\ NetHops[k] \in Seq([face : Face, cost : Nat])
    /\ \A t \in Traffic : \A i \in t.interests :
            /\ i.key \in Key /\ i.nonce \in Nonce
            /\ i.face \in Face /\ i.lifetime \in Nat
    /\ \A t \in Traffic : \A d \in t.datas : d.name \in Name /\ d.freshness \in Nat
    /\ DnlLifetime \in Nat /\ MaxTime \in Nat

InRecord == [nonce : Nonce, expires : Nat]
OutRecord == [nonce : Nonce, sentAt : Nat]

\* timer is the place in the expiry queue, None if it is in none.
PitEntry ==
    [in : [Face -> InRecord \cup {None}], out : [Face -> OutRecord \cup {None}],
     expires : Nat, timer : Nat \cup {None}, satisfied : BOOLEAN]

ASSUME NoneIsNoRecord == None \notin PitEntry \cup InRecord \cup OutRecord

NewEntry ==
    [in |-> [f \in Face |-> None], out |-> [f \in Face |-> None],
     expires |-> 0, timer |-> None, satisfied |-> FALSE]

Live == {k \in Key : pit[k] # None}

InFaces(e) == {f \in Face : e.in[f] # None}
OutNonces(e) == {e.out[f].nonce : f \in {g \in Face : e.out[g] # None}}

\* deadNonceList.Insert: an entry that is there keeps its expiry.
DnlInsert(list, n, nonces) ==
    [d \in DOMAIN list \cup ({n} \X nonces) |->
        IF d \in DOMAIN list THEN list[d] ELSE now + DnlLifetime]

WithTimer(e, t) == [e EXCEPT !.expires = t, !.timer = t]

Init ==
    /\ pit = [k \in Key |-> None]
    /\ dnl = <<>>
    /\ cs = EmptyCs
    /\ now = 0
    /\ sent = {}
    /\ traffic \in Traffic

----------------------------------------------------------------------------
(* Interests *)

\* The checks before the PIT: hop limit, /localhost scope, dead nonces.
RejectedEarly(i) ==
    \/ i.hopLimit = 0
    \/ i.face \in NonLocal /\ i.key.name \in Localhost
    \/ <<i.key.name, i.nonce>> \in DOMAIN dnl

Entry(i) == IF pit[i.key] = None THEN NewEntry ELSE pit[i.key]

\* InsertInterest: another face asked with the same nonce.
IsDuplicate(i) ==
    \E f \in InFaces(Entry(i)) \ {i.face} : Entry(i).in[f].nonce = i.nonce

DropInterest(i) ==
    /\ RejectedEarly(i) \/ IsDuplicate(i)
    /\ sent' = {}
    /\ UNCHANGED <<pit, dnl, cs, now, traffic>>

\* InsertInRecord on the entry that InsertInterest returns.
WithInRecord(i) ==
    [Entry(i) EXCEPT !.in[i.face] = [nonce |-> i.nonce, expires |-> now + i.lifetime]]

AlreadyPending(i) == Entry(i).in[i.face] # None

CsHit(i) ==
    /\ ~RejectedEarly(i) /\ ~IsDuplicate(i) /\ ~AlreadyPending(i)
    /\ \E n \in FindMatching(cs, i.key, now) :
        /\ pit' = [pit EXCEPT ![i.key] =
                      WithTimer([WithInRecord(i) EXCEPT !.in[i.face] = None], now)]
        /\ cs' = Use(cs, i.key, n)
        /\ sent' = IF i.face \in NonLocal /\ n \in Localhost THEN {}
                   ELSE {[type |-> "data", face |-> i.face, name |-> n]}
    /\ UNCHANGED <<dnl, now, traffic>>

\* processOutgoingInterest sends to the face.
MaySend(i, f) ==
    /\ f # i.face
    /\ ~(i.hopLimit = 1 /\ f \in NonLocal)

\* The places of the next hops that are left.
AllowedLocal(i, e) ==
    {j \in DOMAIN LocalHops[i.key] :
        LocalHops[i.key][j] # i.face /\ e.in[LocalHops[i.key][j]] = None}

AllowedNet(i, e) ==
    LET allowed(h) ==
            /\ h.face # i.face /\ e.in[h.face] = None
            /\ ~(i.face \in NonLocal /\ i.key.name \in Localhop /\ h.face \in NonLocal)
    IN  Restrict(NetHops[i.key], {j \in DOMAIN NetHops[i.key] : allowed(NetHops[i.key][j])})

SentAt(e) == [f \in Face |-> IF e.out[f] = None THEN Never ELSE e.out[f].sentAt]

\* Multicast floods unless another Interest was sent a moment ago.
MulticastFaces(i, e, net) ==
    IF \E f \in Face : Suppressed(SentAt(e), f, now) /\ e.out[f].nonce # i.nonce THEN {}
    ELSE {f \in {net[j].face : j \in DOMAIN net} : MaySend(i, f)}

BestRouteFaces(i, e, net) ==
    {LET j == ChosenHop(sorted, SentAt(e), {f \in Face : MaySend(i, f)}, now)
     IN  IF j = 0 THEN {} ELSE {sorted[j].face} : sorted \in SortedHops(net)}

\* The sets of faces the Interest may be sent to: the one its sender chose, the
\* first local application, or what the strategy picks.
OutFaces(i, e) ==
    IF i.nextHop # None THEN {{f \in {i.nextHop} : MaySend(i, f)}}
    ELSE IF AllowedLocal(i, e) # {}
    THEN {{f \in {LocalHops[i.key][Min(AllowedLocal(i, e))]} : MaySend(i, f)}}
    ELSE IF DOMAIN AllowedNet(i, e) = {} THEN {{}}
    ELSE IF Strategy[i.key] = "multicast" THEN {MulticastFaces(i, e, AllowedNet(i, e))}
    ELSE BestRouteFaces(i, e, AllowedNet(i, e))

\* Faulty variant: a retransmission leaves the timer alone.
ExpiryOnlyNew(i, e) == IF AlreadyPending(i) THEN [e EXCEPT !.expires = now + i.lifetime]
                       ELSE WithTimer(e, now + i.lifetime)

\* InsertInterest has reset the expiration time, so that the in-record's is
\* always the later one.
WithExpiry(i, e) == WithTimer(e, now + i.lifetime)

\* Faulty variant: the nonce that a retransmission replaces is forgotten.
PreviousNonceNot(i) == {}

\* The nonce a retransmission replaces.
PreviousNonce(i) == IF AlreadyPending(i) THEN {Entry(i).in[i.face].nonce} ELSE {}

ForwardInterest(i) ==
    /\ ~RejectedEarly(i) /\ ~IsDuplicate(i)
    /\ AlreadyPending(i) \/ FindMatching(cs, i.key, now) = {}
    /\ LET e == WithExpiry(i, WithInRecord(i))
       IN  \E faces \in OutFaces(i, e) :
            /\ pit' = [pit EXCEPT ![i.key] = [e EXCEPT !.out = [f \in Face |->
                          IF f \in faces THEN [nonce |-> i.nonce, sentAt |-> now] ELSE @[f]]]]
            /\ sent' = {[type |-> "interest", face |-> f, name |-> i.key.name] : f \in faces}
    /\ dnl' = DnlInsert(dnl, i.key.name, PreviousNonce(i))
    /\ UNCHANGED <<cs, now, traffic>>

----------------------------------------------------------------------------
(* Data *)

\* Data of the name answers Interests of the key.
Accepts(k, n) == k.name = n \/ (k.canBePrefix /\ n \in Extends(k.name))

\* findInterestPrefixMatchByName
MatchByName(n) == {k \in Live : Accepts(k, n)}

\* A token that is known decides alone.
MatchingEntries(d) ==
    IF d.token # None /\ d.token \in Live THEN {d.token} ELSE MatchByName(d.name)

DataScope(d, f) == ~(f \in NonLocal /\ d.name \in Localhost)

Outgoing(d, faces) ==
    {[type |-> "data", face |-> f, name |-> d.name] : f \in {g \in faces : DataScope(d, g)}}

Satisfied(e) ==
    [WithTimer(e, now) EXCEPT !.in = [f \in Face |-> None], !.out = [f \in Face |-> None],
                              !.satisfied = TRUE]

WithData(d) ==
    IF Capacity = 0 THEN cs ELSE InsertData(cs, d.name, now + d.freshness, Capacity)

\* Refused, or unsolicited: admitted to the store all the same.
UnsolicitedData(d) ==
    /\ ~DataScope(d, d.face) \/ MatchingEntries(d) = {}
    /\ cs' = IF DataScope(d, d.face) THEN WithData(d) ELSE cs
    /\ sent' = {}
    /\ UNCHANGED <<pit, dnl, now, traffic>>

\* The nonces go to the list under the name of the Data.
DnlAfterData(d, k) == DnlInsert(dnl, d.name, OutNonces(pit[k]))

\* One entry: through the strategy, which answers every face that asked.
SatisfyOne(d) ==
    /\ DataScope(d, d.face)
    /\ \E k \in Live :
        /\ MatchingEntries(d) = {k}
        /\ pit' = [pit EXCEPT ![k] = Satisfied(@)]
        /\ dnl' = DnlAfterData(d, k)
        /\ sent' = Outgoing(d, InFaces(pit[k]))
    /\ cs' = WithData(d)
    /\ UNCHANGED <<now, traffic>>

\* The first entry of the list: one at the deepest node.
FirstEntries(entries) ==
    {k \in entries : \A j \in entries : j.name \in Extends(k.name) => j.name = k.name}

\* Faulty variant: only the first entry is answered.
AnsweredFirst(entries, first) == {first}

\* The entries that are answered and cleared.
Answered(entries, first) == entries

\* Several entries: all faces but the one the Data came from; the loop reads
\* the out-records of the first entry every time.
SatisfyAll(d) ==
    /\ DataScope(d, d.face)
    /\ Cardinality(MatchingEntries(d)) > 1
    /\ \E first \in FirstEntries(MatchingEntries(d)) :
        LET answered == Answered(MatchingEntries(d), first)
        IN  /\ pit' = [k \in Key |-> IF k \in answered THEN Satisfied(pit[k]) ELSE pit[k]]
            /\ dnl' = DnlAfterData(d, first)
            /\ sent' = Outgoing(d, (UNION {InFaces(pit[k]) : k \in answered}) \ {d.face})
    /\ cs' = WithData(d)
    /\ UNCHANGED <<now, traffic>>

----------------------------------------------------------------------------
(* Tickers and time *)

\* Faulty variant: expires entries a tick early.
ExpiredSoon == {k \in Live : pit[k].timer # None /\ pit[k].timer <= now + 1}

Expired == {k \in Live : pit[k].timer # None /\ pit[k].timer <= now}

\* Faulty variant: the nonces of expired entries are not kept.
FinalizeNot == dnl

\* finalizeInterest for every expired entry: its nonces go to the list.
Finalize ==
    LET dead == UNION {{k.name} \X OutNonces(pit[k]) : k \in Expired}
    IN  [d \in DOMAIN dnl \cup dead |->
            IF d \in DOMAIN dnl THEN dnl[d] ELSE now + DnlLifetime]

Update ==
    /\ Expired # {}
    /\ pit' = [k \in Key |-> IF k \in Expired THEN None ELSE pit[k]]
    /\ dnl' = Finalize
    /\ sent' = {}
    /\ UNCHANGED <<cs, now, traffic>>

\* RemoveExpiredEntries: the oldest first, DnlBatch at most.
DnlUpdate ==
    LET old == {d \in DOMAIN dnl : dnl[d] < now}
    IN  \E gone \in SUBSET old :
            /\ gone # {}
            /\ Cardinality(gone) = IF Cardinality(old) < DnlBatch THEN Cardinality(old)
                                   ELSE DnlBatch
            /\ \A d \in gone, e \in old \ gone : dnl[d] <= dnl[e]
            /\ dnl' = [d \in DOMAIN dnl \ gone |-> dnl[d]]
            /\ sent' = {}
            /\ UNCHANGED <<pit, cs, now, traffic>>

Tick ==
    /\ now < MaxTime
    /\ now' = now + 1
    /\ sent' = {}
    /\ UNCHANGED <<pit, dnl, cs, traffic>>

Next ==
    \/ \E i \in traffic.interests : DropInterest(i) \/ CsHit(i) \/ ForwardInterest(i)
    \/ \E d \in traffic.datas : UnsolicitedData(d) \/ SatisfyOne(d) \/ SatisfyAll(d)
    \/ Update \/ DnlUpdate \/ Tick

Spec == Init /\ [][Next]_vars

----------------------------------------------------------------------------
(* Properties *)

\* The PIT, the clock and the traffic have their types.
TypeOK ==
    /\ pit \in [Key -> PitEntry \cup {None}]
    /\ now \in 0..MaxTime
    /\ traffic \in Traffic

\* Every PIT entry is in the expiry queue, at its own expiration time: none is
\* leaked, though InsertInterest resets the time of an entry that is queued.
EveryEntryTimed ==
    \A k \in Live : pit[k].timer # None /\ pit[k].timer = pit[k].expires

\* A forwarded Interest that loops back while its entry lives is recognised,
\* for as long as dead nonces are kept: its nonce is a dead nonce or that of
\* an in-record, though retransmissions replace the nonces of in-records.
OutNoncesGuarded ==
    \A k \in Live : \A o \in Face : pit[k].out[o] # None =>
        \/ <<k.name, pit[k].out[o].nonce>> \in DOMAIN dnl
        \/ \E f \in InFaces(pit[k]) : pit[k].in[f].nonce = pit[k].out[o].nonce
        \/ pit[k].out[o].sentAt + DnlLifetime < now

\* Only Data of just this name satisfies the entry, and it satisfies no other.
Alone(k) == ~k.canBePrefix /\ MatchByName(k.name) = {k}

\* Faces send a PIT token only with Data for the Interest it was made for.
HonestTokens ==
    \A t \in Traffic : \A d \in t.datas : d.token \in Key => Accepts(d.token, d.name)

\* What PendingKept needs of the traffic.  The Interests of an entry have one
\* lifetime: InsertInterest resets the expiration time, and a shorter one moves
\* it forward.  Data with a token answers the token's entry and no other: one
\* left pending would be finalized by the next Content Store hit on its key.
\* Who sends Data did not ask for it: of several entries none is answered
\* there.  What may not leave the host is asked for under /localhost, where
\* Interests of other hosts are dropped.
OrderlyTraffic ==
    \A t \in Traffic :
        /\ \A i, j \in t.interests : i.key = j.key => i.lifetime = j.lifetime
        /\ \A d \in t.datas : \A i \in t.interests : Accepts(i.key, d.name) =>
            /\ d.token \in Key => d.token = i.key
            /\ d.face # i.face
            /\ d.name \in Localhost /\ i.face \in NonLocal => i.key.name \in Localhost

\* When an out-record goes, because its entry expires or Data satisfies it
\* alone, its nonce is a dead nonce under the name of the Interest, so that the
\* Interest is still recognised when it loops back.
OutNoncesDead ==
    [][\A k \in Live : Alone(k) => \A x \in OutNonces(pit[k]) :
         \/ pit'[k] # None /\ \E f \in Face : pit[k].out[f] # None /\ pit'[k].out[f] # None
                                              /\ pit[k].out[f].nonce = x
         \/ <<k.name, x>> \in DOMAIN dnl']_vars

\* A face that asked stays in the PIT until it got Data or its Interest's
\* lifetime is over.
PendingKept ==
    [][\A k \in Live : \A f \in InFaces(pit[k]) :
         \/ pit'[k] # None /\ pit'[k].in[f] # None
         \/ \E p \in sent' : p.type = "data" /\ p.face = f
         \/ pit[k].in[f].expires <= now]_vars

\* Data without a token leaves no Interest waiting that it could satisfy.
DataSatisfiesAll ==
    [][\A d \in traffic.datas : d.token = None /\ (SatisfyOne(d) \/ SatisfyAll(d)) =>
         \A k \in MatchByName(d.name) : InFaces(pit'[k]) = {}]_vars

\* Interests for one entry that come faster than the suppression time are not
\* all sent on by best-route, whichever faces they come from: those that go to
\* one face are that far apart, unless a sender chose the next hop or the face
\* is that of a local application, which no strategy chooses.
RetransmissionsSpaced ==
    [][\A k \in Live : Strategy[k] = "best-route" /\ pit'[k] # None
            /\ (\A i \in traffic.interests : i.key = k => i.nextHop = None) =>
         \A f \in Face \ Range(LocalHops[k]) :
             pit[k].out[f] # None /\ pit'[k].out[f] \notin {None, pit[k].out[f]} =>
                pit'[k].out[f].sentAt >= pit[k].out[f].sentAt + SuppressionTime]_vars
=============================================================================
