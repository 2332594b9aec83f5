-------------------------- MODULE FwThread_proofs --------------------------
(***************************************************************************)
(* For any faces, names, next hops and packets: PIT entries keep their     *)
(* type and have their place in the expiry queue, looping Interests are    *)
(* recognised, nonces outlive their entries, Data leaves no Interest       *)
(* waiting, best-route spaces what it sends, and whatever ends the wait of *)
(* a face that asked is one of four things.                                *)
(***************************************************************************)
EXTENDS FwThread, FiniteSetTheorems, TLAPS

\* An entry with a new timer is an entry, and is timed.
LEMMA WithTimerType ==
    ASSUME NEW e \in PitEntry, NEW t \in Nat
    PROVE  /\ WithTimer(e, t) \in PitEntry
           /\ WithTimer(e, t).timer = t /\ WithTimer(e, t).expires = t
BY DEF WithTimer, PitEntry

\* The entry InsertInterest finds or makes is an entry.
LEMMA EntryType ==
    ASSUME TypeOK, NEW i \in traffic.interests
    PROVE  Entry(i) \in PitEntry /\ WithInRecord(i) \in PitEntry
<1>0. i.key \in Key /\ i.nonce \in Nonce /\ i.face \in Face /\ i.lifetime \in Nat
  BY FwThreadAssumption DEF TypeOK
<1>1. Entry(i) \in PitEntry
  <2>1. NewEntry \in PitEntry
    BY DEF NewEntry, PitEntry
  <2> QED
    BY <1>0, <2>1 DEF Entry, TypeOK
<1>2. [nonce |-> i.nonce, expires |-> now + i.lifetime] \in InRecord
  BY <1>0 DEF InRecord, TypeOK
<1> QED
  BY <1>0, <1>1, <1>2 DEF WithInRecord, PitEntry

\* The PIT and the clock keep their types, and every entry keeps its timer.
PitInv == TypeOK /\ EveryEntryTimed

\* A step that changes one entry to a timed one, or removes entries.
LEMMA OneEntry ==
    ASSUME PitInv, NEW k \in Key, NEW e \in PitEntry, e.timer # None, e.timer = e.expires,
           pit' = [pit EXCEPT ![k] = e], UNCHANGED <<now, traffic>>
    PROVE  PitInv'
BY NoneIsNoRecord DEF PitInv, TypeOK, EveryEntryTimed, Live

LEMMA PitStep == PitInv /\ [Next]_vars => PitInv'
<1> SUFFICES ASSUME PitInv, [Next]_vars PROVE PitInv'
  OBVIOUS
<1> TypeOK /\ now \in Nat
  BY DEF PitInv, TypeOK
<1>i. \A i \in traffic.interests : /\ i.key \in Key /\ i.nonce \in Nonce
                                   /\ i.face \in Face /\ i.lifetime \in Nat
  BY FwThreadAssumption DEF TypeOK
<1>0. ASSUME UNCHANGED <<pit, now, traffic>> PROVE PitInv'
  BY <1>0 DEF PitInv, TypeOK, EveryEntryTimed, Live
<1>1. ASSUME NEW i \in traffic.interests, CsHit(i) PROVE PitInv'
  <2> DEFINE e == [WithInRecord(i) EXCEPT !.in[i.face] = None]
  <2>1. e \in PitEntry
    BY EntryType, <1>i, FwThreadAssumption DEF PitEntry
  <2>2. pit' = [pit EXCEPT ![i.key] = WithTimer(e, now)] /\ UNCHANGED <<now, traffic>>
    BY <1>1 DEF CsHit
  <2>3. /\ WithTimer(e, now) \in PitEntry
        /\ WithTimer(e, now).timer # None
        /\ WithTimer(e, now).timer = WithTimer(e, now).expires
    <3> HIDE DEF e
    <3> QED
      BY <2>1, WithTimerType, <1>i, FwThreadAssumption
  <2> HIDE DEF e
  <2> QED
    BY <2>2, <2>3, OneEntry, <1>i, FwThreadAssumption
<1>2. ASSUME NEW i \in traffic.interests, ForwardInterest(i) PROVE PitInv'
  <2> DEFINE e == WithExpiry(i, WithInRecord(i))
  <2>1. now + i.lifetime \in Nat
    BY <1>i, FwThreadAssumption
  <2>2. e \in PitEntry /\ e.timer # None /\ e.timer = e.expires
    <3>1. WithInRecord(i) \in PitEntry
      BY EntryType
    <3> QED
      BY <2>1, <3>1, WithTimerType, FwThreadAssumption DEF WithExpiry
  <2>3. PICK faces : pit' = [pit EXCEPT ![i.key] = [e EXCEPT !.out = [f \in Face |->
                        IF f \in faces THEN [nonce |-> i.nonce, sentAt |-> now] ELSE e.out[f]]]]
    BY <1>2, <2>2 DEF ForwardInterest, PitEntry
  <2> DEFINE r == [nonce |-> i.nonce, sentAt |-> now]
             o == [f \in Face |-> IF f \in faces THEN r ELSE e.out[f]]
             d == [e EXCEPT !.out = o]
  <2> HIDE DEF e
  <2>4. r \in OutRecord
    BY <1>i, FwThreadAssumption DEF OutRecord
  <2>5. o \in [Face -> OutRecord \cup {None}]
    BY <2>2, <2>4 DEF PitEntry
  <2>6. d \in PitEntry /\ d.timer # None /\ d.timer = d.expires
    BY <2>2, <2>5 DEF PitEntry
  <2>7. pit' = [pit EXCEPT ![i.key] = d] /\ UNCHANGED <<now, traffic>>
    BY <1>2, <2>3 DEF ForwardInterest
  <2> QED
    BY <2>6, <2>7, OneEntry, <1>i, FwThreadAssumption
<1>3. ASSUME NEW e \in PitEntry
      PROVE  Satisfied(e) \in PitEntry /\ Satisfied(e).timer = now /\ Satisfied(e).expires = now
  BY WithTimerType DEF Satisfied, PitEntry
<1>4. ASSUME NEW d \in traffic.datas, SatisfyOne(d) PROVE PitInv'
  <2>1. PICK k \in Live : pit' = [pit EXCEPT ![k] = Satisfied(pit[k])]
    BY <1>4 DEF SatisfyOne
  <2>2. k \in Key /\ pit[k] \in PitEntry /\ UNCHANGED <<now, traffic>>
    BY <1>4, <2>1 DEF Live, TypeOK, SatisfyOne
  <2> QED
    BY <1>3, <2>1, <2>2, OneEntry, FwThreadAssumption
<1>5. ASSUME NEW d \in traffic.datas, SatisfyAll(d) PROVE PitInv'
  <2>1. PICK first : pit' = [k \in Key |-> IF k \in Answered(MatchingEntries(d), first)
                                           THEN Satisfied(pit[k]) ELSE pit[k]]
    BY <1>5 DEF SatisfyAll
  <2>2. MatchingEntries(d) \subseteq Live
    BY DEF MatchingEntries, MatchByName
  <2>3. \A k \in Live : k \in Key /\ pit[k] \in PitEntry
    BY DEF Live, TypeOK
  <2>4. ASSUME NEW k \in Key
        PROVE  /\ pit'[k] \in PitEntry \cup {None}
               /\ pit'[k] # None => pit'[k].timer # None /\ pit'[k].timer = pit'[k].expires
    <3>1. CASE k \in MatchingEntries(d)
      <4>1. pit'[k] = Satisfied(pit[k]) /\ pit[k] \in PitEntry
        BY <2>1, <2>2, <2>3, <3>1 DEF Answered
      <4> QED
        BY <4>1, <1>3, FwThreadAssumption
    <3>2. CASE k \notin MatchingEntries(d)
      BY <2>1, <3>2 DEF Answered, PitInv, TypeOK, EveryEntryTimed, Live
    <3> QED
      BY <3>1, <3>2
  <2>5. UNCHANGED <<now, traffic>> /\ pit' = [k \in Key |-> pit'[k]]
    BY <1>5, <2>1 DEF SatisfyAll
  <2> QED
    BY <2>4, <2>5 DEF PitInv, TypeOK, EveryEntryTimed, Live
<1>6. CASE Update
  BY <1>6 DEF Update, PitInv, TypeOK, EveryEntryTimed, Live
<1>7. CASE Tick
  BY <1>7, FwThreadAssumption DEF Tick, PitInv, TypeOK, EveryEntryTimed, Live
<1>8. CASE DnlUpdate
  BY <1>8, <1>0 DEF DnlUpdate
<1>9. ASSUME NEW i \in traffic.interests, DropInterest(i) PROVE PitInv'
  BY <1>9, <1>0 DEF DropInterest
<1>10. ASSUME NEW d \in traffic.datas, UnsolicitedData(d) PROVE PitInv'
  BY <1>10, <1>0 DEF UnsolicitedData
<1>11. CASE UNCHANGED vars
  BY <1>11, <1>0 DEF vars
<1> QED
  BY <1>1, <1>2, <1>4, <1>5, <1>6, <1>7, <1>8, <1>9, <1>10, <1>11 DEF Next

\* No PIT entry is leaked: in any sequence of Interests, Data and ticks, every
\* entry is in the expiry queue at its own expiration time.
THEOREM EntriesTimed == Spec => [](TypeOK /\ EveryEntryTimed)
<1>1. Init => PitInv
  BY FwThreadAssumption DEF Init, PitInv, TypeOK, EveryEntryTimed, Live
<1> QED
  BY <1>1, PitStep, PTL DEF Spec, PitInv
----------------------------------------------------------------------------
(* Loops *)

\* Dead nonces have expiry times.
DnlTyped == \A d \in DOMAIN dnl : dnl[d] \in Nat

\* A dead nonce is kept for its full lifetime from the time an Interest was
\* sent with it: it was not in the list when the Interest was sent.
OutAges ==
    \A k \in Live : \A o \in Face : pit[k].out[o] # None =>
        /\ pit[k].out[o].sentAt <= now
        /\ <<k.name, pit[k].out[o].nonce>> \in DOMAIN dnl =>
              dnl[<<k.name, pit[k].out[o].nonce>>] >= pit[k].out[o].sentAt + DnlLifetime

GuardInv == PitInv /\ DnlTyped /\ OutAges /\ OutNoncesGuarded

\* The dead nonce list only got new entries, with a full lifetime.
DnlGrows ==
    /\ DOMAIN dnl \subseteq DOMAIN dnl'
    /\ \A d \in DOMAIN dnl' : dnl'[d] = IF d \in DOMAIN dnl THEN dnl[d] ELSE now + DnlLifetime

\* An out-record the step left alone, whose guards are still there.
OutKept(k, o) ==
    /\ k \in Live /\ pit'[k].out[o] = pit[k].out[o]
    /\ \A f \in InFaces(pit[k]) :
          \/ pit'[k].in[f] # None /\ pit'[k].in[f].nonce = pit[k].in[f].nonce
          \/ <<k.name, pit[k].in[f].nonce>> \in DOMAIN dnl'

\* An out-record of the Interest that this step forwards.
OutNew(k, o) ==
    /\ pit'[k].out[o].sentAt = now
    /\ <<k.name, pit'[k].out[o].nonce>> \notin DOMAIN dnl
    /\ \E f \in Face : pit'[k].in[f] # None /\ pit'[k].in[f].nonce = pit'[k].out[o].nonce

\* A step whose out-records are all old or new in this sense keeps the guards.
LEMMA GuardKept ==
    ASSUME GuardInv, PitInv', now' \in Nat, now' >= now, DnlGrows,
           \A k \in Key : \A o \in Face :
               pit'[k] # None /\ pit'[k].out[o] # None => OutKept(k, o) \/ OutNew(k, o)
    PROVE  GuardInv'
<1>1. now \in Nat /\ DnlLifetime \in Nat
  BY FwThreadAssumption DEF GuardInv, PitInv, TypeOK
<1>2. DnlTyped'
  BY <1>1 DEF DnlGrows, DnlTyped, GuardInv
<1>3. ASSUME NEW k \in Key, pit'[k] # None, NEW o \in Face, pit'[k].out[o] # None
      PROVE  /\ pit'[k].out[o].sentAt \in Nat /\ pit'[k].out[o].sentAt <= now
             /\ <<k.name, pit'[k].out[o].nonce>> \in DOMAIN dnl' =>
                   dnl'[<<k.name, pit'[k].out[o].nonce>>] >= pit'[k].out[o].sentAt + DnlLifetime
             /\ \/ <<k.name, pit'[k].out[o].nonce>> \in DOMAIN dnl'
                \/ \E f \in Face : pit'[k].in[f] # None
                                    /\ pit'[k].in[f].nonce = pit'[k].out[o].nonce
                \/ pit'[k].out[o].sentAt + DnlLifetime < now'
  <2>1. pit'[k].out[o].sentAt \in Nat
    BY <1>3, FwThreadAssumption DEF PitInv, TypeOK, PitEntry, OutRecord
  <2>2. CASE OutKept(k, o)
    <3>1. k \in Live /\ pit[k].out[o] = pit'[k].out[o] /\ pit[k].out[o] # None
      BY <1>3, <2>2 DEF OutKept
    <3>2. /\ pit[k].out[o].sentAt <= now
          /\ <<k.name, pit[k].out[o].nonce>> \in DOMAIN dnl =>
                dnl[<<k.name, pit[k].out[o].nonce>>] >= pit[k].out[o].sentAt + DnlLifetime
      BY <3>1 DEF GuardInv, OutAges
    <3>3. \/ <<k.name, pit[k].out[o].nonce>> \in DOMAIN dnl
          \/ \E f \in InFaces(pit[k]) : pit[k].in[f].nonce = pit[k].out[o].nonce
          \/ pit[k].out[o].sentAt + DnlLifetime < now
      BY <3>1 DEF GuardInv, OutNoncesGuarded
    <3>4. \/ <<k.name, pit'[k].out[o].nonce>> \in DOMAIN dnl'
          \/ \E f \in Face : pit'[k].in[f] # None
                              /\ pit'[k].in[f].nonce = pit'[k].out[o].nonce
          \/ pit'[k].out[o].sentAt + DnlLifetime < now'
      <4>1. CASE <<k.name, pit[k].out[o].nonce>> \in DOMAIN dnl
        BY <3>1, <4>1 DEF DnlGrows
      <4>2. CASE \E f \in InFaces(pit[k]) : pit[k].in[f].nonce = pit[k].out[o].nonce
        BY <3>1, <4>2, <2>2 DEF OutKept, InFaces
      <4>3. CASE pit[k].out[o].sentAt + DnlLifetime < now
        BY <3>1, <4>3, <2>1, <1>1
      <4> QED
        BY <3>3, <4>1, <4>2, <4>3
    <3> QED
      BY <1>1, <2>1, <3>1, <3>2, <3>4 DEF DnlGrows
  <2>3. CASE OutNew(k, o)
    BY <1>1, <2>1, <2>3 DEF OutNew, DnlGrows
  <2> QED
    BY <1>3, <2>2, <2>3
<1>4. OutAges'
  <2> SUFFICES ASSUME NEW k \in Key, pit'[k] # None, NEW o \in Face, pit'[k].out[o] # None
               PROVE  /\ pit'[k].out[o].sentAt <= now'
                      /\ <<k.name, pit'[k].out[o].nonce>> \in DOMAIN dnl' =>
                            dnl'[<<k.name, pit'[k].out[o].nonce>>]
                                >= pit'[k].out[o].sentAt + DnlLifetime
    BY DEF OutAges, Live
  <2> QED
    BY <1>1, <1>3
<1>5. OutNoncesGuarded'
  BY <1>3 DEF OutNoncesGuarded, Live, InFaces
<1> QED
  BY <1>2, <1>4, <1>5 DEF GuardInv

\* deadNonceList.Insert only adds.
LEMMA DnlInsertGrows ==
    ASSUME NEW n, NEW nonces, dnl' = DnlInsert(dnl, n, nonces)
    PROVE  DnlGrows /\ ({n} \X nonces) \subseteq DOMAIN dnl'
BY DEF DnlInsert, DnlGrows

\* What ForwardInterest does to the entry of its key: the face's in-record has
\* the new nonce, the other in-records and all out-records but those to the
\* chosen faces stay; the entry expires with the new in-record.
LEMMA ForwardedEntry ==
    ASSUME TypeOK, NEW i \in traffic.interests, ForwardInterest(i)
    PROVE  \E faces \in OutFaces(i, WithExpiry(i, WithInRecord(i))) :
             LET e == Entry(i)
                 new == pit'[i.key]
             IN  /\ e \in PitEntry /\ new \in PitEntry
                 /\ \A k \in Key \ {i.key} : pit'[k] = pit[k]
                 /\ new.in[i.face] # None /\ new.in[i.face].nonce = i.nonce
                 /\ new.in[i.face].expires = now + i.lifetime /\ new.timer = now + i.lifetime
                 /\ \A f \in Face \ {i.face} : new.in[f] = e.in[f]
                 /\ \A f \in Face : new.out[f] = IF f \in faces
                        THEN [nonce |-> i.nonce, sentAt |-> now] ELSE e.out[f]
<1>0. /\ i.key \in Key /\ i.nonce \in Nonce /\ i.face \in Face /\ i.lifetime \in Nat
      /\ now \in Nat /\ now + i.lifetime \in Nat
  BY FwThreadAssumption DEF TypeOK
<1> DEFINE e == Entry(i)
           w == WithInRecord(i)
           x == WithExpiry(i, w)
           r == [nonce |-> i.nonce, sentAt |-> now]
           q == [nonce |-> i.nonce, expires |-> now + i.lifetime]
<1>1. e \in PitEntry /\ w \in PitEntry /\ w = [e EXCEPT !.in[i.face] = q]
  BY EntryType DEF WithInRecord
<1>2. q \in InRecord /\ q # None /\ q.nonce = i.nonce /\ q.expires = now + i.lifetime
  <2>1. q \in InRecord
    BY <1>0 DEF InRecord
  <2>2. None \notin InRecord
    BY NoneIsNoRecord
  <2> QED
    BY <2>1, <2>2
<1>3. PICK faces \in OutFaces(i, x) : pit' = [pit EXCEPT ![i.key] = [x EXCEPT !.out =
          [f \in Face |-> IF f \in faces THEN r ELSE x.out[f]]]]
  BY <1>1 DEF ForwardInterest, WithExpiry, WithTimer, PitEntry
<1>4. x \in PitEntry /\ x.in = w.in /\ x.out = w.out /\ x.timer = now + i.lifetime
  BY <1>0, <1>1, WithTimerType DEF WithExpiry, WithTimer, PitEntry
<1>5. /\ w.out = e.out /\ w.in[i.face] = q
      /\ \A f \in Face \ {i.face} : w.in[f] = e.in[f]
  BY <1>0, <1>1 DEF PitEntry
<1> DEFINE o == [f \in Face |-> IF f \in faces THEN r ELSE x.out[f]]
           d == [x EXCEPT !.out = o]
<1> HIDE DEF e, w, x, q
<1>6. d \in PitEntry /\ d.in = x.in /\ d.out = o /\ d.timer = x.timer
  <2>1. r \in OutRecord
    BY <1>0 DEF OutRecord
  <2>2. o \in [Face -> OutRecord \cup {None}]
    BY <1>4, <2>1 DEF PitEntry
  <2> HIDE DEF o
  <2> QED
    BY <1>4, <2>2 DEF PitEntry
<1>7. pit'[i.key] = d /\ \A k \in Key \ {i.key} : pit'[k] = pit[k]
  <2> HIDE DEF d
  <2> pit' = [pit EXCEPT ![i.key] = d]
    BY <1>3 DEF d
  <2> QED
    BY <1>0 DEF TypeOK
<1>8. \A f \in Face : d.out[f] = IF f \in faces THEN r ELSE e.out[f]
  BY <1>4, <1>5, <1>6
<1>9. d.in[i.face] = q /\ \A f \in Face \ {i.face} : d.in[f] = e.in[f]
  BY <1>4, <1>5, <1>6
<1>10. d.in[i.face].expires = now + i.lifetime /\ d.timer = now + i.lifetime
  BY <1>2, <1>4, <1>6, <1>9
<1> HIDE DEF d, r
<1> QED
  BY <1>1, <1>2, <1>3, <1>6, <1>7, <1>8, <1>9, <1>10 DEF e, x, w, r

\* What CsHit does to it: nothing but the timer, on a face that had not asked.
LEMMA HitEntry ==
    ASSUME TypeOK, NEW i \in traffic.interests, CsHit(i)
    PROVE  LET e == Entry(i)
               new == pit'[i.key]
           IN  /\ e \in PitEntry /\ new \in PitEntry
               /\ \A k \in Key \ {i.key} : pit'[k] = pit[k]
               /\ \A f \in Face : new.in[f] = e.in[f] /\ new.out[f] = e.out[f]
<1>0. i.key \in Key /\ i.face \in Face /\ now \in Nat
  BY FwThreadAssumption DEF TypeOK
<1> DEFINE e == Entry(i)
           w == [WithInRecord(i) EXCEPT !.in[i.face] = None]
           q == [nonce |-> i.nonce, expires |-> now + i.lifetime]
<1>1. e \in PitEntry /\ WithInRecord(i) \in PitEntry /\ WithInRecord(i) = [e EXCEPT !.in[i.face] = q]
  BY EntryType DEF WithInRecord
<1>2. e.in[i.face] = None
  BY DEF CsHit, AlreadyPending
<1>3. w \in PitEntry /\ w.out = e.out /\ \A f \in Face : w.in[f] = e.in[f]
  <2> HIDE DEF e, q
  <2> QED
    BY <1>0, <1>1, <1>2 DEF PitEntry
<1>4. pit' = [pit EXCEPT ![i.key] = WithTimer(w, now)]
  BY DEF CsHit
<1> HIDE DEF w, e
<1>5. WithTimer(w, now) \in PitEntry /\ WithTimer(w, now).in = w.in /\ WithTimer(w, now).out = w.out
  BY <1>0, <1>3, WithTimerType DEF WithTimer, PitEntry
<1>6. pit'[i.key] = WithTimer(w, now) /\ \A k \in Key \ {i.key} : pit'[k] = pit[k]
  BY <1>0, <1>4 DEF TypeOK
<1> QED
  BY <1>1, <1>3, <1>5, <1>6 DEF e

\* What Data does: it clears entries that match, and leaves the others alone.
LEMMA ClearedEntries ==
    ASSUME TypeOK, NEW d \in traffic.datas, SatisfyOne(d) \/ SatisfyAll(d)
    PROVE  /\ MatchingEntries(d) \subseteq Live
           /\ \A k \in Key \ MatchingEntries(d) : pit'[k] = pit[k]
           /\ \A k \in MatchingEntries(d) : pit'[k] \in PitEntry
                 /\ \A f \in Face : pit'[k].in[f] = None /\ pit'[k].out[f] = None
           /\ \E first \in MatchingEntries(d) :
                 dnl' = DnlInsert(dnl, d.name, OutNonces(pit[first]))
           /\ UNCHANGED <<now, traffic>>
<1>1. MatchingEntries(d) \subseteq Live
  BY DEF MatchingEntries, MatchByName
<1>2. \A k \in Live : k \in Key /\ pit[k] \in PitEntry
  BY DEF Live, TypeOK
<1>3. ASSUME NEW e \in PitEntry
      PROVE  Satisfied(e) \in PitEntry
             /\ \A f \in Face : Satisfied(e).in[f] = None /\ Satisfied(e).out[f] = None
  <2>1. now \in Nat
    BY FwThreadAssumption DEF TypeOK
  <2>2. WithTimer(e, now) \in PitEntry
    BY <2>1, WithTimerType
  <2> QED
    BY <2>2 DEF Satisfied, PitEntry
<1>4. CASE SatisfyOne(d)
  <2>1. PICK k \in Live : /\ MatchingEntries(d) = {k}
                          /\ pit' = [pit EXCEPT ![k] = Satisfied(pit[k])]
                          /\ dnl' = DnlInsert(dnl, d.name, OutNonces(pit[k]))
    BY <1>4 DEF SatisfyOne, DnlAfterData
  <2>2. pit'[k] = Satisfied(pit[k]) /\ \A j \in Key \ {k} : pit'[j] = pit[j]
    BY <1>2, <2>1 DEF TypeOK
  <2>3. UNCHANGED <<now, traffic>>
    BY <1>4 DEF SatisfyOne
  <2> QED
    BY <1>1, <1>2, <1>3, <2>1, <2>2, <2>3
<1>5. CASE SatisfyAll(d)
  <2>1. PICK first \in MatchingEntries(d) :
          /\ pit' = [k \in Key |-> IF k \in MatchingEntries(d) THEN Satisfied(pit[k]) ELSE pit[k]]
          /\ dnl' = DnlInsert(dnl, d.name, OutNonces(pit[first]))
    BY <1>5 DEF SatisfyAll, DnlAfterData, FirstEntries, Answered
  <2>2. UNCHANGED <<now, traffic>>
    BY <1>5 DEF SatisfyAll
  <2> QED
    BY <1>1, <1>2, <1>3, <2>1, <2>2
<1> QED
  BY <1>4, <1>5

\* Every step keeps the nonces of out-records guarded.
LEMMA GuardStep == GuardInv /\ [Next]_vars => GuardInv'
<1> SUFFICES ASSUME GuardInv, [Next]_vars PROVE GuardInv'
  OBVIOUS
<1>0. PitInv /\ PitInv' /\ TypeOK /\ now \in Nat /\ now' \in Nat /\ DnlLifetime \in Nat
  BY PitStep, FwThreadAssumption DEF GuardInv, PitInv, TypeOK
<1>1. ASSUME NEW i \in traffic.interests, ForwardInterest(i) PROVE GuardInv'
  <2> DEFINE e == Entry(i)
             new == pit'[i.key]
             r == [nonce |-> i.nonce, sentAt |-> now]
  <2>0. i.key \in Key /\ i.face \in Face
    BY <1>0, FwThreadAssumption DEF TypeOK
  <2>1. PICK faces :
          /\ e \in PitEntry /\ new \in PitEntry
          /\ \A k \in Key \ {i.key} : pit'[k] = pit[k]
          /\ new.in[i.face] # None /\ new.in[i.face].nonce = i.nonce
          /\ \A f \in Face \ {i.face} : new.in[f] = e.in[f]
          /\ \A f \in Face : new.out[f] = IF f \in faces THEN r ELSE e.out[f]
    BY <1>0, <1>1, ForwardedEntry
  <2>2. /\ DnlGrows /\ now' = now /\ <<i.key.name, i.nonce>> \notin DOMAIN dnl
        /\ e.in[i.face] # None => <<i.key.name, e.in[i.face].nonce>> \in DOMAIN dnl'
    BY <1>1, DnlInsertGrows DEF ForwardInterest, RejectedEarly, PreviousNonce, AlreadyPending
  <2>3. pit[i.key] = None => \A f \in Face : e.out[f] = None
    BY DEF Entry, NewEntry
  <2>4. pit[i.key] # None => e = pit[i.key]
    BY DEF Entry
  <2> HIDE DEF e
  <2>5. ASSUME NEW o \in Face, new.out[o] # None
        PROVE  OutKept(i.key, o) \/ OutNew(i.key, o)
    <3>1. CASE o \in faces
      <4>1. new.out[o].sentAt = now /\ new.out[o].nonce = i.nonce
        BY <2>1, <3>1
      <4> QED
        BY <4>1, <2>0, <2>1, <2>2 DEF OutNew
    <3>2. CASE o \notin faces
      <4>1. new.out[o] = e.out[o] /\ pit[i.key] # None /\ e = pit[i.key]
        BY <2>1, <2>3, <2>4, <2>5, <3>2
      <4>2. i.key \in Live
        BY <2>0, <4>1 DEF Live
      <4>3. ASSUME NEW f \in InFaces(pit[i.key])
            PROVE  \/ new.in[f] # None /\ new.in[f].nonce = pit[i.key].in[f].nonce
                   \/ <<i.key.name, pit[i.key].in[f].nonce>> \in DOMAIN dnl'
        BY <4>1, <2>1, <2>2 DEF InFaces
      <4> QED
        BY <4>1, <4>2, <4>3 DEF OutKept
    <3> QED
      BY <3>1, <3>2
  <2>6. ASSUME NEW k \in Key, k # i.key, NEW o \in Face, pit'[k] # None, pit'[k].out[o] # None
        PROVE  OutKept(k, o)
    BY <2>1, <2>6 DEF OutKept, Live, InFaces
  <2> QED
    BY <1>0, <2>2, <2>5, <2>6, GuardKept
<1>2. ASSUME NEW i \in traffic.interests, CsHit(i) PROVE GuardInv'
  <2>0. i.key \in Key /\ now' = now /\ dnl' = dnl
    BY <1>0, <1>2, FwThreadAssumption DEF TypeOK, CsHit
  <2>1. DnlGrows
    BY <2>0 DEF DnlGrows
  <2>2. ASSUME NEW k \in Key, NEW o \in Face, pit'[k] # None, pit'[k].out[o] # None
        PROVE  OutKept(k, o)
    <3>1. CASE k # i.key
      BY <1>0, <1>2, HitEntry, <2>2, <3>1 DEF OutKept, Live, InFaces
    <3>2. CASE k = i.key
      <4>1. \A f \in Face : pit'[k].in[f] = Entry(i).in[f] /\ pit'[k].out[f] = Entry(i).out[f]
        BY <1>0, <1>2, HitEntry, <3>2
      <4>2. pit[k] # None /\ Entry(i) = pit[k]
        BY <2>2, <3>2, <4>1 DEF Entry, NewEntry
      <4> QED
        BY <4>1, <4>2 DEF OutKept, Live, InFaces
    <3> QED
      BY <3>1, <3>2
  <2> QED
    BY <1>0, <2>0, <2>1, <2>2, GuardKept
<1>3. ASSUME NEW d \in traffic.datas, SatisfyOne(d) \/ SatisfyAll(d) PROVE GuardInv'
  <2>1. DnlGrows /\ now' = now
    BY <1>0, <1>3, ClearedEntries, DnlInsertGrows
  <2>2. ASSUME NEW k \in Key, NEW o \in Face, pit'[k] # None, pit'[k].out[o] # None
        PROVE  OutKept(k, o)
    <3>1. pit'[k] = pit[k]
      BY <1>0, <1>3, <2>2, ClearedEntries
    <3> QED
      BY <2>2, <3>1 DEF OutKept, Live, InFaces
  <2> QED
    BY <1>0, <2>1, <2>2, GuardKept
<1>4. ASSUME now' >= now, DnlGrows, \A k \in Key : pit'[k] # None => pit'[k] = pit[k]
      PROVE  GuardInv'
  <2>1. ASSUME NEW k \in Key, NEW o \in Face, pit'[k] # None, pit'[k].out[o] # None
        PROVE  OutKept(k, o)
    BY <1>4, <2>1 DEF OutKept, Live, InFaces
  <2> QED
    BY <1>0, <1>4, <2>1, GuardKept
<1>5. CASE Update
  <2>1. DnlGrows
    BY <1>5 DEF Update, Finalize, DnlGrows
  <2> QED
    BY <1>0, <1>4, <1>5, <2>1 DEF Update
<1>6. CASE DnlUpdate
  <2>1. /\ UNCHANGED <<pit, now>> /\ DOMAIN dnl' \subseteq DOMAIN dnl
        /\ \A d \in DOMAIN dnl' : dnl'[d] = dnl[d]
        /\ \A d \in DOMAIN dnl \ DOMAIN dnl' : dnl[d] < now
    BY <1>6 DEF DnlUpdate
  <2>2. DnlTyped'
    BY <2>1 DEF DnlTyped, GuardInv
  <2>3. OutAges'
    BY <2>1 DEF OutAges, GuardInv, Live
  <2>4. ASSUME NEW k \in Live, NEW o \in Face, pit[k].out[o] # None,
               <<k.name, pit[k].out[o].nonce>> \in DOMAIN dnl \ DOMAIN dnl'
        PROVE  pit[k].out[o].sentAt + DnlLifetime < now
    <3> DEFINE x == <<k.name, pit[k].out[o].nonce>>
    <3>1. dnl[x] < now /\ dnl[x] \in Nat
      BY <2>1, <2>4 DEF GuardInv, DnlTyped
    <3>2. dnl[x] >= pit[k].out[o].sentAt + DnlLifetime
      BY <2>4 DEF GuardInv, OutAges
    <3>3. pit[k].out[o].sentAt \in Nat
      BY <1>0, <2>4 DEF TypeOK, PitEntry, OutRecord, Live
    <3> HIDE DEF x
    <3> QED
      BY <1>0, <3>1, <3>2, <3>3
  <2>5. OutNoncesGuarded'
    <3> SUFFICES ASSUME NEW k \in Live, NEW o \in Face, pit[k].out[o] # None
                 PROVE  \/ <<k.name, pit[k].out[o].nonce>> \in DOMAIN dnl'
                        \/ \E f \in InFaces(pit[k]) : pit[k].in[f].nonce = pit[k].out[o].nonce
                        \/ pit[k].out[o].sentAt + DnlLifetime < now
      BY <2>1 DEF OutNoncesGuarded, Live, InFaces
    <3>1. CASE <<k.name, pit[k].out[o].nonce>> \in DOMAIN dnl
      BY <2>4, <3>1
    <3>2. CASE <<k.name, pit[k].out[o].nonce>> \notin DOMAIN dnl
      BY <3>2 DEF GuardInv, OutNoncesGuarded
    <3> QED
      BY <3>1, <3>2
  <2> QED
    BY <1>0, <2>2, <2>3, <2>5 DEF GuardInv
<1>7. CASE Tick
  <2>1. DnlGrows
    BY <1>7 DEF Tick, DnlGrows
  <2> QED
    BY <1>0, <1>4, <1>7, <2>1 DEF Tick
<1>8. CASE UNCHANGED <<pit, dnl, now>>
  <2>1. DnlGrows
    BY <1>8 DEF DnlGrows
  <2> QED
    BY <1>0, <1>4, <1>8, <2>1
<1>9. ASSUME NEW i \in traffic.interests, DropInterest(i) PROVE GuardInv'
  BY <1>8, <1>9 DEF DropInterest
<1>10. ASSUME NEW d \in traffic.datas, UnsolicitedData(d) PROVE GuardInv'
  BY <1>8, <1>10 DEF UnsolicitedData
<1>11. CASE UNCHANGED vars
  BY <1>8, <1>11 DEF vars
<1> QED
  BY <1>1, <1>2, <1>3, <1>5, <1>6, <1>7, <1>9, <1>10, <1>11 DEF Next

\* A forwarded Interest that loops back is recognised, by an in-record of its
\* entry or by the dead nonce list, for as long as dead nonces are kept:
\* whatever the order of retransmissions, expiries and clean-ups of the list.
THEOREM LoopsRecognised == Spec => []OutNoncesGuarded
<1>1. Init => GuardInv
  <2> SUFFICES ASSUME Init PROVE GuardInv
    OBVIOUS
  <2>1. PitInv
    BY FwThreadAssumption DEF Init, PitInv, TypeOK, EveryEntryTimed, Live
  <2>2. Live = {}
    BY DEF Init, Live
  <2> QED
    BY <2>1, <2>2 DEF Init, GuardInv, DnlTyped, OutAges, OutNoncesGuarded
<1>2. GuardInv => OutNoncesGuarded
  BY DEF GuardInv
<1> QED
  BY <1>1, <1>2, GuardStep, PTL DEF Spec

----------------------------------------------------------------------------
(* Action properties *)

\* Data without a token clears every entry that its name matches, whichever
\* of the two paths it takes.
THEOREM DataClearsEntries == Spec => DataSatisfiesAll
<1>1. ASSUME TypeOK, NEW d \in traffic.datas, d.token = None, SatisfyOne(d) \/ SatisfyAll(d),
             NEW k \in MatchByName(d.name)
      PROVE  InFaces(pit'[k]) = {}
  <2>1. k \in MatchingEntries(d)
    BY <1>1 DEF MatchingEntries
  <2> QED
    BY <1>1, <2>1, ClearedEntries DEF InFaces
<1>2. PitInv /\ [Next]_vars =>
        [\A d \in traffic.datas : d.token = None /\ (SatisfyOne(d) \/ SatisfyAll(d)) =>
            \A k \in MatchByName(d.name) : InFaces(pit'[k]) = {}]_vars
  BY <1>1 DEF PitInv
<1>3. Spec => []PitInv
  BY EntriesTimed, PTL DEF PitInv
<1> QED
  BY <1>2, <1>3, PTL DEF Spec, DataSatisfiesAll

\* The Data that ends an entry no other Data can end has the entry's name.
LEMMA AloneData ==
    ASSUME HonestTokens, TypeOK, NEW d \in traffic.datas, SatisfyOne(d) \/ SatisfyAll(d),
           NEW k \in MatchingEntries(d), Alone(k)
    PROVE  d.name = k.name /\ MatchingEntries(d) = {k}
<1>1. k \in Key /\ ~k.canBePrefix /\ MatchByName(k.name) = {k}
  BY DEF MatchingEntries, MatchByName, Live, Alone
<1>2. CASE d.token # None /\ d.token \in Live
  <2>1. MatchingEntries(d) = {d.token} /\ d.token = k
    BY <1>2 DEF MatchingEntries
  <2>2. d.name = k.name
    BY <1>1, <2>1 DEF HonestTokens, Accepts, TypeOK
  <2> QED
    BY <2>1, <2>2
<1>3. CASE ~(d.token # None /\ d.token \in Live)
  <2>1. MatchingEntries(d) = MatchByName(d.name)
    BY <1>3 DEF MatchingEntries
  <2>2. d.name = k.name
    BY <1>1, <2>1 DEF MatchByName, Accepts
  <2> QED
    BY <1>1, <2>1, <2>2
<1> QED
  BY <1>2, <1>3

\* If faces send tokens only with the Data they were made for, an out-record
\* that goes leaves its nonce in the dead nonce list: on expiry always, and on
\* Data when that Data can end no other entry.
THEOREM NoncesOutliveEntries ==
    ASSUME HonestTokens
    PROVE  Spec => OutNoncesDead
<1> DEFINE Kept(k, x) ==
      \/ pit'[k] # None /\ \E f \in Face : pit[k].out[f] # None /\ pit'[k].out[f] # None
                                           /\ pit[k].out[f].nonce = x
      \/ <<k.name, x>> \in DOMAIN dnl'
<1>1. ASSUME PitInv, [Next]_vars, NEW k \in Live, Alone(k), NEW x \in OutNonces(pit[k])
      PROVE  Kept(k, x)
  <2>0. TypeOK /\ k \in Key /\ pit[k] # None
    BY <1>1 DEF PitInv, Live
  <2>1. PICK f \in Face : pit[k].out[f] # None /\ pit[k].out[f].nonce = x
    BY DEF OutNonces
  <2>2. ASSUME pit'[k] # None, pit'[k].out[f] # None PROVE Kept(k, x)
    BY <2>1, <2>2
  <2>3. CASE pit'[k] = pit[k]
    BY <2>0, <2>1, <2>2, <2>3
  <2>4. ASSUME NEW i \in traffic.interests, ForwardInterest(i) PROVE Kept(k, x)
    <3>1. CASE k # i.key
      <4>1. pit'[k] = pit[k]
        BY <2>0, <2>4, <3>1, ForwardedEntry
      <4> QED
        BY <4>1, <2>3
    <3>2. CASE k = i.key
      <4>1. Entry(i) = pit[k]
        BY <2>0, <3>2 DEF Entry
      <4>2. PICK faces : /\ pit'[k] \in PitEntry
                         /\ \A g \in Face : pit'[k].out[g] = IF g \in faces
                              THEN [nonce |-> i.nonce, sentAt |-> now] ELSE pit[k].out[g]
        BY <2>0, <2>4, <3>2, <4>1, ForwardedEntry
      <4>3. [nonce |-> i.nonce, sentAt |-> now] # None
        <5>1. [nonce |-> i.nonce, sentAt |-> now] \in OutRecord
          BY <2>0, FwThreadAssumption DEF TypeOK, OutRecord
        <5> QED
          BY <5>1, NoneIsNoRecord
      <4>4. pit'[k] # None
        BY <4>2, NoneIsNoRecord
      <4> QED
        BY <2>1, <2>2, <4>2, <4>3, <4>4
    <3> QED
      BY <3>1, <3>2
  <2>5. ASSUME NEW i \in traffic.interests, CsHit(i) PROVE Kept(k, x)
    <3>1. CASE k # i.key
      <4>1. pit'[k] = pit[k]
        BY <2>0, <2>5, <3>1, HitEntry
      <4> QED
        BY <4>1, <2>3
    <3>2. CASE k = i.key
      <4>1. Entry(i) = pit[k]
        BY <2>0, <3>2 DEF Entry
      <4>2. pit'[k] \in PitEntry /\ pit'[k].out[f] = pit[k].out[f]
        BY <2>0, <2>5, <3>2, <4>1, HitEntry
      <4> QED
        BY <2>1, <2>2, <4>2, NoneIsNoRecord
    <3> QED
      BY <3>1, <3>2
  <2>6. ASSUME NEW d \in traffic.datas, SatisfyOne(d) \/ SatisfyAll(d) PROVE Kept(k, x)
    <3>1. CASE k \notin MatchingEntries(d)
      <4>1. pit'[k] = pit[k]
        BY <2>0, <2>6, <3>1, ClearedEntries
      <4> QED
        BY <4>1, <2>3
    <3>2. CASE k \in MatchingEntries(d)
      <4>1. d.name = k.name /\ MatchingEntries(d) = {k}
        BY <1>1, <2>0, <2>6, <3>2, AloneData
      <4>2. dnl' = DnlInsert(dnl, k.name, OutNonces(pit[k]))
        BY <2>0, <2>6, <4>1, ClearedEntries
      <4> QED
        BY <1>1, <4>2, DnlInsertGrows
    <3> QED
      BY <3>1, <3>2
  <2>7. CASE Update
    <3>1. CASE k \in Expired
      <4>1. <<k.name, x>> \in {k.name} \X OutNonces(pit[k])
        BY <1>1
      <4> QED
        BY <2>7, <3>1, <4>1 DEF Update, Finalize
    <3>2. CASE k \notin Expired
      BY <2>0, <2>3, <2>7, <3>2 DEF Update
    <3> QED
      BY <3>1, <3>2
  <2>8. CASE UNCHANGED pit
    BY <2>3, <2>8
  <2> QED
    BY <1>1, <2>4, <2>5, <2>6, <2>7, <2>8
    DEF Next, vars, DropInterest, UnsolicitedData, DnlUpdate, Tick
<1>2. PitInv /\ [Next]_vars =>
        [\A k \in Live : Alone(k) => \A x \in OutNonces(pit[k]) : Kept(k, x)]_vars
  BY <1>1
<1>3. Spec => []PitInv
  BY EntriesTimed, PTL DEF PitInv
<1> QED
  BY <1>2, <1>3, PTL DEF Spec, OutNoncesDead

\* The least of some naturals is one of them.
LEMMA MinOfNaturals ==
    ASSUME NEW T \in SUBSET Nat, T # {}
    PROVE  Min(T) \in T
<1> DEFINE R == OpToRel(<, Nat)
<1>1. IsWellFoundedOn(R, Nat)
  BY NatLessThanWellFounded
<1>2. \A a, b \in Nat : a < b => <<a, b>> \in R
  BY DEF OpToRel
<1> HIDE DEF R
<1>3. PICK x \in T : \A y \in T : ~(<<y, x>> \in R)
  BY <1>1, WFMin
<1>4. ASSUME NEW y \in T PROVE x <= y
  <2>1. x \in Nat /\ y \in Nat /\ ~(y < x)
    BY <1>2, <1>3
  <2> QED
    BY <2>1
<1> QED
  BY <1>4 DEF Min

\* The best-route strategy chooses no face that got an Interest a moment ago,
\* neither on its first nor on its second pass.
LEMMA ChosenNotSuppressed ==
    ASSUME NEW sorted, DOMAIN sorted \subseteq Nat, NEW out, NEW usable, NEW t,
           ChosenHop(sorted, out, usable, t) # 0
    PROVE  ~Suppressed(out, sorted[ChosenHop(sorted, out, usable, t)].face, t)
<1> DEFINE first == FirstPassStops(sorted, out, usable, t)
           second == SecondPassStops(sorted, usable)
<1>1. first \subseteq Nat /\ second \subseteq Nat /\ second \subseteq DOMAIN sorted
  BY DEF FirstPassStops, SecondPassStops
<1>2. CASE first # {}
  <2> HIDE DEF first
  <2> QED
    BY <1>2 DEF ChosenHop, first
<1>3. CASE first = {}
  <2>1. second # {} /\ ChosenHop(sorted, out, usable, t) = Min(second)
    BY <1>3 DEF ChosenHop
  <2>2. Min(second) \in DOMAIN sorted
    <3> HIDE DEF second
    <3> QED
      BY <1>1, <2>1, MinOfNaturals
  <2> QED
    BY <1>3, <2>1, <2>2 DEF FirstPassStops
<1> QED
  BY <1>2, <1>3

\* A face that the best-route strategy sends to has no out-record or one that
\* is older than the suppression time.
LEMMA OutFacesSpaced ==
    ASSUME NEW i, i.key \in Key, NEW e \in PitEntry, now \in Nat,
           Strategy[i.key] = "best-route", i.nextHop = None,
           NEW faces \in OutFaces(i, e), NEW f \in faces, f \in Face,
           f \notin Range(LocalHops[i.key]), e.out[f] # None
    PROVE  now >= e.out[f].sentAt + SuppressionTime
<1>1. LocalHops[i.key] \in Seq(Face) /\ NetHops[i.key] \in Seq([face : Face, cost : Nat])
  BY FwThreadAssumption
<1>2. AllowedLocal(i, e) = {}
  <2> SUFFICES ASSUME AllowedLocal(i, e) # {} PROVE FALSE
    OBVIOUS
  <2>1. f = LocalHops[i.key][Min(AllowedLocal(i, e))]
    BY DEF OutFaces
  <2>2. AllowedLocal(i, e) \subseteq DOMAIN LocalHops[i.key] /\ AllowedLocal(i, e) \subseteq Nat
    BY <1>1 DEF AllowedLocal
  <2>3. Min(AllowedLocal(i, e)) \in DOMAIN LocalHops[i.key]
    BY <2>2, MinOfNaturals
  <2> QED
    BY <2>1, <2>3 DEF Range
<1> DEFINE net == AllowedNet(i, e)
           out == SentAt(e)
           usable == {g \in Face : MaySend(i, g)}
<1>3. DOMAIN net \subseteq Nat
  BY <1>1 DEF AllowedNet, Restrict
<1> HIDE DEF net
<1>4. faces \in BestRouteFaces(i, e, net)
  BY <1>2 DEF OutFaces, net
<1> HIDE DEF out, usable
<1>5. PICK sorted \in SortedHops(net) :
        /\ ChosenHop(sorted, out, usable, now) # 0
        /\ f = sorted[ChosenHop(sorted, out, usable, now)].face
  BY <1>4 DEF BestRouteFaces, out, usable
<1>6. DOMAIN sorted \subseteq Nat
  BY <1>3, <1>5 DEF SortedHops
<1>7. ~Suppressed(out, f, now)
  BY <1>5, <1>6, ChosenNotSuppressed
<1>8. e.out[f] \in OutRecord
  BY DEF PitEntry
<1>9. out[f] = e.out[f].sentAt /\ out[f] \in Nat
  BY <1>8 DEF out, SentAt, OutRecord
<1> QED
  BY <1>7, <1>9, BestRouteAssumption DEF Suppressed

\* Best-route sends two Interests for one entry to one face only when the
\* suppression time is over, for any next hops, costs and senders.
THEOREM RetransmissionsAreSpaced == Spec => RetransmissionsSpaced
<1> DEFINE Spaced(k) ==
      Strategy[k] = "best-route" /\ pit'[k] # None
            /\ (\A i \in traffic.interests : i.key = k => i.nextHop = None) =>
         \A f \in Face \ Range(LocalHops[k]) :
             pit[k].out[f] # None /\ pit'[k].out[f] \notin {None, pit[k].out[f]} =>
                pit'[k].out[f].sentAt >= pit[k].out[f].sentAt + SuppressionTime
<1>1. ASSUME PitInv, [Next]_vars, NEW k \in Live
      PROVE  Spaced(k)
  <2>0. TypeOK /\ k \in Key /\ pit[k] # None /\ now \in Nat
    BY <1>1, FwThreadAssumption DEF PitInv, Live, TypeOK
  <2> SUFFICES ASSUME Strategy[k] = "best-route", pit'[k] # None,
                      \A i \in traffic.interests : i.key = k => i.nextHop = None,
                      NEW f \in Face \ Range(LocalHops[k]), pit[k].out[f] # None,
                      pit'[k].out[f] \notin {None, pit[k].out[f]}
               PROVE  pit'[k].out[f].sentAt >= pit[k].out[f].sentAt + SuppressionTime
    OBVIOUS
  <2>1. PICK i \in traffic.interests : ForwardInterest(i) /\ k = i.key
    <3>1. ASSUME NEW i \in traffic.interests, CsHit(i) PROVE FALSE
      <4>1. CASE k # i.key
        BY <2>0, <3>1, <4>1, HitEntry
      <4>2. CASE k = i.key
        <5>1. Entry(i) = pit[k]
          BY <2>0, <4>2 DEF Entry
        <5> QED
          BY <2>0, <3>1, <4>2, <5>1, HitEntry
      <4> QED
        BY <4>1, <4>2
    <3>2. ASSUME NEW d \in traffic.datas, SatisfyOne(d) \/ SatisfyAll(d) PROVE FALSE
      BY <2>0, <3>2, ClearedEntries
    <3>3. ~Update
      BY <2>0 DEF Update
    <3>4. ~UNCHANGED pit
      OBVIOUS
    <3>5. \E i \in traffic.interests : ForwardInterest(i)
      BY <1>1, <3>1, <3>2, <3>3, <3>4
      DEF Next, vars, DropInterest, UnsolicitedData, DnlUpdate, Tick
    <3> QED
      BY <2>0, <3>5, ForwardedEntry
  <2> DEFINE e == WithExpiry(i, WithInRecord(i))
  <2>2. Entry(i) = pit[k]
    BY <2>0, <2>1 DEF Entry
  <2>3. PICK faces \in OutFaces(i, e) : \A g \in Face : pit'[k].out[g] =
          IF g \in faces THEN [nonce |-> i.nonce, sentAt |-> now] ELSE pit[k].out[g]
    BY <2>0, <2>1, <2>2, ForwardedEntry
  <2>4. f \in faces /\ pit'[k].out[f].sentAt = now
    BY <2>3
  <2>5. e \in PitEntry /\ e.out[f] = pit[k].out[f]
    <3>1. now + i.lifetime \in Nat
      BY <2>0, FwThreadAssumption DEF TypeOK
    <3>2. WithInRecord(i) \in PitEntry /\ WithInRecord(i).out = pit[k].out
      BY <2>0, <2>2, EntryType DEF WithInRecord, PitEntry
    <3> HIDE DEF e
    <3> QED
      BY <3>1, <3>2, WithTimerType DEF e, WithExpiry, WithTimer, PitEntry
  <2> HIDE DEF e
  <2> QED
    BY <2>0, <2>1, <2>3, <2>4, <2>5, OutFacesSpaced
<1>2. PitInv /\ [Next]_vars => [\A k \in Live : Spaced(k)]_vars
  BY <1>1
<1>3. Spec => []PitInv
  BY EntriesTimed, PTL DEF PitInv
<1> QED
  BY <1>2, <1>3, PTL DEF Spec, RetransmissionsSpaced
----------------------------------------------------------------------------
(* Pending Interests *)

\* Data answers the entry, but not the face.
CutOff(d, k, f) ==
    /\ SatisfyOne(d) \/ SatisfyAll(d)
    /\ k \in MatchingEntries(d)
    /\ ~DataScope(d, f) \/ (f = d.face /\ Cardinality(MatchingEntries(d)) > 1)

\* A face that asked stays in the PIT until Data is sent to it, and there are
\* three ways to go without: the entry's time is over, which another Interest or
\* a hit in the Content Store may have moved forward; Data answers the entry but
\* may not leave to the face; or it answers several entries and came from there.
PendingAccountedFor ==
    [][\A k \in Live : \A f \in InFaces(pit[k]) :
         \/ pit'[k] # None /\ pit'[k].in[f] # None
         \/ \E p \in sent' : p.type = "data" /\ p.face = f
         \/ k \in Expired
         \/ \E d \in traffic.datas : CutOff(d, k, f)]_vars

\* Data that clears an in-record is sent to its face, but for scope and for the
\* face it came from when several entries are answered.
LEMMA ClearedAreAnswered ==
    ASSUME NEW d, SatisfyOne(d) \/ SatisfyAll(d),
           NEW k \in MatchingEntries(d), NEW f \in InFaces(pit[k]), DataScope(d, f),
           ~(f = d.face /\ Cardinality(MatchingEntries(d)) > 1)
    PROVE  \E p \in sent' : p.type = "data" /\ p.face = f
<1> DEFINE p == [type |-> "data", face |-> f, name |-> d.name]
<1>1. CASE SatisfyOne(d)
  <2>1. sent' = Outgoing(d, InFaces(pit[k]))
    BY <1>1 DEF SatisfyOne
  <2>2. p \in sent'
    BY <2>1 DEF Outgoing
  <2> QED
    BY <2>2
<1>2. CASE SatisfyAll(d)
  <2>1. sent' = Outgoing(d, (UNION {InFaces(pit[j]) : j \in MatchingEntries(d)}) \ {d.face})
    BY <1>2 DEF SatisfyAll, Answered
  <2>2. f \in (UNION {InFaces(pit[j]) : j \in MatchingEntries(d)}) \ {d.face}
    BY <1>2 DEF SatisfyAll
  <2>3. p \in sent'
    BY <2>1, <2>2 DEF Outgoing
  <2> QED
    BY <2>3
<1> QED
  BY <1>1, <1>2

\* Whatever faces send, an in-record is not lost to another Interest or to
\* another entry's Data: it goes with Data of its own, or in one of three ways.
THEOREM PendingInterestsAccountedFor == Spec => PendingAccountedFor
<1> DEFINE Kept(k, f) == \/ pit'[k] # None /\ pit'[k].in[f] # None
                         \/ \E p \in sent' : p.type = "data" /\ p.face = f
                         \/ k \in Expired
                         \/ \E d \in traffic.datas : CutOff(d, k, f)
<1>1. ASSUME PitInv, [Next]_vars, NEW k \in Live, NEW f \in InFaces(pit[k])
      PROVE  Kept(k, f)
  <2>0. /\ TypeOK /\ EveryEntryTimed /\ now \in Nat /\ k \in Key /\ pit[k] # None
        /\ pit[k] \in PitEntry /\ f \in Face /\ pit[k].in[f] # None
    BY <1>1, FwThreadAssumption DEF PitInv, TypeOK, Live, InFaces
  <2>1. CASE pit'[k] = pit[k]
    BY <2>0, <2>1
  <2>2. ASSUME NEW i \in traffic.interests, ForwardInterest(i) PROVE Kept(k, f)
    <3>1. /\ k # i.key => pit'[k] = pit[k]
          /\ k = i.key => /\ pit'[k] \in PitEntry /\ pit'[k].in[i.face] # None
                          /\ f # i.face => pit'[k].in[f] = Entry(i).in[f]
      BY <2>0, <2>2, ForwardedEntry
    <3>2. k = i.key => Entry(i) = pit[k]
      BY <2>0 DEF Entry
    <3> QED
      BY <2>0, <2>1, <3>1, <3>2, NoneIsNoRecord
  <2>3. ASSUME NEW i \in traffic.interests, CsHit(i) PROVE Kept(k, f)
    <3>1. /\ k # i.key => pit'[k] = pit[k]
          /\ k = i.key => pit'[k] \in PitEntry /\ pit'[k].in[f] = Entry(i).in[f]
      BY <2>0, <2>3, HitEntry
    <3>2. k = i.key => Entry(i) = pit[k]
      BY <2>0 DEF Entry
    <3> QED
      BY <2>0, <2>1, <3>1, <3>2, NoneIsNoRecord
  <2>4. ASSUME NEW d \in traffic.datas, SatisfyOne(d) \/ SatisfyAll(d) PROVE Kept(k, f)
    <3>1. CASE k \in MatchingEntries(d)
      <4>1. CASE ~DataScope(d, f) \/ (f = d.face /\ Cardinality(MatchingEntries(d)) > 1)
        BY <2>4, <3>1, <4>1 DEF CutOff
      <4>2. CASE DataScope(d, f) /\ ~(f = d.face /\ Cardinality(MatchingEntries(d)) > 1)
        BY <1>1, <2>4, <3>1, <4>2, ClearedAreAnswered
      <4> QED
        BY <4>1, <4>2
    <3>2. CASE k \notin MatchingEntries(d)
      BY <2>0, <2>1, <2>4, <3>2, ClearedEntries
    <3> QED
      BY <3>1, <3>2
  <2>5. CASE Update
    BY <2>0, <2>1, <2>5 DEF Update
  <2>6. CASE UNCHANGED pit
    BY <2>1, <2>6
  <2> QED
    BY <1>1, <2>2, <2>3, <2>4, <2>5, <2>6
    DEF Next, vars, DropInterest, UnsolicitedData, DnlUpdate, Tick
<1>2. PitInv /\ [Next]_vars => [\A k \in Live : \A f \in InFaces(pit[k]) : Kept(k, f)]_vars
  BY <1>1
<1>3. Spec => []PitInv
  BY EntriesTimed, PTL DEF PitInv
<1> QED
  BY <1>2, <1>3, PTL DEF Spec, PendingAccountedFor
=============================================================================
