-------------------------- MODULE DvAdvert_proofs --------------------------
(***************************************************************************)
(* For any number of boots, advertisements and false deaths: the types,    *)
(* that no wanted advertisement is forgotten, and that none is replaced by *)
(* an older one.                                                           *)
(***************************************************************************)
EXTENDS DvAdvert, TLAPS

\* Every step of the neighbour or of the router keeps the types.
LEMMA TypeStep == AdvertTypeOK /\ [AdvertNext]_advertVars => AdvertTypeOK'
<1> SUFFICES ASSUME AdvertTypeOK, [AdvertNext]_advertVars PROVE AdvertTypeOK'
  OBVIOUS
<1> USE DvAdvertAssumption DEF Version, Boot, AdvertTypeOK
<1>1. CASE generate
  BY <1>1 DEF generate
<1>2. CASE SendSyncInterest
  BY <1>2 DEF SendSyncInterest
<1>3. CASE Restart
  BY <1>3 DEF Restart
<1>4. ASSUME NEW v \in Version, onStateVector(v) PROVE AdvertTypeOK'
  BY <1>4 DEF onStateVector
<1>5. ASSUME NEW v \in Version, DataFetch(v) PROVE AdvertTypeOK'
  BY <1>5 DEF DataFetch
<1>6. ASSUME NEW v \in Version, FetchFailed(v) PROVE AdvertTypeOK'
  BY <1>6 DEF FetchFailed
<1>7. ASSUME NEW v \in Version, FetchDone(v) PROVE AdvertTypeOK'
  BY <1>7 DEF FetchDone
<1>8. ASSUME NEW v \in Version, dataHandler(v) PROVE AdvertTypeOK'
  <2>1. update' \in BOOLEAN
    BY <1>8, Zenon DEF dataHandler, IsLatest
  <2>2. nsAdvert' \in Version \cup {NoVersion}
    BY <1>8 DEF dataHandler
  <2> QED
    BY <1>8, <2>1, <2>2 DEF dataHandler
<1>9. CASE updateRib
  BY <1>9 DEF updateRib
<1>10. CASE Dead
  <2>1. faults' \in 0..MaxFaults /\ boot' \in 1..(faults' + 1)
    BY <1>10 DEF Dead
  <2> QED
    BY <1>10, <2>1, Zenon DEF Dead
<1>11. CASE UNCHANGED advertVars
  BY <1>11 DEF advertVars
<1> QED
  BY <1>1, <1>2, <1>3, <1>4, <1>5, <1>6, <1>7, <1>8, <1>9, <1>10, <1>11 DEF AdvertNext

\* Every variable keeps its type, whatever the order of timers, fetches,
\* handlers, restarts and deaths.
THEOREM AdvertTypeCorrect == AdvertSpec => []AdvertTypeOK
<1>1. AdvertInit => AdvertTypeOK
  <2> SUFFICES ASSUME AdvertInit PROVE AdvertTypeOK
    OBVIOUS
  <2>1. boot \in 1..(faults + 1) /\ seq \in 1..MaxSeq /\ faults \in 0..MaxFaults
    BY DvAdvertAssumption DEF AdvertInit
  <2> QED
    BY <2>1, DvAdvertAssumption DEF AdvertInit, AdvertTypeOK
<1> QED
  BY <1>1, TypeStep, PTL DEF AdvertSpec

\* A step leaves nothing wanted behind: what onStateVector asks for gets a
\* timer, the timer a fetch, the fetch a handler or a new timer, and the handler
\* stores it and starts updateRib.
LEMMA WantedStep ==
    AdvertTypeOK /\ WantedNotForgotten /\ [AdvertNext]_advertVars => WantedNotForgotten'
<1> SUFFICES ASSUME AdvertTypeOK, WantedNotForgotten, [AdvertNext]_advertVars
             PROVE  WantedNotForgotten'
  OBVIOUS
<1> USE DEF WantedNotForgotten
<1>1. CASE generate \/ SendSyncInterest \/ Restart
  BY <1>1 DEF generate, SendSyncInterest, Restart
<1>2. ASSUME NEW v \in Version, onStateVector(v) PROVE WantedNotForgotten'
  BY <1>2 DEF onStateVector
<1>3. ASSUME NEW v \in Version, DataFetch(v) PROVE WantedNotForgotten'
  BY <1>3 DEF DataFetch
<1>4. ASSUME NEW v \in Version, FetchFailed(v) \/ FetchDone(v) PROVE WantedNotForgotten'
  BY <1>4 DEF FetchFailed, FetchDone
<1>5. ASSUME NEW v \in Version, dataHandler(v) PROVE WantedNotForgotten'
  <2>1. CASE IsLatest(v)
    BY <1>5, <2>1, DvAdvertAssumption DEF dataHandler, IsLatest, Version, Boot, AdvertTypeOK
  <2>2. CASE ~IsLatest(v)
    BY <1>5, <2>2 DEF dataHandler, IsLatest
  <2> QED
    BY <2>1, <2>2
<1>6. CASE updateRib
  BY <1>6 DEF updateRib
<1>7. CASE Dead
  BY <1>7 DEF Dead
<1>8. CASE UNCHANGED advertVars
  BY <1>8 DEF advertVars
<1> QED
  BY <1>1, <1>2, <1>3, <1>4, <1>5, <1>6, <1>7, <1>8 DEF AdvertNext

\* The latest advertisement a router was told of is never forgotten, across any
\* number of restarts, deaths and failed fetches.
THEOREM NothingForgotten == AdvertSpec => []WantedNotForgotten
<1>1. AdvertInit => WantedNotForgotten
  BY DEF AdvertInit, WantedNotForgotten
<1> QED
  BY <1>1, AdvertTypeCorrect, WantedStep, PTL DEF AdvertSpec

\* What AdvertNeverOlder rests on: nobody has heard of a boot that is still to
\* come, and until the neighbour restarts what is stored is not newer than what
\* is wanted, so that onStateVector can only ask for something newer.
NewestWanted ==
    /\ \A v \in syncs : v[1] <= boot
    /\ known # NoVersion => known[1] <= boot
    /\ boot = 1 /\ nsAdvert # NoVersion => known # NoVersion /\ nsAdvert[2] <= known[2]

\* A step that stores an advertisement stores the wanted one.
LEMMA NewestWantedStep ==
    AdvertTypeOK /\ NewestWanted /\ [AdvertNext]_advertVars => NewestWanted'
<1> SUFFICES ASSUME AdvertTypeOK, NewestWanted, [AdvertNext]_advertVars PROVE NewestWanted'
  OBVIOUS
<1> USE DvAdvertAssumption DEF NewestWanted, AdvertTypeOK, Version, Boot
<1>1. CASE generate \/ updateRib \/ UNCHANGED advertVars
  BY <1>1 DEF generate, updateRib, advertVars
<1>2. CASE SendSyncInterest
  BY <1>2 DEF SendSyncInterest
<1>3. CASE Restart
  BY <1>3 DEF Restart
<1>4. ASSUME NEW v \in Version, onStateVector(v) PROVE NewestWanted'
  BY <1>4 DEF onStateVector, NothingNew
<1>5. ASSUME NEW v \in Version,
             DataFetch(v) \/ FetchFailed(v) \/ FetchDone(v)
      PROVE  NewestWanted'
  BY <1>5 DEF DataFetch, FetchFailed, FetchDone
<1>6. ASSUME NEW v \in Version, dataHandler(v) PROVE NewestWanted'
  BY <1>6 DEF dataHandler, IsLatest
<1>7. CASE Dead
  BY <1>7 DEF Dead
<1> QED
  BY <1>1, <1>2, <1>3, <1>4, <1>5, <1>6, <1>7 DEF AdvertNext

\* While the neighbour has not restarted, Data that comes late never puts an
\* older advertisement in the place of a newer one (dataHandler).
THEOREM NeverOlder == AdvertSpec => AdvertNeverOlder
<1>1. AdvertInit => NewestWanted
  BY DvAdvertAssumption DEF AdvertInit, NewestWanted
<1>2. ASSUME AdvertTypeOK, NewestWanted, [AdvertNext]_advertVars,
             boot' = 1, nsAdvert # NoVersion, nsAdvert' # NoVersion
      PROVE  nsAdvert'[2] >= nsAdvert[2]
  <2> USE DvAdvertAssumption DEF NewestWanted, AdvertTypeOK, Version, Boot
  <2>1. boot = 1 \/ Restart
    BY <1>2 DEF AdvertNext, advertVars, generate, SendSyncInterest, onStateVector, DataFetch,
                FetchFailed, FetchDone, dataHandler, updateRib, Dead
  <2>2. nsAdvert' = nsAdvert \/ Dead \/ \E v \in Version : dataHandler(v)
    BY <1>2 DEF AdvertNext, advertVars, generate, SendSyncInterest, Restart, onStateVector,
                DataFetch, FetchFailed, FetchDone, updateRib
  <2>3. boot = 1
    BY <1>2, <2>1 DEF Restart
  <2>4. CASE nsAdvert' = nsAdvert
    BY <1>2, <2>4
  <2>5. CASE Dead
    BY <1>2, <2>5 DEF Dead
  <2>6. ASSUME NEW v \in Version, dataHandler(v) PROVE nsAdvert'[2] >= nsAdvert[2]
    BY <1>2, <2>3, <2>6 DEF dataHandler, IsLatest
  <2> QED
    BY <2>2, <2>4, <2>5, <2>6
<1> QED
  BY <1>1, <1>2, NewestWantedStep, AdvertTypeCorrect, PTL DEF AdvertSpec, AdvertNeverOlder
=============================================================================
