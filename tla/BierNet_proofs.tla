--------------------------- MODULE BierNet_proofs ---------------------------
(***************************************************************************)
(* Proofs about BierNet for any network, any group and any tables: nothing *)
(* is assumed of the next hops, which may be wrong and form loops.         *)
(*                                                                         *)
(* The argument: a router that has seen a nonce takes no further packet    *)
(* with it, because such a packet comes from a face other than the         *)
(* recorded one (a neighbour sends a nonce at most once to each face, and  *)
(* only after it has seen it itself) or the nonce is in the dead nonce     *)
(* list.  So a router handles a nonce once, delivers it at most once, and  *)
(* splits the bits it received among its copies once.                      *)
(***************************************************************************)
EXTENDS BierNet, TLAPS

\* The router has handled this nonce.
Seen(n, x) ==
    x \in deadNonces[n] \/ \E f \in Face : inRecords[n][f] = x

\* A packet comes from a router that has seen its nonce, is not recorded at
\* its destination yet, and is the only one of its nonce on its link.
TravelInv ==
    /\ \A p \in net : /\ Seen(p.from, p.nonce)
                      /\ inRecords[p.to][p.from] # p.nonce
                      /\ p.nonce \notin pending
    /\ \A p, q \in net :
          p.from = q.from /\ p.to = q.to /\ p.nonce = q.nonce => p = q

\* In-records come from routers that have seen the nonce; nobody has seen a
\* nonce that was not expressed; the consumer's own face has an in-record.
RecordInv ==
    /\ \A n, m \in Node, x \in Nonce : inRecords[n][m] = x => Seen(m, x)
    /\ \A n \in Node, x \in pending : ~Seen(n, x)
    /\ \A x \in Nonce \ pending : inRecords[tables.source[x]][App] # None

\* A router delivers a nonce at most once, and only one it has seen.
DeliverInv ==
    \A n \in Node, x \in Nonce :
        delivered[n][x] # 0 => delivered[n][x] = 1 /\ Seen(n, x)

\* A packet without a bit string is the only one of its nonce.
BitsInv ==
    /\ EachBitCarriedOnce
    /\ \A p, q \in net : p.bier = {} /\ p.nonce = q.nonce => p = q

NetInv == TypeOK /\ TravelInv /\ RecordInv /\ DeliverInv /\ BitsInv

----------------------------------------------------------------------------
(* What one run of the pipeline does, whichever way it goes. *)

\* The packets a router sends for nonce x that arrived on face in with the
\* bit string bier.
Outgoing(out, n, in, x, bier) ==
    /\ out \subseteq Packet
    /\ \A c \in out : c.from = n /\ c.nonce = x /\ c.to # in
    /\ \A c, d \in out : c.to = d.to => c = d
    /\ \A c, d \in out : c # d => c.bier \cap d.bier = {}
    /\ \A c \in out : c.bier = {} => bier = {} /\ out = {c}
    /\ \A c \in out : bier # {} => c.bier \subseteq bier

\* Handling a nonce that the router has not seen.
Handled(n, in, x, bier, egress, rest, out) ==
    /\ ~Looping(n, in, x)
    /\ Record(n, in, x)
    /\ \/ delivered' = delivered
       \/ /\ AllowedLocal(n, in, egress)
          /\ delivered' = [delivered EXCEPT ![n][x] = @ + 1]
    /\ net' = rest \cup out
    /\ Outgoing(out, n, in, x, bier)

\* Copies of bierReplicate are outgoing packets.
LEMMA CopiesOutgoing ==
    ASSUME NEW n \in Node, NEW in \in Face, NEW x \in Nonce,
           NEW bier \in SUBSET Node, NEW bits \in SUBSET Node,
           bier # {} => bits \subseteq bier
    PROVE  Outgoing(Copies(n, in, x, bits), n, in, x, bier)
<1> DEFINE fbm(f) == {d \in Node : tables.bift[n][d] = f}
           mask(f) == (bits \ {n}) \cap fbm(f)
           copy(f) == [from |-> n, to |-> f, nonce |-> x, bier |-> mask(f), egress |-> None]
           out == Copies(n, in, x, bits)
<1>1. out = {copy(f) : f \in {g \in Node \ {in} : mask(g) # {}}}
  BY DEF Copies
<1>2. \A f \in Node : /\ mask(f) \subseteq Node
                      /\ mask(f) \subseteq bits
                      /\ \A g \in Node : g # f => mask(f) \cap mask(g) = {}
  OBVIOUS
<1> HIDE DEF mask, out
<1>3. \A c \in out : \E f \in Node \ {in} : mask(f) # {} /\ c = copy(f)
  BY <1>1
<1>4. \A c \in out : /\ c \in Packet
                     /\ c.from = n /\ c.nonce = x /\ c.to # in
                     /\ c.to \in Node /\ c.bier = mask(c.to) /\ c.bier # {}
                     /\ c = copy(c.to)
  BY <1>2, <1>3 DEF Packet
<1>5. \A c, d \in out : c.to = d.to => c = d
  BY <1>4
<1>6. \A c, d \in out : c # d => c.bier \cap d.bier = {}
  BY <1>2, <1>4, <1>5
<1>7. \A c \in out : bier # {} => c.bier \subseteq bier
  BY <1>2, <1>4
<1>8. QED
  BY <1>4, <1>5, <1>6, <1>7 DEF Outgoing, out

\* The network next hops are routers.
LEMMA NextNetType ==
    ASSUME TypeOK, NEW n \in Node, NEW in \in Face, NEW egress \in Node \cup {None}
    PROVE  \A p \in AllowedNet(n, in, egress) :
              p[1] \in Node /\ p[2] \in Node /\ p[1] # in
<1>1. tables \in Scenario
  BY BierNetAssumption DEF TypeOK
<1>2. \A e \in Node : tables.fib[n][e] \subseteq Node
  BY <1>1 DEF Scenario
<1>3. tables.pet[n] \subseteq Node
  BY <1>1 DEF Scenario
<1>4. CASE egress = None
  BY <1>2, <1>3, <1>4 DEF AllowedNet, NextNet
<1>5. CASE egress \in Node
  BY <1>2, <1>5, BierNetAssumption DEF AllowedNet, NextNet
<1>6. QED
  BY <1>4, <1>5

\* Every run of the pipeline drops a looping nonce or handles a new one.
LEMMA PipelineCases ==
    ASSUME TypeOK, NEW n \in Node, NEW in \in Face, NEW x \in Nonce,
           NEW bier \in SUBSET Node, NEW egress \in Node \cup {None}, NEW rest,
           ProcessIncomingInterest(n, in, x, bier, egress, rest)
    PROVE  \/ /\ Looping(n, in, x)
              /\ net' = rest /\ UNCHANGED <<inRecords, deadNonces, delivered>>
           \/ \E out : Handled(n, in, x, bier, egress, rest, out)
<1> DEFINE bits == Encode(n, in, AfterLocal(n, in, bier, egress), egress)
<1>1. CASE DropLooping(n, in, x, rest)
  BY <1>1 DEF DropLooping
<1>2. delivered \in [Node -> [Nonce -> Nat]]
  BY DEF TypeOK
<1>3. ASSUME Deliver(n, in, x, egress)
      PROVE  \/ delivered' = delivered
             \/ /\ AllowedLocal(n, in, egress)
                /\ delivered' = [delivered EXCEPT ![n][x] = @ + 1]
  BY <1>2, <1>3 DEF Deliver
<1>4. CASE Finish(n, in, x, bier, egress, rest)
  <2>1. Outgoing({}, n, in, x, bier)
    BY DEF Outgoing
  <2>2. Handled(n, in, x, bier, egress, rest, {})
    BY <1>3, <1>4, <2>1 DEF Finish, Handled
  <2>3. QED
    BY <2>2
<1>5. CASE Replicate(n, in, x, bier, egress, rest)
  <2>1. AfterLocal(n, in, bier, egress) \subseteq bier
    BY DEF AfterLocal
  <2>2. AfterLocal(n, in, bier, egress) = {} => bier = {}
    BY <1>5 DEF Replicate, Captured, AfterLocal
  <2>3. bits \in SUBSET Node
    BY <2>1, NextNetType DEF Encode
  <2>4. bier # {} => bits \subseteq bier
    BY <2>1, <2>2 DEF Encode
  <2>5. Outgoing(Copies(n, in, x, bits), n, in, x, bier)
    BY <2>3, <2>4, CopiesOutgoing
  <2>6. Handled(n, in, x, bier, egress, rest, Copies(n, in, x, bits))
    BY <1>3, <1>5, <2>5 DEF Replicate, Handled
  <2>7. QED
    BY <2>6
<1>6. CASE Unicast(n, in, x, bier, egress, rest)
  <2>1. bier = {}
    BY <1>6 DEF Unicast, Captured, AfterLocal, Encode
  <2>2. PICK p \in AllowedNet(n, in, egress) :
           \/ net' = rest \cup {[from |-> n, to |-> p[1], nonce |-> x,
                                 bier |-> {}, egress |-> p[2]]}
           \/ net' = rest
    BY <1>6 DEF Unicast
  <2>3. p[1] \in Node /\ p[2] \in Node /\ p[1] # in
    BY NextNetType
  <2> DEFINE c == [from |-> n, to |-> p[1], nonce |-> x, bier |-> {}, egress |-> p[2]]
  <2>4. Outgoing({c}, n, in, x, bier) /\ Outgoing({}, n, in, x, bier)
    BY <2>1, <2>3 DEF Outgoing, Packet
  <2>5. CASE net' = rest \cup {c}
    BY <1>6, <2>4, <2>5 DEF Unicast, Handled
  <2>6. CASE net' = rest
    <3>1. net' = rest \cup {}
      BY <2>6
    <3>2. Handled(n, in, x, bier, egress, rest, {})
      BY <1>6, <2>4, <3>1 DEF Unicast, Handled
    <3>3. QED
      BY <3>2
  <2>7. QED
    BY <2>2, <2>5, <2>6
<1>7. QED
  BY <1>1, <1>4, <1>5, <1>6 DEF ProcessIncomingInterest

----------------------------------------------------------------------------
(* The invariant *)

\* The pipeline keeps the types.
LEMMA TypeStep ==
    ASSUME TypeOK, NEW n \in Node, NEW in \in Face, NEW x \in Nonce,
           NEW bier \in SUBSET Node, NEW egress \in Node \cup {None},
           NEW rest \in SUBSET net,
           ProcessIncomingInterest(n, in, x, bier, egress, rest),
           tables' = tables, pending' \subseteq Nonce
    PROVE  TypeOK'
<1> USE DEF TypeOK
<1>1. App \in Face /\ Node \subseteq Face
  BY DEF Face
<1>2. ASSUME Record(n, in, x)
      PROVE  /\ inRecords' \in [Node -> [Face -> Nonce \cup {None}]]
             /\ deadNonces' \in [Node -> SUBSET Nonce]
  <2>1. inRecords[n][in] \in Nonce \cup {None}
    OBVIOUS
  <2>2. QED
    BY <1>2, <2>1 DEF Record
<1>3. ASSUME Deliver(n, in, x, egress)
      PROVE  delivered' \in [Node -> [Nonce -> Nat]]
  BY <1>3 DEF Deliver
<1>4. net' \subseteq Packet
  <2>1. CASE net' = rest
    BY <2>1
  <2>2. CASE \E out : Handled(n, in, x, bier, egress, rest, out)
    BY <2>2 DEF Handled, Outgoing
  <2>3. QED
    BY <2>1, <2>2, PipelineCases
<1>5. CASE DropLooping(n, in, x, rest)
  BY <1>4, <1>5 DEF DropLooping
<1>6. CASE Finish(n, in, x, bier, egress, rest)
  BY <1>1, <1>2, <1>3, <1>4, <1>6 DEF Finish
<1>7. CASE Replicate(n, in, x, bier, egress, rest)
  <2> DEFINE bits == Encode(n, in, AfterLocal(n, in, bier, egress), egress)
  <2>1. \A c \in Copies(n, in, x, bits) : c.to \in Node
    BY DEF Copies
  <2>2. outRecords' \in [Node -> SUBSET Face]
    BY <1>1, <1>7, <2>1 DEF Replicate
  <2>3. QED
    BY <1>2, <1>3, <1>4, <1>7, <2>2 DEF Replicate
<1>8. CASE Unicast(n, in, x, bier, egress, rest)
  <2>1. outRecords' \in [Node -> SUBSET Face]
    <3>1. PICK p \in AllowedNet(n, in, egress) :
             \/ outRecords' = [outRecords EXCEPT ![n] = @ \cup {p[1]}]
             \/ outRecords' = outRecords
      BY <1>8 DEF Unicast
    <3>2. p[1] \in Face
      BY <1>1, NextNetType
    <3>3. QED
      BY <1>1, <3>1, <3>2
  <2>2. QED
    BY <1>2, <1>4, <1>8, <2>1 DEF Unicast
<1>9. QED
  BY <1>5, <1>6, <1>7, <1>8 DEF ProcessIncomingInterest

\* Recording a nonce marks it as seen and forgets nothing that was seen.
LEMMA RecordSeen ==
    ASSUME TypeOK, NEW n \in Node, NEW in \in Face, NEW x \in Nonce,
           Record(n, in, x)
    PROVE  /\ Seen(n, x)'
           /\ \A m \in Node, y \in Nonce : Seen(m, y) => Seen(m, y)'
           /\ \A m \in Node, y \in Nonce :
                 Seen(m, y)' => Seen(m, y) \/ (m = n /\ y = x)
<1> USE DEF TypeOK
<1>1. /\ inRecords'[n][in] = x
      /\ \A m \in Node, f \in Face :
            ~(m = n /\ f = in) => inRecords'[m][f] = inRecords[m][f]
  BY DEF Record
<1>2. /\ deadNonces'[n] = deadNonces[n] \cup ({inRecords[n][in]} \ {None})
      /\ \A m \in Node \ {n} : deadNonces'[m] = deadNonces[m]
  BY DEF Record
<1>3. Seen(n, x)'
  BY <1>1 DEF Seen
<1>4. ASSUME NEW m \in Node, NEW y \in Nonce, Seen(m, y)
      PROVE  Seen(m, y)'
  <2>1. CASE y \in deadNonces[m]
    BY <1>2, <2>1 DEF Seen
  <2>2. CASE \E f \in Face : inRecords[m][f] = y
    <3> PICK f \in Face : inRecords[m][f] = y
      BY <2>2
    <3>1. CASE m = n /\ f = in
      BY <1>2, <3>1, BierNetAssumption DEF Seen
    <3>2. CASE ~(m = n /\ f = in)
      BY <1>1, <3>2 DEF Seen
    <3>3. QED
      BY <3>1, <3>2
  <2>3. QED
    BY <1>4, <2>1, <2>2 DEF Seen
<1>5. ASSUME NEW m \in Node, NEW y \in Nonce, Seen(m, y)'
      PROVE  Seen(m, y) \/ (m = n /\ y = x)
  <2>1. CASE y \in deadNonces'[m]
    BY <1>2, <2>1 DEF Seen
  <2>2. CASE \E f \in Face : inRecords'[m][f] = y
    BY <1>1, <2>2 DEF Seen
  <2>3. QED
    BY <1>5, <2>1, <2>2 DEF Seen
<1>6. QED
  BY <1>3, <1>4, <1>5

\* What is known of a nonce that arrives, rest being what else is under way.
Arriving(n, in, x, bier, rest) ==
    /\ n \in Node /\ in \in Face /\ x \in Nonce
    /\ bier \in SUBSET Node
    /\ rest \in SUBSET net
    /\ in \in Node => Seen(in, x)
    /\ inRecords[n][in] # x
    /\ \A q \in rest : ~(q.from = in /\ q.to = n /\ q.nonce = x)
    /\ \A q \in rest : q.nonce = x =>
          q.bier \cap bier = {} /\ q.bier # {} /\ bier # {}
    /\ x \in pending => in = App /\ n = tables.source[x]

\* Handling a nonce that has not been seen keeps the invariant.
LEMMA HandledKeeps ==
    ASSUME NetInv, NEW n, NEW in, NEW x, NEW bier, NEW egress, NEW rest, NEW out,
           Arriving(n, in, x, bier, rest),
           Handled(n, in, x, bier, egress, rest, out),
           tables' = tables, pending' = pending \ {x}
    PROVE  TravelInv' /\ RecordInv' /\ DeliverInv' /\ BitsInv'
<1> USE DEF NetInv, Arriving
<1>1. ~Seen(n, x)
  BY DEF Handled, Looping, Seen
<1>2. /\ Seen(n, x)'
      /\ \A m \in Node, y \in Nonce : Seen(m, y) => Seen(m, y)'
      /\ \A m \in Node, y \in Nonce :
            Seen(m, y)' => Seen(m, y) \/ (m = n /\ y = x)
  BY RecordSeen DEF Handled
<1>3. /\ inRecords'[n][in] = x
      /\ \A m \in Node, f \in Face :
            ~(m = n /\ f = in) => inRecords'[m][f] = inRecords[m][f]
  BY DEF Handled, Record, TypeOK
<1>4. \A p \in net : /\ p.from \in Node /\ p.to \in Node /\ p.nonce \in Nonce
                     /\ p.bier \subseteq Node
  BY DEF TypeOK, Packet
<1>5. net' = rest \cup out /\ Outgoing(out, n, in, x, bier)
  BY DEF Handled
<1>6. \A c \in out : c.from = n /\ c.to \in Node /\ c.nonce = x /\ c.to # in
  BY <1>5 DEF Outgoing, Packet
<1>7. \A m \in Node : inRecords[m][n] # x
  BY <1>1 DEF RecordInv
<1>8. \A q \in rest : ~(q.from = n /\ q.nonce = x)
  BY <1>1 DEF TravelInv
<1>9. Node \subseteq Face /\ App \in Face
  BY DEF Face
<1>10. TravelInv'
  <2>1. ASSUME NEW p \in net'
        PROVE  /\ Seen(p.from, p.nonce)'
               /\ inRecords'[p.to][p.from] # p.nonce
               /\ p.nonce \notin pending'
    <3>1. CASE p \in rest
      BY <1>2, <1>3, <1>4, <1>9, <3>1 DEF TravelInv
    <3>2. CASE p \in out
      BY <1>2, <1>3, <1>6, <1>7, <1>9, <3>2
    <3>3. QED
      BY <1>5, <3>1, <3>2
  <2>2. ASSUME NEW p \in net', NEW q \in net',
               p.from = q.from, p.to = q.to, p.nonce = q.nonce
        PROVE  p = q
    <3>1. CASE p \in rest /\ q \in rest
      BY <2>2, <3>1 DEF TravelInv
    <3>2. CASE p \in out /\ q \in out
      BY <1>5, <2>2, <3>2 DEF Outgoing
    <3>3. QED
      BY <1>5, <1>6, <1>8, <2>2, <3>1, <3>2
  <2>3. QED
    BY <2>1, <2>2 DEF TravelInv
<1>11. RecordInv'
  <2>1. ASSUME NEW m \in Node, NEW k \in Node, NEW y \in Nonce, inRecords'[m][k] = y
        PROVE  Seen(k, y)'
    BY <1>2, <1>3, <1>9, <2>1 DEF RecordInv
  <2>2. ASSUME NEW m \in Node, NEW y \in pending'
        PROVE  ~Seen(m, y)'
    <3>1. y \in pending /\ y # x /\ y \in Nonce
      BY DEF TypeOK
    <3>2. QED
      BY <1>2, <3>1 DEF RecordInv
  <2>3. ASSUME NEW y \in Nonce \ pending'
        PROVE  inRecords'[tables'.source[y]][App] # None
    <3>1. tables.source[y] \in Node
      BY BierNetAssumption DEF TypeOK, Scenario
    <3>2. CASE y \in Nonce \ pending
      BY <1>3, <1>9, <3>1, <3>2, BierNetAssumption DEF RecordInv
    <3>3. CASE y \in pending
      BY <1>3, <3>3, BierNetAssumption
    <3>4. QED
      BY <3>2, <3>3
  <2>4. QED
    BY <2>1, <2>2, <2>3 DEF RecordInv
<1>12. DeliverInv'
  <2> SUFFICES ASSUME NEW m \in Node, NEW y \in Nonce, delivered'[m][y] # 0
               PROVE  delivered'[m][y] = 1 /\ Seen(m, y)'
    BY DEF DeliverInv
  <2>1. delivered[n][x] = 0
    BY <1>1 DEF DeliverInv
  <2>2. CASE delivered' = delivered
    BY <1>2, <2>2 DEF DeliverInv
  <2>3. CASE delivered' = [delivered EXCEPT ![n][x] = @ + 1]
    BY <1>2, <2>1, <2>3 DEF DeliverInv, TypeOK
  <2>4. QED
    BY <2>2, <2>3 DEF Handled
<1>13. BitsInv'
  <2>1. ASSUME NEW p \in net', NEW q \in net', p # q, p.nonce = q.nonce
        PROVE  p.bier \cap q.bier = {}
    <3>1. CASE p \in rest /\ q \in rest
      BY <2>1, <3>1 DEF BitsInv, EachBitCarriedOnce
    <3>2. CASE p \in out /\ q \in out
      BY <1>5, <2>1, <3>2 DEF Outgoing
    <3>3. ASSUME NEW c \in out, NEW r \in rest, r.nonce = c.nonce
          PROVE  c.bier \cap r.bier = {}
      BY <1>5, <1>6, <3>3 DEF Outgoing
    <3>4. QED
      BY <1>5, <2>1, <3>1, <3>2, <3>3
  <2>2. ASSUME NEW p \in net', NEW q \in net', p.bier = {}, p.nonce = q.nonce
        PROVE  p = q
    <3>1. CASE p \in rest /\ q \in rest
      BY <2>2, <3>1 DEF BitsInv
    <3>2. CASE p \in out
      <4>1. bier = {} /\ out = {p}
        BY <1>5, <2>2, <3>2 DEF Outgoing
      <4>2. q \notin rest
        BY <1>6, <2>2, <3>2, <4>1
      <4>3. QED
        BY <1>5, <4>1, <4>2
    <3>3. CASE p \in rest /\ q \in out
      BY <1>6, <2>2, <3>3
    <3>4. QED
      BY <1>5, <3>1, <3>2, <3>3
  <2>3. QED
    BY <2>1, <2>2 DEF BitsInv, EachBitCarriedOnce
<1>14. QED
  BY <1>10, <1>11, <1>12, <1>13

\* A step that only takes packets away keeps the invariant.
LEMMA FewerPacketsKeep ==
    ASSUME NetInv, net' \subseteq net, TypeOK',
           UNCHANGED <<tables, inRecords, deadNonces, pending, delivered>>
    PROVE  NetInv'
<1>1. \A n, x : Seen(n, x)' = Seen(n, x)
  BY DEF Seen
<1>2. TravelInv' /\ RecordInv' /\ DeliverInv'
  BY <1>1 DEF NetInv, TravelInv, RecordInv, DeliverInv
<1>3. BitsInv'
  BY DEF NetInv, BitsInv, EachBitCarriedOnce
<1>4. QED
  BY <1>2, <1>3 DEF NetInv

\* A consumer's Interest meets the conditions of HandledKeeps.
LEMMA ExpressKeeps ==
    ASSUME NetInv, NEW x \in Nonce, Express(x)
    PROVE  NetInv'
<1> DEFINE n == tables.source[x]
<1>1. n \in Node /\ App \in Face
  BY BierNetAssumption DEF NetInv, TypeOK, Scenario, Face
<1>2. ProcessIncomingInterest(n, App, x, {}, None, net)
  BY DEF Express
<1>3. x \in pending /\ pending' = pending \ {x} /\ tables' = tables
  BY DEF Express
<1>4. TypeOK'
  BY <1>1, <1>2, <1>3, TypeStep DEF NetInv, TypeOK
<1>5. ~Seen(n, x)
  BY <1>1, <1>3 DEF NetInv, RecordInv
<1>6. ~Looping(n, App, x)
  BY <1>5 DEF Looping, Seen
<1>7. PICK out : Handled(n, App, x, {}, None, net, out)
  BY <1>1, <1>2, <1>6, PipelineCases DEF NetInv
<1>8. inRecords[n][App] # x
  BY <1>1, <1>5 DEF Seen
<1>9. \A q \in net : q.nonce # x /\ q.from # App
  BY <1>3, BierNetAssumption DEF NetInv, TravelInv, TypeOK, Packet
<1>10. TravelInv' /\ RecordInv' /\ DeliverInv' /\ BitsInv'
  <2>1. Arriving(n, App, x, {}, net)
    BY <1>1, <1>3, <1>8, <1>9, BierNetAssumption DEF Arriving
  <2> HIDE DEF n
  <2>2. QED
    BY <1>3, <1>7, <2>1, HandledKeeps
<1>11. QED
  BY <1>4, <1>10 DEF NetInv

\* So does a packet under way.
LEMMA ReceiveKeeps ==
    ASSUME NetInv, NEW p \in net, Receive(p)
    PROVE  NetInv'
<1> DEFINE n == p.to
           in == p.from
           x == p.nonce
           rest == net \ {p}
<1>1. /\ n \in Node /\ in \in Node /\ in \in Face /\ x \in Nonce
      /\ p.bier \in SUBSET Node /\ p.egress \in Node \cup {None}
  BY DEF NetInv, TypeOK, Packet, Face
<1>2. /\ ProcessIncomingInterest(n, in, x, p.bier, p.egress, rest)
      /\ pending' = pending /\ tables' = tables
  BY DEF Receive
<1>3. TypeOK'
  <2>1. pending' \subseteq Nonce /\ rest \in SUBSET net
    BY <1>2 DEF NetInv, TypeOK
  <2> HIDE DEF n, in, x, rest
  <2>2. QED
    BY <1>1, <1>2, <2>1, TypeStep DEF NetInv
<1>4. Seen(in, x) /\ inRecords[n][in] # x /\ x \notin pending
  BY DEF NetInv, TravelInv
<1>5. \A q \in rest : ~(q.from = in /\ q.to = n /\ q.nonce = x)
  BY DEF NetInv, TravelInv
<1>6. \A q \in rest : q.nonce = x =>
          q.bier \cap p.bier = {} /\ q.bier # {} /\ p.bier # {}
  BY DEF NetInv, BitsInv, EachBitCarriedOnce
<1>7. CASE net' = rest /\ UNCHANGED <<inRecords, deadNonces, delivered>>
  BY <1>2, <1>3, <1>7, FewerPacketsKeep
<1>8. CASE \E out : Handled(n, in, x, p.bier, p.egress, rest, out)
  <2> PICK out : Handled(n, in, x, p.bier, p.egress, rest, out)
    BY <1>8
  <2>1. pending' = pending \ {x}
    BY <1>2, <1>4
  <2>2. TravelInv' /\ RecordInv' /\ DeliverInv' /\ BitsInv'
    <3>1. Arriving(n, in, x, p.bier, rest)
      BY <1>1, <1>4, <1>5, <1>6 DEF Arriving
    <3> HIDE DEF n, in, x, rest
    <3>2. QED
      BY <1>2, <2>1, <3>1, HandledKeeps
  <2>3. QED
    BY <1>3, <2>2 DEF NetInv
<1>9. QED
  BY <1>1, <1>2, <1>7, <1>8, PipelineCases DEF NetInv

\* The invariant holds in every reachable state.
LEMMA NetInvariant == Spec => []NetInv
<1>1. Init => NetInv
  <2> SUFFICES ASSUME Init PROVE NetInv
    OBVIOUS
  <2>1. TypeOK
    BY DEF Init, TypeOK, Packet
  <2>2. \A n \in Node, x \in Nonce : ~Seen(n, x)
    BY BierNetAssumption DEF Init, Seen
  <2>3. TravelInv /\ RecordInv
    BY <2>2, BierNetAssumption DEF Init, TravelInv, RecordInv, Face
  <2>4. DeliverInv /\ BitsInv
    BY DEF Init, DeliverInv, BitsInv, EachBitCarriedOnce
  <2>5. QED
    BY <2>1, <2>3, <2>4 DEF NetInv
<1>2. NetInv /\ [Next]_vars => NetInv'
  <2> SUFFICES ASSUME NetInv, [Next]_vars
               PROVE  NetInv'
    OBVIOUS
  <2>1. CASE \E x \in Nonce : Express(x)
    BY <2>1, ExpressKeeps
  <2>2. CASE \E p \in net : Receive(p)
    BY <2>2, ReceiveKeeps
  <2>3. CASE \E p \in net : Drop(p)
    BY <2>3, FewerPacketsKeep DEF Drop, NetInv, TypeOK
  <2>4. CASE UNCHANGED vars
    BY <2>4, FewerPacketsKeep DEF vars, NetInv, TypeOK
  <2>5. QED
    BY <2>1, <2>2, <2>3, <2>4 DEF Next
<1>3. QED
  BY <1>1, <1>2, PTL DEF Spec

\* Type correctness of the network of forwarders.
THEOREM NetTypeCorrect == Spec => []TypeOK
<1>1. NetInv => TypeOK
  BY DEF NetInv
<1>2. QED
  BY <1>1, NetInvariant, PTL

\* Over any number of hops and with any tables, no two packets under way for
\* one Interest carry the same router's bit.
THEOREM BitsCarriedOnce == Spec => []EachBitCarriedOnce
<1>1. NetInv => EachBitCarriedOnce
  BY DEF NetInv, BitsInv
<1>2. QED
  BY <1>1, NetInvariant, PTL

\* The network of forwarders implements the abstract delivery service with
\* any tables: a consumer's Interest is one Express, a router that hands it
\* to its application is one Deliver, every other step changes nothing.
THEOREM NetImplementsService == Spec => ImplementsGroupDelivery
<1> DEFINE members == [x \in Nonce |-> tables.group \ {tables.source[x]}]
<1>1. Init => Service!Init
  <2> SUFFICES ASSUME Init PROVE Service!Init
    OBVIOUS
  <2>1. tables \in Scenario
    BY BierNetAssumption DEF Init
  <2>2. members \in [Nonce -> SUBSET Node]
    BY <2>1 DEF Scenario
  <2>3. QED
    BY <2>2 DEF Init, Service!Init
<1>2. NetInv /\ [Next]_vars => [Service!Next]_(Service!vars)
  <2> SUFFICES ASSUME NetInv, [Next]_vars
               PROVE  Service!Next \/ UNCHANGED Service!vars
    BY DEF Service!vars
  <2>1. ASSUME NEW x \in Nonce, Express(x)
        PROVE  Service!Next
    <3> DEFINE n == tables.source[x]
    <3>1. n \in Node /\ App \in Face
      BY BierNetAssumption DEF NetInv, TypeOK, Scenario, Face
    <3>2. delivered' = delivered
      <4>1. ProcessIncomingInterest(n, App, x, {}, None, net)
        BY <2>1 DEF Express
      <4>2. QED
        BY <3>1, <4>1, PipelineCases DEF Handled, AllowedLocal, NetInv
    <3>3. Service!Express(x)
      BY <2>1, <3>2 DEF Express, Service!Express
    <3>4. QED
      BY <3>3 DEF Service!Next
  <2>2. ASSUME NEW p \in net, Receive(p)
        PROVE  Service!Next \/ UNCHANGED Service!vars
    <3> DEFINE n == p.to
               x == p.nonce
    <3>1. /\ n \in Node /\ p.from \in Face /\ x \in Nonce /\ TypeOK
          /\ p.bier \in SUBSET Node /\ p.egress \in Node \cup {None}
      BY DEF NetInv, TypeOK, Packet, Face
    <3>2. /\ ProcessIncomingInterest(n, p.from, x, p.bier, p.egress, net \ {p})
          /\ pending' = pending /\ tables' = tables
      BY <2>2 DEF Receive
    <3>3. CASE delivered' = delivered
      BY <3>2, <3>3 DEF Service!vars
    <3>4. CASE /\ ~Looping(n, p.from, x)
               /\ AllowedLocal(n, p.from, p.egress)
               /\ delivered' = [delivered EXCEPT ![n][x] = @ + 1]
      <4>1. x \notin pending /\ inRecords[n][p.from] # x
        BY DEF NetInv, TravelInv
      <4>2. n # tables.source[x]
        BY <3>1, <3>4, <4>1 DEF NetInv, RecordInv, AllowedLocal
      <4>3. n \in members[x]
        BY <3>1, <3>4, <4>2 DEF AllowedLocal
      <4>4. ~Seen(n, x)
        BY <3>4, <4>1 DEF Looping, Seen
      <4>5. delivered[n][x] = 0
        BY <3>1, <4>4 DEF NetInv, DeliverInv
      <4>6. delivered' = [delivered EXCEPT ![n][x] = 1]
        BY <3>1, <3>4, <4>5 DEF TypeOK
      <4>7. Service!Deliver(n, x)
        BY <3>2, <4>1, <4>3, <4>5, <4>6 DEF Service!Deliver
      <4>8. QED
        BY <3>1, <4>7 DEF Service!Next
    <3>5. QED
      BY <3>1, <3>2, <3>3, <3>4, PipelineCases DEF Handled
  <2>3. CASE \E p \in net : Drop(p)
    BY <2>3 DEF Drop, Service!vars
  <2>4. CASE UNCHANGED vars
    BY <2>4 DEF vars, Service!vars
  <2>5. QED
    BY <2>1, <2>2, <2>3, <2>4 DEF Next
<1>3. QED
  BY <1>1, <1>2, NetInvariant, PTL DEF Spec, ImplementsGroupDelivery, Service!Spec
=============================================================================
