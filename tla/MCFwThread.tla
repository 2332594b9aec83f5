----------------------------- MODULE MCFwThread -----------------------------
(***************************************************************************)
(* A forwarding thread for TLC: FwThread with two local faces and three    *)
(* links, under four kinds of traffic; and the table that it forwards BIER *)
(* Interests by, next to the management thread that rebuilds it (Bift),    *)
(* with two routers that share this router's two faces.  They share no     *)
(* state, and a behaviour is one of either.                                *)
(***************************************************************************)
EXTENDS FwThread, Bift, TLC

CONSTANTS r1, r2

VARIABLE part       \* "pipelines" or "bift"

MCRouter == {r1, r2}
RouterSymmetry == Permutations(MCRouter)

\* A BIER Interest arrives for all bits, and a group has all routers.
MCBitString == {BfrId}
MCEgress == {MCRouter}

PartsInit ==
    /\ part \in {"pipelines", "bift"}
    /\ Init /\ (part = "bift" => traffic = CHOOSE t \in Traffic : TRUE)
    /\ BiftInit

PartsNext ==
    \/ part = "pipelines" /\ Next /\ UNCHANGED <<part, biftVars>>
    \/ part = "bift" /\ BiftNext /\ UNCHANGED <<part, vars>>

PartsSpec == PartsInit /\ [][PartsNext]_<<part, vars, biftVars>>

----------------------------------------------------------------------------
(* The traffic *)

MCName == {"a", "ab", "flood", "host", "hop"}
MCPrefix == {<<n, n>> : n \in MCName} \cup {<<"a", "ab">>}
MCLocal == {"app", "tool"}
MCNonLocal == {"up", "down", "side"}
MCFace == MCLocal \cup MCNonLocal
MCLocalhost == {"host"}
MCLocalhop == {"hop"}

KeyOf(n, prefix, fresh) ==
    [name |-> n, canBePrefix |-> prefix, mustBeFresh |-> fresh, hint |-> "none"]

Exact == KeyOf("ab", FALSE, FALSE)
Fresh == KeyOf("ab", FALSE, TRUE)
Below == KeyOf("a", TRUE, FALSE)
Flood == KeyOf("flood", FALSE, FALSE)
Host == KeyOf("host", FALSE, FALSE)
Hop == KeyOf("hop", FALSE, FALSE)
MCKey == {Exact, Fresh, Below, Flood, Host, Hop}

MCLocalHops == [k \in MCKey |-> IF k = Host THEN <<"app">> ELSE <<>>]

MCNetHops == [k \in MCKey |-> <<[face |-> "side", cost |-> 2], [face |-> "up", cost |-> 1]>>]

MCStrategy == [k \in MCKey |-> IF k \in {Flood, Hop} THEN "multicast" ELSE "best-route"]

\* The lifetime is 2 throughout; a hop limit of 1 is used up on arrival.
Asks(k, n, f, limit, hop) ==
    [key |-> k, nonce |-> n, face |-> f, lifetime |-> 2, hopLimit |-> limit, nextHop |-> hop]

Gives(n, f, token) == [name |-> n, face |-> f, token |-> token, freshness |-> 0]

\* Retransmissions and loops on two links, and hop limits that end.
Looping(k) ==
    [interests |-> {Asks(k, n, f, 2, None) : n \in 1..2, f \in {"down", "side"}}
                   \cup {Asks(k, 2, "down", 0, None), Asks(k, 2, "down", 1, None)},
     datas |-> {Gives(k.name, "up", None), Gives(k.name, "up", k), Gives("a", "side", None)}]

\* The same with a sender that chooses the next hop.
Chosen(k) == [Looping(k) EXCEPT !.interests = @ \cup {Asks(k, 1, "tool", 2, "side")}]

Scoped ==
    [interests |-> {Asks(k, 1, f, 2, None) : k \in {Host, Hop}, f \in {"tool", "down"}},
     datas |-> {Gives("host", f, None) : f \in {"app", "up"}} \cup {Gives("hop", "up", None)}]

\* Interests that differ in their flags and are answered by one Data.
Several ==
    [interests |-> {Asks(k, 1, "tool", 2, None) : k \in {Fresh, Below}}
                   \cup {Asks(k, 2, "down", 2, None) : k \in {Fresh, Below}},
     datas |-> {Gives("ab", "up", None), Gives("a", "side", None)}]

MCTraffic == {Looping(Exact), Chosen(Flood), Scoped, Several}

ASSUME TrafficAssumed == HonestTokens /\ OrderlyTraffic
=============================================================================
