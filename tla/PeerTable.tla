----------------------------- MODULE PeerTable ------------------------------
(***************************************************************************)
(* The table of associations of one client: peerMap with its lock, the     *)
(* Hello handler (one goroutine per datagram: look-up, key request to the  *)
(* REST server, verification, replacement of the entry, HelloReply), the   *)
(* minute-by-minute maintenance, and the update of LastSeen by responses.  *)
(* The environment is the other peers, which restart with a new key, and   *)
(* the REST server that publishes their keys.                              *)
(***************************************************************************)
EXTENDS Integers, FiniteSets

CONSTANTS
    Peer,           \* names of the other peers: the keys of peerMap
    AddrOf,         \* Peer -> addr.String() of its datagrams
    MaxRestarts,    \* bound: how often a peer restarts
    Horizon,        \* bound: minutes of the run
    NoEntry, NoKey

Key == 0..MaxRestarts       \* the k-th key a peer generated
Association == [key : Key, status : {"ASSOCIATED", "OFFLINE"},
                lastSeen : 0..Horizon, addresses : SUBSET STRING]

ASSUME PeerTableAssumption ==
    /\ MaxRestarts \in Nat /\ Horizon \in Nat
    /\ AddrOf \in [Peer -> STRING]
    /\ NoKey \notin Nat
    /\ NoEntry \notin Association

VARIABLES
    peerMap,        \* Peer -> PeerAssociation or NoEntry
    handlers,       \* goroutines in HandleRequest, case 1
    now,            \* minutes since the start
    due,            \* the Sleep of maintainConnPairs is over
    peerKey,        \* Peer -> the key of its running process
    restKey,        \* Peer -> the key published by the REST server, or NoKey
    hellos,         \* Hellos sent: each may be delivered any number of times
    exchanged,      \* peers that received a HelloReply
    heardAt,        \* Peer -> minute of its last valid datagram (history)
    helloAt         \* Peer -> minute of its last accepted Hello (history)

vars == <<peerMap, handlers, now, due, peerKey, restKey, hellos, exchanged,
          heardAt, helloAt>>
peerVars == <<peerKey, restKey, hellos>>
history == <<exchanged, heardAt, helloAt>>

Hello == [name : Peer, sig : Key]
Handler == [name : Peer, sig : Key, key : Key \cup {NoKey},
            at : {"looked", "verify", "reply"}]

TypeOK ==
    /\ peerMap \in [Peer -> Association \cup {NoEntry}]
    /\ \A p \in Peer : peerMap[p] # NoEntry =>
           peerMap[p].lastSeen <= now /\ peerMap[p].addresses = {}
    /\ handlers \subseteq Handler
    /\ now \in 0..Horizon /\ due \in BOOLEAN
    /\ peerKey \in [Peer -> Key]
    /\ restKey \in [Peer -> Key \cup {NoKey}]
    /\ hellos \subseteq Hello
    /\ exchanged \subseteq Peer
    /\ heardAt \in [Peer -> Int] /\ helloAt \in [Peer -> Int]

Init ==
    /\ peerMap = [p \in Peer |-> NoEntry]
    /\ handlers = {}
    /\ now = 0 /\ due = FALSE
    /\ peerKey = [p \in Peer |-> 0]
    /\ restKey = [p \in Peer |-> NoKey]
    /\ hellos = {} /\ exchanged = {}
    /\ heardAt = [p \in Peer |-> 0] /\ helloAt = [p \in Peer |-> 0]

Known(p) == peerMap[p] # NoEntry
Associated(p) == Known(p) /\ peerMap[p].status = "ASSOCIATED"

Become(h, f) == handlers' = (handlers \ {h}) \cup {f}
Heard(p) == heardAt' = [heardAt EXCEPT ![p] = now]
-----------------------------------------------------------------------------
(* The other peers: a start generates a key; a login publishes it and      *)
(* sends a signed Hello, which the network may delay or repeat.            *)
Restart(p) ==
    /\ peerKey[p] < MaxRestarts
    /\ peerKey' = [peerKey EXCEPT ![p] = @ + 1]
    /\ UNCHANGED <<peerMap, handlers, now, due, restKey, hellos, history>>

Publish(p) ==
    /\ restKey[p] # peerKey[p]
    /\ restKey' = [restKey EXCEPT ![p] = peerKey[p]]
    /\ UNCHANGED <<peerMap, handlers, now, due, peerKey, hellos, history>>

SendHello(p) ==
    /\ hellos' = hellos \cup {[name |-> p, sig |-> peerKey[p]]}
    /\ UNCHANGED <<peerMap, handlers, now, due, peerKey, restKey, history>>
-----------------------------------------------------------------------------
(* Faulty variants, for the runs that check that each property can fail:   *)
(* a handler that never uses the cached key, a failed key request that     *)
(* trusts the sender, a maintenance that pings a peer and never expires    *)
(* it.                                                                     *)
LookAlwaysFetching(m) ==
    /\ handlers' = handlers \cup
           {[name |-> m.name, sig |-> m.sig, key |-> NoKey, at |-> "looked"]}
    /\ UNCHANGED <<peerMap, now, due, peerVars, history>>

FetchTrusting(h) ==
    /\ h.at = "looked"
    /\ Become(h, [h EXCEPT !.key = IF restKey[h.name] = NoKey THEN h.sig
                                   ELSE restKey[h.name], !.at = "verify"])
    /\ UNCHANGED <<peerMap, now, due, peerVars, history>>

MaintainedPingless(a) ==
    IF a.status # "ASSOCIATED" THEN a
    ELSE IF now - a.lastSeen > 5 THEN [a EXCEPT !.status = "OFFLINE"]
    ELSE IF now - a.lastSeen > 3 THEN [a EXCEPT !.lastSeen = now]
    ELSE a
-----------------------------------------------------------------------------
(* case 1, lines 46 to 51: the entry is read and the lock given up. *)
Look(m) ==
    /\ LET known == Known(m.name)
       IN  handlers' = handlers \cup
               {[name |-> m.name, sig |-> m.sig,
                 key |-> IF known THEN peerMap[m.name].key ELSE NoKey,
                 at |-> IF known THEN "verify" ELSE "looked"]}
    /\ UNCHANGED <<peerMap, now, due, peerVars, history>>

(* GetPublicKey: the key published now, or an error that ends the handler. *)
Fetch(h) ==
    /\ h.at = "looked"
    /\ IF restKey[h.name] = NoKey
       THEN handlers' = handlers \ {h}
       ELSE Become(h, [h EXCEPT !.key = restKey[h.name], !.at = "verify"])
    /\ UNCHANGED <<peerMap, now, due, peerVars, history>>

(* VerifySignature fails: the handler returns an error. *)
Refuse(h) ==
    /\ h.at = "verify" /\ h.sig # h.key
    /\ handlers' = handlers \ {h}
    /\ UNCHANGED <<peerMap, now, due, peerVars, history>>

(* It succeeds: under the lock, a new association replaces the entry, *)
(* whatever the entry has become since it was read.                   *)
Accept(h) ==
    /\ h.at = "verify" /\ h.sig = h.key
    /\ peerMap' = [peerMap EXCEPT ![h.name] =
           [key |-> h.key, status |-> "ASSOCIATED", lastSeen |-> now, addresses |-> {}]]
    /\ Become(h, [h EXCEPT !.at = "reply"])
    /\ Heard(h.name)
    /\ helloAt' = [helloAt EXCEPT ![h.name] = now]
    /\ UNCHANGED <<now, due, peerVars, exchanged>>

(* BuildHelloReplyPacket and its sending; the datagram arrives or not. *)
Answer(h) ==
    /\ h.at = "reply"
    /\ handlers' = handlers \ {h}
    /\ exchanged' \in {exchanged, exchanged \cup {h.name}}
    /\ UNCHANGED <<peerMap, now, due, peerVars, heardAt, helloAt>>

(* Any other request of p (Ping, RootRequest, DatumRequest): peerMap is    *)
(* not written.                                                            *)
OtherRequest(p) ==
    /\ Known(p)
    /\ Heard(p)
    /\ UNCHANGED <<peerMap, handlers, now, due, peerVars, exchanged, helloAt>>

(* A response of p, after HandleResponse: the entry whose name is the      *)
(* address the datagram came from gets a new LastSeen.                     *)
Response(p) ==
    /\ Known(p)
    /\ Heard(p)
    /\ peerMap' = [q \in Peer |->
           IF AddrOf[p] = q /\ Known(q) THEN [peerMap[q] EXCEPT !.lastSeen = now]
           ELSE peerMap[q]]
    /\ UNCHANGED <<handlers, now, due, peerVars, exchanged, helloAt>>

(* One iteration of maintainConnPairs on an association.  The ping of the  *)
(* second branch goes to Addresses, which no code fills.                   *)
Maintained(a) ==
    IF a.status # "ASSOCIATED" THEN a
    ELSE IF now - a.lastSeen > 5 THEN [a EXCEPT !.status = "OFFLINE"]
    ELSE IF now - a.lastSeen > 3 /\ a.addresses # {} THEN [a EXCEPT !.lastSeen = now]
    ELSE a

Maintain ==
    /\ due
    /\ due' = FALSE
    /\ peerMap' = [p \in Peer |-> IF Known(p) THEN Maintained(peerMap[p]) ELSE NoEntry]
    /\ UNCHANGED <<handlers, now, peerVars, history>>

(* A minute passes; the loop has run in the one before. *)
Tick ==
    /\ ~due /\ now < Horizon
    /\ now' = now + 1
    /\ due' = TRUE
    /\ UNCHANGED <<peerMap, handlers, peerVars, history>>
-----------------------------------------------------------------------------
Step(h) == Fetch(h) \/ Refuse(h) \/ Accept(h) \/ Answer(h)

Next ==
    \/ \E p \in Peer : Restart(p) \/ Publish(p) \/ SendHello(p)
                           \/ OtherRequest(p) \/ Response(p)
    \/ \E m \in hellos : Look(m)
    \/ \E h \in handlers : Step(h)
    \/ Maintain
    \/ Tick

Spec == Init /\ [][Next]_vars
-----------------------------------------------------------------------------
(* A key in the table is one the REST server has published for that peer:  *)
(* keys are numbered, so none is later than the published one.             *)
KeysWerePublished ==
    \A p \in Peer : Known(p) =>
        restKey[p] # NoKey /\ peerMap[p].key <= restKey[p]

(* p is known and every handler of p has read the key of the entry. *)
Settled(p) ==
    /\ Known(p)
    /\ \A h \in handlers : (h.name = p /\ h.at # "reply") => h.key = peerMap[p].key

(* First Hellos that overlap may replace each other's key, in any order    *)
(* and with older ones; but once the handlers agree on a key it stays for  *)
(* ever.  No later Hello renews it: a peer that restarts is locked out.    *)
SettledKeyIsForever ==
    [][\A p \in Peer : Settled(p) =>
           Settled(p)' /\ peerMap'[p].key = peerMap[p].key]_vars

(* An association lives at most five whole minutes after the Hello that    *)
(* made it (six until the loop of that minute has run), whatever else the  *)
(* peer sends: nothing but a Hello renews it.                              *)
ExpiresAfterHello ==
    \A p \in Peer : Associated(p) => now - helloAt[p] <= IF due THEN 6 ELSE 5

(* What main.go says of the fields, and the code does not do.              *)
(* "-ASSOCIATED: Les deux pairs ont echangé avec succés Hello et           *)
(* HelloReply": an associated peer has received a HelloReply.              *)
AssociatedMeansExchanged == \A p \in Peer : Associated(p) => p \in exchanged

(* "LastSeen: Pour gerer l'expiration apres 5 minutes d'inactivité": a     *)
(* peer that goes OFFLINE has sent nothing for five minutes.               *)
OfflineMeansInactive ==
    [][\A p \in Peer :
           (Associated(p) /\ peerMap'[p].status = "OFFLINE") => now - heardAt[p] > 5]_vars

(* "PublicKey: Stocke la clé publique du pair": a Hello signed with the    *)
(* key its peer runs with and has published is not refused.                *)
CurrentHelloIsNotRefused ==
    \A h \in handlers : (h.at = "verify" /\ h.sig = peerKey[h.name]
                          /\ restKey[h.name] = peerKey[h.name]) => h.key = h.sig
=============================================================================
