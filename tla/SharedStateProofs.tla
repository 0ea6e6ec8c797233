------------------------- MODULE SharedStateProofs --------------------------
(***************************************************************************)
(* The two variables of main.go that mapLock guards, and that every        *)
(* goroutine of the client shares.  Theorems about the keys and the ages   *)
(* of the entries of PeerTable, for every set of peers, number of restarts *)
(* and horizon; and about the nickname of Session, for every set of        *)
(* requests: its writers exclude each other, the name that stays was       *)
(* registered and announced, and nobody reads a nil pointer before a       *)
(* logout.                                                                 *)
(***************************************************************************)
EXTENDS PeerTable, Session, TLAPS

(* Peers publish the key they run with, and a restart numbers its key      *)
(* after those of the process before it.                                   *)
PublishedIsOld == \A p \in Peer : restKey[p] # NoKey => restKey[p] <= peerKey[p]

(* A handler past the look-up holds a key that was published, and one that *)
(* found no entry holds none.                                              *)
HandlerKeys ==
    \A h \in handlers :
        /\ h.at = "looked" => h.key = NoKey
        /\ h.at # "looked" => /\ h.key # NoKey /\ restKey[h.name] # NoKey
                              /\ h.key <= restKey[h.name]

(* The table is written from handlers, handlers are filled from the table  *)
(* and from the server: neither part is kept without the other.            *)
KeyInv == TypeOK /\ PublishedIsOld /\ HandlerKeys /\ KeysWerePublished

(* A step that keeps the entries of the table and their keys. *)
SameKeys ==
    \A q \in Peer : /\ Known(q)' <=> Known(q)
                    /\ Known(q) => peerMap'[q].key = peerMap[q].key

USE DEF Key, Known, Association

LEMMA InitKeyInv == Init => KeyInv
<1> SUFFICES ASSUME Init PROVE KeyInv
  OBVIOUS
<1> USE PeerTableAssumption DEF Init
<1>1. peerMap \in [Peer -> Association \cup {NoEntry}] /\ \A p \in Peer : ~Known(p)
  OBVIOUS
<1>2. peerKey \in [Peer -> Key] /\ restKey \in [Peer -> Key \cup {NoKey}]
  OBVIOUS
<1>3. heardAt \in [Peer -> Int] /\ helloAt \in [Peer -> Int]
  OBVIOUS
<1>4. TypeOK
  <2>1. handlers \subseteq Handler /\ hellos \subseteq Hello /\ exchanged \subseteq Peer
    BY ONLY Init DEF Init
  <2>2. now \in 0..Horizon
    OBVIOUS
  <2>3. due \in BOOLEAN
    BY ONLY Init DEF Init
  <2> QED BY ONLY <1>1, <1>2, <1>3, <2>1, <2>2, <2>3 DEF TypeOK, Known
<1>5. PublishedIsOld /\ HandlerKeys /\ KeysWerePublished
  BY <1>1 DEF PublishedIsOld, HandlerKeys, KeysWerePublished
<1> QED BY <1>4, <1>5 DEF KeyInv

(* What the other peers and the server do keeps published keys published.  *)
LEMMA PeersStep ==
  ASSUME KeyInv, NEW p \in Peer, Restart(p) \/ Publish(p) \/ SendHello(p)
  PROVE  KeyInv'
<1> USE PeerTableAssumption DEF KeyInv, history
<1>1. CASE Restart(p)
  <2>1. TypeOK'
    BY <1>1 DEF Restart, TypeOK
  <2>2. PublishedIsOld'
    BY <1>1 DEF Restart, PublishedIsOld, TypeOK
  <2>3. HandlerKeys' /\ KeysWerePublished'
    BY <1>1 DEF Restart, HandlerKeys, KeysWerePublished
  <2> QED BY <2>1, <2>2, <2>3
<1>2. CASE Publish(p)
  <2>1. TypeOK'
    BY <1>2 DEF Publish, TypeOK
  <2>2. /\ \A q \in Peer : restKey[q] # NoKey =>
                restKey'[q] # NoKey /\ restKey[q] <= restKey'[q]
        /\ PublishedIsOld'
    BY <1>2 DEF Publish, PublishedIsOld, TypeOK
  <2>3. HandlerKeys'
    BY <1>2, <2>1, <2>2 DEF Publish, HandlerKeys, TypeOK, Handler
  <2>4. KeysWerePublished'
    BY <1>2, <2>1, <2>2 DEF Publish, KeysWerePublished, TypeOK
  <2> QED BY <2>1, <2>2, <2>3, <2>4
<1>3. CASE SendHello(p)
  <2>1. TypeOK'
    BY <1>3 DEF SendHello, TypeOK, Hello
  <2> QED BY <1>3, <2>1 DEF SendHello, PublishedIsOld, HandlerKeys, KeysWerePublished
<1> QED BY <1>1, <1>2, <1>3

LEMMA LookStep ==
  ASSUME KeyInv, NEW m \in hellos, Look(m)
  PROVE  KeyInv'
<1> USE PeerTableAssumption DEF KeyInv, peerVars, history
<1> DEFINE k == IF Known(m.name) THEN peerMap[m.name].key ELSE NoKey
           h == [name |-> m.name, sig |-> m.sig, key |-> k,
                 at |-> IF Known(m.name) THEN "verify" ELSE "looked"]
<1>1. m.name \in Peer /\ m.sig \in Key
  BY DEF TypeOK, Hello
<1>2. handlers' = handlers \cup {h}
  BY DEF Look
<1>3. h \in Handler
  BY <1>1 DEF TypeOK, Handler
<1>4. TypeOK'
  BY <1>2, <1>3 DEF Look, TypeOK
<1>5. /\ ~Known(m.name) => h.at = "looked" /\ h.key = NoKey
      /\ Known(m.name) => /\ h.at = "verify" /\ h.key # NoKey
                          /\ restKey[m.name] # NoKey /\ h.key <= restKey[m.name]
  BY <1>1 DEF KeysWerePublished, TypeOK
<1>6. HandlerKeys'
  BY <1>2, <1>5 DEF Look, HandlerKeys
<1> QED BY <1>4, <1>6 DEF Look, PublishedIsOld, KeysWerePublished

LEMMA HandlerStep ==
  ASSUME KeyInv, NEW h \in handlers, Step(h)
  PROVE  KeyInv'
<1> USE PeerTableAssumption DEF KeyInv, peerVars, history, Become
<1>h. h \in Handler /\ h.name \in Peer
  BY DEF TypeOK, Handler
<1>1. CASE Fetch(h)
  <2> DEFINE f == [h EXCEPT !.key = restKey[h.name], !.at = "verify"]
  <2>1. \/ restKey[h.name] = NoKey /\ handlers' = handlers \ {h}
        \/ restKey[h.name] # NoKey /\ handlers' = (handlers \ {h}) \cup {f}
    BY <1>1 DEF Fetch
  <2>2. restKey[h.name] \in Key \cup {NoKey}
    BY <1>h DEF TypeOK
  <2>3. /\ f.at = "verify" /\ f.key = restKey[h.name] /\ f.name = h.name
        /\ f \in Handler
    BY <1>h, <2>2 DEF Handler
  <2>4. handlers' \subseteq Handler
    BY <2>1, <2>3 DEF TypeOK
  <2>5. TypeOK'
    BY <1>1, <2>4 DEF Fetch, TypeOK
  <2>6. HandlerKeys'
    <3>1. restKey' = restKey
      BY <1>1 DEF Fetch
    <3>2. restKey[h.name] # NoKey => f.key \in Nat /\ f.key <= restKey[f.name]
      BY <2>2, <2>3
    <3>3. \A x \in handlers' : x \in handlers \/ (x = f /\ restKey[h.name] # NoKey)
      BY <2>1
    <3> QED BY <3>1, <3>2, <3>3, <2>3 DEF HandlerKeys
  <2> QED BY <1>1, <2>5, <2>6 DEF Fetch, PublishedIsOld, KeysWerePublished
<1>2. CASE Refuse(h)
  BY <1>2 DEF Refuse, TypeOK, PublishedIsOld, HandlerKeys, KeysWerePublished
<1>3. CASE Accept(h)
  <2>1. h.key \in Key /\ restKey[h.name] # NoKey /\ h.key <= restKey[h.name]
    BY <1>3, <1>h DEF Accept, HandlerKeys, Handler
  <2>2. \A p \in Peer : peerMap'[p] =
            IF p = h.name THEN [key |-> h.key, status |-> "ASSOCIATED",
                                lastSeen |-> now, addresses |-> {}]
            ELSE peerMap[p]
    BY <1>3, <1>h DEF Accept, TypeOK
  <2>3. TypeOK'
    BY <1>3, <1>h, <2>1, <2>2 DEF Accept, Heard, TypeOK, Handler
  <2>4. HandlerKeys'
    BY <1>3, <1>h DEF Accept, HandlerKeys, Handler
  <2>5. KeysWerePublished'
    BY <1>3, <2>1, <2>2 DEF Accept, KeysWerePublished
  <2> QED BY <1>3, <2>3, <2>4, <2>5 DEF Accept, PublishedIsOld
<1>4. CASE Answer(h)
  BY <1>4, <1>h DEF Answer, TypeOK, PublishedIsOld, HandlerKeys, KeysWerePublished
<1> QED BY <1>1, <1>2, <1>3, <1>4 DEF Step

(* The rest of the client writes LastSeen and Status, never the key. *)
LEMMA OthersStep ==
  ASSUME KeyInv,
         \/ \E p \in Peer : OtherRequest(p) \/ Response(p)
         \/ Maintain \/ Tick
  PROVE  KeyInv' /\ SameKeys /\ UNCHANGED handlers
<1> USE PeerTableAssumption DEF KeyInv, peerVars, history, Heard, SameKeys
<1>1. ASSUME NEW p \in Peer, OtherRequest(p)
      PROVE  TypeOK' /\ UNCHANGED <<peerMap, handlers, restKey, peerKey>>
  BY <1>1 DEF OtherRequest, TypeOK
<1>2. ASSUME NEW p \in Peer, Response(p)
      PROVE  TypeOK' /\ SameKeys /\ UNCHANGED <<handlers, restKey, peerKey>>
  <2>1. \A q \in Peer : Known(q) => [peerMap[q] EXCEPT !.lastSeen = now] \in Association
    BY DEF TypeOK
  <2>2. /\ peerMap' \in [Peer -> Association \cup {NoEntry}]
        /\ \A q \in Peer : Known(q) =>
               peerMap'[q] \in {peerMap[q], [peerMap[q] EXCEPT !.lastSeen = now]}
        /\ \A q \in Peer : ~Known(q) => peerMap'[q] = NoEntry
    BY <1>2, <2>1 DEF Response, TypeOK
  <2>3. \A q \in Peer : Known(q) =>
            /\ peerMap'[q].key = peerMap[q].key /\ peerMap'[q] # NoEntry
            /\ peerMap'[q].addresses = {} /\ peerMap'[q].lastSeen <= now
    BY <2>1, <2>2 DEF TypeOK
  <2>4. TypeOK'
    BY <1>2, <2>2, <2>3 DEF Response, TypeOK
  <2> QED BY <1>2, <2>2, <2>3, <2>4 DEF Response
<1>3. ASSUME Maintain
      PROVE  TypeOK' /\ SameKeys /\ UNCHANGED <<handlers, restKey, peerKey>>
  <2>1. \A q \in Peer : peerMap'[q] = IF Known(q) THEN Maintained(peerMap[q]) ELSE NoEntry
    BY <1>3 DEF Maintain
  <2>2. ASSUME NEW q \in Peer, Known(q)
        PROVE  /\ Maintained(peerMap[q]).key = peerMap[q].key
               /\ Maintained(peerMap[q]) \in Association
               /\ Maintained(peerMap[q]).lastSeen <= now
               /\ Maintained(peerMap[q]).addresses = {}
    BY <2>2 DEF Maintained, TypeOK
  <2>3. peerMap' \in [Peer -> Association \cup {NoEntry}]
    BY <1>3, <2>2 DEF Maintain
  <2>4. TypeOK'
    BY <1>3, <2>1, <2>2, <2>3 DEF Maintain, TypeOK
  <2>5. SameKeys
    BY <2>1, <2>2
  <2>6. UNCHANGED <<handlers, restKey, peerKey>>
    BY <1>3 DEF Maintain
  <2> QED BY ONLY <2>4, <2>5, <2>6
<1>4. ASSUME Tick
      PROVE  TypeOK' /\ SameKeys /\ UNCHANGED <<handlers, restKey, peerKey>>
  <2>1. now \in Nat /\ now' \in 0..Horizon /\ now <= now'
    BY <1>4 DEF Tick, TypeOK
  <2>2. \A q \in Peer : Known(q) => peerMap[q].lastSeen \in Nat
    BY DEF TypeOK
  <2>3. TypeOK'
    BY <1>4, <2>1, <2>2 DEF Tick, TypeOK
  <2>4. SameKeys
    BY <1>4 DEF Tick
  <2>5. UNCHANGED <<handlers, restKey, peerKey>>
    BY <1>4 DEF Tick
  <2> QED BY ONLY <2>3, <2>4, <2>5
<1>5. TypeOK' /\ SameKeys /\ UNCHANGED <<handlers, restKey, peerKey>>
  <2>1. ASSUME NEW p \in Peer, OtherRequest(p) PROVE SameKeys
    BY <2>1, <1>1
  <2> HIDE DEF SameKeys
  <2> QED BY <1>1, <1>2, <1>3, <1>4, <2>1
<1>6. PublishedIsOld' /\ HandlerKeys'
  BY <1>5 DEF PublishedIsOld, HandlerKeys
<1>7. KeysWerePublished'
  BY <1>5 DEF KeysWerePublished
<1> QED BY <1>5, <1>6, <1>7

LEMMA KeyStep == KeyInv /\ [Next]_vars => KeyInv'
<1> SUFFICES ASSUME KeyInv, [Next]_vars PROVE KeyInv'
  OBVIOUS
<1>1. ASSUME NEW p \in Peer, Restart(p) \/ Publish(p) \/ SendHello(p) PROVE KeyInv'
  BY <1>1, PeersStep
<1>2. ASSUME NEW m \in hellos, Look(m) PROVE KeyInv'
  BY <1>2, LookStep
<1>3. ASSUME NEW h \in handlers, Step(h) PROVE KeyInv'
  BY <1>3, HandlerStep
<1>4. CASE (\E p \in Peer : OtherRequest(p) \/ Response(p)) \/ Maintain \/ Tick
  BY <1>4, OthersStep
<1>5. CASE UNCHANGED vars
  BY <1>5 DEF vars, KeyInv, TypeOK, PublishedIsOld, HandlerKeys, KeysWerePublished
<1> QED BY <1>1, <1>2, <1>3, <1>4, <1>5 DEF Next

(* The invariant of the keys, inductive. *)
THEOREM KeyInvariant == Spec => []KeyInv
<1> QED BY InitKeyInv, KeyStep, PTL DEF Spec

(* Every variable of PeerTable keeps its type. *)
THEOREM TypeCorrect == Spec => []TypeOK
<1>1. KeyInv => TypeOK
  BY DEF KeyInv
<1> QED BY <1>1, KeyInvariant, PTL

(* However Hellos, key requests and restarts are interleaved, an entry of  *)
(* peerMap holds a key its peer has published.                             *)
THEOREM KeysCorrect == Spec => []KeysWerePublished
<1>1. KeyInv => KeysWerePublished
  BY DEF KeyInv
<1> QED BY <1>1, KeyInvariant, PTL
-----------------------------------------------------------------------------
(* Once the handlers of p agree with its entry, a step of the client or of *)
(* its environment keeps the key, and the agreement.                       *)
LEMMA SettledStep ==
  ASSUME KeyInv, [Next]_vars, NEW p \in Peer, Settled(p)
  PROVE  Settled(p)' /\ peerMap'[p].key = peerMap[p].key
<1> USE PeerTableAssumption DEF Settled, peerVars, history
<1>type. peerMap[p].key \in Key /\ peerMap[p].key # NoKey /\ KeyInv'
  BY KeyStep DEF KeyInv, TypeOK
<1>1. CASE UNCHANGED <<peerMap, handlers>>
  BY <1>1
<1>2. ASSUME NEW m \in hellos, Look(m)
      PROVE  Settled(p)' /\ peerMap' = peerMap
  <2>1. \A h \in handlers' : h \in handlers \/
            (h.name = m.name /\ (Known(m.name) => h.key = peerMap[m.name].key))
    BY <1>2 DEF Look
  <2> QED BY <1>2, <2>1 DEF Look
<1>3. ASSUME NEW h \in handlers, Fetch(h)
      PROVE  Settled(p)' /\ peerMap' = peerMap
  <2>1. h.name # p /\ h \in Handler
    BY <1>3, <1>type DEF Fetch, KeyInv, HandlerKeys, TypeOK
  <2>2. [h EXCEPT !.key = restKey[h.name], !.at = "verify"].name = h.name
    BY <2>1 DEF Handler
  <2>3. \A x \in handlers' : x \in handlers \/ x.name = h.name
    BY <1>3, <2>2 DEF Fetch, Become
  <2> QED BY <1>3, <2>1, <2>3 DEF Fetch
<1>4. ASSUME NEW h \in handlers, Refuse(h) \/ Answer(h)
      PROVE  Settled(p)' /\ peerMap' = peerMap
  BY <1>4 DEF Refuse, Answer
<1>5. ASSUME NEW h \in handlers, Accept(h)
      PROVE  Settled(p)' /\ peerMap'[p].key = peerMap[p].key
  <2>1. h \in Handler /\ h.name \in Peer
    BY DEF KeyInv, TypeOK, Handler
  <2>2. peerMap' = [peerMap EXCEPT ![h.name] =
            [key |-> h.key, status |-> "ASSOCIATED", lastSeen |-> now, addresses |-> {}]]
    BY <1>5 DEF Accept
  <2>3. h.name = p => h.key = peerMap[p].key
    BY <1>5 DEF Accept
  <2>4. peerMap \in [Peer -> Association \cup {NoEntry}]
    BY DEF KeyInv, TypeOK
  <2>5. peerMap'[p].key = peerMap[p].key
    BY <2>1, <2>2, <2>3, <2>4
  <2>now. now \in 0..Horizon
    BY DEF KeyInv, TypeOK
  <2>entry. h.key \in Key => [key |-> h.key, status |-> "ASSOCIATED",
                           lastSeen |-> now, addresses |-> {}] \in Association
    BY <2>now
  <2>6. h.name = p => peerMap'[p] \in Association
    BY <2>2, <2>3, <2>4, <2>entry, <1>type
  <2>7. Known(p)'
    BY <2>1, <2>2, <2>4, <2>6
  <2>8. \A x \in handlers' : x \in handlers \/ (x.name = h.name /\ x.at = "reply")
    BY <1>5, <2>1 DEF Accept, Become, Handler
  <2> QED BY <2>5, <2>7, <2>8
<1>6. CASE (\E q \in Peer : OtherRequest(q) \/ Response(q)) \/ Maintain \/ Tick
  BY <1>6, OthersStep DEF SameKeys
<1>7. ASSUME NEW q \in Peer, Restart(q) \/ Publish(q) \/ SendHello(q)
      PROVE  UNCHANGED <<peerMap, handlers>>
  BY <1>7 DEF Restart, Publish, SendHello
<1>8. UNCHANGED vars => UNCHANGED <<peerMap, handlers>>
  BY DEF vars
<1> QED BY <1>1, <1>2, <1>3, <1>4, <1>5, <1>6, <1>7, <1>8 DEF Next, Step

(* A peer whose key is settled keeps it for ever: no interleaving of late, *)
(* repeated or new Hellos, and no restart, renews the entry.               *)
THEOREM SettledKeyStays == Spec => SettledKeyIsForever
<1>1. KeyInv /\ [Next]_vars =>
          [\A p \in Peer : Settled(p) =>
               Settled(p)' /\ peerMap'[p].key = peerMap[p].key]_vars
  BY SettledStep
<1> QED BY <1>1, KeyInvariant, PTL DEF Spec, SettledKeyIsForever
-----------------------------------------------------------------------------
(* peerMap is read by name and a response is looked up by address: the two *)
(* meet only for a peer that registers under the text of an address.       *)
NamesAreNoAddresses == \A p \in Peer : AddrOf[p] \notin Peer

(* Then LastSeen is the time of the Hello, for every entry, and the loop   *)
(* of each minute keeps an association within its age.                     *)
Age(p) == now - helloAt[p]
AgeInv ==
    /\ \A p \in Peer : Known(p) => peerMap[p].lastSeen = helloAt[p]
    /\ ExpiresAfterHello

(* A step that writes no entry and lets no time pass. *)
LEMMA AgeKept ==
  ASSUME AgeInv, UNCHANGED <<peerMap, now, due, helloAt>>
  PROVE  AgeInv'
  BY DEF AgeInv, ExpiresAfterHello, Associated

LEMMA AcceptAge ==
  ASSUME KeyInv, AgeInv, NEW h \in handlers, Accept(h)
  PROVE  AgeInv'
<1> DEFINE a == [key |-> h.key, status |-> "ASSOCIATED", lastSeen |-> now, addresses |-> {}]
<1>1. h.name \in Peer /\ now \in Nat /\ now - now = 0
  BY PeerTableAssumption DEF KeyInv, TypeOK, Handler
<1>2. /\ \A p \in Peer : peerMap'[p] = IF p = h.name THEN a ELSE peerMap[p]
      /\ \A p \in Peer : helloAt'[p] = IF p = h.name THEN now ELSE helloAt[p]
      /\ UNCHANGED <<now, due>>
  BY <1>1 DEF Accept, KeyInv, TypeOK
<1>3. \A p \in Peer : Known(p)' => peerMap'[p].lastSeen = helloAt'[p]
  BY <1>1, <1>2 DEF AgeInv
<1>4. \A p \in Peer : p # h.name /\ Associated(p)' => now' - helloAt'[p] <= IF due' THEN 6 ELSE 5
  BY <1>2 DEF AgeInv, ExpiresAfterHello, Associated
<1>5. now' - helloAt'[h.name] <= IF due' THEN 6 ELSE 5
  BY <1>1, <1>2
<1> QED BY <1>3, <1>4, <1>5 DEF AgeInv, ExpiresAfterHello

LEMMA ResponseAge ==
  ASSUME NamesAreNoAddresses, KeyInv, AgeInv, NEW p \in Peer, Response(p)
  PROVE  AgeInv'
<1>1. peerMap' = [q \in Peer |-> peerMap[q]]
  BY DEF Response, NamesAreNoAddresses
<1>2. peerMap' = peerMap
  BY <1>1 DEF KeyInv, TypeOK
<1> QED BY <1>2, AgeKept DEF Response, peerVars

LEMMA MaintainAge ==
  ASSUME KeyInv, AgeInv, Maintain
  PROVE  AgeInv'
<1>1. /\ \A q \in Peer : peerMap'[q] = IF Known(q) THEN Maintained(peerMap[q]) ELSE NoEntry
      /\ due = TRUE /\ due' = FALSE /\ now' = now /\ helloAt' = helloAt
  BY DEF Maintain, history, KeyInv, TypeOK
<1>2. now \in Int /\ \A q \in Peer : helloAt[q] \in Int
  BY DEF KeyInv, TypeOK
<1>3. ASSUME NEW q \in Peer, Known(q)
      PROVE  /\ Maintained(peerMap[q]).lastSeen = peerMap[q].lastSeen
             /\ Maintained(peerMap[q]).status = "ASSOCIATED" =>
                    Associated(q) /\ ~(Age(q) > 5)
  <2>1. /\ peerMap[q] \in Association /\ peerMap[q].addresses = {}
        /\ peerMap[q].lastSeen = helloAt[q]
    BY <1>3 DEF KeyInv, TypeOK, AgeInv
  <2> QED BY <1>3, <2>1 DEF Maintained, Age, Associated
<1>4. \A q \in Peer : Known(q)' => Known(q)
  BY <1>1
<1>5. \A q \in Peer : Known(q)' => peerMap'[q].lastSeen = helloAt'[q]
  BY <1>1, <1>3, <1>4 DEF AgeInv
<1>6. \A q \in Peer : Associated(q)' => ~(Age(q) > 5)
  BY <1>1, <1>3, <1>4 DEF Associated
<1>7. \A q \in Peer : Associated(q)' => now - helloAt[q] <= 5
  BY <1>2, <1>6 DEF Age
<1> QED BY <1>1, <1>5, <1>7 DEF AgeInv, ExpiresAfterHello

LEMMA TickAge ==
  ASSUME KeyInv, AgeInv, Tick
  PROVE  AgeInv'
<1>1. ~due /\ due' = TRUE /\ now' = now + 1 /\ UNCHANGED <<peerMap, helloAt>>
  BY DEF Tick, history
<1>2. now \in Int /\ \A q \in Peer : helloAt[q] \in Int
  BY DEF KeyInv, TypeOK
<1>3. \A q \in Peer : Associated(q) => now - helloAt[q] <= 5
  BY <1>1 DEF AgeInv, ExpiresAfterHello
<1>4. \A q \in Peer : Associated(q) => now + 1 - helloAt[q] <= 6
  BY <1>2, <1>3
<1>5. ASSUME NEW q \in Peer, Associated(q)' PROVE now' - helloAt'[q] <= 6
  <2>1. Associated(q)
    BY ONLY <1>1, <1>5 DEF Associated, Known
  <2> QED BY <1>1, <1>2, <1>4, <2>1
<1>6. ExpiresAfterHello'
  BY <1>1, <1>5 DEF ExpiresAfterHello
<1> QED BY <1>1, <1>6 DEF AgeInv

LEMMA AgeStep ==
  ASSUME NamesAreNoAddresses, KeyInv, AgeInv, [Next]_vars
  PROVE  AgeInv'
<1>1. ASSUME NEW p \in Peer, Restart(p) \/ Publish(p) \/ SendHello(p) \/ OtherRequest(p)
      PROVE  AgeInv'
  BY <1>1, AgeKept DEF Restart, Publish, SendHello, OtherRequest, history
<1>2. ASSUME NEW m \in hellos, Look(m) PROVE AgeInv'
  BY <1>2, AgeKept DEF Look, history
<1>3. ASSUME NEW h \in handlers, Fetch(h) \/ Refuse(h) \/ Answer(h) PROVE AgeInv'
  BY <1>3, AgeKept DEF Fetch, Refuse, Answer, history
<1>4. UNCHANGED vars => AgeInv'
  BY AgeKept DEF vars
<1> QED
  BY <1>1, <1>2, <1>3, <1>4, AcceptAge, ResponseAge, MaintainAge, TickAge DEF Next, Step

(* However Hellos, responses and the loop of each minute are interleaved,  *)
(* an association outlives its Hello by five whole minutes at most: what   *)
(* else the peer sends does not keep it, as long as it is not called like  *)
(* an address.                                                             *)
THEOREM AssociationsExpire ==
  ASSUME NamesAreNoAddresses
  PROVE  Spec => []ExpiresAfterHello
<1>1. Init => AgeInv
  BY DEF Init, AgeInv, ExpiresAfterHello, Associated
<1>2. KeyInv /\ AgeInv /\ [Next]_vars => AgeInv'
  BY AgeStep
<1>3. AgeInv => ExpiresAfterHello
  BY DEF AgeInv
<1> QED BY <1>1, <1>2, <1>3, KeyInvariant, PTL DEF Spec
-----------------------------------------------------------------------------
Writing(q) == pc[q] \in {"second", "unlock"}

(* A writer holds the lock; it leaves it with both words written.  That    *)
(* the name is whole between the two is what NamesAreWhole does not say    *)
(* and Unlock needs.                                                       *)
LockInv ==
    /\ pc \in [Request -> Location]
    /\ \A q \in Request : pc[q] = "unlock" => Whole(nickName)
    /\ NamesAreWhole

USE SessionAssumption DEF Writing, Goto, Whole, LockInv, NamesAreWhole, outside

LEMMA InitLockInv == SessionInit => LockInv
  BY DEF SessionInit, Location, Unread

(* A request that is neither writing nor about to write, and goes on to a  *)
(* place where it does not write, disturbs nobody.                         *)
LEMMA OtherMoves ==
  ASSUME LockInv, NEW q \in Request, NEW l \in Location \ {"second", "unlock"},
         Goto(q, l), ~Writing(q), UNCHANGED <<nickName, mapLock>>,
         Whole(shown)'
  PROVE  LockInv'
  OBVIOUS

LEMMA ServeStep ==
  ASSUME LockInv, NEW q \in Request, Serve(q)
  PROVE  LockInv'
<1>1. CASE Start(q)
  <2>1. PICK l \in {"lock", "pointer"} : Goto(q, l)
    BY <1>1 DEF Start
  <2> QED BY <1>1, <2>1, OtherMoves DEF Start, Location
<1>2. CASE Lock(q)
  <2>1. pc' = [pc EXCEPT ![q] = "second"] /\ mapLock' = q /\ shown' = shown
    BY <1>2 DEF Lock
  <2>2. \A r \in Request : ~Writing(r)
    BY <1>2 DEF Lock
  <2> QED BY <2>1, <2>2 DEF Location
<1>3. CASE WriteSecond(q)
  <2>1. /\ pc' = [pc EXCEPT ![q] = "unlock"] /\ mapLock' = mapLock /\ shown' = shown
        /\ Whole(nickName)'
    BY <1>3 DEF WriteSecond
  <2>2. mapLock = q
    BY <1>3 DEF WriteSecond
  <2> QED BY <2>1, <2>2 DEF Location
<1>4. CASE Unlock(q)
  <2>1. PICK l \in {"pointer", "ended"} : Goto(q, l)
    BY <1>4 DEF Unlock
  <2>2. mapLock = q /\ Whole(nickName)
    BY <1>4 DEF Unlock
  <2>3. mapLock' = NoOne /\ nickName' = nickName /\ shown' = shown
    BY <1>4 DEF Unlock
  <2>4. \A r \in Request : ~Writing(r)'
    BY <2>1, <2>2
  <2> QED BY <2>1, <2>2, <2>3, <2>4 DEF Location
<1>5. CASE Show(q)
  BY <1>5, OtherMoves DEF Show, Location
<1>6. CASE LoadPointer(q) \/ LoadLength(q)
  <2>1. PICK l \in {"length", "use"} : Goto(q, l)
    BY <1>6 DEF LoadPointer, LoadLength
  <2> QED BY <1>6, <2>1, OtherMoves DEF LoadPointer, LoadLength, Location
<1>7. CASE Use(q) \/ Panic(q)
  <2>1. PICK l \in {"pointer", "ended"} : Goto(q, l)
    BY <1>7 DEF Use, Panic
  <2>2. ~Writing(q) /\ UNCHANGED <<nickName, mapLock, shown>>
    BY <1>7 DEF Use, Panic
  <2> QED BY <2>1, <2>2, OtherMoves DEF Location
<1> QED BY <1>1, <1>2, <1>3, <1>4, <1>5, <1>6, <1>7 DEF Serve

(* However logins, logouts and pages overlap, two writers never hold the   *)
(* lock together and nobody who takes it sees a mixture of two names.      *)
THEOREM WritersExcludeEachOther == SessionSpec => []NamesAreWhole
<1>1. LockInv /\ [SessionNext]_sessionVars => LockInv'
  <2> SUFFICES ASSUME LockInv, [SessionNext]_sessionVars PROVE LockInv'
    OBVIOUS
  <2>1. CASE SessionStep
    BY <2>1, ServeStep DEF SessionStep
  <2>2. CASE Rest \/ UNCHANGED sessionVars
    BY <2>2 DEF Rest, sessionVars
  <2> QED BY <2>1, <2>2 DEF SessionNext
<1>2. LockInv => NamesAreWhole
  OBVIOUS
<1> QED BY InitLockInv, <1>1, <1>2, PTL DEF SessionSpec
-----------------------------------------------------------------------------
HIDE SessionAssumption DEF Writing, Goto, Whole, LockInv, NamesAreWhole, outside

(* Where a request may be, and which of its reads it may be at: only a     *)
(* login or a logout is ever a writer, a writer has read nothing yet, and  *)
(* only a login reads besides the goroutines.                              *)
PlacesOK ==
    /\ SessionTypeOK
    /\ \A q \in Request : turn[q] <= Len(Reads(q))
    /\ \A q \in Request : pc[q] \in {"idle", "lock", "second", "unlock"} => turn[q] = 1
    /\ \A q \in Request : pc[q] \in {"lock", "second", "unlock"} => q \in Login \cup Logout
    /\ \A q \in Request : pc[q] \in {"pointer", "length", "use"} => q \in Login \cup Readers

(* Between the two words nobody knows the name; at the unlock it is the    *)
(* name of the writer, and whoever holds the lock is writing.              *)
WriterOK ==
    /\ \A q \in Request : pc[q] = "unlock" => nickName.len = NewName(q)
    /\ mapLock # NoOne => mapLock \in Request /\ Writing(mapLock)

(* The login that unlocked last reads only what it left: at each place it  *)
(* has the current name, or is still to read it.                           *)
Fresh(q) ==
    /\ pc[q] \in {"pointer", "length", "use", "ended"}
    /\ pc[q] \in {"length", "use"} => read[q].ptr = nickName.ptr
    /\ pc[q] = "use" => read[q].len = nickName.len
    /\ turn[q] = 2 \/ pc[q] = "ended" => nickName \in put
    /\ pc[q] = "ended" => nickName \in announced

LastWriterAnnounces ==
    mapLock = NoOne /\ nickName.len # Empty => \E q \in Login : Fresh(q)

NameInv ==
    /\ PlacesOK
    /\ WriterOK
    /\ LastWriterAnnounces

LEMMA ReadsOf ==
  ASSUME NEW q \in Request
  PROVE  /\ Len(Reads(q)) \in {1, 2}
         /\ q \in Login => /\ Len(Reads(q)) = 2
                           /\ Reads(q)[1] = "RegisterKey"
                           /\ Reads(q)[2] = "ServerHello"
         /\ \A n \in 1..Len(Reads(q)) : Reads(q)[n] = "ServerHello" => q \in Login
  BY DEF Reads

LEMMA NextTurn ==
  ASSUME NEW n \in {1, 2}, NEW m \in {1, 2}, n <= m, n # m
  PROVE  m = 2 /\ n + 1 = 2
  OBVIOUS

LEMMA NamesOK ==
  /\ nickName \in String => nickName.ptr \in Name /\ nickName.len \in Name
  /\ \A q \in Request : NewName(q) \in Name
  /\ \A q \in Login : NewName(q) # Empty
  /\ Unread \in String
  BY SessionAssumption DEF Name, NewName, String, Unread

LEMMA PlacesStep ==
  ASSUME PlacesOK, NEW q \in Request, Serve(q)
  PROVE  PlacesOK'
<1> USE DEF PlacesOK, SessionTypeOK, Goto, outside, Location
<1>1. CASE Start(q)
  BY <1>1, ReadsOf DEF Start, Request, Readers
<1>2. CASE Lock(q)
  BY <1>2, NamesOK, ReadsOf DEF Lock, String
<1>3. CASE WriteSecond(q)
  BY <1>3, NamesOK DEF WriteSecond, String
<1>4. CASE Unlock(q)
  BY <1>4 DEF Unlock
<1>5. CASE Show(q)
  BY <1>5 DEF Show
<1>6. CASE LoadPointer(q)
  BY <1>6, NamesOK DEF LoadPointer, String
<1>7. CASE LoadLength(q)
  BY <1>7, NamesOK DEF LoadLength, String
<1>8. CASE Use(q)
  <2>1. put' \subseteq String /\ announced' \subseteq String
    BY <1>8 DEF Use
  <2>2. turn' \in [Request -> {1, 2}] /\ \A r \in Request : turn'[r] <= Len(Reads(r))
    <3>1. /\ turn[q] \in {1, 2} /\ Len(Reads(q)) \in {1, 2} /\ turn[q] <= Len(Reads(q))
          /\ \A r \in Request : turn[r] <= Len(Reads(r))
      BY ReadsOf
    <3>2. CASE turn[q] = Len(Reads(q))
      BY <1>8, <3>1, <3>2 DEF Use
    <3>3. CASE turn[q] # Len(Reads(q))
      <4>1. Len(Reads(q)) = 2 /\ turn[q] + 1 = 2
        BY <3>1, <3>3, NextTurn
      <4>2. turn' = [turn EXCEPT ![q] = 2]
        BY <1>8, <3>3, <4>1 DEF Use
      <4> QED BY <3>1, <4>1, <4>2, ReadsOf
    <3> QED BY <3>2, <3>3
  <2>3. /\ \A r \in Request : pc'[r] \in {"idle", "lock", "second", "unlock"}
                                 => turn'[r] = turn[r] /\ pc'[r] = pc[r]
        /\ pc' \in [Request -> Location]
    BY <1>8 DEF Use
  <2>4. read' \in [Request -> String]
    BY <1>8, NamesOK DEF Use
  <2> QED BY <1>8, <2>1, <2>2, <2>3, <2>4 DEF Use
<1>9. CASE Panic(q)
  BY <1>9, NamesOK DEF Panic
<1> QED BY <1>1, <1>2, <1>3, <1>4, <1>5, <1>6, <1>7, <1>8, <1>9 DEF Serve

LEMMA WriterStep ==
  ASSUME PlacesOK, LockInv, WriterOK, NEW q \in Request, Serve(q)
  PROVE  WriterOK'
<1> USE DEF PlacesOK, SessionTypeOK, LockInv, NamesAreWhole, WriterOK, Writing, Goto, outside,
            Location, NewName
<1>1. CASE Start(q)
  BY <1>1 DEF Start
<1>2. CASE Lock(q)
  BY <1>2, SessionAssumption DEF Lock
<1>3. CASE WriteSecond(q)
  BY <1>3 DEF WriteSecond
<1>4. CASE Unlock(q)
  BY <1>4 DEF Unlock
<1>5. CASE Show(q)
  BY <1>5 DEF Show
<1>6. CASE LoadPointer(q) \/ LoadLength(q)
  BY <1>6 DEF LoadPointer, LoadLength
<1>7. CASE Use(q)
  BY <1>7 DEF Use
<1>8. CASE Panic(q)
  BY <1>8 DEF Panic
<1> QED BY <1>1, <1>2, <1>3, <1>4, <1>5, <1>6, <1>7, <1>8 DEF Serve

LEMMA AnnounceStep ==
  ASSUME PlacesOK, LockInv, WriterOK, LastWriterAnnounces, NEW q \in Request, Serve(q)
  PROVE  LastWriterAnnounces'
<1> SUFFICES ASSUME mapLock' = NoOne, nickName'.len # Empty
             PROVE  \E w \in Login : Fresh(w)'
  BY DEF LastWriterAnnounces
<1> USE DEF PlacesOK, SessionTypeOK, Goto, outside, Location
<1>1. CASE Lock(q)
  BY <1>1, SessionAssumption DEF Lock
<1>2. CASE WriteSecond(q)
  BY <1>2, SessionAssumption DEF WriteSecond, LockInv, NamesAreWhole
<1>3. CASE Unlock(q)
  <2>1. q \in Login
    BY <1>3 DEF Unlock, WriterOK, NewName
  <2>2. Fresh(q)'
    BY <1>3, <2>1 DEF Unlock, Fresh
  <2> QED BY <2>1, <2>2
<1>4. CASE mapLock' = mapLock /\ nickName' = nickName
  <2>1. PICK w \in Login : Fresh(w)
    BY <1>4 DEF LastWriterAnnounces
  <2> w \in Request
    BY DEF Request
  <2>2. ASSUME w # q, put \subseteq put', announced \subseteq announced',
               pc'[w] = pc[w], turn'[w] = turn[w], read'[w] = read[w]
        PROVE  Fresh(w)'
    BY <1>4, <2>1, <2>2 DEF Fresh
  <2>3. CASE Start(q)
    BY <2>1, <2>2, <2>3 DEF Start, Fresh
  <2>4. CASE Show(q)
    BY <2>1, <2>2, <2>4 DEF Show, Fresh
  <2>5. CASE LoadPointer(q)
    BY <1>4, <2>1, <2>2, <2>5 DEF LoadPointer, Fresh, String
  <2>6. CASE LoadLength(q)
    BY <1>4, <2>1, <2>2, <2>6 DEF LoadLength, Fresh, String
  <2>7. CASE Use(q)
    <3>1. put \subseteq put' /\ announced \subseteq announced'
      BY <2>7 DEF Use
    <3>2. CASE w # q
      BY <2>1, <2>2, <2>7, <3>1, <3>2 DEF Use, Fresh
    <3>3. CASE w = q
      <4>1. read[q] = nickName
        BY <2>1, <2>7, <3>3 DEF Use, Fresh, String
      <4>2. turn[q] = 1 => nickName \in put' /\ pc'[q] = "pointer" /\ turn'[q] = 2
        BY <2>7, <3>3, <4>1, ReadsOf DEF Use
      <4>3. turn[q] = 2 => nickName \in announced' /\ pc'[q] = "ended"
        BY <2>7, <3>3, <4>1, ReadsOf DEF Use
      <4>4. turn[q] = 2 => nickName \in put
        BY <2>1, <3>3 DEF Fresh
      <4> QED BY <1>4, <2>7, <3>1, <3>3, <4>2, <4>3, <4>4 DEF Fresh
    <3> QED BY <3>2, <3>3
  <2>8. CASE Panic(q)
    <3>1. w # q
      <4> SUFFICES ASSUME w = q PROVE FALSE
        OBVIOUS
      <4>1. read[q].ptr = nickName.ptr /\ read[q].len = nickName.len
        BY <2>1, <2>8 DEF Panic, Fresh
      <4>2. nickName.ptr = nickName.len
        BY <1>4 DEF LockInv, NamesAreWhole, Whole
      <4> QED BY <1>4, <2>8, <4>1, <4>2 DEF Panic, Unreadable
    <3> QED BY <2>1, <2>2, <2>8, <3>1 DEF Panic, Fresh
  <2> QED
    <3>1. ~Lock(q) /\ ~WriteSecond(q) /\ ~Unlock(q)
      BY <1>4, SessionAssumption, <2>1 DEF Lock, WriteSecond, Unlock, LockInv, NamesAreWhole
    <3> QED BY <2>3, <2>4, <2>5, <2>6, <2>7, <2>8, <3>1 DEF Serve
<1> QED
  BY <1>1, <1>2, <1>3, <1>4 DEF Serve, Start, Show, LoadPointer, LoadLength, Use, Panic

(* The three parts, and the exclusion of the writers they rest on.          *)
THEOREM NameInvariant == SessionSpec => [](LockInv /\ NameInv)
<1>1. SessionInit => LockInv /\ NameInv
  <2> SUFFICES ASSUME SessionInit PROVE NameInv
    BY InitLockInv
  <2>1. Empty \in Name
    BY DEF Name
  <2>2. PlacesOK
    <3>1. nickName \in String /\ turn = [q \in Request |-> 1]
      BY <2>1 DEF SessionInit, String, Unread
    <3>2. \A q \in Request : 1 <= Len(Reads(q))
      BY ReadsOf
    <3>3. SessionTypeOK
      BY <3>1 DEF SessionInit, SessionTypeOK, Location, Unread
    <3> QED BY <3>1, <3>2, <3>3 DEF SessionInit, PlacesOK
  <2> QED
    BY <2>2 DEF SessionInit, NameInv, WriterOK, LastWriterAnnounces, Unread
<1>2. LockInv /\ NameInv /\ [SessionNext]_sessionVars => (LockInv /\ NameInv)'
  <2> SUFFICES ASSUME LockInv, NameInv, [SessionNext]_sessionVars PROVE LockInv' /\ NameInv'
    OBVIOUS
  <2>1. CASE SessionStep
    <3>1. PICK q \in Request : Serve(q)
      BY <2>1 DEF SessionStep
    <3> QED
      BY <2>1, <3>1, ServeStep, PlacesStep, WriterStep, AnnounceStep
      DEF SessionStep, NameInv
  <2>2. CASE UNCHANGED sessionVars
    BY <2>2
    DEF sessionVars, LockInv, NamesAreWhole, Whole, NameInv, PlacesOK, SessionTypeOK, WriterOK, Writing,
        LastWriterAnnounces, Fresh
  <2> QED BY <2>1, <2>2 DEF SessionNext, Rest
<1> QED BY <1>1, <1>2, PTL DEF SessionSpec

(* Every variable keeps its type: names, places and reads. *)
THEOREM SessionTypeCorrect == SessionSpec => []SessionTypeOK
  BY NameInvariant, PTL DEF NameInv, PlacesOK

(* However many logins and logouts overlap, the name that stays was given  *)
(* to RegisterKey and announced to the server by the login that unlocked   *)
(* last: it read only its own name, although it read without the lock.     *)
THEOREM LastNameIsAnnounced == SessionSpec => []CurrentNameIsAnnounced
<1>1. LockInv /\ NameInv => CurrentNameIsAnnounced
  <2> SUFFICES ASSUME LockInv, NameInv, nickName.len # Empty,
                      \A q \in Login \cup Logout : pc[q] \in {"idle", "ended"}
               PROVE  nickName \in put /\ nickName \in announced
    BY DEF CurrentNameIsAnnounced
  <2>1. mapLock = NoOne
    BY DEF NameInv, WriterOK, PlacesOK, SessionTypeOK, Writing
  <2>2. PICK w \in Login : Fresh(w)
    BY <2>1 DEF NameInv, LastWriterAnnounces
  <2> QED BY <2>2 DEF Fresh
<1> QED BY NameInvariant, <1>1, PTL

(* As long as nobody logs out, a reader that has a name keeps one: a login *)
(* puts the pointer of a name in the place of another, never the nil one.  *)
SomebodyLogsOut == \E q \in Logout : pc[q] # "idle"
ReadersLive == (HaveAName /\ ~crashed) \/ SomebodyLogsOut

LEMMA LogoutStays ==
  ASSUME PlacesOK, SomebodyLogsOut, NEW q \in Request, Serve(q)
  PROVE  SomebodyLogsOut'
<1>1. PICK o \in Logout : pc[o] # "idle"
  BY DEF SomebodyLogsOut
<1>2. o \in Request /\ pc \in [Request -> Location]
  BY DEF Request, PlacesOK, SessionTypeOK
<1>3. pc'[o] # "idle"
  BY <1>1, <1>2
  DEF Serve, Start, Lock, WriteSecond, Unlock, Show, LoadPointer, LoadLength, Use, Panic, Goto
<1> QED BY <1>3 DEF SomebodyLogsOut

LEMMA ReadersStep ==
  ASSUME PlacesOK, ReadersLive, NEW q \in Request, Serve(q)
  PROVE  ReadersLive'
<1> SUFFICES ASSUME ~SomebodyLogsOut' PROVE HaveAName' /\ ~crashed'
  BY DEF ReadersLive
<1>0. HaveAName /\ ~crashed
  BY LogoutStays DEF ReadersLive
<1> USE DEF PlacesOK, SessionTypeOK, Goto, outside, Location, HaveAName
<1>1. ASSUME q \in Logout PROVE pc'[q] = "idle"
  BY <1>1 DEF SomebodyLogsOut
<1>2. Readers \subseteq Request
  BY DEF Readers, Request
<1>3. CASE Start(q)
  BY <1>0, <1>2, <1>3 DEF Start
<1>4. CASE Lock(q) \/ WriteSecond(q)
  <2>1. q \in Login
    BY <1>1, <1>4 DEF Lock, WriteSecond
  <2>2. nickName'.ptr # Empty
    BY <1>0, <1>4, <2>1, NamesOK DEF Lock, WriteSecond, String
  <2> QED BY <1>0, <1>2, <1>4, <2>2 DEF Lock, WriteSecond
<1>5. CASE Unlock(q)
  BY <1>0, <1>2, <1>5 DEF Unlock
<1>6. CASE Show(q)
  BY <1>0, <1>2, <1>6 DEF Show
<1>7. CASE LoadPointer(q)
  <2>1. read'[q].ptr # Empty
    BY <1>0, <1>7 DEF LoadPointer, String
  <2> QED BY <1>0, <1>2, <1>7, <2>1 DEF LoadPointer
<1>8. CASE LoadLength(q)
  <2>1. \A r \in Request : read'[r].ptr = read[r].ptr
    BY <1>8 DEF LoadLength, String
  <2>2. /\ nickName' = nickName /\ crashed' = crashed /\ pc[q] = "length"
        /\ \A r \in Request : pc'[r] \in {"length", "use"} => pc[r] \in {"length", "use"}
    BY <1>8 DEF LoadLength
  <2> QED BY <1>0, <1>2, <2>1, <2>2
<1>9. CASE Use(q)
  <2>1. \A r \in Request : pc'[r] \in {"length", "use"} => pc'[r] = pc[r] /\ read'[r] = read[r]
    BY <1>9 DEF Use
  <2> QED BY <1>0, <1>2, <1>9, <2>1 DEF Use
<1>10. CASE Panic(q)
  <2>1. q \in Login
    BY <1>0, <1>10 DEF Panic, Unreadable
  <2>2. \A r \in Request : pc'[r] \in {"length", "use"} => pc'[r] = pc[r] /\ read'[r] = read[r]
    BY <1>10 DEF Panic
  <2> QED BY <1>0, <1>2, <1>10, <2>1, <2>2 DEF Panic
<1> QED BY <1>3, <1>4, <1>5, <1>6, <1>7, <1>8, <1>9, <1>10 DEF Serve

(* With any number of logins, pages, clicks and peers: once the readers    *)
(* have a name, the process cannot end by a panic on it before somebody    *)
(* logs out.  Before the first name nothing protects them.                 *)
THEOREM OnlyALogoutUnnames == SessionSpec => NamedReadersSurvive
<1>1. LockInv /\ NameInv /\ ReadersLive /\ [SessionNext]_sessionVars => ReadersLive'
  <2> SUFFICES ASSUME NameInv, ReadersLive, [SessionNext]_sessionVars PROVE ReadersLive'
    OBVIOUS
  <2>1. CASE SessionStep
    BY <2>1, ReadersStep DEF SessionStep, NameInv
  <2>2. CASE UNCHANGED sessionVars
    BY <2>2 DEF sessionVars, ReadersLive, HaveAName, SomebodyLogsOut
  <2> QED BY <2>1, <2>2 DEF SessionNext, Rest
<1>2. HaveAName /\ ~crashed => ReadersLive
  BY DEF ReadersLive
<1>3. ReadersLive => (crashed => \E q \in Logout : pc[q] # "idle")
  BY DEF ReadersLive, SomebodyLogsOut
<1> QED BY NameInvariant, <1>1, <1>2, <1>3, PTL DEF SessionSpec, NamedReadersSurvive
=============================================================================
