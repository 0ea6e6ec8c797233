---------------------------- MODULE RelayProofs -----------------------------
(***************************************************************************)
(* That the peers of Relay understand each other, for every set of peers,  *)
(* every size of their names and of addresses, and any number of clicks.   *)
(***************************************************************************)
EXTENDS Relay, TLAPS

(* Length is the size of the body up to 65535. *)
LEMMA LengthOfBody ==
  ASSUME NEW n \in Nat
  PROVE  /\ uint16(n) \in Nat
         /\ uint16(n) < 65536
         /\ uint16(n) <= n
         /\ n < 65536 => uint16(n) = n
<1>1. n % 65536 \in Nat
  BY SMT
<1>2. n < 65536 => n % 65536 = n
  BY SMT
<1>3. n % 65536 < 65536
  BY SMT
<1>4. n % 65536 <= n
  BY SMT
<1> QED BY <1>1, <1>2, <1>3, <1>4 DEF uint16

(* m goes from one to the other with what SerialisationDatagram makes. *)
Datagram(m, from, to, id, type, body, key) ==
    m = Sent(from, to, SerialisationDatagram(id, type, body, key))

(* Length can say its size. *)
Fits(body) == body.size < 65536
Carries(m, body) == m.packet.body = body
Lost(m) == m.packet.body.says = Garbage

(* What a builder puts on the wire, for a body that says something. *)
LEMMA NewBody ==
  ASSUME NEW from \in Node, NEW to \in Says, NEW id \in Identifier, NEW type \in 0..255,
         NEW body \in Body, NEW key \in {Nothing, from},
         NEW m, Datagram(m, from, to, id, type, body, key)
  PROVE  /\ m.packet.body \in Body
         /\ Fits(body) => Carries(m, body)
         /\ ~Fits(body) => Lost(m)
<1> DEFINE length == uint16(body.size)
<1>1. body.size \in Nat
  BY DEF Body
<1>2. length \in Nat /\ length < 65536 /\ (body.size < 65536 => length = body.size)
  BY <1>1, LengthOfBody
<1>3. m.packet.body = FirstBytes(body, length)
  BY DEF Datagram, Sent, SerialisationDatagram
<1> HIDE DEF length
<1>4. FirstBytes(body, length) \in Body
  BY <1>2 DEF FirstBytes, Body, Says
<1>5. Fits(body) => FirstBytes(body, length) = body
  BY <1>2 DEF FirstBytes, Fits
<1>6. ~Fits(body) => FirstBytes(body, length).says = Garbage
  BY <1>1, <1>2 DEF FirstBytes, Fits
<1> QED BY <1>3, <1>4, <1>5, <1>6 DEF Carries, Lost

LEMMA NewMessage ==
  ASSUME NEW from \in Node, NEW to \in Says, NEW id \in Identifier, NEW type \in 0..255,
         NEW body \in Body, NEW key \in {Nothing, from},
         NEW m, Datagram(m, from, to, id, type, body, key)
  PROVE  /\ m \in Message
         /\ m.from = from /\ m.to = to
         /\ m.packet.id = id /\ m.packet.type = type
         /\ m.packet.signature \in {Unsigned, from}
         /\ Whole(m)
<1> DEFINE sent == FirstBytes(body, uint16(body.size))
           packet == [id |-> id, type |-> type, body |-> sent, signature |-> key,
                      size |-> Header + uint16(body.size) + IF key = NoKey THEN 0 ELSE SignatureSize]
<1>1. m = [from |-> from, to |-> to, packet |-> packet]
  BY DEF Datagram, Sent, SerialisationDatagram, ComputeSignature, Unsigned, NoKey
<1>2. uint16(body.size) \in Nat
  BY LengthOfBody DEF Body
<1>3. m.packet.body \in Body
  BY NewBody
<1>4. sent \in Body /\ sent.size = uint16(body.size)
  BY <1>1, <1>3 DEF FirstBytes
<1> HIDE DEF sent
<1>5. packet.size = Header + sent.size + IF key = Nothing THEN 0 ELSE SignatureSize
  BY <1>4 DEF NoKey
<1>6. packet.size \in Nat
  BY <1>2, <1>4, <1>5 DEF Header, SignatureSize
<1>7. packet \in Packet
  BY <1>4, <1>6 DEF Packet, Unsigned
<1>8. m \in Message
  BY <1>1, <1>7 DEF Message
<1>9. Whole(m)
  BY <1>1, <1>5 DEF Whole, Unsigned
<1> QED BY <1>1, <1>8, <1>9 DEF Unsigned

(* What is read of a datagram is what was built, or nothing; a signature   *)
(* is read only of a datagram that came whole.                             *)
LEMMA ReadIsSent ==
  ASSUME NEW m \in Message, Built(m), Read(m) # Malformed
  PROVE  /\ Read(m).id = m.packet.id /\ Read(m).type = m.packet.type
         /\ Read(m).body = m.packet.body
         /\ Read(m).signature \in {Unsigned, m.packet.signature}
         /\ m.to # Server /\ Read(m).signature # Unsigned => m.packet.size <= sizeMaxDatagram
<1> DEFINE r == IF m.to = Server THEN m.packet ELSE Received(m.packet)
<1>1. m.packet \in Packet
  BY DEF Message
<1>2. m.packet.size \in Nat /\ m.packet.body.size \in Nat
  BY <1>1 DEF Packet, Body
<1>3. /\ r.id = m.packet.id /\ r.type = m.packet.type /\ r.body = m.packet.body
      /\ r.signature = m.packet.signature
      /\ r.size = IF m.to = Server THEN m.packet.size ELSE Smaller(m.packet.size, sizeMaxDatagram)
  BY <1>1 DEF Received, Packet
<1>4. Read(m) = DeserialisationUDP(r)
  BY DEF Read
<1> HIDE DEF r
<1>5. r.size \in Nat /\ r.size <= m.packet.size /\ (m.to # Server => r.size <= 2048)
  BY <1>2, <1>3 DEF Smaller, sizeMaxDatagram
<1>6. r.size >= Header + r.body.size
  BY <1>4 DEF DeserialisationUDP, WellFormed
<1>7. Read(m) = [id |-> r.id, type |-> r.type,
                 body |-> FirstBytes(r.body, Smaller(r.body.size, r.size - Header)),
                 signature |-> IF r.size - Header - r.body.size = SignatureSize
                               THEN r.signature ELSE Unsigned]
  BY <1>4 DEF DeserialisationUDP
<1>8. Smaller(r.body.size, r.size - Header) = r.body.size
  BY <1>2, <1>3, <1>5, <1>6 DEF Smaller, Header
<1>9. Read(m).body = m.packet.body
  BY <1>3, <1>7, <1>8 DEF FirstBytes
<1>10. ASSUME m.to # Server, Read(m).signature # Unsigned PROVE m.packet.size <= sizeMaxDatagram
  <2>1. r.size = Header + r.body.size + SignatureSize /\ r.signature # Unsigned
    BY <1>2, <1>3, <1>5, <1>7, <1>10 DEF Header, SignatureSize
  <2>2. m.packet.size = Header + m.packet.body.size + SignatureSize
    BY <1>3, <2>1 DEF Built, Whole
  <2> QED BY <1>3, <1>5, <1>10, <2>1, <2>2 DEF sizeMaxDatagram
<1> QED BY <1>3, <1>7, <1>9, <1>10
-----------------------------------------------------------------------------
LEMMA InitRelayInv ==
  ASSUME Init
  PROVE  RelayInv
<1> USE DEF Init
<1>1. TypeOK
  BY DEF TypeOK, Location, Node, Says, Message
<1>2. NetIsGenuine
  BY DEF NetIsGenuine
<1>3. UsersAreKnown
  BY DEF UsersAreKnown
<1>4. AcceptedNamesFit
  BY DEF AcceptedNamesFit
<1>5. CrashMeansWrap
  BY DEF CrashMeansWrap
<1> QED BY <1>1, <1>2, <1>3, <1>4, <1>5 DEF RelayInv

(* A datagram stays what it was: its sender keeps its name, a new click    *)
(* has a new number, and nobody is forgotten.                              *)
LEMMA OldStaysGenuine ==
  ASSUME TypeOK, NEW m \in net, Built(m), Genuine(m),
         m.from \in Peer => nameSize'[m.from] = nameSize[m.from],
         \A p \in Peer : /\ clicks'[p] \in Nat /\ clicks'[p] >= clicks[p]
                         /\ clicks'[p] = clicks[p] => target'[p] = target[p]
                         /\ peerMap[p] \subseteq peerMap'[p]
  PROVE  Built(m)' /\ Genuine(m)'
<1>1. m \in Message
  BY DEF TypeOK
<1>2. m.from \in Node /\ m.packet \in Packet
  BY <1>1 DEF Message
<1>3. Built(m)'
  BY <1>2 DEF Built, Wraps, Whole
<1>4. ASSUME NEW p \in Peer, NEW q, HelloOf(m.packet.id, p, q)
      PROVE  HelloOf(m.packet.id, p, q)'
  <2>1. m.packet.id[2] \in Nat /\ m.packet.id[2] <= clicks[p]
    BY <1>4 DEF HelloOf, TypeOK
  <2>2. clicks[p] \in Nat
    BY DEF TypeOK
  <2>3. m.packet.id[2] \in 0..clicks'[p]
    BY <2>1, <2>2
  <2>4. m.packet.id[2] = clicks'[p] => m.packet.id[2] = clicks[p] /\ target'[p] = target[p]
    BY <2>1, <2>2
  <2> QED BY <1>4, <2>3, <2>4 DEF HelloOf
<1>5. m.packet.type = 130 => \A p \in Peer :
           /\ m.packet.id[1] = p => HelloOf(m.packet.id, p, m.from)'
           /\ m.packet.id[1] = p /\ m.from \in Peer => p \in peerMap'[m.from]
  BY <1>4 DEF Genuine
<1>6. m.packet.type = 1 /\ m.from \in Peer => HelloOf(m.packet.id, m.from, m.to)'
  BY <1>4 DEF Genuine
<1>7. m.packet.type = 3 => m.to \in Peer /\ m.from \in peerMap'[m.to]
  BY DEF Genuine
<1>8. m.packet.type = 1 /\ m.from \in Peer =>
           /\ m.packet.body.says \in {m.from, Garbage}
           /\ m.packet.body.says = m.from => m.packet.body.size = 4 + nameSize'[m.from]
  BY DEF Genuine
<1>9. /\ m.packet.type = 1 /\ m.from = Server =>
             m.packet.id = <<Server, 0, "hello">> /\ m.packet.body = [size |-> 8, says |-> Server]
      /\ m.packet.type = 132 => m.packet.body.size >= 32
      /\ m.packet.body.says = Garbage => m.packet.type \in {1, 4, 130}
      /\ m.packet.type \notin {1, 130} => m.packet.id[3] # "hello"
  BY DEF Genuine
<1>10. Genuine(m)'
  BY <1>5, <1>6, <1>7, <1>8, <1>9 DEF Genuine
<1> QED BY <1>3, <1>10

(* A handler sends what it has built, to whoever asked, and the user stays *)
(* where he is.                                                            *)
LEMMA HandlerKeepsUsers ==
  ASSUME RelayInv, NEW q \in Node, NEW S, net' = net \cup S, UNCHANGED userVars,
         q \in Peer => pc[q] # "out",
         \A m \in S : m.from = q /\ m \in Message /\ Built(m)' /\ Genuine(m)',
         \A p \in Peer : p # q => opened'[p] = opened[p],
         \A p \in Peer : peerMap[p] \subseteq peerMap'[p],
         \A p, r \in Peer : r \in peerMap'[p] /\ r \notin peerMap[p] => pc[r] # "out"
  PROVE  NetIsGenuine' /\ UsersAreKnown' /\ net' \in SUBSET Message
<1>1. net' \in SUBSET Message
  BY DEF RelayInv, TypeOK
<1>2. ASSUME NEW m \in net PROVE Built(m)' /\ Genuine(m)'
  <2>1. TypeOK /\ Built(m) /\ Genuine(m)
    BY DEF RelayInv, NetIsGenuine
  <2>2. nameSize' = nameSize /\ clicks' = clicks /\ target' = target
    BY DEF userVars
  <2>3. \A p \in Peer : clicks[p] \in Nat /\ clicks[p] >= clicks[p]
    BY <2>1 DEF TypeOK
  <2> QED BY <2>1, <2>2, <2>3, OldStaysGenuine
<1>3. NetIsGenuine'
  BY <1>2 DEF NetIsGenuine
<1>4. UsersAreKnown'
  BY DEF RelayInv, UsersAreKnown, userVars
<1> QED BY <1>1, <1>3, <1>4

(* A body that fits into Length arrives as it was, and needs nothing more  *)
(* unless it is a Hello, its reply, a request for a datum or a datum.      *)
Plain(type, id) == type \notin {1, 3, 130, 132} /\ id[3] # "hello"
LEMMA PlainMessage ==
  ASSUME NEW from \in Node, NEW to \in Says, NEW id \in Identifier, NEW type \in 0..255,
         NEW body \in Body, body.says # Garbage, Fits(body), NEW key \in {Nothing, from},
         Plain(type, id),
         NEW m, Datagram(m, from, to, id, type, body, key)
  PROVE  m.from = from /\ m \in Message /\ Built(m)' /\ Genuine(m)'
<1>1. /\ m \in Message /\ m.from = from /\ m.packet.id = id /\ m.packet.type = type
      /\ m.packet.signature \in {Unsigned, from} /\ Whole(m)
  BY NewMessage
<1>2. Carries(m, body)
  BY NewBody
<1>3. Built(m)'
  BY <1>1, <1>2 DEF Built, Whole, Carries
<1>4. Genuine(m)'
  BY <1>1, <1>2 DEF Genuine, Plain, Carries
<1> QED BY <1>1, <1>3, <1>4

(* What a handler knows of the datagram d that it reads from m. *)
LEMMA Heard ==
  ASSUME RelayInv, NEW m \in net, Passes(m), Read(m) # Malformed, NEW d, d = Read(m)
  PROVE  /\ m \in Message /\ m.from \in Node /\ m.from \in Says /\ m.to \in Node
         /\ m.to \in Peer => m.to \notin crashed /\ pc[m.to] # "out"
         /\ m.from \in Peer => pc[m.from] # "out"
         /\ Built(m) /\ Genuine(m)
         /\ d.id = m.packet.id /\ d.type = m.packet.type /\ d.body = m.packet.body
         /\ d.id \in Identifier /\ d.type \in 0..255 /\ d.body \in Body
         /\ d.signature \in {Unsigned, m.from}
         /\ m.to # Server /\ d.signature # Unsigned =>
              m.packet.size <= sizeMaxDatagram /\ m.packet.signature # Unsigned
<1>1. m \in Message /\ Built(m) /\ Genuine(m)
  BY DEF RelayInv, TypeOK, NetIsGenuine
<1>2. m.from \in Node /\ m.packet \in Packet
  BY <1>1 DEF Message
<1>3. m.to \in Node /\ (m.to \in Peer => m.to \notin crashed /\ m.from \in opened[m.to])
  BY RelayAssumption DEF Passes, Node
<1>4. m.to \in Peer => pc[m.to] # "out"
  BY <1>3 DEF RelayInv, UsersAreKnown
<1>5. m.from \in Peer => pc[m.from] # "out"
  BY DEF RelayInv, UsersAreKnown
<1>6. /\ d.id = m.packet.id /\ d.type = m.packet.type /\ d.body = m.packet.body
      /\ d.signature \in {Unsigned, m.packet.signature}
      /\ m.to # Server /\ d.signature # Unsigned => m.packet.size <= sizeMaxDatagram
  BY <1>1, ReadIsSent
<1>7. m.packet.id \in Identifier /\ m.packet.type \in 0..255 /\ m.packet.body \in Body
  BY <1>2 DEF Packet
<1>8. m.packet.signature \in {Unsigned, m.from}
  BY <1>1 DEF Built
<1>9. m.from \in Says
  BY <1>2 DEF Says
<1> QED BY <1>1, <1>2, <1>3, <1>4, <1>5, <1>6, <1>7, <1>8, <1>9

LEMMA IdIsIdentifier ==
  ASSUME TypeOK, NEW p \in Peer,
         NEW of \in {"hello", "root", "datum", "forward", "relayed", "ping", "relay"}
  PROVE  Id(p, of) \in Identifier /\ Id(p, of)[1] = p /\ Id(p, of)[2] = clicks[p] /\ Id(p, of)[3] = of
BY DEF Id, Identifier, TypeOK, Node

(* No two of the roles are the same. *)
LEMMA Distinct ==
  /\ Server \notin Peer /\ Nothing \notin Node /\ Garbage \notin Node /\ Garbage # Nothing
  /\ Nothing \in Says /\ Node \subseteq Says
  /\ \A p \in Peer : NameSizes[p] \subseteq Nat \ {0}
  /\ IpSize = 4 \/ IpSize = 16
BY RelayAssumption DEF Node, Says
-----------------------------------------------------------------------------
(* The requests. *)
LEMMA HelloTooShortStep ==
  ASSUME RelayInv, NEW m \in net, Passes(m), Read(m) # Malformed, m.to \in Peer,
         NEW d, d = Read(m), HelloTooShort(m.to, d)
  PROVE  RelayInv'
<1> USE DEF HelloTooShort
<1>1. /\ m.from \in Node /\ Built(m) /\ Genuine(m)
      /\ d.type = m.packet.type /\ d.body = m.packet.body /\ d.body \in Body
  BY Heard
<1>2. d.body.says = Garbage
  <2>1. m.from = Server => d.body.size = 8
    BY <1>1 DEF Genuine
  <2>2. ASSUME m.from \in Peer, d.body.says = m.from PROVE FALSE
    <3>1. d.body.size = 4 + nameSize[m.from] /\ nameSize[m.from] \in Nat
      BY <1>1, <2>2 DEF Genuine, RelayInv, TypeOK
    <3> QED BY <3>1
  <2>3. m.from \in Peer => d.body.says \in {m.from, Garbage}
    BY <1>1 DEF Genuine
  <2> QED BY <1>1, <2>1, <2>2, <2>3 DEF Node
<1>3. m.from \in Peer /\ Wraps(m.from)
  BY <1>1, <1>2 DEF Built
<1>4. TypeOK'
  BY DEF RelayInv, TypeOK, userVars, tableVars, serverVars
<1>5. NetIsGenuine'
  BY DEF RelayInv, NetIsGenuine, Built, Genuine, HelloOf, Wraps, userVars, tableVars
<1>6. UsersAreKnown'
  BY DEF RelayInv, UsersAreKnown, userVars, tableVars
<1>7. AcceptedNamesFit'
  BY DEF RelayInv, AcceptedNamesFit, userVars, tableVars
<1>8. CrashMeansWrap'
  BY <1>3 DEF CrashMeansWrap, Wraps, userVars
<1> QED BY <1>4, <1>5, <1>6, <1>7, <1>8 DEF RelayInv

LEMMA EmptyBody == Empty \in Body /\ Empty.says # Garbage /\ Fits(Empty)
BY Distinct DEF Body, Empty, Fits

(* A request is answered by the peer q with the message x. *)
LEMMA ReplyKeepsUsers ==
  ASSUME RelayInv, NEW q \in Node, q \in Peer => pc[q] # "out", UNCHANGED userVars,
         NEW x, x.from = q, x \in Message, Built(x)', Genuine(x)', net' = net \cup {x},
         q \in Peer => opened' = [opened EXCEPT ![q] = @ \cup {y.to : y \in {x}}],
         q \notin Peer => opened' = opened,
         \A p \in Peer : peerMap[p] \subseteq peerMap'[p],
         \A p, r \in Peer : r \in peerMap'[p] /\ r \notin peerMap[p] => pc[r] # "out"
  PROVE  NetIsGenuine' /\ UsersAreKnown' /\ net' \in SUBSET Message
         /\ opened' \in [Peer -> SUBSET Says]
<1>1. PICK S : S = {x}
  OBVIOUS
<1>2. net' = net \cup S /\ \A m \in S : m.from = q /\ m \in Message /\ Built(m)' /\ Genuine(m)'
  BY <1>1
<1>3. NetIsGenuine' /\ UsersAreKnown' /\ net' \in SUBSET Message
  <2>1. \A p \in Peer : p # q => opened'[p] = opened[p]
    BY DEF RelayInv, TypeOK
  <2> QED BY <1>2, <2>1, HandlerKeepsUsers
<1>4. opened' \in [Peer -> SUBSET Says]
  BY DEF RelayInv, TypeOK, Message
<1> QED BY <1>3, <1>4

LEMMA AnswerPingStep ==
  ASSUME RelayInv, NEW m \in net, Passes(m), Read(m) # Malformed, NEW q \in Peer, m.to = q,
         NEW d, d = Read(m), AnswerPing(q, m, d)
  PROVE  RelayInv'
<1> USE DEF AnswerPing
<1>1. /\ m.from \in Says /\ m.from \in Node /\ pc[q] # "out" /\ Genuine(m)
      /\ d.id = m.packet.id /\ d.type = m.packet.type /\ d.id \in Identifier
  BY Heard
<1>2. PICK pong : pong = Sent(q, m.from, BuildPongReplyPacket(d.id))
  OBVIOUS
<1>3. Datagram(pong, q, m.from, d.id, 128, Empty, Nothing)
  BY <1>2 DEF Datagram, BuildPongReplyPacket, NoKey
<1>4. Plain(128, d.id)
  BY <1>1 DEF Genuine, Plain
<1>5. pong.from = q /\ pong \in Message /\ Built(pong)' /\ Genuine(pong)'
  <2>1. q \in Node /\ 128 \in 0..255
    BY DEF Node
  <2>2. m.from \in Says /\ d.id \in Identifier
    BY <1>1
  <2> QED BY <2>1, <2>2, <1>3, <1>4, EmptyBody, PlainMessage
<1>6. net' = net \cup {pong} /\ opened' = [opened EXCEPT ![q] = @ \cup {y.to : y \in {pong}}]
  BY <1>2 DEF Send
<1>7. NetIsGenuine' /\ UsersAreKnown' /\ net' \in SUBSET Message
      /\ opened' \in [Peer -> SUBSET Says]
  BY <1>1, <1>5, <1>6, ReplyKeepsUsers DEF Node
<1>8. TypeOK'
  BY <1>1, <1>7 DEF RelayInv, TypeOK, userVars, serverVars
<1>9. AcceptedNamesFit' /\ CrashMeansWrap'
  BY DEF RelayInv, AcceptedNamesFit, CrashMeansWrap, Wraps, userVars
<1> QED BY <1>7, <1>8, <1>9 DEF RelayInv

(* A Hello or its reply says who it comes from, unless its name is too     *)
(* long.                                                                   *)
SaysHello(m, q, n) ==
    /\ m.packet.body.says \in {q, Garbage}
    /\ m.packet.body.says = q \/ q = Server => m.packet.body = HelloBody(q, n)
Names(q, n) == n \in Nat /\ (q \in Peer => n = nameSize[q]) /\ (q = Server => n = 4)
LEMMA HelloMessage ==
  ASSUME NEW q \in Node, NEW to \in Says, NEW id \in Identifier, NEW type \in 0..255,
         NEW n, Names(q, n)',
         NEW m, Datagram(m, q, to, id, type, HelloBody(q, n), q)
  PROVE  /\ m \in Message /\ m.from = q /\ m.to = to /\ m.packet.id = id /\ m.packet.type = type
         /\ SaysHello(m, q, n) /\ Built(m)'
<1>1. HelloBody(q, n) = [size |-> 4 + n, says |-> q] /\ n \in Nat
  BY DEF HelloBody, Names
<1>2. HelloBody(q, n) \in Body
  BY <1>1 DEF Body, Says, Names
<1>3. /\ m \in Message /\ m.from = q /\ m.to = to /\ m.packet.id = id /\ m.packet.type = type
      /\ m.packet.signature \in {Unsigned, q} /\ Whole(m)
  BY <1>2, NewMessage
<1>4. /\ Fits(HelloBody(q, n)) => Carries(m, HelloBody(q, n))
      /\ ~Fits(HelloBody(q, n)) => Lost(m)
  BY <1>2, NewBody
<1>5. q # Garbage
  BY Distinct
<1>6. CASE Fits(HelloBody(q, n))
  <2>1. m.packet.body = HelloBody(q, n) /\ m.packet.body.says = q
    BY <1>1, <1>4, <1>6 DEF Carries
  <2>2. Built(m)'
    BY <1>3, <1>5, <2>1 DEF Built, Whole
  <2> QED BY <1>3, <2>1, <2>2 DEF SaysHello
<1>7. CASE ~Fits(HelloBody(q, n))
  <2>1. m.packet.body.says = Garbage
    BY <1>4, <1>7 DEF Lost
  <2>2. 4 + n >= 65536
    <3>1. HelloBody(q, n).size = 4 + n
      BY <1>1
    <3> QED BY <1>1, <1>7, <3>1 DEF Fits
  <2>3. q \in Peer /\ q # Server /\ n = nameSize'[q]
    BY <2>2, Distinct DEF Node, Names
  <2>4. IpSize \in Nat
    BY Distinct
  <2>5. Wraps(q)'
    BY <1>1, <2>2, <2>3, <2>4 DEF Wraps, Header, SignatureSize
  <2>6. Built(m)'
    BY <1>3, <2>3, <2>5 DEF Built, Whole
  <2> QED BY <1>3, <1>5, <2>1, <2>3, <2>6 DEF SaysHello
<1> QED BY <1>6, <1>7

LEMMA AnswerHelloStep ==
  ASSUME RelayInv, NEW m \in net, Passes(m), Read(m) # Malformed, NEW q \in Peer, m.to = q,
         NEW d, d = Read(m), AnswerHello(q, m, d)
  PROVE  RelayInv'
<1> USE DEF AnswerHello
<1>1. /\ m.from \in Says /\ m.from \in Node /\ pc[q] # "out" /\ Genuine(m) /\ Built(m)
      /\ m.from \in Peer => pc[m.from] # "out"
      /\ d.id = m.packet.id /\ d.type = m.packet.type /\ d.body = m.packet.body
      /\ d.id \in Identifier /\ d.signature \in {Unsigned, m.from}
      /\ d.signature # Unsigned => m.packet.size <= sizeMaxDatagram /\ m.packet.signature # Unsigned
  BY Heard, Distinct
<1>2. d.body.says = m.from /\ m.packet.size <= sizeMaxDatagram /\ m.packet.signature # Unsigned
  <2>1. d.body.says # Nothing
    BY Distinct DEF RelayInv, TypeOK, Node
  <2>2. d.signature = d.body.says
    BY DEF VerifySignature, ComputeSignature
  <2> QED BY <1>1, <2>1, <2>2 DEF Unsigned
<1>3. peerMap' = [peerMap EXCEPT ![q] = @ \cup {m.from}]
  BY <1>2
<1>4. PICK x : x = Sent(q, m.from, BuildHelloReplyPacket(d.id, q, nameSize[q], q))
  OBVIOUS
<1>5. Datagram(x, q, m.from, d.id, 130, HelloBody(q, nameSize[q]), q)
  BY <1>4 DEF Datagram, BuildHelloReplyPacket
<1>6. /\ x \in Message /\ x.from = q /\ x.packet.id = d.id /\ x.packet.type = 130
      /\ x.packet.body.says \in {q, Garbage} /\ Built(x)'
  <2>1. \A n : n = nameSize[q] => Names(q, n)'
    BY Distinct DEF RelayInv, TypeOK, userVars, Names
  <2>2. q \in Node /\ 130 \in 0..255
    BY DEF Node
  <2>3. PICK n : n = nameSize[q]
    OBVIOUS
  <2>4. Datagram(x, q, m.from, d.id, 130, HelloBody(q, n), q) /\ Names(q, n)'
    BY <1>5, <2>1, <2>3
  <2>5. m.from \in Says /\ d.id \in Identifier
    BY <1>1
  <2>6. /\ x \in Message /\ x.from = q /\ x.packet.id = d.id /\ x.packet.type = 130
        /\ SaysHello(x, q, n) /\ Built(x)'
    BY <2>2, <2>4, <2>5, HelloMessage
  <2> QED BY <2>6 DEF SaysHello
<1>7. \A p \in Peer : d.id[1] = p => m.from = p /\ HelloOf(d.id, p, q)
  <2>1. m.from \in Peer => HelloOf(d.id, m.from, q)
    BY <1>1 DEF Genuine
  <2>2. m.from \in Peer => d.id[1] = m.from
    BY <2>1 DEF HelloOf
  <2>3. m.from = Server => d.id[1] = Server
    BY <1>1 DEF Genuine
  <2> QED BY <1>1, <2>1, <2>2, <2>3, Distinct DEF Node
<1>8. Genuine(x)'
  BY <1>3, <1>6, <1>7, Distinct DEF Genuine, HelloOf, userVars, RelayInv, TypeOK
<1>9. net' = net \cup {x} /\ opened' = [opened EXCEPT ![q] = @ \cup {y.to : y \in {x}}]
  BY <1>4 DEF Send
<1>10. NetIsGenuine' /\ UsersAreKnown' /\ net' \in SUBSET Message
       /\ opened' \in [Peer -> SUBSET Says]
  <2>1. q \in Node
    BY DEF Node
  <2>2. \A p \in Peer : peerMap[p] \subseteq peerMap'[p]
    BY <1>3 DEF RelayInv, TypeOK
  <2>3. \A p, r \in Peer : r \in peerMap'[p] /\ r \notin peerMap[p] => pc[r] # "out"
    BY <1>1, <1>3 DEF RelayInv, TypeOK
  <2> QED BY <1>1, <1>6, <1>8, <1>9, <2>1, <2>2, <2>3, ReplyKeepsUsers
<1>11. TypeOK'
  <2>1. peerMap' \in [Peer -> SUBSET Node]
    BY <1>1, <1>3 DEF RelayInv, TypeOK
  <2> QED BY <1>10, <2>1 DEF RelayInv, TypeOK, userVars, serverVars
<1>12. AcceptedNamesFit'
  <2>1. m.from \in Peer => Header + 4 + nameSize[m.from] + SignatureSize <= sizeMaxDatagram
    <3>1. m.packet.size = Header + m.packet.body.size + SignatureSize
      BY <1>1, <1>2 DEF Built, Whole
    <3>2. m.from \in Peer => m.packet.body.size = 4 + nameSize[m.from] /\ nameSize[m.from] \in Nat
      BY <1>1, <1>2 DEF Genuine, RelayInv, TypeOK
    <3> QED BY <1>2, <3>1, <3>2 DEF Header, SignatureSize, sizeMaxDatagram
  <2>2. nameSize' = nameSize
    BY DEF userVars
  <2>3. \A p, r \in Peer : r \in peerMap'[p] => r \in peerMap[p] \/ r = m.from
    BY <1>3 DEF RelayInv, TypeOK
  <2> QED BY <2>1, <2>2, <2>3 DEF AcceptedNamesFit, RelayInv
<1>13. CrashMeansWrap'
  BY DEF RelayInv, CrashMeansWrap, Wraps, userVars
<1> QED BY <1>10, <1>11, <1>12, <1>13 DEF RelayInv

LEMMA AnswerRootStep ==
  ASSUME RelayInv, NEW m \in net, Passes(m), Read(m) # Malformed, NEW q \in Peer, m.to = q,
         NEW d, d = Read(m), AnswerRoot(q, m, d)
  PROVE  RelayInv'
<1> USE DEF AnswerRoot
<1>1. /\ m.from \in Says /\ m.from \in Node /\ pc[q] # "out" /\ Genuine(m)
      /\ d.id = m.packet.id /\ d.type = m.packet.type /\ d.id \in Identifier
  BY Heard
<1>2. PICK body : body = [size |-> 32, says |-> IF q \in Exports THEN q ELSE Nothing]
  OBVIOUS
<1>3. PICK x : x = Sent(q, m.from, SerialisationDatagram(d.id, 131, body, q))
  OBVIOUS
<1>4. x.from = q /\ x \in Message /\ Built(x)' /\ Genuine(x)'
  <2>1. q \in Node /\ 131 \in 0..255
    BY DEF Node
  <2>2. body \in Body /\ body.says # Garbage /\ Fits(body)
    BY <1>2, <2>1, Distinct DEF Body, Fits, Says
  <2>3. Datagram(x, q, m.from, d.id, 131, body, q)
    BY <1>3 DEF Datagram
  <2>4. Plain(131, d.id)
    BY <1>1 DEF Genuine, Plain
  <2>5. m.from \in Says /\ d.id \in Identifier
    BY <1>1
  <2> QED BY <2>1, <2>2, <2>3, <2>4, <2>5, PlainMessage
<1>5. net' = net \cup {x} /\ opened' = [opened EXCEPT ![q] = @ \cup {y.to : y \in {x}}]
  BY <1>2, <1>3 DEF Send, BuildRootReplyPacket
<1>6. NetIsGenuine' /\ UsersAreKnown' /\ net' \in SUBSET Message
      /\ opened' \in [Peer -> SUBSET Says]
  <2>1. q \in Node
    BY DEF Node
  <2>2. peerMap' = peerMap
    BY DEF tableVars
  <2> QED BY <1>1, <1>4, <1>5, <2>1, <2>2, ReplyKeepsUsers
<1>7. TypeOK'
  BY <1>6 DEF RelayInv, TypeOK, userVars, tableVars, serverVars
<1>8. AcceptedNamesFit' /\ CrashMeansWrap'
  BY DEF RelayInv, AcceptedNamesFit, CrashMeansWrap, Wraps, userVars, tableVars
<1> QED BY <1>6, <1>7, <1>8 DEF RelayInv

LEMMA AnswerDatumStep ==
  ASSUME RelayInv, NEW m \in net, Passes(m), Read(m) # Malformed, NEW q \in Peer, m.to = q,
         NEW d, d = Read(m), AnswerDatum(q, m, d)
  PROVE  RelayInv'
<1> USE DEF AnswerDatum
<1>1. /\ m.from \in Says /\ m.from \in Node /\ pc[q] # "out" /\ Genuine(m)
      /\ d.id = m.packet.id /\ d.type = m.packet.type /\ d.id \in Identifier
  BY Heard
<1>2. PICK datum : datum = [size |-> 32 + DatumSize, says |-> q]
  OBVIOUS
<1>3. PICK x : x = Sent(q, m.from, IF q \in Exports /\ d.body.says = q
                                   THEN SerialisationDatagram(d.id, 132, datum, NoKey)
                                   ELSE BuildNoDatumReplyPacket(d.id, q))
  OBVIOUS
<1>4. x.from = q /\ x \in Message /\ Built(x)' /\ Genuine(x)'
  <2>1. q \in Node /\ 132 \in 0..255 /\ 133 \in 0..255
    BY DEF Node
  <2>2. m.from \in Says /\ d.id \in Identifier /\ d.id[3] # "hello"
    BY <1>1 DEF Genuine
  <2>3. CASE x = Sent(q, m.from, SerialisationDatagram(d.id, 132, datum, Nothing))
    <3>1. datum \in Body /\ datum.says # Garbage /\ datum.size >= 32 /\ Fits(datum)
      BY <1>2, <2>1, Distinct DEF Body, Fits, Says, DatumSize
    <3>2. Datagram(x, q, m.from, d.id, 132, datum, Nothing)
      BY <2>3 DEF Datagram
    <3>3. /\ x \in Message /\ x.from = q /\ x.packet.id = d.id /\ x.packet.type = 132
          /\ x.packet.signature \in {Unsigned, q} /\ Whole(x)
      BY <2>1, <2>2, <3>1, <3>2, NewMessage
    <3>4. Carries(x, datum)
      BY <2>1, <2>2, <3>1, <3>2, NewBody
    <3>5. x.packet.body.size >= 32 /\ x.packet.body.says # Garbage
      BY <3>1, <3>4 DEF Carries
    <3>6. Built(x)'
      BY <3>3, <3>5 DEF Built, Whole
    <3>7. Genuine(x)'
      BY <2>2, <3>3, <3>5 DEF Genuine
    <3> QED BY <3>3, <3>6, <3>7
  <2>4. CASE x = Sent(q, m.from, SerialisationDatagram(d.id, 133, Empty, q))
    <3>1. Plain(133, d.id)
      BY <2>2 DEF Plain
    <3>2. Datagram(x, q, m.from, d.id, 133, Empty, q)
      BY <2>4 DEF Datagram
    <3> QED BY <2>1, <2>2, <3>1, <3>2, EmptyBody, PlainMessage
  <2> QED BY <1>3, <2>3, <2>4 DEF NoKey, BuildNoDatumReplyPacket
<1>5. net' = net \cup {x} /\ opened' = [opened EXCEPT ![q] = @ \cup {y.to : y \in {x}}]
  BY <1>2, <1>3 DEF Send
<1>6. NetIsGenuine' /\ UsersAreKnown' /\ net' \in SUBSET Message
      /\ opened' \in [Peer -> SUBSET Says]
  <2>1. q \in Node
    BY DEF Node
  <2>2. peerMap' = peerMap
    BY DEF tableVars
  <2> QED BY <1>1, <1>4, <1>5, <2>1, <2>2, ReplyKeepsUsers
<1>7. TypeOK'
  BY <1>6 DEF RelayInv, TypeOK, userVars, tableVars, serverVars
<1>8. AcceptedNamesFit' /\ CrashMeansWrap'
  BY DEF RelayInv, AcceptedNamesFit, CrashMeansWrap, Wraps, userVars, tableVars
<1> QED BY <1>6, <1>7, <1>8 DEF RelayInv

LEMMA PunchStep ==
  ASSUME RelayInv, NEW m \in net, Passes(m), Read(m) # Malformed, NEW q \in Peer, m.to = q,
         NEW d, d = Read(m), Punch(q, m, d)
  PROVE  RelayInv'
<1> USE DEF Punch
<1>1. /\ m.from \in Says /\ pc[q] # "out" /\ Genuine(m)
      /\ d.id = m.packet.id /\ d.type = m.packet.type /\ d.id \in Identifier /\ d.body \in Body
  BY Heard
<1>2. PICK pong : pong = Sent(q, m.from, BuildPongReplyPacket(d.id))
  OBVIOUS
<1>3. PICK id : id = <<q, 0, "ping">>
  OBVIOUS
<1>4. PICK ping : ping = Sent(q, Punched(m, d.body), BuildPingPacket(id))
  OBVIOUS
<1>5. q \in Node /\ 128 \in 0..255 /\ 0 \in 0..255
  BY DEF Node
<1>6. pong.from = q /\ pong \in Message /\ Built(pong)' /\ Genuine(pong)'
  <2>1. Datagram(pong, q, m.from, d.id, 128, Empty, Nothing)
    BY <1>2 DEF Datagram, BuildPongReplyPacket, NoKey
  <2>2. Plain(128, d.id)
    BY <1>1 DEF Genuine, Plain
  <2>3. m.from \in Says /\ d.id \in Identifier
    BY <1>1
  <2> QED BY <1>5, <2>1, <2>2, <2>3, EmptyBody, PlainMessage
<1>7. ping.from = q /\ ping \in Message /\ Built(ping)' /\ Genuine(ping)'
  <2>1. Punched(m, d.body) \in Says
    BY <1>1, Distinct DEF Punched, AddressIn, Body
  <2>2. Datagram(ping, q, Punched(m, d.body), id, 0, Empty, Nothing)
    BY <1>4 DEF Datagram, BuildPingPacket, NoKey
  <2>3. id \in Identifier
    <3>1. q \in Node
      BY DEF Node
    <3> QED BY <1>3, <3>1 DEF Identifier
  <2>4. id[3] = "ping"
    BY <1>3
  <2>5. Plain(0, id)
    BY <2>4 DEF Plain
  <2> QED BY <1>5, <2>1, <2>2, <2>3, <2>5, EmptyBody, PlainMessage
<1>8. PICK S : S = {pong} \cup IF d.body.size < 6 THEN {} ELSE {ping}
  OBVIOUS
<1>9. net' = net \cup S /\ opened' = [opened EXCEPT ![q] = @ \cup {y.to : y \in S}]
  BY <1>2, <1>3, <1>4, <1>8 DEF Send
<1>10. \A x \in S : x = pong \/ x = ping
  BY <1>8
<1>11. NetIsGenuine' /\ UsersAreKnown' /\ net' \in SUBSET Message
  <2>1. \A x \in S : x.from = q /\ x \in Message /\ Built(x)' /\ Genuine(x)'
    BY <1>6, <1>7, <1>10
  <2>2. \A p \in Peer : p # q => opened'[p] = opened[p]
    BY <1>9 DEF RelayInv, TypeOK
  <2>3. peerMap' = peerMap
    BY DEF tableVars
  <2> QED BY <1>1, <1>5, <1>9, <2>1, <2>2, <2>3, HandlerKeepsUsers
<1>12. opened' \in [Peer -> SUBSET Says]
  BY <1>6, <1>7, <1>9, <1>10 DEF RelayInv, TypeOK, Message
<1>13. TypeOK'
  BY <1>11, <1>12 DEF RelayInv, TypeOK, userVars, tableVars, serverVars
<1>14. AcceptedNamesFit' /\ CrashMeansWrap'
  BY DEF RelayInv, AcceptedNamesFit, CrashMeansWrap, Wraps, userVars, tableVars
<1> QED BY <1>11, <1>13, <1>14 DEF RelayInv
-----------------------------------------------------------------------------
(* The answers.  A HelloReply to the Hello of this click comes from the    *)
(* target, which has accepted the peer.                                    *)
LEMMA AnsweredByTarget ==
  ASSUME RelayInv, NEW m \in net, Genuine(m), NEW p \in Peer, pc[p] = "hello",
         m.packet.type >= 128, m.packet.id = Id(p, "hello")
  PROVE  p \in peerMap[target[p]]
<1>1. m.packet.id[1] = p /\ m.packet.id[2] = clicks[p] /\ m.packet.id[3] = "hello"
  BY DEF Id
<1>2. m.packet.type = 130
  BY <1>1 DEF Genuine
<1>3. HelloOf(m.packet.id, p, m.from)
  BY <1>1, <1>2 DEF Genuine
<1>4. clicks[p] > 0 /\ clicks[p] \in Nat
  BY DEF RelayInv, UsersAreKnown, TypeOK
<1>5. m.from \in Peer /\ m.from = target[p]
  BY <1>1, <1>3, <1>4 DEF HelloOf
<1> QED BY <1>1, <1>2, <1>5 DEF Genuine

(* The user of p goes on to another exchange with the target, or to the    *)
(* relay, once p is in the target's table.                                 *)
LEMMA UserGoesOn ==
  ASSUME RelayInv, NEW p \in Peer, pc[p] \in {"hello", "root", "datum"},
         NEW l \in {"root", "datum", "relay"}, pc' = [pc EXCEPT ![p] = l],
         l # "relay" => p \in peerMap[target[p]],
         UNCHANGED <<clicks, target, nameSize, peerMap>>,
         \/ UNCHANGED <<net, opened>>
         \/ \E x \in Message : /\ x.from = p /\ Built(x)' /\ Genuine(x)' /\ net' = net \cup {x}
                               /\ opened' = [opened EXCEPT ![p] = @ \cup {x.to}]
  PROVE  /\ NetIsGenuine' /\ UsersAreKnown' /\ net' \in SUBSET Message
         /\ opened' \in [Peer -> SUBSET Says] /\ pc' \in [Peer -> Location]
<1>1. ASSUME NEW m \in net PROVE Built(m)' /\ Genuine(m)'
  <2>1. TypeOK /\ Built(m) /\ Genuine(m)
    BY DEF RelayInv, NetIsGenuine
  <2>2. \A r \in Peer : clicks[r] \in Nat /\ clicks[r] >= clicks[r]
    BY <2>1 DEF TypeOK
  <2> QED BY <2>1, <2>2, OldStaysGenuine
<1>2. NetIsGenuine'
  BY <1>1 DEF NetIsGenuine
<1>3. net' \in SUBSET Message /\ opened' \in [Peer -> SUBSET Says] /\ pc' \in [Peer -> Location]
  BY DEF RelayInv, TypeOK, Message, Location
<1>4. UsersAreKnown'
  <2> SUFFICES ASSUME NEW r \in Peer PROVE
        /\ pc'[r] = "out" => nameSize'[r] = 0 /\ clicks'[r] = 0 /\ opened'[r] = {}
        /\ pc'[r] = "out" => (\A m \in net' : m.from # r) /\ (\A q \in Peer : r \notin peerMap'[q])
        /\ pc'[r] \in {"hello", "root", "datum", "relay"} => target'[r] \in Peer /\ clicks'[r] > 0
        /\ pc'[r] \in {"root", "datum"} => r \in peerMap'[target'[r]]
    BY DEF UsersAreKnown
  <2>1. pc \in [Peer -> Location] /\ opened \in [Peer -> SUBSET Says]
    BY DEF RelayInv, TypeOK
  <2>2. CASE r = p
    BY <2>1, <2>2 DEF RelayInv, UsersAreKnown
  <2>3. CASE r # p
    <3>1. pc'[r] = pc[r] /\ opened'[r] = opened[r]
      BY <2>1, <2>3
    <3>2. (\A m \in net : m.from # r) => \A m \in net' : m.from # r
      BY <2>3
    <3> QED BY <3>1, <3>2 DEF RelayInv, UsersAreKnown
  <2> QED BY <2>2, <2>3
<1> QED BY <1>2, <1>3, <1>4

LEMMA HelloRepliedStep ==
  ASSUME RelayInv, NEW m \in net, Passes(m), Read(m) # Malformed, NEW p \in Peer, m.to = p,
         NEW d, d = Read(m), HelloReplied(p, d)
  PROVE  RelayInv'
<1> USE DEF HelloReplied, Awaited
<1>1. Genuine(m) /\ d.id = m.packet.id /\ d.type = m.packet.type
  BY Heard
<1>2. p \in peerMap[target[p]]
  BY <1>1, AnsweredByTarget
<1>3. PICK x : x = Sent(p, target[p], BuildRootRequestPacket(Id(p, "root"), p))
  OBVIOUS
<1>4. x.from = p /\ x.to = target[p] /\ x \in Message /\ Built(x)' /\ Genuine(x)'
  <2>1. PICK id, to : id = Id(p, "root") /\ to = target[p]
    OBVIOUS
  <2>2. id \in Identifier /\ Plain(2, id)
    <3>1. id \in Identifier
      BY <2>1, IdIsIdentifier DEF RelayInv
    <3>2. id[3] = "root"
      BY <2>1 DEF Id
    <3> QED BY <3>1, <3>2 DEF Plain
  <2>3. to \in Says /\ p \in Node /\ 2 \in 0..255
    BY <2>1 DEF RelayInv, TypeOK, Says, Node
  <2>4. Datagram(x, p, to, id, 2, Empty, p)
    BY <1>3, <2>1 DEF Datagram, BuildRootRequestPacket
  <2>5. x.from = p /\ x \in Message /\ Built(x)' /\ Genuine(x)'
    BY <2>2, <2>3, <2>4, EmptyBody, PlainMessage
  <2>6. x.to = target[p]
    BY <1>3 DEF Sent
  <2> QED BY <2>5, <2>6
<1>5. /\ NetIsGenuine' /\ UsersAreKnown' /\ net' \in SUBSET Message
      /\ opened' \in [Peer -> SUBSET Says] /\ pc' \in [Peer -> Location]
  <2>1. UNCHANGED <<clicks, target, nameSize, peerMap>>
    BY DEF tableVars
  <2>2. CASE d.type = 129
    <3>1. pc' = [pc EXCEPT ![p] = "relay"] /\ UNCHANGED <<net, opened>>
      BY <2>2 DEF Goto
    <3> QED BY <2>1, <3>1, UserGoesOn
  <2>3. CASE d.type # 129
    <3>1. pc' = [pc EXCEPT ![p] = "root"] /\ net' = net \cup {x}
      BY <1>3, <2>3 DEF Goto, Send
    <3>2. opened' = [opened EXCEPT ![p] = @ \cup {x.to}]
      <4>1. opened' = [opened EXCEPT ![p] = @ \cup {y.to : y \in {x}}]
        BY <1>3, <2>3 DEF Send
      <4>2. {y.to : y \in {x}} = {x.to}
        OBVIOUS
      <4> QED BY <4>1, <4>2
    <3> QED BY <1>2, <1>4, <2>1, <3>1, <3>2, UserGoesOn
  <2> QED BY <2>2, <2>3
<1>6. TypeOK'
  BY <1>5 DEF RelayInv, TypeOK, tableVars, serverVars
<1>7. AcceptedNamesFit' /\ CrashMeansWrap'
  BY DEF RelayInv, AcceptedNamesFit, CrashMeansWrap, Wraps, tableVars
<1> QED BY <1>5, <1>6, <1>7 DEF RelayInv

LEMMA RootRepliedStep ==
  ASSUME RelayInv, NEW m \in net, Passes(m), Read(m) # Malformed, NEW p \in Peer, m.to = p,
         NEW d, d = Read(m), RootReplied(p, d)
  PROVE  RelayInv'
<1> USE DEF RootReplied, Awaited
<1>1. Genuine(m) /\ d.type = m.packet.type /\ d.body = m.packet.body /\ d.body \in Body
  BY Heard
<1>2. p \in peerMap[target[p]] /\ target[p] \in Peer
  BY DEF RelayInv, UsersAreKnown
<1>3. PICK body : body = [size |-> 32, says |-> d.body.says]
  OBVIOUS
<1>4. PICK x : x = Sent(p, target[p], BuildDatumRequestPacket(Id(p, "datum"), d.body.says))
  OBVIOUS
<1>5. d.type = 131 => x.from = p /\ x.to = target[p] /\ x \in Message /\ Built(x)' /\ Genuine(x)'
  <2> SUFFICES ASSUME d.type = 131
               PROVE  x.from = p /\ x.to = target[p] /\ x \in Message /\ Built(x)' /\ Genuine(x)'
    OBVIOUS
  <2>1. PICK id, to : id = Id(p, "datum") /\ to = target[p]
    OBVIOUS
  <2>2. id \in Identifier
    BY <2>1, IdIsIdentifier DEF RelayInv
  <2>3. to \in Says /\ p \in Node /\ 3 \in 0..255
    BY <2>1 DEF RelayInv, TypeOK, Says, Node
  <2>4. body.says # Garbage
    BY <1>1, <1>3 DEF Genuine
  <2>5. body \in Body /\ Fits(body)
    BY <1>1, <1>3 DEF Body, Fits
  <2>6. Datagram(x, p, to, id, 3, body, Nothing)
    BY <1>3, <1>4, <2>1 DEF Datagram, BuildDatumRequestPacket, NoKey
  <2>7. /\ x.from = p /\ x.to = to /\ x \in Message /\ x.packet.id = id /\ x.packet.type = 3
        /\ x.packet.signature \in {Unsigned, p} /\ Whole(x)
    BY <2>2, <2>3, <2>5, <2>6, NewMessage
  <2>8. Carries(x, body)
    BY <2>2, <2>3, <2>5, <2>6, NewBody
  <2>9. Built(x)'
    BY <2>4, <2>7, <2>8 DEF Built, Whole, Carries
  <2>10. id[3] # "hello"
    BY <2>1 DEF Id
  <2>11. Genuine(x)'
    BY <1>2, <2>1, <2>4, <2>7, <2>8, <2>10 DEF Genuine, Carries, tableVars
  <2> QED BY <2>1, <2>7, <2>9, <2>11
<1>6. /\ NetIsGenuine' /\ UsersAreKnown' /\ net' \in SUBSET Message
      /\ opened' \in [Peer -> SUBSET Says] /\ pc' \in [Peer -> Location]
  <2>1. UNCHANGED <<clicks, target, nameSize, peerMap>>
    BY DEF tableVars
  <2>2. CASE ~(d.type = 131 /\ d.body.size = 32)
    <3>1. pc' = [pc EXCEPT ![p] = "relay"] /\ UNCHANGED <<net, opened>>
      BY <2>2 DEF Goto
    <3> QED BY <2>1, <3>1, UserGoesOn
  <2>3. CASE d.type = 131 /\ d.body.size = 32
    <3>1. pc' = [pc EXCEPT ![p] = "datum"] /\ net' = net \cup {x}
      BY <1>4, <2>3 DEF Goto, Send
    <3>2. opened' = [opened EXCEPT ![p] = @ \cup {x.to}]
      <4>1. opened' = [opened EXCEPT ![p] = @ \cup {y.to : y \in {x}}]
        BY <1>4, <2>3 DEF Send
      <4>2. {y.to : y \in {x}} = {x.to}
        OBVIOUS
      <4> QED BY <4>1, <4>2
    <3> QED BY <1>2, <1>5, <2>1, <2>3, <3>1, <3>2, UserGoesOn
  <2> QED BY <2>2, <2>3
<1>7. TypeOK'
  BY <1>6 DEF RelayInv, TypeOK, tableVars, serverVars
<1>8. AcceptedNamesFit' /\ CrashMeansWrap'
  BY DEF RelayInv, AcceptedNamesFit, CrashMeansWrap, Wraps, tableVars
<1> QED BY <1>6, <1>7, <1>8 DEF RelayInv

LEMMA DatumRepliedStep ==
  ASSUME RelayInv, NEW m \in net, Passes(m), Read(m) # Malformed, NEW p \in Peer, m.to = p,
         NEW d, d = Read(m), DatumReplied(p, d)
  PROVE  RelayInv'
<1> USE DEF DatumReplied, Awaited
<1>1. Genuine(m) /\ d.type = m.packet.type /\ d.body = m.packet.body /\ d.body \in Body
  BY Heard
<1>2. ~(d.type = 132 /\ d.body.size < 32)
  <2>1. d.type = 132 => d.body.size >= 32
    BY <1>1 DEF Genuine
  <2>2. d.body.size \in Nat
    BY <1>1 DEF Body
  <2> QED BY <2>1, <2>2
<1>3. /\ pc' = [pc EXCEPT ![p] = "relay"] /\ crashed' = crashed
      /\ downloaded' = IF d.type # 132 THEN downloaded
                       ELSE [downloaded EXCEPT ![p] = @ \cup {d.body.says}]
  BY <1>2 DEF Goto
<1>4. /\ NetIsGenuine' /\ UsersAreKnown' /\ net' \in SUBSET Message
      /\ opened' \in [Peer -> SUBSET Says] /\ pc' \in [Peer -> Location]
  BY <1>3, UserGoesOn
<1>5. downloaded' \in [Peer -> SUBSET Says]
  BY <1>1, <1>3 DEF RelayInv, TypeOK, Body
<1>6. TypeOK'
  BY <1>3, <1>4, <1>5 DEF RelayInv, TypeOK, serverVars
<1>7. AcceptedNamesFit' /\ CrashMeansWrap'
  BY <1>3 DEF RelayInv, AcceptedNamesFit, CrashMeansWrap, Wraps
<1> QED BY <1>4, <1>6, <1>7 DEF RelayInv
-----------------------------------------------------------------------------
(* The server. *)
LEMMA ServerHelloStep ==
  ASSUME RelayInv, NEW m \in net, Passes(m), Read(m) # Malformed, m.to = Server,
         NEW d, d = Read(m), ServerHello(m, d)
  PROVE  RelayInv'
<1> USE DEF ServerHello
<1>1. /\ m.from \in Says /\ m.from \in Node /\ Genuine(m)
      /\ d.id = m.packet.id /\ d.type = m.packet.type /\ d.id \in Identifier
  BY Heard
<1>2. Server \in Node /\ 1 \in 0..255 /\ 130 \in 0..255 /\ Server # Garbage /\ Server \notin Peer
  BY Distinct DEF Node
<1>3. Names(Server, 4)'
  BY <1>2 DEF Names
<1>4. PICK reply : reply = Sent(Server, m.from, BuildHelloReplyPacket(d.id, Server, 4, Server))
  OBVIOUS
<1>5. /\ reply \in Message /\ reply.from = Server /\ reply.packet.id = d.id
      /\ reply.packet.type = 130 /\ SaysHello(reply, Server, 4) /\ Built(reply)'
  <2>1. Datagram(reply, Server, m.from, d.id, 130, HelloBody(Server, 4), Server)
    BY <1>4 DEF Datagram, BuildHelloReplyPacket
  <2>2. m.from \in Says /\ d.id \in Identifier
    BY <1>1
  <2> QED BY <1>2, <1>3, <2>1, <2>2, HelloMessage
<1>6. \A p \in Peer : d.id[1] = p => HelloOf(d.id, p, Server)
  <2>1. m.from \in Peer => HelloOf(d.id, m.from, Server)
    BY <1>1 DEF Genuine
  <2>2. m.from \in Peer => d.id[1] = m.from
    BY <2>1 DEF HelloOf
  <2>3. m.from = Server => d.id[1] = Server
    BY <1>1 DEF Genuine
  <2> QED BY <1>1, <1>2, <2>1, <2>2, <2>3 DEF Node
<1>7. Genuine(reply)'
  BY <1>2, <1>5, <1>6 DEF Genuine, SaysHello, HelloBody, HelloOf, userVars
<1>8. PICK id : id = <<Server, 0, "hello">>
  OBVIOUS
<1>9. PICK hello : hello = Sent(Server, m.from, BuildHelloPacket(id, Server, 4, Server))
  OBVIOUS
<1>10. /\ hello \in Message /\ hello.from = Server /\ hello.packet.id = id
       /\ hello.packet.type = 1 /\ SaysHello(hello, Server, 4) /\ Built(hello)'
  <2>1. Datagram(hello, Server, m.from, id, 1, HelloBody(Server, 4), Server)
    BY <1>9 DEF Datagram, BuildHelloPacket
  <2>2. m.from \in Says /\ id \in Identifier
    BY <1>1, <1>2, <1>8 DEF Identifier
  <2> QED BY <1>2, <1>3, <2>1, <2>2, HelloMessage
<1>11. Genuine(hello)'
  <2>1. hello.packet.body = [size |-> 8, says |-> Server]
    BY <1>10 DEF SaysHello, HelloBody
  <2> QED BY <1>2, <1>8, <1>10, <2>1 DEF Genuine
<1>12. net' = net \cup {reply, hello} /\ opened' = opened
  BY <1>4, <1>8, <1>9 DEF ServerSays
<1>13. NetIsGenuine' /\ UsersAreKnown' /\ net' \in SUBSET Message
  <2>1. PICK S : S = {reply, hello}
    OBVIOUS
  <2>2. \A x \in S : x.from = Server /\ x \in Message /\ Built(x)' /\ Genuine(x)'
    BY <1>5, <1>7, <1>10, <1>11, <2>1
  <2>3. peerMap' = peerMap
    BY DEF tableVars
  <2> QED BY <1>2, <1>12, <2>1, <2>2, <2>3, HandlerKeepsUsers
<1>14. TypeOK'
  BY <1>12, <1>13 DEF RelayInv, TypeOK, userVars, tableVars, serverVars
<1>15. AcceptedNamesFit' /\ CrashMeansWrap'
  BY DEF RelayInv, AcceptedNamesFit, CrashMeansWrap, Wraps, userVars, tableVars
<1> QED BY <1>13, <1>14, <1>15 DEF RelayInv

LEMMA ServerPublishStep ==
  ASSUME RelayInv, NEW m \in net, NEW d, ServerPublish(m, d)
  PROVE  RelayInv'
<1> USE DEF ServerPublish
<1>1. TypeOK'
  BY DEF RelayInv, TypeOK, userVars, tableVars
<1>2. UNCHANGED <<pc, clicks, target, nameSize, peerMap, opened, crashed, net>>
  BY DEF userVars, tableVars
<1>3. NetIsGenuine'
  BY <1>2 DEF RelayInv, NetIsGenuine, Built, Genuine, HelloOf, Wraps, Whole
<1>4. UsersAreKnown' /\ AcceptedNamesFit' /\ CrashMeansWrap'
  BY <1>2 DEF RelayInv, UsersAreKnown, AcceptedNamesFit, CrashMeansWrap, Wraps
<1> QED BY <1>1, <1>3, <1>4 DEF RelayInv

LEMMA ServerRelayStep ==
  ASSUME RelayInv, NEW m \in net, Passes(m), Read(m) # Malformed, m.to = Server,
         NEW d, d = Read(m), ServerRelay(m, d)
  PROVE  RelayInv'
<1> USE DEF ServerRelay
<1>1. /\ m.from \in Says /\ m.from \in Node /\ Genuine(m)
      /\ d.id = m.packet.id /\ d.type = m.packet.type /\ d.id \in Identifier /\ d.body \in Body
  BY Heard
<1>2. Server \in Node /\ 5 \in 0..255 /\ 128 \in 0..255 /\ Server \notin Peer
  BY Distinct DEF Node
<1>3. PICK pong : pong = Sent(Server, m.from, BuildPongReplyPacket(d.id))
  OBVIOUS
<1>4. pong.from = Server /\ pong \in Message /\ Built(pong)' /\ Genuine(pong)'
  <2>1. Datagram(pong, Server, m.from, d.id, 128, Empty, Nothing)
    BY <1>3 DEF Datagram, BuildPongReplyPacket, NoKey
  <2>2. Plain(128, d.id)
    BY <1>1 DEF Genuine, Plain
  <2>3. m.from \in Says /\ d.id \in Identifier
    BY <1>1
  <2> QED BY <1>2, <2>1, <2>2, <2>3, EmptyBody, PlainMessage
<1>5. PICK id : id = <<Server, 0, "relay">>
  OBVIOUS
<1>6. PICK body : body = [size |-> IpSize + 2, says |-> m.from]
  OBVIOUS
<1>7. PICK relay : relay = Sent(Server, d.body.says, SerialisationDatagram(id, 5, body, Server))
  OBVIOUS
<1>8. relay.from = Server /\ relay \in Message /\ Built(relay)' /\ Genuine(relay)'
  <2>1. Datagram(relay, Server, d.body.says, id, 5, body, Server)
    BY <1>7 DEF Datagram
  <2>2. id \in Identifier
    BY <1>2, <1>5 DEF Identifier
  <2>3. id[3] = "relay"
    BY <1>5
  <2>4. Plain(5, id)
    BY <2>3 DEF Plain
  <2>5. d.body.says \in Says
    BY <1>1 DEF Body
  <2>6. body \in Body /\ body.says # Garbage /\ Fits(body)
    BY <1>1, <1>6, Distinct DEF Body, Fits
  <2> QED BY <1>2, <2>1, <2>2, <2>4, <2>5, <2>6, PlainMessage
<1>9. net' = net \cup {pong, relay} /\ opened' = opened
  BY <1>3, <1>5, <1>6, <1>7 DEF ServerSays
<1>10. NetIsGenuine' /\ UsersAreKnown' /\ net' \in SUBSET Message
  <2>1. PICK S : S = {pong, relay}
    OBVIOUS
  <2>2. \A x \in S : x.from = Server /\ x \in Message /\ Built(x)' /\ Genuine(x)'
    BY <1>4, <1>8, <2>1
  <2>3. peerMap' = peerMap
    BY DEF tableVars
  <2> QED BY <1>2, <1>9, <2>1, <2>2, <2>3, HandlerKeepsUsers
<1>11. TypeOK'
  BY <1>9, <1>10 DEF RelayInv, TypeOK, userVars, tableVars, serverVars
<1>12. AcceptedNamesFit' /\ CrashMeansWrap'
  BY DEF RelayInv, AcceptedNamesFit, CrashMeansWrap, Wraps, userVars, tableVars
<1> QED BY <1>10, <1>11, <1>12 DEF RelayInv
-----------------------------------------------------------------------------
(* The user. *)
LEMMA OldNet ==
  ASSUME RelayInv,
         \A p \in Peer : nameSize'[p] = nameSize[p] \/ pc[p] = "out",
         \A p \in Peer : /\ clicks'[p] \in Nat /\ clicks'[p] >= clicks[p]
                         /\ clicks'[p] = clicks[p] => target'[p] = target[p],
         peerMap' = peerMap
  PROVE  \A m \in net : Built(m)' /\ Genuine(m)'
<1> TAKE m \in net
<1>1. TypeOK /\ Built(m) /\ Genuine(m)
  BY DEF RelayInv, NetIsGenuine
<1>2. m.from \in Peer => nameSize'[m.from] = nameSize[m.from]
  BY DEF RelayInv, UsersAreKnown
<1> QED BY <1>1, <1>2, OldStaysGenuine

LEMMA LoginStep ==
  ASSUME RelayInv, NEW p \in Peer, Login(p)
  PROVE  RelayInv'
<1> USE DEF Login
<1>1. PICK n \in NameSizes[p] :
        /\ nameSize' = [nameSize EXCEPT ![p] = n]
        /\ Send(p, {Sent(p, Server, BuildHelloPacket(Id(p, "hello"), p, n, p))})
  OBVIOUS
<1>2. n \in Nat /\ p # Server
  BY Distinct
<1>3. clicks[p] = 0 /\ nameSize[p] = 0
  BY DEF RelayInv, UsersAreKnown
<1>4. PICK id : id = Id(p, "hello")
  OBVIOUS
<1>5. PICK x : x = Sent(p, Server, BuildHelloPacket(id, p, n, p))
  OBVIOUS
<1>6. /\ x \in Message /\ x.from = p /\ x.to = Server /\ x.packet.id = id
      /\ x.packet.type = 1 /\ SaysHello(x, p, n) /\ Built(x)'
  <2>1. Datagram(x, p, Server, id, 1, HelloBody(p, n), p)
    BY <1>5 DEF Datagram, BuildHelloPacket
  <2>2. id \in Identifier
    BY <1>4, IdIsIdentifier DEF RelayInv
  <2>3. p \in Node /\ Server \in Node /\ Server \in Says /\ 1 \in 0..255
    BY DEF Node, Says
  <2>4. Names(p, n)'
    BY <1>1, <1>2 DEF Names, RelayInv, TypeOK
  <2> QED BY <2>1, <2>2, <2>3, <2>4, HelloMessage
<1>7. Genuine(x)'
  <2>1. id = <<p, id[2], "hello">> /\ id[2] = 0
    BY <1>3, <1>4 DEF Id
  <2>2. HelloOf(id, p, Server)'
    BY <1>3, <2>1 DEF HelloOf
  <2>3. nameSize'[p] = n
    BY <1>1 DEF RelayInv, TypeOK
  <2> QED BY <1>2, <1>6, <2>2, <2>3 DEF Genuine, SaysHello, HelloBody
<1>8. net' = net \cup {x} /\ opened' = [opened EXCEPT ![p] = @ \cup {y.to : y \in {x}}]
  BY <1>1, <1>4, <1>5 DEF Send
<1>9. NetIsGenuine'
  <2>1. \A r \in Peer : nameSize'[r] = nameSize[r] \/ pc[r] = "out"
    BY <1>1 DEF RelayInv, TypeOK
  <2>2. \A r \in Peer : /\ clicks'[r] \in Nat /\ clicks'[r] >= clicks[r]
                        /\ clicks'[r] = clicks[r] => target'[r] = target[r]
    BY DEF RelayInv, TypeOK
  <2>3. peerMap' = peerMap
    BY DEF tableVars
  <2>4. \A m \in net : Built(m)' /\ Genuine(m)'
    BY <2>1, <2>2, <2>3, OldNet
  <2> QED BY <1>6, <1>7, <1>8, <2>4 DEF NetIsGenuine
<1>10. TypeOK'
  <2>1. net' \in SUBSET Message /\ nameSize' \in [Peer -> Nat] /\ pc' \in [Peer -> Location]
    BY <1>1, <1>2, <1>6, <1>8 DEF RelayInv, TypeOK, Goto, Location
  <2>2. opened' \in [Peer -> SUBSET Says]
    BY <1>6, <1>8 DEF RelayInv, TypeOK, Message
  <2>3. registered' \subseteq Peer /\ published' \subseteq registered'
    BY DEF RelayInv, TypeOK
  <2> QED BY <2>1, <2>2, <2>3 DEF RelayInv, TypeOK, tableVars
<1>11. pc'[p] = "home" /\ \A r \in Peer : r # p =>
          pc'[r] = pc[r] /\ opened'[r] = opened[r] /\ nameSize'[r] = nameSize[r]
  BY <1>1, <1>8 DEF RelayInv, TypeOK, Goto
<1>12. UsersAreKnown'
  BY <1>6, <1>8, <1>11 DEF RelayInv, UsersAreKnown, tableVars
<1>13. AcceptedNamesFit'
  <2>1. \A q \in Peer : p \notin peerMap[q]
    BY DEF RelayInv, UsersAreKnown
  <2> QED BY <1>11, <2>1 DEF RelayInv, AcceptedNamesFit, tableVars
<1>14. CrashMeansWrap'
  <2>1. ~Wraps(p)
    <3>1. IpSize = 4 \/ IpSize = 16
      BY Distinct
    <3> QED BY <1>3, <3>1 DEF Wraps, Header, SignatureSize
  <2> QED BY <1>11, <2>1 DEF RelayInv, CrashMeansWrap, Wraps
<1> QED BY <1>9, <1>10, <1>12, <1>13, <1>14 DEF RelayInv

LEMMA ClickStep ==
  ASSUME RelayInv, NEW p \in Peer, NEW q \in Peer, Click(p, q)
  PROVE  RelayInv'
<1> USE DEF Click
<1>1. clicks[p] \in Nat /\ clicks'[p] = clicks[p] + 1 /\ target'[p] = q
  BY DEF RelayInv, TypeOK
<1>2. PICK id, n : id = Id(p, "hello")' /\ n = nameSize[p]
  OBVIOUS
<1>3. PICK x : x = Sent(p, q, BuildHelloPacket(id, p, n, p))
  OBVIOUS
<1>4. id = <<p, id[2], "hello">> /\ id[2] = clicks'[p]
  BY <1>2 DEF Id
<1>5. /\ x \in Message /\ x.from = p /\ x.to = q /\ x.packet.id = id
      /\ x.packet.type = 1 /\ SaysHello(x, p, n) /\ Built(x)'
  <2>1. Datagram(x, p, q, id, 1, HelloBody(p, n), p)
    BY <1>3 DEF Datagram, BuildHelloPacket
  <2>2. id \in Identifier
    <3>1. p \in Node /\ clicks'[p] \in Nat
      BY <1>1 DEF Node
    <3> QED BY <1>4, <3>1 DEF Identifier
  <2>3. p \in Node /\ q \in Says /\ 1 \in 0..255
    BY DEF Node, Says
  <2>4. Names(p, n)'
    BY <1>2, Distinct DEF Names, RelayInv, TypeOK
  <2> QED BY <2>1, <2>2, <2>3, <2>4, HelloMessage
<1>6. Genuine(x)'
  <2>1. HelloOf(id, p, q)'
    BY <1>1, <1>4 DEF HelloOf
  <2>2. n = nameSize'[p] /\ p # Server
    BY <1>2, Distinct
  <2> QED BY <1>5, <2>1, <2>2 DEF Genuine, SaysHello, HelloBody
<1>7. net' = net \cup {x} /\ opened' = [opened EXCEPT ![p] = @ \cup {y.to : y \in {x}}]
  BY <1>2, <1>3 DEF Send
<1>8. NetIsGenuine'
  <2>1. \A r \in Peer : /\ clicks'[r] \in Nat /\ clicks'[r] >= clicks[r]
                        /\ clicks'[r] = clicks[r] => target'[r] = target[r]
    BY <1>1 DEF RelayInv, TypeOK
  <2>2. peerMap' = peerMap
    BY DEF tableVars
  <2>3. \A m \in net : Built(m)' /\ Genuine(m)'
    BY <2>1, <2>2, OldNet
  <2> QED BY <1>5, <1>6, <1>7, <2>3 DEF NetIsGenuine
<1>9. TypeOK'
  <2>1. net' \in SUBSET Message /\ clicks' \in [Peer -> Nat] /\ pc' \in [Peer -> Location]
    BY <1>1, <1>5, <1>7 DEF RelayInv, TypeOK, Goto, Location
  <2>2. opened' \in [Peer -> SUBSET Says] /\ target' \in [Peer -> Node]
    BY <1>5, <1>7 DEF RelayInv, TypeOK, Message, Node
  <2> QED BY <2>1, <2>2 DEF RelayInv, TypeOK, tableVars, serverVars
<1>10. pc'[p] = "hello" /\ \A r \in Peer : r # p =>
          /\ pc'[r] = pc[r] /\ opened'[r] = opened[r]
          /\ clicks'[r] = clicks[r] /\ target'[r] = target[r]
  BY <1>7 DEF RelayInv, TypeOK, Goto
<1>11. UsersAreKnown'
  BY <1>1, <1>5, <1>7, <1>10 DEF RelayInv, UsersAreKnown, tableVars
<1>12. AcceptedNamesFit' /\ CrashMeansWrap'
  BY DEF RelayInv, AcceptedNamesFit, CrashMeansWrap, Wraps, tableVars
<1> QED BY <1>8, <1>9, <1>11, <1>12 DEF RelayInv

LEMMA TimeoutStep ==
  ASSUME RelayInv, NEW p \in Peer, Timeout(p)
  PROVE  RelayInv'
<1> USE DEF Timeout
<1>1. pc' = [pc EXCEPT ![p] = "relay"] /\ UNCHANGED <<clicks, target, nameSize, peerMap, net, opened>>
  BY DEF Goto, tableVars
<1>2. /\ NetIsGenuine' /\ UsersAreKnown' /\ net' \in SUBSET Message
      /\ opened' \in [Peer -> SUBSET Says] /\ pc' \in [Peer -> Location]
  BY <1>1, UserGoesOn
<1>3. TypeOK'
  BY <1>2 DEF RelayInv, TypeOK, tableVars, serverVars
<1>4. AcceptedNamesFit' /\ CrashMeansWrap'
  BY <1>1 DEF RelayInv, AcceptedNamesFit, CrashMeansWrap, Wraps
<1> QED BY <1>2, <1>3, <1>4 DEF RelayInv

LEMMA ForwardStep ==
  ASSUME RelayInv, NEW p \in Peer, Forward(p)
  PROVE  RelayInv'
<1> USE DEF Forward
<1>1. nameSize[p] \in Nat /\ target[p] \in Node /\ p \in Node
  BY DEF RelayInv, TypeOK, Node
<1>2. PICK id, to : id = Id(p, "forward") /\ to = target[p]
  OBVIOUS
<1>3. PICK hello : hello = BuildHelloPacket(Id(p, "relayed"), p, nameSize[p], p)
  OBVIOUS
<1>4. hello.size \in Nat /\ hello.size <= Header + 4 + nameSize[p] + SignatureSize
  <2> DEFINE length == uint16(4 + nameSize[p])
  <2>1. length \in Nat /\ length <= 4 + nameSize[p]
    BY <1>1, LengthOfBody
  <2>2. hello.size = Header + length + IF p = NoKey THEN 0 ELSE SignatureSize
    BY <1>3 DEF BuildHelloPacket, SerialisationDatagram, HelloBody
  <2> HIDE DEF length
  <2>3. CASE p = NoKey
    BY <1>1, <2>1, <2>2, <2>3 DEF Header, SignatureSize
  <2>4. CASE p # NoKey
    BY <1>1, <2>1, <2>2, <2>4 DEF Header, SignatureSize
  <2> QED BY <2>3, <2>4
<1>5. PICK body : body = [size |-> IpSize + 2 + hello.size, says |-> to]
  OBVIOUS
<1>6. PICK x : x = Sent(p, Server, RelayRequest(p, hello))
  OBVIOUS
<1>7. body \in Body /\ (~Fits(body) => Wraps(p))
  <2>1. IpSize \in Nat
    BY Distinct
  <2>2. body.size = IpSize + 2 + hello.size /\ body.says \in Says
    BY <1>1, <1>2, <1>5, Distinct
  <2>3. body \in Body
    BY <1>4, <1>5, <2>1, <2>2 DEF Body
  <2>4. ~Fits(body) => Wraps(p)
    BY <1>1, <1>4, <2>1, <2>2 DEF Fits, Wraps, Header, SignatureSize
  <2> QED BY <2>3, <2>4
<1>8. x.from = p /\ x.to = Server /\ x \in Message /\ Built(x)' /\ Genuine(x)'
  <2>1. id \in Identifier /\ id[3] = "forward"
    BY <1>2, IdIsIdentifier DEF RelayInv, Id
  <2>2. Server \in Node /\ Server \in Says /\ 4 \in 0..255
    BY DEF Says, Node
  <2>3. CASE p \in Conforming
    <3>1. PICK address : address = [size |-> IpSize + 2, says |-> to]
      OBVIOUS
    <3>2. address \in Body /\ address.says # Garbage /\ Fits(address)
      BY <1>1, <1>2, <3>1, Distinct DEF Body, Fits
    <3>3. Datagram(x, p, Server, id, 4, address, p)
      BY <1>2, <1>6, <2>3, <3>1 DEF Datagram, RelayRequest
    <3>4. x.to = Server
      BY <1>6 DEF Sent
    <3>5. Plain(4, id)
      BY <2>1 DEF Plain
    <3> QED BY <1>1, <2>1, <2>2, <3>2, <3>3, <3>4, <3>5, PlainMessage
  <2>4. CASE p \notin Conforming
    <3>1. Datagram(x, p, Server, id, 4, body, Nothing)
      BY <1>2, <1>5, <1>6, <2>4 DEF Datagram, BuildForwardPacket, RelayRequest, NoKey
    <3>2. /\ x.from = p /\ x.to = Server /\ x \in Message /\ x.packet.id = id /\ x.packet.type = 4
          /\ x.packet.signature \in {Unsigned, p} /\ Whole(x)
      BY <1>1, <1>7, <2>1, <2>2, <3>1, NewMessage
    <3>3. (Fits(body) => Carries(x, body)) /\ (~Fits(body) => Lost(x))
      BY <1>1, <1>7, <2>1, <2>2, <3>1, NewBody
    <3>4. x.packet.body.says = Garbage => Wraps(p)
      BY <1>1, <1>2, <1>5, <1>7, <3>3, Distinct DEF Carries
    <3>5. Built(x)'
      BY <3>2, <3>4 DEF Built, Whole, Wraps
    <3>6. Genuine(x)'
      BY <2>1, <3>2 DEF Genuine
    <3> QED BY <3>2, <3>5, <3>6
  <2> QED BY <2>3, <2>4
<1>9. net' = net \cup {x} /\ opened' = [opened EXCEPT ![p] = @ \cup {y.to : y \in {x}}]
  BY <1>2, <1>3, <1>6 DEF Send
<1>10. NetIsGenuine'
  <2>1. \A r \in Peer : clicks'[r] \in Nat /\ clicks'[r] >= clicks[r]
    BY DEF RelayInv, TypeOK
  <2>2. peerMap' = peerMap
    BY DEF tableVars
  <2>3. \A m \in net : Built(m)' /\ Genuine(m)'
    BY <2>1, <2>2, OldNet
  <2> QED BY <1>8, <1>9, <2>3 DEF NetIsGenuine
<1>11. TypeOK'
  <2>1. net' \in SUBSET Message /\ pc' \in [Peer -> Location]
    BY <1>8, <1>9 DEF RelayInv, TypeOK, Goto, Location
  <2>2. opened' \in [Peer -> SUBSET Says]
    BY <1>8, <1>9 DEF RelayInv, TypeOK, Message
  <2>3. forwarded' \in [Peer -> SUBSET Peer]
    <3>1. target[p] \in Peer
      BY DEF RelayInv, UsersAreKnown
    <3> QED BY <3>1 DEF RelayInv, TypeOK
  <2> QED BY <2>1, <2>2, <2>3 DEF RelayInv, TypeOK, tableVars, serverVars
<1>12. pc'[p] = "home" /\ \A r \in Peer : r # p => pc'[r] = pc[r] /\ opened'[r] = opened[r]
  BY <1>9 DEF RelayInv, TypeOK, Goto
<1>13. UsersAreKnown'
  BY <1>8, <1>9, <1>12 DEF RelayInv, UsersAreKnown, tableVars
<1>14. AcceptedNamesFit' /\ CrashMeansWrap'
  BY DEF RelayInv, AcceptedNamesFit, CrashMeansWrap, Wraps, tableVars
<1> QED BY <1>10, <1>11, <1>13, <1>14 DEF RelayInv
-----------------------------------------------------------------------------
LEMMA RelayStep ==
  ASSUME RelayInv, [Next]_vars
  PROVE  RelayInv'
<1>1. ASSUME NEW p \in Peer, Use(p) PROVE RelayInv'
  BY <1>1, LoginStep, ClickStep, TimeoutStep, ForwardStep DEF Use
<1>2. ASSUME NEW m \in net, Process(m) PROVE RelayInv'
  <2>1. Passes(m) /\ Read(m) # Malformed
    BY <1>2 DEF Process
  <2>2. PICK d : d = Read(m)
    OBVIOUS
  <2>3. CASE m.to = Server
    <3>1. ServerHandles(m, d)
      BY <1>2, <2>2, <2>3 DEF Process
    <3>2. CASE ServerHello(m, d)
      BY <2>1, <2>2, <2>3, <3>2, ServerHelloStep
    <3>3. CASE ServerPublish(m, d)
      BY <3>3, ServerPublishStep
    <3>4. CASE ServerRelay(m, d)
      BY <2>1, <2>2, <2>3, <3>4, ServerRelayStep
    <3> QED BY <3>1, <3>2, <3>3, <3>4 DEF ServerHandles
  <2>4. CASE m.to # Server
    <3>1. m.to \in Peer /\ PeerHandles(m.to, m, d)
      BY <1>2, <2>1, <2>2, <2>4 DEF Process, Passes
    <3>2. PICK q \in Peer : q = m.to
      BY <3>1
    <3>3. CASE HelloTooShort(q, d)
      BY <2>1, <2>2, <3>2, <3>3, HelloTooShortStep
    <3>4. CASE AnswerHello(q, m, d)
      BY <2>1, <2>2, <3>2, <3>4, AnswerHelloStep
    <3>5. CASE AnswerPing(q, m, d)
      BY <2>1, <2>2, <3>2, <3>5, AnswerPingStep
    <3>6. CASE AnswerRoot(q, m, d)
      BY <2>1, <2>2, <3>2, <3>6, AnswerRootStep
    <3>7. CASE AnswerDatum(q, m, d)
      BY <2>1, <2>2, <3>2, <3>7, AnswerDatumStep
    <3>8. CASE Punch(q, m, d)
      BY <2>1, <2>2, <3>2, <3>8, PunchStep
    <3>9. CASE HelloReplied(q, d)
      BY <2>1, <2>2, <3>2, <3>9, HelloRepliedStep
    <3>10. CASE RootReplied(q, d)
      BY <2>1, <2>2, <3>2, <3>10, RootRepliedStep
    <3>11. CASE DatumReplied(q, d)
      BY <2>1, <2>2, <3>2, <3>11, DatumRepliedStep
    <3> QED BY <3>1, <3>2, <3>3, <3>4, <3>5, <3>6, <3>7, <3>8, <3>9, <3>10, <3>11 DEF PeerHandles
  <2> QED BY <2>3, <2>4
<1>3. CASE UNCHANGED vars
  BY <1>3 DEF vars, RelayInv, TypeOK, NetIsGenuine, Built, Genuine, HelloOf, Wraps, Whole,
              UsersAreKnown, AcceptedNamesFit, CrashMeansWrap
<1> QED BY <1>1, <1>2, <1>3 DEF Next

(* What is read is what was built: a body lost its bytes where Length      *)
(* wrapped, or not at all.                                                 *)
LEMMA InvUnderstood ==
  ASSUME RelayInv
  PROVE  RequestsAreUnderstood
<1> SUFFICES ASSUME NEW m \in net
             PROVE  /\ Read(m) # Malformed /\ Read(m).body.says = Garbage => Wraps(m.from)
                    /\ m.packet.type = 3 => m.from \in peerMap[m.to]
  BY DEF RelayInv, RequestsAreUnderstood
<1>1. m \in Message /\ Built(m) /\ Genuine(m)
  BY DEF RelayInv, TypeOK, NetIsGenuine
<1>2. Read(m) # Malformed /\ Read(m).body.says = Garbage => Wraps(m.from)
  BY <1>1, ReadIsSent DEF Built
<1>3. m.packet.type = 3 => m.from \in peerMap[m.to]
  BY <1>1 DEF Genuine
<1> QED BY <1>2, <1>3

(* RequestsAreUnderstood holds in every state that Relay reaches: with any *)
(* peers, names and clicks, addresses of either size, a relay that is      *)
(* strict or not, and datagrams that come late, twice or never.            *)
THEOREM Understood == Spec => []RequestsAreUnderstood
<1>1. Init => RelayInv
  BY InitRelayInv
<1>2. RelayInv /\ [Next]_vars => RelayInv'
  BY RelayStep
<1>3. RelayInv => RequestsAreUnderstood
  BY InvUnderstood
<1> QED BY <1>1, <1>2, <1>3, PTL DEF Spec
=============================================================================
