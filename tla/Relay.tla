------------------------------- MODULE Relay --------------------------------
(***************************************************************************)
(* Peers behind their NATs, all running the program, with the server that  *)
(* publishes their addresses and relays requests between them: a login     *)
(* (interface.go), a click (Hello, root, first datum, then the request to  *)
(* the relay) and HandleRequest and HandleResponse for every datagram that *)
(* comes.  A NAT lets a datagram in when it comes from an address its peer *)
(* has sent to.                                                            *)
(*                                                                         *)
(* The server is external and does what project.pdf says (4.1.6, 4.3): it  *)
(* relays for a signed request that holds an address alone.  The request   *)
(* of this program is neither, so that it is never relayed; the peers in   *)
(* Conforming run a program that differs from it in this request alone, as *)
(* the programs it has to understand may, and the answer of this program   *)
(* to what is relayed for them can be checked.                             *)
(***************************************************************************)
EXTENDS Datagrams, FiniteSets

CONSTANTS
    Peer, Server,
    Exports,        \* peers that hold a tree
    Clicks,         \* Peer -> bound: how often its user clicks
    NameSizes,      \* Peer -> the sizes of the names it may log in with
    IpSize,         \* of the addresses the server lists: 4 or 16 bytes
    Conforming      \* peers whose request to the relay is as project.pdf says

Node == Peer \cup {Server}
Says == Node \cup {Nothing, Garbage}
DatumSize == 289

Identifier == Node \X Nat \X {"hello", "root", "datum", "forward", "relayed", "ping", "relay"}
Body == [size : Nat, says : Says]
Packet == [id : Identifier, type : 0..255, body : Body, signature : Node \cup {Unsigned}, size : Nat]
Message == [from : Node, to : Says, packet : Packet]

ASSUME RelayAssumption ==
    /\ Server \notin Peer /\ Nothing \notin Node /\ Garbage \notin Node \cup {Nothing}
    /\ Exports \subseteq Peer /\ Clicks \in [Peer -> Nat]
    /\ NameSizes \in [Peer -> SUBSET (Nat \ {0})]
    /\ IpSize \in {4, 16} /\ Conforming \subseteq Peer

VARIABLES
    pc,             \* Peer -> where its user's goroutine is
    clicks,         \* Peer -> how many clicks
    target,         \* Peer -> whom it clicked on
    nameSize,       \* Peer -> bytes of nickName; 0 before the login
    opened,         \* Peer -> whom its NAT lets in
    peerMap,        \* Peer -> names with an association
    contacts,       \* Peer -> who reached it with a Ping
    downloaded,     \* Peer -> whose root it has read
    forwarded,      \* Peer -> for whom it has asked the relay (history)
    crashed,        \* peers whose process has ended
    registered,     \* the server's: peers with a key
    published,      \* and peers with an address
    net             \* datagrams sent: any may come late, often or never

vars == <<pc, clicks, target, nameSize, opened, peerMap, contacts, downloaded, forwarded,
          crashed, registered, published, net>>
userVars == <<pc, clicks, target, nameSize, forwarded>>
tableVars == <<peerMap, contacts, downloaded>>
serverVars == <<registered, published>>

Location == {"out", "home", "hello", "root", "datum", "relay"}

TypeOK ==
    /\ pc \in [Peer -> Location]
    /\ clicks \in [Peer -> Nat] /\ nameSize \in [Peer -> Nat]
    /\ target \in [Peer -> Node] /\ opened \in [Peer -> SUBSET Says]
    /\ peerMap \in [Peer -> SUBSET Node] /\ contacts \in [Peer -> SUBSET Node]
    /\ downloaded \in [Peer -> SUBSET Says] /\ forwarded \in [Peer -> SUBSET Peer]
    /\ crashed \subseteq Peer /\ registered \subseteq Peer /\ published \subseteq registered
    /\ net \subseteq Message

Init ==
    /\ pc = [p \in Peer |-> "out"]
    /\ clicks = [p \in Peer |-> 0] /\ nameSize = [p \in Peer |-> 0]
    /\ target = [p \in Peer |-> Server]
    /\ opened = [p \in Peer |-> {}] /\ peerMap = [p \in Peer |-> {}]
    /\ contacts = [p \in Peer |-> {}] /\ downloaded = [p \in Peer |-> {}]
    /\ forwarded = [p \in Peer |-> {}]
    /\ crashed = {} /\ registered = {} /\ published = {} /\ net = {}

Goto(p, l) == pc' = [pc EXCEPT ![p] = l]
Sent(p, to, packet) == [from |-> p, to |-> to, packet |-> packet]
Id(p, of) == <<p, clicks[p], of>>

(* SendRequestToThePeer: the way back through the NAT is open from now on. *)
Send(p, S) ==
    /\ net' = net \cup S
    /\ opened' = [opened EXCEPT ![p] = @ \cup {m.to : m \in S}]

(* The buffer of the server is larger than any datagram. *)
Read(m) == DeserialisationUDP(IF m.to = Server THEN m.packet ELSE Received(m.packet))
Passes(m) == m.to = Server \/ (m.to \in Peer \ crashed /\ m.from \in opened[m.to])
-----------------------------------------------------------------------------
(* setupP2P: the name, RegisterKey (which may fail) and a Hello to the     *)
(* server.                                                                 *)
Login(p) ==
    /\ pc[p] = "out" /\ p \notin crashed
    /\ \E n \in NameSizes[p] :
           /\ nameSize' = [nameSize EXCEPT ![p] = n]
           /\ Send(p, {Sent(p, Server, BuildHelloPacket(Id(p, "hello"), p, n, p))})
    /\ registered' \in {registered, registered \cup {p}}
    /\ Goto(p, "home")
    /\ UNCHANGED <<clicks, target, forwarded, tableVars, crashed, published>>

(* The button: an address of the server's list, and the first exchange. *)
Click(p, q) ==
    /\ pc[p] = "home" /\ p \notin crashed
    /\ clicks[p] < Clicks[p] /\ q \in published \ {p}
    /\ clicks' = [clicks EXCEPT ![p] = @ + 1]
    /\ target' = [target EXCEPT ![p] = q]
    /\ Send(p, {Sent(p, q, BuildHelloPacket(Id(p, "hello")', p, nameSize[p], p))})
    /\ Goto(p, "hello")
    /\ UNCHANGED <<nameSize, forwarded, tableVars, crashed, serverVars>>

(* 3 s, 5 s or three turns of 3 s without an answer. *)
Timeout(p) ==
    /\ pc[p] \in {"hello", "root", "datum"} /\ p \notin crashed
    /\ Goto(p, "relay")
    /\ UNCHANGED <<clicks, target, nameSize, forwarded, tableVars, opened, net, crashed, serverVars>>

(* The request for the relay: with a Hello after the address and no        *)
(* signature in this program.                                              *)
RelayRequest(p, hello) ==
    IF p \in Conforming
    THEN SerialisationDatagram(Id(p, "forward"), 4, [size |-> IpSize + 2, says |-> target[p]], p)
    ELSE BuildForwardPacket(Id(p, "forward"), target[p], IpSize, hello)

(* Whatever became of the exchanges, the relay is asked to make the target *)
(* contact this peer.                                                      *)
Forward(p) ==
    LET hello == BuildHelloPacket(Id(p, "relayed"), p, nameSize[p], p)
    IN  /\ pc[p] = "relay" /\ p \notin crashed
        /\ Send(p, {Sent(p, Server, RelayRequest(p, hello))})
        /\ forwarded' = [forwarded EXCEPT ![p] = @ \cup {target[p]}]
        /\ Goto(p, "home")
        /\ UNCHANGED <<clicks, target, nameSize, tableVars, crashed, serverVars>>
-----------------------------------------------------------------------------
(* HandleRequest of peer q for the datagram d of m.                        *)

(* case 1: body[4:] is taken first; then the key, the signature, the table *)
(* and the reply (their interleavings are module PeerTable's).             *)
HelloTooShort(q, d) ==
    /\ d.type = 1 /\ d.body.size < 4
    /\ crashed' = crashed \cup {q}
    /\ UNCHANGED <<userVars, tableVars, opened, serverVars, net>>

AnswerHello(q, m, d) ==
    /\ d.type = 1 /\ d.body.size >= 4
    /\ d.body.says \in registered \cup peerMap[q] \cup {Server}
    /\ VerifySignature(d.body.says, d.signature)
    /\ peerMap' = [peerMap EXCEPT ![q] = @ \cup {d.body.says}]
    /\ Send(q, {Sent(q, m.from, BuildHelloReplyPacket(d.id, q, nameSize[q], q))})
    /\ UNCHANGED <<userVars, contacts, downloaded, crashed, serverVars>>

(* case 0 *)
AnswerPing(q, m, d) ==
    /\ d.type = 0
    /\ contacts' = [contacts EXCEPT ![q] = @ \cup {m.from}]
    /\ Send(q, {Sent(q, m.from, BuildPongReplyPacket(d.id))})
    /\ UNCHANGED <<userVars, peerMap, downloaded, crashed, serverVars>>

(* case 2: a peer without a tree answers with 32 zeros. *)
AnswerRoot(q, m, d) ==
    /\ d.type = 2
    /\ Send(q, {Sent(q, m.from,
            BuildRootReplyPacket(d.id, IF q \in Exports THEN q ELSE Nothing, q))})
    /\ UNCHANGED <<userVars, tableVars, crashed, serverVars>>

(* case 3: to anybody, once the table holds a key of somebody. *)
AnswerDatum(q, m, d) ==
    /\ d.type = 3 /\ peerMap[q] # {}
    /\ Send(q, {Sent(q, m.from,
            IF q \in Exports /\ d.body.says = q
            THEN SerialisationDatagram(d.id, 132, [size |-> 32 + DatumSize, says |-> q], NoKey)
            ELSE BuildNoDatumReplyPacket(d.id, q))})
    /\ UNCHANGED <<userVars, tableVars, crashed, serverVars>>

(* case 5: a Ping to the address in the body, read as one of 4 bytes, and  *)
(* a Pong to the relay.                                                    *)
AddressIn(body) == IF IpSize = 4 THEN body.says ELSE Nothing
(* Variant: the Ping goes to whoever sent the request. *)
PunchedBack(m, body) == m.from
Punched(m, body) == AddressIn(body)
Punch(q, m, d) ==
    /\ d.type = 5
    /\ Send(q, {Sent(q, m.from, BuildPongReplyPacket(d.id))} \cup
               IF d.body.size < 6 THEN {}
               ELSE {Sent(q, Punched(m, d.body), BuildPingPacket(<<q, 0, "ping">>))})
    /\ UNCHANGED <<userVars, tableVars, crashed, serverVars>>
-----------------------------------------------------------------------------
(* HandleResponse: the routine of peer p that waits for d.                 *)
Awaited(p, d) == d.type >= 128 /\ pc[p] \in {"hello", "root", "datum"} /\ d.id = Id(p, pc[p])

(* Any type but 129 is a HelloReply. *)
HelloReplied(p, d) ==
    /\ Awaited(p, d) /\ pc[p] = "hello"
    /\ IF d.type = 129 THEN Goto(p, "relay") /\ UNCHANGED <<opened, net>>
       ELSE /\ Goto(p, "root")
            /\ Send(p, {Sent(p, target[p], BuildRootRequestPacket(Id(p, "root"), p))})
    /\ UNCHANGED <<clicks, target, nameSize, forwarded, tableVars, crashed, serverVars>>

RootReplied(p, d) ==
    /\ Awaited(p, d) /\ pc[p] = "root"
    /\ IF d.type = 131 /\ d.body.size = 32
       THEN /\ Goto(p, "datum")
            /\ Send(p, {Sent(p, target[p], BuildDatumRequestPacket(Id(p, "datum"), d.body.says))})
       ELSE Goto(p, "relay") /\ UNCHANGED <<opened, net>>
    /\ UNCHANGED <<clicks, target, nameSize, forwarded, tableVars, crashed, serverVars>>

(* The first datum of the tree; body[32:] is taken of a Datum.  The rest   *)
(* of the download is module Download's.                                   *)
DatumReplied(p, d) ==
    /\ Awaited(p, d) /\ pc[p] = "datum"
    /\ IF d.type = 132 /\ d.body.size < 32
       THEN crashed' = crashed \cup {p} /\ UNCHANGED <<pc, downloaded>>
       ELSE /\ Goto(p, "relay")
            /\ downloaded' = IF d.type # 132 THEN downloaded
                             ELSE [downloaded EXCEPT ![p] = @ \cup {d.body.says}]
            /\ UNCHANGED crashed
    /\ UNCHANGED <<clicks, target, nameSize, forwarded, peerMap, contacts, opened, net, serverVars>>
-----------------------------------------------------------------------------
(* The server answers a Hello of a registered peer, tries it with a Hello  *)
(* of its own, and publishes its address when the reply is right; a relay  *)
(* request that is signed and holds an address of 6 or 18 bytes makes it   *)
(* send type 5 to the target with the peer's address.                      *)
ServerSays(S) == net' = net \cup S
ServerHello(m, d) ==
    /\ d.type = 1 /\ d.body.says \in registered
    /\ VerifySignature(d.body.says, d.signature)
    /\ ServerSays({Sent(Server, m.from, BuildHelloReplyPacket(d.id, Server, 4, Server)),
                   Sent(Server, m.from, BuildHelloPacket(<<Server, 0, "hello">>, Server, 4, Server))})
    /\ UNCHANGED <<userVars, tableVars, opened, crashed, serverVars>>

ServerPublish(m, d) ==
    /\ d.type = 130 /\ d.id = <<Server, 0, "hello">> /\ d.body.says \in registered
    /\ VerifySignature(d.body.says, d.signature)
    /\ published' = published \cup {d.body.says}
    /\ UNCHANGED <<userVars, tableVars, opened, crashed, registered, net>>

ServerRelay(m, d) ==
    /\ d.type = 4
    /\ VerifySignature(m.from, d.signature) /\ d.body.size \in {6, 18}
    /\ ServerSays({Sent(Server, m.from, BuildPongReplyPacket(d.id)),
                   Sent(Server, d.body.says, SerialisationDatagram(<<Server, 0, "relay">>, 5,
                            [size |-> IpSize + 2, says |-> m.from], Server))})
    /\ UNCHANGED <<userVars, tableVars, opened, crashed, serverVars>>
-----------------------------------------------------------------------------
ServerHandles(m, d) == ServerHello(m, d) \/ ServerPublish(m, d) \/ ServerRelay(m, d)
PeerHandles(p, m, d) ==
    \/ HelloTooShort(p, d) \/ AnswerHello(p, m, d) \/ AnswerPing(p, m, d) \/ AnswerRoot(p, m, d)
    \/ AnswerDatum(p, m, d) \/ Punch(p, m, d)
    \/ HelloReplied(p, d) \/ RootReplied(p, d) \/ DatumReplied(p, d)

(* ProcessPacket for a datagram that comes through. *)
Process(m) ==
    /\ Passes(m) /\ Read(m) # Malformed
    /\ IF m.to = Server THEN ServerHandles(m, Read(m)) ELSE PeerHandles(m.to, m, Read(m))

Use(p) == Login(p) \/ Timeout(p) \/ Forward(p) \/ \E q \in Peer : Click(p, q)

Next == (\E p \in Peer : Use(p)) \/ (\E m \in net : Process(m))

Spec == Init /\ [][Next]_vars

(* What is sent comes in the end.  Users click a bounded number of times   *)
(* and a repeated datagram changes nothing, so that one condition for all  *)
(* datagrams reaches each of them.                                         *)
Reliable == WF_vars(\E m \in net : Process(m))
FairSpec == Spec /\ Reliable
-----------------------------------------------------------------------------
(* A name with which a body may have more bytes than Length can say: that  *)
(* of the request to the relay is the longest.                             *)
Wraps(p) == IpSize + 2 + Header + 4 + nameSize[p] + SignatureSize >= 65536

AcceptedNamesFit ==
    \A p, q \in Peer : q \in peerMap[p] => Header + 4 + nameSize[q] + SignatureSize <= sizeMaxDatagram
CrashMeansWrap == crashed # {} => \E p \in Peer : Wraps(p)

(* Between copies of this program, whatever is delayed, repeated or cut:   *)
(* no handler is given a body that lost bytes, or slices one past its end, *)
(* unless somebody took a name so long that Length wraps; whoever asks a   *)
(* peer for data has been accepted by it, so that it is not taken for a    *)
(* stranger; and only a name whose signed Hello fits into the buffer is    *)
(* ever accepted.                                                          *)
RequestsAreUnderstood ==
    /\ CrashMeansWrap /\ AcceptedNamesFit
    /\ \A m \in net :
           /\ Read(m) # Malformed /\ Read(m).body.says = Garbage => Wraps(m.from)
           /\ m.packet.type = 3 => m.from \in peerMap[m.to]

(* What makes RequestsAreUnderstood inductive.  A datagram was built by    *)
(* its sender; replies carry the kind of their request in the identifier;  *)
(* a Hello of the current click went to the target, and its reply comes    *)
(* from a target that has accepted the peer.                               *)
Whole(m) ==
    m.packet.size = Header + m.packet.body.size + IF m.packet.signature = Unsigned THEN 0 ELSE SignatureSize

Built(m) ==
    /\ m.packet.signature \in {Unsigned, m.from}
    /\ Whole(m)
    /\ m.packet.body.says = Garbage => m.from \in Peer /\ Wraps(m.from)

(* The identifier id was drawn for a Hello of peer p to q. *)
HelloOf(id, p, q) ==
    /\ id = <<p, id[2], "hello">> /\ id[2] \in 0..clicks[p]
    /\ id[2] > 0 => q \in Peer
    /\ id[2] > 0 /\ id[2] = clicks[p] => q = target[p]

Genuine(m) ==
    /\ m.packet.type = 1 /\ m.from \in Peer =>
           /\ HelloOf(m.packet.id, m.from, m.to)
           /\ m.packet.body.says \in {m.from, Garbage}
           /\ m.packet.body.says = m.from => m.packet.body.size = 4 + nameSize[m.from]
    /\ m.packet.type = 1 /\ m.from = Server =>
           m.packet.id = <<Server, 0, "hello">> /\ m.packet.body = [size |-> 8, says |-> Server]
    /\ m.packet.type = 130 => \A p \in Peer :
           /\ m.packet.id[1] = p => HelloOf(m.packet.id, p, m.from)
           /\ m.packet.id[1] = p /\ m.from \in Peer => p \in peerMap[m.from]
    /\ m.packet.type = 3 => m.to \in Peer /\ m.from \in peerMap[m.to]
    /\ m.packet.type = 132 => m.packet.body.size >= 32
    /\ m.packet.body.says = Garbage => m.packet.type \in {1, 4, 130}
    /\ m.packet.type \notin {1, 130} => m.packet.id[3] # "hello"

NetIsGenuine == \A m \in net : Built(m) /\ Genuine(m)

UsersAreKnown ==
    \A p \in Peer :
        /\ pc[p] = "out" => nameSize[p] = 0 /\ clicks[p] = 0 /\ opened[p] = {}
        /\ pc[p] = "out" => (\A m \in net : m.from # p) /\ (\A q \in Peer : p \notin peerMap[q])
        /\ pc[p] \in {"hello", "root", "datum", "relay"} => target[p] \in Peer /\ clicks[p] > 0
        /\ pc[p] \in {"root", "datum"} => p \in peerMap[target[p]]

RelayInv == TypeOK /\ NetIsGenuine /\ UsersAreKnown /\ AcceptedNamesFit /\ CrashMeansWrap

(* A click that fails is not the last word: once the relay was asked, the  *)
(* target has contacted the peer through its NAT, which the direct Hello   *)
(* had opened, and from then on each is let in by the other's NAT.  This   *)
(* program is the target of a request that was relayed.                    *)
Reachable(p, q) == q \in contacts[p] /\ q \in opened[p] /\ p \in opened[q]
OpensTheWay(p, q) == q \in forwarded[p] ~> (Reachable(p, q) \/ crashed # {})

TargetsOpenTheWay == \A p \in Conforming, q \in Peer : OpensTheWay(p, q)

(* The purpose of the traversal, for every peer (project.pdf 4.3); the     *)
(* request of the program, which is not relayed, defeats it.               *)
TraversalOpensTheWay == \A p, q \in Peer : OpensTheWay(p, q)
=============================================================================
