----------------------------- MODULE Datagrams ------------------------------
(***************************************************************************)
(* The datagrams of messages.go by their sizes: what SerialisationDatagram *)
(* puts on the wire, what is left of it in the buffer of the receiver, and *)
(* what DeserialisationUDP reads there.  What a body says is a value; it   *)
(* is lost when bytes of the body are.                                     *)
(***************************************************************************)
EXTENDS Integers

CONSTANTS
    Nothing,            \* what an empty body says
    Garbage             \* what a body says after bytes of it are lost

sizeMaxDatagram == 2048
Header == 7
SignatureSize == 64

Unsigned == Nothing
NoKey == Nothing
Empty == [size |-> 0, says |-> Nothing]

Smaller(m, n) == IF m < n THEN m ELSE n
FirstBytes(body, n) == IF n = body.size THEN body ELSE [size |-> n, says |-> Garbage]
-----------------------------------------------------------------------------
(* cryptography.go: a signature is known by the key it was made with.  It  *)
(* covers what precedes it, which nobody changes: a datagram may be cut,   *)
(* and then its signature is the first thing to go.                        *)
ComputeSignature(key) == key
VerifySignature(key, signature) == signature = ComputeSignature(key)

(* Length has 16 bits. *)
uint16(n) == n % 65536

(* The body is copied up to Length: a packet declares the length of the    *)
(* body it holds.                                                          *)
SerialisationDatagram(id, type, body, key) ==
    LET length == uint16(body.size)
    IN  [id |-> id, type |-> type, body |-> FirstBytes(body, length),
         signature |-> IF key = NoKey THEN Unsigned ELSE ComputeSignature(key),
         size |-> Header + length + IF key = NoKey THEN 0 ELSE SignatureSize]

(* ReadFromUDP keeps what fits into the buffer. *)
Received(packet) == [packet EXCEPT !.size = Smaller(@, sizeMaxDatagram)]

(* Variant: the second check forgotten; the buffer lends its other bytes.  *)
WellFormedHeader(packet) == packet.size >= Header

(* The two length checks; what follows the body is a signature when it has *)
(* the size of one.  ProcessPacket gives no key, so none is verified here. *)
Malformed == [type |-> -1]
WellFormed(packet) == packet.size >= Header /\ packet.size >= Header + packet.body.size
DeserialisationUDP(packet) ==
    LET length == packet.body.size
    IN  IF ~WellFormed(packet) THEN Malformed
        ELSE [id |-> packet.id, type |-> packet.type,
              body |-> FirstBytes(packet.body, Smaller(length, packet.size - Header)),
              signature |-> IF packet.size - Header - length = SignatureSize
                            THEN packet.signature ELSE Unsigned]
-----------------------------------------------------------------------------
(* The builders.  A name is a node and the number of bytes of its name. *)
HelloBody(name, nameSize) == [size |-> 4 + nameSize, says |-> name]

BuildHelloPacket(id, name, nameSize, key) == SerialisationDatagram(id, 1, HelloBody(name, nameSize), key)
BuildHelloReplyPacket(id, name, nameSize, key) == SerialisationDatagram(id, 130, HelloBody(name, nameSize), key)
BuildPingPacket(id) == SerialisationDatagram(id, 0, Empty, NoKey)
BuildPongReplyPacket(id) == SerialisationDatagram(id, 128, Empty, NoKey)
BuildRootRequestPacket(id, key) == SerialisationDatagram(id, 2, Empty, key)
BuildRootReplyPacket(id, root, key) == SerialisationDatagram(id, 131, [size |-> 32, says |-> root], key)
BuildNoDatumReplyPacket(id, key) == SerialisationDatagram(id, 133, Empty, key)
BuildDatumRequestPacket(id, hash) == SerialisationDatagram(id, 3, [size |-> 32, says |-> hash], NoKey)

(* An address of 4 or 16 bytes, a port, and the packet to forward. *)
BuildForwardPacket(id, target, ipSize, original) ==
    SerialisationDatagram(id, 4, [size |-> ipSize + 2 + original.size, says |-> target], NoKey)
=============================================================================
