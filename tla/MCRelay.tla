------------------------------ MODULE MCRelay -------------------------------
(* Two peers for Relay that click on each other; one takes a name whose    *)
(* Hello fills the buffer, loses a byte of its signature or of its body,   *)
(* or wraps, and the other asks for the relay as project.pdf says.         *)
EXTENDS Relay
CONSTANTS a, b
MCClicks == [p \in Peer |-> IF p = b THEN 2 ELSE 1]
(* 7 + 4 + 1973 + 64 = 2048 = 7 + 4 + 2037; 4 + 65532 = 2^16 *)
MCNames == [p \in Peer |-> IF p = a THEN {1973, 1974, 2038, 65532} ELSE {8}]
=============================================================================
