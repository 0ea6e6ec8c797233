---------------------------- MODULE MCPeerTable -----------------------------
(* One peer for PeerTable: peers do not interact.  A name is no address. *)
EXTENDS PeerTable
Peers == {"anna"}
Addresses == [p \in Peers |-> "192.0.2.1:8443"]
=============================================================================
