---------------------------- MODULE MCDiscovery -----------------------------
(* Two clicks for Discovery, with distinct or colliding identifiers. *)
EXTENDS Discovery
CONSTANTS d1, d2, i1, i2
Chans == Routine \X Stage
FreshIds == [c \in Chans |-> {c}]
(* The two Hellos draw the same identifier, and so do the two RootRequests. *)
TwinIds == [c \in Chans |-> IF c[2] = "hello" THEN {i1} ELSE {i2}]
MCReply == [id : Id, type : {HelloReplyType, ErrorType, 131},
            is : {"HelloReply", "Error", "RootReply"}]
=============================================================================
