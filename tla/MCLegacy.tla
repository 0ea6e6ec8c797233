------------------------------ MODULE MCLegacy ------------------------------
(***************************************************************************)
(* A tree of depth three for LegacyDownload, deeper than its two tokens.   *)
(***************************************************************************)
EXTENDS LegacyDownload

CONSTANTS r, b, c, s, short, noChan, noReply, noId

(* A directory with a chunk and a big node of one child. *)
TreeNodes == {r, c, b, s}
TreeKids == [n \in TreeNodes |->
    CASE n = r -> <<c, b>> [] n = b -> <<s>> [] OTHER -> <<>>]
TreeKind == [n \in TreeNodes |->
    CASE n = r -> "directory" [] n = b -> "big" [] OTHER -> "chunk"]
TreePath == [n \in TreeNodes |->
    CASE n = r -> "" [] n = c -> "f" [] OTHER -> "g"]
TreeHash == [n \in TreeNodes |-> n]

(* The big node draws the identifier that the chunk may have leaked. *)
TreeIds == [n \in TreeNodes |-> IF n \in {c, b} THEN {2} ELSE {1}]
MCData == TreeNodes \cup {short}
MCReply == [id : Id, type : {132, 133}, data : Data]
=============================================================================
