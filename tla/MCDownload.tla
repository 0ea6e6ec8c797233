----------------------------- MODULE MCDownload -----------------------------
(***************************************************************************)
(* Small trees for Download, and the property of the written files, which  *)
(* needs the recursive reference definition of a file's content.           *)
(***************************************************************************)
EXTENDS Download, SequencesExt

CONSTANTS r, b, c, d, s,     \* nodes of the tree
          r2, c2,            \* nodes of a second session on the same tree
          i1, i2,            \* colliding identifiers
          junk, short, noChan, noReply, noId

(* One session: a directory with a file of two chunks and a malformed      *)
(* entry.  The file is a big node, so that its chunks take their tokens    *)
(* while the call of the big node is waiting for them.                     *)
TreeNodes == {r, b, c, d, s}
TreeKids == [n \in TreeNodes |->
    CASE n = r -> <<b, s>> [] n = b -> <<c, d>> [] OTHER -> <<>>]
TreeKind == [n \in TreeNodes |->
    CASE n = r -> "directory" [] n = b -> "big" [] n = s -> "malformed"
      [] OTHER -> "chunk"]
TreePath == [n \in TreeNodes |-> CASE n = r -> "" [] n = s -> "g" [] OTHER -> "f"]
TreeHash == [n \in TreeNodes |-> n]

(* The peer may lack the root, forge one chunk, and answer for the         *)
(* malformed entry with a datum that has no room for a hash.               *)
TreeAnswers == [h \in TreeNodes \cup {junk, short} |->
    CASE h = r -> {"datum", "nodatum"} [] h = c -> {"datum", "junk"}
      [] h = s -> {"datum", "short"} [] OTHER -> {"datum"}]

(* Two sessions started by two clicks on the same peer: the root is a big  *)
(* node of two chunks whose path, in the run, is a file.                   *)
TwinNodes == {r, c, d, r2, c2}
TwinKids == [n \in TwinNodes |->
    CASE n = r -> <<c, d>> [] n = r2 -> <<c2>> [] OTHER -> <<>>]
TwinKind == [n \in TwinNodes |-> IF n \in {r, r2} THEN "big" ELSE "chunk"]
TwinPath == [n \in TwinNodes |-> "f"]
TwinHash == [n \in TwinNodes |->
    CASE n = r2 -> r [] n = c2 -> c [] OTHER -> n]
TwinAnswers == [h \in {r, c, d, junk, short} |-> {"datum"}]

(* The nodes below n (itself included), and those of one path in order. *)
RECURSIVE Leaves(_)
Leaves(n) == IF Kind[n] = "chunk" THEN <<n>>
             ELSE FoldLeft(LAMBDA acc, m : acc \o Leaves(m), <<>>, Kids[n])

LeavesAt(n, p) == SelectSeq(Leaves(n), LAMBDA m : Path[m] = p)
Written(n, p) ==
    SelectSeq(files[p], LAMBDA a : Contains(Leaves(n), a.node))

Nodes(log) == [k \in DOMAIN log |-> log[k].node]

(* sub is ref, whose elements are distinct, with some elements left out. *)
IsThinned(sub, ref) == sub = SelectSeq(ref, LAMBDA m : Contains(sub, m))

(* Whatever is lost, late, duplicated, refused or forged, what one session *)
(* leaves in a file is a subsequence of the file: chunks in order, none    *)
(* twice, each with the content asked for.  Sessions may interleave.       *)
FilesAreInOrder ==
    \A n \in Roots, p \in Paths :
        /\ IsThinned(Nodes(Written(n, p)), LeavesAt(n, p))
        /\ \A k \in DOMAIN files[p] : files[p][k].data = Hash[files[p][k].node]

FreshChan == Node \X Attempt
FreshIds == [ch \in FreshChan |-> {ch}]
CollidingIds == [ch \in FreshChan |-> Id]
MCReply == [id : Id, type : {132, 133}, claim : Data, data : Data]
IdSymmetry == Permutations({i1, i2})
MCData == {Hash[n] : n \in Node} \cup {junk, short}
=============================================================================
