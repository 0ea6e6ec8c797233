---------------------------- MODULE MCMerkleStore ---------------------------
(***************************************************************************)
(* Directories with files at the boundaries of a chunk and of a level for  *)
(* MerkleStore, and the reading of an exported file by ParseNode.          *)
(***************************************************************************)
EXTENDS MerkleStore

Chunks(n, rest) == n * 1024 + rest

(* Files of one fragment, of two levels, of three; a directory too long.   *)
MCListings ==
    {<<1023, Unreadable, 1, Chunks(1, 1)>>, <<5, 0, 7>>, <<Unreadable>>, <<>>,
     <<Chunks(31, 0), Chunks(31, 1)>>, <<Chunks(1, 0), 12>>,
     <<Chunks(62, 500)>>, <<Chunks(962, 9)>>,
     [k \in 1..15 |-> k], [k \in 1..16 |-> k], [k \in 1..17 |-> k]}

(* A photograph of more than a level, as those of Photos_Chats. *)
PhotoListings == {<<12, Chunks(2, 3)>>}

(* A chunk of 1024 bytes is what ParseNode expects ("Chunk trop grand" is  *)
(* for longer ones) and what session_log.txt shows on the network ("Donnée *)
(* reçue (1057 octets)"): the tree of a file restores all its fragments.   *)
TreeRestoresFile ==
    \A k \in DOMAIN entries :
        LET f == entries[k].file
        IN  FragmentsOf(entries[k].hash, Count(f)) = [j \in 1..Count(f) |-> FragmentIn(f, j)]
=============================================================================
