---------------------------- MODULE MerkleStore -----------------------------
(***************************************************************************)
(* The export of a directory of files as a Merkle tree: ExportCatsPhotos   *)
(* and CutFileIntoChunks (file.go) over Store (treeMerkle.go), and what    *)
(* ParseNode accepts of the result at the other end.                       *)
(*                                                                         *)
(* Sizes are those of the code, in bytes.  A node stands for its hash, so  *)
(* a hash is a sequence: <<node>> when Store succeeded, <<>> (the nil      *)
(* slice) when it refused the node and the caller ignored the error.       *)
(***************************************************************************)
EXTENDS Integers, Sequences, SequencesExt

CONSTANTS
    Listings,       \* the directories to export: sequences of file lengths
    Unreadable,     \* the "length" of a file that os.ReadFile cannot read
    ChunkSize,      \* bytes of the file in a chunk: 1024
    MaxData,        \* largest data that Store accepts: 1024
    Fanout,         \* hashes in an inner node: 31
    HashSize,       \* bytes of a hash: 32
    EntrySize       \* bytes of an entry of a directory: 64

ASSUME StoreAssumption ==
    /\ Unreadable \notin Nat
    /\ \A l \in Listings : l \in Seq(Nat \cup {Unreadable})
    /\ {ChunkSize, MaxData, HashSize, EntrySize} \subseteq Nat \ {0}
    /\ Fanout \in Nat \ {0, 1}

VARIABLES
    listing,        \* the lengths of the files, in the order of os.ReadDir
    at,             \* the file being cut
    offset,         \* loop variable of the leaf loop: bytes of the file cut
    group,          \* loop variable of the level loop: hashes grouped
    hashes,         \* currentHashes
    nextLevel,      \* nextLevel
    entries,        \* dirBody: a pair (file, hash) for each file exported
    storage,        \* contentStorage: the nodes that can be served
    outcome         \* "running", "root", "refused" (log.Fatalf) or "panic"

vars == <<listing, at, offset, group, hashes, nextLevel, entries, storage, outcome>>

Fragment(f, o, n) == [type |-> 0, size |-> 1 + n, frag |-> <<f, o, n>>, kids |-> <<>>]
(* The hashes of a group are appended one to the other: a nil adds nothing. *)
BigNode(group_) ==
    LET ks == FlattenSeq(group_)
    IN  [type |-> 2, size |-> 1 + HashSize * Len(ks), frag |-> <<>>, kids |-> ks]
(* The body of a directory, with its type 1, behind a second type byte. *)
BigDirectory(es) ==
    [type |-> 3, size |-> 2 + EntrySize * Len(es), frag |-> <<>>,
     kids |-> FlattenSeq([k \in DOMAIN es |-> es[k].hash])]

Storable(node) == node.size > 0 /\ node.size <= MaxData
HashOf(node) == IF Storable(node) THEN <<node>> ELSE <<>>
(* Faulty variant: a map that keeps one entry. *)
StoreOne(node) == storage' = IF Storable(node) THEN {node} ELSE storage

Store(node) == storage' = IF Storable(node) THEN storage \cup {node} ELSE storage

(* What ParseNode of a receiver accepts. *)
Parses(node) ==
    CASE node.type = 0 -> node.size - 1 <= 1024
      [] node.type = 1 -> (node.size - 1) % EntrySize = 0
      [] OTHER         -> (node.size - 1) % HashSize = 0

TypeOK ==
    /\ listing \in Listings
    /\ at \in 1..(Len(listing) + 1)
    /\ offset \in Nat /\ group \in Nat
    /\ \A s \in {hashes, nextLevel} : \A k \in DOMAIN s : Len(s[k]) <= 1
    /\ \A k \in DOMAIN entries :
           entries[k].file \in 1..(at - 1) /\ Len(entries[k].hash) <= 1
    /\ outcome \in {"running", "root", "refused", "panic"}

Init ==
    /\ listing \in Listings
    /\ at = 1 /\ offset = 0 /\ group = 0
    /\ hashes = <<>> /\ nextLevel = <<>> /\ entries = <<>>
    /\ storage = {}
    /\ outcome = "running"

Length == listing[at]
Cutting == outcome = "running" /\ at <= Len(listing)
LeavesCut == Cutting /\ Length # Unreadable /\ offset >= Length

Smaller(a, b) == IF a < b THEN a ELSE b
GroupEnd == Smaller(group + Fanout, Len(hashes))

(* The locals of CutFileIntoChunks for the next file. *)
NextFile ==
    /\ at' = at + 1
    /\ offset' = 0 /\ group' = 0
    /\ hashes' = <<>> /\ nextLevel' = <<>>

(* Faulty variants, for the runs that check that each property can fail: a *)
(* group without its last hash; a level that is not replaced by the next;  *)
(* a file that ends with several hashes; an export that gives up on a      *)
(* fragment that was not stored (and, above, a map that keeps one entry).  *)
GroupShort ==
    /\ LeavesCut /\ Len(hashes) > 1 /\ group < Len(hashes)
    /\ LET node == BigNode(SubSeq(hashes, group + 1, GroupEnd - 1))
       IN  /\ Store(node)
           /\ nextLevel' = Append(nextLevel, HashOf(node))
    /\ group' = group + Fanout
    /\ UNCHANGED <<listing, at, offset, hashes, entries, outcome>>

SameLevel ==
    /\ LeavesCut /\ Len(hashes) > 1 /\ group >= Len(hashes)
    /\ nextLevel' = <<>>
    /\ group' = 0
    /\ UNCHANGED <<listing, at, offset, hashes, entries, storage, outcome>>

EndFileEarly ==
    /\ LeavesCut /\ hashes # <<>>
    /\ entries' = Append(entries, [file |-> at, hash |-> FlattenSeq(hashes)])
    /\ NextFile
    /\ UNCHANGED <<listing, storage, outcome>>

PanicOnNil ==
    /\ LeavesCut /\ FlattenSeq(hashes) = <<>>
    /\ outcome' = "panic"
    /\ UNCHANGED <<listing, at, offset, group, hashes, nextLevel, entries, storage>>
-----------------------------------------------------------------------------
(* os.ReadFile fails: the file is logged and skipped. *)
SkipFile ==
    /\ Cutting /\ Length = Unreadable
    /\ NextFile
    /\ UNCHANGED <<listing, entries, storage, outcome>>

(* One turn of the leaf loop; the error of Store is ignored. *)
CutFragment ==
    /\ Cutting /\ Length # Unreadable /\ offset < Length
    /\ LET node == Fragment(at, offset, Smaller(offset + ChunkSize, Length) - offset)
       IN  /\ Store(node)
           /\ hashes' = Append(hashes, HashOf(node))
    /\ offset' = offset + ChunkSize
    /\ UNCHANGED <<listing, at, group, nextLevel, entries, outcome>>

(* One turn of the loop over a level: a group of at most Fanout hashes. *)
GroupHashes ==
    /\ LeavesCut /\ Len(hashes) > 1 /\ group < Len(hashes)
    /\ LET node == BigNode(SubSeq(hashes, group + 1, GroupEnd))
       IN  /\ Store(node)
           /\ nextLevel' = Append(nextLevel, HashOf(node))
    /\ group' = group + Fanout
    /\ UNCHANGED <<listing, at, offset, hashes, entries, outcome>>

(* currentHashes = nextLevel *)
NextLevel ==
    /\ LeavesCut /\ Len(hashes) > 1 /\ group >= Len(hashes)
    /\ hashes' = nextLevel
    /\ nextLevel' = <<>>
    /\ group' = 0
    /\ UNCHANGED <<listing, at, offset, entries, storage, outcome>>

(* return currentHashes[0]; the name and the hash become an entry, whose   *)
(* 32 bytes for the hash stay zero when it is nil.                         *)
EndFile ==
    /\ LeavesCut /\ Len(hashes) = 1
    /\ entries' = Append(entries, [file |-> at, hash |-> hashes[1]])
    /\ NextFile
    /\ UNCHANGED <<listing, storage, outcome>>

(* An empty file has no hash: currentHashes[0] is out of range. *)
PanicOnEmpty ==
    /\ LeavesCut /\ hashes = <<>>
    /\ outcome' = "panic"
    /\ UNCHANGED <<listing, at, offset, group, hashes, nextLevel, entries, storage>>

(* return Store(bigDir): the root hash, or an error that ends the program. *)
EndExport ==
    /\ outcome = "running" /\ at = Len(listing) + 1
    /\ Store(BigDirectory(entries))
    /\ outcome' = IF Storable(BigDirectory(entries)) THEN "root" ELSE "refused"
    /\ UNCHANGED <<listing, at, offset, group, hashes, nextLevel, entries>>

Stopped == outcome # "running" /\ UNCHANGED vars

Export ==
    \/ SkipFile \/ CutFragment \/ GroupHashes \/ NextLevel \/ EndFile
    \/ PanicOnEmpty \/ EndExport

Next == Export \/ Stopped

Spec == Init /\ [][Next]_vars
FairSpec == Spec /\ WF_vars(Export)
-----------------------------------------------------------------------------
(* The inner nodes of a file name only stored nodes: a refused fragment    *)
(* disappears from the tree, it does not leave a hash nobody can serve.    *)
NodesAreClosed ==
    \A n \in storage : \A k \in DOMAIN n.kids : n.kids[k] \in storage

(* The export ends, whatever the lengths: each level is shorter.           *)
ExportEnds == <>(outcome # "running")

(* An export without a root is one of an empty file, on which it panics,   *)
(* or of more entries than fit in the data of one node.                    *)
FailsOnlyOnLimits ==
    /\ outcome = "panic" => Length = 0
    /\ outcome = "refused" => Len(entries) > (MaxData - 2) \div EntrySize
    /\ outcome = "root" => \A k \in DOMAIN listing : listing[k] # 0

(* What ParseNode of a receiver appends for a stored node, d levels down.   *)
Reads(st, d) ==
    LET down[i \in 0..d] ==
            [n \in st |->
                IF n.type = 0 THEN <<n.frag>>
                ELSE IF i = 0 THEN <<>>
                ELSE FlattenSeq([k \in DOMAIN n.kids |-> down[i - 1][n.kids[k]]])]
    IN  down[d]
FragmentsOf(hash, d) == IF hash = <<>> THEN <<>> ELSE Reads(storage, d)[hash[1]]

(* The fragments of file f, in order, and those that Store accepts. *)
Count(f) == (listing[f] + ChunkSize - 1) \div ChunkSize
FragmentIn(f, k) ==
    LET o == (k - 1) * ChunkSize
    IN  <<f, o, Smaller(o + ChunkSize, listing[f]) - o>>
Kept(f, k) == IF FragmentIn(f, k)[3] < MaxData THEN <<FragmentIn(f, k)>> ELSE <<>>

(* Whatever the number of levels, which is below that of the fragments,    *)
(* the tree of a file restores its fragments in order, each once, and      *)
(* exactly those that Store accepts: a file shorter than a chunk is whole, *)
(* of a longer one the last partial fragment is left.                      *)
TreeKeepsPartialFragments ==
    \A k \in DOMAIN entries :
        LET f == entries[k].file
        IN  FragmentsOf(entries[k].hash, Count(f)) =
                FlattenSeq([j \in 1..Count(f) |-> Kept(f, j)])

(* "Root Hash de mes photos de chats" (client.go, session_log.txt): the    *)
(* node under the root hash is one that a peer can parse.                  *)
RootIsReadable == outcome = "root" => Parses(BigDirectory(entries))
=============================================================================
