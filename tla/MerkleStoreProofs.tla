------------------------- MODULE MerkleStoreProofs --------------------------
(***************************************************************************)
(* Proofs about MerkleStore: what the store holds can be served to the     *)
(* last fragment, the tree of a file gives back what was stored of it, and *)
(* an export without a root met one of two limits.                         *)
(***************************************************************************)
EXTENDS MerkleStore, SequenceTheorems, WellFoundedInduction, TLAPS

(* The hashes that the export can hold: of a stored node, or nil. *)
Served == {<<>>} \cup {<<n>> : n \in storage}

(* Nothing that the export holds, and no stored node, names a node that is *)
(* not stored: it holds of the loop variables as of the store, since they  *)
(* become the children of the next node.                                   *)
HoldsServed ==
    /\ hashes \in Seq(Served) /\ nextLevel \in Seq(Served)
    /\ entries \in Seq([file : 1..(at - 1), hash : Served])
    /\ \A n \in storage : n.kids \in Seq(storage)

Progress ==
    /\ listing \in Listings
    /\ at \in 1..(Len(listing) + 1)
    /\ offset \in Nat /\ group \in Nat
    /\ outcome \in {"running", "root", "refused", "panic"}

(* A file that has been begun has a hash at every level of its tree, so    *)
(* only an empty one ends without.                                         *)
LevelsAreFull ==
    /\ offset > 0 => hashes # <<>>
    /\ group > 0 => nextLevel # <<>>
    /\ hashes # <<>> => at <= Len(listing) /\ Length # Unreadable /\ Length > 0
    /\ \A k \in 1..(at - 1) : listing[k] # 0

ExportInv == Progress /\ HoldsServed /\ LevelsAreFull /\ FailsOnlyOnLimits
-----------------------------------------------------------------------------
LEMMA Listed ==
  ASSUME Progress
  PROVE  /\ listing \in Seq(Nat \cup {Unreadable}) /\ Len(listing) \in Nat
         /\ at <= Len(listing) => Length \in Nat \cup {Unreadable}
  BY StoreAssumption DEF Progress, Length

(* A set of naturals with an element has a least one. *)
LEMMA Least ==
  ASSUME NEW S \in SUBSET Nat, S # {}
  PROVE  \E m \in S : \A t \in S : m <= t
<1> DEFINE R == {s \in Nat \X Nat : s[1] < s[2]}
<1>1. OpToRel(<, Nat) = R
  BY Zenon DEF OpToRel
<1>2. IsWellFoundedOn(R, Nat)
  BY <1>1, NatLessThanWellFounded
<1>3. PICK m \in S : \A t \in S : <<t, m>> \notin R
  <2> HIDE DEF R
  <2> QED BY <1>2, WFMin
<1>4. \A t \in S : ~(t < m)
  BY <1>3
<1> QED BY <1>4

(* The recursive function of FlattenSeq (SequencesExt), up to place m. *)
Flattens(f, s, m) ==
    f = [i \in 1..m |-> IF i = 1 THEN s[i] ELSE f[i-1] \o s[i]]

(* It exists: there is no least place up to which it does not. *)
LEMMA FlattensExists ==
  ASSUME NEW s, NEW n \in Nat \ {0}
  PROVE  \E f : Flattens(f, s, n)
<1> DEFINE Bad == {m \in 1..n : ~ \E f : Flattens(f, s, m)}
<1>1. SUFFICES ASSUME Bad # {} PROVE FALSE
  <2>1. n \in 1..n
    OBVIOUS
  <2> QED BY <1>1, <2>1, Zenon
<1>2. PICK m \in Bad : \A t \in Bad : m <= t
  <2>1. Bad \in SUBSET Nat
    OBVIOUS
  <2> HIDE DEF Bad
  <2> QED BY <1>1, <2>1, Least
<1>3. m \in Nat /\ 1 <= m /\ m <= n
  OBVIOUS
<1>4. CASE m = 1
  <2> DEFINE f == [i \in 1..1 |-> s[i]]
  <2>1. Flattens(f, s, 1)
    BY DEF Flattens
  <2> QED BY <1>2, <1>4, <2>1, Zenon
<1>5. CASE m # 1
  <2>1. m - 1 \in 1..n /\ ~(m <= m - 1)
    BY <1>3, <1>5
  <2>2. PICK g : Flattens(g, s, m - 1)
    BY <1>2, <2>1, Zenon
  <2> DEFINE f == [i \in 1..m |-> IF i < m THEN g[i] ELSE g[m-1] \o s[m]]
  <2>3. \A i \in 1..(m - 1) : g[i] = IF i = 1 THEN s[i] ELSE g[i-1] \o s[i]
    BY <2>2 DEF Flattens
  <2>4. \A i \in 1..m : f[i] = IF i = 1 THEN s[i] ELSE f[i-1] \o s[i]
    <3> SUFFICES ASSUME NEW i \in 1..m
                 PROVE  f[i] = IF i = 1 THEN s[i] ELSE f[i-1] \o s[i]
      OBVIOUS
    <3>1. CASE i < m
      <4>1. i \in 1..(m - 1) /\ (i # 1 => i - 1 \in 1..m /\ i - 1 < m)
        BY <1>3, <3>1
      <4> QED BY <1>3, <2>3, <3>1, <4>1
    <3>2. CASE i = m
      <4>1. m - 1 \in 1..m /\ m - 1 < m /\ m \in 1..m /\ ~(m < m)
        BY <1>3, <1>5
      <4> QED BY <1>5, <3>2, <4>1
    <3> QED BY <1>3, <3>1, <3>2
  <2>5. Flattens(f, s, m)
    <3>1. f = [i \in 1..m |-> IF i = 1 THEN s[i] ELSE f[i-1] \o s[i]]
      BY <2>4
    <3> QED BY <3>1 DEF Flattens
  <2> QED BY <1>2, <2>5, Zenon
<1> QED BY <1>4, <1>5

(* What is flattened stays in the type of the parts: there is no least     *)
(* place at which it leaves it.                                            *)
LEMMA FlattenIs ==
  ASSUME NEW T, NEW s \in Seq(Seq(T))
  PROVE  FlattenSeq(s) \in Seq(T)
<1>0. Len(s) \in Nat /\ \A i \in 1..Len(s) : s[i] \in Seq(T)
  OBVIOUS
<1>1. CASE Len(s) = 0
  <2>1. FlattenSeq(s) = s /\ s = <<>>
    BY <1>1 DEF FlattenSeq
  <2> QED BY <2>1
<1>2. CASE Len(s) # 0
  <2> DEFINE n == Len(s)
  <2>1. FlattenSeq(s) = (CHOOSE f : Flattens(f, s, n))[n]
    BY <1>2, Zenon DEF FlattenSeq, Flattens
  <2>2. \E f : Flattens(f, s, n)
    BY <1>0, <1>2, FlattensExists
  <2>3. PICK f : Flattens(f, s, n) /\ FlattenSeq(s) = f[n]
    BY <2>1, <2>2, Zenon
  <2>4. \A i \in 1..n : f[i] = IF i = 1 THEN s[i] ELSE f[i-1] \o s[i]
    BY <2>3 DEF Flattens
  <2>5. \A i \in 1..n : f[i] \in Seq(T)
    <3> DEFINE Bad == {i \in 1..n : f[i] \notin Seq(T)}
    <3>1. SUFFICES ASSUME Bad # {} PROVE FALSE
      BY Zenon
    <3>2. PICK m \in Bad : \A t \in Bad : m <= t
      <4>1. Bad \in SUBSET Nat
        BY <1>0
      <4> HIDE DEF Bad
      <4> QED BY <3>1, <4>1, Least
    <3>3. m \in Nat /\ 1 <= m /\ m <= n /\ f[m] \notin Seq(T)
      BY <1>0
    <3>4. CASE m = 1
      BY <1>0, <2>4, <3>3, <3>4
    <3>5. CASE m # 1
      <4>1. m - 1 \in 1..n /\ ~(m <= m - 1)
        BY <1>0, <3>3, <3>5
      <4>2. f[m-1] \in Seq(T)
        BY <3>2, <4>1
      <4>3. s[m] \in Seq(T) /\ f[m] = f[m-1] \o s[m]
        BY <1>0, <2>4, <3>3, <3>5
      <4>4. f[m-1] \o s[m] \in Seq(T)
        BY <4>2, <4>3
      <4> QED BY <3>3, <4>3, <4>4
    <3> QED BY <3>4, <3>5
  <2>6. n \in 1..n
    BY <1>0, <1>2
  <2> QED BY <2>3, <2>5, <2>6
<1> QED BY <1>1, <1>2
-----------------------------------------------------------------------------
LEMMA SeqGrows ==
  ASSUME NEW S, NEW T, S \subseteq T, NEW q \in Seq(S)
  PROVE  q \in Seq(T)
OBVIOUS

LEMMA SeqElements ==
  ASSUME NEW S, NEW q \in Seq(S)
  PROVE  DOMAIN q = 1..Len(q) /\ Len(q) \in Nat /\ \A k \in DOMAIN q : q[k] \in S
OBVIOUS

(* The store only grows, so what was served still is. *)
LEMMA ServedGrows ==
  ASSUME storage \subseteq storage'
  PROVE  Served \subseteq Served' /\ Seq(Served) \subseteq Seq(Served')
<1>1. Served \subseteq Served'
  BY DEF Served
<1> QED BY <1>1, SeqGrows

(* Storing a node whose children are served keeps the store closed, and    *)
(* gives back a hash that is served.                                       *)
LEMMA StoringNode ==
  ASSUME NEW node, Store(node), node.kids \in Seq(storage),
         \A n \in storage : n.kids \in Seq(storage)
  PROVE  /\ storage \subseteq storage'
         /\ \A n \in storage' : n.kids \in Seq(storage')
         /\ HashOf(node) \in Served'
<1>1. storage \subseteq storage' /\ storage' \subseteq storage \cup {node}
  BY DEF Store
<1>2. \A n \in storage' : n.kids \in Seq(storage)
  BY <1>1
<1>3. Seq(storage) \subseteq Seq(storage')
  BY <1>1
<1>4. HashOf(node) \in Served'
  BY DEF HashOf, Served, Store
<1> QED BY <1>1, <1>2, <1>3, <1>4

(* The children that the nodes of a group and a directory name. *)
LEMMA KidsServed ==
  ASSUME NEW g \in Seq(Served)
  PROVE  FlattenSeq(g) \in Seq(storage)
<1>1. Served \subseteq Seq(storage)
  <2>1. <<>> \in Seq(storage) /\ \A n \in storage : <<n>> \in Seq(storage)
    OBVIOUS
  <2> QED BY <2>1 DEF Served
<1>2. g \in Seq(Seq(storage))
  BY <1>1, SeqGrows
<1> QED BY <1>2, FlattenIs

(* More bytes than a node can hold are more entries than it can hold. *)
LEMMA TooMany ==
  ASSUME NEW m \in Nat, NEW e \in Nat \ {0}, NEW l \in Nat, ~(2 + e * l <= m)
  PROVE  l > (m - 2) \div e
<1> DEFINE q == (m - 2) \div e
<1>1. q \in Int /\ e * q <= m - 2
  OBVIOUS
<1>2. SUFFICES ASSUME l <= q PROVE FALSE
  <2> HIDE DEF q
  <2>1. l <= q \/ l > q
    BY <1>1
  <2> QED BY <1>2, <2>1 DEF q
<1> HIDE DEF q
<1>3. q - l \in Nat
  BY <1>1, <1>2
<1>4. e * q = e * l + e * (q - l) /\ e * (q - l) >= 0
  BY <1>1, <1>3
<1> QED BY <1>1, <1>4
-----------------------------------------------------------------------------
LEMMA InvInit ==
  ASSUME Init
  PROVE  ExportInv
<1>1. listing \in Seq(Nat \cup {Unreadable}) /\ Len(listing) \in Nat
  BY StoreAssumption DEF Init
<1>2. Progress
  BY <1>1 DEF Init, Progress
<1>3. HoldsServed
  BY DEF Init, HoldsServed
<1>4. LevelsAreFull /\ FailsOnlyOnLimits
  BY DEF Init, LevelsAreFull, FailsOnlyOnLimits
<1> QED BY <1>2, <1>3, <1>4 DEF ExportInv

(* The next file begins with nothing: its hashes and levels are new. *)
LEMMA Begins ==
  ASSUME ExportInv, NextFile, at <= Len(listing), listing[at] # 0,
         outcome = "running",
         UNCHANGED <<listing, storage, outcome>>,
         entries' \in Seq([file : 1..at, hash : Served])
  PROVE  ExportInv'
<1>1. Progress'
  BY Listed DEF ExportInv, Progress, NextFile
<1>2. HoldsServed'
  <2>1. Served' = Served
    BY DEF Served
  <2>2. (at' - 1) = at
    BY DEF ExportInv, Progress, NextFile
  <2>3. entries' \in Seq([file : 1..(at' - 1), hash : Served'])
    BY <2>1, <2>2
  <2>4. hashes' = <<>> /\ nextLevel' = <<>> /\ storage' = storage
    BY DEF NextFile
  <2>5. <<>> \in Seq(Served')
    OBVIOUS
  <2> QED BY <2>3, <2>4, <2>5 DEF ExportInv, HoldsServed
<1>3. LevelsAreFull'
  <2>1. \A k \in 1..(at' - 1) : k \in 1..(at - 1) \/ k = at
    BY Listed DEF ExportInv, Progress, NextFile
  <2> QED BY <2>1 DEF ExportInv, LevelsAreFull, NextFile
<1>4. FailsOnlyOnLimits'
  BY DEF FailsOnlyOnLimits
<1> QED BY <1>1, <1>2, <1>3, <1>4 DEF ExportInv

(* What is known of the entries when the next file begins. *)
LEMMA EntriesKept ==
  ASSUME ExportInv
  PROVE  entries \in Seq([file : 1..at, hash : Served])
<1> DEFINE S == [file : 1..(at - 1), hash : Served]
           T == [file : 1..at, hash : Served]
<1>1. S \subseteq T
  BY Listed DEF ExportInv, Progress
<1>2. entries \in Seq(S)
  BY DEF ExportInv, HoldsServed
<1> HIDE DEF S, T
<1>3. entries \in Seq(T)
  BY <1>1, <1>2, SeqGrows
<1> QED BY <1>3 DEF T

LEMMA SkipFileKeeps ==
  ASSUME ExportInv, SkipFile
  PROVE  ExportInv'
<1>1. listing[at] # 0
  BY StoreAssumption DEF SkipFile, Length
<1> QED BY <1>1, EntriesKept, Begins DEF SkipFile, Cutting

LEMMA EndFileKeeps ==
  ASSUME ExportInv, EndFile
  PROVE  ExportInv'
<1>1. hashes # <<>> /\ hashes[1] \in Served
  <2>1. hashes \in Seq(Served) /\ Len(hashes) = 1
    BY DEF ExportInv, HoldsServed, EndFile, LeavesCut
  <2> QED BY <2>1
<1>2. listing[at] # 0
  <2>1. Length > 0
    BY <1>1 DEF ExportInv, LevelsAreFull
  <2> QED BY <2>1 DEF Length
<1>3. entries' \in Seq([file : 1..at, hash : Served])
  <2>3. [file |-> at, hash |-> hashes[1]] \in [file : 1..at, hash : Served]
    BY <1>1 DEF ExportInv, Progress
  <2> QED BY <2>3, EntriesKept DEF EndFile
<1> QED BY <1>2, <1>3, Begins DEF EndFile, LeavesCut, Cutting

LEMMA CutFragmentKeeps ==
  ASSUME ExportInv, CutFragment
  PROVE  ExportInv'
<1> DEFINE node == Fragment(at, offset, Smaller(offset + ChunkSize, Length) - offset)
<1>1. /\ Store(node) /\ hashes' = Append(hashes, HashOf(node))
      /\ node.kids = <<>>
  BY DEF CutFragment, Fragment
<1>2. Length \in Nat /\ Length > 0 /\ at <= Len(listing) /\ outcome = "running"
  BY Listed DEF ExportInv, Progress, CutFragment, Cutting
<1>3. /\ storage \subseteq storage'
      /\ \A n \in storage' : n.kids \in Seq(storage')
      /\ HashOf(node) \in Served'
  <2> HIDE DEF node
  <2>1. node.kids \in Seq(storage) /\ \A n \in storage : n.kids \in Seq(storage)
    BY <1>1 DEF ExportInv, HoldsServed
  <2> QED BY <1>1, <2>1, StoringNode
<1> HIDE DEF node
<1>4. Progress'
  BY StoreAssumption DEF ExportInv, Progress, CutFragment
<1>5. hashes' \in Seq(Served') /\ hashes' # <<>>
  <2>1. hashes \in Seq(Served')
    BY <1>3, ServedGrows DEF ExportInv, HoldsServed
  <2> QED BY <1>1, <1>3, <2>1
<1>6. HoldsServed'
  <2>1. nextLevel' \in Seq(Served')
    BY <1>3, ServedGrows DEF ExportInv, HoldsServed, CutFragment
  <2>2. entries' \in Seq([file : 1..(at' - 1), hash : Served'])
    <3>1. [file : 1..(at - 1), hash : Served] \subseteq [file : 1..(at - 1), hash : Served']
      BY <1>3, ServedGrows
    <3>2. entries \in Seq([file : 1..(at - 1), hash : Served'])
      BY <3>1, SeqGrows DEF ExportInv, HoldsServed
    <3> QED BY <3>2 DEF CutFragment
  <2> QED BY <1>3, <1>5, <2>1, <2>2 DEF HoldsServed
<1>7. LevelsAreFull'
  BY <1>2, <1>5 DEF ExportInv, LevelsAreFull, CutFragment, Length
<1>8. FailsOnlyOnLimits'
  BY <1>2 DEF FailsOnlyOnLimits, CutFragment
<1> QED BY <1>4, <1>6, <1>7, <1>8 DEF ExportInv

LEMMA GroupHashesKeeps ==
  ASSUME ExportInv, GroupHashes
  PROVE  ExportInv'
<1> DEFINE part == SubSeq(hashes, group + 1, GroupEnd)
           node == BigNode(part)
<1>1. Store(node) /\ nextLevel' = Append(nextLevel, HashOf(node))
  BY DEF GroupHashes
<1>2. part \in Seq(Served)
  <2>1. GroupEnd \in Int /\ GroupEnd <= Len(hashes) /\ group + 1 >= 1
    BY StoreAssumption DEF ExportInv, Progress, HoldsServed, GroupEnd, Smaller
  <2> QED BY <2>1 DEF ExportInv, Progress, HoldsServed
<1>3. node.kids \in Seq(storage)
  <2> HIDE DEF part
  <2> QED BY <1>2, KidsServed DEF BigNode
<1> HIDE DEF node
<1>4. /\ storage \subseteq storage'
      /\ \A n \in storage' : n.kids \in Seq(storage')
      /\ HashOf(node) \in Served'
  BY <1>1, <1>3, StoringNode DEF ExportInv, HoldsServed
<1>5. Progress'
  BY StoreAssumption DEF ExportInv, Progress, GroupHashes
<1>6. nextLevel' \in Seq(Served') /\ nextLevel' # <<>>
  <2>1. nextLevel \in Seq(Served')
    BY <1>4, ServedGrows DEF ExportInv, HoldsServed
  <2> QED BY <1>1, <1>4, <2>1
<1>7. HoldsServed'
  <2>1. hashes' \in Seq(Served')
    BY <1>4, ServedGrows DEF ExportInv, HoldsServed, GroupHashes
  <2>2. entries' \in Seq([file : 1..(at' - 1), hash : Served'])
    <3>1. [file : 1..(at - 1), hash : Served] \subseteq [file : 1..(at - 1), hash : Served']
      BY <1>4, ServedGrows
    <3>2. entries \in Seq([file : 1..(at - 1), hash : Served'])
      BY <3>1, SeqGrows DEF ExportInv, HoldsServed
    <3> QED BY <3>2 DEF GroupHashes
  <2> QED BY <1>4, <1>6, <2>1, <2>2 DEF HoldsServed
<1>8. LevelsAreFull'
  BY <1>6 DEF ExportInv, LevelsAreFull, GroupHashes, Length
<1>9. FailsOnlyOnLimits'
  BY DEF FailsOnlyOnLimits, GroupHashes, LeavesCut, Cutting
<1> QED BY <1>5, <1>7, <1>8, <1>9 DEF ExportInv

LEMMA NextLevelKeeps ==
  ASSUME ExportInv, NextLevel
  PROVE  ExportInv'
<1>1. Progress'
  BY DEF ExportInv, Progress, NextLevel
<1>2. HoldsServed'
  <2>1. Served' = Served
    BY DEF NextLevel, Served
  <2>2. hashes' = nextLevel /\ nextLevel' = <<>> /\ UNCHANGED <<at, entries, storage>>
    BY DEF NextLevel
  <2>3. <<>> \in Seq(Served')
    OBVIOUS
  <2> QED BY <2>1, <2>2, <2>3 DEF ExportInv, HoldsServed
<1>3. LevelsAreFull'
  <2>1. group > 0 /\ hashes # <<>>
    BY DEF ExportInv, Progress, HoldsServed, NextLevel
  <2> QED BY <2>1 DEF ExportInv, LevelsAreFull, NextLevel, Length
<1>4. FailsOnlyOnLimits'
  BY DEF FailsOnlyOnLimits, NextLevel, LeavesCut, Cutting
<1> QED BY <1>1, <1>2, <1>3, <1>4 DEF ExportInv

LEMMA PanicKeeps ==
  ASSUME ExportInv, PanicOnEmpty
  PROVE  ExportInv'
<1>1. Length = 0
  <2>1. ~(offset > 0) /\ offset \in Nat /\ Length \in Nat /\ offset >= Length
    BY Listed DEF ExportInv, Progress, LevelsAreFull, PanicOnEmpty, LeavesCut, Cutting
  <2> QED BY <2>1
<1>2. FailsOnlyOnLimits'
  BY <1>1 DEF FailsOnlyOnLimits, PanicOnEmpty, Length
<1> QED BY <1>2 DEF ExportInv, Progress, HoldsServed, LevelsAreFull, PanicOnEmpty,
                    Length, Served

LEMMA EndExportKeeps ==
  ASSUME ExportInv, EndExport
  PROVE  ExportInv'
<1> DEFINE node == BigDirectory(entries)
           names == [k \in DOMAIN entries |-> entries[k].hash]
<1>1. Store(node) /\ outcome' = IF Storable(node) THEN "root" ELSE "refused"
  BY DEF EndExport
<1>2. names \in Seq(Served) /\ Len(entries) \in Nat
  <2>1. entries \in Seq([file : 1..(at - 1), hash : Served])
    BY DEF ExportInv, HoldsServed
  <2>2. /\ DOMAIN entries = 1..Len(entries) /\ Len(entries) \in Nat
        /\ \A k \in DOMAIN entries : entries[k] \in [file : 1..(at - 1), hash : Served]
    BY <2>1, SeqElements, Zenon
  <2>3. \A k \in DOMAIN entries : entries[k].hash \in Served
    BY <2>2
  <2>4. names = [k \in 1..Len(entries) |-> entries[k].hash]
    BY <2>2
  <2> QED BY <2>2, <2>3, <2>4
<1>3. node.kids \in Seq(storage) /\ node.size = 2 + EntrySize * Len(entries)
  <2>1. node.kids = FlattenSeq(names) /\ node.size = 2 + EntrySize * Len(entries)
    BY DEF BigDirectory
  <2> QED BY <1>2, <2>1, KidsServed
<1>4. Storable(node) \/ Len(entries) > (MaxData - 2) \div EntrySize
  <2>1. MaxData \in Nat /\ EntrySize \in Nat \ {0}
    BY StoreAssumption
  <2>2. node.size > 0
    BY <1>2, <1>3, <2>1
  <2>3. Storable(node) \/ ~(2 + EntrySize * Len(entries) <= MaxData)
    BY <1>3, <2>2 DEF Storable
  <2> QED BY <1>2, <2>1, <2>3, TooMany
<1> HIDE DEF node
<1>5. /\ storage \subseteq storage'
      /\ \A n \in storage' : n.kids \in Seq(storage')
  BY <1>1, <1>3, StoringNode DEF ExportInv, HoldsServed
<1>6. Progress'
  BY <1>1 DEF ExportInv, Progress, EndExport
<1>7. HoldsServed'
  <2>1. hashes' \in Seq(Served') /\ nextLevel' \in Seq(Served')
    BY <1>5, ServedGrows DEF ExportInv, HoldsServed, EndExport
  <2>2. entries' \in Seq([file : 1..(at' - 1), hash : Served'])
    <3>1. [file : 1..(at - 1), hash : Served] \subseteq [file : 1..(at - 1), hash : Served']
      BY <1>5, ServedGrows
    <3>2. entries \in Seq([file : 1..(at - 1), hash : Served'])
      BY <3>1, SeqGrows DEF ExportInv, HoldsServed
    <3> QED BY <3>2 DEF EndExport
  <2> QED BY <1>5, <2>1, <2>2 DEF HoldsServed
<1>8. LevelsAreFull'
  BY DEF ExportInv, LevelsAreFull, EndExport, Length
<1>9. FailsOnlyOnLimits'
  <2>1. \A k \in DOMAIN listing : listing[k] # 0
    <3>1. DOMAIN listing = 1..(at - 1)
      BY Listed DEF ExportInv, EndExport, Progress
    <3> QED BY <3>1 DEF ExportInv, LevelsAreFull
  <2>2. CASE Storable(node)
    BY <1>1, <2>1, <2>2 DEF FailsOnlyOnLimits, EndExport
  <2>3. CASE ~Storable(node)
    BY <1>1, <1>4, <2>3 DEF FailsOnlyOnLimits, EndExport
  <2> QED BY <2>2, <2>3
<1> QED BY <1>6, <1>7, <1>8, <1>9 DEF ExportInv
-----------------------------------------------------------------------------
(* What the loops of an export hold is an inductive invariant.             *)
THEOREM ExportInvariant == Spec => []ExportInv
<1>1. Init => ExportInv
  BY InvInit
<1>2. ExportInv /\ [Next]_vars => ExportInv'
  <2> SUFFICES ASSUME ExportInv, [Next]_vars PROVE ExportInv'
    OBVIOUS
  <2>1. CASE UNCHANGED vars
    BY <2>1 DEF vars, ExportInv, Progress, HoldsServed, LevelsAreFull,
                FailsOnlyOnLimits, Served, Length
  <2>2. CASE Stopped
    BY <2>2 DEF Stopped, vars, ExportInv, Progress, HoldsServed, LevelsAreFull,
                FailsOnlyOnLimits, Served, Length
  <2>3. CASE SkipFile
    BY <2>3, SkipFileKeeps
  <2>4. CASE CutFragment
    BY <2>4, CutFragmentKeeps
  <2>5. CASE GroupHashes
    BY <2>5, GroupHashesKeeps
  <2>6. CASE NextLevel
    BY <2>6, NextLevelKeeps
  <2>7. CASE EndFile
    BY <2>7, EndFileKeeps
  <2>8. CASE PanicOnEmpty
    BY <2>8, PanicKeeps
  <2>9. CASE EndExport
    BY <2>9, EndExportKeeps
  <2> QED BY <2>1, <2>2, <2>3, <2>4, <2>5, <2>6, <2>7, <2>8, <2>9 DEF Next, Export
<1> QED BY <1>1, <1>2, PTL DEF Spec

(* The types of the variables: a hash is of one node at most.              *)
THEOREM TypeCorrect == Spec => []TypeOK
<1>1. ExportInv => TypeOK
  <2> SUFFICES ASSUME ExportInv PROVE TypeOK
    OBVIOUS
  <2>1. \A h \in Served : Len(h) <= 1
    <3>1. Len(<<>>) <= 1 /\ \A n \in storage : Len(<<n>>) <= 1
      OBVIOUS
    <3> QED BY <3>1 DEF Served
  <2>2. \A s \in {hashes, nextLevel} : \A k \in DOMAIN s : Len(s[k]) <= 1
    BY <2>1 DEF ExportInv, HoldsServed
  <2>3. \A k \in DOMAIN entries :
            entries[k].file \in 1..(at - 1) /\ Len(entries[k].hash) <= 1
    <3>1. entries \in Seq([file : 1..(at - 1), hash : Served])
      BY DEF ExportInv, HoldsServed
    <3>2. \A k \in DOMAIN entries : entries[k] \in [file : 1..(at - 1), hash : Served]
      BY <3>1, SeqElements, Zenon
    <3> QED BY <2>1, <3>2
  <2> QED BY <2>2, <2>3 DEF ExportInv, Progress, TypeOK
<1> QED BY <1>1, ExportInvariant, PTL

(* Every inner node that a peer can be asked for names only nodes that it  *)
(* can be asked for: Store (treeMerkle.go) may refuse a fragment, but the  *)
(* loop of file.go never leaves its hash in a node.                        *)
THEOREM TheStoreIsClosed == Spec => []NodesAreClosed
<1>1. ExportInv => NodesAreClosed
  BY DEF ExportInv, HoldsServed, NodesAreClosed
<1> QED BY <1>1, ExportInvariant, PTL

(* For every directory and every size of chunk, node and entry, an export  *)
(* that gives no root met an empty file or has too many entries, and one   *)
(* that gives a root met no empty file.                                    *)
THEOREM OnlyLimitsFail == Spec => []FailsOnlyOnLimits
<1>1. ExportInv => FailsOnlyOnLimits
  BY DEF ExportInv
<1> QED BY <1>1, ExportInvariant, PTL
-----------------------------------------------------------------------------
(* Induction over the naturals and over sequences, for a set in place of a *)
(* predicate.                                                              *)
LEMMA NatInd ==
  ASSUME NEW P, 0 \in P, \A n \in Nat : n \in P => n + 1 \in P
  PROVE  \A n \in Nat : n \in P
<1> DEFINE Bad == {n \in Nat : n \notin P}
<1>1. SUFFICES ASSUME Bad # {} PROVE FALSE
  OBVIOUS
<1>2. PICK m \in Bad : \A t \in Bad : m <= t
  <2>1. Bad \in SUBSET Nat
    OBVIOUS
  <2> HIDE DEF Bad
  <2> QED BY <1>1, <2>1, Least
<1>3. m \in Nat /\ m # 0 /\ m \notin P
  OBVIOUS
<1>4. m - 1 \in Nat /\ (m - 1) + 1 = m /\ ~(m <= m - 1)
  BY <1>3
<1>5. m - 1 \in P
  BY <1>2, <1>4
<1> QED BY <1>3, <1>4, <1>5

LEMMA SeqInd ==
  ASSUME NEW S, NEW P, <<>> \in P,
         \A s \in Seq(S) : \A e \in S : s \in P => Append(s, e) \in P
  PROVE  \A s \in Seq(S) : s \in P
<1> DEFINE Good == {n \in Nat : \A s \in Seq(S) : Len(s) = n => s \in P}
<1>1. 0 \in Good
  <2>1. \A s \in Seq(S) : Len(s) = 0 => s = <<>>
    OBVIOUS
  <2> QED BY <2>1
<1>2. \A n \in Nat : n \in Good => n + 1 \in Good
  <2> SUFFICES ASSUME NEW n \in Nat, n \in Good, NEW s \in Seq(S), Len(s) = n + 1
               PROVE  s \in P
    OBVIOUS
  <2> DEFINE t == SubSeq(s, 1, n)
  <2>1. t \in Seq(S) /\ Len(t) = n /\ s[n + 1] \in S
    OBVIOUS
  <2>2. s = Append(t, s[n + 1])
    <3>1. \A i \in 1..(n + 1) : s[i] = Append(t, s[n + 1])[i]
      OBVIOUS
    <3>2. Append(t, s[n + 1]) \in Seq(S) /\ Len(Append(t, s[n + 1])) = n + 1
      BY <2>1
    <3> HIDE DEF t
    <3> QED BY <3>1, <3>2, SeqEqual
  <2>3. t \in P
    BY <2>1
  <2> HIDE DEF t
  <2> QED BY <2>1, <2>2, <2>3
<1> HIDE DEF Good
<1>3. \A n \in Nat : n \in Good
  BY <1>1, <1>2, NatInd
<1> QED BY <1>3 DEF Good
-----------------------------------------------------------------------------
(* FlattenSeq of nothing, of one sequence, of one more.                    *)
LEMMA FlattensFrom ==
  ASSUME NEW s, Len(s) \in Nat \ {0}
  PROVE  \E f : Flattens(f, s, Len(s)) /\ FlattenSeq(s) = f[Len(s)]
<1>1. FlattenSeq(s) = (CHOOSE f : Flattens(f, s, Len(s)))[Len(s)]
  <2>1. Len(s) # 0
    OBVIOUS
  <2> QED BY <2>1, Zenon DEF FlattenSeq, Flattens
<1>2. \E f : Flattens(f, s, Len(s))
  BY FlattensExists
<1> QED BY <1>1, <1>2, Zenon

LEMMA FlattensAgree ==
  ASSUME NEW s, NEW t, NEW f, NEW g, NEW n \in Nat, NEW m \in Nat, n <= m,
         Flattens(f, s, n), Flattens(g, t, m), \A i \in 1..n : s[i] = t[i]
  PROVE  \A i \in 1..n : f[i] = g[i]
<1> DEFINE Same == {i \in Nat : i \in 1..n => f[i] = g[i]}
<1>1. \A i \in 1..n : f[i] = IF i = 1 THEN s[i] ELSE f[i-1] \o s[i]
  BY DEF Flattens
<1>2. \A i \in 1..n : g[i] = IF i = 1 THEN t[i] ELSE g[i-1] \o t[i]
  <2>1. \A i \in 1..n : i \in 1..m
    OBVIOUS
  <2> QED BY <2>1 DEF Flattens
<1>3. 0 \in Same
  OBVIOUS
<1>4. \A i \in Nat : i \in Same => i + 1 \in Same
  <2> SUFFICES ASSUME NEW i \in Nat, i \in 1..n => f[i] = g[i], i + 1 \in 1..n
               PROVE  f[i + 1] = g[i + 1]
    OBVIOUS
  <2>1. s[i + 1] = t[i + 1] /\ (i + 1) - 1 = i /\ (i + 1 # 1 => i \in 1..n)
    OBVIOUS
  <2>2. f[i + 1] = IF i + 1 = 1 THEN s[i + 1] ELSE f[i] \o s[i + 1]
    BY <1>1, <2>1
  <2>3. g[i + 1] = IF i + 1 = 1 THEN t[i + 1] ELSE g[i] \o t[i + 1]
    BY <1>2, <2>1
  <2> QED BY <2>1, <2>2, <2>3
<1> HIDE DEF Same
<1>5. \A i \in Nat : i \in Same
  BY <1>3, <1>4, NatInd
<1> QED BY <1>5 DEF Same

LEMMA FlattenEmpty == FlattenSeq(<<>>) = <<>>
  BY DEF FlattenSeq

LEMMA FlattenAppend ==
  ASSUME NEW T, NEW s \in Seq(Seq(T)), NEW x \in Seq(T)
  PROVE  FlattenSeq(Append(s, x)) = FlattenSeq(s) \o x
<1> DEFINE t == Append(s, x)
           n == Len(s)
<1>1. /\ n \in Nat /\ Len(t) = n + 1 /\ t[n + 1] = x
      /\ \A i \in 1..n : t[i] = s[i]
  OBVIOUS
<1> HIDE DEF t
<1>2. PICK g : Flattens(g, t, n + 1) /\ FlattenSeq(t) = g[n + 1]
  BY <1>1, FlattensFrom
<1>3. g[n + 1] = IF n + 1 = 1 THEN x ELSE g[n] \o x
  <2>1. n + 1 \in 1..(n + 1) /\ (n + 1) - 1 = n
    BY <1>1
  <2> QED BY <1>1, <1>2, <2>1 DEF Flattens
<1>4. CASE n = 0
  <2>1. s = <<>>
    BY <1>4
  <2>2. <<>> \o x = x
    OBVIOUS
  <2> QED BY <1>2, <1>3, <1>4, <2>1, <2>2, FlattenEmpty DEF t
<1>5. CASE n # 0
  <2>1. PICK f : Flattens(f, s, n) /\ FlattenSeq(s) = f[n]
    BY <1>1, <1>5, FlattensFrom
  <2>2. f[n] = g[n]
    <3>1. \A i \in 1..n : s[i] = t[i]
      BY <1>1
    <3>2. n <= n + 1 /\ n \in 1..n /\ n + 1 \in Nat /\ n \in Nat
      BY <1>1, <1>5
    <3> HIDE DEF n
    <3>3. Flattens(f, s, n) /\ Flattens(g, t, n + 1)
      BY <1>2, <2>1
    <3>4. \A i \in 1..n : f[i] = g[i]
      BY <3>1, <3>2, <3>3, FlattensAgree
    <3> QED BY <3>2, <3>4
  <2> QED BY <1>1, <1>2, <1>3, <1>5, <2>1, <2>2 DEF t
<1> QED BY <1>4, <1>5

LEMMA FlattenOne ==
  ASSUME NEW T, NEW x \in Seq(T)
  PROVE  FlattenSeq(<<x>>) = x
<1>1. <<x>> = Append(<<>>, x) /\ <<>> \in Seq(Seq(T)) /\ <<>> \o x = x
  OBVIOUS
<1> QED BY <1>1, FlattenAppend, FlattenEmpty

LEMMA FlattenConcat ==
  ASSUME NEW T, NEW s \in Seq(Seq(T)), NEW t \in Seq(Seq(T))
  PROVE  FlattenSeq(s \o t) = FlattenSeq(s) \o FlattenSeq(t)
<1> DEFINE P == {u \in Seq(Seq(T)) : FlattenSeq(s \o u) = FlattenSeq(s) \o FlattenSeq(u)}
<1>1. <<>> \in P
  <2>1. s \o <<>> = s /\ FlattenSeq(s) \in Seq(T)
    BY FlattenIs, ConcatEmptySeq
  <2>2. FlattenSeq(s) \o <<>> = FlattenSeq(s) /\ <<>> \in Seq(Seq(T))
    BY <2>1, ConcatEmptySeq
  <2> QED BY <2>1, <2>2, FlattenEmpty
<1>2. \A u \in Seq(Seq(T)) : \A x \in Seq(T) : u \in P => Append(u, x) \in P
  <2> SUFFICES ASSUME NEW u \in Seq(Seq(T)), NEW x \in Seq(T), u \in P
               PROVE  Append(u, x) \in P
    OBVIOUS
  <2>1. s \o Append(u, x) = Append(s \o u, x) /\ s \o u \in Seq(Seq(T))
    <3>1. Append(u, x) = u \o <<x>> /\ Append(s \o u, x) = (s \o u) \o <<x>>
      BY AppendIsConcat, ConcatProperties
    <3>2. <<x>> \in Seq(Seq(T))
      OBVIOUS
    <3> QED BY <3>1, <3>2, ConcatAssociative, ConcatProperties
  <2>2. /\ FlattenSeq(s \o Append(u, x)) = FlattenSeq(s \o u) \o x
        /\ FlattenSeq(Append(u, x)) = FlattenSeq(u) \o x
    BY <2>1, FlattenAppend
  <2>3. FlattenSeq(s \o u) = FlattenSeq(s) \o FlattenSeq(u)
    OBVIOUS
  <2>4. (FlattenSeq(s) \o FlattenSeq(u)) \o x = FlattenSeq(s) \o (FlattenSeq(u) \o x)
    BY FlattenIs, ConcatAssociative
  <2>5. FlattenSeq(s \o Append(u, x)) = FlattenSeq(s) \o FlattenSeq(Append(u, x))
    BY <2>2, <2>3, <2>4
  <2>6. Append(u, x) \in Seq(Seq(T))
    OBVIOUS
  <2> QED BY <2>5, <2>6
<1> HIDE DEF P
<1>3. \A u \in Seq(Seq(T)) : u \in P
  BY <1>1, <1>2, SeqInd
<1> QED BY <1>3 DEF P

(* A function applied to the elements of a sequence. *)
Each(R, s) == [k \in DOMAIN s |-> R[s[k]]]

LEMMA EachIs ==
  ASSUME NEW A, NEW B, NEW R \in [A -> B], NEW s \in Seq(A)
  PROVE  Each(R, s) \in Seq(B) /\ Len(Each(R, s)) = Len(s) /\ DOMAIN Each(R, s) = DOMAIN s
BY DEF Each

LEMMA EachConcat ==
  ASSUME NEW A, NEW R, NEW s \in Seq(A), NEW t \in Seq(A)
  PROVE  Each(R, s \o t) = Each(R, s) \o Each(R, t)
<1>0. PICK B : \A a \in A : R[a] \in B
  <2>1. \A a \in A : R[a] \in {R[b] : b \in A}
    OBVIOUS
  <2> QED BY <2>1
<1>1. s \o t \in Seq(A) /\ Len(s \o t) = Len(s) + Len(t)
  OBVIOUS
<1>2. /\ Each(R, s) \in Seq(B) /\ Each(R, t) \in Seq(B) /\ Each(R, s \o t) \in Seq(B)
      /\ Len(Each(R, s)) = Len(s) /\ Len(Each(R, t)) = Len(t)
      /\ Len(Each(R, s \o t)) = Len(s) + Len(t)
  <2>1. \A u \in Seq(A) : Each(R, u) \in Seq(B) /\ Len(Each(R, u)) = Len(u)
    BY <1>0 DEF Each
  <2> QED BY <1>1, <2>1
<1>3. \A i \in 1..(Len(s) + Len(t)) : Each(R, s \o t)[i] = (Each(R, s) \o Each(R, t))[i]
  <2> SUFFICES ASSUME NEW i \in 1..(Len(s) + Len(t))
               PROVE  Each(R, s \o t)[i] = (Each(R, s) \o Each(R, t))[i]
    OBVIOUS
  <2>1. Each(R, s \o t)[i] = R[(s \o t)[i]]
    BY <1>1 DEF Each
  <2>2. CASE i <= Len(s)
    <3>1. (Each(R, s) \o Each(R, t))[i] = Each(R, s)[i] /\ (s \o t)[i] = s[i]
      BY <1>2, <2>2
    <3>2. Each(R, s)[i] = R[s[i]]
      BY <2>2 DEF Each
    <3> QED BY <2>1, <3>1, <3>2
  <2>3. CASE ~(i <= Len(s))
    <3> DEFINE j == i - Len(s)
    <3>0. j \in 1..Len(t)
      BY <2>3
    <3>1. (Each(R, s) \o Each(R, t))[i] = Each(R, t)[j] /\ (s \o t)[i] = t[j]
      BY <1>2, <2>3
    <3>2. Each(R, t)[j] = R[t[j]]
      BY <3>0 DEF Each
    <3> QED BY <2>1, <3>1, <3>2
  <2> QED BY <2>2, <2>3
<1>4. /\ Each(R, s) \o Each(R, t) \in Seq(B)
      /\ Len(Each(R, s) \o Each(R, t)) = Len(s) + Len(t)
  <2> DEFINE u == Each(R, s)
             v == Each(R, t)
  <2>1. u \in Seq(B) /\ v \in Seq(B) /\ Len(u) = Len(s) /\ Len(v) = Len(t)
    BY <1>2
  <2> HIDE DEF u, v
  <2>2. u \o v \in Seq(B) /\ Len(u \o v) = Len(u) + Len(v)
    BY <2>1, ConcatProperties
  <2> QED BY <2>1, <2>2 DEF u, v
<1> QED BY <1>2, <1>3, <1>4, SeqEqual

(* What is read below a flattened group is what is read below its members. *)
LEMMA FlattenEach ==
  ASSUME NEW A, NEW T, NEW R \in [A -> Seq(T)], NEW g \in Seq(Seq(A))
  PROVE  FlattenSeq(Each(R, FlattenSeq(g))) =
             FlattenSeq([i \in DOMAIN g |-> FlattenSeq(Each(R, g[i]))])
<1> DEFINE Of(h) == [i \in DOMAIN h |-> FlattenSeq(Each(R, h[i]))]
           P == {h \in Seq(Seq(A)) : FlattenSeq(Each(R, FlattenSeq(h))) = FlattenSeq(Of(h))}
<1>0. \A h \in Seq(Seq(A)) : Of(h) \in Seq(Seq(T))
  <2> SUFFICES ASSUME NEW h \in Seq(Seq(A)) PROVE Of(h) \in Seq(Seq(T))
    OBVIOUS
  <2>1. \A i \in DOMAIN h : FlattenSeq(Each(R, h[i])) \in Seq(T)
    <3> SUFFICES ASSUME NEW i \in DOMAIN h PROVE FlattenSeq(Each(R, h[i])) \in Seq(T)
      OBVIOUS
    <3>1. h[i] \in Seq(A)
      BY SeqElements
    <3> QED BY <3>1, EachIs, FlattenIs
  <2> DEFINE e == [i \in 1..Len(h) |-> FlattenSeq(Each(R, h[i]))]
  <2>2. DOMAIN h = 1..Len(h) /\ Len(h) \in Nat /\ Of(h) = e
    BY SeqElements
  <2>3. \A i \in 1..Len(h) : e[i] \in Seq(T)
    BY <2>1, <2>2
  <2>4. e \in Seq(Seq(T))
    BY <2>2, <2>3
  <2> QED BY <2>2, <2>4
<1>1. <<>> \in P
  <2>1. Each(R, <<>>) = <<>> /\ Of(<<>>) = <<>>
    BY DEF Each
  <2> QED BY <2>1, FlattenEmpty
<1>2. \A h \in Seq(Seq(A)) : \A x \in Seq(A) : h \in P => Append(h, x) \in P
  <2> SUFFICES ASSUME NEW h \in Seq(Seq(A)), NEW x \in Seq(A), h \in P
               PROVE  Append(h, x) \in P
    OBVIOUS
  <2>1. FlattenSeq(Append(h, x)) = FlattenSeq(h) \o x /\ FlattenSeq(h) \in Seq(A)
    BY FlattenAppend, FlattenIs
  <2>2. Each(R, FlattenSeq(h) \o x) = Each(R, FlattenSeq(h)) \o Each(R, x)
    <3> DEFINE u == FlattenSeq(h)
    <3>1. u \in Seq(A)
      BY <2>1
    <3> HIDE DEF u
    <3>2. Each(R, u \o x) = Each(R, u) \o Each(R, x)
      BY <3>1, EachConcat
    <3> QED BY <3>2 DEF u
  <2>3. /\ Each(R, FlattenSeq(h)) \in Seq(Seq(T)) /\ Each(R, x) \in Seq(Seq(T))
        /\ FlattenSeq(Each(R, x)) \in Seq(T)
    BY <2>1, EachIs, FlattenIs
  <2>4. FlattenSeq(Each(R, FlattenSeq(Append(h, x)))) = FlattenSeq(Of(h)) \o FlattenSeq(Each(R, x))
    <3>1. FlattenSeq(Each(R, FlattenSeq(h)) \o Each(R, x)) =
              FlattenSeq(Each(R, FlattenSeq(h))) \o FlattenSeq(Each(R, x))
      BY <2>3, FlattenConcat
    <3>2. FlattenSeq(Each(R, FlattenSeq(h))) = FlattenSeq(Of(h))
      OBVIOUS
    <3> QED BY <2>1, <2>2, <3>1, <3>2
  <2>5. Of(Append(h, x)) = Append(Of(h), FlattenSeq(Each(R, x)))
    <3>1. Append(h, x) \in Seq(Seq(A)) /\ Len(Append(h, x)) = Len(h) + 1 /\ Len(h) \in Nat
      OBVIOUS
    <3>2. Of(h) \in Seq(Seq(T)) /\ Len(Of(h)) = Len(h)
      BY <1>0
    <3>3. Of(Append(h, x)) \in Seq(Seq(T)) /\ Len(Of(Append(h, x))) = Len(h) + 1
      <4>1. \A u \in Seq(Seq(A)) : Len(Of(u)) = Len(u)
        OBVIOUS
      <4> HIDE DEF Of
      <4> QED BY <1>0, <3>1, <4>1
    <3>4. \A i \in 1..(Len(h) + 1) :
              Of(Append(h, x))[i] = Append(Of(h), FlattenSeq(Each(R, x)))[i]
      <4> SUFFICES ASSUME NEW i \in 1..(Len(h) + 1)
                   PROVE  Of(Append(h, x))[i] = Append(Of(h), FlattenSeq(Each(R, x)))[i]
        OBVIOUS
      <4>1. CASE i = Len(h) + 1
        BY <2>3, <3>1, <3>2, <4>1
      <4>2. CASE i # Len(h) + 1
        <5>1. i \in 1..Len(h) /\ Append(h, x)[i] = h[i]
          BY <4>2
        <5> QED BY <3>1, <3>2, <5>1
      <4> QED BY <4>1, <4>2
    <3>5. /\ Append(Of(h), FlattenSeq(Each(R, x))) \in Seq(Seq(T))
          /\ Len(Append(Of(h), FlattenSeq(Each(R, x)))) = Len(h) + 1
      <4> HIDE DEF Of
      <4> QED BY <2>3, <3>2
    <3> HIDE DEF Of
    <3> QED BY <3>3, <3>4, <3>5, SeqEqual
  <2>6. FlattenSeq(Of(Append(h, x))) = FlattenSeq(Of(h)) \o FlattenSeq(Each(R, x))
    <3> HIDE DEF Of
    <3> QED BY <1>0, <2>3, <2>5, FlattenAppend
  <2>7. Append(h, x) \in Seq(Seq(A))
    OBVIOUS
  <2> HIDE DEF Of
  <2> QED BY <2>4, <2>6, <2>7
<1> HIDE DEF P
<1>3. \A h \in Seq(Seq(A)) : h \in P
  BY <1>1, <1>2, SeqInd
<1> QED BY <1>3 DEF P
-----------------------------------------------------------------------------
(* The recursive function of Reads, down to level m. *)
Downs(f, st, m) ==
    f = [i \in 0..m |->
            [n \in st |->
                IF n.type = 0 THEN <<n.frag>>
                ELSE IF i = 0 THEN <<>>
                ELSE FlattenSeq([k \in DOMAIN n.kids |-> f[i - 1][n.kids[k]]])]]

LEMMA DownsExists ==
  ASSUME NEW st
  PROVE  \A m \in Nat : \E f : Downs(f, st, m)
<1> DEFINE P == {m \in Nat : \E f : Downs(f, st, m)}
           At(r, i) == [n \in st |->
                           IF n.type = 0 THEN <<n.frag>>
                           ELSE IF i = 0 THEN <<>>
                           ELSE FlattenSeq([k \in DOMAIN n.kids |-> r[n.kids[k]]])]
<1>1. 0 \in P
  <2> DEFINE f == [i \in 0..0 |-> At(<<>>, 0)]
  <2>1. \A i \in 0..0 : f[i] = At(f[i - 1], i)
    <3> SUFFICES ASSUME NEW i \in 0..0 PROVE f[i] = At(f[i - 1], i)
      OBVIOUS
    <3>1. i = 0
      OBVIOUS
    <3> QED BY <3>1
  <2>2. f = [i \in 0..0 |-> At(f[i - 1], i)]
    <3> HIDE DEF At
    <3> QED BY <2>1
  <2>3. Downs(f, st, 0)
    BY <2>2, Zenon DEF Downs
  <2> HIDE DEF f
  <2> QED BY <2>3
<1>2. \A m \in Nat : m \in P => m + 1 \in P
  <2> SUFFICES ASSUME NEW m \in Nat, m \in P PROVE m + 1 \in P
    OBVIOUS
  <2>1. PICK g : Downs(g, st, m)
    OBVIOUS
  <2> DEFINE f == [i \in 0..(m + 1) |-> IF i <= m THEN g[i] ELSE At(g[m], m + 1)]
  <2>2. \A i \in 0..m : g[i] = At(g[i - 1], i)
    BY <2>1 DEF Downs
  <2>3. \A i \in 0..(m + 1) : f[i] = At(f[i - 1], i)
    <3> SUFFICES ASSUME NEW i \in 0..(m + 1) PROVE f[i] = At(f[i - 1], i)
      OBVIOUS
    <3>1. CASE i = 0
      <4>1. \A x, y : At(x, 0) = At(y, 0)
        OBVIOUS
      <4>2. 0 \in 0..m /\ f[0] = g[0]
        OBVIOUS
      <4>3. g[0] = At(g[0 - 1], 0)
        BY <2>2, <4>2
      <4> HIDE DEF At, f
      <4> QED BY <3>1, <4>1, <4>2, <4>3
    <3>2. CASE i # 0 /\ i <= m
      <4>1. i \in 0..m /\ i - 1 \in 0..(m + 1) /\ i - 1 <= m
        BY <3>2
      <4> HIDE DEF At
      <4> QED BY <2>2, <3>2, <4>1
    <3>3. CASE i = m + 1
      <4>1. i - 1 = m /\ m \in 0..(m + 1) /\ m <= m /\ ~(m + 1 <= m)
        BY <3>3
      <4> HIDE DEF At
      <4> QED BY <3>3, <4>1
    <3>4. i = 0 \/ (i # 0 /\ i <= m) \/ i = m + 1
      OBVIOUS
    <3> QED BY <3>1, <3>2, <3>3, <3>4
  <2>4. f = [i \in 0..(m + 1) |-> At(f[i - 1], i)]
    <3> HIDE DEF At
    <3> QED BY <2>3
  <2>5. Downs(f, st, m + 1)
    BY <2>4, Zenon DEF Downs
  <2> HIDE DEF f
  <2> QED BY <2>5
<1> HIDE DEF P
<1>3. \A m \in Nat : m \in P
  BY <1>1, <1>2, NatInd
<1> QED BY <1>3 DEF P

LEMMA DownsAgree ==
  ASSUME NEW st, NEW f, NEW g, NEW m \in Nat, NEW l \in Nat, m <= l,
         Downs(f, st, m), Downs(g, st, l)
  PROVE  \A i \in 0..m : f[i] = g[i]
<1> DEFINE P == {i \in Nat : i \in 0..m => f[i] = g[i]}
           At(r, i) == [n \in st |->
                           IF n.type = 0 THEN <<n.frag>>
                           ELSE IF i = 0 THEN <<>>
                           ELSE FlattenSeq([k \in DOMAIN n.kids |-> r[n.kids[k]]])]
<1>1. \A i \in 0..m : f[i] = At(f[i - 1], i)
  BY DEF Downs
<1>2. \A i \in 0..m : g[i] = At(g[i - 1], i)
  <2>1. \A i \in 0..l : g[i] = At(g[i - 1], i)
    BY DEF Downs
  <2>2. \A i \in 0..m : i \in 0..l
    OBVIOUS
  <2> HIDE DEF At
  <2> QED BY <2>1, <2>2
<1>3. 0 \in P
  <2>1. \A x, y : At(x, 0) = At(y, 0)
    OBVIOUS
  <2>2. 0 \in 0..m
    OBVIOUS
  <2> HIDE DEF At
  <2> QED BY <1>1, <1>2, <2>1, <2>2
<1>4. \A i \in Nat : i \in P => i + 1 \in P
  <2> SUFFICES ASSUME NEW i \in Nat, i \in P, i + 1 \in 0..m
               PROVE  f[i + 1] = g[i + 1]
    OBVIOUS
  <2>1. i \in 0..m /\ (i + 1) - 1 = i
    OBVIOUS
  <2>2. f[i] = g[i]
    BY <2>1
  <2> HIDE DEF At, P
  <2> QED BY <1>1, <1>2, <2>1, <2>2
<1> HIDE DEF P
<1>5. \A i \in Nat : i \in P
  BY <1>3, <1>4, NatInd
<1> QED BY <1>5 DEF P

(* What is read of a node, from what is read one level below it. *)
LEMMA ReadsStep ==
  ASSUME NEW st, NEW d \in Nat
  PROVE  Reads(st, d) =
             [n \in st |-> IF n.type = 0 THEN <<n.frag>>
                           ELSE IF d = 0 THEN <<>>
                           ELSE FlattenSeq(Each(Reads(st, d - 1), n.kids))]
<1>1. \A m \in Nat : \E f : Downs(f, st, m) /\ Reads(st, m) = f[m]
  <2> SUFFICES ASSUME NEW m \in Nat PROVE \E f : Downs(f, st, m) /\ Reads(st, m) = f[m]
    OBVIOUS
  <2>1. Reads(st, m) = (CHOOSE f : Downs(f, st, m))[m]
    BY Zenon DEF Reads, Downs
  <2>2. \E f : Downs(f, st, m)
    BY DownsExists
  <2> QED BY <2>1, <2>2, Zenon
<1>2. PICK f : Downs(f, st, d) /\ Reads(st, d) = f[d]
  BY <1>1
<1>3. d \in 0..d
  OBVIOUS
<1>4. f[d] = [n \in st |-> IF n.type = 0 THEN <<n.frag>>
                           ELSE IF d = 0 THEN <<>>
                           ELSE FlattenSeq([k \in DOMAIN n.kids |-> f[d - 1][n.kids[k]]])]
  BY <1>2, <1>3 DEF Downs
<1>5. CASE d = 0
  BY <1>2, <1>4, <1>5
<1>6. CASE d # 0
  <2>1. d - 1 \in Nat /\ d - 1 <= d /\ d - 1 \in 0..(d - 1)
    BY <1>6
  <2>2. PICK g : Downs(g, st, d - 1) /\ Reads(st, d - 1) = g[d - 1]
    BY <1>1, <2>1
  <2>3. g[d - 1] = f[d - 1]
    BY <1>2, <2>1, <2>2, DownsAgree
  <2> QED BY <1>2, <1>4, <1>6, <2>2, <2>3 DEF Each
<1> QED BY <1>5, <1>6

(* A store whose nodes name its nodes, and fragments in T. *)
GoodStore(st, T) ==
    \A n \in st : n.kids \in Seq(st) /\ (n.type = 0 => n.frag \in T)

LEMMA ReadsIs ==
  ASSUME NEW st, NEW T, GoodStore(st, T)
  PROVE  \A d \in Nat : Reads(st, d) \in [st -> Seq(T)]
<1> DEFINE P == {d \in Nat : Reads(st, d) \in [st -> Seq(T)]}
<1>0. <<>> \in Seq(T) /\ \A n \in st : n.type = 0 => <<n.frag>> \in Seq(T)
  BY DEF GoodStore
<1>1. 0 \in P
  <2>1. Reads(st, 0) = [n \in st |-> IF n.type = 0 THEN <<n.frag>> ELSE <<>>]
    BY ReadsStep
  <2> QED BY <1>0, <2>1
<1>2. \A d \in Nat : d \in P => d + 1 \in P
  <2> SUFFICES ASSUME NEW d \in Nat, d \in P PROVE d + 1 \in P
    OBVIOUS
  <2> DEFINE r == Reads(st, d)
  <2>1. r \in [st -> Seq(T)]
    OBVIOUS
  <2>2. Reads(st, d + 1) = [n \in st |-> IF n.type = 0 THEN <<n.frag>>
                                         ELSE FlattenSeq(Each(r, n.kids))]
    <3>1. d + 1 \in Nat /\ (d + 1) - 1 = d /\ d + 1 # 0
      OBVIOUS
    <3> QED BY <3>1, ReadsStep
  <2> HIDE DEF r
  <2>3. \A n \in st : FlattenSeq(Each(r, n.kids)) \in Seq(T)
    <3> SUFFICES ASSUME NEW n \in st PROVE FlattenSeq(Each(r, n.kids)) \in Seq(T)
      OBVIOUS
    <3>1. n.kids \in Seq(st)
      BY DEF GoodStore
    <3>2. Each(r, n.kids) \in Seq(Seq(T))
      BY <2>1, <3>1, EachIs
    <3> QED BY <3>2, FlattenIs
  <2>4. Reads(st, d + 1) \in [st -> Seq(T)]
    BY <1>0, <2>2, <2>3
  <2> QED BY <2>4
<1> HIDE DEF P
<1>3. \A d \in Nat : d \in P
  BY <1>1, <1>2, NatInd
<1> QED BY <1>3 DEF P

(* A store that grows is read as before where it was. *)
LEMMA ReadsGrow ==
  ASSUME NEW st, NEW gr, st \subseteq gr, \A n \in st : n.kids \in Seq(st)
  PROVE  \A d \in Nat : \A n \in st : Reads(gr, d)[n] = Reads(st, d)[n]
<1> DEFINE P == {d \in Nat : \A n \in st : Reads(gr, d)[n] = Reads(st, d)[n]}
<1>1. 0 \in P
  BY ReadsStep
<1>2. \A d \in Nat : d \in P => d + 1 \in P
  <2> SUFFICES ASSUME NEW d \in Nat, d \in P, NEW n \in st
               PROVE  Reads(gr, d + 1)[n] = Reads(st, d + 1)[n]
    OBVIOUS
  <2> DEFINE r == Reads(st, d)
             q == Reads(gr, d)
  <2>1. \A x \in st : q[x] = r[x]
    OBVIOUS
  <2>2. d + 1 \in Nat /\ (d + 1) - 1 = d /\ d + 1 # 0
    OBVIOUS
  <2>3. /\ Reads(st, d + 1)[n] = IF n.type = 0 THEN <<n.frag>> ELSE FlattenSeq(Each(r, n.kids))
        /\ Reads(gr, d + 1)[n] = IF n.type = 0 THEN <<n.frag>> ELSE FlattenSeq(Each(q, n.kids))
    BY <2>2, ReadsStep
  <2> HIDE DEF r, q
  <2>4. Each(r, n.kids) = Each(q, n.kids)
    <3>1. \A k \in DOMAIN n.kids : n.kids[k] \in st
      OBVIOUS
    <3> QED BY <2>1, <3>1 DEF Each
  <2> QED BY <2>3, <2>4
<1> HIDE DEF P
<1>3. \A d \in Nat : d \in P
  BY <1>1, <1>2, NatInd
<1> QED BY <1>3 DEF P

(* What is read below a hash, and below the hashes of a level. *)
HashesIn(st) == {<<>>} \cup {<<n>> : n \in st}
ReadOf(st, h, d) == IF h = <<>> THEN <<>> ELSE Reads(st, d)[h[1]]
Whole(st, hs, d) == FlattenSeq([k \in DOMAIN hs |-> ReadOf(st, hs[k], d)])

LEMMA ReadOfIs ==
  ASSUME NEW st, NEW T, GoodStore(st, T), NEW h \in HashesIn(st), NEW d \in Nat
  PROVE  /\ ReadOf(st, h, d) \in Seq(T)
         /\ ReadOf(st, h, d) = FlattenSeq(Each(Reads(st, d), h))
<1>1. Reads(st, d) \in [st -> Seq(T)]
  BY ReadsIs
<1>2. CASE h = <<>>
  <2>1. Each(Reads(st, d), <<>>) = <<>>
    BY DEF Each
  <2> QED BY <1>2, <2>1, FlattenEmpty DEF ReadOf
<1>3. CASE h # <<>>
  <2>1. PICK n \in st : h = <<n>>
    BY <1>3 DEF HashesIn
  <2>2. ReadOf(st, h, d) = Reads(st, d)[n]
    BY <1>3, <2>1 DEF ReadOf
  <2>3. Each(Reads(st, d), h) = <<Reads(st, d)[n]>>
    BY <2>1 DEF Each
  <2> QED BY <1>1, <2>2, <2>3, FlattenOne
<1> QED BY <1>2, <1>3

LEMMA ReadOfGrows ==
  ASSUME NEW st, NEW gr, st \subseteq gr, \A n \in st : n.kids \in Seq(st),
         NEW h \in HashesIn(st), NEW d \in Nat
  PROVE  ReadOf(gr, h, d) = ReadOf(st, h, d)
<1>1. CASE h = <<>>
  BY <1>1 DEF ReadOf
<1>2. CASE h # <<>>
  <2>1. PICK n \in st : h = <<n>>
    BY <1>2 DEF HashesIn
  <2> QED BY <2>1, ReadsGrow DEF ReadOf
<1> QED BY <1>1, <1>2

LEMMA WholeParts ==
  ASSUME NEW st, NEW T, GoodStore(st, T), NEW hs \in Seq(HashesIn(st)), NEW d \in Nat
  PROVE  /\ [k \in DOMAIN hs |-> ReadOf(st, hs[k], d)] \in Seq(Seq(T))
         /\ Whole(st, hs, d) \in Seq(T)
<1> DEFINE e == [k \in 1..Len(hs) |-> ReadOf(st, hs[k], d)]
<1>1. DOMAIN hs = 1..Len(hs) /\ Len(hs) \in Nat
  OBVIOUS
<1>2. \A k \in 1..Len(hs) : e[k] \in Seq(T)
  <2> SUFFICES ASSUME NEW k \in 1..Len(hs) PROVE e[k] \in Seq(T)
    OBVIOUS
  <2>1. hs[k] \in HashesIn(st)
    OBVIOUS
  <2> QED BY <2>1, ReadOfIs
<1>3. e \in Seq(Seq(T))
  BY <1>1, <1>2
<1>4. e = [k \in DOMAIN hs |-> ReadOf(st, hs[k], d)]
  BY <1>1
<1> HIDE DEF e
<1> QED BY <1>3, <1>4, FlattenIs DEF Whole

LEMMA WholeGrows ==
  ASSUME NEW st, NEW gr, st \subseteq gr, \A n \in st : n.kids \in Seq(st),
         NEW hs \in Seq(HashesIn(st)), NEW d \in Nat
  PROVE  Whole(gr, hs, d) = Whole(st, hs, d)
<1>1. \A k \in DOMAIN hs : hs[k] \in HashesIn(st)
  OBVIOUS
<1>2. [k \in DOMAIN hs |-> ReadOf(gr, hs[k], d)] = [k \in DOMAIN hs |-> ReadOf(st, hs[k], d)]
  BY <1>1, ReadOfGrows
<1> QED BY <1>2 DEF Whole

LEMMA WholeEmpty ==
  ASSUME NEW st, NEW d
  PROVE  Whole(st, <<>>, d) = <<>>
<1>1. [k \in DOMAIN <<>> |-> ReadOf(st, <<>>[k], d)] = <<>>
  OBVIOUS
<1> QED BY <1>1, FlattenEmpty DEF Whole

LEMMA WholeAppend ==
  ASSUME NEW st, NEW T, GoodStore(st, T), NEW hs \in Seq(HashesIn(st)),
         NEW h \in HashesIn(st), NEW d \in Nat
  PROVE  Whole(st, Append(hs, h), d) = Whole(st, hs, d) \o ReadOf(st, h, d)
<1> DEFINE Of(gs) == [k \in DOMAIN gs |-> ReadOf(st, gs[k], d)]
<1>1. /\ Append(hs, h) \in Seq(HashesIn(st))
      /\ Len(hs) \in Nat /\ Len(Append(hs, h)) = Len(hs) + 1
  OBVIOUS
<1>2. ReadOf(st, h, d) \in Seq(T)
  BY ReadOfIs
<1>3. \A gs \in Seq(HashesIn(st)) : Of(gs) \in Seq(Seq(T)) /\ Len(Of(gs)) = Len(gs)
  <2>1. \A gs \in Seq(HashesIn(st)) : Len(Of(gs)) = Len(gs)
    OBVIOUS
  <2> QED BY <2>1, WholeParts
<1>4. Of(Append(hs, h)) = Append(Of(hs), ReadOf(st, h, d))
  <2>1. \A i \in 1..(Len(hs) + 1) : Of(Append(hs, h))[i] = Append(Of(hs), ReadOf(st, h, d))[i]
    <3> SUFFICES ASSUME NEW i \in 1..(Len(hs) + 1)
                 PROVE  Of(Append(hs, h))[i] = Append(Of(hs), ReadOf(st, h, d))[i]
      OBVIOUS
    <3>1. Of(hs) \in Seq(Seq(T)) /\ Len(Of(hs)) = Len(hs)
      BY <1>3
    <3>2. i \in DOMAIN Append(hs, h)
      BY <1>1
    <3>3. CASE i = Len(hs) + 1
      <4>1. Append(hs, h)[i] = h
        BY <3>3
      <4>2. Append(Of(hs), ReadOf(st, h, d))[i] = ReadOf(st, h, d)
        <5> HIDE DEF Of
        <5> QED BY <1>2, <3>1, <3>3, AppendProperties
      <4> QED BY <3>2, <4>1, <4>2
    <3>4. CASE i # Len(hs) + 1
      <4>1. i \in 1..Len(hs) /\ i \in DOMAIN hs /\ Append(hs, h)[i] = hs[i]
        BY <3>4
      <4>2. Append(Of(hs), ReadOf(st, h, d))[i] = Of(hs)[i]
        <5> HIDE DEF Of
        <5> QED BY <1>2, <3>1, <4>1, AppendProperties
      <4> QED BY <3>2, <4>1, <4>2
    <3> QED BY <3>3, <3>4
  <2> HIDE DEF Of
  <2>2. /\ Append(Of(hs), ReadOf(st, h, d)) \in Seq(Seq(T))
        /\ Len(Append(Of(hs), ReadOf(st, h, d))) = Len(hs) + 1
    BY <1>2, <1>3, AppendProperties
  <2>3. /\ Of(Append(hs, h)) \in Seq(Seq(T))
        /\ Len(Of(Append(hs, h))) = Len(hs) + 1
    BY <1>1, <1>3
  <2> DEFINE u == Of(Append(hs, h))
             v == Append(Of(hs), ReadOf(st, h, d))
  <2>4. \A i \in 1..Len(u) : u[i] = v[i]
    BY <2>1, <2>3
  <2>5. u \in Seq(Seq(T)) /\ v \in Seq(Seq(T)) /\ Len(u) = Len(v)
    BY <2>2, <2>3
  <2> HIDE DEF u, v
  <2>6. u = v
    BY <2>4, <2>5, SeqEqual
  <2> QED BY <2>6 DEF u, v
<1>5. FlattenSeq(Append(Of(hs), ReadOf(st, h, d))) = FlattenSeq(Of(hs)) \o ReadOf(st, h, d)
  <2> HIDE DEF Of
  <2> QED BY <1>2, <1>3, FlattenAppend
<1> QED BY <1>4, <1>5 DEF Whole

LEMMA WholeConcat ==
  ASSUME NEW st, NEW T, GoodStore(st, T), NEW d \in Nat,
         NEW hs \in Seq(HashesIn(st)), NEW gs \in Seq(HashesIn(st))
  PROVE  Whole(st, hs \o gs, d) = Whole(st, hs, d) \o Whole(st, gs, d)
<1> DEFINE H == HashesIn(st)
           P == {us \in Seq(H) : Whole(st, hs \o us, d) = Whole(st, hs, d) \o Whole(st, us, d)}
<1>0. \A us \in Seq(H) : Whole(st, us, d) \in Seq(T)
  BY WholeParts
<1>1. <<>> \in P
  <2>1. hs \o <<>> = hs /\ <<>> \in Seq(H)
    OBVIOUS
  <2>2. Whole(st, hs, d) \o <<>> = Whole(st, hs, d)
    BY <1>0, ConcatEmptySeq
  <2> QED BY <2>1, <2>2, WholeEmpty
<1>2. \A us \in Seq(H) : \A x \in H : us \in P => Append(us, x) \in P
  <2> SUFFICES ASSUME NEW us \in Seq(H), NEW x \in H, us \in P PROVE Append(us, x) \in P
    OBVIOUS
  <2>1. hs \o Append(us, x) = Append(hs \o us, x) /\ hs \o us \in Seq(H) /\ Append(us, x) \in Seq(H)
    <3>1. Append(us, x) = us \o <<x>> /\ Append(hs \o us, x) = (hs \o us) \o <<x>>
      BY AppendIsConcat, ConcatProperties
    <3>2. <<x>> \in Seq(H) /\ Append(us, x) \in Seq(H)
      OBVIOUS
    <3> QED BY <3>1, <3>2, ConcatAssociative, ConcatProperties
  <2>2. /\ Whole(st, hs \o Append(us, x), d) = Whole(st, hs \o us, d) \o ReadOf(st, x, d)
        /\ Whole(st, Append(us, x), d) = Whole(st, us, d) \o ReadOf(st, x, d)
    BY <2>1, WholeAppend
  <2>3. Whole(st, hs \o us, d) = Whole(st, hs, d) \o Whole(st, us, d)
    OBVIOUS
  <2>4. ReadOf(st, x, d) \in Seq(T)
    BY ReadOfIs
  <2>5. (Whole(st, hs, d) \o Whole(st, us, d)) \o ReadOf(st, x, d) =
            Whole(st, hs, d) \o (Whole(st, us, d) \o ReadOf(st, x, d))
    BY <1>0, <2>4, ConcatAssociative
  <2>6. Whole(st, hs \o Append(us, x), d) = Whole(st, hs, d) \o Whole(st, Append(us, x), d)
    BY <2>2, <2>3, <2>5
  <2> QED BY <2>1, <2>6
<1> HIDE DEF P
<1>3. \A us \in Seq(H) : us \in P
  <2> HIDE DEF H
  <2> QED BY <1>1, <1>2, SeqInd
<1> QED BY <1>3 DEF P

(* A node is read as the hashes that were grouped in it. *)
LEMMA GroupReads ==
  ASSUME NEW st, NEW T, GoodStore(st, T), NEW part \in Seq(HashesIn(st)), NEW d \in Nat,
         NEW n \in st, n.type # 0, n.kids = FlattenSeq(part)
  PROVE  ReadOf(st, <<n>>, d + 1) = Whole(st, part, d)
<1>1. Reads(st, d) \in [st -> Seq(T)]
  BY ReadsIs
<1>2. Reads(st, d + 1)[n] = FlattenSeq(Each(Reads(st, d), n.kids))
  <2>1. d + 1 \in Nat /\ (d + 1) - 1 = d /\ d + 1 # 0
    OBVIOUS
  <2> QED BY <2>1, ReadsStep
<1>3. part \in Seq(Seq(st))
  <2>1. <<>> \in Seq(st) /\ \A x \in st : <<x>> \in Seq(st)
    OBVIOUS
  <2>2. HashesIn(st) \subseteq Seq(st)
    BY <2>1 DEF HashesIn
  <2> QED BY <2>2, SeqGrows
<1>4. FlattenSeq(Each(Reads(st, d), FlattenSeq(part))) =
          FlattenSeq([i \in DOMAIN part |-> FlattenSeq(Each(Reads(st, d), part[i]))])
  BY <1>1, <1>3, FlattenEach
<1>5. [i \in DOMAIN part |-> FlattenSeq(Each(Reads(st, d), part[i]))] =
          [i \in DOMAIN part |-> ReadOf(st, part[i], d)]
  <2>1. \A i \in DOMAIN part : part[i] \in HashesIn(st)
    OBVIOUS
  <2> QED BY <2>1, ReadOfIs
<1>6. ReadOf(st, <<n>>, d + 1) = Reads(st, d + 1)[n]
  BY DEF ReadOf
<1> QED BY <1>2, <1>4, <1>5, <1>6 DEF Whole

LEMMA LeafReads ==
  ASSUME NEW st, NEW d \in Nat, NEW n \in st, n.type = 0
  PROVE  ReadOf(st, <<n>>, d) = <<n.frag>>
<1>1. Reads(st, d)[n] = <<n.frag>>
  BY ReadsStep
<1> QED BY <1>1 DEF ReadOf

(* A group has as many children as hashes, or fewer. *)
LEMMA FlattenShort ==
  ASSUME NEW st, NEW g \in Seq(HashesIn(st))
  PROVE  Len(FlattenSeq(g)) \in Nat /\ Len(FlattenSeq(g)) <= Len(g)
<1> DEFINE H == HashesIn(st)
           P == {us \in Seq(H) : Len(FlattenSeq(us)) <= Len(us)}
<1>0. \A us \in Seq(H) : us \in Seq(Seq(st)) /\ FlattenSeq(us) \in Seq(st)
  <2>1. <<>> \in Seq(st) /\ \A x \in st : <<x>> \in Seq(st)
    OBVIOUS
  <2>2. HashesIn(st) \subseteq Seq(st)
    BY <2>1 DEF HashesIn
  <2> QED BY <2>2, SeqGrows, FlattenIs
<1>1. <<>> \in P
  BY FlattenEmpty
<1>2. \A us \in Seq(H) : \A x \in H : us \in P => Append(us, x) \in P
  <2> SUFFICES ASSUME NEW us \in Seq(H), NEW x \in H, us \in P PROVE Append(us, x) \in P
    OBVIOUS
  <2>1. x \in Seq(st) /\ Len(x) <= 1
    <3>1. CASE x = <<>>
      BY <3>1
    <3>2. CASE x # <<>>
      <4>1. PICK n \in st : x = <<n>>
        BY <3>2 DEF HashesIn
      <4> QED BY <4>1
    <3> QED BY <3>1, <3>2
  <2>2. FlattenSeq(Append(us, x)) = FlattenSeq(us) \o x
    BY <1>0, <2>1, FlattenAppend
  <2>3. /\ Len(FlattenSeq(us) \o x) = Len(FlattenSeq(us)) + Len(x)
        /\ Len(FlattenSeq(us)) \in Nat /\ Len(x) \in Nat /\ Len(us) \in Nat
    BY <1>0, <2>1
  <2>4. Append(us, x) \in Seq(H) /\ Len(Append(us, x)) = Len(us) + 1
    OBVIOUS
  <2>5. Len(FlattenSeq(us)) <= Len(us)
    OBVIOUS
  <2> QED BY <2>1, <2>2, <2>3, <2>4, <2>5
<1> HIDE DEF P
<1>3. \A us \in Seq(H) : us \in P
  <2> HIDE DEF H
  <2> QED BY <1>1, <1>2, SeqInd
<1> QED BY <1>0, <1>3 DEF P

(* A level of hashes fits into one node: 1 + 31 * 32 bytes of 1024. *)
LevelFits == 1 + HashSize * Fanout <= MaxData

Fragments == Nat \X Int \X Int

(* What the tree of the file must restore, as far as c fragments. *)
KeptUpTo(f, c) == FlattenSeq([j \in 1..c |-> Kept(f, j)])
Grouped == SubSeq(hashes, 1, Smaller(group, Len(hashes)))

(* When c fragments are cut, the hashes of the level restore them, in a    *)
(* tree of fewer levels than c; those of the next level restore what has   *)
(* been grouped, one level higher.                                         *)
LevelReads(c) ==
    /\ offset = ChunkSize * c /\ (c > 0 => ChunkSize * (c - 1) < Length)
    /\ Len(hashes) <= c
    /\ offset < Length => Len(hashes) = c /\ group = 0
    /\ group = Fanout * Len(nextLevel) /\ group < Len(hashes) + Fanout
    /\ \A d \in Nat : d >= c - Len(hashes) =>
           /\ Whole(storage, hashes, d) = KeptUpTo(at, c)
           /\ Whole(storage, nextLevel, d + 1) = Whole(storage, Grouped, d)

LevelsRead ==
    at <= Len(listing) /\ Length # Unreadable => \E c \in Nat : LevelReads(c)

EntriesRead ==
    \A k \in DOMAIN entries :
        LET f == entries[k].file
        IN  /\ listing[f] \in Nat
            /\ ReadOf(storage, entries[k].hash, Count(f)) = KeptUpTo(f, Count(f))

ReadInv == GoodStore(storage, Fragments) /\ LevelsRead /\ EntriesRead
-----------------------------------------------------------------------------
LEMMA NoneKept == \A f : KeptUpTo(f, 0) = <<>>
<1> SUFFICES ASSUME NEW f PROVE KeptUpTo(f, 0) = <<>>
  OBVIOUS
<1>1. [j \in 1..0 |-> Kept(f, j)] = <<>>
  OBVIOUS
<1> QED BY <1>1, FlattenEmpty DEF KeptUpTo

LEMMA CountIs ==
  ASSUME NEW l \in Nat, NEW b \in Nat \ {0}, NEW c \in Nat, c > 0,
         b * c >= l, b * (c - 1) < l
  PROVE  (l + b - 1) \div b = c
<1> DEFINE q == (l + b - 1) \div b
<1>1. q \in Int /\ b * q <= l + b - 1 /\ l + b - 1 < b * q + b
  <2>1. q \in Int
    OBVIOUS
  <2>2. /\ l + b - 1 \in Int /\ (l + b - 1) % b \in 0..(b - 1)
        /\ l + b - 1 = b * q + ((l + b - 1) % b)
    OBVIOUS
  <2> HIDE DEF q
  <2> QED BY <2>1, <2>2
<1> HIDE DEF q
<1>2. b * (c - 1) = b * c - b /\ b * c \in Int /\ b * q \in Int
  BY <1>1
<1>3. CASE q > c
  <2>1. q - c - 1 \in Nat
    BY <1>1, <1>3
  <2>2. b * q = b * c + b + b * (q - c - 1) /\ b * (q - c - 1) >= 0
    BY <1>1, <2>1
  <2> QED BY <1>1, <1>2, <2>1, <2>2
<1>4. CASE q < c
  <2>1. c - q - 1 \in Nat
    BY <1>1, <1>4
  <2>2. b * c = b * q + b + b * (c - q - 1) /\ b * (c - q - 1) >= 0
    BY <1>1, <2>1
  <2> QED BY <1>1, <1>2, <2>1, <2>2
<1> QED BY <1>1, <1>3, <1>4 DEF q

LEMMA CountIsNat ==
  ASSUME NEW f, listing[f] \in Nat
  PROVE  Count(f) \in Nat
<1>1. ChunkSize \in Nat \ {0}
  BY StoreAssumption
<1>2. listing[f] + ChunkSize - 1 \in Nat
  BY <1>1
<1> QED BY <1>1, <1>2 DEF Count

(* A level has fewer hashes than the one it is made of. *)
LEMMA Shorter ==
  ASSUME NEW a \in Nat, NEW l \in Nat, l > 1, NEW n \in Nat,
         a = Fanout * n, a < l + Fanout
  PROVE  n < l
<1>1. Fanout \in Nat /\ Fanout >= 2
  BY StoreAssumption
<1>2. SUFFICES ASSUME n >= l PROVE FALSE
  OBVIOUS
<1>3. n - l \in Nat /\ Fanout * n = Fanout * l + Fanout * (n - l) /\ Fanout * (n - l) >= 0
  BY <1>1, <1>2
<1>4. Fanout - 2 \in Nat /\ l - 1 \in Nat /\ (Fanout - 2) * (l - 1) >= 0
  BY <1>1
<1>5. (Fanout - 2) * (l - 1) = Fanout * l - Fanout - 2 * l + 2
  BY <1>1
<1> QED BY <1>1, <1>3, <1>4, <1>5

LEMMA Typed ==
  ASSUME ExportInv
  PROVE  /\ Served = HashesIn(storage)
         /\ hashes \in Seq(HashesIn(storage)) /\ nextLevel \in Seq(HashesIn(storage))
         /\ Len(hashes) \in Nat /\ Len(nextLevel) \in Nat
         /\ group \in Nat /\ offset \in Nat
         /\ ChunkSize \in Nat \ {0} /\ Fanout \in Nat \ {0, 1}
         /\ at \in Nat /\ at <= Len(listing) + 1 /\ Len(listing) \in Nat
<1>1. Served = HashesIn(storage)
  BY DEF Served, HashesIn
<1>2. hashes \in Seq(HashesIn(storage)) /\ nextLevel \in Seq(HashesIn(storage))
  BY <1>1 DEF ExportInv, HoldsServed
<1>3. Len(listing) \in Nat
  BY Listed DEF ExportInv
<1> QED BY <1>1, <1>2, <1>3, StoreAssumption DEF ExportInv, Progress

(* Nothing is cut, nothing is read. *)
LEMMA FreshReads ==
  ASSUME offset = 0, group = 0, hashes = <<>>, nextLevel = <<>>
  PROVE  LevelReads(0)
<1>1. Grouped = <<>> /\ Len(hashes) = 0 /\ Len(nextLevel) = 0
  BY DEF Grouped, Smaller
<1>2. \A d : Whole(storage, <<>>, d) = <<>>
  BY WholeEmpty
<1>3. ChunkSize * 0 = 0 /\ Fanout * 0 = 0 /\ 0 < 0 + Fanout
  BY StoreAssumption
<1> QED BY <1>1, <1>2, <1>3, NoneKept DEF LevelReads

LEMMA FreshReadsNext ==
  ASSUME NextFile
  PROVE  LevelReads(0)'
<1>0. offset' = 0 /\ group' = 0 /\ hashes' = <<>> /\ nextLevel' = <<>>
  BY DEF NextFile
<1>1. Grouped' = <<>> /\ Len(hashes') = 0 /\ Len(nextLevel') = 0
  BY <1>0 DEF Grouped, Smaller
<1>2. \A d : Whole(storage', <<>>, d) = <<>>
  BY WholeEmpty
<1>3. ChunkSize * 0 = 0 /\ Fanout * 0 = 0 /\ 0 < 0 + Fanout
  BY StoreAssumption
<1>4. KeptUpTo(at, 0)' = <<>>
  <2>1. [j \in 1..0 |-> Kept(at, j)'] = <<>>
    OBVIOUS
  <2> QED BY <2>1, FlattenEmpty DEF KeptUpTo
<1> QED BY <1>0, <1>1, <1>2, <1>3, <1>4 DEF LevelReads

LEMMA ReadInit ==
  ASSUME Init
  PROVE  ReadInv
<1>1. LevelReads(0)
  BY FreshReads DEF Init
<1>2. GoodStore(storage, Fragments) /\ EntriesRead
  BY DEF Init, GoodStore, EntriesRead
<1> QED BY <1>1, <1>2 DEF ReadInv, LevelsRead

LEMMA KeptStays ==
  ASSUME UNCHANGED listing
  PROVE  /\ \A f, c : KeptUpTo(f, c)' = KeptUpTo(f, c)
         /\ \A f : Count(f)' = Count(f)
<1>1. \A f : Count(f)' = Count(f)
  BY DEF Count
<1>2. \A f, j : Kept(f, j)' = Kept(f, j)
  BY DEF Kept, FragmentIn
<1>3. ASSUME NEW f, NEW c PROVE KeptUpTo(f, c)' = KeptUpTo(f, c)
  <2>1. [j \in 1..c |-> Kept(f, j)'] = [j \in 1..c |-> Kept(f, j)]
    BY <1>2
  <2> QED BY <2>1 DEF KeptUpTo
<1> QED BY <1>1, <1>3

(* What the entries name is read as before from a store that has grown.    *)
LEMMA EntriesStay ==
  ASSUME ExportInv, EntriesRead, storage \subseteq storage',
         UNCHANGED <<entries, listing>>
  PROVE  EntriesRead'
<1> SUFFICES ASSUME NEW k \in DOMAIN entries
             PROVE  /\ listing[entries[k].file] \in Nat
                    /\ ReadOf(storage', entries[k].hash, Count(entries[k].file)) =
                           KeptUpTo(entries[k].file, Count(entries[k].file))
  BY DEF EntriesRead, Count, KeptUpTo, Kept, FragmentIn
<1>1. entries[k].hash \in HashesIn(storage)
  <2>1. entries \in Seq([file : 1..(at - 1), hash : Served])
    BY DEF ExportInv, HoldsServed
  <2>2. entries[k] \in [file : 1..(at - 1), hash : Served]
    BY <2>1, SeqElements, Zenon
  <2> QED BY <2>2, Typed
<1>2. listing[entries[k].file] \in Nat
  BY DEF EntriesRead
<1>3. Count(entries[k].file) \in Nat
  BY <1>2, CountIsNat
<1>4. \A n \in storage : n.kids \in Seq(storage)
  BY DEF ExportInv, HoldsServed
<1>5. ReadOf(storage', entries[k].hash, Count(entries[k].file)) =
          ReadOf(storage, entries[k].hash, Count(entries[k].file))
  BY <1>1, <1>3, <1>4, ReadOfGrows
<1> QED BY <1>2, <1>5 DEF EntriesRead

LEMMA SkipFileReads ==
  ASSUME ExportInv, ReadInv, SkipFile
  PROVE  ReadInv'
<1>1. LevelReads(0)'
  BY FreshReadsNext DEF SkipFile
<1>2. EntriesRead' /\ GoodStore(storage', Fragments)
  BY EntriesStay DEF ReadInv, SkipFile
<1> QED BY <1>1, <1>2 DEF ReadInv, LevelsRead

LEMMA EndFileReads ==
  ASSUME ExportInv, ReadInv, EndFile
  PROVE  ReadInv'
<1>1. LevelReads(0)'
  BY FreshReadsNext DEF EndFile
<1>2. GoodStore(storage', Fragments)
  BY DEF ReadInv, EndFile
<1>3. at <= Len(listing) /\ Length # Unreadable /\ offset >= Length /\ Len(hashes) = 1
  BY DEF EndFile, LeavesCut, Cutting
<1>4. PICK c \in Nat : LevelReads(c)
  BY <1>3 DEF ReadInv, LevelsRead
<1>5. Length \in Nat
  BY <1>3, Listed DEF ExportInv, Progress
<1>6. c = Count(at)
  <2>1. /\ c > 0 /\ ChunkSize * (c - 1) < Length /\ ChunkSize * c >= Length
        /\ ChunkSize \in Nat \ {0}
    BY <1>3, <1>4, Typed DEF LevelReads
  <2> QED BY <1>5, <2>1, CountIs DEF Count, Length
<1>7. ReadOf(storage, hashes[1], c) = KeptUpTo(at, c)
  <2>1. Whole(storage, hashes, c) = KeptUpTo(at, c)
    BY <1>3, <1>4 DEF LevelReads
  <2>2. hashes = <<hashes[1]>> /\ hashes[1] \in HashesIn(storage)
    <3> DEFINE H == HashesIn(storage)
    <3>1. hashes \in Seq(H) /\ Len(hashes) = 1
      BY <1>3, Typed
    <3> HIDE DEF H
    <3>2. hashes[1] \in H
      BY <3>1
    <3>3. <<hashes[1]>> \in Seq(H) /\ Len(<<hashes[1]>>) = 1
      BY <3>2
    <3>4. hashes = <<hashes[1]>>
      BY <3>1, <3>3, SeqEqual
    <3> QED BY <3>2, <3>4 DEF H
  <2>3. [k \in DOMAIN hashes |-> ReadOf(storage, hashes[k], c)] = <<ReadOf(storage, hashes[1], c)>>
    BY <2>2
  <2>4. ReadOf(storage, hashes[1], c) \in Seq(Fragments)
    BY <2>2, ReadOfIs DEF ReadInv
  <2>5. Whole(storage, hashes, c) = ReadOf(storage, hashes[1], c)
    BY <2>3, <2>4, FlattenOne DEF Whole
  <2> QED BY <2>1, <2>5
<1>8. EntriesRead'
  <2> DEFINE e == [file |-> at, hash |-> hashes[1]]
  <2>1. entries' = Append(entries, e) /\ UNCHANGED <<listing, storage>>
    BY DEF EndFile
  <2>2. Len(entries) \in Nat /\ DOMAIN entries = 1..Len(entries)
    BY SeqElements DEF ExportInv, HoldsServed
  <2> SUFFICES ASSUME NEW k \in DOMAIN entries'
               PROVE  /\ listing[entries'[k].file] \in Nat
                      /\ ReadOf(storage, entries'[k].hash, Count(entries'[k].file)) =
                             KeptUpTo(entries'[k].file, Count(entries'[k].file))
    <3>1. /\ \A f, j : KeptUpTo(f, j)' = KeptUpTo(f, j)
          /\ \A f : Count(f)' = Count(f)
      BY <2>1, KeptStays
    <3> QED BY <2>1, <3>1 DEF EntriesRead
  <2>3. entries \in Seq([file : 1..(at - 1), hash : Served])
    BY DEF ExportInv, HoldsServed
  <2>4. (k \in DOMAIN entries /\ entries'[k] = entries[k]) \/ entries'[k] = e
    BY <2>1, <2>2, <2>3
  <2>5. CASE k \in DOMAIN entries /\ entries'[k] = entries[k]
    BY <2>5 DEF ReadInv, EntriesRead
  <2>6. CASE entries'[k] = e
    <3>1. entries'[k].file = at /\ entries'[k].hash = hashes[1]
      BY <2>6
    <3> QED BY <1>5, <1>6, <1>7, <3>1 DEF Length
  <2> QED BY <2>4, <2>5, <2>6
<1> QED BY <1>1, <1>2, <1>8 DEF ReadInv, LevelsRead

(* A store that gets a node keeps its fragments typed. *)
LEMMA StoreIsGood ==
  ASSUME ExportInv', GoodStore(storage, Fragments), NEW node, Store(node),
         node.type = 0 => node.frag \in Fragments
  PROVE  GoodStore(storage', Fragments) /\ storage \subseteq storage'
<1>1. storage \subseteq storage' /\ storage' \subseteq storage \cup {node}
  BY DEF Store
<1>2. \A n \in storage' : n.kids \in Seq(storage')
  BY DEF ExportInv, HoldsServed
<1>3. \A n \in storage' : n.type = 0 => n.frag \in Fragments
  BY <1>1 DEF GoodStore
<1> QED BY <1>1, <1>2, <1>3 DEF GoodStore

LEMMA KeptIs ==
  ASSUME NEW f \in Nat, listing[f] \in Nat, NEW j \in Nat \ {0}
  PROVE  Kept(f, j) \in Seq(Fragments)
<1>1. ChunkSize \in Nat
  BY StoreAssumption
<1>2. (j - 1) * ChunkSize \in Int
  BY <1>1
<1>3. FragmentIn(f, j) \in Fragments
  <2> DEFINE o == (j - 1) * ChunkSize
  <2>1. o \in Int
    BY <1>2
  <2> HIDE DEF o
  <2>2. <<f, o, Smaller(o + ChunkSize, listing[f]) - o>> \in Fragments
    BY <1>1, <2>1 DEF Fragments, Smaller
  <2> QED BY <2>2 DEF FragmentIn, o
<1> QED BY <1>3 DEF Kept

LEMMA KeptAppend ==
  ASSUME NEW f \in Nat, listing[f] \in Nat, NEW c \in Nat
  PROVE  /\ KeptUpTo(f, c) \in Seq(Fragments)
         /\ KeptUpTo(f, c + 1) = KeptUpTo(f, c) \o Kept(f, c + 1)
<1> DEFINE a == [j \in 1..c |-> Kept(f, j)]
           b == [j \in 1..(c + 1) |-> Kept(f, j)]
<1>1. \A j \in 1..(c + 1) : Kept(f, j) \in Seq(Fragments)
  BY KeptIs
<1>2. a \in Seq(Seq(Fragments)) /\ b \in Seq(Seq(Fragments)) /\ Len(a) = c /\ Len(b) = c + 1
  <2>1. \A j \in 1..c : Kept(f, j) \in Seq(Fragments)
    BY <1>1
  <2> QED BY <1>1, <2>1
<1>3. \A j \in 1..(c + 1) : b[j] = IF j <= c THEN a[j] ELSE Kept(f, c + 1)
  OBVIOUS
<1>4. Kept(f, c + 1) \in Seq(Fragments)
  BY <1>1
<1> HIDE DEF a, b
<1>5. b = Append(a, Kept(f, c + 1))
  <2> DEFINE t == Append(a, Kept(f, c + 1))
  <2>1. t \in Seq(Seq(Fragments)) /\ Len(t) = c + 1
    BY <1>2, <1>4, AppendProperties
  <2>2. \A j \in 1..(c + 1) : t[j] = IF j <= c THEN a[j] ELSE Kept(f, c + 1)
    BY <1>2, <1>4, AppendProperties
  <2> HIDE DEF t
  <2>3. b = t
    BY <1>2, <1>3, <2>1, <2>2, SeqEqual
  <2> QED BY <2>3 DEF t
<1>6. FlattenSeq(b) = FlattenSeq(a) \o Kept(f, c + 1) /\ FlattenSeq(a) \in Seq(Fragments)
  BY <1>2, <1>4, <1>5, FlattenAppend, FlattenIs
<1> QED BY <1>6 DEF KeptUpTo, a, b

LEMMA CutFragmentReads ==
  ASSUME ExportInv, ExportInv', ReadInv, CutFragment
  PROVE  ReadInv'
<1> DEFINE n == Smaller(offset + ChunkSize, Length) - offset
           node == Fragment(at, offset, n)
           h == HashOf(node)
<1>1. /\ Store(node) /\ hashes' = Append(hashes, h)
      /\ offset' = offset + ChunkSize
      /\ UNCHANGED <<listing, at, group, nextLevel, entries>>
      /\ at <= Len(listing) /\ Length # Unreadable /\ offset < Length
  BY DEF CutFragment, Cutting
<1>2. Length \in Nat
  BY <1>1, Listed DEF ExportInv, Progress
<1>3. PICK c \in Nat : LevelReads(c)
  BY <1>1 DEF ReadInv, LevelsRead
<1>4. /\ offset = ChunkSize * c /\ Len(hashes) = c /\ group = 0
      /\ Len(nextLevel) = 0
  BY <1>1, <1>3, Typed DEF LevelReads
<1>5. n \in Nat /\ n > 0 /\ node.size = 1 + n /\ node.type = 0 /\ node.frag = <<at, offset, n>>
  <2>1. offset \in Nat /\ ChunkSize \in Nat \ {0} /\ offset < Length
    BY <1>1, Typed
  <2> DEFINE e == Smaller(offset + ChunkSize, Length)
  <2>2. e \in Nat /\ e > offset
    BY <1>2, <2>1 DEF Smaller
  <2> HIDE DEF e
  <2>3. e - offset \in Nat /\ e - offset > 0
    BY <2>1, <2>2
  <2>4. n = e - offset
    BY DEF e
  <2> HIDE DEF n
  <2> QED BY <2>3, <2>4 DEF Fragment
<1>6. FragmentIn(at, c + 1) = <<at, offset, n>>
  <2>1. ((c + 1) - 1) * ChunkSize = offset
    BY <1>4, Typed
  <2> QED BY <2>1 DEF FragmentIn, Length
<1> HIDE DEF n, node
<1>7. GoodStore(storage', Fragments) /\ storage \subseteq storage'
  <2>1. node.frag \in Fragments
    BY <1>5, Typed DEF Fragments
  <2> QED BY <1>1, <2>1, StoreIsGood DEF ReadInv
<1>8. h \in HashesIn(storage') /\ \A d \in Nat : ReadOf(storage', h, d) = Kept(at, c + 1)
  <2>1. MaxData \in Nat
    BY StoreAssumption
  <2>2. CASE Storable(node)
    <3>1. h = <<node>> /\ node \in storage'
      BY <1>1, <2>2 DEF HashOf, Store
    <3>2. Kept(at, c + 1) = <<node.frag>>
      BY <1>5, <1>6, <2>1, <2>2 DEF Storable, Kept
    <3> QED BY <1>5, <3>1, <3>2, LeafReads DEF HashesIn
  <2>3. CASE ~Storable(node)
    <3>1. h = <<>>
      BY <2>3 DEF HashOf
    <3>2. Kept(at, c + 1) = <<>>
      BY <1>5, <1>6, <2>1, <2>3 DEF Storable, Kept
    <3> QED BY <3>1, <3>2 DEF HashesIn, ReadOf
  <2> QED BY <2>2, <2>3
<1> HIDE DEF h
<1>9. hashes \in Seq(HashesIn(storage)) /\ hashes \in Seq(HashesIn(storage'))
  <2>1. HashesIn(storage) \subseteq HashesIn(storage')
    BY <1>7 DEF HashesIn
  <2> QED BY <2>1, Typed, SeqGrows
<1>10. \A d \in Nat : Whole(storage', hashes', d) = KeptUpTo(at, c + 1)
  <2> SUFFICES ASSUME NEW d \in Nat PROVE Whole(storage', hashes', d) = KeptUpTo(at, c + 1)
    OBVIOUS
  <2>1. Whole(storage', hashes', d) = Whole(storage', hashes, d) \o ReadOf(storage', h, d)
    BY <1>1, <1>7, <1>8, <1>9, WholeAppend
  <2>2. Whole(storage', hashes, d) = Whole(storage, hashes, d)
    <3>1. \A x \in storage : x.kids \in Seq(storage)
      BY DEF ExportInv, HoldsServed
    <3> QED BY <1>7, <1>9, <3>1, WholeGrows
  <2>3. Whole(storage, hashes, d) = KeptUpTo(at, c)
    <3>1. d >= c - Len(hashes)
      BY <1>4
    <3> QED BY <1>3, <3>1 DEF LevelReads
  <2>4. KeptUpTo(at, c + 1) = KeptUpTo(at, c) \o Kept(at, c + 1)
    <3>1. at \in Nat /\ listing[at] \in Nat /\ c \in Nat
      BY <1>2, Typed DEF Length
    <3> QED BY <3>1, KeptAppend
  <2> QED BY <1>8, <2>1, <2>2, <2>3, <2>4
<1>11. LevelReads(c + 1)'
  <2>1. nextLevel = <<>>
    BY <1>4, Typed
  <2>2. /\ offset' = ChunkSize * (c + 1) /\ c + 1 > 0 /\ ChunkSize * ((c + 1) - 1) < Length'
        /\ Len(hashes') = c + 1
    <3>1. Length' = Length /\ ChunkSize * (c + 1) = ChunkSize * c + ChunkSize /\ (c + 1) - 1 = c
      BY <1>1, Typed DEF Length
    <3>2. Len(hashes') = Len(hashes) + 1
      BY <1>1, <1>8, <1>9
    <3> QED BY <1>1, <1>4, <3>1, <3>2
  <2>3. group' = 0 /\ nextLevel' = <<>> /\ Grouped' = <<>>
    <3>1. group' = 0 /\ nextLevel' = <<>>
      BY <1>1, <1>4, <2>1
    <3>2. Smaller(0, Len(hashes')) = 0
      BY <2>2 DEF Smaller
    <3>3. SubSeq(hashes', 1, 0) = <<>>
      BY SubSeqEmpty
    <3> QED BY <3>1, <3>2, <3>3 DEF Grouped
  <2>4. \A d : Whole(storage', <<>>, d) = <<>>
    BY WholeEmpty
  <2>5. Fanout * 0 = 0 /\ Len(<<>>) = 0 /\ 0 < (c + 1) + Fanout
    BY Typed
  <2>6. KeptUpTo(at, c + 1)' = KeptUpTo(at, c + 1)
    BY <1>1, KeptStays
  <2> QED BY <1>10, <2>2, <2>3, <2>4, <2>5, <2>6 DEF LevelReads
<1>12. LevelsRead'
  <2>1. c + 1 \in Nat
    OBVIOUS
  <2> QED BY <1>11, <2>1 DEF LevelsRead
<1> QED BY <1>1, <1>7, <1>12, EntriesStay DEF ReadInv

LEMMA GroupHashesReads ==
  ASSUME LevelFits, ExportInv, ExportInv', ReadInv, GroupHashes
  PROVE  ReadInv'
<1> DEFINE H == HashesIn(storage)
           part == SubSeq(hashes, group + 1, GroupEnd)
           node == BigNode(part)
<1>1. /\ Store(node) /\ nextLevel' = Append(nextLevel, HashOf(node))
      /\ group' = group + Fanout
      /\ UNCHANGED <<listing, at, offset, hashes, entries>>
      /\ at <= Len(listing) /\ Length # Unreadable /\ offset >= Length
      /\ group < Len(hashes)
  BY DEF GroupHashes, LeavesCut, Cutting
<1>2. Length \in Nat
  BY <1>1, Listed DEF ExportInv, Progress
<1>3. PICK c \in Nat : LevelReads(c)
  BY <1>1 DEF ReadInv, LevelsRead
<1>4. /\ GroupEnd \in Nat /\ group < GroupEnd /\ GroupEnd <= Len(hashes)
      /\ GroupEnd - group <= Fanout /\ GroupEnd = Smaller(group', Len(hashes))
  BY <1>1, Typed DEF GroupEnd, Smaller
<1>5. /\ part \in Seq(H) /\ Len(part) \in Nat /\ Len(part) <= Fanout
      /\ Grouped = SubSeq(hashes, 1, group) /\ Grouped \in Seq(H)
      /\ Grouped \o part = SubSeq(hashes, 1, GroupEnd)
  <2>1. hashes \in Seq(H) /\ group \in Nat /\ Len(hashes) \in Nat
    BY Typed
  <2> HIDE DEF H
  <2>2. Grouped = SubSeq(hashes, 1, group)
    BY <1>1, <2>1 DEF Grouped, Smaller
  <2>3. part \in Seq(H) /\ Len(part) = GroupEnd - group
    BY <1>4, <2>1
  <2>4. SubSeq(hashes, 1, group) \in Seq(H)
    BY <1>1, <2>1
  <2>5. SubSeq(hashes, 1, group) \o part = SubSeq(hashes, 1, GroupEnd)
    <3>1. 1 \in 1..(Len(hashes) + 1) /\ group \in (1 - 1)..Len(hashes) /\ GroupEnd \in group..Len(hashes)
      BY <1>1, <1>4, <2>1
    <3> QED BY <2>1, <3>1, ConcatAdjacentSubSeq
  <2> HIDE DEF part
  <2>6. Len(part) \in Nat /\ Len(part) <= Fanout
    <3>1. Fanout \in Nat
      BY StoreAssumption
    <3>2. GroupEnd - group \in Nat
      BY <1>4, <2>1
    <3> QED BY <1>4, <2>3, <3>1, <3>2
  <2>7. Grouped \o part = SubSeq(hashes, 1, GroupEnd)
    BY <2>2, <2>5
  <2>8. Grouped \in Seq(H)
    BY <2>2, <2>4
  <2>9. part \in Seq(H)
    BY <2>3
  <2> QED BY <2>2, <2>6, <2>7, <2>8, <2>9
<1>6. node.type = 2 /\ node.kids = FlattenSeq(part) /\ Storable(node)
  <2> HIDE DEF part
  <2> DEFINE k == Len(FlattenSeq(part))
  <2>1. k \in Nat /\ k <= Fanout
    <3>1. k \in Nat /\ k <= Len(part)
      BY <1>5, FlattenShort
    <3> HIDE DEF k
    <3> QED BY <1>5, <3>1, Typed
  <2>2. node.type = 2 /\ node.kids = FlattenSeq(part) /\ node.size = 1 + HashSize * k
    BY DEF BigNode
  <2>3. HashSize \in Nat /\ Fanout \in Nat /\ MaxData \in Nat
    BY StoreAssumption
  <2> HIDE DEF k, node
  <2>4. Fanout - k \in Nat
    BY <2>1, <2>3
  <2>5. HashSize * Fanout = HashSize * k + HashSize * (Fanout - k) /\ HashSize * (Fanout - k) >= 0
        /\ HashSize * k \in Nat
    BY <2>1, <2>3, <2>4
  <2>6. 1 + HashSize * k <= MaxData
    <3>1. HashSize * Fanout \in Int /\ HashSize * (Fanout - k) \in Int
      BY <2>3, <2>4
    <3> QED BY <2>3, <2>5, <3>1 DEF LevelFits
  <2> QED BY <2>2, <2>5, <2>6 DEF Storable
<1> HIDE DEF node
<1>7. HashOf(node) = <<node>> /\ node \in storage'
  BY <1>1, <1>6 DEF HashOf, Store
<1>8. GoodStore(storage', Fragments) /\ storage \subseteq storage'
  BY <1>1, <1>6, StoreIsGood DEF ReadInv
<1> DEFINE HH == HashesIn(storage')
<1>9. H \subseteq HH /\ <<node>> \in HH
  BY <1>7, <1>8 DEF HashesIn
<1>10. \A x \in storage : x.kids \in Seq(storage)
  BY DEF ExportInv, HoldsServed
<1>11. nextLevel \in Seq(H) /\ nextLevel \in Seq(HH) /\ part \in Seq(HH)
  BY <1>5, <1>9, Typed, SeqGrows
<1>12. \A d \in Nat : d >= c - Len(hashes) =>
           /\ Whole(storage', hashes, d) = KeptUpTo(at, c)
           /\ Whole(storage', nextLevel', d + 1) = Whole(storage', SubSeq(hashes, 1, GroupEnd), d)
  <2> SUFFICES ASSUME NEW d \in Nat, d >= c - Len(hashes)
               PROVE  /\ Whole(storage', hashes, d) = KeptUpTo(at, c)
                      /\ Whole(storage', nextLevel', d + 1) =
                             Whole(storage', SubSeq(hashes, 1, GroupEnd), d)
    OBVIOUS
  <2>1. \A us \in Seq(H) : \A e \in Nat : Whole(storage', us, e) = Whole(storage, us, e)
    BY <1>8, <1>10, WholeGrows
  <2>2. Whole(storage, hashes, d) = KeptUpTo(at, c)
        /\ Whole(storage, nextLevel, d + 1) = Whole(storage, Grouped, d)
    BY <1>3 DEF LevelReads
  <2>3. d + 1 \in Nat /\ hashes \in Seq(H)
    BY Typed
  <2>4. Whole(storage', nextLevel', d + 1) =
            Whole(storage', nextLevel, d + 1) \o ReadOf(storage', <<node>>, d + 1)
    BY <1>1, <1>7, <1>8, <1>9, <1>11, <2>3, WholeAppend
  <2>5. ReadOf(storage', <<node>>, d + 1) = Whole(storage', part, d)
    <3>1. node.type # 0
      BY <1>6
    <3> HIDE DEF part
    <3> QED BY <1>6, <1>7, <1>8, <1>11, <3>1, GroupReads
  <2>6. Whole(storage', Grouped, d) \o Whole(storage', part, d) = Whole(storage', Grouped \o part, d)
    <3>1. Grouped \in Seq(HH)
      BY <1>5, <1>9, SeqGrows
    <3> HIDE DEF part
    <3> QED BY <1>8, <1>11, <3>1, WholeConcat
  <2> HIDE DEF H, HH
  <2>7. Whole(storage', nextLevel, d + 1) = Whole(storage', Grouped, d)
    BY <1>5, <1>11, <2>1, <2>2, <2>3
  <2>8. Whole(storage', hashes, d) = KeptUpTo(at, c)
    BY <2>1, <2>2, <2>3
  <2> QED BY <1>5, <2>4, <2>5, <2>6, <2>7, <2>8
<1>13. LevelReads(c)'
  <2>1. KeptUpTo(at, c)' = KeptUpTo(at, c) /\ Length' = Length
    BY <1>1, KeptStays DEF Length
  <2>2. Grouped' = SubSeq(hashes, 1, GroupEnd)
    BY <1>1, <1>4 DEF Grouped
  <2>3. ~(offset' < Length')
    BY <1>1, <1>2, <2>1, Typed
  <2>4. group' = Fanout * Len(nextLevel') /\ group' < Len(hashes') + Fanout
    <3>1. Len(nextLevel') = Len(nextLevel) + 1
      <4>1. nextLevel \in Seq(H) /\ nextLevel' = Append(nextLevel, HashOf(node))
        BY <1>1, Typed
      <4> HIDE DEF H
      <4> QED BY <4>1
    <3>2. group = Fanout * Len(nextLevel)
      BY <1>3 DEF LevelReads
    <3>3. Fanout * (Len(nextLevel) + 1) = Fanout * Len(nextLevel) + Fanout
      BY Typed
    <3> QED BY <1>1, <3>1, <3>2, <3>3, Typed
  <2>5. /\ offset' = ChunkSize * c /\ (c > 0 => ChunkSize * (c - 1) < Length')
        /\ Len(hashes') <= c
    BY <1>1, <1>3, <2>1 DEF LevelReads
  <2>6. hashes' = hashes
    BY <1>1
  <2> QED BY <1>12, <2>1, <2>2, <2>3, <2>4, <2>5, <2>6 DEF LevelReads
<1> QED BY <1>1, <1>8, <1>13, EntriesStay DEF ReadInv, LevelsRead

LEMMA NextLevelReads ==
  ASSUME ExportInv, ReadInv, NextLevel
  PROVE  ReadInv'
<1>1. /\ hashes' = nextLevel /\ nextLevel' = <<>> /\ group' = 0
      /\ UNCHANGED <<listing, at, offset, entries, storage>>
      /\ at <= Len(listing) /\ Length # Unreadable /\ offset >= Length
      /\ Len(hashes) > 1 /\ group >= Len(hashes)
  BY DEF NextLevel, LeavesCut, Cutting
<1>2. Length \in Nat
  BY <1>1, Listed DEF ExportInv, Progress
<1>3. PICK c \in Nat : LevelReads(c)
  BY <1>1 DEF ReadInv, LevelsRead
<1>4. Len(nextLevel) < Len(hashes)
  BY <1>1, <1>3, Typed, Shorter DEF LevelReads
<1>5. Grouped = hashes
  <2>1. Smaller(group, Len(hashes)) = Len(hashes)
    BY <1>1, Typed DEF Smaller
  <2> QED BY <2>1, Typed, SubSeqFull DEF Grouped
<1>6. \A d \in Nat : d >= c - Len(nextLevel) => Whole(storage, nextLevel, d) = KeptUpTo(at, c)
  <2> SUFFICES ASSUME NEW d \in Nat, d >= c - Len(nextLevel)
               PROVE  Whole(storage, nextLevel, d) = KeptUpTo(at, c)
    OBVIOUS
  <2>1. d - 1 \in Nat /\ d - 1 >= c - Len(hashes) /\ (d - 1) + 1 = d
    BY <1>3, <1>4, Typed DEF LevelReads
  <2>2. /\ Whole(storage, hashes, d - 1) = KeptUpTo(at, c)
        /\ Whole(storage, nextLevel, (d - 1) + 1) = Whole(storage, hashes, d - 1)
    BY <1>3, <1>5, <2>1 DEF LevelReads
  <2> QED BY <2>1, <2>2
<1>7. LevelReads(c)'
  <2>1. KeptUpTo(at, c)' = KeptUpTo(at, c) /\ Length' = Length
    BY <1>1, KeptStays DEF Length
  <2>2. Grouped' = <<>>
    <3>1. Smaller(0, Len(nextLevel)) = 0
      BY Typed DEF Smaller
    <3> QED BY <1>1, <3>1, SubSeqEmpty DEF Grouped
  <2>3. ~(offset' < Length')
    BY <1>1, <1>2, <2>1, Typed
  <2>4. group' = Fanout * Len(nextLevel') /\ group' < Len(hashes') + Fanout
    <3>1. Fanout * 0 = 0 /\ Len(<<>>) = 0
      BY Typed
    <3> QED BY <1>1, <3>1, Typed
  <2>5. /\ offset' = ChunkSize * c /\ (c > 0 => ChunkSize * (c - 1) < Length')
        /\ Len(hashes') <= c
    BY <1>1, <1>3, <1>4, <2>1, Typed DEF LevelReads
  <2>6. \A d : Whole(storage', nextLevel', d) = Whole(storage', Grouped', d)
    BY <1>1, <2>2
  <2>7. \A d : Whole(storage', <<>>, d) = <<>>
    BY WholeEmpty
  <2> QED BY <1>1, <1>6, <2>1, <2>2, <2>3, <2>4, <2>5, <2>7 DEF LevelReads
<1> QED BY <1>1, <1>7, EntriesStay DEF ReadInv, LevelsRead

LEMMA EndExportReads ==
  ASSUME ExportInv, ExportInv', ReadInv, EndExport
  PROVE  ReadInv'
<1> DEFINE node == BigDirectory(entries)
<1>1. /\ Store(node) /\ UNCHANGED <<listing, at, entries>>
      /\ at = Len(listing) + 1
  BY DEF EndExport
<1>2. node.type # 0
  BY DEF BigDirectory
<1> HIDE DEF node
<1>3. GoodStore(storage', Fragments) /\ storage \subseteq storage'
  BY <1>1, <1>2, StoreIsGood DEF ReadInv
<1>4. LevelsRead'
  <2>1. ~(at' <= Len(listing'))
    BY <1>1, Typed
  <2> QED BY <2>1 DEF LevelsRead
<1> QED BY <1>1, <1>3, <1>4, EntriesStay DEF ReadInv

LEMMA StillReads ==
  ASSUME ExportInv, ReadInv,
         UNCHANGED <<listing, at, offset, group, hashes, nextLevel, entries, storage>>
  PROVE  ReadInv'
<1>1. \A c : LevelReads(c)' = LevelReads(c)
  BY KeptStays DEF LevelReads, Grouped, Length
<1> QED BY <1>1, EntriesStay DEF ReadInv, LevelsRead, Length
-----------------------------------------------------------------------------
(* The levels of a file, the entries and the store restore the fragments   *)
(* that were cut and accepted, after every turn of the loops of            *)
(* CutFileIntoChunks (file.go): at every moment the level being built and  *)
(* the one it replaces read alike, one node deeper.                        *)
THEOREM ReadInvariant == ASSUME LevelFits PROVE Spec => [](ExportInv /\ ReadInv)
<1>1. Init => ReadInv
  BY ReadInit
<1>2. ExportInv /\ ExportInv' /\ ReadInv /\ [Next]_vars => ReadInv'
  <2> SUFFICES ASSUME ExportInv, ExportInv', ReadInv, [Next]_vars PROVE ReadInv'
    OBVIOUS
  <2>1. CASE UNCHANGED vars
    BY <2>1, StillReads DEF vars
  <2>2. CASE Stopped
    BY <2>2, StillReads DEF Stopped, vars
  <2>3. CASE SkipFile
    BY <2>3, SkipFileReads
  <2>4. CASE CutFragment
    BY <2>4, CutFragmentReads
  <2>5. CASE GroupHashes
    BY <2>5, GroupHashesReads
  <2>6. CASE NextLevel
    BY <2>6, NextLevelReads
  <2>7. CASE EndFile
    BY <2>7, EndFileReads
  <2>8. CASE PanicOnEmpty
    BY <2>8, StillReads DEF PanicOnEmpty
  <2>9. CASE EndExport
    BY <2>9, EndExportReads
  <2> QED BY <2>1, <2>2, <2>3, <2>4, <2>5, <2>6, <2>7, <2>8, <2>9 DEF Next, Export
<1> QED BY <1>1, <1>2, ExportInvariant, PTL DEF Spec

(* ParseNode (treeMerkle.go), on the hash that CutFileIntoChunks returned  *)
(* for a file, appends the fragments that Store accepted, in the order of  *)
(* the file and each once: for every length of file, chunk and node, when  *)
(* a full inner node fits in one (1 + 31 * 32 <= 1024 in the code).        *)
THEOREM RestoresWhatWasStored == ASSUME LevelFits PROVE Spec => []TreeKeepsPartialFragments
<1>1. ReadInv => TreeKeepsPartialFragments
  BY DEF ReadInv, EntriesRead, TreeKeepsPartialFragments, FragmentsOf, ReadOf, KeptUpTo
<1> QED BY <1>1, ReadInvariant, PTL

(* currentHashes = nextLevel (file.go) leaves fewer hashes than there were, *)
(* whatever the fragments that were refused: the loop over levels ends.    *)
THEOREM LevelsShrink ==
  ASSUME LevelFits PROVE Spec => [][NextLevel => Len(hashes') < Len(hashes)]_vars
<1>1. ExportInv /\ ReadInv /\ [Next]_vars => [NextLevel => Len(hashes') < Len(hashes)]_vars
  <2> SUFFICES ASSUME ExportInv, ReadInv, NextLevel PROVE Len(hashes') < Len(hashes)
    OBVIOUS
  <2>1. PICK c \in Nat : LevelReads(c)
    BY DEF NextLevel, LeavesCut, Cutting, ReadInv, LevelsRead
  <2>2. Len(nextLevel) < Len(hashes)
    BY <2>1, Typed, Shorter DEF LevelReads, NextLevel
  <2> QED BY <2>2 DEF NextLevel
<1> QED BY <1>1, ReadInvariant, PTL DEF Spec
=============================================================================
