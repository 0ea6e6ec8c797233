# Verification of the *Cours M2 MIC 2025* programs

TLA+ models, TLC configurations and TLAPS proofs for the programs of this
repository whose behaviour is worth verifying:

- the peer-to-peer file sharing client of the course *Protocole Internet* (Go,
  `src/Protocole Internet/Projet_Final/`, abbreviated `PF/` below);
- the U2F-like registration authenticator of the course *Informatique Embarquée* (C
  for AVR, `.../Projet/proj_embarque-master/`, abbreviated `AU/`), and the assembler
  and the processor of its first exercise;
- the library of doubly linked lists of *Mise a niveau en C*;
- the number theory, finite fields and public-key encryption of *Cryptographie
  Asymetrique*, and the AES with its integral attack of *Cryptographie Symetrique*.

- [1. Inventory](#1-inventory)
- [2. The modules](#2-the-modules)
- [3. What each run checks](#3-what-each-run-checks)
- [4. What is proved](#4-what-is-proved)
- [5. Where the code and its documents disagree](#5-where-the-code-and-its-documents-disagree)
- [6. What is not modelled, and why](#6-what-is-not-modelled-and-why)
- [7. Plan](#7-plan)

To check a run: `tlc -workers 2 -config MCDownload_tree.cfg MCDownload`. To check
the proofs of a module: `tlapm DownloadProofs.tla`.

## 1. Inventory

The repository is the work of a year: 405 files, of which most are exercises,
notebooks, documents, images and vendored tables. Two directories hold programs
with state, concurrency and failure; one holds a library with pointers; the others
compute one result from their arguments.

### 1.1 The peer-to-peer client (`PF/`)

A client registers its key with a REST server, keeps associations with other
peers over UDP, publishes a directory as a Merkle tree, and downloads the trees
of others. `client.go` is its first version, one file; the other `.go` files are
the second, split version.

| Component | State | Operations | Talks to |
|---|---|---|---|
| Dispatcher (`main.go:85-93`, `protoPeerAPeer.go:185-202`) | `resultReqOrRep`: a locked map from datagram identifiers to channels | register, delete, look up and send without blocking | every request that waits; one goroutine per datagram received |
| Merkle download (`treeMerkle.go:15-124`) | `downloadLimit` (tokens), the files under `downloads/`, the locals of each recursive call | `DownloadDatum` (three turns, timeout), `ParseNode` | dispatcher, network, peer |
| Discovery (`controlProtocol.go:54-166`, `interface.go:131-148`) | the locals of one goroutine per click | address, Hello, RootRequest, download, relayed Hello | REST server, dispatcher, download |
| Table of associations (`main.go:44-75`, `protoPeerAPeer.go:42-85, 204-230`, `controlProtocol.go:168-198`) | `peerMap` under `mapLock` | Hello handler, `LastSeen`, `maintainConnPairs` | REST server, network, web interface |
| Merkle store (`treeMerkle.go:125-138`, `file.go`) | `contentStorage`, `rootHash` | `Store`, `CutFileIntoChunks`, `ExportCatsPhotos` | answers to DatumRequest |
| Web interface (`interface.go`) | `nickName` under `mapLock` | `/`, `/login`, `/logout`, `/download` | REST server, discovery |
| Served requests (`protoPeerAPeer.go:42-183`) | none of its own | Hello, Ping, RootRequest, DatumRequest, NAT request from the relay | table, store, relay |
| Datagrams (`messages.go`, `cryptography.go`) | none; Length has 16 bits, the buffer of the receiver 2048 bytes | build, parse, sign, verify | everything |
| REST client (`controlProtocol.go:16-109`) | none | `RegisterKey`, `GetPublicKey`, ... | table, discovery, session |

What makes it hard:

- every datagram is handled in a goroutine of its own, so the look-up of a
  channel and the send on it are two steps, with timeouts, retries and other
  handlers in between;
- UDP loses, delays, repeats and reorders; a reply may come in the next turn of
  the same call, or after the call is over;
- identifiers are drawn at random and may collide;
- a recursive download runs through a pool of tokens;
- the way to a peer behind a NAT opens only when both sides have sent, and a third
  program, the relay, is asked to make the other side send;
- a length that wraps leaves a body shorter than what its handler slices;
- files are opened for appending by several goroutines;
- the handler of a Hello reads the table, asks the REST server, and writes the
  table, giving up the lock in between;
- `nickName` is a Go string (two words) that is written under a lock and read
  without it.

What makes it correct: a token is neither lost nor invented; an entry of the map
belongs to somebody who waits, and somebody who waits is found; a file receives
its chunks in order and each at most once; every download, click and export ends;
the table holds keys their owner published; the tree of a file gives the file back; a handler is
never given less than it slices; a peer that asked the relay is reached by its target.

### 1.2 The authenticator (`AU/enregistrement.c`)

A loop that takes one byte per turn from a ring buffer and then sleeps; two
interrupts (a byte received, a tick every 500 ms); a 32-bit tick counter on an
8-bit machine; a table of 17 credentials in EEPROM. A registration is 21 bytes, a
blinking LED, ten seconds for the user to press a button, a key pair, an entry
in the table, an answer. What makes it hard: interrupts between any two
instructions, loads of the counter that are not atomic, the overflow of the
counter, a loss of power in the middle of a write to the EEPROM. What makes it
correct: the served message is the sent one, each request has one answer, the
wait is bounded, no application has two entries, what was answered OK is stored.

### 1.3 Lists (`Mise a niveau en C/Bibliotheque Listes/`)

`dlist.c`: nodes with `prev` and `next`, a structure with both ends, a size and
the policy on the values. Twenty operations change a list, some two lists at once
(concat, splice, split, the moves between nodes of `sort`). What makes it hard: each
operation repairs up to six pointers, two ends and two sizes by hand; a missed
`prev` shows only when a later call walks backwards. What makes it correct: after
any sequence of calls the two directions agree, the allocated nodes are those of the
lists, and the values are what `dlist.h` says.

### 1.4 Computations

| Component | Operations | What is hard |
|---|---|---|
| Number theory (`TDs/TD1`, `TDs/TD6`, `Revision/TP_TD_*`) | Euclid in eight versions, inverses, Chinese remainders, Karatsuba, binary strings, Legendre's symbol, two square roots, five primality tests, baby steps and giant steps, Pollard's rho | a boundary of each variant: zero, negative arguments, halves of different lengths, quotients rounded down, the last squaring of a round |
| Finite fields (`Revision/TP_TD_Corps_Finis`, `Finite Field`, `TDs/TD2`) | polynomials over F_p, F_p[X]/(f), inverses, powers, generators, in three versions | degrees that fall to -1, normalisation by the leading coefficient |
| Public-key encryption (`Revision/TP_TD_Proto_a_clef_publique`, `Presentation/src/RSA`) | keys, encryption, decryption of RSA, of a salted RSA, of ElGamal | the length of the salt, messages not prime to the modulus |
| AES and its analysis (`Cryptographie Symetrique/TD-TP`) | encryption and decryption with three sizes of key, integral attack on four rounds, difference table, Moebius transform | rows against columns; the inverse key schedule |
| Assembler and processor (`Informatique Embarquée/Cours/Codes/TP1`) | two passes, the instruction set | relative jumps, signs of 12 bits, tables that are full |

What makes them correct is a reference definition each: the arithmetic on integers,
the equations of a field, the plain meaning of a source line by line.

### 1.5 The rest

Listed component by component in `PROJECT.json`, with the reason each is left
out; see section 6.

## 2. The modules

```
 Transfer                      Dispatcher
 (what a download promises)    (map, channels, handlers)
    ^        ^                   ^         ^          ^
    |        +--- refinement ----|---------|------+   |
    |                            |         |      |   |
    +---- refinement ------- Download  Discovery LegacyDownload
                                 |         |          |
          model checking:    MCDownload MCDiscovery MCLegacy
          proofs:      DownloadProofs DiscoveryProofs LegacyProofs

 Datagrams <- Relay   PeerTable        MerkleStore         Session
          MCRelay     MCPeerTable      MCMerkleStore       MCSession
          RelayProofs SharedStateProofs MerkleStoreProofs  SharedStateProofs

 Authenticator             ListContract <- DList
 MCAuthenticator                           MCDList
 AuthenticatorProofs                       DListProofs

 Arithmetic <- PublicKey    Polynomials <- FiniteField <- FieldContract
 Aes   Processor            all of these <- MCAlgorithms
```

`Download`, `LegacyDownload` and `Discovery` each compose the dispatcher with the
goroutines that use it, the network and the peer; `Relay` composes several copies of
the whole program, at the level of datagrams, with the server and the NATs. Faulty variants of actions
(named for the mistake: `ReleaseOnReplyOnly`, `LookUpAndDelete`, ...) stand beside
the actions they vary. No specification uses them: they are what a property is
confronted with to show that it can fail.

**Dispatcher.** `responseChannels` is `resultReqOrRep`, `box[c]` the value handed
to channel `c` and not yet taken, `handlers` the goroutines of `HandleResponse`
that are between the `RUnlock` and the `select` with a `default`. A send succeeds
when the channel has room (a buffered one) or when its owner is blocked in its
`select` (an unbuffered one); else the reply is dropped.

**Download.** One call of `DownloadDatum` per occurrence of a node in the tree.
`pc` follows the lines of the function: token (80), identifier, channel and entry
(82-88), send (89), select (90-92, 115), token back (93, 116), entry deleted
(94-96, 117-119), checks and `ParseNode` (98-112), next turn or error (113-123).
A directory starts its entries as goroutines (55), a big node calls its children
one after the other (62). The peer may answer a request any number of times and
at any time, with the datum, with NoDatum, with bytes that do not
have the hash they come with, or with fewer bytes than a hash, according to
`PeerAnswers`; data whose own hash is right
but which was not asked for reach a call whose identifier another call has drawn.
The short one (`TooShort`) makes `Body[32:]` (100) panic in a goroutine that
recovers nothing: after `Panic` the process is not `Running` and no step follows.
A `Timeout` may happen as
soon as the call waits, and even when an answer is already in the channel:
`select` may choose either ready case.

**Transfer** is the abstract specification: each node is settled once, after the
node that names it; the children of a big node in sequence; a chunk is appended in
the step that settles it, with the content asked for. There are no requests,
tokens, turns or network in it. `Download!TransferSpec` and
`LegacyDownload!TransferSpec` are its instances under the mapping `Status` of each
module.

**LegacyDownload.** `client.go:817-857`: the token is given back by a deferred
function, so a call holds it through its recursion; the channel has no buffer;
there is one turn; a timeout leaves its entry in the map and returns neither data
nor error. A short datum panics at 838.

**Discovery.** `DiscoveryRoutine` and the goroutine of the button around it:
the address, the exchange of Hello, the exchange of the root, the download (one
step here), the Hello through the relay. A RootReply of another length than 32
(`controlProtocol.go:153`) ends as a reply of another type does, and is not told from it. `reqId` and `got` are kept per exchange,
as history.

**PeerTable.** `peerMap`, the handler of a Hello as four steps (look-up, key
request, verification with the replacement of the entry, answer), responses that
should touch `LastSeen`, and the loop of every minute. Keys are numbered in the
order in which their peer drew them. `heardAt`, `helloAt` and `exchanged` are
history.

**Datagrams.** A datagram is known by its sizes: `SerialisationDatagram` copies the
body up to a `Length` of 16 bits, `Received` keeps the 2048 bytes of the buffer,
`DeserialisationUDP` makes the two length checks and takes what follows the body for a
signature when it has the size of one. What a body says is a value, `Garbage` once
bytes of the body are lost. A signature is the key it was made with.

**Relay.** Peers that all run the program, behind NATs that let in who was written
to, and the server. A user logs in (`setupP2P`), clicks (Hello, root, first datum, and
whatever became of them the request to the relay), and `Process` is `ProcessPacket`:
one action per case of `HandleRequest` and per stage of `HandleResponse`. A handler is
one step here, since its interleavings are the business of `PeerTable`, `Download`
and `Discovery`. The server is external and does what `project.pdf` says (4.1.6, 4.3): it
relays for a request that is signed and holds an address alone. The request of this program
(`BuildForwardPacket`) is neither and is never relayed. So that its part as the *target*
of a request can be checked, the peers in `Conforming` run a program that differs from it in
that request alone, and behave like the other programs of the network. `net` only grows: a datagram may come
late, often or never.

**MerkleStore.** `CutFileIntoChunks` loop by loop (leaf loop, level loop), with
the sizes of the code: a chunk of 1024, 31 hashes in a node, entries of 64 bytes.
A node stands for its hash; the hash of a node that `Store` refused is the empty
sequence, as the nil slice the callers append without looking.

**Session.** The requests that write `nickName` do so word by word under the
lock. The reads without the lock load a pointer and then a length. A read of a nil
pointer with a length is a panic: `net/http` recovers it in a handler, and it ends
the process anywhere else. A click and a Hello to answer may come at any time: `/download`
(`interface.go:131-148`) does not ask whether anybody is logged in, so a stale page or a
direct request starts its goroutine before or during the first login, and its reads may meet
the nil pointer and the new length.

**Authenticator.** `pc` follows the loop of `main` (276-374). The counter has two
digits of base `Base` in place of four bytes, loaded one after the other at 299 and
317. `eeprom_write_block` writes the parts of an entry (`is_used`, the name in two
halves, the rest) in any order. `Tick` may come at any step, but once per turn
of the loop only (`paced`), except during the key pair and the write: a turn takes
microseconds and a tick comes every half second. The client sends its next request
when it has the answer to the one before.

**DList.** The heap is three functions on `N` nodes (value, `prev`, `next`) and the set
of allocated ones; two structures `a` and `b`. An operation is a function of the
memory named as in the code, so that `dlist_sort` may call the merge and
`dlist_filter` may call `push_back`. Values are owned or borrowed as `copy`
and `free_fn` say, which is what decides whether two lists may be joined. The loops
(`unique`, `remove_if`, `from_array`, the split, the merge and its recursion) are recursive functions
on the number of turns. `sort` works on the pointers (`Links`) as the code does: two nodes
at different speeds find the middle and the list is cut there, each node picked by the merge
leaves its part and is linked behind the tail, the rest is linked at once, and the tail is found
by a walk. `New` is one node that `malloc` may give: no operation looks at an
address, so another choice gives the same lists.
**ListContract** is the abstract list, a sequence: `OperationsKeepTheirContract` maps
the memory to sequences by `ContentOf` and asks of every call possible in the present
state that it does to them what the contract names, and nothing to the other list.

**Arithmetic, PublicKey, Polynomials, FiniteField, Aes, Processor.** One operator per
function of the code, under its name (with a suffix where two files use the same
one). A loop is a recursive operator on its variables, or a fold; an array is a
sequence; what a program draws at random is a parameter. `NULL`, a refusal and a
loop that never ends are values (`None`, `Never`, `Unsupported`, `Refused`).
`Polynomials` ends with the older version of TD2, whose differences are its own
definitions; `Arithmetic` ends with the binary strings of TD1. The salted RSA of the
presentation is there twice: its powers on numbers, for small keys, and its salt on sizes, for
keys of real size. A message is then its number of bytes and of leading zero bits, a number
made of it the shift that has been applied to it, and the file of the receiver how many bytes
it has and how many of its first ones are the message's.

**FieldContract** states what the libraries of finite fields must satisfy: that they
agree, the equation of the division, Bezout, powers as repeated products, inverses
of all but zero, generators by counting.

**MCAlgorithms.** A state is one call: `Idle`, or a family with its arguments. The
invariants compare what the programs return with reference definitions given there
(`Gcd` by enumeration, `Value` of a string, `Means`, the meaning of a source line
by line on registers and on a memory the program is not part of).

## 3. What each run checks

| Run | Properties | Bounds |
|---|---|---|
| `download_tree` | `SlotsMatchHolders`, `WaitersAreRegistered`, `ChunksAreInOrder`, `CleanSessionIsComplete`, `EveryCallReturns`, `TransferSpec` | five nodes: a directory with a big node of two chunks and a malformed entry; one token; two turns; one chunk may be forged, one datum may be missing, one may be shorter than a hash. 231,311 states |
| `download_twin` | `NoStaleEntry`, `FilesAreInOrder` | two sessions on one tree, all requests draw from two identifiers, two tokens, one turn. 1,729,815 states up to the symmetry of the two identifiers |
| `legacy_deep` | `LeaksAreHarmless`, `TokensAreDepth`, `ReturnsOrWedges`, `TransferSpec` | a tree of depth three and two tokens; the big node may draw the identifier its sibling leaked; any datum may be shorter than a hash. 129,627 states |
| `discovery_twin` | `RepliesMatchTheirStage`, `NothingIsLeftBehind`, `EveryClickEnds` | two clicks; their Hellos share an identifier, and so do their RootRequests; the peer may refuse. 144,273 states |
| `peertable_life` | `ExpiresAfterHello`, `KeysWerePublished`, `SettledKeyIsForever` | one peer that restarts once, seven minutes, overlapping handlers. 284,821 states |
| `relay_click` | `RequestsAreUnderstood`, `TargetsOpenTheWay` | two peers that click on each other; the one that clicks twice asks the relay as `project.pdf` says, so that the other is a target, and the other takes a name of 1973, 1974, 2038 or 65532 bytes. 17,399 states |
| `merkle_export` | `NodesAreClosed`, `FailsOnlyOnLimits`, `TreeKeepsPartialFragments`, `ExportEnds` | eleven directories with the real sizes: files of 0, 1, 1023, 1024 bytes, of 31, 32, 63 and 963 fragments, 0, 15, 16 and 17 entries. 1,279 states |
| `merkle_fragments` | violates `TreeRestoresFile` | see section 5 |
| `session_rename` | `NamesAreWhole`, `CurrentNameIsAnnounced`, `NamedReadersSurvive` | two logins, a logout, a page, a click, in any order. 1,706,116 states |
| `authenticator_serial` | `RequestsAreServedOnce`, `WaitIsBounded`, `StoreIsRight`, `EveryRequestIsAnswered` | four requests of three bytes for three applications (one holds the byte of the command), two slots, a counter of four values, a timeout of one tick, one power cut. 1,408,296 states |
| `lists_calls` | `HeapIsSound`, `OperationsKeepTheirContract` | two lists, four nodes, three values of which two compare equal. 72,297 states |
| `algorithms_calls` | `ArithmeticIsExact`, `SolversAreRight`, `PrimesPass`, `DecryptionUndoesEncryption`, `FieldLibrariesAgree`, `CryptanalysisIsRight`, `ProgramsRunAsWritten` | integers to 36 (`MaxInteger`), strings of 4 digits (`MaxDigits`), square roots modulo primes to 73 (`MaxModulus`), tests to 190 (`MaxTested`), logarithms modulo primes to 19 (`MaxGroup`), powers to 9 (`MaxExponent`), F_2, F_3, F_5, F_8, F_9, F_25, sources of at most four lines; salted messages to 130 bytes (`MaxBytes`) under keys of 1023 and 1024 bits. 12,937 states |

The state machines of the Go programs and of the authenticator each have a type invariant (`TypeOK`, `SessionTypeOK`); the runs do not list it, and it can be
checked by a line in any of the configurations. Wherever a component has a proof
module it is a theorem (`TypeCorrect`, `SessionTypeCorrect`), and for `Relay` a part of the
proved invariant. `DList` keeps none: a cell holds a value or NULL, whatever the calls, and
`SoundMemory` says that the memory has its type (`Memory`) and more.

`ChunksAreInOrder` and `FilesAreInOrder` say the same of a session in two ways. The
first compares chunks two by two with `ComesBefore`, which is defined by the paths down
the tree and so can be reasoned about; the second compares each file with the sequence
that a recursive walk of the tree gives, and keeps the first honest.

*Why these bounds are enough.* `download_tree`: with one token, every call waits
for every other; two turns are the least for a late answer to meet the next turn; a
big node of two children is the least that has an order, and it lies below a
directory, whose goroutine it is. `download_twin`: two identifiers for five
requests make every pair of requests collide in some behaviour, within a session
and across the two; the path of the root is writable there, which is the case of a
peer whose root is a file. `legacy_deep`: the wedge needs a depth of one more
than the tokens, and all smaller depths occur on the way. `peertable_life`: the
entry of one peer is touched by the handlers of that peer only, except for
`LastSeen`, whose key is an address; seven minutes is one more than the longest life
of an association. `merkle_export` uses the real constants, at every boundary.
`authenticator_serial`: a counter of two digits has all the mixed values that one of
four has, in kind, and four values overflow during a wait; two slots are the least
where the search has to look past a free slot, and three applications the least that do
not fit; one cut is the least that leaves a torn entry. `relay_click`: the names sit at
the limits of a datagram. A signed Hello of 1973 fills the buffer, one of 1974
loses the last byte of its signature, one of 2038 a byte of its body, and
with 65532 the length wraps to zero; `Wraps` is then true for the peers the proof
excepts. `lists_calls`: four nodes give lists of 4 and 0, 3 and 1, 2 and 2, so
that each operation meets an end, a middle and an empty list on either side, and a sort
merges halves of different lengths; two equal values are what stability needs.
`algorithms_calls`: the bounds reach every branch (primes q with up to four factors 2
in q - 1, composites with strong liars; the first Carmichael number, 561, is past them), and the assembler's tables have 2
labels and 3 rows in place of 100 and 1024, so that both overflow; the salted messages
go past 113 bytes under the 1024 bits of `rsa.c`, where the free bits of the sender become
fewer than the bound, and the two lengths of the salt part.

*Fairness.* Weak fairness of each goroutine of the program (`Call(n)`, `Run(d)`),
of the export loop, and of the loop, timer and line of the authenticator. It is
what the Go scheduler, and a processor that runs, give; the timeouts of `select`
are part of the goroutine, and fire in the end. Nothing is assumed of the network or
the peer in those: in `EveryCallReturns` and `EveryClickEnds` every datagram may be lost and
no handler has to run. The peer may even end the process, by a datum shorter than a hash;
`EveryCallReturns` and `ReturnsOrWedges` say what happens while it runs (`Running`), and so does
`EveryClickEnds`, whose download is one step. `Acquire` needs no strong fairness there: calls that wait for
a token are finitely many, and each takes and gives it back a bounded number of
times. In the authenticator nothing is assumed of the user.

`TargetsOpenTheWay` is the exception: it says what the program achieves as a target when the
network does its part, and `Reliable` is weak fairness of the handling of datagrams, one
condition for all of them, which is enough because a handled datagram changes nothing when
it comes again. Mappings of the NATs do not expire in it, and users are not assumed to click.

*Deadlock* is checked in all passing runs that can only stop when they are
finished (a `Finished` or `Stopped` step marks that), and in the authenticator,
which never stops. It is off in `legacy_deep`, where the program really does stop:
that is what `ReturnsOrWedges` describes; and in the runs of `Relay`, where a peer whose
key was not registered, or whose clicks are over, stays where it is.

## 4. What is proved

The proofs hold for every value of the constants under the assumptions named in
the modules: `DispatcherAssumption`, `DownloadAssumption`, `LegacyAssumption` and the
two `TreeAssumption`s (the calls of `ParseNode` form a forest; in `client.go`, where one
download is one session, a tree), `DiscoveryAssumption`, `PeerTableAssumption`,
`SessionAssumption`, `RelayAssumption`, `StoreAssumption`, `AuthenticatorAssumption`,
`DListAssumption`.
They type the constants and say what kind of number a limit is; TLC evaluates each of
them in a run. Four hypotheses are part of the statements of the theorems that need them:
`DistinctIds`, `StagesShareNoId`, `NamesAreNoAddresses` and `LevelFits`, explained below.

Each proof rests on an inductive invariant, which was checked by TLC before it was
proved, and has a lemma for each action that does something to it.

| Property | Theorem | Hypothesis |
|---|---|---|
| `SlotsMatchHolders`, `NoStaleEntry` | `SlotsCorrect`, `EntriesAreLive` | |
| `WaitersAreRegistered` | `WaitersReachable` | `DistinctIds` |
| `TransferSpec` (of `Download`) | `ImplementsTransfer` | |
| `ChunksAreInOrder`, `CleanSessionIsComplete` | `FilesInOrder`, `CleanSessionsComplete` | |
| `TokensAreDepth`, `LeaksAreHarmless` | `TokensFollowTheDepth`, `LeaksDoNoHarm` | |
| `TransferSpec` (of `LegacyDownload`) | `ImplementsTransfer` | |
| a wedge is for ever | `WedgedForEver` | |
| `NothingIsLeftBehind` | `LittleIsLeftBehind` | |
| `RepliesMatchTheirStage` | `StagesAreKeptApart` | `StagesShareNoId` |
| `KeysWerePublished`, `SettledKeyIsForever` | `KeysCorrect`, `SettledKeyStays` | |
| `ExpiresAfterHello` | `AssociationsExpire` | `NamesAreNoAddresses` |
| `NamesAreWhole`, `CurrentNameIsAnnounced`, `NamedReadersSurvive` | `WritersExcludeEachOther`, `LastNameIsAnnounced`, `OnlyALogoutUnnames` | |
| `RequestsAreUnderstood` | `Understood` | |
| `NodesAreClosed`, `FailsOnlyOnLimits` | `TheStoreIsClosed`, `OnlyLimitsFail` | |
| `TreeKeepsPartialFragments` | `RestoresWhatWasStored` | `LevelFits` |
| each level is shorter | `LevelsShrink` | `LevelFits` |
| `RequestsAreServedOnce`, `WaitIsBounded`, `StoreIsRight` | `ServedOnce`, `TheWaitEnds`, `TheStoreIsRight` | |
| `HeapIsSound` | `HeapStaysSound` | |
| `OperationsKeepTheirContract` | `ContractsAreKept` | |

**Download** (`DownloadProofs`): `TypeCorrect` and `SlotsCorrect`, that
`slots` counts the calls between lines 80 and 93 or 116: no turn, retry or recursive
call loses or invents a token, for any tree, limit and number of turns, with
colliding identifiers and any peer. The inductive invariant `SlotInv` is
`TypeOK /\ KidsWait /\ SlotsMatchHolders`. `KidsWait` (the children of a node are
idle until their parent is parsed) is needed because `ParseDirectory` sets the `pc`
of all the children at once: without it, a child could hold a token at that moment
and the step would lose it. `TypeOK` needs `CallsInTurn`, that a call has a turn once it
has passed the head of its loop, for its channel to exist. `AcquireSlots` and
`ReleaseSlots` are where the cardinality changes, `SameHolders` is for all others.

On it rest two facts about the map. `EntriesAreLive`: an entry is always that of a call
in its turn (`NoStaleEntry`), with colliding identifiers too, because a call that
leaves its turn deletes whatever its identifier maps to. `WaitersReachable`: when no
two requests draw the same identifier (`DistinctIds`), somebody who waits is found for
the whole of the turn (`WaitersAreRegistered`); the inductive invariant `WaiterInv` adds
`DrawnByTurn`, that a call's identifier is one of its own turn's, without which the
deletion by another call could hit it. Without `DistinctIds` it is false, as
adding it to `MCDownload_twin.cfg` shows.

`ImplementsTransfer`: each step is a step of `Transfer` or a stutter. What has to be
carried is `CallsAreNamed`, that a call which is neither idle nor settled was named by a
fetched node in its turn; `NamedStays` keeps it, since a big node closes only after its
children.

`FilesInOrder` then needs steps of `Transfer` only. Its invariant is `NamedInTurn` (what
has been reached below a big node was reached after the settlement of the earlier
children, and a big node is done only when all are settled) and `WrittenIsDone` (what is
in a file is settled, so it is not fetched again). When a chunk x is fetched, the nodes
above it are open, up to the first that is no big node (`LiveAbove`); had a chunk that
comes after x been written, the child above it would have been reached (`ReachedAbove`),
hence the child above x settled, and it is not. Both walks up the tree are by the least
place on a path at which they fail (`Least`), which takes the place of induction.
`CleanSessionsComplete` walks down from a root in the same way: a call that ended well
has written its chunk, started the entries of its directory, or returned after its
children (`DoneIsWritten`), and no call becomes idle again (`NeverIdle`). Together they
say that after a clean session each file holds exactly the chunks below the roots, in order.

**LegacyDownload** (`LegacyProofs`): the invariant `LineInv` says that the calls in
progress are a line: a call in the loop over its children waits for the one that is in
progress, and there is one `Tip` at most that waits for nobody (`OneTip`). It needs
`KidsInTurn`, that nothing is in progress below a node that has not been parsed or has returned,
and `RootsAndKids`, that somebody waits for every call but the root's. From it
follow `TokensFollowTheDepth` (two calls that hold tokens are never both at work: one
waits for the other, so the depth is what fills `downloadLimit`) and `WedgedForEver`, an
action property that no run lists: once the tip waits for a token and every token is
held above it, no step of the client, the peer or the network ends it. That the client
either ends or gets there is `ReturnsOrWedges`, which is liveness. `LeaksDoNoHarm` is
about the entries a timeout leaves: its invariant `LeakInv` says under which
identifier each entry is, and that a value is in a channel only while its call is at its
select. `ImplementsTransfer` needs one more fact, that only inner nodes loop.

**Discovery** (`DiscoveryProofs`): `LittleIsLeftBehind` for any number of clicks and
colliding identifiers. `LeftInv` adds to the property that an exchange draws its
identifier once and takes one reply (`OneByOne`), and that each entry is under the
identifier its exchange drew (`EntriesAreNamed`): without the latter, deleting by identifier could
leave an entry that no timeout explains. `StagesAreKeptApart` has the
hypothesis `StagesShareNoId`: a Hello and a RootRequest never draw the same number. Two
Hellos may, and then a click may take the reply of another, but never one of the other
kind. Without the hypothesis the code has nothing that prevents it.

**PeerTable** (`SharedStateProofs`, with `Session`: the two variables `mapLock` guards): `TypeCorrect`, `KeysCorrect` (the table holds
published keys only) and the action property `SettledKeyStays` (once the handlers of
a peer agree with the entry, its key never changes). The inductive invariant `KeyInv`
adds `PublishedIsOld`, that a published key is one its peer has drawn, and
`HandlerKeys`, that the key a handler carries was published: a handler writes the
table with what it read long before. `AssociationsExpire` rests on `AgeInv`: `LastSeen` is
the time of the Hello, as `LastSeen` is looked up by address in a map keyed by names. A
peer that registers under the text of its own address would be renewed by its responses;
`NamesAreNoAddresses` excludes it.

**Session** (`SharedStateProofs`): `WritersExcludeEachOther`, that a request in the
middle of a write is the one that holds the lock, so that everybody who takes the
lock sees a whole name, for any set of requests. `LastNameIsAnnounced` needs
`LastWriterAnnounces`: at each place of its reads the login that unlocked last has the
current name or is still to read it (`Fresh`), which holds because every other writer
would have to take the lock and become the last itself. `OnlyALogoutUnnames` is about every
moment at which the readers have a name (`HaveAName`: `nickName` has its pointer, and no read
in progress has loaded the nil one): from then on the process does not end by a panic on the name
before somebody logs out, since a login replaces one name by another word by word and
never passes through the nil pointer. It promises nothing before the first name is complete:
there the code has no protection, and a download that starts during the first login
may end the process.

**Relay** (`RelayProofs`): `Understood`, that for any peers, names, clicks and sizes of
address, over a network that delays, repeats and cuts, no handler slices a body past
its end or reads one that lost bytes unless somebody took a name with which `Length`
wraps, that whoever asks a peer for data has been accepted by it before, and that only
a name whose signed Hello fits into the buffer is accepted. The inductive invariant
`RelayInv` is `TypeOK /\ NetIsGenuine /\ UsersAreKnown /\ AcceptedNamesFit /\
CrashMeansWrap`. `NetIsGenuine` says of each datagram that its sender built it
(`Whole`: its size is that of its parts, so that a cut one loses its signature first)
and what its type implies: the kind of a request is in its identifier, and a HelloReply
comes from a peer that has accepted the one it answers. That is what makes the
acceptance known to the peer that goes on to ask for the root: `UsersAreKnown` carries
it from the HelloReply to the DatumRequest. The target of a click may change only
between clicks, so `HelloOf` ties the reply to the present one. The proof has a lemma
for each action; `ReadIsSent` is where arithmetic shows that a datagram which passes
the two checks and is not cut is the one that was sent.

**MerkleStore** (`MerkleStoreProofs`): for every directory and every size of chunk,
node, hash and entry. The children of a node are the hashes the loops held, so
`TheStoreIsClosed` needs `HoldsServed`: whatever the loop variables, the entries and the
stored nodes name is stored or nil. The children are flattened from groups of at most
one hash each; `FlattensExists` and `FlattenIs` prove that the recursive function behind
`FlattenSeq` exists and stays in its type. `OnlyLimitsFail` needs `LevelsAreFull`: a file that
has been begun has a hash at every level of its tree, so `currentHashes[0]` is out of
range for an empty file only; `TooMany` is its arithmetic, from bytes to entries.

`RestoresWhatWasStored` compares what `CutFileIntoChunks` builds with what `ParseNode` reads.
`Reads(st, d)` is that reading, d levels down, as a recursive function. The inductive
invariant `ReadInv` says of the file being cut (`LevelReads`) that after c fragments its
hashes read as the accepted ones of the first c, and that `nextLevel`, read one level deeper, is
the part of the hashes grouped so far; of each entry that its hash reads as
the file (`EntriesRead`). The depths are bounded by what has been saved so far, c less the number of hashes,
which only grows, since a level is shorter than the one before (`LevelsShrink`,
whose only arithmetic is `Shorter`). The proof needs that `Store` refuses no inner node,
`LevelFits`: 1 + 32 * 31 <= 1024 in the code. Without it a whole group would vanish. The
lemmas before it are about the operators: that the function behind `Reads` exists and is unique
(`DownsExists`, `DownsAgree`), that reading commutes with flattening (`FlattenEach`) and is not
disturbed by a store that grows (`ReadsGrow`). `NatInd` and `SeqInd` are inductions over a set
in place of a predicate, from the least number outside of it.

**Authenticator** (`AuthenticatorProofs`): for every sequence of requests, size of ring
buffer and table, width of the counter, timeout and number of power cuts.
`ServedOnce` rests on `ExchangeInv`: message, ring buffer and line are together either
the whole frame, in order, or too short for ever (`InPlace`, an argument on lengths), so no
hypothesis is needed on the size of the buffer or on the byte that the loop skips. A byte that was
lost makes the request unanswered, not wrong. `TheWaitEnds` rests on `TimerInv` and on the exchange:
the first turn of the wait is the only one woken by a byte, since the line is
empty until the answer, so a tick can tear a load of the counter in that turn only; a torn load has
counted that one tick, and the wait is at most one tick too long, across every overflow of the
counter. `TheStoreIsRight` rests on `StoreInv`. Only the first free slot may hold the
remains of a write that a power cut ended (`RemainsFirst`), which is where `find_slot` looks next;
hence a later application never meets them elsewhere, and a name that the last write left
without `is_used` is overwritten before it is used. `WritingOK` says what is in place of the
write in progress for each order of its parts, and `OkKept` that an answered credential is
never the one being written.

**DList** (`DListProofs`): for every size of the heap, every type of values and every
comparison. `HeapIsSound` is about walks along pointers and cannot be proved from itself:
that both walks of a list agree says nothing of what one assignment does to them. The
inductive invariant `Sound` names the sequences instead: there are two sequences of nodes c and
d such that the memory is theirs, `Rep(m, l, c, k, d)`. Each list has the first node, the
last and the length of its sequence (`ListOf`), the neighbours of a node in the sequence
are its `prev` and `next` (`Seg`), no node is twice in c or d or in both, each allocated one is
in c or d and holds a value. From it follow the walks (`ChainIs`, `WalksBack`), hence the
property (`SoundIs`).

An operation is then the change of a sequence, proved from the pointers it writes:
insertion (`Inserted`), removal (`Unlinked`), joining and splicing (`Moved`), reversal
(`SegReverse`), release (`ClearIs`). Nearly all of these cut a sequence around a node
(`CutAt`) and glue the parts again (`GlueSeg`); `SegFrame` says that a segment does not
notice a write outside of it. The loops are where sequences are not enough. Each is a
recursive function, and the provers know nothing of one before it is shown to exist:
`PathsExist`, `SweepExists`, `ScanExists`, `FillExists`, `FlattensExists`, `RunsExist`, `TurnsExist`
and `LevelsExist` do that and give its equation. `unique` and `remove_if` erase from the list
they are walking; `erase` looks a node up before it touches it, so whatever it is given it leaves a
list (`EraseIs`), and a turn of the loop cannot spoil what the next one needs (`UniqueIs`,
`RemoveIfIs`). `sort` does not erase and insert but rewrites `next` and `prev` under the list, so its
proof is about the pointers themselves (`Links`). `MiddleIs` says where the two speeds of
`split_middle` end, for a list of any length, and `HalvesAre` that cutting there leaves two parts
linked each on its own (`Parts`). A turn of the merge takes the first node of a part to the end of what
is merged so far (`Merging`): `PickedIs` for its four writes, `MergeStep` for the parts that remain, and
`MergeEnds` for the one write in each direction (`LinkedRest`) that links the rest when a part is
used up. Nothing outside of the two parts changes (`Elsewhere`), which is what allows `msort_rec` to
sort the left half and then the right one on the result (`HalvesSorted`). The recursion is an
induction on the length (`MsortIs`), and `SortIs` adds the walk to the tail and the two ends.
In short supply of memory
`dlist_from_array` gives all up or has enough for each `push_back` (`FromArraySound`).
A split before the end of a list never returns (section 5), so the theorems say
nothing of what it would have left.

`ContractsAreKept` needs no other invariant: the same lemmas say which sequence of nodes an
operation leaves, so in any memory that is `Sound` it remains to compare its values
(`Content`) with the contract. Where the operation cuts and glues, so does the contract (`RemovedIs`,
`InsertedIs`, `BothIs`). Where it loops, both are recursive functions, of different shapes:
the code erases what it does not keep, `Without` and `Deduplicated` flatten what they
do. `ChosenIs` turns the flattening into a running choice, and `Visited` says what a loop
has left after i nodes: the values chosen so far, followed by the nodes still to come
(`VisitStep`). For `unique` one needs besides that `cur`, the last node kept, still has the key
of the last one visited. `sort` is compared with a definition that does not sort: the
value at r is the one of rank r, the number of those that are smaller, or equal and not
later (`Rank`). The merge keeps any transitive order that `TakesLeft` decides
(`Orders`, `MergeStep`): what it has taken comes before what both parts still hold
(`InOrder`), as the first of each is before the rest of the other (`LeftIsFirst`). With the order by
key and then by place in the old list (`Arranges`), the left half being the older one, the result
has each node at its rank (`RankOf`, a bijection with the nodes that go before), so `sort`
is right and stable (`SortsIs`).

**Only model-checked**, and why:

- liveness (`EveryCallReturns`, `ReturnsOrWedges`, `EveryClickEnds`, `ExportEnds`,
  `EveryRequestIsAnswered`, `TargetsOpenTheWay`): the prover has no support for fairness
  and ENABLED;
- `FilesAreInOrder`: its reference definition is recursive (`ChunksAreInOrder`, which says the
  same by paths, is proved);
- all of `MCAlgorithms`: the operators it is about are recursive.

## 5. Where the code and its documents disagree

One run ends in a violation of a property that states a sentence of the repository.

- **`merkle_fragments`** `CutFileIntoChunks` (`file.go:21`) stores a type byte and
  up to 1024 bytes, `Store` (`treeMerkle.go:129`) refuses more than 1024 in all, and
  the error is dropped: every full chunk vanishes from the tree. The reader accepts
  such chunks (`treeMerkle.go:23-24`), and `session_log.txt:14` shows one from
  another implementation: "Donnée reçue (1057 octets)".

The others are shown in the same way by configurations kept beside the runs; TLC finds
every property of theirs violated. The ones named `claims` list several: TLC stops at the
first, so leave one in at a time.

| Configuration | Property | Code | Sentence |
|---|---|---|---|
| `MCPeerTable_claims.cfg` | `OfflineMeansInactive` | `protoPeerAPeer.go:222` looks the association up by address in a map keyed by names, and requests other than Hello touch nothing, so a peer heard every minute goes OFFLINE five minutes after its Hello | `main.go:63`: "-LastSeen: Pour gerer l'expiration apres 5 minutes d'inactivité" |
| the same | `AssociatedMeansExchanged` | `protoPeerAPeer.go:72` sets ASSOCIATED before the HelloReply is built and sent | `main.go:50` |
| the same | `CurrentHelloIsNotRefused` | `protoPeerAPeer.go:50` verifies with the cached key for ever, and a restarted peer has a new one (`main.go:114`) | `main.go:64` |
| `MCDiscovery_legacy.cfg` | `HelloReplyIsNoRefusal` | `client.go:675` takes 129 for a refusal, `client.go:411` sends it as HelloReply | `session_log.txt:6` |
| `MCRelay_claims.cfg` | `TraversalOpensTheWay` | `messages.go:159-170` sends the relay an unsigned request with a whole Hello after the address; a relay that keeps to the text drops it, and the target never sends its Ping | `project.pdf` 4.1.6: "they contain a single socket address (IP address and port), and have a length of 6 bytes (for IPv4) or 18 bytes (for IPv6)"; 4.3: these messages "must be signed" |
| `MCRelay_click.cfg` with `IpSize = 16` | `TargetsOpenTheWay` | `protoPeerAPeer.go:168` reads an address of 4 bytes in a body of 18, so that the Ping goes elsewhere | `project.pdf` 4.1.6, as above |
| `MCMerkleStore_root.cfg` | `RootIsReadable` | `file.go:68` puts a type 3 before a type 1 body, whose length `treeMerkle.go:58` refuses | `session_log.txt:2` |
| `MCAuthenticator_byte.cfg` | `EveryRequestIsAnswered` | the byte 0xFF is `EMPTY_VALUE` (`enregistrement.c:36`) and is skipped at 282, so a request whose hash holds it is never complete and never answered | `README.md:72`: "Octets 2 à 21 : Empreinte SHA1(app_id) du Relying Party (20 octets)" |
| `MCAuthenticator_claims.cfg` | `RefusedAfterTimeout` | a tick between two bytes of the load at `enregistrement.c:317` expires the consent at once | `README.md:90`, `enregistrement.c:316` |
| the same | `LedOffOutsideWait` | a tick between `enregistrement.c:327` and `328` turns the LED on for good | `README.md:87` |
| the same | `FullMeansFull` | `is_used` is tested as a byte (190), and an erased EEPROM is 0xFF | `README.md:120` |
| `MCDList_claims.cfg` | `SplitReturns` | `dlist.c:396-397` clears `pos->next` and then follows it: every split before the end of a list ends the program | `dlist.h`: "pos->next = NULL, R->prev = NULL" |
| the same | `FindFirstReturnsNode` | `dlist.c:248-258` returns `e->data`, where a node was asked for; `find_if` returns the node | `dlist.h:203-213`: "Sortie : pointeur vers le nœud trouvé, sinon NULL." |
| `MCAlgorithms_claims.cfg` | `DivisionReturns` | TD2's `inverse_mod` (`operation_corps_finis.c:306-325`) returns the coefficient of the larger argument, so the leading term does not cancel (382-407) and the loop never ends | its header, 81-91: "retourne a la fois le quotient et le reste de la division" |
| the same | `TD1InverseIsInverse` | TD1's `inverse_mod` (`operations_binaires.c:486-505`) takes the coefficient of the larger argument too: the inverse of 1 modulo 2 comes out as 0. It is right for a number above its modulus, which `ArithmeticIsExact` checks | `operations_binaires.h:101-106` |
| the same | `TD1CoefficientsInOrder` | `euclide_etendu` (435-479) exchanges its arguments when the second is larger, and gives the coefficients in the exchanged order | `operations_binaires.h:79-93`, and the line it prints (482) |
| the same | `TD1RemaindersSolve` | `solution_TR_Chinois` (508-552) uses that inverse: x = 1 mod 3, x = 2 mod 2 gets no solution of the system. That it refuses moduli with a common divisor is in `ArithmeticIsExact` | `operations_binaires.h:119-123` |
| the same | `FileIsTheMessage` | `rsa.c:256`: who decrypts takes the length of a fixed sentence, 43 bytes, for that of the message; the file always has 43 bytes (311-332), so a shorter message is followed by what was in memory and a longer one is cut; past 113 bytes the lengths of the salt differ and nothing of the message is left in place | `rsa.c:325-332`: "La taille réelle à écrire est la taille originale du message (en octets)" |

Smaller differences met on the way, and how the models treat them:

- the assembler and the simulator number the operations differently
  (`tp_exercice2.h:14` against `tres_important.c:31`); `ProgramsRunAsWritten` uses those on
  which they agree. A label on the line of an instruction swallows it;
- `is_mersenne_prime` takes the exponent 1 and refuses 2; `PrimesPass` starts at 3;
- the key generation of RSA accepts equal primes; the calls use distinct ones;
- the S-box of `calcul_ddt.c:16` differs from that of `aes.c` in one entry; the
  difference table is checked on Boolean functions;
- nothing calls the export in the split version: its only caller is `client.go:984`,
  so the root a peer answers with there is nil;
- case 132 of `HandleRequest` cannot be reached: types from 128 go to `HandleResponse`.

One more result, of the first version, is a property that holds: `ReturnsOrWedges`
says that `client.go` either ends or stops for ever with every token held by a call
that waits for its child. The split version gives the token back before it parses,
and `EveryCallReturns` shows it cannot stop that way.

## 6. What is not modelled, and why

- **The pages of the web interface, `GetPeerList`, `RegisterKey`**: pure I/O. The
  models take their success or failure as given.
- **Hash collisions, weak keys, the quality of random bits**: outside of a model of
  states. `ParsePubKey` and `FormatPubKey` convert and keep nothing.
- **Expiry of NAT mappings** and an address that changes: the code has no answer to
  either, and the documents promise none.
- **micro-ecc, the UART and ring buffer libraries, GMP**: external code, modelled by how
  the programs use it.
- **The attack of Franklin and Reiter (`Tcopper.c`)**: a chain of GMP calls on numbers
  far past what can be enumerated.
- **The signature of ElGamal** (`algorithme_signature_Elgamal.c`): its verification (32)
  hashes the message over the message, 20 bytes into the 8 of a parameter, which is
  undefined in C, and then compares powers in which the hash does not occur; there is
  no outcome to relate to a definition of signatures.
- **Sums past 32 bits in the simulator, and past the width of an `int` in the
  number theory**: undefined in C; the arguments stay below.
- **`list.c`** (the singly linked list, an older and smaller version of `dlist.c`),
  the exercises on pointers and allocation: nothing left to relate.
- **`clignotement_LED.c`, `main.c` of the authenticator's directory, and the exercises on
  LED, timer, UART and sleep**: each uses one mechanism of the authenticator.
- **The chat server and the server of peers of the exercises**: see the plan.
- **The notebooks of `Code Correcteur D'Erreur`**: algebra in a computer algebra
  system.

## 7. Plan

The order was: dispatcher and download first, since everything a user sees goes
through them; then the table and the session, which are shared by every goroutine;
then the authenticator and the export; then datagrams and the relay between several
copies of the program; then the list and the computations.

The proofs followed: counts and maps, then the refinements, then order and completeness
of the files; the table, the session and the relay; the authenticator; the export; the heap
and the contracts of the lists.

Next, in this order:

1. *Proofs*: the order and the completeness of the files for `LegacyDownload`, whose
   steps are those of `Transfer` too.
2. *Client*: `Discovery`, `Download` and `PeerTable` of two programs composed over
   the network of `Relay`, in place of an environment for each.
3. *The servers of the exercises*: the chat server with its polling clients and the
   server of peers (TP8).
4. *NATs whose mappings expire*, once the program keeps its associations alive.
