------------------------------ MODULE Download ------------------------------
(***************************************************************************)
(* The recursive download of a Merkle tree: DownloadDatum and ParseNode    *)
(* (treeMerkle.go) over the dispatcher, a UDP network that loses, delays,  *)
(* duplicates and reorders datagrams, and the serving peer.                *)
(*                                                                         *)
(* The unit of the model is the call of DownloadDatum.  Each call is for   *)
(* one occurrence of a node in the tree, so the calls are the members of   *)
(* Node, and Kids orders the calls that the ParseNode of a node makes.  A  *)
(* directory starts its entries as goroutines; a big node makes the calls  *)
(* one after the other.                                                    *)
(***************************************************************************)
EXTENDS Dispatcher, Naturals, Sequences, FiniteSets

CONSTANTS
    Node,           \* the occurrences of nodes in the downloaded trees
    Roots,          \* the calls made by DiscoveryRoutine, one per session
    Kids,           \* Node -> the sequence of its children
    Kind,           \* Node -> "chunk", "directory", "big" or "malformed"
    Path,           \* Node -> the file name DownloadDatum is called with
    Hash,           \* Node -> the hash asked for (a content stands for its hash)
    Data,           \* the contents a datum may have
    Writable,       \* the paths that can be opened for appending
    Junk,           \* a content that nobody asks for
    Short,          \* the body of a datum when it is shorter than a hash
    NoId,           \* idDatum outside of a turn
    Limit,          \* capacity of the channel downloadLimit
    MaxRetries,     \* maxRetries of DownloadDatum
    IdChoices,      \* Chan -> the identifiers that may be drawn for a request
    PeerAnswers     \* Data -> what the peer may answer to a request for it:
                    \* "datum", "nodatum", "junk" or "short"

Attempt == 1..MaxRetries
Paths == {Path[n] : n \in Node}
KidsOf(n) == {Kids[n][k] : k \in 1..Len(Kids[n])}

ASSUME DownloadAssumption ==
    /\ IsFiniteSet(Node) /\ Roots \subseteq Node /\ NoId \notin Id
    /\ Kids \in [Node -> Seq(Node)]
    /\ Kind \in [Node -> {"chunk", "directory", "big", "malformed"}]
    /\ Hash \in [Node -> Data] /\ {Junk, Short} \subseteq Data
    /\ \A n \in Node : Hash[n] \notin {Junk, Short}
    /\ DOMAIN Path = Node
    /\ Limit \in Nat \ {0} /\ MaxRetries \in Nat \ {0}
    /\ Chan = Node \X Attempt /\ Buffered = Chan
    /\ IdChoices \in [Chan -> SUBSET Id]
    /\ PeerAnswers \in [Data -> SUBSET {"datum", "nodatum", "junk", "short"}]
    /\ Reply = [id : Id, type : {132, 133}, claim : Data, data : Data]

(* The calls of ParseNode form a forest: a call is made by one parent, once. *)
ASSUME TreeAssumption ==
    /\ \A n, m \in Node : \A j \in DOMAIN Kids[n], k \in DOMAIN Kids[m] :
           Kids[n][j] = Kids[m][k] => n = m /\ j = k
    /\ \A n \in Node : KidsOf(n) \cap Roots = {}
    /\ \A n \in Node : Kind[n] \in {"chunk", "malformed"} => Kids[n] = <<>>

VARIABLES
    pc,             \* Node -> where the call is
    attempt,        \* Node -> the turn of the retry loop, 0 before the first
    reqId,          \* Node -> idDatum while it has an entry, else NoId
    got,            \* Node -> datumResp of that turn until it is checked, else NoReply
    slots,          \* number of tokens in downloadLimit
    files,          \* path -> what was appended to downloads/path, in order
    requests        \* DatumRequests sent: each may be answered any number of times

vars == <<dispatcherVars, pc, attempt, reqId, got, slots, files, requests>>

(* The call holds a token of downloadLimit: lines 80 to 93 or 116. *)
Holding == {"register", "send", "select", "release"}
(* The call has its entry in responseChannels: lines 87 to 95 or 118. *)
Entered == {"send", "select", "release", "delete"}
(* The call has returned, without and with an error. *)
Returned == {"done", "failed"}
Location == {"idle", "acquire", "register", "check", "children", "panicked"}
                \cup Holding \cup Entered \cup Returned

(* No goroutine has panicked: nothing recovers, so one would end them all. *)
Running == \A n \in Node : pc[n] # "panicked"

Appended == [node : Node, data : Data]
Request == [id : Id, hash : Data]

(* A call has a turn from the head of its loop on, and an identifier       *)
(* exactly while it has an entry in the map.                               *)
CallsInTurn ==
    \A n \in Node : /\ IF pc[n] \in {"idle", "acquire"}
                       THEN attempt[n] < MaxRetries ELSE attempt[n] # 0
                    /\ pc[n] \in Entered <=> reqId[n] # NoId

TypeOK ==
    /\ DispatcherTypeOK
    /\ pc \in [Node -> Location]
    /\ attempt \in [Node -> 0..MaxRetries]
    /\ reqId \in [Node -> Id \cup {NoId}]
    /\ CallsInTurn
    /\ got \in [Node -> Reply \cup {NoReply}]
    /\ slots \in 0..Limit
    /\ files \in [Paths -> Seq(Appended)]
    /\ requests \subseteq Request

Init ==
    /\ DispatcherInit
    /\ pc = [n \in Node |-> IF n \in Roots THEN "acquire" ELSE "idle"]
    /\ attempt = [n \in Node |-> 0]
    /\ reqId = [n \in Node |-> NoId]
    /\ got = [n \in Node |-> NoReply]
    /\ slots = 0
    /\ files = [p \in Paths |-> <<>>]
    /\ requests = {}

(* chDatum of the current turn. *)
ChanOf(n) == <<n, attempt[n]>>

(* End of a turn: datumResp goes out of scope. *)
EndTurn(n) ==
    /\ got' = [got EXCEPT ![n] = NoReply]
    /\ UNCHANGED <<dispatcherVars, attempt, reqId, slots, requests>>

Goto(n, l) == pc' = [pc EXCEPT ![n] = l]

callVars == <<attempt, reqId, got>>

(* The reply of the turn is a datum, and passes the two comparisons of its *)
(* hash: with the one it carries and with the one that was asked for.      *)
HasDatum(n) == got[n] # NoReply /\ got[n].type = 132
TooShort(n) == got[n].data = Short
ClaimHolds(n) == got[n].data = got[n].claim
Verified(n) == got[n].data = got[n].claim /\ got[n].data = Hash[n]
-----------------------------------------------------------------------------
(* Faulty variants of the actions below, for the runs that check that each *)
(* property can fail: a retry counter that is reset or compared with <=,   *)
(* a token or an entry kept on a timeout, an error not returned, the       *)
(* children of a big node fetched in parallel.                             *)
AcquireForever(n) ==
    /\ pc[n] = "acquire"
    /\ slots < Limit
    /\ slots' = slots + 1
    /\ attempt' = [attempt EXCEPT ![n] = 1]
    /\ Goto(n, "register")
    /\ UNCHANGED <<dispatcherVars, reqId, got, files, requests>>

ReleaseOnReplyOnly(n) ==
    /\ pc[n] = "release"
    /\ slots' = IF got[n] = NoReply THEN slots ELSE slots - 1
    /\ Goto(n, "delete")
    /\ UNCHANGED <<dispatcherVars, callVars, files, requests>>

DeleteOnReplyOnly(n) ==
    /\ pc[n] = "delete"
    /\ IF got[n] = NoReply THEN UNCHANGED responseChannels ELSE Unregister(reqId[n])
    /\ Forget(ChanOf(n))
    /\ reqId' = [reqId EXCEPT ![n] = NoId]
    /\ Goto(n, "check")
    /\ UNCHANGED <<attempt, got, slots, files, requests>>

RetryWithoutError(n) ==
    /\ pc[n] = "check"
    /\ ~HasDatum(n)
    /\ Goto(n, IF attempt[n] < MaxRetries THEN "acquire" ELSE "done")
    /\ UNCHANGED files
    /\ EndTurn(n)

ParseBigInParallel(n) ==
    /\ Kind[n] = "big"
    /\ pc' = [m \in Node |-> IF m \in KidsOf(n) THEN "acquire"
                             ELSE IF m = n THEN "children" ELSE pc[m]]
    /\ UNCHANGED files

CallKidAtOnce(n) ==
    /\ pc[n] = "children"
    /\ \E k \in DOMAIN Kids[n] :
           /\ pc[Kids[n][k]] = "idle"
           /\ Goto(Kids[n][k], "acquire")
    /\ UNCHANGED <<dispatcherVars, callVars, slots, files, requests>>
-----------------------------------------------------------------------------
(* downloadLimit <- struct{}{} at the head of each turn: blocks when full. *)
Acquire(n) ==
    /\ pc[n] = "acquire"
    /\ slots < Limit
    /\ slots' = slots + 1
    /\ attempt' = [attempt EXCEPT ![n] = @ + 1]
    /\ Goto(n, "register")
    /\ UNCHANGED <<dispatcherVars, reqId, got, files, requests>>

(* BuildDatumRequestPacket draws the identifier; the new channel, of       *)
(* capacity 1, is put in the map under it.                                 *)
NewRequest(n) ==
    /\ pc[n] = "register"
    /\ \E i \in IdChoices[ChanOf(n)] :
           /\ Register(i, ChanOf(n))
           /\ reqId' = [reqId EXCEPT ![n] = i]
    /\ Goto(n, "send")
    /\ UNCHANGED <<box, handlers, attempt, got, slots, files, requests>>

(* SendRequestToThePeer; its error is ignored, as the loss of the datagram. *)
SendRequest(n) ==
    /\ pc[n] = "send"
    /\ requests' = requests \cup {[id |-> reqId[n], hash |-> Hash[n]]}
    /\ Goto(n, "select")
    /\ UNCHANGED <<dispatcherVars, callVars, slots, files>>

(* case datumResp := <-chDatum *)
Receive(n) ==
    /\ pc[n] = "select"
    /\ box[ChanOf(n)] # NoReply
    /\ got' = [got EXCEPT ![n] = box[ChanOf(n)]]
    /\ box' = [box EXCEPT ![ChanOf(n)] = NoReply]
    /\ Goto(n, "release")
    /\ UNCHANGED <<responseChannels, handlers, attempt, reqId, slots, files, requests>>

(* case <-time.After(3 s).  A reply may be in the channel already: when    *)
(* both cases are ready, the select takes either.                          *)
Timeout(n) ==
    /\ pc[n] = "select"
    /\ got' = [got EXCEPT ![n] = NoReply]
    /\ Goto(n, "release")
    /\ UNCHANGED <<dispatcherVars, attempt, reqId, slots, files, requests>>

(* <-downloadLimit, the first statement of both cases of the select. *)
Release(n) ==
    /\ pc[n] = "release"
    /\ slots' = slots - 1
    /\ Goto(n, "delete")
    /\ UNCHANGED <<dispatcherVars, callVars, files, requests>>

(* delete(resultReqOrRep.responseChannels, idDatum), in both cases too.    *)
(* chDatum is not read after it, so the handlers that still hold it have   *)
(* no effect from here on and are forgotten.                               *)
DeleteEntry(n) ==
    /\ pc[n] = "delete"
    /\ Unregister(reqId[n])
    /\ Forget(ChanOf(n))
    /\ reqId' = [reqId EXCEPT ![n] = NoId]
    /\ Goto(n, "check")
    /\ UNCHANGED <<attempt, got, slots, files, requests>>

(* ParseNode of a chunk: append to the file.  An error of OpenFile (the    *)
(* path is a directory) is logged, and the call still succeeds.            *)
ParseChunk(n) ==
    /\ Kind[n] = "chunk"
    /\ IF Path[n] \in Writable
       THEN files' = [files EXCEPT ![Path[n]] =
                          Append(@, [node |-> n, data |-> got[n].data])]
       ELSE UNCHANGED files
    /\ Goto(n, "done")

(* ParseNode of a directory: one goroutine per entry, then it returns.  A  *)
(* goroutine that has not run yet is a call at its first statement.        *)
ParseDirectory(n) ==
    /\ Kind[n] = "directory"
    /\ pc' = [m \in Node |-> IF m \in KidsOf(n) THEN "acquire"
                             ELSE IF m = n THEN "done" ELSE pc[m]]
    /\ UNCHANGED files

(* ParseNode of a big node: enter the loop over the children. *)
ParseBig(n) ==
    /\ Kind[n] = "big"
    /\ Goto(n, "children")
    /\ UNCHANGED files

(* Unknown type or bad size: the error of ParseNode is logged, not returned. *)
ParseMalformed(n) ==
    /\ Kind[n] = "malformed"
    /\ Goto(n, "done")
    /\ UNCHANGED files

(* The datum is the one asked for: parse it (after the slot was released). *)
Parse(n) ==
    /\ pc[n] = "check"
    /\ HasDatum(n) /\ Verified(n)
    /\ ParseChunk(n) \/ ParseDirectory(n) \/ ParseBig(n) \/ ParseMalformed(n)
    /\ EndTurn(n)

(* Body[32:] of a datum with fewer than 32 bytes: a run-time panic, in a   *)
(* goroutine of the process that has no recover.                           *)
Panic(n) ==
    /\ pc[n] = "check"
    /\ HasDatum(n) /\ TooShort(n)
    /\ Goto(n, "panicked")
    /\ UNCHANGED files
    /\ EndTurn(n)

(* A datum with the wrong hash fails the call at once: no other turn. *)
RejectDatum(n) ==
    /\ pc[n] = "check"
    /\ HasDatum(n) /\ ~TooShort(n) /\ ~Verified(n)
    /\ Goto(n, "failed")
    /\ UNCHANGED files
    /\ EndTurn(n)

(* A timeout or a reply of another type: next turn, or the last error. *)
Retry(n) ==
    /\ pc[n] = "check"
    /\ ~HasDatum(n)
    /\ Goto(n, IF attempt[n] < MaxRetries THEN "acquire" ELSE "failed")
    /\ UNCHANGED files
    /\ EndTurn(n)

(* The loop of a big node calls its next child when the call for the       *)
(* previous one has returned; an error of that call is only logged.        *)
CallKid(n) ==
    /\ pc[n] = "children"
    /\ \E k \in DOMAIN Kids[n] :
           /\ \A j \in 1..(k - 1) : pc[Kids[n][j]] \in Returned
           /\ pc[Kids[n][k]] = "idle"
           /\ Goto(Kids[n][k], "acquire")
    /\ UNCHANGED <<dispatcherVars, callVars, slots, files, requests>>

(* End of the loop: ParseNode returns nil and DownloadDatum the datum. *)
EndKids(n) ==
    /\ pc[n] = "children"
    /\ \A m \in KidsOf(n) : pc[m] \in Returned
    /\ Goto(n, "done")
    /\ UNCHANGED <<dispatcherVars, callVars, slots, files, requests>>
-----------------------------------------------------------------------------
(* The peer: HandleRequest case 3 of the program at the other end answers  *)
(* with the datum (132) or NoDatum (133); a faulty one with bytes that do  *)
(* not have the hash before them, or with a body that has no room for a    *)
(* hash.  Bytes that have their hash but were not asked for come with the  *)
(* replies to other calls, when identifiers collide.                       *)
AnswerTo(q, a) ==
    CASE a = "datum"   -> [id |-> q.id, type |-> 132, claim |-> q.hash, data |-> q.hash]
      [] a = "nodatum" -> [id |-> q.id, type |-> 133, claim |-> q.hash, data |-> q.hash]
      [] a = "junk"    -> [id |-> q.id, type |-> 132, claim |-> q.hash, data |-> Junk]
      [] a = "short"   -> [id |-> q.id, type |-> 132, claim |-> Short, data |-> Short]

(* An answer to the request q reaches the socket, at any time after it was *)
(* sent, any number of times or never: ProcessPacket calls HandleResponse. *)
(* What ProcessPacket does next is a look-up of peerMap by address, which  *)
(* never finds the name the map is keyed by: no state of this module.      *)
Arrive(q) ==
    /\ \E a \in PeerAnswers[q.hash] : LookUp(q.id, AnswerTo(q, a))
    /\ UNCHANGED <<pc, callVars, slots, files, requests>>

(* No channel here is unbuffered, so no receiver has to be waiting. *)
Handle(h) ==
    /\ Deliver(h, {})
    /\ UNCHANGED <<pc, callVars, slots, files, requests>>

Call(n) ==
    \/ Acquire(n) \/ NewRequest(n) \/ SendRequest(n)
    \/ Receive(n) \/ Timeout(n) \/ Release(n) \/ DeleteEntry(n)
    \/ Parse(n) \/ Panic(n) \/ RejectDatum(n) \/ Retry(n)
    \/ CallKid(n) \/ EndKids(n)

AllReturned == \A n \in Node : pc[n] \in Returned \cup {"idle"}

(* Every goroutine has returned and the process stays up for the next      *)
(* session, or the process has ended.                                      *)
Finished == (AllReturned \/ ~Running) /\ UNCHANGED vars

Step ==
    \/ \E n \in Node : Call(n)
    \/ \E q \in requests : Arrive(q)
    \/ \E h \in handlers : Handle(h)

Next == (Running /\ Step) \/ Finished

Spec == Init /\ [][Next]_vars

(* While the process runs, goroutines are scheduled and timers fire; the   *)
(* waiters of a Go channel are served in turn.  Nothing is assumed of the  *)
(* network or of the peer.                                                 *)
Fairness == \A n \in Node : WF_vars(Running /\ Call(n))

FairSpec == Spec /\ Fairness
-----------------------------------------------------------------------------
(* Every token of downloadLimit belongs to a call between lines 80 and     *)
(* 93/116: none is lost over the timeouts, refusals and retries.  A lost   *)
(* token would shrink the number of parallel downloads for ever.           *)
SlotsMatchHolders == slots = Cardinality({n \in Node : pc[n] \in Holding})

(* When no two requests draw the same identifier, a waiting call can be    *)
(* reached: its channel is in the map under its identifier during the      *)
(* whole turn.  (With colliding identifiers a call may be cut off by       *)
(* another one and lose its turn to the timeout.)                          *)
WaitersAreRegistered ==
    \A n \in Node : pc[n] \in Entered => responseChannels[reqId[n]] = ChanOf(n)

(* Even with colliding identifiers, every entry of the map belongs to a    *)
(* turn in progress: no path through the select, the timeout included,     *)
(* leaves a dead channel behind for later replies to be sent to.           *)
NoStaleEntry ==
    \A i \in Id : Registered(i) =>
        \E n \in Node : /\ pc[n] \in Entered /\ reqId[n] = i
                       /\ responseChannels[i] = ChanOf(n)

(* The paths down the tree through nodes of some kinds. *)
Chains == UNION {[1..l -> Node] : l \in 1..Cardinality(Node)}
Below(n, m, kinds) ==
    \E c \in Chains :
        /\ c[1] = n /\ c[Len(c)] = m
        /\ \A i \in 1..(Len(c) - 1) : Kind[c[i]] \in kinds /\ c[i + 1] \in KidsOf(c[i])

(* The pairs whose first is to be fetched before the second: they lie      *)
(* below two children of one big node, with only big nodes in between.     *)
ComesBefore ==
    {p \in Node \X Node :
        \E n \in Node : \E j, k \in DOMAIN Kids[n] :
            /\ Kind[n] = "big" /\ j < k
            /\ Below(Kids[n][j], p[1], {"big"}) /\ Below(Kids[n][k], p[2], {"big"})}

(* Whatever is lost, late, repeated, refused or forged: in a file no chunk *)
(* is there twice or before one that comes before it, and each has the     *)
(* content asked for.  O_APPEND and the order of the calls are all that    *)
(* places a chunk (treeMerkle.go:33, 62).                                  *)
ChunksAreInOrder ==
    \A p \in Paths : \A i \in DOMAIN files[p] :
        /\ files[p][i].data = Hash[files[p][i].node]
        /\ \A j \in DOMAIN files[p] : i < j =>
               /\ files[p][i].node # files[p][j].node
               /\ <<files[p][j].node, files[p][i].node>> \notin ComesBefore

(* When every call has returned and none has failed, every chunk below a   *)
(* root has been written, although nobody joins the goroutines of a        *)
(* directory (treeMerkle.go:55) and the errors of children are dropped.    *)
CleanSessionIsComplete ==
    (AllReturned /\ \A m \in Node : pc[m] # "failed") =>
        \A n \in Roots, x \in Node :
            /\ Below(n, x, {"directory", "big"})
            /\ Kind[x] = "chunk" /\ Path[x] \in Writable
            => \E i \in DOMAIN files[Path[x]] : files[Path[x]][i].node = x

(* Every call returns, whatever the network loses and whatever the peer    *)
(* answers, unless a datum with no room for a hash has ended the process:  *)
(* tokens are not held while children are downloaded, so nested big nodes  *)
(* cannot exhaust them.                                                    *)
EveryCallReturns ==
    \A n \in Node : pc[n] # "idle" ~> (pc[n] \in Returned \/ ~Running)

(* Mapping to the abstract transfer: a call is settled when its ParseNode  *)
(* or its last error is reached; tokens, turns and channels disappear.     *)
Status == [n \in Node |->
    CASE pc[n] = "children" -> "open"
      [] pc[n] = "done" -> "done"
      [] pc[n] = "failed" -> "lost"
      [] OTHER -> "todo"]

T == INSTANCE Transfer WITH status <- Status, Sequential <- {"big"}

(* The download with its retries, tokens and handlers implements Transfer. *)
TransferSpec == T!Spec
=============================================================================
