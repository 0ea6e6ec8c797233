--------------------------- MODULE LegacyDownload ---------------------------
(***************************************************************************)
(* The download of the first version of the client (client.go), which      *)
(* differs from module Download in what matters most here:                 *)
(*   - the token of downloadLimit is given back by a deferred function, so *)
(*     a call keeps it while ParseNode downloads the children;             *)
(*   - directories, like big nodes, are followed one entry at a time;      *)
(*   - one turn, an unbuffered channel, and no delete after a timeout;     *)
(*   - a timeout and an unexpected reply return no data and no error.      *)
(***************************************************************************)
EXTENDS Dispatcher, Naturals, Sequences, FiniteSets

CONSTANTS
    Node, Roots, Kids, Kind, Path, Hash, Data, Writable,   \* as in Download
    Short,          \* the body of a datum when it is shorter than a hash
    NoId,
    Limit,          \* capacity of downloadLimit (10 in client.go)
    IdChoices,      \* Node -> the identifiers that may be drawn
    PeerAnswers     \* what the peer answers: "datum", "nodatum" or "short"

Paths == {Path[n] : n \in Node}
KidsOf(n) == {Kids[n][k] : k \in 1..Len(Kids[n])}

ASSUME LegacyAssumption ==
    /\ IsFiniteSet(Node) /\ Roots \subseteq Node /\ NoId \notin Id
    /\ Kids \in [Node -> Seq(Node)]
    /\ Kind \in [Node -> {"chunk", "directory", "big", "malformed"}]
    /\ Hash \in [Node -> Data \ {Short}] /\ Short \in Data /\ DOMAIN Path = Node
    /\ Limit \in Nat \ {0}
    /\ Chan = Node /\ Buffered = {}
    /\ IdChoices \in [Chan -> SUBSET Id]
    /\ PeerAnswers \subseteq {"datum", "nodatum", "short"}
    /\ Reply = [id : Id, type : {132, 133}, data : Data]

(* One DiscoveryRoutine makes one call, and every other call is made by    *)
(* one ParseNode, once.                                                    *)
ASSUME TreeAssumption ==
    /\ \A n, m \in Roots : n = m
    /\ \A n, m \in Node : \A j \in DOMAIN Kids[n], k \in DOMAIN Kids[m] :
           Kids[n][j] = Kids[m][k] => n = m /\ j = k
    /\ \A n \in Node : KidsOf(n) \cap Roots = {}

VARIABLES
    pc,         \* Node -> where the call is
    reqId,      \* Node -> idDatum once drawn
    got,        \* Node -> datumResp until it is checked
    outcome,    \* Node -> what the call returns: "data", "empty" or "error"
    slots,      \* tokens in downloadLimit
    files,
    requests

vars == <<dispatcherVars, pc, reqId, got, outcome, slots, files, requests>>

(* Between the first statement and the deferred one: lines 818 to 857.  A  *)
(* call that panics goes no further.                                       *)
Open == {"register", "send", "select", "delete", "check", "children", "return", "panicked"}
Entered == {"send", "select", "delete"}
Location == Open \cup {"idle", "acquire", "returned"}

(* No goroutine has panicked: nothing recovers, so one would end them all. *)
Running == \A n \in Node : pc[n] # "panicked"

TypeOK ==
    /\ DispatcherTypeOK
    /\ pc \in [Node -> Location]
    /\ reqId \in [Node -> Id \cup {NoId}]
    /\ got \in [Node -> Reply \cup {NoReply}]
    /\ outcome \in [Node -> {"none", "data", "empty", "error"}]
    /\ \A n \in Node : pc[n] \in {"return", "returned"} <=> outcome[n] # "none"
    /\ slots \in 0..Limit
    /\ files \in [Paths -> Seq([node : Node, data : Data])]
    /\ requests \subseteq [id : Id, hash : Data]

Init ==
    /\ DispatcherInit
    /\ pc = [n \in Node |-> IF n \in Roots THEN "acquire" ELSE "idle"]
    /\ reqId = [n \in Node |-> NoId]
    /\ got = [n \in Node |-> NoReply]
    /\ outcome = [n \in Node |-> "none"]
    /\ slots = 0
    /\ files = [p \in Paths |-> <<>>]
    /\ requests = {}

Goto(n, l) == pc' = [pc EXCEPT ![n] = l]

(* A return statement: the deferred release runs next. *)
ReturnWith(n, o) ==
    /\ Goto(n, "return")
    /\ outcome' = [outcome EXCEPT ![n] = o]

HasDatum(n) == got[n].type = 132
TooShort(n) == got[n].data = Short
Verified(n) == got[n].data = Hash[n]

(* The calls blocked in their select with nothing handed to them yet. *)
Receivers == {n \in Node : pc[n] = "select" /\ box[n] = NoReply}

(* Faulty variants, for the runs that check that each property can fail:   *)
(* a timeout that gives the token back before the deferred release does,   *)
(* an error return that skips the release, a release that blocks, a loop   *)
(* that does not wait for the child, a send that does not look for a       *)
(* receiver.                                                               *)
TimeoutReleasing(n) ==
    /\ n \in Receivers
    /\ slots' = slots - 1
    /\ ReturnWith(n, "empty")
    /\ UNCHANGED <<dispatcherVars, reqId, got, files, requests>>

ReturnKeepingToken(n) ==
    /\ pc[n] = "return"
    /\ slots' = IF outcome[n] = "error" THEN slots ELSE slots - 1
    /\ Goto(n, "returned")
    /\ UNCHANGED <<dispatcherVars, reqId, got, outcome, files, requests>>

ReturnBusy(n) ==
    /\ pc[n] = "return"
    /\ slots' = IF outcome[n] = "data" THEN slots - 1 ELSE slots
    /\ Goto(n, IF outcome[n] = "data" THEN "returned" ELSE "return")
    /\ UNCHANGED <<dispatcherVars, reqId, got, outcome, files, requests>>

CallKidAtOnce(n) ==
    /\ pc[n] = "children"
    /\ \E m \in KidsOf(n) : pc[m] = "idle" /\ Goto(m, "acquire")
    /\ UNCHANGED <<dispatcherVars, reqId, got, outcome, slots, files, requests>>

DeliverAnyway(h) ==
    /\ h \in handlers
    /\ handlers' = handlers \ {h}
    /\ box' = [box EXCEPT ![h.chan] = h.reply]
    /\ UNCHANGED <<responseChannels, pc, reqId, got, outcome, slots, files, requests>>
-----------------------------------------------------------------------------
Acquire(n) ==
    /\ pc[n] = "acquire"
    /\ slots < Limit
    /\ slots' = slots + 1
    /\ Goto(n, "register")
    /\ UNCHANGED <<dispatcherVars, reqId, got, outcome, files, requests>>

NewRequest(n) ==
    /\ pc[n] = "register"
    /\ \E i \in IdChoices[n] :
           /\ Register(i, n)
           /\ reqId' = [reqId EXCEPT ![n] = i]
    /\ Goto(n, "send")
    /\ UNCHANGED <<box, handlers, got, outcome, slots, files, requests>>

SendRequest(n) ==
    /\ pc[n] = "send"
    /\ requests' = requests \cup {[id |-> reqId[n], hash |-> Hash[n]]}
    /\ Goto(n, "select")
    /\ UNCHANGED <<dispatcherVars, reqId, got, outcome, slots, files>>

(* case datumResp := <-chDatum: the handler found this call waiting. *)
Receive(n) ==
    /\ pc[n] = "select"
    /\ box[n] # NoReply
    /\ got' = [got EXCEPT ![n] = box[n]]
    /\ box' = [box EXCEPT ![n] = NoReply]
    /\ Goto(n, "delete")
    /\ UNCHANGED <<responseChannels, handlers, reqId, outcome, slots, files, requests>>

(* case <-time.After(5 s): the entry stays in responseChannels. *)
Timeout(n) ==
    /\ n \in Receivers
    /\ ReturnWith(n, "empty")
    /\ UNCHANGED <<dispatcherVars, reqId, got, slots, files, requests>>

DeleteEntry(n) ==
    /\ pc[n] = "delete"
    /\ Unregister(reqId[n])
    /\ Goto(n, "check")
    /\ UNCHANGED <<box, handlers, reqId, got, outcome, slots, files, requests>>

(* ParseNode of a chunk, a malformed node, a directory or a big node. *)
ParseLeaf(n) ==
    /\ Kind[n] \in {"chunk", "malformed"}
    /\ files' = IF Kind[n] = "chunk" /\ Path[n] \in Writable
                THEN [files EXCEPT ![Path[n]] =
                          Append(@, [node |-> n, data |-> got[n].data])]
                ELSE files
    /\ ReturnWith(n, "data")

ParseInner(n) ==
    /\ Kind[n] \in {"directory", "big"}
    /\ Goto(n, "children")
    /\ UNCHANGED <<files, outcome>>

Parse(n) ==
    /\ pc[n] = "check"
    /\ HasDatum(n) /\ Verified(n)
    /\ ParseLeaf(n) \/ ParseInner(n)
    /\ got' = [got EXCEPT ![n] = NoReply]
    /\ UNCHANGED <<dispatcherVars, reqId, slots, requests>>

(* Body[32:] of a datum with fewer than 32 bytes: a run-time panic that    *)
(* nothing recovers.                                                       *)
Panic(n) ==
    /\ pc[n] = "check"
    /\ HasDatum(n) /\ TooShort(n)
    /\ Goto(n, "panicked")
    /\ got' = [got EXCEPT ![n] = NoReply]
    /\ UNCHANGED <<dispatcherVars, reqId, outcome, slots, files, requests>>

(* A wrong hash is an error; a reply of another type is no data, no error. *)
Reject(n) ==
    /\ pc[n] = "check"
    /\ ~(HasDatum(n) /\ (TooShort(n) \/ Verified(n)))
    /\ ReturnWith(n, IF HasDatum(n) THEN "error" ELSE "empty")
    /\ got' = [got EXCEPT ![n] = NoReply]
    /\ UNCHANGED <<dispatcherVars, reqId, slots, files, requests>>

CallKid(n) ==
    /\ pc[n] = "children"
    /\ \E k \in DOMAIN Kids[n] :
           /\ \A j \in 1..(k - 1) : pc[Kids[n][j]] = "returned"
           /\ pc[Kids[n][k]] = "idle"
           /\ Goto(Kids[n][k], "acquire")
    /\ UNCHANGED <<dispatcherVars, reqId, got, outcome, slots, files, requests>>

EndKids(n) ==
    /\ pc[n] = "children"
    /\ \A m \in KidsOf(n) : pc[m] = "returned"
    /\ ReturnWith(n, "data")
    /\ UNCHANGED <<dispatcherVars, reqId, got, slots, files, requests>>

(* defer func() { <-downloadLimit }() *)
Return(n) ==
    /\ pc[n] = "return"
    /\ slots' = slots - 1
    /\ Goto(n, "returned")
    /\ UNCHANGED <<dispatcherVars, reqId, got, outcome, files, requests>>

AnswerTo(q, a) ==
    [id |-> q.id, type |-> IF a = "nodatum" THEN 133 ELSE 132,
     data |-> IF a = "short" THEN Short ELSE q.hash]

(* The peer answers a request, any number of times, whenever it likes. *)
Arrive(q) ==
    /\ \E a \in PeerAnswers : LookUp(q.id, AnswerTo(q, a))
    /\ UNCHANGED <<pc, reqId, got, outcome, slots, files, requests>>

Handle(h) ==
    /\ Deliver(h, Receivers)
    /\ UNCHANGED <<pc, reqId, got, outcome, slots, files, requests>>
-----------------------------------------------------------------------------
Call(n) ==
    \/ Acquire(n) \/ NewRequest(n) \/ SendRequest(n)
    \/ Receive(n) \/ Timeout(n) \/ DeleteEntry(n)
    \/ Parse(n) \/ Panic(n) \/ Reject(n)
    \/ CallKid(n) \/ EndKids(n) \/ Return(n)

AllReturned == \A n \in Node : pc[n] \in {"idle", "returned"}
Finished == (AllReturned \/ ~Running) /\ UNCHANGED vars

Step ==
    \/ \E n \in Node : Call(n)
    \/ \E q \in requests : Arrive(q)
    \/ \E h \in handlers : Handle(h)

Next == (Running /\ Step) \/ Finished

Spec == Init /\ [][Next]_vars

(* While the process runs, goroutines are scheduled and timers fire. *)
FairSpec == Spec /\ \A n \in Node : WF_vars(Running /\ Call(n))
-----------------------------------------------------------------------------
(* The tokens in use are the open calls, and these are the calls on one    *)
(* path of the tree, each waiting for the next: the depth of the recursion *)
(* is what fills downloadLimit, not the number of parallel requests.       *)
TokensAreDepth ==
    /\ slots = Cardinality({n \in Node : pc[n] \in Open})
    /\ \A n \in Node \ Roots : pc[n] \notin {"idle", "returned"} =>
           \E m \in Node : n \in KidsOf(m) /\ pc[m] = "children"
    /\ \A n, m \in Node :
           pc[n] \in Open /\ pc[m] \in Open /\ n # m =>
               "children" \in {pc[n], pc[m]}

(* A map entry outlives its call exactly when the call timed out, and a    *)
(* late reply then finds nobody: it is dropped, the channel stays empty    *)
(* and no handler blocks on it.                                            *)
LeaksAreHarmless ==
    /\ \A i \in Id : Registered(i) =>
           \/ pc[responseChannels[i]] \in Entered
           \/ outcome[responseChannels[i]] = "empty"
    /\ \A n \in Node : pc[n] \in {"return", "returned"} => box[n] = NoReply

(* All tokens are held by calls that wait for a child, and the child waits *)
(* for a token: the recursion is stuck for ever.                           *)
Wedged ==
    /\ slots = Limit
    /\ \A n \in Node : pc[n] \in Open => pc[n] = "children"
    /\ \E n \in Node : pc[n] = "acquire"

(* Whatever the depth, the program ends or reaches that wedge for ever,    *)
(* unless a datum with no room for a hash has ended the process: there is  *)
(* no other way for the download to hang.                                  *)
ReturnsOrWedges == <>[](AllReturned \/ Wedged \/ ~Running)

(* Up to a wedge, this version too implements Transfer, with directories   *)
(* as sequential as big nodes.                                             *)
Status == [n \in Node |->
    IF pc[n] = "children" THEN "open"
    ELSE IF outcome[n] = "data" THEN "done"
    ELSE IF outcome[n] \in {"empty", "error"} THEN "lost"
    ELSE "todo"]

T == INSTANCE Transfer WITH status <- Status, Sequential <- {"big", "directory"}
TransferSpec == T!Spec
=============================================================================
