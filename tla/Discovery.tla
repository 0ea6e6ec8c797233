----------------------------- MODULE Discovery ------------------------------
(***************************************************************************)
(* DiscoveryRoutine (controlProtocol.go) as the goroutine of the /download *)
(* button runs it: find an address, exchange Hello then Root, download the *)
(* tree, and at last send a Hello through the relay.  Each exchange waits  *)
(* on an unbuffered channel of the dispatcher, and deletes its entry only  *)
(* when it got a reply.                                                    *)
(***************************************************************************)
EXTENDS Dispatcher, Naturals, FiniteSets

CONSTANTS
    Routine,        \* the goroutines: one per click
    NoId,
    IdChoices,      \* Chan -> the identifiers that may be drawn
    HelloReplyType, \* type of a HelloReply: 130, or 129 in client.go
    PeerRefuses     \* whether the peer may answer with an Error datagram

Stage == {"hello", "root"}
ErrorType == 129

ASSUME DiscoveryAssumption ==
    /\ Chan = Routine \X Stage /\ Buffered = {}
    /\ IdChoices \in [Chan -> SUBSET Id] /\ NoId \notin Id
    /\ HelloReplyType \in {129, 130} /\ PeerRefuses \in BOOLEAN
    /\ Reply = [id : Id, type : {HelloReplyType, ErrorType, 131},
                is : {"HelloReply", "Error", "RootReply"}]

VARIABLES
    pc,         \* Routine -> where it is
    stage,      \* Routine -> the exchange it is in
    reqId,      \* Chan -> the identifier drawn for it, or NoId
    got,        \* Chan -> the reply it received, or NoReply
    requests,   \* Hello (1) and RootRequest (2) datagrams sent
    forwarded   \* routines whose relayed Hello was sent

vars == <<dispatcherVars, pc, stage, reqId, got, requests, forwarded>>
callVars == <<stage, reqId, got, requests, forwarded>>

Location == {"start", "register", "send", "select", "delete", "check",
             "download", "forward", "ended"}
Request == [id : Id, type : {1, 2}]

TypeOK ==
    /\ DispatcherTypeOK
    /\ pc \in [Routine -> Location]
    /\ stage \in [Routine -> Stage]
    /\ reqId \in [Chan -> Id \cup {NoId}]
    /\ got \in [Chan -> Reply \cup {NoReply}]
    /\ \A d \in Routine :
           /\ pc[d] \in {"send", "select", "delete"} => reqId[<<d, stage[d]>>] # NoId
           /\ pc[d] \in {"delete", "check"} => got[<<d, stage[d]>>] # NoReply
    /\ requests \subseteq Request
    /\ forwarded \subseteq Routine

Init ==
    /\ DispatcherInit
    /\ pc = [d \in Routine |-> "start"]
    /\ stage = [d \in Routine |-> "hello"]
    /\ reqId = [c \in Chan |-> NoId]
    /\ got = [c \in Chan |-> NoReply]
    /\ requests = {}
    /\ forwarded = {}

Goto(d, l) == pc' = [pc EXCEPT ![d] = l]
ChanOf(d) == <<d, stage[d]>>

(* The channels whose owner is blocked in its select. *)
Receivers == {ChanOf(d) : d \in {e \in Routine :
                  pc[e] = "select" /\ box[ChanOf(e)] = NoReply}}

(* The identifier of an exchange: generateRandomId, anew for each.  The    *)
(* variant gives the RootRequest the identifier of the Hello.              *)
IdForBoth(d) == IdChoices[<<d, "hello">>]
IdFor(d) == IdChoices[ChanOf(d)]

(* Variants: a reply that leaves its entry in the map; a timeout that is   *)
(* taken for a reply, or that sends the request again for ever; a channel  *)
(* made with a buffer.                                                     *)
KeepEntry(d) ==
    /\ pc[d] = "delete"
    /\ Goto(d, "check")
    /\ UNCHANGED <<dispatcherVars, callVars>>
TimeoutAsReply(d) ==
    /\ pc[d] = "select" /\ box[ChanOf(d)] = NoReply
    /\ Goto(d, "check")
    /\ UNCHANGED <<dispatcherVars, callVars>>
HandleBuffered(h) ==
    /\ Deliver(h, Chan)
    /\ UNCHANGED <<pc, callVars>>
TimeoutAgain(d) ==
    /\ pc[d] = "select" /\ box[ChanOf(d)] = NoReply
    /\ Goto(d, "send")
    /\ UNCHANGED <<dispatcherVars, callVars>>
-----------------------------------------------------------------------------
(* GetPeerAddresses: without an address the goroutine is over. *)
FindAddress(d) ==
    /\ pc[d] = "start"
    /\ Goto(d, "register") \/ Goto(d, "ended")
    /\ UNCHANGED <<dispatcherVars, callVars>>

(* The packet and its identifier, the channel and its entry. *)
NewRequest(d) ==
    /\ pc[d] = "register"
    /\ \E i \in IdFor(d) :
           /\ Register(i, ChanOf(d))
           /\ reqId' = [reqId EXCEPT ![ChanOf(d)] = i]
    /\ Goto(d, "send")
    /\ UNCHANGED <<box, handlers, stage, got, requests, forwarded>>

SendRequest(d) ==
    /\ pc[d] = "send"
    /\ requests' = requests \cup
           {[id |-> reqId[ChanOf(d)], type |-> IF stage[d] = "hello" THEN 1 ELSE 2]}
    /\ Goto(d, "select")
    /\ UNCHANGED <<dispatcherVars, stage, reqId, got, forwarded>>

(* The reply handed over by a handler. *)
Receive(d) ==
    /\ pc[d] = "select"
    /\ box[ChanOf(d)] # NoReply
    /\ got' = [got EXCEPT ![ChanOf(d)] = box[ChanOf(d)]]
    /\ box' = [box EXCEPT ![ChanOf(d)] = NoReply]
    /\ Goto(d, "delete")
    /\ UNCHANGED <<responseChannels, handlers, stage, reqId, requests, forwarded>>

DeleteEntry(d) ==
    /\ pc[d] = "delete"
    /\ Unregister(reqId[ChanOf(d)])
    /\ Goto(d, "check")
    /\ UNCHANGED <<box, handlers, callVars>>

(* After 3 s (Hello: an error) or 5 s (Root: a message) nothing came; the  *)
(* entry stays in the map.                                                 *)
Timeout(d) ==
    /\ pc[d] = "select" /\ box[ChanOf(d)] = NoReply
    /\ Goto(d, "forward")
    /\ UNCHANGED <<dispatcherVars, callVars>>

(* if resp.Type == 129: the Hello was refused. *)
HelloRefused(d) ==
    /\ pc[d] = "check" /\ stage[d] = "hello"
    /\ got[ChanOf(d)].type = ErrorType
    /\ Goto(d, "forward")
    /\ UNCHANGED <<dispatcherVars, callVars>>

(* Any other type is taken for a HelloReply: on to the root. *)
HelloAccepted(d) ==
    /\ pc[d] = "check" /\ stage[d] = "hello"
    /\ got[ChanOf(d)].type # ErrorType
    /\ stage' = [stage EXCEPT ![d] = "root"]
    /\ Goto(d, "register")
    /\ UNCHANGED <<dispatcherVars, reqId, got, requests, forwarded>>

(* Type 131 with a body of one hash: DownloadDatum of it.  Any other reply *)
(* is logged, one of type 131 with another length too, so that it need not *)
(* be told from them.                                                      *)
RootReceived(d) ==
    /\ pc[d] = "check" /\ stage[d] = "root"
    /\ Goto(d, IF got[ChanOf(d)].type = 131 THEN "download" ELSE "forward")
    /\ UNCHANGED <<dispatcherVars, callVars>>

(* The download is module Download; here it only ends (its panic on a      *)
(* datum shorter than a hash would end the process, and every click).      *)
EndDownload(d) ==
    /\ pc[d] = "download"
    /\ Goto(d, "forward")
    /\ UNCHANGED <<dispatcherVars, callVars>>

(* BuildForwardPacket to the relay, whatever became of the exchanges: no   *)
(* channel waits for an answer to the relayed Hello.                       *)
SendForward(d) ==
    /\ pc[d] = "forward"
    /\ forwarded' = forwarded \cup {d}
    /\ Goto(d, "ended")
    /\ UNCHANGED <<dispatcherVars, stage, reqId, got, requests>>

(* The peer answers: HandleRequest cases 1 and 2 of the program at the     *)
(* other end, or an Error datagram of another implementation.              *)
Answers(q) ==
    (IF q.type = 1 THEN {[id |-> q.id, type |-> HelloReplyType, is |-> "HelloReply"]}
     ELSE {[id |-> q.id, type |-> 131, is |-> "RootReply"]})
    \cup (IF PeerRefuses THEN {[id |-> q.id, type |-> ErrorType, is |-> "Error"]} ELSE {})

Arrive(q) ==
    /\ \E r \in Answers(q) : LookUp(q.id, r)
    /\ UNCHANGED <<pc, callVars>>

Handle(h) ==
    /\ Deliver(h, Receivers)
    /\ UNCHANGED <<pc, callVars>>
-----------------------------------------------------------------------------
Run(d) ==
    \/ FindAddress(d) \/ NewRequest(d) \/ SendRequest(d) \/ Receive(d)
    \/ DeleteEntry(d) \/ Timeout(d) \/ HelloRefused(d) \/ HelloAccepted(d)
    \/ RootReceived(d) \/ EndDownload(d) \/ SendForward(d)

AllEnded == \A d \in Routine : pc[d] = "ended"
Finished == AllEnded /\ UNCHANGED vars

Next ==
    \/ \E d \in Routine : Run(d)
    \/ \E q \in requests : Arrive(q)
    \/ \E h \in handlers : Handle(h)
    \/ Finished

Spec == Init /\ [][Next]_vars
FairSpec == Spec /\ \A d \in Routine : WF_vars(Run(d))
-----------------------------------------------------------------------------
(* The exchange c is over without a reply, or over with one. *)
Waiting(c) == pc[c[1]] \in {"send", "select", "delete"} /\ stage[c[1]] = c[2]
TimedOut(c) == reqId[c] # NoId /\ got[c] = NoReply /\ ~Waiting(c)

(* When no RootRequest draws the identifier of a Hello, a HelloReply that  *)
(* arrives late is never read as the RootReply, and none is lost by being  *)
(* taken for another stage; two clicks may still take each other's reply.  *)
RepliesMatchTheirStage ==
    \A c \in Chan : got[c] # NoReply =>
        got[c].is \in {IF c[2] = "hello" THEN "HelloReply" ELSE "RootReply", "Error"}

(* The map grows by at most one entry per timeout and by nothing else: an  *)
(* entry belongs to an exchange in progress or to one that timed out.      *)
EntriesAreWaitingOrLeaked ==
    \A i \in Id : Registered(i) =>
        Waiting(responseChannels[i]) \/ TimedOut(responseChannels[i])

(* A reply that is taken was sent by a handler while the routine waited:   *)
(* no value is left behind in a channel nobody reads.                      *)
NothingLeftInChannels ==
    \A c \in Chan : box[c] # NoReply => pc[c[1]] = "select" /\ stage[c[1]] = c[2]

(* Whatever times out, is answered late or is answered to the other click, *)
(* the shared map and the channels hold what an exchange still waits for,  *)
(* and of a timed-out one its entry alone.                                 *)
NothingIsLeftBehind == EntriesAreWaitingOrLeaked /\ NothingLeftInChannels

(* A click always ends, with the relayed Hello unless the peer has no      *)
(* address: the two exchanges cannot hang, even when the reply came before *)
(* the select and was dropped.                                             *)
EveryClickEnds ==
    \A d \in Routine : pc[d] = "register" ~> (pc[d] = "ended" /\ d \in forwarded)

(* session_log.txt records "Association réussie (Type reçu: 130)": a peer  *)
(* that answers a Hello with its HelloReply is not taken for a refusal.    *)
HelloReplyIsNoRefusal ==
    \A d \in Routine :
        (pc[d] = "check" /\ stage[d] = "hello" /\ got[ChanOf(d)].is = "HelloReply")
            => ~ENABLED HelloRefused(d)
=============================================================================
