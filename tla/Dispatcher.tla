----------------------------- MODULE Dispatcher -----------------------------
(***************************************************************************)
(* The request/response correlation of the peer-to-peer client: the global *)
(* resultReqOrRep (a mutex-protected map from datagram identifiers to Go   *)
(* channels) and HandleResponse, which runs in one goroutine per datagram. *)
(*                                                                         *)
(* The module has no Next of its own: DownloadDatum (module Download) and  *)
(* DiscoveryRoutine (module Discovery) extend it with the goroutines that  *)
(* register channels and wait on them.                                     *)
(***************************************************************************)
CONSTANTS
    Id,         \* datagram identifiers: the uint32 of generateRandomId
    Chan,       \* the channels ever made, one per request
    Buffered,   \* those made with capacity 1; the others are unbuffered
    Reply,      \* the response datagrams a handler may hold
    NoChan,     \* "no entry" in the map
    NoReply     \* "nothing" in a channel

ASSUME DispatcherAssumption ==
    /\ Buffered \subseteq Chan
    /\ NoChan \notin Chan
    /\ NoReply \notin Reply

VARIABLES
    responseChannels,   \* Id -> the channel registered under it, or NoChan
    box,                \* Chan -> the reply handed to it and not yet taken
    handlers            \* HandleResponse goroutines between RUnlock and send

dispatcherVars == <<responseChannels, box, handlers>>

(* A HandleResponse goroutine keeps the channel it read under the lock. *)
Handler == [chan : Chan, reply : Reply]

DispatcherTypeOK ==
    /\ responseChannels \in [Id -> Chan \cup {NoChan}]
    /\ box \in [Chan -> Reply \cup {NoReply}]
    /\ handlers \subseteq Handler

DispatcherInit ==
    /\ responseChannels = [i \in Id |-> NoChan]
    /\ box = [c \in Chan |-> NoReply]
    /\ handlers = {}

Registered(i) == responseChannels[i] # NoChan

(* Lock; responseChannels[i] = c; Unlock.  A colliding entry is replaced. *)
Register(i, c) == responseChannels' = [responseChannels EXCEPT ![i] = c]

(* Lock; delete(responseChannels, i); Unlock: whoever the entry belongs to. *)
Unregister(i) == responseChannels' = [responseChannels EXCEPT ![i] = NoChan]

(* The goroutine that made c will not read it again: what handlers do with *)
(* c has no effect any more, and the model forgets it.                     *)
Forget(c) ==
    /\ box' = [box EXCEPT ![c] = NoReply]
    /\ handlers' = {h \in handlers : h.chan # c}

(* Variant: the look-up removes the entry, as if each request had exactly  *)
(* one reply, used at once.                                                *)
LookUpAndDelete(i, r) ==
    /\ Registered(i)
    /\ handlers' = handlers \cup {[chan |-> responseChannels[i], reply |-> r]}
    /\ responseChannels' = [responseChannels EXCEPT ![i] = NoChan]
    /\ UNCHANGED box

(***************************************************************************)
(* First half of HandleResponse: the look-up under RLock.  Without an      *)
(* entry the handler returns an error and nothing changes.  Two handlers   *)
(* of equal datagrams that read the same channel are one member of the     *)
(* set: the send of the second finds the box full, or a channel that       *)
(* nobody reads again, so it changes nothing that is ever read.            *)
(***************************************************************************)
LookUp(i, r) ==
    /\ Registered(i)
    /\ handlers' = handlers \cup {[chan |-> responseChannels[i], reply |-> r]}
    /\ UNCHANGED <<responseChannels, box>>

(* A non-blocking send on c succeeds: room in the buffer, or a receiver    *)
(* (the channels of `receivers') blocked in its select.                    *)
CanSend(c, receivers) ==
    IF c \in Buffered THEN box[c] = NoReply ELSE c \in receivers

(* Second half of HandleResponse: select { case ch <- r: default: }.  A    *)
(* reply for which there is neither room nor receiver is dropped.          *)
Deliver(h, receivers) ==
    /\ h \in handlers
    /\ handlers' = handlers \ {h}
    /\ IF CanSend(h.chan, receivers)
       THEN box' = [box EXCEPT ![h.chan] = h.reply]
       ELSE UNCHANGED box
    /\ UNCHANGED responseChannels
=============================================================================
