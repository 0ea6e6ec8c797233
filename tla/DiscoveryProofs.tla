-------------------------- MODULE DiscoveryProofs ---------------------------
(***************************************************************************)
(* What the exchanges of Discovery leave behind, and which reply they      *)
(* read, for every set of clicks and every way of drawing identifiers.     *)
(***************************************************************************)
EXTENDS Discovery, TLAPS

(* The channel of an exchange that has not drawn its identifier. *)
Current(c) == stage[c[1]] = c[2]
Unused(c) ==
    \/ Current(c) /\ pc[c[1]] \in {"start", "register"}
    \/ ~Current(c) /\ stage[c[1]] = "hello"

(* An exchange draws one identifier and receives one reply, the second     *)
(* exchange after the first.                                               *)
OneByOne ==
    \A c \in Chan :
        /\ Unused(c) => reqId[c] = NoId
        /\ Unused(c) \/ (Current(c) /\ pc[c[1]] \in {"send", "select"}) => got[c] = NoReply

(* An entry is under the identifier its exchange drew: the entries of an   *)
(* exchange are one at most, the one it will delete.                       *)
EntriesAreNamed ==
    \A i \in Id : Registered(i) => reqId[responseChannels[i]] = i

LeftInv == TypeOK /\ OneByOne /\ EntriesAreNamed /\ NothingIsLeftBehind

LEMMA ChanFacts ==
  /\ \A c \in Chan : c[1] \in Routine /\ c[2] \in Stage
  /\ TypeOK => \A d \in Routine : /\ ChanOf(d) \in Chan
                                  /\ ChanOf(d)[1] = d /\ ChanOf(d)[2] = stage[d]
                                  /\ ChanOf(d) = <<d, stage[d]>>
                                  /\ Current(ChanOf(d))
  /\ \A c \in Chan : Current(c) => c = ChanOf(c[1])
  BY DiscoveryAssumption DEF ChanOf, TypeOK, Current

LEMMA InitLeft == Init => LeftInv
<1> SUFFICES ASSUME Init PROVE LeftInv
  OBVIOUS
<1>1. TypeOK
  BY DiscoveryAssumption, DispatcherAssumption
  DEF Init, DispatcherInit, TypeOK, DispatcherTypeOK, Location, Stage
<1>2. OneByOne /\ EntriesAreNamed /\ NothingIsLeftBehind
  BY DEF Init, DispatcherInit, OneByOne, EntriesAreNamed, NothingIsLeftBehind,
         EntriesAreWaitingOrLeaked, NothingLeftInChannels, Registered
<1> QED BY <1>1, <1>2 DEF LeftInv

(* A step of d that touches neither its identifiers nor its replies, and   *)
(* at which it is not waiting before or after.                             *)
LEMMA WalkStep ==
  ASSUME LeftInv, NEW d \in Routine,
         \/ FindAddress(d) \/ HelloRefused(d) \/ RootReceived(d) \/ EndDownload(d) \/ SendForward(d)
  PROVE  LeftInv'
<1> USE DEF Goto, callVars, dispatcherVars
<1>1. /\ UNCHANGED <<responseChannels, box, handlers, stage, reqId, got, requests>>
      /\ pc[d] \in {"start", "check", "download", "forward"}
      /\ \E l \in {"register", "download", "forward", "ended"} :
            pc' = [pc EXCEPT ![d] = l] /\ (l = "register" => pc[d] = "start")
      /\ forwarded' \subseteq Routine
  BY DEF FindAddress, HelloRefused, RootReceived, EndDownload, SendForward, LeftInv, TypeOK
<1>2. PICK l \in {"register", "download", "forward", "ended"} :
            pc' = [pc EXCEPT ![d] = l] /\ (l = "register" => pc[d] = "start")
  BY <1>1
<1>3. /\ pc'[d] = l
      /\ \A e \in Routine : e # d => pc'[e] = pc[e]
  BY <1>2 DEF LeftInv, TypeOK
<1>4. TypeOK'
  BY <1>1, <1>2, <1>3 DEF LeftInv, TypeOK, DispatcherTypeOK, Location
<1>5. OneByOne'
  BY <1>1, <1>3, ChanFacts DEF LeftInv, OneByOne, Unused, Current
<1>6. EntriesAreNamed'
  BY <1>1 DEF LeftInv, EntriesAreNamed, Registered
<1>7. \A c \in Chan : Waiting(c)' <=> Waiting(c)
  BY <1>1, <1>3, ChanFacts DEF Waiting
<1>8. EntriesAreWaitingOrLeaked'
  <2>1. \A i \in Id : Registered(i) => responseChannels[i] \in Chan
    BY DEF LeftInv, TypeOK, DispatcherTypeOK, Registered
  <2> QED BY <1>1, <1>7, <2>1 DEF LeftInv, NothingIsLeftBehind, EntriesAreWaitingOrLeaked,
             Registered, TimedOut
<1>9. NothingLeftInChannels'
  BY <1>1, <1>3, ChanFacts DEF LeftInv, NothingIsLeftBehind, NothingLeftInChannels
<1> QED BY <1>4, <1>5, <1>6, <1>8, <1>9 DEF LeftInv, NothingIsLeftBehind

(* The parts of the invariant that only name entries of the map. *)
LEMMA EntryChan ==
  ASSUME TypeOK, NEW i \in Id, Registered(i)
  PROVE  responseChannels[i] \in Chan
  BY DEF TypeOK, DispatcherTypeOK, Registered

LEMMA NewRequestStep ==
  ASSUME LeftInv, NEW d \in Routine, NewRequest(d)
  PROVE  LeftInv'
<1> USE DEF Goto
<1> DEFINE c == ChanOf(d)
<1>0. TypeOK /\ c \in Chan /\ c[1] = d /\ c[2] = stage[d] /\ Current(c)
  BY ChanFacts DEF LeftInv
<1>1. PICK i \in IdChoices[c] : /\ responseChannels' = [responseChannels EXCEPT ![i] = c]
                               /\ reqId' = [reqId EXCEPT ![c] = i]
  BY DEF NewRequest, IdFor, Register
<1>2. i \in Id /\ i # NoId
  BY <1>0, DiscoveryAssumption
<1>3. /\ pc[d] = "register" /\ pc' = [pc EXCEPT ![d] = "send"]
      /\ UNCHANGED <<box, handlers, stage, got, requests, forwarded>>
  BY DEF NewRequest
<1>4. /\ pc'[d] = "send" /\ \A e \in Routine : e # d => pc'[e] = pc[e]
      /\ reqId'[c] = i /\ \A b \in Chan : b # c => reqId'[b] = reqId[b]
      /\ responseChannels'[i] = c
      /\ \A j \in Id : j # i => responseChannels'[j] = responseChannels[j]
  BY <1>0, <1>1, <1>2, <1>3 DEF TypeOK, DispatcherTypeOK
<1>5. reqId[c] = NoId /\ got[c] = NoReply
  BY <1>0, <1>3 DEF LeftInv, OneByOne, Unused
<1> HIDE DEF c
<1>6. TypeOK'
  <2>1. /\ responseChannels' \in [Id -> Chan \cup {NoChan}]
        /\ reqId' \in [Chan -> Id \cup {NoId}]
        /\ pc' \in [Routine -> Location]
    BY <1>0, <1>1, <1>2, <1>3 DEF TypeOK, DispatcherTypeOK, Location
  <2>2. \A e \in Routine : e # d => ChanOf(e) # c
    BY DEF c, ChanOf
  <2>3. \A e \in Routine : ChanOf(e) \in Chan /\ ChanOf(e) = <<e, stage[e]>>
    BY <1>0, ChanFacts
  <2>4. \A e \in Routine :
           /\ pc'[e] \in {"send", "select", "delete"} => reqId'[<<e, stage'[e]>>] # NoId
           /\ pc'[e] \in {"delete", "check"} => got'[<<e, stage'[e]>>] # NoReply
    BY <1>0, <1>2, <1>3, <1>4, <2>2, <2>3 DEF TypeOK, c
  <2> QED BY <1>0, <1>3, <2>1, <2>4 DEF TypeOK, DispatcherTypeOK
<1>7. OneByOne'
  BY <1>0, <1>3, <1>4, ChanFacts DEF LeftInv, OneByOne, Unused, Current, c
<1>8. EntriesAreNamed'
  <2> SUFFICES ASSUME NEW j \in Id, responseChannels'[j] # NoChan
               PROVE  reqId'[responseChannels'[j]] = j
    BY DEF EntriesAreNamed, Registered
  <2>1. CASE j = i
    BY <1>4, <2>1
  <2>2. CASE j # i
    BY <1>0, <1>2, <1>4, <1>5, <2>2, EntryChan, DiscoveryAssumption DEF LeftInv, EntriesAreNamed, Registered
  <2> QED BY <2>1, <2>2
<1>9. \A b \in Chan : Waiting(b) \/ b = c => Waiting(b)'
  BY <1>0, <1>3, <1>4, ChanFacts DEF Waiting
<1>10. \A b \in Chan : TimedOut(b) => TimedOut(b)'
  BY <1>0, <1>3, <1>4, <1>5, ChanFacts DEF TimedOut, Waiting, Current, c
<1>11. EntriesAreWaitingOrLeaked'
  <2> SUFFICES ASSUME NEW j \in Id, responseChannels'[j] # NoChan
               PROVE  (Waiting(responseChannels[j]) \/ TimedOut(responseChannels[j]))'
    BY DEF EntriesAreWaitingOrLeaked, Registered
  <2>1. CASE j = i
    BY <1>0, <1>4, <1>9, <2>1
  <2>2. CASE j # i
    BY <1>0, <1>4, <1>9, <1>10, <2>2, EntryChan
    DEF LeftInv, NothingIsLeftBehind, EntriesAreWaitingOrLeaked, Registered
  <2> QED BY <2>1, <2>2
<1>12. NothingLeftInChannels'
  BY <1>0, <1>3, <1>4, ChanFacts DEF LeftInv, NothingIsLeftBehind, NothingLeftInChannels
<1> QED BY <1>6, <1>7, <1>8, <1>11, <1>12 DEF LeftInv, NothingIsLeftBehind

LEMMA SendStep ==
  ASSUME LeftInv, NEW d \in Routine, SendRequest(d)
  PROVE  LeftInv'
<1> USE DEF Goto, dispatcherVars
<1>0. TypeOK /\ ChanOf(d) \in Chan /\ ChanOf(d) = <<d, stage[d]>>
  BY ChanFacts DEF LeftInv
<1>1. /\ pc[d] = "send" /\ pc' = [pc EXCEPT ![d] = "select"]
      /\ UNCHANGED <<responseChannels, box, handlers, stage, reqId, got, forwarded>>
  BY DEF SendRequest
<1>2. pc'[d] = "select" /\ \A e \in Routine : e # d => pc'[e] = pc[e]
  BY <1>0, <1>1 DEF TypeOK
<1>3. TypeOK'
  <2>1. reqId[ChanOf(d)] \in Id
    BY <1>0, <1>1 DEF TypeOK
  <2>2. requests' \subseteq Request
    BY <1>0, <2>1 DEF SendRequest, TypeOK, Request
  <2> QED BY <1>0, <1>1, <1>2, <2>2 DEF TypeOK, DispatcherTypeOK, Location
<1>4. OneByOne'
  BY <1>1, <1>2, ChanFacts DEF LeftInv, OneByOne, Unused, Current
<1>5. EntriesAreNamed'
  BY <1>1 DEF LeftInv, EntriesAreNamed, Registered
<1>6. \A c \in Chan : Waiting(c)' <=> Waiting(c)
  BY <1>1, <1>2, ChanFacts DEF Waiting
<1>7. EntriesAreWaitingOrLeaked'
  BY <1>0, <1>1, <1>6, EntryChan
  DEF LeftInv, NothingIsLeftBehind, EntriesAreWaitingOrLeaked, Registered, TimedOut
<1>8. NothingLeftInChannels'
  BY <1>1, <1>2, ChanFacts DEF LeftInv, NothingIsLeftBehind, NothingLeftInChannels
<1> QED BY <1>3, <1>4, <1>5, <1>7, <1>8 DEF LeftInv, NothingIsLeftBehind

LEMMA ReceiveStep ==
  ASSUME LeftInv, NEW d \in Routine, Receive(d)
  PROVE  LeftInv'
<1> USE DEF Goto
<1> DEFINE c == ChanOf(d)
<1>0. TypeOK /\ c \in Chan /\ c[1] = d /\ c[2] = stage[d] /\ c = <<d, stage[d]>> /\ Current(c)
  BY ChanFacts DEF LeftInv
<1>1. /\ pc[d] = "select" /\ pc' = [pc EXCEPT ![d] = "delete"]
      /\ box[c] # NoReply
      /\ got' = [got EXCEPT ![c] = box[c]] /\ box' = [box EXCEPT ![c] = NoReply]
      /\ UNCHANGED <<responseChannels, handlers, stage, reqId, requests, forwarded>>
  BY DEF Receive
<1>2. /\ pc'[d] = "delete" /\ \A e \in Routine : e # d => pc'[e] = pc[e]
      /\ got'[c] # NoReply /\ \A b \in Chan : b # c => got'[b] = got[b]
      /\ box'[c] = NoReply /\ \A b \in Chan : b # c => box'[b] = box[b]
  BY <1>0, <1>1 DEF TypeOK, DispatcherTypeOK
<1> HIDE DEF c
<1>3. TypeOK'
  <2>1. \A e \in Routine : ChanOf(e) \in Chan /\ ChanOf(e) = <<e, stage[e]>>
    BY <1>0, ChanFacts
  <2>2. /\ box' \in [Chan -> Reply \cup {NoReply}] /\ got' \in [Chan -> Reply \cup {NoReply}]
        /\ pc' \in [Routine -> Location]
    BY <1>0, <1>1 DEF TypeOK, DispatcherTypeOK, Location
  <2>3. \A e \in Routine :
           /\ pc'[e] \in {"send", "select", "delete"} => reqId'[<<e, stage'[e]>>] # NoId
           /\ pc'[e] \in {"delete", "check"} => got'[<<e, stage'[e]>>] # NoReply
    BY <1>0, <1>1, <1>2, <2>1 DEF TypeOK
  <2> QED BY <1>0, <1>1, <2>2, <2>3 DEF TypeOK, DispatcherTypeOK
<1>4. OneByOne'
  BY <1>0, <1>1, <1>2, ChanFacts DEF LeftInv, OneByOne, Unused, Current
<1>5. EntriesAreNamed'
  BY <1>1 DEF LeftInv, EntriesAreNamed, Registered
<1>6. \A b \in Chan : (Waiting(b)' <=> Waiting(b)) /\ (b = c => Waiting(b))
  BY <1>0, <1>1, <1>2, ChanFacts DEF Waiting
<1>7. \A b \in Chan : TimedOut(b) => TimedOut(b)'
  BY <1>1, <1>2, <1>6 DEF TimedOut
<1>8. EntriesAreWaitingOrLeaked'
  BY <1>0, <1>1, <1>6, <1>7, EntryChan
  DEF LeftInv, NothingIsLeftBehind, EntriesAreWaitingOrLeaked, Registered
<1>9. NothingLeftInChannels'
  <2> SUFFICES ASSUME NEW b \in Chan, box'[b] # NoReply
               PROVE  pc'[b[1]] = "select" /\ stage'[b[1]] = b[2]
    BY DEF NothingLeftInChannels
  <2>1. pc[b[1]] = "select" /\ stage[b[1]] = b[2] /\ b # c
    BY <1>2 DEF LeftInv, NothingIsLeftBehind, NothingLeftInChannels
  <2>2. b[1] # d
    BY <2>1, ChanFacts DEF c, Current
  <2> QED BY <1>1, <1>2, <2>1, <2>2, ChanFacts
<1> QED BY <1>3, <1>4, <1>5, <1>8, <1>9 DEF LeftInv, NothingIsLeftBehind

LEMMA DeleteStep ==
  ASSUME LeftInv, NEW d \in Routine, DeleteEntry(d)
  PROVE  LeftInv'
<1> USE DEF Goto, callVars
<1> DEFINE c == ChanOf(d)
<1>0. TypeOK /\ c \in Chan /\ c[1] = d /\ c[2] = stage[d] /\ c = <<d, stage[d]>> /\ Current(c)
  BY ChanFacts DEF LeftInv
<1>1. /\ pc[d] = "delete" /\ pc' = [pc EXCEPT ![d] = "check"]
      /\ responseChannels' = [responseChannels EXCEPT ![reqId[c]] = NoChan]
      /\ UNCHANGED <<box, handlers, stage, reqId, got, requests, forwarded>>
  BY DEF DeleteEntry, Unregister
<1>2. pc'[d] = "check" /\ \A e \in Routine : e # d => pc'[e] = pc[e]
  BY <1>0, <1>1 DEF TypeOK
<1>3. \A j \in Id : responseChannels'[j] # NoChan =>
          /\ responseChannels'[j] = responseChannels[j] /\ Registered(j) /\ j # reqId[c]
          /\ responseChannels[j] \in Chan
  BY <1>0, <1>1, EntryChan DEF TypeOK, DispatcherTypeOK, Registered
<1> HIDE DEF c
<1>4. TypeOK'
  <2>1. \A e \in Routine : ChanOf(e) \in Chan /\ ChanOf(e) = <<e, stage[e]>>
    BY <1>0, ChanFacts
  <2>2. responseChannels' \in [Id -> Chan \cup {NoChan}] /\ pc' \in [Routine -> Location]
    BY <1>0, <1>1 DEF TypeOK, DispatcherTypeOK, Location
  <2>3. \A e \in Routine :
           /\ pc'[e] \in {"send", "select", "delete"} => reqId'[<<e, stage'[e]>>] # NoId
           /\ pc'[e] \in {"delete", "check"} => got'[<<e, stage'[e]>>] # NoReply
    BY <1>0, <1>1, <1>2, <2>1 DEF TypeOK
  <2> QED BY <1>0, <1>1, <2>2, <2>3 DEF TypeOK, DispatcherTypeOK
<1>5. OneByOne'
  BY <1>0, <1>1, <1>2, ChanFacts DEF LeftInv, OneByOne, Unused, Current
<1>6. EntriesAreNamed'
  BY <1>1, <1>3 DEF LeftInv, EntriesAreNamed, Registered
<1>7. \A b \in Chan : b # c => (Waiting(b)' <=> Waiting(b))
  BY <1>0, <1>1, <1>2, ChanFacts DEF Waiting, c, Current
<1>8. EntriesAreWaitingOrLeaked'
  <2> SUFFICES ASSUME NEW j \in Id, responseChannels'[j] # NoChan
               PROVE  (Waiting(responseChannels[j]) \/ TimedOut(responseChannels[j]))'
    BY DEF EntriesAreWaitingOrLeaked, Registered
  <2>1. responseChannels[j] # c
    BY <1>3 DEF LeftInv, EntriesAreNamed
  <2>2. Waiting(responseChannels[j]) \/ TimedOut(responseChannels[j])
    BY <1>3 DEF LeftInv, NothingIsLeftBehind, EntriesAreWaitingOrLeaked
  <2> QED BY <1>1, <1>3, <1>7, <2>1, <2>2 DEF TimedOut
<1>9. NothingLeftInChannels'
  BY <1>0, <1>1, <1>2, ChanFacts DEF LeftInv, NothingIsLeftBehind, NothingLeftInChannels
<1> QED BY <1>4, <1>5, <1>6, <1>8, <1>9 DEF LeftInv, NothingIsLeftBehind

LEMMA TimeoutStep ==
  ASSUME LeftInv, NEW d \in Routine, Timeout(d)
  PROVE  LeftInv'
<1> USE DEF Goto, callVars, dispatcherVars
<1>0. TypeOK /\ ChanOf(d) \in Chan /\ ChanOf(d) = <<d, stage[d]>>
  BY ChanFacts DEF LeftInv
<1>1. /\ pc[d] = "select" /\ pc' = [pc EXCEPT ![d] = "forward"] /\ box[ChanOf(d)] = NoReply
      /\ UNCHANGED <<responseChannels, box, handlers, stage, reqId, got, requests, forwarded>>
  BY DEF Timeout
<1>2. pc'[d] = "forward" /\ \A e \in Routine : e # d => pc'[e] = pc[e]
  BY <1>0, <1>1 DEF TypeOK
<1>3. TypeOK'
  BY <1>0, <1>1, <1>2 DEF TypeOK, DispatcherTypeOK, Location
<1>4. OneByOne'
  BY <1>1, <1>2, ChanFacts DEF LeftInv, OneByOne, Unused, Current
<1>5. EntriesAreNamed'
  BY <1>1 DEF LeftInv, EntriesAreNamed, Registered
<1>6. \A b \in Chan : Waiting(b) \/ TimedOut(b) => Waiting(b)' \/ TimedOut(b)'
  <2> SUFFICES ASSUME NEW b \in Chan, Waiting(b) \/ TimedOut(b), ~Waiting(b)'
               PROVE  TimedOut(b)'
    OBVIOUS
  <2>1. CASE TimedOut(b)
    BY <1>1, <2>1 DEF TimedOut
  <2>2. CASE Waiting(b)
    <3>1. b[1] = d /\ Current(b)
      BY <1>1, <1>2, <2>2, ChanFacts DEF Waiting, Current
    <3>2. b = <<d, stage[d]>>
      BY <1>0, <3>1, ChanFacts
    <3>3. got[b] = NoReply /\ reqId[b] # NoId
      BY <1>0, <1>1, <3>1, <3>2 DEF LeftInv, OneByOne, TypeOK
    <3> QED BY <1>1, <3>3 DEF TimedOut
  <2> QED BY <2>1, <2>2
<1>7. EntriesAreWaitingOrLeaked'
  <2> SUFFICES ASSUME NEW j \in Id, responseChannels'[j] # NoChan
               PROVE  (Waiting(responseChannels[j]) \/ TimedOut(responseChannels[j]))'
    BY DEF EntriesAreWaitingOrLeaked, Registered
  <2>1. Registered(j) /\ responseChannels'[j] = responseChannels[j] /\ responseChannels[j] \in Chan
    BY <1>0, <1>1, EntryChan DEF Registered
  <2> QED BY <1>6, <2>1 DEF LeftInv, NothingIsLeftBehind, EntriesAreWaitingOrLeaked
<1>8. NothingLeftInChannels'
  <2> SUFFICES ASSUME NEW b \in Chan, box'[b] # NoReply
               PROVE  pc'[b[1]] = "select" /\ stage'[b[1]] = b[2]
    BY DEF NothingLeftInChannels
  <2>1. pc[b[1]] = "select" /\ Current(b) /\ b # ChanOf(d)
    BY <1>1 DEF LeftInv, NothingIsLeftBehind, NothingLeftInChannels, Current
  <2>2. b[1] # d
    BY <2>1, ChanFacts
  <2> QED BY <1>1, <1>2, <2>1, <2>2, ChanFacts DEF Current
<1> QED BY <1>3, <1>4, <1>5, <1>7, <1>8 DEF LeftInv, NothingIsLeftBehind

(* The Hello is answered: its exchange is over, without an entry. *)
LEMMA AcceptedStep ==
  ASSUME LeftInv, NEW d \in Routine, HelloAccepted(d)
  PROVE  LeftInv'
<1> USE DEF Goto, dispatcherVars
<1>0. TypeOK /\ ChanOf(d) \in Chan /\ ChanOf(d) = <<d, stage[d]>>
  BY ChanFacts DEF LeftInv
<1>1. /\ pc[d] = "check" /\ pc' = [pc EXCEPT ![d] = "register"]
      /\ stage[d] = "hello" /\ stage' = [stage EXCEPT ![d] = "root"]
      /\ UNCHANGED <<responseChannels, box, handlers, reqId, got, requests, forwarded>>
  BY DEF HelloAccepted
<1>2. /\ pc'[d] = "register" /\ \A e \in Routine : e # d => pc'[e] = pc[e]
      /\ stage'[d] = "root" /\ \A e \in Routine : e # d => stage'[e] = stage[e]
  BY <1>0, <1>1 DEF TypeOK
<1>3. TypeOK'
  <2>1. pc' \in [Routine -> Location] /\ stage' \in [Routine -> Stage]
    BY <1>0, <1>1 DEF TypeOK, Location, Stage
  <2> QED BY <1>0, <1>1, <1>2, <2>1 DEF TypeOK, DispatcherTypeOK
<1>4. OneByOne'
  BY <1>1, <1>2, ChanFacts DEF LeftInv, OneByOne, Unused, Current, Stage
<1>5. EntriesAreNamed'
  BY <1>1 DEF LeftInv, EntriesAreNamed, Registered
<1>6. \A b \in Chan : Waiting(b)' <=> Waiting(b)
  BY <1>1, <1>2, ChanFacts DEF Waiting
<1>7. EntriesAreWaitingOrLeaked'
  BY <1>0, <1>1, <1>6, EntryChan
  DEF LeftInv, NothingIsLeftBehind, EntriesAreWaitingOrLeaked, Registered, TimedOut
<1>8. NothingLeftInChannels'
  BY <1>1, <1>2, ChanFacts DEF LeftInv, NothingIsLeftBehind, NothingLeftInChannels
<1> QED BY <1>3, <1>4, <1>5, <1>7, <1>8 DEF LeftInv, NothingIsLeftBehind

LEMMA ArriveStep ==
  ASSUME LeftInv, NEW q \in requests, Arrive(q)
  PROVE  LeftInv'
<1> USE DEF callVars
<1>0. TypeOK
  BY DEF LeftInv
<1>1. PICK r \in Answers(q) : LookUp(q.id, r)
  BY DEF Arrive
<1>2. UNCHANGED <<responseChannels, box, pc, stage, reqId, got, requests, forwarded>>
  BY <1>1 DEF Arrive, LookUp
<1>3. q.id \in Id
  BY <1>0 DEF TypeOK, Request
<1>4. r \in Reply
  BY <1>3, DiscoveryAssumption DEF Answers, ErrorType
<1>5. handlers' \subseteq Handler
  BY <1>0, <1>1, <1>3, <1>4, EntryChan DEF LookUp, TypeOK, DispatcherTypeOK, Handler
<1>6. TypeOK'
  BY <1>0, <1>2, <1>5 DEF TypeOK, DispatcherTypeOK
<1> QED
  BY <1>2, <1>6 DEF LeftInv, OneByOne, Unused, Current, EntriesAreNamed, Registered,
     NothingIsLeftBehind, EntriesAreWaitingOrLeaked, NothingLeftInChannels, Waiting, TimedOut

(* A reply is handed over only to a routine that is in its select. *)
LEMMA HandleStep ==
  ASSUME LeftInv, NEW h \in handlers, Handle(h)
  PROVE  LeftInv'
<1> USE DEF callVars
<1>0. TypeOK /\ h.chan \in Chan /\ h.reply \in Reply
  BY DEF LeftInv, TypeOK, DispatcherTypeOK, Handler
<1>1. /\ UNCHANGED <<responseChannels, pc, stage, reqId, got, requests, forwarded>>
      /\ handlers' = handlers \ {h}
      /\ \/ h.chan \in Receivers /\ box' = [box EXCEPT ![h.chan] = h.reply]
         \/ box' = box
  BY DiscoveryAssumption DEF Handle, Deliver, CanSend
<1>2. h.chan \in Receivers => pc[h.chan[1]] = "select" /\ stage[h.chan[1]] = h.chan[2]
  BY <1>0, ChanFacts DEF Receivers
<1>3. TypeOK'
  BY <1>0, <1>1 DEF TypeOK, DispatcherTypeOK
<1>4. NothingLeftInChannels'
  BY <1>0, <1>1, <1>2 DEF LeftInv, NothingIsLeftBehind, NothingLeftInChannels, TypeOK, DispatcherTypeOK
<1> QED
  BY <1>1, <1>3, <1>4 DEF LeftInv, OneByOne, Unused, Current, EntriesAreNamed, Registered,
     NothingIsLeftBehind, EntriesAreWaitingOrLeaked, Waiting, TimedOut

LEMMA LeftStep == LeftInv /\ [Next]_vars => LeftInv'
<1> SUFFICES ASSUME LeftInv, [Next]_vars PROVE LeftInv'
  OBVIOUS
<1>1. ASSUME NEW d \in Routine, Run(d) PROVE LeftInv'
  BY <1>1, WalkStep, NewRequestStep, SendStep, ReceiveStep, DeleteStep, TimeoutStep, AcceptedStep
  DEF Run
<1>2. CASE UNCHANGED vars
  BY <1>2 DEF vars, dispatcherVars, LeftInv, TypeOK, DispatcherTypeOK, OneByOne, Unused, Current,
     EntriesAreNamed, Registered, NothingIsLeftBehind, EntriesAreWaitingOrLeaked,
     NothingLeftInChannels, Waiting, TimedOut
<1> QED BY <1>1, <1>2, ArriveStep, HandleStep DEF Next, Finished

(* The invariant of the exchanges, inductive. *)
THEOREM LeftInvariant == Spec => []LeftInv
  BY InitLeft, LeftStep, PTL DEF Spec

(* Every variable of Discovery keeps its type. *)
THEOREM TypeCorrect == Spec => []TypeOK
  BY LeftInvariant, PTL DEF LeftInv

(* With any number of clicks, whatever identifiers collide and whatever    *)
(* times out or comes late: an entry of the map is waited for or was left  *)
(* by a timeout, and no channel holds a reply that nobody reads.           *)
THEOREM LittleIsLeftBehind == Spec => []NothingIsLeftBehind
  BY LeftInvariant, PTL DEF LeftInv
-----------------------------------------------------------------------------
(* generateRandomId draws no identifier both for a Hello and for a         *)
(* RootRequest; two Hellos may still draw the same one.                    *)
StagesShareNoId ==
    \A a, b \in Chan : a[2] # b[2] => IdChoices[a] \cap IdChoices[b] = {}

Expected(s) == {IF s = "hello" THEN "HelloReply" ELSE "RootReply", "Error"}
StageOf(q) == IF q.type = 1 THEN "hello" ELSE "root"

(* From the request to the reply that is read, the identifier carries the  *)
(* stage: the datagram sent, the entry it finds, the handler that took the *)
(* channel from the entry, and the channel.                                *)
Drawn == \A c \in Chan : reqId[c] # NoId => reqId[c] \in IdChoices[c]
RequestsMatch == \A q \in requests : \E c \in Chan : c[2] = StageOf(q) /\ q.id \in IdChoices[c]
HandlersMatch == \A h \in handlers : h.reply.is \in Expected(h.chan[2])
BoxesMatch == \A c \in Chan : box[c] # NoReply => box[c].is \in Expected(c[2])
RepliesMatch == \A c \in Chan : got[c] # NoReply => got[c].is \in Expected(c[2])
MatchInv == Drawn /\ RequestsMatch /\ HandlersMatch /\ BoxesMatch /\ RepliesMatch

LEMMA AnswersMatch ==
  ASSUME NEW q \in Request, NEW r \in Answers(q)
  PROVE  r.is \in Expected(StageOf(q))
  BY DEF Answers, Expected, StageOf, Request

LEMMA ArriveMatches ==
  ASSUME StagesShareNoId, LeftInv, MatchInv, NEW q \in requests, Arrive(q)
  PROVE  MatchInv'
<1>1. PICK r \in Answers(q) : LookUp(q.id, r)
  BY DEF Arrive
<1>2. q \in Request /\ q.id \in Id /\ TypeOK
  BY DEF LeftInv, TypeOK, Request
<1> DEFINE c == responseChannels[q.id]
<1>3. c \in Chan /\ reqId[c] = q.id
  BY <1>1, <1>2, EntryChan DEF LookUp, LeftInv, EntriesAreNamed
<1>4. q.id \in IdChoices[c]
  BY <1>2, <1>3, DiscoveryAssumption DEF MatchInv, Drawn
<1>5. c[2] = StageOf(q)
  BY <1>3, <1>4 DEF MatchInv, RequestsMatch, StagesShareNoId
<1>6. r.is \in Expected(c[2])
  BY <1>2, <1>5, AnswersMatch
<1>7. HandlersMatch'
  BY <1>1, <1>6 DEF LookUp, MatchInv, HandlersMatch
<1>8. UNCHANGED <<box, reqId, got, requests>>
  BY <1>1 DEF Arrive, LookUp, callVars
<1> QED BY <1>7, <1>8 DEF MatchInv, Drawn, RequestsMatch, BoxesMatch, RepliesMatch

LEMMA HandleMatches ==
  ASSUME LeftInv, MatchInv, NEW h \in handlers, Handle(h)
  PROVE  MatchInv'
<1>1. h.chan \in Chan /\ h.reply \in Reply
  BY DEF LeftInv, TypeOK, DispatcherTypeOK, Handler
<1>2. /\ UNCHANGED <<reqId, got, requests>> /\ handlers' = handlers \ {h}
      /\ box' = [box EXCEPT ![h.chan] = h.reply] \/ box' = box
  BY DEF Handle, Deliver, callVars
<1>3. BoxesMatch'
  BY <1>1, <1>2 DEF MatchInv, BoxesMatch, HandlersMatch, LeftInv, TypeOK, DispatcherTypeOK
<1> QED BY <1>2, <1>3 DEF MatchInv, Drawn, RequestsMatch, HandlersMatch, RepliesMatch

LEMMA RunMatches ==
  ASSUME LeftInv, MatchInv, NEW d \in Routine, Run(d)
  PROVE  MatchInv'
<1> USE DEF callVars, dispatcherVars
<1>0. TypeOK /\ ChanOf(d) \in Chan /\ ChanOf(d)[2] = stage[d] /\ ChanOf(d) = <<d, stage[d]>>
  BY ChanFacts DEF LeftInv
<1>1. CASE UNCHANGED <<handlers, box, reqId, got, requests>>
  BY <1>1 DEF MatchInv, Drawn, RequestsMatch, HandlersMatch, BoxesMatch, RepliesMatch
<1>2. CASE NewRequest(d)
  <2>1. PICK i \in IdChoices[ChanOf(d)] : reqId' = [reqId EXCEPT ![ChanOf(d)] = i]
    BY <1>2 DEF NewRequest, IdFor
  <2>2. Drawn'
    BY <1>0, <2>1 DEF MatchInv, Drawn, TypeOK
  <2> QED BY <1>2, <2>2
      DEF NewRequest, MatchInv, RequestsMatch, HandlersMatch, BoxesMatch, RepliesMatch
<1>3. CASE SendRequest(d)
  <2> DEFINE q == [id |-> reqId[ChanOf(d)], type |-> IF stage[d] = "hello" THEN 1 ELSE 2]
  <2>1. requests' = requests \cup {q}
    BY <1>3 DEF SendRequest
  <2>2. q.id \in IdChoices[ChanOf(d)]
    BY <1>0, <1>3 DEF SendRequest, MatchInv, Drawn, TypeOK
  <2>3. StageOf(q) = stage[d]
    BY <1>0 DEF StageOf, TypeOK, Stage
  <2>4. RequestsMatch'
    BY <1>0, <2>1, <2>2, <2>3 DEF MatchInv, RequestsMatch
  <2> QED BY <1>3, <2>4 DEF SendRequest, MatchInv, Drawn, HandlersMatch, BoxesMatch, RepliesMatch
<1>4. CASE Receive(d)
  <2>1. /\ got' = [got EXCEPT ![ChanOf(d)] = box[ChanOf(d)]]
        /\ box' = [box EXCEPT ![ChanOf(d)] = NoReply]
    BY <1>4 DEF Receive
  <2>2. RepliesMatch' /\ BoxesMatch'
    BY <1>0, <2>1 DEF MatchInv, RepliesMatch, BoxesMatch, TypeOK, DispatcherTypeOK
  <2> QED BY <1>4, <2>2 DEF Receive, MatchInv, Drawn, RequestsMatch, HandlersMatch
<1> QED
  BY <1>1, <1>2, <1>3, <1>4
  DEF Run, FindAddress, DeleteEntry, Timeout, HelloRefused, HelloAccepted, RootReceived,
      EndDownload, SendForward

(* When the identifiers of the two stages are apart, a late HelloReply is  *)
(* never read as the RootReply of the same or of another click, however    *)
(* many clicks draw the identifiers of each other.                         *)
THEOREM StagesAreKeptApart ==
  ASSUME StagesShareNoId
  PROVE  Spec => []RepliesMatchTheirStage
<1>1. Init => MatchInv
  BY DEF Init, DispatcherInit, MatchInv, Drawn, RequestsMatch, HandlersMatch, BoxesMatch,
         RepliesMatch
<1>2. LeftInv /\ MatchInv /\ [Next]_vars => MatchInv'
  <2> SUFFICES ASSUME LeftInv, MatchInv, [Next]_vars PROVE MatchInv'
    OBVIOUS
  <2>1. CASE UNCHANGED vars
    BY <2>1 DEF vars, dispatcherVars, MatchInv, Drawn, RequestsMatch, HandlersMatch, BoxesMatch,
                RepliesMatch
  <2> QED BY <2>1, ArriveMatches, HandleMatches, RunMatches DEF Next, Finished
<1>3. MatchInv => RepliesMatchTheirStage
  BY DEF MatchInv, RepliesMatch, Expected, RepliesMatchTheirStage
<1> QED BY <1>1, <1>2, <1>3, LeftInvariant, PTL DEF Spec
=============================================================================
