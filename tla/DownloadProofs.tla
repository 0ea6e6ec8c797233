--------------------------- MODULE DownloadProofs ---------------------------
(***************************************************************************)
(* Theorems about Download for every tree, token count, retry count and    *)
(* choice of identifiers, and that it implements Transfer.                 *)
(***************************************************************************)
EXTENDS Download, FiniteSetTheorems, SequenceTheorems, WellFoundedInduction, TLAPS

(* The calls that hold a token. *)
Holders == {n \in Node : pc[n] \in Holding}

(* A node is idle until the ParseNode of its parent names it: without this *)
(* the goroutine that a directory starts could be one already running,     *)
(* token in hand.                                                          *)
KidsWait ==
    \A n \in Node : pc[n] \notin {"children", "done"} =>
        \A m \in KidsOf(n) : pc[m] = "idle"

(* The three parts hold each other: Release leaves slots a natural number  *)
(* because the releasing call is counted, and the count is right because   *)
(* the calls started by ParseNode were idle.                               *)
SlotInv == TypeOK /\ KidsWait /\ SlotsMatchHolders

USE DEF Location, Holding, Entered, Returned

LEMMA HoldersFinite == IsFiniteSet(Holders)
  BY DownloadAssumption, FS_Subset DEF Holders

LEMMA KidsAreNodes == \A n \in Node : KidsOf(n) \subseteq Node
  BY DownloadAssumption DEF KidsOf

(* A node has one parent, and a root none. *)
LEMMA OneParent ==
  /\ \A n, m \in Node : \A x \in KidsOf(n) : x \in KidsOf(m) => n = m
  /\ \A n \in Node : \A x \in KidsOf(n) : x \notin Roots
  /\ \A n \in Node : Kind[n] \in {"chunk", "malformed"} => KidsOf(n) = {}
<1>1. ASSUME NEW n \in Node, NEW m \in Node, NEW x \in KidsOf(n), x \in KidsOf(m)
      PROVE  n = m
  <2>1. PICK j \in 1..Len(Kids[n]) : Kids[n][j] = x
    BY DEF KidsOf
  <2>2. PICK k \in 1..Len(Kids[m]) : Kids[m][k] = x
    BY <1>1 DEF KidsOf
  <2>3. j \in DOMAIN Kids[n] /\ k \in DOMAIN Kids[m]
    BY DownloadAssumption
  <2> QED BY <2>1, <2>2, <2>3, TreeAssumption
<1>2. ASSUME NEW n \in Node, NEW x \in KidsOf(n) PROVE x \notin Roots
  BY TreeAssumption
<1>3. ASSUME NEW n \in Node, Kind[n] \in {"chunk", "malformed"} PROVE KidsOf(n) = {}
  BY <1>3, TreeAssumption DEF KidsOf
<1> QED BY <1>1, <1>2, <1>3

(* The answers of the peer are replies. *)
LEMMA AnswerIsReply ==
  ASSUME NEW q \in Request, NEW a \in PeerAnswers[q.hash]
  PROVE  AnswerTo(q, a) \in Reply
  BY DownloadAssumption DEF AnswerTo, Request

(* A step that moves one call without giving it or taking from it a token. *)
LEMMA SameHolders ==
  ASSUME SlotsMatchHolders, slots' = slots,
         \A n \in Node : pc'[n] \in Holding <=> pc[n] \in Holding
  PROVE  SlotsMatchHolders'
<1>1. {n \in Node : pc'[n] \in Holding} = {n \in Node : pc[n] \in Holding}
  OBVIOUS
<1> QED BY <1>1 DEF SlotsMatchHolders

(* The moves of a call that is running leave the idle ones idle. *)
LEMMA KidsStillWait ==
  ASSUME TypeOK, KidsWait, NEW n \in Node, pc[n] # "idle", NEW l,
         l \in {"children", "done"} \/ pc[n] \notin {"children", "done"},
         Goto(n, l)
  PROVE  KidsWait'
  BY KidsAreNodes DEF KidsWait, TypeOK, Goto

LEMMA InitSlotInv == Init => SlotInv
<1> SUFFICES ASSUME Init PROVE SlotInv
  OBVIOUS
<1> USE DownloadAssumption
<1>1. DispatcherTypeOK
  BY DispatcherAssumption DEF Init, DispatcherInit, DispatcherTypeOK, Handler
<1>2. TypeOK
  BY <1>1 DEF Init, TypeOK, CallsInTurn, Entered, Holding, Location, Appended, Request
<1>3. KidsWait
  BY KidsAreNodes, OneParent DEF Init, KidsWait
<1>4. {n \in Node : pc[n] \in Holding} = {}
  BY DEF Init
<1>5. SlotsMatchHolders
  BY <1>4, FS_EmptySet DEF SlotsMatchHolders, Init
<1> QED BY <1>2, <1>3, <1>5 DEF SlotInv

(* Taking and giving back a token change the holders by the acting call.   *)
LEMMA AcquireSlots ==
  ASSUME SlotInv, NEW n \in Node, Acquire(n)
  PROVE  SlotsMatchHolders' /\ slots' \in 0..Limit
<1>1. Holders' = Holders \cup {n} /\ n \notin Holders
  BY DEF SlotInv, TypeOK, Acquire, Goto, Holders
<1>2. Cardinality(Holders') = Cardinality(Holders) + 1
  BY <1>1, HoldersFinite, FS_AddElement
<1> QED BY <1>2, DownloadAssumption
        DEF SlotInv, TypeOK, SlotsMatchHolders, Acquire, Holders

LEMMA ReleaseSlots ==
  ASSUME SlotInv, NEW n \in Node, Release(n)
  PROVE  SlotsMatchHolders' /\ slots' \in 0..Limit
<1>1. Holders' = Holders \ {n} /\ n \in Holders
  BY DEF SlotInv, TypeOK, Release, Goto, Holders
<1>2. Cardinality(Holders') = Cardinality(Holders) - 1 /\ IsFiniteSet(Holders')
  BY <1>1, HoldersFinite, FS_RemoveElement
<1>3. Cardinality(Holders') \in Nat
  BY <1>2, FS_CardinalityType
<1> QED BY <1>2, <1>3, DownloadAssumption
        DEF SlotInv, TypeOK, SlotsMatchHolders, Release, Holders

(* A move of one call that leaves its turn and its identifier alone.       *)
LEMMA MoveKeepsTurns ==
  ASSUME TypeOK, NEW n \in Node, NEW l, Goto(n, l),
         attempt' = attempt, reqId' = reqId,
         IF l \in {"idle", "acquire"} THEN attempt[n] < MaxRetries
         ELSE l \in Location /\ pc[n] \notin {"idle", "acquire"},
         l \in Entered <=> pc[n] \in Entered
  PROVE  CallsInTurn' /\ pc' \in [Node -> Location]
<1>0. l \in Location /\ pc' \in [Node -> Location]
  BY DEF TypeOK, Goto, Location
<1> SUFFICES ASSUME NEW m \in Node
             PROVE  /\ IF pc'[m] \in {"idle", "acquire"}
                       THEN attempt[m] < MaxRetries ELSE attempt[m] # 0
                    /\ pc'[m] \in Entered <=> reqId[m] # NoId
  BY <1>0 DEF CallsInTurn
<1>1. /\ IF pc[m] \in {"idle", "acquire"} THEN attempt[m] < MaxRetries ELSE attempt[m] # 0
      /\ pc[m] \in Entered <=> reqId[m] # NoId
  BY DEF TypeOK, CallsInTurn
<1>2. CASE m = n
  <2>1. pc'[m] = l
    BY <1>2 DEF TypeOK, Goto
  <2> QED BY <1>1, <1>2, <2>1
<1>3. CASE m # n
  <2>1. pc'[m] = pc[m]
    BY <1>3 DEF TypeOK, Goto
  <2> QED BY <1>1, <2>1
<1> QED BY <1>2, <1>3

(* The assumptions the steps of a call rest on. *)
LEMMA Setting ==
  /\ Limit \in Nat \ {0} /\ MaxRetries \in Nat \ {0}
  /\ Chan = Node \X Attempt /\ IdChoices \in [Chan -> SUBSET Id]
  /\ NoId \notin Id /\ NoReply \notin Reply
  /\ Hash \in [Node -> Data]
BY DownloadAssumption, DispatcherAssumption

(* Every action of a call preserves the three parts. *)
LEMMA CallStep ==
  ASSUME SlotInv, NEW n \in Node, Call(n)
  PROVE  SlotInv'
<1> USE Setting
    DEF SlotInv, Goto, callVars, dispatcherVars
<1>chan. pc[n] \notin {"idle", "acquire"} => ChanOf(n) \in Chan
  BY DEF TypeOK, CallsInTurn, ChanOf, Attempt
<1>1. CASE Acquire(n)
  <2>1. DispatcherTypeOK'
    BY <1>1 DEF Acquire, TypeOK, DispatcherTypeOK
  <2>2. TypeOK'
    <3>1. attempt[n] \in 0..MaxRetries /\ attempt[n] < MaxRetries
      BY <1>1 DEF Acquire, TypeOK, CallsInTurn
    <3>2. attempt'[n] \in 1..MaxRetries /\ attempt' \in [Node -> 0..MaxRetries]
      BY <1>1, <3>1 DEF Acquire, TypeOK
    <3>3. slots' \in 0..Limit
      BY <1>1, AcquireSlots
    <3>4. pc' \in [Node -> Location] /\ pc'[n] = "register"
      BY <1>1 DEF Acquire, TypeOK, Location, Holding
    <3>5. \A m \in Node : m # n => pc'[m] = pc[m] /\ attempt'[m] = attempt[m]
      BY <1>1 DEF Acquire, TypeOK
    <3>6. reqId[n] = NoId
      BY <1>1 DEF Acquire, TypeOK, CallsInTurn, Entered
    <3>7. CallsInTurn'
      BY <1>1, <3>2, <3>4, <3>5, <3>6 DEF Acquire, TypeOK, CallsInTurn, Entered
    <3> QED BY <1>1, <2>1, <3>2, <3>3, <3>4, <3>7 DEF Acquire, TypeOK
  <2>3. KidsWait'
    BY <1>1, KidsStillWait DEF Acquire
  <2> QED BY <1>1, <2>2, <2>3, AcquireSlots
<1>2. CASE NewRequest(n)
  <2>1. DispatcherTypeOK'
    BY <1>2, <1>chan DEF NewRequest, TypeOK, DispatcherTypeOK, Register
  <2>2. TypeOK'
    <3>1. pc[n] = "register" /\ attempt[n] # 0 /\ pc' = [pc EXCEPT ![n] = "send"]
      BY <1>2 DEF NewRequest, TypeOK, CallsInTurn
    <3>2. PICK i \in Id : reqId' = [reqId EXCEPT ![n] = i]
      BY <1>2, <1>chan, <3>1 DEF NewRequest
    <3>3. reqId' \in [Node -> Id \cup {NoId}] /\ pc' \in [Node -> Location]
      BY <3>1, <3>2 DEF TypeOK, Location, Holding
    <3>4. CallsInTurn'
      BY <1>2, <3>1, <3>2 DEF NewRequest, TypeOK, CallsInTurn, Entered
    <3> QED BY <1>2, <2>1, <3>3, <3>4 DEF NewRequest, TypeOK
  <2>3. KidsWait'
    BY <1>2, KidsStillWait DEF NewRequest
  <2>4. SlotsMatchHolders'
    BY <1>2, SameHolders DEF NewRequest, TypeOK
  <2> QED BY <2>2, <2>3, <2>4
<1>3. CASE SendRequest(n)
  <2>1. DispatcherTypeOK'
    BY <1>3 DEF SendRequest, TypeOK, DispatcherTypeOK
  <2>2. reqId[n] \in Id
    BY <1>3 DEF SendRequest, TypeOK, CallsInTurn, Entered
  <2>3. TypeOK'
    <3>1. CallsInTurn' /\ pc' \in [Node -> Location]
      BY <1>3, MoveKeepsTurns
      DEF SendRequest, Location, Holding, Entered, Returned
    <3> QED BY <1>3, <2>1, <2>2, <3>1 DEF SendRequest, TypeOK, Request
  <2>4. KidsWait'
    BY <1>3, KidsStillWait DEF SendRequest
  <2>5. SlotsMatchHolders'
    BY <1>3, SameHolders DEF SendRequest, TypeOK
  <2> QED BY <2>3, <2>4, <2>5
<1>4. CASE Receive(n)
  <2>1. DispatcherTypeOK'
    BY <1>4, <1>chan DEF Receive, TypeOK, DispatcherTypeOK
  <2>2. TypeOK'
    <3>1. CallsInTurn' /\ pc' \in [Node -> Location]
      BY <1>4, MoveKeepsTurns
      DEF Receive, Location, Holding, Entered, Returned
    <3> QED BY <1>4, <1>chan, <2>1, <3>1 DEF Receive, DispatcherTypeOK, TypeOK
  <2>3. KidsWait'
    BY <1>4, KidsStillWait DEF Receive
  <2>4. SlotsMatchHolders'
    BY <1>4, SameHolders DEF Receive, TypeOK
  <2> QED BY <2>2, <2>3, <2>4
<1>5. CASE Timeout(n)
  <2>1. DispatcherTypeOK'
    BY <1>5 DEF Timeout, TypeOK, DispatcherTypeOK
  <2>2. TypeOK'
    <3>1. CallsInTurn' /\ pc' \in [Node -> Location]
      BY <1>5, MoveKeepsTurns
      DEF Timeout, Location, Holding, Entered, Returned
    <3> QED BY <1>5, <2>1, <3>1 DEF Timeout, TypeOK
  <2>3. KidsWait'
    BY <1>5, KidsStillWait DEF Timeout
  <2>4. SlotsMatchHolders'
    BY <1>5, SameHolders DEF Timeout, TypeOK
  <2> QED BY <2>2, <2>3, <2>4
<1>6. CASE Release(n)
  <2>1. DispatcherTypeOK'
    BY <1>6 DEF Release, TypeOK, DispatcherTypeOK
  <2>2. TypeOK'
    <3>1. CallsInTurn' /\ pc' \in [Node -> Location]
      BY <1>6, MoveKeepsTurns
      DEF Release, Location, Holding, Entered, Returned
    <3> QED BY <1>6, ReleaseSlots, <2>1, <3>1 DEF Release, TypeOK
  <2>3. KidsWait'
    BY <1>6, KidsStillWait DEF Release
  <2> QED BY <1>6, <2>2, <2>3, ReleaseSlots
<1>7. CASE DeleteEntry(n)
  <2>1. reqId[n] \in Id
    BY <1>7 DEF DeleteEntry, TypeOK, CallsInTurn, Entered
  <2>2. DispatcherTypeOK'
    BY <1>7, <2>1 DEF DeleteEntry, TypeOK, DispatcherTypeOK, Unregister, Forget
  <2>3. TypeOK'
    <3>1. pc[n] = "delete" /\ attempt[n] # 0 /\ pc' = [pc EXCEPT ![n] = "check"]
      BY <1>7 DEF DeleteEntry, TypeOK, CallsInTurn
    <3>2. reqId' = [reqId EXCEPT ![n] = NoId]
      BY <1>7 DEF DeleteEntry
    <3>3. reqId' \in [Node -> Id \cup {NoId}] /\ pc' \in [Node -> Location]
      BY <3>1, <3>2 DEF TypeOK, Location
    <3>4. CallsInTurn'
      BY <1>7, <3>1, <3>2 DEF DeleteEntry, TypeOK, CallsInTurn, Entered
    <3> QED BY <1>7, <2>2, <3>3, <3>4 DEF DeleteEntry, TypeOK
  <2>4. KidsWait'
    BY <1>7, KidsStillWait DEF DeleteEntry
  <2>5. SlotsMatchHolders'
    BY <1>7, SameHolders DEF DeleteEntry, TypeOK
  <2> QED BY <2>3, <2>4, <2>5
<1>8. CASE Parse(n)
  <2>1. DispatcherTypeOK'
    BY <1>8 DEF Parse, EndTurn, TypeOK, DispatcherTypeOK
  <2>2. got[n] \in Reply /\ got[n].data \in Data /\ pc[n] = "check"
    BY <1>8, DownloadAssumption DEF Parse, HasDatum, TypeOK
  <2>3. CASE ParseChunk(n)
    <3>1. Path[n] \in Paths
      BY DEF Paths
    <3>2. files' \in [Paths -> Seq(Appended)]
      <4> DEFINE e == [node |-> n, data |-> got[n].data]
      <4>1. e \in Appended
        BY <2>2 DEF Appended
      <4>2. files[Path[n]] \in Seq(Appended)
        BY <3>1 DEF TypeOK
      <4>3. Append(files[Path[n]], e) \in Seq(Appended)
        BY <4>1, <4>2, AppendProperties
      <4> QED BY <2>3, <3>1, <4>3 DEF ParseChunk, TypeOK
    <3>3. TypeOK'
      <4>1. CallsInTurn' /\ pc' \in [Node -> Location]
        BY <1>8, <2>2, <2>3, MoveKeepsTurns
        DEF Parse, ParseChunk, EndTurn, Location, Holding, Entered, Returned
      <4> QED BY <4>1, <1>8, <2>1, <2>3, <3>2 DEF Parse, ParseChunk, EndTurn, TypeOK
    <3>4. KidsWait'
      BY <2>2, <2>3, KidsStillWait DEF ParseChunk
    <3>5. SlotsMatchHolders'
      BY <1>8, <2>2, <2>3, SameHolders DEF Parse, ParseChunk, EndTurn, TypeOK
    <3> QED BY <3>3, <3>4, <3>5
  <2>4. CASE ParseDirectory(n)
    <3>1. \A m \in KidsOf(n) : pc[m] = "idle"
      BY <2>2 DEF KidsWait
    <3>2. TypeOK'
      <4>1. pc' \in [Node -> Location]
        BY <2>4 DEF ParseDirectory, TypeOK, Location, Returned
      <4>2. CallsInTurn'
        BY <1>8, <2>2, <2>4, <3>1
        DEF Parse, ParseDirectory, EndTurn, TypeOK, CallsInTurn, Entered
      <4> QED BY <1>8, <2>1, <2>4, <4>1, <4>2 DEF Parse, ParseDirectory, EndTurn, TypeOK
    <3>3. KidsWait'
      <4> SUFFICES ASSUME NEW k \in Node, pc'[k] \notin {"children", "done"},
                          NEW m \in KidsOf(k)
                   PROVE  pc'[m] = "idle"
        BY DEF KidsWait
      <4>1. m \in Node /\ pc' = [x \in Node |-> IF x \in KidsOf(n) THEN "acquire"
                                   ELSE IF x = n THEN "done" ELSE pc[x]]
        BY <2>4, KidsAreNodes DEF ParseDirectory
      <4>2. pc[k] \notin {"children", "done"}
        BY <3>1, <4>1, <2>2
      <4>3. pc[m] = "idle" /\ m # n
        BY <4>2, <2>2 DEF KidsWait
      <4>4. m \notin KidsOf(n)
        <5> SUFFICES ASSUME m \in KidsOf(n) PROVE FALSE
          OBVIOUS
        <5>1. k = n
          BY OneParent
        <5>2. n \in KidsOf(n)
          BY <4>1, <5>1
        <5> QED BY <3>1, <5>2, <2>2
      <4> QED BY <4>1, <4>3, <4>4
    <3>4. SlotsMatchHolders'
      BY <1>8, <2>2, <2>4, <3>1, SameHolders DEF Parse, ParseDirectory, EndTurn, TypeOK
    <3> QED BY <3>2, <3>3, <3>4
  <2>5. CASE ParseBig(n)
    <3>1. TypeOK'
      <4>1. CallsInTurn' /\ pc' \in [Node -> Location]
        BY <1>8, <2>2, <2>5, MoveKeepsTurns
        DEF Parse, ParseBig, EndTurn, Location, Holding, Entered, Returned
      <4> QED BY <4>1, <1>8, <2>1, <2>2, <2>5 DEF Parse, ParseBig, EndTurn, TypeOK
    <3>2. KidsWait'
      BY <2>2, <2>5, KidsStillWait DEF ParseBig
    <3>3. SlotsMatchHolders'
      BY <1>8, <2>2, <2>5, SameHolders DEF Parse, ParseBig, EndTurn, TypeOK
    <3> QED BY <3>1, <3>2, <3>3
  <2>6. CASE ParseMalformed(n)
    <3>1. TypeOK'
      <4>1. CallsInTurn' /\ pc' \in [Node -> Location]
        BY <1>8, <2>2, <2>6, MoveKeepsTurns
        DEF Parse, ParseMalformed, EndTurn, Location, Holding, Entered, Returned
      <4> QED BY <4>1, <1>8, <2>1, <2>2, <2>6 DEF Parse, ParseMalformed, EndTurn, TypeOK
    <3>2. KidsWait'
      BY <2>2, <2>6, KidsStillWait DEF ParseMalformed
    <3>3. SlotsMatchHolders'
      BY <1>8, <2>2, <2>6, SameHolders DEF Parse, ParseMalformed, EndTurn, TypeOK
    <3> QED BY <3>1, <3>2, <3>3
  <2> QED BY <1>8, <2>3, <2>4, <2>5, <2>6 DEF Parse
<1>9. CASE Panic(n) \/ RejectDatum(n)
  <2>1. DispatcherTypeOK'
    BY <1>9 DEF Panic, RejectDatum, EndTurn, TypeOK, DispatcherTypeOK
  <2>2. TypeOK'
    <3>1. CallsInTurn' /\ pc' \in [Node -> Location]
      BY <1>9, MoveKeepsTurns
      DEF Panic, RejectDatum, EndTurn, Location, Holding, Entered, Returned
    <3> QED BY <1>9, <2>1, <3>1 DEF Panic, RejectDatum, EndTurn, TypeOK
  <2>3. KidsWait'
    BY <1>9, KidsStillWait DEF Panic, RejectDatum
  <2>4. SlotsMatchHolders'
    BY <1>9, SameHolders DEF Panic, RejectDatum, EndTurn, TypeOK
  <2> QED BY <2>2, <2>3, <2>4
<1>10. CASE Retry(n)
  <2>1. DispatcherTypeOK'
    BY <1>10 DEF Retry, EndTurn, TypeOK, DispatcherTypeOK
  <2>2. TypeOK'
    <3>1. CallsInTurn' /\ pc' \in [Node -> Location]
      <4>1. CASE attempt[n] < MaxRetries
        BY <1>10, <4>1, MoveKeepsTurns DEF Retry, EndTurn, Location, Holding, Entered
      <4>2. CASE ~(attempt[n] < MaxRetries)
        BY <1>10, <4>2, MoveKeepsTurns
        DEF Retry, EndTurn, Location, Holding, Entered, Returned
      <4> QED BY <4>1, <4>2
    <3> QED BY <1>10, <2>1, <3>1 DEF Retry, EndTurn, TypeOK
  <2>3. KidsWait'
    BY <1>10, KidsStillWait DEF Retry
  <2>4. SlotsMatchHolders'
    BY <1>10, SameHolders DEF Retry, EndTurn, TypeOK
  <2> QED BY <2>2, <2>3, <2>4
<1>11. CASE CallKid(n)
  <2>1. PICK k \in DOMAIN Kids[n] : pc[Kids[n][k]] = "idle" /\ Goto(Kids[n][k], "acquire")
    BY <1>11 DEF CallKid
  <2> DEFINE m == Kids[n][k]
  <2>2. m \in KidsOf(n) /\ m \in Node
    BY DownloadAssumption DEF KidsOf
  <2>3. pc' = [pc EXCEPT ![m] = "acquire"] /\ pc[m] = "idle" /\ pc[n] = "children"
    BY <1>11, <2>1 DEF CallKid
  <2>4. DispatcherTypeOK'
    BY <1>11 DEF CallKid, TypeOK, DispatcherTypeOK
  <2>5. TypeOK'
    <3>1. pc' \in [Node -> Location]
      BY <2>3 DEF TypeOK, Location
    <3>2. CallsInTurn'
      BY <1>11, <2>2, <2>3 DEF CallKid, TypeOK, CallsInTurn, Entered
    <3> QED BY <1>11, <2>4, <3>1, <3>2 DEF CallKid, TypeOK
  <2>6. KidsWait'
    <3> SUFFICES ASSUME NEW j \in Node, pc'[j] \notin {"children", "done"},
                        NEW x \in KidsOf(j)
                 PROVE  pc'[x] = "idle"
      BY DEF KidsWait
    <3>1. pc[j] \notin {"children", "done"}
      BY <2>2, <2>3 DEF TypeOK
    <3>2. pc[x] = "idle" /\ x \in Node
      BY <3>1, KidsAreNodes DEF KidsWait
    <3>3. x # m
      <4> SUFFICES ASSUME x = m PROVE FALSE
        OBVIOUS
      <4>1. j = n
        BY <2>2, OneParent
      <4> QED BY <4>1, <3>1, <2>3
    <3> QED BY <2>2, <2>3, <3>2, <3>3 DEF TypeOK
  <2>7. SlotsMatchHolders'
    BY <1>11, <2>2, <2>3, SameHolders DEF CallKid, TypeOK
  <2> QED BY <2>5, <2>6, <2>7
<1>12. CASE EndKids(n)
  <2>1. DispatcherTypeOK'
    BY <1>12 DEF EndKids, TypeOK, DispatcherTypeOK
  <2>2. TypeOK'
    <3>1. CallsInTurn' /\ pc' \in [Node -> Location]
      BY <1>12, MoveKeepsTurns
      DEF EndKids, Location, Holding, Entered, Returned
    <3> QED BY <1>12, <2>1, <3>1 DEF EndKids, TypeOK
  <2>3. KidsWait'
    BY <1>12, KidsStillWait DEF EndKids
  <2>4. SlotsMatchHolders'
    BY <1>12, SameHolders DEF EndKids, TypeOK
  <2> QED BY <2>2, <2>3, <2>4
<1> QED BY <1>1, <1>2, <1>3, <1>4, <1>5, <1>6, <1>7, <1>8, <1>9, <1>10, <1>11, <1>12
        DEF Call

(* So do the handlers and the stutter of a finished program. *)
LEMMA SlotInvStep == SlotInv /\ [Next]_vars => SlotInv'
<1> SUFFICES ASSUME SlotInv, [Next]_vars PROVE SlotInv'
  OBVIOUS
<1> USE DownloadAssumption, DispatcherAssumption
<1>same. ASSUME pc' = pc, slots' = slots, TypeOK' PROVE SlotInv'
  BY <1>same DEF SlotInv, KidsWait, SlotsMatchHolders
<1>1. ASSUME NEW n \in Node, Call(n) PROVE SlotInv'
  BY <1>1, CallStep
<1>2. ASSUME NEW q \in requests, Arrive(q) PROVE SlotInv'
  <2>1. PICK a \in PeerAnswers[q.hash] : LookUp(q.id, AnswerTo(q, a))
    BY <1>2 DEF Arrive
  <2>2. q \in Request /\ q.id \in Id
    BY DEF SlotInv, TypeOK, Request
  <2>3. AnswerTo(q, a) \in Reply
    BY <2>2, AnswerIsReply
  <2>4. responseChannels[q.id] \in Chan
    BY <2>1, <2>2 DEF LookUp, Registered, SlotInv, TypeOK, DispatcherTypeOK
  <2>5. DispatcherTypeOK'
    BY <2>1, <2>3, <2>4 DEF LookUp, SlotInv, TypeOK, DispatcherTypeOK, Handler
  <2>6. TypeOK'
    BY <1>2, <2>5 DEF Arrive, callVars, SlotInv, TypeOK, CallsInTurn
  <2> QED BY <1>2, <2>6, <1>same DEF Arrive
<1>3. ASSUME NEW h \in handlers, Handle(h) PROVE SlotInv'
  <2>1. h.chan \in Chan /\ h.reply \in Reply
    BY DEF SlotInv, TypeOK, DispatcherTypeOK, Handler
  <2>2. DispatcherTypeOK'
    <3>1. handlers' = handlers \ {h} /\ UNCHANGED responseChannels
      BY <1>3 DEF Handle, Deliver
    <3>2. box' = box \/ box' = [box EXCEPT ![h.chan] = h.reply]
      BY <1>3 DEF Handle, Deliver
    <3>3. DispatcherTypeOK
      BY DEF SlotInv, TypeOK
    <3>4. box' \in [Chan -> Reply \cup {NoReply}]
      <4>1. box \in [Chan -> Reply \cup {NoReply}]
        BY <3>3 DEF DispatcherTypeOK
      <4>2. [box EXCEPT ![h.chan] = h.reply] \in [Chan -> Reply \cup {NoReply}]
        BY <2>1, <4>1
      <4> QED BY <3>2, <4>1, <4>2
    <3>5. handlers' \subseteq Handler
      BY <3>1, <3>3 DEF DispatcherTypeOK
    <3> QED BY <3>1, <3>3, <3>4, <3>5 DEF DispatcherTypeOK
  <2>3. TypeOK'
    BY <1>3, <2>2 DEF Handle, callVars, SlotInv, TypeOK, CallsInTurn
  <2> QED BY <1>3, <2>3, <1>same DEF Handle
<1>4. CASE UNCHANGED vars
  <2>1. TypeOK'
    BY <1>4 DEF vars, dispatcherVars, SlotInv, TypeOK, CallsInTurn, DispatcherTypeOK, CallsInTurn
  <2> QED BY <1>4, <2>1, <1>same DEF vars
<1> QED BY <1>1, <1>2, <1>3, <1>4 DEF Next, Step, Finished

(* The inductive invariant holds of every reachable state. *)
THEOREM SlotInvariant == Spec => []SlotInv
  BY InitSlotInv, SlotInvStep, PTL DEF Spec

(* Type correctness, whatever the tree, the limits and the network do: in  *)
(* particular downloadLimit never holds more than Limit tokens and no call *)
(* takes more than MaxRetries turns.                                       *)
THEOREM TypeCorrect == Spec => []TypeOK
<1>1. SlotInv => TypeOK
  BY DEF SlotInv
<1> QED BY <1>1, SlotInvariant, PTL

(* No token of downloadLimit is ever lost or given back twice. *)
THEOREM SlotsCorrect == Spec => []SlotsMatchHolders
<1>1. SlotInv => SlotsMatchHolders
  BY DEF SlotInv
<1> QED BY <1>1, SlotInvariant, PTL
-----------------------------------------------------------------------------
(* The entries of the map.  NoStaleEntry is inductive given the types; the *)
(* converse needs that no two requests draw the same identifier, and that  *)
(* a call in its turn holds one it may have drawn.                         *)
DistinctIds == \A c, d \in Chan : c # d => IdChoices[c] \cap IdChoices[d] = {}

DrawnByTurn == \A n \in Node : pc[n] \in Entered => reqId[n] \in IdChoices[ChanOf(n)]

WaiterInv == DrawnByTurn /\ WaitersAreRegistered

(* The channels of two calls, or of two turns, are different.              *)
LEMMA ChannelsDiffer ==
  ASSUME TypeOK, NEW n \in Node, NEW m \in Node, ChanOf(n) = ChanOf(m)
  PROVE  n = m
  BY DEF ChanOf

(* A step that leaves the map alone, and no call in or out of its turn.    *)
LEMMA SameEntries ==
  ASSUME responseChannels' = responseChannels, reqId' = reqId,
         \A n \in Node : /\ pc'[n] \in Entered <=> pc[n] \in Entered
                         /\ pc[n] \in Entered => attempt'[n] = attempt[n]
  PROVE  /\ NoStaleEntry => NoStaleEntry'
         /\ WaiterInv => WaiterInv'
<1>1. ASSUME NEW n \in Node, pc[n] \in Entered PROVE ChanOf(n)' = ChanOf(n)
  BY <1>1 DEF ChanOf
<1>2. ASSUME NoStaleEntry, NEW i \in Id, Registered(i)'
      PROVE  \E n \in Node : /\ pc'[n] \in Entered /\ reqId'[n] = i
                             /\ responseChannels'[i] = ChanOf(n)'
  <2>1. PICK n \in Node : /\ pc[n] \in Entered /\ reqId[n] = i
                           /\ responseChannels[i] = ChanOf(n)
    BY <1>2 DEF NoStaleEntry, Registered
  <2> QED BY <2>1, <1>1
<1>3. ASSUME WaiterInv, NEW n \in Node, pc'[n] \in Entered
      PROVE  reqId'[n] \in IdChoices[ChanOf(n)'] /\ responseChannels'[reqId'[n]] = ChanOf(n)'
  <2>1. pc[n] \in Entered
    BY <1>3
  <2> QED BY <1>3, <2>1, <1>1 DEF WaiterInv, DrawnByTurn, WaitersAreRegistered
<1>4. NoStaleEntry => NoStaleEntry'
  BY <1>2 DEF NoStaleEntry
<1>5. WaiterInv => WaiterInv'
  BY <1>3 DEF WaiterInv, DrawnByTurn, WaitersAreRegistered
<1> QED BY <1>4, <1>5

(* Only lines 86-88 and 94-96 or 117-119 change an entry.                  *)
LEMMA OtherCallsKeepEntries ==
  ASSUME SlotInv, NEW n \in Node, Call(n), ~NewRequest(n), ~DeleteEntry(n)
  PROVE  /\ responseChannels' = responseChannels /\ reqId' = reqId
         /\ \A m \in Node : /\ pc'[m] \in Entered <=> pc[m] \in Entered
                            /\ pc[m] \in Entered => attempt'[m] = attempt[m]
<1> USE DEF SlotInv, TypeOK, Goto, callVars, dispatcherVars, EndTurn
<1>1. CASE Acquire(n)
  <2>1. /\ pc[n] = "acquire" /\ pc' = [pc EXCEPT ![n] = "register"]
        /\ attempt' = [attempt EXCEPT ![n] = @ + 1]
        /\ responseChannels' = responseChannels /\ reqId' = reqId
    BY <1>1 DEF Acquire
  <2>2. pc \in [Node -> Location] /\ DOMAIN attempt = Node
    OBVIOUS
  <2>3. ASSUME NEW m \in Node
        PROVE  /\ pc'[m] \in Entered <=> pc[m] \in Entered
               /\ pc[m] \in Entered => attempt'[m] = attempt[m]
    <3>1. CASE m = n
      BY <2>1, <2>2, <3>1 DEFS Entered
    <3>2. CASE m # n
      BY <2>1, <2>2, <3>2
    <3> QED BY <3>1, <3>2
  <2> QED BY <2>1, <2>3
<1>2. CASE SendRequest(n)
  BY <1>2 DEF SendRequest
<1>3. CASE Receive(n)
  BY <1>3 DEF Receive
<1>4. CASE Timeout(n)
  BY <1>4 DEF Timeout
<1>5. CASE Release(n)
  BY <1>5 DEF Release
<1>6. CASE Parse(n)
  <2>1. pc[n] = "check" /\ responseChannels' = responseChannels /\ reqId' = reqId /\ attempt' = attempt
    BY <1>6 DEF Parse
  <2>2. ASSUME NEW m \in Node PROVE pc'[m] \in Entered <=> pc[m] \in Entered
    <3>1. CASE ParseDirectory(n)
      <4>1. \A x \in KidsOf(n) : pc[x] = "idle"
        BY <2>1 DEF KidsWait
      <4> QED BY <2>1, <3>1, <4>1 DEF ParseDirectory
    <3>2. CASE ParseChunk(n) \/ ParseBig(n) \/ ParseMalformed(n)
      BY <2>1, <3>2 DEF ParseChunk, ParseBig, ParseMalformed
    <3> QED BY <1>6, <3>1, <3>2 DEF Parse
  <2> QED BY <2>1, <2>2
<1>7. CASE Panic(n) \/ RejectDatum(n)
  BY <1>7 DEF Panic, RejectDatum
<1>8. CASE Retry(n)
  BY <1>8 DEF Retry
<1>9. CASE CallKid(n)
  <2>1. PICK k \in DOMAIN Kids[n] : pc[Kids[n][k]] = "idle" /\ pc' = [pc EXCEPT ![Kids[n][k]] = "acquire"]
    BY <1>9 DEF CallKid
  <2>2. responseChannels' = responseChannels /\ reqId' = reqId /\ attempt' = attempt
    BY <1>9 DEF CallKid
  <2> QED BY <2>1, <2>2
<1>10. CASE EndKids(n)
  BY <1>10 DEF EndKids
<1> QED BY <1>1, <1>2, <1>3, <1>4, <1>5, <1>6, <1>7, <1>8, <1>9, <1>10 DEF Call

(* Handlers read the map and write channels: no entry changes.             *)
LEMMA HandlersKeepEntries ==
  ASSUME \/ \E q \in requests : Arrive(q)
         \/ \E h \in handlers : Handle(h)
         \/ UNCHANGED vars
  PROVE  responseChannels' = responseChannels /\ reqId' = reqId /\ pc' = pc /\ attempt' = attempt
  BY DEF Arrive, LookUp, Handle, Deliver, vars, callVars, dispatcherVars

(* The new entry belongs to the caller; the one it may replace, of a call  *)
(* that drew the same identifier, is gone.                                 *)
LEMMA NewEntryIsNotStale ==
  ASSUME SlotInv, NoStaleEntry, NEW n \in Node, NewRequest(n)
  PROVE  NoStaleEntry'
<1>1. PICK i \in IdChoices[ChanOf(n)] :
          /\ responseChannels' = [responseChannels EXCEPT ![i] = ChanOf(n)]
          /\ reqId' = [reqId EXCEPT ![n] = i]
  BY DEF NewRequest, Register
<1>2. /\ pc[n] = "register" /\ pc' = [pc EXCEPT ![n] = "send"] /\ attempt' = attempt
      /\ responseChannels \in [Id -> Chan \cup {NoChan}]
      /\ pc \in [Node -> Location] /\ reqId \in [Node -> Id \cup {NoId}]
  BY DEF NewRequest, Goto, SlotInv, TypeOK, DispatcherTypeOK
<1>3. \A m \in Node : ChanOf(m)' = ChanOf(m)
  BY <1>2 DEF ChanOf
<1> SUFFICES ASSUME NEW j \in Id, Registered(j)'
             PROVE  \E m \in Node : /\ pc'[m] \in Entered /\ reqId'[m] = j
                                    /\ responseChannels'[j] = ChanOf(m)'
  BY DEF NoStaleEntry
<1>4. CASE j = i
  BY <1>1, <1>2, <1>3, <1>4
<1>5. CASE j # i
  <2>1. Registered(j) /\ responseChannels'[j] = responseChannels[j]
    BY <1>1, <1>2, <1>5 DEF Registered
  <2>2. PICK m \in Node : pc[m] \in Entered /\ reqId[m] = j /\ responseChannels[j] = ChanOf(m)
    BY <2>1 DEF NoStaleEntry
  <2>3. m # n
    BY <1>2, <2>2
  <2> QED BY <1>1, <1>2, <1>3, <2>1, <2>2, <2>3
<1> QED BY <1>4, <1>5

(* Deleting by identifier may delete the entry of another call, but leaves *)
(* none of the caller: it had one under this identifier only.              *)
LEMMA DeletedEntryIsGone ==
  ASSUME SlotInv, NoStaleEntry, NEW n \in Node, DeleteEntry(n)
  PROVE  NoStaleEntry'
<1>1. /\ responseChannels' = [responseChannels EXCEPT ![reqId[n]] = NoChan]
      /\ reqId' = [reqId EXCEPT ![n] = NoId] /\ pc' = [pc EXCEPT ![n] = "check"]
      /\ attempt' = attempt
  BY DEF DeleteEntry, Unregister, Goto
<1>2. /\ responseChannels \in [Id -> Chan \cup {NoChan}]
      /\ pc \in [Node -> Location] /\ reqId \in [Node -> Id \cup {NoId}]
  BY DEF SlotInv, TypeOK, DispatcherTypeOK
<1>3. \A m \in Node : ChanOf(m)' = ChanOf(m)
  BY <1>1 DEF ChanOf
<1> SUFFICES ASSUME NEW j \in Id, Registered(j)'
             PROVE  \E m \in Node : /\ pc'[m] \in Entered /\ reqId'[m] = j
                                    /\ responseChannels'[j] = ChanOf(m)'
  BY DEF NoStaleEntry
<1>4. j # reqId[n] /\ Registered(j) /\ responseChannels'[j] = responseChannels[j]
  BY <1>1, <1>2 DEF Registered
<1>5. PICK m \in Node : pc[m] \in Entered /\ reqId[m] = j /\ responseChannels[j] = ChanOf(m)
  BY <1>4 DEF NoStaleEntry
<1>6. m # n
  BY <1>4, <1>5
<1> QED BY <1>1, <1>2, <1>3, <1>4, <1>5, <1>6

LEMMA NoStaleStep == SlotInv /\ NoStaleEntry /\ [Next]_vars => NoStaleEntry'
<1> SUFFICES ASSUME SlotInv, NoStaleEntry, [Next]_vars PROVE NoStaleEntry'
  OBVIOUS
<1>1. ASSUME NEW n \in Node, Call(n) PROVE NoStaleEntry'
  <2>1. CASE NewRequest(n)
    BY <2>1, NewEntryIsNotStale
  <2>2. CASE DeleteEntry(n)
    BY <2>2, DeletedEntryIsGone
  <2>3. CASE ~NewRequest(n) /\ ~DeleteEntry(n)
    <3>1. /\ responseChannels' = responseChannels /\ reqId' = reqId
          /\ \A m \in Node : /\ pc'[m] \in Entered <=> pc[m] \in Entered
                             /\ pc[m] \in Entered => attempt'[m] = attempt[m]
      BY <1>1, <2>3, OtherCallsKeepEntries
    <3> QED BY <3>1, SameEntries
  <2> QED BY <2>1, <2>2, <2>3
<1>2. CASE \/ \E q \in requests : Arrive(q)
           \/ \E h \in handlers : Handle(h)
           \/ UNCHANGED vars
  <2>1. responseChannels' = responseChannels /\ reqId' = reqId /\ pc' = pc /\ attempt' = attempt
    BY <1>2, HandlersKeepEntries
  <2> QED BY <2>1, SameEntries
<1> QED BY <1>1, <1>2 DEF Next, Step, Finished

(* Even when requests draw the same identifiers, every entry of the map is *)
(* that of a call in its turn, whatever times out or is answered late.     *)
THEOREM EntriesAreLive == Spec => []NoStaleEntry
<1>1. Init => NoStaleEntry
  BY DEF Init, DispatcherInit, NoStaleEntry, Registered
<1> QED BY <1>1, NoStaleStep, SlotInvariant, PTL DEF Spec


(* A call in its turn waits on a channel of the map of channels. *)
LEMMA TurnHasChannel ==
  ASSUME TypeOK, NEW n \in Node, pc[n] \notin {"idle", "acquire"}
  PROVE  ChanOf(n) \in Chan
<1>1. attempt[n] \in 0..MaxRetries /\ attempt[n] # 0
  BY DEF TypeOK, CallsInTurn
<1>2. attempt[n] \in 1..MaxRetries
  BY <1>1, DownloadAssumption
<1> QED BY <1>2, DownloadAssumption DEF ChanOf, Attempt

(* Under distinct identifiers no other call in its turn holds one that n   *)
(* may draw.                                                               *)
LEMMA OthersHaveOtherIds ==
  ASSUME SlotInv, WaiterInv, DistinctIds, NEW n \in Node, NEW m \in Node, m # n,
         pc[n] \notin {"idle", "acquire"}, pc[m] \in Entered
  PROVE  reqId[m] \notin IdChoices[ChanOf(n)]
<1>1. ChanOf(n) \in Chan /\ ChanOf(m) \in Chan
  BY TurnHasChannel DEF SlotInv
<1>2. ChanOf(n) # ChanOf(m)
  BY ChannelsDiffer DEF SlotInv
<1>3. reqId[m] \in IdChoices[ChanOf(m)]
  BY DEF WaiterInv, DrawnByTurn
<1> QED BY <1>1, <1>2, <1>3 DEF DistinctIds

LEMMA NewRequestKeepsWaiters ==
  ASSUME SlotInv, WaiterInv, DistinctIds, NEW n \in Node, NewRequest(n)
  PROVE  WaiterInv'
<1>1. PICK i \in IdChoices[ChanOf(n)] :
          /\ responseChannels' = [responseChannels EXCEPT ![i] = ChanOf(n)]
          /\ reqId' = [reqId EXCEPT ![n] = i]
  BY DEF NewRequest, Register
<1>2. /\ pc[n] = "register" /\ pc' = [pc EXCEPT ![n] = "send"] /\ attempt' = attempt
      /\ responseChannels \in [Id -> Chan \cup {NoChan}]
      /\ pc \in [Node -> Location] /\ reqId \in [Node -> Id \cup {NoId}]
  BY DEF NewRequest, Goto, SlotInv, TypeOK, DispatcherTypeOK
<1>3. \A m \in Node : ChanOf(m)' = ChanOf(m)
  BY <1>2 DEF ChanOf
<1>4. i \in Id
  <2>1. ChanOf(n) \in Chan
    BY <1>2, TurnHasChannel DEF SlotInv
  <2> QED BY <2>1, DownloadAssumption
<1>5. ASSUME NEW m \in Node, pc'[m] \in Entered
      PROVE  /\ reqId'[m] \in IdChoices[ChanOf(m)']
             /\ responseChannels'[reqId'[m]] = ChanOf(m)'
  <2>1. CASE m = n
    BY <1>1, <1>2, <1>3, <1>4, <2>1
  <2>2. CASE m # n
    <3>1. pc[m] \in Entered /\ reqId'[m] = reqId[m]
      BY <1>1, <1>2, <1>5, <2>2
    <3>2. reqId[m] # i
      BY <1>1, <1>2, <2>2, <3>1, OthersHaveOtherIds
    <3>3. reqId[m] \in IdChoices[ChanOf(m)] /\ responseChannels[reqId[m]] = ChanOf(m)
      BY <3>1 DEF WaiterInv, DrawnByTurn, WaitersAreRegistered
    <3>4. responseChannels'[reqId[m]] = responseChannels[reqId[m]]
      BY <1>1, <1>2, <3>2
    <3> QED BY <1>3, <3>1, <3>3, <3>4
  <2> QED BY <2>1, <2>2
<1> QED BY <1>5 DEF WaiterInv, DrawnByTurn, WaitersAreRegistered

LEMMA DeleteKeepsWaiters ==
  ASSUME SlotInv, WaiterInv, DistinctIds, NEW n \in Node, DeleteEntry(n)
  PROVE  WaiterInv'
<1>1. /\ responseChannels' = [responseChannels EXCEPT ![reqId[n]] = NoChan]
      /\ reqId' = [reqId EXCEPT ![n] = NoId] /\ pc' = [pc EXCEPT ![n] = "check"]
      /\ attempt' = attempt /\ pc[n] = "delete"
  BY DEF DeleteEntry, Unregister, Goto
<1>2. /\ responseChannels \in [Id -> Chan \cup {NoChan}]
      /\ pc \in [Node -> Location] /\ reqId \in [Node -> Id \cup {NoId}]
  BY DEF SlotInv, TypeOK, DispatcherTypeOK
<1>3. \A m \in Node : ChanOf(m)' = ChanOf(m)
  BY <1>1 DEF ChanOf
<1>4. reqId[n] \in IdChoices[ChanOf(n)]
  BY <1>1 DEF WaiterInv, DrawnByTurn
<1>5. ASSUME NEW m \in Node, pc'[m] \in Entered
      PROVE  /\ reqId'[m] \in IdChoices[ChanOf(m)']
             /\ responseChannels'[reqId'[m]] = ChanOf(m)'
  <2>1. m # n /\ pc[m] \in Entered /\ reqId'[m] = reqId[m]
    BY <1>1, <1>2, <1>5
  <2>2. reqId[m] # reqId[n]
    BY <1>1, <1>4, <2>1, OthersHaveOtherIds
  <2>3. reqId[m] \in IdChoices[ChanOf(m)] /\ responseChannels[reqId[m]] = ChanOf(m)
    BY <2>1 DEF WaiterInv, DrawnByTurn, WaitersAreRegistered
  <2>4. responseChannels'[reqId[m]] = responseChannels[reqId[m]]
    BY <1>1, <1>2, <2>2
  <2> QED BY <1>3, <2>1, <2>3, <2>4
<1> QED BY <1>5 DEF WaiterInv, DrawnByTurn, WaitersAreRegistered

LEMMA WaiterStep == DistinctIds /\ SlotInv /\ WaiterInv /\ [Next]_vars => WaiterInv'
<1> SUFFICES ASSUME DistinctIds, SlotInv, WaiterInv, [Next]_vars PROVE WaiterInv'
  OBVIOUS
<1>1. ASSUME NEW n \in Node, Call(n) PROVE WaiterInv'
  <2>1. CASE NewRequest(n)
    BY <2>1, NewRequestKeepsWaiters
  <2>2. CASE DeleteEntry(n)
    BY <2>2, DeleteKeepsWaiters
  <2>3. CASE ~NewRequest(n) /\ ~DeleteEntry(n)
    <3>1. /\ responseChannels' = responseChannels /\ reqId' = reqId
          /\ \A m \in Node : /\ pc'[m] \in Entered <=> pc[m] \in Entered
                             /\ pc[m] \in Entered => attempt'[m] = attempt[m]
      BY <1>1, <2>3, OtherCallsKeepEntries
    <3> QED BY <3>1, SameEntries
  <2> QED BY <2>1, <2>2, <2>3
<1>2. CASE \/ \E q \in requests : Arrive(q)
           \/ \E h \in handlers : Handle(h)
           \/ UNCHANGED vars
  <2>1. responseChannels' = responseChannels /\ reqId' = reqId /\ pc' = pc /\ attempt' = attempt
    BY <1>2, HandlersKeepEntries
  <2> QED BY <2>1, SameEntries
<1> QED BY <1>1, <1>2 DEF Next, Step, Finished

(* When no two requests draw the same identifier, the channel of a call is *)
(* in the map for the whole of its turn: its reply, if it comes in time,   *)
(* finds it.                                                               *)
THEOREM WaitersReachable == DistinctIds => (Spec => []WaitersAreRegistered)
<1>1. Init => WaiterInv
  BY DEF Init, WaiterInv, DrawnByTurn, WaitersAreRegistered
<1>2. WaiterInv => WaitersAreRegistered
  BY DEF WaiterInv
<1>3. SUFFICES ASSUME DistinctIds PROVE Spec => []WaitersAreRegistered
  OBVIOUS
<1>4. SlotInv /\ WaiterInv /\ [Next]_vars => WaiterInv'
  BY <1>3, WaiterStep
<1> QED BY <1>1, <1>2, <1>4, SlotInvariant, PTL DEF Spec
-----------------------------------------------------------------------------
HIDE DEF Location, Holding, Entered, Returned

(* Where a call is, as Transfer sees it: Status, for one call. *)
StatusAt(l) ==
    IF l = "children" THEN "open" ELSE IF l = "done" THEN "done"
    ELSE IF l = "failed" THEN "lost" ELSE "todo"

(* A call that is neither idle nor settled was named by a fetched node: a  *)
(* goroutine or a turn of the loop exists because of its parent.  Only big *)
(* nodes loop over their children.                                         *)
CallsAreNamed ==
    \A n \in Node :
        /\ StatusAt(pc[n]) = "todo" /\ pc[n] # "idle" => T!Named(n)
        /\ pc[n] = "children" => Kind[n] = "big"

LEMMA StatusIs ==
  /\ \A n \in Node : Status[n] = StatusAt(pc[n])
  /\ \A n \in Node : Status'[n] = StatusAt(pc'[n])
  /\ pc' = pc => Status' = Status
  BY DEF Status, StatusAt

LEMMA StatusMoves ==
  ASSUME pc \in [Node -> Location], NEW n \in Node, NEW l, Goto(n, l)
  PROVE  Status' = [Status EXCEPT ![n] = StatusAt(l)]
  BY DEF Status, StatusAt, Goto

(* A step of Transfer settles one node, or opens or closes it. *)
LEMMA TransferMoves ==
  ASSUME [T!Next]_(T!vars), Status' # Status
  PROVE  \E x \in Node :
           /\ \A m \in Node : m # x => Status'[m] = Status[m]
           /\ \/ Status[x] = "todo" /\ Status'[x] \in {"open", "done", "lost"}
              \/ /\ Status[x] = "open" /\ Status'[x] = "done"
                 /\ \A k \in DOMAIN Kids[x] : T!Settled(Kids[x][k])
<1>1. PICK x \in Node : T!Fetch(x) \/ T!Close(x) \/ T!Lose(x)
  BY DEF T!Next, T!vars
<1>2. Status = [n \in Node |-> Status[n]]
  BY DEF Status
<1>3. CASE T!Fetch(x)
  BY <1>2, <1>3 DEF T!Fetch, T!Settle
<1>4. CASE T!Close(x)
  BY <1>2, <1>4 DEF T!Close, T!Settle
<1>5. CASE T!Lose(x)
  BY <1>2, <1>5 DEF T!Lose, T!Settle
<1> QED BY <1>1, <1>3, <1>4, <1>5

(* In Transfer, what is named stays so until it is settled: its parent     *)
(* closes after its children, and no node is settled twice.                *)
LEMMA NamedStays ==
  ASSUME NEW n \in Node, Status[n] = "todo", T!Named(n), [T!Next]_(T!vars)
  PROVE  T!Named(n)'
<1>1. CASE n \in Roots
  BY <1>1 DEF T!Named
<1>2. CASE Status' = Status
  BY <1>2 DEF T!Named, T!Settled
<1>3. ASSUME Status' # Status,
             NEW m \in Node, NEW k \in DOMAIN Kids[m], Kids[m][k] = n,
             IF Kind[m] \in {"big"}
             THEN Status[m] = "open" /\ \A j \in 1..(k - 1) : T!Settled(Kids[m][j])
             ELSE Status[m] = "done"
      PROVE  T!Named(n)'
  <2>1. PICK x \in Node :
           /\ \A y \in Node : y # x => Status'[y] = Status[y]
           /\ \/ Status[x] = "todo" /\ Status'[x] \in {"open", "done", "lost"}
              \/ /\ Status[x] = "open" /\ Status'[x] = "done"
                 /\ \A i \in DOMAIN Kids[x] : T!Settled(Kids[x][i])
    BY <1>3, TransferMoves
  <2>2. \A y \in Node : T!Settled(y) => T!Settled(y)'
    BY <2>1 DEF T!Settled
  <2>3. Status'[m] = Status[m]
    BY <1>3, <2>1 DEF T!Settled
  <2>4. \A j \in 1..(k - 1) : Kids[m][j] \in Node
    BY DownloadAssumption
  <2> QED BY <1>3, <2>2, <2>3, <2>4 DEF T!Named
<1> QED BY <1>1, <1>2, <1>3 DEF T!Named

(* The actions of a call that settle nothing. *)
LEMMA StutterStep ==
  ASSUME SlotInv, NEW n \in Node,
         \/ Acquire(n) \/ NewRequest(n) \/ SendRequest(n) \/ Receive(n) \/ Timeout(n)
         \/ Release(n) \/ DeleteEntry(n) \/ CallKid(n) \/ Panic(n)
         \/ (Retry(n) /\ attempt[n] < MaxRetries)
  PROVE  UNCHANGED <<Status, files>>
<1>0. pc \in [Node -> Location]
  BY DEF SlotInv, TypeOK
<1>1. CASE CallKid(n)
  <2>1. PICK k \in DOMAIN Kids[n] : pc[Kids[n][k]] = "idle" /\ Goto(Kids[n][k], "acquire")
    BY <1>1 DEF CallKid
  <2>2. Kids[n][k] \in Node
    BY DownloadAssumption
  <2>3. Status' = [Status EXCEPT ![Kids[n][k]] = "todo"] /\ Status[Kids[n][k]] = "todo"
    BY <1>0, <2>1, <2>2, StatusMoves, StatusIs DEF StatusAt
  <2> QED BY <1>1, <2>3 DEF CallKid, Status
<1>2. CASE ~CallKid(n)
  <2>1. PICK l \in {"register", "send", "select", "release", "delete", "check", "acquire",
                   "panicked"} : Goto(n, l)
    BY <1>2 DEF Acquire, NewRequest, SendRequest, Receive, Timeout, Release, DeleteEntry, Panic, Retry
  <2>2. pc[n] \in {"acquire", "register", "send", "select", "release", "delete", "check"}
    BY <1>2 DEF Acquire, NewRequest, SendRequest, Receive, Timeout, Release, DeleteEntry, Panic, Retry
  <2>3. Status' = [Status EXCEPT ![n] = "todo"] /\ Status[n] = "todo"
    BY <1>0, <2>1, <2>2, StatusMoves, StatusIs DEF StatusAt
  <2>4. UNCHANGED files
    BY <1>2 DEF Acquire, NewRequest, SendRequest, Receive, Timeout, Release, DeleteEntry, Panic, Retry
  <2> QED BY <2>3, <2>4 DEF Status
<1> QED BY <1>1, <1>2

(* A parsed datum is fetched: what is appended has the hash asked for, and *)
(* the goroutines of a directory start on nodes that had none.             *)
LEMMA ParseFetches ==
  ASSUME SlotInv, CallsAreNamed, NEW n \in Node, Parse(n)
  PROVE  T!Fetch(n)
<1>0. pc \in [Node -> Location] /\ pc[n] = "check" /\ got[n].data = Hash[n]
  BY DEF SlotInv, TypeOK, Parse, Verified
<1>1. Status[n] = "todo" /\ T!Named(n)
  BY <1>0, StatusIs DEF StatusAt, CallsAreNamed
<1>2. CASE ParseChunk(n)
  <2>1. Status' = [Status EXCEPT ![n] = "done"]
    BY <1>0, <1>2, StatusMoves DEF ParseChunk, StatusAt
  <2> QED BY <1>0, <1>1, <1>2, <2>1 DEF ParseChunk, T!Fetch, T!Settle
<1>3. CASE ParseMalformed(n)
  <2>1. Status' = [Status EXCEPT ![n] = "done"]
    BY <1>0, <1>3, StatusMoves DEF ParseMalformed, StatusAt
  <2> QED BY <1>1, <1>3, <2>1 DEF ParseMalformed, T!Fetch, T!Settle
<1>4. CASE ParseBig(n)
  <2>1. Status' = [Status EXCEPT ![n] = "open"]
    BY <1>0, <1>4, StatusMoves DEF ParseBig, StatusAt
  <2> QED BY <1>1, <1>4, <2>1 DEF ParseBig, T!Fetch, T!Settle
<1>5. CASE ParseDirectory(n)
  <2>1. \A m \in KidsOf(n) : pc[m] = "idle"
    BY <1>0 DEF SlotInv, KidsWait
  <2>2. \A m \in Node : StatusAt(pc'[m]) = IF m = n THEN "done" ELSE StatusAt(pc[m])
    BY <1>0, <1>5, <2>1 DEF ParseDirectory, StatusAt
  <2>3. Status' = [Status EXCEPT ![n] = "done"]
    BY <2>2, StatusIs DEF Status
  <2> QED BY <1>1, <1>5, <2>3 DEF ParseDirectory, T!Fetch, T!Settle
<1> QED BY <1>2, <1>3, <1>4, <1>5 DEF Parse

(* The children of n are the members of its sequence. *)
LEMMA KidsInOrder ==
  ASSUME NEW n \in Node
  PROVE  \A k \in DOMAIN Kids[n] : Kids[n][k] \in KidsOf(n) /\ Kids[n][k] \in Node
<1>1. Kids[n] \in Seq(Node)
  BY DownloadAssumption
<1> QED BY <1>1 DEF KidsOf

LEMMA CallMaps ==
  ASSUME SlotInv, CallsAreNamed, NEW n \in Node, Call(n)
  PROVE  [T!Next]_(T!vars)
<1>0. pc \in [Node -> Location]
  BY DEF SlotInv, TypeOK
<1>1. CASE Parse(n)
  BY <1>1, ParseFetches DEF T!Next
<1>2. CASE RejectDatum(n) \/ (Retry(n) /\ ~(attempt[n] < MaxRetries))
  <2>1. pc[n] = "check" /\ Goto(n, "failed") /\ UNCHANGED files
    BY <1>2 DEF RejectDatum, Retry
  <2>2. Status[n] = "todo" /\ T!Named(n) /\ Status' = [Status EXCEPT ![n] = "lost"]
    BY <1>0, <2>1, StatusMoves, StatusIs DEF StatusAt, CallsAreNamed
  <2>3. T!Lose(n)
    BY <2>1, <2>2 DEF T!Lose, T!Settle
  <2> QED BY <2>3 DEF T!Next
<1>3. CASE EndKids(n)
  <2>1. /\ pc[n] = "children" /\ Goto(n, "done") /\ UNCHANGED files
        /\ \A k \in DOMAIN Kids[n] : pc[Kids[n][k]] \in Returned /\ Kids[n][k] \in Node
    BY <1>3, KidsInOrder DEF EndKids
  <2>2. Status[n] = "open" /\ Status' = [Status EXCEPT ![n] = "done"]
    BY <1>0, <2>1, StatusMoves, StatusIs DEF StatusAt
  <2>3. \A k \in DOMAIN Kids[n] : T!Settled(Kids[n][k])
    BY <2>1, StatusIs DEF StatusAt, Returned, T!Settled
  <2>4. T!Close(n)
    BY <2>1, <2>2, <2>3 DEF T!Close, T!Settle
  <2> QED BY <2>4 DEF T!Next
<1> QED BY <1>1, <1>2, <1>3, StutterStep DEF Call, T!vars

LEMMA StepMaps ==
  ASSUME SlotInv, CallsAreNamed, [Next]_vars
  PROVE  [T!Next]_(T!vars)
<1>1. CASE \E n \in Node : Call(n)
  BY <1>1, CallMaps
<1>2. CASE \/ \E q \in requests : Arrive(q)
           \/ \E h \in handlers : Handle(h)
           \/ UNCHANGED vars
  <2>1. pc' = pc /\ files' = files
    BY <1>2 DEF Arrive, Handle, vars
  <2> QED BY <2>1, StatusIs DEF T!vars
<1> QED BY <1>1, <1>2 DEF Next, Step, Finished

(* A call begins because CallKid or ParseDirectory names its node. *)
LEMMA NamedStep ==
  ASSUME SlotInv, CallsAreNamed, [Next]_vars
  PROVE  CallsAreNamed'
<1>0. pc \in [Node -> Location] /\ [T!Next]_(T!vars)
  BY StepMaps DEF SlotInv, TypeOK
<1>big. ASSUME NEW n \in Node, pc'[n] = "children" PROVE Kind[n] = "big"
  BY <1>0, <1>big
  DEF CallsAreNamed, Next, Step, Finished, Call, Acquire, NewRequest, SendRequest, Receive, Timeout,
      Release, DeleteEntry, Parse, ParseChunk, ParseDirectory, ParseBig, ParseMalformed,
      Panic, RejectDatum, Retry, CallKid, EndKids, Arrive, Handle, vars, Goto
<1> SUFFICES ASSUME NEW n \in Node, StatusAt(pc'[n]) = "todo", pc'[n] # "idle"
             PROVE  T!Named(n)'
  BY <1>big DEF CallsAreNamed
<1>1. CASE pc[n] # "idle" /\ StatusAt(pc[n]) = "todo"
  BY <1>0, <1>1, NamedStays, StatusIs DEF CallsAreNamed
<1>2. CASE pc[n] # "idle" /\ StatusAt(pc[n]) # "todo"
  <2>1. Status[n] # "todo" /\ Status'[n] = "todo"
    BY <1>2, StatusIs
  <2> QED BY <1>0, <2>1, TransferMoves
<1>3. CASE pc[n] = "idle"
  <2>1. PICK m \in Node : pc'[n] # pc[n] /\ (CallKid(m) \/ (Parse(m) /\ ParseDirectory(m)))
    BY <1>0, <1>3
    DEF Next, Step, Finished, Call, Acquire, NewRequest, SendRequest, Receive, Timeout, Release,
        DeleteEntry, Parse, ParseChunk, ParseBig, ParseMalformed, Panic, RejectDatum, Retry, EndKids,
        Arrive, Handle, vars, Goto
  <2>2. CASE CallKid(m)
    <3>1. PICK k \in DOMAIN Kids[m] :
              /\ pc[m] = "children"
              /\ \A j \in 1..(k - 1) : pc[Kids[m][j]] \in Returned
              /\ Goto(Kids[m][k], "acquire")
      BY <2>2 DEF CallKid
    <3>2. Kids[m][k] = n
      BY <1>0, <2>1, <3>1 DEF Goto
    <3>3. \A j \in 1..(k - 1) : Kids[m][j] \in Node
      BY DownloadAssumption
    <3>4. Status' = Status /\ Status[m] = "open" /\ \A j \in 1..(k - 1) : T!Settled(Kids[m][j])
      BY <2>2, <3>1, <3>3, StutterStep, StatusIs DEF StatusAt, T!Settled, Returned
    <3>5. Kind[m] \in {"big"}
      BY <3>1 DEF CallsAreNamed
    <3> QED BY <3>2, <3>4, <3>5 DEF T!Named, T!Settled
  <2>3. CASE Parse(m) /\ ParseDirectory(m)
    <3>1. n \in KidsOf(m) \/ n = m
      BY <1>0, <2>1, <2>3 DEF ParseDirectory
    <3>2. (pc[m] = "check" /\ pc'[m] = "done") \/ m \in KidsOf(m)
      BY <1>0, <2>3 DEF Parse, ParseDirectory
    <3>3. m \notin KidsOf(m)
      BY <2>3 DEF Parse, SlotInv, KidsWait
    <3>4. n \in KidsOf(m) /\ Status'[m] = "done"
      BY <1>3, <2>3, <3>1, <3>2, <3>3, StatusIs DEF StatusAt, Parse
    <3>5. PICK k \in DOMAIN Kids[m] : Kids[m][k] = n
      BY <3>4, DownloadAssumption DEF KidsOf
    <3> QED BY <2>3, <3>4, <3>5 DEF T!Named, ParseDirectory
  <2> QED BY <2>1, <2>2, <2>3
<1> QED BY <1>1, <1>2, <1>3

(* The download, with its tokens, turns, identifiers and handlers, is the  *)
(* transfer of the tree, for every tree and every number of tokens and of  *)
(* turns: each node is settled once, after the node that names it and, in  *)
(* a big node, after the children before it; and what is appended to a     *)
(* file has the hash that was asked for, whatever the network does.        *)
THEOREM ImplementsTransfer == Spec => TransferSpec
<1>1. Init => CallsAreNamed /\ T!Init
  BY DEF Init, CallsAreNamed, StatusAt, T!Named, T!Init, Status, Paths
<1>2. SlotInv /\ CallsAreNamed /\ [Next]_vars => CallsAreNamed' /\ [T!Next]_(T!vars)
  BY StepMaps, NamedStep
<1> QED BY <1>1, <1>2, SlotInvariant, PTL DEF Spec, TransferSpec, T!Spec
-----------------------------------------------------------------------------
(* The order and the completeness of the files: by now a step of Download  *)
(* is one of Transfer, and most of it is about Status alone.               *)

LEMMA Least ==
  ASSUME NEW S \in SUBSET Nat, S # {}
  PROVE  \E m \in S : \A t \in S : m <= t
<1> DEFINE R == {x \in Nat \X Nat : x[1] < x[2]}
<1>1. OpToRel(<, Nat) = R
  BY Zenon DEF OpToRel
<1>2. IsWellFoundedOn(R, Nat)
  BY <1>1, NatLessThanWellFounded
<1>3. PICK m \in S : \A t \in S : <<t, m>> \notin R
  <2> HIDE DEF R
  <2> QED BY <1>2, WFMin
<1>4. \A t \in S : ~(t < m)
  BY <1>3
<1> QED BY <1>4

(* What has been reached below a big node, and in which order. *)
NamedInTurn ==
    \A n \in Node : \A k \in DOMAIN Kids[n] :
        Kind[n] = "big" =>
            /\ Status[Kids[n][k]] # "todo" =>
                   /\ Status[n] \in {"open", "done"}
                   /\ \A j \in 1..(k - 1) : T!Settled(Kids[n][j])
            /\ Status[n] = "done" => T!Settled(Kids[n][k])

(* A chunk in a file is settled, so it is not fetched again. *)
WrittenIsDone ==
    \A p \in Paths : \A i \in DOMAIN files[p] :
        files[p][i] \in Appended /\ Status[files[p][i].node] = "done"

OrderInv == NamedInTurn /\ WrittenIsDone /\ ChunksAreInOrder

(* Whoever is to be fetched next, or has children that are. *)
Live(n) == Status[n] = "open" \/ (Status[n] = "todo" /\ T!Named(n))

LEMMA KidsAt ==
  /\ \A n \in Node : DOMAIN Kids[n] = 1..Len(Kids[n]) /\ Len(Kids[n]) \in Nat
  /\ \A n \in Node : \A k \in DOMAIN Kids[n] : Kids[n][k] \in KidsOf(n) /\ Kids[n][k] \in Node
  /\ \A n \in Node : \A x \in KidsOf(n) : \E k \in DOMAIN Kids[n] : x = Kids[n][k]
  BY DownloadAssumption DEF KidsOf

(* A child of a big node is named by that node only, and in its turn. *)
LEMMA NamedByParent ==
  ASSUME NEW n \in Node, NEW k \in DOMAIN Kids[n], Kind[n] = "big", T!Named(Kids[n][k])
  PROVE  Status[n] = "open" /\ \A j \in 1..(k - 1) : T!Settled(Kids[n][j])
<1>1. Kids[n][k] \notin Roots
  BY KidsAt, OneParent
<1>2. PICK m \in Node : \E i \in DOMAIN Kids[m] :
         /\ Kids[m][i] = Kids[n][k]
         /\ IF Kind[m] \in {"big"}
            THEN Status[m] = "open" /\ \A j \in 1..(i - 1) : T!Settled(Kids[m][j])
            ELSE Status[m] = "done"
  BY <1>1 DEF T!Named
<1>3. PICK i \in DOMAIN Kids[m] :
         /\ Kids[m][i] = Kids[n][k]
         /\ IF Kind[m] \in {"big"}
            THEN Status[m] = "open" /\ \A j \in 1..(i - 1) : T!Settled(Kids[m][j])
            ELSE Status[m] = "done"
  BY <1>2
<1>4. m = n /\ i = k
  BY <1>3, TreeAssumption
<1> QED BY <1>3, <1>4

(* The parent of what is to be fetched is open. *)
LEMMA LiveParent ==
  ASSUME NamedInTurn, NEW n \in Node, Kind[n] = "big", NEW x \in KidsOf(n), Live(x)
  PROVE  Status[n] = "open"
<1>1. PICK k \in DOMAIN Kids[n] : x = Kids[n][k]
  BY KidsAt
<1>2. CASE Status[x] = "open"
  BY <1>1, <1>2 DEF NamedInTurn, T!Settled
<1>3. CASE T!Named(x)
  BY <1>1, <1>3, NamedByParent
<1> QED BY <1>2, <1>3 DEF Live

LEMMA ChainIs ==
  ASSUME NEW c \in Chains
  PROVE  /\ Len(c) \in Nat \ {0} /\ DOMAIN c = 1..Len(c)
         /\ \A i \in 1..Len(c) : c[i] \in Node
<1>1. PICK l \in 1..Cardinality(Node) : c \in [1..l -> Node]
  BY DEF Chains
<1>2. l \in Nat \ {0}
  BY DownloadAssumption, FS_CardinalityType
<1>3. c \in Seq(Node) /\ Len(c) = l
  BY <1>1, <1>2
<1> QED BY <1>1, <1>2, <1>3

(* The head of a chain of big nodes to what is to be fetched is not        *)
(* settled: all of the chain is live.                                      *)
LEMMA LiveAbove ==
  ASSUME NamedInTurn, NEW n \in Node, NEW x \in Node, Below(n, x, {"big"}), Live(x)
  PROVE  ~T!Settled(n)
<1>1. PICK c \in Chains :
        /\ c[1] = n /\ c[Len(c)] = x
        /\ \A i \in 1..(Len(c) - 1) : Kind[c[i]] \in {"big"} /\ c[i + 1] \in KidsOf(c[i])
  BY DEF Below
<1> DEFINE S == {i \in 1..Len(c) : Live(c[i])}
<1>2. Len(c) \in Nat \ {0} /\ \A i \in 1..Len(c) : c[i] \in Node
  BY ChainIs
<1>3. PICK m \in S : \A t \in S : m <= t
  <2>1. S \in SUBSET Nat
    BY <1>2
  <2>2. Len(c) \in S
    BY <1>1, <1>2
  <2> HIDE DEF S
  <2> QED BY <2>1, <2>2, Least
<1>4. m \in 1..Len(c) /\ Live(c[m])
  OBVIOUS
<1>5. CASE m = 1
  BY <1>1, <1>4, <1>5 DEF Live, T!Settled
<1>6. CASE m # 1
  <2>1. m - 1 \in 1..(Len(c) - 1) /\ m - 1 \in 1..Len(c) /\ ~(m <= m - 1) /\ (m - 1) + 1 = m
    BY <1>2, <1>4, <1>6
  <2>2. c[m - 1] \in Node /\ Kind[c[m - 1]] = "big" /\ c[m] \in KidsOf(c[m - 1])
    BY <1>1, <1>2, <2>1
  <2>3. Status[c[m - 1]] = "open"
    BY <1>4, <2>2, LiveParent
  <2>4. m - 1 \in S
    BY <2>1, <2>3 DEF Live
  <2> QED BY <1>3, <2>1, <2>4
<1> QED BY <1>5, <1>6

(* The head of a chain of big nodes to what has been fetched has been, too. *)
LEMMA ReachedAbove ==
  ASSUME NamedInTurn, NEW n \in Node, NEW x \in Node, Below(n, x, {"big"}),
         Status[x] # "todo"
  PROVE  Status[n] # "todo"
<1>1. PICK c \in Chains :
        /\ c[1] = n /\ c[Len(c)] = x
        /\ \A i \in 1..(Len(c) - 1) : Kind[c[i]] \in {"big"} /\ c[i + 1] \in KidsOf(c[i])
  BY DEF Below
<1> DEFINE S == {i \in 1..Len(c) : Status[c[i]] # "todo"}
<1>2. Len(c) \in Nat \ {0} /\ \A i \in 1..Len(c) : c[i] \in Node
  BY ChainIs
<1>3. PICK m \in S : \A t \in S : m <= t
  <2>1. S \in SUBSET Nat
    BY <1>2
  <2>2. Len(c) \in S
    BY <1>1, <1>2
  <2> HIDE DEF S
  <2> QED BY <2>1, <2>2, Least
<1>4. m \in 1..Len(c) /\ Status[c[m]] # "todo"
  OBVIOUS
<1>5. CASE m = 1
  BY <1>1, <1>4, <1>5
<1>6. CASE m # 1
  <2>1. m - 1 \in 1..(Len(c) - 1) /\ m - 1 \in 1..Len(c) /\ ~(m <= m - 1) /\ (m - 1) + 1 = m
    BY <1>2, <1>4, <1>6
  <2>2. c[m - 1] \in Node /\ Kind[c[m - 1]] = "big" /\ c[m] \in KidsOf(c[m - 1])
    BY <1>1, <1>2, <2>1
  <2>3. Status[c[m - 1]] # "todo"
    <3>1. PICK k \in DOMAIN Kids[c[m - 1]] : c[m] = Kids[c[m - 1]][k]
      BY <2>2, KidsAt
    <3> QED BY <1>4, <2>2, <3>1 DEF NamedInTurn
  <2> QED BY <1>3, <2>1, <2>3
<1> QED BY <1>5, <1>6

(* So nothing that is to be fetched comes before what has been. *)
LEMMA NothingBefore ==
  ASSUME NamedInTurn, NEW x \in Node, Status[x] = "todo", T!Named(x),
         NEW y \in Node, Status[y] # "todo"
  PROVE  <<x, y>> \notin ComesBefore
<1>1. SUFFICES ASSUME NEW n \in Node, NEW j \in DOMAIN Kids[n], NEW k \in DOMAIN Kids[n],
                      Kind[n] = "big", j < k,
                      Below(Kids[n][j], x, {"big"}), Below(Kids[n][k], y, {"big"})
               PROVE  FALSE
  BY DEF ComesBefore
<1>2. Kids[n][j] \in Node /\ Kids[n][k] \in Node /\ j \in 1..(k - 1)
  <2>1. j \in Nat /\ k \in Nat /\ 1 <= j
    BY KidsAt
  <2> QED BY <1>1, <2>1, KidsAt
<1>3. ~T!Settled(Kids[n][j])
  BY <1>1, <1>2, LiveAbove DEF Live
<1>4. Status[Kids[n][k]] # "todo"
  BY <1>1, <1>2, ReachedAbove
<1> QED BY <1>1, <1>2, <1>3, <1>4 DEF NamedInTurn
-----------------------------------------------------------------------------
(* Each step of Transfer keeps the turns of the children of big nodes. *)
LEMMA TurnsKept ==
  ASSUME NamedInTurn, [T!Next]_(T!vars)
  PROVE  NamedInTurn'
<1> SUFFICES ASSUME NEW n \in Node, NEW k \in DOMAIN Kids[n], Kind[n] = "big"
             PROVE  /\ Status'[Kids[n][k]] # "todo" =>
                           /\ Status'[n] \in {"open", "done"}
                           /\ \A j \in 1..(k - 1) : T!Settled(Kids[n][j])'
                    /\ Status'[n] = "done" => T!Settled(Kids[n][k])'
  BY DEF NamedInTurn
<1>1. /\ Kids[n][k] \in Node /\ \A j \in 1..(k - 1) : Kids[n][j] \in Node
  <2>1. DOMAIN Kids[n] = 1..Len(Kids[n]) /\ Len(Kids[n]) \in Nat
    BY KidsAt
  <2>2. \A j \in 1..(k - 1) : j \in DOMAIN Kids[n]
    BY <2>1
  <2> QED BY <2>2, KidsAt
<1>2. /\ Status[Kids[n][k]] # "todo" =>
             /\ Status[n] \in {"open", "done"}
             /\ \A j \in 1..(k - 1) : T!Settled(Kids[n][j])
      /\ Status[n] = "done" => T!Settled(Kids[n][k])
  BY DEF NamedInTurn
<1>3. CASE Status' = Status
  BY <1>2, <1>3 DEF T!Settled
<1>4. ASSUME NEW x \in Node,
             \A m \in Node : m # x => Status'[m] = Status[m],
             \/ /\ Status[x] = "todo" /\ T!Named(x)
                /\ Status'[x] \in {"open", "done", "lost"}
                /\ Kind[x] = "big" => Status'[x] # "done"
             \/ /\ Status[x] = "open" /\ Status'[x] = "done"
                /\ \A i \in DOMAIN Kids[x] : T!Settled(Kids[x][i])
      PROVE  /\ Status'[Kids[n][k]] # "todo" =>
                    /\ Status'[n] \in {"open", "done"}
                    /\ \A j \in 1..(k - 1) : T!Settled(Kids[n][j])'
             /\ Status'[n] = "done" => T!Settled(Kids[n][k])'
  <2>1. \A m \in Node : T!Settled(m) => T!Settled(m)'
    BY <1>4 DEF T!Settled
  <2>2. CASE Status[x] = "todo" /\ x = Kids[n][k]
    <3>1. Status[n] = "open" /\ \A j \in 1..(k - 1) : T!Settled(Kids[n][j])
      BY <1>4, <2>2, NamedByParent
    <3>2. Status'[n] = "open"
      BY <1>4, <2>2, <3>1
    <3> QED BY <1>1, <2>1, <3>1, <3>2
  <2>3. CASE ~(Status[x] = "todo" /\ x = Kids[n][k])
    <3>1. Status'[Kids[n][k]] # "todo" => Status[Kids[n][k]] # "todo"
      BY <1>1, <1>4, <2>3
    <3>2. Status[n] \in {"open", "done"} => Status'[n] \in {"open", "done"}
      BY <1>4
    <3>3. Status'[n] = "done" => T!Settled(Kids[n][k])'
      BY <1>1, <1>2, <1>4, <2>1
    <3> QED BY <1>1, <1>2, <2>1, <3>1, <3>2, <3>3
  <2> QED BY <2>2, <2>3
<1>5. CASE Status' # Status
  <2>1. PICK x \in Node : T!Fetch(x) \/ T!Close(x) \/ T!Lose(x)
    BY <1>5 DEF T!Next, T!vars
  <2>2. Status = [m \in Node |-> Status[m]]
    BY DEF Status
  <2>3. CASE T!Fetch(x)
    BY <1>4, <2>2, <2>3 DEF T!Fetch, T!Settle
  <2>4. CASE T!Close(x)
    BY <1>4, <2>2, <2>4 DEF T!Close, T!Settle
  <2>5. CASE T!Lose(x)
    BY <1>4, <2>2, <2>5 DEF T!Lose, T!Settle
  <2> QED BY <2>1, <2>3, <2>4, <2>5
<1> QED BY <1>3, <1>5

(* Only a fetched chunk is appended, at the end of its file. *)
LEMMA OrderStep ==
  ASSUME files \in [Paths -> Seq(Appended)], OrderInv, [T!Next]_(T!vars)
  PROVE  OrderInv'
<1>1. NamedInTurn'
  BY TurnsKept DEF OrderInv
<1>2. \A m \in Node : Status[m] = "done" => Status'[m] = "done"
  <2>1. CASE Status' = Status
    BY <2>1
  <2>2. CASE Status' # Status
    BY <2>2, TransferMoves
  <2> QED BY <2>1, <2>2
<1>3. CASE files' = files
  BY <1>1, <1>2, <1>3 DEF OrderInv, WrittenIsDone, ChunksAreInOrder, Appended
<1>4. CASE files' # files
  <2>1. PICK x \in Node : T!Fetch(x)
    BY <1>4 DEF T!Next, T!vars, T!Close, T!Lose
  <2> DEFINE e == [node |-> x, data |-> Hash[x]]
             q == Path[x]
  <2>2. /\ Kind[x] = "chunk" /\ Status[x] = "todo" /\ T!Named(x)
        /\ files' = [files EXCEPT ![q] = Append(@, e)]
    BY <1>4, <2>1 DEF T!Fetch
  <2>3. q \in Paths /\ e \in Appended /\ files[q] \in Seq(Appended)
    BY DownloadAssumption DEF Paths, Appended
  <2>4. Status'[x] = "done"
    <3>1. Status = [m \in Node |-> Status[m]]
      BY DEF Status
    <3> QED BY <2>1, <2>2, <3>1 DEF T!Fetch, T!Settle
  <2> HIDE DEF e, q
  <2>5. ASSUME NEW p \in Paths
        PROVE  /\ DOMAIN files[p] \subseteq DOMAIN files'[p]
               /\ \A i \in DOMAIN files[p] : files'[p][i] = files[p][i]
               /\ \A i \in DOMAIN files'[p] : i \notin DOMAIN files[p] =>
                      files'[p][i] = e /\ \A j \in DOMAIN files'[p] : j <= i
    <3>1. CASE p = q
      BY <2>2, <2>3, <3>1
    <3>2. CASE p # q
      BY <2>2, <3>2
    <3> QED BY <3>1, <3>2
  <2>6. e.node = x /\ e.data = Hash[x]
    BY DEF e
  <2>7. WrittenIsDone'
    BY <1>2, <2>3, <2>4, <2>5, <2>6 DEF OrderInv, WrittenIsDone, Appended
  <2>8. ChunksAreInOrder'
    <3> SUFFICES ASSUME NEW p \in Paths, NEW i \in DOMAIN files'[p]
                 PROVE  /\ files'[p][i].data = Hash[files'[p][i].node]
                        /\ \A j \in DOMAIN files'[p] : i < j =>
                            /\ files'[p][i].node # files'[p][j].node
                            /\ <<files'[p][j].node, files'[p][i].node>> \notin ComesBefore
      BY DEF ChunksAreInOrder
    <3>0. \A j \in DOMAIN files'[p] : j \in Nat
      BY <2>2, <2>3
    <3>1. CASE i \notin DOMAIN files[p]
      BY <2>5, <2>6, <3>0, <3>1
    <3>2. CASE i \in DOMAIN files[p]
      <4>1. files'[p][i] = files[p][i] /\ files[p][i].data = Hash[files[p][i].node]
        BY <2>5, <3>2 DEF OrderInv, ChunksAreInOrder
      <4>2. files[p][i].node \in Node /\ Status[files[p][i].node] = "done"
        BY <3>2 DEF OrderInv, WrittenIsDone, Appended
      <4>3. <<x, files[p][i].node>> \notin ComesBefore /\ files[p][i].node # x
        BY <2>2, <4>2, NothingBefore DEF OrderInv
      <4>4. ASSUME NEW j \in DOMAIN files'[p], i < j
            PROVE  /\ files[p][i].node # files'[p][j].node
                   /\ <<files'[p][j].node, files[p][i].node>> \notin ComesBefore
        <5>1. CASE j \in DOMAIN files[p]
          BY <2>5, <3>2, <4>4, <5>1 DEF OrderInv, ChunksAreInOrder
        <5>2. CASE j \notin DOMAIN files[p]
          BY <2>5, <2>6, <4>3, <5>2
        <5> QED BY <5>1, <5>2
      <4> QED BY <4>1, <4>4
    <3> QED BY <3>1, <3>2
  <2> QED BY <1>1, <2>7, <2>8 DEF OrderInv
<1> QED BY <1>3, <1>4

LEMMA InitOrder ==
  ASSUME Init
  PROVE  CallsAreNamed /\ OrderInv
<1>1. CallsAreNamed
  BY DEF Init, CallsAreNamed, StatusAt, T!Named
<1>2. \A n \in Node : Status[n] = "todo"
  BY DEF Init, Status
<1>3. \A p \in Paths : DOMAIN files[p] = {}
  BY DEF Init
<1> QED BY <1>1, <1>2, <1>3, KidsAt DEF OrderInv, NamedInTurn, WrittenIsDone, ChunksAreInOrder

(* For every tree, limit and network: the chunks of a file are in the      *)
(* order of the tree, none twice, each with the content asked for.         *)
THEOREM FilesInOrder == Spec => []ChunksAreInOrder
<1>1. Init => CallsAreNamed /\ OrderInv
  BY InitOrder
<1>2. SlotInv /\ CallsAreNamed /\ OrderInv /\ [Next]_vars => CallsAreNamed' /\ OrderInv'
  BY StepMaps, NamedStep, OrderStep DEF SlotInv, TypeOK
<1>3. OrderInv => ChunksAreInOrder
  BY DEF OrderInv
<1> QED BY <1>1, <1>2, <1>3, SlotInvariant, PTL DEF Spec
-----------------------------------------------------------------------------
(* What a call that has ended well has done: its chunk is in the file, or  *)
(* its entries have been started.  No call becomes idle again.             *)
DoneIsWritten ==
    \A n \in Node :
        /\ n \in Roots => pc[n] # "idle"
        /\ Kind[n] = "chunk" /\ pc[n] = "done" /\ Path[n] \in Writable =>
               \E i \in DOMAIN files[Path[n]] : files[Path[n]][i].node = n
        /\ Kind[n] = "directory" /\ pc[n] = "done" =>
               \A x \in KidsOf(n) : pc[x] # "idle"
        /\ Kind[n] # "big" => pc[n] # "children"

LEMMA NeverIdle ==
  ASSUME SlotInv, [Next]_vars, NEW x \in Node, pc[x] # "idle"
  PROVE  pc'[x] # "idle"
<1>1. pc \in [Node -> Location]
  BY DEF SlotInv, TypeOK
<1> QED
  BY <1>1
  DEF Next, Step, Finished, Call, Acquire, NewRequest, SendRequest, Receive, Timeout,
      Release, DeleteEntry, Parse, ParseChunk, ParseDirectory, ParseBig, ParseMalformed,
      Panic, RejectDatum, Retry, CallKid, EndKids, Arrive, Handle, vars, Goto

(* A call ends well in one of four ways, one for each kind. *)
LEMMA BecomesDone ==
  ASSUME SlotInv, [Next]_vars, NEW n \in Node, pc'[n] = "done", pc[n] # "done"
  PROVE  \/ Parse(n) /\ (ParseChunk(n) \/ ParseDirectory(n) \/ ParseMalformed(n))
         \/ EndKids(n)
<1>1. pc \in [Node -> Location]
  BY DEF SlotInv, TypeOK
<1>2. PICK m \in Node : Call(m)
  BY DEF Next, Step, Finished, Arrive, Handle, vars
<1>3. CASE Parse(m)
  BY <1>1, <1>3 DEF Parse, ParseChunk, ParseDirectory, ParseBig, ParseMalformed, Goto
<1>4. CASE ~Parse(m) /\ ~EndKids(m)
  BY <1>1, <1>2, <1>4
  DEF Call, Acquire, NewRequest, SendRequest, Receive, Timeout, Release, DeleteEntry,
      Panic, RejectDatum, Retry, CallKid, Goto
<1>5. CASE EndKids(m)
  BY <1>1, <1>5 DEF EndKids, Goto
<1> QED BY <1>3, <1>4, <1>5

(* What is in a file stays there. *)
LEMMA FilesGrow ==
  ASSUME SlotInv, [Next]_vars, NEW p \in Paths, NEW i \in DOMAIN files[p]
  PROVE  i \in DOMAIN files'[p] /\ files'[p][i] = files[p][i]
<1>0. files \in [Paths -> Seq(Appended)]
  BY DEF SlotInv, TypeOK
<1>1. CASE files' = files
  BY <1>1
<1>2. CASE files' # files
  <2>1. PICK n \in Node : Parse(n) /\ ParseChunk(n)
    BY <1>2
    DEF Next, Step, Finished, Call, Acquire, NewRequest, SendRequest, Receive, Timeout,
        Release, DeleteEntry, Parse, ParseDirectory, ParseBig, ParseMalformed,
        Panic, RejectDatum, Retry, CallKid, EndKids, Arrive, Handle, vars, EndTurn
  <2> DEFINE e == [node |-> n, data |-> got[n].data]
             q == Path[n]
  <2>2. files' = [files EXCEPT ![q] = Append(@, e)]
    BY <1>2, <2>1 DEF ParseChunk
  <2> HIDE DEF e, q
  <2>3. CASE p = q
    BY <1>0, <2>2, <2>3
  <2>4. CASE p # q
    BY <1>0, <2>2, <2>4
  <2> QED BY <2>3, <2>4
<1> QED BY <1>1, <1>2

LEMMA DoneStep ==
  ASSUME SlotInv, SlotInv', CallsAreNamed', DoneIsWritten, [Next]_vars
  PROVE  DoneIsWritten'
<1> SUFFICES ASSUME NEW n \in Node
             PROVE  /\ n \in Roots => pc'[n] # "idle"
                    /\ Kind[n] = "chunk" /\ pc'[n] = "done" /\ Path[n] \in Writable =>
                           \E i \in DOMAIN files'[Path[n]] : files'[Path[n]][i].node = n
                    /\ Kind[n] = "directory" /\ pc'[n] = "done" =>
                           \A x \in KidsOf(n) : pc'[x] # "idle"
                    /\ Kind[n] # "big" => pc'[n] # "children"
  BY DEF DoneIsWritten
<1>0. pc \in [Node -> Location] /\ files \in [Paths -> Seq(Appended)]
  BY DEF SlotInv, TypeOK
<1>1. n \in Roots => pc'[n] # "idle"
  BY NeverIdle DEF DoneIsWritten
<1>2. Kind[n] # "big" => pc'[n] # "children"
  BY DEF CallsAreNamed
<1>3. CASE pc[n] = "done" \/ pc'[n] # "done"
  <2>1. ASSUME Kind[n] = "chunk", pc'[n] = "done", Path[n] \in Writable
        PROVE  \E i \in DOMAIN files'[Path[n]] : files'[Path[n]][i].node = n
    <3>1. PICK i \in DOMAIN files[Path[n]] : files[Path[n]][i].node = n
      BY <1>3, <2>1 DEF DoneIsWritten
    <3>2. Path[n] \in Paths
      BY DEF Paths
    <3> QED BY <3>1, <3>2, FilesGrow
  <2>2. ASSUME Kind[n] = "directory", pc'[n] = "done", NEW x \in KidsOf(n)
        PROVE  pc'[x] # "idle"
    <3>1. x \in Node /\ pc[x] # "idle"
      BY <1>3, <2>2, KidsAreNodes DEF DoneIsWritten
    <3> QED BY <3>1, NeverIdle
  <2> QED BY <1>1, <1>2, <2>1, <2>2
<1>4. CASE pc[n] # "done" /\ pc'[n] = "done"
  <2>1. CASE Parse(n) /\ ParseChunk(n)
    <3>1. ASSUME Path[n] \in Writable
          PROVE  \E i \in DOMAIN files'[Path[n]] : files'[Path[n]][i].node = n
      <4> DEFINE e == [node |-> n, data |-> got[n].data]
                 q == Path[n]
      <4>1. files' = [files EXCEPT ![q] = Append(@, e)]
        BY <2>1, <3>1 DEF ParseChunk
      <4>2. q \in Paths /\ files[q] \in Seq(Appended) /\ e.node = n
        BY <1>0 DEF Paths
      <4> HIDE DEF e
      <4>3. files'[q] = Append(files[q], e)
        BY <1>0, <4>1, <4>2
      <4>4. /\ Len(files[q]) + 1 \in DOMAIN files'[q]
            /\ files'[q][Len(files[q]) + 1] = e
        BY <4>2, <4>3
      <4> QED BY <4>2, <4>4
    <3> QED BY <1>1, <1>2, <2>1, <3>1 DEF ParseChunk
  <2>2. CASE Parse(n) /\ ParseDirectory(n)
    <3>1. \A x \in KidsOf(n) : pc'[x] # "idle"
      BY <2>2, KidsAreNodes DEF ParseDirectory
    <3> QED BY <1>1, <1>2, <2>2, <3>1 DEF ParseDirectory
  <2>3. CASE Parse(n) /\ ParseMalformed(n)
    BY <1>1, <1>2, <2>3 DEF ParseMalformed
  <2>4. CASE EndKids(n)
    <3>1. Kind[n] = "big"
      BY <2>4 DEF EndKids, DoneIsWritten
    <3> QED BY <1>1, <1>2, <3>1
  <2> QED BY <1>4, <2>1, <2>2, <2>3, <2>4, BecomesDone
<1> QED BY <1>3, <1>4

(* From a root whose session is clean, every call on the way down to a     *)
(* chunk has ended well.                                                   *)
LEMMA CleanBelow ==
  ASSUME SlotInv, NamedInTurn, DoneIsWritten, AllReturned, \A m \in Node : pc[m] # "failed",
         NEW n \in Roots, NEW x \in Node, Below(n, x, {"directory", "big"})
  PROVE  pc[x] = "done"
<1>1. PICK c \in Chains :
        /\ c[1] = n /\ c[Len(c)] = x
        /\ \A i \in 1..(Len(c) - 1) :
               Kind[c[i]] \in {"directory", "big"} /\ c[i + 1] \in KidsOf(c[i])
  BY DEF Below
<1>2. Len(c) \in Nat \ {0} /\ \A i \in 1..Len(c) : c[i] \in Node
  BY ChainIs
<1>3. n \in Node /\ \A m \in Node : pc[m] \in {"idle", "done"}
  BY DownloadAssumption DEF AllReturned, Returned
<1> DEFINE S == {i \in 1..Len(c) : pc[c[i]] # "done"}
<1>4. SUFFICES ASSUME S # {} PROVE FALSE
  BY <1>1, <1>2
<1>5. PICK m \in S : \A t \in S : m <= t
  <2>1. S \in SUBSET Nat
    BY <1>2
  <2> HIDE DEF S
  <2> QED BY <1>4, <2>1, Least
<1>6. m \in 1..Len(c) /\ pc[c[m]] # "done"
  OBVIOUS
<1>7. CASE m = 1
  BY <1>1, <1>3, <1>6, <1>7 DEF DoneIsWritten
<1>8. CASE m # 1
  <2>1. m - 1 \in 1..(Len(c) - 1) /\ m - 1 \in 1..Len(c) /\ ~(m <= m - 1) /\ (m - 1) + 1 = m
    BY <1>2, <1>6, <1>8
  <2> DEFINE y == c[m - 1]
  <2>2. y \in Node /\ Kind[y] \in {"directory", "big"} /\ c[m] \in KidsOf(y) /\ c[m] \in Node
    BY <1>1, <1>2, <1>6, <2>1
  <2>3. pc[y] = "done"
    BY <1>5, <2>1
  <2>4. pc[c[m]] = "idle"
    BY <1>3, <1>6, <2>2
  <2>5. CASE Kind[y] = "directory"
    BY <2>2, <2>3, <2>4, <2>5 DEF DoneIsWritten
  <2>6. CASE Kind[y] = "big"
    <3>1. PICK k \in DOMAIN Kids[y] : c[m] = Kids[y][k]
      BY <2>2, KidsAt
    <3>2. Status[y] = "done" /\ Status[c[m]] = "todo"
      BY <2>2, <2>3, <2>4, StatusIs DEF StatusAt
    <3> QED BY <2>2, <2>6, <3>1, <3>2 DEF NamedInTurn, T!Settled
  <2> QED BY <2>2, <2>5, <2>6
<1> QED BY <1>7, <1>8

(* For every tree and network: when all calls have returned without an     *)
(* error, every chunk below the root of each session is in its file.       *)
THEOREM CleanSessionsComplete == Spec => []CleanSessionIsComplete
<1>1. Init => CallsAreNamed /\ OrderInv /\ DoneIsWritten
  <2>1. Init => DoneIsWritten
    BY DEF Init, DoneIsWritten
  <2> QED BY <2>1, InitOrder
<1>2. SlotInv /\ SlotInv' /\ CallsAreNamed /\ OrderInv /\ DoneIsWritten /\ [Next]_vars
        => CallsAreNamed' /\ OrderInv' /\ DoneIsWritten'
  BY StepMaps, NamedStep, OrderStep, DoneStep DEF SlotInv, TypeOK
<1>3. SlotInv /\ OrderInv /\ DoneIsWritten => CleanSessionIsComplete
  BY CleanBelow DEF OrderInv, DoneIsWritten, CleanSessionIsComplete
<1> QED BY <1>1, <1>2, <1>3, SlotInvariant, PTL DEF Spec
=============================================================================
