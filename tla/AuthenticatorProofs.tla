------------------------- MODULE AuthenticatorProofs -------------------------
(***************************************************************************)
(* The registration firmware, for every sequence of requests, size of the  *)
(* ring buffer and of the table, width of the tick counter, timeout and    *)
(* number of power cuts: the exchange with the client, the wait for        *)
(* consent, and the table of credentials.                                  *)
(***************************************************************************)
EXTENDS Authenticator, SequenceTheorems, WellFoundedInduction, TLAPS

LEMMA Setting ==
  /\ RequestSize \in Nat /\ RequestSize >= 2 /\ BufferSize \in Nat \ {0}
  /\ Slots \in Nat \ {0} /\ MaxCuts \in Nat
  /\ Base \in Nat /\ Base >= 2 /\ Wrap \in Nat /\ Wrap >= 4 /\ Wrap = Base * Base
  /\ Timeout \in Nat /\ 1 <= Timeout /\ Timeout <= Wrap - 2
  /\ Len(Requests) \in Nat /\ DOMAIN Requests = 1..Len(Requests)
  /\ Erased \in BOOLEAN /\ Torn \notin App /\ NoApp \notin App
<1>1. /\ RequestSize \in Nat \ {0, 1} /\ BufferSize \in Nat \ {0} /\ Slots \in Nat \ {0}
      /\ Requests \in Seq(Seq(Byte)) /\ Torn \notin App /\ NoApp \notin App /\ Erased \in BOOLEAN
      /\ Base \in Nat \ {0, 1} /\ Timeout \in 1..(Wrap - 2) /\ MaxCuts \in Nat
  BY AuthenticatorAssumption
<1>2. Len(Requests) \in Nat /\ DOMAIN Requests = 1..Len(Requests)
  BY <1>1
<1>3. Wrap = Base * Base
  BY DEF Wrap
<1>4. Wrap \in Nat /\ Wrap >= 4
  BY <1>1, <1>3
<1> QED BY <1>1, <1>2, <1>3, <1>4

(* The least element of a set of numbers. *)
LEMMA Least ==
  ASSUME NEW S \in SUBSET Nat, S # {}
  PROVE  \E m \in S : \A t \in S : m <= t
<1> DEFINE R == {s \in Nat \X Nat : s[1] < s[2]}
<1>1. OpToRel(<, Nat) = R
  BY Zenon DEF OpToRel
<1>2. IsWellFoundedOn(R, Nat)
  BY <1>1, NatLessThanWellFounded
<1>3. PICK m \in S : \A t \in S : <<t, m>> \notin R
  <2> HIDE DEF R
  <2> QED BY <1>2, WFMin
<1>4. \A t \in S : ~(t < m)
  BY <1>3
<1> QED BY <1>4

LEMMA FrameIs ==
  ASSUME NEW k \in 1..Len(Requests)
  PROVE  /\ Frame(k) \in Seq(Byte) /\ Len(Frame(k)) = RequestSize
         /\ Tail(Frame(k)) = Requests[k]
<1>1. Requests[k] \in Seq(Byte) /\ Len(Requests[k]) = RequestSize - 1
  BY AuthenticatorAssumption
<1>2. <<COMMAND_MAKE_CREDENTIAL>> \in Seq(Byte) /\ Len(<<COMMAND_MAKE_CREDENTIAL>>) = 1
  BY DEF COMMAND_MAKE_CREDENTIAL, Byte
<1>3. /\ Frame(k) \in Seq(Byte)
      /\ Len(Frame(k)) = RequestSize
      /\ \A i \in 1..RequestSize : i > 1 => Frame(k)[i] = Requests[k][i - 1]
  BY <1>1, <1>2, ConcatProperties, Setting DEF Frame
<1>4. /\ Tail(Frame(k)) \in Seq(Byte) /\ Len(Tail(Frame(k))) = RequestSize - 1
      /\ \A i \in 1..(RequestSize - 1) : Tail(Frame(k))[i] = Requests[k][i]
  <2>1. Frame(k) # <<>>
    BY <1>3, Setting
  <2> QED BY <1>3, <2>1, HeadTailProperties, Setting
<1>5. Tail(Frame(k)) = Requests[k]
  BY <1>1, <1>4, SeqEqual
<1> QED BY <1>3, <1>5

(* Sequences of bytes, one index at a time. *)
LEMMA TailIs ==
  ASSUME NEW s \in Seq(Byte), s # <<>>
  PROVE  /\ Head(s) = s[1] /\ Head(s) \in Byte /\ Len(s) \in Nat /\ Len(s) >= 1
         /\ Tail(s) \in Seq(Byte) /\ Len(Tail(s)) = Len(s) - 1
         /\ \A i \in 1..(Len(s) - 1) : Tail(s)[i] = s[i + 1]
  BY HeadTailProperties

LEMMA AppendIs ==
  ASSUME NEW s \in Seq(Byte), NEW b \in Byte
  PROVE  /\ Append(s, b) \in Seq(Byte) /\ Len(s) \in Nat /\ Len(Append(s, b)) = Len(s) + 1
         /\ \A i \in 1..Len(s) : Append(s, b)[i] = s[i]
         /\ Append(s, b)[Len(s) + 1] = b
  BY AppendProperties
-----------------------------------------------------------------------------
(* Where the loop is says which state the request is in, and how much of   *)
(* it has been received.                                                   *)
Deciding == {"startLow", "startHigh", "nowLow", "nowHigh", "expire", "button", "approve"}
Making == {"crypto", "store", "write"}
PlacesOK ==
    /\ pc \in Deciding => current_state = "WAIT_CONSENT"
    /\ pc \in Making <=> current_state = "PROCESS_CRYPTO"
    /\ current_state = "RECEIVING" => Len(request) < RequestSize
    /\ current_state \in {"WAIT_CONSENT", "PROCESS_CRYPTO"} => Len(request) = RequestSize

(* What is received of the message in progress. *)
Partial == IF current_state = "IDLE" THEN <<>> ELSE request

(* The bytes received, buffered and to come: too few once one was dropped  *)
(* or overwritten, and until then the frame, in order.                     *)
InPlace(p, r, l, F) ==
    /\ Len(p) + Len(r) + Len(l) <= RequestSize
    /\ Len(p) + Len(r) + Len(l) = RequestSize =>
           /\ \A i \in 1..Len(p) : p[i] = F[i]
           /\ \A i \in 1..Len(r) : r[i] = F[Len(p) + i]
           /\ \A i \in 1..Len(l) : l[i] = F[Len(p) + Len(r) + i]

(* A message that lost a byte never ends, so the next request, which waits *)
(* for an answer, finds the line and the buffer empty.                     *)
ExchangeInv ==
    /\ Len(replies) \in {sent - 1, sent}
    /\ current_state # "IDLE" => Len(replies) < sent
    /\ Len(replies) = sent => ring = <<>> /\ line = <<>>
    /\ Len(replies) < sent => InPlace(Partial, ring, line, Frame(sent))

LEMMA NewFrame ==
  ASSUME NEW k \in 1..Len(Requests)
  PROVE  InPlace(<<>>, <<>>, Frame(k), Frame(k))
<1>1. Len(Frame(k)) = RequestSize /\ RequestSize \in Nat
  BY FrameIs, Setting
<1> QED BY <1>1 DEF InPlace

LEMMA ByteLost ==
  ASSUME NEW p \in Seq(Byte), NEW r \in Seq(Byte), NEW l \in Seq(Byte), NEW F,
         NEW q \in Seq(Byte), NEW s \in Seq(Byte), NEW m \in Seq(Byte),
         InPlace(p, r, l, F), Len(q) + Len(s) + Len(m) < Len(p) + Len(r) + Len(l)
  PROVE  InPlace(q, s, m, F)
<1>1. /\ Len(p) \in Nat /\ Len(r) \in Nat /\ Len(l) \in Nat
      /\ Len(q) \in Nat /\ Len(s) \in Nat /\ Len(m) \in Nat
  OBVIOUS
<1>2. Len(q) + Len(s) + Len(m) < RequestSize
  BY <1>1, Setting DEF InPlace
<1> QED BY <1>1, <1>2, Setting DEF InPlace

LEMMA ByteBuffered ==
  ASSUME NEW p \in Seq(Byte), NEW r \in Seq(Byte), NEW l \in Seq(Byte), NEW F,
         InPlace(p, r, l, F), l # <<>>
  PROVE  InPlace(p, Append(r, Head(l)), Tail(l), F)
<1> DEFINE s == Append(r, Head(l))
           m == Tail(l)
<1>1. /\ Len(p) \in Nat /\ Len(r) \in Nat /\ Len(l) \in Nat /\ Len(l) >= 1
      /\ Len(s) = Len(r) + 1 /\ Len(m) = Len(l) - 1
      /\ \A i \in 1..Len(r) : s[i] = r[i]
      /\ s[Len(r) + 1] = l[1]
      /\ \A i \in 1..(Len(l) - 1) : m[i] = l[i + 1]
  BY TailIs, AppendIs
<1> HIDE DEF s, m
<1> SUFFICES InPlace(p, s, m, F)
  BY DEF s, m
<1>2. Len(p) + Len(s) + Len(m) = Len(p) + Len(r) + Len(l)
  BY <1>1
<1> SUFFICES ASSUME Len(p) + Len(r) + Len(l) = RequestSize
             PROVE  /\ \A i \in 1..Len(p) : p[i] = F[i]
                    /\ \A i \in 1..Len(s) : s[i] = F[Len(p) + i]
                    /\ \A i \in 1..Len(m) : m[i] = F[Len(p) + Len(s) + i]
  BY <1>2 DEF InPlace
<1>3. /\ \A i \in 1..Len(p) : p[i] = F[i]
      /\ \A i \in 1..Len(r) : r[i] = F[Len(p) + i]
      /\ \A i \in 1..Len(l) : l[i] = F[Len(p) + Len(r) + i]
  BY DEF InPlace
<1>4. ASSUME NEW i \in 1..Len(s) PROVE s[i] = F[Len(p) + i]
  <2>1. CASE i \in 1..Len(r)
    BY <1>1, <1>3, <2>1
  <2>2. CASE i = Len(r) + 1
    <3>1. l[1] = F[Len(p) + Len(r) + 1]
      BY <1>1, <1>3
    <3>2. Len(p) + Len(r) + 1 = Len(p) + i
      BY <1>1, <2>2
    <3> QED BY <1>1, <2>2, <3>1, <3>2
  <2> QED BY <1>1, <2>1, <2>2
<1>5. ASSUME NEW i \in 1..Len(m) PROVE m[i] = F[Len(p) + Len(s) + i]
  <2>1. m[i] = l[i + 1] /\ i + 1 \in 1..Len(l)
    BY <1>1
  <2>2. Len(p) + Len(s) + i = Len(p) + Len(r) + (i + 1)
    BY <1>1
  <2> QED BY <1>3, <2>1, <2>2
<1> QED BY <1>3, <1>4, <1>5

LEMMA ByteTaken ==
  ASSUME NEW p \in Seq(Byte), NEW r \in Seq(Byte), NEW l \in Seq(Byte), NEW F,
         InPlace(p, r, l, F), r # <<>>
  PROVE  InPlace(Append(p, Head(r)), Tail(r), l, F)
<1> DEFINE q == Append(p, Head(r))
           s == Tail(r)
<1>1. /\ Len(p) \in Nat /\ Len(r) \in Nat /\ Len(l) \in Nat /\ Len(r) >= 1
      /\ Len(q) = Len(p) + 1 /\ Len(s) = Len(r) - 1
      /\ \A i \in 1..Len(p) : q[i] = p[i]
      /\ q[Len(p) + 1] = r[1]
      /\ \A i \in 1..(Len(r) - 1) : s[i] = r[i + 1]
  BY TailIs, AppendIs
<1> HIDE DEF q, s
<1> SUFFICES InPlace(q, s, l, F)
  BY DEF q, s
<1>2. Len(q) + Len(s) + Len(l) = Len(p) + Len(r) + Len(l) /\ Len(q) + Len(s) = Len(p) + Len(r)
  BY <1>1
<1> SUFFICES ASSUME Len(p) + Len(r) + Len(l) = RequestSize
             PROVE  /\ \A i \in 1..Len(q) : q[i] = F[i]
                    /\ \A i \in 1..Len(s) : s[i] = F[Len(q) + i]
                    /\ \A i \in 1..Len(l) : l[i] = F[Len(q) + Len(s) + i]
  BY <1>2 DEF InPlace
<1>3. /\ \A i \in 1..Len(p) : p[i] = F[i]
      /\ \A i \in 1..Len(r) : r[i] = F[Len(p) + i]
      /\ \A i \in 1..Len(l) : l[i] = F[Len(p) + Len(r) + i]
  BY DEF InPlace
<1>4. ASSUME NEW i \in 1..Len(q) PROVE q[i] = F[i]
  <2>1. CASE i \in 1..Len(p)
    BY <1>1, <1>3, <2>1
  <2>2. CASE i = Len(p) + 1
    <3>1. r[1] = F[Len(p) + 1]
      BY <1>1, <1>3
    <3> QED BY <1>1, <2>2, <3>1
  <2> QED BY <1>1, <2>1, <2>2
<1>5. ASSUME NEW i \in 1..Len(s) PROVE s[i] = F[Len(q) + i]
  <2>1. s[i] = r[i + 1] /\ i + 1 \in 1..Len(r)
    BY <1>1
  <2>2. Len(q) + i = Len(p) + (i + 1)
    BY <1>1
  <2> QED BY <1>3, <2>1, <2>2
<1> QED BY <1>2, <1>3, <1>4, <1>5
-----------------------------------------------------------------------------
(* Arithmetic of the counter. *)
LEMMA Digits ==
  ASSUME NEW t \in 0..(Wrap - 1)
  PROVE  /\ t % Base \in 0..(Base - 1) /\ t \div Base \in 0..(Base - 1)
         /\ (t % Base) + Base * (t \div Base) = t
<1>1. t \in Nat /\ Base \in Nat \ {0} /\ t < Base * Base
  BY Setting
<1>2. /\ t % Base \in 0..(Base - 1) /\ t \div Base \in Nat
      /\ (t % Base) + Base * (t \div Base) = t
  BY <1>1
<1>3. t \div Base < Base
  <2>1. SUFFICES ASSUME t \div Base >= Base PROVE FALSE
    BY <1>1, <1>2
  <2>2. Base * (t \div Base) >= Base * Base
    BY <1>1, <1>2, <2>1
  <2> QED BY <1>1, <1>2, <2>2
<1> QED BY <1>1, <1>2, <1>3

LEMMA LoadedIs ==
  ASSUME low \in 0..(Base - 1), ticks \in 0..(Wrap - 1)
  PROVE  /\ Loaded \in 0..(Wrap - 1)
         /\ low = ticks % Base => Loaded = ticks
<1>1. /\ ticks \div Base \in 0..(Base - 1) /\ Base \in Nat /\ Base >= 2
      /\ Wrap = Base * Base /\ Wrap \in Nat
  BY Digits, Setting
<1>2. /\ Base * (ticks \div Base) \in Nat
      /\ Base * (ticks \div Base) <= Base * (Base - 1)
  BY <1>1
<1>3. Base * (Base - 1) = Base * Base - Base
  BY <1>1
<1>4. Loaded \in 0..(Wrap - 1)
  BY <1>1, <1>2, <1>3 DEF Loaded
<1> QED BY <1>4, Digits DEF Loaded

LEMMA TickIs ==
  ASSUME NEW t \in 0..(Wrap - 1)
  PROVE  (t + 1) % Wrap = IF t = Wrap - 1 THEN 0 ELSE t + 1
<1>1. Wrap \in Nat \ {0}
  BY Setting
<1> HIDE DEF Wrap
<1> QED BY <1>1

LEMMA BehindIs ==
  ASSUME NEW t \in 0..(Wrap - 1), NEW s \in 0..(Wrap - 1)
  PROVE  /\ (t - s) % Wrap = IF t >= s THEN t - s ELSE t - s + Wrap
         /\ (t - s) % Wrap \in 0..(Wrap - 1)
<1>1. Wrap \in Nat \ {0}
  BY Setting
<1> HIDE DEF Wrap
<1>2. CASE t >= s
  BY <1>1, <1>2
<1>3. CASE t < s
  BY <1>1, <1>3
<1> QED BY <1>2, <1>3
-----------------------------------------------------------------------------
TypeAndPlaces == TypeOK /\ PlacesOK

LEMMA InitTypes == Init => TypeAndPlaces
<1> SUFFICES ASSUME Init PROVE TypeAndPlaces
  OBVIOUS
<1>1. eeprom \in [Slot -> Entry]
  BY Setting DEF Init, Entry
<1>2. /\ 1 \in Slot /\ 0 \in 0..(Wrap - 1) /\ 0 \in 0..(Base - 1) /\ 0 \in 0..MaxCuts
      /\ 0 \in 0..Len(Requests) /\ Len(<<>>) <= RequestSize /\ Len(<<>>) <= BufferSize
  BY Setting DEF Slot
<1>3. <<>> \in Seq(Byte) /\ <<>> \in Seq(Nat)
  OBVIOUS
<1> QED BY <1>1, <1>2, <1>3
    DEF Init, TypeAndPlaces, TypeOK, PlacesOK, Location, Deciding, Making

LEMMA GetcTypes ==
  ASSUME TypeAndPlaces, Getc
  PROVE  TypeAndPlaces'
<1>0. /\ request \in Seq(Byte) /\ ring \in Seq(Byte) /\ Len(ring) \in Nat /\ Len(ring) <= BufferSize
      /\ Len(request) \in Nat /\ Len(request) <= RequestSize /\ pc = "getc"
      /\ current_state \in {"IDLE", "RECEIVING", "WAIT_CONSENT", "PROCESS_CRYPTO"}
      /\ complete \in BOOLEAN /\ waited \in 0..(Wrap - 1)
      /\ current_state = "RECEIVING" <=> (request # <<>> /\ ~complete)
      /\ current_state = "RECEIVING" => Len(request) < RequestSize
      /\ current_state # "PROCESS_CRYPTO"
      /\ current_state = "WAIT_CONSENT" => Len(request) = RequestSize
      /\ RequestSize \in Nat /\ RequestSize >= 2 /\ BufferSize \in Nat
      /\ Wrap \in Nat /\ Wrap >= 4
  BY Setting DEF TypeAndPlaces, TypeOK, PlacesOK, Getc, Making
<1> DEFINE Kept == UNCHANGED <<start, low, ticks, led, storeVars, clientVars, replies, paced, cuts>>
           Got == /\ request' \in Seq(Byte) /\ Len(request') <= RequestSize
                  /\ current_state' \in {"IDLE", "RECEIVING", "WAIT_CONSENT"}
                  /\ complete' \in BOOLEAN /\ waited' \in 0..(Wrap - 1)
                  /\ current_state' = "RECEIVING" <=> (request' # <<>> /\ ~complete')
                  /\ current_state' = "RECEIVING" => Len(request') < RequestSize
                  /\ current_state' = "WAIT_CONSENT" => Len(request') = RequestSize
                  /\ \/ pc' = "consent"
                     \/ pc' = "startLow" /\ current_state' = "WAIT_CONSENT"
                  /\ ring' \in Seq(Byte) /\ Len(ring') <= BufferSize
<1>1. SUFFICES Got
  <2>1. Kept
    BY DEF Getc
  <2> QED BY <1>0, <1>1, <2>1
      DEF TypeAndPlaces, TypeOK, PlacesOK, Deciding, Making, Location, storeVars, clientVars
<1>2. ring # <<>> => Tail(ring) \in Seq(Byte) /\ Len(Tail(ring)) <= BufferSize /\ Head(ring) \in Byte
  BY <1>0, TailIs
<1>3. CASE NoByte
  BY <1>0, <1>2, <1>3 DEF NoByte, Goto
<1>4. CASE TakeByte
  <2>1. ring' \in Seq(Byte) /\ Len(ring') <= BufferSize /\ Head(ring) \in Byte
    BY <1>2, <1>4 DEF TakeByte
  <2>2. CASE DropByte(Head(ring))
    BY <1>0, <2>1, <2>2 DEF DropByte, Goto
  <2>3. CASE FirstByte(Head(ring))
    <3>1. <<Head(ring)>> \in Seq(Byte) /\ Len(<<Head(ring)>>) = 1 /\ <<Head(ring)>> # <<>>
      BY <2>1
    <3>2. /\ request' = <<Head(ring)>> /\ current_state' = "RECEIVING"
          /\ complete' = FALSE /\ pc' = "consent" /\ waited' = waited
      BY <2>3 DEF FirstByte, Goto
    <3>3. request' \in Seq(Byte) /\ Len(request') = 1 /\ request' # <<>>
      BY <3>1, <3>2
    <3>4. /\ Len(request') <= RequestSize /\ Len(request') < RequestSize
          /\ waited' \in 0..(Wrap - 1) /\ complete' \in BOOLEAN
      <4>1. 1 <= RequestSize /\ 1 < RequestSize
        BY <1>0
      <4>2. waited' \in 0..(Wrap - 1) /\ complete' \in BOOLEAN
        BY <1>0, <3>2
      <4> QED BY <3>3, <4>1, <4>2
    <3>5. /\ current_state' = "RECEIVING" <=> (request' # <<>> /\ ~complete')
          /\ current_state' \in {"IDLE", "RECEIVING", "WAIT_CONSENT"}
          /\ current_state' # "WAIT_CONSENT"
      BY <3>2, <3>3
    <3> QED BY <2>1, <3>2, <3>3, <3>4, <3>5
  <2>4. CASE NextByte(Head(ring))
    <3>1. /\ Append(request, Head(ring)) \in Seq(Byte)
          /\ Len(Append(request, Head(ring))) = Len(request) + 1
          /\ Append(request, Head(ring)) # <<>>
      BY <1>0, <2>1, AppendIs
    <3>2. request' = Append(request, Head(ring)) /\ current_state = "RECEIVING"
      BY <2>4 DEF NextByte
    <3>3. CASE Len(request) + 1 = RequestSize
      BY <1>0, <2>1, <2>4, <3>1, <3>2, <3>3 DEF NextByte, Goto
    <3>4. CASE Len(request) + 1 # RequestSize
      BY <1>0, <2>1, <2>4, <3>1, <3>2, <3>4 DEF NextByte, Goto
    <3> QED BY <3>3, <3>4
  <2> QED BY <1>4, <2>2, <2>3, <2>4 DEF TakeByte
<1> QED BY <1>3, <1>4 DEF Getc

LEMMA LoopTypes ==
  ASSUME TypeAndPlaces, Loop,
         pc = "write" => RequestedApp \in App
  PROVE  TypeAndPlaces'
<1>0. TypeOK /\ PlacesOK
  BY DEF TypeAndPlaces
<1>r. \A s \in {CRYPTO_FAILED, APPROVAL, STORAGE_FULL, OK} : Append(replies, s) \in Seq(Nat)
  BY <1>0 DEF TypeOK, CRYPTO_FAILED, APPROVAL, STORAGE_FULL, OK
<1>1. CASE Getc
  BY <1>1, GetcTypes
<1>2. CASE LoadLow
  <2>1. low' \in 0..(Base - 1)
    BY <1>0, <1>2, Digits DEF TypeOK, LoadLow
  <2> QED BY <1>0, <1>2, <2>1
      DEF TypeAndPlaces, TypeOK, PlacesOK, Deciding, Making, Location, LoadLow, Goto, storeVars, clientVars
<1>3. CASE StartTimer
  <2>1. start' \in 0..(Wrap - 1)
    BY <1>0, <1>3, LoadedIs DEF TypeOK, StartTimer
  <2> QED BY <1>0, <1>3, <2>1
      DEF TypeAndPlaces, TypeOK, PlacesOK, Deciding, Making, Location, StartTimer, Goto, storeVars, clientVars
<1>4. CASE TestConsent
  BY <1>0, <1>4
  DEF TypeAndPlaces, TypeOK, PlacesOK, Deciding, Making, Location, TestConsent, Goto, storeVars, clientVars
<1>5. CASE TestTimeout
  BY <1>0, <1>5
  DEF TypeAndPlaces, TypeOK, PlacesOK, Deciding, Making, Location, TestTimeout, Goto, storeVars, clientVars
<1>6. CASE Expire
  BY <1>0, <1>r, <1>6
  DEF TypeAndPlaces, TypeOK, PlacesOK, Deciding, Making, Location, Expire, Finish, Reply, Goto,
      storeVars, clientVars
<1>7. CASE TestButton
  BY <1>0, <1>7
  DEF TypeAndPlaces, TypeOK, PlacesOK, Deciding, Making, Location, TestButton, Goto, storeVars, clientVars
<1>8. CASE Approve
  BY <1>0, <1>8
  DEF TypeAndPlaces, TypeOK, PlacesOK, Deciding, Making, Location, Approve, Goto, storeVars, clientVars
<1>9. CASE MakeKey
  BY <1>0, <1>r, <1>9
  DEF TypeAndPlaces, TypeOK, PlacesOK, Deciding, Making, Location, MakeKey, Finish, Reply, Goto,
      storeVars, clientVars
<1>10. CASE FindSlot
  <2>1. CASE Candidates = {}
    BY <1>0, <1>r, <1>10, <2>1
    DEF TypeAndPlaces, TypeOK, PlacesOK, Deciding, Making, Location, FindSlot, Finish, Reply, Goto, clientVars
  <2>2. CASE Candidates # {}
    <3>1. slot' \in Slot
      <4>1. \E m \in Candidates : \A t \in Candidates : m <= t
        <5>1. Candidates \in SUBSET Nat
          BY DEF Candidates, Matching, Free, Slot
        <5> QED BY <2>2, <5>1, Least
      <4>2. First(Candidates) \in Candidates
        BY <4>1 DEF First
      <4> QED BY <1>10, <2>2, <4>2 DEF FindSlot, Candidates, Matching, Free
    <3> QED BY <1>0, <1>10, <2>2, <3>1
        DEF TypeAndPlaces, TypeOK, PlacesOK, Deciding, Making, Location, FindSlot, Goto, clientVars
  <2> QED BY <2>1, <2>2
<1>11. CASE WritePart
  <2>1. eeprom' \in [Slot -> Entry]
    <3>1. PICK p \in Part : eeprom' = [eeprom EXCEPT ![slot] =
                  CASE p = "is_used" -> [@ EXCEPT !.is_used = TRUE]
                    [] p = "half"    -> [@ EXCEPT !.app = Torn]
                    [] p = "app"     -> [@ EXCEPT !.app = RequestedApp]
                    [] p = "id"      -> [@ EXCEPT !.id = sent]]
      BY <1>0, <1>11 DEF WritePart, TypeOK
    <3>2. /\ eeprom \in [Slot -> Entry] /\ slot \in Slot /\ sent \in 0..Len(Requests)
          /\ RequestedApp \in App
      BY <1>0, <1>11 DEF WritePart, TypeOK
    <3>3. /\ [eeprom[slot] EXCEPT !.is_used = TRUE] \in Entry
          /\ [eeprom[slot] EXCEPT !.app = Torn] \in Entry
          /\ [eeprom[slot] EXCEPT !.app = RequestedApp] \in Entry
          /\ [eeprom[slot] EXCEPT !.id = sent] \in Entry
      BY <3>2 DEF Entry
    <3> QED BY <3>1, <3>2, <3>3 DEF Part
  <2> QED BY <1>0, <1>11, <2>1
      DEF TypeAndPlaces, TypeOK, PlacesOK, Deciding, Making, Location, WritePart, loopVars, clientVars
<1>12. CASE Answer
  BY <1>0, <1>r, <1>12
  DEF TypeAndPlaces, TypeOK, PlacesOK, Deciding, Making, Location, Answer, Finish, Reply, Goto,
      storeVars, clientVars
<1>13. CASE Sleep
  BY <1>0, <1>13
  DEF TypeAndPlaces, TypeOK, PlacesOK, Deciding, Making, Location, Sleep, Goto, storeVars, clientVars
<1> QED BY <1>1, <1>2, <1>3, <1>4, <1>5, <1>6, <1>7, <1>8, <1>9, <1>10, <1>11, <1>12, <1>13 DEF Loop

LEMMA InterruptTypes ==
  ASSUME TypeAndPlaces, Tick \/ Receive \/ BeginRequest \/ PowerCut
  PROVE  TypeAndPlaces'
<1>0. TypeOK /\ PlacesOK
  BY DEF TypeAndPlaces
<1>1. CASE Tick
  <2>1. ticks' \in 0..(Wrap - 1)
    BY <1>0, <1>1, TickIs, Setting DEF Tick, TypeOK
  <2>2. waited' \in 0..(Wrap - 1)
    BY <1>0, <1>1, Setting DEF Tick, TypeOK
  <2>3. pc' = IF pc = "asleep" THEN "getc" ELSE pc
    BY <1>1 DEF Tick, Goto, Woken
  <2>4. led' \in BOOLEAN
    BY <1>0, <1>1 DEF Tick, TypeOK
  <2> QED BY <1>0, <1>1, <2>1, <2>2, <2>3, <2>4
      DEF TypeAndPlaces, TypeOK, PlacesOK, Deciding, Making, Location, Tick, storeVars, clientVars
<1>2. CASE Receive
  <2>1. /\ line \in Seq(Byte) /\ line # <<>> /\ ring \in Seq(Byte)
        /\ Len(ring) \in Nat /\ Len(ring) <= BufferSize /\ Len(line) <= RequestSize
        /\ BufferSize \in Nat \ {0} /\ RequestSize \in Nat
    BY <1>0, <1>2, Setting DEF Receive, TypeOK
  <2>2. /\ Tail(line) \in Seq(Byte) /\ Len(Tail(line)) <= RequestSize /\ Head(line) \in Byte
    BY <2>1, TailIs
  <2>3. ring' \in Seq(Byte) /\ Len(ring') <= BufferSize
    <3>1. CASE Len(ring) = BufferSize
      <4>1. ring # <<>>
        BY <2>1, <3>1
      <4>2. Tail(ring) \in Seq(Byte) /\ Len(Tail(ring)) = BufferSize - 1
        BY <2>1, <3>1, <4>1, TailIs
      <4> QED BY <1>2, <2>1, <2>2, <3>1, <4>2, AppendIs DEF Receive
    <3>2. CASE Len(ring) # BufferSize
      BY <1>2, <2>1, <2>2, <3>2, AppendIs DEF Receive
    <3> QED BY <3>1, <3>2
  <2>4. pc' = IF pc = "asleep" THEN "getc" ELSE pc
    BY <1>2 DEF Receive, Goto, Woken
  <2> QED BY <1>0, <1>2, <2>2, <2>3, <2>4
      DEF TypeAndPlaces, TypeOK, PlacesOK, Deciding, Making, Location, Receive, storeVars
<1>3. CASE BeginRequest
  <2>1. sent' \in 1..Len(Requests) /\ line' = Frame(sent') /\ sent' \in 0..Len(Requests)
    BY <1>0, <1>3, Setting DEF BeginRequest, TypeOK
  <2>2. line' \in Seq(Byte) /\ Len(line') <= RequestSize
    BY <2>1, FrameIs, Setting
  <2> QED BY <1>0, <1>3, <2>1, <2>2
      DEF TypeAndPlaces, TypeOK, PlacesOK, BeginRequest, loopVars, storeVars
<1>4. CASE PowerCut
  <2>1. /\ 1 \in Slot /\ 0 \in 0..(Wrap - 1) /\ 0 \in 0..(Base - 1)
        /\ Len(<<>>) <= RequestSize /\ Len(<<>>) <= BufferSize
    BY Setting DEF Slot
  <2>2. <<>> \in Seq(Byte) /\ replies' \in Seq(Nat)
    BY <1>0, <1>4 DEF PowerCut, TypeOK, NO_ANSWER
  <2>3. cuts' \in 0..MaxCuts
    BY <1>0, <1>4, Setting DEF PowerCut, TypeOK
  <2> QED BY <1>0, <1>4, <2>1, <2>2, <2>3
      DEF TypeAndPlaces, TypeOK, PlacesOK, Deciding, Making, Location, PowerCut
<1> QED BY <1>1, <1>2, <1>3, <1>4
-----------------------------------------------------------------------------
(* A whole message is the frame that was sent, and nothing is buffered or  *)
(* to come: later states of the exchange need no more of the buffers.      *)
LEMMA WholeMessage ==
  ASSUME TypeAndPlaces, ExchangeInv, current_state \in {"WAIT_CONSENT", "PROCESS_CRYPTO"}
  PROVE  /\ request = Frame(sent) /\ ring = <<>> /\ line = <<>>
         /\ sent \in 1..Len(Requests) /\ Len(replies) = sent - 1
         /\ RequestedApp = Requests[sent] /\ RequestedApp \in App
<1>1. /\ Len(replies) < sent /\ Len(replies) \in {sent - 1, sent} /\ Len(replies) \in Nat
      /\ sent \in 0..Len(Requests) /\ Len(Requests) \in Nat
      /\ request \in Seq(Byte) /\ ring \in Seq(Byte) /\ line \in Seq(Byte)
      /\ Len(request) = RequestSize /\ RequestSize \in Nat
      /\ InPlace(request, ring, line, Frame(sent))
  BY Setting DEF TypeAndPlaces, TypeOK, PlacesOK, ExchangeInv, Partial
<1>2. sent \in 1..Len(Requests) /\ Len(replies) = sent - 1
  BY <1>1
<1>3. /\ Len(ring) \in Nat /\ Len(line) \in Nat
      /\ Len(request) + Len(ring) + Len(line) <= RequestSize
  BY <1>1 DEF InPlace
<1>4. Len(ring) = 0 /\ Len(line) = 0
  BY <1>1, <1>3
<1>5. ring = <<>> /\ line = <<>>
  BY <1>1, <1>4
<1>6. \A i \in 1..Len(request) : request[i] = Frame(sent)[i]
  BY <1>1, <1>4 DEF InPlace
<1>7. request = Frame(sent)
  BY <1>1, <1>2, <1>6, FrameIs, SeqEqual
<1>8. RequestedApp = Requests[sent]
  BY <1>2, <1>7, FrameIs DEF RequestedApp
<1> QED BY <1>2, <1>5, <1>7, <1>8, Setting DEF App

LEMMA GetcExchanges ==
  ASSUME TypeAndPlaces, ExchangeInv, Getc
  PROVE  ExchangeInv'
<1>0. /\ request \in Seq(Byte) /\ ring \in Seq(Byte) /\ line \in Seq(Byte) /\ Partial \in Seq(Byte)
      /\ Len(replies) \in {sent - 1, sent} /\ Len(replies) \in Nat /\ sent \in Nat
      /\ current_state # "IDLE" => Len(replies) < sent
      /\ Len(replies) = sent => ring = <<>> /\ line = <<>>
      /\ Len(replies) < sent => InPlace(Partial, ring, line, Frame(sent))
      /\ current_state # "PROCESS_CRYPTO" /\ replies' = replies /\ sent' = sent /\ line' = line
  BY Setting DEF TypeAndPlaces, TypeOK, PlacesOK, Making, ExchangeInv, Partial, Getc, clientVars
<1>1. CASE ring = <<>>
  <2>1. UNCHANGED <<current_state, request, ring>>
    BY <1>1 DEF Getc, NoByte, TakeByte
  <2> QED BY <1>0, <2>1 DEF ExchangeInv, Partial
<1>2. CASE ring # <<>>
  <2>1. /\ Len(replies) < sent /\ ring' = Tail(ring)
        /\ InPlace(Partial, ring, line, Frame(sent))
        /\ Tail(ring) \in Seq(Byte) /\ Len(Tail(ring)) = Len(ring) - 1 /\ Len(ring) \in Nat
        /\ Head(ring) \in Byte
    BY <1>0, <1>2, TailIs DEF Getc, NoByte, TakeByte
  <2>2. SUFFICES InPlace(Partial', ring', line', Frame(sent'))
    BY <1>0, <2>1 DEF ExchangeInv
  <2>3. CASE UNCHANGED <<current_state, request>>
    <3>1. /\ Partial' = Partial /\ Len(Partial) \in Nat /\ Len(line) \in Nat
          /\ Len(Partial) + Len(Tail(ring)) + Len(line) < Len(Partial) + Len(ring) + Len(line)
      BY <1>0, <2>1, <2>3 DEF Partial
    <3>2. InPlace(Partial, Tail(ring), line, Frame(sent))
      BY <1>0, <2>1, <3>1, ByteLost
    <3> QED BY <1>0, <2>1, <3>1, <3>2
  <2>4. CASE FirstByte(Head(ring)) \/ NextByte(Head(ring))
    <3>1. Partial' = Append(Partial, Head(ring))
      <4>1. CASE FirstByte(Head(ring))
        <5>1. Partial = <<>> /\ Partial' = <<Head(ring)>>
          BY <4>1 DEF FirstByte, Partial
        <5>2. Append(<<>>, Head(ring)) = <<Head(ring)>>
          BY <2>1
        <5> QED BY <5>1, <5>2
      <4>2. CASE NextByte(Head(ring))
        BY <4>2 DEF NextByte, Partial
      <4> QED BY <2>4, <4>1, <4>2
    <3>2. InPlace(Append(Partial, Head(ring)), Tail(ring), line, Frame(sent))
      BY <1>0, <1>2, <2>1, ByteTaken
    <3> QED BY <1>0, <2>1, <3>1, <3>2
  <2> QED BY <2>3, <2>4 DEF Getc, NoByte, TakeByte, DropByte
<1> QED BY <1>1, <1>2

LEMMA ReceiveExchanges ==
  ASSUME TypeAndPlaces, ExchangeInv, Receive
  PROVE  ExchangeInv'
<1>0. /\ ring \in Seq(Byte) /\ line \in Seq(Byte) /\ line # <<>> /\ Partial \in Seq(Byte)
      /\ Len(replies) < sent
      /\ InPlace(Partial, ring, line, Frame(sent))
      /\ Partial' = Partial
      /\ BufferSize \in Nat \ {0}
      /\ line' = Tail(line)
      /\ ring' = Append(IF Len(ring) = BufferSize THEN Tail(ring) ELSE ring, Head(line))
  BY Setting DEF TypeAndPlaces, TypeOK, ExchangeInv, Partial, Receive
<1>1. SUFFICES InPlace(Partial, ring', Tail(line), Frame(sent))
  BY <1>0 DEF ExchangeInv, Receive
<1>2. CASE Len(ring) # BufferSize
  BY <1>0, <1>2, ByteBuffered
<1>3. CASE Len(ring) = BufferSize
  <2>1. ring # <<>>
    BY <1>0, <1>3
  <2>2. /\ Tail(ring) \in Seq(Byte) /\ Len(Tail(ring)) = Len(ring) - 1 /\ Len(ring) \in Nat
        /\ Tail(line) \in Seq(Byte) /\ Len(Tail(line)) = Len(line) - 1 /\ Len(line) \in Nat
        /\ Head(line) \in Byte
    BY <1>0, <2>1, TailIs
  <2>3. ring' \in Seq(Byte) /\ Len(ring') = Len(ring)
    BY <1>0, <1>3, <2>2, AppendIs
  <2>4. Len(Partial) \in Nat
    BY <1>0
  <2>5. Len(Partial) + Len(ring') + Len(Tail(line)) < Len(Partial) + Len(ring) + Len(line)
    BY <2>2, <2>3, <2>4
  <2> QED BY <1>0, <2>2, <2>3, <2>5, ByteLost
<1> QED BY <1>2, <1>3

(* The steps that end a request: an answer, with nothing left to receive. *)
LEMMA FinishExchanges ==
  ASSUME TypeAndPlaces, ExchangeInv, NEW s, Finish(s),
         current_state \in {"WAIT_CONSENT", "PROCESS_CRYPTO"},
         sent' = sent, ring' = ring, line' = line
  PROVE  ExchangeInv'
<1>1. ring = <<>> /\ line = <<>> /\ Len(replies) = sent - 1 /\ sent \in Nat
  BY WholeMessage, Setting DEF TypeAndPlaces, TypeOK
<1>2. Len(replies') = Len(replies) + 1 /\ Len(replies) \in Nat /\ current_state' = "IDLE"
  BY DEF Finish, Reply, TypeAndPlaces, TypeOK
<1> QED BY <1>1, <1>2 DEF ExchangeInv

LEMMA ExchangeStep ==
  ASSUME TypeAndPlaces, ExchangeInv, Next
  PROVE  ExchangeInv'
<1>0. /\ Len(replies) \in Nat /\ sent \in Nat /\ replies \in Seq(Nat)
      /\ Len(replies) \in {sent - 1, sent}
      /\ pc \in Making <=> current_state = "PROCESS_CRYPTO"
      /\ pc \in Deciding => current_state = "WAIT_CONSENT"
  BY Setting DEF TypeAndPlaces, TypeOK, PlacesOK, ExchangeInv
<1>1. CASE Getc
  BY <1>1, GetcExchanges
<1>2. CASE Receive
  BY <1>2, ReceiveExchanges
<1>3. CASE /\ UNCHANGED <<request, ring, line, sent, replies>>
           /\ \/ current_state' = current_state
              \/ current_state = "WAIT_CONSENT" /\ current_state' = "PROCESS_CRYPTO"
  BY <1>3 DEF ExchangeInv, Partial
<1>4. CASE /\ \E s \in {CRYPTO_FAILED, APPROVAL, STORAGE_FULL, OK} : Finish(s)
           /\ pc \in {"expire", "crypto", "store", "write"}
           /\ sent' = sent /\ ring' = ring /\ line' = line
  BY <1>0, <1>4, FinishExchanges DEF Deciding, Making
<1>5. CASE BeginRequest
  <2>1. /\ Len(replies) = sent /\ ring = <<>> /\ current_state = "IDLE"
        /\ current_state' = current_state /\ ring' = ring /\ replies' = replies
        /\ sent' = sent + 1 /\ line' = Frame(sent + 1) /\ sent + 1 \in 1..Len(Requests)
    BY <1>0, <1>5, Setting DEF ExchangeInv, BeginRequest, loopVars
  <2>2. InPlace(<<>>, <<>>, Frame(sent + 1), Frame(sent + 1))
    BY <2>1, NewFrame
  <2> QED BY <1>0, <2>1, <2>2 DEF ExchangeInv, Partial
<1>6. CASE PowerCut
  <2>1. Len(replies') = sent' /\ sent' = sent
    BY <1>0, <1>6 DEF PowerCut, NO_ANSWER
  <2> QED BY <1>0, <1>6, <2>1 DEF ExchangeInv, PowerCut
<1>7. CASE \/ LoadLow \/ StartTimer \/ TestConsent \/ TestTimeout \/ TestButton \/ Approve
           \/ WritePart \/ Sleep \/ Tick
  <2>1. /\ UNCHANGED <<request, ring, line, sent, replies>>
        /\ \/ current_state' = current_state
           \/ current_state = "WAIT_CONSENT" /\ current_state' = "PROCESS_CRYPTO"
    BY <1>0, <1>7
    DEF LoadLow, StartTimer, TestConsent, TestTimeout, TestButton, Approve, WritePart, Sleep, Tick,
        clientVars, loopVars, Deciding
  <2> QED BY <1>3, <2>1
<1>8. CASE Expire \/ MakeKey \/ FindSlot \/ Answer
  BY <1>3, <1>4, <1>8 DEF Expire, MakeKey, FindSlot, Answer, clientVars
<1> QED BY <1>1, <1>2, <1>5, <1>6, <1>7, <1>8 DEF Next, Loop

ExchangeAll == TypeAndPlaces /\ ExchangeInv

(* The invariant of the exchange between client and authenticator,         *)
(* inductive.                                                              *)
THEOREM ExchangeInvariant == Spec => []ExchangeAll
<1>1. Init => ExchangeAll
  BY InitTypes DEF Init, ExchangeAll, ExchangeInv
<1>2. ExchangeAll /\ [Next]_vars => ExchangeAll'
  <2> SUFFICES ASSUME ExchangeAll, [Next]_vars PROVE ExchangeAll'
    OBVIOUS
  <2>1. CASE Next
    <3>1. pc = "write" => RequestedApp \in App
      BY WholeMessage DEF ExchangeAll, TypeAndPlaces, PlacesOK, Making
    <3>2. TypeAndPlaces'
      BY <2>1, <3>1, LoopTypes, InterruptTypes DEF Next, ExchangeAll
    <3> QED BY <2>1, <3>2, ExchangeStep DEF ExchangeAll
  <2>2. CASE UNCHANGED vars
    BY <2>2 DEF ExchangeAll, TypeAndPlaces, TypeOK, PlacesOK, ExchangeInv, Partial, vars, loopVars,
                storeVars, clientVars
  <2> QED BY <2>1, <2>2
<1> QED BY <1>1, <1>2, PTL DEF Spec

(* Every variable of Authenticator keeps its type: the message fits into   *)
(* its 21 bytes, the digits of the counter into their base.                *)
THEOREM TypeCorrect == Spec => []TypeOK
<1>1. ExchangeAll => TypeOK
  BY DEF ExchangeAll, TypeAndPlaces
<1> QED BY <1>1, ExchangeInvariant, PTL

(* Whatever the size of the ring buffer, the bytes of the identifiers and  *)
(* the power cuts, what the user is asked to consent to is the message the *)
(* client sent, and each request has one answer, after it was decided.     *)
THEOREM ServedOnce == Spec => []RequestsAreServedOnce
<1>1. ExchangeAll => RequestsAreServedOnce
  <2> SUFFICES ASSUME ExchangeAll PROVE RequestsAreServedOnce
    OBVIOUS
  <2>1. ServedRequestWasSent
    BY WholeMessage DEF ExchangeAll, ServedRequestWasSent
  <2>2. AnsweredOnce
    BY Setting DEF ExchangeAll, ExchangeInv, TypeAndPlaces, TypeOK, AnsweredOnce
  <2> QED BY <2>1, <2>2 DEF RequestsAreServedOnce
<1> QED BY <1>1, ExchangeInvariant, PTL
-----------------------------------------------------------------------------
(* The ticks since the timer was started, as the counter shows them. *)
Past == (ticks - start) % Wrap

(* The wait for consent.  In its first turn, the only one that a byte woke,*)
(* a tick may come anywhere; a later turn is woken by a tick and meets no  *)
(* other.  A load that a tick tore in two has counted that one tick only,  *)
(* so the timer never runs late by more than it.                           *)
TimerInv == current_state = "WAIT_CONSENT" =>
    /\ waited = 0 \/ paced \/ pc = "asleep"
    /\ pc \in {"startLow", "startHigh"} => waited <= 1
    /\ pc = "startHigh" /\ waited = 0 => low = ticks % Base
    /\ pc \notin {"startLow", "startHigh"} =>
           /\ waited = 0 => start = ticks
           /\ waited <= Past + 1 /\ waited <= Timeout + 1
    /\ pc = "nowHigh" => low = ticks % Base \/ (Past = 1 /\ waited = 1)
    /\ pc \in {"button", "sleep", "asleep"} => Past < Timeout \/ (Past <= 1 /\ waited <= 1)

LEMMA TimerTypes ==
  ASSUME TypeOK
  PROVE  /\ ticks \in 0..(Wrap - 1) /\ start \in 0..(Wrap - 1) /\ Past \in 0..(Wrap - 1)
         /\ low \in 0..(Base - 1) /\ waited \in Nat /\ waited <= Wrap - 1 /\ Wrap \in Nat /\ Wrap >= 4
         /\ start = ticks => Past = 0
         /\ low = ticks % Base => Loaded = ticks
<1>1. /\ ticks \in 0..(Wrap - 1) /\ start \in 0..(Wrap - 1) /\ low \in 0..(Base - 1)
      /\ waited \in 0..(Wrap - 1) /\ Wrap \in Nat /\ Wrap >= 4
  BY Setting DEF TypeOK
<1>2. Past = IF ticks >= start THEN ticks - start ELSE ticks - start + Wrap
  BY <1>1, BehindIs DEF Past
<1> HIDE DEF Wrap
<1> QED BY <1>1, <1>2, LoadedIs

LEMMA TickTimes ==
  ASSUME TypeAndPlaces, TimerInv, Tick
  PROVE  TimerInv'
<1> SUFFICES ASSUME current_state = "WAIT_CONSENT" PROVE TimerInv'
  BY DEF TimerInv, Tick
<1>0. /\ ticks \in 0..(Wrap - 1) /\ start \in 0..(Wrap - 1) /\ Past \in 0..(Wrap - 1)
      /\ waited \in Nat /\ Wrap \in Nat /\ Wrap >= 4 /\ TypeOK
      /\ Timeout \in Nat /\ 1 <= Timeout /\ Timeout <= Wrap - 2
      /\ start = ticks => Past = 0
  BY TimerTypes, Setting DEF TypeAndPlaces
<1>1. /\ current_state' = current_state /\ start' = start /\ low' = low /\ paced' = TRUE
      /\ ticks' = (ticks + 1) % Wrap
      /\ pc' = IF pc = "asleep" THEN "getc" ELSE pc
      /\ waited' = IF waited < Wrap - 1 THEN waited + 1 ELSE waited
  BY DEF Tick, Goto, Woken
<1>2. pc \notin {"crypto", "store", "write"}
  BY DEF TypeAndPlaces, PlacesOK, Making
<1>3. ~paced
  BY <1>2 DEF Tick
<1>4. Past < Wrap - 1 => Past' = Past + 1
  <2>1. ticks' = IF ticks = Wrap - 1 THEN 0 ELSE ticks + 1
    BY <1>0, <1>1, TickIs
  <2>2. Past = IF ticks >= start THEN ticks - start ELSE ticks - start + Wrap
    BY <1>0, BehindIs DEF Past
  <2>3. ticks' \in 0..(Wrap - 1)
    BY <1>0, <2>1
  <2>4. Past' = (ticks' - start) % Wrap
    BY <1>1 DEF Past, Wrap
  <2>5. Past' = IF ticks' >= start THEN ticks' - start ELSE ticks' - start + Wrap
    BY <1>0, <2>3, <2>4, BehindIs
  <2> QED BY <1>0, <2>1, <2>2, <2>5
<1>5. CASE pc = "asleep"
  <2>1. /\ Past < Timeout \/ (Past <= 1 /\ waited <= 1)
        /\ waited <= Past + 1
    BY <1>5 DEF TimerInv
  <2>2. Past' = Past + 1 /\ waited' = waited + 1 /\ waited' <= Timeout + 1
    BY <1>0, <1>1, <1>4, <2>1
  <2> QED BY <1>0, <1>1, <1>5, <2>1, <2>2 DEF TimerInv
<1>6. CASE pc # "asleep"
  <2>1. waited = 0 /\ waited' = 1 /\ pc' = pc
    BY <1>0, <1>1, <1>3, <1>6 DEF TimerInv
  <2>2. pc \notin {"startLow", "startHigh"} => Past' = 1
    BY <1>0, <1>4, <2>1 DEF TimerInv
  <2> QED BY <1>0, <1>1, <2>1, <2>2 DEF TimerInv
<1> QED BY <1>5, <1>6

LEMMA TimerStep ==
  ASSUME ExchangeAll, TimerInv, [Next]_vars
  PROVE  TimerInv'
<1>0. /\ TypeAndPlaces /\ ExchangeInv /\ TypeOK
      /\ ticks \in 0..(Wrap - 1) /\ start \in 0..(Wrap - 1) /\ Past \in 0..(Wrap - 1)
      /\ low \in 0..(Base - 1) /\ waited \in Nat /\ Wrap \in Nat /\ Wrap >= 4
      /\ Timeout \in Nat /\ 1 <= Timeout
      /\ low = ticks % Base => Loaded = ticks
      /\ pc \in Making <=> current_state = "PROCESS_CRYPTO"
  BY TimerTypes, Setting DEF ExchangeAll, TypeAndPlaces, PlacesOK
<1>p. ticks' = ticks /\ start' = start => Past' = Past
  BY DEF Past, Wrap
<1>1. CASE Tick
  BY <1>0, <1>1, TickTimes
<1>2. CASE Receive \/ BeginRequest
  <2>1. current_state' = current_state
    BY <1>2 DEF Receive, BeginRequest, loopVars
  <2>2. current_state # "WAIT_CONSENT"
    BY <1>0, <1>2, WholeMessage DEF Receive, BeginRequest
  <2> QED BY <2>1, <2>2 DEF TimerInv
<1>3. CASE Getc
  <2>1. /\ UNCHANGED <<start, low, ticks, paced>> /\ pc = "getc"
    BY <1>3 DEF Getc
  <2>2. CASE current_state = "WAIT_CONSENT"
    <3>1. pc' = "consent" /\ waited' = waited
      BY <1>0, <1>3, <2>2, WholeMessage DEF Getc, NoByte, TakeByte, Goto
    <3> QED BY <1>p, <2>1, <2>2, <3>1 DEF TimerInv
  <2>3. CASE current_state # "WAIT_CONSENT"
    <3>1. current_state' = "WAIT_CONSENT" => waited' = 0 /\ pc' = "startLow"
      BY <1>3, <2>3 DEF Getc, NoByte, TakeByte, DropByte, FirstByte, NextByte, Goto
    <3> QED BY <3>1 DEF TimerInv
  <2> QED BY <2>2, <2>3
<1>4. CASE LoadLow
  <2>1. /\ UNCHANGED <<current_state, start, ticks, waited, paced>> /\ low' = ticks % Base
        /\ pc \in {"startLow", "nowLow"}
        /\ pc' = IF pc = "startLow" THEN "startHigh" ELSE "nowHigh"
    BY <1>4 DEF LoadLow, Goto
  <2> QED BY <1>p, <2>1 DEF TimerInv
<1>5. CASE StartTimer
  <2>1. /\ UNCHANGED <<current_state, low, ticks, waited, paced>> /\ start' = Loaded
        /\ pc = "startHigh" /\ pc' = "consent"
    BY <1>5 DEF StartTimer, Goto
  <2>2. Past' \in 0..(Wrap - 1)
    <3>1. start' \in 0..(Wrap - 1)
      BY <1>0, <2>1, LoadedIs
    <3>2. Past' = (ticks - start') % Wrap
      BY <2>1 DEF Past, Wrap
    <3> QED BY <1>0, <3>1, <3>2, BehindIs
  <2>3. (waited = 0 => Loaded = ticks) /\ waited <= 1
    <3>1. current_state = "WAIT_CONSENT"
      BY <1>0, <2>1 DEF TypeAndPlaces, PlacesOK, Deciding
    <3> QED BY <1>0, <2>1, <3>1 DEF TimerInv
  <2>4. waited <= Past' + 1 /\ waited <= Timeout + 1
    <3>1. \A x \in 0..(Wrap - 1) : waited <= x + 1
      BY <1>0, <2>3
    <3>2. waited <= Timeout + 1
      BY <1>0, <2>3
    <3> QED BY <2>2, <3>1, <3>2
  <2>5. current_state = "WAIT_CONSENT" => waited = 0 \/ paced
    BY <2>1 DEF TimerInv
  <2> QED BY <2>1, <2>3, <2>4, <2>5 DEF TimerInv
<1>6. CASE TestConsent \/ TestButton \/ Sleep
  <2>1. UNCHANGED <<current_state, start, low, ticks, waited>>
    BY <1>6 DEF TestConsent, TestButton, Sleep
  <2>2. current_state = "WAIT_CONSENT" =>
          \/ (pc = "consent" /\ pc' = "nowLow" /\ paced' = paced)
          \/ (pc = "button" /\ pc' \in {"approve", "sleep"} /\ paced' = paced)
          \/ (pc = "sleep" /\ pc' = "asleep")
    BY <1>6 DEF TestConsent, TestButton, Sleep, Goto
  <2> QED BY <1>p, <2>1, <2>2 DEF TimerInv
<1>7. CASE TestTimeout
  <2>1. /\ UNCHANGED <<current_state, start, low, ticks, waited, paced>> /\ pc = "nowHigh"
        /\ pc' = "expire" \/ (pc' = "button" /\ ~(Elapsed >= Timeout))
    BY <1>7 DEF TestTimeout, Goto
  <2>2. Loaded = ticks => Elapsed = Past
    BY DEF Elapsed, Past
  <2>3. low = ticks % Base /\ pc' = "button" => Past < Timeout
    BY <1>0, <2>1, <2>2
  <2> QED BY <1>0, <1>p, <2>1, <2>3 DEF TimerInv
<1>8. CASE Expire \/ Approve \/ MakeKey \/ FindSlot \/ WritePart \/ Answer \/ PowerCut
  <2>1. current_state' # "WAIT_CONSENT"
    BY <1>0, <1>8
    DEF Expire, Approve, MakeKey, FindSlot, WritePart, Answer, PowerCut, Finish, loopVars, Making
  <2> QED BY <2>1 DEF TimerInv
<1>9. CASE UNCHANGED vars
  <2> QED BY <1>p, <1>9 DEF TimerInv, vars, loopVars
<1> QED BY <1>1, <1>2, <1>3, <1>4, <1>5, <1>6, <1>7, <1>8, <1>9 DEF Next, Loop

(* The wait for consent is bounded for every width of the counter, every   *)
(* timeout it can count and every interleaving of the ticks with the loads *)
(* of the counter, across its overflow.                                    *)
THEOREM TheWaitEnds == Spec => []WaitIsBounded
<1>1. Init => TimerInv
  BY DEF Init, TimerInv
<1>2. ExchangeAll /\ TimerInv => WaitIsBounded
  <2> SUFFICES ASSUME ExchangeAll, TimerInv, current_state = "WAIT_CONSENT"
               PROVE  waited <= Timeout + 1
    BY DEF WaitIsBounded
  <2>1. waited \in Nat /\ Timeout \in Nat /\ 1 <= Timeout
    BY TimerTypes, Setting DEF ExchangeAll, TypeAndPlaces
  <2> QED BY <2>1 DEF TimerInv
<1>3. ExchangeAll /\ TimerInv /\ [Next]_vars => TimerInv'
  BY TimerStep
<1> QED BY <1>1, <1>2, <1>3, ExchangeInvariant, PTL DEF Spec
-----------------------------------------------------------------------------
(* The entries of the table hold different apps, used or not: what a power *)
(* cut left in a free slot may come back when its is_used is written.      *)
AppsDistinct ==
    \A s, t \in Slot : s # t /\ eeprom[s].app \in App => eeprom[s].app # eeprom[t].app

(* Only the first free slot may hold the remains of a write. *)
RemainsFirst ==
    \A s, t \in Slot : s < t /\ ~eeprom[s].is_used /\ ~eeprom[t].is_used => eeprom[t].app = NoApp

(* The slot being written is the only one for the app, and the first free  *)
(* one as long as it is free; what has been written of it is in place.     *)
WritingOK == pc = "write" =>
    /\ \A t \in Slot : t # slot => eeprom[t].app # Requests[sent]
    /\ ~eeprom[slot].is_used => \A t \in Slot : t < slot => eeprom[t].is_used
    /\ "half" \in unwritten => "app" \in unwritten
    /\ "is_used" \notin unwritten => eeprom[slot].is_used
    /\ "app" \notin unwritten => eeprom[slot].app = Requests[sent]
    /\ "id" \notin unwritten => eeprom[slot].id = sent

(* The proof that an answered credential is stored is never in the slot    *)
(* being written.                                                          *)
OkKept ==
    \A k \in DOMAIN replies : replies[k] = OK =>
        \/ \E s \in Slot : /\ eeprom[s] = [is_used |-> TRUE, app |-> Requests[k], id |-> k]
                           /\ pc = "write" => s # slot
        \/ \E j \in (k + 1)..sent : Requests[j] = Requests[k]

StoreInv == AppsDistinct /\ RemainsFirst /\ WritingOK /\ OkKept

LEMMA StoreTypes ==
  ASSUME ExchangeAll
  PROVE  /\ eeprom \in [Slot -> Entry] /\ slot \in Slot /\ Slot \subseteq Nat
         /\ replies \in Seq(Nat) /\ Len(replies) \in Nat /\ DOMAIN replies = 1..Len(replies)
         /\ sent \in Nat /\ sent <= Len(Requests) /\ Len(replies) <= sent /\ unwritten \subseteq Part
         /\ \A s \in Slot : eeprom[s].is_used \in BOOLEAN
         /\ \A k \in 1..Len(Requests) : Requests[k] \in App
         /\ pc \in Making <=> current_state = "PROCESS_CRYPTO"
<1>1. /\ eeprom \in [Slot -> Entry] /\ slot \in Slot /\ replies \in Seq(Nat)
      /\ sent \in 0..Len(Requests) /\ unwritten \subseteq Part
      /\ Len(replies) \in {sent - 1, sent}
      /\ pc \in Making <=> current_state = "PROCESS_CRYPTO"
  BY DEF ExchangeAll, TypeAndPlaces, TypeOK, PlacesOK, ExchangeInv
<1>2. Slot \subseteq Nat
  BY Setting DEF Slot
<1>3. \A s \in Slot : eeprom[s].is_used \in BOOLEAN
  BY <1>1 DEF Entry
<1>4. \A k \in 1..Len(Requests) : Requests[k] \in App
  BY Setting DEF App
<1> QED BY <1>1, <1>2, <1>3, <1>4, Setting

LEMMA OneMoreReply ==
  ASSUME NEW r \in Seq(Nat), NEW s \in Nat
  PROVE  /\ DOMAIN Append(r, s) = 1..(Len(r) + 1) /\ DOMAIN r = 1..Len(r) /\ Len(r) \in Nat
         /\ \A k \in DOMAIN r : Append(r, s)[k] = r[k]
         /\ Append(r, s)[Len(r) + 1] = s
  BY AppendProperties

(* A step that writes nothing and answers nothing but a refusal. *)
LEMMA StoreKept ==
  ASSUME ExchangeAll, StoreInv, eeprom' = eeprom, pc' # "write",
         sent' \in {sent, sent + 1},
         \/ replies' = replies
         \/ \E s \in Nat : s # OK /\ replies' = Append(replies, s)
  PROVE  StoreInv'
<1>1. AppsDistinct' /\ RemainsFirst' /\ WritingOK'
  BY DEF StoreInv, AppsDistinct, RemainsFirst, WritingOK
<1>2. OkKept'
  <2> SUFFICES ASSUME NEW k \in DOMAIN replies', replies'[k] = OK
               PROVE  \/ \E s \in Slot : eeprom'[s] = [is_used |-> TRUE, app |-> Requests[k], id |-> k]
                      \/ \E j \in (k + 1)..sent' : Requests[j] = Requests[k]
    BY DEF OkKept
  <2>1. k \in DOMAIN replies /\ replies[k] = OK
    <3>1. CASE replies' = replies
      BY <3>1
    <3>2. ASSUME NEW s \in Nat, s # OK, replies' = Append(replies, s)
          PROVE  k \in DOMAIN replies /\ replies[k] = OK
      <4>1. /\ DOMAIN replies' = 1..(Len(replies) + 1) /\ DOMAIN replies = 1..Len(replies)
            /\ Len(replies) \in Nat /\ replies'[Len(replies) + 1] = s
            /\ \A i \in DOMAIN replies : replies'[i] = replies[i]
        BY <3>2, StoreTypes, OneMoreReply
      <4>2. k # Len(replies) + 1
        BY <3>2, <4>1
      <4> QED BY <4>1, <4>2
    <3> QED BY <3>1, <3>2
  <2>2. CASE \E s \in Slot : eeprom[s] = [is_used |-> TRUE, app |-> Requests[k], id |-> k]
    BY <2>2
  <2>3. ASSUME NEW j \in (k + 1)..sent, Requests[j] = Requests[k]
        PROVE  \E i \in (k + 1)..sent' : Requests[i] = Requests[k]
    <3>1. j \in (k + 1)..sent'
      BY <2>1, StoreTypes
    <3> QED BY <2>3, <3>1
  <2> QED BY <2>1, <2>2, <2>3 DEF StoreInv, OkKept
<1> QED BY <1>1, <1>2 DEF StoreInv

(* The slot found has the app, and then it is the only one, or no slot has *)
(* it and it is the first free one.                                        *)
LEMMA SlotFound ==
  ASSUME ExchangeAll, StoreInv, pc = "store", Candidates # {}, NEW s, s = First(Candidates)
  PROVE  /\ s \in Slot
         /\ \A t \in Slot : t # s => eeprom[t].app # Requests[sent]
         /\ ~eeprom[s].is_used => \A t \in Slot : t < s => eeprom[t].is_used
         /\ eeprom[s].is_used => eeprom[s].app = Requests[sent]
<1>1. Candidates \in SUBSET Nat /\ Candidates \subseteq Slot
  BY StoreTypes DEF Candidates, Matching, Free
<1>2. s \in Candidates /\ \A t \in Candidates : s <= t
  BY <1>1, Least DEF First
<1>3. RequestedApp = Requests[sent] /\ Requests[sent] \in App
  BY StoreTypes, WholeMessage DEF ExchangeAll, Making
<1>4. CASE Matching # {}
  <2>1. s \in Slot /\ eeprom[s].is_used /\ eeprom[s].app = Requests[sent]
    BY <1>2, <1>3, <1>4 DEF Candidates, Matching
  <2> QED BY <1>3, <2>1 DEF StoreInv, AppsDistinct
<1>5. CASE Matching = {}
  <2>1. /\ s \in Slot /\ ~eeprom[s].is_used
        /\ \A t \in Slot : ~eeprom[t].is_used => s <= t
    BY <1>2, <1>5 DEF Candidates, Free
  <2>2. \A t \in Slot : t < s => eeprom[t].is_used
    BY <2>1, StoreTypes
  <2>3. ASSUME NEW t \in Slot, t # s PROVE eeprom[t].app # Requests[sent]
    <3>1. CASE eeprom[t].is_used
      BY <1>3, <1>5, <3>1 DEF Matching
    <3>2. CASE ~eeprom[t].is_used
      <4>1. s < t
        BY <2>1, <2>3, <3>2, StoreTypes
      <4>2. eeprom[t].app = NoApp
        BY <2>1, <3>2, <4>1 DEF StoreInv, RemainsFirst
      <4> QED BY <1>3, <4>2, Setting
    <3> QED BY <3>1, <3>2
  <2> QED BY <2>1, <2>2, <2>3
<1> QED BY <1>4, <1>5

LEMMA FindKeepsStore ==
  ASSUME ExchangeAll, StoreInv, FindSlot, Candidates # {}
  PROVE  StoreInv'
<1>1. /\ pc = "store" /\ pc' = "write" /\ slot' = First(Candidates) /\ unwritten' = Part
      /\ UNCHANGED <<eeprom, sent, replies>>
  BY DEF FindSlot, Goto, clientVars
<1>2. /\ slot' \in Slot
      /\ \A t \in Slot : t # slot' => eeprom[t].app # Requests[sent]
      /\ ~eeprom[slot'].is_used => \A t \in Slot : t < slot' => eeprom[t].is_used
      /\ eeprom[slot'].is_used => eeprom[slot'].app = Requests[sent]
  BY <1>1, SlotFound
<1>3. AppsDistinct' /\ RemainsFirst'
  BY <1>1 DEF StoreInv, AppsDistinct, RemainsFirst
<1>4. WritingOK'
  BY <1>1, <1>2 DEF WritingOK, Part
<1>5. OkKept'
  <2> SUFFICES ASSUME NEW k \in DOMAIN replies, replies[k] = OK
               PROVE  \/ \E s \in Slot :
                            /\ eeprom[s] = [is_used |-> TRUE, app |-> Requests[k], id |-> k]
                            /\ s # slot'
                      \/ \E j \in (k + 1)..sent : Requests[j] = Requests[k]
    BY <1>1 DEF OkKept
  <2>1. CASE \E j \in (k + 1)..sent : Requests[j] = Requests[k]
    BY <2>1
  <2>2. ASSUME NEW s \in Slot,
               eeprom[s] = [is_used |-> TRUE, app |-> Requests[k], id |-> k]
        PROVE  \/ s # slot'
               \/ \E j \in (k + 1)..sent : Requests[j] = Requests[k]
    <3>1. CASE s = slot'
      <4>1. Requests[sent] = Requests[k]
        BY <1>2, <2>2, <3>1
      <4>2. k \in Nat /\ k <= Len(replies) /\ Len(replies) = sent - 1 /\ sent \in Nat
        BY <1>1, StoreTypes, WholeMessage DEF ExchangeAll, Making
      <4>3. sent \in (k + 1)..sent
        BY <4>2
      <4> QED BY <4>1, <4>3
    <3> QED BY <3>1
  <2> QED BY <2>1, <2>2 DEF StoreInv, OkKept
<1> QED BY <1>3, <1>4, <1>5 DEF StoreInv

LEMMA WriteKeepsStore ==
  ASSUME ExchangeAll, StoreInv, WritePart
  PROVE  StoreInv'
<1>0. /\ eeprom \in [Slot -> Entry] /\ slot \in Slot /\ Slot \subseteq Nat /\ unwritten \subseteq Part
      /\ RequestedApp = Requests[sent] /\ Requests[sent] \in App /\ Torn \notin App
  BY StoreTypes, WholeMessage, Setting DEF ExchangeAll, WritePart, Making
<1>1. /\ pc = "write" /\ UNCHANGED <<pc, slot, sent, replies>>
  BY DEF WritePart, loopVars, clientVars
<1>2. PICK p \in unwritten :
        /\ p = "app" => "half" \notin unwritten
        /\ unwritten' = unwritten \ {p}
        /\ eeprom' = [eeprom EXCEPT ![slot] =
              CASE p = "is_used" -> [@ EXCEPT !.is_used = TRUE]
                [] p = "half"    -> [@ EXCEPT !.app = Torn]
                [] p = "app"     -> [@ EXCEPT !.app = RequestedApp]
                [] p = "id"      -> [@ EXCEPT !.id = sent]]
  BY DEF WritePart
<1>3. /\ p \in {"is_used", "half", "app", "id"}
      /\ \A t \in Slot : t # slot => eeprom'[t] = eeprom[t]
      /\ p = "is_used" => /\ eeprom'[slot].is_used /\ eeprom'[slot].app = eeprom[slot].app
                          /\ eeprom'[slot].id = eeprom[slot].id
      /\ p = "half" => /\ eeprom'[slot].app = Torn /\ eeprom'[slot].id = eeprom[slot].id
                       /\ eeprom'[slot].is_used = eeprom[slot].is_used
      /\ p = "app" => /\ eeprom'[slot].app = Requests[sent] /\ eeprom'[slot].id = eeprom[slot].id
                      /\ eeprom'[slot].is_used = eeprom[slot].is_used
      /\ p = "id" => /\ eeprom'[slot].app = eeprom[slot].app /\ eeprom'[slot].id = sent
                     /\ eeprom'[slot].is_used = eeprom[slot].is_used
  BY <1>0, <1>2 DEF Part, Entry
<1>4. /\ \A t \in Slot : t # slot => eeprom[t].app # Requests[sent]
      /\ ~eeprom[slot].is_used => \A t \in Slot : t < slot => eeprom[t].is_used
      /\ "half" \in unwritten => "app" \in unwritten
      /\ "is_used" \notin unwritten => eeprom[slot].is_used
      /\ "app" \notin unwritten => eeprom[slot].app = Requests[sent]
      /\ "id" \notin unwritten => eeprom[slot].id = sent
  BY <1>1 DEF StoreInv, WritingOK
<1>5. /\ eeprom'[slot].app \in {eeprom[slot].app, Torn, Requests[sent]}
      /\ ~eeprom'[slot].is_used => ~eeprom[slot].is_used
  BY <1>3
<1>6. AppsDistinct'
  <2> SUFFICES ASSUME NEW s \in Slot, NEW t \in Slot, s # t, eeprom'[s].app \in App
               PROVE  eeprom'[s].app # eeprom'[t].app
    BY DEF AppsDistinct
  <2>1. AppsDistinct
    BY DEF StoreInv
  <2>2. CASE s # slot /\ t # slot
    BY <1>3, <2>1, <2>2 DEF AppsDistinct
  <2>3. CASE s = slot
    BY <1>0, <1>3, <1>4, <1>5, <2>1, <2>3 DEF AppsDistinct
  <2>4. CASE t = slot
    BY <1>0, <1>3, <1>4, <1>5, <2>1, <2>4 DEF AppsDistinct
  <2> QED BY <2>2, <2>3, <2>4
<1>7. RemainsFirst'
  <2> SUFFICES ASSUME NEW s \in Slot, NEW t \in Slot, s < t,
                      ~eeprom'[s].is_used, ~eeprom'[t].is_used
               PROVE  eeprom'[t].app = NoApp
    BY DEF RemainsFirst
  <2>1. ~eeprom[s].is_used /\ ~eeprom[t].is_used
    BY <1>3, <1>5
  <2>2. t # slot
    BY <1>0, <1>4, <2>1
  <2> QED BY <1>3, <2>1, <2>2 DEF StoreInv, RemainsFirst
<1>8. WritingOK'
  <2>1. \A t \in Slot : t # slot => eeprom'[t].app # Requests[sent]
    BY <1>3, <1>4
  <2>2. ~eeprom'[slot].is_used => \A t \in Slot : t < slot => eeprom'[t].is_used
    <3>1. \A t \in Slot : t < slot => t # slot
      BY <1>0
    <3> QED BY <1>3, <1>4, <1>5, <3>1
  <2>3. "half" \in unwritten' => "app" \in unwritten'
    BY <1>2, <1>4
  <2>4. "is_used" \notin unwritten' => eeprom'[slot].is_used
    BY <1>2, <1>3, <1>4
  <2>5. "app" \notin unwritten' => eeprom'[slot].app = Requests[sent]
    BY <1>2, <1>3, <1>4
  <2>6. "id" \notin unwritten' => eeprom'[slot].id = sent
    BY <1>2, <1>3, <1>4
  <2> QED BY <1>1, <2>1, <2>2, <2>3, <2>4, <2>5, <2>6 DEF WritingOK
<1>9. OkKept'
  <2> SUFFICES ASSUME NEW k \in DOMAIN replies, replies[k] = OK
               PROVE  \/ \E s \in Slot :
                            /\ eeprom'[s] = [is_used |-> TRUE, app |-> Requests[k], id |-> k]
                            /\ s # slot
                      \/ \E j \in (k + 1)..sent : Requests[j] = Requests[k]
    BY <1>1 DEF OkKept
  <2> QED BY <1>1, <1>3 DEF StoreInv, OkKept
<1> QED BY <1>6, <1>7, <1>8, <1>9 DEF StoreInv

(* The answer OK, with every part of the entry written. *)
LEMMA AnswerKeepsStore ==
  ASSUME ExchangeAll, StoreInv, Answer
  PROVE  StoreInv'
<1>1. /\ pc = "write" /\ unwritten = {} /\ pc' = "sleep" /\ replies' = Append(replies, OK)
      /\ UNCHANGED <<eeprom, sent>>
  BY DEF Answer, Finish, Reply, Goto, storeVars, clientVars
<1>2. AppsDistinct' /\ RemainsFirst' /\ WritingOK'
  BY <1>1 DEF StoreInv, AppsDistinct, RemainsFirst, WritingOK
<1>3. OkKept'
  <2> SUFFICES ASSUME NEW k \in DOMAIN replies', replies'[k] = OK
               PROVE  \/ \E s \in Slot : eeprom[s] = [is_used |-> TRUE, app |-> Requests[k], id |-> k]
                      \/ \E j \in (k + 1)..sent : Requests[j] = Requests[k]
    BY <1>1 DEF OkKept
  <2>1. /\ DOMAIN replies' = 1..(Len(replies) + 1) /\ DOMAIN replies = 1..Len(replies)
        /\ Len(replies) \in Nat
        /\ \A i \in DOMAIN replies : replies'[i] = replies[i]
    BY <1>1, StoreTypes, OneMoreReply DEF OK
  <2>2. CASE k \in DOMAIN replies
    BY <2>1, <2>2 DEF StoreInv, OkKept
  <2>3. CASE k \notin DOMAIN replies
    <3>1. k = sent
      <4>1. Len(replies) = sent - 1 /\ sent \in Nat
        BY <1>1, StoreTypes, WholeMessage DEF ExchangeAll, Making
      <4> QED BY <2>1, <2>3, <4>1
    <3>2. /\ eeprom[slot].is_used /\ eeprom[slot].app = Requests[sent] /\ eeprom[slot].id = sent
          /\ slot \in Slot /\ eeprom[slot] \in Entry /\ eeprom[slot].is_used \in BOOLEAN
      BY <1>1, StoreTypes DEF StoreInv, WritingOK
    <3>3. eeprom[slot] = [is_used |-> TRUE, app |-> Requests[k], id |-> k]
      BY <3>1, <3>2 DEF Entry
    <3> QED BY <3>2, <3>3
  <2> QED BY <2>2, <2>3
<1> QED BY <1>2, <1>3 DEF StoreInv

LEMMA StoreStep ==
  ASSUME ExchangeAll, StoreInv, [Next]_vars
  PROVE  StoreInv'
<1>0. pc \in Making <=> current_state = "PROCESS_CRYPTO"
  BY StoreTypes
<1>1. CASE FindSlot
  <2>1. CASE Candidates # {}
    BY <1>1, <2>1, FindKeepsStore
  <2>2. CASE Candidates = {}
    <3>1. /\ eeprom' = eeprom /\ pc' = "sleep" /\ sent' = sent
          /\ replies' = Append(replies, STORAGE_FULL)
      BY <1>1, <2>2 DEF FindSlot, Finish, Reply, Goto, clientVars
    <3> QED BY <3>1, StoreKept DEF STORAGE_FULL, OK
  <2> QED BY <2>1, <2>2
<1>2. CASE WritePart
  BY <1>2, WriteKeepsStore
<1>3. CASE Answer
  BY <1>3, AnswerKeepsStore
<1>4. CASE Expire \/ MakeKey
  <2>1. /\ eeprom' = eeprom /\ pc' \in {"sleep", "store"} /\ sent' = sent
        /\ \/ replies' = replies
           \/ \E s \in {APPROVAL, CRYPTO_FAILED} : replies' = Append(replies, s)
    BY <1>4 DEF Expire, MakeKey, Finish, Reply, Goto, storeVars, clientVars
  <2> QED BY <2>1, StoreKept DEF APPROVAL, CRYPTO_FAILED, OK
<1>5. CASE PowerCut
  <2>1. /\ eeprom' = eeprom /\ pc' = "getc" /\ sent' = sent
        /\ \/ replies' = replies
           \/ replies' = Append(replies, NO_ANSWER)
    BY <1>5 DEF PowerCut
  <2> QED BY <2>1, StoreKept DEF NO_ANSWER, OK
<1>6. CASE BeginRequest
  <2>1. /\ eeprom' = eeprom /\ pc' = pc /\ sent' = sent + 1 /\ replies' = replies
        /\ Len(replies) = sent
    BY <1>6 DEF BeginRequest, loopVars, storeVars
  <2>2. current_state # "PROCESS_CRYPTO"
    <3>1. current_state = "PROCESS_CRYPTO" => Len(replies) = sent - 1 /\ sent \in Nat
      BY StoreTypes, WholeMessage DEF ExchangeAll
    <3> QED BY <2>1, <3>1
  <2>3. pc' # "write"
    BY <1>0, <2>1, <2>2 DEF Making
  <2> QED BY <2>1, <2>3, StoreKept
<1>7. CASE Tick \/ Receive \/ UNCHANGED vars
  <2>1. /\ UNCHANGED <<eeprom, slot, unwritten, sent, replies>>
        /\ pc' = pc \/ (pc = "asleep" /\ pc' = "getc")
    BY <1>7 DEF Tick, Receive, Goto, Woken, vars, loopVars, storeVars, clientVars
  <2>2. CASE pc' = pc
    BY <2>1, <2>2 DEF StoreInv, AppsDistinct, RemainsFirst, WritingOK, OkKept
  <2>3. CASE pc' = "getc"
    BY <2>1, <2>3, StoreKept
  <2> QED BY <2>1, <2>2, <2>3
<1>8. CASE Getc \/ LoadLow \/ StartTimer \/ TestConsent \/ TestTimeout \/ TestButton \/ Approve \/ Sleep
  <2>1. UNCHANGED <<eeprom, sent, replies>> /\ pc' # "write"
    BY <1>8
    DEF Getc, NoByte, TakeByte, DropByte, FirstByte, NextByte, LoadLow, StartTimer, TestConsent,
        TestTimeout, TestButton, Approve, Sleep, Goto, storeVars, clientVars
  <2> QED BY <2>1, StoreKept
<1> QED BY <1>1, <1>2, <1>3, <1>4, <1>5, <1>6, <1>7, <1>8 DEF Next, Loop

(* Whatever power cuts leave of the writes, in whatever order the parts of *)
(* an entry reach the EEPROM, the table holds one entry per app and every  *)
(* credential the client was told to be stored, until it is replaced.      *)
THEOREM TheStoreIsRight == Spec => []StoreIsRight
<1>1. Init => StoreInv
  <2> SUFFICES ASSUME Init PROVE StoreInv
    OBVIOUS
  <2>1. \A s \in Slot : eeprom[s].app = NoApp
    BY DEF Init
  <2>2. replies = <<>> /\ pc = "getc"
    BY DEF Init
  <2> QED BY <2>1, <2>2, Setting DEF StoreInv, AppsDistinct, RemainsFirst, WritingOK, OkKept
<1>2. ExchangeAll /\ StoreInv => StoreIsRight
  BY DEF StoreInv, AppsDistinct, OkKept, StoreIsRight, StoredAppsDistinct, OkMeansStored
<1>3. ExchangeAll /\ StoreInv /\ [Next]_vars => StoreInv'
  BY StoreStep
<1> QED BY <1>1, <1>2, <1>3, ExchangeInvariant, PTL DEF Spec
=============================================================================
