--------------------------- MODULE Authenticator ----------------------------
(***************************************************************************)
(* The registration firmware of the authenticator (enregistrement.c): the  *)
(* loop of main, which takes one byte per turn and then sleeps, the two    *)
(* interrupt handlers (a byte from the serial line, a tick every 500 ms),  *)
(* the credentials in EEPROM, and around them the client, the user's       *)
(* button and the power.                                                   *)
(*                                                                         *)
(* An interrupt may come between any two steps of the loop.  The tick      *)
(* counter is wider than a machine word, so the loop loads it in two steps *)
(* (four bytes in the code, two digits here).                              *)
(***************************************************************************)
EXTENDS Integers, Sequences, FiniteSets

CONSTANTS
    Requests,       \* the app identifiers the client registers, in order
    RequestSize,    \* bytes of MakeCredential_t: 21
    BufferSize,     \* bytes the ring buffer holds
    Slots,          \* MAX_CREDENTIALS: 17
    Erased,         \* whether the EEPROM is fresh from the factory: 0xFF
    Base,           \* values of one digit of timer_500ms_ticks
    Timeout,        \* ticks of the consent: 20
    Presses,        \* whether the user presses the button
    MaxCuts,        \* bound: power cuts
    Torn, NoApp

(* The status of a request that a power cut left without an answer. *)
NO_ANSWER == 7
COMMAND_MAKE_CREDENTIAL == 1
EMPTY_VALUE == 255
OK == 0
CRYPTO_FAILED == 2
STORAGE_FULL == 5
APPROVAL == 6

Wrap == Base * Base                 \* 2^32 in the code
App == {Requests[k] : k \in DOMAIN Requests}
Frame(k) == <<COMMAND_MAKE_CREDENTIAL>> \o Requests[k]
Byte == 0..255
Slot == 1..Slots

ASSUME AuthenticatorAssumption ==
    /\ RequestSize \in Nat \ {0, 1} /\ BufferSize \in Nat \ {0} /\ Slots \in Nat \ {0}
    /\ Requests \in Seq(Seq(Byte))
    /\ \A k \in DOMAIN Requests : Len(Requests[k]) = RequestSize - 1
    /\ Torn \notin App /\ NoApp \notin App
    /\ Erased \in BOOLEAN /\ Presses \in BOOLEAN
    /\ Base \in Nat \ {0, 1} /\ Timeout \in 1..(Wrap - 2) /\ MaxCuts \in Nat

VARIABLES
    pc,             \* where the loop is
    current_state,
    request,        \* the bytes stored through target_ptr, in order
    complete,       \* request holds a whole message: bytes_received is 0 again
    ticks,          \* timer_500ms_ticks
    start,          \* consent_timer_start_500ms_ticks
    low,            \* the low digit of a load of ticks in progress
    led,            \* PORTB, bit LED_PIN
    ring,           \* the bytes in the ring buffer
    eeprom,         \* CREDENTIALS_STORAGE
    slot,           \* empty_slot during a write
    unwritten,      \* the parts of the entry not yet written
    line,           \* the bytes of the request that the client is sending
    sent,           \* number of requests begun by the client
    replies,        \* the answers to them, oldest first
    waited,         \* ticks since the wait for consent began (history)
    paced,          \* a tick came in this turn of the loop
    cuts            \* number of power cuts

loopVars == <<pc, current_state, request, complete, start, low>>
storeVars == <<eeprom, slot, unwritten>>
clientVars == <<line, sent>>
vars == <<loopVars, ticks, led, ring, storeVars, clientVars, replies, waited, paced, cuts>>

Location == {"getc", "startLow", "startHigh", "consent", "nowLow", "nowHigh",
             "expire", "button", "approve", "crypto", "store", "write",
             "answer", "sleep", "asleep"}
Part == {"is_used", "half", "app", "id"}
Entry == [is_used : BOOLEAN, app : App \cup {NoApp, Torn}, id : 0..Len(Requests)]

TypeOK ==
    /\ pc \in Location
    /\ current_state \in {"IDLE", "RECEIVING", "WAIT_CONSENT", "PROCESS_CRYPTO"}
    /\ request \in Seq(Byte) /\ Len(request) <= RequestSize
    /\ current_state = "RECEIVING" <=> (request # <<>> /\ ~complete)
    /\ complete \in BOOLEAN /\ led \in BOOLEAN /\ paced \in BOOLEAN
    /\ ticks \in 0..(Wrap - 1) /\ start \in 0..(Wrap - 1) /\ low \in 0..(Base - 1)
    /\ ring \in Seq(Byte) /\ Len(ring) <= BufferSize
    /\ eeprom \in [Slot -> Entry]
    /\ slot \in Slot /\ unwritten \subseteq Part
    /\ line \in Seq(Byte) /\ Len(line) <= RequestSize
    /\ sent \in 0..Len(Requests) /\ replies \in Seq(Nat)
    /\ waited \in 0..(Wrap - 1) /\ cuts \in 0..MaxCuts

Init ==
    /\ pc = "getc" /\ current_state = "IDLE"
    /\ request = <<>> /\ complete = FALSE
    /\ ticks = 0 /\ start = 0 /\ low = 0 /\ led = FALSE
    /\ ring = <<>>
    /\ eeprom = [s \in Slot |-> [is_used |-> Erased, app |-> NoApp, id |-> 0]]
    /\ slot = 1 /\ unwritten = {}
    /\ line = <<>> /\ sent = 0 /\ replies = <<>>
    /\ waited = 0 /\ paced = FALSE /\ cuts = 0

Goto(l) == pc' = l
Reply(status) == replies' = Append(replies, status)

(* The end of a request: an answer, and back to STATE_IDLE. *)
Finish(status) ==
    /\ Reply(status)
    /\ current_state' = "IDLE"
    /\ Goto("sleep")

(* The app identifier of the message, and the slots for it. *)
RequestedApp == Tail(request)
Matching == {s \in Slot : eeprom[s].is_used /\ eeprom[s].app = RequestedApp}
Free == {s \in Slot : ~eeprom[s].is_used}
First(S) == CHOOSE s \in S : \A t \in S : s <= t

(* The second digit of a load of the tick counter, after the first. *)
Loaded == low + Base * (ticks \div Base)

(* Faulty variants, for the runs that check that each property can fail:   *)
(* a slot search that takes the first free slot, or one that takes the     *)
(* first slot of a full table; a comparison without wrap-around; an index  *)
(* that is not reset; a message that is one byte short; a failed key that  *)
(* does not stop the registration; a refusal that is not sent.             *)
FirstFreeWins == IF Free # {} THEN Free ELSE Matching

WholeTable == CHOOSE S \in {Matching, Free, Slot} :
                 /\ Matching # {} => S = Matching
                 /\ Matching = {} /\ Free # {} => S = Free
                 /\ S # {}

ElapsedUnwrapped == Loaded - start

FirstByteAppended(data) ==
    /\ current_state = "IDLE" /\ data = COMMAND_MAKE_CREDENTIAL
    /\ current_state' = "RECEIVING"
    /\ request' = Append(request, data)
    /\ complete' = FALSE
    /\ Goto("consent")
    /\ UNCHANGED waited

NextByteShort(data) ==
    /\ current_state = "RECEIVING"
    /\ request' = Append(request, data)
    /\ complete' = TRUE
    /\ current_state' = "WAIT_CONSENT"
    /\ waited' = 0
    /\ Goto("startLow")

MakeKeyRegardless ==
    /\ pc = "crypto" /\ Goto("store")
    /\ UNCHANGED replies \/ Reply(CRYPTO_FAILED)
    /\ UNCHANGED <<current_state, request, complete, ticks, start, low, led, ring, storeVars,
                   clientVars, waited, paced, cuts>>

ExpireSilently ==
    /\ pc = "expire"
    /\ current_state' = "IDLE"
    /\ Goto("sleep")
    /\ UNCHANGED <<request, complete, ticks, start, low, led, ring, storeVars, clientVars,
                   replies, waited, paced, cuts>>
-----------------------------------------------------------------------------
Elapsed == (Loaded - start) % Wrap

(* UART_getc gives EMPTY_VALUE: no byte, or a byte of that value. *)
NoByte ==
    /\ \/ ring = <<>> /\ UNCHANGED ring
       \/ ring # <<>> /\ Head(ring) = EMPTY_VALUE /\ ring' = Tail(ring)
    /\ Goto("consent")
    /\ UNCHANGED <<current_state, request, complete, waited>>

(* A byte out of a message, or during the wait for consent: dropped. *)
DropByte(data) ==
    /\ \/ current_state = "WAIT_CONSENT"
       \/ current_state = "IDLE" /\ data # COMMAND_MAKE_CREDENTIAL
    /\ Goto("consent")
    /\ UNCHANGED <<current_state, request, complete, waited>>

FirstByte(data) ==
    /\ current_state = "IDLE" /\ data = COMMAND_MAKE_CREDENTIAL
    /\ current_state' = "RECEIVING"
    /\ request' = <<data>>
    /\ complete' = FALSE
    /\ Goto("consent")
    /\ UNCHANGED waited

(* The last byte starts the wait for consent.  bytes_received is 0 again   *)
(* then, so the test for BAD_PARAMETER that follows is never true.         *)
NextByte(data) ==
    /\ current_state = "RECEIVING"
    /\ request' = Append(request, data)
    /\ IF Len(request) + 1 = RequestSize
       THEN /\ complete' = TRUE
            /\ current_state' = "WAIT_CONSENT"
            /\ waited' = 0
            /\ Goto("startLow")
       ELSE /\ Goto("consent")
            /\ UNCHANGED <<complete, current_state, waited>>

TakeByte ==
    /\ ring # <<>> /\ Head(ring) # EMPTY_VALUE
    /\ ring' = Tail(ring)
    /\ DropByte(Head(ring)) \/ FirstByte(Head(ring)) \/ NextByte(Head(ring))

Getc ==
    /\ pc = "getc"
    /\ NoByte \/ TakeByte
    /\ UNCHANGED <<start, low, ticks, led, storeVars, clientVars, replies, paced, cuts>>

(* A load of the counter: its low digit. *)
LoadLow ==
    /\ pc \in {"startLow", "nowLow"}
    /\ low' = ticks % Base
    /\ Goto(IF pc = "startLow" THEN "startHigh" ELSE "nowHigh")
    /\ UNCHANGED <<current_state, request, complete, start, ticks, led, ring, storeVars,
                   clientVars, replies, waited, paced, cuts>>

(* consent_timer_start_500ms_ticks = timer_500ms_ticks *)
StartTimer ==
    /\ pc = "startHigh"
    /\ start' = Loaded
    /\ Goto("consent")
    /\ UNCHANGED <<current_state, request, complete, low, ticks, led, ring, storeVars,
                   clientVars, replies, waited, paced, cuts>>

TestConsent ==
    /\ pc = "consent"
    /\ Goto(IF current_state = "WAIT_CONSENT" THEN "nowLow" ELSE "sleep")
    /\ UNCHANGED <<current_state, request, complete, start, low, ticks, led, ring,
                   storeVars, clientVars, replies, waited, paced, cuts>>

(* The timeout, which turns the LED off, or else the button. *)
TestTimeout ==
    /\ pc = "nowHigh"
    /\ IF Elapsed >= Timeout THEN Goto("expire") /\ led' = FALSE
                             ELSE Goto("button") /\ UNCHANGED led
    /\ UNCHANGED <<current_state, request, complete, start, low, ticks, ring, storeVars,
                   clientVars, replies, waited, paced, cuts>>

Expire ==
    /\ pc = "expire"
    /\ Finish(APPROVAL)
    /\ UNCHANGED <<request, complete, ticks, start, low, led, ring, storeVars, clientVars,
                   waited, paced, cuts>>

(* The button is pressed: LED off, then the next state. *)
TestButton ==
    /\ pc = "button"
    /\ \/ Presses /\ Goto("approve") /\ led' = FALSE
       \/ Goto("sleep") /\ UNCHANGED led
    /\ UNCHANGED <<current_state, request, complete, start, low, ticks, ring, storeVars,
                   clientVars, replies, waited, paced, cuts>>

Approve ==
    /\ pc = "approve"
    /\ current_state' = "PROCESS_CRYPTO"
    /\ Goto("crypto")
    /\ UNCHANGED <<request, complete, start, low, ticks, led, ring, storeVars, clientVars,
                   replies, waited, paced, cuts>>

(* uECC_make_key and the credential_id: done, or CRYPTO_FAILED. *)
MakeKey ==
    /\ pc = "crypto"
    /\ \/ Goto("store") /\ UNCHANGED <<current_state, replies>>
       \/ Finish(CRYPTO_FAILED)
    /\ UNCHANGED <<request, complete, start, low, ticks, led, ring, storeVars, clientVars,
                   waited, paced, cuts>>

(* The search of write_credential: the slot of the same app, which ends    *)
(* it, or the first free one.                                              *)
Candidates == IF Matching # {} THEN Matching ELSE Free

FindSlot ==
    /\ pc = "store"
    /\ IF Candidates = {}
       THEN Finish(STORAGE_FULL) /\ UNCHANGED <<slot, unwritten>>
       ELSE /\ slot' = First(Candidates)
            /\ unwritten' = Part
            /\ Goto("write")
            /\ UNCHANGED <<current_state, replies>>
    /\ UNCHANGED <<request, complete, start, low, ticks, led, ring, eeprom, clientVars,
                   waited, paced, cuts>>

(* eeprom_write_block, byte by byte, in an order of the library's choice.  *)
(* The id stands for the credential_id and the private key.                *)
WritePart ==
    /\ pc = "write"
    /\ \E p \in unwritten :
           /\ p = "app" => "half" \notin unwritten
           /\ unwritten' = unwritten \ {p}
           /\ eeprom' = [eeprom EXCEPT ![slot] =
                  CASE p = "is_used" -> [@ EXCEPT !.is_used = TRUE]
                    [] p = "half"    -> [@ EXCEPT !.app = Torn]
                    [] p = "app"     -> [@ EXCEPT !.app = RequestedApp]
                    [] p = "id"      -> [@ EXCEPT !.id = sent]]
    /\ UNCHANGED <<loopVars, ticks, led, ring, slot, clientVars, replies, waited, paced, cuts>>

(* send_make_credential_response *)
Answer ==
    /\ pc = "write" /\ unwritten = {}
    /\ Finish(OK)
    /\ UNCHANGED <<request, complete, ticks, start, low, led, ring, storeVars, clientVars,
                   waited, paced, cuts>>

(* sleep_mode(): the turn is over; an interrupt that came before is past.  *)
Sleep ==
    /\ pc = "sleep"
    /\ Goto("asleep")
    /\ paced' = FALSE
    /\ UNCHANGED <<current_state, request, complete, start, low, ticks, led, ring, storeVars,
                   clientVars, replies, waited, cuts>>

Loop ==
    \/ Getc \/ LoadLow \/ StartTimer \/ TestConsent \/ TestTimeout \/ Expire
    \/ TestButton \/ Approve \/ MakeKey \/ FindSlot \/ WritePart \/ Answer \/ Sleep
-----------------------------------------------------------------------------
(* Every interrupt wakes the loop. *)
Woken == IF pc = "asleep" THEN "getc" ELSE pc

(* ISR(TIMER1_COMPA_vect).  A turn of the loop takes microseconds, so it   *)
(* meets one tick at most, unless it makes a key or writes the EEPROM.     *)
Tick ==
    /\ ~paced \/ pc \in {"crypto", "store", "write"}
    /\ paced' = TRUE
    /\ ticks' = (ticks + 1) % Wrap
    /\ led' = IF current_state = "WAIT_CONSENT" THEN ~led ELSE led
    /\ waited' = IF current_state = "WAIT_CONSENT" /\ waited < Wrap - 1
                 THEN waited + 1 ELSE waited
    /\ Goto(Woken)
    /\ UNCHANGED <<current_state, request, complete, start, low, ring, storeVars,
                   clientVars, replies, cuts>>

(* ISR(USART_RX_vect): the buffer overwrites its oldest byte when full. *)
Receive ==
    /\ line # <<>>
    /\ line' = Tail(line)
    /\ ring' = Append(IF Len(ring) = BufferSize THEN Tail(ring) ELSE ring, Head(line))
    /\ Goto(Woken)
    /\ UNCHANGED <<current_state, request, complete, start, low, ticks, led, storeVars,
                   sent, replies, waited, paced, cuts>>

(* The client sends a request when it has the answer to the one before. *)
BeginRequest ==
    /\ line = <<>> /\ sent < Len(Requests) /\ Len(replies) = sent
    /\ sent' = sent + 1
    /\ line' = Frame(sent + 1)
    /\ UNCHANGED <<loopVars, ticks, led, ring, storeVars, replies, waited, paced, cuts>>

(* The power fails and returns: only the EEPROM is kept. *)
PowerCut ==
    /\ cuts < MaxCuts
    /\ cuts' = cuts + 1
    /\ pc' = "getc" /\ current_state' = "IDLE"
    /\ request' = <<>> /\ complete' = FALSE
    /\ ticks' = 0 /\ start' = 0 /\ low' = 0 /\ led' = FALSE
    /\ ring' = <<>> /\ line' = <<>>
    /\ unwritten' = {} /\ slot' = 1 /\ waited' = 0 /\ paced' = FALSE
    /\ replies' = IF Len(replies) < sent THEN Append(replies, NO_ANSWER) ELSE replies
    /\ UNCHANGED <<eeprom, sent>>

Next == Loop \/ Tick \/ Receive \/ BeginRequest \/ PowerCut

Spec == Init /\ [][Next]_vars

(* The loop runs, the timer ticks, the client sends what it has begun. *)
FairSpec ==
    Spec /\ WF_vars(Loop) /\ WF_vars(Tick) /\ WF_vars(Receive) /\ WF_vars(BeginRequest)
-----------------------------------------------------------------------------
(* With a client that waits for its answers, the message the user consents *)
(* to is the one that was sent, byte for byte, although bytes wait in the  *)
(* ring buffer and the loop sleeps between two of them.                    *)
ServedRequestWasSent == current_state = "WAIT_CONSENT" => request = Frame(sent)

(* Each request has one answer, and none before the user decided. *)
AnsweredOnce ==
    /\ Len(replies) <= sent
    /\ current_state \in {"RECEIVING", "WAIT_CONSENT", "PROCESS_CRYPTO"} => Len(replies) < sent

(* Two requests in a row are two answers in the order of the requests,     *)
(* each for the bytes the client sent: no byte is shifted from one to the  *)
(* next, none starts an exchange of its own.                               *)
RequestsAreServedOnce == ServedRequestWasSent /\ AnsweredOnce

(* The wait for consent ends with the timeout, across the overflow of the  *)
(* counter and whatever a load of it is mixed from.                        *)
WaitIsBounded == current_state = "WAIT_CONSENT" => waited <= Timeout + 1

(* Every request is answered: a byte that came just before the loop went   *)
(* to sleep is taken after the next tick, not lost.                        *)
EveryRequestIsAnswered ==
    \A k \in DOMAIN Requests : sent = k ~> Len(replies) >= k

(* No power cut gives an app two entries: the search looks past the free   *)
(* slots for the one to replace.                                           *)
StoredAppsDistinct ==
    \A s, t \in Slot : (s # t /\ eeprom[s].is_used /\ eeprom[t].is_used
                          /\ eeprom[s].app \in App) => eeprom[s].app # eeprom[t].app

(* A credential whose registration was answered OK is in the EEPROM until  *)
(* the same app is registered again, whatever is refused or cut after it.  *)
OkMeansStored ==
    \A k \in DOMAIN replies : replies[k] = OK =>
        \/ \E s \in Slot : eeprom[s] = [is_used |-> TRUE, app |-> Requests[k], id |-> k]
        \/ \E j \in (k + 1)..sent : Requests[j] = Requests[k]

(* The table is right whatever power cuts leave of a write: one entry per  *)
(* app, and the credentials the client was told to be stored.              *)
StoreIsRight == StoredAppsDistinct /\ OkMeansStored

(* "au bout de 10 secondes" (README.md): a request is refused for want of  *)
(* consent only when the user had had the time to give it.                 *)
RefusedAfterTimeout ==
    [][(Len(replies') > Len(replies) /\ replies'[Len(replies')] = APPROVAL) => waited >= Timeout - 1]_vars

(* "L'appui sur le boutton doit etre arreter le clignotement" (README.md), *)
(* "Arrêter le clignotement", "Éteindre la LED": outside of the wait for   *)
(* consent the LED is off.                                                 *)
LedOffOutsideWait == current_state # "WAIT_CONSENT" => ~led

(* "si la mémoire non volatile est saturée" (README.md): STORAGE_FULL      *)
(* means that every slot holds an entry that was stored.                   *)
FullMeansFull ==
    (\E k \in DOMAIN replies : replies[k] = STORAGE_FULL) =>
        \A s \in Slot : eeprom[s].app # NoApp
=============================================================================
