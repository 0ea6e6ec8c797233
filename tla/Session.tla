------------------------------ MODULE Session -------------------------------
(***************************************************************************)
(* The nickname of the client (interface.go): the HTTP handlers /login,    *)
(* /logout and "/" and the goroutines that sign Hellos, all on the global  *)
(* nickName.  It is written, and read by "/", under mapLock; every other   *)
(* read takes no lock.                                                     *)
(*                                                                         *)
(* A Go string is a pointer and a length, written and read one after the   *)
(* other: a read without the lock may pair the pointer of one name with    *)
(* the length of another.  With the nil pointer of "" such a pair makes    *)
(* the reader panic, which net/http recovers in a handler and which ends   *)
(* the process in any other goroutine.                                     *)
(***************************************************************************)
EXTENDS Naturals, Sequences

CONSTANTS
    Login, Logout,      \* POST /login and GET /logout requests
    Page,               \* GET / requests
    Click,              \* goroutines of POST /download
    Responder,          \* goroutines of HandleRequest, case 1
    NameOf,             \* Login -> the nickname of the form
    NoOne

Request == Login \cup Logout \cup Page \cup Click \cup Responder
Empty == ""
Name == {NameOf[q] : q \in Login} \cup {Empty}
String == [ptr : Name, len : Name]
Whole(s) == s.ptr = s.len
Unread == [ptr |-> Empty, len |-> Empty]
Unreadable(s) == s.ptr = Empty /\ s.len # Empty

ASSUME SessionAssumption ==
    /\ NameOf \in [Login -> STRING] /\ \A q \in Login : NameOf[q] # Empty
    /\ NoOne \notin Request

VARIABLES
    nickName,       \* its two words
    mapLock,        \* the request that holds it for writing, or NoOne
    pc,             \* Request -> where it is
    turn,           \* Request -> the read without the lock it is at
    read,           \* Request -> the words of its read in progress
    put,            \* names given to RegisterKey
    announced,      \* names in the Hellos sent to the server
    shown,          \* what "/" displayed last
    crashed         \* the process has ended by a panic

sessionVars == <<nickName, mapLock, pc, turn, read, put, announced, shown, crashed>>
outside == <<put, announced, shown, crashed>>

(* The places where nickName is read without the lock, as the calls it is  *)
(* read for, in the order of the code.                                     *)
Reads(q) ==
    IF q \in Login THEN <<"RegisterKey", "ServerHello">>
    ELSE IF q \in Click THEN <<"Hello", "ForwardedHello">>
    ELSE <<"HelloReply">>

Location == {"idle", "lock", "second", "unlock", "pointer", "length", "use", "ended"}

SessionTypeOK ==
    /\ nickName \in String
    /\ mapLock \in {NoOne} \cup Login \cup Logout
    /\ pc \in [Request -> Location]
    /\ turn \in [Request -> {1, 2}]
    /\ read \in [Request -> String]
    /\ put \subseteq String /\ announced \subseteq String
    /\ shown \in String
    /\ crashed \in BOOLEAN

SessionInit ==
    /\ nickName = Unread
    /\ mapLock = NoOne
    /\ pc = [q \in Request |-> "idle"]
    /\ turn = [q \in Request |-> 1]
    /\ read = [q \in Request |-> Unread]
    /\ put = {} /\ announced = {}
    /\ shown = nickName
    /\ crashed = FALSE

Goto(q, l) == pc' = [pc EXCEPT ![q] = l]
NewName(q) == IF q \in Login THEN NameOf[q] ELSE Empty

(* Faulty variants: writers that do not heed the lock, a login that clears *)
(* the old name first, a key registered once per process, one read too     *)
(* many.                                                                   *)
LockUnheeded(q) ==
    /\ pc[q] = "lock"
    /\ mapLock' = q
    /\ nickName' \in {[nickName EXCEPT !.ptr = NewName(q)], [nickName EXCEPT !.len = NewName(q)]}
    /\ Goto(q, "second")
    /\ UNCHANGED <<turn, read, outside>>
LockClearing(q) ==
    /\ pc[q] = "lock" /\ mapLock = NoOne
    /\ mapLock' = q
    /\ nickName' = Unread
    /\ Goto(q, "second")
    /\ UNCHANGED <<turn, read, outside>>
UseOnceMore(q) ==
    /\ pc[q] = "use" /\ ~Unreadable(read[q])
    /\ IF turn[q] > Len(Reads(q))
       THEN Goto(q, "ended") /\ UNCHANGED turn
       ELSE Goto(q, "pointer") /\ turn' = [turn EXCEPT ![q] = @ + 1]
    /\ read' = [read EXCEPT ![q] = Unread]
    /\ UNCHANGED <<nickName, mapLock, outside>>
UnlockOnce(q) ==
    /\ pc[q] = "unlock"
    /\ mapLock' = NoOne
    /\ Goto(q, IF q \in Login /\ put = {} THEN "pointer" ELSE "ended")
    /\ UNCHANGED <<nickName, turn, read, outside>>
-----------------------------------------------------------------------------
(* A request begins, or a goroutine: /download does not look at the name,  *)
(* and any peer may say Hello at any time, a first login or not.           *)
Start(q) ==
    /\ pc[q] = "idle" /\ q \notin Page
    /\ Goto(q, IF q \in Login \cup Logout THEN "lock" ELSE "pointer")
    /\ UNCHANGED <<nickName, mapLock, turn, read, outside>>

(* mapLock.Lock(); nickName = name: the first of its words. *)
Lock(q) ==
    /\ pc[q] = "lock" /\ mapLock = NoOne
    /\ mapLock' = q
    /\ nickName' \in {[nickName EXCEPT !.ptr = NewName(q)],
                      [nickName EXCEPT !.len = NewName(q)]}
    /\ Goto(q, "second")
    /\ UNCHANGED <<turn, read, outside>>

(* The second word. *)
WriteSecond(q) ==
    /\ pc[q] = "second"
    /\ nickName' = [ptr |-> NewName(q), len |-> NewName(q)]
    /\ Goto(q, "unlock")
    /\ UNCHANGED <<mapLock, turn, read, outside>>

(* mapLock.Unlock(): /logout is over, /login goes on to setupP2P. *)
Unlock(q) ==
    /\ pc[q] = "unlock"
    /\ mapLock' = NoOne
    /\ Goto(q, IF q \in Login THEN "pointer" ELSE "ended")
    /\ UNCHANGED <<nickName, turn, read, outside>>

(* "/": RLock, read, RUnlock; the login page or the dashboard. *)
Show(q) ==
    /\ pc[q] = "idle" /\ mapLock = NoOne
    /\ shown' = nickName
    /\ Goto(q, "ended")
    /\ UNCHANGED <<nickName, mapLock, turn, read, put, announced, crashed>>

(* An argument nickName: its pointer, then its length. *)
LoadPointer(q) ==
    /\ pc[q] = "pointer"
    /\ read' = [read EXCEPT ![q].ptr = nickName.ptr]
    /\ Goto(q, "length")
    /\ UNCHANGED <<nickName, mapLock, turn, outside>>

LoadLength(q) ==
    /\ pc[q] = "length"
    /\ read' = [read EXCEPT ![q].len = nickName.len]
    /\ Goto(q, "use")
    /\ UNCHANGED <<nickName, mapLock, turn, outside>>

(* The call the name was read for: RegisterKey, whose error is only        *)
(* logged, or a Hello, a forwarded Hello or a HelloReply.                  *)
Use(q) ==
    /\ pc[q] = "use" /\ ~Unreadable(read[q])
    /\ LET call == Reads(q)[turn[q]]
           names(c, used) == used \cup (IF call = c THEN {read[q]} ELSE {})
       IN  put' = names("RegisterKey", put) /\ announced' = names("ServerHello", announced)
    /\ IF turn[q] = Len(Reads(q))
       THEN Goto(q, "ended") /\ UNCHANGED turn
       ELSE Goto(q, "pointer") /\ turn' = [turn EXCEPT ![q] = @ + 1]
    /\ read' = [read EXCEPT ![q] = Unread]
    /\ UNCHANGED <<nickName, mapLock, shown, crashed>>

(* A nil pointer with a length: the request or the process is over. *)
Panic(q) ==
    /\ pc[q] = "use" /\ Unreadable(read[q])
    /\ crashed' = (q \notin Login)
    /\ Goto(q, "ended")
    /\ read' = [read EXCEPT ![q] = Unread]
    /\ UNCHANGED <<nickName, mapLock, turn, put, announced, shown>>
-----------------------------------------------------------------------------
Serve(q) ==
    \/ Start(q) \/ Lock(q) \/ WriteSecond(q) \/ Unlock(q)
    \/ (q \in Page /\ Show(q))
    \/ LoadPointer(q) \/ LoadLength(q) \/ Use(q) \/ Panic(q)

SessionStep == ~crashed /\ \E q \in Request : Serve(q)

(* Nothing to do, or no process to do it. *)
Rest ==
    /\ crashed \/ \A q \in Request : pc[q] \in {"idle", "ended"}
    /\ UNCHANGED sessionVars

SessionNext == SessionStep \/ Rest

SessionSpec == SessionInit /\ [][SessionNext]_sessionVars
-----------------------------------------------------------------------------
(* The writers of nickName exclude each other: out of the lock it is a     *)
(* name, and the page under the read lock never shows a mixture of two.    *)
NamesAreWhole ==
    /\ \A q \in Request : pc[q] \in {"second", "unlock"} => mapLock = q
    /\ mapLock = NoOne => Whole(nickName)
    /\ Whole(shown)

(* However logins and logouts overlap, once they are over the name that    *)
(* stays was given to RegisterKey and announced to the server, although    *)
(* neither call used the lock or the name of its own form.                 *)
CurrentNameIsAnnounced ==
    (~crashed /\ nickName.len # Empty /\
        \A q \in Login \cup Logout : pc[q] \in {"idle", "ended"})
        => nickName \in put /\ nickName \in announced

(* The goroutines that sign Hellos have a name to read: nickName has its   *)
(* pointer, and none of them is between its two loads with the nil one.    *)
Readers == Click \cup Responder
HaveAName ==
    /\ nickName.ptr # Empty
    /\ \A q \in Readers : pc[q] \in {"length", "use"} => read[q].ptr # Empty

(* A download or a Hello that comes during the first login may meet the    *)
(* nil pointer and end the process.  From any moment at which they have a  *)
(* name on, whatever logins replace it, and however often, only a logout   *)
(* can bring that end.                                                     *)
NamedReadersSurvive ==
    [](HaveAName /\ ~crashed => [](crashed => \E q \in Logout : pc[q] # "idle"))
=============================================================================
