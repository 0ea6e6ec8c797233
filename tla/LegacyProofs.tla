---------------------------- MODULE LegacyProofs ----------------------------
(***************************************************************************)
(* The recursive download of client.go, for every tree, number of tokens   *)
(* and choice of identifiers: what fills downloadLimit, what a timeout     *)
(* leaves behind, and that it implements Transfer.                         *)
(***************************************************************************)
EXTENDS LegacyDownload, FiniteSetTheorems, TLAPS

(* The calls that hold a token, and the calls in progress. *)
OpenCalls == {n \in Node : pc[n] \in Open}
Active(n) == pc[n] \notin {"idle", "returned"}

(* A call in progress that waits for no other: there is one at most.  A    *)
(* call in "children" whose child has returned is one until it goes on.    *)
Tip(n) == Active(n) /\ (pc[n] = "children" => \A m \in KidsOf(n) : ~Active(m))
OneTip == \A n, m \in Node : Tip(n) /\ Tip(m) => n = m

(* A child is called after its parent entered the loop, while it is in the *)
(* loop, and after the children before it returned.                        *)
KidsInTurn ==
    \A n \in Node : \A k \in DOMAIN Kids[n] :
        LET m == Kids[n][k]
        IN  /\ pc[n] \notin {"children", "return", "returned"} => pc[m] = "idle"
            /\ pc[n] \in {"return", "returned"} => ~Active(m)
            /\ Active(m) => \A j \in 1..(k - 1) : pc[Kids[n][j]] = "returned"
RootsAndKids ==
    \A n \in Node : Active(n) =>
        n \in Roots \/ \E m \in Node : n \in KidsOf(m) /\ pc[m] = "children"

(* The identifier of a call is drawn when it registers, and kept.          *)
Drawn == \A n \in Node : reqId[n] = NoId <=> pc[n] \in {"idle", "acquire", "register"}

LineInv ==
    /\ TypeOK /\ Drawn
    /\ slots = Cardinality(OpenCalls) /\ OneTip /\ KidsInTurn /\ RootsAndKids

LEMMA Setting ==
  /\ IsFiniteSet(Node) /\ Limit \in Nat \ {0}
  /\ Chan = Node /\ IdChoices \in [Node -> SUBSET Id]
  /\ NoId \notin Id /\ NoReply \notin Reply /\ NoChan \notin Node
  /\ Hash \in [Node -> Data] /\ Buffered = {}
  BY LegacyAssumption, DispatcherAssumption

LEMMA KidsAreNodes ==
  ASSUME NEW n \in Node
  PROVE  /\ \A k \in DOMAIN Kids[n] : Kids[n][k] \in KidsOf(n) /\ Kids[n][k] \in Node
         /\ \A m \in KidsOf(n) : m \in Node /\ \E k \in DOMAIN Kids[n] : Kids[n][k] = m
         /\ \A k \in DOMAIN Kids[n] : \A j \in 1..(k - 1) : j \in DOMAIN Kids[n] /\ j # k
<1>1. Kids[n] \in Seq(Node)
  BY LegacyAssumption
<1> QED BY <1>1 DEF KidsOf

LEMMA OneParent ==
  ASSUME NEW n \in Node, NEW m \in Node, NEW x \in KidsOf(n), x \in KidsOf(m)
  PROVE  n = m
  BY KidsAreNodes, TreeAssumption

LEMMA OpenFinite == IsFiniteSet(OpenCalls)
  BY Setting, FS_Subset DEF OpenCalls

(* Cardinalities: one call more, one less, or the same. *)
LEMMA TokenTaken ==
  ASSUME LineInv, NEW n \in Node, Acquire(n)
  PROVE  slots' = Cardinality(OpenCalls') /\ slots' \in 0..Limit
<1>1. OpenCalls' = OpenCalls \cup {n} /\ n \notin OpenCalls
  BY DEF LineInv, TypeOK, Acquire, Goto, OpenCalls, Open
<1>2. Cardinality(OpenCalls') = Cardinality(OpenCalls) + 1
  BY <1>1, OpenFinite, FS_AddElement
<1> QED BY <1>2, Setting DEF LineInv, TypeOK, Acquire

LEMMA TokenReturned ==
  ASSUME LineInv, NEW n \in Node, Return(n)
  PROVE  slots' = Cardinality(OpenCalls') /\ slots' \in 0..Limit
<1>1. OpenCalls' = OpenCalls \ {n} /\ n \in OpenCalls
  BY DEF LineInv, TypeOK, Return, Goto, OpenCalls, Open
<1>2. Cardinality(OpenCalls') = Cardinality(OpenCalls) - 1 /\ IsFiniteSet(OpenCalls')
  BY <1>1, OpenFinite, FS_RemoveElement
<1>3. Cardinality(OpenCalls') \in Nat
  BY <1>2, FS_CardinalityType
<1> QED BY <1>2, <1>3, Setting DEF LineInv, TypeOK, Return

LEMMA TokenKept ==
  ASSUME slots = Cardinality(OpenCalls), slots' = slots,
         \A m \in Node : pc'[m] \in Open <=> pc[m] \in Open
  PROVE  slots' = Cardinality(OpenCalls')
<1>1. OpenCalls' = OpenCalls
  BY DEF OpenCalls
<1> QED BY <1>1

(* A call that goes on without a child: to itself, to the tree and to the  *)
(* line of callers nothing has changed.                                    *)
LEMMA LineKept ==
  ASSUME LineInv, NEW n \in Node, NEW l, Goto(n, l),
         pc[n] \notin {"idle", "children", "return", "returned"},
         l \notin {"idle", "children", "return", "returned"}
  PROVE  OneTip' /\ KidsInTurn' /\ RootsAndKids'
<1>1. pc'[n] = l /\ \A m \in Node : m # n => pc'[m] = pc[m]
  BY DEF LineInv, TypeOK, Goto
<1>2. \A m \in Node : /\ Active(m)' <=> Active(m)
                      /\ \A s \in {"idle", "children", "return", "returned"} : pc'[m] = s <=> pc[m] = s
  BY <1>1 DEF Active
<1>3. \A m \in Node : Tip(m)' <=> Tip(m)
  BY <1>2, KidsAreNodes DEF Tip
<1>4. OneTip'
  BY <1>3 DEF LineInv, OneTip
<1>5. KidsInTurn'
  BY <1>2, KidsAreNodes DEF LineInv, KidsInTurn
<1>6. RootsAndKids'
  BY <1>2 DEF LineInv, RootsAndKids
<1> QED BY <1>4, <1>5, <1>6

(* A call whose children have all returned, or were never called, returns: *)
(* it was the tip of the line and stays it.                                *)
LEMMA LineReturns ==
  ASSUME LineInv, NEW n \in Node, Goto(n, "return"),
         pc[n] \notin {"idle", "return", "returned"},
         \A m \in KidsOf(n) : ~Active(m)
  PROVE  OneTip' /\ KidsInTurn' /\ RootsAndKids'
<1>1. pc'[n] = "return" /\ \A m \in Node : m # n => pc'[m] = pc[m]
  BY DEF LineInv, TypeOK, Goto
<1>2. /\ \A m \in Node : Active(m)' <=> Active(m)
      /\ \A m \in Node : \A s \in {"idle", "returned"} : pc'[m] = s <=> pc[m] = s
  BY <1>1 DEF Active
<1>3. n \notin KidsOf(n)
  BY DEF Active
<1>4. \A m \in Node : Tip(m)' => Tip(m)
  BY <1>1, <1>2, KidsAreNodes DEF Tip
<1>5. OneTip'
  BY <1>4 DEF LineInv, OneTip
<1>6. KidsInTurn'
  <2> SUFFICES ASSUME NEW x \in Node, NEW k \in DOMAIN Kids[x]
               PROVE  /\ pc'[x] \notin {"children", "return", "returned"} => pc'[Kids[x][k]] = "idle"
                      /\ pc'[x] \in {"return", "returned"} => ~Active(Kids[x][k])'
                      /\ Active(Kids[x][k])' =>
                             \A j \in 1..(k - 1) : pc'[Kids[x][j]] = "returned"
    BY DEF KidsInTurn
  <2>1. Kids[x][k] \in Node /\ \A j \in 1..(k - 1) : j \in DOMAIN Kids[x] /\ Kids[x][j] \in Node
    BY KidsAreNodes
  <2>2. CASE x = n
    BY <1>1, <1>2, <2>1, <2>2, KidsAreNodes DEF LineInv, KidsInTurn
  <2>3. CASE x # n
    BY <1>1, <1>2, <2>1, <2>3 DEF LineInv, KidsInTurn
  <2> QED BY <2>2, <2>3
<1>7. RootsAndKids'
  <2> SUFFICES ASSUME NEW x \in Node, Active(x)', x \notin Roots
               PROVE  \E m \in Node : x \in KidsOf(m) /\ pc'[m] = "children"
    BY DEF RootsAndKids
  <2>1. PICK m \in Node : x \in KidsOf(m) /\ pc[m] = "children"
    BY <1>2 DEF LineInv, RootsAndKids
  <2>2. m # n
    BY <1>2, <2>1
  <2> QED BY <1>1, <2>1, <2>2
<1> QED BY <1>5, <1>6, <1>7

(* A call enters its loop: none of its children has been called.           *)
LEMMA LineLoops ==
  ASSUME LineInv, NEW n \in Node, Goto(n, "children"), pc[n] = "check"
  PROVE  OneTip' /\ KidsInTurn' /\ RootsAndKids'
<1>1. pc'[n] = "children" /\ \A m \in Node : m # n => pc'[m] = pc[m]
  BY DEF LineInv, TypeOK, Goto
<1>2. /\ \A m \in Node : Active(m)' <=> Active(m)
      /\ \A m \in Node : \A s \in {"idle", "return", "returned"} : pc'[m] = s <=> pc[m] = s
  BY <1>1 DEF Active
<1>3. \A m \in Node : Tip(m)' => Tip(m)
  BY <1>1, <1>2, KidsAreNodes DEF Tip
<1>4. OneTip'
  BY <1>3 DEF LineInv, OneTip
<1>5. KidsInTurn'
  <2> SUFFICES ASSUME NEW x \in Node, NEW k \in DOMAIN Kids[x]
               PROVE  /\ pc'[x] \notin {"children", "return", "returned"} => pc'[Kids[x][k]] = "idle"
                      /\ pc'[x] \in {"return", "returned"} => ~Active(Kids[x][k])'
                      /\ Active(Kids[x][k])' =>
                             \A j \in 1..(k - 1) : pc'[Kids[x][j]] = "returned"
    BY DEF KidsInTurn
  <2>1. Kids[x][k] \in Node /\ \A j \in 1..(k - 1) : j \in DOMAIN Kids[x] /\ Kids[x][j] \in Node
    BY KidsAreNodes
  <2>2. pc'[x] \notin {"children", "return", "returned"}
          => pc[x] \notin {"children", "return", "returned"}
    BY <1>1
  <2> QED BY <1>2, <2>1, <2>2 DEF LineInv, KidsInTurn
<1>6. RootsAndKids'
  BY <1>1, <1>2 DEF LineInv, RootsAndKids
<1> QED BY <1>4, <1>5, <1>6

(* A call about to call its next child is the tip. *)
LEMMA CallerIsTip ==
  ASSUME LineInv, NEW n \in Node, NEW k \in DOMAIN Kids[n], pc[n] = "children",
         \A j \in 1..(k - 1) : pc[Kids[n][j]] = "returned",
         pc[Kids[n][k]] = "idle"
  PROVE  Tip(n)
<1>1. \A m \in KidsOf(n) : ~Active(m)
  <2> SUFFICES ASSUME NEW m \in KidsOf(n), Active(m) PROVE FALSE
    OBVIOUS
  <2>1. PICK i \in DOMAIN Kids[n] : Kids[n][i] = m
    BY KidsAreNodes
  <2>2. \A j \in 1..(i - 1) : pc[Kids[n][j]] = "returned"
    BY <2>1 DEF LineInv, KidsInTurn
  <2>3. DOMAIN Kids[n] = 1..Len(Kids[n]) /\ Len(Kids[n]) \in Nat
    BY LegacyAssumption
  <2>4. CASE i < k
    BY <2>1, <2>3, <2>4 DEF Active
  <2>5. CASE i = k
    BY <2>1, <2>5 DEF Active
  <2>6. CASE i > k
    BY <2>2, <2>3, <2>6
  <2> QED BY <2>3, <2>4, <2>5, <2>6
<1> QED BY <1>1 DEF Tip, Active

(* A child is called by the tip, and becomes the tip.                      *)
LEMMA LineGrows ==
  ASSUME LineInv, NEW n \in Node, CallKid(n)
  PROVE  OneTip' /\ KidsInTurn' /\ RootsAndKids' /\ \A m \in Node : pc'[m] \in Open <=> pc[m] \in Open
<1>1. PICK k \in DOMAIN Kids[n] :
          /\ pc[n] = "children"
          /\ \A j \in 1..(k - 1) : pc[Kids[n][j]] = "returned"
          /\ pc[Kids[n][k]] = "idle"
          /\ Goto(Kids[n][k], "acquire")
  BY DEF CallKid
<1> DEFINE y == Kids[n][k]
<1>2. y \in Node /\ y \in KidsOf(n) /\ y # n
  BY <1>1, KidsAreNodes
<1>3. pc'[y] = "acquire" /\ \A m \in Node : m # y => pc'[m] = pc[m]
  BY <1>1, <1>2 DEF LineInv, TypeOK, Goto
<1>4. /\ \A m \in Node : m # y => (Active(m)' <=> Active(m))
      /\ Active(y)' /\ ~Active(y)
  BY <1>1, <1>3 DEF Active
<1>5. Tip(n)
  BY <1>1, CallerIsTip
<1> HIDE DEF y
<1>6. \A x \in Node : Tip(x)' => x = y
  <2> SUFFICES ASSUME NEW x \in Node, Tip(x)', x # y PROVE FALSE
    OBVIOUS
  <2>1. x # n
    BY <1>1, <1>2, <1>3, <1>4 DEF Tip
  <2>2. Tip(x)
    BY <1>3, <1>4, KidsAreNodes DEF Tip
  <2> QED BY <1>5, <2>1, <2>2 DEF LineInv, OneTip
<1>7. OneTip'
  BY <1>6 DEF OneTip
<1>8. KidsInTurn'
  <2> SUFFICES ASSUME NEW x \in Node, NEW i \in DOMAIN Kids[x]
               PROVE  /\ pc'[x] \notin {"children", "return", "returned"} => pc'[Kids[x][i]] = "idle"
                      /\ pc'[x] \in {"return", "returned"} => ~Active(Kids[x][i])'
                      /\ Active(Kids[x][i])' =>
                             \A j \in 1..(i - 1) : pc'[Kids[x][j]] = "returned"
    BY DEF KidsInTurn
  <2>1. /\ Kids[x][i] \in Node /\ Kids[x][i] \in KidsOf(x)
        /\ \A j \in 1..(i - 1) : j \in DOMAIN Kids[x] /\ j # i /\ Kids[x][j] \in Node
    BY KidsAreNodes
  <2>2. CASE Kids[x][i] = y
    <3>1. x = n /\ i = k
      BY <1>1, <2>2, TreeAssumption DEF y
    <3>2. \A j \in 1..(i - 1) : pc[Kids[x][j]] = "returned"
      BY <1>1, <3>1
    <3>3. \A j \in 1..(i - 1) : Kids[x][j] # y
      BY <1>1, <3>2 DEF y
    <3> QED BY <1>1, <1>2, <1>3, <2>1, <3>1, <3>2, <3>3
  <2>3. CASE Kids[x][i] # y
    <3>1. pc'[Kids[x][i]] = pc[Kids[x][i]] /\ (Active(Kids[x][i])' <=> Active(Kids[x][i]))
      BY <1>3, <1>4, <2>1, <2>3
    <3>2. pc'[x] \notin {"children", "return", "returned"} => pc[x] \notin {"children", "return", "returned"}
      BY <1>1, <1>3 DEF y
    <3>3. pc'[x] \in {"return", "returned"} => pc[x] \in {"return", "returned"}
      BY <1>3
    <3>4. \A j \in 1..(i - 1) : pc[Kids[x][j]] = "returned" => pc'[Kids[x][j]] = "returned"
      BY <1>1, <1>3, <2>1 DEF y
    <3> QED BY <3>1, <3>2, <3>3, <3>4 DEF LineInv, KidsInTurn
  <2> QED BY <2>2, <2>3
<1>9. RootsAndKids'
  <2> SUFFICES ASSUME NEW x \in Node, Active(x)', x \notin Roots
               PROVE  \E m \in Node : x \in KidsOf(m) /\ pc'[m] = "children"
    BY DEF RootsAndKids
  <2>1. CASE x = y
    BY <1>1, <1>2, <1>3, <2>1
  <2>2. CASE x # y
    <3>1. PICK m \in Node : x \in KidsOf(m) /\ pc[m] = "children"
      BY <1>4, <2>2 DEF LineInv, RootsAndKids
    <3> QED BY <1>1, <1>3, <3>1 DEF y
  <2> QED BY <2>1, <2>2
<1>10. \A m \in Node : pc'[m] \in Open <=> pc[m] \in Open
  BY <1>1, <1>3 DEF Open, y
<1> QED BY <1>7, <1>8, <1>9, <1>10

(* The tip returns: its caller, and nobody else, goes on.                  *)
LEMMA LineShrinks ==
  ASSUME LineInv, NEW n \in Node, Return(n)
  PROVE  OneTip' /\ KidsInTurn' /\ RootsAndKids'
<1>1. /\ pc[n] = "return" /\ pc'[n] = "returned"
      /\ \A m \in Node : m # n => pc'[m] = pc[m]
  BY DEF LineInv, TypeOK, Return, Goto
<1>2. /\ \A m \in Node : m # n => (Active(m)' <=> Active(m))
      /\ Active(n) /\ ~Active(n)'
  BY <1>1 DEF Active
<1>3. Tip(n)
  BY <1>1, <1>2 DEF Tip
<1>4. \A x \in Node : Tip(x)' => n \in KidsOf(x)
  <2> SUFFICES ASSUME NEW x \in Node, Tip(x)', n \notin KidsOf(x) PROVE FALSE
    OBVIOUS
  <2>1. x # n
    BY <1>2 DEF Tip
  <2>2. Tip(x)
    BY <1>1, <1>2, <2>1, KidsAreNodes DEF Tip
  <2> QED BY <1>3, <2>1, <2>2 DEF LineInv, OneTip
<1>5. OneTip'
  BY <1>4, OneParent DEF OneTip
<1>6. KidsInTurn'
  <2> SUFFICES ASSUME NEW x \in Node, NEW i \in DOMAIN Kids[x]
               PROVE  /\ pc'[x] \notin {"children", "return", "returned"} => pc'[Kids[x][i]] = "idle"
                      /\ pc'[x] \in {"return", "returned"} => ~Active(Kids[x][i])'
                      /\ Active(Kids[x][i])' =>
                             \A j \in 1..(i - 1) : pc'[Kids[x][j]] = "returned"
    BY DEF KidsInTurn
  <2>1. Kids[x][i] \in Node /\ \A j \in 1..(i - 1) : j \in DOMAIN Kids[x] /\ Kids[x][j] \in Node
    BY KidsAreNodes
  <2>2. /\ pc'[x] \notin {"children", "return", "returned"} => pc[x] \notin {"children", "return", "returned"}
        /\ pc'[x] \in {"return", "returned"} => pc[x] \in {"return", "returned"}
    BY <1>1
  <2>3. Active(Kids[x][i])' => Active(Kids[x][i])
    BY <1>2, <2>1
  <2>4. pc[Kids[x][i]] = "idle" => pc'[Kids[x][i]] = "idle"
    BY <1>1, <2>1
  <2>5. \A j \in 1..(i - 1) : pc[Kids[x][j]] = "returned" => pc'[Kids[x][j]] = "returned"
    BY <1>1, <2>1
  <2> QED BY <2>2, <2>3, <2>4, <2>5 DEF LineInv, KidsInTurn
<1>7. RootsAndKids'
  <2> SUFFICES ASSUME NEW x \in Node, Active(x)', x \notin Roots
               PROVE  \E m \in Node : x \in KidsOf(m) /\ pc'[m] = "children"
    BY DEF RootsAndKids
  <2>1. PICK m \in Node : x \in KidsOf(m) /\ pc[m] = "children"
    BY <1>2 DEF LineInv, RootsAndKids
  <2> QED BY <1>1, <2>1
<1> QED BY <1>5, <1>6, <1>7

(* The datum a call holds, and the identifiers and replies, have their     *)
(* types; the places are those of the steps above.                         *)
LEMMA CallTypes ==
  ASSUME LineInv, NEW n \in Node, Call(n), slots' \in 0..Limit
  PROVE  TypeOK'
<1>0. TypeOK
  BY DEF LineInv
<1>1. CASE Acquire(n)
  BY <1>0, <1>1 DEF TypeOK, DispatcherTypeOK, dispatcherVars, Acquire, Goto, Location, Open
<1>2. CASE NewRequest(n)
  <2>1. PICK i \in Id : Register(i, n) /\ reqId' = [reqId EXCEPT ![n] = i]
    BY <1>2, Setting DEF NewRequest
  <2>2. responseChannels' \in [Id -> Chan \cup {NoChan}] /\ reqId' \in [Node -> Id \cup {NoId}]
    BY <1>0, <2>1, Setting DEF TypeOK, DispatcherTypeOK, Register
  <2> QED BY <1>0, <1>2, <2>2
      DEF TypeOK, DispatcherTypeOK, NewRequest, Goto, Location, Open
<1>3. CASE SendRequest(n)
  <2>1. reqId[n] \in Id /\ Hash[n] \in Data
    BY <1>0, <1>3, Setting DEF TypeOK, SendRequest, LineInv, Drawn
  <2>2. requests' \subseteq [id : Id, hash : Data]
    BY <1>0, <1>3, <2>1 DEF TypeOK, SendRequest
  <2> QED BY <1>0, <1>3, <2>2
      DEF TypeOK, DispatcherTypeOK, dispatcherVars, SendRequest, Goto, Location, Open
<1>4. CASE Receive(n)
  <2>1. box[n] \in Reply /\ NoReply \notin Reply
    BY <1>0, <1>4, Setting DEF TypeOK, DispatcherTypeOK, Receive
  <2> QED BY <1>0, <1>4, <2>1, Setting
      DEF TypeOK, DispatcherTypeOK, Receive, Goto, Location, Open
<1>5. CASE Timeout(n)
  BY <1>0, <1>5
  DEF TypeOK, DispatcherTypeOK, dispatcherVars, Timeout, Receivers, ReturnWith, Goto, Location, Open
<1>6. CASE DeleteEntry(n)
  BY <1>0, <1>6, Setting
  DEF TypeOK, DispatcherTypeOK, DeleteEntry, Unregister, Goto, Location, Open
<1>7. CASE Parse(n)
  <2>1. got' \in [Node -> Reply \cup {NoReply}] /\ Verified(n)
    BY <1>0, <1>7 DEF TypeOK, Parse
  <2>2. files' \in [Paths -> Seq([node : Node, data : Data])]
    <3>1. got[n].data \in Data /\ Path[n] \in Paths
      BY <2>1, Setting DEF Verified, Paths
    <3>2. [node |-> n, data |-> got[n].data] \in [node : Node, data : Data]
      BY <3>1
    <3>3. files[Path[n]] \in Seq([node : Node, data : Data])
      BY <1>0, <3>1 DEF TypeOK
    <3>4. Append(files[Path[n]], [node |-> n, data |-> got[n].data]) \in Seq([node : Node, data : Data])
      BY <3>2, <3>3
    <3> QED BY <1>0, <1>7, <3>4 DEF TypeOK, Parse, ParseLeaf, ParseInner
  <2>3. CASE ParseLeaf(n)
    BY <1>0, <1>7, <2>1, <2>2, <2>3
    DEF TypeOK, DispatcherTypeOK, dispatcherVars, Parse, ParseLeaf, ReturnWith, Goto, Location, Open
  <2>4. CASE ParseInner(n)
    BY <1>0, <1>7, <2>1, <2>2, <2>4
    DEF TypeOK, DispatcherTypeOK, dispatcherVars, Parse, ParseInner, Goto, Location, Open
  <2> QED BY <1>7, <2>3, <2>4 DEF Parse
<1>8. CASE Panic(n) \/ Reject(n)
  BY <1>0, <1>8
  DEF TypeOK, DispatcherTypeOK, dispatcherVars, Panic, Reject, ReturnWith, Goto, Location, Open
<1>9. CASE CallKid(n)
  <2>1. PICK k \in DOMAIN Kids[n] : pc[Kids[n][k]] = "idle" /\ Goto(Kids[n][k], "acquire")
    BY <1>9 DEF CallKid
  <2> QED BY <1>0, <1>9, <2>1
      DEF TypeOK, DispatcherTypeOK, dispatcherVars, CallKid, Goto, Location
<1>10. CASE EndKids(n)
  BY <1>0, <1>10
  DEF TypeOK, DispatcherTypeOK, dispatcherVars, EndKids, ReturnWith, Goto, Location, Open
<1>11. CASE Return(n)
  BY <1>0, <1>11, <1>0
  DEF TypeOK, DispatcherTypeOK, dispatcherVars, Return, Goto, Location, Open
<1> QED BY <1>1, <1>2, <1>3, <1>4, <1>5, <1>6, <1>7, <1>8, <1>9, <1>10, <1>11 DEF Call

LEMMA DrawnKept ==
  ASSUME LineInv, NEW n \in Node, Call(n)
  PROVE  Drawn'
<1>0. pc \in [Node -> Location] /\ reqId \in [Node -> Id \cup {NoId}] /\ Drawn
  BY DEF LineInv, TypeOK
<1>1. CASE NewRequest(n)
  <2>1. PICK i \in Id : reqId' = [reqId EXCEPT ![n] = i]
    BY <1>1, Setting DEF NewRequest
  <2>2. pc[n] = "register" /\ pc' = [pc EXCEPT ![n] = "send"]
    BY <1>1 DEF NewRequest, Goto
  <2> QED BY <1>0, <2>1, <2>2, Setting DEF Drawn
<1>2. CASE CallKid(n)
  <2>1. PICK m \in Node : pc[m] = "idle" /\ Goto(m, "acquire")
    BY <1>2, KidsAreNodes DEF CallKid
  <2> QED BY <1>0, <1>2, <2>1 DEF Drawn, CallKid, Goto
<1>3. CASE ~NewRequest(n) /\ ~CallKid(n)
  <2>1. reqId' = reqId
    BY <1>3 DEF Call, Acquire, SendRequest, Receive, Timeout, DeleteEntry, Parse, Panic, Reject, EndKids, Return
  <2>2. PICK l : /\ Goto(n, l)
                 /\ l \in {"idle", "acquire", "register"} <=> pc[n] \in {"idle", "acquire", "register"}
    BY <1>3
    DEF Call, Acquire, SendRequest, Receive, Timeout, DeleteEntry, Parse, ParseLeaf, ParseInner,
        Panic, Reject, EndKids, Return, ReturnWith, Receivers
  <2> QED BY <1>0, <2>1, <2>2 DEF Drawn, Goto
<1> QED BY <1>1, <1>2, <1>3

LEMMA CallKeepsLine ==
  ASSUME LineInv, NEW n \in Node, Call(n)
  PROVE  LineInv'
<1>0. pc \in [Node -> Location] /\ slots \in 0..Limit /\ slots = Cardinality(OpenCalls)
  BY DEF LineInv, TypeOK
<1>1. CASE Acquire(n)
  BY <1>1, LineKept, TokenTaken, CallTypes, DrawnKept DEF LineInv, Acquire
<1>2. CASE Return(n)
  BY <1>2, LineShrinks, TokenReturned, CallTypes, DrawnKept DEF LineInv
<1>3. CASE CallKid(n)
  BY <1>0, <1>3, LineGrows, TokenKept, CallTypes, DrawnKept DEF LineInv, CallKid
<1>4. CASE NewRequest(n) \/ SendRequest(n) \/ Receive(n) \/ DeleteEntry(n) \/ Panic(n)
  <2>1. PICK l \in {"send", "select", "delete", "check", "panicked"} :
            /\ Goto(n, l) /\ pc[n] \in {"register", "send", "select", "delete", "check"}
            /\ slots' = slots
    BY <1>4 DEF NewRequest, SendRequest, Receive, DeleteEntry, Panic
  <2>2. \A m \in Node : pc'[m] \in Open <=> pc[m] \in Open
    BY <1>0, <2>1 DEF Goto, Open
  <2>3. OneTip' /\ KidsInTurn' /\ RootsAndKids'
    BY <2>1, LineKept
  <2> QED BY <1>0, <2>1, <2>2, <2>3, TokenKept, CallTypes, DrawnKept DEF LineInv
<1>5. CASE Timeout(n) \/ (Parse(n) /\ ParseLeaf(n)) \/ Reject(n) \/ EndKids(n)
  <2>1. /\ Goto(n, "return") /\ slots' = slots
        /\ \/ pc[n] \in {"select", "check"}
           \/ pc[n] = "children" /\ \A m \in KidsOf(n) : pc[m] = "returned"
    BY <1>5 DEF Timeout, Receivers, Parse, ParseLeaf, Panic, Reject, EndKids, ReturnWith
  <2>2. \A m \in KidsOf(n) : ~Active(m)
    <3>1. CASE pc[n] = "children"
      BY <2>1, <3>1 DEF Active
    <3>2. CASE pc[n] \in {"select", "check"}
      BY <3>2, KidsAreNodes DEF LineInv, KidsInTurn, Active
    <3> QED BY <2>1, <3>1, <3>2
  <2>3. \A m \in Node : pc'[m] \in Open <=> pc[m] \in Open
    BY <1>0, <2>1 DEF Goto, Open
  <2>4. OneTip' /\ KidsInTurn' /\ RootsAndKids'
    BY <2>1, <2>2, LineReturns
  <2> QED BY <1>0, <2>1, <2>3, <2>4, TokenKept, CallTypes, DrawnKept DEF LineInv
<1>6. CASE Parse(n) /\ ParseInner(n)
  <2>1. Goto(n, "children") /\ pc[n] = "check" /\ slots' = slots
    BY <1>6 DEF Parse, ParseInner
  <2>2. \A m \in Node : pc'[m] \in Open <=> pc[m] \in Open
    BY <1>0, <2>1 DEF Goto, Open
  <2>3. OneTip' /\ KidsInTurn' /\ RootsAndKids'
    BY <2>1, LineLoops
  <2> QED BY <1>0, <2>1, <2>2, <2>3, TokenKept, CallTypes, DrawnKept DEF LineInv
<1> QED BY <1>1, <1>2, <1>3, <1>4, <1>5, <1>6 DEF Call, Parse

(* The handlers of replies touch only what the dispatcher keeps.           *)
LEMMA HandlersKeepLine ==
  ASSUME LineInv,
         \/ \E q \in requests : Arrive(q)
         \/ \E h \in handlers : Handle(h)
         \/ UNCHANGED vars
  PROVE  LineInv'
<1>1. UNCHANGED <<pc, reqId, got, outcome, slots, files, requests>>
  BY DEF Arrive, Handle, vars
<1>2. DispatcherTypeOK'
  <2>1. CASE UNCHANGED vars
    BY <2>1 DEF LineInv, TypeOK, DispatcherTypeOK, vars, dispatcherVars
  <2>2. ASSUME NEW q \in requests, Arrive(q) PROVE DispatcherTypeOK'
    <3>1. PICK a \in PeerAnswers : LookUp(q.id, AnswerTo(q, a))
      BY <2>2 DEF Arrive
    <3>2. q.id \in Id /\ q.hash \in Data /\ Short \in Data
      BY LegacyAssumption DEF LineInv, TypeOK
    <3>3. AnswerTo(q, a) \in Reply
      BY <3>2, LegacyAssumption DEF AnswerTo
    <3>4. responseChannels[q.id] \in Chan
      BY <3>1, <3>2 DEF LookUp, Registered, LineInv, TypeOK, DispatcherTypeOK
    <3> QED BY <3>1, <3>3, <3>4 DEF LookUp, LineInv, TypeOK, DispatcherTypeOK, Handler
  <2>3. ASSUME NEW h \in handlers, Handle(h) PROVE DispatcherTypeOK'
    <3>1. h.chan \in Chan /\ h.reply \in Reply
      BY DEF LineInv, TypeOK, DispatcherTypeOK, Handler
    <3> QED BY <2>3, <3>1 DEF Handle, Deliver, LineInv, TypeOK, DispatcherTypeOK
  <2> QED BY <2>1, <2>2, <2>3
<1>3. OpenCalls' = OpenCalls
  BY <1>1 DEF OpenCalls
<1>4. TypeOK'
  BY <1>1, <1>2 DEF LineInv, TypeOK
<1>5. \A n \in Node : (Active(n)' <=> Active(n)) /\ (Tip(n)' <=> Tip(n))
  BY <1>1 DEF Tip, Active
<1>6. OneTip' /\ KidsInTurn' /\ RootsAndKids'
  BY <1>1, <1>5, KidsAreNodes DEF LineInv, OneTip, KidsInTurn, RootsAndKids
<1>7. Drawn'
  BY <1>1 DEF LineInv, Drawn
<1> QED BY <1>1, <1>3, <1>4, <1>6, <1>7 DEF LineInv

LEMMA InitLine == Init => LineInv
<1> SUFFICES ASSUME Init PROVE LineInv
  OBVIOUS
<1>1. TypeOK
  <2>1. files \in [Paths -> Seq([node : Node, data : Data])]
    BY DEF Init
  <2> QED BY <2>1, Setting
      DEF Init, DispatcherInit, TypeOK, DispatcherTypeOK, Location, Open
<1>2. slots = Cardinality(OpenCalls)
  <2>1. OpenCalls = {}
    BY DEF Init, OpenCalls, Open
  <2> QED BY <2>1, FS_EmptySet DEF Init
<1>3. \A n \in Node : Active(n) <=> n \in Roots
  BY DEF Init, Active
<1>4. OneTip
  BY <1>3, TreeAssumption DEF OneTip, Tip
<1>5. KidsInTurn
  <2>1. \A n \in Node : \A k \in DOMAIN Kids[n] :
            pc[Kids[n][k]] = "idle" /\ pc[n] \in {"idle", "acquire"}
    BY KidsAreNodes, TreeAssumption DEF Init
  <2> QED BY <2>1 DEF KidsInTurn, Active
<1>6. RootsAndKids
  BY <1>3 DEF RootsAndKids
<1>7. Drawn
  BY DEF Init, Drawn
<1> QED BY <1>1, <1>2, <1>4, <1>5, <1>6, <1>7 DEF LineInv

(* The invariant of the line of calls, inductive. *)
THEOREM LineInvariant == Spec => []LineInv
<1>1. LineInv /\ [Next]_vars => LineInv'
  BY CallKeepsLine, HandlersKeepLine DEF Next, Step, Finished
<1> QED BY <1>1, InitLine, PTL DEF Spec

(* Every variable of LegacyDownload keeps its type, and the count of the  *)
(* tokens never leaves its range. *)
THEOREM TypeCorrect == Spec => []TypeOK
<1>1. LineInv => TypeOK
  BY DEF LineInv
<1> QED BY <1>1, LineInvariant, PTL

(* Whatever the tree and the limit, the tokens are held along one path of  *)
(* the tree, each caller waiting for its child: the depth of the recursion *)
(* is what fills downloadLimit, and no two calls have a request out.       *)
THEOREM TokensFollowTheDepth == Spec => []TokensAreDepth
<1>1. LineInv => TokensAreDepth
  <2> SUFFICES ASSUME LineInv PROVE TokensAreDepth
    OBVIOUS
  <2>1. slots = Cardinality({n \in Node : pc[n] \in Open})
    BY DEF LineInv, OpenCalls
  <2>2. \A n \in Node \ Roots : pc[n] \notin {"idle", "returned"} =>
            \E m \in Node : n \in KidsOf(m) /\ pc[m] = "children"
    BY DEF LineInv, RootsAndKids, Active
  <2>3. \A n \in Node : pc[n] \in Open /\ pc[n] # "children" => Tip(n)
    BY DEF Open, Tip, Active
  <2>4. \A n, m \in Node : pc[n] \in Open /\ pc[m] \in Open /\ n # m =>
            "children" \in {pc[n], pc[m]}
    BY <2>3 DEF LineInv, OneTip
  <2> QED BY <2>1, <2>2, <2>4 DEF TokensAreDepth
<1> QED BY <1>1, LineInvariant, PTL

(* A wedge is for ever: the call that waits for a token is the tip of the  *)
(* line, so no other call has anything left to do, and none returns one.   *)
THEOREM WedgedForEver == Spec => [][Wedged => Wedged']_vars
<1>1. LineInv /\ [Next]_vars => (Wedged => Wedged')
  <2> SUFFICES ASSUME LineInv, [Next]_vars, Wedged PROVE Wedged'
    OBVIOUS
  <2>1. PICK w \in Node : pc[w] = "acquire"
    BY DEF Wedged
  <2>2. \A n \in Node : Tip(n) => pc[n] # "children"
    <3>1. Tip(w)
      BY <2>1 DEF Tip, Active
    <3> QED BY <2>1, <3>1 DEF LineInv, OneTip
  <2>3. ASSUME NEW n \in Node, Call(n) PROVE FALSE
    <3>1. CASE CallKid(n)
      BY <2>2, <3>1, CallerIsTip DEF CallKid
    <3>2. CASE EndKids(n)
      BY <2>2, <3>2 DEF EndKids, Tip, Active
    <3>3. CASE Acquire(n)
      BY <3>3, Setting DEF Acquire, Wedged
    <3>4. CASE ~CallKid(n) /\ ~EndKids(n) /\ ~Acquire(n)
      BY <2>3, <3>4
      DEF Call, NewRequest, SendRequest, Receive, Timeout, Receivers, DeleteEntry, Parse, Panic, Reject,
          Return, Wedged, Open
    <3> QED BY <3>1, <3>2, <3>3, <3>4
  <2>4. pc' = pc /\ slots' = slots
    BY <2>3 DEF Next, Step, Finished, Arrive, Handle, vars
  <2> QED BY <2>4 DEF Wedged
<1> QED BY <1>1, LineInvariant, PTL DEF Spec
-----------------------------------------------------------------------------
(* An entry belongs to the call that drew its identifier, which is waiting *)
(* or has timed out; nothing is handed to a call that is not in its select.*)
EntriesMatch ==
    \A i \in Id : Registered(i) =>
        /\ reqId[responseChannels[i]] = i
        /\ \/ pc[responseChannels[i]] \in Entered
           \/ outcome[responseChannels[i]] = "empty"
HandedInSelect == \A n \in Node : box[n] # NoReply => pc[n] = "select"

LeakInv == EntriesMatch /\ HandedInSelect

(* A step that leaves the entries alone and does not take a call with an   *)
(* entry out of Entered, or takes it out by a timeout.                     *)
LEMMA EntriesStay ==
  ASSUME LineInv, LeakInv, responseChannels' = responseChannels,
         \A m \in Node :
             /\ reqId'[m] = reqId[m]
             /\ pc[m] \in Entered => pc'[m] \in Entered \/ outcome'[m] = "empty"
             /\ outcome[m] = "empty" => outcome'[m] = "empty"
  PROVE  EntriesMatch'
<1>1. \A i \in Id : Registered(i) => responseChannels[i] \in Node
  BY Setting DEF LineInv, TypeOK, DispatcherTypeOK, Registered
<1> QED BY <1>1 DEF LeakInv, EntriesMatch, Registered

LEMMA CallKeepsEntries ==
  ASSUME LineInv, LeakInv, NEW n \in Node, Call(n)
  PROVE  EntriesMatch'
<1>0. /\ pc \in [Node -> Location] /\ reqId \in [Node -> Id \cup {NoId}]
      /\ responseChannels \in [Id -> Node \cup {NoChan}]
      /\ outcome \in [Node -> {"none", "data", "empty", "error"}]
      /\ \A m \in Node : pc[m] \in {"return", "returned"} <=> outcome[m] # "none"
      /\ NoChan \notin Node /\ NoId \notin Id
  BY Setting DEF LineInv, TypeOK, DispatcherTypeOK
<1>1. CASE NewRequest(n)
  <2>1. PICK i \in Id : /\ responseChannels' = [responseChannels EXCEPT ![i] = n]
                        /\ reqId' = [reqId EXCEPT ![n] = i]
    BY <1>1, Setting DEF NewRequest, Register
  <2>2. pc[n] = "register" /\ pc' = [pc EXCEPT ![n] = "send"] /\ outcome' = outcome
    BY <1>1 DEF NewRequest, Goto
  <2>3. reqId[n] = NoId
    BY <2>2 DEF LineInv, Drawn
  <2> SUFFICES ASSUME NEW j \in Id, responseChannels'[j] # NoChan
               PROVE  /\ reqId'[responseChannels'[j]] = j
                      /\ \/ pc'[responseChannels'[j]] \in Entered
                         \/ outcome'[responseChannels'[j]] = "empty"
    BY DEF EntriesMatch, Registered
  <2>4. CASE j = i
    BY <1>0, <2>1, <2>2, <2>4 DEF Entered
  <2>5. CASE j # i
    <3>1. responseChannels'[j] = responseChannels[j] /\ responseChannels[j] \in Node
      BY <1>0, <2>1, <2>5
    <3>2. reqId[responseChannels[j]] = j
      BY <3>1, <1>0 DEF LeakInv, EntriesMatch, Registered
    <3>3. responseChannels[j] # n
      BY <1>0, <2>3, <3>2
    <3> QED BY <1>0, <2>1, <2>2, <3>1, <3>2, <3>3 DEF LeakInv, EntriesMatch, Registered
  <2> QED BY <2>4, <2>5
<1>2. CASE DeleteEntry(n)
  <2>1. /\ responseChannels' = [responseChannels EXCEPT ![reqId[n]] = NoChan]
        /\ pc' = [pc EXCEPT ![n] = "check"] /\ reqId' = reqId /\ outcome' = outcome
    BY <1>2 DEF DeleteEntry, Unregister, Goto
  <2> SUFFICES ASSUME NEW j \in Id, responseChannels'[j] # NoChan
               PROVE  /\ reqId'[responseChannels'[j]] = j
                      /\ \/ pc'[responseChannels'[j]] \in Entered
                         \/ outcome'[responseChannels'[j]] = "empty"
    BY DEF EntriesMatch, Registered
  <2>2. /\ responseChannels'[j] = responseChannels[j] /\ responseChannels[j] \in Node
        /\ j # reqId[n]
    BY <1>0, <2>1
  <2>3. reqId[responseChannels[j]] = j
    BY <1>0, <2>2 DEF LeakInv, EntriesMatch, Registered
  <2>4. responseChannels[j] # n
    BY <2>2, <2>3
  <2> QED BY <1>0, <2>1, <2>2, <2>3, <2>4 DEF LeakInv, EntriesMatch, Registered
<1>3. CASE SendRequest(n) \/ Receive(n) \/ Timeout(n)
  <2>1. /\ responseChannels' = responseChannels /\ reqId' = reqId
        /\ \/ \E l \in Entered : Goto(n, l) /\ outcome' = outcome
           \/ Goto(n, "return") /\ outcome' = [outcome EXCEPT ![n] = "empty"]
    BY <1>3
    DEF SendRequest, Receive, Timeout, ReturnWith, Entered, dispatcherVars
  <2> QED BY <1>0, <2>1, EntriesStay DEF Goto
<1>4. CASE Acquire(n) \/ Parse(n) \/ Panic(n) \/ Reject(n) \/ CallKid(n) \/ EndKids(n) \/ Return(n)
  <2>1. /\ responseChannels' = responseChannels /\ reqId' = reqId
        /\ \A m \in Node : pc[m] \in Entered => pc'[m] = pc[m]
    <3>1. CASE CallKid(n)
      <4>1. PICK m \in Node : pc[m] = "idle" /\ Goto(m, "acquire")
        BY <3>1, KidsAreNodes DEF CallKid
      <4> QED BY <1>0, <3>1, <4>1 DEF CallKid, Goto, Entered, dispatcherVars
    <3>2. CASE ~CallKid(n)
      <4>1. /\ responseChannels' = responseChannels /\ reqId' = reqId
            /\ pc[n] \in {"acquire", "check", "children", "return"}
            /\ \E l : Goto(n, l)
        BY <1>4, <3>2
        DEF Acquire, Parse, ParseLeaf, ParseInner, Panic, Reject, EndKids, Return, ReturnWith, dispatcherVars
      <4> QED BY <1>0, <4>1 DEF Goto, Entered
    <3> QED BY <3>1, <3>2
  <2>2. \A m \in Node : outcome[m] = "empty" => outcome'[m] = "empty"
    <3>1. CASE outcome' = outcome
      BY <3>1
    <3>2. CASE outcome' # outcome
      <4>1. PICK o : outcome' = [outcome EXCEPT ![n] = o] /\ pc[n] \in {"check", "children"}
        BY <1>4, <3>2
        DEF Acquire, Parse, ParseLeaf, ParseInner, Panic, Reject, CallKid, EndKids, Return, ReturnWith
      <4> QED BY <1>0, <4>1
    <3> QED BY <3>1, <3>2
  <2> QED BY <2>1, <2>2, EntriesStay
<1> QED BY <1>1, <1>2, <1>3, <1>4 DEF Call

LEMMA CallKeepsBoxes ==
  ASSUME LineInv, LeakInv, NEW n \in Node, Call(n)
  PROVE  HandedInSelect'
<1>0. /\ pc \in [Node -> Location] /\ HandedInSelect
      /\ box \in [Node -> Reply \cup {NoReply}]
  BY Setting DEF LineInv, TypeOK, DispatcherTypeOK, LeakInv
<1>1. CASE Receive(n)
  BY <1>0, <1>1 DEF HandedInSelect, Receive, Goto
<1>2. CASE CallKid(n)
  <2>1. PICK m \in Node : pc[m] = "idle" /\ Goto(m, "acquire")
    BY <1>2, KidsAreNodes DEF CallKid
  <2> QED BY <1>0, <1>2, <2>1 DEF HandedInSelect, CallKid, Goto, dispatcherVars
<1>3. CASE ~Receive(n) /\ ~CallKid(n)
  <2>1. /\ box' = box /\ \E l : Goto(n, l)
        /\ pc[n] = "select" => box[n] = NoReply
    BY <1>3
    DEF Call, Acquire, NewRequest, SendRequest, Timeout, Receivers, DeleteEntry, Parse, ParseLeaf,
        ParseInner, Panic, Reject, EndKids, Return, ReturnWith, dispatcherVars
  <2> QED BY <1>0, <2>1 DEF HandedInSelect, Goto
<1> QED BY <1>1, <1>2, <1>3

LEMMA HandlersKeepLeaks ==
  ASSUME LineInv, LeakInv,
         \/ \E q \in requests : Arrive(q)
         \/ \E h \in handlers : Handle(h)
         \/ UNCHANGED vars
  PROVE  LeakInv'
<1>1. UNCHANGED <<responseChannels, pc, reqId, outcome>>
  BY DEF Arrive, LookUp, Handle, Deliver, vars, dispatcherVars
<1>2. EntriesMatch'
  BY <1>1, EntriesStay
<1>3. HandedInSelect'
  <2>1. CASE box' = box
    BY <1>1, <2>1 DEF LeakInv, HandedInSelect
  <2>2. ASSUME NEW h \in handlers, Handle(h), box' # box PROVE HandedInSelect'
    <3>1. box' = [box EXCEPT ![h.chan] = h.reply] /\ pc[h.chan] = "select"
      BY <2>2, Setting DEF Handle, Deliver, CanSend, Receivers
    <3> QED BY <1>1, <3>1, Setting
        DEF LeakInv, HandedInSelect, LineInv, TypeOK, DispatcherTypeOK
  <2> QED BY <2>1, <2>2 DEF Arrive, LookUp, vars, dispatcherVars
<1> QED BY <1>2, <1>3 DEF LeakInv

(* A timeout leaves its entry in responseChannels for ever, and nothing    *)
(* else does; no reply is left in the channel of a call that has returned. *)
THEOREM LeaksDoNoHarm == Spec => []LeaksAreHarmless
<1>1. Init => LeakInv
  BY Setting
  DEF Init, DispatcherInit, LeakInv, EntriesMatch, HandedInSelect, Registered
<1>2. LineInv /\ LeakInv /\ [Next]_vars => LeakInv'
  BY CallKeepsEntries, CallKeepsBoxes, HandlersKeepLeaks DEF Next, Step, Finished, LeakInv
<1>3. LeakInv => LeaksAreHarmless
  BY DEF LeakInv, EntriesMatch, HandedInSelect, LeaksAreHarmless
<1> QED BY <1>1, <1>2, <1>3, LineInvariant, PTL DEF Spec
-----------------------------------------------------------------------------
(* Only directories and big nodes are followed.                            *)
LoopsAreInner == \A n \in Node : pc[n] = "children" => Kind[n] \in {"directory", "big"}

LEMMA LoopsStep == LineInv /\ LoopsAreInner /\ [Next]_vars => LoopsAreInner'
<1> SUFFICES ASSUME LineInv, LoopsAreInner, [Next]_vars, NEW m \in Node, pc'[m] = "children"
             PROVE  Kind[m] \in {"directory", "big"}
  BY DEF LoopsAreInner
<1>0. pc \in [Node -> Location]
  BY DEF LineInv, TypeOK
<1>1. ASSUME NEW n \in Node, Call(n) PROVE Kind[m] \in {"directory", "big"}
  <2>1. CASE Parse(n) /\ ParseInner(n)
    BY <1>0, <2>1 DEF LoopsAreInner, ParseInner, Goto
  <2>2. CASE CallKid(n)
    <3>1. PICK x \in Node : Goto(x, "acquire")
      BY <2>2, KidsAreNodes DEF CallKid
    <3> QED BY <1>0, <3>1 DEF LoopsAreInner, Goto
  <2>3. CASE ~(Parse(n) /\ ParseInner(n)) /\ ~CallKid(n)
    <3>1. PICK l : Goto(n, l) /\ l # "children"
      BY <1>1, <2>3
      DEF Call, Acquire, NewRequest, SendRequest, Receive, Timeout, DeleteEntry, Parse, ParseLeaf,
          Panic, Reject, EndKids, Return, ReturnWith
    <3> QED BY <1>0, <3>1 DEF LoopsAreInner, Goto
  <2> QED BY <2>1, <2>2, <2>3
<1>2. CASE pc' = pc
  BY <1>2 DEF LoopsAreInner
<1> QED BY <1>1, <1>2 DEF Next, Step, Finished, Arrive, Handle, vars

(* Status, for one call. *)
StatusOf(l, o) ==
    IF l = "children" THEN "open" ELSE IF o = "data" THEN "done"
    ELSE IF o \in {"empty", "error"} THEN "lost" ELSE "todo"

LEMMA StatusIs ==
  /\ \A n \in Node : Status[n] = StatusOf(pc[n], outcome[n])
  /\ \A n \in Node : Status'[n] = StatusOf(pc'[n], outcome'[n])
  /\ pc' = pc /\ outcome' = outcome => Status' = Status
  BY DEF Status, StatusOf

LEMMA StatusMoves ==
  ASSUME NEW x \in Node, NEW s, Status'[x] = s, \A m \in Node : m # x => Status'[m] = Status[m]
  PROVE  Status' = [Status EXCEPT ![x] = s]
  BY DEF Status

LEMMA StatusStays ==
  ASSUME \A m \in Node : Status'[m] = Status[m]
  PROVE  Status' = Status
  BY DEF Status

(* The line of callers is what names a node in Transfer. *)
LEMMA CallsAreNamed ==
  ASSUME LineInv, LoopsAreInner, NEW n \in Node, Active(n)
  PROVE  T!Named(n)
<1>1. CASE n \in Roots
  BY <1>1 DEF T!Named
<1>2. CASE n \notin Roots
  <2>1. PICK m \in Node : n \in KidsOf(m) /\ pc[m] = "children"
    BY <1>2 DEF LineInv, RootsAndKids
  <2>2. PICK k \in DOMAIN Kids[m] : Kids[m][k] = n
    BY <2>1, KidsAreNodes
  <2>3. \A j \in 1..(k - 1) : Kids[m][j] \in Node /\ pc[Kids[m][j]] = "returned"
    BY <2>2, KidsAreNodes DEF LineInv, KidsInTurn
  <2>4. \A j \in 1..(k - 1) : T!Settled(Kids[m][j])
    BY <2>3, StatusIs DEF LineInv, TypeOK, StatusOf, T!Settled
  <2>5. Status[m] = "open" /\ Kind[m] \in {"big", "directory"}
    BY <2>1, StatusIs DEF StatusOf, LoopsAreInner
  <2> QED BY <2>2, <2>4, <2>5 DEF T!Named, T!Settled
<1> QED BY <1>1, <1>2

LEMMA CallMaps ==
  ASSUME LineInv, LoopsAreInner, NEW n \in Node, Call(n)
  PROVE  [T!Next]_(T!vars)
<1>0. /\ pc \in [Node -> Location]
      /\ outcome \in [Node -> {"none", "data", "empty", "error"}]
      /\ \A m \in Node : pc[m] \in {"return", "returned"} <=> outcome[m] # "none"
  BY DEF LineInv, TypeOK
<1>1. CASE Parse(n) /\ ParseLeaf(n)
  <2>1. /\ pc' = [pc EXCEPT ![n] = "return"] /\ outcome' = [outcome EXCEPT ![n] = "data"]
        /\ pc[n] = "check" /\ got[n].data = Hash[n] /\ Kind[n] \in {"chunk", "malformed"}
    BY <1>1 DEF Parse, ParseLeaf, ReturnWith, Goto, Verified
  <2>2. Status[n] = "todo" /\ Status' = [Status EXCEPT ![n] = "done"]
    BY <1>0, <2>1, StatusIs, StatusMoves DEF StatusOf
  <2>3. T!Named(n)
    BY <2>1, CallsAreNamed DEF Active
  <2>4. T!Fetch(n)
    BY <1>1, <2>1, <2>2, <2>3 DEF ParseLeaf, T!Fetch, T!Settle
  <2> QED BY <2>4 DEF T!Next
<1>2. CASE Parse(n) /\ ParseInner(n)
  <2>1. /\ pc' = [pc EXCEPT ![n] = "children"] /\ outcome' = outcome /\ files' = files
        /\ pc[n] = "check" /\ Kind[n] \in {"directory", "big"}
    BY <1>2 DEF Parse, ParseInner, Goto
  <2>2. Status[n] = "todo" /\ Status' = [Status EXCEPT ![n] = "open"]
    BY <1>0, <2>1, StatusIs, StatusMoves DEF StatusOf
  <2>3. T!Named(n)
    BY <2>1, CallsAreNamed DEF Active
  <2>4. T!Fetch(n)
    BY <2>1, <2>2, <2>3 DEF T!Fetch, T!Settle
  <2> QED BY <2>4 DEF T!Next
<1>3. CASE Timeout(n) \/ Reject(n)
  <2>1. PICK o \in {"empty", "error"} :
            /\ pc' = [pc EXCEPT ![n] = "return"] /\ outcome' = [outcome EXCEPT ![n] = o]
            /\ pc[n] \in {"select", "check"} /\ files' = files
    BY <1>3 DEF Timeout, Receivers, Reject, ReturnWith, Goto
  <2>2. Status[n] = "todo" /\ Status' = [Status EXCEPT ![n] = "lost"]
    BY <1>0, <2>1, StatusIs, StatusMoves DEF StatusOf
  <2>3. T!Named(n)
    BY <2>1, CallsAreNamed DEF Active
  <2>4. T!Lose(n)
    BY <2>1, <2>2, <2>3 DEF T!Lose, T!Settle
  <2> QED BY <2>4 DEF T!Next
<1>4. CASE EndKids(n)
  <2>1. /\ pc' = [pc EXCEPT ![n] = "return"] /\ outcome' = [outcome EXCEPT ![n] = "data"]
        /\ pc[n] = "children" /\ files' = files
        /\ \A k \in DOMAIN Kids[n] : Kids[n][k] \in Node /\ pc[Kids[n][k]] = "returned"
    BY <1>4, KidsAreNodes DEF EndKids, ReturnWith, Goto
  <2>2. Status[n] = "open" /\ Status' = [Status EXCEPT ![n] = "done"]
    BY <1>0, <2>1, StatusIs, StatusMoves DEF StatusOf
  <2>3. \A k \in DOMAIN Kids[n] : T!Settled(Kids[n][k])
    BY <1>0, <2>1, StatusIs DEF StatusOf, T!Settled
  <2>4. T!Close(n)
    BY <2>1, <2>2, <2>3 DEF T!Close, T!Settle
  <2> QED BY <2>4 DEF T!Next
<1>5. CASE CallKid(n)
  <2>1. PICK m \in Node : pc' = [pc EXCEPT ![m] = "acquire"] /\ pc[m] = "idle"
    BY <1>5, KidsAreNodes DEF CallKid, Goto
  <2>2. outcome' = outcome /\ files' = files
    BY <1>5 DEF CallKid
  <2>3. Status' = Status
    BY <1>0, <2>1, <2>2, StatusIs, StatusStays DEF StatusOf
  <2> QED BY <2>2, <2>3 DEF T!vars
<1>6. CASE Acquire(n) \/ NewRequest(n) \/ SendRequest(n) \/ Receive(n) \/ DeleteEntry(n)
           \/ Panic(n) \/ Return(n)
  <2>1. /\ outcome' = outcome /\ files' = files /\ pc[n] # "children"
        /\ \E l : l # "children" /\ pc' = [pc EXCEPT ![n] = l]
    BY <1>6 DEF Acquire, NewRequest, SendRequest, Receive, DeleteEntry, Panic, Return, Goto
  <2>2. Status' = Status
    BY <1>0, <2>1, StatusIs, StatusStays DEF StatusOf
  <2> QED BY <2>1, <2>2 DEF T!vars
<1> QED BY <1>1, <1>2, <1>3, <1>4, <1>5, <1>6 DEF Call, Parse

(* The first version too implements Transfer, for every tree and every     *)
(* number of tokens, whether or not it wedges: each call settles its node  *)
(* once, in the order of the recursion.                                    *)
THEOREM ImplementsTransfer == Spec => TransferSpec
<1>1. Init => LoopsAreInner /\ T!Init
  BY DEF Init, LoopsAreInner, T!Init, Status, Paths
<1>2. LineInv /\ LoopsAreInner /\ [Next]_vars => [T!Next]_(T!vars)
  <2> SUFFICES ASSUME LineInv, LoopsAreInner, [Next]_vars PROVE [T!Next]_(T!vars)
    OBVIOUS
  <2>1. ASSUME UNCHANGED <<pc, outcome, files>> PROVE UNCHANGED T!vars
    BY <2>1, StatusIs DEF T!vars
  <2> QED BY <2>1, CallMaps DEF Next, Step, Finished, Arrive, Handle, vars
<1>3. LineInv /\ LoopsAreInner /\ [Next]_vars => LoopsAreInner'
  BY LoopsStep
<1> QED BY <1>1, <1>2, <1>3, LineInvariant, PTL DEF Spec, TransferSpec, T!Spec
=============================================================================
