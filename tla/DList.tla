------------------------------- MODULE DList --------------------------------
(***************************************************************************)
(* The library of doubly linked lists (dlist.c), down to its pointers: the *)
(* nodes on the heap, each with a value, a prev and a next, and two DList  *)
(* structures.  A list owns its values (copy and free_fn are both set), or *)
(* was made by dlist_map, with copy NULL.  Operations are functions of the *)
(* whole memory, so that one may call another as in the code.              *)
(***************************************************************************)
EXTENDS Integers, Sequences, SequencesExt, FiniteSets, FiniteSetsExt

CONSTANTS N,        \* the nodes malloc can give
          Value,    \* what a node may hold
          Key,      \* what cmp compares of a value
          Mapped    \* the map_fn of dlist_map

NULL == 0
Node == 1..N
Lists == {"a", "b"}
NoList == [exists |-> FALSE]

ASSUME DListAssumption ==
    N \in Nat \ {0} /\ NULL \notin Value /\ Key \in [Value -> Int] /\ Mapped \in [Value -> Value]

VARIABLES mem,      \* the heap and the lists
          crashed   \* a NULL pointer was followed

vars == <<mem, crashed>>

EmptyList(copies) == [exists |-> TRUE, head |-> NULL, tail |-> NULL, size |-> 0, copy |-> copies]

Init ==
    /\ mem = [live |-> {}, data |-> [n \in Node |-> NULL], prev |-> [n \in Node |-> NULL],
              next |-> [n \in Node |-> NULL], list |-> [l \in Lists |-> NoList]]
    /\ crashed = FALSE

Lives(l) == mem.list[l].exists
Free(m) == Node \ m.live
New(m) == CHOOSE n \in Free(m) : TRUE

(* The nodes met from h along next (or prev). *)
Walk(field, h) ==
    LET from[k \in 0..N] ==
            [x \in Node \cup {NULL} |->
                IF x = NULL \/ k = 0 THEN <<>> ELSE <<x>> \o from[k - 1][field[x]]]
    IN  from[N][h]

Chain(m, l) == Walk(m.next, m.list[l].head)
IsIn(m, l, n) == n \in ToSet(Chain(m, l))       \* dlist_node_is_in
Values(m, l) == [i \in DOMAIN Chain(m, l) |-> m.data[Chain(m, l)[i]]]

(* free(e) of each node of S, and free_fn of what it holds. *)
Released(m, S) ==
    [m EXCEPT !.live = @ \ S,
              !.data = [n \in Node |-> IF n \in S THEN NULL ELSE @[n]],
              !.prev = [n \in Node |-> IF n \in S THEN NULL ELSE @[n]],
              !.next = [n \in Node |-> IF n \in S THEN NULL ELSE @[n]]]

-----------------------------------------------------------------------------
new_node(m, v) ==
    LET n == New(m)
    IN  [m EXCEPT !.live = @ \cup {n}, !.data[n] = v, !.prev[n] = NULL, !.next[n] = NULL]

clear(m, l) ==
    [Released(m, ToSet(Chain(m, l))) EXCEPT !.list[l] = EmptyList(m.list[l].copy)]

destroy(m, l) == [clear(m, l) EXCEPT !.list[l] = NoList]

(* A new node in a list: alone, or linked to the old head or tail. *)
Alone(m, l, n) ==
    [m EXCEPT !.list[l].head = n, !.list[l].tail = n, !.list[l].size = @ + 1]

push_front(m, l, v) ==
    LET n == New(m)
        h == m.list[l].head
    IN  IF h = NULL THEN Alone(new_node(m, v), l, n)
        ELSE [new_node(m, v) EXCEPT !.next[n] = h, !.prev[h] = n,
                                    !.list[l].head = n, !.list[l].size = @ + 1]

push_back(m, l, v) ==
    LET n == New(m)
        t == m.list[l].tail
    IN  IF m.list[l].head = NULL THEN Alone(new_node(m, v), l, n)
        ELSE [new_node(m, v) EXCEPT !.prev[n] = t, !.next[t] = n,
                                    !.list[l].tail = n, !.list[l].size = @ + 1]

(* f with the pointer of x set to y, unless x is NULL. *)
Set(f, x, y) == [n \in Node |-> IF n = x THEN y ELSE f[n]]

insert_before(m, l, pos, v) ==
    LET n == New(m)
        p == m.prev[pos]
        c == new_node(m, v)
    IN  IF pos = NULL THEN push_back(m, l, v)
        ELSE [c EXCEPT !.next = Set(Set(@, n, pos), p, n), !.prev = Set(Set(@, n, p), pos, n),
                       !.list[l].head = IF p = NULL THEN n ELSE @, !.list[l].size = @ + 1]

insert_after(m, l, pos, v) ==
    LET n == New(m)
        q == m.next[pos]
        c == new_node(m, v)
    IN  IF pos = NULL THEN push_front(m, l, v)
        ELSE [c EXCEPT !.next = Set(Set(@, n, q), pos, n), !.prev = Set(Set(@, n, pos), q, n),
                       !.list[l].tail = IF q = NULL THEN n ELSE @, !.list[l].size = @ + 1]

Shrunk(m, l) == [m EXCEPT !.list[l].size = @ - 1]

pop_front(m, l) ==
    LET n == m.list[l].head
        q == m.next[n]
    IN  IF n = NULL THEN m
        ELSE Released(Shrunk(
                 IF q # NULL THEN [m EXCEPT !.prev[q] = NULL, !.list[l].head = q]
                 ELSE [m EXCEPT !.list[l].head = NULL, !.list[l].tail = NULL], l), {n})

pop_back_open(m, l) ==
    LET n == m.list[l].tail
    IN  IF n = NULL THEN m
        ELSE Released(Shrunk(IF m.prev[n] # NULL THEN [m EXCEPT !.list[l].tail = m.prev[n]]
                             ELSE [m EXCEPT !.list[l].head = NULL, !.list[l].tail = NULL], l), {n})

pop_back(m, l) ==
    LET n == m.list[l].tail
        p == m.prev[n]
    IN  IF n = NULL THEN m
        ELSE Released(Shrunk(
                 IF p # NULL THEN [m EXCEPT !.next[p] = NULL, !.list[l].tail = p]
                 ELSE [m EXCEPT !.list[l].head = NULL, !.list[l].tail = NULL], l), {n})

erase(m, l, n) ==
    CASE ~IsIn(m, l, n)   -> m
      [] IsIn(m, l, n) /\ m.next[n] = NULL -> pop_back(m, l)
      [] IsIn(m, l, n) /\ m.next[n] # NULL /\ m.prev[n] = NULL -> pop_front(m, l)
      [] OTHER -> Released(Shrunk([m EXCEPT !.prev[m.next[n]] = m.prev[n],
                                            !.next[m.prev[n]] = m.next[n]], l), {n})

(* The value of the node is handed to the caller, not freed. *)
extract(m, l, n) ==
    IF ~IsIn(m, l, n) THEN m
    ELSE Released(Shrunk([m EXCEPT !.next = Set(@, m.prev[n], m.next[n]),
                                   !.prev = Set(@, m.next[n], m.prev[n]),
                                   !.list[l].head = IF m.prev[n] = NULL THEN m.next[n] ELSE @,
                                   !.list[l].tail = IF m.next[n] = NULL THEN m.prev[n] ELSE @],
                         l), {n})

reverse(m, l) ==
    LET s == ToSet(Chain(m, l))
    IN  [m EXCEPT !.next = [n \in Node |-> IF n \in s THEN m.prev[n] ELSE @[n]],
                  !.prev = [n \in Node |-> IF n \in s THEN m.next[n] ELSE @[n]],
                  !.list[l].head = m.list[l].tail, !.list[l].tail = m.list[l].head]

Emptied(m, l) == [m EXCEPT !.list[l] = EmptyList(m.list[l].copy)]
SamePolicy(m, k, l) == m.list[k].copy = m.list[l].copy

concat(m, dst, src) ==
    LET d == m.list[dst]
        s == m.list[src]
    IN  CASE ~SamePolicy(m, dst, src) \/ s.size = 0 -> m
          [] SamePolicy(m, dst, src) /\ s.size # 0 /\ d.size = 0 ->
               [Emptied(m, src) EXCEPT !.list[dst].head = s.head, !.list[dst].tail = s.tail,
                                       !.list[dst].size = @ + s.size]
          [] OTHER ->
               [Emptied(m, src) EXCEPT !.next[d.tail] = s.head, !.prev[s.head] = d.tail,
                                       !.list[dst].tail = s.tail, !.list[dst].size = @ + s.size]

splice_before(m, dst, pos, src) ==
    LET s == m.list[src]
    IN  CASE pos = NULL -> concat(m, dst, src)
          [] pos # NULL /\ (~SamePolicy(m, dst, src) \/ s.size = 0 \/ ~IsIn(m, dst, pos)) -> m
          [] OTHER ->
               [Emptied(m, src) EXCEPT
                    !.next = Set(Set(@, m.prev[pos], s.head), s.tail, pos),
                    !.prev = Set(Set(@, s.head, m.prev[pos]), pos, s.tail),
                    !.list[dst].head = IF m.prev[pos] = NULL THEN s.head ELSE @,
                    !.list[dst].size = @ + s.size]

(* Lines 396-397 clear pos->next and then follow it. *)
split_crashes(m, l, pos) == pos # NULL /\ IsIn(m, l, pos) /\ m.next[pos] # NULL

split_after(m, l, pos, out) ==
    LET c == [m EXCEPT !.list[out] = EmptyList(m.list[l].copy)]
    IN  CASE pos = NULL -> [Emptied(m, l) EXCEPT !.list[out] = m.list[l]]
          [] pos # NULL /\ ~IsIn(m, l, pos) -> IF m.list[l].size = 0 THEN c ELSE m
          [] OTHER -> c

(* cur keeps its place while the node after it is erased. *)
unique(m, l) ==
    LET c == Chain(m, l)
        seen[i \in 1..Len(c)] ==
            IF i = 1 THEN [m |-> m, cur |-> c[1]]
            ELSE LET was == seen[i - 1]
                 IN  IF Key[was.m.data[was.cur]] = Key[was.m.data[c[i]]]
                     THEN [was EXCEPT !.m = erase(@, l, c[i])]
                     ELSE [was EXCEPT !.cur = c[i]]
    IN  IF c = <<>> THEN m ELSE seen[Len(c)].m

remove_if(m, l, k) ==
    LET c == Chain(m, l)
        seen[i \in 0..Len(c)] ==
            IF i = 0 THEN m
            ELSE LET was == seen[i - 1]
                 IN  IF Key[was.data[c[i]]] = k THEN erase(was, l, c[i]) ELSE was
    IN  seen[Len(c)]

(* The links of all the nodes while a list is sorted, and the first node   *)
(* of the part at hand.                                                    *)
Links ==
    [next : [Node -> Node \cup {NULL}], prev : [Node -> Node \cup {NULL}], head : Node \cup {NULL}]

(* fast makes two steps for each one of slow, which begins the right half  *)
(* when fast is at the end; the half before it is cut off.                 *)
split_middle(q) ==
    LET turn[k \in 0..N] ==
            IF k = 0 THEN [slow |-> q.head, fast |-> q.head, prev |-> NULL]
            ELSE LET was == turn[k - 1]
                 IN  IF was.fast = NULL \/ q.next[was.fast] = NULL THEN was
                     ELSE [slow |-> q.next[was.slow], fast |-> q.next[q.next[was.fast]], prev |-> was.slow]
        end == turn[N]
    IN  [cut |-> [q EXCEPT !.next = Set(@, end.prev, NULL), !.prev = Set(@, end.slow, NULL)],
         right |-> end.slow]

(* merge_sorted takes from the left among equals (a faulty variant does    *)
(* not, another forgets prev where the rest is linked, and another         *)
(* pop_back the end of the list).                                          *)
PrefersRight(m, x, y) == Key[m.data[x]] < Key[m.data[y]]
TakesLeft(m, x, y) == Key[m.data[x]] <= Key[m.data[y]]
LinkedOneWay(q, x, y) == [q EXCEPT !.next = Set(@, x, y)]
LinkedRest(q, x, y) == [q EXCEPT !.next = Set(@, x, y), !.prev = Set(@, y, x)]

(* pick leaves its part and becomes the last node of the result. *)
Picked(w, pick) ==
    [w EXCEPT !.q.next = Set(Set(@, w.tail, pick), pick, NULL), !.q.prev = Set(@, pick, w.tail),
              !.q.head = IF w.tail = NULL THEN pick ELSE @, !.tail = pick]

merge_sorted(m, q, a, b) ==
    LET turn[k \in 0..N] ==
            IF k = 0 THEN [q |-> q, a |-> a, b |-> b, tail |-> NULL]
            ELSE LET was == turn[k - 1]
                 IN  IF was.a = NULL \/ was.b = NULL THEN was
                     ELSE IF TakesLeft(m, was.a, was.b) THEN [Picked(was, was.a) EXCEPT !.a = was.q.next[was.a]]
                     ELSE [Picked(was, was.b) EXCEPT !.b = was.q.next[was.b]]
        end == turn[N]
    IN  IF a = NULL THEN [q EXCEPT !.head = b]
        ELSE IF b = NULL THEN [q EXCEPT !.head = a]
        ELSE LinkedRest(end.q, end.tail, IF end.a # NULL THEN end.a ELSE end.b)

(* k bounds the depth of the recursion, which is less than the nodes. *)
msort_rec(m, p) ==
    LET sorted[k \in 0..N] ==
            [q \in Links |->
                IF k = 0 \/ q.head = NULL \/ q.next[q.head] = NULL THEN q
                ELSE LET split == split_middle(q)
                         left == sorted[k - 1][split.cut]
                         right == sorted[k - 1][[left EXCEPT !.head = split.right]]
                     IN  merge_sorted(m, right, left.head, right.head)]
    IN  sorted[N][p]

(* The tail is found by a walk, and both ends are closed once more. *)
sort(m, l) ==
    LET h == m.list[l].head
        q == msort_rec(m, [next |-> m.next, prev |-> Set(m.prev, h, NULL), head |-> h])
        tail == Last(Walk(q.next, q.head))
    IN  IF h = NULL \/ m.next[h] = NULL THEN m
        ELSE [m EXCEPT !.next = Set(q.next, tail, NULL), !.prev = Set(q.prev, q.head, NULL),
                       !.list[l].head = q.head, !.list[l].tail = tail]

(* A new list out with the values of s, one push_back each; when memory is *)
(* short the new list is destroyed and the caller gets NULL.               *)
from_array(m, out, s, copies) ==
    LET filled[i \in 0..Len(s)] ==
            IF i = 0 THEN [m EXCEPT !.list[out] = EmptyList(copies)]
            ELSE push_back(filled[i - 1], out, s[i])
    IN  IF Len(s) > Cardinality(Free(m)) THEN m
        ELSE filled[Len(s)]

(* The values that pred accepts. *)
Matching(s, k) == FlattenSeq([i \in DOMAIN s |-> IF Key[s[i]] = k THEN <<s[i]>> ELSE <<>>])

map(m, l, out) == from_array(m, out, [i \in DOMAIN Values(m, l) |-> Mapped[Values(m, l)[i]]], FALSE)
filter(m, l, out, k) ==
    from_array(m, out, Matching(Values(m, l), k), m.list[l].copy)
clone(m, l, out) == from_array(m, out, Values(m, l), m.list[l].copy)

(* The queries; find_first returns the data of the node, find_if the node  *)
(* (here its place).                                                       *)
find_first(m, l, k) ==
    IF Matching(Values(m, l), k) = <<>> THEN NULL ELSE Head(Matching(Values(m, l), k))
find_if(m, l, k) == SelectInSeq(Values(m, l), LAMBDA v : Key[v] = k)
count(m, l, k) == Cardinality({n \in ToSet(Chain(m, l)) : Key[m.data[n]] = k})
-----------------------------------------------------------------------------
(* The operations, as a program that keeps to the contracts of dlist.h     *)
(* calls them: a position is a node of the list, or NULL; an operation on  *)
(* two lists has two; values are copied only from a list that copies.      *)
Step(m) == ~crashed /\ mem' = m /\ UNCHANGED crashed
Keys == {Key[v] : v \in Value}
Positions(l) == ToSet(Chain(mem, l)) \cup {NULL}

Create(l) == ~Lives(l) /\ Step([mem EXCEPT !.list[l] = EmptyList(TRUE)])
Clear(l) == Lives(l) /\ Step(clear(mem, l))
Destroy(l) == Lives(l) /\ Step(destroy(mem, l))
PushFront(l, v) == Lives(l) /\ Free(mem) # {} /\ Step(push_front(mem, l, v))
PushBack(l, v) == Lives(l) /\ Free(mem) # {} /\ Step(push_back(mem, l, v))
InsertBefore(l, n, v) ==
    Lives(l) /\ Free(mem) # {} /\ n \in Positions(l) /\ Step(insert_before(mem, l, n, v))
InsertAfter(l, n, v) ==
    Lives(l) /\ Free(mem) # {} /\ n \in Positions(l) /\ Step(insert_after(mem, l, n, v))
PopFront(l) == Lives(l) /\ Step(pop_front(mem, l))
PopBack(l) == Lives(l) /\ Step(pop_back(mem, l))
Erase(l, n) == Lives(l) /\ n \in mem.live /\ Step(erase(mem, l, n))
Extract(l, n) == Lives(l) /\ n \in mem.live /\ Step(extract(mem, l, n))
ReverseList(l) == Lives(l) /\ Step(reverse(mem, l))
Concat(dst, src) == dst # src /\ Lives(dst) /\ Lives(src) /\ Step(concat(mem, dst, src))
Splice(dst, n, src) ==
    /\ dst # src /\ Lives(dst) /\ Lives(src)
    /\ n \in mem.live \cup {NULL} /\ Step(splice_before(mem, dst, n, src))
Split(l, n, out) ==
    /\ Lives(l) /\ ~Lives(out) /\ n \in mem.live \cup {NULL}
    /\ ~split_crashes(mem, l, n) /\ Step(split_after(mem, l, n, out))
SplitCrashes(l, n, out) ==
    /\ ~crashed /\ Lives(l) /\ ~Lives(out) /\ n \in mem.live
    /\ split_crashes(mem, l, n) /\ crashed' = TRUE /\ UNCHANGED mem
Unique(l) == Lives(l) /\ Step(unique(mem, l))
RemoveIf(l, k) == Lives(l) /\ Step(remove_if(mem, l, k))
Sort(l) == Lives(l) /\ Step(sort(mem, l))
Map(l, out) == Lives(l) /\ ~Lives(out) /\ Step(map(mem, l, out))
Filter(l, out, k) ==
    Lives(l) /\ ~Lives(out) /\ mem.list[l].copy /\ Step(filter(mem, l, out, k))
Clone(l, out) == Lives(l) /\ ~Lives(out) /\ mem.list[l].copy /\ Step(clone(mem, l, out))
FromArray(out, s) == ~Lives(out) /\ Step(from_array(mem, out, s, TRUE))

Arrays == {<<v, w>> : v \in Value, w \in Value}

OnOne(l) ==
    \/ Create(l) \/ Clear(l) \/ Destroy(l) \/ PopFront(l) \/ PopBack(l)
    \/ ReverseList(l) \/ Unique(l) \/ Sort(l)
    \/ \E k \in Keys : RemoveIf(l, k)
    \/ \E n \in Node : Erase(l, n) \/ Extract(l, n)
    \/ \E v \in Value : PushFront(l, v) \/ PushBack(l, v)
    \/ \E v \in Value, n \in Node \cup {NULL} : InsertBefore(l, n, v) \/ InsertAfter(l, n, v)
    \/ \E s \in Arrays : FromArray(l, s)

OnTwo(l, k) ==
    \/ Concat(l, k) \/ Map(l, k) \/ Clone(l, k)
    \/ \E x \in Keys : Filter(l, k, x)
    \/ \E n \in Node \cup {NULL} : Splice(l, n, k) \/ Split(l, n, k) \/ SplitCrashes(l, n, k)

(* A program that has crashed is over. *)
Stopped == crashed /\ UNCHANGED vars

Next == Stopped \/ \E l \in Lists : OnOne(l) \/ \E k \in Lists \ {l} : OnTwo(l, k)

Spec == Init /\ [][Next]_vars
-----------------------------------------------------------------------------
(* After any sequence of calls a list can be walked both ways, its tail    *)
(* and its size are those of the walk, no node is in two lists, and the    *)
(* allocated nodes are those of the lists: nothing leaks, nothing dangles. *)
(* Every operation repairs up to six pointers to keep it so.               *)
HeapIsSound ==
    LET alive == {l \in Lists : Lives(l)}
        nodes(l) == ToSet(Chain(mem, l))
    IN  /\ \A l \in alive :
               /\ Walk(mem.prev, mem.list[l].tail) = Reverse(Chain(mem, l))
               /\ mem.list[l].size = Len(Chain(mem, l))
               /\ \A k \in alive \ {l} : nodes(l) \cap nodes(k) = {}
        /\ mem.live = UNION {nodes(l) : l \in alive}

(* Each operation is the operation on sequences that its contract names,   *)
(* value for value, and changes no other list: sort is stable, unique      *)
(* keeps the first of a run, the nodes moved between lists arrive in       *)
(* order.  Stated of every call the present memory allows.                 *)
C == INSTANCE ListContract
ContentOf(m, l) == IF m.list[l].exists THEN Values(m, l) ELSE C!Absent
Was(l) == ContentOf(mem, l)
Place(l, n) == SelectInSeq(Chain(mem, l), LAMBDA x : x = n)

(* In m the lists l and k hold s and t, and nothing else has changed. *)
Both(m, l, s, k, t) == ContentOf(m, l) = s /\ ContentOf(m, k) = t
Only(m, l, s) == \A k \in Lists : ContentOf(m, k) = IF k = l THEN s ELSE Was(k)

OneListContract(l) ==
    /\ Only(clear(mem, l), l, <<>>) /\ Only(destroy(mem, l), l, C!Absent)
    /\ Only(pop_front(mem, l), l, C!Removed(Was(l), 1))
    /\ Only(pop_back(mem, l), l, C!Removed(Was(l), Len(Was(l))))
    /\ Only(reverse(mem, l), l, Reverse(Was(l)))
    /\ Only(unique(mem, l), l, C!Deduplicated(Was(l)))
    /\ Only(sort(mem, l), l, C!Sorted(Was(l)))
    /\ \A k \in Keys : Only(remove_if(mem, l, k), l, C!Without(Was(l), k))
    /\ \A n \in mem.live :
           LET s == IF IsIn(mem, l, n) THEN C!Removed(Was(l), Place(l, n)) ELSE Was(l)
           IN  Only(erase(mem, l, n), l, s) /\ Only(extract(mem, l, n), l, s)
    /\ \A k \in Keys : LET at == find_if(mem, l, k)
                        IN  /\ at # 0 => Key[Was(l)[at]] = k
                            /\ \A i \in DOMAIN Was(l) : Key[Was(l)[i]] = k => at \in 1..i
                            /\ count(mem, l, k) = Len(C!Those(Was(l), k))
    /\ Free(mem) # {} => \A v \in Value :
           /\ Only(push_front(mem, l, v), l, C!Insert(Was(l), 0, v))
           /\ Only(push_back(mem, l, v), l, C!Insert(Was(l), Len(Was(l)), v))
           /\ \A n \in ToSet(Chain(mem, l)) :
                  /\ Only(insert_before(mem, l, n, v), l, C!Insert(Was(l), Place(l, n) - 1, v))
                  /\ Only(insert_after(mem, l, n, v), l, C!Insert(Was(l), Place(l, n), v))

TwoListContract(l, k) ==
    /\ SamePolicy(mem, l, k) =>
           /\ Both(concat(mem, l, k), l, Was(l) \o Was(k), k, <<>>)
           /\ \A n \in ToSet(Chain(mem, l)) :
                  Both(splice_before(mem, l, n, k), l, C!Splice(Was(l), Place(l, n) - 1, Was(k)), k, <<>>)
    /\ ~SamePolicy(mem, l, k) => Both(concat(mem, l, k), l, Was(l), k, Was(k))

NewListContract(l, k) ==
    /\ \A n \in Positions(l) : split_crashes(mem, l, n)
           \/ Both(split_after(mem, l, n, k), l, C!Upto(Was(l), Place(l, n)), k, C!After(Was(l), Place(l, n)))
    /\ Len(Was(l)) <= Cardinality(Free(mem)) =>
           /\ Only(map(mem, l, k), k, C!Image(Was(l)))
           /\ Only(clone(mem, l, k), k, Was(l))
           /\ \A x \in Keys : Only(filter(mem, l, k, x), k, C!Those(Was(l), x))

OperationsKeepTheirContract ==
    \A l \in Lists : Lives(l) =>
        /\ OneListContract(l)
        /\ \A k \in Lists \ {l} : IF Lives(k) THEN TwoListContract(l, k) ELSE NewListContract(l, k)

(* "pos->next = NULL, R->prev = NULL" (dlist.h): splitting a list after    *)
(* one of its nodes gives two lists and does not end the program.          *)
SplitReturns == ~crashed

(* "Sortie : pointeur vers le noeud" (dlist.h:203-213): the result of      *)
(* find_first is the first node that matches, or NULL.                     *)
FindFirstReturnsNode ==
    \A l \in Lists, k \in Keys :
        Lives(l) => find_first(mem, l, k)
                       = IF find_if(mem, l, k) = 0 THEN NULL ELSE Chain(mem, l)[find_if(mem, l, k)]
=============================================================================
